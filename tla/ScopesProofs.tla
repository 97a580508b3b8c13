---------------------------- MODULE ScopesProofs ----------------------------
(***************************************************************************)
(* For any op files, whatever their expressions come to, and any order of    *)
(* the calls: no call has a map of a call of another op, and no map is in    *)
(* use when it is written to, by a call or by a reader of the event that it  *)
(* was published with, and every call sees and gives what it means, but in   *)
(* the runs that ScopesMeaning names.                                        *)
(***************************************************************************)
EXTENDS ScopesMeaning, FiniteSetTheorems, TLAPS

(* Ops *)

Maps == {"in", "own"} \X Calls

\* The maps of the op that c is in.  It holds of calls that are not made yet, too:
\* they have none but those that would be theirs.
Scoped(c) == /\ Within(scope[c][2]) = Within(c)
             /\ Within(outs[c][2]) = Within(c)

ScopesInv ==
    /\ scope \in [Calls -> Maps] /\ outs \in [Calls -> Maps]
    /\ at \in [Calls -> Nat]
    /\ \A c \in Calls : Scoped(c)

-----------------------------------------------------------------------------

\* The calls that a call makes are in the same file, or the one call of its own.
LEMMA ChildrenWithin ==
    ASSUME NEW c \in Calls, NEW i \in 1..Len(Run(c))
    PROVE  /\ Run(c)[i] \in Calls
           /\ Within(Run(c)[i]) = IF Kind(c) = "op" THEN c ELSE Within(c)
  BY ScopesAssumption DEF Run, Within, Kind

LEMMA OneCallOfAnOp ==
    ASSUME NEW c \in Calls, Kind(c) = "op" PROVE 1 \in 1..Len(Run(c)) /\ Children(c) = {Run(c)[1]}
<1>1. Len(Run(c)) = 1
  BY ScopesAssumption DEF Run, Kind
<1> QED
  BY <1>1 DEF Children

LEMMA InitScopes == ASSUME Init PROVE ScopesInv
  BY ScopesAssumption DEF Init, ScopesInv, Scoped, Maps, Within

\* What calls are given is of their own op, whoever calls them.
LEMMA Calling ==
    ASSUME ScopesInv, NEW c \in Calls, NEW p, NEW ds \in SUBSET Calls, NEW s \in Maps,
           \A d \in ds : Within(s[2]) = Within(d),
           GoCalling(c, p, ds, s), UNCHANGED outs, at' \in [Calls -> Nat]
    PROVE  ScopesInv'
<1>1. scope' = [d \in Calls |-> IF d \in ds THEN s ELSE scope[d]]
  BY DEF GoCalling
<1>2. scope' \in [Calls -> Maps]
  BY <1>1 DEF ScopesInv
<1>3. ASSUME NEW d \in Calls PROVE Scoped(d)'
  BY <1>1 DEF ScopesInv, Scoped, Within
<1> QED
  BY <1>2, <1>3 DEF ScopesInv

\* And what they end with.
LEMMA Ending ==
    ASSUME ScopesInv, NEW c \in Calls, NEW s \in Maps, NEW m, Within(s[2]) = Within(c),
           Finish(c, s, m), UNCHANGED <<scope, at>>
    PROVE  ScopesInv'
<1>1. outs' = [outs EXCEPT ![c] = s]
  BY DEF Finish
<1>2. ASSUME NEW d \in Calls PROVE Scoped(d)'
  BY <1>1 DEF ScopesInv, Scoped, Within
<1> QED
  BY <1>1, <1>2 DEF ScopesInv

LEMMA EndingWithOwn ==
    ASSUME ScopesInv, NEW c \in Calls, NEW m, Finish(c, <<"own", c>>, m), UNCHANGED <<scope, at>>
    PROVE  ScopesInv'
<1>1. <<"own", c>> \in Maps /\ Within(<<"own", c>>[2]) = Within(c)
  BY DEF Maps, Within
<1> QED
  BY <1>1, Ending

LEMMA Resting ==
    ASSUME ScopesInv, UNCHANGED <<scope, outs>>, at' \in [Calls -> Nat] PROVE ScopesInv'
  BY DEF ScopesInv, Scoped, Within

\* A loop without vars outputs the map it was given.
LEMMA EndingLoop ==
    ASSUME ScopesInv, NEW c \in Calls, NEW m, EndLoop(c, m), UNCHANGED <<scope, at>>
    PROVE  ScopesInv'
<1>1. CASE CallSpec[c].hasVars
  BY <1>1, EndingWithOwn DEF EndLoop, EndWith
<1>2. CASE ~CallSpec[c].hasVars
  <2>1. scope[c] \in Maps /\ Within(scope[c][2]) = Within(c)
    BY DEF ScopesInv, Scoped
  <2>2. Finish(c, scope[c], Deref(scope[c]))
    BY <1>2 DEF EndLoop
  <2> QED
    BY <2>1, <2>2, Ending
<1> QED
  BY <1>1, <1>2

\* An iteration has a map of its own or the loop's.
LEMMA CallingIteration ==
    ASSUME ScopesInv, NEW c \in Calls, NEW p, NEW m, CallIteration(c, p, m), UNCHANGED outs,
           Kind(c) # "op"
    PROVE  ScopesInv'
<1> DEFINE d == Run(c)[at[c] + 1]
<1>1. at[c] \in Nat /\ at[c] < Len(Run(c)) /\ Len(Run(c)) \in Nat
  BY ScopesAssumption DEF ScopesInv, CallIteration, Run
<1>2. d \in Calls /\ Within(d) = Within(c)
  BY <1>1, ChildrenWithin
<1>3. at' \in [Calls -> Nat]
  BY <1>1 DEF ScopesInv, CallIteration
<1>4. GivenTo(c, d) \in Maps /\ Within(GivenTo(c, d)[2]) = Within(d)
  BY <1>2 DEF GivenTo, ScopesInv, Scoped, Maps, Within
<1>5. GoCalling(c, p, {d}, GivenTo(c, d))
  BY DEF CallIteration
<1> QED
  BY <1>2, <1>3, <1>4, <1>5, Calling

-----------------------------------------------------------------------------

LEMMA NextScopes == ASSUME ScopesInv, [Next]_vars PROVE ScopesInv'
<1>1. CASE UNCHANGED vars
  BY <1>1, Resting DEF vars, ScopesInv
<1>2. ASSUME NEW c \in Calls, Step(c) PROVE ScopesInv'
  <2>0. /\ at \in [Calls -> Nat] /\ scope[c] \in Maps /\ Within(scope[c][2]) = Within(c)
        /\ <<"own", c>> \in Maps /\ Within(<<"own", c>>[2]) = Within(c)
    BY DEF ScopesInv, Scoped, Maps, Within
  <2>1. CASE Interpret(c)
    <3>1. \/ UNCHANGED outs
          \/ Finish(c, <<"own", c>>, Empty)
      BY <2>1 DEF Interpret, InterpretedAs
    <3>2. UNCHANGED <<scope, at>>
      BY <2>1 DEF Interpret
    <3> QED
      BY <3>1, <3>2, <2>0, Resting, EndingWithOwn
  <2>2. CASE RunContainer(c)
    BY <2>2, EndingWithOwn DEF RunContainer, EndWith
  <2>3. CASE CallOp(c)
    <3>1. /\ 1 \in 1..Len(Run(c)) /\ Children(c) = {Run(c)[1]} /\ Run(c)[1] \in Calls
      BY <2>3, OneCallOfAnOp, ChildrenWithin DEF CallOp
    <3>2. <<"in", Run(c)[1]>> \in Maps /\ <<"in", Run(c)[1]>>[2] = Run(c)[1]
      BY <3>1 DEF Maps
    <3>3. /\ GoCalling(c, "waiting", {Run(c)[1]}, <<"in", Run(c)[1]>>)
          /\ UNCHANGED outs /\ at' \in [Calls -> Nat]
      BY <2>3, <3>1, <2>0 DEF CallOp
    <3> QED
      BY <3>1, <3>2, <3>3, Calling
  <2>4. CASE EndOp(c)
    <3>1. \/ UNCHANGED outs
          \/ \E m : Finish(c, <<"own", c>>, m)
      BY <2>4 DEF EndOp, EndOpWith, EndWith
    <3>2. UNCHANGED <<scope, at>>
      BY <2>4 DEF EndOp
    <3> QED
      BY <3>1, <3>2, <2>0, Resting, EndingWithOwn
  <2>5. CASE BeginSerial(c)
    BY <2>5, <2>0, Resting DEF BeginSerial
  <2>6. CASE CallNext(c)
    <3> DEFINE d == Run(c)[at[c] + 1]
    <3>1. at[c] \in Nat /\ at[c] < Len(Run(c)) /\ Len(Run(c)) \in Nat /\ Kind(c) = "serial"
      BY <2>6, <2>0, ScopesAssumption DEF CallNext, Run
    <3>2. d \in Calls /\ Within(d) = Within(c)
      BY <3>1, ChildrenWithin
    <3>3. GoCalling(c, "waiting", {d}, <<"own", c>>) /\ UNCHANGED outs /\ at' \in [Calls -> Nat]
      BY <2>6, <2>0 DEF CallNext
    <3> QED
      BY <3>2, <3>3, <2>0, Calling
  <2>7. CASE TakeOutputs(c)
    <3>1. UNCHANGED <<scope, outs>> /\ at' \in [Calls -> Nat]
      BY <2>7, <2>0 DEF TakeOutputs
    <3> QED
      BY <3>1, Resting
  <2>8. CASE EndSerial(c)
    BY <2>8, EndingWithOwn DEF EndSerial
  <2>9. CASE CallAll(c)
    <3>1. Children(c) \in SUBSET Calls /\ \A d \in Children(c) : Within(d) = Within(c)
      BY <2>9, ChildrenWithin DEF CallAll, Children
    <3>2. /\ GoCalling(c, "waiting", Children(c), scope[c]) /\ UNCHANGED outs
          /\ at' \in [Calls -> Nat]
      BY <2>9, <2>0 DEF CallAll
    <3> QED
      BY <3>1, <3>2, <2>0, Calling
  <2>10. CASE EndParallel(c)
    <3>1. \E m : Finish(c, <<"own", c>>, m)
      BY <2>10 DEF EndParallel, EndWith
    <3> QED
      BY <2>10, <3>1, EndingWithOwn DEF EndParallel
  <2>11. CASE Iterate(c)
    <3>1. Kind(c) # "op"
      BY <2>11 DEF Iterate
    <3>2. \/ \E m : EndLoop(c, m) /\ UNCHANGED <<scope, at>>
          \/ UNCHANGED <<scope, outs, at>>
          \/ \E m : CallIteration(c, "waiting", m) /\ UNCHANGED outs
      BY <2>11 DEF Iterate, IterateBy, FailToIterate
    <3> QED
      BY <3>1, <3>2, <2>0, EndingLoop, Resting, CallingIteration
  <2>12. CASE TakeIteration(c)
    BY <2>12, <2>0, Resting DEF TakeIteration
  <2>13. CASE Launch(c)
    <3>1. Kind(c) # "op"
      BY <2>13 DEF Launch
    <3>2. \/ UNCHANGED <<scope, outs, at>>
          \/ Finish(c, <<"own", c>>, Empty) /\ UNCHANGED <<scope, at>>
          \/ \E m : CallIteration(c, "begun", m) /\ UNCHANGED outs
      BY <2>13 DEF Launch, LaunchBy, FailToIterate
    <3> QED
      BY <3>1, <3>2, <2>0, EndingWithOwn, Resting, CallingIteration
  <2>14. CASE EndParallelLoop(c)
    <3>1. \/ \E m : Finish(c, <<"own", c>>, m)
          \/ \E m : Finish(c, scope[c], m)
      BY <2>14 DEF EndParallelLoop, LeaveParallelLoop
    <3>2. UNCHANGED <<scope, at>>
      BY <2>14 DEF EndParallelLoop
    <3> QED
      BY <3>1, <3>2, <2>0, Ending
  <2> QED
    BY <1>2, <2>1, <2>2, <2>3, <2>4, <2>5, <2>6, <2>7, <2>8, <2>9, <2>10, <2>11, <2>12,
       <2>13, <2>14 DEF Step
<1> QED
  BY <1>1, <1>2 DEF Next

-----------------------------------------------------------------------------

\* Variables are scoped to each op (OpsAreScoped), though callers hand on their own
\* maps and write to those they were given.
THEOREM VariablesStayWithinOps == Spec => []OpsAreScoped
<1>1. Init => ScopesInv
  BY InitScopes
<1>2. ScopesInv /\ [Next]_vars => ScopesInv'
  BY NextScopes
<1>3. ScopesInv => OpsAreScoped
  BY DEF ScopesInv, Scoped, OpsAreScoped
<1> QED
  BY <1>1, <1>2, <1>3, PTL DEF Spec

-----------------------------------------------------------------------------
(* The tree of calls *)

LEMMA FamilyFacts ==
    ASSUME NEW c \in Calls
    PROVE  /\ Family[c] \subseteq Calls /\ c \in Family[c]
           /\ \A d \in Family[c] :
                 /\ Family[d] \subseteq Family[c]
                 /\ d # c => \E y \in Children(c) : d \in Family[y]
           /\ \A d \in Children(c) :
                 /\ d \in Calls /\ d \in Family[c] /\ d # c /\ c \notin Family[d]
                 /\ \A a \in Calls : d \in Family[a] => d = a \/ c \in Family[a]
<1>1. Children(c) \subseteq Calls
  BY ChildrenWithin DEF Children
<1>2. Family[c] = {c} \cup UNION {Family[d] : d \in Children(c)}
  BY TreeAssumption
<1>3. \A d \in Children(c) : d \in Family[d]
  BY <1>1, TreeAssumption
<1> QED
  BY <1>1, <1>2, <1>3, TreeAssumption

LEMMA NoneAboveItself ==
    ASSUME NEW c \in Calls, NEW d \in Family[c], c \in Family[d] PROVE c = d
<1>1. SUFFICES ASSUME c # d PROVE FALSE
  OBVIOUS
<1>2. PICK y \in Children(c) : d \in Family[y]
  BY <1>1, FamilyFacts
<1>3. y \in Calls /\ c \notin Family[y]
  BY FamilyFacts
<1> QED
  BY <1>2, <1>3, FamilyFacts

LEMMA OneParent ==
    ASSUME NEW c \in Calls, NEW d \in Calls, NEW x \in Children(c), x \in Children(d) PROVE c = d
<1>1. x \in Family[c] /\ x # c /\ x \in Family[d] /\ x # d
  BY FamilyFacts
<1>2. c \in Family[d] /\ d \in Family[c]
  BY <1>1, FamilyFacts
<1> QED
  BY <1>2, NoneAboveItself

\* Who hands its map on to a call that writes to it is said to write, too.
LEMMA WritingIsHanded ==
    ASSUME NEW c \in Calls, Hands(c), NEW d \in Children(c), Writes[d] PROVE Writes[c]
  BY TreeAssumption DEF Hands

-----------------------------------------------------------------------------
(* Maps in use *)

Live(c) == pc[c] \in {"called", "begun", "waiting"}
Below(c) == Family[c] \ {c}

\* Which of the calls that c makes may be live.
LiveBelow(c, i) ==
    IF pc[c] = "begun" THEN Kind(c) = "parallelLoop" /\ i <= at[c]
    ELSE /\ pc[c] = "waiting"
         /\ Kind(c) = "serial" => i = at[c] + 1
         /\ Kind(c) = "serialLoop" => i = at[c]
         /\ Kind(c) = "parallelLoop" => i <= at[c]

Nested(c) ==
    /\ \A i \in 1..Len(Run(c)) : Live(Run(c)[i]) => LiveBelow(c, i)
    /\ ~Live(c) => \A d \in Family[c] : ~Live(d)
    /\ Live(c) => \E r \in Roots : pc[r] # "idle" /\ c \in Family[r]
    /\ (Kind(c) = "serialLoop" /\ pc[c] = "waiting") => at[c] > 0

\* A map is handed down, from the call it was made for or that made it.
HandedDown(c) ==
    Live(c) => /\ c \in Family[scope[c][2]]
               /\ scope[c][1] = "own" => c # scope[c][2]
               /\ Hands(c) => \A d \in Children(c) : Live(d) => scope[d] = scope[c]

\* If a call below another has the same map then it is because the other one hands
\* it on, and what writes to it below is a reason to say that the other one does.
SharedBelow(c, d) ==
    (Live(c) /\ Live(d) /\ d \in Below(c) /\ scope[c] = scope[d])
        => Hands(c) /\ (Writes[d] => Writes[c])

\* Calls that are side by side write to no map that they share.
SharedBeside(c, d) ==
    (Live(c) /\ Live(d) /\ c \notin Family[d] /\ d \notin Family[c] /\ scope[c] = scope[d])
        => ~Writes[c] /\ ~Writes[d]

SharingInv ==
    /\ ScopesInv
    /\ pc \in [Calls -> {"idle", "called", "begun", "waiting", "ended"}]
    /\ \A c \in Calls : Nested(c) /\ HandedDown(c)
    /\ \A c, d \in Calls : SharedBelow(c, d)
    /\ ~Exposed => \A c, d \in Calls : SharedBeside(c, d)

-----------------------------------------------------------------------------

LEMMA LiveAbove ==
    ASSUME SharingInv, NEW c \in Calls, NEW d \in Family[c], Live(d) PROVE Live(c)
  BY DEF SharingInv, Nested

\* What is live below a call is so by one of the calls that it made.
LEMMA LiveByChild ==
    ASSUME SharingInv, NEW c \in Calls, NEW d \in Below(c), Live(d)
    PROVE  \E y \in Children(c) : y \in Calls /\ Live(y) /\ d \in Family[y]
<1>1. PICK y \in Children(c) : d \in Family[y]
  BY FamilyFacts DEF Below
<1>2. y \in Calls
  BY FamilyFacts
<1> QED
  BY <1>1, <1>2, LiveAbove

LEMMA LiveIsNotExposed ==
    ASSUME SharingInv, ~Exposed, NEW c \in Calls, Live(c) PROVE ~Exposes(c)
<1>1. PICK r \in Roots : pc[r] # "idle" /\ c \in Family[r]
  BY DEF SharingInv, Nested
<1> QED
  BY <1>1 DEF Exposed, ExposedRoots

LEMMA FreshIn ==
    ASSUME SharingInv, NEW e \in Calls, ~Live(e), NEW d \in Calls, Live(d)
    PROVE  scope[d] # <<"in", e>>
<1>1. SUFFICES ASSUME scope[d] = <<"in", e>> PROVE FALSE
  OBVIOUS
<1>2. d \in Family[e]
  BY <1>1 DEF SharingInv, HandedDown
<1> QED
  BY <1>2, LiveAbove

LEMMA FreshOwn ==
    ASSUME SharingInv, NEW c \in Calls, \A y \in Children(c) : ~Live(y), NEW d \in Calls, Live(d)
    PROVE  scope[d] # <<"own", c>>
<1>1. SUFFICES ASSUME scope[d] = <<"own", c>> PROVE FALSE
  OBVIOUS
<1>2. d \in Below(c)
  BY <1>1 DEF SharingInv, HandedDown, Below
<1> QED
  BY <1>2, LiveByChild

\* None of the calls it makes is to be waited for.
Quiet(x) == \A y \in Children(x) : ~Live(y)

\* Who has the map that a call writes to, once its own calls are over, is one that
\* handed it on.
LEMMA AboveWriter ==
    ASSUME SharingInv, ~Exposed, NEW x \in Calls, Live(x), Writes[x], Quiet(x),
           NEW y \in Calls, Live(y), y # x, scope[y] = scope[x]
    PROVE  /\ Hands(y) /\ Writes[y] /\ pc[y] = "waiting" /\ Kind(y) # "parallelLoop"
           /\ \E z \in Children(y) : z \in Calls /\ Live(z) /\ Writes[z]
<1>1. y \notin Family[x]
  BY LiveByChild DEF Below, Quiet
<1>2. x \in Family[y]
  BY <1>1 DEF SharingInv, SharedBeside
<1>3. Hands(y) /\ Writes[y]
  BY <1>2 DEF SharingInv, SharedBelow, Below
<1>4. PICK z \in Children(y) : z \in Calls /\ Live(z) /\ x \in Family[z]
  BY <1>2, LiveByChild DEF Below
<1>5. scope[z] = scope[y]
  BY <1>3, <1>4 DEF SharingInv, HandedDown
<1>6. Writes[z]
  <2>1. CASE x = z
    BY <2>1
  <2>2. CASE x # z
    BY <1>4, <1>5, <2>2 DEF SharingInv, SharedBelow, Below
  <2> QED
    BY <2>1, <2>2
<1>7. Kind(y) # "parallelLoop"
  BY <1>3, <1>4, <1>6, LiveIsNotExposed DEF Exposes
<1>8. pc[y] = "waiting"
  <2>1. PICK i \in 1..Len(Run(y)) : z = Run(y)[i]
    BY DEF Children
  <2>2. LiveBelow(y, i)
    BY <1>4, <2>1 DEF SharingInv, Nested
  <2> QED
    BY <1>7, <2>2 DEF LiveBelow
<1> QED
  BY <1>3, <1>4, <1>6, <1>7, <1>8

\* A call that writes to the map it was given, once its own calls have ended, finds
\* nobody who uses it.
LEMMA WritesAlone ==
    ASSUME SharingInv, ~Exposed, NEW c \in Calls, Live(c), Writes[c],
           \A y \in Children(c) : ~Live(y)
    PROVE  Sharing(c, scope[c]) = {}
<1>1. SUFFICES ASSUME NEW d \in Calls, d # c, scope[d] = scope[c], Uses(d) PROVE FALSE
  BY DEF Sharing
<1>2. Live(d)
  BY <1>1 DEF Uses, Live
<1>3. pc[d] = "waiting" /\ \E z \in Children(d) : Live(z)
  BY <1>1, <1>2, AboveWriter DEF Quiet
<1>4. PICK i \in 1..Len(Run(d)) : Live(Run(d)[i])
  BY <1>3 DEF Children
<1>5. LiveBelow(d, i)
  BY <1>4 DEF SharingInv, Nested
<1>6. /\ Kind(d) \in {"serialLoop", "parallelLoop"}
      /\ \A j \in 1..at[d] : pc[Run(d)[j]] = "ended"
  BY <1>1, <1>3 DEF Uses
<1>7. at[d] \in Nat
  BY DEF SharingInv, ScopesInv
<1>8. i \in 1..at[d]
  BY <1>3, <1>5, <1>6, <1>7 DEF LiveBelow
<1> QED
  BY <1>4, <1>6, <1>8 DEF Live

-----------------------------------------------------------------------------
(* Steps *)

Begun(c) == pc[c] \in {"begun", "waiting"}
IsLoop(c) == Kind(c) \in {"serialLoop", "parallelLoop"}

\* What a call ends with: a map that it made, or the one that it was given.
EndsWith(c, s) == s = <<"own", c>> \/ (s = scope[c] /\ IsLoop(c) /\ ~CallSpec[c].hasVars)

\* A call goes on or ends, and calls no others.
Continues(c, p) ==
    /\ Live(c) /\ p \in {"begun", "waiting", "ended"} /\ pc' = [pc EXCEPT ![c] = p]
    /\ UNCHANGED scope /\ \A d \in Calls \ {c} : at'[d] = at[d]
    /\ \A i \in 1..Len(Run(c)) : Live(Run(c)[i]) => LiveBelow(c, i)'
    /\ (Kind(c) = "serialLoop" /\ p = "waiting") => at'[c] > 0
    /\ IF p = "ended" THEN \E s : EndsWith(c, s) /\ outs' = [outs EXCEPT ![c] = s]
                      ELSE UNCHANGED outs

LEMMA GoingOn ==
    ASSUME SharingInv, ScopesInv', NEW c \in Calls, NEW p, Continues(c, p)
    PROVE  SharingInv'
<1>0. /\ Live(c) /\ p \in {"begun", "waiting", "ended"} /\ pc' = [pc EXCEPT ![c] = p]
      /\ UNCHANGED scope /\ \A d \in Calls \ {c} : at'[d] = at[d]
      /\ \A i \in 1..Len(Run(c)) : Live(Run(c)[i]) => LiveBelow(c, i)'
      /\ (Kind(c) = "serialLoop" /\ p = "waiting") => at'[c] > 0
  BY DEF Continues
<1>1. /\ pc' \in [Calls -> {"idle", "called", "begun", "waiting", "ended"}]
      /\ pc'[c] = p /\ \A d \in Calls : d # c => pc'[d] = pc[d]
  BY <1>0 DEF SharingInv
<1>2. \A d \in Calls : Live(d)' => Live(d)
  BY <1>0, <1>1 DEF Live
<1>3. \A d \in Calls : pc[d] # "idle" => pc'[d] # "idle"
  BY <1>0, <1>1
<1>4. ASSUME NEW d \in Calls PROVE Nested(d)'
  <2>1. Nested(d) /\ \A i \in 1..Len(Run(d)) : Run(d)[i] \in Calls
    BY ChildrenWithin DEF SharingInv
  <2>2. \A i \in 1..Len(Run(d)) : Live(Run(d)[i])' => LiveBelow(d, i)'
    <3>1. CASE d = c
      BY <1>0, <2>1, <1>2, <3>1
    <3>2. CASE d # c
      BY <1>0, <2>1, <1>1, <1>2, <3>2 DEF Nested, LiveBelow
    <3> QED
      BY <3>1, <3>2
  <2>3. ASSUME ~Live(d)', NEW x \in Family[d] PROVE ~Live(x)'
    <3>1. x \in Calls
      BY FamilyFacts
    <3>2. CASE d # c
      <4>1. ~Live(d)
        BY <1>1, <2>3, <3>2 DEF Live
      <4> QED
        BY <4>1, <3>1, <1>2, <2>1 DEF Nested
    <3>3. CASE d = c
      <4>1. \A y \in Children(c) : ~Live(y)
        <5>1. pc'[c] = "ended"
          BY <1>0, <1>1, <2>3, <3>3 DEF Live
        <5> QED
          BY <1>0, <5>1 DEF Children, LiveBelow
      <4>2. CASE x = c
        BY <4>2, <2>3, <3>3
      <4>3. CASE x # c
        BY <4>1, <4>3, <3>1, <3>3, <1>2, LiveByChild DEF Below
      <4> QED
        BY <4>2, <4>3
    <3> QED
      BY <3>2, <3>3
  <2>4. Live(d)' => \E r \in Roots : pc'[r] # "idle" /\ d \in Family[r]
    BY <1>2, <1>3, <2>1, ScopesAssumption DEF Nested
  <2>5. (Kind(d) = "serialLoop" /\ pc'[d] = "waiting") => at'[d] > 0
    BY <1>0, <1>1, <2>1 DEF Nested
  <2> QED
    BY <2>2, <2>3, <2>4, <2>5 DEF Nested, Kind, Run
<1>5. ASSUME NEW d \in Calls PROVE HandedDown(d)'
  <2>1. HandedDown(d) /\ \A x \in Children(d) : x \in Calls
    BY FamilyFacts DEF SharingInv
  <2> QED
    BY <1>0, <1>2, <2>1 DEF HandedDown, Children, Run, Hands, Kind
<1>6. ASSUME NEW a \in Calls, NEW b \in Calls PROVE SharedBelow(a, b)'
  BY <1>0, <1>2 DEF SharingInv, SharedBelow, Below, Hands, Kind
<1>7. ASSUME NEW a \in Calls, NEW b \in Calls, ~Exposed PROVE SharedBeside(a, b)'
  BY <1>0, <1>2, <1>7 DEF SharingInv, SharedBeside
<1>8. ~Exposed' => ~Exposed
  BY <1>3, ScopesAssumption DEF Exposed, ExposedRoots, Exposes, Children, Run, Hands, Kind
<1> QED
  BY <1>1, <1>4, <1>5, <1>6, <1>7, <1>8 DEF SharingInv

\* What calls are given is a map that nobody has, or the caller's, if there are no
\* others at the time but in a parallel call.
Given(c, ds, s) ==
    \/ /\ ~Hands(c)
       /\ \A d \in Calls : Live(d) => scope[d] # s
       /\ \E e \in Calls :
             ds = {e} /\ (s = <<"in", e>> \/ (s = <<"own", c>> /\ Kind(c) = "serial"))
    \/ /\ Hands(c) /\ s = scope[c]
       /\ \A d \in Children(c) : Live(d) => Kind(c) = "parallelLoop"
       /\ \A d, e \in ds : d # e => Kind(c) = "parallel" /\ Len(Run(c)) > 1

CallsMore(c, p, ds, s) ==
    /\ Live(c) /\ p \in {"begun", "waiting"}
    /\ ds \subseteq Children(c) /\ \A d \in ds : ~Live(d)
    /\ GoCalling(c, p, ds, s) /\ Given(c, ds, s)
    /\ \A d \in Calls \ {c} : at'[d] = at[d]
    /\ \A i \in 1..Len(Run(c)) : Live(Run(c)[i])' => LiveBelow(c, i)'
    /\ (Kind(c) = "serialLoop" /\ p = "waiting") => at'[c] > 0

LEMMA CallsMoreFacts ==
    ASSUME SharingInv, NEW c \in Calls, NEW p, NEW ds, NEW s, CallsMore(c, p, ds, s)
    PROVE  /\ pc' \in [Calls -> {"idle", "called", "begun", "waiting", "ended"}]
           /\ ds \subseteq Calls /\ c \notin ds
           /\ \A d \in Calls :
                 /\ d \in ds => pc'[d] = "called" /\ scope'[d] = s /\ Live(d)' /\ ~Live(d)
                 /\ d \notin ds => scope'[d] = scope[d] /\ (Live(d)' <=> Live(d))
                 /\ (d \notin ds /\ d # c) => pc'[d] = pc[d] /\ at'[d] = at[d]
                 /\ pc[d] # "idle" => pc'[d] # "idle"
           /\ pc'[c] = p /\ Live(c) /\ Live(c)'
           /\ ~Exposed' => ~Exposed
<1>1. ds \subseteq Calls /\ c \notin ds
  BY FamilyFacts DEF CallsMore
<1>2. /\ pc' = [d \in Calls |-> IF d \in ds THEN "called" ELSE IF d = c THEN p ELSE pc[d]]
      /\ scope' = [d \in Calls |-> IF d \in ds THEN s ELSE scope[d]]
      /\ p \in {"begun", "waiting"}
  BY DEF CallsMore, GoCalling
<1>3. pc' \in [Calls -> {"idle", "called", "begun", "waiting", "ended"}]
  BY <1>1, <1>2 DEF SharingInv
<1>4. ASSUME NEW d \in Calls
      PROVE  /\ d \in ds => pc'[d] = "called" /\ scope'[d] = s /\ Live(d)' /\ ~Live(d)
             /\ d \notin ds => scope'[d] = scope[d] /\ (Live(d)' <=> Live(d))
             /\ (d \notin ds /\ d # c) => pc'[d] = pc[d] /\ at'[d] = at[d]
             /\ pc[d] # "idle" => pc'[d] # "idle"
  BY <1>1, <1>2 DEF CallsMore, Live
<1>5. pc'[c] = p /\ Live(c) /\ Live(c)'
  BY <1>1, <1>2 DEF CallsMore, Live
<1>6. ~Exposed' => ~Exposed
  BY <1>4, ScopesAssumption DEF Exposed, ExposedRoots, Exposes, Children, Run, Hands, Kind
<1> QED
  BY <1>1, <1>3, <1>4, <1>5, <1>6

LEMMA NewCallsAreAlone ==
    ASSUME SharingInv, NEW c \in Calls, NEW p, NEW ds, NEW s, CallsMore(c, p, ds, s),
           NEW d \in ds, NEW x \in Family[d], Live(x)'
    PROVE  x = d
<1>1. SUFFICES ASSUME x # d PROVE FALSE
  OBVIOUS
<1>2. d \in Calls /\ d \in Children(c) /\ x \in Calls /\ ~Live(d) /\ d # c
  BY CallsMoreFacts, FamilyFacts DEF CallsMore
<1>3. ~Live(x)
  BY <1>2, LiveAbove
<1>4. x \in ds
  BY <1>2, <1>3, CallsMoreFacts
<1>5. c \in Family[d]
  BY <1>1, <1>2, <1>4, FamilyFacts DEF CallsMore
<1> QED
  BY <1>2, <1>5, FamilyFacts

LEMMA CallingNested ==
    ASSUME SharingInv, NEW c \in Calls, NEW p, NEW ds, NEW s, CallsMore(c, p, ds, s),
           NEW d \in Calls
    PROVE  Nested(d)'
<1>1. Nested(d) /\ \A i \in 1..Len(Run(d)) : Run(d)[i] \in Calls /\ Run(d)[i] \in Children(d)
  BY ChildrenWithin DEF SharingInv, Children
<1>2. ASSUME NEW i \in 1..Len(Run(d)), Live(Run(d)[i])' PROVE LiveBelow(d, i)'
  <2>1. CASE d = c
    BY <1>2, <2>1 DEF CallsMore
  <2>2. CASE d \in ds
    <3>1. Run(d)[i] \in Family[d] /\ Run(d)[i] # d
      BY <1>1, FamilyFacts
    <3> QED
      BY <1>2, <2>2, <3>1, NewCallsAreAlone
  <2>3. CASE d # c /\ d \notin ds
    <3>1. Run(d)[i] \notin ds
      BY <1>1, <2>3, OneParent DEF CallsMore
    <3>2. LiveBelow(d, i)
      BY <1>1, <1>2, <3>1, CallsMoreFacts DEF Nested
    <3>3. pc'[d] = pc[d] /\ at'[d] = at[d]
      BY <2>3, CallsMoreFacts
    <3> QED
      BY <3>2, <3>3 DEF LiveBelow, Kind
  <2> QED
    BY <2>1, <2>2, <2>3
<1>3. ASSUME ~Live(d)', NEW x \in Family[d] PROVE ~Live(x)'
  <2>1. d \notin ds /\ ~Live(d) /\ x \in Calls
    BY <1>3, CallsMoreFacts, FamilyFacts
  <2>2. ~Live(x)
    BY <2>1, LiveAbove
  <2>3. SUFFICES ASSUME x \in ds PROVE FALSE
    BY <2>1, <2>2, CallsMoreFacts
  <2>4. c \in Family[d]
    BY <2>1, <2>3, FamilyFacts DEF CallsMore
  <2> QED
    BY <2>1, <2>4, LiveAbove, CallsMoreFacts
<1>4. ASSUME Live(d)' PROVE \E r \in Roots : pc'[r] # "idle" /\ d \in Family[r]
  <2>1. CASE d \notin ds
    <3>1. PICK r \in Roots : pc[r] # "idle" /\ d \in Family[r]
      BY <1>1, <1>4, <2>1, CallsMoreFacts DEF Nested
    <3> QED
      BY <3>1, CallsMoreFacts, ScopesAssumption
  <2>2. CASE d \in ds
    <3>1. PICK r \in Roots : pc[r] # "idle" /\ c \in Family[r]
      BY CallsMoreFacts DEF SharingInv, Nested
    <3>2. d \in Family[r] /\ r \in Calls
      BY <2>2, <3>1, FamilyFacts, ScopesAssumption DEF CallsMore
    <3> QED
      BY <3>1, <3>2, CallsMoreFacts
  <2> QED
    BY <2>1, <2>2
<1>5. (Kind(d) = "serialLoop" /\ pc'[d] = "waiting") => at'[d] > 0
  <2>1. CASE d = c
    BY <2>1, CallsMoreFacts DEF CallsMore
  <2>2. CASE d \in ds
    BY <2>2, CallsMoreFacts
  <2>3. CASE d # c /\ d \notin ds
    BY <1>1, <2>3, CallsMoreFacts DEF Nested
  <2> QED
    BY <2>1, <2>2, <2>3
<1> QED
  BY <1>2, <1>3, <1>4, <1>5 DEF Nested, Kind, Run

LEMMA CallingHandedDown ==
    ASSUME SharingInv, NEW c \in Calls, NEW p, NEW ds, NEW s, CallsMore(c, p, ds, s),
           NEW d \in Calls
    PROVE  HandedDown(d)'
<1>1. HandedDown(d) /\ HandedDown(c) /\ scope[c] \in Maps
  BY DEF SharingInv, ScopesInv
<1>2. CASE d \in ds
  <2>1. /\ scope'[d] = s /\ d \in Family[c] /\ d # c /\ d \in Family[d] /\ c \notin Family[d]
        /\ Live(c)
    BY <1>2, CallsMoreFacts, FamilyFacts DEF CallsMore
  <2>2. d \in Family[s[2]] /\ (s[1] = "own" => d # s[2])
    <3>1. CASE s \in {<<"in", d>>, <<"own", c>>}
      BY <2>1, <3>1
    <3>2. CASE s = scope[c]
      <4>1. s[2] \in Calls /\ c \in Family[s[2]]
        BY <1>1, <2>1, <3>2 DEF HandedDown, Maps
      <4> QED
        BY <2>1, <4>1, FamilyFacts
    <3> QED
      BY <1>2, <3>1, <3>2 DEF CallsMore, Given
  <2>3. \A x \in Children(d) : ~Live(x)'
    BY <1>2, NewCallsAreAlone, FamilyFacts
  <2> QED
    BY <2>1, <2>2, <2>3 DEF HandedDown, Children, Run
<1>3. CASE d \notin ds
  <2>1. SUFFICES ASSUME Live(d)' PROVE HandedDown(d)'
    BY DEF HandedDown
  <2>2. Live(d) /\ scope'[d] = scope[d]
    BY <1>3, <2>1, CallsMoreFacts
  <2>3. ASSUME Hands(d), NEW x \in Children(d), Live(x)' PROVE scope'[x] = scope[d]
    <3>1. CASE x \in ds
      <4>1. d = c
        BY <3>1, OneParent DEF CallsMore
      <4> QED
        BY <3>1, <4>1, <2>3, CallsMoreFacts DEF CallsMore, Given
    <3>2. CASE x \notin ds
      BY <1>1, <2>2, <2>3, <3>2, CallsMoreFacts, FamilyFacts DEF HandedDown
    <3> QED
      BY <3>1, <3>2
  <2> QED
    BY <1>1, <2>2, <2>3 DEF HandedDown, Children, Run, Hands, Kind
<1> QED
  BY <1>2, <1>3

LEMMA CallingBelow ==
    ASSUME SharingInv, NEW c \in Calls, NEW p, NEW ds, NEW s, CallsMore(c, p, ds, s),
           NEW a \in Calls, NEW b \in Calls
    PROVE  SharedBelow(a, b)'
<1>1. SUFFICES ASSUME Live(a)', Live(b)', b \in Below(a), scope'[a] = scope'[b]
               PROVE  Hands(a) /\ (Writes[b] => Writes[a])
  BY DEF SharedBelow, Below, Hands, Kind
<1>2. a \notin ds
  BY <1>1, NewCallsAreAlone DEF Below
<1>3. Live(a) /\ scope'[a] = scope[a]
  BY <1>1, <1>2, CallsMoreFacts
<1>4. CASE b \notin ds
  BY <1>1, <1>3, <1>4, CallsMoreFacts DEF SharingInv, SharedBelow
<1>5. CASE b \in ds
  <2>1. /\ scope[a] = s /\ c \in Family[a] /\ b \in Children(c)
    <3>1. b \in Children(c) /\ b \in Family[a] /\ b # a
      BY <1>1, <1>5 DEF Below, CallsMore
    <3>2. scope'[b] = s
      BY <1>5, CallsMoreFacts
    <3>3. c \in Family[a]
      BY <3>1, FamilyFacts
    <3> QED
      BY <1>1, <1>3, <3>1, <3>2, <3>3
  <2>2. Hands(c) /\ s = scope[c] /\ Live(c)
    BY <1>3, <2>1 DEF CallsMore, Given
  <2>3. Writes[b] => Writes[c]
    BY <2>1, <2>2, WritingIsHanded
  <2>4. CASE a = c
    BY <2>2, <2>3, <2>4
  <2>5. CASE a # c
    BY <1>3, <2>1, <2>2, <2>3, <2>5 DEF SharingInv, SharedBelow, Below
  <2> QED
    BY <2>4, <2>5
<1> QED
  BY <1>4, <1>5

LEMMA NewBeside ==
    ASSUME SharingInv, NEW c \in Calls, NEW p, NEW ds, NEW s, CallsMore(c, p, ds, s), ~Exposed,
           NEW e \in ds, NEW b \in Calls, Live(b)', e \notin Family[b], b \notin Family[e],
           scope'[b] = s
    PROVE  ~Writes[e] /\ ~Writes[b]
<1>1. e \in Children(c) /\ e \in Calls /\ e \in Family[c] /\ e \in Family[e] /\ ~Exposes(c) /\ Live(c)
  BY CallsMoreFacts, FamilyFacts, LiveIsNotExposed DEF CallsMore
<1>2. CASE b \in ds
  <2>1. b # e /\ b \in Children(c)
    BY <1>1, <1>2 DEF CallsMore
  <2>2. Hands(c) /\ Kind(c) = "parallel" /\ Len(Run(c)) > 1
    BY <1>2, <2>1 DEF CallsMore, Given
  <2> QED
    BY <1>1, <2>1, <2>2 DEF Exposes
<1>3. CASE b \notin ds
  <2>1. Live(b) /\ scope[b] = s
    BY <1>3, CallsMoreFacts
  <2>2. /\ Hands(c) /\ s = scope[c]
        /\ \A d \in Children(c) : Live(d) => Kind(c) = "parallelLoop"
    BY <2>1 DEF CallsMore, Given
  <2>3. b # c /\ c \notin Family[b]
    BY <1>1, FamilyFacts
  <2>4. CASE b \notin Family[c]
    <3>1. ~Writes[c] /\ ~Writes[b]
      BY <1>1, <2>1, <2>2, <2>3, <2>4 DEF SharingInv, SharedBeside
    <3> QED
      BY <1>1, <2>2, <3>1, WritingIsHanded
  <2>5. CASE b \in Family[c]
    <3>1. PICK y \in Children(c) : y \in Calls /\ Live(y) /\ b \in Family[y]
      BY <2>1, <2>3, <2>5, LiveByChild DEF Below
    <3>2. ~Writes[y] /\ ~Writes[e]
      BY <1>1, <2>2, <3>1 DEF Exposes
    <3>3. scope[y] = scope[c]
      BY <1>1, <2>2, <3>1 DEF SharingInv, HandedDown
    <3>4. CASE b = y
      BY <3>2, <3>4
    <3>5. CASE b # y
      BY <2>1, <2>2, <3>1, <3>2, <3>3, <3>5 DEF SharingInv, SharedBelow, Below
    <3> QED
      BY <3>2, <3>4, <3>5
  <2> QED
    BY <2>4, <2>5
<1> QED
  BY <1>2, <1>3

LEMMA CallingBeside ==
    ASSUME SharingInv, NEW c \in Calls, NEW p, NEW ds, NEW s, CallsMore(c, p, ds, s), ~Exposed,
           NEW a \in Calls, NEW b \in Calls
    PROVE  SharedBeside(a, b)'
<1>1. SUFFICES ASSUME Live(a)', Live(b)', a \notin Family[b], b \notin Family[a],
                      scope'[a] = scope'[b]
               PROVE  ~Writes[a] /\ ~Writes[b]
  BY DEF SharedBeside
<1>2. CASE a \in ds
  BY <1>1, <1>2, CallsMoreFacts, NewBeside
<1>3. CASE b \in ds
  BY <1>1, <1>3, CallsMoreFacts, NewBeside
<1>4. CASE a \notin ds /\ b \notin ds
  BY <1>1, <1>4, CallsMoreFacts DEF SharingInv, SharedBeside
<1> QED
  BY <1>2, <1>3, <1>4

LEMMA CallingMore ==
    ASSUME SharingInv, ScopesInv', NEW c \in Calls, NEW p, NEW ds, NEW s, CallsMore(c, p, ds, s)
    PROVE  SharingInv'
<1>1. pc' \in [Calls -> {"idle", "called", "begun", "waiting", "ended"}] /\ (~Exposed' => ~Exposed)
  BY CallsMoreFacts
<1>2. \A d \in Calls : Nested(d)' /\ HandedDown(d)'
  BY CallingNested, CallingHandedDown
<1>3. \A a, b \in Calls : SharedBelow(a, b)'
  BY CallingBelow
<1>4. ~Exposed => \A a, b \in Calls : SharedBeside(a, b)'
  BY CallingBeside
<1> QED
  BY <1>1, <1>2, <1>3, <1>4 DEF SharingInv

-----------------------------------------------------------------------------

LEMMA InitSharing == ASSUME Init PROVE SharingInv
<1>1. ScopesInv
  BY InitScopes
<1>2. PICK r \in Roots : pc = [c \in Calls |-> IF c = r THEN "called" ELSE "idle"]
  BY DEF Init
<1>3. /\ r \in Calls /\ r \in Family[r] /\ fate = "going"
      /\ \A c \in Calls : scope[c] = <<"in", c>> /\ c \in Family[c]
  BY <1>2, ScopesAssumption, FamilyFacts DEF Init
<1>4. \A c \in Calls : (Live(c) <=> c = r) /\ (pc[c] = "called" <=> c = r)
  BY <1>2 DEF Live
<1>5. ASSUME NEW c \in Calls PROVE Nested(c) /\ HandedDown(c)
  <2>1. \A d \in Family[c] : Live(d) => c = r
    BY <1>2, <1>4, FamilyFacts, TreeAssumption
  <2>2. \A d \in Children(c) : d \in Calls /\ ~Live(d)
    BY <1>2, <1>4, <2>1, FamilyFacts, TreeAssumption
  <2>3. \A i \in 1..Len(Run(c)) : ~Live(Run(c)[i])
    BY <2>2 DEF Children
  <2>4. pc[c] # "waiting"
    BY <1>2
  <2> QED
    BY <1>2, <1>3, <1>4, <2>1, <2>2, <2>3, <2>4 DEF Nested, HandedDown
<1>6. \A c, d \in Calls : SharedBelow(c, d) /\ SharedBeside(c, d)
  BY <1>3, <1>4 DEF SharedBelow, SharedBeside, Below
<1> QED
  BY <1>1, <1>2, <1>3, <1>5, <1>6 DEF SharingInv

\* A call whose calls are not live, and do not become so, goes on or ends.
LEMMA GoingOnAlone ==
    ASSUME SharingInv, NEW c \in Calls, Live(c),
           NEW p \in {"begun", "waiting"}, pc' = [pc EXCEPT ![c] = p],
           UNCHANGED <<scope, outs>>, \A d \in Calls \ {c} : at'[d] = at[d],
           \A y \in Children(c) : ~Live(y),
           Kind(c) = "serialLoop" => p # "waiting"
    PROVE  Continues(c, p)
<1>1. \A i \in 1..Len(Run(c)) : ~Live(Run(c)[i])
  BY DEF Children
<1> QED
  BY <1>1 DEF Continues

\* The run is over.
LEMMA Stopping ==
    ASSUME SharingInv, ScopesInv', UNCHANGED <<pc, scope, at>>
    PROVE  SharingInv'
<1>1. \A c \in Calls : Nested(c)' /\ HandedDown(c)'
  BY DEF SharingInv, Nested, HandedDown, Live, LiveBelow, Kind, Run, Hands, Children
<1>2. \A a, b \in Calls : SharedBelow(a, b)' /\ (SharedBeside(a, b) => SharedBeside(a, b)')
  BY DEF SharingInv, SharedBelow, SharedBeside, Live, Below, Hands, Kind
<1>3. Exposed' <=> Exposed
  BY DEF Exposed, ExposedRoots, Exposes, Children, Run, Hands, Kind
<1> QED
  BY <1>1, <1>2, <1>3 DEF SharingInv

\* What no call of c's is, when there can be none.
LEMMA NoneYet ==
    ASSUME SharingInv, NEW c \in Calls,
           \/ pc[c] = "called"
           \/ pc[c] = "begun" /\ Kind(c) # "parallelLoop"
    PROVE  \A y \in Children(c) : ~Live(y)
  BY DEF SharingInv, Nested, LiveBelow, Children

LEMMA EndsAlone ==
    ASSUME SharingInv, NEW c \in Calls, Live(c), NEW s, NEW m, Finish(c, s, m), EndsWith(c, s),
           UNCHANGED <<scope, at>>, \A y \in Children(c) : ~Live(y)
    PROVE  Continues(c, "ended")
<1>1. \A i \in 1..Len(Run(c)) : ~Live(Run(c)[i])
  BY DEF Children
<1> QED
  BY <1>1 DEF Continues, Finish, Go

\* The next call of a loop.
LEMMA IterationIsGiven ==
    ASSUME SharingInv, NEW c \in Calls,
           Kind(c) = "serialLoop" \/ Kind(c) = "parallelLoop", pc[c] = "begun",
           NEW p, p = IF Kind(c) = "serialLoop" THEN "waiting" ELSE "begun",
           NEW m, CallIteration(c, p, m)
    PROVE  \E ds, s : CallsMore(c, p, ds, s)
<1> DEFINE d == Run(c)[at[c] + 1]
<1>1. /\ at[c] \in Nat /\ at[c] < Len(Run(c)) /\ Len(Run(c)) \in Nat
      /\ at' = [at EXCEPT ![c] = at[c] + 1] /\ at \in [Calls -> Nat]
      /\ GoCalling(c, p, {d}, GivenTo(c, d))
  BY ScopesAssumption DEF SharingInv, ScopesInv, CallIteration, Run
<1>2. at[c] + 1 \in 1..Len(Run(c)) /\ d \in Children(c) /\ d \in Calls
  BY <1>1, ChildrenWithin DEF Children
<1>3. \A i \in 1..Len(Run(c)) : Live(Run(c)[i]) => Kind(c) = "parallelLoop" /\ i <= at[c]
  BY DEF SharingInv, Nested, LiveBelow
<1>4. ~Live(d)
  BY <1>1, <1>2, <1>3
<1>5. Live(c)
  BY DEF Live
<1>6. Given(c, {d}, GivenTo(c, d))
  <2>1. CASE CallSpec[c].hasVars
    <3>1. ~Hands(c) /\ GivenTo(c, d) = <<"in", d>>
      BY <2>1 DEF Hands, GivenTo
    <3>2. \A x \in Calls : Live(x) => scope[x] # GivenTo(c, d)
      BY <1>2, <1>4, <3>1, FreshIn
    <3> QED
      BY <1>2, <3>1, <3>2 DEF Given
  <2>2. CASE ~CallSpec[c].hasVars
    <3>1. Hands(c) /\ GivenTo(c, d) = scope[c]
      BY <2>2 DEF Hands, GivenTo
    <3>2. \A x \in Children(c) : Live(x) => Kind(c) = "parallelLoop"
      BY <1>3 DEF Children
    <3> QED
      BY <3>1, <3>2 DEF Given
  <2> QED
    BY <2>1, <2>2
<1>7. pc' = [x \in Calls |-> IF x \in {d} THEN "called" ELSE IF x = c THEN p ELSE pc[x]]
  BY <1>1 DEF GoCalling
<1>8. ASSUME NEW i \in 1..Len(Run(c)), Live(Run(c)[i])' PROVE LiveBelow(c, i)'
  <2>1. c # d /\ Run(c)[i] \in Calls /\ Run(c)[i] # c
    BY <1>2, FamilyFacts, ChildrenWithin DEF Children
  <2>2. pc'[c] = p /\ at'[c] = at[c] + 1
    BY <1>1, <1>7, <2>1
  <2>3. CASE Run(c)[i] = d
    <3>1. i = at[c] + 1
      BY <1>2, <2>3, TreeAssumption
    <3> QED
      BY <1>1, <2>2, <3>1 DEF LiveBelow, Kind
  <2>4. CASE Run(c)[i] # d
    <3>1. Live(Run(c)[i])
      BY <1>7, <1>8, <2>1, <2>4 DEF Live
    <3>2. Kind(c) = "parallelLoop" /\ i <= at[c]
      BY <1>3, <3>1
    <3> QED
      BY <1>1, <2>2, <3>2 DEF LiveBelow, Kind
  <2> QED
    BY <2>3, <2>4
<1>9. CallsMore(c, p, {d}, GivenTo(c, d))
  BY <1>1, <1>2, <1>4, <1>5, <1>6, <1>8 DEF CallsMore
<1> QED
  BY <1>9

-----------------------------------------------------------------------------

\* A call goes on or ends, makes calls, or ends the run.
Progress(c) ==
    \/ UNCHANGED <<pc, scope, at, outs>>
    \/ \E p : Continues(c, p)
    \/ UNCHANGED outs /\ \E p, ds, s : CallsMore(c, p, ds, s)

LEMMA Progressing == ASSUME SharingInv, NEW c \in Calls, Step(c) PROVE Progress(c)
<1>0. /\ at \in [Calls -> Nat] /\ Len(Run(c)) \in Nat
      /\ \A i \in 1..Len(Run(c)) : Run(c)[i] \in Calls /\ Run(c)[i] \in Children(c)
      /\ \A d \in Children(c) : d \in Calls /\ \E i \in 1..Len(Run(c)) : d = Run(c)[i]
  BY ScopesAssumption, ChildrenWithin DEF SharingInv, ScopesInv, Run, Children
<1>1. CASE Interpret(c)
  <2>1. Live(c) /\ \A y \in Children(c) : ~Live(y)
    BY <1>1, NoneYet DEF Interpret, Going, Live
  <2>2. UNCHANGED <<scope, at>>
    BY <1>1 DEF Interpret
  <2>3. \/ UNCHANGED <<pc, outs>>
        \/ Finish(c, <<"own", c>>, Empty) /\ EndsWith(c, <<"own", c>>)
        \/ Go(c, "begun") /\ UNCHANGED outs
    BY <1>1 DEF Interpret, InterpretedAs, EndsWith
  <2> QED
    BY <2>1, <2>2, <2>3, EndsAlone, GoingOnAlone DEF Go, Progress
<1>2. CASE RunContainer(c)
  <2>1. Live(c) /\ \A y \in Children(c) : ~Live(y)
    BY <1>2, NoneYet DEF RunContainer, Going, Live
  <2> QED
    BY <1>2, <2>1, EndsAlone DEF RunContainer, EndWith, EndsWith, Progress
<1>3. CASE CallOp(c)
  <2> DEFINE d == Run(c)[1]
  <2>1. /\ Live(c) /\ pc[c] = "begun" /\ Kind(c) = "op"
        /\ GoCalling(c, "waiting", Children(c), <<"in", d>>) /\ UNCHANGED at
    BY <1>3 DEF CallOp, Going, Live
  <2>2. \A y \in Children(c) : ~Live(y)
    BY <2>1, NoneYet
  <2>3. Children(c) = {d} /\ d \in Calls /\ ~Live(d)
    BY <1>0, <2>1, <2>2, OneCallOfAnOp
  <2>4. \A x \in Calls : Live(x) => scope[x] # <<"in", d>>
    BY <2>3, FreshIn
  <2>5. Given(c, Children(c), <<"in", d>>)
    BY <2>1, <2>3, <2>4 DEF Given, Hands
  <2>6. c \notin Children(c)
    BY FamilyFacts
  <2>7. pc'[c] = "waiting"
    BY <2>1, <2>6 DEF GoCalling
  <2>8. \A i \in 1..Len(Run(c)) : LiveBelow(c, i)'
    BY <2>1, <2>7 DEF LiveBelow, Kind
  <2>9. CallsMore(c, "waiting", Children(c), <<"in", d>>)
    BY <2>1, <2>2, <2>5, <2>8 DEF CallsMore
  <2> QED
    BY <1>3, <2>9 DEF CallOp, Progress
<1>4. CASE EndOp(c)
  <2>1. Live(c) /\ \A y \in Children(c) : ~Live(y)
    BY <1>4 DEF EndOp, Going, Live
  <2>2. UNCHANGED <<scope, at>>
    BY <1>4 DEF EndOp
  <2>3. \/ UNCHANGED <<pc, outs>>
        \/ \E m : Finish(c, <<"own", c>>, m) /\ EndsWith(c, <<"own", c>>)
    BY <1>4 DEF EndOp, EndOpWith, EndWith, EndsWith
  <2> QED
    BY <2>1, <2>2, <2>3, EndsAlone DEF Progress
<1>5. CASE BeginSerial(c)
  <2>1. Live(c) /\ Kind(c) = "serial" /\ \A y \in Children(c) : ~Live(y)
    BY <1>5, NoneYet DEF BeginSerial, Going, Live
  <2> QED
    BY <1>5, <2>1, GoingOnAlone DEF BeginSerial, Go, Progress
<1>6. CASE CallNext(c)
  <2> DEFINE d == Run(c)[at[c] + 1]
  <2>1. /\ Live(c) /\ pc[c] = "waiting" /\ Kind(c) = "serial" /\ at[c] < Len(Run(c))
        /\ pc[d] = "idle" /\ GoCalling(c, "waiting", {d}, <<"own", c>>) /\ UNCHANGED at
    BY <1>6 DEF CallNext, Going, Live
  <2>2. at[c] + 1 \in 1..Len(Run(c)) /\ d \in Children(c) /\ d \in Calls /\ ~Live(d) /\ c # d
    BY <1>0, <2>1, FamilyFacts DEF Live
  <2>3. \A i \in 1..Len(Run(c)) : Live(Run(c)[i]) => i = at[c] + 1
    BY <2>1 DEF SharingInv, Nested, LiveBelow
  <2>4. \A y \in Children(c) : ~Live(y)
    BY <1>0, <2>2, <2>3
  <2>5. \A x \in Calls : Live(x) => scope[x] # <<"own", c>>
    BY <2>4, FreshOwn
  <2>6. Given(c, {d}, <<"own", c>>)
    BY <2>1, <2>2, <2>5 DEF Given, Hands
  <2>7. pc' = [x \in Calls |-> IF x \in {d} THEN "called" ELSE IF x = c THEN "waiting" ELSE pc[x]]
    BY <2>1 DEF GoCalling
  <2>8. ASSUME NEW i \in 1..Len(Run(c)), Live(Run(c)[i])' PROVE LiveBelow(c, i)'
    <3>1. Run(c)[i] = d
      <4>1. Run(c)[i] \in Calls /\ Run(c)[i] \in Children(c) /\ Run(c)[i] # c
        BY <1>0, FamilyFacts
      <4>2. ~Live(Run(c)[i])
        BY <2>4, <4>1
      <4> QED
        BY <2>7, <2>8, <4>1, <4>2 DEF Live
    <3>2. i = at[c] + 1
      BY <2>2, <3>1, TreeAssumption
    <3>3. pc'[c] = "waiting" /\ at'[c] = at[c]
      BY <2>1, <2>2, <2>7
    <3> QED
      BY <2>1, <3>2, <3>3 DEF LiveBelow, Kind
  <2>9. CallsMore(c, "waiting", {d}, <<"own", c>>)
    BY <2>1, <2>2, <2>6, <2>8 DEF CallsMore
  <2> QED
    BY <1>6, <2>9 DEF CallNext, Progress
<1>7. CASE TakeOutputs(c)
  <2>1. /\ Live(c) /\ pc[c] = "waiting" /\ Kind(c) = "serial" /\ at[c] < Len(Run(c))
        /\ pc[Run(c)[at[c] + 1]] = "ended" /\ UNCHANGED <<pc, scope, outs>>
        /\ at' = [at EXCEPT ![c] = at[c] + 1]
    BY <1>7 DEF TakeOutputs, Going, Live
  <2>2. \A i \in 1..Len(Run(c)) : Live(Run(c)[i]) => i = at[c] + 1
    BY <2>1 DEF SharingInv, Nested, LiveBelow
  <2>3. \A y \in Children(c) : ~Live(y)
    BY <1>0, <2>1, <2>2 DEF Live
  <2>4. pc' = [pc EXCEPT ![c] = "waiting"]
    BY <2>1 DEF SharingInv
  <2>5. \A d \in Calls \ {c} : at'[d] = at[d]
    BY <1>0, <2>1
  <2> QED
    BY <2>1, <2>3, <2>4, <2>5, GoingOnAlone DEF Progress
<1>8. CASE EndSerial(c)
  <2>1. Live(c) /\ pc[c] = "waiting" /\ Kind(c) = "serial" /\ at[c] = Len(Run(c))
    BY <1>8 DEF EndSerial, Going, Live
  <2>2. \A i \in 1..Len(Run(c)) : Live(Run(c)[i]) => i = at[c] + 1
    BY <2>1 DEF SharingInv, Nested, LiveBelow
  <2>3. \A y \in Children(c) : ~Live(y)
    BY <1>0, <2>1, <2>2
  <2> QED
    BY <1>8, <2>1, <2>3, EndsAlone DEF EndSerial, EndsWith, Progress
<1>9. CASE CallAll(c)
  <2>1. /\ Live(c) /\ pc[c] = "begun" /\ Kind(c) = "parallel"
        /\ GoCalling(c, "waiting", Children(c), scope[c]) /\ UNCHANGED at
    BY <1>9 DEF CallAll, Going, Live
  <2>2. \A y \in Children(c) : ~Live(y)
    BY <2>1, NoneYet
  <2>3. \A x, y \in Children(c) : x # y => Len(Run(c)) > 1
    BY <1>0
  <2>4. Given(c, Children(c), scope[c])
    BY <2>1, <2>2, <2>3 DEF Given, Hands
  <2>5. pc'[c] = "waiting"
    BY <2>1, FamilyFacts DEF GoCalling
  <2>6. \A i \in 1..Len(Run(c)) : LiveBelow(c, i)'
    BY <2>1, <2>5 DEF LiveBelow, Kind
  <2>7. CallsMore(c, "waiting", Children(c), scope[c])
    BY <2>1, <2>2, <2>4, <2>6 DEF CallsMore
  <2> QED
    BY <1>9, <2>7 DEF CallAll, Progress
<1>10. CASE EndParallel(c)
  <2>1. Live(c) /\ \A y \in Children(c) : ~Live(y)
    BY <1>10 DEF EndParallel, Going, Live
  <2>2. \E m : Finish(c, <<"own", c>>, m)
    BY <1>10 DEF EndParallel, EndWith
  <2> QED
    BY <1>10, <2>1, <2>2, EndsAlone DEF EndParallel, EndsWith, Progress
<1>11. CASE Iterate(c)
  <2>1. Live(c) /\ pc[c] = "begun" /\ Kind(c) = "serialLoop"
    BY <1>11 DEF Iterate, Going, Live
  <2>2. \A y \in Children(c) : ~Live(y)
    BY <2>1, NoneYet
  <2>3. \/ UNCHANGED <<scope, at>> /\ \E s, m : Finish(c, s, m) /\ EndsWith(c, s)
        \/ UNCHANGED <<pc, scope, at, outs>>
        \/ UNCHANGED outs /\ \E m : CallIteration(c, "waiting", m)
    BY <1>11, <2>1 DEF Iterate, IterateBy, FailToIterate, EndLoop, EndWith, EndsWith, IsLoop
  <2> QED
    BY <2>1, <2>2, <2>3, EndsAlone, IterationIsGiven DEF Progress
<1>12. CASE TakeIteration(c)
  <2> DEFINE d == Run(c)[at[c]]
  <2>1. /\ Live(c) /\ pc[c] = "waiting" /\ Kind(c) = "serialLoop" /\ pc[d] = "ended"
        /\ Go(c, "begun") /\ UNCHANGED <<scope, at, outs>>
    BY <1>12 DEF TakeIteration, Going, Live
  <2>2. at[c] > 0 /\ \A i \in 1..Len(Run(c)) : Live(Run(c)[i]) => i = at[c]
    BY <2>1 DEF SharingInv, Nested, LiveBelow
  <2>3. \A y \in Children(c) : ~Live(y)
    BY <1>0, <2>1, <2>2 DEF Live
  <2> QED
    BY <2>1, <2>3, GoingOnAlone DEF Go, Progress
<1>13. CASE Launch(c)
  <2>1. Live(c) /\ pc[c] = "begun" /\ Kind(c) = "parallelLoop"
    BY <1>13 DEF Launch, Going, Live
  <2>2. \A i \in 1..Len(Run(c)) : Live(Run(c)[i]) => i <= at[c]
    BY <2>1 DEF SharingInv, Nested, LiveBelow
  <2>3. \/ UNCHANGED <<pc, scope, at, outs>>
        \/ UNCHANGED <<scope, at>> /\ at[c] = 0 /\ Finish(c, <<"own", c>>, Empty)
        \/ UNCHANGED <<scope, at, outs>> /\ Go(c, "waiting")
        \/ UNCHANGED outs /\ \E m : CallIteration(c, "begun", m)
    BY <1>13 DEF Launch, LaunchBy, FailToIterate
  <2>4. CASE UNCHANGED <<pc, scope, at, outs>>
    BY <2>4 DEF Progress
  <2>5. CASE UNCHANGED <<scope, at>> /\ at[c] = 0 /\ Finish(c, <<"own", c>>, Empty)
    <3>1. \A y \in Children(c) : ~Live(y)
      BY <1>0, <2>2, <2>5
    <3> QED
      BY <2>1, <2>5, <3>1, EndsAlone DEF EndsWith, Progress
  <2>6. CASE UNCHANGED <<scope, at, outs>> /\ Go(c, "waiting")
    <3>1. pc' = [pc EXCEPT ![c] = "waiting"] /\ pc'[c] = "waiting"
      BY <2>6 DEF Go, SharingInv
    <3>2. \A i \in 1..Len(Run(c)) : Live(Run(c)[i]) => LiveBelow(c, i)'
      BY <2>1, <2>2, <2>6, <3>1 DEF LiveBelow, Kind
    <3>3. Continues(c, "waiting")
      BY <2>1, <2>6, <3>1, <3>2 DEF Continues
    <3> QED
      BY <3>3 DEF Progress
  <2>7. CASE UNCHANGED outs /\ \E m : CallIteration(c, "begun", m)
    BY <2>1, <2>7, IterationIsGiven DEF Progress
  <2> QED
    BY <2>3, <2>4, <2>5, <2>6, <2>7
<1>14. CASE EndParallelLoop(c)
  <2>1. /\ Live(c) /\ pc[c] = "waiting" /\ Kind(c) = "parallelLoop"
        /\ \A i \in 1..at[c] : pc[Run(c)[i]] = "ended"
        /\ UNCHANGED <<scope, at>>
    BY <1>14 DEF EndParallelLoop, Going, Live
  <2>2. \A i \in 1..Len(Run(c)) : Live(Run(c)[i]) => i <= at[c]
    BY <2>1 DEF SharingInv, Nested, LiveBelow
  <2>3. \A y \in Children(c) : ~Live(y)
    BY <1>0, <2>1, <2>2 DEF Live
  <2>4. \E s, m : Finish(c, s, m) /\ EndsWith(c, s)
    BY <1>14, <2>1 DEF EndParallelLoop, LeaveParallelLoop, EndsWith, IsLoop
  <2> QED
    BY <2>1, <2>3, <2>4, EndsAlone DEF Progress
<1> QED
  BY <1>1, <1>2, <1>3, <1>4, <1>5, <1>6, <1>7, <1>8, <1>9, <1>10, <1>11, <1>12, <1>13, <1>14
  DEF Step

LEMMA NextSharing == ASSUME SharingInv, [Next]_vars PROVE SharingInv'
<1>1. ScopesInv'
  BY NextScopes DEF SharingInv
<1>2. CASE UNCHANGED vars
  BY <1>1, <1>2, Stopping DEF vars
<1>3. ASSUME NEW c \in Calls, Step(c) PROVE SharingInv'
  BY <1>1, <1>3, Progressing, Stopping, GoingOn, CallingMore DEF Progress
<1> QED
  BY <1>2, <1>3 DEF Next

-----------------------------------------------------------------------------
(* Meaning *)

\* Each call's variables are in maps that others have too, so what is in them is said by
\* who has yet to read them: a call that was made sees its parent's meaning of it
\* (SeesRight), what it has output stays what it was until the parent has taken it
\* (Kept), and a call that goes on has what its calls have given it so far (GoesRight).
\* A step of x is then seen by x alone, for it writes to no map that is still to be read
\* by another call (Rewrites).

\* Every call but a root has one that makes it; none below an idle call is made.
Placed(c) ==
    /\ pc[c] # "idle" => c \in Roots \/ \E p \in Calls : c \in Children(p)
    /\ pc[c] = "idle" => \A d \in Family[c] : pc[d] = "idle"

\* How far a call has got with those that it makes.
Made(c, i) ==
    LET p == pc[Run(c)[i]] IN
    /\ pc[c] \in {"idle", "called"} => p = "idle"
    /\ (pc[c] = "begun" /\ ~IsLoop(c)) => p = "idle"
    /\ (Begun(c) /\ IsLoop(c)) => (p = "idle" <=> i > at[c])
    /\ (Begun(c) /\ Kind(c) = "serialLoop" /\ p # "idle") =>
          p = "ended" \/ (pc[c] = "waiting" /\ i = at[c])
    /\ (pc[c] = "waiting" /\ Kind(c) = "serial") =>
          (i <= at[c] => p = "ended") /\ (i > at[c] + 1 => p = "idle")
    /\ (pc[c] = "waiting" /\ Kind(c) \in {"op", "parallel"}) => p # "idle"

Counted(c) ==
    /\ at[c] <= Len(Run(c))
    /\ pc[c] \in {"idle", "called"} => at[c] = 0
    /\ (pc[c] = "begun" /\ ~IsLoop(c)) => at[c] = 0
    /\ pc[c] = "waiting" => Kind(c) # "container" /\ (IsLoop(c) => at[c] > 0)

\* The map that the i-th call of c has.
MapGiven(c, i) ==
    CASE Kind(c) = "op" -> <<"in", Run(c)[i]>>
      [] Kind(c) = "serial" -> <<"own", c>>
      [] Kind(c) = "parallel" -> scope[c]
      [] IsLoop(c) -> GivenTo(c, Run(c)[i])

\* c has yet to take what its i-th call has output.
Due(c, i) ==
    /\ Live(c) /\ pc[Run(c)[i]] = "ended"
    /\ Kind(c) = "serial" => i > at[c]
    /\ Kind(c) = "serialLoop" => pc[c] = "waiting" /\ i = at[c]

\* What was output is still so, and what the call did to the map that it was given is
\* among it.
Kept(d) ==
    /\ Deref(outs[d]) = given[d]
    /\ \A k \in Keys : given[d][k] = Unset => Deref(scope[d])[k] = seen[d][k]

\* The i-th call of c sees what it means.
SeesRight(c, i) ==
    LET d == Run(c)[i] IN
    /\ pc[d] # "idle" => scope[d] = MapGiven(c, i)
    /\ pc[d] = "called" => Deref(scope[d]) = Sees(c, i)
    /\ pc[d] \in {"begun", "waiting", "ended"} => seen[d] = Sees(c, i)
    /\ Due(c, i) => Kept(d)

\* The map a call was given is as it was, but if the call or one of its own writes to it.
Clean(c) ==
    \/ ~Writes[c] \/ Kind(c) = "parallelLoop"
    \/ Kind(c) = "parallel" /\ pc[c] = "begun"

\* A serial loop without variables never unsets any.
Grows(c, m) == ~CallSpec[c].hasVars => \A k \in Keys : m[k] = Unset => seen[c][k] = Unset

\* What is in the maps of a call that goes on.
GoesRight(c) ==
    /\ Begun(c) => Interpretation(c, seen[c]) # Skip
    /\ (Begun(c) /\ Clean(c)) => Deref(scope[c]) = seen[c]
    /\ (pc[c] = "begun" /\ Kind(c) = "op")
          => in[Run(c)[1]] = OpScope(c, Interpretation(c, seen[c]))
    /\ (pc[c] = "waiting" /\ Kind(c) = "serial"
        /\ (at[c] < Len(Run(c)) => pc[Run(c)[at[c] + 1]] = "idle"))
          => own[c] = MergeAll(seen[c], at[c], GivenBy(c, at[c]))
    /\ (pc[c] = "begun" /\ Kind(c) = "serialLoop")
          => Deref(Last(c)) = Before(c, at[c]) /\ Grows(c, Before(c, at[c]))
    /\ (pc[c] = "waiting" /\ Kind(c) = "serialLoop") => Grows(c, Before(c, at[c] - 1))
    /\ (Begun(c) /\ Kind(c) = "serialLoop" /\ at[c] > 0)
          => len[c] = Loop(c, During(c, at[c] - 1))[2].length
    /\ (Begun(c) /\ IsLoop(c)) => \A i \in 0..(at[c] - 1) : ~IsOver(c, i)
    /\ (pc[c] = "waiting" /\ Kind(c) = "parallelLoop") => IsOver(c, at[c])

\* What a call has output that is over.
GaveRight(c) ==
    pc[c] = "ended" =>
        /\ outs[c] \in {<<"own", c>>, scope[c]}
        /\ IF Interpretation(c, seen[c]) # Skip
           THEN given[c] = Gives(c) /\ IteratesRightly(c)
           ELSE given[c] = Empty

\* A call that has made none has put nothing in a map of its own.
Fresh(c) == (pc[c] \in {"idle", "called", "begun"} /\ at[c] = 0) => own[c] = Empty

Shaped ==
    /\ in = [c \in Calls |-> in[c]] /\ own = [c \in Calls |-> own[c]]
    /\ len = [c \in Calls |-> len[c]] /\ seen = [c \in Calls |-> seen[c]]
    /\ given = [c \in Calls |-> given[c]]

ControlInv ==
    \A c \in Calls : /\ Placed(c) /\ Counted(c)
                     /\ \A i \in 1..Len(Run(c)) : Made(c, i)

MeaningInv ==
    /\ Shaped
    /\ (~Exposed /\ ~Altered) =>
          \A c \in Calls :
             /\ Fresh(c) /\ GoesRight(c) /\ GaveRight(c)
             /\ \A i \in 1..Len(Run(c)) : SeesRight(c, i)

-----------------------------------------------------------------------------
(* Merging *)

\* A set of some of the first n numbers has a last one.
LEMMA LastOne ==
    ASSUME NEW n \in Nat, NEW S \in SUBSET (1..n), S # {}
    PROVE  \E j \in S : \A h \in S : h <= j
<1> DEFINE From(j) == {h \in 1..n : h >= j}
           T == {From(j) : j \in S}
<1>1. T \subseteq FiniteSubsetsOf(1..n)
  <2>1. IsFiniteSet(1..n)
    BY FS_Interval
  <2>2. FiniteSubsetsOf(1..n) = SUBSET (1..n)
    BY <2>1, FS_FiniteSubsetsOfFinite
  <2> QED
    BY <2>2
<1>2. T # {}
  OBVIOUS
<1>3. PICK s \in T : \A t \in T : <<t, s>> \notin StrictSubsetOrdering(1..n)
  <2> HIDE DEF T
  <2> QED
    BY <1>1, <1>2, FS_StrictSubsetOrderingWellFounded, WFMin
<1>4. PICK j \in S : s = From(j)
  OBVIOUS
<1>5. ASSUME NEW h \in S, ~(h <= j) PROVE FALSE
  <2>1. h \in 1..n /\ j \in 1..n /\ h > j
    BY <1>5
  <2>2. From(h) \in T
    OBVIOUS
  <2>3. From(h) \subseteq From(j) /\ j \in From(j) /\ j \notin From(h)
    BY <2>1
  <2>4. From(h) \in SUBSET (1..n) /\ From(j) \in SUBSET (1..n)
    OBVIOUS
  <2>5. <<From(h), From(j)>> \in StrictSubsetOrdering(1..n)
    <3> HIDE DEF From
    <3> QED
      BY <2>3, <2>4 DEF StrictSubsetOrdering
  <2> QED
    BY <1>3, <1>4, <2>2, <2>5
<1> QED
  BY <1>5

\* Nothing was output: the map is as it was, but another one.
LEMMA MergingNone ==
    ASSUME NEW m, NEW got PROVE MergeAll(m, 0, got) = CopyOf(m)
  BY DEF MergeAll, CopyOf

\* What is set stays so.
LEMMA MergedUnset ==
    ASSUME NEW m, NEW n \in Nat, NEW got, NEW k \in Keys, MergeAll(m, n, got)[k] = Unset
    PROVE  m[k] = Unset /\ \A i \in 1..n : got[i][k] = Unset
<1>1. SUFFICES ASSUME NEW i \in 1..n, got[i][k] # Unset PROVE FALSE
  BY DEF MergeAll
<1> DEFINE P(j) == got[j][k] # Unset /\ \A h \in (j + 1)..n : got[h][k] = Unset
<1>2. \E j \in 1..n : got[j][k] # Unset /\ \A h \in (j + 1)..n : got[h][k] = Unset
  <2> DEFINE S == {h \in 1..n : got[h][k] # Unset}
  <2>1. PICK j \in S : \A h \in S : h <= j
    <3>1. S \in SUBSET (1..n) /\ S # {}
      BY <1>1
    <3> HIDE DEF S
    <3> QED
      BY <3>1, LastOne
  <2> QED
    BY <2>1
<1> DEFINE last == CHOOSE j \in 1..n : P(j)
<1>3. MergeAll(m, n, got)[k] = got[last][k]
  BY <1>1 DEF MergeAll
<1>4. P(last)
  <2>1. \E j \in 1..n : P(j)
    BY <1>2
  <2> HIDE DEF P
  <2> QED
    BY <2>1
<1>5. got[last][k] # Unset
  BY <1>4
<1> HIDE DEF P, last
<1> QED
  BY <1>3, <1>5

\* Outputs are merged one after the other as they are all at once.
LEMMA MergingOneMore ==
    ASSUME NEW m, NEW n \in Nat, NEW got, NEW more, NEW w,
           \A i \in 1..n : more[i] = got[i],
           \A k \in Keys : more[n + 1][k] = Unset => w[k] = MergeAll(m, n, got)[k]
    PROVE  Merge(w, more[n + 1]) = MergeAll(m, n + 1, more)
<1>1. ASSUME NEW k \in Keys
      PROVE  Merge(w, more[n + 1])[k] = MergeAll(m, n + 1, more)[k]
  <2> DEFINE P(j) == more[j][k] # Unset /\ \A h \in (j + 1)..(n + 1) : more[h][k] = Unset
             Q(j) == got[j][k] # Unset /\ \A h \in (j + 1)..n : got[h][k] = Unset
  <2>1. CASE more[n + 1][k] # Unset
    <3>1. MergeAll(m, n + 1, more)[k] = more[CHOOSE j \in 1..(n + 1) : P(j)][k]
      BY <2>1 DEF MergeAll
    <3>2. P(n + 1)
      BY <2>1
    <3>3. \A j \in 1..(n + 1) : P(j) => j = n + 1
      BY <2>1
    <3>4. (CHOOSE j \in 1..(n + 1) : P(j)) = n + 1
      <4> HIDE DEF P
      <4>1. n + 1 \in 1..(n + 1)
        OBVIOUS
      <4> QED
        BY <3>2, <3>3, <4>1
    <3> QED
      BY <2>1, <3>1, <3>4 DEF Merge
  <2>2. CASE more[n + 1][k] = Unset
    <3>1. Merge(w, more[n + 1])[k] = MergeAll(m, n, got)[k]
      BY <2>2 DEF Merge
    <3>2. CASE \A i \in 1..n : got[i][k] = Unset
      BY <2>2, <3>1, <3>2 DEF MergeAll
    <3>3. CASE \E i \in 1..n : got[i][k] # Unset
      <4>0. \E j \in 1..n : got[j][k] # Unset /\ \A h \in (j + 1)..n : got[h][k] = Unset
        <5> DEFINE S == {h \in 1..n : got[h][k] # Unset}
        <5>1. PICK j \in S : \A h \in S : h <= j
          <6>1. S \in SUBSET (1..n) /\ S # {}
            BY <3>3
          <6> HIDE DEF S
          <6> QED
            BY <6>1, LastOne
        <5> QED
          BY <5>1
      <4>1. PICK j \in 1..n : Q(j)
        BY <4>0
      <4>2. P(j) /\ j \in 1..(n + 1)
        BY <2>2, <4>1
      <4>3. \A h \in 1..n : Q(h) => h = j
        BY <4>1
      <4>4. \A h \in 1..(n + 1) : P(h) => h = j
        BY <2>2, <4>1
      <4>5. (CHOOSE h \in 1..n : Q(h)) = j
        <5> HIDE DEF Q
        <5> QED
          BY <4>1, <4>3
      <4>6. (CHOOSE h \in 1..(n + 1) : P(h)) = j
        <5> HIDE DEF P
        <5> QED
          BY <4>2, <4>4
      <4>7. MergeAll(m, n, got)[k] = got[CHOOSE h \in 1..n : Q(h)][k]
        BY <3>3 DEF MergeAll
      <4>8. MergeAll(m, n + 1, more)[k] = more[CHOOSE h \in 1..(n + 1) : P(h)][k]
        BY <4>2 DEF MergeAll
      <4> QED
        BY <3>1, <4>1, <4>5, <4>6, <4>7, <4>8
    <3> QED
      BY <3>2, <3>3
  <2> QED
    BY <2>1, <2>2
<1> QED
  BY <1>1 DEF Merge, MergeAll

-----------------------------------------------------------------------------
(* Which calls a step moves *)

\* A call makes each of its calls once, and not itself.
LEMMA CallFacts ==
    ASSUME NEW c \in Calls
    PROVE  /\ Len(Run(c)) \in Nat
           /\ \A i \in 1..Len(Run(c)) :
                 /\ Run(c)[i] \in Calls /\ Run(c)[i] \in Children(c) /\ Run(c)[i] # c
                 /\ Run(c)[i] \in Family[c]
                 /\ \A j \in 1..Len(Run(c)) : Run(c)[i] = Run(c)[j] => i = j
           /\ \A d \in Children(c) : d \in Calls /\ \E i \in 1..Len(Run(c)) : d = Run(c)[i]
<1>1. Len(Run(c)) \in Nat
  BY ScopesAssumption DEF Run
<1>2. \A i \in 1..Len(Run(c)) : Run(c)[i] \in Children(c)
  BY DEF Children
<1>3. \A d \in Children(c) : d \in Calls /\ d # c /\ d \in Family[c]
  BY FamilyFacts
<1>4. \A i, j \in 1..Len(Run(c)) : Run(c)[i] = Run(c)[j] => i = j
  BY TreeAssumption
<1> QED
  BY <1>1, <1>2, <1>3, <1>4 DEF Children

States == {"idle", "called", "begun", "waiting", "ended"}

\* What SharingInv says of each variable.
LEMMA StateFacts ==
    ASSUME SharingInv
    PROVE  /\ pc \in [Calls -> States] /\ scope \in [Calls -> Maps] /\ outs \in [Calls -> Maps]
           /\ at \in [Calls -> Nat]
  BY DEF SharingInv, ScopesInv, States

Unmoved(y) == pc'[y] = pc[y] /\ scope'[y] = scope[y] /\ at'[y] = at[y]

\* y is one of those that x calls now.
CalledBy(x, y) ==
    /\ y \in Children(x) /\ pc[y] = "idle" /\ pc'[y] = "called"
    /\ at'[y] = at[y] /\ Begun(x)'

\* What a step of x moves.
Moved(x) ==
    /\ pc' \in [Calls -> States]
    /\ scope'[x] = scope[x] /\ pc'[x] # "idle"
    /\ \A y \in Calls \ {x} : Unmoved(y) \/ CalledBy(x, y)

\* A step with which its call goes on, and no other is made.
LEMMA MovedAlone ==
    ASSUME SharingInv, NEW x \in Calls, NEW p \in States \ {"idle"}, Go(x, p), UNCHANGED scope,
           \A y \in Calls \ {x} : at'[y] = at[y]
    PROVE  Moved(x) /\ pc'[x] = p
<1>1. pc' = [pc EXCEPT ![x] = p]
  BY DEF Go
<1> QED
  BY <1>1, StateFacts DEF Moved, Unmoved, States

\* One with which it makes calls.
LEMMA MovedWithCalls ==
    ASSUME SharingInv, NEW x \in Calls, NEW p \in {"begun", "waiting"},
           NEW ds \in SUBSET Children(x), NEW s, GoCalling(x, p, ds, s),
           \A d \in ds : pc[d] = "idle", \A y \in Calls \ {x} : at'[y] = at[y]
    PROVE  /\ Moved(x) /\ pc'[x] = p
           /\ \A d \in ds : pc'[d] = "called" /\ scope'[d] = s
           /\ \A d \in Calls \ {x} : d \notin ds => pc'[d] = pc[d]
<1>1. /\ pc' = [d \in Calls |-> IF d \in ds THEN "called" ELSE IF d = x THEN p ELSE pc[d]]
      /\ scope' = [d \in Calls |-> IF d \in ds THEN s ELSE scope[d]]
  BY DEF GoCalling
<1>2. x \notin ds /\ ds \subseteq Calls
  BY FamilyFacts
<1>3. pc'[x] = p /\ scope'[x] = scope[x]
  BY <1>1, <1>2
<1>4. pc' \in [Calls -> States]
  BY <1>1, StateFacts DEF States
<1>5. ASSUME NEW y \in Calls \ {x} PROVE Unmoved(y) \/ CalledBy(x, y)
  <2>1. CASE y \in ds
    BY <1>1, <1>3, <2>1 DEF CalledBy, Begun
  <2>2. CASE y \notin ds
    BY <1>1, <2>2 DEF Unmoved
  <2> QED
    BY <2>1, <2>2
<1> QED
  BY <1>1, <1>2, <1>3, <1>4, <1>5 DEF Moved

-----------------------------------------------------------------------------
(* How far the calls are *)

\* What ControlInv says of a call.
LEMMA ControlFacts ==
    ASSUME SharingInv, ControlInv, NEW x \in Calls
    PROVE  /\ at[x] \in Nat /\ at[x] <= Len(Run(x)) /\ Len(Run(x)) \in Nat
           /\ Counted(x) /\ Placed(x) /\ \A i \in 1..Len(Run(x)) : Made(x, i)
  BY CallFacts, StateFacts DEF ControlInv, Counted

\* The others: a step of x moves it on, and calls that were not made before.
LEMMA OthersControl ==
    ASSUME SharingInv, ControlInv, NEW x \in Calls, Live(x), Moved(x), NEW y \in Calls
    PROVE  /\ Placed(y)'
           /\ y # x => Counted(y)' /\ \A i \in 1..Len(Run(y)) : Made(y, i)'
<1>1. Placed(y)'
  <2>1. ASSUME pc'[y] # "idle" PROVE y \in Roots \/ \E p \in Calls : y \in Children(p)
    <3>1. CASE pc[y] # "idle"
      BY <3>1, ControlFacts DEF Placed
    <3>2. CASE pc[y] = "idle"
      <4>1. CalledBy(x, y)
        BY <2>1, <3>2 DEF Moved, Live, Unmoved
      <4> QED
        BY <4>1 DEF CalledBy
    <3> QED
      BY <3>1, <3>2
  <2>2. ASSUME pc'[y] = "idle", NEW d \in Family[y] PROVE pc'[d] = "idle"
    <3>1. pc[y] = "idle" /\ y # x
      BY <2>2 DEF Moved, Unmoved, CalledBy
    <3>2. d \in Calls /\ pc[d] = "idle"
      BY <3>1, ControlFacts, FamilyFacts DEF Placed
    <3>3. d # x /\ x \notin Family[y]
      BY <3>1, <3>2, ControlFacts DEF Placed, Live
    <3>4. ~CalledBy(x, d)
      <4>1. SUFFICES ASSUME d \in Children(x), pc'[d] = "called" PROVE FALSE
        BY DEF CalledBy
      <4>2. d = y
        BY <3>3, <4>1, FamilyFacts
      <4> QED
        BY <2>2, <4>1, <4>2
    <3> QED
      BY <3>2, <3>3, <3>4 DEF Moved, Unmoved
  <2> QED
    BY <2>1, <2>2 DEF Placed, Children, Run
<1>2. SUFFICES ASSUME y # x
               PROVE  Counted(y)' /\ \A i \in 1..Len(Run(y)) : Made(y, i)'
  BY <1>1
<1>3. /\ at[y] \in Nat /\ Counted(y) /\ \A i \in 1..Len(Run(y)) : Made(y, i)
      /\ at'[y] = at[y]
  BY <1>2, ControlFacts DEF Moved, Unmoved, CalledBy
<1>4. ASSUME NEW i \in 1..Len(Run(y))
      PROVE  /\ pc'[Run(y)[i]] = pc[Run(y)[i]] \/ Run(y)[i] = x
             /\ Run(y)[i] = x => pc[y] # "idle"
  <2>1. Run(y)[i] \in Calls /\ Run(y)[i] \notin Children(x)
    BY <1>2, CallFacts, OneParent
  <2>2. Run(y)[i] = x => pc[y] # "idle"
    BY ControlFacts, CallFacts DEF Placed, Live
  <2> QED
    BY <2>1, <2>2 DEF Moved, Unmoved, CalledBy
<1>5. CASE Unmoved(y)
  <2>1. Counted(y)'
    BY <1>3, <1>5 DEF Counted, Unmoved, IsLoop, Kind, Run
  <2>2. ASSUME NEW i \in 1..Len(Run(y)) PROVE Made(y, i)'
    <3>1. Made(y, i) /\ pc'[y] = pc[y] /\ at'[y] = at[y]
      BY <1>3, <1>5 DEF Unmoved
    <3>2. CASE pc'[Run(y)[i]] = pc[Run(y)[i]]
      BY <3>1, <3>2 DEF Made, IsLoop, Kind, Run, Begun
    <3>3. CASE Run(y)[i] = x
      <4>1. pc[Run(y)[i]] \in {"called", "begun", "waiting"} /\ pc'[Run(y)[i]] # "idle"
        BY <3>3 DEF Live, Moved
      <4>2. /\ pc'[y] = pc[y] /\ at'[y] = at[y] /\ Run(y)' = Run(y) /\ Kind(y)' = Kind(y)
            /\ IsLoop(y)' = IsLoop(y) /\ Begun(y)' = Begun(y)
        BY <3>1 DEF Run, Kind, IsLoop, Begun
      <4> HIDE DEF IsLoop, Begun
      <4> QED
        BY <1>3, <3>1, <4>1, <4>2 DEF Made
    <3> QED
      BY <1>4, <3>2, <3>3
  <2> QED
    BY <2>1, <2>2
<1>6. CASE CalledBy(x, y)
  <2>1. pc[y] = "idle" /\ pc'[y] = "called" /\ at[y] = 0
    BY <1>3, <1>6 DEF CalledBy, Counted
  <2>2. \A i \in 1..Len(Run(y)) : pc'[Run(y)[i]] = "idle"
    BY <1>3, <1>4, <2>1 DEF Made
  <2>3. Len(Run(y)) \in Nat
    BY CallFacts
  <2> QED
    BY <1>3, <2>1, <2>2, <2>3 DEF Counted, Made, IsLoop, Kind, Run, Begun
<1> QED
  BY <1>2, <1>5, <1>6 DEF Moved

-----------------------------------------------------------------------------

\* What a step does with the control of its own call.
OwnControl(x) ==
    /\ Live(x) /\ fate = "going" /\ Moved(x)
    /\ Counted(x)' /\ \A i \in 1..Len(Run(x)) : Made(x, i)'

\* The run ends.
LEMMA StoppedControl ==
    ASSUME SharingInv, ControlInv, NEW x \in Calls, Live(x), fate = "going",
           UNCHANGED <<pc, scope, at>>
    PROVE  OwnControl(x)
<1>1. Moved(x)
  BY StateFacts DEF Moved, Unmoved, Live
<1>2. Counted(x)' /\ \A i \in 1..Len(Run(x)) : Made(x, i)'
  BY ControlFacts DEF Counted, Made, IsLoop, Kind, Run, Begun
<1> QED
  BY <1>1, <1>2 DEF OwnControl

\* A call ends when its own have.
LEMMA EndedControl ==
    ASSUME SharingInv, ControlInv, NEW x \in Calls, Live(x), fate = "going",
           NEW s, NEW m, Finish(x, s, m), UNCHANGED <<scope, at>>
    PROVE  OwnControl(x) /\ pc'[x] = "ended"
<1>1. Moved(x) /\ pc'[x] = "ended"
  BY MovedAlone DEF Finish, States
<1>2. at'[x] = at[x] /\ at[x] <= Len(Run(x))
  BY ControlFacts
<1>3. Counted(x)' /\ \A i \in 1..Len(Run(x)) : Made(x, i)'
  BY <1>1, <1>2 DEF Counted, Made, IsLoop, Kind, Run, Begun
<1> QED
  BY <1>1, <1>3 DEF OwnControl

\* The calls it has made are where they were.
LEMMA SameCalls ==
    ASSUME SharingInv, NEW x \in Calls, NEW p, Go(x, p), NEW i \in 1..Len(Run(x))
    PROVE  pc'[Run(x)[i]] = pc[Run(x)[i]]
  BY CallFacts, StateFacts DEF Go

\* It is interpreted.
LEMMA BegunControl ==
    ASSUME SharingInv, ControlInv, NEW x \in Calls, pc[x] = "called", fate = "going",
           Go(x, "begun"), UNCHANGED <<scope, at>>
    PROVE  OwnControl(x) /\ pc'[x] = "begun"
<1>1. Moved(x) /\ pc'[x] = "begun" /\ Live(x)
  BY MovedAlone DEF States, Live
<1>2. at'[x] = 0 /\ \A i \in 1..Len(Run(x)) : pc'[Run(x)[i]] = "idle"
  BY ControlFacts, SameCalls DEF Counted, Made
<1>3. Counted(x)' /\ \A i \in 1..Len(Run(x)) : Made(x, i)'
  BY <1>1, <1>2, ControlFacts DEF Counted, Made, IsLoop, Kind, Run, Begun
<1> QED
  BY <1>1, <1>3 DEF OwnControl

\* It is a loop that makes its next call.
LEMMA IterationControl ==
    ASSUME SharingInv, ControlInv, NEW x \in Calls, pc[x] = "begun", IsLoop(x), fate = "going",
           NEW p, p = (IF Kind(x) = "serialLoop" THEN "waiting" ELSE "begun"),
           NEW m, CallIteration(x, p, m)
    PROVE  /\ OwnControl(x) /\ pc'[x] = p /\ at'[x] = at[x] + 1 /\ at[x] < Len(Run(x))
           /\ pc'[Run(x)[at[x] + 1]] = "called"
           /\ scope'[Run(x)[at[x] + 1]] = GivenTo(x, Run(x)[at[x] + 1])
           /\ \A i \in 1..Len(Run(x)) : i # at[x] + 1 => pc'[Run(x)[i]] = pc[Run(x)[i]]
<1> DEFINE d == Run(x)[at[x] + 1]
<1>1. /\ at[x] < Len(Run(x)) /\ GoCalling(x, p, {d}, GivenTo(x, d))
      /\ at' = [at EXCEPT ![x] = at[x] + 1] /\ p \in {"begun", "waiting"}
  BY DEF CallIteration
<1>2. /\ at[x] + 1 \in 1..Len(Run(x)) /\ d \in Children(x) /\ pc[d] = "idle"
      /\ at'[x] = at[x] + 1 /\ \A y \in Calls \ {x} : at'[y] = at[y]
  <2>1. at[x] + 1 \in 1..Len(Run(x)) /\ Made(x, at[x] + 1) /\ d \in Children(x)
    BY <1>1, ControlFacts, CallFacts
  <2>2. pc[d] = "idle"
    BY <2>1, ControlFacts DEF Made, Begun
  <2> QED
    BY <1>1, <2>1, <2>2, StateFacts
<1>3. /\ Moved(x) /\ pc'[x] = p /\ pc'[d] = "called" /\ scope'[d] = GivenTo(x, d)
      /\ \A y \in Calls \ {x} : y # d => pc'[y] = pc[y]
  <2> DEFINE ds == {d}
  <2>1. /\ ds \in SUBSET Children(x) /\ \A e \in ds : pc[e] = "idle"
        /\ GoCalling(x, p, ds, GivenTo(x, d))
    BY <1>1, <1>2
  <2>2. /\ Moved(x) /\ pc'[x] = p
        /\ \A e \in ds : pc'[e] = "called" /\ scope'[e] = GivenTo(x, d)
        /\ \A e \in Calls \ {x} : e \notin ds => pc'[e] = pc[e]
    <3> HIDE DEF ds
    <3> QED
      BY <1>1, <1>2, <2>1, MovedWithCalls
  <2> QED
    BY <2>2
<1>4. \A i \in 1..Len(Run(x)) : i # at[x] + 1 => pc'[Run(x)[i]] = pc[Run(x)[i]]
  BY <1>2, <1>3, CallFacts
<1>5. Counted(x)'
  BY <1>1, <1>2, <1>3, ControlFacts DEF Counted, IsLoop, Kind, Run
<1>6. ASSUME NEW i \in 1..Len(Run(x)) PROVE Made(x, i)'
  <2>1. Made(x, i) /\ at[x] \in Nat /\ i \in Nat
    BY ControlFacts
  <2>2. CASE i = at[x] + 1
    BY <1>2, <1>3, <2>1, <2>2 DEF Made, IsLoop, Kind, Run, Begun
  <2>3. CASE i # at[x] + 1
    BY <1>2, <1>3, <1>4, <2>1, <2>3 DEF Made, IsLoop, Kind, Run, Begun
  <2> QED
    BY <2>2, <2>3
<1> QED
  BY <1>1, <1>2, <1>3, <1>4, <1>5, <1>6 DEF OwnControl, Live

-----------------------------------------------------------------------------

\* Each step is one of those, or makes the calls of an op, or of serial or parallel
\* ones.
LEMMA ControlStep ==
    ASSUME SharingInv, ControlInv, NEW x \in Calls, Step(x) PROVE OwnControl(x)
<1>0. /\ at[x] \in Nat /\ at[x] <= Len(Run(x)) /\ Len(Run(x)) \in Nat /\ Counted(x)
      /\ \A i \in 1..Len(Run(x)) : Made(x, i)
  BY ControlFacts
<1>1. CASE Interpret(x)
  <2>1. /\ Live(x) /\ fate = "going" /\ pc[x] = "called" /\ UNCHANGED <<scope, at>>
        /\ \/ UNCHANGED pc
           \/ Finish(x, <<"own", x>>, Empty)
           \/ Go(x, "begun")
    BY <1>1 DEF Interpret, InterpretedAs, Going, Live
  <2> QED
    BY <2>1, StoppedControl, EndedControl, BegunControl
<1>2. CASE RunContainer(x)
  BY <1>2, EndedControl DEF RunContainer, EndWith, Going, Live
<1>3. CASE CallOp(x)
  <2>1. /\ fate = "going" /\ pc[x] = "begun" /\ Kind(x) = "op" /\ UNCHANGED at
        /\ GoCalling(x, "waiting", Children(x), <<"in", Run(x)[1]>>)
        /\ Live(x) /\ ~IsLoop(x)
    BY <1>3 DEF CallOp, Going, Live, IsLoop
  <2>2. \A d \in Children(x) : pc[d] = "idle"
    BY <1>0, <2>1, CallFacts DEF Made
  <2>3. Moved(x) /\ pc'[x] = "waiting" /\ \A d \in Children(x) : pc'[d] = "called"
    BY <2>1, <2>2, MovedWithCalls
  <2>4. \A i \in 1..Len(Run(x)) : pc'[Run(x)[i]] = "called"
    BY <2>3, CallFacts
  <2>5. Counted(x)' /\ \A i \in 1..Len(Run(x)) : Made(x, i)'
    BY <1>0, <2>1, <2>3, <2>4 DEF Counted, Made, IsLoop, Kind, Run, Begun
  <2> QED
    BY <2>1, <2>3, <2>5 DEF OwnControl
<1>4. CASE EndOp(x)
  <2>1. /\ Live(x) /\ fate = "going" /\ UNCHANGED <<scope, at>>
        /\ \/ UNCHANGED pc
           \/ \E m : Finish(x, <<"own", x>>, m)
    BY <1>4 DEF EndOp, EndOpWith, EndWith, Going, Live
  <2> QED
    BY <2>1, StoppedControl, EndedControl
<1>5. CASE BeginSerial(x)
  <2>1. /\ fate = "going" /\ pc[x] = "begun" /\ Kind(x) = "serial" /\ UNCHANGED <<scope, at>>
        /\ Go(x, "waiting") /\ Live(x) /\ ~IsLoop(x)
    BY <1>5 DEF BeginSerial, Going, Live, IsLoop
  <2>2. Moved(x) /\ pc'[x] = "waiting"
    BY <2>1, MovedAlone DEF States
  <2>3. \A i \in 1..Len(Run(x)) : pc'[Run(x)[i]] = "idle"
    BY <1>0, <2>1, SameCalls DEF Made
  <2>4. Counted(x)' /\ \A i \in 1..Len(Run(x)) : Made(x, i)'
    BY <1>0, <2>1, <2>2, <2>3 DEF Counted, Made, IsLoop, Kind, Run, Begun
  <2> QED
    BY <2>1, <2>2, <2>4 DEF OwnControl
<1>6. CASE CallNext(x)
  <2> DEFINE d == Run(x)[at[x] + 1]
  <2>1. /\ fate = "going" /\ pc[x] = "waiting" /\ Kind(x) = "serial" /\ at[x] < Len(Run(x))
        /\ UNCHANGED at /\ pc[d] = "idle" /\ GoCalling(x, "waiting", {d}, <<"own", x>>)
        /\ Live(x) /\ ~IsLoop(x)
    BY <1>6 DEF CallNext, Going, Live, IsLoop
  <2>2. at[x] + 1 \in 1..Len(Run(x)) /\ d \in Children(x)
    BY <1>0, <2>1, CallFacts
  <2>3. /\ Moved(x) /\ pc'[x] = "waiting" /\ pc'[d] = "called"
        /\ \A y \in Calls \ {x} : y # d => pc'[y] = pc[y]
    <3> DEFINE ds == {d}
    <3>1. /\ ds \in SUBSET Children(x) /\ \A e \in ds : pc[e] = "idle"
          /\ GoCalling(x, "waiting", ds, <<"own", x>>)
      BY <2>1, <2>2
    <3>2. /\ Moved(x) /\ pc'[x] = "waiting" /\ \A e \in ds : pc'[e] = "called"
          /\ \A e \in Calls \ {x} : e \notin ds => pc'[e] = pc[e]
      <4> HIDE DEF ds
      <4> QED
        BY <2>1, <3>1, MovedWithCalls
    <3> QED
      BY <3>2
  <2>4. \A i \in 1..Len(Run(x)) : i # at[x] + 1 => pc'[Run(x)[i]] = pc[Run(x)[i]]
    BY <2>2, <2>3, CallFacts
  <2>5. Counted(x)'
    BY <1>0, <2>1, <2>3 DEF Counted, IsLoop, Kind, Run
  <2>6. \A i \in 1..Len(Run(x)) : Made(x, i)'
    BY <1>0, <2>1, <2>3, <2>4 DEF Made, IsLoop, Kind, Run, Begun
  <2> QED
    BY <2>1, <2>3, <2>5, <2>6 DEF OwnControl
<1>7. CASE TakeOutputs(x)
  <2>1. /\ fate = "going" /\ pc[x] = "waiting" /\ Kind(x) = "serial" /\ at[x] < Len(Run(x))
        /\ pc[Run(x)[at[x] + 1]] = "ended" /\ UNCHANGED <<pc, scope>>
        /\ at' = [at EXCEPT ![x] = at[x] + 1] /\ Live(x) /\ ~IsLoop(x)
    BY <1>7 DEF TakeOutputs, Going, Live, IsLoop
  <2>2. at'[x] = at[x] + 1 /\ \A y \in Calls \ {x} : at'[y] = at[y]
    BY <2>1, StateFacts
  <2>3. Moved(x)
    BY <2>1, <2>2, StateFacts DEF Moved, Unmoved
  <2>4. Counted(x)'
    BY <1>0, <2>1, <2>2 DEF Counted, IsLoop, Kind, Run
  <2>5. \A i \in 1..Len(Run(x)) : Made(x, i)'
    BY <1>0, <2>1, <2>2 DEF Made, IsLoop, Kind, Run, Begun
  <2> QED
    BY <2>1, <2>3, <2>4, <2>5 DEF OwnControl
<1>8. CASE EndSerial(x)
  BY <1>8, EndedControl DEF EndSerial, Going, Live
<1>9. CASE CallAll(x)
  <2>1. /\ fate = "going" /\ pc[x] = "begun" /\ Kind(x) = "parallel" /\ UNCHANGED at
        /\ GoCalling(x, "waiting", Children(x), scope[x])
        /\ Live(x) /\ ~IsLoop(x)
    BY <1>9 DEF CallAll, Going, Live, IsLoop
  <2>2. \A d \in Children(x) : pc[d] = "idle"
    BY <1>0, <2>1, CallFacts DEF Made
  <2>3. Moved(x) /\ pc'[x] = "waiting" /\ \A d \in Children(x) : pc'[d] = "called"
    BY <2>1, <2>2, MovedWithCalls
  <2>4. \A i \in 1..Len(Run(x)) : pc'[Run(x)[i]] = "called"
    BY <2>3, CallFacts
  <2>5. Counted(x)' /\ \A i \in 1..Len(Run(x)) : Made(x, i)'
    BY <1>0, <2>1, <2>3, <2>4 DEF Counted, Made, IsLoop, Kind, Run, Begun
  <2> QED
    BY <2>1, <2>3, <2>5 DEF OwnControl
<1>10. CASE EndParallel(x)
  <2>1. \E m : Finish(x, <<"own", x>>, m)
    BY <1>10 DEF EndParallel, EndWith
  <2> QED
    BY <1>10, <2>1, EndedControl DEF EndParallel, Going, Live
<1>11. CASE Iterate(x)
  <2>1. /\ fate = "going" /\ pc[x] = "begun" /\ Kind(x) = "serialLoop" /\ Live(x) /\ IsLoop(x)
    BY <1>11 DEF Iterate, Going, Live, IsLoop
  <2>2. \/ UNCHANGED <<scope, at>> /\ \E s, m : Finish(x, s, m)
        \/ UNCHANGED <<pc, scope, at>>
        \/ \E m : CallIteration(x, "waiting", m)
    BY <1>11 DEF Iterate, IterateBy, FailToIterate, EndLoop, EndWith
  <2> QED
    BY <2>1, <2>2, EndedControl, StoppedControl, IterationControl
<1>12. CASE TakeIteration(x)
  <2>1. /\ fate = "going" /\ pc[x] = "waiting" /\ Kind(x) = "serialLoop" /\ UNCHANGED <<scope, at>>
        /\ pc[Run(x)[at[x]]] = "ended" /\ Go(x, "begun") /\ Live(x) /\ IsLoop(x)
    BY <1>12 DEF TakeIteration, Going, Live, IsLoop
  <2>2. Moved(x) /\ pc'[x] = "begun"
    BY <2>1, MovedAlone DEF States
  <2>3. \A i \in 1..Len(Run(x)) : pc'[Run(x)[i]] = pc[Run(x)[i]]
    BY <2>1, SameCalls
  <2>4. Counted(x)'
    BY <1>0, <2>1, <2>2 DEF Counted, IsLoop, Kind, Run
  <2>5. \A i \in 1..Len(Run(x)) : Made(x, i)'
    BY <1>0, <2>1, <2>2, <2>3 DEF Made, IsLoop, Kind, Run, Begun
  <2> QED
    BY <2>1, <2>2, <2>4, <2>5 DEF OwnControl
<1>13. CASE Launch(x)
  <2>1. /\ fate = "going" /\ pc[x] = "begun" /\ Kind(x) = "parallelLoop" /\ Live(x) /\ IsLoop(x)
    BY <1>13 DEF Launch, Going, Live, IsLoop
  <2>2. \/ UNCHANGED <<pc, scope, at>>
        \/ UNCHANGED <<scope, at>> /\ Finish(x, <<"own", x>>, Empty)
        \/ UNCHANGED <<scope, at>> /\ at[x] # 0 /\ Go(x, "waiting")
        \/ \E m : CallIteration(x, "begun", m)
    BY <1>13 DEF Launch, LaunchBy, FailToIterate
  <2>3. CASE UNCHANGED <<scope, at>> /\ at[x] # 0 /\ Go(x, "waiting")
    <3>1. Moved(x) /\ pc'[x] = "waiting"
      BY <2>1, <2>3, MovedAlone DEF States
    <3>2. \A i \in 1..Len(Run(x)) : pc'[Run(x)[i]] = pc[Run(x)[i]]
      BY <2>3, SameCalls
    <3>3. Counted(x)'
      BY <1>0, <2>1, <2>3, <3>1 DEF Counted, IsLoop, Kind, Run
    <3>4. \A i \in 1..Len(Run(x)) : Made(x, i)'
      BY <1>0, <2>1, <2>3, <3>1, <3>2 DEF Made, IsLoop, Kind, Run, Begun
    <3> QED
      BY <2>1, <3>1, <3>3, <3>4 DEF OwnControl
  <2> QED
    BY <2>1, <2>2, <2>3, EndedControl, StoppedControl, IterationControl
<1>14. CASE EndParallelLoop(x)
  <2>1. \E s, m : Finish(x, s, m)
    BY <1>14 DEF EndParallelLoop, LeaveParallelLoop
  <2> QED
    BY <1>14, <2>1, EndedControl DEF EndParallelLoop, Going, Live
<1> QED
  BY <1>1, <1>2, <1>3, <1>4, <1>5, <1>6, <1>7, <1>8, <1>9, <1>10, <1>11, <1>12, <1>13, <1>14
     DEF Step

\* So it is for every call after any step,
LEMMA NextControl == ASSUME SharingInv, ControlInv, [Next]_vars PROVE ControlInv'
<1>1. CASE UNCHANGED vars
  <2>1. UNCHANGED <<pc, at>>
    BY <1>1 DEF vars
  <2> QED
    BY <2>1 DEF ControlInv, Placed, Counted, Made, IsLoop, Kind, Run, Begun, Children
<1>2. ASSUME NEW x \in Calls, Step(x) PROVE ControlInv'
  <2>1. OwnControl(x)
    BY <1>2, ControlStep
  <2>2. ASSUME NEW y \in Calls
        PROVE  Placed(y)' /\ Counted(y)' /\ \A i \in 1..Len(Run(y)) : Made(y, i)'
    BY <2>1, OthersControl DEF OwnControl
  <2> QED
    BY <2>2 DEF ControlInv, Run
<1> QED
  BY <1>1, <1>2 DEF Next

\* and in the beginning.
LEMMA InitControl == ASSUME Init PROVE ControlInv
<1>1. PICK r \in Roots : pc = [c \in Calls |-> IF c = r THEN "called" ELSE "idle"]
  BY DEF Init
<1>2. r \in Calls /\ \A c \in Calls : at[c] = 0
  BY ScopesAssumption DEF Init
<1>3. ASSUME NEW c \in Calls, NEW d \in Family[c], d = r PROVE c = r
  BY <1>3, TreeAssumption
<1>4. ASSUME NEW c \in Calls PROVE Placed(c)
  <2>1. \A d \in Family[c] : d \in Calls
    BY FamilyFacts
  <2> QED
    BY <1>1, <1>3, <2>1 DEF Placed
<1>5. ASSUME NEW c \in Calls, NEW i \in 1..Len(Run(c)) PROVE pc[Run(c)[i]] = "idle"
  <2>1. Run(c)[i] \in Calls /\ Run(c)[i] \in Family[c] /\ Run(c)[i] # c /\ c \notin Family[Run(c)[i]]
    BY CallFacts, FamilyFacts
  <2> QED
    BY <1>1, <1>3, <2>1, FamilyFacts
<1>6. ASSUME NEW c \in Calls PROVE Counted(c) /\ \A i \in 1..Len(Run(c)) : Made(c, i)
  BY <1>1, <1>2, <1>5, CallFacts DEF Counted, Made, Begun
<1> QED
  BY <1>4, <1>6 DEF ControlInv

\* But for the next call of a parallel loop, a call goes on when its calls are over.
LEMMA QuietStep ==
    ASSUME SharingInv, ControlInv, NEW x \in Calls, Step(x), ~Launch(x)
    PROVE  Quiet(x)
<1>1. SUFFICES ASSUME NEW i \in 1..Len(Run(x)), Live(Run(x)[i]) PROVE FALSE
  BY CallFacts DEF Quiet
<1>2. /\ at[x] \in Nat /\ at[x] <= Len(Run(x)) /\ Len(Run(x)) \in Nat /\ i \in Nat /\ Made(x, i)
      /\ Counted(x)
      /\ pc[Run(x)[i]] # "idle" /\ pc[Run(x)[i]] # "ended" /\ Run(x)[i] \in Children(x)
  BY <1>1, ControlFacts, CallFacts DEF Live
<1>3. CASE Interpret(x) \/ RunContainer(x) \/ CallOp(x) \/ BeginSerial(x) \/ CallAll(x)
  BY <1>2, <1>3 DEF Made, Interpret, RunContainer, CallOp, BeginSerial, CallAll, Going, IsLoop
<1>4. CASE EndOp(x) \/ EndParallel(x)
  BY <1>2, <1>4 DEF EndOp, EndParallel
<1>5. CASE CallNext(x) \/ TakeOutputs(x)
  <2>1. i = at[x] + 1
    BY <1>2, <1>5 DEF Made, CallNext, TakeOutputs, Going
  <2> QED
    BY <1>2, <1>5, <2>1 DEF CallNext, TakeOutputs
<1>6. CASE EndSerial(x)
  BY <1>2, <1>6 DEF Made, EndSerial, Going
<1>7. CASE Iterate(x)
  BY <1>2, <1>7 DEF Made, Iterate, Going, Begun
<1>8. CASE TakeIteration(x)
  <2>1. i = at[x]
    BY <1>2, <1>8 DEF Made, TakeIteration, Going, Begun
  <2> QED
    BY <1>2, <1>8, <2>1 DEF TakeIteration
<1>9. CASE EndParallelLoop(x)
  <2>1. i \in 1..at[x]
    BY <1>2, <1>9 DEF Made, EndParallelLoop, Going, Begun, IsLoop
  <2> QED
    BY <1>2, <1>9, <2>1 DEF EndParallelLoop
<1> QED
  BY <1>3, <1>4, <1>5, <1>6, <1>7, <1>8, <1>9 DEF Step

-----------------------------------------------------------------------------
(* Published maps *)

\* Where the map of a call is from, and why it is published if the call publishes it.
PublishedFrom(c) ==
    pc[c] # "idle" =>
        LET o == scope[c][2] IN
        /\ c \in Family[o]
        /\ scope[c][1] = "own" => c # o
        /\ Publishes[c] => IF scope[c][1] = "in" THEN Publishes[o]
                           ELSE \E y \in Children(o) : Publishes[y]

\* A call below another that has the same map has it from one of the other's calls.
PublishedBelow(c, d) ==
    (pc[c] # "idle" /\ pc[d] # "idle" /\ d \in Below(c) /\ scope[c] = scope[d])
        => Hands(c) /\ (Publishes[d] => \E y \in Children(c) : Publishes[y])

\* What was published beside a call is no map that the call is to write to.
PublishedBeside(c, d) ==
    (Live(c) /\ pc[d] = "ended" /\ d \notin Family[c] /\ scope[c] = scope[d])
        => ~Writes[c] \/ ~Publishes[d]

\* A call publishes a map of its own, or is one of those that publish what they are given.
OutputsOf(c) ==
    pc[c] = "ended" => outs[c] = <<"own", c>> \/ (Publishes[c] /\ outs[c] = scope[c])

PublishingInv ==
    /\ \A c \in Calls : PublishedFrom(c) /\ OutputsOf(c)
    /\ \A c, d \in Calls : PublishedBelow(c, d)
    /\ (~Exposed /\ ~Overwritten) => \A c, d \in Calls : PublishedBeside(c, d)
    /\ DiesOnlyIfExposed

LEMMA PublishingIsHanded ==
    ASSUME NEW c \in Calls, Hands(c), NEW d \in Children(c), Publishes[d] PROVE Publishes[c]
  BY TreeAssumption DEF Hands

LEMMA LiveIsNotOverwritten ==
    ASSUME SharingInv, ~Overwritten, NEW c \in Calls, Live(c) PROVE ~Overwrites(c)
<1>1. PICK r \in Roots : pc[r] # "idle" /\ c \in Family[r]
  BY DEF SharingInv, Nested
<1> QED
  BY <1>1 DEF Overwritten

\* What a run has begun stays begun.
LEMMA StaysOverwritten ==
    ASSUME \A c \in Calls : pc[c] # "idle" => pc'[c] # "idle"
    PROVE  (Exposed => Exposed') /\ (Overwritten => Overwritten')
<1>1. Exposed => Exposed'
  BY ScopesAssumption DEF Exposed, ExposedRoots, Exposes, Children, Run, Hands, Kind
<1>2. Overwritten => Overwritten'
  BY ScopesAssumption DEF Overwritten, Overwrites, Children, Run, Kind
<1> QED
  BY <1>1, <1>2

\* A loop that goes on with the map that it was given, and calls with it.
LEMMA LoopsPublishNone ==
    ASSUME SharingInv, ~Exposed, ~Overwritten, NEW c \in Calls, Live(c), IsLoop(c), Hands(c)
    PROVE  \A y \in Children(c) : ~Publishes[y]
<1>1. SUFFICES ASSUME NEW y \in Children(c), Publishes[y] PROVE FALSE
  OBVIOUS
<1>2. y \in Calls /\ Writes[y]
  BY <1>1, FamilyFacts, TreeAssumption
<1>3. Overwrites(c) \/ Exposes(c)
  BY <1>1, <1>2 DEF Overwrites, Exposes, IsLoop
<1> QED
  BY <1>3, LiveIsNotExposed, LiveIsNotOverwritten

\* Nobody uses a map that a call is about to write to, nor was it published.
LEMMA WritesUnpublished ==
    ASSUME SharingInv, PublishingInv, ~Exposed, ~Overwritten,
           NEW c \in Calls, Live(c), Quiet(c), NEW p,
           \/ p = <<"own", c>> /\ Kind(c) = "serial"
           \/ Kind(c) = "serialLoop" /\ \E d \in Children(c) : p = <<"in", d>>
           \/ p = scope[c] /\ IsLoop(c) /\ Writes[c]
    PROVE  Sharing(c, p) = {} /\ Published(p) = {}
<1>1. ASSUME NEW d \in Calls, scope[d] = p, Uses(d), d # c PROVE FALSE
  <2>1. Live(d)
    BY <1>1 DEF Uses, Live
  <2>2. CASE p = <<"own", c>>
    BY <1>1, <2>1, <2>2, FreshOwn DEF Quiet
  <2>3. CASE \E y \in Children(c) : p = <<"in", y>>
    BY <1>1, <2>1, <2>3, FreshIn, FamilyFacts DEF Quiet
  <2>4. CASE p = scope[c] /\ Writes[c]
    BY <1>1, <2>4, WritesAlone DEF Quiet, Sharing
  <2> QED
    BY <2>2, <2>3, <2>4
<1>2. ASSUME NEW e \in Calls, pc[e] = "ended", outs[e] = p PROVE FALSE
  <2>1. /\ e # c /\ scope[e] \in Maps /\ PublishedFrom(e) /\ PublishedBelow(c, e)
        /\ PublishedBeside(c, e)
    BY <1>2 DEF PublishingInv, Live, SharingInv, ScopesInv
  <2>2. Publishes[e] /\ p = scope[e]
    <3>1. SUFFICES ASSUME p = <<"own", e>> PROVE FALSE
      BY <1>2 DEF PublishingInv, OutputsOf
    <3>2. scope[c] = <<"own", e>>
      BY <2>1, <3>1
    <3>3. c \in Family[e]
      BY <3>2 DEF SharingInv, HandedDown
    <3> QED
      BY <1>2, <3>3, LiveAbove DEF Live
  <2>3. CASE p = <<"own", c>> /\ Kind(c) = "serial"
    <3>1. Overwrites(c)
      BY <1>2, <2>1, <2>2, <2>3 DEF PublishedFrom, Overwrites
    <3> QED
      BY <3>1, LiveIsNotOverwritten
  <2>4. CASE Kind(c) = "serialLoop" /\ \E d \in Children(c) : p = <<"in", d>>
    <3>1. Overwrites(c)
      BY <1>2, <2>1, <2>2, <2>4 DEF PublishedFrom, Overwrites
    <3> QED
      BY <3>1, LiveIsNotOverwritten
  <2>5. CASE p = scope[c] /\ IsLoop(c) /\ Writes[c]
    <3>1. CASE e \notin Family[c]
      BY <1>2, <2>1, <2>2, <2>5, <3>1 DEF PublishedBeside
    <3>2. CASE e \in Family[c]
      <4>1. e \in Below(c) /\ pc[c] # "idle"
        BY <2>1, <3>2 DEF Below, Live
      <4>2. Hands(c) /\ \E y \in Children(c) : Publishes[y]
        BY <1>2, <2>1, <2>2, <2>5, <4>1 DEF PublishedBelow
      <4> QED
        BY <2>5, <4>2, LoopsPublishNone
    <3> QED
      BY <3>1, <3>2
  <2> QED
    BY <2>3, <2>4, <2>5
<1>3. Sharing(c, p) = {}
  BY <1>1 DEF Sharing
<1>4. Published(p) = {}
  BY <1>2 DEF Published
<1> QED
  BY <1>3, <1>4

\* So the node is not ended by a step.
LEMMA StepDies ==
    ASSUME SharingInv, ControlInv, PublishingInv, ~Exposed, ~Overwritten,
           NEW c \in Calls, Step(c)
    PROVE  fate' # "died"
<1>1. fate = "going" /\ Live(c)
  BY ControlStep DEF OwnControl
<1>2. CASE TakeOutputs(c)
  <2>1. Quiet(c)
    BY <1>2, QuietStep DEF TakeOutputs, Launch
  <2>2. Kind(c) = "serial" /\ MayDie(c, <<"own", c>>)
    BY <1>2 DEF TakeOutputs
  <2>3. Sharing(c, <<"own", c>>) = {} /\ Published(<<"own", c>>) = {}
    BY <1>1, <2>1, <2>2, WritesUnpublished
  <2> QED
    BY <1>1, <2>2, <2>3 DEF MayDie
<1>3. CASE TakeIteration(c)
  <2>1. Quiet(c)
    BY <1>3, QuietStep DEF TakeIteration, Launch
  <2>2. Kind(c) = "serialLoop" /\ pc[c] = "waiting" /\ MayDie(c, Last(c))
    BY <1>3 DEF TakeIteration, Going
  <2>3. at[c] > 0 /\ at[c] \in 1..Len(Run(c)) /\ Run(c)[at[c]] \in Children(c)
    <3>1. at[c] > 0
      BY <2>2 DEF SharingInv, Nested
    <3> QED
      BY <3>1, ControlFacts, CallFacts
  <2>4. CASE CallSpec[c].hasVars
    <3>1. Last(c) = <<"in", Run(c)[at[c]]>>
      BY <2>3, <2>4 DEF Last, GivenTo
    <3>2. Sharing(c, Last(c)) = {} /\ Published(Last(c)) = {}
      BY <1>1, <2>1, <2>2, <2>3, <3>1, WritesUnpublished
    <3> QED
      BY <1>1, <2>2, <3>2 DEF MayDie
  <2>5. CASE ~CallSpec[c].hasVars
    <3>1. Last(c) = scope[c]
      BY <2>3, <2>5 DEF Last, GivenTo
    <3>2. IsLoop(c) /\ Writes[c]
      BY <2>2, <2>5, TreeAssumption DEF IsLoop
    <3>3. Sharing(c, Last(c)) = {} /\ Published(Last(c)) = {}
      BY <1>1, <2>1, <3>1, <3>2, WritesUnpublished
    <3> QED
      BY <1>1, <2>2, <3>3 DEF MayDie
  <2> QED
    BY <2>4, <2>5
<1>4. CASE EndParallelLoop(c)
  <2>1. Quiet(c)
    <3>1. ~Launch(c)
      BY <1>4 DEF EndParallelLoop, Launch, Going
    <3> QED
      BY <3>1, QuietStep
  <2>2. Kind(c) = "parallelLoop" /\ MayDie(c, scope[c])
    BY <1>4 DEF EndParallelLoop
  <2>3. IsLoop(c) /\ Writes[c]
    BY <2>2, TreeAssumption DEF IsLoop
  <2>4. Sharing(c, scope[c]) = {} /\ Published(scope[c]) = {}
    BY <1>1, <2>1, <2>3, WritesUnpublished
  <2> QED
    BY <1>1, <2>2, <2>4 DEF MayDie
<1>5. CASE \/ Interpret(c) \/ RunContainer(c) \/ CallOp(c) \/ EndOp(c) \/ BeginSerial(c)
           \/ CallNext(c) \/ EndSerial(c) \/ CallAll(c) \/ EndParallel(c)
  BY <1>1, <1>5 DEF Interpret, InterpretedAs, Fail, RunContainer, CallOp, EndOp, EndOpWith,
     BeginSerial, CallNext, EndSerial, CallAll, EndParallel
<1>6. CASE Iterate(c) \/ Launch(c)
  BY <1>1, <1>6 DEF Iterate, IterateBy, Launch, LaunchBy, FailToIterate, Fail
<1> QED
  BY <1>2, <1>3, <1>4, <1>5, <1>6 DEF Step

-----------------------------------------------------------------------------

\* A call goes on, or publishes what it outputs.
LEMMA GoingOnPublishing ==
    ASSUME SharingInv, SharingInv', PublishingInv, DiesOnlyIfExposed', NEW c \in Calls, NEW p,
           Continues(c, p)
    PROVE  PublishingInv'
<1>1. /\ Live(c) /\ p \in {"begun", "waiting", "ended"} /\ UNCHANGED scope
      /\ pc'[c] = p /\ \A d \in Calls : d # c => pc'[d] = pc[d]
      /\ IF p = "ended" THEN \E s : EndsWith(c, s) /\ outs' = [outs EXCEPT ![c] = s]
                        ELSE UNCHANGED outs
  BY StateFacts DEF Continues
<1>2. \A d \in Calls : (pc'[d] = "idle" <=> pc[d] = "idle") /\ (Live(d)' => Live(d))
  BY <1>1 DEF Live
<1>3. ASSUME NEW d \in Calls PROVE PublishedFrom(d)'
  <2>1. PublishedFrom(d)
    BY DEF PublishingInv
  <2> QED
    BY <1>1, <1>2, <2>1 DEF PublishedFrom, Children, Run
<1>4. ASSUME NEW d \in Calls PROVE OutputsOf(d)'
  <2>1. OutputsOf(d)
    BY DEF PublishingInv
  <2>2. CASE d # c
    <3>1. outs'[d] = outs[d] /\ pc'[d] = pc[d] /\ scope'[d] = scope[d]
      BY <1>1, <2>2, StateFacts
    <3> QED
      BY <2>1, <3>1 DEF OutputsOf
  <2>3. CASE d = c /\ p = "ended"
    <3>1. PICK s : EndsWith(c, s) /\ outs' = [outs EXCEPT ![c] = s]
      BY <1>1, <2>3
    <3>2. outs'[c] = s /\ scope'[c] = scope[c]
      BY <1>1, <3>1, StateFacts
    <3> QED
      BY <2>3, <3>1, <3>2, TreeAssumption DEF OutputsOf, EndsWith, IsLoop
  <2>4. CASE d = c /\ p # "ended"
    BY <1>1, <2>4 DEF OutputsOf
  <2> QED
    BY <2>2, <2>3, <2>4
<1>5. ASSUME NEW a \in Calls, NEW b \in Calls PROVE PublishedBelow(a, b)'
  <2>1. PublishedBelow(a, b)
    BY DEF PublishingInv
  <2> QED
    BY <1>1, <1>2, <2>1 DEF PublishedBelow, Below, Hands, Children, Kind, Run
<1>6. ASSUME ~Exposed', ~Overwritten', NEW a \in Calls, NEW b \in Calls
      PROVE  PublishedBeside(a, b)'
  <2>1. ~Exposed /\ ~Overwritten
    BY <1>2, <1>6, StaysOverwritten
  <2>2. PublishedBeside(a, b) /\ SharedBeside(a, b)
    BY <2>1 DEF PublishingInv, SharingInv
  <2>3. SUFFICES ASSUME Live(a)', pc'[b] = "ended", b \notin Family[a], scope[a] = scope[b]
                 PROVE  ~Writes[a] \/ ~Publishes[b]
    BY <1>1 DEF PublishedBeside
  <2>4. CASE b # c
    BY <1>1, <1>2, <2>2, <2>3, <2>4 DEF PublishedBeside
  <2>5. CASE b = c
    <3>1. a \notin Family[b]
      BY <2>3 DEF SharingInv, Nested, Live
    <3>2. ~Writes[b]
      BY <1>1, <1>2, <2>2, <2>3, <2>5, <3>1 DEF SharedBeside
    <3> QED
      BY <3>2, TreeAssumption
  <2> QED
    BY <2>4, <2>5
<1> QED
  BY <1>3, <1>4, <1>5, <1>6 DEF PublishingInv

\* What holds of a call that c makes, and of those that it was made beside.
LEMMA NewPublished ==
    ASSUME SharingInv, PublishingInv, NEW c \in Calls, NEW p, NEW ds, NEW s,
           CallsMore(c, p, ds, s), NEW d \in ds
    PROVE  /\ s \in Maps /\ d \in Calls /\ d \in Children(c) /\ d \in Family[s[2]]
           /\ s[1] = "own" => d # s[2]
           /\ Publishes[d] => IF s[1] = "in" THEN Publishes[s[2]]
                              ELSE \E y \in Children(s[2]) : Publishes[y]
           /\ \/ s = <<"in", d>>
              \/ s = <<"own", c>> /\ Kind(c) = "serial"
              \/ s = scope[c] /\ Hands(c) /\ ((Kind(c) = "parallel" /\ Len(Run(c)) > 1) \/ ds = {d})
<1>1. /\ d \in Calls /\ d \in Children(c) /\ d \in Family[c] /\ d \in Family[d] /\ d # c
      /\ c \notin Family[d] /\ pc[c] # "idle"
  BY CallsMoreFacts, FamilyFacts DEF CallsMore, Live
<1>2. \/ s = <<"in", d>>
      \/ s = <<"own", c>> /\ Kind(c) = "serial"
      \/ s = scope[c] /\ Hands(c) /\ ((Kind(c) = "parallel" /\ Len(Run(c)) > 1) \/ ds = {d})
  BY DEF CallsMore, Given
<1>3. CASE s = <<"in", d>>
  BY <1>1, <1>2, <1>3 DEF Maps
<1>4. CASE s = <<"own", c>>
  BY <1>1, <1>2, <1>4 DEF Maps
<1>5. CASE s = scope[c] /\ Hands(c)
  <2>1. s \in Maps /\ s[2] \in Calls /\ PublishedFrom(c)
    BY <1>5, StateFacts DEF PublishingInv, Maps
  <2>2. c \in Family[s[2]]
    BY <1>1, <1>5, <2>1 DEF PublishedFrom
  <2>3. d \in Family[s[2]] /\ d # s[2]
    BY <1>1, <2>1, <2>2, FamilyFacts
  <2>4. Publishes[d] => Publishes[c]
    BY <1>1, <1>5, PublishingIsHanded
  <2>5. Publishes[d] => IF s[1] = "in" THEN Publishes[s[2]]
                        ELSE \E y \in Children(s[2]) : Publishes[y]
    BY <1>1, <1>5, <2>1, <2>4 DEF PublishedFrom
  <2> QED
    BY <1>1, <1>2, <2>1, <2>3, <2>5
<1> QED
  BY <1>2, <1>3, <1>4, <1>5

\* Calls are made.
LEMMA CallingPublishing ==
    ASSUME SharingInv, ControlInv, PublishingInv, DiesOnlyIfExposed', UNCHANGED outs,
           NEW c \in Calls, Moved(c), NEW p, NEW ds, NEW s, CallsMore(c, p, ds, s)
    PROVE  PublishingInv'
<1>1. /\ ds \subseteq Calls /\ c \notin ds /\ Live(c) /\ pc[c] # "idle" /\ pc'[c] \in {"begun", "waiting"}
      /\ \A d \in Calls :
            /\ d \in ds => pc'[d] = "called" /\ scope'[d] = s /\ ~Live(d)
            /\ d \notin ds => scope'[d] = scope[d] /\ (Live(d)' <=> Live(d))
            /\ (d \notin ds /\ d # c) => pc'[d] = pc[d]
            /\ pc[d] # "idle" => pc'[d] # "idle"
  BY CallsMoreFacts DEF CallsMore, Live
<1>2. ASSUME NEW d \in ds PROVE pc[d] = "idle"
  BY <1>1, <1>2 DEF Moved, Unmoved, CalledBy, Live
<1>3. \A d \in Calls : d \notin ds => (pc'[d] = "idle" <=> pc[d] = "idle")
  BY <1>1
<1>4. ASSUME NEW d \in Calls PROVE PublishedFrom(d)' /\ OutputsOf(d)'
  <2>1. PublishedFrom(d) /\ OutputsOf(d)
    BY DEF PublishingInv
  <2>2. CASE d \in ds
    <3>1. pc'[d] = "called" /\ scope'[d] = s
      BY <1>1, <2>2
    <3>2. PublishedFrom(d)'
      BY <2>2, <3>1, NewPublished DEF PublishedFrom, Children, Run
    <3> QED
      BY <3>1, <3>2 DEF OutputsOf
  <2>3. CASE d \notin ds
    <3>1. scope'[d] = scope[d] /\ outs'[d] = outs[d] /\ (pc'[d] = "ended" => pc[d] = "ended")
      BY <1>1, <2>3
    <3> QED
      BY <1>3, <2>1, <2>3, <3>1 DEF PublishedFrom, OutputsOf, Children, Run
  <2> QED
    BY <2>2, <2>3
<1>5. ASSUME NEW a \in Calls, NEW b \in Calls PROVE PublishedBelow(a, b)'
  <2>1. SUFFICES ASSUME pc'[a] # "idle", pc'[b] # "idle", b \in Below(a), scope'[a] = scope'[b]
                 PROVE  Hands(a) /\ (Publishes[b] => \E y \in Children(a) : Publishes[y])
    BY DEF PublishedBelow, Below, Hands, Children, Kind, Run
  <2>2. b \in Family[a] /\ b # a
    BY <2>1 DEF Below
  <2>3. a \notin ds
    <3>1. SUFFICES ASSUME a \in ds PROVE FALSE
      OBVIOUS
    <3>2. pc[b] = "idle"
      BY <1>2, <2>2, <3>1 DEF ControlInv, Placed
    <3>3. b \in ds
      BY <1>3, <2>1, <3>2
    <3>4. a \in Children(c) /\ b \in Children(c)
      BY <3>1, <3>3 DEF CallsMore
    <3> QED
      BY <2>2, <3>4, FamilyFacts
  <2>4. pc[a] # "idle" /\ scope'[a] = scope[a] /\ scope[a] \in Maps
    BY <1>1, <1>3, <2>1, <2>3, StateFacts
  <2>5. CASE b \notin ds
    <3>1. pc[b] # "idle" /\ scope'[b] = scope[b] /\ PublishedBelow(a, b)
      BY <1>1, <1>3, <2>1, <2>5 DEF PublishingInv
    <3> QED
      BY <2>1, <2>4, <3>1 DEF PublishedBelow
  <2>6. CASE b \in ds
    <3>1. scope[a] = s /\ b \in Children(c) /\ c \in Family[a] /\ PublishedFrom(a)
      <4>1. b \in Children(c)
        BY <2>6 DEF CallsMore
      <4>2. c \in Family[a]
        BY <2>2, <4>1, FamilyFacts
      <4> QED
        BY <1>1, <2>1, <2>4, <2>6, <4>1, <4>2 DEF PublishingInv
    <3>2. s # <<"in", b>>
      <4>1. SUFFICES ASSUME s = <<"in", b>> PROVE FALSE
        OBVIOUS
      <4>2. a \in Family[b]
        BY <2>4, <3>1, <4>1 DEF PublishedFrom
      <4> QED
        BY <2>2, <4>2, NoneAboveItself
    <3>3. s # <<"own", c>>
      <4>1. SUFFICES ASSUME s = <<"own", c>> PROVE FALSE
        OBVIOUS
      <4>2. a \in Family[c] /\ a # c
        BY <2>4, <3>1, <4>1 DEF PublishedFrom
      <4> QED
        BY <3>1, <4>2, NoneAboveItself
    <3>4. s = scope[c] /\ Hands(c)
      BY <2>6, <3>2, <3>3, NewPublished
    <3>5. Publishes[b] => Publishes[c]
      BY <3>1, <3>4, PublishingIsHanded
    <3>6. CASE a = c
      BY <3>1, <3>4, <3>6
    <3>7. CASE a # c
      <4>1. PublishedBelow(a, c) /\ c \in Below(a)
        BY <3>1, <3>7 DEF PublishingInv, Below
      <4> QED
        BY <1>1, <2>4, <3>1, <3>4, <3>5, <4>1 DEF PublishedBelow
    <3> QED
      BY <3>6, <3>7
  <2> QED
    BY <2>5, <2>6
<1>6. ASSUME ~Exposed', ~Overwritten', NEW a \in Calls, NEW b \in Calls
      PROVE  PublishedBeside(a, b)'
  <2>1. ~Exposed /\ ~Overwritten
    BY <1>1, <1>6, StaysOverwritten
  <2>2. SUFFICES ASSUME Live(a)', pc'[b] = "ended", b \notin Family[a], scope'[a] = scope'[b],
                        Writes[a], Publishes[b]
                 PROVE  FALSE
    BY DEF PublishedBeside
  <2>3. b \notin ds /\ b # c /\ pc[b] = "ended" /\ scope'[b] = scope[b] /\ PublishedFrom(b)
    BY <1>1, <2>2 DEF PublishingInv
  <2>4. CASE a \notin ds
    <3>1. PublishedBeside(a, b)
      BY <2>1 DEF PublishingInv
    <3> QED
      BY <1>1, <2>2, <2>3, <2>4, <3>1 DEF PublishedBeside
  <2>5. CASE a \in ds
    <3>1. scope[b] = s /\ a \in Children(c) /\ pc[b] # "idle"
      BY <1>1, <2>2, <2>3, <2>5 DEF CallsMore
    <3>2. s # <<"in", a>>
      BY <2>2, <2>3, <3>1 DEF PublishedFrom
    <3>3. CASE s = <<"own", c>> /\ Kind(c) = "serial"
      <4>1. Overwrites(c)
        BY <2>2, <2>3, <3>1, <3>3 DEF PublishedFrom, Overwrites
      <4> QED
        BY <1>1, <2>1, <4>1, LiveIsNotOverwritten
    <3>4. CASE s = scope[c] /\ Hands(c) /\ ((Kind(c) = "parallel" /\ Len(Run(c)) > 1) \/ ds = {a})
      <4>1. Writes[c] /\ ~Exposes(c)
        BY <1>1, <2>1, <2>2, <3>1, <3>4, WritingIsHanded, LiveIsNotExposed
      <4>2. CASE b \notin Family[c]
        BY <1>1, <2>1, <2>2, <2>3, <3>1, <3>4, <4>1, <4>2 DEF PublishingInv, PublishedBeside
      <4>3. CASE b \in Family[c] /\ IsLoop(c)
        <5>1. \E y \in Children(c) : Publishes[y]
          BY <1>1, <2>2, <2>3, <3>1, <3>4, <4>3 DEF PublishingInv, PublishedBelow, Below
        <5> QED
          BY <1>1, <2>1, <3>4, <4>3, <5>1, LoopsPublishNone
      <4>4. CASE b \in Family[c] /\ Kind(c) = "parallel"
        <5>1. ~(Len(Run(c)) > 1)
          BY <2>2, <3>1, <4>1, <4>4 DEF Exposes, Hands
        <5>2. \A y \in Children(c) : y = a
          BY <3>1, <5>1, CallFacts
        <5> QED
          BY <2>2, <2>3, <4>4, <5>2, FamilyFacts
      <4> QED
        BY <3>4, <4>2, <4>3, <4>4 DEF Hands, IsLoop
    <3> QED
      BY <2>5, <3>2, <3>3, <3>4, NewPublished
  <2> QED
    BY <2>4, <2>5
<1> QED
  BY <1>4, <1>5, <1>6 DEF PublishingInv

LEMMA RestingPublishing ==
    ASSUME PublishingInv, DiesOnlyIfExposed', UNCHANGED <<pc, scope, outs>> PROVE PublishingInv'
<1>1. \A c \in Calls : PublishedFrom(c)' /\ OutputsOf(c)'
  BY DEF PublishingInv, PublishedFrom, OutputsOf, Children, Run
<1>2. \A c, d \in Calls : PublishedBelow(c, d)'
  BY DEF PublishingInv, PublishedBelow, Below, Hands, Children, Kind, Run
<1>3. (Exposed => Exposed') /\ (Overwritten => Overwritten')
  BY StaysOverwritten
<1>4. \A c, d \in Calls : PublishedBeside(c, d) => PublishedBeside(c, d)'
  BY DEF PublishedBeside, Live
<1> QED
  BY <1>1, <1>2, <1>3, <1>4 DEF PublishingInv

LEMMA NextPublishing ==
    ASSUME SharingInv, ControlInv, PublishingInv, [Next]_vars PROVE PublishingInv'
<1>1. SharingInv'
  BY NextSharing
<1>2. CASE UNCHANGED vars
  <2>1. UNCHANGED <<pc, scope, outs, fate>>
    BY <1>2 DEF vars
  <2>2. (Exposed => Exposed') /\ (Overwritten => Overwritten')
    BY <2>1, StaysOverwritten
  <2>3. DiesOnlyIfExposed'
    BY <2>1, <2>2 DEF PublishingInv, DiesOnlyIfExposed
  <2> QED
    BY <2>1, <2>3, RestingPublishing
<1>3. ASSUME NEW c \in Calls, Step(c) PROVE PublishingInv'
  <2>1. Moved(c) /\ Live(c) /\ Progress(c)
    BY <1>3, ControlStep, Progressing DEF OwnControl
  <2>2. \A d \in Calls : pc[d] # "idle" => pc'[d] # "idle"
    BY <2>1 DEF Moved, Unmoved, CalledBy
  <2>3. DiesOnlyIfExposed'
    BY <1>3, <2>2, StepDies, StaysOverwritten DEF DiesOnlyIfExposed
  <2> QED
    BY <1>1, <2>1, <2>3, RestingPublishing, GoingOnPublishing, CallingPublishing DEF Progress
<1> QED
  BY <1>2, <1>3 DEF Next

LEMMA InitPublishing == ASSUME Init PROVE PublishingInv
<1>1. PICK r \in Roots : pc = [c \in Calls |-> IF c = r THEN "called" ELSE "idle"]
  BY DEF Init
<1>2. /\ fate = "going"
      /\ \A c \in Calls : scope[c] = <<"in", c>> /\ c \in Family[c] /\ pc[c] # "ended"
  BY <1>1, FamilyFacts DEF Init
<1>3. \A c \in Calls : PublishedFrom(c) /\ OutputsOf(c)
  BY <1>2 DEF PublishedFrom, OutputsOf
<1>4. \A c, d \in Calls : PublishedBelow(c, d) /\ PublishedBeside(c, d)
  BY <1>2 DEF PublishedBelow, PublishedBeside, Below
<1> QED
  BY <1>2, <1>3, <1>4 DEF PublishingInv, DiesOnlyIfExposed

\* No map is in use when it is written to (DiesOnlyIfExposed), neither by a call nor by
\* whoever reads the event that it was published with, unless the op has calls that
\* parallelCaller.go or parallelLoopCaller.go lets run side by side with one map, or that
\* serialCaller.go or serialLoopCaller.go lets publish a map that it goes on writing to.
THEOREM MapsAreWrittenAlone == Spec => []DiesOnlyIfExposed
<1>1. Init => SharingInv /\ ControlInv /\ PublishingInv
  BY InitSharing, InitControl, InitPublishing
<1>2. SharingInv /\ ControlInv /\ PublishingInv /\ [Next]_vars
        => SharingInv' /\ ControlInv' /\ PublishingInv'
  BY NextSharing, NextControl, NextPublishing
<1>3. PublishingInv => DiesOnlyIfExposed
  BY DEF PublishingInv
<1> QED
  BY <1>1, <1>2, <1>3, PTL DEF Spec

-----------------------------------------------------------------------------
(* Which maps a step writes to *)

Same(p) == IF p[1] = "in" THEN in'[p[2]] = in[p[2]] ELSE own'[p[2]] = own[p[2]]

\* The maps that x may write to: those of calls that are not live, its own, and the
\* one it was given.
Rewrites(x, p) ==
    \/ \E e \in Children(x) : p = <<"in", e>> /\ ~Live(e)
    \/ Quiet(x) /\ p = <<"own", x>>
    \/ Quiet(x) /\ Writes[x] /\ IsLoop(x) /\ pc[x] = "waiting" /\ p = scope[x]

Frame(x) ==
    /\ Shaped'
    /\ \A y \in Calls \ {x} : /\ seen'[y] = seen[y] /\ given'[y] = given[y]
                              /\ len'[y] = len[y] /\ outs'[y] = outs[y]
    /\ pc[x] # "called" => seen'[x] = seen[x]
    /\ \A y \in Calls : /\ in'[y] = in[y] \/ Rewrites(x, <<"in", y>>)
                        /\ own'[y] = own[y] \/ Rewrites(x, <<"own", y>>)

\* A map that x does not rewrite is as it was.
LEMMA FrameOfMaps ==
    ASSUME NEW x \in Calls, Frame(x), NEW p \in Maps, ~Rewrites(x, p)
    PROVE  Same(p) /\ Deref(p)' = Deref(p)
<1>1. p[2] \in Calls /\ p \in {<<"in", p[2]>>, <<"own", p[2]>>}
  BY DEF Maps
<1>2. CASE p = <<"in", p[2]>>
  <2>1. in'[p[2]] = in[p[2]]
    BY <1>1, <1>2 DEF Frame
  <2> QED
    BY <1>2, <2>1 DEF Same, Deref
<1>3. CASE p = <<"own", p[2]>>
  <2>1. own'[p[2]] = own[p[2]]
    BY <1>1, <1>3 DEF Frame
  <2>2. p[1] = "own"
    BY <1>3
  <2> QED
    BY <2>1, <2>2 DEF Same, Deref
<1> QED
  BY <1>1, <1>2, <1>3

\* A call that ends has nothing but its own map to write to.
LEMMA FrameOfEnd ==
    ASSUME SharingInv, Shaped, NEW x \in Calls, NEW s, NEW m, Finish(x, s, m),
           Quiet(x), UNCHANGED <<in, len, seen>>,
           own' = own \/ \E v : own' = [own EXCEPT ![x] = v]
    PROVE  Frame(x)
<1>1. outs' = [outs EXCEPT ![x] = s] /\ given' = [given EXCEPT ![x] = m]
  BY DEF Finish
<1>2. Shaped'
  BY <1>1, StateFacts DEF Shaped
<1>3. \A y \in Calls \ {x} : own'[y] = own[y]
  BY DEF Shaped
<1>4. Rewrites(x, <<"own", x>>)
  BY DEF Rewrites
<1>5. \A y \in Calls \ {x} : given'[y] = given[y] /\ outs'[y] = outs[y]
  BY <1>1, StateFacts DEF Shaped
<1> QED
  BY <1>2, <1>3, <1>4, <1>5 DEF Frame

\* No map is written to.
LEMMA FrameOfNone ==
    ASSUME Shaped, NEW x \in Calls, UNCHANGED <<outs, in, own, len, given>>,
           seen' = seen \/ (pc[x] = "called" /\ \E v : seen' = [seen EXCEPT ![x] = v])
    PROVE  Frame(x)
<1>1. Shaped'
  BY DEF Shaped
<1>2. \A y \in Calls \ {x} : seen'[y] = seen[y]
  BY DEF Shaped
<1> QED
  BY <1>1, <1>2 DEF Frame

\* The next call of a loop is given its variables in a map that is its own.
LEMMA FrameOfIteration ==
    ASSUME SharingInv, ControlInv, Shaped, NEW x \in Calls, pc[x] = "begun", IsLoop(x),
           NEW p, NEW m, CallIteration(x, p, m), UNCHANGED <<outs, own, seen, given>>,
           len' = len \/ \E v : len' = [len EXCEPT ![x] = v]
    PROVE  /\ Frame(x) /\ (CallSpec[x].hasVars => in'[Run(x)[at[x] + 1]] = m)
<1> DEFINE d == Run(x)[at[x] + 1]
<1>1. at[x] < Len(Run(x)) /\ in' = IF CallSpec[x].hasVars THEN [in EXCEPT ![d] = m] ELSE in
  BY DEF CallIteration
<1>2. at[x] + 1 \in 1..Len(Run(x)) /\ Made(x, at[x] + 1) /\ d \in Children(x) /\ d \in Calls
  BY <1>1, ControlFacts, CallFacts
<1>3. pc[d] = "idle"
  BY <1>2, ControlFacts DEF Made, Begun
<1>4. Rewrites(x, <<"in", d>>)
  BY <1>2, <1>3 DEF Rewrites, Live
<1>5. Shaped'
  BY <1>1, <1>2 DEF Shaped
<1>6. \A y \in Calls \ {d} : in'[y] = in[y]
  BY <1>1 DEF Shaped
<1>7. \A y \in Calls \ {x} : len'[y] = len[y]
  BY DEF Shaped
<1>8. CallSpec[x].hasVars => in'[d] = m
  BY <1>1, <1>2 DEF Shaped
<1> QED
  BY <1>4, <1>5, <1>6, <1>7, <1>8 DEF Frame

\* Every step writes to no more.
LEMMA FrameStep ==
    ASSUME SharingInv, ControlInv, Shaped, NEW x \in Calls, Step(x)
    PROVE  Frame(x)
<1>0. /\ at[x] \in Nat /\ at[x] <= Len(Run(x)) /\ Len(Run(x)) \in Nat /\ Counted(x)
      /\ ~Launch(x) => Quiet(x)
      /\ scope[x] \in Maps
  BY ControlFacts, QuietStep, StateFacts
<1>1. CASE Interpret(x)
  <2>1. /\ pc[x] = "called" /\ UNCHANGED <<own, len>>
        /\ \E v : seen' = [seen EXCEPT ![x] = v]
        /\ \/ UNCHANGED <<outs, given, in>>
           \/ Finish(x, <<"own", x>>, Empty) /\ UNCHANGED in
           \/ /\ UNCHANGED <<outs, given>>
              /\ in' = in \/ (Kind(x) = "op" /\ \E v : in' = [in EXCEPT ![Run(x)[1]] = v])
    BY <1>1 DEF Interpret, InterpretedAs, Going
  <2>2. /\ \A y \in Calls \ {x} : seen'[y] = seen[y]
        /\ seen' = [c \in Calls |-> seen'[c]]
    BY <2>1 DEF Shaped
  <2>3. /\ \A y \in Calls \ {x} : given'[y] = given[y] /\ outs'[y] = outs[y]
        /\ given' = [c \in Calls |-> given'[c]]
    BY <2>1, StateFacts DEF Shaped, Finish
  <2>4. /\ \A y \in Calls : in'[y] = in[y] \/ Rewrites(x, <<"in", y>>)
        /\ in' = [c \in Calls |-> in'[c]]
    <3>1. CASE in' = in
      BY <3>1 DEF Shaped
    <3>2. CASE Kind(x) = "op" /\ \E v : in' = [in EXCEPT ![Run(x)[1]] = v]
      <4>1. Run(x)[1] \in Children(x) /\ Run(x)[1] \in Calls
        BY <3>2, OneCallOfAnOp, CallFacts
      <4>2. Rewrites(x, <<"in", Run(x)[1]>>)
        BY <1>0, <1>1, <4>1, QuietStep DEF Rewrites, Quiet, Interpret, Launch, Going
      <4>3. /\ \A y \in Calls \ {Run(x)[1]} : in'[y] = in[y]
            /\ in' = [c \in Calls |-> in'[c]]
        BY <3>2 DEF Shaped
      <4> QED
        BY <4>2, <4>3
    <3> QED
      BY <2>1, <3>1, <3>2
  <2> QED
    BY <2>1, <2>2, <2>3, <2>4 DEF Frame, Shaped
<1>2. CASE RunContainer(x)
  <2>1. Quiet(x)
    BY <1>0, <1>2 DEF RunContainer, Launch, Going
  <2>2. \E m : Finish(x, <<"own", x>>, m) /\ own' = [own EXCEPT ![x] = m]
    BY <1>2 DEF RunContainer, EndWith
  <2> QED
    BY <1>2, <2>1, <2>2, FrameOfEnd DEF RunContainer
<1>3. CASE CallOp(x)
  BY <1>3, FrameOfNone DEF CallOp
<1>4. CASE EndOp(x)
  <2>1. Quiet(x)
    BY <1>0, <1>4 DEF EndOp, Launch, Going
  <2>2. /\ UNCHANGED <<in, len, seen>>
        /\ \/ UNCHANGED <<outs, given, own>>
           \/ \E m : Finish(x, <<"own", x>>, m) /\ own' = [own EXCEPT ![x] = m]
    BY <1>4 DEF EndOp, EndOpWith, EndWith
  <2> QED
    BY <2>1, <2>2, FrameOfEnd, FrameOfNone
<1>5. CASE BeginSerial(x)
  <2>1. Rewrites(x, <<"own", x>>)
    BY <1>0, <1>5 DEF BeginSerial, Launch, Going, Rewrites
  <2>2. /\ UNCHANGED <<outs, in, len, seen, given>>
        /\ own' = [own EXCEPT ![x] = CopyOf(Deref(scope[x]))]
    BY <1>5 DEF BeginSerial
  <2>3. Shaped' /\ \A y \in Calls \ {x} : own'[y] = own[y]
    BY <2>2 DEF Shaped
  <2> QED
    BY <2>1, <2>2, <2>3 DEF Frame
<1>6. CASE CallNext(x)
  BY <1>6, FrameOfNone DEF CallNext
<1>7. CASE TakeOutputs(x)
  <2>1. Rewrites(x, <<"own", x>>)
    BY <1>0, <1>7 DEF TakeOutputs, Launch, Going, Rewrites
  <2>2. /\ UNCHANGED <<outs, in, len, seen, given>>
        /\ \E m : own' = [own EXCEPT ![x] = m]
    BY <1>7 DEF TakeOutputs
  <2>3. Shaped' /\ \A y \in Calls \ {x} : own'[y] = own[y]
    BY <2>2 DEF Shaped
  <2> QED
    BY <2>1, <2>2, <2>3 DEF Frame
<1>8. CASE EndSerial(x)
  <2>1. Quiet(x)
    BY <1>0, <1>8 DEF EndSerial, Launch, Going
  <2> QED
    BY <1>8, <2>1, FrameOfEnd DEF EndSerial
<1>9. CASE CallAll(x)
  BY <1>9, FrameOfNone DEF CallAll
<1>10. CASE EndParallel(x)
  <2>1. Quiet(x)
    BY <1>0, <1>10 DEF EndParallel, Launch, Going
  <2>2. /\ UNCHANGED <<in, len, seen>>
        /\ \E m : Finish(x, <<"own", x>>, m) /\ own' = [own EXCEPT ![x] = m]
    BY <1>10 DEF EndParallel, EndWith
  <2> QED
    BY <2>1, <2>2, FrameOfEnd
<1>11. CASE Iterate(x)
  <2>1. Quiet(x) /\ pc[x] = "begun" /\ IsLoop(x) /\ UNCHANGED seen
    BY <1>0, <1>11 DEF Iterate, Launch, Going, IsLoop
  <2>2. \/ /\ UNCHANGED <<in, len>>
           /\ \E s, m : Finish(x, s, m) /\ (own' = own \/ own' = [own EXCEPT ![x] = m])
        \/ UNCHANGED <<outs, in, own, len, given>>
        \/ /\ \E m : CallIteration(x, "waiting", m)
           /\ \E v : len' = [len EXCEPT ![x] = v]
           /\ UNCHANGED <<outs, own, given>>
    BY <1>11 DEF Iterate, IterateBy, FailToIterate, EndLoop, EndWith
  <2> QED
    BY <2>1, <2>2, FrameOfEnd, FrameOfNone, FrameOfIteration
<1>12. CASE TakeIteration(x)
  <2> DEFINE d == Run(x)[at[x]]
             m == Merge(Deref(Last(x)), FromStore(Run(x)[at[x]]))
  <2>1. /\ Quiet(x) /\ pc[x] = "waiting" /\ Kind(x) = "serialLoop" /\ IsLoop(x)
        /\ pc[d] = "ended" /\ at[x] > 0
    BY <1>0, <1>12 DEF TakeIteration, Launch, Going, IsLoop, Counted
  <2>2. /\ in' = InWith(Last(x), m) /\ own' = OwnWith(Last(x), m)
        /\ UNCHANGED <<outs, len, seen, given>>
    BY <1>12 DEF TakeIteration
  <2>3. d \in Children(x) /\ d \in Calls
    BY <1>0, <2>1, CallFacts
  <2>4. Last(x) \in Maps /\ Rewrites(x, Last(x))
    <3>1. CASE CallSpec[x].hasVars
      <4>1. Last(x) = <<"in", d>>
        BY <2>1, <3>1 DEF Last, GivenTo
      <4> QED
        BY <2>1, <2>3, <4>1 DEF Rewrites, Live, Maps
    <3>2. CASE ~CallSpec[x].hasVars
      <4>1. Last(x) = scope[x] /\ Writes[x]
        BY <2>1, <3>2, TreeAssumption DEF Last, GivenTo
      <4> QED
        BY <1>0, <2>1, <4>1 DEF Rewrites
    <3> QED
      BY <3>1, <3>2
  <2>5. Last(x) = <<Last(x)[1], Last(x)[2]>> /\ Last(x)[1] \in {"in", "own"} /\ Last(x)[2] \in Calls
    BY <2>4 DEF Maps
  <2>6. /\ Shaped'
        /\ \A y \in Calls : /\ in'[y] = in[y] \/ Last(x) = <<"in", y>>
                            /\ own'[y] = own[y] \/ Last(x) = <<"own", y>>
    <3> HIDE DEF m
    <3> QED
      BY <2>2, <2>5 DEF Shaped, InWith, OwnWith
  <2> QED
    BY <2>2, <2>4, <2>6 DEF Frame
<1>13. CASE Launch(x)
  <2>1. pc[x] = "begun" /\ IsLoop(x) /\ UNCHANGED seen /\ Kind(x) = "parallelLoop"
    BY <1>13 DEF Launch, Going, IsLoop
  <2>2. \/ UNCHANGED <<outs, in, own, len, given>>
        \/ UNCHANGED <<in, own, len>> /\ at[x] = 0 /\ Finish(x, <<"own", x>>, Empty)
        \/ /\ \E m : CallIteration(x, "begun", m)
           /\ UNCHANGED <<outs, own, len, given>>
    BY <1>13 DEF Launch, LaunchBy, FailToIterate
  <2>3. ASSUME at[x] = 0 PROVE Quiet(x)
    <3>1. ASSUME NEW i \in 1..Len(Run(x)) PROVE ~Live(Run(x)[i])
      BY <2>1, <2>3, ControlFacts DEF Made, Begun, Live
    <3> QED
      BY <3>1, CallFacts DEF Quiet
  <2> QED
    BY <2>1, <2>2, <2>3, FrameOfEnd, FrameOfNone, FrameOfIteration
<1>14. CASE EndParallelLoop(x)
  <2>1. /\ Quiet(x) /\ pc[x] = "waiting" /\ Kind(x) = "parallelLoop" /\ IsLoop(x)
        /\ UNCHANGED <<len, seen>>
    BY <1>0, <1>14 DEF EndParallelLoop, Launch, Going, IsLoop
  <2>2. PICK m : LeaveParallelLoop(x, m)
    BY <1>14 DEF EndParallelLoop
  <2>3. Rewrites(x, scope[x]) /\ Rewrites(x, <<"own", x>>)
    BY <2>1, TreeAssumption DEF Rewrites
  <2>4. scope[x] = <<scope[x][1], scope[x][2]>> /\ scope[x][1] \in {"in", "own"}
        /\ scope[x][2] \in Calls
    BY <1>0 DEF Maps
  <2>5. /\ in' = InWith(scope[x], m)
        /\ \/ own' = OwnWith(scope[x], m)
           \/ \E v : own' = [OwnWith(scope[x], m) EXCEPT ![x] = v]
        /\ \E s, v : Finish(x, s, v)
    BY <2>2 DEF LeaveParallelLoop
  <2>6. /\ in' = [c \in Calls |-> in'[c]] /\ own' = [c \in Calls |-> own'[c]]
        /\ \A y \in Calls : /\ in'[y] = in[y] \/ scope[x] = <<"in", y>>
                            /\ own'[y] = own[y] \/ scope[x] = <<"own", y>> \/ y = x
    BY <2>4, <2>5 DEF Shaped, InWith, OwnWith
  <2>7. /\ given' = [c \in Calls |-> given'[c]]
        /\ \A y \in Calls \ {x} : given'[y] = given[y] /\ outs'[y] = outs[y]
    BY <2>5, StateFacts DEF Shaped, Finish
  <2>8. Shaped'
    BY <2>1, <2>6, <2>7 DEF Shaped
  <2> QED
    BY <2>1, <2>3, <2>6, <2>7, <2>8 DEF Frame
<1> QED
  BY <1>1, <1>2, <1>3, <1>4, <1>5, <1>6, <1>7, <1>8, <1>9, <1>10, <1>11, <1>12, <1>13, <1>14
     DEF Step

-----------------------------------------------------------------------------
(* What a step leaves alone *)

\* The map of a call, but one that hands it on to what writes to it.
LEMMA SparesScopes ==
    ASSUME SharingInv, ~Exposed, NEW x \in Calls, Live(x), NEW y \in Calls, Live(y), y # x,
           pc[y] # "waiting" \/ ~Writes[y] \/ Kind(y) = "parallelLoop"
    PROVE  ~Rewrites(x, scope[y])
<1>1. SUFFICES ASSUME Rewrites(x, scope[y]) PROVE FALSE
  OBVIOUS
<1>2. ASSUME NEW e \in Children(x), scope[y] = <<"in", e>>, ~Live(e) PROVE FALSE
  BY <1>2, CallFacts, FreshIn
<1>3. ASSUME Quiet(x), scope[y] = <<"own", x>> PROVE FALSE
  BY <1>3, FreshOwn DEF Quiet
<1>4. ASSUME Quiet(x), Writes[x], scope[y] = scope[x] PROVE FALSE
  BY <1>4, AboveWriter
<1> QED
  BY <1>1, <1>2, <1>3, <1>4 DEF Rewrites

\* The map that was made for a call that is not live.
LEMMA SparesIns ==
    ASSUME SharingInv, NEW x \in Calls, Live(x), NEW y \in Calls, y # x,
           NEW e \in Children(y), ~Live(e)
    PROVE  ~Rewrites(x, <<"in", e>>)
<1>1. SUFFICES ASSUME Rewrites(x, <<"in", e>>) PROVE FALSE
  OBVIOUS
<1>2. e \notin Children(x) /\ e \in Calls
  BY CallFacts, OneParent
<1>3. scope[x] # <<"in", e>>
  BY <1>2, FreshIn
<1> QED
  BY <1>1, <1>2, <1>3 DEF Rewrites

\* The map that a call made for itself, while none of its own calls is live.
LEMMA SparesOwns ==
    ASSUME SharingInv, NEW x \in Calls, Live(x), NEW y \in Calls, y # x, Quiet(y)
    PROVE  ~Rewrites(x, <<"own", y>>)
<1>1. scope[x] # <<"own", y>>
  BY FreshOwn DEF Quiet
<1> QED
  BY <1>1 DEF Rewrites

\* A call that is not live has none that are.
LEMMA QuietIfNotLive ==
    ASSUME SharingInv, NEW y \in Calls, ~Live(y) PROVE Quiet(y)
  BY CallFacts, FamilyFacts, LiveAbove DEF Quiet

\* The map of a call whose outputs are still to be taken.
LEMMA SparesDue ==
    ASSUME SharingInv, ControlInv, ~Exposed, NEW x \in Calls, Live(x), NEW y \in Calls, y # x,
           NEW i \in 1..Len(Run(y)), Due(y, i)
    PROVE  ~Rewrites(x, MapGiven(y, i)) /\ ~Rewrites(x, <<"own", Run(y)[i]>>)
<1> DEFINE d == Run(y)[i]
<1>1. /\ d \in Calls /\ d \in Children(y) /\ ~Live(d) /\ d # x /\ Live(y) /\ pc[d] = "ended"
      /\ Made(y, i) /\ Counted(y) /\ i \in Nat /\ at[y] \in Nat
  BY CallFacts, ControlFacts DEF Due, Live
<1>2. ~Rewrites(x, <<"own", d>>)
  BY <1>1, QuietIfNotLive, SparesOwns
<1>3. ~Rewrites(x, <<"in", d>>)
  BY <1>1, SparesIns
<1>4. pc[y] # "called"
  BY <1>1 DEF Made
<1>5. ASSUME Kind(y) = "serial" PROVE ~Rewrites(x, <<"own", y>>)
  <2>1. i > at[y] /\ pc[y] = "waiting" /\ i = at[y] + 1
    BY <1>1, <1>4, <1>5 DEF Due, Made, Live, IsLoop
  <2>2. ASSUME NEW j \in 1..Len(Run(y)) PROVE ~Live(Run(y)[j])
    <3>1. Made(y, j) /\ j \in Nat
      BY ControlFacts
    <3>2. CASE j = i
      BY <1>1, <3>2
    <3>3. CASE j # i
      <4>1. pc[Run(y)[j]] = "ended" \/ pc[Run(y)[j]] = "idle"
        BY <1>1, <1>5, <2>1, <3>1, <3>3 DEF Made
      <4> QED
        BY <4>1 DEF Live
    <3> QED
      BY <3>2, <3>3
  <2>3. Quiet(y)
    BY <2>2, CallFacts DEF Quiet
  <2> QED
    BY <2>3, SparesOwns
<1>6. ASSUME Kind(y) = "parallel" \/ (IsLoop(y) /\ ~CallSpec[y].hasVars)
      PROVE  ~Rewrites(x, scope[y])
  <2>1. SUFFICES ASSUME Rewrites(x, scope[y]) PROVE FALSE
    OBVIOUS
  <2>2. /\ pc[y] = "waiting" /\ Kind(y) # "parallelLoop" /\ Writes[y]
    BY <1>1, <2>1, SparesScopes DEF Live
  <2>3. ASSUME NEW e \in Children(x), scope[y] = <<"in", e>>, ~Live(e) PROVE FALSE
    BY <1>1, <2>3, CallFacts, FreshIn
  <2>4. ASSUME Quiet(x), scope[y] = <<"own", x>> PROVE FALSE
    BY <1>1, <2>4, FreshOwn DEF Quiet
  <2>5. Quiet(x) /\ Writes[x] /\ scope[y] = scope[x]
    BY <2>1, <2>3, <2>4 DEF Rewrites
  <2>6. PICK z \in Children(y) : z \in Calls /\ Live(z) /\ Writes[z]
    BY <1>1, <2>5, AboveWriter
  <2>7. PICK j \in 1..Len(Run(y)) : z = Run(y)[j]
    BY DEF Children
  <2>8. i # j
    BY <1>1, <2>6, <2>7
  <2>9. CASE Kind(y) = "parallel"
    <3>1. Len(Run(y)) > 1
      BY <2>8, CallFacts
    <3>2. Exposes(y)
      BY <2>6, <2>9, <3>1 DEF Exposes, Hands
    <3> QED
      BY <1>1, <3>2, LiveIsNotExposed
  <2>10. CASE Kind(y) = "serialLoop"
    <3>1. i = at[y]
      BY <2>10 DEF Due
    <3>2. LiveBelow(y, j)
      BY <2>6, <2>7 DEF SharingInv, Nested
    <3> QED
      BY <2>2, <2>8, <2>10, <3>1, <3>2 DEF LiveBelow
  <2> QED
    BY <1>6, <2>2, <2>9, <2>10 DEF IsLoop
<1>7. CASE Kind(y) = "op"
  BY <1>2, <1>3, <1>7 DEF MapGiven, IsLoop
<1>8. CASE Kind(y) = "serial"
  BY <1>2, <1>5, <1>8 DEF MapGiven, IsLoop
<1>9. CASE Kind(y) = "parallel"
  BY <1>2, <1>6, <1>9 DEF MapGiven, IsLoop
<1>10. CASE IsLoop(y)
  <2>1. MapGiven(y, i) = GivenTo(y, d)
    BY <1>10 DEF MapGiven, IsLoop
  <2> QED
    BY <1>2, <1>3, <1>6, <1>10, <2>1 DEF GivenTo
<1>11. Kind(y) # "container"
  BY <1>1, <1>4 DEF Counted, Made, Live, IsLoop
<1> QED
  BY <1>7, <1>8, <1>9, <1>10, <1>11, ScopesAssumption DEF Kinds, IsLoop, Kind

-----------------------------------------------------------------------------
(* What stays meant *)

\* The first n calls of c are interpreted against what they were, and output it.
Settled(c, n) ==
    \A j \in 1..n : seen'[Run(c)[j]] = seen[Run(c)[j]] /\ given'[Run(c)[j]] = given[Run(c)[j]]

\* What calls that are over have given, and the loop and what it sees by that, stay as
\* they are.
LEMMA GivenSame ==
    ASSUME NEW c \in Calls, NEW n \in Nat, Settled(c, n)
    PROVE  /\ GivenBy(c, n)' = GivenBy(c, n)
           /\ \A i \in 0..n : GivenBy(c, i)' = GivenBy(c, i) /\ Settled(c, i)
<1>1. ASSUME NEW i \in 0..n PROVE GivenBy(c, i)' = GivenBy(c, i) /\ Settled(c, i)
  <2>1. \A j \in 1..i : j \in 1..n /\ Run(c)' = Run(c)
    BY DEF Run
  <2>2. \A j \in 1..i : given'[Run(c)[j]] = given[Run(c)[j]]
    BY <2>1 DEF Settled
  <2>3. GivenBy(c, i)' = GivenBy(c, i)
    BY <2>1, <2>2 DEF GivenBy
  <2> QED
    BY <2>1, <2>3 DEF Settled
<1>2. n \in 0..n
  OBVIOUS
<1> QED
  BY <1>1, <1>2

\* The variables of a serial loop before iteration i, and with its own.
LEMMA BeforeSame ==
    ASSUME NEW c \in Calls, NEW n \in Nat, Settled(c, n), seen'[c] = seen[c], NEW i \in 0..n
    PROVE  Before(c, i)' = Before(c, i) /\ During(c, i)' = During(c, i)
<1>1. i = 0 \/ i \in 1..n
  OBVIOUS
<1>2. Before(c, i)' = Before(c, i)
  BY <1>1 DEF Before, Settled, Run
<1> QED
  BY <1>2 DEF During, Iteration, IterationScope

\* Whether a loop is over there.
LEMMA OverSame ==
    ASSUME NEW c \in Calls, NEW n \in Nat, seen'[c] = seen[c], IsLoop(c),
           Kind(c) = "serialLoop" => Settled(c, n), NEW i \in 0..n
    PROVE  IsOver(c, i)' <=> IsOver(c, i)
<1>1. CASE Kind(c) = "serialLoop"
  <2>1. Before(c, i)' = Before(c, i) /\ During(c, i)' = During(c, i)
    BY <1>1, BeforeSame
  <2>2. UsedUp(c, i)' <=> UsedUp(c, i)
    <3>1. i = 0 \/ i \in 1..n
      OBVIOUS
    <3> QED
      BY <1>1, <3>1 DEF UsedUp, Settled, Run
  <2> QED
    BY <1>1, <2>1, <2>2 DEF IsOver, IsComplete, Kind
<1>2. CASE Kind(c) = "parallelLoop"
  BY <1>2 DEF IsOver, IsBeyond, Iteration, IterationScope, Kind
<1> QED
  BY <1>1, <1>2 DEF IsLoop

\* What the i-th call of one sees, and the map that it has.
LEMMA SeesSame ==
    ASSUME NEW c \in Calls, NEW i \in 1..Len(Run(c)), seen'[c] = seen[c],
           Kind(c) \in {"serial", "serialLoop"} => Settled(c, i - 1)
    PROVE  Sees(c, i)' = Sees(c, i) /\ (scope'[c] = scope[c] => MapGiven(c, i)' = MapGiven(c, i))
<1>1. i - 1 \in Nat /\ i - 1 \in 0..(i - 1)
  BY CallFacts
<1>2. MapGiven(c, i)' = MapGiven(c, i) \/ scope'[c] # scope[c]
  BY DEF MapGiven, GivenTo, Kind, Run, IsLoop
<1>3. CASE Kind(c) = "serial"
  <2>1. GivenBy(c, i - 1)' = GivenBy(c, i - 1)
    BY <1>1, <1>3, GivenSame
  <2> QED
    BY <1>2, <1>3, <2>1 DEF Sees, Kind
<1>4. CASE Kind(c) = "serialLoop"
  <2>1. During(c, i - 1)' = During(c, i - 1)
    BY <1>1, <1>4, BeforeSame
  <2> QED
    BY <1>2, <1>4, <2>1 DEF Sees, Kind
<1>5. CASE Kind(c) \notin {"serial", "serialLoop"}
  BY <1>2, <1>5 DEF Sees, Kind, Run, Iteration, IterationScope
<1> QED
  BY <1>3, <1>4, <1>5

\* What a call that is over gives,
LEMMA GivesSame ==
    ASSUME SharingInv, ControlInv, NEW c \in Calls, seen'[c] = seen[c], at'[c] = at[c],
           Settled(c, Len(Run(c)))
    PROVE  Gives(c)' = Gives(c) /\ (IteratesRightly(c)' <=> IteratesRightly(c))
<1>1. /\ Len(Run(c)) \in Nat /\ at[c] \in 0..Len(Run(c)) /\ Len(Run(c)) \in 0..Len(Run(c))
      /\ at[c] \in Nat
  BY ControlFacts
<1>2. /\ GivenBy(c, Len(Run(c)))' = GivenBy(c, Len(Run(c))) /\ GivenBy(c, at[c])' = GivenBy(c, at[c])
      /\ Settled(c, at[c])
  BY <1>1, GivenSame
<1>3. Before(c, at[c])' = Before(c, at[c]) /\ During(c, at[c])' = During(c, at[c])
  BY <1>1, BeforeSame
<1>4. IteratesRightly(c)' <=> IteratesRightly(c)
  <2>1. CASE IsLoop(c)
    <3>1. \A i \in 0..at[c] : IsOver(c, i)' <=> IsOver(c, i)
      BY <1>1, <1>2, <2>1, OverSame
    <3> QED
      BY <3>1 DEF IteratesRightly, Kind
  <2>2. CASE ~IsLoop(c)
    BY <2>2 DEF IteratesRightly, IsLoop, Kind
  <2> QED
    BY <2>1, <2>2
<1>5. Gives(c)' = Gives(c)
  <2>1. CASE Kind(c) = "op"
    <3>1. 1 \in 1..Len(Run(c))
      BY <2>1, OneCallOfAnOp
    <3> QED
      BY <2>1, <3>1 DEF Gives, Kind, Run, Settled
  <2>2. CASE Kind(c) = "serialLoop"
    <3>1. UsedUp(c, at[c])' <=> UsedUp(c, at[c])
      <4>1. at[c] = 0 \/ at[c] \in 1..Len(Run(c))
        BY <1>1
      <4> QED
        BY <4>1 DEF UsedUp, Settled, Run
    <3> QED
      BY <1>3, <2>2, <3>1 DEF Gives, Kind, Left, LeftByLoop
  <2>3. CASE Kind(c) \notin {"op", "serialLoop"}
    BY <1>2, <2>3 DEF Gives, Kind, Run, Left, LeftByLoop
  <2> QED
    BY <2>1, <2>2, <2>3
<1> QED
  BY <1>4, <1>5

\* and has given.
LEMMA GaveSame ==
    ASSUME SharingInv, ControlInv, NEW c \in Calls, pc[c] = "ended", seen'[c] = seen[c],
           at'[c] = at[c], Settled(c, Len(Run(c))), given'[c] = given[c],
           outs'[c] = outs[c], scope'[c] = scope[c], GaveRight(c)
    PROVE  GaveRight(c)'
  BY GivesSame DEF GaveRight

-----------------------------------------------------------------------------
(* The calls that a step is not of *)

Now == SharingInv /\ ControlInv /\ ~Exposed /\ ~Altered /\ MeaningInv

\* What the invariant says of a call.
LEMMA NowFacts ==
    ASSUME Now, NEW c \in Calls
    PROVE  /\ SharingInv /\ ControlInv /\ ~Exposed /\ Shaped
           /\ Fresh(c) /\ GoesRight(c) /\ GaveRight(c)
           /\ \A i \in 1..Len(Run(c)) : SeesRight(c, i)
           /\ Placed(c) /\ Counted(c) /\ \A i \in 1..Len(Run(c)) : Made(c, i)
           /\ at[c] \in Nat /\ at[c] <= Len(Run(c)) /\ Len(Run(c)) \in Nat
           /\ pc[c] \in States /\ scope[c] \in Maps /\ outs[c] \in Maps
<1>1. SharingInv /\ ControlInv /\ ~Exposed /\ ~Altered /\ MeaningInv
  BY DEF Now
<1>2. /\ Placed(c) /\ Counted(c) /\ \A i \in 1..Len(Run(c)) : Made(c, i)
      /\ at[c] \in Nat /\ at[c] <= Len(Run(c)) /\ Len(Run(c)) \in Nat
  BY <1>1, ControlFacts
<1>3. pc[c] \in States /\ scope[c] \in Maps /\ outs[c] \in Maps
  BY <1>1, StateFacts
<1> QED
  BY <1>1, <1>2, <1>3 DEF MeaningInv

\* The calls before one that was made are over, if c makes one after the other.
LEMMA EarlierOver ==
    ASSUME SharingInv, ControlInv, NEW c \in Calls, Kind(c) \in {"serial", "serialLoop"},
           NEW i \in 1..Len(Run(c)), pc[Run(c)[i]] # "idle", NEW j \in 1..(i - 1)
    PROVE  ~Live(Run(c)[j])
<1>1. /\ i \in Nat /\ j \in Nat /\ j < i /\ j \in 1..Len(Run(c)) /\ at[c] \in Nat
      /\ Made(c, i) /\ Made(c, j) /\ Counted(c) /\ pc[c] \in States
  BY ControlFacts, StateFacts
<1>2. CASE pc[c] = "waiting" /\ Kind(c) = "serial"
  <2>1. j <= at[c]
    BY <1>1, <1>2 DEF Made
  <2> QED
    BY <1>1, <1>2, <2>1 DEF Made, Live
<1>3. CASE Begun(c) /\ Kind(c) = "serialLoop"
  <2>1. i <= at[c] /\ pc[Run(c)[j]] # "idle"
    BY <1>1, <1>3 DEF Made, IsLoop
  <2> QED
    BY <1>1, <1>3, <2>1 DEF Made, Live
<1>4. CASE pc[c] = "ended"
  BY <1>1, <1>4, QuietIfNotLive, CallFacts DEF Quiet, Live
<1>5. pc[c] # "idle" /\ pc[c] # "called" /\ (pc[c] = "begun" => IsLoop(c))
  BY <1>1 DEF Made
<1> QED
  BY <1>1, <1>2, <1>3, <1>4, <1>5 DEF Begun, States, IsLoop

\* What x is not, it leaves settled.
LEMMA SettledIfOver ==
    ASSUME NEW x \in Calls, Live(x), Frame(x), NEW c \in Calls, NEW n \in Nat, n <= Len(Run(c)),
           \A j \in 1..n : ~Live(Run(c)[j])
    PROVE  Settled(c, n)
<1>1. ASSUME NEW j \in 1..n PROVE Run(c)[j] \in Calls \ {x}
  <2>1. j \in 1..Len(Run(c))
    BY CallFacts
  <2> QED
    BY <2>1, CallFacts
<1> QED
  BY <1>1 DEF Frame, Settled

\* Those that were over, of a call that goes on.
LEMMA SettledFacts ==
    ASSUME SharingInv, ControlInv, NEW x \in Calls, Live(x), Frame(x), NEW y \in Calls
    PROVE  /\ (pc[y] = "waiting" /\ Kind(y) = "serial") => Settled(y, at[y])
           /\ (pc[y] = "begun" /\ Kind(y) = "serialLoop") => Settled(y, at[y])
           /\ (pc[y] = "waiting" /\ Kind(y) = "serialLoop") => Settled(y, at[y] - 1)
           /\ ~Live(y) => Settled(y, Len(Run(y)))
<1>1. /\ at[y] \in Nat /\ at[y] <= Len(Run(y)) /\ Len(Run(y)) \in Nat
      /\ \A j \in 1..Len(Run(y)) : Made(y, j) /\ j \in Nat
      /\ Counted(y)
  BY ControlFacts
<1>2. ASSUME pc[y] = "waiting", Kind(y) = "serial" PROVE Settled(y, at[y])
  <2>1. \A j \in 1..at[y] : ~Live(Run(y)[j])
    BY <1>1, <1>2 DEF Made, Live
  <2> QED
    BY <1>1, <2>1, SettledIfOver
<1>3. ASSUME pc[y] = "begun", Kind(y) = "serialLoop" PROVE Settled(y, at[y])
  <2>1. \A j \in 1..at[y] : ~Live(Run(y)[j])
    BY <1>1, <1>3 DEF Made, Live, Begun, IsLoop
  <2> QED
    BY <1>1, <2>1, SettledIfOver
<1>4. ASSUME pc[y] = "waiting", Kind(y) = "serialLoop" PROVE Settled(y, at[y] - 1)
  <2>1. \A j \in 1..(at[y] - 1) : ~Live(Run(y)[j])
    BY <1>1, <1>4 DEF Made, Live, Begun, IsLoop
  <2>2. at[y] - 1 \in Nat /\ at[y] - 1 <= Len(Run(y))
    BY <1>1, <1>4 DEF Counted, IsLoop
  <2> QED
    BY <2>1, <2>2, SettledIfOver
<1>5. ASSUME ~Live(y) PROVE Settled(y, Len(Run(y)))
  <2>1. \A j \in 1..Len(Run(y)) : ~Live(Run(y)[j])
    BY <1>5, QuietIfNotLive, CallFacts DEF Quiet
  <2> QED
    BY <1>1, <2>1, SettledIfOver
<1> QED
  BY <1>2, <1>3, <1>4, <1>5

\* No call of another one is made by a step of x, nor in the state of x.
LEMMA ChildOfAnother ==
    ASSUME SharingInv, ControlInv, NEW x \in Calls, Live(x), Moved(x), NEW y \in Calls, y # x,
           NEW i \in 1..Len(Run(y))
    PROVE  /\ Run(y)[i] # x => Unmoved(Run(y)[i])
           /\ pc'[Run(y)[i]] = "idle" <=> pc[Run(y)[i]] = "idle"
           /\ pc[Run(y)[i]] # "idle" => Unmoved(y)
<1>1. Run(y)[i] \in Calls /\ Run(y)[i] \notin Children(x)
  BY CallFacts, OneParent
<1>2. pc[Run(y)[i]] # "idle" => pc[y] # "idle"
  BY ControlFacts, CallFacts DEF Placed
<1> QED
  BY <1>1, <1>2 DEF Moved, Unmoved, CalledBy, Live

\* What a step of x does not disturb of another call y: its own map, before it is used;
LEMMA OthersFresh ==
    ASSUME Now, NEW x \in Calls, Live(x), Moved(x), Frame(x), NEW y \in Calls, y # x
    PROVE  Fresh(y)'
<1>1. SUFFICES ASSUME pc'[y] \in {"idle", "called", "begun"}, at'[y] = 0 PROVE own'[y] = Empty
  BY DEF Fresh, Empty
<1>2. pc[y] \in {"idle", "called", "begun"} /\ at[y] = 0
  BY <1>1 DEF Moved, Unmoved, CalledBy
<1>3. own[y] = Empty
  BY <1>2, NowFacts DEF Fresh
<1>4. Quiet(y)
  <2>1. \A i \in 1..Len(Run(y)) : pc[Run(y)[i]] = "idle"
    BY <1>2, NowFacts DEF Made, Begun
  <2> QED
    BY <2>1, CallFacts DEF Quiet, Live
<1>5. ~Rewrites(x, <<"own", y>>)
  BY <1>4, NowFacts, SparesOwns
<1> QED
  BY <1>3, <1>5 DEF Frame

\* what it has output;
LEMMA OthersGave ==
    ASSUME Now, NEW x \in Calls, Live(x), Moved(x), Frame(x), NEW y \in Calls, y # x
    PROVE  GaveRight(y)'
<1>1. SUFFICES ASSUME pc'[y] = "ended" PROVE GaveRight(y)'
  BY DEF GaveRight
<1>2. pc[y] = "ended" /\ Unmoved(y) /\ ~Live(y)
  BY <1>1 DEF Moved, Unmoved, CalledBy, Live
<1>3. Settled(y, Len(Run(y)))
  BY <1>2, NowFacts, SettledFacts
<1> QED
  BY <1>1, <1>2, <1>3, NowFacts, GaveSame DEF Unmoved, Frame

\* the maps by which it goes on;
LEMMA OthersGo ==
    ASSUME Now, NEW x \in Calls, Live(x), Moved(x), Frame(x), NEW y \in Calls, y # x
    PROVE  GoesRight(y)'
<1>1. SUFFICES ASSUME Begun(y)' PROVE GoesRight(y)'
  BY DEF GoesRight, Begun
<1>2. Unmoved(y)
  BY <1>1 DEF Moved, CalledBy, Begun
<1>3. /\ pc'[y] = pc[y] /\ at'[y] = at[y] /\ scope'[y] = scope[y] /\ seen'[y] = seen[y]
      /\ len'[y] = len[y] /\ Begun(y) /\ Live(y)
  BY <1>1, <1>2 DEF Unmoved, Frame, Begun, Live
<1>0. /\ SharingInv /\ ControlInv /\ ~Exposed /\ GoesRight(y) /\ Counted(y)
      /\ \A i \in 1..Len(Run(y)) : Made(y, i)
      /\ at[y] \in Nat /\ at[y] <= Len(Run(y)) /\ Len(Run(y)) \in Nat /\ scope[y] \in Maps
  BY NowFacts
<1>4. Interpretation(y, seen'[y]) # Skip
  BY <1>0, <1>3 DEF GoesRight
<1>5. ASSUME Clean(y)' PROVE Deref(scope[y])' = seen'[y]
  <2>1. Clean(y)
    BY <1>3, <1>5 DEF Clean, Kind
  <2>2. ~Rewrites(x, scope[y])
    BY <1>0, <1>3, <2>1, SparesScopes DEF Clean
  <2>3. Deref(scope[y])' = Deref(scope[y])
    <3>1. \A p \in Maps : ~Rewrites(x, p) => Same(p)
      BY FrameOfMaps
    <3> QED
      BY <1>0, <1>3, <2>2, <3>1 DEF Same, Deref
  <2> QED
    BY <1>0, <1>3, <2>1, <2>3 DEF GoesRight
<1>6. ASSUME pc'[y] = "begun", Kind(y) = "op"
      PROVE  in'[Run(y)[1]] = OpScope(y, Interpretation(y, seen'[y]))
  <2>1. 1 \in 1..Len(Run(y)) /\ Run(y)[1] \in Children(y) /\ Run(y)[1] \in Calls
    BY <1>6, OneCallOfAnOp, CallFacts
  <2>2. ~Live(Run(y)[1])
    BY <1>0, <1>3, <1>6, <2>1 DEF Made, IsLoop, Live
  <2>3. in'[Run(y)[1]] = in[Run(y)[1]]
    BY <1>0, <2>1, <2>2, SparesIns DEF Frame
  <2> QED
    BY <1>0, <1>3, <1>6, <2>3 DEF GoesRight
<1>7. ASSUME pc'[y] = "waiting", Kind(y) = "serial",
             at'[y] < Len(Run(y)) => pc'[Run(y)[at'[y] + 1]] = "idle"
      PROVE  own'[y] = MergeAll(seen'[y], at'[y], GivenBy(y, at[y])')
  <2>1. at[y] < Len(Run(y)) => pc[Run(y)[at[y] + 1]] = "idle"
    <3>1. SUFFICES ASSUME at[y] < Len(Run(y)) PROVE pc[Run(y)[at[y] + 1]] = "idle"
      OBVIOUS
    <3>2. at[y] + 1 \in 1..Len(Run(y))
      BY <1>0, <3>1
    <3> QED
      BY <1>0, <1>3, <1>7, <3>1, <3>2, ChildOfAnother
  <2>2. own[y] = MergeAll(seen[y], at[y], GivenBy(y, at[y]))
    BY <1>0, <1>3, <1>7, <2>1 DEF GoesRight
  <2>3. ASSUME NEW i \in 1..Len(Run(y)) PROVE ~Live(Run(y)[i])
    <3>1. Made(y, i) /\ i \in Nat
      BY <1>0
    <3>2. CASE i <= at[y] \/ i > at[y] + 1
      BY <1>3, <1>7, <3>1, <3>2 DEF Made, Live
    <3>3. CASE i = at[y] + 1
      BY <1>0, <2>1, <3>3 DEF Live
    <3> QED
      BY <1>0, <3>1, <3>2, <3>3
  <2>4. own'[y] = own[y]
    <3>1. Quiet(y)
      BY <2>3, CallFacts DEF Quiet
    <3> QED
      BY <1>0, <3>1, SparesOwns DEF Frame
  <2>5. GivenBy(y, at[y])' = GivenBy(y, at[y])
    BY <1>0, <1>3, <1>7, SettledFacts, GivenSame
  <2> QED
    BY <1>3, <2>2, <2>4, <2>5
<1>8. ASSUME pc'[y] = "begun", Kind(y) = "serialLoop"
      PROVE  /\ Deref(Last(y))' = Before(y, at[y])' /\ Grows(y, Before(y, at[y]))'
  <2>0. Settled(y, at[y])
    BY <1>0, <1>3, <1>8, SettledFacts
  <2>1. at[y] \in 0..at[y] /\ Settled(y, at[y])
    BY <1>0, <2>0
  <2>2. Before(y, at[y])' = Before(y, at[y])
    BY <1>0, <1>3, <2>1, BeforeSame DEF Before
  <2>3. Last(y) \in Maps /\ ~Rewrites(x, Last(y))
    <3>1. CASE Last(y) = scope[y]
      BY <1>0, <1>3, <1>8, <3>1, SparesScopes
    <3>2. CASE at[y] > 0 /\ Last(y) = <<"in", Run(y)[at[y]]>>
      <4>1. at[y] \in 1..Len(Run(y)) /\ Run(y)[at[y]] \in Children(y) /\ Run(y)[at[y]] \in Calls
        BY <1>0, <3>2, CallFacts
      <4>2. ~Live(Run(y)[at[y]])
        BY <1>0, <1>3, <1>8, <4>1 DEF Made, Live
      <4> QED
        BY <1>0, <3>2, <4>1, <4>2, SparesIns DEF Maps
    <3> QED
      BY <1>0, <3>1, <3>2 DEF Last, GivenTo
  <2>4. Deref(Last(y))' = Deref(Last(y))
    <3>1. Last(y)' = Last(y)
      BY <1>3 DEF Last, GivenTo, Run
    <3>2. Same(Last(y))
      BY <2>3, FrameOfMaps
    <3> QED
      BY <3>1, <3>2 DEF Same, Deref
  <2>5. Deref(Last(y)) = Before(y, at[y]) /\ Grows(y, Before(y, at[y]))
    BY <1>0, <1>3, <1>8 DEF GoesRight
  <2> QED
    BY <1>3, <2>2, <2>4, <2>5 DEF Grows
<1>9. ASSUME pc'[y] = "waiting", Kind(y) = "serialLoop"
      PROVE  Grows(y, Before(y, at[y] - 1))'
  <2>0. Settled(y, at[y] - 1)
    BY <1>0, <1>3, <1>9, SettledFacts
  <2>1. at[y] - 1 \in Nat /\ at[y] - 1 \in 0..(at[y] - 1) /\ Settled(y, at[y] - 1)
    BY <1>0, <1>3, <1>9, <2>0 DEF Counted, IsLoop
  <2>2. Before(y, at[y] - 1)' = Before(y, at[y] - 1)
    BY <1>0, <1>3, <2>1, BeforeSame DEF Before
  <2> QED
    BY <1>0, <1>3, <1>9, <2>2 DEF GoesRight, Grows
<1>10. ASSUME Kind(y) = "serialLoop", at'[y] > 0
       PROVE  len'[y] = Loop(y, During(y, at[y] - 1)')[2].length
  <2>1. at[y] - 1 \in Nat /\ at[y] - 1 \in 0..at[y] /\ at[y] - 1 \in 0..(at[y] - 1)
    BY <1>0, <1>3, <1>10
  <2>2. Settled(y, at[y]) \/ Settled(y, at[y] - 1)
    BY <1>0, <1>3, <1>10, SettledFacts DEF Begun
  <2>3. During(y, at[y] - 1)' = During(y, at[y] - 1)
    BY <1>0, <1>3, <2>1, <2>2, BeforeSame
  <2> QED
    BY <1>0, <1>3, <1>10, <2>3 DEF GoesRight
<1>11. ASSUME IsLoop(y), NEW i \in 0..(at'[y] - 1) PROVE ~IsOver(y, i)'
  <2>1. ~IsOver(y, i)
    BY <1>0, <1>3, <1>11 DEF GoesRight
  <2>2. at[y] - 1 \in Nat /\ i \in 0..(at[y] - 1) /\ i \in 0..at[y]
    BY <1>0, <1>3, <1>11
  <2>3. Kind(y) = "serialLoop" => Settled(y, at[y]) \/ Settled(y, at[y] - 1)
    BY <1>0, <1>3, SettledFacts DEF Begun
  <2> QED
    BY <1>0, <1>3, <1>11, <2>1, <2>2, <2>3, OverSame
<1>12. ASSUME pc'[y] = "waiting", Kind(y) = "parallelLoop" PROVE IsOver(y, at[y])'
  <2>1. IsOver(y, at[y]) /\ at[y] \in 0..at[y] /\ IsLoop(y)
    BY <1>0, <1>3, <1>12 DEF GoesRight, IsLoop
  <2>2. IsOver(y, at[y])' <=> IsOver(y, at[y])
    BY <1>0, <1>3, <1>12, <2>1 DEF IsOver, IsBeyond, Iteration, IterationScope, Kind
  <2> QED
    BY <2>1, <2>2
<1>13. /\ Deref(scope[y])' = (IF scope[y][1] = "in" THEN in'[scope[y][2]] ELSE own'[scope[y][2]])
  BY <1>3 DEF Deref
<1> QED
  BY <1>3, <1>4, <1>5, <1>6, <1>7, <1>8, <1>9, <1>10, <1>11, <1>12
     DEF GoesRight, Begun, Kind, Run, IsLoop

-----------------------------------------------------------------------------

\* What its parent asks of a step of x.
Heard(x) ==
    /\ pc'[x] = "called" => pc[x] = "called" /\ Deref(scope[x])' = Deref(scope[x])
    /\ (pc[x] = "called" /\ pc'[x] # "called") => seen'[x] = Deref(scope[x])
    /\ pc'[x] = "ended" => Kept(x)'

\* What was still to be taken is as it was.
LEMMA KeptSame ==
    ASSUME Now, NEW x \in Calls, Live(x), Frame(x), NEW y \in Calls, NEW i \in 1..Len(Run(y)),
           Due(y, i), ~Rewrites(x, MapGiven(y, i)), ~Rewrites(x, <<"own", Run(y)[i]>>),
           Unmoved(Run(y)[i])
    PROVE  Kept(Run(y)[i])'
<1> DEFINE d == Run(y)[i]
<1>1. /\ d \in Calls /\ pc[d] = "ended" /\ d # x
      /\ scope[d] = MapGiven(y, i) /\ Kept(d) /\ outs[d] \in {<<"own", d>>, scope[d]}
      /\ scope[d] \in Maps /\ outs[d] \in Maps
  BY CallFacts, NowFacts DEF Due, SeesRight, GaveRight, Live
<1>2. /\ given'[d] = given[d] /\ seen'[d] = seen[d] /\ outs'[d] = outs[d] /\ scope'[d] = scope[d]
  BY <1>1 DEF Frame, Unmoved
<1>3. Same(scope[d]) /\ Same(outs[d])
  BY <1>1, FrameOfMaps
<1>4. Deref(scope[d])' = Deref(scope[d]) /\ Deref(outs[d])' = Deref(outs[d])
  BY <1>2, <1>3 DEF Same, Deref
<1> HIDE DEF d
<1>5. Kept(d)'
  BY <1>1, <1>2, <1>4 DEF Kept
<1> QED
  BY <1>5 DEF d, Run, Kept

\* and what it says of its calls, of which x may be one.
LEMMA OthersSee ==
    ASSUME Now, NEW x \in Calls, Live(x), Moved(x), Frame(x), Heard(x),
           NEW y \in Calls, y # x, NEW i \in 1..Len(Run(y))
    PROVE  SeesRight(y, i)'
<1> DEFINE d == Run(y)[i]
<1>0. /\ SharingInv /\ ControlInv /\ ~Exposed /\ SeesRight(y, i) /\ Made(y, i)
      /\ d \in Calls /\ d \in Children(y) /\ pc[d] \in States /\ pc'[d] \in States
      /\ Placed(y) /\ i - 1 \in Nat /\ i - 1 <= Len(Run(y))
  BY NowFacts, CallFacts DEF Moved
<1>1. pc'[d] = "idle" <=> pc[d] = "idle"
  BY <1>0, ChildOfAnother
<1>2. CASE pc[d] = "idle"
  BY <1>1, <1>2 DEF SeesRight, Due, Run
<1>3. CASE pc[d] # "idle"
  <2>1. Unmoved(y) /\ seen'[y] = seen[y]
    BY <1>0, <1>3, ChildOfAnother DEF Frame
  <2>2. Kind(y) \in {"serial", "serialLoop"} => Settled(y, i - 1)
    BY <1>0, <1>3, EarlierOver, SettledIfOver
  <2>3. Sees(y, i)' = Sees(y, i) /\ MapGiven(y, i)' = MapGiven(y, i)
    BY <2>1, <2>2, SeesSame DEF Unmoved
  <2>4. scope[d] = MapGiven(y, i)
    BY <1>0, <1>3 DEF SeesRight
  <2>5. CASE d = x
    <3>1. scope'[d] = scope[d]
      BY <2>5 DEF Moved
    <3>2. ASSUME pc'[d] = "called" PROVE Deref(scope[d])' = Sees(y, i)
      BY <1>0, <2>5, <3>2 DEF Heard, SeesRight
    <3>3. ASSUME pc'[d] \in {"begun", "waiting", "ended"} PROVE seen'[d] = Sees(y, i)
      <4>1. CASE pc[d] = "called"
        BY <1>0, <2>5, <3>3, <4>1 DEF Heard, SeesRight
      <4>2. CASE pc[d] # "called"
        BY <1>0, <2>5, <4>2 DEF Frame, Live, SeesRight
      <4> QED
        BY <4>1, <4>2
    <3>4. pc'[d] = "ended" => Kept(d)'
      BY <2>5 DEF Heard
    <3> QED
      BY <1>1, <1>3, <2>3, <2>4, <3>1, <3>2, <3>3, <3>4 DEF SeesRight, Due, Run
  <2>6. CASE d # x
    <3>1. Unmoved(d) /\ seen'[d] = seen[d]
      BY <1>0, <2>6, ChildOfAnother DEF Frame
    <3>2. ASSUME pc[d] = "called" PROVE Deref(scope[d])' = Sees(y, i)
      <4>1. scope[d] \in Maps /\ Live(d)
        BY <1>0, <3>2, NowFacts DEF Live
      <4>2. ~Rewrites(x, scope[d])
        BY <1>0, <2>6, <3>2, <4>1, SparesScopes
      <4>3. Same(scope[d])
        BY <4>1, <4>2, FrameOfMaps
      <4>4. Deref(scope[d])' = Deref(scope[d])
        BY <3>1, <4>3 DEF Same, Deref, Unmoved
      <4> QED
        BY <1>0, <3>2, <4>4 DEF SeesRight
    <3>3. ASSUME Due(y, i)' PROVE Kept(d)'
      <4>1. Due(y, i)
        BY <2>1, <3>1, <3>3 DEF Due, Unmoved, Live, Kind, Run
      <4>2. ~Rewrites(x, MapGiven(y, i)) /\ ~Rewrites(x, <<"own", d>>)
        BY <1>0, <4>1, SparesDue
      <4> QED
        BY <3>1, <4>1, <4>2, KeptSame
    <3>4. pc'[d] = pc[d] /\ scope'[d] = scope[d]
      BY <3>1 DEF Unmoved
    <3>5. pc[d] \in {"begun", "waiting", "ended"} => seen[d] = Sees(y, i)
      BY <1>0 DEF SeesRight
    <3>6. Run(y)' = Run(y)
      BY DEF Run
    <3> QED
      BY <2>3, <2>4, <3>1, <3>2, <3>3, <3>4, <3>5, <3>6 DEF SeesRight
  <2> QED
    BY <2>5, <2>6
<1> QED
  BY <1>2, <1>3

-----------------------------------------------------------------------------
(* The call that a step is of *)

OwnRight(x) ==
    /\ Heard(x) /\ Fresh(x)' /\ GoesRight(x)' /\ GaveRight(x)'
    /\ \A i \in 1..Len(Run(x)) : SeesRight(x, i)'

\* What has been called by x is settled in a step of x.
LEMMA OwnSettled ==
    ASSUME NEW x \in Calls, Frame(x), NEW n \in Nat, n <= Len(Run(x)) PROVE Settled(x, n)
  BY CallFacts DEF Frame, Settled

\* Of its calls there are only those to look at that it makes, or whose outputs are
\* still due.
LEMMA OwnSees ==
    ASSUME Now, NEW x \in Calls, pc[x] # "called", Frame(x), Moved(x), NEW i \in 1..Len(Run(x)),
           pc'[Run(x)[i]] = "called" =>
              /\ scope'[Run(x)[i]] = MapGiven(x, i) /\ Deref(scope[Run(x)[i]])' = Sees(x, i),
           Due(x, i)' => Kept(Run(x)[i])'
    PROVE  SeesRight(x, i)'
<1> DEFINE d == Run(x)[i]
<1>1. /\ d \in Calls \ {x} /\ d \in Children(x) /\ SeesRight(x, i) /\ Run(x)' = Run(x)
      /\ i - 1 \in Nat /\ i - 1 <= Len(Run(x))
  BY CallFacts, NowFacts DEF Run
<1>2. Sees(x, i)' = Sees(x, i) /\ MapGiven(x, i)' = MapGiven(x, i)
  <2>1. Settled(x, i - 1) /\ seen'[x] = seen[x] /\ scope'[x] = scope[x]
    BY <1>1, OwnSettled DEF Frame, Moved
  <2> QED
    BY <2>1, SeesSame
<1>3. CASE Unmoved(d)
  <2>1. pc'[d] = pc[d] /\ scope'[d] = scope[d] /\ seen'[d] = seen[d]
    BY <1>1, <1>3 DEF Unmoved, Frame
  <2> QED
    BY <1>1, <1>2, <2>1 DEF SeesRight
<1>4. CASE CalledBy(x, d)
  <2>1. pc'[d] = "called"
    BY <1>4 DEF CalledBy
  <2> QED
    BY <1>1, <1>2, <2>1 DEF SeesRight
<1> QED
  BY <1>1, <1>3, <1>4 DEF Moved

\* The map that x was given is none that it made.
LEMMA ScopeKept ==
    ASSUME Now, NEW x \in Calls, Live(x), in' = in, \A y \in Calls \ {x} : own'[y] = own[y],
           scope'[x] = scope[x]
    PROVE  Deref(scope[x])' = Deref(scope[x]) /\ scope[x] # <<"own", x>>
<1>1. scope[x] \in Maps /\ (scope[x][1] = "own" => x # scope[x][2])
  BY NowFacts DEF SharingInv, HandedDown
<1>2. scope[x][2] \in Calls
  BY <1>1 DEF Maps
<1>3. scope[x] # <<"own", x>>
  BY <1>1
<1>4. CASE scope[x][1] = "in"
  BY <1>3, <1>4 DEF Deref
<1>5. CASE scope[x][1] # "in"
  <2>1. scope[x][1] = "own"
    BY <1>1, <1>5 DEF Maps
  <2>2. own'[scope[x][2]] = own[scope[x][2]]
    BY <1>1, <1>2, <2>1
  <2> QED
    BY <1>3, <1>5, <2>2 DEF Deref
<1> QED
  BY <1>4, <1>5

\* A call ends rightly that puts what it gives in the map that it outputs,
LEMMA EndsRight ==
    ASSUME Now, NEW x \in Calls, Live(x), pc[x] # "called", Quiet(x), Frame(x), Moved(x),
           NEW s \in {<<"own", x>>, scope[x]}, NEW m, Finish(x, s, m),
           UNCHANGED <<scope, at, seen>>, Deref(s)' = m,
           \A k \in Keys : m[k] = Unset => Deref(scope[x])'[k] = seen[x][k],
           Interpretation(x, seen[x]) # Skip, m = Gives(x), IteratesRightly(x)
    PROVE  OwnRight(x)
<1>1. /\ pc'[x] = "ended" /\ outs'[x] = s /\ given'[x] = m /\ scope'[x] = scope[x]
      /\ seen'[x] = seen[x] /\ at'[x] = at[x]
  BY NowFacts, StateFacts DEF Finish, Go, Shaped
<1>2. Kept(x)'
  <2>1. Deref(outs[x])' = m
    BY <1>1 DEF Deref
  <2> QED
    BY <1>1, <2>1 DEF Kept
<1>3. Heard(x)
  BY <1>1, <1>2 DEF Heard
<1>4. Fresh(x)' /\ GoesRight(x)'
  BY <1>1 DEF Fresh, GoesRight, Begun
<1>5. GaveRight(x)'
  <2>1. Settled(x, Len(Run(x)))
    BY OwnSettled, NowFacts
  <2>2. Gives(x)' = Gives(x) /\ (IteratesRightly(x)' <=> IteratesRightly(x))
    BY <1>1, <2>1, NowFacts, GivesSame
  <2> QED
    BY <1>1, <2>2 DEF GaveRight
<1>6. ASSUME NEW i \in 1..Len(Run(x)) PROVE SeesRight(x, i)'
  <2>1. pc'[Run(x)[i]] = pc[Run(x)[i]] /\ ~Live(Run(x)[i])
    BY SameCalls, NowFacts, CallFacts DEF Finish, Quiet
  <2>2. ~Due(x, i)' /\ pc'[Run(x)[i]] # "called"
    BY <1>1, <2>1 DEF Due, Live
  <2> QED
    BY <2>2, OwnSees
<1> QED
  BY <1>3, <1>4, <1>5, <1>6 DEF OwnRight

\* as it does in one of its own.
LEMMA EndsWithOwn ==
    ASSUME Now, NEW x \in Calls, Live(x), pc[x] # "called", Quiet(x), Frame(x), Moved(x),
           NEW m, EndWith(x, m), UNCHANGED <<scope, at, seen, in>>,
           \A k \in Keys : m[k] = Unset => Deref(scope[x])[k] = seen[x][k],
           Interpretation(x, seen[x]) # Skip, m = Gives(x), IteratesRightly(x)
    PROVE  OwnRight(x)
<1>1. own' = [own EXCEPT ![x] = m] /\ Finish(x, <<"own", x>>, m)
  BY DEF EndWith
<1>2. own'[x] = m /\ \A y \in Calls \ {x} : own'[y] = own[y]
  BY <1>1, NowFacts DEF Shaped
<1>3. Deref(<<"own", x>>)' = m
  BY <1>2 DEF Deref
<1>4. Deref(scope[x])' = Deref(scope[x])
  BY <1>2, ScopeKept
<1> QED
  BY <1>1, <1>3, <1>4, EndsRight

-----------------------------------------------------------------------------

\* The steps of x, one by one.  It is interpreted against what it means to see;
LEMMA InterpretsRightly ==
    ASSUME Now, NEW x \in Calls, Interpret(x), Frame(x), Moved(x) PROVE OwnRight(x)
<1> DEFINE m == Deref(scope[x])
           result == Interpretation(x, Deref(scope[x]))
<1>0. /\ pc[x] = "called" /\ Live(x) /\ UNCHANGED <<scope, own, at, len>>
      /\ seen' = [seen EXCEPT ![x] = m] /\ InterpretedAs(x, result)
      /\ at[x] = 0 /\ own[x] = Empty /\ Shaped /\ Fresh(x)
  BY NowFacts DEF Interpret, Going, Live, Counted, Fresh
<1>1. seen'[x] = m /\ at'[x] = 0 /\ own'[x] = Empty /\ scope'[x] = scope[x]
  BY <1>0 DEF Shaped
<1>2. Fresh(x)'
  BY <1>1 DEF Fresh, Empty
<1>3. Quiet(x) /\ \A i \in 1..Len(Run(x)) : pc[Run(x)[i]] = "idle"
  BY <1>0, NowFacts, NoneYet DEF Made, Quiet
<1>4. CASE UNCHANGED <<pc, outs, given, in>>
  <2>1. Deref(scope[x])' = m
    BY <1>0, <1>4 DEF Deref
  <2>2. Heard(x) /\ GoesRight(x)' /\ GaveRight(x)'
    BY <1>0, <1>4, <2>1 DEF Heard, GoesRight, GaveRight, Begun
  <2>3. \A i \in 1..Len(Run(x)) : SeesRight(x, i)'
    BY <1>3, <1>4 DEF SeesRight, Due, Run
  <2> QED
    BY <1>2, <2>2, <2>3 DEF OwnRight
<1>5. CASE result = Skip /\ Finish(x, <<"own", x>>, Empty) /\ UNCHANGED in
  <2>1. pc'[x] = "ended" /\ outs'[x] = <<"own", x>> /\ given'[x] = Empty
    BY <1>5, NowFacts, StateFacts DEF Finish, Go, Shaped
  <2>2. Deref(scope[x])' = m
    BY <1>0, <1>5 DEF Deref
  <2>3. Kept(x)'
    BY <1>1, <2>1, <2>2 DEF Kept, Deref
  <2>4. Heard(x) /\ GoesRight(x)' /\ GaveRight(x)'
    BY <1>1, <1>5, <2>1, <2>3 DEF Heard, GoesRight, GaveRight, Begun, Empty
  <2>5. ASSUME NEW i \in 1..Len(Run(x)) PROVE pc'[Run(x)[i]] = "idle"
    BY <1>3, <1>5, SameCalls, NowFacts DEF Finish
  <2>6. \A i \in 1..Len(Run(x)) : SeesRight(x, i)'
    BY <2>5 DEF SeesRight, Due, Run
  <2> QED
    BY <1>2, <2>4, <2>6 DEF OwnRight
<1>6. CASE /\ result # Skip /\ Go(x, "begun") /\ UNCHANGED <<outs, given>>
           /\ in' = IF Kind(x) = "op" THEN [in EXCEPT ![Run(x)[1]] = OpScope(x, result)] ELSE in
  <2>1. pc'[x] = "begun"
    BY <1>6, NowFacts, StateFacts DEF Go
  <2>2. Deref(scope[x])' = m
    <3>1. CASE Kind(x) # "op"
      BY <1>0, <1>6, <3>1 DEF Deref
    <3>2. CASE Kind(x) = "op"
      <4>1. Run(x)[1] \in Children(x) /\ Run(x)[1] \in Calls
        BY <3>2, OneCallOfAnOp, CallFacts
      <4>2. scope[x] # <<"in", Run(x)[1]>>
        BY <1>0, <1>3, <4>1, NowFacts, FreshIn DEF Quiet
      <4>3. scope[x] \in Maps
        BY NowFacts
      <4>4. scope[x][1] = "in" => scope[x][2] # Run(x)[1]
        BY <4>2, <4>3 DEF Maps
      <4>5. scope[x][2] \in Calls
        BY <4>3 DEF Maps
      <4>6. scope[x][1] = "in" => in'[scope[x][2]] = in[scope[x][2]]
        BY <1>0, <1>6, <3>2, <4>4, <4>5 DEF Shaped
      <4> QED
        BY <1>0, <1>1, <4>6 DEF Deref
    <3> QED
      BY <3>1, <3>2
  <2>3. Heard(x) /\ GaveRight(x)'
    BY <1>1, <2>1 DEF Heard, GaveRight
  <2>4. GoesRight(x)'
    <3>1. (pc[x] = "begun" /\ Kind(x) = "op")'
             => in'[Run(x)[1]] = OpScope(x, Interpretation(x, seen'[x]))
      <4>1. ASSUME Kind(x) = "op" PROVE Run(x)[1] \in Calls
        BY <4>1, OneCallOfAnOp, CallFacts
      <4> QED
        BY <1>0, <1>1, <1>6, <4>1 DEF Shaped, Kind
    <3>2. /\ Deref(Last(x))' = m /\ Before(x, at[x])' = m /\ Grows(x, Before(x, at[x]))'
      <4>1. Last(x)' = scope[x]
        BY <1>0, <1>1 DEF Last
      <4>2. Deref(Last(x))' = m
        BY <1>1, <2>2, <4>1 DEF Deref
      <4>3. Before(x, at[x])' = m
        BY <1>1 DEF Before
      <4> QED
        BY <1>1, <4>2, <4>3 DEF Grows
    <3> QED
      BY <1>1, <1>6, <2>1, <2>2, <3>1, <3>2 DEF GoesRight, Begun, Kind, Run, IsLoop
  <2>5. ASSUME NEW i \in 1..Len(Run(x)) PROVE pc'[Run(x)[i]] = "idle"
    BY <1>3, <1>6, SameCalls, NowFacts
  <2>6. \A i \in 1..Len(Run(x)) : SeesRight(x, i)'
    BY <2>5 DEF SeesRight, Due, Run
  <2> QED
    BY <1>2, <2>3, <2>4, <2>6 DEF OwnRight
<1> QED
  BY <1>0, <1>4, <1>5, <1>6 DEF InterpretedAs

-----------------------------------------------------------------------------

\* The map that it was given is what it saw.
LEMMA CleanFacts ==
    ASSUME Now, NEW x \in Calls, Begun(x), Clean(x) PROVE Deref(scope[x]) = seen[x]
  BY NowFacts DEF GoesRight

\* A container runs in what it saw.
LEMMA RunsRightly ==
    ASSUME Now, NEW x \in Calls, RunContainer(x), Frame(x), Moved(x) PROVE OwnRight(x)
<1>1. /\ pc[x] = "begun" /\ Kind(x) = "container" /\ Live(x) /\ Begun(x) /\ ~Writes[x]
      /\ EndWith(x, Leaves(x, seen[x])) /\ UNCHANGED <<scope, at, seen, in>>
  BY TreeAssumption DEF RunContainer, Going, Live, Begun
<1>2. Quiet(x)
  BY <1>1, NowFacts, NoneYet DEF Quiet
<1>3. Deref(scope[x]) = seen[x]
  BY <1>1, CleanFacts DEF Clean
<1>4. Interpretation(x, seen[x]) # Skip
  BY <1>1, NowFacts DEF GoesRight
<1>5. Leaves(x, seen[x]) = Gives(x) /\ IteratesRightly(x)
  BY <1>1 DEF Gives, IteratesRightly
<1> QED
  BY <1>1, <1>2, <1>3, <1>4, <1>5, EndsWithOwn

\* An op's call sees its inputs,
LEMMA CallsOpRightly ==
    ASSUME Now, NEW x \in Calls, CallOp(x), Frame(x), Moved(x) PROVE OwnRight(x)
<1> DEFINE d == Run(x)[1]
<1>1. /\ pc[x] = "begun" /\ Kind(x) = "op" /\ Live(x) /\ Begun(x) /\ ~IsLoop(x) /\ ~Writes[x]
      /\ GoCalling(x, "waiting", Children(x), <<"in", d>>)
      /\ UNCHANGED <<outs, in, own, at, len, seen, given>>
  BY TreeAssumption DEF CallOp, Going, Live, Begun, IsLoop
<1>2. Len(Run(x)) = 1 /\ d \in Calls /\ d \in Children(x) /\ Children(x) = {d} /\ d # x
  BY <1>1, OneCallOfAnOp, CallFacts, ScopesAssumption DEF Run, Kind
<1>3. pc'[x] = "waiting" /\ pc'[d] = "called" /\ scope'[d] = <<"in", d>> /\ scope'[x] = scope[x]
  BY <1>1, <1>2 DEF GoCalling, Moved
<1>4. in[d] = OpScope(x, Interpretation(x, seen[x])) /\ Interpretation(x, seen[x]) # Skip
  BY <1>1, NowFacts DEF GoesRight
<1>5. Deref(scope[x]) = seen[x]
  BY <1>1, CleanFacts DEF Clean
<1>6. Heard(x) /\ Fresh(x)' /\ GaveRight(x)'
  BY <1>1, <1>3 DEF Heard, Fresh, GaveRight
<1>7. GoesRight(x)'
  BY <1>1, <1>3, <1>4, <1>5 DEF GoesRight, Begun, Kind, IsLoop, Deref
<1>8. ASSUME NEW i \in 1..Len(Run(x)) PROVE SeesRight(x, i)'
  <2>1. i = 1 /\ Run(x)[i] = d
    BY <1>2
  <2>2. scope'[d] = MapGiven(x, i)
    BY <1>1, <1>3, <2>1 DEF MapGiven, IsLoop
  <2>3. Deref(scope[d])' = Sees(x, i)
    BY <1>1, <1>3, <1>4 DEF Deref, Sees
  <2>4. ~Due(x, i)'
    BY <1>3, <2>1 DEF Due, Run
  <2> QED
    BY <1>1, <2>1, <2>2, <2>3, <2>4, OwnSees
<1> QED
  BY <1>6, <1>7, <1>8 DEF OwnRight

\* When nothing moves but the run's end.
LEMMA StopsRightly ==
    ASSUME Now, NEW x \in Calls, Live(x), pc[x] # "called",
           UNCHANGED <<pc, scope, outs, in, own, at, len, seen, given>>
    PROVE  OwnRight(x)
<1>1. Heard(x) /\ Fresh(x)'
  BY NowFacts DEF Heard, Fresh, Live, Empty
<1>2. GaveRight(x)'
  BY DEF GaveRight, Live
<1>3. \A n \in Nat : Settled(x, n)
  BY DEF Settled
<1>4. ASSUME NEW i \in 1..Len(Run(x)) PROVE SeesRight(x, i)'
  <2>1. Sees(x, i)' = Sees(x, i) /\ MapGiven(x, i)' = MapGiven(x, i)
    BY <1>3, SeesSame, NowFacts
  <2> QED
    BY <2>1, NowFacts DEF SeesRight, Due, Live, Kept, Deref, Kind, Run
<1>5. GoesRight(x)'
  <2>1. GoesRight(x)
    BY NowFacts
  <2>2. Deref(scope[x])' = Deref(scope[x]) /\ (Clean(x)' <=> Clean(x))
    BY DEF Deref, Clean, Kind
  <2>3. GivenBy(x, at[x])' = GivenBy(x, at[x])
    BY DEF GivenBy, Run
  <2>4. /\ Deref(Last(x))' = Deref(Last(x)) /\ Before(x, at[x])' = Before(x, at[x])
        /\ (Grows(x, Before(x, at[x]))' <=> Grows(x, Before(x, at[x])))
    BY DEF Deref, Last, GivenTo, Before, Run, Grows
  <2>5. /\ (Grows(x, Before(x, at[x] - 1))' <=> Grows(x, Before(x, at[x] - 1)))
        /\ During(x, at[x] - 1)' = During(x, at[x] - 1)
    BY DEF Before, Run, Grows, During, Iteration, IterationScope
  <2>6. \A i \in Nat : IsLoop(x) => (IsOver(x, i)' <=> IsOver(x, i))
    <3>1. ASSUME NEW i \in Nat, IsLoop(x) PROVE IsOver(x, i)' <=> IsOver(x, i)
      <4>1. i \in 0..i
        OBVIOUS
      <4> QED
        BY <1>3, <3>1, <4>1, OverSame
    <3> QED
      BY <3>1
  <2>7. at[x] \in Nat
    BY NowFacts
  <2>8. /\ Begun(x)' => Interpretation(x, seen'[x]) # Skip
        /\ (Begun(x) /\ Clean(x))' => Deref(scope[x])' = seen'[x]
        /\ (pc'[x] = "begun" /\ Kind(x) = "op")
              => in'[Run(x)[1]] = OpScope(x, Interpretation(x, seen'[x]))
    BY <2>1, <2>2 DEF GoesRight, Begun
  <2>9. (pc'[x] = "waiting" /\ Kind(x) = "serial"
         /\ (at'[x] < Len(Run(x)) => pc'[Run(x)[at'[x] + 1]] = "idle"))
           => own'[x] = MergeAll(seen'[x], at'[x], GivenBy(x, at[x])')
    BY <2>1, <2>3 DEF GoesRight
  <2>10. (pc'[x] = "begun" /\ Kind(x) = "serialLoop")
           => Deref(Last(x))' = Before(x, at[x])' /\ Grows(x, Before(x, at[x]))'
    BY <2>1, <2>4 DEF GoesRight
  <2>11. /\ (pc'[x] = "waiting" /\ Kind(x) = "serialLoop") => Grows(x, Before(x, at[x] - 1))'
         /\ (Begun(x)' /\ Kind(x) = "serialLoop" /\ at'[x] > 0)
               => len'[x] = Loop(x, During(x, at[x] - 1)')[2].length
    BY <2>1, <2>5 DEF GoesRight, Begun
  <2>12. /\ (Begun(x)' /\ IsLoop(x)) => \A i \in 0..(at'[x] - 1) : ~IsOver(x, i)'
         /\ (pc'[x] = "waiting" /\ Kind(x) = "parallelLoop") => IsOver(x, at[x])'
    <3>1. ASSUME Begun(x)', IsLoop(x), NEW i \in 0..(at'[x] - 1) PROVE ~IsOver(x, i)'
      <4>1. i \in Nat /\ i \in 0..(at[x] - 1) /\ Begun(x)
        BY <2>7, <3>1 DEF Begun
      <4>2. ~IsOver(x, i)
        BY <2>1, <3>1, <4>1 DEF GoesRight
      <4> QED
        BY <2>6, <3>1, <4>1, <4>2
    <3>2. ASSUME pc'[x] = "waiting", Kind(x) = "parallelLoop" PROVE IsOver(x, at[x])'
      <4>1. IsOver(x, at[x])
        BY <2>1, <3>2 DEF GoesRight
      <4> QED
        BY <3>2, <4>1 DEF IsOver, IsBeyond, Iteration, IterationScope, Kind
    <3> QED
      BY <3>1, <3>2
  <2> QED
    BY <2>8, <2>9, <2>10, <2>11, <2>12 DEF GoesRight, Begun, Kind, Run, IsLoop
<1> QED
  BY <1>1, <1>2, <1>4, <1>5 DEF OwnRight

\* What is read of a call's outputs is what it output, until it is taken.
LEMMA DueOutputs ==
    ASSUME Now, NEW x \in Calls, NEW i \in 1..Len(Run(x)), Due(x, i)
    PROVE  /\ Deref(outs[Run(x)[i]]) = given[Run(x)[i]]
           /\ FromStore(Run(x)[i]) = given[Run(x)[i]]
           /\ \A o \in Outputs(Run(x)[i]) : o = given[Run(x)[i]]
           /\ scope[Run(x)[i]] = MapGiven(x, i) /\ seen[Run(x)[i]] = Sees(x, i)
           /\ \A k \in Keys : given[Run(x)[i]][k] = Unset
                 => Deref(scope[Run(x)[i]])[k] = Sees(x, i)[k]
<1>1. SeesRight(x, i) /\ pc[Run(x)[i]] = "ended"
  BY NowFacts DEF Due
<1>2. Kept(Run(x)[i]) /\ scope[Run(x)[i]] = MapGiven(x, i) /\ seen[Run(x)[i]] = Sees(x, i)
  BY <1>1 DEF SeesRight
<1>3. FromStore(Run(x)[i]) = given[Run(x)[i]]
  BY <1>1, CallFacts DEF Now, Altered
<1> QED
  BY <1>2, <1>3 DEF Kept, Outputs

\* and the op gives what it gave.
LEMMA EndsOpRightly ==
    ASSUME Now, NEW x \in Calls, EndOp(x), Frame(x), Moved(x) PROVE OwnRight(x)
<1> DEFINE d == Run(x)[1]
           result == OpOutputs(x, Deref(outs[d]))
<1>1. /\ pc[x] = "waiting" /\ Kind(x) = "op" /\ Live(x) /\ Begun(x) /\ ~Writes[x]
      /\ \A e \in Children(x) : pc[e] = "ended"
      /\ EndOpWith(x, result) /\ UNCHANGED <<scope, in, at, len, seen>>
  BY TreeAssumption DEF EndOp, Going, Live, Begun
<1>2. 1 \in 1..Len(Run(x)) /\ d \in Children(x) /\ Quiet(x)
  BY <1>1, OneCallOfAnOp DEF Quiet, Live
<1>3. Due(x, 1)
  BY <1>1, <1>2 DEF Due
<1>4. Deref(outs[d]) = given[d]
  BY <1>2, <1>3, DueOutputs
<1>5. result[2] = Gives(x) /\ IteratesRightly(x)
  BY <1>1, <1>4 DEF Gives, IteratesRightly
<1>6. Deref(scope[x]) = seen[x] /\ Interpretation(x, seen[x]) # Skip
  BY <1>1, CleanFacts, NowFacts DEF Clean, GoesRight
<1>7. CASE UNCHANGED <<pc, outs, given, own>>
  BY <1>1, <1>7, StopsRightly
<1>8. CASE EndWith(x, result[2])
  BY <1>1, <1>2, <1>5, <1>6, <1>8, EndsWithOwn
<1> QED
  BY <1>1, <1>7, <1>8 DEF EndOpWith

-----------------------------------------------------------------------------
(* Serial and parallel calls *)

\* The copy is what was seen.
LEMMA BeginsSerialRightly ==
    ASSUME Now, NEW x \in Calls, BeginSerial(x), Frame(x), Moved(x) PROVE OwnRight(x)
<1>1. /\ pc[x] = "begun" /\ Kind(x) = "serial" /\ Live(x) /\ Begun(x) /\ ~IsLoop(x) /\ ~Writes[x]
      /\ own' = [own EXCEPT ![x] = CopyOf(Deref(scope[x]))] /\ Go(x, "waiting")
      /\ UNCHANGED <<scope, outs, in, at, len, seen, given>>
  BY TreeAssumption DEF BeginSerial, Going, Live, Begun, IsLoop
<1>2. /\ SharingInv /\ Shaped /\ Counted(x) /\ GoesRight(x)
      /\ \A i \in 1..Len(Run(x)) : Made(x, i)
  BY NowFacts
<1>3. at[x] = 0
  BY <1>1, <1>2 DEF Counted
<1>4. Deref(scope[x]) = seen[x] /\ Interpretation(x, seen[x]) # Skip
  BY <1>1, <1>2, CleanFacts DEF Clean, GoesRight
<1>5. own'[x] = CopyOf(seen[x]) /\ \A y \in Calls \ {x} : own'[y] = own[y]
  BY <1>1, <1>2, <1>4 DEF Shaped
<1>6. Deref(scope[x])' = seen[x]
  BY <1>1, <1>4, <1>5, ScopeKept
<1>7. pc'[x] = "waiting"
  BY <1>1, <1>2, MovedAlone DEF States
<1>8. Heard(x) /\ Fresh(x)' /\ GaveRight(x)'
  BY <1>1, <1>7 DEF Heard, Fresh, GaveRight
<1>9. GoesRight(x)'
  <2>1. own'[x] = MergeAll(seen'[x], at'[x], GivenBy(x, at[x])')
    BY <1>1, <1>3, <1>5, MergingNone
  <2> QED
    BY <1>1, <1>4, <1>6, <1>7, <2>1 DEF GoesRight, Begun, Kind, Run, IsLoop
<1>10. ASSUME NEW i \in 1..Len(Run(x)) PROVE SeesRight(x, i)'
  <2>1. pc'[Run(x)[i]] = "idle"
    BY <1>1, <1>2, SameCalls DEF Made
  <2> QED
    BY <2>1 DEF SeesRight, Due, Run
<1> QED
  BY <1>8, <1>9, <1>10 DEF OwnRight

\* The next call sees what those before it gave,
LEMMA CallsNextRightly ==
    ASSUME Now, NEW x \in Calls, CallNext(x), Frame(x), Moved(x) PROVE OwnRight(x)
<1>0. PICK n : n = at[x] + 1
  OBVIOUS
<1> DEFINE d == Run(x)[n]
<1>1. /\ pc[x] = "waiting" /\ Kind(x) = "serial" /\ Live(x) /\ Begun(x) /\ ~IsLoop(x) /\ ~Writes[x]
      /\ at[x] < Len(Run(x)) /\ pc[d] = "idle"
      /\ GoCalling(x, "waiting", {d}, <<"own", x>>)
      /\ UNCHANGED <<outs, in, own, at, len, seen, given>>
  BY <1>0, TreeAssumption DEF CallNext, Going, Live, Begun, IsLoop
<1>2. /\ SharingInv /\ GoesRight(x) /\ at[x] \in Nat /\ Len(Run(x)) \in Nat
      /\ \A i \in 1..Len(Run(x)) : Made(x, i)
  BY NowFacts
<1>3. n \in 1..Len(Run(x)) /\ d \in Calls /\ d \in Children(x) /\ d # x
  BY <1>0, <1>1, <1>2, CallFacts
<1>4. /\ pc'[x] = "waiting" /\ pc'[d] = "called" /\ scope'[d] = <<"own", x>> /\ scope'[x] = scope[x]
      /\ \A e \in Calls \ {x} : e # d => pc'[e] = pc[e]
  BY <1>1, <1>3 DEF GoCalling, Moved
<1>5. Deref(scope[x]) = seen[x] /\ Interpretation(x, seen[x]) # Skip
  BY <1>1, <1>2, CleanFacts DEF Clean, GoesRight
<1>6. own[x] = MergeAll(seen[x], at[x], GivenBy(x, at[x]))
  BY <1>0, <1>1, <1>2 DEF GoesRight
<1>7. Heard(x) /\ Fresh(x)' /\ GaveRight(x)'
  BY <1>1, <1>4 DEF Heard, Fresh, GaveRight
<1>8. GoesRight(x)'
  <2>1. Deref(scope[x])' = seen'[x]
    BY <1>1, <1>4, <1>5 DEF Deref
  <2>2. ~(at'[x] < Len(Run(x)) => pc'[Run(x)[at'[x] + 1]] = "idle")
    BY <1>0, <1>1, <1>4
  <2> QED
    BY <1>1, <1>4, <1>5, <2>1, <2>2 DEF GoesRight, Begun, Kind, Run, IsLoop
<1>9. ASSUME NEW i \in 1..Len(Run(x)) PROVE SeesRight(x, i)'
  <2>1. CASE i = n
    <3>1. scope'[d] = MapGiven(x, n)
      BY <1>1, <1>4 DEF MapGiven
    <3>2. Deref(scope[d])' = Sees(x, n)
      <4>1. Deref(scope[d])' = own[x]
        BY <1>1, <1>4 DEF Deref
      <4>2. n - 1 = at[x]
        BY <1>0, <1>2
      <4>3. Sees(x, n) = MergeAll(seen[x], n - 1, GivenBy(x, n - 1))
        BY <1>1 DEF Sees
      <4> QED
        BY <1>6, <4>1, <4>2, <4>3
    <3>3. ~Due(x, n)'
      BY <1>4 DEF Due, Run
    <3>4. SeesRight(x, n)'
      BY <1>1, <1>3, <3>1, <3>2, <3>3, OwnSees
    <3> QED
      BY <2>1, <3>4
  <2>2. CASE i # n
    <3>1. Run(x)[i] \in Calls \ {x} /\ Run(x)[i] # d
      BY <1>3, <2>2, CallFacts
    <3>2. pc'[Run(x)[i]] = pc[Run(x)[i]] /\ Made(x, i)
      BY <1>2, <1>4, <3>1
    <3>3. pc[Run(x)[i]] \in {"idle", "ended"} /\ (i > at[x] => pc[Run(x)[i]] = "idle")
      <4>1. i <= at[x] \/ i > at[x] + 1
        BY <1>0, <1>2, <2>2
      <4> QED
        BY <1>1, <1>2, <3>2, <4>1 DEF Made
    <3>4. pc'[Run(x)[i]] # "called" /\ ~Due(x, i)'
      BY <1>1, <3>2, <3>3 DEF Due, Run, Kind
    <3> QED
      BY <1>1, <3>4, OwnSees
  <2> QED
    BY <2>1, <2>2
<1> QED
  BY <1>7, <1>8, <1>9 DEF OwnRight

\* and what it gives is merged into that,
LEMMA TakesOutputsRightly ==
    ASSUME Now, NEW x \in Calls, TakeOutputs(x), Frame(x), Moved(x) PROVE OwnRight(x)
<1> DEFINE n == at[x] + 1
           d == Run(x)[n]
<1>1. /\ pc[x] = "waiting" /\ Kind(x) = "serial" /\ Live(x) /\ Begun(x) /\ ~IsLoop(x) /\ ~Writes[x]
      /\ at[x] < Len(Run(x)) /\ pc[d] = "ended"
      /\ \E o \in Outputs(d) : own' = [own EXCEPT ![x] = Merge(own[x], o)]
      /\ at' = [at EXCEPT ![x] = n]
      /\ UNCHANGED <<pc, scope, outs, in, len, seen, given>>
  BY TreeAssumption DEF TakeOutputs, Going, Live, Begun, IsLoop
<1>2. /\ SharingInv /\ Shaped /\ GoesRight(x) /\ at[x] \in Nat /\ Len(Run(x)) \in Nat
      /\ \A i \in 1..Len(Run(x)) : Made(x, i)
  BY NowFacts
<1>3. n \in 1..Len(Run(x)) /\ d \in Calls /\ d # x
  BY <1>1, <1>2, CallFacts
<1>4. Due(x, n)
  BY <1>1, <1>2 DEF Due
<1>5. /\ \A o \in Outputs(d) : o = given[d]
      /\ scope[d] = <<"own", x>>
      /\ \A k \in Keys : given[d][k] = Unset => own[x][k] = MergeAll(seen[x], at[x], GivenBy(x, at[x]))[k]
  <2>1. /\ \A o \in Outputs(d) : o = given[d]
        /\ scope[d] = MapGiven(x, n)
        /\ \A k \in Keys : given[d][k] = Unset => Deref(scope[d])[k] = Sees(x, n)[k]
    BY <1>3, <1>4, DueOutputs
  <2>2. MapGiven(x, n) = <<"own", x>>
    BY <1>1 DEF MapGiven
  <2>3. Sees(x, n) = MergeAll(seen[x], n - 1, GivenBy(x, n - 1)) /\ n - 1 = at[x]
    BY <1>1, <1>2 DEF Sees
  <2>4. Deref(scope[d]) = own[x]
    BY <2>1, <2>2 DEF Deref
  <2> QED
    BY <2>1, <2>2, <2>3, <2>4
<1>6. own'[x] = Merge(own[x], given[d]) /\ \A y \in Calls \ {x} : own'[y] = own[y]
  BY <1>1, <1>2, <1>5 DEF Shaped
<1>7. own'[x] = MergeAll(seen[x], n, GivenBy(x, n))
  <2> DEFINE got == GivenBy(x, at[x])
             more == GivenBy(x, n)
  <2>1. \A i \in 1..at[x] : more[i] = got[i]
    BY <1>2 DEF GivenBy
  <2>2. more[at[x] + 1] = given[d]
    BY <1>2 DEF GivenBy
  <2>3. PICK a \in Nat : a = at[x]
    BY <1>2
  <2>4. \A k \in Keys : more[a + 1][k] = Unset => own[x][k] = MergeAll(seen[x], a, got)[k]
    BY <1>5, <2>2, <2>3
  <2>5. \A i \in 1..a : more[i] = got[i]
    BY <2>1, <2>3
  <2>6. Merge(own[x], more[a + 1]) = MergeAll(seen[x], a + 1, more)
    <3> DEFINE w == own[x]
               s == seen[x]
    <3>1. \A k \in Keys : more[a + 1][k] = Unset => w[k] = MergeAll(s, a, got)[k]
      BY <2>4
    <3> HIDE DEF got, more, w, s
    <3>2. Merge(w, more[a + 1]) = MergeAll(s, a + 1, more)
      BY <2>5, <3>1, MergingOneMore
    <3> QED
      BY <3>2 DEF w, s
  <2> HIDE DEF got, more
  <2> QED
    BY <1>6, <2>2, <2>3, <2>6 DEF more
<1>8. /\ at'[x] = n /\ pc'[x] = "waiting" /\ GivenBy(x, at[x])' = GivenBy(x, n)
  BY <1>1, <1>2, StateFacts DEF GivenBy, Run
<1>9. Deref(scope[x])' = seen[x] /\ Interpretation(x, seen[x]) # Skip
  BY <1>1, <1>2, <1>6, ScopeKept, CleanFacts DEF Clean, GoesRight
<1>10. Heard(x) /\ Fresh(x)' /\ GaveRight(x)'
  BY <1>1, <1>8 DEF Heard, Fresh, GaveRight
<1>11. GoesRight(x)'
  <2>1. own'[x] = MergeAll(seen'[x], at'[x], GivenBy(x, at[x])')
    BY <1>1, <1>7, <1>8
  <2> QED
    BY <1>1, <1>8, <1>9, <2>1 DEF GoesRight, Begun, Kind, Run, IsLoop
<1>12. ASSUME NEW i \in 1..Len(Run(x)) PROVE SeesRight(x, i)'
  <2>1. Made(x, i) /\ i \in Nat
    BY <1>2
  <2>2. pc[Run(x)[i]] \in {"idle", "ended"} /\ (i > n => pc[Run(x)[i]] = "idle")
    <3>1. i <= at[x] \/ i = n \/ i > at[x] + 1
      BY <1>2, <2>1
    <3> QED
      BY <1>1, <1>2, <2>1, <3>1 DEF Made
  <2>3. pc'[Run(x)[i]] # "called" /\ ~Due(x, i)'
    BY <1>1, <1>2, <1>8, <2>1, <2>2 DEF Due, Run, Kind
  <2> QED
    BY <1>1, <2>3, OwnSees
<1> QED
  BY <1>10, <1>11, <1>12 DEF OwnRight

\* which is what the call gives, after the last one.
LEMMA EndsSerialRightly ==
    ASSUME Now, NEW x \in Calls, EndSerial(x), Frame(x), Moved(x) PROVE OwnRight(x)
<1>1. /\ pc[x] = "waiting" /\ Kind(x) = "serial" /\ Live(x) /\ Begun(x) /\ ~Writes[x]
      /\ at[x] = Len(Run(x)) /\ Finish(x, <<"own", x>>, own[x])
      /\ UNCHANGED <<scope, in, own, at, len, seen>>
  BY TreeAssumption DEF EndSerial, Going, Live, Begun
<1>2. Quiet(x) /\ GoesRight(x) /\ Len(Run(x)) \in Nat
  <2>1. EndSerial(x) /\ ~Launch(x)
    BY <1>1 DEF Launch
  <2> QED
    BY <2>1, NowFacts, QuietStep DEF Step
<1>3. Deref(scope[x]) = seen[x] /\ Interpretation(x, seen[x]) # Skip
  BY <1>1, <1>2, CleanFacts DEF Clean, GoesRight
<1>4. own[x] = Gives(x) /\ IteratesRightly(x)
  <2>1. own[x] = MergeAll(seen[x], at[x], GivenBy(x, at[x]))
    BY <1>1, <1>2 DEF GoesRight
  <2> QED
    BY <1>1, <2>1 DEF Gives, IteratesRightly
<1>5. Deref(<<"own", x>>)' = own[x] /\ Deref(scope[x])' = Deref(scope[x])
  BY <1>1 DEF Deref
<1> QED
  BY <1>1, <1>2, <1>3, <1>4, <1>5, EndsRight

\* All calls of a parallel one see what it does.
LEMMA CallsAllRightly ==
    ASSUME Now, NEW x \in Calls, CallAll(x), Frame(x), Moved(x) PROVE OwnRight(x)
<1>1. /\ pc[x] = "begun" /\ Kind(x) = "parallel" /\ Live(x) /\ Begun(x) /\ ~IsLoop(x)
      /\ GoCalling(x, "waiting", Children(x), scope[x])
      /\ UNCHANGED <<outs, in, own, at, len, seen, given>>
  BY DEF CallAll, Going, Live, Begun, IsLoop
<1>2. GoesRight(x) /\ Clean(x)
  BY <1>1, NowFacts DEF Clean
<1>3. Deref(scope[x]) = seen[x] /\ Interpretation(x, seen[x]) # Skip
  BY <1>1, <1>2, CleanFacts DEF GoesRight
<1>4. /\ pc'[x] = "waiting" /\ scope'[x] = scope[x]
      /\ \A d \in Children(x) : pc'[d] = "called" /\ scope'[d] = scope[x]
  BY <1>1, CallFacts DEF GoCalling, Moved
<1>5. Deref(scope[x])' = seen'[x]
  BY <1>1, <1>3, <1>4 DEF Deref
<1>6. Heard(x) /\ Fresh(x)' /\ GaveRight(x)'
  BY <1>1, <1>4 DEF Heard, Fresh, GaveRight
<1>7. GoesRight(x)'
  BY <1>1, <1>3, <1>4, <1>5 DEF GoesRight, Begun, Kind, Run, IsLoop
<1>8. ASSUME NEW i \in 1..Len(Run(x)) PROVE SeesRight(x, i)'
  <2>1. pc'[Run(x)[i]] = "called" /\ scope'[Run(x)[i]] = scope[x]
    BY <1>4, CallFacts
  <2>2. scope'[Run(x)[i]] = MapGiven(x, i)
    BY <1>1, <2>1 DEF MapGiven
  <2>3. Deref(scope[Run(x)[i]])' = Sees(x, i)
    BY <1>1, <1>3, <2>1 DEF Deref, Sees
  <2>4. ~Due(x, i)'
    BY <2>1 DEF Due, Run
  <2> QED
    BY <1>1, <2>2, <2>3, <2>4, OwnSees
<1> QED
  BY <1>6, <1>7, <1>8 DEF OwnRight

\* Whenever their outputs were read, they are what they gave.
LEMMA GatheredFacts ==
    ASSUME Now, NEW x \in Calls, NEW n \in Nat, n <= Len(Run(x)), NEW got \in Gathered(x, n),
           \A i \in 1..n : Due(x, i)
    PROVE  got = GivenBy(x, n)
<1>1. ASSUME NEW i \in 1..n PROVE got[i] = given[Run(x)[i]]
  <2>1. i \in 1..Len(Run(x)) /\ got[i] \in Outputs(Run(x)[i])
    BY CallFacts DEF Gathered
  <2> QED
    BY <2>1, DueOutputs
<1>2. got = [i \in 1..n |-> got[i]]
  BY DEF Gathered
<1> QED
  BY <1>1, <1>2 DEF GivenBy

\* Of several calls, none has written to what the others see, or it would be exposed.
LEMMA EndsParallelRightly ==
    ASSUME Now, NEW x \in Calls, EndParallel(x), Frame(x), Moved(x) PROVE OwnRight(x)
<1>1. /\ pc[x] = "waiting" /\ Kind(x) = "parallel" /\ Live(x) /\ Begun(x) /\ ~IsLoop(x)
      /\ \A d \in Children(x) : pc[d] = "ended"
      /\ UNCHANGED <<scope, in, at, len, seen>>
  BY DEF EndParallel, Going, Live, Begun, IsLoop
<1>2. /\ SharingInv /\ ~Exposed /\ GoesRight(x) /\ Len(Run(x)) \in Nat /\ Quiet(x)
  BY <1>1, NowFacts DEF Quiet, Live
<1>3. \A i \in 1..Len(Run(x)) : Due(x, i)
  BY <1>1, CallFacts DEF Due
<1> DEFINE m == MergeAll(Empty, Len(Run(x)), GivenBy(x, Len(Run(x))))
<1>4. EndWith(x, m)
  <2>1. PICK got \in Gathered(x, Len(Run(x))) : EndWith(x, MergeAll(Empty, Len(Run(x)), got))
    BY DEF EndParallel
  <2>2. got = GivenBy(x, Len(Run(x)))
    BY <1>2, <1>3, GatheredFacts
  <2> QED
    BY <2>1, <2>2
<1>5. m = Gives(x) /\ IteratesRightly(x)
  BY <1>1 DEF Gives, IteratesRightly
<1>6. ASSUME NEW k \in Keys, m[k] = Unset PROVE Deref(scope[x])[k] = seen[x][k]
  <2>1. CASE ~Writes[x]
    BY <1>1, <2>1, CleanFacts DEF Clean
  <2>2. CASE Writes[x]
    <3>1. ~Exposes(x) /\ \E d \in Children(x) : Writes[d]
      BY <1>1, <1>2, <2>2, LiveIsNotExposed, TreeAssumption
    <3>2. Len(Run(x)) = 1
      <4>1. ~(Len(Run(x)) > 1)
        BY <1>1, <3>1 DEF Exposes, Hands
      <4>2. Len(Run(x)) # 0
        BY <3>1 DEF Children
      <4>3. PICK l \in Nat : l = Len(Run(x))
        BY <1>2
      <4>4. l = 1
        BY <4>1, <4>2, <4>3
      <4> QED
        BY <4>3, <4>4
    <3>3. Due(x, 1) /\ 1 \in 1..Len(Run(x))
      BY <1>3, <3>2
    <3>4. /\ scope[Run(x)[1]] = MapGiven(x, 1)
          /\ \A h \in Keys : given[Run(x)[1]][h] = Unset
                => Deref(scope[Run(x)[1]])[h] = Sees(x, 1)[h]
      BY <3>3, DueOutputs
    <3>5. MapGiven(x, 1) = scope[x] /\ Sees(x, 1) = seen[x]
      BY <1>1 DEF MapGiven, Sees
    <3>6. GivenBy(x, Len(Run(x)))[1][k] = Unset
      <4> DEFINE l == Len(Run(x))
                 got == GivenBy(x, l)
      <4>1. l \in Nat /\ 1 \in 1..l /\ MergeAll(Empty, l, got)[k] = Unset
        BY <1>2, <1>6, <3>3
      <4> HIDE DEF l, got
      <4>2. got[1][k] = Unset
        BY <4>1, MergedUnset
      <4> QED
        BY <4>2 DEF l, got
    <3>7. given[Run(x)[1]][k] = Unset
      BY <3>2, <3>6 DEF GivenBy
    <3> QED
      BY <3>4, <3>5, <3>7
  <2> QED
    BY <2>1, <2>2
<1>7. Interpretation(x, seen[x]) # Skip
  BY <1>1, <1>2 DEF GoesRight
<1> QED
  BY <1>1, <1>2, <1>4, <1>5, <1>6, <1>7, EndsWithOwn

-----------------------------------------------------------------------------
(* Serial loops *)

\* The map a call was given, when none of its calls are to be waited for.
LEMMA ScopeSpared ==
    ASSUME SharingInv, NEW x \in Calls, Live(x), pc[x] # "waiting" \/ ~Writes[x], Frame(x),
           scope'[x] = scope[x]
    PROVE  Deref(scope[x])' = Deref(scope[x])
<1>1. scope[x] \in Maps /\ HandedDown(x)
  BY StateFacts DEF SharingInv
<1>2. ~Rewrites(x, scope[x])
  <2>1. ASSUME NEW e \in Children(x), scope[x] = <<"in", e>>, ~Live(e) PROVE FALSE
    BY <2>1, FreshIn, CallFacts
  <2>2. ASSUME scope[x] = <<"own", x>> PROVE FALSE
    BY <1>1, <2>2 DEF HandedDown
  <2> QED
    BY <2>1, <2>2 DEF Rewrites
<1>3. Same(scope[x])
  BY <1>1, <1>2, FrameOfMaps
<1> QED
  BY <1>3 DEF Same, Deref

\* The variables of the iteration that a loop looks at, and what it is then.
LEMMA LookFacts ==
    ASSUME NEW c, NEW i, NEW m, ~Fails(Look(c, i, m))
    PROVE  /\ Look(c, i, m)[2] = Iteration(c, i, m)
           /\ Look(c, i, m)[3] = Loop(c, Iteration(c, i, m))[2]
  BY DEF Look, Then, Iteration

\* The length it had is that of the range as the last iteration saw it, so the first
\* reason to end is the one that is meant.
LEMMA BeginsIterationFacts ==
    ASSUME Now, NEW x \in Calls, pc[x] = "begun", Kind(x) = "serialLoop"
    PROVE  /\ (at[x] > 0 /\ at[x] = len[x]) <=> UsedUp(x, at[x])
           /\ Deref(Last(x)) = Before(x, at[x]) /\ Grows(x, Before(x, at[x]))
           /\ ~CallSpec[x].hasVars =>
                 /\ Last(x) = scope[x]
                 /\ During(x, at[x]) = Before(x, at[x])
           /\ Interpretation(x, seen[x]) # Skip
           /\ \A i \in 0..(at[x] - 1) : ~IsOver(x, i)
           /\ Quiet(x) /\ \A i \in 1..Len(Run(x)) : pc[Run(x)[i]] \in {"idle", "ended"}
<1>1. /\ GoesRight(x) /\ Begun(x) /\ IsLoop(x) /\ at[x] \in Nat /\ at[x] <= Len(Run(x))
      /\ \A i \in 1..Len(Run(x)) : Made(x, i) /\ SeesRight(x, i)
  BY NowFacts DEF Begun, IsLoop
<1>2. \A i \in 1..Len(Run(x)) : pc[Run(x)[i]] \in {"idle", "ended"}
  BY <1>1 DEF Made
<1>3. ASSUME at[x] > 0 PROVE at[x] = len[x] <=> UsedUp(x, at[x])
  <2>1. at[x] \in 1..Len(Run(x)) /\ pc[Run(x)[at[x]]] # "idle"
    BY <1>1, <1>3 DEF Made
  <2>2. pc[Run(x)[at[x]]] = "ended" /\ SeesRight(x, at[x])
    BY <1>1, <1>2, <2>1
  <2>3. seen[Run(x)[at[x]]] = During(x, at[x] - 1)
    BY <2>2 DEF SeesRight, Sees
  <2>4. len[x] = Loop(x, During(x, at[x] - 1))[2].length
    BY <1>1, <1>3 DEF GoesRight
  <2> QED
    BY <1>3, <2>3, <2>4 DEF UsedUp
<1>4. (at[x] > 0 /\ at[x] = len[x]) <=> UsedUp(x, at[x])
  BY <1>1, <1>3 DEF UsedUp
<1>5. Deref(Last(x)) = Before(x, at[x]) /\ Grows(x, Before(x, at[x]))
  BY <1>1 DEF GoesRight
<1>6. ASSUME ~CallSpec[x].hasVars
      PROVE  Last(x) = scope[x] /\ During(x, at[x]) = Before(x, at[x])
  BY <1>6 DEF Last, GivenTo, During, Iteration, IterationScope, Map
<1>7. Quiet(x)
  BY <1>2, CallFacts DEF Quiet, Live
<1>8. Interpretation(x, seen[x]) # Skip /\ \A i \in 0..(at[x] - 1) : ~IsOver(x, i)
  BY <1>1 DEF GoesRight
<1> QED
  BY <1>2, <1>4, <1>5, <1>6, <1>7, <1>8

\* A loop gives its variables, or the map that it was given.
LEMMA EndsLoopRightly ==
    ASSUME Now, NEW x \in Calls, pc[x] = "begun", Kind(x) = "serialLoop", Frame(x), Moved(x),
           NEW m, EndLoop(x, m), UNCHANGED <<scope, in, at, len, seen>>, IsOver(x, at[x]),
           m = IF UsedUp(x, at[x]) THEN Before(x, at[x]) ELSE During(x, at[x])
    PROVE  OwnRight(x)
<1>1. Live(x) /\ Begun(x) /\ SharingInv /\ at[x] \in Nat /\ pc[x] # "called"
  BY NowFacts DEF Live, Begun
<1>2. IteratesRightly(x) /\ Interpretation(x, seen[x]) # Skip /\ Quiet(x)
  <2>1. \A i \in 0..at[x] : IsOver(x, i) <=> i = at[x]
    BY <1>1, BeginsIterationFacts
  <2> QED
    BY <2>1, BeginsIterationFacts DEF IteratesRightly
<1>3. CASE CallSpec[x].hasVars
  <2>1. ~Writes[x]
    BY <1>3, TreeAssumption
  <2>2. Deref(scope[x]) = seen[x]
    BY <1>1, <2>1, CleanFacts DEF Clean
  <2>3. LeftByLoop(x, seen[x], m) = Gives(x)
    BY <1>3 DEF Gives, Left
  <2>4. EndWith(x, LeftByLoop(x, seen[x], m))
    BY <1>3, <2>2 DEF EndLoop
  <2> QED
    BY <1>1, <1>2, <2>2, <2>3, <2>4, EndsWithOwn
<1>4. CASE ~CallSpec[x].hasVars
  <2>1. Finish(x, scope[x], Deref(scope[x])) /\ UNCHANGED own
    BY <1>4 DEF EndLoop
  <2>2. Deref(scope[x]) = Before(x, at[x]) /\ m = Before(x, at[x])
    BY <1>4, BeginsIterationFacts
  <2>3. Deref(scope[x]) = Gives(x)
    BY <1>4, <2>2 DEF Gives, Left
  <2>4. Deref(scope[x])' = Deref(scope[x])
    BY <2>1 DEF Deref
  <2>5. \A k \in Keys : Deref(scope[x])[k] = Unset => Deref(scope[x])'[k] = seen[x][k]
    <3>1. Grows(x, Before(x, at[x]))
      BY BeginsIterationFacts
    <3> QED
      BY <1>4, <2>2, <2>4, <3>1 DEF Grows
  <2> DEFINE s == scope[x]
             v == Deref(scope[x])
  <2>6. s \in {<<"own", x>>, scope[x]} /\ Deref(s)' = v
    BY <2>4
  <2> QED
    BY <1>1, <1>2, <2>1, <2>3, <2>4, <2>5, EndsRight
<1> QED
  BY <1>3, <1>4

\* The next iteration sees what the last one left.
LEMMA GoesOnIterating ==
    ASSUME Now, NEW x \in Calls, pc[x] = "begun", Kind(x) = "serialLoop", Frame(x), Moved(x),
           NEW m, m = During(x, at[x]), CallIteration(x, "waiting", m), fate = "going",
           ~IsOver(x, at[x]), len' = [len EXCEPT ![x] = Loop(x, m)[2].length],
           UNCHANGED <<outs, own, seen, given>>
    PROVE  OwnRight(x)
<1>0. PICK n : n = at[x]
  OBVIOUS
<1> DEFINE d == Run(x)[n + 1]
<1>1. /\ Live(x) /\ Begun(x) /\ IsLoop(x) /\ SharingInv /\ ControlInv /\ Shaped /\ n \in Nat
      /\ Len(Run(x)) \in Nat
  BY <1>0, NowFacts DEF Live, Begun, IsLoop
<1>2. /\ pc'[x] = "waiting" /\ at'[x] = n + 1 /\ n < Len(Run(x))
      /\ pc'[d] = "called" /\ scope'[d] = GivenTo(x, d)
      /\ \A i \in 1..Len(Run(x)) : i # n + 1 => pc'[Run(x)[i]] = pc[Run(x)[i]]
  BY <1>0, <1>1, IterationControl
<1>3. n + 1 \in 1..Len(Run(x)) /\ d \in Calls
  BY <1>1, <1>2, CallFacts
<1>4. CallSpec[x].hasVars => in'[d] = m
  BY <1>0, <1>1, FrameOfIteration
<1>5. scope'[x] = scope[x] /\ Deref(scope[x])' = Deref(scope[x])
  BY <1>1, ScopeSpared DEF Moved
<1>6. /\ Interpretation(x, seen[x]) # Skip /\ \A i \in 0..(n - 1) : ~IsOver(x, i)
      /\ Deref(Last(x)) = Before(x, n) /\ Grows(x, Before(x, n))
      /\ ~CallSpec[x].hasVars => Last(x) = scope[x] /\ During(x, n) = Before(x, n)
      /\ \A i \in 1..Len(Run(x)) : pc[Run(x)[i]] \in {"idle", "ended"}
  BY <1>0, BeginsIterationFacts
<1>7. Settled(x, n) /\ n \in 0..n
  BY <1>0, <1>1, SettledFacts
<1>8. Before(x, n)' = Before(x, n) /\ During(x, n)' = During(x, n)
  BY <1>1, <1>7, BeforeSame
<1>9. Heard(x) /\ Fresh(x)' /\ GaveRight(x)'
  BY <1>1, <1>2 DEF Heard, Fresh, GaveRight
<1>10. GoesRight(x)'
  <2>0. at'[x] - 1 = n
    BY <1>1, <1>2
  <2>1. Clean(x)' => Deref(scope[x])' = seen'[x]
    <3>1. ASSUME Clean(x)' PROVE Clean(x)
      BY <1>2, <3>1 DEF Clean, Kind
    <3> QED
      BY <1>1, <1>5, <3>1, CleanFacts
  <2>2. Grows(x, Before(x, at[x] - 1))'
    <3>1. Before(x, at[x] - 1)' = Before(x, n)
      BY <1>8, <2>0
    <3> QED
      BY <1>6, <3>1 DEF Grows
  <2>3. len'[x] = Loop(x, During(x, at[x] - 1)')[2].length
    <3>1. During(x, at[x] - 1)' = m
      BY <1>0, <1>8, <2>0
    <3>2. len'[x] = Loop(x, m)[2].length
      BY <1>1 DEF Shaped
    <3> QED
      BY <3>1, <3>2
  <2>4. ASSUME NEW i \in 0..(at'[x] - 1) PROVE ~IsOver(x, i)'
    <3>1. i \in 0..n
      BY <2>0
    <3>2. ~IsOver(x, i)
      BY <1>0, <1>1, <1>6, <3>1
    <3> QED
      BY <1>1, <1>7, <3>1, <3>2, OverSame
  <2> QED
    BY <1>2, <1>6, <2>1, <2>2, <2>3, <2>4 DEF GoesRight, Begun, Kind, Run, IsLoop
<1>11. ASSUME NEW i \in 1..Len(Run(x)) PROVE SeesRight(x, i)'
  <2>1. CASE i = n + 1
    <3>1. GivenTo(x, d) = MapGiven(x, n + 1)
      BY <1>1 DEF MapGiven, IsLoop
    <3>2. Sees(x, n + 1) = m
      BY <1>0, <1>1 DEF Sees
    <3>3. Deref(scope[d])' = m
      <4>1. CASE CallSpec[x].hasVars
        BY <1>2, <1>4, <4>1 DEF GivenTo, Deref
      <4>2. CASE ~CallSpec[x].hasVars
        <5>1. scope'[d] = scope'[x]
          BY <1>2, <1>5, <4>2 DEF GivenTo
        <5>2. Deref(scope[x]) = m
          BY <1>0, <1>6, <4>2
        <5>3. Deref(scope[d])' = Deref(scope[x])'
          BY <5>1 DEF Deref
        <5> QED
          BY <1>5, <5>2, <5>3
      <4> QED
        BY <4>1, <4>2
    <3>4. ~Due(x, n + 1)'
      BY <1>2 DEF Due, Run
    <3>5. SeesRight(x, n + 1)'
      BY <1>2, <1>3, <3>1, <3>2, <3>3, <3>4, OwnSees
    <3> QED
      BY <2>1, <3>5
  <2>2. CASE i # n + 1
    <3>1. pc'[Run(x)[i]] # "called" /\ ~Due(x, i)'
      BY <1>2, <1>6, <2>2 DEF Due, Run, Kind
    <3> QED
      BY <3>1, OwnSees
  <2> QED
    BY <2>1, <2>2
<1> QED
  BY <1>9, <1>10, <1>11 DEF OwnRight

\* It ends, fails or goes on.
LEMMA IteratesRightlyNow ==
    ASSUME Now, NEW x \in Calls, Iterate(x), Frame(x), Moved(x) PROVE OwnRight(x)
<1>1. pc[x] = "begun" /\ Kind(x) = "serialLoop" /\ fate = "going" /\ UNCHANGED seen /\ Live(x)
  BY DEF Iterate, Going, Live
<1>2. /\ (at[x] > 0 /\ at[x] = len[x]) <=> UsedUp(x, at[x])
      /\ Deref(Last(x)) = Before(x, at[x])
  BY <1>1, BeginsIterationFacts
<1>3. CASE /\ at[x] > 0 /\ at[x] = len[x] /\ EndLoop(x, Deref(Last(x)))
           /\ UNCHANGED <<scope, in, at, len, fate>>
  <2>1. IsOver(x, at[x])
    BY <1>1, <1>2, <1>3 DEF IsOver
  <2> QED
    BY <1>1, <1>2, <1>3, <2>1, EndsLoopRightly
<1>4. CASE /\ ~(at[x] > 0 /\ at[x] = len[x])
           /\ IterateBy(x, Look(x, at[x], Deref(Last(x))))
  <2> DEFINE look == Look(x, at[x], Before(x, at[x]))
  <2>1. IterateBy(x, look) /\ ~UsedUp(x, at[x])
    BY <1>2, <1>4
  <2>2. ~Fails(look) => /\ look[2] = During(x, at[x])
                        /\ look[3] = Loop(x, During(x, at[x]))[2]
    BY LookFacts DEF During
  <2>3. ~Fails(look) => (IsOver(x, at[x]) <=> IsComplete(at[x], look[3]))
    BY <1>1, <2>1, <2>2 DEF IsOver
  <2> HIDE DEF look
  <2>4. CASE FailToIterate(look)
    BY <1>1, <2>4, StopsRightly DEF FailToIterate
  <2>5. CASE /\ ~Fails(look) /\ IsComplete(at[x], look[3]) /\ EndLoop(x, look[2])
             /\ UNCHANGED <<scope, in, at, len, fate>>
    BY <1>1, <2>1, <2>2, <2>3, <2>5, EndsLoopRightly
  <2>6. CASE /\ ~Fails(look) /\ ~IsComplete(at[x], look[3])
             /\ CallIteration(x, "waiting", look[2])
             /\ len' = [len EXCEPT ![x] = look[3].length]
             /\ UNCHANGED <<outs, own, given, fate>>
    BY <1>1, <2>2, <2>3, <2>6, GoesOnIterating
  <2> QED
    BY <2>1, <2>4, <2>5, <2>6 DEF IterateBy
<1> QED
  BY <1>3, <1>4 DEF Iterate

\* What an iteration gave goes into the map that it had, which is the next one then.
LEMMA TakesIterationRightly ==
    ASSUME Now, NEW x \in Calls, TakeIteration(x), Frame(x), Moved(x) PROVE OwnRight(x)
<1>0. PICK n : n = at[x]
  OBVIOUS
<1> DEFINE d == Run(x)[n]
           m == Merge(Deref(Last(x)), given[d])
<1>1. /\ pc[x] = "waiting" /\ Kind(x) = "serialLoop" /\ pc[d] = "ended" /\ Go(x, "begun")
      /\ UNCHANGED <<scope, outs, at, len, seen, given>>
  BY <1>0 DEF TakeIteration, Going
<1>2. /\ Live(x) /\ Begun(x) /\ IsLoop(x) /\ SharingInv /\ Shaped /\ GoesRight(x) /\ Counted(x)
      /\ n \in Nat /\ Len(Run(x)) \in Nat /\ n <= Len(Run(x)) /\ scope[x] \in Maps
      /\ \A i \in 1..Len(Run(x)) : Made(x, i)
  BY <1>0, <1>1, NowFacts DEF Live, Begun, IsLoop
<1>3. n > 0 /\ n \in 1..Len(Run(x)) /\ d \in Calls /\ d # x
  <2>1. n > 0
    BY <1>0, <1>1, <1>2 DEF Counted
  <2> QED
    BY <1>2, <2>1, CallFacts
<1>4. Due(x, n)
  BY <1>0, <1>1, <1>2 DEF Due
<1>5. /\ Last(x) = GivenTo(x, d) /\ Last(x) \in Maps
      /\ in' = InWith(Last(x), m) /\ own' = OwnWith(Last(x), m)
  <2>1. FromStore(d) = given[d]
    BY <1>3, <1>4, DueOutputs
  <2>2. in' = InWith(Last(x), m) /\ own' = OwnWith(Last(x), m)
    BY <1>0, <2>1 DEF TakeIteration
  <2> QED
    BY <1>0, <1>2, <1>3, <2>2 DEF Last, GivenTo, Maps
<1>6. seen[d] = During(x, n - 1) /\ m = Before(x, n)
  <2>1. /\ scope[d] = MapGiven(x, n) /\ seen[d] = Sees(x, n)
        /\ \A k \in Keys : given[d][k] = Unset => Deref(scope[d])[k] = Sees(x, n)[k]
    BY <1>3, <1>4, DueOutputs
  <2>2. MapGiven(x, n) = Last(x) /\ Sees(x, n) = During(x, n - 1)
    BY <1>1, <1>2, <1>5 DEF MapGiven, Sees, IsLoop
  <2>3. Before(x, n) = Merge(seen[d], given[d])
    BY <1>3 DEF Before
  <2>4. \A k \in Keys : given[d][k] = Unset => Deref(Last(x))[k] = seen[d][k]
    BY <2>1, <2>2
  <2>5. m = Merge(seen[d], given[d])
    BY <2>4 DEF Merge
  <2> QED
    BY <2>1, <2>2, <2>3, <2>5
<1>7. /\ pc'[x] = "begun" /\ at'[x] = n /\ Last(x)' = Last(x)
      /\ \A i \in 1..Len(Run(x)) : pc'[Run(x)[i]] = pc[Run(x)[i]]
  <2>1. pc'[x] = "begun"
    BY <1>1, <1>2, MovedAlone DEF States
  <2>2. Last(x)' = Last(x)
    BY <1>1 DEF Last, GivenTo, Run
  <2> QED
    BY <1>0, <1>1, <1>2, <2>1, <2>2, SameCalls
<1>8. Deref(Last(x))' = m
  <2> DEFINE p == Last(x)
  <2> HIDE DEF m
  <2>1. Last(x) \in Maps /\ in' = InWith(Last(x), m) /\ own' = OwnWith(Last(x), m)
    BY <1>5
  <2>2. Last(x)[1] = "in" => in'[Last(x)[2]] = m
    BY <1>2, <2>1 DEF InWith, Maps, Shaped
  <2>3. Last(x)[1] # "in" => own'[Last(x)[2]] = m
    BY <1>2, <2>1 DEF OwnWith, Maps, Shaped
  <2> QED
    BY <1>7, <2>2, <2>3 DEF Deref
<1>9. /\ \A i : Before(x, i)' = Before(x, i) /\ During(x, i)' = During(x, i)
      /\ \A i : IsOver(x, i)' <=> IsOver(x, i)
  <2>1. \A i : Before(x, i)' = Before(x, i)
    BY <1>1 DEF Before, Run
  <2>2. \A i : During(x, i)' = During(x, i)
    BY <1>1, <2>1 DEF During, Iteration, IterationScope
  <2>3. \A i : UsedUp(x, i)' <=> UsedUp(x, i)
    BY <1>1 DEF UsedUp, Run
  <2>4. Kind(x)' = "serialLoop"
    BY <1>1 DEF Kind
  <2> QED
    BY <1>1, <2>1, <2>2, <2>3, <2>4 DEF IsOver, IsComplete
<1>10. Heard(x) /\ Fresh(x)' /\ GaveRight(x)'
  BY <1>1, <1>3, <1>7 DEF Heard, Fresh, GaveRight
<1>11. GoesRight(x)'
  <2>1. Clean(x)' => Deref(scope[x])' = seen'[x]
    <3>1. SUFFICES ASSUME Clean(x)' PROVE Deref(scope[x])' = seen'[x]
      OBVIOUS
    <3>2. ~Writes[x] /\ Clean(x)
      BY <1>1, <3>1 DEF Clean, Kind
    <3>3. Deref(scope[x])' = Deref(scope[x])
      BY <1>1, <1>2, <3>2, ScopeSpared
    <3> QED
      BY <1>1, <1>2, <3>2, <3>3, CleanFacts
  <2>2. Grows(x, Before(x, n))
    <3>1. SUFFICES ASSUME ~CallSpec[x].hasVars, NEW k \in Keys, Before(x, n)[k] = Unset
                   PROVE  seen[x][k] = Unset
      BY DEF Grows
    <3>2. Merge(seen[d], given[d])[k] = Unset
      BY <1>3, <3>1 DEF Before
    <3>3. seen[d][k] = Unset
      BY <3>2 DEF Merge
    <3>4. During(x, n - 1) = Before(x, n - 1)
      BY <3>1 DEF During, Iteration, IterationScope, Map
    <3>5. Grows(x, Before(x, n - 1))
      BY <1>0, <1>1, <1>2 DEF GoesRight
    <3> QED
      BY <1>6, <3>1, <3>3, <3>4, <3>5 DEF Grows
  <2>3. Deref(Last(x))' = Before(x, at[x])' /\ Grows(x, Before(x, at[x]))'
    <3>1. Before(x, at[x])' = Before(x, n)
      BY <1>7, <1>9
    <3> QED
      BY <1>1, <1>6, <1>8, <2>2, <3>1 DEF Grows
  <2>4. len'[x] = Loop(x, During(x, at[x] - 1)')[2].length
    <3>1. len[x] = Loop(x, During(x, n - 1))[2].length
      BY <1>0, <1>1, <1>2, <1>3 DEF GoesRight
    <3> QED
      BY <1>1, <1>7, <1>9, <3>1
  <2>5. Interpretation(x, seen'[x]) # Skip
    BY <1>1, <1>2 DEF GoesRight
  <2>6. \A i \in 0..(at'[x] - 1) : ~IsOver(x, i)'
    <3>1. \A i \in 0..(n - 1) : ~IsOver(x, i)
      BY <1>0, <1>2 DEF GoesRight
    <3> QED
      BY <1>7, <1>9, <3>1
  <2> QED
    BY <1>1, <1>7, <2>1, <2>3, <2>4, <2>5, <2>6 DEF GoesRight, Begun, Kind, Run, IsLoop
<1>12. ASSUME NEW i \in 1..Len(Run(x)) PROVE SeesRight(x, i)'
  <2>1. pc[Run(x)[i]] # "called"
    <3>1. CASE i = n
      BY <1>1, <3>1
    <3>2. CASE i # n
      BY <1>0, <1>1, <1>2, <3>2 DEF Made
    <3> QED
      BY <3>1, <3>2
  <2>2. pc'[Run(x)[i]] # "called" /\ ~Due(x, i)'
    BY <1>1, <1>7, <2>1 DEF Due, Kind
  <2> QED
    BY <1>1, <2>2, OwnSees
<1> QED
  BY <1>10, <1>11, <1>12 DEF OwnRight

-----------------------------------------------------------------------------
(* Parallel loops *)

\* The next call of one, while those before it run.
LEMMA LaunchesOneRightly ==
    ASSUME Now, NEW x \in Calls, pc[x] = "begun", Kind(x) = "parallelLoop", Frame(x), Moved(x),
           NEW m, m = Iteration(x, at[x], seen[x]), CallIteration(x, "begun", m), fate = "going",
           ~IsOver(x, at[x]), UNCHANGED <<outs, own, len, seen, given>>
    PROVE  OwnRight(x)
<1>0. PICK n : n = at[x]
  OBVIOUS
<1> DEFINE d == Run(x)[n + 1]
<1>1. /\ Live(x) /\ Begun(x) /\ IsLoop(x) /\ SharingInv /\ ControlInv /\ Shaped /\ n \in Nat
      /\ Len(Run(x)) \in Nat /\ GoesRight(x) /\ Clean(x) /\ scope[x] \in Maps
      /\ \A i \in 1..Len(Run(x)) : Made(x, i) /\ SeesRight(x, i)
  BY <1>0, NowFacts DEF Live, Begun, IsLoop, Clean
<1>2. /\ pc'[x] = "begun" /\ at'[x] = n + 1 /\ n < Len(Run(x))
      /\ pc'[d] = "called" /\ scope'[d] = GivenTo(x, d)
      /\ \A i \in 1..Len(Run(x)) : i # n + 1 => pc'[Run(x)[i]] = pc[Run(x)[i]]
  BY <1>0, <1>1, IterationControl
<1>3. n + 1 \in 1..Len(Run(x)) /\ d \in Calls
  BY <1>1, <1>2, CallFacts
<1>4. /\ in' = IF CallSpec[x].hasVars THEN [in EXCEPT ![d] = m] ELSE in
      /\ GoCalling(x, "begun", {d}, GivenTo(x, d))
  BY <1>0 DEF CallIteration
<1>5. (CallSpec[x].hasVars => in'[d] = m) /\ \A e \in Calls : e # d => in'[e] = in[e]
  BY <1>1, <1>3, <1>4 DEF Shaped
<1>6. scope'[x] = scope[x] /\ Deref(scope[x])' = Deref(scope[x]) /\ Deref(scope[x]) = seen[x]
  BY <1>1, ScopeSpared, CleanFacts DEF Moved
<1>7. /\ Interpretation(x, seen[x]) # Skip /\ \A i \in 0..(n - 1) : ~IsOver(x, i)
  BY <1>0, <1>1 DEF GoesRight
<1>8. Heard(x) /\ Fresh(x)' /\ GaveRight(x)'
  BY <1>1, <1>2 DEF Heard, Fresh, GaveRight
<1>9. GoesRight(x)'
  <2>1. ASSUME NEW i \in 0..(at'[x] - 1) PROVE ~IsOver(x, i)'
    <3>1. i \in 0..n /\ n \in Nat
      BY <1>1, <1>2
    <3>2. ~IsOver(x, i)
      BY <1>0, <1>1, <1>7, <3>1
    <3> QED
      BY <1>1, <3>1, <3>2, OverSame
  <2> QED
    BY <1>2, <1>6, <1>7, <2>1 DEF GoesRight, Begun, Kind, Run, IsLoop
<1>10. ASSUME NEW p \in Maps, p # <<"in", d>>
       PROVE  (IF p[1] = "in" THEN in'[p[2]] ELSE own'[p[2]]) = Deref(p)
  BY <1>5, <1>10 DEF Maps, Deref
<1>11. ASSUME NEW i \in 1..Len(Run(x)) PROVE SeesRight(x, i)'
  <2>1. CASE i = n + 1
    <3>1. GivenTo(x, d) = MapGiven(x, n + 1)
      BY <1>1 DEF MapGiven, IsLoop
    <3>2. Sees(x, n + 1) = m
      BY <1>0, <1>1 DEF Sees
    <3>3. Deref(scope[d])' = m
      <4>1. CASE CallSpec[x].hasVars
        BY <1>2, <1>5, <4>1 DEF GivenTo, Deref
      <4>2. CASE ~CallSpec[x].hasVars
        <5>1. scope'[d] = scope'[x]
          BY <1>2, <1>6, <4>2 DEF GivenTo
        <5>2. m = seen[x]
          BY <4>2 DEF Iteration, IterationScope, Map
        <5>3. Deref(scope[d])' = Deref(scope[x])'
          BY <5>1 DEF Deref
        <5> QED
          BY <1>6, <5>2, <5>3
      <4> QED
        BY <4>1, <4>2
    <3>4. ~Due(x, n + 1)'
      BY <1>2 DEF Due, Run
    <3>5. SeesRight(x, n + 1)'
      BY <1>2, <1>3, <3>1, <3>2, <3>3, <3>4, OwnSees
    <3> QED
      BY <2>1, <3>5
  <2>2. CASE i # n + 1
    <3>0. PICK e : e = Run(x)[i]
      OBVIOUS
    <3>1. /\ e \in Calls /\ e # x /\ e # d /\ pc'[e] = pc[e] /\ SeesRight(x, i)
      BY <1>1, <1>2, <1>3, <2>2, <3>0, CallFacts
    <3>2. scope'[e] = scope[e]
      BY <1>4, <3>1 DEF GoCalling
    <3>3. ~Live(d) /\ pc[d] = "idle"
      BY <1>0, <1>1, <1>3 DEF Made, Live
    <3>4. /\ scope[e] \in Maps /\ outs[e] \in Maps /\ GaveRight(e)
      BY <3>1, NowFacts
    <3>5. ASSUME pc'[e] = "called" PROVE Deref(scope[e])' = Sees(x, i)
      <4>1. scope[e] # <<"in", d>>
        BY <1>1, <1>3, <3>1, <3>3, <3>5, FreshIn DEF Live
      <4>2. Deref(scope[e])' = Deref(scope[e])
        BY <1>10, <3>2, <3>4, <4>1 DEF Deref
      <4> QED
        BY <3>0, <3>1, <3>5, <4>2 DEF SeesRight
    <3>6. ASSUME Due(x, i)' PROVE Kept(e)'
      <4>1. Due(x, i)
        BY <1>1, <3>0, <3>1, <3>6 DEF Due, Run, Kind, IsLoop
      <4>2. Kept(e) /\ scope[e] = MapGiven(x, i) /\ pc[e] = "ended"
        BY <3>0, <3>1, <4>1 DEF SeesRight, Due
      <4>3. scope[e] \in {<<"in", e>>, scope[x]}
        BY <1>1, <3>0, <4>2 DEF MapGiven, GivenTo, IsLoop
      <4>4. scope[x] # <<"in", d>>
        BY <1>1, <1>3, <3>3, FreshIn
      <4>5. scope[e] # <<"in", d>> /\ outs[e] # <<"in", d>>
        BY <3>1, <3>4, <4>2, <4>3, <4>4 DEF GaveRight
      <4>6. Deref(scope[e])' = Deref(scope[e]) /\ Deref(outs[e])' = Deref(outs[e])
        BY <1>10, <3>2, <3>4, <4>5 DEF Deref
      <4> QED
        BY <3>2, <4>2, <4>6 DEF Kept
    <3> QED
      BY <3>0, <3>1, <3>2, <3>5, <3>6, OwnSees DEF SeesRight
  <2> QED
    BY <2>1, <2>2
<1> QED
  BY <1>8, <1>9, <1>11 DEF OwnRight

\* There is nothing more to call, and what there was still runs.
LEMMA WaitsRightly ==
    ASSUME Now, NEW x \in Calls, pc[x] = "begun", Kind(x) = "parallelLoop", Frame(x), Moved(x),
           IsOver(x, at[x]), at[x] # 0, Go(x, "waiting"),
           UNCHANGED <<scope, outs, in, own, at, len, seen, given>>
    PROVE  OwnRight(x)
<1>1. /\ Live(x) /\ Begun(x) /\ IsLoop(x) /\ SharingInv /\ GoesRight(x) /\ Clean(x)
      /\ at[x] \in Nat /\ \A i \in 1..Len(Run(x)) : Made(x, i) /\ SeesRight(x, i)
  BY NowFacts DEF Live, Begun, IsLoop, Clean
<1>2. /\ pc'[x] = "waiting" /\ \A i \in 1..Len(Run(x)) : pc'[Run(x)[i]] = pc[Run(x)[i]]
  BY <1>1, MovedAlone, SameCalls DEF States
<1>3. Heard(x) /\ Fresh(x)' /\ GaveRight(x)'
  BY <1>2 DEF Heard, Fresh, GaveRight
<1>4. Interpretation(x, seen[x]) # Skip /\ Deref(scope[x])' = seen[x]
  <2>1. Deref(scope[x])' = Deref(scope[x])
    BY DEF Deref
  <2> QED
    BY <1>1, <2>1, CleanFacts DEF GoesRight
<1>5. GoesRight(x)'
  <2>1. ASSUME NEW i \in 0..at[x] PROVE IsOver(x, i)' <=> IsOver(x, i)
    BY <1>1, OverSame
  <2>2. \A i \in 0..(at'[x] - 1) : ~IsOver(x, i)'
    <3>1. \A i \in 0..(at[x] - 1) : ~IsOver(x, i) /\ i \in 0..at[x]
      BY <1>1 DEF GoesRight
    <3> QED
      BY <2>1, <3>1
  <2>3. IsOver(x, at[x])'
    <3>1. IsOver(x, at[x])' <=> IsOver(x, at[x])
      BY DEF IsOver, IsBeyond, Iteration, IterationScope, Kind
    <3> QED
      BY <3>1
  <2> QED
    BY <1>2, <1>4, <2>2, <2>3 DEF GoesRight, Begun, Kind, Run, IsLoop
<1>6. ASSUME NEW i \in 1..Len(Run(x)) PROVE SeesRight(x, i)'
  <2>0. PICK e : e = Run(x)[i]
    OBVIOUS
  <2>1. SeesRight(x, i) /\ pc'[e] = pc[e]
    BY <1>1, <1>2, <2>0
  <2>2. Deref(scope[e])' = Deref(scope[e]) /\ (Kept(e) => Kept(e)')
    BY DEF Deref, Kept
  <2>3. Due(x, i)' => Due(x, i)
    BY <1>1, <2>0, <2>1 DEF Due, Run, Kind
  <2> QED
    BY <2>0, <2>1, <2>2, <2>3, OwnSees DEF SeesRight
<1> QED
  BY <1>3, <1>5, <1>6 DEF OwnRight

\* A parallel loop looks at what it saw, though its calls run.
LEMMA LaunchesRightly ==
    ASSUME Now, NEW x \in Calls, Launch(x), Frame(x), Moved(x) PROVE OwnRight(x)
<1>1. /\ pc[x] = "begun" /\ Kind(x) = "parallelLoop" /\ fate = "going" /\ UNCHANGED seen
      /\ Live(x) /\ Begun(x) /\ IsLoop(x) /\ Clean(x)
  BY DEF Launch, Going, Live, Begun, IsLoop, Clean
<1>2. /\ SharingInv /\ GoesRight(x) /\ Fresh(x) /\ at[x] \in Nat
      /\ \A i \in 1..Len(Run(x)) : Made(x, i)
  BY NowFacts
<1>3. Deref(scope[x]) = seen[x] /\ Interpretation(x, seen[x]) # Skip
  BY <1>1, <1>2, CleanFacts DEF GoesRight
<1> DEFINE look == Look(x, at[x], seen[x])
<1>4. LaunchBy(x, look)
  BY <1>3 DEF Launch
<1>5. ~Fails(look) => /\ look[2] = Iteration(x, at[x], seen[x])
                      /\ look[3] = Loop(x, Iteration(x, at[x], seen[x]))[2]
  BY LookFacts
<1>6. ~Fails(look) => (IsOver(x, at[x]) <=> IsBeyond(at[x], look[3]))
  BY <1>1, <1>5 DEF IsOver
<1> HIDE DEF look
<1>7. CASE FailToIterate(look)
  BY <1>1, <1>7, StopsRightly DEF FailToIterate
<1>8. CASE ~Fails(look) /\ IsBeyond(at[x], look[3]) /\ at[x] = 0
           /\ Finish(x, <<"own", x>>, Empty) /\ UNCHANGED <<scope, in, own, at, len, fate>>
  <2>1. Quiet(x)
    <3>1. \A i \in 1..Len(Run(x)) : pc[Run(x)[i]] = "idle"
      BY <1>1, <1>2, <1>8 DEF Made
    <3> QED
      BY <3>1, CallFacts DEF Quiet, Live
  <2>2. own[x] = Empty
    BY <1>1, <1>2, <1>8 DEF Fresh
  <2>3. Deref(<<"own", x>>)' = Empty /\ Deref(scope[x])' = seen[x]
    BY <1>3, <1>8, <2>2 DEF Deref
  <2>4. Empty = Gives(x) /\ IteratesRightly(x)
    <3>1. \A i \in 0..0 : i = 0
      OBVIOUS
    <3> QED
      BY <1>1, <1>6, <1>8, <3>1 DEF Gives, IteratesRightly
  <2> QED
    BY <1>1, <1>3, <1>8, <2>1, <2>3, <2>4, EndsRight
<1>9. CASE ~Fails(look) /\ IsBeyond(at[x], look[3]) /\ at[x] # 0
           /\ Go(x, "waiting") /\ UNCHANGED <<outs, given>>
           /\ UNCHANGED <<scope, in, own, at, len, fate>>
  BY <1>1, <1>6, <1>9, WaitsRightly
<1>10. CASE ~Fails(look) /\ ~IsBeyond(at[x], look[3]) /\ CallIteration(x, "begun", look[2])
            /\ UNCHANGED <<outs, own, len, given, fate>>
  BY <1>1, <1>5, <1>6, <1>10, LaunchesOneRightly
<1> QED
  BY <1>4, <1>7, <1>8, <1>9, <1>10 DEF LaunchBy

\* What its calls gave goes into the map that it was given, which no other has.
LEMMA EndsParallelLoopRightly ==
    ASSUME Now, NEW x \in Calls, EndParallelLoop(x), Frame(x), Moved(x) PROVE OwnRight(x)
<1>0. PICK n : n = at[x]
  OBVIOUS
<1>1. /\ pc[x] = "waiting" /\ Kind(x) = "parallelLoop"
      /\ Live(x) /\ Begun(x) /\ IsLoop(x) /\ Clean(x)
      /\ \A i \in 1..n : pc[Run(x)[i]] = "ended"
      /\ UNCHANGED <<scope, at, len, seen>>
  BY <1>0 DEF EndParallelLoop, Going, Live, Begun, IsLoop, Clean
<1>2. /\ SharingInv /\ Shaped /\ GoesRight(x) /\ Counted(x) /\ n \in Nat /\ n <= Len(Run(x))
      /\ scope[x] \in Maps
  BY <1>0, NowFacts
<1>3. Quiet(x)
  <2>1. ~Launch(x)
    BY <1>1 DEF Launch, Going
  <2> QED
    BY <2>1, NowFacts, QuietStep DEF Step
<1>4. n > 0
  BY <1>0, <1>1, <1>2 DEF Counted
<1>5. Deref(scope[x]) = seen[x] /\ Interpretation(x, seen[x]) # Skip
  BY <1>1, <1>2, CleanFacts DEF GoesRight
<1>6. \A i \in 1..n : Due(x, i)
  BY <1>1 DEF Due
<1> DEFINE m == MergeAll(seen[x], n, GivenBy(x, n))
<1>7. LeaveParallelLoop(x, m)
  <2>1. PICK got \in Gathered(x, n) : LeaveParallelLoop(x, MergeAll(seen[x], n, got))
    BY <1>0, <1>5 DEF EndParallelLoop
  <2>2. got = GivenBy(x, n)
    BY <1>2, <1>6, GatheredFacts
  <2> QED
    BY <2>1, <2>2
<1>8. IteratesRightly(x)
  <2>1. IsOver(x, n) /\ \A i \in 0..(n - 1) : ~IsOver(x, i)
    BY <1>0, <1>1, <1>2 DEF GoesRight
  <2>2. \A i \in 0..n : IsOver(x, i) <=> i = n
    BY <1>2, <2>1
  <2> QED
    BY <1>0, <2>2 DEF IteratesRightly
<1>9. Gives(x) = Left(x, m, m)
  BY <1>0, <1>1, <1>4 DEF Gives
<1>10. \A k \in Keys : m[k] = Unset => m[k] = seen[x][k]
  BY <1>2, MergedUnset
<1> HIDE DEF m
<1>11. scope[x] # <<"own", x>> /\ scope[x][2] \in Calls /\ scope'[x] = scope[x]
       /\ scope[x][1] \in {"in", "own"} /\ scope[x] = <<scope[x][1], scope[x][2]>>
  <2>1. HandedDown(x)
    BY <1>2 DEF SharingInv
  <2>2. scope[x] # <<"own", x>>
    BY <1>1, <2>1 DEF HandedDown
  <2> QED
    BY <1>1, <1>2, <2>2 DEF Maps
<1>12. CASE CallSpec[x].hasVars
  <2> DEFINE left == LeftByLoop(x, m, m)
  <2>1. /\ in' = InWith(scope[x], m) /\ own' = [OwnWith(scope[x], m) EXCEPT ![x] = left]
        /\ Finish(x, <<"own", x>>, left)
    BY <1>7, <1>12 DEF LeaveParallelLoop
  <2>2. left = Gives(x)
    BY <1>9, <1>12 DEF Left
  <2>3. \A k \in Keys : left[k] = Unset => m[k] = Unset
    BY DEF LeftByLoop, Nil, Unset
  <2> HIDE DEF left
  <2>4. DOMAIN OwnWith(scope[x], m) = Calls
    BY <1>2 DEF OwnWith, Shaped
  <2>5. own'[x] = left /\ \A y \in Calls \ {x} : own'[y] = OwnWith(scope[x], m)[y]
    BY <2>1, <2>4
  <2>6. Deref(<<"own", x>>)' = left
    BY <2>5 DEF Deref
  <2>7. Deref(scope[x])' = m
    <3>1. CASE scope[x][1] = "in"
      BY <1>2, <1>11, <2>1, <3>1 DEF InWith, Shaped, Deref
    <3>2. CASE scope[x][1] = "own"
      <4>1. scope[x][2] \in Calls \ {x}
        BY <1>11, <3>2
      <4>2. OwnWith(scope[x], m)[scope[x][2]] = m
        BY <1>2, <1>11, <3>2 DEF OwnWith, Shaped
      <4> QED
        BY <1>11, <2>5, <3>2, <4>1, <4>2 DEF Deref
    <3> QED
      BY <1>11, <3>1, <3>2
  <2>8. \A k \in Keys : left[k] = Unset => Deref(scope[x])'[k] = seen[x][k]
    BY <1>10, <2>3, <2>7
  <2> QED
    BY <1>1, <1>3, <1>5, <1>8, <2>1, <2>2, <2>6, <2>8, EndsRight
<1>13. CASE ~CallSpec[x].hasVars
  <2>1. /\ in' = InWith(scope[x], m) /\ own' = OwnWith(scope[x], m)
        /\ Finish(x, scope[x], m)
    BY <1>7, <1>13 DEF LeaveParallelLoop
  <2>2. m = Gives(x)
    BY <1>9, <1>13 DEF Left
  <2>3. Deref(scope[x])' = m
    BY <1>2, <1>11, <2>1 DEF InWith, OwnWith, Shaped, Deref
  <2>4. \A k \in Keys : m[k] = Unset => Deref(scope[x])'[k] = seen[x][k]
    BY <1>10, <2>3
  <2> QED
    BY <1>1, <1>3, <1>5, <1>8, <2>1, <2>2, <2>3, <2>4, EndsRight
<1> QED
  BY <1>12, <1>13

-----------------------------------------------------------------------------

\* That is every step.
LEMMA StepsRightly ==
    ASSUME Now, NEW x \in Calls, Step(x), Frame(x), Moved(x) PROVE OwnRight(x)
  BY InterpretsRightly, RunsRightly, CallsOpRightly, EndsOpRightly,
     BeginsSerialRightly, CallsNextRightly, TakesOutputsRightly, EndsSerialRightly,
     CallsAllRightly, EndsParallelRightly, IteratesRightlyNow, TakesIterationRightly,
     LaunchesRightly, EndsParallelLoopRightly DEF Step

\* What a call has given that has ended, and what the store has made of it, stay.
LEMMA StaysAltered ==
    ASSUME NEW x \in Calls, Live(x), Moved(x), Frame(x), Altered PROVE Altered'
<1>1. PICK c \in Calls : pc[c] = "ended" /\ FromStore(c) # given[c]
  BY DEF Altered
<1>2. c # x
  BY <1>1 DEF Live
<1>3. pc'[c] = "ended" /\ given'[c] = given[c]
  BY <1>1, <1>2 DEF Moved, Unmoved, CalledBy, Frame
<1>4. FromStore(c)' = FromStore(c)
  BY <1>3 DEF FromStore
<1> QED
  BY <1>1, <1>3, <1>4 DEF Altered

\* No step of any call makes any other one see or give something else.
LEMMA NextMeaning ==
    ASSUME SharingInv, ControlInv, MeaningInv, [Next]_vars PROVE MeaningInv'
<1>1. CASE UNCHANGED vars
  <2>1. UNCHANGED <<pc, scope, outs, in, own, at, len, seen, given>>
    BY <1>1 DEF vars
  <2>2. (Exposed' <=> Exposed) /\ (Altered' <=> Altered)
    BY <2>1 DEF Exposed, Altered, FromStore
  <2>3. Shaped => Shaped'
    BY <2>1 DEF Shaped
  <2>4. ASSUME NEW c
        PROVE  Fresh(c)' <=> Fresh(c)
    BY <2>1 DEF Fresh, Empty
  <2>5. ASSUME NEW c
        PROVE  /\ GivenBy(c, at[c])' = GivenBy(c, at[c])
               /\ Deref(Last(c))' = Deref(Last(c)) /\ Deref(scope[c])' = Deref(scope[c])
               /\ Deref(outs[c])' = Deref(outs[c])
    BY <2>1 DEF GivenBy, Run, Deref, Last, GivenTo
  <2>6. ASSUME NEW c, NEW i
        PROVE  /\ Before(c, i)' = Before(c, i) /\ During(c, i)' = During(c, i)
               /\ (IsOver(c, i)' <=> IsOver(c, i)) /\ (UsedUp(c, i)' <=> UsedUp(c, i))
               /\ GivenBy(c, i)' = GivenBy(c, i)
    BY <2>1 DEF GivenBy, Run, Before, During, Iteration, IterationScope, IsOver, UsedUp,
                IsComplete, IsBeyond, Kind
  <2>7. ASSUME NEW c PROVE Begun(c)' = Begun(c) /\ (Clean(c)' <=> Clean(c)) /\ (Live(c)' <=> Live(c))
    BY <2>1 DEF Begun, Clean, Kind, Live
  <2>8. ASSUME NEW c PROVE GoesRight(c)' <=> GoesRight(c)
    BY <2>1, <2>5, <2>6, <2>7 DEF GoesRight, Kind, Run, IsLoop, Grows
  <2>9. ASSUME NEW c PROVE GaveRight(c)' <=> GaveRight(c)
    <3>1. Gives(c)' = Gives(c)
      BY <2>1, <2>5, <2>6 DEF Gives, Left, LeftByLoop, Kind, Run, MergeAll, Empty
    <3>2. IteratesRightly(c)' <=> IteratesRightly(c)
      BY <2>1, <2>6 DEF IteratesRightly, Kind
    <3> QED
      BY <2>1, <3>1, <3>2 DEF GaveRight, Empty
  <2>10. ASSUME NEW c, NEW i PROVE SeesRight(c, i)' <=> SeesRight(c, i)
    <3>1. Sees(c, i)' = Sees(c, i)
      BY <2>1, <2>6 DEF Sees, Kind, MergeAll, Iteration, IterationScope
    <3>2. MapGiven(c, i)' = MapGiven(c, i)
      BY <2>1 DEF MapGiven, Kind, IsLoop, GivenTo, Run
    <3>3. Due(c, i)' <=> Due(c, i)
      BY <2>1, <2>7 DEF Due, Kind, Run
    <3>4. \A d : (Kept(d)' <=> Kept(d)) /\ Deref(scope[d])' = Deref(scope[d])
      BY <2>1, <2>5 DEF Kept
    <3> QED
      BY <2>1, <3>1, <3>2, <3>3, <3>4 DEF SeesRight, Run
  <2> QED
    BY <2>2, <2>3, <2>4, <2>8, <2>9, <2>10 DEF MeaningInv, Run
<1>2. ASSUME NEW x \in Calls, Step(x) PROVE MeaningInv'
  <2>1. Live(x) /\ Moved(x)
    BY <1>2, ControlStep DEF OwnControl
  <2>2. Frame(x) /\ Shaped'
    <3>1. Frame(x)
      BY <1>2, FrameStep DEF MeaningInv
    <3> QED
      BY <3>1 DEF Frame
  <2>3. SUFFICES ASSUME ~Exposed', ~Altered'
                 PROVE  \A c \in Calls :
                           /\ Fresh(c)' /\ GoesRight(c)' /\ GaveRight(c)'
                           /\ \A i \in 1..Len(Run(c)) : SeesRight(c, i)'
    BY <2>2 DEF MeaningInv, Run
  <2>4. ~Exposed
    <3>1. \A c \in Calls : pc'[c] = "idle" => pc[c] = "idle"
      BY <2>1 DEF Moved, Unmoved, CalledBy
    <3>2. ExposedRoots \subseteq Calls
      BY ScopesAssumption DEF ExposedRoots
    <3> QED
      BY <2>3, <3>1, <3>2 DEF Exposed
  <2>5. Now
    <3>1. ~Altered
      BY <2>1, <2>2, <2>3, StaysAltered
    <3> QED
      BY <2>4, <3>1 DEF Now
  <2>6. OwnRight(x)
    BY <1>2, <2>1, <2>2, <2>5, StepsRightly
  <2>7. ASSUME NEW y \in Calls, y # x
        PROVE  /\ Fresh(y)' /\ GoesRight(y)' /\ GaveRight(y)'
               /\ \A i \in 1..Len(Run(y)) : SeesRight(y, i)'
    <3>1. Heard(x)
      BY <2>6 DEF OwnRight
    <3> QED
      BY <2>1, <2>2, <2>5, <2>7, <3>1, OthersFresh, OthersGo, OthersGave, OthersSee
  <2> QED
    BY <2>6, <2>7 DEF OwnRight
<1> QED
  BY <1>1, <1>2 DEF Next

\* In the beginning nobody has seen or given anything.
LEMMA InitMeaning == ASSUME Init PROVE MeaningInv
<1>1. PICK r \in Roots : /\ pc = [c \in Calls |-> IF c = r THEN "called" ELSE "idle"]
                         /\ in = [c \in Calls |-> IF c = r THEN Args[r] ELSE Empty]
  BY DEF Init
<1>2. Shaped
  BY <1>1 DEF Init, Shaped
<1>3. ASSUME NEW c \in Calls PROVE Fresh(c) /\ GoesRight(c) /\ GaveRight(c)
  <2>1. pc[c] \in {"idle", "called"} /\ own[c] = Empty
    BY <1>1 DEF Init
  <2> QED
    BY <2>1 DEF Fresh, GoesRight, GaveRight, Begun
<1>4. ASSUME NEW c \in Calls, NEW i \in 1..Len(Run(c)) PROVE SeesRight(c, i)
  <2>1. Run(c)[i] \in Calls /\ Run(c)[i] \in Family[c] /\ Run(c)[i] # c
    BY CallFacts
  <2>2. Run(c)[i] # r
    BY <2>1, TreeAssumption
  <2>3. pc[Run(c)[i]] = "idle"
    BY <1>1, <2>1, <2>2
  <2> QED
    BY <2>3 DEF SeesRight, Due
<1> QED
  BY <1>2, <1>3, <1>4 DEF MeaningInv

\* The parent that ScopesMeaning speaks of.
LEMMA ItsParent ==
    ASSUME NEW p \in Calls, NEW i \in 1..Len(Run(p)), NEW c, c = Run(p)[i]
    PROVE  Parent(c) = p /\ Place(c) = i
<1>1. c \in Children(p)
  BY CallFacts
<1>2. Parent(c) \in Calls /\ c \in Children(Parent(c))
  BY <1>1 DEF Parent
<1>3. Parent(c) = p
  BY <1>1, <1>2, OneParent
<1>4. Place(c) \in 1..Len(Run(p)) /\ Run(p)[Place(c)] = c
  BY <1>3 DEF Place
<1> QED
  BY <1>3, <1>4, CallFacts

\* What the invariant says is that calls see and give what they mean.
LEMMA WhatCallsMean ==
    ASSUME SharingInv, ControlInv, MeaningInv PROVE CallsMeanWhatTheySay
<1>1. SUFFICES ASSUME ~Exposed, ~Altered, NEW c \in Calls
      PROVE  /\ (c \notin Roots /\ pc[c] \in {"begun", "waiting", "ended"})
                   => seen[c] = Sees(Parent(c), Place(c))
             /\ pc[c] = "ended" => IF Interpretation(c, seen[c]) # Skip
                                   THEN given[c] = Gives(c) /\ IteratesRightly(c)
                                   ELSE given[c] = Empty
  BY DEF CallsMeanWhatTheySay
<1>2. GaveRight(c) /\ Placed(c)
  BY <1>1 DEF MeaningInv, ControlInv
<1>3. ASSUME c \notin Roots, pc[c] \in {"begun", "waiting", "ended"}
      PROVE  seen[c] = Sees(Parent(c), Place(c))
  <2>1. PICK p \in Calls : c \in Children(p)
    BY <1>2, <1>3 DEF Placed
  <2>2. PICK i \in 1..Len(Run(p)) : c = Run(p)[i]
    BY <2>1, CallFacts
  <2>3. SeesRight(p, i)
    BY <1>1 DEF MeaningInv
  <2> QED
    BY <1>3, <2>2, <2>3, ItsParent DEF SeesRight
<1> QED
  BY <1>2, <1>3 DEF GaveRight

\* Calls see and give what they mean (CallsMeanWhatTheySay), whatever runs beside them
\* and in whatever order, and loops make as many as they mean, unless a call Exposes
\* (parallelLoopCaller.go:147, scope.go:35) or the event store has changed outputs
\* (eventStore.go:36).
THEOREM CallsAlwaysMeanWhatTheySay == Spec => []CallsMeanWhatTheySay
<1> DEFINE Inv == SharingInv /\ ControlInv /\ MeaningInv
<1>1. Init => Inv
  BY InitSharing, InitControl, InitMeaning
<1>2. Inv /\ [Next]_vars => Inv'
  BY NextSharing, NextControl, NextMeaning
<1>3. Inv => CallsMeanWhatTheySay
  BY WhatCallsMean
<1> HIDE DEF Inv
<1> QED
  BY <1>1, <1>2, <1>3, PTL DEF Spec
=============================================================================
