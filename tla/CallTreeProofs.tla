--------------------------- MODULE CallTreeProofs ---------------------------
(***************************************************************************)
(* For any op: a serial call makes one call at a time, a call that fails has *)
(* a reason to, and one that reports success is right about its children.    *)
(* The calls' places in the tree come first (CallsInv), without contexts;    *)
(* then what handlers return, which is about contexts: once done they stay   *)
(* done (CancelledStays), so that a handler cut short by its context always  *)
(* belongs to a call that is published as killed.                            *)
(***************************************************************************)
EXTENDS CallTree, TLAPS

Points == {"idle", "launched", "noop", "entered", "started",
           "calling", "awaiting", "returning", "ended"}
Unmade == {"idle", "launched", "noop", "entered"}  \* the handler was not called yet
Events == Calls \cup {EndedElsewhere, OtherEvent}

\* The types of what the proofs need: TypeOK but for the counts of needs.
Typed ==
    /\ op \in Ops
    /\ pc \in [Calls -> Points]
    /\ ret \in [Calls -> {"none", "ok", "err", "panic"}]
    /\ outcome \in [Calls -> {"none", "succeeded", "failed", "killed"}]
    /\ next \in [Calls -> Nat \ {0}]
    /\ seen \in [Calls -> SUBSET Calls]
    /\ killed \subseteq Calls
    /\ sub \in [Calls -> {"none", "since", "spawned", "registered", "open", "closed"}]
    /\ stored \in [Calls -> SUBSET Events]
    /\ replay \in [Calls -> SUBSET Events]
    /\ live \in [Calls -> SUBSET Events]

\* What a call returned and its outcome go with where it is.
Outcomes ==
    \A c \in Calls :
        /\ ret[c] # "none" <=> Returned(c)
        /\ outcome[c] # "none" <=> pc[c] = "ended"
        /\ outcome[c] = "failed" => ret[c] = "err"
        /\ (pc[c] = "ended" /\ ret[c] = "err") => outcome[c] \in {"failed", "killed"}

\* The child of a call that makes one at a time runs while its parent is in
\* the middle of calling it.
OneRuns ==
    \A p \in Calls : \A i \in DOMAIN Children[p] :
        (~IsParallel(p) /\ pc[Children[p][i]] \notin {"idle", "noop", "ended"}) =>
            pc[p] = "calling" /\ i = next[p]

\* A child is made when it is its turn.
InTurn(p, i) ==
    /\ (Kind[p] = "container" \/ pc[p] \in Unmade) => pc[Children[p][i]] = "idle"
    /\ (Kind[p] = "parallel" /\ pc[p] = "started") => pc[Children[p][i]] = "idle"
    /\ (Kind[p] = "parallelLoop" /\ i >= next[p]) => pc[Children[p][i]] = "idle"
    /\ ~IsParallel(p) =>
          /\ i > next[p] => pc[Children[p][i]] = "idle"
          /\ (i = next[p] /\ pc[p] = "started") => pc[Children[p][i]] = "idle"
          /\ (i = next[p] /\ pc[p] = "awaiting") => Over(Children[p][i])
          /\ i < next[p] => Over(Children[p][i])

\* A call that has called a child, or heard of its end, has one.
HasCalled(p) == (~IsParallel(p) /\ pc[p] \in {"calling", "awaiting"}) => HasChild(p)

InOrder == \A p \in Calls : HasCalled(p) /\ \A i \in DOMAIN Children[p] : InTurn(p, i)

\* An event that says a call ended tells the truth.
EventsAreTrue ==
    \A p \in Calls :
        /\ \A e \in Calls : e \in stored[p] \cup replay[p] \cup live[p] => pc[e] = "ended"
        /\ \A c \in seen[p] : c \in Offspring(p) /\ pc[c] = "ended"

CallsInv == Typed /\ Outcomes /\ OneRuns /\ InOrder /\ EventsAreTrue

-----------------------------------------------------------------------------
\* A call was cancelled: it, or one above it, was killed or is over.
Cancelled(c) == c \in killed \/ CtxDone(c)

Reason(p) ==
    \/ p \in Fallible \cup stopped
    \/ \E c \in Offspring(p) : \/ outcome[c] = "failed"
                               \/ Kind[p] = "op" /\ outcome[c] = "killed"

Done(p) == \A c \in Offspring(p) : pc[c] \in {"idle", "ended"} /\ outcome[c] # "failed"

\* Why a handler returned, or skipped a child, as long as its call goes on.
ContextsInv ==
    \A p \in Calls :
        /\ pc[p] = "noop" => CtxDone(p)
        /\ sub[p] = "closed" => Cancelled(p)
        /\ ret[p] = "err" => Reason(p) \/ Cancelled(p)
        /\ outcome[p] = "failed" => Reason(p)
        /\ ret[p] = "ok" => Done(p) \/ Cancelled(p)
        /\ (outcome[p] = "succeeded" /\ ret[p] # "panic") => Done(p)
        /\ ~IsParallel(p) => \A i \in DOMAIN Children[p] : i < next[p] =>
              \/ pc[Children[p][i]] = "ended" /\ outcome[Children[p][i]] # "failed"
              \/ Cancelled(p)

\* What a call came to is right.
Right(p) ==
    /\ outcome[p] = "failed" => Reason(p)
    /\ (outcome[p] = "succeeded" /\ ret[p] # "panic") => Done(p)

TreeInv == CallsInv /\ ContextsInv

-----------------------------------------------------------------------------
(* The op, and what the contexts of a call come to. *)

LEMMA OpFacts ==
  ASSUME op \in Ops
  PROVE  /\ Root \in Calls
         /\ Kind \in [Calls -> {"container", "op", "serial", "serialLoop", "parallel", "parallelLoop"}]
         /\ Children \in [Calls -> Seq(Calls)]
         /\ \A p \in Calls : Offspring(p) \subseteq Calls /\ Root \notin Offspring(p)
         /\ \A p, q \in Calls : \A i \in DOMAIN Children[p], j \in DOMAIN Children[q] :
               Children[p][i] = Children[q][j] => p = q /\ i = j
         /\ \A p \in Calls : \A i \in DOMAIN Children[p] : Children[p][i] \in Offspring(p)
         /\ \A p \in Calls : \A c \in Offspring(p) : \E i \in DOMAIN Children[p] : c = Children[p][i]
<1>1. IsOp(op)
  BY OpsAssumption
<1>2. Children \in [Calls -> Seq(Calls)] /\ Root \in Calls
  BY <1>1 DEF IsOp, Children, Root
<1>3. \A p \in Calls : \A i \in DOMAIN Children[p] : Children[p][i] \in Calls
  BY <1>2
<1>4. \A p \in Calls : Offspring(p) = {Children[p][i] : i \in DOMAIN Children[p]}
  BY DEF Offspring, OffspringIn, Children
<1>5. \A p, q \in Calls : p # q => Offspring(p) \cap Offspring(q) = {}
  BY <1>1 DEF IsOp, Offspring
<1>6. \A p \in Calls : \A i, j \in DOMAIN Children[p] : i # j => Children[p][i] # Children[p][j]
  BY <1>1 DEF IsOp, Children
<1>7. \A p \in Calls : Root \notin Offspring(p)
  BY <1>1 DEF IsOp, Offspring, Root
<1>8. Kind \in [Calls -> {"container", "op", "serial", "serialLoop", "parallel", "parallelLoop"}]
  BY <1>1 DEF IsOp, Kind
<1>9. \A p \in Calls : Offspring(p) \subseteq Calls /\ Root \notin Offspring(p)
  BY <1>3, <1>4, <1>7
<1>10. \A p \in Calls : \A i \in DOMAIN Children[p] : Children[p][i] \in Offspring(p)
  BY <1>4
<1>11. \A p \in Calls : \A c \in Offspring(p) : \E i \in DOMAIN Children[p] : c = Children[p][i]
  BY <1>4
<1>12. \A p, q \in Calls : \A i \in DOMAIN Children[p], j \in DOMAIN Children[q] :
          Children[p][i] = Children[q][j] => p = q /\ i = j
  BY <1>5, <1>6, <1>10
<1>. QED
  BY <1>2, <1>8, <1>9, <1>10, <1>11, <1>12, Zenon

\* A child inherits the contexts of its parent, and of the calls above that.
LEMMA AboveChild ==
  ASSUME op \in Ops, NEW p \in Calls, NEW c \in Offspring(p)
  PROVE  Above[c] = {p} \cup Above[p]
<1>1. IsOp(op) /\ c \in Calls
  BY OpsAssumption, OpFacts
<1>2. Above[c] = Parents(c) \cup UNION {Above[q] : q \in Parents(c)}
  BY <1>1 DEF IsOp, Above, Parents
<1>3. Parents(c) = {p}
  BY <1>1 DEF IsOp, Parents, ParentsIn, Offspring
<1>. QED
  BY <1>2, <1>3

-----------------------------------------------------------------------------
(* Where calls are *)

LEMMA PublishTyped ==
  ASSUME Typed, NEW event \in [Calls -> Events], Publish(event)
  PROVE  stored' \in [Calls -> SUBSET Events] /\ live' \in [Calls -> SUBSET Events]
BY DEF Typed, Publish, Stored, Delivered

LEMMA RequestTyped ==
  ASSUME Typed, NEW cs, NEW blocked \in [Calls -> SUBSET Events], RequestKill(cs, blocked)
  PROVE  stored' \in [Calls -> SUBSET Events] /\ live' \in [Calls -> SUBSET Events]
<1>1. Other \in [Calls -> Events]
  BY DEF Other, Events
<1>. QED
  BY <1>1 DEF Typed, RequestKill, Stored, Delivered

\* What the event loop of a call does with an event.
Handles(c, event) ==
    \/ IsSerial(c) /\ SerialHandles(c, event)
    \/ IsParallel(c) /\ ParallelHandles(c, event)

Rest(c, event) == IF replay[c] # {} THEN live ELSE [live EXCEPT ![c] = @ \ {event}]

LEMMA DeliverHandles ==
  ASSUME NEW c \in Calls, Deliver(c)
  PROVE  \E event \in Pending(c) :
            /\ Handles(c, event)
            /\ replay' = [replay EXCEPT ![c] = @ \ {event}]
            /\ sub' = [sub EXCEPT ![c] = IF replay[c] # {} /\ CallCtxDone(c)
                                         THEN "closed" ELSE "open"]
            /\ \/ live' = Rest(c, event) /\ UNCHANGED stored
               \/ RequestKill(Unneeded(c, event), Rest(c, event))
BY DEF Deliver, Handles, Rest

\* By the disjuncts of Next.
LEMMA StepTyped ==
  ASSUME Typed, InOrder, [Next]_vars
  PROVE  Typed'
<1>. USE DEF Typed, Points, GoTo, Return, callVars, busVars, subVars, nodeVars
<1>1. ASSUME NEW c \in Calls, Skip(c) PROVE Typed'
  BY <1>1 DEF Skip
<1>2. ASSUME NEW c \in Calls, Enter(c) PROVE Typed'
  BY <1>2 DEF Enter
<1>3. ASSUME NEW c \in Calls, NotStarted(c) PROVE Typed'
  BY <1>3 DEF NotStarted
<1>4. ASSUME NEW c \in Calls, Start(c) PROVE Typed'
  <2>1. Other \in [Calls -> Events]
    BY DEF Other, Events
  <2>2. stored' \in [Calls -> SUBSET Events] /\ live' \in [Calls -> SUBSET Events]
    BY <1>4, <2>1, PublishTyped DEF Start
  <2>. QED
    BY <1>4, <2>2 DEF Start
<1>5. ASSUME NEW c \in Calls, Panic(c) PROVE Typed'
  BY <1>5 DEF Panic
<1>6. ASSUME NEW c \in Calls, End(c) PROVE Typed'
  <2>1. Ended(c) \in [Calls -> Events]
    BY DEF Ended, Events
  <2>2. stored' \in [Calls -> SUBSET Events] /\ live' \in [Calls -> SUBSET Events]
    BY <1>6, <2>1, PublishTyped DEF End
  <2>. QED
    BY <1>6, <2>2 DEF End, OutcomeOf
<1>7. ASSUME NEW c \in Calls, ContainerReturns(c) PROVE Typed'
  <2>1. PICK r \in {"ok", "err"} : Return(c, r)
    BY <1>7 DEF ContainerReturns, Results
  <2>. QED
    BY <1>7, <2>1 DEF ContainerReturns
<1>8. ASSUME NEW c \in Calls, CallOp(c) PROVE Typed'
  BY <1>8 DEF CallOp
<1>9. ASSUME NEW c \in Calls, OpReturns(c) PROVE Typed'
  <2>1. PICK r \in {"ok", "err"} : Return(c, r)
    BY <1>9 DEF OpReturns, Results
  <2>. QED
    BY <1>9, <2>1 DEF OpReturns
<1>10. ASSUME NEW c \in Calls, CallNext(c) PROVE Typed'
  BY <1>10 DEF CallNext
<1>11. ASSUME NEW c \in Calls, Await(c) PROVE Typed'
  BY <1>11 DEF Await
<1>12. ASSUME NEW c \in Calls, SerialReturns(c) PROVE Typed'
  BY <1>12 DEF SerialReturns
<1>13. ASSUME NEW c \in Calls, LaunchAll(c) PROVE Typed'
  BY <1>13 DEF LaunchAll
<1>14. ASSUME NEW c \in Calls, LaunchNext(c) PROVE Typed'
  BY <1>14 DEF LaunchNext
<1>15. ASSUME NEW c \in Calls, Deliver(c) PROVE Typed'
  <2>1. PICK event \in Pending(c) :
           /\ Handles(c, event)
           /\ replay' = [replay EXCEPT ![c] = @ \ {event}]
           /\ sub' = [sub EXCEPT ![c] = IF replay[c] # {} /\ CallCtxDone(c)
                                        THEN "closed" ELSE "open"]
           /\ \/ live' = Rest(c, event) /\ UNCHANGED stored
              \/ RequestKill(Unneeded(c, event), Rest(c, event))
    BY <1>15, DeliverHandles
  <2>. DEFINE rest == Rest(c, event)
  <2>2. rest \in [Calls -> SUBSET Events]
    BY DEF Rest
  <2>3. stored' \in [Calls -> SUBSET Events] /\ live' \in [Calls -> SUBSET Events]
    <3>1. CASE live' = rest /\ UNCHANGED stored
      BY <2>2, <3>1
    <3>2. CASE RequestKill(Unneeded(c, event), rest)
      BY <2>2, <3>2, RequestTyped
    <3>. QED
      BY <2>1, <3>1, <3>2
  <2>4. pc' \in [Calls -> Points] /\ next' \in [Calls -> Nat \ {0}] /\ seen' \in [Calls -> SUBSET Calls]
    <3>1. CASE SerialHandles(c, event)
      BY <3>1 DEF SerialHandles
    <3>2. CASE ParallelHandles(c, event)
      <4>1. SeenAfter(c, event) \subseteq Calls
        BY OpFacts DEF SeenAfter
      <4>. QED
        BY <3>2, <4>1 DEF ParallelHandles
    <3>. QED
      BY <2>1, <3>1, <3>2 DEF Handles
  <2>5. ret' \in [Calls -> {"none", "ok", "err", "panic"}] /\ UNCHANGED <<op, outcome, killed>>
    BY <1>15, <2>1 DEF Deliver, Handles, SerialHandles, ParallelHandles
  <2>6. /\ replay' \in [Calls -> SUBSET Events]
        /\ sub' \in [Calls -> {"none", "since", "spawned", "registered", "open", "closed"}]
    BY <2>1
  <2>. QED
    BY <2>3, <2>4, <2>5, <2>6
<1>16. ASSUME NEW c \in Calls, ChannelClosed(c) PROVE Typed'
  BY <1>16 DEF ChannelClosed
<1>17. ASSUME NEW c \in Calls, Register(c) PROVE Typed'
  BY <1>17 DEF Register
<1>18. ASSUME NEW c \in Calls, Snapshot(c) PROVE Typed'
  BY <1>18 DEF Snapshot
<1>19. ASSUME NEW c \in Calls, Close(c) PROVE Typed'
  BY <1>19 DEF Close
<1>20. ASSUME NEW c \in Calls, HearKill(c) PROVE Typed'
  BY <1>20 DEF HearKill
<1>21. ASSUME NEW c \in Calls, Kill(c) PROVE Typed'
  <2>1. stored' \in [Calls -> SUBSET Events] /\ live' \in [Calls -> SUBSET Events]
    BY <1>21, RequestTyped DEF Kill
  <2>. QED
    BY <1>21, <2>1 DEF Kill
<1>22. ASSUME NEW c \in Calls, KillOp(c) PROVE Typed'
  <2>1. stored' \in [Calls -> SUBSET Events] /\ live' \in [Calls -> SUBSET Events]
    BY <1>22, RequestTyped DEF KillOp
  <2>. QED
    BY <1>22, <2>1 DEF KillOp
<1>23. ASSUME UNCHANGED vars PROVE Typed'
  BY <1>23 DEF vars, callVars, busVars, subVars, nodeVars
<1>. HIDE DEF Typed
<1>. QED
  BY <1>1, <1>2, <1>3, <1>4, <1>5, <1>6, <1>7, <1>8, <1>9, <1>10, <1>11, <1>12, <1>13, <1>14, <1>15, <1>16, <1>17, <1>18, <1>19, <1>20, <1>21, <1>22, <1>23 DEF Next, CallStep, SubStep

\* The op is what it is.
LEMMA OpStays ==
  ASSUME [Next]_vars
  PROVE  /\ op' = op /\ Kind' = Kind /\ Children' = Children
         /\ \A c \in Calls : Offspring(c)' = Offspring(c)
<1>1. op' = op
  BY DEF Next, CallStep, SubStep, vars, callVars, busVars, subVars, nodeVars, Skip, Enter, NotStarted,
         Start, Panic, End, ContainerReturns, CallOp, OpReturns, CallNext, Await, SerialReturns,
         LaunchAll, LaunchNext, Deliver, ChannelClosed, Register, Snapshot, Close, HearKill, Kill, KillOp
<1>. QED
  BY <1>1 DEF Kind, Children, Offspring, OffspringIn
\* The child that is called next was not made yet, nor were a parallel call's.
LEMMA NextIsIdle ==
  ASSUME Typed, InOrder, NEW p \in Calls, pc[p] = "started"
  PROVE  /\ HasChild(p) => /\ Child(p) \in Offspring(p)
                           /\ Child(p) \in Calls
                           /\ pc[Child(p)] = "idle"
                           /\ Child(p) # p
         /\ Kind[p] = "parallel" =>
               \A d \in Offspring(p) : d \in Calls /\ pc[d] = "idle" /\ d # p
<1>1. op \in Ops /\ next[p] \in Nat
  BY DEF Typed
<1>2. \A i \in DOMAIN Children[p] : i = next[p] => pc[Children[p][i]] = "idle"
  BY <1>1, OpFacts DEF InOrder, InTurn, Unmade, IsParallel
<1>3. Kind[p] = "parallel" => \A i \in DOMAIN Children[p] : pc[Children[p][i]] = "idle"
  BY <1>1, OpFacts DEF InOrder, InTurn, Unmade
<1>4. Kind[p] = "parallel" => \A d \in Offspring(p) : d \in Calls /\ pc[d] = "idle"
  BY <1>1, <1>3, OpFacts
<1>. QED
  BY <1>1, <1>2, <1>4, OpFacts DEF HasChild, Child

\* The calls a panic unwinds are calling.
LEMMA UnwoundCall ==
  ASSUME Typed, OneRuns, NEW c \in Calls, pc[c] = "returning", NEW p \in Unwound(c)
  PROVE  p \in Calls /\ c \in Offspring(p) /\ ~IsParallel(p) /\ pc[p] = "calling" /\ p # c
<1>1. p \in Calls /\ c \in Offspring(p) /\ ~IsParallel(p)
  BY DEF Unwound, Parents, ParentsIn, Offspring
<1>2. PICK i \in DOMAIN Children[p] : c = Children[p][i]
  BY <1>1, OpFacts DEF Typed
<1>. QED
  BY <1>1, <1>2 DEF OneRuns


\* By the disjuncts of Next.
LEMMA StepOutcomes ==
  ASSUME CallsInv, [Next]_vars
  PROVE  Outcomes'
<1>. USE DEF CallsInv, Typed, Points, Outcomes, Returned, GoTo, Return, callVars, busVars, subVars, nodeVars
<1>1. ASSUME NEW c \in Calls, Skip(c) PROVE Outcomes'
  BY <1>1 DEF Skip
<1>2. ASSUME NEW c \in Calls, Enter(c) PROVE Outcomes'
  BY <1>2 DEF Enter
<1>3. ASSUME NEW c \in Calls, NotStarted(c) PROVE Outcomes'
  BY <1>3 DEF NotStarted
<1>4. ASSUME NEW c \in Calls, Start(c) PROVE Outcomes'
  BY <1>4 DEF Start
<1>5. ASSUME NEW c \in Calls, Panic(c) PROVE Outcomes'
  BY <1>5 DEF Panic
<1>6. ASSUME NEW c \in Calls, End(c) PROVE Outcomes'
  <2>1. \A p \in Unwound(c) : p \in Calls /\ pc[p] = "calling" /\ p # c
    BY <1>6, UnwoundCall DEF End
  <2>2. OutcomeOf(c) \in {"killed", "failed", "succeeded"} /\ (OutcomeOf(c) = "failed" => ret[c] = "err")
        /\ (ret[c] = "err" => OutcomeOf(c) \in {"failed", "killed"})
    BY DEF OutcomeOf
  <2>. QED
    BY <1>6, <2>1, <2>2 DEF End
<1>7. ASSUME NEW c \in Calls, ContainerReturns(c) PROVE Outcomes'
  <2>1. PICK r \in {"ok", "err"} : Return(c, r)
    BY <1>7 DEF ContainerReturns, Results
  <2>. QED
    BY <1>7, <2>1 DEF ContainerReturns
<1>8. ASSUME NEW c \in Calls, CallOp(c) PROVE Outcomes'
  BY <1>8, NextIsIdle DEF CallOp
<1>9. ASSUME NEW c \in Calls, OpReturns(c) PROVE Outcomes'
  <2>1. PICK r \in {"ok", "err"} : Return(c, r)
    BY <1>9 DEF OpReturns, Results
  <2>. QED
    BY <1>9, <2>1 DEF OpReturns
<1>10. ASSUME NEW c \in Calls, CallNext(c) PROVE Outcomes'
  BY <1>10, NextIsIdle DEF CallNext
<1>11. ASSUME NEW c \in Calls, Await(c) PROVE Outcomes'
  BY <1>11 DEF Await
<1>12. ASSUME NEW c \in Calls, SerialReturns(c) PROVE Outcomes'
  BY <1>12 DEF SerialReturns
<1>13. ASSUME NEW c \in Calls, LaunchAll(c) PROVE Outcomes'
  BY <1>13, NextIsIdle DEF LaunchAll
<1>14. ASSUME NEW c \in Calls, LaunchNext(c) PROVE Outcomes'
  BY <1>14, NextIsIdle DEF LaunchNext
<1>15. ASSUME NEW c \in Calls, Deliver(c) PROVE Outcomes'
  BY <1>15 DEF Deliver, SerialHandles, ParallelHandles
<1>16. ASSUME NEW c \in Calls, ChannelClosed(c) PROVE Outcomes'
  BY <1>16 DEF ChannelClosed
<1>17. ASSUME NEW c \in Calls, Register(c) PROVE Outcomes'
  BY <1>17 DEF Register
<1>18. ASSUME NEW c \in Calls, Snapshot(c) PROVE Outcomes'
  BY <1>18 DEF Snapshot
<1>19. ASSUME NEW c \in Calls, Close(c) PROVE Outcomes'
  BY <1>19 DEF Close
<1>20. ASSUME NEW c \in Calls, HearKill(c) PROVE Outcomes'
  BY <1>20 DEF HearKill
<1>21. ASSUME NEW c \in Calls, Kill(c) PROVE Outcomes'
  BY <1>21 DEF Kill
<1>22. ASSUME NEW c \in Calls, KillOp(c) PROVE Outcomes'
  BY <1>22 DEF KillOp
<1>23. ASSUME UNCHANGED vars PROVE Outcomes'
  BY <1>23 DEF vars, callVars, busVars, subVars, nodeVars
<1>. HIDE DEF Outcomes
<1>. QED
  BY <1>1, <1>2, <1>3, <1>4, <1>5, <1>6, <1>7, <1>8, <1>9, <1>10, <1>11, <1>12, <1>13, <1>14, <1>15, <1>16, <1>17, <1>18, <1>19, <1>20, <1>21, <1>22, <1>23 DEF Next, CallStep, SubStep

\* By the disjuncts of Next.
LEMMA StepOneRuns ==
  ASSUME CallsInv, Typed', [Next]_vars, NEW p \in Calls, NEW i \in DOMAIN Children[p], ~IsParallel(p),
         pc'[Children[p][i]] \notin {"idle", "noop", "ended"}
  PROVE  pc'[p] = "calling" /\ i = next'[p]
<1>. DEFINE d == Children[p][i]
            Made == pc[p] = "calling" /\ i = next[p]
<1>a. /\ d \in Calls /\ d \in Offspring(p)
      /\ \A q \in Calls : \A j \in DOMAIN Children[q] : Children[q][j] = d => q = p /\ j = i
  BY OpFacts DEF CallsInv, Typed
<1>b. pc'[d] \notin {"idle", "noop", "ended"} /\ p \in Calls /\ i \in DOMAIN Children[p] /\ ~IsParallel(p)
  OBVIOUS
<1>c. pc[d] \notin {"idle", "noop", "ended"} => Made
  BY DEF CallsInv, OneRuns
<1>. HIDE DEF d
<1>. USE DEF CallsInv, Typed, Points, GoTo, Return, callVars, busVars, subVars, nodeVars
<1>1. ASSUME NEW c \in Calls, Skip(c) PROVE Made'
  BY <1>a, <1>b, <1>c, <1>1 DEF Skip
<1>2. ASSUME NEW c \in Calls, Enter(c) PROVE Made'
  BY <1>a, <1>b, <1>c, <1>2 DEF Enter
<1>3. ASSUME NEW c \in Calls, NotStarted(c) PROVE Made'
  BY <1>a, <1>b, <1>c, <1>3 DEF NotStarted
<1>4. ASSUME NEW c \in Calls, Start(c) PROVE Made'
  BY <1>a, <1>b, <1>c, <1>4 DEF Start
<1>5. ASSUME NEW c \in Calls, Panic(c) PROVE Made'
  BY <1>a, <1>b, <1>c, <1>5 DEF Panic
<1>6. ASSUME NEW c \in Calls, End(c) PROVE Made'
  <2>1. \A q \in Unwound(c) : q \in Calls /\ c \in Offspring(q) /\ ~IsParallel(q) /\ pc[q] = "calling" /\ q # c
    BY <1>6, UnwoundCall DEF End
  <2>2. CASE p \notin Unwound(c)
    BY <1>6, <1>a, <1>b, <1>c, <2>1, <2>2 DEF End
  <2>3. CASE p \in Unwound(c)
    <3>1. PICK j \in DOMAIN Children[p] : c = Children[p][j]
      BY <2>1, <2>3, OpFacts
    <3>2. d # c => j = next[p]
      BY <1>6, <2>1, <2>3, <3>1 DEF End, OneRuns
    <3>. QED
      BY <1>6, <1>a, <1>b, <1>c, <2>1, <2>3, <3>1, <3>2 DEF End
  <2>. QED
    BY <2>2, <2>3
<1>7. ASSUME NEW c \in Calls, ContainerReturns(c) PROVE Made'
  <2>1. PICK r \in {"ok", "err"} : Return(c, r)
    BY <1>7 DEF ContainerReturns, Results
  <2>. QED
    BY <1>7, <1>a, <1>b, <1>c, <2>1 DEF ContainerReturns
<1>8. ASSUME NEW c \in Calls, CallOp(c) PROVE Made'
  <2>1. HasChild(c) => Child(c) \in Calls /\ pc[Child(c)] = "idle" /\ Child(c) # c
    BY <1>8, NextIsIdle DEF CallOp
  <2>2. HasChild(c) /\ Child(c) = d => c = p /\ next[c] = i
    BY <1>a DEF HasChild, Child
  <2>. QED
    BY <1>8, <1>a, <1>b, <1>c, <2>1, <2>2 DEF CallOp, IsSerial, IsParallel
<1>9. ASSUME NEW c \in Calls, OpReturns(c) PROVE Made'
  <2>1. HasChild(c) /\ pc[Child(c)] \in {"ended", "noop"}
    BY <1>9 DEF OpReturns, InOrder, HasCalled, IsParallel, IsSerial
  <2>2. c = p => pc[d] \in {"idle", "noop", "ended"}
    BY <1>9, <1>b, <1>c, <2>1 DEF OpReturns, Child, d
  <2>3. PICK r \in {"ok", "err"} : Return(c, r)
    BY <1>9 DEF OpReturns, Results
  <2>. QED
    BY <1>9, <1>a, <1>b, <1>c, <2>1, <2>2, <2>3 DEF OpReturns
<1>10. ASSUME NEW c \in Calls, CallNext(c) PROVE Made'
  <2>1. HasChild(c) => Child(c) \in Calls /\ pc[Child(c)] = "idle" /\ Child(c) # c
    BY <1>10, NextIsIdle DEF CallNext
  <2>2. HasChild(c) /\ Child(c) = d => c = p /\ next[c] = i
    BY <1>a DEF HasChild, Child
  <2>. QED
    BY <1>10, <1>a, <1>b, <1>c, <2>1, <2>2 DEF CallNext, IsSerial, IsParallel
<1>11. ASSUME NEW c \in Calls, Await(c) PROVE Made'
  <2>1. HasChild(c) /\ pc[Child(c)] \in {"ended", "noop"}
    BY <1>11 DEF Await, InOrder, HasCalled, IsParallel, IsSerial
  <2>2. c = p => pc[d] \in {"idle", "noop", "ended"}
    BY <1>11, <1>b, <1>c, <2>1 DEF Await, Child, d
  <2>. QED
    BY <1>11, <1>a, <1>b, <1>c, <2>1, <2>2 DEF Await
<1>12. ASSUME NEW c \in Calls, SerialReturns(c) PROVE Made'
  BY <1>a, <1>b, <1>c, <1>12 DEF SerialReturns
<1>13. ASSUME NEW c \in Calls, LaunchAll(c) PROVE Made'
  <2>1. \A e \in Offspring(c) : pc[e] = "idle"
    BY <1>13, NextIsIdle DEF LaunchAll
  <2>2. d \in Offspring(c) => c = p
    BY <1>13, <1>a, OpFacts
  <2>. QED
    BY <1>13, <1>a, <1>b, <1>c, <2>1, <2>2 DEF LaunchAll, IsParallel
<1>14. ASSUME NEW c \in Calls, LaunchNext(c) PROVE Made'
  <2>1. HasChild(c) => Child(c) \in Calls /\ pc[Child(c)] = "idle" /\ Child(c) # c
    BY <1>14, NextIsIdle DEF LaunchNext
  <2>2. HasChild(c) /\ Child(c) = d => c = p /\ next[c] = i
    BY <1>a DEF HasChild, Child
  <2>. QED
    BY <1>14, <1>a, <1>b, <1>c, <2>1, <2>2 DEF LaunchNext, IsSerial, IsParallel
<1>15. ASSUME NEW c \in Calls, Deliver(c) PROVE Made'
  BY <1>15, <1>a, <1>b, <1>c DEF Deliver, SerialHandles, ParallelHandles
<1>16. ASSUME NEW c \in Calls, ChannelClosed(c) PROVE Made'
  BY <1>a, <1>b, <1>c, <1>16 DEF ChannelClosed
<1>17. ASSUME NEW c \in Calls, Register(c) PROVE Made'
  BY <1>a, <1>b, <1>c, <1>17 DEF Register
<1>18. ASSUME NEW c \in Calls, Snapshot(c) PROVE Made'
  BY <1>a, <1>b, <1>c, <1>18 DEF Snapshot
<1>19. ASSUME NEW c \in Calls, Close(c) PROVE Made'
  BY <1>a, <1>b, <1>c, <1>19 DEF Close
<1>20. ASSUME NEW c \in Calls, HearKill(c) PROVE Made'
  BY <1>a, <1>b, <1>c, <1>20 DEF HearKill
<1>21. ASSUME NEW c \in Calls, Kill(c) PROVE Made'
  BY <1>a, <1>b, <1>c, <1>21 DEF Kill
<1>22. ASSUME NEW c \in Calls, KillOp(c) PROVE Made'
  BY <1>a, <1>b, <1>c, <1>22 DEF KillOp
<1>23. ASSUME UNCHANGED vars PROVE Made'
  BY <1>a, <1>b, <1>c, <1>23 DEF vars, callVars, busVars, subVars, nodeVars
<1>. QED
  BY <1>1, <1>2, <1>3, <1>4, <1>5, <1>6, <1>7, <1>8, <1>9, <1>10, <1>11, <1>12, <1>13, <1>14, <1>15, <1>16, <1>17, <1>18, <1>19, <1>20, <1>21, <1>22, <1>23 DEF Next, CallStep, SubStep

\* By the disjuncts of Next.
LEMMA StepInTurn ==
  ASSUME CallsInv, Typed', [Next]_vars, NEW p \in Calls, NEW i \in DOMAIN Children[p]
  PROVE  InTurn(p, i)'
<1>. DEFINE d == Children[p][i]
            Turn ==
              /\ (Kind[p] = "container" \/ pc[p] \in Unmade) => pc[d] = "idle"
              /\ (Kind[p] = "parallel" /\ pc[p] = "started") => pc[d] = "idle"
              /\ (Kind[p] = "parallelLoop" /\ i >= next[p]) => pc[d] = "idle"
              /\ ~IsParallel(p) =>
                    /\ i > next[p] => pc[d] = "idle"
                    /\ (i = next[p] /\ pc[p] = "started") => pc[d] = "idle"
                    /\ (i = next[p] /\ pc[p] = "awaiting") => Over(d)
                    /\ i < next[p] => Over(d)
<1>a. /\ d \in Calls /\ d \in Offspring(p) /\ i \in Nat /\ op \in Ops
      /\ \A q \in Calls : \A j \in DOMAIN Children[q] : Children[q][j] = d => q = p /\ j = i
  BY OpFacts DEF CallsInv, Typed
<1>k. Kind' = Kind /\ d' = d
  BY OpStays
<1>c. Turn
  BY DEF CallsInv, InOrder, InTurn
<1>0. Turn' => InTurn(p, i)'
  BY DEF InTurn
<1>. HIDE DEF d
<1>. USE DEF CallsInv, Typed, Points, Unmade, IsParallel, Over, GoTo, Return,
         callVars, busVars, subVars, nodeVars
<1>1. ASSUME NEW c \in Calls, Skip(c) PROVE Turn'
  BY <1>a, <1>c, <1>k, <1>1 DEF Skip
<1>2. ASSUME NEW c \in Calls, Enter(c) PROVE Turn'
  BY <1>a, <1>c, <1>k, <1>2 DEF Enter
<1>3. ASSUME NEW c \in Calls, NotStarted(c) PROVE Turn'
  BY <1>a, <1>c, <1>k, <1>3 DEF NotStarted
<1>4. ASSUME NEW c \in Calls, Start(c) PROVE Turn'
  BY <1>a, <1>c, <1>k, <1>4 DEF Start
<1>5. ASSUME NEW c \in Calls, Panic(c) PROVE Turn'
  BY <1>a, <1>c, <1>k, <1>5 DEF Panic
<1>6. ASSUME NEW c \in Calls, End(c) PROVE Turn'
  <2>1. \A q \in Unwound(c) : q \in Calls /\ ~IsParallel(q) /\ pc[q] = "calling" /\ q # c
    BY <1>6, UnwoundCall DEF End
  <2>. QED
    BY <1>6, <1>a, <1>c, <1>k, <2>1 DEF End
<1>7. ASSUME NEW c \in Calls, ContainerReturns(c) PROVE Turn'
  <2>1. PICK r \in {"ok", "err"} : Return(c, r)
    BY <1>7 DEF ContainerReturns, Results
  <2>. QED
    BY <1>7, <1>a, <1>c, <1>k, <2>1 DEF ContainerReturns
<1>8. ASSUME NEW c \in Calls, CallOp(c) PROVE Turn'
  <2>1. HasChild(c) => Child(c) \in Calls /\ pc[Child(c)] = "idle" /\ Child(c) # c
    BY <1>8, NextIsIdle DEF CallOp
  <2>2. HasChild(c) /\ Child(c) = d => c = p /\ next[c] = i
    BY <1>a DEF HasChild, Child
  <2>. QED
    BY <1>8, <1>a, <1>c, <1>k, <2>1, <2>2 DEF CallOp, IsSerial
<1>9. ASSUME NEW c \in Calls, OpReturns(c) PROVE Turn'
  <2>1. c = p /\ i = next[c] => Over(d)
    BY <1>9 DEF OpReturns, Child, Over, d
  <2>3. PICK r \in {"ok", "err"} : Return(c, r)
    BY <1>9 DEF OpReturns, Results
  <2>. QED
    BY <1>9, <1>a, <1>c, <1>k, <2>1, <2>3 DEF OpReturns, IsSerial
<1>10. ASSUME NEW c \in Calls, CallNext(c) PROVE Turn'
  <2>1. HasChild(c) => Child(c) \in Calls /\ pc[Child(c)] = "idle" /\ Child(c) # c
    BY <1>10, NextIsIdle DEF CallNext
  <2>2. HasChild(c) /\ Child(c) = d => c = p /\ next[c] = i
    BY <1>a DEF HasChild, Child
  <2>. QED
    BY <1>10, <1>a, <1>c, <1>k, <2>1, <2>2 DEF CallNext, IsSerial
<1>11. ASSUME NEW c \in Calls, Await(c) PROVE Turn'
  <2>1. c = p /\ i = next[c] => Over(d)
    BY <1>11 DEF Await, Child, Over, d
  <2>. QED
    BY <1>11, <1>a, <1>c, <1>k, <2>1 DEF Await, IsSerial
<1>12. ASSUME NEW c \in Calls, SerialReturns(c) PROVE Turn'
  BY <1>a, <1>c, <1>k, <1>12 DEF SerialReturns
<1>13. ASSUME NEW c \in Calls, LaunchAll(c) PROVE Turn'
  <2>1. \A e \in Offspring(c) : pc[e] = "idle" /\ e # c
    BY <1>13, NextIsIdle DEF LaunchAll
  <2>2. d \in Offspring(c) => c = p
    BY <1>13, <1>a, OpFacts
  <2>. QED
    BY <1>13, <1>a, <1>c, <1>k, <2>1, <2>2 DEF LaunchAll
<1>14. ASSUME NEW c \in Calls, LaunchNext(c) PROVE Turn'
  <2>1. HasChild(c) => Child(c) \in Calls /\ pc[Child(c)] = "idle" /\ Child(c) # c
    BY <1>14, NextIsIdle DEF LaunchNext
  <2>2. HasChild(c) /\ Child(c) = d => c = p /\ next[c] = i
    BY <1>a DEF HasChild, Child
  <2>. QED
    BY <1>14, <1>a, <1>c, <1>k, <2>1, <2>2 DEF LaunchNext, IsSerial
<1>15. ASSUME NEW c \in Calls, Deliver(c) PROVE Turn'
  <2>1. PICK event \in Pending(c) : Handles(c, event)
    BY <1>15, DeliverHandles
  <2>2. CASE IsSerial(c) /\ SerialHandles(c, event)
    BY <1>15, <1>a, <1>c, <1>k, <2>2 DEF Deliver, SerialHandles, IsSerial
  <2>3. CASE IsParallel(c) /\ ParallelHandles(c, event)
    BY <1>15, <1>a, <1>c, <1>k, <2>3 DEF Deliver, ParallelHandles
  <2>. QED
    BY <2>1, <2>2, <2>3 DEF Handles
<1>16. ASSUME NEW c \in Calls, ChannelClosed(c) PROVE Turn'
  BY <1>16, <1>a, <1>c, <1>k DEF ChannelClosed, IsSerial
<1>17. ASSUME NEW c \in Calls, Register(c) PROVE Turn'
  BY <1>a, <1>c, <1>k, <1>17 DEF Register
<1>18. ASSUME NEW c \in Calls, Snapshot(c) PROVE Turn'
  BY <1>a, <1>c, <1>k, <1>18 DEF Snapshot
<1>19. ASSUME NEW c \in Calls, Close(c) PROVE Turn'
  BY <1>a, <1>c, <1>k, <1>19 DEF Close
<1>20. ASSUME NEW c \in Calls, HearKill(c) PROVE Turn'
  BY <1>a, <1>c, <1>k, <1>20 DEF HearKill
<1>21. ASSUME NEW c \in Calls, Kill(c) PROVE Turn'
  BY <1>a, <1>c, <1>k, <1>21 DEF Kill
<1>22. ASSUME NEW c \in Calls, KillOp(c) PROVE Turn'
  BY <1>a, <1>c, <1>k, <1>22 DEF KillOp
<1>23. ASSUME UNCHANGED vars PROVE Turn'
  BY <1>a, <1>c, <1>k, <1>23 DEF vars, callVars, busVars, subVars, nodeVars
<1>. HIDE DEF Turn
<1>. QED
  BY <1>0, <1>1, <1>2, <1>3, <1>4, <1>5, <1>6, <1>7, <1>8, <1>9, <1>10, <1>11, <1>12, <1>13, <1>14, <1>15, <1>16, <1>17, <1>18, <1>19, <1>20, <1>21, <1>22, <1>23 DEF Next, CallStep, SubStep

\* By the disjuncts of Next.
LEMMA StepHasCalled ==
  ASSUME CallsInv, Typed', [Next]_vars, NEW p \in Calls
  PROVE  HasCalled(p)'
<1>a. HasCalled(p) /\ op \in Ops
  BY DEF CallsInv, InOrder, Typed
<1>k. Kind' = Kind /\ Children' = Children
  BY OpStays
<1>. USE DEF CallsInv, Typed, HasCalled, HasChild, IsParallel, GoTo, Return,
         callVars, busVars, subVars, nodeVars
<1>1. ASSUME NEW c \in Calls, Skip(c) PROVE HasCalled(p)'
  BY <1>a, <1>k, <1>1 DEF Skip
<1>2. ASSUME NEW c \in Calls, Enter(c) PROVE HasCalled(p)'
  BY <1>a, <1>k, <1>2 DEF Enter
<1>3. ASSUME NEW c \in Calls, NotStarted(c) PROVE HasCalled(p)'
  BY <1>a, <1>k, <1>3 DEF NotStarted
<1>4. ASSUME NEW c \in Calls, Start(c) PROVE HasCalled(p)'
  BY <1>a, <1>k, <1>4 DEF Start
<1>5. ASSUME NEW c \in Calls, Panic(c) PROVE HasCalled(p)'
  BY <1>a, <1>k, <1>5 DEF Panic
<1>6. ASSUME NEW c \in Calls, End(c) PROVE HasCalled(p)'
  BY <1>a, <1>k, <1>6 DEF End
<1>7. ASSUME NEW c \in Calls, ContainerReturns(c) PROVE HasCalled(p)'
  BY <1>7, <1>a, <1>k DEF ContainerReturns
<1>8. ASSUME NEW c \in Calls, CallOp(c) PROVE HasCalled(p)'
  BY <1>a, <1>k, <1>8 DEF CallOp
<1>9. ASSUME NEW c \in Calls, OpReturns(c) PROVE HasCalled(p)'
  BY <1>a, <1>k, <1>9 DEF OpReturns
<1>10. ASSUME NEW c \in Calls, CallNext(c) PROVE HasCalled(p)'
  BY <1>a, <1>k, <1>10 DEF CallNext
<1>11. ASSUME NEW c \in Calls, Await(c) PROVE HasCalled(p)'
  BY <1>a, <1>k, <1>11 DEF Await
<1>12. ASSUME NEW c \in Calls, SerialReturns(c) PROVE HasCalled(p)'
  BY <1>a, <1>k, <1>12 DEF SerialReturns
<1>13. ASSUME NEW c \in Calls, LaunchAll(c) PROVE HasCalled(p)'
  BY <1>a, <1>k, <1>13 DEF LaunchAll
<1>14. ASSUME NEW c \in Calls, LaunchNext(c) PROVE HasCalled(p)'
  BY <1>a, <1>k, <1>14 DEF LaunchNext
<1>15. ASSUME NEW c \in Calls, Deliver(c) PROVE HasCalled(p)'
  BY <1>15, <1>a, <1>k DEF Deliver, SerialHandles, ParallelHandles, IsSerial
<1>16. ASSUME NEW c \in Calls, ChannelClosed(c) PROVE HasCalled(p)'
  BY <1>a, <1>k, <1>16 DEF ChannelClosed
<1>17. ASSUME NEW c \in Calls, Register(c) PROVE HasCalled(p)'
  BY <1>a, <1>k, <1>17 DEF Register
<1>18. ASSUME NEW c \in Calls, Snapshot(c) PROVE HasCalled(p)'
  BY <1>a, <1>k, <1>18 DEF Snapshot
<1>19. ASSUME NEW c \in Calls, Close(c) PROVE HasCalled(p)'
  BY <1>a, <1>k, <1>19 DEF Close
<1>20. ASSUME NEW c \in Calls, HearKill(c) PROVE HasCalled(p)'
  BY <1>a, <1>k, <1>20 DEF HearKill
<1>21. ASSUME NEW c \in Calls, Kill(c) PROVE HasCalled(p)'
  BY <1>a, <1>k, <1>21 DEF Kill
<1>22. ASSUME NEW c \in Calls, KillOp(c) PROVE HasCalled(p)'
  BY <1>a, <1>k, <1>22 DEF KillOp
<1>23. ASSUME UNCHANGED vars PROVE HasCalled(p)'
  BY <1>a, <1>k, <1>23 DEF vars, callVars, busVars, subVars, nodeVars
<1>. HIDE DEF HasCalled
<1>. QED
  BY <1>1, <1>2, <1>3, <1>4, <1>5, <1>6, <1>7, <1>8, <1>9, <1>10, <1>11, <1>12, <1>13, <1>14, <1>15, <1>16, <1>17, <1>18, <1>19, <1>20, <1>21, <1>22, <1>23 DEF Next, CallStep, SubStep

\* What is over, has returned or came out stays so, and a child that was not
\* called is not once its parent no longer calls.
LEMMA StepMoves ==
  ASSUME CallsInv, [Next]_vars, NEW d \in Calls
  PROVE  /\ Over(d) => pc'[d] = pc[d]
         /\ Returned(d) => pc'[d] \in {"returning", "ended"} /\ ret'[d] = ret[d]
         /\ outcome[d] # "none" => outcome'[d] = outcome[d]
         /\ \A p \in Calls : (d \in Offspring(p) /\ pc[d] = "idle"
                             /\ (pc[p] = "started" => pc'[p] = "returning")) => pc'[d] = "idle"
<1>. DEFINE Moves ==
              /\ Over(d) => pc'[d] = pc[d]
              /\ Returned(d) => pc'[d] \in {"returning", "ended"} /\ ret'[d] = ret[d]
              /\ outcome[d] # "none" => outcome'[d] = outcome[d]
              /\ \A p \in Calls : (d \in Offspring(p) /\ pc[d] = "idle"
                             /\ (pc[p] = "started" => pc'[p] = "returning")) => pc'[d] = "idle"
<1>a. outcome[d] # "none" <=> pc[d] = "ended"
  BY DEF CallsInv, Outcomes
<1>b. \A p, q \in Calls : p # q => Offspring(p) \cap Offspring(q) = {}
  BY OpsAssumption DEF CallsInv, Typed, IsOp, Offspring
<1>. USE DEF CallsInv, Typed, Points, Over, Returned, GoTo, Return, callVars, busVars, subVars, nodeVars
<1>1. ASSUME NEW c \in Calls, Skip(c) PROVE Moves
  BY <1>a, <1>b, <1>1 DEF Skip
<1>2. ASSUME NEW c \in Calls, Enter(c) PROVE Moves
  BY <1>a, <1>b, <1>2 DEF Enter
<1>3. ASSUME NEW c \in Calls, NotStarted(c) PROVE Moves
  BY <1>a, <1>b, <1>3 DEF NotStarted
<1>4. ASSUME NEW c \in Calls, Start(c) PROVE Moves
  BY <1>a, <1>b, <1>4 DEF Start
<1>5. ASSUME NEW c \in Calls, Panic(c) PROVE Moves
  BY <1>a, <1>b, <1>5 DEF Panic
<1>6. ASSUME NEW c \in Calls, End(c) PROVE Moves
  <2>1. \A q \in Unwound(c) : q \in Calls /\ pc[q] = "calling" /\ q # c
    BY <1>6, UnwoundCall DEF End
  <2>. QED
    BY <1>6, <1>a, <1>b, <2>1 DEF End
<1>7. ASSUME NEW c \in Calls, ContainerReturns(c) PROVE Moves
  <2>1. PICK r \in {"ok", "err"} : Return(c, r)
    BY <1>7 DEF ContainerReturns, Results
  <2>. QED
    BY <1>7, <1>a, <1>b, <2>1 DEF ContainerReturns
<1>8. ASSUME NEW c \in Calls, CallOp(c) PROVE Moves
  <2>1. HasChild(c) => Child(c) \in Calls /\ pc[Child(c)] = "idle" /\ Child(c) # c /\ Child(c) \in Offspring(c)
    BY <1>8, NextIsIdle DEF CallOp
  <2>. QED
    BY <1>8, <1>a, <1>b, <2>1 DEF CallOp, IsSerial
<1>9. ASSUME NEW c \in Calls, OpReturns(c) PROVE Moves
  <2>1. PICK r \in {"ok", "err"} : Return(c, r)
    BY <1>9 DEF OpReturns, Results
  <2>. QED
    BY <1>9, <1>a, <1>b, <2>1 DEF OpReturns
<1>10. ASSUME NEW c \in Calls, CallNext(c) PROVE Moves
  <2>1. HasChild(c) => Child(c) \in Calls /\ pc[Child(c)] = "idle" /\ Child(c) # c /\ Child(c) \in Offspring(c)
    BY <1>10, NextIsIdle DEF CallNext
  <2>. QED
    BY <1>10, <1>a, <1>b, <2>1 DEF CallNext, IsSerial
<1>11. ASSUME NEW c \in Calls, Await(c) PROVE Moves
  BY <1>a, <1>b, <1>11 DEF Await
<1>12. ASSUME NEW c \in Calls, SerialReturns(c) PROVE Moves
  BY <1>a, <1>b, <1>12 DEF SerialReturns
<1>13. ASSUME NEW c \in Calls, LaunchAll(c) PROVE Moves
  <2>1. \A e \in Offspring(c) : pc[e] = "idle" /\ e # c
    BY <1>13, NextIsIdle DEF LaunchAll
  <2>. QED
    BY <1>13, <1>a, <1>b, <2>1 DEF LaunchAll
<1>14. ASSUME NEW c \in Calls, LaunchNext(c) PROVE Moves
  <2>1. HasChild(c) => Child(c) \in Calls /\ pc[Child(c)] = "idle" /\ Child(c) # c /\ Child(c) \in Offspring(c)
    BY <1>14, NextIsIdle DEF LaunchNext
  <2>. QED
    BY <1>14, <1>a, <1>b, <2>1 DEF LaunchNext, IsSerial
<1>15. ASSUME NEW c \in Calls, Deliver(c) PROVE Moves
  <2>1. PICK event \in Pending(c) : Handles(c, event)
    BY <1>15, DeliverHandles
  <2>. QED
    BY <1>15, <1>a, <1>b, <2>1 DEF Deliver, Handles, SerialHandles, ParallelHandles
<1>16. ASSUME NEW c \in Calls, ChannelClosed(c) PROVE Moves
  BY <1>a, <1>b, <1>16 DEF ChannelClosed
<1>17. ASSUME NEW c \in Calls, Register(c) PROVE Moves
  BY <1>a, <1>b, <1>17 DEF Register
<1>18. ASSUME NEW c \in Calls, Snapshot(c) PROVE Moves
  BY <1>a, <1>b, <1>18 DEF Snapshot
<1>19. ASSUME NEW c \in Calls, Close(c) PROVE Moves
  BY <1>a, <1>b, <1>19 DEF Close
<1>20. ASSUME NEW c \in Calls, HearKill(c) PROVE Moves
  BY <1>a, <1>b, <1>20 DEF HearKill
<1>21. ASSUME NEW c \in Calls, Kill(c) PROVE Moves
  BY <1>a, <1>b, <1>21 DEF Kill
<1>22. ASSUME NEW c \in Calls, KillOp(c) PROVE Moves
  BY <1>a, <1>b, <1>22 DEF KillOp
<1>23. ASSUME UNCHANGED vars PROVE Moves
  BY <1>a, <1>b, <1>23 DEF vars, callVars, busVars, subVars, nodeVars
<1>. HIDE DEF Moves
<1>0. Moves
  BY <1>1, <1>2, <1>3, <1>4, <1>5, <1>6, <1>7, <1>8, <1>9, <1>10, <1>11, <1>12, <1>13, <1>14, <1>15, <1>16, <1>17, <1>18, <1>19, <1>20, <1>21, <1>22, <1>23 DEF Next, CallStep, SubStep
<1>. QED
  BY <1>0 DEF Moves

\* By the disjuncts of Next.
LEMMA StepEvents ==
  ASSUME CallsInv, Typed', [Next]_vars
  PROVE  EventsAreTrue'
<1>. SUFFICES ASSUME NEW p \in Calls
              PROVE  /\ \A e \in Calls : e \in stored'[p] \cup replay'[p] \cup live'[p] => pc'[e] = "ended"
                     /\ \A e \in seen'[p] : e \in Offspring(p) /\ pc'[e] = "ended"
  BY OpStays DEF EventsAreTrue
<1>. DEFINE Told == /\ \A e \in Calls : e \in stored[p] \cup replay[p] \cup live[p] => pc[e] = "ended"
                    /\ \A e \in seen[p] : e \in Offspring(p) /\ pc[e] = "ended"
<1>a. Told /\ (\A e \in seen[p] : e \in Calls) /\ op \in Ops
  BY DEF CallsInv, EventsAreTrue, Typed
<1>b. (\A e \in Calls : pc[e] = "ended" => pc'[e] = "ended") /\ Offspring(p)' = Offspring(p)
  BY StepMoves, OpStays DEF Over
<1>. USE DEF CallsInv, Typed, GoTo, Return, callVars, busVars, subVars, nodeVars
<1>1. ASSUME NEW c \in Calls, Skip(c) PROVE Told'
  BY <1>a, <1>b, <1>1 DEF Skip
<1>2. ASSUME NEW c \in Calls, Enter(c) PROVE Told'
  BY <1>a, <1>b, <1>2 DEF Enter
<1>3. ASSUME NEW c \in Calls, NotStarted(c) PROVE Told'
  BY <1>a, <1>b, <1>3 DEF NotStarted
<1>4. ASSUME NEW c \in Calls, Start(c) PROVE Told'
  <2>1. Other[p] \notin Calls /\ \A q \in Calls : Other[q] \notin Calls
    BY OpsAssumption DEF Other
  <2>. QED
    BY <1>4, <1>a, <1>b, <2>1 DEF Start, Publish, Stored, Delivered
<1>5. ASSUME NEW c \in Calls, Panic(c) PROVE Told'
  BY <1>a, <1>b, <1>5 DEF Panic
<1>6. ASSUME NEW c \in Calls, End(c) PROVE Told'
  <2>1. pc'[c] = "ended" /\ \A q \in Calls : Ended(c)[q] \in Calls => Ended(c)[q] = c
    <3>1. \A q \in Calls : Ended(c)[q] \in {c, EndedElsewhere}
      BY DEF Ended
    <3>2. EndedElsewhere \notin Calls
      BY OpsAssumption
    <3>3. pc'[c] = "ended"
      BY <1>6, UnwoundCall DEF End
    <3>. QED
      BY <3>1, <3>2, <3>3
  <2>. QED
    BY <1>6, <1>a, <1>b, <2>1 DEF End, Publish, Stored, Delivered
<1>7. ASSUME NEW c \in Calls, ContainerReturns(c) PROVE Told'
  BY <1>a, <1>b, <1>7 DEF ContainerReturns
<1>8. ASSUME NEW c \in Calls, CallOp(c) PROVE Told'
  BY <1>a, <1>b, <1>8 DEF CallOp
<1>9. ASSUME NEW c \in Calls, OpReturns(c) PROVE Told'
  BY <1>a, <1>b, <1>9 DEF OpReturns
<1>10. ASSUME NEW c \in Calls, CallNext(c) PROVE Told'
  BY <1>a, <1>b, <1>10 DEF CallNext
<1>11. ASSUME NEW c \in Calls, Await(c) PROVE Told'
  BY <1>a, <1>b, <1>11 DEF Await
<1>12. ASSUME NEW c \in Calls, SerialReturns(c) PROVE Told'
  BY <1>a, <1>b, <1>12 DEF SerialReturns
<1>13. ASSUME NEW c \in Calls, LaunchAll(c) PROVE Told'
  BY <1>a, <1>b, <1>13 DEF LaunchAll
<1>14. ASSUME NEW c \in Calls, LaunchNext(c) PROVE Told'
  BY <1>a, <1>b, <1>14 DEF LaunchNext
<1>15. ASSUME NEW c \in Calls, Deliver(c) PROVE Told'
  <2>1. Other[p] \notin Calls
    BY OpsAssumption DEF Other
  <2>2. PICK event \in Pending(c) :
           /\ Handles(c, event)
           /\ replay' = [replay EXCEPT ![c] = @ \ {event}]
           /\ \/ live' = Rest(c, event) /\ UNCHANGED stored
              \/ RequestKill(Unneeded(c, event), Rest(c, event))
    BY <1>15, DeliverHandles
  <2>3. event \in Calls => pc[event] = "ended"
    BY DEF Pending, EventsAreTrue
  <2>4. Rest(c, event)[p] \subseteq live[p] /\ replay'[p] \subseteq replay[p]
    BY <2>2 DEF Rest
  <2>5. \A e \in Calls : e \in stored'[p] \cup live'[p] => e \in stored[p] \cup live[p]
    <3>1. CASE live' = Rest(c, event) /\ UNCHANGED stored
      BY <2>4, <3>1
    <3>2. CASE RequestKill(Unneeded(c, event), Rest(c, event))
      BY <2>1, <2>4, <3>2 DEF RequestKill, Stored, Delivered
    <3>. QED
      BY <2>2, <3>1, <3>2
  <2>6. seen'[p] \subseteq seen[p] \cup ({event} \cap Offspring(p))
    BY <2>2 DEF Handles, SerialHandles, ParallelHandles, SeenAfter
  <2>7. Offspring(p) \subseteq Calls
    BY OpFacts
  <2>. QED
    BY <1>a, <1>b, <2>3, <2>4, <2>5, <2>6, <2>7
<1>16. ASSUME NEW c \in Calls, ChannelClosed(c) PROVE Told'
  BY <1>a, <1>b, <1>16 DEF ChannelClosed
<1>17. ASSUME NEW c \in Calls, Register(c) PROVE Told'
  BY <1>a, <1>b, <1>17 DEF Register
<1>18. ASSUME NEW c \in Calls, Snapshot(c) PROVE Told'
  BY <1>a, <1>b, <1>18 DEF Snapshot
<1>19. ASSUME NEW c \in Calls, Close(c) PROVE Told'
  BY <1>a, <1>b, <1>19 DEF Close
<1>20. ASSUME NEW c \in Calls, HearKill(c) PROVE Told'
  BY <1>a, <1>b, <1>20 DEF HearKill
<1>21. ASSUME NEW c \in Calls, Kill(c) PROVE Told'
  <2>1. Other[p] \notin Calls
    BY OpsAssumption DEF Other
  <2>. QED
    BY <1>21, <1>a, <1>b, <2>1 DEF Kill, RequestKill, Stored, Delivered
<1>22. ASSUME NEW c \in Calls, KillOp(c) PROVE Told'
  <2>1. Other[p] \notin Calls
    BY OpsAssumption DEF Other
  <2>. QED
    BY <1>22, <1>a, <1>b, <2>1 DEF KillOp, RequestKill, Stored, Delivered
<1>23. ASSUME UNCHANGED vars PROVE Told'
  BY <1>a, <1>b, <1>23 DEF vars, callVars, busVars, subVars, nodeVars
<1>. HIDE DEF Told
<1>0. Told'
  BY <1>1, <1>2, <1>3, <1>4, <1>5, <1>6, <1>7, <1>8, <1>9, <1>10, <1>11, <1>12, <1>13, <1>14, <1>15, <1>16, <1>17, <1>18, <1>19, <1>20, <1>21, <1>22, <1>23 DEF Next, CallStep, SubStep
<1>. QED
  BY <1>0, <1>b DEF Told

LEMMA StepCalls ==
  ASSUME CallsInv, [Next]_vars
  PROVE  CallsInv'
<1>1. Typed'
  BY StepTyped DEF CallsInv
<1>2. Outcomes'
  BY StepOutcomes
<1>3. OneRuns'
  <2>1. \A p \in Calls : \A i \in DOMAIN Children[p] :
           (~IsParallel(p) /\ pc'[Children[p][i]] \notin {"idle", "noop", "ended"}) =>
               pc'[p] = "calling" /\ i = next'[p]
    BY <1>1, StepOneRuns
  <2>. QED
    BY <2>1, OpStays DEF OneRuns, IsParallel
<1>4. InOrder'
  <2>1. \A p \in Calls : HasCalled(p)' /\ \A i \in DOMAIN Children[p] : InTurn(p, i)'
    BY <1>1, StepHasCalled, StepInTurn
  <2>. QED
    BY <2>1, OpStays DEF InOrder
<1>5. EventsAreTrue'
  BY <1>1, StepEvents
<1>. QED
  BY <1>1, <1>2, <1>3, <1>4, <1>5 DEF CallsInv

LEMMA InitCalls == ASSUME Init PROVE CallsInv
<1>1. Typed
  BY OpFacts DEF Init, Typed, Points
<1>2. Outcomes /\ EventsAreTrue
  BY <1>1 DEF Init, Outcomes, EventsAreTrue, Returned
<1>3. \A p \in Calls : \A i \in DOMAIN Children[p] : pc[Children[p][i]] = "idle"
  BY <1>1, OpFacts DEF Init, Typed
<1>4. OneRuns
  BY <1>3 DEF OneRuns
<1>5. \A p \in Calls : pc[p] \in {"idle", "launched"} /\ next[p] = 1
  BY DEF Init
<1>6. \A p \in Calls : \A i \in DOMAIN Children[p] : i \in Nat /\ i >= 1
  BY <1>1, OpFacts DEF Typed
<1>7. InOrder
  BY <1>3, <1>5, <1>6 DEF InOrder, InTurn, HasCalled
<1>. QED
  BY <1>1, <1>2, <1>4, <1>7 DEF CallsInv


-----------------------------------------------------------------------------
(* Why handlers return *)

\* What only grows.
LEMMA StepGrows ==
  ASSUME CallsInv, [Next]_vars
  PROVE  /\ killed \subseteq killed' /\ stopped \subseteq stopped'
         /\ \A p \in Calls : seen[p] \subseteq seen'[p]
         /\ Above' = Above /\ Fallible' = Fallible /\ Kind' = Kind
<1>. DEFINE Grows == /\ killed \subseteq killed' /\ stopped \subseteq stopped'
                     /\ \A p \in Calls : seen[p] \subseteq seen'[p]
<1>. USE DEF CallsInv, Typed, callVars, busVars, subVars, nodeVars
<1>1. ASSUME NEW c \in Calls, Skip(c) PROVE Grows
  BY <1>1 DEF Skip
<1>2. ASSUME NEW c \in Calls, Enter(c) PROVE Grows
  BY <1>2 DEF Enter
<1>3. ASSUME NEW c \in Calls, NotStarted(c) PROVE Grows
  BY <1>3 DEF NotStarted
<1>4. ASSUME NEW c \in Calls, Start(c) PROVE Grows
  BY <1>4 DEF Start
<1>5. ASSUME NEW c \in Calls, Panic(c) PROVE Grows
  BY <1>5 DEF Panic
<1>6. ASSUME NEW c \in Calls, End(c) PROVE Grows
  BY <1>6 DEF End
<1>7. ASSUME NEW c \in Calls, ContainerReturns(c) PROVE Grows
  BY <1>7 DEF ContainerReturns
<1>8. ASSUME NEW c \in Calls, CallOp(c) PROVE Grows
  BY <1>8 DEF CallOp
<1>9. ASSUME NEW c \in Calls, OpReturns(c) PROVE Grows
  BY <1>9 DEF OpReturns
<1>10. ASSUME NEW c \in Calls, CallNext(c) PROVE Grows
  BY <1>10 DEF CallNext
<1>11. ASSUME NEW c \in Calls, Await(c) PROVE Grows
  BY <1>11 DEF Await
<1>12. ASSUME NEW c \in Calls, SerialReturns(c) PROVE Grows
  BY <1>12 DEF SerialReturns
<1>13. ASSUME NEW c \in Calls, LaunchAll(c) PROVE Grows
  BY <1>13 DEF LaunchAll
<1>14. ASSUME NEW c \in Calls, LaunchNext(c) PROVE Grows
  BY <1>14 DEF LaunchNext
<1>15. ASSUME NEW c \in Calls, Deliver(c) PROVE Grows
  <2>1. PICK event \in Pending(c) : Handles(c, event)
    BY <1>15, DeliverHandles
  <2>. QED
    BY <1>15, <2>1 DEF Deliver, Handles, SerialHandles, ParallelHandles, SeenAfter
<1>16. ASSUME NEW c \in Calls, ChannelClosed(c) PROVE Grows
  BY <1>16 DEF ChannelClosed
<1>17. ASSUME NEW c \in Calls, Register(c) PROVE Grows
  BY <1>17 DEF Register
<1>18. ASSUME NEW c \in Calls, Snapshot(c) PROVE Grows
  BY <1>18 DEF Snapshot
<1>19. ASSUME NEW c \in Calls, Close(c) PROVE Grows
  BY <1>19 DEF Close
<1>20. ASSUME NEW c \in Calls, HearKill(c) PROVE Grows
  BY <1>20 DEF HearKill
<1>21. ASSUME NEW c \in Calls, Kill(c) PROVE Grows
  BY <1>21 DEF Kill
<1>22. ASSUME NEW c \in Calls, KillOp(c) PROVE Grows
  BY <1>22 DEF KillOp
<1>23. ASSUME UNCHANGED vars PROVE Grows
  BY <1>23 DEF vars, callVars, busVars, subVars, nodeVars
<1>. HIDE DEF Grows
<1>a. Grows
  BY <1>1, <1>2, <1>3, <1>4, <1>5, <1>6, <1>7, <1>8, <1>9, <1>10, <1>11, <1>12, <1>13, <1>14, <1>15, <1>16, <1>17, <1>18, <1>19, <1>20, <1>21, <1>22, <1>23 DEF Next, CallStep, SubStep
<1>. QED
  BY <1>a, OpStays DEF Grows, Above, Fallible

\* A context that is done stays done.
LEMMA CancelledStays ==
  ASSUME CallsInv, [Next]_vars, NEW c \in Calls
  PROVE  /\ CtxDone(c) => CtxDone(c)'
         /\ Cancelled(c) => Cancelled(c)'
<1>1. ASSUME NEW p \in Calls, PassesDone(p) PROVE PassesDone(p)'
  <2>1. p \in killed => p \in killed'
    BY StepGrows
  <2>2. pc[p] = "ended" => pc'[p] = "ended"
    BY StepMoves DEF Over
  <2>3. IsParallel(p)' = IsParallel(p) /\ Offspring(p)' = Offspring(p)
    BY OpStays DEF IsParallel
  <2>4. ChildErred(p) => ChildErred(p)'
    <3>1. \A d \in seen[p] : d \in Calls /\ d \in seen'[p]
      BY StepGrows DEF CallsInv, Typed
    <3>2. \A d \in seen[p] : outcome[d] = "failed" => outcome'[d] = "failed"
      BY <3>1, StepMoves
    <3>. QED
      BY <3>1, <3>2 DEF ChildErred
  <2>5. ChildPanicked(p) => ChildPanicked(p)'
    <3>1. \A d \in Offspring(p) : d \in Calls
      BY OpFacts DEF CallsInv, Typed
    <3>2. \A d \in Offspring(p) : (ret[d] = "panic" /\ pc[d] = "ended") => ret'[d] = "panic" /\ pc'[d] = "ended"
      BY <3>1, StepMoves DEF Over, Returned
    <3>. QED
      BY <2>3, <3>2 DEF ChildPanicked
  <2>6. Returned(p) => Returned(p)'
    BY StepMoves DEF Returned
  <2>. QED
    BY <1>1, <2>1, <2>2, <2>3, <2>4, <2>5, <2>6 DEF PassesDone
<1>2. Above' = Above /\ Above[c] \subseteq Calls
  BY StepGrows, OpsAssumption DEF CallsInv, Typed, IsOp, Above
<1>3. CtxDone(c) => CtxDone(c)'
  BY <1>1, <1>2 DEF CtxDone
<1>. QED
  BY <1>3, StepGrows DEF Cancelled


\* A reason stays one, and children that are done stay so once their parent
\* calls no more.
LEMMA ReasonStays ==
  ASSUME CallsInv, [Next]_vars, NEW p \in Calls, Reason(p)
  PROVE  Reason(p)'
<1>1. CASE p \in Fallible \cup stopped
  BY <1>1, StepGrows DEF Reason
<1>2. CASE \E c \in Offspring(p) : outcome[c] = "failed" \/ (Kind[p] = "op" /\ outcome[c] = "killed")
  <2>1. PICK c \in Offspring(p) : outcome[c] = "failed" \/ (Kind[p] = "op" /\ outcome[c] = "killed")
    BY <1>2
  <2>2. c \in Calls /\ outcome'[c] = outcome[c] /\ Kind' = Kind /\ c \in Offspring(p)'
    BY <2>1, OpFacts, StepMoves, OpStays DEF CallsInv, Typed
  <2>. QED
    BY <2>1, <2>2 DEF Reason
<1>. QED
  BY <1>1, <1>2 DEF Reason

LEMMA DoneStays ==
  ASSUME CallsInv, [Next]_vars, NEW p \in Calls, pc[p] = "started" => pc'[p] = "returning", Done(p)
  PROVE  Done(p)'
<1>1. SUFFICES ASSUME NEW c \in Offspring(p)
               PROVE  pc'[c] \in {"idle", "ended"} /\ outcome'[c] # "failed"
  BY OpStays DEF Done
<1>2. c \in Calls /\ pc[c] \in {"idle", "ended"} /\ outcome[c] # "failed"
  BY OpFacts DEF CallsInv, Typed, Done
<1>3. CASE pc[c] = "ended"
  BY <1>2, <1>3, StepMoves DEF Over, CallsInv, Outcomes
<1>4. CASE pc[c] = "idle"
  <2>1. pc'[c] = "idle"
    BY <1>2, <1>4, StepMoves
  <2>2. CallsInv'
    BY StepCalls
  <2>. QED
    BY <1>2, <2>1, <2>2 DEF CallsInv, Outcomes
<1>. QED
  BY <1>2, <1>3, <1>4


\* A call that is skipped has a context that is done.
LEMMA StepNoop ==
  ASSUME CallsInv, ContextsInv, Typed', [Next]_vars, NEW p \in Calls
  PROVE  pc'[p] = "noop" => CtxDone(p)'
<1>a. (pc[p] = "noop" => CtxDone(p)) /\ (CtxDone(p) => CtxDone(p)')
  BY CancelledStays DEF ContextsInv
<1>. USE DEF CallsInv, Typed, GoTo, Return, callVars, busVars, subVars, nodeVars
<1>1. ASSUME NEW c \in Calls, Skip(c) PROVE pc'[p] = "noop" => CtxDone(p)'
  BY <1>a, <1>1 DEF Skip
<1>2. ASSUME NEW c \in Calls, Enter(c) PROVE pc'[p] = "noop" => CtxDone(p)'
  BY <1>a, <1>2 DEF Enter
<1>3. ASSUME NEW c \in Calls, NotStarted(c) PROVE pc'[p] = "noop" => CtxDone(p)'
  BY <1>a, <1>3 DEF NotStarted
<1>4. ASSUME NEW c \in Calls, Start(c) PROVE pc'[p] = "noop" => CtxDone(p)'
  BY <1>a, <1>4 DEF Start
<1>5. ASSUME NEW c \in Calls, Panic(c) PROVE pc'[p] = "noop" => CtxDone(p)'
  BY <1>a, <1>5 DEF Panic
<1>6. ASSUME NEW c \in Calls, End(c) PROVE pc'[p] = "noop" => CtxDone(p)'
  BY <1>a, <1>6 DEF End
<1>7. ASSUME NEW c \in Calls, ContainerReturns(c) PROVE pc'[p] = "noop" => CtxDone(p)'
  <2>1. PICK r \in {"ok", "err"} : Return(c, r)
    BY <1>7 DEF ContainerReturns, Results
  <2>. QED
    BY <1>7, <1>a, <2>1 DEF ContainerReturns
<1>8. ASSUME NEW c \in Calls, CallOp(c) PROVE pc'[p] = "noop" => CtxDone(p)'
  BY <1>a, <1>8 DEF CallOp
<1>9. ASSUME NEW c \in Calls, OpReturns(c) PROVE pc'[p] = "noop" => CtxDone(p)'
  <2>1. PICK r \in {"ok", "err"} : Return(c, r)
    BY <1>9 DEF OpReturns, Results
  <2>. QED
    BY <1>9, <1>a, <2>1 DEF OpReturns
<1>10. ASSUME NEW c \in Calls, CallNext(c) PROVE pc'[p] = "noop" => CtxDone(p)'
  BY <1>a, <1>10 DEF CallNext
<1>11. ASSUME NEW c \in Calls, Await(c) PROVE pc'[p] = "noop" => CtxDone(p)'
  BY <1>a, <1>11 DEF Await
<1>12. ASSUME NEW c \in Calls, SerialReturns(c) PROVE pc'[p] = "noop" => CtxDone(p)'
  BY <1>a, <1>12 DEF SerialReturns
<1>13. ASSUME NEW c \in Calls, LaunchAll(c) PROVE pc'[p] = "noop" => CtxDone(p)'
  BY <1>a, <1>13 DEF LaunchAll
<1>14. ASSUME NEW c \in Calls, LaunchNext(c) PROVE pc'[p] = "noop" => CtxDone(p)'
  BY <1>a, <1>14 DEF LaunchNext
<1>15. ASSUME NEW c \in Calls, Deliver(c) PROVE pc'[p] = "noop" => CtxDone(p)'
  <2>1. PICK event \in Pending(c) : Handles(c, event)
    BY <1>15, DeliverHandles
  <2>. QED
    BY <1>15, <1>a, <2>1 DEF Deliver, Handles, SerialHandles, ParallelHandles
<1>16. ASSUME NEW c \in Calls, ChannelClosed(c) PROVE pc'[p] = "noop" => CtxDone(p)'
  BY <1>a, <1>16 DEF ChannelClosed
<1>17. ASSUME NEW c \in Calls, Register(c) PROVE pc'[p] = "noop" => CtxDone(p)'
  BY <1>a, <1>17 DEF Register
<1>18. ASSUME NEW c \in Calls, Snapshot(c) PROVE pc'[p] = "noop" => CtxDone(p)'
  BY <1>a, <1>18 DEF Snapshot
<1>19. ASSUME NEW c \in Calls, Close(c) PROVE pc'[p] = "noop" => CtxDone(p)'
  BY <1>a, <1>19 DEF Close
<1>20. ASSUME NEW c \in Calls, HearKill(c) PROVE pc'[p] = "noop" => CtxDone(p)'
  BY <1>a, <1>20 DEF HearKill
<1>21. ASSUME NEW c \in Calls, Kill(c) PROVE pc'[p] = "noop" => CtxDone(p)'
  BY <1>a, <1>21 DEF Kill
<1>22. ASSUME NEW c \in Calls, KillOp(c) PROVE pc'[p] = "noop" => CtxDone(p)'
  BY <1>a, <1>22 DEF KillOp
<1>23. ASSUME UNCHANGED vars PROVE pc'[p] = "noop" => CtxDone(p)'
  BY <1>a, <1>23 DEF vars, callVars, busVars, subVars, nodeVars
<1>. QED
  BY <1>1, <1>2, <1>3, <1>4, <1>5, <1>6, <1>7, <1>8, <1>9, <1>10, <1>11, <1>12, <1>13, <1>14, <1>15, <1>16, <1>17, <1>18, <1>19, <1>20, <1>21, <1>22, <1>23 DEF Next, CallStep, SubStep

\* A subscription closes when its call's context is done.
LEMMA StepClosed ==
  ASSUME CallsInv, ContextsInv, Typed', [Next]_vars, NEW p \in Calls
  PROVE  sub'[p] = "closed" => Cancelled(p)'
<1>a. (sub[p] = "closed" => Cancelled(p)) /\ (Cancelled(p) => Cancelled(p)')
  BY CancelledStays DEF ContextsInv
<1>. USE DEF CallsInv, Typed, GoTo, Return, callVars, busVars, subVars, nodeVars
<1>1. ASSUME NEW c \in Calls, Skip(c) PROVE sub'[p] = "closed" => Cancelled(p)'
  BY <1>a, <1>1 DEF Skip
<1>2. ASSUME NEW c \in Calls, Enter(c) PROVE sub'[p] = "closed" => Cancelled(p)'
  BY <1>a, <1>2 DEF Enter
<1>3. ASSUME NEW c \in Calls, NotStarted(c) PROVE sub'[p] = "closed" => Cancelled(p)'
  BY <1>a, <1>3 DEF NotStarted
<1>4. ASSUME NEW c \in Calls, Start(c) PROVE sub'[p] = "closed" => Cancelled(p)'
  BY <1>a, <1>4 DEF Start
<1>5. ASSUME NEW c \in Calls, Panic(c) PROVE sub'[p] = "closed" => Cancelled(p)'
  BY <1>a, <1>5 DEF Panic
<1>6. ASSUME NEW c \in Calls, End(c) PROVE sub'[p] = "closed" => Cancelled(p)'
  BY <1>a, <1>6 DEF End
<1>7. ASSUME NEW c \in Calls, ContainerReturns(c) PROVE sub'[p] = "closed" => Cancelled(p)'
  BY <1>a, <1>7 DEF ContainerReturns
<1>8. ASSUME NEW c \in Calls, CallOp(c) PROVE sub'[p] = "closed" => Cancelled(p)'
  BY <1>a, <1>8 DEF CallOp
<1>9. ASSUME NEW c \in Calls, OpReturns(c) PROVE sub'[p] = "closed" => Cancelled(p)'
  BY <1>a, <1>9 DEF OpReturns
<1>10. ASSUME NEW c \in Calls, CallNext(c) PROVE sub'[p] = "closed" => Cancelled(p)'
  BY <1>a, <1>10 DEF CallNext
<1>11. ASSUME NEW c \in Calls, Await(c) PROVE sub'[p] = "closed" => Cancelled(p)'
  BY <1>a, <1>11 DEF Await
<1>12. ASSUME NEW c \in Calls, SerialReturns(c) PROVE sub'[p] = "closed" => Cancelled(p)'
  BY <1>a, <1>12 DEF SerialReturns
<1>13. ASSUME NEW c \in Calls, LaunchAll(c) PROVE sub'[p] = "closed" => Cancelled(p)'
  BY <1>a, <1>13 DEF LaunchAll
<1>14. ASSUME NEW c \in Calls, LaunchNext(c) PROVE sub'[p] = "closed" => Cancelled(p)'
  BY <1>a, <1>14 DEF LaunchNext
<1>15. ASSUME NEW c \in Calls, Deliver(c) PROVE sub'[p] = "closed" => Cancelled(p)'
  <2>1. PICK event \in Pending(c) :
           sub' = [sub EXCEPT ![c] = IF replay[c] # {} /\ CallCtxDone(c) THEN "closed" ELSE "open"]
    BY <1>15, DeliverHandles
  <2>. QED
    BY <1>15, <1>a, <2>1 DEF Deliver, CallCtxDone, Cancelled
<1>16. ASSUME NEW c \in Calls, ChannelClosed(c) PROVE sub'[p] = "closed" => Cancelled(p)'
  BY <1>a, <1>16 DEF ChannelClosed
<1>17. ASSUME NEW c \in Calls, Register(c) PROVE sub'[p] = "closed" => Cancelled(p)'
  BY <1>a, <1>17 DEF Register
<1>18. ASSUME NEW c \in Calls, Snapshot(c) PROVE sub'[p] = "closed" => Cancelled(p)'
  BY <1>a, <1>18 DEF Snapshot
<1>19. ASSUME NEW c \in Calls, Close(c) PROVE sub'[p] = "closed" => Cancelled(p)'
  BY <1>19, <1>a DEF Close, CallCtxDone, Cancelled, Returned
<1>20. ASSUME NEW c \in Calls, HearKill(c) PROVE sub'[p] = "closed" => Cancelled(p)'
  BY <1>a, <1>20 DEF HearKill
<1>21. ASSUME NEW c \in Calls, Kill(c) PROVE sub'[p] = "closed" => Cancelled(p)'
  BY <1>a, <1>21 DEF Kill
<1>22. ASSUME NEW c \in Calls, KillOp(c) PROVE sub'[p] = "closed" => Cancelled(p)'
  BY <1>a, <1>22 DEF KillOp
<1>23. ASSUME UNCHANGED vars PROVE sub'[p] = "closed" => Cancelled(p)'
  BY <1>a, <1>23 DEF vars, callVars, busVars, subVars, nodeVars
<1>. QED
  BY <1>1, <1>2, <1>3, <1>4, <1>5, <1>6, <1>7, <1>8, <1>9, <1>10, <1>11, <1>12, <1>13, <1>14, <1>15, <1>16, <1>17, <1>18, <1>19, <1>20, <1>21, <1>22, <1>23 DEF Next, CallStep, SubStep

\* A call whose subscription closed was cancelled, and a child that failed is
\* its parent's reason to.
LEMMA Reasons ==
  ASSUME CallsInv, [Next]_vars, NEW p \in Calls
  PROVE  /\ p \in Fallible \cup stopped => Reason(p)'
         /\ Reason(p) => Reason(p)'
         /\ Cancelled(p) => Cancelled(p)'
BY ReasonStays, CancelledStays DEF Reason


\* A handler returns an error for a reason, or as its call is cancelled.
LEMMA StepErr ==
  ASSUME CallsInv, ContextsInv, [Next]_vars, NEW p \in Calls
  PROVE  ret'[p] = "err" => Reason(p)' \/ Cancelled(p)'
<1>a. /\ ret[p] = "err" => Reason(p)' \/ Cancelled(p)'
      /\ p \in Fallible \cup stopped => Reason(p)'
      /\ Reason(p) => Reason(p)'
      /\ Cancelled(p) => Cancelled(p)'
  BY Reasons DEF ContextsInv
<1>. USE DEF CallsInv, Typed, GoTo, Return, callVars, busVars, subVars, nodeVars
<1>1. ASSUME NEW c \in Calls, Skip(c) PROVE ret'[p] = "err" => Reason(p)' \/ Cancelled(p)'
  BY <1>a, <1>1 DEF Skip
<1>2. ASSUME NEW c \in Calls, Enter(c) PROVE ret'[p] = "err" => Reason(p)' \/ Cancelled(p)'
  BY <1>a, <1>2 DEF Enter
<1>3. ASSUME NEW c \in Calls, NotStarted(c) PROVE ret'[p] = "err" => Reason(p)' \/ Cancelled(p)'
  BY <1>3, <1>a DEF NotStarted
<1>4. ASSUME NEW c \in Calls, Start(c) PROVE ret'[p] = "err" => Reason(p)' \/ Cancelled(p)'
  BY <1>a, <1>4 DEF Start
<1>5. ASSUME NEW c \in Calls, Panic(c) PROVE ret'[p] = "err" => Reason(p)' \/ Cancelled(p)'
  BY <1>a, <1>5 DEF Panic
<1>6. ASSUME NEW c \in Calls, End(c) PROVE ret'[p] = "err" => Reason(p)' \/ Cancelled(p)'
  BY <1>a, <1>6 DEF End
<1>7. ASSUME NEW c \in Calls, ContainerReturns(c) PROVE ret'[p] = "err" => Reason(p)' \/ Cancelled(p)'
  <2>1. CASE c \notin Services /\ \E r \in Results(c) : Return(c, r)
    <3>1. PICK r \in Results(c) : Return(c, r)
      BY <2>1
    <3>. QED
      BY <1>7, <1>a, <3>1 DEF ContainerReturns, Results
  <2>2. CASE (c \in stopped \/ CallCtxDone(c)) /\ \E r \in {"ok", "err"} : Return(c, r)
    <3>1. PICK r \in {"ok", "err"} : Return(c, r)
      BY <2>2
    <3>2. c \in stopped \/ Cancelled(c)
      BY <1>7, <2>2 DEF ContainerReturns, CallCtxDone, Cancelled
    <3>. QED
      BY <1>7, <1>a, <3>1, <3>2 DEF ContainerReturns
  <2>. QED
    BY <1>7, <2>1, <2>2 DEF ContainerReturns
<1>8. ASSUME NEW c \in Calls, CallOp(c) PROVE ret'[p] = "err" => Reason(p)' \/ Cancelled(p)'
  BY <1>a, <1>8 DEF CallOp
<1>9. ASSUME NEW c \in Calls, OpReturns(c) PROVE ret'[p] = "err" => Reason(p)' \/ Cancelled(p)'
  <2>1. CASE ret[Child(c)] = "err"
    <3>1. HasChild(c) /\ Child(c) \in Offspring(c) /\ Child(c) \in Calls
      BY <1>9, OpFacts DEF OpReturns, InOrder, HasCalled, IsParallel, HasChild, Child
    <3>2. outcome[Child(c)] \in {"failed", "killed"}
      BY <1>9, <2>1, <3>1 DEF OpReturns, Outcomes, Returned
    <3>3. Reason(c)
      BY <1>9, <3>1, <3>2 DEF Reason, OpReturns
    <3>. QED
      BY <1>9, <1>a, <2>1, <3>3 DEF OpReturns
  <2>2. CASE ret[Child(c)] # "err"
    <3>1. PICK r \in Results(c) : Return(c, r)
      BY <1>9, <2>2 DEF OpReturns
    <3>. QED
      BY <1>9, <1>a, <3>1 DEF OpReturns, Results
  <2>. QED
    BY <2>1, <2>2
<1>10. ASSUME NEW c \in Calls, CallNext(c) PROVE ret'[p] = "err" => Reason(p)' \/ Cancelled(p)'
  BY <1>a, <1>10 DEF CallNext
<1>11. ASSUME NEW c \in Calls, Await(c) PROVE ret'[p] = "err" => Reason(p)' \/ Cancelled(p)'
  BY <1>a, <1>11 DEF Await
<1>12. ASSUME NEW c \in Calls, SerialReturns(c) PROVE ret'[p] = "err" => Reason(p)' \/ Cancelled(p)'
  BY <1>12, <1>a DEF SerialReturns
<1>13. ASSUME NEW c \in Calls, LaunchAll(c) PROVE ret'[p] = "err" => Reason(p)' \/ Cancelled(p)'
  BY <1>a, <1>13 DEF LaunchAll
<1>14. ASSUME NEW c \in Calls, LaunchNext(c) PROVE ret'[p] = "err" => Reason(p)' \/ Cancelled(p)'
  BY <1>14, <1>a DEF LaunchNext
<1>15. ASSUME NEW c \in Calls, Deliver(c) PROVE ret'[p] = "err" => Reason(p)' \/ Cancelled(p)'
  <2>1. PICK event \in Pending(c) : Handles(c, event)
    BY <1>15, DeliverHandles
  <2>2. CASE p # c
    BY <1>15, <1>a, <2>1, <2>2 DEF Deliver, Handles, SerialHandles, ParallelHandles
  <2>3. CASE p = c /\ IsSerial(c) /\ SerialHandles(c, event)
    <3>1. Child(c) \in Offspring(c)
      BY <1>15, <2>3, OpFacts DEF Deliver, InOrder, HasCalled, IsParallel, IsSerial, HasChild, Child
    <3>2. (event = Child(c) /\ outcome[event] = "failed") => Reason(c)
      BY <3>1 DEF Reason
    <3>. QED
      BY <1>15, <1>a, <2>3, <3>2 DEF Deliver, SerialHandles
  <2>4. CASE p = c /\ IsParallel(c) /\ ParallelHandles(c, event)
    <3>1. SeenAfter(c, event) \subseteq Offspring(c)
      BY DEF SeenAfter, EventsAreTrue
    <3>2. (\E e \in SeenAfter(c, event) : outcome[e] = "failed") => Reason(c)
      BY <3>1 DEF Reason
    <3>. QED
      BY <1>15, <1>a, <2>4, <3>2 DEF Deliver, ParallelHandles
  <2>. QED
    BY <2>1, <2>2, <2>3, <2>4 DEF Handles
<1>16. ASSUME NEW c \in Calls, ChannelClosed(c) PROVE ret'[p] = "err" => Reason(p)' \/ Cancelled(p)'
  BY <1>a, <1>16 DEF ChannelClosed
<1>17. ASSUME NEW c \in Calls, Register(c) PROVE ret'[p] = "err" => Reason(p)' \/ Cancelled(p)'
  BY <1>a, <1>17 DEF Register
<1>18. ASSUME NEW c \in Calls, Snapshot(c) PROVE ret'[p] = "err" => Reason(p)' \/ Cancelled(p)'
  BY <1>a, <1>18 DEF Snapshot
<1>19. ASSUME NEW c \in Calls, Close(c) PROVE ret'[p] = "err" => Reason(p)' \/ Cancelled(p)'
  BY <1>a, <1>19 DEF Close
<1>20. ASSUME NEW c \in Calls, HearKill(c) PROVE ret'[p] = "err" => Reason(p)' \/ Cancelled(p)'
  BY <1>a, <1>20 DEF HearKill
<1>21. ASSUME NEW c \in Calls, Kill(c) PROVE ret'[p] = "err" => Reason(p)' \/ Cancelled(p)'
  BY <1>a, <1>21 DEF Kill
<1>22. ASSUME NEW c \in Calls, KillOp(c) PROVE ret'[p] = "err" => Reason(p)' \/ Cancelled(p)'
  BY <1>a, <1>22 DEF KillOp
<1>23. ASSUME UNCHANGED vars PROVE ret'[p] = "err" => Reason(p)' \/ Cancelled(p)'
  BY <1>a, <1>23 DEF vars, callVars, busVars, subVars, nodeVars
<1>. QED
  BY <1>1, <1>2, <1>3, <1>4, <1>5, <1>6, <1>7, <1>8, <1>9, <1>10, <1>11, <1>12, <1>13, <1>14, <1>15, <1>16, <1>17, <1>18, <1>19, <1>20, <1>21, <1>22, <1>23 DEF Next, CallStep, SubStep

\* The children a call has called one by one are done, if it was not cancelled.
LEMMA CalledAreDone ==
  ASSUME CallsInv, ContextsInv, NEW p \in Calls, ~IsParallel(p), ~Cancelled(p),
         \A i \in DOMAIN Children[p] : i = next[p] =>
             pc[Children[p][i]] \in {"idle", "ended"} /\ outcome[Children[p][i]] # "failed"
  PROVE  Done(p)
<1>1. SUFFICES ASSUME NEW i \in DOMAIN Children[p]
               PROVE  pc[Children[p][i]] \in {"idle", "ended"} /\ outcome[Children[p][i]] # "failed"
  BY OpFacts DEF Done, CallsInv, Typed
<1>2. Children[p][i] \in Calls /\ i \in Nat /\ next[p] \in Nat
  BY OpFacts DEF CallsInv, Typed
<1>3. CASE i < next[p]
  BY <1>3 DEF ContextsInv
<1>4. CASE i = next[p]
  BY <1>4
<1>5. CASE i > next[p]
  <2>1. pc[Children[p][i]] = "idle"
    BY <1>5 DEF CallsInv, InOrder, InTurn
  <2>. QED
    BY <1>2, <2>1 DEF CallsInv, Outcomes
<1>. QED
  BY <1>2, <1>3, <1>4, <1>5

LEMMA IdleAreDone ==
  ASSUME CallsInv, NEW p \in Calls, \A i \in DOMAIN Children[p] : pc[Children[p][i]] = "idle"
  PROVE  Done(p)
<1>1. \A c \in Offspring(p) : c \in Calls /\ pc[c] = "idle"
  BY OpFacts DEF CallsInv, Typed
<1>. QED
  BY <1>1 DEF Done, CallsInv, Outcomes


\* A handler returns success when its children are done, or as its call is cancelled.
LEMMA StepOk ==
  ASSUME CallsInv, ContextsInv, [Next]_vars, NEW p \in Calls
  PROVE  ret'[p] = "ok" => Done(p)' \/ Cancelled(p)'
<1>a. /\ ret[p] = "ok" => Done(p)' \/ Cancelled(p)'
      /\ (Done(p) /\ (pc[p] = "started" => pc'[p] = "returning")) => Done(p)'
      /\ Cancelled(p) => Cancelled(p)'
  <2>1. /\ (Done(p) /\ (pc[p] = "started" => pc'[p] = "returning")) => Done(p)'
        /\ Cancelled(p) => Cancelled(p)'
    BY DoneStays, CancelledStays
  <2>2. ret[p] = "ok" => pc[p] # "started" /\ (Done(p) \/ Cancelled(p))
    BY DEF CallsInv, Outcomes, Returned, ContextsInv
  <2>. QED
    BY <2>1, <2>2
<1>. USE DEF CallsInv, Typed, GoTo, Return, callVars, busVars, subVars, nodeVars
<1>1. ASSUME NEW c \in Calls, Skip(c) PROVE ret'[p] = "ok" => Done(p)' \/ Cancelled(p)'
  BY <1>a, <1>1 DEF Skip
<1>2. ASSUME NEW c \in Calls, Enter(c) PROVE ret'[p] = "ok" => Done(p)' \/ Cancelled(p)'
  BY <1>a, <1>2 DEF Enter
<1>3. ASSUME NEW c \in Calls, NotStarted(c) PROVE ret'[p] = "ok" => Done(p)' \/ Cancelled(p)'
  <2>1. c = p => Done(p)
    BY <1>3, IdleAreDone DEF NotStarted, InOrder, InTurn, Unmade
  <2>. QED
    BY <1>3, <1>a, <2>1 DEF NotStarted
<1>4. ASSUME NEW c \in Calls, Start(c) PROVE ret'[p] = "ok" => Done(p)' \/ Cancelled(p)'
  BY <1>a, <1>4 DEF Start
<1>5. ASSUME NEW c \in Calls, Panic(c) PROVE ret'[p] = "ok" => Done(p)' \/ Cancelled(p)'
  BY <1>a, <1>5 DEF Panic
<1>6. ASSUME NEW c \in Calls, End(c) PROVE ret'[p] = "ok" => Done(p)' \/ Cancelled(p)'
  BY <1>a, <1>6 DEF End
<1>7. ASSUME NEW c \in Calls, ContainerReturns(c) PROVE ret'[p] = "ok" => Done(p)' \/ Cancelled(p)'
  <2>1. c = p => Done(p)
    BY <1>7, IdleAreDone DEF ContainerReturns, InOrder, InTurn
  <2>2. PICK r \in {"ok", "err"} : Return(c, r)
    BY <1>7 DEF ContainerReturns, Results
  <2>. QED
    BY <1>7, <1>a, <2>1, <2>2 DEF ContainerReturns
<1>8. ASSUME NEW c \in Calls, CallOp(c) PROVE ret'[p] = "ok" => Done(p)' \/ Cancelled(p)'
  BY <1>a, <1>8 DEF CallOp
<1>9. ASSUME NEW c \in Calls, OpReturns(c) PROVE ret'[p] = "ok" => Done(p)' \/ Cancelled(p)'
  <2>1. CASE c = p /\ ret'[p] = "ok" /\ ~Cancelled(p)
    <3>1. HasChild(c) /\ Child(c) \in Offspring(c) /\ Child(c) \in Calls /\ ~IsParallel(c)
      BY <1>9, OpFacts DEF OpReturns, InOrder, HasCalled, IsParallel, HasChild, Child
    <3>2. ret[Child(c)] # "err"
      BY <1>9, <2>1 DEF OpReturns
    <3>3. pc[Child(c)] # "noop"
      <4>1. Above[Child(c)] = {c} \cup Above[c]
        BY <3>1, AboveChild
      <4>2. CtxDone(Child(c)) => PassesDone(c) \/ CtxDone(c)
        BY <4>1 DEF CtxDone
      <4>3. ~CtxDone(Child(c))
        BY <1>9, <2>1, <3>1, <4>2 DEF PassesDone, Cancelled, OpReturns
      <4>. QED
        BY <3>1, <4>3 DEF ContextsInv
    <3>4. pc[Child(c)] = "ended" /\ outcome[Child(c)] # "failed"
      BY <1>9, <3>1, <3>2, <3>3 DEF OpReturns, Outcomes
    <3>5. Done(c)
      BY <2>1, <3>1, <3>4, CalledAreDone DEF Child
    <3>6. pc[p] # "started"
      BY <1>9, <2>1 DEF OpReturns
    <3>. QED
      BY <1>a, <2>1, <3>5, <3>6
  <2>2. CASE ~(c = p /\ ret'[p] = "ok" /\ ~Cancelled(p))
    <3>1. PICK r \in {"ok", "err"} : Return(c, r)
      BY <1>9 DEF OpReturns, Results
    <3>. QED
      BY <1>9, <1>a, <2>2, <3>1 DEF OpReturns
  <2>. QED
    BY <2>1, <2>2
<1>10. ASSUME NEW c \in Calls, CallNext(c) PROVE ret'[p] = "ok" => Done(p)' \/ Cancelled(p)'
  BY <1>a, <1>10 DEF CallNext
<1>11. ASSUME NEW c \in Calls, Await(c) PROVE ret'[p] = "ok" => Done(p)' \/ Cancelled(p)'
  BY <1>a, <1>11 DEF Await
<1>12. ASSUME NEW c \in Calls, SerialReturns(c) PROVE ret'[p] = "ok" => Done(p)' \/ Cancelled(p)'
  <2>1. CASE c = p /\ ~Cancelled(p)
    <3>1. \A i \in DOMAIN Children[p] : i = next[p] =>
             pc[Children[p][i]] \in {"idle", "ended"} /\ outcome[Children[p][i]] # "failed"
      <4>1. ASSUME NEW i \in DOMAIN Children[p], i = next[p]
            PROVE  pc[Children[p][i]] = "idle" /\ Children[p][i] \in Calls
        BY <1>12, <2>1, <4>1, OpFacts DEF SerialReturns, InOrder, InTurn, IsSerial, IsParallel
      <4>. QED
        BY <4>1 DEF Outcomes
    <3>2. ~IsParallel(p)
      BY <1>12, <2>1 DEF SerialReturns, IsSerial, IsParallel
    <3>3. Done(p)
      BY <2>1, <3>1, <3>2, CalledAreDone
    <3>4. pc'[p] = "returning"
      BY <1>12, <2>1 DEF SerialReturns
    <3>. QED
      BY <1>a, <3>3, <3>4
  <2>2. CASE ~(c = p /\ ~Cancelled(p))
    BY <1>12, <1>a, <2>2 DEF SerialReturns
  <2>. QED
    BY <2>1, <2>2
<1>13. ASSUME NEW c \in Calls, LaunchAll(c) PROVE ret'[p] = "ok" => Done(p)' \/ Cancelled(p)'
  BY <1>a, <1>13 DEF LaunchAll
<1>14. ASSUME NEW c \in Calls, LaunchNext(c) PROVE ret'[p] = "ok" => Done(p)' \/ Cancelled(p)'
  <2>1. Offspring(c) = {} => Done(c)
    BY DEF Done
  <2>. QED
    BY <1>14, <1>a, <2>1 DEF LaunchNext
<1>15. ASSUME NEW c \in Calls, Deliver(c) PROVE ret'[p] = "ok" => Done(p)' \/ Cancelled(p)'
  <2>1. PICK event \in Pending(c) : Handles(c, event)
    BY <1>15, DeliverHandles
  <2>2. CASE p # c
    BY <1>15, <1>a, <2>1, <2>2 DEF Deliver, Handles, SerialHandles, ParallelHandles
  <2>3. CASE p = c /\ IsSerial(c) /\ SerialHandles(c, event)
    BY <1>15, <1>a, <2>3 DEF Deliver, SerialHandles
  <2>4. CASE p = c /\ IsParallel(c) /\ ParallelHandles(c, event)
    <3>1. \A e \in SeenAfter(c, event) : e \in Offspring(c) /\ pc[e] = "ended"
      BY OpFacts DEF SeenAfter, EventsAreTrue, Pending
    <3>2. (SeenAfter(c, event) = Offspring(c) /\ ~\E e \in SeenAfter(c, event) : outcome[e] = "failed") => Done(c)
      BY <3>1 DEF Done
    <3>3. pc[c] # "started"
      BY <1>15 DEF Deliver
    <3>. QED
      BY <1>15, <1>a, <2>4, <3>2, <3>3 DEF ParallelHandles
  <2>. QED
    BY <2>1, <2>2, <2>3, <2>4 DEF Handles
<1>16. ASSUME NEW c \in Calls, ChannelClosed(c) PROVE ret'[p] = "ok" => Done(p)' \/ Cancelled(p)'
  <2>1. Cancelled(c)
    BY <1>16 DEF ChannelClosed, ContextsInv
  <2>. QED
    BY <1>16, <1>a, <2>1 DEF ChannelClosed
<1>17. ASSUME NEW c \in Calls, Register(c) PROVE ret'[p] = "ok" => Done(p)' \/ Cancelled(p)'
  BY <1>a, <1>17 DEF Register
<1>18. ASSUME NEW c \in Calls, Snapshot(c) PROVE ret'[p] = "ok" => Done(p)' \/ Cancelled(p)'
  BY <1>a, <1>18 DEF Snapshot
<1>19. ASSUME NEW c \in Calls, Close(c) PROVE ret'[p] = "ok" => Done(p)' \/ Cancelled(p)'
  BY <1>a, <1>19 DEF Close
<1>20. ASSUME NEW c \in Calls, HearKill(c) PROVE ret'[p] = "ok" => Done(p)' \/ Cancelled(p)'
  BY <1>a, <1>20 DEF HearKill
<1>21. ASSUME NEW c \in Calls, Kill(c) PROVE ret'[p] = "ok" => Done(p)' \/ Cancelled(p)'
  BY <1>a, <1>21 DEF Kill
<1>22. ASSUME NEW c \in Calls, KillOp(c) PROVE ret'[p] = "ok" => Done(p)' \/ Cancelled(p)'
  BY <1>a, <1>22 DEF KillOp
<1>23. ASSUME UNCHANGED vars PROVE ret'[p] = "ok" => Done(p)' \/ Cancelled(p)'
  BY <1>a, <1>23 DEF vars, callVars, busVars, subVars, nodeVars
<1>. QED
  BY <1>1, <1>2, <1>3, <1>4, <1>5, <1>6, <1>7, <1>8, <1>9, <1>10, <1>11, <1>12, <1>13, <1>14, <1>15, <1>16, <1>17, <1>18, <1>19, <1>20, <1>21, <1>22, <1>23 DEF Next, CallStep, SubStep

\* What a call is published to have come to is right.
LEMMA StepOutcome ==
  ASSUME CallsInv, ContextsInv, [Next]_vars, NEW p \in Calls
  PROVE  Right(p)'
<1>a. /\ outcome[p] = "failed" => Reason(p)'
      /\ (outcome[p] = "succeeded" /\ ret[p] # "panic") => Done(p)'
      /\ outcome[p] # "none" => ret'[p] = ret[p]
      /\ (ret[p] = "err" /\ ~Cancelled(p)) => Reason(p)'
      /\ (ret[p] = "ok" /\ ~Cancelled(p)) => Done(p)'
  <2>1. (Reason(p) => Reason(p)') /\ ((Done(p) /\ pc[p] # "started") => Done(p)')
    BY DoneStays, ReasonStays
  <2>2. (outcome[p] # "none" \/ ret[p] \in {"ok", "err"}) => Returned(p) /\ pc[p] # "started"
    BY DEF CallsInv, Outcomes, Returned
  <2>3. Returned(p) => ret'[p] = ret[p]
    BY StepMoves
  <2>. QED
    BY <2>1, <2>2, <2>3 DEF ContextsInv
<1>. USE DEF Right
<1>. USE DEF CallsInv, Typed, GoTo, Return, callVars, busVars, subVars, nodeVars
<1>1. ASSUME NEW c \in Calls, Skip(c) PROVE Right(p)'
  BY <1>a, <1>1 DEF Skip
<1>2. ASSUME NEW c \in Calls, Enter(c) PROVE Right(p)'
  BY <1>a, <1>2 DEF Enter
<1>3. ASSUME NEW c \in Calls, NotStarted(c) PROVE Right(p)'
  BY <1>a, <1>3 DEF NotStarted
<1>4. ASSUME NEW c \in Calls, Start(c) PROVE Right(p)'
  BY <1>a, <1>4 DEF Start
<1>5. ASSUME NEW c \in Calls, Panic(c) PROVE Right(p)'
  BY <1>a, <1>5 DEF Panic
<1>6. ASSUME NEW c \in Calls, End(c) PROVE Right(p)'
  <2>1. CASE p = c
    <3>1. outcome'[p] = OutcomeOf(p) /\ pc[p] = "returning"
      BY <1>6, <2>1 DEF End
    <3>2. p \notin Unwound(c)
      BY <1>6, <2>1, UnwoundCall DEF End
    <3>3. ret'[p] = ret[p]
      BY <1>6, <2>1, <3>2 DEF End
    <3>4. ret[p] \in {"ok", "err", "panic"}
      BY <3>1 DEF Outcomes, Returned
    <3>5. OutcomeOf(p) = "failed" => ret[p] = "err" /\ ~Cancelled(p)
      BY DEF OutcomeOf, Cancelled
    <3>6. OutcomeOf(p) = "succeeded" => ret[p] # "err" /\ ~Cancelled(p)
      BY DEF OutcomeOf, Cancelled
    <3>. QED
      BY <1>a, <3>1, <3>3, <3>4, <3>5, <3>6
  <2>2. CASE p # c
    BY <1>6, <1>a, <2>2 DEF End
  <2>. QED
    BY <2>1, <2>2
<1>7. ASSUME NEW c \in Calls, ContainerReturns(c) PROVE Right(p)'
  BY <1>a, <1>7 DEF ContainerReturns
<1>8. ASSUME NEW c \in Calls, CallOp(c) PROVE Right(p)'
  BY <1>a, <1>8 DEF CallOp
<1>9. ASSUME NEW c \in Calls, OpReturns(c) PROVE Right(p)'
  BY <1>a, <1>9 DEF OpReturns
<1>10. ASSUME NEW c \in Calls, CallNext(c) PROVE Right(p)'
  BY <1>a, <1>10 DEF CallNext
<1>11. ASSUME NEW c \in Calls, Await(c) PROVE Right(p)'
  BY <1>a, <1>11 DEF Await
<1>12. ASSUME NEW c \in Calls, SerialReturns(c) PROVE Right(p)'
  BY <1>a, <1>12 DEF SerialReturns
<1>13. ASSUME NEW c \in Calls, LaunchAll(c) PROVE Right(p)'
  BY <1>a, <1>13 DEF LaunchAll
<1>14. ASSUME NEW c \in Calls, LaunchNext(c) PROVE Right(p)'
  BY <1>a, <1>14 DEF LaunchNext
<1>15. ASSUME NEW c \in Calls, Deliver(c) PROVE Right(p)'
  <2>1. PICK event \in Pending(c) : Handles(c, event)
    BY <1>15, DeliverHandles
  <2>2. UNCHANGED outcome
    BY <2>1 DEF Handles, SerialHandles, ParallelHandles
  <2>. QED
    BY <1>a, <2>2
<1>16. ASSUME NEW c \in Calls, ChannelClosed(c) PROVE Right(p)'
  BY <1>a, <1>16 DEF ChannelClosed
<1>17. ASSUME NEW c \in Calls, Register(c) PROVE Right(p)'
  BY <1>a, <1>17 DEF Register
<1>18. ASSUME NEW c \in Calls, Snapshot(c) PROVE Right(p)'
  BY <1>a, <1>18 DEF Snapshot
<1>19. ASSUME NEW c \in Calls, Close(c) PROVE Right(p)'
  BY <1>a, <1>19 DEF Close
<1>20. ASSUME NEW c \in Calls, HearKill(c) PROVE Right(p)'
  BY <1>a, <1>20 DEF HearKill
<1>21. ASSUME NEW c \in Calls, Kill(c) PROVE Right(p)'
  BY <1>a, <1>21 DEF Kill
<1>22. ASSUME NEW c \in Calls, KillOp(c) PROVE Right(p)'
  BY <1>a, <1>22 DEF KillOp
<1>23. ASSUME UNCHANGED vars PROVE Right(p)'
  BY <1>a, <1>23 DEF vars, callVars, busVars, subVars, nodeVars
<1>. QED
  BY <1>1, <1>2, <1>3, <1>4, <1>5, <1>6, <1>7, <1>8, <1>9, <1>10, <1>11, <1>12, <1>13, <1>14, <1>15, <1>16, <1>17, <1>18, <1>19, <1>20, <1>21, <1>22, <1>23 DEF Next, CallStep, SubStep

\* A call goes on to its next child when it has heard of a child's end that was
\* no failure, or as it is cancelled.
LEMMA StepAwaited ==
  ASSUME CallsInv, ContextsInv, [Next]_vars, NEW p \in Calls, ~IsParallel(p),
         NEW i \in DOMAIN Children[p], i < next'[p]
  PROVE  \/ pc'[Children[p][i]] = "ended" /\ outcome'[Children[p][i]] # "failed"
         \/ Cancelled(p)'
<1>. DEFINE d == Children[p][i]
            Told == i < next[p] => (pc[d] = "ended" /\ outcome[d] # "failed") \/ Cancelled(p)
<1>a. /\ d \in Calls /\ i \in Nat /\ next[p] \in Nat /\ d' = d /\ ~IsParallel(p)
      /\ Told
      /\ (pc[d] = "ended" /\ outcome[d] # "failed") => (pc'[d] = "ended" /\ outcome'[d] # "failed")
      /\ Cancelled(p) => Cancelled(p)'
  <2>1. d \in Calls /\ i \in Nat /\ next[p] \in Nat /\ d' = d /\ ~IsParallel(p)
    BY OpFacts, OpStays DEF CallsInv, Typed
  <2>2. Told
    BY DEF ContextsInv
  <2>3. (pc[d] = "ended" /\ outcome[d] # "failed") => (pc'[d] = "ended" /\ outcome'[d] # "failed")
    BY <2>1, StepMoves DEF CallsInv, Outcomes, Over
  <2>. QED
    BY <2>1, <2>2, <2>3, CancelledStays
<1>. HIDE DEF d
<1>. USE DEF CallsInv, Typed, GoTo, Return, callVars, busVars, subVars, nodeVars
<1>1. ASSUME NEW c \in Calls, Skip(c) PROVE Told'
  BY <1>a, <1>1 DEF Skip
<1>2. ASSUME NEW c \in Calls, Enter(c) PROVE Told'
  BY <1>a, <1>2 DEF Enter
<1>3. ASSUME NEW c \in Calls, NotStarted(c) PROVE Told'
  BY <1>a, <1>3 DEF NotStarted
<1>4. ASSUME NEW c \in Calls, Start(c) PROVE Told'
  BY <1>a, <1>4 DEF Start
<1>5. ASSUME NEW c \in Calls, Panic(c) PROVE Told'
  BY <1>a, <1>5 DEF Panic
<1>6. ASSUME NEW c \in Calls, End(c) PROVE Told'
  BY <1>a, <1>6 DEF End
<1>7. ASSUME NEW c \in Calls, ContainerReturns(c) PROVE Told'
  BY <1>a, <1>7 DEF ContainerReturns
<1>8. ASSUME NEW c \in Calls, CallOp(c) PROVE Told'
  BY <1>a, <1>8 DEF CallOp
<1>9. ASSUME NEW c \in Calls, OpReturns(c) PROVE Told'
  BY <1>a, <1>9 DEF OpReturns
<1>10. ASSUME NEW c \in Calls, CallNext(c) PROVE Told'
  BY <1>a, <1>10 DEF CallNext
<1>11. ASSUME NEW c \in Calls, Await(c) PROVE Told'
  BY <1>a, <1>11 DEF Await
<1>12. ASSUME NEW c \in Calls, SerialReturns(c) PROVE Told'
  BY <1>a, <1>12 DEF SerialReturns
<1>13. ASSUME NEW c \in Calls, LaunchAll(c) PROVE Told'
  BY <1>a, <1>13 DEF LaunchAll
<1>14. ASSUME NEW c \in Calls, LaunchNext(c) PROVE Told'
  BY <1>14, <1>a DEF LaunchNext, IsParallel
<1>15. ASSUME NEW c \in Calls, Deliver(c) PROVE Told'
  <2>1. PICK event \in Pending(c) : Handles(c, event)
    BY <1>15, DeliverHandles
  <2>2. CASE IsSerial(c) /\ SerialHandles(c, event)
    <3>1. event = d => pc[d] = "ended"
      BY <1>a DEF Pending, EventsAreTrue
    <3>2. (c = p /\ i = next[p] /\ i < next'[p]) => event = d /\ outcome[event] # "failed"
      BY <1>15, <1>a, <2>2 DEF SerialHandles, Child, d
    <3>3. i < next'[p] => i < next[p] \/ (c = p /\ i = next[p])
      BY <1>a, <2>2 DEF SerialHandles
    <3>. QED
      BY <1>a, <3>1, <3>2, <3>3
  <2>3. CASE IsParallel(c) /\ ParallelHandles(c, event)
    BY <1>a, <2>3 DEF ParallelHandles
  <2>. QED
    BY <2>1, <2>2, <2>3 DEF Handles
<1>16. ASSUME NEW c \in Calls, ChannelClosed(c) PROVE Told'
  <2>1. Cancelled(c)
    BY <1>16 DEF ChannelClosed, ContextsInv
  <2>. QED
    BY <1>16, <1>a, <2>1 DEF ChannelClosed
<1>17. ASSUME NEW c \in Calls, Register(c) PROVE Told'
  BY <1>a, <1>17 DEF Register
<1>18. ASSUME NEW c \in Calls, Snapshot(c) PROVE Told'
  BY <1>a, <1>18 DEF Snapshot
<1>19. ASSUME NEW c \in Calls, Close(c) PROVE Told'
  BY <1>a, <1>19 DEF Close
<1>20. ASSUME NEW c \in Calls, HearKill(c) PROVE Told'
  BY <1>a, <1>20 DEF HearKill
<1>21. ASSUME NEW c \in Calls, Kill(c) PROVE Told'
  BY <1>a, <1>21 DEF Kill
<1>22. ASSUME NEW c \in Calls, KillOp(c) PROVE Told'
  BY <1>a, <1>22 DEF KillOp
<1>23. ASSUME UNCHANGED vars PROVE Told'
  BY <1>a, <1>23 DEF vars, callVars, busVars, subVars, nodeVars
<1>. HIDE DEF Told
<1>0. Told'
  BY <1>1, <1>2, <1>3, <1>4, <1>5, <1>6, <1>7, <1>8, <1>9, <1>10, <1>11, <1>12, <1>13, <1>14, <1>15, <1>16, <1>17, <1>18, <1>19, <1>20, <1>21, <1>22, <1>23 DEF Next, CallStep, SubStep
<1>. QED
  BY <1>0, <1>a DEF Told, d

LEMMA StepContexts ==
  ASSUME TreeInv, [Next]_vars
  PROVE  TreeInv'
<1>. USE DEF TreeInv
<1>1. CallsInv' /\ Typed'
  BY StepCalls DEF CallsInv
<1>2. ASSUME NEW p \in Calls
      PROVE  /\ pc'[p] = "noop" => CtxDone(p)'
             /\ sub'[p] = "closed" => Cancelled(p)'
             /\ ret'[p] = "err" => Reason(p)' \/ Cancelled(p)'
             /\ ret'[p] = "ok" => Done(p)' \/ Cancelled(p)'
  BY <1>1, StepNoop, StepClosed, StepErr, StepOk
<1>3. \A p \in Calls : Right(p)'
  BY StepOutcome
<1>4. ASSUME NEW p \in Calls, ~IsParallel(p)', NEW i \in (DOMAIN Children[p])', i < next'[p]
      PROVE  \/ pc'[Children'[p][i]] = "ended" /\ outcome'[Children'[p][i]] # "failed"
             \/ Cancelled(p)'
  BY <1>4, StepAwaited, OpStays DEF IsParallel
<1>5. ContextsInv'
  BY <1>2, <1>3, <1>4 DEF ContextsInv, Right
<1>. QED
  BY <1>1, <1>5

LEMMA InitTree == ASSUME Init PROVE TreeInv
<1>1. CallsInv
  BY InitCalls
<1>2. \A p \in Calls : /\ pc[p] # "noop" /\ sub[p] # "closed" /\ ret[p] = "none"
                       /\ outcome[p] = "none" /\ next[p] = 1
  BY DEF Init
<1>3. \A p \in Calls : \A i \in DOMAIN Children[p] : ~(i < next[p])
  BY <1>1, <1>2, OpFacts DEF CallsInv, Typed
<1>. QED
  BY <1>1, <1>2, <1>3 DEF TreeInv, ContextsInv

LEMMA TreeIsInvariant == Spec => []TreeInv
<1>1. Init => TreeInv
  BY InitTree
<1>2. TreeInv /\ [Next]_vars => TreeInv'
  BY StepContexts
<1>. QED
  BY <1>1, <1>2, PTL DEF Spec

-----------------------------------------------------------------------------
\* A serial call makes one call at a time and in order: serialCaller.go and
\* serialLoopCaller.go wait for the child's CallEnded before the next iteration.
THEOREM OneCallAtATime == Spec => []OneAtATime
<1>1. ASSUME TreeInv, NEW p \in Calls, IsSerial(p), NEW i \in DOMAIN Children[p],
             NEW j \in DOMAIN Children[p], i < j, pc[Children[p][j]] # "idle"
      PROVE  Over(Children[p][i])
  <2>1. i \in Nat /\ j \in Nat /\ next[p] \in Nat
    BY <1>1, OpFacts DEF TreeInv, CallsInv, Typed
  <2>2. ~IsParallel(p)
    BY <1>1 DEF IsSerial, IsParallel
  <2>. QED
    BY <1>1, <2>1, <2>2 DEF TreeInv, CallsInv, InOrder, InTurn
<1>2. TreeInv => OneAtATime
  BY <1>1 DEF OneAtATime
<1>. QED
  BY <1>2, TreeIsInvariant, PTL

\* A call that fails has a reason to: caller.go 129-139 says killed, not failed,
\* of a call whose handler was cut short by a context.
THEOREM FailuresHaveReasons == Spec => []FailsForAReason
<1>1. TreeInv => FailsForAReason
  BY DEF TreeInv, ContextsInv, FailsForAReason, Reason
<1>. QED
  BY <1>1, TreeIsInvariant, PTL

\* A call that reports success is right about all its children, whatever order
\* their events come in (parallelCaller.go 144-199, serialCaller.go 92-106).
THEOREM SuccessesAreComplete == Spec => []SuccessIsComplete
<1>1. TreeInv => SuccessIsComplete
  BY DEF TreeInv, ContextsInv, SuccessIsComplete, Done
<1>. QED
  BY <1>1, TreeIsInvariant, PTL

=============================================================================
