------------------------------- MODULE Scopes -------------------------------
(***************************************************************************)
(* The variables of an op's calls (sdks/go/node/*Caller.go and the           *)
(* interpreter): what each call is interpreted against, and what becomes of  *)
(* its outputs.  CallTree has the control of the same calls.                 *)
(*                                                                         *)
(* A scope is a Go map, and maps are shared: a call may hand its own on to   *)
(* the calls it makes, and write to the one it was given.  So calls have     *)
(* references to maps here, and a write is seen by everyone who has one.     *)
(*                                                                         *)
(* Only what a run does until a call fails: then the op does, and what its   *)
(* calls have done is lost.  No call is killed.                              *)
(***************************************************************************)
EXTENDS Values

CONSTANTS
    Calls,      \* each iteration of a loop is a call of its own
    Roots,      \* the op calls that may be run
    CallSpec,   \* what each call is, from the op files
    Args,       \* what each root is called with
    Keys,       \* keys of a scope
    Interpretation(_, _),   \* of a call in a scope: a Map of an op's inputs, or else
                            \* anything, if it is not Skip, Error or Panic
    OpScope(_, _),          \* the inputs, by a Map, and the dirs of an op
    Leaves(_, _),           \* what a container outputs that was run in a scope
    OpOutputs(_, _),        \* a Map of what an op's call outputs, by what the op does
    ScopeOfIteration(_, _, _),    \* a Map of a loop's variables in iteration i
    Loop(_, _),             \* of a loop in a scope: its length and `until`
    Stored(_),              \* a value as the event store gives it back
    Restored(_),            \* the names that a loop with variables takes back
    None

Kinds == {"container", "op", "serial", "parallel", "serialLoop", "parallelLoop"}

\* "within" is the op whose file a call is in.  An op has one call, and that one is
\* in its file.
ASSUME ScopesAssumption ==
    /\ Roots \subseteq Calls /\ None \notin Calls
    /\ \A c \in Calls :
          /\ CallSpec[c].kind \in Kinds
          /\ CallSpec[c].run \in Seq(Calls)
          /\ CallSpec[c].hasVars \in BOOLEAN
          /\ CallSpec[c].within \in Calls \cup {None}
          /\ CallSpec[c].kind = "op" => Len(CallSpec[c].run) = 1
          /\ \A i \in 1..Len(CallSpec[c].run) :
                CallSpec[CallSpec[c].run[i]].within =
                    IF CallSpec[c].kind = "op" THEN c ELSE CallSpec[c].within

VARIABLES
    pc,     \* where each call is
    scope,  \* the map it was given
    outs,   \* the map it output
    in,     \* the maps that were made for each call
    own,    \* the maps each call made for itself
    at,     \* how many calls it has made, or iterations it has begun
    len,    \* the length of a loop's range when it last looked
    seen,   \* what each call was interpreted against
    given,  \* each call's outputs, when it ended
    fate    \* of the run

vars == <<pc, scope, outs, in, own, at, len, seen, given, fate>>

Empty == [k \in Keys |-> Unset]
Deref(p) == IF p[1] = "in" THEN in[p[2]] ELSE own[p[2]]

Kind(c) == CallSpec[c].kind
Run(c) == CallSpec[c].run
Children(c) == {Run(c)[i] : i \in 1..Len(Run(c))}

CopyOf(m) == [k \in Keys |-> m[k]]

\* Child outputs have precedence, and of several children's the last one's.
Merge(m, o) == [k \in Keys |-> IF o[k] = Unset THEN m[k] ELSE o[k]]

MergeAll(m, n, got) ==
    [k \in Keys |->
        IF \A i \in 1..n : got[i][k] = Unset THEN m[k]
        ELSE got[CHOOSE i \in 1..n : /\ got[i][k] # Unset
                                     /\ \A j \in i+1..n : got[j][k] = Unset][k]]

Init ==
    /\ \E r \in Roots :
          /\ pc = [c \in Calls |-> IF c = r THEN "called" ELSE "idle"]
          /\ in = [c \in Calls |-> IF c = r THEN Args[r] ELSE Empty]
    /\ own = [c \in Calls |-> Empty]
    /\ scope = [c \in Calls |-> <<"in", c>>]
    /\ outs = [c \in Calls |-> <<"own", c>>]
    /\ at = [c \in Calls |-> 0]
    /\ len = [c \in Calls |-> 0]
    /\ seen = [c \in Calls |-> Empty]
    /\ given = [c \in Calls |-> Empty]
    /\ fate = "going"

Going(c, p) == fate = "going" /\ pc[c] = p
Go(c, p) == pc' = [pc EXCEPT ![c] = p]

\* Call children with a scope.
GoCalling(c, p, ds, s) ==
    /\ pc' = [d \in Calls |-> IF d \in ds THEN "called" ELSE IF d = c THEN p ELSE pc[d]]
    /\ scope' = [d \in Calls |-> IF d \in ds THEN s ELSE scope[d]]

\* CallEnded is published, with a map that others may have too.
Finish(c, p, m) ==
    /\ Go(c, "ended")
    /\ outs' = [outs EXCEPT ![c] = p]
    /\ given' = [given EXCEPT ![c] = m]

\* The event as the store has it: the outputs are what JSON makes of them.
FromStore(c) ==
    [k \in Keys |-> IF given[c][k] \in {Unset, Nil} THEN given[c][k] ELSE Stored(given[c][k])]

\* What the parent reads in the event: what the map holds now, or what was stored.
Outputs(c) == {Deref(outs[c]), FromStore(c)}

\* Calls that read or write the map p meanwhile.
Uses(d) ==
    \/ pc[d] = "called"
    \/ pc[d] = "begun" /\ Kind(d) \in {"serial", "serialLoop", "parallelLoop"}
    \/ pc[d] = "waiting" /\ Kind(d) \in {"serialLoop", "parallelLoop"}
                         /\ \A i \in 1..at[d] : pc[Run(d)[i]] = "ended"
Sharing(c, p) == {d \in Calls \ {c} : scope[d] = p /\ Uses(d)}

\* And calls that have ended with it: every subscriber gets the event with the map
\* itself, and may write it as JSON at any time after.
Published(p) == {d \in Calls : pc[d] = "ended" /\ outs[d] = p}

\* Go ends the process if it finds a map in use when it is written to.
MayDie(c, p) ==
    fate' \in IF Sharing(c, p) \cup Published(p) = {} THEN {fate} ELSE {fate, "died"}

-----------------------------------------------------------------------------
(* Interpreting a call *)

\* A panic, or an error that is found before it.
Fail(result) ==
    fate' \in IF result = Panic THEN {"panicked", "failed"} ELSE {"failed"}

InterpretedAs(c, result) ==
    \/ /\ Fails(result)
       /\ Fail(result)
       /\ UNCHANGED <<pc, outs, given, in>>
    \/ /\ result = Skip
       /\ Finish(c, <<"own", c>>, Empty)
       /\ UNCHANGED <<in, fate>>
    \/ /\ ~Fails(result) /\ result # Skip
       /\ Go(c, "begun")
       /\ in' = IF Kind(c) = "op"
                THEN [in EXCEPT ![Run(c)[1]] = OpScope(c, result)]
                ELSE in
       /\ UNCHANGED <<outs, given, fate>>

\* Against the scope as it is now.
Interpret(c) ==
    /\ Going(c, "called")
    /\ seen' = [seen EXCEPT ![c] = Deref(scope[c])]
    /\ InterpretedAs(c, Interpretation(c, Deref(scope[c])))
    /\ UNCHANGED <<scope, own, at, len>>

-----------------------------------------------------------------------------
(* Containers and ops *)

EndWith(c, m) ==
    /\ own' = [own EXCEPT ![c] = m]
    /\ Finish(c, <<"own", c>>, m)

RunContainer(c) ==
    /\ Going(c, "begun") /\ Kind(c) = "container"
    /\ EndWith(c, Leaves(c, seen[c]))
    /\ UNCHANGED <<scope, in, at, len, seen, fate>>

\* Mutant: the op's call has the scope of the caller.
CallOpInScope(c) ==
    /\ Going(c, "begun") /\ Kind(c) = "op"
    /\ GoCalling(c, "waiting", Children(c), scope[c])
    /\ UNCHANGED <<outs, in, own, at, len, seen, given, fate>>

\* A scope of its own: the inputs.
CallOp(c) ==
    /\ Going(c, "begun") /\ Kind(c) = "op"
    /\ GoCalling(c, "waiting", Children(c), <<"in", Run(c)[1]>>)
    /\ UNCHANGED <<outs, in, own, at, len, seen, given, fate>>

EndOpWith(c, result) ==
    \/ /\ Fails(result)
       /\ Fail(result)
       /\ UNCHANGED <<pc, outs, given, own>>
    \/ /\ ~Fails(result)
       /\ EndWith(c, result[2])
       /\ UNCHANGED fate

\* The op's outputs that are bound, unless one that the op declares or the caller
\* expects is missing.
EndOp(c) ==
    /\ Going(c, "waiting") /\ Kind(c) = "op"
    /\ \A d \in Children(c) : pc[d] = "ended"
    /\ EndOpWith(c, OpOutputs(c, Deref(outs[Run(c)[1]])))
    /\ UNCHANGED <<scope, in, at, len, seen>>

-----------------------------------------------------------------------------
(* Serial and parallel calls *)

\* The scope is copied.
BeginSerial(c) ==
    /\ Going(c, "begun") /\ Kind(c) = "serial"
    /\ own' = [own EXCEPT ![c] = CopyOf(Deref(scope[c]))]
    /\ Go(c, "waiting")
    /\ UNCHANGED <<scope, outs, in, at, len, seen, given, fate>>

\* Mutant: the scope is not the copy.
CallNextInScope(c) ==
    /\ Going(c, "waiting") /\ Kind(c) = "serial"
    /\ at[c] < Len(Run(c))
    /\ pc[Run(c)[at[c] + 1]] = "idle"
    /\ GoCalling(c, "waiting", {Run(c)[at[c] + 1]}, scope[c])
    /\ UNCHANGED <<outs, in, own, at, len, seen, given, fate>>

CallNext(c) ==
    /\ Going(c, "waiting") /\ Kind(c) = "serial"
    /\ at[c] < Len(Run(c))
    /\ pc[Run(c)[at[c] + 1]] = "idle"
    /\ GoCalling(c, "waiting", {Run(c)[at[c] + 1]}, <<"own", c>>)
    /\ UNCHANGED <<outs, in, own, at, len, seen, given, fate>>

TakeOutputs(c) ==
    /\ Going(c, "waiting") /\ Kind(c) = "serial"
    /\ at[c] < Len(Run(c))
    /\ pc[Run(c)[at[c] + 1]] = "ended"
    /\ \E o \in Outputs(Run(c)[at[c] + 1]) : own' = [own EXCEPT ![c] = Merge(own[c], o)]
    /\ MayDie(c, <<"own", c>>)
    /\ at' = [at EXCEPT ![c] = at[c] + 1]
    /\ UNCHANGED <<pc, scope, outs, in, len, seen, given>>

EndSerial(c) ==
    /\ Going(c, "waiting") /\ Kind(c) = "serial"
    /\ at[c] = Len(Run(c))
    /\ Finish(c, <<"own", c>>, own[c])
    /\ UNCHANGED <<scope, in, own, at, len, seen, fate>>

\* Every child has the same scope, the parent's.
CallAll(c) ==
    /\ Going(c, "begun") /\ Kind(c) = "parallel"
    /\ GoCalling(c, "waiting", Children(c), scope[c])
    /\ UNCHANGED <<outs, in, own, at, len, seen, given, fate>>

\* The outputs of the calls a call has made, whenever they were read.
Gathered(c, n) ==
    {got \in [1..n -> UNION {Outputs(Run(c)[i]) : i \in 1..n}] :
        \A i \in 1..n : got[i] \in Outputs(Run(c)[i])}

\* Mutant: outputs are merged in the order the events arrive.
EndParallelAsTheyCome(c) ==
    /\ Going(c, "waiting") /\ Kind(c) = "parallel"
    /\ \A d \in Children(c) : pc[d] = "ended"
    /\ \E got \in Gathered(c, Len(Run(c))) :
         \E order \in {f \in [1..Len(Run(c)) -> 1..Len(Run(c))] :
                          \A i, j \in 1..Len(Run(c)) : f[i] = f[j] => i = j} :
          EndWith(c, MergeAll(Empty, Len(Run(c)), [i \in 1..Len(Run(c)) |-> got[order[i]]]))
    /\ UNCHANGED <<scope, in, at, len, seen, fate>>

\* "construct parallel outputs": in the order of the children.
EndParallel(c) ==
    /\ Going(c, "waiting") /\ Kind(c) = "parallel"
    /\ \A d \in Children(c) : pc[d] = "ended"
    /\ \E got \in Gathered(c, Len(Run(c))) : EndWith(c, MergeAll(Empty, Len(Run(c)), got))
    /\ UNCHANGED <<scope, in, at, len, seen, fate>>

-----------------------------------------------------------------------------
(* Loops *)

\* Without vars an iteration has the loop's own scope.
GivenTo(c, d) == IF CallSpec[c].hasVars THEN <<"in", d>> ELSE scope[c]

InWith(p, m) == IF p[1] = "in" THEN [in EXCEPT ![p[2]] = m] ELSE in
OwnWith(p, m) == IF p[1] = "own" THEN [own EXCEPT ![p[2]] = m] ELSE own

\* The last iteration's scope.
Last(c) == IF at[c] = 0 THEN scope[c] ELSE GivenTo(c, Run(c)[at[c]])

\* loop.DeScope: what a loop leaves is its own scope but for its variables, which are
\* as they were for the parent.
LeftByLoop(c, parent, m) ==
    [k \in Keys |-> IF k \notin Restored(c) THEN m[k]
                    ELSE IF parent[k] = Unset THEN Nil ELSE parent[k]]

EndLoop(c, m) ==
    IF CallSpec[c].hasVars
    THEN EndWith(c, LeftByLoop(c, Deref(scope[c]), m))
    ELSE Finish(c, scope[c], Deref(scope[c])) /\ UNCHANGED own

\* (Bound: the calls there are to make.)
CallIteration(c, p, m) ==
    /\ at[c] < Len(Run(c))
    /\ LET d == Run(c)[at[c] + 1] IN
       /\ in' = IF CallSpec[c].hasVars THEN [in EXCEPT ![d] = m] ELSE in
       /\ GoCalling(c, p, {d}, GivenTo(c, d))
    /\ at' = [at EXCEPT ![c] = at[c] + 1]

\* iteration.Scope: without vars it is the one it is given.
IterationScope(c, i, m) == IF CallSpec[c].hasVars THEN ScopeOfIteration(c, i, m) ELSE Map(m)

\* The variables of iteration i and what the loop is then, or why there is none.
Look(c, i, m) ==
    Then(IterationScope(c, i, m), LAMBDA s :
    Then(Loop(c, s[2]), LAMBDA loop : <<"looked", s[2], loop[2]>>))

FailToIterate(look) ==
    /\ Fails(look)
    /\ Fail(look)
    /\ UNCHANGED <<pc, scope, outs, in, own, at, len, given>>

\* isIterationComplete.go:20: equal, not beyond.
IsComplete(i, loop) == loop.until \/ i = loop.length

IterateBy(c, look) ==
    \/ FailToIterate(look)
    \/ /\ ~Fails(look) /\ IsComplete(at[c], look[3])
       /\ EndLoop(c, look[2])
       /\ UNCHANGED <<scope, in, at, len, fate>>
    \/ /\ ~Fails(look) /\ ~IsComplete(at[c], look[3])
       /\ CallIteration(c, "waiting", look[2])
       /\ len' = [len EXCEPT ![c] = look[3].length]
       /\ UNCHANGED <<outs, own, given, fate>>

\* A serial loop is over when its index is the length of the range as it was
\* before the iteration, or when it is by what the iteration has output, or the
\* condition holds.
Iterate(c) ==
    /\ Going(c, "begun") /\ Kind(c) = "serialLoop"
    /\ \/ /\ at[c] > 0 /\ at[c] = len[c]
          /\ EndLoop(c, Deref(Last(c)))
          /\ UNCHANGED <<scope, in, at, len, fate>>
       \/ /\ ~(at[c] > 0 /\ at[c] = len[c])
          /\ IterateBy(c, Look(c, at[c], Deref(Last(c))))
    /\ UNCHANGED seen

\* The outputs go into the iteration's scope.  The loop asks for the event when
\* the iteration has ended, so it is a stored one.
TakeIteration(c) ==
    /\ Going(c, "waiting") /\ Kind(c) = "serialLoop"
    /\ pc[Run(c)[at[c]]] = "ended"
    /\ LET m == Merge(Deref(Last(c)), FromStore(Run(c)[at[c]])) IN
          in' = InWith(Last(c), m) /\ own' = OwnWith(Last(c), m)
    /\ MayDie(c, Last(c))
    /\ Go(c, "begun")
    /\ UNCHANGED <<scope, outs, at, len, seen, given>>

IsBeyond(i, loop) == i >= loop.length

LaunchBy(c, look) ==
    \/ FailToIterate(look)
    \/ /\ ~Fails(look) /\ IsBeyond(at[c], look[3])
       /\ IF at[c] = 0 THEN Finish(c, <<"own", c>>, Empty)
                       ELSE Go(c, "waiting") /\ UNCHANGED <<outs, given>>
       /\ UNCHANGED <<scope, in, own, at, len, fate>>
    \/ /\ ~Fails(look) /\ ~IsBeyond(at[c], look[3])
       /\ CallIteration(c, "begun", look[2])
       /\ UNCHANGED <<outs, own, len, given, fate>>

\* A parallel loop makes its calls while those before run.
Launch(c) ==
    /\ Going(c, "begun") /\ Kind(c) = "parallelLoop"
    /\ LaunchBy(c, Look(c, at[c], Deref(scope[c])))
    /\ UNCHANGED seen

\* The outputs go into the scope that the loop was given.
LeaveParallelLoop(c, m) ==
    /\ in' = InWith(scope[c], m)
    /\ IF CallSpec[c].hasVars
       THEN /\ own' = [OwnWith(scope[c], m) EXCEPT ![c] = LeftByLoop(c, m, m)]
            /\ Finish(c, <<"own", c>>, LeftByLoop(c, m, m))
       ELSE /\ own' = OwnWith(scope[c], m)
            /\ Finish(c, scope[c], m)

EndParallelLoop(c) ==
    /\ Going(c, "waiting") /\ Kind(c) = "parallelLoop"
    /\ \A i \in 1..at[c] : pc[Run(c)[i]] = "ended"
    /\ \E got \in Gathered(c, at[c]) :
          LeaveParallelLoop(c, MergeAll(Deref(scope[c]), at[c], got))
    /\ MayDie(c, scope[c])
    /\ UNCHANGED <<scope, at, len, seen>>

-----------------------------------------------------------------------------

Step(c) ==
    \/ Interpret(c) \/ RunContainer(c) \/ CallOp(c) \/ EndOp(c)
    \/ BeginSerial(c) \/ CallNext(c) \/ TakeOutputs(c) \/ EndSerial(c)
    \/ CallAll(c) \/ EndParallel(c)
    \/ Iterate(c) \/ TakeIteration(c) \/ Launch(c) \/ EndParallelLoop(c)

Next == \E c \in Calls : Step(c)

Spec == Init /\ [][Next]_vars

-----------------------------------------------------------------------------
(* Properties *)

Within(c) == CallSpec[c].within

\* "Variables in opspec are scoped to each operation" (website/docs/reference/
\* opspec/index.md:108): though maps are handed on and written to by whoever has
\* them, no call has one of a call of another op.
OpsAreScoped ==
    \A c \in Calls : pc[c] # "idle" => /\ Within(scope[c][2]) = Within(c)
                                       /\ Within(outs[c][2]) = Within(c)
=============================================================================
