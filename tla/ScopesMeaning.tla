--------------------------- MODULE ScopesMeaning ---------------------------
(***************************************************************************)
(* What the calls of an op mean, without maps that are shared: the variables *)
(* each one sees, by what its parent saw and the calls before it gave, and   *)
(* those it gives, by what it saw and its children gave.  By induction on    *)
(* the calls that is one meaning for each op, whatever the order in which    *)
(* they run.  Scopes is held against it.                                     *)
(***************************************************************************)
EXTENDS Scopes

Parent(c) == CHOOSE p \in Calls : c \in Children(p)
Place(c) == CHOOSE i \in 1..Len(Run(Parent(c))) : Run(Parent(c))[i] = c

GivenBy(c, n) == [i \in 1..n |-> given[Run(c)[i]]]

\* A serial loop's variables before iteration i, without its own; and with them.
Before(c, i) ==
    IF i = 0 THEN seen[c] ELSE Merge(seen[Run(c)[i]], given[Run(c)[i]])
Iteration(c, i, m) == IterationScope(c, i, m)[2]
During(c, i) == Iteration(c, i, Before(c, i))

Sees(p, i) ==
    CASE Kind(p) = "op" -> OpScope(p, Interpretation(p, seen[p]))
      [] Kind(p) = "serial" -> MergeAll(seen[p], i - 1, GivenBy(p, i - 1))
      [] Kind(p) = "parallel" -> seen[p]
      [] Kind(p) = "serialLoop" -> During(p, i - 1)
      [] Kind(p) = "parallelLoop" -> Iteration(p, i - 1, seen[p])

\* A serial loop goes on until its range, as it was, is used up, or it or the
\* condition says so now.
UsedUp(c, i) == i > 0 /\ i = Loop(c, seen[Run(c)[i]])[2].length
IsOver(c, i) ==
    CASE Kind(c) = "serialLoop" -> UsedUp(c, i) \/ IsComplete(i, Loop(c, During(c, i))[2])
      [] Kind(c) = "parallelLoop" -> IsBeyond(i, Loop(c, Iteration(c, i, seen[c]))[2])

\* The number of iterations is the first one to end the loop.
IteratesRightly(c) ==
    Kind(c) \in {"serialLoop", "parallelLoop"} =>
        \A i \in 0..at[c] : IsOver(c, i) <=> i = at[c]

Left(c, parent, m) == IF CallSpec[c].hasVars THEN LeftByLoop(c, parent, m) ELSE m

Gives(c) ==
    CASE Kind(c) = "container" -> Leaves(c, seen[c])
      [] Kind(c) = "op" -> OpOutputs(c, given[Run(c)[1]])[2]
      [] Kind(c) = "serial" -> MergeAll(seen[c], Len(Run(c)), GivenBy(c, Len(Run(c))))
      [] Kind(c) = "parallel" -> MergeAll(Empty, Len(Run(c)), GivenBy(c, Len(Run(c))))
      [] Kind(c) = "serialLoop" ->
            Left(c, seen[c], IF UsedUp(c, at[c]) THEN Before(c, at[c]) ELSE During(c, at[c]))
      [] Kind(c) = "parallelLoop" ->
            IF at[c] = 0 THEN Empty
            ELSE LET m == MergeAll(seen[c], at[c], GivenBy(c, at[c])) IN Left(c, m, m)

\* Calls that write to the map they are given: a parallel loop, a loop without
\* vars, and what has such a child and hands its map on.
Writes[c \in Calls] ==
    \/ Kind(c) = "parallelLoop"
    \/ Kind(c) = "serialLoop" /\ ~CallSpec[c].hasVars
    \/ Kind(c) = "parallel" /\ \E d \in Children(c) : Writes[d]

\* Calls that hand their own map on.
Hands(c) == Kind(c) = "parallel" \/ (Kind(c) \in {"serialLoop", "parallelLoop"}
                                     /\ ~CallSpec[c].hasVars)

\* Two calls run at a time with one map, and one writes to it.  A parallel loop goes
\* on reading its own while its first iteration runs.
Exposes(c) ==
    /\ Hands(c)
    /\ (Kind(c) = "parallel" /\ Len(Run(c)) > 1) \/ Kind(c) = "parallelLoop"
    /\ \E d \in Children(c) : Writes[d]

\* Calls that publish the map they are given, as their outputs or those of a call
\* that they hand it to.
Publishes[c \in Calls] ==
    \/ Kind(c) \in {"serialLoop", "parallelLoop"} /\ ~CallSpec[c].hasVars
    \/ Kind(c) = "parallel" /\ \E d \in Children(c) : Publishes[d]

\* A call goes on writing to its map when an event with it is out.
Overwrites(c) == Kind(c) \in {"serial", "serialLoop"} /\ \E d \in Children(c) : Publishes[d]

Family[c \in Calls] == {c} \cup UNION {Family[d] : d \in Children(c)}

\* Calls are a tree, from which all of these are computed.
ASSUME TreeAssumption ==
    \A c \in Calls :
       /\ Writes[c] <=> \/ Kind(c) = "parallelLoop"
                        \/ Kind(c) = "serialLoop" /\ ~CallSpec[c].hasVars
                        \/ Kind(c) = "parallel" /\ \E d \in Children(c) : Writes[d]
       /\ Publishes[c] <=> \/ Kind(c) \in {"serialLoop", "parallelLoop"} /\ ~CallSpec[c].hasVars
                           \/ Kind(c) = "parallel" /\ \E d \in Children(c) : Publishes[d]
       /\ Publishes[c] => Writes[c]
       /\ Family[c] \subseteq Calls
       /\ Family[c] = {c} \cup UNION {Family[d] : d \in Children(c)}
       /\ \A d \in Family[c] : Family[d] \subseteq Family[c] /\ (d \in Roots => d = c)
       /\ \A d \in Children(c) :
             /\ c \notin Family[d]
             /\ \A a \in Calls : d \in Family[a] => d = a \/ c \in Family[a]
       /\ \A i, j \in 1..Len(Run(c)) : Run(c)[i] = Run(c)[j] => i = j

ExposedRoots == {r \in Roots : \E c \in Family[r] : Exposes(c)}
Exposed == \E r \in ExposedRoots : pc[r] # "idle"

Overwritten == \E r \in Roots : pc[r] # "idle" /\ \E c \in Family[r] : Overwrites(c)

\* The event store has other outputs than were given: what is in an array of an op
\* file.
Altered == \E c \in Calls : pc[c] = "ended" /\ FromStore(c) # given[c]

-----------------------------------------------------------------------------

\* Calls see and give what they mean, in whatever order parallel ones run, start
\* and end, and whether a parent reads a child's event live or from the store; if no
\* call that writes to the map it was given (parallelLoopCaller.go:147, scope.go:35)
\* runs beside another one that has it, and the store has changed no outputs so far
\* (eventStore.go:36, of value/interpret.go:85).
CallsMeanWhatTheySay ==
    (~Exposed /\ ~Altered) => \A c \in Calls :
        /\ (c \notin Roots /\ pc[c] \in {"begun", "waiting", "ended"})
              => seen[c] = Sees(Parent(c), Place(c))
        /\ pc[c] = "ended" => IF Interpretation(c, seen[c]) # Skip
                              THEN given[c] = Gives(c) /\ IteratesRightly(c)
                              ELSE given[c] = Empty

\* The node is ended by a map that is in use when it is written to only where calls
\* run so, or where a call writes to a map that it has published, for others to
\* write as JSON meanwhile (pubSub.go:136): a serial call or loop with a loop without
\* vars in it (serialCaller.go:101, serialLoopCaller.go:122).
DiesOnlyIfExposed == fate = "died" => Exposed \/ Overwritten
=============================================================================
