------------------------------ MODULE CallTree ------------------------------
(***************************************************************************)
(* The running of an op: the tree  of calls that caller.go and the callers  *)
(* it dispatches to (containerCaller, opCaller, serialCaller,               *)
(* serialLoopCaller, parallelCaller, parallelLoopCaller) walk, and the kill *)
(* loop of core.go and callKiller.go beside it.                             *)
(*                                                                         *)
(* Calls talk to each other through the node's event bus.  A serial,        *)
(* parallel or loop call learns that a child ended only from the child's    *)
(* CallEnded event, read from a subscription of its own; a call learns that *)
(* it is to be killed from a CallKillRequested event.  The bus is the one   *)
(* of module PubSub, cut down to what a call can tell apart: a subscription *)
(* registers, takes a snapshot of the store, replays it and then gets the   *)
(* live events in any order, so that an event published between             *)
(* registration and snapshot comes twice; and it looks at its context only  *)
(* when it has an event to send.                                            *)
(*                                                                         *)
(* Contexts are derived from the state of the calls above: see CtxDone.     *)
(***************************************************************************)
EXTENDS Integers, Sequences, FiniteSets

CONSTANTS
    Calls,        \* the calls of an op, loop iterations included
    Ops,          \* the ops, of which a behaviour runs one
    EndedElsewhere, \* a CallEnded event of a call that is not a child
    OtherEvent      \* any other event of the op

VARIABLE op       \* the op that is run

Root == op.root                \* the call it begins with
Kind == op.kind                \* "container", "op", "serial", "serialLoop", "parallel" or "parallelLoop"
Children == op.children        \* Children[c]: the calls c makes, in order
Needs == op.needs              \* Needs[c]: the siblings call c needs
Services == op.services        \* containers that run until they are stopped
Conditional == op.conditional  \* calls with an `if`
Fallible == op.fallible        \* calls that may fail by themselves
Killable == op.killable        \* calls a user may ask to kill
Panicky == op.panicky          \* calls that may panic

Above == op.above              \* Above[c]: the calls above c, the ones whose contexts it inherits

OffspringIn(o, c) == {o.children[c][i] : i \in DOMAIN o.children[c]}
ParentsIn(o, c) == {p \in Calls : c \in OffspringIn(o, p)}
Offspring(c) == OffspringIn(op, c)
Parents(c) == ParentsIn(op, c)

\* The parentID a call is given: a loop passes its own parent's ID on.
ParentID[c \in Calls] ==
    IF Parents(c) = {} THEN c
    ELSE LET p == CHOOSE p \in Parents(c) : TRUE
         IN  IF Kind[p] \in {"serialLoop", "parallelLoop"} THEN ParentID[p] ELSE p

\* Every call has at most one place in the tree, and the root is above them all.
IsOp(o) ==
    /\ o.root \in Calls
    /\ o.kind \in [Calls -> {"container", "op", "serial", "serialLoop",
                             "parallel", "parallelLoop"}]
    /\ o.children \in [Calls -> Seq(Calls)]
    /\ \A p, q \in Calls : p # q => OffspringIn(o, p) \cap OffspringIn(o, q) = {}
    /\ \A p \in Calls : o.root \notin OffspringIn(o, p)
    /\ \A p \in Calls : \A i, j \in DOMAIN o.children[p] :
          i # j => o.children[p][i] # o.children[p][j]
    /\ o.above \in [Calls -> SUBSET Calls]
    /\ \A c \in Calls :
          o.above[c] = ParentsIn(o, c) \cup UNION {o.above[p] : p \in ParentsIn(o, c)}
    /\ o.needs \in [Calls -> SUBSET Calls]
    /\ \A p, c \in Calls : c \in OffspringIn(o, p) => o.needs[c] \subseteq OffspringIn(o, p)
    /\ \A cs \in {o.services, o.conditional, o.fallible, o.killable, o.panicky} : cs \subseteq Calls

ASSUME OpsAssumption ==
    /\ \A o \in Ops : IsOp(o)
    /\ {EndedElsewhere, OtherEvent} \cap Calls = {}

VARIABLES
    pc,       \* where each call is
    ret,      \* how the call's handler returned: "none" (not yet), "ok", "err" or "panic"
    outcome,  \* the outcome in the call's CallEnded event, "none" before it
    next,     \* the position of the child a call makes next
    seen,     \* children whose CallEnded a parallel call has handled
    needed,   \* childCallNeededCountByName, kept per needed call
    killed,   \* calls with isKilled set (their context is cancelled with it)
    sub,      \* the state of each call's subscription
    stored,   \* events since the subscription's Since in the store
    replay,   \* stored events the subscription has yet to send
    live,     \* events blocked on the subscription
    killReq,  \* calls whose kill request their listener will be sent
    killQueue,\* kill requests the node's kill loop has yet to handle
    started,  \* calls whose CallStarted was published
    stopped,  \* containers the kill loop has stopped
    asked     \* calls a user asked to kill: once each, to bound the model

callVars == <<pc, ret, outcome, next, seen, needed, killed>>
busVars  == <<stored, live>>
subVars  == <<sub, replay>>
nodeVars == <<op, killReq, killQueue, started, stopped, asked>>
vars == <<callVars, busVars, subVars, nodeVars>>

-----------------------------------------------------------------------------
(* Contexts *)

Returned(c) == pc[c] \in {"returning", "ended"}
IsParallel(c) == Kind[c] \in {"parallel", "parallelLoop"}
ChildErred(p) == \E c \in seen[p] : outcome[c] = "failed"

\* A panic unwinds the calls of a goroutine, and is recovered where it began.
ChildPanicked(p) == \E c \in Offspring(p) : ret[c] = "panic" /\ pc[c] = "ended"

\* The context a call passes to its children is done: the call was killed or
\* is over, or its parallelCtx was cancelled (on a child's error or panic, and
\* by the defer when the parallel handler returns).
PassesDone(p) ==
    \/ p \in killed
    \/ pc[p] = "ended"
    \/ IsParallel(p) /\ (ChildErred(p) \/ ChildPanicked(p) \/ Returned(p))

\* The context a call was given, and the callCtx it makes of it, are done.
CtxDone(c) == \E p \in Above[c] : PassesDone(p)
CallCtxDone(c) == CtxDone(c) \/ c \in killed \/ pc[c] = "ended"

-----------------------------------------------------------------------------
(* Events *)

Ended(c) == [p \in Calls |-> IF c \in Offspring(p) THEN c ELSE EndedElsewhere]
Other == [p \in Calls |-> OtherEvent]

\* Mutant: subscriptions are not retroactive.
StoredOnceRegistered(event) ==
    [p \in Calls |-> IF sub[p] = "registered"
                     THEN stored[p] \cup {event[p]} ELSE stored[p]]

\* A published event is stored, which matters to subscriptions whose Since is
\* set, and delivered to those in the subscription map beside the events that
\* are blocked there.
Stored(event) ==
    [p \in Calls |-> IF sub[p] \in {"since", "spawned", "registered"}
                     THEN stored[p] \cup {event[p]} ELSE stored[p]]
Delivered(event, blocked) ==
    [p \in Calls |-> IF sub[p] \in {"registered", "open"} /\ ~Returned(p)
                     THEN blocked[p] \cup {event[p]} ELSE blocked[p]]

Publish(event) ==
    /\ stored' = Stored(event)
    /\ live' = Delivered(event, live)

\* Publish a kill request for each of some calls.  The listener of a call asks
\* for events since the call's start, so a request made before that passes it by.
RequestKill(cs, blocked) ==
    /\ killReq' = killReq \cup {c \in cs : pc[c] \notin {"idle", "launched"}}
    /\ stored' = Stored(Other)
    /\ live' = Delivered(Other, blocked)

-----------------------------------------------------------------------------
Init ==
    /\ op \in Ops
    /\ pc = [c \in Calls |-> IF c = Root THEN "launched" ELSE "idle"]
    /\ ret = [c \in Calls |-> "none"]
    /\ outcome = [c \in Calls |-> "none"]
    /\ next = [c \in Calls |-> 1]
    /\ seen = [c \in Calls |-> {}]
    /\ needed = [c \in Calls |-> 0]
    /\ killed = {}
    /\ sub = [c \in Calls |-> "none"]
    /\ stored = [c \in Calls |-> {}]
    /\ replay = [c \in Calls |-> {}]
    /\ live = [c \in Calls |-> {}]
    /\ killReq = {}
    /\ killQueue = {}
    /\ started = {}
    /\ stopped = {}
    /\ asked = {}

-----------------------------------------------------------------------------
(* caller.Call *)

GoTo(c, point) == pc' = [pc EXCEPT ![c] = point]

Return(c, value) ==
    /\ GoTo(c, "returning")
    /\ ret' = [ret EXCEPT ![c] = value]

\* What a handler may return where its own work can go wrong.
Results(c) == {"ok"} \cup (IF c \in Fallible THEN {"err"} ELSE {})

\* "if context done NOOP": the call returns without a single event.
Skip(c) ==
    /\ pc[c] = "launched"
    /\ CtxDone(c)
    /\ GoTo(c, "noop")
    /\ UNCHANGED <<ret, outcome, next, seen, needed, killed, busVars, subVars, nodeVars>>

\* callStartTime is taken and the context is not done.
Enter(c) ==
    /\ pc[c] = "launched"
    /\ ~CtxDone(c)
    /\ GoTo(c, "entered")
    /\ UNCHANGED <<ret, outcome, next, seen, needed, killed, busVars, subVars, nodeVars>>

\* The spec cannot be interpreted, or its `if` is false: no CallStarted.
NotStarted(c) ==
    /\ pc[c] = "entered"
    /\ \/ c \in Fallible /\ Return(c, "err")
       \/ c \in Conditional /\ Return(c, "ok")
    /\ UNCHANGED <<outcome, next, seen, needed, killed, busVars, subVars, nodeVars>>

\* CallStarted is published and the kill listener is started.
Start(c) ==
    /\ pc[c] = "entered"
    /\ GoTo(c, "started")
    /\ started' = started \cup {c}
    /\ Publish(Other)
    /\ UNCHANGED <<ret, outcome, next, seen, needed, killed, subVars,
                   op, killReq, killQueue, stopped, asked>>

\* The kill listener gets the request for its own call: isKilled, cancelCall.
HearKill(c) ==
    /\ c \in (killReq \cap started) \ killed
    /\ pc[c] # "ended"
    /\ killed' = killed \cup {c}
    /\ UNCHANGED <<pc, ret, outcome, next, seen, needed, busVars, subVars, nodeVars>>

\* Mutants: an error wins over being killed; only the call's own kill counts;
\* the outcome is what the handler returned.
OutcomeErrorFirst(c) ==
    CASE ret[c] = "err" -> "failed"
      [] ret[c] # "err" /\ (c \in killed \/ CtxDone(c)) -> "killed"
      [] OTHER -> "succeeded"
OutcomeOwnKillOnly(c) ==
    CASE c \in killed -> "killed"
      [] c \notin killed /\ ret[c] = "err" -> "failed"
      [] OTHER -> "succeeded"

\* A reference to null, say, panics while the call is interpreted or handled.
Panic(c) ==
    /\ pc[c] \in {"entered", "started"}
    /\ c \in Panicky
    /\ Return(c, "panic")
    /\ UNCHANGED <<outcome, next, seen, needed, killed, busVars, subVars, nodeVars>>

\* The deferred function publishes CallEnded.  Killed wins over failed, and a
\* panic is no error.
OutcomeOf(c) ==
    IF c \in killed \/ CtxDone(c) THEN "killed"
    ELSE IF ret[c] = "err" THEN "failed" ELSE "succeeded"

\* The calls a panic unwinds next.
Unwound(c) ==
    IF ret[c] = "panic" THEN {p \in Parents(c) : ~IsParallel(p)} ELSE {}

End(c) ==
    /\ pc[c] = "returning"
    /\ pc' = [d \in Calls |-> CASE d = c -> "ended"
                                [] d \in Unwound(c) -> "returning"
                                [] OTHER -> pc[d]]
    /\ ret' = [d \in Calls |-> IF d \in Unwound(c) THEN "panic" ELSE ret[d]]
    /\ outcome' = [outcome EXCEPT ![c] = OutcomeOf(c)]
    /\ Publish(Ended(c))
    /\ UNCHANGED <<next, seen, needed, killed, subVars, nodeVars>>

-----------------------------------------------------------------------------
(* containerCaller and opCaller *)

\* RunContainer returns: the container exits, is stopped, or the context is done.
ContainerReturns(c) ==
    /\ pc[c] = "started"
    /\ Kind[c] = "container"
    /\ \/ c \notin Services /\ \E r \in Results(c) : Return(c, r)
       \/ (c \in stopped \/ CallCtxDone(c)) /\ \E r \in {"ok", "err"} : Return(c, r)
    /\ UNCHANGED <<outcome, next, seen, needed, killed, busVars, subVars, nodeVars>>

Child(p) == Children[p][next[p]]
HasChild(p) == next[p] \in DOMAIN Children[p]

\* The op's own call is made on the same goroutine.
CallOp(p) ==
    /\ pc[p] = "started"
    /\ Kind[p] = "op"
    /\ HasChild(p)
    /\ pc' = [pc EXCEPT ![p] = "calling", ![Child(p)] = "launched"]
    /\ UNCHANGED <<ret, outcome, next, seen, needed, killed, busVars, subVars, nodeVars>>

\* Its error is returned as it is; else the op's outputs are interpreted.
OpReturns(p) ==
    /\ pc[p] = "calling"
    /\ Kind[p] = "op"
    /\ pc[Child(p)] \in {"ended", "noop"}
    /\ IF ret[Child(p)] = "err" THEN Return(p, "err")
                                ELSE \E r \in Results(p) : Return(p, r)
    /\ UNCHANGED <<outcome, next, seen, needed, killed, busVars, subVars, nodeVars>>

-----------------------------------------------------------------------------
(* serialCaller and serialLoopCaller *)

IsSerial(p) == Kind[p] \in {"serial", "serialLoop"}

\* Make the next child's call and wait for it to return.  A serial call has
\* subscribed, once, before its first child; a serial loop notes the time of
\* each iteration and subscribes after it.
CallNext(p) ==
    /\ pc[p] = "started"
    /\ IsSerial(p)
    /\ HasChild(p)
    /\ pc' = [pc EXCEPT ![p] = "calling", ![Child(p)] = "launched"]
    /\ \/ /\ Kind[p] = "serial"
          /\ sub' = [sub EXCEPT ![p] = IF @ = "none" THEN "spawned" ELSE @]
          /\ UNCHANGED <<stored, replay, live>>
       \/ /\ Kind[p] = "serialLoop"
          /\ sub' = [sub EXCEPT ![p] = "since"]
          /\ stored' = [stored EXCEPT ![p] = {}]
          /\ replay' = [replay EXCEPT ![p] = {}]
          /\ live' = [live EXCEPT ![p] = {}]
    /\ UNCHANGED <<ret, outcome, next, seen, needed, killed, nodeVars>>

\* Mutant: the child's call is made in a goroutine.
AwaitEventOnly(p) ==
    /\ pc[p] = "calling"
    /\ IsSerial(p)
    /\ GoTo(p, "awaiting")
    /\ sub' = [sub EXCEPT ![p] = IF @ = "since" THEN "spawned" ELSE @]
    /\ UNCHANGED <<ret, outcome, next, seen, needed, killed, busVars, replay, nodeVars>>

Await(p) ==
    /\ pc[p] = "calling"
    /\ IsSerial(p)
    /\ pc[Child(p)] \in {"ended", "noop"}
    /\ GoTo(p, "awaiting")
    /\ sub' = [sub EXCEPT ![p] = IF @ = "since" THEN "spawned" ELSE @]
    /\ UNCHANGED <<ret, outcome, next, seen, needed, killed, busVars, replay, nodeVars>>

\* No child is left, or the loop's `until` holds or cannot be evaluated.
SerialReturns(p) ==
    /\ pc[p] = "started"
    /\ IsSerial(p)
    /\ \/ ~HasChild(p) /\ Return(p, "ok")
       \/ Kind[p] = "serialLoop" /\ p \in Conditional /\ Return(p, "ok")
       \/ Kind[p] = "serialLoop" /\ p \in Fallible /\ Return(p, "err")
    /\ UNCHANGED <<outcome, next, seen, needed, killed, busVars, subVars, nodeVars>>

\* Mutant: the event's Error is not looked at.
SerialHandlesAnyEnd(p, event) ==
    /\ IF event # Child(p)
         THEN UNCHANGED <<pc, next>>
         ELSE GoTo(p, "started") /\ next' = [next EXCEPT ![p] = @ + 1]
    /\ UNCHANGED <<ret, outcome, seen, needed, killed>>

\* What the event loop does with an event.
SerialHandles(p, event) ==
    /\ IF event # Child(p)
         THEN UNCHANGED <<pc, ret, next>>
         ELSE IF outcome[event] = "failed"
                THEN Return(p, "err") /\ UNCHANGED next
                ELSE /\ GoTo(p, "started")
                     /\ next' = [next EXCEPT ![p] = @ + 1]
                     /\ UNCHANGED ret
    /\ UNCHANGED <<outcome, seen, needed, killed>>

-----------------------------------------------------------------------------
(* parallelCaller and parallelLoopCaller *)

\* The siblings some child needs, by how many: a loop's children have no needs.
NeedCount(p, n) == Cardinality({c \in Offspring(p) : n \in Needs[c]})
Needed(p) == IF Kind[p] = "parallel" THEN UNION {Needs[c] : c \in Offspring(p)} ELSE {}

\* Mutant: needs are not counted.
LaunchAllUncounted(p) ==
    /\ pc[p] = "started"
    /\ Kind[p] = "parallel"
    /\ pc' = [c \in Calls |-> CASE c = p -> "awaiting"
                                [] c \in Offspring(p) -> "launched"
                                [] OTHER -> pc[c]]
    /\ sub' = [sub EXCEPT ![p] = "spawned"]
    /\ UNCHANGED <<ret, outcome, next, seen, needed, killed, busVars, replay, nodeVars>>

\* Count what is needed, start a goroutine for every child, then subscribe.
LaunchAll(p) ==
    /\ pc[p] = "started"
    /\ Kind[p] = "parallel"
    /\ pc' = [c \in Calls |-> CASE c = p -> "awaiting"
                                [] c \in Offspring(p) -> "launched"
                                [] OTHER -> pc[c]]
    /\ needed' = [n \in Calls |-> IF n \in Needed(p) THEN NeedCount(p, n) ELSE needed[n]]
    /\ sub' = [sub EXCEPT ![p] = "spawned"]
    /\ UNCHANGED <<ret, outcome, next, seen, killed, busVars, replay, nodeVars>>

\* A parallel loop interprets its iterations one by one, starting a goroutine
\* for each, so the first children may be running when a later one cannot be
\* interpreted and the loop returns the error.
LaunchNext(p) ==
    /\ pc[p] = "started"
    /\ Kind[p] = "parallelLoop"
    /\ \/ /\ HasChild(p)
          /\ GoTo(Child(p), "launched")
          /\ next' = [next EXCEPT ![p] = @ + 1]
          /\ sub' = [sub EXCEPT ![p] = "since"]
          /\ UNCHANGED ret
       \/ /\ p \in Fallible
          /\ Return(p, "err")
          /\ UNCHANGED <<next, sub>>
       \/ /\ ~HasChild(p)
          /\ IF Offspring(p) = {}
               THEN Return(p, "ok") /\ UNCHANGED sub
               ELSE /\ GoTo(p, "awaiting")
                    /\ sub' = [sub EXCEPT ![p] = "spawned"]
                    /\ UNCHANGED ret
          /\ UNCHANGED next
    /\ UNCHANGED <<outcome, seen, needed, killed, busVars, replay, nodeVars>>

\* The counts after an event, and the siblings it leaves nobody in need of.
CountsAfter(event) ==
    [n \in Calls |-> IF n \in Needs[event] THEN needed[n] - 1 ELSE needed[n]]
Unneeded(p, event) ==
    IF event \in Offspring(p) THEN {n \in Needed(p) : CountsAfter(event)[n] < 1} ELSE {}

SeenAfter(p, event) == seen[p] \cup ({event} \cap Offspring(p))

\* What the event loop does with an event: count it, and return once every
\* child's CallEnded has been seen.
ParallelHandles(p, event) ==
    /\ seen' = [seen EXCEPT ![p] = SeenAfter(p, event)]
    /\ IF event \in Offspring(p)
         THEN needed' = CountsAfter(event) ELSE UNCHANGED needed
    /\ IF SeenAfter(p, event) = Offspring(p) /\ event # OtherEvent
         THEN Return(p, IF \E c \in SeenAfter(p, event) : outcome[c] = "failed"
                          THEN "err" ELSE "ok")
         ELSE UNCHANGED <<pc, ret>>
    /\ UNCHANGED <<outcome, next, killed>>

-----------------------------------------------------------------------------
(* The subscription of a serial, parallel or loop call.  Once its call has   *)
(* returned nobody reads it; what becomes of it then is PubSub's matter.     *)

Register(p) ==
    /\ sub[p] = "spawned"
    /\ ~Returned(p)
    /\ sub' = [sub EXCEPT ![p] = "registered"]
    /\ UNCHANGED <<callVars, busVars, replay, nodeVars>>

Snapshot(p) ==
    /\ sub[p] = "registered"
    /\ ~Returned(p)
    /\ sub' = [sub EXCEPT ![p] = "open"]
    /\ replay' = [replay EXCEPT ![p] = stored[p]]
    /\ stored' = [stored EXCEPT ![p] = {}]  \* what is stored later comes live
    /\ UNCHANGED <<callVars, live, nodeVars>>

\* The next event of the subscription: stored ones first.
Pending(p) == IF replay[p] # {} THEN replay[p] ELSE live[p]

\* An event reaches the event loop of the call.  The handler may publish kill
\* requests; and the replay looks at its context after each event.
Deliver(p) ==
    /\ pc[p] = "awaiting"
    /\ sub[p] = "open"
    /\ \E event \in Pending(p) :
          LET unneeded == Unneeded(p, event)
              rest == IF replay[p] # {} THEN live
                                        ELSE [live EXCEPT ![p] = @ \ {event}]
          IN  /\ replay' = [replay EXCEPT ![p] = @ \ {event}]
              /\ sub' = [sub EXCEPT ![p] = IF replay[p] # {} /\ CallCtxDone(p)
                                           THEN "closed" ELSE "open"]
              /\ \/ IsSerial(p) /\ SerialHandles(p, event)
                 \/ IsParallel(p) /\ ParallelHandles(p, event)
              /\ IF unneeded = {}
                   THEN /\ live' = rest
                        /\ UNCHANGED <<stored, killReq, killQueue>>
                   ELSE /\ RequestKill(unneeded, rest)
                        /\ killQueue' = killQueue \cup unneeded
    /\ UNCHANGED <<op, started, stopped, asked>>

\* With an event to send, the subscription finds its context done and closes.
Close(p) ==
    /\ sub[p] = "open"
    /\ ~Returned(p)
    /\ Pending(p) # {}
    /\ CallCtxDone(p)
    /\ sub' = [sub EXCEPT ![p] = "closed"]
    /\ UNCHANGED <<callVars, busVars, replay, nodeVars>>

\* The event loop ends with its channel: a serial call goes on to its next
\* child, a parallel call returns what it has.
ChannelClosed(p) ==
    /\ pc[p] = "awaiting"
    /\ sub[p] = "closed"
    /\ \/ /\ IsSerial(p)
          /\ GoTo(p, "started")
          /\ next' = [next EXCEPT ![p] = @ + 1]
          /\ UNCHANGED ret
       \/ /\ IsParallel(p)
          /\ Return(p, "ok")
          /\ UNCHANGED next
    /\ UNCHANGED <<outcome, seen, needed, killed, busVars, subVars, nodeVars>>

-----------------------------------------------------------------------------
(* The rest of the node: KillOp, the kill loop and the state store *)

KillOp(c) ==
    /\ c \in Killable \ (killReq \cup asked)
    /\ asked' = asked \cup {c}
    /\ pc[c] # "idle"
    /\ RequestKill({c}, live)
    /\ killQueue' = killQueue \cup {c}
    /\ UNCHANGED <<callVars, subVars, op, started, stopped>>

\* core's loop calls Kill: it deletes the call's container, if there is one by
\* now, and asks for a kill of the call's children, as far as the state store
\* has heard of them yet (see StateStore).
Kill(c) ==
    /\ c \in killQueue
    /\ stopped' \in {stopped,
                     stopped \cup {d \in {c} : Kind[d] = "container" /\ pc[d] = "started"}}
    /\ \E children \in SUBSET {d \in started \ {Root} : ParentID[d] = c} :
          /\ killQueue' = (killQueue \ {c}) \cup children
          /\ IF children = {} THEN UNCHANGED <<killReq, busVars>>
                              ELSE RequestKill(children, live)
    /\ UNCHANGED <<callVars, subVars, op, started, asked>>

-----------------------------------------------------------------------------
CallStep(c) ==
    \/ Skip(c) \/ Enter(c) \/ NotStarted(c) \/ Start(c) \/ Panic(c) \/ End(c)
    \/ ContainerReturns(c) \/ CallOp(c) \/ OpReturns(c)
    \/ CallNext(c) \/ Await(c) \/ SerialReturns(c)
    \/ LaunchAll(c) \/ LaunchNext(c) \/ Deliver(c) \/ ChannelClosed(c)

SubStep(c) == Register(c) \/ Snapshot(c) \/ Close(c)

Next == \E c \in Calls : CallStep(c) \/ SubStep(c) \/ HearKill(c) \/ Kill(c) \/ KillOp(c)

Spec == Init /\ [][Next]_vars

\* Goroutines run: as long as some call, subscription or listener, or the kill
\* loop can move, one of them does.  That is less than fairness to each, and
\* enough, as none can move for ever.  A user need not kill anything.
Fairness ==
    WF_vars(\E c \in Calls : CallStep(c) \/ SubStep(c) \/ HearKill(c) \/ Kill(c))

FairSpec == Spec /\ Fairness

-----------------------------------------------------------------------------
(* Properties *)

TypeOK ==
    /\ op \in Ops
    /\ pc \in [Calls -> {"idle", "launched", "noop", "entered", "started",
                         "calling", "awaiting", "returning", "ended"}]
    /\ ret \in [Calls -> {"none", "ok", "err", "panic"}]
    /\ outcome \in [Calls -> {"none", "succeeded", "failed", "killed"}]
    /\ next \in [Calls -> Nat]
    /\ seen \in [Calls -> SUBSET Calls]
    /\ needed \in [Calls -> Int]
    /\ killed \subseteq Calls
    /\ sub \in [Calls -> {"none", "since", "spawned", "registered", "open", "closed"}]
    /\ \A events \in {stored, replay, live} :
          events \in [Calls -> SUBSET (Calls \cup {EndedElsewhere, OtherEvent})]
    /\ killReq \subseteq Calls
    /\ killQueue \subseteq Calls
    /\ started \subseteq Calls
    /\ stopped \subseteq Calls
    /\ asked \subseteq Killable

Over(c) == pc[c] \in {"ended", "noop"}

\* A call reports success only when it is right about all its children: none
\* is still running, none was skipped, and none failed.  Each call learns this
\* from events that come twice, late and out of order, while errors and kills
\* cut it short (serialCaller.go 92-106, parallelCaller.go 144-199,
\* parallelLoopCaller.go 149-181, opCaller.go 87-89).  But for a panic: the calls
\* it unwinds count as succeeded, as no error is set (caller.go:137).
SuccessIsComplete ==
    \A p \in Calls : (outcome[p] = "succeeded" /\ ret[p] # "panic") =>
        \A c \in Offspring(p) : /\ pc[c] \in {"idle", "ended"}
                                /\ outcome[c] # "failed"

\* A call that fails has a reason to: something of its own went wrong, its
\* container was stopped, or a child failed (an op takes its call being killed
\* for a failure as well).  Being cancelled is not one, though it makes handlers
\* return errors (caller.go 129-139).
FailsForAReason ==
    \A p \in Calls : outcome[p] = "failed" =>
        \/ p \in Fallible \cup stopped
        \/ \E c \in Offspring(p) : \/ outcome[c] = "failed"
                                   \/ Kind[p] = "op" /\ outcome[c] = "killed"

\* A serial call makes one call at a time, in order: while a child runs all
\* earlier ones are over and all later ones have not been made.
OneAtATime ==
    \A p \in Calls : IsSerial(p) =>
        \A i, j \in DOMAIN Children[p] :
            (i < j /\ pc[Children[p][j]] # "idle") => Over(Children[p][i])

\* "When the named calls are no longer needed (by this or any other call), they
\* will be killed" (website/docs/reference/opspec/op-directory/op/call/index.md:50):
\* unless a user asks for it, not while a call that needs them is running.
NotKilledWhileNeeded ==
    \A n \in (killReq \cup killQueue) \ Killable :
        (\A p \in Above[n] : p \notin killed) =>
            \A c \in Calls : n \in Needs[c] => Over(c)

\* What a call may wait for in vain: the CallEnded of a child that was cancelled
\* before it was entered (caller.go:105); any event, if it has no child
\* (parallelCaller.go:180); and the end of a service that was asked to end before
\* it listened (caller.go:227), or that nobody needs.
Stranded(c) ==
    \/ pc[c] = "awaiting" /\ \E d \in Offspring(c) : pc[d] = "noop"
    \/ pc[c] = "awaiting" /\ Offspring(c) = {}
    \/ c \in Services /\ pc[c] = "started" /\ c \notin killReq

\* The calls that wait for a call, itself included.
Waiting(c) == {c} \cup Above[c]

\* The op comes to an end, and with it every call that was made, though callers
\* wait for events that come reordered and repeated, errors cut handlers short
\* and kills land between any two steps; but for those that wait for something
\* stranded.
EveryCallEnds ==
    <>[](\A c \in Calls : \/ pc[c] = "idle" \/ Over(c)
                          \/ \E d \in Calls : Stranded(d) /\ c \in Waiting(d))

\* "cancel all children on any error" (parallelCaller.go:152): once a child has
\* failed, its parent ends.
ErrorEndsParent ==
    \A p, c \in Calls : (c \in Offspring(p) /\ outcome[c] = "failed") ~> Over(p)
=============================================================================
