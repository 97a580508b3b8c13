------------------------------ MODULE RunOutput ------------------------------
(***************************************************************************)
(* What a run shows of its op (cli/cmd/run.go, cli/internal/opgraph,         *)
(* cli/internal/clioutput): the node publishes events of the op's calls      *)
(* (CallTree), the run's subscription delivers them (PubSub), and the run     *)
(* keeps a graph of the calls.  Composed with how it gets its args           *)
(* (CliParams), and with the nodes that come and go (OpRun).                  *)
(***************************************************************************)
EXTENDS CliParams

CONSTANTS
    Root,       \* the op's own call
    Subcalls,   \* the calls below it
    ParentOf    \* the call whose ID is a call's ParentID

Tree == {Root} \cup Subcalls

ASSUME TreeAssumption ==
    /\ Root \notin Subcalls
    /\ ParentOf \in [Subcalls -> Tree]

VARIABLES
    world,      \* what a behaviour is about: "nodes", "params" or "output" (to bound the model)
    call,       \* where each call is, and its outcome
    happened,   \* events published before the run follows them
    replay,     \* stored events its subscription has yet to send
    live,       \* events blocked on its subscription
    late,       \* runs to which an event came live
    read,       \* events it has read
    graph,      \* the nodes of each call in its graph, siblings all, by their state; "open"
                \* is that of one that has not ended, empty in the code
    told,       \* what it told of on stderr
    muddled     \* calls of which events came twice or too early

outVars == <<call, happened, replay, live, late, read, graph, told, muddled>>
allVars == <<vars, paramVars, world, outVars>>

Began(x) == <<x, "began">>    \* CallStarted
Done(x) == <<x, "done">>      \* CallEnded

OutputInit ==
    /\ Init
    /\ ParamsInit
    /\ world \in {"nodes", "params", "output"}
    /\ world # "params" => todo = [c \in Runs |-> <<>>]
    /\ world # "nodes" => pidFile = Absent
    /\ call = [c \in Runs |-> [x \in Tree |-> "idle"]]
    /\ happened = [c \in Runs |-> <<>>]
    /\ replay = [c \in Runs |-> <<>>]
    /\ live = [c \in Runs |-> {}]
    /\ late = {}
    /\ read = [c \in Runs |-> {}]
    /\ graph = [c \in Runs |-> [x \in Tree |-> <<>>]]
    /\ told = [c \in Runs |-> {}]
    /\ muddled = [c \in Runs |-> {}]

Watched == world = "output"

-----------------------------------------------------------------------------
(* The op's calls, as far as they are of note here *)

\* To the subscription, or for the time being into the store alone.
Publish(c, event) ==
    IF stream[c] = NoOne
    THEN /\ happened' = [happened EXCEPT ![c] = Append(@, event)]
         /\ UNCHANGED <<live, late>>
    ELSE /\ live' = [live EXCEPT ![c] = @ \cup {event}]
         /\ late' = late \cup {c}
         /\ UNCHANGED happened

Become(c, x, state) == call' = [call EXCEPT ![c][x] = state]

\* The root call starts, or cannot be interpreted and ends without (which is all the
\* same to a run that does not watch).
RootStarts(c) ==
    /\ EnterCall(c)
    /\ \/ /\ Watched
          /\ Become(c, Root, "started")
          /\ Publish(c, Began(Root))
       \/ /\ Become(c, Root, "unfit")
          /\ UNCHANGED <<happened, live, late>>
    /\ UNCHANGED <<replay, read, graph, told, muddled>>

RootEnds(c, outcome) ==
    /\ OpEnds(c, outcome)
    /\ IF Watched THEN Publish(c, Done(Root)) ELSE UNCHANGED <<happened, live, late>>
    /\ UNCHANGED <<call, replay, read, graph, told, muddled>>

\* A call may still be started when its parent has ended meanwhile.
\* (Bound: not once its run has ended.)
CallStarts(c, x) ==
    /\ run[c] # "ended"
    /\ call[c][x] = "idle"
    /\ call[c][ParentOf[x]] \notin {"idle", "skipped", "unfit"}
    /\ Become(c, x, "started")
    /\ Publish(c, Began(x))
    /\ UNCHANGED <<vars, replay, read, graph, told, muddled>>

\* It ends without a start: its `if` is false, or it cannot be interpreted; the event
\* then has no ParentID.
CallIsNotStarted(c, x) ==
    /\ run[c] # "ended"
    /\ call[c][x] = "idle"
    /\ call[c][ParentOf[x]] \notin {"idle", "skipped", "unfit"}
    /\ \E state \in {"skipped", "unfit"} : Become(c, x, state)
    /\ Publish(c, Done(x))
    /\ UNCHANGED <<vars, replay, read, graph, told, muddled>>

\* Its context is done: the op is stopped, its parent is over, or a sibling failed.
Cancelled(c, x) ==
    \/ kill[c] # "no" \/ Ended(c)
    \/ call[c][ParentOf[x]] \in {"succeeded", "failed", "killed"}
    \/ \E y \in Subcalls : ParentOf[y] = ParentOf[x] /\ call[c][y] \in {"failed", "unfit"}

CallEnds(c, x) ==
    /\ run[c] # "ended"
    /\ call[c][x] = "started"
    /\ \E outcome \in {"succeeded", "failed", "killed"} :
          /\ outcome = "killed" => Cancelled(c, x)
          /\ Become(c, x, outcome)
    /\ Publish(c, Done(x))
    /\ UNCHANGED <<vars, replay, read, graph, told, muddled>>

\* The Outcome in CallEnded.
OutcomeOf(c, x) ==
    IF x = Root THEN op[c]
    ELSE IF call[c][x] = "skipped" THEN "succeeded"
    ELSE IF call[c][x] = "unfit" THEN "failed"
    ELSE call[c][x]

-----------------------------------------------------------------------------
(* CallGraph.HandleEvent *)

Known(c, x) == graph[c][x] # <<>>

\* callGraphNode.insert
Insert(c, x, state) == graph' = [graph EXCEPT ![c][x] = Append(@, state)]

\* Mutant: callGraphNode.find looks at the root and its children.
FindNearby(c, x) ==
    Known(c, x) /\ x \in {Root} \cup {y \in Subcalls : ParentOf[y] = Root}

\* callGraphNode.find: the first of a call's nodes is found.
Find(c, x) == Known(c, x)

Update(c, x) == graph' = [graph EXCEPT ![c][x][1] = OutcomeOf(c, x)]

\* "parent node already set", "missing parent ID", or an empty message.
Err(c, x) == UNCHANGED graph /\ told' = [told EXCEPT ![c] = @ \cup {<<x, "error">>}]

HandleStart(c, x) ==
    \/ x = Root /\ ~Known(c, Root) /\ Insert(c, Root, "open") /\ UNCHANGED told
    \/ x = Root /\ Known(c, Root) /\ Err(c, x)
    \/ x # Root /\ ~Known(c, Root) /\ UNCHANGED <<graph, told>>
    \/ x # Root /\ Known(c, Root) /\ Known(c, ParentOf[x]) /\ Insert(c, x, "open") /\ UNCHANGED told
    \/ x # Root /\ Known(c, Root) /\ ~Known(c, ParentOf[x]) /\ Err(c, x)

\* And cliOutput.Event tells of a call that failed.
HandleEnd(c, x) ==
    LET failed == IF OutcomeOf(c, x) = "failed" THEN {<<x, "failed">>} ELSE {}
        lost == call[c][x] = "unfit" \/ ~Known(c, ParentOf[x])
    IN  \/ /\ ~Known(c, Root)
           /\ UNCHANGED graph /\ told' = [told EXCEPT ![c] = @ \cup failed]
        \/ /\ Known(c, Root) /\ Find(c, x)
           /\ Update(c, x) /\ told' = [told EXCEPT ![c] = @ \cup failed]
        \/ /\ Known(c, Root) /\ ~Find(c, x) /\ ~lost
           /\ Insert(c, x, "skipped") /\ told' = [told EXCEPT ![c] = @ \cup failed]
        \/ /\ Known(c, Root) /\ ~Find(c, x) /\ lost
           /\ UNCHANGED graph
           /\ told' = [told EXCEPT ![c] = @ \cup failed \cup {<<x, "error">>}]

\* The event comes twice, before the call's start, or before its parent's, or that one's
\* did.
Muddles(c, x, event) ==
    LET lost == /\ x # Root
                /\ Began(ParentOf[x]) \notin read[c] \/ ParentOf[x] \in muddled[c]
    IN  \/ /\ event = Began(x)
           /\ Began(x) \in read[c] \/ Done(x) \in read[c] \/ lost
        \/ /\ event = Done(x)
           /\ IF call[c][x] = "skipped" THEN Done(x) \in read[c] \/ lost
              ELSE call[c][x] # "unfit" /\ Began(x) \notin read[c]

\* An event is read; at the root call's end the run ends.
Handle(c, event) ==
    /\ read' = [read EXCEPT ![c] = @ \cup {event}]
    /\ \E x \in Tree :
          /\ \/ event = Began(x) /\ HandleStart(c, x)
             \/ event = Done(x) /\ HandleEnd(c, x)
          /\ muddled' = IF Muddles(c, x, event)
                        THEN [muddled EXCEPT ![c] = @ \cup {x}] ELSE muddled
    /\ IF event = Done(Root)
       THEN SeeEnd(c)
       ELSE run[c] = "following" /\ UNCHANGED vars
    /\ UNCHANGED <<call, happened, late>>

-----------------------------------------------------------------------------
(* The subscription *)

\* Events published once the subscription is registered come live, those that a
\* snapshot taken after that has among them as well.
FollowCalls(c) ==
    /\ Follow(c)
    /\ IF stream'[c] = NoOne THEN UNCHANGED <<happened, replay, live, late>>
       ELSE /\ replay' = [replay EXCEPT ![c] = happened[c]]
            /\ \E n \in 1..(Len(happened[c]) + 1) :
                  /\ live' = [live EXCEPT ![c] = {happened[c][i] : i \in n..Len(happened[c])}]
                  /\ late' = IF n > Len(happened[c]) THEN late ELSE late \cup {c}
            /\ happened' = [happened EXCEPT ![c] = <<>>]
    /\ UNCHANGED <<call, read, graph, told, muddled>>

ReadStored(c) ==
    /\ replay[c] # <<>>
    /\ Handle(c, Head(replay[c]))
    /\ replay' = [replay EXCEPT ![c] = Tail(@)]
    /\ UNCHANGED live

\* In any order.
ReadLive(c) ==
    /\ replay[c] = <<>>
    /\ \E event \in live[c] :
          /\ Handle(c, event)
          /\ live' = [live EXCEPT ![c] = @ \ {event}]
    /\ UNCHANGED replay

-----------------------------------------------------------------------------

\* What a run does once it has all args, as in OpRun.
RunStepOn(c) ==
    \/ (Probe(c) \/ HasNode(c) \/ HasNoNode(c) \/ StreamCloses(c)) /\ UNCHANGED outVars
    \/ todo[c] = <<>> /\ StartOp(c) /\ UNCHANGED outVars
    \/ ~Watched /\ SeeEnd(c) /\ UNCHANGED outVars
    \/ FollowCalls(c)
    \/ RootStarts(c)
    \/ RootEnds(c, "killed")
    \/ ReadStored(c) \/ ReadLive(c)

ParamStep(c) == Attempt(c) \/ GiveUp(c)

UserStep(c) ==
    ~Watched /\ (Interrupt(c) \/ Terminate(c) \/ Abort(c)) /\ UNCHANGED outVars

CallStep(c, x) == CallStarts(c, x) \/ CallIsNotStarted(c, x) \/ CallEnds(c, x)

\* (Bound: troubles with nodes, a user's signals and what a run reads are apart.)
OutputNext ==
    \/ /\ \/ \E c \in Runs : RunStepOn(c) \/ UserStep(c) \/ RootEnds(c, "finished")
          \/ \E c \in Runs, x \in Subcalls : Watched /\ CallStep(c, x)
          \/ (NodeStep \/ (world = "nodes" /\ Outside)) /\ UNCHANGED outVars
       /\ UNCHANGED <<paramVars, world>>
    \/ (\E c \in Runs : ParamStep(c)) /\ UNCHANGED <<world, outVars>>

OutputSpec == OutputInit /\ [][OutputNext]_allVars

\* As in OpRun; calls below the root one need not do anything.
OutputFairness ==
    WF_allVars( \/ (\E c \in Runs : RunStepOn(c)) /\ UNCHANGED <<paramVars, world>>
                \/ NodeStep /\ UNCHANGED <<paramVars, world, outVars>>
                \/ (\E c \in Runs : ParamStep(c)) /\ UNCHANGED <<world, outVars>>)

OutputFairSpec == OutputSpec /\ OutputFairness

-----------------------------------------------------------------------------
(* Properties *)

\* The nodes a call should have, by the events read.
Truth(c, x) ==
    IF call[c][x] = "skipped" /\ Done(x) \in read[c] THEN <<"skipped">>
    ELSE IF Began(x) \notin read[c] THEN <<>>
    ELSE IF Done(x) \in read[c] THEN <<OutcomeOf(c, x)>>
    ELSE <<"open">>

\* "CallGraph maintains a record of the current state of an op" (callgraph.go:13): a call
\* is shown once and as the events read have it, though they come from the store and
\* live, twice, late and out of order, unless one of its own or of those above it came
\* twice or too early; even then no outcome is shown but its own; the run complains
\* only of such calls and of those that cannot be interpreted; and a run that reads
\* stored events alone shows everything.
GraphIsTrue ==
    \A c \in Runs :
       /\ muddled[c] # {} => c \in late
       /\ \A x \in Tree :
             /\ x \notin muddled[c] => graph[c][x] = Truth(c, x)
             /\ \A i \in DOMAIN graph[c][x] :
                   graph[c][x][i] \in {"open", "skipped", OutcomeOf(c, x)}
             /\ <<x, "failed">> \in told[c] => OutcomeOf(c, x) = "failed"
             /\ <<x, "error">> \in told[c] => x \in muddled[c] \/ call[c][x] = "unfit"
=============================================================================
