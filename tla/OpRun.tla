------------------------------- MODULE OpRun -------------------------------
(***************************************************************************)
(* `opctl run` (cli/cmd/run.go, cli/internal/nodeprovider/local) and the     *)
(* nodes it finds or starts (NodeDaemon): it has a node, starts the op       *)
(* there, follows the op's events until the op has ended, and passes on the  *)
(* user's wish to stop.  Nodes come and go meanwhile.                        *)
(*                                                                         *)
(* A run starts one node at most, and goes by the name of that node.  The    *)
(* other nodes are started by `opctl node create`, or by commands which need *)
(* a node for a moment only.                                                *)
(***************************************************************************)
EXTENDS NodeDaemon

CONSTANT Runs

ASSUME RunAssumption == Runs \subseteq Nodes

VARIABLES
    run,      \* where each run is
    exit,     \* how it ended: RunError's code, or the error
    on,       \* the node its op was started on
    stream,   \* the node whose events it follows
    shown,    \* runs whose stream has the end of the op
    op,       \* what became of its op
    kill,     \* whether the op was asked to end, and whether it was "early"
    interrupted \* aSigIntWasReceivedAlready

cliVars == <<run, exit, on, stream, interrupted>>
opVars == <<op, kill, shown>>
vars == <<daemonVars, cliVars, opVars>>

Outcomes == {"finished", "killed"}

Init ==
    /\ DaemonInit
    /\ run = [c \in Runs |-> "probing"]
    /\ exit = [c \in Runs |-> "none"]
    /\ on = [c \in Runs |-> NoOne]
    /\ stream = [c \in Runs |-> NoOne]
    /\ shown = {} /\ interrupted = {}
    /\ op = [c \in Runs |-> "none"]
    /\ kill = [c \in Runs |-> "no"]

GoOn(c, r) == run' = [run EXCEPT ![c] = r] /\ UNCHANGED exit
End(c, e) == run' = [run EXCEPT ![c] = "ended"] /\ exit' = [exit EXCEPT ![c] = e]

-----------------------------------------------------------------------------
(* CreateNodeIfNotExists *)

\* The node answers, or is started.
Probe(c) ==
    /\ run[c] = "probing"
    /\ \/ /\ Serving # {}
          /\ GoOn(c, "given")
          /\ UNCHANGED daemonVars
       \/ /\ Serving = {}
          /\ GoOn(c, "waiting")
          /\ Spawn(c)
    /\ UNCHANGED <<on, stream, interrupted, opVars>>

\* The daemon exited or a node answered, whichever the run noticed first; what
\* the other one came to may have been written by the time it looks, or not.
\* A daemon that stopped of itself leaves no error.
HasNode(c) ==
    /\ run[c] = "waiting"
    /\ \/ why[c] = "running"
       \/ why[c] = "stopped"
       \/ Serving # {}
    /\ GoOn(c, "given")
    /\ UNCHANGED <<daemonVars, on, stream, interrupted, opVars>>

\* The daemon failed, or the retries of the http library are used up.
HasNoNode(c) ==
    /\ run[c] = "waiting"
    /\ \/ why[c] \in {"failed", "killed"}
       \/ why[c] # "running" /\ Serving = {}
    /\ End(c, "noNode")
    /\ UNCHANGED <<daemonVars, on, stream, interrupted, opVars>>

-----------------------------------------------------------------------------
(* Starting and following the op *)

\* The node answers when the op's goroutine is made.
StartOp(c) ==
    /\ run[c] = "given"
    /\ \/ \E n \in Serving : /\ on' = [on EXCEPT ![c] = n]
                             /\ op' = [op EXCEPT ![c] = "called"]
                             /\ GoOn(c, "started")
       \/ Serving = {} /\ End(c, "noNode") /\ UNCHANGED <<on, op>>
    /\ UNCHANGED <<daemonVars, stream, interrupted, kill, shown>>

Ended(c) == op[c] \in Outcomes

\* Mutant: the stream begins with what happens from now on.
FollowFromNow(c) ==
    /\ run[c] = "started"
    /\ \/ \E n \in Serving : /\ stream' = [stream EXCEPT ![c] = n]
                             /\ GoOn(c, "following")
                             /\ UNCHANGED shown
       \/ Serving = {} /\ End(c, "lost") /\ UNCHANGED <<stream, shown>>
    /\ UNCHANGED <<daemonVars, on, interrupted, op, kill>>

\* The stream begins with what has happened since the run began, which a node that
\* was started in between has too, unless the data dir was removed.
Follow(c) ==
    /\ run[c] = "started"
    /\ \/ \E n \in Serving :
             /\ stream' = [stream EXCEPT ![c] = n]
             /\ shown' \in IF ~Ended(c) THEN {shown}
                           ELSE IF n = on[c] \/ ~broken THEN {shown \cup {c}}
                           ELSE {shown, shown \cup {c}}
             /\ GoOn(c, "following")
       \/ Serving = {} /\ End(c, "lost") /\ UNCHANGED <<stream, shown>>
    /\ UNCHANGED <<daemonVars, on, interrupted, op, kill>>

\* CallEnded of the root call.
SeeEnd(c) ==
    /\ run[c] = "following"
    /\ c \in shown
    /\ End(c, op[c])
    /\ UNCHANGED <<daemonVars, on, stream, interrupted, opVars>>

\* The node is gone, and the connection to it.
StreamCloses(c) ==
    /\ run[c] = "following"
    /\ ~Alive(stream[c])
    /\ End(c, "lost")
    /\ UNCHANGED <<daemonVars, on, stream, interrupted, opVars>>

-----------------------------------------------------------------------------
(* Stopping the op *)

\* The request goes to the node that serves, if any; an error is not looked at.
\* A call takes notice of the requests published since it was entered.
KillOp(c) ==
    kill' = IF on[c] \in Serving /\ kill[c] # "asked"
            THEN [kill EXCEPT ![c] = IF op[c] = "called" THEN "early" ELSE "asked"]
            ELSE kill

\* Mutant: the first interrupt only warns.
InterruptOnlyWarns(c) ==
    /\ run[c] = "following"
    /\ IF c \in interrupted
       THEN End(c, "forced") /\ UNCHANGED interrupted
       ELSE interrupted' = interrupted \cup {c} /\ UNCHANGED <<run, exit>>
    /\ UNCHANGED <<daemonVars, on, stream, opVars>>

\* Control-C: the first stops the op, the second the run.
Interrupt(c) ==
    /\ run[c] = "following"
    /\ IF c \in interrupted
       THEN End(c, "forced") /\ UNCHANGED <<interrupted, kill>>
       ELSE /\ KillOp(c)
            /\ interrupted' = interrupted \cup {c}
            /\ UNCHANGED <<run, exit>>
    /\ UNCHANGED <<daemonVars, on, stream, op, shown>>

Terminate(c) ==
    /\ run[c] = "following"
    /\ KillOp(c)
    /\ UNCHANGED <<daemonVars, cliVars, op, shown>>

\* Signals are not caught before the op is about to be started.  The daemon has
\* a session of its own, so it is not hit.
Abort(c) ==
    /\ run[c] \in {"probing", "waiting", "given"}
    /\ End(c, "aborted")
    /\ UNCHANGED <<daemonVars, on, stream, interrupted, opVars>>

-----------------------------------------------------------------------------
(* The op, on its node *)

EnterCall(c) ==
    /\ op[c] = "called"
    /\ Alive(on[c])
    /\ op' = [op EXCEPT ![c] = "running"]
    /\ UNCHANGED <<daemonVars, cliVars, kill, shown>>

\* CallEnded is published ("finished": succeeded or failed): who follows that node's events has it.
OpEnds(c, outcome) ==
    /\ op[c] = "running"
    /\ Alive(on[c])
    /\ outcome = "killed" => kill[c] = "asked"
    /\ op' = [op EXCEPT ![c] = outcome]
    /\ shown' = IF stream[c] = on[c] THEN shown \cup {c} ELSE shown
    /\ UNCHANGED <<daemonVars, cliVars, kill>>

-----------------------------------------------------------------------------

RunStep(c) ==
    \/ Probe(c) \/ HasNode(c) \/ HasNoNode(c) \/ StartOp(c) \/ Follow(c)
    \/ SeeEnd(c) \/ StreamCloses(c)
    \/ EnterCall(c)
    \/ OpEnds(c, "killed")

NodeStep ==
    /\ \/ \E n \in Nodes : DaemonStep(n)
       \/ RemoveDataDir
    /\ UNCHANGED <<cliVars, opVars>>

\* Nodes are started, containers of ops get names, and there are troubles.
\* (Bound: names as long as they matter to LeakedCfgsAreSwept.)
Outside ==
    /\ \/ \E n \in Nodes \ Runs : Spawn(n)
       \/ \E c \in Runs, n \in Nodes :
             on[c] = n /\ op[c] = "running" /\ Alive(n) /\ ~broken /\ Register(n)
       \/ \E n \in Nodes : Crash(n)
       \/ \E next \in {"none", "delete"} : KillNode(next)
    /\ UNCHANGED <<cliVars, opVars>>

Next ==
    \/ \E c \in Runs : \/ RunStep(c) \/ Interrupt(c) \/ Terminate(c) \/ Abort(c)
                       \/ OpEnds(c, "finished")
    \/ NodeStep
    \/ Outside

Spec == Init /\ [][Next]_vars

\* Runs, nodes and commands carry on, and an op that noticed it is to end ends
\* (CallTree); nobody has to stop anything, and no op has to end of itself.
Fairness == WF_vars((\E c \in Runs : RunStep(c)) \/ NodeStep)

FairSpec == Spec /\ Fairness

-----------------------------------------------------------------------------
(* Properties *)

TypeOK ==
    /\ DaemonTypeOK
    /\ run \in [Runs -> {"probing", "waiting", "given", "started", "following", "ended"}]
    /\ exit \in [Runs -> Outcomes \cup {"none", "noNode", "lost", "forced", "aborted"}]
    /\ on \in [Runs -> Nodes \cup {NoOne}]
    /\ stream \in [Runs -> Nodes \cup {NoOne}]
    /\ shown \subseteq Runs /\ interrupted \subseteq Runs
    /\ op \in [Runs -> Outcomes \cup {"none", "called", "running"}]
    /\ kill \in [Runs -> {"no", "early", "asked"}]

\* The op is over, or can never be.
Over(c) == Ended(c) \/ (on[c] \in Nodes /\ ~Alive(on[c]))

\* It follows another node than the op's, which may never tell.
FollowsAnother(c) == stream[c] \notin {NoOne, on[c]} /\ c \notin shown

\* Whoever waits for an op that is over notices, however soon it was over and
\* whatever became of its node, but a run that asked for the events when another
\* node had taken the place of the op's, before the op had ended.
RunsNoticeTheEnd ==
    \A c \in Runs :
       (run[c] \in {"started", "following"} /\ Over(c))
          ~> (run[c] = "ended" \/ FollowsAnother(c))

\* "Gracefully stopping... (signal Control-C again to force)": when a run is
\* forced to end, the op it leaves behind ends too, but for a request that
\* came before the op's call was entered or when its node no longer served.
ForcedRunsLeaveNothing ==
    \A c \in Runs :
       (exit[c] = "forced")
          ~> (Over(c) \/ kill[c] = "early" \/ on[c] \in ending \/ FollowsAnother(c))
=============================================================================
