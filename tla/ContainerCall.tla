---------------------------- MODULE ContainerCall ----------------------------
(***************************************************************************)
(* A container call: containerCaller.go, which reads what the container     *)
(* writes from two pipes, and the runtime that writes and closes them.  The *)
(* runtimes here are kubernetes (containerruntime/k8s), where calls share a *)
(* namespace, and the embedded one (containerruntime/embedded), where they  *)
(* share a virtual machine with docker in it.  Docker is DockerCalls'.      *)
(***************************************************************************)
EXTENDS Integers, Sequences

CONSTANTS
    Calls,      \* container calls of a node
    Runtimes,   \* "k8s", "embedded", "docker": a node has one
    Stoppable,  \* calls that may be cancelled or killed
    MaxEvents,  \* bound: a pod that has so many events unread is not updated
    Nobody      \* no call

ASSUME CallsAssumption ==
    /\ Runtimes \subseteq {"k8s", "embedded", "docker"}
    /\ Stoppable \subseteq Calls
    /\ MaxEvents \in Nat
    /\ Nobody \notin Calls

VARIABLES
    runtime,    \* the node's
    at,         \* where each call is
    open,       \* pipes of the call the runtime has not closed
    reading,    \* pipes of the call that are still read
    ran,        \* what RunContainer returned: an exit code, "error", or neither of them, as
                \* the watch ended ("watchEnded"), docker's wait failed ("waitErred") or the
                \* context was done at the create ("gaveUp"); "none" yet
    result,     \* what the container call returned: "ok", "err" or "none" yet
    cancelled,  \* calls whose context is done
    pods,       \* pods[c]: the phase of the call's pod, "none" before, "gone" after it
    events,     \* events[c]: phases the call's watch has yet to give, or "closed"
    logs,       \* logs[c]: how much of its output was copied: "part", "whole", "twice", "due"
                \* if nothing though the pod ran while it was watched, else "none"
    exit,       \* exit[c]: the exit code of its container, "none" before
    vm,         \* the virtual machine: "none", "stopped" or "running"
    leader,     \* the call that starts the virtual machine, the others wait for
    troubled    \* calls for which something went wrong outside of them

callerVars == <<runtime, reading, result, cancelled>>
podVars == <<pods, events, logs>>
vmVars == <<vm, leader>>
vars == <<callerVars, podVars, vmVars, at, open, ran, exit, troubled>>

Streams == {"stdout", "stderr"}
Terminated == {"Succeeded", "Failed"}
InCluster == {"Pending", "Running"} \cup Terminated

-----------------------------------------------------------------------------
\* None of those beyond has begun.
Begins(beyond) ==
    /\ runtime \in Runtimes
    /\ at = [c \in Calls |-> IF c \in beyond THEN "dead" ELSE "idle"]
    /\ open = [c \in Calls |-> {}]
    /\ reading = [c \in Calls |-> {}]
    /\ ran = [c \in Calls |-> "none"]
    /\ result = [c \in Calls |-> "none"]
    /\ cancelled = {}
    /\ pods = [c \in Calls |-> "none"]
    /\ events = [c \in Calls |-> <<>>]
    /\ logs = [c \in Calls |-> "none"]
    /\ exit = [c \in Calls |-> "none"]
    /\ vm \in IF runtime = "embedded" THEN {"none", "stopped", "running"} ELSE {"none"}
    /\ leader = Nobody
    /\ troubled = {}

Init == Begins({})

GoTo(c, point) == at' = [at EXCEPT ![c] = point]
Trouble(c) == troubled' = troubled \cup {c}

-----------------------------------------------------------------------------
(* containerCaller.Call *)

\* Two pipes, a goroutine that reads each, then RunContainer.
Begin(c) ==
    /\ at[c] = "idle"
    /\ GoTo(c, "called")
    /\ open' = [open EXCEPT ![c] = Streams]
    /\ reading' = [reading EXCEPT ![c] = Streams]
    /\ UNCHANGED <<runtime, result, cancelled, podVars, vmVars, ran, exit, troubled>>

\* readChunks ends when it has read all of a pipe that was closed.
ReadEnds(c) ==
    /\ \E stream \in reading[c] \ open[c] :
          reading' = [reading EXCEPT ![c] = @ \ {stream}]
    /\ UNCHANGED <<runtime, result, cancelled, podVars, vmVars, at, open, ran, exit, troubled>>

\* Mutant: an exit code alone is no error.
FailedByError(c) == ran[c] = "error"

Failed(c) == ran[c] \in {"nonzero", "error"}

\* Having waited for the readers, the call returns.  No exit code counts as zero.
CallReturns(c) ==
    /\ at[c] = "ran"
    /\ reading[c] = {}
    /\ GoTo(c, "over")
    /\ result' = [result EXCEPT ![c] = IF Failed(c) THEN "err" ELSE "ok"]
    /\ UNCHANGED <<runtime, reading, cancelled, podVars, vmVars, open, ran, exit, troubled>>

\* Mutant: the pipes stay open.
LeftOpen(c) == UNCHANGED open

\* RunContainer returns, having closed the pipes, which it defers first of all.
Closed(c) == open' = [open EXCEPT ![c] = {}]
Return(c, what) ==
    /\ GoTo(c, "ran")
    /\ ran' = [ran EXCEPT ![c] = what]

\* A sibling fails, or the call is killed.  (With docker that makes its requests fail
\* and no more: see ContextIsDone.  Once RunContainer has returned it means nothing.)
Cancel(c) ==
    /\ runtime # "docker"
    /\ at[c] \notin {"idle", "ran", "over"}
    /\ c \in Stoppable \ cancelled
    /\ cancelled' = cancelled \cup {c}
    /\ UNCHANGED <<runtime, reading, result, podVars, vmVars, at, open, ran, exit, troubled>>

-----------------------------------------------------------------------------
(* The cluster *)

Watching(c) == at[c] \in {"watching", "copying", "copyingLast"}
IsOpen(c) == Watching(c) /\ \A i \in DOMAIN events[c] : events[c][i] # "closed"

\* The phases of some pods change; "gone" comes with the last phase there was.
Change(phase, cs) ==
    /\ pods' = [c \in Calls |-> IF c \in cs THEN phase ELSE pods[c]]
    /\ events' = [c \in Calls |->
                    IF c \in cs /\ IsOpen(c)
                      THEN Append(events[c], IF phase = "gone" THEN pods[c] ELSE phase)
                      ELSE events[c]]

\* What the pod writes is there to be copied.
Due(c) == logs' = [logs EXCEPT ![c] = "due"]

PodRuns(c) ==
    /\ pods[c] = "Pending"
    /\ Change("Running", {c})
    /\ IF IsOpen(c) THEN Due(c) ELSE UNCHANGED logs
    /\ UNCHANGED <<callerVars, vmVars, at, open, ran, exit, troubled>>

\* Its status changes while it runs: it gets ready, say.
PodUpdates(c) ==
    /\ pods[c] = "Running"
    /\ Len(events[c]) < MaxEvents
    /\ Change("Running", {c})
    /\ events' # events
    /\ UNCHANGED <<callerVars, vmVars, at, open, ran, exit, logs, troubled>>

\* One that is quick is seen as pending and then as over.
PodEnds(c) ==
    /\ pods[c] \in {"Pending", "Running"}
    /\ \/ Change("Succeeded", {c}) /\ exit' = [exit EXCEPT ![c] = "zero"]
       \/ Change("Failed", {c}) /\ exit' = [exit EXCEPT ![c] = "nonzero"]
    /\ UNCHANGED <<callerVars, vmVars, at, open, ran, logs, troubled>>

\* The watch's context is done, or the API server has had enough of it, which
\* it has after half an hour or so.
WatchCloses(c) ==
    /\ IsOpen(c)
    /\ events' = [events EXCEPT ![c] = Append(@, "closed")]
    /\ UNCHANGED <<callerVars, vmVars, at, open, ran, exit, pods, logs, troubled>>

-----------------------------------------------------------------------------
(* k8s.RunContainer *)

ReturnFromPod(c, what) ==
    /\ Return(c, what)
    /\ Closed(c)
    /\ events' = [events EXCEPT ![c] = <<>>]

\* Mutant: without the field selector.
ClearAll == {c \in Calls : pods[c] \in InCluster}

\* "don't leak terminated pods": those of all calls.
ToClear == {c \in Calls : pods[c] \in Terminated}

DeleteTerminated(c) ==
    /\ at[c] = "called"
    /\ runtime = "k8s"
    /\ GoTo(c, "cleared")
    /\ Change("gone", ToClear)
    /\ troubled' = troubled \cup {d \in Calls : pods[d] \in Terminated /\ at[d] \notin {"ran", "over"}}
    /\ UNCHANGED <<callerVars, vmVars, open, ran, exit, logs>>

CreatePod(c) ==
    /\ at[c] = "cleared"
    /\ GoTo(c, "created")
    /\ Change("Pending", {c})
    /\ UNCHANGED <<callerVars, vmVars, open, ran, exit, logs, troubled>>

\* The watch begins with the pod as it is, if it is still there.
WatchPod(c) ==
    /\ at[c] = "created"
    /\ GoTo(c, "watching")
    /\ events' = [events EXCEPT ![c] = IF pods[c] = "gone" THEN <<>> ELSE <<pods[c]>>]
    /\ IF pods[c] = "Running" THEN Due(c) ELSE UNCHANGED logs
    /\ UNCHANGED <<callerVars, vmVars, open, ran, exit, pods, troubled>>

\* The API server refuses or does not answer, though it may have made the pod;
\* or the context is done.
Refused(c) ==
    /\ runtime = "k8s"
    /\ at[c] \in {"called", "cleared", "created", "copying", "copyingLast"}
    /\ ReturnFromPod(c, "error")
    /\ pods' \in {pods} \cup (IF at[c] = "cleared" THEN {[pods EXCEPT ![c] = "Pending"]} ELSE {})
    /\ Trouble(c)
    /\ UNCHANGED <<callerVars, vmVars, exit, logs>>

\* The loop over the watch's events.  The output of a pod that is seen running
\* is followed to its end, that of one that failed is copied again.
SeeEvent(c) ==
    /\ at[c] = "watching"
    /\ events[c] # <<>>
    /\ LET event == Head(events[c])
           rest == [events EXCEPT ![c] = Tail(@)]
       IN  \/ /\ event = "Pending"
              /\ events' = rest
              /\ UNCHANGED <<at, ran, open>>
           \/ /\ event \in {"Running", "Failed"}
              /\ pods[c] # "gone"
              /\ GoTo(c, IF event = "Running" THEN "copying" ELSE "copyingLast")
              /\ events' = rest
              /\ UNCHANGED <<ran, open>>
           \/ /\ event \in {"Running", "Failed"}
              /\ pods[c] = "gone"
              /\ ReturnFromPod(c, "error")
           \/ event = "Succeeded" /\ ReturnFromPod(c, "zero")
           \/ event = "closed" /\ ReturnFromPod(c, "watchEnded")
    /\ UNCHANGED <<callerVars, vmVars, exit, pods, logs, troubled>>

Copied(c) ==
    logs' = [logs EXCEPT ![c] = IF pods[c] \notin Terminated THEN "part"
                                ELSE IF @ \in {"whole", "twice"} THEN "twice" ELSE "whole"]

\* Mutant: the output is not followed.
CopyAtOnce(c) ==
    /\ at[c] = "copying"
    /\ GoTo(c, "watching")
    /\ Copied(c)
    /\ UNCHANGED <<callerVars, vmVars, open, ran, exit, pods, events, troubled>>

CopyEnds(c) ==
    /\ at[c] = "copying"
    /\ pods[c] \in Terminated \cup {"gone"}
    /\ GoTo(c, "watching")
    /\ Copied(c)
    /\ UNCHANGED <<callerVars, vmVars, open, ran, exit, pods, events, troubled>>

CopyLastEnds(c) ==
    /\ at[c] = "copyingLast"
    /\ ReturnFromPod(c, "nonzero")
    /\ Copied(c)
    /\ UNCHANGED <<callerVars, vmVars, exit, pods, troubled>>

\* Delete and Kill of the runtime: `opctl node kill`.  (Bound: while a call is on.)
DeleteCollection ==
    /\ \E c \in Calls : pods[c] = "Running"
    /\ Change("gone", {c \in Calls : pods[c] \in InCluster})
    /\ troubled' = troubled \cup {c \in Calls : pods[c] \in InCluster}
    /\ UNCHANGED <<callerVars, vmVars, at, open, ran, exit, logs>>

\* DeleteContainerIfExists, which the kill loop calls (see CallTree).  (Bound: while
\* the call is on.)
DeletePod(c) ==
    /\ c \in Stoppable
    /\ at[c] \notin {"ran", "over"}
    /\ pods[c] \in InCluster
    /\ Change("gone", {c})
    /\ Trouble(c)
    /\ UNCHANGED <<callerVars, vmVars, at, open, ran, exit, logs>>

-----------------------------------------------------------------------------
(* embedded.RunContainer *)

\* getDockerContainerRuntime: one call starts the virtual machine, the others
\* wait for it.
JoinFlight(c) ==
    /\ at[c] = "called"
    /\ runtime = "embedded"
    /\ IF leader = Nobody THEN GoTo(c, "starting") /\ leader' = c
                          ELSE GoTo(c, "waiting") /\ UNCHANGED leader
    /\ UNCHANGED <<callerVars, podVars, vm, open, ran, exit, troubled>>

InFlight == {leader} \cup {c \in Calls : at[c] = "waiting"}

\* It is started, if need be made, and docker in it answers.
Started(c) ==
    /\ at[c] = "starting"
    /\ vm' = "running"
    /\ leader' = Nobody
    /\ at' = [d \in Calls |-> IF d \in InFlight THEN "inVM" ELSE at[d]]
    /\ UNCHANGED <<callerVars, podVars, open, ran, exit, troubled>>

\* The binaries or the template cannot be written, the start fails or is killed
\* with the leader's context, or docker does not answer.  The error is everyone's,
\* and nobody closes their pipes.
NotStarted(c) ==
    /\ at[c] = "starting"
    /\ vm' \in IF vm = "running" THEN {"running"} ELSE {vm, "stopped", "running"}
    /\ leader' = Nobody
    /\ at' = [d \in Calls |-> IF d \in InFlight THEN "ran" ELSE at[d]]
    /\ ran' = [d \in Calls |-> IF d \in InFlight THEN "error" ELSE ran[d]]
    /\ troubled' = troubled \cup InFlight
    /\ UNCHANGED <<callerVars, podVars, open, exit>>

\* Docker's RunContainer (see DockerCalls), which closes the pipes whatever it returns.
DockerReturns(c) ==
    /\ at[c] = "inVM"
    /\ Closed(c)
    /\ \/ /\ vm = "running"
          /\ \E code \in {"zero", "nonzero"} :
                Return(c, code) /\ exit' = [exit EXCEPT ![c] = code]
          /\ UNCHANGED troubled
       \/ /\ \E what \in {"error", "waitErred"} : Return(c, what)
          /\ Trouble(c) /\ UNCHANGED exit
       \/ c \in cancelled /\ Return(c, "gaveUp") /\ UNCHANGED <<exit, troubled>>
    /\ UNCHANGED <<callerVars, podVars, vmVars>>

\* Kill and Delete of the runtime, or the user, stop the virtual machine.
VMStops ==
    /\ vm = "running"
    /\ vm' = "stopped"
    /\ \E c \in Calls : at[c] # "over"
    /\ UNCHANGED <<callerVars, podVars, leader, at, open, ran, exit, troubled>>

-----------------------------------------------------------------------------
PodStep(c) ==
    \/ DeleteTerminated(c) \/ CreatePod(c) \/ WatchPod(c) \/ SeeEvent(c)
    \/ CopyEnds(c) \/ CopyLastEnds(c)

VMStep(c) == JoinFlight(c) \/ Started(c) \/ NotStarted(c) \/ DockerReturns(c)

CallStep(c) == ReadEnds(c) \/ CallReturns(c) \/ PodStep(c) \/ VMStep(c)

Next ==
    \/ \E c \in Calls :
          \/ Begin(c) \/ CallStep(c) \/ Cancel(c) \/ Refused(c) \/ DeletePod(c)
          \/ PodRuns(c) \/ PodUpdates(c) \/ PodEnds(c) \/ WatchCloses(c)
    \/ VMStops
    \/ DeleteCollection

Spec == Init /\ [][Next]_vars

-----------------------------------------------------------------------------
(* Properties *)

TypeOK ==
    /\ runtime \in Runtimes
    /\ at \in [Calls -> {"idle", "called", "cleared", "created", "watching", "copying",
                         "copyingLast", "starting", "waiting", "inVM", "ran", "over",
                         "attaching", "replacing", "networked", "boxed", "inBox",
                         "cleaning", "removing", "dead"}]
    /\ open \in [Calls -> SUBSET Streams] /\ reading \in [Calls -> SUBSET Streams]
    /\ \A c \in Calls : open[c] \subseteq reading[c]
    /\ ran \in [Calls -> {"none", "zero", "nonzero", "error", "watchEnded", "waitErred",
                         "gaveUp"}]
    /\ result \in [Calls -> {"none", "ok", "err"}]
    /\ cancelled \subseteq Calls
    /\ pods \in [Calls -> InCluster \cup {"none", "gone"}]
    /\ events \in [Calls -> Seq(InCluster \cup {"closed"})]
    /\ logs \in [Calls -> {"none", "due", "part", "whole", "twice"}]
    /\ exit \in [Calls -> {"none", "zero", "nonzero"}]
    /\ vm \in {"none", "stopped", "running"}
    /\ leader \in {Nobody} \cup {c \in Calls : at[c] = "starting"}
    /\ \A c \in Calls : at[c] \in {"starting", "waiting"} => leader # Nobody
    /\ troubled \subseteq Calls

\* A call that succeeds has seen its container exit with zero, in spite of pods
\* that are swept by other calls, killed or never seen to run, but where RunContainer
\* returns neither an exit code nor an error: its watch closed first (k8s.go:205); its
\* wait failed, as docker refused it or the container was removed meanwhile or the
\* context was done (runContainer.go:310); or it was cancelled by the time of the
\* create (runContainer.go:213, 226).
SuccessIsEarned ==
    \A c \in Calls : result[c] = "ok" =>
        \/ exit[c] = "zero"
        \/ ran[c] = "watchEnded"
        \/ ran[c] = "waitErred" /\ c \in troubled \cup cancelled
        \/ ran[c] = "gaveUp" /\ c \in cancelled

\* A call that fails has a container that failed or was stopped, was cancelled or
\* refused something; or another call is to blame, which swept its pod before it
\* was watched to its end (k8s.go:123) or led the start of the virtual machine and
\* failed for both (embedded.go:171).
FailsForAReason ==
    \A c \in Calls : result[c] = "err" =>
        exit[c] = "nonzero" \/ c \in cancelled \/ c \in troubled

\* What a pod wrote that ran while its call watched it is in the op's log, to the last
\* line, by the time the call succeeds, though it is copied while the pod runs on, is
\* updated, ends and is swept; unless the watch ended first or its removal cut the
\* copying short.  (Of a pod that was over before it was seen to run, nothing is copied
\* when it succeeds, k8s.go:185; and of one that is updated, everything once more.)
LogsAreWhole ==
    \A c \in Calls : (result[c] = "ok" /\ logs[c] \in {"due", "part"}) =>
        ran[c] = "watchEnded" \/ c \in troubled

\* What a call may wait for in vain: readers of pipes nobody closes
\* (embedded.go:147); a pod that is removed before it was seen to be over, or that
\* does not start, as when its image cannot be pulled.
Hung(c) ==
    \/ runtime = "embedded" /\ at[c] = "ran" /\ ran[c] = "error" /\ open[c] # {}
    \/ /\ at[c] = "watching"
       /\ events[c] = <<>>
       /\ pods[c] \in {"gone", "Pending"}

\* Every call returns, whatever is refused, swept, cancelled or closed, unless the
\* node is told to exit.
EveryCallReturns ==
    \A c \in Calls : <>[](at[c] \in {"idle", "over", "dead"} \/ Hung(c))
=============================================================================
