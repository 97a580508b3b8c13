---------------------------- MODULE RunContainer ----------------------------
(***************************************************************************)
(* Container calls on docker: RunContainer, the reconciliation of a create  *)
(* that timed out, deleteContainer with its three callers (the deferred     *)
(* clean-up, that reconciliation, and the kill loop's                       *)
(* DeleteContainerIfExists), and the names node/dns serves.                 *)
(*                                                                         *)
(* The engine is another process.  A request it was sent outlives the       *)
(* client's timeout and context: it may complete a create the client has    *)
(* given up, and a removal is under way for a while.  Every client call     *)
(* that has a deadline may end by it; which calls can go wrong otherwise is *)
(* a constant, Faulty, and a context that is done fails the calls that are  *)
(* given it.                                                                *)
(*                                                                         *)
(* All the calls modelled have the same name, as load-balanced ones do, so  *)
(* there is one entry of ipsByHostname, and it is read and written with no  *)
(* lock.                                                                    *)
(***************************************************************************)
EXTENDS FiniteSets

CONSTANTS
    Calls,       \* container calls
    Faulty,      \* those during which the engine or the host may fail
    Cancellable, \* those that may be killed or cancelled
    Linux,       \* runtime.GOOS is "linux"
    IPs,         \* addresses of the opctl network
    NoIP,        \* the address of a container that does not run
    Absent       \* no entry in ipsByHostname

ASSUME ConstantsAssumption ==
    /\ Faulty \subseteq Calls
    /\ Cancellable \subseteq Calls
    /\ Linux \in BOOLEAN
    /\ NoIP \notin IPs
    /\ \A ips \in SUBSET (IPs \cup {NoIP}) : ips # Absent

VARIABLES
    pc,        \* where RunContainer is, for each call
    cancelled, \* calls whose context is done
    result,    \* what RunContainer returns: an exit code, if any, and an error
    container, \* the engine's state of a call's container
    asked,     \* calls whose ContainerCreate the engine has yet to act upon
    exitCode,  \* the exit code of a container that stopped
    ip,        \* the address of a container
    inspected, \* the address ContainerInspect returned
    table,     \* the addresses of the name, or Absent
    sawAbsent, \* calls whose RegisterName read no entry
    deletion,  \* how far each deletion of a call's container has got
    late,      \* calls whose container was created after their clean-up
    waitErred  \* calls whose ContainerWait erred

runVars == <<pc, cancelled, result>>
engineVars == <<container, asked, exitCode, ip>>
nameVars == <<inspected, table, sawAbsent>>
ghosts == <<late, waitErred>>
vars == <<runVars, engineVars, nameVars, deletion, ghosts>>

\* Who deletes: RunContainer when its create failed, RunContainer's deferred
\* clean-up, and the kill loop.
Deleters == {"reconcile", "cleanup", "kill"}
Over == {"ok", "failed", "timedOut"}

Exists(c) == container[c] # "none"
Stopped(c) == container[c] \in {"exited", "removing", "none"}

\* A client call that is given the call's context may fail.
MayFail(c) == c \in Faulty \cup cancelled

GoTo(c, label) == pc' = [pc EXCEPT ![c] = label]

Delete(c, by, step) == deletion' = [deletion EXCEPT ![c][by] = step]

\* RunContainer returns, which runs its deferred clean-up.
CleanUp(c, code, erred) ==
    /\ result' = [result EXCEPT ![c] = [code |-> code, err |-> erred]]
    /\ GoTo(c, "cleaning")
    /\ Delete(c, "cleanup", "stop")

Init ==
    /\ pc = [c \in Calls |-> "idle"]
    /\ cancelled = {}
    /\ result = [c \in Calls |-> [code |-> "none", err |-> "none"]]
    /\ container = [c \in Calls |-> "none"]
    /\ asked = {}
    /\ exitCode = [c \in Calls |-> "none"]
    /\ ip = [c \in Calls |-> NoIP]
    /\ inspected = [c \in Calls |-> NoIP]
    /\ table = Absent
    /\ sawAbsent = {}
    /\ deletion = [c \in Calls |-> [by \in Deleters |-> "no"]]
    /\ late = {}
    /\ waitErred = {}

-----------------------------------------------------------------------------
(* The engine *)

\* The engine completes a create, though nobody may wait for it any more, or
\* drops it.
EngineCreates(c) ==
    /\ c \in asked
    /\ asked' = asked \ {c}
    /\ container' = [container EXCEPT ![c] = "created"]
    /\ late' = IF deletion[c]["cleanup"] \in Over THEN late \cup {c} ELSE late
    /\ UNCHANGED <<runVars, exitCode, ip, nameVars, deletion, waitErred>>

\* A container that stops gives its address back.
Exits(c) ==
    /\ container' = [container EXCEPT ![c] = "exited"]
    /\ exitCode' \in {[exitCode EXCEPT ![c] = code] : code \in {"zero", "nonzero"}}
    /\ ip' = [ip EXCEPT ![c] = NoIP]

EngineExits(c) ==
    /\ container[c] = "running"
    /\ Exits(c)
    /\ UNCHANGED <<runVars, asked, nameVars, deletion, ghosts>>

EngineRemoves(c) ==
    /\ container[c] = "removing"
    /\ container' = [container EXCEPT ![c] = "none"]
    /\ UNCHANGED <<runVars, asked, exitCode, ip, nameVars, deletion, ghosts>>

\* A removal fails; whoever asked for it is told, if it is still waiting.
EngineKeeps(c) ==
    /\ container[c] = "removing"
    /\ c \in Faulty
    /\ container' = [container EXCEPT ![c] = "exited"]
    /\ deletion' = [deletion EXCEPT ![c] =
          [by \in Deleters |-> IF @[by] = "await" THEN "failed" ELSE @[by]]]
    /\ UNCHANGED <<runVars, asked, exitCode, ip, nameVars, ghosts>>

-----------------------------------------------------------------------------
(* RunContainer up to the create *)

\* RunContainer is called: pingDocker and ensureNetworkExists, before the
\* clean-up is deferred.
Prepare(c) ==
    /\ pc[c] = "idle"
    /\ GoTo(c, "imaging")
    /\ UNCHANGED <<cancelled, result, engineVars, nameVars, deletion, ghosts>>

PrepareFails(c) ==
    /\ pc[c] = "idle"
    /\ MayFail(c)
    /\ result' = [result EXCEPT ![c].err = "erred"]
    /\ GoTo(c, "returned")
    /\ UNCHANGED <<cancelled, engineVars, nameVars, deletion, ghosts>>

\* The engine is asked to create the container, with a context of its own.
AskCreate(c) ==
    /\ GoTo(c, "creating")
    /\ asked' = asked \cup {c}

\* The image is pulled or pushed; an error is kept, as the image may be there
\* already.  On linux a throw-away container then tells if GPUs are supported.
Image(c) ==
    /\ pc[c] = "imaging"
    /\ \/ Linux /\ GoTo(c, "checkingGpu") /\ UNCHANGED asked
       \/ ~Linux /\ AskCreate(c)
    /\ UNCHANGED <<cancelled, result, container, exitCode, ip, nameVars, deletion, ghosts>>

PortsInvalid(c) ==
    /\ pc[c] = "imaging"
    /\ c \in Faulty
    /\ CleanUp(c, "none", "erred")
    /\ UNCHANGED <<cancelled, engineVars, nameVars, ghosts>>

\* isGpuSupported pulls and removes with the background context and no
\* deadline; any error means no.
CheckGpu(c) ==
    /\ pc[c] = "checkingGpu"
    /\ AskCreate(c)
    /\ UNCHANGED <<cancelled, result, container, exitCode, ip, nameVars, deletion, ghosts>>

-----------------------------------------------------------------------------
(* The create *)

\* ContainerCreate returns; a call whose context is done goes no further.
Created(c) ==
    /\ pc[c] = "creating"
    /\ Exists(c)
    /\ \/ c \in cancelled /\ CleanUp(c, "none", "none")
       \/ c \notin cancelled /\ GoTo(c, "starting") /\ UNCHANGED <<result, deletion>>
    /\ UNCHANGED <<cancelled, engineVars, nameVars, ghosts>>

\* Mutant: the error of a create is returned before the clean-up is deferred.
CreateFailsAndReturns(c) ==
    /\ pc[c] = "creating"
    /\ c \in Faulty
    /\ asked' \in {asked, asked \ {c}}
    /\ result' = [result EXCEPT ![c].err = "erred"]
    /\ GoTo(c, "returned")
    /\ UNCHANGED <<cancelled, container, exitCode, ip, nameVars, deletion, ghosts>>

\* It errs, because the engine refused or because the deadline passed, in
\* which case the engine may go on with it.
CreateFails(c) ==
    /\ pc[c] = "creating"
    /\ c \in Faulty
    /\ asked' \in {asked, asked \ {c}}
    /\ GoTo(c, "reconciling")
    /\ UNCHANGED <<cancelled, result, container, exitCode, ip, nameVars, deletion, ghosts>>

\* reconcileTimedOutContainerCreate: list by label and force-remove.
Reconcile(c) ==
    /\ pc[c] = "reconciling"
    /\ deletion[c]["reconcile"] = "no"
    /\ \/ Exists(c) /\ Delete(c, "reconcile", "remove")
       \/ ~Exists(c) /\ Delete(c, "reconcile", "ok")
       \/ c \in Faulty /\ Delete(c, "reconcile", "failed")
    /\ UNCHANGED <<runVars, engineVars, nameVars, ghosts>>

\* Mutant: the error of the create is taken for a kill.
CreateErrorDropped(c) == "none"

\* Whatever came of it: a killed call returns nothing, others the error.
CreateError(c) == IF c \in cancelled THEN "none" ELSE "erred"

Reconciled(c) ==
    /\ pc[c] = "reconciling"
    /\ deletion[c]["reconcile"] \in Over
    /\ CleanUp(c, "none", CreateError(c))
    /\ UNCHANGED <<cancelled, engineVars, nameVars, ghosts>>

-----------------------------------------------------------------------------
(* From start to exit *)

\* The engine starts a container and gives it an address no other one has.
Starts(c, address) ==
    /\ container[c] = "created"
    /\ \A d \in Calls : ip[d] # address
    /\ container' = [container EXCEPT ![c] = "running"]
    /\ ip' = [ip EXCEPT ![c] = address]
    /\ UNCHANGED <<asked, exitCode>>

Start(c) ==
    /\ pc[c] = "starting"
    /\ \E address \in IPs : Starts(c, address)
    /\ GoTo(c, "inspecting")
    /\ UNCHANGED <<cancelled, result, nameVars, deletion, ghosts>>

\* ContainerStart errs: the container is gone, or was started all the same.
StartFails(c) ==
    /\ pc[c] = "starting"
    /\ MayFail(c) \/ container[c] # "created"
    /\ \/ UNCHANGED engineVars
       \/ \E address \in IPs : Starts(c, address)
    /\ CleanUp(c, "none", "erred")
    /\ UNCHANGED <<cancelled, nameVars, ghosts>>

Inspect(c) ==
    /\ pc[c] = "inspecting"
    /\ Exists(c)
    /\ inspected' = [inspected EXCEPT ![c] = ip[c]]
    /\ GoTo(c, "looking")
    /\ UNCHANGED <<cancelled, result, engineVars, table, sawAbsent, deletion, ghosts>>

InspectFails(c) ==
    /\ pc[c] = "inspecting"
    /\ MayFail(c) \/ ~Exists(c)
    /\ CleanUp(c, "none", "erred")
    /\ UNCHANGED <<cancelled, engineVars, nameVars, ghosts>>

\* RegisterName looks the name up, makes an entry if there was none, and adds
\* the address.  It may err after that, when resolvercfg.Apply does; but
\* UnregisterName is deferred already.
LookUp(c) ==
    /\ pc[c] = "looking"
    /\ sawAbsent' = IF table = Absent THEN sawAbsent \cup {c} ELSE sawAbsent
    /\ GoTo(c, "registering")
    /\ UNCHANGED <<cancelled, result, engineVars, inspected, table, deletion, ghosts>>

Entry(c) == IF c \in sawAbsent THEN {} ELSE table

\* Mutant: UnregisterName is deferred once RegisterName has succeeded.
RegisterThenDefer(c) ==
    /\ pc[c] = "registering"
    /\ table' = Entry(c) \cup {inspected[c]}
    /\ sawAbsent' = sawAbsent \ {c}
    /\ \/ GoTo(c, "waiting") /\ UNCHANGED <<result, deletion>>
       \/ c \in Faulty /\ CleanUp(c, "none", "erred")
    /\ UNCHANGED <<cancelled, engineVars, inspected, ghosts>>

Register(c) ==
    /\ pc[c] = "registering"
    /\ sawAbsent' = sawAbsent \ {c}
    /\ \/ /\ GoTo(c, "waiting")
          /\ table' = Entry(c) \cup {inspected[c]}
          /\ UNCHANGED <<result, deletion>>
       \/ /\ c \in Faulty
          /\ table' = Entry(c) \ {inspected[c]}
          /\ CleanUp(c, "none", "erred")
    /\ UNCHANGED <<cancelled, engineVars, inspected, ghosts>>

\* ContainerWait has an answer, or errs: then the error goes to a variable of
\* the select's own and the exit code stays zero.
Exited(c) ==
    /\ pc[c] = "waiting"
    /\ Stopped(c)
    /\ result' = [result EXCEPT ![c].code = exitCode[c]]
    /\ GoTo(c, "draining")
    /\ UNCHANGED <<cancelled, engineVars, nameVars, deletion, ghosts>>

WaitErrs(c) ==
    /\ pc[c] = "waiting"
    /\ MayFail(c) \/ ~Exists(c)
    /\ result' = [result EXCEPT ![c].code = "zero"]
    /\ waitErred' = waitErred \cup {c}
    /\ GoTo(c, "draining")
    /\ UNCHANGED <<cancelled, engineVars, nameVars, deletion, late>>

\* The log streams end with the container, or with the context.  Then the
\* deferred functions run, UnregisterName before the clean-up.
Drain(c) ==
    /\ pc[c] = "draining"
    /\ \/ Stopped(c) /\ CleanUp(c, result[c].code, "none")
       \/ MayFail(c) /\ CleanUp(c, result[c].code, "erred")
    /\ table' = table \ {inspected[c]}
    /\ UNCHANGED <<cancelled, engineVars, inspected, sawAbsent, ghosts>>

Return(c) ==
    /\ pc[c] = "cleaning"
    /\ deletion[c]["cleanup"] \in Over
    /\ GoTo(c, "returned")
    /\ UNCHANGED <<cancelled, result, engineVars, nameVars, deletion, ghosts>>

-----------------------------------------------------------------------------
(* deleteContainer and its callers *)

\* ContainerStop, whose error is ignored.  A container may handle the signal
\* and exit with zero.
Stop(c, by) ==
    /\ deletion[c][by] = "stop"
    /\ \/ /\ container[c] = "running"
          /\ Exits(c)
       \/ /\ container[c] # "running" \/ c \in Faulty
          /\ UNCHANGED <<container, exitCode, ip>>
    /\ Delete(c, by, "remove")
    /\ UNCHANGED <<runVars, asked, nameVars, ghosts>>

\* ContainerRemove.  "No such container" and "removal already in progress" are
\* taken for success.
Remove(c, by) ==
    /\ deletion[c][by] = "remove"
    /\ \/ /\ container[c] \in {"none", "removing"}
          /\ Delete(c, by, "ok")
          /\ UNCHANGED engineVars
       \/ /\ container[c] \in {"created", "running", "exited"}
          /\ container' = [container EXCEPT ![c] = "removing"]
          /\ exitCode' = [exitCode EXCEPT ![c] = IF container[c] = "running"
                                                 THEN "nonzero" ELSE @]
          /\ ip' = [ip EXCEPT ![c] = NoIP]
          /\ Delete(c, by, "await")
          /\ UNCHANGED asked
       \/ /\ c \in Faulty
          /\ Delete(c, by, "failed")
          /\ UNCHANGED engineVars
    /\ UNCHANGED <<runVars, nameVars, ghosts>>

Removed(c, by) ==
    /\ deletion[c][by] = "await"
    /\ ~Exists(c)
    /\ Delete(c, by, "ok")
    /\ UNCHANGED <<runVars, engineVars, nameVars, ghosts>>

\* Mutant: a deletion has no deadline.
NeverTimesOut(c, by) == FALSE

\* The deadline passes.  Of the clean-up, that publishes a warning.
TimesOut(c, by) ==
    /\ deletion[c][by] = "await"
    /\ c \in Faulty
    /\ Delete(c, by, "timedOut")
    /\ UNCHANGED <<runVars, engineVars, nameVars, ghosts>>

\* The kill loop's DeleteContainerIfExists lists the containers with the call's
\* label.  If there is none, or the list fails, it does nothing that matters.
Kill(c) ==
    /\ c \in Cancellable
    /\ deletion[c]["kill"] = "no"
    /\ Exists(c)
    /\ Delete(c, "kill", "stop")
    /\ UNCHANGED <<runVars, engineVars, nameVars, ghosts>>

\* The context of the call is done: its kill listener heard of the kill, or a
\* call above it is over.
Cancel(c) ==
    /\ c \in Cancellable \ cancelled
    /\ pc[c] \notin {"idle", "returned"}
    /\ cancelled' = cancelled \cup {c}
    /\ UNCHANGED <<pc, result, engineVars, nameVars, deletion, ghosts>>

-----------------------------------------------------------------------------
CallStep(c) ==
    \/ Prepare(c) \/ PrepareFails(c) \/ Image(c) \/ PortsInvalid(c)
    \/ Created(c) \/ CreateFails(c) \/ Reconcile(c) \/ Reconciled(c)
    \/ Start(c) \/ StartFails(c) \/ Inspect(c) \/ InspectFails(c)
    \/ LookUp(c) \/ Register(c) \/ Exited(c) \/ WaitErrs(c) \/ Drain(c)
    \/ Return(c)

DeletionStep(c) ==
    \E by \in Deleters : Stop(c, by) \/ Remove(c, by) \/ Removed(c, by) \/ TimesOut(c, by)

EngineStep(c) == EngineCreates(c) \/ EngineExits(c) \/ EngineRemoves(c) \/ EngineKeeps(c)

Next == \E c \in Calls :
    CallStep(c) \/ CheckGpu(c) \/ DeletionStep(c) \/ EngineStep(c) \/ Kill(c) \/ Cancel(c)

Spec == Init /\ [][Next]_vars

\* A client call ends when its deadline passes or its context is done, if it
\* has either: so a call moves on unless it is in its GPU check, pulls its
\* image or waits for its container, and a cancelled call moves on in these
\* too, but for the GPU check.  The engine is only fair to calls it does not
\* fail; containers need not exit.
Bounded(c) ==
    /\ pc[c] # "idle"
    /\ pc[c] \in {"imaging", "waiting", "draining"} => c \in cancelled

Fairness == \A c \in Calls :
    /\ WF_vars(Bounded(c) /\ CallStep(c))
    /\ WF_vars(DeletionStep(c))
    /\ c \notin Faulty => WF_vars(EngineCreates(c)) /\ WF_vars(EngineRemoves(c))

FairSpec == Spec /\ Fairness

-----------------------------------------------------------------------------
(* Properties *)

Labels == {"idle", "imaging", "checkingGpu", "creating", "reconciling", "starting",
           "inspecting", "looking", "registering", "waiting", "draining", "cleaning",
           "returned"}
States == {"none", "created", "running", "exited", "removing"}
Codes == {"none", "zero", "nonzero"}
Results == [code : Codes, err : {"none", "erred"}]
Stages == {"no", "stop", "remove", "await"} \cup Over

TypeOK ==
    /\ pc \in [Calls -> Labels]
    /\ cancelled \subseteq Cancellable
    /\ result \in [Calls -> Results]
    /\ container \in [Calls -> States]
    /\ asked \subseteq Calls
    /\ exitCode \in [Calls -> Codes]
    /\ ip \in [Calls -> IPs \cup {NoIP}]
    /\ inspected \in [Calls -> IPs \cup {NoIP}]
    /\ table \in (SUBSET (IPs \cup {NoIP})) \cup {Absent}
    /\ sawAbsent \subseteq Calls
    /\ deletion \in [Calls -> [Deleters -> Stages]]
    /\ late \subseteq Calls
    /\ waitErred \subseteq Calls

\* No container outlives its call unnoticed, whichever step failed, timed out or
\* was cancelled and whoever else was deleting it: one that does either resisted
\* a deletion, which was reported, or was created after the clean-up had found
\* nothing (runContainer.go 80-105 and 202-217, deleteContainer.go 46-60).
LeftoversAreKnown ==
    \A c \in Calls : pc[c] = "returned" /\ container[c] \in {"created", "running", "exited"} =>
        \/ c \in late
        \/ \E by \in Deleters : deletion[c][by] \in {"failed", "timedOut"}

\* The name has no address but those of calls that are still running, however
\* these calls end (runContainer.go 281-295).
NamesGoWithCalls ==
    \A address \in IPs \cup {NoIP} : (table # Absent /\ address \in table) =>
        \E c \in Calls : /\ inspected[c] = address
                         /\ pc[c] \in {"waiting", "draining"}

\* A call that returns no error and no exit code but zero was stopped by
\* somebody, or its container ran and exited with zero; but for a ContainerWait
\* that errs (runContainer.go 202-242 and 302-317).
SuccessIsEarned ==
    \A c \in Calls : pc[c] = "returned" /\ result[c].err = "none" /\ result[c].code # "nonzero" =>
        \/ c \in cancelled \cup waitErred
        \/ exitCode[c] = "zero"

\* A cancelled call returns, whatever the engine does, so that its CallEnded is
\* published (runContainer.go 82-87); but for its GPU check.
CancelledCallsReturn ==
    <>[](\A c \in cancelled : pc[c] \in {"checkingGpu", "returned"})

\* "If multiple containers have the same name the ips of all containers will be
\* resolved" (website/docs/training/containers/container-networking.md:10).
AllOfANameResolve ==
    \A c \in Calls : pc[c] = "waiting" /\ container[c] = "running" => ip[c] \in table
=============================================================================
