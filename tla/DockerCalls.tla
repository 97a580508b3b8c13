----------------------------- MODULE DockerCalls -----------------------------
(***************************************************************************)
(* Container calls with docker (containerruntime/docker), beside what is     *)
(* done to their containers from the command line (cli/cmd/node: container   *)
(* ls, down, delete and prune, kill and delete of the node), and beside the  *)
(* tunnel that makes containers reachable on macOS (ensureNetworkAttached).  *)
(* What can go wrong with one request to docker is RunContainer's; here a     *)
(* request is carried out or refused.                                        *)
(***************************************************************************)
EXTENDS ContainerCall, FiniteSets

CONSTANTS
    Settings,   \* pairs: the platform, and the command that is given while calls run
    Orphans     \* with a command, calls of an earlier node, which left containers

Commands == {"ls", "down", "delete", "prune", "node kill", "node delete"}

ASSUME SettingsAssumption ==
    /\ Settings \subseteq {"linux", "darwin"} \X (Commands \cup {"none"})
    /\ Orphans \subseteq Calls

VARIABLES
    platform,   \* the node's
    box,        \* box[c]: the call's container: "none", "created", "running", "exited", or
                \* "removing" while docker is about to remove it
    net,        \* the network named opctl: "none", "bridged", or "routed" (nat-unprotected)
    command,    \* the command that is given
    step,       \* how far it has got
    listed,     \* listed[c]: the container as the command's list has it
    todo,       \* todo[c]: what the command has yet to do to it; "await" while docker removes
                \* it, "taken" if somebody else was having it removed
    cut,        \* containers the command stopped as they ran
    leaving,    \* the node was told to exit
    ups,        \* calls whose wgUp waits for wgUpMutex
    holder,     \* the call whose wgUp has it
    tun,        \* the tunnel: "none", "made", "up", or "leaked" by a wgUp that failed
    probes,     \* calls that look whether docker's VM answers through the tunnel
    peer,       \* the VM's end: "unset", "set", or "lost" as the VM restarted and "reset" after
    unhealed    \* calls whose part in setting this up failed

engineVars == <<box, net>>
commandVars == <<command, step, listed, todo, cut, leaving>>
tunnelVars == <<ups, holder, tun, probes, peer, unhealed>>
dockerVars == <<platform, engineVars, commandVars, tunnelVars>>
allVars == <<vars, dockerVars>>

\* What a docker call leaves alone of the rest.
clusterVars == <<runtime, podVars, vmVars, platform>>
otherVars == <<clusterVars, cancelled, commandVars>>
running == <<reading, result, open, ran>>

States == {"none", "created", "running", "exited", "removing"}

Running == {c \in Calls : box[c] = "running"}

DockerInit ==
    /\ \E s \in Settings \cup {<<"linux", "none">>} :
          /\ platform = s[1] /\ command = s[2]
          /\ Begins(IF s[2] = "none" THEN {} ELSE Orphans)
          /\ runtime = "docker" <=> s \in Settings
    /\ box \in IF command = "none" THEN [Calls -> {"none"}]
               ELSE [Calls -> States \ {"removing"}]
    /\ \A c \in Calls \ Orphans : box[c] = "none"
    /\ net \in IF runtime = "docker" THEN {"none", "bridged"} ELSE {"none"}
    /\ Running # {} => net # "none"
    /\ step = "given"
    /\ listed = [c \in Calls |-> "none"]
    /\ todo = [c \in Calls |-> "nothing"]
    /\ cut = {} /\ leaving = FALSE
    /\ ups = {} /\ holder = Nobody /\ tun = "none"
    /\ probes = {} /\ peer = "unset" /\ unhealed = {}

-----------------------------------------------------------------------------
(* RunContainer *)

\* It closes the pipes last and on every path, so that what they still hold is read
\* and the call returns.
CallOver(c, what) ==
    /\ GoTo(c, "over")
    /\ ran' = [ran EXCEPT ![c] = what]
    /\ Closed(c)
    /\ reading' = [reading EXCEPT ![c] = {}]
    /\ result' = [result EXCEPT ![c] = IF what \in {"nonzero", "error"} THEN "err" ELSE "ok"]

\* Without a container yet, there is nothing to clean up.
ReturnAtOnce(c) == CallOver(c, "error")

\* The deferred clean-up comes first.
Leave(c, what) ==
    /\ GoTo(c, "cleaning")
    /\ ran' = [ran EXCEPT ![c] = what]
    /\ UNCHANGED <<reading, result, open>>

\* ensureNetworkExists: one that exists already is taken as it is.
EnsureNetworkExists(c) ==
    /\ at[c] = "called"
    /\ runtime = "docker"
    /\ net' = IF net # "none" THEN net
              ELSE IF platform = "darwin" THEN "routed" ELSE "bridged"
    /\ GoTo(c, IF platform = "darwin" THEN "attaching" ELSE "networked")
    /\ UNCHANGED <<otherVars, running, exit, troubled, box, tunnelVars>>

\* ensureNetworkAttached inspects it: if it can be routed to, wgUp is on its way;
\* it may also have been removed meanwhile.
EnsureNetworkAttached(c) ==
    /\ at[c] = "attaching"
    /\ \/ /\ net = "routed"
          /\ GoTo(c, "networked")
          /\ ups' = ups \cup {c}
          /\ UNCHANGED <<running, troubled>>
       \/ /\ net = "bridged"
          /\ GoTo(c, "replacing")
          /\ UNCHANGED <<running, troubled, ups>>
       \/ /\ net = "none"
          /\ ReturnAtOnce(c)
          /\ Trouble(c)
          /\ UNCHANGED ups
    /\ UNCHANGED <<otherVars, exit, engineVars, holder, tun, probes, peer, unhealed>>

\* It is removed, to be made anew; docker refuses if containers run on it or if
\* another call was faster.
ReplaceNetwork(c) ==
    /\ at[c] = "replacing"
    /\ IF net = "none" \/ Running # {}
       THEN ReturnAtOnce(c) /\ Trouble(c) /\ UNCHANGED net
       ELSE net' = "none" /\ GoTo(c, "called") /\ UNCHANGED <<running, troubled>>
    /\ UNCHANGED <<otherVars, exit, box, tunnelVars>>

CreateBox(c) ==
    /\ at[c] = "networked"
    /\ box' = [box EXCEPT ![c] = "created"]
    /\ GoTo(c, "boxed")
    /\ UNCHANGED <<otherVars, running, exit, troubled, net, tunnelVars>>

\* A container starts on its network.
StartBox(c) ==
    /\ at[c] = "boxed"
    /\ \/ /\ box[c] = "created" /\ net # "none"
          /\ box' = [box EXCEPT ![c] = "running"]
          /\ GoTo(c, "inBox")
          /\ UNCHANGED <<running, troubled>>
       \/ /\ box[c] = "created" /\ net = "none"
          /\ Leave(c, "error")
          /\ Trouble(c)
          /\ UNCHANGED box
       \/ /\ box[c] # "created"
          /\ Leave(c, "error")
          /\ UNCHANGED <<box, troubled>>
    /\ UNCHANGED <<otherVars, exit, net, tunnelVars>>

BoxExits(c) ==
    /\ box[c] = "running"
    /\ box' = [box EXCEPT ![c] = "exited"]
    /\ \E code \in {"zero", "nonzero"} : exit' = [exit EXCEPT ![c] = code]
    /\ UNCHANGED <<otherVars, running, at, troubled, net, tunnelVars>>

\* ContainerWait.  If there is nothing left to wait for by the time it is asked, its
\* error is dropped.
SeeBoxExit(c) ==
    /\ at[c] = "inBox"
    /\ \/ box[c] # "running" /\ Leave(c, exit[c])
       \/ box[c] = "none" /\ Leave(c, "waitErred")
    /\ UNCHANGED <<otherVars, exit, troubled, engineVars, tunnelVars>>

\* Docker refuses.
DockerRefuses(c) ==
    /\ \/ /\ at[c] \in {"called", "attaching", "replacing"} /\ runtime = "docker"
          /\ ReturnAtOnce(c)
       \/ at[c] \in {"networked", "boxed", "inBox"} /\ Leave(c, "error")
       \/ at[c] = "inBox" /\ Leave(c, "waitErred")
    /\ Trouble(c)
    /\ UNCHANGED <<otherVars, exit, engineVars, tunnelVars>>

\* The context is done, by the time of a request, which fails; but the create goes on
\* without it, and whatever comes of it the call then returns no error.
ContextIsDone(c) ==
    /\ runtime = "docker" /\ c \in Stoppable
    /\ cancelled' = cancelled \cup {c}
    /\ \/ at[c] \in {"called", "attaching", "replacing"} /\ ReturnAtOnce(c) /\ UNCHANGED box
       \/ /\ at[c] = "networked"
          /\ Leave(c, "gaveUp")
          /\ box' \in {box, [box EXCEPT ![c] = "created"]}
       \/ at[c] = "boxed" /\ Leave(c, "gaveUp") /\ UNCHANGED box
       \/ at[c] \in {"boxed", "inBox"} /\ Leave(c, "error") /\ UNCHANGED box
       \/ at[c] = "inBox" /\ Leave(c, "waitErred") /\ UNCHANGED box
    /\ UNCHANGED <<clusterVars, commandVars, exit, troubled, net, tunnelVars>>

Become(c, state) == box' = [box EXCEPT ![c] = state]

\* deleteContainer, with a context of its own.  It is over at once if there is nothing
\* to remove or somebody has it removed already, or if docker refuses this too; the
\* container then stays (RunContainer).  (A removal is one step if there is no command
\* that can run into it.)
CleanUpBox(c) ==
    /\ at[c] = "cleaning"
    /\ \/ /\ box[c] \notin {"none", "removing"} /\ command # "none"
          /\ Become(c, "removing")
          /\ GoTo(c, "removing")
          /\ UNCHANGED running
       \/ command = "none" /\ Become(c, "none") /\ CallOver(c, ran[c])
       \/ CallOver(c, ran[c]) /\ UNCHANGED box
    /\ UNCHANGED <<otherVars, exit, troubled, net, tunnelVars>>

\* Docker has answered, or the time is up (dockerCleanupTimeout).
CleanUpEnds(c) ==
    /\ at[c] = "removing"
    /\ CallOver(c, ran[c])
    /\ UNCHANGED <<otherVars, exit, troubled, engineVars, tunnelVars>>

-----------------------------------------------------------------------------
(* The tunnel: wgUp *)

\* The first to get wgUpMutex; the look at the VM is a goroutine of its own.
WgUp(c) ==
    /\ c \in ups
    /\ holder = Nobody
    /\ holder' = c
    /\ ups' = ups \ {c}
    /\ probes' = probes \cup {c}
    /\ UNCHANGED <<vars, platform, engineVars, commandVars, tun, peer, unhealed>>

VmAnswers == tun = "up" /\ peer \in {"set", "reset"}

\* If the VM does not answer a ping, a container is run in it that sets up its end.
SetUpVm(c) ==
    /\ c \in probes
    /\ probes' = probes \ {c}
    /\ \/ VmAnswers /\ UNCHANGED <<peer, unhealed>>
       \/ /\ ~VmAnswers
          /\ \/ /\ peer' = IF peer \in {"unset", "set"} THEN "set" ELSE "reset"
                /\ UNCHANGED unhealed
             \/ unhealed' = unhealed \cup {c} /\ UNCHANGED peer
    /\ UNCHANGED <<vars, platform, engineVars, commandVars, ups, holder, tun>>

Release(c) == holder' = Nobody /\ unhealed' = unhealed \cup {c}

\* createTunIfNotExists: a device is made in any case, and closed again if one
\* with the same address and a lower index is there.
CreateTunIfNotExists(c) ==
    /\ holder = c
    /\ \/ tun = "none" /\ tun' = "made" /\ UNCHANGED <<holder, unhealed>>
       \/ tun = "none" /\ Release(c) /\ tun' \in {"none", "leaked"}
       \/ tun = "leaked" /\ holder' = Nobody /\ UNCHANGED <<tun, unhealed>>
    /\ UNCHANGED <<vars, platform, engineVars, commandVars, ups, probes, peer>>

\* Mutant: who has made the device leaves it at that.
OnlyMade(c) ==
    /\ holder = c
    /\ tun = "made"
    /\ holder' = Nobody /\ UNCHANGED <<tun, unhealed>>
    /\ UNCHANGED <<vars, platform, engineVars, commandVars, ups, probes, peer>>

\* Sockets, configuration (with six attempts at the port) and routes; wgUp then waits
\* for the device to end.  If it fails the device stays open.
ConfigureDevice(c) ==
    /\ holder = c
    /\ tun = "made"
    /\ \/ tun' = "up" /\ UNCHANGED <<holder, unhealed>>
       \/ tun' = "leaked" /\ Release(c)
    /\ UNCHANGED <<vars, platform, engineVars, commandVars, ups, probes, peer>>

\* Docker's power saver stops the VM, with no container to run.  (Bound: once.)
VmRestarts ==
    /\ peer = "set"
    /\ Running = {}
    /\ peer' = "lost"
    /\ UNCHANGED <<vars, platform, engineVars, commandVars, ups, holder, tun, probes, unhealed>>

-----------------------------------------------------------------------------
(* The command line *)

nodeVars == <<vars, platform, tunnelVars>>

\* KillNodeIfExists: SIGTERM.  The command does not wait.
Signal == leaving' = TRUE

SignalNode ==
    /\ command = "node kill" /\ step = "given"
    /\ Signal
    /\ step' = "listing"
    /\ UNCHANGED <<nodeVars, engineVars, command, listed, todo, cut>>

\* The process ends, with all of its goroutines.
NodeExits ==
    /\ leaving
    /\ \E c \in Calls : at[c] # "dead"
    /\ at' = [c \in Calls |-> IF at[c] = "over" THEN "over" ELSE "dead"]
    /\ UNCHANGED <<callerVars, podVars, vmVars, open, ran, exit, troubled, dockerVars>>

\* Labels (container delete) or a name (down) match some containers, the others all
\* there are of opctl's.
Matching ==
    IF command \in {"down", "delete"} THEN SUBSET Calls ELSE {Calls}

\* ListContainersByLabels, or listOpctlContainers: a container that goes while the list
\* is made is listed all the same.
Found(matching) == [c \in Calls |-> IF c \in matching THEN box[c] ELSE "none"]

\* One container is taken as it is.  Of several the user chooses, who may also have
\* said --force, or choose none that is there.
Choice(cs) == IF Cardinality(cs) > 1 THEN SUBSET cs ELSE {cs}

Down(list) == Choice({c \in Calls : list[c] = "running"})

Delete(list) == Choice({c \in Calls : list[c] # "none"})

\* The user says yes or no.
Prune(list) == {{}, {c \in Calls : list[c] \notin {"none", "running"}}}

\* What a command goes for, given what it listed.
Targets(list) ==
    CASE command = "ls" -> {{}}
      [] command = "down" -> Down(list)
      [] command = "delete" -> Delete(list)
      [] command = "prune" -> Prune(list)
      [] OTHER -> {{c \in Calls : list[c] # "none"}}

List ==
    /\ \/ command \in Commands \ {"node kill"} /\ step = "given"
       \/ step = "listing"
    /\ \E matching \in Matching : listed' = Found(matching)
    /\ \E targets \in Targets(listed') :
          todo' = [c \in Calls |-> IF c \in targets THEN "stop" ELSE "nothing"]
    /\ step' = "deleting"
    /\ UNCHANGED <<nodeVars, engineVars, command, cut, leaving>>

\* Mutant: an error of one deletion is dropped.
IgnoreErrors(c) == todo' = [todo EXCEPT ![c] = "nothing"] /\ UNCHANGED step

\* A deletion fails: the command gives up (those beside it in the error group
\* fail with it, if they are not over).
GiveUp(c) ==
    /\ step' = "failed"
    /\ todo' = [d \in Calls |-> "nothing"]

\* One after the other, but for the node-wide ones.
Turn(c) ==
    /\ step = "deleting"
    /\ \/ command \in {"node kill", "node delete"}
       \/ \A d \in Calls \ {c} : todo[d] \notin {"remove", "await"}

\* deleteContainer: ContainerStop, whose error is ignored.
StopBox(c) ==
    /\ todo[c] = "stop" /\ Turn(c)
    /\ todo' = [todo EXCEPT ![c] = "remove"]
    /\ \/ /\ box[c] = "running"
          /\ box' = [box EXCEPT ![c] = "exited"]
          /\ \E code \in {"zero", "nonzero"} : exit' = [exit EXCEPT ![c] = code]
          /\ cut' = cut \cup {c}
       \/ UNCHANGED <<box, exit, cut>>
    /\ UNCHANGED <<callerVars, podVars, vmVars, at, open, ran, troubled, platform, tunnelVars,
                   net, command, step, listed, leaving>>

\* ContainerRemove, by force.  That it is not there, or that its removal is "already in
\* progress", is fine.
RemoveBox(c) ==
    /\ todo[c] = "remove" /\ Turn(c)
    /\ \/ /\ box[c] \in {"none", "removing"}
          /\ todo' = [todo EXCEPT ![c] = IF box[c] = "none" THEN "nothing" ELSE "taken"]
          /\ UNCHANGED <<box, exit, cut, troubled, step>>
       \/ /\ box[c] \notin {"none", "removing"}
          /\ todo' = [todo EXCEPT ![c] = "await"]
          /\ Become(c, "removing")
          /\ exit' = IF box[c] = "running" THEN [exit EXCEPT ![c] = "nonzero"] ELSE exit
          /\ cut' = IF box[c] = "running" THEN cut \cup {c} ELSE cut
          /\ Trouble(c)
          /\ UNCHANGED step
       \/ /\ box[c] # "none"
          /\ GiveUp(c)
          /\ UNCHANGED <<box, exit, cut, troubled>>
    /\ UNCHANGED <<callerVars, podVars, vmVars, at, open, ran, platform, tunnelVars,
                   net, command, listed, leaving>>

\* The command has docker's answer, or none in time (dockerMutationTimeout).
Removed(c) ==
    /\ todo[c] = "await"
    /\ \/ box[c] = "none" /\ todo' = [todo EXCEPT ![c] = "nothing"] /\ UNCHANGED step
       \/ box[c] # "none" /\ GiveUp(c)
    /\ UNCHANGED <<nodeVars, engineVars, command, listed, cut, leaving>>

\* Docker gets done with a removal, whoever asked for it ...
EngineRemoves(c) ==
    /\ box[c] = "removing"
    /\ Become(c, "none")
    /\ UNCHANGED <<vars, platform, net, commandVars, tunnelVars>>

\* ... or fails in it, which a command that waits for it hears of.
EngineKeeps(c) ==
    /\ box[c] = "removing"
    /\ Become(c, "exited")
    /\ IF todo[c] = "await" THEN GiveUp(c) ELSE UNCHANGED <<todo, step>>
    /\ UNCHANGED <<nodeVars, net, command, listed, cut, leaving>>

\* ensureNetworkDetached, of the node-wide ones: docker refuses while containers run
\* on it.  `node delete` tells the node to exit only now.
Finish ==
    /\ step = "deleting"
    /\ \A c \in Calls : todo[c] \in {"nothing", "taken"}
    /\ IF command \notin {"node kill", "node delete"}
       THEN step' = "ok" /\ UNCHANGED <<net, leaving>>
       ELSE IF Running # {} THEN step' = "failed" /\ UNCHANGED <<net, leaving>>
       ELSE step' = "ok" /\ net' = "none" /\ Signal
    /\ UNCHANGED <<nodeVars, box, command, listed, todo, cut>>

-----------------------------------------------------------------------------
DockerStep(c) ==
    \/ EnsureNetworkExists(c) \/ EnsureNetworkAttached(c) \/ ReplaceNetwork(c)
    \/ CreateBox(c) \/ StartBox(c) \/ SeeBoxExit(c) \/ CleanUpBox(c)
    \/ CleanUpEnds(c)

TunnelStep(c) == WgUp(c) \/ SetUpVm(c) \/ CreateTunIfNotExists(c) \/ ConfigureDevice(c)

CommandStep ==
    \/ SignalNode \/ List \/ Finish
    \/ \E c \in Calls : StopBox(c) \/ RemoveBox(c) \/ Removed(c)

DockerNext ==
    \/ Next /\ UNCHANGED dockerVars
    \/ \E c \in Calls : DockerStep(c) \/ BoxExits(c) \/ DockerRefuses(c) \/ ContextIsDone(c)
                       \/ TunnelStep(c) \/ EngineRemoves(c) \/ EngineKeeps(c)
    \/ VmRestarts
    \/ CommandStep
    \/ NodeExits

DockerSpec == DockerInit /\ [][DockerNext]_allVars

\* Some call, goroutine or container moves while any can: goroutines run, a call's own
\* requests are answered, containers that run exit, and a watch closes once its context
\* is done.  A pod need not start, no command be given, nor the VM restart.
DockerFairness ==
    WF_allVars(\E c \in Calls :
        \/ CallStep(c) /\ UNCHANGED dockerVars
        \/ PodEnds(c) /\ pods[c] = "Running" /\ UNCHANGED dockerVars
        \/ WatchCloses(c) /\ c \in cancelled /\ UNCHANGED dockerVars
        \/ DockerStep(c) \/ BoxExits(c) \/ TunnelStep(c))

FairDockerSpec == DockerSpec /\ DockerFairness

-----------------------------------------------------------------------------
(* Properties *)

DockerTypeOK ==
    /\ TypeOK
    /\ platform \in {"linux", "darwin"}
    /\ box \in [Calls -> States]
    /\ net \in {"none", "bridged", "routed"}
    /\ command \in Commands \cup {"none"}
    /\ step \in {"given", "listing", "deleting", "ok", "failed"}
    /\ listed \in [Calls -> States]
    /\ todo \in [Calls -> {"nothing", "stop", "remove", "await", "taken"}]
    /\ cut \subseteq Calls /\ leaving \in BOOLEAN
    /\ ups \subseteq Calls /\ probes \subseteq Calls /\ unhealed \subseteq Calls
    /\ holder \in Calls \cup {Nobody}
    /\ tun \in {"none", "made", "up", "leaked"}
    /\ peer \in {"unset", "set", "lost", "reset"}

\* `opctl node kill` and `node delete` that report success have removed what they
\* found, in whatever order the deletions, the calls' own clean-ups and the end of
\* the node come, and whichever of the deletions docker refuses or fails in
\* (deleteOpctlContainers); but for containers somebody else was having removed, which
\* may not be over yet and may still fail (deleteContainer.go:47).
KillLeavesNothing ==
    (step = "ok" /\ command \in {"node kill", "node delete"}) =>
        \A c \in Calls : listed[c] # "none" => box[c] = "none" \/ todo[c] = "taken"

\* What `container prune` and `container down` are given to delete may have changed
\* since it was listed.  Prune stops no container that runs ("that are not currently
\* running") but one that had been created when it looked and was started since; down
\* and delete leave alone what did not match.
CommandsKeepTheirWord ==
    /\ KillLeavesNothing
    /\ \A c \in cut : /\ command = "prune" => listed[c] = "created"
                      /\ command = "down" => listed[c] = "running"
                      /\ listed[c] # "none"

\* What keeps wgUp from setting up the VM: a step of it failed, or left a device behind
\* that is taken for a tunnel ever after (createTunIfNotExists); or a tunnel is up, whose
\* wgUp holds wgUpMutex until the device ends, so that the others wait for ever.
CannotHeal(c) == c \in unhealed \/ tun = "leaked" \/ (tun = "up" /\ c # holder)

\* "is intended to be run every time a container starts in order to self-heal": on macOS,
\* when a call has succeeded, docker's VM is reached through the tunnel in the end, or
\* has restarted since, but for what CannotHeal names.
NetworkHeals ==
    \A c \in Calls :
       <>[]((result[c] = "ok" /\ platform = "darwin")
               => VmAnswers \/ CannotHeal(c) \/ peer = "lost")
=============================================================================
