----------------------------- MODULE NodeDaemon -----------------------------
(***************************************************************************)
(* The node as a process (cli/cmd/node, cli/internal/pidfile): a daemon that *)
(* holds its data dir's pid file, clears the resolver configs left by the    *)
(* ones before it, opens the events, and serves the API and DNS until it is  *)
(* told to stop; and the commands that kill a node and delete its data dir.  *)
(*                                                                         *)
(* The pid file is never removed when a node exits: a lock whose process is  *)
(* gone is taken over by overwriting it.                                    *)
(***************************************************************************)
EXTENDS Naturals

CONSTANTS
    Nodes,       \* daemon processes
    Old,         \* a process of before, dead by now
    NoOne,       \* no process
    Absent,      \* there is no pid file
    Empty,       \* there is one and it is empty
    MaxTroubles  \* bound: nodes killed by SIGKILL, node kill and delete commands, and
                 \* sweeps of nodes that fail

ASSUME DaemonAssumption ==
    /\ \A x \in {Old, NoOne, Absent, Empty} : x \notin Nodes
    /\ Old # Absent /\ Old # Empty /\ Absent # Empty
    /\ MaxTroubles \in Nat

VARIABLES
    pidFile,  \* what it holds
    seen,     \* what each node found in it when it looked, Empty if it made it
    phase,    \* where each node's main thread is
    api, dns, \* its two servers
    ending,   \* nodes whose context is done
    deaf,     \* nodes whose DNS server was shut down before it listened
    why,      \* how each node exited
    events,   \* the process that has the events of this data dir open
    dir,      \* the data dir is there
    unlinked, \* nodes that write to a pid file which was removed
    cfgs,     \* nodes whose resolver configs are in place
    left,     \* those among them which the last start's sweep could not remove
    reused,   \* the OS gave the pid of Old to another process
    command,  \* "delete" when a command is about to remove the data dir
    broken,   \* the lock is: a node overwrote a pid file that had changed since
              \* it looked, or the data dir was removed while there were nodes
    troubles

processVars == <<phase, api, dns, ending, deaf, why>>
cfgVars == <<cfgs, left>>
diskVars == <<pidFile, seen, events, dir, unlinked, cfgVars, broken>>
daemonVars == <<processVars, diskVars, reused, command, troubles>>

Alive(n) == phase[n] \notin {"unborn", "exited"}
Serving == {n \in Nodes : api[n] = "serving"}

DaemonInit ==
    /\ pidFile \in {Absent, Old}
    /\ seen = [n \in Nodes |-> Absent]
    /\ phase = [n \in Nodes |-> "unborn"]
    /\ api = [n \in Nodes |-> "none"]
    /\ dns = [n \in Nodes |-> "none"]
    /\ ending = {} /\ deaf = {} /\ unlinked = {}
    /\ why = [n \in Nodes |-> "none"]
    /\ events = NoOne
    /\ dir = TRUE
    /\ cfgs = {Old} /\ left = {}
    /\ reused \in BOOLEAN /\ (reused => pidFile = Old)
    /\ command = "none"
    /\ broken = FALSE
    /\ troubles = 0

-----------------------------------------------------------------------------
(* Starting *)

Enter(n, p) == phase' = [phase EXCEPT ![n] = p]

Trouble == troubles < MaxTroubles /\ troubles' = troubles + 1

\* The process ends, and with it all that it holds.
Exit(n, reason) ==
    /\ Enter(n, "exited")
    /\ why' = [why EXCEPT ![n] = reason]
    /\ api' = [api EXCEPT ![n] = "none"]
    /\ dns' = [dns EXCEPT ![n] = "none"]
    /\ events' = IF events = n THEN NoOne ELSE events
    /\ ending' = ending \ {n} /\ deaf' = deaf \ {n} /\ unlinked' = unlinked \ {n}

\* The data dir is made if it is not there.
Spawn(n) ==
    /\ phase[n] = "unborn"
    /\ Enter(n, "locking")
    /\ dir' = TRUE
    /\ UNCHANGED <<api, dns, ending, deaf, why, pidFile, seen, events, unlinked, cfgVars,
                   broken, reused, command, troubles>>

Elsewhere == UNCHANGED <<reused, command, troubles>>
Stays == UNCHANGED <<api, dns, ending, deaf, why, events, unlinked>>

\* OpenFile with O_CREATE and O_EXCL.
CreatePidFile(n) ==
    /\ phase[n] = "locking"
    /\ \/ /\ dir /\ pidFile = Absent
          /\ pidFile' = Empty
          /\ seen' = [seen EXCEPT ![n] = Empty]
          /\ Enter(n, "writing")
          /\ Stays
       \/ /\ dir /\ pidFile # Absent
          /\ Enter(n, "looking")
          /\ Stays /\ UNCHANGED <<pidFile, seen>>
       \/ /\ ~dir
          /\ Exit(n, "failed")
          /\ UNCHANGED <<pidFile, seen>>
    /\ Elsewhere
    /\ UNCHANGED <<dir, cfgVars, broken>>

\* TryGetProcess finds a process with the pid in the file.
Found(p) == (p \in Nodes /\ Alive(p)) \/ (p = Old /\ reused)

\* Mutant: an empty file is taken for the file of a dead process.
LookUpEmptyIsDead(n) ==
    /\ phase[n] = "looking"
    /\ \/ Found(pidFile) /\ Exit(n, "running") /\ UNCHANGED seen
       \/ /\ ~Found(pidFile)
          /\ seen' = [seen EXCEPT ![n] = pidFile]
          /\ Enter(n, "writing")
          /\ Stays
    /\ Elsewhere
    /\ UNCHANGED <<pidFile, dir, cfgVars, broken>>

\* The file was there; is its process?
LookUp(n) ==
    /\ phase[n] = "looking"
    /\ \/ pidFile = Empty /\ Exit(n, "failed") /\ UNCHANGED seen
       \/ Found(pidFile) /\ Exit(n, "running") /\ UNCHANGED seen
       \/ /\ pidFile # Empty /\ ~Found(pidFile)
          /\ seen' = [seen EXCEPT ![n] = pidFile]
          /\ Enter(n, "writing")
          /\ Stays
    /\ Elsewhere
    /\ UNCHANGED <<pidFile, dir, cfgVars, broken>>

\* WriteFile: opens the file anew, for truncation, making it if need be ...
Truncate(n) ==
    /\ phase[n] = "writing"
    /\ \/ /\ dir
          /\ pidFile' = Empty
          /\ broken' = (broken \/ pidFile # seen[n])
          /\ Enter(n, "truncated")
          /\ Stays
       \/ ~dir /\ Exit(n, "failed") /\ UNCHANGED <<pidFile, broken>>
    /\ Elsewhere
    /\ UNCHANGED <<seen, dir, cfgVars>>

\* ... and writes.
WritePid(n) ==
    /\ phase[n] = "truncated"
    /\ pidFile' = IF n \in unlinked THEN pidFile ELSE n
    /\ unlinked' = unlinked \ {n}
    /\ seen' = [seen EXCEPT ![n] = Absent]
    /\ Enter(n, "sweeping")
    /\ Elsewhere
    /\ UNCHANGED <<why, api, dns, ending, deaf, events, dir, cfgVars, broken>>

\* dns.DeleteResolverCfgs: a config that cannot be removed ends the walk over them with
\* an error, and so may the flush of the caches when all are gone.
DeleteResolverCfgs(ok) == cfgs' \in IF ok THEN {{}} ELSE SUBSET cfgs

\* What a node does of it, which only warns (to which it is all the same if the
\* flush alone fails).
SweepOrWarn ==
    \/ DeleteResolverCfgs(TRUE) /\ UNCHANGED troubles
    \/ DeleteResolverCfgs(FALSE) /\ cfgs' # {} /\ Trouble

\* Mutant: leaked resolver configs stay.
DontSweep(n) ==
    /\ phase[n] = "sweeping"
    /\ Enter(n, "up")
    /\ api' = [api EXCEPT ![n] = "opening"]
    /\ dns' = [dns EXCEPT ![n] = "starting"]
    /\ Elsewhere
    /\ UNCHANGED <<why, ending, deaf, pidFile, seen, events, dir, unlinked, cfgVars, broken>>

\* It has the lock and clears what nodes before it left behind; if that fails it warns,
\* and goes on with what is left.
Sweep(n) ==
    /\ phase[n] = "sweeping"
    /\ SweepOrWarn
    /\ left' = cfgs'
    /\ Enter(n, "up")
    /\ api' = [api EXCEPT ![n] = "opening"]
    /\ dns' = [dns EXCEPT ![n] = "starting"]
    /\ UNCHANGED <<why, ending, deaf, pidFile, seen, events, dir, unlinked, broken,
                   reused, command>>

-----------------------------------------------------------------------------
(* Serving: the API's and the DNS server's thread, in one error group *)

Serves == UNCHANGED <<phase, why, pidFile, seen, unlinked, broken,
                      reused, command, troubles>>

\* core.New, which makes the data dir if need be, and fails when another process
\* has the events open.
OpenEvents(n) ==
    /\ api[n] = "opening"
    /\ dir' = TRUE
    /\ \/ /\ events = NoOne
          /\ events' = n
          /\ api' = [api EXCEPT ![n] = "binding"]
          /\ UNCHANGED ending
       \/ /\ events # NoOne
          /\ api' = [api EXCEPT ![n] = "failed"]
          /\ ending' = ending \cup {n}
          /\ UNCHANGED events
    /\ Serves /\ UNCHANGED <<dns, deaf, cfgVars>>

\* The address may be taken.
ListenApi(n) ==
    /\ api[n] = "binding"
    /\ \/ /\ Serving = {}
          /\ api' = [api EXCEPT ![n] = "serving"]
          /\ UNCHANGED ending
       \/ /\ Serving # {}
          /\ api' = [api EXCEPT ![n] = "failed"]
          /\ ending' = ending \cup {n}
    /\ Serves /\ UNCHANGED <<dns, deaf, events, dir, cfgVars>>

ListenDns(n) ==
    /\ dns[n] = "starting"
    /\ \/ /\ \A m \in Nodes : dns[m] # "serving"
          /\ dns' = [dns EXCEPT ![n] = "serving"]
          /\ UNCHANGED ending
       \/ /\ \E m \in Nodes : dns[m] = "serving"
          /\ dns' = [dns EXCEPT ![n] = "failed"]
          /\ ending' = ending \cup {n}
    /\ Serves /\ UNCHANGED <<api, deaf, events, dir, cfgVars>>

\* A container of the node gets a name.
Register(n) ==
    /\ api[n] \in {"serving", "done"} /\ n \notin cfgs
    /\ cfgs' = cfgs \cup {n}
    /\ Serves /\ UNCHANGED <<api, dns, ending, deaf, events, dir, left>>

\* Shutdown and Close keep the API server from starting, too.
StopApi(n) ==
    /\ n \in ending
    /\ api[n] \in {"binding", "serving"}
    /\ api' = [api EXCEPT ![n] = "done"]
    /\ Serves /\ UNCHANGED <<dns, ending, deaf, events, dir, cfgVars>>

\* Mutant: DNS is stopped along with the API only.
StopDnsIfApiStopped(n) ==
    /\ n \in ending \ deaf
    /\ api[n] = "done"
    /\ \/ /\ dns[n] = "serving"
          /\ dns' = [dns EXCEPT ![n] = "done"]
          /\ UNCHANGED deaf
       \/ /\ dns[n] = "starting"
          /\ deaf' = deaf \cup {n}
          /\ UNCHANGED dns
    /\ Serves /\ UNCHANGED <<api, ending, events, dir, cfgVars>>

\* ShutdownContext of a server that has not started does nothing, once.
StopDns(n) ==
    /\ n \in ending \ deaf
    /\ \/ /\ dns[n] = "serving"
          /\ dns' = [dns EXCEPT ![n] = "done"]
          /\ UNCHANGED deaf
       \/ /\ dns[n] = "starting"
          /\ deaf' = deaf \cup {n}
          /\ UNCHANGED dns
    /\ Serves /\ UNCHANGED <<api, ending, events, dir, cfgVars>>

\* Both have ended; the node clears the resolver configs, or warns, and is gone.
Leave(n) ==
    /\ phase[n] = "up"
    /\ api[n] \in {"done", "failed"} /\ dns[n] \in {"done", "failed"}
    /\ SweepOrWarn
    /\ Exit(n, IF "failed" \in {api[n], dns[n]} THEN "failed" ELSE "stopped")
    /\ UNCHANGED <<pidFile, seen, dir, left, broken, reused, command>>

DaemonStep(n) ==
    \/ CreatePidFile(n) \/ LookUp(n) \/ Truncate(n) \/ WritePid(n) \/ Sweep(n)
    \/ OpenEvents(n) \/ ListenApi(n) \/ ListenDns(n)
    \/ StopApi(n) \/ StopDns(n) \/ Leave(n)

-----------------------------------------------------------------------------
(* Stopping *)

\* SIGTERM is fatal until signals are caught, and later ends the context; so it
\* does nothing to a node whose context is done.
Signal(n) ==
    IF phase[n] = "up"
    THEN ending' = ending \cup {n} /\ UNCHANGED <<phase, why, api, dns, deaf, events, unlinked>>
    ELSE Exit(n, "killed")

Crash(n) ==
    /\ Trouble
    /\ Alive(n)
    /\ Exit(n, "killed")
    /\ UNCHANGED <<pidFile, seen, dir, cfgVars, broken, reused, command>>

\* `opctl node kill` and `opctl node delete`: KillNodeIfExists, then the sweep of
\* the resolver configs, whose failure ends the command.  Neither waits until the node
\* has stopped.
KillNode(next) ==
    /\ command = "none"
    /\ Trouble
    /\ IF pidFile \in Nodes /\ Alive(pidFile)
       THEN Signal(pidFile) ELSE UNCHANGED <<processVars, events, unlinked>>
    /\ \/ pidFile = Empty /\ UNCHANGED <<command, cfgs>>
       \/ /\ pidFile # Empty
          /\ \/ DeleteResolverCfgs(TRUE) /\ command' = next
             \/ DeleteResolverCfgs(FALSE) /\ UNCHANGED command
    /\ UNCHANGED <<pidFile, seen, dir, left, broken, reused>>

RemoveDataDir ==
    /\ command = "delete"
    /\ dir' = FALSE
    /\ pidFile' = Absent
    /\ events' = NoOne
    /\ unlinked' = unlinked \cup {n \in Nodes : phase[n] = "truncated"}
    /\ broken' = (broken \/ \E n \in Nodes : Alive(n))
    /\ command' = "none"
    /\ UNCHANGED <<processVars, seen, cfgVars, reused, troubles>>

DaemonNext ==
    \/ \E n \in Nodes : Spawn(n) \/ DaemonStep(n) \/ Register(n) \/ Crash(n)
    \/ \E next \in {"none", "delete"} : KillNode(next)
    \/ RemoveDataDir

DaemonSpec == DaemonInit /\ [][DaemonNext]_daemonVars

-----------------------------------------------------------------------------
(* Properties *)

Holders == {n \in Nodes : phase[n] \in {"sweeping", "up"}}

DaemonTypeOK ==
    /\ pidFile \in Nodes \cup {Old, Absent, Empty}
    /\ seen \in [Nodes -> Nodes \cup {Old, Absent, Empty}]
    /\ phase \in [Nodes -> {"unborn", "locking", "looking", "writing", "truncated",
                            "sweeping", "up", "exited"}]
    /\ api \in [Nodes -> {"none", "opening", "binding", "serving", "done", "failed"}]
    /\ dns \in [Nodes -> {"none", "starting", "serving", "done", "failed"}]
    /\ ending \subseteq {n \in Nodes : phase[n] = "up"}
    /\ deaf \subseteq ending
    /\ unlinked \subseteq {n \in Nodes : phase[n] = "truncated"}
    /\ why \in [Nodes -> {"none", "running", "failed", "stopped", "killed"}]
    /\ events \in Nodes \cup {NoOne}
    /\ dir \in BOOLEAN /\ broken \in BOOLEAN
    /\ cfgs \subseteq Nodes \cup {Old} /\ left \subseteq Nodes \cup {Old}
    /\ reused \in BOOLEAN
    /\ command \in {"none", "delete"}
    /\ troubles \in 0..MaxTroubles

\* "We hold this data dir's pidfile lock here" (create.go:78): one process at a
\* time does, crashes and stale files notwithstanding, unless one overwrote what
\* another had written since it looked, or the data dir was removed meanwhile.
LockIsExclusive == (\A m, n \in Holders : m = n) \/ broken

\* Resolver configs "leaked by a prior node that didn't shut down cleanly"
\* (create.go:73) are gone by the time a node serves, but for those its start could
\* not remove, of which it warns (create.go:82); and no command or node brings others
\* back, whichever sweeps of theirs fail.
LeakedCfgsAreSwept ==
    \A n \in Serving : cfgs \subseteq {n} \cup left \/ broken

\* "catch signals to ensure shutdown properly happens" (create.go:88): a node that
\* is told to stop, or one of whose servers fails, exits, but when its DNS server
\* is told so before it listens.
StoppedNodesExit ==
    \A n \in Nodes : (n \in ending) ~> (phase[n] = "exited" \/ n \in deaf)
=============================================================================
