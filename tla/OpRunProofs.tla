---------------------------- MODULE OpRunProofs ----------------------------
(***************************************************************************)
(* For any nodes, runs, params, sources, trees of calls and troubles.        *)
(*                                                                         *)
(* Nodes: one at a time holds the lock, but in the two ways NodeDaemon       *)
(* names, and one that serves finds no resolver configs but its own, and     *)
(* those that the last start failed to remove.  Both are about the daemons   *)
(* alone (DaemonSpec), which is also shown to be all that runs do to them.   *)
(*                                                                         *)
(* Runs: what a run gives its op as args, and what it shows of the op's      *)
(* calls, is as CliParams and RunOutput say; and neither lets a run do       *)
(* anything that OpRun does not know of, so what is proved of nodes goes for *)
(* these too.                                                                *)
(***************************************************************************)
EXTENDS RunOutput, SequenceTheorems, TLAPS

(* Nodes *)


\* A process that the pid file names has been there, and one that a node took
\* for dead is.
Named ==
    /\ pidFile \in Nodes => phase[pidFile] \in {"sweeping", "up", "exited"}
    /\ \A n \in Nodes : seen[n] \in Nodes => phase[seen[n]] = "exited"

\* Nodes about to put their pid into a file they have made or emptied.
Making == {n \in Nodes : phase[n] = "truncated" \/ (phase[n] = "writing" /\ seen[n] = Empty)}

\* While the lock is not broken the file says who has it or that there is a node
\* about to, and that is one node at most.
LockIsKept ==
    ~broken => /\ \A n \in Holders : pidFile = n
               /\ \A n \in Making : pidFile = Empty /\ n \notin unlinked
               /\ \A m, n \in Making : m = n

\* What a node has opened, and whose configs there are once it is up.
UpIsOwn ==
    /\ \A n \in Nodes : (api[n] # "none" \/ dns[n] # "none") => phase[n] = "up"
    /\ ~broken => \A n \in Nodes : phase[n] = "up" => cfgs \subseteq {n} \cup left

DaemonInv == DaemonTypeOK /\ Named /\ LockIsKept /\ UpIsOwn

-----------------------------------------------------------------------------

LEMMA InitDaemon == ASSUME DaemonInit PROVE DaemonInv
<1>. USE DaemonAssumption DEF DaemonInit
<1>1. DaemonTypeOK
  <2>1. /\ pidFile \in Nodes \cup {Old, Absent, Empty} /\ events \in Nodes \cup {NoOne}
        /\ dir \in BOOLEAN /\ broken \in BOOLEAN /\ command \in {"none", "delete"}
    OBVIOUS
  <2>2. /\ cfgs \subseteq Nodes \cup {Old} /\ left \subseteq Nodes \cup {Old}
        /\ ending = {} /\ deaf = {} /\ unlinked = {}
    OBVIOUS
  <2>5. troubles \in 0..MaxTroubles
    OBVIOUS
  <2>4. /\ seen \in [Nodes -> Nodes \cup {Old, Absent, Empty}]
        /\ phase \in [Nodes -> {"unborn"}]
        /\ api \in [Nodes -> {"none"}] /\ dns \in [Nodes -> {"none"}] /\ why \in [Nodes -> {"none"}]
    OBVIOUS
  <2>3. reused \in BOOLEAN
    BY Zenon
  <2>. HIDE DEF DaemonInit
  <2>. QED
    BY <2>1, <2>2, <2>3, <2>4, <2>5 DEF DaemonTypeOK
<1>2. Named /\ LockIsKept /\ UpIsOwn
  BY DEF Named, LockIsKept, UpIsOwn, Holders, Making
<1>. QED
  BY <1>1, <1>2 DEF DaemonInv

\* Type correctness, by the disjuncts of DaemonNext.
LEMMA StepTypes ==
  ASSUME DaemonTypeOK, UpIsOwn, [DaemonNext]_daemonVars
  PROVE  DaemonTypeOK'
<1>. USE DaemonAssumption DEF DaemonTypeOK, Enter, Exit, Elsewhere, Stays, Serves, Alive,
         processVars, diskVars, cfgVars
<1>1. ASSUME NEW n \in Nodes, Spawn(n) PROVE DaemonTypeOK'
  BY <1>1 DEF Spawn
<1>2. ASSUME NEW n \in Nodes, CreatePidFile(n) PROVE DaemonTypeOK'
  BY <1>2 DEF CreatePidFile
<1>3. ASSUME NEW n \in Nodes, LookUp(n) PROVE DaemonTypeOK'
  BY <1>3 DEF LookUp
<1>4. ASSUME NEW n \in Nodes, Truncate(n) PROVE DaemonTypeOK'
  BY <1>4 DEF Truncate
<1>5. ASSUME NEW n \in Nodes, WritePid(n) PROVE DaemonTypeOK'
  BY <1>5 DEF WritePid
<1>6. ASSUME NEW n \in Nodes, Sweep(n) PROVE DaemonTypeOK'
  BY <1>6 DEF Sweep, SweepOrWarn, DeleteResolverCfgs, Trouble
<1>7. ASSUME NEW n \in Nodes, OpenEvents(n) PROVE DaemonTypeOK'
  BY <1>7 DEF OpenEvents, UpIsOwn
<1>8. ASSUME NEW n \in Nodes, ListenApi(n) PROVE DaemonTypeOK'
  BY <1>8 DEF ListenApi, UpIsOwn
<1>9. ASSUME NEW n \in Nodes, ListenDns(n) PROVE DaemonTypeOK'
  BY <1>9 DEF ListenDns, UpIsOwn
<1>10. ASSUME NEW n \in Nodes, Register(n) PROVE DaemonTypeOK'
  BY <1>10 DEF Register
<1>11. ASSUME NEW n \in Nodes, StopApi(n) PROVE DaemonTypeOK'
  BY <1>11 DEF StopApi
<1>12. ASSUME NEW n \in Nodes, StopDns(n) PROVE DaemonTypeOK'
  BY <1>12 DEF StopDns
<1>13. ASSUME NEW n \in Nodes, Leave(n) PROVE DaemonTypeOK'
  BY <1>13 DEF Leave, SweepOrWarn, DeleteResolverCfgs, Trouble
<1>14. ASSUME NEW n \in Nodes, Crash(n) PROVE DaemonTypeOK'
  BY <1>14 DEF Crash, Trouble
<1>15. ASSUME NEW next \in {"none", "delete"}, KillNode(next) PROVE DaemonTypeOK'
  BY <1>15 DEF KillNode, Trouble, Signal, DeleteResolverCfgs
<1>16. ASSUME RemoveDataDir PROVE DaemonTypeOK'
  BY <1>16 DEF RemoveDataDir
<1>17. CASE UNCHANGED daemonVars
  BY <1>17 DEF daemonVars
<1>. HIDE DEF DaemonTypeOK
<1>. QED
  BY <1>1, <1>2, <1>3, <1>4, <1>5, <1>6, <1>7, <1>8, <1>9, <1>10, <1>11, <1>12, <1>13,
     <1>14, <1>15, <1>16, <1>17 DEF DaemonNext, DaemonStep

Kept == Named /\ LockIsKept /\ UpIsOwn

\* By the disjuncts again.
LEMMA StepDaemon ==
  ASSUME DaemonInv, DaemonTypeOK', [DaemonNext]_daemonVars
  PROVE  Kept'
<1>. USE DaemonAssumption DEF Kept, DaemonInv, DaemonTypeOK, Named, LockIsKept, UpIsOwn, Holders, Making,
         Enter, Exit, Elsewhere, Stays, Serves, Alive, processVars, diskVars, cfgVars
<1>1. ASSUME NEW n \in Nodes, Spawn(n) PROVE Kept'
  BY <1>1 DEF Spawn
<1>2. ASSUME NEW n \in Nodes, CreatePidFile(n) PROVE Kept'
  <2>1. CASE dir /\ pidFile = Absent
    BY <1>2, <2>1 DEF CreatePidFile
  <2>2. CASE ~(dir /\ pidFile = Absent)
    BY <1>2, <2>2 DEF CreatePidFile
  <2>. QED
    BY <2>1, <2>2
<1>3. ASSUME NEW n \in Nodes, LookUp(n) PROVE Kept'
  BY <1>3 DEF LookUp, Found
<1>4. ASSUME NEW n \in Nodes, Truncate(n) PROVE Kept'
  BY <1>4 DEF Truncate
<1>5. ASSUME NEW n \in Nodes, WritePid(n) PROVE Kept'
  BY <1>5 DEF WritePid
<1>6. ASSUME NEW n \in Nodes, Sweep(n) PROVE Kept'
  BY <1>6 DEF Sweep, SweepOrWarn, DeleteResolverCfgs, Trouble
<1>7. ASSUME NEW n \in Nodes, OpenEvents(n) PROVE Kept'
  BY <1>7 DEF OpenEvents
<1>8. ASSUME NEW n \in Nodes, ListenApi(n) PROVE Kept'
  BY <1>8 DEF ListenApi
<1>9. ASSUME NEW n \in Nodes, ListenDns(n) PROVE Kept'
  BY <1>9 DEF ListenDns
<1>10. ASSUME NEW n \in Nodes, Register(n) PROVE Kept'
  BY <1>10 DEF Register
<1>11. ASSUME NEW n \in Nodes, StopApi(n) PROVE Kept'
  BY <1>11 DEF StopApi
<1>12. ASSUME NEW n \in Nodes, StopDns(n) PROVE Kept'
  BY <1>12 DEF StopDns
<1>13. ASSUME NEW n \in Nodes, Leave(n) PROVE Kept'
  BY <1>13 DEF Leave, SweepOrWarn, DeleteResolverCfgs, Trouble
<1>14. ASSUME NEW n \in Nodes, Crash(n) PROVE Kept'
  BY <1>14 DEF Crash, Trouble
<1>15. ASSUME NEW next \in {"none", "delete"}, KillNode(next) PROVE Kept'
  <2>1. CASE pidFile \in Nodes /\ Alive(pidFile) /\ phase[pidFile] = "up"
    BY <1>15, <2>1 DEF KillNode, Signal, DeleteResolverCfgs
  <2>2. CASE pidFile \in Nodes /\ Alive(pidFile) /\ phase[pidFile] # "up"
    BY <1>15, <2>2 DEF KillNode, Signal, DeleteResolverCfgs
  <2>3. CASE ~(pidFile \in Nodes /\ Alive(pidFile))
    BY <1>15, <2>3 DEF KillNode, DeleteResolverCfgs
  <2>. QED
    BY <2>1, <2>2, <2>3
<1>16. ASSUME RemoveDataDir PROVE Kept'
  <2>1. CASE \E n \in Nodes : Alive(n)
    <3>1. broken' /\ pidFile' = Absent
      BY <1>16, <2>1 DEF RemoveDataDir
    <3>2. UNCHANGED <<phase, seen, api, dns>>
      BY <1>16 DEF RemoveDataDir
    <3>. QED
      BY <3>1, <3>2
  <2>2. CASE \A n \in Nodes : ~Alive(n)
    BY <1>16, <2>2 DEF RemoveDataDir
  <2>. QED
    BY <2>1, <2>2
<1>17. CASE UNCHANGED daemonVars
  BY <1>17 DEF daemonVars
<1>. HIDE DEF DaemonInv, DaemonTypeOK, Kept
<1>. QED
  BY <1>1, <1>2, <1>3, <1>4, <1>5, <1>6, <1>7, <1>8, <1>9, <1>10, <1>11, <1>12, <1>13,
     <1>14, <1>15, <1>16, <1>17 DEF DaemonNext, DaemonStep

LEMMA DaemonInvariant == DaemonSpec => []DaemonInv
<1>1. DaemonInv /\ [DaemonNext]_daemonVars => DaemonInv'
  BY StepTypes, StepDaemon DEF DaemonInv, Kept
<1>. QED
  BY <1>1, InitDaemon, PTL DEF DaemonSpec

LEMMA InvGives == ASSUME DaemonInv PROVE LockIsExclusive /\ LeakedCfgsAreSwept
<1>1. LockIsExclusive
  BY DaemonAssumption DEF DaemonInv, LockIsKept, LockIsExclusive
<1>2. LeakedCfgsAreSwept
  BY DEF DaemonInv, UpIsOwn, LeakedCfgsAreSwept, Serving
<1>. QED
  BY <1>1, <1>2

-----------------------------------------------------------------------------
(* Runs do nothing else to nodes *)

LEMMA StepIsDaemonStep == ASSUME [Next]_vars PROVE [DaemonNext]_daemonVars
<1>. USE RunAssumption
<1>1. ASSUME NEW c \in Runs, RunStep(c) PROVE [DaemonNext]_daemonVars
  <2>1. CASE Probe(c)
    BY <2>1 DEF Probe, DaemonNext
  <2>2. CASE ~Probe(c)
    BY <1>1, <2>2 DEF RunStep, HasNode, HasNoNode, StartOp, Follow, SeeEnd, StreamCloses,
       EnterCall, OpEnds
  <2>. QED
    BY <2>1, <2>2
<1>2. ASSUME NEW c \in Runs, Interrupt(c) \/ Terminate(c) \/ Abort(c) \/ OpEnds(c, "finished")
      PROVE  [DaemonNext]_daemonVars
  BY <1>2 DEF Interrupt, Terminate, Abort, OpEnds
<1>3. ASSUME NodeStep PROVE [DaemonNext]_daemonVars
  BY <1>3 DEF NodeStep, DaemonNext
<1>4. ASSUME Outside PROVE [DaemonNext]_daemonVars
  <2>1. CASE \E n \in Nodes \ Runs : Spawn(n)
    BY <2>1 DEF DaemonNext
  <2>2. CASE \E c \in Runs, n \in Nodes :
               on[c] = n /\ op[c] = "running" /\ Alive(n) /\ ~broken /\ Register(n)
    BY <2>2 DEF DaemonNext
  <2>3. CASE \E n \in Nodes : Crash(n)
    BY <2>3 DEF DaemonNext
  <2>4. CASE \E next \in {"none", "delete"} : KillNode(next)
    BY <2>4 DEF DaemonNext
  <2>. QED
    BY <1>4, <2>1, <2>2, <2>3, <2>4 DEF Outside
<1>5. CASE UNCHANGED vars
  BY <1>5 DEF vars
<1>. QED
  BY <1>1, <1>2, <1>3, <1>4, <1>5 DEF Next

-----------------------------------------------------------------------------

\* At most one node holds the lock of a data dir (cli/internal/pidfile), whatever
\* number of them start, crash and are killed, but in the two cases in which it is
\* broken.
THEOREM LockHolds == DaemonSpec => []LockIsExclusive
BY DaemonInvariant, InvGives, PTL

\* No node serves beside the resolver configs of one before it (create.go:73), but for
\* those that the last start could not remove, of which it warned (create.go:82).
THEOREM SweptBeforeServing == DaemonSpec => []LeakedCfgsAreSwept
BY DaemonInvariant, InvGives, PTL

LEMMA InitIsDaemonInit == ASSUME Init PROVE DaemonInit
BY DEF Init

\* `opctl run` starts nodes and uses them, and does nothing to them that a
\* daemon of its own could not meet.
THEOREM RunsKeepToNodes == Spec => DaemonSpec
BY InitIsDaemonInit, StepIsDaemonStep, PTL DEF Spec, DaemonSpec

\* The two facts about nodes, with any number of runs about.
THEOREM LockHoldsWithRuns == Spec => []LockIsExclusive
BY RunsKeepToNodes, LockHolds, PTL

THEOREM SweptBeforeServingRuns == Spec => []LeakedCfgsAreSwept
BY RunsKeepToNodes, SweptBeforeServing, PTL

-----------------------------------------------------------------------------
(* What runs have *)

RunTypeOK ==
    /\ run \in [Runs -> {"probing", "waiting", "given", "started", "following", "ended"}]
    /\ exit \in [Runs -> Outcomes \cup {"none", "noNode", "lost", "forced", "aborted"}]
    /\ on \in [Runs -> Nodes \cup {NoOne}]
    /\ stream \in [Runs -> Nodes \cup {NoOne}]
    /\ shown \subseteq Runs /\ interrupted \subseteq Runs
    /\ op \in [Runs -> Outcomes \cup {"none", "called", "running"}]
    /\ kill \in [Runs -> {"no", "early", "asked"}]

\* Only a run whose op was over has seen the end of it, and none has an op before
\* it asked for one.
ShownIsOver ==
    /\ \A c \in shown : op[c] \in Outcomes
    /\ \A c \in Runs : run[c] \in {"probing", "waiting", "given"} => op[c] = "none"

LEMMA InitRuns == ASSUME Init PROVE RunTypeOK /\ ShownIsOver
<1>1. RunTypeOK
  BY DEF Init, RunTypeOK
<1>2. ShownIsOver
  BY DEF Init, ShownIsOver
<1>. QED
  BY <1>1, <1>2

LEMMA StepRuns ==
  ASSUME RunTypeOK, ShownIsOver, DaemonTypeOK, [Next]_vars
  PROVE  RunTypeOK' /\ ShownIsOver'
<1>. USE RunAssumption DEF RunTypeOK, ShownIsOver, Outcomes, Ended, GoOn, End, KillOp, Serving,
         cliVars, opVars
<1>1. ASSUME NEW c \in Runs, Probe(c) PROVE RunTypeOK' /\ ShownIsOver'
  BY <1>1 DEF Probe
<1>2. ASSUME NEW c \in Runs, HasNode(c) PROVE RunTypeOK' /\ ShownIsOver'
  BY <1>2 DEF HasNode
<1>3. ASSUME NEW c \in Runs, HasNoNode(c) PROVE RunTypeOK' /\ ShownIsOver'
  BY <1>3 DEF HasNoNode
<1>4. ASSUME NEW c \in Runs, StartOp(c) PROVE RunTypeOK' /\ ShownIsOver'
  BY <1>4 DEF StartOp
<1>5. ASSUME NEW c \in Runs, Follow(c) PROVE RunTypeOK' /\ ShownIsOver'
  BY <1>5 DEF Follow
<1>6. ASSUME NEW c \in Runs, SeeEnd(c) PROVE RunTypeOK' /\ ShownIsOver'
  BY <1>6 DEF SeeEnd
<1>7. ASSUME NEW c \in Runs, StreamCloses(c) PROVE RunTypeOK' /\ ShownIsOver'
  BY <1>7 DEF StreamCloses
<1>8. ASSUME NEW c \in Runs, EnterCall(c) PROVE RunTypeOK' /\ ShownIsOver'
  BY <1>8 DEF EnterCall
<1>9. ASSUME NEW c \in Runs, NEW outcome \in {"finished", "killed"}, OpEnds(c, outcome)
      PROVE  RunTypeOK' /\ ShownIsOver'
  BY <1>9 DEF OpEnds
<1>10. ASSUME NEW c \in Runs, Interrupt(c) PROVE RunTypeOK' /\ ShownIsOver'
  BY <1>10 DEF Interrupt
<1>11. ASSUME NEW c \in Runs, Terminate(c) PROVE RunTypeOK' /\ ShownIsOver'
  BY <1>11 DEF Terminate
<1>12. ASSUME NEW c \in Runs, Abort(c) PROVE RunTypeOK' /\ ShownIsOver'
  BY <1>12 DEF Abort
<1>13. CASE NodeStep \/ Outside \/ UNCHANGED vars
  BY <1>13 DEF NodeStep, Outside, vars
<1>. QED
  BY <1>1, <1>2, <1>3, <1>4, <1>5, <1>6, <1>7, <1>8, <1>9, <1>10, <1>11, <1>12, <1>13
     DEF Next, RunStep

\* Each run and each node is where the programs can be.
THEOREM RunTypes == Spec => []TypeOK
<1>1. Init => RunTypeOK /\ ShownIsOver
  BY InitRuns
<1>2. RunTypeOK /\ ShownIsOver /\ DaemonInv /\ [Next]_vars => (RunTypeOK /\ ShownIsOver)'
  BY StepRuns DEF DaemonInv
<1>3. Spec => []DaemonInv
  BY RunsKeepToNodes, DaemonInvariant, PTL
<1>4. RunTypeOK /\ DaemonInv => TypeOK
  BY DEF RunTypeOK, DaemonInv, TypeOK
<1>. QED
  BY <1>1, <1>2, <1>3, <1>4, PTL DEF Spec

-----------------------------------------------------------------------------
(* Args *)

\* What was read in vain for a param that is yet to be satisfied was invalid; params
\* are satisfied one by one, each once; and the op is started when none is left.
ArgsInv(c) ==
    /\ todo[c] \in Seq(STRING)
    /\ offers[c] \in Offers \/ todo[c] = <<>>
    /\ \A i \in DOMAIN todo[c] :
          /\ \E k \in DOMAIN Params : todo[c][i] = Params[k]
          /\ todo[c][i] \notin DOMAIN args[c]
          /\ \A j \in DOMAIN todo[c] : todo[c][i] = todo[c][j] => i = j
          /\ \A s \in DOMAIN Sources :
                <<todo[c][i], Sources[s]>> \in used[c]
                   => offers[c][todo[c][i]][Sources[s]] = "bad"

\* The three parts of ArgsAreFirstValid.
FirstValid(c) ==
    \A p \in DOMAIN args[c] :
       \E i \in DOMAIN Sources :
          /\ args[c][p] \in {Sources[i], "static"}
          /\ offers[c][p][Sources[i]] \in {"good", "static"}
          /\ \A j \in 1..(i - 1) : offers[c][p][Sources[j]] \in {"none", "bad"}
Wanting(c) ==
    c \in unmet =>
       \E i \in DOMAIN Params :
          \A j \in 1..4 : offers[c][Params[i]][Sources[j]] \in {"none", "bad"}
Equipped(c) == on[c] # NoOne => todo[c] = <<>>

ParamsInv ==
    /\ todo \in [Runs -> Seq(STRING)]
    /\ DOMAIN offers = Runs /\ DOMAIN used = Runs /\ DOMAIN args = Runs
    /\ \A c \in Runs : ArgsInv(c) /\ FirstValid(c) /\ Wanting(c) /\ Equipped(c)

-----------------------------------------------------------------------------
(* Output *)

Events == Tree \X {"began", "done"}
Elements(s) == {s[i] : i \in DOMAIN s}

\* Events of the op's calls, wherever they are.
Published(c) == Elements(happened[c]) \cup Elements(replay[c]) \cup live[c] \cup read[c]

HasBegun(c, x) == call[c][x] \in {"started", "succeeded", "failed", "killed"}
IsOver(c, x) ==
    IF x = Root THEN op[c] \in Outcomes
    ELSE call[c][x] \in {"skipped", "unfit", "succeeded", "failed", "killed"}

CallStates == {"idle", "started", "skipped", "unfit", "succeeded", "failed", "killed"}
Labels == {"open", "skipped", "succeeded", "failed"} \cup Outcomes

OutputTypeOK ==
    /\ call \in [Runs -> [Tree -> CallStates]]
    /\ happened \in [Runs -> Seq(Events)]
    /\ replay \in [Runs -> Seq(Events)]
    /\ live \in [Runs -> SUBSET Events]
    /\ late \subseteq Runs
    /\ read \in [Runs -> SUBSET Events]
    /\ graph \in [Runs -> [Tree -> Seq(Labels)]]
    /\ told \in [Runs -> SUBSET (Tree \X {"failed", "error"})]
    /\ muddled \in [Runs -> SUBSET Tree]

\* Events tell what has happened, and every start is told.
EventsTell(c) ==
    \A x \in Tree : /\ Began(x) \in Published(c) <=> HasBegun(c, x)
                    /\ Done(x) \in Published(c) => IsOver(c, x)

\* The root call has its outcome in op, and starts when the op does.
RootIsOp(c) ==
    /\ call[c][Root] \in {"idle", "started", "unfit"}
    /\ call[c][Root] = "idle" <=> op[c] \in {"none", "called"}

\* Before a run follows its op nothing is on its way to it, and then nothing is stored.
StreamsOnce(c) ==
    /\ run[c] \in {"probing", "waiting", "given", "started"} => stream[c] = NoOne
    /\ stream[c] = NoOne => replay[c] = <<>> /\ live[c] = {} /\ read[c] = {}
    /\ stream[c] # NoOne => happened[c] = <<>>

\* What GraphIsTrue says of a call; an outcome is shown, or told of, when it is final.
ShownRight(c, x) ==
    /\ graph[c][x] # <<>> => graph[c][Root] # <<>>
    /\ x \notin muddled[c] => graph[c][x] = Truth(c, x)
    /\ \A i \in DOMAIN graph[c][x] :
          \/ graph[c][x][i] \in {"open", "skipped"}
          \/ IsOver(c, x) /\ graph[c][x][i] = OutcomeOf(c, x)
    /\ <<x, "failed">> \in told[c] => IsOver(c, x) /\ OutcomeOf(c, x) = "failed"
    /\ <<x, "error">> \in told[c] => x \in muddled[c] \/ call[c][x] = "unfit"

\* Of calls in such a state, an event comes after those it presupposes.
Fits(event, state, known) ==
    /\ event \notin known
    /\ \A x \in Tree :
          /\ event = Began(x) => /\ Done(x) \notin known
                                 /\ x # Root => Began(ParentOf[x]) \in known
          /\ event = Done(x) =>
                IF state[x] = "skipped" THEN x # Root => Began(ParentOf[x]) \in known
                ELSE state[x] # "unfit" => Began(x) \in known

\* The stored events a run has yet to read; none comes live, or has, unless it is late.
Ahead(c) == IF stream[c] = NoOne THEN happened[c] ELSE replay[c]
Before(s, i) == {s[j] : j \in 1..(i - 1)}
StoredInOrder(c) ==
    c \notin late =>
       /\ live[c] = {} /\ muddled[c] = {}
       /\ \A i \in DOMAIN Ahead(c) :
             Fits(Ahead(c)[i], call[c], read[c] \cup Before(Ahead(c), i))

ShowsRight(c) == \A x \in Tree : ShownRight(c, x)

WatchInv(c) ==
    EventsTell(c) /\ RootIsOp(c) /\ StreamsOnce(c) /\ ShowsRight(c) /\ StoredInOrder(c)

OutputInv == OutputTypeOK /\ \A c \in Runs : WatchInv(c)

-----------------------------------------------------------------------------
(* A step of OutputSpec is one of OpRun, or none *)

LEMMA HandlingIsFollowing ==
  ASSUME NEW c \in Runs, NEW event, Handle(c, event)
  PROVE  SeeEnd(c) \/ UNCHANGED vars
BY DEF Handle

LEMMA OutputStepIsStep == ASSUME [OutputNext]_allVars PROVE [Next]_vars
<1>1. ASSUME NEW c \in Runs, RunStepOn(c) PROVE [Next]_vars
  <2>1. CASE ReadStored(c) \/ ReadLive(c)
    <3>1. SeeEnd(c) \/ UNCHANGED vars
      BY <2>1, HandlingIsFollowing DEF ReadStored, ReadLive
    <3>. QED
      BY <3>1 DEF Next, RunStep
  <2>2. CASE FollowCalls(c)
    BY <2>2 DEF FollowCalls, Next, RunStep
  <2>3. CASE RootStarts(c) \/ RootEnds(c, "killed")
    BY <2>3 DEF RootStarts, RootEnds, Next, RunStep
  <2>4. CASE Probe(c) \/ HasNode(c) \/ HasNoNode(c) \/ StreamCloses(c) \/ StartOp(c) \/ SeeEnd(c)
    BY <2>4 DEF Next, RunStep
  <2>. QED
    BY <1>1, <2>1, <2>2, <2>3, <2>4 DEF RunStepOn
<1>2. ASSUME NEW c \in Runs, UserStep(c) \/ RootEnds(c, "finished") PROVE [Next]_vars
  BY <1>2 DEF UserStep, RootEnds, Next
<1>3. ASSUME NEW c \in Runs, NEW x \in Subcalls, CallStep(c, x) PROVE [Next]_vars
  BY <1>3 DEF CallStep, CallStarts, CallIsNotStarted, CallEnds
<1>4. ASSUME NEW c \in Runs, ParamStep(c) PROVE [Next]_vars
  <2>1. CASE Attempt(c)
    BY <2>1 DEF Attempt
  <2>2. CASE GiveUp(c)
    <3>1. Abort(c)
      BY <2>2 DEF GiveUp, Abort
    <3>. QED
      BY <3>1 DEF Next
  <2>. QED
    BY <1>4, <2>1, <2>2 DEF ParamStep
<1>5. CASE UNCHANGED allVars
  BY <1>5 DEF allVars
<1>6. CASE NodeStep \/ Outside
  BY <1>6 DEF Next
<1>. QED
  BY <1>1, <1>2, <1>3, <1>4, <1>5, <1>6 DEF OutputNext

LEMMA OutputInitIsInit == ASSUME OutputInit PROVE Init
BY DEF OutputInit

\* A run that satisfies params and shows calls is a run of OpRun: watching an op
\* changes nothing about nodes, and giving up for want of an arg is aborting.
THEOREM OutputKeepsToRuns == OutputSpec => Spec
BY OutputInitIsInit, OutputStepIsStep, PTL DEF OutputSpec, Spec

THEOREM LockHoldsWithOutput == OutputSpec => []LockIsExclusive
BY OutputKeepsToRuns, LockHoldsWithRuns, PTL

THEOREM SweptBeforeServingOutput == OutputSpec => []LeakedCfgsAreSwept
BY OutputKeepsToRuns, SweptBeforeServingRuns, PTL

-----------------------------------------------------------------------------
(* Args are from the first valid source *)

LEMMA InitParams == ASSUME OutputInit, RunTypeOK PROVE ParamsInv
<1>. USE ParamsAssumption DEF OutputInit, Init, ParamsInit
<1>1. CASE todo = [c \in Runs |-> <<>>] /\ offers = [c \in Runs |-> <<>>]
  <2>1. todo \in [Runs -> Seq(STRING)] /\ \A c \in Runs : todo[c] = <<>>
    BY <1>1
  <2>. QED
    BY <1>1, <2>1 DEF ParamsInv, ArgsInv, FirstValid, Wanting, Equipped
<1>2. CASE todo = [c \in Runs |-> Params] /\ offers \in [Runs -> Offers]
  <2>1. todo \in [Runs -> Seq(STRING)] /\ \A c \in Runs : todo[c] = Params /\ on[c] = NoOne
    BY <1>2
  <2>. QED
    BY <1>2, <2>1 DEF ParamsInv, ArgsInv, FirstValid, Wanting, Equipped
<1>. QED
  BY <1>1, <1>2

\* What no source has for a param any more was not there, or was invalid.
LEMMA NothingLeft ==
  ASSUME NEW c \in Runs, ArgsInv(c), todo[c] # <<>>, NEW i \in DOMAIN Sources,
         ~Has(c, Head(todo[c]), i)
  PROVE  offers[c][Head(todo[c])][Sources[i]] \in {"none", "bad"}
<1>1. 1 \in DOMAIN todo[c] /\ Head(todo[c]) = todo[c][1]
  BY DEF ArgsInv
<1>. QED
  BY <1>1 DEF Has, ArgsInv

\* The five sources are different ones, each with a content of its own for a param.
LEMMA SourcesDiffer ==
  /\ DOMAIN Sources = 1..5
  /\ \A i, j \in DOMAIN Sources : Sources[i] = Sources[j] => i = j
  /\ \A i \in 1..4 : Sources[i] # "prompt"
BY DEF Sources

LEMMA ContentsOf ==
  ASSUME NEW c \in Runs, ArgsInv(c), NEW i \in DOMAIN todo[c], NEW s \in DOMAIN Sources
  PROVE  offers[c][todo[c][i]][Sources[s]] \in Contents
<1>1. offers[c] \in Offers
  BY DEF ArgsInv
<1>2. PICK k \in DOMAIN Params : todo[c][i] = Params[k]
  BY DEF ArgsInv
<1>. QED
  BY <1>1, <1>2, ParamsAssumption

LEMMA AttemptKeeps == ASSUME ParamsInv, NEW c \in Runs, Attempt(c) PROVE ParamsInv'
<1>. DEFINE p == Head(todo[c])
<1>1. /\ ArgsInv(c) /\ FirstValid(c) /\ Wanting(c) /\ Equipped(c)
      /\ todo[c] # <<>> /\ on' = on /\ offers' = offers /\ unmet' = unmet
  BY DEF ParamsInv, Attempt, vars, cliVars
<1>2. PICK i \in DOMAIN Sources :
        /\ IsSource(c, p, i)
        /\ MarkRead(c, p, Sources[i])
        /\ IF offers[c][p][Sources[i]] = "bad" THEN UNCHANGED <<todo, args>>
           ELSE Take(c, p, Sources[i])
  BY DEF Attempt
<1>3. /\ todo[c] \in Seq(STRING) /\ 1 \in DOMAIN todo[c] /\ p = todo[c][1]
      /\ Tail(todo[c]) \in Seq(STRING)
      /\ \A k \in DOMAIN Tail(todo[c]) : /\ k + 1 \in DOMAIN todo[c] /\ k + 1 # 1
                                         /\ Tail(todo[c])[k] = todo[c][k + 1]
  <2>1. todo[c] \in Seq(STRING) /\ todo[c] # <<>>
    BY <1>1 DEF ArgsInv
  <2>2. 1 \in DOMAIN todo[c] /\ p = todo[c][1]
    BY <2>1
  <2>4. Tail(todo[c]) \in Seq(STRING)
    BY <2>1, HeadTailProperties
  <2>3. ASSUME NEW k \in DOMAIN Tail(todo[c])
        PROVE  k + 1 \in DOMAIN todo[c] /\ k + 1 # 1 /\ Tail(todo[c])[k] = todo[c][k + 1]
    BY <2>1, <2>3
  <2>. QED
    BY <2>1, <2>2, <2>3, <2>4
<1>4. /\ DOMAIN used' = Runs /\ \A d \in Runs \ {c} : used'[d] = used[d]
      /\ \A e : e \in used'[c] => e \in used[c] \/ e = <<p, Sources[i]>>
  BY <1>2 DEF MarkRead, ParamsInv
<1>5. offers[c][p][Sources[i]] \in Contents \ {"none"}
  BY <1>1, <1>2, <1>3, ContentsOf DEF IsSource, Has
<1>6. \A j \in 1..(i - 1) : offers[c][p][Sources[j]] \in {"none", "bad"}
  <2>. SUFFICES ASSUME NEW j \in 1..(i - 1) PROVE offers[c][p][Sources[j]] \in {"none", "bad"}
    OBVIOUS
  <2>1. j \in DOMAIN Sources /\ ~Has(c, p, j)
    BY <1>2, SourcesDiffer DEF IsSource
  <2>. QED
    BY <2>1, <1>1, NothingLeft
<1>. HIDE DEF p
<1>7. CASE offers[c][p][Sources[i]] = "bad"
  <2>1. todo' = todo /\ args' = args
    BY <1>2, <1>7
  <2>2. ASSUME NEW k \in DOMAIN todo[c], NEW s \in DOMAIN Sources,
               <<todo[c][k], Sources[s]>> \in used'[c]
        PROVE  offers[c][todo[c][k]][Sources[s]] = "bad"
    <3>1. CASE <<todo[c][k], Sources[s]>> \in used[c]
      BY <3>1, <1>1 DEF ArgsInv
    <3>2. CASE <<todo[c][k], Sources[s]>> = <<p, Sources[i]>>
      BY <3>2, <1>7
    <3>. QED
      BY <3>1, <3>2, <2>2, <1>4
  <2>3. ArgsInv(c)'
    BY <2>1, <2>2, <1>1 DEF ArgsInv
  <2>4. ASSUME NEW d \in Runs \ {c}
        PROVE  (ArgsInv(d) /\ FirstValid(d) /\ Wanting(d) /\ Equipped(d))'
    BY <2>1, <1>1, <1>4 DEF ParamsInv, ArgsInv, FirstValid, Wanting, Equipped
  <2>5. (FirstValid(c) /\ Wanting(c) /\ Equipped(c))'
    BY <2>1, <1>1 DEF FirstValid, Wanting, Equipped
  <2>6. todo' \in [Runs -> Seq(STRING)] /\ DOMAIN offers' = Runs /\ DOMAIN args' = Runs
    BY <2>1, <1>1 DEF ParamsInv
  <2>. QED
    BY <2>3, <2>4, <2>5, <2>6, <1>4 DEF ParamsInv
<1>8. CASE offers[c][p][Sources[i]] # "bad"
  <2>1. Take(c, p, Sources[i])
    BY <1>2, <1>8
  <2>2. /\ todo' = [todo EXCEPT ![c] = Tail(@)]
        /\ todo'[c] = Tail(todo[c]) /\ \A d \in Runs \ {c} : todo'[d] = todo[d]
        /\ DOMAIN args' = Runs /\ \A d \in Runs \ {c} : args'[d] = args[d]
        /\ DOMAIN args'[c] = DOMAIN args[c] \cup {p}
        /\ \A q \in DOMAIN args[c] : q # p => args'[c][q] = args[c][q]
    BY <2>1 DEF Take, ParamsInv
  <2>3. args'[c][p] \in {Sources[i], "static"}
    <3>1. args'[c][p] = IF offers[c][p][Sources[i]] = "static" THEN "static" ELSE Sources[i]
      BY <2>1 DEF Take, ParamsInv
    <3>. QED
      BY <3>1
  <2>4. todo' \in [Runs -> Seq(STRING)]
    BY <2>2, <1>3 DEF ParamsInv
  <2>5. ASSUME NEW k \in DOMAIN todo'[c]
        PROVE  /\ \E l \in DOMAIN Params : todo'[c][k] = Params[l]
               /\ todo'[c][k] \notin DOMAIN args'[c]
               /\ \A j \in DOMAIN todo'[c] : todo'[c][k] = todo'[c][j] => k = j
               /\ \A s \in DOMAIN Sources :
                     <<todo'[c][k], Sources[s]>> \in used'[c]
                        => offers[c][todo'[c][k]][Sources[s]] = "bad"
    <3>1. /\ k + 1 \in DOMAIN todo[c] /\ k + 1 # 1 /\ todo'[c][k] = todo[c][k + 1]
      BY <2>2, <1>3
    <3>2. todo'[c][k] # p
      BY <3>1, <1>1, <1>3 DEF ArgsInv
    <3>3. \E l \in DOMAIN Params : todo'[c][k] = Params[l]
      BY <3>1, <1>1 DEF ArgsInv
    <3>4. todo'[c][k] \notin DOMAIN args'[c]
      BY <3>1, <3>2, <2>2, <1>1 DEF ArgsInv
    <3>5. ASSUME NEW j \in DOMAIN todo'[c], todo'[c][k] = todo'[c][j] PROVE k = j
      <4>1. j + 1 \in DOMAIN todo[c] /\ todo'[c][j] = todo[c][j + 1] /\ j \in Nat /\ k \in Nat
        BY <2>2, <2>4, <1>3
      <4>2. k + 1 = j + 1
        BY <4>1, <3>1, <3>5, <1>1 DEF ArgsInv
      <4>. QED
        BY <4>1, <4>2
    <3>6. ASSUME NEW s \in DOMAIN Sources, <<todo'[c][k], Sources[s]>> \in used'[c]
          PROVE  offers[c][todo'[c][k]][Sources[s]] = "bad"
      <4>1. <<todo'[c][k], Sources[s]>> \in used[c]
        BY <3>6, <3>2, <1>4
      <4>. QED
        BY <4>1, <3>1, <1>1 DEF ArgsInv
    <3>. QED
      BY <3>3, <3>4, <3>5, <3>6
  <2>6. todo'[c] \in Seq(STRING) /\ (offers'[c] \in Offers \/ todo'[c] = <<>>)
    BY <2>2, <1>1, <1>3 DEF ArgsInv
  <2>7. ArgsInv(c)'
    BY <2>5, <2>6, <1>1 DEF ArgsInv
  <2>8. FirstValid(c)'
    <3>. SUFFICES ASSUME NEW q \in DOMAIN args'[c]
                  PROVE  \E s \in DOMAIN Sources :
                            /\ args'[c][q] \in {Sources[s], "static"}
                            /\ offers[c][q][Sources[s]] \in {"good", "static"}
                            /\ \A j \in 1..(s - 1) : offers[c][q][Sources[j]] \in {"none", "bad"}
      BY <1>1 DEF FirstValid, Sources
    <3>1. CASE q = p
      BY <3>1, <2>3, <1>5, <1>6, <1>8 DEF Contents
    <3>2. CASE q # p
      BY <3>2, <2>2, <1>1 DEF FirstValid
    <3>. QED
      BY <3>1, <3>2
  <2>9. Wanting(c)' /\ Equipped(c)'
    BY <1>1 DEF Wanting, Equipped
  <2>10. ASSUME NEW d \in Runs \ {c}
         PROVE  (ArgsInv(d) /\ FirstValid(d) /\ Wanting(d) /\ Equipped(d))'
    <3>1. /\ todo'[d] = todo[d] /\ args'[d] = args[d] /\ used'[d] = used[d]
          /\ offers'[d] = offers[d] /\ on'[d] = on[d] /\ (d \in unmet' <=> d \in unmet)
      BY <2>2, <1>1, <1>4
    <3>2. ArgsInv(d) /\ FirstValid(d) /\ Wanting(d) /\ Equipped(d)
      BY DEF ParamsInv
    <3>3. ArgsInv(d)'
      BY <3>1, <3>2 DEF ArgsInv
    <3>4. FirstValid(d)'
      BY <3>1, <3>2 DEF FirstValid, Sources
    <3>5. Wanting(d)' /\ Equipped(d)'
      BY <3>1, <3>2 DEF Wanting, Equipped, Sources
    <3>. QED
      BY <3>3, <3>4, <3>5
  <2>11. DOMAIN offers' = Runs
    BY <1>1 DEF ParamsInv
  <2>. QED
    BY <2>2, <2>4, <2>7, <2>8, <2>9, <2>10, <2>11, <1>4 DEF ParamsInv
<1>. QED
  BY <1>7, <1>8

LEMMA GiveUpKeeps == ASSUME ParamsInv, NEW c \in Runs, GiveUp(c) PROVE ParamsInv'
<1>1. /\ ArgsInv(c) /\ todo[c] # <<>>
      /\ \A i \in DOMAIN Sources : ~Has(c, Head(todo[c]), i) \/ Sources[i] = "prompt"
      /\ UNCHANGED <<on, offers, todo, used, args>> /\ unmet' = unmet \cup {c}
  BY DEF ParamsInv, GiveUp
<1>2. \A j \in 1..4 : offers[c][Head(todo[c])][Sources[j]] \in {"none", "bad"}
  BY <1>1, NothingLeft, SourcesDiffer
<1>3. PICK k \in DOMAIN Params : Head(todo[c]) = Params[k]
  BY <1>1 DEF ArgsInv
<1>4. Wanting(c)'
  BY <1>1, <1>2, <1>3 DEF Wanting, Sources
<1>5. \A d \in Runs \ {c} : Wanting(d)'
  BY <1>1 DEF ParamsInv, Wanting
<1>6. \A d \in Runs : ArgsInv(d)' /\ FirstValid(d)' /\ Equipped(d)'
  BY <1>1 DEF ParamsInv, ArgsInv, FirstValid, Equipped
<1>7. /\ todo' \in [Runs -> Seq(STRING)]
      /\ DOMAIN offers' = Runs /\ DOMAIN used' = Runs /\ DOMAIN args' = Runs
  BY <1>1 DEF ParamsInv
<1>. QED
  BY <1>4, <1>5, <1>6, <1>7 DEF ParamsInv

\* Nothing but StartOp says where the op is.
LEMMA OthersKeepParams ==
  ASSUME ParamsInv, RunTypeOK, UNCHANGED paramVars,
         \A c \in Runs : on'[c] = on[c] \/ todo[c] = <<>>
  PROVE  ParamsInv'
<1>. USE DEF paramVars
<1>1. \A d \in Runs : ArgsInv(d)' /\ FirstValid(d)' /\ Wanting(d)' /\ Equipped(d)'
  BY DEF ParamsInv, ArgsInv, FirstValid, Wanting, Equipped
<1>2. /\ todo' \in [Runs -> Seq(STRING)]
      /\ DOMAIN offers' = Runs /\ DOMAIN used' = Runs /\ DOMAIN args' = Runs
  BY DEF ParamsInv
<1>. QED
  BY <1>1, <1>2 DEF ParamsInv

LEMMA StepParams == ASSUME ParamsInv, RunTypeOK, [OutputNext]_allVars PROVE ParamsInv'
<1>1. CASE \E c \in Runs : ParamStep(c)
  BY <1>1, AttemptKeeps, GiveUpKeeps DEF ParamStep
<1>2. CASE UNCHANGED paramVars /\ \E c \in Runs : todo[c] = <<>> /\ StartOp(c)
  <2>1. \A c \in Runs : on'[c] = on[c] \/ todo[c] = <<>>
    BY <1>2 DEF StartOp, RunTypeOK
  <2>. QED
    BY <2>1, <1>2, OthersKeepParams
<1>3. CASE UNCHANGED <<paramVars, on>>
  BY <1>3, OthersKeepParams
<1>4. CASE UNCHANGED allVars
  <2>1. UNCHANGED <<paramVars, on>>
    BY <1>4 DEF allVars, vars, cliVars
  <2>. QED
    BY <2>1, <1>3
<1>5. ASSUME OutputNext, ~\E c \in Runs : ParamStep(c)
      PROVE  /\ UNCHANGED paramVars
             /\ UNCHANGED on \/ \E c \in Runs : todo[c] = <<>> /\ StartOp(c)
  <2>1. ASSUME NEW c \in Runs, RunStepOn(c), ~(todo[c] = <<>> /\ StartOp(c)) PROVE UNCHANGED on
    <3>1. CASE ReadStored(c) \/ ReadLive(c)
      <4>1. SeeEnd(c) \/ UNCHANGED vars
        BY <3>1, HandlingIsFollowing DEF ReadStored, ReadLive
      <4>. QED
        BY <4>1 DEF SeeEnd, vars, cliVars
    <3>2. CASE FollowCalls(c) \/ RootStarts(c) \/ RootEnds(c, "killed")
      BY <3>2 DEF FollowCalls, Follow, RootStarts, EnterCall, RootEnds, OpEnds, cliVars
    <3>3. CASE Probe(c) \/ HasNode(c) \/ HasNoNode(c) \/ StreamCloses(c) \/ SeeEnd(c)
      BY <3>3 DEF Probe, HasNode, HasNoNode, StreamCloses, SeeEnd
    <3>. QED
      BY <2>1, <3>1, <3>2, <3>3 DEF RunStepOn
  <2>2. ASSUME NEW c \in Runs, UserStep(c) \/ RootEnds(c, "finished") PROVE UNCHANGED on
    BY <2>2 DEF UserStep, Interrupt, Terminate, Abort, RootEnds, OpEnds, cliVars
  <2>3. ASSUME NEW c \in Runs, NEW x \in Subcalls, CallStep(c, x) PROVE UNCHANGED on
    BY <2>3 DEF CallStep, CallStarts, CallIsNotStarted, CallEnds, vars, cliVars
  <2>4. ASSUME NodeStep \/ Outside PROVE UNCHANGED on
    BY <2>4 DEF NodeStep, Outside, cliVars, opVars
  <2>. QED
    BY <1>5, <2>1, <2>2, <2>3, <2>4 DEF OutputNext
<1>. QED
  BY <1>1, <1>2, <1>3, <1>4, <1>5

LEMMA OutputRunTypes == OutputSpec => [](RunTypeOK /\ ShownIsOver)
<1>1. Init => RunTypeOK /\ ShownIsOver
  BY InitRuns
<1>2. RunTypeOK /\ ShownIsOver /\ DaemonInv /\ [Next]_vars => (RunTypeOK /\ ShownIsOver)'
  BY StepRuns DEF DaemonInv
<1>3. Spec => []DaemonInv
  BY RunsKeepToNodes, DaemonInvariant, PTL
<1>. QED
  BY <1>1, <1>2, <1>3, OutputKeepsToRuns, PTL DEF Spec

LEMMA ParamsInvariant == OutputSpec => []ParamsInv
<1>1. OutputInit /\ RunTypeOK => ParamsInv
  BY InitParams
<1>2. ParamsInv /\ RunTypeOK /\ [OutputNext]_allVars => ParamsInv'
  BY StepParams
<1>. QED
  BY <1>1, <1>2, OutputRunTypes, PTL DEF OutputSpec

\* Whatever sources have for whatever params, and however often they are asked, an arg
\* is from the first source that has a valid one, an op has all it needs, and a run
\* gives up only when a param has none (cli/internal/cliparamsatisfier).
THEOREM ArgsAreAlwaysFirstValid == OutputSpec => []ArgsAreFirstValid
<1>1. ParamsInv => ArgsAreFirstValid
  BY DEF ParamsInv, FirstValid, Wanting, Equipped, ArgsAreFirstValid
<1>. QED
  BY <1>1, ParamsInvariant, PTL

-----------------------------------------------------------------------------
(* Events are told in order *)

LEMMA RootAndParents == /\ Root \in Tree
                        /\ Tree = {Root} \cup Subcalls /\ Root \notin Subcalls
                        /\ \A x \in Subcalls : x \in Tree /\ x # Root /\ ParentOf[x] \in Tree
                        /\ \A x \in Tree : x # Root => x \in Subcalls
BY TreeAssumption DEF Tree

LEMMA EventsDiffer ==
  /\ \A x, y : Began(x) # Done(y)
  /\ \A x, y : Began(x) = Began(y) => x = y
  /\ \A x, y : Done(x) = Done(y) => x = y
  /\ \A e \in Events : \E x \in Tree : e = Began(x) \/ e = Done(x)
  /\ \A x \in Tree : Began(x) \in Events /\ Done(x) \in Events
BY DEF Began, Done, Events

LEMMA Appending ==
  ASSUME NEW S, NEW s \in Seq(S), NEW e \in S
  PROVE  /\ Append(s, e) \in Seq(S)
         /\ Elements(Append(s, e)) = Elements(s) \cup {e}
         /\ \A i \in DOMAIN Append(s, e) :
               \/ /\ i \in DOMAIN s /\ Append(s, e)[i] = s[i]
                  /\ Before(Append(s, e), i) = Before(s, i)
               \/ Append(s, e)[i] = e /\ Before(Append(s, e), i) = Elements(s)
<1>1. /\ Append(s, e) \in Seq(S) /\ Len(s) \in Nat
      /\ DOMAIN s = 1..Len(s) /\ DOMAIN Append(s, e) = 1..(Len(s) + 1)
      /\ \A i \in 1..Len(s) : Append(s, e)[i] = s[i]
      /\ Append(s, e)[Len(s) + 1] = e
  OBVIOUS
<1>. DEFINE t == Append(s, e)
<1>. HIDE DEF t
<1>2. Elements(t) = Elements(s) \cup {e}
  BY <1>1 DEF t, Elements
<1>3. ASSUME NEW i \in DOMAIN t
      PROVE  \/ i \in DOMAIN s /\ t[i] = s[i] /\ Before(t, i) = Before(s, i)
             \/ t[i] = e /\ Before(t, i) = Elements(s)
  <2>1. CASE i \in 1..Len(s)
    <3>1. \A j \in 1..(i - 1) : t[j] = s[j]
      BY <2>1, <1>1 DEF t
    <3>. QED
      BY <2>1, <3>1, <1>1 DEF t, Before
  <2>2. CASE i = Len(s) + 1
    <3>1. \A j \in 1..(i - 1) : t[j] = s[j]
      BY <2>2, <1>1 DEF t
    <3>2. i - 1 = Len(s)
      BY <2>2, <1>1
    <3>. QED
      BY <2>2, <3>1, <3>2, <1>1 DEF t, Before, Elements
  <2>. QED
    BY <2>1, <2>2, <1>1, <1>3 DEF t
<1>. QED
  BY <1>1, <1>2, <1>3 DEF t

\* What is shown stays right while nothing is read and what is over stays so.
LEMMA ShowsStay ==
  ASSUME NEW c \in Runs, EventsTell(c), ShowsRight(c),
         UNCHANGED <<read[c], graph[c], told[c], muddled[c]>>,
         \A x \in Tree : /\ IsOver(c, x) => /\ IsOver(c, x)' /\ call'[c][x] = call[c][x]
                                            /\ OutcomeOf(c, x)' = OutcomeOf(c, x)
                         /\ call[c][x] = "unfit" => call'[c][x] = "unfit"
  PROVE  ShowsRight(c)'
<1>. SUFFICES ASSUME NEW x \in Tree PROVE ShownRight(c, x)'
  BY DEF ShowsRight
<1>1. ShownRight(c, x)
  BY DEF ShowsRight
<1>2. /\ read'[c] = read[c] /\ graph'[c] = graph[c]
      /\ told'[c] = told[c] /\ muddled'[c] = muddled[c]
  OBVIOUS
<1>3. Done(x) \in read[c] => IsOver(c, x)
  BY DEF EventsTell, Published
<1>4. Truth(c, x)' = Truth(c, x)
  <2>1. CASE Done(x) \in read[c]
    BY <2>1, <1>2, <1>3 DEF Truth, OutcomeOf, IsOver
  <2>2. CASE Done(x) \notin read[c]
    BY <2>2, <1>2 DEF Truth, OutcomeOf
  <2>. QED
    BY <2>1, <2>2
<1>5. (\A i \in DOMAIN graph[c][x] :
          \/ graph[c][x][i] \in {"open", "skipped"}
          \/ IsOver(c, x) /\ graph[c][x][i] = OutcomeOf(c, x))'
  BY <1>1, <1>2 DEF ShownRight
<1>6. /\ (graph[c][x] # <<>> => graph[c][Root] # <<>>)'
      /\ (x \notin muddled[c] => graph[c][x] = Truth(c, x))'
      /\ (<<x, "failed">> \in told[c] => IsOver(c, x) /\ OutcomeOf(c, x) = "failed")'
      /\ (<<x, "error">> \in told[c] => x \in muddled[c] \/ call[c][x] = "unfit")'
  BY <1>1, <1>2, <1>4 DEF ShownRight
<1>. QED
  BY <1>5, <1>6 DEF ShownRight

\* And stored events stay in order.
LEMMA OrderStays ==
  ASSUME NEW c \in Runs, EventsTell(c), StoredInOrder(c),
         UNCHANGED <<stream[c], happened[c], replay[c], live[c], read[c], muddled[c]>>,
         c \in late' <=> c \in late,
         \A x \in Tree : IsOver(c, x) => call'[c][x] = call[c][x]
  PROVE  StoredInOrder(c)'
<1>. SUFFICES ASSUME c \notin late'
              PROVE  /\ live'[c] = {} /\ muddled'[c] = {}
                     /\ \A i \in DOMAIN Ahead(c)' :
                           Fits(Ahead(c)'[i], call'[c], read'[c] \cup Before(Ahead(c)', i))
  BY DEF StoredInOrder, Before
<1>1. Ahead(c)' = Ahead(c) /\ read'[c] = read[c]
  BY DEF Ahead
<1>2. ASSUME NEW i \in DOMAIN Ahead(c)
      PROVE  Fits(Ahead(c)[i], call'[c], read[c] \cup Before(Ahead(c), i))
  <2>1. Fits(Ahead(c)[i], call[c], read[c] \cup Before(Ahead(c), i))
    BY DEF StoredInOrder
  <2>2. Ahead(c)[i] \in Published(c)
    BY DEF Ahead, Published, Elements
  <2>3. \A x \in Tree : Ahead(c)[i] = Done(x) => call'[c][x] = call[c][x]
    BY <2>2 DEF EventsTell
  <2>. QED
    BY <2>1, <2>3 DEF Fits
<1>. QED
  BY <1>1, <1>2 DEF StoredInOrder

-----------------------------------------------------------------------------
(* Steps of which no event is told *)

LEMMA Untold ==
  ASSUME NEW c \in Runs, WatchInv(c),
         UNCHANGED <<stream[c], happened[c], replay[c], live[c], read[c], graph[c],
                     told[c], muddled[c]>>,
         c \in late' <=> c \in late,
         \A x \in Tree : /\ IsOver(c, x) => /\ IsOver(c, x)' /\ call'[c][x] = call[c][x]
                                            /\ OutcomeOf(c, x)' = OutcomeOf(c, x)
                         /\ call[c][x] = "unfit" => call'[c][x] = "unfit"
                         /\ HasBegun(c, x)' <=> HasBegun(c, x),
         RootIsOp(c)', StreamsOnce(c)'
  PROVE  WatchInv(c)'
<1>1. ShowsRight(c)'
  BY ShowsStay DEF WatchInv
<1>2. StoredInOrder(c)'
  BY OrderStays DEF WatchInv
<1>3. EventsTell(c)'
  BY DEF WatchInv, EventsTell, Published
<1>. QED
  BY <1>1, <1>2, <1>3 DEF WatchInv

\* Another run's steps are such.
LEMMA NothingMoves ==
  ASSUME NEW c \in Runs, WatchInv(c),
         UNCHANGED <<stream[c], happened[c], replay[c], live[c], read[c], graph[c],
                     told[c], muddled[c], call[c], op[c], run[c]>>,
         c \in late' <=> c \in late
  PROVE  WatchInv(c)'
<1>1. RootIsOp(c)' /\ StreamsOnce(c)'
  BY DEF WatchInv, RootIsOp, StreamsOnce
<1>2. ASSUME NEW x \in Tree
      PROVE  /\ IsOver(c, x)' <=> IsOver(c, x)
             /\ call'[c][x] = call[c][x]
             /\ OutcomeOf(c, x)' = OutcomeOf(c, x)
             /\ HasBegun(c, x)' <=> HasBegun(c, x)
  BY DEF IsOver, OutcomeOf, HasBegun
<1>. QED
  BY <1>1, <1>2, Untold

-----------------------------------------------------------------------------
(* Steps of which an event is told *)

LEMMA Publishing ==
  ASSUME OutputTypeOK, NEW c \in Runs, StreamsOnce(c), NEW event \in Events,
         Publish(c, event), UNCHANGED <<stream, replay, read>>
  PROVE  /\ happened' \in [Runs -> Seq(Events)]
         /\ live' \in [Runs -> SUBSET Events]
         /\ late' \subseteq Runs
         /\ \A d \in Runs \ {c} : /\ happened'[d] = happened[d] /\ live'[d] = live[d]
                                  /\ d \in late' <=> d \in late
         /\ Published(c)' = Published(c) \cup {event}
         /\ StreamsOnce(c)' \/ run'[c] # run[c]
         /\ c \notin late' => /\ c \notin late /\ live'[c] = live[c]
                              /\ Ahead(c)' = Append(Ahead(c), event)
                              /\ Ahead(c) \in Seq(Events)
<1>1. CASE stream[c] = NoOne
  <2>1. /\ happened' = [happened EXCEPT ![c] = Append(@, event)]
        /\ live' = live /\ late' = late
    BY <1>1 DEF Publish
  <2>2. happened[c] \in Seq(Events)
    BY DEF OutputTypeOK
  <2>3. /\ Append(happened[c], event) \in Seq(Events)
        /\ Elements(Append(happened[c], event)) = Elements(happened[c]) \cup {event}
    BY <2>2, Appending
  <2>4. happened'[c] = Append(happened[c], event)
    BY <2>1 DEF OutputTypeOK
  <2>5. Published(c)' = Published(c) \cup {event}
    <3>1. Elements(happened[c])' = Elements(happened[c]) \cup {event}
      BY <2>3, <2>4 DEF Elements
    <3>2. Elements(replay[c])' = Elements(replay[c]) /\ live'[c] = live[c] /\ read'[c] = read[c]
      BY <2>1 DEF Elements
    <3>. QED
      BY <3>1, <3>2 DEF Published
  <2>6. happened' \in [Runs -> Seq(Events)] /\ \A d \in Runs \ {c} : happened'[d] = happened[d]
    BY <2>1, <2>3 DEF OutputTypeOK
  <2>7. StreamsOnce(c)' \/ run'[c] # run[c]
    BY <1>1, <2>1 DEF StreamsOnce
  <2>8. Ahead(c) \in Seq(Events) /\ Ahead(c)' = Append(Ahead(c), event)
    BY <1>1, <2>2, <2>4 DEF Ahead
  <2>. QED
    BY <2>1, <2>5, <2>6, <2>7, <2>8 DEF OutputTypeOK
<1>2. CASE stream[c] # NoOne
  <2>1. /\ live' = [live EXCEPT ![c] = @ \cup {event}] /\ late' = late \cup {c}
        /\ happened' = happened
    BY <1>2 DEF Publish
  <2>2. /\ live' \in [Runs -> SUBSET Events] /\ live'[c] = live[c] \cup {event}
        /\ \A d \in Runs \ {c} : live'[d] = live[d]
    BY <2>1 DEF OutputTypeOK
  <2>3. Published(c)' = Published(c) \cup {event}
    BY <2>1, <2>2 DEF Published, Elements
  <2>4. StreamsOnce(c)' \/ run'[c] # run[c]
    BY <1>2, <2>1 DEF StreamsOnce
  <2>. QED
    BY <2>1, <2>2, <2>3, <2>4 DEF OutputTypeOK
<1>. QED
  BY <1>1, <1>2

\* An event that comes after those it presupposes is published as a call changes.
LEMMA Told ==
  ASSUME OutputTypeOK, NEW c \in Runs, WatchInv(c), NEW event \in Events,
         Publish(c, event), UNCHANGED <<stream, replay, read, graph, told, muddled, run>>,
         Fits(event, call'[c], Published(c)),
         \A x \in Tree : /\ IsOver(c, x) => /\ IsOver(c, x)' /\ call'[c][x] = call[c][x]
                                            /\ OutcomeOf(c, x)' = OutcomeOf(c, x)
                         /\ call[c][x] = "unfit" => call'[c][x] = "unfit"
                         /\ HasBegun(c, x)' <=> (HasBegun(c, x) \/ event = Began(x))
                         /\ event = Done(x) => IsOver(c, x)',
         RootIsOp(c)'
  PROVE  WatchInv(c)'
<1>1. EventsTell(c) /\ StreamsOnce(c) /\ ShowsRight(c) /\ StoredInOrder(c)
  BY DEF WatchInv
<1>2. /\ Published(c)' = Published(c) \cup {event} /\ StreamsOnce(c)'
      /\ c \notin late' => /\ c \notin late /\ live'[c] = live[c]
                           /\ Ahead(c)' = Append(Ahead(c), event)
                           /\ Ahead(c) \in Seq(Events)
  BY <1>1, Publishing
<1>3. ShowsRight(c)'
  BY <1>1, ShowsStay
<1>4. EventsTell(c)'
  <2>. SUFFICES ASSUME NEW x \in Tree
                PROVE  /\ Began(x) \in Published(c)' <=> HasBegun(c, x)'
                       /\ Done(x) \in Published(c)' => IsOver(c, x)'
    BY DEF EventsTell, Published, HasBegun, IsOver, Elements
  <2>1. /\ Began(x) \in Published(c) <=> HasBegun(c, x)
        /\ Done(x) \in Published(c) => IsOver(c, x)
    BY <1>1 DEF EventsTell
  <2>. QED
    BY <2>1, <1>2
<1>5. StoredInOrder(c)'
  <2>. SUFFICES ASSUME c \notin late'
                PROVE  /\ live'[c] = {} /\ muddled'[c] = {}
                       /\ \A i \in DOMAIN Ahead(c)' :
                             Fits(Ahead(c)'[i], call'[c], read'[c] \cup Before(Ahead(c)', i))
    BY DEF StoredInOrder, Before
  <2>1. /\ c \notin late /\ Ahead(c)' = Append(Ahead(c), event) /\ Ahead(c) \in Seq(Events)
        /\ live'[c] = {} /\ live[c] = {} /\ muddled'[c] = {} /\ read'[c] = read[c]
        /\ \A i \in DOMAIN Ahead(c) :
              Fits(Ahead(c)[i], call[c], read[c] \cup Before(Ahead(c), i))
    BY <1>1, <1>2 DEF StoredInOrder
  <2>2. Published(c) = read[c] \cup Elements(Ahead(c))
    BY <1>1, <2>1 DEF Published, Ahead, StreamsOnce, Elements
  <2>3. ASSUME NEW i \in DOMAIN Append(Ahead(c), event)
        PROVE  Fits(Append(Ahead(c), event)[i], call'[c],
                    read[c] \cup Before(Append(Ahead(c), event), i))
    <3>1. CASE /\ i \in DOMAIN Ahead(c) /\ Append(Ahead(c), event)[i] = Ahead(c)[i]
               /\ Before(Append(Ahead(c), event), i) = Before(Ahead(c), i)
      <4>1. Fits(Ahead(c)[i], call[c], read[c] \cup Before(Ahead(c), i))
        BY <3>1, <2>1
      <4>2. Ahead(c)[i] \in Published(c)
        BY <3>1, <2>2 DEF Elements
      <4>3. \A x \in Tree : Ahead(c)[i] = Done(x) => call'[c][x] = call[c][x]
        BY <4>2, <1>1 DEF EventsTell
      <4>4. Fits(Ahead(c)[i], call'[c], read[c] \cup Before(Ahead(c), i))
        BY <4>1, <4>3 DEF Fits
      <4>. QED
        BY <4>4, <3>1
    <3>2. CASE /\ Append(Ahead(c), event)[i] = event
               /\ Before(Append(Ahead(c), event), i) = Elements(Ahead(c))
      BY <3>2, <2>2
    <3>. QED
      BY <3>1, <3>2, <2>1, Appending
  <2>. QED
    BY <2>1, <2>3
<1>. QED
  BY <1>2, <1>3, <1>4, <1>5 DEF WatchInv

LEMMA Becoming ==
  ASSUME OutputTypeOK, NEW c \in Runs, NEW x \in Tree,
         NEW state \in CallStates,
         Become(c, x, state)
  PROVE  /\ call' \in [Runs -> [Tree -> CallStates]]
         /\ call'[c][x] = state
         /\ \A y \in Tree \ {x} : call'[c][y] = call[c][y]
         /\ \A d \in Runs \ {c} : call'[d] = call[d]
BY DEF OutputTypeOK, Become, CallStates

\* What any of a call's steps does to events and to other runs.
CallMoves(c, x, event, state) ==
    /\ Become(c, x, state)
    /\ Publish(c, event)
    /\ UNCHANGED <<vars, replay, read, graph, told, muddled>>

\* A call below the root one moves, when its parent has begun.
LEMMA SubcallMoves ==
  ASSUME OutputTypeOK, NEW c \in Runs, NEW x \in Subcalls, WatchInv(c),
         NEW event, NEW state \in CallStates, CallMoves(c, x, event, state),
         \/ /\ event = Began(x) /\ state = "started" /\ call[c][x] = "idle"
            /\ call[c][ParentOf[x]] \notin {"idle", "skipped", "unfit"}
         \/ /\ event = Done(x) /\ state \in {"skipped", "unfit"} /\ call[c][x] = "idle"
            /\ call[c][ParentOf[x]] \notin {"idle", "skipped", "unfit"}
         \/ event = Done(x) /\ state \in {"succeeded", "failed", "killed"} /\ call[c][x] = "started"
  PROVE  WatchInv(c)'
<1>1. /\ x \in Tree /\ x # Root /\ ParentOf[x] \in Tree /\ Root \in Tree
      /\ event \in Events
      /\ EventsTell(c) /\ RootIsOp(c)
      /\ op' = op /\ run' = run /\ UNCHANGED <<stream, replay, read, graph, told, muddled>>
      /\ Publish(c, event) /\ Become(c, x, state)
  BY RootAndParents, EventsDiffer DEF WatchInv, CallMoves, vars, cliVars, opVars
<1>2. /\ call'[c][x] = state
      /\ \A y \in Tree \ {x} : call'[c][y] = call[c][y]
  BY <1>1, Becoming
<1>3. ~IsOver(c, x) /\ Done(x) \notin Published(c)
  BY <1>1 DEF IsOver, EventsTell
<1>4. call[c][x] = "idle" => Began(x) \notin Published(c) /\ Began(ParentOf[x]) \in Published(c)
  <2>1. call[c][ParentOf[x]] \notin {"idle", "skipped", "unfit"} => HasBegun(c, ParentOf[x])
    BY <1>1 DEF OutputTypeOK, HasBegun, CallStates
  <2>. QED
    BY <2>1, <1>1 DEF EventsTell, HasBegun
<1>5. call[c][x] = "started" => Began(x) \in Published(c)
  BY <1>1 DEF EventsTell, HasBegun
<1>6. Fits(event, call'[c], Published(c))
  <2>1. event \notin Published(c)
    BY <1>3, <1>4
  <2>2. ASSUME NEW y \in Tree, event = Began(y)
        PROVE  Done(y) \notin Published(c) /\ (y # Root => Began(ParentOf[y]) \in Published(c))
    BY <2>2, <1>3, <1>4, EventsDiffer
  <2>3. ASSUME NEW y \in Tree, event = Done(y)
        PROVE  IF call'[c][y] = "skipped" THEN y # Root => Began(ParentOf[y]) \in Published(c)
               ELSE call'[c][y] # "unfit" => Began(y) \in Published(c)
    BY <2>3, <1>2, <1>4, <1>5, EventsDiffer
  <2>. QED
    BY <2>1, <2>2, <2>3 DEF Fits
<1>7. ASSUME NEW y \in Tree
      PROVE  /\ IsOver(c, y) => /\ IsOver(c, y)' /\ call'[c][y] = call[c][y]
                                /\ OutcomeOf(c, y)' = OutcomeOf(c, y)
             /\ call[c][y] = "unfit" => call'[c][y] = "unfit"
             /\ HasBegun(c, y)' <=> (HasBegun(c, y) \/ event = Began(y))
             /\ event = Done(y) => IsOver(c, y)'
  <2>1. CASE y = x
    BY <2>1, <1>1, <1>2, <1>3, EventsDiffer DEF IsOver, HasBegun, OutcomeOf
  <2>2. CASE y # x
    BY <2>2, <1>1, <1>2, EventsDiffer DEF IsOver, HasBegun, OutcomeOf
  <2>. QED
    BY <2>1, <2>2
<1>8. RootIsOp(c)'
  BY <1>1, <1>2 DEF RootIsOp
<1>. QED
  BY <1>1, <1>6, <1>7, <1>8, Told

LEMMA CallStepMoves ==
  ASSUME OutputTypeOK, NEW c \in Runs, NEW x \in Subcalls, WatchInv(c), CallStep(c, x)
  PROVE  /\ WatchInv(c)'
         /\ \E event \in Events, state \in CallStates : CallMoves(c, x, event, state)
<1>0. Began(x) \in Events /\ Done(x) \in Events
  BY RootAndParents, EventsDiffer
<1>1. CASE CallStarts(c, x)
  <2>1. CallMoves(c, x, Began(x), "started")
    BY <1>1 DEF CallStarts, CallMoves
  <2>2. /\ call[c][x] = "idle" /\ call[c][ParentOf[x]] \notin {"idle", "skipped", "unfit"}
    BY <1>1 DEF CallStarts
  <2>. QED
    BY <2>1, <2>2, <1>0, SubcallMoves DEF CallStates
<1>2. CASE CallIsNotStarted(c, x)
  <2>1. PICK state \in {"skipped", "unfit"} : CallMoves(c, x, Done(x), state)
    BY <1>2 DEF CallIsNotStarted, CallMoves
  <2>2. /\ call[c][x] = "idle" /\ call[c][ParentOf[x]] \notin {"idle", "skipped", "unfit"}
    BY <1>2 DEF CallIsNotStarted
  <2>. QED
    BY <2>1, <2>2, <1>0, SubcallMoves DEF CallStates
<1>3. CASE CallEnds(c, x)
  <2>1. PICK state \in {"succeeded", "failed", "killed"} : CallMoves(c, x, Done(x), state)
    BY <1>3 DEF CallEnds, CallMoves
  <2>2. call[c][x] = "started"
    BY <1>3 DEF CallEnds
  <2>. QED
    BY <2>1, <2>2, <1>0, SubcallMoves DEF CallStates
<1>. QED
  BY <1>1, <1>2, <1>3 DEF CallStep

LEMMA RootStartKeeps ==
  ASSUME OutputTypeOK, RunTypeOK, NEW c \in Runs, WatchInv(c), RootStarts(c)
  PROVE  WatchInv(c)'
<1>1. /\ EventsTell(c) /\ RootIsOp(c) /\ StreamsOnce(c) /\ Root \in Tree
      /\ op[c] = "called" /\ op'[c] = "running" /\ run' = run /\ stream' = stream
      /\ UNCHANGED <<replay, read, graph, told, muddled>>
  BY RootAndParents DEF WatchInv, RootStarts, EnterCall, cliVars, RunTypeOK
<1>2. call[c][Root] = "idle" /\ ~IsOver(c, Root) /\ ~HasBegun(c, Root)
  BY <1>1 DEF RootIsOp, IsOver, HasBegun, Outcomes
<1>3. CASE Become(c, Root, "started") /\ Publish(c, Began(Root))
  <2>1. call'[c][Root] = "started" /\ \A y \in Tree \ {Root} : call'[c][y] = call[c][y]
    BY <1>1, <1>3, Becoming DEF CallStates
  <2>2. Fits(Began(Root), call'[c], Published(c))
    <3>1. Began(Root) \notin Published(c) /\ Done(Root) \notin Published(c)
      BY <1>1, <1>2 DEF EventsTell
    <3>. QED
      BY <3>1, EventsDiffer DEF Fits
  <2>3. ASSUME NEW y \in Tree
        PROVE  /\ IsOver(c, y) => /\ IsOver(c, y)' /\ call'[c][y] = call[c][y]
                                  /\ OutcomeOf(c, y)' = OutcomeOf(c, y)
               /\ call[c][y] = "unfit" => call'[c][y] = "unfit"
               /\ HasBegun(c, y)' <=> (HasBegun(c, y) \/ Began(Root) = Began(y))
               /\ Began(Root) = Done(y) => IsOver(c, y)'
    <3>1. CASE y = Root
      BY <3>1, <1>2, <2>1, EventsDiffer DEF HasBegun
    <3>2. CASE y # Root
      BY <3>2, <2>1, EventsDiffer DEF HasBegun, IsOver, OutcomeOf
    <3>. QED
      BY <3>1, <3>2
  <2>4. RootIsOp(c)' /\ Began(Root) \in Events
    BY <1>1, <2>1, EventsDiffer DEF RootIsOp
  <2>. QED
    BY <1>1, <1>3, <2>2, <2>3, <2>4, Told
<1>4. CASE Become(c, Root, "unfit") /\ UNCHANGED <<happened, live, late>>
  <2>1. call'[c][Root] = "unfit" /\ \A y \in Tree \ {Root} : call'[c][y] = call[c][y]
    BY <1>1, <1>4, Becoming DEF CallStates
  <2>2. ASSUME NEW y \in Tree
        PROVE  /\ IsOver(c, y) => /\ IsOver(c, y)' /\ call'[c][y] = call[c][y]
                                  /\ OutcomeOf(c, y)' = OutcomeOf(c, y)
               /\ call[c][y] = "unfit" => call'[c][y] = "unfit"
               /\ HasBegun(c, y)' <=> HasBegun(c, y)
    <3>1. CASE y = Root
      BY <3>1, <1>2, <2>1 DEF HasBegun
    <3>2. CASE y # Root
      BY <3>2, <2>1 DEF HasBegun, IsOver, OutcomeOf
    <3>. QED
      BY <3>1, <3>2
  <2>3. RootIsOp(c)'
    BY <1>1, <2>1 DEF RootIsOp
  <2>4. StreamsOnce(c)'
    BY <1>1, <1>4 DEF StreamsOnce
  <2>5. /\ UNCHANGED <<stream[c], happened[c], replay[c], live[c], read[c], graph[c],
                       told[c], muddled[c]>>
        /\ c \in late' <=> c \in late
    BY <1>1, <1>4
  <2>. QED
    BY <2>2, <2>3, <2>4, <2>5, Untold
<1>. QED
  BY <1>3, <1>4 DEF RootStarts

LEMMA RootEndKeeps ==
  ASSUME OutputTypeOK, RunTypeOK, NEW c \in Runs, WatchInv(c),
         NEW outcome \in Outcomes, RootEnds(c, outcome)
  PROVE  WatchInv(c)'
<1>1. /\ EventsTell(c) /\ RootIsOp(c) /\ StreamsOnce(c) /\ Root \in Tree
      /\ op[c] = "running" /\ op'[c] = outcome /\ run' = run /\ stream' = stream
      /\ UNCHANGED <<call, replay, read, graph, told, muddled>>
  BY RootAndParents DEF WatchInv, RootEnds, OpEnds, cliVars, RunTypeOK
<1>2. ~IsOver(c, Root) /\ IsOver(c, Root)' /\ call[c][Root] \in {"started", "unfit"}
  BY <1>1 DEF RootIsOp, IsOver, Outcomes
<1>3. ASSUME NEW y \in Tree
      PROVE  /\ IsOver(c, y) => /\ IsOver(c, y)' /\ call'[c][y] = call[c][y]
                                /\ OutcomeOf(c, y)' = OutcomeOf(c, y)
             /\ call[c][y] = "unfit" => call'[c][y] = "unfit"
             /\ HasBegun(c, y)' <=> HasBegun(c, y)
             /\ Done(Root) = Done(y) => IsOver(c, y)'
             /\ Done(Root) # Began(y)
  <2>1. CASE y = Root
    BY <2>1, <1>1, <1>2, EventsDiffer DEF HasBegun
  <2>2. CASE y # Root
    BY <2>2, <1>1, EventsDiffer DEF HasBegun, IsOver, OutcomeOf
  <2>. QED
    BY <2>1, <2>2
<1>4. RootIsOp(c)'
  BY <1>1, <1>2 DEF RootIsOp, Outcomes
<1>5. CASE Publish(c, Done(Root))
  <2>1. Fits(Done(Root), call'[c], Published(c))
    <3>1. Done(Root) \notin Published(c)
      BY <1>1, <1>2 DEF EventsTell
    <3>2. call[c][Root] # "unfit" => Began(Root) \in Published(c)
      BY <1>1, <1>2 DEF EventsTell, HasBegun
    <3>. QED
      BY <3>1, <3>2, <1>1, <1>2, EventsDiffer DEF Fits
  <2>2. Done(Root) \in Events
    BY <1>1, EventsDiffer
  <2>. QED
    BY <1>1, <1>3, <1>4, <1>5, <2>1, <2>2, Told
<1>6. CASE UNCHANGED <<happened, live, late>>
  <2>1. StreamsOnce(c)'
    BY <1>1, <1>6 DEF StreamsOnce
  <2>2. /\ UNCHANGED <<stream[c], happened[c], replay[c], live[c], read[c], graph[c],
                       told[c], muddled[c]>>
        /\ c \in late' <=> c \in late
    BY <1>1, <1>6
  <2>. QED
    BY <1>3, <1>4, <2>1, <2>2, Untold
<1>. QED
  BY <1>5, <1>6 DEF RootEnds

-----------------------------------------------------------------------------
(* A run begins to follow *)

LEMMA FollowKeeps ==
  ASSUME OutputTypeOK, RunTypeOK, NEW c \in Runs, WatchInv(c), FollowCalls(c)
  PROVE  /\ WatchInv(c)'
         /\ replay' \in [Runs -> Seq(Events)] /\ happened' \in [Runs -> Seq(Events)]
         /\ live' \in [Runs -> SUBSET Events] /\ late' \subseteq Runs
         /\ \A d \in Runs \ {c} : /\ happened'[d] = happened[d] /\ live'[d] = live[d]
                                  /\ replay'[d] = replay[d] /\ (d \in late' <=> d \in late)
<1>1. /\ EventsTell(c) /\ RootIsOp(c) /\ StreamsOnce(c) /\ ShowsRight(c) /\ StoredInOrder(c)
      /\ run[c] = "started" /\ stream[c] = NoOne
      /\ replay[c] = <<>> /\ live[c] = {} /\ read[c] = {}
      /\ UNCHANGED <<call, op, read, graph, told, muddled>>
  BY DEF WatchInv, FollowCalls, Follow, StreamsOnce
<1>2. \/ stream' = stream /\ run'[c] = "ended"
      \/ stream'[c] \in Nodes /\ stream'[c] # NoOne /\ run'[c] = "following"
  BY <1>1, DaemonAssumption DEF FollowCalls, Follow, GoOn, End, RunTypeOK, Serving
<1>3. ASSUME NEW x \in Tree
      PROVE  /\ IsOver(c, x)' <=> IsOver(c, x)
             /\ call'[c][x] = call[c][x]
             /\ OutcomeOf(c, x)' = OutcomeOf(c, x)
             /\ HasBegun(c, x)' <=> HasBegun(c, x)
  BY <1>1 DEF IsOver, OutcomeOf, HasBegun
<1>4. RootIsOp(c)' /\ ShowsRight(c)'
  <2>1. ShowsRight(c)'
    BY <1>1, <1>3, ShowsStay
  <2>. QED
    BY <2>1, <1>1 DEF RootIsOp
<1>5. CASE stream'[c] = NoOne
  <2>1. UNCHANGED <<happened, replay, live, late>> /\ stream' = stream /\ run'[c] = "ended"
    BY <1>2, <1>5 DEF FollowCalls
  <2>2. StreamsOnce(c)'
    BY <2>1, <1>1 DEF StreamsOnce
  <2>3. EventsTell(c)'
    BY <2>1, <1>1 DEF EventsTell, Published, HasBegun, IsOver, Elements
  <2>4. StoredInOrder(c)'
    BY <2>1, <1>1, <1>3, OrderStays
  <2>. QED
    BY <2>1, <2>2, <2>3, <2>4, <1>4 DEF WatchInv, OutputTypeOK
<1>6. CASE stream'[c] # NoOne
  <2>1. /\ replay' = [replay EXCEPT ![c] = happened[c]]
        /\ happened' = [happened EXCEPT ![c] = <<>>]
        /\ run'[c] = "following"
    BY <1>2, <1>5, <1>6, <1>1 DEF FollowCalls
  <2>2. PICK n \in 1..(Len(happened[c]) + 1) :
          /\ live' = [live EXCEPT ![c] = {happened[c][i] : i \in n..Len(happened[c])}]
          /\ late' = IF n > Len(happened[c]) THEN late ELSE late \cup {c}
    BY <1>6 DEF FollowCalls
  <2>3. /\ happened[c] \in Seq(Events) /\ <<>> \in Seq(Events)
        /\ Len(happened[c]) \in Nat /\ DOMAIN happened[c] = 1..Len(happened[c])
    BY DEF OutputTypeOK
  <2>4. {happened[c][i] : i \in n..Len(happened[c])} \subseteq Elements(happened[c])
    BY <2>3 DEF Elements
  <2>5. Elements(happened[c]) \subseteq Events
    BY <2>3 DEF Elements
  <2>6. /\ replay' \in [Runs -> Seq(Events)] /\ happened' \in [Runs -> Seq(Events)]
        /\ replay'[c] = happened[c] /\ happened'[c] = <<>>
        /\ \A d \in Runs \ {c} : happened'[d] = happened[d] /\ replay'[d] = replay[d]
    BY <2>1, <2>3 DEF OutputTypeOK
  <2>7. /\ live' \in [Runs -> SUBSET Events] /\ live'[c] \subseteq Elements(happened[c])
        /\ late' \subseteq Runs
        /\ \A d \in Runs \ {c} : live'[d] = live[d] /\ (d \in late' <=> d \in late)
        /\ c \notin late' => c \notin late /\ live'[c] = {}
    <3>1. n > Len(happened[c]) => {happened[c][i] : i \in n..Len(happened[c])} = {}
      BY <2>3
    <3>. QED
      BY <3>1, <2>2, <2>4, <2>5 DEF OutputTypeOK
  <2>8. Published(c)' = Published(c)
    <3>1. Elements(replay[c]) = {} /\ Elements(happened[c])' = {}
      BY <2>6, <1>1 DEF Elements
    <3>2. Elements(replay[c])' = Elements(happened[c])
      BY <2>6 DEF Elements
    <3>. QED
      BY <3>1, <3>2, <2>7, <1>1 DEF Published
  <2>9. EventsTell(c)'
    BY <2>8, <1>1 DEF EventsTell, HasBegun, IsOver
  <2>10. StreamsOnce(c)'
    BY <2>1, <2>6, <1>6 DEF StreamsOnce
  <2>11. StoredInOrder(c)'
    <3>1. Ahead(c)' = Ahead(c) /\ Before(Ahead(c), 1)' = Before(Ahead(c), 1)
      BY <2>6, <1>1, <1>6 DEF Ahead, Before
    <3>2. ASSUME c \notin late'
          PROVE  \A i \in DOMAIN Ahead(c)' :
                    Fits(Ahead(c)'[i], call'[c], read'[c] \cup Before(Ahead(c)', i))
      BY <3>1, <3>2, <2>7, <1>1 DEF StoredInOrder
    <3>. QED
      BY <3>2, <2>7, <1>1 DEF StoredInOrder, Before
  <2>. QED
    BY <2>6, <2>7, <2>9, <2>10, <2>11, <1>4 DEF WatchInv
<1>. QED
  BY <1>5, <1>6

-----------------------------------------------------------------------------
(* An event is read *)

\* A call whose start was read, and not out of place, is shown.
LEMMA KnownIfRead ==
  ASSUME NEW c \in Runs, WatchInv(c), NEW x \in Tree, x \notin muddled[c], Began(x) \in read[c]
  PROVE  Known(c, x) /\ Known(c, Root)
<1>1. ShownRight(c, x) /\ HasBegun(c, x)
  BY DEF WatchInv, ShowsRight, EventsTell, Published
<1>2. Truth(c, x) # <<>>
  BY <1>1 DEF Truth, HasBegun
<1>. QED
  BY <1>1, <1>2 DEF ShownRight, Known

\* What HandleEvent does to the graph: no other call's nodes change, and the root
\* call's never go.
LEMMA StartHandled ==
  ASSUME OutputTypeOK, NEW c \in Runs, NEW x \in Tree, WatchInv(c), HandleStart(c, x),
         Began(x) \in Published(c)
  PROVE  /\ graph' \in [Runs -> [Tree -> Seq(Labels)]]
         /\ told' \in [Runs -> SUBSET (Tree \X {"failed", "error"})]
         /\ \A d \in Runs \ {c} : graph'[d] = graph[d] /\ told'[d] = told[d]
         /\ \A y \in Tree \ {x} : graph'[c][y] = graph[c][y]
         /\ graph'[c][x] \in {graph[c][x], Append(graph[c][x], "open")}
         /\ graph'[c][x] # <<>> => graph[c][Root] # <<>> \/ x = Root
         /\ told'[c] \in {told[c], told[c] \cup {<<x, "error">>}}
         /\ ~Muddles(c, x, Began(x)) /\ x \notin muddled[c] =>
               graph'[c][x] = <<"open">> /\ told'[c] = told[c]
<1>1. /\ ShownRight(c, x) /\ HasBegun(c, x) /\ x \in Tree /\ Root \in Tree
      /\ graph[c][x] \in Seq(Labels)
      /\ x # Root => ParentOf[x] \in Tree
  BY RootAndParents DEF WatchInv, ShowsRight, EventsTell, OutputTypeOK
<1>2. ASSUME ~Muddles(c, x, Began(x)), x \notin muddled[c]
      PROVE  /\ graph[c][x] = <<>>
             /\ x # Root => Known(c, ParentOf[x]) /\ Known(c, Root)
  <2>1. /\ Began(x) \notin read[c] /\ Done(x) \notin read[c]
        /\ x # Root => Began(ParentOf[x]) \in read[c] /\ ParentOf[x] \notin muddled[c]
    BY <1>2 DEF Muddles
  <2>2. graph[c][x] = <<>>
    BY <2>1, <1>1, <1>2 DEF ShownRight, Truth
  <2>. QED
    BY <2>1, <2>2, <1>1, KnownIfRead
<1>3. CASE graph' = [graph EXCEPT ![c][x] = Append(@, "open")] /\ told' = told
           /\ (x = Root \/ Known(c, Root))
  <2>1. Append(graph[c][x], "open") \in Seq(Labels)
    <3>1. "open" \in Labels
      BY DEF Labels
    <3>. QED
      BY <3>1, <1>1, Appending
  <2>2. /\ graph' \in [Runs -> [Tree -> Seq(Labels)]]
        /\ graph'[c][x] = Append(graph[c][x], "open")
        /\ \A d \in Runs \ {c} : graph'[d] = graph[d]
        /\ \A y \in Tree \ {x} : graph'[c][y] = graph[c][y]
    BY <1>3, <2>1 DEF OutputTypeOK
  <2>3. graph[c][x] = <<>> => graph'[c][x] = <<"open">>
    BY <2>2
  <2>. QED
    BY <1>2, <1>3, <2>2, <2>3 DEF OutputTypeOK, Known
<1>4. CASE /\ graph' = graph
           /\ told' = told \/ told' = [told EXCEPT ![c] = @ \cup {<<x, "error">>}]
           /\ Muddles(c, x, Began(x)) \/ x \in muddled[c]
  <2>1. /\ told' \in [Runs -> SUBSET (Tree \X {"failed", "error"})]
        /\ told'[c] \in {told[c], told[c] \cup {<<x, "error">>}}
        /\ \A d \in Runs \ {c} : told'[d] = told[d]
    <3>1. told \in [Runs -> SUBSET (Tree \X {"failed", "error"})]
      BY DEF OutputTypeOK
    <3>2. <<x, "error">> \in Tree \X {"failed", "error"}
      OBVIOUS
    <3>3. told[c] \cup {<<x, "error">>} \in SUBSET (Tree \X {"failed", "error"})
      BY <3>1, <3>2
    <3>. QED
      BY <1>4, <3>1, <3>3
  <2>2. graph'[c][x] # <<>> => graph[c][Root] # <<>>
    BY <1>1, <1>4 DEF ShownRight
  <2>. QED
    BY <1>4, <2>1, <2>2 DEF OutputTypeOK
<1>5. \/ /\ graph' = [graph EXCEPT ![c][x] = Append(@, "open")] /\ told' = told
         /\ (x = Root \/ Known(c, Root))
      \/ /\ graph' = graph
         /\ told' = told \/ told' = [told EXCEPT ![c] = @ \cup {<<x, "error">>}]
         /\ Muddles(c, x, Began(x)) \/ x \in muddled[c]
  <2>1. CASE \/ x = Root /\ ~Known(c, Root)
             \/ x # Root /\ Known(c, Root) /\ Known(c, ParentOf[x])
    BY <2>1 DEF HandleStart, Insert
  <2>2. CASE /\ x = Root => Known(c, Root)
             /\ x # Root => ~Known(c, Root) \/ ~Known(c, ParentOf[x])
    <3>1. CASE x = Root
      <4>1. Known(c, Root)
        BY <2>2, <3>1
      <4>2. Err(c, x)
        BY <3>1, <4>1 DEF HandleStart
      <4>. QED
        BY <4>1, <4>2, <3>1, <1>2 DEF Known, Err
    <3>2. CASE x # Root
      <4>1. /\ graph' = graph
            /\ told' = told \/ told' = [told EXCEPT ![c] = @ \cup {<<x, "error">>}]
        BY <2>2, <3>2 DEF HandleStart, Err
      <4>. QED
        BY <4>1, <2>2, <3>2, <1>2
    <3>. QED
      BY <3>1, <3>2
  <2>. QED
    BY <2>1, <2>2
<1>. QED
  BY <1>3, <1>4, <1>5

LEMMA FirstChanged ==
  ASSUME NEW S, NEW s \in Seq(S), s # <<>>, NEW v \in S
  PROVE  /\ [s EXCEPT ![1] = v] \in Seq(S) /\ [s EXCEPT ![1] = v] # <<>>
         /\ \A i \in DOMAIN [s EXCEPT ![1] = v] :
               [s EXCEPT ![1] = v][i] = v \/ (i \in DOMAIN s /\ [s EXCEPT ![1] = v][i] = s[i])
         /\ Len(s) = 1 => [s EXCEPT ![1] = v] = <<v>>
<1>1. Len(s) \in Nat \ {0} /\ DOMAIN s = 1..Len(s) /\ s \in [1..Len(s) -> S]
  OBVIOUS
<1>. DEFINE t == [s EXCEPT ![1] = v]
<1>2. /\ t \in [1..Len(s) -> S] /\ t[1] = v /\ \A i \in 1..Len(s) : i # 1 => t[i] = s[i]
  BY <1>1
<1>. HIDE DEF t
<1>3. t \in Seq(S) /\ Len(t) = Len(s)
  BY <1>1, <1>2
<1>4. t # <<>>
  BY <1>1, <1>3
<1>5. Len(s) = 1 => t = <<v>>
  BY <1>2, <1>3
<1>6. \A i \in DOMAIN t : t[i] = v \/ (i \in DOMAIN s /\ t[i] = s[i])
  BY <1>1, <1>2
<1>. QED
  BY <1>3, <1>4, <1>5, <1>6 DEF t

LEMMA OutcomeIsLabel ==
  ASSUME OutputTypeOK, RunTypeOK, NEW c \in Runs, NEW x \in Tree, IsOver(c, x)
  PROVE  OutcomeOf(c, x) \in Labels
<1>1. CASE x = Root
  BY <1>1 DEF IsOver, OutcomeOf, Labels, Outcomes
<1>2. CASE x # Root
  BY <1>2 DEF IsOver, OutcomeOf, Labels, Outcomes
<1>. QED
  BY <1>1, <1>2

\* What the nodes of a call should be once its end is read.
EndTruth(c, x) ==
    IF call[c][x] = "skipped" THEN <<"skipped">>
    ELSE IF call[c][x] = "unfit" THEN <<>> ELSE <<OutcomeOf(c, x)>>

\* Its end is read, and not out of place: what there was of it before.
LEMMA EndInPlace ==
  ASSUME NEW c \in Runs, NEW x \in Tree, WatchInv(c), Done(x) \in Published(c),
         ~Muddles(c, x, Done(x)), x \notin muddled[c]
  PROVE  /\ call[c][x] = "skipped" =>
               graph[c][x] = <<>> /\ (x # Root => Known(c, ParentOf[x])) /\ Known(c, Root)
         /\ call[c][x] = "unfit" => graph[c][x] = <<>>
         /\ call[c][x] \notin {"skipped", "unfit"} =>
               /\ Known(c, x) /\ Known(c, Root)
               /\ \E s : graph[c][x] = <<s>>
<1>1. /\ ShownRight(c, x) /\ (Began(x) \in read[c] => HasBegun(c, x))
      /\ x # Root => ParentOf[x] \in Tree
      /\ call[c][Root] # "skipped"
  BY RootAndParents DEF WatchInv, ShowsRight, EventsTell, Published, RootIsOp
<1>2. CASE call[c][x] = "skipped"
  <2>1. /\ Done(x) \notin read[c] /\ x # Root
        /\ Began(ParentOf[x]) \in read[c] /\ ParentOf[x] \notin muddled[c]
    BY <1>1, <1>2, EventsDiffer DEF Muddles
  <2>2. graph[c][x] = <<>>
    BY <1>1, <1>2, <2>1 DEF ShownRight, Truth, HasBegun
  <2>. QED
    BY <1>1, <1>2, <2>1, <2>2, KnownIfRead
<1>3. CASE call[c][x] = "unfit"
  BY <1>1, <1>3 DEF ShownRight, Truth, HasBegun
<1>4. CASE call[c][x] \notin {"skipped", "unfit"}
  <2>1. Began(x) \in read[c]
    BY <1>4, EventsDiffer DEF Muddles
  <2>2. \E s : graph[c][x] = <<s>>
    BY <2>1, <1>1, <1>4 DEF ShownRight, Truth
  <2>. QED
    BY <1>4, <2>1, <2>2, KnownIfRead
<1>. QED
  BY <1>2, <1>3, <1>4

LEMMA EndHandled ==
  ASSUME OutputTypeOK, RunTypeOK, NEW c \in Runs, NEW x \in Tree, WatchInv(c), HandleEnd(c, x),
         Done(x) \in Published(c)
  PROVE  /\ graph' \in [Runs -> [Tree -> Seq(Labels)]]
         /\ told' \in [Runs -> SUBSET (Tree \X {"failed", "error"})]
         /\ \A d \in Runs \ {c} : graph'[d] = graph[d] /\ told'[d] = told[d]
         /\ \A y \in Tree \ {x} : graph'[c][y] = graph[c][y]
         /\ graph[c][x] # <<>> => graph'[c][x] # <<>>
         /\ graph'[c][x] # <<>> => graph[c][Root] # <<>>
         /\ \A i \in DOMAIN graph'[c][x] :
               \/ graph'[c][x][i] \in {"skipped", OutcomeOf(c, x)}
               \/ i \in DOMAIN graph[c][x] /\ graph'[c][x][i] = graph[c][x][i]
         /\ \A e \in told'[c] :
               \/ e \in told[c]
               \/ e = <<x, "failed">> /\ OutcomeOf(c, x) = "failed"
               \/ /\ e = <<x, "error">>
                  /\ Muddles(c, x, Done(x)) \/ x \in muddled[c] \/ call[c][x] = "unfit"
         /\ ~Muddles(c, x, Done(x)) /\ x \notin muddled[c] => graph'[c][x] = EndTruth(c, x)
<1>. DEFINE failed == IF OutcomeOf(c, x) = "failed" THEN {<<x, "failed">>} ELSE {}
            lost == call[c][x] = "unfit" \/ ~Known(c, ParentOf[x])
            Proper == ~Muddles(c, x, Done(x)) /\ x \notin muddled[c]
<1>1. /\ ShownRight(c, x) /\ IsOver(c, x) /\ x \in Tree /\ Root \in Tree
      /\ graph[c][x] \in Seq(Labels)
      /\ graph \in [Runs -> [Tree -> Seq(Labels)]]
      /\ told \in [Runs -> SUBSET (Tree \X {"failed", "error"})]
      /\ <<x, "failed">> \in Tree \X {"failed", "error"}
      /\ <<x, "error">> \in Tree \X {"failed", "error"}
  <2>1. ShownRight(c, x) /\ IsOver(c, x) /\ Root \in Tree
    BY RootAndParents DEF WatchInv, ShowsRight, EventsTell
  <2>2. /\ <<x, "failed">> \in Tree \X {"failed", "error"}
        /\ <<x, "error">> \in Tree \X {"failed", "error"}
    OBVIOUS
  <2>3. /\ graph \in [Runs -> [Tree -> Seq(Labels)]]
        /\ told \in [Runs -> SUBSET (Tree \X {"failed", "error"})]
        /\ graph[c][x] \in Seq(Labels)
    BY DEF OutputTypeOK
  <2>. QED
    BY <2>1, <2>2, <2>3
<1>2. Proper => /\ call[c][x] = "skipped" =>
                     graph[c][x] = <<>> /\ (x # Root => Known(c, ParentOf[x])) /\ Known(c, Root)
                /\ call[c][x] = "unfit" => graph[c][x] = <<>>
                /\ call[c][x] \notin {"skipped", "unfit"} =>
                     /\ Known(c, x) /\ Known(c, Root)
                     /\ \E s : graph[c][x] = <<s>>
  BY EndInPlace
<1>3. OutcomeOf(c, x) \in Labels
  BY <1>1, OutcomeIsLabel
<1>4. ASSUME told' = [told EXCEPT ![c] = @ \cup failed]
      PROVE  /\ told' \in [Runs -> SUBSET (Tree \X {"failed", "error"})]
             /\ \A d \in Runs \ {c} : told'[d] = told[d]
             /\ \A e \in told'[c] :
                   \/ e \in told[c]
                   \/ e = <<x, "failed">> /\ OutcomeOf(c, x) = "failed"
  <2>1. told[c] \cup failed \in SUBSET (Tree \X {"failed", "error"})
    BY <1>1
  <2>. HIDE DEF failed
  <2>2. told'[c] = told[c] \cup failed
    BY <1>1, <1>4
  <2>. QED
    BY <1>1, <1>4, <2>1, <2>2 DEF failed
<1>5. CASE /\ graph' = graph /\ told' = [told EXCEPT ![c] = @ \cup failed]
           /\ ~Known(c, Root)
  <2>1. Proper => call[c][x] = "unfit"
    BY <1>2, <1>5
  <2>2. graph'[c][x] # <<>> => graph[c][Root] # <<>>
    BY <1>1, <1>5 DEF ShownRight
  <2>. QED
    BY <1>1, <1>2, <1>4, <1>5, <2>1, <2>2 DEF EndTruth
<1>6. CASE /\ Update(c, x) /\ told' = [told EXCEPT ![c] = @ \cup failed]
           /\ Known(c, Root) /\ Known(c, x)
  <2>. DEFINE g == [graph[c][x] EXCEPT ![1] = OutcomeOf(c, x)]
  <2>1. /\ g \in Seq(Labels) /\ g # <<>>
        /\ \A i \in DOMAIN g :
              g[i] = OutcomeOf(c, x) \/ (i \in DOMAIN graph[c][x] /\ g[i] = graph[c][x][i])
        /\ Len(graph[c][x]) = 1 => g = <<OutcomeOf(c, x)>>
    BY <1>1, <1>3, <1>6, FirstChanged DEF Known
  <2>2. graph' = [graph EXCEPT ![c] = [graph[c] EXCEPT ![x] = g]]
    BY <1>1, <1>6 DEF Update
  <2>. HIDE DEF g
  <2>3. /\ graph' \in [Runs -> [Tree -> Seq(Labels)]]
        /\ graph'[c][x] = g
        /\ \A d \in Runs \ {c} : graph'[d] = graph[d]
        /\ \A y \in Tree \ {x} : graph'[c][y] = graph[c][y]
    BY <1>1, <2>1, <2>2
  <2>4. Proper => g = EndTruth(c, x)
    <3>. SUFFICES ASSUME Proper PROVE g = EndTruth(c, x)
      OBVIOUS
    <3>1. call[c][x] \notin {"skipped", "unfit"}
      BY <1>2, <1>6 DEF Known
    <3>2. PICK s : graph[c][x] = <<s>>
      BY <3>1, <1>2
    <3>3. Len(graph[c][x]) = 1
      BY <3>2
    <3>. QED
      BY <3>1, <3>3, <2>1 DEF EndTruth
  <2>. QED
    BY <1>4, <1>6, <2>1, <2>3, <2>4 DEF Known
<1>7. CASE /\ Insert(c, x, "skipped") /\ told' = [told EXCEPT ![c] = @ \cup failed]
           /\ Known(c, Root) /\ ~Known(c, x) /\ ~lost
  <2>1. graph[c][x] = <<>> /\ <<"skipped">> \in Seq(Labels)
    BY <1>7 DEF Known, Labels
  <2>2. graph' = [graph EXCEPT ![c] = [graph[c] EXCEPT ![x] = <<"skipped">>]]
    <3>1. Append(graph[c][x], "skipped") = <<"skipped">>
      BY <2>1
    <3>. QED
      BY <3>1, <1>1, <1>7 DEF Insert
  <2>3. /\ graph' \in [Runs -> [Tree -> Seq(Labels)]]
        /\ graph'[c][x] = <<"skipped">>
        /\ \A d \in Runs \ {c} : graph'[d] = graph[d]
        /\ \A y \in Tree \ {x} : graph'[c][y] = graph[c][y]
    BY <1>1, <2>1, <2>2
  <2>4. Proper => call[c][x] = "skipped"
    BY <1>2, <1>7
  <2>5. \A i \in DOMAIN graph'[c][x] : graph'[c][x][i] = "skipped"
    BY <2>3
  <2>6. Proper => graph'[c][x] = EndTruth(c, x)
    BY <2>3, <2>4 DEF EndTruth
  <2>7. graph[c][Root] # <<>>
    BY <1>7 DEF Known
  <2>. HIDE DEF Proper
  <2>. QED
    BY <1>4, <1>7, <2>1, <2>3, <2>5, <2>6, <2>7 DEF Proper
<1>8. CASE /\ graph' = graph
           /\ told' = [told EXCEPT ![c] = @ \cup failed \cup {<<x, "error">>}]
           /\ Known(c, Root) /\ ~Known(c, x) /\ lost
  <2>1. Proper => call[c][x] = "unfit"
    <3>1. CASE call[c][x] = "skipped"
      <4>1. Proper => x # Root /\ Known(c, ParentOf[x])
        BY <3>1, <1>2, <1>8 DEF Known
      <4>. QED
        BY <4>1, <3>1, <1>8
    <3>2. CASE call[c][x] \notin {"skipped", "unfit"}
      BY <3>2, <1>2, <1>8
    <3>. QED
      BY <3>1, <3>2
  <2>2. told[c] \cup failed \cup {<<x, "error">>} \in SUBSET (Tree \X {"failed", "error"})
    BY <1>1
  <2>. HIDE DEF failed
  <2>3. /\ told' \in [Runs -> SUBSET (Tree \X {"failed", "error"})]
        /\ told'[c] = told[c] \cup failed \cup {<<x, "error">>}
        /\ \A d \in Runs \ {c} : told'[d] = told[d]
    BY <1>1, <1>8, <2>2
  <2>4. \A e \in told'[c] :
           \/ e \in told[c]
           \/ e = <<x, "failed">> /\ OutcomeOf(c, x) = "failed"
           \/ /\ e = <<x, "error">>
              /\ Muddles(c, x, Done(x)) \/ x \in muddled[c] \/ call[c][x] = "unfit"
    BY <2>1, <2>3 DEF failed
  <2>5. Proper => graph'[c][x] = EndTruth(c, x)
    BY <2>1, <1>2, <1>8 DEF EndTruth
  <2>. QED
    BY <1>1, <1>8, <2>3, <2>4, <2>5 DEF Known
<1>. QED
  BY <1>5, <1>6, <1>7, <1>8 DEF HandleEnd, Find

\* What is shown after an event was read that had been published.
LEMMA HandlingShows ==
  ASSUME OutputTypeOK, RunTypeOK, NEW c \in Runs, WatchInv(c), NEW event \in Published(c),
         Handle(c, event)
  PROVE  /\ ShowsRight(c)'
         /\ graph' \in [Runs -> [Tree -> Seq(Labels)]]
         /\ told' \in [Runs -> SUBSET (Tree \X {"failed", "error"})]
         /\ muddled' \in [Runs -> SUBSET Tree]
         /\ \A d \in Runs \ {c} : /\ graph'[d] = graph[d] /\ told'[d] = told[d]
                                  /\ muddled'[d] = muddled[d]
         /\ \/ muddled'[c] = muddled[c]
            \/ \E x \in Tree : Muddles(c, x, event)
<1>1. PICK x \in Tree :
        /\ \/ event = Began(x) /\ HandleStart(c, x)
           \/ event = Done(x) /\ HandleEnd(c, x)
        /\ muddled' = IF Muddles(c, x, event)
                      THEN [muddled EXCEPT ![c] = @ \cup {x}] ELSE muddled
  BY DEF Handle
<1>2. /\ read' = [read EXCEPT ![c] = @ \cup {event}] /\ call' = call /\ op' = op
      /\ read'[c] = read[c] \cup {event}
      /\ Root \in Tree
  BY RootAndParents DEF Handle, SeeEnd, vars, opVars, OutputTypeOK
<1>3. /\ muddled' \in [Runs -> SUBSET Tree]
      /\ \A d \in Runs \ {c} : muddled'[d] = muddled[d]
      /\ muddled'[c] = IF Muddles(c, x, event) THEN muddled[c] \cup {x} ELSE muddled[c]
  <2>1. muddled[c] \cup {x} \in SUBSET Tree
    BY DEF OutputTypeOK
  <2>2. muddled \in [Runs -> SUBSET Tree]
    BY DEF OutputTypeOK
  <2>. HIDE DEF Muddles
  <2>. QED
    BY <1>1, <2>1, <2>2
<1>4. \A y \in Tree : ShownRight(c, y)
  BY DEF WatchInv, ShowsRight
<1>5. \A y \in Tree : /\ IsOver(c, y)' <=> IsOver(c, y)
                      /\ OutcomeOf(c, y)' = OutcomeOf(c, y)
  BY <1>2 DEF IsOver, OutcomeOf
<1>6. \A y \in Tree \ {x} : Truth(c, y)' = Truth(c, y)
  BY <1>1, <1>2, EventsDiffer DEF Truth, OutcomeOf
<1>7. ASSUME NEW y \in Tree \ {x},
             graph[c][Root] # <<>> => graph'[c][Root] # <<>>,
             graph'[c][y] = graph[c][y],
             <<y, "failed">> \in told'[c] => <<y, "failed">> \in told[c],
             <<y, "error">> \in told'[c] => <<y, "error">> \in told[c]
      PROVE  ShownRight(c, y)'
  <2>1. y \in muddled'[c] <=> y \in muddled[c]
    BY <1>3
  <2>2. ShownRight(c, y)
    BY <1>4
  <2>3. (\A i \in DOMAIN graph[c][y] :
            \/ graph[c][y][i] \in {"open", "skipped"}
            \/ IsOver(c, y) /\ graph[c][y][i] = OutcomeOf(c, y))'
    BY <2>2, <1>2, <1>7 DEF ShownRight, IsOver, OutcomeOf
  <2>4. (<<y, "failed">> \in told[c] => IsOver(c, y) /\ OutcomeOf(c, y) = "failed")'
    BY <2>2, <1>2, <1>7 DEF ShownRight, IsOver, OutcomeOf
  <2>5. (y \notin muddled[c] => graph[c][y] = Truth(c, y))'
    BY <2>1, <2>2, <1>6, <1>7 DEF ShownRight
  <2>6. /\ (graph[c][y] # <<>> => graph[c][Root] # <<>>)'
        /\ (<<y, "error">> \in told[c] => y \in muddled[c] \/ call[c][y] = "unfit")'
    BY <2>1, <2>2, <1>2, <1>7 DEF ShownRight
  <2>. QED
    BY <2>3, <2>4, <2>5, <2>6 DEF ShownRight
<1>8. CASE event = Began(x) /\ HandleStart(c, x)
  <2>1. /\ graph' \in [Runs -> [Tree -> Seq(Labels)]]
        /\ told' \in [Runs -> SUBSET (Tree \X {"failed", "error"})]
        /\ \A d \in Runs \ {c} : graph'[d] = graph[d] /\ told'[d] = told[d]
        /\ \A y \in Tree \ {x} : graph'[c][y] = graph[c][y]
        /\ graph'[c][x] \in {graph[c][x], Append(graph[c][x], "open")}
        /\ graph'[c][x] # <<>> => graph[c][Root] # <<>> \/ x = Root
        /\ told'[c] \in {told[c], told[c] \cup {<<x, "error">>}}
        /\ ~Muddles(c, x, event) /\ x \notin muddled[c] =>
              graph'[c][x] = <<"open">> /\ told'[c] = told[c]
    BY <1>8, StartHandled
  <2>2. /\ graph[c][x] \in Seq(Labels)
        /\ graph[c][x] # <<>> => Append(graph[c][x], "open") # <<>>
        /\ \A i \in DOMAIN Append(graph[c][x], "open") :
              \/ Append(graph[c][x], "open")[i] = "open"
              \/ i \in DOMAIN graph[c][x] /\ Append(graph[c][x], "open")[i] = graph[c][x][i]
    <3>1. graph[c][x] \in Seq(Labels) /\ "open" \in Labels
      BY DEF OutputTypeOK, Labels
    <3>2. Append(graph[c][x], "open") # <<>>
      BY <3>1
    <3>. QED
      BY <3>1, <3>2, Appending
  <2>3. graph[c][Root] # <<>> => graph'[c][Root] # <<>>
    BY <1>2, <2>1, <2>2
  <2>4. \A y \in Tree \ {x} : ShownRight(c, y)'
    BY <1>7, <2>1, <2>3
  <2>5. ShownRight(c, x) /\ HasBegun(c, x)
    BY <1>4, <1>8 DEF WatchInv, EventsTell
  <2>6. (\A i \in DOMAIN graph[c][x] :
            \/ graph[c][x][i] \in {"open", "skipped"}
            \/ IsOver(c, x) /\ graph[c][x][i] = OutcomeOf(c, x))'
    <3>1. \A i \in DOMAIN graph[c][x] :
             \/ graph[c][x][i] \in {"open", "skipped"}
             \/ IsOver(c, x) /\ graph[c][x][i] = OutcomeOf(c, x)
      BY <2>5 DEF ShownRight
    <3>2. \A i \in DOMAIN graph'[c][x] :
             \/ graph'[c][x][i] = "open"
             \/ i \in DOMAIN graph[c][x] /\ graph'[c][x][i] = graph[c][x][i]
      BY <2>1, <2>2
    <3>. QED
      BY <3>1, <3>2, <1>2 DEF IsOver, OutcomeOf
  <2>7. (x \notin muddled[c] => graph[c][x] = Truth(c, x))'
    <3>. SUFFICES ASSUME x \notin muddled'[c] PROVE graph'[c][x] = Truth(c, x)'
      OBVIOUS
    <3>1. ~Muddles(c, x, event) /\ x \notin muddled[c] /\ graph'[c][x] = <<"open">>
      BY <1>3, <2>1
    <3>2. Began(x) \in read'[c] /\ Done(x) \notin read'[c] /\ call'[c][x] # "skipped"
      BY <3>1, <1>2, <1>8, <2>5, EventsDiffer DEF Muddles, HasBegun
    <3>. QED
      BY <3>1, <3>2 DEF Truth
  <2>8. (<<x, "failed">> \in told[c] => IsOver(c, x) /\ OutcomeOf(c, x) = "failed")'
    <3>1. <<x, "failed">> \in told'[c] => <<x, "failed">> \in told[c]
      BY <2>1
    <3>. QED
      BY <3>1, <2>5, <1>2 DEF ShownRight, IsOver, OutcomeOf
  <2>9. (<<x, "error">> \in told[c] => x \in muddled[c] \/ call[c][x] = "unfit")'
    BY <2>1, <2>5, <1>2, <1>3 DEF ShownRight
  <2>10. (graph[c][x] # <<>> => graph[c][Root] # <<>>)'
    BY <2>1, <2>3
  <2>11. ShownRight(c, x)'
    BY <2>6, <2>7, <2>8, <2>9, <2>10 DEF ShownRight
  <2>. QED
    BY <1>1, <1>3, <2>1, <2>4, <2>11 DEF ShowsRight
<1>9. CASE event = Done(x) /\ HandleEnd(c, x)
  <2>1. /\ graph' \in [Runs -> [Tree -> Seq(Labels)]]
        /\ told' \in [Runs -> SUBSET (Tree \X {"failed", "error"})]
        /\ \A d \in Runs \ {c} : graph'[d] = graph[d] /\ told'[d] = told[d]
        /\ \A y \in Tree \ {x} : graph'[c][y] = graph[c][y]
        /\ graph[c][x] # <<>> => graph'[c][x] # <<>>
        /\ graph'[c][x] # <<>> => graph[c][Root] # <<>>
        /\ \A i \in DOMAIN graph'[c][x] :
              \/ graph'[c][x][i] \in {"skipped", OutcomeOf(c, x)}
              \/ i \in DOMAIN graph[c][x] /\ graph'[c][x][i] = graph[c][x][i]
        /\ \A e \in told'[c] :
              \/ e \in told[c]
              \/ e = <<x, "failed">> /\ OutcomeOf(c, x) = "failed"
              \/ /\ e = <<x, "error">>
                 /\ Muddles(c, x, event) \/ x \in muddled[c] \/ call[c][x] = "unfit"
        /\ ~Muddles(c, x, event) /\ x \notin muddled[c] => graph'[c][x] = EndTruth(c, x)
    BY <1>9, EndHandled
  <2>2. graph[c][Root] # <<>> => graph'[c][Root] # <<>>
    BY <1>2, <2>1
  <2>3. \A y \in Tree \ {x} : ShownRight(c, y)'
    <3>. SUFFICES ASSUME NEW y \in Tree \ {x} PROVE ShownRight(c, y)'
      OBVIOUS
    <3>1. /\ <<y, "failed">> \in told'[c] => <<y, "failed">> \in told[c]
          /\ <<y, "error">> \in told'[c] => <<y, "error">> \in told[c]
      BY <2>1
    <3>. QED
      BY <1>7, <2>1, <2>2, <3>1
  <2>4. ShownRight(c, x) /\ IsOver(c, x) /\ (Began(x) \in read[c] => HasBegun(c, x))
    BY <1>4, <1>9 DEF WatchInv, EventsTell, Published
  <2>5. (\A i \in DOMAIN graph[c][x] :
            \/ graph[c][x][i] \in {"open", "skipped"}
            \/ IsOver(c, x) /\ graph[c][x][i] = OutcomeOf(c, x))'
    <3>1. \A i \in DOMAIN graph[c][x] :
             graph[c][x][i] \in {"open", "skipped"} \/ graph[c][x][i] = OutcomeOf(c, x)
      BY <2>4 DEF ShownRight
    <3>2. \A i \in DOMAIN graph'[c][x] :
             graph'[c][x][i] \in {"open", "skipped"} \/ graph'[c][x][i] = OutcomeOf(c, x)
      BY <3>1, <2>1
    <3>3. IsOver(c, x)' /\ OutcomeOf(c, x)' = OutcomeOf(c, x)
      BY <1>5, <2>4
    <3>. QED
      BY <3>2, <3>3
  <2>6. (x \notin muddled[c] => graph[c][x] = Truth(c, x))'
    <3>. SUFFICES ASSUME x \notin muddled'[c] PROVE graph'[c][x] = Truth(c, x)'
      OBVIOUS
    <3>1. ~Muddles(c, x, event) /\ x \notin muddled[c] /\ graph'[c][x] = EndTruth(c, x)
      BY <1>3, <2>1
    <3>2. /\ Done(x) \in read'[c]
          /\ Began(x) \in read'[c] <=> Began(x) \in read[c]
      BY <1>2, <1>9, EventsDiffer
    <3>3. call[c][x] = "unfit" => Began(x) \notin read[c]
      BY <2>4 DEF HasBegun
    <3>4. call[c][x] \notin {"skipped", "unfit"} => Began(x) \in read[c]
      BY <3>1, <1>9, EventsDiffer DEF Muddles
    <3>5. CASE call[c][x] = "skipped"
      BY <3>1, <3>2, <3>5, <1>2 DEF Truth, EndTruth
    <3>6. CASE call[c][x] = "unfit"
      BY <3>1, <3>2, <3>3, <3>6, <1>2 DEF Truth, EndTruth
    <3>7. CASE call[c][x] \notin {"skipped", "unfit"}
      BY <3>1, <3>2, <3>4, <3>7, <1>2 DEF Truth, EndTruth, OutcomeOf
    <3>. QED
      BY <3>5, <3>6, <3>7
  <2>7. (<<x, "failed">> \in told[c] => IsOver(c, x) /\ OutcomeOf(c, x) = "failed")'
    <3>1. <<x, "failed">> \in told'[c] => <<x, "failed">> \in told[c] \/ OutcomeOf(c, x) = "failed"
      BY <2>1
    <3>2. <<x, "failed">> \in told'[c] => OutcomeOf(c, x) = "failed"
      BY <3>1, <2>4 DEF ShownRight
    <3>3. IsOver(c, x)' /\ OutcomeOf(c, x)' = OutcomeOf(c, x)
      BY <1>5, <2>4
    <3>. QED
      BY <3>2, <3>3
  <2>8. (<<x, "error">> \in told[c] => x \in muddled[c] \/ call[c][x] = "unfit")'
    <3>1. <<x, "error">> \in told'[c] =>
             <<x, "error">> \in told[c] \/ Muddles(c, x, event) \/ x \in muddled[c]
                \/ call[c][x] = "unfit"
      BY <2>1
    <3>. QED
      BY <3>1, <2>4, <1>2, <1>3 DEF ShownRight
  <2>9. (graph[c][x] # <<>> => graph[c][Root] # <<>>)'
    BY <2>1, <2>2
  <2>10. ShownRight(c, x)'
    BY <2>5, <2>6, <2>7, <2>8, <2>9 DEF ShownRight
  <2>. QED
    BY <1>1, <1>3, <2>1, <2>3, <2>10 DEF ShowsRight
<1>. QED
  BY <1>1, <1>8, <1>9

LEMMA TakingHead ==
  ASSUME NEW S, NEW s \in Seq(S), s # <<>>
  PROVE  /\ Tail(s) \in Seq(S)
         /\ 1 \in DOMAIN s /\ Head(s) = s[1] /\ Before(s, 1) = {}
         /\ Elements(s) = Elements(Tail(s)) \cup {Head(s)}
         /\ \A i \in DOMAIN Tail(s) :
               /\ i + 1 \in DOMAIN s /\ Tail(s)[i] = s[i + 1]
               /\ Before(s, i + 1) = Before(Tail(s), i) \cup {Head(s)}
<1>1. /\ Tail(s) \in Seq(S) /\ Len(Tail(s)) = Len(s) - 1 /\ Len(s) \in Nat \ {0}
      /\ \A i \in 1..Len(Tail(s)) : Tail(s)[i] = s[i + 1]
      /\ DOMAIN s = 1..Len(s) /\ DOMAIN Tail(s) = 1..(Len(s) - 1)
      /\ Head(s) = s[1]
  BY HeadTailProperties
<1>2. Before(s, 1) = {} /\ 1 \in DOMAIN s
  BY <1>1 DEF Before
<1>. DEFINE t == Tail(s)
<1>. HIDE DEF t
<1>3. Elements(s) = Elements(t) \cup {s[1]}
  <2>1. \A i \in DOMAIN t : s[i + 1] = t[i] /\ i + 1 \in DOMAIN s
    BY <1>1 DEF t
  <2>2. \A i \in DOMAIN s : i = 1 \/ (i - 1 \in DOMAIN t /\ t[i - 1] = s[i])
    BY <1>1 DEF t
  <2>. QED
    BY <2>1, <2>2, <1>2 DEF Elements
<1>4. ASSUME NEW i \in DOMAIN t
      PROVE  /\ i + 1 \in DOMAIN s /\ t[i] = s[i + 1]
             /\ Before(s, i + 1) = Before(t, i) \cup {s[1]}
  <2>1. i \in 1..(Len(s) - 1) /\ t[i] = s[i + 1] /\ i + 1 \in DOMAIN s
    BY <1>1, <1>4 DEF t
  <2>2. \A j \in 1..(i - 1) : j + 1 \in 1..i /\ t[j] = s[j + 1]
    BY <2>1, <1>1 DEF t
  <2>3. \A j \in 1..i : j = 1 \/ (j - 1 \in 1..(i - 1) /\ t[j - 1] = s[j])
    BY <2>1, <1>1 DEF t
  <2>4. i + 1 - 1 = i /\ 1 \in 1..i
    BY <2>1, <1>1
  <2>5. Before(s, i + 1) = {s[j] : j \in 1..i}
    BY <2>4 DEF Before
  <2>6. {s[j] : j \in 1..i} \subseteq Before(t, i) \cup {s[1]}
    BY <2>3 DEF Before
  <2>7. Before(t, i) \cup {s[1]} \subseteq {s[j] : j \in 1..i}
    BY <2>2, <2>4 DEF Before
  <2>. QED
    BY <2>1, <2>5, <2>6, <2>7
<1>. QED
  BY <1>1, <1>2, <1>3, <1>4 DEF t

\* Its first stored event is out of place for no run that meets none live.
LEMMA FirstFits ==
  ASSUME NEW c \in Runs, WatchInv(c), NEW event, Fits(event, call[c], read[c]),
         muddled[c] = {}, NEW x \in Tree
  PROVE  ~Muddles(c, x, event)
BY EventsDiffer DEF Fits, Muddles

LEMMA ReadStoredKeeps ==
  ASSUME OutputTypeOK, RunTypeOK, NEW c \in Runs, WatchInv(c), ReadStored(c)
  PROVE  WatchInv(c)'
<1>. DEFINE event == Head(replay[c])
<1>1. /\ EventsTell(c) /\ RootIsOp(c) /\ StreamsOnce(c) /\ StoredInOrder(c)
      /\ replay[c] # <<>> /\ replay[c] \in Seq(Events) /\ stream[c] # NoOne
      /\ Handle(c, event) /\ live' = live
      /\ replay' = [replay EXCEPT ![c] = Tail(@)]
  BY DEF WatchInv, ReadStored, StreamsOnce, OutputTypeOK
<1>2. /\ UNCHANGED <<call, op, stream, happened, late>>
      /\ read'[c] = read[c] \cup {event}
      /\ run'[c] \in {run[c], "ended"}
      /\ replay'[c] = Tail(replay[c])
  BY <1>1 DEF Handle, SeeEnd, End, vars, cliVars, opVars, OutputTypeOK, RunTypeOK
<1>3. /\ Elements(replay[c]) = Elements(Tail(replay[c])) \cup {event}
      /\ 1 \in DOMAIN replay[c] /\ event = replay[c][1] /\ Before(replay[c], 1) = {}
      /\ \A i \in DOMAIN Tail(replay[c]) :
            /\ i + 1 \in DOMAIN replay[c] /\ Tail(replay[c])[i] = replay[c][i + 1]
            /\ Before(replay[c], i + 1) = Before(Tail(replay[c]), i) \cup {event}
  BY <1>1, TakingHead
<1>4. event \in Published(c)
  BY <1>3 DEF Published
<1>5. ShowsRight(c)'
  BY <1>1, <1>4, HandlingShows
<1>6. \/ muddled'[c] = muddled[c]
      \/ \E x \in Tree : Muddles(c, x, event)
  BY <1>1, <1>4, HandlingShows
<1>. HIDE DEF event
<1>7. EventsTell(c)'
  <2>1. /\ Elements(replay[c])' = Elements(Tail(replay[c]))
        /\ Elements(happened[c])' = Elements(happened[c])
    BY <1>2 DEF Elements
  <2>2. Published(c)' = Published(c)
    BY <2>1, <1>1, <1>2, <1>3 DEF Published
  <2>. QED
    BY <2>2, <1>1, <1>2 DEF EventsTell, HasBegun, IsOver
<1>8. RootIsOp(c)' /\ StreamsOnce(c)'
  BY <1>1, <1>2 DEF RootIsOp, StreamsOnce
<1>9. StoredInOrder(c)'
  <2>. SUFFICES ASSUME c \notin late'
                PROVE  /\ live'[c] = {} /\ muddled'[c] = {}
                       /\ \A i \in DOMAIN Ahead(c)' :
                             Fits(Ahead(c)'[i], call'[c], read'[c] \cup Before(Ahead(c)', i))
    BY DEF StoredInOrder, Before
  <2>1. /\ live[c] = {} /\ muddled[c] = {}
        /\ \A i \in DOMAIN replay[c] :
              Fits(replay[c][i], call[c], read[c] \cup Before(replay[c], i))
    BY <1>1, <1>2 DEF StoredInOrder, Ahead
  <2>2. Fits(event, call[c], read[c])
    <3>1. Fits(event, call[c], read[c] \cup {})
      BY <2>1, <1>3
    <3>2. read[c] \cup {} = read[c]
      OBVIOUS
    <3>. QED
      BY <3>1, <3>2
  <2>3. muddled'[c] = {}
    BY <1>6, <2>1, <2>2, FirstFits
  <2>4. Ahead(c)' = Tail(replay[c])
    BY <1>1, <1>2 DEF Ahead
  <2>5. ASSUME NEW i \in DOMAIN Tail(replay[c])
        PROVE  Fits(Tail(replay[c])[i], call'[c], read'[c] \cup Before(Tail(replay[c]), i))
    <3>1. Fits(replay[c][i + 1], call[c], read[c] \cup Before(replay[c], i + 1))
      BY <2>1, <1>3
    <3>2. read[c] \cup Before(replay[c], i + 1) = read'[c] \cup Before(Tail(replay[c]), i)
      BY <1>2, <1>3
    <3>. QED
      BY <3>1, <3>2, <1>2, <1>3
  <2>. QED
    BY <1>1, <2>1, <2>3, <2>4, <2>5
<1>. QED
  BY <1>5, <1>7, <1>8, <1>9 DEF WatchInv

LEMMA ReadLiveKeeps ==
  ASSUME OutputTypeOK, RunTypeOK, NEW c \in Runs, WatchInv(c), ReadLive(c)
  PROVE  WatchInv(c)'
<1>1. PICK event \in live[c] : Handle(c, event) /\ live' = [live EXCEPT ![c] = @ \ {event}]
  BY DEF ReadLive
<1>2. /\ EventsTell(c) /\ RootIsOp(c) /\ StreamsOnce(c) /\ StoredInOrder(c)
      /\ stream[c] # NoOne /\ replay' = replay /\ c \in late
  BY <1>1 DEF WatchInv, ReadLive, StreamsOnce, StoredInOrder
<1>3. /\ UNCHANGED <<call, op, stream, happened, late>>
      /\ read'[c] = read[c] \cup {event} /\ live'[c] = live[c] \ {event}
      /\ run'[c] \in {run[c], "ended"}
  BY <1>1 DEF Handle, SeeEnd, End, vars, cliVars, opVars, OutputTypeOK, RunTypeOK
<1>4. event \in Published(c)
  BY <1>1 DEF Published
<1>5. ShowsRight(c)'
  BY <1>1, <1>4, HandlingShows
<1>6. EventsTell(c)'
  <2>1. Published(c)' = Published(c)
    BY <1>1, <1>2, <1>3 DEF Published, Elements
  <2>. QED
    BY <2>1, <1>2, <1>3 DEF EventsTell, HasBegun, IsOver
<1>7. RootIsOp(c)' /\ StreamsOnce(c)' /\ StoredInOrder(c)'
  BY <1>2, <1>3 DEF RootIsOp, StreamsOnce, StoredInOrder
<1>. QED
  BY <1>5, <1>6, <1>7 DEF WatchInv

-----------------------------------------------------------------------------
(* All steps together *)

LEMMA InitOutput == ASSUME OutputInit PROVE OutputInv
<1>. USE DEF OutputInit, Init
<1>1. OutputTypeOK
  <2>1. <<>> \in Seq(Events) /\ <<>> \in Seq(Labels)
    OBVIOUS
  <2>2. /\ happened \in [Runs -> Seq(Events)] /\ replay \in [Runs -> Seq(Events)]
        /\ graph \in [Runs -> [Tree -> Seq(Labels)]]
    BY <2>1
  <2>3. /\ live \in [Runs -> SUBSET Events] /\ read \in [Runs -> SUBSET Events]
        /\ told \in [Runs -> SUBSET (Tree \X {"failed", "error"})]
        /\ muddled \in [Runs -> SUBSET Tree] /\ late \subseteq Runs
    OBVIOUS
  <2>4. call \in [Runs -> [Tree -> CallStates]]
    BY DEF CallStates
  <2>. QED
    BY <2>2, <2>3, <2>4 DEF OutputTypeOK
<1>2. ASSUME NEW c \in Runs PROVE WatchInv(c)
  <2>1. /\ happened[c] = <<>> /\ replay[c] = <<>> /\ live[c] = {} /\ read[c] = {}
        /\ told[c] = {} /\ muddled[c] = {} /\ op[c] = "none" /\ stream[c] = NoOne
        /\ \A x \in Tree : call[c][x] = "idle" /\ graph[c][x] = <<>>
        /\ Root \in Tree
    BY RootAndParents
  <2>. HIDE DEF OutputInit, Init
  <2>2. Published(c) = {} /\ Ahead(c) = <<>>
    BY <2>1 DEF Published, Elements, Ahead
  <2>3. EventsTell(c)
    BY <2>1, <2>2 DEF EventsTell, HasBegun
  <2>4. RootIsOp(c) /\ StreamsOnce(c) /\ StoredInOrder(c)
    BY <2>1, <2>2 DEF RootIsOp, StreamsOnce, StoredInOrder
  <2>5. ShowsRight(c)
    BY <2>1 DEF ShowsRight, ShownRight, Truth
  <2>. QED
    BY <2>3, <2>4, <2>5 DEF WatchInv
<1>. QED
  BY <1>1, <1>2 DEF OutputInv

\* Steps that have nothing to do with events: no more becomes of an op than to be
\* called.
LEMMA SilentKeeps ==
  ASSUME RunTypeOK, ShownIsOver, UNCHANGED outVars, UNCHANGED stream,
         \A c \in Runs : /\ op'[c] = op[c] \/ (op[c] = "none" /\ op'[c] = "called")
                         /\ run'[c] \in {"probing", "waiting", "given", "started"} =>
                               run[c] \in {"probing", "waiting", "given", "started"},
         OutputInv
  PROVE  OutputInv'
<1>1. OutputTypeOK'
  BY DEF OutputInv, OutputTypeOK, outVars
<1>2. ASSUME NEW c \in Runs PROVE WatchInv(c)'
  <2>1. WatchInv(c) /\ RootIsOp(c) /\ StreamsOnce(c)
    BY DEF OutputInv, WatchInv
  <2>2. /\ UNCHANGED <<stream[c], happened[c], replay[c], live[c], read[c], graph[c],
                       told[c], muddled[c], call[c]>>
        /\ c \in late' <=> c \in late
    BY DEF outVars
  <2>3. ASSUME NEW x \in Tree
        PROVE  /\ IsOver(c, x) => /\ IsOver(c, x)' /\ call'[c][x] = call[c][x]
                                  /\ OutcomeOf(c, x)' = OutcomeOf(c, x)
               /\ call[c][x] = "unfit" => call'[c][x] = "unfit"
               /\ HasBegun(c, x)' <=> HasBegun(c, x)
    BY <2>2 DEF IsOver, OutcomeOf, HasBegun, Outcomes
  <2>4. RootIsOp(c)' /\ StreamsOnce(c)'
    BY <2>1, <2>2 DEF RootIsOp, StreamsOnce
  <2>. QED
    BY <2>1, <2>2, <2>3, <2>4, Untold
<1>. QED
  BY <1>1, <1>2 DEF OutputInv

\* A run's step leaves the events of the others alone.
LEMMA OthersWatch ==
  ASSUME OutputInv, NEW c \in Runs, OutputTypeOK', WatchInv(c)',
         \A d \in Runs \ {c} :
            /\ UNCHANGED <<stream[d], happened[d], replay[d], live[d], read[d], graph[d],
                           told[d], muddled[d], call[d], op[d], run[d]>>
            /\ d \in late' <=> d \in late
  PROVE  OutputInv'
<1>1. ASSUME NEW d \in Runs \ {c} PROVE WatchInv(d)'
  <2>1. WatchInv(d)
    BY DEF OutputInv
  <2>. QED
    BY <2>1, NothingMoves
<1>. QED
  BY <1>1 DEF OutputInv

LEMMA MovesKeep ==
  ASSUME OutputInv, RunTypeOK, NEW c \in Runs, NEW x \in Tree, NEW event \in Events,
         NEW state \in CallStates, Become(c, x, state) \/ UNCHANGED call,
         Publish(c, event) \/ UNCHANGED <<happened, live, late>>,
         UNCHANGED <<stream, replay, read, graph, told, muddled, run>>,
         \A d \in Runs \ {c} : op'[d] = op[d],
         WatchInv(c)'
  PROVE  OutputInv'
<1>1. OutputTypeOK /\ StreamsOnce(c)
  BY DEF OutputInv, WatchInv
<1>2. /\ call' \in [Runs -> [Tree -> CallStates]]
      /\ \A d \in Runs \ {c} : call'[d] = call[d]
  BY <1>1, Becoming DEF OutputTypeOK
<1>3. /\ happened' \in [Runs -> Seq(Events)]
      /\ live' \in [Runs -> SUBSET Events]
      /\ late' \subseteq Runs
      /\ \A d \in Runs \ {c} : /\ happened'[d] = happened[d] /\ live'[d] = live[d]
                               /\ d \in late' <=> d \in late
  <2>1. CASE Publish(c, event)
    BY <1>1, <2>1, Publishing
  <2>2. CASE UNCHANGED <<happened, live, late>>
    BY <1>1, <2>2 DEF OutputTypeOK
  <2>. QED
    BY <2>1, <2>2
<1>4. OutputTypeOK'
  BY <1>1, <1>2, <1>3 DEF OutputTypeOK
<1>. QED
  BY <1>2, <1>3, <1>4, OthersWatch

LEMMA ReadKeeps ==
  ASSUME OutputInv, RunTypeOK, NEW c \in Runs, ReadStored(c) \/ ReadLive(c)
  PROVE  OutputInv'
<1>1. OutputTypeOK /\ WatchInv(c)
  BY DEF OutputInv
<1>2. PICK event \in Published(c) : Handle(c, event)
  <2>1. CASE ReadStored(c)
    <3>1. replay[c] \in Seq(Events) /\ replay[c] # <<>>
      BY <1>1, <2>1 DEF ReadStored, OutputTypeOK
    <3>2. Head(replay[c]) \in Elements(replay[c])
      BY <3>1, TakingHead DEF Elements
    <3>. QED
      BY <2>1, <3>2 DEF ReadStored, Published
  <2>2. CASE ReadLive(c)
    BY <2>2 DEF ReadLive, Published
  <2>. QED
    BY <2>1, <2>2
<1>3. WatchInv(c)'
  BY <1>1, ReadStoredKeeps, ReadLiveKeeps
<1>4. /\ graph' \in [Runs -> [Tree -> Seq(Labels)]]
      /\ told' \in [Runs -> SUBSET (Tree \X {"failed", "error"})]
      /\ muddled' \in [Runs -> SUBSET Tree]
      /\ \A d \in Runs \ {c} : /\ graph'[d] = graph[d] /\ told'[d] = told[d]
                               /\ muddled'[d] = muddled[d]
  BY <1>1, <1>2, HandlingShows
<1>5. /\ UNCHANGED <<call, op, stream, happened, late>>
      /\ read' = [read EXCEPT ![c] = @ \cup {event}]
      /\ \A d \in Runs \ {c} : run'[d] = run[d]
  BY <1>2 DEF Handle, SeeEnd, End, vars, cliVars, opVars, RunTypeOK
<1>6. event \in Events
  BY <1>1 DEF Published, Elements, OutputTypeOK
<1>7. read' \in [Runs -> SUBSET Events] /\ \A d \in Runs \ {c} : read'[d] = read[d]
  <2>1. read \in [Runs -> SUBSET Events] /\ read[c] \cup {event} \in SUBSET Events
    BY <1>1, <1>6 DEF OutputTypeOK
  <2>. QED
    BY <2>1, <1>5
<1>8. /\ replay' \in [Runs -> Seq(Events)] /\ live' \in [Runs -> SUBSET Events]
      /\ \A d \in Runs \ {c} : replay'[d] = replay[d] /\ live'[d] = live[d]
  <2>1. CASE ReadStored(c)
    <3>1. replay[c] \in Seq(Events) /\ replay[c] # <<>> /\ replay \in [Runs -> Seq(Events)]
      BY <1>1, <2>1 DEF ReadStored, OutputTypeOK
    <3>2. Tail(replay[c]) \in Seq(Events)
      BY <3>1, TakingHead
    <3>. QED
      BY <2>1, <3>1, <3>2, <1>1 DEF ReadStored, OutputTypeOK
  <2>2. CASE ReadLive(c)
    <3>1. PICK e : live' = [live EXCEPT ![c] = @ \ {e}] /\ replay' = replay
      BY <2>2 DEF ReadLive
    <3>. QED
      BY <3>1, <1>1 DEF OutputTypeOK
  <2>. QED
    BY <2>1, <2>2
<1>9. OutputTypeOK'
  BY <1>1, <1>4, <1>5, <1>7, <1>8 DEF OutputTypeOK
<1>. QED
  BY <1>3, <1>4, <1>5, <1>7, <1>8, <1>9, OthersWatch

LEMMA StepOutput ==
  ASSUME OutputInv, RunTypeOK, ShownIsOver, [OutputNext]_allVars PROVE OutputInv'
<1>0. OutputTypeOK /\ \A c \in Runs : WatchInv(c)
  BY DEF OutputInv
<1>1. ASSUME NEW c \in Runs,
             \/ Probe(c) \/ HasNode(c) \/ HasNoNode(c) \/ StreamCloses(c) \/ StartOp(c)
             \/ SeeEnd(c) \/ Interrupt(c) \/ Terminate(c) \/ Abort(c) \/ GiveUp(c),
             UNCHANGED outVars
      PROVE  OutputInv'
  <2>1. /\ UNCHANGED stream
        /\ \A d \in Runs : /\ op'[d] = op[d] \/ (op[d] = "none" /\ op'[d] = "called")
                           /\ run'[d] \in {"probing", "waiting", "given", "started"} =>
                                 run[d] \in {"probing", "waiting", "given", "started"}
    <3>1. CASE Probe(c) \/ HasNode(c) \/ HasNoNode(c)
      BY <3>1 DEF Probe, HasNode, HasNoNode, GoOn, End, RunTypeOK, opVars
    <3>2. CASE StartOp(c)
      BY <3>2 DEF StartOp, GoOn, End, RunTypeOK, ShownIsOver
    <3>3. CASE StreamCloses(c) \/ SeeEnd(c) \/ Abort(c) \/ GiveUp(c)
      BY <3>3 DEF StreamCloses, SeeEnd, Abort, GiveUp, End, RunTypeOK, opVars
    <3>4. CASE Interrupt(c) \/ Terminate(c)
      BY <3>4 DEF Interrupt, Terminate, End, RunTypeOK, cliVars
    <3>. QED
      BY <1>1, <3>1, <3>2, <3>3, <3>4
  <2>. QED
    BY <1>1, <2>1, SilentKeeps
<1>2. ASSUME NEW c \in Runs, FollowCalls(c) PROVE OutputInv'
  <2>1. /\ WatchInv(c)'
        /\ replay' \in [Runs -> Seq(Events)] /\ happened' \in [Runs -> Seq(Events)]
        /\ live' \in [Runs -> SUBSET Events] /\ late' \subseteq Runs
        /\ \A d \in Runs \ {c} : /\ happened'[d] = happened[d] /\ live'[d] = live[d]
                                 /\ replay'[d] = replay[d] /\ (d \in late' <=> d \in late)
    BY <1>0, <1>2, FollowKeeps
  <2>2. /\ UNCHANGED <<call, op, read, graph, told, muddled>>
        /\ \A d \in Runs \ {c} : stream'[d] = stream[d] /\ run'[d] = run[d]
    BY <1>2 DEF FollowCalls, Follow, GoOn, End, RunTypeOK
  <2>3. OutputTypeOK'
    BY <1>0, <2>1, <2>2 DEF OutputTypeOK
  <2>. QED
    BY <2>1, <2>2, <2>3, OthersWatch
<1>3. ASSUME NEW c \in Runs, RootStarts(c) PROVE OutputInv'
  <2>1. WatchInv(c)'
    BY <1>0, <1>3, RootStartKeeps
  <2>2. /\ UNCHANGED <<stream, replay, read, graph, told, muddled, run>>
        /\ \A d \in Runs \ {c} : op'[d] = op[d]
        /\ Root \in Tree /\ Began(Root) \in Events
    BY <1>3, RootAndParents, EventsDiffer DEF RootStarts, EnterCall, cliVars, RunTypeOK
  <2>3. CASE Become(c, Root, "started") /\ Publish(c, Began(Root))
    BY <2>1, <2>2, <2>3, MovesKeep DEF CallStates
  <2>4. CASE Become(c, Root, "unfit") /\ UNCHANGED <<happened, live, late>>
    BY <2>1, <2>2, <2>4, MovesKeep DEF CallStates
  <2>. QED
    BY <1>3, <2>3, <2>4 DEF RootStarts
<1>4. ASSUME NEW c \in Runs, NEW outcome \in Outcomes, RootEnds(c, outcome) PROVE OutputInv'
  <2>1. WatchInv(c)'
    BY <1>0, <1>4, RootEndKeeps
  <2>2. /\ UNCHANGED <<call, stream, replay, read, graph, told, muddled, run>>
        /\ \A d \in Runs \ {c} : op'[d] = op[d]
        /\ Root \in Tree /\ Done(Root) \in Events
        /\ Publish(c, Done(Root)) \/ UNCHANGED <<happened, live, late>>
    BY <1>4, RootAndParents, EventsDiffer DEF RootEnds, OpEnds, cliVars, RunTypeOK
  <2>. QED
    BY <2>1, <2>2, MovesKeep DEF CallStates
<1>5. ASSUME NEW c \in Runs, NEW x \in Subcalls, CallStep(c, x) PROVE OutputInv'
  <2>1. WatchInv(c)'
    BY <1>0, <1>5, CallStepMoves
  <2>2. PICK event \in Events, state \in CallStates : CallMoves(c, x, event, state)
    BY <1>0, <1>5, CallStepMoves
  <2>3. /\ UNCHANGED <<stream, replay, read, graph, told, muddled, run, op>>
        /\ Become(c, x, state) /\ Publish(c, event) /\ x \in Tree
    BY <2>2, RootAndParents DEF CallMoves, vars, cliVars, opVars
  <2>. QED
    BY <2>1, <2>3, MovesKeep
<1>6. ASSUME UNCHANGED outVars,
             \/ NodeStep \/ Outside
             \/ \E c \in Runs : Attempt(c)
             \/ UNCHANGED vars
      PROVE  OutputInv'
  <2>1. UNCHANGED <<stream, op, run>>
    BY <1>6 DEF NodeStep, Outside, Attempt, vars, cliVars, opVars
  <2>. QED
    BY <2>1, <1>6, SilentKeeps
<1>7. CASE UNCHANGED allVars
  BY <1>6, <1>7 DEF allVars
<1>8. ASSUME OutputNext PROVE OutputInv'
  <2>1. ASSUME NEW c \in Runs, RunStepOn(c) PROVE OutputInv'
    <3>1. CASE ReadStored(c) \/ ReadLive(c)
      BY <3>1, ReadKeeps
    <3>. QED
      BY <2>1, <3>1, <1>1, <1>2, <1>3, <1>4 DEF RunStepOn, Outcomes
  <2>2. ASSUME NEW c \in Runs, UserStep(c) \/ RootEnds(c, "finished") PROVE OutputInv'
    BY <2>2, <1>1, <1>4 DEF UserStep, Outcomes
  <2>3. ASSUME NEW c \in Runs, ParamStep(c), UNCHANGED outVars PROVE OutputInv'
    BY <2>3, <1>1, <1>6 DEF ParamStep
  <2>. QED
    BY <1>8, <2>1, <2>2, <2>3, <1>5, <1>6 DEF OutputNext
<1>. QED
  BY <1>7, <1>8

LEMMA OutputInvariant == OutputSpec => []OutputInv
<1>1. OutputInit => OutputInv
  BY InitOutput
<1>2. OutputInv /\ RunTypeOK /\ ShownIsOver /\ [OutputNext]_allVars => OutputInv'
  BY StepOutput
<1>. QED
  BY <1>1, <1>2, OutputRunTypes, PTL DEF OutputSpec

\* Whatever calls an op makes, and whichever of their events are read from the store,
\* come live, twice, late and out of order: a run shows each call once and as those
\* events have it, but where the property says (cli/internal/opgraph/callgraph.go).
THEOREM GraphIsAlwaysTrue == OutputSpec => []GraphIsTrue
<1>1. ASSUME OutputInv, NEW c \in Runs
      PROVE  /\ muddled[c] # {} => c \in late
             /\ \A x \in Tree :
                   /\ x \notin muddled[c] => graph[c][x] = Truth(c, x)
                   /\ \A i \in DOMAIN graph[c][x] :
                         graph[c][x][i] \in {"open", "skipped", OutcomeOf(c, x)}
                   /\ <<x, "failed">> \in told[c] => OutcomeOf(c, x) = "failed"
                   /\ <<x, "error">> \in told[c] => x \in muddled[c] \/ call[c][x] = "unfit"
  BY <1>1 DEF OutputInv, WatchInv, StoredInOrder, ShowsRight, ShownRight
<1>2. OutputInv => GraphIsTrue
  BY <1>1 DEF GraphIsTrue
<1>. QED
  BY <1>2, OutputInvariant, PTL

\* Every variable of a run's output keeps its type.
THEOREM OutputTypes == OutputSpec => []OutputTypeOK
<1>1. OutputInv => OutputTypeOK
  BY DEF OutputInv
<1>. QED
  BY <1>1, OutputInvariant, PTL
=============================================================================
