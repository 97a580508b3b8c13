------------------------ MODULE ContainerCallProofs ------------------------
(***************************************************************************)
(* For any calls, with any of the runtimes, whatever is swept, refused,      *)
(* cancelled, cleaned up or deleted from the command line: a container call  *)
(* that succeeds has earned it, one that fails has a reason to, an output is *)
(* whole, and the commands keep their word.  A container's exit code is set  *)
(* once and then told along a chain, from the pod by its watch or from the   *)
(* container by docker to RunContainer's result and the call's: the           *)
(* invariants below say what each link knows of the one before it.           *)
(***************************************************************************)
EXTENDS DockerCalls, TLAPS

InPod == {"cleared", "created", "watching", "copying", "copyingLast"}
InVM == {"starting", "waiting", "inVM"}
InDocker == {"attaching", "replacing", "networked", "boxed", "inBox", "cleaning", "removing",
             "dead"}
Boxed == {"boxed", "inBox", "cleaning", "removing", "over", "dead"}
Removing == {"removing", "none"}

Tells(seq, phase) == \E i \in DOMAIN seq : seq[i] = phase

\* A watch will tell that the pod runs before it tells of its end.
Ahead(seq) ==
    \E i \in DOMAIN seq : /\ seq[i] = "Running"
                          /\ \A j \in DOMAIN seq : j < i => seq[j] \notin Terminated

\* A call is where its runtime takes it, and has what it has made there.
Placed(c) ==
    /\ (at[c] \in InPod \/ pods[c] # "none") => runtime = "k8s"
    /\ at[c] \in InVM => runtime = "embedded"
    /\ at[c] = "starting" => leader = c
    /\ (at[c] \in InDocker \/ box[c] # "none") => runtime = "docker"
    /\ pods[c] # "none" => at[c] \notin {"idle", "called", "cleared"}
    /\ at[c] \in InPod \ {"cleared"} => pods[c] # "none"
    /\ box[c] # "none" => at[c] \in Boxed
    /\ ran[c] # "none" => at[c] \in {"ran", "cleaning", "removing", "over", "dead"}
    /\ at[c] \in {"ran", "cleaning", "removing", "over"} => ran[c] # "none"
    /\ result[c] # "none" => at[c] = "over"

\* What the exit code of a pod is, and the watch that tells it.
PodTold(c) ==
    /\ (pods[c] = "Succeeded" \/ Tells(events[c], "Succeeded"))
          => exit[c] = "zero" /\ pods[c] \in {"Succeeded", "gone"}
    /\ (pods[c] = "Failed" \/ at[c] = "copyingLast" \/ Tells(events[c], "Failed"))
          => exit[c] = "nonzero" /\ pods[c] \in {"Failed", "gone"}
    /\ (pods[c] = "gone" /\ at[c] \notin {"ran", "over"}) => c \in troubled
    /\ logs[c] = "part" => c \in troubled

\* What a pod that was watched as it ran wrote is not copied yet only as long as its
\* watch has yet to tell that it runs.
Owed(c) ==
    logs[c] = "due" =>
        \/ c \in troubled
        \/ at[c] = "copying"
        \/ at[c] = "watching" /\ Ahead(events[c])
        \/ ran[c] \in {"error", "watchEnded"}

\* A container that was waited for has an exit code once it runs no more.
BoxTold(c) ==
    /\ (at[c] = "inBox" /\ box[c] # "running") => exit[c] # "none"
    /\ (at[c] = "inBox" /\ box[c] \in Removing) => c \in troubled
    /\ (at[c] = "boxed" /\ box[c] # "created") => c \in troubled

\* What RunContainer returned, which no later exit code belies, and the call.
RanTold(c) ==
    /\ ran[c] \in {"zero", "nonzero"} =>
          exit[c] = ran[c] /\ pods[c] \notin {"Pending", "Running"} /\ box[c] # "running"
    /\ ran[c] \in {"error", "waitErred"} => c \in troubled \cup cancelled
    /\ ran[c] = "gaveUp" => c \in cancelled
    /\ result[c] = "ok" => ran[c] \in {"zero", "watchEnded", "waitErred", "gaveUp"}
    /\ result[c] = "err" => ran[c] \in {"nonzero", "error"}

CallInv(c) == Placed(c) /\ PodTold(c) /\ Owed(c) /\ BoxTold(c) /\ RanTold(c)

CallsInv == DockerTypeOK /\ \A c \in Calls : CallInv(c)

NodeWide == command \in {"node kill", "node delete"}

\* A command goes for containers it has listed, which were there and which only
\* the calls that made them may have started since.
Kept(c) ==
    /\ listed[c] # "none" => at[c] \in Boxed
    /\ listed[c] \in {"exited", "removing"} => box[c] \in {"exited", "removing", "none"}
    /\ todo[c] # "nothing" \/ c \in cut =>
          /\ listed[c] # "none"
          /\ command = "down" => listed[c] = "running"
          /\ command = "prune" => listed[c] \in {"created", "exited", "removing"}
    /\ (c \in cut /\ command = "prune") => listed[c] = "created"
    /\ (NodeWide /\ step \in {"deleting", "ok"} /\ todo[c] = "nothing" /\ listed[c] # "none")
          => box[c] = "none"
    /\ step \in {"given", "listing"} => c \notin cut
    /\ step = "ok" => todo[c] \in {"nothing", "taken"}

Commanded ==
    /\ (command # "none" \/ leaving) => runtime = "docker"
    /\ (leaving \/ step = "listing") => NodeWide

CommandInv ==
    /\ Commanded
    /\ \A c \in Calls : Kept(c)

DockerInv == CallsInv /\ CommandInv

-----------------------------------------------------------------------------

LEMMA TellsAppend ==
  ASSUME NEW S, NEW seq \in Seq(S), NEW e \in S, NEW phase
  PROVE  /\ Append(seq, e) \in Seq(S)
         /\ Tells(Append(seq, e), phase) => Tells(seq, phase) \/ e = phase
BY DEF Tells

LEMMA TellsTail ==
  ASSUME NEW S, NEW seq \in Seq(S), seq # <<>>, NEW phase
  PROVE  /\ Tail(seq) \in Seq(S) /\ Head(seq) \in S
         /\ Tells(Tail(seq), phase) => Tells(seq, phase)
         /\ Head(seq) = phase => Tells(seq, phase)
<1>1. Tail(seq) \in Seq(S) /\ Head(seq) \in S /\ Len(seq) \in Nat /\ Len(seq) > 0
  OBVIOUS
<1>2. ASSUME NEW i \in DOMAIN Tail(seq), Tail(seq)[i] = phase PROVE Tells(seq, phase)
  <2>1. i + 1 \in DOMAIN seq /\ seq[i + 1] = phase
    BY <1>1, <1>2
  <2>. QED
    BY <2>1 DEF Tells
<1>3. Head(seq) = phase => Tells(seq, phase)
  BY <1>1 DEF Tells
<1>. QED
  BY <1>1, <1>2, <1>3 DEF Tells

LEMMA TellsOne ==
  ASSUME NEW e, NEW phase
  PROVE  /\ Tells(<<e>>, phase) => e = phase
         /\ ~Tells(<<>>, phase)
BY DEF Tells

\* What a change of pods does to what their watches tell.
LEMMA ChangeTells ==
  ASSUME DockerTypeOK, NEW phase \in InCluster \cup {"gone"}, NEW STATE cs, Change(phase, cs),
         phase = "gone" => \A c \in Calls : c \in cs => pods[c] \in InCluster
  PROVE  /\ pods' \in [Calls -> InCluster \cup {"none", "gone"}]
         /\ events' \in [Calls -> Seq(InCluster \cup {"closed"})]
         /\ \A c \in Calls, p \in {"Succeeded", "Failed"} :
               Tells(events'[c], p) =>
                  \/ Tells(events[c], p)
                  \/ c \in cs /\ p = (IF phase = "gone" THEN pods[c] ELSE phase)
<1>. USE DEF DockerTypeOK, TypeOK
<1>1. ASSUME NEW c \in Calls
      PROVE  /\ events'[c] \in Seq(InCluster \cup {"closed"})
             /\ \A p \in {"Succeeded", "Failed"} : Tells(events'[c], p) =>
                   \/ Tells(events[c], p)
                   \/ c \in cs /\ p = (IF phase = "gone" THEN pods[c] ELSE phase)
  <2>. DEFINE e == IF phase = "gone" THEN pods[c] ELSE phase
  <2>1. CASE c \in cs /\ IsOpen(c)
    <3>1. e \in InCluster \cup {"closed"} /\ events'[c] = Append(events[c], e)
      BY <2>1 DEF Change
    <3>. HIDE DEF e
    <3>2. events[c] \in Seq(InCluster \cup {"closed"})
      OBVIOUS
    <3>3. Append(events[c], e) \in Seq(InCluster \cup {"closed"})
      BY <3>1, <3>2, TellsAppend
    <3>4. ASSUME NEW p, Tells(Append(events[c], e), p) PROVE Tells(events[c], p) \/ e = p
      BY <3>1, <3>2, <3>4, SMT DEF Tells
    <3>. QED
      BY <2>1, <3>1, <3>3, <3>4 DEF e
  <2>2. CASE ~(c \in cs /\ IsOpen(c))
    BY <2>2 DEF Change
  <2>. QED
    BY <2>1, <2>2
<1>. QED
  BY <1>1 DEF Change

LEMMA GoneTells ==
  ASSUME DockerTypeOK, NEW STATE cs, Change("gone", cs),
         \A c \in Calls : c \in cs => pods[c] \in InCluster
  PROVE  \A c \in Calls, p \in {"Succeeded", "Failed"} :
            Tells(events'[c], p) => Tells(events[c], p) \/ (c \in cs /\ p = pods[c])
<1>1. PICK phase \in {"gone"} : TRUE
  OBVIOUS
<1>2. Change(phase, cs) /\ phase \in InCluster \cup {"gone"}
  BY <1>1
<1>3. \A c \in Calls, p \in {"Succeeded", "Failed"} :
         Tells(events'[c], p) =>
            \/ Tells(events[c], p)
            \/ c \in cs /\ p = (IF phase = "gone" THEN pods[c] ELSE phase)
  BY <1>2, ChangeTells
<1>. QED
  BY <1>1, <1>3

LEMMA AheadAppend ==
  ASSUME NEW S, NEW seq \in Seq(S), NEW e \in S
  PROVE  /\ Ahead(seq) => Ahead(Append(seq, e))
         /\ (e = "Running" /\ \A j \in DOMAIN seq : seq[j] \notin Terminated)
               => Ahead(Append(seq, e))
<1>1. /\ Append(seq, e) \in Seq(S) /\ Len(Append(seq, e)) = Len(seq) + 1 /\ Len(seq) \in Nat
      /\ DOMAIN seq = 1 .. Len(seq) /\ DOMAIN Append(seq, e) = 1 .. (Len(seq) + 1)
      /\ \A i \in 1 .. Len(seq) : Append(seq, e)[i] = seq[i]
      /\ Append(seq, e)[Len(seq) + 1] = e
  OBVIOUS
<1>. DEFINE longer == Append(seq, e)
<1>. HIDE DEF longer
<1>2. ASSUME Ahead(seq) PROVE Ahead(longer)
  <2>1. PICK i \in DOMAIN seq :
           seq[i] = "Running" /\ \A j \in DOMAIN seq : j < i => seq[j] \notin Terminated
    BY <1>2 DEF Ahead
  <2>2. i \in DOMAIN longer /\ longer[i] = "Running"
    BY <1>1, <2>1 DEF longer
  <2>3. ASSUME NEW j \in DOMAIN longer, j < i PROVE longer[j] \notin Terminated
    <3>1. j \in DOMAIN seq /\ longer[j] = seq[j]
      BY <1>1, <2>3 DEF longer
    <3>. QED
      BY <2>1, <2>3, <3>1
  <2>. QED
    BY <2>2, <2>3 DEF Ahead
<1>3. ASSUME e = "Running", \A j \in DOMAIN seq : seq[j] \notin Terminated PROVE Ahead(longer)
  <2>1. Len(seq) + 1 \in DOMAIN longer /\ longer[Len(seq) + 1] = "Running"
    BY <1>1, <1>3 DEF longer
  <2>2. ASSUME NEW j \in DOMAIN longer, j < Len(seq) + 1 PROVE longer[j] \notin Terminated
    <3>1. j \in DOMAIN seq /\ longer[j] = seq[j]
      BY <1>1, <2>2 DEF longer
    <3>. QED
      BY <1>3, <3>1
  <2>. QED
    BY <2>1, <2>2 DEF Ahead
<1>. QED
  BY <1>2, <1>3 DEF longer

LEMMA AheadTail ==
  ASSUME NEW S, NEW seq \in Seq(S), seq # <<>>, Ahead(seq)
  PROVE  /\ Head(seq) \notin Terminated
         /\ Head(seq) # "Running" => Ahead(Tail(seq))
<1>1. /\ Len(seq) \in Nat /\ Len(seq) > 0 /\ DOMAIN seq = 1 .. Len(seq) /\ Head(seq) = seq[1]
      /\ DOMAIN Tail(seq) = 1 .. (Len(seq) - 1)
      /\ \A j \in 1 .. (Len(seq) - 1) : Tail(seq)[j] = seq[j + 1]
  OBVIOUS
<1>2. PICK i \in DOMAIN seq :
         seq[i] = "Running" /\ \A j \in DOMAIN seq : j < i => seq[j] \notin Terminated
  BY DEF Ahead
<1>3. Head(seq) \notin Terminated
  BY <1>1, <1>2 DEF Terminated
<1>. DEFINE rest == Tail(seq)
<1>. HIDE DEF rest
<1>4. ASSUME Head(seq) # "Running" PROVE Ahead(rest)
  <2>1. i - 1 \in DOMAIN rest /\ rest[i - 1] = "Running"
    BY <1>1, <1>2, <1>4 DEF rest
  <2>2. ASSUME NEW j \in DOMAIN rest, j < i - 1 PROVE rest[j] \notin Terminated
    <3>1. j + 1 \in DOMAIN seq /\ j + 1 < i /\ rest[j] = seq[j + 1]
      BY <1>1, <1>2, <2>2 DEF rest
    <3>. QED
      BY <1>2, <3>1
  <2>. QED
    BY <2>1, <2>2 DEF Ahead
<1>. QED
  BY <1>3, <1>4 DEF rest

\* A change of pods takes back nothing of what their watches will tell.
LEMMA ChangeKeepsAhead ==
  ASSUME DockerTypeOK, NEW phase \in InCluster \cup {"gone"}, NEW STATE cs, Change(phase, cs),
         NEW d \in Calls
  PROVE  /\ Ahead(events[d]) => Ahead(events'[d])
         /\ (phase = "Running" /\ d \in cs /\ IsOpen(d)
               /\ ~Tells(events[d], "Succeeded") /\ ~Tells(events[d], "Failed"))
               => Ahead(events'[d])
<1>. DEFINE S == InCluster \cup {"closed", "none", "gone"}
            e == IF phase = "gone" THEN pods[d] ELSE phase
<1>1. events[d] \in Seq(S) /\ e \in S
  BY DEF DockerTypeOK, TypeOK
<1>2. events'[d] = IF d \in cs /\ IsOpen(d) THEN Append(events[d], e) ELSE events[d]
  BY DEF Change
<1>3. (~Tells(events[d], "Succeeded") /\ ~Tells(events[d], "Failed"))
        => \A j \in DOMAIN events[d] : events[d][j] \notin Terminated
  BY DEF Tells, Terminated
<1>4. phase = "Running" => e = "Running"
  OBVIOUS
<1>. HIDE DEF S, e
<1>. QED
  BY <1>1, <1>2, <1>3, <1>4, AheadAppend


-----------------------------------------------------------------------------
(* Types, in parts *)

Places == {"idle", "called", "cleared", "created", "watching", "copying",
           "copyingLast", "starting", "waiting", "inVM", "ran", "over",
           "attaching", "replacing", "networked", "boxed", "inBox", "cleaning",
           "removing", "dead"}
Phases == InCluster \cup {"none", "gone"}
Told == InCluster \cup {"closed"}

CallerTypes ==
    /\ runtime \in Runtimes /\ at \in [Calls -> Places]
    /\ open \in [Calls -> SUBSET Streams] /\ reading \in [Calls -> SUBSET Streams]
    /\ \A c \in Calls : open[c] \subseteq reading[c]
    /\ ran \in [Calls -> {"none", "zero", "nonzero", "error", "watchEnded", "waitErred",
                         "gaveUp"}]
    /\ result \in [Calls -> {"none", "ok", "err"}]

SetTypes == cancelled \subseteq Calls /\ troubled \subseteq Calls

PodTypes ==
    /\ pods \in [Calls -> Phases] /\ events \in [Calls -> Seq(Told)]
    /\ logs \in [Calls -> {"none", "due", "part", "whole", "twice"}]
    /\ exit \in [Calls -> {"none", "zero", "nonzero"}]

VMTypes ==
    /\ vm \in {"none", "stopped", "running"}
    /\ leader # Nobody => leader \in Calls /\ at[leader] = "starting"
    /\ \A c \in Calls : at[c] \in {"starting", "waiting"} => leader # Nobody

EngineTypes ==
    /\ platform \in {"linux", "darwin"} /\ box \in [Calls -> States]
    /\ net \in {"none", "bridged", "routed"}

CommandTypes ==
    /\ command \in Commands \cup {"none"}
    /\ step \in {"given", "listing", "deleting", "ok", "failed"}
    /\ listed \in [Calls -> States]
    /\ todo \in [Calls -> {"nothing", "stop", "remove", "await", "taken"}]
    /\ cut \subseteq Calls /\ leaving \in BOOLEAN

TunnelTypes ==
    /\ ups \subseteq Calls /\ probes \subseteq Calls /\ unhealed \subseteq Calls
    /\ holder \in Calls \cup {Nobody} /\ tun \in {"none", "made", "up", "leaked"}
    /\ peer \in {"unset", "set", "lost", "reset"}

LEMMA TypesInParts ==
  DockerTypeOK <=> /\ CallerTypes /\ SetTypes /\ PodTypes /\ VMTypes
                   /\ EngineTypes /\ CommandTypes /\ TunnelTypes
<1>1. DockerTypeOK =>
        CallerTypes /\ SetTypes /\ PodTypes /\ EngineTypes /\ CommandTypes /\ TunnelTypes
  BY DEF DockerTypeOK, TypeOK, CallerTypes, SetTypes, PodTypes, EngineTypes, CommandTypes,
      TunnelTypes,
         Places, Phases, Told
<1>2. TypeOK => VMTypes
  BY DEF TypeOK, VMTypes
<1>3. VMTypes => leader \in {Nobody} \cup {c \in Calls : at[c] = "starting"}
  BY DEF VMTypes
<1>4. (CallerTypes /\ SetTypes /\ PodTypes /\ VMTypes) => TypeOK
  BY <1>3 DEF TypeOK, CallerTypes, SetTypes, PodTypes, VMTypes, Places, Phases, Told
<1>5. (TypeOK /\ EngineTypes /\ CommandTypes /\ TunnelTypes) => DockerTypeOK
  BY DEF DockerTypeOK, EngineTypes, CommandTypes, TunnelTypes
<1>6. DockerTypeOK => TypeOK
  BY DEF DockerTypeOK
<1>. QED
  BY <1>1, <1>2, <1>4, <1>5, <1>6


LEMMA StepCallerTypes ==
  ASSUME DockerInv, [DockerNext]_allVars
  PROVE  CallerTypes'
<1>. CallerTypes /\ SetTypes /\ PodTypes /\ VMTypes /\ EngineTypes /\ CommandTypes /\ TunnelTypes
  BY TypesInParts DEF DockerInv, CallsInv, CallInv
<1>. USE DEF CallerTypes, Places, GoTo, Return, ReturnFromPod, Closed, CallOver, Leave,
         ReturnAtOnce, Streams,
         callerVars, podVars, vmVars, vars, engineVars, commandVars, tunnelVars,
         dockerVars, otherVars, clusterVars, running, nodeVars, Become, Due
<1>1. ASSUME NEW c \in Calls, Cancel(c), UNCHANGED dockerVars PROVE CallerTypes'
  BY <1>1 DEF Cancel
<1>2. ASSUME NEW c \in Calls, Begin(c), UNCHANGED dockerVars PROVE CallerTypes'
  BY <1>2 DEF Begin
<1>3. ASSUME NEW c \in Calls, ReadEnds(c), UNCHANGED dockerVars PROVE CallerTypes'
  BY <1>3 DEF ReadEnds
<1>4. ASSUME NEW c \in Calls, CallReturns(c), UNCHANGED dockerVars PROVE CallerTypes'
  BY <1>4 DEF CallReturns
<1>5. ASSUME NEW c \in Calls, PodRuns(c) \/ PodUpdates(c) \/ PodEnds(c), UNCHANGED dockerVars
     PROVE  CallerTypes'
  BY <1>5 DEF PodRuns, PodUpdates, PodEnds
<1>6. ASSUME NEW c \in Calls,
         WatchCloses(c) \/ DeleteTerminated(c) \/ CreatePod(c) \/ WatchPod(c),
             UNCHANGED dockerVars
     PROVE  CallerTypes'
  BY <1>6 DEF WatchCloses, DeleteTerminated, CreatePod, WatchPod
<1>7. ASSUME NEW c \in Calls, Refused(c), UNCHANGED dockerVars PROVE CallerTypes'
  BY <1>7 DEF Refused
<1>8. ASSUME NEW c \in Calls, SeeEvent(c), UNCHANGED dockerVars PROVE CallerTypes'
  BY <1>8 DEF SeeEvent
<1>9. ASSUME NEW c \in Calls, CopyEnds(c) \/ CopyLastEnds(c) \/ DeletePod(c), UNCHANGED dockerVars
     PROVE  CallerTypes'
  BY <1>9 DEF CopyEnds, CopyLastEnds, DeletePod
<1>10. ASSUME NEW c \in Calls, JoinFlight(c), UNCHANGED dockerVars PROVE CallerTypes'
  BY <1>10 DEF JoinFlight
<1>11. ASSUME NEW c \in Calls, Started(c), UNCHANGED dockerVars PROVE CallerTypes'
  BY <1>11 DEF Started
<1>12. ASSUME NEW c \in Calls, NotStarted(c), UNCHANGED dockerVars PROVE CallerTypes'
  BY <1>12 DEF NotStarted
<1>13. ASSUME NEW c \in Calls, DockerReturns(c), UNCHANGED dockerVars PROVE CallerTypes'
  BY <1>13 DEF DockerReturns
<1>14. ASSUME NEW c \in Calls, EnsureNetworkExists(c) PROVE CallerTypes'
  BY <1>14 DEF EnsureNetworkExists
<1>15. ASSUME NEW c \in Calls, EnsureNetworkAttached(c) PROVE CallerTypes'
  BY <1>15 DEF EnsureNetworkAttached
<1>16. ASSUME NEW c \in Calls, ReplaceNetwork(c) PROVE CallerTypes'
  BY <1>16 DEF ReplaceNetwork
<1>17. ASSUME NEW c \in Calls, CreateBox(c) PROVE CallerTypes'
  BY <1>17 DEF CreateBox
<1>18. ASSUME NEW c \in Calls, StartBox(c) PROVE CallerTypes'
  BY <1>18 DEF StartBox
<1>19. ASSUME NEW c \in Calls, BoxExits(c) PROVE CallerTypes'
  BY <1>19 DEF BoxExits
<1>20. ASSUME NEW c \in Calls, SeeBoxExit(c) PROVE CallerTypes'
  <2>1. exit[c] \in {"none", "zero", "nonzero"}
    BY DEF PodTypes
  <2>2. CASE Leave(c, exit[c]) /\ UNCHANGED otherVars
    BY <1>20, <2>1, <2>2 DEF SeeBoxExit
  <2>3. CASE Leave(c, "waitErred") /\ UNCHANGED otherVars
    BY <1>20, <2>3 DEF SeeBoxExit
  <2>. QED
    BY <1>20, <2>2, <2>3 DEF SeeBoxExit
<1>21. ASSUME NEW c \in Calls, CleanUpBox(c) PROVE CallerTypes'
  BY <1>21 DEF CleanUpBox
<1>22. ASSUME NEW c \in Calls, DockerRefuses(c) PROVE CallerTypes'
  BY <1>22 DEF DockerRefuses
<1>23. ASSUME NEW c \in Calls,
         WgUp(c) \/ SetUpVm(c) \/ CreateTunIfNotExists(c) \/ ConfigureDevice(c)
     PROVE  CallerTypes'
  BY <1>23 DEF WgUp, SetUpVm, CreateTunIfNotExists, ConfigureDevice
<1>24. ASSUME NEW c \in Calls, StopBox(c) PROVE CallerTypes'
  BY <1>24 DEF StopBox
<1>25. ASSUME NEW c \in Calls, RemoveBox(c) PROVE CallerTypes'
  BY <1>25 DEF RemoveBox
<1>26. ASSUME VMStops \/ DeleteCollection, UNCHANGED dockerVars PROVE CallerTypes'
  BY <1>26 DEF VMStops, DeleteCollection
<1>27. ASSUME VmRestarts \/ SignalNode \/ Finish PROVE CallerTypes'
  BY <1>27 DEF VmRestarts, SignalNode, Finish
<1>28. ASSUME List PROVE CallerTypes'
  BY <1>28 DEF List
<1>29. ASSUME NodeExits PROVE CallerTypes'
  BY <1>29 DEF NodeExits
<1>30. ASSUME UNCHANGED allVars PROVE CallerTypes'
  BY <1>30 DEF allVars
<1>31. ASSUME NEW c \in Calls, ContextIsDone(c) PROVE CallerTypes'
  BY <1>31 DEF ContextIsDone
<1>32. ASSUME NEW c \in Calls, CleanUpEnds(c) PROVE CallerTypes'
  BY <1>32 DEF CleanUpEnds
<1>33. ASSUME NEW c \in Calls, Removed(c) PROVE CallerTypes'
  BY <1>33 DEF Removed, GiveUp
<1>34. ASSUME NEW c \in Calls, EngineRemoves(c) PROVE CallerTypes'
  BY <1>34 DEF EngineRemoves
<1>35. ASSUME NEW c \in Calls, EngineKeeps(c) PROVE CallerTypes'
  BY <1>35 DEF EngineKeeps, GiveUp
<1>. QED
  BY <1>1, <1>2, <1>3, <1>4, <1>5, <1>6, <1>7, <1>8, <1>9, <1>10, <1>11, <1>12, <1>13, <1>14,
     <1>15, <1>16, <1>17, <1>18, <1>19, <1>20, <1>21, <1>22, <1>23, <1>24, <1>25, <1>26, <1>27,
     <1>28, <1>29, <1>30, <1>31, <1>32, <1>33, <1>34, <1>35
  DEF DockerNext, Next, CallStep, PodStep, VMStep, DockerStep,
     TunnelStep, CommandStep

LEMMA StepSetTypes ==
  ASSUME DockerInv, [DockerNext]_allVars
  PROVE  SetTypes'
<1>. CallerTypes /\ SetTypes /\ PodTypes /\ VMTypes /\ EngineTypes /\ CommandTypes /\ TunnelTypes
  BY TypesInParts DEF DockerInv, CallsInv, CallInv
<1>. USE DEF SetTypes, Trouble,
         callerVars, podVars, vmVars, vars, engineVars, commandVars, tunnelVars,
         dockerVars, otherVars, clusterVars, running, nodeVars, Become, Due
<1>1. ASSUME NEW c \in Calls, Begin(c) \/ ReadEnds(c) \/ CallReturns(c) \/ Cancel(c),
         UNCHANGED dockerVars
     PROVE  SetTypes'
  BY <1>1 DEF Begin, ReadEnds, CallReturns, Cancel
<1>2. ASSUME NEW c \in Calls, PodRuns(c) \/ PodUpdates(c) \/ PodEnds(c), UNCHANGED dockerVars
     PROVE  SetTypes'
  BY <1>2 DEF PodRuns, PodUpdates, PodEnds
<1>3. ASSUME NEW c \in Calls, WatchCloses(c) \/ CreatePod(c) \/ WatchPod(c), UNCHANGED dockerVars
     PROVE  SetTypes'
  BY <1>3 DEF WatchCloses, CreatePod, WatchPod
<1>4. ASSUME NEW c \in Calls, DeleteTerminated(c), UNCHANGED dockerVars PROVE SetTypes'
  BY <1>4 DEF DeleteTerminated
<1>5. ASSUME NEW c \in Calls, Refused(c), UNCHANGED dockerVars PROVE SetTypes'
  BY <1>5 DEF Refused
<1>6. ASSUME NEW c \in Calls, SeeEvent(c), UNCHANGED dockerVars PROVE SetTypes'
  BY <1>6 DEF SeeEvent
<1>7. ASSUME NEW c \in Calls, CopyEnds(c) \/ CopyLastEnds(c) \/ DeletePod(c), UNCHANGED dockerVars
     PROVE  SetTypes'
  BY <1>7 DEF CopyEnds, CopyLastEnds, DeletePod
<1>8. ASSUME NEW c \in Calls, JoinFlight(c) \/ Started(c), UNCHANGED dockerVars PROVE SetTypes'
  BY <1>8 DEF JoinFlight, Started
<1>9. ASSUME NEW c \in Calls, NotStarted(c), UNCHANGED dockerVars PROVE SetTypes'
  BY <1>9 DEF NotStarted, InFlight, VMTypes
<1>10. ASSUME NEW c \in Calls, DockerReturns(c), UNCHANGED dockerVars PROVE SetTypes'
  BY <1>10 DEF DockerReturns
<1>11. ASSUME NEW c \in Calls,
         EnsureNetworkExists(c) \/ EnsureNetworkAttached(c) \/ ReplaceNetwork(c)
     PROVE  SetTypes'
  BY <1>11 DEF EnsureNetworkExists, EnsureNetworkAttached, ReplaceNetwork
<1>12. ASSUME NEW c \in Calls, CreateBox(c) \/ StartBox(c) PROVE SetTypes'
  BY <1>12 DEF CreateBox, StartBox
<1>13. ASSUME NEW c \in Calls, SeeBoxExit(c) \/ CleanUpBox(c) \/ BoxExits(c) PROVE SetTypes'
  BY <1>13 DEF SeeBoxExit, CleanUpBox, BoxExits
<1>14. ASSUME NEW c \in Calls, DockerRefuses(c) PROVE SetTypes'
  BY <1>14 DEF DockerRefuses
<1>15. ASSUME NEW c \in Calls,
         WgUp(c) \/ SetUpVm(c) \/ CreateTunIfNotExists(c) \/ ConfigureDevice(c)
     PROVE  SetTypes'
  BY <1>15 DEF WgUp, SetUpVm, CreateTunIfNotExists, ConfigureDevice
<1>16. ASSUME NEW c \in Calls, StopBox(c) PROVE SetTypes'
  BY <1>16 DEF StopBox
<1>17. ASSUME NEW c \in Calls, RemoveBox(c) PROVE SetTypes'
  BY <1>17 DEF RemoveBox
<1>18. ASSUME VMStops \/ DeleteCollection, UNCHANGED dockerVars PROVE SetTypes'
  BY <1>18 DEF VMStops, DeleteCollection
<1>19. ASSUME VmRestarts \/ SignalNode \/ Finish PROVE SetTypes'
  BY <1>19 DEF VmRestarts, SignalNode, Finish
<1>20. ASSUME List PROVE SetTypes'
  BY <1>20 DEF List
<1>21. ASSUME NodeExits PROVE SetTypes'
  BY <1>21 DEF NodeExits
<1>22. ASSUME UNCHANGED allVars PROVE SetTypes'
  BY <1>22 DEF allVars
<1>23. ASSUME NEW c \in Calls, ContextIsDone(c) PROVE SetTypes'
  BY <1>23 DEF ContextIsDone
<1>24. ASSUME NEW c \in Calls, CleanUpEnds(c) PROVE SetTypes'
  BY <1>24 DEF CleanUpEnds
<1>25. ASSUME NEW c \in Calls, Removed(c) PROVE SetTypes'
  BY <1>25 DEF Removed, GiveUp
<1>26. ASSUME NEW c \in Calls, EngineRemoves(c) PROVE SetTypes'
  BY <1>26 DEF EngineRemoves
<1>27. ASSUME NEW c \in Calls, EngineKeeps(c) PROVE SetTypes'
  BY <1>27 DEF EngineKeeps, GiveUp
<1>. QED
  BY <1>1, <1>2, <1>3, <1>4, <1>5, <1>6, <1>7, <1>8, <1>9, <1>10, <1>11, <1>12, <1>13, <1>14,
     <1>15, <1>16, <1>17, <1>18, <1>19, <1>20, <1>21, <1>22, <1>23, <1>24, <1>25, <1>26, <1>27
  DEF DockerNext, Next, CallStep, PodStep, VMStep, DockerStep,
     TunnelStep, CommandStep

LEMMA StepPodTypes ==
  ASSUME DockerInv, [DockerNext]_allVars
  PROVE  PodTypes'
<1>. CallerTypes /\ SetTypes /\ PodTypes /\ VMTypes /\ EngineTypes /\ CommandTypes /\ TunnelTypes
  BY TypesInParts DEF DockerInv, CallsInv, CallInv
<1>. USE DEF PodTypes, Change, ReturnFromPod, Copied, CallOver, Leave, ReturnAtOnce, GiveUp,
         callerVars, podVars, vmVars, vars, engineVars, commandVars, tunnelVars,
         dockerVars, otherVars, clusterVars, running, nodeVars, Become, Due
<1>1. ASSUME NEW c \in Calls, Begin(c) \/ ReadEnds(c) \/ CallReturns(c) \/ Cancel(c),
         UNCHANGED dockerVars
     PROVE  PodTypes'
  BY <1>1 DEF Begin, ReadEnds, CallReturns, Cancel
<1>2. ASSUME NEW c \in Calls, PodRuns(c), UNCHANGED dockerVars PROVE PodTypes'
  <2>1. Change("Running", {c})
    BY <1>2 DEF PodRuns
  <2>2. "Running" = "gone" => \A d \in Calls : d \in {c} => pods[d] \in InCluster
    BY <1>2 DEF PodRuns, ToClear, InCluster, Terminated
  <2>3. "Running" \in InCluster \cup {"gone"}
    BY DEF InCluster, Terminated
  <2>4. pods' \in [Calls -> Phases] /\ events' \in [Calls -> Seq(Told)]
    BY <2>1, <2>2, <2>3, ChangeTells DEF Phases, Told, DockerInv, CallsInv, CallInv
  <2>. QED
    BY <2>1, <2>4, <1>2 DEF PodRuns
<1>3. ASSUME NEW c \in Calls, PodUpdates(c), UNCHANGED dockerVars PROVE PodTypes'
  <2>1. Change("Running", {c})
    BY <1>3 DEF PodUpdates
  <2>2. "Running" = "gone" => \A d \in Calls : d \in {c} => pods[d] \in InCluster
    BY <1>3 DEF PodUpdates, ToClear, InCluster, Terminated
  <2>3. "Running" \in InCluster \cup {"gone"}
    BY DEF InCluster, Terminated
  <2>4. pods' \in [Calls -> Phases] /\ events' \in [Calls -> Seq(Told)]
    BY <2>1, <2>2, <2>3, ChangeTells DEF Phases, Told, DockerInv, CallsInv, CallInv
  <2>. QED
    BY <2>1, <2>4, <1>3 DEF PodUpdates
<1>4. ASSUME NEW c \in Calls, PodEnds(c), UNCHANGED dockerVars PROVE PodTypes'
  <2>1. ASSUME NEW phase \in {"Succeeded", "Failed"}, Change(phase, {c})
        PROVE  pods' \in [Calls -> Phases] /\ events' \in [Calls -> Seq(Told)]
    <3>1. phase \in InCluster \cup {"gone"} /\ phase # "gone"
      BY DEF InCluster, Terminated
    <3>. QED
      BY <2>1, <3>1, ChangeTells DEF Phases, Told, DockerInv, CallsInv, CallInv
  <2>. QED
    BY <2>1, <1>4 DEF PodEnds
<1>5. ASSUME NEW c \in Calls, WatchCloses(c), UNCHANGED dockerVars PROVE PodTypes'
  <2>1. Append(events[c], "closed") \in Seq(Told)
    BY DEF Told
  <2>. QED
    BY <2>1, <1>5 DEF WatchCloses
<1>6. ASSUME NEW c \in Calls, DeleteTerminated(c), UNCHANGED dockerVars PROVE PodTypes'
  <2>1. Change("gone", ToClear)
    BY <1>6 DEF DeleteTerminated
  <2>2. \A d \in Calls : d \in ToClear => pods[d] \in InCluster
    BY <1>6 DEF DeleteTerminated, ToClear, InCluster, Terminated
  <2>3. "gone" \in InCluster \cup {"gone"}
    BY DEF InCluster, Terminated
  <2>4. pods' \in [Calls -> Phases] /\ events' \in [Calls -> Seq(Told)]
    BY <2>1, <2>2, <2>3, ChangeTells DEF Phases, Told, DockerInv, CallsInv, CallInv
  <2>. QED
    BY <2>1, <2>4, <1>6 DEF DeleteTerminated
<1>7. ASSUME NEW c \in Calls, CreatePod(c), UNCHANGED dockerVars PROVE PodTypes'
  <2>1. Change("Pending", {c})
    BY <1>7 DEF CreatePod
  <2>2. "Pending" = "gone" => \A d \in Calls : d \in {c} => pods[d] \in InCluster
    BY <1>7 DEF CreatePod, ToClear, InCluster, Terminated
  <2>3. "Pending" \in InCluster \cup {"gone"}
    BY DEF InCluster, Terminated
  <2>4. pods' \in [Calls -> Phases] /\ events' \in [Calls -> Seq(Told)]
    BY <2>1, <2>2, <2>3, ChangeTells DEF Phases, Told, DockerInv, CallsInv, CallInv
  <2>. QED
    BY <2>1, <2>4, <1>7 DEF CreatePod
<1>8. ASSUME NEW c \in Calls, WatchPod(c), UNCHANGED dockerVars PROVE PodTypes'
  <2>1. pods[c] # "none"
    BY <1>8 DEF WatchPod, DockerInv, CallsInv, CallInv, Placed, InPod
  <2>2. pods[c] \in InCluster \/ pods[c] = "gone"
    BY <2>1 DEF Phases
  <2>3. pods[c] # "gone" => <<pods[c]>> \in Seq(Told)
    BY <2>2 DEF Told
  <2>4. /\ events' = [events EXCEPT ![c] = IF pods[c] = "gone" THEN <<>> ELSE <<pods[c]>>]
        /\ logs' = logs \/ logs' = [logs EXCEPT ![c] = "due"]
        /\ UNCHANGED <<pods, exit>>
    BY <1>8 DEF WatchPod
  <2>5. events' \in [Calls -> Seq(Told)]
    BY <2>3, <2>4
  <2>6. logs' \in [Calls -> {"none", "due", "part", "whole", "twice"}]
    BY <2>4
  <2>. QED
    BY <2>4, <2>5, <2>6
<1>9. ASSUME NEW c \in Calls, Refused(c), UNCHANGED dockerVars PROVE PodTypes'
  <2>1. events' \in [Calls -> Seq(Told)]
    BY <1>9 DEF Refused
  <2>2. "Pending" \in Phases
    BY DEF Phases, InCluster
  <2>. QED
    BY <2>1, <2>2, <1>9 DEF Refused
<1>10. ASSUME NEW c \in Calls, SeeEvent(c), UNCHANGED dockerVars PROVE PodTypes'
  <2>1. events[c] \in Seq(Told)
    OBVIOUS
  <2>2. events[c] # <<>> => Tail(events[c]) \in Seq(Told)
    BY <2>1
  <2>3. events' = [events EXCEPT ![c] = Tail(@)] \/ events' = [events EXCEPT ![c] = <<>>]
    BY <1>10 DEF SeeEvent, ReturnFromPod
  <2>4. events[c] # <<>> /\ UNCHANGED <<pods, logs, exit>>
    BY <1>10 DEF SeeEvent
  <2>5. events' \in [Calls -> Seq(Told)]
    <3>1. CASE events' = [events EXCEPT ![c] = Tail(@)]
      BY <2>2, <2>4, <3>1
    <3>2. CASE events' = [events EXCEPT ![c] = <<>>]
      BY <3>2
    <3>. QED
      BY <2>3, <3>1, <3>2
  <2>. QED
    BY <2>4, <2>5
<1>11. ASSUME NEW c \in Calls, CopyEnds(c), UNCHANGED dockerVars PROVE PodTypes'
  BY <1>11 DEF CopyEnds
<1>12. ASSUME NEW c \in Calls, CopyLastEnds(c), UNCHANGED dockerVars PROVE PodTypes'
  BY <1>12 DEF CopyLastEnds
<1>13. ASSUME NEW c \in Calls, DeletePod(c), UNCHANGED dockerVars PROVE PodTypes'
  <2>1. Change("gone", {c})
    BY <1>13 DEF DeletePod
  <2>2. \A d \in Calls : d \in {c} => pods[d] \in InCluster
    BY <1>13 DEF DeletePod, ToClear, InCluster, Terminated
  <2>3. "gone" \in InCluster \cup {"gone"}
    BY DEF InCluster, Terminated
  <2>4. pods' \in [Calls -> Phases] /\ events' \in [Calls -> Seq(Told)]
    BY <2>1, <2>2, <2>3, ChangeTells DEF Phases, Told, DockerInv, CallsInv, CallInv
  <2>. QED
    BY <2>1, <2>4, <1>13 DEF DeletePod
<1>14. ASSUME NEW c \in Calls, JoinFlight(c) \/ Started(c) \/ NotStarted(c), UNCHANGED dockerVars
     PROVE  PodTypes'
  BY <1>14 DEF JoinFlight, Started, NotStarted
<1>15. ASSUME NEW c \in Calls, DockerReturns(c), UNCHANGED dockerVars PROVE PodTypes'
  BY <1>15 DEF DockerReturns
<1>16. ASSUME NEW c \in Calls, EnsureNetworkExists(c) PROVE PodTypes'
  BY <1>16 DEF EnsureNetworkExists
<1>17. ASSUME NEW c \in Calls, EnsureNetworkAttached(c) PROVE PodTypes'
  BY <1>17 DEF EnsureNetworkAttached
<1>18. ASSUME NEW c \in Calls, ReplaceNetwork(c) PROVE PodTypes'
  BY <1>18 DEF ReplaceNetwork
<1>19. ASSUME NEW c \in Calls, CreateBox(c) PROVE PodTypes'
  BY <1>19 DEF CreateBox
<1>20. ASSUME NEW c \in Calls, StartBox(c) PROVE PodTypes'
  BY <1>20 DEF StartBox
<1>21. ASSUME NEW c \in Calls, CleanUpBox(c) \/ BoxExits(c) PROVE PodTypes'
  BY <1>21 DEF CleanUpBox, BoxExits
<1>22. ASSUME NEW c \in Calls, SeeBoxExit(c) PROVE PodTypes'
  <2>1. UNCHANGED <<podVars, exit>>
    BY <1>22 DEF SeeBoxExit
  <2>. QED
    BY <2>1
<1>23. ASSUME NEW c \in Calls, DockerRefuses(c) PROVE PodTypes'
  BY <1>23 DEF DockerRefuses
<1>24. ASSUME NEW c \in Calls,
         WgUp(c) \/ SetUpVm(c) \/ CreateTunIfNotExists(c) \/ ConfigureDevice(c)
     PROVE  PodTypes'
  BY <1>24 DEF WgUp, SetUpVm, CreateTunIfNotExists, ConfigureDevice
<1>25. ASSUME NEW c \in Calls, StopBox(c) PROVE PodTypes'
  BY <1>25 DEF StopBox
<1>26. ASSUME NEW c \in Calls, RemoveBox(c) PROVE PodTypes'
  BY <1>26 DEF RemoveBox
<1>27. ASSUME VMStops, UNCHANGED dockerVars PROVE PodTypes'
  BY <1>27 DEF VMStops
<1>28. ASSUME DeleteCollection, UNCHANGED dockerVars PROVE PodTypes'
  <2>1. Change("gone", {x \in Calls : pods[x] \in InCluster})
    BY <1>28 DEF DeleteCollection
  <2>2. \A d \in Calls : d \in {x \in Calls : pods[x] \in InCluster} => pods[d] \in InCluster
    BY <1>28 DEF DeleteCollection, ToClear, InCluster, Terminated
  <2>3. "gone" \in InCluster \cup {"gone"}
    BY DEF InCluster, Terminated
  <2>4. pods' \in [Calls -> Phases] /\ events' \in [Calls -> Seq(Told)]
    BY <2>1, <2>2, <2>3, ChangeTells DEF Phases, Told, DockerInv, CallsInv, CallInv
  <2>. QED
    BY <2>1, <2>4, <1>28 DEF DeleteCollection
<1>29. ASSUME VmRestarts \/ SignalNode \/ Finish PROVE PodTypes'
  BY <1>29 DEF VmRestarts, SignalNode, Finish
<1>30. ASSUME List PROVE PodTypes'
  BY <1>30 DEF List
<1>31. ASSUME NodeExits PROVE PodTypes'
  BY <1>31 DEF NodeExits
<1>32. ASSUME UNCHANGED allVars PROVE PodTypes'
  BY <1>32 DEF allVars
<1>33. ASSUME NEW c \in Calls, ContextIsDone(c) PROVE PodTypes'
  BY <1>33 DEF ContextIsDone
<1>34. ASSUME NEW c \in Calls, CleanUpEnds(c) PROVE PodTypes'
  BY <1>34 DEF CleanUpEnds
<1>35. ASSUME NEW c \in Calls, Removed(c) PROVE PodTypes'
  BY <1>35 DEF Removed, GiveUp
<1>36. ASSUME NEW c \in Calls, EngineRemoves(c) PROVE PodTypes'
  BY <1>36 DEF EngineRemoves
<1>37. ASSUME NEW c \in Calls, EngineKeeps(c) PROVE PodTypes'
  BY <1>37 DEF EngineKeeps, GiveUp
<1>. QED
  BY <1>1, <1>2, <1>3, <1>4, <1>5, <1>6, <1>7, <1>8, <1>9, <1>10, <1>11, <1>12, <1>13, <1>14,
     <1>15, <1>16, <1>17, <1>18, <1>19, <1>20, <1>21, <1>22, <1>23, <1>24, <1>25, <1>26, <1>27,
     <1>28, <1>29, <1>30, <1>31, <1>32, <1>33, <1>34, <1>35, <1>36, <1>37
  DEF DockerNext, Next, CallStep, PodStep, VMStep, DockerStep,
     TunnelStep, CommandStep

LEMMA StepVMTypes ==
  ASSUME DockerInv, [DockerNext]_allVars
  PROVE  VMTypes'
<1>. CallerTypes /\ SetTypes /\ PodTypes /\ VMTypes /\ EngineTypes /\ CommandTypes /\ TunnelTypes
  BY TypesInParts DEF DockerInv, CallsInv, CallInv
<1>. USE DEF VMTypes, CallerTypes, Places, GoTo, Return, ReturnFromPod, Leave, CallOver,
         ReturnAtOnce,
         callerVars, podVars, vmVars, vars, engineVars, commandVars, tunnelVars,
         dockerVars, otherVars, clusterVars, running, nodeVars, Become, Due
<1>1. ASSUME NEW c \in Calls, Begin(c) \/ ReadEnds(c) \/ CallReturns(c) \/ Cancel(c),
         UNCHANGED dockerVars
     PROVE  VMTypes'
  BY <1>1 DEF Begin, ReadEnds, CallReturns, Cancel
<1>2. ASSUME NEW c \in Calls, PodRuns(c) \/ PodUpdates(c) \/ PodEnds(c), UNCHANGED dockerVars
     PROVE  VMTypes'
  BY <1>2 DEF PodRuns, PodUpdates, PodEnds
<1>3. ASSUME NEW c \in Calls,
         WatchCloses(c) \/ DeleteTerminated(c) \/ CreatePod(c) \/ WatchPod(c),
             UNCHANGED dockerVars
     PROVE  VMTypes'
  BY <1>3 DEF WatchCloses, DeleteTerminated, CreatePod, WatchPod
<1>4. ASSUME NEW c \in Calls, Refused(c), UNCHANGED dockerVars PROVE VMTypes'
  BY <1>4 DEF Refused
<1>5. ASSUME NEW c \in Calls, SeeEvent(c), UNCHANGED dockerVars PROVE VMTypes'
  BY <1>5 DEF SeeEvent
<1>6. ASSUME NEW c \in Calls, CopyEnds(c) \/ CopyLastEnds(c) \/ DeletePod(c), UNCHANGED dockerVars
     PROVE  VMTypes'
  BY <1>6 DEF CopyEnds, CopyLastEnds, DeletePod
<1>7. ASSUME NEW c \in Calls, JoinFlight(c), UNCHANGED dockerVars PROVE VMTypes'
  BY <1>7, CallsAssumption DEF JoinFlight
<1>8. ASSUME NEW c \in Calls, Started(c), UNCHANGED dockerVars PROVE VMTypes'
  BY <1>8 DEF Started, InFlight, DockerInv, CallsInv, CallInv, Placed
<1>9. ASSUME NEW c \in Calls, NotStarted(c), UNCHANGED dockerVars PROVE VMTypes'
  BY <1>9 DEF NotStarted, InFlight, DockerInv, CallsInv, CallInv, Placed
<1>10. ASSUME NEW c \in Calls, DockerReturns(c), UNCHANGED dockerVars PROVE VMTypes'
  BY <1>10 DEF DockerReturns
<1>11. ASSUME NEW c \in Calls, EnsureNetworkExists(c) PROVE VMTypes'
  BY <1>11 DEF EnsureNetworkExists
<1>12. ASSUME NEW c \in Calls, EnsureNetworkAttached(c) PROVE VMTypes'
  BY <1>12 DEF EnsureNetworkAttached
<1>13. ASSUME NEW c \in Calls, ReplaceNetwork(c) PROVE VMTypes'
  BY <1>13 DEF ReplaceNetwork
<1>14. ASSUME NEW c \in Calls, CreateBox(c) PROVE VMTypes'
  BY <1>14 DEF CreateBox
<1>15. ASSUME NEW c \in Calls, StartBox(c) PROVE VMTypes'
  BY <1>15 DEF StartBox
<1>16. ASSUME NEW c \in Calls, BoxExits(c) PROVE VMTypes'
  BY <1>16 DEF BoxExits
<1>17. ASSUME NEW c \in Calls, SeeBoxExit(c) PROVE VMTypes'
  BY <1>17 DEF SeeBoxExit
<1>18. ASSUME NEW c \in Calls, CleanUpBox(c) PROVE VMTypes'
  BY <1>18 DEF CleanUpBox
<1>19. ASSUME NEW c \in Calls, DockerRefuses(c) PROVE VMTypes'
  BY <1>19 DEF DockerRefuses
<1>20. ASSUME NEW c \in Calls,
         WgUp(c) \/ SetUpVm(c) \/ CreateTunIfNotExists(c) \/ ConfigureDevice(c)
     PROVE  VMTypes'
  BY <1>20 DEF WgUp, SetUpVm, CreateTunIfNotExists, ConfigureDevice
<1>21. ASSUME NEW c \in Calls, StopBox(c) PROVE VMTypes'
  BY <1>21 DEF StopBox
<1>22. ASSUME NEW c \in Calls, RemoveBox(c) PROVE VMTypes'
  BY <1>22 DEF RemoveBox
<1>23. ASSUME VMStops \/ DeleteCollection, UNCHANGED dockerVars PROVE VMTypes'
  BY <1>23 DEF VMStops, DeleteCollection
<1>24. ASSUME VmRestarts \/ SignalNode \/ Finish PROVE VMTypes'
  BY <1>24 DEF VmRestarts, SignalNode, Finish
<1>25. ASSUME List PROVE VMTypes'
  BY <1>25 DEF List
<1>26. ASSUME NodeExits PROVE VMTypes'
  BY <1>26, CallsAssumption DEF NodeExits, DockerInv, CallsInv, CallInv, Placed, CommandInv, Commanded,
      InVM
<1>27. ASSUME UNCHANGED allVars PROVE VMTypes'
  BY <1>27 DEF allVars
<1>28. ASSUME NEW c \in Calls, ContextIsDone(c) PROVE VMTypes'
  BY <1>28 DEF ContextIsDone
<1>29. ASSUME NEW c \in Calls, CleanUpEnds(c) PROVE VMTypes'
  BY <1>29 DEF CleanUpEnds
<1>30. ASSUME NEW c \in Calls, Removed(c) PROVE VMTypes'
  BY <1>30 DEF Removed, GiveUp
<1>31. ASSUME NEW c \in Calls, EngineRemoves(c) PROVE VMTypes'
  BY <1>31 DEF EngineRemoves
<1>32. ASSUME NEW c \in Calls, EngineKeeps(c) PROVE VMTypes'
  BY <1>32 DEF EngineKeeps, GiveUp
<1>. QED
  BY <1>1, <1>2, <1>3, <1>4, <1>5, <1>6, <1>7, <1>8, <1>9, <1>10, <1>11, <1>12, <1>13, <1>14,
     <1>15, <1>16, <1>17, <1>18, <1>19, <1>20, <1>21, <1>22, <1>23, <1>24, <1>25, <1>26, <1>27,
     <1>28, <1>29, <1>30, <1>31, <1>32
  DEF DockerNext, Next, CallStep, PodStep, VMStep, DockerStep,
     TunnelStep, CommandStep

LEMMA StepEngineTypes ==
  ASSUME DockerInv, [DockerNext]_allVars
  PROVE  EngineTypes'
<1>. CallerTypes /\ SetTypes /\ PodTypes /\ VMTypes /\ EngineTypes /\ CommandTypes /\ TunnelTypes
  BY TypesInParts DEF DockerInv, CallsInv, CallInv
<1>. USE DEF EngineTypes, States, GoTo, Leave, CallOver, ReturnAtOnce,
         callerVars, podVars, vmVars, vars, engineVars, commandVars, tunnelVars,
         dockerVars, otherVars, clusterVars, running, nodeVars, Become, Due
<1>1. ASSUME NEW c \in Calls, Begin(c) \/ ReadEnds(c) \/ CallReturns(c) \/ Cancel(c),
         UNCHANGED dockerVars
     PROVE  EngineTypes'
  BY <1>1 DEF Begin, ReadEnds, CallReturns, Cancel
<1>2. ASSUME NEW c \in Calls, PodRuns(c) \/ PodUpdates(c) \/ PodEnds(c), UNCHANGED dockerVars
     PROVE  EngineTypes'
  BY <1>2 DEF PodRuns, PodUpdates, PodEnds
<1>3. ASSUME NEW c \in Calls,
         WatchCloses(c) \/ DeleteTerminated(c) \/ CreatePod(c) \/ WatchPod(c),
             UNCHANGED dockerVars
     PROVE  EngineTypes'
  BY <1>3 DEF WatchCloses, DeleteTerminated, CreatePod, WatchPod
<1>4. ASSUME NEW c \in Calls, Refused(c), UNCHANGED dockerVars PROVE EngineTypes'
  BY <1>4 DEF Refused
<1>5. ASSUME NEW c \in Calls, SeeEvent(c), UNCHANGED dockerVars PROVE EngineTypes'
  BY <1>5 DEF SeeEvent
<1>6. ASSUME NEW c \in Calls, CopyEnds(c) \/ CopyLastEnds(c) \/ DeletePod(c), UNCHANGED dockerVars
     PROVE  EngineTypes'
  BY <1>6 DEF CopyEnds, CopyLastEnds, DeletePod
<1>7. ASSUME NEW c \in Calls, JoinFlight(c) \/ Started(c) \/ NotStarted(c), UNCHANGED dockerVars
     PROVE  EngineTypes'
  BY <1>7 DEF JoinFlight, Started, NotStarted
<1>8. ASSUME NEW c \in Calls, DockerReturns(c), UNCHANGED dockerVars PROVE EngineTypes'
  BY <1>8 DEF DockerReturns
<1>9. ASSUME NEW c \in Calls, EnsureNetworkExists(c) PROVE EngineTypes'
  BY <1>9 DEF EnsureNetworkExists
<1>10. ASSUME NEW c \in Calls, EnsureNetworkAttached(c) PROVE EngineTypes'
  BY <1>10 DEF EnsureNetworkAttached
<1>11. ASSUME NEW c \in Calls, ReplaceNetwork(c) PROVE EngineTypes'
  BY <1>11 DEF ReplaceNetwork
<1>12. ASSUME NEW c \in Calls, CreateBox(c) PROVE EngineTypes'
  BY <1>12 DEF CreateBox
<1>13. ASSUME NEW c \in Calls, StartBox(c) PROVE EngineTypes'
  BY <1>13 DEF StartBox
<1>14. ASSUME NEW c \in Calls, BoxExits(c) PROVE EngineTypes'
  BY <1>14 DEF BoxExits
<1>15. ASSUME NEW c \in Calls, SeeBoxExit(c) PROVE EngineTypes'
  BY <1>15 DEF SeeBoxExit
<1>16. ASSUME NEW c \in Calls, CleanUpBox(c) PROVE EngineTypes'
  BY <1>16 DEF CleanUpBox
<1>17. ASSUME NEW c \in Calls, DockerRefuses(c) PROVE EngineTypes'
  BY <1>17 DEF DockerRefuses
<1>18. ASSUME NEW c \in Calls,
         WgUp(c) \/ SetUpVm(c) \/ CreateTunIfNotExists(c) \/ ConfigureDevice(c)
     PROVE  EngineTypes'
  BY <1>18 DEF WgUp, SetUpVm, CreateTunIfNotExists, ConfigureDevice
<1>19. ASSUME NEW c \in Calls, StopBox(c) PROVE EngineTypes'
  BY <1>19 DEF StopBox
<1>20. ASSUME NEW c \in Calls, RemoveBox(c) PROVE EngineTypes'
  BY <1>20 DEF RemoveBox
<1>21. ASSUME VMStops \/ DeleteCollection, UNCHANGED dockerVars PROVE EngineTypes'
  BY <1>21 DEF VMStops, DeleteCollection
<1>22. ASSUME VmRestarts \/ SignalNode \/ Finish PROVE EngineTypes'
  BY <1>22 DEF VmRestarts, SignalNode, Finish
<1>23. ASSUME List PROVE EngineTypes'
  BY <1>23 DEF List
<1>24. ASSUME NodeExits PROVE EngineTypes'
  BY <1>24 DEF NodeExits
<1>25. ASSUME UNCHANGED allVars PROVE EngineTypes'
  BY <1>25 DEF allVars
<1>26. ASSUME NEW c \in Calls, ContextIsDone(c) PROVE EngineTypes'
  BY <1>26 DEF ContextIsDone
<1>27. ASSUME NEW c \in Calls, CleanUpEnds(c) PROVE EngineTypes'
  BY <1>27 DEF CleanUpEnds
<1>28. ASSUME NEW c \in Calls, Removed(c) PROVE EngineTypes'
  BY <1>28 DEF Removed, GiveUp
<1>29. ASSUME NEW c \in Calls, EngineRemoves(c) PROVE EngineTypes'
  BY <1>29 DEF EngineRemoves
<1>30. ASSUME NEW c \in Calls, EngineKeeps(c) PROVE EngineTypes'
  BY <1>30 DEF EngineKeeps, GiveUp
<1>. QED
  BY <1>1, <1>2, <1>3, <1>4, <1>5, <1>6, <1>7, <1>8, <1>9, <1>10, <1>11, <1>12, <1>13, <1>14,
     <1>15, <1>16, <1>17, <1>18, <1>19, <1>20, <1>21, <1>22, <1>23, <1>24, <1>25, <1>26, <1>27,
     <1>28, <1>29, <1>30
  DEF DockerNext, Next, CallStep, PodStep, VMStep, DockerStep,
     TunnelStep, CommandStep

LEMMA StepCommandTypes ==
  ASSUME DockerInv, [DockerNext]_allVars
  PROVE  CommandTypes'
<1>. CallerTypes /\ SetTypes /\ PodTypes /\ VMTypes /\ EngineTypes /\ CommandTypes /\ TunnelTypes
  BY TypesInParts DEF DockerInv, CallsInv, CallInv
<1>. USE DEF CommandTypes, Commands, GiveUp, Signal,
         callerVars, podVars, vmVars, vars, engineVars, commandVars, tunnelVars,
         dockerVars, otherVars, clusterVars, running, nodeVars, Become, Due
<1>1. ASSUME NEW c \in Calls, Begin(c) \/ ReadEnds(c) \/ CallReturns(c) \/ Cancel(c),
         UNCHANGED dockerVars
     PROVE  CommandTypes'
  BY <1>1 DEF Begin, ReadEnds, CallReturns, Cancel
<1>2. ASSUME NEW c \in Calls, PodRuns(c) \/ PodUpdates(c) \/ PodEnds(c), UNCHANGED dockerVars
     PROVE  CommandTypes'
  BY <1>2 DEF PodRuns, PodUpdates, PodEnds
<1>3. ASSUME NEW c \in Calls,
         WatchCloses(c) \/ DeleteTerminated(c) \/ CreatePod(c) \/ WatchPod(c),
             UNCHANGED dockerVars
     PROVE  CommandTypes'
  BY <1>3 DEF WatchCloses, DeleteTerminated, CreatePod, WatchPod
<1>4. ASSUME NEW c \in Calls, Refused(c), UNCHANGED dockerVars PROVE CommandTypes'
  BY <1>4 DEF Refused
<1>5. ASSUME NEW c \in Calls, SeeEvent(c), UNCHANGED dockerVars PROVE CommandTypes'
  BY <1>5 DEF SeeEvent
<1>6. ASSUME NEW c \in Calls, CopyEnds(c) \/ CopyLastEnds(c) \/ DeletePod(c), UNCHANGED dockerVars
     PROVE  CommandTypes'
  BY <1>6 DEF CopyEnds, CopyLastEnds, DeletePod
<1>7. ASSUME NEW c \in Calls, JoinFlight(c) \/ Started(c) \/ NotStarted(c), UNCHANGED dockerVars
     PROVE  CommandTypes'
  BY <1>7 DEF JoinFlight, Started, NotStarted
<1>8. ASSUME NEW c \in Calls, DockerReturns(c), UNCHANGED dockerVars PROVE CommandTypes'
  BY <1>8 DEF DockerReturns
<1>9. ASSUME NEW c \in Calls,
         EnsureNetworkExists(c) \/ EnsureNetworkAttached(c) \/ ReplaceNetwork(c)
     PROVE  CommandTypes'
  BY <1>9 DEF EnsureNetworkExists, EnsureNetworkAttached, ReplaceNetwork
<1>10. ASSUME NEW c \in Calls, CreateBox(c) \/ StartBox(c) PROVE CommandTypes'
  BY <1>10 DEF CreateBox, StartBox
<1>11. ASSUME NEW c \in Calls, CleanUpBox(c) \/ BoxExits(c) PROVE CommandTypes'
  BY <1>11 DEF CleanUpBox, BoxExits
<1>12. ASSUME NEW c \in Calls, SeeBoxExit(c) PROVE CommandTypes'
  BY <1>12 DEF SeeBoxExit
<1>13. ASSUME NEW c \in Calls, DockerRefuses(c) PROVE CommandTypes'
  BY <1>13 DEF DockerRefuses
<1>14. ASSUME NEW c \in Calls,
         WgUp(c) \/ SetUpVm(c) \/ CreateTunIfNotExists(c) \/ ConfigureDevice(c)
     PROVE  CommandTypes'
  BY <1>14 DEF WgUp, SetUpVm, CreateTunIfNotExists, ConfigureDevice
<1>15. ASSUME NEW c \in Calls, StopBox(c) PROVE CommandTypes'
  BY <1>15 DEF StopBox
<1>16. ASSUME NEW c \in Calls, RemoveBox(c) PROVE CommandTypes'
  BY <1>16 DEF RemoveBox
<1>17. ASSUME VMStops \/ DeleteCollection, UNCHANGED dockerVars PROVE CommandTypes'
  BY <1>17 DEF VMStops, DeleteCollection
<1>18. ASSUME VmRestarts PROVE CommandTypes'
  BY <1>18 DEF VmRestarts
<1>19. ASSUME SignalNode PROVE CommandTypes'
  BY <1>19 DEF SignalNode
<1>20. ASSUME Finish PROVE CommandTypes'
  BY <1>20 DEF Finish
<1>21. ASSUME List PROVE CommandTypes'
  <2>1. PICK matching \in Matching : listed' = Found(matching)
    BY <1>21 DEF List
  <2>2. listed' \in [Calls -> States]
    BY <2>1 DEF Found, EngineTypes, States
  <2>. QED
    BY <2>2, <1>21 DEF List
<1>22. ASSUME NodeExits PROVE CommandTypes'
  BY <1>22 DEF NodeExits
<1>23. ASSUME UNCHANGED allVars PROVE CommandTypes'
  BY <1>23 DEF allVars
<1>24. ASSUME NEW c \in Calls, ContextIsDone(c) PROVE CommandTypes'
  BY <1>24 DEF ContextIsDone
<1>25. ASSUME NEW c \in Calls, CleanUpEnds(c) PROVE CommandTypes'
  BY <1>25 DEF CleanUpEnds
<1>26. ASSUME NEW c \in Calls, Removed(c) PROVE CommandTypes'
  BY <1>26 DEF Removed, GiveUp
<1>27. ASSUME NEW c \in Calls, EngineRemoves(c) PROVE CommandTypes'
  BY <1>27 DEF EngineRemoves
<1>28. ASSUME NEW c \in Calls, EngineKeeps(c) PROVE CommandTypes'
  BY <1>28 DEF EngineKeeps, GiveUp
<1>. QED
  BY <1>1, <1>2, <1>3, <1>4, <1>5, <1>6, <1>7, <1>8, <1>9, <1>10, <1>11, <1>12, <1>13, <1>14,
     <1>15, <1>16, <1>17, <1>18, <1>19, <1>20, <1>21, <1>22, <1>23, <1>24, <1>25, <1>26, <1>27,
     <1>28
  DEF DockerNext, Next, CallStep, PodStep, VMStep, DockerStep,
     TunnelStep, CommandStep

LEMMA StepTunnelTypes ==
  ASSUME DockerInv, [DockerNext]_allVars
  PROVE  TunnelTypes'
<1>. CallerTypes /\ SetTypes /\ PodTypes /\ VMTypes /\ EngineTypes /\ CommandTypes /\ TunnelTypes
  BY TypesInParts DEF DockerInv, CallsInv, CallInv
<1>. USE DEF TunnelTypes, Release, Leave,
         callerVars, podVars, vmVars, vars, engineVars, commandVars, tunnelVars,
         dockerVars, otherVars, clusterVars, running, nodeVars, Become, Due
<1>1. ASSUME NEW c \in Calls, Begin(c) \/ ReadEnds(c) \/ CallReturns(c) \/ Cancel(c),
         UNCHANGED dockerVars
     PROVE  TunnelTypes'
  BY <1>1 DEF Begin, ReadEnds, CallReturns, Cancel
<1>2. ASSUME NEW c \in Calls, PodRuns(c) \/ PodUpdates(c) \/ PodEnds(c), UNCHANGED dockerVars
     PROVE  TunnelTypes'
  BY <1>2 DEF PodRuns, PodUpdates, PodEnds
<1>3. ASSUME NEW c \in Calls,
         WatchCloses(c) \/ DeleteTerminated(c) \/ CreatePod(c) \/ WatchPod(c),
             UNCHANGED dockerVars
     PROVE  TunnelTypes'
  BY <1>3 DEF WatchCloses, DeleteTerminated, CreatePod, WatchPod
<1>4. ASSUME NEW c \in Calls, Refused(c), UNCHANGED dockerVars PROVE TunnelTypes'
  BY <1>4 DEF Refused
<1>5. ASSUME NEW c \in Calls, SeeEvent(c), UNCHANGED dockerVars PROVE TunnelTypes'
  BY <1>5 DEF SeeEvent
<1>6. ASSUME NEW c \in Calls, CopyEnds(c) \/ CopyLastEnds(c) \/ DeletePod(c), UNCHANGED dockerVars
     PROVE  TunnelTypes'
  BY <1>6 DEF CopyEnds, CopyLastEnds, DeletePod
<1>7. ASSUME NEW c \in Calls, JoinFlight(c) \/ Started(c) \/ NotStarted(c), UNCHANGED dockerVars
     PROVE  TunnelTypes'
  BY <1>7 DEF JoinFlight, Started, NotStarted
<1>8. ASSUME NEW c \in Calls, DockerReturns(c), UNCHANGED dockerVars PROVE TunnelTypes'
  BY <1>8 DEF DockerReturns
<1>9. ASSUME NEW c \in Calls, EnsureNetworkExists(c) PROVE TunnelTypes'
  BY <1>9 DEF EnsureNetworkExists
<1>10. ASSUME NEW c \in Calls, EnsureNetworkAttached(c) PROVE TunnelTypes'
  BY <1>10 DEF EnsureNetworkAttached
<1>11. ASSUME NEW c \in Calls, ReplaceNetwork(c) PROVE TunnelTypes'
  BY <1>11 DEF ReplaceNetwork
<1>12. ASSUME NEW c \in Calls, CreateBox(c) \/ StartBox(c) PROVE TunnelTypes'
  BY <1>12 DEF CreateBox, StartBox
<1>13. ASSUME NEW c \in Calls, CleanUpBox(c) \/ BoxExits(c) PROVE TunnelTypes'
  BY <1>13 DEF CleanUpBox, BoxExits
<1>14. ASSUME NEW c \in Calls, SeeBoxExit(c) PROVE TunnelTypes'
  BY <1>14 DEF SeeBoxExit
<1>15. ASSUME NEW c \in Calls, DockerRefuses(c) PROVE TunnelTypes'
  BY <1>15 DEF DockerRefuses
<1>16. ASSUME NEW c \in Calls, WgUp(c) PROVE TunnelTypes'
  BY <1>16 DEF WgUp
<1>17. ASSUME NEW c \in Calls, SetUpVm(c) PROVE TunnelTypes'
  BY <1>17 DEF SetUpVm
<1>18. ASSUME NEW c \in Calls, CreateTunIfNotExists(c) PROVE TunnelTypes'
  BY <1>18 DEF CreateTunIfNotExists
<1>19. ASSUME NEW c \in Calls, ConfigureDevice(c) PROVE TunnelTypes'
  BY <1>19 DEF ConfigureDevice
<1>20. ASSUME NEW c \in Calls, StopBox(c) PROVE TunnelTypes'
  BY <1>20 DEF StopBox
<1>21. ASSUME NEW c \in Calls, RemoveBox(c) PROVE TunnelTypes'
  BY <1>21 DEF RemoveBox
<1>22. ASSUME VMStops \/ DeleteCollection, UNCHANGED dockerVars PROVE TunnelTypes'
  BY <1>22 DEF VMStops, DeleteCollection
<1>23. ASSUME VmRestarts \/ SignalNode \/ Finish PROVE TunnelTypes'
  BY <1>23 DEF VmRestarts, SignalNode, Finish
<1>24. ASSUME List PROVE TunnelTypes'
  BY <1>24 DEF List
<1>25. ASSUME NodeExits PROVE TunnelTypes'
  BY <1>25 DEF NodeExits
<1>26. ASSUME UNCHANGED allVars PROVE TunnelTypes'
  BY <1>26 DEF allVars
<1>27. ASSUME NEW c \in Calls, ContextIsDone(c) PROVE TunnelTypes'
  BY <1>27 DEF ContextIsDone
<1>28. ASSUME NEW c \in Calls, CleanUpEnds(c) PROVE TunnelTypes'
  BY <1>28 DEF CleanUpEnds
<1>29. ASSUME NEW c \in Calls, Removed(c) PROVE TunnelTypes'
  BY <1>29 DEF Removed, GiveUp
<1>30. ASSUME NEW c \in Calls, EngineRemoves(c) PROVE TunnelTypes'
  BY <1>30 DEF EngineRemoves
<1>31. ASSUME NEW c \in Calls, EngineKeeps(c) PROVE TunnelTypes'
  BY <1>31 DEF EngineKeeps, GiveUp
<1>. QED
  BY <1>1, <1>2, <1>3, <1>4, <1>5, <1>6, <1>7, <1>8, <1>9, <1>10, <1>11, <1>12, <1>13, <1>14,
     <1>15, <1>16, <1>17, <1>18, <1>19, <1>20, <1>21, <1>22, <1>23, <1>24, <1>25, <1>26, <1>27,
     <1>28, <1>29, <1>30, <1>31
  DEF DockerNext, Next, CallStep, PodStep, VMStep, DockerStep,
     TunnelStep, CommandStep

LEMMA StepTypes ==
  ASSUME DockerInv, [DockerNext]_allVars
  PROVE  DockerTypeOK'
<1>1. (CallerTypes /\ SetTypes /\ PodTypes /\ VMTypes /\ EngineTypes /\ CommandTypes
         /\ TunnelTypes)'
  BY StepCallerTypes, StepSetTypes, StepPodTypes, StepVMTypes, StepEngineTypes,
      StepCommandTypes, StepTunnelTypes
<1>. QED
  BY <1>1, TypesInParts, PTL


-----------------------------------------------------------------------------
(* Where calls are *)

LEMMA StepPlaced ==
  ASSUME DockerInv, NEW d \in Calls, [DockerNext]_allVars
  PROVE  Placed(d)'
<1>. CallerTypes /\ SetTypes /\ PodTypes /\ VMTypes /\ EngineTypes /\ CommandTypes /\ TunnelTypes
  BY TypesInParts DEF DockerInv, CallsInv, CallInv
<1>. Placed(d) /\ CommandInv /\ \A e \in Calls : Placed(e)
  BY DEF DockerInv, CallsInv, CallInv
<1>. USE DEF Placed, CallerTypes, PodTypes, EngineTypes, InPod, InVM, InDocker, Boxed, Change,
         Return, ReturnFromPod, GoTo, Leave, CallOver, ReturnAtOnce, Closed,
         callerVars, podVars, vmVars, vars, engineVars, commandVars, tunnelVars,
         dockerVars, otherVars, clusterVars, running, nodeVars, Become, Due
<1>1. ASSUME NEW c \in Calls, Begin(c), UNCHANGED dockerVars PROVE Placed(d)'
  BY <1>1 DEF Begin
<1>2. ASSUME NEW c \in Calls, ReadEnds(c), UNCHANGED dockerVars PROVE Placed(d)'
  BY <1>2 DEF ReadEnds
<1>3. ASSUME NEW c \in Calls, CallReturns(c), UNCHANGED dockerVars PROVE Placed(d)'
  BY <1>3 DEF CallReturns
<1>4. ASSUME NEW c \in Calls, Cancel(c), UNCHANGED dockerVars PROVE Placed(d)'
  BY <1>4 DEF Cancel
<1>5. ASSUME NEW c \in Calls, PodRuns(c), UNCHANGED dockerVars PROVE Placed(d)'
  BY <1>5 DEF PodRuns
<1>6. ASSUME NEW c \in Calls, PodUpdates(c), UNCHANGED dockerVars PROVE Placed(d)'
  BY <1>6 DEF PodUpdates
<1>7. ASSUME NEW c \in Calls, PodEnds(c), UNCHANGED dockerVars PROVE Placed(d)'
  BY <1>7 DEF PodEnds
<1>8. ASSUME NEW c \in Calls, WatchCloses(c), UNCHANGED dockerVars PROVE Placed(d)'
  BY <1>8 DEF WatchCloses
<1>9. ASSUME NEW c \in Calls, DeleteTerminated(c), UNCHANGED dockerVars PROVE Placed(d)'
  BY <1>9 DEF DeleteTerminated, ToClear, Terminated
<1>10. ASSUME NEW c \in Calls, CreatePod(c), UNCHANGED dockerVars PROVE Placed(d)'
  BY <1>10 DEF CreatePod
<1>11. ASSUME NEW c \in Calls, WatchPod(c), UNCHANGED dockerVars PROVE Placed(d)'
  BY <1>11 DEF WatchPod
<1>12. ASSUME NEW c \in Calls, Refused(c), UNCHANGED dockerVars PROVE Placed(d)'
  BY <1>12 DEF Refused
<1>13. ASSUME NEW c \in Calls, SeeEvent(c), UNCHANGED dockerVars PROVE Placed(d)'
  BY <1>13 DEF SeeEvent
<1>14. ASSUME NEW c \in Calls, CopyEnds(c), UNCHANGED dockerVars PROVE Placed(d)'
  BY <1>14 DEF CopyEnds
<1>15. ASSUME NEW c \in Calls, CopyLastEnds(c), UNCHANGED dockerVars PROVE Placed(d)'
  BY <1>15 DEF CopyLastEnds
<1>16. ASSUME NEW c \in Calls, DeletePod(c), UNCHANGED dockerVars PROVE Placed(d)'
  BY <1>16 DEF DeletePod, InCluster, Terminated
<1>17. ASSUME NEW c \in Calls, JoinFlight(c), UNCHANGED dockerVars PROVE Placed(d)'
  BY <1>17, CallsAssumption DEF JoinFlight
<1>18. ASSUME NEW c \in Calls, Started(c), UNCHANGED dockerVars PROVE Placed(d)'
  BY <1>18, CallsAssumption DEF Started, InFlight, VMTypes
<1>19. ASSUME NEW c \in Calls, NotStarted(c), UNCHANGED dockerVars PROVE Placed(d)'
  BY <1>19, CallsAssumption DEF NotStarted, InFlight, VMTypes
<1>20. ASSUME NEW c \in Calls, DockerReturns(c), UNCHANGED dockerVars PROVE Placed(d)'
  BY <1>20 DEF DockerReturns
<1>21. ASSUME NEW c \in Calls, EnsureNetworkExists(c) PROVE Placed(d)'
  BY <1>21 DEF EnsureNetworkExists
<1>22. ASSUME NEW c \in Calls, EnsureNetworkAttached(c) PROVE Placed(d)'
  BY <1>22 DEF EnsureNetworkAttached
<1>23. ASSUME NEW c \in Calls, ReplaceNetwork(c) PROVE Placed(d)'
  BY <1>23 DEF ReplaceNetwork
<1>24. ASSUME NEW c \in Calls, CreateBox(c) PROVE Placed(d)'
  BY <1>24 DEF CreateBox
<1>25. ASSUME NEW c \in Calls, StartBox(c) PROVE Placed(d)'
  BY <1>25 DEF StartBox
<1>26. ASSUME NEW c \in Calls, SeeBoxExit(c) PROVE Placed(d)'
  <2>1. runtime = "docker" /\ box[c] # "running" => exit[c] # "none"
    BY <1>26 DEF SeeBoxExit, DockerInv, CallsInv, CallInv, BoxTold
  <2>2. CASE Leave(c, exit[c]) /\ box[c] # "running"
    BY <1>26, <2>1, <2>2 DEF SeeBoxExit
  <2>3. CASE Leave(c, "waitErred")
    BY <1>26, <2>1, <2>3 DEF SeeBoxExit
  <2>. QED
    BY <1>26, <2>2, <2>3 DEF SeeBoxExit
<1>27. ASSUME NEW c \in Calls, CleanUpBox(c) PROVE Placed(d)'
  BY <1>27 DEF CleanUpBox
<1>28. ASSUME NEW c \in Calls, BoxExits(c) PROVE Placed(d)'
  BY <1>28 DEF BoxExits
<1>29. ASSUME NEW c \in Calls, DockerRefuses(c) PROVE Placed(d)'
  BY <1>29 DEF DockerRefuses
<1>30. ASSUME NEW c \in Calls, WgUp(c) PROVE Placed(d)'
  BY <1>30 DEF WgUp
<1>31. ASSUME NEW c \in Calls, SetUpVm(c) PROVE Placed(d)'
  BY <1>31 DEF SetUpVm
<1>32. ASSUME NEW c \in Calls, CreateTunIfNotExists(c) PROVE Placed(d)'
  BY <1>32 DEF CreateTunIfNotExists
<1>33. ASSUME NEW c \in Calls, ConfigureDevice(c) PROVE Placed(d)'
  BY <1>33 DEF ConfigureDevice
<1>34. ASSUME NEW c \in Calls, StopBox(c) PROVE Placed(d)'
  BY <1>34 DEF StopBox
<1>35. ASSUME NEW c \in Calls, RemoveBox(c) PROVE Placed(d)'
  BY <1>35 DEF RemoveBox
<1>36. ASSUME VMStops, UNCHANGED dockerVars PROVE Placed(d)'
  BY <1>36 DEF VMStops
<1>37. ASSUME DeleteCollection, UNCHANGED dockerVars PROVE Placed(d)'
  BY <1>37 DEF DeleteCollection, InCluster, Terminated
<1>38. ASSUME VmRestarts PROVE Placed(d)'
  BY <1>38 DEF VmRestarts
<1>39. ASSUME SignalNode PROVE Placed(d)'
  BY <1>39 DEF SignalNode
<1>40. ASSUME Finish PROVE Placed(d)'
  BY <1>40 DEF Finish
<1>41. ASSUME List PROVE Placed(d)'
  BY <1>41 DEF List
<1>42. ASSUME NodeExits PROVE Placed(d)'
  BY <1>42 DEF NodeExits, CommandInv, Commanded
<1>43. ASSUME UNCHANGED allVars PROVE Placed(d)'
  BY <1>43 DEF allVars
<1>44. ASSUME NEW c \in Calls, ContextIsDone(c) PROVE Placed(d)'
  BY <1>44 DEF ContextIsDone
<1>45. ASSUME NEW c \in Calls, CleanUpEnds(c) PROVE Placed(d)'
  BY <1>45 DEF CleanUpEnds
<1>46. ASSUME NEW c \in Calls, Removed(c) PROVE Placed(d)'
  BY <1>46 DEF Removed, GiveUp
<1>47. ASSUME NEW c \in Calls, EngineRemoves(c) PROVE Placed(d)'
  BY <1>47 DEF EngineRemoves
<1>48. ASSUME NEW c \in Calls, EngineKeeps(c) PROVE Placed(d)'
  BY <1>48 DEF EngineKeeps, GiveUp
<1>. QED
  BY <1>1, <1>2, <1>3, <1>4, <1>5, <1>6, <1>7, <1>8, <1>9, <1>10, <1>11, <1>12, <1>13, <1>14,
     <1>15, <1>16, <1>17, <1>18, <1>19, <1>20, <1>21, <1>22, <1>23, <1>24, <1>25, <1>26, <1>27,
     <1>28, <1>29, <1>30, <1>31, <1>32, <1>33, <1>34, <1>35, <1>36, <1>37, <1>38, <1>39, <1>40,
     <1>41, <1>42, <1>43, <1>44, <1>45, <1>46, <1>47, <1>48
  DEF DockerNext, Next, CallStep, PodStep, VMStep, DockerStep,
     TunnelStep, CommandStep

-----------------------------------------------------------------------------
(* What they know of their containers *)

LEMMA StepPodTold ==
  ASSUME DockerInv, NEW d \in Calls, [DockerNext]_allVars
  PROVE  PodTold(d)'
<1>. DockerTypeOK /\ CallerTypes /\ SetTypes /\ PodTypes /\ VMTypes /\ EngineTypes
         /\ CommandTypes /\ TunnelTypes
  BY TypesInParts DEF DockerInv, CallsInv, CallInv
<1>. Placed(d) /\ PodTold(d) /\ BoxTold(d) /\ RanTold(d) /\ \A e \in Calls : Placed(e)
         /\ PodTold(e) /\ BoxTold(e) /\ RanTold(e)
  BY DEF DockerInv, CallsInv, CallInv
<1>. USE DEF PodTold, Placed, CallerTypes, PodTypes, InPod, InVM, InDocker, Boxed, GoTo,
         Return, Trouble, ReturnFromPod, Leave, CallOver, ReturnAtOnce,
         callerVars, podVars, vmVars, vars, engineVars, commandVars, tunnelVars,
         dockerVars, otherVars, clusterVars, running, nodeVars, Become, Due
<1>1. ASSUME NEW c \in Calls, Begin(c), UNCHANGED dockerVars PROVE PodTold(d)'
  BY <1>1 DEF Begin
<1>2. ASSUME NEW c \in Calls, ReadEnds(c), UNCHANGED dockerVars PROVE PodTold(d)'
  BY <1>2 DEF ReadEnds
<1>3. ASSUME NEW c \in Calls, CallReturns(c), UNCHANGED dockerVars PROVE PodTold(d)'
  BY <1>3 DEF CallReturns
<1>4. ASSUME NEW c \in Calls, Cancel(c), UNCHANGED dockerVars PROVE PodTold(d)'
  BY <1>4 DEF Cancel
<1>5. ASSUME NEW c \in Calls, PodRuns(c), UNCHANGED dockerVars PROVE PodTold(d)'
  <2>1. Change("Running", {c})
    BY <1>5 DEF PodRuns
  <2>2. "Running" = "gone" => \A e \in Calls : e \in {c} => pods[e] \in InCluster
    BY <1>5 DEF PodRuns, ToClear, InCluster, Terminated
  <2>3. "Running" \in InCluster \cup {"gone"}
    BY DEF InCluster, Terminated
  <2>4. \A p \in {"Succeeded", "Failed"} : Tells(events'[d], p) =>
           Tells(events[d], p) \/ (d \in {c} /\ p = "Running")
    <3>. HIDE DEF Placed, PodTold, CallerTypes, PodTypes
    <3>. QED
      BY <2>1, <2>2, <2>3, ChangeTells
  <2>. QED
    BY <2>1, <2>4, <1>5 DEF Change, PodRuns
<1>6. ASSUME NEW c \in Calls, PodUpdates(c), UNCHANGED dockerVars PROVE PodTold(d)'
  <2>1. Change("Running", {c})
    BY <1>6 DEF PodUpdates
  <2>2. "Running" = "gone" => \A e \in Calls : e \in {c} => pods[e] \in InCluster
    BY <1>6 DEF PodUpdates, ToClear, InCluster, Terminated
  <2>3. "Running" \in InCluster \cup {"gone"}
    BY DEF InCluster, Terminated
  <2>4. \A p \in {"Succeeded", "Failed"} : Tells(events'[d], p) =>
           Tells(events[d], p) \/ (d \in {c} /\ p = "Running")
    <3>. HIDE DEF Placed, PodTold, CallerTypes, PodTypes
    <3>. QED
      BY <2>1, <2>2, <2>3, ChangeTells
  <2>. QED
    BY <2>1, <2>4, <1>6 DEF Change, PodUpdates
<1>7. ASSUME NEW c \in Calls, PodEnds(c), UNCHANGED dockerVars PROVE PodTold(d)'
  <2>1. ASSUME NEW phase \in {"Succeeded", "Failed"}, Change(phase, {c}),
               exit' = [exit EXCEPT ![c] = IF phase = "Succeeded" THEN "zero" ELSE "nonzero"]
        PROVE  PodTold(d)'
    <3>1. phase \in InCluster \cup {"gone"} /\ phase # "gone"
      BY DEF InCluster, Terminated
    <3>2. \A p \in {"Succeeded", "Failed"} : Tells(events'[d], p) => Tells(events[d],
             p) \/ (d = c /\ p = phase)
      BY <2>1, <3>1, ChangeTells
    <3>. QED
      BY <2>1, <3>2, <1>7 DEF Change, PodEnds
  <2>. QED
    BY <2>1, <1>7 DEF PodEnds
<1>8. ASSUME NEW c \in Calls, WatchCloses(c), UNCHANGED dockerVars PROVE PodTold(d)'
  <2>1. \A p : Tells(Append(events[c], "closed"), p) => Tells(events[c], p) \/ p = "closed"
    <3>1. events[c] \in Seq(Told) /\ "closed" \in Told
      BY DEF Told
    <3>. QED
      BY <3>1, TellsAppend
  <2>. QED
    BY <2>1, <1>8 DEF WatchCloses
<1>9. ASSUME NEW c \in Calls, DeleteTerminated(c), UNCHANGED dockerVars PROVE PodTold(d)'
  <2>1. Change("gone", ToClear)
    BY <1>9 DEF DeleteTerminated
  <2>2. \A e \in Calls : e \in ToClear => pods[e] \in InCluster
    BY <1>9 DEF DeleteTerminated, ToClear, InCluster, Terminated
  <2>3. "gone" \in InCluster \cup {"gone"}
    BY DEF InCluster, Terminated
  <2>4. \A p \in {"Succeeded", "Failed"} : Tells(events'[d], p) =>
           Tells(events[d], p) \/ (d \in ToClear /\ p = pods[d])
    <3>. HIDE DEF Placed, PodTold, CallerTypes, PodTypes
    <3>. QED
      BY <2>1, <2>2, <2>3, GoneTells
  <2>. QED
    BY <2>1, <2>4, <1>9 DEF Change, DeleteTerminated, ToClear, Terminated
<1>10. ASSUME NEW c \in Calls, CreatePod(c), UNCHANGED dockerVars PROVE PodTold(d)'
  <2>1. Change("Pending", {c})
    BY <1>10 DEF CreatePod
  <2>2. "Pending" = "gone" => \A e \in Calls : e \in {c} => pods[e] \in InCluster
    BY <1>10 DEF CreatePod, ToClear, InCluster, Terminated
  <2>3. "Pending" \in InCluster \cup {"gone"}
    BY DEF InCluster, Terminated
  <2>4. \A p \in {"Succeeded", "Failed"} : Tells(events'[d], p) =>
           Tells(events[d], p) \/ (d \in {c} /\ p = "Pending")
    <3>. HIDE DEF Placed, PodTold, CallerTypes, PodTypes
    <3>. QED
      BY <2>1, <2>2, <2>3, ChangeTells
  <2>. QED
    BY <2>1, <2>4, <1>10 DEF Change, CreatePod
<1>11. ASSUME NEW c \in Calls, WatchPod(c), UNCHANGED dockerVars PROVE PodTold(d)'
  <2>1. \A p : (Tells(<<pods[c]>>, p) => pods[c] = p) /\ ~Tells(<<>>, p)
    BY TellsOne
  <2>. QED
    BY <2>1, <1>11 DEF WatchPod
<1>12. ASSUME NEW c \in Calls, Refused(c), UNCHANGED dockerVars PROVE PodTold(d)'
  <2>1. \A p : ~Tells(<<>>, p)
    BY TellsOne
  <2>. QED
    BY <2>1, <1>12 DEF Refused
<1>13. ASSUME NEW c \in Calls, SeeEvent(c), UNCHANGED dockerVars PROVE PodTold(d)'
  <2>1. events[c] \in Seq(Told) /\ events[c] # <<>>
    BY <1>13 DEF SeeEvent
  <2>2. /\ \A p : Tells(Tail(events[c]), p) => Tells(events[c], p)
        /\ Tells(events[c], Head(events[c]))
        /\ \A p : ~Tells(<<>>, p)
    BY <2>1, TellsTail, TellsOne
  <2>3. UNCHANGED <<exit, pods, logs, troubled>>
    BY <1>13 DEF SeeEvent
  <2>4. CASE events' = [events EXCEPT ![c] = Tail(@)] /\ at' = at
    BY <2>2, <2>3, <2>4
  <2>5. CASE /\ Head(events[c]) \in {"Running", "Failed"} /\ pods[c] # "gone"
             /\ GoTo(c, IF Head(events[c]) = "Running" THEN "copying" ELSE "copyingLast")
             /\ events' = [events EXCEPT ![c] = Tail(@)]
    BY <2>2, <2>3, <2>5
  <2>6. CASE \E what : ReturnFromPod(c, what)
    BY <2>2, <2>3, <2>6 DEF ReturnFromPod, Return
  <2>. QED
    BY <2>4, <2>5, <2>6, <1>13 DEF SeeEvent
<1>14. ASSUME NEW c \in Calls, CopyEnds(c), UNCHANGED dockerVars PROVE PodTold(d)'
  BY <1>14 DEF CopyEnds, Copied, Terminated
<1>15. ASSUME NEW c \in Calls, CopyLastEnds(c), UNCHANGED dockerVars PROVE PodTold(d)'
  <2>1. \A p : ~Tells(<<>>, p)
    BY TellsOne
  <2>. QED
    BY <2>1, <1>15 DEF CopyLastEnds, Copied, Terminated
<1>16. ASSUME NEW c \in Calls, DeletePod(c), UNCHANGED dockerVars PROVE PodTold(d)'
  <2>1. Change("gone", {c})
    BY <1>16 DEF DeletePod
  <2>2. \A e \in Calls : e \in {c} => pods[e] \in InCluster
    BY <1>16 DEF DeletePod, ToClear, InCluster, Terminated
  <2>3. "gone" \in InCluster \cup {"gone"}
    BY DEF InCluster, Terminated
  <2>4. \A p \in {"Succeeded", "Failed"} : Tells(events'[d], p) =>
           Tells(events[d], p) \/ (d \in {c} /\ p = pods[d])
    <3>. HIDE DEF Placed, PodTold, CallerTypes, PodTypes
    <3>. QED
      BY <2>1, <2>2, <2>3, GoneTells
  <2>. QED
    BY <2>1, <2>4, <1>16 DEF Change, DeletePod, InCluster, Terminated
<1>17. ASSUME NEW c \in Calls, JoinFlight(c), UNCHANGED dockerVars PROVE PodTold(d)'
  BY <1>17 DEF JoinFlight
<1>18. ASSUME NEW c \in Calls, Started(c), UNCHANGED dockerVars PROVE PodTold(d)'
  BY <1>18 DEF Started
<1>19. ASSUME NEW c \in Calls, NotStarted(c), UNCHANGED dockerVars PROVE PodTold(d)'
  BY <1>19 DEF NotStarted
<1>20. ASSUME NEW c \in Calls, DockerReturns(c), UNCHANGED dockerVars PROVE PodTold(d)'
  BY <1>20 DEF DockerReturns
<1>21. ASSUME NEW c \in Calls, EnsureNetworkExists(c) PROVE PodTold(d)'
  BY <1>21 DEF EnsureNetworkExists
<1>22. ASSUME NEW c \in Calls, EnsureNetworkAttached(c) PROVE PodTold(d)'
  BY <1>22 DEF EnsureNetworkAttached
<1>23. ASSUME NEW c \in Calls, ReplaceNetwork(c) PROVE PodTold(d)'
  BY <1>23 DEF ReplaceNetwork
<1>24. ASSUME NEW c \in Calls, CreateBox(c) PROVE PodTold(d)'
  BY <1>24 DEF CreateBox
<1>25. ASSUME NEW c \in Calls, StartBox(c) PROVE PodTold(d)'
  BY <1>25 DEF StartBox
<1>26. ASSUME NEW c \in Calls, SeeBoxExit(c) PROVE PodTold(d)'
  BY <1>26 DEF SeeBoxExit
<1>27. ASSUME NEW c \in Calls, CleanUpBox(c) PROVE PodTold(d)'
  BY <1>27 DEF CleanUpBox
<1>28. ASSUME NEW c \in Calls, BoxExits(c) PROVE PodTold(d)'
  BY <1>28 DEF BoxExits
<1>29. ASSUME NEW c \in Calls, DockerRefuses(c) PROVE PodTold(d)'
  BY <1>29 DEF DockerRefuses
<1>30. ASSUME NEW c \in Calls, WgUp(c) PROVE PodTold(d)'
  BY <1>30 DEF WgUp
<1>31. ASSUME NEW c \in Calls, SetUpVm(c) PROVE PodTold(d)'
  BY <1>31 DEF SetUpVm
<1>32. ASSUME NEW c \in Calls, CreateTunIfNotExists(c) PROVE PodTold(d)'
  BY <1>32 DEF CreateTunIfNotExists
<1>33. ASSUME NEW c \in Calls, ConfigureDevice(c) PROVE PodTold(d)'
  BY <1>33 DEF ConfigureDevice
<1>34. ASSUME NEW c \in Calls, StopBox(c) PROVE PodTold(d)'
  BY <1>34 DEF StopBox
<1>35. ASSUME NEW c \in Calls, RemoveBox(c) PROVE PodTold(d)'
  BY <1>35 DEF RemoveBox
<1>36. ASSUME VMStops, UNCHANGED dockerVars PROVE PodTold(d)'
  BY <1>36 DEF VMStops
<1>37. ASSUME DeleteCollection, UNCHANGED dockerVars PROVE PodTold(d)'
  <2>1. Change("gone", {x \in Calls : pods[x] \in InCluster})
    BY <1>37 DEF DeleteCollection
  <2>2. \A e \in Calls : e \in {x \in Calls : pods[x] \in InCluster} => pods[e] \in InCluster
    BY <1>37 DEF DeleteCollection, ToClear, InCluster, Terminated
  <2>3. "gone" \in InCluster \cup {"gone"}
    BY DEF InCluster, Terminated
  <2>4. \A p \in {"Succeeded", "Failed"} : Tells(events'[d], p) =>
           Tells(events[d], p) \/ (d \in {x \in Calls : pods[x] \in InCluster} /\ p = pods[d])
    <3>. HIDE DEF Placed, PodTold, CallerTypes, PodTypes
    <3>. QED
      BY <2>1, <2>2, <2>3, GoneTells
  <2>. QED
    BY <2>1, <2>4, <1>37 DEF Change, DeleteCollection, InCluster, Terminated
<1>38. ASSUME VmRestarts PROVE PodTold(d)'
  BY <1>38 DEF VmRestarts
<1>39. ASSUME SignalNode PROVE PodTold(d)'
  BY <1>39 DEF SignalNode
<1>40. ASSUME Finish PROVE PodTold(d)'
  BY <1>40 DEF Finish
<1>41. ASSUME List PROVE PodTold(d)'
  BY <1>41 DEF List
<1>42. ASSUME NodeExits PROVE PodTold(d)'
  BY <1>42 DEF NodeExits, CommandInv, Commanded, DockerInv
<1>43. ASSUME UNCHANGED allVars PROVE PodTold(d)'
  BY <1>43 DEF allVars
<1>44. ASSUME NEW c \in Calls, ContextIsDone(c) PROVE PodTold(d)'
  BY <1>44 DEF ContextIsDone
<1>45. ASSUME NEW c \in Calls, CleanUpEnds(c) PROVE PodTold(d)'
  BY <1>45 DEF CleanUpEnds
<1>46. ASSUME NEW c \in Calls, Removed(c) PROVE PodTold(d)'
  BY <1>46 DEF Removed, GiveUp
<1>47. ASSUME NEW c \in Calls, EngineRemoves(c) PROVE PodTold(d)'
  BY <1>47 DEF EngineRemoves
<1>48. ASSUME NEW c \in Calls, EngineKeeps(c) PROVE PodTold(d)'
  BY <1>48 DEF EngineKeeps, GiveUp
<1>. QED
  BY <1>1, <1>2, <1>3, <1>4, <1>5, <1>6, <1>7, <1>8, <1>9, <1>10, <1>11, <1>12, <1>13, <1>14,
     <1>15, <1>16, <1>17, <1>18, <1>19, <1>20, <1>21, <1>22, <1>23, <1>24, <1>25, <1>26, <1>27,
     <1>28, <1>29, <1>30, <1>31, <1>32, <1>33, <1>34, <1>35, <1>36, <1>37, <1>38, <1>39, <1>40,
     <1>41, <1>42, <1>43, <1>44, <1>45, <1>46, <1>47, <1>48
  DEF DockerNext, Next, CallStep, PodStep, VMStep, DockerStep,
     TunnelStep, CommandStep


LEMMA StepOwed ==
  ASSUME DockerInv, NEW d \in Calls, [DockerNext]_allVars
  PROVE  Owed(d)'
<1>. DockerTypeOK /\ CallerTypes /\ SetTypes /\ PodTypes /\ VMTypes /\ EngineTypes
         /\ CommandTypes /\ TunnelTypes
  BY TypesInParts DEF DockerInv, CallsInv, CallInv
<1>. Placed(d) /\ PodTold(d) /\ Owed(d) /\ RanTold(d)
  BY DEF DockerInv, CallsInv, CallInv
<1>. USE DEF Owed, Placed, CallerTypes, PodTypes, InPod, InVM, InDocker, Boxed, GoTo,
         Return, Trouble, ReturnFromPod, Leave, CallOver, ReturnAtOnce,
         callerVars, podVars, vmVars, vars, engineVars, commandVars, tunnelVars,
         dockerVars, otherVars, clusterVars, running, nodeVars, Become, Due
<1>1. ASSUME NEW c \in Calls, Begin(c), UNCHANGED dockerVars PROVE Owed(d)'
  BY <1>1 DEF Begin
<1>2. ASSUME NEW c \in Calls, ReadEnds(c), UNCHANGED dockerVars PROVE Owed(d)'
  BY <1>2 DEF ReadEnds
<1>3. ASSUME NEW c \in Calls, CallReturns(c), UNCHANGED dockerVars PROVE Owed(d)'
  BY <1>3 DEF CallReturns
<1>4. ASSUME NEW c \in Calls, Cancel(c), UNCHANGED dockerVars PROVE Owed(d)'
  BY <1>4 DEF Cancel
<1>5. ASSUME NEW c \in Calls, PodRuns(c), UNCHANGED dockerVars PROVE Owed(d)'
  <2>1. Change("Running", {c})
    BY <1>5 DEF PodRuns
  <2>2. "Running" \in InCluster \cup {"gone"}
    BY DEF InCluster, Terminated
  <2>3. /\ Ahead(events[d]) => Ahead(events'[d])
        /\ (d = c /\ IsOpen(d) /\ ~Tells(events[d], "Succeeded") /\ ~Tells(events[d], "Failed"))
              => Ahead(events'[d])
    BY <2>1, <2>2, ChangeKeepsAhead
  <2>4. CASE d = c /\ IsOpen(c)
    <3>1. pods[d] = "Pending" /\ UNCHANGED at
      BY <1>5, <2>4 DEF PodRuns
    <3>2. Ahead(events'[d])
      BY <2>3, <2>4, <3>1 DEF PodTold
    <3>3. at[d] \in {"watching", "copying"}
      BY <2>4, <3>1 DEF IsOpen, Watching, PodTold
    <3>. QED
      BY <3>1, <3>2, <3>3
  <2>5. CASE d # c \/ ~IsOpen(c)
    BY <1>5, <2>3, <2>5 DEF PodRuns
  <2>. QED
    BY <2>4, <2>5
<1>6. ASSUME NEW c \in Calls, PodUpdates(c), UNCHANGED dockerVars PROVE Owed(d)'
  <2>1. Change("Running", {c})
    BY <1>6 DEF PodUpdates
  <2>2. "Running" \in InCluster \cup {"gone"}
    BY DEF InCluster, Terminated
  <2>3. Ahead(events[d]) => Ahead(events'[d])
    BY <2>1, <2>2, ChangeKeepsAhead
  <2>. QED
    BY <2>3, <1>6 DEF PodUpdates
<1>7. ASSUME NEW c \in Calls, PodEnds(c), UNCHANGED dockerVars PROVE Owed(d)'
  <2>1. ASSUME NEW phase \in {"Succeeded", "Failed"}, Change(phase, {c})
        PROVE  Ahead(events[d]) => Ahead(events'[d])
    <3>1. phase \in InCluster \cup {"gone"}
      BY DEF InCluster, Terminated
    <3>. QED
      BY <2>1, <3>1, ChangeKeepsAhead
  <2>2. Ahead(events[d]) => Ahead(events'[d])
    BY <2>1, <1>7 DEF PodEnds
  <2>. QED
    BY <2>2, <1>7 DEF PodEnds
<1>8. ASSUME NEW c \in Calls, WatchCloses(c), UNCHANGED dockerVars PROVE Owed(d)'
  <2>1. events[c] \in Seq(Told) /\ "closed" \in Told
    BY DEF Told
  <2>2. Ahead(events[c]) => Ahead(Append(events[c], "closed"))
    BY <2>1, AheadAppend
  <2>. QED
    BY <2>2, <1>8 DEF WatchCloses
<1>9. ASSUME NEW c \in Calls, DeleteTerminated(c), UNCHANGED dockerVars PROVE Owed(d)'
  <2>1. Change("gone", ToClear)
    BY <1>9 DEF DeleteTerminated
  <2>2. "gone" \in InCluster \cup {"gone"}
    BY DEF InCluster, Terminated
  <2>3. Ahead(events[d]) => Ahead(events'[d])
    BY <2>1, <2>2, ChangeKeepsAhead
  <2>. QED
    BY <2>3, <1>9 DEF DeleteTerminated
<1>10. ASSUME NEW c \in Calls, CreatePod(c), UNCHANGED dockerVars PROVE Owed(d)'
  <2>1. Change("Pending", {c})
    BY <1>10 DEF CreatePod
  <2>2. "Pending" \in InCluster \cup {"gone"}
    BY DEF InCluster, Terminated
  <2>3. Ahead(events[d]) => Ahead(events'[d])
    BY <2>1, <2>2, ChangeKeepsAhead
  <2>. QED
    BY <2>3, <1>10 DEF CreatePod
<1>11. ASSUME NEW c \in Calls, WatchPod(c), UNCHANGED dockerVars PROVE Owed(d)'
  <2>1. Ahead(<<"Running">>)
    BY DEF Ahead
  <2>2. /\ at[c] = "created"
        /\ events' = [events EXCEPT ![c] = IF pods[c] = "gone" THEN <<>> ELSE <<pods[c]>>]
        /\ at' = [at EXCEPT ![c] = "watching"] /\ UNCHANGED <<ran, troubled>>
        /\ IF pods[c] = "Running" THEN logs' = [logs EXCEPT ![c] = "due"] ELSE UNCHANGED logs
    BY <1>11 DEF WatchPod
  <2>3. CASE pods[c] = "Running"
    <3>1. events'[c] = <<"Running">>
      BY <2>2, <2>3
    <3>2. Ahead(events'[c])
      BY <2>1, <3>1
    <3>. QED
      BY <2>2, <2>3, <3>2
  <2>4. CASE pods[c] # "Running"
    BY <2>2, <2>4
  <2>. QED
    BY <2>3, <2>4
<1>12. ASSUME NEW c \in Calls, Refused(c), UNCHANGED dockerVars PROVE Owed(d)'
  BY <1>12 DEF Refused
<1>13. ASSUME NEW c \in Calls, SeeEvent(c), UNCHANGED dockerVars PROVE Owed(d)'
  <2>1. events[c] \in Seq(Told) /\ events[c] # <<>> /\ at[c] = "watching" /\ ran[c] = "none"
    <3>1. events[c] # <<>> /\ at[c] = "watching"
      BY <1>13 DEF SeeEvent
    <3>2. Placed(c)
      BY DEF DockerInv, CallsInv, CallInv
    <3>. QED
      BY <3>1, <3>2
  <2>2. Ahead(events[c]) => /\ Head(events[c]) \notin Terminated
                            /\ Head(events[c]) # "Running" => Ahead(Tail(events[c]))
    BY <2>1, AheadTail
  <2>3. UNCHANGED <<pods, logs, troubled>>
    BY <1>13 DEF SeeEvent
  <2>4. CASE Head(events[c]) = "Pending" /\ events' = [events EXCEPT ![c] = Tail(@)]
             /\ UNCHANGED <<at, ran>>
    BY <2>1, <2>2, <2>3, <2>4
  <2>5. CASE /\ Head(events[c]) \in {"Running", "Failed"}
             /\ GoTo(c, IF Head(events[c]) = "Running" THEN "copying" ELSE "copyingLast")
             /\ events' = [events EXCEPT ![c] = Tail(@)] /\ UNCHANGED ran
    BY <2>1, <2>2, <2>3, <2>5 DEF Terminated
  <2>6. CASE ReturnFromPod(c, "error") \/ ReturnFromPod(c, "watchEnded")
    BY <2>1, <2>3, <2>6
  <2>7. CASE Head(events[c]) = "Succeeded" /\ ReturnFromPod(c, "zero")
    BY <2>1, <2>2, <2>3, <2>7 DEF Terminated
  <2>. QED
    BY <2>4, <2>5, <2>6, <2>7, <1>13 DEF SeeEvent
<1>14. ASSUME NEW c \in Calls, CopyEnds(c), UNCHANGED dockerVars PROVE Owed(d)'
  BY <1>14 DEF CopyEnds, Copied
<1>15. ASSUME NEW c \in Calls, CopyLastEnds(c), UNCHANGED dockerVars PROVE Owed(d)'
  BY <1>15 DEF CopyLastEnds, Copied
<1>16. ASSUME NEW c \in Calls, DeletePod(c), UNCHANGED dockerVars PROVE Owed(d)'
  <2>1. Change("gone", {c})
    BY <1>16 DEF DeletePod
  <2>2. "gone" \in InCluster \cup {"gone"}
    BY DEF InCluster, Terminated
  <2>3. Ahead(events[d]) => Ahead(events'[d])
    BY <2>1, <2>2, ChangeKeepsAhead
  <2>. QED
    BY <2>3, <1>16 DEF DeletePod
<1>17. ASSUME NEW c \in Calls, JoinFlight(c), UNCHANGED dockerVars PROVE Owed(d)'
  BY <1>17 DEF JoinFlight
<1>18. ASSUME NEW c \in Calls, Started(c), UNCHANGED dockerVars PROVE Owed(d)'
  BY <1>18 DEF Started, InFlight, VMTypes
<1>19. ASSUME NEW c \in Calls, NotStarted(c), UNCHANGED dockerVars PROVE Owed(d)'
  BY <1>19 DEF NotStarted
<1>20. ASSUME NEW c \in Calls, DockerReturns(c), UNCHANGED dockerVars PROVE Owed(d)'
  BY <1>20 DEF DockerReturns
<1>21. ASSUME NEW c \in Calls, EnsureNetworkExists(c) PROVE Owed(d)'
  BY <1>21 DEF EnsureNetworkExists
<1>22. ASSUME NEW c \in Calls, EnsureNetworkAttached(c) PROVE Owed(d)'
  BY <1>22 DEF EnsureNetworkAttached
<1>23. ASSUME NEW c \in Calls, ReplaceNetwork(c) PROVE Owed(d)'
  BY <1>23 DEF ReplaceNetwork
<1>24. ASSUME NEW c \in Calls, CreateBox(c) PROVE Owed(d)'
  BY <1>24 DEF CreateBox
<1>25. ASSUME NEW c \in Calls, StartBox(c) PROVE Owed(d)'
  BY <1>25 DEF StartBox
<1>26. ASSUME NEW c \in Calls, SeeBoxExit(c) PROVE Owed(d)'
  BY <1>26 DEF SeeBoxExit
<1>27. ASSUME NEW c \in Calls, CleanUpBox(c) PROVE Owed(d)'
  BY <1>27 DEF CleanUpBox
<1>28. ASSUME NEW c \in Calls, BoxExits(c) PROVE Owed(d)'
  BY <1>28 DEF BoxExits
<1>29. ASSUME NEW c \in Calls, DockerRefuses(c) PROVE Owed(d)'
  BY <1>29 DEF DockerRefuses
<1>30. ASSUME NEW c \in Calls, WgUp(c) PROVE Owed(d)'
  BY <1>30 DEF WgUp
<1>31. ASSUME NEW c \in Calls, SetUpVm(c) PROVE Owed(d)'
  BY <1>31 DEF SetUpVm
<1>32. ASSUME NEW c \in Calls, CreateTunIfNotExists(c) PROVE Owed(d)'
  BY <1>32 DEF CreateTunIfNotExists
<1>33. ASSUME NEW c \in Calls, ConfigureDevice(c) PROVE Owed(d)'
  BY <1>33 DEF ConfigureDevice
<1>34. ASSUME NEW c \in Calls, StopBox(c) PROVE Owed(d)'
  BY <1>34 DEF StopBox
<1>35. ASSUME NEW c \in Calls, RemoveBox(c) PROVE Owed(d)'
  BY <1>35 DEF RemoveBox
<1>36. ASSUME NEW c \in Calls, ContextIsDone(c) PROVE Owed(d)'
  BY <1>36 DEF ContextIsDone
<1>37. ASSUME NEW c \in Calls, CleanUpEnds(c) PROVE Owed(d)'
  BY <1>37 DEF CleanUpEnds
<1>38. ASSUME NEW c \in Calls, Removed(c) PROVE Owed(d)'
  BY <1>38 DEF Removed, GiveUp
<1>39. ASSUME NEW c \in Calls, EngineRemoves(c) PROVE Owed(d)'
  BY <1>39 DEF EngineRemoves
<1>40. ASSUME NEW c \in Calls, EngineKeeps(c) PROVE Owed(d)'
  BY <1>40 DEF EngineKeeps, GiveUp
<1>41. ASSUME VMStops, UNCHANGED dockerVars PROVE Owed(d)'
  BY <1>41 DEF VMStops
<1>42. ASSUME DeleteCollection, UNCHANGED dockerVars PROVE Owed(d)'
  <2>1. Change("gone", {x \in Calls : pods[x] \in InCluster})
    BY <1>42 DEF DeleteCollection
  <2>2. "gone" \in InCluster \cup {"gone"}
    BY DEF InCluster, Terminated
  <2>3. Ahead(events[d]) => Ahead(events'[d])
    BY <2>1, <2>2, ChangeKeepsAhead
  <2>. QED
    BY <2>3, <1>42 DEF DeleteCollection
<1>43. ASSUME VmRestarts PROVE Owed(d)'
  BY <1>43 DEF VmRestarts
<1>44. ASSUME SignalNode PROVE Owed(d)'
  BY <1>44 DEF SignalNode
<1>45. ASSUME Finish PROVE Owed(d)'
  BY <1>45 DEF Finish
<1>46. ASSUME List PROVE Owed(d)'
  BY <1>46 DEF List
<1>47. ASSUME NodeExits PROVE Owed(d)'
  BY <1>47 DEF NodeExits, CommandInv, Commanded, DockerInv
<1>48. ASSUME UNCHANGED allVars PROVE Owed(d)'
  BY <1>48 DEF allVars
<1>. QED
  BY <1>1, <1>2, <1>3, <1>4, <1>5, <1>6, <1>7, <1>8, <1>9, <1>10, <1>11, <1>12, <1>13, <1>14,
     <1>15, <1>16, <1>17, <1>18, <1>19, <1>20, <1>21, <1>22, <1>23, <1>24, <1>25, <1>26, <1>27,
     <1>28, <1>29, <1>30, <1>31, <1>32, <1>33, <1>34, <1>35, <1>36, <1>37, <1>38, <1>39, <1>40,
     <1>41, <1>42, <1>43, <1>44, <1>45, <1>46, <1>47, <1>48
  DEF DockerNext, Next, CallStep, PodStep, VMStep, DockerStep,
     TunnelStep, CommandStep


LEMMA StepBoxTold ==
  ASSUME DockerInv, NEW d \in Calls, [DockerNext]_allVars
  PROVE  BoxTold(d)'
<1>. CallerTypes /\ SetTypes /\ PodTypes /\ VMTypes /\ EngineTypes /\ CommandTypes /\ TunnelTypes
  BY TypesInParts DEF DockerInv, CallsInv, CallInv
<1>. Placed(d) /\ PodTold(d) /\ BoxTold(d) /\ RanTold(d)
  BY DEF DockerInv, CallsInv, CallInv
<1>. USE DEF BoxTold, Removing, Placed, CallerTypes, PodTypes, EngineTypes, InPod, InVM, InDocker, Boxed,
         GoTo, Return, Trouble, ReturnFromPod, Leave, CallOver, ReturnAtOnce, Change,
         callerVars, podVars, vmVars, vars, engineVars, commandVars, tunnelVars,
         dockerVars, otherVars, clusterVars, running, nodeVars, Become, Due
<1>1. ASSUME NEW c \in Calls, Begin(c), UNCHANGED dockerVars PROVE BoxTold(d)'
  BY <1>1 DEF Begin
<1>2. ASSUME NEW c \in Calls, ReadEnds(c), UNCHANGED dockerVars PROVE BoxTold(d)'
  BY <1>2 DEF ReadEnds
<1>3. ASSUME NEW c \in Calls, CallReturns(c), UNCHANGED dockerVars PROVE BoxTold(d)'
  BY <1>3 DEF CallReturns
<1>4. ASSUME NEW c \in Calls, Cancel(c), UNCHANGED dockerVars PROVE BoxTold(d)'
  BY <1>4 DEF Cancel
<1>5. ASSUME NEW c \in Calls, PodRuns(c), UNCHANGED dockerVars PROVE BoxTold(d)'
  BY <1>5 DEF PodRuns
<1>6. ASSUME NEW c \in Calls, PodUpdates(c), UNCHANGED dockerVars PROVE BoxTold(d)'
  BY <1>6 DEF PodUpdates
<1>7. ASSUME NEW c \in Calls, PodEnds(c), UNCHANGED dockerVars PROVE BoxTold(d)'
  BY <1>7 DEF PodEnds
<1>8. ASSUME NEW c \in Calls, WatchCloses(c), UNCHANGED dockerVars PROVE BoxTold(d)'
  BY <1>8 DEF WatchCloses
<1>9. ASSUME NEW c \in Calls, DeleteTerminated(c), UNCHANGED dockerVars PROVE BoxTold(d)'
  BY <1>9 DEF DeleteTerminated, ToClear, Terminated
<1>10. ASSUME NEW c \in Calls, CreatePod(c), UNCHANGED dockerVars PROVE BoxTold(d)'
  BY <1>10 DEF CreatePod
<1>11. ASSUME NEW c \in Calls, WatchPod(c), UNCHANGED dockerVars PROVE BoxTold(d)'
  BY <1>11 DEF WatchPod
<1>12. ASSUME NEW c \in Calls, Refused(c), UNCHANGED dockerVars PROVE BoxTold(d)'
  BY <1>12 DEF Refused
<1>13. ASSUME NEW c \in Calls, SeeEvent(c), UNCHANGED dockerVars PROVE BoxTold(d)'
  BY <1>13 DEF SeeEvent
<1>14. ASSUME NEW c \in Calls, CopyEnds(c), UNCHANGED dockerVars PROVE BoxTold(d)'
  BY <1>14 DEF CopyEnds
<1>15. ASSUME NEW c \in Calls, CopyLastEnds(c), UNCHANGED dockerVars PROVE BoxTold(d)'
  BY <1>15 DEF CopyLastEnds
<1>16. ASSUME NEW c \in Calls, DeletePod(c), UNCHANGED dockerVars PROVE BoxTold(d)'
  BY <1>16 DEF DeletePod, InCluster, Terminated
<1>17. ASSUME NEW c \in Calls, JoinFlight(c), UNCHANGED dockerVars PROVE BoxTold(d)'
  BY <1>17 DEF JoinFlight
<1>18. ASSUME NEW c \in Calls, Started(c), UNCHANGED dockerVars PROVE BoxTold(d)'
  BY <1>18 DEF Started, InFlight, VMTypes
<1>19. ASSUME NEW c \in Calls, NotStarted(c), UNCHANGED dockerVars PROVE BoxTold(d)'
  BY <1>19 DEF NotStarted, InFlight, VMTypes
<1>20. ASSUME NEW c \in Calls, DockerReturns(c), UNCHANGED dockerVars PROVE BoxTold(d)'
  BY <1>20 DEF DockerReturns
<1>21. ASSUME NEW c \in Calls, EnsureNetworkExists(c) PROVE BoxTold(d)'
  BY <1>21 DEF EnsureNetworkExists
<1>22. ASSUME NEW c \in Calls, EnsureNetworkAttached(c) PROVE BoxTold(d)'
  BY <1>22 DEF EnsureNetworkAttached
<1>23. ASSUME NEW c \in Calls, ReplaceNetwork(c) PROVE BoxTold(d)'
  BY <1>23 DEF ReplaceNetwork
<1>24. ASSUME NEW c \in Calls, CreateBox(c) PROVE BoxTold(d)'
  BY <1>24 DEF CreateBox
<1>25. ASSUME NEW c \in Calls, StartBox(c) PROVE BoxTold(d)'
  BY <1>25 DEF StartBox
<1>26. ASSUME NEW c \in Calls, SeeBoxExit(c) PROVE BoxTold(d)'
  BY <1>26 DEF SeeBoxExit
<1>27. ASSUME NEW c \in Calls, CleanUpBox(c) PROVE BoxTold(d)'
  BY <1>27 DEF CleanUpBox
<1>28. ASSUME NEW c \in Calls, BoxExits(c) PROVE BoxTold(d)'
  BY <1>28 DEF BoxExits
<1>29. ASSUME NEW c \in Calls, DockerRefuses(c) PROVE BoxTold(d)'
  BY <1>29 DEF DockerRefuses
<1>30. ASSUME NEW c \in Calls, WgUp(c) PROVE BoxTold(d)'
  BY <1>30 DEF WgUp
<1>31. ASSUME NEW c \in Calls, SetUpVm(c) PROVE BoxTold(d)'
  BY <1>31 DEF SetUpVm
<1>32. ASSUME NEW c \in Calls, CreateTunIfNotExists(c) PROVE BoxTold(d)'
  BY <1>32 DEF CreateTunIfNotExists
<1>33. ASSUME NEW c \in Calls, ConfigureDevice(c) PROVE BoxTold(d)'
  BY <1>33 DEF ConfigureDevice
<1>34. ASSUME NEW c \in Calls, StopBox(c) PROVE BoxTold(d)'
  BY <1>34 DEF StopBox
<1>35. ASSUME NEW c \in Calls, RemoveBox(c) PROVE BoxTold(d)'
  BY <1>35 DEF RemoveBox
<1>36. ASSUME VMStops, UNCHANGED dockerVars PROVE BoxTold(d)'
  BY <1>36 DEF VMStops
<1>37. ASSUME DeleteCollection, UNCHANGED dockerVars PROVE BoxTold(d)'
  BY <1>37 DEF DeleteCollection, InCluster, Terminated
<1>38. ASSUME VmRestarts PROVE BoxTold(d)'
  BY <1>38 DEF VmRestarts
<1>39. ASSUME SignalNode PROVE BoxTold(d)'
  BY <1>39 DEF SignalNode
<1>40. ASSUME Finish PROVE BoxTold(d)'
  BY <1>40 DEF Finish
<1>41. ASSUME List PROVE BoxTold(d)'
  BY <1>41 DEF List
<1>42. ASSUME NodeExits PROVE BoxTold(d)'
  BY <1>42 DEF NodeExits, CommandInv, Commanded, DockerInv
<1>43. ASSUME UNCHANGED allVars PROVE BoxTold(d)'
  BY <1>43 DEF allVars
<1>44. ASSUME NEW c \in Calls, ContextIsDone(c) PROVE BoxTold(d)'
  BY <1>44 DEF ContextIsDone
<1>45. ASSUME NEW c \in Calls, CleanUpEnds(c) PROVE BoxTold(d)'
  BY <1>45 DEF CleanUpEnds
<1>46. ASSUME NEW c \in Calls, Removed(c) PROVE BoxTold(d)'
  BY <1>46 DEF Removed, GiveUp
<1>47. ASSUME NEW c \in Calls, EngineRemoves(c) PROVE BoxTold(d)'
  BY <1>47 DEF EngineRemoves
<1>48. ASSUME NEW c \in Calls, EngineKeeps(c) PROVE BoxTold(d)'
  BY <1>48 DEF EngineKeeps, GiveUp
<1>. QED
  BY <1>1, <1>2, <1>3, <1>4, <1>5, <1>6, <1>7, <1>8, <1>9, <1>10, <1>11, <1>12, <1>13, <1>14,
     <1>15, <1>16, <1>17, <1>18, <1>19, <1>20, <1>21, <1>22, <1>23, <1>24, <1>25, <1>26, <1>27,
     <1>28, <1>29, <1>30, <1>31, <1>32, <1>33, <1>34, <1>35, <1>36, <1>37, <1>38, <1>39, <1>40,
     <1>41, <1>42, <1>43, <1>44, <1>45, <1>46, <1>47, <1>48
  DEF DockerNext, Next, CallStep, PodStep, VMStep, DockerStep,
     TunnelStep, CommandStep

LEMMA StepRanTold ==
  ASSUME DockerInv, NEW d \in Calls, [DockerNext]_allVars
  PROVE  RanTold(d)'
<1>. CallerTypes /\ SetTypes /\ PodTypes /\ VMTypes /\ EngineTypes /\ CommandTypes /\ TunnelTypes
  BY TypesInParts DEF DockerInv, CallsInv, CallInv
<1>. Placed(d) /\ PodTold(d) /\ BoxTold(d) /\ RanTold(d)
  BY DEF DockerInv, CallsInv, CallInv
<1>. USE DEF RanTold, Placed, CallerTypes, PodTypes, EngineTypes, InPod, InVM, InDocker, Boxed,
         GoTo, Return, Trouble, ReturnFromPod, Leave, CallOver, ReturnAtOnce, Change,
         callerVars, podVars, vmVars, vars, engineVars, commandVars, tunnelVars,
         dockerVars, otherVars, clusterVars, running, nodeVars, Become, Due
<1>1. ASSUME NEW c \in Calls, Begin(c), UNCHANGED dockerVars PROVE RanTold(d)'
  BY <1>1 DEF Begin
<1>2. ASSUME NEW c \in Calls, ReadEnds(c), UNCHANGED dockerVars PROVE RanTold(d)'
  BY <1>2 DEF ReadEnds
<1>3. ASSUME NEW c \in Calls, CallReturns(c), UNCHANGED dockerVars PROVE RanTold(d)'
  BY <1>3 DEF CallReturns, Failed
<1>4. ASSUME NEW c \in Calls, Cancel(c), UNCHANGED dockerVars PROVE RanTold(d)'
  BY <1>4 DEF Cancel
<1>5. ASSUME NEW c \in Calls, PodRuns(c), UNCHANGED dockerVars PROVE RanTold(d)'
  BY <1>5 DEF PodRuns
<1>6. ASSUME NEW c \in Calls, PodUpdates(c), UNCHANGED dockerVars PROVE RanTold(d)'
  BY <1>6 DEF PodUpdates
<1>7. ASSUME NEW c \in Calls, PodEnds(c), UNCHANGED dockerVars PROVE RanTold(d)'
  BY <1>7 DEF PodEnds
<1>8. ASSUME NEW c \in Calls, WatchCloses(c), UNCHANGED dockerVars PROVE RanTold(d)'
  BY <1>8 DEF WatchCloses
<1>9. ASSUME NEW c \in Calls, DeleteTerminated(c), UNCHANGED dockerVars PROVE RanTold(d)'
  BY <1>9 DEF DeleteTerminated, ToClear, Terminated
<1>10. ASSUME NEW c \in Calls, CreatePod(c), UNCHANGED dockerVars PROVE RanTold(d)'
  BY <1>10 DEF CreatePod
<1>11. ASSUME NEW c \in Calls, WatchPod(c), UNCHANGED dockerVars PROVE RanTold(d)'
  BY <1>11 DEF WatchPod
<1>12. ASSUME NEW c \in Calls, Refused(c), UNCHANGED dockerVars PROVE RanTold(d)'
  BY <1>12 DEF Refused
<1>13. ASSUME NEW c \in Calls, SeeEvent(c), UNCHANGED dockerVars PROVE RanTold(d)'
  <2>1. events[c] \in Seq(Told) /\ events[c] # <<>> /\ at[c] = "watching"
    BY <1>13 DEF SeeEvent
  <2>2. Tells(events[c], Head(events[c]))
    BY <2>1, TellsTail
  <2>3. UNCHANGED <<exit, pods, logs, troubled, cancelled, result, box>>
    BY <1>13 DEF SeeEvent
  <2>4. CASE UNCHANGED ran
    BY <2>3, <2>4
  <2>5. CASE ran' = [ran EXCEPT ![c] = "error"] /\ pods[c] = "gone"
    BY <2>1, <2>3, <2>5 DEF PodTold
  <2>6. CASE ran' = [ran EXCEPT ![c] = "zero"] /\ Head(events[c]) = "Succeeded"
    BY <2>1, <2>2, <2>3, <2>6 DEF PodTold
  <2>7. CASE ran' = [ran EXCEPT ![c] = "watchEnded"]
    BY <2>1, <2>3, <2>7
  <2>. QED
    BY <2>4, <2>5, <2>6, <2>7, <1>13 DEF SeeEvent
<1>14. ASSUME NEW c \in Calls, CopyEnds(c), UNCHANGED dockerVars PROVE RanTold(d)'
  BY <1>14 DEF CopyEnds
<1>15. ASSUME NEW c \in Calls, CopyLastEnds(c), UNCHANGED dockerVars PROVE RanTold(d)'
  BY <1>15 DEF CopyLastEnds, PodTold
<1>16. ASSUME NEW c \in Calls, DeletePod(c), UNCHANGED dockerVars PROVE RanTold(d)'
  BY <1>16 DEF DeletePod, InCluster, Terminated
<1>17. ASSUME NEW c \in Calls, JoinFlight(c), UNCHANGED dockerVars PROVE RanTold(d)'
  BY <1>17 DEF JoinFlight
<1>18. ASSUME NEW c \in Calls, Started(c), UNCHANGED dockerVars PROVE RanTold(d)'
  BY <1>18 DEF Started, InFlight, VMTypes
<1>19. ASSUME NEW c \in Calls, NotStarted(c), UNCHANGED dockerVars PROVE RanTold(d)'
  BY <1>19 DEF NotStarted, InFlight, VMTypes
<1>20. ASSUME NEW c \in Calls, DockerReturns(c), UNCHANGED dockerVars PROVE RanTold(d)'
  BY <1>20 DEF DockerReturns
<1>21. ASSUME NEW c \in Calls, EnsureNetworkExists(c) PROVE RanTold(d)'
  BY <1>21 DEF EnsureNetworkExists
<1>22. ASSUME NEW c \in Calls, EnsureNetworkAttached(c) PROVE RanTold(d)'
  BY <1>22 DEF EnsureNetworkAttached
<1>23. ASSUME NEW c \in Calls, ReplaceNetwork(c) PROVE RanTold(d)'
  BY <1>23 DEF ReplaceNetwork
<1>24. ASSUME NEW c \in Calls, CreateBox(c) PROVE RanTold(d)'
  BY <1>24 DEF CreateBox
<1>25. ASSUME NEW c \in Calls, StartBox(c) PROVE RanTold(d)'
  BY <1>25 DEF StartBox, BoxTold
<1>26. ASSUME NEW c \in Calls, SeeBoxExit(c) PROVE RanTold(d)'
  BY <1>26 DEF SeeBoxExit, BoxTold, Removing
<1>27. ASSUME NEW c \in Calls, CleanUpBox(c) PROVE RanTold(d)'
  BY <1>27 DEF CleanUpBox
<1>28. ASSUME NEW c \in Calls, BoxExits(c) PROVE RanTold(d)'
  BY <1>28 DEF BoxExits
<1>29. ASSUME NEW c \in Calls, DockerRefuses(c) PROVE RanTold(d)'
  BY <1>29 DEF DockerRefuses
<1>30. ASSUME NEW c \in Calls, WgUp(c) PROVE RanTold(d)'
  BY <1>30 DEF WgUp
<1>31. ASSUME NEW c \in Calls, SetUpVm(c) PROVE RanTold(d)'
  BY <1>31 DEF SetUpVm
<1>32. ASSUME NEW c \in Calls, CreateTunIfNotExists(c) PROVE RanTold(d)'
  BY <1>32 DEF CreateTunIfNotExists
<1>33. ASSUME NEW c \in Calls, ConfigureDevice(c) PROVE RanTold(d)'
  BY <1>33 DEF ConfigureDevice
<1>34. ASSUME NEW c \in Calls, StopBox(c) PROVE RanTold(d)'
  BY <1>34 DEF StopBox
<1>35. ASSUME NEW c \in Calls, RemoveBox(c) PROVE RanTold(d)'
  BY <1>35 DEF RemoveBox
<1>36. ASSUME VMStops, UNCHANGED dockerVars PROVE RanTold(d)'
  BY <1>36 DEF VMStops
<1>37. ASSUME DeleteCollection, UNCHANGED dockerVars PROVE RanTold(d)'
  BY <1>37 DEF DeleteCollection, InCluster, Terminated
<1>38. ASSUME VmRestarts PROVE RanTold(d)'
  BY <1>38 DEF VmRestarts
<1>39. ASSUME SignalNode PROVE RanTold(d)'
  BY <1>39 DEF SignalNode
<1>40. ASSUME Finish PROVE RanTold(d)'
  BY <1>40 DEF Finish
<1>41. ASSUME List PROVE RanTold(d)'
  BY <1>41 DEF List
<1>42. ASSUME NodeExits PROVE RanTold(d)'
  BY <1>42 DEF NodeExits, CommandInv, Commanded, DockerInv
<1>43. ASSUME UNCHANGED allVars PROVE RanTold(d)'
  BY <1>43 DEF allVars
<1>44. ASSUME NEW c \in Calls, ContextIsDone(c) PROVE RanTold(d)'
  BY <1>44 DEF ContextIsDone
<1>45. ASSUME NEW c \in Calls, CleanUpEnds(c) PROVE RanTold(d)'
  BY <1>45 DEF CleanUpEnds
<1>46. ASSUME NEW c \in Calls, Removed(c) PROVE RanTold(d)'
  BY <1>46 DEF Removed, GiveUp
<1>47. ASSUME NEW c \in Calls, EngineRemoves(c) PROVE RanTold(d)'
  BY <1>47 DEF EngineRemoves
<1>48. ASSUME NEW c \in Calls, EngineKeeps(c) PROVE RanTold(d)'
  BY <1>48 DEF EngineKeeps, GiveUp
<1>. QED
  BY <1>1, <1>2, <1>3, <1>4, <1>5, <1>6, <1>7, <1>8, <1>9, <1>10, <1>11, <1>12, <1>13, <1>14,
     <1>15, <1>16, <1>17, <1>18, <1>19, <1>20, <1>21, <1>22, <1>23, <1>24, <1>25, <1>26, <1>27,
     <1>28, <1>29, <1>30, <1>31, <1>32, <1>33, <1>34, <1>35, <1>36, <1>37, <1>38, <1>39, <1>40,
     <1>41, <1>42, <1>43, <1>44, <1>45, <1>46, <1>47, <1>48
  DEF DockerNext, Next, CallStep, PodStep, VMStep, DockerStep,
     TunnelStep, CommandStep

-----------------------------------------------------------------------------
(* Commands *)

LEMMA StepKept ==
  ASSUME DockerInv, NEW d \in Calls, [DockerNext]_allVars
  PROVE  Kept(d)'
<1>. CallerTypes /\ SetTypes /\ PodTypes /\ VMTypes /\ EngineTypes /\ CommandTypes /\ TunnelTypes
  BY TypesInParts DEF DockerInv, CallsInv, CallInv
<1>. Placed(d) /\ Kept(d) /\ CommandInv
  BY DEF DockerInv, CallsInv, CallInv, CommandInv
<1>. USE DEF Kept, Placed, CallerTypes, EngineTypes, CommandTypes, NodeWide, InPod, InVM,
         InDocker, Boxed, GoTo, Return, ReturnFromPod, Leave, CallOver, ReturnAtOnce,
         callerVars, podVars, vmVars, vars, engineVars, commandVars, tunnelVars,
         dockerVars, otherVars, clusterVars, running, nodeVars, Become, Due
<1>1. ASSUME NEW c \in Calls, Begin(c), UNCHANGED dockerVars PROVE Kept(d)'
  BY <1>1 DEF Begin
<1>2. ASSUME NEW c \in Calls, ReadEnds(c), UNCHANGED dockerVars PROVE Kept(d)'
  BY <1>2 DEF ReadEnds
<1>3. ASSUME NEW c \in Calls, CallReturns(c), UNCHANGED dockerVars PROVE Kept(d)'
  BY <1>3 DEF CallReturns
<1>4. ASSUME NEW c \in Calls, Cancel(c), UNCHANGED dockerVars PROVE Kept(d)'
  BY <1>4 DEF Cancel
<1>5. ASSUME NEW c \in Calls, PodRuns(c), UNCHANGED dockerVars PROVE Kept(d)'
  BY <1>5 DEF PodRuns
<1>6. ASSUME NEW c \in Calls, PodUpdates(c), UNCHANGED dockerVars PROVE Kept(d)'
  BY <1>6 DEF PodUpdates
<1>7. ASSUME NEW c \in Calls, PodEnds(c), UNCHANGED dockerVars PROVE Kept(d)'
  BY <1>7 DEF PodEnds
<1>8. ASSUME NEW c \in Calls, WatchCloses(c), UNCHANGED dockerVars PROVE Kept(d)'
  BY <1>8 DEF WatchCloses
<1>9. ASSUME NEW c \in Calls, DeleteTerminated(c), UNCHANGED dockerVars PROVE Kept(d)'
  BY <1>9 DEF DeleteTerminated
<1>10. ASSUME NEW c \in Calls, CreatePod(c), UNCHANGED dockerVars PROVE Kept(d)'
  BY <1>10 DEF CreatePod
<1>11. ASSUME NEW c \in Calls, WatchPod(c), UNCHANGED dockerVars PROVE Kept(d)'
  BY <1>11 DEF WatchPod
<1>12. ASSUME NEW c \in Calls, Refused(c), UNCHANGED dockerVars PROVE Kept(d)'
  BY <1>12 DEF Refused
<1>13. ASSUME NEW c \in Calls, SeeEvent(c), UNCHANGED dockerVars PROVE Kept(d)'
  BY <1>13 DEF SeeEvent
<1>14. ASSUME NEW c \in Calls, CopyEnds(c), UNCHANGED dockerVars PROVE Kept(d)'
  BY <1>14 DEF CopyEnds
<1>15. ASSUME NEW c \in Calls, CopyLastEnds(c), UNCHANGED dockerVars PROVE Kept(d)'
  BY <1>15 DEF CopyLastEnds
<1>16. ASSUME NEW c \in Calls, DeletePod(c), UNCHANGED dockerVars PROVE Kept(d)'
  BY <1>16 DEF DeletePod
<1>17. ASSUME NEW c \in Calls, JoinFlight(c), UNCHANGED dockerVars PROVE Kept(d)'
  BY <1>17 DEF JoinFlight
<1>18. ASSUME NEW c \in Calls, Started(c), UNCHANGED dockerVars PROVE Kept(d)'
  BY <1>18 DEF Started, InFlight, VMTypes
<1>19. ASSUME NEW c \in Calls, NotStarted(c), UNCHANGED dockerVars PROVE Kept(d)'
  BY <1>19 DEF NotStarted, InFlight, VMTypes
<1>20. ASSUME NEW c \in Calls, DockerReturns(c), UNCHANGED dockerVars PROVE Kept(d)'
  BY <1>20 DEF DockerReturns
<1>21. ASSUME NEW c \in Calls, EnsureNetworkExists(c) PROVE Kept(d)'
  BY <1>21 DEF EnsureNetworkExists
<1>22. ASSUME NEW c \in Calls, EnsureNetworkAttached(c) PROVE Kept(d)'
  BY <1>22 DEF EnsureNetworkAttached
<1>23. ASSUME NEW c \in Calls, ReplaceNetwork(c) PROVE Kept(d)'
  BY <1>23 DEF ReplaceNetwork
<1>24. ASSUME NEW c \in Calls, CreateBox(c) PROVE Kept(d)'
  BY <1>24 DEF CreateBox
<1>25. ASSUME NEW c \in Calls, StartBox(c) PROVE Kept(d)'
  BY <1>25 DEF StartBox
<1>26. ASSUME NEW c \in Calls, SeeBoxExit(c) PROVE Kept(d)'
  BY <1>26 DEF SeeBoxExit
<1>27. ASSUME NEW c \in Calls, CleanUpBox(c) PROVE Kept(d)'
  BY <1>27 DEF CleanUpBox
<1>28. ASSUME NEW c \in Calls, BoxExits(c) PROVE Kept(d)'
  BY <1>28 DEF BoxExits
<1>29. ASSUME NEW c \in Calls, DockerRefuses(c) PROVE Kept(d)'
  BY <1>29 DEF DockerRefuses
<1>30. ASSUME NEW c \in Calls, WgUp(c) PROVE Kept(d)'
  BY <1>30 DEF WgUp
<1>31. ASSUME NEW c \in Calls, SetUpVm(c) PROVE Kept(d)'
  BY <1>31 DEF SetUpVm
<1>32. ASSUME NEW c \in Calls, CreateTunIfNotExists(c) PROVE Kept(d)'
  BY <1>32 DEF CreateTunIfNotExists
<1>33. ASSUME NEW c \in Calls, ConfigureDevice(c) PROVE Kept(d)'
  BY <1>33 DEF ConfigureDevice
<1>34. ASSUME NEW c \in Calls, StopBox(c) PROVE Kept(d)'
  BY <1>34 DEF StopBox, Turn, NodeWide
<1>35. ASSUME NEW c \in Calls, RemoveBox(c) PROVE Kept(d)'
  <2>1. /\ todo[c] = "remove" /\ step = "deleting"
        /\ UNCHANGED <<at, command, listed>>
    BY <1>35 DEF RemoveBox, Turn
  <2>2. CASE /\ box[c] \in {"none", "removing"} /\ UNCHANGED <<box, cut, step>>
             /\ todo' = [todo EXCEPT ![c] = IF box[c] = "none" THEN "nothing" ELSE "taken"]
    BY <2>1, <2>2
  <2>3. CASE /\ box[c] \notin {"none", "removing"} /\ Become(c, "removing") /\ UNCHANGED step
             /\ todo' = [todo EXCEPT ![c] = "await"]
             /\ cut' = IF box[c] = "running" THEN cut \cup {c} ELSE cut
    BY <2>1, <2>3
  <2>4. CASE GiveUp(c) /\ UNCHANGED <<box, cut>>
    BY <2>1, <2>4 DEF GiveUp
  <2>. QED
    BY <2>2, <2>3, <2>4, <1>35 DEF RemoveBox
<1>36. ASSUME VMStops, UNCHANGED dockerVars PROVE Kept(d)'
  BY <1>36 DEF VMStops
<1>37. ASSUME DeleteCollection, UNCHANGED dockerVars PROVE Kept(d)'
  BY <1>37 DEF DeleteCollection
<1>38. ASSUME VmRestarts PROVE Kept(d)'
  BY <1>38 DEF VmRestarts
<1>39. ASSUME SignalNode PROVE Kept(d)'
  BY <1>39 DEF SignalNode, Signal, NodeWide
<1>40. ASSUME Finish PROVE Kept(d)'
  BY <1>40 DEF Finish, Signal, NodeWide
<1>41. ASSUME List PROVE Kept(d)'
  <2>1. PICK matching \in Matching : listed' = Found(matching)
    BY <1>41 DEF List
  <2>2. PICK targets \in Targets(listed') :
           todo' = [e \in Calls |-> IF e \in targets THEN "stop" ELSE "nothing"]
    BY <1>41 DEF List
  <2>3. /\ step' = "deleting" /\ step \in {"given", "listing"}
        /\ UNCHANGED <<vars, engineVars, command, cut, leaving>>
        /\ command # "none" \/ step = "listing"
    BY <1>41 DEF List, nodeVars, Commands
  <2>4. listed'[d] = box[d] \/ listed'[d] = "none"
    BY <2>1 DEF Found
  <2>5. NodeWide => listed'[d] = box[d] /\ targets = {e \in Calls : listed'[e] # "none"}
    BY <2>1, <2>2 DEF NodeWide, Matching, Found, Targets
  <2>6. d \in targets =>
          /\ listed'[d] # "none"
          /\ command = "down" => listed'[d] = "running"
          /\ command = "prune" => listed'[d] \in {"created", "exited", "removing"}
    <3>1. CASE command = "down"
      BY <2>2, <3>1 DEF Targets, Down, Choice
    <3>2. CASE command = "delete"
      BY <2>2, <3>2 DEF Targets, Delete, Choice
    <3>3. CASE command = "prune"
      <4>1. d \in targets => listed'[d] \notin {"none", "running"}
        BY <2>2, <3>3 DEF Targets, Prune
      <4>. QED
        BY <4>1, <3>3, <2>4 DEF States
    <3>4. CASE command = "ls"
      BY <2>2, <3>4 DEF Targets
    <3>5. CASE command \notin {"ls", "down", "delete", "prune"}
      BY <2>2, <3>5 DEF Targets
    <3>. QED
      BY <3>1, <3>2, <3>3, <3>4, <3>5
  <2>7. todo'[d] = "nothing" <=> d \notin targets
    BY <2>2
  <2>8. box'[d] = box[d] /\ at'[d] = at[d]
    BY <2>3
  <2>. QED
    BY <2>3, <2>4, <2>5, <2>6, <2>7, <2>8 DEF NodeWide, Placed
<1>42. ASSUME NodeExits PROVE Kept(d)'
  BY <1>42 DEF NodeExits, CommandInv, Commanded
<1>43. ASSUME UNCHANGED allVars PROVE Kept(d)'
  BY <1>43 DEF allVars
<1>44. ASSUME NEW c \in Calls, ContextIsDone(c) PROVE Kept(d)'
  BY <1>44 DEF ContextIsDone
<1>45. ASSUME NEW c \in Calls, CleanUpEnds(c) PROVE Kept(d)'
  BY <1>45 DEF CleanUpEnds
<1>46. ASSUME NEW c \in Calls, Removed(c) PROVE Kept(d)'
  <2>1. /\ todo[c] = "await" /\ UNCHANGED <<at, box, command, listed, cut>>
    BY <1>46 DEF Removed
  <2>2. CASE box[c] = "none" /\ todo' = [todo EXCEPT ![c] = "nothing"] /\ UNCHANGED step
    BY <2>1, <2>2
  <2>3. CASE GiveUp(c)
    BY <2>1, <2>3 DEF GiveUp
  <2>. QED
    BY <2>2, <2>3, <1>46 DEF Removed
<1>47. ASSUME NEW c \in Calls, EngineRemoves(c) PROVE Kept(d)'
  BY <1>47 DEF EngineRemoves
<1>48. ASSUME NEW c \in Calls, EngineKeeps(c) PROVE Kept(d)'
  BY <1>48 DEF EngineKeeps, GiveUp
<1>. QED
  BY <1>1, <1>2, <1>3, <1>4, <1>5, <1>6, <1>7, <1>8, <1>9, <1>10, <1>11, <1>12, <1>13, <1>14,
     <1>15, <1>16, <1>17, <1>18, <1>19, <1>20, <1>21, <1>22, <1>23, <1>24, <1>25, <1>26, <1>27,
     <1>28, <1>29, <1>30, <1>31, <1>32, <1>33, <1>34, <1>35, <1>36, <1>37, <1>38, <1>39, <1>40,
     <1>41, <1>42, <1>43, <1>44, <1>45, <1>46, <1>47, <1>48
  DEF DockerNext, Next, CallStep, PodStep, VMStep, DockerStep,
     TunnelStep, CommandStep

LEMMA StepCommand ==
  ASSUME DockerInv, [DockerNext]_allVars
  PROVE  Commanded'
<1>. CallerTypes /\ SetTypes /\ PodTypes /\ VMTypes /\ EngineTypes /\ CommandTypes /\ TunnelTypes
  BY TypesInParts DEF DockerInv, CallsInv, CallInv
<1>. Commanded
  BY DEF DockerInv, CommandInv
<1>. USE DEF Commanded, NodeWide, GiveUp,
         callerVars, podVars, vmVars, vars, engineVars, commandVars, tunnelVars,
         dockerVars, otherVars, clusterVars, running, nodeVars, Become, Due
<1>1. ASSUME NEW c \in Calls, Begin(c), UNCHANGED dockerVars PROVE Commanded'
  BY <1>1 DEF Begin
<1>2. ASSUME NEW c \in Calls, ReadEnds(c), UNCHANGED dockerVars PROVE Commanded'
  BY <1>2 DEF ReadEnds
<1>3. ASSUME NEW c \in Calls, CallReturns(c), UNCHANGED dockerVars PROVE Commanded'
  BY <1>3 DEF CallReturns
<1>4. ASSUME NEW c \in Calls, Cancel(c), UNCHANGED dockerVars PROVE Commanded'
  BY <1>4 DEF Cancel
<1>5. ASSUME NEW c \in Calls, PodRuns(c), UNCHANGED dockerVars PROVE Commanded'
  BY <1>5 DEF PodRuns
<1>6. ASSUME NEW c \in Calls, PodUpdates(c), UNCHANGED dockerVars PROVE Commanded'
  BY <1>6 DEF PodUpdates
<1>7. ASSUME NEW c \in Calls, PodEnds(c), UNCHANGED dockerVars PROVE Commanded'
  BY <1>7 DEF PodEnds
<1>8. ASSUME NEW c \in Calls, WatchCloses(c), UNCHANGED dockerVars PROVE Commanded'
  BY <1>8 DEF WatchCloses
<1>9. ASSUME NEW c \in Calls, DeleteTerminated(c), UNCHANGED dockerVars PROVE Commanded'
  BY <1>9 DEF DeleteTerminated
<1>10. ASSUME NEW c \in Calls, CreatePod(c), UNCHANGED dockerVars PROVE Commanded'
  BY <1>10 DEF CreatePod
<1>11. ASSUME NEW c \in Calls, WatchPod(c), UNCHANGED dockerVars PROVE Commanded'
  BY <1>11 DEF WatchPod
<1>12. ASSUME NEW c \in Calls, Refused(c), UNCHANGED dockerVars PROVE Commanded'
  BY <1>12 DEF Refused
<1>13. ASSUME NEW c \in Calls, SeeEvent(c), UNCHANGED dockerVars PROVE Commanded'
  BY <1>13 DEF SeeEvent
<1>14. ASSUME NEW c \in Calls, CopyEnds(c), UNCHANGED dockerVars PROVE Commanded'
  BY <1>14 DEF CopyEnds
<1>15. ASSUME NEW c \in Calls, CopyLastEnds(c), UNCHANGED dockerVars PROVE Commanded'
  BY <1>15 DEF CopyLastEnds
<1>16. ASSUME NEW c \in Calls, DeletePod(c), UNCHANGED dockerVars PROVE Commanded'
  BY <1>16 DEF DeletePod
<1>17. ASSUME NEW c \in Calls, JoinFlight(c), UNCHANGED dockerVars PROVE Commanded'
  BY <1>17 DEF JoinFlight
<1>18. ASSUME NEW c \in Calls, Started(c), UNCHANGED dockerVars PROVE Commanded'
  BY <1>18 DEF Started
<1>19. ASSUME NEW c \in Calls, NotStarted(c), UNCHANGED dockerVars PROVE Commanded'
  BY <1>19 DEF NotStarted
<1>20. ASSUME NEW c \in Calls, DockerReturns(c), UNCHANGED dockerVars PROVE Commanded'
  BY <1>20 DEF DockerReturns
<1>21. ASSUME NEW c \in Calls, EnsureNetworkExists(c) PROVE Commanded'
  BY <1>21 DEF EnsureNetworkExists
<1>22. ASSUME NEW c \in Calls, EnsureNetworkAttached(c) PROVE Commanded'
  BY <1>22 DEF EnsureNetworkAttached
<1>23. ASSUME NEW c \in Calls, ReplaceNetwork(c) PROVE Commanded'
  BY <1>23 DEF ReplaceNetwork
<1>24. ASSUME NEW c \in Calls, CreateBox(c) PROVE Commanded'
  BY <1>24 DEF CreateBox
<1>25. ASSUME NEW c \in Calls, StartBox(c) PROVE Commanded'
  BY <1>25 DEF StartBox
<1>26. ASSUME NEW c \in Calls, SeeBoxExit(c) PROVE Commanded'
  BY <1>26 DEF SeeBoxExit
<1>27. ASSUME NEW c \in Calls, CleanUpBox(c) PROVE Commanded'
  BY <1>27 DEF CleanUpBox
<1>28. ASSUME NEW c \in Calls, BoxExits(c) PROVE Commanded'
  BY <1>28 DEF BoxExits
<1>29. ASSUME NEW c \in Calls, DockerRefuses(c) PROVE Commanded'
  BY <1>29 DEF DockerRefuses
<1>30. ASSUME NEW c \in Calls, WgUp(c) PROVE Commanded'
  BY <1>30 DEF WgUp
<1>31. ASSUME NEW c \in Calls, SetUpVm(c) PROVE Commanded'
  BY <1>31 DEF SetUpVm
<1>32. ASSUME NEW c \in Calls, CreateTunIfNotExists(c) PROVE Commanded'
  BY <1>32 DEF CreateTunIfNotExists
<1>33. ASSUME NEW c \in Calls, ConfigureDevice(c) PROVE Commanded'
  BY <1>33 DEF ConfigureDevice
<1>34. ASSUME NEW c \in Calls, StopBox(c) PROVE Commanded'
  BY <1>34 DEF StopBox
<1>35. ASSUME NEW c \in Calls, RemoveBox(c) PROVE Commanded'
  BY <1>35 DEF RemoveBox
<1>36. ASSUME VMStops, UNCHANGED dockerVars PROVE Commanded'
  BY <1>36 DEF VMStops
<1>37. ASSUME DeleteCollection, UNCHANGED dockerVars PROVE Commanded'
  BY <1>37 DEF DeleteCollection
<1>38. ASSUME VmRestarts PROVE Commanded'
  BY <1>38 DEF VmRestarts
<1>39. ASSUME SignalNode PROVE Commanded'
  BY <1>39 DEF SignalNode, Signal
<1>40. ASSUME Finish PROVE Commanded'
  BY <1>40 DEF Finish, Signal
<1>41. ASSUME List PROVE Commanded'
  BY <1>41 DEF List
<1>42. ASSUME NodeExits PROVE Commanded'
  BY <1>42 DEF NodeExits
<1>43. ASSUME UNCHANGED allVars PROVE Commanded'
  BY <1>43 DEF allVars
<1>44. ASSUME NEW c \in Calls, ContextIsDone(c) PROVE Commanded'
  BY <1>44 DEF ContextIsDone
<1>45. ASSUME NEW c \in Calls, CleanUpEnds(c) PROVE Commanded'
  BY <1>45 DEF CleanUpEnds
<1>46. ASSUME NEW c \in Calls, Removed(c) PROVE Commanded'
  BY <1>46 DEF Removed, GiveUp
<1>47. ASSUME NEW c \in Calls, EngineRemoves(c) PROVE Commanded'
  BY <1>47 DEF EngineRemoves
<1>48. ASSUME NEW c \in Calls, EngineKeeps(c) PROVE Commanded'
  BY <1>48 DEF EngineKeeps, GiveUp
<1>. QED
  BY <1>1, <1>2, <1>3, <1>4, <1>5, <1>6, <1>7, <1>8, <1>9, <1>10, <1>11, <1>12, <1>13, <1>14,
     <1>15, <1>16, <1>17, <1>18, <1>19, <1>20, <1>21, <1>22, <1>23, <1>24, <1>25, <1>26, <1>27,
     <1>28, <1>29, <1>30, <1>31, <1>32, <1>33, <1>34, <1>35, <1>36, <1>37, <1>38, <1>39, <1>40,
     <1>41, <1>42, <1>43, <1>44, <1>45, <1>46, <1>47, <1>48
  DEF DockerNext, Next, CallStep, PodStep, VMStep, DockerStep,
     TunnelStep, CommandStep

-----------------------------------------------------------------------------
(* The whole *)

LEMMA DockerInitInv ==
  ASSUME DockerInit
  PROVE  DockerInv
<1>. USE CallsAssumption, SettingsAssumption
<1>1. PICK s \in Settings \cup {<<"linux", "none">>} :
        /\ platform = s[1] /\ command = s[2]
        /\ Begins(IF s[2] = "none" THEN {} ELSE Orphans)
        /\ runtime = "docker" <=> s \in Settings
  BY DEF DockerInit
<1>2. s \in {"linux", "darwin"} \X (Commands \cup {"none"})
  OBVIOUS
<1>3. platform \in {"linux", "darwin"} /\ command \in Commands \cup {"none"}
  BY <1>1, <1>2
<1>4. command # "none" => runtime = "docker"
  BY <1>1
<1>5. Begins({}) \/ (Begins(Orphans) /\ runtime = "docker")
  BY <1>1, <1>4
<1>6. /\ runtime \in Runtimes
      /\ at \in [Calls -> {"idle", "dead"}]
      /\ \A c \in Calls : at[c] = "dead" => runtime = "docker"
      /\ open = [c \in Calls |-> {}] /\ reading = [c \in Calls |-> {}]
      /\ ran = [c \in Calls |-> "none"] /\ result = [c \in Calls |-> "none"]
      /\ cancelled = {} /\ troubled = {}
      /\ pods = [c \in Calls |-> "none"] /\ events = [c \in Calls |-> <<>>]
      /\ logs = [c \in Calls |-> "none"] /\ exit = [c \in Calls |-> "none"]
      /\ vm \in {"none", "stopped", "running"} /\ leader = Nobody
  BY <1>5 DEF Begins
<1>7. /\ box \in [Calls -> States]
      /\ \A c \in Calls : box[c] # "none" => at[c] = "dead" /\ runtime = "docker"
  <2>1. CASE command = "none"
    BY <2>1 DEF DockerInit, States
  <2>2. CASE command # "none"
    <3>1. box \in [Calls -> States] /\ \A c \in Calls \ Orphans : box[c] = "none"
      BY <2>2 DEF DockerInit
    <3>2. \A c \in Orphans : at[c] = "dead"
      BY <1>1, <2>2 DEF Begins
    <3>. QED
      BY <3>1, <3>2, <1>4, <2>2
  <2>. QED
    BY <2>1, <2>2
<1>8. net \in {"none", "bridged", "routed"}
  BY DEF DockerInit
<1>9. /\ step = "given" /\ listed = [c \in Calls |-> "none"] /\ todo = [c \in Calls |-> "nothing"]
      /\ cut = {} /\ leaving = FALSE
      /\ ups = {} /\ holder = Nobody /\ tun = "none" /\ probes = {} /\ peer = "unset"
          /\ unhealed = {}
  BY DEF DockerInit
<1>10. CallerTypes /\ SetTypes /\ VMTypes
  BY <1>6 DEF CallerTypes, Places, SetTypes, VMTypes
<1>11. PodTypes
  <2>1. <<>> \in Seq(Told)
    OBVIOUS
  <2>. QED
    BY <1>6, <2>1 DEF PodTypes, Phases
<1>12. EngineTypes /\ TunnelTypes
  BY <1>3, <1>7, <1>8, <1>9 DEF EngineTypes, TunnelTypes
<1>13. CommandTypes
  BY <1>3, <1>9 DEF CommandTypes, States
<1>14. DockerTypeOK
  BY <1>10, <1>11, <1>12, <1>13, TypesInParts
<1>15. ASSUME NEW c \in Calls PROVE CallInv(c)
  <2>1. ~Tells(events[c], "Succeeded") /\ ~Tells(events[c], "Failed")
    BY <1>6, TellsOne
  <2>2. /\ at[c] \in {"idle", "dead"} /\ (at[c] = "dead" => runtime = "docker")
        /\ ran[c] = "none" /\ result[c] = "none" /\ pods[c] = "none" /\ logs[c] = "none"
        /\ (box[c] # "none" => at[c] = "dead" /\ runtime = "docker")
    BY <1>6, <1>7
  <2>3. Placed(c)
    BY <2>2 DEF Placed, InPod, InVM, InDocker, Boxed
  <2>4. PodTold(c) /\ Owed(c) /\ BoxTold(c) /\ RanTold(c)
    BY <2>1, <2>2 DEF PodTold, Owed, BoxTold, RanTold
  <2>. QED
    BY <2>3, <2>4 DEF CallInv
<1>16. CommandInv
  BY <1>4, <1>9 DEF CommandInv, Commanded, Kept, NodeWide
<1>. QED
  BY <1>14, <1>15, <1>16 DEF DockerInv, CallsInv, CallInv

LEMMA DockerStepInv ==
  ASSUME DockerInv, [DockerNext]_allVars
  PROVE  DockerInv'
<1>1. \A d \in Calls : /\ Placed(d)' /\ PodTold(d)' /\ Owed(d)' /\ BoxTold(d)'
                      /\ RanTold(d)' /\ Kept(d)'
  BY StepPlaced, StepPodTold, StepOwed, StepBoxTold, StepRanTold, StepKept
<1>2. DockerTypeOK' /\ Commanded'
  BY StepTypes, StepCommand
<1>. QED
  BY <1>1, <1>2 DEF DockerInv, CallsInv, CallInv, CommandInv

THEOREM DockerInvariant == DockerSpec => []DockerInv
BY DockerInitInv, DockerStepInv, PTL DEF DockerSpec

\* A call that succeeds has seen its container exit with zero, though its pod may be
\* swept by other calls, its machine stopped or its container stopped by a command, and
\* the exit code is told along several goroutines; but for the three ways in which
\* RunContainer returns neither a code nor an error: the watch ended first, the wait
\* failed though something went wrong or was cancelled, or the create found it cancelled.
THEOREM SuccessesAreEarned == DockerSpec => []SuccessIsEarned
<1>1. DockerInv => SuccessIsEarned
  BY DEF DockerInv, CallsInv, CallInv, RanTold, SuccessIsEarned
<1>. QED
  BY <1>1, DockerInvariant, PTL

\* A call that fails has a container that failed or was stopped, or something refused
\* it or was taken from it, possibly by another call.
THEOREM CallsFailForAReason == DockerSpec => []FailsForAReason
<1>1. DockerInv => FailsForAReason
  BY DEF DockerInv, CallsInv, CallInv, RanTold, FailsForAReason
<1>. QED
  BY <1>1, DockerInvariant, PTL

\* When a call succeeds, what its pod wrote is in the log to the last line if it ran while
\* the call watched it, whatever its updates, unless its removal cut the copying short
\* or the watch ended first.  Nothing is said of a pod that was over before the watch
\* had it as running: of that, nothing is copied.
THEOREM LogsStayWhole == DockerSpec => []LogsAreWhole
<1>1. DockerInv => LogsAreWhole
  BY DEF DockerInv, CallsInv, CallInv, Placed, PodTold, Owed, RanTold, LogsAreWhole
<1>. QED
  BY <1>1, DockerInvariant, PTL

\* A command that reports that it removed what it found did, but for what somebody else
\* was having removed, though its own removals and the calls' take their time and may
\* fail; and none stops a container it did not list as one it is for.
THEOREM CommandsKeepTheirWordAlways == DockerSpec => []CommandsKeepTheirWord
<1>1. DockerInv => CommandsKeepTheirWord
  <2>1. SUFFICES ASSUME DockerInv PROVE CommandsKeepTheirWord
    OBVIOUS
  <2>2. \A c \in Calls : Kept(c)
    BY <2>1 DEF DockerInv, CommandInv
  <2>3. cut \subseteq Calls
    BY <2>1 DEF DockerInv, CallsInv, CallInv, DockerTypeOK
  <2>4. KillLeavesNothing
    BY <2>2 DEF Kept, NodeWide, KillLeavesNothing
  <2>5. \A c \in cut : /\ command = "prune" => listed[c] = "created"
                       /\ command = "down" => listed[c] = "running"
                       /\ listed[c] # "none"
    BY <2>2, <2>3 DEF Kept
  <2>. QED
    BY <2>4, <2>5 DEF CommandsKeepTheirWord
<1>. QED
  BY <1>1, DockerInvariant, PTL

\* Every variable keeps its type.
THEOREM DockerTypes == DockerSpec => []DockerTypeOK
<1>1. DockerInv => DockerTypeOK
  BY DEF DockerInv, CallsInv, CallInv
<1>. QED
  BY <1>1, DockerInvariant, PTL

=============================================================================
