------------------------- MODULE RunContainerProofs -------------------------
(***************************************************************************)
(* Theorems about RunContainer, for any calls, faults, cancellations and    *)
(* addresses: types, that names go with their calls, and that no container  *)
(* is left behind unnoticed.                                                *)
(***************************************************************************)
EXTENDS RunContainer, TLAPS

\* What the two operators that actions share do to the types.
LEMMA DeleteType ==
    ASSUME TypeOK, NEW c \in Calls, NEW by \in Deleters, NEW stage \in Stages,
           Delete(c, by, stage)
    PROVE  deletion' \in [Calls -> [Deleters -> Stages]]
  BY DEF TypeOK, Delete

LEMMA CleanUpType ==
    ASSUME TypeOK, NEW c \in Calls, NEW code \in Codes, NEW erred \in {"none", "erred"},
           CleanUp(c, code, erred)
    PROVE  /\ pc' \in [Calls -> Labels]
           /\ result' \in [Calls -> Results]
           /\ deletion' \in [Calls -> [Deleters -> Stages]]
<1>1. deletion' \in [Calls -> [Deleters -> Stages]]
  BY DeleteType DEF CleanUp, Deleters, Stages
<1>2. pc' \in [Calls -> Labels]
  BY DEF CleanUp, GoTo, TypeOK, Labels
<1>3. result' \in [Calls -> Results]
  BY DEF CleanUp, TypeOK, Results
<1> QED BY <1>1, <1>2, <1>3

\* Whoever adds to the name's entry or removes from it does so when there is
\* one: it made it, or found it.
EntryMade ==
    \A c \in Calls :
        (pc[c] = "registering" /\ c \notin sawAbsent) \/ pc[c] \in {"waiting", "draining"} =>
            table # Absent

LEMMA EntryIsMade == TypeOK /\ EntryMade /\ [Next]_vars => EntryMade'
<1> SUFFICES ASSUME TypeOK, EntryMade, [Next]_vars PROVE EntryMade'
  OBVIOUS
<1> USE DEF EntryMade, runVars, engineVars, nameVars, ghosts
<1>1. CASE UNCHANGED vars
  BY <1>1 DEF vars
<1>2. ASSUME NEW c \in Calls, CallStep(c) PROVE EntryMade'
  <2>1. CASE Register(c)
    <3>1. table' # Absent
      BY <2>1, ConstantsAssumption DEF Register, Entry, TypeOK
    <3> QED BY <3>1
  <2>2. CASE LookUp(c)
    BY <2>2 DEF LookUp, GoTo, TypeOK
  <2>3. CASE Drain(c)
    <3>1. table' # Absent
      BY <2>3, ConstantsAssumption DEF Drain, TypeOK
    <3> QED BY <3>1
  <2>4. ASSUME ~Register(c), ~LookUp(c), ~Drain(c)
        PROVE  /\ UNCHANGED <<table, sawAbsent>>
               /\ \A d \in Calls : pc'[d] \in {"registering", "waiting"} => pc'[d] = pc[d]
               /\ \A d \in Calls : pc'[d] = "draining" => pc[d] \in {"waiting", "draining"}
    BY <1>2, <2>4
       DEF CallStep, Prepare, PrepareFails, Image, AskCreate, PortsInvalid, Created,
           CreateFails, Reconcile, Reconciled, Start, StartFails, Inspect, InspectFails,
           Exited, WaitErrs, Return, CleanUp, GoTo, TypeOK
  <2> QED BY <2>1, <2>2, <2>3, <2>4
<1>3. ASSUME NEW c \in Calls,
             CheckGpu(c) \/ DeletionStep(c) \/ EngineStep(c) \/ Kill(c) \/ Cancel(c)
      PROVE  EntryMade'
  <2>1. UNCHANGED <<table, sawAbsent>>
    BY <1>3 DEF CheckGpu, DeletionStep, Stop, Remove, Removed, TimesOut, EngineStep,
                EngineCreates, EngineExits, EngineRemoves, EngineKeeps, Kill, Cancel
  <2>2. \A d \in Calls : pc'[d] \in {"registering", "waiting", "draining"} => pc'[d] = pc[d]
    BY <1>3 DEF CheckGpu, AskCreate, GoTo, DeletionStep, Stop, Remove, Removed, TimesOut,
                EngineStep, EngineCreates, EngineExits, EngineRemoves, EngineKeeps, Kill,
                Cancel, TypeOK
  <2> QED BY <2>1, <2>2
<1> QED BY <1>1, <1>2, <1>3 DEF Next

\* Every variable keeps its type, whatever the engine does
\* (runContainer.go 50-382).
THEOREM TypeCorrect == Spec => []TypeOK
<1>1. Init => TypeOK
  BY ConstantsAssumption
     DEF Init, TypeOK, Labels, States, Codes, Results, Stages, Deleters, Over
<1>2. TypeOK /\ EntryMade /\ [Next]_vars => TypeOK'
  <2> SUFFICES ASSUME TypeOK, EntryMade, [Next]_vars PROVE TypeOK'
    OBVIOUS
  <2> USE DEF runVars, engineVars, nameVars, ghosts
  <2>1. CASE UNCHANGED vars
    BY <2>1 DEF vars, TypeOK
  <2>2. ASSUME NEW c \in Calls, CallStep(c) PROVE TypeOK'
    <3>1. CASE Prepare(c) BY <3>1 DEF Prepare, GoTo, TypeOK, Labels
    <3>2. CASE PrepareFails(c)
      BY <3>2 DEF PrepareFails, GoTo, TypeOK, Labels, Results
    <3>3. CASE Image(c) BY <3>3 DEF Image, AskCreate, GoTo, TypeOK, Labels
    <3>4. CASE PortsInvalid(c)
      BY <3>4, CleanUpType DEF PortsInvalid, TypeOK, Codes
    <3>5. CASE Created(c)
      <4>1. CASE CleanUp(c, "none", "none")
        BY <3>5, <4>1, CleanUpType DEF Created, TypeOK, Codes
      <4>2. CASE GoTo(c, "starting") /\ UNCHANGED <<result, deletion>>
        BY <3>5, <4>2 DEF Created, GoTo, TypeOK, Labels
      <4> QED BY <3>5, <4>1, <4>2 DEF Created
    <3>6. CASE CreateFails(c) BY <3>6 DEF CreateFails, GoTo, TypeOK, Labels
    <3>7. CASE Reconcile(c)
      <4>1. deletion' \in [Calls -> [Deleters -> Stages]]
        BY <3>7, DeleteType DEF Reconcile, Deleters, Stages, Over
      <4> QED BY <3>7, <4>1 DEF Reconcile, TypeOK
    <3>8. CASE Reconciled(c)
      BY <3>8, CleanUpType DEF Reconciled, CreateError, TypeOK, Codes
    <3>9. CASE Start(c) BY <3>9 DEF Start, Starts, GoTo, TypeOK, Labels, States
    <3>10. CASE StartFails(c)
      <4>1. CASE UNCHANGED engineVars
        BY <3>10, <4>1, CleanUpType DEF StartFails, TypeOK, Codes
      <4>2. ASSUME NEW address \in IPs, Starts(c, address) PROVE TypeOK'
        <5>1. container' \in [Calls -> States] /\ ip' \in [Calls -> IPs \cup {NoIP}]
          BY <4>2 DEF Starts, TypeOK, States
        <5>2. /\ pc' \in [Calls -> Labels]
              /\ result' \in [Calls -> Results]
              /\ deletion' \in [Calls -> [Deleters -> Stages]]
          BY <3>10, CleanUpType DEF StartFails, Codes
        <5> QED BY <3>10, <4>2, <5>1, <5>2 DEF StartFails, Starts, TypeOK
      <4> QED BY <3>10, <4>1, <4>2 DEF StartFails
    <3>11. CASE Inspect(c) BY <3>11 DEF Inspect, GoTo, TypeOK, Labels
    <3>12. CASE InspectFails(c)
      BY <3>12, CleanUpType DEF InspectFails, TypeOK, Codes
    <3>13. CASE LookUp(c) BY <3>13 DEF LookUp, GoTo, TypeOK, Labels
    <3>14. CASE Register(c)
      <4>1. table' \in SUBSET (IPs \cup {NoIP})
        BY <3>14 DEF Register, Entry, TypeOK, EntryMade
      <4>2. CASE GoTo(c, "waiting") /\ UNCHANGED <<result, deletion>>
        BY <3>14, <4>1, <4>2 DEF Register, GoTo, TypeOK, Labels
      <4>3. CASE CleanUp(c, "none", "erred")
        BY <3>14, <4>1, <4>3, CleanUpType DEF Register, TypeOK, Codes
      <4> QED BY <3>14, <4>2, <4>3 DEF Register
    <3>15. CASE Exited(c) BY <3>15 DEF Exited, GoTo, TypeOK, Labels, Results
    <3>16. CASE WaitErrs(c) BY <3>16 DEF WaitErrs, GoTo, TypeOK, Labels, Results, Codes
    <3>17. CASE Drain(c)
      <4>1. result[c].code \in Codes
        BY DEF TypeOK, Results
      <4>2. table' \in SUBSET (IPs \cup {NoIP})
        BY <3>17 DEF Drain, TypeOK, EntryMade
      <4>3. \/ CleanUp(c, result[c].code, "none")
            \/ CleanUp(c, result[c].code, "erred")
        BY <3>17 DEF Drain
      <4>4. /\ pc' \in [Calls -> Labels]
            /\ result' \in [Calls -> Results]
            /\ deletion' \in [Calls -> [Deleters -> Stages]]
        BY <4>1, <4>3, CleanUpType
      <4> QED BY <3>17, <4>2, <4>4 DEF Drain, TypeOK
    <3>18. CASE Return(c) BY <3>18 DEF Return, GoTo, TypeOK, Labels
    <3> QED BY <2>2, <3>1, <3>2, <3>3, <3>4, <3>5, <3>6, <3>7, <3>8, <3>9, <3>10,
               <3>11, <3>12, <3>13, <3>14, <3>15, <3>16, <3>17, <3>18 DEF CallStep
  <2>3. ASSUME NEW c \in Calls, CheckGpu(c) PROVE TypeOK'
    BY <2>3 DEF CheckGpu, AskCreate, GoTo, TypeOK, Labels
  <2>4. ASSUME NEW c \in Calls, DeletionStep(c) PROVE TypeOK'
    <3> PICK by \in Deleters : Stop(c, by) \/ Remove(c, by) \/ Removed(c, by) \/ TimesOut(c, by)
      BY <2>4 DEF DeletionStep
    <3> USE DEF TypeOK
    <3>0. ASSUME NEW stage \in Stages, Delete(c, by, stage)
          PROVE  deletion' \in [Calls -> [Deleters -> Stages]]
      BY <3>0, DeleteType
    <3>1. CASE Stop(c, by)
      <4>1. deletion' \in [Calls -> [Deleters -> Stages]]
        BY <3>0, <3>1 DEF Stop, Stages
      <4>2. CASE UNCHANGED <<container, exitCode, ip>>
        BY <3>1, <4>1, <4>2 DEF Stop
      <4>3. CASE Exits(c)
        <5>1. container' \in [Calls -> States] /\ ip' \in [Calls -> IPs \cup {NoIP}]
          BY <4>3 DEF Exits, States
        <5>2. exitCode' \in [Calls -> Codes]
          BY <4>3 DEF Exits, Codes
        <5> QED BY <3>1, <4>1, <5>1, <5>2 DEF Stop
      <4> QED BY <3>1, <4>2, <4>3 DEF Stop
    <3>2. CASE Remove(c, by)
      <4>1. deletion' \in [Calls -> [Deleters -> Stages]]
        BY <3>0, <3>2 DEF Remove, Stages, Over
      <4>2. CASE UNCHANGED engineVars
        BY <3>2, <4>1, <4>2 DEF Remove
      <4>3. CASE /\ container' = [container EXCEPT ![c] = "removing"]
                 /\ exitCode' = [exitCode EXCEPT ![c] = IF container[c] = "running"
                                                        THEN "nonzero" ELSE @]
                 /\ ip' = [ip EXCEPT ![c] = NoIP]
                 /\ UNCHANGED asked
        <5>1. container' \in [Calls -> States]
          BY <4>3 DEF States
        <5>2. exitCode' \in [Calls -> Codes] /\ ip' \in [Calls -> IPs \cup {NoIP}]
          BY <4>3 DEF Codes
        <5> QED BY <3>2, <4>1, <4>3, <5>1, <5>2 DEF Remove
      <4> QED BY <3>2, <4>2, <4>3 DEF Remove
    <3>3. CASE Removed(c, by)
      <4>1. deletion' \in [Calls -> [Deleters -> Stages]]
        BY <3>0, <3>3 DEF Removed, Stages, Over
      <4> QED BY <3>3, <4>1 DEF Removed
    <3>4. CASE TimesOut(c, by)
      <4>1. deletion' \in [Calls -> [Deleters -> Stages]]
        BY <3>0, <3>4 DEF TimesOut, Stages, Over
      <4> QED BY <3>4, <4>1 DEF TimesOut
    <3> QED BY <3>1, <3>2, <3>3, <3>4
  <2>5. ASSUME NEW c \in Calls, EngineStep(c) PROVE TypeOK'
    <3> USE DEF TypeOK
    <3>1. CASE EngineCreates(c) BY <3>1 DEF EngineCreates, States
    <3>2. CASE EngineExits(c) BY <3>2 DEF EngineExits, Exits, States, Codes
    <3>3. CASE EngineRemoves(c) BY <3>3 DEF EngineRemoves, States
    <3>4. CASE EngineKeeps(c) BY <3>4 DEF EngineKeeps, States, Stages, Over
    <3> QED BY <2>5, <3>1, <3>2, <3>3, <3>4 DEF EngineStep
  <2>6. ASSUME NEW c \in Calls, Kill(c) PROVE TypeOK'
    <3>1. deletion' \in [Calls -> [Deleters -> Stages]]
      BY <2>6, DeleteType DEF Kill, Deleters, Stages
    <3> QED BY <2>6, <3>1 DEF Kill, TypeOK
  <2>7. ASSUME NEW c \in Calls, Cancel(c) PROVE TypeOK'
    BY <2>7 DEF Cancel, TypeOK
  <2> QED BY <2>1, <2>2, <2>3, <2>4, <2>5, <2>6, <2>7 DEF Next
<1>3. Init => EntryMade
  BY DEF Init, EntryMade
<1> QED BY <1>1, <1>2, <1>3, EntryIsMade, PTL DEF Spec

THEOREM EntryCorrect == Spec => []EntryMade
<1>1. Init => EntryMade
  BY DEF Init, EntryMade
<1> QED BY <1>1, TypeCorrect, EntryIsMade, PTL DEF Spec

-----------------------------------------------------------------------------
\* The name has no address but those of calls that are still running, although
\* the table has no lock and several calls may have one address
\* (runContainer.go 281-295).
THEOREM NamesAreCalls == Spec => []NamesGoWithCalls
<1>1. Init => NamesGoWithCalls
  BY DEF Init, NamesGoWithCalls
<1>2. TypeOK /\ EntryMade /\ NamesGoWithCalls /\ [Next]_vars => NamesGoWithCalls'
  <2> SUFFICES ASSUME TypeOK, EntryMade, NamesGoWithCalls, [Next]_vars,
                      NEW address \in IPs \cup {NoIP}, table' # Absent, address \in table'
               PROVE  \E d \in Calls : inspected'[d] = address /\ pc'[d] \in {"waiting", "draining"}
    BY DEF NamesGoWithCalls
  <2> USE DEF runVars, engineVars, nameVars, ghosts
  \* What holds of every step that neither adds nor removes addresses.
  <2>0. ASSUME UNCHANGED <<table, inspected>>,
               \A d \in Calls : pc[d] \in {"waiting", "draining"} => pc'[d] \in {"waiting", "draining"}
        PROVE  \E d \in Calls : inspected'[d] = address /\ pc'[d] \in {"waiting", "draining"}
    BY <2>0 DEF NamesGoWithCalls
  <2>1. CASE UNCHANGED vars
    BY <2>0, <2>1 DEF vars
  <2>2. ASSUME NEW c \in Calls, CallStep(c)
        PROVE  \E d \in Calls : inspected'[d] = address /\ pc'[d] \in {"waiting", "draining"}
    <3>1. CASE Register(c)
      <4>1. pc[c] = "registering" /\ inspected' = inspected
        BY <3>1 DEF Register
      <4>2. address \in table \/ (address = inspected[c] /\ GoTo(c, "waiting"))
        BY <3>1 DEF Register, Entry
      <4>3. CASE address = inspected[c] /\ GoTo(c, "waiting")
        BY <4>1, <4>3 DEF GoTo, TypeOK
      <4>4. CASE address \in table /\ table # Absent
        <5>1. PICK d \in Calls : inspected[d] = address /\ pc[d] \in {"waiting", "draining"}
          BY <4>4 DEF NamesGoWithCalls
        <5> QED BY <3>1, <4>1, <5>1 DEF Register, CleanUp, GoTo, TypeOK
      <4>5. CASE table = Absent
        BY <3>1, <4>3, <4>5 DEF Register, Entry, EntryMade
      <4> QED BY <4>2, <4>3, <4>4, <4>5
    <3>2. CASE Drain(c)
      <4>1. table' = table \ {inspected[c]} /\ inspected' = inspected
        BY <3>2 DEF Drain
      <4>2. table # Absent /\ pc[c] = "draining"
        BY <3>2 DEF Drain, EntryMade
      <4>3. PICK d \in Calls : inspected[d] = address /\ pc[d] \in {"waiting", "draining"}
        BY <4>1, <4>2 DEF NamesGoWithCalls
      <4>4. d # c /\ pc'[d] = pc[d]
        BY <3>2, <4>1, <4>3 DEF Drain, CleanUp, GoTo, TypeOK
      <4> QED BY <4>1, <4>3, <4>4
    <3>3. CASE Inspect(c)
      <4>1. PICK d \in Calls : inspected[d] = address /\ pc[d] \in {"waiting", "draining"}
        BY <3>3 DEF Inspect, NamesGoWithCalls
      <4> QED BY <3>3, <4>1 DEF Inspect, GoTo, TypeOK
    <3>4. ASSUME ~Register(c), ~Drain(c), ~Inspect(c)
          PROVE  /\ UNCHANGED <<table, inspected>>
                 /\ \A d \in Calls : pc[d] \in {"waiting", "draining"}
                                   => pc'[d] \in {"waiting", "draining"}
      BY <2>2, <3>4
         DEF CallStep, Prepare, PrepareFails, Image, AskCreate, PortsInvalid, Created,
             CreateFails, Reconcile, Reconciled, Start, StartFails, InspectFails, LookUp,
             Exited, WaitErrs, Return, CleanUp, GoTo, TypeOK
    <3> QED BY <2>0, <3>1, <3>2, <3>3, <3>4
  <2>3. ASSUME NEW c \in Calls,
               CheckGpu(c) \/ DeletionStep(c) \/ EngineStep(c) \/ Kill(c) \/ Cancel(c)
        PROVE  \E d \in Calls : inspected'[d] = address /\ pc'[d] \in {"waiting", "draining"}
    <3>1. UNCHANGED <<table, inspected>>
      BY <2>3 DEF CheckGpu, DeletionStep, Stop, Remove, Removed, TimesOut, EngineStep,
                  EngineCreates, EngineExits, EngineRemoves, EngineKeeps, Kill, Cancel
    <3>2. \A d \in Calls : pc[d] \in {"waiting", "draining"} => pc'[d] \in {"waiting", "draining"}
      BY <2>3 DEF CheckGpu, AskCreate, GoTo, DeletionStep, Stop, Remove, Removed, TimesOut,
                  EngineStep, EngineCreates, EngineExits, EngineRemoves, EngineKeeps, Kill,
                  Cancel, TypeOK
    <3> QED BY <2>0, <3>1, <3>2
  <2> QED BY <2>1, <2>2, <2>3 DEF Next
<1> QED BY <1>1, <1>2, TypeCorrect, EntryCorrect, PTL DEF Spec

-----------------------------------------------------------------------------
(* No container outlives its call unnoticed *)

Reported(c) == \E by \in Deleters : deletion[c][by] \in {"failed", "timedOut"}

\* The clean-up starts when RunContainer returns, unless it never got as far as
\* asking for a container, and is over when it has returned.
CleanUpInPlace(c) ==
    /\ pc[c] \notin {"cleaning", "returned"} => deletion[c]["cleanup"] = "no"
    /\ pc[c] = "cleaning" => deletion[c]["cleanup"] # "no"
    /\ pc[c] = "returned" => \/ deletion[c]["cleanup"] \in Over
                             \/ container[c] = "none" /\ c \notin asked

\* The engine is asked once, before there is a container.
AskedOnce(c) ==
    /\ pc[c] \in {"idle", "imaging", "checkingGpu"} =>
          /\ container[c] = "none"
          /\ c \notin asked
          /\ \A by \in Deleters : deletion[c][by] # "await"
    /\ c \in asked => /\ container[c] = "none"
                      /\ \A by \in Deleters : deletion[c][by] # "await"

\* A removal under way has somebody waiting for it, or somebody who gave up and
\* said so; and who waits does so for a removal.
RemovalsAwaited(c) ==
    /\ container[c] = "removing" =>
          \/ Reported(c)
          \/ \E by \in Deleters : deletion[c][by] = "await"
    /\ \A by \in Deleters : deletion[c][by] = "await" => container[c] \in {"removing", "none"}

CleanedUp(c) ==
    deletion[c]["cleanup"] = "ok" =>
        container[c] \in {"none", "removing"} \/ c \in late \/ Reported(c)

Tidy(c) == CleanUpInPlace(c) /\ AskedOnce(c) /\ RemovalsAwaited(c) /\ CleanedUp(c)

\* A step of another call does not disturb this.
LEMMA TidyFrame ==
    ASSUME NEW d \in Calls, Tidy(d),
           pc'[d] = pc[d], container'[d] = container[d], deletion'[d] = deletion[d],
           (d \in asked') <=> (d \in asked), d \in late => d \in late'
    PROVE  Tidy(d)'
  BY DEF Tidy, CleanUpInPlace, AskedOnce, RemovalsAwaited, CleanedUp, Reported

\* RunContainer returns: from a place where the clean-up has not started.
LEMMA TidyCleanUp ==
    ASSUME TypeOK, NEW c \in Calls, Tidy(c), NEW code, NEW erred, CleanUp(c, code, erred),
           pc[c] \notin {"cleaning", "returned"},
           asked' = asked, late' = late,
           container'[c] = container[c] \/ (container[c] = "created" /\ container'[c] = "running")
    PROVE  Tidy(c)'
<1>1. /\ pc'[c] = "cleaning"
      /\ deletion'[c] = [deletion[c] EXCEPT !["cleanup"] = "stop"]
  BY DEF CleanUp, GoTo, Delete, TypeOK
<1>2. /\ deletion'[c]["cleanup"] = "stop"
      /\ \A by \in Deleters \ {"cleanup"} : deletion'[c][by] = deletion[c][by]
  BY <1>1 DEF TypeOK, Deleters
<1>3. deletion[c]["cleanup"] = "no"
  BY DEF Tidy, CleanUpInPlace
<1>4. Reported(c) => Reported(c)'
  BY <1>2, <1>3 DEF Reported
<1>5. AskedOnce(c)' /\ CleanUpInPlace(c)'
  BY <1>1, <1>2 DEF Tidy, AskedOnce, CleanUpInPlace
<1>6. RemovalsAwaited(c)'
  BY <1>2, <1>3, <1>4 DEF Tidy, RemovalsAwaited
<1>7. CleanedUp(c)'
  BY <1>2 DEF CleanedUp
<1> QED BY <1>5, <1>6, <1>7 DEF Tidy

\* What a step of a call leaves alone of the other calls.
LEMMA OneAtATime ==
    ASSUME TypeOK, NEW c \in Calls,
           \/ CallStep(c) \/ CheckGpu(c) \/ DeletionStep(c) \/ EngineStep(c) \/ Kill(c) \/ Cancel(c),
           NEW d \in Calls, d # c
    PROVE  /\ pc'[d] = pc[d]
           /\ container'[d] = container[d]
           /\ deletion'[d] = deletion[d]
           /\ (d \in asked') <=> (d \in asked)
           /\ d \in late => d \in late'
<1> USE DEF runVars, engineVars, nameVars, ghosts, TypeOK
<1>1. CASE CallStep(c)
  BY <1>1 DEF CallStep, Prepare, PrepareFails, Image, AskCreate, PortsInvalid, Created,
      CreateFails, Reconcile, Reconciled, Start, StartFails, Starts, Inspect, InspectFails,
      LookUp, Register, Exited, WaitErrs, Drain, Return, CleanUp, Delete, GoTo
<1>2. CASE CheckGpu(c) \/ Kill(c) \/ Cancel(c)
  BY <1>2 DEF CheckGpu, AskCreate, GoTo, Kill, Delete, Cancel
<1>3. CASE DeletionStep(c)
  BY <1>3 DEF DeletionStep, Stop, Exits, Remove, Removed, TimesOut, Delete
<1>4. CASE EngineStep(c)
  BY <1>4 DEF EngineStep, EngineCreates, EngineExits, Exits, EngineRemoves, EngineKeeps
<1> QED BY <1>1, <1>2, <1>3, <1>4

\* RunContainer's own steps.
LEMMA TidyCall ==
    ASSUME TypeOK, NEW c \in Calls, Tidy(c), CallStep(c) \/ CheckGpu(c)
    PROVE  Tidy(c)'
<1> USE DEF runVars, engineVars, nameVars, ghosts
<1> USE DEF Tidy, CleanUpInPlace, AskedOnce, RemovalsAwaited, CleanedUp, Reported
<1>1. CASE \/ Prepare(c) \/ PrepareFails(c) \/ CreateFails(c) \/ Inspect(c) \/ LookUp(c)
           \/ Exited(c) \/ WaitErrs(c) \/ Return(c)
  <2>0. /\ UNCHANGED <<container, deletion, late>>
        /\ c \in asked' => c \in asked
    BY <1>1 DEF Prepare, PrepareFails, CreateFails, Inspect, LookUp, Exited, WaitErrs, Return
  <2>1. CASE Prepare(c)
    <3>1. pc[c] = "idle" /\ pc'[c] = "imaging"
      BY <2>1 DEF Prepare, GoTo, TypeOK
    <3> QED BY <2>0, <3>1
  <2>2. CASE PrepareFails(c)
    <3>1. pc[c] = "idle" /\ pc'[c] = "returned"
      BY <2>2 DEF PrepareFails, GoTo, TypeOK
    <3> QED BY <2>0, <3>1
  <2>3. CASE Return(c)
    <3>1. pc[c] = "cleaning" /\ pc'[c] = "returned" /\ deletion[c]["cleanup"] \in Over
      BY <2>3 DEF Return, GoTo, TypeOK
    <3> QED BY <2>0, <3>1
  <2>4. CASE CreateFails(c) \/ Inspect(c) \/ LookUp(c) \/ Exited(c) \/ WaitErrs(c)
    <3>1. /\ pc[c] \notin {"cleaning", "returned"}
          /\ pc'[c] \in {"reconciling", "looking", "registering", "draining"}
      BY <2>4 DEF CreateFails, Inspect, LookUp, Exited, WaitErrs, GoTo, TypeOK
    <3> QED BY <2>0, <3>1
  <2> QED BY <1>1, <2>1, <2>2, <2>3, <2>4
<1>2. CASE Image(c) \/ CheckGpu(c)
  <2>1. /\ UNCHANGED <<container, deletion, late>>
        /\ pc[c] \in {"imaging", "checkingGpu"}
        /\ \/ pc'[c] = "creating"
           \/ pc'[c] = "checkingGpu" /\ UNCHANGED asked
    BY <1>2 DEF Image, CheckGpu, AskCreate, GoTo, TypeOK
  <2> QED BY <2>1
<1>3. CASE PortsInvalid(c) \/ Reconciled(c) \/ InspectFails(c) \/ Drain(c)
  <2>1. /\ pc[c] \notin {"cleaning", "returned"}
        /\ UNCHANGED <<asked, late, container>>
    BY <1>3 DEF PortsInvalid, Reconciled, InspectFails, Drain
  <2>2. PICK code, erred : CleanUp(c, code, erred)
    BY <1>3 DEF PortsInvalid, Reconciled, InspectFails, Drain
  <2> QED BY <2>1, <2>2, TidyCleanUp
<1>4. CASE Created(c)
  <2>1. pc[c] = "creating" /\ UNCHANGED <<asked, late, container>>
    BY <1>4 DEF Created
  <2>2. CASE CleanUp(c, "none", "none")
    BY <2>1, <2>2, TidyCleanUp
  <2>3. CASE GoTo(c, "starting") /\ UNCHANGED <<result, deletion>>
    <3>1. pc'[c] = "starting"
      BY <2>3 DEF GoTo, TypeOK
    <3> QED BY <2>1, <2>3, <3>1
  <2> QED BY <1>4, <2>2, <2>3 DEF Created
<1>5. CASE Reconcile(c)
  <2>1. /\ pc[c] = "reconciling" /\ UNCHANGED <<pc, asked, late, container>>
        /\ deletion'[c]["reconcile"] \in {"remove", "ok", "failed"}
        /\ deletion[c]["reconcile"] = "no"
        /\ \A by \in Deleters \ {"reconcile"} : deletion'[c][by] = deletion[c][by]
    BY <1>5 DEF Reconcile, Delete, Deleters, TypeOK
  <2>2. Reported(c) => Reported(c)'
    BY <2>1 DEF Reported
  <2> QED BY <2>1, <2>2 DEF Deleters
<1>6. CASE Start(c)
  <2>1. /\ pc[c] = "starting" /\ pc'[c] = "inspecting"
        /\ UNCHANGED <<asked, late, deletion>>
        /\ container[c] = "created" /\ container'[c] = "running"
    BY <1>6 DEF Start, Starts, GoTo, TypeOK
  <2> QED BY <2>1
<1>7. CASE StartFails(c)
  <2>1. pc[c] = "starting" /\ asked' = asked /\ late' = late /\ CleanUp(c, "none", "erred")
    BY <1>7 DEF StartFails, Starts
  <2>2. container'[c] = container[c] \/ (container[c] = "created" /\ container'[c] = "running")
    BY <1>7 DEF StartFails, Starts, TypeOK
  <2> QED BY <2>1, <2>2, TidyCleanUp
<1>8. CASE Register(c)
  <2>1. pc[c] = "registering" /\ UNCHANGED <<asked, late, container>>
    BY <1>8 DEF Register
  <2>2. CASE CleanUp(c, "none", "erred")
    BY <2>1, <2>2, TidyCleanUp
  <2>3. CASE GoTo(c, "waiting") /\ UNCHANGED <<result, deletion>>
    <3>1. pc'[c] = "waiting"
      BY <2>3 DEF GoTo, TypeOK
    <3> QED BY <2>1, <2>3, <3>1
  <2> QED BY <1>8, <2>2, <2>3 DEF Register
<1> QED BY <1>1, <1>2, <1>3, <1>4, <1>5, <1>6, <1>7, <1>8 DEF CallStep

\* The deletions, step by step.
LEMMA TidyDeletion ==
    ASSUME TypeOK, NEW c \in Calls, Tidy(c), NEW by \in Deleters,
           Stop(c, by) \/ Remove(c, by) \/ Removed(c, by) \/ TimesOut(c, by)
    PROVE  Tidy(c)'
<1> USE DEF runVars, engineVars, nameVars, ghosts, Tidy, CleanUpInPlace, AskedOnce,
            RemovalsAwaited, CleanedUp, Reported
<1>1. /\ pc' = pc /\ asked' = asked /\ late' = late
      /\ \A other \in Deleters \ {by} : deletion'[c][other] = deletion[c][other]
      /\ deletion[c][by] \notin {"failed", "timedOut"}
  BY DEF Stop, Remove, Removed, TimesOut, Delete, TypeOK
<1>2. Reported(c) => Reported(c)'
  BY <1>1
<1>3. "cleanup" \in Deleters
  BY DEF Deleters
<1>4. CASE Stop(c, by)
  <2>1. deletion[c][by] = "stop" /\ deletion'[c][by] = "remove"
    BY <1>4 DEF Stop, Delete, TypeOK
  <2>2. \/ container'[c] = container[c]
        \/ container[c] = "running" /\ container'[c] = "exited"
    BY <1>4 DEF Stop, Exits, TypeOK
  <2> QED BY <1>1, <1>2, <1>3, <2>1, <2>2 DEF Over
<1>5. CASE Remove(c, by)
  <2>1. deletion[c][by] = "remove"
    BY <1>5 DEF Remove
  <2>2. CASE /\ container[c] \in {"none", "removing"}
             /\ Delete(c, by, "ok")
             /\ UNCHANGED engineVars
    <3>1. deletion'[c][by] = "ok" /\ container' = container
      BY <2>2 DEF Delete, TypeOK
    <3> QED BY <1>1, <1>2, <1>3, <2>1, <2>2, <3>1 DEF Over
  <2>3. CASE /\ container[c] \in {"created", "running", "exited"}
             /\ container' = [container EXCEPT ![c] = "removing"]
             /\ Delete(c, by, "await")
    <3>1. deletion'[c][by] = "await" /\ container'[c] = "removing"
      BY <2>3 DEF Delete, TypeOK
    <3> QED BY <1>1, <1>2, <1>3, <2>1, <2>3, <3>1 DEF Over
  <2>4. CASE Delete(c, by, "failed") /\ UNCHANGED engineVars
    <3>1. deletion'[c][by] = "failed" /\ container' = container
      BY <2>4 DEF Delete, TypeOK
    <3> QED BY <1>1, <1>2, <1>3, <2>1, <3>1 DEF Over
  <2> QED BY <1>5, <2>2, <2>3, <2>4 DEF Remove
<1>6. CASE Removed(c, by)
  <2>1. /\ deletion[c][by] = "await" /\ deletion'[c][by] = "ok"
        /\ container' = container /\ container[c] = "none"
    BY <1>6 DEF Removed, Exists, Delete, TypeOK
  <2> QED BY <1>1, <1>2, <1>3, <2>1 DEF Over
<1>7. CASE TimesOut(c, by)
  <2>1. /\ deletion[c][by] = "await" /\ deletion'[c][by] = "timedOut"
        /\ container' = container
    BY <1>7 DEF TimesOut, Delete, TypeOK
  <2> QED BY <1>1, <1>2, <1>3, <2>1 DEF Over
<1> QED BY <1>4, <1>5, <1>6, <1>7

\* The engine's steps: a create that nobody waits for, an exit, and the end of
\* a removal.
LEMMA TidyEngine ==
    ASSUME TypeOK, NEW c \in Calls, Tidy(c), EngineStep(c)
    PROVE  Tidy(c)'
<1> USE DEF runVars, engineVars, nameVars, ghosts, Tidy, CleanUpInPlace, AskedOnce,
            RemovalsAwaited, CleanedUp, Reported
<1>1. CASE EngineCreates(c)
  <2>1. /\ pc' = pc /\ deletion' = deletion
        /\ c \in asked /\ c \notin asked'
        /\ container'[c] = "created"
        /\ c \in late => c \in late'
        /\ deletion[c]["cleanup"] \in Over => c \in late'
    BY <1>1 DEF EngineCreates, TypeOK
  <2> QED BY <2>1 DEF Over
<1>2. CASE EngineExits(c)
  <2>1. /\ pc' = pc /\ deletion' = deletion /\ asked' = asked /\ late' = late
        /\ container[c] = "running" /\ container'[c] = "exited"
    BY <1>2 DEF EngineExits, Exits, TypeOK
  <2> QED BY <2>1
<1>3. CASE EngineRemoves(c)
  <2>1. /\ pc' = pc /\ deletion' = deletion /\ asked' = asked /\ late' = late
        /\ container[c] = "removing" /\ container'[c] = "none"
    BY <1>3 DEF EngineRemoves, TypeOK
  <2> QED BY <2>1
<1>4. CASE EngineKeeps(c)
  <2>1. /\ pc' = pc /\ asked' = asked /\ late' = late
        /\ container[c] = "removing" /\ container'[c] = "exited"
        /\ \A by \in Deleters : deletion'[c][by] =
              IF deletion[c][by] = "await" THEN "failed" ELSE deletion[c][by]
    BY <1>4 DEF EngineKeeps, TypeOK
  <2>2. Reported(c)'
    BY <2>1
  <2>3. deletion[c]["cleanup"] \in Over => deletion'[c]["cleanup"] = deletion[c]["cleanup"]
    BY <2>1 DEF Deleters, Over
  <2> QED BY <2>1, <2>2, <2>3 DEF Deleters
<1> QED BY <1>1, <1>2, <1>3, <1>4 DEF EngineStep

LEMMA TidyKill ==
    ASSUME TypeOK, NEW c \in Calls, Tidy(c), Kill(c) \/ Cancel(c)
    PROVE  Tidy(c)'
<1> USE DEF runVars, engineVars, nameVars, ghosts, Tidy, CleanUpInPlace, AskedOnce,
            RemovalsAwaited, CleanedUp, Reported
<1>1. CASE Kill(c)
  <2>1. /\ UNCHANGED <<pc, asked, late, container>>
        /\ deletion[c]["kill"] = "no" /\ deletion'[c]["kill"] = "stop"
        /\ \A by \in Deleters \ {"kill"} : deletion'[c][by] = deletion[c][by]
    BY <1>1 DEF Kill, Delete, Deleters, TypeOK
  <2>2. Reported(c) => Reported(c)'
    BY <2>1
  <2> QED BY <2>1, <2>2 DEF Deleters
<1>2. CASE Cancel(c)
  BY <1>2 DEF Cancel
<1> QED BY <1>1, <1>2

AllTidy == \A c \in Calls : Tidy(c)

LEMMA StaysTidy == TypeOK /\ AllTidy /\ [Next]_vars => AllTidy'
<1> SUFFICES ASSUME TypeOK, AllTidy, [Next]_vars, NEW d \in Calls PROVE Tidy(d)'
  BY DEF AllTidy
<1>0. Tidy(d)
  BY DEF AllTidy
<1>1. CASE UNCHANGED vars
  BY <1>0, <1>1, TidyFrame DEF vars, runVars, engineVars, ghosts
<1>2. ASSUME NEW c \in Calls,
             CallStep(c) \/ CheckGpu(c) \/ DeletionStep(c) \/ EngineStep(c) \/ Kill(c) \/ Cancel(c)
      PROVE  Tidy(d)'
  <2>1. CASE c = d
    <3>1. CASE CallStep(d) \/ CheckGpu(d)
      BY <1>0, <3>1, TidyCall
    <3>2. CASE DeletionStep(d)
      BY <1>0, <3>2, TidyDeletion DEF DeletionStep
    <3>3. CASE EngineStep(d)
      BY <1>0, <3>3, TidyEngine
    <3>4. CASE Kill(d) \/ Cancel(d)
      BY <1>0, <3>4, TidyKill
    <3> QED BY <1>2, <2>1, <3>1, <3>2, <3>3, <3>4
  <2>2. CASE c # d
    <3>1. /\ pc'[d] = pc[d]
          /\ container'[d] = container[d]
          /\ deletion'[d] = deletion[d]
          /\ (d \in asked') <=> (d \in asked)
          /\ d \in late => d \in late'
      BY <1>2, <2>2, OneAtATime
    <3> QED BY <1>0, <3>1, TidyFrame
  <2> QED BY <2>1, <2>2
<1> QED BY <1>1, <1>2 DEF Next

\* No container outlives its call unnoticed: it resisted a deletion, which was
\* reported, or was created after the clean-up (runContainer.go 80-105 and
\* 202-217, deleteContainer.go 46-60).
THEOREM NoneLeftBehind == Spec => []LeftoversAreKnown
<1>1. Init => AllTidy
  BY DEF Init, AllTidy, Tidy, CleanUpInPlace, AskedOnce, RemovalsAwaited, CleanedUp, Deleters
<1>2. AllTidy => LeftoversAreKnown
  BY DEF AllTidy, Tidy, CleanUpInPlace, CleanedUp, Reported, LeftoversAreKnown, Over, Deleters
<1> QED BY <1>1, <1>2, TypeCorrect, StaysTidy, PTL DEF Spec

-----------------------------------------------------------------------------
(* A success is earned *)

Begun == {"inspecting", "looking", "registering", "waiting"}
Ended(c) == pc[c] = "draining" \/ (pc[c] \in {"cleaning", "returned"} /\ result[c].err = "none")

\* A container that was started runs, or has an exit code: there is no create under way
\* that could make another one.  An exit code that was taken for the call's stays.
Earned(c) ==
    /\ pc[c] \in Begun \cup {"starting"} => c \notin asked
    /\ pc[c] \in Begun => container[c] = "running" \/ (Stopped(c) /\ exitCode[c] # "none")
    /\ (Ended(c) /\ result[c].code # "nonzero") =>
          \/ c \in cancelled \cup waitErred
          \/ exitCode[c] = "zero" /\ Stopped(c) /\ c \notin asked

AllEarned == \A c \in Calls : Earned(c)

\* RunContainer's own steps.
LEMMA EarnedCall ==
    ASSUME TypeOK, NEW c \in Calls, Tidy(c), Earned(c), CallStep(c) \/ CheckGpu(c)
    PROVE  Earned(c)'
<1> USE DEF runVars, engineVars, nameVars, ghosts, Earned, Ended, Begun, Stopped, GoTo, CleanUp,
            TypeOK
<1>1. CASE Prepare(c) \/ PortsInvalid(c) \/ CreateFails(c) \/ Reconcile(c)
  BY <1>1 DEF Prepare, PortsInvalid, CreateFails, Reconcile
<1>13. CASE PrepareFails(c)
  <2>1. pc'[c] = "returned" /\ result'[c].err = "erred"
    BY <1>13 DEF PrepareFails, Results
  <2> QED BY <2>1
<1>2. CASE Image(c) \/ CheckGpu(c)
  BY <1>2 DEF Image, CheckGpu, AskCreate
<1>3. CASE Created(c)
  <2>1. c \notin asked
    BY <1>3 DEF Created, Exists, Tidy, AskedOnce
  <2> QED BY <1>3, <2>1 DEF Created
<1>4. CASE Reconciled(c)
  <2>1. CreateError(c) = "none" => c \in cancelled
    BY DEF CreateError
  <2> QED BY <1>4, <2>1 DEF Reconciled
<1>5. CASE Start(c)
  BY <1>5 DEF Start, Starts
<1>6. CASE StartFails(c)
  BY <1>6 DEF StartFails, Starts
<1>7. CASE Inspect(c) \/ InspectFails(c) \/ LookUp(c)
  BY <1>7 DEF Inspect, InspectFails, LookUp
<1>8. CASE Register(c)
  BY <1>8 DEF Register
<1>9. CASE Exited(c)
  <2>1. exitCode[c] \in {"zero", "nonzero"} /\ c \notin asked
    BY <1>9 DEF Exited, Codes
  <2> QED BY <1>9, <2>1 DEF Exited
<1>10. CASE WaitErrs(c)
  BY <1>10 DEF WaitErrs
<1>11. CASE Drain(c)
  BY <1>11 DEF Drain
<1>12. CASE Return(c)
  BY <1>12 DEF Return
<1> QED BY <1>1, <1>2, <1>3, <1>4, <1>5, <1>6, <1>7, <1>8, <1>9, <1>10, <1>11, <1>12, <1>13
        DEF CallStep

\* Those of whoever deletes, of the engine, and a kill: a container that stopped stays so.
LEMMA EarnedBeside ==
    ASSUME TypeOK, NEW c \in Calls, Tidy(c), Earned(c),
           DeletionStep(c) \/ EngineStep(c) \/ Kill(c) \/ Cancel(c)
    PROVE  Earned(c)'
<1> USE DEF runVars, engineVars, nameVars, ghosts, Earned, Ended, Begun, Stopped, TypeOK
<1>1. CASE DeletionStep(c)
  <2> PICK by \in Deleters : Stop(c, by) \/ Remove(c, by) \/ Removed(c, by) \/ TimesOut(c, by)
    BY <1>1 DEF DeletionStep
  <2>1. CASE Stop(c, by)
    BY <2>1 DEF Stop, Exits
  <2>2. CASE Remove(c, by)
    <3>1. UNCHANGED <<pc, cancelled, result, waitErred, asked>>
      BY <2>2 DEF Remove
    <3>2. CASE UNCHANGED engineVars
      BY <3>1, <3>2
    <3>3. CASE /\ container' = [container EXCEPT ![c] = "removing"]
               /\ exitCode' = [exitCode EXCEPT ![c] = IF container[c] = "running"
                                                      THEN "nonzero" ELSE @]
      BY <3>1, <3>3
    <3> QED BY <2>2, <3>2, <3>3 DEF Remove
  <2>3. CASE Removed(c, by) \/ TimesOut(c, by)
    BY <2>3 DEF Removed, TimesOut
  <2> QED BY <2>1, <2>2, <2>3
<1>2. CASE EngineCreates(c)
  BY <1>2 DEF EngineCreates
<1>3. CASE EngineExits(c)
  BY <1>3 DEF EngineExits, Exits
<1>4. CASE EngineRemoves(c) \/ EngineKeeps(c)
  BY <1>4 DEF EngineRemoves, EngineKeeps
<1>5. CASE Kill(c) \/ Cancel(c)
  BY <1>5 DEF Kill, Cancel
<1> QED BY <1>1, <1>2, <1>3, <1>4, <1>5 DEF EngineStep

\* What else a step of a call leaves alone of the other calls.
LEMMA NoOtherCode ==
    ASSUME TypeOK, NEW c \in Calls,
           \/ CallStep(c) \/ CheckGpu(c) \/ DeletionStep(c) \/ EngineStep(c) \/ Kill(c) \/ Cancel(c),
           NEW d \in Calls, d # c
    PROVE  /\ result'[d] = result[d]
           /\ exitCode'[d] = exitCode[d]
           /\ d \in cancelled \cup waitErred => d \in cancelled' \cup waitErred'
<1> USE DEF runVars, engineVars, nameVars, ghosts, TypeOK
<1>1. CASE CallStep(c)
  BY <1>1 DEF CallStep, Prepare, PrepareFails, Image, AskCreate, PortsInvalid, Created,
      CreateFails, Reconcile, Reconciled, Start, StartFails, Starts, Inspect, InspectFails,
      LookUp, Register, Exited, WaitErrs, Drain, Return, CleanUp, Delete, GoTo
<1>2. CASE CheckGpu(c) \/ Kill(c) \/ Cancel(c)
  BY <1>2 DEF CheckGpu, AskCreate, GoTo, Kill, Delete, Cancel
<1>3. CASE DeletionStep(c)
  BY <1>3 DEF DeletionStep, Stop, Exits, Remove, Removed, TimesOut, Delete
<1>4. CASE EngineStep(c)
  BY <1>4 DEF EngineStep, EngineCreates, EngineExits, Exits, EngineRemoves, EngineKeeps
<1> QED BY <1>1, <1>2, <1>3, <1>4

LEMMA StaysEarned == TypeOK /\ AllTidy /\ AllEarned /\ [Next]_vars => AllEarned'
<1> SUFFICES ASSUME TypeOK, AllTidy, AllEarned, [Next]_vars, NEW d \in Calls PROVE Earned(d)'
  BY DEF AllEarned
<1>0. Tidy(d) /\ Earned(d)
  BY DEF AllTidy, AllEarned
<1>1. CASE UNCHANGED vars
  BY <1>0, <1>1 DEF vars, runVars, engineVars, ghosts, Earned, Ended, Stopped
<1>2. ASSUME NEW c \in Calls,
             CallStep(c) \/ CheckGpu(c) \/ DeletionStep(c) \/ EngineStep(c) \/ Kill(c) \/ Cancel(c)
      PROVE  Earned(d)'
  <2>1. CASE c = d
    BY <1>0, <1>2, <2>1, EarnedCall, EarnedBeside
  <2>2. CASE c # d
    <3>1. /\ pc'[d] = pc[d] /\ container'[d] = container[d]
          /\ (d \in asked') <=> (d \in asked)
          /\ result'[d] = result[d] /\ exitCode'[d] = exitCode[d]
          /\ d \in cancelled \cup waitErred => d \in cancelled' \cup waitErred'
      BY <1>2, <2>2, OneAtATime, NoOtherCode
    <3> QED BY <1>0, <3>1 DEF Earned, Ended, Stopped
  <2> QED BY <2>1, <2>2
<1> QED BY <1>1, <1>2 DEF Next

\* A call that returns no error and no exit code but zero was stopped by somebody or
\* has a container that exited with zero, whoever else was deleting it, however late the
\* engine acted; but for a wait that erred (runContainer.go 202-242 and 302-317).
THEOREM SuccessesAreEarned == Spec => []SuccessIsEarned
<1>1. Init => AllTidy /\ AllEarned
  BY DEF Init, AllTidy, Tidy, CleanUpInPlace, AskedOnce, RemovalsAwaited, CleanedUp, Deleters,
         AllEarned, Earned, Ended, Begun
<1>2. AllEarned => SuccessIsEarned
  BY DEF AllEarned, Earned, Ended, SuccessIsEarned
<1> QED BY <1>1, <1>2, TypeCorrect, StaysTidy, StaysEarned, PTL DEF Spec
=============================================================================
