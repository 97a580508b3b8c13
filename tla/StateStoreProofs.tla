-------------------------- MODULE StateStoreProofs --------------------------
(***************************************************************************)
(* How far deliveries may overtake each other without a restart of the node *)
(* leaving out an event: by the two seconds newStateStore goes back, less   *)
(* what local time is ahead of UTC, for any events, timestamps and number   *)
(* of crashes.                                                              *)
(***************************************************************************)
EXTENDS StateStore, TLAPS, WellFoundedInduction

USE EventsAssumption, SecondAssumption, LagAssumption DEF AuthKinds

LEMMA SecondOf ==
  ASSUME NEW t \in Nat
  PROVE  t \div Second \in Nat /\ (t \div Second) * Second <= t
  OBVIOUS

-----------------------------------------------------------------------------
(* Type correctness *)

LEMMA InitTypeOK == Init => TypeOK
  BY DEF Init, TypeOK, Phases

LEMMA GoroutineTypeOK ==
  ASSUME TypeOK, Boot \/ Register \/ Snapshot \/ EndReplay \/ RecordTimestamp
  PROVE  TypeOK'
  <1> USE DEF TypeOK, Phases, badger, bus
  <1>1. CASE Boot
    <2>1. SinceOf(last) \in Int
      BY DEF SinceOf
    <2> QED BY <1>1, <2>1 DEF Boot
  <1>2. CASE Register
    BY <1>2 DEF Register
  <1>3. CASE Snapshot
    BY <1>3 DEF Snapshot
  <1>4. CASE EndReplay
    BY <1>4 DEF EndReplay
  <1>5. CASE RecordTimestamp
    <2>1. last' \in Nat
      BY <1>5, SecondOf DEF RecordTimestamp
    <2> QED BY <1>5, <2>1 DEF RecordTimestamp
  <1> QED BY <1>1, <1>2, <1>3, <1>4, <1>5

LEMMA ApplyTypeOK ==
  ASSUME TypeOK, NEW e \in Events, ApplyReplayed(e) \/ ApplyLive(e)
  PROVE  TypeOK'
  <1> USE DEF TypeOK, Phases
  <1>1. /\ e \in published
        /\ Apply(e)
        /\ replay' \subseteq published /\ live' \subseteq published
        /\ UNCHANGED <<published, last, phase, since, client, lag, doubled, crashes>>
    BY DEF ApplyReplayed, ApplyLive
  <1>2. auths' \in [Subjects -> Events \cup {None}]
    BY <1>1 DEF Apply
  <1>3. calls' \in [Subjects -> {"unknown", "known", "killed"}]
    BY <1>1 DEF Apply
  <1>4. applied' \subseteq published' /\ current' \in published' 
    BY <1>1 DEF Apply
  <1> QED BY <1>1, <1>2, <1>3, <1>4

LEMMA RequestTypeOK ==
  ASSUME TypeOK,
         \/ \E e \in Events : PublishCall(e) \/ AddAuth(e) \/ RemoveAuth(e)
         \/ AddAuthReturns \/ AddAuthTimesOut \/ Crash
  PROVE  TypeOK'
  <1> USE DEF TypeOK, Phases, badger, bus
  <1>1. CASE \E e \in Events : PublishCall(e) \/ AddAuth(e) \/ RemoveAuth(e)
    BY <1>1 DEF PublishCall, AddAuth, RemoveAuth, Publish
  <1>2. CASE AddAuthReturns
    BY <1>2 DEF AddAuthReturns
  <1>3. CASE AddAuthTimesOut
    BY <1>3 DEF AddAuthTimesOut
  <1>4. CASE Crash
    BY <1>4 DEF Crash
  <1> QED BY <1>1, <1>2, <1>3, <1>4

LEMMA NextTypeOK == TypeOK /\ [Next]_vars => TypeOK'
  <1> SUFFICES ASSUME TypeOK, [Next]_vars PROVE TypeOK'
    OBVIOUS
  <1>1. CASE UNCHANGED vars
    BY <1>1 DEF TypeOK, vars, badger, bus
  <1>2. CASE Next
    BY <1>2, GoroutineTypeOK, ApplyTypeOK, RequestTypeOK DEF Next, ApplyStep
  <1> QED BY <1>1, <1>2

\* Every variable keeps its type: what is replayed, delivered, asked for or
\* applied was published.
THEOREM TypeCorrect == Spec => []TypeOK
  BY InitTypeOK, NextTypeOK, PTL DEF Spec

-----------------------------------------------------------------------------
(* No event is skipped by a restart *)

\* Where a restart resumes after an event of time t was recorded.
LEMMA ResumesEarlier ==
  ASSUME NEW t \in Nat
  PROVE  /\ SinceOf(t \div Second) \in Int
         /\ SinceOf(t \div Second) <= t - 2 * Second + Zone
  <1> DEFINE q == t \div Second
  <1>1. q \in Nat /\ q * Second <= t
    BY SecondOf
  <1>2. q # None
    BY <1>1
  <1>3. (q - 2) * Second = q * Second - 2 * Second
    <2> HIDE DEF q
    <2> QED BY <1>1
  <1>4. q * Second \in Int /\ 2 * Second \in Int
    <2> HIDE DEF q
    <2> QED BY <1>1
  <1> HIDE DEF q
  <1>5. SinceOf(q) = q * Second - 2 * Second + Zone
    BY <1>2, <1>3 DEF SinceOf
  <1>6. SinceOf(q) \in Int /\ SinceOf(q) <= t - 2 * Second + Zone
    BY <1>1, <1>4, <1>5
  <1> QED BY <1>6 DEF q

LEMMA InitInv == Init => Inv
  BY InitTypeOK DEF Init, Inv, NothingSkipped, RecordedSecond, CurrentInTime

\* What is recorded is not too late for an event that was overtaken.
LEMMA RecordInv ==
  ASSUME MaxLag + Zone <= 2 * Second, Inv, RecordTimestamp
  PROVE  Inv'
  <1>1. TypeOK'
    BY GoroutineTypeOK DEF Inv
  <1>2. /\ current \in published /\ current \in Events
        /\ last' = Time[current] \div Second
        /\ current' = None
        /\ UNCHANGED <<published, lag, applied>>
    BY DEF RecordTimestamp, Inv, TypeOK
  <1>3. NothingSkipped'
    <2> SUFFICES ASSUME NEW e \in published \ applied
                 PROVE  Time[e] >= SinceOf(Time[current] \div Second)
      BY <1>2 DEF NothingSkipped
    <2>1. Time[current] \in Nat /\ Time[e] \in Nat
      BY <1>2 DEF Inv, TypeOK
    <2>2. Time[current] - Time[e] <= lag
      BY <1>2 DEF Inv, CurrentInTime
    <2>3. /\ SinceOf(Time[current] \div Second) \in Int
          /\ SinceOf(Time[current] \div Second) <= Time[current] - 2 * Second + Zone
      BY <2>1, ResumesEarlier
    <2>4. lag \in Nat /\ lag <= MaxLag
      BY DEF Inv, TypeOK
    <2> QED BY <2>1, <2>2, <2>3, <2>4
  <1>4. RecordedSecond' /\ CurrentInTime'
    BY <1>2 DEF RecordedSecond, CurrentInTime
  <1> QED BY <1>1, <1>3, <1>4 DEF Inv

LEMMA ApplyInv ==
  ASSUME Inv, NEW e \in Events, ApplyReplayed(e) \/ ApplyLive(e)
  PROVE  Inv'
  <1>1. TypeOK'
    BY ApplyTypeOK DEF Inv
  <1>2. /\ InTime(e, published \ applied)
        /\ applied' = applied \cup {e}
        /\ current' = e
        /\ UNCHANGED <<published, last, lag>>
    BY DEF ApplyReplayed, ApplyLive, Apply, InTime
  <1>3. NothingSkipped' /\ RecordedSecond'
    BY <1>2 DEF Inv, NothingSkipped, RecordedSecond
  <1>4. CurrentInTime'
    BY <1>2 DEF CurrentInTime, InTime
  <1> QED BY <1>1, <1>3, <1>4 DEF Inv

\* A new event is younger than all published ones, the one recorded included.
LEMMA PublishInv ==
  ASSUME MaxLag + Zone <= 2 * Second,
         Inv, TypeOK', NEW e \in Events, Publish(e), UNCHANGED <<last, current, lag, applied>>
  PROVE  Inv'
  <1>1. /\ published' = published \cup {e}
        /\ \A f \in published : Time[f] < Time[e]
    BY DEF Publish
  <1>2. published \subseteq Events /\ Time[e] \in Nat /\ lag \in Nat
    BY DEF Inv, TypeOK
  <1>3. Time[e] >= SinceOf(last)
    <2>1. CASE last = None
      BY <1>2, <2>1 DEF SinceOf
    <2>2. CASE last # None
      <3>1. PICK c \in published : last = Time[c] \div Second
        BY <2>2 DEF Inv, RecordedSecond
      <3>2. Time[c] \in Nat /\ Time[c] < Time[e]
        BY <1>1, <1>2
      <3>3. SinceOf(last) \in Int /\ SinceOf(last) <= Time[c] - 2 * Second + Zone
        BY <3>1, <3>2, ResumesEarlier
      <3> QED BY <1>2, <3>2, <3>3
    <2> QED BY <2>1, <2>2
  <1>4. NothingSkipped'
    BY <1>1, <1>3 DEF Inv, NothingSkipped
  <1>5. RecordedSecond'
    BY <1>1 DEF Inv, RecordedSecond
  <1>6. CurrentInTime'
    <2> SUFFICES ASSUME current # None, NEW f \in published' \ applied
                 PROVE  Time[current] - Time[f] <= lag
      BY DEF CurrentInTime
    <2>1. current \in published /\ Time[current] \in Nat
      BY <1>2 DEF Inv, TypeOK
    <2>2. CASE f = e
      BY <1>1, <1>2, <2>1, <2>2
    <2>3. CASE f # e
      BY <1>1, <2>3 DEF Inv, CurrentInTime
    <2> QED BY <2>2, <2>3
  <1> QED BY <1>4, <1>5, <1>6 DEF Inv

LEMMA OthersInv ==
  ASSUME Inv, TypeOK', UNCHANGED <<published, last, lag, applied>>,
         current' \in {current, None}
  PROVE  Inv'
  BY DEF Inv, NothingSkipped, RecordedSecond, CurrentInTime

LEMMA NextInv ==
  ASSUME MaxLag + Zone <= 2 * Second
  PROVE  Inv /\ [Next]_vars => Inv'
  <1> SUFFICES ASSUME Inv, [Next]_vars PROVE Inv'
    OBVIOUS
  <1>1. TypeOK'
    BY NextTypeOK DEF Inv
  <1>2. CASE RecordTimestamp
    BY <1>2, RecordInv
  <1>3. CASE \E e \in Events : ApplyReplayed(e) \/ ApplyLive(e)
    BY <1>3, ApplyInv
  <1>4. CASE \E e \in Events : PublishCall(e) \/ AddAuth(e) \/ RemoveAuth(e)
    BY <1>1, <1>4, PublishInv DEF PublishCall, AddAuth, RemoveAuth
  <1>5. CASE \/ Boot \/ Register \/ Snapshot \/ EndReplay
             \/ AddAuthReturns \/ AddAuthTimesOut \/ Crash \/ UNCHANGED vars
    BY <1>1, <1>5, OthersInv
    DEF Boot, Register, Snapshot, EndReplay, AddAuthReturns, AddAuthTimesOut,
        Crash, vars, badger, bus
  <1> QED BY <1>2, <1>3, <1>4, <1>5 DEF Next, ApplyStep

\* If deliveries overtake each other by at most the two seconds a restart goes
\* back, less what local time is ahead of UTC, a restart replays every event
\* that was not applied.
THEOREM RestartSkipsNothing ==
  ASSUME MaxLag + Zone <= 2 * Second
  PROVE  Spec => []NothingSkipped
  <1>1. Inv => NothingSkipped
    BY DEF Inv
  <1> QED BY <1>1, InitInv, NextInv, PTL DEF Spec

-----------------------------------------------------------------------------
(* The latest request wins *)

\* What will still be applied: as the subscription has it, or as it will after a restart.
Pending ==
    IF phase = "down" THEN {e \in published : Time[e] >= SinceOf(last)}
    ELSE IF phase \in {"booting", "registered"} THEN {e \in published : Time[e] >= since} \cup live
    ELSE replay \cup live

UpwardClosed(set) == \A e \in set, f \in published : Time[f] >= Time[e] => f \in set

Phased ==
    /\ phase \in {"down", "booting", "registered"} => replay = {} /\ current = None
    /\ phase \in {"down", "booting"} => live = {}
    /\ phase \in {"booting", "registered"} => since = SinceOf(last)
    /\ phase = "live" => replay = {}
    /\ RecordedSecond

Requests(s) == {e \in published : Kind[e] \in AuthKinds /\ Subject[e] = s}

Entry(e) == IF Kind[e] = "authAdded" THEN e ELSE None

\* The store has for each resources what the latest request leaves, or will yet apply it.
Current(s) ==
    /\ Requests(s) = {} => auths[s] = None
    /\ Requests(s) # {} => \E m \in published : Latest(m, s)
    /\ \A m \in published : (Latest(m, s) /\ m \notin Pending) => auths[s] = Entry(m)

\* Nothing comes twice, so that what is still to be applied is not older than what was
\* applied last, and a restart has it.
Once ==
    /\ phase = "registered" => live = {}
    /\ replay \cap live = {}
    /\ \A e \in Pending : /\ Time[e] >= SinceOf(last)
                          /\ current # None => Time[e] >= Time[current]
    /\ (client # None /\ client \in applied) => client \notin Pending

\* A client that waits has made the latest request of all.
ClientWaits ==
    client # None => /\ Kind[client] = "authAdded"
                     /\ \A f \in published : Kind[f] \in AuthKinds => Time[f] <= Time[client]

InOrder ==
    lag = 0 =>
        /\ UpwardClosed(live) /\ UpwardClosed(Pending)
        /\ (crashes > 0 => doubled = {}) => \A s \in Subjects : Current(s)
        /\ doubled = {} => Once

OrderInv == TypeOK /\ Phased /\ ClientWaits /\ InOrder

LEMMA LatestIsUnique ==
  ASSUME published \subseteq Events, NEW s, NEW e, NEW f, Latest(e, s), Latest(f, s)
  PROVE  e = f
  BY DEF Latest

\* Where no step publishes or applies, all that is said of the requests stays, if the same
\* is still to be applied.
LEMMA InOrderFrame ==
  ASSUME TypeOK, InOrder,
         UNCHANGED <<published, auths, lag, applied, crashes, doubled>>,
         live' = live, Pending' = Pending,
         client' \in {client, None},
         (lag = 0 /\ doubled = {}) =>
            /\ phase' = "registered" => live = {}
            /\ replay' \cap live = {}
            /\ \A e \in Pending : /\ Time[e] >= SinceOf(last')
                                  /\ current' # None => Time[e] >= Time[current']
  PROVE  InOrder'
  <1> SUFFICES ASSUME lag = 0
               PROVE  /\ UpwardClosed(live)' /\ UpwardClosed(Pending)'
                      /\ (crashes > 0 => doubled = {}) => \A s \in Subjects : Current(s)'
                      /\ doubled = {} => Once'
    BY DEF InOrder
  <1>1. UpwardClosed(live)' /\ UpwardClosed(Pending)'
    BY DEF InOrder, UpwardClosed
  <1>2. ASSUME NEW s \in Subjects, Current(s) PROVE Current(s)'
    <2>1. Requests(s)' = Requests(s) /\ \A m : Latest(m, s)' <=> Latest(m, s)
      BY DEF Requests, Latest
    <2> QED BY <1>2, <2>1 DEF Current
  <1>3. (doubled = {} /\ Once) => Once'
    BY DEF Once
  <1> QED BY <1>1, <1>2, <1>3 DEF InOrder

LEMMA InitOrder == Init => OrderInv
  <1> SUFFICES ASSUME Init PROVE OrderInv
    OBVIOUS
  <1>1. TypeOK
    BY InitTypeOK
  <1>2. Phased /\ ClientWaits
    BY DEF Init, Phased, RecordedSecond, ClientWaits
  <1>3. Pending = {}
    BY DEF Init, Pending
  <1>4. \A s \in Subjects : Current(s)
    BY DEF Init, Current, Requests
  <1>5. UpwardClosed(live) /\ UpwardClosed(Pending) /\ Once
    BY <1>3 DEF Init, UpwardClosed, Once
  <1> QED BY <1>1, <1>2, <1>4, <1>5 DEF OrderInv, InOrder

\* The goroutine's steps but those that apply an event: what is pending stays.
LEMMA GoroutineOrder ==
  ASSUME Zone <= 2 * Second, OrderInv, TypeOK',
         Boot \/ Register \/ Snapshot \/ EndReplay \/ RecordTimestamp \/ AddAuthReturns \/ AddAuthTimesOut
  PROVE  OrderInv'
  <1> USE DEF OrderInv, badger, bus
  <1>1. CASE Boot
    <2>1. Phased' /\ ClientWaits'
      BY <1>1 DEF Boot, Phased, ClientWaits, RecordedSecond
    <2>2. Pending' = Pending
      BY <1>1 DEF Boot, Pending, Phased
    <2>3. InOrder'
      BY <1>1, <2>2, InOrderFrame DEF Boot, InOrder, Once
    <2> QED BY <2>1, <2>3
  <1>2. CASE Register
    <2>1. Phased' /\ ClientWaits'
      BY <1>2 DEF Register, Phased, ClientWaits, RecordedSecond
    <2>2. Pending' = Pending
      BY <1>2 DEF Register, Pending, Phased
    <2>3. InOrder'
      BY <1>2, <2>2, InOrderFrame DEF Register, InOrder, Once, Phased
    <2> QED BY <2>1, <2>3
  <1>3. CASE Snapshot
    <2>1. Phased' /\ ClientWaits'
      BY <1>3 DEF Snapshot, Phased, ClientWaits, RecordedSecond
    <2>2. Pending' = Pending
      BY <1>3 DEF Snapshot, Pending, Phased
    <2>3. InOrder'
      BY <1>3, <2>2, InOrderFrame DEF Snapshot, InOrder, Once, Phased
    <2> QED BY <2>1, <2>3
  <1>4. CASE EndReplay
    <2>1. Phased' /\ ClientWaits'
      BY <1>4 DEF EndReplay, Phased, ClientWaits, RecordedSecond
    <2>2. Pending' = Pending
      BY <1>4 DEF EndReplay, Pending, Phased
    <2>3. InOrder'
      BY <1>4, <2>2, InOrderFrame DEF EndReplay, InOrder, Once, Phased
    <2> QED BY <2>1, <2>3
  <1>5. CASE RecordTimestamp
    <2>1. /\ current \in published /\ current \in Events /\ Time[current] \in Nat
          /\ last' = Time[current] \div Second /\ current' = None
          /\ UNCHANGED <<published, auths, calls, phase, since, replay, live, client, lag,
                         applied, doubled, crashes>>
      BY <1>5 DEF RecordTimestamp, TypeOK
    <2>2. phase \notin {"down", "booting", "registered"}
      BY <1>5 DEF RecordTimestamp, Phased
    <2>3. Phased' /\ ClientWaits'
      BY <2>1, <2>2 DEF Phased, ClientWaits, RecordedSecond
    <2>4. Pending' = Pending
      BY <2>1, <2>2 DEF Pending
    <2>5. Pending \subseteq Events
      BY <2>2 DEF Pending, TypeOK
    <2>6. /\ SinceOf(last') \in Int
          /\ SinceOf(last') <= Time[current] - 2 * Second + Zone
      BY <2>1, ResumesEarlier
    <2>7. ASSUME lag = 0, doubled = {}, NEW e \in Pending PROVE Time[e] >= SinceOf(last')
      <3>1. Time[e] >= Time[current] /\ Time[e] \in Nat
        BY <1>5, <2>5, <2>7 DEF InOrder, Once, RecordTimestamp
      <3> QED BY <2>1, <2>6, <3>1
    <2>8. (lag = 0 /\ doubled = {}) => replay \cap live = {} /\ (phase = "registered" => live = {})
      BY DEF InOrder, Once
    <2>9. InOrder'
      BY <2>1, <2>4, <2>7, <2>8, InOrderFrame
    <2> QED BY <2>3, <2>9
  <1>6. CASE AddAuthReturns \/ AddAuthTimesOut
    <2>1. /\ UNCHANGED <<published, auths, last, calls, phase, since, replay, live, current, lag,
                         applied, doubled, crashes>>
          /\ client' = None
      BY <1>6 DEF AddAuthReturns, AddAuthTimesOut
    <2>2. Phased' /\ ClientWaits'
      BY <2>1 DEF Phased, ClientWaits, RecordedSecond
    <2>3. Pending' = Pending
      BY <2>1 DEF Pending
    <2>4. InOrder'
      BY <2>1, <2>3, InOrderFrame DEF InOrder, Once
    <2> QED BY <2>2, <2>4
  <1> QED BY <1>1, <1>2, <1>3, <1>4, <1>5, <1>6

\* An event is applied: in a replay the oldest left of it, and if deliveries are in order
\* the oldest delivered.  It is pending no more, unless it comes again.
LEMMA ApplyOrder ==
  ASSUME OrderInv, TypeOK', NEW e \in Events, ApplyReplayed(e) \/ ApplyLive(e)
  PROVE  OrderInv'
  <1> USE DEF OrderInv, TypeOK
  <1>1. /\ e \in published /\ Apply(e)
        /\ UNCHANGED <<published, last, phase, since, client, lag, doubled, crashes>>
        /\ phase \in {"replaying", "live"}
        /\ applied' = applied \cup {e} /\ current' = e
    BY DEF ApplyReplayed, ApplyLive, Apply
  <1>2. Phased' /\ ClientWaits'
    BY <1>1 DEF Phased, RecordedSecond, ClientWaits, ApplyReplayed, ApplyLive
  <1>3. /\ Pending = replay \cup live /\ Pending' = replay' \cup live'
        /\ e \in Pending /\ Pending \subseteq published
    BY <1>1 DEF Pending, ApplyReplayed, ApplyLive
  <1>4. /\ replay' = replay \ {e} /\ live' = live /\ e \in replay
        /\ \A f \in replay : Time[e] <= Time[f]
        \/ /\ live' = live \ {e} /\ replay' = {} /\ replay = {} /\ e \in live
           /\ \A f \in live : Time[e] - Time[f] <= lag
    BY <1>1 DEF ApplyReplayed, ApplyLive, InTime, Phased
  <1>5. \A f \in Events : Time[f] \in Nat
    OBVIOUS
  <1>6. ASSUME lag = 0 PROVE UpwardClosed(live)'
    BY <1>1, <1>4, <1>5, <1>6 DEF InOrder, UpwardClosed
  <1>7. ASSUME lag = 0, NEW f \in published, Time[f] >= Time[e] PROVE f \in Pending
    BY <1>3, <1>7 DEF InOrder, UpwardClosed
  <1>8. ASSUME lag = 0, NEW f \in Pending PROVE Time[f] >= Time[e] \/ (f \in live /\ e \in live)
    <2>1. CASE f \in replay /\ e \in replay
      BY <1>4, <1>5, <1>3, <2>1, <1>8
    <2>2. CASE f \in live /\ e \notin live
      <3>1. ~(Time[e] >= Time[f])
        BY <1>1, <1>8, <2>2 DEF InOrder, UpwardClosed
      <3> QED BY <1>1, <1>3, <1>5, <3>1
    <2>3. CASE f \in live /\ e \in live
      BY <2>3
    <2> QED BY <1>3, <1>4, <2>1, <2>2, <2>3
  <1>9. ASSUME lag = 0 PROVE UpwardClosed(Pending)'
    <2> SUFFICES ASSUME NEW x \in Pending', NEW f \in published, Time[f] >= Time[x]
                 PROVE  f \in Pending'
      BY <1>1 DEF UpwardClosed
    <2>1. x \in Pending /\ f \in Pending
      BY <1>3, <1>4, <1>9 DEF InOrder, UpwardClosed
    <2>2. CASE f # e
      BY <1>3, <1>4, <2>1, <2>2
    <2>3. CASE f = e /\ e \in live'
      BY <1>3, <2>3
    <2>4. CASE f = e /\ e \notin live'
      <3>1. CASE e \in live
        <4>1. live' = live \ {e} /\ x \in live /\ x # e /\ Time[e] - Time[x] <= 0
          BY <1>3, <1>4, <1>9, <2>4, <3>1
        <4> QED BY <1>1, <1>3, <1>5, <2>1, <2>4, <4>1
      <3>2. CASE e \notin live
        <4>1. x # e /\ Time[x] >= Time[e]
          BY <1>3, <1>4, <1>8, <1>9, <2>1, <3>2
        <4> QED BY <1>1, <1>3, <1>5, <2>1, <2>4, <4>1
      <3> QED BY <3>1, <3>2
    <2> QED BY <2>2, <2>3, <2>4
  <1>10. ASSUME lag = 0, NEW s \in Subjects, Current(s) PROVE Current(s)'
    <2>1. Requests(s)' = Requests(s) /\ \A m : Latest(m, s)' <=> Latest(m, s)
      BY <1>1 DEF Requests, Latest
    <2>2. \A m \in Pending : m # e => m \in Pending'
      BY <1>3, <1>4
    <2>3. CASE e \in Requests(s)
      <3>1. auths'[s] = Entry(e)
        BY <1>1, <2>3 DEF Apply, Requests, Entry
      <3>2. ASSUME NEW m \in published, Latest(m, s), m \notin Pending' PROVE m = e
        <4>1. Time[m] >= Time[e]
          BY <1>5, <2>3, <3>2 DEF Latest, Requests
        <4>2. m \in Pending
          BY <1>7, <1>10, <3>2, <4>1
        <4> QED BY <2>2, <3>2, <4>2
      <3> QED BY <1>1, <1>10, <2>1, <2>3, <3>1, <3>2 DEF Current
    <2>4. CASE e \notin Requests(s)
      <3>1. auths'[s] = auths[s]
        BY <1>1, <2>4 DEF Apply, Requests
      <3>2. \A m : Latest(m, s) => m # e
        BY <1>1, <2>4 DEF Latest, Requests
      <3> QED BY <1>1, <1>10, <2>1, <2>2, <3>1, <3>2 DEF Current
    <2> QED BY <2>3, <2>4
  <1>11. ASSUME lag = 0, doubled = {} PROVE Once'
    <2>1. Once
      BY <1>11 DEF InOrder
    <2>2. replay' \cap live' = {} /\ e \notin Pending'
      BY <1>3, <1>4, <2>1 DEF Once
    <2>3. \A f \in Pending' : f \in Pending
      BY <1>3, <1>4
    <2>4. ASSUME NEW f \in Pending' PROVE Time[f] >= Time[e]
      <3>1. CASE e \in replay
        BY <1>8, <1>11, <2>1, <2>3, <2>4, <3>1 DEF Once
      <3>2. CASE e \notin replay
        <4>1. f \in live /\ Time[e] - Time[f] <= 0
          BY <1>3, <1>4, <1>11, <2>3, <3>2
        <4> QED BY <1>1, <1>3, <1>5, <2>3, <4>1
      <3> QED BY <3>1, <3>2
    <2>5. ASSUME client # None, client \in applied' PROVE client \notin Pending'
      BY <1>1, <2>1, <2>2, <2>3, <2>5 DEF Once
    <2>6. (phase = "registered")' => live' = {}
      BY <1>1
    <2>7. \A f \in Pending' : Time[f] >= SinceOf(last)'
      BY <1>1, <2>1, <2>3 DEF Once, SinceOf
    <2> QED BY <1>1, <2>2, <2>4, <2>5, <2>6, <2>7 DEF Once
  <1>12. InOrder'
    BY <1>1, <1>6, <1>9, <1>10, <1>11 DEF InOrder
  <1> QED BY <1>2, <1>12

\* A new event is the youngest, and pending from the start.
LEMMA PublishOrder ==
  ASSUME Zone <= 2 * Second, OrderInv, TypeOK', NEW e \in Events, Publish(e),
         UNCHANGED <<auths, last, phase, since, replay, current, lag, applied, crashes>>,
         \/ Kind[e] \notin AuthKinds /\ client' = client
         \/ client = None /\ client' = IF Kind[e] = "authAdded" THEN e ELSE None
  PROVE  OrderInv'
  <1> USE DEF OrderInv, TypeOK
  <1>1. /\ published' = published \cup {e} /\ e \notin published
        /\ \A f \in published : Time[f] < Time[e]
        /\ phase # "down"
        /\ live' = (IF phase = "booting" THEN live ELSE live \cup {e})
        /\ doubled' = (IF phase = "registered" THEN doubled \cup {e} ELSE doubled)
    BY DEF Publish, Up
  <1>2. \A f \in Events : Time[f] \in Nat
    OBVIOUS
  <1>3. Time[e] >= SinceOf(last)
    <2>1. CASE last = None
      BY <1>2, <2>1 DEF SinceOf
    <2>2. CASE last # None
      <3>1. PICK c \in published : last = Time[c] \div Second
        BY <2>2 DEF Phased, RecordedSecond
      <3>2. Time[c] \in Nat /\ Time[c] < Time[e]
        BY <1>1, <1>2
      <3>3. SinceOf(last) \in Int /\ SinceOf(last) <= Time[c] - 2 * Second + Zone
        BY <3>1, <3>2, ResumesEarlier
      <3> QED BY <1>2, <3>2, <3>3
    <2> QED BY <2>1, <2>2
  <1>4. Phased'
    BY <1>1 DEF Phased, RecordedSecond, SinceOf
  <1>5. ClientWaits'
    <2>1. CASE Kind[e] \notin AuthKinds /\ client' = client
      BY <1>1, <2>1 DEF ClientWaits
    <2>2. CASE client' = (IF Kind[e] = "authAdded" THEN e ELSE None)
      BY <1>1, <1>2, <2>2 DEF ClientWaits
    <2> QED BY <2>1, <2>2
  <1>6. Pending' = Pending \cup {e} /\ Pending \subseteq published
    BY <1>1, <1>3 DEF Pending, Phased
  <1>7. ASSUME lag = 0 PROVE UpwardClosed(live)' /\ UpwardClosed(Pending)'
    <2>1. \A f \in published : ~(Time[f] >= Time[e])
      BY <1>1, <1>2
    <2>2. UpwardClosed(Pending)'
      BY <1>1, <1>6, <1>7, <2>1 DEF InOrder, UpwardClosed
    <2>3. UpwardClosed(live)'
      BY <1>1, <1>7, <2>1 DEF InOrder, UpwardClosed, Phased
    <2> QED BY <2>2, <2>3
  <1>8. ASSUME NEW s \in Subjects, Current(s) PROVE Current(s)'
    <2>1. CASE Kind[e] \in AuthKinds /\ Subject[e] = s
      <3>1. Latest(e, s)'
        BY <1>1, <1>2, <2>1 DEF Latest
      <3>2. \A m : Latest(m, s)' => m = e
        BY <1>1, <1>2, <2>1 DEF Latest
      <3>3. e \in Requests(s)'
        BY <1>1, <2>1 DEF Requests
      <3> QED BY <1>1, <1>6, <3>1, <3>2, <3>3 DEF Current
    <2>2. CASE ~(Kind[e] \in AuthKinds /\ Subject[e] = s)
      <3>1. Requests(s)' = Requests(s) /\ \A m : Latest(m, s)' <=> Latest(m, s)
        BY <1>1, <2>2 DEF Latest, Requests
      <3>2. \A m : Latest(m, s) => m \in published
        BY DEF Latest
      <3> QED BY <1>1, <1>6, <1>8, <3>1, <3>2 DEF Current
    <2> QED BY <2>1, <2>2
  <1>9. ASSUME lag = 0, doubled' = {} PROVE Once'
    <2>1. Once /\ phase # "registered"
      BY <1>1, <1>9 DEF InOrder
    <2>2. replay' \cap live' = {}
      BY <1>1, <2>1 DEF Once
    <2>3. \A f \in Pending' : Time[f] >= SinceOf(last)
      BY <1>3, <1>6, <2>1 DEF Once
    <2>4. ASSUME current # None, NEW f \in Pending' PROVE Time[f] >= Time[current]
      BY <1>1, <1>2, <1>6, <2>1, <2>4 DEF Once
    <2>5. ASSUME client' # None, client' \in applied PROVE client' \notin Pending'
      BY <1>1, <1>6, <2>1, <2>5 DEF Once
    <2> QED BY <2>1, <2>2, <2>3, <2>4, <2>5 DEF Once, SinceOf
  <1>10. InOrder'
    <2> SUFFICES ASSUME lag = 0
                 PROVE  /\ UpwardClosed(live)' /\ UpwardClosed(Pending)'
                        /\ (crashes > 0 => doubled' = {}) => \A s \in Subjects : Current(s)'
                        /\ doubled' = {} => Once'
      BY DEF InOrder
    <2>1. doubled' = {} => doubled = {}
      BY <1>1
    <2> QED BY <1>7, <1>8, <1>9, <2>1 DEF InOrder
  <1> QED BY <1>4, <1>5, <1>10

\* After a crash all is pending again that the last second recorded does not exclude: what
\* was pending before, if nothing came twice.
LEMMA CrashOrder ==
  ASSUME OrderInv, TypeOK', Crash
  PROVE  OrderInv'
  <1> USE DEF OrderInv, TypeOK
  <1>1. /\ phase' = "down" /\ replay' = {} /\ live' = {} /\ current' = None /\ client' = None
        /\ crashes' = crashes + 1
        /\ UNCHANGED <<published, auths, last, since, lag, applied, doubled>>
    BY DEF Crash, badger
  <1>2. Phased' /\ ClientWaits'
    BY <1>1 DEF Phased, ClientWaits, RecordedSecond
  <1>3. Pending' = {e \in published : Time[e] >= SinceOf(last)}
    BY <1>1 DEF Pending, SinceOf
  <1>4. SinceOf(last) \in Int /\ \A f \in published : Time[f] \in Nat
    BY DEF SinceOf
  <1>5. UpwardClosed(live)' /\ UpwardClosed(Pending)'
    <2>1. UpwardClosed({e \in published : Time[e] >= SinceOf(last)})
      BY <1>4 DEF UpwardClosed
    <2> QED BY <1>1, <1>3, <2>1 DEF UpwardClosed
  <1>6. ASSUME lag = 0, doubled = {}, NEW s \in Subjects PROVE Current(s)'
    <2>1. Current(s) /\ Once
      BY <1>6 DEF InOrder
    <2>2. Requests(s)' = Requests(s) /\ \A m : Latest(m, s)' <=> Latest(m, s)
      BY <1>1 DEF Requests, Latest
    <2>3. \A m \in published : m \notin Pending' => m \notin Pending
      BY <1>3, <2>1 DEF Once
    <2> QED BY <1>1, <2>1, <2>2, <2>3 DEF Current
  <1>7. Once'
    BY <1>1, <1>3 DEF Once, SinceOf
  <1>8. InOrder'
    BY <1>1, <1>5, <1>6, <1>7 DEF InOrder
  <1> QED BY <1>2, <1>8

LEMMA NextOrder ==
  ASSUME Zone <= 2 * Second
  PROVE  OrderInv /\ [Next]_vars => OrderInv'
  <1> SUFFICES ASSUME OrderInv, [Next]_vars PROVE OrderInv'
    OBVIOUS
  <1>1. TypeOK'
    BY NextTypeOK DEF OrderInv
  <1>2. CASE \E e \in Events : ApplyReplayed(e) \/ ApplyLive(e)
    BY <1>1, <1>2, ApplyOrder
  <1>3. ASSUME NEW e \in Events, PublishCall(e) \/ AddAuth(e) \/ RemoveAuth(e) PROVE OrderInv'
    <2>1. /\ Publish(e)
          /\ UNCHANGED <<auths, last, phase, since, replay, current, lag, applied, crashes>>
      BY <1>3 DEF PublishCall, AddAuth, RemoveAuth
    <2>2. \/ Kind[e] \notin AuthKinds /\ client' = client
          \/ client = None /\ client' = IF Kind[e] = "authAdded" THEN e ELSE None
      BY <1>3 DEF PublishCall, AddAuth, RemoveAuth
    <2> QED BY <1>1, <2>1, <2>2, PublishOrder
  <1>4. CASE Crash
    BY <1>1, <1>4, CrashOrder
  <1>5. CASE Boot \/ Register \/ Snapshot \/ EndReplay \/ RecordTimestamp \/ AddAuthReturns \/ AddAuthTimesOut
    BY <1>1, <1>5, GoroutineOrder
  <1>6. CASE UNCHANGED vars
    <2>1. Phased' /\ ClientWaits'
      BY <1>6 DEF vars, badger, bus, OrderInv, Phased, ClientWaits, RecordedSecond, SinceOf
    <2>2. Pending' = Pending
      BY <1>6 DEF vars, badger, bus, Pending, SinceOf
    <2>3. InOrder'
      BY <1>6, <2>2, InOrderFrame DEF vars, badger, bus, OrderInv, InOrder, Once
    <2> QED BY <1>1, <2>1, <2>3 DEF OrderInv
  <1> QED BY <1>2, <1>3, <1>4, <1>5, <1>6 DEF Next, ApplyStep

-----------------------------------------------------------------------------
(* What TryGetAuth finds *)

Less == {p \in Nat \X Nat : p[1] < p[2]}

LEMMA LeastOfNat ==
  ASSUME NEW T, T \subseteq Nat, T # {}
  PROVE  \E x \in T : \A y \in T : x <= y
  <1>1. IsWellFoundedOn(Less, Nat)
    BY NatLessThanWellFounded DEF OpToRel, Less
  <1>2. PICK x \in T : \A y \in T : ~(<<y, x>> \in Less)
    BY <1>1, WFMin
  <1>3. \A y \in T : ~(y < x)
    BY <1>2 DEF Less
  <1> QED BY <1>2, <1>3

Found(ref) == {p \in Prefixes[ref] : Length[p] > 0 /\ auths[p] # None}

\* The entry for the longest of the resources the reference begins with.
LEMMA LongestIsFound ==
  ASSUME NEW ref \in Subjects
  PROVE  /\ Found(ref) = {} => TryGetAuth(ref) = None
         /\ Found(ref) # {} => \E p \in Found(ref) : /\ TryGetAuth(ref) = auths[p]
                                                     /\ \A q \in Found(ref) : Length[q] <= Length[p]
  <1> USE PrefixesAssumption
  <1>1. Found(ref) = {} => TryGetAuth(ref) = None
    BY DEF TryGetAuth, Found
  <1>2. ASSUME Found(ref) # {} PROVE \E p \in Found(ref) : \A q \in Found(ref) : Length[p] >= Length[q]
    <2> DEFINE T == {Length[ref] - Length[q] : q \in Found(ref)}
    <2>1. \A q \in Found(ref) : Length[q] \in Nat /\ Length[q] <= Length[ref] /\ Length[ref] \in Nat
      BY DEF Found
    <2>2. T \subseteq Nat /\ T # {}
      BY <1>2, <2>1
    <2>3. PICK x \in T : \A y \in T : x <= y
      <3> HIDE DEF T
      <3> QED BY <2>2, LeastOfNat
    <2>4. PICK p \in Found(ref) : x = Length[ref] - Length[p]
      BY <2>3
    <2>5. \A q \in Found(ref) : Length[ref] - Length[p] <= Length[ref] - Length[q]
      BY <2>3, <2>4
    <2> QED BY <2>1, <2>4, <2>5
  <1>3. ASSUME Found(ref) # {}
        PROVE  \E p \in Found(ref) : /\ TryGetAuth(ref) = auths[p]
                                     /\ \A q \in Found(ref) : Length[q] <= Length[p]
    <2> DEFINE p == CHOOSE p \in Found(ref) : \A q \in Found(ref) : Length[p] >= Length[q]
    <2>1. p \in Found(ref) /\ \A q \in Found(ref) : Length[p] >= Length[q]
      BY <1>2, <1>3
    <2>2. TryGetAuth(ref) = auths[p]
      BY <1>3 DEF TryGetAuth, Found
    <2>3. \A q \in Found(ref) : Length[q] \in Nat
      BY DEF Found
    <2> HIDE DEF p
    <2> QED BY <2>1, <2>2, <2>3
  <1> QED BY <1>1, <1>3

\* If deliveries come in order, then once the store has caught up a reference gets the creds
\* of the longest resources it begins with whose latest request added them, whatever the
\* crashes, and the seconds replayed again after them; or, without a crash, though
\* deliveries come twice.
THEOREM LatestRequestAlwaysWins ==
  ASSUME Zone <= 2 * Second
  PROVE  Spec => []LatestRequestWins
  <1>1. OrderInv => LatestRequestWins
    <2> SUFFICES ASSUME OrderInv, Settled, lag = 0, crashes > 0 => doubled = {},
                        NEW ref \in Subjects
                 PROVE  LET granted == {p \in Prefixes[ref] : Length[p] > 0 /\ Granted(p)} IN
                        IF granted = {} THEN TryGetAuth(ref) = None
                        ELSE \E p \in granted : /\ Latest(TryGetAuth(ref), p)
                                                /\ \A q \in granted : Length[q] <= Length[p]
      BY DEF LatestRequestWins
    <2>1. Pending = {} /\ \A s \in Subjects : Current(s)
      BY DEF Settled, OrderInv, Phased, Pending, InOrder
    <2>2. Prefixes[ref] \subseteq Subjects /\ published \subseteq Events
      BY PrefixesAssumption DEF OrderInv, TypeOK
    <2>3. ASSUME NEW p \in Subjects
          PROVE  /\ Granted(p) <=> auths[p] # None
                 /\ Granted(p) => Latest(auths[p], p)
      <3>1. ASSUME NEW m, Latest(m, p) PROVE auths[p] = Entry(m) /\ m # None
        BY <2>1, <2>2, <3>1 DEF Current, Latest
      <3>2. CASE Granted(p)
        <4>1. PICK m \in Events : Latest(m, p) /\ Kind[m] = "authAdded"
          BY <3>2 DEF Granted
        <4> QED BY <3>1, <3>2, <4>1 DEF Entry
      <3>3. CASE auths[p] # None
        <4>1. PICK m \in published : Latest(m, p)
          BY <2>1, <3>3 DEF Current
        <4>2. Kind[m] = "authAdded"
          BY <3>1, <3>3, <4>1 DEF Entry
        <4> QED BY <2>2, <3>1, <4>1, <4>2 DEF Granted, Entry
      <3> QED BY <3>2, <3>3
    <2>4. Found(ref) = {p \in Prefixes[ref] : Length[p] > 0 /\ Granted(p)}
      BY <2>2, <2>3 DEF Found
    <2>5. \A p \in Found(ref) : Latest(auths[p], p)
      BY <2>2, <2>3, <2>4
    <2>6. Found(ref) # {} => \E p \in Found(ref) : /\ Latest(TryGetAuth(ref), p)
                                                   /\ \A q \in Found(ref) : Length[q] <= Length[p]
      BY <2>5, LongestIsFound
    <2>7. Found(ref) = {} => TryGetAuth(ref) = None
      BY LongestIsFound
    <2> HIDE DEF Found
    <2> QED BY <2>4, <2>6, <2>7
  <1> QED BY <1>1, InitOrder, NextOrder, PTL DEF Spec

\* Once the event of a waiting AddAuth is applied TryGetAuth finds it, so that the request
\* need not time out, however many entries there are for broader or narrower resources.
THEOREM AddedIsAlwaysFound ==
  ASSUME Zone <= 2 * Second
  PROVE  Spec => []AddedIsFound
  <1>1. OrderInv => AddedIsFound
    <2> SUFFICES ASSUME OrderInv, client \in applied, lag = 0, doubled = {},
                        Length[Subject[client]] > 0
                 PROVE  TryGetAuth(Subject[client]) = client
      BY DEF AddedIsFound
    <2> DEFINE s == Subject[client]
    <2>1. client \in published /\ client \in Events /\ client # None
      BY DEF OrderInv, TypeOK
    <2>2. Kind[client] = "authAdded" /\ s \in Subjects
      BY <2>1 DEF OrderInv, ClientWaits
    <2>3. Latest(client, s)
      BY <2>1, <2>2 DEF OrderInv, ClientWaits, Latest
    <2>4. client \notin Pending
      BY <2>1 DEF OrderInv, InOrder, Once
    <2>5. auths[s] = client
      BY <2>1, <2>2, <2>3, <2>4 DEF OrderInv, InOrder, Current, Entry
    <2>6. s \in Found(s)
      BY <2>1, <2>2, <2>5, PrefixesAssumption DEF Found
    <2>7. PICK p \in Found(s) : TryGetAuth(s) = auths[p] /\ Length[s] <= Length[p]
      BY <2>2, <2>6, LongestIsFound
    <2>8. p = s
      <3>1. p \in Prefixes[s] /\ s \in Prefixes[s] /\ Length[p] <= Length[s]
        BY <2>2, <2>7, PrefixesAssumption DEF Found
      <3>2. Length[p] \in Nat /\ Length[s] \in Nat
        BY <2>2, <3>1, PrefixesAssumption
      <3>3. Length[p] = Length[s]
        BY <2>7, <3>1, <3>2
      <3> QED BY <2>2, <3>1, <3>3, PrefixesAssumption
    <2> QED BY <2>5, <2>7, <2>8
  <1> QED BY <1>1, InitOrder, NextOrder, PTL DEF Spec
=============================================================================
