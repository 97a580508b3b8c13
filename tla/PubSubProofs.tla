---------------------------- MODULE PubSubProofs ----------------------------
(***************************************************************************)
(* Theorems about PubSub, for any set of events, subscriptions, filters and *)
(* timestamps, whether or not the store fails.                              *)
(***************************************************************************)
EXTENDS PubSub, TLAPS

-----------------------------------------------------------------------------
(* Type correctness *)

LEMMA InitTypeOK == Init => TypeOK
  BY EventsAssumption, SubscriptionsAssumption
  DEF Init, TypeOK, Stages, Points

LEMMA PublisherTypeOK ==
  ASSUME TypeOK, NEW e \in Events, Add(e) \/ FanOut(e)
  PROVE  TypeOK'
  <1> USE EventsAssumption DEF TypeOK, Stages, requestVars, gotVars, publisherVars
  <1>1. CASE Add(e)
    BY <1>1 DEF Add, Times
  <1>2. CASE FanOut(e)
    BY <1>2 DEF FanOut
  <1> QED BY <1>1, <1>2

LEMMA SubscriptionStepTypeOK ==
  ASSUME TypeOK, NEW s \in Subs, SubscriptionStep(s)
  PROVE  TypeOK'
  <1> USE DEF TypeOK, Points, requestVars, gotVars, publisherVars
  <1>1. CASE Register(s)
    BY <1>1 DEF Register
  <1>2. CASE Snapshot(s)
    <2>1. Listed(s) \subseteq Events
      BY DEF Listed
    <2> QED BY <1>2, <2>1 DEF Snapshot
  <1>3. CASE Replay(s)
    <2>1. PICK e \in toReplay[s] :
             /\ replayed' = [replayed EXCEPT ![s] = @ \cup {e}]
             /\ toReplay' = [toReplay EXCEPT ![s] = @ \ {e}]
      BY <1>3 DEF Replay
    <2>2. e \in Events
      BY <2>1
    <2> QED BY <1>3, <2>1, <2>2 DEF Replay
  <1>4. CASE AbortReplay(s)
    BY <1>4 DEF AbortReplay
  <1>5. CASE EndReplay(s)
    BY <1>5 DEF EndReplay
  <1>6. CASE Receive(s)
    BY <1>6 DEF Receive
  <1>7. CASE Forward(s)
    BY <1>7 DEF Forward
  <1>8. CASE AbortForward(s)
    BY <1>8 DEF AbortForward
  <1>9. CASE CloseDone(s) \/ Unregister(s)
    BY <1>9 DEF CloseDone, Unregister
  <1> QED
    BY <1>1, <1>2, <1>3, <1>4, <1>5, <1>6, <1>7, <1>8, <1>9 DEF SubscriptionStep

LEMMA SubscriberTypeOK ==
  ASSUME TypeOK, NEW s \in Subs, Subscribe(s) \/ Cancel(s) \/ Abandon(s)
  PROVE  TypeOK'
  <1> USE DEF TypeOK, Points, requestVars, gotVars, publisherVars
  <1>1. CASE Subscribe(s)
    BY <1>1, SubscriptionsAssumption DEF Subscribe
  <1>2. CASE Cancel(s)
    BY <1>2 DEF Cancel
  <1>3. CASE Abandon(s)
    BY <1>3 DEF Abandon
  <1> QED BY <1>1, <1>2, <1>3

LEMMA NextTypeOK == TypeOK /\ [Next]_vars => TypeOK'
  <1> SUFFICES ASSUME TypeOK, [Next]_vars PROVE TypeOK'
    OBVIOUS
  <1>1. CASE UNCHANGED vars
    BY <1>1 DEF TypeOK, vars, publisherVars, requestVars, gotVars
  <1>2. CASE \E e \in Events : Add(e) \/ FanOut(e)
    BY <1>2, PublisherTypeOK
  <1>3. CASE \E s \in Subs, e \in Events : Drop(s, e)
    BY <1>3 DEF Drop, TypeOK, requestVars, gotVars, publisherVars
  <1>4. CASE \E s \in Subs : Subscribe(s) \/ Cancel(s) \/ Abandon(s)
    BY <1>4, SubscriberTypeOK
  <1>5. CASE \E s \in Subs : SubscriptionStep(s)
    BY <1>5, SubscriptionStepTypeOK
  <1> QED BY <1>1, <1>2, <1>3, <1>4, <1>5 DEF Next

\* Every variable keeps its type: in particular only events, never the absence
\* of one, reach a consumer.
THEOREM TypeCorrect == Spec => []TypeOK
  BY InitTypeOK, NextTypeOK, PTL DEF Spec

-----------------------------------------------------------------------------
(* The inductive invariant *)

LEMMA InitInv == Init => Inv
  <1> SUFFICES ASSUME Init PROVE Inv
    OBVIOUS
  <1>1. TypeOK
    BY InitTypeOK
  <1>2. \A e \in Events : ~Kept(e)
    BY EventsAssumption DEF Init, Kept, Times
  <1>3. NoLostEvent
    BY DEF Init, NoLostEvent
  <1>4. StoredWasAdded
    BY <1>2 DEF StoredWasAdded
  <1>5. OnlyAskedOnItsWay /\ NothingBefore /\ IteratorSorted
    BY EventsAssumption
    DEF Init, OnlyAskedOnItsWay, NothingBefore, IteratorSorted, OnItsWay, Got
  <1> QED BY <1>1, <1>3, <1>4, <1>5 DEF Inv

LEMMA StutterInv == Inv /\ UNCHANGED vars => Inv'
  <1> SUFFICES ASSUME Inv, UNCHANGED vars PROVE Inv'
    OBVIOUS
  <1> USE DEF vars, publisherVars, requestVars, gotVars
  <1>1. TypeOK'
    BY NextTypeOK DEF Inv
  <1>2. NoLostEvent'
    BY DEF Inv, NoLostEvent, Accounted, Kept, Matches, SeekKey, Got
  <1>3. StoredWasAdded'
    BY DEF Inv, StoredWasAdded, Kept
  <1>4. OnlyAskedOnItsWay'
    BY DEF Inv, OnlyAskedOnItsWay, OnItsWay, Matches, SeekKey, Got
  <1>5. NothingBefore' /\ IteratorSorted'
    BY DEF Inv, NothingBefore, IteratorSorted, Got
  <1> QED BY <1>1, <1>2, <1>3, <1>4, <1>5 DEF Inv

\* Writing an event over another one of its timestamp leaves the other one no
\* longer kept, so every event still kept was kept before.
LEMMA AddInv ==
  ASSUME Inv, NEW e \in Events, Add(e)
  PROVE  Inv'
  <1> USE DEF publisherVars, requestVars, gotVars
  <1>1. TypeOK'
    BY NextTypeOK DEF Inv, Next
  <1>2. stage' = [stage EXCEPT ![e] = "added"]
    BY DEF Add
  <1>3. \A f \in Events : f # e /\ Kept(f)' => Kept(f)
    BY EventsAssumption DEF Add, Kept, Inv, TypeOK, Times
  <1>4. NoLostEvent'
    BY <1>2, <1>3 DEF Add, Inv, TypeOK, NoLostEvent, Accounted, Matches, SeekKey, Got
  <1>5. StoredWasAdded'
    BY <1>2, <1>3 DEF Inv, TypeOK, StoredWasAdded
  <1>6. OnlyAskedOnItsWay'
    BY <1>2 DEF Add, Inv, TypeOK, OnlyAskedOnItsWay, OnItsWay, Matches, SeekKey, Got
  <1>7. NothingBefore' /\ IteratorSorted'
    BY DEF Add, Inv, NothingBefore, IteratorSorted, Got
  <1> QED BY <1>1, <1>4, <1>5, <1>6, <1>7 DEF Inv

\* A subscription that is in the map gets a delivery; one that is not yet has
\* still to take its snapshot.
LEMMA FanOutInv ==
  ASSUME Inv, NEW e \in Events, FanOut(e)
  PROVE  Inv'
  <1> USE DEF publisherVars, requestVars, gotVars
  <1>1. TypeOK'
    BY NextTypeOK DEF Inv, Next
  <1>2. stage' = [stage EXCEPT ![e] = "published"]
    BY DEF FanOut
  <1>3. \A s \in Subs, f \in Events :
          <<s, f>> \in inflight' <=>
             <<s, f>> \in inflight \/ (f = e /\ Registered(s) /\ Matches(s, e))
    BY DEF FanOut
  <1>4. NoLostEvent'
    BY <1>2, <1>3
    DEF FanOut, Inv, TypeOK, NoLostEvent, Accounted, Kept, Matches, SeekKey, Got, Registered
  <1>5. StoredWasAdded'
    BY <1>2 DEF FanOut, Inv, TypeOK, StoredWasAdded, Kept
  <1>6. OnlyAskedOnItsWay'
    <2>1. UNCHANGED <<toReplay, replayed, forwarded, holding, since, filter>>
      BY DEF FanOut
    <2>2. \A f \in Events : stage[f] # "new" => stage'[f] # "new"
      BY <1>2 DEF Inv, TypeOK
    <2>3. stage'[e] # "new"
      BY <1>2 DEF Inv, TypeOK
    <2> QED
      BY <1>3, <2>1, <2>2, <2>3 DEF Inv, OnlyAskedOnItsWay, OnItsWay, Matches, SeekKey, Got
  <1>7. NothingBefore' /\ IteratorSorted'
    BY <1>3 DEF FanOut, Inv, NothingBefore, IteratorSorted, Got, Registered
  <1> QED BY <1>1, <1>4, <1>5, <1>6, <1>7 DEF Inv

LEMMA DropInv ==
  ASSUME Inv, NEW s \in Subs, NEW e \in Events, Drop(s, e)
  PROVE  Inv'
  <1> USE DEF publisherVars, requestVars, gotVars
  <1>1. TypeOK'
    BY NextTypeOK DEF Inv, Next
  <1>2. NoLostEvent'
    BY DEF Drop, Inv, NoLostEvent, Accounted, Kept, Matches, SeekKey, Got
  <1>3. StoredWasAdded' /\ OnlyAskedOnItsWay'
    BY DEF Drop, Inv, StoredWasAdded, Kept, OnlyAskedOnItsWay, OnItsWay, Matches, SeekKey, Got
  <1>4. NothingBefore' /\ IteratorSorted'
    BY DEF Drop, Inv, NothingBefore, IteratorSorted, Got
  <1> QED BY <1>1, <1>2, <1>3, <1>4 DEF Inv

\* The filter is set while nothing of the subscription's exists.
LEMMA SubscriberInv ==
  ASSUME Inv, NEW s \in Subs, Subscribe(s) \/ Cancel(s) \/ Abandon(s)
  PROVE  Inv'
  <1> USE DEF publisherVars, requestVars, gotVars
  <1>1. TypeOK'
    BY NextTypeOK DEF Inv, Next
  <1>2. CASE Subscribe(s)
    <2>1. /\ pc' = [pc EXCEPT ![s] = "spawned"]
          /\ \A r \in Subs : r # s => filter'[r] = filter[r] /\ since'[r] = since[r]
      BY <1>2 DEF Subscribe, Inv, TypeOK
    <2>2. NoLostEvent'
      BY <1>2, <2>1 DEF Subscribe, Inv, TypeOK, NoLostEvent, Accounted, Kept, Matches, SeekKey, Got
    <2>3. StoredWasAdded'
      BY <1>2 DEF Subscribe, Inv, StoredWasAdded, Kept
    <2>4. \A e \in Events : ~OnItsWay(s, e) /\ e \notin toReplay[s] \cup Got(s)
      BY <1>2 DEF Subscribe, Inv, NothingBefore, OnItsWay
    <2>5. OnlyAskedOnItsWay'
      BY <1>2, <2>1, <2>4
      DEF Subscribe, Inv, OnlyAskedOnItsWay, OnItsWay, Matches, SeekKey, Got
    <2>6. NothingBefore' /\ IteratorSorted'
      BY <1>2, <2>1 DEF Subscribe, Inv, TypeOK, NothingBefore, IteratorSorted, Got
    <2> QED BY <1>1, <2>2, <2>3, <2>5, <2>6 DEF Inv
  <1>3. CASE Cancel(s) \/ Abandon(s)
    <2>1. UNCHANGED <<publisherVars, pc, filter, since, toReplay, inflight, holding, gotVars>>
      BY <1>3 DEF Cancel, Abandon
    <2>2. NoLostEvent'
      BY <2>1 DEF Inv, NoLostEvent, Accounted, Kept, Matches, SeekKey, Got
    <2>3. StoredWasAdded' /\ OnlyAskedOnItsWay'
      BY <2>1 DEF Inv, StoredWasAdded, Kept, OnlyAskedOnItsWay, OnItsWay, Matches, SeekKey, Got
    <2>4. NothingBefore' /\ IteratorSorted'
      BY <2>1 DEF Inv, NothingBefore, IteratorSorted, Got
    <2> QED BY <1>1, <2>2, <2>3, <2>4 DEF Inv
  <1> QED BY <1>2, <1>3

LEMMA ReplayInv ==
  ASSUME Inv, NEW s \in Subs, Replay(s)
  PROVE  Inv'
  <1> USE DEF publisherVars, requestVars
  <1>1. TypeOK'
    BY NextTypeOK DEF Inv, Next, SubscriptionStep
  <1>2. PICK e \in toReplay[s] :
           /\ IsNext(s, e)
           /\ replayed' = [replayed EXCEPT ![s] = @ \cup {e}]
           /\ toReplay' = [toReplay EXCEPT ![s] = @ \ {e}]
    BY DEF Replay
  <1>3. /\ pc[s] = "replaying"
        /\ pc' = [pc EXCEPT ![s] = IF s \in cancelled THEN "closing" ELSE "replaying"]
        /\ UNCHANGED <<stage, store, filter, since, inflight, holding, forwarded>>
    BY DEF Replay
  <1>4. e \in Events
    BY <1>2 DEF Inv, TypeOK
  <1>5. \A r \in Subs : /\ r # s => toReplay'[r] = toReplay[r] /\ replayed'[r] = replayed[r]
                        /\ toReplay'[r] \cup Got(r)' = toReplay[r] \cup Got(r)
                        /\ toReplay'[r] \cup replayed'[r] = toReplay[r] \cup replayed[r]
    BY <1>2, <1>3 DEF Inv, TypeOK, Got
  <1>6. NoLostEvent'
    BY <1>3, <1>5 DEF Inv, TypeOK, NoLostEvent, Accounted, Kept, Matches, SeekKey
  <1>7. StoredWasAdded' /\ OnlyAskedOnItsWay'
    BY <1>3, <1>5 DEF Inv, StoredWasAdded, Kept, OnlyAskedOnItsWay, OnItsWay, Matches, SeekKey
  <1>8. NothingBefore'
    BY <1>3, <1>5 DEF Inv, TypeOK, NothingBefore
  <1>9. IteratorSorted'
    \* What is left is not older than e, nor of the same instant.
    <2>1. \A f \in toReplay[s] \ {e} : Time[e] < Time[f]
      <3> SUFFICES ASSUME NEW f \in toReplay[s] \ {e} PROVE Time[e] < Time[f]
        OBVIOUS
      <3>1. Time[e] \in Nat /\ Time[f] \in Nat
        BY <1>4, EventsAssumption DEF Inv, TypeOK
      <3>2. Time[e] <= Time[f] /\ Time[e] # Time[f]
        BY <1>2 DEF IsNext, Inv, IteratorSorted
      <3> QED BY <3>1, <3>2
    <2> QED BY <1>2, <1>5, <2>1 DEF Inv, TypeOK, IteratorSorted
  <1> QED BY <1>1, <1>6, <1>7, <1>8, <1>9 DEF Inv

\* The snapshot has everything published so far that is kept and asked for, at
\* most one event of each timestamp.
LEMMA SnapshotInv ==
  ASSUME Inv, NEW s \in Subs, Snapshot(s)
  PROVE  Inv'
  <1> USE DEF publisherVars, requestVars, gotVars
  <1>1. TypeOK'
    BY NextTypeOK DEF Inv, Next, SubscriptionStep
  <1>2. /\ pc[s] = "registered"
        /\ pc' = [pc EXCEPT ![s] = "replaying"]
        /\ toReplay' = [toReplay EXCEPT ![s] = Listed(s)]
        /\ UNCHANGED <<stage, store, filter, since, inflight, holding, replayed, forwarded>>
    BY DEF Snapshot
  <1>3. \A r \in Subs : r # s => toReplay'[r] = toReplay[r] /\ pc'[r] = pc[r]
    BY <1>2 DEF Inv, TypeOK
  <1>4. toReplay'[s] = Listed(s) /\ pc'[s] = "replaying"
    BY <1>2 DEF Inv, TypeOK
  <1>5. NoLostEvent'
    BY <1>2, <1>3, <1>4
    DEF Inv, NoLostEvent, Accounted, Kept, Matches, SeekKey, Got, Listed
  <1>6. StoredWasAdded'
    BY <1>2 DEF Inv, StoredWasAdded, Kept
  <1>7. OnlyAskedOnItsWay'
    BY <1>2, <1>3, <1>4
    DEF Inv, OnlyAskedOnItsWay, OnItsWay, Matches, SeekKey, Got, Listed, StoredWasAdded, Kept
  <1>8. NothingBefore'
    BY <1>2, <1>3, <1>4 DEF Inv, NothingBefore, Got
  <1>9. IteratorSorted'
    <2>1. \A e, f \in Listed(s) : Time[e] = Time[f] => e = f
      BY DEF Listed
    <2>2. replayed[s] = {}
      BY <1>2 DEF Inv, TypeOK, NothingBefore, Got
    <2> QED BY <1>2, <1>3, <1>4, <2>1, <2>2 DEF Inv, IteratorSorted
  <1> QED BY <1>1, <1>5, <1>6, <1>7, <1>8, <1>9 DEF Inv

\* The live half: a delivery that is received is held, and one that is held is
\* sent on.
LEMMA LiveInv ==
  ASSUME Inv, NEW s \in Subs, Receive(s) \/ Forward(s)
  PROVE  Inv'
  <1> USE DEF publisherVars, requestVars, gotVars
  <1>1. TypeOK'
    BY NextTypeOK DEF Inv, Next, SubscriptionStep
  <1>2. /\ pc[s] = "live"
        /\ UNCHANGED <<stage, store, pc, filter, since, toReplay, replayed>>
    BY DEF Receive, Forward
  <1>3. \A r \in Subs, f \in Events :
           /\ <<r, f>> \in inflight' => <<r, f>> \in inflight
           /\ OnItsWay(r, f)' => OnItsWay(r, f)
           /\ f \in Got(r)' => f \in Got(r) \/ OnItsWay(r, f)
           /\ OnItsWay(r, f) \/ f \in Got(r) => OnItsWay(r, f)' \/ f \in Got(r)'
           /\ r # s => holding'[r] = holding[r] /\ Got(r)' = Got(r)
    <2>1. CASE Receive(s)
      <3>1. PICK e \in Events :
               /\ <<s, e>> \in inflight
               /\ inflight' = inflight \ {<<s, e>>}
               /\ holding' = [holding EXCEPT ![s] = e]
        BY <2>1 DEF Receive
      <3>2. holding[s] = NoEvent /\ UNCHANGED <<replayed, forwarded>>
        BY <2>1 DEF Receive
      <3>3. \A r \in Subs : holding'[r] = IF r = s THEN e ELSE holding[r]
        BY <3>1 DEF Inv, TypeOK
      <3> QED BY <3>1, <3>2, <3>3, EventsAssumption DEF OnItsWay, Got
    <2>2. CASE Forward(s)
      <3>1. /\ forwarded' = [forwarded EXCEPT ![s] = @ \cup {holding[s]}]
            /\ holding' = [holding EXCEPT ![s] = NoEvent]
            /\ UNCHANGED <<inflight, replayed>>
        BY <2>2 DEF Forward
      <3>2. \A r \in Subs : /\ holding'[r] = IF r = s THEN NoEvent ELSE holding[r]
                            /\ forwarded'[r] = IF r = s
                                 THEN forwarded[r] \cup {holding[r]} ELSE forwarded[r]
        BY <3>1 DEF Inv, TypeOK
      <3> QED BY <3>1, <3>2, EventsAssumption DEF OnItsWay, Got
    <2> QED BY <2>1, <2>2
  <1>4. NoLostEvent'
    BY <1>2, <1>3 DEF Inv, NoLostEvent, Accounted, Kept, Matches, SeekKey, OnItsWay
  <1>5. StoredWasAdded' /\ IteratorSorted'
    BY <1>2 DEF Inv, StoredWasAdded, Kept, IteratorSorted
  <1>6. OnlyAskedOnItsWay'
    BY <1>2, <1>3 DEF Inv, OnlyAskedOnItsWay, Matches, SeekKey
  <1>7. NothingBefore'
    BY <1>2, <1>3 DEF Inv, NothingBefore
  <1> QED BY <1>1, <1>4, <1>5, <1>6, <1>7 DEF Inv

\* The other steps only move the goroutine along, and a subscription that
\* gives up is promised nothing any more.
LEMMA MoveOnInv ==
  ASSUME Inv, NEW s \in Subs,
         \/ Register(s) \/ AbortReplay(s) \/ EndReplay(s) \/ AbortForward(s)
         \/ CloseDone(s) \/ Unregister(s)
  PROVE  Inv'
  <1> USE DEF publisherVars, requestVars, gotVars
  <1>1. TypeOK'
    BY NextTypeOK DEF Inv, Next, SubscriptionStep
  <1>2. UNCHANGED <<stage, store, filter, since, toReplay, inflight, replayed, forwarded>>
    BY DEF Register, AbortReplay, EndReplay, AbortForward, CloseDone, Unregister
  <1>3. \A r \in Subs : /\ r # s => pc'[r] = pc[r] /\ holding'[r] = holding[r]
                        /\ holding'[r] = holding[r] \/ holding'[r] = NoEvent
    BY DEF Register, AbortReplay, EndReplay, AbortForward, CloseDone, Unregister,
           Inv, TypeOK
  <1>4. \/ pc[s] = "spawned" /\ pc'[s] = "registered"
        \/ /\ pc[s] = "replaying" /\ toReplay[s] = {} /\ pc'[s] = "live"
           /\ holding'[s] = holding[s]
        \/ pc[s] \notin {"idle", "spawned", "registered"}
           /\ pc'[s] \in {"closing", "done", "closed"}
    BY DEF Register, AbortReplay, EndReplay, AbortForward, CloseDone, Unregister,
           Inv, TypeOK
  <1>5. NoLostEvent'
    BY <1>2, <1>3, <1>4 DEF Inv, NoLostEvent, Accounted, Kept, Matches, SeekKey, Got
  <1>6. StoredWasAdded' /\ IteratorSorted'
    BY <1>2 DEF Inv, StoredWasAdded, Kept, IteratorSorted
  <1>7. OnlyAskedOnItsWay'
    BY <1>2, <1>3, EventsAssumption DEF Inv, OnlyAskedOnItsWay, OnItsWay, Matches, SeekKey, Got
  <1>8. NothingBefore'
    BY <1>2, <1>3, <1>4, EventsAssumption DEF Inv, NothingBefore, Got
  <1> QED BY <1>1, <1>5, <1>6, <1>7, <1>8 DEF Inv

LEMMA NextInv == Inv /\ [Next]_vars => Inv'
  <1> SUFFICES ASSUME Inv, [Next]_vars PROVE Inv'
    OBVIOUS
  <1>1. CASE UNCHANGED vars
    BY <1>1, StutterInv
  <1>2. CASE \E e \in Events : Add(e) \/ FanOut(e)
    BY <1>2, AddInv, FanOutInv
  <1>3. CASE \E s \in Subs, e \in Events : Drop(s, e)
    BY <1>3, DropInv
  <1>4. CASE \E s \in Subs : Subscribe(s) \/ Cancel(s) \/ Abandon(s)
    BY <1>4, SubscriberInv
  <1>5. CASE \E s \in Subs : SubscriptionStep(s)
    BY <1>5, SnapshotInv, ReplayInv, LiveInv, MoveOnInv DEF SubscriptionStep
  <1> QED BY <1>1, <1>2, <1>3, <1>4, <1>5 DEF Next

THEOREM Invariance == Spec => []Inv
  BY InitInv, NextInv, PTL DEF Spec

-----------------------------------------------------------------------------
(* What follows *)

\* No event that was published, kept and asked for is missed, whatever the
\* interleaving of Publish, Subscribe and their goroutines.
THEOREM NoEventIsLost == Spec => []NoLostEvent
  BY Invariance, PTL DEF Inv

\* A consumer gets only events it asked for and that were published.
THEOREM NothingUnasked == Spec => []OnlyWhatWasAsked
  <1>1. Inv => OnlyWhatWasAsked
    BY DEF Inv, TypeOK, OnlyAskedOnItsWay, OnlyWhatWasAsked, Got
  <1> QED BY <1>1, Invariance, PTL

\* Stored events are replayed in the order of their timestamps.
THEOREM ReplayedInOrder == Spec => ReplayInOrder
  <1> DEFINE InOrder == \A s \in Subs : \A e \in replayed'[s] \ replayed[s] :
          e \notin replayed[s] /\ \A f \in replayed[s] : Time[f] < Time[e]
  <1>1. Inv /\ [Next]_vars => [InOrder]_vars
    <2> SUFFICES ASSUME Inv, Next PROVE InOrder
      OBVIOUS
    <2>1. CASE \E s \in Subs : Replay(s)
      BY <2>1 DEF Replay, Inv, TypeOK, IteratorSorted
    <2>2. CASE ~\E s \in Subs : Replay(s)
      <3>1. replayed' = replayed
        BY <2>2 DEF Next, SubscriptionStep, Add, FanOut, Drop, Subscribe, Cancel,
           Abandon, Register, Snapshot, AbortReplay, EndReplay, Receive, Forward,
           AbortForward, CloseDone, Unregister, gotVars
      <3> QED BY <3>1
    <2> QED BY <2>1, <2>2
  <1> QED BY <1>1, Invariance, PTL DEF Spec, ReplayInOrder

-----------------------------------------------------------------------------
(* The bus implements EventDelivery *)

\* With distinct timestamps nothing is overwritten.  A subscription forwards
\* nothing before it is live.
NothingForwarded ==
    \A s \in Subs : pc[s] \in {"idle", "spawned", "registered", "replaying"} =>
                       forwarded[s] = {} /\ holding[s] = NoEvent
DeliveryInv == Inv /\ NothingForwarded

DistinctInstants ==
    /\ \A e, f \in Events : Time[e] = Time[f] => e = f
    /\ Zone <= 0

abstractVars == <<Log, KeptEvents, WantsOf, PastOf, Attached, Detached, OwedTo, GotBy>>

LEMMA NothingForwardedStep ==
  ASSUME TypeOK, NothingForwarded, [Next]_vars
  PROVE  NothingForwarded'
  <1> USE DEF publisherVars, requestVars, gotVars, NothingForwarded, TypeOK
  <1>1. CASE UNCHANGED <<pc, forwarded, holding>>
    BY <1>1
  <1>2. CASE \E s \in Subs : \/ Receive(s) \/ Forward(s) \/ AbortForward(s)
                             \/ CloseDone(s) \/ Unregister(s) \/ AbortReplay(s)
    BY <1>2 DEF Receive, Forward, AbortForward, CloseDone, Unregister, AbortReplay
  <1>3. CASE \E s \in Subs : Subscribe(s) \/ Register(s) \/ Snapshot(s) \/ EndReplay(s)
    BY <1>3 DEF Subscribe, Register, Snapshot, EndReplay
  <1>4. CASE \E s \in Subs : Replay(s)
    BY <1>4 DEF Replay
  <1> QED
    BY <1>1, <1>2, <1>3, <1>4
    DEF Next, SubscriptionStep, Add, FanOut, Drop, Cancel, Abandon, vars

LEMMA InitDeliveryInv == Init => DeliveryInv
  <1>1. Init => NothingForwarded
    BY DEF Init, NothingForwarded
  <1> QED BY <1>1, InitInv DEF DeliveryInv

LEMMA NextDeliveryInv == DeliveryInv /\ [Next]_vars => DeliveryInv'
  BY NextInv, NothingForwardedStep DEF DeliveryInv, Inv

LEMMA InitRefines == Init => Delivery!Init
  <1> SUFFICES ASSUME Init PROVE Delivery!Init
    OBVIOUS
  <1>1. Log = {} /\ Attached = {} /\ Detached = {}
    BY DEF Init, Log, Attached, Detached
  <1>3. KeptEvents = {}
    BY EventsAssumption DEF Init, KeptEvents, Kept, Times
  <1>2. \A s \in Subs : /\ Wants(s) = {}
                        /\ Got(s) = {}
                        /\ Owed(s) = {}
    BY DEF Init, Wants, Owed, Got
  <1> QED BY <1>1, <1>2, <1>3 DEF Delivery!Init, WantsOf, PastOf, OwedTo, GotBy

\* Publishing is what makes an event owed; fanning it out changes nothing.
LEMMA AddRefines ==
  ASSUME DistinctInstants, DeliveryInv, NEW e \in Events, Add(e)
  PROVE  Delivery!Publish(e)
  <1> USE DEF publisherVars, requestVars, gotVars
  <1>1. /\ stage[e] = "new"
        /\ stage' = [stage EXCEPT ![e] = "added"]
        /\ store' \in {store, [store EXCEPT ![Time[e]] = e]}
        /\ UNCHANGED <<pc, filter, since, toReplay, inflight, holding, replayed, forwarded>>
    BY DEF Add
  <1>2. e \notin Log /\ Log' = Log \cup {e}
    BY <1>1 DEF Log, KeptEvents, Kept, DeliveryInv, Inv, TypeOK
  <1>8. KeptEvents' \in {KeptEvents, KeptEvents \cup {e}}
    BY <1>1 DEF KeptEvents, Kept, DistinctInstants, DeliveryInv, Inv, TypeOK, Times
  <1>3. /\ \A s \in Subs : Wants(s)' = Wants(s) /\ Got(s)' = Got(s)
        /\ UNCHANGED <<WantsOf, PastOf, Attached, Detached, GotBy>>
    BY <1>1 DEF Wants, Matches, SeekKey, Got, WantsOf, PastOf, Attached, Detached, GotBy
  <1>4. \A s \in Subs : e \notin Got(s)
    BY <1>1 DEF DeliveryInv, Inv, OnlyAskedOnItsWay
  <1>5. \A s \in Subs : Listed(s) \subseteq Listed(s)' /\ Listed(s)' \subseteq Listed(s) \cup {e}
    BY <1>1, EventsAssumption
    DEF Listed, Matches, SeekKey, DistinctInstants, DeliveryInv, Inv, TypeOK, Times
  <1>6. \A s \in Subs, f \in Events : ToCome(s, f)' <=> ToCome(s, f) \/ f = e
    BY <1>1, <1>5 DEF ToCome, OnItsWay, DeliveryInv, Inv, TypeOK
  <1>7. \A s \in Subs : Owed(s)' = IF s \in Attached /\ e \in Wants(s)
                                   THEN Owed(s) \cup {e} ELSE Owed(s)
    BY <1>3, <1>4, <1>6 DEF Owed, Wants
  <1> QED BY <1>2, <1>3, <1>7, <1>8 DEF Delivery!Publish, OwedTo, WantsOf

LEMMA FanOutRefines ==
  ASSUME DeliveryInv, NEW e \in Events, FanOut(e)
  PROVE  UNCHANGED abstractVars
  <1> USE DEF publisherVars, requestVars, gotVars
  <1>1. /\ stage' = [stage EXCEPT ![e] = "published"]
        /\ stage[e] = "added"
        /\ UNCHANGED <<store, pc, filter, since, toReplay, holding, replayed, forwarded>>
    BY DEF FanOut
  <1>2. \A s \in Subs, f \in Events :
          <<s, f>> \in inflight' <=>
             <<s, f>> \in inflight \/ (f = e /\ Registered(s) /\ Matches(s, e))
    BY DEF FanOut
  <1>3. UNCHANGED <<Log, KeptEvents, WantsOf, PastOf, Attached, Detached, GotBy>>
    BY <1>1 DEF Log, KeptEvents, Kept, WantsOf, PastOf, Attached, Detached, GotBy, Wants, Matches, SeekKey, Got,
                DeliveryInv, Inv, TypeOK
  <1>4. \A s \in Subs : Wants(s)' = Wants(s) /\ Got(s)' = Got(s) /\ Listed(s)' = Listed(s)
    BY <1>1 DEF Wants, Matches, SeekKey, Got, Listed
  <1>5. \A s \in Attached : \A f \in Wants(s) : ToCome(s, f)' <=> ToCome(s, f)
    <2> SUFFICES ASSUME NEW s \in Attached, NEW f \in Wants(s)
                 PROVE  ToCome(s, f)' <=> ToCome(s, f)
      OBVIOUS
    <2>1. s \in Subs /\ f \in Events /\ Registered(s) /\ Matches(s, f)
      BY DEF Attached, Wants, Registered
    <2>2. f # e => stage'[f] = stage[f]
      BY <1>1 DEF DeliveryInv, Inv, TypeOK
    <2> QED BY <1>1, <1>2, <1>4, <2>1, <2>2 DEF ToCome, OnItsWay
  <1>6. \A s \in Subs : Owed(s)' = Owed(s)
    BY <1>3, <1>4, <1>5 DEF Owed
  <1> QED BY <1>3, <1>6 DEF abstractVars, OwedTo

LEMMA SubscribeRefines ==
  ASSUME DeliveryInv, NEW s \in Subs, Subscribe(s)
  PROVE  Delivery!Ask(s)
  <1> USE DEF publisherVars, requestVars, gotVars
  <1>1. /\ pc[s] = "idle"
        /\ pc' = [pc EXCEPT ![s] = "spawned"]
        /\ UNCHANGED <<stage, store, toReplay, inflight, holding, replayed, forwarded>>
        /\ \A r \in Subs : r # s => /\ filter'[r] = filter[r] /\ since'[r] = since[r]
                                    /\ pc'[r] = pc[r]
    BY DEF Subscribe, DeliveryInv, Inv, TypeOK
  <1>2. UNCHANGED <<Log, KeptEvents, Attached, Detached, GotBy>> /\ s \notin Attached \cup Detached
    BY <1>1 DEF Log, KeptEvents, Kept, Attached, Detached, GotBy, Got, DeliveryInv, Inv, TypeOK
  <1>3. \A r \in Subs : r # s => /\ Wants(r)' = Wants(r) /\ Owed(r)' = Owed(r)
                                 /\ PastOf'[r] = PastOf[r]
    BY <1>1, <1>2 DEF Wants, Owed, PastOf, ToCome, OnItsWay, Listed, Matches, SeekKey, Got
  <1>4. Owed(s)' = Owed(s)
    BY <1>2 DEF Owed
  <1>5. OwedTo' = OwedTo
    BY <1>3, <1>4 DEF OwedTo
  <1> DEFINE W == Wants(s)'
             P == {e \in Wants(s) : Time[e] >= since[s]}'
  <1>6. WantsOf' = [WantsOf EXCEPT ![s] = W]
    BY <1>3 DEF WantsOf
  <1>7. PastOf' = [PastOf EXCEPT ![s] = P]
    BY <1>3 DEF PastOf
  <1>8. W \in SUBSET Events /\ P \in SUBSET W
    BY DEF Wants
  <1> QED BY <1>2, <1>5, <1>6, <1>7, <1>8 DEF Delivery!Ask

\* When a subscription registers it is owed what the store has and what is
\* stored but not yet fanned out, which is all it wants of the past.
LEMMA RegisterRefines ==
  ASSUME DistinctInstants, DeliveryInv, NEW s \in Subs, Register(s)
  PROVE  Delivery!Attach(s)
  <1> USE DEF publisherVars, requestVars, gotVars
  <1>1. /\ pc[s] = "spawned"
        /\ pc' = [pc EXCEPT ![s] = "registered"]
        /\ UNCHANGED <<stage, store, filter, since, toReplay, inflight, holding,
                       replayed, forwarded>>
    BY DEF Register
  <1>2. \A r \in Subs : pc'[r] = IF r = s THEN "registered" ELSE pc[r]
    BY <1>1 DEF DeliveryInv, Inv, TypeOK
  <1>3. /\ s \notin Attached \cup Detached
        /\ Attached' = Attached \cup {s}
        /\ Detached' = Detached
    BY <1>1, <1>2 DEF Attached, Detached
  <1>4. \A r \in Subs : /\ Wants(r)' = Wants(r) /\ Got(r)' = Got(r)
                        /\ Listed(r)' = Listed(r)
    BY <1>1, <1>2 DEF Wants, Matches, SeekKey, Got, Listed
  <1>5. UNCHANGED <<Log, KeptEvents, WantsOf, PastOf, GotBy>>
    BY <1>1, <1>4 DEF Log, KeptEvents, Kept, WantsOf, PastOf, GotBy
  <1>6. \A r \in Subs : r # s => Owed(r)' = Owed(r)
    BY <1>1, <1>2, <1>3, <1>4 DEF Owed, ToCome, OnItsWay
  <1>7. Owed(s)' \subseteq Wants(s) \cap Log
    <2> SUFFICES ASSUME NEW e \in Owed(s)' PROVE e \in Wants(s) \cap Log
      OBVIOUS
    <2>1. e \in Wants(s) /\ e \in Events /\ ToCome(s, e)'
      BY <1>4 DEF Owed, Wants
    <2>2. stage[e] # "new"
      BY <1>1, <1>4, <2>1
      DEF ToCome, OnItsWay, Listed, DeliveryInv, Inv, OnlyAskedOnItsWay,
          StoredWasAdded, Kept
    <2> QED BY <2>1, <2>2 DEF Log
  <1>8. PastOf[s] \cap KeptEvents \subseteq Owed(s)'
    <2> SUFFICES ASSUME NEW e \in PastOf[s] \cap KeptEvents PROVE e \in Owed(s)'
      OBVIOUS
    <2>1. e \in Wants(s) /\ Time[e] >= since[s] /\ Kept(e)
      BY DEF PastOf, KeptEvents
    <2>2. e \in Listed(s)
      <3>1. Time[e] \in Int /\ since[s] \in Int
        BY <2>1, EventsAssumption DEF Wants, DeliveryInv, Inv, TypeOK
      <3>2. Time[e] >= SeekKey(s)
        BY <2>1, <3>1, SubscriptionsAssumption DEF DistinctInstants, SeekKey
      <3> QED BY <2>1, <3>2 DEF Listed, Wants, Kept
    <2>3. e \notin Got(s)
      BY <1>1, <2>1 DEF Wants, DeliveryInv, Inv, NothingBefore
    <2>4. pc'[s] = "registered" /\ s \in Attached'
      BY <1>2, <1>3
    <2> QED BY <1>4, <2>1, <2>2, <2>3, <2>4 DEF Owed, ToCome
  <1>9. OwedTo' = [OwedTo EXCEPT ![s] = Owed(s)']
    BY <1>6 DEF OwedTo
  <1>10. WantsOf[s] = Wants(s)
    BY DEF WantsOf
  <1> QED BY <1>3, <1>5, <1>7, <1>8, <1>9, <1>10 DEF Delivery!Attach

\* Giving up: whatever happens to what was owed, and to the last event sent.
LEMMA DetachRefines ==
  ASSUME DeliveryInv, NEW s \in Subs,
         pc[s] \in {"replaying", "live"},
         pc' = [pc EXCEPT ![s] = "closing"],
         UNCHANGED <<stage, store, filter, since, inflight>>,
         \A r \in Subs \ {s} : /\ toReplay'[r] = toReplay[r] /\ holding'[r] = holding[r]
                               /\ replayed'[r] = replayed[r] /\ forwarded'[r] = forwarded[r],
         \/ Got(s)' = Got(s)
         \/ \E e \in Owed(s) : Got(s)' = Got(s) \cup {e}
  PROVE  Delivery!Detach(s)
  <1>1. \A r \in Subs : pc'[r] = IF r = s THEN "closing" ELSE pc[r]
    BY DEF DeliveryInv, Inv, TypeOK
  <1>2. /\ s \in Attached
        /\ Attached' = Attached \ {s}
        /\ Detached' = Detached \cup {s}
    BY <1>1 DEF Attached, Detached
  <1>3. \A r \in Subs : Wants(r)' = Wants(r) /\ Listed(r)' = Listed(r)
    BY <1>1 DEF Wants, Matches, SeekKey, Listed
  <1>4. UNCHANGED <<Log, KeptEvents, WantsOf, PastOf>>
    BY <1>3 DEF Log, KeptEvents, Kept, WantsOf, PastOf
  <1>5. \A r \in Subs : r # s => Owed(r)' = Owed(r) /\ Got(r)' = Got(r)
    BY <1>1, <1>2, <1>3 DEF Owed, ToCome, OnItsWay, Got
  <1>6. OwedTo' = [OwedTo EXCEPT ![s] = {}]
    BY <1>2, <1>5 DEF OwedTo, Owed
  <1>7. GotBy' = GotBy \/ \E e \in OwedTo[s] : GotBy' = [GotBy EXCEPT ![s] = @ \cup {e}]
    BY <1>5 DEF GotBy, OwedTo
  <1> QED BY <1>2, <1>4, <1>6, <1>7 DEF Delivery!Detach

LEMMA DeliverRefines ==
  ASSUME DeliveryInv, NEW s \in Subs, NEW e \in Owed(s),
         UNCHANGED <<stage, store, pc, filter, since, inflight>>,
         \A r \in Subs \ {s} : /\ toReplay'[r] = toReplay[r] /\ holding'[r] = holding[r]
                               /\ replayed'[r] = replayed[r] /\ forwarded'[r] = forwarded[r],
         Got(s)' = Got(s) \cup {e},
         \A f \in Events \ {e} : /\ f \in toReplay'[s] <=> f \in toReplay[s]
                                 /\ holding'[s] = f <=> holding[s] = f
  PROVE  Delivery!Deliver(s, e)
  <1>1. \A r \in Subs : Wants(r)' = Wants(r) /\ Listed(r)' = Listed(r)
    BY DEF Wants, Matches, SeekKey, Listed
  <1>2. UNCHANGED <<Log, KeptEvents, WantsOf, PastOf, Attached, Detached>>
    BY <1>1 DEF Log, KeptEvents, Kept, WantsOf, PastOf, Attached, Detached
  <1>3. \A r \in Subs : r # s => Owed(r)' = Owed(r) /\ Got(r)' = Got(r)
    BY <1>1, <1>2 DEF Owed, ToCome, OnItsWay, Got
  <1>4. Owed(s)' = Owed(s) \ {e}
    BY <1>1, <1>2 DEF Owed, Wants, ToCome, OnItsWay
  <1>5. /\ OwedTo' = [OwedTo EXCEPT ![s] = @ \ {e}]
        /\ GotBy' = [GotBy EXCEPT ![s] = @ \cup {e}]
    BY <1>3, <1>4 DEF OwedTo, GotBy
  <1>6. s \in Attached /\ e \in OwedTo[s]
    BY DEF Owed, OwedTo
  <1> QED BY <1>2, <1>5, <1>6 DEF Delivery!Deliver

LEMMA SnapshotRefines ==
  ASSUME DeliveryInv, NEW s \in Subs, Snapshot(s)
  PROVE  UNCHANGED abstractVars
  <1> USE DEF publisherVars, requestVars, gotVars
  <1>1. /\ pc[s] = "registered"
        /\ \A r \in Subs : /\ pc'[r] = IF r = s THEN "replaying" ELSE pc[r]
                           /\ toReplay'[r] = IF r = s THEN Listed(s) ELSE toReplay[r]
        /\ UNCHANGED <<stage, store, filter, since, inflight, holding, replayed, forwarded>>
    BY DEF Snapshot, DeliveryInv, Inv, TypeOK
  <1>2. \A r \in Subs : /\ Wants(r)' = Wants(r) /\ Got(r)' = Got(r)
                        /\ Listed(r)' = Listed(r)
    BY <1>1 DEF Wants, Matches, SeekKey, Got, Listed
  <1>3. UNCHANGED <<Log, KeptEvents, WantsOf, PastOf, Attached, Detached, GotBy>>
    BY <1>1, <1>2 DEF Log, KeptEvents, Kept, WantsOf, PastOf, GotBy, Attached, Detached
  <1>4. \A e \in Events : e \notin toReplay[s]
    BY <1>1 DEF DeliveryInv, Inv, NothingBefore
  <1>5. \A r \in Subs, e \in Events : ToCome(r, e)' <=> ToCome(r, e)
    BY <1>1, <1>2, <1>4 DEF ToCome, OnItsWay
  <1>6. \A r \in Subs : Owed(r)' = Owed(r)
    BY <1>2, <1>3, <1>5 DEF Owed, Wants
  <1> QED BY <1>3, <1>6 DEF abstractVars, OwedTo

LEMMA ReplayRefines ==
  ASSUME DeliveryInv, NEW s \in Subs, Replay(s)
  PROVE  Delivery!Next
  <1> USE DEF publisherVars, requestVars
  <1>1. PICK e \in toReplay[s] :
           /\ replayed' = [replayed EXCEPT ![s] = @ \cup {e}]
           /\ toReplay' = [toReplay EXCEPT ![s] = @ \ {e}]
    BY DEF Replay
  <1>2. /\ pc[s] = "replaying"
        /\ pc' = [pc EXCEPT ![s] = IF s \in cancelled THEN "closing" ELSE "replaying"]
        /\ UNCHANGED <<stage, store, filter, since, inflight, holding, forwarded>>
    BY DEF Replay
  <1>3. e \in Events
    BY <1>1 DEF DeliveryInv, Inv, TypeOK
  <1>4. /\ \A r \in Subs \ {s} : toReplay'[r] = toReplay[r] /\ replayed'[r] = replayed[r]
        /\ toReplay'[s] = toReplay[s] \ {e}
        /\ Got(s)' = Got(s) \cup {e}
    BY <1>1, <1>2 DEF DeliveryInv, Inv, TypeOK, Got
  <1>5. e \notin Got(s)
    <2>1. e \notin replayed[s]
      <3>1. Time[e] \in Nat
        BY <1>3, EventsAssumption
      <3>2. \A f \in replayed[s] : Time[f] < Time[e]
        BY <1>1 DEF DeliveryInv, Inv, IteratorSorted
      <3> QED BY <3>1, <3>2
    <2> QED BY <1>2, <2>1 DEF DeliveryInv, NothingForwarded, Got
  <1>6. e \in Owed(s)
    BY <1>1, <1>2, <1>3, <1>5
    DEF Owed, Wants, Attached, ToCome, DeliveryInv, Inv, OnlyAskedOnItsWay
  <1>7. CASE s \in cancelled
    <2>1. pc' = [pc EXCEPT ![s] = "closing"]
      BY <1>2, <1>7
    <2>2. Delivery!Detach(s)
      BY <1>2, <1>4, <1>6, <2>1, DetachRefines
    <2> QED BY <2>2 DEF Delivery!Next
  <1>8. CASE s \notin cancelled
    <2>1. pc' = pc
      BY <1>2, <1>8 DEF DeliveryInv, Inv, TypeOK
    <2>2. Delivery!Deliver(s, e)
      BY <1>2, <1>4, <1>6, <2>1, DeliverRefines
    <2> QED BY <1>3, <2>2 DEF Delivery!Next
  <1> QED BY <1>7, <1>8

LEMMA ReceiveRefines ==
  ASSUME DeliveryInv, NEW s \in Subs, Receive(s)
  PROVE  UNCHANGED abstractVars
  <1> USE DEF publisherVars, requestVars, gotVars
  <1>1. UNCHANGED <<stage, store, pc, filter, since, toReplay, replayed, forwarded>>
    BY DEF Receive
  <1>2. \A r \in Subs : /\ Wants(r)' = Wants(r) /\ Got(r)' = Got(r)
                        /\ Listed(r)' = Listed(r)
    BY <1>1 DEF Wants, Matches, SeekKey, Got, Listed
  <1>3. UNCHANGED <<Log, KeptEvents, WantsOf, PastOf, Attached, Detached, GotBy>>
    BY <1>1, <1>2 DEF Log, KeptEvents, Kept, WantsOf, PastOf, GotBy, Attached, Detached
  <1>4. PICK e \in Events : /\ <<s, e>> \in inflight
                            /\ inflight' = inflight \ {<<s, e>>}
                            /\ holding' = [holding EXCEPT ![s] = e]
    BY DEF Receive
  <1>5. holding[s] = NoEvent /\ \A r \in Subs : holding'[r] = IF r = s THEN e ELSE holding[r]
    BY <1>4 DEF Receive, DeliveryInv, Inv, TypeOK
  <1>6. \A r \in Subs, f \in Events : OnItsWay(r, f)' <=> OnItsWay(r, f)
    BY <1>4, <1>5, EventsAssumption DEF OnItsWay
  <1>7. \A r \in Subs : Owed(r)' = Owed(r)
    BY <1>1, <1>2, <1>3, <1>6 DEF Owed, Wants, ToCome
  <1> QED BY <1>3, <1>7 DEF abstractVars, OwedTo

\* An event the consumer has got already is no longer owed: sending it again is
\* a stuttering step.
LEMMA ForwardRefines ==
  ASSUME DeliveryInv, NEW s \in Subs, Forward(s)
  PROVE  Delivery!Next \/ UNCHANGED abstractVars
  <1> USE DEF publisherVars, requestVars
  <1> DEFINE e == holding[s]
  <1>1. /\ pc[s] = "live"
        /\ e \in Events
        /\ forwarded' = [forwarded EXCEPT ![s] = @ \cup {e}]
        /\ holding' = [holding EXCEPT ![s] = NoEvent]
        /\ UNCHANGED <<stage, store, pc, filter, since, toReplay, inflight, replayed>>
    BY DEF Forward, DeliveryInv, Inv, TypeOK
  <1>2. /\ \A r \in Subs \ {s} : /\ holding'[r] = holding[r] /\ forwarded'[r] = forwarded[r]
        /\ holding'[s] = NoEvent
        /\ Got(s)' = Got(s) \cup {e}
    BY <1>1 DEF DeliveryInv, Inv, TypeOK, Got
  <1>3. \A f \in Events \ {e} : holding'[s] = f <=> holding[s] = f
    BY <1>2, EventsAssumption
  <1>4. CASE e \in Got(s)
    <2>1. \A r \in Subs : /\ Wants(r)' = Wants(r) /\ Got(r)' = Got(r)
                          /\ Listed(r)' = Listed(r)
      BY <1>1, <1>2, <1>4 DEF Wants, Matches, SeekKey, Got, Listed
    <2>2. UNCHANGED <<Log, KeptEvents, WantsOf, PastOf, Attached, Detached, GotBy>>
      BY <1>1, <2>1 DEF Log, KeptEvents, Kept, WantsOf, PastOf, GotBy, Attached, Detached
    <2>3. \A r \in Subs, f \in Events : r # s \/ f # e => (ToCome(r, f)' <=> ToCome(r, f))
      BY <1>1, <1>2, <1>3, <2>1 DEF ToCome, OnItsWay
    <2>4. \A r \in Subs : Owed(r)' = Owed(r)
      BY <1>4, <2>1, <2>2, <2>3 DEF Owed, Wants
    <2> QED BY <2>2, <2>4 DEF abstractVars, OwedTo
  <1>5. CASE e \notin Got(s)
    <2>1. e \in Owed(s)
      BY <1>1, <1>5
      DEF Owed, Wants, Attached, ToCome, OnItsWay, DeliveryInv, Inv, OnlyAskedOnItsWay
    <2>2. Delivery!Deliver(s, e)
      BY <1>1, <1>2, <1>3, <2>1, DeliverRefines
    <2> QED BY <1>1, <2>2 DEF Delivery!Next
  <1> QED BY <1>4, <1>5

LEMMA AbortRefines ==
  ASSUME DeliveryInv, NEW s \in Subs, AbortReplay(s) \/ AbortForward(s)
  PROVE  Delivery!Next
  <1>1. /\ pc[s] \in {"replaying", "live"}
        /\ pc' = [pc EXCEPT ![s] = "closing"]
        /\ UNCHANGED <<stage, store, filter, since, toReplay, inflight, replayed, forwarded>>
        /\ \A r \in Subs \ {s} : holding'[r] = holding[r]
    BY DEF AbortReplay, AbortForward, publisherVars, requestVars, gotVars,
           DeliveryInv, Inv, TypeOK
  <1>2. Got(s)' = Got(s)
    BY <1>1 DEF Got
  <1>3. Delivery!Detach(s)
    BY <1>1, <1>2, DetachRefines
  <1> QED BY <1>3 DEF Delivery!Next

\* The other steps are invisible: they move a goroutine along between two
\* points that promise the same, or concern the consumer alone.
LEMMA OthersRefine ==
  ASSUME DeliveryInv,
         NEW s \in Subs,
         \/ \E e \in Events : Drop(s, e)
         \/ EndReplay(s) \/ CloseDone(s) \/ Unregister(s) \/ Cancel(s) \/ Abandon(s)
  PROVE  UNCHANGED abstractVars
  <1> USE DEF publisherVars, requestVars, gotVars
  <1>1. UNCHANGED <<stage, store, filter, since, toReplay, holding, replayed, forwarded>>
    BY DEF Drop, EndReplay, CloseDone, Unregister, Cancel, Abandon
  <1>2. \A r \in Subs : \/ pc'[r] = pc[r]
                        \/ pc[r] = "replaying" /\ pc'[r] = "live"
                        \/ pc[r] \in {"closing", "done"} /\ pc'[r] \in {"done", "closed"}
    BY DEF Drop, EndReplay, CloseDone, Unregister, Cancel, Abandon,
           DeliveryInv, Inv, TypeOK
  <1>3. \A r \in Subs, f \in Events :
           r \in Attached => (<<r, f>> \in inflight' <=> <<r, f>> \in inflight)
    BY DEF Drop, EndReplay, CloseDone, Unregister, Cancel, Abandon, Attached
  <1>4. \A r \in Subs : /\ Wants(r)' = Wants(r) /\ Got(r)' = Got(r)
                        /\ Listed(r)' = Listed(r)
    BY <1>1, <1>2 DEF Wants, Matches, SeekKey, Got, Listed
  <1>5. UNCHANGED <<Log, KeptEvents, WantsOf, PastOf, Attached, Detached, GotBy>>
    BY <1>1, <1>2, <1>4 DEF Log, KeptEvents, Kept, WantsOf, PastOf, GotBy, Attached, Detached
  <1>6. \A r \in Attached, f \in Events : ToCome(r, f)' <=> ToCome(r, f)
    BY <1>1, <1>2, <1>3, <1>4 DEF ToCome, OnItsWay, Attached
  <1>7. \A r \in Subs : Owed(r)' = Owed(r)
    BY <1>4, <1>5, <1>6 DEF Owed, Wants
  <1> QED BY <1>5, <1>7 DEF abstractVars, OwedTo

LEMMA StutterRefines == UNCHANGED vars => UNCHANGED abstractVars
  BY DEF vars, publisherVars, requestVars, gotVars, abstractVars, Log, KeptEvents, Kept, WantsOf,
         PastOf, Attached, Detached, OwedTo, GotBy, Wants, Got, Owed, ToCome,
         OnItsWay, Listed, Matches, SeekKey

LEMMA StepRefines ==
  ASSUME DistinctInstants, DeliveryInv, [Next]_vars
  PROVE  Delivery!Next \/ UNCHANGED abstractVars
  <1>1. CASE UNCHANGED vars
    BY <1>1, StutterRefines
  <1>2. CASE \E e \in Events : Add(e) \/ FanOut(e)
    BY <1>2, AddRefines, FanOutRefines DEF Delivery!Next
  <1>3. CASE \E s \in Subs, e \in Events : Drop(s, e)
    BY <1>3, OthersRefine
  <1>4. CASE \E s \in Subs : Subscribe(s) \/ Register(s)
    BY <1>4, SubscribeRefines, RegisterRefines DEF Delivery!Next
  <1>5. CASE \E s \in Subs : Cancel(s) \/ Abandon(s) \/ EndReplay(s) \/ CloseDone(s) \/ Unregister(s)
    BY <1>5, OthersRefine
  <1>6. CASE \E s \in Subs : \/ Snapshot(s) \/ Replay(s) \/ AbortReplay(s)
                             \/ Receive(s) \/ Forward(s) \/ AbortForward(s)
    BY <1>6, SnapshotRefines, ReplayRefines, ReceiveRefines, ForwardRefines, AbortRefines
  <1> QED BY <1>1, <1>2, <1>3, <1>4, <1>5, <1>6 DEF Next, SubscriptionStep

\* Under those conditions every behaviour of the bus is one EventDelivery
\* allows: a subscriber is owed what the store holds when it registers and all
\* that is published from then on, and nothing owed is ever dropped.
THEOREM BusImplementsDelivery ==
  ASSUME DistinctInstants
  PROVE  Spec => ImplementsDelivery
  <1>1. Init => DeliveryInv /\ Delivery!Init
    BY InitDeliveryInv, InitRefines
  <1>2. DeliveryInv /\ [Next]_vars => DeliveryInv'
    BY NextDeliveryInv
  <1>3. DeliveryInv /\ [Next]_vars => [Delivery!Next]_(Delivery!vars)
    BY StepRefines DEF abstractVars, Delivery!vars
  <1> QED BY <1>1, <1>2, <1>3, PTL DEF Spec, ImplementsDelivery, Delivery!Spec
=============================================================================
