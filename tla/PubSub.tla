------------------------------- MODULE PubSub -------------------------------
(***************************************************************************)
(* The node's event bus: sdks/go/node/pubsub/{pubSub,eventStore,utils}.go.  *)
(*                                                                         *)
(* Publish writes an event to the event store and then starts one           *)
(* goroutine per matching subscription to deliver it.  Each subscription    *)
(* has a goroutine of its own that registers itself, replays the store and  *)
(* then forwards live deliveries to its consumer until its context is       *)
(* cancelled.  Channels are unbuffered, so a send is also the receive.      *)
(*                                                                         *)
(* An event is published once, so a delivery goroutine is identified by the *)
(* pair of its subscription and its event.                                  *)
(***************************************************************************)
EXTENDS Integers

CONSTANTS
    Events,       \* the events that may be published
    Subs,         \* the calls of Subscribe
    Roots,        \* root call IDs; a nil filter.Roots is the set of all of them
    Root,         \* Root[e]: getEventRootCallID of event e
    Time,         \* Time[e]: the timestamp its publisher gave event e
    Filters,      \* the filter.Roots subscriptions may ask for
    Sinces,       \* the filter.Since subscriptions may ask for (nil is 0)
    Zone,         \* offset from UTC of the local time Since is given in
    StoreCanFail, \* whether a write to the event store may fail
    NoEvent       \* absence of an event

Times == {Time[e] : e \in Events}

ASSUME EventsAssumption ==
    /\ Root \in [Events -> Roots]
    /\ Time \in [Events -> Nat]
    /\ NoEvent \notin Events

ASSUME SubscriptionsAssumption ==
    /\ Filters \subseteq SUBSET Roots
    /\ Sinces \subseteq Nat
    /\ Zone \in Int
    /\ StoreCanFail \in BOOLEAN

VARIABLES
    stage,      \* how far Publish has got with each event
    store,      \* the event store: at most one event per timestamp key
    pc,         \* where each subscription's goroutine is
    filter,     \* filter.Roots of each subscription
    since,      \* filter.Since of each subscription
    cancelled,  \* subscriptions whose context is done
    listening,  \* subscriptions whose consumer still reads its channel
    toReplay,   \* stored events a subscription's List has yet to send
    inflight,   \* <<s, e>>: a blocked publishToSubscription goroutine
    holding,    \* the live event a subscription's select is about to send
    replayed,   \* events each consumer got from the store
    forwarded   \* events each consumer got live

publisherVars == <<stage, store>>
requestVars   == <<filter, since, cancelled, listening>>
gotVars       == <<replayed, forwarded>>
vars == <<publisherVars, pc, requestVars, toReplay, inflight, holding, gotVars>>

Stages == {"new", "added", "published"}
Points == {"idle", "spawned", "registered", "replaying", "live",
           "closing", "done", "closed"}

-----------------------------------------------------------------------------
(* Filtering *)

\* Whether a subscription's filter lets an event through.
Matches(s, e) == Root[e] \in filter[s]

\* Mutant: a subscription that goes into the map only after List.
RegisteredAfterList(s) == pc[s] \in {"live", "closing", "done"}

\* Subscriptions in the map: from their registration until they are deleted.
Registered(s) == pc[s] \in {"registered", "replaying", "live", "closing", "done"}

\* The key List seeks: Since as it is formatted, in its own time zone, while
\* the keys are in UTC and compared as text.  A nil Since is the zero time.
SeekKey(s) == IF since[s] = 0 THEN 0 ELSE since[s] + Zone

\* What List will visit for s: an iterator over a snapshot of the store, from
\* the key of Since on, skipping excluded roots.
Listed(s) == {e \in Events : /\ store[Time[e]] = e
                             /\ Time[e] >= SeekKey(s)
                             /\ Matches(s, e)}

\* Mutant: the keys do not sort by timestamp (RFC3339Nano drops trailing zeros).
IsNextUnsorted(s, e) == e \in toReplay[s]

\* The event the iterator is at: keys sort by timestamp.
IsNext(s, e) == /\ e \in toReplay[s]
                /\ \A f \in toReplay[s] : Time[e] <= Time[f]

Got(s) == replayed[s] \cup forwarded[s]

-----------------------------------------------------------------------------
Init ==
    /\ stage = [e \in Events |-> "new"]
    /\ store = [t \in Times |-> NoEvent]
    /\ pc = [s \in Subs |-> "idle"]
    /\ filter = [s \in Subs |-> {}]
    /\ since = [s \in Subs |-> 0]
    /\ cancelled = {}
    /\ listening = {}
    /\ toReplay = [s \in Subs |-> {}]
    /\ inflight = {}
    /\ holding = [s \in Subs |-> NoEvent]
    /\ replayed = [s \in Subs |-> {}]
    /\ forwarded = [s \in Subs |-> {}]

-----------------------------------------------------------------------------
(* Publish *)

\* eventStore.Add: the key is the timestamp alone, so an event of the same
\* instant is overwritten.  Publish ignores the error Add returns.
Add(e) ==
    /\ stage[e] = "new"
    /\ stage' = [stage EXCEPT ![e] = "added"]
    /\ \/ store' = [store EXCEPT ![Time[e]] = e]
       \/ StoreCanFail /\ UNCHANGED store
    /\ UNCHANGED <<pc, requestVars, toReplay, inflight, holding, gotVars>>

\* The rest of Publish: under the read lock, one goroutine for each registered
\* subscription whose filter does not exclude the event's root.
FanOut(e) ==
    /\ stage[e] = "added"
    /\ stage' = [stage EXCEPT ![e] = "published"]
    /\ inflight' = inflight \cup
                     {<<s, e>> : s \in {r \in Subs : Registered(r) /\ Matches(r, e)}}
    /\ UNCHANGED <<store, pc, requestVars, toReplay, holding, gotVars>>

\* Mutant: Done is looked up in the map, which no longer has it after the delete.
DropIfInMap(s, e) ==
    /\ <<s, e>> \in inflight
    /\ pc[s] = "done"
    /\ inflight' = inflight \ {<<s, e>>}
    /\ UNCHANGED <<publisherVars, pc, requestVars, toReplay, holding, gotVars>>

\* publishToSubscription gives up once the subscription's Done is closed.
Drop(s, e) ==
    /\ <<s, e>> \in inflight
    /\ pc[s] \in {"done", "closed"}
    /\ inflight' = inflight \ {<<s, e>>}
    /\ UNCHANGED <<publisherVars, pc, requestVars, toReplay, holding, gotVars>>

-----------------------------------------------------------------------------
(* Subscribe and its goroutine *)

\* Subscribe returns the channel at once; its goroutine runs later.
Subscribe(s) ==
    /\ pc[s] = "idle"
    /\ pc' = [pc EXCEPT ![s] = "spawned"]
    /\ \E R \in Filters, t \in Sinces :
          /\ filter' = [filter EXCEPT ![s] = R]
          /\ since' = [since EXCEPT ![s] = t]
    /\ listening' = listening \cup {s}
    /\ UNCHANGED <<publisherVars, cancelled, toReplay, inflight, holding, gotVars>>

Register(s) ==
    /\ pc[s] = "spawned"
    /\ pc' = [pc EXCEPT ![s] = "registered"]
    /\ UNCHANGED <<publisherVars, requestVars, toReplay, inflight, holding, gotVars>>

\* List opens its read transaction: what it iterates over is fixed here.
Snapshot(s) ==
    /\ pc[s] = "registered"
    /\ pc' = [pc EXCEPT ![s] = "replaying"]
    /\ toReplay' = [toReplay EXCEPT ![s] = Listed(s)]
    /\ UNCHANGED <<publisherVars, requestVars, inflight, holding, gotVars>>

\* List sends the next stored event, then looks at its context: once that is
\* done it stops with an error, which ends the subscription.
Replay(s) ==
    /\ pc[s] = "replaying"
    /\ s \in listening
    /\ \E e \in toReplay[s] :
          /\ IsNext(s, e)
          /\ replayed' = [replayed EXCEPT ![s] = @ \cup {e}]
          /\ toReplay' = [toReplay EXCEPT ![s] = @ \ {e}]
    /\ pc' = [pc EXCEPT ![s] = IF s \in cancelled THEN "closing" ELSE "replaying"]
    /\ UNCHANGED <<publisherVars, requestVars, inflight, holding, forwarded>>

\* List's select takes ctx.Done.
AbortReplay(s) ==
    /\ pc[s] = "replaying"
    /\ toReplay[s] # {}
    /\ s \in cancelled
    /\ pc' = [pc EXCEPT ![s] = "closing"]
    /\ UNCHANGED <<publisherVars, requestVars, toReplay, inflight, holding, gotVars>>

\* Mutant: the subscription ends with the replay.
EndReplayAndReturn(s) ==
    /\ pc[s] = "replaying"
    /\ toReplay[s] = {}
    /\ pc' = [pc EXCEPT ![s] = "closing"]
    /\ UNCHANGED <<publisherVars, requestVars, toReplay, inflight, holding, gotVars>>

\* List returns nil: no event left to visit.
EndReplay(s) ==
    /\ pc[s] = "replaying"
    /\ toReplay[s] = {}
    /\ pc' = [pc EXCEPT ![s] = "live"]
    /\ UNCHANGED <<publisherVars, requestVars, toReplay, inflight, holding, gotVars>>

\* range publishEventChannel receives from any one of the goroutines blocked
\* on it.  This receive does not look at the context.
Receive(s) ==
    /\ pc[s] = "live"
    /\ holding[s] = NoEvent
    /\ \E e \in Events :
          /\ <<s, e>> \in inflight
          /\ inflight' = inflight \ {<<s, e>>}
          /\ holding' = [holding EXCEPT ![s] = e]
    /\ UNCHANGED <<publisherVars, pc, requestVars, toReplay, gotVars>>

\* The inner select sends the event to the consumer ...
Forward(s) ==
    /\ pc[s] = "live"
    /\ holding[s] # NoEvent
    /\ s \in listening
    /\ forwarded' = [forwarded EXCEPT ![s] = @ \cup {holding[s]}]
    /\ holding' = [holding EXCEPT ![s] = NoEvent]
    /\ UNCHANGED <<publisherVars, pc, requestVars, toReplay, inflight, replayed>>

\* ... or finds the context done, even if the consumer is ready as well.
AbortForward(s) ==
    /\ pc[s] = "live"
    /\ holding[s] # NoEvent
    /\ s \in cancelled
    /\ holding' = [holding EXCEPT ![s] = NoEvent]
    /\ pc' = [pc EXCEPT ![s] = "closing"]
    /\ UNCHANGED <<publisherVars, requestVars, toReplay, inflight, gotVars>>

\* closeSubscription, first half: close Done under the read lock.
CloseDone(s) ==
    /\ pc[s] = "closing"
    /\ pc' = [pc EXCEPT ![s] = "done"]
    /\ UNCHANGED <<publisherVars, requestVars, toReplay, inflight, holding, gotVars>>

\* closeSubscription, second half, and close(dstEventChannel).
Unregister(s) ==
    /\ pc[s] = "done"
    /\ pc' = [pc EXCEPT ![s] = "closed"]
    /\ UNCHANGED <<publisherVars, requestVars, toReplay, inflight, holding, gotVars>>

-----------------------------------------------------------------------------
(* The subscriber *)

Cancel(s) ==
    /\ pc[s] # "idle"
    /\ s \notin cancelled
    /\ cancelled' = cancelled \cup {s}
    /\ UNCHANGED <<publisherVars, pc, filter, since, listening, toReplay,
                   inflight, holding, gotVars>>

\* A consumer that has what it wanted breaks out of its loop, as the callers
\* do, and never reads the channel again; its context may end much later.
Abandon(s) ==
    /\ s \in listening
    /\ listening' = listening \ {s}
    /\ UNCHANGED <<publisherVars, pc, filter, since, cancelled, toReplay,
                   inflight, holding, gotVars>>

-----------------------------------------------------------------------------
\* One step of the goroutine Subscribe starts.
SubscriptionStep(s) ==
    \/ Register(s) \/ Snapshot(s)
    \/ Replay(s) \/ AbortReplay(s) \/ EndReplay(s)
    \/ Receive(s) \/ Forward(s) \/ AbortForward(s)
    \/ CloseDone(s) \/ Unregister(s)

Next ==
    \/ \E e \in Events : Add(e) \/ FanOut(e)
    \/ \E s \in Subs, e \in Events : Drop(s, e)
    \/ \E s \in Subs : Subscribe(s) \/ SubscriptionStep(s) \/ Cancel(s) \/ Abandon(s)

Spec == Init /\ [][Next]_vars

\* The Go scheduler runs every runnable goroutine: the publisher that has
\* written an event, each subscription and each delivery.  Whether anybody
\* publishes, subscribes, cancels or stops reading is up to the callers.
Fairness ==
    /\ \A e \in Events : WF_vars(FanOut(e))
    /\ \A s \in Subs : WF_vars(SubscriptionStep(s))
    /\ \A s \in Subs, e \in Events : WF_vars(Drop(s, e))

FairSpec == Spec /\ Fairness

-----------------------------------------------------------------------------
(* Properties *)

TypeOK ==
    /\ stage \in [Events -> Stages]
    /\ store \in [Times -> Events \cup {NoEvent}]
    /\ pc \in [Subs -> Points]
    /\ filter \in [Subs -> SUBSET Roots]
    /\ since \in [Subs -> Nat]
    /\ cancelled \subseteq Subs
    /\ listening \subseteq Subs
    /\ toReplay \in [Subs -> SUBSET Events]
    /\ inflight \subseteq Subs \X Events
    /\ holding \in [Subs -> Events \cup {NoEvent}]
    /\ replayed \in [Subs -> SUBSET Events]
    /\ forwarded \in [Subs -> SUBSET Events]

\* The event is still what the store holds for its timestamp.
Kept(e) == store[Time[e]] = e

\* No lost event.  Whatever the interleaving of Publish with Subscribe, an
\* event that was published, that the store kept and that the subscription
\* asked for is never missed: until the subscription closes, it is still to be
\* replayed, still in flight, or already with the consumer.  (Registration
\* before List, and Add before the fan-out, are what makes this true: pubSub.go
\* 82-87 and 121-126.)
Accounted(s, e) ==
    \/ pc[s] = "registered"
    \/ e \in toReplay[s]
    \/ <<s, e>> \in inflight
    \/ holding[s] = e
    \/ e \in Got(s)

NoLostEvent ==
    \A s \in Subs, e \in Events :
        (/\ pc[s] \in {"registered", "replaying", "live"}
         /\ stage[e] = "published"
         /\ Kept(e)
         /\ Matches(s, e)
         /\ Time[e] >= SeekKey(s)) => Accounted(s, e)

\* A consumer never sees an event its filter excludes, nor one nobody
\* published, and what it replays is not older than Since.
OnlyWhatWasAsked ==
    \A s \in Subs :
        /\ \A e \in Got(s) : Matches(s, e) /\ stage[e] # "new"
        /\ \A e \in replayed[s] : Time[e] >= SeekKey(s)

\* Replay follows the timestamps: each replayed event is strictly younger than
\* all those replayed before it (so none is replayed twice).
ReplayInOrder ==
    [][\A s \in Subs : \A e \in replayed'[s] \ replayed[s] :
          e \notin replayed[s] /\ \A f \in replayed[s] : Time[f] < Time[e]]_vars

\* What makes the last three hold from step to step: the store, the iterators
\* and the deliveries hold only what they should, a subscription that has not
\* begun has nothing, and what an iterator has left is younger than what it has
\* sent and has distinct timestamps.
StoredWasAdded == \A e \in Events : Kept(e) => stage[e] # "new"

OnItsWay(s, e) == <<s, e>> \in inflight \/ holding[s] = e

OnlyAskedOnItsWay ==
    \A s \in Subs, e \in Events :
        /\ e \in toReplay[s] \cup replayed[s] => Time[e] >= SeekKey(s)
        /\ (OnItsWay(s, e) \/ e \in toReplay[s] \cup Got(s)) =>
              Matches(s, e) /\ stage[e] # "new"

NothingBefore ==
    \A s \in Subs, e \in Events :
        /\ pc[s] \in {"idle", "spawned"} => <<s, e>> \notin inflight
        /\ pc[s] \in {"idle", "spawned", "registered"} =>
              holding[s] # e /\ e \notin toReplay[s] \cup Got(s)

IteratorSorted ==
    \A s \in Subs : \A e \in toReplay[s] :
        /\ \A f \in toReplay[s] : Time[f] = Time[e] => f = e
        /\ \A f \in replayed[s] : Time[f] < Time[e]

Inv == /\ TypeOK
       /\ NoLostEvent
       /\ StoredWasAdded
       /\ OnlyAskedOnItsWay
       /\ NothingBefore
       /\ IteratorSorted

\* Every event a subscription asked for reaches its consumer, unless the
\* consumer cancels or stops reading.
EventuallyDelivered ==
    \A s \in Subs, e \in Events :
        (/\ Registered(s)
         /\ stage[e] = "published"
         /\ Kept(e)
         /\ Matches(s, e)
         /\ Time[e] >= SeekKey(s))
        ~> (e \in Got(s) \/ s \in cancelled \/ s \notin listening \/ ~Kept(e))

\* Cancelling frees whoever waits on the subscription: delivery goroutines
\* blocked on it all end, even if nobody reads its channel any more.
DeliveriesEndOnCancel ==
    \A s \in Subs, e \in Events :
        (s \in cancelled /\ <<s, e>> \in inflight) ~> (<<s, e>> \notin inflight)

-----------------------------------------------------------------------------
(* What the bus promises: EventDelivery *)

\* An event counts as published once its write to the store is over, and as kept
\* while the store has it; a subscriber is
\* attached from its registration until its goroutine gives up.
Attached == {s \in Subs : pc[s] \in {"registered", "replaying", "live"}}

Detached == {s \in Subs : pc[s] \in {"closing", "done", "closed"}}

Log == {e \in Events : stage[e] # "new"}

KeptEvents == {e \in Events : Kept(e)}

Wants(s) == {e \in Events : pc[s] # "idle" /\ Matches(s, e)}

\* Still to come: what the store will replay, what Publish has yet to fan out
\* and what is on its way.
ToCome(s, e) ==
    \/ stage[e] = "added"
    \/ pc[s] = "registered" /\ e \in Listed(s)
    \/ e \in toReplay[s]
    \/ OnItsWay(s, e)

Owed(s) == {e \in Wants(s) \ Got(s) : s \in Attached /\ ToCome(s, e)}

WantsOf == [s \in Subs |-> Wants(s)]
PastOf == [s \in Subs |-> {e \in Wants(s) : Time[e] >= since[s]}]
OwedTo == [s \in Subs |-> Owed(s)]
GotBy == [s \in Subs |-> Got(s)]

Delivery == INSTANCE EventDelivery WITH
    log <- Log, kept <- KeptEvents, wants <- WantsOf, past <- PastOf,
    attached <- Attached, detached <- Detached, owed <- OwedTo, got <- GotBy

\* With distinct timestamps and no Since in a zone east of UTC the bus keeps the
\* promise, even if writes to the store fail: every step of the goroutines is a
\* step of EventDelivery or none.
ImplementsDelivery == Delivery!Spec
=============================================================================
