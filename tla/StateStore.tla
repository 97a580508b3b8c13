----------------------------- MODULE StateStore -----------------------------
(***************************************************************************)
(* The node's state store (stateStore.go) and the two requests that change  *)
(* stored auths (addAuth.go, removeAuth.go).                                *)
(*                                                                         *)
(* The store materialises the events of the bus: auths in badger, which     *)
(* outlives the node, calls in memory, which do not.  It records the second *)
(* of the event it applied last, and a node that starts again resumes a     *)
(* little before that second.  The node may crash at any time.              *)
(*                                                                         *)
(* The bus is what module PubSub promises: a subscription replays the       *)
(* stored events since a time in the order of their timestamps, then gets   *)
(* live ones in any order; an event published between its registration and  *)
(* its snapshot comes twice.  Events have distinct timestamps here.         *)
(***************************************************************************)
EXTENDS Integers

CONSTANTS
    Events,     \* the events that may be published
    Kind,       \* "authAdded", "authRemoved", "callStarted", "callFailed", "callEnded"
    Subject,    \* Subject[e]: the (lower-cased) resources or the call it is about
    Subjects,
    Prefixes,   \* Prefixes[s]: the resources that s begins with, s included
    Length,     \* how long resources are; blank ones are of length 0
    Time,       \* Time[e]: its timestamp
    Second,     \* how many units of Time are in a second
    Zone,       \* offset from UTC of the node's local time
    MaxLag,     \* by how much deliveries may overtake each other
    MaxCrashes, \* bound on the number of crashes
    None        \* no event, no timestamp

AuthKinds == {"authAdded", "authRemoved"}

ASSUME EventsAssumption ==
    /\ Kind \in [Events -> AuthKinds \cup {"callStarted", "callFailed", "callEnded"}]
    /\ Subject \in [Events -> Subjects]
    /\ Time \in [Events -> Nat]
    /\ \A e, f \in Events : Time[e] = Time[f] => e = f
    /\ None \notin Events /\ None \notin Int
ASSUME PrefixesAssumption ==
    /\ Prefixes \in [Subjects -> SUBSET Subjects]
    /\ Length \in [Subjects -> Nat]
    /\ \A s \in Subjects : /\ s \in Prefixes[s]
                            /\ \A p, q \in Prefixes[s] :
                                  /\ Length[p] <= Length[s]
                                  /\ Length[p] = Length[q] => p = q
ASSUME SecondAssumption == Second \in Nat \ {0}
ASSUME LagAssumption == Zone \in Int /\ MaxLag \in Nat /\ MaxCrashes \in Nat

VARIABLES
    published, \* the event store
    auths,     \* badger: the AuthAdded event stored for each resources
    last,      \* badger: lastAppliedEventTimestamp in seconds
    calls,     \* callsByID: "unknown", "known" or "killed" (isKilled)
    phase,     \* of the node and of the store's subscription
    since,     \* filter.Since of that subscription
    replay,    \* stored events it has yet to replay
    live,      \* events delivered to it and not yet received
    current,   \* the event applied whose timestamp is not yet recorded
    client,    \* the AddAuth event whose request waits for its entry
    lag,       \* how far deliveries overtake each other in this behaviour
    applied,   \* history: the events ever applied
    doubled,   \* history: the events delivered twice
    crashes

badger == <<published, auths, last>>
bus    == <<since, replay, live>>
vars == <<badger, calls, phase, bus, current, client, lag, applied, doubled, crashes>>

Phases == {"down", "booting", "registered", "replaying", "live"}
Up == phase # "down"

\* Mutants: only one of the two seconds is taken off, or none.
SinceOneSecond(l) == IF l = None THEN 0 ELSE (l - 1) * Second + Zone
SinceLast(l) == IF l = None THEN 0 ELSE l * Second + Zone

\* getLastAppliedEventTimestamp takes a second off, newStateStore one more; an
\* error (no timestamp yet) leaves the zero time.  time.Unix gives local time,
\* and the bus seeks its text among keys in UTC (see SeekKey of PubSub).
SinceOf(l) == IF l = None THEN 0 ELSE (l - 2) * Second + Zone

\* How late deliveries are: when an event is applied, nothing more than lag
\* older still waits to be.  The code guarantees no such bound (each delivery is a
\* goroutine of its own): it is what the properties depend on.
InTime(e, waiting) == \A f \in waiting : Time[e] - Time[f] <= lag

-----------------------------------------------------------------------------
Init ==
    /\ published = {}
    /\ auths = [s \in Subjects |-> None]
    /\ last = None
    /\ calls = [s \in Subjects |-> "unknown"]
    /\ phase = "down"
    /\ since = 0
    /\ replay = {}
    /\ live = {}
    /\ current = None
    /\ client = None
    /\ lag \in {0, MaxLag}
    /\ applied = {}
    /\ doubled = {}
    /\ crashes = 0

-----------------------------------------------------------------------------
(* newStateStore *)

\* newStateStore: the goroutine reads where it left off and subscribes.
Boot ==
    /\ phase = "down"
    /\ phase' = "booting"
    /\ since' = SinceOf(last)
    /\ UNCHANGED <<badger, calls, replay, live, current, client, lag, applied, doubled, crashes>>

Register ==
    /\ phase = "booting"
    /\ phase' = "registered"
    /\ UNCHANGED <<badger, calls, bus, current, client, lag,
                   applied, doubled, crashes>>

Snapshot ==
    /\ phase = "registered"
    /\ phase' = "replaying"
    /\ replay' = {e \in published : Time[e] >= since}
    /\ UNCHANGED <<badger, calls, since, live, current, client, lag,
                   applied, doubled, crashes>>

EndReplay ==
    /\ phase = "replaying"
    /\ replay = {}
    /\ current = None
    /\ phase' = "live"
    /\ UNCHANGED <<badger, calls, bus, current, client, lag,
                   applied, doubled, crashes>>

\* The loop's switch: applyAuthAdded, applyAuthRemoved, applyCallEnded (which
\* only marks calls that failed) and applyCallStarted.
Apply(e) ==
    /\ auths' = CASE Kind[e] = "authAdded"   -> [auths EXCEPT ![Subject[e]] = e]
                  [] Kind[e] = "authRemoved" -> [auths EXCEPT ![Subject[e]] = None]
                  [] OTHER -> auths
    /\ calls' = CASE Kind[e] = "callStarted" -> [calls EXCEPT ![Subject[e]] = "known"]
                  [] Kind[e] = "callFailed"  -> [calls EXCEPT ![Subject[e]] =
                                                   IF @ = "unknown" THEN @ ELSE "killed"]
                  [] OTHER -> calls
    /\ applied' = applied \cup {e}
    /\ current' = e

\* Mutant: the replay does not follow the timestamps.
ApplyReplayedUnsorted(e) ==
    /\ phase = "replaying"
    /\ current = None
    /\ e \in replay
    /\ InTime(e, published \ applied)
    /\ Apply(e)
    /\ replay' = replay \ {e}
    /\ UNCHANGED <<published, last, phase, since, live, client, lag,
                   doubled, crashes>>

ApplyReplayed(e) ==
    /\ phase = "replaying"
    /\ current = None
    /\ e \in replay
    /\ \A f \in replay : Time[e] <= Time[f]
    /\ InTime(e, published \ applied)
    /\ Apply(e)
    /\ replay' = replay \ {e}
    /\ UNCHANGED <<published, last, phase, since, live, client, lag,
                   doubled, crashes>>

ApplyLive(e) ==
    /\ phase = "live"
    /\ current = None
    /\ e \in live
    /\ InTime(e, (published \ applied) \cup live)
    /\ Apply(e)
    /\ live' = live \ {e}
    /\ UNCHANGED <<published, last, phase, since, replay, client, lag, doubled, crashes>>

\* updateLastAppliedEventTimestamp: a transaction of its own, and the event's
\* timestamp whatever was recorded before.
RecordTimestamp ==
    /\ current # None
    /\ last' = Time[current] \div Second
    /\ current' = None
    /\ UNCHANGED <<published, auths, calls, phase, bus, client, lag,
                   applied, doubled, crashes>>

-----------------------------------------------------------------------------
(* Publishers *)

\* Events are published in the order of their timestamps.  Nothing makes the
\* first ones wait for the store's goroutine to have subscribed.
Publish(e) ==
    /\ Up
    /\ e \notin published
    /\ \A f \in published : Time[f] < Time[e]
    /\ published' = published \cup {e}
    /\ live' = IF phase = "booting" THEN live ELSE live \cup {e}
    /\ doubled' = IF phase = "registered" THEN doubled \cup {e} ELSE doubled

\* A call starts or ends.
PublishCall(e) ==
    /\ Kind[e] \notin AuthKinds
    /\ Publish(e)
    /\ UNCHANGED <<auths, last, calls, phase, since, replay, current, client,
                   lag, applied, crashes>>

\* One client, one request at a time.  AddAuth publishes and then polls ...
AddAuth(e) ==
    /\ client = None
    /\ Kind[e] = "authAdded"
    /\ Publish(e)
    /\ client' = e
    /\ UNCHANGED <<auths, last, calls, phase, since, replay, current,
                   lag, applied, crashes>>

\* Mutant: the first of the entries in the order of the keys.
TryGetFirst(ref) ==
    LET found == {p \in Prefixes[ref] : Length[p] > 0 /\ auths[p] # None} IN
    IF found = {} THEN None
    ELSE auths[CHOOSE p \in found : \A q \in found : Length[p] <= Length[q]]

\* Mutant: blank resources are a prefix of everything.
TryGetEvenBlank(ref) ==
    LET found == {p \in Prefixes[ref] : auths[p] # None} IN
    IF found = {} THEN None
    ELSE auths[CHOOSE p \in found : \A q \in found : Length[p] >= Length[q]]

\* The entry for the longest resources the reference begins with, blank ones left
\* out.
TryGetAuth(ref) ==
    LET found == {p \in Prefixes[ref] : Length[p] > 0 /\ auths[p] # None} IN
    IF found = {} THEN None
    ELSE auths[CHOOSE p \in found : \A q \in found : Length[p] >= Length[q]]

\* ... until TryGetAuth finds an entry for just these resources.
AddAuthReturns ==
    /\ client # None
    /\ TryGetAuth(Subject[client]) # None
    /\ Subject[TryGetAuth(Subject[client])] = Subject[client]
    /\ client' = None
    /\ UNCHANGED <<badger, calls, phase, bus, current, lag, applied, doubled, crashes>>

\* After five seconds it gives up.
AddAuthTimesOut ==
    /\ client # None
    /\ client' = None
    /\ UNCHANGED <<badger, calls, phase, bus, current, lag, applied,
                   doubled, crashes>>

\* RemoveAuth publishes and returns.
RemoveAuth(e) ==
    /\ client = None
    /\ Kind[e] = "authRemoved"
    /\ Publish(e)
    /\ UNCHANGED <<auths, last, calls, phase, since, replay, current, client,
                   lag, applied, crashes>>

-----------------------------------------------------------------------------
\* The node dies: what was in memory, deliveries included, is gone.
Crash ==
    /\ Up
    /\ crashes < MaxCrashes
    /\ crashes' = crashes + 1
    /\ phase' = "down"
    /\ calls' = [s \in Subjects |-> "unknown"]
    /\ replay' = {}
    /\ live' = {}
    /\ current' = None
    /\ client' = None
    /\ UNCHANGED <<badger, since, lag, applied, doubled>>

ApplyStep == RecordTimestamp \/ EndReplay \/ \E e \in Events : ApplyReplayed(e) \/ ApplyLive(e)

Next ==
    \/ Boot \/ Register \/ Snapshot \/ ApplyStep
    \/ \E e \in Events : PublishCall(e) \/ AddAuth(e) \/ RemoveAuth(e)
    \/ AddAuthReturns \/ AddAuthTimesOut
    \/ Crash

Spec == Init /\ [][Next]_vars

\* The goroutine runs, and a node that went down is started again.
FairSpec == Spec /\ WF_vars(Boot \/ Register \/ Snapshot) /\ WF_vars(ApplyStep)

-----------------------------------------------------------------------------
(* Properties *)

TypeOK ==
    /\ published \subseteq Events
    /\ auths \in [Subjects -> Events \cup {None}]
    /\ last \in Nat \cup {None}
    /\ calls \in [Subjects -> {"unknown", "known", "killed"}]
    /\ phase \in Phases
    /\ since \in Int
    /\ replay \subseteq published
    /\ live \subseteq published
    /\ current \in published \cup {None}
    /\ client \in published \cup {None}
    /\ lag \in {0, MaxLag}
    /\ applied \subseteq published
    /\ doubled \subseteq Events
    /\ crashes \in Nat

\* Were the node to crash now, every event not applied yet would be replayed
\* when it starts again: "replay from second before last applied event to
\* ensure we see events at least once" (stateStore.go:56).
NothingSkipped ==
    \A e \in published \ applied : Time[e] >= SinceOf(last)

\* Why it holds: the recorded second is that of a published event, so what is
\* published later is not older; and what the event being recorded overtook is
\* at most lag older than it.
RecordedSecond ==
    last # None => \E c \in published : last = Time[c] \div Second

CurrentInTime ==
    current # None => \A e \in published \ applied : Time[current] - Time[e] <= lag

Inv == TypeOK /\ NothingSkipped /\ RecordedSecond /\ CurrentInTime

Settled == phase = "live" /\ live = {} /\ current = None

\* If deliveries come in order, then once the store has caught up a reference
\* gets the creds of the longest resources it begins with whose latest request
\* added them, and none of others: a crash, and the second or two replayed again
\* after it, leave no trace, nor do deliveries that come twice.  (Both together
\* do: a crash between the two deliveries of an older request leaves its effect
\* in badger, and what undoes it, recorded already, may lie before the replay.)
Latest(e, s) == /\ e \in published
                /\ Kind[e] \in AuthKinds
                /\ Subject[e] = s
                /\ \A f \in published :
                     (Kind[f] \in AuthKinds /\ Subject[f] = s) => Time[f] <= Time[e]

Granted(p) == \E e \in Events : Latest(e, p) /\ Kind[e] = "authAdded"

LatestRequestWins ==
    (Settled /\ lag = 0 /\ (crashes > 0 => doubled = {})) => \A ref \in Subjects :
        LET granted == {p \in Prefixes[ref] : Length[p] > 0 /\ Granted(p)} IN
        IF granted = {} THEN TryGetAuth(ref) = None
        ELSE \E p \in granted : /\ Latest(TryGetAuth(ref), p)
                                /\ \A q \in granted : Length[q] <= Length[p]

\* "Wait until the specific entry is actually readable" (addAuth.go:29): once the
\* event of a waiting AddAuth is applied, TryGetAuth finds it, however many broader
\* or narrower entries there are, so that it need not time out; but blank
\* resources are never found.
AddedIsFound ==
    (client \in applied /\ lag = 0 /\ doubled = {} /\ Length[Subject[client]] > 0)
        => TryGetAuth(Subject[client]) = client

\* Every request is applied in the end, whatever the crashes.
EventuallyApplied == \A e \in Events : (e \in published) ~> (e \in applied)
=============================================================================
