--------------------------- MODULE EventDelivery ---------------------------
(***************************************************************************)
(* What the event bus promises, without saying how: a subscriber that       *)
(* attaches is owed everything of interest that was published before and    *)
(* kept, and everything of interest published from then on, kept or not,    *)
(* each at least once, until it is detached.                                *)
(***************************************************************************)
CONSTANTS Events, Subs

VARIABLES
    log,       \* the events published so far
    kept,      \* those of them that later subscribers can still be given
    wants,     \* the events each subscriber is interested in
    past,      \* of those, the ones it wants even if published earlier
    attached,  \* the subscribers to deliver to
    detached,  \* the subscribers that were attached and are no longer
    owed,      \* the events each attached subscriber is still to receive
    got        \* the events each subscriber has received

vars == <<log, kept, wants, past, attached, detached, owed, got>>

Init ==
    /\ log = {}
    /\ kept = {}
    /\ wants = [s \in Subs |-> {}]
    /\ past = [s \in Subs |-> {}]
    /\ attached = {}
    /\ detached = {}
    /\ owed = [s \in Subs |-> {}]
    /\ got = [s \in Subs |-> {}]

Ask(s) ==
    /\ s \notin attached \cup detached
    /\ \E W \in SUBSET Events : \E P \in SUBSET W :
          /\ wants' = [wants EXCEPT ![s] = W]
          /\ past' = [past EXCEPT ![s] = P]
    /\ UNCHANGED <<log, kept, attached, detached, owed, got>>

\* From here on no event of interest passes the subscriber by.  Older events
\* it did not insist on may come too.
Attach(s) ==
    /\ s \notin attached \cup detached
    /\ attached' = attached \cup {s}
    /\ \E D \in SUBSET (wants[s] \cap log) :
          /\ past[s] \cap kept \subseteq D
          /\ owed' = [owed EXCEPT ![s] = D]
    /\ UNCHANGED <<log, kept, wants, past, detached, got>>

Publish(e) ==
    /\ e \notin log
    /\ log' = log \cup {e}
    /\ kept' \in {kept, kept \cup {e}}
    /\ owed' = [s \in Subs |-> IF s \in attached /\ e \in wants[s]
                               THEN owed[s] \cup {e} ELSE owed[s]]
    /\ UNCHANGED <<wants, past, attached, detached, got>>

Deliver(s, e) ==
    /\ s \in attached
    /\ e \in owed[s]
    /\ owed' = [owed EXCEPT ![s] = @ \ {e}]
    /\ got' = [got EXCEPT ![s] = @ \cup {e}]
    /\ UNCHANGED <<log, kept, wants, past, attached, detached>>

\* A subscriber may receive one last event as it is detached.
Detach(s) ==
    /\ s \in attached
    /\ attached' = attached \ {s}
    /\ detached' = detached \cup {s}
    /\ owed' = [owed EXCEPT ![s] = {}]
    /\ \/ got' = got
       \/ \E e \in owed[s] : got' = [got EXCEPT ![s] = @ \cup {e}]
    /\ UNCHANGED <<log, kept, wants, past>>

Next ==
    \/ \E s \in Subs : Ask(s) \/ Attach(s) \/ Detach(s)
    \/ \E e \in Events : Publish(e)
    \/ \E s \in Subs, e \in Events : Deliver(s, e)

Spec == Init /\ [][Next]_vars
=============================================================================
