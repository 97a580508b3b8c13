------------------------------ MODULE GitCache ------------------------------
(***************************************************************************)
(* The git data provider (sdks/go/data/git): the copy of one version of one *)
(* repo that a node keeps below its data dir, and the resolves that use it. *)
(*                                                                         *)
(* A version is named by a tag, and a tag may be moved: each resolve asks   *)
(* the remote what the tag points at and clones again when that is not what *)
(* the marker file beside the copy records.  Resolves of one repo share a   *)
(* flight (singleflight.Group): the first one leads it, and whoever comes   *)
(* while it lasts waits for its result.  The node can be killed between any *)
(* two steps; the files stay as they are.                                   *)
(***************************************************************************)
EXTENDS Integers, FiniteSets

CONSTANTS
    Callers,      \* whoever calls TryResolve, one call at a time each
    Credentials,  \* what a call may pass as pullCreds, none included
    NoCreds,      \* none
    Accepted,     \* the ones the remote accepts
    NoOne,        \* the leader of no flight
    MaxVersion,   \* bound: the commits the tag is moved along
    MaxCrashes    \* bound: how often the node is killed

ASSUME CacheAssumption ==
    /\ NoOne \notin Callers
    /\ NoCreds \in Credentials
    /\ Accepted \subseteq Credentials
    /\ MaxVersion \in Nat \ {0}
    /\ MaxCrashes \in Nat

\* What a directory or file holds: a commit, nothing, or a part of something.
Commits == 1..MaxVersion
Absent == 0
Torn == -1
Contents == Commits \cup {Absent, Torn}

Results == {"none", "ok", "auth", "failed", "lost"}

VARIABLES
    tag,       \* the commit the tag points at on the remote
    repo,      \* the cached copy
    tmp,       \* the flight's clone, Absent when there is no flight
    marker,    \* the hash in the marker file
    flight,    \* the caller that leads the flight
    hash,      \* remoteHash of the flight, Absent while or if it has none
    at,        \* where each call is
    creds,     \* its pullCreds
    result,    \* what it returned
    gone,      \* callers whose context is done
    torn,      \* a replacement of the copy was cut short and not made good
    crashes

files == <<repo, tmp, marker>>
calls == <<at, creds, result>>
cacheVars == <<tag, files, flight, hash, calls, gone, torn, crashes>>

InFlight == {c \in Callers : at[c] \notin {"idle", "done"}}
Replacing(c) == at[c] \in {"removing", "removed"}

CacheInit ==
    /\ tag = 1
    /\ repo = Absent /\ tmp = Absent /\ marker = Absent
    /\ flight = NoOne
    /\ hash = Absent
    /\ at = [c \in Callers |-> "idle"]
    /\ creds = [c \in Callers |-> NoCreds]
    /\ result = [c \in Callers |-> "none"]
    /\ gone = {}
    /\ torn = FALSE
    /\ crashes = 0

-----------------------------------------------------------------------------
(* A call: lead a flight or share the one there is *)

GoTo(c, step) == at' = [at EXCEPT ![c] = step]

TryResolve(c, pullCreds) ==
    /\ at[c] = "idle"
    /\ creds' = [creds EXCEPT ![c] = pullCreds]
    /\ \/ /\ flight = NoOne
          /\ flight' = c
          /\ hash' = Absent
          /\ GoTo(c, "listing")
       \/ /\ flight # NoOne
          /\ GoTo(c, "waiting")
          /\ UNCHANGED <<flight, hash>>
    /\ UNCHANGED <<tag, files, result, gone, torn, crashes>>

\* The caller has the call's result.
TakeResult(c) ==
    /\ at[c] = "done"
    /\ GoTo(c, "idle")
    /\ creds' = [creds EXCEPT ![c] = NoCreds]
    /\ result' = [result EXCEPT ![c] = "none"]
    /\ UNCHANGED <<tag, files, flight, hash, gone, torn, crashes>>

\* The flight's result is the result of every call that shares it.  (A clone it
\* leaves behind the next flight removes before anything looks at it.)
Finish(r) ==
    /\ flight' = NoOne
    /\ hash' = Absent
    /\ tmp' = Absent
    /\ at' = [c \in Callers |-> IF c \in InFlight THEN "done" ELSE at[c]]
    /\ result' = [c \in Callers |-> IF c \in InFlight THEN r ELSE result[c]]
    /\ gone' = {}

\* resolveRemoteHash answers, which takes a live context and accepted creds.
ListRemote(c) ==
    /\ at[c] = "listing"
    /\ c \notin gone
    /\ \/ creds[c] \notin Accepted /\ Finish("auth")
       \/ /\ creds[c] \in Accepted
          /\ hash' = tag
          /\ GoTo(c, "listed")
          /\ UNCHANGED <<tmp, flight, result, gone>>
    /\ UNCHANGED <<tag, repo, marker, creds, torn, crashes>>

\* It fails in any other way: no network, no such tag, the context is done.
ListRemoteFails(c) ==
    /\ at[c] = "listing"
    /\ GoTo(c, "listed")
    /\ UNCHANGED <<tag, files, flight, hash, creds, result, gone, torn, crashes>>

-----------------------------------------------------------------------------
(* Cloning *)

\* Mutant: the copy is taken for current whenever there is a marker.
AnyMarker == marker # Absent

\* The marker has the remote's hash, or there is no hash to compare it with.
UpToDate == marker # Absent /\ hash \in {marker, Absent}

UseCache(c) ==
    /\ at[c] = "listed"
    /\ UpToDate
    /\ Finish("ok")
    /\ UNCHANGED <<tag, repo, marker, creds, torn, crashes>>

\* Mutant: clone to where the copy is.
StartCloneInPlace(c) ==
    /\ at[c] = "listed"
    /\ ~UpToDate
    /\ tmp' = Torn
    /\ repo' = Absent
    /\ GoTo(c, "cloning")
    /\ UNCHANGED <<tag, marker, flight, hash, creds, result, gone, torn, crashes>>

StartClone(c) ==
    /\ at[c] = "listed"
    /\ ~UpToDate
    /\ tmp' = Torn
    /\ GoTo(c, "cloning")
    /\ UNCHANGED <<tag, repo, marker, flight, hash, creds, result, gone, torn, crashes>>

\* The clone is of what the tag points at by now.
Clone(c) ==
    /\ at[c] = "cloning"
    /\ c \notin gone
    /\ creds[c] \in Accepted
    /\ tmp' = tag
    /\ GoTo(c, "cloned")
    /\ UNCHANGED <<tag, repo, marker, flight, hash, creds, result, gone, torn, crashes>>

CloneFails(c) ==
    /\ at[c] = "cloning"
    /\ \/ Finish("failed")
       \/ c \notin gone /\ creds[c] \notin Accepted /\ Finish("auth")
    /\ UNCHANGED <<tag, repo, marker, creds, torn, crashes>>

-----------------------------------------------------------------------------
(* Replacing the copy *)

StartRemove(c) ==
    /\ at[c] = "cloned"
    /\ repo' = IF repo = Absent THEN Absent ELSE Torn
    /\ GoTo(c, "removing")
    /\ UNCHANGED <<tag, tmp, marker, flight, hash, creds, result, gone, torn, crashes>>

\* What RemoveAll returns is not looked at; Rename finds out.
Remove(c) ==
    /\ at[c] = "removing"
    /\ \/ /\ repo' = Absent
          /\ GoTo(c, "removed")
          /\ UNCHANGED <<tmp, flight, hash, result, gone, torn>>
       \/ /\ repo = Torn
          /\ torn' = TRUE
          /\ Finish("failed")
          /\ UNCHANGED repo
    /\ UNCHANGED <<tag, marker, creds, crashes>>

\* Without a hash no marker is written.
Rename(c) ==
    /\ at[c] = "removed"
    /\ repo' = tmp
    /\ torn' = FALSE
    /\ \/ hash = Absent /\ Finish("ok")
       \/ /\ hash # Absent
          /\ tmp' = Absent
          /\ GoTo(c, "renamed")
          /\ UNCHANGED <<flight, hash, result, gone>>
    /\ UNCHANGED <<tag, marker, creds, crashes>>

\* WriteFile truncates, then writes, and may fail after either.
TruncateMarker(c) ==
    /\ at[c] = "renamed"
    /\ marker' = Torn
    /\ GoTo(c, "marking")
    /\ UNCHANGED <<tag, repo, tmp, flight, hash, creds, result, gone, torn, crashes>>

WriteMarker(c) ==
    /\ at[c] = "marking"
    /\ \/ marker' = hash /\ Finish("ok")
       \/ Finish("failed") /\ UNCHANGED marker
    /\ UNCHANGED <<tag, repo, creds, torn, crashes>>

-----------------------------------------------------------------------------
(* What goes on outside *)

\* Bound: tags move forward only, to commits they never pointed at before.
MoveTag ==
    /\ tag < MaxVersion
    /\ tag' = tag + 1
    /\ UNCHANGED <<files, flight, hash, calls, gone, torn, crashes>>

\* The caller of a call gives up; the leader of a flight finds out when it uses
\* its context the next time, and those that wait for it do not look at theirs.
GiveUp(c) ==
    /\ at[c] \in {"listing", "listed", "cloning"}
    /\ c \notin gone
    /\ gone' = gone \cup {c}
    /\ UNCHANGED <<tag, files, flight, hash, calls, torn, crashes>>

\* The node is killed and started again.
Crash ==
    /\ crashes < MaxCrashes
    /\ crashes' = crashes + 1
    /\ torn' = (torn \/ \E c \in Callers : Replacing(c))
    /\ Finish("lost")
    /\ UNCHANGED <<tag, repo, marker, creds>>

FlightStep(c) ==
    \/ ListRemote(c) \/ ListRemoteFails(c)
    \/ UseCache(c) \/ StartClone(c) \/ Clone(c) \/ CloneFails(c)
    \/ StartRemove(c) \/ Remove(c) \/ Rename(c)
    \/ TruncateMarker(c) \/ WriteMarker(c)

CacheNext ==
    \/ \E c \in Callers : \/ \E pullCreds \in Credentials : TryResolve(c, pullCreds)
                          \/ TakeResult(c)
                          \/ FlightStep(c)
                          \/ GiveUp(c)
    \/ MoveTag
    \/ Crash

CacheSpec == CacheInit /\ [][CacheNext]_cacheVars

-----------------------------------------------------------------------------
(* Properties *)

CacheTypeOK ==
    /\ tag \in Commits
    /\ {repo, tmp, marker} \subseteq Contents
    /\ flight \in Callers \cup {NoOne}
    /\ hash \in Commits \cup {Absent}
    /\ at \in [Callers -> {"idle", "listing", "listed", "cloning", "cloned", "removing",
                           "removed", "renamed", "marking", "waiting", "done"}]
    /\ creds \in [Callers -> Credentials]
    /\ result \in [Callers -> Results]
    /\ gone \subseteq Callers
    /\ torn \in BOOLEAN
    /\ crashes \in 0..MaxCrashes

\* A resolve that asked the remote is answered with a whole copy, of the commit
\* the remote named or a later one, whatever was left behind by resolves that
\* failed or were killed halfway before it, and though the tag may move between
\* the look and the clone (git.go 71-117).
AnsweredIsCurrent ==
    [][\A c \in Callers :
          (result[c] # "ok" /\ result'[c] = "ok" /\ hash # Absent) => repo' >= hash]_cacheVars

\* "so the existing cache is never disturbed until the new clone succeeds"
\* (git.go 95-96).  A marker says there is a copy, and the next resolve without a
\* network trusts it: so there is one, but while it is being replaced and after
\* a replacement that was cut short, until the next one.
MarkedIsWhole ==
    marker # Absent => \/ repo \in Commits
                       \/ torn
                       \/ \E c \in Callers : Replacing(c)
=============================================================================
