------------------------ MODULE DataResolutionProofs ------------------------
(***************************************************************************)
(* For any number of callers, commits, credentials and crashes: a resolve   *)
(* is answered with a current copy, a marker has a copy to go with it, and  *)
(* right credentials are not refused.  The first two are about the cache    *)
(* alone (CacheSpec); the third is about how it is used, which is also      *)
(* shown to be a use of it.                                                 *)
(***************************************************************************)
EXTENDS DataResolution, TLAPS

Leading == {"listing", "listed", "cloning", "cloned", "removing", "removed",
            "renamed", "marking"}

\* One call leads the flight and the others wait for it.
OneLeader ==
    /\ \A c \in Callers : at[c] \in Leading => c = flight
    /\ \A c \in Callers : at[c] = "waiting" => flight # NoOne

\* Nothing is ahead of the tag.
BehindTag == marker <= tag /\ repo <= tag /\ tmp <= tag /\ hash <= tag

\* A marker that names the tag's commit has a copy to go with it.
MarkerIsEarned == marker \in Commits => (repo >= marker \/ marker < tag)

\* What the leader of a flight knows at each of its steps.
LeaderKnows ==
    \A c \in Callers :
       /\ at[c] = "listing" => hash = Absent
       /\ at[c] \in Leading \ {"marking"} => (hash # Absent => marker <= hash)
       /\ at[c] = "listed" => ((hash # Absent /\ marker = hash) => repo >= hash)
       /\ at[c] \in {"cloning", "cloned", "removing", "removed"} =>
             (marker # Absent => (hash # Absent /\ marker # hash))
       /\ at[c] \in {"cloned", "removing", "removed"} => (tmp \in Commits /\ tmp >= hash)
       /\ at[c] \in {"renamed", "marking"} =>
             (hash # Absent /\ repo \in Commits /\ repo >= hash)

CacheInv == CacheTypeOK /\ OneLeader /\ BehindTag /\ MarkerIsEarned /\ LeaderKnows
            /\ MarkedIsWhole

-----------------------------------------------------------------------------
(* The invariant is kept *)

LEMMA InitInv == ASSUME CacheInit PROVE CacheInv
<1>. USE CacheAssumption DEF CacheInit, Contents, Commits, Absent, Torn, Results
<1>1. CacheTypeOK
  <2>1. tag \in Commits /\ {repo, tmp, marker} \subseteq Contents /\ crashes \in 0..MaxCrashes
    OBVIOUS
  <2>2. at \in [Callers -> {"idle"}] /\ result \in [Callers -> {"none"}] /\ creds \in [Callers -> Credentials]
    OBVIOUS
  <2>. QED
    BY <2>1, <2>2 DEF CacheTypeOK
<1>2. OneLeader /\ LeaderKnows
  BY DEF OneLeader, LeaderKnows, Leading
<1>3. BehindTag /\ MarkerIsEarned /\ MarkedIsWhole
  BY DEF BehindTag, MarkerIsEarned, MarkedIsWhole
<1>. QED
  BY <1>1, <1>2, <1>3 DEF CacheInv

\* By the disjuncts of CacheNext.  All that most steps need is the invariant
\* and their own definition, so its parts are expanded once and for all.
LEMMA StepInv ==
  ASSUME CacheInv, [CacheNext]_cacheVars
  PROVE  CacheInv'
<1>. USE CacheAssumption DEF CacheInv, CacheTypeOK, OneLeader, BehindTag, MarkerIsEarned,
         LeaderKnows, MarkedIsWhole, Leading, Contents, Commits, Absent, Torn, Results,
         Replacing, files, calls
<1>1. ASSUME NEW c \in Callers, NEW pullCreds \in Credentials, TryResolve(c, pullCreds)
      PROVE  CacheInv'
  BY <1>1 DEF TryResolve, GoTo
<1>2. ASSUME NEW c \in Callers, TakeResult(c) PROVE CacheInv'
  BY <1>2 DEF TakeResult, GoTo
<1>3. ASSUME NEW c \in Callers, ListRemote(c) PROVE CacheInv'
  BY <1>3 DEF ListRemote, GoTo, Finish, InFlight
<1>4. ASSUME NEW c \in Callers, ListRemoteFails(c) PROVE CacheInv'
  BY <1>4 DEF ListRemoteFails, GoTo
<1>5. ASSUME NEW c \in Callers, UseCache(c) PROVE CacheInv'
  BY <1>5 DEF UseCache, Finish, InFlight, UpToDate
<1>6. ASSUME NEW c \in Callers, StartClone(c) PROVE CacheInv'
  BY <1>6 DEF StartClone, GoTo, UpToDate
<1>7. ASSUME NEW c \in Callers, Clone(c) PROVE CacheInv'
  BY <1>7 DEF Clone, GoTo
<1>8. ASSUME NEW c \in Callers, CloneFails(c) PROVE CacheInv'
  BY <1>8 DEF CloneFails, Finish, InFlight
<1>9. ASSUME NEW c \in Callers, StartRemove(c) PROVE CacheInv'
  BY <1>9 DEF StartRemove, GoTo
<1>10. ASSUME NEW c \in Callers, Remove(c) PROVE CacheInv'
  <2>1. CASE repo' = Absent /\ GoTo(c, "removed")
    <3>1. CacheTypeOK'
      BY <1>10, <2>1 DEF Remove, GoTo, Finish, InFlight
    <3>2. (OneLeader /\ LeaderKnows /\ MarkedIsWhole)'
      BY <1>10, <2>1 DEF Remove, GoTo, Finish, InFlight
    <3>3. (BehindTag /\ MarkerIsEarned)'
      BY <1>10, <2>1 DEF Remove, GoTo, Finish, InFlight
    <3>. QED
      BY <3>1, <3>2, <3>3
  <2>2. CASE repo = Torn /\ Finish("failed")
    <3>1. CacheTypeOK'
      BY <1>10, <2>2 DEF Remove, GoTo, Finish, InFlight
    <3>2. (OneLeader /\ LeaderKnows /\ MarkedIsWhole)'
      BY <1>10, <2>2 DEF Remove, GoTo, Finish, InFlight
    <3>3. (BehindTag /\ MarkerIsEarned)'
      BY <1>10, <2>2 DEF Remove, GoTo, Finish, InFlight
    <3>. QED
      BY <3>1, <3>2, <3>3
  <2>. QED
    BY <1>10, <2>1, <2>2 DEF Remove
<1>11. ASSUME NEW c \in Callers, Rename(c) PROVE CacheInv'
  <2>1. CASE hash # Absent
    <3>1. CacheTypeOK'
      BY <1>11, <2>1 DEF Rename, GoTo, Finish, InFlight
    <3>2. (OneLeader /\ LeaderKnows /\ MarkedIsWhole)'
      BY <1>11, <2>1 DEF Rename, GoTo, Finish, InFlight
    <3>3. (BehindTag /\ MarkerIsEarned)'
      BY <1>11, <2>1 DEF Rename, GoTo, Finish, InFlight
    <3>. QED
      BY <3>1, <3>2, <3>3
  <2>2. CASE hash = Absent
    <3>1. CacheTypeOK'
      <4>1. {repo', tmp', marker'} \subseteq Contents
        BY <1>11, <2>2 DEF Rename, Finish
      <4>2. at' \in [Callers -> {"idle", "listing", "listed", "cloning", "cloned", "removing",
                                "removed", "renamed", "marking", "waiting", "done"}]
        BY <1>11, <2>2 DEF Rename, Finish
      <4>3. result' \in [Callers -> Results]
        BY <1>11, <2>2 DEF Rename, Finish
      <4>4. flight' = NoOne /\ hash' = Absent /\ gone' = {} /\ torn' = FALSE
        BY <1>11, <2>2 DEF Rename, Finish
      <4>. QED
        BY <1>11, <4>1, <4>2, <4>3, <4>4 DEF Rename
    <3>2. (OneLeader /\ LeaderKnows /\ MarkedIsWhole)'
      BY <1>11, <2>2 DEF Rename, GoTo, Finish, InFlight
    <3>3. (BehindTag /\ MarkerIsEarned)'
      BY <1>11, <2>2 DEF Rename, GoTo, Finish, InFlight
    <3>. QED
      BY <3>1, <3>2, <3>3
  <2>. QED
    BY <1>11, <2>1, <2>2 DEF Rename
<1>12. ASSUME NEW c \in Callers, TruncateMarker(c) PROVE CacheInv'
  BY <1>12 DEF TruncateMarker, GoTo
<1>13. ASSUME NEW c \in Callers, WriteMarker(c) PROVE CacheInv'
  BY <1>13 DEF WriteMarker, Finish, InFlight
<1>14. ASSUME NEW c \in Callers, GiveUp(c) PROVE CacheInv'
  BY <1>14 DEF GiveUp
<1>15. ASSUME MoveTag PROVE CacheInv'
  BY <1>15 DEF MoveTag
<1>16. ASSUME Crash PROVE CacheInv'
  <2>1. CacheTypeOK'
    BY <1>16 DEF Crash, Finish, InFlight
  <2>2. (OneLeader /\ LeaderKnows /\ MarkedIsWhole)'
    BY <1>16 DEF Crash, Finish, InFlight
  <2>3. (BehindTag /\ MarkerIsEarned)'
    BY <1>16 DEF Crash, Finish, InFlight
  <2>. QED
    BY <2>1, <2>2, <2>3
<1>17. CASE UNCHANGED cacheVars
  BY <1>17 DEF cacheVars
<1>. HIDE DEF CacheInv
<1>. QED
  BY <1>1, <1>2, <1>3, <1>4, <1>5, <1>6, <1>7, <1>8, <1>9, <1>10, <1>11, <1>12, <1>13, <1>14, <1>15, <1>16, <1>17 DEF CacheNext, FlightStep

\* The cache's invariant holds whoever uses the cache.
THEOREM CacheInvariant == CacheSpec => []CacheInv
  BY InitInv, StepInv, PTL DEF CacheSpec

-----------------------------------------------------------------------------
(* What the invariant gives *)

\* A step that answers a call of a flight which has a hash is the leader's:
\* it found the marker to be that hash, or has just written it.
LEMMA AnswerIsCurrent ==
  ASSUME CacheInv, [CacheNext]_cacheVars, NEW c \in Callers,
         result[c] # "ok", result'[c] = "ok", hash # Absent
  PROVE  repo' >= hash
<1>1. PICK l \in Callers : UseCache(l) \/ WriteMarker(l)
  BY DEF CacheNext, cacheVars, calls, FlightStep, TryResolve, TakeResult, ListRemote,
         ListRemoteFails, UseCache, StartClone, Clone, CloneFails, StartRemove, Remove,
         Rename, TruncateMarker, WriteMarker, GiveUp, MoveTag, Crash, Finish, CacheInv,
         CacheTypeOK
<1>2. CASE UseCache(l)
  BY <1>2 DEF UseCache, UpToDate, CacheInv, LeaderKnows
<1>3. CASE WriteMarker(l)
  BY <1>3 DEF WriteMarker, CacheInv, LeaderKnows
<1>. QED
  BY <1>1, <1>2, <1>3

\* A resolve which asked the remote is answered with a copy as new as what the
\* remote named (git.go 71-117).
THEOREM CacheAnswersAreCurrent == CacheSpec => AnsweredIsCurrent
<1>1. ASSUME CacheInv, [CacheNext]_cacheVars
      PROVE  [\A c \in Callers :
                (result[c] # "ok" /\ result'[c] = "ok" /\ hash # Absent) => repo' >= hash]_cacheVars
  BY <1>1, AnswerIsCurrent
<1>. QED
  BY <1>1, CacheInvariant, PTL DEF CacheSpec, AnsweredIsCurrent

\* A marker has a copy to go with it (git.go 95-96).
THEOREM CacheMarksWhatIsWhole == CacheSpec => []MarkedIsWhole
<1>1. CacheInv => MarkedIsWhole
  BY DEF CacheInv
<1>. QED
  BY <1>1, CacheInvariant, PTL

-----------------------------------------------------------------------------
(* Runs and ops use the cache as it may be used *)


LEMMA PullCredsType ==
  ASSUME TypeOK, NEW c \in Callers PROVE PullCreds(c) \in Credentials
BY DEF TypeOK, PullCreds

LEMMA StepIsCacheStep == ASSUME TypeOK, [Next]_vars PROVE [CacheNext]_cacheVars
<1>1. ASSUME NEW c \in Callers, RunStep(c) PROVE [CacheNext]_cacheVars
  <2>1. CASE FoundLocally(c)
    BY <2>1 DEF FoundLocally
  <2>2. CASE Resolve(c)
    BY <1>1, <2>2, PullCredsType DEF Resolve, CacheNext
  <2>3. CASE TakeResult(c)
    BY <1>1, <2>3 DEF CacheNext
  <2>. QED
    BY <1>1, <2>1, <2>2, <2>3 DEF RunStep, Read, Prompt, NobodyToAsk, RefusedAuth,
       RefusedOtherwise, NotAnswered, TakeAnswer
<1>2. ASSUME NEW c \in Callers, CallOp(c) PROVE [CacheNext]_cacheVars
  BY <1>2 DEF CallOp
<1>3. ASSUME NEW c \in Callers, Interrupt(c) PROVE [CacheNext]_cacheVars
  BY <1>3 DEF Interrupt, CacheNext
<1>4. CASE AddAuth
  BY <1>4 DEF AddAuth
<1>5. CASE CacheStep
  BY <1>5 DEF CacheStep, CacheNext
<1>6. CASE UNCHANGED vars
  BY <1>6 DEF vars
<1>. QED
  BY <1>1, <1>2, <1>3, <1>4, <1>5, <1>6 DEF Next

\* What a run or op passes to the cache, and whose refusal it may see.
UsesGivenCreds ==
    /\ stored \in Accepted \cup {NoCreds}
    /\ \A c \in Callers :
          /\ at[c] # "idle" => stage[c] \in Underway
          /\ (at[c] # "idle" /\ given[c] \in Accepted) => creds[c] \in Accepted
          /\ at[c] = "waiting" => shared[c]
          /\ (at[c] = "done" /\ result[c] = "auth" /\ creds[c] \in Accepted) => shared[c]

\* There is a sending left for who is about to send.
TriesAreLeft ==
    \A c \in Callers : /\ stage[c] \in Underway /\ at[c] = "idle" => tries[c] < MaxTries
                       /\ stage[c] = "uncalled" => tries[c] = 0

RunInv == TypeOK /\ UsesGivenCreds /\ TriesAreLeft /\ RightCredsAreUsed

LEMMA InitRun == ASSUME Init PROVE RunInv
<1>. USE CacheAssumption, ResolutionAssumption DEF Init
<1>1. CacheTypeOK
  BY InitInv DEF CacheInv
<1>2. TypeOK
  BY <1>1 DEF TypeOK, Underway, Ends
<1>3. UsesGivenCreds /\ TriesAreLeft /\ RightCredsAreUsed
  BY DEF UsesGivenCreds, TriesAreLeft, RightCredsAreUsed, CacheInit, Underway
<1>. QED
  BY <1>2, <1>3 DEF RunInv

\* A refusal hits who led the flight, or shared it.
LEMMA RefusalSpreads ==
  ASSUME RunInv, OneLeader, NEW l \in Callers, at[l] \in Leading, creds[l] \notin Accepted,
         Finish("auth"), creds' = creds, NEW c \in Callers,
         at'[c] = "done", result'[c] = "auth", creds'[c] \in Accepted
  PROVE  shared[c]
<1>1. CASE at[c] \in {"idle", "done"}
  BY <1>1 DEF Finish, InFlight, RunInv, UsesGivenCreds, TypeOK, CacheTypeOK, Results
<1>2. CASE at[c] \in Leading
  BY <1>2 DEF OneLeader
<1>3. CASE at[c] = "waiting"
  BY <1>3 DEF RunInv, UsesGivenCreds
<1>. QED
  BY <1>1, <1>2, <1>3 DEF RunInv, TypeOK, CacheTypeOK, Leading

LEMMA StepRun ==
  ASSUME CacheInv, CacheInv', RunInv, [Next]_vars
  PROVE  RunInv'
<1>. USE CacheAssumption, ResolutionAssumption DEF Underway, Ends
<1>0. CacheTypeOK' /\ CacheTypeOK /\ OneLeader
  BY DEF CacheInv
<1>1. ASSUME NEW c \in Callers, FoundLocally(c) PROVE RunInv'
  BY <1>0, <1>1 DEF FoundLocally, Enter, cacheVars, calls, RunInv, TypeOK, UsesGivenCreds,
     TriesAreLeft, RightCredsAreUsed
<1>2. ASSUME NEW c \in Callers, CallOp(c) PROVE RunInv'
  BY <1>0, <1>2 DEF CallOp, cacheVars, calls, RunInv, TypeOK, UsesGivenCreds,
     TriesAreLeft, RightCredsAreUsed
<1>3. ASSUME NEW c \in Callers, Resolve(c) PROVE RunInv'
  <2>1. TypeOK'
    <3>1. tries[c] \in 0..MaxTries /\ tries[c] < MaxTries
      BY <1>3 DEF Resolve, RunInv, TriesAreLeft, TypeOK
    <3>2. tries' \in [Callers -> 0..MaxTries]
      BY <1>3, <3>1 DEF Resolve, RunInv, TypeOK
    <3>3. shared' \in [Callers -> BOOLEAN]
      BY <1>3 DEF Resolve, RunInv, TypeOK
    <3>. QED
      BY <1>0, <1>3, <3>2, <3>3 DEF Resolve, RunInv, TypeOK
  <2>2. stored' = stored /\ PullCreds(c) \in Credentials /\
        (given[c] \in Accepted => PullCreds(c) \in Accepted)
    BY <1>3, PullCredsType DEF Resolve, PullCreds, RunInv, UsesGivenCreds
  <2>4. \A d \in Callers : d # c => /\ at'[d] = at[d] /\ creds'[d] = creds[d]
                                   /\ shared'[d] = shared[d]
    BY <1>3, <1>0 DEF Resolve, TryResolve, GoTo, CacheTypeOK, RunInv, TypeOK
  <2>3. at'[c] = "waiting" => shared'[c]
    <3>1. at'[c] = "waiting" => flight # NoOne
      BY <1>3, <1>0 DEF Resolve, TryResolve, GoTo, CacheTypeOK
    <3>2. shared'[c] <=> flight # NoOne
      BY <1>3 DEF Resolve, RunInv, TypeOK
    <3>. QED
      BY <3>1, <3>2
  <2>5. /\ at'[c] \in {"listing", "waiting"} /\ creds'[c] = PullCreds(c)
        /\ stage' = stage /\ given' = given /\ result' = result /\ stage[c] \in Underway
    BY <1>3, <1>0 DEF Resolve, TryResolve, GoTo, CacheTypeOK
  <2>6. UsesGivenCreds'
    BY <2>2, <2>3, <2>4, <2>5 DEF RunInv, UsesGivenCreds
  <2>7. TriesAreLeft'
    BY <1>3, <1>0, <2>4, <2>5 DEF Resolve, RunInv, TriesAreLeft, TypeOK
  <2>8. RightCredsAreUsed'
    BY <2>4, <2>5 DEF RunInv, RightCredsAreUsed
  <2>. QED
    BY <2>1, <2>6, <2>7, <2>8 DEF RunInv
<1>4. ASSUME NEW c \in Callers, TakeAnswer(c), stage'[c] \in Underway \cup Ends,
             stage' = [stage EXCEPT ![c] = stage'[c]],
             given' \in [Callers -> Credentials], \A d \in Callers : d # c => given'[d] = given[d],
             prompted' \in [Callers -> BOOLEAN],
             tries' = [tries EXCEPT ![c] = tries'[c]], tries'[c] \in 0..MaxTries,
             tries'[c] < MaxTries,
             (stage'[c] = "unauthorized" /\ given'[c] \in Accepted) => shared[c]
      PROVE  RunInv'
  <2>1. TypeOK'
    <3>1. shared' \in [Callers -> BOOLEAN]
      BY <1>4 DEF TakeAnswer, RunInv, TypeOK
    <3>. QED
      BY <1>0, <1>4, <3>1 DEF TakeAnswer, RunInv, TypeOK
  <2>2. /\ at'[c] = "idle" /\ stored' = stored /\ result' = [result EXCEPT ![c] = "none"]
        /\ \A d \in Callers : d # c => /\ at'[d] = at[d] /\ creds'[d] = creds[d]
                                       /\ result'[d] = result[d] /\ shared'[d] = shared[d]
    BY <1>0, <1>4 DEF TakeAnswer, TakeResult, GoTo, CacheTypeOK, RunInv, TypeOK
  <2>3. \A d \in Callers : d # c => stage'[d] = stage[d]
    BY <1>4 DEF RunInv, TypeOK
  <2>4. UsesGivenCreds'
    BY <1>4, <2>2, <2>3 DEF RunInv, UsesGivenCreds
  <2>5. TriesAreLeft'
    BY <1>4, <2>2, <2>3 DEF RunInv, TriesAreLeft, TypeOK
  <2>6. stage'[c] = "unauthorized" => (shared'[c] <=> shared[c])
    BY <1>4 DEF TakeAnswer, RunInv, TypeOK
  <2>7. RightCredsAreUsed'
    BY <1>4, <2>2, <2>3, <2>6 DEF RunInv, RightCredsAreUsed
  <2>. QED
    BY <2>1, <2>4, <2>5, <2>7 DEF RunInv
<1>5. ASSUME NEW c \in Callers, NEW reason \in Ends, reason # "unauthorized" \/ given[c] \notin Accepted \/ shared[c],
             at[c] = "done", Enter(c, reason) \/ Repeat(c, reason), TakeAnswer(c)
      PROVE  RunInv'
  <2>1. stage[c] \in Underway
    BY <1>5 DEF RunInv, UsesGivenCreds
  <2>2. CASE Enter(c, reason)
    <3>1. stage' = [stage EXCEPT ![c] = reason] /\ stage'[c] = reason
      BY <1>5, <2>2 DEF Enter, RunInv, TypeOK
    <3>2. tries' = [tries EXCEPT ![c] = 0] /\ tries'[c] = 0
      BY <1>5, <2>2 DEF Enter, RunInv, TypeOK
    <3>3. /\ given' \in [Callers -> Credentials] /\ prompted' \in [Callers -> BOOLEAN]
          /\ \A d \in Callers : d # c => given'[d] = given[d]
          /\ reason = "unauthorized" => given'[c] = given[c]
      BY <1>5, <2>2 DEF Enter, RunInv, TypeOK
    <3>4. /\ stage' = [stage EXCEPT ![c] = stage'[c]] /\ stage'[c] \in Underway \cup Ends
          /\ tries' = [tries EXCEPT ![c] = tries'[c]]
          /\ tries'[c] \in 0..MaxTries /\ tries'[c] < MaxTries
      <4>1. 0 \in 0..MaxTries /\ 0 < MaxTries
        OBVIOUS
      <4>. QED
        BY <3>1, <3>2, <4>1
    <3>5. (stage'[c] = "unauthorized" /\ given'[c] \in Accepted) => shared[c]
      BY <1>5, <3>1, <3>3
    <3>6. TakeAnswer(c) /\ c \in Callers
      BY <1>5
    <3>. QED
      BY <1>4, <3>3, <3>4, <3>5, <3>6
  <2>3. CASE Repeat(c, reason) /\ tries[c] < MaxTries
    <3>1. /\ stage' = stage /\ given' = given /\ tries' = tries /\ prompted' = prompted
      BY <2>3 DEF Repeat
    <3>2. /\ stage' = [stage EXCEPT ![c] = stage'[c]] /\ tries' = [tries EXCEPT ![c] = tries'[c]]
          /\ tries'[c] \in 0..MaxTries /\ given' \in [Callers -> Credentials]
          /\ prompted' \in [Callers -> BOOLEAN]
      BY <3>1 DEF RunInv, TypeOK
    <3>. QED
      BY <1>4, <1>5, <2>1, <2>3, <3>1, <3>2
  <2>. QED
    BY <1>5, <2>2, <2>3 DEF Repeat
<1>6. ASSUME NEW c \in Callers, Read(c) PROVE RunInv'
  <2>1. at[c] = "done" /\ TakeAnswer(c) /\ stage[c] \in Underway
    BY <1>6 DEF Read, Answered, RunInv, UsesGivenCreds
  <2>2. CASE Enter(c, NextStage[stage[c]])
    <3>1. /\ NextStage[stage[c]] \in {"get", "start", "call", "called"}
      BY <2>1 DEF NextStage
    <3>2. /\ stage' = [stage EXCEPT ![c] = NextStage[stage[c]]]
          /\ tries' = [tries EXCEPT ![c] = 0]
      BY <2>2 DEF Enter
    <3>4. /\ stage'[c] \in {"get", "start", "call", "called"} /\ tries'[c] = 0
          /\ stage' = [stage EXCEPT ![c] = stage'[c]]
          /\ tries' = [tries EXCEPT ![c] = tries'[c]]
      BY <3>1, <3>2 DEF RunInv, TypeOK
    <3>3. /\ given' \in [Callers -> Credentials] /\ prompted' \in [Callers -> BOOLEAN]
          /\ \A d \in Callers : d # c => given'[d] = given[d]
      BY <2>2 DEF Enter, RunInv, TypeOK
    <3>. QED
      BY <1>4, <2>1, <3>4, <3>3
  <2>. QED
    BY <1>5, <1>6, <2>1, <2>2 DEF Read
<1>7. ASSUME NEW c \in Callers, Prompt(c) PROVE RunInv'
  <2>1. at[c] = "done" /\ TakeAnswer(c) /\ stage[c] = "list"
    BY <1>7 DEF Prompt, Answered
  <2>2. /\ stage' = [stage EXCEPT ![c] = stage'[c]] /\ stage'[c] = "list"
        /\ tries' = [tries EXCEPT ![c] = tries'[c]] /\ tries'[c] = 0
        /\ given' \in [Callers -> Credentials] /\ prompted' \in [Callers -> BOOLEAN]
        /\ \A d \in Callers : d # c => given'[d] = given[d]
    BY <1>7, <2>1 DEF Prompt, RunInv, TypeOK
  <2>. QED
    BY <1>4, <2>1, <2>2
<1>9. ASSUME NEW c \in Callers, Answered(c, "auth"), given[c] \in Accepted PROVE shared[c]
  BY <1>9 DEF Answered, RunInv, UsesGivenCreds
<1>10. ASSUME NEW c \in Callers, NobodyToAsk(c) PROVE RunInv'
  BY <1>5, <1>9, <1>10 DEF NobodyToAsk, Answered
<1>11. ASSUME NEW c \in Callers, RefusedAuth(c) PROVE RunInv'
  BY <1>5, <1>9, <1>11 DEF RefusedAuth, Answered
<1>12. ASSUME NEW c \in Callers, RefusedOtherwise(c) PROVE RunInv'
  BY <1>5, <1>12 DEF RefusedOtherwise, Answered
<1>13. ASSUME NEW c \in Callers, NotAnswered(c) PROVE RunInv'
  BY <1>5, <1>13 DEF NotAnswered, Answered
<1>14. ASSUME NEW c \in Callers, Interrupt(c) PROVE RunInv'
  BY <1>0, <1>14 DEF Interrupt, GiveUp, runVars, calls, RunInv, TypeOK, UsesGivenCreds,
     TriesAreLeft, RightCredsAreUsed
<1>15. CASE AddAuth
  BY <1>0, <1>15, CacheAssumption DEF AddAuth, cacheVars, runVars, calls, RunInv, TypeOK, UsesGivenCreds,
     TriesAreLeft, RightCredsAreUsed
<1>16. CASE CacheStep
  <2>1. /\ stored' = stored /\ stage' = stage /\ given' = given /\ prompted' = prompted
        /\ tries' = tries /\ shared' = shared
    BY <1>16 DEF CacheStep, runVars
  <2>2. TypeOK' /\ RightCredsAreUsed'
    BY <1>0, <2>1 DEF RunInv, TypeOK, RightCredsAreUsed
  <2>3. creds' = creds
    BY <1>16 DEF CacheStep, FlightStep, ListRemote, ListRemoteFails, UseCache, StartClone,
       Clone, CloneFails, StartRemove, Remove, Rename, TruncateMarker, WriteMarker, MoveTag,
       Crash, calls
  <2>4. \A d \in Callers : (at[d] = "idle" <=> at'[d] = "idle")
    BY <1>0, <1>16 DEF CacheStep, FlightStep, ListRemote, ListRemoteFails, UseCache, StartClone,
       Clone, CloneFails, StartRemove, Remove, Rename, TruncateMarker, WriteMarker, MoveTag,
       Crash, calls, Finish, InFlight, GoTo, CacheTypeOK
  <2>5. \A d \in Callers : at'[d] = "waiting" => at[d] = "waiting"
    BY <1>0, <1>16 DEF CacheStep, FlightStep, ListRemote, ListRemoteFails, UseCache, StartClone,
       Clone, CloneFails, StartRemove, Remove, Rename, TruncateMarker, WriteMarker, MoveTag,
       Crash, calls, Finish, InFlight, GoTo, CacheTypeOK
  <2>6. \/ at' = at /\ result' = result
        \/ \E l \in Callers : GoTo(l, at'[l]) /\ at'[l] # "done" /\ result' = result
        \/ \E r \in Results \ {"auth"} : Finish(r)
        \/ \E l \in Callers : at[l] \in Leading /\ creds[l] \notin Accepted /\ Finish("auth")
    <3>1. ASSUME NEW l \in Callers, FlightStep(l)
          PROVE  \/ GoTo(l, at'[l]) /\ at'[l] # "done" /\ result' = result
                 \/ \E r \in Results \ {"auth"} : Finish(r)
                 \/ at[l] \in Leading /\ creds[l] \notin Accepted /\ Finish("auth")
      <4>1. CASE ListRemote(l)
        BY <1>0, <4>1 DEF ListRemote, Leading, GoTo, CacheTypeOK
      <4>2. CASE CloneFails(l)
        BY <4>2 DEF CloneFails, Leading, Results
      <4>3. CASE Remove(l)
        BY <1>0, <4>3 DEF Remove, Results, GoTo, CacheTypeOK
      <4>4. CASE Rename(l)
        BY <1>0, <4>4 DEF Rename, Results, GoTo, CacheTypeOK
      <4>5. CASE UseCache(l) \/ WriteMarker(l)
        BY <4>5 DEF UseCache, WriteMarker, Results
      <4>6. CASE \/ ListRemoteFails(l) \/ StartClone(l) \/ Clone(l) \/ StartRemove(l)
                 \/ TruncateMarker(l)
        BY <1>0, <4>6 DEF ListRemoteFails, StartClone, Clone, StartRemove, TruncateMarker, GoTo,
           CacheTypeOK
      <4>. QED
        BY <3>1, <4>1, <4>2, <4>3, <4>4, <4>5, <4>6 DEF FlightStep
    <3>2. ASSUME MoveTag PROVE at' = at /\ result' = result
      BY <3>2 DEF MoveTag, calls
    <3>3. ASSUME Crash PROVE \E r \in Results \ {"auth"} : Finish(r)
      BY <3>3 DEF Crash, Results
    <3>. QED
      BY <1>16, <3>1, <3>2, <3>3 DEF CacheStep
  <2>7. ASSUME NEW d \in Callers, at'[d] = "done", result'[d] = "auth", creds'[d] \in Accepted
        PROVE  shared'[d]
    <3>1. CASE at' = at /\ result' = result
      BY <2>1, <2>3, <2>7, <3>1 DEF RunInv, UsesGivenCreds
    <3>2. ASSUME NEW l \in Callers, GoTo(l, at'[l]), at'[l] # "done", result' = result
          PROVE  shared'[d]
      BY <1>0, <2>1, <2>3, <2>7, <3>2 DEF RunInv, UsesGivenCreds, GoTo, CacheTypeOK
    <3>3. ASSUME NEW r \in Results \ {"auth"}, Finish(r) PROVE shared'[d]
      BY <1>0, <2>1, <2>3, <2>7, <3>3 DEF RunInv, UsesGivenCreds, Finish, InFlight, CacheTypeOK
    <3>4. ASSUME NEW l \in Callers, at[l] \in Leading, creds[l] \notin Accepted, Finish("auth")
          PROVE  shared'[d]
      BY <1>0, <2>1, <2>3, <2>7, <3>4, RefusalSpreads
    <3>. QED
      BY <2>6, <3>1, <3>2, <3>3, <3>4
  <2>8. UsesGivenCreds' /\ TriesAreLeft'
    BY <2>1, <2>3, <2>4, <2>5, <2>7 DEF RunInv, UsesGivenCreds, TriesAreLeft
  <2>. QED
    BY <2>2, <2>8 DEF RunInv
<1>17. CASE UNCHANGED vars
  BY <1>0, <1>17 DEF vars, cacheVars, runVars, calls, RunInv, TypeOK, UsesGivenCreds,
     TriesAreLeft, RightCredsAreUsed
<1>. QED
  BY <1>1, <1>2, <1>3, <1>6, <1>7, <1>10, <1>11, <1>12, <1>13, <1>14, <1>15, <1>16, <1>17
  DEF Next, RunStep

-----------------------------------------------------------------------------

LEMMA RunsInvariant == Spec => [](CacheInv /\ RunInv)
<1>1. Init => CacheInv /\ RunInv
  BY InitInv, InitRun DEF Init
<1>2. CacheInv /\ RunInv /\ [Next]_vars => (CacheInv /\ RunInv)'
  <2>1. ASSUME CacheInv, RunInv, [Next]_vars PROVE CacheInv'
    BY <2>1, StepIsCacheStep, StepInv DEF RunInv
  <2>. QED
    BY <2>1, StepRun
<1>. QED
  BY <1>1, <1>2, PTL DEF Spec

\* The CLI's run, the requests and the calls all have their types: no request is
\* sent more often than may be, either.
THEOREM RunsTypes == Spec => []TypeOK
<1>1. RunInv => TypeOK
  BY DEF RunInv
<1>. QED
  BY <1>1, RunsInvariant, PTL

\* Runs and op calls use the cache in no other way than CacheSpec lets any
\* number of callers use it, so what is proved of it holds for them.
THEOREM RunsUseTheCache == Spec => CacheSpec
<1>1. Init => CacheInit
  BY DEF Init
<1>2. TypeOK /\ [Next]_vars => [CacheNext]_cacheVars
  BY StepIsCacheStep
<1>. QED
  BY <1>1, <1>2, RunsTypes, PTL DEF Spec, CacheSpec

\* What runs and calls find a marker for is a whole copy (git.go 95-96).
THEOREM RunsFindWholeCopies == Spec => []MarkedIsWhole
  BY RunsUseTheCache, CacheMarksWhatIsWhole

\* What runs and calls are answered with is current (git.go 71-117).
THEOREM RunsAnswersAreCurrent == Spec => AnsweredIsCurrent
  BY RunsUseTheCache, CacheAnswersAreCurrent

\* Right credentials are not refused (dataResolver.go 103).
THEOREM RightCredsSuffice == Spec => []RightCredsAreUsed
<1>1. RunInv => RightCredsAreUsed
  BY DEF RunInv
<1>. QED
  BY <1>1, RunsInvariant, PTL
=============================================================================
