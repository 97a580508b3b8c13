--------------------------- MODULE DataResolution ---------------------------
(***************************************************************************)
(* How ops get to where they run: the CLI's data resolver and run command,  *)
(* the node's API, core and caller, and the git cache below them (GitCache).*)
(*                                                                         *)
(* `opctl run` makes three requests, each of which the node answers by      *)
(* resolving the op anew: for a listing of the op (asking the user for      *)
(* credentials, once, when it is refused), for op.yml, and to start the op. *)
(* Credentials go along with the first two.  The client's http library      *)
(* repeats requests that got no answer or a 5xx one.  The op started is     *)
(* then called, which resolves it once more; so is an op another op calls.  *)
(***************************************************************************)
EXTENDS GitCache

CONSTANTS
    Nested,     \* ops called by other ops; the rest of Callers are runs
    Local,      \* runs that may find their op in a directory of the CLI's machine
    MaxTries    \* bound (of the http library): sendings of one request

ASSUME ResolutionAssumption ==
    /\ Nested \subseteq Callers
    /\ Local \subseteq Callers \ Nested
    /\ MaxTries \in Nat \ {0}

VARIABLES
    stage,    \* what the op is resolved for: "list", "get", "start" or "call"; or how it ended
    given,    \* the pullCreds it is resolved with
    prompted, \* reattemptedAuth
    tries,    \* sendings of the request so far
    shared,   \* the request was answered with the result of another's flight
    stored    \* the credentials the node has for the op's repo (TryGetAuth)

runVars == <<stage, given, prompted, tries, shared>>
vars == <<cacheVars, runVars, stored>>

Init ==
    /\ CacheInit
    /\ stage = [c \in Callers |-> IF c \in Nested THEN "uncalled" ELSE "list"]
    /\ given = [c \in Callers |-> NoCreds]
    /\ prompted = [c \in Callers |-> FALSE]
    /\ tries = [c \in Callers |-> 0]
    /\ shared = [c \in Callers |-> FALSE]
    /\ stored = NoCreds

Underway == {"list", "get", "start", "call"}
NextStage == [list |-> "get", get |-> "start", start |-> "call", call |-> "called"]

\* Where a run goes from here.  StartOpReq is made without pull creds.
Enter(c, s) ==
    /\ stage' = [stage EXCEPT ![c] = s]
    /\ tries' = [tries EXCEPT ![c] = 0]
    /\ given' = [given EXCEPT ![c] = IF s \in {"start", "called", "failed"}
                                     THEN NoCreds ELSE @]
    /\ prompted' = [prompted EXCEPT ![c] = FALSE]

\* The call is over and the run has its answer.
TakeAnswer(c) ==
    /\ TakeResult(c)
    /\ shared' = [shared EXCEPT ![c] = @ /\ stage'[c] \notin Underway]
    /\ UNCHANGED stored

-----------------------------------------------------------------------------
(* Asking *)

\* The CLI looks in ./.opspec and . first, the node takes an absolute path.
FoundLocally(c) ==
    /\ stage[c] = "list"
    /\ c \in Local
    /\ at[c] = "idle" /\ tries[c] = 0 /\ ~prompted[c]
    /\ Enter(c, "called")
    /\ UNCHANGED <<cacheVars, shared, stored>>

\* An op makes a call; its spec may give pull creds.
CallOp(c) ==
    /\ stage[c] = "uncalled"
    /\ stage' = [stage EXCEPT ![c] = "call"]
    /\ \E pullCreds \in Credentials : given' = [given EXCEPT ![c] = pullCreds]
    /\ UNCHANGED <<cacheVars, prompted, tries, shared, stored>>

\* Mutant: the stored ones or none.
StoredCreds(c) == stored

\* The node takes the credentials it has stored for want of others.
PullCreds(c) == IF given[c] = NoCreds THEN stored ELSE given[c]

Resolve(c) ==
    /\ stage[c] \in Underway
    /\ at[c] = "idle"
    /\ tries' = [tries EXCEPT ![c] = @ + 1]
    /\ shared' = [shared EXCEPT ![c] = flight # NoOne]
    /\ TryResolve(c, PullCreds(c))
    /\ UNCHANGED <<stage, given, prompted, stored>>

-----------------------------------------------------------------------------
(* Answers *)

Answered(c, r) == at[c] = "done" /\ result[c] = r

\* Sent again, or given up.
Repeat(c, reason) ==
    IF tries[c] < MaxTries THEN UNCHANGED <<stage, tries, given, prompted>>
                           ELSE Enter(c, reason)

\* The handler reads the copy, which by now may be going to be replaced.
Read(c) ==
    /\ Answered(c, "ok")
    /\ \/ /\ repo # Absent
          /\ Enter(c, NextStage[stage[c]])
       \/ /\ repo \notin Commits
          /\ IF stage[c] = "start" THEN Repeat(c, "failed") ELSE Enter(c, "failed")
    /\ TakeAnswer(c)

\* Mutant: asks again and again.
PromptAgain(c) ==
    /\ Answered(c, "auth")
    /\ stage[c] = "list"
    /\ \E entered \in Credentials \ {NoCreds} : given' = [given EXCEPT ![c] = entered]
    /\ tries' = [tries EXCEPT ![c] = 0]
    /\ UNCHANGED <<stage, prompted>>
    /\ TakeAnswer(c)

Prompt(c) ==
    /\ Answered(c, "auth")
    /\ stage[c] = "list"
    /\ ~prompted[c]
    /\ \E entered \in Credentials \ {NoCreds} : given' = [given EXCEPT ![c] = entered]
    /\ prompted' = [prompted EXCEPT ![c] = TRUE]
    /\ tries' = [tries EXCEPT ![c] = 0]
    /\ UNCHANGED stage
    /\ TakeAnswer(c)

\* There is nobody to ask.
NobodyToAsk(c) ==
    /\ Answered(c, "auth")
    /\ stage[c] = "list"
    /\ ~prompted[c]
    /\ Enter(c, "unauthorized")
    /\ TakeAnswer(c)

\* A 401 or 403 to the first two requests, a 500 to the third; the call fails.
RefusedAuth(c) ==
    /\ Answered(c, "auth")
    /\ \/ stage[c] = "start" /\ Repeat(c, "unauthorized")
       \/ stage[c] \in {"get", "call"} /\ Enter(c, "unauthorized")
       \/ stage[c] = "list" /\ prompted[c] /\ Enter(c, "unauthorized")
    /\ TakeAnswer(c)

\* A 404 to the first two requests, a 500 to the third; the call fails.
RefusedOtherwise(c) ==
    /\ Answered(c, "failed")
    /\ IF stage[c] = "start" THEN Repeat(c, "failed") ELSE Enter(c, "failed")
    /\ TakeAnswer(c)

\* The node went away before it answered.
NotAnswered(c) ==
    /\ Answered(c, "lost")
    /\ IF stage[c] = "call" THEN Enter(c, "failed") ELSE Repeat(c, "failed")
    /\ TakeAnswer(c)

RunStep(c) ==
    \/ FoundLocally(c) \/ Resolve(c) \/ Read(c) \/ Prompt(c) \/ NobodyToAsk(c)
    \/ RefusedAuth(c) \/ RefusedOtherwise(c) \/ NotAnswered(c)

-----------------------------------------------------------------------------
(* The rest *)

\* The user stops the CLI or its connection breaks, and the node cancels the
\* request's context; but the start of an op has a context of its own, and what
\* the op calls is cancelled by killing it.
Interrupt(c) ==
    /\ stage[c] \in {"list", "get", "call"}
    /\ GiveUp(c)
    /\ UNCHANGED <<runVars, stored>>

\* Bound: credentials the remote accepts; others would serve like none.
AddAuth ==
    /\ stored = NoCreds
    /\ stored' \in Accepted
    /\ UNCHANGED <<cacheVars, runVars>>

CacheStep ==
    /\ (\E c \in Callers : FlightStep(c)) \/ MoveTag \/ Crash
    /\ UNCHANGED <<runVars, stored>>

Next ==
    \/ \E c \in Callers : RunStep(c) \/ CallOp(c) \/ Interrupt(c)
    \/ AddAuth
    \/ CacheStep

Spec == Init /\ [][Next]_vars

\* The CLI and the leader of a flight carry on, and what a leader asks of the
\* remote is answered in time: nothing makes anybody move the tag, kill the
\* node, add credentials or interrupt a run.
Fairness ==
    /\ WF_vars(\E c \in Callers : RunStep(c))
    /\ WF_vars(\E c \in Callers : FlightStep(c) /\ UNCHANGED <<runVars, stored>>)

FairSpec == Spec /\ Fairness

-----------------------------------------------------------------------------
(* Properties *)

Ends == {"called", "unauthorized", "failed"}

TypeOK ==
    /\ CacheTypeOK
    /\ stage \in [Callers -> Underway \cup Ends \cup {"uncalled"}]
    /\ given \in [Callers -> Credentials]
    /\ prompted \in [Callers -> BOOLEAN]
    /\ tries \in [Callers -> 0..MaxTries]
    /\ shared \in [Callers -> BOOLEAN]
    /\ stored \in Credentials

\* "auth errors can be fixed by supplying correct creds so don't give up; prompt"
\* (dataResolver.go:103).  So who has given credentials the remote accepts is not
\* refused for want of them, but by sharing a flight that another led with others.
RightCredsAreUsed ==
    \A c \in Callers : (stage[c] = "unauthorized" /\ given[c] \in Accepted) => shared[c]

\* Every op that is to be run or called is, or fails: nobody waits for a flight
\* for ever, and neither prompts nor repeated requests go on for ever.
EveryOpIsAnswered == \A c \in Callers : (stage[c] \in Underway) ~> (stage[c] \in Ends)
=============================================================================
