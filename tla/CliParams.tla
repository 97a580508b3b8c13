------------------------------ MODULE CliParams ------------------------------
(***************************************************************************)
(* How a run gets the args of its op (cli/internal/cliparamsatisfier): for   *)
(* each param in turn, from the first of its sources that has something      *)
(* valid.  A run has the op's params when it has a node (see OpRun); a value  *)
(* is valid or not, which Coercion and CallInterpreter look into.             *)
(***************************************************************************)
EXTENDS OpRun, Sequences

CONSTANTS
    Params,     \* names of the op's params, in the order they are satisfied
    Offers      \* what sources may have: functions of a param's name and a source

Sources == <<"args", "file", "env", "default", "prompt">>

\* What a source has: nothing, or something that is valid or not; a default may also be
\* one the node applies ("static"), as all are but relative paths.
Contents == {"none", "good", "bad", "static"}

ASSUME ParamsAssumption ==
    /\ Params \in Seq(STRING)
    /\ \A i, j \in DOMAIN Params : Params[i] = Params[j] => i = j    \* keys of a map
    /\ \A offer \in Offers : \A i \in DOMAIN Params, j \in DOMAIN Sources :
          offer[Params[i]][Sources[j]] \in Contents

VARIABLES
    offers,     \* what the sources of a run have
    todo,       \* params a run has yet to satisfy
    used,       \* pairs of a param and a source that was read for it
    args,       \* the source a param's arg is from; "static" if it is left to the node
    unmet       \* runs that gave up for want of an arg

paramVars == <<offers, todo, used, args, unmet>>

\* The op has params, or has none.
ParamsInit ==
    /\ \/ todo = [c \in Runs |-> <<>>] /\ offers = [c \in Runs |-> <<>>]
       \/ todo = [c \in Runs |-> Params] /\ offers \in [Runs -> Offers]
    /\ used = [c \in Runs |-> {}]
    /\ args = [c \in Runs |-> <<>>]
    /\ unmet = {}

\* The source has it and was not read for this param before.
Has(c, p, i) == offers[c][p][Sources[i]] # "none" /\ <<p, Sources[i]>> \notin used[c]

\* InputSourcer.Source: the first that has it.
IsSource(c, p, i) == Has(c, p, i) /\ \A j \in 1..(i - 1) : ~Has(c, p, j)

\* Mutant: read once for all params.
MarkReadForAll(c, p, source) ==
    used' = [used EXCEPT ![c] = @ \cup {<<Params[i], source>> : i \in DOMAIN Params}]

\* "enforce read at most once", but for the prompt.
MarkRead(c, p, source) ==
    used' = IF source = "prompt" THEN used ELSE [used EXCEPT ![c] = @ \cup {<<p, source>>}]

\* The arg is valid, or a default that is left to the node.
Take(c, p, source) ==
    /\ todo' = [todo EXCEPT ![c] = Tail(@)]
    /\ args' = [args EXCEPT ![c] =
                  [q \in DOMAIN @ \cup {p} |->
                     CASE q # p -> @[q]
                       [] q = p /\ offers[c][p][source] = "static" -> "static"
                       [] OTHER -> source]]

\* One attempt to satisfy the next param: an invalid one is told of, and the next
\* attempt is made.
Attempt(c) ==
    /\ run[c] = "given"
    /\ todo[c] # <<>>
    /\ LET p == Head(todo[c])
       IN  \E i \in DOMAIN Sources :
              /\ IsSource(c, p, i)
              /\ MarkRead(c, p, Sources[i])
              /\ IF offers[c][p][Sources[i]] = "bad"
                   THEN UNCHANGED <<todo, args>>
                   ELSE Take(c, p, Sources[i])
    /\ UNCHANGED <<vars, offers, unmet>>

\* "failed to get input": no source has it, or the user who is asked sends no answer.
GiveUp(c) ==
    /\ run[c] = "given"
    /\ todo[c] # <<>>
    /\ \A i \in DOMAIN Sources : ~Has(c, Head(todo[c]), i) \/ Sources[i] = "prompt"
    /\ End(c, "aborted")
    /\ unmet' = unmet \cup {c}
    /\ UNCHANGED <<daemonVars, on, stream, interrupted, opVars, offers, todo, used, args>>

-----------------------------------------------------------------------------
(* Properties *)

\* "Op input args are obtained from the following sources in order": a param's arg is
\* from the first source that has a valid one, whatever the sources had for the params
\* before it and however often it was asked for; an op is started with all that it
\* needs; and a run that gives up had nothing valid for some param.  (An invalid one
\* makes the run go on to the next source, and only then to the prompt.)
ArgsAreFirstValid ==
    \A c \in Runs :
       /\ \A p \in DOMAIN args[c] :
             \E i \in DOMAIN Sources :
                /\ args[c][p] \in {Sources[i], "static"}
                /\ offers[c][p][Sources[i]] \in {"good", "static"}
                /\ \A j \in 1..(i - 1) : offers[c][p][Sources[j]] \in {"none", "bad"}
       /\ on[c] # NoOne => todo[c] = <<>>
       /\ c \in unmet =>
             \E i \in DOMAIN Params :
                \A j \in 1..4 : offers[c][Params[i]][Sources[j]] \in {"none", "bad"}
=============================================================================
