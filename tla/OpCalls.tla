------------------------------- MODULE OpCalls -------------------------------
(***************************************************************************)
(* The calls of Scopes in the language of op files: what CallInterpreter     *)
(* makes of each call's spec, in the scope it has, and of what it outputs.   *)
(* The scratch dirs of a call are its own, and those of an op's outputs.     *)
(***************************************************************************)
EXTENDS ScopesMeaning
LOCAL Sequence == INSTANCE SequencesExt

CONSTANTS
    Source,     \* what each call says: `name`, `if` and what there is to its kind
    Names,      \* in order
    RefToName,
    NameToRef,
    Cache       \* what is in the ops' dir of the node's data dir

Language == INSTANCE CallInterpreter

InCall(c, s) ==
    Language!InterpretCall(Kind(c), Source[c], s, <<"dcg", c>>)

\* opCaller.go:59: the inputs and the op's dirs.
InOp(c, inputs) ==
    [k \in Keys |->
        CASE k \in {"/", "./"} -> Source[c].spec.dirs.op
          [] k = "../" -> Source[c].spec.dirs.parent
          [] OTHER -> inputs[2][k]]

FromContainer(c, s) ==
    Language!InterpretContainerOutputs(Source[c].spec, InCall(c, s)[2], Keys, c)

FromOp(c, m) ==
    Then(Language!InterpretOutputs(Source[c].spec, m, <<"call", c>>),
         LAMBDA outputs : Map(Language!BindOutputs(Source[c].spec.binds, outputs[2])))

InIteration(c, i, m) == Language!IterationScope(i, m, Source[c].spec)

OfLoop(c, m) ==
    IF Kind(c) = "serialLoop" THEN Language!InterpretSerialLoop(Source[c].spec, m)
                              ELSE Language!InterpretParallelLoop(Source[c].spec, m)

OnceStored(v) == Language!FromJson(v)

TakenBack(c) == Language!DeScoped(Source[c].spec)

-----------------------------------------------------------------------------
(* Properties *)

Seen(c) == pc[c] \in {"begun", "waiting", "ended"}

\* The calls in an op have inputs, and its caller outputs, of the types that it
\* declares, whatever they were given as, computed from, defaulted to or left as by
\* a loop (params/coercer.go:13, inputs/interpret.go:52, outputs/interpret.go:71).
ParamsAreOfTheirTypes ==
    \A c \in Calls : Kind(c) = "op" =>
        LET op == Source[c].spec IN
        /\ Seen(Run(c)[1]) =>
              \A n \in DOMAIN op.inputs : Type(seen[Run(c)[1]][n]) = op.inputs[n].type
        /\ (pc[c] = "ended" /\ Interpretation(c, seen[c]) # Skip) =>
              \A b \in Language!Bindings(op.binds) :
                 b[1] \in DOMAIN op.outputs => Type(given[c][b[2]]) = op.outputs[b[1]].type

\* Containers that were interpreted, and write.
Containers ==
    {c \in Calls : /\ Kind(c) = "container" /\ Seen(c)
                   /\ Interpretation(c, seen[c]) # Skip}
ContainerOf(c) == InCall(c, seen[c])[2]

\* Dirs that op files have containers logged to, what is in them and what they are in.
LogDirs == UNION {Language!LoggedTo(ContainerOf(c)) : c \in Containers}
HasLogs(path) == \E dir \in LogDirs : Sequence!IsPrefix(path, dir) \/ Sequence!IsPrefix(dir, path)

\* What is of an op in the node's data dir is written to by no container, nor by the
\* node for one, but for logs; and in any scope of any call it is as it was when the op
\* was fetched, or an empty dir or file that was made there, but where logs are.
\* Containers write to copies ("copy cached files to ensure can't be mutated",
\* container/dirs/interpret.go:46, files/interpret.go:45), and what they output are the
\* copies; a dir for logs is not copied (logs/interpret.go:36, containerCaller.go:237).
CachedFilesAreUntouched ==
    /\ \A c \in Containers : \A path \in Language!WrittenTo(ContainerOf(c)) :
          Language!IsCached(path) => path \in LogDirs
    /\ \A c \in Calls, k \in Keys :
          \A v \in {in[c][k], own[c][k], given[c][k]} :
             (Type(v) \in {"dir", "file"} /\ Language!IsCached(Path(v))) =>
                \/ <<Type(v), v[2][2]>> = Language!Find(Cache, Tail(Path(v)))
                \/ v[2][2] = IF Type(v) = "dir" THEN NoProps ELSE <<>>
                \/ HasLogs(Path(v))
=============================================================================
