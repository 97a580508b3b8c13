--------------------------- MODULE CallInterpreter ---------------------------
(***************************************************************************)
(* What a call in an op file comes to in a scope: its predicates, params and *)
(* parts (sdks/go/opspec/interpreter/call).                                  *)
(*                                                                         *)
(* Parts of a spec that are left out are Unset, and those that are named but *)
(* not given an expression Nil.                                              *)
(***************************************************************************)
EXTENDS Interpreter, FiniteSets

CONSTANTS
    Names,      \* names of variables and of properties, as sort.Strings has them
    RefToName,  \* the name in a reference to a variable, and a name itself
    NameToRef   \* the reference that a path in a container is of, if it has no other

IsIn(e) == e # Unset

-----------------------------------------------------------------------------
(* Predicates *)

\* The first of some items that is an error, or does not hold with those before it.
FirstStop(items, stops) ==
    IF stops = {} THEN Boolean(TRUE)
    ELSE LET i == CHOOSE j \in stops : \A k \in stops : j <= k
         IN  IF Fails(items[i]) THEN items[i] ELSE Boolean(FALSE)
Judged(items, Holds(_, _)) ==
    FirstStop(items, {i \in DOMAIN items : Fails(items[i]) \/ ~Holds(items, i)})

Each(es, s, As(_, _)) == [i \in DOMAIN es |-> As(s, es[i])]

\* previousItem is the first one, whichever comes after it.
Eq(es, s) ==
    Judged(Each(es, s, InterpretStr), LAMBDA items, i : items[i] = items[1])
Gt(es, s) ==
    Judged(Each(es, s, InterpretNumber), LAMBDA items, i : i = 1 \/ items[1][2] > items[i][2])
Gte(es, s) ==
    Judged(Each(es, s, InterpretNumber), LAMBDA items, i : items[1][2] >= items[i][2])
Lt(es, s) ==
    Judged(Each(es, s, InterpretNumber), LAMBDA items, i : i = 1 \/ items[1][2] < items[i][2])
Lte(es, s) ==
    Judged(Each(es, s, InterpretNumber), LAMBDA items, i : items[1][2] <= items[i][2])

Ne(es, s) ==
    Judged(Each(es, s, InterpretStr), LAMBDA items, i : \A j \in 1..i-1 : items[j] # items[i])

\* Whatever the error is.  A null is something.
Exists(r, s) ==
    LET v == InterpretRef(r, s, "", <<>>) IN IF v = Panic THEN Panic ELSE Boolean(v # Error)
NotExists(r, s) == Then(Exists(r, s), LAMBDA v : Boolean(~v[2]))

InterpretPredicate(p, s) ==
    CASE p[1] = "eq" -> Eq(p[2], s)
      [] p[1] = "exists" -> Exists(p[2], s)
      [] p[1] = "lt" -> Lt(p[2], s)
      [] p[1] = "lte" -> Lte(p[2], s)
      [] p[1] = "gt" -> Gt(p[2], s)
      [] p[1] = "gte" -> Gte(p[2], s)
      [] p[1] = "ne" -> Ne(p[2], s)
      [] p[1] = "notExists" -> NotExists(p[2], s)

\* The first that does not hold is the last that is looked at.
InterpretPredicates(ps, s) ==
    Judged([i \in DOMAIN ps |-> InterpretPredicate(ps[i], s)],
           LAMBDA results, i : results[i] = Boolean(TRUE))

-----------------------------------------------------------------------------
(* Params *)

\* Constraints are a set of values, or none.
Satisfies(v, constraints) == constraints # {} => v \in constraints

Allows(v, p) == v # Error /\ Satisfies(v, p.constraints)

ValidateArray(v, p) == Allows(Then(ToArray(v), Unbox), p)
ValidateNumber(v, p) == Allows(ToNumber(v), p)
ValidateObject(v, p) == Allows(Then(ToObject(v), Unbox), p)
ValidateStr(v, p) == Allows(ToStr(v), p)
ValidateBoolean(v) == Type(v) = "boolean"
ValidateDir(v) == Type(v) = "dir"
ValidateFile(v) == Type(v) = "file"
ValidateSocket(v) == Type(v) = "socket"

ValidateParam(v, p) ==
    /\ v \notin {Nil, Unset}
    /\ CASE p.type = "array" -> ValidateArray(v, p)
         [] p.type = "boolean" -> ValidateBoolean(v)
         [] p.type = "dir" -> ValidateDir(v)
         [] p.type = "file" -> ValidateFile(v)
         [] p.type = "number" -> ValidateNumber(v, p)
         [] p.type = "string" -> ValidateStr(v, p)
         [] p.type = "object" -> ValidateObject(v, p)
         [] p.type = "socket" -> ValidateSocket(v)

Validate(values, params) == \A n \in DOMAIN params : ValidateParam(values[n], params[n])

\* Mutant: values stay what they are.
CoerceNothing(v, p, scratch) == v

\* Every arg that has a param, as its type; dirs and sockets as they are.
CoerceArg(v, p, scratch) ==
    CASE p.type = "array" -> ToArray(v)
      [] p.type = "boolean" -> ToBoolean(v)
      [] p.type = "file" -> ToFile(v, scratch)
      [] p.type = "string" -> ToStr(v)
      [] p.type = "number" -> ToNumber(v)
      [] p.type = "object" -> ToObject(v)
      [] OTHER -> v

Coerce(values, params, root) ==
    [n \in DOMAIN values |->
        IF n \notin DOMAIN params \/ values[n] = Unset THEN Unset
        ELSE CoerceArg(values[n], params[n], Append(root, n))]

\* In the scope of the op's dirs.  A default of a file or a dir is not made.
DefaultOf(p, s, scratch) ==
    CASE p.default = Unset -> Unset
      [] p.type = "array" -> InterpretArray(s, p.default)
      [] p.type = "boolean" -> InterpretBoolean(s, p.default)
      [] p.type = "dir" -> InterpretDir(s, p.default, scratch, FALSE)
      [] p.type = "file" -> InterpretFile(s, p.default, scratch, FALSE)
      [] p.type = "number" -> InterpretNumber(s, p.default)
      [] p.type = "object" -> InterpretObject(s, p.default)
      [] p.type = "string" -> InterpretStr(s, p.default)
      [] OTHER -> Unset

OnlyDirs(names, dirs) ==
    [n \in names |-> IF n \in OpDirs THEN IF n = "../" THEN dirs.parent ELSE dirs.op ELSE Unset]

ApplyDefaults(values, params, dirs, root) ==
    [n \in DOMAIN values |->
        IF n \in DOMAIN params /\ values[n] = Unset
        THEN DefaultOf(params[n], OnlyDirs(DOMAIN values, dirs), Append(root, n))
        ELSE values[n]]

-----------------------------------------------------------------------------
(* Ops *)

\* Of a ref to one alone.
InterpretSocket(e, s) ==
    IF ~IsRefLike(e) THEN Error
    ELSE Then(NotNil(Dereferenced(e, s, "", <<>>)),
              LAMBDA v : IF Type(v) = "socket" THEN v ELSE Error)

InterpretArg(e, p, s, scratch) ==
    CASE p.type = "array" -> InterpretArray(s, e)
      [] p.type = "boolean" -> InterpretBoolean(s, e)
      [] p.type = "file" -> InterpretFile(s, e, scratch, TRUE)
      [] p.type = "dir" -> InterpretDir(s, e, scratch, TRUE)
      [] p.type = "number" -> InterpretNumber(s, e)
      [] p.type = "object" -> InterpretObject(s, e)
      [] p.type = "string" -> InterpretStr(s, e)
      [] p.type = "socket" -> InterpretSocket(e, s)

\* An arg that is null or "" is the variable of the input's name.
InterpretInput(n, arg, p, s, scratch) ==
    LET implicit == arg \in {Nil, Expr(<<>>)} IN
    IF implicit /\ s[n] = Unset THEN Error
    ELSE InterpretArg(IF implicit THEN Var(n) ELSE arg, p, s, scratch)

IfValid(values, params) == IF Validate(values, params) THEN Map(values) ELSE Error

\* Args that no param is for are errors; then defaults, then validation.
InterpretInputs(op, s, root) ==
    ThenAll([n \in DOMAIN s |->
                IF n \notin DOMAIN op.args THEN Unset
                ELSE IF n \notin DOMAIN op.inputs THEN Error
                ELSE InterpretInput(n, op.args[n], op.inputs[n], s, Append(root, n))],
            LAMBDA args : ThenAll(ApplyDefaults(args, op.inputs, op.dirs, root),
                                  LAMBDA all : IfValid(all, op.inputs)))

\* RefToName, of text.
NameIn(e) ==
    CASE e = Nil -> ""
      [] e # Nil /\ IsRefLike(e) -> e[2][1][2].root
      [] OTHER -> e[2][1][2]

\* The called op's outputs as they are declared.  Those that the call names have to
\* be among them; that it binds one is enough if it has names and binds swapped.
InterpretOutputs(op, values, root) ==
    ThenAll(Coerce(values, op.outputs, root),
            LAMBDA coerced :
                ThenAll(ApplyDefaults(coerced, op.outputs, op.dirs, root),
                        LAMBDA all :
                            IF \E n \in DOMAIN op.binds :
                                  {n, NameIn(op.binds[n])} \cap DOMAIN op.outputs = {}
                            THEN Error
                            ELSE IfValid(all, op.outputs)))

\* A ref of the op that is a variable has to be a dir.
InterpretOp(op, s, root) ==
    ThenEach(IF IsIn(op.pullCreds) THEN Each(op.pullCreds, s, InterpretStr) ELSE <<>>,
             LAMBDA creds :
                Then(IF IsIn(op.ref) THEN InterpretDir(s, op.ref, Append(root, "ref"), FALSE) ELSE Unset,
                     LAMBDA ref : InterpretInputs(op, s, root)))

\* Outputs by the variables that they are bound to: of the same name if none is
\* given, and the other way round in the obsolete syntax, without a ref.
Bindings(binds) ==
    {CASE binds[n] = Nil -> <<n, n>>
       [] binds[n] # Nil /\ IsRefLike(binds[n]) -> <<n, NameIn(binds[n])>>
       [] OTHER -> <<NameIn(binds[n]), n>> : n \in DOMAIN binds}

BindOutputs(binds, values) ==
    [k \in DOMAIN values |->
        IF \E b \in Bindings(binds) : b[2] = k
        THEN values[(CHOOSE b \in Bindings(binds) : b[2] = k)[1]]
        ELSE Unset]

-----------------------------------------------------------------------------
(* Containers *)

InterpretCmd(s, e) ==
    IF e = Unset THEN Array(<<>>)
    ELSE Then(InterpretArray(s, e),
              LAMBDA cmd : ThenEach(Each(cmd[2], s, InterpretStr), Array))

InterpretEnvVars(s, e) ==
    IF e = Unset THEN Object(NoProps)
    ELSE Then(InterpretObject(s, e),
              LAMBDA vars : ThenAll([n \in DOMAIN vars[2] |-> Then(Construct(vars[2][n]), ToStr)],
                                    Object))

\* Ops are kept in the data dir, and copied so that no container writes to them.
IsCached(path) == path[1] = "cache"

\* Mutant: only dirs are copied.
KeptUnlessDir(v, scratch) ==
    IF Type(v) = "dir" /\ IsCached(Path(v)) THEN Dir(scratch, v[2][2]) ELSE v

Kept(v, scratch) ==
    IF ~IsCached(Path(v)) THEN v
    ELSE IF Type(v) = "dir" THEN Dir(scratch, v[2][2]) ELSE File(scratch, v[2][2])

InterpretDirs(s, dirs, root) ==
    ThenAll([at \in DOMAIN dirs |->
        Then(InterpretDir(s, IF dirs[at] = Nil THEN NameToRef[at] ELSE dirs[at], Append(root, at), TRUE),
             LAMBDA v : Kept(v, Append(root, at)))], Map)

InterpretFiles(s, files, root) ==
    ThenAll([at \in DOMAIN files |->
        Then(InterpretFile(s, IF files[at] = Nil THEN NameToRef[at] ELSE files[at], Append(root, at), TRUE),
             LAMBDA v : Kept(v, Append(root, at)))], Map)

InterpretPlatform(s, e) == InterpretStr(s, e)

\* A dir, or else what the name of an image may be.
InterpretImage(s, image, root) ==
    OrElse(InterpretDir(s, image.ref, Append(root, "image"), FALSE),
           ThenEach(<<InterpretStr(s, image.ref),
                      IF IsIn(image.platform) THEN InterpretPlatform(s, image.platform) ELSE Unset>>
                        \o (IF IsIn(image.pullCreds)
                            THEN Each(image.pullCreds, s, InterpretStr) ELSE <<>>),
                    LAMBDA texts : IF texts[1][2] = <<>> THEN Error ELSE texts[1]))

\* Other addresses are of the network, and nothing is made for them.
IsUnixSocketAddress(address) == address # "0.0.0.0"

InterpretSockets(s, sockets, root) ==
    ThenAll([at \in DOMAIN sockets |->
        LET v == s[sockets[at].root] IN
        CASE v = Unset -> IF IsUnixSocketAddress(at) THEN Socket(Append(root, at)) ELSE Unset
          [] v # Unset /\ Type(v) # "socket" -> Panic
          [] OTHER -> v], Map)

\* Names of volumes are not empty, and have no sign of arrays, objects or paths.
IsVolumeName(text) ==
    text # <<>> /\ \A i \in DOMAIN text :
        Type(text[i]) = "word" \/ (Type(text[i]) = "json" /\ Type(text[i][2]) = "number")

InterpretVolumes(s, volumes) ==
    ThenAll([at \in DOMAIN volumes |->
        Then(InterpretStr(s, volumes[at]),
             LAMBDA name : IF IsVolumeName(name[2]) THEN name ELSE Error)], Map)

\* The dir as it is: there is no copy.
InterpretLogs(s, dir, root) ==
    IF dir = Unset THEN Unset ELSE InterpretDir(s, dir, Append(root, "log"), TRUE)

TextIn(s, e) == IF IsIn(e) THEN InterpretStr(s, e) ELSE Unset

\* All of the parts, or the first that can not be interpreted.
InterpretContainer(spec, s, root) ==
    ThenEach(<<InterpretCmd(s, spec.cmd),
               InterpretDirs(s, spec.dirs, root),
               InterpretEnvVars(s, spec.envVars),
               InterpretFiles(s, spec.files, root),
               InterpretImage(s, spec.image, root),
               TextIn(s, spec.containerName),
               TextIn(s, spec.workDir),
               InterpretSockets(s, spec.sockets, root),
               InterpretVolumes(s, spec.volumes),
               InterpretLogs(s, spec.log, root)>>,
             LAMBDA parts : <<"container", [dirs |-> parts[2][2], files |-> parts[4][2],
                                            log |-> parts[10]]>>)

\* What a container leaves where its files and dirs are.
Written(v, at, writes) ==
    CASE at \notin DOMAIN writes -> v
      [] at \in DOMAIN writes /\ Type(v) = "file" -> File(Path(v), writes[at])
      [] OTHER -> Dir(Path(v), writes[at])

\* containerlog.Resolve: the log files are named and made in it.
LoggedTo(call) == IF call.log = Unset THEN {} ELSE {Path(call.log)}

\* Where a container's files and dirs are, and its logs, by itself and the node.
WrittenTo(call) ==
    LoggedTo(call) \cup {Path(call.dirs[at]) : at \in DOMAIN call.dirs}
                   \cup {Path(call.files[at]) : at \in DOMAIN call.files}

\* Files and dirs that text is given for are outputs, by the name that is in it; and
\* a container's address, by its name as it is written.
InterpretContainerOutputs(spec, call, names, id) ==
    LET For(binds, k) ==
            {at \in DOMAIN binds : binds[at] \in {Var(k), Expr(<<Word(k)>>)}}
        Taken(bound, at) == Written(bound[at], at, spec.writes)
    IN  [k \in names |->
            CASE For(spec.dirs, k) # {} -> Taken(call.dirs, CHOOSE at \in For(spec.dirs, k) : TRUE)
              [] For(spec.dirs, k) = {} /\ For(spec.files, k) # {} ->
                    Taken(call.files, CHOOSE at \in For(spec.files, k) : TRUE)
              [] OTHER -> IF "0.0.0.0" \in DOMAIN spec.sockets /\ spec.sockets["0.0.0.0"].name = k
                          THEN Socket(id) ELSE Unset]

-----------------------------------------------------------------------------
(* Loops *)

Size(range) == Cardinality(DOMAIN range[2])

\* No number of iterations.
Endless == -1

With(m, var, v) == IF var = "" THEN m ELSE [m EXCEPT ![RefToName[var]] = v]

\* The key of an object's item, and then the item, which may have refs itself if it
\* is in an op file.
WithItem(m, vars, item) ==
    IF vars.value = "" THEN Map(m)
    ELSE Then(Interpret(item, m), LAMBDA v : Map(With(m, vars.value, v)))

WithProperty(m, vars, name, item) ==
    WithItem(With(m, vars.key, String(<<Word(name)>>)), vars, item)

SortMap(props) == SelectSeq(Names, LAMBDA n : n \in DOMAIN props)

InRange(i, m, vars, range) ==
    IF i >= Size(range) THEN Map(m)
    ELSE IF Type(range) = "array" THEN WithItem(m, vars, range[2][i + 1])
    ELSE WithProperty(m, vars, SortMap(range[2])[i + 1], range[2][SortMap(range[2])[i + 1]])

InLoop(i, m, loop) ==
    IF ~IsIn(loop.range) THEN Map(m)
    ELSE Then(InterpretLoopable(loop.range, m),
              LAMBDA range : InRange(i, m, loop.vars[2], range))

\* iteration.Scope, with vars: the index, and the item if there is one.
IterationScope(i, s, loop) == InLoop(i, With(s, loop.vars[2].index, Number(i)), loop)

\* loop.DeScope, with vars: the names that the spec has, which may be references; the
\* key's and the value's only if there is no range.
DeScoped(loop) ==
    {loop.vars[2].index} \cup
        IF IsIn(loop.range) THEN {} ELSE {loop.vars[2].key, loop.vars[2].value}

InterpretSerialLoop(loop, s) ==
    ThenEach(<<IF IsIn(loop.range) THEN InterpretLoopable(loop.range, s) ELSE Unset,
               IF loop.until = <<>> THEN Boolean(FALSE) ELSE InterpretPredicates(loop.until, s)>>,
             LAMBDA parts :
                <<"loop", [length |-> IF IsIn(loop.range) THEN Size(parts[1]) ELSE Endless,
                           until |-> parts[2][2]]>>)

InterpretParallelLoop(loop, s) ==
    Then(InterpretLoopable(loop.range, s),
         LAMBDA range : <<"loop", [length |-> Size(range), until |-> FALSE]>>)

-----------------------------------------------------------------------------

\* A call whose `if` does not hold has nothing else interpreted but its name.
InterpretCall(kind, call, s, root) ==
    ThenEach(<<TextIn(s, call.name), InterpretPredicates(call.if, s)>>,
             LAMBDA parts :
                CASE parts[2] = Boolean(FALSE) -> Skip
                  [] parts[2] = Boolean(TRUE) /\ kind = "container" ->
                        InterpretContainer(call.spec, s, root)
                  [] parts[2] = Boolean(TRUE) /\ kind = "op" ->
                        InterpretOp(call.spec, s, root)
                  [] parts[2] = Boolean(TRUE) /\ kind = "parallelLoop" ->
                        InterpretParallelLoop(call.spec, s)
                  [] parts[2] = Boolean(TRUE) /\ kind = "serialLoop" ->
                        InterpretSerialLoop(call.spec, s)
                  [] OTHER -> OnlyCalls)
=============================================================================
