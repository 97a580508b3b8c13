----------------------------- MODULE Interpreter -----------------------------
(***************************************************************************)
(* The language of op files: what their expressions, predicates and params   *)
(* come to in a scope (sdks/go/opspec/interpreter).                          *)
(*                                                                         *)
(* An expression is a value, an initializer of an array or an object, or     *)
(* text, which is words and refs.  A ref has the name of a variable, a path  *)
(* of identifiers in it, and then one of a dir's entries.  Identifiers are   *)
(* text or refs themselves.  Nothing is one of these because of what a       *)
(* variable holds: text in data has no refs in it.                           *)
(***************************************************************************)
EXTENDS Coercion
LOCAL INSTANCE SequencesExt

Expr(parts) == <<"text", parts>>

RefTo(root, path, entry) == <<"ref", [root |-> root, path |-> path, entry |-> entry]>>
Var(name) == Expr(<<RefTo(name, <<>>, <<>>)>>)

\* The dir of the op, and the one it is in.
OpDirs == {"/", "./", "../"}

\* To go on with results if all of them are values; or else with the first that is
\* none, or with a panic or an error, if any of them may be first.
OrFailure(failures, v) == IF failures = <<>> THEN v ELSE Head(failures)
ThenEach(results, To(_)) == OrFailure(SelectSeq(results, Fails), To(results))
ThenAll(results, To(_)) ==
    IF \E x \in DOMAIN results : results[x] = Panic THEN Panic
    ELSE IF \E x \in DOMAIN results : results[x] = Error THEN Error
    ELSE To(results)

\* There is a null pointer where a null is not expected.
NotNil(v) == IF v = Nil THEN Panic ELSE v

-----------------------------------------------------------------------------
(* References *)

\* A dir or a file is made where a container or an op may have one made.
Created(type, at) ==
    CASE type = "Dir" -> Dir(at, NoProps)
      [] type = "File" -> File(at, <<>>)
      [] type = "" -> Error

\* The variable; the dirs of an op are not there before it.
GetRootValue(root, s) == IF root \in OpDirs /\ s[root] = Unset THEN Nil ELSE s[root]

\* Construct has no case for null, nor for the box of an array's item.
Construct(item) == IF Type(item) \in {"nil", "box"} THEN Error ELSE item

\* From the end, if it is negative.
ParseIndex(n, items) ==
    IF Type(n) # "number" THEN 0
    ELSE IF n[2] < 0 THEN Len(items) + n[2] + 1 ELSE n[2] + 1

ItemAt(i, items) == IF i \in DOMAIN items THEN Construct(items[i]) ELSE Error
InterpretItem(text, items) == ItemAt(ParseIndex(Parsed(text), items), items)

CoerceToArrayOrObject(v) == OrElse(ToArray(v), ToObject(v))

PropertyOf(v, text) ==
    IF \E n \in DOMAIN v[2] : text = <<Word(n)>>
    THEN Construct(v[2][text[1][2]])
    ELSE Error

InterpretBracketed(v, text) ==
    Then(NotNil(CoerceToArrayOrObject(v)),
         LAMBDA d : IF Type(d) = "array" THEN InterpretItem(text, d[2]) ELSE PropertyOf(d, text))

InterpretUnbracketed(v, text) ==
    Then(NotNil(v), LAMBDA d : Then(ToObject(d), LAMBDA o : PropertyOf(o, text)))

\* os.Stat: an entry, or that there is none or a file is taken for a dir.
Find(entries, names) ==
    FoldLeft(LAMBDA at, n : IF Type(at) # "dir" THEN Error
                            ELSE IF n \in DOMAIN at[2] THEN at[2][n] ELSE Unset,
             <<"dir", entries>>, names)

AsEntry(entry, path, type) ==
    CASE Type(entry) = "dir" -> Dir(path, entry[2])
      [] Type(entry) = "file" -> File(path, entry[2])
      [] entry = Unset -> Created(type, path)
      [] OTHER -> Error

\* Nobody looks whether it is a dir.
InterpretDirEntry(v, names, type) ==
    IF Type(v) # "dir" THEN Panic
    ELSE AsEntry(Find(v[2][2], names), Path(v) \o names, type)

RECURSIVE InterpretRef(_, _, _, _)

\* Refs in a ref are text of it before all else.
Identifier(id, s) ==
    IF Type(id) # "ref" THEN String(<<id>>) ELSE Then(InterpretRef(id[2], s, "", <<>>), ToStr)

\* The texts of a ref's identifiers lead to what is in the variable.
Follow(v, path, ids) ==
    FoldLeft(LAMBDA at, i :
                Then(at, LAMBDA d : IF path[i][1] = "[" THEN InterpretBracketed(d, ids[i][2])
                                                        ELSE InterpretUnbracketed(d, ids[i][2])),
             v, [i \in DOMAIN ids |-> i])

\* A file or a dir that is made has nothing else of the ref.
FromRoot(v, r, ids, type, at) ==
    IF v = Unset THEN Created(type, at)
    ELSE Then(Follow(v, r.path, ids),
              LAMBDA d : IF r.entry = <<>> /\ r.root \notin OpDirs THEN d
                         ELSE InterpretDirEntry(d, r.entry, type))

InterpretRef(r, s, type, at) ==
    ThenEach([i \in DOMAIN r.path |-> Identifier(r.path[i][2], s)],
             LAMBDA ids : FromRoot(GetRootValue(r.root, s), r, ids, type, at))

-----------------------------------------------------------------------------
(* Values *)

\* It begins and ends as a ref does, and may be two.
IsRefLike(e) ==
    /\ Type(e) = "text" /\ e[2] # <<>>
    /\ Type(e[2][1]) = "ref" /\ Type(e[2][Len(e[2])]) = "ref"

Dereferenced(e, s, type, at) ==
    IF Len(e[2]) = 1 THEN InterpretRef(e[2][1][2], s, type, at) ELSE Error

TryDeRef(part, s) == Identifier(part, s)

Interpolate(parts, s) ==
    ThenEach([i \in DOMAIN parts |-> TryDeRef(parts[i], s)],
             LAMBDA texts : String(FoldLeft(LAMBDA t, v : t \o v[2], <<>>, texts)))

\* A property of an object that is initialized: a file's text, and no dir or socket.
AsProperty(v) ==
    CASE Type(v) = "file" -> String(Text(v))
      [] Type(v) \in {"dir", "socket"} -> Error
      [] OTHER -> Unbox(v)

\* What a ref to a null is copied from is not there.  A ref that can not be
\* interpreted is tried again as text.
RECURSIVE Interpret(_, _)
Interpret(e, s) ==
    CASE Type(e) = "object" ->
            ThenAll([n \in DOMAIN e[2] |->
                        Then(Interpret(IF e[2][n] = Nil THEN Var(n) ELSE e[2][n], s), AsProperty)],
                    Object)
      [] Type(e) = "array" ->
            ThenEach([i \in DOMAIN e[2] |-> Interpret(e[2][i], s)],
                     LAMBDA items : Array([i \in DOMAIN items |-> <<"box", items[i]>>]))
      [] Type(e) = "text" ->
            OrElse(IF IsRefLike(e) THEN NotNil(Dereferenced(e, s, "", <<>>)) ELSE Error,
                   Interpolate(e[2], s))
      [] Type(e) = "box" -> e[2]
      [] Type(e) \in {"boolean", "number", "string"} -> e
      [] OTHER -> Error

InterpretArray(s, e) == Then(Interpret(e, s), ToArray)
InterpretBoolean(s, e) == Then(Interpret(e, s), ToBoolean)
InterpretNumber(s, e) == Then(Interpret(e, s), ToNumber)
InterpretObject(s, e) == Then(Interpret(e, s), ToObject)
InterpretStr(s, e) == Then(Interpret(e, s), ToStr)

\* A ref is looked at by itself first, as where one may be made, if one may.
InterpretMade(s, e, type, scratch) ==
    IF IsRefLike(e) THEN Dereferenced(e, s, type, scratch) ELSE Interpret(e, s)

\* A ref to a null is one to an empty file.
InterpretFile(s, e, scratch, create) ==
    Then(InterpretMade(s, e, IF create THEN "File" ELSE "", scratch),
         LAMBDA v : ToFile(v, scratch))

InterpretDir(s, e, scratch, create) ==
    Then(InterpretMade(s, e, IF create THEN "Dir" ELSE "", scratch),
         LAMBDA v : ToDir(v, scratch))

\* An array, or else an object.
InterpretLoopable(e, s) == OrElse(InterpretArray(s, e), InterpretObject(s, e))
=============================================================================
