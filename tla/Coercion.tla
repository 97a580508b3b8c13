------------------------------ MODULE Coercion ------------------------------
(* What becomes of a value where one of another type is wanted                  *)
(* (sdks/go/data/coerce).                                                      *)
EXTENDS Values

\* Items of an array that an op file initializes are in a box each, a Value: to
\* JSON they are what is in it, and a file, a dir or a socket is its path.
RECURSIVE Unbox(_)
Unbox(v) ==
    CASE Type(v) = "array" ->
            Array([i \in DOMAIN v[2] |->
                      IF Type(v[2][i]) = "box" THEN Unbox(v[2][i][2]) ELSE v[2][i]])
      [] Type(v) = "object" ->
            Object([n \in DOMAIN v[2] |->
                      IF Type(v[2][n]) = "box" THEN Unbox(v[2][n][2]) ELSE v[2][n]])
      [] Type(v) \in {"file", "dir", "socket"} -> String(PathText(Path(v)))
      [] OTHER -> v

\* json.Marshal of a Value and back (eventStore.go): what is in a box becomes a plain
\* object, of its type to the value.  (No array or object here was parsed of `null`: it
\* would come back as none.)
RECURSIVE FromJson(_)
FromJson(v) ==
    CASE Type(v) = "array" ->
            Array([i \in DOMAIN v[2] |->
                      IF Type(v[2][i]) # "box" THEN v[2][i]
                      ELSE LET item == v[2][i][2] IN
                           Object([t \in {Type(item)} |->
                                      IF Type(item) \in {"file", "dir", "socket"}
                                      THEN String(PathText(Path(item)))
                                      ELSE FromJson(item)])])
      [] OTHER -> v

\* What is parsed as `null` is one with nothing in it.
AsParsed(type, parsed, empty) ==
    IF parsed = Nil THEN empty ELSE IF Type(parsed) = type THEN parsed ELSE Error

ToArray(v) ==
    CASE Type(v) = "array" -> v
      [] Type(v) \in {"file", "string"} ->
            AsParsed("array", Parsed(Text(v)), Array(<<>>))
      [] OTHER -> Error

\* A null stays one.
ToObject(v) ==
    CASE Type(v) \in {"object", "nil"} -> v
      [] Type(v) \in {"file", "string"} ->
            AsParsed("object", Parsed(Text(v)), Object(NoProps))
      [] OTHER -> Error

\* Not of zeros alone, and not false.
IsStringTruthy(text) ==
    /\ \E i \in DOMAIN text : <<text[i]>> # Json(Number(0))
    /\ text \notin {Json(Boolean(FALSE)), <<Word("False")>>, <<Word("f")>>}

ToBoolean(v) ==
    CASE Type(v) = "nil" -> Boolean(FALSE)
      [] Type(v) \in {"array", "object"} -> Boolean(DOMAIN v[2] # {})
      [] Type(v) = "boolean" -> v
      [] Type(v) \in {"file", "string"} -> Boolean(IsStringTruthy(Text(v)))
      [] Type(v) = "number" -> Boolean(v[2] # 0)
      [] OTHER -> Error

ToNumber(v) ==
    CASE Type(v) = "nil" -> Number(0)
      [] Type(v) = "number" -> v
      [] Type(v) \in {"file", "string"} ->
            AsParsed("number", Parsed(Text(v)), Error)
      [] OTHER -> Error

\* Numbers and booleans are written as they are in JSON.
ToStr(v) ==
    CASE Type(v) = "nil" -> String(<<>>)
      [] Type(v) \in {"array", "object", "boolean", "number"} -> String(Json(Unbox(v)))
      [] Type(v) \in {"file", "string"} -> String(Text(v))
      [] OTHER -> Error

\* A new file, unless it is one.
ToFile(v, scratch) ==
    CASE Type(v) = "nil" -> File(scratch, <<>>)
      [] Type(v) = "file" -> v
      [] Type(v) \in {"array", "object", "boolean", "number"} ->
            File(scratch, Json(Unbox(v)))
      [] Type(v) = "string" -> File(scratch, v[2])
      [] OTHER -> Error

AsDir(items) ==
    IF \E n \in DOMAIN items : items[n] = Error THEN Error
    ELSE <<"dir", [n \in {m \in DOMAIN items : items[m] # <<"dir", NoProps>>} |-> items[n]]>>

\* What an object's property is as an entry of a dir: a file if all it has is
\* `data`.  A dir is made for a file that is in it, and nothing for no entries.
RECURSIVE CreateFileItem(_)
CreateFileItem(v) ==
    CASE Type(v) # "object" -> Error
      [] Type(v) = "object" /\ DOMAIN v[2] = {"data"} ->
            IF Type(v[2]["data"]) = "string" THEN <<"file", v[2]["data"][2]>> ELSE Error
      [] OTHER -> AsDir([n \in DOMAIN v[2] |-> CreateFileItem(v[2][n])])

\* A new dir, which can not be a file.
ToDir(v, scratch) ==
    CASE Type(v) = "dir" -> v
      [] Type(v) = "object" ->
            Then(CreateFileItem(v),
                 LAMBDA item : IF Type(item) = "dir" THEN Dir(scratch, item[2]) ELSE Error)
      [] OTHER -> Error
=============================================================================
