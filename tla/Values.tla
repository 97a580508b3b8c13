------------------------------- MODULE Values -------------------------------
(***************************************************************************)
(* Values and their types (sdks/go/model/data.go).                           *)
(*                                                                         *)
(* Text is a sequence of words, of paths, and of values that were written as *)
(* JSON; words are none.  A file comes with its text and a dir with what is  *)
(* in it: what is written to them by someone else, later, is not seen.       *)
(***************************************************************************)
EXTENDS Integers, Sequences

\* A null pointer, no entry in a map, an error and a panic.
Nil == <<"nil">>
Unset == <<"unset">>
Error == <<"error">>
Panic == <<"panic">>
Fails(v) == v \in {Error, Panic}

\* To go on with a value, if it is one; and with another one, if there is an error.
Then(v, To(_)) == IF Fails(v) THEN v ELSE To(v)
OrElse(v, other) == IF v = Error THEN other ELSE v

\* What comes of a call whose `if` does not hold, and of one of nothing but calls.
Skip == <<"skip">>
OnlyCalls == <<"calls">>

Type(v) == v[1]
Boolean(b) == <<"boolean", b>>
Number(n) == <<"number", n>>
String(text) == <<"string", text>>
Array(items) == <<"array", items>>
Object(props) == <<"object", props>>
Socket(at) == <<"socket", <<at>>>>
File(path, text) == <<"file", <<path, text>>>>
Dir(path, entries) == <<"dir", <<path, entries>>>>
Path(v) == v[2][1]

\* Of names, to values or Unset.
Map(m) == <<"map", m>>

Word(w) == <<"word", w>>
PathText(path) == <<<<"path", path>>>>
Json(v) == <<<<"json", v>>>>
NoProps == [n \in {} |-> n]

Text(v) == IF Type(v) = "file" THEN v[2][2] ELSE v[2]

\* json.Unmarshal, ParseFloat: what the text says, if it is JSON.
Parsed(text) ==
    IF Len(text) = 1 /\ text[1][1] = "json" THEN text[1][2] ELSE Error
=============================================================================
