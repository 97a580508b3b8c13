------------------------------ MODULE MCScopes ------------------------------
(* Op files for OpCalls, with a handful of calls each.  Calls are named by the   *)
(* op they are of, and every container writes its own name.                    *)
EXTENDS OpCalls, TLC

AllKeys == {"x", "y", "r", "i", "s", "$(i)", "$(y)", "/", "./", "../"}
AllRefs == [k \in AllKeys |-> CASE k = "$(i)" -> "i" [] k = "$(y)" -> "y" [] OTHER -> k]
AllNames == <<"a", "b", "dir", "i", "r", "s", "string", "x", "y">>

\* Expressions
Parts(parts) == <<"text", parts>>
To(root, path, names) == <<"ref", [root |-> root, path |-> path, entry |-> names]>>
V(n) == Parts(<<To(n, <<>>, <<>>)>>)
T(text) == Parts(<<Word(text)>>)
At(root, path) == Parts(<<To(root, path, <<>>)>>)
Entry(root, names) == Parts(<<To(root, <<>>, names)>>)
Ref(e) == e[2][1]
Texts(es) == <<"array", es>>

AllPaths == "/sub" :> Entry("/", <<"sub">>) @@ "/seed" :> Entry("/", <<"seed">>)

\* Predicates
Has(n) == <<"exists", Ref(V(n))[2]>>
HasNo(n) == <<"notExists", Ref(V(n))[2]>>

\* Every op is in the cache but one.
Ops == [n \in {"op1", "in1", "op2", "op3", "op4", "op5", "op6", "op7", "op10",
               "op11", "in11", "op12", "op13", "op14", "in14"} |->
           <<"dir", "seed" :> <<"file", <<Word(n)>>>>
                    @@ "sub" :> <<"dir", "leaf" :> <<"file", Json(Number(2))>>>>>>]
DirsOf(n) ==
    IF n \in DOMAIN Ops
    THEN [op |-> Dir(<<"cache", n>>, Ops[n][2]), parent |-> Dir(<<"cache">>, Ops)]
    ELSE [op |-> Dir(<<"home", n>>, NoProps), parent |-> Dir(<<"home">>, NoProps)]

-----------------------------------------------------------------------------
(* The calls.  Those that are not in Trees are of containers. *)

OpOf(c) == [kind |-> "op", run |-> <<c>>, hasVars |-> FALSE]
Calling(kind, cs) == [kind |-> kind, run |-> cs, hasVars |-> FALSE]
WithVars(kind, cs) == [kind |-> kind, run |-> cs, hasVars |-> TRUE]

In(op, containers, others) ==
    [c \in containers \cup DOMAIN others |->
        [within |-> op] @@ IF c \in DOMAIN others THEN others[c] ELSE Calling("container", <<>>)]

Trees ==
    In(None, {},
       "op1" :> OpOf("seq1") @@ "op2" :> OpOf("seq2") @@ "op3" :> OpOf("par3")
       @@ "op4" :> OpOf("seq4") @@ "op5" :> OpOf("seq5") @@ "op6" :> OpOf("seq6")
       @@ "op7" :> OpOf("loop7") @@ "op8" :> OpOf("par8") @@ "op9" :> OpOf("a9")
       @@ "op10" :> OpOf("par10") @@ "op11" :> OpOf("seq11") @@ "op12" :> OpOf("seq12")
       @@ "op13" :> OpOf("a13") @@ "op14" :> OpOf("in14") @@ "op15" :> OpOf("a15")
       @@ "op16" :> OpOf("loop16") @@ "op17" :> OpOf("loop17") @@ "op18" :> OpOf("loop18")
       @@ "op19" :> OpOf("seq19"))
    @@ In("op1", {"a1", "b1", "d1", "e1"},
          "seq1" :> Calling("serial", <<"a1", "par1", "e1">>)
          @@ "par1" :> Calling("parallel", <<"ser1", "in1", "d1">>)
          @@ "ser1" :> Calling("serial", <<"b1">>)
          @@ "in1" :> OpOf("c1"))
    @@ In("in1", {"c1"}, <<>>)
    @@ In("op2", {"a2", "b2", "d2"},
          "seq2" :> Calling("serial", <<"loop2", "d2">>)
          @@ "loop2" :> WithVars("serialLoop", <<"s2", "t2">>)
          @@ "s2" :> Calling("serial", <<"a2">>) @@ "t2" :> Calling("serial", <<"b2">>))
    @@ In("op3", {"a3", "b3", "d3"},
          "par3" :> Calling("parallel", <<"loop3", "ser3">>)
          @@ "loop3" :> WithVars("parallelLoop", <<"a3", "b3">>)
          @@ "ser3" :> Calling("serial", <<"d3">>))
    @@ In("op4", {"a4", "b4", "f4", "g4", "d4"},
          "seq4" :> Calling("serial", <<"until4", "loop4", "d4">>)
          @@ "until4" :> Calling("serialLoop", <<"a4", "b4">>)
          @@ "loop4" :> Calling("parallelLoop", <<"f4", "g4">>))
    @@ In("op5", {"f5", "p5", "g5", "h5", "k5", "a5", "b5"},
          "seq5" :> Calling("serial", <<"none5", "void5", "same5", "more5">>)
          @@ "none5" :> WithVars("parallelLoop", <<"f5">>)
          @@ "void5" :> WithVars("serialLoop", <<"p5">>)
          @@ "same5" :> Calling("serialLoop", <<"g5", "h5", "k5">>)
          @@ "more5" :> Calling("serialLoop", <<"a5", "b5">>))
    @@ In("op6", {"a6", "b6", "d6"},
          "seq6" :> Calling("serial", <<"loop6", "in6", "d6">>)
          @@ "loop6" :> WithVars("serialLoop", <<"a6", "b6">>)
          @@ "in6" :> OpOf("c6"))
    @@ In("in6", {}, "c6" :> Calling("serial", <<"f6">>) @@ "f6" :> WithVars("serialLoop", <<>>))
    @@ In("op7", {"c7", "d7", "e7", "f7"},
          "loop7" :> Calling("parallelLoop", <<"a7", "b7">>)
          @@ "a7" :> Calling("serialLoop", <<"c7", "d7">>)
          @@ "b7" :> Calling("serialLoop", <<"e7", "f7">>))
    @@ In("op8", {"a8"},
          "par8" :> Calling("parallel", <<"a8", "loop8", "pl8">>)
          @@ "loop8" :> Calling("serialLoop", <<>>)
          @@ "pl8" :> WithVars("parallelLoop", <<>>))
    @@ In("op9", {"a9"}, <<>>)
    @@ In("op10", {"a10", "k10"},
          "par10" :> Calling("parallel", <<"ser10", "k10">>)
          @@ "ser10" :> Calling("serial", <<"loop10">>)
          @@ "loop10" :> WithVars("parallelLoop", <<"a10">>))
    @@ In("op11", {"a11", "k11", "l11", "b11", "d11"},
          "seq11" :> Calling("serial", <<"par11", "b11", "in11", "d11">>)
          @@ "par11" :> Calling("parallel", <<"a11", "loop11">>)
          @@ "loop11" :> WithVars("serialLoop", <<"k11", "l11">>)
          @@ "in11" :> OpOf("c11"))
    @@ In("in11", {"c11"}, <<>>)
    @@ In("op12", {"a12"},
          "seq12" :> Calling("serial", <<"loop12", "a12">>)
          @@ "loop12" :> WithVars("serialLoop", <<>>))
    @@ In("op13", {"a13"}, <<>>)
    @@ In("op14", {}, "in14" :> OpOf("c14")) @@ In("in14", {"c14"}, <<>>)
    @@ In("op15", {"a15"}, <<>>)
    @@ In("op16", {"a16", "b16"}, "loop16" :> Calling("serialLoop", <<"a16", "b16">>))
    @@ In("op17", {"a17", "b17"}, "loop17" :> WithVars("parallelLoop", <<"a17", "b17">>))
    @@ In("op18", {"b18"},
          "loop18" :> Calling("parallelLoop", <<"a18">>) @@ "a18" :> Calling("serialLoop", <<"b18">>))
    @@ In("op19", {"a19", "b19", "c19"},
          "seq19" :> Calling("serial", <<"ser19", "loop19">>)
          @@ "ser19" :> Calling("serial", <<"a19">>)
          @@ "loop19" :> WithVars("serialLoop", <<"b19", "c19">>))

AllCalls == DOMAIN Trees
AllTrees == [c \in AllCalls |-> Trees[c]]    \* TLC looks a call up faster in this form

-----------------------------------------------------------------------------
(* What each call says. *)

Call(spec) == [name |-> Unset, if |-> <<>>, spec |-> spec]

Loop0 == [range |-> Unset, until |-> <<>>, vars |-> Unset]
LoopOver(range) == Call([Loop0 EXCEPT !.range = range])
LoopVars(range, index, key, value) ==
    Call([range |-> range, until |-> <<>>,
          vars |-> <<"vars", [index |-> index, key |-> key, value |-> value]>>])
Until(n) == Call([Loop0 EXCEPT !.until = <<Has(n)>>])

Container0 ==
    [cmd |-> Unset, dirs |-> NoProps, envVars |-> Unset, files |-> NoProps,
     image |-> [ref |-> T("alpine"), platform |-> Unset, pullCreds |-> Unset],
     containerName |-> Unset, workDir |-> Unset, sockets |-> NoProps, volumes |-> NoProps,
     log |-> Unset, writes |-> NoProps, uses |-> {}, names |-> {}]

\* One that is run with variables, and leaves its name in others' files.
Container(uses, names) == Call([Container0 EXCEPT !.uses = uses, !.names = names])

\* One that is run with some texts, and leaves a text in the files of some variables.
Make(es, makes, text) ==
    Call([Container0 EXCEPT !.cmd = Texts(es), !.files = [n \in makes |-> V(n)],
                            !.writes = [n \in makes |-> text]])

Sorted(ns) == SelectSeq(AllNames, LAMBDA n : n \in ns)
Cmd(names) == Texts([j \in DOMAIN names |-> V(names[j])])

Complete(c, call) ==
    IF Trees[c].kind # "container" THEN call
    ELSE [call EXCEPT !.spec.cmd = IF @ = Unset THEN Cmd(Sorted(call.spec.uses)) ELSE @,
                      !.spec.files = [n \in call.spec.names |-> V(n)] @@ @,
                      !.spec.writes = [n \in call.spec.names |-> <<Word(c)>>] @@ @]

P(type) == [type |-> type, default |-> Unset, constraints |-> {}]
PD(type, e) == [type |-> type, default |-> e, constraints |-> {}]
CallOf(op, args, inputs, outputs, binds) ==
    Call([ref |-> Unset, pullCreds |-> Unset, args |-> args, inputs |-> inputs,
          outputs |-> outputs, binds |-> binds, dirs |-> DirsOf(op)])
\* StartOp: args and outputs by their own names.
Started(op, inputs, outputs) ==
    CallOf(op, [n \in DOMAIN inputs \cap {"x", "r"} |-> Nil], inputs, outputs,
           [n \in DOMAIN outputs |-> Nil])

X == "x" :> P("string")
RX == X @@ "r" :> P("array")

\* 1: a serial call and an op side by side, which both output x's successors.
Says1 ==
    "op1" :> Started("op1", X @@ "i" :> PD("number", Number(7)), "y" :> P("string"))
    @@ "a1" :> Container({"x"}, {"x"})
    @@ "b1" :> [Container({"x"}, {"x", "r"}) EXCEPT !.if = <<Has("i")>>]
    @@ "in1" :> CallOf("in1", "y" :> V("x"), "y" :> P("string"),
                       "x" :> P("string") @@ "i" :> PD("boolean", T("f")), "x" :> V("y"))
    @@ "c1" :> Container({"y"}, {"x", "r"})
    @@ "d1" :> [Container({}, {"x"}) EXCEPT !.if = <<HasNo("y"), Has("i")>>]
    @@ "e1" :> [Container({"x", "y"}, {"y"}) EXCEPT !.if = <<Has("r")>>]

\* 2: a serial loop with vars, and what comes after it.
Says2 ==
    "op2" :> Started("op2", RX, NoProps)
    @@ "loop2" :> LoopVars(V("r"), "$(i)", "", "y")
    @@ "a2" :> Container({"i", "y"}, {"x"}) @@ "b2" :> Container({"i", "x"}, {})
    @@ "d2" :> Container({"x"}, {})

\* 3: a parallel loop beside another call.
Says3 ==
    "op3" :> Started("op3", RX, NoProps)
    @@ "loop3" :> LoopVars(V("r"), "$(i)", "", "y")
    @@ "a3" :> Container({"i"}, {"x"}) @@ "b3" :> Container({"i"}, {"y"})
    @@ "d3" :> Make(<<V("x")>>, {"r"}, Json(Array(<<>>)))

\* 4: loops without vars, one until there is y, and one in parallel, by itself.
Says4 ==
    "op4" :> Started("op4", RX, NoProps)
    @@ "until4" :> Until("y")
    @@ "a4" :> Container({}, {"x"}) @@ "b4" :> Container({"x"}, {"y"})
    @@ "loop4" :> LoopOver(V("r"))
    @@ "f4" :> Container({"y"}, {"y"}) @@ "g4" :> Container({"y"}, {"x"})
    @@ "d4" :> Container({"x"}, {})

\* 5: an iteration that sets the range anew, loops that do not, and ones that have
\* nothing to do.
NoItems == Array(<<>>)
Says5 ==
    "op5" :> Started("op5", RX, NoProps)
    @@ "none5" :> LoopVars(NoItems, "i", "", "y") @@ "f5" :> Container({}, {"y"})
    @@ "void5" :> LoopVars(NoItems, "i", "", "y") @@ "p5" :> Container({}, {"y"})
    @@ "same5" :> LoopOver(V("r"))
    @@ "g5" :> Container({}, {"x"}) @@ "h5" :> Container({}, {"y"})
    @@ "more5" :> LoopOver(V("r"))
    @@ "a5" :> Make(<<>>, {"r"}, Json(NoItems)) @@ "b5" :> Container({}, {"y"})

\* 6: a variable that a loop leaves null, which an output is made of, or which fails.
Says6 ==
    "op6" :> CallOf("op6", "r" :> Nil, "r" :> P("array"), "i" :> P("number"), "i" :> V("x"))
    @@ "loop6" :> LoopVars(V("r"), "i", "", "y")
    @@ "a6" :> Container({"i"}, {}) @@ "b6" :> Container({"y"}, {})
    @@ "in6" :> CallOf("in6", "y" :> T("1"), "y" :> P("string"), "i" :> P("number"), "i" :> V("x"))
    @@ "f6" :> LoopVars(NoItems, "i", "", "")
    @@ "d6" :> [Container({"x"}, {"y"}) EXCEPT !.if = <<Has("i")>>]

\* 7: iterations that write to the one scope of a parallel loop without vars.
Says7 ==
    "op7" :> Started("op7", RX, NoProps)
    @@ "loop7" :> LoopOver(V("r")) @@ "a7" :> Until("y") @@ "b7" :> Until("y")
    @@ "c7" :> Container({}, {"x"}) @@ "d7" :> Container({}, {"y"})
    @@ "e7" :> Container({}, {"y"}) @@ "f7" :> Container({}, {"x"})

\* 8: an output that is not there, of an op that is not in the cache; loops over
\* nothing.  9: an arg that is of no input.
Says8 ==
    "op8" :> Started("op8", X, "y" :> P("file"))
    @@ "a8" :> Container({"x"}, {"x"})
    @@ "loop8" :> [LoopOver(V("i")) EXCEPT !.if = <<Has("i")>>]
    @@ "pl8" :> LoopVars(NoItems, "x", "", "")
    @@ "op9" :> [Started("op9", X, NoProps) EXCEPT !.spec.args = "y" :> V("x")]

\* 10: a loop that writes to the scope it is given, which is not its neighbour's.
Says10 ==
    "op10" :> Started("op10", X, NoProps)
    @@ "loop10" :> LoopVars(Array(<<T("one")>>), "i", "", "")
    @@ "a10" :> Container({}, {"y"}) @@ "k10" :> Container({"x"}, {})

\* 11: what is in an op's dir: a default, a file that a container writes to, a dir
\* that is not there, and one that another op is given and gives back.
Says11 ==
    "op11" :> Started("op11", "x" :> P("string") @@ "y" :> PD("file", Entry("./", <<"seed">>)),
                      "y" :> P("string") @@ "i" :> P("number") @@ "r" :> P("dir") @@ "x" :> P("object"))
    @@ "a11" :> [Container({"y"}, {"y"}) EXCEPT
                    !.spec.dirs = "/new" :> Entry("./", <<"new">>) @@ "/all" :> V("r"),
                    !.spec.writes = @ @@ "/all" :> ("leaf" :> <<"file", <<Word("new")>>>>),
                    !.spec.sockets = "0.0.0.0" :> [root |-> "s", name |-> "s"],
                    !.spec.volumes = "/vol" :> V("x"),
                    !.spec.workDir = T("/"), !.spec.containerName = V("x"),
                    !.spec.log = Entry("./", <<"sub">>)]
    @@ "loop11" :> LoopVars(<<"object", "b" :> V("x") @@ "a" :> T("1")>>, "", "$(i)", "y")
    @@ "k11" :> [Container({"i", "y"}, {"x"}) EXCEPT
                    !.name = V("i"), !.if = <<<<"eq", <<V("i"), T("a")>>>>>>,
                    !.spec.envVars = Object([a |-> V("x"), b |-> At("y", <<>>)])]
    @@ "l11" :> [Container({"y"}, {"x"}) EXCEPT
                    !.if = <<<<"ne", <<V("i"), T("a")>>>>,
                             <<"gt", <<Number(2), Entry("./", <<"sub", "leaf">>)>>>>>>]
    @@ "b11" :> [Make(<<>>, {"x"}, Json(Object([a |-> Number(1), b |-> Array(<<Number(0), Number(5)>>)])))
                    EXCEPT !.spec.dirs = "/sub" :> Nil, !.spec.files = @ @@ "/seed" :> Nil]
    @@ "in11" :> CallOf("in11",
                        "y" :> Entry("./", <<"sub">>) @@ "s" :> Nil
                            @@ "r" :> At("x", <<<<".", Word("b")>>, <<"[", Json(Number(-1))[1]>>>>),
                        "y" :> P("dir") @@ "s" :> P("socket") @@ "r" :> P("number"),
                        "y" :> P("dir") @@ "i" :> P("number") @@ "x" :> PD("array", NoItems),
                        "y" :> T("x") @@ "i" :> V("i"))
    @@ "c11" :> [Make(<<Entry("y", <<"leaf">>), V("r")>>, {"i"}, Json(Number(3))) EXCEPT
                    !.if = <<<<"lte", <<Number(2), V("r")>>>>, <<"gte", <<V("r"), Number(5)>>>>,
                             <<"lt", <<Number(0), Number(5)>>>>>>,
                    !.spec.dirs = "/y" :> V("y"),
                    !.spec.sockets = "/sock" :> [root |-> "s", name |-> "s"],
                    !.spec.writes = @ @@ "/y" :> NoProps]
    @@ "d11" :> [Container({"x"}, {}) EXCEPT !.spec.image.ref = V("./"),
                                             !.spec.image.platform = T("arm")]

\* 12: a text that is a null.  13: an item that is not there.
Says12 ==
    "op12" :> Started("op12", X, NoProps)
    @@ "loop12" :> LoopVars(NoItems, "i", "", "")
    @@ "a12" :> Container({"i"}, {})
    @@ "op13" :> Started("op13", RX, NoProps)
    @@ "a13" :> Make(<<At("r", <<<<"[", Json(Number(2))[1]>>>>)>>, {}, <<>>)

\* 14: an op that is in a dir, with args and defaults of every type.  15: one with
\* a value that is not allowed.
Allowed == [type |-> "string", default |-> Unset, constraints |-> {String(<<Word("other")>>)}]
Says14 ==
    "op14" :> Started("op14", RX, "y" :> P("boolean"))
    @@ "in14" :> [CallOf("in14",
                         "x" :> V("r") @@ "r" :> <<"object", "x" :> Nil @@ "a" :> Entry("./", <<"seed">>)>>
                             @@ "y" :> V("./") @@ "i" :> Parts(<<Word("no"), Ref(V("x"))>>),
                         "x" :> P("array") @@ "r" :> P("object") @@ "y" :> P("dir") @@ "i" :> P("boolean")
                             @@ "s" :> PD("string", Boolean(TRUE)) @@ "$(i)" :> PD("dir", V("./"))
                             @@ "$(y)" :> PD("object", Object("a" :> Number(0))),
                         "i" :> P("boolean"), "i" :> V("y")) EXCEPT
                    !.spec.ref = Entry("./", <<"sub">>), !.spec.pullCreds = <<V("x"), T("pass")>>]
    @@ "c14" :> Make(<<Entry("y", <<"seed">>), V("s")>>, {"i"}, Json(Boolean(FALSE)))
    @@ "op15" :> [Started("op15", X, NoProps) EXCEPT !.spec.inputs = "x" :> Allowed]

\* 16: loops whose range is none any more when they go on.  17: an `if` and refs in
\* refs.
Items2 == Parts(Json(Array(<<Array(<<Number(4), Number(5)>>), Number(3)>>)))
Says16 ==
    "op16" :> Started("op16", RX, NoProps)
    @@ "loop16" :> LoopOver(V("r")) @@ "a16" :> Container({}, {"r"})
    @@ "op17" :> Started("op17", X @@ "i" :> PD("number", Number(0)) @@ "s" :> PD("array", Items2),
                         NoProps)
    @@ "loop17" :> [LoopVars(At("s", <<<<"[", Ref(V("i"))>>>>), "i", "", "y") EXCEPT
                      !.if = <<<<"eq", <<At("s", <<<<"[", Ref(V("i"))>>, <<"[", Json(Number(-1))[1]>>>>),
                                         Number(5)>>>>>>]
    @@ "a17" :> Container({"y"}, {"x"})
    @@ "op18" :> Started("op18", X, NoProps)
    @@ "loop18" :> LoopOver(Array(<<T("one")>>)) @@ "a18" :> Until("y")
    @@ "b18" :> Container({}, {"y"})

\* 19: items that an op file has, some of which can not be text unless they were stored.
Items19 == <<"array", <<T("one"), V("./")>>>>
Says19 ==
    "op19" :> Started("op19", "s" :> PD("array", Items19), "s" :> P("array"))
    @@ "a19" :> Container({}, {"x"})
    @@ "loop19" :> LoopVars(V("s"), "i", "", "y")
    @@ "b19" :> Container({"y"}, {}) @@ "c19" :> Container({"y"}, {})

Says == Says1 @@ Says2 @@ Says3 @@ Says4 @@ Says5 @@ Says6 @@ Says7 @@ Says8 @@ Says10
        @@ Says11 @@ Says12 @@ Says14 @@ Says16 @@ Says19
AllSources ==
    [c \in AllCalls |->
        IF c \in DOMAIN Says THEN Complete(c, Says[c])
        ELSE Complete(c, IF Trees[c].kind = "container" THEN Container({}, {}) ELSE Call(Unset))]

AllRoots == {c \in AllCalls : Trees[c].within = None}
Items == Array(<<String(<<Word("first")>>), Number(2)>>)
AllArgs == [c \in AllRoots |-> [k \in AllKeys |-> CASE k = "x" -> String(<<Word("arg")>>)
                                                    [] k = "r" -> Items
                                                    [] OTHER -> Unset]]
=============================================================================
