----------------------------- MODULE MCCallTree -----------------------------
(* Ops for CallTree, small ones that between them use every kind of call.     *)
EXTENDS CallTree, TLC

Ids == {"top", "in", "a", "b"}

\* The calls above each, for the children each makes.
AboveFor(children) ==
    LET parents(c) == {p \in DOMAIN children : \E i \in DOMAIN children[p] : children[p][i] = c}
        above[c \in Ids] == parents(c) \cup UNION {above[p] : p \in parents(c)}
    IN  above

\* An op whose root is "top": the rest is containers without children or needs.
OpOf(kind, children, needs, services, conditional, fallible, killable, panicky) ==
    [root |-> "top",
     kind |-> kind @@ [c \in Ids |-> "container"],
     children |-> children @@ [c \in Ids |-> <<>>],
     above |-> AboveFor(children),
     needs |-> needs @@ [c \in Ids |-> {}],
     services |-> services, conditional |-> conditional,
     fallible |-> fallible, killable |-> killable, panicky |-> panicky]

NoNeeds == [c \in {} |-> {}]

SerialOfTwo ==
    OpOf("top" :> "serial", "top" :> <<"a", "b">>, NoNeeds,
         {}, {"b"}, {"a"}, {"top"}, {})

\* A loop of two iterations, an op and a container.
SerialLoop ==
    OpOf("top" :> "serialLoop" @@ "in" :> "op", "top" :> <<"in", "b">> @@ "in" :> <<"a">>,
         NoNeeds, {}, {"top", "a"}, {"top", "in", "a"}, {"in", "a"}, {})
ParallelLoop ==
    OpOf("top" :> "parallelLoop" @@ "in" :> "op", "top" :> <<"in", "b">> @@ "in" :> <<"a">>,
         NoNeeds, {}, {"a"}, {"top", "a"}, {"a"}, {"a"})

\* A serial call beside a container in a parallel call.
SerialInParallel(fallible) ==
    OpOf("top" :> "parallel" @@ "in" :> "serial", "top" :> <<"in", "b">> @@ "in" :> <<"a">>,
         NoNeeds, {}, {}, fallible, {}, {"a"} \cap fallible)

\* A parallel call without children beside a container, and as an op's call.
EmptyParallel ==
    OpOf("top" :> "parallel" @@ "in" :> "parallel", "top" :> <<"in", "b">>,
         NoNeeds, {}, {"b"}, {"b"}, {"in"}, {})
EmptyParallelOnly ==
    OpOf("top" :> "op" @@ "in" :> "parallel", "top" :> <<"in">>, NoNeeds, {}, {}, {}, {"in"}, {"in"})

\* A service "in" and two tests, those of testers in need of it.
WithService(testers, conditional, fallible) ==
    OpOf("top" :> "parallel", "top" :> <<"in", "a", "b">>, [c \in testers |-> {"in"}],
         {"in"}, conditional, fallible, {}, {})

AllOps == {SerialOfTwo, SerialLoop, ParallelLoop, SerialInParallel({"a", "b"}),
           EmptyParallel, EmptyParallelOnly, WithService({"a"}, {"b"}, {"a"})}
OpWithError == {SerialInParallel({"b"})}
OpWithService == {WithService({"a", "b"}, {}, {})}
=============================================================================
