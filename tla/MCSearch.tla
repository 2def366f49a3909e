------------------------------ MODULE MCSearch ------------------------------
(* Search with four records, three of them in a sealed segment, and up to  *)
(* two writes. *)
EXTENDS Search

Value(type, text, n, items) == [type |-> type, text |-> text, n |-> n, items |-> items]
Str(v) == Value("str", v, 0, {})
Num(n) == Value("num", ToString(n), n, {})
Null == Value("null", "null", 0, {})
Arr(vs) == Value("arr", "", 0, vs)
Point(id, scope, payload, words, x, y) ==
    [id |-> id, scope |-> scope, payload |-> payload, words |-> words, score |-> [qx |-> x, qy |-> y]]

MCInitial ==
    (0 :> Point("a", Shared, [tag |-> Str("1"), size |-> Arr({Num(1), Str("5")})], {"u"}, 5, 1)) @@
    (1 :> Point("b", "bob", [tag |-> Str("2"), size |-> Num(2)], {"u", "v"}, 4, 4)) @@
    (2 :> Point("c", Shared, [tag |-> Null], {"v"}, 3, 5)) @@
    (3 :> Point("d", Shared, NoPayload, {"u"}, 2, 2))
MCSealed == <<<<0, 1, 2>>>>
MCHot == <<3>>

New == Point("e", Shared, [tag |-> Str("1"), size |-> Num(1)], {"u"}, 6, 3)
MCWrites ==
    {[op |-> "insert", id |-> "e", rec |-> New],
     [op |-> "update", id |-> "a", rec |-> Point("a", "bob", [tag |-> Str("2")], {"v"}, 1, 6)],
     [op |-> "delete", id |-> "a", rec |-> "none"],
     [op |-> "delete", id |-> "b", rec |-> "none"],
     [op |-> "supersede", id |-> "c", rec |-> "a"]}

Eq(v) == [op |-> "eq", field |-> "tag", value |-> v]
Sizes == [op |-> "range", field |-> "size", low |-> 1, high |-> 2]
NotOne == [op |-> "not", part |-> Eq(Str("1"))]
Word(x) == [op |-> "text", words |-> {x}]
AllOf(parts) == [op |-> "and", parts |-> parts]
AnyOf(parts) == [op |-> "or", parts |-> parts]

Ask(k, filter, scope) == [queries |-> <<"qx">>, k |-> k, filter |-> filter, scope |-> scope, batch |-> FALSE]
AskBoth(k, filter, scope) == [queries |-> <<"qx", "qy">>, k |-> k, filter |-> filter, scope |-> scope, batch |-> TRUE]

\* What s1 asks, and what s2 asks.
Asks(one, two) == [p \in Searchers |-> IF p = "s1" THEN one ELSE two]
Plain == {Ask(1, NoFilter, Shared), Ask(2, NoFilter, "bob"), Ask(9, NoFilter, Shared)}
Filtered == {Ask(2, AllOf(<<Sizes, Eq(Str("2"))>>), Shared), Ask(1, NotOne, "amy"),
             Ask(2, AnyOf(<<Word("v"), Eq(Null)>>), Shared), Ask(1, AllOf(<<>>), Shared)}
Batches == {AskBoth(2, NoFilter, "bob"), AskBoth(1, NoFilter, Shared)}

Tier(g, e, x, asks, writes) ==
    [gpu_min |-> g, exact_max |-> e, exclude |-> x, rerank_min |-> 4, asks |-> asks, writes |-> writes]
MCTiers ==
    {Tier(1, 9, TRUE, Asks(Plain \cup Filtered \cup Batches, {}), 1),
     Tier(99, 4, TRUE, Asks(Filtered, {}), 1),
     Tier(99, 4, TRUE, Asks(Plain \cup Batches, {}), 2),
     Tier(99, 0, TRUE, Asks(Filtered \cup Batches, {}), 1),
     Tier(99, 0, TRUE, Asks(Plain, {}), 2),
     Tier(4, 0, FALSE, Asks(Plain \cup Batches, {}), 1),
     Tier(99, 0, FALSE, Asks({Ask(1, NoFilter, Shared)}, {Ask(1, NoFilter, Shared)}), 1)}
=============================================================================
