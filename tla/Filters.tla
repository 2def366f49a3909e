------------------------------ MODULE Filters ------------------------------
(***************************************************************************)
(* turbomemory_storage::{payload_index, scope_index, text_index}: the      *)
(* in-memory indexes that turn a filter or a scope into a set of offsets.  *)
(*                                                                         *)
(* A payload is a function from fields to values, or NoPayload.  A value   *)
(* is [type, text, n, items]: "str", "num" and "bool" are indexed under    *)
(* their text (the number 1 and the string "1" have the same text), a      *)
(* number also under its value n, an array "arr" by its items, and         *)
(* anything else ("null") is not indexed.                                  *)
(***************************************************************************)
EXTENDS Integers, Sequences, FiniteSets, SequencesExt

CONSTANTS NoPayload, Shared     \* no payload; the scope None

\* A map from keys to sets of offsets, in which an empty set is not kept.
At(map, key) == IF key \in DOMAIN map THEN map[key] ELSE {}
PutAt(map, key, o) ==
    [k \in DOMAIN map \cup {key} |-> IF k = key THEN At(map, key) \cup {o} ELSE map[k]]
DropAt(map, key, o) ==
    LET left == At(map, key) \ {o} IN
    [k \in {k \in DOMAIN map : k # key \/ left # {}} |-> IF k = key THEN left ELSE map[k]]

-----------------------------------------------------------------------------
(* PayloadIndex: [keyword: <<field, text>> -> offsets, numeric: the same,  *)
(* all: offsets]                                                           *)

EmptyPayloadIndex == [keyword |-> <<>>, numeric |-> <<>>, all |-> {}]

Scalars(value) == IF value.type = "arr" THEN value.items ELSE {value}
\* Every scalar of a payload with its field.
Entries(payload) ==
    IF payload = NoPayload THEN {}
    ELSE UNION {{<<f, s>> : s \in Scalars(payload[f])} : f \in DOMAIN payload}

index_scalar(x, field, o, s) ==
    [x EXCEPT !.keyword = IF s.type \in {"str", "num", "bool"} THEN PutAt(@, <<field, s.text>>, o) ELSE @,
              !.numeric = IF s.type = "num" THEN PutAt(@, <<field, s.n>>, o) ELSE @]
remove_scalar(x, field, o, s) ==
    [x EXCEPT !.keyword = IF s.type \in {"str", "num", "bool"} THEN DropAt(@, <<field, s.text>>, o) ELSE @,
              !.numeric = IF s.type = "num" THEN DropAt(@, <<field, s.n>>, o) ELSE @]

PayloadAdd(x, o, payload) ==
    FoldSet(LAMBDA e, y : index_scalar(y, e[1], o, e[2]), [x EXCEPT !.all = @ \cup {o}],
            Entries(payload))
\* Only the offset goes; what it was filed under stays.
PayloadRemoveOffset(x, o, payload) == [x EXCEPT !.all = @ \ {o}]
PayloadRemove(x, o, payload) ==
    FoldSet(LAMBDA e, y : remove_scalar(y, e[1], o, e[2]), [x EXCEPT !.all = @ \ {o}],
            Entries(payload))

\* points: offset -> record
from_meta_records_iter(points) ==
    FoldSet(LAMBDA o, x : PayloadAdd(x, o, points[o].payload), EmptyPayloadIndex, DOMAIN points)

\* The text of a null is "null".
value_to_keyword(value) == value.text
query_eq(x, field, value) == At(x.keyword, <<field, value_to_keyword(value)>>)
query_range(x, field, low, high) ==
    UNION {x.numeric[k] : k \in {k \in DOMAIN x.numeric : k[1] = field /\ low <= k[2] /\ k[2] <= high}}

-----------------------------------------------------------------------------
(* ScopeIndex: [by_scope: scope -> offsets, global: offsets] *)

EmptyScopeIndex == [by_scope |-> <<>>, global |-> {}]
ScopeAdd(x, o, scope) ==
    IF scope = Shared THEN [x EXCEPT !.global = @ \cup {o}]
    ELSE [x EXCEPT !.by_scope = PutAt(@, scope, o)]
ScopeRemove(x, o, scope) ==
    IF scope = Shared THEN [x EXCEPT !.global = @ \ {o}]
    ELSE [x EXCEPT !.by_scope = DropAt(@, scope, o)]
ScopeQuery(x, scope) == x.global \cup At(x.by_scope, scope)
exact(x, scope) == At(x.by_scope, scope)
scopes(x) == DOMAIN x.by_scope
ScopeAllOffsets(x) == x.global \cup UNION {x.by_scope[s] : s \in DOMAIN x.by_scope}

-----------------------------------------------------------------------------
(* TextIndex: [docs: what the writer holds, seen: what the reader holds,   *)
(* pending].  A document is [offset, words].                               *)

EmptyTextIndex == [docs |-> {}, seen |-> {}, pending |-> 0]
add_batch(x, docs) ==
    IF docs = {} THEN x
    ELSE [x EXCEPT !.docs = @ \cup docs, !.pending = @ + Cardinality(docs)]
TextRemove(x, o) ==
    [x EXCEPT !.docs = {d \in @ : d.offset # o}, !.pending = @ + 1]
\* commit is two steps: what the writer held reaches the reader, and then the
\* count of pending documents is reset.
CommitDocs(x) == [x EXCEPT !.seen = x.docs]
CommitReset(x) == [x EXCEPT !.pending = 0]
\* Every word of the query must occur.
TextSearch(x, words) == {d.offset : d \in {d \in x.seen : words \subseteq d.words}}

-----------------------------------------------------------------------------
(* Filter *)

RECURSIVE uses_full_text(_)
uses_full_text(f) ==
    CASE f.op = "text" -> TRUE
      [] f.op \in {"and", "or"} -> \E p \in ToSet(f.parts) : uses_full_text(p)
      [] f.op = "not" -> uses_full_text(f.part)
      [] OTHER -> FALSE

\* evaluate_filter_recursive over the indexes p and t.  A conjunction stops
\* at an empty set; an empty one matches nothing.
RECURSIVE evaluate_filter_recursive(_, _, _)
evaluate_filter_recursive(f, p, t) ==
    CASE f.op = "text" -> TextSearch(t, f.words)
      [] f.op = "eq" -> query_eq(p, f.field, f.value)
      [] f.op = "range" -> query_range(p, f.field, f.low, f.high)
      [] f.op = "and" ->
           IF f.parts = <<>> THEN {}
           ELSE FoldLeft(LAMBDA acc, q : IF acc = {} THEN acc
                                         ELSE acc \cap evaluate_filter_recursive(q, p, t),
                         evaluate_filter_recursive(f.parts[1], p, t), Tail(f.parts))
      [] f.op = "or" ->
           FoldLeft(LAMBDA acc, q : acc \cup evaluate_filter_recursive(q, p, t), {}, f.parts)
      [] f.op = "not" -> p.all \ evaluate_filter_recursive(f.part, p, t)

\* What a filter means for one record.
RECURSIVE Matches(_, _)
Matches(f, r) ==
    LET has(field, P(_)) == \E e \in Entries(r.payload) : e[1] = field /\ P(e[2]) IN
    CASE f.op = "text" -> f.words \subseteq r.words
      [] f.op = "eq" -> has(f.field, LAMBDA s : s.type \in {"str", "num", "bool"} /\ s.text = value_to_keyword(f.value))
      [] f.op = "range" -> has(f.field, LAMBDA s : s.type = "num" /\ f.low <= s.n /\ s.n <= f.high)
      [] f.op = "and" -> f.parts # <<>> /\ \A q \in ToSet(f.parts) : Matches(q, r)
      [] f.op = "or" -> \E q \in ToSet(f.parts) : Matches(q, r)
      [] f.op = "not" -> ~Matches(f.part, r)

=============================================================================
