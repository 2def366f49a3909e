----------------------------- MODULE Retention -----------------------------
(***************************************************************************)
(* turbomemory_storage::{engine::retention, engine::belief,                *)
(* access_counters, metadata_store}: the scores and choices of maintenance.*)
(*                                                                         *)
(* A record is [id, scope, seq, role, text, concepts, importance,          *)
(* access_count, last_accessed, v]; v names its vector, and Similarity is  *)
(* the cosine of two vectors in percent.  A store of records is a function *)
(* from offsets.  Importance, scores and factors are in percent.           *)
(***************************************************************************)
EXTENDS Vocabulary

CONSTANTS
    Similarity,     \* vector -> vector -> percent
    Shared,         \* the scope None
    NoRole,         \* the source role None
    HalfLife,       \* recency_half_life_secs
    Horizon,        \* no age is larger
    MaxHistory      \* history_len

Min2(a, b) == IF a < b THEN a ELSE b
Max2(a, b) == IF a > b THEN a ELSE b
Within(x, low, high) == Max2(low, Min2(x, high))
Minus(a, b) == IF a > b THEN a - b ELSE 0       \* saturating_sub

\* clamp(1, MAX_ACCESS_HISTORY_LEN)
clamp_history_len(n) == Within(n, 1, 32)

Age(now, at) == Max2(Minus(now, at), 1)
\* access_count * 2^(-age / half_life), times 2^Horizon.
access_score(r, now) == r.access_count * 2 ^ Max2(Horizon - Age(now, r.last_accessed) \div HalfLife, 0)

\* The sum whose logarithm is the activation, at decay 1 and times 5040;
\* -1 stands for the activation of no access at all, which is below all.
actr_activation(stamps, now) ==
    IF stamps = <<>> THEN -1
    ELSE FoldLeft(LAMBDA sum, ts : sum + 5040 \div Age(now, ts), 0, stamps)

\* Merge, sort, keep the latest.
append_access_history(history, stamps) ==
    LET all == SortSeq(history \o stamps, <)
        n == clamp_history_len(MaxHistory)
    IN IF stamps = <<>> THEN history
       ELSE SubSeq(all, Max2(Len(all) - n, 0) + 1, Len(all))

-----------------------------------------------------------------------------
(* Eviction *)

\* An access-aware eviction leaves records alone that were just accessed.
Protected(r, now, tier) == tier.access_aware /\ Minus(now, r.last_accessed) < HalfLife \div 8

EvictionScore(r, history, now, tier) ==
    CASE ~tier.access_aware -> r.seq
      [] tier.access_aware /\ tier.actr -> actr_activation(history, now)
      [] tier.access_aware /\ ~tier.actr -> access_score(r, now)

\* scored: set of [offset, id, score].  Lowest score first, older on a tie.
FirstToGo(scored) ==
    SortSeq(Listed(scored), LAMBDA a, b : a.score < b.score \/ (a.score = b.score /\ a.offset < b.offset))

FloorVictims(scored, tier) == {c \in scored : tier.floor # -1 /\ c.score < tier.floor}
\* The cap pass takes the lowest scores whether marked already or not.
CapVictimsAgain(scored, marked, live, tier) ==
    LET over == Minus(Minus(live, Cardinality(marked)), tier.max_records)
    IN IF tier.max_records = -1 THEN {} ELSE ToSet(FirstOf(FirstToGo(scored), over))
CapVictims(scored, marked, live, tier) ==
    LET over == Minus(Minus(live, Cardinality(marked)), tier.max_records)
    IN IF tier.max_records = -1 THEN {}
       ELSE ToSet(FirstOf(FirstToGo(scored \ marked), over))

\* The victims of one scope in insertion order, cut into chunks.
Chunked(s, n) ==
    [i \in 1 .. (Len(s) + n - 1) \div n |-> SubSeq(s, (i - 1) * n + 1, Min2(i * n, Len(s)))]
BySeq(offsets, meta) == SortSeq(Listed(offsets), LAMBDA a, b : meta[a].seq < meta[b].seq)
GistChunks(offsets, meta, facts) ==
    LET live == offsets \cap DOMAIN meta
        scopes == {meta[o].scope : o \in live}
        Of(sc) == Chunked(BySeq({o \in live : meta[o].scope = sc}, meta), Max2(facts, 1))
    IN FoldSet(LAMBDA sc, all : all \o [i \in 1 .. Len(Of(sc)) |-> [scope |-> sc, offsets |-> Of(sc)[i]]],
               <<>>, scopes)

-----------------------------------------------------------------------------
(* Deduplication: a candidate is a record with its offset and score *)

keeps(a, b) ==
    \/ a.score > b.score
    \/ a.score = b.score /\ a.importance > b.importance
    \/ a.score = b.score /\ a.importance = b.importance /\ a.seq <= b.seq

-----------------------------------------------------------------------------
(* Importance: a `rate` fraction of the way to the target *)

Target(salience, max_salience, degree, max_degree, tier) ==
    LET sal == IF max_salience > 0 THEN (100 * salience) \div max_salience ELSE 0
        deg == IF max_degree > 0 THEN (100 * degree) \div max_degree ELSE 0
        bonus == ((100 - tier.access_weight) * deg * (50 + sal \div 2)) \div 10000
        blend == Within((tier.access_weight * sal) \div 100 + bonus, 0, 100)
    IN tier.importance_floor + ((Max2(tier.ceiling, tier.importance_floor) - tier.importance_floor) * blend) \div 100
Moved(importance, target, tier) ==
    Within(importance + (tier.rate * (target - importance)) \div 100,
           tier.importance_floor, Max2(tier.ceiling, tier.importance_floor))

-----------------------------------------------------------------------------
(* Belief revision *)

\* allowed = {} stands for None.
role_allowed(role, allowed) == allowed = {} \/ (role # NoRole /\ role \in allowed)

Demoted(factor, tier) == Max2((factor * tier.demotion) \div 100, 30)

\* Best first among the records of a scope, shared ones included.
Nearest(v, scope, meta, ids, hidden, n) ==
    LET seen == {o \in ids : o \in DOMAIN meta /\ meta[o].scope \in {Shared, scope} /\ meta[o].id \notin hidden}
        all == IF scope = Shared
               THEN {o \in ids : o \in DOMAIN meta /\ meta[o].id \notin hidden} ELSE seen
        Before(a, b) == \/ Similarity[v][meta[a].v] > Similarity[v][meta[b].v]
                        \/ Similarity[v][meta[a].v] = Similarity[v][meta[b].v] /\ a < b
    IN FirstOf(SortSeq(Listed(all), Before), n)


\* nearest: offsets, best first.
nearest_superseding_neighbor(r, newer, floor, allowed, nearest, meta) ==
    LET Fits(o) == /\ meta[o].id # r.id
                   /\ IF newer THEN meta[o].seq > r.seq ELSE meta[o].seq < r.seq
                   /\ meta[o].scope = r.scope
                   /\ role_allowed(meta[o].role, allowed)
                   /\ ToSet(r.concepts) \cap ToSet(meta[o].concepts) # {}
                   /\ Similarity[r.v][meta[o].v] >= floor
        fit == SelectSeq(nearest, Fits)
    IN IF fit = <<>> THEN {} ELSE {fit[1]}

\* Whether the texts of two neighbours make the newer one a refinement or a
\* contradiction of the older.
TextGate(kind, newer, older, tier) ==
    LET overlap == text_jaccard_similarity(newer.text, older.text) IN
    IF kind = "refinement" THEN overlap >= tier.refinement_text
    ELSE overlap < tier.contradiction_text /\ (tier.require_opposition => has_opposition_marker(newer.text))

\* propose_supersession_candidates, of one memory: its closest older
\* memories, down to `margin` below the closest.  heads maps a superseded id
\* to its belief head.
CandidatePairs(c, nearest, meta, heads, tier) ==
    LET Look(acc, o) ==
          LET cos == Similarity[c.v][meta[o].v]
              mine == meta[o].id = c.id
              eligible == /\ meta[o].seq < c.seq /\ meta[o].scope = c.scope
                          /\ role_allowed(meta[o].role, tier.roles)
              kind == IF text_jaccard_similarity(c.text, meta[o].text) >= tier.refinement_text
                      THEN "refinement" ELSE "contradiction"
          IN IF acc.stop THEN acc
             ELSE IF Len(acc.out) = tier.per_record \/ cos < tier.min_cosine
                     \/ (acc.closest # -1 /\ cos < acc.closest - tier.margin)
             THEN [acc EXCEPT !.stop = TRUE]
             ELSE IF mine THEN acc
             ELSE IF meta[o].id \in DOMAIN heads
             THEN IF acc.closest = -1 /\ heads[meta[o].id] = c.id THEN [acc EXCEPT !.closest = cos] ELSE acc
             ELSE IF ~eligible THEN acc
             ELSE [acc EXCEPT !.closest = IF @ = -1 THEN cos ELSE @,
                              !.out = Append(@, [old |-> meta[o].id, old_at |-> o, new |-> c.id,
                                                 new_at |-> c.offset, kind |-> kind])]
    IN FoldLeft(Look, [stop |-> FALSE, closest |-> -1, out |-> <<>>], nearest).out

=============================================================================
