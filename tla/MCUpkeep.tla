------------------------------ MODULE MCUpkeep ------------------------------
(* Upkeep with four records in two scopes: a and b near-duplicates, c a    *)
(* shared record beside them, d bob's own. *)
EXTENDS Upkeep

\* Words: 1 to 6, of which 6 marks an opposition.
Rec(id, scope, seq, role, text, concepts, v) ==
    [id |-> id, scope |-> scope, seq |-> seq, role |-> role, text |-> text, concepts |-> concepts,
     importance |-> 50, access_count |-> 0, last_accessed |-> 0, v |-> v]

MCInitial ==
    (0 :> Rec("a", "bob", 0, "user", <<1, 2, 3>>, <<1, 2>>, "va")) @@
    (1 :> Rec("c", Shared, 1, "user", <<1, 2, 3>>, <<1>>, "vb")) @@
    (2 :> [Rec("b", "bob", 2, "user", <<1, 2, 3>>, <<1, 3>>, "vb") EXCEPT !.access_count = 1, !.last_accessed = 40]) @@
    (3 :> Rec("d", "bob", 3, NoRole, <<6, 4>>, <<3>>, "vd"))
MCNew == {Rec("e", "bob", 9, "user", <<6, 1>>, <<1>>, "va")}
MCUpdates == {Rec("a", Shared, 9, "user", <<1, 2>>, <<1>>, "vb"), Rec("b", "bob", 9, "user", <<6, 5>>, <<3>>, "vd")}
MCDoomed == {"a", "b"}

MCSimilarity ==
    [va |-> [va |-> 100, vb |-> 95, vd |-> 40, vg |-> 10],
     vb |-> [va |-> 95, vb |-> 100, vd |-> 70, vg |-> 10],
     vd |-> [va |-> 40, vb |-> 70, vd |-> 100, vg |-> 10],
     vg |-> [va |-> 10, vb |-> 10, vd |-> 10, vg |-> 100]]
MCGistIds == <<"g1", "g2", "g3", "g4", "g5", "g6", "g7", "g8", "g9", "g10", "g11", "g12">>

Base ==
    [passes |-> {}, defer |-> FALSE, lexical |-> TRUE, cycles |-> 1, client |-> {}, max_ops |-> 0,
     incremental |-> FALSE, exclude_superseded |-> TRUE, access_aware |-> TRUE, actr |-> FALSE, floor |-> -1,
     max_records |-> -1, gist |-> FALSE, gist_chunk_facts |-> 2, outcomes |-> {}, dedup |-> 90, max_pairs |-> 9,
     access_weight |-> 70, importance_floor |-> 10, ceiling |-> 200, rate |-> 50, demotion |-> 50, roles |-> {},
     refinement_text |-> 60, contradiction_text |-> 60, require_opposition |-> TRUE, per_record |-> 2,
     min_cosine |-> 60, margin |-> 20]
Writes == {"insert", "update", "delete"}
Evicting == [Base EXCEPT !.passes = {"evict"}, !.max_records = 2, !.client = Writes, !.max_ops = 2]
Revising == [Base EXCEPT !.passes = {"refinement", "contradiction"}, !.cycles = 2, !.client = Writes, !.max_ops = 2]
MCTiers ==
    {[Base EXCEPT !.passes = {"importance"}, !.client = Writes \cup {"access"}, !.max_ops = 2],
     [Base EXCEPT !.passes = {"dedup"}, !.client = Writes, !.max_ops = 2],
     [Base EXCEPT !.passes = {"dedup", "evict"}, !.max_records = 1, !.max_pairs = 1],
     Evicting,
     [Evicting EXCEPT !.access_aware = FALSE],
     [Evicting EXCEPT !.actr = TRUE, !.client = {"access"}],
     [Evicting EXCEPT !.floor = 1, !.max_records = 0, !.max_ops = 1, !.gist = TRUE, !.outcomes = {"stored", "abstained", "failed", "not stored"}],
     Revising,
     [Revising EXCEPT !.incremental = TRUE, !.roles = {"user"}, !.exclude_superseded = FALSE],
     [Revising EXCEPT !.defer = TRUE, !.max_pairs = 1],
     [Revising EXCEPT !.defer = TRUE, !.lexical = FALSE, !.demotion = 100, !.max_pairs = 1]}
=============================================================================
