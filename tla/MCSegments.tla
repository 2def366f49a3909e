----------------------------- MODULE MCSegments -----------------------------
(* Instances of Segments for TLC. *)
EXTENDS Segments, TLC

MaintainerSymmetry == Permutations(Maintainers)

\* Seals and merges, with a failed build, a restart and a delete.
Merging == [MaxOffset |-> 3, MaxSegs |-> 17, MaxCrashes |-> 1, MaxFaults |-> 1,
            MaxPromotions |-> 0, MaxDeletes |-> 1, HotCapacity |-> 1,
            WarmCapacity |-> 1, HnswThreshold |-> 1, Serial |-> TRUE]

\* Warm and cold tiers, with a promotion.
Tiering == [Merging EXCEPT !.MaxOffset = 4, !.MaxSegs = 7, !.MaxPromotions = 1, !.MaxDeletes = 0,
                           !.HotCapacity = 2, !.WarmCapacity = 2, !.HnswThreshold = 9]

\* Two maintainers beside the writer.
Concurrent == [Merging EXCEPT !.MaxOffset = 2, !.MaxSegs = 5, !.MaxCrashes = 0, !.MaxFaults = 0,
                              !.MaxDeletes = 0, !.WarmCapacity = 0, !.Serial = FALSE]

SerialLoads == {Merging}
TierLoads == {Tiering, Concurrent}

=============================================================================
