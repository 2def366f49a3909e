------------------------------ MODULE Segments ------------------------------
(***************************************************************************)
(* The tiered segments of turbomemory_storage: the mutable Hot segment,    *)
(* the lists of SegmentHolder and the snapshot that searches read          *)
(* (segment_holder.rs), the jobs that seal, merge, compact and promote     *)
(* (optimizer.rs) and the loading of segment directories on open           *)
(* (engine/mod.rs).                                                        *)
(*                                                                         *)
(* A segment is known by its tag, its position in segs: the tag stands for *)
(* the Arc, whose contents never change, and for the segment's directory.  *)
(* The lists lock and the Hot lock are held inside one step: the code      *)
(* takes them briefly for each swap and builds outside them.  What a job   *)
(* does between two acquisitions of a lock is therefore a step of its own. *)
(***************************************************************************)
EXTENDS Integers, Sequences, FiniteSets, SequencesExt

CONSTANTS
    MaxBatch,           \* bound: records of one insert_batch
    MergeThreshold,     \* merge_threshold_segments()
    MergeCap,           \* hard_cap, twice merge_max_records()
    MaxBuilds,          \* max_concurrent_builds
    Worker,             \* the update worker thread
    Maintainers,        \* optimizer, flush and trigger_consolidation callers
    Loads               \* configurations and bounds, one of which is chosen

ASSUME SegmentsAssumption ==
    /\ {MaxBatch, MergeCap} \subseteq Nat
    /\ MaxBuilds \in Nat \ {0}
    /\ MergeThreshold \in Nat \ {0, 1}
    /\ Worker \notin Maintainers
    /\ \A l \in Loads :
          /\ {l.MaxOffset, l.MaxSegs, l.MaxCrashes, l.MaxFaults, l.MaxPromotions,
              l.MaxDeletes, l.WarmCapacity, l.HnswThreshold} \subseteq Nat
          /\ l.HotCapacity \in Nat \ {0}
          /\ l.Serial \in BOOLEAN

VARIABLES
    segs,           \* every segment ever created
    hot,            \* the Hot segment, changed in place
    sealing,        \* SegmentLists::sealing_plain, a stack
    building, sealedHot, warm, cold,    \* the other SegmentLists
    published,      \* segments of the published snapshot, beside Hot
    disk,           \* segment directories with a manifest
    nextId,         \* next_segment_id
    pending,        \* the two pending_deletion lists
    thr,            \* program counter and locals of each thread
    live,           \* offsets with metadata
    deleted,        \* history: offsets deleted
    next,           \* history: offsets allocated so far
    faults, crashes, promotions,
    load            \* the member of Loads, fixed

lists == <<sealing, building, sealedHot, warm, cold>>
counters == <<faults, crashes, promotions, load>>
recs == <<live, deleted, next>>
vars == <<segs, hot, lists, published, disk, nextId, pending, thr, recs, counters>>

MaxOffset == load.MaxOffset         \* offsets 1 .. MaxOffset are inserted in order
MaxSegs == load.MaxSegs             \* segments ever created
MaxCrashes == load.MaxCrashes       \* crashes
MaxFaults == load.MaxFaults         \* failed builds and damaged directories
MaxPromotions == load.MaxPromotions \* runs of promote_hot
MaxDeletes == load.MaxDeletes       \* deletes
HotCapacity == load.HotCapacity     \* TierConfig
WarmCapacity == load.WarmCapacity
HnswThreshold == load.HnswThreshold
Serial == load.Serial               \* whether one caller inserts and maintains in turn

Offsets == 1 .. MaxOffset
Threads == {Worker} \cup Maintainers

\* left: offsets still to insert or to consider; plain: the segment being
\* sealed; cands: the segments being replaced; made: the new segment (0: none);
\* id: of its directory; rec: the record last promoted (0: none); view: the
\* snapshot being published; then: what follows the publication.
Idle == [pc |-> "idle", left |-> {}, plain |-> 0, tier |-> "plain", cands |-> {},
         made |-> 0, id |-> 0, rec |-> 0, view |-> {}, then |-> "idle"]

Contents(tags) == UNION {segs[t].offs : t \in tags}
Points(tags) == FoldSet(LAMBDA t, n : n + Cardinality(segs[t].offs), 0, tags)

\* searchable_segments, beside Hot.
Listed == Range(sealing) \cup building \cup sealedHot \cup warm \cup cold
Visible == hot \cup Contents(published)

Init ==
    /\ segs = <<>> /\ hot = {}
    /\ sealing = <<>> /\ building = {} /\ sealedHot = {} /\ warm = {} /\ cold = {}
    /\ published = {}
    /\ disk = {} /\ nextId = 1 /\ pending = {}
    /\ thr = [t \in Threads |-> Idle]
    /\ live = {} /\ deleted = {} /\ next = 0
    /\ faults = 0 /\ crashes = 0 /\ promotions = 0
    /\ load \in Loads

-----------------------------------------------------------------------------
At(t, pc) == thr[t].pc = pc
Goto(t, pc) == thr' = [thr EXCEPT ![t].pc = pc]
Done(t) == thr' = [thr EXCEPT ![t] = Idle]

\* What seal_hot returns to: the end of the job, or the rest of promote_hot.
Return(t) == thr' = [thr EXCEPT ![t] =
    IF thr[t].then = "idle" THEN Idle
    ELSE [@ EXCEPT !.pc = thr[t].then, !.then = "idle", !.view = {}, !.plain = 0]]

\* With Serial a caller finishes one operation before the next begins.
MayStart(t) == At(t, "idle") /\ (Serial => \A u \in Threads : At(u, "idle"))
MaintainerStarts(t) == t \in Maintainers /\ MayStart(t)

NewSeg(offs, tier, id) ==
    /\ Len(segs) < MaxSegs
    /\ segs' = Append(segs, [offs |-> offs, tier |-> tier, id |-> id])

-----------------------------------------------------------------------------
(* Writers. *)

\* apply_batch on the update worker: metadata for the whole batch first.
BeginBatch(n) ==
    /\ MayStart(Worker)
    /\ next + n <= MaxOffset
    /\ LET batch == next + 1 .. next + n IN
       /\ live' = live \cup batch
       /\ thr' = [thr EXCEPT ![Worker] = [Idle EXCEPT !.pc = "insert", !.left = batch]]
    /\ next' = next + n
    /\ UNCHANGED <<segs, hot, lists, published, disk, nextId, pending, deleted, counters>>

\* SegmentHolder::insert for the next record; after the last one a full Hot
\* segment is sealed.
Insert ==
    /\ At(Worker, "insert")
    /\ LET o == CHOOSE x \in thr[Worker].left : \A y \in thr[Worker].left : x <= y
           rest == thr[Worker].left \ {o}
       IN /\ hot' = hot \cup {o}
          /\ thr' = [thr EXCEPT ![Worker] =
                IF rest # {} THEN [@ EXCEPT !.left = rest]
                ELSE IF Cardinality(hot') >= HotCapacity
                     THEN [Idle EXCEPT !.pc = "seal"] ELSE Idle]
    /\ UNCHANGED <<segs, lists, published, disk, nextId, pending, recs, counters>>

\* remove_from_indexes: the segments keep the offset, the metadata loses it.
\* The write lock keeps deletes and inserts apart.
Delete(o) ==
    /\ MayStart(Worker)
    /\ o \in live /\ Cardinality(deleted \cup {o}) <= MaxDeletes
    /\ live' = live \ {o}
    /\ deleted' = deleted \cup {o}
    /\ UNCHANGED <<segs, hot, lists, published, disk, nextId, pending, thr, next, counters>>

-----------------------------------------------------------------------------
(* seal_hot and publish_snapshot. *)

\* trigger_consolidation finds the Hot segment full.
BeginSeal(t) ==
    /\ MaintainerStarts(t)
    /\ Cardinality(hot) >= HotCapacity
    /\ Goto(t, "seal")
    /\ UNCHANGED <<segs, hot, lists, published, disk, nextId, pending, recs, counters>>

SealSwap(t) ==
    /\ At(t, "seal")
    /\ IF Cardinality(hot) < HotCapacity
       THEN Return(t) /\ UNCHANGED <<segs, hot>>
       ELSE /\ NewSeg(hot, "plain", 0)
            /\ hot' = {}
            /\ thr' = [thr EXCEPT ![t].pc = "sealPush", ![t].plain = Len(segs')]
    /\ UNCHANGED <<lists, published, disk, nextId, pending, recs, counters>>

\* Mutant: the list is changed and the snapshot is not published.
SealPushUnpublished(t) ==
    /\ At(t, "sealPush")
    /\ sealing' = Append(sealing, thr[t].plain)
    /\ Return(t)
    /\ UNCHANGED <<segs, hot, building, sealedHot, warm, cold, published, disk,
                   nextId, pending, recs, counters>>

SealPush(t) ==
    /\ At(t, "sealPush")
    /\ sealing' = Append(sealing, thr[t].plain)
    /\ Goto(t, "build")
    /\ UNCHANGED <<segs, hot, building, sealedHot, warm, cold, published, disk,
                   nextId, pending, recs, counters>>

\* build_snapshot under lists.read(); the store comes later.
BuildSnapshot(t) ==
    /\ At(t, "build")
    /\ thr' = [thr EXCEPT ![t].view = Listed, ![t].pc = "store"]
    /\ UNCHANGED <<segs, hot, lists, published, disk, nextId, pending, recs, counters>>

StoreSnapshot(t) ==
    /\ At(t, "store")
    /\ published' = thr[t].view
    /\ Return(t)
    /\ UNCHANGED <<segs, hot, lists, disk, nextId, pending, recs, counters>>

-----------------------------------------------------------------------------
(* process_one_seal_with_budget. *)

\* Build slots held: a merge keeps its BuildGuard until it returns.
Inflight == Cardinality({t \in Threads :
    \/ thr[t].pc \in {"buildMerged", "removeMerged", "pushMerged", "defer"}
    \/ thr[t].then = "defer"})

\* A seal's try_acquire(..).is_some() drops the guard at once.  For that
\* moment it holds a slot, so another thread's attempt may fail.
BudgetRefuses == Inflight >= MaxBuilds \/ ~Serial
BudgetAllows == Inflight < MaxBuilds

\* pop_sealing_plain keeps the segment searchable.
BuildingWith(plain) == building \cup {plain}

\* pop_sealing_plain, the choice of the tier and of the directory.
PopSealing(t) ==
    /\ MaintainerStarts(t)
    /\ sealing # <<>>
    /\ LET plain == Last(sealing)
           met == Cardinality(segs[plain].offs) >= HnswThreshold
       IN /\ sealing' = Front(sealing)
          /\ building' = BuildingWith(plain)
          /\ \E tier \in {"sealed", "warm"} :
                /\ tier = "sealed" => met /\ BudgetAllows
                /\ tier = "warm" => ~met \/ BudgetRefuses
                /\ thr' = [thr EXCEPT ![t] = [Idle EXCEPT !.pc = "buildSeg",
                              !.plain = plain, !.tier = tier, !.id = nextId]]
    /\ nextId' = nextId + 1
    /\ UNCHANGED <<segs, hot, sealedHot, warm, cold, published, disk, pending,
                   recs, counters>>

\* A build outside the locks ends with its manifest written, or fails and its
\* directory is removed.
Built(t, offs, tier, id, pc) ==
    /\ NewSeg(offs, tier, id)
    /\ disk' = disk \cup {Len(segs')}
    /\ thr' = [thr EXCEPT ![t].pc = pc, ![t].made = Len(segs')]
    /\ UNCHANGED faults

NotBuilt == faults < MaxFaults /\ faults' = faults + 1 /\ UNCHANGED <<segs, disk>>

\* build_segment.
BuildSegment(t) ==
    /\ At(t, "buildSeg")
    /\ \/ Built(t, segs[thr[t].plain].offs, thr[t].tier, thr[t].id, "unlist")
       \/ NotBuilt /\ Goto(t, "unlist")
    /\ UNCHANGED <<hot, lists, published, nextId, pending, recs, crashes, promotions, load>>

\* Mutant: only sealing_plain is searched.
BuildingWithoutNone(plain) == building
BuildingWithout(plain) == building \ {plain}

\* remove_sealing_plain.
RemovePlain(t) ==
    /\ At(t, "unlist")
    /\ sealing' = SelectSeq(sealing, LAMBDA p : p # thr[t].plain)
    /\ building' = BuildingWithout(thr[t].plain)
    /\ Goto(t, "push")
    /\ UNCHANGED <<segs, hot, sealedHot, warm, cold, published, disk, nextId,
                   pending, recs, counters>>

\* push_sealing_plain.
Requeued(plain) == Append(sealing, plain)

\* What there is to install: the new segment, or the plain one again.
PushedTier(t) == IF thr[t].made = 0 THEN "plain" ELSE thr[t].tier

\* push_sealed_hot; push_warm, with compact_warm next; or, after a failed
\* build, push_sealing_plain.  Each ends with publish_snapshot.
PushBuilt(t) ==
    /\ At(t, "push")
    /\ LET made == thr[t].made
           tier == PushedTier(t)
       IN /\ sealing' = IF tier = "plain" THEN Requeued(thr[t].plain) ELSE sealing
          /\ sealedHot' = IF tier = "sealed" THEN sealedHot \cup {made} ELSE sealedHot
          /\ warm' = IF tier = "warm" THEN warm \cup {made} ELSE warm
          /\ thr' = [thr EXCEPT ![t].pc = "build",
                        ![t].then = IF tier = "warm" THEN "compact" ELSE "idle"]
    /\ UNCHANGED <<segs, hot, building, cold, published, disk, nextId, pending,
                   recs, counters>>

-----------------------------------------------------------------------------
(* compact_warm. *)

\* SegmentHolder::trigger_consolidation finds the warm tier over capacity.
BeginCompaction(t) ==
    /\ MaintainerStarts(t)
    /\ Points(warm) > WarmCapacity
    /\ Goto(t, "compact")
    /\ UNCHANGED <<segs, hot, lists, published, disk, nextId, pending, recs, counters>>

CaptureWarm(t) ==
    /\ At(t, "compact")
    /\ IF Points(warm) <= WarmCapacity
       THEN Done(t) /\ UNCHANGED nextId
       ELSE /\ thr' = [thr EXCEPT ![t] = [Idle EXCEPT !.pc = "buildCold",
                                             !.cands = warm, !.id = nextId]]
            /\ nextId' = nextId + 1
    /\ UNCHANGED <<segs, hot, lists, published, disk, pending, recs, counters>>

BuildCold(t) ==
    /\ At(t, "buildCold")
    /\ \/ Built(t, Contents(thr[t].cands), "cold", thr[t].id, "installCold")
       \/ NotBuilt /\ Done(t)
    /\ UNCHANGED <<hot, lists, published, nextId, pending, recs, crashes, promotions, load>>

\* Exactly the captured segments leave the list.
WarmWithout(targets) == warm \ targets

InstallCold(t) ==
    /\ At(t, "installCold")
    /\ cold' = cold \cup {thr[t].made}
    /\ warm' = WarmWithout(thr[t].cands)
    /\ thr' = [thr EXCEPT ![t].pc = "build", ![t].then = "discard"]
    /\ UNCHANGED <<segs, hot, sealing, building, sealedHot, published, disk,
                   nextId, pending, recs, counters>>

\* Mutant: the whole warm directory is emptied.
ReplacedDirsAll(t) == {s \in disk : segs[s].tier = "warm"}
\* warm_paths: the directories of the captured segments.
ReplacedDirs(t) == disk \cap thr[t].cands

\* discard_segment_dir for each compacted segment: removed, or remembered.
DiscardWarm(t) ==
    /\ At(t, "discard")
    /\ \/ disk' = disk \ ReplacedDirs(t) /\ UNCHANGED pending
       \/ pending' = pending \cup ReplacedDirs(t) /\ UNCHANGED disk
    /\ Done(t)
    /\ UNCHANGED <<segs, hot, lists, published, nextId, recs, counters>>

-----------------------------------------------------------------------------
(* process_one_merge_with_budget. *)

\* sealed_hot_merge_candidates: smallest first, as many as hard_cap admits.
MergeCandidates ==
    LET bySize == SetToSortSeq(sealedHot, LAMBDA s, r :
            \/ Cardinality(segs[s].offs) < Cardinality(segs[r].offs)
            \/ Cardinality(segs[s].offs) = Cardinality(segs[r].offs) /\ s < r)
        fits(k) == k = 1 \/ Points(Range(SubSeq(bySize, 1, k))) <= MergeCap
        taken == {k \in 1 .. Len(bySize) : \A j \in 1 .. k : fits(j)}
    IN  {s \in sealedHot : \E k \in taken : bySize[k] = s}

CaptureMerge(t) ==
    /\ MaintainerStarts(t)
    /\ Cardinality(MergeCandidates) >= MergeThreshold
    /\ thr' = [thr EXCEPT ![t] = [Idle EXCEPT !.pc = "acquire", !.cands = MergeCandidates]]
    /\ UNCHANGED <<segs, hot, lists, published, disk, nextId, pending, recs, counters>>

\* try_acquire, with the guard kept, then the directory.
AcquireMerge(t) ==
    /\ At(t, "acquire")
    /\ \/ /\ BudgetAllows
          /\ thr' = [thr EXCEPT ![t].pc = "buildMerged", ![t].id = nextId]
          /\ nextId' = nextId + 1
       \/ BudgetRefuses /\ Done(t) /\ UNCHANGED nextId
    /\ UNCHANGED <<segs, hot, lists, published, disk, pending, recs, counters>>

BuildMerged(t) ==
    /\ At(t, "buildMerged")
    /\ \/ Built(t, Contents(thr[t].cands), "sealed", thr[t].id, "removeMerged")
       \/ NotBuilt /\ Done(t)
    /\ UNCHANGED <<hot, lists, published, nextId, pending, recs, crashes, promotions, load>>

\* remove_sealed_hot_segments.
SealedHotWithout(targets) == sealedHot \ targets

\* remove_sealed_hot_segments and push_sealed_hot take the lists lock in turn.
RemoveMerged(t) ==
    /\ At(t, "removeMerged")
    /\ sealedHot' = SealedHotWithout(thr[t].cands)
    /\ Goto(t, "pushMerged")
    /\ UNCHANGED <<segs, hot, sealing, building, warm, cold, published, disk,
                   nextId, pending, recs, counters>>

PushMerged(t) ==
    /\ At(t, "pushMerged")
    /\ sealedHot' = sealedHot \cup {thr[t].made}
    /\ thr' = [thr EXCEPT ![t].pc = "build", ![t].then = "defer"]
    /\ UNCHANGED <<segs, hot, sealing, building, warm, cold, published, disk,
                   nextId, pending, recs, counters>>

\* The old directories wait for try_cleanup_pending.
DeferRemoval(t) ==
    /\ At(t, "defer")
    /\ pending' = pending \cup thr[t].cands
    /\ Done(t)
    /\ UNCHANGED <<segs, hot, lists, published, disk, nextId, recs, counters>>

\* cleanup_pending_dirs and try_cleanup_pending: a directory that cannot be
\* removed yet stays for the next attempt.
Cleanup(gone) ==
    /\ \E t \in Maintainers : MayStart(t)
    /\ gone # {}
    /\ disk' = disk \ gone
    /\ pending' = pending \ gone
    /\ UNCHANGED <<segs, hot, lists, published, nextId, thr, recs, counters>>

-----------------------------------------------------------------------------
(* promote_hot. *)

BeginPromotion(t) ==
    /\ MaintainerStarts(t)
    /\ promotions < MaxPromotions
    /\ Listed # {}
    /\ promotions' = promotions + 1
    /\ thr' = [thr EXCEPT ![t] = [Idle EXCEPT !.pc = "promote", !.left = Contents(Listed)]]
    /\ UNCHANGED <<segs, hot, lists, published, disk, nextId, pending, recs, faults, crashes, load>>

\* meta.get of a candidate whose access score is high enough.
PromoteGet(t, o) ==
    /\ At(t, "promote")
    /\ o \in thr[t].left \cap live
    /\ thr' = [thr EXCEPT ![t].pc = "promotePut", ![t].rec = o, ![t].left = @ \ {o}]
    /\ UNCHANGED <<segs, hot, lists, published, disk, nextId, pending, recs, counters>>

\* meta.put of the record read before, and Hot; a full Hot segment is sealed.
PromotePut(t) ==
    /\ At(t, "promotePut")
    /\ live' = live \cup {thr[t].rec}
    /\ hot' = hot \cup {thr[t].rec}
    /\ thr' = [thr EXCEPT ![t].pc = IF Cardinality(hot') >= HotCapacity
                                    THEN "seal" ELSE "promote",
                          ![t].then = IF Cardinality(hot') >= HotCapacity
                                      THEN "promote" ELSE "idle"]
    /\ UNCHANGED <<segs, lists, published, disk, nextId, pending, deleted, next, counters>>

\* The other candidates score too low; publish if any was promoted.
EndPromotion(t) ==
    /\ At(t, "promote")
    /\ thr' = [thr EXCEPT ![t] = IF @.rec = 0 THEN Idle ELSE [Idle EXCEPT !.pc = "build"]]
    /\ UNCHANGED <<segs, hot, lists, published, disk, nextId, pending, recs, counters>>

-----------------------------------------------------------------------------
(* The process stops, and open loads what the directories hold. *)

OfTier(tags, tier) == {t \in tags : segs[t].tier = tier}

\* A warm segment that a cold one covers was compacted already.
LoadedWarm(tags) == {t \in OfTier(tags, "warm") :
    ~(segs[t].offs \subseteq Contents(OfTier(tags, "cold")))}

\* Largest first, a sealed segment covered by the ones before it is dropped.
LoadedSealed(tags) ==
    LET bySize == SetToSortSeq(OfTier(tags, "sealed"), LAMBDA s, r :
            \/ Cardinality(segs[s].offs) > Cardinality(segs[r].offs)
            \/ Cardinality(segs[s].offs) = Cardinality(segs[r].offs) /\ s < r)
        kept == FoldLeft(LAMBDA acc, t : IF segs[t].offs \subseteq Contents(acc)
                                         THEN acc ELSE acc \cup {t}, {}, bySize)
    IN  OfTier(tags, "sealed") \cap kept

\* SegmentHolder::from_records: the other live records fill Hot in order, and
\* each full Hot segment is sealed.
Rebuilt(offs) ==
    LET inOrder == SetToSortSeq(offs, <)
        full == Cardinality(offs) \div HotCapacity
    IN  [plains |-> [i \in 1 .. full |-> [tier |-> "plain", id |-> 0, offs |->
                        Range(SubSeq(inOrder, (i - 1) * HotCapacity + 1, i * HotCapacity))]],
         hot |-> Range(SubSeq(inOrder, full * HotCapacity + 1, Len(inOrder)))]

\* Mutant: the counter starts over on each open.
FirstFreeIdReset(tags) == 1
\* SegmentHolder::new: past every directory on disk.
FirstFreeId(tags) ==
    CHOOSE n \in 1 .. nextId : /\ \A t \in tags : segs[t].id < n
                               /\ n > 1 => \E t \in tags : segs[t].id = n - 1

\* bad: directories that fail to load; stuck: superseded ones whose removal
\* fails; back: the records that recovery brings back.  A record that
\* promote_hot wrote after its delete is back only if a flush saved it.
Restart(bad, stuck, back) ==
    /\ crashes < MaxCrashes
    /\ crashes' = crashes + 1
    /\ faults + Cardinality(bad) + Cardinality(stuck) <= MaxFaults
    /\ faults' = faults + Cardinality(bad) + Cardinality(stuck)
    /\ LET read == disk \ bad
           loaded == OfTier(read, "cold") \cup LoadedWarm(read) \cup LoadedSealed(read)
           rest == Rebuilt(back \ Contents(loaded))
           made == Len(segs) + 1 .. Len(segs) + Len(rest.plains)
       IN /\ stuck \subseteq read \ loaded
          /\ Len(segs) + Len(rest.plains) <= MaxSegs
          /\ segs' = segs \o rest.plains
          /\ hot' = rest.hot
          /\ sealing' = [i \in 1 .. Len(rest.plains) |-> Len(segs) + i]
          /\ building' = {}
          /\ sealedHot' = LoadedSealed(read)
          /\ warm' = LoadedWarm(read)
          /\ cold' = OfTier(read, "cold")
          /\ published' = loaded \cup made
          /\ disk' = loaded \cup stuck
          /\ nextId' = FirstFreeId(loaded \cup stuck)
    /\ pending' = {}
    /\ thr' = [t \in Threads |-> Idle]
    /\ live' = back
    /\ UNCHANGED <<deleted, next, promotions, load>>

-----------------------------------------------------------------------------
\* The steps of a job after its first.
Continue(t) ==
    \/ SealSwap(t) \/ SealPush(t) \/ BuildSnapshot(t) \/ StoreSnapshot(t)
    \/ BuildSegment(t) \/ RemovePlain(t) \/ PushBuilt(t)
    \/ CaptureWarm(t) \/ BuildCold(t) \/ InstallCold(t) \/ DiscardWarm(t)
    \/ AcquireMerge(t) \/ BuildMerged(t) \/ RemoveMerged(t) \/ PushMerged(t)
    \/ DeferRemoval(t)
    \/ PromotePut(t) \/ EndPromotion(t)

Next ==
    \/ \E n \in 1 .. MaxBatch : BeginBatch(n)
    \/ Insert
    \/ \E o \in Offsets : Delete(o)
    \/ \E t \in Maintainers : \/ BeginSeal(t) \/ PopSealing(t) \/ BeginCompaction(t)
                              \/ CaptureMerge(t) \/ BeginPromotion(t)
                              \/ \E o \in Offsets : PromoteGet(t, o)
    \/ \E t \in Threads : Continue(t)
    \/ \E gone \in SUBSET pending : Cleanup(gone)
    \/ \E bad \in SUBSET disk : \E stuck \in SUBSET (disk \ bad) :
          \E back \in {live, live \ deleted} : Restart(bad, stuck, back)

Spec == Init /\ [][Next]_vars

\* A thread inside a job goes on; the optimizer's tick, a flush or a
\* consolidation begins with the pending seals.
FairSpec ==
    /\ Spec
    /\ WF_vars(Insert)
    /\ \A t \in Threads : WF_vars(Continue(t))
    /\ SF_vars(\E t \in Maintainers : PopSealing(t))

-----------------------------------------------------------------------------
(* Properties. *)

\* What a thread has taken off the lists and has yet to put back.
InHand(t) ==
    CASE At(t, "insert") -> thr[t].left
      [] At(t, "sealPush") \/ At(t, "push") -> segs[thr[t].plain].offs
      [] At(t, "pushMerged") -> segs[thr[t].made].offs
      [] OTHER -> {}


\* A segment that searches may read keeps its directory: compaction, merge and
\* cleanup remove only directories of segments already off the lists
\* (discard_segment_dir, try_cleanup_pending), and never one that is listed.
ListedHasDirectory == sealedHot \cup warm \cup cold \subseteq disk \ pending

\* Two segment directories never share a path, also after a restart that
\* removed some of them (SegmentHolder::new starts the counter past them).
DistinctDirectories ==
    \A s, r \in disk : segs[s].tier = segs[r].tier /\ segs[s].id = segs[r].id => s = r

\* With one caller at a time a live record is visible to searches at every
\* moment, except while the Hot segment that holds it is being sealed or its
\* batch is being applied.
VisibleExceptSealing ==
    live \subseteq Visible \cup UNION {
        IF At(t, "insert") THEN thr[t].left
        ELSE IF thr[t].pc \in {"sealPush", "build", "store"} /\ thr[t].plain # 0
             THEN segs[thr[t].plain].offs ELSE {} : t \in Threads}

\* Once no operation is running every live record is visible: the snapshot is
\* published after every change of the lists.
VisibleWhenQuiet == (\A t \in Threads : At(t, "idle")) => live \subseteq Visible

\* A deleted record stays deleted while records are promoted.
DeletedStaysDeleted == deleted \cap live = {}

\* Every segment queued for a build is built in the end, also after a failed
\* build put it back.
SealsAreBuilt ==
    (sealing # <<>> \/ building # {}) ~> (sealing = <<>> /\ building = {})

=============================================================================
