----------------------------- MODULE Durability -----------------------------
(***************************************************************************)
(* Durability and recovery of turbomemory_storage: the write path          *)
(* (engine/write.rs), the write-ahead log (wal.rs), the mmap vector file   *)
(* (vector_store.rs), the lazy redb snapshot (metadata_store.rs) and the   *)
(* flush and open protocols (engine/mod.rs).                               *)
(*                                                                         *)
(* A record is abstracted to its id, its insert_seq and a version, a       *)
(* number that stands for its contents.  The embedding of a record is also *)
(* represented by that version, so the CRC32 logged with an insert matches *)
(* a slot exactly when the slot holds the version; a torn or stale slot    *)
(* holds another number.                                                   *)
(*                                                                         *)
(* write_lock serialises writers, so one variable holds the write that is  *)
(* between its first and its last step; flush_barrier excludes a flush     *)
(* from that interval and a write from a flush.  The process may be killed *)
(* between any two steps, a step of open included; a power loss also loses *)
(* what was not synced.                                                    *)
(***************************************************************************)
EXTENDS Integers, Sequences, FiniteSets

CONSTANTS
    Ids,            \* record ids
    None,           \* "no record", "no offset", "no write in progress"
    MaxWrites,      \* bound: records ever written
    MaxLog,         \* bound: frames in the log
    MaxBatch,       \* bound: records of one insert_batch
    MaxCrashes,     \* bound: kills and power losses
    InitialSlots,   \* vector slots of a new file, max(1024, initial_slots)
    SyncWrites,     \* TierConfig::sync_writes
    PowerLosses,    \* whether power losses happen
    Faults          \* names of the steps that may return an I/O error

Offsets == 0 .. (MaxWrites - 1)
Versions == 1 .. MaxWrites
FaultSteps == {"put", "vsync", "log", "wsync", "payload", "apply",
               "fwal", "fvec", "fmeta", "frest", "fclear"}

ASSUME ConstantsAssumption ==
    /\ MaxWrites \in Nat \ {0}
    /\ MaxLog \in Nat /\ MaxBatch \in Nat /\ MaxCrashes \in Nat
    /\ InitialSlots \in Nat
    /\ SyncWrites \in BOOLEAN /\ PowerLosses \in BOOLEAN
    /\ Faults \subseteq FaultSteps

Recs == [id : Ids, seq : Nat, ver : Versions]

\* WalOp: Insert, Replace (an update) and Delete; a torn frame is one that
\* WalIter::read_frame cannot read.
Frames == [op : {"insert", "replace", "delete", "torn"},
           offset : Offsets \cup {None}, old : Offsets \cup {None},
           rec : Recs \cup {None}]

\* Types of the write in progress and of the locals of open.
OpTypes == [kind : {"insert", "replace", "delete"}, id : Ids \cup {None},
            frames : Seq(Frames), done : Nat,
            pc : {"put", "vsync", "log", "wsync", "unindex", "apply"}]
ScanTypes == [cursor : Nat \ {0}, maxSeq : Nat, maxOffset : Nat,
              replayed : BOOLEAN, fresh : BOOLEAN, vectorsAtOpen : Nat]

\* None stands beside offsets, records and these, and is none of them.
ASSUME NoneAssumption ==
    /\ None \notin Nat /\ None \notin Recs
    /\ None \notin OpTypes /\ None \notin ScanTypes

VARIABLES
    phase,      \* "down", a step of open, "up", or "refused" (Corrupted)
    \* the files, as the running system sees them
    wal,        \* frames of wal_meta.bin
    vec,        \* contents of each vector slot (0: never written)
    hdr,        \* count stamped in the vector file's header
    slots,      \* slots the vector file has room for
    snap,       \* the redb snapshot
    \* what of the log and the vector file a power loss cannot take back
    walSynced, vecSynced, hdrSynced, slotsSynced,
    \* memory of the process
    records,    \* MetadataStore::records
    dirty,      \* MetadataStore::dirty
    nextOffset, nextSeq,
    idIndex,    \* StorageEngine::id_index
    count,      \* VectorStore::count
    scan,       \* locals of open
    op,         \* the write that holds write_lock
    flusher,    \* next step of the flush that holds flush_barrier
    \* history
    ver,        \* versions handed out
    acked,      \* version each id has after the last acknowledged write
    unsure,     \* ids with a write that was not acknowledged since
    unflushed,  \* ids written since the last completed flush
    crashes

files == <<wal, vec, hdr, slots, snap>>
synced == <<walSynced, vecSynced, hdrSynced, slotsSynced>>
memory == <<records, dirty, nextOffset, nextSeq, idIndex, count>>
history == <<acked, unsure, unflushed>>
vars == <<phase, files, synced, memory, scan, op, flusher, ver, history, crashes>>

Max2(a, b) == IF a >= b THEN a ELSE b
Min2(a, b) == IF a <= b THEN a ELSE b

TornFrame == [op |-> "torn", offset |-> None, old |-> None, rec |-> None]
DeleteFrame(o) == [op |-> "delete", offset |-> o, old |-> None, rec |-> None]

NoRecords == [o \in Offsets |-> None]
Live(recs) == {o \in Offsets : recs[o] # None}

-----------------------------------------------------------------------------
Init ==
    /\ phase = "down"
    /\ wal = <<>> /\ walSynced = 0
    /\ vec = [o \in Offsets |-> 0] /\ vecSynced = vec
    /\ hdr = 0 /\ hdrSynced = 0
    /\ slots = InitialSlots /\ slotsSynced = InitialSlots
    /\ snap = [written |-> FALSE, records |-> NoRecords, nextOffset |-> 0,
               nextSeq |-> 1, lastApplied |-> 0]
    /\ records = NoRecords /\ dirty = {} /\ nextOffset = 0 /\ nextSeq = 1
    /\ idIndex = [i \in Ids |-> None] /\ count = 0
    /\ scan = None /\ op = None /\ flusher = "idle"
    /\ ver = 0
    /\ acked = [i \in Ids |-> None] /\ unsure = {} /\ unflushed = {}
    /\ crashes = 0

-----------------------------------------------------------------------------
(* The write path.  A write is [kind, id, frames, done, pc]: the frames it *)
(* will log, how many of their vectors are in the file, and its next step. *)

FrameIds(fs) == {fs[i].rec.id : i \in DOMAIN fs}
OpIds == IF op.kind = "delete" THEN {op.id} ELSE FrameIds(op.frames)

\* flush_barrier.read() and write_lock.lock(), and the bounds of the model.
MayWrite(n) ==
    /\ phase = "up" /\ op = None /\ flusher = "idle"
    /\ ver + n <= MaxWrites /\ nextOffset + n <= MaxWrites
    /\ Len(wal) + Max2(n, 1) <= MaxLog

\* The first steps under the locks: allocate_offset and allocate_seq for
\* every record, in order.
BeginPut(kind, id, ids, old) ==
    LET n == Len(ids) IN
    /\ op' = [kind |-> kind, id |-> id, done |-> 0, pc |-> "put",
              frames |-> [i \in 1 .. n |->
                  [op |-> kind, offset |-> nextOffset + i - 1, old |-> old,
                   rec |-> [id |-> ids[i], seq |-> nextSeq + i - 1,
                            ver |-> ver + i]]]]
    /\ nextOffset' = nextOffset + n
    /\ nextSeq' = nextSeq + n
    /\ ver' = ver + n
    /\ unsure' = unsure \cup {ids[i] : i \in 1 .. n}
    /\ unflushed' = unflushed \cup {ids[i] : i \in 1 .. n}
    /\ UNCHANGED <<phase, files, synced, records, dirty, idIndex, count, scan,
                   flusher, acked, crashes>>

Batches == {s \in UNION {[1 .. n -> Ids] : n \in 1 .. MaxBatch} :
               \A i, j \in DOMAIN s : s[i] = s[j] => i = j}

\* insert and insert_batch: ids already in the index are rejected (insert) or
\* dropped from the batch, ids repeated in the batch are dropped.
StartInsert(ids) ==
    /\ MayWrite(Len(ids))
    /\ \A i \in DOMAIN ids : idIndex[ids[i]] = None
    /\ BeginPut("insert", None, ids, None)

StartUpdate(id) ==
    /\ MayWrite(1)
    /\ idIndex[id] # None
    /\ BeginPut("replace", id, <<id>>, idIndex[id])

\* delete_by_id and delete_by_id_at: nothing is written before the log entry.
StartDelete(id) ==
    /\ MayWrite(0)
    /\ idIndex[id] # None
    /\ op' = [kind |-> "delete", id |-> id, done |-> 0, pc |-> "log",
              frames |-> <<DeleteFrame(idIndex[id])>>]
    /\ unsure' = unsure \cup {id}
    /\ unflushed' = unflushed \cup {id}
    /\ UNCHANGED <<phase, files, synced, memory, scan, flusher, ver, acked, crashes>>

At(pc) == phase = "up" /\ op # None /\ op.pc = pc

\* VectorStore::put for the next record of the write.  A slot beyond the file
\* grows it first (grow_inner), which stamps the count of the moment.
PutVector ==
    /\ At("put")
    /\ LET f == op.frames[op.done + 1]
           last == op.done + 1 = Len(op.frames)
       IN /\ IF f.offset >= slots
             THEN slots' = Max2(f.offset + 1, 2 * slots) /\ hdr' = count
             ELSE UNCHANGED <<slots, hdr>>
          /\ vec' = [vec EXCEPT ![f.offset] = f.rec.ver]
          /\ count' = Max2(count, f.offset + 1)
          /\ op' = [op EXCEPT !.done = @ + 1,
                              !.pc = IF ~last THEN "put"
                                     ELSE IF SyncWrites THEN "vsync" ELSE "log"]
    /\ UNCHANGED <<phase, wal, snap, synced, records, dirty, nextOffset,
                   nextSeq, idIndex, scan, flusher, ver, history, crashes>>

\* The slots first..=last that sync_range syncs.
InRangeShort(o) == op.frames[1].offset <= o /\ o < op.frames[Len(op.frames)].offset
InRange(o) == op.frames[1].offset <= o /\ o <= op.frames[Len(op.frames)].offset

\* sync_vectors_if_configured.
SyncVectors ==
    /\ At("vsync")
    /\ vecSynced' = [o \in Offsets |-> IF InRange(o) THEN vec[o] ELSE vecSynced[o]]
    /\ slotsSynced' = slots
    /\ op' = [op EXCEPT !.pc = "log"]
    /\ UNCHANGED <<phase, files, walSynced, hdrSynced, memory, scan, flusher,
                   ver, history, crashes>>

AfterLog == IF op.kind = "insert" THEN "apply" ELSE "unindex"

\* log(): Wal::append_batch, one write for all the frames.
AppendLog ==
    /\ At("log")
    /\ wal' = wal \o op.frames
    /\ op' = [op EXCEPT !.pc = IF SyncWrites THEN "wsync" ELSE AfterLog]
    /\ UNCHANGED <<phase, vec, hdr, slots, snap, synced, memory, scan, flusher,
                   ver, history, crashes>>

\* log(): Wal::flush, with sync_writes.
SyncLog ==
    /\ At("wsync")
    /\ walSynced' = Len(wal)
    /\ op' = [op EXCEPT !.pc = AfterLog]
    /\ UNCHANGED <<phase, files, vecSynced, hdrSynced, slotsSynced, memory,
                   scan, flusher, ver, history, crashes>>

\* The caller is told that the write succeeded.
Acknowledge(v) ==
    /\ op' = None
    /\ acked' = [i \in Ids |-> IF i \in OpIds THEN v[i] ELSE acked[i]]
    /\ unsure' = unsure \ OpIds

\* remove_from_indexes, for a delete or for the old version of an update.
Unindex ==
    /\ At("unindex")
    /\ LET o == idIndex[op.id] IN
          /\ records' = [records EXCEPT ![o] = None]
          /\ dirty' = dirty \cup {o}
          /\ idIndex' = [idIndex EXCEPT ![op.id] = None]
    /\ IF op.kind = "delete"
       THEN Acknowledge([i \in Ids |-> None])
       ELSE op' = [op EXCEPT !.pc = "apply"] /\ UNCHANGED <<acked, unsure>>
    /\ UNCHANGED <<phase, files, synced, nextOffset, nextSeq, count, scan,
                   flusher, ver, unflushed, crashes>>

FrameAt(fs, o) == fs[CHOOSE i \in DOMAIN fs : fs[i].offset = o]
FrameOf(fs, id) == fs[CHOOSE i \in DOMAIN fs : fs[i].rec.id = id]

\* IndexApplier::apply_batch on the update worker, as far as recovery can
\* tell: MetadataStore::put_batch, then the id index.
PutBatch ==
    LET written == {op.frames[i].offset : i \in DOMAIN op.frames} IN
    /\ records' = [o \in Offsets |->
           IF o \in written THEN FrameAt(op.frames, o).rec ELSE records[o]]
    /\ dirty' = dirty \cup written

\* The metadata of the whole batch, the ids of its first n records.
ApplyBatch(n) ==
    /\ PutBatch
    /\ idIndex' = [i \in Ids |->
           IF i \in {op.frames[j].rec.id : j \in 1 .. n}
           THEN FrameOf(op.frames, i).offset ELSE idIndex[i]]

Apply ==
    /\ At("apply")
    /\ ApplyBatch(Len(op.frames))
    /\ Acknowledge([i \in Ids |->
           IF i \in OpIds THEN FrameOf(op.frames, i).rec.ver ELSE None])
    /\ UNCHANGED <<phase, files, synced, nextOffset, nextSeq, count, scan,
                   flusher, ver, unflushed, crashes>>

\* append_batch rolls back what it wrote when it fails; a failed sync leaves
\* the frames in the log.
LogAfterErrorTorn == IF op.pc = "log" THEN Append(wal, TornFrame) ELSE wal
LogAfterError == wal

\* A step of the write returns an error, and with it the write.
FailStep ==
    /\ \E s \in {"put", "vsync", "log", "wsync"} \cap Faults : At(s)
    /\ op' = None
    /\ wal' = LogAfterError
    /\ UNCHANGED <<phase, vec, hdr, slots, snap, synced, memory, scan, flusher,
                   ver, history, crashes>>

FailApplyUnindexed ==
    /\ At("apply") /\ "apply" \in Faults
    /\ PutBatch
    /\ op' = None
    /\ UNCHANGED <<phase, files, synced, nextOffset, nextSeq, idIndex, count,
                   scan, flusher, ver, history, crashes>>

\* apply_batch returns an error after the metadata cache was changed.  At the
\* payload of a record, which prepare only skims and PayloadIndex::add parses,
\* the ids after it are not indexed; later (text index, Hot segment) all are.
FailApply ==
    /\ At("apply")
    /\ \E n \in 1 .. Len(op.frames) :
          /\ \/ "payload" \in Faults
             \/ "apply" \in Faults /\ n = Len(op.frames)
          /\ ApplyBatch(n)
    /\ op' = None
    /\ UNCHANGED <<phase, files, synced, nextOffset, nextSeq, count, scan,
                   flusher, ver, history, crashes>>

WriteStep == \/ PutVector \/ SyncVectors \/ AppendLog \/ SyncLog
             \/ Unindex \/ Apply \/ FailStep \/ FailApply

-----------------------------------------------------------------------------
(* flush, one step per call that changes a file. *)

FlushBeginUnfenced ==
    /\ phase = "up" /\ flusher = "idle"
    /\ flusher' = "fwal"
    /\ UNCHANGED <<phase, files, synced, memory, scan, op, ver, history, crashes>>

\* flush_barrier.write() waits for the write in progress.
FlushBegin ==
    /\ phase = "up" /\ flusher = "idle" /\ op = None
    /\ flusher' = "fwal"
    /\ UNCHANGED <<phase, files, synced, memory, scan, op, ver, history, crashes>>

FlushAt(step) == phase = "up" /\ flusher = step

FlushWal ==
    /\ FlushAt("fwal")
    /\ walSynced' = Len(wal)
    /\ flusher' = "fvec"
    /\ UNCHANGED <<phase, files, vecSynced, hdrSynced, slotsSynced, memory,
                   scan, op, ver, history, crashes>>


\* VectorStore::flush: stamp the header, msync the file.
StampAndSync ==
    /\ hdr' = count
    /\ hdrSynced' = count
    /\ vecSynced' = vec
    /\ slotsSynced' = slots

FlushVectors ==
    /\ FlushAt("fvec")
    /\ StampAndSync
    /\ flusher' = "fmeta"
    /\ UNCHANGED <<phase, wal, vec, slots, snap, walSynced, memory, scan, op,
                   ver, history, crashes>>

\* write_snapshot: a dirty slot is inserted or, if its record is gone, removed.
SnapshotRecords ==
    [o \in Offsets |-> IF o \in dirty THEN records[o] ELSE snap.records[o]]

\* MetadataStore::flush: dirty slots and the counters in one transaction,
\* unless nothing changed in an empty store.
Snapshot(lastApplied) ==
    /\ snap' = IF /\ dirty = {} /\ Live(records) = {}
                  /\ snap.written /\ snap.lastApplied = lastApplied
               THEN snap
               ELSE [written |-> TRUE, records |-> SnapshotRecords,
                     nextOffset |-> nextOffset, nextSeq |-> nextSeq,
                     lastApplied |-> lastApplied]
    /\ dirty' = {}

\* The flush excludes writes, so every sequence number handed out is applied
\* or belongs to a write that failed.
FlushedSeq == nextSeq - 1

FlushMeta ==
    /\ FlushAt("fmeta")
    /\ Snapshot(FlushedSeq)
    /\ flusher' = "frest"
    /\ UNCHANGED <<phase, wal, vec, hdr, slots, synced, records, nextOffset,
                   nextSeq, idIndex, count, scan, op, ver, history, crashes>>

\* segments.flush, save_graph, save_ccs: files this module does not hold.
FlushRest ==
    /\ FlushAt("frest")
    /\ flusher' = "fclear"
    /\ UNCHANGED <<phase, files, synced, memory, scan, op, ver, history, crashes>>

\* Wal::clear.
ClearLog == wal' = <<>> /\ walSynced' = 0

FlushClearHeld ==
    /\ FlushAt("fclear")
    /\ ClearLog
    /\ unflushed' = {}
    /\ UNCHANGED <<phase, vec, hdr, slots, snap, vecSynced, hdrSynced,
                   slotsSynced, memory, scan, op, flusher, ver, acked, unsure,
                   crashes>>
FlushClear ==
    /\ FlushAt("fclear")
    /\ ClearLog
    /\ flusher' = "idle"
    /\ unflushed' = {}
    /\ UNCHANGED <<phase, vec, hdr, slots, snap, vecSynced, hdrSynced,
                   slotsSynced, memory, scan, op, ver, acked, unsure, crashes>>

\* A failed MetadataStore::flush puts the dirty set back.
DirtyAfterErrorTaken == IF flusher = "fmeta" THEN {} ELSE dirty
DirtyAfterError == dirty

\* Any step of flush may return an error.  VectorStore::flush has then stamped
\* the header; Wal::clear may have emptied the log.
FailFlush ==
    /\ \E s \in Faults : FlushAt(s)
    /\ flusher' = "idle"
    /\ hdr' = IF flusher = "fvec" THEN count ELSE hdr
    /\ \/ UNCHANGED <<wal, walSynced>>
       \/ flusher = "fclear" /\ ClearLog
    /\ dirty' = DirtyAfterError
    /\ UNCHANGED <<phase, vec, slots, snap, vecSynced, hdrSynced, slotsSynced,
                   records, nextOffset, nextSeq, idIndex, count, scan, op, ver,
                   history, crashes>>

FlushStep == \/ FlushWal \/ FlushVectors \/ FlushMeta \/ FlushRest
             \/ FlushClear \/ FailFlush

-----------------------------------------------------------------------------
(* open: load the snapshot, replay the log, persist, check, index. *)

OpenFiles ==
    /\ phase = "down"
    /\ phase' = "replay"
    /\ records' = snap.records /\ dirty' = {}
    /\ nextOffset' = snap.nextOffset /\ nextSeq' = snap.nextSeq
    /\ count' = Min2(hdr, slots)
    /\ scan' = [cursor |-> 1, maxSeq |-> snap.lastApplied, maxOffset |-> 0,
                replayed |-> FALSE, fresh |-> ~snap.written,
                vectorsAtOpen |-> Min2(hdr, slots)]
    /\ UNCHANGED <<files, synced, idIndex, op, flusher, ver, history, crashes>>

\* VectorStore::recover: the slot is in the file and matches the checksum.
Recoverable(f) == f.offset < slots /\ vec[f.offset] = f.rec.ver

Replayable == scan.cursor <= Len(wal) /\ wal[scan.cursor].op # "torn"

ReplaySkip ==
    /\ phase = "replay" /\ Replayable
    /\ wal[scan.cursor].op # "delete"
    /\ wal[scan.cursor].rec.seq <= snap.lastApplied
    /\ scan' = [scan EXCEPT !.cursor = @ + 1]
    /\ UNCHANGED <<phase, files, synced, memory, op, flusher, ver, history, crashes>>

\* meta.remove(old_offset), for a Replace, and meta.put(offset).
ReplayedRecords(f) ==
    [o \in Offsets |-> IF o = f.offset THEN f.rec
                       ELSE IF o = f.old THEN None ELSE records[o]]

ReplayPut ==
    /\ phase = "replay" /\ Replayable
    /\ LET f == wal[scan.cursor] IN
       /\ f.op # "delete" /\ f.rec.seq > snap.lastApplied
       /\ IF Recoverable(f)
          THEN /\ records' = ReplayedRecords(f)
               /\ dirty' = dirty \cup ({f.offset, f.old} \ {None})
               /\ count' = Max2(count, f.offset + 1)
          ELSE UNCHANGED <<records, dirty, count>>
       /\ scan' = [scan EXCEPT !.cursor = @ + 1, !.replayed = TRUE,
                               !.maxSeq = Max2(@, f.rec.seq),
                               !.maxOffset = Max2(@, f.offset)]
    /\ UNCHANGED <<phase, files, synced, nextOffset, nextSeq, idIndex, op,
                   flusher, ver, history, crashes>>

ReplayDelete ==
    /\ phase = "replay" /\ Replayable
    /\ wal[scan.cursor].op = "delete"
    /\ records' = [records EXCEPT ![wal[scan.cursor].offset] = None]
    /\ dirty' = dirty \cup {wal[scan.cursor].offset}
    /\ scan' = [scan EXCEPT !.cursor = @ + 1, !.replayed = TRUE]
    /\ UNCHANGED <<phase, files, synced, nextOffset, nextSeq, idIndex, count,
                   op, flusher, ver, history, crashes>>

\* advance_offset_past and advance_seq_past.
PastOffByOne(next, max) == Max2(next, max)
Past(next, max) == Max2(next, max + 1)

\* The log is read to its end or to a torn frame, which is cut off
\* (truncate_to syncs the file).  If anything was replayed the counters move
\* past it and the recovered state is persisted.
ReplayEnd ==
    /\ phase = "replay" /\ ~Replayable
    /\ wal' = SubSeq(wal, 1, scan.cursor - 1)
    /\ walSynced' = IF scan.cursor <= Len(wal) THEN scan.cursor - 1 ELSE walSynced
    /\ IF scan.replayed
       THEN /\ phase' = "rvec"
            /\ nextOffset' = Past(nextOffset, scan.maxOffset)
            /\ nextSeq' = Past(nextSeq, scan.maxSeq)
       ELSE phase' = "check" /\ UNCHANGED <<nextOffset, nextSeq>>
    /\ UNCHANGED <<vec, hdr, slots, snap, vecSynced, hdrSynced, slotsSynced,
                   records, dirty, idIndex, count, scan, op, flusher, ver,
                   history, crashes>>

RecoverVectors ==
    /\ phase = "rvec"
    /\ StampAndSync
    /\ phase' = "rmeta"
    /\ UNCHANGED <<wal, vec, slots, snap, walSynced, memory, scan, op, flusher,
                   ver, history, crashes>>

RecoverMeta ==
    /\ phase = "rmeta"
    /\ Snapshot(scan.maxSeq)
    /\ phase' = "rclear"
    /\ UNCHANGED <<wal, vec, hdr, slots, synced, records, nextOffset, nextSeq,
                   idIndex, count, scan, op, flusher, ver, history, crashes>>

RecoverClear ==
    /\ phase = "rclear"
    /\ ClearLog
    /\ phase' = "check"
    /\ UNCHANGED <<vec, hdr, slots, snap, vecSynced, hdrSynced, slotsSynced,
                   memory, scan, op, flusher, ver, history, crashes>>

\* The two consistency checks of open that end in StorageError::Corrupted.
Inconsistent ==
    \/ scan.fresh /\ ~scan.replayed /\ scan.vectorsAtOpen > 0
    \/ \E o \in Live(records) : o >= count

Refuse ==
    /\ phase = "check" /\ Inconsistent
    /\ phase' = "refused"
    /\ UNCHANGED <<files, synced, memory, scan, op, flusher, ver, history, crashes>>

\* The id index is collected in the order of created_at and insert_seq: of
\* two records with one id the later wins.  (Clocks are taken to be monotone.)
Latest(recs, id) ==
    LET mine == {o \in Live(recs) : recs[o].id = id} IN
    IF mine = {} THEN None
    ELSE CHOOSE o \in mine : \A p \in mine : recs[p].seq <= recs[o].seq

VersionIn(recs, o) == IF o = None THEN None ELSE recs[o].ver

\* The store is open; a caller can now see how each unacknowledged write ended.
BuildIndexes ==
    /\ phase = "check" /\ ~Inconsistent
    /\ phase' = "up"
    /\ idIndex' = [i \in Ids |-> Latest(records, i)]
    /\ acked' = [i \in Ids |-> IF i \in unsure
                               THEN VersionIn(records, Latest(records, i))
                               ELSE acked[i]]
    /\ unsure' = {}
    /\ scan' = None
    /\ UNCHANGED <<files, synced, records, dirty, nextOffset, nextSeq, count,
                   op, flusher, ver, unflushed, crashes>>

OpenStep == \/ OpenFiles \/ ReplaySkip \/ ReplayPut \/ ReplayDelete \/ ReplayEnd
            \/ RecoverVectors \/ RecoverMeta \/ RecoverClear
            \/ Refuse \/ BuildIndexes

-----------------------------------------------------------------------------
(* Crashes. *)

\* The process is gone, with its memory.
ProcessGone ==
    /\ phase \notin {"down", "refused"} /\ crashes < MaxCrashes
    /\ crashes' = crashes + 1
    /\ phase' = "down"
    /\ records' = NoRecords /\ dirty' = {} /\ nextOffset' = 0 /\ nextSeq' = 1
    /\ idIndex' = [i \in Ids |-> None] /\ count' = 0
    /\ scan' = None /\ op' = None /\ flusher' = "idle"
    /\ UNCHANGED <<ver, acked, unflushed>>

\* A kill: the files keep every completed write; one in the middle of
\* append_batch leaves some whole frames and a torn one.
Kill ==
    /\ ProcessGone
    /\ \/ UNCHANGED wal
       \/ /\ At("log")
          /\ \E k \in 0 .. (Len(op.frames) - 1) :
                wal' = wal \o SubSeq(op.frames, 1, k) \o <<TornFrame>>
    /\ UNCHANGED <<vec, hdr, slots, snap, synced, unsure>>

\* A power loss: of what was not synced, any part may be missing.  The log
\* keeps a prefix, perhaps with a torn frame behind it.
PowerLoss ==
    /\ PowerLosses
    /\ ProcessGone
    /\ \E k \in walSynced .. Len(wal) :
          \/ wal' = SubSeq(wal, 1, k)
          \/ k < Len(wal) /\ wal' = SubSeq(wal, 1, k) \o <<TornFrame>>
    /\ walSynced' = Len(wal')
    /\ \E n \in {slotsSynced, slots} :
          /\ slots' = n /\ slotsSynced' = n
          /\ \E lost \in SUBSET {o \in Offsets : vec[o] # vecSynced[o]} :
                vec' = [o \in Offsets |-> IF o >= n THEN 0
                                          ELSE IF o \in lost THEN vecSynced[o]
                                          ELSE vec[o]]
    /\ vecSynced' = vec'
    /\ \E h \in {hdrSynced, hdr} : hdr' = h /\ hdrSynced' = h
    /\ unsure' = IF SyncWrites THEN unsure ELSE unsure \cup unflushed
    /\ UNCHANGED snap

-----------------------------------------------------------------------------
StartWrite == \/ \E ids \in Batches : StartInsert(ids)
              \/ \E id \in Ids : StartUpdate(id) \/ StartDelete(id)

Next == \/ StartWrite \/ WriteStep
        \/ FlushBegin \/ FlushStep
        \/ OpenStep
        \/ Kill \/ PowerLoss

Spec == Init /\ [][Next]_vars

\* The threads of the process are scheduled, so a write, a flush and an open
\* that have begun go on, and a store that went down is opened again.  Nothing
\* is assumed about when callers write or flush.
Fairness == WF_vars(WriteStep) /\ WF_vars(FlushStep) /\ WF_vars(OpenStep)

FairSpec == Spec /\ Fairness

-----------------------------------------------------------------------------
(* What the files hold: the records a kill at this moment would leave.     *)
(* Offsets are not reused within a log, so the order of its frames does    *)
(* not matter: a record is there if the snapshot or a frame put it there   *)
(* and no frame took it away.                                              *)

Readable == {i \in DOMAIN wal : \A j \in 1 .. i : wal[j].op # "torn"}
Puts == {i \in Readable : /\ wal[i].op # "delete"
                          /\ wal[i].rec.seq > snap.lastApplied
                          /\ Recoverable(wal[i])}
Deletes == {i \in Readable : wal[i].op = "delete"}
DurableRecords ==
    LET puts == Puts
        removed == {wal[i].offset : i \in Deletes} \cup {wal[i].old : i \in puts}
    IN [o \in Offsets |->
           IF o \in removed THEN None
           ELSE IF \E i \in puts : wal[i].offset = o
           THEN wal[CHOOSE i \in puts : wal[i].offset = o].rec
           ELSE snap.records[o]]

\* The store a caller sees survive: a map from ids to versions.
DurableMap ==
    LET recs == DurableRecords
    IN [i \in Ids |-> VersionIn(recs, Latest(recs, i))]

\* The write that is in progress and not in the log yet.
PendingWrite ==
    IF op = None \/ (op # None /\ op.pc \notin {"put", "vsync", "log"}) THEN None
    ELSE [i \in OpIds |-> IF op.kind = "delete" THEN None
                          ELSE FrameOf(op.frames, i).rec.ver]

Promise == INSTANCE AtomicStore WITH kv <- DurableMap, req <- PendingWrite

-----------------------------------------------------------------------------
(* Properties. *)

SnapTypes == [written : BOOLEAN, records : [Offsets -> Recs \cup {None}],
              nextOffset : Nat, nextSeq : Nat \ {0}, lastApplied : Nat]
OpenPhases == {"replay", "rvec", "rmeta", "rclear", "check"}

\* Every variable has the type of the field or file it stands for.
TypeOK ==
    /\ phase \in {"down", "up", "refused"} \cup OpenPhases
    /\ wal \in Seq(Frames) /\ walSynced \in 0 .. Len(wal)
    /\ vec \in [Offsets -> Nat] /\ vecSynced \in [Offsets -> Nat]
    /\ hdr \in Nat /\ hdrSynced \in Nat
    /\ slots \in Nat /\ slotsSynced \in Nat
    /\ snap \in SnapTypes
    /\ records \in [Offsets -> Recs \cup {None}]
    /\ dirty \in SUBSET Offsets
    /\ nextOffset \in Nat /\ nextSeq \in Nat \ {0}
    /\ idIndex \in [Ids -> Offsets \cup {None}]
    /\ count \in Nat
    /\ scan \in ScanTypes \cup {None}
    /\ op \in OpTypes \cup {None}
    /\ flusher \in {"idle", "fwal", "fvec", "fmeta", "frest", "fclear"}
    /\ ver \in 0 .. MaxWrites
    /\ acked \in [Ids -> Versions \cup {None}]
    /\ unsure \in SUBSET Ids /\ unflushed \in SUBSET Ids
    /\ crashes \in Nat

\* "everything a writer was told succeeded is back after a kill": an open
\* store gives each id what its last acknowledged write left, unless a write
\* of that id failed or was cut off since (with sync_writes also after a power
\* loss; without, an id written since the last flush may have any outcome).
AckedSurvives ==
    phase = "up" =>
        \A i \in Ids \ unsure : VersionIn(records, idIndex[i]) = acked[i]

\* One live record per id, and the id index names it: no version is left
\* behind by an update, a delete, a recovery or a retry.
OneRecordPerId ==
    phase = "up" =>
        /\ \A o \in Live(records) : idIndex[records[o].id] = o
        /\ \A i \in Ids : idIndex[i] # None => records[idIndex[i]] # None

\* Every live record can be searched: its slot is counted and holds its own
\* vector, never that of another write that used the offset.
LiveHasVector ==
    phase = "up" =>
        \A o \in Live(records) : o < count /\ vec[o] = records[o].ver

\* Between writes the metadata cache is what a kill would bring back.
CacheIsDurable ==
    phase = "up" /\ op = None => records = DurableRecords

\* No sequence number or offset of a live, logged or snapshotted record is
\* handed out again.
CountersAhead ==
    phase = "up" =>
        /\ \A o \in Live(records) \cup Live(snap.records) : o < nextOffset
        /\ \A o \in Live(records) : records[o].seq < nextSeq
        /\ snap.lastApplied < nextSeq
        /\ \A i \in DOMAIN wal : wal[i].op \in {"insert", "replace"} =>
               wal[i].offset < nextOffset /\ wal[i].rec.seq < nextSeq


\* The second of them, a live record beyond the vectors of the file, is never
\* met, whatever step failed and whatever a power loss took.
CountCoversRecords == phase = "check" => \A o \in Live(records) : o < count

\* What survives a kill changes only when the write in progress is appended to
\* the log, and then as that write says; no step of a flush, a crash or a
\* recovery changes it.
RefinesPromise == Promise!Spec

\* An interrupted open finishes once crashes stop, whatever the log holds.
OpenFinishes == (phase \in OpenPhases) ~> (phase = "up")

\* A write and a flush that begin end, if only with an error or a crash.
WritesAndFlushesEnd ==
    /\ (op # None) ~> (op = None)
    /\ (flusher # "idle") ~> (flusher = "idle")

\* Nothing that is begun is left unfinished for ever: neither the recovery that
\* open runs, nor a write that holds the write lock, nor a flush that holds
\* writers out (engine/mod.rs:250-420, 897-957, write.rs:191).
EverythingEnds == OpenFinishes /\ WritesAndFlushesEnd
=============================================================================
