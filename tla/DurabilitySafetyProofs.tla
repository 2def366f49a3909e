----------------------- MODULE DurabilitySafetyProofs -----------------------
(***************************************************************************)
(* Every step of Durability preserves Vectors, IndInv is inductive, and    *)
(* what follows from it in every reachable state: TypeOK, CountersAhead,   *)
(* LiveHasVector and CountCoversRecords.                                   *)
(***************************************************************************)
EXTENDS DurabilityCounterProofs, TLAPS

USE DEF files, synced, memory, history

-----------------------------------------------------------------------------
(* Vectors. *)

\* Shrinking the cache keeps what is known of the vectors of the rest.
LEMMA CacheShrinks ==
  ASSUME CacheVectors, UNCHANGED <<snap, count, slots, vec>>,
         \A o \in Offsets : records'[o] \in {records[o], None}
  PROVE  CacheVectors'
  <1>1. \A o \in Live(records') : o \in Live(records) /\ records'[o] = records[o]
    BY DEF Live
  <1> QED BY <1>1 DEF CacheVectors, Live

\* A snapshot taken once the vector file is stamped and synced.
LEMMA SnapshotVectors ==
  ASSUME Vectors, CacheVectors, AllSynced, NEW n \in Nat, Snapshot(n),
         UNCHANGED <<vec, vecSynced, hdr, hdrSynced, slots, slotsSynced, records, count>>
  PROVE  SnapVectors' /\ CacheVectors'
  <1>1. CASE snap' = snap
    BY <1>1 DEF Vectors, SnapVectors, CacheVectors, Live
  <1>2. CASE snap' # snap
    <2>1. snap'.records = SnapshotRecords
      BY <1>2 DEF Snapshot
    <2>2. \A o \in Live(SnapshotRecords) :
             /\ o < slots /\ o < slotsSynced /\ o < hdr /\ o < hdrSynced /\ o < count
             /\ vec[o] = SnapshotRecords[o].ver /\ vecSynced[o] = SnapshotRecords[o].ver
      <3> TAKE o \in Live(SnapshotRecords)
      <3>1. o \in Offsets /\ SnapshotRecords[o] # None
        BY DEF Live
      <3>2. CASE o \in dirty
        <4>1. o \in Live(records) /\ SnapshotRecords[o] = records[o]
          BY <3>1, <3>2 DEF SnapshotRecords, Live
        <4> QED BY <4>1 DEF CacheVectors, AllSynced
      <3>3. CASE o \notin dirty
        <4>1. o \in Live(snap.records) /\ SnapshotRecords[o] = snap.records[o]
          BY <3>1, <3>3 DEF SnapshotRecords, Live
        <4> QED BY <4>1 DEF Vectors, SnapVectors, CacheVectors
      <3> QED BY <3>2, <3>3
    <2> QED BY <2>1, <2>2 DEF SnapVectors, CacheVectors, Live
  <1> QED BY <1>1, <1>2

\* Starting a write changes no vector.
LEMMA StartVectors ==
  ASSUME Types, Vectors, StartWrite
  PROVE  Vectors'
  <1>1. /\ phase = "up" /\ flusher = "idle" /\ phase' = phase /\ flusher' = flusher
        /\ UNCHANGED <<vec, vecSynced, hdr, hdrSynced, slots, slotsSynced, snap,
                       records, count>>
        /\ op' # None => op'.kind = "delete" \/ (op'.pc = "put" /\ op'.done = 0)
    <2>1. /\ phase = "up" /\ flusher = "idle" /\ phase' = phase /\ flusher' = flusher
          /\ UNCHANGED <<vec, vecSynced, hdr, hdrSynced, slots, slotsSynced, snap,
                         records, count>>
      BY ZenonT(30) DEF StartWrite, StartInsert, StartUpdate, StartDelete, BeginPut, MayWrite
    <2>2. ASSUME NEW kind, NEW id, NEW ids, NEW old, BeginPut(kind, id, ids, old)
          PROVE  op'.pc = "put" /\ op'.done = 0
      BY <2>2 DEF BeginPut
    <2>3. ASSUME NEW id \in Ids, StartDelete(id)
          PROVE  op'.kind = "delete"
      BY <2>3 DEF StartDelete
    <2> QED BY <2>1, <2>2, <2>3, ZenonT(30) DEF StartWrite, StartInsert, StartUpdate
  <1>2. SnapVectors' /\ CacheVectors'
    BY <1>1 DEF Vectors, SnapVectors, CacheVectors, Live, Opened
  <1>3. op' # None /\ op'.kind # "delete" => OpVectors'
    <2> SUFFICES ASSUME op' # None, op'.kind # "delete" PROVE OpVectors'
      OBVIOUS
    <2>1. Types'
      BY StartTypes
    <2>2. op'.frames \in Seq(PutFrames)
      BY <2>1 DEF Types, Shape, OpShape
    <2>3. DOMAIN op'.frames = 1 .. Len(op'.frames)
      BY <2>2, LenProperties
    <2>4. \A i \in DOMAIN op'.frames : ~ (i <= 0)
      BY <2>2, <2>3, LenProperties
    <2> QED BY <1>1, <2>4 DEF OpVectors
  <1> QED BY <1>1, <1>2, <1>3 DEF Vectors

\* A write fills only slots that no live or snapshotted record has.
LEMMA WriteVectors ==
  ASSUME Types, Counters, Vectors, WriteStep
  PROVE  Vectors'
  <1>1. /\ phase = "up" /\ op # None /\ flusher = "idle"
        /\ phase' = phase /\ flusher' = flusher /\ snap' = snap
    BY ZenonT(30) DEF WriteStep, PutVector, SyncVectors, AppendLog, SyncLog, Unindex, Apply,
           FailStep, FailApply, At, Types, Shape
  <1>2. SnapVectors /\ CacheVectors /\ Numbers
    BY <1>1, TypesGiveNumbers DEF Vectors, Opened
  <1>3. op.kind # "delete" => OpCounters /\ OpVectors
    BY <1>1 DEF Counters, Vectors
  <1>4. /\ op \in OpTypes /\ op.done \in Nat
        /\ DOMAIN op.frames = 1 .. Len(op.frames) /\ Len(op.frames) \in Nat
        /\ count \in Nat /\ slots \in Nat /\ vec \in [Offsets -> Nat]
    BY <1>1, OpFrames DEF OpTypes, Types, TypeOK
  <1>5. ASSUME SnapVectors', CacheVectors',
               op' # None /\ op'.kind # "delete" => OpVectors'
        PROVE  Vectors'
    BY <1>1, <1>5 DEF Vectors
  \* A step that leaves the vector file alone.
  <1>6. ASSUME UNCHANGED <<vec, vecSynced, hdr, hdrSynced, slots, slotsSynced, count>>,
               \A o \in Offsets : records'[o] \in {records[o], None},
               op' = None \/ (/\ op'.kind = op.kind /\ op'.frames = op.frames
                              /\ op'.done = op.done /\ op'.pc # "put" /\ op.pc # "put")
        PROVE  Vectors'
    <2>1. CacheVectors'
      BY <1>1, <1>2, <1>6, CacheShrinks
    <2>2. SnapVectors'
      BY <1>1, <1>2, <1>6 DEF SnapVectors
    <2>3. op' # None /\ op'.kind # "delete" => OpVectors'
      BY <1>3, <1>6 DEF OpVectors
    <2> QED BY <1>5, <2>1, <2>2, <2>3
  <1>7. CASE PutVector
    <2> DEFINE f == op.frames[op.done + 1]
    <2>1. op.kind # "delete" /\ op.done + 1 \in DOMAIN op.frames
      BY <1>1, <1>4, <1>7, OpFrames DEF PutVector, At, OpShape
    <2>2. /\ slots' = (IF f.offset >= slots THEN Max2(f.offset + 1, 2 * slots) ELSE slots)
          /\ hdr' \in {hdr, count}
          /\ vec' = [vec EXCEPT ![f.offset] = f.rec.ver]
          /\ count' = Max2(count, f.offset + 1)
          /\ UNCHANGED <<vecSynced, hdrSynced, slotsSynced, records>>
          /\ op' = [op EXCEPT !.done = op.done + 1, 
                              !.pc = IF op.done + 1 # Len(op.frames) THEN "put"
                                     ELSE IF SyncWrites THEN "vsync" ELSE "log"]
      BY <1>4, <1>7, ZenonT(30) DEF PutVector, OpTypes
    <2>3. /\ f.offset \in Offsets /\ f.offset \in Nat
          /\ snap.nextOffset <= f.offset /\ records[f.offset] = None
          /\ \A i \in DOMAIN op.frames : op.frames[i].offset = f.offset => i = op.done + 1
      BY <1>1, <1>2, <1>3, <2>1 DEF OpCounters, Numbers, Pending
    <2>4. /\ op'.frames = op.frames /\ op'.done = op.done + 1
          /\ op'.pc # "put" => op.done + 1 = Len(op.frames)
      BY <1>4, <2>2 DEF OpTypes
    <2>5. \A i \in DOMAIN op.frames : op.frames[i].offset \in Offsets
      BY <1>1, <1>2, <2>1 DEF Numbers, Pending, PutFrames
    <2> HIDE DEF f
    <2>6. /\ slots <= slots' /\ count <= count' /\ f.offset < slots' /\ f.offset < count'
          /\ count' \in Nat /\ slots' \in Nat
      BY <1>4, <2>2, <2>3, SMTT(60) DEF Max2
    <2>7. /\ \A o \in Offsets : o # f.offset => vec'[o] = vec[o]
          /\ vec'[f.offset] = f.rec.ver
      BY <1>4, <2>2, <2>3
    <2>8. \A o \in Live(snap.records) : o \in Offsets /\ o \in Nat /\ o # f.offset
      <3>1. \A o \in Live(snap.records) : o < snap.nextOffset
        BY <1>2 DEF Counters, SnapCounters
      <3>2. snap.nextOffset \in Nat /\ \A o \in Live(snap.records) : o \in Offsets /\ o \in Nat
        BY <1>2 DEF Numbers, Live
      <3> QED BY <2>3, <3>1, <3>2
    <2>9. \A o \in Live(records) : o \in Offsets /\ o \in Nat /\ o # f.offset
      BY <1>2, <2>3 DEF Numbers, Live
    <2>10. SnapVectors'
      <3> SUFFICES ASSUME NEW o \in Live(snap.records)
                   PROVE  /\ o < slots' /\ o < slotsSynced /\ o < hdr' /\ o < hdrSynced
                          /\ vec'[o] = snap.records[o].ver
                          /\ vecSynced[o] = snap.records[o].ver
        BY <1>1, <2>2 DEF SnapVectors
      <3>1. /\ o < slots /\ o < slotsSynced /\ o < hdr /\ o < hdrSynced /\ o < count
            /\ vec[o] = snap.records[o].ver /\ vecSynced[o] = snap.records[o].ver
        BY <1>2 DEF SnapVectors, CacheVectors
      <3>2. o < slots' /\ o < hdr'
        BY <1>4, <2>2, <2>6, <2>8, <3>1
      <3> QED BY <2>7, <2>8, <3>1, <3>2
    <2>11. CacheVectors'
      <3>1. ASSUME NEW o \in Live(records)
            PROVE  o < count' /\ o < slots' /\ vec'[o] = records[o].ver
        <4>1. o < count /\ o < slots /\ vec[o] = records[o].ver
          BY <1>2 DEF CacheVectors
        <4> QED BY <1>4, <2>6, <2>7, <2>9, <4>1
      <3>2. ASSUME NEW o \in Live(snap.records)
            PROVE  o < count'
        <4>1. o < count
          BY <1>2 DEF CacheVectors
        <4> QED BY <1>4, <2>6, <2>8, <4>1
      <3> QED BY <1>1, <2>2, <3>1, <3>2 DEF CacheVectors
    <2>12. OpVectors'
      <3>1. ASSUME NEW i \in DOMAIN op.frames, i <= op.done + 1
            PROVE  /\ op.frames[i].offset < count' /\ op.frames[i].offset < slots'
                   /\ vec'[op.frames[i].offset] = op.frames[i].rec.ver
        <4>1. CASE i = op.done + 1
          BY <2>6, <2>7, <4>1 DEF f
        <4>2. CASE i # op.done + 1
          <5>1. i <= op.done /\ op.frames[i].offset # f.offset
            BY <1>4, <2>3, <3>1, <4>2
          <5>2. /\ op.frames[i].offset < count /\ op.frames[i].offset < slots
                /\ vec[op.frames[i].offset] = op.frames[i].rec.ver
            BY <1>3, <2>1, <5>1 DEF OpVectors
          <5>3. op.frames[i].offset \in Offsets /\ op.frames[i].offset \in Nat
            BY <1>2, <2>5 DEF Numbers
          <5> QED BY <1>4, <2>6, <2>7, <5>1, <5>2, <5>3, SMTT(60)
        <4> QED BY <4>1, <4>2
      <3> QED BY <2>4, <3>1 DEF OpVectors
    <2> QED BY <1>5, <2>10, <2>11, <2>12, ZenonT(30)
  <1>8. CASE SyncVectors
    <2>1. /\ \A o \in Offsets : vecSynced'[o] \in {vec[o], vecSynced[o]}
          /\ slotsSynced' = slots
          /\ UNCHANGED <<vec, hdr, hdrSynced, slots, records, count>>
          /\ op'.frames = op.frames /\ op'.done = op.done /\ op'.pc # "put"
          /\ op.pc # "put" /\ op'.kind = op.kind
      BY <1>4, <1>8, ZenonT(30) DEF SyncVectors, At, OpTypes
    <2>2. SnapVectors'
      BY <1>1, <1>2, <2>1, ZenonT(30) DEF SnapVectors, Live
    <2>3. CacheVectors'
      BY <1>1, <1>2, <2>1, ZenonT(30) DEF CacheVectors, Live
    <2>4. op' # None /\ op'.kind # "delete" => OpVectors'
      BY <1>3, <2>1 DEF OpVectors
    <2> QED BY <1>5, <2>2, <2>3, <2>4
  <1>9. CASE AppendLog \/ SyncLog
    <2>1. op'.pc # "put" /\ op.pc # "put"
      BY <1>4, <1>9, ZenonT(30) DEF AppendLog, SyncLog, At, AfterLog, OpTypes
    <2>2. /\ op'.kind = op.kind /\ op'.frames = op.frames /\ op'.done = op.done
          /\ records' = records
          /\ UNCHANGED <<vec, vecSynced, hdr, hdrSynced, slots, slotsSynced, count>>
      BY <1>4, <1>9 DEF AppendLog, SyncLog, OpTypes
    <2> QED BY <1>6, <2>1, <2>2
  <1>10. CASE Unindex
    <2>1. op' = None \/ (/\ op'.kind = op.kind /\ op'.frames = op.frames
                         /\ op'.done = op.done /\ op'.pc # "put" /\ op.pc # "put")
      BY <1>4, <1>10 DEF Unindex, Acknowledge, At, OpTypes
    <2>2. \A o \in Offsets : records'[o] \in {records[o], None}
      BY <1>10 DEF Unindex, Types, TypeOK
    <2>3. UNCHANGED <<vec, vecSynced, hdr, hdrSynced, slots, slotsSynced, count>>
      BY <1>10 DEF Unindex
    <2> QED BY <1>6, <2>1, <2>2, <2>3
  <1>11. CASE FailStep
    BY <1>6, <1>11 DEF FailStep
  <1>12. CASE Apply \/ FailApply
    <2>1. /\ op' = None /\ PutBatch /\ op.kind # "delete" /\ op.pc = "apply"
          /\ UNCHANGED <<vec, vecSynced, hdr, hdrSynced, slots, slotsSynced, count>>
      BY <1>1, <1>12, OpFrames, ZenonT(30) DEF Apply, FailApply, Acknowledge, ApplyBatch, At, OpShape
    <2> DEFINE written == {op.frames[i].offset : i \in DOMAIN op.frames}
    <2>2. records' = [o \in Offsets |->
              IF o \in written THEN FrameAt(op.frames, o).rec ELSE records[o]]
      BY <2>1, ZenonT(30) DEF PutBatch
    <2>3. \A o \in written : /\ o < count /\ o < slots
                             /\ vec[o] = FrameAt(op.frames, o).rec.ver
      <3> TAKE o \in written
      <3>1. \E i \in DOMAIN op.frames : op.frames[i].offset = o
        OBVIOUS
      <3>2. PICK i \in DOMAIN op.frames : /\ op.frames[i].offset = o
                                          /\ FrameAt(op.frames, o) = op.frames[i]
        BY <3>1, ZenonT(30) DEF FrameAt
      <3>3. i <= op.done
        BY <1>3, <1>4, <2>1 DEF OpVectors
      <3> QED BY <1>3, <2>1, <3>2, <3>3 DEF OpVectors
    <2> HIDE DEF written
    <2>4. \A o \in Live(records') : o < count /\ o < slots /\ vec[o] = records'[o].ver
      <3> TAKE o \in Live(records')
      <3>1. o \in Offsets /\ records'[o] # None
        BY DEF Live
      <3>2. CASE o \in written
        BY <2>2, <2>3, <3>1, <3>2, ZenonT(30)
      <3>3. CASE o \notin written
        BY <1>2, <2>2, <3>1, <3>3 DEF CacheVectors, Live
      <3> QED BY <3>2, <3>3
    <2>5. CacheVectors'
      BY <1>1, <1>2, <2>1, <2>4 DEF CacheVectors
    <2>6. SnapVectors'
      BY <1>1, <1>2, <2>1 DEF SnapVectors
    <2> QED BY <1>5, <2>1, <2>5, <2>6, ZenonT(30)
  <1> QED BY <1>7, <1>8, <1>9, <1>10, <1>11, <1>12, ZenonT(30) DEF WriteStep

\* A flush writes the snapshot once every vector is stamped and synced.
LEMMA FlushVectorsStep ==
  ASSUME Types, Counters, Vectors, FlushBegin \/ FlushStep
  PROVE  Vectors'
  <1> USE DEF FlushAt
  <1>1. /\ phase = "up" /\ phase' = "up" /\ op = None /\ op' = None
        /\ UNCHANGED <<vec, slots, records, count>>
    <2>1. phase = "up" /\ phase' = "up" /\ UNCHANGED <<vec, slots, records, count, op>>
      BY ZenonT(30) DEF FlushBegin, FlushStep, FlushWal, FlushVectors, FlushMeta, FlushRest,
             FlushClear, FailFlush
    <2>2. op = None
      BY ConstantsAssumption
         DEF FlushBegin, FlushStep, FlushWal, FlushVectors, FlushMeta, FlushRest,
             FlushClear, FailFlush, FaultSteps, Types, Shape
    <2> QED BY <2>1, <2>2, ZenonT(30)
  <1>2. SnapVectors /\ CacheVectors
    BY <1>1 DEF Vectors, Opened
  <1>3. CASE FlushMeta
    <2>1. /\ AllSynced /\ Snapshot(nextSeq - 1) /\ nextSeq - 1 \in Nat
          /\ UNCHANGED <<vecSynced, hdr, hdrSynced, slotsSynced>> /\ flusher' = "frest"
      BY <1>3 DEF FlushMeta, FlushedSeq, Vectors, Types, TypeOK
    <2>2. SnapVectors' /\ CacheVectors'
      BY <1>1, <1>2, <2>1, SnapshotVectors
    <2> QED BY <1>1, <2>1, <2>2 DEF Vectors
  <1>4. CASE FlushVectors
    <2>1. /\ snap' = snap /\ hdr' = count /\ hdrSynced' = count /\ vecSynced' = vec
          /\ slotsSynced' = slots /\ flusher' = "fmeta"
      BY <1>4 DEF FlushVectors, StampAndSync
    <2>2. SnapVectors'
      BY <1>1, <1>2, <2>1 DEF SnapVectors, CacheVectors
    <2>3. CacheVectors'
      BY <1>1, <1>2, <2>1 DEF CacheVectors
    <2>4. AllSynced'
      BY <1>1, <2>1 DEF AllSynced
    <2> QED BY <1>1, <2>2, <2>3, <2>4 DEF Vectors
  <1>5. CASE ~FlushMeta /\ ~FlushVectors
    <2>1. /\ snap' = snap /\ hdr' \in {hdr, count} /\ flusher' # "fmeta"
          /\ UNCHANGED <<vecSynced, hdrSynced, slotsSynced>>
      BY <1>5, ZenonT(30) DEF FlushBegin, FlushStep, FlushWal, FlushRest, FlushClear, FailFlush
    <2>2. SnapVectors'
      BY <1>1, <1>2, <2>1, ZenonT(30) DEF SnapVectors, CacheVectors
    <2>3. CacheVectors'
      BY <1>1, <1>2, <2>1 DEF CacheVectors
    <2> QED BY <1>1, <2>1, <2>2, <2>3, ZenonT(30) DEF Vectors
  <1> QED BY <1>3, <1>4, <1>5

\* Replay brings back a record only with its own vector.
LEMMA OpenVectors ==
  ASSUME Types, Counters, Vectors, OpenStep
  PROVE  Vectors'
  <1>1. /\ op' = None /\ flusher' = "idle" /\ UNCHANGED <<vec, slots>>
        /\ SnapVectors /\ (phase # "down" => CacheVectors /\ scan \in ScanTypes)
    <2>1. /\ phase # "up" /\ (phase # "down" => phase \in OpenPhases)
          /\ UNCHANGED <<op, flusher, vec, slots>>
      BY ZenonT(30) DEF OpenStep, OpenFiles, ReplaySkip, ReplayPut, ReplayDelete, ReplayEnd,
             RecoverVectors, RecoverMeta, RecoverClear, Refuse, BuildIndexes, OpenPhases
    <2> QED BY <2>1, ZenonT(30) DEF Vectors, Opened, Types, TypeOK, Shape
  <1>2. Numbers /\ count \in Nat /\ slots \in Nat /\ hdr \in Nat
    BY TypesGiveNumbers DEF Types, TypeOK
  <1>3. ASSUME SnapVectors', phase' \in Opened => CacheVectors', phase' = "rmeta" => AllSynced'
        PROVE  Vectors'
    BY <1>1, <1>3 DEF Vectors
  <1>4. ASSUME UNCHANGED <<snap, vecSynced, hdr, hdrSynced, slotsSynced>>
        PROVE  SnapVectors'
    BY <1>1, <1>4 DEF SnapVectors
  <1>5. CASE OpenFiles
    <2>1. /\ UNCHANGED <<snap, vecSynced, hdr, hdrSynced, slotsSynced>>
          /\ records' = snap.records /\ count' = Min2(hdr, slots) /\ phase' = "replay"
      BY <1>5 DEF OpenFiles
    <2>2. \A o \in Live(snap.records) : o < Min2(hdr, slots)
      BY <1>1, <1>2 DEF SnapVectors, Min2
    <2>3. CacheVectors'
      BY <1>1, <2>1, <2>2 DEF CacheVectors, SnapVectors
    <2> QED BY <1>3, <1>4, <2>1, <2>3
  <1>6. CASE ReplayPut
    <2> DEFINE f == wal[scan.cursor]
    <2>1. /\ UNCHANGED <<snap, vecSynced, hdr, hdrSynced, slotsSynced>>
          /\ phase = "replay" /\ phase' = "replay" /\ Replayable /\ f.op # "delete"
          /\ \/ /\ f.offset < slots /\ vec[f.offset] = f.rec.ver
                /\ records' = ReplayedRecords(f) /\ count' = Max2(count, f.offset + 1)
             \/ UNCHANGED <<records, count>>
      BY <1>6 DEF ReplayPut, Recoverable
    <2>2. f \in PutFrames
      BY <2>1, ReplayFrame
    <2>3. f.offset \in Offsets /\ f.offset \in Nat
      BY <1>2, <2>2 DEF PutFrames, Numbers
    <2> HIDE DEF f
    <2>4. CacheVectors'
      <3>1. CASE UNCHANGED <<records, count>>
        BY <1>1, <2>1, <3>1 DEF CacheVectors
      <3>2. CASE /\ f.offset < slots /\ vec[f.offset] = f.rec.ver
                 /\ records' = ReplayedRecords(f) /\ count' = Max2(count, f.offset + 1)
        <4>1. count <= count' /\ f.offset < count' /\ count' \in Nat
          BY <1>2, <2>3, <3>2 DEF Max2
        <4>2. ASSUME NEW o \in Live(records')
              PROVE  o < count' /\ o < slots /\ vec[o] = records'[o].ver
          <5>1. o \in Offsets /\ o \in Nat /\ records'[o] # None
            BY <1>2 DEF Live, Numbers
          <5>2. CASE o = f.offset
            <6>1. records'[o] = f.rec
              BY <3>2, <5>1, <5>2 DEF ReplayedRecords
            <6> QED BY <3>2, <4>1, <5>2, <6>1, ZenonT(30)
          <5>3. CASE o # f.offset
            <6>1. o \in Live(records) /\ records'[o] = records[o]
              BY <3>2, <5>1, <5>3 DEF ReplayedRecords, Live
            <6>2. o < count /\ o < slots /\ vec[o] = records[o].ver
              BY <1>1, <2>1, <6>1 DEF CacheVectors
            <6> QED BY <1>2, <4>1, <5>1, <6>1, <6>2
          <5> QED BY <5>2, <5>3
        <4>3. ASSUME NEW o \in Live(snap.records)
              PROVE  o < count'
          <5>1. o < count /\ o \in Nat
            BY <1>1, <1>2, <2>1 DEF CacheVectors, Numbers, Live
          <5> QED BY <1>2, <4>1, <5>1
        <4> QED BY <1>1, <2>1, <4>2, <4>3 DEF CacheVectors
      <3> QED BY <2>1, <3>1, <3>2
    <2> QED BY <1>3, <1>4, <2>1, <2>4
  <1>7. CASE ReplayDelete
    <2>1. /\ UNCHANGED <<snap, vecSynced, hdr, hdrSynced, slotsSynced, count>>
          /\ phase = "replay" /\ phase' = "replay"
          /\ \E q : records' = [records EXCEPT ![q] = None]
      BY <1>7, ZenonT(30) DEF ReplayDelete
    <2>2. \A o \in Offsets : records'[o] \in {records[o], None}
      <3>1. records \in [Offsets -> Recs \cup {None}]
        BY DEF Types, TypeOK
      <3> QED BY <2>1, <3>1
    <2>3. CacheVectors'
      BY <1>1, <2>1, <2>2, CacheShrinks
    <2> QED BY <1>3, <1>4, <2>1, <2>3
  <1>8. CASE ReplaySkip \/ ReplayEnd \/ RecoverClear \/ Refuse \/ BuildIndexes
    <2>1. /\ UNCHANGED <<snap, vecSynced, hdr, hdrSynced, slotsSynced, count, records>>
          /\ phase # "down" /\ phase' # "rmeta"
      BY <1>8 DEF ReplaySkip, ReplayEnd, RecoverClear, Refuse, BuildIndexes
    <2>2. CacheVectors'
      BY <1>1, <2>1 DEF CacheVectors
    <2> QED BY <1>3, <1>4, <2>1, <2>2
  <1>9. CASE RecoverVectors
    <2>1. /\ snap' = snap /\ hdr' = count /\ hdrSynced' = count /\ vecSynced' = vec
          /\ slotsSynced' = slots /\ phase = "rvec" /\ UNCHANGED <<records, count>>
      BY <1>9 DEF RecoverVectors, StampAndSync
    <2>2. SnapVectors'
      BY <1>1, <2>1 DEF SnapVectors, CacheVectors
    <2>3. CacheVectors'
      BY <1>1, <2>1 DEF CacheVectors
    <2>4. AllSynced'
      BY <1>1, <2>1 DEF AllSynced
    <2> QED BY <1>3, <2>2, <2>3, <2>4
  <1>10. CASE RecoverMeta
    <2>1. /\ phase = "rmeta" /\ AllSynced /\ Snapshot(scan.maxSeq) /\ phase' = "rclear"
          /\ UNCHANGED <<vecSynced, hdr, hdrSynced, slotsSynced, records, count>>
      BY <1>10 DEF RecoverMeta, Vectors
    <2>2. scan.maxSeq \in Nat /\ CacheVectors
      BY <1>1, <2>1 DEF ScanTypes
    <2>3. SnapVectors' /\ CacheVectors'
      BY <1>1, <2>1, <2>2, SnapshotVectors
    <2> QED BY <1>3, <2>1, <2>3
  <1> QED BY <1>5, <1>6, <1>7, <1>8, <1>9, <1>10, ZenonT(30) DEF OpenStep

\* A power loss keeps what was synced, and all a snapshot refers to was.
LEMMA CrashVectors ==
  ASSUME Types, Vectors, Kill \/ PowerLoss
  PROVE  Vectors'
  <1>1. snap' = snap /\ phase' = "down" /\ op' = None /\ flusher' = "idle"
    BY DEF Kill, PowerLoss, ProcessGone
  <1>2. SnapVectors'
    <2>1. CASE Kill
      BY <2>1, <1>1 DEF Kill, Vectors, SnapVectors
    <2>2. CASE PowerLoss
      <3>1. PICK n \in {slotsSynced, slots} :
               /\ slots' = n /\ slotsSynced' = n
               /\ \E lost \in SUBSET {o \in Offsets : vec[o] # vecSynced[o]} :
                    vec' = [o \in Offsets |-> IF o >= n THEN 0
                                              ELSE IF o \in lost THEN vecSynced[o]
                                              ELSE vec[o]]
        BY <2>2, ZenonT(30) DEF PowerLoss
      <3>2. /\ vecSynced' = vec' /\ hdr' = hdrSynced'
            /\ hdr' \in {hdr, hdrSynced}
        BY <2>2 DEF PowerLoss
      <3>3. \A o \in Offsets : o < n => vec'[o] \in {vec[o], vecSynced[o]}
        <4>1. n \in Nat /\ \A o \in Offsets : o \in Nat
          BY TypesGiveNumbers, ZenonT(30) DEF Types, TypeOK, Numbers
        <4> QED BY <3>1, <4>1
      <3> SUFFICES ASSUME NEW o \in Live(snap.records)
                   PROVE  /\ o < n /\ o < hdr'
                          /\ vec'[o] = snap.records[o].ver
        BY <1>1, <3>1, <3>2, ZenonT(30) DEF SnapVectors
      <3>4. /\ o < slots /\ o < slotsSynced /\ o < hdr /\ o < hdrSynced
            /\ vec[o] = snap.records[o].ver /\ vecSynced[o] = snap.records[o].ver
            /\ o \in Offsets
        BY DEF Vectors, SnapVectors, Live
      <3> QED BY <3>1, <3>2, <3>3, <3>4, ZenonT(30)
    <2> QED BY <2>1, <2>2
  <1> QED BY <1>1, <1>2 DEF Vectors, Opened, OpenPhases

\* Every step keeps the vectors of the live and of the snapshotted records.
LEMMA NextVectors ==
  ASSUME Types, Counters, Vectors, [Next]_vars
  PROVE  Vectors'
  <1>1. CASE UNCHANGED vars
    <2>1. SnapVectors' = SnapVectors /\ CacheVectors' = CacheVectors
      BY <1>1, ZenonT(30) DEF vars, SnapVectors, CacheVectors, Live
    <2>2. AllSynced' = AllSynced /\ OpVectors' = OpVectors
      BY <1>1, ZenonT(30) DEF vars, AllSynced, OpVectors
    <2> QED BY <1>1, <2>1, <2>2, ZenonT(30) DEF vars, Vectors
  <1> QED BY <1>1, StartVectors, WriteVectors, FlushVectorsStep, OpenVectors,
             CrashVectors DEF Next

-----------------------------------------------------------------------------
\* A new store satisfies the inductive invariant.
LEMMA InitInd == Init => IndInv
  <1> SUFFICES ASSUME Init PROVE IndInv
    OBVIOUS
  <1>1. Types
    BY InitTypes
  <1>2. Live(snap.records) = {} /\ Logged = {} /\ phase = "down" /\ op = None
        /\ flusher = "idle" /\ snap.nextSeq = 1 /\ snap.lastApplied = 0
    BY DEF Init, Live, NoRecords, Logged
  <1>3. Counters
    BY <1>2 DEF Counters, SnapCounters, Loaded
  <1>4. Vectors
    BY <1>2 DEF Vectors, SnapVectors, Opened, OpenPhases
  <1> QED BY <1>1, <1>3, <1>4 DEF IndInv

\* Every step preserves the inductive invariant.
LEMMA NextInd == IndInv /\ [Next]_vars => IndInv'
  <1> SUFFICES ASSUME IndInv, [Next]_vars PROVE IndInv'
    OBVIOUS
  <1>1. Types'
    BY NextTypes DEF IndInv, Counters, Loaded
  <1> QED BY <1>1, NextCounters, NextVectors DEF IndInv

\* IndInv holds in every reachable state: the cache, the log and the snapshot
\* stay behind the counters, and the vector file holds what they refer to.
THEOREM Inductive == Spec => []IndInv
  BY InitInd, NextInd, PTL DEF Spec

\* TypeOK: every field and file keeps its type through writes, failures,
\* flushes, crashes and recoveries.
THEOREM TypeCorrect == Spec => []TypeOK
  <1>1. IndInv => TypeOK
    BY DEF IndInv, Types
  <1> QED BY <1>1, Inductive, PTL

\* CountersAhead: an open store never hands out the offset or the sequence
\* number of a record that is live, logged or in the snapshot, also when any
\* step failed and after any kill or power loss, with or without sync_writes.
THEOREM CountersStayAhead == Spec => []CountersAhead
  <1>1. IndInv => CountersAhead
    <2> SUFFICES ASSUME IndInv, phase = "up" PROVE CountersAhead
      BY DEF CountersAhead
    <2>1. Numbers /\ Ahead /\ SnapCounters
      BY TypesGiveNumbers DEF IndInv, Counters, Loaded
    <2>2. \A o \in Live(snap.records) : o < nextOffset
      <3>1. \A o \in Live(snap.records) : o \in Nat /\ o < snap.nextOffset
        BY <2>1 DEF SnapCounters, Numbers, Live
      <3>2. snap.nextOffset \in Nat /\ nextOffset \in Nat /\ snap.nextOffset <= nextOffset
        BY <2>1 DEF Ahead, Numbers
      <3> QED BY <3>1, <3>2
    <2>3. snap.lastApplied < nextSeq
      <3>1. snap.lastApplied < snap.nextSeq /\ snap.nextSeq <= nextSeq
        BY <2>1 DEF Ahead, SnapCounters
      <3>2. snap.lastApplied \in Nat /\ snap.nextSeq \in Nat /\ nextSeq \in Nat
        BY <2>1 DEF Numbers
      <3> QED BY <3>1, <3>2, SMTT(60)
    <2>4. \A i \in DOMAIN wal : wal[i].op \in {"insert", "replace"} =>
             wal[i].offset < nextOffset /\ wal[i].rec.seq < nextSeq
      BY <2>1 DEF Ahead, Logged, IsPut
    <2> QED BY <2>1, <2>2, <2>3, <2>4 DEF CountersAhead, Ahead
  <1> QED BY <1>1, Inductive, PTL

\* LiveHasVector: a live record of an open store is counted and its slot holds
\* its own vector, also when any step failed and after any kill or power loss.
THEOREM LiveKeepsVector == Spec => []LiveHasVector
  <1>1. IndInv => LiveHasVector
    BY DEF IndInv, Vectors, CacheVectors, Opened, LiveHasVector
  <1> QED BY <1>1, Inductive, PTL

\* CountCoversRecords: open never answers Corrupted because a live record lies
\* beyond the vectors that the file counts, whatever failed before.
THEOREM RecordsAreCounted == Spec => []CountCoversRecords
  <1>1. IndInv => CountCoversRecords
    BY DEF IndInv, Vectors, CacheVectors, Opened, OpenPhases, CountCoversRecords
  <1> QED BY <1>1, Inductive, PTL
=============================================================================
