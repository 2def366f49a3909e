---------------------- MODULE DurabilityCounterProofs ----------------------
(***************************************************************************)
(* Every step of Durability preserves Counters: next_offset and next_seq   *)
(* stay past the cache, the log and the snapshot.                          *)
(***************************************************************************)
EXTENDS DurabilityProofs, TLAPS

\* The frames of the write in progress that a step may add to the log.
Pending == IF op = None THEN {} ELSE {op.frames[i] : i \in DOMAIN op.frames}

\* What is a number in the counters, the cache, the snapshot and the frames.
Numbers ==
    /\ nextOffset \in Nat /\ nextSeq \in Nat \ {0}
    /\ snap.nextOffset \in Nat /\ snap.nextSeq \in Nat /\ snap.lastApplied \in Nat
    /\ \A o \in Offsets : o \in Nat
    /\ \A o \in Live(records) : records[o].seq \in Nat
    /\ \A o \in Live(snap.records) : snap.records[o].seq \in Nat
    /\ \A f \in Logged \cup Pending : IsPut(f) =>
          /\ f \in PutFrames /\ f.offset \in Offsets /\ f.offset \in Nat
          /\ f.rec \in Recs /\ f.rec.seq \in Nat
    /\ op # None /\ op.kind = "delete" => \A f \in Pending : ~IsPut(f)
    /\ op # None /\ op.kind # "delete" => \A f \in Pending : f \in PutFrames /\ IsPut(f)

USE DEF files, synced, memory, history

\* The types say which values are numbers, which the arithmetic below needs.
LEMMA TypesGiveNumbers ==
  ASSUME Types
  PROVE  Numbers
  <1>1. /\ nextOffset \in Nat /\ nextSeq \in Nat \ {0}
        /\ snap.nextOffset \in Nat /\ snap.nextSeq \in Nat /\ snap.lastApplied \in Nat
        /\ \A o \in Offsets : o \in Nat
    BY DEF Types, TypeOK, SnapTypes, Offsets
  <1>2. \A o \in Live(records) : records[o].seq \in Nat
    BY DEF Types, TypeOK, Live, Recs
  <1>3. \A o \in Live(snap.records) : snap.records[o].seq \in Nat
    <2>1. snap.records \in [Offsets -> Recs \cup {None}]
      BY DEF Types, TypeOK, SnapTypes
    <2> QED BY <2>1 DEF Live, Recs
  <1>4. \A f \in LogFrames : IsPut(f) =>
          /\ f \in PutFrames /\ f.offset \in Offsets /\ f.offset \in Nat
          /\ f.rec \in Recs /\ f.rec.seq \in Nat
    BY <1>1 DEF LogFrames, IsPut, DelFrames, TornFrame, PutFrames, Recs
  <1>5. Logged \subseteq LogFrames
    <2>1. wal \in Seq(LogFrames) /\ DOMAIN wal = 1 .. Len(wal)
      BY LenProperties DEF Types, Shape
    <2> QED BY <2>1, ElementOfSeq DEF Logged
  <1>6. op # None => Pending \subseteq LogFrames
    BY OpFrames, ElementOfSeq DEF Pending
  <1>7. op # None /\ op.kind = "delete" => \A f \in Pending : ~IsPut(f)
    <2> SUFFICES ASSUME op # None, op.kind = "delete" PROVE \A f \in Pending : ~IsPut(f)
      OBVIOUS
    <2>1. op.frames \in Seq(DelFrames) /\ DOMAIN op.frames = 1 .. Len(op.frames)
      BY OpFrames DEF OpShape
    <2>2. \A i \in DOMAIN op.frames : op.frames[i] \in DelFrames
      BY <2>1, ElementOfSeq
    <2> QED BY <2>2 DEF Pending, DelFrames, IsPut
  <1>8. op # None /\ op.kind # "delete" => \A f \in Pending : f \in PutFrames /\ IsPut(f)
    BY BatchTypes DEF Pending, PutFrames, IsPut
  <1>9. Logged \cup Pending \subseteq LogFrames
    BY <1>5, <1>6 DEF Pending
  <1> QED BY <1>1, <1>2, <1>3, <1>4, <1>7, <1>8, <1>9 DEF Numbers

\* A step leaves in the log only what was there, what the write in progress
\* appends, and torn frames.
LEMMA LogGrowth ==
  ASSUME Types, [Next]_vars
  PROVE  Logged' \subseteq Logged \cup Pending \cup {TornFrame}
  <1>0. wal \in Seq(LogFrames) /\ DOMAIN wal = 1 .. Len(wal) /\ Len(wal) \in Nat
    BY LenProperties DEF Types, Shape
  <1>1. CASE wal' = wal
    BY <1>1 DEF Logged
  <1>2. CASE wal' = <<>>
    BY <1>2 DEF Logged
  <1>3. CASE AppendLog
    <2>1. /\ op # None /\ op.frames \in Seq(LogFrames)
          /\ DOMAIN op.frames = 1 .. Len(op.frames) /\ Len(op.frames) \in Nat
      BY <1>3, OpFrames DEF AppendLog, At
    <2>2. /\ wal' = wal \o op.frames /\ wal' \in Seq(LogFrames)
          /\ Len(wal') = Len(wal) + Len(op.frames)
          /\ \A i \in 1 .. Len(wal) + Len(op.frames) :
               wal'[i] = IF i <= Len(wal) THEN wal[i] ELSE op.frames[i - Len(wal)]
      BY <1>0, <1>3, <2>1, ConcatProperties DEF AppendLog
    <2>3. DOMAIN wal' = 1 .. Len(wal) + Len(op.frames)
      BY <2>2, LenProperties
    <2>4. \A i \in DOMAIN wal' : wal'[i] \in Logged \cup Pending
      <3> TAKE i \in DOMAIN wal'
      <3>1. CASE i <= Len(wal)
        BY <1>0, <2>2, <2>3, <3>1 DEF Logged
      <3>2. CASE ~ (i <= Len(wal))
        <4>1. i - Len(wal) \in DOMAIN op.frames /\ wal'[i] = op.frames[i - Len(wal)]
          BY <1>0, <2>1, <2>2, <2>3, <3>2
        <4> QED BY <2>1, <4>1 DEF Pending
      <3> QED BY <3>1, <3>2
    <2> QED BY <2>4 DEF Logged
  <1>4. ASSUME NEW k \in 0 .. Len(wal), wal' = SubSeq(wal, 1, k)
        PROVE  Logged' \subseteq Logged
    <2>2. wal' \in Seq(LogFrames) /\ Len(wal') = k /\ \A i \in 1 .. k : wal'[i] = wal[i]
      BY <1>0, <1>4, CutTo
    <2>3. DOMAIN wal' = 1 .. k
      BY <2>2, LenProperties
    <2> QED BY <1>0, <2>2, <2>3 DEF Logged
  <1>5. ASSUME NEW k \in 0 .. Len(wal), wal' = SubSeq(wal, 1, k) \o <<TornFrame>>
        PROVE  Logged' \subseteq Logged \cup {TornFrame}
    <2>1. TornFrame \in LogFrames
      BY FrameSets
    <2>2. /\ wal' \in Seq(LogFrames) /\ Len(wal') = k + 1
          /\ \A i \in 1 .. k : wal'[i] = wal[i]
          /\ wal'[k + 1] = TornFrame
      BY <1>0, <1>5, <2>1, CutTorn
    <2>3. DOMAIN wal' = 1 .. k + 1
      BY <2>2, LenProperties
    <2>4. \A i \in DOMAIN wal' : wal'[i] \in Logged \cup {TornFrame}
      BY <1>0, <2>2, <2>3 DEF Logged
    <2> QED BY <2>4 DEF Logged
  <1>6. ASSUME At("log"), NEW k \in 0 .. (Len(op.frames) - 1),
               wal' = wal \o SubSeq(op.frames, 1, k) \o <<TornFrame>>
        PROVE  Logged' \subseteq Logged \cup Pending \cup {TornFrame}
    <2> DEFINE cut == SubSeq(op.frames, 1, k)
               kept == wal \o cut
               torn == <<TornFrame>>
    <2>1. /\ op # None /\ op.frames \in Seq(LogFrames) /\ Len(op.frames) \in Nat
          /\ DOMAIN op.frames = 1 .. Len(op.frames) /\ TornFrame \in LogFrames
          /\ k \in 0 .. Len(op.frames) /\ k \in Nat
      BY <1>6, OpFrames, FrameSets DEF At
    <2>2. cut \in Seq(LogFrames) /\ Len(cut) = k /\ \A i \in 1 .. k : cut[i] = op.frames[i]
      BY <2>1, CutTo
    <2>3. torn \in Seq(LogFrames) /\ Len(torn) = 1 /\ torn[1] = TornFrame
      BY <2>1
    <2>4. wal' = kept \o torn
      BY <1>6
    <2> HIDE DEF cut, torn
    <2>5. /\ kept \in Seq(LogFrames) /\ Len(kept) = Len(wal) + k
          /\ \A i \in 1 .. Len(wal) + k :
               kept[i] = IF i <= Len(wal) THEN wal[i] ELSE cut[i - Len(wal)]
      BY <1>0, <2>2, ConcatProperties, ZenonT(30)
    <2> HIDE DEF kept
    <2>6. \A i \in 1 .. Len(kept) : kept[i] \in Logged \cup Pending
      <3> TAKE i \in 1 .. Len(kept)
      <3>1. CASE i <= Len(wal)
        BY <1>0, <2>1, <2>5, <3>1 DEF Logged
      <3>2. CASE ~ (i <= Len(wal))
        <4>1. i - Len(wal) \in 1 .. k /\ kept[i] = cut[i - Len(wal)]
          BY <1>0, <2>1, <2>5, <3>2
        <4> DEFINE j == i - Len(wal)
        <4> HIDE DEF j
        <4>2. j \in 1 .. k /\ kept[i] = cut[j]
          BY <4>1 DEF j
        <4>3. j \in DOMAIN op.frames /\ kept[i] = op.frames[j]
          BY <2>1, <2>2, <4>2
        <4> QED BY <2>1, <4>3 DEF Pending
      <3> QED BY <3>1, <3>2
    <2>7. /\ wal' \in Seq(LogFrames) /\ Len(wal') = Len(kept) + 1
          /\ \A i \in 1 .. Len(kept) + 1 :
               wal'[i] = IF i <= Len(kept) THEN kept[i] ELSE torn[i - Len(kept)]
      <3>1. /\ kept \o torn \in Seq(LogFrames) /\ Len(kept \o torn) = Len(kept) + Len(torn)
            /\ \A i \in 1 .. Len(kept) + Len(torn) :
                 (kept \o torn)[i] = IF i <= Len(kept) THEN kept[i] ELSE torn[i - Len(kept)]
        <4>1. kept \in Seq(LogFrames) /\ torn \in Seq(LogFrames)
          BY <2>3, <2>5
        <4> QED BY <4>1, ConcatProperties
      <3> QED BY <2>3, <2>4, <3>1
    <2>8. DOMAIN wal' = 1 .. Len(kept) + 1 /\ Len(kept) \in Nat
      BY <2>5, <2>7, LenProperties
    <2>9. \A i \in DOMAIN wal' : wal'[i] \in Logged \cup Pending \cup {TornFrame}
      BY <2>3, <2>6, <2>7, <2>8
    <2> QED BY <2>9 DEF Logged
  <1>7. CASE Kill
    BY <1>1, <1>6, <1>7, ZenonT(30) DEF Kill
  <1>8. CASE PowerLoss
    <2>1. walSynced \in 0 .. Len(wal)
      BY DEF Types, TypeOK
    <2>2. PICK k \in walSynced .. Len(wal) :
             \/ wal' = SubSeq(wal, 1, k)
             \/ k < Len(wal) /\ wal' = SubSeq(wal, 1, k) \o <<TornFrame>>
      BY <1>8 DEF PowerLoss
    <2>3. k \in 0 .. Len(wal)
      BY <1>0, <2>1
    <2> QED BY <1>4, <1>5, <2>2, <2>3
  <1>9. CASE ReplayEnd
    <2>1. scan \in ScanTypes /\ scan.cursor <= Len(wal) + 1
      BY <1>9 DEF ReplayEnd, Types, TypeOK, Shape, OpenPhases
    <2>2. scan.cursor - 1 \in 0 .. Len(wal)
      BY <1>0, <2>1 DEF ScanTypes
    <2> QED BY <1>4, <1>9, <2>2 DEF ReplayEnd
  <1>10. CASE UNCHANGED vars
    BY <1>1, <1>10, ZenonT(30) DEF vars
  <1>11. CASE StartWrite
    BY <1>1, <1>11, ZenonT(30) DEF StartWrite, StartInsert, StartUpdate, StartDelete, BeginPut
  <1>12. CASE WriteStep
    BY <1>1, <1>3, <1>12 DEF WriteStep, PutVector, SyncVectors, SyncLog, Unindex,
       Apply, FailStep, FailApply, LogAfterError
  <1>13. CASE FlushBegin \/ FlushStep
    BY <1>1, <1>2, <1>13, ZenonT(30) DEF FlushBegin, FlushStep, FlushWal, FlushVectors, FlushMeta,
       FlushRest, FlushClear, FailFlush, ClearLog
  <1>14. CASE OpenStep
    BY <1>1, <1>2, <1>9, <1>14, ZenonT(30) DEF OpenStep, OpenFiles, ReplaySkip, ReplayPut,
       ReplayDelete, RecoverVectors, RecoverMeta, RecoverClear, Refuse,
       BuildIndexes, ClearLog
  <1> QED BY <1>7, <1>8, <1>10, <1>11, <1>12, <1>13, <1>14 DEF Next

\* The snapshot that a flush or a recovery writes is behind the counters.
LEMMA SnapshotCounters ==
  ASSUME Types, Numbers, SnapCounters, Ahead, NEW n \in Nat, n < nextSeq, Snapshot(n),
         UNCHANGED <<wal, records, nextOffset, nextSeq>>
  PROVE  SnapCounters' /\ Ahead'
  <1>1. CASE snap' = snap
    BY <1>1 DEF SnapCounters, Ahead, Logged, Live
  <1>2. CASE snap' # snap
    <2>1. snap' = [written |-> TRUE, records |-> SnapshotRecords,
                   nextOffset |-> nextOffset, nextSeq |-> nextSeq, lastApplied |-> n]
      BY <1>2 DEF Snapshot
    <2>2. /\ snap'.records = SnapshotRecords /\ snap'.nextOffset = nextOffset
          /\ snap'.nextSeq = nextSeq /\ snap'.lastApplied = n
      BY <2>1
    <2>3. \A o \in Live(SnapshotRecords) :
             o < nextOffset /\ SnapshotRecords[o].seq < nextSeq
      <3> TAKE o \in Live(SnapshotRecords)
      <3>1. o \in Offsets /\ SnapshotRecords[o] # None
        BY DEF Live
      <3>2. CASE o \in dirty
        BY <3>1, <3>2 DEF SnapshotRecords, Live, Ahead
      <3>3. CASE o \notin dirty
        <4>1. o \in Live(snap.records) /\ SnapshotRecords[o] = snap.records[o]
          BY <3>1, <3>3 DEF SnapshotRecords, Live
        <4> QED BY <3>1, <4>1 DEF SnapCounters, Ahead, Numbers
      <3> QED BY <3>2, <3>3
    <2>4. Logged' = Logged /\ Live(records') = Live(records)
      BY DEF Logged, Live
    <2>5. \A f \in Logged : IsPut(f) => f.offset < nextOffset
      BY DEF Ahead
    <2>6. SnapCounters'
      BY <2>2, <2>3, <2>4, <2>5, ZenonT(30) DEF SnapCounters, Live
    <2>7. Ahead'
      BY <2>2, <2>4, SMTT(60) DEF Ahead, Numbers
    <2> QED BY <2>6, <2>7
  <1> QED BY <1>1, <1>2, ZenonT(30)

\* While the snapshot stays, what the log gains is beyond it.
LEMMA SnapStays ==
  ASSUME Types, Counters, [Next]_vars, snap' = snap
  PROVE  SnapCounters'
  <1>1. Logged' \subseteq Logged \cup Pending \cup {TornFrame}
    BY LogGrowth
  <1>2. Numbers
    BY TypesGiveNumbers, ZenonT(30)
  <1>3. \A f \in Pending : IsPut(f) => snap.lastApplied < f.rec.seq
    BY <1>2 DEF Numbers, Pending, Counters, OpCounters
  <1>4. ~IsPut(TornFrame)
    BY ZenonT(30) DEF IsPut, TornFrame
  <1>5. \A f \in Logged' : IsPut(f) /\ f.rec.seq <= snap.lastApplied
                              => f.offset < snap.nextOffset
    BY <1>1, <1>2, <1>3, <1>4 DEF Counters, SnapCounters, Numbers
  <1> QED BY <1>5 DEF Counters, SnapCounters

\* A write that starts takes offsets and sequence numbers no one has used.
LEMMA StartCounters ==
  ASSUME Types, Counters, StartWrite
  PROVE  Counters'
  <1> USE TypesGiveNumbers
  <1>1. phase = "up" /\ Ahead /\ SnapCounters /\ op = None
    BY ZenonT(30) DEF StartWrite, StartInsert, StartUpdate, StartDelete, MayWrite, Counters, Loaded
  <1>2. phase' = "up" /\ UNCHANGED <<wal, snap, records>> /\ SnapCounters'
    BY <1>1, SnapStays, ZenonT(30) DEF StartWrite, StartInsert, StartUpdate, StartDelete, BeginPut,
       MayWrite, Next
  <1>3. ASSUME NEW kind \in {"insert", "replace"}, NEW id, NEW ids, NEW old,
               Len(ids) \in Nat, MayWrite(Len(ids)), BeginPut(kind, id, ids, old)
        PROVE  Counters'
    <2> DEFINE n == Len(ids)
               fs == [i \in 1 .. n |->
                  [op |-> kind, offset |-> nextOffset + i - 1, old |-> old,
                   rec |-> [id |-> ids[i], seq |-> nextSeq + i - 1,
                            ver |-> ver + i]]]
    <2>1. op' = [kind |-> kind, id |-> id, done |-> 0, pc |-> "put", frames |-> fs]
      BY <1>3 DEF BeginPut
    <2>2. op'.frames = fs
      BY <2>1, ZenonT(30)
    <2>3. nextOffset' = nextOffset + n /\ nextSeq' = nextSeq + n
      BY <1>3 DEF BeginPut
    <2>4. /\ DOMAIN fs = 1 .. n
          /\ \A i \in 1 .. n : fs[i].offset = nextOffset + i - 1 /\ fs[i].rec.seq = nextSeq + i - 1
      OBVIOUS
    <2>5. n \in Nat /\ nextOffset + n <= MaxWrites
      BY <1>3 DEF MayWrite, Types, TypeOK
    <2> HIDE DEF n, fs
    <2>6. Ahead'
      <3>1. Logged' = Logged /\ Live(records') = Live(records)
        BY <1>2, ZenonT(30) DEF Logged, Live
      <3>2. \A o \in Live(records) : o \in Nat
        BY ZenonT(30) DEF Live, Numbers
      <3> QED BY <1>1, <1>2, <2>3, <2>5, <3>1, <3>2, SMTT(60) DEF Ahead, Numbers
    <2>7. OpCounters'
      <3>1. \A i \in 1 .. n :
              /\ snap.nextOffset <= nextOffset + i - 1 /\ nextOffset + i - 1 < nextOffset + n
              /\ snap.lastApplied < nextSeq + i - 1 /\ nextSeq + i - 1 < nextSeq + n
        BY <1>1, <2>5 DEF Ahead, SnapCounters, Numbers
      <3>2. \A i \in 1 .. n : nextOffset + i - 1 \in Offsets
        BY <2>5, ConstantsAssumption DEF Numbers, Offsets
      <3>3. \A i \in 1 .. n : records[nextOffset + i - 1] = None
        <4> TAKE i \in 1 .. n
        <4>1. nextOffset + i - 1 \in Live(records) => FALSE
          BY <1>1, <2>5 DEF Ahead, Numbers
        <4> QED BY <3>2, <4>1 DEF Live
      <3>4. \A i, j \in 1 .. n : nextOffset + i - 1 = nextOffset + j - 1 => i = j
        BY <2>5 DEF Numbers
      <3> QED BY <1>2, <2>2, <2>3, <2>4, <3>1, <3>3, <3>4, SMTT(60) DEF OpCounters
    <2> QED BY <1>2, <2>6, <2>7, ZenonT(30) DEF Counters
  <1>4. ASSUME NEW ids \in Batches, StartInsert(ids)
        PROVE  Counters'
    <2>1. Len(ids) \in Nat
      BY ConstantsAssumption DEF Batches
    <2> QED BY <1>3, <1>4, <2>1 DEF StartInsert
  <1>5. ASSUME NEW id \in Ids, StartUpdate(id)
        PROVE  Counters'
    <2>1. Len(<<id>>) = 1
      OBVIOUS
    <2>2. MayWrite(Len(<<id>>)) /\ BeginPut("replace", id, <<id>>, idIndex[id])
      BY <1>5, <2>1 DEF StartUpdate
    <2>3. Len(<<id>>) \in Nat /\ "replace" \in {"insert", "replace"}
      BY <2>1
    <2> HIDE <1>5
    <2> QED BY <1>3, <2>2, <2>3, Zenon
  <1>6. ASSUME NEW id \in Ids, StartDelete(id)
        PROVE  Counters'
    <2>1. op'.kind = "delete" /\ UNCHANGED <<nextOffset, nextSeq>>
      BY <1>6 DEF StartDelete
    <2>2. Ahead'
      BY <1>1, <1>2, <2>1 DEF Ahead, Logged, Live
    <2> QED BY <1>2, <2>1, <2>2 DEF Counters
  <1> QED BY <1>4, <1>5, <1>6, ZenonT(30) DEF StartWrite

\* The steps of a write, failed ones included, keep the counters ahead.
LEMMA WriteCounters ==
  ASSUME Types, Counters, WriteStep
  PROVE  Counters'
  <1>1. /\ phase = "up" /\ Ahead /\ SnapCounters /\ op # None
        /\ phase' = "up" /\ UNCHANGED <<snap, nextOffset, nextSeq>>
    BY ZenonT(30) DEF WriteStep, PutVector, SyncVectors, AppendLog, SyncLog, Unindex, Apply,
           FailStep, FailApply, At, Counters, Loaded
  <1>2. SnapCounters' /\ Numbers
    BY <1>1, SnapStays, TypesGiveNumbers DEF Next
  <1>3. op.kind # "delete" => OpCounters
    BY <1>1, ZenonT(30) DEF Counters
  <1>4. \A f \in Logged' : IsPut(f) => f.offset < nextOffset /\ f.rec.seq < nextSeq
    <2>1. Logged' \subseteq Logged \cup Pending \cup {TornFrame}
      BY LogGrowth, ZenonT(30) DEF Next
    <2>2. \A f \in Pending : IsPut(f) => f.offset < nextOffset /\ f.rec.seq < nextSeq
      BY <1>1, <1>2, <1>3 DEF Numbers, Pending, OpCounters
    <2>3. ~IsPut(TornFrame)
      BY ZenonT(30) DEF IsPut, TornFrame
    <2> QED BY <1>1, <2>1, <2>2, <2>3 DEF Ahead
  <1>5. ASSUME \A o \in Live(records') : o < nextOffset /\ records'[o].seq < nextSeq
        PROVE  Ahead'
    BY <1>1, <1>4, <1>5 DEF Ahead
  <1>6. op \in OpTypes
    BY <1>1, OpFrames
  \* The frames of the write stay as they are until it ends.
  <1>7. ASSUME op' = None \/ (op'.kind = op.kind /\ op'.frames = op.frames),
               \A o \in Offsets : records'[o] \in {records[o], None}
        PROVE  Counters'
    <2>1. \A o \in Live(records') : o \in Live(records) /\ records'[o] = records[o]
      BY <1>7 DEF Live
    <2>2. Ahead'
      BY <1>1, <1>5, <2>1, ZenonT(30) DEF Ahead
    <2>3. op' # None /\ op'.kind # "delete" => OpCounters'
      <3> SUFFICES ASSUME op' # None, op'.kind # "delete" PROVE OpCounters'
        OBVIOUS
      <3>1. OpCounters /\ op'.frames = op.frames
        BY <1>3, <1>7
      <3>2. \A i \in DOMAIN op.frames : op.frames[i].offset \in Offsets
        BY <1>1, <1>2, <1>7 DEF Numbers, Pending, PutFrames
      <3> QED BY <1>1, <1>7, <3>1, <3>2 DEF OpCounters
    <2> QED BY <1>1, <1>2, <2>2, <2>3 DEF Counters
  <1>8. CASE PutVector \/ SyncVectors \/ AppendLog \/ SyncLog
    <2>1. op'.kind = op.kind /\ op'.frames = op.frames /\ records' = records
      BY <1>6, <1>8, ZenonT(30) DEF PutVector, SyncVectors, AppendLog, SyncLog, OpTypes
    <2> QED BY <1>7, <2>1
  <1>9. CASE Unindex
    <2>1. op' = None \/ (op'.kind = op.kind /\ op'.frames = op.frames)
      BY <1>6, <1>9 DEF Unindex, Acknowledge, OpTypes
    <2>2. \A o \in Offsets : records'[o] \in {records[o], None}
      BY <1>9 DEF Unindex, Types, TypeOK
    <2> QED BY <1>7, <2>1, <2>2
  <1>10. CASE FailStep
    BY <1>7, <1>10 DEF FailStep
  <1>11. CASE Apply \/ FailApply
    <2>1. op' = None /\ PutBatch /\ op.kind # "delete"
      BY <1>1, <1>11, OpFrames, ZenonT(30) DEF Apply, FailApply, Acknowledge, ApplyBatch, At, OpShape
    <2> DEFINE written == {op.frames[i].offset : i \in DOMAIN op.frames}
    <2>2. records' = [o \in Offsets |->
              IF o \in written THEN FrameAt(op.frames, o).rec ELSE records[o]]
      BY <2>1 DEF PutBatch
    <2>3. \A o \in written : /\ o < nextOffset
                             /\ FrameAt(op.frames, o).rec.seq < nextSeq
      <3> TAKE o \in written
      <3>1. \E i \in DOMAIN op.frames : op.frames[i].offset = o
        OBVIOUS
      <3>2. PICK i \in DOMAIN op.frames : /\ op.frames[i].offset = o
                                          /\ FrameAt(op.frames, o) = op.frames[i]
        BY <3>1, ZenonT(30) DEF FrameAt
      <3> QED BY <1>3, <2>1, <3>2 DEF OpCounters
    <2> HIDE DEF written
    <2>4. \A o \in Live(records') : o < nextOffset /\ records'[o].seq < nextSeq
      <3> TAKE o \in Live(records')
      <3>1. o \in Offsets /\ records'[o] # None
        BY DEF Live
      <3>2. CASE o \in written
        BY <2>2, <2>3, <3>1, <3>2
      <3>3. CASE o \notin written
        BY <1>1, <2>2, <3>1, <3>3 DEF Ahead, Live
      <3> QED BY <3>2, <3>3
    <2>5. Ahead'
      BY <1>5, <2>4
    <2> QED BY <1>1, <1>2, <2>1, <2>5, ZenonT(30) DEF Counters
  <1> QED BY <1>8, <1>9, <1>10, <1>11, ZenonT(30) DEF WriteStep

\* So do the steps of a flush: the snapshot takes over the counters it is ahead by.
LEMMA FlushCounters ==
  ASSUME Types, Counters, FlushBegin \/ FlushStep
  PROVE  Counters'
  <1> USE DEF FlushAt
  <1>1. /\ phase = "up" /\ Ahead /\ SnapCounters /\ Numbers
        /\ phase' = "up" /\ UNCHANGED <<records, nextOffset, nextSeq, op>> /\ op = None
    <2>1. phase = "up" /\ phase' = "up" /\ UNCHANGED <<records, nextOffset, nextSeq, op>>
      BY ZenonT(30) DEF FlushBegin, FlushStep, FlushWal, FlushVectors, FlushMeta, FlushRest,
             FlushClear, FailFlush
    <2>2. op = None
      BY ConstantsAssumption
         DEF FlushBegin, FlushStep, FlushWal, FlushVectors, FlushMeta, FlushRest,
             FlushClear, FailFlush, FaultSteps, Types, Shape
    <2> QED BY <2>1, <2>2, TypesGiveNumbers, ZenonT(30) DEF Counters, Loaded
  <1>2. CASE FlushMeta
    <2>1. Snapshot(nextSeq - 1) /\ wal' = wal
      BY <1>2 DEF FlushMeta, FlushedSeq
    <2>2. nextSeq - 1 \in Nat /\ nextSeq - 1 < nextSeq
      BY <1>1 DEF Numbers
    <2>3. SnapCounters' /\ Ahead'
      BY <1>1, <2>1, <2>2, SnapshotCounters
    <2> QED BY <1>1, <2>3 DEF Counters
  <1>3. CASE ~FlushMeta
    <2>1. snap' = snap /\ (wal' = wal \/ wal' = <<>>)
      <3>1. CASE FlushBegin \/ FlushWal \/ FlushRest
        BY <3>1 DEF FlushBegin, FlushWal, FlushRest
      <3>2. CASE FlushVectors
        BY <3>2 DEF FlushVectors
      <3>3. CASE FlushClear
        BY <3>3 DEF FlushClear, ClearLog
      <3>4. CASE FailFlush
        BY <3>4 DEF FailFlush, ClearLog
      <3> QED BY <1>3, <3>1, <3>2, <3>3, <3>4, ZenonT(30) DEF FlushStep
    <2>2. SnapCounters'
      BY <2>1, SnapStays DEF Next
    <2>3. Logged' \subseteq Logged
      BY <2>1, SMTT(60) DEF Logged
    <2>4. Ahead'
      BY <1>1, <2>1, <2>3 DEF Ahead, Live
    <2> QED BY <1>1, <2>2, <2>4 DEF Counters
  <1> QED BY <1>2, <1>3

\* A crash leaves only what is known of the snapshot and the log.
LEMMA CrashCounters ==
  ASSUME Types, Counters, Kill \/ PowerLoss
  PROVE  Counters'
  <1>1. snap' = snap /\ phase' = "down" /\ op' = None
    BY DEF Kill, PowerLoss, ProcessGone
  <1>2. SnapCounters'
    BY <1>1, SnapStays DEF Next
  <1> QED BY <1>1, <1>2 DEF Counters, Loaded

\* Recovery moves the counters past everything it met in the log.
LEMMA OpenCounters ==
  ASSUME Types, Counters, OpenStep
  PROVE  Counters'
  <1>1. /\ Numbers /\ SnapCounters /\ op = None /\ op' = None
        /\ phase # "down" => scan \in ScanTypes
    <2>1. phase # "up" /\ op' = op /\ (phase # "down" => phase \in OpenPhases)
      BY ZenonT(30) DEF OpenStep, OpenFiles, ReplaySkip, ReplayPut, ReplayDelete, ReplayEnd,
             RecoverVectors, RecoverMeta, RecoverClear, Refuse, BuildIndexes, OpenPhases
    <2> QED BY <2>1, TypesGiveNumbers, ZenonT(30) DEF Counters, Types, TypeOK, Shape
  <1>2. wal \in Seq(LogFrames) /\ DOMAIN wal = 1 .. Len(wal) /\ Len(wal) \in Nat
    BY LenProperties DEF Types, Shape
  <1>3. CASE OpenFiles
    <2>1. /\ phase' = "replay" /\ snap' = snap /\ wal' = wal
          /\ records' = snap.records /\ nextOffset' = snap.nextOffset
          /\ nextSeq' = snap.nextSeq /\ scan'.cursor = 1
      BY <1>3 DEF OpenFiles
    <2>2. SnapCounters'
      BY <2>1, SnapStays, ZenonT(30) DEF Next
    <2>3. ReplayCounters'
      BY <1>1, <1>2, <2>1, SMTT(60) DEF ReplayCounters, SeenOffset, SeenSeq, SnapCounters, Live
    <2> QED BY <1>1, <2>1, <2>2, <2>3, ZenonT(30) DEF Counters, Loaded
  \* What the scan has seen it does not forget.
  <1>4. ASSUME phase = "replay", phase' = "replay", Replayable,
               UNCHANGED <<wal, snap, nextOffset, nextSeq>>,
               scan'.cursor = scan.cursor + 1,
               scan.replayed => scan'.replayed,
               scan'.maxOffset \in Nat, scan'.maxOffset >= scan.maxOffset,
               scan'.maxSeq \in Nat, scan'.maxSeq >= scan.maxSeq,
               IsPut(wal[scan.cursor]) => /\ SeenOffset(wal[scan.cursor].offset, nextOffset', scan')
                                          /\ SeenSeq(wal[scan.cursor].rec.seq, nextSeq', scan'),
               \A o \in Live(records') :
                  \/ o \in Live(records) /\ records'[o] = records[o]
                  \/ SeenOffset(o, nextOffset', scan') /\ SeenSeq(records'[o].seq, nextSeq', scan')
        PROVE  Counters'
    <2>1. ReplayCounters /\ scan \in ScanTypes
      BY <1>1, <1>4 DEF Counters
    <2>2. scan.cursor \in Nat /\ scan.maxOffset \in Nat /\ scan.maxSeq \in Nat
      BY <2>1 DEF ScanTypes
    <2>3. /\ \A o \in Nat : SeenOffset(o, nextOffset, scan) => SeenOffset(o, nextOffset', scan')
          /\ \A n \in Nat : SeenSeq(n, nextSeq, scan) => SeenSeq(n, nextSeq', scan')
      BY <1>4, <2>2, SMTT(60) DEF SeenOffset, SeenSeq
    <2>4. \A o \in Live(records') : SeenOffset(o, nextOffset', scan') /\ SeenSeq(records'[o].seq, nextSeq', scan')
      <3> TAKE o \in Live(records')
      <3>1. CASE o \in Live(records) /\ records'[o] = records[o]
        <4>1. o \in Nat /\ records[o].seq \in Nat
          BY <1>1, <3>1, ZenonT(30) DEF Numbers, Live
        <4> QED BY <2>1, <2>3, <3>1, <4>1, ZenonT(30) DEF ReplayCounters
      <3> QED BY <1>4, <3>1
    <2>5. \A i \in DOMAIN wal : i < scan.cursor + 1 /\ IsPut(wal[i]) =>
             SeenOffset(wal[i].offset, nextOffset', scan') /\ SeenSeq(wal[i].rec.seq, nextSeq', scan')
      <3> TAKE i \in DOMAIN wal
      <3> SUFFICES ASSUME i < scan.cursor + 1, IsPut(wal[i])
                   PROVE  SeenOffset(wal[i].offset, nextOffset', scan') /\ SeenSeq(wal[i].rec.seq, nextSeq', scan')
        OBVIOUS
      <3>1. wal[i].offset \in Nat /\ wal[i].rec.seq \in Nat
        BY <1>1 DEF Numbers, Logged
      <3>2. i < scan.cursor \/ i = scan.cursor
        BY <1>2, <2>2, SMTT(60)
      <3>3. CASE i < scan.cursor
        BY <2>1, <2>3, <3>1, <3>3, ZenonT(30) DEF ReplayCounters
      <3> QED BY <1>4, <3>2, <3>3, ZenonT(30)
    <2>6. SnapCounters'
      BY <1>4, SnapStays, ZenonT(30) DEF Next
    <2>7. ReplayCounters'
      BY <1>4, <2>1, <2>4, <2>5, ZenonT(30) DEF ReplayCounters
    <2> QED BY <1>1, <1>4, <2>6, <2>7, ZenonT(30) DEF Counters, Loaded
  <1>5. CASE ReplaySkip
    <2> DEFINE f == wal[scan.cursor]
    <2>1. /\ phase = "replay" /\ phase' = "replay" /\ Replayable
          /\ UNCHANGED <<wal, snap, nextOffset, nextSeq, records>>
          /\ f.op # "delete" /\ f.rec.seq <= snap.lastApplied
          /\ scan \in ScanTypes /\ ReplayCounters
          /\ scan' = [scan EXCEPT !.cursor = scan.cursor + 1]
      BY <1>1, <1>5 DEF ReplaySkip, Counters
    <2>2. /\ scan'.cursor = scan.cursor + 1 /\ scan'.replayed = scan.replayed
          /\ scan'.maxOffset = scan.maxOffset /\ scan'.maxSeq = scan.maxSeq
          /\ scan.maxOffset \in Nat /\ scan.maxSeq \in Nat
      BY <2>1 DEF ScanTypes
    <2>3. f \in PutFrames /\ f \in Logged
      BY <2>1, ReplayFrame DEF Logged
    <2>4. IsPut(f)
      BY <2>3 DEF IsPut, PutFrames
    <2>5. f.offset < snap.nextOffset /\ f.rec.seq < snap.nextSeq
      BY <1>1, <2>1, <2>3, <2>4 DEF SnapCounters, Numbers
    <2>6. SeenOffset(f.offset, nextOffset', scan') /\ SeenSeq(f.rec.seq, nextSeq', scan')
      BY <2>1, <2>5 DEF SeenOffset, SeenSeq, ReplayCounters
    <2>7. Live(records') = Live(records)
      BY <2>1, ZenonT(30) DEF Live
    <2> QED BY <1>4, <2>1, <2>2, <2>6, <2>7
  <1>6. CASE ReplayPut
    <2> DEFINE f == wal[scan.cursor]
    <2>1. /\ phase = "replay" /\ phase' = "replay" /\ Replayable
          /\ UNCHANGED <<wal, snap, nextOffset, nextSeq>>
          /\ f.op # "delete" /\ scan \in ScanTypes
          /\ scan' = [scan EXCEPT !.cursor = scan.cursor + 1, !.replayed = TRUE,
                                  !.maxSeq = Max2(scan.maxSeq, f.rec.seq),
                                  !.maxOffset = Max2(scan.maxOffset, f.offset)]
      BY <1>1, <1>6 DEF ReplayPut, Counters, ScanTypes
    <2>2. records' = ReplayedRecords(f) \/ records' = records
      BY <1>6 DEF ReplayPut
    <2>3. f \in PutFrames
      BY <2>1, ReplayFrame
    <2>4. f.offset \in Nat /\ f.offset \in Offsets /\ f.rec.seq \in Nat
      BY <2>3 DEF PutFrames, Recs, Offsets
    <2> HIDE DEF f
    <2>5. /\ scan'.cursor = scan.cursor + 1 /\ scan'.replayed
          /\ scan'.maxOffset = Max2(scan.maxOffset, f.offset)
          /\ scan'.maxSeq = Max2(scan.maxSeq, f.rec.seq)
          /\ scan.maxOffset \in Nat /\ scan.maxSeq \in Nat
      BY <2>1 DEF ScanTypes
    <2>6. /\ scan'.maxOffset \in Nat /\ scan'.maxOffset >= scan.maxOffset
          /\ scan'.maxSeq \in Nat /\ scan'.maxSeq >= scan.maxSeq
          /\ f.offset <= scan'.maxOffset /\ f.rec.seq <= scan'.maxSeq
      BY <2>4, <2>5 DEF Max2
    <2>7. SeenOffset(f.offset, nextOffset', scan') /\ SeenSeq(f.rec.seq, nextSeq', scan')
      BY <2>1, <2>5, <2>6 DEF SeenOffset, SeenSeq, f
    <2>8. \A o \in Live(records') :
             \/ o \in Live(records) /\ records'[o] = records[o]
             \/ SeenOffset(o, nextOffset', scan') /\ SeenSeq(records'[o].seq, nextSeq', scan')
      <3> TAKE o \in Live(records')
      <3>1. CASE records' = records
        BY <3>1, ZenonT(30) DEF Live
      <3>2. CASE records' = ReplayedRecords(f)
        <4>1. o \in Offsets /\ records'[o] # None
          BY DEF Live
        <4>2. CASE o = f.offset
          <5>1. records'[o] = f.rec
            BY <3>2, <4>1, <4>2, ZenonT(30) DEF ReplayedRecords
          <5> QED BY <2>7, <4>2, <5>1 DEF f
        <4>3. CASE o # f.offset
          BY <3>2, <4>1, <4>3 DEF ReplayedRecords, Live
        <4> QED BY <4>2, <4>3, ZenonT(30)
      <3> QED BY <2>2, <3>1, <3>2
    <2> QED BY <1>4, <2>1, <2>5, <2>6, <2>7, <2>8 DEF f
  <1>7. CASE ReplayDelete
    <2>1. /\ phase = "replay" /\ phase' = "replay" /\ Replayable
          /\ UNCHANGED <<wal, snap, nextOffset, nextSeq>>
          /\ wal[scan.cursor].op = "delete" /\ scan \in ScanTypes
          /\ scan' = [scan EXCEPT !.cursor = scan.cursor + 1, !.replayed = TRUE]
          /\ records' = [records EXCEPT ![wal[scan.cursor].offset] = None]
      BY <1>1, <1>7 DEF ReplayDelete, Counters, ScanTypes
    <2>2. /\ scan'.cursor = scan.cursor + 1 /\ scan'.replayed
          /\ scan'.maxOffset = scan.maxOffset /\ scan'.maxSeq = scan.maxSeq
          /\ scan.maxOffset \in Nat /\ scan.maxSeq \in Nat
      BY <2>1 DEF ScanTypes
    <2>3. ~IsPut(wal[scan.cursor])
      BY <2>1 DEF IsPut
    <2>4. \A o \in Live(records') : o \in Live(records) /\ records'[o] = records[o]
      <3>1. \A o \in Offsets : records'[o] \in {records[o], None}
        <4>1. \E q : records' = [records EXCEPT ![q] = None]
          BY <2>1, ZenonT(30)
        <4>2. records \in [Offsets -> Recs \cup {None}]
          BY DEF Types, TypeOK
        <4> QED BY <4>1, <4>2
      <3> QED BY <3>1 DEF Live
    <2>5. /\ scan'.maxOffset \in Nat /\ scan'.maxOffset >= scan.maxOffset
          /\ scan'.maxSeq \in Nat /\ scan'.maxSeq >= scan.maxSeq
      BY <2>2
    <2>6. UNCHANGED <<wal, snap, nextOffset, nextSeq>>
      BY <2>1
    <2> HIDE <1>7
    <2> QED BY <1>4, <2>1, <2>2, <2>3, <2>4, <2>5, <2>6, Zenon
  <1>8. CASE ReplayEnd
    <2>1. /\ phase = "replay" /\ ReplayCounters /\ scan \in ScanTypes
          /\ scan.cursor <= Len(wal) + 1 /\ scan.cursor \in Nat \ {0}
          /\ scan.maxOffset \in Nat /\ scan.maxSeq \in Nat
      BY <1>1, <1>8, ZenonT(30) DEF ReplayEnd, Counters, Types, Shape, ScanTypes
    <2>2. /\ snap' = snap /\ records' = records /\ scan' = scan
          /\ wal' = SubSeq(wal, 1, scan.cursor - 1)
          /\ phase' = IF scan.replayed THEN "rvec" ELSE "check"
          /\ nextOffset' = IF scan.replayed THEN Past(nextOffset, scan.maxOffset)
                                            ELSE nextOffset
          /\ nextSeq' = IF scan.replayed THEN Past(nextSeq, scan.maxSeq) ELSE nextSeq
      BY <1>8 DEF ReplayEnd
    <2>3. SnapCounters'
      BY <2>2, SnapStays DEF Next
    <2>4. /\ \A o \in Nat : SeenOffset(o, nextOffset, scan) => o < nextOffset'
          /\ \A n \in Nat : SeenSeq(n, nextSeq, scan) => n < nextSeq'
          /\ nextOffset <= nextOffset' /\ nextSeq <= nextSeq'
          /\ scan.replayed => scan.maxSeq < nextSeq'
      <3>1. CASE scan.replayed
        <4>1. /\ nextOffset' = Past(nextOffset, scan.maxOffset)
              /\ nextSeq' = Past(nextSeq, scan.maxSeq)
          BY <2>2, <3>1
        <4> QED BY <1>1, <2>1, <3>1, <4>1, SMTT(60) DEF SeenOffset, SeenSeq, Past, Max2, Numbers
      <3>2. CASE ~scan.replayed
        BY <1>1, <2>2, <3>2, SMTT(60) DEF SeenOffset, SeenSeq, Numbers
      <3> QED BY <3>1, <3>2, ZenonT(30)
    <2>5. \A f \in Logged' : \E i \in DOMAIN wal : i < scan.cursor /\ f = wal[i]
      <3>1. scan.cursor - 1 \in 0 .. Len(wal) /\ TornFrame \in LogFrames
        BY <1>2, <2>1, FrameSets
      <3> DEFINE k == scan.cursor - 1
      <3>2. /\ wal' \in Seq(LogFrames) /\ Len(wal') = k
            /\ \A i \in 1 .. k : wal'[i] = wal[i]
        <4> HIDE DEF k
        <4>1. wal' = SubSeq(wal, 1, k) /\ k \in 0 .. Len(wal)
          BY <2>2, <3>1 DEF k
        <4> QED BY <1>2, <4>1, CutTo
      <3>3. DOMAIN wal' = 1 .. k
        BY <3>2, LenProperties, ZenonT(30)
      <3> QED BY <1>2, <2>1, <3>1, <3>2, <3>3 DEF Logged
    <2>6. \A f \in Logged' : IsPut(f) => f.offset < nextOffset' /\ f.rec.seq < nextSeq'
      <3> TAKE f \in Logged'
      <3> SUFFICES ASSUME IsPut(f) PROVE f.offset < nextOffset' /\ f.rec.seq < nextSeq'
        OBVIOUS
      <3>1. PICK i \in DOMAIN wal : i < scan.cursor /\ f = wal[i]
        BY <2>5, ZenonT(30)
      <3>2. f.offset \in Nat /\ f.rec.seq \in Nat
        BY <1>1, <3>1, ZenonT(30) DEF Numbers, Logged
      <3>3. SeenOffset(f.offset, nextOffset, scan) /\ SeenSeq(f.rec.seq, nextSeq, scan)
        BY <2>1, <3>1, ZenonT(30) DEF ReplayCounters
      <3> QED BY <2>4, <3>2, <3>3
    <2>7. \A o \in Live(records) : o < nextOffset' /\ records[o].seq < nextSeq'
      <3> TAKE o \in Live(records)
      <3>1. o \in Nat /\ records[o].seq \in Nat
        BY <1>1, ZenonT(30) DEF Numbers, Live
      <3> QED BY <2>1, <2>4, <3>1 DEF ReplayCounters
    <2>8. Ahead'
      <3>1. snap.nextOffset = nextOffset /\ snap.nextSeq = nextSeq
        BY <2>1 DEF ReplayCounters
      <3> QED BY <2>2, <2>4, <2>6, <2>7, <3>1, ZenonT(30) DEF Ahead, Live
    <2> QED BY <1>1, <2>2, <2>3, <2>4, <2>8 DEF Counters
  <1>9. CASE RecoverVectors
    <2>1. /\ phase = "rvec" /\ phase' = "rmeta"
          /\ UNCHANGED <<wal, snap, records, nextOffset, nextSeq, scan>>
      BY <1>9, ZenonT(30) DEF RecoverVectors
    <2>2. Ahead' /\ scan'.maxSeq < nextSeq'
      BY <2>1 DEF Counters, Loaded, Ahead, Logged, Live
    <2>3. SnapCounters'
      BY <2>1, SnapStays DEF Next
    <2> QED BY <1>1, <2>1, <2>2, <2>3 DEF Counters
  <1>10. CASE RecoverMeta
    <2>1. /\ phase = "rmeta" /\ phase' = "rclear" /\ Snapshot(scan.maxSeq)
          /\ UNCHANGED <<wal, records, nextOffset, nextSeq>>
      BY <1>10 DEF RecoverMeta
    <2>2. Ahead /\ scan.maxSeq < nextSeq /\ scan.maxSeq \in Nat
      BY <1>1, <2>1 DEF Counters, Loaded, ScanTypes
    <2>3. SnapCounters' /\ Ahead'
      BY <1>1, <2>1, <2>2, SnapshotCounters
    <2> QED BY <1>1, <2>1, <2>3 DEF Counters
  <1>11. CASE RecoverClear
    <2>1. /\ phase = "rclear" /\ phase' = "check" /\ wal' = <<>>
          /\ UNCHANGED <<snap, records, nextOffset, nextSeq>>
      BY <1>11 DEF RecoverClear, ClearLog
    <2>2. Ahead'
      BY <2>1 DEF Counters, Loaded, Ahead, Logged, Live
    <2>3. SnapCounters'
      BY <2>1, SnapStays DEF Next
    <2> QED BY <1>1, <2>1, <2>2, <2>3 DEF Counters
  <1>12. CASE Refuse \/ BuildIndexes
    <2>1. /\ phase = "check" /\ phase' \in {"refused", "up"}
          /\ UNCHANGED <<wal, snap, records, nextOffset, nextSeq>>
      BY <1>12, ZenonT(30) DEF Refuse, BuildIndexes
    <2>2. Ahead'
      BY <2>1 DEF Counters, Loaded, Ahead, Logged, Live
    <2>3. SnapCounters'
      BY <2>1, SnapStays DEF Next
    <2> QED BY <1>1, <2>1, <2>2, <2>3, ZenonT(30) DEF Counters
  <1> QED BY <1>3, <1>5, <1>6, <1>7, <1>8, <1>9, <1>10, <1>11, <1>12, ZenonT(30) DEF OpenStep

\* Every step keeps the counters ahead.
LEMMA NextCounters ==
  ASSUME Types, Counters, [Next]_vars
  PROVE  Counters'
  <1>1. CASE UNCHANGED vars
    <2>1. SnapCounters' = SnapCounters /\ Ahead' = Ahead
      BY <1>1, ZenonT(30) DEF vars, SnapCounters, Ahead, Logged, Live
    <2>2. ReplayCounters' = ReplayCounters /\ OpCounters' = OpCounters
      BY <1>1, ZenonT(30) DEF vars, ReplayCounters, SeenOffset, SeenSeq, OpCounters, Live
    <2> QED BY <1>1, <2>1, <2>2, ZenonT(30) DEF vars, Counters
  <1> QED BY <1>1, StartCounters, WriteCounters, FlushCounters, OpenCounters,
             CrashCounters, ZenonT(30) DEF Next

=============================================================================
