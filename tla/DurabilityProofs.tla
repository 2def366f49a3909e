-------------------------- MODULE DurabilityProofs --------------------------
(***************************************************************************)
(* Theorems about Durability, for every set of ids, every bound, every set *)
(* of failing steps, with and without sync_writes and power losses.        *)
(*                                                                         *)
(* The inductive invariant has four parts: the types; Shape, what frames   *)
(* the log and a write may hold; Counters, which keeps next_offset and     *)
(* next_seq ahead of the cache, the log and the snapshot through a flush   *)
(* and a replay; and Vectors, which ties a record to its slot in memory,   *)
(* in the snapshot and in what of the vector file has been synced.         *)
(***************************************************************************)
EXTENDS Durability, SequenceTheorems, WellFoundedInduction, TLAPS

PutFrames == [op : {"insert", "replace"}, offset : Offsets,
              old : Offsets \cup {None}, rec : Recs]
DelFrames == [op : {"delete"}, offset : Offsets, old : {None}, rec : {None}]
LogFrames == PutFrames \cup DelFrames \cup {TornFrame}

\* The write in progress holds the frames its kind calls for.
OpShape ==
    /\ op.kind = "delete" => /\ op.frames \in Seq(DelFrames)
                             /\ op.pc \in {"log", "wsync", "unindex"}
    /\ op.kind # "delete" => op.frames \in Seq(PutFrames)
    /\ Len(op.frames) > 0
    /\ op.pc = "put" => op.done < Len(op.frames)
    /\ op.kind # "insert" => op.id \in Ids
    /\ op.kind # "insert" /\ op.pc # "apply" => idIndex[op.id] # None
    /\ op.pc = "unindex" => op.kind # "insert"

\* Only whole or torn frames are in the log, a write and a flush exclude each
\* other, and open has its locals.
Shape ==
    /\ wal \in Seq(LogFrames)
    /\ op # None => OpShape /\ phase = "up" /\ flusher = "idle"
    /\ flusher # "idle" => phase = "up"
    /\ phase \in OpenPhases => scan # None
    /\ phase = "replay" => scan.cursor <= Len(wal) + 1

Types == TypeOK /\ Shape

IsPut(f) == f.op \in {"insert", "replace"}
Logged == {wal[i] : i \in DOMAIN wal}
Loaded == {"rvec", "rmeta", "rclear", "check", "up"}
Opened == OpenPhases \cup {"up"}

\* The snapshot's counters are past its own records, and past the offset of
\* every logged record it says it holds.
SnapCounters ==
    /\ \A o \in Live(snap.records) :
          o < snap.nextOffset /\ snap.records[o].seq < snap.nextSeq
    /\ snap.lastApplied < snap.nextSeq
    /\ \A f \in Logged : IsPut(f) /\ f.rec.seq <= snap.lastApplied
                            => f.offset < snap.nextOffset

\* During replay the counters are the snapshot's, and what lies beyond them is
\* within the maxima that the scan remembers.
SeenOffset(o, next, s) == o < next \/ (s.replayed /\ o <= s.maxOffset)
SeenSeq(n, next, s) == n < next \/ (s.replayed /\ n <= s.maxSeq)
ReplayCounters ==
    /\ nextOffset = snap.nextOffset /\ nextSeq = snap.nextSeq
    /\ \A o \in Live(records) : /\ SeenOffset(o, nextOffset, scan)
                                /\ SeenSeq(records[o].seq, nextSeq, scan)
    /\ \A i \in DOMAIN wal : i < scan.cursor /\ IsPut(wal[i]) =>
          /\ SeenOffset(wal[i].offset, nextOffset, scan)
          /\ SeenSeq(wal[i].rec.seq, nextSeq, scan)

\* After it they are past the cache, the log and the snapshot.
Ahead ==
    /\ \A o \in Live(records) : o < nextOffset /\ records[o].seq < nextSeq
    /\ \A f \in Logged : IsPut(f) => f.offset < nextOffset /\ f.rec.seq < nextSeq
    /\ snap.nextOffset <= nextOffset /\ snap.nextSeq <= nextSeq

\* A write uses fresh offsets and sequence numbers.
OpCounters ==
    \A i \in DOMAIN op.frames :
        /\ snap.nextOffset <= op.frames[i].offset /\ op.frames[i].offset < nextOffset
        /\ snap.lastApplied < op.frames[i].rec.seq /\ op.frames[i].rec.seq < nextSeq
        /\ records[op.frames[i].offset] = None
        /\ \A j \in DOMAIN op.frames : op.frames[i].offset = op.frames[j].offset => i = j

Counters ==
    /\ SnapCounters
    /\ phase = "replay" => ReplayCounters
    /\ phase \in Loaded => Ahead
    /\ phase \in {"rvec", "rmeta"} => scan.maxSeq < nextSeq
    /\ op # None /\ op.kind # "delete" => OpCounters

\* A snapshotted record has its vector on disk, counted and synced.
SnapVectors ==
    \A o \in Live(snap.records) :
        /\ o < slots /\ o < slotsSynced /\ o < hdr /\ o < hdrSynced
        /\ vec[o] = snap.records[o].ver /\ vecSynced[o] = snap.records[o].ver

\* A record in the cache has its vector in the file, and is counted.
CacheVectors ==
    /\ \A o \in Live(records) : o < count /\ o < slots /\ vec[o] = records[o].ver
    /\ \A o \in Live(snap.records) : o < count

\* The vectors that the write in progress has put.
OpVectors ==
    /\ op.pc # "put" => op.done = Len(op.frames)
    /\ \A i \in DOMAIN op.frames : i <= op.done =>
          /\ op.frames[i].offset < count /\ op.frames[i].offset < slots
          /\ vec[op.frames[i].offset] = op.frames[i].rec.ver

AllSynced == vecSynced = vec /\ slotsSynced = slots /\ hdr = count /\ hdrSynced = count

Vectors ==
    /\ SnapVectors
    /\ phase \in Opened => CacheVectors
    /\ flusher = "fmeta" \/ phase = "rmeta" => AllSynced
    /\ op # None /\ op.kind # "delete" => OpVectors

\* Counters, vectors and snapshot agree in every state of every execution,
\* whatever fails and whenever the process or the machine stops.
IndInv == Types /\ Counters /\ Vectors

USE DEF files, synced, memory, history

\* A new store has the types.
LEMMA InitTypes == Init => Types
  BY ConstantsAssumption, NoneAssumption
     DEF Init, Types, TypeOK, Shape, NoRecords, Offsets, Versions, SnapTypes, OpenPhases

\* The frames of a write, of a delete and torn ones are frames of the log.
LEMMA FrameSets ==
  /\ PutFrames \subseteq LogFrames /\ DelFrames \subseteq LogFrames
  /\ TornFrame \in LogFrames
  /\ LogFrames \subseteq Frames
  /\ PutFrames \subseteq Frames /\ DelFrames \subseteq Frames
  BY DEF PutFrames, DelFrames, LogFrames, Frames, TornFrame

\* The write in progress holds log frames, at least one.
LEMMA OpFrames ==
  ASSUME Types, op # None
  PROVE  /\ op \in OpTypes /\ OpShape
         /\ op.frames \in Seq(LogFrames) /\ op.frames \in Seq(Frames)
         /\ DOMAIN op.frames = 1 .. Len(op.frames) /\ Len(op.frames) \in Nat \ {0}
  <1>1. op \in OpTypes /\ OpShape
    BY DEF Types, TypeOK, Shape
  <1>2. op.frames \in Seq(Frames) /\ op.frames \in Seq(LogFrames)
    <2>1. CASE op.kind = "delete"
      BY <1>1, <2>1, FrameSets, SeqMonotonic DEF OpShape
    <2>2. CASE op.kind # "delete"
      BY <1>1, <2>2, FrameSets, SeqMonotonic DEF OpShape
    <2> QED BY <2>1, <2>2
  <1>3. Len(op.frames) \in Nat /\ DOMAIN op.frames = 1 .. Len(op.frames)
    BY <1>2, LenProperties
  <1> QED BY <1>1, <1>2, <1>3 DEF OpShape

\* Starting an insert, an update or a delete keeps the types.
LEMMA StartTypes ==
  ASSUME Types, StartWrite
  PROVE  Types'
  <1>1. ASSUME NEW kind \in {"insert", "replace"}, NEW id \in Ids \cup {None},
               NEW ids \in Seq(Ids), NEW old \in Offsets \cup {None},
               Len(ids) > 0, MayWrite(Len(ids)), BeginPut(kind, id, ids, old),
               kind = "replace" => id \in Ids /\ idIndex[id] # None
        PROVE  Types'
    <2> DEFINE fs == [i \in 1 .. Len(ids) |->
                  [op |-> kind, offset |-> nextOffset + i - 1, old |-> old,
                   rec |-> [id |-> ids[i], seq |-> nextSeq + i - 1,
                            ver |-> ver + i]]]
    <2>1. Len(ids) \in Nat /\ \A i \in 1 .. Len(ids) : ids[i] \in Ids
      BY <1>1, LenProperties, ElementOfSeq
    <2>2. \A i \in 1 .. Len(ids) : fs[i] \in PutFrames
      <3> TAKE i \in 1 .. Len(ids)
      <3>1. /\ nextOffset + i - 1 \in Offsets /\ ver + i \in Versions
            /\ nextSeq + i - 1 \in Nat
        <4>1. i \in Nat \ {0} /\ i <= Len(ids)
          BY <2>1
        <4>2. /\ nextOffset \in Nat /\ nextSeq \in Nat \ {0} /\ ver \in Nat
              /\ nextOffset + Len(ids) <= MaxWrites /\ ver + Len(ids) <= MaxWrites
          BY <1>1, <2>1, ConstantsAssumption, SMTT(60) DEF MayWrite, Types, TypeOK
        <4> QED BY <2>1, <4>1, <4>2, ConstantsAssumption DEF Offsets, Versions
      <3>2. ids[i] \in Ids
        BY <2>1
      <3> QED BY <3>1, <3>2 DEF PutFrames, Recs
    <2>3. fs \in Seq(PutFrames) /\ Len(fs) = Len(ids)
      BY <2>1, <2>2
    <2>4. fs \in Seq(Frames)
      BY <2>3, FrameSets, SeqMonotonic
    <2>5. op' = [kind |-> kind, id |-> id, done |-> 0, pc |-> "put", frames |-> fs]
      BY <1>1 DEF BeginPut
    <2> HIDE DEF fs
    <2>6. op' \in OpTypes /\ op' # None
      BY <2>4, <2>5, NoneAssumption DEF OpTypes
    <2>7. TypeOK'
      <3>1. ver' \in 0 .. MaxWrites /\ nextOffset' \in Nat /\ nextSeq' \in Nat \ {0}
        BY <1>1, <2>1, ConstantsAssumption, SMTT(60) DEF Types, TypeOK, BeginPut, MayWrite
      <3>2. {ids[i] : i \in 1 .. Len(ids)} \subseteq Ids
        BY <2>1
      <3>3. unsure' \in SUBSET Ids /\ unflushed' \in SUBSET Ids
        BY <1>1, <3>2, ZenonT(30) DEF Types, TypeOK, BeginPut
      <3> QED BY <1>1, <2>6, <3>1, <3>3, ZenonT(30) DEF Types, TypeOK, BeginPut
    <2>8. OpShape'
      BY <1>1, <2>1, <2>3, <2>5 DEF OpShape, BeginPut
    <2> QED BY <1>1, <2>6, <2>7, <2>8 DEF Types, Shape, BeginPut, MayWrite, OpenPhases
  <1>2. ASSUME NEW ids \in Batches, StartInsert(ids)
        PROVE  Types'
    <2>1. ids \in Seq(Ids) /\ Len(ids) > 0
      BY <1>2, ConstantsAssumption DEF Batches
    <2> QED BY <1>1, <1>2, <2>1, ZenonT(30) DEF StartInsert
  <1>3. ASSUME NEW id \in Ids, StartUpdate(id)
        PROVE  Types'
    <2>1. <<id>> \in Seq(Ids) /\ Len(<<id>>) = 1 /\ idIndex[id] \in Offsets \cup {None}
      BY <1>3 DEF Types, TypeOK
    <2>2. MayWrite(Len(<<id>>)) /\ BeginPut("replace", id, <<id>>, idIndex[id])
          /\ idIndex[id] # None
      BY <1>3, <2>1 DEF StartUpdate
    <2>3. "replace" \in {"insert", "replace"} /\ id \in Ids \cup {None} /\ Len(<<id>>) > 0
      BY <2>1
    <2> HIDE <1>3
    <2> QED BY <1>1, <2>1, <2>2, <2>3, Zenon
  <1>4. ASSUME NEW id \in Ids, StartDelete(id)
        PROVE  Types'
    <2> DEFINE fs == <<DeleteFrame(idIndex[id])>>
    <2>1. fs \in Seq(DelFrames) /\ Len(fs) = 1
      BY <1>4 DEF StartDelete, DeleteFrame, DelFrames, Types, TypeOK
    <2>2. fs \in Seq(Frames)
      BY <2>1, FrameSets, SeqMonotonic
    <2>3. op' = [kind |-> "delete", id |-> id, done |-> 0, pc |-> "log", frames |-> fs]
      BY <1>4 DEF StartDelete
    <2> HIDE DEF fs
    <2>4. op' \in OpTypes /\ op' # None
      BY <2>2, <2>3, NoneAssumption DEF OpTypes
    <2>5. TypeOK'
      BY <1>4, <2>4, ZenonT(30) DEF Types, TypeOK, StartDelete
    <2>6. OpShape'
      BY <1>4, <2>1, <2>3, SMTT(60) DEF OpShape, StartDelete
    <2> QED BY <1>4, <2>4, <2>5, <2>6 DEF Types, Shape, StartDelete, MayWrite, OpenPhases
  <1> QED BY <1>2, <1>3, <1>4 DEF StartWrite

\* What a batch looks up by offset or by id is one of its frames.
LEMMA BatchTypes ==
  ASSUME Types, op # None, op.kind # "delete"
  PROVE  /\ \A i \in DOMAIN op.frames : op.frames[i] \in PutFrames
         /\ \A o \in {op.frames[i].offset : i \in DOMAIN op.frames} :
               FrameAt(op.frames, o) \in PutFrames
         /\ OpIds \subseteq Ids
         /\ \A id \in OpIds : FrameOf(op.frames, id) \in PutFrames
  <1>1. /\ op.frames \in Seq(PutFrames)
        /\ DOMAIN op.frames = 1 .. Len(op.frames)
    BY OpFrames DEF OpShape
  <1>2. \A i \in DOMAIN op.frames : op.frames[i] \in PutFrames
    BY <1>1, ElementOfSeq
  <1>3. OpIds = {op.frames[i].rec.id : i \in DOMAIN op.frames}
    BY DEF OpIds, FrameIds
  <1>4. OpIds \subseteq Ids
    BY <1>2, <1>3 DEF PutFrames, Recs
  <1>5. \A o \in {op.frames[i].offset : i \in DOMAIN op.frames} :
           FrameAt(op.frames, o) \in PutFrames
    BY <1>2 DEF FrameAt
  <1>6. \A id \in OpIds : FrameOf(op.frames, id) \in PutFrames
    BY <1>2, <1>3 DEF FrameOf
  <1> QED BY <1>2, <1>4, <1>5, <1>6

\* The steps of a write keep the types.
LEMMA WriteTypes ==
  ASSUME Types, WriteStep
  PROVE  Types'
  <1> USE DEF At
  <1>0. op # None /\ phase = "up"
    BY DEF WriteStep, PutVector, SyncVectors, AppendLog, SyncLog, Unindex,
           Apply, FailStep, FailApply
  <1>a. /\ op \in OpTypes /\ OpShape
        /\ op.frames \in Seq(LogFrames) /\ op.frames \in Seq(Frames)
        /\ DOMAIN op.frames = 1 .. Len(op.frames) /\ Len(op.frames) \in Nat \ {0}
    BY <1>0, OpFrames
  <1>b. /\ wal \in Seq(LogFrames) /\ wal \in Seq(Frames)
        /\ flusher = "idle" /\ TypeOK
    BY <1>0 DEF Types, TypeOK, Shape
  \* A step that only moves the write on keeps what OpShape says of it.
  <1>c. ASSUME NEW pc \in {"put", "vsync", "log", "wsync", "unindex", "apply"},
               NEW done \in Nat, op' = [op EXCEPT !.done = done, !.pc = pc],
               pc = "put" => done < Len(op.frames),
               op.kind = "delete" => pc \in {"log", "wsync", "unindex"},
               pc = "unindex" => op.kind # "insert",
               pc = "apply" \/ (idIndex' = idIndex /\ op.pc # "apply")
        PROVE  op' \in OpTypes /\ op' # None /\ OpShape'
    <2>1. /\ op'.frames = op.frames /\ op'.kind = op.kind /\ op'.id = op.id
          /\ op'.pc = pc /\ op'.done = done /\ op' \in OpTypes
      BY <1>a, <1>c, ZenonT(30) DEF OpTypes
    <2>2. op' # None
      BY <2>1, NoneAssumption
    <2> QED BY <1>a, <1>c, <2>1, <2>2 DEF OpShape
  <1>1. CASE PutVector
    <2> DEFINE f == op.frames[op.done + 1]
    <2>1. op.kind # "delete" /\ op.done + 1 \in DOMAIN op.frames /\ op.done \in Nat
      BY <1>1, <1>a DEF PutVector, OpShape, OpTypes
    <2>2. f \in PutFrames
      BY <1>0, <2>1, BatchTypes
    <2>3. /\ f.offset \in Nat /\ f.rec.ver \in Nat
      BY <2>2 DEF PutFrames, Recs, Offsets, Versions
    <2>4. /\ vec' \in [Offsets -> Nat] /\ count' \in Nat /\ slots' \in Nat /\ hdr' \in Nat
      <3>1. /\ slots' \in {slots, Max2(f.offset + 1, 2 * slots)} /\ hdr' \in {hdr, count}
            /\ vec' = [vec EXCEPT ![f.offset] = f.rec.ver]
            /\ count' = Max2(count, f.offset + 1)
        BY <1>1 DEF PutVector
      <3> HIDE DEF f
      <3>2. vec' \in [Offsets -> Nat]
        BY <1>b, <2>3, <3>1, ZenonT(30) DEF TypeOK
      <3>3. count' \in Nat /\ slots' \in Nat /\ hdr' \in Nat
        BY <1>b, <2>3, <3>1 DEF TypeOK, Max2
      <3> QED BY <3>2, <3>3
    <2>5. op' \in OpTypes /\ op' # None /\ OpShape'
      <3> DEFINE pc == IF op.done + 1 # Len(op.frames) THEN "put"
                       ELSE IF SyncWrites THEN "vsync" ELSE "log"
      <3>1. op' = [op EXCEPT !.done = op.done + 1, !.pc = pc] /\ idIndex' = idIndex
        BY <1>1, <1>a DEF PutVector, OpTypes
      <3>2. pc = "put" => op.done + 1 < Len(op.frames)
        BY <1>1, <1>a, <2>1 DEF PutVector, OpShape
      <3>3. op.pc # "apply" /\ op.done + 1 \in Nat
        BY <1>1, <2>1 DEF PutVector
      <3> HIDE DEF pc
      <3>4. pc \in {"put", "vsync", "log"}
        BY ZenonT(30) DEF pc
      <3> QED BY <1>c, <2>1, <3>1, <3>2, <3>3, <3>4, ZenonT(30)
    <2>6. TypeOK'
      BY <1>1, <1>b, <2>4, <2>5, ZenonT(30) DEF PutVector, TypeOK
    <2> QED BY <1>0, <1>1, <1>b, <2>5, <2>6 DEF PutVector, Types, Shape, OpenPhases
  <1>2. CASE SyncVectors
    <2>1. op' \in OpTypes /\ op' # None /\ OpShape'
      <3>1. op' = [op EXCEPT !.done = op.done, !.pc = "log"] /\ idIndex' = idIndex
        BY <1>2, <1>a, ZenonT(30) DEF SyncVectors, OpTypes
      <3> QED BY <1>2, <1>a, <1>c, <3>1 DEF SyncVectors, OpTypes
    <2>2. TypeOK'
      BY <1>2, <1>b, <2>1 DEF SyncVectors, TypeOK
    <2> QED BY <1>0, <1>2, <1>b, <2>1, <2>2, ZenonT(30) DEF SyncVectors, Types, Shape, OpenPhases
  <1>3. CASE AppendLog
    <2>1. op' \in OpTypes /\ op' # None /\ OpShape'
      <3> DEFINE pc == IF SyncWrites THEN "wsync" ELSE AfterLog
      <3>1. op' = [op EXCEPT !.done = op.done, !.pc = pc] /\ idIndex' = idIndex
        BY <1>3, <1>a, ZenonT(30) DEF AppendLog, OpTypes
      <3> HIDE DEF pc
      <3>2. /\ pc \in {"wsync", "apply", "unindex"}
            /\ op.kind = "delete" => pc \in {"wsync", "unindex"}
            /\ pc = "unindex" => op.kind # "insert"
            /\ op.pc # "apply" /\ op.done \in Nat
        BY <1>3, <1>a DEF pc, AfterLog, AppendLog, OpTypes
      <3> QED BY <1>c, <3>1, <3>2, ZenonT(30)
    <2>2. wal' \in Seq(LogFrames) /\ wal' \in Seq(Frames) /\ Len(wal') >= Len(wal)
      BY <1>3, <1>a, <1>b, ConcatProperties, LenProperties DEF AppendLog
    <2>3. TypeOK'
      BY <1>3, <1>b, <2>1, <2>2, LenProperties, SMTT(60) DEF AppendLog, TypeOK
    <2> QED BY <1>0, <1>3, <1>b, <2>1, <2>2, <2>3 DEF AppendLog, Types, Shape, OpenPhases
  <1>4. CASE SyncLog
    <2>1. op' \in OpTypes /\ op' # None /\ OpShape'
      <3>1. op' = [op EXCEPT !.done = op.done, !.pc = AfterLog] /\ idIndex' = idIndex
        BY <1>4, <1>a, ZenonT(30) DEF SyncLog, OpTypes
      <3>2. /\ AfterLog \in {"apply", "unindex"}
            /\ op.kind = "delete" => AfterLog = "unindex"
            /\ AfterLog = "unindex" => op.kind # "insert"
            /\ op.pc # "apply" /\ op.done \in Nat
        BY <1>4, <1>a DEF AfterLog, SyncLog, OpTypes
      <3> QED BY <1>c, <3>1, <3>2, ZenonT(30)
    <2>2. TypeOK'
      BY <1>4, <1>b, <2>1, LenProperties, SMTT(60) DEF SyncLog, TypeOK
    <2> QED BY <1>0, <1>4, <1>b, <2>1, <2>2 DEF SyncLog, Types, Shape, OpenPhases
  <1>5. CASE Unindex
    <2>1. op.id \in Ids /\ idIndex[op.id] \in Offsets /\ op.kind # "insert"
      BY <1>5, <1>a, <1>b DEF Unindex, OpShape, TypeOK
    <2>2. /\ records' \in [Offsets -> Recs \cup {None}] /\ dirty' \in SUBSET Offsets
          /\ idIndex' \in [Ids -> Offsets \cup {None}]
      BY <1>5, <1>b, <2>1, ZenonT(30) DEF Unindex, TypeOK
    <2>3. CASE op.kind = "delete"
      <3>1. OpIds \subseteq Ids
        BY <2>1, <2>3 DEF OpIds
      <3>2. op' = None /\ acked' \in [Ids -> Versions \cup {None}] /\ unsure' \subseteq Ids
        BY <1>5, <1>b, <2>3, <3>1 DEF Unindex, Acknowledge, TypeOK
      <3>3. TypeOK'
        BY <1>5, <1>b, <2>2, <3>2, ZenonT(30) DEF Unindex, TypeOK
      <3> QED BY <1>0, <1>5, <1>b, <3>2, <3>3 DEF Unindex, Types, Shape, OpenPhases
    <2>4. CASE op.kind # "delete"
      <3>1. /\ op' = [op EXCEPT !.done = op.done, !.pc = "apply"]
            /\ acked' = acked /\ unsure' = unsure /\ op.done \in Nat
        BY <1>5, <1>a, <2>4, ZenonT(30) DEF Unindex, OpTypes
      <3>2. op' \in OpTypes /\ op' # None /\ OpShape'
        BY <1>c, <2>4, <3>1, ZenonT(30)
      <3>3. TypeOK'
        BY <1>5, <1>b, <2>2, <3>1, <3>2, ZenonT(30) DEF Unindex, TypeOK
      <3> QED BY <1>0, <1>5, <1>b, <3>2, <3>3 DEF Unindex, Types, Shape, OpenPhases
    <2> QED BY <2>3, <2>4
  <1>6. ASSUME NEW n \in 1 .. Len(op.frames), At("apply"), ApplyBatch(n)
        PROVE  /\ records' \in [Offsets -> Recs \cup {None}] /\ dirty' \in SUBSET Offsets
               /\ idIndex' \in [Ids -> Offsets \cup {None}]
    <2>1. op.kind # "delete"
      BY <1>6, <1>a DEF OpShape
    <2>2. {op.frames[i].offset : i \in DOMAIN op.frames} \subseteq Offsets
      BY <1>0, <2>1, BatchTypes DEF PutFrames
    <2>3. /\ \A o \in {op.frames[i].offset : i \in DOMAIN op.frames} :
                FrameAt(op.frames, o).rec \in Recs
          /\ \A id \in OpIds : FrameOf(op.frames, id).offset \in Offsets
      BY <1>0, <2>1, BatchTypes, ZenonT(30) DEF PutFrames
    <2>4. /\ records' \in [Offsets -> Recs \cup {None}] /\ dirty' \in SUBSET Offsets
      BY <1>6, <1>b, <2>2, <2>3, ZenonT(30) DEF ApplyBatch, PutBatch, TypeOK
    <2>5. {op.frames[j].rec.id : j \in 1 .. n} \subseteq OpIds
      <3>1. DOMAIN op.frames = 1 .. Len(op.frames) /\ Len(op.frames) \in Nat
        BY <1>a, LenProperties, ZenonT(30) DEF OpTypes
      <3> QED BY <1>6, <2>1, <3>1 DEF OpIds, FrameIds
    <2>6. idIndex' \in [Ids -> Offsets \cup {None}]
      BY <1>6, <1>b, <2>3, <2>5, ZenonT(30) DEF ApplyBatch, TypeOK
    <2> QED BY <2>4, <2>6
  <1>7. CASE Apply
    <2>1. op.kind # "delete"
      BY <1>7, <1>a DEF Apply, OpShape
    <2>2. /\ OpIds \subseteq Ids
          /\ \A id \in OpIds : FrameOf(op.frames, id).rec.ver \in Versions
      BY <1>0, <2>1, BatchTypes, ZenonT(30) DEF PutFrames, Recs
    <2>3. op' = None /\ acked' \in [Ids -> Versions \cup {None}] /\ unsure' \subseteq Ids
      BY <1>7, <1>b, <2>2 DEF Apply, Acknowledge, TypeOK
    <2>4. Len(op.frames) \in 1 .. Len(op.frames)
      BY <1>a, LenProperties, SMTT(60) DEF OpTypes, OpShape
    <2>5. TypeOK'
      BY <1>6, <1>7, <1>b, <2>3, <2>4 DEF Apply, TypeOK
    <2> QED BY <1>0, <1>7, <1>b, <2>3, <2>5, ZenonT(30) DEF Apply, Types, Shape, OpenPhases
  <1>8. CASE FailStep
    <2>1. TypeOK'
      BY <1>8, <1>b DEF FailStep, LogAfterError, TypeOK
    <2> QED BY <1>0, <1>8, <1>b, <2>1, ZenonT(30) DEF FailStep, LogAfterError, Types, Shape, OpenPhases
  <1>9. CASE FailApply
    <2>1. TypeOK'
      BY <1>6, <1>9, <1>b DEF FailApply, TypeOK
    <2> QED BY <1>0, <1>9, <1>b, <2>1, ZenonT(30) DEF FailApply, Types, Shape, OpenPhases
  <1> QED BY <1>1, <1>2, <1>3, <1>4, <1>5, <1>7, <1>8, <1>9, ZenonT(30) DEF WriteStep

\* A snapshot of typed memory is typed.
LEMMA SnapshotTypes ==
  ASSUME Types, NEW n \in Nat, Snapshot(n)
  PROVE  snap' \in SnapTypes /\ dirty' \in SUBSET Offsets
  <1>1. SnapshotRecords \in [Offsets -> Recs \cup {None}]
    BY DEF SnapshotRecords, Types, TypeOK, SnapTypes
  <1>2. nextOffset \in Nat /\ nextSeq \in Nat \ {0} /\ snap \in SnapTypes
    BY DEF Types, TypeOK
  <1>3. [written |-> TRUE, records |-> SnapshotRecords, nextOffset |-> nextOffset,
         nextSeq |-> nextSeq, lastApplied |-> n] \in SnapTypes
    BY <1>1, <1>2 DEF SnapTypes
  <1>4. snap' \in SnapTypes
    BY <1>2, <1>3 DEF Snapshot
  <1> QED BY <1>4 DEF Snapshot

\* The steps of a flush keep the types.
LEMMA FlushTypes ==
  ASSUME Types, FlushBegin \/ FlushStep
  PROVE  Types'
  <1> USE DEF FlushAt
  <1>1. phase = "up" /\ TypeOK /\ Shape
    BY DEF FlushBegin, FlushStep, FlushWal, FlushVectors, FlushMeta, FlushRest,
           FlushClear, FailFlush, Types
  <1>2. CASE FlushBegin
    <2>1. TypeOK'
      BY <1>1, <1>2 DEF FlushBegin, TypeOK
    <2> QED BY <1>1, <1>2, <2>1 DEF FlushBegin, Types, Shape, OpenPhases
  <1>3. CASE FlushWal
    <2>1. TypeOK'
      BY <1>1, <1>3, LenProperties DEF FlushWal, TypeOK
    <2> QED BY <1>1, <1>3, <2>1 DEF FlushWal, Types, Shape, OpenPhases
  <1>4. CASE FlushVectors
    <2>1. TypeOK'
      BY <1>1, <1>4 DEF FlushVectors, StampAndSync, TypeOK
    <2> QED BY <1>1, <1>4, <2>1 DEF FlushVectors, StampAndSync, Types, Shape, OpenPhases
  <1>5. CASE FlushMeta
    <2>1. nextSeq - 1 \in Nat
      BY <1>1 DEF TypeOK
    <2>2. snap' \in SnapTypes /\ dirty' \in SUBSET Offsets
      BY <1>5, <2>1, SnapshotTypes DEF FlushMeta, FlushedSeq
    <2>3. TypeOK'
      BY <1>1, <1>5, <2>2 DEF FlushMeta, TypeOK
    <2> QED BY <1>1, <1>5, <2>3 DEF FlushMeta, Types, Shape, OpenPhases
  <1>6. CASE FlushRest
    <2>1. TypeOK'
      BY <1>1, <1>6 DEF FlushRest, TypeOK
    <2> QED BY <1>1, <1>6, <2>1 DEF FlushRest, Types, Shape, OpenPhases
  <1>7. CASE FlushClear
    <2>1. TypeOK' /\ wal' \in Seq(LogFrames)
      BY <1>1, <1>7 DEF FlushClear, ClearLog, TypeOK
    <2> QED BY <1>1, <1>7, <2>1 DEF FlushClear, ClearLog, Types, Shape, OpenPhases
  <1>8. CASE FailFlush
    <2>1. /\ wal' \in Seq(LogFrames) /\ wal' \in Seq(Frames)
          /\ walSynced' \in 0 .. Len(wal')
      <3>1. CASE UNCHANGED <<wal, walSynced>>
        BY <1>1, <3>1 DEF TypeOK, Shape
      <3>2. CASE ClearLog
        BY <3>2 DEF ClearLog
      <3> QED BY <1>8, <3>1, <3>2 DEF FailFlush
    <2>2. hdr' \in Nat /\ dirty' \in SUBSET Offsets
      BY <1>1, <1>8 DEF FailFlush, DirtyAfterError, TypeOK
    <2>3. /\ flusher' = "idle"
          /\ UNCHANGED <<phase, vec, slots, snap, vecSynced, hdrSynced, slotsSynced,
                         records, nextOffset, nextSeq, idIndex, count, scan, op, ver,
                         acked, unsure, unflushed, crashes>>
      BY <1>8 DEF FailFlush
    <2> HIDE <1>8
    <2>4. TypeOK'
      BY <1>1, <2>1, <2>2, <2>3, ZenonT(30) DEF TypeOK
    <2> QED BY <1>1, <2>1, <2>3, <2>4 DEF Types, Shape, OpenPhases, OpShape
  <1> QED BY <1>2, <1>3, <1>4, <1>5, <1>6, <1>7, <1>8, ZenonT(30) DEF FlushStep

\* The frame that replay looks at, and the index that a recovery builds.
LEMMA ReplayFrame ==
  ASSUME Types, Replayable, phase = "replay"
  PROVE  /\ scan \in ScanTypes /\ scan.cursor \in DOMAIN wal
         /\ wal[scan.cursor] \in PutFrames \cup DelFrames
         /\ wal[scan.cursor].op # "delete" <=> wal[scan.cursor] \in PutFrames
  <1>1. scan \in ScanTypes /\ wal \in Seq(LogFrames)
    BY DEF Types, TypeOK, Shape, OpenPhases
  <1>2. scan.cursor \in DOMAIN wal
    BY <1>1, LenProperties DEF Replayable, ScanTypes
  <1>3. wal[scan.cursor] \in LogFrames
    BY <1>1, <1>2, ElementOfSeq, LenProperties
  <1> QED BY <1>1, <1>2, <1>3 DEF Replayable, LogFrames, TornFrame, PutFrames, DelFrames

\* What open indexes for an id is a live offset, or none.
LEMMA LatestTypes ==
  ASSUME Types, Ahead, NEW id \in Ids
  PROVE  /\ Latest(records, id) \in Live(records) \cup {None}
         /\ Latest(records, id) \in Offsets \cup {None}
         /\ VersionIn(records, Latest(records, id)) \in Versions \cup {None}
  <1> DEFINE mine == {o \in Live(records) : records[o].id = id}
             gaps == {nextSeq - records[o].seq : o \in mine}
             less == {ss \in Nat \X Nat : ss[1] < ss[2]}
  <1>1. \A o \in mine : /\ records[o] \in Recs /\ o \in Offsets
                        /\ records[o].seq \in Nat /\ records[o].seq < nextSeq
    BY DEF Types, TypeOK, Live, Ahead, Recs
  <1>2. ASSUME mine # {}
        PROVE  \E o \in mine : \A p \in mine : records[p].seq <= records[o].seq
    <2>1. gaps \subseteq Nat /\ gaps # {} /\ nextSeq \in Nat
      <3>1. nextSeq \in Nat
        BY DEF Types, TypeOK
      <3>2. \A o \in mine : nextSeq - records[o].seq \in Nat
        BY <1>1, <3>1
      <3>3. gaps # {}
        BY <1>2
      <3> HIDE DEF mine
      <3> QED BY <3>1, <3>2, <3>3
    <2>0. IsWellFoundedOn(less, Nat)
      BY NatLessThanWellFounded DEF OpToRel
    <2>2. PICK m \in gaps : \A n \in gaps : ~ (<<n, m>> \in less)
      <3> HIDE DEF gaps, less
      <3> QED BY <2>0, <2>1, WFMin, ZenonT(30)
    <2>3. \A n \in gaps : m <= n
      <3> HIDE DEF gaps
      <3> TAKE n \in gaps
      <3>1. n \in Nat /\ m \in Nat
        BY <2>1, <2>2
      <3>2. n < m => <<n, m>> \in less
        BY <3>1
      <3> QED BY <2>2, <3>1, <3>2
    <2>4. PICK o \in mine : m = nextSeq - records[o].seq
      OBVIOUS
    <2>5. \A p \in mine : nextSeq - records[o].seq <= nextSeq - records[p].seq
      BY <2>3, <2>4
    <2>6. \A p \in mine : records[p].seq <= records[o].seq
      BY <1>1, <2>1, <2>5
    <2> QED BY <2>6
  <1>3. Latest(records, id) \in mine \cup {None}
    BY <1>2 DEF Latest
  <1> HIDE DEF mine, gaps
  <1>4. Latest(records, id) \in Live(records) \cup {None}
    BY <1>3 DEF mine
  <1>5. VersionIn(records, Latest(records, id)) \in Versions \cup {None}
    BY <1>1, <1>3 DEF VersionIn, Recs
  <1> QED BY <1>4, <1>5, ZenonT(30) DEF Live

\* The steps of open keep the types.
LEMMA OpenTypes ==
  ASSUME Types, OpenStep, phase = "check" => Ahead
  PROVE  Types'
  <1>1. /\ op = None /\ flusher = "idle" /\ phase \in OpenPhases \cup {"down"}
        /\ phase # "down" => scan \in ScanTypes
        /\ TypeOK /\ Shape /\ wal \in Seq(LogFrames) /\ wal \in Seq(Frames)
    BY ZenonT(30) DEF OpenStep, OpenFiles, ReplaySkip, ReplayPut, ReplayDelete, ReplayEnd,
           RecoverVectors, RecoverMeta, RecoverClear, Refuse, BuildIndexes,
           OpenPhases, Types, TypeOK, Shape
  \* No step of open touches the write, the flush or most of the history.
  <1>2. /\ UNCHANGED <<op, flusher, ver, unflushed, crashes>>
        /\ phase' \in OpenPhases \cup {"up", "refused"}
    BY ZenonT(30) DEF OpenStep, OpenFiles, ReplaySkip, ReplayPut, ReplayDelete, ReplayEnd,
           RecoverVectors, RecoverMeta, RecoverClear, Refuse, BuildIndexes, OpenPhases
  <1>3. ASSUME TypeOK', wal' \in Seq(LogFrames), scan' # None \/ phase' = "up",
               phase' = "replay" => scan'.cursor <= Len(wal') + 1
        PROVE  Types'
    BY <1>1, <1>2, <1>3 DEF Types, Shape, OpenPhases
  <1>4. ASSUME NEW cursor \in Nat \ {0}, NEW maxSeq \in Nat, NEW maxOffset \in Nat,
               NEW replayed \in BOOLEAN, scan \in ScanTypes,
               scan' = [scan EXCEPT !.cursor = cursor, !.replayed = replayed,
                                    !.maxSeq = maxSeq, !.maxOffset = maxOffset]
        PROVE  scan' \in ScanTypes /\ scan' # None /\ scan'.cursor = cursor
    <2>1. scan' \in ScanTypes /\ scan'.cursor = cursor
      BY <1>4, ZenonT(30) DEF ScanTypes
    <2> QED BY <2>1, NoneAssumption
  <1>5. CASE OpenFiles
    <2>1. /\ snap.records \in [Offsets -> Recs \cup {None}] /\ snap.nextOffset \in Nat
          /\ snap.nextSeq \in Nat \ {0} /\ snap.lastApplied \in Nat /\ snap.written \in BOOLEAN
      BY <1>1 DEF TypeOK, SnapTypes
    <2>2. Min2(hdr, slots) \in Nat
      BY <1>1 DEF TypeOK, Min2
    <2>3. scan' \in ScanTypes /\ scan' # None /\ scan'.cursor = 1
      <3>1. scan' = [cursor |-> 1, maxSeq |-> snap.lastApplied, maxOffset |-> 0,
                     replayed |-> FALSE, fresh |-> ~snap.written,
                     vectorsAtOpen |-> Min2(hdr, slots)]
        BY <1>5 DEF OpenFiles
      <3>2. scan' \in ScanTypes
        BY <2>1, <2>2, <3>1 DEF ScanTypes
      <3> QED BY <3>1, <3>2, NoneAssumption, ZenonT(30)
    <2>4. TypeOK'
      BY <1>1, <1>5, <2>1, <2>2, <2>3 DEF OpenFiles, TypeOK, OpenPhases
    <2> QED BY <1>1, <1>3, <1>5, <2>3, <2>4, LenProperties DEF OpenFiles
  <1>6. CASE ReplaySkip
    <2>1. /\ scan' = [scan EXCEPT !.cursor = scan.cursor + 1, !.replayed = scan.replayed,
                                  !.maxSeq = scan.maxSeq, !.maxOffset = scan.maxOffset]
          /\ scan \in ScanTypes
      BY <1>1, <1>6, ZenonT(30) DEF ReplaySkip, ScanTypes
    <2>2. scan' \in ScanTypes /\ scan' # None /\ scan'.cursor = scan.cursor + 1
      <3>1. /\ scan.cursor + 1 \in Nat \ {0} /\ scan.maxSeq \in Nat
            /\ scan.maxOffset \in Nat /\ scan.replayed \in BOOLEAN
        BY <2>1 DEF ScanTypes
      <3> QED BY <1>4, <2>1, <3>1, Zenon
    <2>3. TypeOK'
      BY <1>1, <1>6, <2>2 DEF ReplaySkip, TypeOK
    <2>4. scan'.cursor <= Len(wal') + 1
      BY <1>1, <1>6, <2>1, <2>2, LenProperties DEF ReplaySkip, Replayable, ScanTypes
    <2> QED BY <1>1, <1>3, <1>6, <2>2, <2>3, <2>4 DEF ReplaySkip
  <1>7. CASE ReplayPut
    <2> DEFINE f == wal[scan.cursor]
    <2>1. f \in PutFrames /\ scan \in ScanTypes
      BY <1>7, ReplayFrame, ZenonT(30) DEF ReplayPut
    <2>2. /\ f.offset \in Offsets /\ f.offset \in Nat /\ f.rec.seq \in Nat
          /\ f.rec \in Recs /\ f.old \in Offsets \cup {None}
      BY <2>1 DEF PutFrames, Recs, Offsets
    <2>3. \/ /\ records' = ReplayedRecords(f)
             /\ dirty' = dirty \cup ({f.offset, f.old} \ {None})
             /\ count' = Max2(count, f.offset + 1)
          \/ UNCHANGED <<records, dirty, count>>
      BY <1>7 DEF ReplayPut
    <2>4. scan' = [scan EXCEPT !.cursor = scan.cursor + 1, !.replayed = TRUE,
                               !.maxSeq = Max2(scan.maxSeq, f.rec.seq),
                               !.maxOffset = Max2(scan.maxOffset, f.offset)]
      BY <1>7, <2>1, ZenonT(30) DEF ReplayPut, ScanTypes
    <2> HIDE DEF f
    <2>5. /\ records' \in [Offsets -> Recs \cup {None}] /\ dirty' \in SUBSET Offsets
          /\ count' \in Nat
      <3>1. /\ ReplayedRecords(f) \in [Offsets -> Recs \cup {None}]
            /\ dirty \cup ({f.offset, f.old} \ {None}) \in SUBSET Offsets
        BY <1>1, <2>2, ZenonT(30) DEF ReplayedRecords, TypeOK
      <3>2. Max2(count, f.offset + 1) \in Nat
        BY <1>1, <2>2 DEF TypeOK, Max2
      <3> QED BY <1>1, <2>3, <3>1, <3>2, ZenonT(30) DEF TypeOK
    <2>6. /\ Max2(scan.maxSeq, f.rec.seq) \in Nat /\ Max2(scan.maxOffset, f.offset) \in Nat
          /\ scan.cursor + 1 \in Nat \ {0}
      BY <2>1, <2>2, SMTT(60) DEF ScanTypes, Max2
    <2>7. scan' \in ScanTypes /\ scan' # None /\ scan'.cursor = scan.cursor + 1
      BY <1>4, <2>1, <2>4, <2>6, ZenonT(30)
    <2>8. UNCHANGED <<phase, wal, vec, hdr, slots, snap, walSynced, vecSynced, hdrSynced,
                      slotsSynced, nextOffset, nextSeq, idIndex, acked, unsure>>
      BY <1>7, ZenonT(30) DEF ReplayPut
    <2>9. TypeOK'
      BY <1>1, <1>2, <2>5, <2>7, <2>8, ZenonT(30) DEF TypeOK
    <2>10. scan'.cursor <= Len(wal') + 1
      BY <1>1, <1>7, <2>1, <2>7, <2>8, LenProperties DEF ReplayPut, Replayable, ScanTypes
    <2> QED BY <1>1, <1>3, <2>7, <2>8, <2>9, <2>10
  <1>8. CASE ReplayDelete
    <2>1. wal[scan.cursor].offset \in Offsets /\ scan \in ScanTypes
      BY <1>8, ReplayFrame DEF ReplayDelete, DelFrames, PutFrames
    <2>2. scan' = [scan EXCEPT !.cursor = scan.cursor + 1, !.replayed = TRUE,
                               !.maxSeq = scan.maxSeq, !.maxOffset = scan.maxOffset]
      BY <1>8, <2>1, ZenonT(30) DEF ReplayDelete, ScanTypes
    <2>3. scan' \in ScanTypes /\ scan' # None /\ scan'.cursor = scan.cursor + 1
      <3>1. /\ scan.cursor + 1 \in Nat \ {0} /\ scan.maxSeq \in Nat
            /\ scan.maxOffset \in Nat /\ TRUE \in BOOLEAN
        BY <2>1 DEF ScanTypes
      <3> QED BY <1>4, <2>1, <2>2, <3>1, Zenon
    <2>4. TypeOK'
      BY <1>1, <1>8, <2>1, <2>3, ZenonT(30) DEF ReplayDelete, TypeOK
    <2>5. scan'.cursor <= Len(wal') + 1
      BY <1>1, <1>8, <2>1, <2>3, LenProperties DEF ReplayDelete, Replayable, ScanTypes
    <2> QED BY <1>1, <1>3, <1>8, <2>3, <2>4, <2>5 DEF ReplayDelete
  <1>9. CASE ReplayEnd
    <2>1. /\ scan \in ScanTypes /\ scan.cursor \in Nat \ {0}
          /\ scan.maxSeq \in Nat /\ scan.maxOffset \in Nat
      BY <1>1, <1>9 DEF ReplayEnd, ScanTypes
    <2>2. nextOffset' \in Nat /\ nextSeq' \in Nat \ {0}
      <3>1. /\ nextOffset' \in {nextOffset, Past(nextOffset, scan.maxOffset)}
            /\ nextSeq' \in {nextSeq, Past(nextSeq, scan.maxSeq)}
        BY <1>9 DEF ReplayEnd
      <3>2. nextOffset \in Nat /\ nextSeq \in Nat \ {0}
        BY <1>1 DEF TypeOK
      <3> QED BY <2>1, <3>1, <3>2, SMTT(60) DEF Past, Max2
    <2>3. /\ wal' \in Seq(LogFrames) /\ wal' \in Seq(Frames)
          /\ walSynced' \in 0 .. Len(wal')
      <3>1. /\ wal' = SubSeq(wal, 1, scan.cursor - 1)
            /\ walSynced' = IF scan.cursor <= Len(wal) THEN scan.cursor - 1 ELSE walSynced
        BY <1>9, ZenonT(30) DEF ReplayEnd
      <3>2. /\ scan.cursor <= Len(wal) + 1 /\ Len(wal) \in Nat
            /\ walSynced \in 0 .. Len(wal)
        BY <1>1, <1>9, LenProperties DEF ReplayEnd, Shape, TypeOK
      <3>3. Len(wal') = scan.cursor - 1 /\ wal' \in Seq(LogFrames)
        BY <1>1, <2>1, <3>1, <3>2, SubSeqProperties
      <3>4. wal' \in Seq(Frames)
        BY <3>3, FrameSets, SeqMonotonic
      <3>5. walSynced' \in 0 .. Len(wal')
        BY <2>1, <3>1, <3>2, <3>3, SMTT(60)
      <3> QED BY <3>3, <3>4, <3>5, ZenonT(30)
    <2>4. TypeOK'
      BY <1>1, <1>9, <2>2, <2>3, ZenonT(30) DEF ReplayEnd, TypeOK, OpenPhases
    <2> QED BY <1>1, <1>3, <1>9, <2>1, <2>3, <2>4, NoneAssumption, ZenonT(30) DEF ReplayEnd
  <1>10. CASE RecoverVectors
    <2>1. TypeOK'
      BY <1>1, <1>10, ZenonT(30) DEF RecoverVectors, StampAndSync, TypeOK, OpenPhases
    <2> QED BY <1>1, <1>3, <1>10, <2>1, NoneAssumption, ZenonT(30) DEF RecoverVectors
  <1>11. CASE RecoverMeta
    <2>1. scan.maxSeq \in Nat
      BY <1>1, <1>11 DEF RecoverMeta, ScanTypes
    <2>2. snap' \in SnapTypes /\ dirty' \in SUBSET Offsets
      BY <1>11, <2>1, SnapshotTypes, ZenonT(30) DEF RecoverMeta
    <2>3. TypeOK'
      BY <1>1, <1>11, <2>2, ZenonT(30) DEF RecoverMeta, TypeOK, OpenPhases
    <2> QED BY <1>1, <1>3, <1>11, <2>3, NoneAssumption, ZenonT(30) DEF RecoverMeta
  <1>12. CASE RecoverClear
    <2>1. TypeOK' /\ wal' \in Seq(LogFrames)
      BY <1>1, <1>12, SMTT(60) DEF RecoverClear, ClearLog, TypeOK, OpenPhases
    <2> QED BY <1>1, <1>3, <1>12, <2>1, NoneAssumption, ZenonT(30) DEF RecoverClear
  <1>13. CASE Refuse
    <2>1. TypeOK'
      BY <1>1, <1>13 DEF Refuse, TypeOK
    <2> QED BY <1>1, <1>3, <1>13, <2>1, NoneAssumption, ZenonT(30) DEF Refuse
  <1>14. CASE BuildIndexes
    <2>1. \A i \in Ids :
             /\ Latest(records, i) \in Offsets \cup {None}
             /\ VersionIn(records, Latest(records, i)) \in Versions \cup {None}
      BY <1>14, LatestTypes, ZenonT(30) DEF BuildIndexes
    <2>2. /\ idIndex' \in [Ids -> Offsets \cup {None}]
          /\ acked' \in [Ids -> Versions \cup {None}]
      BY <1>1, <1>14, <2>1, ZenonT(30) DEF BuildIndexes, TypeOK
    <2>3. TypeOK'
      BY <1>1, <1>14, <2>2, ZenonT(30) DEF BuildIndexes, TypeOK
    <2> QED BY <1>1, <1>3, <1>14, <2>3, ZenonT(30) DEF BuildIndexes
  <1> QED BY <1>5, <1>6, <1>7, <1>8, <1>9, <1>10, <1>11, <1>12, <1>13, <1>14, ZenonT(30) DEF OpenStep

\* A log cut to its first k frames.
LEMMA CutTo ==
  ASSUME NEW S, NEW s \in Seq(S), NEW k \in 0 .. Len(s), NEW u, u = SubSeq(s, 1, k)
  PROVE  u \in Seq(S) /\ Len(u) = k /\ \A i \in 1 .. k : u[i] = s[i]
  <1>1. k \in Nat /\ \A i \in 1 .. k : s[i] \in S
    BY LenProperties, ElementOfSeq
  <1> QED BY <1>1, SubSeqProperties

\* And for one that ends in a torn frame.
LEMMA CutTorn ==
  ASSUME NEW S, NEW s \in Seq(S), NEW k \in 0 .. Len(s), NEW t \in S,
         NEW u, u = SubSeq(s, 1, k) \o <<t>>
  PROVE  /\ u \in Seq(S) /\ Len(u) = k + 1 /\ u[k + 1] = t
         /\ \A i \in 1 .. k : u[i] = s[i]
  <1> DEFINE p == SubSeq(s, 1, k)
             q == <<t>>
             r == p \o q
  <1>1. p \in Seq(S) /\ Len(p) = k /\ k \in Nat /\ \A i \in 1 .. k : p[i] = s[i]
    BY CutTo
  <1>2. q \in Seq(S) /\ Len(q) = 1 /\ q[1] = t
    OBVIOUS
  <1>3. u = r
    OBVIOUS
  <1> HIDE DEF p, q
  <1>4. /\ r \in Seq(S) /\ Len(r) = Len(p) + Len(q)
        /\ \A i \in 1 .. Len(p) + Len(q) : r[i] = IF i <= Len(p) THEN p[i] ELSE q[i - Len(p)]
    <2>1. p \in Seq(S) /\ q \in Seq(S)
      BY <1>1, <1>2
    <2> QED BY <2>1, ConcatProperties
  <1> HIDE DEF r
  <1>5. Len(r) = k + 1
    BY <1>1, <1>2, <1>4
  <1>6. ASSUME NEW i \in 1 .. k
        PROVE  r[i] = s[i]
    <2>1. Len(p) = k /\ Len(q) = 1
      BY <1>1, <1>2, Zenon
    <2>2. i \in 1 .. Len(p) + Len(q) /\ i <= Len(p)
      BY <1>1, <2>1
    <2>3. r[i] = p[i]
      BY <1>4, <2>2, Zenon
    <2> QED BY <1>1, <2>3, Zenon
  <1>7. r[k + 1] = t
    <2>1. r[k + 1] = q[(k + 1) - k]
      BY <1>1, <1>2, <1>4
    <2> QED BY <1>1, <1>2, <2>1
  <1> QED BY <1>3, <1>4, <1>5, <1>6, <1>7, Zenon

\* A kill and a power loss keep the types, torn tail included.
LEMMA CrashTypes ==
  ASSUME Types, Kill \/ PowerLoss
  PROVE  Types'
  <1>1. /\ TypeOK /\ wal \in Seq(LogFrames) /\ wal \in Seq(Frames)
        /\ Len(wal) \in Nat /\ TornFrame \in LogFrames /\ walSynced \in 0 .. Len(wal)
    BY FrameSets, LenProperties DEF Types, Shape, TypeOK
  <1>2. ProcessGone
    BY DEF Kill, PowerLoss
  <1>3. /\ records' \in [Offsets -> Recs \cup {None}] /\ dirty' = {} /\ nextOffset' = 0
        /\ nextSeq' = 1 /\ idIndex' \in [Ids -> Offsets \cup {None}] /\ count' = 0
        /\ scan' = None /\ op' = None /\ flusher' = "idle" /\ phase' = "down"
        /\ ver' = ver /\ acked' = acked /\ unflushed' = unflushed /\ crashes' \in Nat
    BY <1>1, <1>2 DEF ProcessGone, NoRecords, TypeOK
  <1>4. ASSUME wal' \in Seq(LogFrames), walSynced' \in 0 .. Len(wal'),
               vec' \in [Offsets -> Nat], vecSynced' \in [Offsets -> Nat],
               hdr' \in Nat, hdrSynced' \in Nat, slots' \in Nat, slotsSynced' \in Nat,
               snap' = snap, unsure' \in SUBSET Ids
        PROVE  Types'
    <2>1. wal' \in Seq(Frames)
      BY <1>4, FrameSets, SeqMonotonic, ZenonT(30)
    <2>2. TypeOK'
      BY <1>1, <1>3, <1>4, <2>1, SMTT(60) DEF TypeOK
    <2> QED BY <1>3, <1>4, <2>2 DEF Types, Shape, OpenPhases
  <1>5. CASE Kill
    <2>1. wal' \in Seq(LogFrames) /\ Len(wal') \in Nat /\ Len(wal') >= Len(wal)
      <3>1. CASE UNCHANGED wal
        BY <1>1, <3>1
      <3>2. ASSUME At("log"), NEW k \in 0 .. (Len(op.frames) - 1),
                   wal' = wal \o SubSeq(op.frames, 1, k) \o <<TornFrame>>
            PROVE  wal' \in Seq(LogFrames) /\ Len(wal') \in Nat /\ Len(wal') >= Len(wal)
        <4>1. op.frames \in Seq(LogFrames) /\ Len(op.frames) \in Nat
          BY <3>2, OpFrames DEF At
        <4> DEFINE kept == SubSeq(op.frames, 1, k)
        <4>2. kept \in Seq(LogFrames)
          BY <1>1, <4>1, CutTo
        <4>3. wal' = (wal \o kept) \o <<TornFrame>>
          BY <3>2
        <4> HIDE DEF kept
        <4>4. wal \o kept \in Seq(LogFrames) /\ Len(wal \o kept) = Len(wal) + Len(kept)
          BY <1>1, <4>2, ConcatProperties
        <4>5. <<TornFrame>> \in Seq(LogFrames) /\ Len(<<TornFrame>>) = 1
          BY <1>1
        <4>6. wal' \in Seq(LogFrames) /\ Len(wal') = Len(wal) + Len(kept) + 1
          BY <4>3, <4>4, <4>5, ConcatProperties, SMTT(60)
        <4> QED BY <1>1, <4>2, <4>6, LenProperties
      <3> QED BY <1>5, <3>1, <3>2 DEF Kill
    <2>2. walSynced' \in 0 .. Len(wal')
      BY <1>1, <1>5, <2>1, SMTT(60) DEF Kill
    <2> QED BY <1>1, <1>4, <1>5, <2>1, <2>2, ZenonT(30) DEF Kill, TypeOK
  <1>6. CASE PowerLoss
    <2>1. PICK k \in walSynced .. Len(wal) :
             \/ wal' = SubSeq(wal, 1, k)
             \/ k < Len(wal) /\ wal' = SubSeq(wal, 1, k) \o <<TornFrame>>
      BY <1>6 DEF PowerLoss
    <2>2. k \in 0 .. Len(wal)
      BY <1>1
    <2>3. wal' \in Seq(LogFrames)
      <3>1. SubSeq(wal, 1, k) \in Seq(LogFrames)
        BY <1>1, <2>2, CutTo
      <3>2. SubSeq(wal, 1, k) \o <<TornFrame>> \in Seq(LogFrames)
        BY <1>1, <2>2, CutTorn, ZenonT(30)
      <3> QED BY <2>1, <3>1, <3>2
    <2>4. walSynced' \in 0 .. Len(wal')
      BY <1>6, <2>3, LenProperties, SMTT(60) DEF PowerLoss
    <2>5. /\ slots' \in Nat /\ slotsSynced' \in Nat /\ hdr' \in Nat /\ hdrSynced' \in Nat
          /\ snap' = snap /\ unsure' \in SUBSET Ids
      BY <1>1, <1>6, ZenonT(30) DEF PowerLoss, TypeOK
    <2>6. PICK n \in {slotsSynced, slots},
               lost \in SUBSET {o \in Offsets : vec[o] # vecSynced[o]} :
                 vec' = [o \in Offsets |-> IF o >= n THEN 0
                                           ELSE IF o \in lost THEN vecSynced[o]
                                           ELSE vec[o]]
      BY <1>6, ZenonT(30) DEF PowerLoss
    <2>7. vec' \in [Offsets -> Nat]
      BY <1>1, <2>6 DEF TypeOK
    <2>8. vecSynced' \in [Offsets -> Nat]
      BY <1>6, <2>7 DEF PowerLoss
    <2> QED BY <1>4, <2>3, <2>4, <2>5, <2>7, <2>8, ZenonT(30)
  <1> QED BY <1>5, <1>6, ZenonT(30)

\* Every step keeps the types, given that recovery leaves the counters ahead.
LEMMA NextTypes ==
  ASSUME Types, [Next]_vars, phase = "check" => Ahead
  PROVE  Types'
  <1>1. CASE UNCHANGED vars
    <2>1. TypeOK'
      BY <1>1, ZenonT(30) DEF vars, Types, TypeOK
    <2>2. Shape'
      BY <1>1, ZenonT(30) DEF vars, Types, Shape, OpShape
    <2> QED BY <2>1, <2>2, ZenonT(30) DEF Types
  <1> QED BY <1>1, StartTypes, WriteTypes, FlushTypes, OpenTypes, CrashTypes DEF Next

=============================================================================
