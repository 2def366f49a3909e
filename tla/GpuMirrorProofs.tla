-------------------------- MODULE GpuMirrorProofs --------------------------
(***************************************************************************)
(* The mirror's queue loses no search and its uploads always fit, for any  *)
(* number of searches, any budget, group size and chunk size.  The         *)
(* inductive invariant IndInv ties the queue to the mutex: a group exists  *)
(* only while the one holder works on it, so a search that gets the device *)
(* unanswered must still be in the queue.                                  *)
(***************************************************************************)
EXTENDS GpuMirror, SequenceTheorems, TLAPS

Excludes == \A t \in Threads : Inside(t) => holder = t
GroupIsHeld == (\A t \in Threads : ~Working(t)) => group = <<>>
Queued ==
    \A t \in Singles :
        pc[t] \notin {"idle", "push"} /\ ~reply[t].served /\ ~disabled
           => InQueue(t) \/ InGroup(t)

USE DEF device

\* IndInv is the conjunction of these parts.
LEMMA Parts == IndInv <=> TypeOK /\ UploadsFit /\ Excludes /\ GroupIsHeld /\ Queued
  BY DEF IndInv, Excludes, GroupIsHeld, Queued

LEMMA Constants ==
    /\ MaxCount \in Nat /\ MaxGroup \in Nat /\ MaxGroup > 0 /\ Budget \in Nat
    /\ MinCapacity \in Nat /\ MinCapacity > 0 /\ UploadChunk \in Nat /\ UploadChunk > 0
    /\ NoOne \notin Threads /\ Singles \subseteq Threads /\ Batchers \subseteq Threads
    /\ Singles \cap Batchers = {} /\ Threads = Singles \cup Batchers
  BY ConstantsAssumption DEF Threads

\* The initial state satisfies the invariant: nothing is queued or uploaded.
LEMMA InitIndInv == Init => IndInv
  <1> SUFFICES ASSUME Init PROVE IndInv
    OBVIOUS
  <1> USE Constants DEF Init, NoMatrix, Unserved
  <1>1. TypeOK
    <2>1. DOMAIN reply = Threads /\ \A t \in Threads : reply[t].served \in BOOLEAN
      OBVIOUS
    <2>2. /\ pc \in [Threads -> {"idle", "push", "lock", "loop", "sync", "upload", "settle"}]
          /\ \A t \in Threads : pc[t] = "push" => t \in Singles
      OBVIOUS
    <2>3. matrix \in [held : BOOLEAN, rows : Nat, capacity : Nat]
      OBVIOUS
    <2>4. waiting \in Seq(Singles) /\ group \in Seq(Singles)
      OBVIOUS
    <2>5. count \in 0 .. MaxCount /\ target \in 0 .. MaxCount
      OBVIOUS
    <2>6. disabled \in BOOLEAN /\ failed \in BOOLEAN /\ holder \in Threads \cup {NoOne}
      OBVIOUS
    <2> HIDE DEF Init
    <2> QED BY <2>1, <2>2, <2>3, <2>4, <2>5, <2>6, Zenon DEF TypeOK
  <1>2. UploadsFit
    BY DEF UploadsFit
  <1>3. Excludes /\ GroupIsHeld /\ Queued
    BY DEF Excludes, GroupIsHeld, Queued, Inside
  <1> QED BY <1>1, <1>2, <1>3, Parts

\* The mirror sync allocates holds the rows it read and fits the budget.
LEMMA CapacityFits ==
  ASSUME NEW n \in Nat, ~(NewCapacity(n) > Budget)
  PROVE  NewCapacity(n) \in Nat /\ n <= NewCapacity(n) /\ NewCapacity(n) <= Budget
  BY Constants, SMTT(30) DEF NewCapacity, Most

\* Queueing a request keeps every request queued so far, and adds its own.
LEMMA PushKeeps ==
  ASSUME NEW t \in Singles, waiting \in Seq(Singles), waiting' = Append(waiting, t)
  PROVE  /\ waiting' \in Seq(Singles)
         /\ InQueue(t)'
         /\ \A u : InQueue(u) => InQueue(u)'
  <1>1. /\ waiting' \in Seq(Singles) /\ Len(waiting') = Len(waiting) + 1
        /\ \A i \in 1 .. Len(waiting) : waiting'[i] = waiting[i]
        /\ waiting'[Len(waiting) + 1] = t
    BY AppendProperties
  <1>2. Len(waiting) \in Nat
    OBVIOUS
  <1> QED BY <1>1, <1>2 DEF InQueue

\* Draining splits the queue: every request is in the group or still queued.
LEMMA DrainSplits ==
  ASSUME NEW k \in 1 .. Len(waiting), waiting \in Seq(Singles),
         group' = SubSeq(waiting, 1, k), waiting' = SubSeq(waiting, k + 1, Len(waiting))
  PROVE  /\ group' \in Seq(Singles) /\ waiting' \in Seq(Singles)
         /\ \A u : InQueue(u) => InQueue(u)' \/ InGroup(u)'
  <1>0. k \in Nat /\ Len(waiting) \in Nat /\ 1 <= k /\ k <= Len(waiting)
    OBVIOUS
  <1>1. \A i \in 1 .. Len(waiting) : waiting[i] \in Singles
    OBVIOUS
  <1>2. /\ group' \in Seq(Singles) /\ Len(group') = k
        /\ \A i \in 1 .. k : group'[i] = waiting[i]
    <2>1. \A i \in 1 .. k : waiting[i] \in Singles
      BY <1>0, <1>1
    <2>2. /\ SubSeq(waiting, 1, k) \in Seq(Singles)
          /\ Len(SubSeq(waiting, 1, k)) = IF 1 <= k THEN k - 1 + 1 ELSE 0
          /\ \A i \in 1 .. k - 1 + 1 : SubSeq(waiting, 1, k)[i] = waiting[1 + i - 1]
      BY <1>0, <2>1, SubSeqProperties
    <2> QED BY <1>0, <2>2
  <1>3. /\ waiting' \in Seq(Singles) /\ Len(waiting') = Len(waiting) - k
        /\ \A i \in 1 .. Len(waiting) - k : waiting'[i] = waiting[k + i]
    <2>1. \A i \in k + 1 .. Len(waiting) : waiting[i] \in Singles
      BY <1>0, <1>1
    <2>2. /\ SubSeq(waiting, k + 1, Len(waiting)) \in Seq(Singles)
          /\ Len(SubSeq(waiting, k + 1, Len(waiting))) =
                IF k + 1 <= Len(waiting) THEN Len(waiting) - (k + 1) + 1 ELSE 0
          /\ \A i \in 1 .. Len(waiting) - (k + 1) + 1 :
                SubSeq(waiting, k + 1, Len(waiting))[i] = waiting[(k + 1) + i - 1]
      BY <1>0, <2>1, SubSeqProperties
    <2> QED BY <1>0, <2>2
  <1>4. ASSUME NEW u, NEW i \in 1 .. Len(waiting), waiting[i] = u
        PROVE  InQueue(u)' \/ InGroup(u)'
    <2>1. CASE i <= k
      BY <1>0, <1>2, <1>4, <2>1 DEF InGroup
    <2>2. CASE i > k
      <3>1. i - k \in 1 .. Len(waiting') /\ waiting'[i - k] = waiting[k + (i - k)]
        BY <1>0, <1>3, <2>2
      <3>2. k + (i - k) = i
        BY <1>0
      <3> QED BY <1>4, <3>1, <3>2 DEF InQueue
    <2> QED BY <1>0, <2>1, <2>2
  <1> QED BY <1>2, <1>3, <1>4 DEF InQueue

\* A step that leaves everything alone keeps every part.
LEMMA StutterKeeps == IndInv /\ UNCHANGED vars => IndInv'
  <1> SUFFICES ASSUME IndInv, UNCHANGED vars PROVE IndInv'
    OBVIOUS
  <1>1. TypeOK' /\ UploadsFit'
    BY Parts DEF TypeOK, UploadsFit, vars
  <1>2. Excludes' /\ GroupIsHeld' /\ Queued'
    BY Parts DEF Excludes, GroupIsHeld, Queued, Inside, Working, InQueue, InGroup, vars
  <1> QED BY <1>1, <1>2 DEF IndInv, Excludes, GroupIsHeld, Queued

\* A step by one thread moves only that thread's pc, and keeps its type.
LEMMA PcMoves ==
  ASSUME TypeOK, NEW t \in Threads, Begin(t) \/ Lock(t) \/ Run(t)
  PROVE  /\ pc' \in [Threads -> {"idle", "push", "lock", "loop", "sync", "upload", "settle"}]
         /\ \A u \in Threads \ {t} : pc'[u] = pc[u]
  <1> USE DEF TypeOK
  <1>1. ASSUME NEW p \in {"idle", "push", "lock", "loop", "sync", "upload", "settle"},
               pc' = [pc EXCEPT ![t] = p]
        PROVE  /\ pc' \in [Threads -> {"idle", "push", "lock", "loop", "sync", "upload", "settle"}]
               /\ \A u \in Threads \ {t} : pc'[u] = pc[u]
    BY <1>1
  <1>2. CASE Begin(t)
    BY <1>1, <1>2 DEF Begin, Enter
  <1>3. CASE Lock(t)
    BY <1>1, <1>3 DEF Lock
  <1>4. CASE Push(t)
    BY <1>1, <1>4 DEF Push
  <1>5. CASE TakeReply(t)
    BY <1>1, <1>5 DEF TakeReply, Return
  <1>6. CASE GiveUp(t)
    BY <1>1, <1>6 DEF GiveUp, Return
  <1>7. CASE Drain(t)
    BY <1>1, <1>7 DEF Drain, Return
  <1>8. CASE TakeBatch(t)
    BY <1>1, <1>8 DEF TakeBatch
  <1>9. CASE SyncAllocate(t)
    BY <1>1, <1>9 DEF SyncAllocate
  <1>10. CASE Upload(t)
    BY <1>1, <1>10 DEF Upload
  <1>11. CASE Product(t)
    BY <1>1, <1>11 DEF Product
  <1>12. CASE SettleOk(t)
    BY <1>1, <1>12 DEF SettleOk
  <1>13. CASE SettleErr(t)
    BY <1>1, <1>13 DEF SettleErr
  <1> QED BY <1>2, <1>3, <1>4, <1>5, <1>6, <1>7, <1>8, <1>9, <1>10, <1>11, <1>12, <1>13 DEF Run

\* Every step keeps the types.
LEMMA TypesKept == ASSUME IndInv, Next PROVE TypeOK'
  <1> USE Constants DEF TypeOK
  <1>0. TypeOK
    BY Parts
  <1>1. CASE AddVector
    <2>1. count' \in 0 .. MaxCount
      BY <1>0, <1>1 DEF AddVector
    <2> QED BY <1>0, <1>1, <2>1 DEF AddVector
  <1>2. CASE Reopen
    <2>1. matrix' \in [held : BOOLEAN, rows : Nat, capacity : Nat]
      BY <1>2 DEF Reopen, NoMatrix
    <2>2. waiting' \in Seq(Singles)
      BY <1>2 DEF Reopen
    <2> QED BY <1>0, <1>2, <2>1, <2>2 DEF Reopen
  <1>3. ASSUME NEW t \in Threads, Begin(t) \/ Lock(t) \/ Run(t) PROVE TypeOK'
    <2>0. pc' \in [Threads -> {"idle", "push", "lock", "loop", "sync", "upload", "settle"}]
      BY <1>0, <1>3, PcMoves
    <2>1. CASE Begin(t)
      BY <1>0, <2>0, <2>1 DEF Begin, Enter
    <2>2. CASE Lock(t)
      BY <1>0, <2>0, <2>2 DEF Lock
    <2>3. CASE Push(t)
      <3>1. ~disabled' => waiting' \in Seq(Singles)
        BY <1>0, <2>3, PushKeeps DEF Push
      <3>2. DOMAIN reply' = Threads /\ \A u \in Threads : reply'[u].served \in BOOLEAN
        BY <1>0, <2>3 DEF Push, Unserved
      <3> QED BY <1>0, <2>0, <2>3, <3>1, <3>2 DEF Push
    <2>4. CASE TakeReply(t)
      BY <1>0, <2>0, <2>4 DEF TakeReply, Return, Unserved
    <2>5. CASE GiveUp(t)
      BY <1>0, <2>0, <2>5 DEF GiveUp, Return, Unserved
    <2>6. CASE Drain(t)
      <3> DEFINE take == Least(Len(waiting), MaxGroup)
      <3>0. waiting \in Seq(Singles)
        BY <1>0, <2>6 DEF Drain
      <3>1. CASE take = 0
        <4>1. Return(t) /\ UNCHANGED <<count, matrix, waiting, disabled, group, target, failed>>
          BY <2>6, <3>1 DEF Drain
        <4> QED BY <1>0, <2>0, <4>1 DEF Return, Unserved
      <3>2. CASE take # 0
        <4>1. take \in 1 .. Len(waiting)
          BY <3>0, <3>2 DEF Least
        <4>2. group' \in Seq(Singles) /\ waiting' \in Seq(Singles)
          <5> HIDE DEF take
          <5>1. group' = SubSeq(waiting, 1, take) /\ waiting' = SubSeq(waiting, take + 1, Len(waiting))
            BY <2>6, <3>2 DEF Drain, take
          <5> QED BY <3>0, <4>1, <5>1, DrainSplits
        <4> QED BY <1>0, <2>0, <2>6, <3>2, <4>2 DEF Drain
      <3> QED BY <3>1, <3>2
    <2>7. CASE TakeBatch(t)
      BY <1>0, <2>0, <2>7 DEF TakeBatch
    <2>8. CASE SyncAllocate(t)
      <3>1. matrix' \in [held : BOOLEAN, rows : Nat, capacity : Nat] /\ failed' \in BOOLEAN
        <4>1. CASE Fits(count) \/ NewCapacity(count) > Budget
          BY <1>0, <2>8, <4>1 DEF SyncAllocate
        <4>2. CASE ~Fits(count) /\ ~(NewCapacity(count) > Budget)
          <5>1. NewCapacity(count) \in Nat
            BY <1>0, <4>2, CapacityFits
          <5>2. \/ /\ matrix' = [held |-> TRUE, rows |-> 0, capacity |-> NewCapacity(count)]
                   /\ failed' = FALSE
                \/ matrix' = NoMatrix /\ failed' = TRUE
            BY <2>8, <4>2 DEF SyncAllocate
          <5>3. [held |-> TRUE, rows |-> 0, capacity |-> NewCapacity(count)]
                   \in [held : BOOLEAN, rows : Nat, capacity : Nat]
            BY <5>1
          <5>4. NoMatrix \in [held : BOOLEAN, rows : Nat, capacity : Nat]
            BY DEF NoMatrix
          <5> QED BY <5>2, <5>3, <5>4, Zenon
        <4> QED BY <4>1, <4>2
      <3>2. target' \in 0 .. MaxCount
        BY <1>0, <2>8 DEF SyncAllocate
      <3> QED BY <1>0, <2>0, <2>8, <3>1, <3>2 DEF SyncAllocate
    <2>9. CASE Upload(t)
      <3>1. Least(matrix.rows + UploadChunk, target) \in Nat
        BY <1>0 DEF Least
      <3>2. matrix' \in [held : BOOLEAN, rows : Nat, capacity : Nat] /\ failed' \in BOOLEAN
        BY <1>0, <2>9, <3>1 DEF Upload
      <3> QED BY <1>0, <2>0, <2>9, <3>2 DEF Upload
    <2>10. CASE Product(t)
      <3>1. failed' \in BOOLEAN
        BY <1>0, <2>10 DEF Product
      <3> QED BY <1>0, <2>0, <2>10, <3>1 DEF Product
    <2>11. CASE SettleOk(t)
      <3>1. DOMAIN reply' = Threads /\ \A u \in Threads : reply'[u].served \in BOOLEAN
        BY <1>0, <2>11 DEF SettleOk
      <3>2. target' \in 0 .. MaxCount /\ group' \in Seq(Singles)
        BY <2>11 DEF SettleOk
      <3> QED BY <1>0, <2>0, <2>11, <3>1, <3>2 DEF SettleOk
    <2>12. CASE SettleErr(t)
      <3>1. DOMAIN reply' = Threads /\ \A u \in Threads : reply'[u].served \in BOOLEAN
        BY <1>0, <2>12 DEF SettleErr
      <3>2. target' \in 0 .. MaxCount /\ group' \in Seq(Singles)
        BY <2>12 DEF SettleErr
      <3>3. matrix' \in [held : BOOLEAN, rows : Nat, capacity : Nat]
        BY <2>12 DEF SettleErr, NoMatrix
      <3> QED BY <1>0, <2>0, <2>12, <3>1, <3>2, <3>3 DEF SettleErr
    <2> QED BY <1>3, <2>1, <2>2, <2>3, <2>4, <2>5, <2>6, <2>7, <2>8, <2>9, <2>10, <2>11, <2>12 DEF Run
  <1> QED BY <1>1, <1>2, <1>3 DEF Next

\* Uploads keep fitting: sync reads the count and makes the mirror large enough
\* before it uploads, and nothing shrinks either while it does.
LEMMA FitKept == ASSUME IndInv, Next PROVE UploadsFit'
  <1> USE Constants
  <1>0. TypeOK /\ UploadsFit /\ Excludes
    BY Parts
  <1>a. /\ count \in Nat /\ target \in Nat /\ matrix.rows \in Nat /\ matrix.capacity \in Nat
        /\ matrix.capacity <= Budget /\ matrix.rows <= matrix.capacity
    BY <1>0 DEF TypeOK, UploadsFit
  <1>1. CASE AddVector
    BY <1>0, <1>1, <1>a DEF AddVector, UploadsFit
  <1>2. CASE Reopen
    <2>1. matrix'.capacity = 0 /\ matrix'.rows = 0 /\ \A u \in Threads : pc'[u] = "idle"
      BY <1>2 DEF Reopen, NoMatrix
    <2> QED BY <2>1 DEF UploadsFit
  <1>3. ASSUME NEW t \in Threads, Begin(t) \/ Lock(t) \/ Run(t) PROVE UploadsFit'
    <2>0. /\ DOMAIN pc = Threads
          /\ \A u \in Threads \ {t} : pc'[u] = pc[u]
      BY <1>0, <1>3, PcMoves DEF TypeOK
    <2>1. ASSUME UNCHANGED <<count, matrix, target>>, pc'[t] = "upload" => pc[t] = "upload"
          PROVE  UploadsFit'
      BY <1>0, <2>0, <2>1 DEF UploadsFit
    <2>2. ASSUME Inside(t), matrix'.capacity <= Budget, matrix'.rows <= matrix'.capacity,
                 pc'[t] = "upload" => matrix'.held /\ target' <= matrix'.capacity /\ target' <= count'
          PROVE  UploadsFit'
      <3>1. \A u \in Threads \ {t} : ~Inside(u)
        BY <1>0, <2>2 DEF Excludes
      <3>2. \A u \in Threads \ {t} : pc'[u] # "upload"
        BY <2>0, <3>1 DEF Inside
      <3> QED BY <2>2, <3>2 DEF UploadsFit
    <2>3. CASE Begin(t) \/ Lock(t) \/ Push(t) \/ TakeBatch(t) \/ TakeReply(t) \/ GiveUp(t) \/ Drain(t)
      <3>1. UNCHANGED <<count, matrix, target>>
        BY <2>3 DEF Begin, Enter, Lock, Push, TakeBatch, TakeReply, GiveUp, Drain
      <3>2. pc'[t] # "upload"
        <4>1. CASE Begin(t) \/ Lock(t) \/ Push(t) \/ TakeBatch(t)
          BY <2>0, <4>1 DEF Begin, Enter, Lock, Push, TakeBatch
        <4>2. CASE TakeReply(t) \/ GiveUp(t)
          BY <2>0, <4>2 DEF TakeReply, GiveUp, Return
        <4>3. CASE Drain(t)
          BY <2>0, <4>3 DEF Drain, Return
        <4> QED BY <2>3, <4>1, <4>2, <4>3
      <3> QED BY <2>1, <3>1, <3>2
    <2>4. CASE SyncAllocate(t)
      <3>1. Inside(t) /\ target' = count /\ count' = count
        BY <2>4 DEF SyncAllocate, Inside
      <3>2. CASE Fits(count)
        <4>1. matrix' = matrix /\ matrix.held /\ count <= matrix.capacity
          BY <2>4, <3>2 DEF SyncAllocate, Fits
        <4> QED BY <1>a, <2>2, <3>1, <4>1
      <3>3. CASE ~Fits(count) /\ NewCapacity(count) > Budget
        <4>1. matrix' = matrix /\ pc'[t] = "settle"
          BY <2>0, <2>4, <3>3 DEF SyncAllocate
        <4> QED BY <1>a, <2>2, <3>1, <4>1
      <3>4. CASE ~Fits(count) /\ ~(NewCapacity(count) > Budget)
        <4>1. \/ matrix' = [held |-> TRUE, rows |-> 0, capacity |-> NewCapacity(count)]
              \/ matrix' = NoMatrix /\ pc'[t] = "settle"
          BY <2>0, <2>4, <3>4 DEF SyncAllocate
        <4>2. CASE matrix' = NoMatrix /\ pc'[t] = "settle"
          <5>1. matrix'.capacity = 0 /\ matrix'.rows = 0
            BY <4>2 DEF NoMatrix
          <5> QED BY <2>2, <3>1, <4>2, <5>1
        <4>3. CASE matrix' = [held |-> TRUE, rows |-> 0, capacity |-> NewCapacity(count)]
          <5>1. NewCapacity(count) \in Nat /\ count <= NewCapacity(count) /\ NewCapacity(count) <= Budget
            BY <1>a, <3>4, CapacityFits
          <5>2. matrix'.held = TRUE /\ matrix'.rows = 0 /\ matrix'.capacity = NewCapacity(count)
            BY <4>3
          <5>3. matrix'.capacity <= Budget /\ matrix'.rows <= matrix'.capacity
            BY <5>1, <5>2
          <5>4. matrix'.held /\ target' <= matrix'.capacity /\ target' <= count'
            BY <1>a, <3>1, <5>1, <5>2
          <5> QED BY <2>2, <3>1, <5>3, <5>4
        <4> QED BY <4>1, <4>2, <4>3
      <3> QED BY <3>2, <3>3, <3>4
    <2>5. CASE Upload(t)
      <3> DEFINE end == Least(matrix.rows + UploadChunk, target)
      <3>1. /\ Inside(t) /\ target' = target /\ count' = count
            /\ matrix.held /\ target <= matrix.capacity /\ target <= count
        BY <1>0, <2>5 DEF Upload, Inside, UploadsFit
      <3>2. end \in Nat /\ end <= target
        BY <1>a DEF Least
      <3>3. matrix' = matrix \/ matrix' = [matrix EXCEPT !.rows = end]
        BY <2>5 DEF Upload
      <3> HIDE DEF end
      <3>4. /\ matrix'.held = matrix.held /\ matrix'.capacity = matrix.capacity
            /\ matrix'.rows = matrix.rows \/ matrix'.rows = end
        BY <1>0, <3>3 DEF TypeOK
      <3> QED BY <1>a, <2>2, <3>1, <3>2, <3>4
    <2>6. CASE Product(t)
      BY <2>1, <2>6 DEF Product
    <2>7. CASE SettleOk(t)
      <3>1. Inside(t) /\ matrix' = matrix /\ pc'[t] = "loop"
        BY <2>0, <2>7 DEF SettleOk, Inside
      <3> QED BY <1>a, <2>2, <3>1
    <2>8. CASE SettleErr(t)
      <3>1. Inside(t) /\ matrix'.capacity = 0 /\ matrix'.rows = 0 /\ pc'[t] = "loop"
        BY <2>0, <2>8 DEF SettleErr, Inside, NoMatrix
      <3> QED BY <1>a, <2>2, <3>1
    <2> QED BY <1>3, <2>3, <2>4, <2>5, <2>6, <2>7, <2>8 DEF Run
  <1> QED BY <1>1, <1>2, <1>3 DEF Next

\* The mutex excludes, and a group belongs to the thread that works on it.
LEMMA ExclusionKept == ASSUME IndInv, Next PROVE Excludes' /\ GroupIsHeld'
  <1> USE Constants
  <1>0. TypeOK /\ Excludes /\ GroupIsHeld
    BY Parts
  <1>1. CASE AddVector
    BY <1>0, <1>1 DEF AddVector, Excludes, GroupIsHeld, Inside, Working
  <1>2. CASE Reopen
    BY <1>0, <1>2 DEF Reopen, Excludes, GroupIsHeld, Inside, Working
  <1>3. ASSUME NEW t \in Threads, Begin(t) \/ Lock(t) \/ Run(t)
        PROVE  Excludes' /\ GroupIsHeld'
    <2>0. /\ DOMAIN pc = Threads
          /\ \A u \in Threads \ {t} : pc'[u] = pc[u]
      BY <1>0, <1>3, PcMoves DEF TypeOK
    <2>1. ASSUME Inside(t) PROVE \A u \in Threads \ {t} : ~Inside(u)
      BY <1>0, <2>1 DEF Excludes
    \* A step inside the mutex, of one that keeps it or leaves it.
    <2>2. ASSUME Inside(t), Working(t)' \/ group' = <<>>, Inside(t)' => holder' = t
          PROVE  Excludes' /\ GroupIsHeld'
      <3>1. \A u \in Threads \ {t} : ~Inside(u)'
        BY <2>0, <2>1, <2>2 DEF Inside
      <3>2. Excludes'
        BY <2>2, <3>1 DEF Excludes
      <3>3. GroupIsHeld'
        BY <2>2 DEF GroupIsHeld
      <3> QED BY <3>2, <3>3
    \* A thread inside that is not working has no group to lose.
    <2>3. ASSUME pc[t] = "loop" PROVE group = <<>>
      BY <1>0, <2>1, <2>3 DEF GroupIsHeld, Inside, Working
    <2>4. CASE Begin(t) \/ Push(t)
      <3>1. ~Inside(t) /\ ~Inside(t)' /\ UNCHANGED <<holder, group>>
        BY <2>0, <2>4 DEF Begin, Enter, Push, Inside
      <3> QED BY <1>0, <2>0, <3>1 DEF Excludes, GroupIsHeld, Inside, Working
    <2>5. CASE Lock(t)
      <3>1. /\ holder = NoOne /\ holder' = t /\ pc[t] = "lock" /\ pc'[t] = "loop"
            /\ group' = group
        BY <2>0, <2>5 DEF Lock
      <3>2. \A u \in Threads : ~Inside(u)
        BY <1>0, <3>1 DEF Excludes
      <3> QED BY <1>0, <2>0, <3>1, <3>2 DEF Excludes, GroupIsHeld, Inside, Working
    <2>6. CASE TakeReply(t) \/ GiveUp(t)
      <3>1. pc[t] = "loop" /\ pc'[t] = "idle" /\ group' = group
        BY <2>0, <2>6 DEF TakeReply, GiveUp, Return
      <3> QED BY <2>2, <2>3, <3>1 DEF Inside
    <2>7. CASE Drain(t)
      <3>0. pc[t] = "loop" /\ holder = t
        BY <1>0, <2>7 DEF Drain, Excludes, Inside
      <3>1. \/ pc'[t] = "idle" /\ group' = group
            \/ pc'[t] = "sync" /\ holder' = holder
        BY <2>0, <2>7 DEF Drain, Return
      <3> QED BY <2>2, <2>3, <3>0, <3>1 DEF Inside, Working
    <2>8. CASE TakeBatch(t)
      <3>1. pc[t] = "loop" /\ holder = t /\ pc'[t] = "sync" /\ holder' = holder
        BY <1>0, <2>0, <2>8 DEF TakeBatch, Excludes, Inside
      <3> QED BY <2>2, <3>1 DEF Inside, Working
    <2>9. CASE SyncAllocate(t) \/ Upload(t) \/ Product(t)
      <3>1. Inside(t) /\ holder' = holder
        BY <2>9 DEF SyncAllocate, Upload, Product, Inside
      <3>2. pc'[t] \in {"upload", "settle"}
        <4>1. CASE SyncAllocate(t)
          BY <2>0, <4>1 DEF SyncAllocate
        <4>2. CASE Upload(t)
          BY <2>0, <4>2 DEF Upload
        <4>3. CASE Product(t)
          BY <2>0, <4>3 DEF Product
        <4> QED BY <2>9, <4>1, <4>2, <4>3
      <3> QED BY <1>0, <2>2, <3>1, <3>2 DEF Excludes, Working
    <2>10. CASE SettleOk(t) \/ SettleErr(t)
      <3>1. Inside(t) /\ holder' = holder /\ group' = <<>>
        BY <2>10 DEF SettleOk, SettleErr, Inside
      <3> QED BY <1>0, <2>2, <3>1 DEF Excludes
    <2> QED BY <1>3, <2>4, <2>5, <2>6, <2>7, <2>8, <2>9, <2>10 DEF Run
  <1> QED BY <1>1, <1>2, <1>3 DEF Next

\* No step loses an unanswered request.
LEMMA QueueKept == ASSUME IndInv, Next PROVE Queued'
  <1> USE Constants
  <1>0. TypeOK /\ Queued /\ GroupIsHeld /\ Excludes
    BY Parts
  <1>1. CASE AddVector
    BY <1>0, <1>1 DEF AddVector, Queued, InQueue, InGroup
  <1>2. CASE Reopen
    BY <1>2 DEF Reopen, Queued
  <1>3. ASSUME NEW t \in Threads, Begin(t) \/ Lock(t) \/ Run(t), ~disabled' PROVE Queued'
    <2>0. /\ DOMAIN pc = Threads /\ DOMAIN reply = Threads
          /\ \A u \in Threads \ {t} : pc'[u] = pc[u]
      BY <1>0, <1>3, PcMoves DEF TypeOK
    <2>1. ~disabled
      BY <1>3 DEF Begin, Enter, Lock, Run, Push, TakeReply, GiveUp, Drain, TakeBatch,
                  SyncAllocate, Upload, Product, SettleOk, SettleErr
    <2>2. waiting \in Seq(Singles)
      BY <1>0, <2>1 DEF TypeOK
    \* A step that keeps requests and replies, and does not put its thread in line.
    <2>3. ASSUME \A u \in Singles : InQueue(u) \/ InGroup(u) => InQueue(u)' \/ InGroup(u)',
                 \A u \in Singles \ {t} : reply'[u] = reply[u],
                 pc'[t] \in {"idle", "push"}
                    \/ (pc[t] \notin {"idle", "push"} /\ reply'[t] = reply[t]) \/ t \in Batchers
          PROVE  Queued'
      BY <1>0, <2>0, <2>1, <2>3 DEF Queued
    <2>4. CASE Begin(t)
      <3>1. pc'[t] = "push" \/ t \in Batchers
        BY <2>0, <2>4 DEF Begin, Enter
      <3>2. UNCHANGED <<waiting, group, reply>>
        BY <2>4 DEF Begin, Enter
      <3> QED BY <2>3, <3>1, <3>2 DEF InQueue, InGroup
    <2>5. CASE Push(t)
      <3>1. t \in Singles /\ waiting' = Append(waiting, t) /\ group' = group
        BY <1>0, <2>5 DEF Push, TypeOK
      <3>2. InQueue(t)' /\ \A u : InQueue(u) => InQueue(u)'
        BY <2>2, <3>1, PushKeeps
      <3>3. \A u \in Singles \ {t} : reply'[u] = reply[u] /\ pc'[u] = pc[u]
        BY <2>0, <2>5 DEF Push
      <3>4. \A u \in Singles : InGroup(u) => InGroup(u)'
        BY <3>1 DEF InGroup
      <3> QED BY <1>0, <2>1, <3>2, <3>3, <3>4 DEF Queued
    <2>6. CASE Lock(t)
      <3>1. pc[t] = "lock" /\ UNCHANGED <<waiting, group, reply>>
        BY <2>6 DEF Lock
      <3> QED BY <2>3, <3>1 DEF InQueue, InGroup
    <2>7. CASE TakeReply(t)
      <3>1. /\ UNCHANGED <<waiting, group>> /\ pc'[t] = "idle"
            /\ \A u \in Singles \ {t} : reply'[u] = reply[u]
        BY <2>0, <2>7 DEF TakeReply, Return
      <3> QED BY <2>3, <3>1 DEF InQueue, InGroup
    <2>8. CASE GiveUp(t)
      BY <2>1, <2>8 DEF GiveUp
    <2>9. CASE Drain(t)
      <3> DEFINE take == Least(Len(waiting), MaxGroup)
      <3>1. CASE take = 0
        <4>1. Return(t) /\ UNCHANGED <<waiting, group>>
          BY <2>9, <3>1 DEF Drain
        <4>2. pc'[t] = "idle" /\ \A u \in Singles \ {t} : reply'[u] = reply[u]
          BY <2>0, <4>1 DEF Return
        <4> QED BY <2>3, <4>1, <4>2 DEF InQueue, InGroup
      <3>2. CASE take # 0
        <4>0. group = <<>> /\ pc[t] = "loop"
          BY <1>0, <2>9 DEF Drain, GroupIsHeld, Excludes, Inside, Working
        <4>1. take \in 1 .. Len(waiting)
          BY <2>2, <3>2 DEF Least
        <4>2. /\ group' = SubSeq(waiting, 1, take)
              /\ waiting' = SubSeq(waiting, take + 1, Len(waiting))
              /\ reply' = reply
          BY <2>9, <3>2 DEF Drain
        <4> HIDE DEF take
        <4>3. \A u : InQueue(u) => InQueue(u)' \/ InGroup(u)'
          BY <2>2, <4>1, <4>2, DrainSplits
        <4>4. \A u : ~InGroup(u)
          BY <4>0 DEF InGroup
        <4> QED BY <2>3, <4>0, <4>2, <4>3, <4>4
      <3> QED BY <3>1, <3>2
    <2>10. CASE TakeBatch(t)
      <3>1. /\ t \in Batchers /\ pc[t] = "loop" /\ group' = <<>>
            /\ waiting' = waiting /\ reply' = reply
        BY <2>10 DEF TakeBatch
      <3>2. group = <<>>
        BY <1>0, <3>1 DEF GroupIsHeld, Excludes, Inside, Working
      <3> QED BY <2>3, <3>1, <3>2 DEF InQueue, InGroup
    <2>11. CASE SyncAllocate(t) \/ Upload(t) \/ Product(t)
      <3>1. pc[t] \in {"sync", "upload"} /\ UNCHANGED <<waiting, group, reply>>
        BY <2>11 DEF SyncAllocate, Upload, Product
      <3> QED BY <2>3, <3>1 DEF InQueue, InGroup
    <2>12. CASE SettleOk(t)
      <3>1. pc[t] = "settle" /\ pc'[t] = "loop" /\ waiting' = waiting
        BY <2>0, <2>12 DEF SettleOk
      <3>2. ASSUME NEW u \in Singles, ~reply'[u].served
            PROVE  ~InGroup(u) /\ reply'[u] = reply[u]
        <4>1. reply'[u] = IF InGroup(u) THEN [served |-> TRUE, scores |-> RowOf(u)]
                          ELSE IF u = t /\ u \in Batchers THEN [served |-> TRUE, scores |-> out]
                          ELSE reply[u]
          BY <2>12 DEF SettleOk, Served
        <4> QED BY <3>2, <4>1
      <3>3. \A u \in Singles : InQueue(u) => InQueue(u)'
        BY <3>1 DEF InQueue
      <3>4. \A u \in Singles : pc'[u] \notin {"idle", "push"} => pc[u] \notin {"idle", "push"}
        BY <2>0, <3>1
      <3> QED BY <1>0, <2>1, <3>2, <3>3, <3>4 DEF Queued
    <2>13. CASE SettleErr(t)
      BY <1>3, <2>13 DEF SettleErr
    <2> QED BY <1>3, <2>4, <2>5, <2>6, <2>7, <2>8, <2>9, <2>10, <2>11, <2>12, <2>13 DEF Run
  <1>4. CASE disabled'
    BY <1>4 DEF Queued
  <1> QED BY <1>1, <1>2, <1>3, <1>4 DEF Next

\* IndInv is an invariant of the mirror.
THEOREM Inductive == Spec => []IndInv
  <1>1. IndInv /\ [Next]_vars => IndInv'
    <2>1. ASSUME IndInv, Next PROVE IndInv'
      BY <2>1, TypesKept, FitKept, ExclusionKept, QueueKept
         DEF IndInv, Excludes, GroupIsHeld, Queued
    <2> QED BY <2>1, StutterKeeps
  <1> QED BY InitIndInv, <1>1, PTL DEF Spec

\* The branch of scores that finds nothing queued is unreachable, for any number
\* of searches and any group size (gpu_exact.rs: "an unanswered search is queued").
THEOREM NeverEmptyHanded == Spec => []NeverFindsNothing
  <1>1. IndInv => NeverFindsNothing
    <2> SUFFICES ASSUME IndInv, NEW t \in Singles,
                        pc[t] = "loop", ~reply[t].served, ~disabled
                 PROVE  InQueue(t)
      BY DEF NeverFindsNothing
    <2>1. Excludes /\ GroupIsHeld /\ Queued
      BY Parts
    <2>2. group = <<>>
      BY <2>1, Constants DEF Excludes, GroupIsHeld, Inside, Working
    <2>3. ~InGroup(t)
      BY <2>2 DEF InGroup
    <2> QED BY <2>1, <2>3 DEF Queued
  <1> QED BY <1>1, Inductive, PTL

\* The mirror never exceeds its budget, and sync never uploads a row that does
\* not fit the mirror or that the store does not hold.
THEOREM UploadsAlwaysFit == Spec => []UploadsFit
  BY Inductive, PTL DEF IndInv

=============================================================================
