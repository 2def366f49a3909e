----------------------------- MODULE GpuMirror -----------------------------
(***************************************************************************)
(* The resident GPU mirror of a store's vectors                            *)
(* (turbomemory_storage/src/gpu_exact.rs over turbomemory_gpu/src/lib.rs). *)
(*                                                                         *)
(* One thread at a time holds the device (the `matrix` mutex).  A search   *)
(* of one query queues a request, and whoever gets the device answers the  *)
(* requests queued so far with one product; a search of several queries    *)
(* takes the device for itself.  Before a product the mirror is brought up *)
(* to the number of vectors the store holds.  Any device error switches    *)
(* the mirror off for good and sends every queued search to the CPU path.  *)
(*                                                                         *)
(* The score of query q against the vector at offset r - 1 is the pair     *)
(* <<q, r>>, so an answer that was cut from the wrong place of a product's *)
(* output, or given to the wrong search, is a different value.             *)
(***************************************************************************)
EXTENDS Naturals, Sequences, FiniteSets

CONSTANTS
    Singles,        \* threads that search one query at a time
    Batchers,       \* threads that search a batch of queries
    Questions,      \* per thread, the query sequences it may search for
    Cpu,            \* the answer "use the CPU path" (None in the code)
    NoOne,          \* the device is free
    MaxCount,       \* bound: vectors the writers add
    MaxGroup,       \* most requests answered by one product
    MinCapacity,    \* smallest mirror, in rows
    Budget,         \* rows the memory budget has room for
    UploadChunk,    \* rows uploaded per device copy
    BatchScores     \* scores one batch product may return

Threads == Singles \cup Batchers

ASSUME ConstantsAssumption ==
    /\ MaxCount \in Nat /\ MaxGroup \in Nat \ {0} /\ MinCapacity \in Nat \ {0}
    /\ Budget \in Nat /\ UploadChunk \in Nat \ {0} /\ BatchScores \in Nat
    /\ \A t \in Singles : \A qs \in Questions[t] : Len(qs) = 1
    /\ NoOne \notin Threads /\ Singles \cap Batchers = {}

VARIABLES
    count,      \* VectorStore::count
    matrix,     \* the mirror: [held, rows, capacity]; held is Option::is_some
    holder,     \* the thread inside the matrix mutex
    waiting,    \* the queued requests, named by the thread that waits for each
    reply,      \* per request: [served, scores]
    disabled,
    pc,         \* where each thread is
    query,      \* the queries of its search
    since,      \* count when the search began (history)
    group,      \* the queries' owners drained for the current product
    target,     \* the count that sync read
    out,        \* score rows the device has produced for the holder
    failed      \* the device call of the holder returned an error

vars == <<count, matrix, holder, waiting, reply, disabled, pc, query, since, group,
          target, out, failed>>
device == <<matrix, group, target, out, failed>>

NoMatrix == [held |-> FALSE, rows |-> 0, capacity |-> 0]
Unserved == [served |-> FALSE, scores |-> Cpu]
InQueue(t) == \E i \in 1 .. Len(waiting) : waiting[i] = t
InGroup(t) == \E i \in 1 .. Len(group) : group[i] = t
Least(a, b) == IF a < b THEN a ELSE b
Most(a, b) == IF a < b THEN b ELSE a

Init ==
    /\ count = 0 /\ matrix = NoMatrix /\ holder = NoOne /\ waiting = <<>>
    /\ reply = [t \in Threads |-> Unserved]
    /\ disabled = FALSE
    /\ pc = [t \in Threads |-> "idle"]
    /\ query = [t \in Threads |-> <<>>]
    /\ since = [t \in Threads |-> 0]
    /\ group = <<>> /\ target = 0 /\ out = <<>> /\ failed = FALSE

-----------------------------------------------------------------------------
(* The backend: what a product returns.                                    *)

\* The rows of the matrix against one query (gemv, or the CPU loop).
resident_scores(rows, q) == [r \in 1 .. rows |-> <<q, r>>]

\* The CPU fallback's batch: one resident_scores after another.
resident_scores_batch_cpu(rows, qs) ==
    LET upto[i \in 0 .. Len(qs)] ==
          IF i = 0 THEN <<>> ELSE upto[i - 1] \o resident_scores(rows, qs[i])
    IN  upto[Len(qs)]

\* The CUDA batch: gemm fills a column-major rows x count matrix, so entry k
\* is row (k mod rows) of the column of query (k div rows).
resident_scores_batch_cuda_rowwise(rows, qs) ==
    [k \in 1 .. rows * Len(qs) |->
        <<qs[((k - 1) % Len(qs)) + 1], ((k - 1) \div Len(qs)) + 1>>]

resident_scores_batch_cuda(rows, qs) ==
    [k \in 1 .. rows * Len(qs) |->
        <<qs[((k - 1) \div rows) + 1], ((k - 1) % rows) + 1>>]

\* scores.chunks_exact(rows): one row per query.
chunks_exact(scores, rows) ==
    [i \in 1 .. Len(scores) \div rows |-> SubSeq(scores, (i - 1) * rows + 1, i * rows)]

\* ResidentMatrix::check_append.
check_append(m, added) == m.rows + added <= m.capacity

-----------------------------------------------------------------------------
(* VectorStore::put on a write path, concurrent with every search.         *)
AddVector ==
    /\ count < MaxCount
    /\ count' = count + 1
    /\ UNCHANGED <<matrix, holder, waiting, reply, disabled, pc, query, since,
                   group, target, out, failed>>

\* Entry of scores / scores_batch: the flag is read before anything is locked.
Enter(t, qs) ==
    /\ pc[t] = "idle"
    /\ ~disabled
    /\ query' = [query EXCEPT ![t] = qs]
    /\ since' = [since EXCEPT ![t] = count]
    /\ pc' = [pc EXCEPT ![t] = IF t \in Singles THEN "push" ELSE "lock"]
    /\ UNCHANGED <<count, matrix, holder, waiting, reply, disabled, group, target, out, failed>>

\* scores: queue the request behind a fresh reply.
Push(t) ==
    /\ pc[t] = "push"
    /\ waiting' = Append(waiting, t)
    /\ reply' = [reply EXCEPT ![t] = Unserved]
    /\ pc' = [pc EXCEPT ![t] = "lock"]
    /\ UNCHANGED <<count, holder, disabled, query, since, device>>

LockShared(t) ==
    /\ pc[t] = "lock"
    /\ holder' = t
    /\ pc' = [pc EXCEPT ![t] = "loop"]
    /\ UNCHANGED <<count, waiting, reply, disabled, query, since, device>>

Lock(t) ==
    /\ pc[t] = "lock" /\ holder = NoOne
    /\ holder' = t
    /\ pc' = [pc EXCEPT ![t] = "loop"]
    /\ UNCHANGED <<count, waiting, reply, disabled, query, since, device>>

ReturnStillHeld(t) ==
    /\ pc' = [pc EXCEPT ![t] = "idle"]
    /\ reply' = [reply EXCEPT ![t] = Unserved]
    /\ query' = [query EXCEPT ![t] = <<>>]
    /\ since' = [since EXCEPT ![t] = 0]
    /\ UNCHANGED holder

\* Leaving scores / scores_batch drops the mutex guard and the request.
Return(t) ==
    /\ pc' = [pc EXCEPT ![t] = "idle"]
    /\ holder' = NoOne
    /\ reply' = [reply EXCEPT ![t] = Unserved]
    /\ query' = [query EXCEPT ![t] = <<>>]
    /\ since' = [since EXCEPT ![t] = 0]

\* The search has been answered: return what the reply holds.
TakeReply(t) ==
    /\ pc[t] = "loop" /\ reply[t].served
    /\ Return(t)
    /\ UNCHANGED <<count, waiting, disabled, device>>

\* The mirror was switched off while this search was getting in line.
GiveUp(t) ==
    /\ pc[t] = "loop" /\ disabled /\ ~reply[t].served
    /\ waiting' = SelectSeq(waiting, LAMBDA r : r # t)
    /\ Return(t)
    /\ UNCHANGED <<count, disabled, device>>

\* Drain the requests one product will answer; none queued is the branch the
\* code calls unreachable.
Drain(t) ==
    /\ pc[t] = "loop" /\ t \in Singles /\ ~reply[t].served /\ ~disabled
    /\ LET take == Least(Len(waiting), MaxGroup) IN
         IF take = 0
         THEN Return(t) /\ UNCHANGED <<waiting, group, out>>
         ELSE /\ group' = SubSeq(waiting, 1, take)
              /\ waiting' = SubSeq(waiting, take + 1, Len(waiting))
              /\ out' = <<>>
              /\ pc' = [pc EXCEPT ![t] = "sync"]
              /\ UNCHANGED <<holder, reply, query, since>>
    /\ UNCHANGED <<count, matrix, disabled, target, failed>>

\* scores_batch has the device: its own queries are the work.
TakeBatch(t) ==
    /\ pc[t] = "loop" /\ t \in Batchers /\ ~reply[t].served /\ ~disabled
    /\ group' = <<>> /\ out' = <<>>
    /\ pc' = [pc EXCEPT ![t] = "sync"]
    /\ UNCHANGED <<count, matrix, holder, waiting, reply, disabled, query, since, target,
                   failed>>

\* Room to grow by half, unless the budget only allows an exact fit.
NewCapacity(n) ==
    LET roomy == Most(n + n \div 2, MinCapacity) IN IF roomy > Budget THEN Most(n, 1) ELSE roomy

FitsOnceHeld(n) == matrix.held
Fits(n) == matrix.held /\ n <= matrix.capacity

\* sync: read the count, and allocate when the mirror is missing or too small.
\* The old allocation is freed first; a device without memory is an error.
SyncAllocate(t) ==
    /\ pc[t] = "sync"
    /\ target' = count
    /\ IF Fits(count)
       THEN UNCHANGED matrix /\ failed' = FALSE
       ELSE IF NewCapacity(count) > Budget
       THEN UNCHANGED matrix /\ failed' = TRUE
       ELSE \/ /\ matrix' = [held |-> TRUE, rows |-> 0, capacity |-> NewCapacity(count)]
               /\ failed' = FALSE
            \/ matrix' = NoMatrix /\ failed' = TRUE
    /\ pc' = [pc EXCEPT ![t] = IF failed' THEN "settle" ELSE "upload"]
    /\ UNCHANGED <<count, holder, waiting, reply, disabled, query, since, group, out>>

\* sync: one chunk of the tail, under the store's read view; the copy may fail,
\* and check_append refuses rows that do not fit.
Upload(t) ==
    /\ pc[t] = "upload" /\ matrix.rows < target
    /\ LET end == Least(matrix.rows + UploadChunk, target)
           added == end - matrix.rows
       IN  \/ /\ end <= count /\ check_append(matrix, added)
              /\ matrix' = [matrix EXCEPT !.rows = end]
              /\ UNCHANGED <<failed, pc>>
           \/ /\ failed' = TRUE
              /\ pc' = [pc EXCEPT ![t] = "settle"]
              /\ UNCHANGED matrix
    /\ UNCHANGED <<count, holder, waiting, reply, disabled, query, since, group, target, out>>

\* The queries of the next product, in order: the whole group's for scores, the
\* next per_group of the thread's own for scores_batch.
NextQueries(t) ==
    IF t \in Singles THEN [i \in 1 .. Len(group) |-> query[group[i]][1]]
    ELSE SubSeq(query[t], Len(out) + 1,
                Least(Len(query[t]), Len(out) + Most(BatchScores \div matrix.rows, 1)))

\* What whichever backend is running returns for them.
BackendScores(t, rows, qs) ==
    IF t \in Singles /\ Len(qs) = 1 THEN {resident_scores(rows, qs[1])}
    ELSE {resident_scores_batch_cpu(rows, qs), resident_scores_batch_cuda(rows, qs)}

\* answer, and the loop of scores_batch: one product, its output cut into rows.
Product(t) ==
    /\ pc[t] = "upload" /\ matrix.rows >= target
    /\ \/ /\ matrix.rows = 0
          /\ out' = [i \in 1 .. Len(IF t \in Singles THEN group ELSE query[t]) |-> <<>>]
          /\ pc' = [pc EXCEPT ![t] = "settle"]
          /\ UNCHANGED failed
       \/ /\ matrix.rows > 0
          /\ LET qs == NextQueries(t) IN
             \E scores \in BackendScores(t, matrix.rows, qs) :
               /\ Len(scores) = matrix.rows * Len(qs)
               /\ out' = out \o chunks_exact(scores, matrix.rows)
               /\ pc' = [pc EXCEPT ![t] =
                           IF t \in Singles \/ Len(out') = Len(query[t]) THEN "settle" ELSE "upload"]
               /\ UNCHANGED failed
       \/ /\ matrix.rows > 0
          /\ failed' = TRUE
          /\ pc' = [pc EXCEPT ![t] = "settle"]
          /\ UNCHANGED out
    /\ UNCHANGED <<count, matrix, holder, waiting, reply, disabled, query, since, group, target>>

\* The request of a group at this place gets the score row at the same place.
RowOf(u) == <<out[CHOOSE i \in 1 .. Len(group) : group[i] = u]>>

ServedFirstOnly(u) == Len(group) > 0 /\ group[1] = u
Served(u) == InGroup(u)

\* settle with Ok, then every request of the group is marked served with its row;
\* a batch search returns all its rows.
SettleOk(t) ==
    /\ pc[t] = "settle" /\ ~failed
    /\ reply' = [u \in Threads |->
                  IF Served(u) THEN [served |-> TRUE, scores |-> RowOf(u)]
                  ELSE IF u = t /\ u \in Batchers THEN [served |-> TRUE, scores |-> out]
                  ELSE reply[u]]
    /\ pc' = [pc EXCEPT ![t] = "loop"]
    /\ group' = <<>> /\ out' = <<>> /\ target' = 0
    /\ UNCHANGED <<count, holder, matrix, waiting, disabled, query, since, failed>>

\* settle with Err: free the mirror, switch it off, send the queue to the CPU;
\* the group's requests are then marked served with no scores.
SettleErr(t) ==
    /\ pc[t] = "settle" /\ failed
    /\ matrix' = NoMatrix /\ disabled' = TRUE /\ waiting' = <<>>
    /\ reply' = [u \in Threads |->
                  IF InQueue(u) \/ InGroup(u) \/ (u = t /\ u \in Batchers)
                  THEN [served |-> TRUE, scores |-> Cpu] ELSE reply[u]]
    /\ pc' = [pc EXCEPT ![t] = "loop"]
    /\ group' = <<>> /\ out' = <<>> /\ target' = 0 /\ failed' = FALSE
    /\ UNCHANGED <<count, holder, query, since>>

\* Drop once no search is running, and new when the store is opened again.
Reopen ==
    /\ \A t \in Threads : pc[t] = "idle"
    /\ matrix.held \/ disabled
    /\ matrix' = NoMatrix /\ disabled' = FALSE /\ waiting' = <<>>
    /\ UNCHANGED <<count, holder, reply, pc, query, since, group, target, out, failed>>

Begin(t) == \E qs \in Questions[t] : Enter(t, qs)

Run(t) ==
    \/ Push(t) \/ TakeReply(t) \/ GiveUp(t) \/ Drain(t) \/ TakeBatch(t)
    \/ SyncAllocate(t) \/ Upload(t) \/ Product(t) \/ SettleOk(t) \/ SettleErr(t)

Next == AddVector \/ Reopen \/ \E t \in Threads : Begin(t) \/ Lock(t) \/ Run(t)

Spec == Init /\ [][Next]_vars

\* A thread that is running keeps running, and parking_lot's mutex is
\* eventually fair: a thread in line gets the device in the end.
FairSpec == Spec /\ \A t \in Threads : WF_vars(Run(t)) /\ SF_vars(Lock(t))

-----------------------------------------------------------------------------
(* Properties.                                                             *)

\* The queue's type matters while it is served; a mirror switched off only
\* discards it.
TypeOK ==
    /\ count \in 0 .. MaxCount
    /\ matrix \in [held : BOOLEAN, rows : Nat, capacity : Nat]
    /\ holder \in Threads \cup {NoOne}
    /\ ~disabled => waiting \in Seq(Singles)
    /\ DOMAIN reply = Threads /\ \A t \in Threads : reply[t].served \in BOOLEAN
    /\ disabled \in BOOLEAN /\ failed \in BOOLEAN
    /\ pc \in [Threads -> {"idle", "push", "lock", "loop", "sync", "upload", "settle"}]
    /\ \A t \in Threads : pc[t] = "push" => t \in Singles
    /\ group \in Seq(Singles)
    /\ target \in 0 .. MaxCount

\* The thread is past the mutex; it is in the middle of a product.
Inside(t) == pc[t] \in {"loop", "sync", "upload", "settle"}
Working(t) == pc[t] \in {"sync", "upload", "settle"}

\* A queued search that has not been answered is still in the queue or in the
\* group of the product under way, unless the mirror has been switched off;
\* so the branch of scores commented "unreachable: an unanswered search is
\* queued" is never taken.
NeverFindsNothing ==
    \A t \in Singles :
       pc[t] = "loop" /\ ~reply[t].served /\ ~disabled => InQueue(t)

\* The mirror stays within its budget, is large enough for what sync set out to
\* upload, and sync never sets out to upload a row the store does not hold: the
\* capacity error of resident_append and the "no longer holds rows" error of
\* sync cannot occur.
UploadsFit ==
    /\ matrix.capacity <= Budget /\ matrix.rows <= matrix.capacity
    /\ \A t \in Threads : pc[t] = "upload" => matrix.held /\ target <= matrix.capacity
                                              /\ target <= count

\* The inductive invariant behind the two: the mutex excludes, a group exists
\* only while its holder works on it, and an unanswered request is in the queue
\* or in that group.
IndInv ==
    /\ TypeOK /\ UploadsFit
    /\ \A t \in Threads : Inside(t) => holder = t
    /\ (\A t \in Threads : ~Working(t)) => group = <<>>
    /\ \A t \in Singles :
          pc[t] \notin {"idle", "push"} /\ ~reply[t].served /\ ~disabled
             => InQueue(t) \/ InGroup(t)

Asked == {t \in Threads : pc[t] # "idle" /\ ~reply[t].served}

Promise == INSTANCE MirrorPromise WITH
    off <- disabled,
    asked <- Asked,
    question <- [t \in Threads |-> IF t \in Asked THEN query[t] ELSE <<>>],
    since <- [t \in Threads |-> IF t \in Asked THEN since[t] ELSE 0],
    answer <- [t \in Threads |-> reply[t].scores]

\* Whatever the interleaving of searches, writers and device failures, each
\* search returns one answer, made of its own queries' rows over every vector
\* stored before it began, or goes to the CPU; and a mirror switched off answers
\* nothing more (gpu_exact.rs: "it must not bring the mirror back").
RefinesMirrorPromise == Promise!Spec

\* No search waits for ever, whether for the device or for another thread to
\* answer it.
EverySearchEnds == \A t \in Threads : pc[t] # "idle" ~> pc[t] = "idle"

=============================================================================
