----------------------------- MODULE Lifecycle -----------------------------
(***************************************************************************)
(* The threads of one engine, the locks they take, and how the engine goes *)
(* away: calls of the public interface, the update worker that applies a   *)
(* write for its caller, the background optimizer, shutdown, the release   *)
(* of the last reference, and the session state that every turn replaces.  *)
(*                                                                         *)
(* What a call does to the records is modelled elsewhere; here it is the   *)
(* sequence of its lock operations and hand-overs, in the order of the     *)
(* code.  A lock under which no other lock is taken (the log, the counters,*)
(* the maps of the metadata store, the text writer) cannot take part in a  *)
(* cycle of waiting and is left out; SegmentHolder's own RwLock is only    *)
(* ever read.                                                              *)
(***************************************************************************)
EXTENDS Naturals, Sequences, SequencesExt

CONSTANTS
    Callers,      \* threads that call the engine, each with a reference to it
    Optimizer,    \* the turbo-optimizer thread
    Updater,      \* the turbo-update thread
    Workloads,    \* [background, calls]: is there an optimizer, who calls what
    MaxCycles,    \* cycles the optimizer starts
    MAX_FACTS,    \* turns a session state remembers
    None

Threads == Callers \cup {Optimizer, Updater}
Locks == {"barrier", "write", "graph", "id", "payload", "scope", "vectors", "hot", "lists"}

VARIABLES
    calls,     \* the calls each caller has still to make
    code,      \* [run, at, step]: where in its Program each thread is, or Idle
    readers,   \* lock -> threads that hold it shared
    writer,    \* lock -> the thread that holds it, or waits alone to hold it
    refs,      \* threads that hold a strong reference to the engine
    freed,     \* the engine and all it owns has been dropped
    opt,       \* BackgroundOptimizer
    worker,    \* UpdateWorker
    answer,    \* what the update worker told each caller
    ccs,       \* the session state in memory
    saved,     \* the session state in the database
    local,     \* the session state a caller computed from
    stopped    \* callers whose shutdown has stopped the optimizer

locks == <<readers, writer>>
session == <<ccs, saved, local>>
vars == <<calls, code, readers, writer, refs, freed, opt, worker, answer, ccs, saved, local, stopped>>

-----------------------------------------------------------------------------
(* Steps: take a lock and keep it, take it and let it go again, let go.    *)

Step(do, lock) == [do |-> do, lock |-> lock]
Read(l) == Step("read", l)
Write(l) == Step("write", l)
Peek(l) == Step("peek", l)
Poke(l) == Step("poke", l)
Leave(ls) == Step("leave", ls)
Do(what) == Step(what, None)

(* Segments: who holds `lists` may take `hot`, never the other way round.   *)

seal_hot == <<Peek("hot"), Poke("hot"), Poke("lists"), Peek("lists")>>
process_one_seal == <<Poke("lists"), Peek("vectors"), Poke("lists"), Poke("lists"), Peek("lists")>>
compact_warm == <<Peek("lists"), Peek("vectors"), Poke("lists"), Peek("lists")>>
promote_hot == <<Peek("lists"), Peek("vectors"), Poke("hot")>> \o seal_hot \o <<Peek("lists")>>
process_one_merge == <<Peek("lists"), Peek("vectors"), Poke("lists"), Poke("lists"), Peek("lists")>>
point_count == <<Read("lists"), Peek("hot"), Leave({"lists"})>>

(* Writes: one at a time behind `write`, held out of a flush by `barrier`.   *)

Commit(body) == <<Read("barrier"), Write("write"), Peek("id")>> \o body \o <<Leave({"write", "barrier"})>>
submit_and_wait == <<Do("submit"), Do("await")>>
remove_from_indexes == <<Poke("payload"), Poke("scope"), Poke("id"), Poke("graph")>>
insert == <<Peek("graph")>> \o Commit(<<Poke("vectors")>> \o submit_and_wait)
delete_where == Commit(remove_from_indexes)
update ==
    <<Peek("id"), Peek("graph")>>
      \o Commit(<<Poke("vectors")>> \o remove_from_indexes \o submit_and_wait)
apply_batch ==
    <<Write("id"), Write("payload"), Poke("scope"), Leave({"payload", "id"}), Poke("graph"), Poke("hot")>>

(* Reads.                                                                   *)

find_record_by_id == <<Read("id"), Peek("vectors"), Leave({"id"})>>
exact_candidates == <<Read("vectors"), Peek("payload"), Leave({"vectors"})>>
ann_top_k == <<Peek("graph"), Read("hot"), Peek("vectors"), Leave({"hot"})>>
cognitive_search ==
    <<Peek("payload"), Peek("scope")>> \o ann_top_k
      \o <<Read("graph"), Peek("id"), Leave({"graph"}), Peek("id"), Peek("vectors"), Peek("id"), Poke("graph")>>
\* The id index kept while the graph is read.
resolve_beliefs_nested == <<Read("id"), Peek("graph"), Leave({"id"})>>
resolve_beliefs == <<Peek("id"), Peek("graph")>>

(* Maintenance.                                                             *)

transfer_unique_concepts ==
    <<Peek("vectors"), Write("graph")>> \o find_record_by_id \o <<Leave({"graph"})>>
commit_supersessions == <<Poke("graph")>> \o transfer_unique_concepts \o <<Peek("graph")>>
drain == <<Do("draining")>> \o process_one_seal \o process_one_merge \o <<Do("drained")>>
Tiering == <<Peek("hot")>> \o seal_hot \o <<Peek("lists")>> \o compact_warm \o promote_hot
evict == insert \o Commit(remove_from_indexes)
trigger_consolidation ==
    Tiering \o drain \o <<Poke("graph")>> \o evict \o commit_supersessions
      \o <<Poke("graph"), Peek("graph")>>
flush ==
    <<Write("barrier")>> \o process_one_seal
      \o <<Poke("vectors"), Peek("hot"), Peek("lists"), Peek("graph"), Do("save_ccs"), Leave({"barrier"})>>
run_consolidation == trigger_consolidation \o process_one_seal \o process_one_merge \o flush
idle_cycle == process_one_seal \o compact_warm \o process_one_merge

(* Endings.                                                                 *)

step_session == <<Do("read_ccs"), Do("store_ccs"), Do("save_ccs")>>
stop_unjoined == <<Do("stop")>>
stop == <<Do("stop"), Do("take_handle"), Do("join")>>
shutdown == stop \o <<Do("stopped")>> \o flush
\* The fields of StorageEngine are dropped in the order they are declared:
\* the optimizer, then the update worker.
DropEngine == stop \o <<Do("stop_worker"), Do("join_worker"), Do("freed")>>

\* What a thread runs, early returns included.
Program(run) ==
    CASE run = "insert" -> insert
      [] run = "insert_duplicate" -> <<Peek("graph")>> \o Commit(<<>>)
      [] run = "update" -> update
      [] run = "update_unknown" -> <<Peek("id")>>
      [] run = "update_lost" -> <<Peek("id"), Peek("graph")>> \o Commit(<<>>)
      [] run = "delete" -> delete_where
      [] run = "delete_unknown" -> Commit(<<>>)
      [] run = "find" -> find_record_by_id
      [] run = "exact" -> <<Peek("graph")>> \o exact_candidates
      [] run = "search" -> cognitive_search
      [] run = "beliefs" -> resolve_beliefs
      [] run = "count" -> point_count
      [] run = "consolidate" -> trigger_consolidation
      [] run = "flush" -> flush
      [] run = "session" -> step_session
      [] run = "shutdown" -> shutdown
      [] run = "batch" -> apply_batch \o <<Do("ack")>>
      [] run = "batch_below" -> apply_batch \o <<Peek("hot"), Do("ack")>>
      [] run = "batch_full" -> apply_batch \o seal_hot \o <<Do("ack")>>
      [] run = "idle_cycle" -> idle_cycle \o <<Do("unref")>>
      [] run = "full_cycle" -> run_consolidation \o idle_cycle \o <<Do("unref")>>
      [] run = "drop" -> DropEngine

Paths(call) ==
    CASE call = "insert" -> {"insert", "insert_duplicate"}
      [] call = "update" -> {"update", "update_unknown", "update_lost"}
      [] call = "delete" -> {"delete", "delete_unknown"}
      [] OTHER -> {call}

Idle == [run |-> None, at |-> 0, step |-> Do("idle")]
Place(program, n) == [run |-> program, at |-> n, step |-> Program(program)[n]]
Start(program) == Place(program, 1)

-----------------------------------------------------------------------------
Init ==
    \E w \in Workloads :
        /\ calls = w.calls
        /\ code = [t \in Threads |-> Idle]
        /\ readers = [l \in Locks |-> {}]
        /\ writer = [l \in Locks |-> None]
        /\ refs = Callers
        /\ freed = FALSE
        /\ opt = [running |-> w.background, sent |-> FALSE, handle |-> w.background, joining |-> {}, draining |-> FALSE,
                  at |-> IF w.background THEN "loop" ELSE "ended", cycles |-> 0]
        /\ worker = [running |-> TRUE, queue |-> <<>>, serving |-> None, ended |-> FALSE]
        /\ answer = [c \in Threads |-> None]
        /\ ccs = <<>> /\ saved = <<>> /\ local = [t \in Threads |-> <<>>]
        /\ stopped = {}

At(t, do) == code[t].step.do = do
lockOf(t) == code[t].step.lock
Advance(t) ==
    code' = [code EXCEPT ![t] = IF @.at < Len(Program(@.run)) THEN Place(@.run, @.at + 1) ELSE Idle]

(* The RwLock: a writer first shuts out new readers and writers, then waits
   for the readers inside to leave; a reader that finds a writer waits,
   whether or not it already holds the lock itself.                          *)

Shared(t) ==
    /\ At(t, "read") \/ At(t, "peek")
    /\ writer[lockOf(t)] = None
    /\ readers' = IF At(t, "read") THEN [readers EXCEPT ![lockOf(t)] = @ \cup {t}] ELSE readers
    /\ Advance(t)
    /\ UNCHANGED <<calls, writer, refs, freed, opt, worker, answer, session, stopped>>

Claim(t) ==
    /\ At(t, "write") \/ At(t, "poke")
    /\ writer[lockOf(t)] = None
    /\ readers[lockOf(t)] # {}
    /\ writer' = [writer EXCEPT ![lockOf(t)] = t]
    /\ UNCHANGED <<calls, code, readers, refs, freed, opt, worker, answer, session, stopped>>

Exclusive(t) ==
    /\ At(t, "write") \/ At(t, "poke")
    /\ writer[lockOf(t)] \in {None, t}
    /\ readers[lockOf(t)] = {}
    /\ writer' = [writer EXCEPT ![lockOf(t)] = IF At(t, "write") THEN t ELSE None]
    /\ Advance(t)
    /\ UNCHANGED <<calls, readers, refs, freed, opt, worker, answer, session, stopped>>

Release(t) ==
    /\ At(t, "leave")
    /\ readers' = [l \in Locks |-> IF l \in lockOf(t) THEN readers[l] \ {t} ELSE readers[l]]
    /\ writer' = [l \in Locks |-> IF l \in lockOf(t) /\ writer[l] = t THEN None ELSE writer[l]]
    /\ Advance(t)
    /\ UNCHANGED <<calls, refs, freed, opt, worker, answer, session, stopped>>

(* The update worker.                                                        *)

Submit(t) ==
    /\ At(t, "submit")
    /\ worker' = [worker EXCEPT !.queue = IF worker.ended THEN @ ELSE Append(@, t)]
    /\ answer' = [answer EXCEPT ![t] = IF worker.ended THEN "lost" ELSE @]
    /\ Advance(t)
    /\ UNCHANGED <<calls, locks, refs, freed, opt, session, stopped>>

\* A call whose answer is lost returns the error; it is not continued here.
Await(t) ==
    /\ At(t, "await")
    /\ answer[t] = "applied"
    /\ answer' = [answer EXCEPT ![t] = None]
    /\ Advance(t)
    /\ UNCHANGED <<calls, locks, refs, freed, opt, worker, session, stopped>>

worker_loop ==
    /\ code[Updater] = Idle /\ ~worker.ended
    /\ worker.running /\ worker.queue # <<>> /\ Head(worker.queue) # "shutdown"
    /\ \E path \in {"batch", "batch_below", "batch_full"} : code' = [code EXCEPT ![Updater] = Start(path)]
    /\ worker' = [worker EXCEPT !.serving = Head(worker.queue), !.queue = Tail(@)]
    /\ UNCHANGED <<calls, locks, refs, freed, opt, answer, session, stopped>>

Ack ==
    /\ At(Updater, "ack")
    /\ answer' = [answer EXCEPT ![worker.serving] = "applied"]
    /\ worker' = [worker EXCEPT !.serving = None]
    /\ Advance(Updater)
    /\ UNCHANGED <<calls, locks, refs, freed, opt, session, stopped>>

\* The batches still queued are dropped with their acknowledgement channels.
WorkerEnds ==
    /\ code[Updater] = Idle /\ ~worker.ended
    /\ ~worker.running \/ (worker.queue # <<>> /\ Head(worker.queue) = "shutdown")
    /\ worker' = [worker EXCEPT !.queue = <<>>, !.ended = TRUE]
    /\ answer' = [c \in Threads |-> IF c \in ToSet(worker.queue) THEN "lost" ELSE answer[c]]
    /\ UNCHANGED <<calls, code, locks, refs, freed, opt, session, stopped>>

StopWorker(t) ==
    /\ At(t, "stop_worker")
    /\ worker' = [worker EXCEPT !.running = FALSE, !.queue = Append(@, "shutdown")]
    /\ Advance(t)
    /\ UNCHANGED <<calls, locks, refs, freed, opt, answer, session, stopped>>

JoinWorker(t) ==
    /\ At(t, "join_worker")
    /\ worker.ended
    /\ Advance(t)
    /\ UNCHANGED <<calls, locks, refs, freed, opt, worker, answer, session, stopped>>

(* The optimizer.  Only Shutdown is ever sent to it: nothing in the engine
   asks for a seal or a consolidation through the channel.                   *)

OptimizerLooks ==
    /\ opt.at = "loop" /\ code[Optimizer] = Idle
    /\ opt.running /\ ~opt.draining
    /\ opt' = [opt EXCEPT !.at = "receive"]
    /\ UNCHANGED <<calls, code, locks, refs, freed, worker, answer, session, stopped>>

\* The timeout: the weak reference can be upgraded while a strong one is left.
OptimizerWorks ==
    /\ opt.at = "receive" /\ ~opt.sent
    /\ opt.cycles < MaxCycles /\ refs # {}
    /\ refs' = refs \cup {Optimizer}
    /\ opt' = [opt EXCEPT !.at = "loop", !.cycles = @ + 1]
    /\ \E path \in {"idle_cycle", "full_cycle"} : code' = [code EXCEPT ![Optimizer] = Start(path)]
    /\ UNCHANGED <<calls, locks, freed, worker, answer, session, stopped>>

OptimizerEnds ==
    /\ code[Optimizer] = Idle
    /\ (opt.at = "loop" /\ ~opt.running) \/ (opt.at = "receive" /\ opt.sent)
    /\ opt' = [opt EXCEPT !.at = "ended"]
    /\ UNCHANGED <<calls, code, locks, refs, freed, worker, answer, session, stopped>>

Draining(t) ==
    /\ At(t, "draining") \/ At(t, "drained")
    /\ opt' = [opt EXCEPT !.draining = At(t, "draining")]
    /\ Advance(t)
    /\ UNCHANGED <<calls, locks, refs, freed, worker, answer, session, stopped>>

Stop(t) ==
    /\ At(t, "stop")
    /\ opt' = [opt EXCEPT !.running = FALSE, !.sent = TRUE]
    /\ Advance(t)
    /\ UNCHANGED <<calls, locks, refs, freed, worker, answer, session, stopped>>

\* Whoever takes the handle joins the thread.
JoinsAnyone(t) == opt.handle
Joins(t) == opt.handle /\ t # Optimizer

TakeHandle(t) ==
    /\ At(t, "take_handle")
    /\ opt' = [opt EXCEPT !.handle = FALSE, !.joining = IF Joins(t) THEN {t} ELSE @]
    /\ Advance(t)
    /\ UNCHANGED <<calls, locks, refs, freed, worker, answer, session, stopped>>

Join(t) ==
    /\ At(t, "join")
    /\ t \in opt.joining => opt.at = "ended"
    /\ Advance(t)
    /\ UNCHANGED <<calls, locks, refs, freed, opt, worker, answer, session, stopped>>

Stopped(t) ==
    /\ At(t, "stopped")
    /\ stopped' = stopped \cup {t}
    /\ Advance(t)
    /\ UNCHANGED <<calls, locks, refs, freed, opt, worker, answer, session>>

(* The session.                                                              *)

compress(state, turn) ==
    Append(IF Len(state) = MAX_FACTS THEN Tail(state) ELSE state, turn)

ReadCcs(t) ==
    /\ At(t, "read_ccs")
    /\ local' = [local EXCEPT ![t] = compress(ccs, t)]
    /\ Advance(t)
    /\ UNCHANGED <<calls, locks, refs, freed, opt, worker, answer, ccs, saved, stopped>>

StoreCcs(t) ==
    /\ At(t, "store_ccs")
    /\ ccs' = local[t]
    /\ Advance(t)
    /\ UNCHANGED <<calls, locks, refs, freed, opt, worker, answer, saved, local, stopped>>

\* The turn's own result is saved, whatever the session holds by now.
save_ccs_own(t) == IF local[t] = <<>> THEN saved ELSE local[t]
save_ccs(t) == IF ccs = <<>> THEN saved ELSE ccs

SaveCcs(t) ==
    /\ At(t, "save_ccs")
    /\ saved' = save_ccs(t)
    /\ Advance(t)
    /\ UNCHANGED <<calls, locks, refs, freed, opt, worker, answer, ccs, local, stopped>>

(* Calls and references.                                                     *)

Begin(c) ==
    /\ code[c] = Idle /\ calls[c] # <<>>
    /\ \E path \in Paths(Head(calls[c])) : code' = [code EXCEPT ![c] = Start(path)]
    /\ calls' = [calls EXCEPT ![c] = Tail(@)]
    /\ UNCHANGED <<locks, refs, freed, opt, worker, answer, session, stopped>>

\* The last reference takes the engine with it, on the thread that held it.
Unref(t) ==
    /\ t \in refs
    /\ \/ t \in Callers /\ code[t] = Idle /\ calls[t] = <<>>
       \/ At(t, "unref")
    /\ refs' = refs \ {t}
    /\ code' = [code EXCEPT ![t] = IF refs = {t} THEN Start("drop") ELSE Idle]
    /\ UNCHANGED <<calls, locks, freed, opt, worker, answer, session, stopped>>

Freed(t) ==
    /\ At(t, "freed")
    /\ freed' = TRUE
    /\ Advance(t)
    /\ UNCHANGED <<calls, locks, refs, opt, worker, answer, session, stopped>>

Runs(t) ==
    \/ Shared(t) \/ Claim(t) \/ Exclusive(t) \/ Release(t)
    \/ Submit(t) \/ Await(t) \/ StopWorker(t) \/ JoinWorker(t)
    \/ Draining(t) \/ Stop(t) \/ TakeHandle(t) \/ Join(t) \/ Stopped(t)
    \/ ReadCcs(t) \/ StoreCcs(t) \/ SaveCcs(t) \/ Unref(t) \/ Freed(t)

Background == worker_loop \/ Ack \/ WorkerEnds \/ OptimizerLooks \/ OptimizerWorks \/ OptimizerEnds

AllDone == freed /\ opt.at = "ended" /\ worker.ended /\ \A t \in Threads : code[t] = Idle

Next == (\E t \in Threads : Runs(t)) \/ (\E c \in Callers : Begin(c)) \/ Background

Spec == Init /\ [][Next]_vars

\* While some thread can go on, some thread does.  Nothing more is needed: calls
\* and cycles are bounded, so no thread can run for ever and keep out another.
FairSpec == Spec /\ WF_vars(Next)

-----------------------------------------------------------------------------
\* Every call returns, and none is told that the update worker is gone: no
\* order of lock acquisitions leaves threads waiting for each other, and the
\* worker outlives every write that waits for it (belief.rs:276, write.rs:191,
\* update_worker.rs:135-157).
EveryCallReturns ==
    <>(\A c \in Callers : calls[c] = <<>> /\ code[c] = Idle /\ answer[c] # "lost")

\* Once the callers are done the engine is dropped and both of its threads end,
\* on whichever thread the last reference was released, the optimizer's own
\* included (optimizer.rs:471-475, update_worker.rs:8-10).
EngineIsReleased == <>AllDone

\* When shutdown has stopped the optimizer, that thread has ended and holds no
\* reference, so the caller's last one releases the database at once
\* (mod.rs:780-783).  At most one caller shuts down.
StoppedWhenShutDown ==
    stopped # {} => opt.at = "ended" /\ Optimizer \notin refs

\* Whenever no save is under way the database holds the session state that is in
\* memory, however turns and flushes overlap (mod.rs:738-739, 760-765).
SavedSessionIsCurrent ==
    (\A t \in Threads : ~At(t, "save_ccs")) => saved = ccs

=============================================================================
