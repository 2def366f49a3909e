--------------------------- MODULE MirrorPromise ---------------------------
(***************************************************************************)
(* What the resident GPU mirror promises a search, with no queue, lock or  *)
(* device in sight: every search gets exactly one answer; the answer is    *)
(* either one score row per query of that search, all over the same prefix *)
(* of the stored vectors and none shorter than the store was when the      *)
(* search began, or "use the CPU"; and once the mirror is off no search is *)
(* answered from it again.                                                 *)
(***************************************************************************)
EXTENDS Naturals, Sequences

CONSTANTS Threads, Questions, Cpu, MaxCount

VARIABLES count,      \* vectors in the store
          off,        \* the mirror has been switched off
          asked,      \* searches waiting for their answer
          question,   \* the queries of each waiting search
          since,      \* vectors stored when it began
          answer      \* rows handed over and not yet collected, else Cpu

pvars == <<count, off, asked, question, since, answer>>

Row(q, n) == [r \in 1 .. n |-> <<q, r>>]
Forget(f, S, v) == [t \in Threads |-> IF t \in S THEN v ELSE f[t]]

Init ==
    /\ count = 0 /\ off = FALSE /\ asked = {}
    /\ question = [t \in Threads |-> <<>>]
    /\ since = [t \in Threads |-> 0]
    /\ answer = [t \in Threads |-> Cpu]

Grow == count < MaxCount /\ count' = count + 1
        /\ UNCHANGED <<off, asked, question, since, answer>>

Ask(t, qs) ==
    /\ ~off /\ t \notin asked /\ answer[t] = Cpu
    /\ asked' = asked \cup {t}
    /\ question' = [question EXCEPT ![t] = qs]
    /\ since' = [since EXCEPT ![t] = count]
    /\ UNCHANGED <<count, off, answer>>

\* All of S answered at once, over the first n vectors.
Serve(S, n) ==
    /\ ~off /\ S # {} /\ n <= count
    /\ \A t \in S : since[t] <= n
    /\ asked' = asked \ S
    /\ answer' = [t \in Threads |->
                    IF t \in S THEN [i \in 1 .. Len(question[t]) |-> Row(question[t][i], n)]
                               ELSE answer[t]]
    /\ question' = Forget(question, S, <<>>)
    /\ since' = Forget(since, S, 0)
    /\ UNCHANGED <<count, off>>

\* The mirror is off, or goes off now: these searches use the CPU.
ToCpu(S) ==
    /\ S # {}
    /\ off' = TRUE
    /\ asked' = asked \ S
    /\ question' = Forget(question, S, <<>>)
    /\ since' = Forget(since, S, 0)
    /\ UNCHANGED <<count, answer>>

Collect(t) ==
    /\ answer[t] # Cpu
    /\ answer' = [answer EXCEPT ![t] = Cpu]
    /\ UNCHANGED <<count, off, asked, question, since>>

\* The store is closed and opened again.
Reopen == asked = {} /\ off' = FALSE
          /\ UNCHANGED <<count, asked, question, since, answer>>

Next ==
    \/ Grow \/ Reopen
    \/ \E t \in Threads : Collect(t) \/ \E qs \in Questions[t] : Ask(t, qs)
    \/ \E S \in SUBSET asked : ToCpu(S) \/ \E n \in 0 .. count : Serve(S, n)

Spec == Init /\ [][Next]_pvars

=============================================================================
