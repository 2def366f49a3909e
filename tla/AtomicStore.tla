----------------------------- MODULE AtomicStore -----------------------------
(***************************************************************************)
(* What the storage engine promises about durability: a map from ids to    *)
(* versions in which every requested write takes effect in one step, or    *)
(* not at all.  A kill, an open and a flush are not steps of this          *)
(* specification: they must leave the map alone.                           *)
(***************************************************************************)
CONSTANTS Ids, Versions, None

VARIABLES
    kv,     \* the version each id has, or None
    req     \* the write in progress: a map from some ids to what they become

Writes == UNION {[ids -> Versions \cup {None}] : ids \in (SUBSET Ids) \ {{}}}

Init == kv = [i \in Ids |-> None] /\ req = None

\* insert and insert_batch name ids that are not there; update and delete one
\* that is.
Allowed(r) == \/ \A i \in DOMAIN r : kv[i] = None /\ r[i] # None
              \/ \E i \in DOMAIN r : DOMAIN r = {i} /\ kv[i] # None

Request == /\ req = None
           /\ req' \in Writes /\ Allowed(req')
           /\ UNCHANGED kv

\* The write takes effect.  A crash may cut a batch: only some of its ids are
\* then there.
Commit == /\ req # None
          /\ \E done \in SUBSET DOMAIN req :
                kv' = [i \in Ids |-> IF i \in done THEN req[i] ELSE kv[i]]
          /\ req' = None

Next == Request \/ Commit

Spec == Init /\ [][Next]_<<kv, req>>
=============================================================================
