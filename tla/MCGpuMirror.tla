---------------------------- MODULE MCGpuMirror ----------------------------
(* GpuMirror for TLC: two single searches race, a batch search barges in,   *)
(* and the budget is one row short of the vectors that get written.  Each   *)
(* thread has its own queries, so that an answer tells whose it is.         *)
EXTENDS GpuMirror

MCQuestions == [t \in Threads |-> IF t \in Singles THEN {<<t>>} ELSE {<<t, "other">>}]
=============================================================================
