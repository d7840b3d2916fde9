---------------------------- MODULE MCScheduler ----------------------------
(***************************************************************************)
(* A kernel task and two Ring 3 processes on two levels, with descriptors  *)
(* related as process_create (ticks_alloc = 1 + priority) and              *)
(* process_spawn_ring3 (one priority for all, and as many ticks) fill      *)
(* them.  Priority 3 falls on level 1 because the code masks it; a slice   *)
(* of three ticks does not divide the modulus of the tick counter.         *)
(***************************************************************************)
EXTENDS Scheduler, TLC

CONSTANTS a, b, c

MCPriority == (a :> 0) @@ (b :> 3) @@ (c :> 3)
MCTicksAlloc == (a :> 1) @@ (b :> 3) @@ (c :> 3)
=============================================================================
