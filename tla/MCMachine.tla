----------------------------- MODULE MCMachine ------------------------------
(* Interrupts, faults and system calls of a task whose EBX may hold the    *)
(* number of any line or of a page fault, and whose EAX the code segment   *)
(* of Ring 3.                                                              *)
EXTENDS Machine
=============================================================================
