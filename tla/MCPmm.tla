------------------------------- MODULE MCPmm --------------------------------
(* A bitmap of ten two-byte frames: two below the "megabyte", the kernel   *)
(* in frames 2 and 3.                                                      *)
EXTENDS Pmm

Area(b, l) == [base |-> b, len |-> l, available |-> TRUE]
Reserved(b, l) == [base |-> b, len |-> l, available |-> FALSE]

(* An area below the megabyte; one that crosses it and ends inside a       *)
(* frame; a reserved hole; one that runs past the bitmap; areas out of     *)
(* order.                                                                  *)
MCMemoryMaps == { << Area(0, 3), Reserved(3, 1), Area(4, 7), Reserved(11, 1), Area(12, 20) >>,
                  << Area(1, 8), Reserved(9, 1), Area(10, 6) >>,
                  << Area(12, 4), Area(4, 6) >>,
                  << Area(0, 4), Area(4, 4) >> }

ASSUME AlignedAssumption == AlignedMaps
=============================================================================
