----------------------------- MODULE MCMemory -------------------------------
(* Two slab sizes, two process slots, and one surface and one window, over *)
(* sixteen frames, of which the last two are above boot.asm's mapping.     *)
EXTENDS Memory

MCSlabSizes == <<1, 2>>
\* two pages; 74 pixels of which two are left after the wrap at 72
MCRequests == {<<1, 2, 2>>, <<2, 2, 37>>}
=============================================================================
