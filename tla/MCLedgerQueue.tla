--------------------------- MODULE MCLedgerQueue ----------------------------
(* Two events and a ring of four slots, three of them usable.*)
EXTENDS LedgerQueue
=============================================================================
