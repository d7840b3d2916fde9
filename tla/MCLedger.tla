------------------------------ MODULE MCLedger ------------------------------
(* A small instance of Ledger.  The digest is the tagged content itself:   *)
(* deterministic and without collisions.                                   *)
EXTENDS Ledger

MCSha256(bytes) == <<"sha256", bytes>>
=============================================================================
