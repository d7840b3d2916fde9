------------------------------- MODULE MCText -------------------------------
(* Words of 2 bytes, a uint32_t of 8 bits, SHA-256 blocks of 8 bytes.      *)
EXTENDS Text
=============================================================================
