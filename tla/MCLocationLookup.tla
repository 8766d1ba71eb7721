-------------------------- MODULE MCLocationLookup --------------------------
(* Small instances of LocationLookup, and of the pool it uses, for TLC. *)
EXTENDS LocationLookup
=============================================================================
