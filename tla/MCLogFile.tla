----------------------------- MODULE MCLogFile -----------------------------
(* Small instances of LogFile for TLC. *)
EXTENDS LogFile
=============================================================================
