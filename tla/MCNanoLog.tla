----------------------------- MODULE MCNanoLog -----------------------------
(* Small instances of NanoLog for TLC. *)
EXTENDS NanoLog
=============================================================================
