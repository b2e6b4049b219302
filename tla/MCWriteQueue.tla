---------------------------- MODULE MCWriteQueue -----------------------------
(* An instance of WriteQueue for TLC. *)
EXTENDS WriteQueue
=============================================================================
