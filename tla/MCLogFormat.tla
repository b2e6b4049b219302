---------------------------- MODULE MCLogFormat ------------------------------
(* An instance of LogFormat for TLC. *)
EXTENDS LogFormat
=============================================================================
