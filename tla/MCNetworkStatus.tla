-------------------------- MODULE MCNetworkStatus --------------------------
(* Small instances of NetworkStatus for TLC. *)
EXTENDS NetworkStatus
=============================================================================
