----------------------------- MODULE MCPetFetch -----------------------------
(* Small instances of PetFetch for TLC. *)
EXTENDS PetFetch
=============================================================================
