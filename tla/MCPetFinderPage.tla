-------------------------- MODULE MCPetFinderPage --------------------------
(* A small instance of PetFinderPage for TLC. *)
EXTENDS PetFinderPage
=============================================================================
