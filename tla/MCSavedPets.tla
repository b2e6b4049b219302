---------------------------- MODULE MCSavedPets ----------------------------
(* Small instances of SavedPets for TLC. *)
EXTENDS SavedPets
=============================================================================
