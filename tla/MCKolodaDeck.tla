---------------------------- MODULE MCKolodaDeck ----------------------------
(* Small instances of KolodaDeck for TLC. *)
EXTENDS KolodaDeck
=============================================================================
