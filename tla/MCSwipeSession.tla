--------------------------- MODULE MCSwipeSession ---------------------------
(* Small instances of SwipeSession for TLC. *)
EXTENDS SwipeSession

\* The first pet lacks a field the deserializer needs.
MCDecodable == Pets \ {1}
=============================================================================
