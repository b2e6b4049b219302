------------------------------ MODULE MCLevelDB ------------------------------
(* An instance of LevelDB for TLC: the first key is put and deleted, the others *)
(* are put.                                                                     *)
EXTENDS LevelDB

MCInputs == {<<1, "deletion">>} \cup {<<key, "value">> : key \in Keys}
=============================================================================
