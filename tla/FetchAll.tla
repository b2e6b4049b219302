------------------------------ MODULE FetchAll ------------------------------
(***************************************************************************)
(* What PetService promises its caller: each requested pet is looked up    *)
(* once, and when every look-up is over one report names the pets found.   *)
(***************************************************************************)
EXTENDS Sequences

CONSTANT Ids   \* the pets asked for

VARIABLES
  outcome,    \* what became of each look-up
  report      \* the sets of pets reported, in order

vars == <<outcome, report>>

Found == {id \in Ids : outcome[id] = "found"}

Init ==
  /\ outcome = [id \in Ids |-> "open"]
  /\ report = <<>>

Settle(id, result) ==
  /\ outcome[id] = "open"
  /\ outcome' = [outcome EXCEPT ![id] = result]
  /\ UNCHANGED report

Report ==
  /\ report = <<>>
  /\ \A id \in Ids : outcome[id] \in {"found", "missing"}
  /\ report' = <<Found>>
  /\ UNCHANGED outcome

Next ==
  \/ \E id \in Ids, result \in {"found", "missing", "lost"} : Settle(id, result)
  \/ Report

Spec == Init /\ [][Next]_vars
=============================================================================
