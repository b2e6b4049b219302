------------------------------ MODULE PetFetch ------------------------------
(***************************************************************************)
(* One call of PetService.fetchPets(for:).  It sends a request per pet and *)
(* counts their promises in the closures' shared variables iterator and    *)
(* petViewModels; the closure that makes the count complete reports to the *)
(* delegate.  Requests are answered in any order.  The answer settles the  *)
(* pet's promise, whose then or catch closure the main queue runs later.   *)
(***************************************************************************)
EXTENDS Integers, Sequences, FiniteSets

CONSTANT Ids   \* keys of users/<uid>/saved; the caller sends no empty list

ASSUME IdsAssumption == IsFiniteSet(Ids) /\ Ids # {}

VARIABLES
  promise,        \* state of each pet's promise; "lost" has no one to settle it
  handled,        \* pets whose then or catch closure has run
  iterator,       \* iterator
  petViewModels,  \* petViewModels
  reports         \* the calls of delegate.service(didSucceedWith:), in order

vars == <<promise, handled, iterator, petViewModels, reports>>

PromiseStates == {"open", "fulfilled", "rejected", "lost"}

\* Mutants: the count is read before the increment, or complete one closure
\* early.
CheckIfDoneBefore ==
  reports' = IF iterator = Cardinality(Ids)
               THEN Append(reports, petViewModels') ELSE reports
CheckIfDoneEarly ==
  reports' = IF iterator' >= Cardinality(Ids) - 1
               THEN Append(reports, petViewModels') ELSE reports

\* checkIfDone, with the values the closure has just assigned.
CheckIfDone ==
  reports' = IF iterator' = Cardinality(Ids)
               THEN Append(reports, petViewModels') ELSE reports

Init ==
  /\ promise = [id \in Ids |-> "open"]
  /\ handled = {}
  /\ iterator = 0
  /\ petViewModels = <<>>
  /\ reports = <<>>

\* Mutant: a body that is no pet fulfills its promise with nothing.
AnswerEmpty(id, result) ==
  /\ promise[id] = "open"
  /\ promise' = [promise EXCEPT ![id] = IF result = "rejected" THEN "empty" ELSE result]
  /\ UNCHANGED <<handled, iterator, petViewModels, reports>>

\* The response handler: a pet, a body that is no pet, or (no body at all)
\* neither fulfill nor reject.
Answer(id, result) ==
  /\ promise[id] = "open"
  /\ promise' = [promise EXCEPT ![id] = result]
  /\ UNCHANGED <<handled, iterator, petViewModels, reports>>

Then(id) ==
  /\ promise[id] = "fulfilled" /\ id \notin handled
  /\ handled' = handled \cup {id}
  /\ iterator' = iterator + 1
  /\ petViewModels' = Append(petViewModels, id)
  /\ CheckIfDone
  /\ UNCHANGED promise

Catch(id) ==
  /\ promise[id] = "rejected" /\ id \notin handled
  /\ handled' = handled \cup {id}
  /\ iterator' = iterator + 1
  /\ UNCHANGED petViewModels
  /\ CheckIfDone
  /\ UNCHANGED promise

Next ==
  \E id \in Ids :
    \/ \E result \in PromiseStates \ {"open"} : Answer(id, result)
    \/ Then(id)
    \/ Catch(id)

Spec == Init /\ [][Next]_vars

\* Every request is answered and every closure that is due runs.
Fairness ==
  \A id \in Ids :
    /\ WF_vars(\E result \in PromiseStates \ {"open"} : Answer(id, result))
    /\ WF_vars(Then(id)) /\ WF_vars(Catch(id))

FairSpec == Spec /\ Fairness

-----------------------------------------------------------------------------
(* Properties *)

TypeOK ==
  /\ promise \in [Ids -> PromiseStates]
  /\ handled \subseteq Ids
  /\ iterator \in 0..Cardinality(Ids)
  /\ petViewModels \in Seq(Ids)
  /\ reports \in Seq(Seq(Ids))

Names(s) == {s[i] : i \in 1..Len(s)}
FulfilledIds == {id \in Ids : promise[id] = "fulfilled"}

\* The counter is the number of closures that ran, the list holds the pets of
\* those that ran with one, and the report is made by the last of them.  This
\* is the inductive invariant of the proofs.
FoundIds == {id \in handled : promise[id] = "fulfilled"}
Counted ==
  /\ \A id \in handled : promise[id] \in {"fulfilled", "rejected"}
  /\ iterator = Cardinality(handled)
  /\ Names(petViewModels) = FoundIds
  /\ Len(petViewModels) = Cardinality(FoundIds)
  /\ reports = IF handled = Ids THEN <<petViewModels>> ELSE <<>>

\* The delegate hears of a fetch at most once, when every promise is settled
\* and handled, and then of exactly the pets that were found, each once: the
\* counter shared by the closures neither reports early nor again.
ReportedOnceAndWhole ==
  /\ Len(reports) <= 1
  /\ Len(reports) = 1 =>
       /\ handled = Ids
       /\ Names(reports[1]) = FulfilledIds
       /\ Len(reports[1]) = Cardinality(FulfilledIds)

\* Without a lost answer the fetch is reported, whatever the order of answers.
ReportedIfAnswered ==
  [](\A id \in Ids : promise[id] # "lost") => <>(Len(reports) = 1)

\* The fetch implements FetchAll: a promise settles a look-up, and the last
\* closure makes the report.
Outcome(state) ==
  CASE state = "fulfilled" -> "found"
    [] state = "rejected" -> "missing"
    [] OTHER -> state

FA == INSTANCE FetchAll WITH
        outcome <- [id \in Ids |-> Outcome(promise[id])],
        report <- [i \in 1..Len(reports) |-> Names(reports[i])]

ImplementsFetchAll == FA!Spec

\* PetServiceDelegate.swift:20 "Required: Called if the service failed to
\* complete a request": a fetch always comes to a report.
AlwaysReported == <>(reports # <<>>)
=============================================================================
