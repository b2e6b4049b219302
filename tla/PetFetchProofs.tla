--------------------------- MODULE PetFetchProofs ---------------------------
(***************************************************************************)
(* For every finite set of pets: a fetch keeps its types, counts exactly,  *)
(* reports once and whole, and implements FetchAll.                        *)
(***************************************************************************)
EXTENDS PetFetch, FiniteSetTheorems, SequenceTheorems, TLAPS

IndInv == TypeOK /\ Counted

\* A closure that has not run leaves the fetch unreported, and running it adds
\* one to the number of closures that have.
LEMMA OneMore ==
  ASSUME IndInv, NEW id \in Ids \ handled
  PROVE  /\ reports = <<>>
         /\ IsFiniteSet(handled) /\ IsFiniteSet(handled \cup {id})
         /\ Cardinality(handled) + 1 = Cardinality(handled \cup {id})
         /\ Cardinality(handled \cup {id}) \in 0..Cardinality(Ids)
         /\ Cardinality(handled \cup {id}) = Cardinality(Ids)
              <=> handled \cup {id} = Ids
<1>1. reports = <<>>
  BY DEF IndInv, Counted
<1>2. handled \subseteq Ids /\ handled \cup {id} \subseteq Ids
  BY DEF IndInv, TypeOK
<1>3. IsFiniteSet(handled) /\ IsFiniteSet(handled \cup {id})
  BY <1>2, FS_Subset, IdsAssumption
<1>4. Cardinality(handled \cup {id}) = Cardinality(handled) + 1
  BY <1>3, FS_AddElement
<1>5. /\ Cardinality(handled \cup {id}) <= Cardinality(Ids)
      /\ Cardinality(handled \cup {id}) = Cardinality(Ids) => handled \cup {id} = Ids
  BY <1>2, FS_Subset, IdsAssumption
<1>6. Cardinality(handled \cup {id}) \in Nat /\ Cardinality(Ids) \in Nat
  BY <1>3, FS_CardinalityType, IdsAssumption
<1>7. Cardinality(handled \cup {id}) \in 0..Cardinality(Ids)
  BY <1>5, <1>6
<1> QED
  BY <1>1, <1>3, <1>4, <1>5, <1>7

\* Appending an element adds it to the names of a sequence.
LEMMA NamesAppend ==
  ASSUME NEW S, NEW s \in Seq(S), NEW x \in S
  PROVE  Names(Append(s, x)) = Names(s) \cup {x}
<1>1. Len(Append(s, x)) = Len(s) + 1 /\ Len(s) \in Nat
  OBVIOUS
<1>2. \A i \in 1..Len(s) : Append(s, x)[i] = s[i]
  OBVIOUS
<1>3. Append(s, x)[Len(s) + 1] = x
  OBVIOUS
<1>4. 1..Len(s) + 1 = 1..Len(s) \cup {Len(s) + 1}
  BY <1>1
<1> QED
  BY <1>1, <1>2, <1>3, <1>4 DEF Names

\* A list of one report.
LEMMA OneReport ==
  ASSUME NEW S, NEW x \in S
  PROVE  Append(<<>>, x) = <<x>> /\ <<x>> \in Seq(S)
OBVIOUS

LEMMA InitIndInv == Init => IndInv
<1> SUFFICES ASSUME Init PROVE IndInv
  OBVIOUS
<1>1. Cardinality(Ids) \in Nat /\ Cardinality({}) = 0
  BY IdsAssumption, FS_CardinalityType, FS_EmptySet
<1>2. TypeOK
  BY <1>1 DEF Init, TypeOK, PromiseStates
<1>3. FoundIds = {} /\ Names(petViewModels) = {}
  BY DEF Init, FoundIds, Names
<1>4. Counted
  BY <1>1, <1>3, IdsAssumption DEF Init, Counted
<1> QED
  BY <1>2, <1>4 DEF IndInv

\* Settling a promise touches no closure that has run.
LEMMA AnswerIndInv ==
  ASSUME IndInv, NEW id \in Ids, NEW result \in PromiseStates \ {"open"},
         Answer(id, result)
  PROVE  IndInv'
<1>1. TypeOK'
  BY DEF IndInv, TypeOK, Answer, PromiseStates
<1>2. id \notin handled
  BY DEF IndInv, Counted, Answer
<1>3. \A h \in handled : promise'[h] = promise[h]
  BY <1>2 DEF Answer, IndInv, TypeOK
<1>4. FoundIds' = FoundIds
  BY <1>3 DEF FoundIds, Answer
<1>5. Counted'
  BY <1>3, <1>4 DEF Counted, IndInv, Answer, Names
<1> QED
  BY <1>1, <1>5 DEF IndInv

LEMMA ThenIndInv ==
  ASSUME IndInv, NEW id \in Ids, Then(id)
  PROVE  IndInv'
<1>1. id \in Ids \ handled /\ handled' = handled \cup {id}
      /\ iterator' = iterator + 1 /\ promise' = promise
      /\ petViewModels' = Append(petViewModels, id) /\ promise[id] = "fulfilled"
  BY DEF Then
<1>2. iterator' = Cardinality(handled')
  BY <1>1, OneMore DEF IndInv, Counted
<1>3. petViewModels' \in Seq(Ids)
  BY <1>1 DEF IndInv, TypeOK
<1>4. reports' = IF handled' = Ids THEN <<petViewModels'>> ELSE <<>>
  <2>1. Append(<<>>, petViewModels') = <<petViewModels'>>
    BY <1>3, OneReport
  <2>2. iterator' = Cardinality(Ids) <=> handled' = Ids
    BY <1>1, <1>2, OneMore
  <2> QED
    BY <1>1, <2>1, <2>2, OneMore DEF Then, CheckIfDone
<1>5. TypeOK'
  <2>1. reports' \in Seq(Seq(Ids))
    BY <1>3, <1>4, OneReport
  <2>2. iterator' \in 0..Cardinality(Ids)
    BY <1>1, <1>2, OneMore
  <2> QED
    BY <1>1, <1>3, <2>1, <2>2 DEF IndInv, TypeOK
<1>6. FoundIds' = FoundIds \cup {id} /\ id \notin FoundIds
  BY <1>1 DEF FoundIds
<1>7. Names(petViewModels') = FoundIds'
  BY <1>1, <1>6, NamesAppend DEF IndInv, TypeOK, Counted
<1>8. IsFiniteSet(FoundIds)
  BY <1>1, OneMore, FS_Subset DEF FoundIds
<1>9. Cardinality(FoundIds') = Cardinality(FoundIds) + 1
  BY <1>6, <1>8, FS_AddElement
<1>10. Len(petViewModels') = Cardinality(FoundIds')
  BY <1>1, <1>9 DEF IndInv, TypeOK, Counted
<1>11. \A h \in handled' : promise'[h] \in {"fulfilled", "rejected"}
  BY <1>1 DEF IndInv, Counted
<1>12. Counted'
  BY <1>2, <1>4, <1>7, <1>10, <1>11 DEF Counted
<1> QED
  BY <1>5, <1>12 DEF IndInv

LEMMA CatchIndInv ==
  ASSUME IndInv, NEW id \in Ids, Catch(id)
  PROVE  IndInv'
<1>1. id \in Ids \ handled /\ handled' = handled \cup {id}
      /\ iterator' = iterator + 1 /\ promise' = promise
      /\ petViewModels' = petViewModels /\ promise[id] = "rejected"
  BY DEF Catch
<1>2. iterator' = Cardinality(handled')
  BY <1>1, OneMore DEF IndInv, Counted
<1>3. reports' = IF handled' = Ids THEN <<petViewModels'>> ELSE <<>>
  <2>1. petViewModels' \in Seq(Ids)
    BY <1>1 DEF IndInv, TypeOK
  <2>2. Append(<<>>, petViewModels') = <<petViewModels'>>
    BY <2>1, OneReport
  <2>3. iterator' = Cardinality(Ids) <=> handled' = Ids
    BY <1>1, <1>2, OneMore
  <2> QED
    BY <1>1, <2>2, <2>3, OneMore DEF Catch, CheckIfDone
<1>4. TypeOK'
  <2>1. petViewModels' \in Seq(Ids)
    BY <1>1 DEF IndInv, TypeOK
  <2>2. reports' \in Seq(Seq(Ids))
    BY <1>3, <2>1, OneReport
  <2>3. iterator' \in 0..Cardinality(Ids)
    BY <1>1, <1>2, OneMore
  <2> QED
    BY <1>1, <2>1, <2>2, <2>3 DEF IndInv, TypeOK
<1>5. FoundIds' = FoundIds
  BY <1>1 DEF FoundIds
<1>6. \A h \in handled' : promise'[h] \in {"fulfilled", "rejected"}
  BY <1>1 DEF IndInv, Counted
<1>7. Counted'
  BY <1>1, <1>2, <1>3, <1>5, <1>6 DEF Counted, IndInv
<1> QED
  BY <1>4, <1>7 DEF IndInv

LEMMA NextIndInv == IndInv /\ [Next]_vars => IndInv'
<1> SUFFICES ASSUME IndInv, [Next]_vars PROVE IndInv'
  OBVIOUS
<1>1. ASSUME NEW id \in Ids, NEW result \in PromiseStates \ {"open"},
             Answer(id, result)
      PROVE  IndInv'
  BY <1>1, AnswerIndInv
<1>2. ASSUME NEW id \in Ids, Then(id) PROVE IndInv'
  BY <1>2, ThenIndInv
<1>3. ASSUME NEW id \in Ids, Catch(id) PROVE IndInv'
  BY <1>3, CatchIndInv
<1>4. CASE UNCHANGED vars
  <2>1. /\ promise' = promise /\ handled' = handled /\ iterator' = iterator
        /\ petViewModels' = petViewModels /\ reports' = reports
    BY <1>4 DEF vars
  <2>2. TypeOK'
    BY <2>1 DEF IndInv, TypeOK
  <2>3. FoundIds' = FoundIds /\ Names(petViewModels') = Names(petViewModels)
    BY <2>1 DEF FoundIds
  <2>4. Counted'
    BY <2>1, <2>3 DEF IndInv, Counted
  <2> QED
    BY <2>2, <2>4 DEF IndInv
<1> QED
  BY <1>1, <1>2, <1>3, <1>4 DEF Next

\* Types and the counter's meaning hold in every reachable state.
THEOREM FetchCounts == Spec => [](TypeOK /\ Counted)
<1>1. Spec => []IndInv
  BY InitIndInv, NextIndInv, PTL DEF Spec
<1> QED
  BY <1>1, PTL DEF IndInv

LEMMA CountedReports == IndInv => ReportedOnceAndWhole
<1> SUFFICES ASSUME IndInv PROVE ReportedOnceAndWhole
  OBVIOUS
<1>1. CASE handled = Ids
  <2>1. reports = <<petViewModels>>
    BY <1>1 DEF IndInv, Counted
  <2>2. FoundIds = FulfilledIds
    BY <1>1 DEF FoundIds, FulfilledIds
  <2> QED
    BY <1>1, <2>1, <2>2 DEF ReportedOnceAndWhole, IndInv, Counted
<1>2. CASE handled # Ids
  BY <1>2 DEF IndInv, Counted, ReportedOnceAndWhole
<1> QED
  BY <1>1, <1>2

\* The delegate is told once, when every pet is dealt with, of exactly the pets
\* found.
THEOREM FetchReportsOnceAndWhole == Spec => []ReportedOnceAndWhole
<1>1. Spec => []IndInv
  BY InitIndInv, NextIndInv, PTL DEF Spec
<1> QED
  BY <1>1, CountedReports, PTL

-----------------------------------------------------------------------------
(* The fetch implements FetchAll. *)

Settled == [id \in Ids |-> Outcome(promise[id])]
Told == [i \in 1..Len(reports) |-> Names(reports[i])]

LEMMA InitRefines == Init => FA!Init
<1> SUFFICES ASSUME Init PROVE FA!Init
  OBVIOUS
<1>1. Settled = [id \in Ids |-> "open"]
  BY DEF Init, Settled, Outcome
<1>2. Told = <<>>
  BY DEF Init, Told
<1> QED
  BY <1>1, <1>2 DEF FA!Init, Settled, Told

\* A response settles the pet's look-up.
LEMMA AnswerRefines ==
  ASSUME IndInv, NEW id \in Ids, NEW result \in PromiseStates \ {"open"},
         Answer(id, result)
  PROVE  FA!Next
<1>1. Outcome(result) \in {"found", "missing", "lost"}
  BY DEF PromiseStates, Outcome
<1>2. Settled[id] = "open"
  BY DEF Answer, Settled, Outcome
<1>3. Settled' = [Settled EXCEPT ![id] = Outcome(result)]
  BY DEF Answer, Settled, IndInv, TypeOK
<1>4. Told' = Told
  BY DEF Answer, Told
<1>5. FA!Settle(id, Outcome(result))
  BY <1>2, <1>3, <1>4 DEF FA!Settle, Settled, Told
<1> QED
  BY <1>1, <1>5 DEF FA!Next

\* A closure either changes nothing the delegate sees, or is the last and
\* makes the report.
LEMMA ClosureRefines ==
  ASSUME IndInv, IndInv', NEW id \in Ids, Then(id) \/ Catch(id)
  PROVE  FA!Next \/ UNCHANGED FA!vars
<1>1. promise' = promise /\ reports = <<>> /\ id \notin handled
  BY OneMore DEF Then, Catch
<1>2. Settled' = Settled
  BY <1>1 DEF Settled
<1>3. CASE handled' # Ids
  <2>1. reports' = reports
    BY <1>1, <1>3 DEF IndInv, Counted
  <2>2. Told' = Told
    BY <2>1 DEF Told
  <2> QED
    BY <1>2, <2>2 DEF FA!vars, Settled, Told
<1>4. CASE handled' = Ids
  <2>1. reports' = <<petViewModels'>> /\ Names(petViewModels') = FoundIds'
    BY <1>4 DEF IndInv, Counted
  <2>2. Told = <<>>
    BY <1>1 DEF Told
  <2>3. \A i \in Ids : promise[i] \in {"fulfilled", "rejected"}
    BY <1>1, <1>4 DEF IndInv, Counted
  <2>4. \A i \in Ids : Settled[i] \in {"found", "missing"}
    BY <2>3 DEF Settled, Outcome
  <2>5. FA!Found = FoundIds'
    BY <1>1, <1>4, <2>3 DEF FA!Found, FoundIds, Outcome
  <2>6. Told' = <<FoundIds'>>
    BY <2>1 DEF Told
  <2>7. FA!Report
    BY <1>2, <2>2, <2>4, <2>5, <2>6 DEF FA!Report, Settled, Told
  <2> QED
    BY <2>7 DEF FA!Next
<1> QED
  BY <1>3, <1>4

LEMMA NextRefines == IndInv /\ IndInv' /\ [Next]_vars => [FA!Next]_FA!vars
<1> SUFFICES ASSUME IndInv, IndInv', [Next]_vars PROVE [FA!Next]_FA!vars
  OBVIOUS
<1>1. CASE UNCHANGED vars
  BY <1>1 DEF vars, FA!vars
<1>2. CASE Next
  BY <1>2, AnswerRefines, ClosureRefines DEF Next
<1> QED
  BY <1>1, <1>2

\* PetService.fetchPets does what FetchAll promises, for every list of pets and
\* every order of answers.
THEOREM FetchImplementsFetchAll == Spec => ImplementsFetchAll
<1>1. Spec => []IndInv
  BY InitIndInv, NextIndInv, PTL DEF Spec
<1> QED
  BY <1>1, InitRefines, NextRefines, PTL DEF Spec, ImplementsFetchAll, FA!Spec
=============================================================================
