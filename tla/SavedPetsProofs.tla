-------------------------- MODULE SavedPetsProofs --------------------------
(***************************************************************************)
(* For any set of pets and any number of loads: the list that is at rest   *)
(* holds saved pets only.                                                  *)
(***************************************************************************)
EXTENDS SavedPets, SequenceTheorems, TLAPS

\* As long as no delete of the visit met a load and no load of it has failed.
Regular == ~overlapped /\ failed = {}

\* What a load has asked for stays saved until its pets come.
FetchesAreSaved == Regular => \A i \in DOMAIN fetches : fetches[i] \subseteq Record

\* Between loads the list is a part of the record, and explained when empty.
ListIsSaved ==
  Regular /\ screen # "main" /\ ~Loading /\ mine = 0 =>
    pets \subseteq Record /\ (pets = {} => explained)

\* While a delete is under way the overlay keeps its profile on the screen.
DeleteIsAlone ==
  /\ screen # "profile" => mine = 0
  /\ screen = "profile" => profile \in Pets
  /\ Regular /\ mine > 0 =>
       /\ mine = 1 /\ Len(removing) = 1 /\ ~Loading
       /\ Blocks(spinner) /\ spinner.fades = 0
       /\ pets \subseteq saved /\ (pets = {} => explained)

IndInv == TypeOK /\ FetchesAreSaved /\ ListIsSaved /\ DeleteIsAlone
-----------------------------------------------------------------------------
(* The overlay, the waiting deletes and the fetches *)

\* The overlay's operations keep its type; a start covers the screen.
LEMMA OverlayType ==
  ASSUME NEW i \in Indicator
  PROVE  /\ Started(i) \in Indicator /\ Blocks(Started(i)) /\ Started(i).fades = i.fades
         /\ Stopped(i) \in Indicator
         /\ i.fades > 0 => Faded(i) \in Indicator
<1>1. Started(i) \in Indicator /\ Blocks(Started(i)) /\ Started(i).fades = i.fades
  BY DEF Indicator, Started, Blocks
<1>2. i.fades \in Nat /\ i.fades + 1 \in Nat /\ (i.fades > 0 => i.fades - 1 \in Nat)
  BY DEF Indicator
<1>3. \A n \in Nat : /\ [i EXCEPT !.opaque = FALSE, !.fades = n] \in Indicator
                     /\ [i EXCEPT !.attached = FALSE, !.fades = n] \in Indicator
  BY DEF Indicator
<1> QED
  BY <1>1, <1>2, <1>3 DEF Stopped, Faded

LEMMA FirstAndRest ==
  ASSUME NEW S, NEW s \in Seq(S), s # <<>>
  PROVE  /\ Head(s) \in S /\ Tail(s) \in Seq(S) /\ Len(Tail(s)) = Len(s) - 1 /\ Len(s) \in Nat \ {0}
         /\ ToSet(s) = {Head(s)} \cup ToSet(Tail(s))
<1>1. /\ Head(s) = s[1] /\ Head(s) \in S /\ Tail(s) \in Seq(S) /\ Len(Tail(s)) = Len(s) - 1
      /\ Len(s) \in Nat \ {0} /\ \A i \in 1..Len(s) - 1 : Tail(s)[i] = s[i + 1]
  BY HeadTailProperties, EmptySeq, LenProperties
<1>2. DOMAIN s = 1..Len(s) /\ DOMAIN Tail(s) = 1..Len(s) - 1
  BY <1>1
<1>3. \A i \in DOMAIN s : i = 1 \/ (i - 1 \in DOMAIN Tail(s) /\ s[i] = Tail(s)[i - 1])
  BY <1>1, <1>2
<1>4. ToSet(s) \subseteq {Head(s)} \cup ToSet(Tail(s))
  <2> SUFFICES ASSUME NEW i \in DOMAIN s PROVE s[i] = Head(s) \/ s[i] \in ToSet(Tail(s))
    BY DEF ToSet
  <2>1. CASE i = 1
    BY <1>1, <2>1
  <2>2. CASE i # 1
    BY <1>3, <2>2 DEF ToSet
  <2> QED
    BY <2>1, <2>2
<1>5. \A i \in DOMAIN Tail(s) : i + 1 \in DOMAIN s /\ Tail(s)[i] = s[i + 1]
  BY <1>1, <1>2
<1>6. {Head(s)} \cup ToSet(Tail(s)) \subseteq ToSet(s)
  <2>1. 1 \in DOMAIN s
    BY <1>1, <1>2
  <2> QED
    BY <1>1, <1>5, <2>1 DEF ToSet
<1> QED
  BY <1>1, <1>4, <1>6

\* A length as SubSeq gives it.
LEMMA TailLength ==
  ASSUME NEW n \in Nat, NEW i \in Nat, i <= n
  PROVE  (IF i + 1 <= n THEN n - (i + 1) + 1 ELSE 0) = n - i
BY SMT

\* What is left of a sequence was in it.
LEMMA OthersStay ==
  ASSUME NEW S, NEW s \in Seq(S), NEW i \in 1..Len(s)
  PROVE  /\ RemoveAt(s, i) \in Seq(S)
         /\ \A k \in DOMAIN RemoveAt(s, i) : \E j \in DOMAIN s : RemoveAt(s, i)[k] = s[j]
<1> DEFINE a == SubSeq(s, 1, i - 1)
           b == SubSeq(s, i + 1, Len(s))
<1>1. Len(s) \in Nat /\ DOMAIN s = 1..Len(s) /\ i \in Nat /\ 1 <= i /\ i <= Len(s)
  OBVIOUS
<1>2. /\ a \in Seq(S) /\ Len(a) = i - 1 /\ \A k \in 1..Len(a) : a[k] = s[k]
  <2>1. \A k \in 1..i - 1 : s[k] \in S
    BY <1>1
  <2> QED
    BY <1>1, <2>1, SubSeqProperties
<1>3. /\ b \in Seq(S) /\ Len(b) = Len(s) - i /\ \A k \in 1..Len(b) : b[k] = s[k + i]
  <2>1. \A k \in i + 1..Len(s) : s[k] \in S
    BY <1>1
  <2>2. b \in Seq(S) /\ Len(b) = IF i + 1 <= Len(s) THEN Len(s) - (i + 1) + 1 ELSE 0
    BY <1>1, <2>1, SubSeqProperties
  <2>3. \A k \in 1..Len(s) - (i + 1) + 1 : b[k] = s[(i + 1) + k - 1]
    BY <1>1, <2>1, SubSeqProperties
  <2> HIDE DEF b
  <2>4. Len(b) = Len(s) - i
    BY <1>1, <2>2, TailLength
  <2>5. \A k \in 1..Len(b) : k \in 1..Len(s) - (i + 1) + 1 /\ (i + 1) + k - 1 = k + i
    BY <1>1, <2>4
  <2>6. \A k \in 1..Len(b) : b[k] = s[k + i]
    BY <2>3, <2>5
  <2> QED
    BY <2>2, <2>4, <2>6
<1>4. RemoveAt(s, i) = a \o b
  BY DEF RemoveAt
<1> HIDE DEF a, b
<1>5. /\ a \o b \in Seq(S) /\ Len(a \o b) = Len(a) + Len(b)
      /\ \A k \in 1..Len(a) + Len(b) : (a \o b)[k] = IF k <= Len(a) THEN a[k] ELSE b[k - Len(a)]
  BY <1>2, <1>3, ConcatProperties
<1>6. \A k \in DOMAIN (a \o b) : \E j \in DOMAIN s : (a \o b)[k] = s[j]
  <2> SUFFICES ASSUME NEW k \in 1..Len(a) + Len(b) PROVE \E j \in DOMAIN s : (a \o b)[k] = s[j]
    BY <1>5
  <2>1. CASE k <= Len(a)
    <3>1. k \in 1..Len(a) /\ k \in DOMAIN s
      BY <1>1, <1>2, <1>3, <2>1
    <3> QED
      BY <1>2, <1>5, <2>1, <3>1
  <2>2. CASE ~(k <= Len(a))
    <3>1. k - Len(a) \in 1..Len(b) /\ k - Len(a) + i \in DOMAIN s
      BY <1>1, <1>2, <1>3, <2>2
    <3> QED
      BY <1>3, <1>5, <2>2, <3>1
  <2> QED
    BY <2>1, <2>2
<1> QED
  BY <1>4, <1>5, <1>6

\* Nothing waits to be removed: the record is what the server holds.
LEMMA NothingRemoved == ASSUME removing = <<>> PROVE Record = saved
BY DEF Record, ToSet

\* An answer to the first delete takes nothing out of the record.
LEMMA AnswerToDelete ==
  ASSUME TypeOK, removing # <<>>, removing' = Tail(removing),
         saved' = saved \/ saved' = saved \ {Head(removing)}
  PROVE  /\ Record \subseteq Record' /\ removing' \in Seq(Pets)
         /\ Len(removing') = Len(removing) - 1 /\ Len(removing) \in Nat \ {0}
<1>1. /\ Tail(removing) \in Seq(Pets) /\ Len(Tail(removing)) = Len(removing) - 1
      /\ Len(removing) \in Nat \ {0}
      /\ ToSet(removing) = {Head(removing)} \cup ToSet(Tail(removing))
  BY FirstAndRest DEF TypeOK
<1> QED
  BY <1>1 DEF Record

\* A tap during a delete of the visit does not reach the screen.
LEMMA TouchIsBetween == ASSUME IndInv, Touchable, Regular PROVE mine = 0
BY DEF IndInv, TypeOK, DeleteIsAlone, Touchable

\* Neither the loads, the list nor the profile change.
LEMMA OthersKeep ==
  ASSUME IndInv, Record \subseteq Record', saved \subseteq saved', Len(removing') = Len(removing),
         UNCHANGED <<screenVars, loadVars, listVars>>,
         Blocks(spinner) /\ spinner.fades = 0 => Blocks(spinner') /\ spinner'.fades = 0
  PROVE  FetchesAreSaved' /\ ListIsSaved' /\ DeleteIsAlone'
<1>1. FetchesAreSaved'
  BY DEF IndInv, FetchesAreSaved, Regular, loadVars
<1>2. ListIsSaved'
  BY DEF IndInv, ListIsSaved, Regular, Loading, screenVars, loadVars, listVars
<1>3. DeleteIsAlone'
  BY DEF IndInv, DeleteIsAlone, Regular, Loading, screenVars, loadVars, listVars
<1> QED
  BY <1>1, <1>2, <1>3

-----------------------------------------------------------------------------
(* Taps *)

LEMMA InitInd == Init => IndInv
<1> SUFFICES ASSUME Init PROVE IndInv
  OBVIOUS
<1>1. Idle \in Indicator /\ <<>> \in Seq(Pets) /\ <<>> \in Seq(SUBSET Pets) /\ Len(<<>>) = 0
  BY EmptySeq DEF Idle, Indicator
<1>2. TypeOK
  <2>1. /\ net \in BOOLEAN /\ signedIn \in BOOLEAN /\ saved \subseteq Pets /\ removing \in Seq(Pets)
        /\ profile \in Pets \cup {Nil} /\ alert \in BOOLEAN /\ spinner \in Indicator
        /\ screen \in {"main", "saved", "profile"}
    BY <1>1 DEF Init
  <2>2. /\ reads \in Nat /\ fetches \in Seq(SUBSET Pets) /\ pets \subseteq Pets
        /\ explained \in BOOLEAN /\ overlapped \in BOOLEAN /\ failed \subseteq Failures
    BY <1>1 DEF Init
  <2>3. mine \in 0..Len(removing)
    BY <1>1 DEF Init
  <2> QED
    BY <2>1, <2>2, <2>3 DEF TypeOK
<1>3. FetchesAreSaved /\ ListIsSaved /\ DeleteIsAlone
  BY <1>1 DEF Init, FetchesAreSaved, ListIsSaved, DeleteIsAlone
<1> QED
  BY <1>2, <1>3 DEF IndInv

LEMMA OpenInd == ASSUME IndInv, Open PROVE IndInv'
<1>1. /\ screen' = "saved" /\ profile' = Nil /\ mine' = 0 /\ spinner' = Started(spinner)
      /\ fetches' = <<>> /\ overlapped' = FALSE /\ failed' = (IF signedIn THEN {} ELSE {"unsent"}) /\ pets' = {} /\ explained' = FALSE
      /\ UNCHANGED <<net, signedIn, saved, removing, alert>>
      /\ reads' = (IF signedIn THEN 1 ELSE 0)
  BY DEF Open
<1>2. reads' \in Nat /\ (signedIn => reads' > 0) /\ signedIn \in BOOLEAN /\ failed' \subseteq Failures
  BY <1>1 DEF IndInv, TypeOK, Failures
<1>3. fetches' \in Seq(SUBSET Pets) /\ spinner' \in Indicator
  BY <1>1, OverlayType DEF IndInv, TypeOK
<1>4. mine' \in 0..Len(removing')
  BY <1>1, LenProperties DEF IndInv, TypeOK
<1>5. TypeOK'
  BY <1>1, <1>2, <1>3, <1>4 DEF IndInv, TypeOK
<1>6. Regular' => Loading'
  BY <1>1, <1>2 DEF Regular, Loading
<1>7. FetchesAreSaved' /\ ListIsSaved' /\ DeleteIsAlone'
  BY <1>1, <1>6 DEF FetchesAreSaved, ListIsSaved, DeleteIsAlone
<1> QED
  BY <1>5, <1>7 DEF IndInv

LEMMA BackInd == ASSUME IndInv, Back PROVE IndInv'
<1>1. /\ screen' = "main" /\ reads' = 0 /\ fetches' = <<>> /\ overlapped' = FALSE /\ failed' = {}
      /\ pets' = {} /\ explained' = FALSE /\ screen = "saved"
      /\ UNCHANGED <<net, signedIn, saved, removing, profile, mine, alert, spinner>>
  BY DEF Back
<1>2. mine' = 0
  BY <1>1 DEF IndInv, DeleteIsAlone
<1>3. TypeOK'
  <2>1. /\ net' \in BOOLEAN /\ signedIn' \in BOOLEAN /\ saved' \subseteq Pets /\ removing' \in Seq(Pets)
        /\ profile' \in Pets \cup {Nil} /\ mine' \in 0..Len(removing')
        /\ alert' \in BOOLEAN /\ spinner' \in Indicator
    BY <1>1 DEF IndInv, TypeOK
  <2>2. reads' \in Nat /\ pets' \subseteq Pets /\ screen' \in {"main", "saved", "profile"}
    BY <1>1
  <2>3. fetches' \in Seq(SUBSET Pets)
    <3>1. <<>> \in Seq(SUBSET Pets)
      OBVIOUS
    <3> QED
      BY <1>1, <3>1
  <2>4. explained' \in BOOLEAN /\ overlapped' \in BOOLEAN /\ failed' \subseteq Failures
    BY <1>1
  <2> QED
    BY <2>1, <2>2, <2>3, <2>4 DEF TypeOK
<1>4. FetchesAreSaved' /\ ListIsSaved' /\ DeleteIsAlone'
  BY <1>1, <1>2 DEF FetchesAreSaved, ListIsSaved, DeleteIsAlone
<1> QED
  BY <1>3, <1>4 DEF IndInv

\* The profile opens or closes between two deletes.
LEMMA ScreenInd ==
  ASSUME IndInv, Close \/ \E pet \in Pets : Select(pet)
  PROVE  IndInv'
<1>1. /\ Touchable /\ mine' = 0 /\ screen # "main"
      /\ screen' \in {"saved", "profile"} /\ profile' \in Pets \cup {Nil}
      /\ (screen' = "profile" => profile' \in Pets)
      /\ UNCHANGED <<net, signedIn, saved, removing, alert, spinner, loadVars, listVars>>
  BY DEF Close, Select
<1>2. TypeOK'
  BY <1>1 DEF IndInv, TypeOK, loadVars, listVars
<1>3. Record' = Record
  BY <1>1 DEF Record
<1>4. FetchesAreSaved'
  BY <1>1, <1>3 DEF IndInv, FetchesAreSaved, Regular, loadVars
<1>5. ListIsSaved'
  BY <1>1, <1>3, TouchIsBetween DEF IndInv, ListIsSaved, Regular, Loading, loadVars, listVars
<1>6. DeleteIsAlone'
  BY <1>1 DEF DeleteIsAlone
<1> QED
  BY <1>2, <1>4, <1>5, <1>6 DEF IndInv

LEMMA DeleteInd == ASSUME IndInv, Delete PROVE IndInv'
<1>1. /\ screen = "profile" /\ Touchable /\ spinner' = Started(spinner)
      /\ removing' = Append(removing, profile) /\ mine' = mine + 1
      /\ overlapped' = (overlapped \/ Loading \/ removing # <<>>)
      /\ UNCHANGED <<net, signedIn, saved, screen, profile, alert, reads, fetches, failed, listVars>>
  BY DEF Delete
<1>2. /\ profile \in Pets /\ removing \in Seq(Pets) /\ Len(removing) \in Nat /\ mine \in Nat
      /\ mine <= Len(removing) /\ spinner \in Indicator
  BY <1>1, LenProperties DEF IndInv, TypeOK, DeleteIsAlone
<1>3. removing' \in Seq(Pets) /\ Len(removing') = Len(removing) + 1
  BY <1>1, <1>2, AppendProperties
<1>4. mine' \in 0..Len(removing') /\ spinner' \in Indicator
  BY <1>1, <1>2, <1>3, OverlayType
<1>5. overlapped' \in BOOLEAN
  BY <1>1
<1>6. TypeOK'
  BY <1>1, <1>3, <1>4, <1>5 DEF IndInv, TypeOK, listVars
<1>7. ASSUME Regular' PROVE /\ Regular /\ ~Loading /\ removing = <<>> /\ mine = 0
  BY <1>1, <1>7, TouchIsBetween DEF Regular
<1>8. FetchesAreSaved'
  BY <1>1, <1>7 DEF FetchesAreSaved, Loading
<1>9. ListIsSaved'
  BY <1>1, <1>2 DEF ListIsSaved
<1>10. DeleteIsAlone'
  <2>1. ASSUME Regular'
        PROVE  /\ mine' = 1 /\ Len(removing') = 1 /\ ~Loading'
               /\ Blocks(spinner') /\ spinner'.fades = 0
               /\ pets' \subseteq saved' /\ (pets' = {} => explained')
    <3>1. mine = 0 /\ Len(removing) = 0 /\ ~Loading /\ ~Loading'
      BY <1>1, <1>2, <1>7, <2>1, EmptySeq DEF Loading
    <3>2. pets \subseteq Record /\ (pets = {} => explained) /\ Record = saved
      BY <1>1, <1>7, <2>1, NothingRemoved DEF IndInv, ListIsSaved
    <3>3. Blocks(spinner') /\ spinner'.fades = 0
      BY <1>1, <1>2, OverlayType DEF Touchable
    <3> QED
      BY <1>1, <1>3, <3>1, <3>2, <3>3 DEF listVars
  <2> QED
    BY <1>1, <1>2, <2>1 DEF DeleteIsAlone
<1> QED
  BY <1>6, <1>8, <1>9, <1>10 DEF IndInv

-----------------------------------------------------------------------------
(* Answers *)

\* An answer to a load meets no delete of a regular visit.
LEMMA LoadIsAlone == ASSUME IndInv, Loading, Regular PROVE mine = 0
BY DEF IndInv, TypeOK, DeleteIsAlone

\* A load fails: the visit is not regular any more.
LEMMA FailureInd ==
  ASSUME IndInv, failed' # {}, screen' = screen, profile' = profile, mine' = mine, TypeOK'
  PROVE  IndInv'
BY DEF IndInv, FetchesAreSaved, ListIsSaved, DeleteIsAlone, Regular

LEMMA UserAnswerInd == ASSUME IndInv, UserAnswer PROVE IndInv'
<1>1. /\ reads > 0 /\ reads' = reads - 1
      /\ UNCHANGED <<net, signedIn, saved, removing, screen, profile, mine, alert, overlapped, failed>>
  BY DEF UserAnswer, screenVars
<1>2. /\ Record' = Record /\ Loading /\ reads \in Nat /\ reads' \in Nat
      /\ fetches \in Seq(SUBSET Pets) /\ Record \subseteq Pets /\ spinner \in Indicator
  BY <1>1 DEF Record, Loading, IndInv, TypeOK
<1>3. DeleteIsAlone'
  BY <1>1, <1>2, LoadIsAlone DEF IndInv, DeleteIsAlone, Regular
<1>4. CASE Record = {}
  <2>1. pets' = {} /\ explained' = TRUE /\ spinner' = Stopped(spinner) /\ fetches' = fetches
    BY <1>4 DEF UserAnswer, Replace
  <2>2. TypeOK'
    BY <1>1, <1>2, <2>1, OverlayType DEF IndInv, TypeOK
  <2>3. FetchesAreSaved' /\ ListIsSaved'
    BY <1>1, <1>2, <2>1 DEF IndInv, FetchesAreSaved, ListIsSaved, Regular
  <2> QED
    BY <1>3, <2>2, <2>3 DEF IndInv
<1>5. CASE Record # {}
  <2>1. fetches' = Append(fetches, Record) /\ UNCHANGED <<spinner, pets, explained>>
    BY <1>5 DEF UserAnswer, listVars
  <2>2. /\ fetches' \in Seq(SUBSET Pets) /\ Len(fetches') = Len(fetches) + 1
        /\ \A i \in 1..Len(fetches) : fetches'[i] = fetches[i]
        /\ fetches'[Len(fetches) + 1] = Record
    BY <1>2, <2>1, AppendProperties
  <2>3. Len(fetches) \in Nat /\ DOMAIN fetches' = 1..Len(fetches) + 1 /\ DOMAIN fetches = 1..Len(fetches)
    BY <1>2, <2>2
  <2>4. TypeOK'
    BY <1>1, <1>2, <2>1, <2>2 DEF IndInv, TypeOK
  <2>5. \A i \in DOMAIN fetches' : i \in DOMAIN fetches \/ fetches'[i] = Record
    BY <2>2, <2>3
  <2>6. FetchesAreSaved'
    BY <1>1, <1>2, <2>2, <2>3, <2>5 DEF IndInv, FetchesAreSaved, Regular
  <2>7. Loading'
    BY <2>2, <2>3, EmptySeq DEF Loading
  <2> QED
    BY <1>3, <2>4, <2>6, <2>7 DEF IndInv, ListIsSaved
<1> QED
  BY <1>4, <1>5

LEMMA UserFailsInd == ASSUME IndInv, UserFails PROVE IndInv'
<1>1. reads \in Nat /\ reads > 0 /\ reads' = reads - 1 /\ reads' \in Nat
  BY DEF UserFails, IndInv, TypeOK
<1>2. alert' \in BOOLEAN
  BY DEF UserFails, Present
<1>3. TypeOK'
  BY <1>1, <1>2 DEF UserFails, IndInv, TypeOK, Failures, screenVars, listVars
<1>4. failed' = failed \cup {"error"} /\ screen' = screen /\ profile' = profile /\ mine' = mine
  BY DEF UserFails, screenVars
<1> QED
  BY <1>3, <1>4, FailureInd

LEMMA PetsAnswerInd == ASSUME IndInv, PetsAnswer PROVE IndInv'
<1>1. PICK i \in 1..Len(fetches) :
        (\E found \in SUBSET fetches[i] : Replace(found)) /\ fetches' = RemoveAt(fetches, i)
  BY DEF PetsAnswer
<1>2. PICK found \in SUBSET fetches[i] : Replace(found)
  BY <1>1
<1>3. /\ spinner' = Stopped(spinner) /\ pets' = found /\ explained' = (explained \/ found = {})
      /\ UNCHANGED <<net, signedIn, saved, removing, screen, profile, mine, alert, reads,
                     overlapped, failed>>
  BY <1>2 DEF PetsAnswer, Replace, screenVars
<1>4. /\ fetches \in Seq(SUBSET Pets) /\ i \in DOMAIN fetches /\ fetches[i] \subseteq Pets
      /\ fetches # <<>> /\ spinner \in Indicator
  <2>1. fetches \in Seq(SUBSET Pets) /\ spinner \in Indicator
    BY DEF IndInv, TypeOK
  <2>2. i \in DOMAIN fetches /\ fetches[i] \in SUBSET Pets /\ fetches # <<>>
    BY <2>1, <1>1
  <2> QED
    BY <2>1, <2>2
<1>5. /\ fetches' \in Seq(SUBSET Pets)
      /\ \A k \in DOMAIN fetches' : \E j \in DOMAIN fetches : fetches'[k] = fetches[j]
  BY <1>1, <1>4, OthersStay
<1>6. Record' = Record /\ Loading
  BY <1>3, <1>4 DEF Record, Loading
<1>7. explained' \in BOOLEAN /\ spinner' \in Indicator /\ pets' \subseteq Pets
  BY <1>3, <1>4, OverlayType
<1>8. TypeOK'
  BY <1>3, <1>5, <1>7 DEF IndInv, TypeOK
<1>9. FetchesAreSaved'
  BY <1>3, <1>5, <1>6 DEF IndInv, FetchesAreSaved, Regular
<1>10. ListIsSaved'
  BY <1>3, <1>4, <1>6 DEF IndInv, FetchesAreSaved, ListIsSaved, Regular
<1>11. DeleteIsAlone'
  BY <1>3, <1>6, LoadIsAlone DEF IndInv, DeleteIsAlone, Regular
<1> QED
  BY <1>8, <1>9, <1>10, <1>11 DEF IndInv

LEMMA PetsLostInd == ASSUME IndInv, PetsLost PROVE IndInv'
<1>1. PICK i \in 1..Len(fetches) : fetches' = RemoveAt(fetches, i)
  BY DEF PetsLost
<1>2. fetches' \in Seq(SUBSET Pets)
  BY <1>1, OthersStay DEF IndInv, TypeOK
<1>3. TypeOK'
  BY <1>2 DEF PetsLost, IndInv, TypeOK, Failures, screenVars, listVars
<1>4. failed' = failed \cup {"unanswered"} /\ screen' = screen /\ profile' = profile /\ mine' = mine
  BY DEF PetsLost, screenVars
<1> QED
  BY <1>3, <1>4, FailureInd

LEMMA DeleteAckedInd == ASSUME IndInv, DeleteAcked PROVE IndInv'
<1>1. /\ Record \subseteq Record' /\ removing' \in Seq(Pets)
      /\ Len(removing') = Len(removing) - 1 /\ Len(removing) \in Nat \ {0}
  BY AnswerToDelete DEF DeleteAcked, IndInv
<1>2. /\ saved' \subseteq saved /\ saved \subseteq Pets /\ mine \in Nat /\ spinner \in Indicator
      /\ reads \in Nat /\ UNCHANGED <<net, signedIn, alert, pets, explained>>
  BY DEF DeleteAcked, IndInv, TypeOK, listVars
<1>3. Stopped(spinner) \in Indicator /\ Started(Stopped(spinner)) \in Indicator
  BY <1>2, OverlayType
<1>4. CASE Len(removing) <= mine
  <2>1. /\ screen' = "saved" /\ profile' = Nil /\ mine' = 0
        /\ spinner' = Started(Stopped(spinner)) /\ UNCHANGED <<fetches, overlapped>>
        /\ \/ reads' = reads + 1 /\ UNCHANGED failed
           \/ failed' = failed \cup {"unsent"} /\ UNCHANGED reads
    BY <1>4 DEF DeleteAcked, FetchUser
  <2>2. TypeOK'
    <3>1. reads' \in Nat /\ mine' \in 0..Len(removing')
      BY <1>1, <1>2, <2>1
    <3>2. failed \subseteq Failures
      BY DEF IndInv, TypeOK
    <3>3. failed' \subseteq Failures
      BY <2>1, <3>2 DEF Failures
    <3> QED
      BY <1>1, <1>2, <1>3, <2>1, <3>1, <3>3 DEF IndInv, TypeOK
  <2>3. FetchesAreSaved'
    BY <1>1, <2>1 DEF IndInv, FetchesAreSaved, Regular
  <2>4. Regular' => Loading'
    BY <1>2, <2>1 DEF Regular, Loading
  <2>5. ListIsSaved' /\ DeleteIsAlone'
    BY <2>1, <2>4 DEF ListIsSaved, DeleteIsAlone
  <2> QED
    BY <2>2, <2>3, <2>5 DEF IndInv
<1>5. CASE ~(Len(removing) <= mine)
  <2>1. spinner' = Stopped(spinner)
        /\ UNCHANGED <<screen, profile, mine, reads, fetches, overlapped, failed>>
    BY <1>5 DEF DeleteAcked, screenVars, loadVars
  <2>2. TypeOK'
    <3>1. mine' \in 0..Len(removing')
      BY <1>1, <1>2, <1>5, <2>1
    <3> QED
      BY <1>1, <1>2, <1>3, <2>1, <3>1 DEF IndInv, TypeOK
  <2>3. FetchesAreSaved'
    BY <1>1, <2>1 DEF IndInv, FetchesAreSaved, Regular
  <2>4. ListIsSaved'
    BY <1>1, <1>2, <2>1 DEF IndInv, ListIsSaved, Regular, Loading
  <2>5. Regular => mine = 0
    <3> SUFFICES ASSUME Regular, mine > 0 PROVE FALSE
      BY <1>2
    <3>1. mine = 1 /\ Len(removing) = 1
      BY DEF IndInv, DeleteIsAlone
    <3> QED
      BY <1>5, <3>1
  <2>6. DeleteIsAlone'
    BY <2>1, <2>5 DEF IndInv, DeleteIsAlone, Regular
  <2> QED
    BY <2>2, <2>3, <2>4, <2>6 DEF IndInv
<1> QED
  BY <1>4, <1>5

LEMMA DeleteRefusedInd == ASSUME IndInv, DeleteRefused PROVE IndInv'
<1>1. /\ Record \subseteq Record' /\ removing' \in Seq(Pets)
      /\ Len(removing') = Len(removing) - 1 /\ Len(removing) \in Nat \ {0}
  BY AnswerToDelete DEF DeleteRefused, IndInv
<1>2. /\ spinner' = Stopped(spinner) /\ mine' = (IF mine = Len(removing) THEN mine - 1 ELSE mine)
      /\ UNCHANGED <<net, signedIn, saved, screen, profile, alert, reads, fetches, overlapped, failed,
                     pets, explained>>
  BY DEF DeleteRefused, loadVars, listVars
<1>3. /\ mine \in Nat /\ mine <= Len(removing) /\ spinner \in Indicator
  BY <1>1 DEF IndInv, TypeOK
<1>4. mine' \in 0..Len(removing') /\ (mine = 0 => mine' = 0) /\ spinner' \in Indicator
  BY <1>1, <1>2, <1>3, OverlayType
<1>5. TypeOK'
  BY <1>1, <1>2, <1>4 DEF IndInv, TypeOK
<1>6. FetchesAreSaved'
  BY <1>1, <1>2 DEF IndInv, FetchesAreSaved, Regular
<1>7. ASSUME Regular, mine > 0
      PROVE  mine' = 0 /\ pets \subseteq Record' /\ (pets = {} => explained)
  <2>1. mine = 1 /\ Len(removing) = 1 /\ pets \subseteq saved /\ (pets = {} => explained)
    BY <1>7 DEF IndInv, DeleteIsAlone
  <2>2. removing' = <<>> /\ mine' = 0
    BY <1>1, <1>2, <2>1, EmptySeq
  <2>3. Record' = saved
    BY <1>2, <2>2 DEF Record, ToSet
  <2> QED
    BY <2>1, <2>2, <2>3
<1>8. ListIsSaved'
  BY <1>1, <1>2, <1>3, <1>7 DEF IndInv, ListIsSaved, Regular, Loading
<1>9. DeleteIsAlone'
  BY <1>2, <1>3, <1>4, <1>7 DEF IndInv, DeleteIsAlone, Regular
<1> QED
  BY <1>5, <1>6, <1>8, <1>9 DEF IndInv

-----------------------------------------------------------------------------
(* The surroundings *)

LEMMA OthersInd ==
  ASSUME IndInv,
         \/ DismissAlert \/ FadeEnds \/ NetworkChanges \/ AccountRevoked \/ UNCHANGED vars
         \/ \E pet \in Pets : Save(pet)
  PROVE  IndInv'
<1>1. /\ UNCHANGED <<removing, screenVars, loadVars, listVars>> /\ saved \subseteq saved' /\ saved' \subseteq Pets
  BY DEF DismissAlert, FadeEnds, NetworkChanges, AccountRevoked, Save, vars, IndInv, TypeOK
<1>2. Record \subseteq Record' /\ Len(removing') = Len(removing)
  BY <1>1 DEF Record
<1>3. spinner' \in Indicator /\ (spinner.fades = 0 => spinner' = spinner)
  <2>1. spinner \in Indicator
    BY DEF IndInv, TypeOK
  <2>2. CASE FadeEnds
    BY <2>1, <2>2, OverlayType DEF FadeEnds, Indicator
  <2>3. CASE ~FadeEnds
    BY <2>1, <2>3 DEF DismissAlert, NetworkChanges, AccountRevoked, Save, vars
  <2> QED
    BY <2>2, <2>3
<1>4. net' \in BOOLEAN /\ signedIn' \in BOOLEAN /\ alert' \in BOOLEAN
  BY DEF DismissAlert, FadeEnds, NetworkChanges, AccountRevoked, Save, vars, IndInv, TypeOK
<1>5. TypeOK'
  BY <1>1, <1>3, <1>4 DEF IndInv, TypeOK, screenVars, loadVars, listVars
<1> QED
  BY <1>1, <1>2, <1>3, <1>5, OthersKeep DEF IndInv

LEMMA StepInd == IndInv /\ [Next]_vars => IndInv'
BY OpenInd, BackInd, ScreenInd, DeleteInd, UserAnswerInd, UserFailsInd, PetsAnswerInd,
   PetsLostInd, DeleteAckedInd, DeleteRefusedInd, OthersInd DEF Next

\* The inductive invariant of the saved pets: types, and what the list, the loads and
\* the deletes under way have to do with the record.
THEOREM SavedInvariant == Spec => []IndInv
BY InitInd, StepInd, PTL DEF Spec

\* The list at rest holds pets that are saved, a deleted one is gone from it, and an
\* empty list is explained, however loads, deletes and their answers follow each
\* other, unless a delete was asked for during a load or a load was not answered.
THEOREM ListIsTheRecord == Spec => []ListMatchesRecord
<1>1. IndInv => ListMatchesRecord
  <2> SUFFICES ASSUME IndInv, screen = "saved", ~Loading, removing = <<>>, ~overlapped, failed = {}
               PROVE  pets \subseteq saved /\ (pets = {} => explained)
    BY DEF ListMatchesRecord
  <2>1. mine = 0 /\ Record = saved
    BY NothingRemoved DEF IndInv, DeleteIsAlone
  <2> QED
    BY <2>1 DEF IndInv, ListIsSaved, Regular
<1> QED
  BY <1>1, SavedInvariant, PTL
=============================================================================
