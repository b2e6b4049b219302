--------------------------- MODULE PetFinderPage ---------------------------
(***************************************************************************)
(* What becomes of one page of PetFinder's answer: PetDeserializer reads   *)
(* it, SwipeService drops the pets the user has decided on, the deck shows *)
(* the rest and a profile can be opened for each (PetProfileViewController *)
(* and its ImagesTableViewCell).  SwipeSession takes this conversion as a  *)
(* choice of four outcomes (PageAnswer and BadAnswer); Read below says     *)
(* which answer has which.                                                 *)
(*                                                                         *)
(* A JSON node is Nil when it is absent or not of the kind the code casts  *)
(* it to.  The fields getPet insists on are all treated alike, so a record *)
(* keeps the set of those that can be read.                                *)
(***************************************************************************)
EXTENDS Naturals, Sequences, FiniteSets, SequencesExt

CONSTANTS
  PetIds,
  Fields,      \* the leaves getPet's guard reads, apart from the photos
  MaxRecords,  \* bound: records of a page
  MaxOffset,   \* bound: largest offset
  Nil

ASSUME NilAssumption == Nil \notin Nat
ASSUME BoundsAssumption == MaxRecords \in Nat /\ MaxOffset \in Nat

\* A photo: whether its size is "x", and whether its text makes a URL.
Photos == [large : BOOLEAN, url : BOOLEAN]
PhotoLists == {Nil} \cup BoundedSeq(Photos, 1)
Records == [id : PetIds, fields : SUBSET Fields, photos : PhotoLists]
\* A response: its two nodes, the offset's "$t" and the list of records.
Responses ==
  [offsetNode : BOOLEAN, offset : 0..MaxOffset \cup {Nil},
   petsNode : BOOLEAN, pets : {Nil} \cup BoundedSeq(Records, MaxRecords)]

VARIABLES
  stage,       \* "asked", "read" or "shown"
  response,    \* the answer, or Nil: no JSON object with a "petfinder" node
  ids,         \* userViewModel.getIDsAsSet()
  pets,        \* the PetViewModels at this stage
  lastOffset,  \* SwipeService.lastOffset
  profile      \* the imageURLs of the open profile; "none" without a profile

vars == <<stage, response, ids, pets, lastOffset, profile>>

-----------------------------------------------------------------------------
\* The guard of getPet.
Complete(record) == record.fields = Fields /\ record.photos # Nil

\* The PetViewModel of a record: its id, and the large photos.
PetViewModel(record) ==
  [id |-> record.id, imageURLs |-> SelectSeq(record.photos, LAMBDA p : p.large)]

\* Mutant: the first record that cannot be read ends the list.
GetPetsUntil(records) ==
  IF \E i \in 1..Len(records) : ~Complete(records[i])
    THEN <<>> ELSE [i \in 1..Len(records) |-> PetViewModel(records[i])]

\* getPets
GetPets(records) ==
  FoldLeft(LAMBDA models, record :
             IF Complete(record) THEN Append(models, PetViewModel(record)) ELSE models,
           <<>>, records)

\* Mutant: an offset that cannot be read is none.
DeserializeNone(json) ==
  IF json = Nil \/ ~json.offsetNode \/ ~json.petsNode THEN <<<<>>, 0>>
  ELSE <<IF json.pets = Nil THEN <<>> ELSE GetPets(json.pets), json.offset>>

\* deserialize(json:)
Deserialize(json) ==
  IF json = Nil \/ ~json.offsetNode \/ ~json.petsNode THEN <<<<>>, 0>>
  ELSE <<IF json.pets = Nil THEN <<>> ELSE GetPets(json.pets),
         IF json.offset = Nil THEN 0 ELSE json.offset>>

\* Mutant: the pets the user has decided on are the ones shown.
FilterKept(models) == SelectSeq(models, LAMBDA m : m.id \in ids)

\* filter(petViewModels:)
Filter(models) ==
  LET goodIDs == {models[i].id : i \in 1..Len(models)} \ ids
  IN  SelectSeq(models, LAMBDA m : m.id \in goodIDs)

\* PetViewModel.getImageURLs
ImageURLs(pet) ==
  LET urls == SelectSeq(pet.imageURLs, LAMBDA p : p.url)
  IN  IF urls = <<>> THEN Nil ELSE urls

-----------------------------------------------------------------------------
Init ==
  /\ stage = "asked" /\ profile = "none"
  /\ response \in Responses \cup {Nil} /\ ids \in SUBSET PetIds
  /\ pets = <<>> /\ lastOffset = 0

\* executeQuery's handler, up to its call of filter.
Read ==
  /\ stage = "asked"
  /\ stage' = "read"
  /\ pets' = Deserialize(response)[1] /\ lastOffset' = Deserialize(response)[2]
  /\ UNCHANGED <<response, ids, profile>>

Show ==
  /\ stage = "read"
  /\ stage' = "shown"
  /\ pets' = Filter(pets)
  /\ UNCHANGED <<response, ids, lastOffset, profile>>

OpenProfile ==
  /\ stage = "shown" /\ profile = "none"
  /\ \E i \in 1..Len(pets) : profile' = ImageURLs(pets[i])
  /\ UNCHANGED <<stage, response, ids, pets, lastOffset>>

Next == Read \/ Show \/ OpenProfile

Spec == Init /\ [][Next]_vars

-----------------------------------------------------------------------------
(* Properties *)

TypeOK ==
  /\ stage \in {"asked", "read", "shown"} /\ response \in Responses \cup {Nil}
  /\ ids \subseteq PetIds /\ lastOffset \in 0..MaxOffset
  /\ \A i \in 1..Len(pets) : pets[i].id \in PetIds /\ pets[i].imageURLs \in Seq(Photos)

\* The positions of the records of the page that can be read.
Readable == {i \in 1..Len(response.pets) : Complete(response.pets[i])}

\* The ids, in order, of the records at the positions S.
IdsAt(S) ==
  [n \in 1..Cardinality(S) |->
     response.pets[CHOOSE i \in S : Cardinality({j \in S : j <= i}) = n].id]

\* The answer has its offset and a list of records.
HasList == response # Nil /\ response.offsetNode /\ response.petsNode /\ response.pets # Nil

\* The ids shown or read, in order.
ReadIds == [i \in 1..Len(pets) |-> pets[i].id]

\* An answer is one of the outcomes SwipeSession chooses from: the readable pets
\* in their order, or none, with the answer's offset or 0; and none of a list
\* only when the answer has lost its list or its offset.
ReadAsAssumed ==
  stage = "read" =>
    LET listed == response # Nil /\ response.offsetNode /\ response.petsNode
    IN  /\ listed => lastOffset = IF response.offset \in Nat THEN response.offset ELSE 0
        /\ ~listed => lastOffset = 0
        /\ ReadIds = IF HasList THEN IdsAt(Readable) ELSE <<>>

\* The deck shows exactly the readable pets the user has not decided on, in the
\* order of the page, and no pet of an answer without a list.
ShownExactly ==
  stage = "shown" =>
    ReadIds = IF HasList
            THEN IdsAt({i \in Readable : response.pets[i].id \notin ids})
            ELSE <<>>

-----------------------------------------------------------------------------
(* What the documentation says and the code does not do *)

\* README.md:11 "`Complete profiles` for every single pet": the profile of a pet
\* in the deck has photos to show (imageURLs.count of nil ends the app).
EveryProfileOpens == profile # Nil
=============================================================================
