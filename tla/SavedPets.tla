----------------------------- MODULE SavedPets -----------------------------
(***************************************************************************)
(* The saved pets (SavedViewController) and the profile opened from them   *)
(* (PetProfileViewController with its delete button), over UserService and *)
(* PetService.                                                             *)
(*                                                                         *)
(* Loading the list is a read of the user's record followed by a fetch of  *)
(* the pets in it.  A fetch is what FetchAll describes: it reports some of *)
(* its pets once, or is lost.  An acknowledged delete starts a load.       *)
(*                                                                         *)
(* Firebase answers reads and acknowledges writes in order, and applies    *)
(* the client's waiting writes to what it reads.  Taps are slower than the *)
(* 0.1 s fade of the overlay; the start that follows a stop in the same    *)
(* handler is not.  An alert covers the overlay, and is presented only by  *)
(* a screen that presents nothing else.                                    *)
(***************************************************************************)
EXTENDS Naturals, Sequences, FiniteSets, SequencesExt, ActivityIndicator

CONSTANTS
  Pets,
  MaxLoads,    \* bound: loads and deletes in progress
  Nil          \* no pet

ASSUME NilAssumption == Nil \notin Pets
ASSUME LoadsAssumption == MaxLoads \in Nat \ {0}

\* No user to ask for, an error for an answer, a request that gets no answer.
Failures == {"unsent", "error", "unanswered"}

VARIABLES
  net, signedIn,
  saved,       \* users/<uid>/saved
  removing,    \* pets whose removal the server has not answered, in order
  screen,      \* "main", "saved" or "profile"
  profile,     \* pet of the profile, or Nil
  mine,        \* how many of the last removals the profile on screen made
  alert,       \* an alert is up
  spinner,     \* ActivityIndicator.shared
  reads,       \* loads waiting for the user's record
  fetches,     \* the pets asked for by the loads waiting for them
  pets,        \* petViewModels
  explained,   \* explanationView.alpha is 1
  overlapped,  \* history: a delete of this visit was asked for during a load
  failed       \* history: how loads of this visit ended without a list

screenVars == <<screen, profile, mine>>
loadVars == <<reads, fetches, overlapped, failed>>
listVars == <<pets, explained>>
vars == <<net, signedIn, saved, removing, screenVars, alert, spinner, loadVars,
          listVars>>

TypeOK ==
  /\ net \in BOOLEAN /\ signedIn \in BOOLEAN /\ saved \subseteq Pets
  /\ removing \in Seq(Pets) /\ screen \in {"main", "saved", "profile"}
  /\ profile \in Pets \cup {Nil} /\ mine \in 0..Len(removing)
  /\ alert \in BOOLEAN /\ spinner \in Indicator
  /\ reads \in Nat /\ fetches \in Seq(SUBSET Pets)
  /\ pets \subseteq Pets /\ explained \in BOOLEAN
  /\ overlapped \in BOOLEAN /\ failed \subseteq Failures

-----------------------------------------------------------------------------
\* The user's saved pets as the Firebase client sees them.
Record == saved \ ToSet(removing)

Loading == reads > 0 \/ fetches # <<>>
Touchable == ~Blocks(spinner) /\ spinner.fades = 0 /\ ~alert

\* presentErrorAlert
Present == alert' = (alert \/ screen = "saved")

\* fetchUser, the overlay being in state sp: without a user no one will stop it.
FetchUser(sp) ==
  /\ spinner' = Started(sp)
  /\ IF signedIn
       THEN reads' = reads + 1 /\ UNCHANGED failed
       ELSE failed' = failed \cup {"unsent"} /\ UNCHANGED reads
  /\ UNCHANGED <<fetches, overlapped>>

\* The list is replaced; the explanation, once shown, stays.
Replace(found) ==
  /\ spinner' = Stopped(spinner)
  /\ pets' = found
  /\ explained' = (explained \/ found = {})

-----------------------------------------------------------------------------
(* Taps *)

\* The heart button of the main screen; viewDidLoad of a new controller.
Open ==
  /\ screen = "main" /\ Touchable
  /\ screen' = "saved" /\ profile' = Nil /\ mine' = 0
  /\ spinner' = Started(spinner)
  /\ reads' = IF signedIn THEN 1 ELSE 0
  /\ fetches' = <<>> /\ overlapped' = FALSE /\ failed' = IF signedIn THEN {} ELSE {"unsent"}
  /\ pets' = {} /\ explained' = FALSE
  /\ UNCHANGED <<net, signedIn, saved, removing, alert>>

\* popViewController: the controller goes, and nobody hears of its loads.
Back ==
  /\ screen = "saved" /\ Touchable
  /\ screen' = "main"
  /\ reads' = 0 /\ fetches' = <<>> /\ overlapped' = FALSE /\ failed' = {}
  /\ pets' = {} /\ explained' = FALSE
  /\ UNCHANGED <<net, signedIn, saved, removing, profile, mine, alert, spinner>>

Select(pet) ==
  /\ screen = "saved" /\ Touchable /\ pet \in pets
  /\ screen' = "profile" /\ profile' = pet /\ mine' = 0
  /\ UNCHANGED <<net, signedIn, saved, removing, alert, spinner, loadVars, listVars>>

Close ==
  /\ screen = "profile" /\ Touchable
  /\ screen' = "saved" /\ profile' = Nil /\ mine' = 0
  /\ UNCHANGED <<net, signedIn, saved, removing, alert, spinner, loadVars, listVars>>

\* Mutant: the delete button is on every screen.
DeleteAnywhere ==
  /\ Touchable /\ signedIn
  /\ Len(removing) + reads + Len(fetches) < MaxLoads
  /\ spinner' = Started(spinner)
  /\ removing' = Append(removing, profile)
  /\ mine' = mine + 1
  /\ overlapped' = (overlapped \/ Loading \/ removing # <<>>)
  /\ UNCHANGED <<net, signedIn, saved, screen, profile, alert, reads, fetches,
                 failed, listVars>>

\* deletePet, confirmed, and UserService.delete.
Delete ==
  /\ screen = "profile" /\ Touchable /\ signedIn
  /\ Len(removing) + reads + Len(fetches) < MaxLoads
  /\ spinner' = Started(spinner)
  /\ removing' = Append(removing, profile)
  /\ mine' = mine + 1
  /\ overlapped' = (overlapped \/ Loading \/ removing # <<>>)
  /\ UNCHANGED <<net, signedIn, saved, screen, profile, alert, reads, fetches,
                 failed, listVars>>

DismissAlert ==
  /\ alert /\ spinner.fades = 0
  /\ alert' = FALSE
  /\ UNCHANGED <<net, signedIn, saved, removing, screenVars, spinner, loadVars, listVars>>

-----------------------------------------------------------------------------
(* Answers *)

\* Mutant: the overlay stays over the empty list.
UserAnswerCovered ==
  /\ reads > 0 /\ net
  /\ reads' = reads - 1
  /\ IF Record = {}
       THEN pets' = {} /\ explained' = TRUE /\ UNCHANGED <<spinner, fetches>>
       ELSE fetches' = Append(fetches, Record) /\ UNCHANGED <<spinner, listVars>>
  /\ UNCHANGED <<net, signedIn, saved, removing, screenVars, alert, overlapped, failed>>

\* didReceive and fetchPets.
UserAnswer ==
  /\ reads > 0 /\ net
  /\ reads' = reads - 1
  /\ IF Record = {}
       THEN Replace({}) /\ UNCHANGED fetches
       ELSE fetches' = Append(fetches, Record) /\ UNCHANGED <<spinner, listVars>>
  /\ UNCHANGED <<net, signedIn, saved, removing, screenVars, alert, overlapped, failed>>

\* The record cannot be read or deserialized: an alert, over the overlay.
UserFails ==
  /\ reads > 0 /\ net
  /\ reads' = reads - 1
  /\ failed' = failed \cup {"error"}
  /\ Present
  /\ UNCHANGED <<net, signedIn, saved, removing, screenVars, spinner, fetches,
                 overlapped, listVars>>

\* didSucceedWith, in any order of the fetches.
PetsAnswer ==
  /\ \E i \in 1..Len(fetches) :
       /\ \E found \in SUBSET fetches[i] : Replace(found)
       /\ fetches' = RemoveAt(fetches, i)
  /\ UNCHANGED <<net, signedIn, saved, removing, screenVars, alert, reads,
                 overlapped, failed>>

\* A request of the fetch gets no answer, and so the fetch no report.
PetsLost ==
  /\ \E i \in 1..Len(fetches) : fetches' = RemoveAt(fetches, i)
  /\ failed' = failed \cup {"unanswered"}
  /\ UNCHANGED <<net, signedIn, saved, removing, screenVars, alert, spinner, reads,
                 overlapped, listVars>>

\* Mutant: an acknowledged delete does not load the list again.
DeleteUnloaded ==
  /\ removing # <<>> /\ net
  /\ saved' = saved \ {Head(removing)}
  /\ removing' = Tail(removing)
  /\ spinner' = Stopped(spinner)
  /\ IF Len(removing) <= mine
       THEN screen' = "saved" /\ profile' = Nil /\ mine' = 0
       ELSE UNCHANGED screenVars
  /\ UNCHANGED <<net, signedIn, alert, loadVars, listVars>>

\* The removal is done.  The profile that asked for it, if it is still there,
\* unwinds to the list, which loads again.
DeleteAcked ==
  /\ removing # <<>> /\ net
  /\ saved' = saved \ {Head(removing)}
  /\ removing' = Tail(removing)
  /\ IF Len(removing) <= mine
       THEN screen' = "saved" /\ profile' = Nil /\ mine' = 0 /\ FetchUser(Stopped(spinner))
       ELSE spinner' = Stopped(spinner) /\ UNCHANGED <<screenVars, loadVars>>
  /\ UNCHANGED <<net, signedIn, alert, listVars>>

\* The server refuses it: the profile's didFailWith is empty.
DeleteRefused ==
  /\ removing # <<>> /\ net
  /\ removing' = Tail(removing)
  /\ spinner' = Stopped(spinner)
  /\ mine' = IF mine = Len(removing) THEN mine - 1 ELSE mine
  /\ UNCHANGED <<net, signedIn, saved, screen, profile, alert, loadVars, listVars>>

-----------------------------------------------------------------------------
(* The surroundings *)

FadeEnds ==
  /\ spinner.fades > 0
  /\ spinner' = Faded(spinner)
  /\ UNCHANGED <<net, signedIn, saved, removing, screenVars, alert, loadVars, listVars>>

\* A swipe on the main screen.
Save(pet) ==
  /\ screen = "main" /\ Touchable /\ signedIn /\ pet \notin ToSet(removing)
  /\ saved' = saved \cup {pet}
  /\ UNCHANGED <<net, signedIn, removing, screenVars, alert, spinner, loadVars, listVars>>

NetworkChanges ==
  /\ net' = ~net
  /\ UNCHANGED <<signedIn, saved, removing, screenVars, alert, spinner, loadVars, listVars>>

AccountRevoked ==
  /\ signedIn
  /\ signedIn' = FALSE
  /\ UNCHANGED <<net, saved, removing, screenVars, alert, spinner, loadVars, listVars>>

-----------------------------------------------------------------------------
Init ==
  /\ net \in BOOLEAN /\ signedIn = TRUE /\ saved \in SUBSET Pets /\ removing = <<>>
  /\ screen = "main" /\ profile = Nil /\ mine = 0 /\ alert = FALSE /\ spinner = Idle
  /\ reads = 0 /\ fetches = <<>> /\ overlapped = FALSE /\ failed = {}
  /\ pets = {} /\ explained = FALSE

Next ==
  \/ Open \/ Back \/ Close \/ Delete \/ DismissAlert
  \/ \E pet \in Pets : Select(pet) \/ Save(pet)
  \/ UserAnswer \/ UserFails \/ PetsAnswer \/ PetsLost \/ DeleteAcked \/ DeleteRefused
  \/ FadeEnds \/ NetworkChanges \/ AccountRevoked

Spec == Init /\ [][Next]_vars

\* Every request is answered one way or the other, and fades end.
Fairness ==
  /\ WF_vars(UserAnswer \/ UserFails) /\ WF_vars(PetsAnswer \/ PetsLost)
  /\ WF_vars(DeleteAcked \/ DeleteRefused) /\ WF_vars(FadeEnds)

FairSpec == Spec /\ Fairness

-----------------------------------------------------------------------------
(* Properties *)

\* As long as no load fails and no delete is asked for during a load, the list at
\* rest holds saved pets only (a deleted pet is gone from it), and an empty list
\* is explained.
ListMatchesRecord ==
  screen = "saved" /\ ~Loading /\ removing = <<>> /\ ~overlapped /\ failed = {} =>
    pets \subseteq saved /\ (pets = {} => explained)

\* While the device is connected, the overlay never stays for good: a load that is
\* sent, answered with the record and answered for each of its pets lifts it, and so
\* does every answer to a delete, in whatever order they come, through refusals,
\* fades, an account revoked under way and loads that overlap.  A load answered by
\* an error does not (ErrorLiftsOverlay below), nor one that is never answered.
OverlayLifts == [](net /\ failed = {}) => []<>~Blocks(spinner)

-----------------------------------------------------------------------------
(* What the messages say and the code does not do *)

\* ErrorDispatch.swift:19 "Oops! Your pet couldn't be deleted. Please try
\* again.": a refused delete is told.
RefusalTold == [][DeleteRefused => alert']_vars

\* ErrorDispatch.swift:29 "Oops, something bad happened. Please try again!": after
\* the alert of a failed load the screen can be used again.
ErrorLiftsOverlay == []net => (alert ~> ~Blocks(spinner))

\* Saved.storyboard:43 "Swiping right on a pet saves it here for later!": the
\* text is shown to a user who has saved no pet.
NothingSavedYet == explained /\ ~Loading => Record = {}
=============================================================================
