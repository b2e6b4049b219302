---------------------------- MODULE SwipeSession ----------------------------
(***************************************************************************)
(* Petsy's main screen: SwipeViewController, the SwipeService behind it,   *)
(* the location and user requests that service chains, the deck of cards   *)
(* (Koloda) and the Firebase writes a swipe makes.                         *)
(*                                                                         *)
(* A query is a chain of asynchronous calls, each issued by the answer to  *)
(* the one before:                                                         *)
(*                                                                         *)
(*   "auth"  permission to use the location  LocationService.requestLocation*)
(*   "geo"   city and state                  LocationService.getLocation   *)
(*   "user"  the user's record               UserService.getUser           *)
(*   "pets"  a page of pets                  SwipeService.executeQuery     *)
(*                                                                         *)
(* A pet is its position in the result list PetFinder keeps for the        *)
(* location, so a page is an interval of positions.  The list is fixed:    *)
(* PetFinder is an external service, honest about it except for the        *)
(* answers the deserializer turns into offset 0, which with the sign-outs  *)
(* Auth refuses are the faults, at most MaxFaults of them, and for pages   *)
(* without a list (PetFinderPage derives these outcomes).                  *)
(* Indices (cur, currentIndex) count from 0 as in the source.              *)
(***************************************************************************)
EXTENDS Integers, Sequences, FiniteSets, ActivityIndicator

CONSTANTS
  CatalogueSize,  \* length of PetFinder's result list
  Batch,          \* records per page (count=100 in the URL)
  Decodable,      \* pets whose record has every field getPet needs
  MaxFaults,      \* bound: answers whose offset is lost, sign-outs that throw
  MaxRefused,     \* bound: writes of a session the server refuses
  MaxFades,       \* bound: fades in progress when the user taps again
  ListsLost,      \* whether a page may come without its list of records
  Nil             \* an optional that holds no value

Pets == 1..CatalogueSize
Directions == {"left", "right"}

ASSUME SizeAssumption == CatalogueSize \in Nat
ASSUME BatchAssumption == Batch \in Nat \ {0}
ASSUME DecodableAssumption == Decodable \subseteq Pets
ASSUME BoundAssumption == MaxFaults \in Nat /\ MaxRefused \in Nat /\ MaxFades \in Nat
ASSUME FaultsAssumption == ListsLost \in BOOLEAN
ASSUME NilAssumption == Nil \notin Nat \cup Directions

Steps == {"auth", "geo", "user", "pets"}
Decided == {"whenInUse", "denied", "other"}
Permissions == Decided \cup {"notDetermined"}

VARIABLES
  \* the device, the backends and the rest of the app
  net,           \* the network is reachable
  permission,    \* CLLocationManager.authorizationStatus
  signedIn,      \* Auth.auth().currentUser is not nil
  saved,         \* users/<uid>/saved
  rejected,      \* users/<uid>/rejected
  pending,       \* writes Firebase has accepted and the server has not
  faults,        \* bad answers and refused sign-outs so far
  screen,        \* "launch", "login" or "swipe"
  spinner,       \* ActivityIndicator.shared
  \* SwipeService
  wired,         \* userService.delegate and locationService.delegate are set
  inFlight,      \* calls that have not been answered, by step
  granted,       \* the status the pending authorization promise holds
  asked,         \* offset in the URL of the pending pet query
  round,         \* tells a repeated query from the one before it
  location,      \* location is not nil
  hasUser,       \* userViewModel is not nil
  ids,           \* userViewModel.getIDsAsSet()
  lastOffset,    \* lastOffset
  \* SwipeViewController and its KolodaView
  list,          \* petViewModels
  currentIndex,  \* currentIndex
  count,         \* KolodaView.countOfCards
  cur,           \* KolodaView.currentCardIndex
  flying,        \* direction of the swipe whose animation is running, or Nil
  locationView, errorView,   \* alpha is 1
  hidden,        \* kolodaView.isHidden
  \* history of the session
  gestures,      \* direction of each swipe, in order
  submitted,     \* writes handed to Firebase, in order
  refused        \* writes the server has refused

backendVars == <<saved, rejected, pending>>
deviceVars == <<net, permission, signedIn, faults>>
serviceVars == <<location, hasUser, ids, lastOffset>>
callVars == <<inFlight, granted, asked, round>>
deckVars == <<list, currentIndex, count, cur, flying, gestures, submitted, refused>>
viewVars == <<locationView, errorView, hidden>>
vars == <<net, permission, signedIn, saved, rejected, pending, faults,
          screen, spinner, wired, inFlight, granted, asked, round, location,
          hasUser, ids, lastOffset, list, currentIndex, count, cur, flying,
          locationView, errorView, hidden, gestures, submitted, refused>>

-----------------------------------------------------------------------------
(* Calls and their answers *)

NoCalls == [s \in Steps |-> 0]
Issued(calls, s) == [calls EXCEPT ![s] = @ + 1]
\* Mutant: the record is observed, not read once, and keeps answering.
UserObserved(s) == IF s = "user" THEN inFlight ELSE [inFlight EXCEPT ![s] = @ - 1]
Answered(s) == [inFlight EXCEPT ![s] = @ - 1]

\* The pets the user's record holds as the Firebase client sees it: writes
\* that wait for the server are part of it.
\* Mutant: getIDsAsSet forgets the rejected pets.
SavedOnly == saved \cup {w[2] : w \in pending \cap ({"right"} \X Pets)}
Recorded == saved \cup rejected \cup {w[2] : w \in pending}

\* PetFinder's page at an offset, and the offset it answers with.
Page(offset) == {p \in Pets : offset < p /\ p <= offset + Batch}
\* Mutants: an overlapping page, no next page, the same page, what is left.
OverlappingOffset(offset) == IF offset + Batch < CatalogueSize THEN offset + Batch - 1 ELSE CatalogueSize
OffsetUntilEnd(offset) == IF offset + Batch < CatalogueSize THEN offset + Batch ELSE Nil
SameOffset(offset) == offset
OffsetLeft(offset) == offset + Batch - CatalogueSize
NextOffset(offset) ==
  IF offset + Batch < CatalogueSize THEN offset + Batch ELSE CatalogueSize

\* The sequence of the pets of S in result order.
Listing(S) ==
  {s \in [1..Cardinality(S) -> S] :
     \A i, j \in 1..Cardinality(S) : i < j => s[i] < s[j]}

\* petViewModels[index]
PetAt(index) == list[index + 1]

-----------------------------------------------------------------------------
(* What the handlers are made of *)

\* Mutant: the deck stays visible behind the explanation.
FailKeepsDeck(sp) ==
  /\ spinner' = Stopped(sp)
  /\ errorView' = TRUE
  /\ locationView' = FALSE
  /\ UNCHANGED hidden

\* SwipeViewController.service(didFailWith:), the overlay being in state sp.
Fail(sp) ==
  /\ spinner' = Stopped(sp)
  /\ errorView' = TRUE
  /\ locationView' = FALSE
  /\ hidden' = TRUE

\* Mutant: the delegates are never set.
InitializeQueryUnwired(calls, sp, connected) ==
  /\ inFlight' = IF net THEN Issued(calls, "auth") ELSE calls
  /\ granted' = IF net THEN permission ELSE granted
  /\ spinner' = IF net THEN Started(sp) ELSE sp
  /\ wired' = connected

\* SwipeService.initializeQuery: nothing at all without a connection.
InitializeQuery(calls, sp, connected) ==
  /\ inFlight' = IF net THEN Issued(calls, "auth") ELSE calls
  /\ granted' = IF net THEN permission ELSE granted
  /\ spinner' = IF net THEN Started(sp) ELSE sp
  /\ wired' = (connected \/ net)

\* SwipeService.repeatQuery, again silent without a connection.
RepeatQuery(calls, sp, offset) ==
  LET complete == location /\ offset # Nil IN
  /\ IF net /\ complete
       THEN /\ inFlight' = Issued(calls, "pets")
            /\ asked' = offset
            /\ round' = 1 - round
       ELSE inFlight' = calls /\ UNCHANGED <<asked, round>>
  /\ IF net /\ ~complete
       THEN Fail(sp)
       ELSE spinner' = sp /\ UNCHANGED viewVars

\* KolodaView.reloadData: count the cards, and announce the top one if there was
\* none.
\* Mutant: the cards are not counted again.
ReloadUncounted(pets) == UNCHANGED <<count, currentIndex>>
Reload(pets) ==
  /\ count' = Len(pets)
  /\ currentIndex' = IF cur < Len(pets) /\ (cur = 0 \/ cur >= count)
                       THEN cur ELSE currentIndex

\* service(didSucceedWith:) with pets to show: append them, reload the deck.
Show(batch) ==
  /\ locationView' = FALSE
  /\ errorView' = FALSE
  /\ spinner' = Stopped(spinner)
  /\ list' = list \o batch
  /\ Reload(list')
  /\ UNCHANGED <<hidden, cur, flying, gestures, submitted, refused>>

\* Mutant: a swipe without a connection is dropped.
RecordOnline(direction, pet) ==
  IF hasUser /\ net
    THEN /\ pending' = pending \cup {<<direction, pet>>}
         /\ submitted' = Append(submitted, <<direction, pet>>)
    ELSE UNCHANGED <<pending, submitted>>

\* SwipeService.save and reject: only with a user, and never awaited.
Record(direction, pet) ==
  IF hasUser
    THEN /\ pending' = pending \cup {<<direction, pet>>}
         /\ submitted' = Append(submitted, <<direction, pet>>)
    ELSE UNCHANGED <<pending, submitted>>

\* A SwipeViewController with nothing loaded, or none at all.
BlankSession ==
  /\ asked' = 0 /\ round' = 0
  /\ location' = FALSE /\ hasUser' = FALSE /\ ids' = {} /\ lastOffset' = Nil
  /\ list' = <<>> /\ currentIndex' = Nil
  /\ count' = 0 /\ cur' = 0 /\ flying' = Nil
  /\ gestures' = <<>> /\ submitted' = <<>> /\ refused' = {}
  /\ locationView' = FALSE /\ errorView' = FALSE /\ hidden' = FALSE

EndSession ==
  /\ BlankSession
  /\ inFlight' = NoCalls /\ granted' = "notDetermined" /\ wired' = FALSE

\* viewDidLoad of a new SwipeViewController.
BeginSession(sp) ==
  /\ screen' = "swipe"
  /\ BlankSession
  /\ InitializeQuery(NoCalls, sp, FALSE)

-----------------------------------------------------------------------------
(* Screens *)

Launch ==
  /\ screen = "launch"
  /\ IF signedIn
       THEN BeginSession(spinner)
       ELSE /\ screen' = "login"
            /\ UNCHANGED <<spinner, wired, serviceVars, callVars, deckVars, viewVars>>
  /\ UNCHANGED <<deviceVars, backendVars>>

\* A successful log in: its start of the overlay is never stopped.
LogIn ==
  /\ screen = "login" /\ ~Blocks(spinner)
  /\ signedIn' = TRUE
  /\ BeginSession(Started(spinner))
  /\ UNCHANGED <<net, permission, faults, backendVars>>

\* The log out button.  The queued writes the server will still accept are the
\* server's choice.  Without a delegate nobody hears of the log out.
LogOutSucceeds ==
  /\ screen = "swipe" /\ ~Blocks(spinner) /\ spinner.fades < MaxFades
  /\ signedIn' = FALSE
  /\ spinner' = Stopped(Started(spinner))
  /\ pending' \in SUBSET pending
  /\ IF wired
       THEN screen' = "login" /\ EndSession
       ELSE UNCHANGED <<screen, wired, serviceVars, callVars, deckVars, viewVars>>
  /\ UNCHANGED <<net, permission, faults, saved, rejected>>

LogOutFails ==
  /\ faults < MaxFaults
  /\ faults' = faults + 1
  /\ screen = "swipe" /\ ~Blocks(spinner) /\ spinner.fades < MaxFades
  /\ IF wired
       THEN Fail(Stopped(Started(spinner)))
       ELSE spinner' = Stopped(Started(spinner)) /\ UNCHANGED viewVars
  /\ UNCHANGED <<net, permission, signedIn, backendVars, screen, wired,
                 serviceVars, callVars, deckVars>>

\* The "Try again" button of locationView.
Retry ==
  /\ screen = "swipe" /\ ~Blocks(spinner) /\ spinner.fades < MaxFades
  /\ locationView
  /\ locationView' = FALSE
  /\ hidden' = FALSE
  /\ InitializeQuery(inFlight, spinner, wired)
  /\ UNCHANGED <<deviceVars, backendVars, screen, asked, round, serviceVars,
                 deckVars, errorView>>

\* The process ends and is started again; Firebase keeps no queue on disk.
Relaunch ==
  /\ screen # "launch"
  /\ screen' = "launch"
  /\ spinner' = Idle
  /\ pending' = {}
  /\ EndSession
  /\ UNCHANGED <<deviceVars, saved, rejected>>

-----------------------------------------------------------------------------
(* Answers *)

AuthAnswer ==
  /\ inFlight["auth"] > 0 /\ granted \in Decided
  /\ CASE granted = "whenInUse" ->
            /\ inFlight' = Issued(Answered("auth"), "geo")
            /\ UNCHANGED <<spinner, viewVars>>
       [] granted = "denied" ->
            /\ inFlight' = Answered("auth")
            /\ spinner' = Stopped(spinner)
            /\ locationView' = TRUE /\ errorView' = FALSE /\ hidden' = TRUE
       [] OTHER -> inFlight' = Answered("auth") /\ Fail(spinner)
  /\ granted' = "notDetermined"
  /\ UNCHANGED <<deviceVars, backendVars, screen, wired, asked, round,
                 serviceVars, deckVars>>

\* The place is known: ask for the user, if Auth has one.
GeoAnswer ==
  /\ inFlight["geo"] > 0
  /\ location' = TRUE
  /\ IF signedIn
       THEN inFlight' = Issued(Answered("geo"), "user") /\ UNCHANGED <<spinner, viewVars>>
       ELSE inFlight' = Answered("geo") /\ Fail(spinner)
  /\ UNCHANGED <<deviceVars, backendVars, screen, wired, granted, asked, round,
                 hasUser, ids, lastOffset, deckVars>>

\* The user's record arrives: keep it and ask for the first page.
UserAnswer ==
  /\ inFlight["user"] > 0 /\ net
  /\ hasUser' = TRUE
  /\ ids' = Recorded
  /\ inFlight' = IF location THEN Issued(Answered("user"), "pets") ELSE Answered("user")
  /\ asked' = IF location THEN 0 ELSE asked
  /\ UNCHANGED <<deviceVars, backendVars, screen, spinner, wired, granted, round,
                 location, lastOffset, deckVars, viewVars>>

\* A page, or what the deserializer makes of it: keep its offset, drop the pets
\* in the user's snapshot, show the rest or ask again.
Deliver(pets, offset) ==
  /\ inFlight["pets"] > 0
  /\ lastOffset' = offset
  /\ IF ~hasUser
       THEN inFlight' = Answered("pets") /\ UNCHANGED <<spinner, asked, round, deckVars, viewVars>>
       ELSE \E batch \in Listing(pets \ ids) :
              IF batch = <<>>
                THEN RepeatQuery(Answered("pets"), spinner, offset) /\ UNCHANGED deckVars
                ELSE inFlight' = Answered("pets") /\ Show(batch) /\ UNCHANGED <<asked, round>>
  /\ UNCHANGED <<net, permission, signedIn, backendVars, screen, wired, granted,
                 location, hasUser, ids>>

\* A page whose records are not in an array keeps its offset and has no pets.
PageAnswer ==
  /\ \/ Deliver(Page(asked) \cap Decodable, NextOffset(asked))
     \/ ListsLost /\ Deliver({}, NextOffset(asked))
  /\ UNCHANGED faults

\* An answer without a usable offset still delivers its pets, a malformed one
\* none; both leave offset 0.
BadAnswer ==
  /\ faults < MaxFaults
  /\ faults' = faults + 1
  /\ \E pets \in {Page(asked) \cap Decodable, {}} : Deliver(pets, 0)

\* A step that cannot be completed.
StepFails(s) ==
  /\ s \in {"geo", "user", "pets"}
  /\ inFlight[s] > 0
  /\ s = "user" => net
  /\ inFlight' = Answered(s)
  /\ Fail(spinner)
  /\ UNCHANGED <<deviceVars, backendVars, screen, wired, granted, asked, round,
                 serviceVars, deckVars>>

-----------------------------------------------------------------------------
(* The deck *)

\* Mutant: the next card leaves while the last one is still on its way.
SwipeOverlapping(direction) ==
  /\ screen = "swipe" /\ ~Blocks(spinner) /\ cur < count
  /\ cur' = cur + 1
  /\ gestures' = Append(gestures, direction)
  /\ IF cur + 1 < count
       THEN /\ flying' = direction
            /\ UNCHANGED <<pending, submitted, spinner, inFlight, asked, round, viewVars>>
       ELSE /\ Record(direction, PetAt(cur))
            /\ RepeatQuery(inFlight, Started(spinner), lastOffset)
            /\ UNCHANGED flying
  /\ UNCHANGED <<deviceVars, saved, rejected, screen, wired, granted, serviceVars,
                 list, currentIndex, count, refused>>

\* The front card leaves the deck, by a button or by the finger.  With cards
\* left the delegate is told when they have moved up; the last card is reported
\* at once, and the deck asks for more.
Swipe(direction) ==
  /\ screen = "swipe" /\ ~Blocks(spinner)
  /\ flying = Nil /\ cur < count
  /\ cur' = cur + 1
  /\ gestures' = Append(gestures, direction)
  /\ IF cur + 1 < count
       THEN /\ flying' = direction
            /\ UNCHANGED <<pending, submitted, spinner, inFlight, asked, round, viewVars>>
       ELSE /\ Record(direction, PetAt(cur))
            /\ RepeatQuery(inFlight, Started(spinner), lastOffset)
            /\ UNCHANGED flying
  /\ UNCHANGED <<deviceVars, saved, rejected, screen, wired, granted, serviceVars,
                 list, currentIndex, count, refused>>

\* The animation ends, or a new drag ends it: the index is read now.
SwipeEnds ==
  /\ flying # Nil
  /\ flying' = Nil
  /\ Record(flying, PetAt(cur - 1))
  /\ currentIndex' = cur
  /\ UNCHANGED <<deviceVars, saved, rejected, screen, spinner, wired, callVars,
                 serviceVars, list, count, cur, viewVars, gestures, refused>>

-----------------------------------------------------------------------------
(* The surroundings *)

FadeEnds ==
  /\ spinner.fades > 0
  /\ spinner' = Faded(spinner)
  /\ UNCHANGED <<deviceVars, backendVars, screen, wired, callVars, serviceVars,
                 deckVars, viewVars>>

WriteLands ==
  /\ net /\ signedIn
  /\ \E w \in pending :
       /\ pending' = pending \ {w}
       /\ saved' = IF w[1] = "right" THEN saved \cup {w[2]} ELSE saved
       /\ rejected' = IF w[1] = "left" THEN rejected \cup {w[2]} ELSE rejected
  /\ UNCHANGED <<deviceVars, screen, spinner, wired, callVars, serviceVars,
                 deckVars, viewVars>>

\* The server refuses a write.  Firebase takes it back from the record it shows,
\* and setValue was given no completion: nobody is told.
WriteRefused ==
  /\ net /\ Cardinality(refused) < MaxRefused
  /\ \E w \in pending : pending' = pending \ {w} /\ refused' = refused \cup {w}
  /\ UNCHANGED <<deviceVars, saved, rejected, screen, spinner, wired, callVars,
                 serviceVars, list, currentIndex, count, cur, flying, gestures,
                 submitted, viewVars>>

NetworkChanges ==
  /\ net' = ~net
  /\ UNCHANGED <<permission, signedIn, faults, backendVars, screen, spinner,
                 wired, callVars, serviceVars, deckVars, viewVars>>

\* The system dialog or the Settings app; an undecided request hears of it.
PermissionChanges ==
  /\ permission' \in Decided \ {permission}
  /\ granted' = IF inFlight["auth"] > 0 /\ granted = "notDetermined"
                  THEN permission' ELSE granted
  /\ UNCHANGED <<net, signedIn, faults, backendVars, screen, spinner, wired,
                 inFlight, asked, round, serviceVars, deckVars, viewVars>>

\* Firebase signs out a user whose account was disabled or deleted.
AccountRevoked ==
  /\ signedIn
  /\ signedIn' = FALSE
  /\ UNCHANGED <<net, permission, faults, backendVars, screen, spinner, wired,
                 callVars, serviceVars, deckVars, viewVars>>

-----------------------------------------------------------------------------
Init ==
  /\ net \in BOOLEAN /\ permission \in Permissions /\ signedIn \in BOOLEAN
  /\ saved \in SUBSET Pets /\ rejected \in SUBSET (Pets \ saved)
  /\ pending = {} /\ faults = 0
  /\ screen = "launch" /\ spinner = Idle /\ wired = FALSE
  /\ inFlight = NoCalls /\ granted = "notDetermined" /\ asked = 0 /\ round = 0
  /\ location = FALSE /\ hasUser = FALSE /\ ids = {} /\ lastOffset = Nil
  /\ list = <<>> /\ currentIndex = Nil /\ count = 0 /\ cur = 0 /\ flying = Nil
  /\ locationView = FALSE /\ errorView = FALSE /\ hidden = FALSE
  /\ gestures = <<>> /\ submitted = <<>> /\ refused = {}

Next ==
  \/ Launch \/ LogIn \/ LogOutSucceeds \/ LogOutFails \/ Retry \/ Relaunch
  \/ AuthAnswer \/ GeoAnswer \/ UserAnswer \/ PageAnswer \/ BadAnswer
  \/ \E s \in Steps : StepFails(s)
  \/ \E d \in Directions : Swipe(d)
  \/ SwipeEnds \/ FadeEnds \/ WriteLands \/ WriteRefused
  \/ NetworkChanges \/ PermissionChanges \/ AccountRevoked

Spec == Init /\ [][Next]_vars

\* Every call of the chain is answered one way or the other (the user's record
\* only while connected), and animations end.  Nothing is asked of the user,
\* of the network or of what PetFinder answers.
Fairness ==
  /\ WF_vars(Launch)
  /\ WF_vars(AuthAnswer)
  /\ WF_vars(GeoAnswer \/ StepFails("geo"))
  /\ WF_vars(UserAnswer \/ StepFails("user"))
  /\ WF_vars(PageAnswer \/ BadAnswer \/ StepFails("pets"))
  /\ WF_vars(SwipeEnds) /\ WF_vars(FadeEnds)

FairSpec == Spec /\ Fairness

-----------------------------------------------------------------------------
(* Properties *)

Writes == Directions \X Pets

DeviceType ==
  /\ net \in BOOLEAN /\ permission \in Permissions /\ signedIn \in BOOLEAN
  /\ saved \subseteq Pets /\ rejected \subseteq Pets /\ pending \subseteq Writes
  /\ faults \in 0..MaxFaults

ServiceType ==
  /\ wired \in BOOLEAN /\ granted \in Permissions
  /\ asked \in Nat /\ round \in {0, 1} /\ location \in BOOLEAN /\ hasUser \in BOOLEAN
  /\ ids \subseteq Pets /\ lastOffset \in Nat \cup {Nil}
  /\ inFlight \in [Steps -> Nat]

DeckType ==
  /\ list \in Seq(Pets) /\ currentIndex \in Nat \cup {Nil}
  /\ count \in Nat /\ cur \in Nat /\ flying \in Directions \cup {Nil}
  /\ gestures \in Seq(Directions) /\ submitted \in Seq(Writes) /\ refused \subseteq Writes

ScreenType ==
  /\ screen \in {"launch", "login", "swipe"} /\ spinner \in Indicator
  /\ locationView \in BOOLEAN /\ errorView \in BOOLEAN /\ hidden \in BOOLEAN

\* Every variable keeps its type: no handler stores an index, an offset or a
\* count of fades outside its range.
TypeOK == DeviceType /\ ServiceType /\ DeckType /\ ScreenType

\* The index a pending or next callback of the deck hands to the controller is
\* always inside petViewModels, and currentIndex is the front card or the one
\* just swiped (petViewModels[index] would crash outside the array).
CallbacksInRange ==
  /\ count = Len(list) /\ cur <= count /\ Len(gestures) = cur
  /\ flying # Nil => 0 < cur /\ cur < count
  /\ currentIndex # Nil => currentIndex < count /\ currentIndex \in {cur - 1, cur}
  /\ cur < count => currentIndex = IF flying = Nil THEN cur ELSE cur - 1

\* The app hands every reported swipe to Firebase once, in the order of the swipes
\* and under the pet and direction that left the deck, whatever pages, failures
\* and lost connections come between; only the card whose animation is running is
\* not handed over yet.  From then on the session's record shows the swipe until
\* the server refuses the write.
SwipesReported == IF flying = Nil THEN cur ELSE cur - 1
Stored == ({"right"} \X saved) \cup ({"left"} \X rejected)
SwipesHandedOver ==
  /\ submitted = [i \in 1..SwipesReported |-> <<gestures[i], list[i]>>]
  /\ \A i \in 1..SwipesReported : submitted[i] \in Stored \cup pending \cup refused
  /\ flying # Nil => flying = gestures[cur]

\* The screen uses its deck by the contract CardDeck states: it is filled only
\* when it is empty, and its callbacks are taken in the order the cards left.
Deck == INSTANCE CardDeck WITH
  leaving <- flying,
  told <- [i \in 1..SwipesReported |-> <<i - 1, gestures[i]>>]
IsCardDeck == Deck!Spec

\* One query at a time: no two calls of the chain are ever in flight together,
\* and none while there are cards to swipe or an explanation to read.  A second
\* chain would append the same pets twice.
OneQueryAtATime ==
  \A s \in Steps : inFlight[s] > 0 =>
    /\ inFlight[s] = 1 /\ \A t \in Steps \ {s} : inFlight[t] = 0
    /\ screen = "swipe" /\ wired /\ cur = count

\* Until Auth refuses a sign-out (or another fault occurs), the deck is hidden
\* exactly while one explanation is shown, and never with cards in it or a query
\* that could bring some.
HiddenExplained ==
  faults = 0 =>
    /\ hidden <=> (locationView \/ errorView)
    /\ ~(locationView /\ errorView)
    /\ hidden => cur = count /\ inFlight = NoCalls

\* Pets to swipe and pages on the way imply the user, the place and the offset
\* of the next page: repeatQuery never gives up for want of a parameter, and no
\* swipe meets the guard that drops it.
QueryComplete ==
  /\ cur < count => hasUser /\ location /\ lastOffset # Nil
  /\ inFlight["pets"] > 0 => hasUser /\ location
  /\ inFlight["user"] > 0 => location

\* What the properties above rest on: cards and calls exist only on a main
\* screen whose services have their delegates, and "Try again" can be tapped
\* only when no query is running.
SessionShape ==
  /\ cur < count => screen = "swipe" /\ wired
  /\ ~wired => count = 0 /\ inFlight = NoCalls
  /\ locationView => screen = "swipe" /\ inFlight = NoCalls /\ cur = count

\* As long as PetFinder's answers keep their offset (and Auth refuses no sign-out,
\* the other fault), no pet is shown twice in a
\* session and none the user has already saved or rejected is shown again.
FeedNeverRepeats ==
  faults = 0 =>
    /\ \A i, j \in 1..Len(list) : list[i] = list[j] => i = j
    /\ \A i \in cur + 1 .. Len(list) : list[i] \notin Recorded

\* ... and no pet ends up both saved and rejected.
NeverSavedAndRejected ==
  faults = 0 =>
    \A p \in Pets :
      ~ ( /\ p \in saved \/ <<"right", p>> \in pending
          /\ p \in rejected \/ <<"left", p>> \in pending )

-----------------------------------------------------------------------------
(* Progress *)

Waiting ==
  \/ \E s \in {"geo", "user", "pets"} : inFlight[s] > 0
  \/ inFlight["auth"] > 0 /\ granted \in Decided

\* There is a pet the running query can still find.
FreshAhead ==
  IF hasUser
    THEN \E p \in Decodable \ ids : inFlight["pets"] > 0 => p > asked
    ELSE Decodable \ Recorded # {}

\* The query is over for the person at the screen.
Settled == cur < count \/ locationView \/ errorView \/ screen # "swipe"

\* While the device stays connected, a query that still has a pet to find ends
\* with cards or with an explanation, through any number of filtered pages and
\* bad answers.
QueryAnswered == []net => (Waiting /\ FreshAhead ~> Settled)

-----------------------------------------------------------------------------
(* What the documentation says and the code does not do; the README discusses  *)
(* each under "Findings".                                                      *)

\* SwipeService.swift:83 "Filter out the pets that this user has already saved
\* or rejected": no pet in the user's record is offered again.
SavedOrRejectedFilteredOut ==
  \A i \in cur + 1 .. Len(list) : list[i] \notin Recorded

\* SwipeServiceDelegate.swift:30 "Required: Called if the service failed to
\* complete a request": once there have been cards, the overlay covers the
\* screen only while a request is running that will report.
FailureReported == Blocks(spinner) /\ count > 0 => inFlight # NoCalls

\* Main.storyboard:146 "Oh no, there are no pets in your area": the text is
\* shown only when there is no card.
NoPetsMeansNoPets == errorView => cur = count

\* ... and it is shown when a query finds none.
NoPetsIsSaid == []net => (Waiting ~> Settled)

\* UserService.swift:159 "Saved the specified pet.": a write handed
\* to Firebase is stored.  It may be refused, or end with the process or the log in.
SwipesAreKept == [][pending \ pending' \subseteq Stored']_vars

\* SwipeServiceDelegate.swift:14 "Required: Called when the service
\* successfully logs a user out": a log out leads to the login screen.
LogOutLeavesScreen == [][LogOutSucceeds => screen' = "login"]_vars
=============================================================================
