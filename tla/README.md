# Petsy in TLA+

Petsy is an iOS app (Swift 3) for finding a pet to adopt. It shows the animals PetFinder
lists near the user as a deck of cards; a swipe to the right saves the pet, one to the left
rejects it, and both are stored under the user's record in Firebase. This directory models
the parts of it that hold state over time, checks them with TLC and proves what matters most
with TLAPS. Two of the libraries kept in the repository are modelled too: Koloda, the deck of
cards everything on the main screen depends on, and leveldb, the store behind Firebase
Database (`Podfile.lock:41`). Petsy never sets `persistenceEnabled`, so with its present
configuration the store is not opened; it is modelled for what it promises to whoever does.

Paths below are relative to `src/Petsy/Petsy/`, those that start with `Pods/` to
`src/Petsy/`, those that start with `db/` or `include/` to `src/Petsy/Pods/leveldb-library/`;
the findings name a file by its last component.

## 1. The system

### Components

| Component | Code | State it keeps | Operations | Module |
|---|---|---|---|---|
| Swipe screen | `Controllers/Swipe/SwipeViewController.swift` | `petViewModels`, `currentIndex`, two explanations, whether the deck is hidden | start a query, show a page, report a swipe, run out, try again, log out | `SwipeSession` |
| Swipe service | `Service/Swipe/SwipeService.swift` | `location`, `userViewModel`, `lastOffset`, its delegates | `initializeQuery`, `repeatQuery`, `filter`, `save`, `reject`, `logOut` | `SwipeSession` |
| Location service | `Service/Location/LocationService.swift` | the authorization promise | `requestLocation`, `getLocation` | `SwipeSession` (steps "auth" and "geo") |
| Deck of cards | `Pods/Koloda/Pod/Classes/KolodaView/` (`KolodaView.swift`, `DraggableCardView/`) | `countOfCards`, `currentCardIndex`, `visibleCards`, `animating`, running animations, `dragBegin` | touch, drag, let go, buttons, reload, animations that end | `KolodaDeck`, which implements `CardDeck`, as does the deck in `SwipeSession` |
| User service | `Service/User/UserService.swift` | none; Firebase holds accounts, records and queued writes | sign up, log in, reset, `getUser`, `save`, `reject`, `delete` | `SwipeSession`, `Account`, `SavedPets` |
| Login screen | `Controllers/Login/LoginViewController.swift` | text fields, alert | validate and send | `Account` |
| Saved pets, profile | `Controllers/Saved/`, `Controllers/Profile/` | `petViewModels`, the explanation | load, open, delete, unwind | `SavedPets` |
| Pet service | `Service/Pet/PetService.swift` | the closures' `iterator` and `petViewModels` | `fetchPets(for:)` | `PetFetch`, `FetchAll` |
| Deserializer and view models | `Service/Pet/PetDeserializer.swift`, `ViewModels/` | none | `deserialize`, `getPets`, `getImageURLs` | `PetFinderPage` |
| Progress overlay | `Views/Singletons/ActivityIndicator.swift` | attached, opaque, running fades | start, stop | `ActivityIndicator` |
| Reachability manager, popup | `Service/Reachability/ReachabilityManager.swift`, `Controllers/Network/NetworkViewController.swift`, `Views/Singletons/NoNetworkPopup.swift` | listeners, previous flags, the popup | notify, add, remove, show, kill | `NetworkStatus` |
| App delegate, set-up | `Setup/AppDelegate.swift`, `Setup/Setup.swift` | the root controller | choose and replace it | `Launch`, `LogIn`, `LogOut` of the modules above |
| Connectivity test | `Service/Reachability/ReachabilityCheck.swift` | none | `connectedToNetwork` | the variable `net` |
| leveldb: writers and background thread | `db/db_impl.cc` | `writers_`, `mem_`, `imm_`, logs, `bg_error_` | `Write`, `MakeRoomForWrite`, `BackgroundCall`, close, recover | `WriteQueue` |
| leveldb: levels of tables | `db/db_impl.cc`, `db/version_set.cc` | versions, the manifest, snapshots, `pending_outputs_` | flush, compact, read, delete obsolete files, recover | `LevelDB` over `VersionSet` |
| leveldb: log format | `db/log_writer.cc`, `db/log_reader.cc` | `block_offset_`, `buffer_`, `scratch` | `AddRecord`, `ReadRecord` | `LogFormat` |
| Cells, layouts, extensions, other vendored code | `Views/`, `Layouts/`, `Pods/` | drawing | | not modelled |

### How they interact

* Screens own their services and are their weak delegates. A call is a method call; its
  answer is a PromiseKit closure on the main queue, which calls the delegate. When a screen
  is gone, an answer that arrives is dropped.
* A query of the swipe screen is a chain: permission, place, user record, page of pets. Each
  link is issued by the answer to the one before. The deck calls back when a swipe animation
  has ended and when it has run out; running out issues the last link again, with the offset
  of the next page.
* Every service starts and stops the one full-window overlay. While it is up nothing can be
  tapped: this is the only thing that keeps two calls of the user apart.
* Swipes and deletes are Firebase writes. Nobody awaits those of a swipe. The client queues
  them while there is no connection, applies them to what it reads, takes them back if the
  server refuses them, and loses them with the process (persistence is not enabled).
* The system calls the reachability pod back on the pod's serial queue, and the callback puts a
  block on the main queue (`Reachability.swift:48`) that compares flags, posts the notification
  on which the manager walks its listeners, and remembers the flags. Only the first check
  (`Reachability.swift:161`) does all this on the serial queue itself, while screens add and
  remove themselves on the main thread.
* In leveldb every thread that writes, and one background thread, share `mutex_` and release
  it around each file operation and each wait. The log is written before the memtable; a full
  memtable becomes a table; the manifest says which tables and logs a recovery needs.

### What is hard

1. Two chains of calls at once, or an answer after log out.
2. Indices read when an animation ends, from counters that have moved on.
3. Snapshots: the pets to filter out are those of the record at the start of the query; the
   deck, the list and the offset live longer.
4. Error paths that forget a step: a silent `guard`, an overlay that is not stopped, an empty
   `didFailWith`.
5. Counting closures that share variables; promises nobody settles.
6. Two services with no transaction: account in Auth, record in the database.
7. A fade that ends after the view has been shown again.
8. A first check on a background queue against the main thread, and a connection that changes
   while a notification is under way.
9. One `animating` flag for four kinds of animation, and indices read in their completions.
10. Writers that write for each other with the mutex released, and sleep until signalled.
11. A process or a machine that ends at any moment, a file operation that fails and may or may
    not have done its work, and files that are deleted as obsolete all the while.

`PROJECT.json` lists each at its line, with the properties that guard it.

### What makes each component correct

* Swipe screen: every swipe is handed to Firebase once, under its own pet and in order, and is
  part of the record until the server refuses it; every index is in range; one query at a time;
  a hidden deck is explained; no pet comes twice or ends up both saved and rejected; a query
  that has a pet to find ends.
* Pet service: one report, when every pet has been handled, with exactly the pets found.
* Page: an answer becomes its readable pets in order, less those decided on, and an offset.
* Account: the main screen belongs to an account with a record, unless its own sign up ended
  half-way; one attempt at a time; every attempt is reported and, with a connection, ends.
* Saved pets: the list holds saved pets only; the overlay goes when loads succeed.
* Network status: exactly the screens on view listen, and a walk over them tells no other; the
  flags remembered are the connection's; the popup follows the connection, later changes
  putting right what an unsteady one left.
* Deck: every card that leaves is reported once, in order, as itself, before the next leaves.
* Writers: one at a time owns the log; what is acknowledged survives; every call returns.
* Levels: a read at any sequence number finds what was written, in memory, in tables, through
  compactions, snapshots and recovery, but for a key that an output of a compaction has split;
  nothing needed is deleted.
* Log: what is read back was written, whole and in order; a writer that died is no corruption.

## 2. The modules

| Module | What it is |
|---|---|
| `ActivityIndicator` | Operators on the overlay (and on the popup, which is written the same way). |
| `CardDeck` | Abstract: cards leave one at a time and each is reported before the next. |
| `KolodaDeck`, `KolodaProofs` | Koloda with its window of cards, touches, buttons and animations; its theorems. |
| `SwipeSession` | Swipe screen, its services, deck and writes. |
| `SwipeProofs` | Its theorems: indices, queries and swipes; the contract with the deck; the feed and the explanations. |
| `FetchAll` | Abstract: each pet is looked up once, and one report names those found. |
| `PetFetch`, `PetFetchProofs` | `PetService.fetchPets` and its refinement of `FetchAll`. |
| `PetFinderPage` | The conversion of an answer to cards. |
| `Account`, `AccountProofs` | The login screen, and its theorems. |
| `SavedPets`, `SavedPetsProofs` | Saved pets and the profile opened from them; a fetch in it is what `FetchAll` allows; its theorems. |
| `NetworkStatus` | Reachability notifications, listeners and the popup. |
| `WriteQueue`, `WriteQueueProofs` | leveldb's writers and background thread, faults and recovery; its theorems. |
| `VersionSet` | Operators on leveldb's levels of tables: reading, choosing, compacting. |
| `LevelDB`, `LevelDBProofs` | The open store over `VersionSet`; its theorems. |
| `LogFormat`, `LogFormatProofs` | leveldb's log, written and read; its theorems. |
| `MC*` | Instances for TLC. |

The abstract modules compose the others. `FetchAll` is what `PetFetch` implements and what
`SavedPets` relies on. `CardDeck` is implemented twice, by `SwipeSession` (which keeps of the
deck two counters and the swipe in the air) and, as a theorem, by `KolodaDeck` under patient
hands (`Hasty = FALSE`): what is checked of the session over its small deck holds over Koloda as
long as Koloda keeps the contract, and section 5 says when it does not.
`WriteQueue` and `LevelDB` are two views of `db_impl.cc`: the first has the threads, the mutex
and the faults and knows a table by its log, the second has keys, levels and readers and makes
a write one step.

### SwipeSession

| Model | Code |
|---|---|
| `inFlight[s]` | the number of calls of step `s` that have not been answered |
| `granted` | what the pending `CLLocationManager.requestAuthorization` promise holds |
| `wired` | `SwipeService.initializeQuery` has set the delegates of its services |
| `list`, `currentIndex` | `petViewModels`, `currentIndex` |
| `count`, `cur`, `flying` | `countOfCards`, `currentCardIndex`, the direction of the swipe in the air |
| `ids` | `userViewModel.getIDsAsSet()`, a snapshot |
| `saved`, `rejected`, `pending` | the record on the server, and the writes the client holds for it |
| `locationView`, `errorView`, `hidden` | alphas of the explanations, `kolodaView.isHidden` |
| `gestures`, `submitted`, `refused` | history: the direction of every swipe of the session, the writes handed to Firebase, and those the server refused |
| `WriteLands`, `WriteRefused` | the server takes a queued write, or refuses it: Firebase takes it back, and `setValue` was given no completion that would hear of it |
| `InitializeQuery`, `RepeatQuery`, `Reload`, `Show`, `Fail`, `Record` | the methods that more than one handler calls |
| `Launch`, `LogIn`, `LogOutSucceeds`, `LogOutFails`, `Retry`, `Relaunch` | screens and buttons |
| `AuthAnswer`, `GeoAnswer`, `UserAnswer`, `PageAnswer`, `BadAnswer`, `StepFails` | one answer each, with everything its closure and the delegate do |
| `Swipe`, `SwipeEnds` | the card leaves the deck; its animation ends and `didSwipeCardAt` runs. For the last card both happen in one step, as in `swipedAction`. |

A pet is its position in the result list PetFinder keeps for the place, which is fixed during
a session, so a page is an interval and the offset a position. `BadAnswer` is an answer the
deserializer turns into offset 0. A query is repeated with the same parameters if a page is
empty; `round` alternates so that such a step differs from no step at all, and an endless
repetition is visible to the liveness properties. A log out may happen under the network
popup, which is not part of this module.

`Swipe` waits until nothing is in the air (`flying = Nil`), although `KolodaView.swift:561` asks
only for `~animating` and a pan may begin on the next card: the deck of this module is
`CardDeck`, the contract, and not Koloda. That Koloda keeps the contract in patient hands is what
`KolodaDeck` shows, and what becomes of it in other hands is a finding there (section 5).

### PetFetch and FetchAll

`promise[id]` is the promise of one request, `Answer` its response handler (which settles it,
or, without a body, never does), `Then` and `Catch` its closures on the main queue with
`checkIfDone`. `FA` maps promises to look-ups and the calls of `didSucceedWith` to
reports; closures that are not the last are stutters.

### PetFinderPage

`Deserialize`, `GetPets`, `PetViewModel`, `Filter` and `ImageURLs` are the functions of the
same names; a JSON node is absent or present, a record is the set of the fields `getPet`
insists on that can be read, a photo whether it is large and whether its text makes a URL.
`ReadAsAssumed` ties it to `SwipeSession`: an answer is one of the outcomes
(`PageAnswer`, `BadAnswer`) that module chooses from.

### Account

A tap validates as `validateSignUp`, `validateLogIn` and `forgotPassword` do and sends a call
(`Send`) or raises an alert (`Refuse`); each answer is an action. `halfMade` is history: the
users whose sign up ended between account and record. A call to `createUser` that is answered
with an error may have made the account all the same, and so may one that the process did not
live to hear of. `Relaunch` may happen at any moment, and the server may have taken any of the
writes then held.

### SavedPets

`reads` and `fetches` are loads waiting for the record and for the pets, `removing` the
deletes the server has not answered, `mine` how many of those the profile on screen made
(only that profile unwinds). `overlapped` and `failed` are history, and delimit what
`ListMatchesRecord` and `OverlayLifts` claim: `failed` is the set of ways in which loads have
failed, unsent for want of a user, answered by an error, or never answered.

### NetworkStatus

`serial` is `reachabilitySerialQueue`, with the first check and the callbacks that wait on it;
`Callback` turns one into a block on the main queue (`blocks`), and `RunBlock` starts a block.
`Reachability.reachabilityChanged` then runs on a `thread`: "main" for blocks, "pod" for the first
check (`RunCheck`). It has five points at which it reads or writes what others change:
`ReadFlags`, the guard against `previousFlags` (`Compare`), the copy of the listeners the loop
iterates over (`Notify`), one listener told (`Tell`, which reads the status again), and the
assignment of `previousFlags` (`Remember`). While a block runs on the main thread (`MainIsFree` is
false) no screen comes or goes and no fade ends; the connection, the serial queue and the first
check go on. `LinkChanges` queues a callback for every change; a change since the queue was set
may have one in front of the first check.

The first check reads `listeners`, and reads and writes `previousFlags`, beside the main thread
without synchronization; the model takes the outcomes in which each access happens before or
after the other thread's, and leaves out a torn one.

### KolodaDeck and CardDeck

`count`, `cur`, `visible`, `animating` are the fields of the view; `ending` the 0.2 s
animations in flight, each either the frame animation of a new front card (with the swipe it
will report) or the reset of the cards behind; `touch`, `began`, `springs`, `flying`,
`orphans` the state of single cards. `SwipedAction`, `MovedUp` and `CardWasReset` are the
methods several handlers call. `TouchDown` removes the animations of the card touched, which
runs their completions. `crashed` marks the two completions that end the process when no card
is left. `Deck` maps the frame animation in flight to `leaving`.

### WriteQueue

An action is a stretch of code under `mutex_` or with it released; `holder` keeps the mutex
between two actions of one stretch (the turns of `MakeRoomForWrite`'s loop). `queue` is
`writers_`, `pc[w]` the place of each thread, `woken` those whose condition variable has been
signalled; a wait may also end without (`Spurious`). A batch is a number in the order of the
calls; a NULL batch is `TEST_CompactMemTable`. `bg` is the background thread, `within` a
memtable flushed from inside a compaction. A fault (`Fails(what)`) fails one file operation,
and for the log and the manifest its effect may be there or not. `MachineEnds` cuts each log to
any beginning that holds what was synced, `ProcessEnds` keeps the files, `Close` waits.
`recoverLast` and `recoverEarlier` tell apart whether the log that cannot be made a table is
the last one.

### VersionSet and LevelDB

A file is its number and its entries in one, a version a set of files per level; where the code
compares bytes with a limit, the operators return every outcome (a memtable stops early, inputs
grow or not, an output ends after any entry). `buffers[n]` are the entries in log `n` and in the
memtable beside it. `LogAndApply` writes the manifest with the mutex released and leaves in
`edit` what the edit was for and its log number; `InstallEdit` is what follows under the mutex,
with the deletion of obsolete files. `compact` holds the inputs, the version they were chosen
from, the outputs so far and what the loop has still to keep; a flush may happen between two
turns of the loop, dropped entries included (`Remaining`). `split` is history: the keys between
two entries of which an output of a compaction has ended. `End` may happen before any step,
`OpenIsCut` ends a recovery with the new manifest in effect or not. `written` is history.
`ManualSpec` adds `CompactRange`.

### LogFormat

A file is a sequence of bytes that know which physical record they belong to. The writer's loop
is `Emit`, `EmitFails` (an append of the fragment fails and `AddRecord` gives up) and `TrailerFails`
(the append of the zeros fails, whose status nobody looks at, `db/log_writer.cc:44`, and the loop
goes on); the file is cut anywhere and bytes are damaged; the reader's
`ReadPhysicalRecord` and `ReadRecord` are `Refill`, `ReadEnd`, `ReadTooLong`, `ReadNoHeader`,
`ReadMismatch`, `ReadFragment`. Bytes that were no header are read as any type and length.

## 3. What the runs check

| Run | Expect | Instance (distinct states) | What it shows |
|---|---|---|---|
| `MCSwipeSession` | pass | 3 pets, 2 to a page, lists may be lost, one write refused, no faults, one fade (2,263,950) | `TypeOK`, `CallbacksInRange`, `SwipesHandedOver`, `OneQueryAtATime`, `HiddenExplained`, `FeedNeverRepeats`, `NeverSavedAndRejected`, and `IsCardDeck`: every index is in range, every swipe is handed to Firebase once and as itself, queries never overlap, a hidden deck is explained, no pet comes twice or is filed twice |
| `MCSwipeProgress` | pass | 2 pets, 1 to a page, one fault (an answer without its offset, or a refused sign-out) (756,582) | `QueryAnswered`: with a connection, a query that has a pet to find ends in cards or an explanation |
| `MCSwipeOffline` | violation | 4 pets, 2 to a page, the first unreadable | `FailureReported` |
| `MCPetFetch` | pass | 3 pets | `ReportedOnceAndWhole`, `ReportedIfAnswered`, and the refinement of `FetchAll` |
| `MCPetFinderPage` | pass | 2 pets, 1 field, pages of up to 2 records, lists of at most 1 photo, offsets 0 and 1 (89,334) | `ReadAsAssumed`, `ShownExactly` for every answer and every set of decided pets |
| `MCAccount` | pass | two addresses and a malformed one (1,446) | `MainHasRecord`, `OneAttemptAtATime`, `AttemptReported`, `AttemptEnds` |
| `MCSavedPets` | pass | 3 pets, 2 loads or deletes (243,036) | `ListMatchesRecord`, `OverlayLifts` |
| `MCNetworkStatus` | pass | 3 kinds of link, 2 fades, 2 callbacks or blocks waiting (133,000) | `ListenersAreOnScreen`, `PopupIsPutRight` |
| `MCKolodaPatient` | pass | 5 cards, a window of 3, patient hands (70,874) | `WindowIsFull`, `AsManyReportsAsSwipes`, `ReadyForTheNext`, `IsCardDeck` |
| `MCLevelDB` | pass | 2 keys, 3 writes, 3 levels, a snapshot, a reader, 2 ends of the process (1,339,185) | `LevelsAreSorted`, `UpperIsNewer`, `NeededFilesExist`, `NumbersAreUnique`, `CopiesAreRight`: every read, snapshot, iterator and recovery finds what was written, of each key that no output has split |
| `MCWriteQueue` | pass | 3 threads, 3 calls, one fault or one wake-up without a signal, one end (255,640) | `OneLogger`, `AcknowledgedSurvives`, `AcknowledgedIsRead`, `NeededTablesExist`, `LoggedInOrder`, `EveryCallReturns` |
| `MCLogFormat` | pass | 3 records, blocks of 7 bytes with headers of 3, one failed append (of a fragment or of zeros), one damaged byte (5,989,665) | `NeverSpliced`, `IntactIsRead`, `DeathIsSilent` |

Beside these there are configurations to run by hand, `tlc -config X.cfg M` with the `M` whose
name the configuration's begins with:

| Configuration | What it is for |
|---|---|
| `MCSwipeClaims`, `MCAccountClaims`, `MCSavedPetsClaims`, `MCNetworkClaims`, `MCKolodaClaims`, `MCSwipeNoPets`, `MCPetFetchLost`, `MCPetFinderProfile` | What texts and comments promise and the code does not keep (section 5); where one lists several properties, keep one at a time. `TypeOK` of these modules, which some of them list, holds, and so does `FlagsAreCurrent` of `NetworkStatus`; and in `MCKolodaClaims` (hands that catch cards in flight; 28,171 states) so does everything it lists: `WindowIsFull`, `AsManyReportsAsSwipes`, `IgnoresOnlyWhileMoving`, `EverySwipeIsReported`. |
| `MCLevelDBManual`, `MCLevelDBSplit`, `MCWriteQueueForgotten`, `MCWriteQueueTorn` | The disagreements of leveldb (section 5). |
| `MCLevelDBWide`, `MCWriteQueueWide` | More writes (4; 606,607 states) and more calls (4; 8,453,587 states) than the listed runs, with `TypeOK`; both hold. |

### Bounds, and why they are enough

* Swipe screen: three positions and pages of two give a full page (whose first swipe ends with an
  animation), a page of one card (the first and the last at once), a page that filtering empties
  and the end of the list. The initial record is any disjoint pair of sets of saved and rejected
  pets, so every page may have gaps or be filtered to nothing; a pet that cannot be read leaves
  the same gap as one that is filtered out, and `MCSwipeOffline` and `MCSwipeClaims` have one of
  those too. With one to a page the progress run repeats queries over several empty pages. One
  refused write meets every other step; a second one is independent of it. A second fault adds
  another restart from offset 0, nothing new. `MaxFades` bounds the fades still running when the
  user taps log out or "Try again"; the properties do not speak of a fade except through the
  overlay, and the proofs hold for every bound.
* Pet fetch: with three pets there is a first, a middle and a last closure. The proof covers
  every number.
* Page: two records can be kept or lost independently, repeat an id and be filtered apart; the
  fields of the guard are all treated alike, so one stands for them.
* Account: with two addresses an attempt can follow another user's; a third adds no interaction.
* Saved pets: `MaxLoads = 2` lets a delete overlap a load and two loads answer out of order.
* Network: `MaxFades = 2` lets the popup be shown and killed during a fade. The constraint
  is a guard of `LinkChanges`: the connection does not change again until a fade has ended, so
  the popup is never killed three times in 0.1 s by changes of the connection. `MaxQueued = 2`
  lets a change be called back in front of the first check or behind it, and a second change wait
  behind a block; a third one waiting would be compared after the second like the second after
  the first.
* Koloda: with five cards and a window of three the deck is loaded behind the window, runs out,
  and shows its last cards without a next one; `MaxEnding = 2` admits the animation of a swipe
  and that of a reset at once, the only two that can be in flight.
* Levels: with three levels and memtables that may go to level 1, a table can be flushed above,
  beside and below others, moved and merged; two keys make ranges overlap or not, and one of
  them is deleted and may be written again. `MaxNumber` bounds file numbers (9, and 7 once a
  process has ended): enough for two flushes and two compactions, for a recovery before or after
  a compaction, or for one that is cut and repeated. `MCLevelDBWide` (12 and 9) has both.
* Writers: three threads and three calls make groups of one and of two writers, with and without
  sync, while a third thread queues; a group with a middle writer needs a fourth call, and
  `MCWriteQueueWide` has it. One call fills a memtable, and one table on level 0 slows writers,
  two stop them, so that every kind of wait happens in three calls. `MaxSpurious = 1` lets any
  one wait end by itself; `MaxMishaps = 1` keeps that and a fault apart, `MCWriteQueueWide` (2)
  has both in one behaviour. Two faults are not covered.
* Log: a block of 7 bytes with headers of 3 leaves 0, 1 or 2 bytes before its end, room for an
  empty fragment, and a record of 9 bytes takes three fragments (`first`, `middle`, `last`).

`CHECK_DEADLOCK FALSE` stands where the system really stops: a fetch and a page are finished
when they have been reported and shown, a deck when its process has ended or it has run out,
leveldb and its log when the bounds of an instance are used up.

### Fairness

* `SwipeSession`: the first screen is chosen; each call of the chain is answered in one way or
  another (the record only while connected: Firebase does not time out); animations end.
  Nothing is assumed of users, the network or the content of answers. The authorization
  dialog need not be answered, so `Waiting` excludes an undecided permission.
  `QueryAnswered` is checked with lists that arrive (`ListsLost` is FALSE): if every page
  loses its list there is no pet to find.
* `PetFetch`: requests are answered (Alamofire times out), closures run.
* `Account`, `SavedPets`: what Firebase can answer is answered; fades end.
* `NetworkStatus`: the launch ends, both queues are worked off, transitions and fades end. Nothing
  is assumed of the connection or of the screens: `PopupIsPutRight` has its own premises.
* `KolodaDeck`: animations end and a finger is lifted.
* `WriteQueue`: every thread that can run does (`Thread(w)`), so does the background thread, and
  the destructor returns when it can. A thread that waits can run only once it has been
  signalled; nothing is assumed of wake-ups without a signal, of callers, or of faults.

All are weak: each such step stays enabled until it happens, or, where the connection may
drop, nothing is claimed unless it stays (`[]net`).

### Assumptions

* In `Account` and `SavedPets` a tap is slower than the 0.1 s fade; the fade's other effects,
  a start within it, are modelled. `SwipeSession` makes no such assumption.
* Firebase answers reads and acknowledges writes of a client in order, shows its own waiting
  writes to it, and loses them with the process.
* The text a user enters is not longer or stranger than the checks tell apart.
* Koloda is used as Petsy does: left and right, `swipe(force: true)`, a reload of an empty deck.
* A record's checksum tells it from any other bytes; a file that has been synced is found in its
  directory after the machine ends.
* `NilAssumption`: what stands for "none" is neither a number nor an edit. `BoundsAssumption` of
  `LevelDB`: the numbers a new database starts with (up to 3) are within the bound.
* An output of a compaction may end after any entry (`db/db_impl.cc:966`), also between two entries
  of one key that a snapshot keeps. No assumption excludes it: `UpperIsNewer` and `CopiesAreRight`
  speak of the keys that have not been split so (`Keys \ split`), since for a split key both fail
  (section 5).

## 4. What is proved

For every value of the constants under the named assumptions of the modules
(`SizeAssumption`, `BatchAssumption`, `DecodableAssumption`, `BoundAssumption`,
`FaultsAssumption`, `NilAssumption` of `SwipeSession`; `IdsAssumption` of `PetFetch`;
`EmailsAssumption`, `NilAssumption` of `Account`; `NilAssumption`, `LoadsAssumption` of
`SavedPets`; `WindowAssumption`, `HastyAssumption`,
`NilAssumption` of `KolodaDeck`; the assumptions of `WriteQueue`, of `VersionSet` and
`LevelDB`, and of `LogFormat`):

| Theorem | Module | Statement |
|---|---|---|
| `SwipeInvariant` | `SwipeProofs` | `Spec => []IndInv` |
| `SwipeTypeCorrect` | `SwipeProofs` | `Spec => []TypeOK` |
| `SessionsKeepShape` | `SwipeProofs` | `Spec => []SessionShape` |
| `CallbacksStayInRange` | `SwipeProofs` | `Spec => []CallbacksInRange` |
| `QueriesNeverOverlap` | `SwipeProofs` | `Spec => []OneQueryAtATime` |
| `QueriesAreComplete` | `SwipeProofs` | `Spec => []QueryComplete` |
| `SwipesAreHandedOver` | `SwipeProofs` | `Spec => []SwipesHandedOver` |
| `FeedInvariant` | `SwipeProofs` | `Spec => []FullInv` |
| `FeedIsFresh` | `SwipeProofs` | `Spec => []FeedNeverRepeats` |
| `FateIsOne` | `SwipeProofs` | `Spec => []NeverSavedAndRejected` |
| `HiddenIsExplained` | `SwipeProofs` | `Spec => []HiddenExplained` |
| `ScreenKeepsDeck` | `SwipeProofs` | `Spec => IsCardDeck` |
| `FetchCounts` | `PetFetchProofs` | `Spec => []Counted` |
| `FetchReportsOnceAndWhole` | `PetFetchProofs` | `Spec => []ReportedOnceAndWhole` |
| `FetchImplementsFetchAll` | `PetFetchProofs` | `Spec => ImplementsFetchAll` |
| `AccountTypeCorrect` | `AccountProofs` | `Spec => []TypeOK` |
| `AttemptsNeverOverlap` | `AccountProofs` | `Spec => []OneAttemptAtATime` |
| `MainBelongsToRecord` | `AccountProofs` | `Spec => []MainHasRecord` |
| `AttemptsAreReported` | `AccountProofs` | `Spec => AttemptReported` |
| `SavedInvariant` | `SavedPetsProofs` | `Spec => []IndInv` |
| `ListIsTheRecord` | `SavedPetsProofs` | `Spec => []ListMatchesRecord` |
| `WindowStaysFull` | `KolodaProofs` | `Spec => []WindowIsFull` |
| `ReportsMatchSwipes` | `KolodaProofs` | `Spec => []AsManyReportsAsSwipes` |
| `IgnoresWhileMoving` | `KolodaProofs` | `Spec => []IgnoresOnlyWhileMoving` |
| `PatientDeckIsCardDeck` | `KolodaProofs` | `Spec => IsCardDeck`, if `~Hasty` and `Window > 1` |
| `PatientDeckIsReady` | `KolodaProofs` | `Spec => []ReadyForTheNext`, if `~Hasty` and `Window > 1` |
| `LoggersNeverMeet` | `WriteQueueProofs` | `Spec => []OneLogger` |
| `NeededTablesStay` | `WriteQueueProofs` | `Spec => []NeededTablesExist` |
| `LogsAreInOrder` | `WriteQueueProofs` | `Spec => []LoggedInOrder` |
| `AcknowledgedIsKept` | `WriteQueueProofs` | `Spec => []AcknowledgedSurvives`, if `Tidy` |
| `AcknowledgedIsFound` | `WriteQueueProofs` | `Spec => []AcknowledgedIsRead`, if `Tidy` |
| `LogInvariant` | `LogFormatProofs` | `Spec => []IndInv` |
| `RecordsAreNeverSpliced` | `LogFormatProofs` | `Spec => []NeverSpliced` |
| `FormInvariant` | `LogFormatProofs` | `Spec => []FormInv` |
| `IntactRecordsAreRead` | `LogFormatProofs` | `Spec => []IntactIsRead` |
| `DeathsAreSilent` | `LogFormatProofs` | `Spec => []DeathIsSilent` |
| `NeededFilesStay` | `LevelDBProofs` | `Spec => []NeededFilesExist` |
| `NeededFilesStayManually` | `LevelDBProofs` | `ManualSpec => []NeededFilesExist` |
| `NumbersStayUnique` | `LevelDBProofs` | `Spec => []NumbersAreUnique` |
| `NumbersStayUniqueManually` | `LevelDBProofs` | `ManualSpec => []NumbersAreUnique` |
| `LevelsStaySorted` | `LevelDBProofs` | `Spec => []LevelsAreSorted` |
| `UpperStaysNewer` | `LevelDBProofs` | `Spec => []UpperIsNewer` |
| `CopiesStayRight` | `LevelDBProofs` | `Spec => []CopiesAreRight` |
| `CompactionKeepsViews` | `LevelDBProofs` | a seek in `Kept(...)` finds what it finds in the entries compacted, or nothing where it found a deletion with no data below |

So everything `MCSwipeSession` checks of the swipe screen holds for every catalogue and page
size, its use of the deck included; a file that is needed is never deleted, no number is used
twice, the levels stay in order and every read finds what was written of the keys that no output
has split, whatever the number of keys, levels and snapshots; and a write that leveldb has
acknowledged is kept for any number of threads, but for the two faults of which section 5 shows
that it is not. `Tidy` says that these two are not among `Faults`: no append to the log fails,
and recovery can make a table of each log but the last. Every other file operation may fail, the
process or the machine end at any moment, and `MCWriteQueue` is such an instance.

`SwipeSession`: `IndInv` is `TypeOK`, `SwipesHandedOver` and `Shape` (`CallbacksInRange`,
`OneQueryAtATime`, `QueryComplete`, `SessionShape`) together, since none is inductive alone.
That a swipe is handed over needs a user (`QueryComplete`: cards imply `hasUser`) and an index
in range (`CallbacksInRange`); that a second query never starts needs to know when "Try
again" and the end of the deck can be reached (`SessionShape`: the explanation implies that
nothing is in flight; cards imply a wired screen), and that a page that arrives belongs to a
deck that has run out (`OneQueryAtATime`). The proof has one lemma per action; the
initial states of a session and the repetition of a query, which several actions share,
are lemmas of their own.

The feed: that no pet comes twice follows from three facts that hold together while there is
no fault. `Early`: no page has come before the record has. `Ordered`: the offset asked
for is the one received last, and the cards increase and lie below it. `Known`: no card is in
the snapshot `ids`, and what the record holds beyond the snapshot are cards of this session
already swiped. So a card that has not been reported is not in the record
(`NotYetRecorded`), and the write of a swipe never meets another for the same pet (`OneFate`).
`HiddenExplained` needs only the invariant of `SwipeProofs`: a call in flight finds
the deck visible, and a repeated query has its parameters.

The contract with the deck: `Deck` maps the counters of the session to `CardDeck` and the swipes
reported so far to `told`. A swipe is `Leave` (and tells at once, for the last card), the end
of its animation `Tell`, a page `Refill` or a stutter, since `OneQueryAtATime` says that a page
finds an empty deck with nothing in the air; whatever begins or ends a session is `Discard`.

`Account`: `OneAttemptAtATime` and `MainHasRecord` are inductive with `CallShape`: a
record is queued exactly while the "write" call of the user signed in is in flight, and
whoever is signed in has an account. The second half of `MainHasRecord` is what makes a later log
in harmless: every account has a record, a record on its way, or a sign up known to have ended
half-way. `AttemptReported` is an action property: each answer
either sends the next call, or opens the main screen, or reports, which stops the overlay with
the alert up; and no tap meets a call in flight (`OneAttemptAtATime`).

`SavedPets`: a list that matches the record at rest is the end of a longer story, told for visits in
which no delete met a load and no load failed (`Regular`, which is the property's own condition).
What a load has asked for stays saved until its pets come (`FetchesAreSaved`), since only a
delete could take it out; between loads the list is a part of the record (`ListIsSaved`); and
while a delete is under way the overlay blocks the profile, so it is the only one and the list
still shows what the server holds (`DeleteIsAlone`). A refused delete only gives the record a pet
back, whatever its place among those that wait for the server (`OthersStay`).

`PetFetch`: `Counted` with `TypeOK` is inductive. It says that the counter is the number of
closures that have run and that the report is made by the last of them;
`ReportedOnceAndWhole` and the step simulation of the refinement follow from it.

`KolodaDeck`: `WindowIsFull` is inductive with the types of the two counters; what has to be
shown is that removing the first card and loading one behind gives the window of the next index
(`WindowMoves`). `AsManyReportsAsSwipes` counts the frame animations in the queue, from which a
touch removes one in the middle (`WaitsRemove`, a bijection between the others and what is
left). `IgnoresOnlyWhileMoving` needs to know which card the finger is on: a card that is
touched or still flies is the front card or has left (`HandInv`), so it is the front card that
sets `animating` when it is dragged, and with no animation left nothing else keeps it set
(`WaitsForFront`). These three hold for any hands. In patient hands (`PatientInv`) at most one
animation is in the queue, so the card that is reported is the one before the front
(`EndingInv`); only the front card is touched, and only when nothing moves (`TouchInv`); and the
cards that are marked as dragged, have lost their delegate or are hidden have left, or are about
to be shown or to come to rest (`CardsInv`). The window must hold a second card, since with a
window of one the card that moves up is the hidden one just loaded.

`WriteQueue`: that one thread at a time answers for the log is inductive with three facts.
`Unanswered`: a queued thread that has not been answered is in the queue. `GroupIsQueued`: the
last writer of the group being written is in the queue, so that `Finish` removes a beginning
of it. And the types of the queue. One lemma serves every action by which the first writer goes
on (`LeaderGoes`), another those of all other threads. `NeededTablesExist` is inductive with
what ties the version in memory to the manifest: they agree unless an error is recorded
(`InSync`), while an error is recorded nothing is deleted (`DeleteObsoleteFiles`), a memtable's
table is on disk before the manifest names it (`FlushHasTable`), and the background thread is
idle when no process is there (`Quiet`).

That the logs are in the order of the calls holds under any faults. The queue is in the order of
the calls and what waits in it was called after everything in a log (`LoggedBefore`; the group
being written counts as logged from the append on, which is what `Written` says). `PlacesInv`
says where the first writer and the background thread may stand together, `MemsHaveLogs` that
each memtable has its log and that a new log has a higher number.

What is acknowledged: `AckInv`. Each acknowledged batch has a `Home`, a table of the current
version or a memtable whose log holds it, within the synced part if it was synced
(`AckedHaveHome`); so has each batch that has been answered but not returned, and each of a
group that ends well (`AnsweredHaveHome`, `GroupHasHome`). A sync write joins only a group
whose first writer syncs (`SyncJoinsSync`), no log has a torn record (`NoneTorn`, which is where
a failed append would enter), and what is synced next is in the log (`GroupIsLogged`). A
memtable's log is one the manifest leads to, or its batches are in a table the manifest has
(`MemsAreLogged`), so a `Home` is found again by a recovery; without a process the property
itself is carried along (`ClosedKeeps`), through recoveries that fail half-way and are repeated.

`LevelDB`: `FilesInv` adds to `NeededFilesExist` that the outputs of the running compaction are
among `pending`, that an edit on its way carries the manifest's log number, that file numbers
grow, and that a process that has ended holds nothing. Then each step either deletes nothing
(`NothingDeleted`) or is `InstallEdit`, `Open`, `OpenIsCut` or `End`. Of the choice of inputs the
proof needs only that they are files of the level (`InputsAreFiles`), of an edit only what it can
add (`ApplyFiles`): so the theorem holds for `ManualSpec` as well, where the order of the levels
does not. `CompactionKeepsViews` is about the operators alone: if the newest entry a reader sees
is dropped, no newer one hides it from the smallest snapshot (a reader's sequence number is not
smaller), so it was dropped as a deletion; and then no older entry was kept, since the deletion
hides it.

The numbers: `NumbersInv` says that the files of all versions in use and the outputs of the running
compaction (`Live`) have a number each, below `nextFile`, and that no log that a recovery will
read has the number of a table it keeps. A recovery makes a table of each log that is not empty
and numbers them upwards from what it has marked as used (`Fresh`, the largest of `Marks`); that
these numbers are new, and the new log's too, is by counting the logs still to come
(`FullBetween`, `FewLogs`). Only the numbers of outputs and logs enter, so this also holds with
manual compactions.

The order of the levels: `LevelsInv`. A version has tables that are not empty, entries with a
sequence number of their own, and levels past 0 in which any two tables are `Apart`
(`VersionInv`). The heart is what the choice of inputs guarantees (`InputsInv`, proved of
`PickCompaction` and `SetupOtherInputs` in `PickFits` and `SetupFits`): a range of user keys that
meets none of the files lies on one side of all of them (`NoGap`), and each other file of the
level below lies on one side of all of them (`OneSide`) although files may lie between the
chosen ones of a level. On level 0 the search for overlapping files is a least fixpoint
(`Reach`). So the outputs, which are in the order written (`OutputsInv`), are apart from what
stays (`OutputIsApart`, `MergeKeeps`); and a memtable flushed meanwhile goes to a level where it
meets neither files nor, one level below, the running compaction's (`PickedLevelFits`,
`NewerKeepsInputs`). An end of the process loses the outputs and keeps the rest, and the tables
recovery makes go to level 0, newer than all others since the logs it reads are
(`LogsInv`, `NewLogIsLast`).

All of this is said for a set `cut` of keys: two files may share a user key of `cut`, in the order
of its entries (`Precedes`), and share no other. It is inductive for a `cut` only as long as no
output ends inside a key that is not in it; so what is carried along is the invariant for every
`cut` that contains `split`, the keys split so far (`SplitLevelsInv`, `StepSplitLevels`), which
only grows (`SplitGrows`). The order of the levels follows with any such `cut`; that newer
entries stay above follows for the keys outside it, hence for those outside `split`
(`UpperIsNewer`). For a split key it is false, as `MCLevelDBSplit` shows. Manual compactions break
`InputsInv`, as `MCLevelDBManual` shows, so these two theorems are about `Spec` and not
`ManualSpec`.

What a read finds: `CopiesInv`. The property speaks of the open store, of its readers and of what
a recovery would find, and none of these is inductive. What carries them is the disk, that is
the tables of the manifest and the logs it still needs together (`OnDisk`): its entries are
writes (`Recorded`), and for the latest sequence number and for every snapshot it has the last
write of each key, or that write is a deletion and nothing as old is left of the key (`Shows`).
The exception is there for compactions, which drop such deletions. `DiskInv` says this, that
every write past the manifest's last sequence number is in a needed log (so recovery counts them
all), that tables of level 0 are newer the larger their numbers, and that the needed logs are
those of the memtables. `NowInv` and `HeldInv` say the same of what a new reader and an old one
hold, and that it is newer where it is looked up first: memtable, the one before it, tables.
With the order of the levels this makes the first entry `Version::Get` meets the newest
(`SearchIsRight`, `FoundIsRight`), and the newest is the right answer (`AnswerIsRight`). While an
edit is written the disk is ahead of the open version, and `NowInv` has to be carried along;
otherwise it follows from `DiskInv` (`NowOnDisk`). TLC has checked `CopiesInv` on the
instance of `MCLevelDB`.

`KeptInv` bridges a running compaction: when it begins it decides what to keep by the smallest
snapshot of that moment, `base`; later snapshots and writes are above it, and what it drops is
hidden by a newer entry up to `base`, or is a deletion with nothing older in what is kept or
lies elsewhere (`DropsInv`). A memtable flushed meanwhile is newer than all of it (`DropsStay`),
so when the outputs replace the inputs, each sequence number that is read is shown as before
(`ShowsMerged`, `FinishCopies`). A deletion is dropped only if no deeper level has its key; that
what else lies on the levels of the inputs and above is newer is `UpperIsNewer`, which is why
`CopiesAreRight` too speaks of the keys outside `split` only, and is carried along for every `cut`
that contains it (`SplitCopiesInv`). A recovery only moves entries from logs to tables of
level 0, in the order of the logs (`RecoveredCopies`).

`LogFormat`: `IndInv` says of the bytes of the file that the first fragment of a record comes
after everything of earlier records (`FirstsAreNew`) and that in front of any other there is, for
as many bytes as a header has, the fragment before it, or zeros of a trailer, or damage
(`RestFollow`); cutting the file and damaging bytes keep both. Of the reader, that what it has
put together is a beginning of one record whose last fragment ends at its position, but for a
trailer it skipped (`ScratchIsBeginning`), and that what it has returned lies behind
(`OutIsBehind`). So the next fragment it accepts continues this record or begins a later one.

How far a reader gets is `FormInv`, for files no append to which has failed. `WellFormed` says
what the writer makes of a file: physical records lie whole in their blocks, behind each begins
another or a trailer, every block begins with one, and what is begun is continued by the next
(`TypesAlternate`). A turn of the loop keeps this (`TurnAppends`, `AppendedIsFormed`) and so does
cutting the file anywhere (`BeginningIsFormed`). What is then read is such a file with damaged
bytes (`Original`), and the reader stands where a physical record or a trailer begins
(`ReaderPlace`). Where nothing is damaged it finds a header and can rely on it
(`UndamagedIsRead`), so a log that was only cut ends in silence (`SilentInv`). A record that is
all there has been returned, or is still ahead, or its fragments are being put together
(`ReadInv`); the reader cannot pass it, since the blocks it lies in are not damaged
(`NothingMissing`), and a damaged block before it is left at its end.

Only model-checked: every liveness property and everything under fairness (outside the
prover's reach, as is `ENABLED`); `ReadAsAssumed` and `ShownExactly` of `PetFinderPage`, which say
what folds over records compute (the prover cannot instantiate the induction theorems); and
`ListenersAreOnScreen` of `NetworkStatus`, where `SelectSeq` on the listeners is again recursion
over data. The last has no parameter that matters: the screens and links are those of the app,
and the bounds are on the fades of the popup (`MaxFades`), which decide at most whether a screen
may be opened, and on the callbacks that wait (`MaxQueued`), which start one notification after
the other.

## 5. Findings

Each is a counterexample TLC finds in the model of the code as it is. The first is a listed
run; the others come from the configuration named in brackets.

In the app:

1. **A silent end of the deck** (`MCSwipeOffline`, `FailureReported`). The overlay is started
   when the cards run out, and `repeatQuery` returns without a word if there is no connection
   (`SwipeService.swift:47`). Nothing will stop the overlay: "Required: Called if the service
   failed to complete a request" (`SwipeServiceDelegate.swift:30`).
2. **Decided pets come back** (`MCSwipeClaims`, `SavedOrRejectedFilteredOut`). `filter` uses the
   record read when the query began. An answer whose offset cannot be read becomes offset 0
   (`PetDeserializer.swift:60`), the next query starts over, and pets swiped since are offered
   again: "Filter out the pets that this user has already saved or rejected"
   (`SwipeService.swift:83`).
3. **No pets is never said** (`MCSwipeNoPets`, `NoPetsIsSaid`). A page filtered to nothing is
   followed by the next query (`SwipeViewController.swift:296`), for ever at the end of the list.
   The text "Oh no, there are no pets in your area" (`Main.storyboard:146`) appears on errors
   only; and a refused sign-out shows it over a deck that has cards (`MCSwipeClaims`,
   `NoPetsMeansNoPets`).
4. **A log out nobody hears** (`MCSwipeClaims`, `LogOutLeavesScreen`). After a start without a
   connection the delegates are not set (`SwipeService.swift:35`); a log out signs out and tells
   nobody.
5. **A fetch that is never reported** (`MCPetFetchLost`, `AlwaysReported`). A request that ends
   without a body settles nothing (`PetService.swift:66`), the count is never complete, and no
   delegate is called (`PetServiceDelegate.swift:20`).
6. **A profile that cannot open** (`MCPetFinderProfile`, `EveryProfileOpens`). A pet without a
   large photo is in the deck, but its profile reads the count of nil
   (`ImagesTableVIewCell.swift:21`).
7. **Half a sign up** (`MCAccountClaims`). If the record is refused after `createUser`, or
   `createUser` took effect and was answered with an error, the alert says that the account
   could not be created; it exists, and trying again finds it taken (`NotCreated`). The same is
   left if the process ends before the answer. Whoever then logs in is on the main screen
   without a record (`UserIsSet`; "Set a new user in Firebase", `UserService.swift:74`). A sign
   up without a connection leaves the overlay up behind the alert that asks to try again
   (`UserService.swift:53`, `CanTryAgain`).
8. **A refused delete** (`MCSavedPetsClaims`, `RefusalTold`) is reported to an empty function,
   although `ErrorDispatch.swift:19` has words for it; the explanation for users without saved
   pets is shown when the pets could not be read, and stays (`NothingSavedYet`); and a load that is
   answered by an error raises "Oops, something bad happened. Please try again!"
   (`ErrorDispatch.swift:29`) and leaves the overlay up (`SavedViewController.swift:222`), so that
   nothing can be tried (`ErrorLiftsOverlay`).
9. **A popup over a connected device** (`MCNetworkClaims`, `ReconnectKills`). A listener is told
   the status of that moment, while the guard compares with flags read before, so a change that
   has come back when its block runs is not told; and a log out under the popup removes the
   listeners that would take it away
   (`NetworkViewController.swift:44`, "Kill the network popup if the use reconnects"). A popup
   shown within the fade of the one before is removed (`ShownIsThere`), and
   `reachabilityStatus` is never assigned, so `isNetworkAvailable` is always false
   (`TracksReachability`).
10. **Swipes that are not kept** (`MCSwipeClaims`, `SwipesAreKept`). A swipe's write is given no
    completion (`UserService.swift:165`, `:175`): one the server refuses is taken back without a
    word, and one that waits is gone with the process or the log in, although it was "Saved the
    specified pet" (`UserService.swift:159`). What does hold is `SwipesHandedOver`.

In Koloda (`MCKolodaClaims`), for a hand that does not wait: a button tapped while the front card
is held or springs back leaves `animating` set and the card without a delegate
(`KolodaView.swift:563`; `README.md:160` there: "Applies swipe animation and action, increment
currentCardNumber", `SwipeApplies`); and a card caught in flight ends an animation that reports
an index which has moved on (`README.md:203`, `ReportedAsSwiped`).

In leveldb:

1. **Levels that overlap** (`MCLevelDBManual`, `LevelsAreSorted`). `CompactRange` takes the files
   of a level that meet the range; what it takes may leave a gap that holds no file when it is
   chosen. A memtable flushed during the compaction may be put into the gap on the next level
   (`db/db_impl.cc:470`), and the outputs of the compaction then lie over it: "Make sure there is
   no overlap in levels > 0" (`db/version_set.cc:733`, an assertion of debug builds).
2. **Older above newer** (`MCLevelDBSplit`, `EveryUpperIsNewer`). An output may end between two
   entries of one key, both kept for a snapshot. The file with the newer one may later be picked
   alone and move down, and leaves the older one above it: "entries never hop across levels.
   Therefore we are guaranteed that if we find data in an smaller level, later levels are
   irrelevant" (`db/version_set.cc:337`). A read then finds the older entry, and an overwritten
   value or a deleted one comes back (`EveryCopyIsRight`; "Users can create a transient snapshot
   to get a consistent view of data", `README.md:11` there). Of every other key both are proved.
3. **A recovery that forgets** (`MCWriteQueueForgotten`, `AcknowledgedSurvives`). `Recover` assigns
   the status of each log to the same variable (`db/db_impl.cc:344`): if the table of an earlier
   log cannot be written, though "errors ... cause the DB::Open() to fail" (`db/db_impl.cc:437`),
   and the last one succeeds, the database opens and the earlier log is deleted as obsolete with
   its writes; "if it is just the process that crashes ... no writes will be lost"
   (`include/leveldb/options.h:176`).
4. **A torn log that goes on** (`MCWriteQueueTorn`, `AcknowledgedSurvives`). A failed `Sync` makes
   all later writes fail (`db/db_impl.cc:1204`), a failed `AddRecord` does not: later writes are
   acknowledged, sync or not, and lie behind the torn record, where a recovery does not
   find them.
5. A NULL batch (the request to switch memtables) that is grouped under another first writer
   returns without a switch: `BuildBatchGroup` skips it, and `TEST_CompactMemTable` then finds no
   `imm_` to wait for. This shows in `GroupEnds`; no text promises otherwise.

## 6. What is not modelled

* Drawing, layout and cells; the contents of names, addresses and e-mails (a profile's call and
  e-mail buttons hand a URL to the system); Koloda's insert, remove, revert and reconfigure,
  which Petsy does not call.
* Firebase, Alamofire and PromiseKit beyond the answers the app can see. Most of the
  implementation files in the repository are theirs and those of their dependencies (protocol
  buffers, gRPC, session fetchers, pop): third-party code or headers of binary frameworks
  without a state the app relies on.
* Of leveldb: the waiting of `TEST_CompactRange` for its own compactions; a manifest record of
  which only a part was written; reading a log from an initial offset other than 0, and errors
  of the file's `Read`; the trigger of a compaction by seeks (any file may be picked); the format
  of tables, the block cache, the skip list, `DBIter`, statistics and properties, repair, the C
  binding, benchmarks and tools. A table is immutable and found by its number, a memtable is a
  set of entries, and a read is made at a sequence number.
* The unsynchronized access to the listeners of `ReachabilityManager` beyond reading the array
  before or after a change.

What a next step would be: a composition of start-up, root controllers, popup and overlay in one
module, so that a start without a connection is followed across screens; `DBIter`, which reads in
both directions.
