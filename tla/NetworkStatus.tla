--------------------------- MODULE NetworkStatus ---------------------------
(***************************************************************************)
(* ReachabilityManager.shared, the screens that listen to it               *)
(* (NetworkViewController) and the popup they raise (NoNetworkPopup).      *)
(*                                                                         *)
(* The system calls the Reachability pod back on the pod's serial queue    *)
(* for every change of the connection; the callback puts a block on the    *)
(* main queue that runs Reachability.reachabilityChanged.  The first check *)
(* runs the same method on the serial queue itself, beside the main        *)
(* thread.  The method reads the flags, compares them with the ones it     *)
(* read last, posts the notification and only then remembers them; every   *)
(* listener is given the status read at the moment it is told.             *)
(*                                                                         *)
(* While a block runs on the main thread no screen comes or goes; the      *)
(* connection, the serial queue and the first check go on.                 *)
(***************************************************************************)
EXTENDS Naturals, Sequences, FiniteSets, SequencesExt, ActivityIndicator

CONSTANTS
  MaxFades,   \* bound: fades of the popup in progress
  MaxQueued,  \* bound: callbacks and blocks that wait on the two queues
  Nil         \* not read yet; no screen

Links == {"none", "wifi", "cellular"}
\* The NetworkViewControllers.
Listening == {"main", "saved", "profile"}
Stacks == {<<>>, <<"login">>, <<"main">>, <<"main", "saved">>, <<"main", "profile">>,
           <<"main", "saved", "profile">>}
\* The threads that run reachabilityChanged, and how far it is on each.
Threads == {"main", "pod"}
Steps == {"idle", "read", "changed", "telling"}

ASSUME NilAssumption == Nil \notin Links \cup Listening
ASSUME BoundAssumption == MaxFades \in Nat \ {0} /\ MaxQueued \in Nat \ {0}

VARIABLES
  net,            \* the device's connection
  stack,          \* the screens, the last one on view; none before the launch
  leaving,        \* the screen a transition is taking away, or Nil
  listeners,      \* ReachabilityManager.listeners
  serial,         \* reachabilitySerialQueue: the first check and callbacks
  blocks,         \* blocks of callbacks on the main queue
  step,           \* how far reachabilityChanged is on each thread
  seen,           \* the flags it read
  toTell,         \* the listeners its notification has yet to reach
  previousFlags,  \* Reachability.previousFlags
  popup,          \* NoNetworkPopup.shared
  reachabilityStatus

queueVars == <<serial, blocks>>
checkVars == <<step, seen, toTell, previousFlags>>
screenVars == <<stack, leaving, listeners>>
vars == <<net, screenVars, queueVars, checkVars, popup, reachabilityStatus>>

TypeOK ==
  /\ net \in Links /\ stack \in Stacks /\ leaving \in Listening \cup {Nil}
  /\ listeners \in Seq(Listening)
  /\ serial \in Seq({"check", "callback"}) /\ blocks \in 0..MaxQueued
  /\ step \in [Threads -> Steps] /\ seen \in [Threads -> Links \cup {Nil}]
  /\ toTell \in [Threads -> Seq(Listening)]
  /\ previousFlags \in Links \cup {Nil}
  /\ popup \in Indicator /\ reachabilityStatus \in Links

OnView == IF stack = <<>> THEN Nil ELSE Last(stack)
isNetworkAvailable == reachabilityStatus # "none"

\* Mutant: blocks run beside the main thread, as if nothing had dispatched them to it.
AnyTime == TRUE

\* The main thread is between two blocks.
MainIsFree == step["main"] = "idle"

\* Mutant: only the first entry of a listener goes.
RemoveNewest(listener) == IF Len(listeners) > 1 THEN Front(listeners) ELSE listeners

\* removeListener
RemoveListener(listener) == SelectSeq(listeners, LAMBDA l : l # listener)

-----------------------------------------------------------------------------
(* The main thread *)

\* viewWillAppear of the screen that comes; the one that goes stays on view until
\* the transition ends.
Appears(next) ==
  /\ leaving = Nil /\ ~Blocks(popup)
  /\ leaving' = OnView
  /\ stack' = next
  /\ listeners' = Append(listeners, Last(next))
  /\ UNCHANGED <<net, queueVars, checkVars, popup, reachabilityStatus>>

OpenScreen ==
  /\ MainIsFree /\ OnView \in Listening
  /\ \E screen \in Listening : Append(stack, screen) \in Stacks /\ Appears(Append(stack, screen))

CloseScreen == MainIsFree /\ Len(stack) > 1 /\ Appears(Front(stack))

\* The root controller of didFinishLaunching, on view when it has returned.
Launch ==
  /\ stack = <<>>
  /\ \/ stack' = <<"login">> /\ UNCHANGED listeners
     \/ stack' = <<"main">> /\ listeners' = Append(listeners, "main")
  /\ UNCHANGED <<net, leaving, queueVars, checkVars, popup, reachabilityStatus>>

\* changeRootViewController to Main, whose viewWillAppear follows.
LogIn ==
  /\ MainIsFree /\ OnView = "login" /\ ~Blocks(popup)
  /\ stack' = <<"main">>
  /\ listeners' = Append(listeners, "main")
  /\ UNCHANGED <<net, leaving, queueVars, checkVars, popup, reachabilityStatus>>

\* viewDidDisappear
Disappears ==
  /\ MainIsFree /\ leaving # Nil
  /\ listeners' = RemoveListener(leaving)
  /\ leaving' = Nil
  /\ UNCHANGED <<net, stack, queueVars, checkVars, popup, reachabilityStatus>>

\* Mutant: the login screen is left on the list.
LogOutListening ==
  /\ MainIsFree /\ OnView \in Listening
  /\ stack' = <<"login">> /\ leaving' = Nil /\ listeners' = <<"login">>
  /\ UNCHANGED <<net, queueVars, checkVars, popup, reachabilityStatus>>

\* A tap, or a query that finds no user: changeRootViewController to Login, and
\* every screen on view disappears.
LogOut ==
  /\ MainIsFree /\ OnView \in Listening
  /\ stack' = <<"login">> /\ leaving' = Nil /\ listeners' = <<>>
  /\ UNCHANGED <<net, queueVars, checkVars, popup, reachabilityStatus>>

FadeEnds ==
  /\ MainIsFree /\ popup.fades > 0
  /\ popup' = Faded(popup)
  /\ UNCHANGED <<net, screenVars, queueVars, checkVars, reachabilityStatus>>

-----------------------------------------------------------------------------
(* The connection and the two queues *)

\* The system queues a callback for a change.
LinkChanges ==
  /\ popup.fades < MaxFades /\ Len(serial) + blocks < MaxQueued
  /\ net' \in Links \ {net}
  /\ serial' = Append(serial, "callback")
  /\ UNCHANGED <<screenVars, blocks, checkVars, popup, reachabilityStatus>>

\* Mutant: a callback does not wait for the first check.
CallbackAtOnce ==
  /\ serial # <<>> /\ Last(serial) = "callback"
  /\ serial' = Front(serial)
  /\ blocks' = blocks + 1
  /\ UNCHANGED <<net, screenVars, checkVars, popup, reachabilityStatus>>

\* callback: DispatchQueue.main.async.
Callback ==
  /\ serial # <<>> /\ Head(serial) = "callback" /\ step["pod"] = "idle"
  /\ serial' = Tail(serial)
  /\ blocks' = blocks + 1
  /\ UNCHANGED <<net, screenVars, checkVars, popup, reachabilityStatus>>

ReadFlags(thread) ==
  /\ seen' = [seen EXCEPT ![thread] = net]
  /\ step' = [step EXCEPT ![thread] = "read"]
  /\ UNCHANGED <<net, screenVars, toTell, previousFlags, popup, reachabilityStatus>>

\* A block on the main queue, which waits for didFinishLaunching to return.
RunBlock ==
  /\ blocks > 0 /\ stack # <<>> /\ step["main"] = "idle"
  /\ blocks' = blocks - 1
  /\ ReadFlags("main")
  /\ UNCHANGED serial

\* The first check, on the serial queue.
RunCheck ==
  /\ serial # <<>> /\ Head(serial) = "check" /\ step["pod"] = "idle"
  /\ serial' = Tail(serial)
  /\ ReadFlags("pod")
  /\ UNCHANGED blocks

\* The guard of Reachability.reachabilityChanged.
Compare(thread) ==
  /\ step[thread] = "read"
  /\ step' = [step EXCEPT ![thread] =
                IF seen[thread] = previousFlags THEN "idle" ELSE "changed"]
  /\ seen' = [seen EXCEPT ![thread] = IF @ = previousFlags THEN Nil ELSE @]
  /\ UNCHANGED <<net, screenVars, queueVars, toTell, previousFlags, popup,
                 reachabilityStatus>>

\* ReachabilityManager.reachabilityChanged begins its loop over a copy of the array.
Notify(thread) ==
  /\ step[thread] = "changed"
  /\ step' = [step EXCEPT ![thread] = "telling"]
  /\ toTell' = [toTell EXCEPT ![thread] = listeners]
  /\ UNCHANGED <<net, screenVars, queueVars, seen, previousFlags, popup,
                 reachabilityStatus>>

\* Mutant: the popup is killed only by a Wifi connection.
StatusDidChangeWifi ==
  popup' = CASE net = "none" -> Started(popup)
             [] net = "wifi" -> Stopped(popup)
             [] OTHER -> popup

\* networkStatusDidChange
StatusDidChange == popup' = IF net = "none" THEN Started(popup) ELSE Stopped(popup)

Tell(thread) ==
  /\ step[thread] = "telling" /\ toTell[thread] # <<>>
  /\ StatusDidChange
  /\ toTell' = [toTell EXCEPT ![thread] = Tail(@)]
  /\ UNCHANGED <<net, screenVars, queueVars, step, seen, previousFlags,
                 reachabilityStatus>>

\* The notification has been posted.
Remember(thread) ==
  /\ step[thread] = "telling" /\ toTell[thread] = <<>>
  /\ previousFlags' = seen[thread]
  /\ step' = [step EXCEPT ![thread] = "idle"]
  /\ seen' = [seen EXCEPT ![thread] = Nil]
  /\ UNCHANGED <<net, screenVars, queueVars, toTell, popup, reachabilityStatus>>

ReachabilityChanged(thread) ==
  Compare(thread) \/ Notify(thread) \/ Tell(thread) \/ Remember(thread)

-----------------------------------------------------------------------------
\* startMonitoring has queued its first check, perhaps behind a callback of a change
\* since the queue was set; no screen is on view yet.
Init ==
  /\ net \in Links
  /\ stack = <<>> /\ leaving = Nil /\ listeners = <<>>
  /\ serial \in {<<"check">>, <<"callback", "check">>} /\ blocks = 0
  /\ step = [thread \in Threads |-> "idle"] /\ seen = [thread \in Threads |-> Nil]
  /\ toTell = [thread \in Threads |-> <<>>]
  /\ previousFlags = Nil
  /\ popup = Idle
  /\ reachabilityStatus = "none"

Next ==
  \/ Launch \/ OpenScreen \/ CloseScreen \/ LogIn \/ Disappears \/ LogOut \/ FadeEnds
  \/ LinkChanges \/ Callback \/ RunBlock \/ RunCheck
  \/ \E thread \in Threads : ReachabilityChanged(thread)

Spec == Init /\ [][Next]_vars

\* The launch ends, both queues are worked off, transitions and fades end.
Fairness ==
  /\ WF_vars(Launch) /\ WF_vars(Callback) /\ WF_vars(RunBlock) /\ WF_vars(RunCheck)
  /\ \A thread \in Threads : WF_vars(ReachabilityChanged(thread))
  /\ WF_vars(Disappears) /\ WF_vars(FadeEnds)

FairSpec == Spec /\ Fairness

-----------------------------------------------------------------------------
(* Properties *)

\* However transitions and log-outs follow each other, the screen on view listens
\* exactly once, a screen that goes listens until it is gone, and no other screen
\* does.  A block on the main queue has nobody else to tell either, however long its
\* walk over the copied array takes: a notification reaches the popup once for each
\* such screen, and a dead screen is never told of a change.
ListenersAreOnScreen ==
  LET onScreen == {OnView, leaving} \cap Listening IN
  /\ ToSet(listeners) = onScreen
  /\ Len(listeners) = Cardinality(onScreen)
  /\ ToSet(toTell["main"]) \subseteq onScreen
  /\ Len(toTell["main"]) = Cardinality(ToSet(toTell["main"]))

\* Every callback and the first check have been handled.
AllHandled == serial = <<>> /\ blocks = 0 /\ \A thread \in Threads : step[thread] = "idle"

\* The flags remembered are the connection's once everything is handled, although
\* the first check remembers its own beside blocks that read later ones: a change it
\* has not read is called back behind it on the serial queue.
FlagsAreCurrent == AllHandled => previousFlags = net

\* A popup that a notification got wrong, because the connection changed while it
\* was posted, or that no screen was told to remove, is put right by the changes that
\* follow: if from some moment on a listening screen stays on view and changes spare
\* the notifications under way, and the connection is lost and found again, then from
\* some moment on, whenever every change has been handled, the popup is shown without
\* a connection and not with one.
Steady == step["main"] # "idle" => net = seen["main"]

PopupIsPutRight ==
  /\ <>[](OnView \in Listening /\ Steady)
  /\ []<>(AllHandled /\ net = "none")
  /\ []<>(AllHandled /\ net # "none")
  => <>[](AllHandled => (popup.opaque <=> net = "none"))

-----------------------------------------------------------------------------
(* What the comments say and the code does not do *)

\* NetworkViewController.swift:44 "Kill the network popup if the use reconnects.":
\* the popup never stays over a connected device.
ReconnectKills == []<>(net = "none" \/ ~Blocks(popup))

\* NetworkViewController.swift:37 "Show the network popup if the user loses
\* connection.": once its fades are over, a popup that was shown is on the window.
ShownIsThere == popup.opaque /\ popup.fades = 0 => popup.attached

\* ReachabilityManager.swift:17 "Track network reachability.": when every change
\* has been handled, isNetworkAvailable tells whether there is a network.
TracksReachability == AllHandled => (isNetworkAvailable <=> net # "none")
=============================================================================
