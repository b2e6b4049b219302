----------------------------- MODULE KolodaDeck -----------------------------
(***************************************************************************)
(* The deck of cards of the main screen: KolodaView and its                *)
(* DraggableCardViews, animated by pop and UIView, as Petsy configures it  *)
(* (left and right allowed, every card may be dragged, the next card is    *)
(* not made transparent, swipe(force: true) from the two buttons).         *)
(*                                                                         *)
(* Everything runs on the main thread; what interleaves are touches, the   *)
(* buttons and the completion blocks of animations.  The frame animation   *)
(* of the new front card and the reset of the cards behind a card that     *)
(* springs back both last 0.2 s, so they end in the order they started:    *)
(* "ending" is that queue.  A card is the index it was created for.        *)
(***************************************************************************)
EXTENDS Integers, Sequences, FiniteSets

CONSTANTS
  Total,       \* bound: cards the data source ever has
  Window,      \* countOfVisibleCards
  Directions,  \* directions a card can be swiped in
  Hasty,       \* whether the deck is touched while a card springs back, and a
               \* card that is already leaving is caught
  MaxEnding,   \* bound: 0.2 s animations under way when a card is touched
  Nil

ASSUME WindowAssumption == Total \in Nat /\ Window \in Nat \ {0}
ASSUME HastyAssumption == Hasty \in BOOLEAN /\ MaxEnding \in Nat
ASSUME NilAssumption == Nil \notin Nat \cup Directions

VARIABLES
  count,      \* countOfCards
  cur,        \* currentCardIndex
  visible,    \* visibleCards
  animating,  \* animating
  appearing,  \* the appear animation runs: isUserInteractionEnabled is false
  ending,     \* 0.2 s animations whose completion has not run, oldest first
  touch,      \* the card a pan gesture is on, or Nil
  began,      \* cards with dragBegin
  springs,    \* cards whose resetPositionAnimation runs
  flying,     \* swiped cards still in the view hierarchy
  orphans,    \* cards whose delegate has been set to nil
  hidden,     \* visible cards with isHidden
  crashed,    \* an index or a range was out of bounds: the process has ended
  swiped,     \* history: the direction of each card that left the deck
  told        \* history: arguments of didSwipeCardAt

deckVars == <<count, cur, visible, hidden>>
cardVars == <<touch, began, springs, flying, orphans>>
history == <<swiped, told>>
vars == <<count, cur, visible, animating, appearing, ending, touch, began,
          springs, flying, orphans, hidden, crashed, swiped, told>>

Cards == 0..Total - 1
Moved(card, direction) == [card |-> card, direction |-> direction]
Back == [card |-> Nil, direction |-> Nil]
Ends == {Back} \cup {Moved(c, d) : c \in Cards, d \in Directions}

Least(a, b) == IF a < b THEN a ELSE b
Shown == {visible[i] : i \in DOMAIN visible}
Front == visible[1]

-----------------------------------------------------------------------------
(* KolodaView's handlers *)

\* Mutant: a card more than the data source has is loaded.
SwipedActionWide(direction, waiting) ==
  LET rest == Tail(visible)
      next == IF cur + Window < count + 1 THEN Append(rest, cur + Window) ELSE rest
  IN  /\ cur' = cur + 1
      /\ visible' = next
      /\ hidden' = hidden \cup {cur + Window}
      /\ swiped' = Append(swiped, direction)
      /\ animating' = (next # <<>>)
      /\ ending' = IF next # <<>> THEN Append(waiting, Moved(next[1], direction)) ELSE waiting
      /\ told' = IF next # <<>> THEN told ELSE Append(told, <<cur, direction>>)
\* Mutant: the last card is reported by an animation of its own, which no card runs.
SwipedActionSilent(direction, waiting) ==
  LET loads == cur + Window < count
      next == IF loads THEN Append(Tail(visible), cur + Window) ELSE Tail(visible)
  IN  /\ cur' = cur + 1
      /\ visible' = next
      /\ hidden' = IF loads THEN hidden \cup {cur + Window} ELSE hidden
      /\ swiped' = Append(swiped, direction)
      /\ animating' = TRUE
      /\ ending' = IF next # <<>> THEN Append(waiting, Moved(next[1], direction)) ELSE waiting
      /\ told' = told

\* swipedAction: the front card leaves, the next is loaded hidden behind the
\* others.  With cards left the report waits for the new front card's animation.
SwipedAction(direction, waiting) ==
  LET loads == cur + Window < count
      next == IF loads THEN Append(Tail(visible), cur + Window) ELSE Tail(visible)
  IN  /\ cur' = cur + 1
      /\ visible' = next
      /\ hidden' = IF loads THEN hidden \cup {cur + Window} ELSE hidden
      /\ swiped' = Append(swiped, direction)
      /\ animating' = (next # <<>>)
      /\ ending' = IF next # <<>> THEN Append(waiting, Moved(next[1], direction)) ELSE waiting
      /\ told' = IF next # <<>> THEN told ELSE Append(told, <<cur, direction>>)

\* The completion of the frame animation: currentCardIndex is read now.
MovedUp(direction) ==
  /\ animating' = FALSE
  /\ told' = Append(told, <<cur - 1, direction>>)
  /\ hidden' = IF visible = <<>> THEN hidden ELSE hidden \ {visible[Len(visible)]}

\* Mutant: animating is set before the count is looked at.
CardWasResetAlways(waiting) ==
  /\ animating' = TRUE
  /\ ending' = IF Len(visible) > 1 THEN Append(waiting, Back) ELSE waiting
\* card(cardWasReset:)
CardWasReset(waiting) ==
  /\ animating' = (Len(visible) > 1)
  /\ ending' = IF Len(visible) > 1 THEN Append(waiting, Back) ELSE waiting

-----------------------------------------------------------------------------
(* The data source has more cards; Petsy reloads an empty deck only. *)

ReloadData ==
  /\ ~crashed /\ visible = <<>>
  /\ count' \in count + 1 .. Total
  /\ visible' = [i \in 1..Least(Window, count' - cur) |-> cur + i - 1]
  /\ appearing' = TRUE
  /\ animating' = TRUE
  /\ UNCHANGED <<cur, ending, cardVars, hidden, crashed, history>>

AppearEnds ==
  /\ ~crashed /\ appearing
  /\ appearing' = FALSE
  /\ animating' = FALSE
  /\ UNCHANGED <<deckVars, ending, cardVars, crashed, history>>

-----------------------------------------------------------------------------
(* The finger *)

\* A person who is not hasty waits for a card to spring back.
AtRest == springs = {} /\ Back \notin {ending[i] : i \in DOMAIN ending}

Touchable == (IF visible = <<>> THEN {} ELSE {Front}) \cup (IF Hasty THEN flying ELSE {})

\* Pan gesture, .began: removeAnimations() runs the completion blocks of the
\* card's animations, among them the one that reports the last swipe.
TouchDown(card) ==
  /\ ~crashed /\ touch = Nil /\ ~appearing /\ card \in Touchable \ hidden
  /\ Len(ending) < MaxEnding
  /\ Hasty \/ AtRest
  /\ touch' = card
  /\ springs' = springs \ {card}
  /\ flying' = flying \ {card}
  /\ began' = began \cup {card}
  /\ \/ \E i \in DOMAIN ending :
          /\ ending[i].card = card
          /\ MovedUp(ending[i].direction)
          /\ ending' = SubSeq(ending, 1, i - 1) \o SubSeq(ending, i + 1, Len(ending))
     \/ /\ card \notin {ending[i].card : i \in DOMAIN ending}
        /\ UNCHANGED <<animating, told, hidden, ending>>
  /\ UNCHANGED <<count, cur, visible, appearing, orphans, crashed, swiped>>

\* .changed
Drag ==
  /\ ~crashed /\ touch \in Shown \ orphans
  /\ animating' = TRUE
  /\ UNCHANGED <<deckVars, appearing, ending, cardVars, crashed, history>>

\* .ended far enough: swipeAction.  The card flies off whether or not anybody
\* is told.
FlingAway(direction) ==
  /\ ~crashed /\ touch \in Shown
  /\ touch' = Nil
  /\ flying' = flying \cup {touch}
  /\ IF touch \in orphans
       THEN UNCHANGED <<deckVars, animating, ending, swiped, told>>
       ELSE SwipedAction(direction, ending) /\ UNCHANGED count
  /\ UNCHANGED <<appearing, began, springs, orphans, crashed>>

\* .ended too early, or .cancelled (always for a card that has just been
\* removed from the hierarchy): resetViewPositionAndTransformations.
LetGo ==
  /\ ~crashed /\ touch # Nil
  /\ touch' = Nil
  /\ springs' = springs \cup {touch}
  /\ IF touch \in orphans
       THEN UNCHANGED <<animating, ending>>
       ELSE CardWasReset(ending)
  /\ UNCHANGED <<deckVars, appearing, began, flying, orphans, crashed, history>>

-----------------------------------------------------------------------------
(* The buttons *)

\* Mutant: a button does not wait for the animation.
ButtonUnguarded(direction) ==
  /\ ~crashed /\ visible # <<>>
  /\ Hasty \/ (AtRest /\ touch = Nil)
  /\ orphans' = orphans \cup {Front}
  /\ SwipedAction(direction, ending) /\ flying' = flying \cup {Front}
  /\ UNCHANGED <<count, appearing, touch, began, springs, crashed>>

\* swipe(_:force:): "animating" is set before the card decides, and a card that
\* is being dragged or springs back (dragBegin) does nothing.
Button(direction) ==
  /\ ~crashed /\ ~animating /\ visible # <<>>
  /\ Hasty \/ (AtRest /\ touch = Nil)
  /\ orphans' = orphans \cup {Front}
  /\ IF Front \in began
       THEN animating' = TRUE /\ UNCHANGED <<cur, visible, hidden, ending, flying, swiped, told>>
       ELSE SwipedAction(direction, ending) /\ flying' = flying \cup {Front}
  /\ UNCHANGED <<count, appearing, touch, began, springs, crashed>>

-----------------------------------------------------------------------------
(* Animations end.  With no card left both completions end the process: the    *)
(* loop over 1..<visibleCards.count has no range, and didShowCardAt hands      *)
(* petViewModels an index past its end.                                        *)

EndingEnds ==
  /\ ~crashed /\ ending # <<>>
  /\ ending' = Tail(ending)
  /\ crashed' = (visible = <<>>)
  /\ IF ending[1] = Back
       THEN animating' = FALSE /\ UNCHANGED <<told, hidden>>
       ELSE MovedUp(ending[1].direction)
  /\ UNCHANGED <<count, cur, visible, appearing, cardVars, swiped>>

\* Mutant: dragBegin is never cleared.
SpringEndsDirty(card) ==
  /\ ~crashed /\ card \in springs
  /\ springs' = springs \ {card}
  /\ UNCHANGED <<began, deckVars, animating, appearing, ending, touch, flying, orphans, crashed, history>>

SpringEnds(card) ==
  /\ ~crashed /\ card \in springs
  /\ springs' = springs \ {card}
  /\ began' = began \ {card}
  /\ UNCHANGED <<deckVars, animating, appearing, ending, touch, flying, orphans, crashed, history>>

FlightEnds(card) ==
  /\ ~crashed /\ card \in flying
  /\ flying' = flying \ {card}
  /\ UNCHANGED <<deckVars, animating, appearing, ending, touch, began, springs, orphans, crashed, history>>

-----------------------------------------------------------------------------
Init ==
  /\ count = 0 /\ cur = 0 /\ visible = <<>> /\ hidden = {}
  /\ animating = FALSE /\ appearing = FALSE /\ ending = <<>>
  /\ touch = Nil /\ began = {} /\ springs = {} /\ flying = {} /\ orphans = {}
  /\ crashed = FALSE /\ swiped = <<>> /\ told = <<>>

Next ==
  \/ ReloadData \/ AppearEnds \/ Drag \/ LetGo \/ EndingEnds
  \/ \E d \in Directions : FlingAway(d) \/ Button(d)
  \/ \E c \in Cards : TouchDown(c) \/ SpringEnds(c) \/ FlightEnds(c)

Spec == Init /\ [][Next]_vars

\* Animations end, and a finger is lifted; nothing is asked of the person at
\* the screen otherwise.
Fairness ==
  /\ WF_vars(AppearEnds) /\ WF_vars(EndingEnds)
  /\ WF_vars(LetGo \/ \E d \in Directions : FlingAway(d))
  /\ \A c \in Cards : WF_vars(SpringEnds(c)) /\ WF_vars(FlightEnds(c))

FairSpec == Spec /\ Fairness

-----------------------------------------------------------------------------
(* Properties *)

\* Every variable keeps its type.
TypeOK ==
  /\ count \in 0..Total /\ cur \in 0..Total
  /\ visible \in Seq(Cards) /\ hidden \subseteq Cards
  /\ animating \in BOOLEAN /\ appearing \in BOOLEAN
  /\ ending \in Seq(Ends) /\ crashed \in BOOLEAN
  /\ touch \in Cards \cup {Nil}
  /\ began \subseteq Cards /\ springs \subseteq Cards
  /\ flying \subseteq Cards /\ orphans \subseteq Cards
  /\ swiped \in Seq(Directions) /\ told \in Seq((-1..Total) \X Directions)

\* However the deck is handled, it shows the cards from the front index on, as
\* many as fit the window: no card is skipped, shown twice or left out
\* (viewForCard(at:) and cardWasTapped rely on it).
WindowIsFull ==
  /\ cur <= count
  /\ visible = [i \in 1..Least(Window, count - cur) |-> cur + i - 1]

\* However the deck is handled, the delegate hears as often as cards leave: a
\* report is outstanding exactly for each frame animation in the queue.
Outstanding == {i \in DOMAIN ending : ending[i] # Back}
AsManyReportsAsSwipes ==
  /\ Len(swiped) = cur
  /\ Len(told) + Cardinality(Outstanding) = cur

\* The deck ignores the buttons only while something is under way that will end,
\* or behind a front card that lost its delegate.
IgnoresOnlyWhileMoving ==
  animating =>
    \/ appearing \/ ending # <<>> \/ touch # Nil
    \/ visible # <<>> /\ Front \in orphans

\* Whoever lets a card come to rest never ends the process, never meets a front
\* card without a delegate or one that is hidden, and finds the deck ready
\* whenever nothing moves.
ReadyForTheNext ==
  ~Hasty =>
    /\ ~crashed
    /\ Shown \cap orphans = {}
    /\ visible # <<>> => Front \notin hidden
    /\ touch = Nil /\ springs = {} => Shown \cap began = {}

\* Every card that leaves is reported in the end, to a patient person and to a
\* hasty one, unless the process ends.
EverySwipeIsReported ==
  \A n \in 1..Total : Len(swiped) >= n ~> Len(told) >= n \/ crashed

\* Under patient hands the deck is a CardDeck.
Deck == INSTANCE CardDeck WITH
  leaving <- IF Outstanding = {} THEN Nil ELSE swiped[cur]
IsCardDeck == Deck!Spec

-----------------------------------------------------------------------------
(* What Koloda's README says and a hasty hand does not find. *)

\* README.md:160 of Koloda, on swipe(): "Applies swipe animation and action,
\* increment currentCardNumber."
SwipeApplies ==
  [][\A d \in Directions : Button(d) => cur' = cur + 1]_vars

\* README.md:203 of Koloda, on didSwipeCardAt: "This method is called whenever the
\* KolodaView swipes card": each card that left and is no longer waiting for
\* its animation has been reported under its own index and direction.
ReportedAsSwiped ==
  \A i \in DOMAIN told : told[i] = <<i - 1, swiped[i]>>
=============================================================================
