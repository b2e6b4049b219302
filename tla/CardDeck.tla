------------------------------ MODULE CardDeck ------------------------------
(***************************************************************************)
(* What a deck of cards promises its delegate (KolodaView.swift:37-52):    *)
(* cards leave one at a time and in order, and each is reported once, with *)
(* its own index and direction, before the next one leaves.  SwipeSession  *)
(* is written against this promise, and KolodaDeck keeps it as long as the *)
(* person at the screen lets a card that springs back come to rest.        *)
(***************************************************************************)
EXTENDS Integers, Sequences

CONSTANTS Directions, Nil

VARIABLES
  count,     \* cards the deck has been given
  cur,       \* index of the front card
  leaving,   \* direction of the card that has left and is not reported, or Nil
  told       \* what the delegate has been told: <<index, direction>>

vars == <<count, cur, leaving, told>>

Init == count = 0 /\ cur = 0 /\ leaving = Nil /\ told = <<>>

\* The front card leaves; the last one is reported at once.
Leave(direction) ==
  /\ leaving = Nil /\ cur < count
  /\ cur' = cur + 1
  /\ IF cur + 1 < count
       THEN leaving' = direction /\ UNCHANGED told
       ELSE told' = Append(told, <<cur, direction>>) /\ UNCHANGED leaving
  /\ UNCHANGED count

Tell ==
  /\ leaving # Nil
  /\ told' = Append(told, <<cur - 1, leaving>>)
  /\ leaving' = Nil
  /\ UNCHANGED <<count, cur>>

\* The data source has more cards for an empty deck.
Refill ==
  /\ cur = count /\ leaving = Nil
  /\ count' > count
  /\ UNCHANGED <<cur, leaving, told>>

\* The screen and its deck are given up.
Discard == count' = 0 /\ cur' = 0 /\ leaving' = Nil /\ told' = <<>>

Next ==
  \/ \E direction \in Directions : Leave(direction)
  \/ Tell \/ Refill \/ Discard

Spec == Init /\ [][Next]_vars
=============================================================================
