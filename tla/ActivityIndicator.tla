------------------------- MODULE ActivityIndicator -------------------------
(***************************************************************************)
(* ActivityIndicator.shared (Views/Singletons/ActivityIndicator.swift): a  *)
(* full-window overlay that every service starts and stops.  Stopping it   *)
(* makes it transparent at once and removes it from the window only when a *)
(* 0.1 s fade has ended; nothing cancels that removal when the overlay is  *)
(* started again in between.  NoNetworkPopup is written the same way.      *)
(*                                                                         *)
(*   attached  containerView is a subview of the window                    *)
(*   opaque    containerView.alpha is 1 (at 0 touches go through it)       *)
(*   fades     fade completions that have not run yet                      *)
(***************************************************************************)
EXTENDS Naturals

Indicator == [attached : BOOLEAN, opaque : BOOLEAN, fades : Nat]

Idle == [attached |-> FALSE, opaque |-> FALSE, fades |-> 0]

\* startAnimating: the view is (re)added to the window and shown.
Started(i) == [i EXCEPT !.attached = TRUE, !.opaque = TRUE]

\* stopAnimating: transparent now, removed when the fade ends.
Stopped(i) == [i EXCEPT !.opaque = FALSE, !.fades = i.fades + 1]

\* The completion block of a fade: removeFromSuperview, whatever was started
\* since.
Faded(i) == [i EXCEPT !.attached = FALSE, !.fades = i.fades - 1]

\* The overlay is above everything else and takes every touch.
Blocks(i) == i.attached /\ i.opaque
=============================================================================
