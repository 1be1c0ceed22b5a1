--------------------------- MODULE AlumniCarousel ---------------------------
(***************************************************************************)
(* The carousel of the career result (alumni-carousel.tsx): a row of cards *)
(* with the last three repeated before the first and the first three after *)
(* the last.  The row slides with a CSS transition; when that ends at a    *)
(* repeated card the row is put, without one, at the card it repeats.      *)
(*                                                                         *)
(* A carousel is a record.  index: currentIndex.  animating: isAnimating.  *)
(* moving: the browser's transition has not ended.                         *)
(***************************************************************************)
EXTENDS Integers, Sequences

CONSTANT NumAlumni

CLONE_COUNT == 3

(* Divisions with one card have it shown without the carousel. *)
ASSUME NumAlumniAssumption == NumAlumni \in Nat /\ NumAlumni >= CLONE_COUNT

(* loopItems, by the number of the alumnus. *)
Alumni == [i \in 1 .. NumAlumni |-> i]
LoopItems ==
  SubSeq(Alumni, NumAlumni - CLONE_COUNT + 1, NumAlumni) \o Alumni
    \o SubSeq(Alumni, 1, CLONE_COUNT)

Carousel == [index |-> CLONE_COUNT, animating |-> TRUE, moving |-> FALSE]

MovesTo(c, i) ==
  [index |-> i, animating |-> TRUE, moving |-> c.moving \/ i # c.index]

GoNext(c) == MovesTo(c, c.index + 1)
GoPrev(c) == MovesTo(c, c.index - 1)
Dot(c, i) == MovesTo(c, CLONE_COUNT + i)

Jump(i) == [index |-> i, animating |-> FALSE, moving |-> FALSE]

(* Faulty: the first repeated card is taken for one of the row. *)
HandledOffByOne(c) ==
  IF c.index > NumAlumni + CLONE_COUNT THEN Jump(CLONE_COUNT)
  ELSE IF c.index < CLONE_COUNT THEN Jump(NumAlumni + CLONE_COUNT - 1)
  ELSE c

(* handleTransitionEnd.  It also hears of the transitions of what is in the
   cards, while the row is still moving. *)
Handled(c) ==
  IF c.index >= NumAlumni + CLONE_COUNT THEN Jump(CLONE_COUNT)
  ELSE IF c.index < CLONE_COUNT THEN Jump(NumAlumni + CLONE_COUNT - 1)
  ELSE c

TransitionEnd(c) == Handled([c EXCEPT !.moving = FALSE])

(* requestAnimationFrame, after a jump. *)
Frame(c) == [c EXCEPT !.animating = TRUE]

(* The card at the left of the frame, and the one whose dot is marked. *)
InRow(c) == c.index + 1 \in DOMAIN LoopItems
ShownCard(c) == LoopItems[c.index + 1]
ActiveCard(c) == ((c.index - CLONE_COUNT) % NumAlumni) + 1
=============================================================================
