------------------------------ MODULE TrackPages ------------------------------
(***************************************************************************)
(* Pages of custom tracks (source/patch/cup0.hpp) and what choosing one    *)
(* does to trackNamesMod, the table from which FSOpenFile takes the name   *)
(* of the track it loads in place of a course of the game.                 *)
(*                                                                         *)
(* A course is a pair of its cup and its place in the cup.  The name of a  *)
(* track that replaces it is abstracted to the page the track is on, since *)
(* trackPaths[cup][i] of a page is only ever stored for that same course;  *)
(* Original stands for no replacement: NULL, or the course's own name.     *)
(***************************************************************************)
EXTENDS Integers

CONSTANTS
  NumPages,     \* pages of custom tracks in data.cup0
  Cups,         \* cups of the game (0..11)
  PagedCups,    \* the ones a page may replace (0..7)
  Tracks,       \* courses of a cup (0..3)
  Custom        \* <<page, cup>>: the cups each page replaces

Original == 0
Pages == 1..NumPages
AnyPage == 0..NumPages
Courses == Cups \X Tracks

ASSUME PagesAssumption ==
  /\ NumPages \in Nat
  /\ PagedCups \subseteq Cups /\ Cups \subseteq Nat /\ Tracks \subseteq Nat
  /\ Custom \subseteq Pages \X PagedCups

\* The pages of a data.cup0 all replace the same cups.  The one of
\* create_cup_organization.py has a single page.
SameCupsOnEachPage ==
  \A p, q \in Pages, c \in PagedCups : <<p, c>> \in Custom => <<q, c>> \in Custom

\* What a page offers in a cup: trackPaths of a cup it does not replace is NULL.
Offered(page, c) == IF <<page, c>> \in Custom THEN page ELSE Original

Decremented(page) == IF page = 0 THEN NumPages ELSE page - 1

\* Mutation: the last page is never recognised.
IncrementedPast(page) == IF page > NumPages THEN 0 ELSE page + 1

Incremented(page) == IF page = NumPages THEN 0 ELSE page + 1

\* Mutation: page 0 leaves the names of the cup in place.
AfterSelectKeeping(mod, page, cup) ==
  [x \in Courses |-> IF x[1] = cup /\ <<page, cup>> \in Custom THEN page ELSE mod[x]]

\* changeCourseButtons: trackNamesMod after a cup has been selected on a page.
AfterSelect(mod, page, cup) ==
  [x \in Courses |->
     IF x[1] = cup /\ <<page, cup>> \in Custom THEN page
     ELSE IF x[1] = cup /\ page = 0 THEN Original
     ELSE mod[x]]

\* loadPageTrackPaths: trackNamesMod after a page has been received.  On page 0
\* the inner loop reuses i: only course i of cup i is reset, for each i < 4.
AfterPacket(mod, page) ==
  [x \in Courses |->
     IF page > 0 THEN IF x[1] \in PagedCups THEN Offered(page, x[1]) ELSE mod[x]
     ELSE IF x[1] = x[2] THEN Original ELSE mod[x]]
=============================================================================
