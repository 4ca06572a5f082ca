----------------------------- MODULE CursorMoves -----------------------------
(***************************************************************************)
(* The cursor on the pages of courses (source/patch/course.cpp): the three *)
(* hooks that lead it to the mod's arrows, turn the page or swap the       *)
(* battle courses where it would leave the screen, and bring it back.      *)
(*                                                                         *)
(* The game's own moves are external: in a grid, left and right go along a *)
(* row and up and down change it; what it does at the end of a row is      *)
(* unknown, and so is where up and down lead from an arrow it put nowhere. *)
(***************************************************************************)
EXTENDS Integers

VARIABLES
  pageID,        \* the page on the screen
  online,        \* m_OnlineToggle
  position,      \* cursorPosition
  last,          \* the last key that moved it, and where from
  turned         \* what that key turned: a page, the battle courses, or nothing

cursorVars == <<pageID, online, position, last, turned>>

Up == 32
Down == 64
Left == 128
Right == 256
Directions == {Up, Down, Left, Right}
Stays == -1

\* Page_CourseGP and Page_CourseBattle have a grid of the mod's own, arrows included;
\* pages 44 and 63 have the game's, with the arrows behind it.
Columns == IF pageID = 43 THEN 8 ELSE 6
Grid == 0..(2 * Columns - 1)
Arrows == IF pageID = 43 THEN {0, 7, 8, 15} ELSE IF pageID = 45 THEN {0, 5, 6, 11} ELSE 16..19

CursorTypeOK ==
  /\ pageID \in {43, 44, 45, 63} /\ online \in BOOLEAN
  /\ position \in Grid \cup Arrows
  /\ last.from \in Grid \cup Arrows /\ last.key \in Directions
  /\ turned \in {"nothing", "increment", "decrement", "swap"}

CursorInit ==
  /\ pageID = 43 /\ online = FALSE /\ position = 1
  /\ last = [from |-> 1, key |-> Up] /\ turned = "nothing"

-----------------------------------------------------------------------------

\* real: the game's own next.
Real(key) ==
  LET column == position % Columns
  IN IF position \notin Grid THEN Grid \cup {Stays}
     ELSE CASE key = Left  -> IF column = 0 THEN Grid \cup {Stays} ELSE {position - 1}
            [] key = Right -> IF column = Columns - 1 THEN Grid \cup {Stays} ELSE {position + 1}
            [] key \in {Up, Down} -> {(position + Columns) % (2 * Columns), Stays}

\* UICursorLink::next, on page 43.
LinkTurns(key) ==
  CASE key = Left /\ position \in {0, 8}   -> "decrement"
    [] key = Right /\ position \in {7, 15} -> "increment"
    [] OTHER -> "nothing"

\* CursorLink_CourseMatrix::next, on page 45.
MatrixTurns(key) ==
  IF <<key, position>> \in {<<Left, 0>>, <<Right, 5>>, <<Right, 11>>, <<Left, 6>>}
  THEN "swap" ELSE "nothing"

\* Mutation: the lower left arrow leads back to the upper row.
BesideCrossed == {<<0, Left, 16>>, <<16, Right, 0>>, <<6, Left, 18>>, <<18, Right, 0>>,
                  <<5, Right, 17>>, <<17, Left, 5>>, <<11, Right, 19>>, <<19, Left, 11>>}

\* UICursor::next_: to an arrow, and back.
Beside == {<<0, Left, 16>>, <<16, Right, 0>>, <<6, Left, 18>>, <<18, Right, 6>>,
           <<5, Right, 17>>, <<17, Left, 5>>, <<11, Right, 19>>, <<19, Left, 11>>}

ArrowTurns(key) ==
  CASE key = Left /\ position \in {16, 18}  -> "decrement"
    [] key = Right /\ position \in {17, 19} -> "increment"
    [] OTHER -> "nothing"

\* Is it this cursor that next_ changes?
Extended == pageID = 44 \/ (pageID = 63 /\ online)

Turns(key) ==
  CASE pageID = 43 -> LinkTurns(key)
    [] pageID = 45 -> MatrixTurns(key)
    [] Extended    -> ArrowTurns(key)
    [] OTHER       -> "nothing"

Nexts(key) ==
  LET led == {to \in Arrows \cup Grid : <<position, key, to>> \in Beside}
  IN IF Turns(key) # "nothing" THEN {Stays}
     ELSE IF Extended /\ led # {} THEN led
     ELSE Real(key)

PressKey(key) ==
  /\ \E to \in Nexts(key) : position' = IF to = Stays THEN position ELSE to
  /\ last' = IF position' = position THEN last ELSE [from |-> position, key |-> key]
  /\ turned' = Turns(key)
  /\ UNCHANGED <<pageID, online>>

\* Another page; page 63 is the one that is chosen from online.
OpenPage(id, toggled) ==
  /\ pageID' = id /\ online' = toggled
  /\ position' = 1 /\ last' = [from |-> 1, key |-> Up]
  /\ turned' = "nothing"

CursorNext ==
  \/ \E key \in Directions : PressKey(key)
  \/ \E id \in {43, 44, 45, 63}, toggled \in BOOLEAN : OpenPage(id, toggled)

CursorSpec == CursorInit /\ [][CursorNext]_cursorVars

-----------------------------------------------------------------------------

Opposite(key) == IF key = Left THEN Right ELSE Left

\* Left and right undo each other, over the cups or courses and onto the arrows and back,
\* in both rows: a player who went to an arrow and turned pages there comes back to the
\* cup beside it; and only on an arrow does a key turn anything (course.cpp:163-183,
\* :233-256, :391-437).  On the online page with the toggle off the cursor is the game's.
KeysUndo ==
  [][\A key \in {Left, Right} :
       PressKey(key) /\ (pageID = 63 => online) =>
         /\ last.key = Opposite(key) => position' = last.from
         /\ turned' # "nothing" => position \in Arrows /\ position' = position]_cursorVars
=============================================================================
