------------------------------ MODULE MenuProofs ------------------------------
(***************************************************************************)
(* Proofs about what the player's menus rest on, each part a specification *)
(* of its own: Matchmaking, for any consoles, rooms and regions;           *)
(* CursorMoves; CupIcons, for any number of icons and any places for them; *)
(* MessageTable; and Restart.                                              *)
(*                                                                         *)
(* The toggle can only be switched in the online menu, so what it was when *)
(* the criteria were set is still true in the search and in the room that  *)
(* was found or created.  SearchedByToggle and MetByToggle say that of the *)
(* two places; a room's attribute then tells the toggle of every member    *)
(* that came by searching, and two members share the attribute.            *)
(*                                                                         *)
(* LastMove says that the last key, if it was left or right, led along the *)
(* row or onto an arrow and back; BackAgain that the other key leads back. *)
(*                                                                         *)
(* Addresses says that an icon of this menu is found at the address it has *)
(* there, and at no other icon's (OneAddress), so that its texture and its *)
(* picture come to its own places (OwnPlaces).                             *)
(*                                                                         *)
(* In MessageTable, for any texts added and any number of replacements,    *)
(* TableInv says that an allocated text is in one entry, or in             *)
(* MainThread's hand on its way there, or freed once (HomesOk), and that   *)
(* the game's thread never comes to the entry whose texts are freed        *)
(* (GameOk).                                                               *)
(*                                                                         *)
(* In Restart, for any number of titles, a console may leave a title       *)
(* wherever MainThread is.  RestartInv says which variables this title has *)
(* set when MainThread has come as far as it has; the hooks that read them *)
(* are in the code only behind that point.                                 *)
(***************************************************************************)
EXTENDS Matchmaking, CursorMoves, CupIcons, MessageTable, Restart, FiniteSetTheorems,
        SequenceTheorems, WellFoundedInduction, TLAPS

-----------------------------------------------------------------------------
(* Who meets whom. *)

\* attribute 3 is the CTGP region exactly if the toggle is on.
TellsToggle(value, p) == (value = Ctgp) <=> toggle[p]

\* Who searches does so by its toggle, and remembers what for.
SearchedByToggle ==
  \A p \in Players : menu[p] = "search" =>
    /\ TellsToggle(criteria[p], p)
    /\ m_LastRegion[p] = criteria[p]
    /\ criteria[p] \in AnyRegion

\* Who is in a room is not in a menu, and if it searched, the room is of its kind.
MetByToggle ==
  \A p \in Players : room[p] # NoRoom =>
    /\ menu[p] = "room"
    /\ searched[p] => /\ TellsToggle(attribute3[room[p]], p)
                      /\ m_LastRegion[p] = attribute3[room[p]]

\* The text behind the button is that of the toggle, and the button shows it.
TextTellsToggle ==
  \A p \in Players : text[p] = toggle[p] /\ (menu[p] = "top" => label[p] = toggle[p])

MeetInv == MeetTypeOK /\ SearchedByToggle /\ MetByToggle /\ TextTellsToggle

-----------------------------------------------------------------------------

\* What a SetAttribute hook puts in place of a region of the game's tells the toggle.
LEMMA AttributeTells ==
  ASSUME MeetTypeOK, NEW p \in Players, NEW value \in Regions
  PROVE  AttributeFor(p, value) \in AnyRegion /\ TellsToggle(AttributeFor(p, value), p)
BY RegionsAssumption DEF AttributeFor, AnyRegion, TellsToggle, MeetTypeOK

\* At the start everyone is somewhere else, with the toggle off.
LEMMA MeetInitInv == MeetInit => MeetInv
BY DEF MeetInit, MeetInv, MeetTypeOK, SearchedByToggle, MetByToggle, TextTellsToggle, AnyRegion

\* No step leaves the types.
LEMMA MeetTypeStep ==
  ASSUME MeetTypeOK, [MeetNext]_meetVars PROVE MeetTypeOK'
<1>1. CASE UNCHANGED meetVars
  BY <1>1 DEF meetVars, MeetTypeOK
<1>2. ASSUME NEW p \in Players, OnCreate(p) PROVE MeetTypeOK'
  BY <1>2 DEF OnCreate, MeetTypeOK
<1>3. ASSUME NEW p \in Players, LeaveTop(p) PROVE MeetTypeOK'
  BY <1>3 DEF LeaveTop, MeetTypeOK
<1>4. ASSUME NEW p \in Players, Page_WifiTop_ButtonHandler(p) PROVE MeetTypeOK'
  BY <1>4 DEF Page_WifiTop_ButtonHandler, MeetTypeOK
<1>5. ASSUME NEW p \in Players, Disconnect(p) PROVE MeetTypeOK'
  BY <1>5 DEF Disconnect, MeetTypeOK
<1>6. ASSUME NEW p \in Players, NEW value \in Regions, SetCriteria(p, value) PROVE MeetTypeOK'
  BY <1>6, AttributeTells DEF SetCriteria, MeetTypeOK
<1>7. ASSUME NEW p \in Players, NEW r \in Rooms, AutoMatch(p, r) PROVE MeetTypeOK'
  BY <1>7 DEF AutoMatch, Entered, MeetTypeOK
<1>8. ASSUME NEW p \in Players, NEW r \in Rooms, JoinMatch(p, r) PROVE MeetTypeOK'
  BY <1>8 DEF JoinMatch, Entered, MeetTypeOK
<1>9. ASSUME NEW p \in Players, NEW r \in Rooms, NEW value \in Regions, CreateMatch(p, r, value)
      PROVE MeetTypeOK'
  BY <1>9, AttributeTells DEF CreateMatch, Entered, MeetTypeOK
<1> QED BY <1>1, <1>2, <1>3, <1>4, <1>5, <1>6, <1>7, <1>8, <1>9 DEF MeetNext, Meet

\* What is said of the consoles that take no part in a step, when no toggle, room or
\* attribute of theirs changes.
OthersStay(p) ==
  \A q \in Players \ {p} :
    /\ toggle'[q] = toggle[q] /\ text'[q] = text[q] /\ label'[q] = label[q]
    /\ menu'[q] = menu[q] /\ criteria'[q] = criteria[q]
    /\ m_LastRegion'[q] = m_LastRegion[q]
    /\ room'[q] = room[q] /\ searched'[q] = searched[q]
    /\ room[q] # NoRoom => attribute3'[room[q]] = attribute3[room[q]]

\* A step that is right for the console that takes it keeps the invariant.
LEMMA OneConsole ==
  ASSUME MeetInv, MeetTypeOK', NEW p \in Players, OthersStay(p),
         menu'[p] = "search" =>
           /\ TellsToggle(criteria[p], p)'
           /\ m_LastRegion'[p] = criteria'[p]
           /\ criteria'[p] \in AnyRegion,
         room'[p] # NoRoom =>
           /\ menu'[p] = "room"
           /\ searched'[p] => /\ TellsToggle(attribute3[room[p]], p)'
                              /\ m_LastRegion'[p] = attribute3'[room'[p]],
         text'[p] = toggle'[p],
         menu'[p] = "top" => label'[p] = toggle'[p]
  PROVE  MeetInv'
<1>1. SearchedByToggle'
  BY DEF MeetInv, SearchedByToggle, OthersStay, TellsToggle, AnyRegion
<1>2. MetByToggle'
  <2> SUFFICES ASSUME NEW q \in Players, room'[q] # NoRoom
               PROVE  /\ menu'[q] = "room"
                      /\ searched'[q] => /\ (attribute3'[room'[q]] = Ctgp) <=> toggle'[q]
                                         /\ m_LastRegion'[q] = attribute3'[room'[q]]
    BY DEF MetByToggle, TellsToggle
  <2>1. CASE q = p
    BY <2>1 DEF TellsToggle
  <2>2. CASE q # p
    BY <2>2 DEF MeetInv, MetByToggle, TellsToggle, OthersStay
  <2> QED BY <2>1, <2>2
<1>3. TextTellsToggle'
  BY DEF MeetInv, TextTellsToggle, OthersStay
<1> QED BY <1>1, <1>2, <1>3 DEF MeetInv

\* No step loses it.
LEMMA MeetStep ==
  ASSUME MeetInv, [MeetNext]_meetVars PROVE MeetInv'
<1> USE DEF MeetInv
<1>0. MeetTypeOK'
  BY MeetTypeStep
<1>1. CASE UNCHANGED meetVars
  BY <1>0, <1>1 DEF meetVars, SearchedByToggle, MetByToggle, TextTellsToggle, TellsToggle, AnyRegion
<1>2. ASSUME NEW p \in Players, OnCreate(p) PROVE MeetInv'
  <2>1. OthersStay(p)
    BY <1>2 DEF OnCreate, OthersStay, MeetTypeOK
  <2>2. room'[p] = NoRoom
    BY <1>2 DEF OnCreate, MetByToggle, MeetTypeOK
  <2>3. menu'[p] = "top" /\ text'[p] = toggle'[p] /\ label'[p] = toggle'[p]
    BY <1>2 DEF OnCreate, TextTellsToggle, MeetTypeOK
  <2> QED BY <1>0, <2>1, <2>2, <2>3, OneConsole
<1>3. ASSUME NEW p \in Players, LeaveTop(p) PROVE MeetInv'
  <2>1. OthersStay(p)
    BY <1>3 DEF LeaveTop, OthersStay, MeetTypeOK
  <2>2. room'[p] = NoRoom
    BY <1>3 DEF LeaveTop, MetByToggle, MeetTypeOK
  <2>3. menu'[p] = "elsewhere" /\ text'[p] = toggle'[p]
    BY <1>3 DEF LeaveTop, TextTellsToggle, MeetTypeOK
  <2> QED BY <1>0, <2>1, <2>2, <2>3, OneConsole
<1>4. ASSUME NEW p \in Players, Page_WifiTop_ButtonHandler(p) PROVE MeetInv'
  <2>1. OthersStay(p)
    BY <1>4 DEF Page_WifiTop_ButtonHandler, OthersStay, MeetTypeOK
  <2>2. room'[p] = NoRoom
    BY <1>4 DEF Page_WifiTop_ButtonHandler, MetByToggle, MeetTypeOK
  <2>3. menu'[p] = "top" /\ text'[p] = toggle'[p] /\ label'[p] = toggle'[p]
    BY <1>4 DEF Page_WifiTop_ButtonHandler, MeetTypeOK
  <2> QED BY <1>0, <2>1, <2>2, <2>3, OneConsole
<1>5. ASSUME NEW p \in Players, Disconnect(p) PROVE MeetInv'
  <2>1. OthersStay(p)
    BY <1>5 DEF Disconnect, OthersStay, MeetTypeOK
  <2>2. room'[p] = NoRoom
    BY <1>5 DEF Disconnect, MeetTypeOK
  <2>3. menu'[p] = "elsewhere" /\ text'[p] = toggle'[p]
    BY <1>5 DEF Disconnect, TextTellsToggle, MeetTypeOK
  <2> QED BY <1>0, <2>1, <2>2, <2>3, OneConsole
<1>6. ASSUME NEW p \in Players, NEW value \in Regions, SetCriteria(p, value) PROVE MeetInv'
  <2>1. OthersStay(p)
    BY <1>6 DEF SetCriteria, OthersStay, MeetTypeOK
  <2>2. room'[p] = NoRoom
    BY <1>6 DEF SetCriteria, MetByToggle, MeetTypeOK
  <2>3. menu'[p] = "search" /\ text'[p] = toggle'[p]
    BY <1>6 DEF SetCriteria, TextTellsToggle, MeetTypeOK
  <2>4. /\ TellsToggle(criteria[p], p)'
        /\ m_LastRegion'[p] = criteria'[p]
        /\ criteria'[p] \in AnyRegion
    BY <1>6, AttributeTells DEF SetCriteria, TellsToggle, MeetTypeOK
  <2> QED BY <1>0, <2>1, <2>2, <2>3, <2>4, OneConsole
<1>7. ASSUME NEW p \in Players, NEW r \in Rooms, AutoMatch(p, r) PROVE MeetInv'
  <2>1. OthersStay(p)
    BY <1>7 DEF AutoMatch, Entered, OthersStay, MeetTypeOK
  <2>2. menu'[p] = "room" /\ room'[p] = r /\ text'[p] = toggle'[p]
    BY <1>7 DEF AutoMatch, Entered, TextTellsToggle, MeetTypeOK
  <2>3. TellsToggle(attribute3[room[p]], p)' /\ m_LastRegion'[p] = attribute3'[room'[p]]
    BY <1>7, <2>2 DEF AutoMatch, Entered, SearchedByToggle, TellsToggle
  <2> QED BY <1>0, <2>1, <2>2, <2>3, OneConsole
<1>8. ASSUME NEW p \in Players, NEW r \in Rooms, JoinMatch(p, r) PROVE MeetInv'
  <2>1. OthersStay(p)
    BY <1>8 DEF JoinMatch, Entered, OthersStay, MeetTypeOK
  <2>2. menu'[p] = "room" /\ ~searched'[p] /\ text'[p] = toggle'[p]
    BY <1>8 DEF JoinMatch, Entered, TextTellsToggle, MeetTypeOK
  <2> QED BY <1>0, <2>1, <2>2, OneConsole
<1>9. ASSUME NEW p \in Players, NEW r \in Rooms, NEW value \in Regions, CreateMatch(p, r, value)
      PROVE MeetInv'
  <2>1. \A q \in Players : room[q] # r
    BY <1>9 DEF CreateMatch, Members
  <2>2. OthersStay(p)
    BY <1>9, <2>1 DEF CreateMatch, Entered, OthersStay, MeetTypeOK
  <2>3. menu'[p] = "room" /\ room'[p] = r /\ text'[p] = toggle'[p]
    BY <1>9 DEF CreateMatch, Entered, TextTellsToggle, MeetTypeOK
  <2>4. TellsToggle(attribute3[room[p]], p)' /\ m_LastRegion'[p] = attribute3'[room'[p]]
    BY <1>9, <2>3, AttributeTells DEF CreateMatch, Entered, TellsToggle, MeetTypeOK
  <2> QED BY <1>0, <2>2, <2>3, <2>4, OneConsole
<1> QED BY <1>1, <1>2, <1>3, <1>4, <1>5, <1>6, <1>7, <1>8, <1>9 DEF MeetNext, Meet

LEMMA MeetInvAlways == MeetSpec => []MeetInv
<1>1. MeetInv /\ [MeetNext]_meetVars => MeetInv'
  BY MeetStep
<1> QED BY <1>1, MeetInitInv, PTL DEF MeetSpec

-----------------------------------------------------------------------------

\* Consoles, menus and rooms keep their types (online.cpp:75-202).
THEOREM MeetTyped == MeetSpec => []MeetTypeOK
<1>1. MeetInv => MeetTypeOK
  BY DEF MeetInv
<1> QED BY <1>1, MeetInvAlways, PTL

\* Whatever anyone switched before, the consoles that came to a room by searching, or
\* created it, all have the toggle on or all off (online.cpp:75-95).
THEOREM MeetTheirKind == MeetSpec => []RoomsDoNotMix
<1>1. MeetInv => RoomsDoNotMix
  <2> SUFFICES ASSUME MeetInv, NEW p \in Players, room[p] # NoRoom, searched[p]
               PROVE  /\ m_LastRegion[p] = attribute3[room[p]]
                      /\ \A q \in Members(room[p]) : searched[q] => toggle[q] = toggle[p]
    BY DEF RoomsDoNotMix
  <2>1. m_LastRegion[p] = attribute3[room[p]] /\ TellsToggle(attribute3[room[p]], p)
    BY DEF MeetInv, MetByToggle
  <2>2. ASSUME NEW q \in Members(room[p]), searched[q] PROVE toggle[q] = toggle[p]
    <3>1. q \in Players /\ room[q] = room[p]
      BY DEF Members
    <3>2. TellsToggle(attribute3[room[p]], q)
      BY <2>2, <3>1 DEF MeetInv, MetByToggle
    <3>3. toggle[p] \in BOOLEAN /\ toggle[q] \in BOOLEAN
      BY <3>1 DEF MeetInv, MeetTypeOK
    <3> QED BY <2>1, <3>2, <3>3 DEF TellsToggle
  <2> QED BY <2>1, <2>2
<1> QED BY <1>1, MeetInvAlways, PTL

\* The button of the online menu tells the toggle, also after coming back to it
\* (online.cpp:97-108, :117-125).
THEOREM ButtonTellsToggle == MeetSpec => []LabelTellsToggle
<1>1. MeetInv => LabelTellsToggle
  BY DEF MeetInv, TextTellsToggle, LabelTellsToggle
<1> QED BY <1>1, MeetInvAlways, PTL

-----------------------------------------------------------------------------
(* The cursor. *)

\* What the last key did, if it was left or right: the cursor went along its row, or to
\* an arrow beside the grid, or back.
AlongRow(from, key, to) ==
  /\ from \in Grid
  /\ \/ key = Left /\ from % Columns # 0 /\ to = from - 1
     \/ key = Right /\ from % Columns # Columns - 1 /\ to = from + 1

OntoArrow(from, key, to) == Extended /\ <<from, key, to>> \in Beside

LastMove ==
  (pageID = 63 => online) /\ last.key \in {Left, Right} =>
    AlongRow(last.from, last.key, position) \/ OntoArrow(last.from, last.key, position)

CursorInv == CursorTypeOK /\ LastMove

\* The grids and arrows of the pages, counted.
LEMMA Counted ==
  ASSUME CursorTypeOK
  PROVE  /\ Columns = IF pageID = 43 THEN 8 ELSE 6
         /\ Grid = IF pageID = 43 THEN 0..15 ELSE 0..11
         /\ position \in 0..19
<1>1. Columns = IF pageID = 43 THEN 8 ELSE 6
  BY DEF Columns
<1>2. Grid = IF pageID = 43 THEN 0..15 ELSE 0..11
  <2>1. CASE pageID = 43
    BY <2>1 DEF Columns, Grid
  <2>2. CASE pageID # 43
    BY <2>2 DEF Columns, Grid
  <2> QED BY <2>1, <2>2
<1>3. Grid \subseteq 0..19 /\ Arrows \subseteq 0..19
  BY <1>2 DEF Arrows
<1> QED BY <1>1, <1>2, <1>3 DEF CursorTypeOK

\* Left and right, where they turn nothing, lead along the row or over its end.
LEMMA SidewaysMoves ==
  ASSUME CursorTypeOK, pageID = 63 => online, NEW key \in {Left, Right},
         Turns(key) = "nothing", NEW to \in Nexts(key)
  PROVE  AlongRow(position, key, to) \/ OntoArrow(position, key, to)
<1>1. CASE Extended
  <2>1. Columns = 6 /\ Grid = 0..11 /\ Arrows = 16..19 /\ position \in 0..19
        /\ position \in Grid \cup Arrows
    BY <1>1 DEF Extended, Columns, Grid, Arrows, CursorTypeOK
  <2>2. CASE \E x \in Arrows \cup Grid : <<position, key, x>> \in Beside
    BY <1>1, <2>2 DEF Nexts, OntoArrow
  <2>3. CASE ~\E x \in Arrows \cup Grid : <<position, key, x>> \in Beside
    <3>1. to \in Real(key)
      BY <2>3 DEF Nexts
    <3>2. position \notin {5, 11} \/ key = Left
      BY <2>1, <2>3 DEF Beside, Left, Right
    <3>3. position \notin {0, 6} \/ key = Right
      BY <2>1, <2>3 DEF Beside, Left, Right
    <3>4. position \in Grid
      <4>1. CASE position \in {16, 18}
        BY <1>1, <2>1, <2>3, <4>1 DEF Beside, Left, Right, Turns, ArrowTurns, Extended
      <4>2. CASE position \in {17, 19}
        BY <1>1, <2>1, <2>3, <4>2 DEF Beside, Left, Right, Turns, ArrowTurns, Extended
      <4> QED BY <2>1, <4>1, <4>2
    <3>5. CASE key = Left
      <4>1. position % Columns # 0
        BY <2>1, <3>3, <3>4, <3>5 DEF Left, Right
      <4>2. to = position - 1
        BY <3>1, <3>4, <3>5, <4>1 DEF Real, Left, Right, Up, Down
      <4> QED BY <3>4, <3>5, <4>1, <4>2 DEF AlongRow
    <3>6. CASE key = Right
      <4>1. position % Columns # Columns - 1
        BY <2>1, <3>2, <3>4, <3>6 DEF Left, Right
      <4>2. to = position + 1
        BY <3>1, <3>4, <3>6, <4>1 DEF Real, Left, Right, Up, Down
      <4> QED BY <3>4, <3>6, <4>1, <4>2 DEF AlongRow
    <3> QED BY <3>5, <3>6
  <2> QED BY <2>2, <2>3
<1>2. CASE pageID = 43
  <2>1. Columns = 8 /\ Grid = 0..15 /\ position \in Grid
    BY <1>2 DEF Columns, Grid, Arrows, CursorTypeOK
  <2>2. to \in Real(key)
    BY <1>2 DEF Nexts, Extended
  <2>3. ~(key = Left /\ position \in {0, 8}) /\ ~(key = Right /\ position \in {7, 15})
    BY <1>2 DEF Turns, LinkTurns, Extended, Left, Right
  <2>4. CASE key = Left
    <3>1. position % Columns # 0
      BY <2>1, <2>3, <2>4
    <3>2. to = position - 1
      BY <2>1, <2>2, <2>4, <3>1 DEF Real, Left, Right, Up, Down
    <3> QED BY <2>1, <2>4, <3>1, <3>2 DEF AlongRow
  <2>5. CASE key = Right
    <3>1. position % Columns # Columns - 1
      BY <2>1, <2>3, <2>5 DEF Left, Right
    <3>2. to = position + 1
      BY <2>1, <2>2, <2>5, <3>1 DEF Real, Left, Right, Up, Down
    <3> QED BY <2>1, <2>5, <3>1, <3>2 DEF AlongRow
  <2> QED BY <2>4, <2>5
<1>3. CASE pageID = 45
  <2>1. Columns = 6 /\ Grid = 0..11 /\ position \in Grid
    BY <1>3 DEF Columns, Grid, Arrows, CursorTypeOK
  <2>2. to \in Real(key)
    BY <1>3 DEF Nexts, Extended
  <2>3. ~(key = Left /\ position \in {0, 6}) /\ ~(key = Right /\ position \in {5, 11})
    BY <1>3 DEF Turns, MatrixTurns, Extended, Left, Right
  <2>4. CASE key = Left
    <3>1. position % Columns # 0
      BY <2>1, <2>3, <2>4
    <3>2. to = position - 1
      BY <2>1, <2>2, <2>4, <3>1 DEF Real, Left, Right, Up, Down
    <3> QED BY <2>1, <2>4, <3>1, <3>2 DEF AlongRow
  <2>5. CASE key = Right
    <3>1. position % Columns # Columns - 1
      BY <2>1, <2>3, <2>5 DEF Left, Right
    <3>2. to = position + 1
      BY <2>1, <2>2, <2>5, <3>1 DEF Real, Left, Right, Up, Down
    <3> QED BY <2>1, <2>5, <3>1, <3>2 DEF AlongRow
  <2> QED BY <2>4, <2>5
<1> QED BY <1>1, <1>2, <1>3 DEF Extended, CursorTypeOK

\* The key back from there leads back, and turns nothing.
LEMMA BackAgain ==
  ASSUME CursorTypeOK, pageID = 63 => online, NEW key \in {Left, Right},
         NEW from,
         \/ AlongRow(from, Opposite(key), position)
         \/ OntoArrow(from, Opposite(key), position)
  PROVE  Nexts(key) = {from}
<1>1. CASE AlongRow(from, Opposite(key), position)
  <2>1. /\ position \in Grid /\ from \in Grid
        /\ key = Right => position % Columns # Columns - 1 /\ from = position + 1
        /\ key = Left => position % Columns # 0 /\ from = position - 1
    BY <1>1, Counted DEF AlongRow, Opposite, Left, Right
  <2>2. Turns(key) = "nothing"
    BY <2>1, Counted DEF Turns, LinkTurns, MatrixTurns, ArrowTurns, Left, Right, CursorTypeOK
  <2>3. ~Extended \/ ~\E x : <<position, key, x>> \in Beside
    BY <2>1, Counted DEF Beside, Extended, Left, Right
  <2>4. Real(key) = {from}
    BY <2>1 DEF Real, Left, Right, Up, Down
  <2> QED BY <2>2, <2>3, <2>4 DEF Nexts
<1>2. CASE OntoArrow(from, Opposite(key), position)
  <2>1. Extended /\ <<from, Opposite(key), position>> \in Beside
    BY <1>2 DEF OntoArrow
  <2>2. Arrows \cup Grid = 0..11 \cup 16..19
    BY <2>1 DEF Extended, Arrows, Grid, Columns
  <2>3. Turns(key) = "nothing"
    BY <2>1 DEF Turns, ArrowTurns, Extended, Beside, Opposite, Left, Right
  <2>4. {x \in Arrows \cup Grid : <<position, key, x>> \in Beside} = {from}
    BY <2>1, <2>2 DEF Beside, Opposite, Left, Right
  <2> QED BY <2>1, <2>3, <2>4 DEF Nexts
<1> QED BY <1>1, <1>2

\* Only on an arrow does a key turn anything.
LEMMA TurnedOnArrow ==
  ASSUME CursorTypeOK, NEW key \in Directions, Turns(key) # "nothing"
  PROVE  position \in Arrows /\ Nexts(key) = {Stays}
<1>1. Nexts(key) = {Stays}
  BY DEF Nexts
<1>2. position \in Arrows
  BY DEF Turns, LinkTurns, MatrixTurns, ArrowTurns, Extended, Arrows, CursorTypeOK
<1> QED BY <1>1, <1>2

\* A key keeps what is said of the last one.
LEMMA PressStep ==
  ASSUME CursorInv, NEW key \in Directions, PressKey(key) PROVE CursorInv'
<1>1. PICK to \in Nexts(key) : position' = IF to = Stays THEN position ELSE to
  BY DEF PressKey
<1>2. /\ last' = IF position' = position THEN last ELSE [from |-> position, key |-> key]
      /\ turned' = Turns(key) /\ pageID' = pageID /\ online' = online
  BY DEF PressKey
<1>3. Columns' = Columns /\ Grid' = Grid /\ Arrows' = Arrows /\ (Extended' <=> Extended)
  BY <1>2 DEF Columns, Grid, Arrows, Extended
<1>4. position' \in Grid \cup Arrows
  <2>1. Nexts(key) \subseteq Grid \cup Arrows \cup {Stays}
    <3>1. Real(key) \subseteq Grid \cup {Stays}
      BY Counted DEF Real, Directions, CursorInv
    <3> QED BY <3>1 DEF Nexts
  <2> QED BY <1>1, <2>1 DEF CursorInv, CursorTypeOK
<1>5. turned' \in {"nothing", "increment", "decrement", "swap"}
  BY <1>2 DEF Turns, LinkTurns, MatrixTurns, ArrowTurns
<1>6. CursorTypeOK'
  BY <1>2, <1>3, <1>4, <1>5 DEF CursorInv, CursorTypeOK
<1>7. LastMove'
  <2> SUFFICES ASSUME pageID = 63 => online, last'.key \in {Left, Right}
               PROVE  \/ AlongRow(last.from, last.key, position)'
                      \/ OntoArrow(last.from, last.key, position)'
    BY <1>2 DEF LastMove
  <2>1. CASE position' = position
    <3>1. AlongRow(last.from, last.key, position) \/ OntoArrow(last.from, last.key, position)
      BY <1>2, <2>1 DEF CursorInv, LastMove
    <3> QED BY <1>2, <1>3, <2>1, <3>1 DEF AlongRow, OntoArrow
  <2>2. CASE position' # position
    <3>1. last'.from = position /\ last'.key = key /\ key \in {Left, Right}
      BY <1>2, <2>2
    <3>2. to # Stays /\ position' = to /\ Turns(key) = "nothing"
      BY <1>1, <2>2, TurnedOnArrow DEF CursorInv
    <3>3. AlongRow(position, key, to) \/ OntoArrow(position, key, to)
      BY <3>1, <3>2, SidewaysMoves DEF CursorInv
    <3> QED BY <1>3, <3>1, <3>2, <3>3 DEF AlongRow, OntoArrow
  <2> QED BY <2>1, <2>2
<1> QED BY <1>6, <1>7 DEF CursorInv

\* So does another page, which forgets it.
LEMMA CursorInvAlways == CursorSpec => []CursorInv
<1>1. CursorInit => CursorInv
  <2> SUFFICES ASSUME CursorInit PROVE CursorInv
    OBVIOUS
  <2>1. Columns = 8 /\ Grid = 0..15
    BY DEF CursorInit, Columns, Grid
  <2>2. last.from = 1 /\ last.key = Up /\ Up \in Directions /\ Up \notin {Left, Right}
    BY DEF CursorInit, Directions, Up, Left, Right
  <2>3. position \in Grid /\ last.from \in Grid
    BY <2>1, <2>2 DEF CursorInit
  <2>4. CursorTypeOK
    BY <2>2, <2>3 DEF CursorInit, CursorTypeOK
  <2> QED BY <2>2, <2>4 DEF CursorInv, LastMove
<1>2. ASSUME CursorInv, [CursorNext]_cursorVars PROVE CursorInv'
  <2>1. CASE UNCHANGED cursorVars
    BY <1>2, <2>1 DEF CursorInv, cursorVars, CursorTypeOK, LastMove, AlongRow, OntoArrow,
                      Columns, Grid, Arrows, Extended
  <2>2. ASSUME NEW id \in {43, 44, 45, 63}, NEW toggled \in BOOLEAN, OpenPage(id, toggled)
        PROVE CursorInv'
    BY <2>2 DEF OpenPage, CursorInv, CursorTypeOK, LastMove, Grid, Columns, Directions,
                Up, Down, Left, Right
  <2> QED BY <1>2, <2>1, <2>2, PressStep DEF CursorNext
<1> QED BY <1>1, <1>2, PTL DEF CursorSpec

\* The cursor stays on the buttons and arrows of its page (course.cpp:163-437).
THEOREM CursorTyped == CursorSpec => []CursorTypeOK
BY CursorInvAlways, PTL DEF CursorInv

\* On every page and from wherever the game's own up and down led: left and right undo
\* each other, onto the arrows and back, and only an arrow turns anything
\* (course.cpp:163-183, :233-256, :391-437).
THEOREM KeysUndoEachOther == CursorSpec => KeysUndo
<1>1. ASSUME CursorInv, NEW key \in {Left, Right}, PressKey(key), pageID = 63 => online
      PROVE  /\ last.key = Opposite(key) => position' = last.from
             /\ turned' # "nothing" => position \in Arrows /\ position' = position
  <2>1. PICK to \in Nexts(key) : position' = IF to = Stays THEN position ELSE to
    BY <1>1 DEF PressKey
  <2>2. turned' = Turns(key) /\ key \in Directions
    BY <1>1 DEF PressKey, Directions
  <2>3. ASSUME last.key = Opposite(key) PROVE position' = last.from
    <3>1. Opposite(key) \in {Left, Right}
      BY DEF Opposite
    <3>2. \/ AlongRow(last.from, Opposite(key), position)
          \/ OntoArrow(last.from, Opposite(key), position)
      BY <1>1, <2>3, <3>1 DEF CursorInv, LastMove
    <3>3. Nexts(key) = {last.from}
      BY <1>1, <3>2, BackAgain DEF CursorInv
    <3>4. last.from # Stays
      BY <1>1 DEF CursorInv, CursorTypeOK, Stays, Grid, Columns, Arrows
    <3> QED BY <2>1, <3>3, <3>4
  <2>4. ASSUME Turns(key) # "nothing" PROVE position \in Arrows /\ position' = position
    BY <1>1, <2>1, <2>2, <2>4, TurnedOnArrow DEF CursorInv
  <2> QED BY <2>2, <2>3, <2>4
<1>2. CursorInv =>
        [\A key \in {Left, Right} :
           PressKey(key) /\ (pageID = 63 => online) =>
             /\ last.key = Opposite(key) => position' = last.from
             /\ turned' # "nothing" => position \in Arrows /\ position' = position]_cursorVars
  BY <1>1
<1> QED BY <1>2, CursorInvAlways, PTL DEF KeysUndo

-----------------------------------------------------------------------------
(* The pictures on the cups. *)

\* An icon's entry has an address it had in some menu, in this one if it was fetched.
Addresses ==
  /\ \A j \in Icons : cupIconsBflimData[j] \in {0} \cup {b + j : b \in Bases}
  /\ \A j \in fetched : base # 0 /\ cupIconsBflimData[j] = base + j

\* The texture of a cup is kept in its own place, with its picture.
OwnPlaces ==
  /\ \A j \in Paged : cupBflimFile[j] \in {j, Foreign}
  /\ \A j \in Made \cap Paged : cupBflimFile[j] = j /\ (j # 0 => cupBflimFileSave[j] = j)

\* The first picture is lost only to an icon without room, which is made after it.
FirstKept ==
  0 \in Made =>
    \/ cupBflimFileSave[0] = 0
    \/ FirstSpoilt
    \/ \E j \in Icons \ Paged : j \notin Made

\* Nothing changes what an icon without room shows, which was saved behind the CUP0.
OthersShow == \A j \in Made \ Paged : shows[j] = j /\ j \in behind

IconPlaces == OwnPlaces /\ FirstKept /\ OthersShow

\* The places are kept until an icon is taken for another one.
IconInv ==
  /\ IconTypeOK /\ textures \in Seq(Icons)
  /\ Addresses
  /\ mistaken \/ IconPlaces

\* The sets of icons.
LEMMA IconSets ==
  /\ Icons = 0..(IconCount - 1) /\ Paged = 0..(Room - 1) /\ Paged \subseteq Icons /\ 0 \in Paged
  /\ Foreign \notin Icons /\ PagePicture \notin Icons /\ PagePicture # Foreign
  /\ Icons \in SUBSET Nat
BY IconsAssumption DEF Icons, Paged, Foreign, PagePicture

\* Every set of icons has a first one.
LEMMA FirstOf ==
  ASSUME NEW S \in SUBSET Nat, S # {}
  PROVE  /\ (CHOOSE k \in S : \A n \in S : k <= n) \in S
         /\ \A m \in S : (CHOOSE k \in S : \A n \in S : k <= n) <= m
<1> DEFINE below == {ss \in Nat \X Nat : ss[1] < ss[2]}
<1>1. IsWellFoundedOn(below, Nat)
  BY NatLessThanWellFounded DEF OpToRel
<1>2. PICK x \in S : \A y \in S : ~(<<y, x>> \in below)
  <2> HIDE DEF below
  <2> QED BY <1>1, WFMin
<1>3. ASSUME NEW y \in S PROVE x <= y
  <2>1. y \in Nat /\ x \in Nat /\ (y < x => <<y, x>> \in below)
    OBVIOUS
  <2> HIDE DEF below
  <2> QED BY <2>1, <1>2
<1> QED BY <1>3

\* So has every set of icons with room a last one.
LEMMA LastOf ==
  ASSUME NEW S \in SUBSET Paged, S # {}
  PROVE  (CHOOSE k \in S : \A n \in S : n <= k) \in S
<1> DEFINE T == {Room - k : k \in S}
           first == CHOOSE k \in T : \A n \in T : k <= n
<1>1. Room \in Nat /\ S \subseteq 0..(Room - 1)
  BY IconsAssumption DEF Paged
<1>2. \A k \in S : k \in Nat /\ Room - k \in Nat
  BY <1>1
<1>3. T \in SUBSET Nat /\ T # {}
  BY <1>2
<1>4. first \in T /\ \A m \in T : first <= m
  BY <1>3, FirstOf
<1>5. PICK highest \in S : first = Room - highest
  BY <1>4
<1>6. ASSUME NEW n \in S PROVE n <= highest
  <2>1. Room - highest <= Room - n
    BY <1>4, <1>5
  <2>2. n \in Nat /\ highest \in Nat /\ Room \in Nat
    BY <1>1, <1>2
  <2> QED BY ONLY <2>1, <2>2
<1> QED BY <1>5, <1>6

\* Keep goes by the first icon that is remembered at the address.
LEMMA KeepsOne ==
  ASSUME IconTypeOK, NEW address, NEW texture, NEW picture, Keep(address, texture, picture)
  PROVE  \/ Remembered(address) = {} /\ UNCHANGED savedVars
         \/ \E j \in Remembered(address) \cap Paged :
              /\ \A n \in Remembered(address) : j <= n
              /\ cupBflimFile' = [cupBflimFile EXCEPT ![j] = texture]
              /\ cupBflimFileSave' = [cupBflimFileSave EXCEPT ![j] = picture]
              /\ behind' = behind
         \/ \E j \in Remembered(address) \ Paged :
              /\ \A n \in Remembered(address) : j <= n
              /\ cupBflimFile' = cupBflimFile
              /\ \/ cupBflimFileSave' = [cupBflimFileSave EXCEPT ![0] = Foreign]
                 \/ UNCHANGED cupBflimFileSave
              /\ behind' = behind \cup {j}
<1> DEFINE known == Remembered(address)
           j == CHOOSE k \in known : \A n \in known : k <= n
<1>1. CASE known = {}
  BY <1>1 DEF Keep
<1>2. CASE known # {}
  <2>1. known \in SUBSET Nat /\ known \subseteq Icons
    BY IconSets DEF Remembered
  <2>2. j \in known /\ \A n \in known : j <= n
    BY <1>2, <2>1, FirstOf
  <2>3. /\ j \in Paged => /\ cupBflimFile' = [cupBflimFile EXCEPT ![j] = texture]
                          /\ cupBflimFileSave' = [cupBflimFileSave EXCEPT ![j] = picture]
                          /\ behind' = behind
        /\ j \notin Paged => /\ cupBflimFile' = cupBflimFile
                             /\ \/ cupBflimFileSave' = [cupBflimFileSave EXCEPT ![0] = Foreign]
                                \/ UNCHANGED cupBflimFileSave
                             /\ behind' = behind \cup {j}
    BY <1>2 DEF Keep
  <2> HIDE DEF j
  <2> QED BY <2>1, <2>2, <2>3
<1> QED BY <1>1, <1>2

\* An icon that is not taken for another one is the first that is remembered at its
\* address: those that were fetched in this menu are elsewhere.
LEMMA FirstAddress ==
  ASSUME IconInv, NEW icon \in fetched, ~TakenForAnother(icon)
  PROVE  /\ icon \in Remembered(MadeOf(icon))
         /\ \A j \in Remembered(MadeOf(icon)) : icon <= j
<1>1. /\ base \in Nat /\ icon \in Icons /\ icon \in Nat /\ Icons \in SUBSET Nat
      /\ cupIconsBflimData[icon] = base + icon
  BY IconSets, IconsAssumption DEF IconInv, Addresses, IconTypeOK
<1>2. ASSUME NEW j \in Icons, cupIconsBflimData[j] = base + icon PROVE icon <= j
  <2>1. CASE j \in fetched
    <3>1. cupIconsBflimData[j] = base + j
      BY <2>1 DEF IconInv, Addresses
    <3> QED BY <1>1, <1>2, <3>1
  <2>2. CASE j \notin fetched
    <3>1. ~(j < icon)
      BY <1>2, <2>2 DEF TakenForAnother, MadeOf
    <3> QED BY <1>1, <3>1
  <2> QED BY <2>1, <2>2
<1> QED BY <1>1, <1>2 DEF Remembered, MadeOf

\* Where no two menus overlap in part no icon is taken for another one.
LEMMA NoneTaken ==
  ASSUME IconInv, NEW icon \in fetched,
         \A b, c \in Bases : b < c => b + IconCount <= c
  PROVE  ~TakenForAnother(icon)
<1>1. /\ base \in Bases /\ base \in Nat /\ base # 0 /\ icon \in Icons /\ icon \in Nat
      /\ Bases \subseteq Nat
  BY IconSets, IconsAssumption DEF IconInv, Addresses, IconTypeOK
<1>2. ASSUME NEW j \in Icons, cupIconsBflimData[j] = base + icon PROVE j = icon
  <2>1. PICK b \in Bases : cupIconsBflimData[j] = b + j
    <3>1. cupIconsBflimData[j] \in {0} \cup {b + j : b \in Bases}
      BY DEF IconInv, Addresses
    <3>2. cupIconsBflimData[j] # 0
      BY <1>1, <1>2
    <3> QED BY <3>1, <3>2
  <2>2. b \in Nat /\ j \in 0..(IconCount - 1) /\ icon \in 0..(IconCount - 1) /\ IconCount \in Nat
    BY <1>1, IconSets, IconsAssumption
  <2>3. (b < base => b + IconCount <= base) /\ (base < b => base + IconCount <= b)
    BY <1>1
  <2> QED BY ONLY <1>1, <1>2, <2>1, <2>2, <2>3
<1> QED BY <1>1, <1>2 DEF TakenForAnother, MadeOf

\* An address out of the menu is remembered of none of the menu's icons.
LEMMA OtherAddress ==
  ASSUME IconInv, NEW address, base # 0 => address \notin {MadeOf(icon) : icon \in Icons}
  PROVE  Remembered(address) \cap fetched = {}
BY DEF IconInv, Addresses, Remembered, MadeOf, IconTypeOK

\* What Keep stores is of the type of the places.
LEMMA KeepTyped ==
  ASSUME IconTypeOK, NEW S, Made \subseteq S, NEW address,
         NEW texture \in S \cup {Foreign}, NEW picture \in Icons \cup {Foreign},
         Keep(address, texture, picture)
  PROVE  /\ cupBflimFile' \in [Paged -> S \cup {Foreign}]
         /\ cupBflimFileSave' \in [Paged -> Icons \cup {Foreign}]
         /\ behind' \subseteq Icons \ Paged
<1>1. /\ cupBflimFile \in [Paged -> S \cup {Foreign}]
      /\ cupBflimFileSave \in [Paged -> Icons \cup {Foreign}]
      /\ behind \subseteq Icons \ Paged
      /\ Remembered(address) \subseteq Icons
  BY DEF IconTypeOK, Remembered
<1>2. \/ UNCHANGED savedVars
      \/ \E j \in Paged : /\ cupBflimFile' = [cupBflimFile EXCEPT ![j] = texture]
                          /\ cupBflimFileSave' = [cupBflimFileSave EXCEPT ![j] = picture]
                          /\ behind' = behind
      \/ \E j \in Icons \ Paged :
           /\ cupBflimFile' = cupBflimFile
           /\ \/ cupBflimFileSave' = [cupBflimFileSave EXCEPT ![0] = Foreign]
              \/ UNCHANGED cupBflimFileSave
           /\ behind' = behind \cup {j}
  BY <1>1, KeepsOne
<1> QED BY ONLY <1>1, <1>2 DEF savedVars

\* The texture of an icon lands in its own place, or over the first one.
LEMMA MakeStep ==
  ASSUME IconInv, NEW icon \in Icons, LoadIcon(icon) PROVE IconInv'
<1>1. /\ icon \in fetched /\ icon \notin Made /\ textures \in Seq(Icons)
      /\ textures' = Append(textures, icon)
      /\ shows' = [shows EXCEPT ![icon] = icon]
      /\ UNCHANGED <<base, fetched, cupIconsBflimData>>
      /\ Keep(MadeOf(icon), icon, icon)
      /\ mistaken' = (mistaken \/ TakenForAnother(icon))
  BY DEF LoadIcon, IconInv
<1>2. /\ textures' \in Seq(Icons) /\ Len(textures) \in Nat
      /\ DOMAIN textures = 1..Len(textures) /\ DOMAIN textures' = 1..(Len(textures) + 1)
      /\ \A k \in DOMAIN textures : textures'[k] = textures[k]
      /\ textures'[Len(textures) + 1] = icon
  BY <1>1
<1>3. Made' = Made \cup {icon}
  BY <1>2 DEF Made
<1>4. ~mistaken' =>
        \/ /\ icon \in Paged
           /\ cupBflimFile' = [cupBflimFile EXCEPT ![icon] = icon]
           /\ cupBflimFileSave' = [cupBflimFileSave EXCEPT ![icon] = icon]
           /\ behind' = behind
        \/ /\ icon \notin Paged /\ cupBflimFile' = cupBflimFile
           /\ \/ cupBflimFileSave' = [cupBflimFileSave EXCEPT ![0] = Foreign]
              \/ UNCHANGED cupBflimFileSave
           /\ behind' = behind \cup {icon}
  <2> SUFFICES ASSUME ~mistaken' PROVE <1>4!2
    OBVIOUS
  <2>1. /\ icon \in Remembered(MadeOf(icon))
        /\ \A j \in Remembered(MadeOf(icon)) : icon <= j
    BY <1>1, FirstAddress
  <2>2. Remembered(MadeOf(icon)) \subseteq Nat /\ icon \in Nat
    BY IconSets DEF Remembered
  <2>3. \A j \in Remembered(MadeOf(icon)) :
          (\A n \in Remembered(MadeOf(icon)) : j <= n) => j = icon
    BY <2>1, <2>2
  <2> QED BY <1>1, <2>1, <2>3, KeepsOne DEF IconInv, savedVars
<1>5. FirstSpoilt => FirstSpoilt'
  BY <1>2 DEF FirstSpoilt
<1>6. 0 \in Made /\ icon \notin Paged => FirstSpoilt'
  <2> SUFFICES ASSUME 0 \in Made, icon \notin Paged PROVE FirstSpoilt'
    OBVIOUS
  <2>1. PICK k \in DOMAIN textures : textures[k] = 0
    BY DEF Made
  <2> QED BY <1>2, <2>1 DEF FirstSpoilt
<1>7. IconTypeOK'
  <2>1. IconTypeOK
    BY DEF IconInv
  <2>2. /\ cupBflimFile' \in [Paged -> Made' \cup {Foreign}]
        /\ cupBflimFileSave' \in [Paged -> Icons \cup {Foreign}]
        /\ behind' \subseteq Icons \ Paged
    <3>1. /\ Made \subseteq Made' /\ icon \in Made' \cup {Foreign}
          /\ icon \in Icons \cup {Foreign}
      BY <1>3
    <3> HIDE DEF Made, Icons
    <3> QED BY <1>1, <2>1, <3>1, KeepTyped
  <2>3. shows' \in [Icons -> Icons \cup {Foreign, PagePicture}]
    BY <1>1, <2>1 DEF IconTypeOK
  <2>4. mistaken' \in BOOLEAN
    BY <1>1, <2>1 DEF IconTypeOK, TakenForAnother
  <2> QED BY <1>1, <1>3, <2>1, <2>2, <2>3, <2>4 DEF IconTypeOK
<1>8. Addresses'
  BY <1>1 DEF IconInv, Addresses
<1>9. ASSUME ~mistaken' PROVE IconPlaces'
  <2>1. OwnPlaces /\ FirstKept /\ OthersShow
    BY <1>1, <1>9 DEF IconInv, IconPlaces
  <2>2. \/ /\ icon \in Paged
           /\ cupBflimFile' = [cupBflimFile EXCEPT ![icon] = icon]
           /\ cupBflimFileSave' = [cupBflimFileSave EXCEPT ![icon] = icon]
           /\ behind' = behind
        \/ /\ icon \notin Paged /\ cupBflimFile' = cupBflimFile
           /\ \/ cupBflimFileSave' = [cupBflimFileSave EXCEPT ![0] = Foreign]
              \/ UNCHANGED cupBflimFileSave
           /\ behind' = behind \cup {icon}
    BY <1>4, <1>9
  <2>3. /\ icon \in Paged => /\ cupBflimFile'[icon] = icon /\ cupBflimFileSave'[icon] = icon
        /\ \A j \in Paged \ {icon} : /\ cupBflimFile'[j] = cupBflimFile[j]
                                     /\ j # 0 => cupBflimFileSave'[j] = cupBflimFileSave[j]
        /\ icon \in Paged \ {0} => cupBflimFileSave'[0] = cupBflimFileSave[0]
    <3>1. /\ cupBflimFile \in [Paged -> Made \cup {Foreign}]
          /\ cupBflimFileSave \in [Paged -> Icons \cup {Foreign}]
          /\ 0 \in Paged
      BY IconSets DEF IconInv, IconTypeOK
    <3> QED BY ONLY <2>2, <3>1
  <2>4. OwnPlaces'
    <3>1. /\ \A j \in Paged : cupBflimFile[j] \in {j, Foreign}
          /\ \A j \in Made \cap Paged : cupBflimFile[j] = j /\ (j # 0 => cupBflimFileSave[j] = j)
      BY <2>1 DEF OwnPlaces
    <3>2. \A j \in Paged : cupBflimFile'[j] \in {j, Foreign}
      BY <2>3, <3>1
    <3>3. ASSUME NEW j \in Made' \cap Paged
          PROVE  cupBflimFile'[j] = j /\ (j # 0 => cupBflimFileSave'[j] = j)
      <4>1. CASE j = icon
        BY <2>3, <4>1
      <4>2. CASE j # icon
        BY <1>3, <2>3, <3>1, <4>2
      <4> QED BY <4>1, <4>2
    <3> QED BY <3>2, <3>3 DEF OwnPlaces
  <2>5. FirstKept'
    <3> SUFFICES ASSUME 0 \in Made' PROVE \/ cupBflimFileSave'[0] = 0
                                          \/ FirstSpoilt'
                                          \/ \E j \in Icons \ Paged : j \notin Made'
      BY DEF FirstKept
    <3>1. CASE icon = 0
      BY <2>3, <3>1, IconSets
    <3>2. CASE icon # 0
      <4>1. 0 \in Made
        BY <1>3, <3>2
      <4>2. CASE icon \notin Paged
        BY <1>6, <4>1, <4>2
      <4>3. CASE icon \in Paged
        <5>1. \/ cupBflimFileSave[0] = 0
              \/ FirstSpoilt
              \/ \E j \in Icons \ Paged : j \notin Made
          BY <2>1, <4>1 DEF FirstKept
        <5>2. cupBflimFileSave'[0] = cupBflimFileSave[0]
          BY <2>3, <3>2, <4>3
        <5>3. \A j \in Icons \ Paged : j \notin Made => j \notin Made'
          BY <1>3, <4>3
        <5> QED BY <1>5, <5>1, <5>2, <5>3
      <4> QED BY <4>2, <4>3
    <3> QED BY <3>1, <3>2
  <2>6. OthersShow'
    <3>1. \A j \in Made \ Paged : shows[j] = j /\ j \in behind
      BY <2>1 DEF OthersShow
    <3>2. shows \in [Icons -> Icons \cup {Foreign, PagePicture}]
      BY DEF IconInv, IconTypeOK
    <3>3. \A j \in Made' \ Paged : shows'[j] = j /\ j \in behind'
      BY <1>1, <1>3, <2>2, <3>1, <3>2
    <3> QED BY <3>3 DEF OthersShow
  <2> QED BY <2>4, <2>5, <2>6 DEF IconPlaces
<1> QED BY <1>2, <1>7, <1>8, <1>9 DEF IconInv

\* A texture from elsewhere is kept, if at all, for an icon that is not made yet.
LEMMA OtherTextureStep ==
  ASSUME IconInv, NEW address, LoadOther(address) PROVE IconInv'
<1>1. /\ UNCHANGED <<base, fetched, textures, shows, cupIconsBflimData, mistaken>>
      /\ Keep(address, Foreign, Foreign)
      /\ Remembered(address) \cap fetched = {}
  BY OtherAddress DEF LoadOther
<1>2. Made' = Made /\ Made \subseteq fetched /\ (FirstSpoilt' <=> FirstSpoilt)
  BY <1>1 DEF Made, FirstSpoilt, IconInv, IconTypeOK
<1>3. \/ UNCHANGED <<cupBflimFile, cupBflimFileSave, behind>>
      \/ \E j \in Paged \ Made :
           /\ cupBflimFile' = [cupBflimFile EXCEPT ![j] = Foreign]
           /\ cupBflimFileSave' = [cupBflimFileSave EXCEPT ![j] = Foreign]
           /\ behind' = behind
      \/ /\ \E j \in Icons \ Paged : j \notin Made
         /\ cupBflimFile' = cupBflimFile
         /\ \/ cupBflimFileSave' = [cupBflimFileSave EXCEPT ![0] = Foreign]
            \/ UNCHANGED cupBflimFileSave
         /\ behind \subseteq behind'
  <2>1. IconTypeOK /\ Remembered(address) \subseteq Icons
    BY DEF IconInv, Remembered
  <2> QED BY <1>1, <1>2, <2>1, KeepsOne DEF savedVars
<1>4. IconTypeOK'
  <2>1. IconTypeOK
    BY DEF IconInv
  <2>2. /\ cupBflimFile' \in [Paged -> Made \cup {Foreign}]
        /\ cupBflimFileSave' \in [Paged -> Icons \cup {Foreign}]
        /\ behind' \subseteq Icons \ Paged
    BY <1>1, <2>1, KeepTyped
  <2> QED BY <1>1, <1>2, <2>1, <2>2 DEF IconTypeOK
<1>5. Addresses' /\ textures' \in Seq(Icons)
  BY <1>1 DEF IconInv, Addresses
<1>6. /\ \A j \in Paged : cupBflimFile'[j] \in {cupBflimFile[j], Foreign}
      /\ \A j \in Paged \cap Made : /\ cupBflimFile'[j] = cupBflimFile[j]
                                    /\ j # 0 => cupBflimFileSave'[j] = cupBflimFileSave[j]
      /\ 0 \in Made => \/ cupBflimFileSave'[0] = cupBflimFileSave[0]
                        \/ \E j \in Icons \ Paged : j \notin Made
      /\ behind \subseteq behind'
  <2>1. /\ cupBflimFile \in [Paged -> Made \cup {Foreign}]
        /\ cupBflimFileSave \in [Paged -> Icons \cup {Foreign}]
        /\ 0 \in Paged
    BY IconSets DEF IconInv, IconTypeOK
  <2> QED BY ONLY <1>3, <2>1
<1>7. ASSUME ~mistaken' PROVE IconPlaces'
  <2>1. OwnPlaces /\ FirstKept /\ OthersShow
    BY <1>1, <1>7 DEF IconInv, IconPlaces
  <2>2. OwnPlaces'
    <3>1. /\ \A j \in Paged : cupBflimFile[j] \in {j, Foreign}
          /\ \A j \in Made \cap Paged : cupBflimFile[j] = j /\ (j # 0 => cupBflimFileSave[j] = j)
      BY <2>1 DEF OwnPlaces
    <3>2. \A j \in Paged : cupBflimFile'[j] \in {j, Foreign}
      BY <1>6, <3>1
    <3>3. \A j \in Made \cap Paged : cupBflimFile'[j] = j /\ (j # 0 => cupBflimFileSave'[j] = j)
      BY <1>6, <3>1
    <3> QED BY <1>2, <3>2, <3>3 DEF OwnPlaces
  <2>3. FirstKept'
    BY <1>2, <1>6, <2>1 DEF FirstKept
  <2>4. OthersShow'
    BY <1>1, <1>2, <1>6, <2>1 DEF OthersShow
  <2> QED BY <2>2, <2>3, <2>4 DEF IconPlaces
<1> QED BY <1>4, <1>5, <1>7 DEF IconInv

\* What loadPage does to the picture of each icon.
LEMMA PagesShow ==
  ASSUME IconInv, ~mistaken, NEW page \in {0, 1}, LoadIcons(page), NEW icon \in Icons
  PROVE  shows'[icon] = IF icon \notin Paged \/ cupBflimFile[icon] # icon
                             \/ (page # 0 /\ icon \notin PageIcons) THEN shows[icon]
                        ELSE IF page # 0 THEN PagePicture
                        ELSE cupBflimFileSave[icon]
<1> DEFINE kept == {j \in Paged : cupBflimFile[j] = icon /\ (page # 0 => j \in PageIcons)}
<1>1. shows'[icon] = IF kept = {} THEN shows[icon]
                     ELSE IF page # 0 THEN PagePicture
                     ELSE cupBflimFileSave[CHOOSE j \in kept : \A n \in kept : n <= j]
  BY DEF LoadIcons
<1>2. kept = IF icon \notin Paged \/ cupBflimFile[icon] # icon
                  \/ (page # 0 /\ icon \notin PageIcons) THEN {} ELSE {icon}
  BY IconSets DEF IconInv, IconPlaces, OwnPlaces
<1>3. kept = {icon} => (CHOOSE j \in kept : \A n \in kept : n <= j) = icon
  <2>1. kept = {icon} => \A n \in kept : n <= icon
    BY IconSets
  <2> HIDE DEF kept
  <2> QED BY <2>1
<1> HIDE DEF kept
<1> QED BY <1>1, <1>2, <1>3

\* Whatever was taken for what, loadPage shows pictures.
LEMMA PicturesShown ==
  ASSUME IconInv, NEW page \in {0, 1}, LoadIcons(page)
  PROVE  shows' \in [Icons -> Icons \cup {Foreign, PagePicture}]
<1> DEFINE kept(icon) == {j \in Paged : cupBflimFile[j] = icon /\ (page # 0 => j \in PageIcons)}
           latest(icon) == CHOOSE j \in kept(icon) : \A n \in kept(icon) : n <= j
<1>1. shows' = [icon \in Icons |-> IF kept(icon) = {} THEN shows[icon]
                                   ELSE IF page # 0 THEN PagePicture
                                   ELSE cupBflimFileSave[latest(icon)]]
  BY DEF LoadIcons
<1>2. ASSUME NEW icon \in Icons, kept(icon) # {} PROVE latest(icon) \in Paged
  <2>1. kept(icon) \in SUBSET Paged
    OBVIOUS
  <2>2. latest(icon) \in kept(icon)
    BY <1>2, <2>1, LastOf
  <2> HIDE DEF latest
  <2> QED BY <2>1, <2>2
<1>3. /\ shows \in [Icons -> Icons \cup {Foreign, PagePicture}]
      /\ cupBflimFileSave \in [Paged -> Icons \cup {Foreign}]
  BY DEF IconInv, IconTypeOK
<1> HIDE DEF kept, latest
<1> QED BY ONLY <1>1, <1>2, <1>3

\* loadPage changes pictures alone.
LEMMA PageStep ==
  ASSUME IconInv, NEW page \in {0, 1}, LoadIcons(page) PROVE IconInv'
<1>1. UNCHANGED <<base, fetched, textures, cupIconsBflimData, savedVars, mistaken>>
  BY DEF LoadIcons
<1>2. Made' = Made /\ (FirstSpoilt' <=> FirstSpoilt)
  BY <1>1 DEF Made, FirstSpoilt
<1>3. IconTypeOK' /\ textures' \in Seq(Icons)
  <2>1. UNCHANGED <<cupBflimFile, cupBflimFileSave, behind>>
    BY <1>1 DEF savedVars
  <2> QED BY <1>1, <1>2, <2>1, PicturesShown DEF IconInv, IconTypeOK
<1>4. Addresses'
  BY <1>1 DEF IconInv, Addresses
<1>5. ASSUME ~mistaken' PROVE IconPlaces'
  <2>1. OwnPlaces /\ FirstKept /\ OthersShow /\ ~mistaken
    BY <1>1, <1>5 DEF IconInv, IconPlaces
  <2>2. OwnPlaces' /\ FirstKept'
    BY <1>1, <1>2, <2>1 DEF savedVars, OwnPlaces, FirstKept
  <2>3. \A icon \in Icons \ Paged : shows'[icon] = shows[icon]
    BY <2>1, PagesShow
  <2>4. Made \subseteq Icons
    BY DEF IconInv, IconTypeOK
  <2>5. OthersShow'
    BY <1>1, <1>2, <2>1, <2>3, <2>4 DEF savedVars, OthersShow
  <2> QED BY <2>2, <2>5 DEF IconPlaces
<1> QED BY <1>3, <1>4, <1>5 DEF IconInv

\* A menu that opens or closes has no texture.
LEMMA MenuStep ==
  ASSUME IconInv, (\E b \in Bases : OpenMenu(b)) \/ CloseMenu PROVE IconInv'
<1>1. ASSUME NEW b \in Bases, OpenMenu(b) PROVE IconInv'
  <2>1. /\ base = 0 /\ base' = b /\ Made' = Made /\ (FirstSpoilt' <=> FirstSpoilt)
        /\ UNCHANGED <<fetched, textures, shows, cupIconsBflimData, mistaken>>
        /\ UNCHANGED <<cupBflimFile, cupBflimFileSave, behind>>
    BY <1>1 DEF OpenMenu, Made, FirstSpoilt, savedVars
  <2>2. fetched = {}
    BY <2>1 DEF IconInv, Addresses
  <2>3. IconTypeOK' /\ Addresses' /\ textures' \in Seq(Icons)
    BY <2>1, <2>2 DEF IconInv, IconTypeOK, Addresses
  <2>4. IconPlaces => IconPlaces'
    BY <2>1 DEF IconPlaces, OwnPlaces, FirstKept, OthersShow
  <2> QED BY <2>1, <2>3, <2>4 DEF IconInv
<1>2. ASSUME CloseMenu PROVE IconInv'
  <2>1. /\ base' = 0 /\ fetched' = {} /\ textures' = <<>> /\ Made' = {}
        /\ shows' = [icon \in Icons |-> Foreign]
        /\ cupBflimFile' = [icon \in Paged |-> Foreign]
        /\ mistaken' = FALSE
        /\ UNCHANGED <<cupIconsBflimData, cupBflimFileSave, behind>>
    BY <1>2 DEF CloseMenu, Made
  <2>2. IconTypeOK' /\ textures' \in Seq(Icons)
    <3>1. textures' \in Seq(Icons)
      BY <2>1
    <3>2. IconTypeOK
      BY DEF IconInv
    <3>3. mistaken' \in BOOLEAN
      BY ONLY <2>1
    <3>4. /\ base' \in Bases \cup {0} /\ fetched' \subseteq Icons /\ Made' \subseteq fetched'
          /\ shows' \in [Icons -> Icons \cup {Foreign, PagePicture}]
          /\ cupBflimFile' \in [Paged -> Made' \cup {Foreign}]
      BY <2>1
    <3> QED BY <2>1, <3>1, <3>2, <3>3, <3>4 DEF IconTypeOK
  <2>3. IconPlaces'
    BY <2>1 DEF IconPlaces, OwnPlaces, FirstKept, OthersShow
  <2>4. Addresses'
    BY <2>1 DEF IconInv, Addresses
  <2> QED BY <2>2, <2>3, <2>4 DEF IconInv
<1> QED BY <1>1, <1>2

\* An icon that is fetched is remembered where it is in this menu.
LEMMA FetchStep ==
  ASSUME IconInv, NEW icon \in Icons, GetResource(icon) PROVE IconInv'
<1>1. /\ base # 0 /\ fetched' = fetched \cup {icon}
      /\ cupIconsBflimData' = [cupIconsBflimData EXCEPT ![icon] = base + icon]
      /\ UNCHANGED <<base, textures, shows, mistaken>>
      /\ UNCHANGED <<cupBflimFile, cupBflimFileSave, behind>>
      /\ Made' = Made /\ (FirstSpoilt' <=> FirstSpoilt)
  BY DEF GetResource, Remember, MadeOf, Made, FirstSpoilt, savedVars
<1>2. base \in Bases
  BY <1>1 DEF IconInv, IconTypeOK
<1>3. IconTypeOK' /\ textures' \in Seq(Icons)
  <2>1. cupIconsBflimData' \in [Icons -> {0} \cup {b + j : b \in Bases, j \in Icons}]
    BY <1>1, <1>2 DEF IconInv, IconTypeOK
  <2> QED BY <1>1, <2>1 DEF IconInv, IconTypeOK
<1>4. Addresses'
  BY <1>1, <1>2 DEF IconInv, IconTypeOK, Addresses
<1>5. IconPlaces => IconPlaces'
  BY <1>1 DEF IconPlaces, OwnPlaces, FirstKept, OthersShow
<1> QED BY <1>1, <1>3, <1>4, <1>5 DEF IconInv

\* The places are kept from the first menu on.
LEMMA IconInvStep == IconInv /\ [IconNext]_iconVars => IconInv'
<1> SUFFICES ASSUME IconInv, [IconNext]_iconVars PROVE IconInv'
  OBVIOUS
<1>1. CASE UNCHANGED iconVars
  <2>1. /\ Made' = Made /\ (FirstSpoilt' <=> FirstSpoilt)
        /\ UNCHANGED <<base, fetched, textures, shows, cupIconsBflimData, mistaken>>
        /\ UNCHANGED <<cupBflimFile, cupBflimFileSave, behind>>
    BY <1>1 DEF iconVars, savedVars, Made, FirstSpoilt
  <2>2. IconPlaces => IconPlaces'
    BY <2>1 DEF IconPlaces, OwnPlaces, FirstKept, OthersShow
  <2> QED BY <2>1, <2>2 DEF IconInv, IconTypeOK, Addresses
<1>2. CASE IconNext
  BY <1>2, MenuStep, FetchStep, MakeStep, OtherTextureStep, PageStep DEF IconNext
<1> QED BY <1>1, <1>2

LEMMA IconInvAlways == IconSpec => []IconInv
<1>1. IconInit => IconInv
  <2> SUFFICES ASSUME IconInit PROVE IconInv
    OBVIOUS
  <2>1. Made = {}
    BY DEF IconInit, Made
  <2>2. IconTypeOK /\ textures \in Seq(Icons)
    <3>1. textures \in Seq(Icons)
      BY DEF IconInit
    <3>2. mistaken \in BOOLEAN
      BY DEF IconInit
    <3>3. /\ base \in Bases \cup {0} /\ fetched \subseteq Icons /\ Made \subseteq fetched
          /\ shows \in [Icons -> Icons \cup {Foreign, PagePicture}]
          /\ cupIconsBflimData \in [Icons -> {0} \cup {b + j : b \in Bases, j \in Icons}]
          /\ cupBflimFile \in [Paged -> Made \cup {Foreign}]
          /\ cupBflimFileSave \in [Paged -> Icons \cup {Foreign}]
          /\ behind \subseteq Icons \ Paged
      BY <2>1 DEF IconInit
    <3> QED BY <3>1, <3>2, <3>3 DEF IconTypeOK
  <2>3. IconPlaces
    BY <2>1 DEF IconInit, IconPlaces, OwnPlaces, FirstKept, OthersShow
  <2> QED BY <2>2, <2>3 DEF IconInit, IconInv, Addresses
<1> QED BY <1>1, IconInvStep, PTL DEF IconSpec

\* Addresses, textures and pictures keep their types (course.cpp:327-362).
THEOREM IconsTyped == IconSpec => []IconTypeOK
<1>1. IconInv => IconTypeOK
  BY DEF IconInv
<1> QED BY <1>1, IconInvAlways, PTL

\* Where the files of two menus are at the same place or have no address in common, no
\* icon is taken for another one, in whatever order they are fetched and loaded: then
\* IconsComeBack speaks of every menu (course.cpp:327-362).
THEOREM NobodyIsMistaken ==
  ASSUME \A b, c \in Bases : b < c => b + IconCount <= c
  PROVE  IconSpec => []~mistaken
<1>1. IconInit => ~mistaken
  BY DEF IconInit
<1>2. IconInv /\ ~mistaken /\ [IconNext]_iconVars => ~mistaken'
  <2> SUFFICES ASSUME IconInv, ~mistaken, [IconNext]_iconVars PROVE ~mistaken'
    OBVIOUS
  <2>1. ASSUME NEW icon \in Icons, LoadIcon(icon) PROVE ~mistaken'
    <3>1. icon \in fetched /\ mistaken' = (mistaken \/ TakenForAnother(icon))
      BY <2>1 DEF LoadIcon
    <3> QED BY <3>1, NoneTaken
  <2>2. CASE UNCHANGED iconVars
    BY <2>2 DEF iconVars
  <2>3. CASE IconNext
    BY <2>1, <2>3 DEF IconNext, OpenMenu, CloseMenu, GetResource, LoadOther, LoadIcons
  <2> QED BY <2>2, <2>3
<1> QED BY <1>1, <1>2, IconInvAlways, PTL DEF IconSpec

\* For any number of icons and any places of the menus' files, those that overlap in part
\* among them, and in whatever order they are loaded: in a menu none of whose icons was
\* taken for another one, page 0 gives every cup its own picture back, but for the first
\* one, if an icon without room came after it (course.cpp:110-126, :327-362).
THEOREM PicturesComeBack == IconSpec => IconsComeBack
<1>1. ASSUME IconInv, NEW page \in {0, 1}, LoadIcons(page), Made = Icons, ~mistaken
      PROVE  behind = Icons \ Paged
  BY <1>1 DEF IconInv, IconTypeOK, IconPlaces, OthersShow
<1>2. ASSUME IconInv, NEW page \in {0, 1}, LoadIcons(page), Made = Icons, ~mistaken,
             NEW icon \in Icons
      PROVE  IF page # 0
             THEN shows'[icon] = IF icon \in PageIcons THEN PagePicture ELSE shows[icon]
             ELSE (icon = 0 /\ FirstSpoilt) \/ shows'[icon] = icon
  <2>1. shows'[icon] = IF icon \notin Paged \/ cupBflimFile[icon] # icon
                             \/ (page # 0 /\ icon \notin PageIcons) THEN shows[icon]
                       ELSE IF page # 0 THEN PagePicture
                       ELSE cupBflimFileSave[icon]
    BY <1>2, PagesShow
  <2>2. PageIcons \subseteq Paged
    BY IconsAssumption DEF Paged
  <2>3. /\ icon \in Paged => /\ cupBflimFile[icon] = icon
                             /\ icon # 0 => cupBflimFileSave[icon] = icon
        /\ icon \notin Paged => shows[icon] = icon
        /\ icon = 0 => cupBflimFileSave[0] = 0 \/ FirstSpoilt
    BY <1>2, IconSets DEF IconInv, IconPlaces, OwnPlaces, FirstKept, OthersShow
  <2> QED BY <1>2, <2>1, <2>2, <2>3
<1>3. IconInv =>
        [\A page \in {0, 1} : LoadIcons(page) /\ Made = Icons /\ ~mistaken =>
           /\ behind = Icons \ Paged
           /\ \A icon \in Icons :
                IF page # 0
                THEN shows'[icon] = IF icon \in PageIcons THEN PagePicture ELSE shows[icon]
                ELSE (icon = 0 /\ FirstSpoilt) \/ shows'[icon] = icon]_iconVars
  BY <1>1, <1>2
<1> QED BY <1>3, IconInvAlways, PTL DEF IconsComeBack

-----------------------------------------------------------------------------
(* The texts. *)

\* MainThread is in AddMessage.  An entry is whole when it has returned from there.
Adding == calls["main"].at \in {"id", "message", "alloc"}
Whole(k) == k < added \/ (k = added /\ ~Adding)

\* Entries fill up in order, each with the text it was added for; alloc tells whether its
\* message was allocated, but while the speedometer's is replaced.
EntryOk(k) ==
  /\ entries[k].active <=> k <= added
  /\ k > added => entries[k] = Unused
  /\ Whole(k) => /\ entries[k].id = Adds[k].id /\ entries[k].message # Null
                 /\ \/ entries[k].alloc <=> entries[k].message \in Texts
                    \/ k = 1 /\ At("main", "owner")
                 /\ k = 2 => entries[k].message = Literal

EntriesOk == \A k \in Slots : EntryOk(k)

\* MainThread in AddMessage, and replacing the speedometer's text.
AddingOk ==
  LET c == calls["main"]
      e == entries[added]
  IN /\ Adding => /\ added \in Slots /\ c.slot = added /\ c.id = Adds[added].id
                  /\ IF Adds[added].alloc THEN c.text \in Texts ELSE c.text = Literal
     /\ c.at = "id" => e.id = 0 /\ e.message = Null
     /\ c.at = "message" => e.id = c.id /\ e.message = Null
     /\ c.at = "alloc" => e.id = c.id /\ e.message = c.text

ReplacingOk ==
  LET c == calls["main"]
  IN /\ c.at \in {"search", "free", "put", "owner", "look", "return", "use"} =>
          added = Len(Adds) /\ c.id = Speedometer
     /\ c.at \in {"search", "free", "put", "owner"} => c.text \in Texts
     /\ c.at \in {"free", "put", "owner", "return", "use"} => c.slot = 1
     /\ c.at = "free" => entries[1].alloc
     /\ c.at \in {"owner", "use"} => c.text = entries[1].message

\* The game's thread comes to the toggle's text and the names, never to the speedometer's.
GameOk ==
  LET c == calls["game"]
  IN /\ c.at \in {"out", "search", "put", "owner", "look", "return", "use"}
     /\ c.at \in {"search", "put", "owner", "return", "use"} => Filled
     /\ c.at \in {"search", "put", "owner"} => c.id = Toggle /\ c.text = Literal
     /\ c.at \in {"put", "owner"} => c.slot = 2
     /\ c.at = "look" => c.id \in GameIds \/ (Filled /\ c.id \in OwnIds \ {Speedometer})
     /\ c.at \in {"return", "use"} => c.slot \in Slots \ {1} /\ c.id = Adds[c.slot].id
     /\ c.at = "use" => c.text = entries[c.slot].message

\* MainThread has a text that is in no entry yet.
Holding == calls["main"].at \in {"id", "message", "search", "free", "put"}

\* A text that is allocated and not freed is in MainThread's hand or in one entry.
TextAtHome(x) ==
  /\ freed[x] \in {0, 1}
  /\ x >= fresh => freed[x] = 0
  /\ x < fresh /\ freed[x] = 0 =>
       (Holding /\ calls["main"].text = x) \/ \E s \in Slots : entries[s].message = x

MessageOwned(s) ==
  entries[s].message \in Texts =>
    /\ entries[s].message < fresh
    /\ freed[entries[s].message] = 0 \/ (s = 1 /\ At("main", "put"))
    /\ \A u \in Slots : entries[u].message = entries[s].message => s = u

HandOwned ==
  Holding /\ calls["main"].text \in Texts =>
    /\ calls["main"].text < fresh /\ freed[calls["main"].text] = 0
    /\ \A s \in Slots : entries[s].message # calls["main"].text

PutFreed == At("main", "put") /\ entries[1].message \in Texts => freed[entries[1].message] = 1

HomesOk ==
  /\ \A x \in Texts : TextAtHome(x)
  /\ \A s \in Slots : MessageOwned(s)
  /\ HandOwned /\ PutFreed

TableInv == TableTypeOK /\ EntriesOk /\ AddingOk /\ ReplacingOk /\ GameOk /\ HomesOk

CallRecords == [id : Nat, slot : Slots \cup {0}, text : {Null, Literal} \cup Texts,
                at : {"out", "id", "message", "alloc", "search", "free", "put",
                      "owner", "look", "return", "use"}]
EntryRecords == [active : BOOLEAN, id : Nat, alloc : BOOLEAN,
                 message : {Null, Literal} \cup Texts]

LEMMA TableTypes ==
  TableTypeOK <=> /\ entries \in [Slots -> EntryRecords]
                  /\ calls \in [Users -> CallRecords]
                  /\ added \in 0..Len(Adds) /\ fresh \in 1..(MaxAllocs + 1)
                  /\ freed \in [Texts -> Nat]
BY DEF TableTypeOK, CallRecords, EntryRecords

\* What is known of the calls of the start-up.
LEMMA SlotsKnown ==
  /\ Len(Adds) \in Nat /\ Len(Adds) > 1 /\ Slots = 1..Len(Adds)
  /\ \A k \in Slots : Adds[k].id \in Nat /\ Adds[k].id # 0 /\ Adds[k].alloc \in BOOLEAN
  /\ \A j, k \in Slots : Adds[j].id = Adds[k].id => j = k
  /\ ~Adds[1].alloc /\ ~Adds[2].alloc
  /\ OwnIds = {Adds[k].id : k \in Slots}
  /\ \A g \in GameIds : g \in Nat /\ g # 0 /\ \A k \in Slots : g # Adds[k].id
<1>1. Adds \in Seq([id : Nat \ {0}, alloc : BOOLEAN]) /\ Len(Adds) > 1
  BY AddsAssumption
<1>2. Len(Adds) \in Nat /\ Slots = 1..Len(Adds)
  BY <1>1, LenProperties DEF Slots
<1>3. \A k \in Slots : Adds[k] \in [id : Nat \ {0}, alloc : BOOLEAN]
  BY <1>1, <1>2, ElementOfSeq
<1>4. \A k \in Slots : Adds[k].id \in Nat /\ Adds[k].id # 0 /\ Adds[k].alloc \in BOOLEAN
  BY <1>3
<1>5. \A g \in GameIds : g \in Nat /\ g # 0 /\ \A k \in Slots : g # Adds[k].id
  BY AddsAssumption DEF OwnIds, Slots
<1> QED
  BY <1>1, <1>2, <1>4, <1>5, AddsAssumption DEF Slots, OwnIds

LEMMA LeastOfOne == ASSUME NEW n \in Nat PROVE Least({n}) = n
BY DEF Least

\* The next AddMessage takes the entry behind those there are.
LEMMA NextIsFree ==
  ASSUME TableTypeOK, EntriesOk, added + 1 <= Len(Adds)
  PROVE  Least({j \in Slots : ~entries[j].active}) = added + 1
<1>1. added \in Nat /\ Slots = 1..Len(Adds) /\ Len(Adds) \in Nat
  BY SlotsKnown DEF TableTypeOK
<1> DEFINE S == {j \in Slots : ~entries[j].active}
<1>2. \A j : j \in S <=> j \in 1..Len(Adds) /\ j > added
  BY <1>1 DEF EntriesOk, EntryOk
<1> HIDE DEF S
<1>3. added + 1 \in S /\ \A j \in S : added + 1 <= j
  BY <1>1, <1>2
<1>4. \A n \in S : (\A j \in S : n <= j) => n = added + 1
  BY <1>1, <1>2, <1>3
<1>5. Least(S) = added + 1
  BY <1>3, <1>4 DEF Least
<1> QED
  BY <1>5 DEF S

\* An identifier is found in its own entry, once that is whole, and nowhere else.
LEMMA FoundWhole ==
  ASSUME TableTypeOK, EntriesOk, AddingOk, NEW k \in Slots, Whole(k)
  PROVE  Matching(Adds[k].id) = {k}
<1>1. entries[k].active /\ entries[k].id = Adds[k].id
  <2>1. k <= added
    BY SlotsKnown DEF Whole, TableTypeOK
  <2> QED
    BY <2>1 DEF EntriesOk, EntryOk
<1>2. ASSUME NEW j \in Slots, entries[j].active, entries[j].id = Adds[k].id
      PROVE  j = k
  <2>1. j <= added
    BY <1>2 DEF EntriesOk, EntryOk
  <2>2. CASE Whole(j)
    BY <1>2, <2>2, SlotsKnown DEF EntriesOk, EntryOk
  <2>3. CASE ~Whole(j)
    <3>1. j = added /\ Adding
      BY <2>1, <2>3, SlotsKnown DEF Whole, TableTypeOK
    <3>2. entries[j].id \in {0, Adds[j].id}
      BY <3>1 DEF AddingOk, Adding
    <3> QED
      BY <1>2, <3>2, SlotsKnown
  <2> QED
    BY <2>2, <2>3
<1> QED
  BY <1>1, <1>2 DEF Matching

LEMMA NotFound ==
  ASSUME TableTypeOK, EntriesOk, AddingOk, NEW g \in GameIds
  PROVE  Matching(g) = {}
<1>1. ASSUME NEW j \in Slots, entries[j].active
      PROVE  entries[j].id \in {0, Adds[j].id}
  <2>1. j <= added
    BY <1>1 DEF EntriesOk, EntryOk
  <2>2. CASE Whole(j)
    BY <2>2 DEF EntriesOk, EntryOk
  <2>3. CASE ~Whole(j)
    <3>1. j = added /\ Adding
      BY <2>1, <2>3, SlotsKnown DEF Whole, TableTypeOK
    <3> QED
      BY <3>1 DEF AddingOk, Adding
  <2> QED
    BY <2>2, <2>3
<1> QED
  BY <1>1, SlotsKnown DEF Matching

\* Once the start-up is through, all entries are whole.
LEMMA FilledWhole == ASSUME Filled PROVE \A k \in Slots : Whole(k)
BY SlotsKnown DEF Filled, Whole, Adding

LEMMA TableInitInv == TableInit => TableInv
<1> SUFFICES ASSUME TableInit PROVE TableInv
  OBVIOUS
<1>1. /\ entries = [s \in Slots |-> Unused] /\ calls = [t \in Users |-> NoCall]
      /\ added = 0 /\ fresh = 1 /\ freed = [x \in Texts |-> 0]
  BY DEF TableInit
<1>2. calls["main"].at = "out" /\ calls["game"].at = "out"
  BY <1>1 DEF Users, NoCall
<1>3. TableTypeOK
  <2>1. Unused \in EntryRecords
    BY DEF Unused, EntryRecords
  <2>2. NoCall \in CallRecords
    BY DEF NoCall, CallRecords
  <2>3. 0 \in 0..Len(Adds) /\ 1 \in 1..(MaxAllocs + 1)
    BY SlotsKnown, AddsAssumption
  <2> QED
    BY <1>1, <2>1, <2>2, <2>3, TableTypes
<1>4. \A k \in Slots : entries[k] = Unused /\ k > 0
  BY <1>1, SlotsKnown
<1>5. EntriesOk
  <2>1. \A k \in Slots : ~Whole(k)
    BY <1>1, SlotsKnown DEF Whole
  <2> QED
    BY <1>1, <1>4, <2>1, SlotsKnown DEF EntriesOk, EntryOk, Unused
<1>6. AddingOk /\ ReplacingOk /\ GameOk
  BY <1>2 DEF AddingOk, Adding, ReplacingOk, GameOk
<1>7. HomesOk
  <2>1. \A k \in Slots : entries[k].message \notin Texts
    BY <1>4, AddsAssumption DEF Unused, Null, Texts
  <2> QED
    BY <1>1, <1>2, <2>1
       DEF HomesOk, TextAtHome, MessageOwned, HandOwned, PutFreed, Holding, Texts, At
<1> QED
  BY <1>3, <1>5, <1>6, <1>7 DEF TableInv

LEMMA EntrySetTo ==
  ASSUME TableTypeOK, NEW s \in Slots, NEW e \in EntryRecords, entries' = [entries EXCEPT ![s] = e]
  PROVE  /\ entries' \in [Slots -> EntryRecords] /\ entries'[s] = e
         /\ \A k \in Slots : k # s => entries'[k] = entries[k]
<1>1. entries \in [Slots -> EntryRecords]
  BY TableTypes
<1> QED
  BY <1>1

LEMMA CallSetTo ==
  ASSUME TableTypeOK, NEW t \in Users, NEW c \in CallRecords, calls' = [calls EXCEPT ![t] = c]
  PROVE  /\ calls' \in [Users -> CallRecords] /\ calls'[t] = c
         /\ \A u \in Users : u # t => calls'[u] = calls[u]
<1>1. calls \in [Users -> CallRecords]
  BY TableTypes
<1> QED
  BY <1>1

\* Going on with a call changes nothing but where it is.
LEMMA Continues ==
  ASSUME TableTypeOK, NEW t \in Users,
         NEW at \in {"out", "id", "message", "alloc", "search", "free", "put",
                     "owner", "look", "return", "use"},
         Continue(t, at)
  PROVE  /\ calls' \in [Users -> CallRecords]
         /\ calls'[t].at = at /\ calls'[t].id = calls[t].id
         /\ calls'[t].slot = calls[t].slot /\ calls'[t].text = calls[t].text
         /\ \A u \in Users : u # t => calls'[u] = calls[u]
<1>1. calls \in [Users -> CallRecords]
  BY TableTypes
<1>2. calls[t] \in CallRecords
  BY <1>1
<1> DEFINE c == [calls[t] EXCEPT !.at = at]
<1>3. c \in CallRecords /\ c.at = at /\ c.id = calls[t].id
      /\ c.slot = calls[t].slot /\ c.text = calls[t].text
  BY <1>2 DEF CallRecords
<1>4. calls' = [calls EXCEPT ![t] = c]
  BY DEF Continue
<1> HIDE DEF c
<1> QED
  BY <1>3, <1>4, CallSetTo

\* What the game's thread does leaves all but its own call as it was.
LEMMA GameStep ==
  ASSUME TableInv, calls' \in [Users -> CallRecords], calls'["main"] = calls["main"],
         UNCHANGED <<entries, added, fresh, freed>>, GameOk'
  PROVE  TableInv'
<1>1. TableTypeOK'
  BY TableTypes DEF TableInv, TableTypeOK, CallRecords
<1>2. EntriesOk'
  BY DEF TableInv, EntriesOk, EntryOk, Whole, Adding, At
<1>3. AddingOk'
  BY DEF TableInv, AddingOk, Adding
<1>4. ReplacingOk'
  BY DEF TableInv, ReplacingOk
<1>5. HomesOk'
  BY DEF TableInv, HomesOk, TextAtHome, MessageOwned, HandOwned, PutFreed, Holding, At
<1> QED
  BY <1>1, <1>2, <1>3, <1>4, <1>5 DEF TableInv

\* What MainThread does is seen by the game only where the table has changed for it.
LEMMA GameUndisturbed ==
  ASSUME GameOk, calls'["game"] = calls["game"],
         Filled => Filled' /\ \A k \in Slots \ {1} : entries'[k].message = entries[k].message
  PROVE  GameOk'
BY DEF GameOk

\* MainThread takes a text in hand: one it has just allocated, or a literal.
LEMMA HomesTaken ==
  ASSUME TableTypeOK, HomesOk, NEW b \in BOOLEAN, fresh \in Texts, freed' = freed,
         \A s \in Slots : entries'[s].message = entries[s].message,
         fresh' = (IF b THEN fresh + 1 ELSE fresh), ~Holding, Holding',
         calls'["main"].text = (IF b THEN fresh ELSE Literal),
         ~At("main", "put"), ~At("main", "put")'
  PROVE  HomesOk'
<1>1. fresh \in Nat /\ (b => fresh' = fresh + 1) /\ (~b => fresh' = fresh) /\ fresh' \in Nat
  BY DEF Texts
<1>2. \A s \in Slots : entries[s].message \in Texts =>
        entries[s].message < fresh /\ freed[entries[s].message] = 0
  BY DEF HomesOk, MessageOwned
<1>3. ASSUME NEW x \in Texts PROVE TextAtHome(x)'
  <2>1. TextAtHome(x) /\ x \in Nat
    BY DEF HomesOk, Texts
  <2>2. CASE x < fresh
    BY <1>1, <2>1, <2>2 DEF TextAtHome
  <2>3. CASE x = fresh
    BY <1>1, <2>1, <2>3 DEF TextAtHome
  <2>4. CASE x > fresh
    BY <1>1, <2>1, <2>4 DEF TextAtHome
  <2> QED
    BY <1>1, <2>1, <2>2, <2>3, <2>4
<1>4. ASSUME NEW s \in Slots PROVE MessageOwned(s)'
  <2>1. MessageOwned(s)
    BY DEF HomesOk
  <2>2. entries'[s].message \in Texts => entries'[s].message < fresh'
    BY <1>1, <1>2 DEF Texts
  <2> QED
    BY <2>1, <2>2 DEF MessageOwned
<1>5. HandOwned'
  <2>1. CASE b
    <3>1. freed[fresh] = 0
      BY <1>1 DEF HomesOk, TextAtHome
    <3>2. \A s \in Slots : entries'[s].message # fresh
      BY <1>1, <1>2
    <3> QED
      BY <1>1, <2>1, <3>1, <3>2 DEF HandOwned
  <2>2. CASE ~b
    BY <2>2 DEF HandOwned, Literal, Texts
  <2> QED
    BY <2>1, <2>2
<1> QED
  BY <1>3, <1>4, <1>5 DEF HomesOk, PutFreed

\* Where no text moves, none loses its home.
LEMMA HomesStay ==
  ASSUME HomesOk, UNCHANGED <<fresh, freed>>,
         \A s \in Slots : entries'[s].message = entries[s].message,
         Holding' <=> Holding, Holding => calls'["main"].text = calls["main"].text,
         1 \in Slots, ~At("main", "put"), At("main", "put")' => entries[1].message \notin Texts
  PROVE  HomesOk'
<1>1. ASSUME NEW x \in Texts PROVE TextAtHome(x)'
  BY DEF HomesOk, TextAtHome
<1>2. ASSUME NEW s \in Slots PROVE MessageOwned(s)'
  BY DEF HomesOk, MessageOwned
<1>3. HandOwned'
  BY DEF HomesOk, HandOwned
<1>4. PutFreed'
  BY DEF PutFreed
<1> QED
  BY <1>1, <1>2, <1>3, <1>4 DEF HomesOk

\* MainThread stores the text it has in an entry; the one that was there has been freed.
LEMMA HomesStored ==
  ASSUME TableTypeOK, HomesOk, NEW e \in Slots, UNCHANGED <<fresh, freed>>,
         Holding, ~Holding', ~At("main", "put")', At("main", "put") => e = 1,
         entries'[e].message = calls["main"].text,
         \A s \in Slots : s # e => entries'[s].message = entries[s].message,
         entries[e].message \in Texts => freed[entries[e].message] = 1
  PROVE  HomesOk'
<1>1. ASSUME NEW x \in Texts PROVE TextAtHome(x)'
  <2>1. TextAtHome(x)
    BY DEF HomesOk
  <2>2. ASSUME NEW s \in Slots, entries[s].message = x, freed[x] = 0
        PROVE  entries'[s].message = x
    BY <2>2
  <2> QED
    BY <2>1, <2>2 DEF TextAtHome
<1>2. ASSUME NEW s \in Slots PROVE MessageOwned(s)'
  <2>1. MessageOwned(s) /\ HandOwned
    BY DEF HomesOk
  <2>2. CASE s = e
    BY <2>1, <2>2 DEF MessageOwned, HandOwned
  <2>3. CASE s # e
    BY <2>1, <2>3 DEF MessageOwned, HandOwned
  <2> QED
    BY <2>2, <2>3
<1> QED
  BY <1>1, <1>2 DEF HomesOk, HandOwned, PutFreed

LEMMA AddActiveStep == ASSUME TableInv, AddActive PROVE TableInv'
<1> DEFINE k == added + 1
           c == [at |-> "id", id |-> Adds[k].id, slot |-> k,
                 text |-> IF Adds[k].alloc THEN fresh ELSE Literal]
           e == [entries[k] EXCEPT !.active = TRUE]
<1>1. TableTypeOK /\ EntriesOk /\ AddingOk /\ ReplacingOk /\ GameOk /\ HomesOk
  BY DEF TableInv
<1>2. /\ calls["main"].at = "out" /\ k <= Len(Adds) /\ fresh <= MaxAllocs
      /\ added' = k /\ fresh' = (IF Adds[k].alloc THEN fresh + 1 ELSE fresh)
      /\ freed' = freed
  BY DEF AddActive, At
<1>3. Least({j \in Slots : ~entries[j].active}) = k
  BY <1>1, <1>2, NextIsFree
<1>4. entries' = [entries EXCEPT ![k] = e] /\ calls' = [calls EXCEPT !["main"] = c]
  BY <1>3 DEF AddActive
<1>5. /\ k \in Slots /\ k \in Nat /\ added \in Nat /\ fresh \in Nat /\ fresh > 0
      /\ fresh \in Texts /\ Len(Adds) \in Nat /\ MaxAllocs \in Nat
  <2>1. added \in Nat /\ fresh \in Nat /\ fresh > 0
    BY <1>1 DEF TableTypeOK
  <2>2. MaxAllocs \in Nat /\ Len(Adds) \in Nat
    BY AddsAssumption
  <2>3. k \in Slots /\ k \in Nat
    BY <1>2, <2>1, <2>2, SlotsKnown
  <2> QED
    BY <1>2, <2>1, <2>2, <2>3 DEF Texts
<1>6. entries[k] = Unused
  BY <1>1, <1>5 DEF EntriesOk, EntryOk
<1>7. /\ e \in EntryRecords
      /\ e.active = TRUE /\ e.id = 0 /\ e.message = Null /\ e.alloc = FALSE
  <2> DEFINE p == entries[k]
  <2>1. p \in EntryRecords /\ p.id = 0 /\ p.message = Null /\ p.alloc = FALSE
    BY <1>1, <1>5, <1>6, TableTypes DEF Unused
  <2> HIDE DEF p
  <2>2. [p EXCEPT !.active = TRUE] \in EntryRecords
        /\ [p EXCEPT !.active = TRUE].active = TRUE /\ [p EXCEPT !.active = TRUE].id = p.id
        /\ [p EXCEPT !.active = TRUE].message = p.message
        /\ [p EXCEPT !.active = TRUE].alloc = p.alloc
    BY <2>1 DEF EntryRecords
  <2> QED
    BY <2>1, <2>2 DEF p
<1>9. c \in CallRecords
  BY <1>5, SlotsKnown DEF CallRecords
<1>10. /\ entries' \in [Slots -> EntryRecords] /\ entries'[k] = e
       /\ \A s \in Slots : s # k => entries'[s] = entries[s]
  <2> HIDE DEF k, e
  <2> QED
    BY <1>1, <1>4, <1>5, <1>7, EntrySetTo
<1>11. /\ calls' \in [Users -> CallRecords] /\ calls'["main"] = c
       /\ calls'["game"] = calls["game"]
  <2> HIDE DEF c
  <2> QED
    BY <1>1, <1>4, <1>9, CallSetTo DEF Users
<1>13. c.at = "id" /\ c.id = Adds[k].id /\ c.slot = k
       /\ c.text = (IF Adds[k].alloc THEN fresh ELSE Literal)
  OBVIOUS
<1> HIDE DEF c, e
<1>14. TableTypeOK'
  BY <1>1, <1>2, <1>5, <1>10, <1>11, TableTypes DEF TableTypeOK, EntryRecords, CallRecords
<1>15. EntriesOk'
  <2>1. ASSUME NEW s \in Slots, s = k PROVE EntryOk(s)'
    <3>1. ~Whole(s)'
      BY <1>2, <1>5, <1>11, <1>13, <2>1 DEF Whole, Adding
    <3>2. entries'[s].active = TRUE /\ s <= added' /\ ~(s > added')
      BY <1>2, <1>5, <1>7, <1>10, <2>1
    <3> QED
      BY <3>1, <3>2 DEF EntryOk
  <2>2. ASSUME NEW s \in Slots, s # k PROVE EntryOk(s)'
    <3>1. entries'[s] = entries[s] /\ (s <= added' <=> s <= added) /\ (s > added' => s > added)
      BY <1>2, <1>5, <1>10, <2>2, SlotsKnown
    <3>2. Whole(s)' => Whole(s)
      BY <1>2, <1>5, <1>11, <1>13, <2>2, SlotsKnown DEF Whole, Adding
    <3>3. ~At("main", "owner")
      BY <1>2 DEF At
    <3> QED
      BY <1>1, <3>1, <3>2, <3>3 DEF EntriesOk, EntryOk
  <2> QED
    BY <2>1, <2>2 DEF EntriesOk
<1>16. AddingOk'
  <2>1. entries'[added'].id = 0 /\ entries'[added'].message = Null
    BY <1>2, <1>10, <1>7
  <2>2. IF Adds[k].alloc THEN c.text \in Texts ELSE c.text = Literal
    BY <1>5, <1>13
  <2> QED
    BY <1>2, <1>5, <1>11, <1>13, <2>1, <2>2 DEF AddingOk, Adding
<1>17. ReplacingOk'
  BY <1>11, <1>13 DEF ReplacingOk
<1>18. GameOk'
  <2>1. ~Filled
    BY <1>2, <1>5 DEF Filled
  <2> QED
    BY <1>1, <1>11, <2>1, GameUndisturbed
<1>19. HomesOk'
  <2>1. \A s \in Slots : entries'[s].message = entries[s].message
    BY <1>6, <1>10, <1>7 DEF Unused
  <2>2. ~Holding /\ Holding' /\ ~At("main", "put") /\ ~At("main", "put")'
    BY <1>2, <1>11, <1>13 DEF Holding, At
  <2>3. calls'["main"].text = (IF Adds[k].alloc THEN fresh ELSE Literal)
    BY <1>11, <1>13
  <2>4. Adds[k].alloc \in BOOLEAN
    BY <1>5, SlotsKnown
  <2> HIDE DEF k
  <2> QED
    BY <1>1, <1>2, <1>5, <2>1, <2>2, <2>3, <2>4, HomesTaken
<1> QED
  BY <1>14, <1>15, <1>16, <1>17, <1>18, <1>19 DEF TableInv

\* One field of an entry is stored at a time.
LEMMA EntryWithId ==
  ASSUME NEW p \in EntryRecords, NEW n \in Nat, NEW e, e = [p EXCEPT !.id = n]
  PROVE  e \in EntryRecords /\ e.active = p.active /\ e.id = n
         /\ e.message = p.message /\ e.alloc = p.alloc
BY DEF EntryRecords

LEMMA EntryWithMessage ==
  ASSUME NEW p \in EntryRecords, NEW m \in {Null, Literal} \cup Texts,
         NEW e, e = [p EXCEPT !.message = m]
  PROVE  e \in EntryRecords /\ e.active = p.active /\ e.id = p.id
         /\ e.message = m /\ e.alloc = p.alloc
BY DEF EntryRecords

LEMMA EntryWithAlloc ==
  ASSUME NEW p \in EntryRecords, NEW b \in BOOLEAN, NEW e, e = [p EXCEPT !.alloc = b]
  PROVE  e \in EntryRecords /\ e.active = p.active /\ e.id = p.id
         /\ e.message = p.message /\ e.alloc = b
BY DEF EntryRecords

\* A store of AddMessage other than the first, to an entry that is not whole yet.
LEMMA StoreInAdded ==
  ASSUME TableInv, NEW e \in EntryRecords, Adding, e.active = TRUE,
         entries' = [entries EXCEPT ![added] = e], UNCHANGED <<added, fresh, freed>>,
         calls' \in [Users -> CallRecords], calls'["game"] = calls["game"],
         calls'["main"].at \in {"message", "alloc", "out"},
         ~Adding' => /\ e.id = Adds[added].id
                     /\ e.message = IF Adds[added].alloc THEN calls["main"].text ELSE Literal
                     /\ e.alloc = Adds[added].alloc,
         AddingOk', HomesOk'
  PROVE  TableInv'
<1>1. TableTypeOK /\ EntriesOk /\ AddingOk /\ ReplacingOk /\ GameOk /\ HomesOk
  BY DEF TableInv
<1>2. added \in Slots /\ added \in Nat /\ ~Whole(added) /\ Len(Adds) \in Nat
      /\ (IF Adds[added].alloc THEN calls["main"].text \in Texts
          ELSE calls["main"].text = Literal)
  BY <1>1, SlotsKnown DEF AddingOk, Whole
<1>3. /\ entries' \in [Slots -> EntryRecords] /\ entries'[added] = e
      /\ \A s \in Slots : s # added => entries'[s] = entries[s]
  BY <1>1, <1>2, EntrySetTo
<1>4. TableTypeOK'
  BY <1>1, <1>3, TableTypes DEF TableTypeOK, EntryRecords, CallRecords
<1>5. ~At("main", "owner") /\ ~At("main", "owner")'
  BY DEF At, Adding
<1>6. EntriesOk'
  <2>1. ASSUME NEW s \in Slots, s # added PROVE EntryOk(s)'
    <3>1. entries'[s] = entries[s] /\ (Whole(s)' => Whole(s)) /\ EntryOk(s)
      BY <1>1, <1>3, <2>1 DEF Whole, EntriesOk
    <3> QED
      BY <1>5, <3>1 DEF EntryOk
  <2>2. ASSUME NEW s \in Slots, s = added PROVE EntryOk(s)'
    <3>1. entries'[s].active = TRUE /\ s <= added' /\ ~(s > added')
      BY <1>2, <1>3, <2>2
    <3>2. CASE Adding'
      <4>1. ~Whole(s)'
        BY <1>2, <2>2, <3>2 DEF Whole
      <4> QED
        BY <3>1, <4>1 DEF EntryOk
    <3>3. CASE ~Adding'
      <4>1. /\ entries'[s].id = Adds[s].id /\ entries'[s].alloc = Adds[s].alloc
            /\ IF Adds[s].alloc THEN entries'[s].message \in Texts
               ELSE entries'[s].message = Literal
        BY <1>2, <1>3, <2>2, <3>3
      <4>2. entries'[s].message # Null /\ (entries'[s].alloc <=> entries'[s].message \in Texts)
        BY <4>1, SlotsKnown, AddsAssumption DEF Null, Literal, Texts
      <4>3. s = 2 => entries'[s].message = Literal
        BY <4>1, SlotsKnown
      <4> QED
        BY <3>1, <4>1, <4>2, <4>3 DEF EntryOk
    <3> QED
      BY <3>2, <3>3
  <2> QED
    BY <2>1, <2>2 DEF EntriesOk
<1>7. ReplacingOk'
  BY DEF ReplacingOk
<1>8. GameOk'
  <2>1. ~Filled
    BY DEF Filled, Adding
  <2> QED
    BY <1>1, <2>1, GameUndisturbed
<1> QED
  BY <1>4, <1>6, <1>7, <1>8 DEF TableInv

LEMMA AddStoresStep == ASSUME TableInv, AddStores PROVE TableInv'
<1> DEFINE c == calls["main"]
           p == entries[added]
<1>1. TableTypeOK /\ EntriesOk /\ AddingOk /\ ReplacingOk /\ GameOk /\ HomesOk
  BY DEF TableInv
<1>2. UNCHANGED <<added, fresh, freed>> /\ Adding /\ Holding = (c.at # "alloc")
  BY DEF AddStores, Adding, At, Holding
<1>3. /\ added \in Slots /\ c.slot = added /\ c.id = Adds[added].id
      /\ IF Adds[added].alloc THEN c.text \in Texts ELSE c.text = Literal
  BY <1>1, <1>2 DEF AddingOk
<1>4. Mine("main") = p /\ p \in EntryRecords /\ p.active = TRUE
  BY <1>1, <1>3, SlotsKnown, TableTypes DEF Mine, EntriesOk, EntryOk, EntryRecords
<1>5. /\ c.id \in Nat /\ c.text \in {Null, Literal} \cup Texts /\ Adds[added].alloc \in BOOLEAN
  BY <1>3, SlotsKnown
<1>6. Users = {"main", "game"} /\ "main" \in Users /\ "game" \in Users /\ 1 \in Slots
  BY SlotsKnown DEF Users
<1> HIDE DEF p
<1>7. CASE At("main", "id") /\ Continue("main", "message")
           /\ Set("main", [Mine("main") EXCEPT !.id = c.id])
  <2> DEFINE e == [p EXCEPT !.id = c.id]
  <2>1. e \in EntryRecords /\ e.active = TRUE /\ e.id = c.id /\ e.message = p.message
    BY <1>4, <1>5, EntryWithId
  <2>2. entries' = [entries EXCEPT ![added] = e]
    BY <1>3, <1>4, <1>7 DEF Set
  <2> HIDE DEF e
  <2>3. /\ calls' \in [Users -> CallRecords] /\ calls'["game"] = calls["game"]
        /\ calls'["main"].at = "message" /\ calls'["main"].id = c.id
        /\ calls'["main"].slot = c.slot /\ calls'["main"].text = c.text
    BY <1>1, <1>6, <1>7, Continues
  <2>4. entries'[added] = e /\ \A s \in Slots : s # added => entries'[s] = entries[s]
    BY <1>1, <1>3, <2>1, <2>2, EntrySetTo
  <2>5. p.message = Null
    BY <1>1, <1>7 DEF AddingOk, At, p
  <2>6. AddingOk'
    BY <1>2, <1>3, <2>1, <2>3, <2>4, <2>5 DEF AddingOk, Adding
  <2>7. HomesOk'
    <3>1. \A s \in Slots : entries'[s].message = entries[s].message
      BY <2>1, <2>4 DEF p
    <3>2. Holding /\ Holding' /\ ~At("main", "put") /\ ~At("main", "put")'
      BY <1>7, <2>3 DEF Holding, At
    <3> QED
      BY <1>1, <1>2, <1>6, <2>3, <3>1, <3>2, HomesStay
  <2>8. Adding'
    BY <2>3 DEF Adding
  <2> QED
    BY <1>2, <2>1, <2>2, <2>3, <2>6, <2>7, <2>8, StoreInAdded
<1>8. CASE At("main", "message") /\ Continue("main", "alloc")
           /\ Set("main", [Mine("main") EXCEPT !.message = c.text])
  <2> DEFINE e == [p EXCEPT !.message = c.text]
  <2>1. e \in EntryRecords /\ e.active = TRUE /\ e.id = p.id /\ e.message = c.text
    BY <1>4, <1>5, EntryWithMessage
  <2>2. entries' = [entries EXCEPT ![added] = e]
    BY <1>3, <1>4, <1>8 DEF Set
  <2> HIDE DEF e
  <2>3. /\ calls' \in [Users -> CallRecords] /\ calls'["game"] = calls["game"]
        /\ calls'["main"].at = "alloc" /\ calls'["main"].id = c.id
        /\ calls'["main"].slot = c.slot /\ calls'["main"].text = c.text
    BY <1>1, <1>6, <1>8, Continues
  <2>4. entries'[added] = e /\ \A s \in Slots : s # added => entries'[s] = entries[s]
    BY <1>1, <1>3, <2>1, <2>2, EntrySetTo
  <2>5. p.id = c.id /\ p.message = Null
    BY <1>1, <1>8 DEF AddingOk, At, p
  <2>6. AddingOk'
    BY <1>2, <1>3, <2>1, <2>3, <2>4, <2>5 DEF AddingOk, Adding
  <2>7. HomesOk'
    <3>1. entries[added].message \notin Texts
      BY <2>5, AddsAssumption DEF p, Null, Texts
    <3>2. Holding /\ ~Holding' /\ ~At("main", "put") /\ ~At("main", "put")'
      BY <1>8, <2>3 DEF Holding, At
    <3>3. entries'[added].message = calls["main"].text
          /\ \A s \in Slots : s # added => entries'[s].message = entries[s].message
      BY <2>1, <2>4
    <3> QED
      BY <1>1, <1>2, <1>3, <3>1, <3>2, <3>3, HomesStored
  <2>8. Adding'
    BY <2>3 DEF Adding
  <2> QED
    BY <1>2, <2>1, <2>2, <2>3, <2>6, <2>7, <2>8, StoreInAdded
<1>9. CASE At("main", "alloc") /\ calls' = [calls EXCEPT !["main"] = NoCall]
           /\ Set("main", [Mine("main") EXCEPT !.alloc = Adds[added].alloc])
  <2> DEFINE e == [p EXCEPT !.alloc = Adds[added].alloc]
  <2>1. e \in EntryRecords /\ e.active = TRUE /\ e.id = p.id /\ e.message = p.message
        /\ e.alloc = Adds[added].alloc
    BY <1>4, <1>5, EntryWithAlloc
  <2>2. entries' = [entries EXCEPT ![added] = e]
    BY <1>3, <1>4, <1>9 DEF Set
  <2> HIDE DEF e
  <2>3. NoCall \in CallRecords /\ NoCall.at = "out"
    BY DEF NoCall, CallRecords
  <2>4. /\ calls' \in [Users -> CallRecords] /\ calls'["game"] = calls["game"]
        /\ calls'["main"].at = "out"
    BY <1>1, <1>6, <1>9, <2>3, CallSetTo
  <2>5. entries'[added] = e /\ \A s \in Slots : s # added => entries'[s] = entries[s]
    BY <1>1, <1>3, <2>1, <2>2, EntrySetTo
  <2>6. p.id = c.id /\ p.message = c.text
    BY <1>1, <1>9 DEF AddingOk, At, p
  <2>7. AddingOk'
    BY <2>4 DEF AddingOk, Adding
  <2>8. HomesOk'
    <3>1. \A s \in Slots : entries'[s].message = entries[s].message
      BY <2>1, <2>5 DEF p
    <3>2. ~Holding /\ ~Holding' /\ ~At("main", "put") /\ ~At("main", "put")'
      BY <1>9, <2>4 DEF Holding, At
    <3> QED
      BY <1>1, <1>2, <1>6, <3>1, <3>2, HomesStay
  <2>9. /\ e.id = Adds[added].id /\ e.alloc = Adds[added].alloc
        /\ e.message = IF Adds[added].alloc THEN c.text ELSE Literal
    BY <1>3, <2>1, <2>6
  <2> QED
    BY <1>2, <2>1, <2>2, <2>4, <2>7, <2>8, <2>9, StoreInAdded
<1> QED
  BY <1>7, <1>8, <1>9 DEF AddStores

\* MainThread has a new text for the speedometer.
LEMMA NextFrameStep == ASSUME TableInv, NextFrame PROVE TableInv'
<1> DEFINE c == [at |-> "search", id |-> Speedometer, slot |-> 0, text |-> fresh]
<1>1. TableTypeOK /\ EntriesOk /\ AddingOk /\ ReplacingOk /\ GameOk /\ HomesOk
  BY DEF TableInv
<1>2. /\ calls["main"].at = "out" /\ added = Len(Adds) /\ fresh <= MaxAllocs
      /\ UNCHANGED <<entries, added, freed>>
      /\ calls' = [calls EXCEPT !["main"] = c]
  BY DEF NextFrame, At
<1>3. fresh \in Texts /\ fresh \in Nat /\ MaxAllocs \in Nat
  BY <1>1, <1>2, AddsAssumption DEF TableTypeOK, Texts
<1>4. fresh' = fresh + 1 /\ fresh' \in 1..(MaxAllocs + 1)
  <2>1. fresh' = fresh + 1
    BY DEF NextFrame
  <2>2. fresh \in 1..MaxAllocs
    BY <1>3 DEF Texts
  <2> QED
    BY <1>3, <2>1, <2>2
<1>5. c \in CallRecords
  BY <1>3, SlotsKnown DEF CallRecords, Speedometer
<1>6. c.at = "search" /\ c.id = Speedometer /\ c.text = fresh
  OBVIOUS
<1> HIDE DEF c
<1>7. /\ calls' \in [Users -> CallRecords] /\ calls'["main"] = c
      /\ calls'["game"] = calls["game"]
  BY <1>1, <1>2, <1>5, CallSetTo DEF Users
<1>8. TableTypeOK'
  BY <1>1, <1>2, <1>4, <1>7, TableTypes DEF TableTypeOK, CallRecords
<1>9. EntriesOk'
  <2>1. ASSUME NEW s \in Slots PROVE EntryOk(s)'
    <3>1. EntryOk(s) /\ (Whole(s)' => Whole(s)) /\ ~At("main", "owner")
      BY <1>1, <1>2 DEF EntriesOk, Whole, Adding, At
    <3> QED
      BY <1>2, <3>1 DEF EntryOk
  <2> QED
    BY <2>1 DEF EntriesOk
<1>10. AddingOk' /\ ReplacingOk'
  BY <1>2, <1>3, <1>6, <1>7 DEF AddingOk, Adding, ReplacingOk
<1>11. GameOk'
  <2>1. Filled => Filled'
    BY <1>2, <1>6, <1>7 DEF Filled
  <2> QED
    BY <1>1, <1>2, <1>7, <2>1, GameUndisturbed
<1>12. HomesOk'
  <2>1. ~Holding /\ Holding' /\ ~At("main", "put") /\ ~At("main", "put")'
    BY <1>2, <1>6, <1>7 DEF Holding, At
  <2>2. fresh' = (IF TRUE THEN fresh + 1 ELSE fresh)
    BY <1>4
  <2>3. calls'["main"].text = (IF TRUE THEN fresh ELSE Literal)
    BY <1>6, <1>7
  <2>4. \A s \in Slots : entries'[s].message = entries[s].message
    BY <1>2
  <2> QED
    BY <1>1, <1>2, <1>3, <2>1, <2>2, <2>3, <2>4, HomesTaken
<1> QED
  BY <1>8, <1>9, <1>10, <1>11, <1>12 DEF TableInv

\* MainThread looks at the table, and goes on with the text it has.
LEMMA MainLooks ==
  ASSUME TableInv, UNCHANGED <<entries, added, fresh, freed>>,
         calls' \in [Users -> CallRecords], calls'["game"] = calls["game"],
         calls["main"].at \in {"search", "look", "return", "use"},
         calls'["main"].at \in {"out", "free", "put", "return", "use"},
         Holding' <=> Holding, Holding => calls'["main"].text = calls["main"].text,
         At("main", "put")' => entries[1].message \notin Texts, ReplacingOk'
  PROVE  TableInv'
<1>1. TableTypeOK /\ EntriesOk /\ AddingOk /\ ReplacingOk /\ GameOk /\ HomesOk
  BY DEF TableInv
<1>2. TableTypeOK'
  BY <1>1, TableTypes DEF TableTypeOK, CallRecords
<1>3. EntriesOk'
  <2>1. ASSUME NEW s \in Slots PROVE EntryOk(s)'
    <3>1. EntryOk(s) /\ (Whole(s)' => Whole(s)) /\ ~At("main", "owner")
      BY <1>1 DEF EntriesOk, Whole, Adding, At
    <3> QED
      BY <3>1 DEF EntryOk
  <2> QED
    BY <2>1 DEF EntriesOk
<1>4. AddingOk'
  BY DEF AddingOk, Adding
<1>5. GameOk'
  <2>1. Filled => Filled'
    BY DEF Filled
  <2> QED
    BY <1>1, <2>1, GameUndisturbed
<1>6. HomesOk'
  <2>1. ~At("main", "put") /\ 1 \in Slots
    BY SlotsKnown DEF At
  <2>2. \A s \in Slots : entries'[s].message = entries[s].message
    OBVIOUS
  <2> QED
    BY <1>1, <2>1, <2>2, HomesStay
<1> QED
  BY <1>2, <1>3, <1>4, <1>5, <1>6 DEF TableInv

\* While MainThread is in ModifyMessage or getMessage the table is filled.
LEMMA MainFilled ==
  ASSUME TableInv, calls["main"].at \in {"search", "free", "put", "owner", "look", "return", "use"}
  PROVE  /\ Filled /\ Whole(1) /\ 1 \in Slots /\ calls["main"].id = Adds[1].id
         /\ entries[1].id = Adds[1].id /\ entries[1].message # Null
         /\ (entries[1].alloc <=> entries[1].message \in Texts) \/ At("main", "owner")
         /\ Matching(Adds[1].id) = {1} /\ Least({1}) = 1
<1>1. TableTypeOK /\ EntriesOk /\ AddingOk /\ ReplacingOk
  BY DEF TableInv
<1>2. Filled /\ calls["main"].id = Adds[1].id
  BY <1>1 DEF ReplacingOk, Filled, Speedometer
<1>3. Whole(1) /\ 1 \in Slots
  BY <1>2, FilledWhole, SlotsKnown
<1>4. Matching(Adds[1].id) = {1} /\ Least({1}) = 1
  BY <1>1, <1>3, FoundWhole, LeastOfOne
<1>5. EntryOk(1)
  BY <1>1, <1>3 DEF EntriesOk
<1> QED
  BY <1>2, <1>3, <1>4, <1>5 DEF EntryOk

LEMMA MainSearchStep == ASSUME TableInv, Search("main") PROVE TableInv'
<1> DEFINE at == IF entries[1].alloc THEN "free" ELSE "put"
           c == [calls["main"] EXCEPT !.slot = 1, !.at = at]
<1>1. TableTypeOK /\ ReplacingOk
  BY DEF TableInv
<1>2. calls["main"].at = "search" /\ UNCHANGED <<entries, added, fresh, freed>>
  BY DEF Search, At
<1>3. /\ 1 \in Slots /\ calls["main"].id = Adds[1].id
      /\ entries[1].alloc <=> entries[1].message \in Texts
      /\ Matching(Adds[1].id) = {1} /\ Least({1}) = 1
  BY <1>2, MainFilled DEF At
<1>4. calls' = [calls EXCEPT !["main"] = c]
  BY <1>3 DEF Search
<1>5. calls["main"] \in CallRecords /\ "main" \in Users /\ "game" \in Users
  BY <1>1, TableTypes DEF Users
<1>6. at \in {"free", "put"}
  OBVIOUS
<1>7. /\ c \in CallRecords /\ c.slot = 1 /\ c.at = at /\ c.id = calls["main"].id
      /\ c.text = calls["main"].text
  <2> HIDE DEF at
  <2> QED
    BY <1>3, <1>5, <1>6 DEF CallRecords
<1> HIDE DEF c
<1>8. /\ calls' \in [Users -> CallRecords] /\ calls'["main"] = c
      /\ calls'["game"] = calls["game"]
  BY <1>1, <1>4, <1>5, <1>7, CallSetTo DEF Users
<1>9. at = "put" => entries[1].message \notin Texts
  BY <1>3
<1>10. at = "free" => entries[1].alloc
  OBVIOUS
<1> HIDE DEF at
<1>11. ReplacingOk'
  BY <1>1, <1>2, <1>6, <1>7, <1>8, <1>10 DEF ReplacingOk
<1>12. Holding /\ Holding' /\ calls'["main"].text = calls["main"].text
  BY <1>2, <1>6, <1>7, <1>8 DEF Holding
<1>13. At("main", "put")' => entries[1].message \notin Texts
  BY <1>7, <1>8, <1>9 DEF At
<1>14. calls'["main"].at \in {"out", "free", "put", "return", "use"}
  BY <1>6, <1>7, <1>8
<1> QED
  BY <1>2, <1>8, <1>11, <1>12, <1>13, <1>14, MainLooks

LEMMA MainLookStep == ASSUME TableInv, Look("main") PROVE TableInv'
<1> DEFINE c == [calls["main"] EXCEPT !.slot = 1, !.at = "return"]
<1>1. TableTypeOK /\ ReplacingOk
  BY DEF TableInv
<1>2. calls["main"].at = "look" /\ UNCHANGED <<entries, added, fresh, freed>>
  BY DEF Look, At
<1>3. /\ 1 \in Slots /\ calls["main"].id = Adds[1].id
      /\ Matching(Adds[1].id) = {1} /\ Least({1}) = 1 /\ {1} # {}
  BY <1>2, MainFilled DEF At
<1>4. calls' = [calls EXCEPT !["main"] = c]
  BY <1>3 DEF Look
<1>5. calls["main"] \in CallRecords
  BY <1>1, TableTypes DEF Users
<1>6. c \in CallRecords /\ c.slot = 1 /\ c.at = "return" /\ c.id = calls["main"].id
  BY <1>3, <1>5 DEF CallRecords
<1> HIDE DEF c
<1>7. /\ calls' \in [Users -> CallRecords] /\ calls'["main"] = c
      /\ calls'["game"] = calls["game"]
  BY <1>1, <1>4, <1>6, CallSetTo DEF Users
<1>8. ReplacingOk'
  BY <1>1, <1>2, <1>6, <1>7 DEF ReplacingOk
<1>9. ~Holding /\ ~Holding' /\ ~At("main", "put")'
  BY <1>2, <1>6, <1>7 DEF Holding, At
<1> QED
  BY <1>2, <1>6, <1>7, <1>8, <1>9, MainLooks

LEMMA MainReturnStep == ASSUME TableInv, Return("main") PROVE TableInv'
<1> DEFINE c == [calls["main"] EXCEPT !.text = entries[1].message, !.at = "use"]
<1>1. TableTypeOK /\ ReplacingOk
  BY DEF TableInv
<1>2. /\ calls["main"].at = "return" /\ UNCHANGED <<entries, added, fresh, freed>>
      /\ calls["main"].slot = 1
  BY <1>1 DEF Return, At, ReplacingOk
<1>3. calls' = [calls EXCEPT !["main"] = c]
  BY <1>2 DEF Return, Mine
<1>4. calls["main"] \in CallRecords /\ entries[1] \in EntryRecords
  BY <1>1, SlotsKnown, TableTypes DEF Users
<1>5. entries[1].message \in {Null, Literal} \cup Texts
  BY <1>4 DEF EntryRecords
<1>6. /\ c \in CallRecords /\ c.slot = 1 /\ c.at = "use" /\ c.id = calls["main"].id
      /\ c.text = entries[1].message
  <2> DEFINE m == entries[1].message
  <2> HIDE DEF m
  <2>1. m \in {Null, Literal} \cup Texts
    BY <1>5 DEF m
  <2>2. [calls["main"] EXCEPT !.text = m, !.at = "use"] \in CallRecords
        /\ [calls["main"] EXCEPT !.text = m, !.at = "use"].slot = calls["main"].slot
        /\ [calls["main"] EXCEPT !.text = m, !.at = "use"].at = "use"
        /\ [calls["main"] EXCEPT !.text = m, !.at = "use"].id = calls["main"].id
        /\ [calls["main"] EXCEPT !.text = m, !.at = "use"].text = m
    BY <1>4, <2>1 DEF CallRecords
  <2> QED
    BY <1>2, <2>2 DEF m
<1> HIDE DEF c
<1>7. /\ calls' \in [Users -> CallRecords] /\ calls'["main"] = c
      /\ calls'["game"] = calls["game"]
  BY <1>1, <1>3, <1>6, CallSetTo DEF Users
<1>8. ReplacingOk'
  BY <1>1, <1>2, <1>6, <1>7 DEF ReplacingOk
<1>9. ~Holding /\ ~Holding' /\ ~At("main", "put")'
  BY <1>2, <1>6, <1>7 DEF Holding, At
<1> QED
  BY <1>2, <1>6, <1>7, <1>8, <1>9, MainLooks

LEMMA MainUseStep == ASSUME TableInv, Use("main") PROVE TableInv'
<1>1. TableTypeOK
  BY DEF TableInv
<1>2. /\ calls["main"].at = "use" /\ UNCHANGED <<entries, added, fresh, freed>>
      /\ calls' = [calls EXCEPT !["main"] = NoCall]
  BY DEF Use, At
<1>3. NoCall \in CallRecords /\ NoCall.at = "out"
  BY DEF NoCall, CallRecords
<1>4. /\ calls' \in [Users -> CallRecords] /\ calls'["main"] = NoCall
      /\ calls'["game"] = calls["game"]
  BY <1>1, <1>2, <1>3, CallSetTo DEF Users
<1>5. ReplacingOk'
  BY <1>3, <1>4 DEF ReplacingOk
<1>6. ~Holding /\ ~Holding' /\ ~At("main", "put")'
  BY <1>2, <1>3, <1>4 DEF Holding, At
<1> QED
  BY <1>2, <1>3, <1>4, <1>5, <1>6, MainLooks

LEMMA MainFreeStep == ASSUME TableInv, Free("main") PROVE TableInv'
<1> DEFINE m == entries[1].message
<1>1. TableTypeOK /\ EntriesOk /\ AddingOk /\ ReplacingOk /\ GameOk /\ HomesOk
  BY DEF TableInv
<1>2. /\ calls["main"].at = "free" /\ UNCHANGED <<entries, added, fresh>>
      /\ calls["main"].slot = 1 /\ entries[1].alloc
  BY <1>1 DEF Free, At, ReplacingOk
<1>3. m \in Texts /\ 1 \in Slots
  BY <1>2, MainFilled DEF At
<1>4. /\ calls' \in [Users -> CallRecords] /\ calls'["game"] = calls["game"]
      /\ calls'["main"].at = "put" /\ calls'["main"].id = calls["main"].id
      /\ calls'["main"].slot = 1 /\ calls'["main"].text = calls["main"].text
  BY <1>1, <1>2, Continues DEF Free, Users
<1>5. /\ freed' \in [Texts -> Nat] /\ freed'[m] = freed[m] + 1
      /\ \A x \in Texts : x # m => freed'[x] = freed[x]
  <2>1. freed' = [freed EXCEPT ![m] = @ + 1] /\ freed \in [Texts -> Nat]
    BY <1>1, <1>2 DEF Free, Freed, Mine, TableTypeOK
  <2> HIDE DEF m
  <2> QED
    BY <1>3, <2>1
<1>6. freed[m] = 0 /\ m < fresh /\ \A s \in Slots : entries[s].message = m => s = 1
  <2>1. MessageOwned(1)
    BY <1>1, <1>3 DEF HomesOk
  <2>2. ~At("main", "put")
    BY <1>2 DEF At
  <2> QED
    BY <1>3, <2>1, <2>2 DEF MessageOwned
<1>7. TableTypeOK'
  BY <1>1, <1>2, <1>4, <1>5, TableTypes DEF TableTypeOK, CallRecords
<1>8. EntriesOk'
  <2>1. ASSUME NEW s \in Slots PROVE EntryOk(s)'
    <3>1. EntryOk(s) /\ (Whole(s)' => Whole(s)) /\ ~At("main", "owner")
      BY <1>1, <1>2 DEF EntriesOk, Whole, Adding, At
    <3> QED
      BY <1>2, <3>1 DEF EntryOk
  <2> QED
    BY <2>1 DEF EntriesOk
<1>9. AddingOk' /\ ReplacingOk'
  BY <1>1, <1>2, <1>4 DEF AddingOk, Adding, ReplacingOk
<1>10. GameOk'
  <2>1. Filled => Filled'
    BY <1>2, <1>4 DEF Filled
  <2> QED
    BY <1>1, <1>2, <1>4, <2>1, GameUndisturbed
<1>11. HomesOk'
  <2>1. Holding /\ Holding' /\ calls'["main"].text = calls["main"].text /\ At("main", "put")'
    BY <1>2, <1>4 DEF Holding, At
  <2>2. HandOwned
    BY <1>1 DEF HomesOk
  <2>3. calls["main"].text # m
    BY <1>3, <2>1, <2>2 DEF HandOwned
  <2>4. m \in Nat /\ fresh \in Nat
    BY <1>1, <1>3 DEF Texts, TableTypeOK
  <2>5. ASSUME NEW x \in Texts PROVE TextAtHome(x)'
    <3>1. TextAtHome(x)
      BY <1>1 DEF HomesOk
    <3>2. CASE x = m
      <4>1. freed'[x] = 1 /\ ~(x >= fresh')
        BY <1>2, <1>5, <1>6, <2>4, <3>2
      <4> QED
        BY <4>1 DEF TextAtHome
    <3>3. CASE x # m
      BY <1>2, <1>5, <2>1, <3>1, <3>3 DEF TextAtHome
    <3> QED
      BY <3>2, <3>3
  <2>6. ASSUME NEW s \in Slots PROVE MessageOwned(s)'
    <3>1. MessageOwned(s) /\ ~At("main", "put")
      BY <1>1, <1>2 DEF HomesOk, At
    <3>2. CASE s = 1
      BY <1>2, <2>1, <3>1, <3>2 DEF MessageOwned
    <3>3. CASE s # 1
      <4>1. entries[s].message # m
        BY <1>6, <3>3
      <4> QED
        BY <1>2, <1>5, <2>1, <3>1, <4>1 DEF MessageOwned
    <3> QED
      BY <3>2, <3>3
  <2>7. HandOwned'
    BY <1>2, <1>5, <2>1, <2>2, <2>3 DEF HandOwned
  <2>8. PutFreed'
    BY <1>2, <1>5, <1>6 DEF PutFreed
  <2> QED
    BY <2>5, <2>6, <2>7, <2>8 DEF HomesOk
<1> QED
  BY <1>7, <1>8, <1>9, <1>10, <1>11 DEF TableInv

\* MainThread stores in the speedometer's entry, the text and then whose it is.
LEMMA MainStores ==
  ASSUME TableInv, NEW e \in EntryRecords, entries' = [entries EXCEPT ![1] = e],
         UNCHANGED <<added, fresh, freed>>, e.active = entries[1].active,
         e.id = entries[1].id, e.message = calls["main"].text,
         calls' \in [Users -> CallRecords], calls'["game"] = calls["game"],
         calls'["main"].id = calls["main"].id, calls'["main"].slot = calls["main"].slot,
         calls'["main"].text = calls["main"].text,
         \/ calls["main"].at = "put" /\ calls'["main"].at = "owner"
         \/ calls["main"].at = "owner" /\ calls'["main"].at = "look" /\ e.alloc = TRUE
  PROVE  TableInv'
<1>1. TableTypeOK /\ EntriesOk /\ AddingOk /\ ReplacingOk /\ GameOk /\ HomesOk
  BY DEF TableInv
<1>2. Filled /\ Whole(1) /\ 1 \in Slots
  BY MainFilled
<1>3. /\ calls["main"].text \in Texts
      /\ calls["main"].at = "owner" => calls["main"].text = entries[1].message
  BY <1>1 DEF ReplacingOk
<1>4. /\ entries' \in [Slots -> EntryRecords] /\ entries'[1] = e
      /\ \A s \in Slots : s # 1 => entries'[s] = entries[s]
  BY <1>1, <1>2, EntrySetTo
<1>5. TableTypeOK'
  BY <1>1, <1>4, TableTypes DEF TableTypeOK, EntryRecords, CallRecords
<1>6. EntriesOk'
  <2>1. ASSUME NEW s \in Slots, s # 1 PROVE EntryOk(s)'
    <3>1. EntryOk(s) /\ (Whole(s)' => Whole(s)) /\ entries'[s] = entries[s]
      BY <1>1, <1>4, <2>1 DEF EntriesOk, Whole, Adding
    <3> QED
      BY <2>1, <3>1 DEF EntryOk
  <2>2. ASSUME NEW s \in Slots, s = 1 PROVE EntryOk(s)'
    <3>1. EntryOk(s) /\ Whole(s) /\ s <= added /\ ~(s > added) /\ entries'[s] = e
      BY <1>1, <1>2, <1>4, <2>2, SlotsKnown DEF EntriesOk, Whole, TableTypeOK
    <3>2. e.message \in Texts /\ e.message # Null
      BY <1>3, AddsAssumption DEF Texts, Null
    <3>3. e.alloc = TRUE \/ At("main", "owner")'
      BY DEF At
    <3> QED
      BY <2>2, <3>1, <3>2, <3>3 DEF EntryOk
  <2> QED
    BY <2>1, <2>2 DEF EntriesOk
<1>7. AddingOk' /\ ReplacingOk'
  BY <1>1, <1>4 DEF AddingOk, Adding, ReplacingOk
<1>8. GameOk'
  <2>1. Filled'
    BY <1>2 DEF Filled
  <2> QED
    BY <1>1, <1>4, <2>1, GameUndisturbed
<1>9. HomesOk'
  <2>1. CASE calls["main"].at = "put"
    <3>1. Holding /\ ~Holding' /\ ~At("main", "put")' /\ At("main", "put")
      BY <2>1 DEF Holding, At
    <3>2. entries[1].message \in Texts => freed[entries[1].message] = 1
      BY <1>1, <3>1 DEF HomesOk, PutFreed
    <3>3. entries'[1].message = calls["main"].text
          /\ \A s \in Slots : s # 1 => entries'[s].message = entries[s].message
      BY <1>4
    <3> QED
      BY <1>1, <1>2, <3>1, <3>2, <3>3, HomesStored
  <2>2. CASE calls["main"].at = "owner"
    <3>1. ~Holding /\ ~Holding' /\ ~At("main", "put")' /\ ~At("main", "put")
      BY <2>2 DEF Holding, At
    <3>2. \A s \in Slots : entries'[s].message = entries[s].message
      BY <1>3, <1>4, <2>2
    <3> QED
      BY <1>1, <1>2, <3>1, <3>2, HomesStay
  <2> QED
    BY <2>1, <2>2
<1> QED
  BY <1>5, <1>6, <1>7, <1>8, <1>9 DEF TableInv

LEMMA MainPutStep == ASSUME TableInv, Put("main") PROVE TableInv'
<1> DEFINE p == entries[1]
           e == [p EXCEPT !.message = calls["main"].text]
<1>1. TableTypeOK /\ ReplacingOk
  BY DEF TableInv
<1>2. /\ calls["main"].at = "put" /\ UNCHANGED <<added, fresh, freed>>
      /\ calls["main"].slot = 1 /\ calls["main"].text \in Texts
  BY <1>1 DEF Put, At, ReplacingOk
<1>3. entries' = [entries EXCEPT ![1] = e]
  BY <1>2 DEF Put, Set, Mine
<1>4. p \in EntryRecords
  BY <1>1, SlotsKnown, TableTypes
<1>5. calls["main"].text \in {Null, Literal} \cup Texts
  BY <1>2
<1>6. e \in EntryRecords /\ e.active = p.active /\ e.id = p.id /\ e.message = calls["main"].text
  <2> HIDE DEF p
  <2> QED
    BY <1>4, <1>5, EntryWithMessage
<1> HIDE DEF e
<1>7. /\ calls' \in [Users -> CallRecords] /\ calls'["game"] = calls["game"]
      /\ calls'["main"].at = "owner" /\ calls'["main"].id = calls["main"].id
      /\ calls'["main"].slot = calls["main"].slot /\ calls'["main"].text = calls["main"].text
  BY <1>1, Continues DEF Put, Users
<1> QED
  BY <1>2, <1>3, <1>6, <1>7, MainStores

LEMMA MainOwnerStep == ASSUME TableInv, Owner("main") PROVE TableInv'
<1> DEFINE p == entries[1]
           e == [p EXCEPT !.alloc = TRUE]
<1>1. TableTypeOK /\ ReplacingOk
  BY DEF TableInv
<1>2. /\ calls["main"].at = "owner" /\ UNCHANGED <<added, fresh, freed>>
      /\ calls["main"].slot = 1 /\ calls["main"].text \in Texts
      /\ calls["main"].text = p.message
  BY <1>1 DEF Owner, At, ReplacingOk
<1>3. (calls["main"].text # Literal) = TRUE
  BY <1>2 DEF Texts, Literal
<1>4. entries' = [entries EXCEPT ![1] = e]
  BY <1>2, <1>3 DEF Owner, Set, Mine
<1>5. p \in EntryRecords
  BY <1>1, SlotsKnown, TableTypes
<1>6. e \in EntryRecords /\ e.active = p.active /\ e.id = p.id
      /\ e.message = p.message /\ e.alloc = TRUE
  <2> HIDE DEF p
  <2> QED
    BY <1>5, EntryWithAlloc
<1> HIDE DEF e
<1>7. /\ calls' \in [Users -> CallRecords] /\ calls'["game"] = calls["game"]
      /\ calls'["main"].at = "look" /\ calls'["main"].id = calls["main"].id
      /\ calls'["main"].slot = calls["main"].slot /\ calls'["main"].text = calls["main"].text
  BY <1>1, Continues DEF Owner, Users
<1> QED
  BY <1>2, <1>4, <1>6, <1>7, MainStores

-----------------------------------------------------------------------------
\* The game's thread is given a new call.
LEMMA GameCallSetTo ==
  ASSUME TableInv, NEW c \in CallRecords, calls' = [calls EXCEPT !["game"] = c],
         UNCHANGED <<entries, added, fresh, freed>>
  PROVE  /\ calls' \in [Users -> CallRecords] /\ calls'["game"] = c
         /\ calls'["main"] = calls["main"] /\ (Filled' <=> Filled)
<1>1. calls' \in [Users -> CallRecords] /\ calls'["game"] = c /\ calls'["main"] = calls["main"]
  BY CallSetTo DEF TableInv, Users
<1> QED
  BY <1>1 DEF Filled

\* The entries of the mod's other texts, which the game finds, hold what was added.
LEMMA GameFinds ==
  ASSUME TableInv, Filled, NEW k \in Slots
  PROVE  /\ Matching(Adds[k].id) = {k} /\ Least({k}) = k /\ entries[k] \in EntryRecords
         /\ entries[k].message # Null
         /\ k = 2 => entries[k].message = Literal /\ entries[k].alloc = FALSE
<1>1. TableTypeOK /\ EntriesOk /\ AddingOk
  BY DEF TableInv
<1>2. Whole(k) /\ EntryOk(k) /\ k \in Nat /\ entries[k] \in EntryRecords
  BY <1>1, FilledWhole, SlotsKnown, TableTypes DEF EntriesOk
<1>3. Matching(Adds[k].id) = {k} /\ Least({k}) = k
  BY <1>1, <1>2, FoundWhole, LeastOfOne
<1>4. k = 2 => entries[k].alloc = FALSE
  <2>1. Literal \notin Texts /\ entries[k].alloc \in BOOLEAN
    BY <1>2 DEF Literal, Texts, EntryRecords
  <2> QED
    BY <1>2, <2>1 DEF EntryOk
<1> QED
  BY <1>2, <1>3, <1>4 DEF EntryOk

LEMMA TurnToggleStep == ASSUME TableInv, TurnToggle PROVE TableInv'
<1> DEFINE c == [at |-> "search", id |-> Toggle, slot |-> 0, text |-> Literal]
<1>1. c \in CallRecords
  BY SlotsKnown DEF CallRecords, Toggle
<1>2. c.at = "search" /\ c.id = Toggle /\ c.text = Literal
  OBVIOUS
<1>3. calls' = [calls EXCEPT !["game"] = c] /\ Filled /\ UNCHANGED <<entries, added, fresh, freed>>
  BY DEF TurnToggle
<1> HIDE DEF c
<1>4. /\ calls' \in [Users -> CallRecords] /\ calls'["game"] = c
      /\ calls'["main"] = calls["main"] /\ (Filled' <=> Filled)
  BY <1>1, <1>3, GameCallSetTo
<1>5. GameOk'
  BY <1>2, <1>3, <1>4 DEF GameOk
<1> QED
  BY <1>3, <1>4, <1>5, GameStep

LEMMA AskStep == ASSUME TableInv, NEW id \in OwnIds \cup GameIds, Ask(id) PROVE TableInv'
<1> DEFINE c == [NoCall EXCEPT !.at = "look", !.id = id]
<1>1. id \in Nat
  BY SlotsKnown
<1>2. c \in CallRecords /\ c.at = "look" /\ c.id = id
  BY <1>1 DEF CallRecords, NoCall
<1>3. calls' = [calls EXCEPT !["game"] = c] /\ UNCHANGED <<entries, added, fresh, freed>>
      /\ (id \in GameIds \/ (Filled /\ id \in OwnIds \ {Speedometer}))
  BY DEF Ask
<1> HIDE DEF c
<1>4. /\ calls' \in [Users -> CallRecords] /\ calls'["game"] = c
      /\ calls'["main"] = calls["main"] /\ (Filled' <=> Filled)
  BY <1>2, <1>3, GameCallSetTo
<1>5. GameOk'
  BY <1>2, <1>3, <1>4 DEF GameOk
<1> QED
  BY <1>3, <1>4, <1>5, GameStep

LEMMA GameSearchStep == ASSUME TableInv, Search("game") PROVE TableInv'
<1> DEFINE c == [calls["game"] EXCEPT !.slot = 2, !.at = "put"]
<1>1. TableTypeOK /\ GameOk
  BY DEF TableInv
<1>2. /\ calls["game"].at = "search" /\ UNCHANGED <<entries, added, fresh, freed>>
      /\ Filled /\ calls["game"].id = Toggle /\ calls["game"].text = Literal
  BY <1>1 DEF Search, At, GameOk
<1>3. 2 \in Slots
  BY SlotsKnown
<1>4. Matching(Toggle) = {2} /\ Least({2}) = 2 /\ ~entries[2].alloc
  BY <1>2, <1>3, GameFinds DEF Toggle
<1>5. calls' = [calls EXCEPT !["game"] = c]
  BY <1>2, <1>4 DEF Search
<1>6. calls["game"] \in CallRecords
  BY <1>1, TableTypes DEF Users
<1>7. c \in CallRecords /\ c.slot = 2 /\ c.at = "put" /\ c.id = Toggle /\ c.text = Literal
  BY <1>2, <1>3, <1>6 DEF CallRecords
<1> HIDE DEF c
<1>8. /\ calls' \in [Users -> CallRecords] /\ calls'["game"] = c
      /\ calls'["main"] = calls["main"] /\ (Filled' <=> Filled)
  BY <1>2, <1>5, <1>7, GameCallSetTo
<1>9. GameOk'
  BY <1>2, <1>7, <1>8 DEF GameOk
<1> QED
  BY <1>2, <1>8, <1>9, GameStep

LEMMA GameContinues ==
  ASSUME TableInv, NEW at \in {"owner", "look"}, Continue("game", at),
         calls["game"].at \in {"put", "owner"}, UNCHANGED <<entries, added, fresh, freed>>
  PROVE  TableInv'
<1>1. TableTypeOK /\ GameOk
  BY DEF TableInv
<1>2. /\ calls' \in [Users -> CallRecords] /\ calls'["main"] = calls["main"]
      /\ calls'["game"].at = at /\ calls'["game"].id = calls["game"].id
      /\ calls'["game"].slot = calls["game"].slot /\ calls'["game"].text = calls["game"].text
  BY <1>1, Continues DEF Users
<1>3. Filled /\ Filled'
  BY <1>1, <1>2 DEF GameOk, Filled
<1>4. Toggle \in OwnIds \ {Speedometer}
  <2>1. 1 \in Slots /\ 2 \in Slots /\ 1 # 2
    BY SlotsKnown
  <2> QED
    BY <2>1, SlotsKnown DEF Toggle, Speedometer
<1>5. GameOk'
  BY <1>1, <1>2, <1>3, <1>4 DEF GameOk
<1> QED
  BY <1>2, <1>5, GameStep

LEMMA GamePutStep == ASSUME TableInv, Put("game") PROVE TableInv'
<1> DEFINE p == entries[2]
<1>1. TableTypeOK /\ GameOk
  BY DEF TableInv
<1>2. /\ calls["game"].at = "put" /\ UNCHANGED <<added, fresh, freed>>
      /\ Filled /\ calls["game"].text = Literal /\ calls["game"].slot = 2 /\ 2 \in Slots
  BY <1>1, SlotsKnown DEF Put, At, GameOk
<1>3. p \in EntryRecords /\ p.message = Literal
  BY <1>2, GameFinds
<1>4. entries' = [entries EXCEPT ![2] = [p EXCEPT !.message = Literal]]
  BY <1>2 DEF Put, Set, Mine
<1>5. [p EXCEPT !.message = Literal] = p
  <2> HIDE DEF p
  <2> QED
    BY <1>3 DEF EntryRecords
<1>6. entries' = entries
  BY <1>1, <1>2, <1>4, <1>5, TableTypes
<1> QED
  BY <1>2, <1>6, GameContinues DEF Put

LEMMA GameOwnerStep == ASSUME TableInv, Owner("game") PROVE TableInv'
<1> DEFINE p == entries[2]
<1>1. TableTypeOK /\ GameOk
  BY DEF TableInv
<1>2. /\ calls["game"].at = "owner" /\ UNCHANGED <<added, fresh, freed>>
      /\ Filled /\ calls["game"].text = Literal /\ calls["game"].slot = 2 /\ 2 \in Slots
  BY <1>1, SlotsKnown DEF Owner, At, GameOk
<1>3. p \in EntryRecords /\ p.alloc = FALSE
  BY <1>2, GameFinds
<1>4. entries' = [entries EXCEPT ![2] = [p EXCEPT !.alloc = FALSE]]
  BY <1>2 DEF Owner, Set, Mine
<1>5. [p EXCEPT !.alloc = FALSE] = p
  <2> HIDE DEF p
  <2> QED
    BY <1>3 DEF EntryRecords
<1>6. entries' = entries
  BY <1>1, <1>2, <1>4, <1>5, TableTypes
<1> QED
  BY <1>2, <1>6, GameContinues DEF Owner

LEMMA GameLookStep == ASSUME TableInv, Look("game") PROVE TableInv'
<1>1. TableTypeOK /\ EntriesOk /\ AddingOk /\ GameOk
  BY DEF TableInv
<1>2. /\ calls["game"].at = "look" /\ UNCHANGED <<entries, added, fresh, freed>>
      /\ calls["game"] \in CallRecords
  BY <1>1, TableTypes DEF Look, At, Users
<1>3. CASE calls["game"].id \in GameIds
  <2>1. calls' = [calls EXCEPT !["game"] = NoCall]
    BY <1>1, <1>3, NotFound DEF Look
  <2>2. NoCall \in CallRecords /\ NoCall.at = "out"
    BY DEF NoCall, CallRecords
  <2>3. /\ calls' \in [Users -> CallRecords] /\ calls'["game"] = NoCall
        /\ calls'["main"] = calls["main"]
    BY <1>2, <2>1, <2>2, GameCallSetTo
  <2>4. GameOk'
    BY <2>2, <2>3 DEF GameOk
  <2> QED
    BY <1>2, <2>3, <2>4, GameStep
<1>4. CASE Filled /\ calls["game"].id \in OwnIds \ {Speedometer}
  <2>1. PICK k \in Slots : calls["game"].id = Adds[k].id /\ k # 1
    BY <1>4, SlotsKnown DEF Speedometer
  <2> DEFINE c == [calls["game"] EXCEPT !.slot = k, !.at = "return"]
  <2>2. Matching(Adds[k].id) = {k} /\ Least({k}) = k /\ {k} # {}
    BY <1>4, GameFinds
  <2>3. calls' = [calls EXCEPT !["game"] = c]
    BY <2>1, <2>2 DEF Look
  <2>4. c \in CallRecords /\ c.slot = k /\ c.at = "return" /\ c.id = Adds[k].id
    BY <1>2, <2>1 DEF CallRecords
  <2> HIDE DEF c
  <2>5. /\ calls' \in [Users -> CallRecords] /\ calls'["game"] = c
        /\ calls'["main"] = calls["main"] /\ (Filled' <=> Filled)
    BY <1>2, <2>3, <2>4, GameCallSetTo
  <2>6. GameOk'
    BY <1>4, <2>1, <2>4, <2>5 DEF GameOk
  <2> QED
    BY <1>2, <2>5, <2>6, GameStep
<1> QED
  BY <1>1, <1>2, <1>3, <1>4 DEF GameOk

LEMMA GameReturnStep == ASSUME TableInv, Return("game") PROVE TableInv'
<1> DEFINE k == calls["game"].slot
           m == entries[k].message
           c == [calls["game"] EXCEPT !.text = m, !.at = "use"]
<1>1. TableTypeOK /\ GameOk
  BY DEF TableInv
<1>2. /\ calls["game"].at = "return" /\ UNCHANGED <<entries, added, fresh, freed>>
      /\ Filled /\ k \in Slots \ {1} /\ calls["game"].id = Adds[k].id
  BY <1>1 DEF Return, At, GameOk
<1>3. calls' = [calls EXCEPT !["game"] = c]
  BY DEF Return, Mine
<1>4. calls["game"] \in CallRecords /\ entries[k] \in EntryRecords
  BY <1>1, <1>2, TableTypes DEF Users
<1>5. m \in {Null, Literal} \cup Texts
  BY <1>4 DEF EntryRecords
<1>6. /\ c \in CallRecords /\ c.slot = k /\ c.at = "use" /\ c.id = calls["game"].id
      /\ c.text = m
  <2> HIDE DEF m
  <2> QED
    BY <1>4, <1>5 DEF CallRecords
<1> HIDE DEF c, m
<1>7. /\ calls' \in [Users -> CallRecords] /\ calls'["game"] = c
      /\ calls'["main"] = calls["main"] /\ (Filled' <=> Filled)
  BY <1>2, <1>3, <1>6, GameCallSetTo
<1>8. calls'["game"].text = entries'[calls'["game"].slot].message
  BY <1>2, <1>6, <1>7 DEF m
<1> HIDE DEF k
<1>9. GameOk'
  BY <1>2, <1>6, <1>7, <1>8 DEF GameOk
<1> QED
  BY <1>2, <1>7, <1>9, GameStep

LEMMA GameUseStep == ASSUME TableInv, Use("game") PROVE TableInv'
<1>1. NoCall \in CallRecords /\ NoCall.at = "out"
  BY DEF NoCall, CallRecords
<1>2. calls' = [calls EXCEPT !["game"] = NoCall] /\ UNCHANGED <<entries, added, fresh, freed>>
  BY DEF Use
<1>3. /\ calls' \in [Users -> CallRecords] /\ calls'["game"] = NoCall
      /\ calls'["main"] = calls["main"]
  BY <1>1, <1>2, GameCallSetTo
<1>4. GameOk'
  BY <1>1, <1>3 DEF GameOk
<1> QED
  BY <1>2, <1>3, <1>4, GameStep

LEMMA TableStep == TableInv /\ [TableNext]_tableVars => TableInv'
<1> SUFFICES ASSUME TableInv, [TableNext]_tableVars PROVE TableInv'
  OBVIOUS
<1>1. CASE AddActive
  BY <1>1, AddActiveStep
<1>2. CASE AddStores
  BY <1>2, AddStoresStep
<1>3. CASE NextFrame
  BY <1>3, NextFrameStep
<1>4. CASE TurnToggle
  BY <1>4, TurnToggleStep
<1>5. ASSUME NEW id \in OwnIds \cup GameIds, Ask(id) PROVE TableInv'
  BY <1>5, AskStep
<1>6. ASSUME NEW t \in Users,
             Search(t) \/ Free(t) \/ Put(t) \/ Owner(t) \/ Look(t) \/ Return(t) \/ Use(t)
      PROVE  TableInv'
  <2>1. CASE t = "main"
    BY <1>6, <2>1, MainSearchStep, MainFreeStep, MainPutStep, MainOwnerStep, MainLookStep,
       MainReturnStep, MainUseStep
  <2>2. CASE t = "game"
    <3>1. ~Free("game")
      BY DEF TableInv, GameOk, Free, At
    <3> QED
      BY <1>6, <2>2, <3>1, GameSearchStep, GamePutStep, GameOwnerStep, GameLookStep,
         GameReturnStep, GameUseStep
  <2> QED
    BY <2>1, <2>2 DEF Users
<1>7. CASE UNCHANGED tableVars
  <2>1. UNCHANGED <<entries, calls, added, fresh, freed>>
    BY <1>7 DEF tableVars
  <2>2. calls \in [Users -> CallRecords]
    BY TableTypes DEF TableInv
  <2>3. GameOk'
    BY <2>1 DEF TableInv, GameOk, Filled
  <2> QED
    BY <2>1, <2>2, <2>3, GameStep
<1> QED
  BY <1>1, <1>2, <1>3, <1>4, <1>5, <1>6, <1>7 DEF TableNext

\* The table and the calls keep their types (message.cpp:10-55).
THEOREM TableTyped == TableSpec => []TableTypeOK
<1>1. TableInv => TableTypeOK
  BY DEF TableInv
<1> QED
  BY <1>1, TableInitInv, TableStep, PTL DEF TableSpec

LEMMA TableInvAlive == TableInv => TextsAlive
<1> SUFFICES ASSUME TableInv, NEW t \in Users, calls[t].at = "use"
             PROVE  /\ calls[t].id \in OwnIds /\ calls[t].text # Null
                    /\ calls[t].text \in Texts => freed[calls[t].text] = 0
  BY DEF TextsAlive
<1> DEFINE k == calls[t].slot
<1>1. Filled /\ k \in Slots /\ calls[t].id = Adds[k].id
      /\ calls[t].text = entries[k].message /\ ~(k = 1 /\ At("main", "put"))
  <2>1. CASE t = "main"
    <3>1. Filled /\ 1 \in Slots /\ calls["main"].id = Adds[1].id
      BY <2>1, MainFilled
    <3> QED
      BY <2>1, <3>1 DEF TableInv, ReplacingOk, At
  <2>2. CASE t = "game"
    BY <2>2 DEF TableInv, GameOk
  <2> QED
    BY <2>1, <2>2 DEF Users
<1>2. entries[k].message # Null /\ MessageOwned(k)
  BY <1>1, GameFinds DEF TableInv, HomesOk
<1>3. calls[t].id \in OwnIds
  BY <1>1, SlotsKnown
<1> QED
  BY <1>1, <1>2, <1>3 DEF MessageOwned

\* What getMessage returns may be used, although MainThread goes on replacing and
\* freeing the speedometer's text (message.cpp:10-18, :34-53).
THEOREM WhoLooksFindsALiveText == TableSpec => []TextsAlive
  BY TableInitInv, TableStep, TableInvAlive, PTL DEF TableSpec

LEMMA TableInvFreedOnce == TableInv => FreedOnce
<1> SUFFICES ASSUME TableInv, NEW x \in 1..(fresh - 1)
             PROVE  IF freed[x] = 0
                    THEN Cardinality(InHand(x)) + Cardinality(InEntry(x)) = 1
                    ELSE /\ freed[x] = 1 /\ InHand(x) = {}
                         /\ InEntry(x) = {} \/ BeingReplaced(x)
  BY DEF FreedOnce
<1>1. TableTypeOK /\ ReplacingOk /\ GameOk /\ HomesOk
  BY DEF TableInv
<1>2. x \in Texts /\ x < fresh /\ x # Literal
  BY <1>1, AddsAssumption DEF TableTypeOK, Texts, Literal
<1>3. TextAtHome(x) /\ HandOwned /\ \A s \in Slots : MessageOwned(s)
  BY <1>1, <1>2 DEF HomesOk
<1>4. "main" \in Users /\ "game" \in Users /\ \A t \in Users : t = "main" \/ t = "game"
  BY DEF Users
<1>5. "game" \notin InHand(x)
  BY <1>1, <1>2 DEF InHand, GameOk
<1>6. "main" \in InHand(x) <=> Holding /\ calls["main"].text = x
  BY <1>4 DEF InHand, Holding
<1>7. CASE freed[x] = 0
  <2>1. CASE Holding /\ calls["main"].text = x
    <3>1. InHand(x) = {"main"}
      BY <1>4, <1>5, <1>6, <2>1 DEF InHand
    <3>2. InEntry(x) = {}
      BY <1>2, <1>3, <2>1 DEF HandOwned, InEntry
    <3>3. Cardinality(InHand(x)) = 1 /\ Cardinality(InEntry(x)) = 0
      BY <3>1, <3>2, FS_EmptySet, FS_Singleton
    <3> QED
      BY <1>7, <3>3
  <2>2. CASE ~(Holding /\ calls["main"].text = x)
    <3>1. InHand(x) = {}
      BY <1>4, <1>5, <1>6, <2>2 DEF InHand
    <3>2. PICK s \in Slots : entries[s].message = x
      BY <1>2, <1>3, <1>7, <2>2 DEF TextAtHome
    <3>3. InEntry(x) = {s}
      <4>1. \A u \in Slots : entries[u].message = x => u = s
        BY <1>2, <1>3, <3>2 DEF MessageOwned
      <4> QED
        BY <3>2, <4>1 DEF InEntry
    <3>4. Cardinality(InHand(x)) = 0 /\ Cardinality(InEntry(x)) = 1
      BY <3>1, <3>3, FS_EmptySet, FS_Singleton
    <3> QED
      BY <1>7, <3>4
  <2> QED
    BY <2>1, <2>2
<1>8. CASE freed[x] # 0
  <2>1. freed[x] = 1
    BY <1>3, <1>8 DEF TextAtHome
  <2>2. InHand(x) = {}
    <3>1. "main" \notin InHand(x)
      BY <1>2, <1>3, <1>6, <1>8 DEF HandOwned
    <3> QED
      BY <1>4, <1>5, <3>1 DEF InHand
  <2>3. ASSUME NEW s \in InEntry(x) PROVE BeingReplaced(x)
    <3>1. s \in Slots /\ entries[s].message = x
      BY DEF InEntry
    <3>2. s = 1 /\ At("main", "put")
      BY <1>2, <1>3, <1>8, <3>1 DEF MessageOwned
    <3>3. calls["main"].slot = 1
      BY <1>1, <3>2 DEF ReplacingOk, At
    <3> QED
      BY <1>4, <3>1, <3>2, <3>3 DEF BeingReplaced, Mine
  <2> QED
    BY <1>8, <2>1, <2>2, <2>3
<1> QED
  BY <1>7, <1>8

\* Each text that is allocated has one owner until it is freed, once
\* (message.cpp:45-55, main.cpp:75-80).
THEOREM TextsAreFreedOnce == TableSpec => []FreedOnce
  BY TableInitInv, TableStep, TableInvFreedOnce, PTL DEF TableSpec

-----------------------------------------------------------------------------
(* Starting one title after the other. *)

\* The step of MainThread that sets a variable anew in each title.
SetBy == [pFuncList |-> 1, redirection |-> 2, GlobalPatchInstance |-> 6, messages |-> 7,
          CUP0Instance |-> 10, CoursePatchInstance |-> 12]

SetAnew == DOMAIN SetBy

\* What MainThread has come past was set in this title.
SetInOrder == \A s \in SetAnew : mainStep > SetBy[s] => statics[s] = starts

\* The hooks that may run before MainThread is done come after what they read.
HooksInOrder ==
  /\ inCode # {} => phase = "main"
  /\ inCode \subseteq {"files", "dispatch", "texts", "courses", "online", "race"}
  /\ "files" \in inCode => mainStep > 4
  /\ "texts" \in inCode => mainStep > 8

\* The types the argument needs.
KnownSteps ==
  /\ starts \in Nat
  /\ statics \in [Statics -> Nat]
  /\ mainStep \in 1..15
  /\ phase # "main" => mainStep = 1 /\ inCode = {}

RestartInv == KnownSteps /\ SetInOrder /\ HooksInOrder

-----------------------------------------------------------------------------

\* MainThread has fourteen steps.
LEMMA StepCount == Len(MainSteps) = 14
BY DEF MainSteps

\* The variables that are set anew are the mod's.
LEMMA SetAnewKnown ==
  /\ SetAnew = {"pFuncList", "redirection", "GlobalPatchInstance", "messages",
                "CUP0Instance", "CoursePatchInstance"}
  /\ SetAnew \subseteq Statics
  /\ SetBy \in [SetAnew -> 1..14]
BY DEF SetAnew, SetBy, Statics

\* Each of them is set by its step.
LEMMA SetByStep ==
  ASSUME NEW s \in SetAnew PROVE MainSteps[SetBy[s]].new = {s}
<1>1. SetAnew = {"pFuncList", "redirection", "GlobalPatchInstance", "messages",
                 "CUP0Instance", "CoursePatchInstance"}
  BY SetAnewKnown
<1>2. CASE s = "pFuncList"
  BY <1>2 DEF SetBy, MainSteps, New, NoHooks
<1>3. CASE s = "redirection"
  BY <1>3 DEF SetBy, MainSteps, New, NoHooks
<1>4. CASE s = "GlobalPatchInstance"
  BY <1>4 DEF SetBy, MainSteps, New, NoHooks
<1>5. CASE s = "messages"
  BY <1>5 DEF SetBy, MainSteps, New, NoHooks
<1>6. CASE s = "CUP0Instance"
  BY <1>6 DEF SetBy, MainSteps, New, NoHooks
<1>7. CASE s = "CoursePatchInstance"
  BY <1>7 DEF SetBy, MainSteps, New, NoHooks
<1> QED BY <1>1, <1>2, <1>3, <1>4, <1>5, <1>6, <1>7

\* Each group of hooks is installed by a step of its own.
LEMMA HooksByStep ==
  ASSUME NEW k \in 1..14
  PROVE  /\ MainSteps[k].hooks \subseteq
              {"files", "dispatch", "texts", "courses", "online", "race"}
         /\ "files" \in MainSteps[k].hooks => k = 4
         /\ "texts" \in MainSteps[k].hooks => k = 8
<1>1. k \in {1, 2, 3, 6, 7, 9, 10, 12} => MainSteps[k].hooks = {}
  BY DEF MainSteps, New, Once, NoHooks
<1>2. /\ MainSteps[4].hooks = {"files"} /\ MainSteps[5].hooks = {"dispatch"}
      /\ MainSteps[8].hooks = {"texts"} /\ MainSteps[11].hooks = {"courses"}
      /\ MainSteps[13].hooks = {"online"} /\ MainSteps[14].hooks = {"race"}
  BY DEF MainSteps, Hooking, NoHooks
<1>3. k \in {1, 2, 3, 6, 7, 9, 10, 12} \/ k \in {4, 5, 8, 11, 13, 14}
  OBVIOUS
<1> QED BY <1>1, <1>2, <1>3

-----------------------------------------------------------------------------

\* Before the first title nothing is hooked and MainThread has done nothing.
LEMMA RestartInitInv == RestartInit => RestartInv
BY SetAnewKnown DEF RestartInit, RestartInv, KnownSteps, SetInOrder, HooksInOrder

\* Whatever a hook sets, or MainThread sets if it is NULL, what was of this title stays.
LEMMA SetNowKeeps ==
  ASSUME KnownSteps, starts' = starts, NEW new, NEW once, SetNow(new, once)
  PROVE  /\ statics' \in [Statics -> Nat]
         /\ \A s \in Statics : statics[s] = starts => statics'[s] = starts
         /\ \A s \in Statics : s \in new => statics'[s] = starts
BY DEF KnownSteps, SetNow

\* A step of MainThread sets what is its own and installs its hooks.
LEMMA MainThreadStep ==
  ASSUME RestartInv, MainThread PROVE RestartInv'
<1> DEFINE now == MainSteps[mainStep]
<1>1. mainStep \in 1..14 /\ mainStep' = mainStep + 1 /\ phase' = "main" /\ starts' = starts
  BY StepCount DEF MainThread, InLoop, RestartInv, KnownSteps
<1>2. SetNow(now.new, now.once) /\ inCode' = inCode \cup now.hooks
  BY DEF MainThread
<1>3. /\ statics' \in [Statics -> Nat]
      /\ \A s \in Statics : statics[s] = starts => statics'[s] = starts
      /\ \A s \in Statics : s \in now.new => statics'[s] = starts
  BY <1>1, <1>2, SetNowKeeps DEF RestartInv
<1>4. KnownSteps'
  BY <1>1, <1>3 DEF RestartInv, KnownSteps
<1>5. SetInOrder'
  <2> SUFFICES ASSUME NEW s \in SetAnew, mainStep + 1 > SetBy[s] PROVE statics'[s] = starts
    BY <1>1 DEF SetInOrder
  <2>1. s \in Statics /\ SetBy[s] \in 1..14
    BY SetAnewKnown
  <2>2. CASE mainStep > SetBy[s]
    BY <1>3, <2>1, <2>2 DEF RestartInv, SetInOrder
  <2>3. CASE mainStep = SetBy[s]
    <3>1. s \in now.new
      BY <2>3, SetByStep
    <3> QED BY <3>1, <2>1, <1>3
  <2> QED BY <1>1, <2>1, <2>2, <2>3
<1>6. HooksInOrder'
  <2>1. /\ now.hooks \subseteq {"files", "dispatch", "texts", "courses", "online", "race"}
        /\ "files" \in now.hooks => mainStep = 4
        /\ "texts" \in now.hooks => mainStep = 8
    BY <1>1, HooksByStep
  <2>2. HooksInOrder
    BY DEF RestartInv
  <2> HIDE DEF now
  <2>3. inCode' \subseteq {"files", "dispatch", "texts", "courses", "online", "race"}
    BY <1>2, <2>1, <2>2 DEF HooksInOrder
  <2>4. "files" \in inCode' => mainStep' > 4
    BY <1>1, <1>2, <2>1, <2>2 DEF HooksInOrder
  <2>5. "texts" \in inCode' => mainStep' > 8
    BY <1>1, <1>2, <2>1, <2>2 DEF HooksInOrder
  <2> QED BY <1>1, <2>3, <2>4, <2>5 DEF HooksInOrder
<1> QED BY <1>4, <1>5, <1>6 DEF RestartInv

\* The next title starts without hooks and from MainThread's first step.
LEMMA BootStep ==
  ASSUME RestartInv, NEW t \in Titles, NEW without \in SUBSET Symbols, Boot(t, without)
  PROVE  RestartInv'
BY SetAnewKnown DEF Boot, RestartInv, KnownSteps, SetInOrder, HooksInOrder

\* No step of __entry touches what MainThread and the hooks do.
LEMMA EntryStep ==
  ASSUME RestartInv, LoadWiiUSymbols \/ ReturnToNextApp \/ LaunchTitles \/ CreateThread
  PROVE  RestartInv'
<1>1. /\ starts' = starts /\ statics' = statics /\ mainStep' = mainStep /\ inCode' = inCode
      /\ phase # "main"
  BY DEF LoadWiiUSymbols, ReturnToNextApp, LaunchTitles, CreateThread
<1> QED BY <1>1 DEF RestartInv, KnownSteps, SetInOrder, HooksInOrder

\* A hook that sets something sets it in this title.
LEMMA HookStep ==
  ASSUME RestartInv, NEW group, NEW new, NEW once, HookSets(group, new, once) PROVE RestartInv'
<1>1. /\ starts' = starts /\ mainStep' = mainStep /\ inCode' = inCode /\ phase' = phase
      /\ SetNow(new, once)
  BY DEF HookSets
<1>2. /\ statics' \in [Statics -> Nat]
      /\ \A s \in Statics : statics[s] = starts => statics'[s] = starts
  BY <1>1, SetNowKeeps DEF RestartInv
<1> QED BY <1>1, <1>2, SetAnewKnown DEF RestartInv, KnownSteps, SetInOrder, HooksInOrder

LEMMA RestartInvStep == RestartInv /\ [RestartNext]_restartVars => RestartInv'
<1> SUFFICES ASSUME RestartInv, [RestartNext]_restartVars PROVE RestartInv'
  OBVIOUS
<1>1. CASE UNCHANGED restartVars
  BY <1>1 DEF restartVars, RestartInv, KnownSteps, SetInOrder, HooksInOrder
<1>2. CASE RestartNext
  BY <1>2, BootStep, EntryStep, MainThreadStep, HookStep DEF RestartNext, GameComes,
     ReportError, BuildCoursePage, FetchIcon, SwapBattleCourses, StartNetwork,
     BuildWifiTop, BuildRaceView
<1> QED BY <1>1, <1>2

LEMMA RestartInvAlways == RestartSpec => []RestartInv
BY RestartInitInv, RestartInvStep, PTL DEF RestartSpec

-----------------------------------------------------------------------------

\* However often and wherever the console left the game, a hook reads no patch, file or
\* text of an earlier title, and in MainThread's loop neither a hook nor the loop reads
\* an instance of one; the ten variables of KeptFromFirst and KeptUntilSet are left out
\* (patcher.cpp:7-11, filesystem.cpp:243, message.cpp:22, main.cpp:36-44, :58-79).
THEOREM ReadsThisTitle == RestartSpec => []HooksReadThisTitle
<1>1. RestartInv => HooksReadThisTitle
  <2> SUFFICES ASSUME RestartInv, NEW reader \in Readers, NEW s \in Reads(reader),
                      s \notin KeptFromFirst, s \notin KeptUntilSet,
                      s \notin SetAfterHooks \/ InLoop
               PROVE  statics[s] = starts
    BY DEF HooksReadThisTitle
  <2>1. reader \in {"files", "dispatch", "texts", "courses", "online", "race", "loop"}
    BY DEF RestartInv, HooksInOrder, Readers
  <2>2. s \in SetAnew
    BY <2>1, SetAnewKnown DEF Reads, KeptFromFirst, KeptUntilSet
  <2>3. CASE InLoop
    BY <2>2, <2>3, StepCount, SetAnewKnown DEF InLoop, RestartInv, SetInOrder
  <2>4. CASE ~InLoop
    <3>1. reader \in inCode /\ reader # "loop"
      BY <2>4 DEF Readers, RestartInv, HooksInOrder
    <3>2. CASE s \in {"pFuncList", "redirection"}
      <4>1. reader = "files"
        BY <2>1, <3>1, <3>2 DEF Reads
      <4> QED BY <3>1, <3>2, <4>1, <2>2 DEF RestartInv, HooksInOrder, KnownSteps,
                                          SetInOrder, SetBy
    <3>3. CASE s = "messages"
      <4>1. reader = "texts"
        BY <2>1, <3>1, <3>3 DEF Reads
      <4> QED BY <3>1, <3>3, <4>1, <2>2 DEF RestartInv, HooksInOrder, KnownSteps,
                                          SetInOrder, SetBy
    <3> QED BY <2>2, <2>4, <3>2, <3>3, SetAnewKnown DEF SetAfterHooks
  <2> QED BY <2>3, <2>4
<1> QED BY <1>1, RestartInvAlways, PTL

\* What RestartInv does not say of the types.
RestOfTypes ==
  /\ title \in Titles /\ starts \in 1..Starts
  /\ alreadyDoneIOSKernelExploit \in BOOLEAN
  /\ lacking \subseteq Symbols
  /\ symbols \in [Symbols -> 0..starts]
  /\ statics \in [Statics -> 0..starts]
  /\ phase \in {"symbols", "entry", "returned", "fatal", "main"}

LEMMA RestOfTypesStep ==
  ASSUME RestOfTypes, [RestartNext]_restartVars
  PROVE  RestOfTypes'
<1>1. CASE UNCHANGED restartVars
  BY <1>1 DEF restartVars, RestOfTypes
<1>2. ASSUME NEW t \in Titles, NEW without \in SUBSET Symbols, Boot(t, without)
      PROVE  RestOfTypes'
  BY <1>2, TitlesAssumption DEF Boot, RestOfTypes
<1>3. CASE LoadWiiUSymbols
  <2>1. symbols' \in [Symbols -> 0..starts]
    BY <1>3 DEF LoadWiiUSymbols, RestOfTypes
  <2>2. phase' \in {"fatal", "entry"}
    BY <1>3 DEF LoadWiiUSymbols
  <2> QED BY <1>3, <2>1, <2>2 DEF LoadWiiUSymbols, RestOfTypes
<1>4. CASE ReturnToNextApp
  BY <1>4 DEF ReturnToNextApp, RestOfTypes
<1>5. CASE LaunchTitles
  BY <1>5 DEF LaunchTitles, RestOfTypes
<1>6. CASE CreateThread
  BY <1>6 DEF CreateThread, RestOfTypes
<1>7. ASSUME NEW new, NEW once, SetNow(new, once)
      PROVE  RestOfTypes => statics' \in [Statics -> 0..starts]
  BY <1>7 DEF RestOfTypes, SetNow
<1>8. CASE MainThread
  <2>1. statics' \in [Statics -> 0..starts]
    BY <1>7, <1>8 DEF MainThread
  <2> QED BY <1>8, <2>1 DEF MainThread, RestOfTypes
<1>9. ASSUME NEW group, NEW new, NEW once, HookSets(group, new, once)
      PROVE  RestOfTypes'
  <2>1. statics' \in [Statics -> 0..starts]
    BY <1>7, <1>9 DEF HookSets
  <2> QED BY <1>9, <2>1 DEF HookSets, RestOfTypes
<1> QED BY <1>1, <1>2, <1>3, <1>4, <1>5, <1>6, <1>8, <1>9 DEF RestartNext, GameComes, ReportError,
          BuildCoursePage, FetchIcon, SwapBattleCourses, StartNetwork, BuildWifiTop,
          BuildRaceView

\* However many titles are started, what was looked up and set is of the
\* starts so far (entry.cpp:4-45, symbols.cpp, main.cpp).
THEOREM RestartTyped == RestartSpec => []RestartTypeOK
<1>1. RestartInit => RestOfTypes
  <2> SUFFICES ASSUME RestartInit PROVE RestOfTypes
    OBVIOUS
  <2>1. title \in Titles
    BY TitlesAssumption DEF RestartInit
  <2>3. starts = 1 /\ starts \in 1..Starts
    BY TitlesAssumption DEF RestartInit
  <2>4. symbols \in [Symbols -> 0..starts] /\ statics \in [Statics -> 0..starts]
    BY <2>3 DEF RestartInit
  <2>5. /\ alreadyDoneIOSKernelExploit \in BOOLEAN /\ lacking \subseteq Symbols
        /\ phase = "symbols"
    BY DEF RestartInit
  <2> QED BY <2>1, <2>3, <2>4, <2>5 DEF RestOfTypes
<1>2. RestOfTypes /\ RestartInv => RestartTypeOK
  BY StepCount DEF RestOfTypes, RestartInv, KnownSteps, HooksInOrder, RestartTypeOK
<1>3. RestOfTypes /\ [RestartNext]_restartVars => RestOfTypes'
  BY RestOfTypesStep
<1> QED BY <1>1, <1>2, <1>3, RestartInvAlways, PTL DEF RestartSpec
=============================================================================
