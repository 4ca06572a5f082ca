------------------------------ MODULE Matchmaking ------------------------------
(***************************************************************************)
(* How consoles with the CTGP toggle on meet each other and nobody else    *)
(* (source/patch/online.cpp): both SetAttribute hooks put the CTGP region  *)
(* in place of the game's in attribute 3, in what a console searches for   *)
(* and in the room it creates.  The toggle is a button of the online menu  *)
(* (Page_WifiTop), with a label that must tell its state.                  *)
(*                                                                         *)
(* The server, and the game's way through its menus, are external: only    *)
(* from the online menu does the game look for a room, and who is in a     *)
(* room, or looks for one, is on another page.  A friend's room is joined  *)
(* without a search.                                                       *)
(***************************************************************************)
EXTENDS Integers

CONSTANTS
  Players,   \* the consoles
  Rooms,     \* sessions the server may keep at once
  Regions,   \* the game's own values of attribute 3
  Ctgp,      \* 101, the CTGP region
  NoRoom     \* in no room; of no region

ASSUME RegionsAssumption == Ctgp \notin Regions /\ NoRoom \notin Rooms \cup Regions \cup {Ctgp}

VARIABLES
  toggle,        \* m_OnlineToggle of each console
  text,          \* its text with ONLINE_TOGGLE_MSG_ID says "ON"
  label,         \* what the button on its screen says
  menu,          \* "top" is Page_WifiTop
  criteria,      \* attribute 3 of what it searches for
  m_LastRegion,
  room,          \* the room it is in
  searched,      \* did it find or create that room by its criteria?
  attribute3     \* attribute 3 of each room

meetVars ==
  <<toggle, text, label, menu, criteria, m_LastRegion, room, searched, attribute3>>

AnyRegion == Regions \cup {Ctgp}

MeetTypeOK ==
  /\ toggle \in [Players -> BOOLEAN]
  /\ text \in [Players -> BOOLEAN]
  /\ label \in [Players -> BOOLEAN]
  /\ menu \in [Players -> {"elsewhere", "top", "search", "room"}]
  /\ criteria \in [Players -> AnyRegion \cup {NoRoom}]
  /\ m_LastRegion \in [Players -> AnyRegion \cup {NoRoom}]
  /\ room \in [Players -> Rooms \cup {NoRoom}]
  /\ searched \in [Players -> BOOLEAN]
  /\ attribute3 \in [Rooms -> AnyRegion \cup {NoRoom}]

MeetInit ==
  /\ toggle = [p \in Players |-> FALSE]
  /\ text = [p \in Players |-> FALSE]
  /\ label = [p \in Players |-> FALSE]
  /\ menu = [p \in Players |-> "elsewhere"]
  /\ criteria = [p \in Players |-> NoRoom]
  /\ m_LastRegion = [p \in Players |-> NoRoom]
  /\ room = [p \in Players |-> NoRoom]
  /\ searched = [p \in Players |-> FALSE]
  /\ attribute3 = [r \in Rooms |-> NoRoom]

-----------------------------------------------------------------------------
(* The online menu. *)

\* Page_WifiTop::onCreate: the button takes the text of its identifier.
OnCreate(p) ==
  /\ menu[p] = "elsewhere"
  /\ menu' = [menu EXCEPT ![p] = "top"]
  /\ label' = [label EXCEPT ![p] = text[p]]
  /\ UNCHANGED <<toggle, text, criteria, m_LastRegion, room, searched, attribute3>>

LeaveTop(p) ==
  /\ menu[p] = "top"
  /\ menu' = [menu EXCEPT ![p] = "elsewhere"]
  /\ UNCHANGED <<toggle, text, label, criteria, m_LastRegion, room, searched, attribute3>>

\* Mutation: the button is given its text before the text is changed.
ToggleLate(p) ==
  /\ menu[p] = "top"
  /\ toggle' = [toggle EXCEPT ![p] = ~@]
  /\ label' = [label EXCEPT ![p] = text[p]]
  /\ text' = [text EXCEPT ![p] = toggle'[p]]
  /\ UNCHANGED <<menu, criteria, m_LastRegion, room, searched, attribute3>>

\* Page_WifiTop_ButtonHandler.  What switching off does to the page of tracks is
\* in CoursePages.
Page_WifiTop_ButtonHandler(p) ==
  /\ menu[p] = "top"
  /\ toggle' = [toggle EXCEPT ![p] = ~@]
  /\ text' = [text EXCEPT ![p] = toggle'[p]]
  /\ label' = [label EXCEPT ![p] = text'[p]]
  /\ UNCHANGED <<menu, criteria, m_LastRegion, room, searched, attribute3>>

-----------------------------------------------------------------------------
(* Meeting. *)

\* Both SetAttribute hooks, for attribute 3.
AttributeFor(p, value) == IF toggle[p] THEN Ctgp ELSE value

\* MatchmakeSessionSearchCriteria::SetAttribute.
SetCriteria(p, value) ==
  /\ menu[p] = "top"
  /\ menu' = [menu EXCEPT ![p] = "search"]
  /\ criteria' = [criteria EXCEPT ![p] = AttributeFor(p, value)]
  /\ m_LastRegion' = [m_LastRegion EXCEPT ![p] = AttributeFor(p, value)]
  /\ UNCHANGED <<toggle, text, label, room, searched, attribute3>>

Members(r) == {p \in Players : room[p] = r}

Entered(p, r, bySearch) ==
  /\ menu' = [menu EXCEPT ![p] = "room"]
  /\ room' = [room EXCEPT ![p] = r]
  /\ searched' = [searched EXCEPT ![p] = bySearch]
  /\ UNCHANGED <<toggle, text, label, criteria>>

\* autoMatch: the server has a room for the criteria.
AutoMatch(p, r) ==
  /\ menu[p] = "search"
  /\ Members(r) # {} /\ attribute3[r] = criteria[p]
  /\ Entered(p, r, TRUE)
  /\ UNCHANGED <<m_LastRegion, attribute3>>

\* Mutation: only the search is for the CTGP region.
CreateGamesOwn(p, r, value) ==
  /\ menu[p] = "search"
  /\ Members(r) = {}
  /\ attribute3' = [attribute3 EXCEPT ![r] = value]
  /\ m_LastRegion' = [m_LastRegion EXCEPT ![p] = value]
  /\ Entered(p, r, TRUE)

\* MatchmakeSession::SetAttribute and createMatch: it had none, or another console
\* was quicker to fill it.
CreateMatch(p, r, value) ==
  /\ menu[p] = "search"
  /\ Members(r) = {}
  /\ attribute3' = [attribute3 EXCEPT ![r] = AttributeFor(p, value)]
  /\ m_LastRegion' = [m_LastRegion EXCEPT ![p] = AttributeFor(p, value)]
  /\ Entered(p, r, TRUE)

\* joinMatch: a friend's room.
JoinMatch(p, r) ==
  /\ menu[p] = "top"
  /\ Members(r) # {}
  /\ Entered(p, r, FALSE)
  /\ UNCHANGED <<m_LastRegion, attribute3>>

\* disconnect: back in the menus.
Disconnect(p) ==
  /\ menu[p] = "room"
  /\ menu' = [menu EXCEPT ![p] = "elsewhere"]
  /\ room' = [room EXCEPT ![p] = NoRoom]
  /\ UNCHANGED <<toggle, text, label, criteria, m_LastRegion, searched, attribute3>>

Meet(p) ==
  \/ OnCreate(p) \/ LeaveTop(p) \/ Page_WifiTop_ButtonHandler(p) \/ Disconnect(p)
  \/ \E value \in Regions : SetCriteria(p, value)
  \/ \E r \in Rooms : \/ AutoMatch(p, r)
                      \/ JoinMatch(p, r)
                      \/ \E value \in Regions : CreateMatch(p, r, value)

MeetNext == \E p \in Players : Meet(p)

MeetSpec == MeetInit /\ [][MeetNext]_meetVars

-----------------------------------------------------------------------------
(* Properties. *)

\* Consoles that came to a room by searching, or created it, all have the toggle on
\* or all off, whatever they switched and which rooms they were in before, so that
\* none of them ignores the pages of another; and each remembers the room's region
\* (online.cpp:75-95, :64).
RoomsDoNotMix ==
  \A p \in Players :
    room[p] # NoRoom /\ searched[p] =>
      /\ m_LastRegion[p] = attribute3[room[p]]
      /\ \A q \in Members(room[p]) : searched[q] => toggle[q] = toggle[p]

\* Whoever sees the online menu reads on its button whether the toggle is on, also
\* after leaving and coming back (online.cpp:97-108, :117-125).
LabelTellsToggle == \A p \in Players : menu[p] = "top" => label[p] = toggle[p]
=============================================================================
