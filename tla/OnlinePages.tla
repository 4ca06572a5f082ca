----------------------------- MODULE OnlinePages -----------------------------
(***************************************************************************)
(* A room of consoles that race together with the CTGP toggle on           *)
(* (source/patch/online.cpp).  Each player turns pages and votes for a     *)
(* course of the cup on screen; the game draws one vote and tells every    *)
(* console which course it is, but not from which page.  So the console    *)
(* whose vote was drawn sends its page to every player, in several copies  *)
(* over a datagram socket that may lose, repeat or delay them.             *)
(*                                                                         *)
(* The game's vote, its draw and the network are external.  A packet does  *)
(* not survive until the next vote: a whole race lies between.             *)
(***************************************************************************)
EXTENDS TrackPages

CONSTANTS
  Consoles,    \* the consoles of the room
  Copies,      \* packets SendToStation sends to each (4)
  None         \* no cup, no vote, no console, nothing loaded

ASSUME RoomAssumption ==
  /\ Copies \in Nat
  /\ None \notin Consoles \cup Cups \cup Courses \cup AnyPage

VARIABLES
  page,      \* m_CurrentPageNum of each console
  mod,       \* trackNamesMod of each console
  cup,       \* the cup under each cursor, or none while turning pages
  vote,      \* the course each player has voted for, or none
  drawn,     \* the console whose vote was drawn, or none
  answered,  \* the consoles on which getRouletteResult has run
  packets,   \* packets[k][p]: packets with page p on their way to console k
  informed,  \* the consoles that got a page before they loaded the track
  loaded     \* what each console loaded for the drawn course, or none

vars == <<page, mod, cup, vote, drawn, answered, packets, informed, loaded>>

TypeOK ==
  /\ page \in [Consoles -> AnyPage]
  /\ mod \in [Consoles -> [Courses -> AnyPage]]
  /\ cup \in [Consoles -> Cups \cup {None}]
  /\ vote \in [Consoles -> Courses \cup {None}]
  /\ drawn \in Consoles \cup {None}
  /\ answered \subseteq Consoles
  /\ packets \in [Consoles -> [AnyPage -> 0..Copies]]
  /\ informed \subseteq Consoles
  /\ loaded \in [Consoles -> AnyPage \cup {None}]

NoPackets == [k \in Consoles |-> [p \in AnyPage |-> 0]]

Init ==
  /\ page = [k \in Consoles |-> 0]
  /\ mod = [k \in Consoles |-> [x \in Courses |-> Original]]
  /\ cup = [k \in Consoles |-> None]
  /\ vote = [k \in Consoles |-> None]
  /\ drawn = None
  /\ answered = {}
  /\ packets = NoPackets
  /\ informed = {}
  /\ loaded = [k \in Consoles |-> None]

Race == <<drawn, answered, packets, informed, loaded>>

-----------------------------------------------------------------------------
(* Choosing. *)

\* The cursor goes to an arrow and presses it.
TurnPage(k) ==
  /\ vote[k] = None
  /\ page' \in {[page EXCEPT ![k] = Decremented(@)], [page EXCEPT ![k] = Incremented(@)]}
  /\ cup' = [cup EXCEPT ![k] = None]
  /\ UNCHANGED <<mod, vote, Race>>

SelectCup(k, c) ==
  /\ vote[k] = None
  /\ cup' = [cup EXCEPT ![k] = c]
  /\ mod' = [mod EXCEPT ![k] = AfterSelect(@, page[k], c)]
  /\ UNCHANGED <<page, vote, Race>>

\* onHandler while the cursor is on an arrow: the cup that is still selected may
\* be any, from this menu or an earlier one.
OtherEvent(k, c) ==
  /\ vote[k] = None /\ cup[k] = None
  /\ mod' = [mod EXCEPT ![k] = AfterSelect(@, page[k], c)]
  /\ UNCHANGED <<page, cup, vote, Race>>

Vote(k, i) ==
  /\ vote[k] = None /\ cup[k] # None
  /\ vote' = [vote EXCEPT ![k] = <<cup[k], i>>]
  /\ UNCHANGED <<page, mod, cup, Race>>

\* The game draws a vote.
Draw(w) ==
  /\ drawn = None
  /\ \A k \in Consoles : vote[k] # None
  /\ drawn' = w
  /\ UNCHANGED <<page, mod, cup, vote, answered, packets, informed, loaded>>

-----------------------------------------------------------------------------
(* The page of the drawn course. *)

\* Mutation: SendToStation is called without comparing the stations.
EveryoneSends(k) ==
  [j \in Consoles |-> [packets[j] EXCEPT ![page[k]] = Copies]]

\* The console whose vote was drawn sends its page to every player.
Sent(k) ==
  IF k = drawn THEN [j \in Consoles |-> [packets[j] EXCEPT ![page[k]] = Copies]]
  ELSE packets

GetRouletteResult(k) ==
  /\ drawn # None /\ k \notin answered
  /\ answered' = answered \cup {k}
  /\ packets' = Sent(k)
  /\ UNCHANGED <<page, mod, cup, vote, drawn, informed, loaded>>

Taken(k, p) == [packets EXCEPT ![k][p] = @ - 1]

\* readFromSocket.
Deliver(k, p) ==
  /\ packets[k][p] > 0
  /\ packets' = Taken(k, p)
  /\ page' = [page EXCEPT ![k] = p]
  /\ mod' = [mod EXCEPT ![k] = AfterPacket(@, p)]
  /\ informed' = IF loaded[k] = None THEN informed \cup {k} ELSE informed
  /\ UNCHANGED <<cup, vote, drawn, answered, loaded>>

Lose(k, p) ==
  /\ packets[k][p] > 0
  /\ packets' = Taken(k, p)
  /\ UNCHANGED <<page, mod, cup, vote, drawn, answered, informed, loaded>>

-----------------------------------------------------------------------------
(* Racing. *)

\* The game loads the drawn course through FSOpenFile.
Load(k) ==
  /\ k \in answered /\ loaded[k] = None
  /\ loaded' = [loaded EXCEPT ![k] = mod[k][vote[drawn]]]
  /\ UNCHANGED <<page, mod, cup, vote, drawn, answered, packets, informed>>

\* Back to the vote.  The page stays; the names are reset where the pages of the
\* menu are built anew (LoadPanes).
NextVote ==
  /\ \A k \in Consoles : loaded[k] # None
  /\ mod' \in {mod, [k \in Consoles |-> [x \in Courses |-> Original]]}
  /\ cup' = [k \in Consoles |-> None]
  /\ vote' = [k \in Consoles |-> None]
  /\ drawn' = None
  /\ answered' = {}
  /\ packets' = NoPackets
  /\ informed' = {}
  /\ loaded' = [k \in Consoles |-> None]
  /\ UNCHANGED page

Choose(k) ==
  \/ TurnPage(k)
  \/ \E c \in Cups : SelectCup(k, c) \/ OtherEvent(k, c)
  \/ \E i \in Tracks : Vote(k, i)

Network(k) == \E p \in AnyPage : Deliver(k, p) \/ Lose(k, p)

Next ==
  \/ \E k \in Consoles : Choose(k) \/ Draw(k) \/ GetRouletteResult(k) \/ Network(k) \/ Load(k)
  \/ NextVote

Spec == Init /\ [][Next]_vars

-----------------------------------------------------------------------------
(* Properties. *)

Racing(k) == loaded[k] # None /\ (k = drawn \/ k \in informed)

\* Everyone races the same track: when a vote from a page of custom tracks is
\* drawn, the console that voted and every console its page reached before
\* loading load the same track, whichever copies were lost, repeated or late and
\* whatever each player had looked at before (online.cpp:21-67).
RaceAgrees ==
  \A j, k \in Consoles :
    (Racing(j) /\ Racing(k) /\ page[drawn] > 0) => loaded[j] = loaded[k]
=============================================================================
