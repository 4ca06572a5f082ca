-------------------------- MODULE CoursePagesProofs --------------------------
(***************************************************************************)
(* Theorems about CoursePages, for any number of pages, cups and tracks.   *)
(* Those about names and icons assume that all pages replace the same cups.*)
(*                                                                         *)
(* The argument: a cup no page replaces never gets a name or an icon that  *)
(* is not its own, so a page that leaves a cup alone leaves nothing of the *)
(* page before; and the page only changes while the cursor is on no cup,   *)
(* so the cup under the cursor always was selected on the current page.    *)
(***************************************************************************)
EXTENDS CoursePages, TrackPagesProofs

IconsInPlace == \A c \in PagedCups : icons[c] # Original => Replaced(c)

FocusOk ==
  focus = "cups" => buttons = Offered(page, cup) /\ ShowsCup(mod, page, cup)

\* What holds of any archive, and what needs the same cups on each page.
Frame == TypeOK /\ BattleShownIsLoaded
Inv == InPlace(mod) /\ IconsInPlace /\ FocusOk

LEMMA Loaded ==
  ASSUME SameCupsOnEachPage, TypeOK, IconsInPlace, NEW p \in AnyPage
  PROVE  LET i == LoadPage(p, icons)
         IN /\ \A c \in PagedCups : i[c] # Original => Replaced(c)
            /\ \A c \in PagedCups : i[c] = Offered(p, c)
<1> DEFINE i == LoadPage(p, icons)
<1>1. \A c \in PagedCups : i[c] # Original => Replaced(c)
  BY ReplacedByAll DEF LoadPage, IconsInPlace
<1>2. \A c \in PagedCups : <<p, c>> \notin Custom /\ p # 0 => icons[c] = Original
  BY PageNumbers DEF IconsInPlace, Replaced
<1>3. \A c \in PagedCups : i[c] = Offered(p, c)
  BY <1>2 DEF LoadPage, Offered
<1> QED  BY <1>1, <1>3

LEMMA LoadedTypes ==
  ASSUME TypeOK, NEW p \in AnyPage
  PROVE  LoadPage(p, icons) \in [PagedCups -> AnyPage]
BY PageNumbers DEF LoadPage, TypeOK

-----------------------------------------------------------------------------
(* Types and the battle page. *)

LEMMA InitFrame ==
  ASSUME Init
  PROVE  Frame
BY PageNumbers DEF Init, OwnIcons, Frame, TypeOK, BattleShownIsLoaded

LEMMA NextFrame ==
  ASSUME Frame, [Next]_vars
  PROVE  Frame'
<1> USE DEF Frame
<1>1. CASE BuildMenu
  BY <1>1, PageNumbers DEF BuildMenu, NewBattlePage, OwnIcons, TypeOK, BattleShownIsLoaded
<1>2. ASSUME NEW where \in {"arrow", "away"}, LeaveCups(where)
      PROVE  Frame'
  BY <1>2 DEF LeaveCups, battleVars, TypeOK, BattleShownIsLoaded
<1>3. CASE TurnPage
  <2>1. page' \in AnyPage
    BY <1>3, Turned DEF TurnPage, TypeOK
  <2>2. icons' \in [PagedCups -> AnyPage]
    BY <1>3, <2>1, LoadedTypes DEF TurnPage
  <2> QED  BY <1>3, <2>1, <2>2 DEF TurnPage, battleVars, TypeOK, BattleShownIsLoaded
<1>4. ASSUME NEW c \in Cups, SelectCup(c)
      PROVE  Frame'
  <2>1. mod' \in [Courses -> AnyPage] /\ buttons' \in AnyPage
    BY <1>4, NamesTyped, PageNumbers DEF SelectCup, ChangeCourseButtons, TypeOK
  <2> QED  BY <1>4, <2>1 DEF SelectCup, battleVars, TypeOK, BattleShownIsLoaded
<1>5. CASE OtherEvent
  <2>1. mod' \in [Courses -> AnyPage] /\ buttons' \in AnyPage
    BY <1>5, NamesTyped, PageNumbers DEF OtherEvent, ChangeCourseButtons, TypeOK
  <2> QED  BY <1>5, <2>1 DEF OtherEvent, battleVars, TypeOK, BattleShownIsLoaded
<1>6. CASE SwapBattle
  BY <1>6 DEF SwapBattle, SwapOn, SwapOff, pageVars, TypeOK, BattleShownIsLoaded
<1>7. CASE ToggleOnline
  <2>1. page' \in AnyPage /\ icons' \in [PagedCups -> AnyPage]
    BY <1>7, LoadedTypes, PageNumbers DEF ToggleOnline, TypeOK
  <2> QED  BY <1>7, <2>1 DEF ToggleOnline, battleVars, TypeOK, BattleShownIsLoaded
<1>8. ASSUME NEW p \in AnyPage, ReceivePage(p)
      PROVE  Frame'
  <2>1. mod' \in [Courses -> AnyPage]
    BY <1>8, NamesTyped DEF ReceivePage, TypeOK
  <2> QED  BY <1>8, <2>1 DEF ReceivePage, battleVars, TypeOK, BattleShownIsLoaded
<1>9. CASE UNCHANGED vars
  BY <1>9 DEF vars, pageVars, battleVars, TypeOK, BattleShownIsLoaded
<1> QED  BY <1>1, <1>2, <1>3, <1>4, <1>5, <1>6, <1>7, <1>8, <1>9 DEF Next

LEMMA Framed == Spec => []Frame
<1>1. Init => Frame
  BY InitFrame
<1>2. Frame /\ [Next]_vars => Frame'
  BY NextFrame
<1> QED  BY <1>1, <1>2, PTL DEF Spec

\* Whatever the archive, the state of the course selection keeps its types: the
\* page stays in range (course.cpp:128-146).
THEOREM TypeCorrect == Spec => []TypeOK
<1>1. Frame => TypeOK
  BY DEF Frame
<1> QED  BY <1>1, Framed, PTL

\* Whatever the archive, the battle page shows what it loads for as long as its
\* buttons have its panes, loses them only to the buttons saved on an earlier page,
\* and never puts back a backup that was not made (course.cpp:187-231).
THEOREM BattleSeenIsLoaded == Spec => []BattleShownIsLoaded
<1>1. Frame => BattleShownIsLoaded
  BY DEF Frame
<1> QED  BY <1>1, Framed, PTL

-----------------------------------------------------------------------------
(* Names and icons. *)

LEMMA InitInv ==
  ASSUME Init
  PROVE  Inv
BY PageNumbers DEF Init, OwnIcons, Inv, InPlace, IconsInPlace, FocusOk

LEMMA NextInv ==
  ASSUME SameCupsOnEachPage, Frame, Inv, [Next]_vars
  PROVE  Inv'
<1> USE DEF Inv
<1> TypeOK
  BY DEF Frame
<1>1. CASE BuildMenu
  BY <1>1, PageNumbers DEF BuildMenu, OwnIcons, InPlace, IconsInPlace, FocusOk
<1>2. ASSUME NEW where \in {"arrow", "away"}, LeaveCups(where)
      PROVE  Inv'
  BY <1>2 DEF LeaveCups, InPlace, IconsInPlace, FocusOk
<1>3. CASE TurnPage
  <2>1. page' \in AnyPage
    BY <1>3, Turned DEF TurnPage, TypeOK
  <2>2. IconsInPlace'
    BY <1>3, <2>1, Loaded DEF TurnPage, IconsInPlace
  <2>3. InPlace(mod)' /\ FocusOk'
    BY <1>3 DEF TurnPage, InPlace, FocusOk
  <2> QED  BY <2>2, <2>3
<1>4. ASSUME NEW c \in Cups, SelectCup(c)
      PROVE  Inv'
  <2>1. mod' = AfterSelect(mod, page, c) /\ buttons' = Offered(page, c)
    BY <1>4 DEF SelectCup, ChangeCourseButtons, Offered
  <2>2. InPlace(mod)' /\ ShowsCup(mod', page, c)
    BY <2>1, Selected DEF InPlace, TypeOK
  <2>3. FocusOk'
    BY <1>4, <2>1, <2>2 DEF SelectCup, FocusOk, ShowsCup
  <2>4. IconsInPlace'
    BY <1>4 DEF SelectCup, IconsInPlace
  <2> QED  BY <2>2, <2>3, <2>4
<1>5. CASE OtherEvent
  <2>1. mod' = AfterSelect(mod, page, cup) /\ cup \in Cups /\ page \in AnyPage
    BY <1>5 DEF OtherEvent, ChangeCourseButtons, TypeOK
  <2>2. InPlace(mod)' /\ ShowsCup(mod', page, cup)
    BY <2>1, Selected DEF InPlace, TypeOK
  <2>3. ASSUME focus = "cups" PROVE buttons' = Offered(page, cup)
    BY <1>5, <2>3 DEF OtherEvent, ChangeCourseButtons, FocusOk, Offered
  <2>4. FocusOk'
    BY <1>5, <2>2, <2>3 DEF OtherEvent, FocusOk, ShowsCup
  <2>5. IconsInPlace'
    BY <1>5 DEF OtherEvent, IconsInPlace
  <2> QED  BY <2>2, <2>4, <2>5
<1>6. CASE SwapBattle
  BY <1>6 DEF SwapBattle, pageVars, InPlace, IconsInPlace, FocusOk
<1>7. CASE ToggleOnline
  <2>1. IconsInPlace'
    BY <1>7, Loaded, PageNumbers DEF ToggleOnline, IconsInPlace
  <2>2. InPlace(mod)' /\ FocusOk'
    BY <1>7 DEF ToggleOnline, InPlace, FocusOk
  <2> QED  BY <2>1, <2>2
<1>8. ASSUME NEW p \in AnyPage, ReceivePage(p)
      PROVE  Inv'
  <2>1. InPlace(mod)'
    BY <1>8, Received DEF ReceivePage, InPlace, TypeOK
  <2>2. IconsInPlace' /\ FocusOk'
    BY <1>8 DEF ReceivePage, IconsInPlace, FocusOk
  <2> QED  BY <2>1, <2>2
<1>9. CASE UNCHANGED vars
  BY <1>9 DEF vars, pageVars, InPlace, IconsInPlace, FocusOk
<1> QED  BY <1>1, <1>2, <1>3, <1>4, <1>5, <1>6, <1>7, <1>8, <1>9 DEF Next

\* The invariant holds throughout, if the pages replace the same cups.
THEOREM Invariance ==
  ASSUME SameCupsOnEachPage
  PROVE  Spec => []Inv
<1>1. Init => Inv
  BY InitInv
<1>2. Frame /\ Inv /\ [Next]_vars => Inv'
  BY NextInv
<1> QED  BY <1>1, <1>2, Framed, PTL DEF Spec

\* If the pages replace the same cups, the tracks the course buttons show are the
\* ones that would be loaded (course.cpp:102, :258-287, online.cpp:40-67).
THEOREM SeenIsLoaded ==
  ASSUME SameCupsOnEachPage
  PROVE  Spec => []ShownIsLoaded
<1>1. Inv => ShownIsLoaded
  BY DEF Inv, FocusOk, ShowsCup, ShownIsLoaded
<1> QED  BY <1>1, Invariance, PTL

\* If the pages replace the same cups, a turned page shows its own icons only
\* (course.cpp:110-146).
THEOREM IconsTurn ==
  ASSUME SameCupsOnEachPage
  PROVE  Spec => IconsFollowTurns
<1> DEFINE Shows == TurnPage => \A c \in PagedCups : icons'[c] = Offered(page', c)
<1>1. Frame /\ Inv /\ [Next]_vars => [Shows]_vars
  <2> SUFFICES ASSUME Frame, Inv, TurnPage, NEW c \in PagedCups
               PROVE  icons'[c] = Offered(page', c)
    OBVIOUS
  <2>1. page' \in AnyPage
    BY Turned DEF TurnPage, Frame, TypeOK
  <2>2. icons' = LoadPage(page', icons)
    BY DEF TurnPage
  <2> QED  BY <2>1, <2>2, Loaded DEF Frame, Inv
<1> HIDE DEF Shows
<1>2. Spec => [][Shows]_vars
  BY <1>1, Framed, Invariance, PTL DEF Spec
<1> QED  BY <1>2 DEF Shows, IconsFollowTurns
=============================================================================
