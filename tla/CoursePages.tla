----------------------------- MODULE CoursePages -----------------------------
(***************************************************************************)
(* The course selection of one console: source/patch/course.cpp, and the   *)
(* hooks of source/patch/online.cpp that change the same state.            *)
(*                                                                         *)
(* The player turns pages with the arrows beside the cups, and chooses a   *)
(* cup and one of its four courses.  What is shown (the icons of the cups, *)
(* the buttons of the courses) and what is loaded (trackNamesMod) change   *)
(* in different hooks.  On the battle page the arrows swap the eight       *)
(* courses for eight custom ones and back.  A button draws into the panes  *)
(* it points at, and the buttons saved for the way back are copies, with   *)
(* the panes of the page they were saved on.                               *)
(*                                                                         *)
(* The game's own handlers are external: a cursor that comes to a cup      *)
(* selects it and shows its own courses before the hook runs, and building *)
(* the menu makes new buttons and loads the icons again.  That nothing is  *)
(* received while the player chooses is the game's doing as well.          *)
(***************************************************************************)
EXTENDS TrackPages

CONSTANT Online      \* may the player use the online menu?

ASSUME OnlineAssumption == Online \in BOOLEAN

VARIABLES
  page,          \* m_CurrentPageNum
  mod,           \* trackNamesMod of the courses of the cups
  icons,         \* the page whose icon each cup shows
  cup,           \* currentlySelectedCup
  buttons,       \* the page whose tracks the four course buttons show
  focus,         \* where the cursor is
  toggle,        \* m_OnlineToggle
  customBattle,  \* m_CustomBattle
  battleShown,   \* does the battle page show the custom courses?
  battleMod,     \* does trackNamesMod replace the battle courses?
  battlePanes,   \* do the battle buttons point at the panes of their page?
  backup         \* whose buttons backupPageBattle holds

pageVars == <<page, mod, icons, cup, buttons, focus, toggle>>
battleVars == <<customBattle, battleShown, battleMod, battlePanes, backup>>
vars == <<pageVars, battleVars>>

TypeOK ==
  /\ page \in AnyPage
  /\ mod \in [Courses -> AnyPage]
  /\ icons \in [PagedCups -> AnyPage]
  /\ cup \in Cups
  /\ buttons \in AnyPage
  /\ focus \in {"away", "arrow", "cups"}
  /\ toggle \in BOOLEAN
  /\ customBattle \in BOOLEAN
  /\ battleShown \in BOOLEAN
  /\ battleMod \in BOOLEAN
  /\ battlePanes \in BOOLEAN
  /\ backup \in {"none", "this", "earlier"}

\* GetResource and LoadTexture: the icons the game has just loaded are its own.
OwnIcons == [c \in PagedCups |-> Original]

\* Page_CourseBattle::onCreate: eight new buttons with panes of their own, which
\* show the game's courses.  A backup stays, and with it the panes it points at.
NewBattlePage ==
  /\ battleShown' = FALSE
  /\ battlePanes' = TRUE
  /\ backup' = IF backup = "none" THEN "none" ELSE "earlier"

\* The menu has been built; no cup has been touched yet.
Init ==
  /\ page = 0
  /\ mod = [x \in Courses |-> Original]
  /\ icons = OwnIcons
  /\ cup \in Cups
  /\ buttons = Original
  /\ focus = "away"
  /\ toggle = FALSE
  /\ customBattle = FALSE
  /\ battleShown = FALSE
  /\ battleMod = FALSE
  /\ battlePanes = TRUE
  /\ backup = "none"

-----------------------------------------------------------------------------
(* Building the menu. *)

\* Mutation: LoadPanes does not put the original track names back.
BuildMenuKeepingNames ==
  /\ focus' = "away"
  /\ buttons' = Original
  /\ icons' = OwnIcons
  /\ NewBattlePage
  /\ UNCHANGED <<page, mod, battleMod, cup, toggle, customBattle>>

\* LoadPanes, when the player comes back to the menu.  The page and m_CustomBattle
\* stay.
BuildMenu ==
  /\ focus' = "away"
  /\ buttons' = Original
  /\ icons' = OwnIcons
  /\ mod' = [x \in Courses |-> Original]
  /\ battleMod' = FALSE
  /\ NewBattlePage
  /\ UNCHANGED <<page, cup, toggle, customBattle>>

-----------------------------------------------------------------------------
(* Turning the page. *)

\* Mutation: page 0 takes back the icons of no cup.
LoadPageOver(p, shown) == [c \in PagedCups |-> IF <<p, c>> \in Custom THEN p ELSE shown[c]]

\* loadPage: the icons on a page, given the ones shown so far.
LoadPage(p, shown) ==
  [c \in PagedCups |-> IF <<p, c>> \in Custom THEN p
                       ELSE IF p = 0 THEN Original ELSE shown[c]]

\* The cursor comes to an arrow, or leaves the screen.
LeaveCups(where) ==
  /\ focus' = where
  /\ UNCHANGED <<page, mod, icons, cup, buttons, toggle, battleVars>>

\* UICursorLink::next on page 43, UICursor::next_ on pages 44 and 63: the arrow
\* is pressed once more.  The cursor stays, and no handler runs.
TurnPage ==
  /\ focus = "arrow"
  /\ page' \in {Decremented(page), Incremented(page)}
  /\ icons' = LoadPage(page', icons)
  /\ UNCHANGED <<mod, cup, buttons, focus, toggle, battleVars>>

-----------------------------------------------------------------------------
(* The handlers of the course pages. *)

\* changeCourseButtons, given what the game's handler left on the buttons.
ChangeCourseButtons(c, shown) ==
  /\ mod' = AfterSelect(mod, page, c)
  /\ buttons' = IF <<page, c>> \in Custom THEN page ELSE shown

\* onHandler: the cursor comes to a cup.
SelectCup(c) ==
  /\ cup' = c
  /\ focus' = "cups"
  /\ ChangeCourseButtons(c, Original)
  /\ UNCHANGED <<page, icons, toggle, battleVars>>

\* onHandler: any other event of the page, on an arrow too, where the cup
\* selected last stays selected.
OtherEvent ==
  /\ focus # "away"
  /\ ChangeCourseButtons(cup, buttons)
  /\ UNCHANGED <<page, icons, cup, focus, toggle, battleVars>>

-----------------------------------------------------------------------------
(* The battle page. *)

\* The custom courses come on: the first time ever the buttons are saved.
SwapOn ==
  /\ backup' = IF backup = "none" THEN "this" ELSE backup
  /\ UNCHANGED battlePanes
  /\ battleMod' = TRUE

\* They go off: the saved buttons are copied over the eight, panes included.
SwapOff ==
  /\ battlePanes' = (backup = "this")
  /\ UNCHANGED backup
  /\ battleMod' = FALSE

\* CursorLink_CourseMatrix::next on an arrow, and handle_battle_swap.  What is
\* drawn into the panes of an earlier page is not seen.
SwapBattle ==
  /\ focus = "away"
  /\ customBattle' = ~customBattle
  /\ IF customBattle' THEN SwapOn ELSE SwapOff
  /\ battleShown' = IF battlePanes' THEN customBattle' ELSE battleShown
  /\ UNCHANGED pageVars

-----------------------------------------------------------------------------
(* The online menu. *)

\* Page_WifiTop_ButtonHandler: switching off goes back to page 0.
ToggleOnline ==
  /\ Online /\ focus = "away"
  /\ toggle' = ~toggle
  /\ IF toggle
     THEN page' = 0 /\ icons' = LoadPage(0, icons)
     ELSE UNCHANGED <<page, icons>>
  /\ UNCHANGED <<mod, cup, buttons, focus, battleVars>>

\* readFromSocket: the page of the chosen course.  The function does not ask where
\* the cursor is: that a course is drawn only when this console has left its menu
\* is assumed of the game.
ReceivePage(p) ==
  /\ toggle /\ focus = "away"
  /\ page' = p
  /\ mod' = AfterPacket(mod, p)
  /\ UNCHANGED <<icons, cup, buttons, focus, toggle, battleVars>>

Next ==
  \/ BuildMenu
  \/ \E where \in {"arrow", "away"} : LeaveCups(where)
  \/ TurnPage
  \/ \E c \in Cups : SelectCup(c)
  \/ OtherEvent
  \/ SwapBattle
  \/ ToggleOnline
  \/ \E p \in AnyPage : ReceivePage(p)

Spec == Init /\ [][Next]_vars

-----------------------------------------------------------------------------
(* Properties. *)

\* What you see is what you load: while the cursor is on a cup or its courses,
\* the tracks the course buttons show are the ones trackNamesMod loads, whatever
\* cups and pages, local or received, came before (course.cpp:102, :258-287,
\* online.cpp:40-67).
ShownIsLoaded ==
  focus = "cups" => \A i \in Tracks : mod[<<cup, i>>] = buttons

\* Turning a page shows each cup with its icon on the new page, or its own: no
\* icon of the page before stays (course.cpp:110-146).
IconsFollowTurns ==
  [][TurnPage => \A c \in PagedCups : icons'[c] = Offered(page', c)]_vars

\* The battle page shows the custom courses exactly when it loads them, for as
\* long as its buttons point at its own panes.  They stop to only where they are
\* put back from the backup of an earlier page, which is made once and never again
\* (course.cpp:191-196, :217); no backup is put back that was never made.
BattleShownIsLoaded ==
  /\ battlePanes => (battleShown <=> battleMod)
  /\ ~battlePanes => backup = "earlier"
  /\ customBattle => backup # "none"
=============================================================================
