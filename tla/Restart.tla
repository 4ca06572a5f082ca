------------------------------- MODULE Restart -------------------------------
(***************************************************************************)
(* The mod across titles (source/entry.cpp, LoadWiiUSymbols, MainThread):  *)
(* it stays in memory when the console changes from one title to the next, *)
(* which may happen at any time, and __entry runs again at the start of    *)
(* each.  Hooks go with the title whose code they are in; the mod's own    *)
(* variables stay, with pointers into a heap that is gone.                 *)
(*                                                                         *)
(* A pointer or table is abstracted to the start (1, 2, ...) in which it   *)
(* was set, 0 for NULL.  Which title comes next is up to the user and the  *)
(* console, and so is the result of the IOSU stage; when the game comes to *)
(* a page, a race or a network is up to the game.                          *)
(***************************************************************************)
EXTENDS Integers, Sequences

CONSTANTS
  Titles,   \* title identifiers
  Symbols,  \* the library functions looked up
  Starts    \* bound: titles started

MK8Titles == {"MK8_J", "MK8_U", "MK8_E"}

ASSUME TitlesAssumption ==
  ~(Titles \subseteq MK8Titles) /\ Starts \in Nat \ {0}

VARIABLES
  title,     \* the one that runs
  starts,    \* titles started so far
  alreadyDoneIOSKernelExploit,
  lacking,   \* the functions this title's libraries do not have
  symbols,   \* when each function pointer was set
  statics,   \* when each variable of the mod was set
  inCode,    \* the groups of hooks in this title's code
  phase,     \* where __entry is; "main": MainThread runs
  mainStep   \* what MainThread does next

restartVars == <<title, starts, alreadyDoneIOSKernelExploit, lacking, symbols, statics,
                 inCode, phase, mainStep>>

Statics == {"pFuncList", "fsClient", "redirection", "GlobalPatchInstance", "messages",
            "customBattleTracks", "CUP0Instance", "CoursePatchInstance", "errorArg",
            "leftTextureInfo", "rightTextureInfo", "cupIconsBflimData",
            "currentNetworkData", "onlineCtgpToggleBtn", "backupPageBattle",
            "raceViewMainControl"}

\* What the functions of a group of hooks read, and MainThread in its loop.
Reads(reader) ==
  CASE reader = "files"    -> {"pFuncList", "redirection", "CUP0Instance", "errorArg"}
    [] reader = "dispatch" -> {"GlobalPatchInstance"}
    [] reader = "texts"    -> {"messages"}
    [] reader = "courses"  -> {"GlobalPatchInstance", "CoursePatchInstance", "CUP0Instance",
                               "customBattleTracks", "backupPageBattle", "fsClient",
                               "leftTextureInfo", "rightTextureInfo", "cupIconsBflimData"}
    [] reader = "online"   -> {"GlobalPatchInstance", "CoursePatchInstance", "CUP0Instance",
                               "onlineCtgpToggleBtn", "currentNetworkData"}
    [] reader = "race"     -> {}
    [] reader = "loop"     -> {"GlobalPatchInstance", "messages", "errorArg",
                               "raceViewMainControl"}

NoHooks == [new |-> {}, once |-> {}, hooks |-> {}]
New(s) == [NoHooks EXCEPT !.new = {s}]
Once(s) == [NoHooks EXCEPT !.once = {s}]
Hooking(group) == [NoHooks EXCEPT !.hooks = {group}]

\* Mutation: the table of texts is cleared only if it never was.
MainStepsUncleared ==
  <<New("pFuncList"), New("redirection"), Once("fsClient"), Hooking("files"),
    Hooking("dispatch"), New("GlobalPatchInstance"), Once("messages"), Hooking("texts"),
    Once("customBattleTracks"), New("CUP0Instance"), Hooking("courses"),
    New("CoursePatchInstance"), Hooking("online"), Hooking("race")>>

\* What MainThread sets, or sets only if it is NULL, and the hooks it installs.  What is
\* appended to customBattleTracks in a later start is never looked at.
MainSteps ==
  <<New("pFuncList"), New("redirection"), Once("fsClient"), Hooking("files"),
    Hooking("dispatch"), New("GlobalPatchInstance"), New("messages"), Hooking("texts"),
    Once("customBattleTracks"), New("CUP0Instance"), Hooking("courses"),
    New("CoursePatchInstance"), Hooking("online"), Hooking("race")>>

InLoop == phase = "main" /\ mainStep = Len(MainSteps) + 1

RestartTypeOK ==
  /\ title \in Titles /\ starts \in 1..Starts
  /\ alreadyDoneIOSKernelExploit \in BOOLEAN
  /\ lacking \subseteq Symbols
  /\ symbols \in [Symbols -> 0..starts]
  /\ statics \in [Statics -> 0..starts]
  /\ inCode \subseteq {"files", "dispatch", "texts", "courses", "online", "race"}
  /\ phase \in {"symbols", "entry", "returned", "fatal", "main"}
  /\ mainStep \in 1..(Len(MainSteps) + 1)

RestartInit ==
  /\ title = (CHOOSE t \in Titles : t \notin MK8Titles)
  /\ starts = 1
  /\ alreadyDoneIOSKernelExploit = FALSE
  /\ lacking = {}
  /\ symbols = [s \in Symbols |-> 0]
  /\ statics = [s \in Statics |-> 0]
  /\ inCode = {}
  /\ phase = "symbols" /\ mainStep = 1

-----------------------------------------------------------------------------

\* The console leaves a title, in the middle of whatever the mod does there.
Boot(t, without) ==
  /\ starts < Starts /\ phase # "fatal"
  /\ starts' = starts + 1
  /\ title' = t /\ lacking' = without
  /\ inCode' = {}
  /\ phase' = "symbols" /\ mainStep' = 1
  /\ UNCHANGED <<alreadyDoneIOSKernelExploit, symbols, statics>>

\* A function that is not found leaves its pointer as it was; OSFatal if that is NULL.
LoadWiiUSymbols ==
  /\ phase = "symbols"
  /\ symbols' = [s \in Symbols |-> IF s \in lacking THEN symbols[s] ELSE starts]
  /\ phase' = IF \E s \in Symbols : symbols'[s] = 0 THEN "fatal" ELSE "entry"
  /\ UNCHANGED <<title, starts, alreadyDoneIOSKernelExploit, lacking, statics, inCode,
                 mainStep>>

Resident == alreadyDoneIOSKernelExploit /\ title \notin MK8Titles

\* A title other than MK8 is let through once the IOSU stage was confirmed.
ReturnToNextApp ==
  /\ phase = "entry" /\ Resident
  /\ phase' = "returned"
  /\ UNCHANGED <<title, starts, alreadyDoneIOSKernelExploit, lacking, symbols, statics,
                 inCode, mainStep>>

\* Otherwise it launches MK8, or the menu; that it is confirmed now may fail too.
LaunchTitles ==
  /\ phase = "entry" /\ title \notin MK8Titles /\ ~Resident
  /\ alreadyDoneIOSKernelExploit' \in {TRUE, alreadyDoneIOSKernelExploit}
  /\ phase' = "returned"
  /\ UNCHANGED <<title, starts, lacking, symbols, statics, inCode, mainStep>>

CreateThread ==
  /\ phase = "entry" /\ title \in MK8Titles
  /\ alreadyDoneIOSKernelExploit' \in {TRUE, alreadyDoneIOSKernelExploit}
  /\ phase' = "main"
  /\ UNCHANGED <<title, starts, lacking, symbols, statics, inCode, mainStep>>

SetNow(new, once) ==
  statics' = [s \in Statics |-> IF s \in new \/ (s \in once /\ statics[s] = 0) THEN starts
                                ELSE statics[s]]

MainThread ==
  /\ phase = "main" /\ ~InLoop
  /\ LET now == MainSteps[mainStep]
     IN SetNow(now.new, now.once) /\ inCode' = inCode \cup now.hooks
  /\ mainStep' = mainStep + 1
  /\ UNCHANGED <<title, starts, alreadyDoneIOSKernelExploit, lacking, symbols, phase>>

\* What a hook sets itself when the game comes to it.
HookSets(group, new, once) ==
  /\ group \in inCode
  /\ SetNow(new, once)
  /\ UNCHANGED <<title, starts, alreadyDoneIOSKernelExploit, lacking, symbols, inCode,
                 phase, mainStep>>

\* FatalError, of FSOpenFile or GetArchiveFile: the first error is kept.
ReportError == HookSets("files", {}, {"errorArg"})

\* Page_Course::LoadPanes of page 43, and the icons the game fetches and loads.
BuildCoursePage == HookSets("courses", {"leftTextureInfo", "rightTextureInfo"}, {})
FetchIcon == HookSets("courses", {"cupIconsBflimData"}, {})

\* handle_battle_swap, NetworkData_Menu::init, Page_WifiTop::onCreate and
\* Page_Race::bindWindowLayout_.
SwapBattleCourses == HookSets("courses", {}, {"backupPageBattle"})
StartNetwork == HookSets("online", {"currentNetworkData"}, {})
BuildWifiTop == HookSets("online", {}, {"onlineCtgpToggleBtn"})
BuildRaceView == HookSets("race", {"raceViewMainControl"}, {})

GameComes ==
  \/ ReportError \/ BuildCoursePage \/ FetchIcon \/ SwapBattleCourses
  \/ StartNetwork \/ BuildWifiTop \/ BuildRaceView

RestartNext ==
  \/ \E t \in Titles, without \in SUBSET Symbols : Boot(t, without)
  \/ LoadWiiUSymbols
  \/ ReturnToNextApp \/ LaunchTitles \/ CreateThread
  \/ MainThread
  \/ GameComes

RestartSpec == RestartInit /\ [][RestartNext]_restartVars

-----------------------------------------------------------------------------

\* Set once and never again: what the first title that had them put there is used in
\* every later one, an error it reported included.
KeptFromFirst == {"fsClient", "customBattleTracks", "onlineCtgpToggleBtn",
                  "backupPageBattle", "errorArg"}

\* Set again when the game comes to the page, the icon, the network or the race in this
\* title, and not cleared before.
KeptUntilSet == {"leftTextureInfo", "rightTextureInfo", "cupIconsBflimData",
                 "currentNetworkData", "raceViewMainControl"}

\* MainThread sets the instances only after the hooks that use them are in the code.
SetAfterHooks == {"GlobalPatchInstance", "CUP0Instance", "CoursePatchInstance"}

Readers == inCode \cup (IF InLoop THEN {"loop"} ELSE {})

\* However often and in the middle of what the console changed titles, no hook looks at
\* the patches, files or texts of an earlier title, and once MainThread is in its loop
\* neither it nor a hook looks at an earlier title's instances.  What else outlives the
\* title it was set in is named above, each variable a pointer into a heap that is gone
\* (patcher.cpp:7-11, filesystem.cpp:243, message.cpp:22, main.cpp:36-44, :58-79).
HooksReadThisTitle ==
  \A reader \in Readers : \A s \in Reads(reader) :
    \/ statics[s] = starts
    \/ s \in KeptFromFirst \cup KeptUntilSet
    \/ s \in SetAfterHooks /\ ~InLoop
=============================================================================
