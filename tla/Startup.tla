------------------------------- MODULE Startup -------------------------------
(***************************************************************************)
(* MainThread (source/main.cpp) from the first hook to its endless loop,   *)
(* while the game's thread already runs into the hooks it installs: which  *)
(* instances a hook reads, when MainThread sets them, and who reports an   *)
(* error and when it is shown.                                             *)
(*                                                                         *)
(* Hooks come in groups, installed by one function of the mod; HookTable   *)
(* has their single steps.  A NULL instance stops the whole console        *)
(* program, MainThread included.                                           *)
(***************************************************************************)
EXTENDS CupArchive

CONSTANTS
  Game,    \* the game's thread
  Early    \* may the game reach its menus while MainThread is still at work?

ASSUME StartupAssumption ==
  /\ Threads = {Main, Game} /\ Main # Game /\ Early \in BOOLEAN
  /\ {"444-0000", "444-0001", "444-0002", "444-0100", Missing} \subseteq Codes

VARIABLES
  main,       \* what MainThread does next
  hooked,     \* the groups of hooks in the code
  instances,  \* the instance pointers that are set, besides CUP0Instance
  crashed     \* a NULL has been read, or OSFatal called

vars == <<loaderVars, errorVars, main, hooked, instances, crashed>>

\* What a group of hooked functions reads.  The files' hooks look at CUP0Instance
\* before they use it; the texts' hook needs nothing.
Groups == {"files", "dispatch", "texts", "courses", "online", "random"}
Needs(g) ==
  CASE g \in {"files", "texts"} -> {}
    [] g = "dispatch" -> {"GlobalPatch"}
    [] g = "courses"  -> {"GlobalPatch", "CoursePatch", "CUP0"}
    [] g = "online"   -> {"GlobalPatch", "CoursePatch", "CUP0"}
    [] g = "random"   -> {"OnlinePatch"}

Set == instances \cup (IF CUP0Instance THEN {"CUP0"} ELSE {})

TypeOK ==
  /\ ErrorTypeOK
  /\ LoaderTypeOK
  /\ main \in {"files", "dispatch", "GlobalPatch", "texts", "course", "load", "courses",
               "CoursePatch", "online", "wait", "loop", "viewer"}
  /\ hooked \subseteq Groups
  /\ instances \subseteq {"GlobalPatch", "CoursePatch", "OnlinePatch"}
  /\ crashed \in BOOLEAN

Init ==
  /\ ErrorInit
  /\ LoaderInit
  /\ main = "files"
  /\ hooked = {}
  /\ instances = {}
  /\ crashed = FALSE

-----------------------------------------------------------------------------
(* MainThread. *)

\* MainThread, not inside FatalError, goes on to its next piece of work.
Goto(from, to) == Idle(Main) /\ main = from /\ main' = to

\* InitializePatchFilesystem, the three hooks of GlobalPatch, InitializePatchMessage:
\* functions that install hooks and set nothing.
Hooks(from, groups, to) ==
  /\ Goto(from, to)
  /\ hooked' = hooked \cup groups
  /\ UNCHANGED <<loaderVars, errorVars, instances, crashed>>

\* InitializePatchFilesystem without an SD card it can find and mount: OSFatal.
NoSdCard ==
  /\ "sdcard" \in Faults /\ main = "files" /\ Idle(Main)
  /\ crashed' = TRUE
  /\ UNCHANGED <<loaderVars, errorVars, main, hooked, instances>>

\* GlobalPatchInstance = this, CoursePatchInstance = this.
SetInstance(from, to) ==
  /\ Goto(from, to)
  /\ instances' = instances \cup {from}
  /\ UNCHANGED <<loaderVars, errorVars, hooked, crashed>>

\* CoursePatch::Initialize before the archive: the pictures of the battle courses.
\* Whether they could be loaded is not looked at.
BattlePictures ==
  /\ Goto("course", "load")
  /\ \/ UNCHANGED <<errorVars, crashed>>
     \/ /\ "missing" \in Faults
        /\ FatalError(Main, Missing)
        /\ crashed' \in BOOLEAN
  /\ UNCHANGED <<loaderVars, hooked, instances>>

\* CUP0::createInstance; MainThread goes on however the loader returned.
Load ==
  /\ main = "load"
  /\ \/ Loading /\ UNCHANGED <<main, crashed>>
     \/ /\ at \in {"returned", "loaded"}
        /\ Goto("load", "courses")
        /\ UNCHANGED <<loaderVars, errorVars, crashed>>
     \/ /\ at = "null" /\ Idle(Main)
        /\ crashed' = TRUE
        /\ UNCHANGED <<loaderVars, errorVars, main>>
  /\ UNCHANGED <<hooked, instances>>

\* Mutation: the viewer waits until both texts are there and belong together.
LaunchViewerWhole ==
  /\ Goto("loop", "viewer")
  /\ errorArg.errorType = 1
  /\ errorArg.errorText # None /\ errorArg.titleText = errorArg.errorText
  /\ UNCHANGED <<loaderVars, errorVars, hooked, instances, crashed>>

\* The loop, 8 s later.
LaunchViewer ==
  /\ Goto("loop", "viewer")
  /\ errorArg.errorType = 1
  /\ UNCHANGED <<loaderVars, errorVars, hooked, instances, crashed>>

\* Mutation: CoursePatchInstance is not set, as OnlinePatchInstance is not.
InstallUnset ==
  \/ Hooks("files", {"files"}, "dispatch")
  \/ Hooks("dispatch", {"dispatch"}, "GlobalPatch")
  \/ SetInstance("GlobalPatch", "texts")
  \/ Hooks("texts", {"texts"}, "course")
  \/ Hooks("courses", {"courses"}, "CoursePatch")
  \/ Hooks("CoursePatch", {}, "online")
  \/ Hooks("online", {"online", "random"}, "wait")
  \/ Hooks("wait", {}, "loop")

\* The rest of MainThread, in its order.  The last hooks need no instance.
Install ==
  \/ Hooks("files", {"files"}, "dispatch")
  \/ Hooks("dispatch", {"dispatch"}, "GlobalPatch")
  \/ SetInstance("GlobalPatch", "texts")
  \/ Hooks("texts", {"texts"}, "course")
  \/ Hooks("courses", {"courses"}, "CoursePatch")
  \/ SetInstance("CoursePatch", "online")
  \/ Hooks("online", {"online", "random"}, "wait")
  \/ Hooks("wait", {}, "loop")

MainStep ==
  /\ ~crashed
  /\ NoSdCard \/ Install \/ BattlePictures \/ Load \/ LaunchViewer

-----------------------------------------------------------------------------
(* The game. *)

\* The game opens a file: the hook may report a missing file or a full table.
GameOpens ==
  /\ ~crashed /\ Idle(Game) /\ "files" \in hooked
  /\ \E code \in {Missing, "444-0100"} : FatalError(Game, code)
  /\ UNCHANGED <<loaderVars, main, hooked, instances, crashed>>

\* The game runs into a hook whose instance is not set.
GameCrashes(g) ==
  /\ ~crashed /\ Idle(Game) /\ (Early \/ main \in {"loop", "viewer"})
  /\ g \in hooked /\ ~(Needs(g) \subseteq Set)
  /\ crashed' = TRUE
  /\ UNCHANGED <<loaderVars, errorVars, main, hooked, instances>>

Report(t) ==
  /\ ~crashed /\ Reporting(t)
  /\ UNCHANGED <<loaderVars, main, hooked, instances, crashed>>

Next ==
  \/ MainStep
  \/ GameOpens
  \/ \E g \in Groups : GameCrashes(g)
  \/ \E t \in Threads : Report(t)

\* Both threads keep running; the game need not open files.
Fairness == WF_vars(MainStep) /\ \A t \in Threads : WF_vars(Report(t))

Spec == Init /\ [][Next]_vars
FairSpec == Spec /\ Fairness

-----------------------------------------------------------------------------
(* Properties. *)

\* Once MainThread is in its loop and nothing was reported, no hooked function
\* reads a pointer that is not set, but for getRandomOnlineTracks, whose instance
\* nothing sets (global_patch.cpp:51, cup0.cpp:79, course.cpp:607, online.cpp:204).
LoopFindsInstances ==
  main = "loop" /\ errorArg.errorType = 0 =>
    \A g \in hooked \ {"random"} : Needs(g) \subseteq Set

\* A reported error comes to the screen, whichever threads report which errors at
\* once, unless the program crashes before (main.cpp:4-11, :58-63).
ErrorIsShown == errorArg.errorType = 1 ~> (main = "viewer" \/ crashed)

\* "Error, one of the file is missing, please check your installation"
\* (filesystem.cpp:86): who started without a file is told so.
MissingIsShown == errorArg.errorType = 1 ~> main = "viewer"
=============================================================================
