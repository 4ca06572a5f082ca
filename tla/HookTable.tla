------------------------------ MODULE HookTable ------------------------------
(***************************************************************************)
(* The function hooks of source/wiiu/patcher.cpp, installed by MainThread  *)
(* (source/main.cpp) and taken out and put back by the ProcUI hook of      *)
(* source/patch/filesystem.cpp when the HOME menu comes and goes.          *)
(*                                                                         *)
(* A hooked function is a site.  Its first instruction is replaced by a    *)
(* branch to the hook; the table remembers the instructions of the site,   *)
(* and a trampoline runs the original first instruction and jumps behind   *)
(* it, so that the hook can call the real function.                        *)
(*                                                                         *)
(* Sites are numbered in the order MainThread hooks them: first FsCount    *)
(* file system functions, then ProcUIProcessMessages, then the game's.     *)
(* A word of code is abstracted to what it is: the site's own instruction  *)
(* or the branch to a site's hook.  removePatch restores ten words of which*)
(* only the first ever differs: no two hooked functions of the source are  *)
(* within 40 bytes of each other.                                          *)
(*                                                                         *)
(* All threads write code through one static buffer, memcpy_buffer, and    *)
(* nothing locks the table or the buffer.                                  *)
(***************************************************************************)
EXTENDS Integers, FiniteSets

CONSTANTS
  SiteCount,        \* functions hooked (34 in the source)
  FsCount,          \* of them, functions of the file system (5)
  SlotCount,        \* entries of pFuncList and of hookJumps (64)
  HomeDuringSetup   \* may the user press HOME before MainThread is done?

ASSUME ConstantsAssumption ==
  /\ FsCount \in Nat \ {0}
  /\ SiteCount \in Nat /\ FsCount < SiteCount
  /\ SlotCount \in Nat /\ FsCount < SlotCount
  /\ HomeDuringSetup \in BOOLEAN

VARIABLES
  code,      \* the first instruction of each site
  funcs,     \* pFuncList
  jumps,     \* hookJumps
  real,      \* the hooks' real function pointers: a trampoline, or none
  buffer,    \* memcpy_buffer
  listed,    \* the sites with an entry in listFuncPatch
  patched,   \* iAreWePatched
  pc         \* where each thread is inside hookFunction or removePatch

vars == <<code, funcs, jumps, real, buffer, listed, patched, pc>>

Sites == 1..SiteCount
FsSites == 1..FsCount
ProcUi == FsCount + 1
Slots == 1..SlotCount
NoSlot == 0

Main == "main"                    \* MainThread
Game == "game"                    \* the thread that calls ProcUIProcessMessages
Threads == {Main, Game}

Own(s) == [hook |-> FALSE, site |-> s]
Branch(s) == [hook |-> TRUE, site |-> s]
Nothing == Own(0)                 \* a zero word

\* No site: a NULL entry of pFuncList, a zeroed trampoline of hookJumps.
Null == [site |-> 0, word |-> Nothing]

Word == [hook : BOOLEAN, site : Sites \cup {0}]
Entry == [site : Sites \cup {0}, word : Word]
Place == [task : {"idle", "install", "remove"},
          at : {"find", "fill", "copy", "write", "publish", "clear"},
          site : Sites, slot : Slots \cup {NoSlot}]

TypeOK ==
  /\ code \in [Sites -> Word]
  /\ funcs \in [Slots -> Entry]
  /\ jumps \in [Slots -> Entry]
  /\ real \in [Sites -> Slots \cup {NoSlot}]
  /\ buffer \in Word
  /\ listed \subseteq FsSites
  /\ patched \in BOOLEAN
  /\ pc \in [Threads -> Place]

Idle == [task |-> "idle", at |-> "find", site |-> 1, slot |-> NoSlot]
Begin(task) == [task |-> task, at |-> "find", site |-> 1, slot |-> NoSlot]

Init ==
  /\ code = [s \in Sites |-> Own(s)]
  /\ funcs = [k \in Slots |-> Null]
  /\ jumps = [k \in Slots |-> Null]
  /\ real = [s \in Sites |-> NoSlot]
  /\ buffer = Nothing
  /\ listed = {}
  /\ patched = FALSE
  /\ pc = [t \in Threads |-> IF t = Main THEN Begin("install") ELSE Idle]

-----------------------------------------------------------------------------
First(S) == CHOOSE i \in S : \A j \in S : i <= j

\* Mutation: the entry taken is not compared with NULL.
FreeSlotsAny == Slots

FreeSlots == {k \in Slots : funcs[k] = Null}
SlotsOf(s) == {k \in Slots : funcs[k].site = s}

At(t, task, at) == pc[t].task = task /\ pc[t].at = at

\* Mutation: MainThread's list runs one past its end.
LastSitePastEnd(t) == IF t = Main THEN SiteCount + 1 ELSE FsCount

\* The last site of a thread's list: MainThread hooks everything, the ProcUI
\* hook only the file system.
LastSite(t) == IF t = Main THEN SiteCount ELSE FsCount

Goto(t, at) == pc' = [pc EXCEPT ![t].at = at]

\* On to the next site of the list.  iAreWePatched is set behind the last
\* function of the file system.
NextSite(t) ==
  /\ pc' = [pc EXCEPT ![t] =
              IF pc[t].site = LastSite(t) THEN Idle
              ELSE [Begin(pc[t].task) EXCEPT !.site = pc[t].site + 1]]
  /\ patched' = IF pc[t].site = FsCount THEN pc[t].task = "install" ELSE patched

-----------------------------------------------------------------------------
(* hookFunction.                                                            *)

\* A full table: hookFunction returns NULL.
InstallFull(t) ==
  /\ At(t, "install", "find")
  /\ FreeSlots = {}
  /\ listed' = listed \ {pc[t].site}
  /\ NextSite(t)
  /\ UNCHANGED <<code, funcs, jumps, real, buffer>>

InstallFind(t) ==
  /\ At(t, "install", "find")
  /\ FreeSlots # {}
  /\ pc' = [pc EXCEPT ![t].at = "fill", ![t].slot = First(FreeSlots)]
  /\ UNCHANGED <<code, funcs, jumps, real, buffer, listed, patched>>

\* Mutation: the trampoline is built when the branch is already in the code.
InstallFillLate(t) ==
  LET s == pc[t].site
      k == pc[t].slot
  IN /\ At(t, "install", "fill")
     /\ funcs' = [funcs EXCEPT ![k] = [site |-> s, word |-> code[s]]]
     /\ jumps' = [jumps EXCEPT ![k] = [site |-> s, word |-> Branch(s)]]
     /\ Goto(t, "copy")
     /\ UNCHANGED <<code, real, buffer, listed, patched>>

\* The entry and its trampoline; both keep the instruction found at the site.
InstallFill(t) ==
  LET s == pc[t].site
      k == pc[t].slot
  IN /\ At(t, "install", "fill")
     /\ funcs' = [funcs EXCEPT ![k] = [site |-> s, word |-> code[s]]]
     /\ jumps' = [jumps EXCEPT ![k] = [site |-> s, word |-> code[s]]]
     /\ Goto(t, "copy")
     /\ UNCHANGED <<code, real, buffer, listed, patched>>

InstallCopy(t) ==
  /\ At(t, "install", "copy")
  /\ buffer' = Branch(pc[t].site)
  /\ Goto(t, "write")
  /\ UNCHANGED <<code, funcs, jumps, real, listed, patched>>

InstallWrite(t) ==
  /\ At(t, "install", "write")
  /\ code' = [code EXCEPT ![pc[t].site] = buffer]
  /\ Goto(t, "publish")
  /\ UNCHANGED <<funcs, jumps, real, buffer, listed, patched>>

\* *fptr, and the caller's listFuncPatch.
InstallPublish(t) ==
  LET s == pc[t].site
  IN /\ At(t, "install", "publish")
     /\ real' = [real EXCEPT ![s] = pc[t].slot]
     /\ listed' = IF s \in FsSites THEN listed \cup {s} ELSE listed
     /\ NextSite(t)
     /\ UNCHANGED <<code, funcs, jumps, buffer>>

-----------------------------------------------------------------------------
(* removePatch, for each entry of listFuncPatch.                            *)

\* No such entry in listFuncPatch, or removePatch does not find it.
RemoveNothing(t) ==
  LET s == pc[t].site
  IN /\ At(t, "remove", "find")
     /\ s \notin listed \/ SlotsOf(s) = {}
     /\ listed' = listed \ {s}
     /\ NextSite(t)
     /\ UNCHANGED <<code, funcs, jumps, real, buffer>>

RemoveFind(t) ==
  LET s == pc[t].site
  IN /\ At(t, "remove", "find")
     /\ s \in listed /\ SlotsOf(s) # {}
     /\ pc' = [pc EXCEPT ![t].at = "copy", ![t].slot = First(SlotsOf(s))]
     /\ UNCHANGED <<code, funcs, jumps, real, buffer, listed, patched>>

RemoveCopy(t) ==
  /\ At(t, "remove", "copy")
  /\ buffer' = funcs[pc[t].slot].word
  /\ Goto(t, "write")
  /\ UNCHANGED <<code, funcs, jumps, real, listed, patched>>

RemoveWrite(t) ==
  /\ At(t, "remove", "write")
  /\ code' = [code EXCEPT ![pc[t].site] = buffer]
  /\ Goto(t, "clear")
  /\ UNCHANGED <<funcs, jumps, real, buffer, listed, patched>>

\* Mutation: removePatch leaves its entry in pFuncList.
RemoveClearLeaks(t) ==
  /\ At(t, "remove", "clear")
  /\ listed' = listed \ {pc[t].site}
  /\ NextSite(t)
  /\ UNCHANGED <<code, funcs, jumps, real, buffer>>

RemoveClear(t) ==
  /\ At(t, "remove", "clear")
  /\ funcs' = [funcs EXCEPT ![pc[t].slot] = Null]
  /\ listed' = listed \ {pc[t].site}
  /\ NextSite(t)
  /\ UNCHANGED <<code, jumps, real, buffer>>

-----------------------------------------------------------------------------
(* The ProcUI hook, once it is in the code and can call the real function.  *)

ProcUiHooked ==
  /\ code[ProcUi] = Branch(ProcUi)
  /\ real[ProcUi] # NoSlot
  /\ HomeDuringSetup \/ pc[Main].task = "idle"

\* Mutation: the first function is left hooked.
ReleaseForegroundFromSecond ==
  /\ ProcUiHooked
  /\ pc[Game].task = "idle"
  /\ pc' = [pc EXCEPT ![Game] = [Begin("remove") EXCEPT !.site = 2]]
  /\ UNCHANGED <<code, funcs, jumps, real, buffer, listed, patched>>

\* PROCUI_STATUS_RELEASE_FOREGROUND or PROCUI_STATUS_EXITING.
ReleaseForeground ==
  /\ ProcUiHooked
  /\ pc[Game].task = "idle"
  /\ pc' = [pc EXCEPT ![Game] = Begin("remove")]
  /\ UNCHANGED <<code, funcs, jumps, real, buffer, listed, patched>>

\* Mutation: the first function is forgotten.
EnterForegroundFromSecond ==
  /\ ProcUiHooked
  /\ pc[Game].task = "idle"
  /\ ~patched
  /\ pc' = [pc EXCEPT ![Game] = [Begin("install") EXCEPT !.site = 2]]
  /\ UNCHANGED <<code, funcs, jumps, real, buffer, listed, patched>>

\* PROCUI_STATUS_IN_FOREGROUND.
EnterForeground ==
  /\ ProcUiHooked
  /\ pc[Game].task = "idle"
  /\ ~patched
  /\ pc' = [pc EXCEPT ![Game] = Begin("install")]
  /\ UNCHANGED <<code, funcs, jumps, real, buffer, listed, patched>>

Install(t) ==
  \/ InstallFull(t) \/ InstallFind(t) \/ InstallFill(t)
  \/ InstallCopy(t) \/ InstallWrite(t) \/ InstallPublish(t)

Remove(t) ==
  \/ RemoveNothing(t) \/ RemoveFind(t)
  \/ RemoveCopy(t) \/ RemoveWrite(t) \/ RemoveClear(t)

Next ==
  \/ \E t \in Threads : Install(t) \/ Remove(t)
  \/ ReleaseForeground
  \/ EnterForeground

Spec == Init /\ [][Next]_vars

\* Threads that are inside the patcher finish: it takes no lock and its loops
\* are bounded.  Nothing makes the user press HOME or come back.
FairSpec == Spec /\ \A t \in Threads : WF_vars(Install(t) \/ Remove(t))

-----------------------------------------------------------------------------
(* Properties. *)

Runs(s) == IF code[s] = Own(s) THEN "original"
           ELSE IF code[s] = Branch(s) THEN "hook" ELSE "garbage"

\* What the trampoline runs: its instruction, then the site behind its first.
Trampoline(s) == [site |-> s, word |-> Own(s)]

Reaches(s) == IF real[s] = NoSlot THEN "nothing"
              ELSE IF jumps[real[s]] = Trampoline(s) THEN "original" ELSE "garbage"

Contract == INSTANCE HookContract
  WITH runs <- [s \in Sites |-> Runs(s)], reaches <- [s \in Sites |-> Reaches(s)]

\* The patcher keeps the promises of patcher.h: through any number of trips to
\* the HOME menu a call runs the function or its hook, one function changes at a
\* time, and a real pointer, even one a hook took before the patches went out,
\* reaches its own function although slots and trampolines are reused
\* (patcher.cpp:89-131, filesystem.cpp:217-239).
KeepsContract == Contract!Spec

\* With no thread inside the patcher, exactly the hooked sites have an entry,
\* one each, that would restore them: no trip to the HOME menu leaks a slot or
\* saves a branch as an original instruction (patcher.cpp:95-101, :127-130).
EntriesMatchHooks ==
  (\A t \in Threads : pc[t].task = "idle") =>
    \A s \in Sites :
      /\ code[s] = Branch(s) => \E k \in Slots : SlotsOf(s) = {k} /\ funcs[k].word = Own(s)
      /\ code[s] = Own(s) => SlotsOf(s) = {}

\* Coming back to the foreground puts every file system hook back in
\* (filesystem.cpp:229-236).
RehookCompletes ==
  At(Game, "install", "find") ~>
    pc[Game].task = "idle" /\ \A s \in FsSites : code[s] = Branch(s)

\* Going to the background, or coming back, is never left half done: whoever does it leaves
\* the patcher only when the branches of all functions of the file system are out, or in,
\* whatever was removed and hooked again before (filesystem.cpp:217-239).
AllOrNone ==
  [][pc[Game].task # "idle" /\ pc'[Game].task # pc[Game].task =>
       /\ pc'[Game].task = "idle"
       /\ \A s \in FsSites :
            code'[s] = IF pc[Game].task = "install" THEN Branch(s) ELSE Own(s)]_vars

\* "Hooks a function by writing a branch, while the real function can still be
\* called" (patcher.h:83-84): a function that is hooked has its real pointer.
HookedCanCallReal ==
  \A s \in Sites : code[s] = Branch(s) => real[s] # NoSlot

\* "fptr: Out pointer for the (real) unpatched function" (patcher.h:89): a real
\* pointer, once set, never runs anything but its own function, even while the
\* hook is out and its slot is free (patcher.cpp:95, :104-112).
RealReachesOriginal == \A s \in Sites : Reaches(s) # "garbage"
=============================================================================
