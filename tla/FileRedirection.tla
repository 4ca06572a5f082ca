--------------------------- MODULE FileRedirection ---------------------------
(***************************************************************************)
(* The file redirection of source/patch/filesystem.cpp.                    *)
(*                                                                         *)
(* The game's FSOpenFile, FSReadFile, FSReadFileWithPos and FSSetPosFile   *)
(* are hooked.  A file the mod replaces is opened on the SD card instead   *)
(* of on the disc; it is stored there RC4-encrypted, so the hook remembers *)
(* its handle, and the offset of its next byte, in a table of SlotCount    *)
(* entries, and decrypts what it reads with the key stream at that offset. *)
(* FSCloseFile is not hooked: nothing ever leaves the table.               *)
(*                                                                         *)
(* The real file system (handles, positions) is external: it is modelled   *)
(* by what the hooks use of it.  What the SD card does to the mod (reuse   *)
(* of a handle, failing reads) and what the console does (a switch to the  *)
(* background takes the hooks out) is turned on and off by constants, so   *)
(* that a run says which of them a property needs to be absent.            *)
(*                                                                         *)
(* A byte is abstracted to whether, and from which offset, the key stream  *)
(* was applied to it: what a read delivered is plain iff encrypted bytes   *)
(* read at position n met the key stream at n, and ordinary bytes met none *)
(***************************************************************************)
EXTENDS Integers, FiniteSets

CONSTANTS
  Threads,     \* game threads (and the mod's own) that call the file system
  Handles,     \* what the file system may hand out
  Paths,       \* file names
  Lookup,      \* Lookup[p]: the names FSOpenFile may look up for p: p, or p
               \* with a track name replaced by trackNamesMod
  Allowed,     \* the names whose hash is in fileHashes
  OnSd,        \* the names with a .dat file on the SD card
  OnDisc,      \* the names the game's own disc has
  SlotCount,   \* entries of the table (256 in the source)
  FileSize,    \* bound: bytes of every file
  Reuse,       \* may the file system hand out a closed handle again?
  ErrorCodes,  \* negative results a read may return; {}: no I/O errors
  Offsets,     \* bound: errors and reads outside the hooks stop driving an
               \* entry's offset away from the file's position here
  Background   \* may the user switch to the HOME menu?

ASSUME ConstantsAssumption ==
  /\ Handles \subseteq Nat \ {0}
  /\ Lookup \in [Paths -> SUBSET Paths]
  /\ SlotCount \in Nat \ {0}
  /\ FileSize \in Nat
  /\ Reuse \in BOOLEAN
  /\ ErrorCodes \subseteq {e \in Int : e < 0}
  /\ Offsets \subseteq Int
  /\ Background \in BOOLEAN

VARIABLES
  hooks,    \* FileRedirections::hooks
  files,    \* the file system's open files, by handle
  used,     \* the handles it has handed out so far
  pc,       \* where each thread is inside FSOpenFile
  patched,  \* iAreWePatched: are the FS hooks in the code?
  fatal,    \* errorArg: the first FatalError reported
  served,   \* what the last read put in the caller's buffer
  stale     \* history: the handles of redirected files that were closed; the
            \* entries made for them stay in the table

vars == <<hooks, files, used, pc, patched, fatal, served, stale>>

Slots == 1..SlotCount
NoSlot == 0
NoError == "none"
TooManyFiles == "444-0100"
FileMissing == "444-0103"

\* given: FSOpenFile has returned this handle to its caller.
Closed == [open |-> FALSE, sd |-> FALSE, pos |-> 0, given |-> FALSE]
Opened(sd, given) == [open |-> TRUE, sd |-> sd, pos |-> 0, given |-> given]
Idle == [at |-> "idle", handle |-> 0, slot |-> NoSlot]

Entry == [active : BOOLEAN, handle : Nat, offset : Int]
File == [open : BOOLEAN, sd : BOOLEAN, pos : 0..FileSize, given : BOOLEAN]
Call == [at : {"idle", "find", "store"}, handle : Handles \cup {0},
         slot : Slots \cup {NoSlot}]
Service == [op : {"none", "read", "readpos"}, handle : Handles \cup {0},
            sd : BOOLEAN, from : 0..FileSize, len : 0..FileSize,
            decrypted : BOOLEAN, key : Int]

TypeOK ==
  /\ hooks \in [Slots -> Entry]
  /\ files \in [Handles -> File]
  /\ used \subseteq Handles
  /\ pc \in [Threads -> Call]
  /\ patched \in BOOLEAN
  /\ fatal \in {NoError, TooManyFiles, FileMissing}
  /\ served \in Service
  /\ stale \subseteq Handles

Unused == [active |-> FALSE, handle |-> 0, offset |-> 0]

Init ==
  /\ hooks = [i \in Slots |-> Unused]
  /\ files = [h \in Handles |-> Closed]
  /\ used = {}
  /\ pc = [t \in Threads |-> Idle]
  /\ patched = TRUE
  /\ fatal = NoError
  /\ served = [op |-> "none", handle |-> 0, sd |-> FALSE, from |-> 0,
               len |-> 0, decrypted |-> FALSE, key |-> 0]
  /\ stale = {}

-----------------------------------------------------------------------------
(* The table. *)

First(S) == CHOOSE i \in S : \A j \in S : i <= j

\* Mutation: the search for a free entry runs one past the end.
FreeSlotsPastEnd == {i \in 1..SlotCount+1 : i > SlotCount \/ ~hooks[i].active}

\* Mutation: Add takes the first entry without testing active.
FreeSlotsUntested == Slots

FreeSlots == {i \in Slots : ~hooks[i].active}

Matching(h) == {i \in Slots : hooks[i].active /\ hooks[i].handle = h}

\* Mutation: Find forgets to compare the handle.
FindAnyActive(h) == IF FreeSlots = Slots THEN NoSlot ELSE First(Slots \ FreeSlots)

\* FileRedirections::Find: the first active entry with this handle.
Find(h) == IF Matching(h) = {} THEN NoSlot ELSE First(Matching(h))

\* FatalError keeps the first error only.
FatalError(code) == fatal' = IF fatal = NoError THEN code ELSE fatal

-----------------------------------------------------------------------------
(* The real file system. *)

Available == IF Reuse THEN {h \in Handles : ~files[h].open} ELSE Handles \ used

Given(h) == files[h].open /\ files[h].given

\* Bytes a read of n bytes at position at delivers.
Delivered(n, at) == IF n <= FileSize - at THEN n ELSE FileSize - at

IoErrors == ErrorCodes # {}

\* real_FSOpenFile of the path the game asked for; opens and taken are what
\* the same call has opened already.
RealOpen(p, opens, taken) ==
  IF p \in OnDisc
  THEN \E h \in Available \ taken :
         /\ files' = [opens EXCEPT ![h] = Opened(FALSE, TRUE)]
         /\ used' = used \cup taken \cup {h}
  ELSE /\ files' = opens
       /\ used' = used \cup taken

-----------------------------------------------------------------------------
(* FSOpenFile.  The open on the SD card, the search for a free slot and the *)
(* store into it are steps of their own: fs_mutex is never locked.          *)

OpenListed(t, q) ==
  /\ q \in Allowed \cap OnSd
  /\ \E h \in Available :
       /\ files' = [files EXCEPT ![h] = Opened(TRUE, FALSE)]
       /\ used' = used \cup {h}
       /\ pc' = [pc EXCEPT ![t] = [at |-> "find", handle |-> h, slot |-> NoSlot]]
  /\ UNCHANGED fatal

\* The SD card has the file but the mod does not list it: hashFd stays open
\* for good, and the game gets its own file.
OpenUnlisted(p, q) ==
  /\ q \in OnSd \ Allowed
  /\ \E leak \in Available :
       RealOpen(p, [files EXCEPT ![leak] = Opened(TRUE, FALSE)], {leak})
  /\ UNCHANGED <<pc, fatal>>

OpenAbsent(p, q) ==
  /\ q \notin OnSd \/ IoErrors
  /\ IF q \in Allowed THEN FatalError(FileMissing) ELSE UNCHANGED fatal
  /\ RealOpen(p, files, {})
  /\ UNCHANGED pc

FSOpenFile(t) ==
  /\ patched
  /\ pc[t].at = "idle"
  /\ \E p \in Paths : \E q \in Lookup[p] :
       \/ OpenListed(t, q)
       \/ OpenUnlisted(p, q)
       \/ OpenAbsent(p, q)
  /\ UNCHANGED <<hooks, patched, served, stale>>

\* FileRedirections::Add, first half.  FSOpenFile ignores the NULL of a full
\* table and returns the handle all the same.
AddFind(t) ==
  /\ pc[t].at = "find"
  /\ IF FreeSlots = {}
     THEN /\ FatalError(TooManyFiles)
          /\ pc' = [pc EXCEPT ![t] = Idle]
          /\ files' = [files EXCEPT ![pc[t].handle].given = TRUE]
     ELSE /\ pc' = [pc EXCEPT ![t].at = "store", ![t].slot = First(FreeSlots)]
          /\ UNCHANGED <<files, fatal>>
  /\ UNCHANGED <<hooks, used, patched, served, stale>>

\* FileRedirections::Add, second half.
AddStore(t) ==
  /\ pc[t].at = "store"
  /\ hooks' = [hooks EXCEPT ![pc[t].slot] =
                 [active |-> TRUE, handle |-> pc[t].handle, offset |-> 0]]
  /\ pc' = [pc EXCEPT ![t] = Idle]
  /\ files' = [files EXCEPT ![pc[t].handle].given = TRUE]
  /\ UNCHANGED <<used, patched, fatal, served, stale>>

-----------------------------------------------------------------------------
(* The other hooks; with the hooks out of the code the real function runs.  *)

HookOf(h) == IF patched THEN Find(h) ELSE NoSlot

FSReadFile(h, n) ==
  LET i == HookOf(h)
      at == files[h].pos
      got == Delivered(n, at)
  IN /\ i # NoSlot => hooks[i].offset + got \in Offsets
     /\ served' = [op |-> "read", handle |-> h, sd |-> files[h].sd,
                   from |-> at, len |-> got, decrypted |-> i # NoSlot,
                   key |-> IF i = NoSlot THEN 0 ELSE hooks[i].offset]
     /\ hooks' = IF i = NoSlot THEN hooks
                 ELSE [hooks EXCEPT ![i].offset = @ + got]
     /\ files' = [files EXCEPT ![h].pos = at + got]
     /\ UNCHANGED <<used, pc, patched, fatal, stale>>

\* size_r is negative: nothing is decrypted, but it is added to the offset.
FSReadFileFails(h, e) ==
  LET i == HookOf(h)
  IN /\ i # NoSlot
     /\ hooks[i].offset + e \in Offsets
     /\ hooks' = [hooks EXCEPT ![i].offset = @ + e]
     /\ UNCHANGED <<files, used, pc, patched, fatal, served, stale>>

\* The buffer is read and decrypted, then the fall-through to the last line
\* reads the same range into it again.  Either read may fail: the entry moves
\* by what the first returned, the file by the read that went through.
FSReadFileWithPos(h, n, at) ==
  LET i == HookOf(h)
      got == Delivered(n, at)
      moved == [files EXCEPT ![h].pos = at + got]
  IN /\ IF i = NoSlot THEN UNCHANGED hooks
        ELSE \E size_r \in {got} \cup ErrorCodes :
               hooks' = [hooks EXCEPT ![i].offset = at + size_r]
     /\ \/ /\ files' = moved
           /\ served' = [op |-> "readpos", handle |-> h, sd |-> files[h].sd,
                         from |-> at, len |-> got, decrypted |-> FALSE, key |-> 0]
        \/ IoErrors /\ files' \in {files, moved} /\ UNCHANGED served
     /\ UNCHANGED <<used, pc, patched, fatal, stale>>

\* Mutation: the seek does not reach the entry.
FSSetPosFileOnly(h, at) ==
  /\ files' = [files EXCEPT ![h].pos = at]
  /\ UNCHANGED <<hooks, used, pc, patched, fatal, served, stale>>

\* The offset is set before the real call, which may fail.
FSSetPosFile(h, at) ==
  LET i == HookOf(h)
  IN /\ hooks' = IF i = NoSlot THEN hooks ELSE [hooks EXCEPT ![i].offset = at]
     /\ \/ files' = [files EXCEPT ![h].pos = at]
        \/ IoErrors /\ UNCHANGED files
     /\ UNCHANGED <<used, pc, patched, fatal, served, stale>>

\* The real one: there is no hook that would free the entry.
FSCloseFile(h) ==
  /\ files' = [files EXCEPT ![h] = Closed]
  /\ stale' = IF files[h].sd THEN stale \cup {h} ELSE stale
  /\ UNCHANGED <<hooks, used, pc, patched, fatal, served>>

UseFile(h) ==
  \/ \E n \in 1..FileSize : FSReadFile(h, n)
  \/ \E e \in ErrorCodes : FSReadFileFails(h, e)
  \/ \E n \in 1..FileSize, at \in 0..FileSize : FSReadFileWithPos(h, n, at)
  \/ \E at \in 0..FileSize : FSSetPosFile(h, at)
  \/ FSCloseFile(h)

-----------------------------------------------------------------------------
(* ProcUIProcessMessages: the five FS hooks go out with the foreground and *)
(* come back with it; the table is kept.                                   *)

ReleaseForeground ==
  /\ Background /\ patched
  /\ patched' = FALSE
  /\ UNCHANGED <<hooks, files, used, pc, fatal, served, stale>>

EnterForeground ==
  /\ ~patched
  /\ patched' = TRUE
  /\ UNCHANGED <<hooks, files, used, pc, fatal, served, stale>>

\* An open that does not pass through the hook.
OpenUnhooked(t) ==
  /\ ~patched
  /\ pc[t].at = "idle"
  /\ \E p \in Paths : RealOpen(p, files, {})
  /\ UNCHANGED <<hooks, pc, patched, fatal, served, stale>>

Step(t) ==
  \/ FSOpenFile(t)
  \/ AddFind(t)
  \/ AddStore(t)
  \/ OpenUnhooked(t)
  \/ pc[t].at = "idle" /\ \E h \in Handles : Given(h) /\ UseFile(h)

Next ==
  \/ \E t \in Threads : Step(t)
  \/ ReleaseForeground
  \/ EnterForeground

Spec == Init /\ [][Next]_vars

-----------------------------------------------------------------------------
(* Properties. *)

\* The bytes of a read are the file's plain bytes.
Plain(s) ==
  s.len = 0 \/ IF s.sd THEN s.decrypted /\ s.key = s.from ELSE ~s.decrypted

\* The key stream touches a file of the disc only where its handle is that of
\* a redirected file that was closed: FSCloseFile is not hooked, so the entry of
\* that file is still there.  Every other file of the disc reaches the game as
\* it is, with any threads, errors and switches (filesystem.cpp:56-65, :149-160).
GameFilesUntouched ==
  (~served.sd /\ served.decrypted) => served.handle \in stale

\* The game reads plain bytes from every file, redirected or not, through
\* FSReadFile, until an error is reported (filesystem.cpp:149-160).
SequentialReadsPlain ==
  (served.op = "read" /\ fatal = NoError) => Plain(served)

\* The same of FSReadFileWithPos (filesystem.cpp:162-172).
PositionedReadsPlain ==
  (served.op = "readpos" /\ fatal = NoError) => Plain(served)

\* An open redirected file whose FSOpenFile has returned has an entry, so its
\* reads will be decrypted, unless an error was reported: no open loses the entry
\* of another (filesystem.cpp:42-54).  "No error" and not "no overflow", because
\* an overflow after a missing file goes unreported.
OpenedIsTracked ==
  \A h \in Handles :
    (Given(h) /\ files[h].sd /\ fatal = NoError) => Matching(h) # {}

\* "There's too many file for CTGP to handle!" is reported only when that many
\* redirected files are open (filesystem.cpp:52).
TooManyMeansManyOpen ==
  fatal = TooManyFiles =>
    Cardinality({h \in Handles : files[h].open /\ files[h].sd}) > SlotCount
=============================================================================
