# CTGP-Cafe in TLA+

Models, checks and proofs of CTGP-Cafe, a modification of Mario Kart 8 for the
Wii U. The mod is loaded into the game's process, hooks about thirty functions
of the game and of the console's system libraries, and from these hooks replaces
files, adds pages of custom tracks to the course menus, agrees with the other
players of a room about the track that is raced, and shows texts of its own.
There are no tests in the repository, and most of what can go wrong needs two
threads, several menus in an unlucky order, or a trip to the HOME menu.

All paths are relative to `src/`. `PROJECT.json` lists components, runs, the
lines each definition models, the hazards and the theorems; this file explains
them.

## 1. The system

### Threads

* **MainThread** (`source/main.cpp`) is the mod's own. It installs the hooks,
  loads the archive of tracks, and then loops, once a frame, over the fatal
  error and the speedometer.
* **The game's threads** already run while MainThread starts up. They enter the
  mod only through hooked functions: file opens and reads, menus, texts, sockets.
* **The thread that calls `ProcUIProcessMessages`** takes the file system hooks
  out before the HOME menu appears and puts them back afterwards.

Nothing in the mod locks anything, but for the debug log: `fs_mutex` exists and
is never locked. Every piece of state that two of these threads touch is
therefore a hazard.

### Components

| Component | Source | State | Operations | Who calls it |
|---|---|---|---|---|
| File redirection | `patch/filesystem.cpp` | 256 entries (active, handle, offset) | open, read, positioned read, seek, (un)patch | the game; GetArchiveFile |
| Function hooks | `wiiu/patcher.cpp` | `pFuncList`, `hookJumps`, `memcpy_buffer`, the code | hookFunction, removePatch | MainThread, ProcUI hook |
| Instruction encoders | `ppc.hpp` | none | branch words, the trampoline's eight | function hooks |
| Course selection pages | `patch/course.cpp` | page, `trackNamesMod`, icons, buttons, battle backup | build, turn page, select cup, swap battle courses | the game's menus |
| Online play | `patch/online.cpp` | the same page and names, toggle | roulette, send page, receive page | the game's room and socket |
| Cup archive | `patch/cup0.cpp` | pages, icons, names | Initialize | CoursePatch::Initialize |
| Messages | `patch/message.cpp` | 256 texts (active, id, alloc) | Add, Modify, getMessage | loader, main loop, the game |
| Dispatch | `patch/global_patch.cpp` | three vectors of handlers | register, attach, onHandler, runHandler | the patches; the game |
| Start-up, main loop, fatal errors | `main.cpp` | `errorArg`, instances | MainThread, FatalError | every component |
| Launcher | `entry.cpp` | title, `alreadyDone...` | `__entry` | the loader of the console |
| Symbol tables | `wiiu/symbols.*` | function pointers | LoadWiiUSymbols, the allocator's wrappers | `__entry`; everyone |
| RC4 engine | `private/crypto_engine.cpp` | key stream | encrypt/decrypt from an offset | file redirection |
| Kernel copy | `private/kernel.cpp` | two address windows | KernelCopyData | function hooks |
| Debug log | `wiiu/debug.cpp` | mutex, socket | PrintLog, ExceptionHandler | everyone, debug builds only |
| Archive builders | `build_game_files_archive/*.py` | files on a PC, lists of their hashes | pack, encrypt, compare | a person, each release |
| IOSU stage, declarations of the game's classes | `arm_iosu_code/`, `wiiu/iosu_kernel.cpp`, `mk8/` | fixed data | a fixed sequence of writes | - |

### How they interact

MainThread calls the patcher, then each patch's `createInstance`, which hooks
functions, and sets its instance pointer at the end; a hook that is already in
the code reads that pointer at once. CoursePatch loads the archive through
`GetArchiveFile`, which goes through the *hooked* file functions. The course and
online patches share `m_CurrentPageNum` and `trackNamesMod`; the latter is read
by the hook of `FSOpenFile`, which is where a custom track really replaces one of
the game. Errors of all of them go to the one `errorArg`, which only MainThread
shows, once it is in its loop.

### What makes it hard, and what makes it correct

* **Files**: opens of several threads race in `Add`; entries outlive files; reads
  fail; the hooks come and go. Correct: a redirected file is read as plain bytes,
  and the game's own files are decrypted only where they have been given the handle
  of a redirected file that was closed.
* **Hooks**: instructions are replaced one word at a time while the code runs,
  slots and trampolines are reused. Correct: a function runs its original or its
  hook, and a real pointer reaches the original.
* **Pages**: what is shown and what is loaded change in different hooks. Correct:
  the player races the track on the button.
* **Online**: packets are lost, repeated and late. Correct: whoever heard of the
  page races the same track.
* **Archive and start-up**: any file may be missing, errors are reported by two
  threads without a lock. Correct: no half archive, no unset pointer in the loop,
  an error is shown.
* **Titles**: the mod stays in memory when the console leaves the game, at any
  moment, and starts again with what it had. Correct: no hook looks at what belonged
  to the title before, but for variables that are named.
* **Matchmaking**: the toggle is switched while searches and rooms were made under
  the old one. Correct: consoles with and without the mod's tracks do not meet.
* **Kernel copy, RC4, log**: boundaries and pieces. Correct: the bytes arrive, in
  order, once.

## 2. The modules

| Module | Models | Extended by |
|---|---|---|
| `FileRedirection` | `filesystem.cpp` | `MCFileRedirection`, `FileRedirectionProofs` |
| `HookContract` | what a caller of the patcher may rely on (abstract) | `HookTable` (INSTANCE) |
| `HookTable` | `patcher.cpp`, and the ProcUI hook's loops | `HookTableProofs` |
| `TrackPages` | pages, page numbers, `trackNamesMod` | `CoursePages`, `OnlinePages`, `TrackPagesProofs` |
| `CoursePages` | `course.cpp` on one console | `MCCoursePages`, `CoursePagesProofs` |
| `OnlinePages` | `online.cpp` in a room | `MCOnlinePages`, `OnlinePagesProofs` |
| `FatalErrors` | `FatalError`, statement by statement | `CupArchive` |
| `CupArchive` | `cup0.cpp` and the table of texts | `Startup` |
| `Startup` | `MainThread` against the game's thread | `MCStartup`, `StartupProofs` |
| `Restart` | `entry.cpp`, `LoadWiiUSymbols` and `MainThread` over several titles | `MCServices`, `MenuProofs` |
| `KernelCopy` | `kernel.cpp` | `MCServices`, `ServiceProofs` |
| `MessageTable` | `message.cpp`, store by store | `MCServices`, `MenuProofs` |
| `CupIcons` | how `course.cpp` finds, keeps and gives back the icons | `MCServices`, `MenuProofs` |
| `CursorMoves` | the cursor of the course pages | `MCServices`, `MenuProofs` |
| `Matchmaking` | the toggle, searches and rooms (`online.cpp`) | `MCServices`, `MenuProofs` |
| `KeyStream` | `crypto_engine.cpp` | `MCServices`, `ServiceProofs` |
| `DebugLog` | `debug.cpp` | `MCServices`, `ServiceProofs` |
| `Dispatch` | the vectors of handlers of `global_patch` | `MCServices`, `ServiceProofs` |
| `PathResolution` | which file a path stands for (`filesystem.cpp`, `create_archive.py`) | `MCServices`, `ServiceProofs` |
| `Trampoline` | the words of `patcher.cpp` and `ppc.hpp`, executed | `MCServices`, `ServiceProofs` |
| `UpdateList` | the list of updated files (`create_archive.py`) | `MCServices`, `ServiceProofs` |

The modules whose name begins with `MC` give constants their values for TLC.
`MCServices`, which also composes its twelve parts, is extended by `ServiceProofs`.
Definitions whose comment begins with "Mutation:" are wrong on purpose: each is
what a plausible mistake in the code would turn the next definition into, and is
used by no specification. `PROJECT.json` ("mutants") says which property notices.

### FileRedirection

`hooks` is the table, `pc` is where a thread is inside `FSOpenFile`: the search
of `Add` for a free entry (`AddFind`) and its three stores (`AddStore`) are two
steps, so two threads may choose the same entry. The three stores are one step,
since a handle no caller has yet cannot be looked up. The console's file system
(`files`, `used`) is external. A read records in `served` which bytes were
delivered and from which offset the key stream was applied, which is all that the
properties need of the contents. `Lookup` says which names a path may become
through the substitution of track names; FSOpenFile then takes a listed file, a
file of the SD card that is not listed (opened, and its handle forgotten), a
missing listed file (reported, the disc's file opened instead), or the disc's.
`FSReadFileWithPos` decrypts and then falls through to a second, raw read, as the
code does; either read may fail. `stale` is a history variable: the handles of
redirected files that were closed. `FSCloseFile` is not hooked, so the entries made
for them stay, and nothing in the source keeps the console from handing such a handle
out again, for a file of the game's own disc. `GameFilesUntouched` says that this is
the only way in which such a file is decrypted.

Constants turn on what the environment may do: `Reuse` (handles are handed out
again), `ErrorCodes` (reads fail), `Background` (the HOME menu). `Offsets` bounds
how far errors drive an entry's offset from the file's position. `size_r` is taken
to count bytes, as in the game's own calls.

### HookTable and HookContract

A *site* is a hooked function; sites are numbered in the order MainThread hooks
them (five file functions, `ProcUIProcessMessages`, the game's). `code` is a
site's first word: its own instruction or a branch. `funcs`, `jumps` are the two
arrays, `buffer` is the static `memcpy_buffer` through which every thread writes
code, `pc` the place of each thread in `hookFunction` (find, fill, copy, write,
publish) or `removePatch` (find, copy, write, clear). `listed`, `patched` and the
loops are those of `hook_ProcUIProcessMessages`, which only runs when it is hooked
itself.

Three things are taken as one step: a copy by the kernel (`KernelCopy` has its
bytes), the filling of an entry, whose fields nobody reads before the branch, and
`removePatch`'s ten words, nine of which never differ: the addresses hooked in the
source are at least 344 bytes apart.

`HookContract` is what `patcher.h` promises: a site runs `original` or `hook`, its
real pointer reaches `nothing`, `original` or `garbage`, and the only steps are
*install*, *publish* and *remove*, one site at a time, never to `garbage`.
`Contract` is its instance under the refinement mapping `Runs`, `Reaches`.

### TrackPages, CoursePages, OnlinePages

A course is a pair of cup and place; a replaced name is abstracted to the page it
is from, since a page stores `trackPaths[cup][i]` for that same course only.
`AfterSelect` is `changeCourseButtons`, `AfterPacket` is `loadPageTrackPaths`, with
its reused loop variable on page 0: only course `i` of cup `i` is cleared, for
`i < 4`, which the operator copies.

`CoursePages` has one action per hook: building the menu (`BuildMenu`), an arrow
pressed (`TurnPage`), the cursor leaving the cups (`LeaveCups`), a cup chosen
(`SelectCup`), another event of the page (`OtherEvent`), the battle page's arrows
(`SwapBattle`, with `SwapOn` and `SwapOff`), the toggle (`ToggleOnline`), and a page received (`ReceivePage`).
The game's own handlers are external: a cursor that comes to a cup selects it and
shows its own courses before the hook runs, and leaving for an arrow keeps the cup.
`ReceivePage` assumes of the game that a course is drawn only when the console has left
its menu; `readFromSocket` does not ask. A battle button draws into the panes it points
at. `SwapOn` copies the buttons into the backup once and never again, and `SwapOff`
copies the backup over the buttons, panes included: `battlePanes` says whether they
still point at panes of their own page, `backup` whether the copies are of this page or
of an earlier one. After *on, menu rebuilt, off, on* the courses' names are drawn into
panes that are gone while `trackNamesMod` is replaced, so the page shows the game's
courses and loads the custom ones. `BattleShownIsLoaded` says that shown and loaded
agree wherever the panes are the page's own, and that nothing but the backup of an
earlier page takes them away.
Battle courses have their own identifiers. That page 43 is created before 45
(comment at `course.cpp:515`) is taken from there.

`OnlinePages` is a room. Vote, draw and datagram socket are external; `packets`
counts the copies on their way, which arrive in any order, late or never. The
console whose vote was drawn sends `Copies` packets to each player; `informed` are
those that got one before they loaded. Packets do not outlive a race.

### FatalErrors, CupArchive, Startup

`FatalErrors` is the read and the three assignments of `FatalError`, each a step,
on any number of threads. `CupArchive` loads an archive entry by entry in the
order `create_cup_organization.py` writes it; every file may be missing or
corrupt, and every early return is there. The table of texts is the sequence of
its active entries, since none becomes inactive. `Startup` is MainThread in
`main.cpp`'s order with `CupArchive` as its middle, hooks in groups, and the
game's thread, which opens files (and may report an error) and may run into a hook
whose instance is not set. Reading NULL, or `OSFatal` when there is no SD card,
stops the whole program.

### MessageTable

`entries` is the table, `calls` says for each of the two threads which statement of
AddMessage, ModifyMessage or getMessage it is at. A search is one step, each store
another, so the game's search meets entries that are half filled or whose text has
just been freed. Texts are literals or numbers of allocations; `freed` counts how
often each was freed. Where a caller of getMessage uses the text is external, so it
is a step of its own, at any later time. The game may ask for its own texts at any
time, and for the mod's once the start-up is over, except for the speedometer's,
which only MainThread's own `setMessage` asks for.

### Dispatch

MainThread's three registrations, each a `push_back`: the entries move to a new
buffer and the old one is freed, then the vector's two pointers are stored. The
game's thread is at any of these moments somewhere in a hook: it reads `begin()`,
then `end()`, then visits one entry per step. `start`, `finish` and `grown` are the
vector's pointers and the last buffer allocated; a buffer is known by how many
entries fill it, since no vector gets more than two and each moves to a new one
(`RegistrationsAssumption`). A walk over NULL, a freed buffer or from one buffer to
another is undefined: it crashes, or finds nothing. Whether a handler cancels is
left open on the pages on which its code may answer TRUE. What an event does to the
pages is in `CoursePages`, and the time before the instance is set in `Startup`.

### KernelCopy, KeyStream, DebugLog

`KernelCopy` copies byte by byte through two windows, moved whenever source or
destination passes the end of one, with the mod's own range mapped differently.
`KeyStream` is RC4 over bytes of a width given by a constant: key schedule,
skipping and decrypting are those of `internal_rc4_crypt`; the file is what
`create_archive.py` wrote, encrypted in one piece. `DebugLog` has threads that log
and may crash anywhere; the exception handler logs too, closes the socket and
stops the console. `OSMutex` counts its owner's locks and serves waiters in turn.
Of what was sent the model keeps the last two blocks, which is what `TextsWhole`
compares at every send.

### Trampoline

A word is the pair of its halves. `Branch` and `HookJumps` are the words the three
hook functions write, by the encoders of `ppc.hpp`; a processor, external, executes
them one by one (`Executed`, with one operator per instruction): the game comes to the hooked address and the branch takes it to the
hook (`BranchReachesHook`), which calls `real`, and after the trampoline's eight
instructions the processor must be as if the original had been entered
(`RealIsOriginal`). `origin` keeps the processor as the caller left it, to compare.
What the replaced instruction may be is `MayBeFirst`: addi, addis, stw, stwu or mflr.
A relative branch or a move to CTR would not survive in the trampoline; loads are left
out, since the model's memory has only what was stored in the call.
`HookTable` takes from here that a branch leads to the hook and a trampoline to the
original; that trampolines are reused is there.

### PathResolution

Paths and names are sequences of small numbers, so that one track's name may be part
of another's, or of what replaces it. `Replaced` is the search of `FSOpenFile`
through `trackNamesMod`, with its end at track 80 of 81; `Hash` is the loader's, in 32
bits, and `BuilderHash` the builder's, masked once at the end. `FSGetStat` replaces
nothing and looks at no list of hashes. `FileRedirection` gets the outcome of this
module as its parameter `Lookup`.

### CupIcons and CursorMoves

`CupIcons` has the hooks between which the icon of a cup becomes known: `GetResource`
remembers the address of its file, `LoadTexture` recognises it and keeps the texture
made of it, in an array that is four entries too short, and `loadPage` changes the
pictures and gives them back. Of an icon without room the texture lands over the first
saved picture, and its picture in the memory behind the CUP0 (`behind`). The game
builds menus at different addresses, loads textures in any order and frees them. The
addresses of earlier menus stay, so in a menu that overlaps an earlier one in part an
icon may be recognised as the one that was there before, if that one is not fetched
again yet (`TakenForAnother`); `mistaken` records that it happened in this menu. Then
the entry of the icon itself is never set and turning pages leaves its picture wrong.
`IconsComeBack` speaks of menus in which it did not happen, wherever they are. `CoursePages` abstracts all of it to which page
an icon is of. `CursorMoves` has the three `next` hooks: keys on pages of four kinds,
with the arrows where `LoadPanes` and `onCreate` put them.

### Matchmaking

Consoles that switch the toggle in the online menu, search, create a room when the
server has none, or join a friend's. Both `SetAttribute` hooks are `AttributeFor`.
The server, which lets a console into a room with the attribute it searches for, and
the way through the menus are external: a search starts in the online menu.

### Restart

Everything `__entry` and MainThread do at the start of each title, with a pointer
abstracted to the start in which it was set. The console leaves a title at any moment
(`Boot`); hooks go with the title's code, the mod's variables stay. `MainSteps` is
MainThread's order of what it sets anew, sets only if it is NULL, and hooks; what a hook
sets when the game comes to it (an error, a page, an icon, the network, a race) has an
action of its own. `Reads` is what each group of hooks, and MainThread's loop, look at.
Ten variables are read although they may be of an earlier title, and
`HooksReadThisTitle` names them: five are never set again (`KeptFromFirst`; `errorArg`
is one, so an error reported in one title is shown by the loop of the next, with texts
in a heap that is gone), five are set again only when the game comes to the page, icon,
network or race (`KeptUntilSet`). A library
may lack a function (`lacking`): then its pointer stays as it was, and only a NULL one
is noticed.

### UpdateList

`create_archive.py` compares its list of files with the server's place by place.
Files are added anywhere, changed and removed between releases.

## 3. The runs

| Run | Configuration | What it shows |
|---|---|---|
| `files_hazards` | 2 threads, 2 handles that are reused, 2 entries, errors and HOME on | the game's own files are decrypted only where they have the handle of a redirected file that was closed (`GameFilesUntouched`) |
| `files_quiet` | 1 thread, 3 handles, 2 entries, files of 2 bytes | without errors and HOME, every redirected file is tracked and `FSReadFile` delivers plain bytes after any seeks |
| `files_positioned` (violation) | as above | `FSReadFileWithPos` delivers ciphertext |
| `files_overflow` (violation) | as above | "too many files" with few files open |
| `hooks` | all 34 functions, a table one entry short | entries match hooks, real pointers reach originals, the contract is implemented, a trip to HOME is never half done (`AllOrNone`), and coming back completes |
| `hooks_first_call` (violation) | 5 functions | a hook can be called before its real pointer is set |
| `hooks_home` (violation) | 5 functions, HOME during set-up | a trampoline is given to another function while the old pointer names it |
| `course_pages` | 2 pages, cups with and without pages | what is shown is what is loaded, on the battle page while its buttons have their own panes; icons follow page turns |
| `online_pages` | 2 consoles, 2 copies per packet | informed consoles race the same track, room after room |
| `startup` | every archive of up to two cups on 2 pages, 9 free messages | no half archive, texts lead where they should, no unset pointer in the loop, errors are shown |
| `startup_missing` (violation) | as above | a missing `data.cup0` is reported and then kills the program before it is shown |
| `services` | windows of 2 bytes, 2-bit bytes, 2 logging threads, a table of 4 texts and 3 frames | the copy is a copy, pieces decrypt like the whole, texts in use are not freed and none leaks, handlers are called once and in order and only a registration under way can break a call, logged texts stay in one piece, a crash stops the console |
| `services` | 2 addresses, 3 hook functions, 4 first instructions, 2 values per register | a hooked function reaches its hook, and `real` its original, with the registers they should have |
| `services` | 3 tracks, 2 custom names, 5 paths | the size told is that of the file opened; a released custom file is opened for its track |
| `services` | 3 icons with room for 2, menus at 3 places, two pairs of which overlap; 4 pages of courses | every icon comes back but the one named, unless one was taken for another; left and right undo each other and only arrows turn pages |
| `services` | 2 consoles, 2 rooms | searching consoles of different kinds do not meet; the button tells the toggle |
| `services` | 3 titles in a row, 2 regions installed | no hook, nor MainThread's loop, reads what is of an earlier title, but for ten variables |
| `services` | 3 files, 2 contents | no changed file is missing from the updates, but for a renamed one |

`services` is one run with twelve parts: a behaviour is one of one of them, chosen at
the start, and its rows above are the parts' own questions.

### Are the bounds enough?

* *Files.* Two entries let two threads collide, an entry outlive its file next to a
  newer one of the same handle, and the table be full; two handles allow a file of the
  disc at a closed file's handle beside another open one, three (where handles are not
  reused) a closed file, its successor and another one.
  Files of two bytes distinguish a wrong offset from a right one. `GameFilesUntouched`
  and the types are proved without bounds, and for one thread the two properties of
  `files_quiet`.
* *Hooks.* The run has the source's 34 functions; 33 slots make the table overflow
  in the same run, which the source's 64 never do. Proved for every size.
* *Pages.* Two pages are the least on which a page can leave something of another
  behind; cups that no page replaces, and that have no page at all, are both there.
  Proved for every archive.
* *Online.* Two consoles, of which either may be drawn, and two copies, of which
  one may be lost and one late. Proved for every room.
* *Start-up.* Two entries make the loops go from cup to cup and page to page; nine
  free messages are exhausted by the largest archive. Two threads are all there are
  between MainThread and the game's opens. Proved for every archive and number of
  messages, of the progress what section 4 says.
* *Services.* Windows of two bytes in a space of 26 let a copy pass two ends and the
  repetition of the windows. Two bits per byte keep all keys of three words; the
  swaps, the skipping and the offset do not depend on the width. Texts of three
  bytes over blocks of two need two sends. Three frames of the speedometer replace the
  literal, then the first allocated text, then another. The three registrations are
  the source's. Proved for any windows, keys, texts, threads and registrations, of the
  progress of the log what section 4 says.
* *Trampoline.* The words have their 32 bits. The addresses are chosen: one whose
  successor carries into its upper half, a destination with a bit that belongs to
  the branch's operation code, one that only a relative branch reaches. The first
  instructions read LR, move the stack pointer, set a register or its upper half, and
  store. Proved for any addresses, registers and instructions of these kinds.
* *Paths.* One track's name is the beginning of another's, one custom file is not on
  the SD card, two files there are not released; a hash of three characters wraps the
  modulus. Proved for any names and files whose hashes differ.
* *Icons.* Three icons with room for two are first, last and too many; of the three
  places two have no address in common and the third overlaps both, so that an address
  remembered from one menu meets icons and other textures of the next. Proved for any
  number of icons and places.
* *Matchmaking.* Two consoles and two rooms; proved for any number.
* *Titles.* Three starts are two changes: one in the middle of anything, and one after
  which a value of the first start would still be there after a second that set it only
  partly. Proved for any number of starts.
* *Updates.* Three files let one be added or removed in the middle. Proved for any files.

### Fairness

Only three properties are about progress. `RehookCompletes` assumes that a thread
inside the patcher goes on: the patcher takes no lock and its loops are bounded;
nothing makes the user press HOME. `ErrorIsShown` assumes that both threads keep
running (they sleep and wake by time) and that a call of `FatalError` ends; the
game need not open files. `CrashStops` assumes that threads inside the log go on
and, strongly, that whoever waits for the mutex gets it: `OSLockMutex` queues. A
console program that has crashed does nothing any more, and those steps are not
fair.

`CHECK_DEADLOCK FALSE` is set for `startup`, which really ends in the error viewer
or a crash, and for `services`, each of which ends.

## 4. What is proved

TLAPS checks, for every value of the constants allowed by the named assumptions:

* **FileRedirectionProofs** - `TypeCorrect`; `GameFilesSafe` (`GameFilesUntouched`),
  whatever handles come back. The inductive invariant (`UntouchedInv`) adds to the
  property that every active entry, and every open on its way to one, names a handle
  of an open file of the SD card or one that is `stale` (`FromSd`). Entries are never
  removed, so the table is full of stale handles, and what a handle was once it may be
  for the game's next file.
  `OpenFilesTracked` and `ReadsPlain` are for `Quiet` systems: one thread opens files, no
  read fails, HOME is not pressed. There the entry of an open file is the only one of its
  handle (`OneEntryEach`) and has the file's position as its offset (`EntriesFollow`),
  and the file on its way into the table keeps the free entry it found (`PendingNew`):
  with a second thread this is the part that fails.
* **HookTableProofs** - `TypeCorrect` and `WhoPatchesEnds` (`PatcherEnds`) whenever HOME
  is pressed; `EntriesMatch`, `RealPointersReach`, `ContractKept` (the refinement) and
  `GameHooksAllOrNone` (`AllOrNone`) for `HomeDuringSetup = FALSE`. The invariant of these is
  about *places*: site `s` is always given slot `s`, because MainThread hooks the
  sites in order into an empty table, and the ProcUI hook frees the first `FsCount`
  slots and fills them again in the same order. So a trampoline, once built, is only
  ever rebuilt for the same site and from the site's own instruction, although
  `removePatch` frees it while a real pointer names it. The other parts say that one
  thread is inside the patcher at a time, that the buffer still holds what that
  thread put there (`PlaceOk`), which slots are occupied (`OccupiedOk`, `ListedOk`),
  and which sites are branched (`CodeOk`). Each step of the patcher has a lemma.
* **TrackPagesProofs** - what selecting a cup or receiving a page does to the names.
* **CoursePagesProofs** - `TypeCorrect` and `BattleSeenIsLoaded` (the buttons
  have lost their panes only if the backup is of an earlier page) for every archive;
  `SeenIsLoaded` and `IconsTurn` for archives whose pages replace the same cups
  (`SameCupsOnEachPage`). A cup that no page
  replaces never gets a name or an icon that is not its own (`InPlace`,
  `IconsInPlace`), so a page that leaves a cup alone leaves nothing of the page
  before; and the page only changes while the cursor is on no cup (`FocusOk`).
* **OnlinePagesProofs** - `TypeCorrect`, and `EveryoneRacesTheSame` for any room,
  any number of copies and archives as above. Between the draw and the end of the
  race only packets change pages, and every packet carries the page of the console
  whose vote was drawn (`PacketsCarry`), whose page therefore never changes. That
  console has the name of its course from selecting the cup (`CupShown`,
  `VoteKept`), the others have all names of the page from the packet
  (`InformedShow`), which together give `RacesDrawn`.
* **StartupProofs** - `TypeCorrect`, `PagesWhole` (`WholeArchive`) and `LoopReady`
  (`LoopFindsInstances`) for every archive, set of faults and number of free messages.
  `CupsOk` and `TracksOk` say how much of the archive is in the pages when the loader is
  at entry `n`; that a later entry undoes no earlier one is `PlacesDiffer`, which rests on
  `ArchivesAssumption`. `ReturnedOk` says that a loader which gave up has reported an error
  or is inside `FatalError` for it, so that MainThread, once it is out, finds one set.
  `NamesOfTheArchive` (`NamesLead`) is about the table of texts, which all entries share:
  `TextsOk` says that it holds nothing but texts of entries, each under its own identifier,
  and, as long as it was never full, one for every entry the loader has passed.
  `StartupEnds` (`MainComesToItsEnd`) is for cups with any number of tracks.
* **MenuProofs** - what the player's menus rest on.
  `MeetTyped`, `MeetTheirKind` (`RoomsDoNotMix`) and `ButtonTellsToggle`
  (`LabelTellsToggle`), for any consoles, rooms and regions. The toggle is only switched in
  the online menu, so the criteria of a search under way still tell it
  (`SearchedByToggle`), and so does the attribute of the room found or created
  (`MetByToggle`); `OneConsole` says that a step which is right for the console that takes
  it leaves the others alone, if it changes no attribute of a room they are in, and
  `CreateMatch` only takes an empty one.
  `CursorTyped` and `KeysUndoEachOther` (`KeysUndo`): `LastMove` says that a left or right
  led along the row, or onto an arrow and back.
  `IconsTyped` and `PicturesComeBack` (`IconsComeBack`), for any number of icons, room for
  them and places of menus, overlapping ones included. An icon of this menu is remembered
  at the address it has there (`Addresses`); unless it is taken for another one it is the
  first remembered there (`FirstAddress`), so that its picture is in its own place
  (`OwnPlaces`), but for the first saved one, over which `LoadTexture` stores the icons
  without room. `NobodyIsMistaken` adds that where no two menus overlap in part no icon is
  taken for another one.
  `TableTyped`, `WhoLooksFindsALiveText` (`TextsAlive`) and `TextsAreFreedOnce`
  (`FreedOnce`), for any texts and replacements and both threads store by store. An
  allocated text is in one entry, or in MainThread's hand on its way there, or freed once
  (`HomesOk`); the game's thread never comes to the one entry whose texts are freed
  (`GameOk`), whatever half-filled entries it meets.
  `RestartTyped` and `ReadsThisTitle` (`HooksReadThisTitle`) hold for any titles,
  libraries and number of starts. A hook in the code
  tells how far MainThread of this title has come (`HooksInOrder`), and that what it has set
  (`SetInOrder`); nothing is known, or needed, of how far an earlier one came.
* **ServiceProofs** - what the hooks rest on.
  `StreamTyped` and `AnyPiecesArePlain` (`PiecesArePlain`), for any file, key, size of the
  permutation and pieces. `StreamInv` says that the state of the cipher is that after as
  many rounds as bytes were read, less those still to be skipped.
  `ResolveTyped`, `TrackFileIsOpened` (`OpensItsTrack`) and `SizeOfWhatIsOpened`
  (`StatAgreesWithOpen`), for any names and paths whose hashes differ; that the loader's
  hash, masked at each step, is the builder's, masked at the end, is a lemma.
  `DispatchTyped` and `CallsRunTheirHandlers` (`FollowingCallsUse`), for any registrations.
  A call that no `push_back` falls into walks the entries there were when it began
  (`Walked`), because the vector's pointers only differ while one is under way
  (`PointersOk`); a vector has grown once per registration begun (`GrownOk`).
  `LogTyped` and `BlocksOfATextAreOneRun` (`TextsWhole`), for any threads and splits by
  `sendto`. Who is between the calls of the mutex has it, and once, but for who crashed
  there (`MutexOk`), and the last block sent is its own (`LastBlockOwn`). `LoggingEnds`
  (`LogComesToItsEnd`) is described below.
  `FilesAreListedOnce` and `ChangesAreListed` (`ChangesListed`), for any files and releases.
  `CallTyped`, `BranchesReachHooks` (`BranchReachesHook`) and `RealReachesTheOriginal`
  (`RealIsOriginal`), for any addresses, registers and first instructions allowed.
  `CallInv` says what the processor is behind each instruction of the trampoline; that an
  encoded word is decoded to its own fields, and what it then does, has a lemma per
  instruction.
  `CopyTyped` and `EveryByteInItsPlace` (`CopiedSoFar`) hold for windows of any size and
  copies across any number of their ends. `CopyInv` says that both pointers are as far from
  where they began as bytes were copied, and that the windows, which are moved at their
  ends only, show the addresses of the moment where they are.
  `EachIsAlone` is about `MCServices`: a behaviour of its specification is one of each of
  its parts' specifications. So every theorem about a part holds of what the run checks,
  whatever the constants: `ServicesTyped` (its `TypeOK`), `ServicesAreSafe` (its other
  invariants) and `ServicesKeepTheirWord` (its action properties).

Recursive functions (the hash, RC4's rounds, the handlers for a page) are unfolded by
`RecursionRuns`, and inductions done by the least counterexample (`LeastElement`), both of
which rest on the library's well-founded induction.

**Of progress**, three theorems prove what does not need fairness. Each counts the steps
a thread has left, and proves that the count is a natural number, that every step the
thread takes makes it less, and that no other step makes it more (in the log this is
stated of a crashed thread; any other may begin a new text):

* `WhoPatchesEnds`: `Left` is a thread's steps in the patcher, for the site it is at and
  for each behind it; it is 0 only outside. `GameHooksAllOrNone` adds that the ProcUI hook
  only leaves the patcher with all of the file system hooks in, or all out.
* `StartupEnds`: `WorkLeft` is MainThread's steps before the error viewer, through
  installing, loading and the statements of `FatalError`; it is 0 only in the viewer. The
  game may open files and report errors meanwhile. A reported error stays reported.
* `LoggingEnds`: `LogLeft` is a thread's steps in the log, by bytes still to be sent. A
  crashed thread always has one left, until the console stops; and whoever has the mutex
  has one left too, crashed or not, so threads never wait for each other in a circle.

**Model-checked only.** What is left of liveness (`RehookCompletes`, `ErrorIsShown`,
`CrashStops`): that a thread which has a step left can take it (ENABLED), that by fairness
it then does, and that a number cannot become less for ever. The rule that concludes from
these is out of the prover's reach. All other properties that a passing run checks are
stated by a theorem. The formulas with the counts are in the proof modules, since they are
steps towards the liveness that the runs check; TLC checked them on the constants of
`hooks_home`, `startup` and `services` before they were proved.

Of `Dispatch` the prover does not know that `SelectSeq`, which `Handlers` uses, returns as
many elements as there are registrations for the vector: the bound on these is stated of
the registrations themselves (`RegisteredFor`).

## 5. What the checks found

* `FSReadFileWithPos` decrypts and then reads the same range again, encrypted.
* The table of redirected files never loses an entry: after 256 opens the mod
  reports too many files, however few are open.
* Between the branch and the real pointer, a hooked function's hook calls NULL.
* HOME pressed during the first ten seconds can give a trampoline in use to another
  function.
* A missing `data.cup0` ends the program instead of showing the message.

Observations that no text of the repository contradicts, and that are therefore in
"hazards" and not findings: two threads can lose an entry in `Add` (`fs_mutex` is
never locked); a failing read moves the offset by a negative number; receiving
page 0 restores only some of the names (`online.cpp:52` reuses `i`); pages that
replace different cups leave icons and names of one another; `getRandomOnlineTracks`
reads an instance that is never set; registering a second button handler frees the
buffer a call may be walking; `LoadTexture` compares twelve icons and stores
into eight, so that a DLC cup's texture lands over the first saved picture, and its
picture behind the CUP0; where two menus overlap in part an icon may be taken for
another one; the battle page may show the game's courses and load the custom ones once
its backup is of an earlier page; a file of the game that gets the handle of a closed
redirected file is decrypted; `FSGetStat`
looks at another name than `FSOpenFile` while a track is replaced; track 80 is never
searched for; the file system client, the custom battle courses, the toggle's button, the
battle backup and the reported error are kept from the first title that set them, and a library function that a later title lacks leaves a pointer
into the earlier one's; a renamed file may be missing from the updates. Comments of
`patcher.h` that no run contradicts, since nothing calls what they describe: lines 39 and
48 give branches twice the reach that a sign-extended displacement of 26 bits has, and
lines 63 and 73 have the two functions with and without link the wrong way round.
`PowerPC_BDNZ` shifts its displacement out of the word.

## 6. Assumptions and limits

Held out by a constant or an assumption, and said so where a property needs it:
handles are not reused (`Reuse`, only where one thread's
reads must be plain), HOME is not pressed during set-up (`HomeDuringSetup`), pages replace
the same cups (`SameCupsOnEachPage`, for two properties), no two pages share a cup
and pages stay within `numPages` (`ArchivesAssumption`; the shipped archive has one
page), 0 is the identifier of no text (`AddsAssumption`), the menus are not reached before
MainThread is done unless `Early`. Assumed of the data the code is run on: the hash tells
the released paths and those of the card apart (`PathsAssumption`), a copy does not run into its
own source and each of its ranges is of one kind (`CopiesAssumption`), a vector gets at
most two handlers, as in the source (`RegistrationsAssumption`), hooked functions begin
with an instruction that can be moved, and the trampoline does not lie where it returns to
(`FirstsAssumption`). `Xor` is a constant of which only the sizes are known and that it
undoes itself (`KeysAssumption`).

Left out:

* the layout of the menus and the messages and pictures
  that `CoursePatch::Initialize` loads one after another;
* `NexAuthenticationFunc`, which does nothing, and what is in the object whose pointer
  `NetworkData_Menu::init` keeps (`Restart` has the pointer);
* `Write32` at `course.cpp:604`, two words of the game's code patched once;
* `hookBranch` and `hookBranchNoLink` as steps on the table: nothing calls them; the AES
  functions and the other encoders of `ppc.hpp`, which nothing calls either;
* copies whose range lies partly in the mod's own memory: what is mapped behind it
  is not in the source;
* the wrappers of the allocator in `symbols.cpp`: each is one call of the console's
  allocator, which is not in the source;
* the IOSU stage (`iosu_kernel.cpp`, `arm_iosu_code/`): a fixed sequence of writes to
  fixed addresses, first through a weakness of another processor's system and then on
  that processor; the states it goes through are that system's, which is not in the
  source. `Restart` has its only result, the flag it may set;
* `symbols.h` and the declarations of the game's classes, which are data.

Two hazards have no property: a failing read or seek moves an entry's offset by a wrong
amount, and pages that replace the same cup, or lie behind `numPages`, are not what the
shipped archive has; nothing in the repository says what should happen.

## 7. Plan

In this order, the most important first; all of it is done.

1. `FileRedirection`; 2. its proofs; 3. `HookContract`, `HookTable`; 4. their proofs;
5. `TrackPages`, `CoursePages`, `OnlinePages`; 6. their proofs; 7. `FatalErrors`,
`CupArchive`, `Startup`; 8. `KernelCopy`, `KeyStream`, `DebugLog`, `MessageTable`;
9. `Dispatch`; 10. `PathResolution`, `Trampoline`, `Restart`; 11. `CupIcons`,
`CursorMoves`, `UpdateList`; 12. `Matchmaking`; 13. `StartupProofs`, `MenuProofs`,
`ServiceProofs`: every safety and action property that a run checks; 14. what can be proved
of progress; 15. the services as one specification.

What was asked of `IconsComeBack`, for which overlaps of two menus it holds, has the answer
that it holds for none: with two or more icons without room (the source has four), TLC
finds a counterexample for every distance of two places less than the number of icons
(`IconCount` 4, `Room` 2 and every choice of `PageIcons`; 5 and 3). So `IconsAssumption`
asks for no more than it must.
