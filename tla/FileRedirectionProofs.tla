------------------------ MODULE FileRedirectionProofs ------------------------
(***************************************************************************)
(* Theorems about FileRedirection, for any number of threads, handles,     *)
(* table entries and file names.                                           *)
(***************************************************************************)
EXTENDS FileRedirection, WellFoundedInduction, TLAPS


\* Slots is a set of naturals above NoSlot: the search loops of Add and Find
\* have a first hit (filesystem.cpp:43, :58).
LEMMA SlotsNat == Slots \subseteq Nat /\ NoSlot \notin Slots
BY ConstantsAssumption DEF Slots, NoSlot

LEMMA FirstIn ==
  ASSUME NEW S, S \subseteq Slots, S # {}
  PROVE  First(S) \in S
<1>1. S \subseteq Nat
  BY SlotsNat
<1>2. PICK x \in S : \A y \in S : ~ (<<y, x>> \in OpToRel(<, Nat))
  <2> HIDE DEF First
  <2> QED  BY <1>1, WFMin, NatLessThanWellFounded, Zenon
<1>3. \A y \in S : ~(y < x)
  BY <1>1, <1>2 DEF OpToRel
<1>4. \A y \in S : x <= y
  BY <1>1, <1>3
<1> QED  BY <1>4 DEF First

\* Find returns an active entry of the handle if there is one, else NULL
\* (filesystem.cpp:56-65).
LEMMA FindSpec ==
  ASSUME NEW h
  PROVE  /\ Find(h) \in Slots \cup {NoSlot}
         /\ Find(h) # NoSlot => hooks[Find(h)].active /\ hooks[Find(h)].handle = h
         /\ Find(h) = NoSlot => Matching(h) = {}
<1>1. Matching(h) \subseteq Slots
  BY DEF Matching
<1>2. Matching(h) # {} => First(Matching(h)) \in Matching(h)
  BY <1>1, FirstIn
<1> QED  BY <1>1, <1>2, SlotsNat DEF Find, Matching

LEMMA DeliveredBounds ==
  ASSUME NEW n \in 0..FileSize, NEW at \in 0..FileSize
  PROVE  /\ Delivered(n, at) \in 0..FileSize
         /\ at + Delivered(n, at) \in 0..FileSize
BY ConstantsAssumption DEF Delivered
-----------------------------------------------------------------------------
(* Type correctness.                                                       *)

LEMMA Constructors ==
  /\ Unused \in Entry
  /\ Closed \in File
  /\ \A sd, given \in BOOLEAN : Opened(sd, given) \in File
  /\ Idle \in Call
BY ConstantsAssumption DEF Unused, Entry, Closed, Opened, File, Idle, Call, NoSlot

\* Setting one field of an entry, of a file or of a call keeps its type.
LEMMA Updates ==
  /\ \A e \in Entry, o \in Int : [e EXCEPT !.offset = o] \in Entry
  /\ \A f \in File, p \in 0..FileSize : [f EXCEPT !.pos = p] \in File
  /\ \A f \in File : [f EXCEPT !.given = TRUE] \in File
BY DEF Entry, File

LEMMA HandlesNat == Handles \cup {0} \subseteq Nat
BY ConstantsAssumption

LEMMA OpenTypes ==
  ASSUME TypeOK, NEW t \in Threads, FSOpenFile(t)
  PROVE  TypeOK'
<1>0. PICK p \in Paths : \E q \in Lookup[p] :
        OpenListed(t, q) \/ OpenUnlisted(p, q) \/ OpenAbsent(p, q)
  BY DEF FSOpenFile
<1>1. PICK q \in Lookup[p] :
        OpenListed(t, q) \/ OpenUnlisted(p, q) \/ OpenAbsent(p, q)
  BY <1>0
<1>2. UNCHANGED <<hooks, patched, served, stale>>
  BY DEF FSOpenFile
<1>3. CASE OpenListed(t, q)
  <2>1. PICK h \in Available :
          /\ files' = [files EXCEPT ![h] = Opened(TRUE, FALSE)]
          /\ used' = used \cup {h}
          /\ pc' = [pc EXCEPT ![t] = [at |-> "find", handle |-> h, slot |-> NoSlot]]
    BY <1>3 DEF OpenListed
  <2>2. h \in Handles
    BY DEF Available
  <2>3. [at |-> "find", handle |-> h, slot |-> NoSlot] \in Call
    BY <2>2 DEF Call
  <2> QED  BY <1>2, <1>3, <2>1, <2>2, <2>3, Constructors DEF TypeOK, OpenListed
<1>4. CASE OpenUnlisted(p, q)
  <2>1. PICK leak \in Available :
          RealOpen(p, [files EXCEPT ![leak] = Opened(TRUE, FALSE)], {leak})
    BY <1>4 DEF OpenUnlisted
  <2>2. leak \in Handles
    BY DEF Available
  <2>3. [files EXCEPT ![leak] = Opened(TRUE, FALSE)] \in [Handles -> File]
    BY <2>2, Constructors DEF TypeOK
  <2>4. CASE p \in OnDisc
    <3>1. PICK h \in Available :
            /\ files' = [[files EXCEPT ![leak] = Opened(TRUE, FALSE)]
                           EXCEPT ![h] = Opened(FALSE, TRUE)]
            /\ used' = used \cup {leak, h}
      BY <2>1, <2>4 DEF RealOpen
    <3>2. h \in Handles
      BY DEF Available
    <3>3. files' \in [Handles -> File]
      BY <2>3, <3>1, <3>2, Constructors
    <3> QED  BY <1>2, <1>4, <2>2, <3>1, <3>2, <3>3 DEF TypeOK, OpenUnlisted
  <2>5. CASE p \notin OnDisc
    <3>1. /\ files' = [files EXCEPT ![leak] = Opened(TRUE, FALSE)]
          /\ used' = used \cup {leak}
      BY <2>1, <2>5 DEF RealOpen
    <3> QED  BY <1>2, <1>4, <2>2, <2>3, <3>1 DEF TypeOK, OpenUnlisted
  <2> QED  BY <2>4, <2>5
<1>5. CASE OpenAbsent(p, q)
  <2>1. files' \in [Handles -> File] /\ used' \subseteq Handles
    BY <1>5, Constructors DEF TypeOK, OpenAbsent, RealOpen, Available
  <2> QED  BY <1>2, <1>5, <2>1 DEF TypeOK, OpenAbsent, FatalError
<1> QED  BY <1>1, <1>3, <1>4, <1>5

LEMMA AddTypes ==
  ASSUME TypeOK, NEW t \in Threads, AddFind(t) \/ AddStore(t)
  PROVE  TypeOK'
<1>1. pc[t] \in Call /\ pc[t].handle \in Handles \cup {0}
  BY DEF TypeOK, Call
<1>2. [files EXCEPT ![pc[t].handle].given = TRUE] \in [Handles -> File]
  BY Updates DEF TypeOK
<1>3. [pc EXCEPT ![t] = Idle] \in [Threads -> Call]
  BY Constructors DEF TypeOK
<1>4. CASE AddFind(t) /\ FreeSlots = {}
  BY <1>2, <1>3, <1>4 DEF TypeOK, AddFind, FatalError
<1>5. CASE AddFind(t) /\ FreeSlots # {}
  <2>1. First(FreeSlots) \in Slots
    <3>1. FreeSlots \subseteq Slots
      BY DEF FreeSlots
    <3> QED  BY <1>5, <3>1, FirstIn
  <2>2. [pc[t] EXCEPT !.at = "store", !.slot = First(FreeSlots)] \in Call
    BY <1>1, <2>1 DEF Call
  <2>3. pc' = [pc EXCEPT ![t] = [pc[t] EXCEPT !.at = "store", !.slot = First(FreeSlots)]]
    BY <1>5 DEF AddFind, TypeOK, Call
  <2> QED  BY <1>5, <2>2, <2>3 DEF TypeOK, AddFind
<1>6. CASE AddStore(t)
  <2>1. [active |-> TRUE, handle |-> pc[t].handle, offset |-> 0] \in Entry
    BY <1>1, HandlesNat DEF Entry
  <2> QED  BY <1>2, <1>3, <1>6, <2>1 DEF TypeOK, AddStore
<1> QED  BY <1>4, <1>5, <1>6

LEMMA UseTypes ==
  ASSUME TypeOK, NEW h \in Handles, UseFile(h)
  PROVE  TypeOK'
<1> DEFINE i == HookOf(h)
<1>1. i \in Slots \cup {NoSlot}
  BY FindSpec DEF HookOf
<1>2. files[h] \in File /\ files[h].pos \in 0..FileSize /\ files[h].sd \in BOOLEAN
  BY DEF TypeOK, File
<1>3. i # NoSlot => hooks[i] \in Entry /\ hooks[i].offset \in Int
  BY <1>1 DEF TypeOK, Entry
<1> HIDE DEF i
<1>4. ASSUME NEW o \in Int
      PROVE  i # NoSlot => [hooks EXCEPT ![i].offset = o] \in [Slots -> Entry]
  BY <1>1, <1>3, Updates DEF TypeOK
<1>5. ASSUME NEW at \in 0..FileSize
      PROVE  [files EXCEPT ![h].pos = at] \in [Handles -> File]
  BY <1>2, Updates DEF TypeOK
<1>6. ASSUME NEW n \in 1..FileSize, FSReadFile(h, n)
      PROVE  TypeOK'
  <2> DEFINE at == files[h].pos
             got == Delivered(n, at)
  <2>1. n \in 0..FileSize
    BY ConstantsAssumption
  <2>2. got \in 0..FileSize /\ at + got \in 0..FileSize
    BY <1>2, <2>1, DeliveredBounds
  <2>3. /\ served' = [op |-> "read", handle |-> h, sd |-> files[h].sd,
                      from |-> at, len |-> got, decrypted |-> i # NoSlot,
                      key |-> IF i = NoSlot THEN 0 ELSE hooks[i].offset]
        /\ hooks' = IF i = NoSlot THEN hooks
                    ELSE [hooks EXCEPT ![i].offset = hooks[i].offset + got]
        /\ files' = [files EXCEPT ![h].pos = at + got]
        /\ UNCHANGED <<used, pc, patched, fatal, stale>>
    BY <1>6 DEF FSReadFile, i
  <2> HIDE DEF got, at
  <2>4. served' \in Service
    BY <1>2, <1>3, <2>2, <2>3 DEF Service, at
  <2>5. hooks' \in [Slots -> Entry]
    <3>1. i # NoSlot => hooks[i].offset + got \in Int
      BY <1>3, <2>2
    <3> QED  BY <1>4, <2>3, <3>1 DEF TypeOK
  <2>6. files' \in [Handles -> File]
    BY <1>5, <2>2, <2>3
  <2> QED  BY <2>3, <2>4, <2>5, <2>6 DEF TypeOK
<1>7. ASSUME NEW e \in ErrorCodes, FSReadFileFails(h, e)
      PROVE  TypeOK'
  <2>1. /\ i # NoSlot
        /\ hooks' = [hooks EXCEPT ![i].offset = hooks[i].offset + e]
        /\ UNCHANGED <<files, used, pc, patched, fatal, served, stale>>
    BY <1>7 DEF FSReadFileFails, i
  <2>2. hooks[i].offset + e \in Int
    BY <1>3, <2>1, ConstantsAssumption
  <2> QED  BY <1>4, <2>1, <2>2 DEF TypeOK
<1>8. ASSUME NEW n \in 1..FileSize, NEW at \in 0..FileSize,
             FSReadFileWithPos(h, n, at)
      PROVE  TypeOK'
  <2> DEFINE got == Delivered(n, at)
  <2>1. n \in 0..FileSize
    BY ConstantsAssumption
  <2>2. got \in 0..FileSize /\ at + got \in 0..FileSize
    BY <2>1, DeliveredBounds
  <2>3. /\ \/ served' = [op |-> "readpos", handle |-> h, sd |-> files[h].sd,
                         from |-> at, len |-> got, decrypted |-> FALSE, key |-> 0]
           \/ UNCHANGED served
        /\ files' = files \/ files' = [files EXCEPT ![h].pos = at + got]
        /\ UNCHANGED <<used, pc, patched, fatal, stale>>
    BY <1>8 DEF FSReadFileWithPos
  <2>4. \/ UNCHANGED hooks
        \/ i # NoSlot /\ \E size_r \in {got} \cup ErrorCodes :
             hooks' = [hooks EXCEPT ![i].offset = at + size_r]
    BY <1>8 DEF FSReadFileWithPos, i
  <2> HIDE DEF got
  <2>5. served' \in Service
    <3>1. CASE UNCHANGED served
      BY <3>1 DEF TypeOK
    <3>2. CASE served' = [op |-> "readpos", handle |-> h, sd |-> files[h].sd,
                          from |-> at, len |-> got, decrypted |-> FALSE, key |-> 0]
      BY <1>2, <2>2, <3>2 DEF Service
    <3> QED  BY <2>3, <3>1, <3>2
  <2>6. hooks' \in [Slots -> Entry]
    <3>1. CASE UNCHANGED hooks
      BY <3>1 DEF TypeOK
    <3>2. ASSUME i # NoSlot, NEW size_r \in {got} \cup ErrorCodes,
                 hooks' = [hooks EXCEPT ![i].offset = at + size_r]
          PROVE  hooks' \in [Slots -> Entry]
      <4>1. at + size_r \in Int
        BY <2>2, ConstantsAssumption
      <4> QED  BY <1>4, <3>2, <4>1
    <3> QED  BY <2>4, <3>1, <3>2
  <2>7. files' \in [Handles -> File]
    BY <1>5, <2>2, <2>3 DEF TypeOK
  <2> QED  BY <2>3, <2>5, <2>6, <2>7 DEF TypeOK
<1>9. ASSUME NEW at \in 0..FileSize, FSSetPosFile(h, at)
      PROVE  TypeOK'
  <2>1. hooks' = IF i = NoSlot THEN hooks ELSE [hooks EXCEPT ![i].offset = at]
    BY <1>9 DEF FSSetPosFile, i
  <2>2. hooks' \in [Slots -> Entry]
    BY <1>4, <2>1 DEF TypeOK
  <2>3. files' \in [Handles -> File]
    BY <1>5, <1>9 DEF FSSetPosFile, TypeOK
  <2> QED  BY <1>9, <2>2, <2>3 DEF FSSetPosFile, TypeOK
<1>10. ASSUME FSCloseFile(h)
       PROVE  TypeOK'
  <2>1. stale' \subseteq Handles
    BY <1>10 DEF FSCloseFile, TypeOK
  <2> QED  BY <1>10, <2>1, Constructors DEF FSCloseFile, TypeOK
<1> QED  BY <1>6, <1>7, <1>8, <1>9, <1>10 DEF UseFile

\* Every action keeps the types: in particular the slot AddStore writes to is one
\* of the table, and no read leaves a file's position past its end.
LEMMA TypesStep == TypeOK /\ [Next]_vars => TypeOK'
<1> SUFFICES ASSUME TypeOK, [Next]_vars  PROVE TypeOK'
  OBVIOUS
<1>1. ASSUME NEW t \in Threads, Step(t)  PROVE TypeOK'
  <2>1. CASE FSOpenFile(t)
    BY <2>1, OpenTypes
  <2>2. CASE AddFind(t) \/ AddStore(t)
    BY <2>2, AddTypes
  <2>3. CASE OpenUnhooked(t)
    BY <2>3, Constructors DEF OpenUnhooked, TypeOK, RealOpen, Available
  <2>4. CASE \E h \in Handles : Given(h) /\ UseFile(h)
    BY <2>4, UseTypes
  <2> QED  BY <1>1, <2>1, <2>2, <2>3, <2>4 DEF Step
<1>2. CASE ReleaseForeground \/ EnterForeground
  BY <1>2 DEF ReleaseForeground, EnterForeground, TypeOK
<1>3. CASE UNCHANGED vars
  BY <1>3 DEF vars, TypeOK
<1> QED  BY <1>1, <1>2, <1>3 DEF Next

\* The state of the redirection stays well typed (filesystem.cpp:38-66, :101-182).
THEOREM TypeCorrect == Spec => []TypeOK
<1>1. Init => TypeOK
  BY Constructors, ConstantsAssumption DEF Init, TypeOK, Service
<1> QED  BY <1>1, TypesStep, PTL DEF Spec
-----------------------------------------------------------------------------
(* The key stream stays away from the game's own files, but for one case.   *)
(* Entries are never removed, so the table is full of handles of closed      *)
(* files; a file of the game gets decrypted when such a handle comes back as *)
(* its own, and in no other way.                                             *)

\* Handed out for a file on the SD card: that file is open, or was closed.
FromSd(h) == h \in used /\ (h \in stale \/ (files[h].open /\ files[h].sd))

EntriesFromSd == \A i \in Slots : hooks[i].active => FromSd(hooks[i].handle)

PendingFromSd == \A t \in Threads : pc[t].at # "idle" => FromSd(pc[t].handle)

UntouchedInv ==
  /\ TypeOK
  /\ EntriesFromSd
  /\ PendingFromSd
  /\ GameFilesUntouched

\* Nothing but a close changes stale, and it only adds to it.
LEMMA StaleGrows ==
  ASSUME [Next]_vars
  PROVE  stale \subseteq stale'
BY DEF Next, Step, FSOpenFile, AddFind, AddStore, OpenUnhooked, UseFile, FSReadFile,
       FSReadFileFails, FSReadFileWithPos, FSSetPosFile, FSCloseFile,
       ReleaseForeground, EnterForeground, vars

\* An open file keeps its handle to itself.
LEMMA OpenIsTaken ==
  ASSUME TypeOK, NEW h \in used, files[h].open
  PROVE  h \notin Available
BY DEF Available

\* Opening takes a handle of no open file, so it leaves FromSd handles be.
LEMMA RealOpenKeepsFromSd ==
  ASSUME TypeOK, NEW p, RealOpen(p, files, {}), NEW h, h \in used,
         files[h].open, files[h].sd
  PROVE  h \in used' /\ files'[h].open /\ files'[h].sd
<1>1. CASE p \in OnDisc
  <2>1. PICK g \in Available :
          /\ files' = [files EXCEPT ![g] = Opened(FALSE, TRUE)]
          /\ used' = used \cup {g}
    BY <1>1 DEF RealOpen
  <2>2. g # h
    BY OpenIsTaken
  <2> QED  BY <2>1, <2>2 DEF TypeOK
<1>2. CASE p \notin OnDisc
  BY <1>2 DEF RealOpen
<1> QED  BY <1>1, <1>2

\* What a step does to the open files keeps FromSd.
LEMMA FromSdStep ==
  ASSUME TypeOK, [Next]_vars, NEW h, FromSd(h)
  PROVE  FromSd(h)'
<1>0. h \in Handles
  BY DEF TypeOK, FromSd
<1>grows. stale \subseteq stale'
  BY StaleGrows
<1>used. used \subseteq used'
  <2>1. ASSUME NEW p, NEW opens, NEW taken, RealOpen(p, opens, taken)
        PROVE  used \subseteq used'
    BY <2>1 DEF RealOpen
  <2> QED  BY <2>1 DEF Next, Step, FSOpenFile, OpenListed, OpenUnlisted, OpenAbsent,
             AddFind, AddStore, OpenUnhooked, UseFile, FSReadFile, FSReadFileFails,
             FSReadFileWithPos, FSSetPosFile, FSCloseFile, ReleaseForeground,
             EnterForeground, vars
<1>closed. CASE h \in stale
  BY <1>grows, <1>used, <1>closed DEF FromSd
<1>open. SUFFICES ASSUME h \in used, files[h].open, files[h].sd
               PROVE  FromSd(h)'
  BY <1>closed DEF FromSd
<1>taken. h \notin Available
  BY OpenIsTaken, <1>open
<1>1. ASSUME NEW t \in Threads, FSOpenFile(t)
      PROVE  FromSd(h)'
  <2>1. PICK p \in Paths : \E q \in Lookup[p] :
          OpenListed(t, q) \/ OpenUnlisted(p, q) \/ OpenAbsent(p, q)
    BY <1>1 DEF FSOpenFile
  <2>2. PICK q \in Lookup[p] :
          OpenListed(t, q) \/ OpenUnlisted(p, q) \/ OpenAbsent(p, q)
    BY <2>1
  <2>3. CASE OpenListed(t, q)
    <3>1. PICK g \in Available : /\ files' = [files EXCEPT ![g] = Opened(TRUE, FALSE)]
                                 /\ used' = used \cup {g}
      BY <2>3 DEF OpenListed
    <3>2. g # h
      BY <1>taken
    <3> QED  BY <1>open, <3>1, <3>2 DEF FromSd, TypeOK
  <2>4. CASE OpenUnlisted(p, q)
    <3>1. PICK leak \in Available :
            RealOpen(p, [files EXCEPT ![leak] = Opened(TRUE, FALSE)], {leak})
      BY <2>4 DEF OpenUnlisted
    <3>2. leak # h
      BY <1>taken
    <3>3. CASE p \in OnDisc
      <4>1. PICK g \in Available :
              /\ files' = [[files EXCEPT ![leak] = Opened(TRUE, FALSE)]
                             EXCEPT ![g] = Opened(FALSE, TRUE)]
              /\ used' = used \cup {leak, g}
        BY <3>1, <3>3 DEF RealOpen
      <4>2. g # h
        BY <1>taken
      <4> QED  BY <1>0, <1>open, <3>2, <4>1, <4>2 DEF FromSd, TypeOK
    <3>4. CASE p \notin OnDisc
      BY <1>open, <3>1, <3>2, <3>4 DEF RealOpen, FromSd, TypeOK
    <3> QED  BY <3>3, <3>4
  <2>5. CASE OpenAbsent(p, q)
    BY <1>open, <2>5, RealOpenKeepsFromSd DEF OpenAbsent, FromSd
  <2> QED  BY <2>2, <2>3, <2>4, <2>5
<1>2. ASSUME NEW t \in Threads, AddFind(t) \/ AddStore(t)
      PROVE  FromSd(h)'
  <2>1. /\ used' = used
        /\ \/ UNCHANGED files
           \/ files' = [files EXCEPT ![pc[t].handle].given = TRUE]
    BY <1>2 DEF AddFind, AddStore
  <2>2. files'[h].open = files[h].open /\ files'[h].sd = files[h].sd
    <3>1. files[h] \in File /\ files \in [Handles -> File]
      BY <1>0 DEF TypeOK
    <3> QED  BY <1>0, <2>1, <3>1 DEF File
  <2> QED  BY <1>open, <2>1, <2>2 DEF FromSd
<1>3. ASSUME NEW t \in Threads, OpenUnhooked(t)
      PROVE  FromSd(h)'
  BY <1>open, <1>3, RealOpenKeepsFromSd DEF OpenUnhooked, FromSd
<1>4. ASSUME NEW g \in Handles, UseFile(g)
      PROVE  FromSd(h)'
  <2>1. /\ used' = used
        /\ \/ UNCHANGED files
           \/ \E at : files' = [files EXCEPT ![g].pos = at]
           \/ /\ files' = [files EXCEPT ![g] = Closed]
              /\ files[g].sd => g \in stale'
    BY <1>4 DEF UseFile, FSReadFile, FSReadFileFails, FSReadFileWithPos,
                FSSetPosFile, FSCloseFile
  <2>2. h \in stale' \/ (files'[h].open /\ files'[h].sd)
    <3>1. files[h] \in File /\ files \in [Handles -> File]
      BY <1>0 DEF TypeOK
    <3>2. CASE h # g
      BY <1>0, <1>open, <2>1, <3>1, <3>2
    <3>3. CASE h = g
      BY <1>open, <2>1, <3>1, <3>3 DEF File
    <3> QED  BY <3>2, <3>3
  <2> QED  BY <2>1, <2>2 DEF FromSd
<1>5. CASE ReleaseForeground \/ EnterForeground \/ UNCHANGED vars
  BY <1>5 DEF ReleaseForeground, EnterForeground, vars, FromSd
<1> QED  BY <1>1, <1>2, <1>3, <1>4, <1>5 DEF Next, Step

\* Only AddStore makes an entry point at another handle.
LEMMA EntriesStep ==
  ASSUME UntouchedInv, [Next]_vars
  PROVE  EntriesFromSd'
<1> USE DEF UntouchedInv
<1>1. SUFFICES ASSUME NEW i \in Slots, hooks'[i].active
               PROVE  FromSd(hooks[i].handle)' 
  BY DEF EntriesFromSd
<1>2. CASE /\ hooks'[i].active = hooks[i].active
           /\ hooks'[i].handle = hooks[i].handle
  BY <1>1, <1>2, FromSdStep DEF EntriesFromSd, FromSd
<1>3. ASSUME NEW t \in Threads, AddStore(t), i = pc[t].slot
      PROVE  FromSd(hooks[i].handle)'
  <2>1. hooks'[i].handle = pc[t].handle
    BY <1>3 DEF AddStore, TypeOK
  <2>2. FromSd(pc[t].handle)
    BY <1>3 DEF AddStore, PendingFromSd
  <2> QED  BY <2>1, <2>2, FromSdStep DEF FromSd
<1>4. ASSUME NEW t \in Threads, AddStore(t), i # pc[t].slot
      PROVE  FromSd(hooks[i].handle)'
  BY <1>2, <1>4 DEF AddStore, TypeOK
<1>5. ASSUME NEW g \in Handles, UseFile(g)
      PROVE  FromSd(hooks[i].handle)'
  <2>1. \/ UNCHANGED hooks
        \/ \E o : hooks' = [hooks EXCEPT ![HookOf(g)].offset = o]
    BY <1>5 DEF UseFile, FSReadFile, FSReadFileFails, FSReadFileWithPos,
                FSSetPosFile, FSCloseFile
  <2> QED  BY <1>2, <2>1 DEF TypeOK, Entry
<1>6. CASE UNCHANGED hooks
  BY <1>2, <1>6
<1> QED  BY <1>3, <1>4, <1>5, <1>6
         DEF Next, Step, FSOpenFile, AddFind, OpenUnhooked, ReleaseForeground,
             EnterForeground, vars

\* Only FSOpenFile puts a thread between its open and its store.
LEMMA PendingStep ==
  ASSUME UntouchedInv, [Next]_vars
  PROVE  PendingFromSd'
<1> USE DEF UntouchedInv
<1>1. SUFFICES ASSUME NEW u \in Threads, pc'[u].at # "idle"
               PROVE  FromSd(pc[u].handle)'
  BY DEF PendingFromSd
<1>2. CASE pc[u].at # "idle" /\ pc'[u].handle = pc[u].handle
  BY <1>2, FromSdStep DEF PendingFromSd, FromSd
<1>3. ASSUME NEW t \in Threads, FSOpenFile(t)
      PROVE  FromSd(pc[u].handle)'
  <2>1. PICK p \in Paths : \E q \in Lookup[p] :
          OpenListed(t, q) \/ OpenUnlisted(p, q) \/ OpenAbsent(p, q)
    BY <1>3 DEF FSOpenFile
  <2>2. CASE \E q : OpenListed(t, q)
    <3>1. PICK h \in Available :
            /\ files' = [files EXCEPT ![h] = Opened(TRUE, FALSE)]
            /\ used' = used \cup {h}
            /\ pc' = [pc EXCEPT ![t] = [at |-> "find", handle |-> h, slot |-> NoSlot]]
      BY <2>2 DEF OpenListed
    <3>2. CASE u = t
      BY <3>1, <3>2 DEF TypeOK, FromSd, Opened, Available
    <3>3. CASE u # t
      BY <1>1, <1>2, <3>1, <3>3 DEF TypeOK
    <3> QED  BY <3>2, <3>3
  <2>3. CASE UNCHANGED pc
    BY <1>1, <1>2, <2>3
  <2> QED  BY <2>1, <2>2, <2>3 DEF OpenUnlisted, OpenAbsent
<1>4. ASSUME NEW t \in Threads, AddFind(t) \/ AddStore(t)
      PROVE  FromSd(pc[u].handle)'
  <2>1. pc[t].at # "idle"
    BY <1>4 DEF AddFind, AddStore
  <2>2. \/ pc'[u] = pc[u]
        \/ u = t /\ (pc'[u].at = "idle" \/ pc'[u].handle = pc[u].handle)
    BY <1>4 DEF AddFind, AddStore, TypeOK, Call, Idle
  <2> QED  BY <1>1, <1>2, <2>1, <2>2
<1>5. CASE UNCHANGED pc
  BY <1>1, <1>2, <1>5
<1> QED  BY <1>3, <1>4, <1>5
         DEF Next, Step, OpenUnhooked, UseFile, FSReadFile, FSReadFileFails,
             FSReadFileWithPos, FSSetPosFile, FSCloseFile, ReleaseForeground,
             EnterForeground, vars

\* A read that finds an entry reads a file of the SD card, or through the handle
\* of one that was closed.
LEMMA UntouchedStep ==
  ASSUME UntouchedInv, [Next]_vars
  PROVE  GameFilesUntouched'
<1> USE DEF UntouchedInv
<1>0. stale \subseteq stale'
  BY StaleGrows
<1>1. ASSUME NEW h \in Handles, Given(h), UseFile(h)
      PROVE  GameFilesUntouched'
  <2>1. CASE \E n \in 1..FileSize : FSReadFile(h, n)
    <3>1. /\ served'.sd = files[h].sd /\ served'.decrypted = (HookOf(h) # NoSlot)
          /\ served'.handle = h /\ stale' = stale
      BY <2>1 DEF FSReadFile
    <3>2. HookOf(h) # NoSlot => files[h].sd \/ h \in stale
      BY <1>1, FindSpec DEF HookOf, EntriesFromSd, FromSd, Given, NoSlot
    <3> QED  BY <3>1, <3>2 DEF GameFilesUntouched
  <2>2. CASE \E n \in 1..FileSize, at \in 0..FileSize : FSReadFileWithPos(h, n, at)
    BY <1>0, <2>2 DEF FSReadFileWithPos, GameFilesUntouched
  <2>3. CASE UNCHANGED served
    BY <1>0, <2>3 DEF GameFilesUntouched
  <2> QED  BY <1>1, <2>1, <2>2, <2>3
           DEF UseFile, FSReadFileFails, FSSetPosFile, FSCloseFile
<1>2. CASE UNCHANGED served
  BY <1>0, <1>2 DEF GameFilesUntouched
<1> QED  BY <1>1, <1>2
         DEF Next, Step, FSOpenFile, AddFind, AddStore, OpenUnhooked,
             ReleaseForeground, EnterForeground, vars

\* Whatever opens, reads, seeks, closes, races, I/O errors, reused handles and
\* switches to the background there are, a file of the game's disc is decrypted
\* only through the handle of a redirected file that was closed, whose entry no
\* hook removed (filesystem.cpp:56-65, :149-160).
THEOREM GameFilesSafe == Spec => []GameFilesUntouched
<1>1. Init => UntouchedInv
  <2>1. Init => TypeOK
    BY Constructors, ConstantsAssumption DEF Init, TypeOK, Service
  <2> QED  BY <2>1 DEF Init, UntouchedInv, EntriesFromSd, PendingFromSd,
                       GameFilesUntouched, Unused, Idle
<1>2. UntouchedInv /\ [Next]_vars => UntouchedInv'
  BY TypesStep, EntriesStep, PendingStep, UntouchedStep DEF UntouchedInv
<1>3. UntouchedInv => GameFilesUntouched
  BY DEF UntouchedInv
<1> QED  BY <1>1, <1>2, <1>3, PTL DEF Spec
-----------------------------------------------------------------------------
(* One thread that opens files, none of whose reads fails, with the hooks  *)
(* in the code: then every redirected file is tracked and reads plain.     *)

Quiet ==
  /\ ~Reuse /\ ErrorCodes = {} /\ ~Background
  /\ \A t, u \in Threads : t = u

\* An entry of an open file knows where the file is.
EntriesFollow ==
  \A i \in Slots : hooks[i].active /\ files[hooks[i].handle].open =>
    hooks[i].offset = files[hooks[i].handle].pos

OneEntryEach ==
  \A i, j \in Slots :
    hooks[i].active /\ hooks[j].active /\ hooks[i].handle = hooks[j].handle => i = j

\* A file on its way into the table is new, and the entry found for it still free.
PendingNew ==
  \A t \in Threads : pc[t].at # "idle" =>
    /\ files[pc[t].handle].pos = 0 /\ ~files[pc[t].handle].given
    /\ Matching(pc[t].handle) = {}
    /\ pc[t].at = "store" => pc[t].slot \in FreeSlots

\* A handle that is not handed out again stays closed.
StaleClosed ==
  /\ \A h \in stale : h \in used /\ ~files[h].open
  /\ \A h \in Handles : files[h].open => h \in used

QuietInv ==
  /\ UntouchedInv /\ patched /\ StaleClosed
  /\ EntriesFollow /\ OneEntryEach /\ PendingNew
  /\ OpenedIsTracked /\ SequentialReadsPlain

\* What FSOpenFile opens are handles that never were in use.
LEMMA OpensNew ==
  ASSUME ~Reuse, TypeOK, NEW t \in Threads, FSOpenFile(t), NEW h \in Handles
  PROVE  /\ used \subseteq used' /\ (files'[h] # files[h] => h \in used')
         /\ \/ files'[h] = files[h]
            \/ h \notin used /\ files'[h] \in {Opened(FALSE, TRUE), Opened(TRUE, FALSE)}
<1>1. PICK p \in Paths : \E q \in Lookup[p] :
        OpenListed(t, q) \/ OpenUnlisted(p, q) \/ OpenAbsent(p, q)
  BY DEF FSOpenFile
<1>2. PICK q \in Lookup[p] :
        OpenListed(t, q) \/ OpenUnlisted(p, q) \/ OpenAbsent(p, q)
  BY <1>1
<1>3. files \in [Handles -> File] /\ Available = Handles \ used
  BY DEF TypeOK, Available
<1>4. CASE OpenListed(t, q)
  BY <1>3, <1>4 DEF OpenListed
<1>5. CASE OpenUnlisted(p, q)
  <2>1. PICK leak \in Available :
          RealOpen(p, [files EXCEPT ![leak] = Opened(TRUE, FALSE)], {leak})
    BY <1>5 DEF OpenUnlisted
  <2>2. CASE p \in OnDisc
    <3>1. PICK g \in Available \ {leak} :
            /\ files' = [[files EXCEPT ![leak] = Opened(TRUE, FALSE)]
                           EXCEPT ![g] = Opened(FALSE, TRUE)]
            /\ used' = used \cup {leak} \cup {g}
      BY <2>1, <2>2 DEF RealOpen
    <3> QED BY <1>3, <3>1
  <2>3. CASE p \notin OnDisc
    BY <1>3, <2>1, <2>3 DEF RealOpen
  <2> QED BY <2>2, <2>3
<1>6. CASE OpenAbsent(p, q)
  BY <1>3, <1>6 DEF OpenAbsent, RealOpen
<1> QED BY <1>2, <1>4, <1>5, <1>6

LEMMA QuietOpen ==
  ASSUME Quiet, QuietInv, NEW t \in Threads, FSOpenFile(t)
  PROVE  EntriesFollow' /\ OneEntryEach' /\ PendingNew' /\ OpenedIsTracked'
         /\ SequentialReadsPlain'
<1> USE DEF QuietInv, UntouchedInv
<1>1. /\ hooks' = hooks /\ served' = served /\ pc[t].at = "idle"
      /\ fatal' = NoError => fatal = NoError
  BY DEF FSOpenFile, OpenListed, OpenUnlisted, OpenAbsent, FatalError
<1>2. \A h \in Handles :
        \/ files'[h] = files[h]
        \/ h \notin used /\ files'[h] \in {Opened(FALSE, TRUE), Opened(TRUE, FALSE)}
  BY OpensNew DEF Quiet
<1>3. used \subseteq Handles /\ \A i \in Slots : hooks[i].active => hooks[i].handle \in used
  BY DEF TypeOK, EntriesFromSd, FromSd
<1>4. EntriesFollow' /\ OneEntryEach'
  BY <1>1, <1>2, <1>3 DEF EntriesFollow, OneEntryEach
<1>5. OpenedIsTracked'
  BY <1>1, <1>2 DEF OpenedIsTracked, Given, Opened, Matching
<1>6. SequentialReadsPlain'
  BY <1>1 DEF SequentialReadsPlain, Plain
<1>7. PendingNew'
  <2> SUFFICES ASSUME pc'[t].at # "idle"
               PROVE  /\ files'[pc'[t].handle].pos = 0 /\ ~files'[pc'[t].handle].given
                      /\ Matching(pc[t].handle)' = {}
                      /\ pc'[t].at # "store"
    BY DEF PendingNew, Quiet
  <2>1. PICK h \in Available :
          /\ files' = [files EXCEPT ![h] = Opened(TRUE, FALSE)]
          /\ pc' = [pc EXCEPT ![t] = [at |-> "find", handle |-> h, slot |-> NoSlot]]
    BY <1>1 DEF FSOpenFile, OpenListed, OpenUnlisted, OpenAbsent
  <2>2. h \in Handles /\ h \notin used
    BY DEF Available, Quiet
  <2>3. pc'[t] = [at |-> "find", handle |-> h, slot |-> NoSlot]
    BY <2>1 DEF TypeOK
  <2>4. files'[h] = Opened(TRUE, FALSE)
    BY <2>1, <2>2 DEF TypeOK
  <2>5. Matching(pc[t].handle)' = {}
    BY <1>1, <1>3, <2>2, <2>3 DEF Matching
  <2> QED BY <2>3, <2>4, <2>5 DEF Opened
<1> QED BY <1>4, <1>5, <1>6, <1>7

LEMMA QuietAdd ==
  ASSUME Quiet, QuietInv, NEW t \in Threads, AddFind(t) \/ AddStore(t)
  PROVE  EntriesFollow' /\ OneEntryEach' /\ PendingNew' /\ OpenedIsTracked'
         /\ SequentialReadsPlain'
<1> USE DEF QuietInv, UntouchedInv
<1> DEFINE h == pc[t].handle
<1>1. /\ served' = served /\ pc[t].at # "idle"
      /\ fatal' = NoError => fatal = NoError
  BY DEF AddFind, AddStore, FatalError
<1>2. h \in used /\ h \in Handles /\ Matching(h) = {} /\ files[h].pos = 0
  BY <1>1 DEF TypeOK, PendingFromSd, FromSd, PendingNew
<1>3. SequentialReadsPlain'
  BY <1>1 DEF SequentialReadsPlain, Plain
<1>4. ASSUME NEW g \in Handles
      PROVE  /\ files'[g].open = files[g].open /\ files'[g].sd = files[g].sd
             /\ files'[g].pos = files[g].pos
             /\ g # h => files'[g].given = files[g].given
  <2>1. files[g] \in File /\ files \in [Handles -> File]
    BY DEF TypeOK
  <2>2. files' = files \/ files' = [files EXCEPT ![h].given = TRUE]
    BY DEF AddFind, AddStore
  <2> HIDE DEF h
  <2> QED BY <2>1, <2>2 DEF File
<1>5. \A i \in Slots : hooks[i].active => hooks[i].handle \in Handles
  BY DEF TypeOK, EntriesFromSd, FromSd
<1>6. CASE AddFind(t)
  <2>1. hooks' = hooks
    BY <1>6 DEF AddFind
  <2>2. EntriesFollow' /\ OneEntryEach'
    BY <1>4, <1>5, <2>1 DEF EntriesFollow, OneEntryEach
  <2>3. CASE FreeSlots = {}
    <3>1. fatal' # NoError /\ pc'[t] = Idle
      BY <1>6, <2>3 DEF AddFind, FatalError, NoError, TooManyFiles, TypeOK
    <3> QED BY <1>3, <2>2, <3>1 DEF OpenedIsTracked, PendingNew, Idle, Quiet
  <2>4. CASE FreeSlots # {}
    <3>1. First(FreeSlots) \in FreeSlots
      <4>1. FreeSlots \subseteq Slots
        BY DEF FreeSlots
      <4> QED BY <2>4, <4>1, FirstIn
    <3>2. /\ files' = files
          /\ pc'[t].handle = h /\ pc'[t].slot = First(FreeSlots)
      BY <1>6, <2>4 DEF AddFind, TypeOK, Call
    <3>3. PendingNew'
      BY <1>1, <1>2, <2>1, <3>1, <3>2 DEF PendingNew, Quiet, Matching, FreeSlots
    <3>4. OpenedIsTracked'
      BY <1>1, <2>1, <3>2 DEF OpenedIsTracked, Given, Matching
    <3> QED BY <1>3, <2>2, <3>3, <3>4
  <2> QED BY <2>3, <2>4
<1>7. CASE AddStore(t)
  <2> DEFINE i == pc[t].slot
  <2>1. i \in Slots /\ ~hooks[i].active
    BY <1>7, <1>1 DEF AddStore, PendingNew, FreeSlots
  <2>2. /\ hooks'[i] = [active |-> TRUE, handle |-> h, offset |-> 0]
        /\ \A j \in Slots \ {i} : hooks'[j] = hooks[j]
        /\ pc'[t] = Idle
    BY <1>7, <2>1 DEF AddStore, TypeOK
  <2> HIDE DEF i, h
  <2>3. EntriesFollow'
    BY <1>2, <1>4, <1>5, <2>1, <2>2 DEF EntriesFollow
  <2>4. OneEntryEach'
    BY <1>2, <2>1, <2>2 DEF OneEntryEach, Matching
  <2>5. PendingNew'
    BY <2>2 DEF PendingNew, Quiet, Idle
  <2>6. ASSUME NEW g \in Handles, Given(g)', files'[g].sd, fatal' = NoError
        PROVE  Matching(g)' # {}
    <3>1. CASE g = h
      BY <2>1, <2>2, <3>1 DEF Matching
    <3>2. CASE g # h
      <4>1. PICK j \in Slots : hooks[j].active /\ hooks[j].handle = g
        BY <1>1, <1>4, <2>6, <3>2 DEF OpenedIsTracked, Given, Matching
      <4> QED BY <2>1, <2>2, <4>1 DEF Matching
    <3> QED BY <3>1, <3>2
  <2> QED BY <1>3, <2>3, <2>4, <2>5, <2>6 DEF OpenedIsTracked
<1> QED BY <1>6, <1>7

\* The entry that Find returns is the only one, and follows the file.
LEMMA FoundFollows ==
  ASSUME QuietInv, NEW h \in Handles, Given(h)
  PROVE  /\ Find(h) \in Slots \cup {NoSlot}
         /\ \A j \in Slots : hooks[j].active /\ hooks[j].handle = h <=> j = Find(h)
         /\ Find(h) # NoSlot => hooks[Find(h)].offset = files[h].pos
         /\ Find(h) = NoSlot => Matching(h) = {}
<1>1. /\ Find(h) \in Slots \cup {NoSlot}
      /\ Find(h) # NoSlot => hooks[Find(h)].active /\ hooks[Find(h)].handle = h
      /\ Find(h) = NoSlot => Matching(h) = {}
  BY FindSpec
<1>2. \A j \in Slots : hooks[j].active /\ hooks[j].handle = h <=> j = Find(h)
  BY <1>1, SlotsNat DEF QuietInv, OneEntryEach, Matching
<1> QED BY <1>1, <1>2 DEF QuietInv, EntriesFollow, Given

\* Entry and file move to the same place.
LEMMA MoveTogether ==
  ASSUME QuietInv, NEW h \in Handles, Given(h), NEW p \in Int,
         hooks' = IF Find(h) = NoSlot THEN hooks ELSE [hooks EXCEPT ![Find(h)].offset = p],
         files' = [files EXCEPT ![h].pos = p], fatal' = fatal
  PROVE  EntriesFollow' /\ OneEntryEach' /\ OpenedIsTracked'
<1> DEFINE i == Find(h)
<1>1. /\ i \in Slots \cup {NoSlot}
      /\ \A j \in Slots : hooks[j].active /\ hooks[j].handle = h <=> j = i
  BY FoundFollows
<1>2. /\ hooks \in [Slots -> Entry] /\ files \in [Handles -> File]
      /\ \A j \in Slots : hooks[j] \in Entry
      /\ \A g \in Handles : files[g] \in File
      /\ \A j \in Slots : hooks[j].active => hooks[j].handle \in Handles
  BY DEF QuietInv, UntouchedInv, TypeOK, EntriesFromSd, FromSd
<1> HIDE DEF i
<1>3. ASSUME NEW j \in Slots
      PROVE  /\ hooks'[j].active = hooks[j].active /\ hooks'[j].handle = hooks[j].handle
             /\ j = i => hooks'[j].offset = p
             /\ j # i => hooks'[j].offset = hooks[j].offset
  BY <1>1, <1>2, SlotsNat DEF Entry, i
<1>4. ASSUME NEW g \in Handles
      PROVE  /\ files'[g].open = files[g].open /\ files'[g].sd = files[g].sd
             /\ files'[g].given = files[g].given
             /\ files'[g].pos = IF g = h THEN p ELSE files[g].pos
  BY <1>2 DEF File
<1>5. EntriesFollow'
  <2> SUFFICES ASSUME NEW j \in Slots, hooks'[j].active, files'[hooks'[j].handle].open
               PROVE  hooks'[j].offset = files'[hooks'[j].handle].pos
    BY DEF EntriesFollow
  <2>1. hooks[j].active /\ hooks[j].handle \in Handles /\ files[hooks[j].handle].open
    BY <1>2, <1>3, <1>4
  <2>2. CASE j = i
    BY <1>1, <1>3, <1>4, <2>1, <2>2
  <2>3. CASE j # i
    BY <1>1, <1>3, <1>4, <2>1, <2>3 DEF QuietInv, EntriesFollow
  <2> QED BY <2>2, <2>3
<1>6. OneEntryEach'
  BY <1>3 DEF QuietInv, OneEntryEach
<1>7. OpenedIsTracked'
  BY <1>3, <1>4 DEF QuietInv, OpenedIsTracked, Given, Matching
<1> QED BY <1>5, <1>6, <1>7

LEMMA QuietUse ==
  ASSUME Quiet, QuietInv, NEW t \in Threads, pc[t].at = "idle",
         NEW h \in Handles, Given(h), UseFile(h)
  PROVE  EntriesFollow' /\ OneEntryEach' /\ PendingNew' /\ OpenedIsTracked'
         /\ SequentialReadsPlain'
<1>1. /\ pc' = pc /\ fatal' = fatal
      /\ HookOf(h) = Find(h)
      /\ files[h] \in File /\ files[h].pos \in 0..FileSize
  BY DEF UseFile, FSReadFile, FSReadFileFails, FSReadFileWithPos, FSSetPosFile,
         FSCloseFile, HookOf, QuietInv, UntouchedInv, TypeOK, File
<1>2. PendingNew'
  BY <1>1 DEF PendingNew, Quiet
<1>3. served' = served => SequentialReadsPlain'
  BY <1>1 DEF QuietInv, SequentialReadsPlain, Plain
<1>4. ASSUME NEW n \in 1..FileSize, FSReadFile(h, n)
      PROVE  EntriesFollow' /\ OneEntryEach' /\ OpenedIsTracked' /\ SequentialReadsPlain'
  <2> DEFINE i == Find(h)
             at == files[h].pos
             got == Delivered(n, at)
  <2>1. got \in 0..FileSize /\ at + got \in Int
    <3>1. n \in 0..FileSize
      BY ConstantsAssumption
    <3>2. at \in 0..FileSize
      BY <1>1
    <3> HIDE DEF at
    <3>3. got \in 0..FileSize /\ at + got \in 0..FileSize
      BY <3>1, <3>2, DeliveredBounds
    <3> QED BY <3>3, ConstantsAssumption
  <2>2. /\ served' = [op |-> "read", handle |-> h, sd |-> files[h].sd,
                      from |-> at, len |-> got, decrypted |-> i # NoSlot,
                      key |-> IF i = NoSlot THEN 0 ELSE hooks[i].offset]
        /\ hooks' = IF i = NoSlot THEN hooks
                    ELSE [hooks EXCEPT ![i].offset = hooks[i].offset + got]
        /\ files' = [files EXCEPT ![h].pos = at + got]
    BY <1>1, <1>4 DEF FSReadFile
  <2>3. /\ i # NoSlot => hooks[i].offset = at
        /\ i = NoSlot => Matching(h) = {}
    BY FoundFollows
  <2> HIDE DEF i, at, got
  <2>4. hooks' = IF i = NoSlot THEN hooks ELSE [hooks EXCEPT ![i].offset = at + got]
    BY <2>2, <2>3
  <2>5. EntriesFollow' /\ OneEntryEach' /\ OpenedIsTracked'
    BY <1>1, <2>1, <2>2, <2>4, MoveTogether DEF i
  <2>6. SequentialReadsPlain'
    <3>1. CASE i = NoSlot
      <4>1. fatal = NoError => ~files[h].sd
        BY <2>3, <3>1 DEF QuietInv, OpenedIsTracked
      <4> QED BY <1>1, <2>2, <3>1, <4>1 DEF SequentialReadsPlain, Plain
    <3>2. CASE i # NoSlot
      <4>1. files[h].sd
        BY <3>2, FindSpec DEF i, QuietInv, UntouchedInv, EntriesFromSd, FromSd,
           StaleClosed, Given, NoSlot
      <4> QED BY <2>2, <2>3, <3>2, <4>1 DEF SequentialReadsPlain, Plain
    <3> QED BY <3>1, <3>2
  <2> QED BY <2>5, <2>6
<1>5. ASSUME NEW n \in 1..FileSize, NEW at \in 0..FileSize, FSReadFileWithPos(h, n, at)
      PROVE  EntriesFollow' /\ OneEntryEach' /\ OpenedIsTracked' /\ SequentialReadsPlain'
  <2>1. at + Delivered(n, at) \in Int
    <3>1. n \in 0..FileSize
      BY ConstantsAssumption
    <3> QED BY <3>1, DeliveredBounds, ConstantsAssumption
  <2>2. /\ served'.op = "readpos"
        /\ hooks' = IF Find(h) = NoSlot THEN hooks
                    ELSE [hooks EXCEPT ![Find(h)].offset = at + Delivered(n, at)]
        /\ files' = [files EXCEPT ![h].pos = at + Delivered(n, at)]
    BY <1>1, <1>5 DEF FSReadFileWithPos, IoErrors, Quiet
  <2> QED BY <1>1, <2>1, <2>2, MoveTogether DEF SequentialReadsPlain
<1>6. ASSUME NEW at \in 0..FileSize, FSSetPosFile(h, at)
      PROVE  EntriesFollow' /\ OneEntryEach' /\ OpenedIsTracked' /\ SequentialReadsPlain'
  <2>1. /\ served' = served
        /\ hooks' = IF Find(h) = NoSlot THEN hooks ELSE [hooks EXCEPT ![Find(h)].offset = at]
        /\ files' = [files EXCEPT ![h].pos = at]
    BY <1>1, <1>6 DEF FSSetPosFile, IoErrors, Quiet
  <2>2. at \in Int
    BY ConstantsAssumption
  <2> QED BY <1>1, <1>3, <2>1, <2>2, MoveTogether
<1>7. ASSUME FSCloseFile(h)
      PROVE  EntriesFollow' /\ OneEntryEach' /\ OpenedIsTracked' /\ SequentialReadsPlain'
  <2>1. /\ served' = served /\ hooks' = hooks
        /\ files'[h] = Closed
        /\ \A g \in Handles : g # h => files'[g] = files[g]
    BY <1>7 DEF FSCloseFile, QuietInv, UntouchedInv, TypeOK
  <2>2. \A j \in Slots : hooks[j].active => hooks[j].handle \in Handles
    BY DEF QuietInv, UntouchedInv, TypeOK, EntriesFromSd, FromSd
  <2> QED BY <1>1, <1>3, <2>1, <2>2
          DEF QuietInv, EntriesFollow, OneEntryEach, OpenedIsTracked, Given, Closed, Matching
<1> QED BY <1>2, <1>4, <1>5, <1>6, <1>7 DEF UseFile, Quiet

\* No step opens a handle of a closed file again.
LEMMA QuietStale ==
  ASSUME Quiet, QuietInv, [Next]_vars PROVE StaleClosed'
<1> USE DEF QuietInv, UntouchedInv
<1>0. /\ files \in [Handles -> File] /\ \A h \in Handles : files[h] \in File
      /\ used \subseteq Handles
      /\ \A h \in stale : h \in used /\ ~files[h].open
      /\ \A h \in Handles : files[h].open => h \in used
  BY DEF TypeOK, StaleClosed
<1>1. CASE \E t \in Threads : FSOpenFile(t)
  <2>1. PICK t \in Threads : FSOpenFile(t)
    BY <1>1
  <2>2. \A h \in Handles :
          /\ used \subseteq used' /\ (h \in used => files'[h] = files[h])
          /\ files'[h] # files[h] => h \in used'
    BY <2>1, OpensNew DEF Quiet
  <2>3. stale' = stale
    BY <2>1 DEF FSOpenFile
  <2> QED  BY <1>0, <2>2, <2>3 DEF StaleClosed
<1>2. ASSUME NEW t \in Threads, AddFind(t) \/ AddStore(t)
      PROVE  StaleClosed'
  <2>1. /\ files' = files \/ files' = [files EXCEPT ![pc[t].handle].given = TRUE]
        /\ stale' = stale /\ used' = used
    BY <1>2 DEF AddFind, AddStore
  <2>2. \A h \in Handles : files'[h].open = files[h].open
    BY <1>0, <2>1 DEF File
  <2> QED  BY <1>0, <2>1, <2>2 DEF StaleClosed
<1>3. ASSUME NEW h \in Handles, UseFile(h), Given(h)
      PROVE  StaleClosed'
  <2>1. CASE FSCloseFile(h)
    <3>1. /\ ~files'[h].open
          /\ \A g \in Handles : g # h => files'[g] = files[g]
          /\ used' = used /\ (stale' = stale \/ stale' = stale \cup {h})
      BY <1>0, <2>1 DEF FSCloseFile, Closed
    <3>2. h \in used
      BY <1>3 DEF StaleClosed, Given
    <3> QED  BY <1>0, <3>1, <3>2 DEF StaleClosed
  <2>2. CASE ~FSCloseFile(h)
    <3>1. /\ stale' = stale /\ used' = used
          /\ files' = files \/ \E at : files' = [files EXCEPT ![h].pos = at]
      BY <1>3, <2>2 DEF UseFile, FSReadFile, FSReadFileFails, FSReadFileWithPos,
                        FSSetPosFile
    <3>2. \A g \in Handles : files'[g].open = files[g].open
      BY <1>0, <3>1 DEF File
    <3> QED  BY <1>0, <3>1, <3>2 DEF StaleClosed
  <2> QED  BY <2>1, <2>2
<1>4. CASE UNCHANGED vars
  BY <1>4 DEF vars, StaleClosed
<1> QED  BY <1>1, <1>2, <1>3, <1>4
         DEF Next, Step, OpenUnhooked, ReleaseForeground, EnterForeground, Quiet

LEMMA QuietStep ==
  ASSUME Quiet, QuietInv, [Next]_vars PROVE QuietInv'
<1>1. UntouchedInv'
  BY TypesStep, EntriesStep, PendingStep, UntouchedStep DEF QuietInv, UntouchedInv
<1>0. StaleClosed'
  BY QuietStale
<1>2. CASE UNCHANGED vars
  BY <1>0, <1>1, <1>2 DEF vars, QuietInv, EntriesFollow, OneEntryEach, PendingNew, OpenedIsTracked,
                    SequentialReadsPlain, Plain, Matching, FreeSlots, Given
<1>3. ASSUME NEW t \in Threads, Step(t) PROVE QuietInv'
  <2>1. patched'
    BY <1>3 DEF QuietInv, Step, FSOpenFile, AddFind, AddStore, OpenUnhooked, UseFile, FSReadFile,
                FSReadFileFails, FSReadFileWithPos, FSSetPosFile, FSCloseFile
  <2>2. /\ EntriesFollow' /\ OneEntryEach' /\ PendingNew' /\ OpenedIsTracked'
        /\ SequentialReadsPlain'
    BY <1>3, QuietOpen, QuietAdd, QuietUse DEF Step, OpenUnhooked, QuietInv
  <2> QED BY <1>0, <1>1, <2>1, <2>2 DEF QuietInv
<1> QED BY <1>2, <1>3 DEF Next, ReleaseForeground, EnterForeground, QuietInv, Quiet

LEMMA QuietInit == Init => QuietInv
<1> SUFFICES ASSUME Init PROVE QuietInv
  OBVIOUS
<1>1. TypeOK
  BY Constructors, ConstantsAssumption DEF Init, TypeOK, Service
<1>2. /\ \A i \in Slots : ~hooks[i].active
      /\ \A h \in Handles : ~files[h].open
      /\ \A t \in Threads : pc[t].at = "idle"
      /\ served.op = "none" /\ ~served.decrypted /\ patched /\ stale = {}
  BY DEF Init, Unused, Closed, Idle
<1> QED BY <1>1, <1>2 DEF QuietInv, UntouchedInv, EntriesFromSd, PendingFromSd,
          GameFilesUntouched, EntriesFollow, OneEntryEach, PendingNew, OpenedIsTracked, Given,
          SequentialReadsPlain, StaleClosed

\* For one thread, without I/O errors and HOME, and a table and files of any size: an open
\* redirected file has its entry until an error is reported (filesystem.cpp:42-54).
THEOREM OpenFilesTracked ==
  ASSUME Quiet
  PROVE  Spec => []OpenedIsTracked
<1>1. QuietInv /\ [Next]_vars => QuietInv'
  BY QuietStep
<1>2. QuietInv => OpenedIsTracked
  BY DEF QuietInv
<1> QED BY <1>1, <1>2, QuietInit, PTL DEF Spec

\* Under the same conditions FSReadFile delivers plain bytes, whatever was read, sought,
\* closed and opened before, also after positioned reads (filesystem.cpp:149-182).
THEOREM ReadsPlain ==
  ASSUME Quiet
  PROVE  Spec => []SequentialReadsPlain
<1>1. QuietInv /\ [Next]_vars => QuietInv'
  BY QuietStep
<1>2. QuietInv => SequentialReadsPlain
  BY DEF QuietInv
<1> QED BY <1>1, <1>2, QuietInit, PTL DEF Spec
=============================================================================
