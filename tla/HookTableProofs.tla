--------------------------- MODULE HookTableProofs ---------------------------
(***************************************************************************)
(* Theorems about HookTable, for any number of sites, file system          *)
(* functions and table entries.                                            *)
(*                                                                         *)
(* What the hooks do is only right when HOME is not pressed before         *)
(* MainThread has installed its own, and the argument is that site s is    *)
(* always given slot s.  MainThread hooks the sites in order into an empty *)
(* table; the ProcUI hook frees the first FsCount slots and fills them     *)
(* again in the same order.  So a trampoline, once built, is only ever     *)
(* rebuilt for the same site, from the site's own instruction, and every   *)
(* real pointer stays right.                                               *)
(*                                                                         *)
(* The types, and that nobody stays in the patcher, hold whenever HOME is  *)
(* pressed.  Left counts the steps that a thread has still to take there:  *)
(* for its site and for each one behind it.                                *)
(***************************************************************************)
EXTENDS HookTable, WellFoundedInduction, TLAPS

\* Entries and trampolines are those of the site with the slot's number.
EntriesInPlace ==
  \A k \in Slots : /\ funcs[k] \in {Null, Trampoline(k)}
                   /\ funcs[k] # Null => k \in Sites

RealInPlace ==
  \A s \in Sites : \/ real[s] = NoSlot
                   \/ real[s] = s /\ s \in Slots /\ jumps[s] = Trampoline(s)

\* A thread past its search works on the slot of its site, and what it put in
\* the buffer is still there when it writes.
PlaceOk(t) ==
  LET p == pc[t]
  IN /\ p.task = "install" => p.at \in {"find", "fill", "copy", "write", "publish"}
     /\ p.task = "remove" => p.at \in {"find", "copy", "write", "clear"}
     /\ p.task # "idle" => p.site <= LastSite(t)
     /\ (p.task # "idle" /\ p.at # "find") => p.slot = p.site
     /\ (p.task = "remove" /\ p.at # "find") => p.site \in listed
     /\ (p.task = "install" /\ p.at = "write") => buffer = Branch(p.site)
     /\ (p.task = "remove" /\ p.at = "write") => buffer = Own(p.site)
     /\ (p.task = "install" /\ p.at \in {"copy", "write", "publish"}) =>
          jumps[p.site] = Trampoline(p.site)

\* MainThread is done before the ProcUI hook does anything.
OneAtATime ==
  /\ pc[Main].task # "remove"
  /\ pc[Main].task = "install" => pc[Game].task = "idle"

\* The slots an installing thread has filled.
Filled(t, k) ==
  \/ k < pc[t].site
  \/ k = pc[t].site /\ pc[t].at \in {"copy", "write", "publish"}

HasEntry(k) ==
  IF pc[Main].task = "install" THEN Filled(Main, k)
  ELSE IF k > FsCount THEN k <= SiteCount
  ELSE IF pc[Game].task = "install" THEN Filled(Game, k)
  ELSE k \in listed

OccupiedOk == \A k \in Slots : funcs[k] # Null <=> HasEntry(k)

ListedOk ==
  /\ pc[Main].task = "install" => listed = {s \in FsSites : s < pc[Main].site}
  /\ pc[Game].task = "install" => listed = {s \in FsSites : s < pc[Game].site}
  /\ pc[Game].task = "remove" => \A s \in listed : pc[Game].site <= s
  /\ (pc[Main].task = "install" /\ FsCount < pc[Main].site) => patched
  /\ (pc[Main].task = "idle" /\ pc[Game].task = "idle" /\ ~patched) => listed = {}

\* A thread is between the entry and the branch of site s, or between the
\* restored instruction and the freed entry.
Unbranched(s) ==
  \E t \in Threads :
    /\ pc[t].site = s
    /\ \/ pc[t].task = "install" /\ pc[t].at \in {"copy", "write"}
       \/ pc[t].task = "remove" /\ pc[t].at = "clear"

Branched(s) == s \in Slots /\ funcs[s] # Null /\ ~Unbranched(s)

CodeOk == \A s \in Sites : code[s] = IF Branched(s) THEN Branch(s) ELSE Own(s)

Inv ==
  /\ TypeOK
  /\ EntriesInPlace
  /\ RealInPlace
  /\ \A t \in Threads : PlaceOk(t)
  /\ OneAtATime
  /\ OccupiedOk
  /\ ListedOk
  /\ CodeOk

-----------------------------------------------------------------------------
(* Sites, slots and places.                                                 *)

LEMMA Numbers ==
  /\ Sites \subseteq Nat /\ Slots \subseteq Nat /\ NoSlot = 0
  /\ FsSites \subseteq Sites /\ FsSites \subseteq Slots
  /\ ProcUi \in Sites /\ ProcUi \notin FsSites
  /\ \A t \in Threads : LastSite(t) \in Sites
  /\ Main \in Threads /\ Game \in Threads /\ Main # Game
  /\ Threads = {Main, Game}
BY ConstantsAssumption
   DEF Sites, Slots, NoSlot, FsSites, ProcUi, LastSite, Threads, Main, Game

LEMMA Words ==
  /\ \A s : Own(s) # Branch(s) /\ Trampoline(s).site = s /\ Trampoline(s).word = Own(s)
  /\ \A s \in Sites : Own(s) \in Word /\ Branch(s) \in Word /\ Trampoline(s) \in Entry
  /\ \A s \in Sites : Trampoline(s) # Null
  /\ Null \in Entry /\ Nothing \in Word /\ Null.site = 0
<1>1. \A s : Own(s) # Branch(s) /\ Trampoline(s).site = s /\ Trampoline(s).word = Own(s)
  BY DEF Own, Branch, Trampoline
<1>2. \A s \in Sites \cup {0} : Own(s) \in Word /\ Branch(s) \in Word
  BY DEF Own, Branch, Word
<1>3. \A s \in Sites : Trampoline(s) \in Entry /\ Trampoline(s).site # 0
  BY <1>1, <1>2, Numbers DEF Trampoline, Entry, Sites
<1>4. Nothing \in Word
  BY <1>2 DEF Nothing
<1>5. Null \in Entry /\ Null.site = 0
  BY <1>4 DEF Null, Entry
<1> QED  BY <1>1, <1>2, <1>3, <1>4, <1>5

LEMMA FirstIn ==
  ASSUME NEW S, S \subseteq Slots, S # {}
  PROVE  First(S) \in S /\ \A j \in S : First(S) <= j
<1>1. S \subseteq Nat
  BY Numbers
<1>2. PICK x \in S : \A y \in S : ~ (<<y, x>> \in OpToRel(<, Nat))
  <2> HIDE DEF First
  <2> QED  BY <1>1, WFMin, NatLessThanWellFounded, Zenon
<1>3. \A y \in S : ~(y < x)
  BY <1>1, <1>2 DEF OpToRel
<1>4. \A y \in S : x <= y
  BY <1>1, <1>3
<1> QED  BY <1>4 DEF First

\* The fields of a place.
LEMMA Fields ==
  ASSUME TypeOK, NEW t \in Threads
  PROVE  /\ pc[t].task \in {"idle", "install", "remove"}
         /\ pc[t].at \in {"find", "fill", "copy", "write", "publish", "clear"}
         /\ pc[t].site \in Sites
         /\ pc[t].slot \in Slots \cup {NoSlot}
BY DEF TypeOK, Place

\* A thread that goes on with its site.
LEMMA GotoPlace ==
  ASSUME TypeOK, NEW t \in Threads,
         NEW a \in {"find", "fill", "copy", "write", "publish", "clear"},
         NEW k \in Slots \cup {NoSlot},
         pc' = [pc EXCEPT ![t] = [pc[t] EXCEPT !.at = a, !.slot = k]]
  PROVE  /\ pc' \in [Threads -> Place]
         /\ pc'[t].task = pc[t].task /\ pc'[t].site = pc[t].site
         /\ pc'[t].at = a /\ pc'[t].slot = k
         /\ \A u \in Threads : u # t => pc'[u] = pc[u]
BY DEF TypeOK, Place

LEMMA GotoSlot ==
  ASSUME TypeOK, NEW t \in Threads,
         NEW a \in {"find", "fill", "copy", "write", "publish", "clear"},
         Goto(t, a)
  PROVE  pc' = [pc EXCEPT ![t] = [pc[t] EXCEPT !.at = a, !.slot = pc[t].slot]]
BY DEF TypeOK, Place, Goto

\* A thread that is done with its site.
LEMMA NextPlace ==
  ASSUME TypeOK, NEW t \in Threads, NextSite(t), pc[t].site <= LastSite(t)
  PROVE  /\ pc' \in [Threads -> Place] /\ patched' \in BOOLEAN
         /\ pc'[t].at = "find"
         /\ pc[t].site = LastSite(t) => pc'[t].task = "idle"
         /\ pc[t].site # LastSite(t) =>
              /\ pc'[t].task = pc[t].task
              /\ pc'[t].site = pc[t].site + 1
              /\ pc[t].site < LastSite(t)
         /\ \A u \in Threads : u # t => pc'[u] = pc[u]
<1>1. LastSite(t) \in Sites /\ pc[t].site \in Sites
  BY Numbers, Fields
<1>2. pc[t].site # LastSite(t) => pc[t].site + 1 \in Sites /\ pc[t].site < LastSite(t)
  BY <1>1, ConstantsAssumption DEF Sites
<1>3. Idle \in Place
  BY ConstantsAssumption DEF Idle, Place, Sites
<1>4. \A n \in Sites : [Begin(pc[t].task) EXCEPT !.site = n] \in Place
  BY Fields DEF Begin, Place
<1>5. pc \in [Threads -> Place]
  BY DEF TypeOK
<1>6. patched' \in BOOLEAN
  BY DEF NextSite, TypeOK
<1>7. \A u \in Threads : u # t => pc'[u] = pc[u]
  BY <1>5 DEF NextSite
<1>8. CASE pc[t].site = LastSite(t)
  <2>1. pc' = [pc EXCEPT ![t] = Idle]
    BY <1>8 DEF NextSite
  <2>2. Idle.task = "idle" /\ Idle.at = "find"
    BY DEF Idle
  <2>3. pc'[t] = Idle
    BY <1>5, <2>1
  <2>4. pc' \in [Threads -> Place]
    BY <1>3, <1>5, <2>1
  <2> QED  BY <1>6, <1>7, <1>8, <2>2, <2>3, <2>4
<1>9. CASE pc[t].site # LastSite(t)
  <2> DEFINE next == [Begin(pc[t].task) EXCEPT !.site = pc[t].site + 1]
  <2>1. pc' = [pc EXCEPT ![t] = next]
    BY <1>9 DEF NextSite
  <2>2. next.task = pc[t].task /\ next.at = "find" /\ next.site = pc[t].site + 1
    BY DEF Begin
  <2>3. next \in Place
    BY <1>2, <1>4, <1>9
  <2> HIDE DEF next
  <2>4. pc'[t] = next
    BY <1>5, <2>1
  <2>5. pc' \in [Threads -> Place]
    BY <1>5, <2>1, <2>3
  <2> QED  BY <1>2, <1>6, <1>7, <1>9, <2>2, <2>4, <2>5
<1> QED  BY <1>8, <1>9

-----------------------------------------------------------------------------
(* What the invariant says of a thread inside the patcher.                  *)

\* It is alone there, and the ProcUI hook only handles the file system.
LEMMA Alone ==
  ASSUME Inv, NEW t \in Threads, pc[t].task # "idle"
  PROVE  /\ \A u \in Threads : u # t => pc[u].task = "idle"
         /\ t = Main => pc[t].task = "install"
         /\ pc[t].site \in Sites /\ pc[t].site <= LastSite(t)
         /\ t = Game => pc[t].site \in FsSites
<1>1. pc[t].site \in Sites /\ pc[t].site <= LastSite(t)
  BY Fields DEF Inv, PlaceOk
<1>2. t = Game => pc[t].site \in FsSites
  BY <1>1, Numbers, ConstantsAssumption DEF LastSite, Sites, FsSites
<1> QED  BY <1>1, <1>2, Numbers, Fields DEF Inv, OneAtATime

LEMMA OnSlot ==
  ASSUME Inv, NEW t \in Threads, pc[t].task # "idle", pc[t].at # "find"
  PROVE  pc[t].slot = pc[t].site /\ pc[t].site \in Slots
<1>1. pc[t].slot = pc[t].site
  BY DEF Inv, PlaceOk
<1>2. pc[t].site \in Nat \ {0}
  BY Alone, Numbers DEF Sites
<1> QED  BY <1>1, <1>2, Fields, Numbers DEF Inv

\* Whether the slot of its site holds an entry.
LEMMA EntryAtSite ==
  ASSUME Inv, NEW t \in Threads, pc[t].task # "idle", pc[t].site \in Slots
  PROVE  LET s == pc[t].site
         IN funcs[s] # Null <=>
              \/ pc[t].task = "install" /\ pc[t].at \in {"copy", "write", "publish"}
              \/ pc[t].task = "remove" /\ s \in listed
<1>1. funcs[pc[t].site] # Null <=> HasEntry(pc[t].site)
  BY DEF Inv, OccupiedOk
<1>2. pc[t].site \in Nat /\ pc[t].task \in {"install", "remove"}
  BY Alone, Fields, Numbers DEF Inv
<1>3. ~(pc[t].site < pc[t].site)
  BY <1>2
<1>4. CASE t = Main
  <2>1. pc[Main].task = "install"
    BY <1>4, Alone
  <2>2. HasEntry(pc[t].site) <=> pc[t].at \in {"copy", "write", "publish"}
    BY <1>3, <1>4, <2>1 DEF HasEntry, Filled
  <2> QED  BY <1>1, <1>4, <2>1, <2>2
<1>5. CASE t = Game
  <2>1. pc[Main].task = "idle"
    BY <1>5, Alone, Numbers
  <2>2. ~(pc[t].site > FsCount)
    BY <1>5, Alone, ConstantsAssumption DEF FsSites
  <2>3. HasEntry(pc[t].site) <=>
          IF pc[t].task = "install" THEN pc[t].at \in {"copy", "write", "publish"}
          ELSE pc[t].site \in listed
    BY <1>3, <1>5, <2>1, <2>2 DEF HasEntry, Filled
  <2> QED  BY <1>1, <1>2, <2>3
<1> QED  BY <1>4, <1>5, Numbers

LEMMA UnbranchedAtSite ==
  ASSUME Inv, NEW t \in Threads, pc[t].task # "idle", NEW s \in Sites
  PROVE  Unbranched(s) <=>
           /\ s = pc[t].site
           /\ \/ pc[t].task = "install" /\ pc[t].at \in {"copy", "write"}
              \/ pc[t].task = "remove" /\ pc[t].at = "clear"
BY Alone DEF Unbranched

\* The instruction at its site.
LEMMA CodeAtSite ==
  ASSUME Inv, NEW t \in Threads, pc[t].task # "idle", pc[t].at # "find"
  PROVE  LET s == pc[t].site
             changed == \/ pc[t].task = "install" /\ pc[t].at = "publish"
                        \/ pc[t].task = "remove" /\ pc[t].at \in {"copy", "write"}
         IN code[s] = IF changed THEN Branch(s) ELSE Own(s)
<1>1. /\ pc[t].site \in Slots /\ pc[t].site \in Sites
      /\ pc[t].task = "install" => pc[t].at \in {"fill", "copy", "write", "publish"}
      /\ pc[t].task = "remove" => pc[t].at \in {"copy", "write", "clear"}
      /\ pc[t].task = "remove" => pc[t].site \in listed
      /\ pc[t].task \in {"install", "remove"}
  BY OnSlot, Alone, Fields DEF Inv, PlaceOk
<1>2. code[pc[t].site] = IF Branched(pc[t].site) THEN Branch(pc[t].site) ELSE Own(pc[t].site)
  BY <1>1 DEF Inv, CodeOk
<1>3. CASE pc[t].task = "install"
  BY <1>1, <1>2, <1>3, EntryAtSite, UnbranchedAtSite DEF Branched
<1>4. CASE pc[t].task = "remove"
  BY <1>1, <1>2, <1>4, EntryAtSite, UnbranchedAtSite DEF Branched
<1> QED  BY <1>1, <1>3, <1>4

-----------------------------------------------------------------------------
(* Each step keeps the invariant.                                           *)

\* The search of hookFunction: the first free entry is the site's own, and only
\* MainThread runs out of entries.
LEMMA FreeForSite ==
  ASSUME Inv, NEW t \in Threads, At(t, "install", "find")
  PROVE  /\ FreeSlots = {} <=> pc[t].site \notin Slots
         /\ FreeSlots # {} => First(FreeSlots) = pc[t].site
         /\ pc[t].site \notin Slots => t = Main /\ FsCount < pc[t].site
<1> DEFINE s == pc[t].site
<1>1. pc[t].task = "install" /\ pc[t].at = "find"
  BY DEF At
<1>2. s \in Sites /\ s \in Nat /\ (t = Game => s \in FsSites) /\ Slots \subseteq Nat
  BY <1>1, Alone, Numbers
<1>3. \A k \in Slots : k < s => funcs[k] # Null
  <2>1. \A k \in Slots : k < s => HasEntry(k)
    <3>1. CASE t = Main
      BY <1>1, <3>1 DEF HasEntry, Filled
    <3>2. CASE t = Game
      <4>1. pc[Main].task = "idle"
        BY <1>1, <3>2, Alone, Numbers
      <4>2. \A k \in Slots : k < s => ~(k > FsCount)
        BY <1>2, <3>2, Numbers, ConstantsAssumption DEF FsSites, Slots
      <4> QED  BY <1>1, <3>2, <4>1, <4>2 DEF HasEntry, Filled
    <3> QED  BY <3>1, <3>2, Numbers
  <2> QED  BY <2>1 DEF Inv, OccupiedOk
<1>4. s \in Slots => s \in FreeSlots
  BY <1>1, EntryAtSite DEF FreeSlots
<1> HIDE DEF s
<1>5. \A k \in FreeSlots : s <= k
  BY <1>2, <1>3 DEF FreeSlots
<1>6. s \notin Slots => SlotCount < s
  BY <1>2, ConstantsAssumption DEF Sites, Slots
<1>7. s \notin Slots => FreeSlots = {}
  BY <1>2, <1>3, <1>6, ConstantsAssumption DEF FreeSlots, Slots
<1>8. FreeSlots # {} => First(FreeSlots) = s
  <2> SUFFICES ASSUME FreeSlots # {} PROVE First(FreeSlots) = s
    OBVIOUS
  <2> DEFINE f == First(FreeSlots)
  <2>1. f \in FreeSlots /\ \A k \in FreeSlots : f <= k
    <3>1. FreeSlots \subseteq Slots
      BY DEF FreeSlots
    <3> QED  BY <3>1, FirstIn
  <2>2. s \in FreeSlots
    BY <1>4, <1>7
  <2>3. f \in Nat /\ s \in Nat
    BY <2>1, <2>2, Numbers DEF FreeSlots
  <2> HIDE DEF f
  <2>4. f <= s /\ s <= f
    BY <1>5, <2>1, <2>2
  <2>5. f = s
    BY <2>3, <2>4
  <2> QED  BY <2>5 DEF f
<1>9. s \notin Slots => t = Main /\ FsCount < s
  <2>1. s \notin Slots => s \notin FsSites
    BY Numbers
  <2>2. s \notin Slots => FsCount < s
    BY <1>2, <1>6, ConstantsAssumption
  <2> QED  BY <1>2, <2>1, <2>2, Numbers
<1> QED  BY <1>4, <1>7, <1>8, <1>9 DEF s

LEMMA FindKeeps ==
  ASSUME Inv, NEW t \in Threads, InstallFind(t)
  PROVE  Inv'
<1>0. PICK s \in Sites : s = pc[t].site
  BY Fields DEF Inv
<1>1. /\ pc[t].task = "install" /\ pc[t].at = "find"
      /\ s \in Slots /\ s \in Sites
      /\ \A u \in Threads : u # t => pc[u].task = "idle"
  BY <1>0, FreeForSite, Alone DEF InstallFind, At
<1>2. /\ pc' = [pc EXCEPT ![t] = [pc[t] EXCEPT !.at = "fill", !.slot = s]]
      /\ UNCHANGED <<code, funcs, jumps, real, buffer, listed, patched>>
  BY <1>0, FreeForSite DEF InstallFind, Inv, TypeOK, Place
<1>3. /\ pc' \in [Threads -> Place]
      /\ pc'[t].task = "install" /\ pc'[t].site = s
      /\ pc'[t].at = "fill" /\ pc'[t].slot = s
      /\ \A u \in Threads : u # t => pc'[u] = pc[u]
  <2>1. TypeOK /\ pc' = [pc EXCEPT ![t] = [pc[t] EXCEPT !.at = "fill", !.slot = s]]
    BY <1>2 DEF Inv
  <2> QED  BY ONLY <1>0, <1>1, <2>1, GotoPlace
<1>4. TypeOK'
  BY <1>2, <1>3 DEF Inv, TypeOK
<1>5. EntriesInPlace' /\ RealInPlace'
  BY <1>2 DEF Inv, EntriesInPlace, RealInPlace
<1>6. (\A u \in Threads : PlaceOk(u))'
  BY <1>0, <1>1, <1>2, <1>3 DEF Inv, PlaceOk, LastSite
<1>7. OneAtATime'
  BY <1>1, <1>3, Numbers DEF Inv, OneAtATime
<1>8. OccupiedOk'
  BY <1>0, <1>1, <1>2, <1>3, Numbers DEF Inv, OccupiedOk, HasEntry, Filled
<1>9. ListedOk'
  BY <1>0, <1>1, <1>2, <1>3, Numbers DEF Inv, ListedOk
<1>10. CodeOk'
  BY <1>0, <1>1, <1>2, <1>3, Numbers DEF Inv, CodeOk, Branched, Unbranched
<1> QED  BY <1>4, <1>5, <1>6, <1>7, <1>8, <1>9, <1>10 DEF Inv

LEMMA FillKeeps ==
  ASSUME Inv, NEW t \in Threads, InstallFill(t)
  PROVE  Inv'
<1>0. PICK s \in Sites : s = pc[t].site
  BY Fields DEF Inv
<1>1. /\ pc[t].task = "install" /\ pc[t].at = "fill" /\ pc[t].slot = s
      /\ s \in Slots /\ s \in Sites
      /\ \A u \in Threads : u # t => pc[u].task = "idle"
      /\ code[s] = Own(s)
  BY <1>0, OnSlot, Alone, CodeAtSite DEF InstallFill, At
<1>2. /\ pc' = [pc EXCEPT ![t] = [pc[t] EXCEPT !.at = "copy", !.slot = s]]
      /\ funcs' = [funcs EXCEPT ![s] = Trampoline(s)]
      /\ jumps' = [jumps EXCEPT ![s] = Trampoline(s)]
      /\ UNCHANGED <<code, real, buffer, listed, patched>>
  BY <1>0, <1>1, GotoSlot DEF InstallFill, Trampoline, Inv
<1>3. /\ pc' \in [Threads -> Place]
      /\ pc'[t].task = "install" /\ pc'[t].site = s
      /\ pc'[t].at = "copy" /\ pc'[t].slot = s
      /\ \A u \in Threads : u # t => pc'[u] = pc[u]
  BY <1>0, <1>1, <1>2, GotoPlace DEF Inv
<1>4. TypeOK'
  BY <1>1, <1>2, <1>3, Words DEF Inv, TypeOK
<1>5. /\ funcs'[s] = Trampoline(s) /\ jumps'[s] = Trampoline(s)
      /\ \A k \in Slots : k # s => funcs'[k] = funcs[k] /\ jumps'[k] = jumps[k]
  BY <1>1, <1>2 DEF Inv, TypeOK
<1>6. EntriesInPlace' /\ RealInPlace'
  BY <1>1, <1>2, <1>5 DEF Inv, EntriesInPlace, RealInPlace
<1>7. (\A u \in Threads : PlaceOk(u))'
  BY <1>0, <1>1, <1>2, <1>3, <1>5 DEF Inv, PlaceOk, LastSite
<1>8. OneAtATime'
  BY <1>1, <1>3, Numbers DEF Inv, OneAtATime
<1>9. OccupiedOk'
  <2>1. funcs'[s] # Null /\ funcs[s] = Null
    BY <1>0, <1>1, <1>5, EntryAtSite, Words
  <2>2. \A k \in Slots : HasEntry(k)' <=> (HasEntry(k) \/ k = s)
    <3>1. CASE t = Main
      BY <1>0, <1>1, <1>3, <3>1 DEF HasEntry, Filled
    <3>2. CASE t = Game
      <4>1. ~(s > FsCount) /\ pc[Main].task = "idle" /\ pc'[Main].task = "idle"
        BY <1>0, <1>1, <1>3, <3>2, Alone, Numbers, ConstantsAssumption DEF FsSites
      <4> QED  BY <1>0, <1>1, <1>2, <1>3, <3>2, <4>1 DEF HasEntry, Filled
    <3> QED  BY <3>1, <3>2, Numbers
  <2> QED  BY <1>5, <2>1, <2>2 DEF Inv, OccupiedOk
<1>10. ListedOk'
  BY <1>0, <1>1, <1>2, <1>3, Numbers DEF Inv, ListedOk
<1>11. CodeOk'
  <2>1. Unbranched(s)'
    BY <1>3 DEF Unbranched
  <2> SUFFICES ASSUME NEW x \in Sites
               PROVE  code'[x] = IF Branched(x)' THEN Branch(x) ELSE Own(x)
    BY DEF CodeOk
  <2>2. CASE x = s
    BY <1>0, <1>1, <1>2, <2>1, <2>2 DEF Branched
  <2>3. CASE x # s
    <3>1. Branched(x)' <=> Branched(x)
      BY <1>0, <1>1, <1>3, <1>5, <2>3, Numbers DEF Branched, Unbranched
    <3> QED  BY <1>2, <3>1 DEF Inv, CodeOk
  <2> QED  BY <2>2, <2>3
<1> QED  BY <1>4, <1>6, <1>7, <1>8, <1>9, <1>10, <1>11 DEF Inv

LEMMA CopyKeeps ==
  ASSUME Inv, NEW t \in Threads, InstallCopy(t)
  PROVE  Inv'
<1>0. PICK s \in Sites : s = pc[t].site
  BY Fields DEF Inv
<1>1. /\ pc[t].task = "install" /\ pc[t].at = "copy" /\ pc[t].slot = s
      /\ s \in Slots /\ s \in Sites
      /\ \A u \in Threads : u # t => pc[u].task = "idle"
  BY <1>0, OnSlot, Alone DEF InstallCopy, At
<1>2. /\ pc' = [pc EXCEPT ![t] = [pc[t] EXCEPT !.at = "write", !.slot = s]]
      /\ buffer' = Branch(s)
      /\ UNCHANGED <<code, funcs, jumps, real, listed, patched>>
  BY <1>0, <1>1, GotoSlot DEF InstallCopy, Inv
<1>3. /\ pc' \in [Threads -> Place]
      /\ pc'[t].task = "install" /\ pc'[t].site = s
      /\ pc'[t].at = "write" /\ pc'[t].slot = s
      /\ \A u \in Threads : u # t => pc'[u] = pc[u]
  BY <1>0, <1>1, <1>2, GotoPlace DEF Inv
<1>4. TypeOK'
  BY <1>1, <1>2, <1>3, Words DEF Inv, TypeOK
<1>5. EntriesInPlace' /\ RealInPlace'
  BY <1>2 DEF Inv, EntriesInPlace, RealInPlace
<1>6. (\A u \in Threads : PlaceOk(u))'
  BY <1>0, <1>1, <1>2, <1>3 DEF Inv, PlaceOk, LastSite
<1>7. OneAtATime'
  BY <1>1, <1>3, Numbers DEF Inv, OneAtATime
<1>8. OccupiedOk'
  BY <1>0, <1>1, <1>2, <1>3, Numbers DEF Inv, OccupiedOk, HasEntry, Filled
<1>9. ListedOk'
  BY <1>0, <1>1, <1>2, <1>3, Numbers DEF Inv, ListedOk
<1>10. CodeOk'
  <2>1. \A x \in Sites : Unbranched(x)' <=> Unbranched(x)
    BY <1>0, <1>1, <1>3, Numbers DEF Unbranched
  <2> QED  BY <1>2, <2>1 DEF Inv, CodeOk, Branched
<1> QED  BY <1>4, <1>5, <1>6, <1>7, <1>8, <1>9, <1>10 DEF Inv

LEMMA WriteKeeps ==
  ASSUME Inv, NEW t \in Threads, InstallWrite(t)
  PROVE  Inv'
<1>0. PICK s \in Sites : s = pc[t].site
  BY Fields DEF Inv
<1>1. /\ pc[t].task = "install" /\ pc[t].at = "write" /\ pc[t].slot = s
      /\ s \in Slots /\ s \in Sites
      /\ \A u \in Threads : u # t => pc[u].task = "idle"
      /\ buffer = Branch(s)
  BY <1>0, OnSlot, Alone DEF InstallWrite, At, Inv, PlaceOk
<1>2. /\ pc' = [pc EXCEPT ![t] = [pc[t] EXCEPT !.at = "publish", !.slot = s]]
      /\ code' = [code EXCEPT ![s] = Branch(s)]
      /\ UNCHANGED <<funcs, jumps, real, buffer, listed, patched>>
  BY <1>0, <1>1, GotoSlot DEF InstallWrite, Inv
<1>3. /\ pc' \in [Threads -> Place]
      /\ pc'[t].task = "install" /\ pc'[t].site = s
      /\ pc'[t].at = "publish" /\ pc'[t].slot = s
      /\ \A u \in Threads : u # t => pc'[u] = pc[u]
  BY <1>0, <1>1, <1>2, GotoPlace DEF Inv
<1>4. TypeOK'
  BY <1>1, <1>2, <1>3, Words DEF Inv, TypeOK
<1>5. EntriesInPlace' /\ RealInPlace'
  BY <1>2 DEF Inv, EntriesInPlace, RealInPlace
<1>6. (\A u \in Threads : PlaceOk(u))'
  BY <1>0, <1>1, <1>2, <1>3 DEF Inv, PlaceOk, LastSite
<1>7. OneAtATime'
  BY <1>1, <1>3, Numbers DEF Inv, OneAtATime
<1>8. OccupiedOk'
  BY <1>0, <1>1, <1>2, <1>3, Numbers DEF Inv, OccupiedOk, HasEntry, Filled
<1>9. ListedOk'
  BY <1>0, <1>1, <1>2, <1>3, Numbers DEF Inv, ListedOk
<1>10. CodeOk'
  <2>1. Branched(s)'
    BY <1>0, <1>1, <1>2, <1>3, EntryAtSite, Numbers DEF Branched, Unbranched
  <2> SUFFICES ASSUME NEW x \in Sites
               PROVE  code'[x] = IF Branched(x)' THEN Branch(x) ELSE Own(x)
    BY DEF CodeOk
  <2>2. CASE x = s
    BY <1>1, <1>2, <2>1, <2>2 DEF Inv, TypeOK
  <2>3. CASE x # s
    <3>1. Branched(x)' <=> Branched(x)
      BY <1>0, <1>1, <1>2, <1>3, <2>3, Numbers DEF Branched, Unbranched
    <3> QED  BY <1>2, <2>3, <3>1 DEF Inv, TypeOK, CodeOk
  <2> QED  BY <2>2, <2>3
<1> QED  BY <1>4, <1>5, <1>6, <1>7, <1>8, <1>9, <1>10 DEF Inv

\* Slot s is the only one that can hold an entry of site s.
LEMMA SlotsOfSite ==
  ASSUME Inv, NEW s \in Sites
  PROVE  /\ SlotsOf(s) \subseteq {s}
         /\ s \in SlotsOf(s) <=> s \in Slots /\ funcs[s] # Null
<1>1. s # 0
  BY Numbers DEF Sites
<1>2. \A k \in Slots : funcs[k].site = IF funcs[k] = Null THEN 0 ELSE k
  BY Words DEF Inv, EntriesInPlace
<1> QED  BY <1>1, <1>2 DEF SlotsOf

\* Only the ProcUI hook removes.
LEMMA Remover ==
  ASSUME Inv, NEW t \in Threads, pc[t].task = "remove"
  PROVE  /\ t = Game /\ pc[Main].task = "idle"
         /\ pc[t].site \in FsSites /\ pc[t].site \in Slots
         /\ funcs[pc[t].site] # Null <=> pc[t].site \in listed
<1>1. t = Game
  BY Numbers DEF Inv, OneAtATime
<1>2. pc[Main].task = "idle" /\ pc[t].site \in FsSites
  BY <1>1, Alone, Numbers
<1>3. pc[t].site \in Slots
  BY <1>2, Numbers
<1> QED  BY <1>1, <1>2, <1>3, EntryAtSite

LEMMA RemoveFindKeeps ==
  ASSUME Inv, NEW t \in Threads, RemoveFind(t)
  PROVE  Inv'
<1>0. PICK s \in Sites : s = pc[t].site
  BY Fields DEF Inv
<1>1. /\ pc[t].task = "remove" /\ pc[t].at = "find"
      /\ s \in Slots /\ s \in listed
      /\ \A u \in Threads : u # t => pc[u].task = "idle"
  BY <1>0, Remover, Alone DEF RemoveFind, At
<1>2. First(SlotsOf(s)) = s
  <2>1. SlotsOf(s) = {s}
    BY <1>0, <1>1, SlotsOfSite DEF RemoveFind
  <2> QED  BY <1>1, <2>1, FirstIn
<1>3. /\ pc' = [pc EXCEPT ![t] = [pc[t] EXCEPT !.at = "copy", !.slot = s]]
      /\ UNCHANGED <<code, funcs, jumps, real, buffer, listed, patched>>
  BY <1>0, <1>2 DEF RemoveFind, Inv, TypeOK, Place
<1>4. /\ pc' \in [Threads -> Place]
      /\ pc'[t].task = "remove" /\ pc'[t].site = s
      /\ pc'[t].at = "copy" /\ pc'[t].slot = s
      /\ \A u \in Threads : u # t => pc'[u] = pc[u]
  <2>1. TypeOK /\ pc' = [pc EXCEPT ![t] = [pc[t] EXCEPT !.at = "copy", !.slot = s]]
    BY <1>3 DEF Inv
  <2> QED  BY ONLY <1>0, <1>1, <2>1, GotoPlace
<1>5. TypeOK'
  BY <1>3, <1>4 DEF Inv, TypeOK
<1>6. EntriesInPlace' /\ RealInPlace'
  BY <1>3 DEF Inv, EntriesInPlace, RealInPlace
<1>7. (\A u \in Threads : PlaceOk(u))'
  BY <1>0, <1>1, <1>3, <1>4 DEF Inv, PlaceOk, LastSite
<1>8. OneAtATime'
  BY <1>1, <1>4, Numbers DEF Inv, OneAtATime
<1>9. OccupiedOk'
  BY <1>0, <1>1, <1>3, <1>4, Numbers DEF Inv, OccupiedOk, HasEntry, Filled
<1>10. ListedOk'
  BY <1>0, <1>1, <1>3, <1>4, Numbers DEF Inv, ListedOk
<1>11. CodeOk'
  BY <1>0, <1>1, <1>3, <1>4, Numbers DEF Inv, CodeOk, Branched, Unbranched
<1> QED  BY <1>5, <1>6, <1>7, <1>8, <1>9, <1>10, <1>11 DEF Inv

LEMMA RemoveCopyKeeps ==
  ASSUME Inv, NEW t \in Threads, RemoveCopy(t)
  PROVE  Inv'
<1>0. PICK s \in Sites : s = pc[t].site
  BY Fields DEF Inv
<1>1. /\ pc[t].task = "remove" /\ pc[t].at = "copy" /\ pc[t].slot = s
      /\ s \in Slots /\ s \in listed
      /\ \A u \in Threads : u # t => pc[u].task = "idle"
  BY <1>0, OnSlot, Alone DEF RemoveCopy, At, Inv, PlaceOk
<1>2. funcs[s].word = Own(s)
  BY <1>0, <1>1, Remover, Words DEF Inv, EntriesInPlace
<1>3. /\ pc' = [pc EXCEPT ![t] = [pc[t] EXCEPT !.at = "write", !.slot = s]]
      /\ buffer' = Own(s)
      /\ UNCHANGED <<code, funcs, jumps, real, listed, patched>>
  BY <1>0, <1>1, <1>2, GotoSlot DEF RemoveCopy, Inv
<1>4. /\ pc' \in [Threads -> Place]
      /\ pc'[t].task = "remove" /\ pc'[t].site = s
      /\ pc'[t].at = "write" /\ pc'[t].slot = s
      /\ \A u \in Threads : u # t => pc'[u] = pc[u]
  BY <1>0, <1>1, <1>3, GotoPlace DEF Inv
<1>5. TypeOK'
  BY <1>3, <1>4, Words DEF Inv, TypeOK
<1>6. EntriesInPlace' /\ RealInPlace'
  BY <1>3 DEF Inv, EntriesInPlace, RealInPlace
<1>7. (\A u \in Threads : PlaceOk(u))'
  BY <1>0, <1>1, <1>3, <1>4 DEF Inv, PlaceOk, LastSite
<1>8. OneAtATime'
  BY <1>1, <1>4, Numbers DEF Inv, OneAtATime
<1>9. OccupiedOk'
  BY <1>0, <1>1, <1>3, <1>4, Numbers DEF Inv, OccupiedOk, HasEntry, Filled
<1>10. ListedOk'
  BY <1>0, <1>1, <1>3, <1>4, Numbers DEF Inv, ListedOk
<1>11. CodeOk'
  BY <1>0, <1>1, <1>3, <1>4, Numbers DEF Inv, CodeOk, Branched, Unbranched
<1> QED  BY <1>5, <1>6, <1>7, <1>8, <1>9, <1>10, <1>11 DEF Inv

LEMMA RemoveWriteKeeps ==
  ASSUME Inv, NEW t \in Threads, RemoveWrite(t)
  PROVE  Inv'
<1>0. PICK s \in Sites : s = pc[t].site
  BY Fields DEF Inv
<1>1. /\ pc[t].task = "remove" /\ pc[t].at = "write" /\ pc[t].slot = s
      /\ s \in Slots /\ s \in listed
      /\ \A u \in Threads : u # t => pc[u].task = "idle"
      /\ buffer = Own(s)
  BY <1>0, OnSlot, Alone DEF RemoveWrite, At, Inv, PlaceOk
<1>2. /\ pc' = [pc EXCEPT ![t] = [pc[t] EXCEPT !.at = "clear", !.slot = s]]
      /\ code' = [code EXCEPT ![s] = Own(s)]
      /\ UNCHANGED <<funcs, jumps, real, buffer, listed, patched>>
  BY <1>0, <1>1, GotoSlot DEF RemoveWrite, Inv
<1>3. /\ pc' \in [Threads -> Place]
      /\ pc'[t].task = "remove" /\ pc'[t].site = s
      /\ pc'[t].at = "clear" /\ pc'[t].slot = s
      /\ \A u \in Threads : u # t => pc'[u] = pc[u]
  BY <1>0, <1>1, <1>2, GotoPlace DEF Inv
<1>4. TypeOK'
  BY <1>2, <1>3, Words DEF Inv, TypeOK
<1>5. EntriesInPlace' /\ RealInPlace'
  BY <1>2 DEF Inv, EntriesInPlace, RealInPlace
<1>6. (\A u \in Threads : PlaceOk(u))'
  BY <1>0, <1>1, <1>2, <1>3 DEF Inv, PlaceOk, LastSite
<1>7. OneAtATime'
  BY <1>1, <1>3, Numbers DEF Inv, OneAtATime
<1>8. OccupiedOk'
  BY <1>0, <1>1, <1>2, <1>3, Numbers DEF Inv, OccupiedOk, HasEntry, Filled
<1>9. ListedOk'
  BY <1>0, <1>1, <1>2, <1>3, Numbers DEF Inv, ListedOk
<1>10. CodeOk'
  <2>1. Unbranched(s)'
    BY <1>3 DEF Unbranched
  <2> SUFFICES ASSUME NEW x \in Sites
               PROVE  code'[x] = IF Branched(x)' THEN Branch(x) ELSE Own(x)
    BY DEF CodeOk
  <2>2. CASE x = s
    BY <1>2, <2>1, <2>2 DEF Branched, Inv, TypeOK
  <2>3. CASE x # s
    <3>1. Branched(x)' <=> Branched(x)
      BY <1>0, <1>1, <1>2, <1>3, <2>3, Numbers DEF Branched, Unbranched
    <3> QED  BY <1>2, <2>3, <3>1 DEF Inv, TypeOK, CodeOk
  <2> QED  BY <2>2, <2>3
<1> QED  BY <1>4, <1>5, <1>6, <1>7, <1>8, <1>9, <1>10 DEF Inv

\* A full table stops only MainThread, behind the file system's functions.
LEMMA FullKeeps ==
  ASSUME Inv, NEW t \in Threads, InstallFull(t)
  PROVE  Inv'
<1>0. PICK s \in Sites : s = pc[t].site
  BY Fields DEF Inv
<1>1. /\ pc[t].task = "install" /\ pc[t].at = "find"
      /\ t = Main /\ FsCount < s /\ s \notin Slots /\ s <= SiteCount
      /\ pc[Game].task = "idle"
  BY <1>0, FreeForSite, Alone, Numbers DEF InstallFull, At, LastSite
<1>2. s \notin listed
  BY <1>1, Numbers, ConstantsAssumption DEF Inv, TypeOK, FsSites
<1>3. /\ UNCHANGED <<code, funcs, jumps, real, buffer, listed, patched>>
      /\ NextSite(t)
  BY <1>0, <1>1, <1>2, ConstantsAssumption DEF InstallFull, NextSite
<1>4. /\ pc' \in [Threads -> Place]
      /\ pc'[t].at = "find"
      /\ s = SiteCount => pc'[t].task = "idle"
      /\ s # SiteCount => pc'[t].task = "install" /\ pc'[t].site = s + 1 /\ s < SiteCount
      /\ pc'[Game] = pc[Game]
  BY <1>0, <1>1, <1>3, NextPlace, Alone, Numbers DEF Inv, LastSite
<1>5. TypeOK'
  BY <1>3, <1>4 DEF Inv, TypeOK
<1>6. EntriesInPlace' /\ RealInPlace'
  BY <1>3 DEF Inv, EntriesInPlace, RealInPlace
<1>7. (\A u \in Threads : PlaceOk(u))'
  BY <1>0, <1>1, <1>3, <1>4, Numbers, ConstantsAssumption DEF Inv, PlaceOk, LastSite, Sites
<1>8. OneAtATime'
  BY <1>1, <1>4, Numbers DEF Inv, OneAtATime
<1>9. OccupiedOk'
  <2> SUFFICES ASSUME NEW k \in Slots PROVE HasEntry(k)' <=> HasEntry(k)
    BY <1>3 DEF Inv, OccupiedOk
  <2>1. k \in Nat /\ k \in 1..SlotCount /\ SlotCount < s /\ s \in Nat
    BY <1>1, Numbers, ConstantsAssumption DEF Slots, Sites
  <2>2. HasEntry(k)
    BY <1>0, <1>1, <2>1, ConstantsAssumption DEF HasEntry, Filled
  <2>3. CASE s = SiteCount
    <3>1. k <= FsCount => k \in listed
      BY <1>0, <1>1, <2>1, ConstantsAssumption DEF Inv, ListedOk, FsSites
    <3> QED  BY <1>1, <1>3, <1>4, <2>1, <2>2, <2>3, <3>1, ConstantsAssumption DEF HasEntry
  <2>4. CASE s # SiteCount
    BY <1>1, <1>4, <2>1, <2>2, <2>4, ConstantsAssumption DEF HasEntry, Filled
  <2> QED  BY <2>3, <2>4
<1>10. ListedOk'
  BY <1>0, <1>1, <1>3, <1>4, Numbers, ConstantsAssumption DEF Inv, ListedOk, FsSites, Sites
<1>11. CodeOk'
  BY <1>0, <1>1, <1>3, <1>4, Numbers DEF Inv, CodeOk, Branched, Unbranched
<1> QED  BY <1>5, <1>6, <1>7, <1>8, <1>9, <1>10, <1>11 DEF Inv

LEMMA PublishKeeps ==
  ASSUME Inv, NEW t \in Threads, InstallPublish(t)
  PROVE  Inv'
<1>0. PICK s \in Sites : s = pc[t].site
  BY Fields DEF Inv
<1>1. /\ pc[t].task = "install" /\ pc[t].at = "publish" /\ pc[t].slot = s
      /\ s \in Slots /\ s \in Nat /\ s <= LastSite(t)
      /\ \A u \in Threads : u # t => pc[u].task = "idle"
      /\ jumps[s] = Trampoline(s)
      /\ t = Game => s \in FsSites /\ pc[Main].task = "idle"
  BY <1>0, OnSlot, Alone, Numbers DEF InstallPublish, At, Inv, PlaceOk
<1>2. /\ real' = [real EXCEPT ![s] = s]
      /\ listed' = IF s \in FsSites THEN listed \cup {s} ELSE listed
      /\ NextSite(t)
      /\ patched' = IF s = FsCount THEN TRUE ELSE patched
      /\ UNCHANGED <<code, funcs, jumps, buffer>>
  BY <1>0, <1>1 DEF InstallPublish, NextSite
<1>3. /\ pc' \in [Threads -> Place]
      /\ pc'[t].at = "find"
      /\ s = LastSite(t) => pc'[t].task = "idle"
      /\ s # LastSite(t) =>
           pc'[t].task = "install" /\ pc'[t].site = s + 1 /\ s < LastSite(t)
      /\ \A u \in Threads : u # t => pc'[u] = pc[u]
  BY <1>0, <1>1, <1>2, NextPlace DEF Inv
<1>4. TypeOK'
  BY <1>1, <1>2, <1>3 DEF Inv, TypeOK
<1>5. EntriesInPlace'
  BY <1>2 DEF Inv, EntriesInPlace
<1>6. RealInPlace'
  BY <1>1, <1>2 DEF Inv, TypeOK, RealInPlace
<1>7. (\A u \in Threads : PlaceOk(u))'
  <2>1. PlaceOk(t)'
    BY <1>1, <1>3, Numbers DEF PlaceOk, LastSite, Sites
  <2>2. ASSUME NEW u \in Threads, u # t PROVE PlaceOk(u)'
    BY <1>1, <1>3, <2>2 DEF Inv, PlaceOk, LastSite
  <2> QED  BY <2>1, <2>2
<1>8. OneAtATime'
  BY <1>1, <1>3, Numbers DEF Inv, OneAtATime
<1>9. OccupiedOk'
  <2> SUFFICES ASSUME NEW k \in Slots PROVE HasEntry(k)' <=> HasEntry(k)
    BY <1>2 DEF Inv, OccupiedOk
  <2>1. k \in Nat /\ k > 0 /\ (k > FsCount <=> k \notin FsSites)
    BY Numbers, ConstantsAssumption DEF Slots, FsSites
  <2>2. CASE t = Main
    <3>1. HasEntry(k) <=> k <= s
      BY <1>0, <1>1, <2>1, <2>2 DEF HasEntry, Filled
    <3>2. CASE s = SiteCount
      <4>1. pc'[Main].task = "idle" /\ pc'[Game].task = "idle"
        BY <1>1, <1>3, <2>2, <3>2, Numbers DEF LastSite
      <4>2. k \in FsSites => k \in listed'
        BY <1>0, <1>1, <1>2, <2>1, <2>2, <3>2, ConstantsAssumption DEF Inv, ListedOk, FsSites
      <4> QED  BY <2>1, <3>1, <3>2, <4>1, <4>2, ConstantsAssumption DEF HasEntry, FsSites
    <3>3. CASE s # SiteCount
      <4>1. pc'[Main].task = "install" /\ pc'[Main].at = "find" /\ pc'[Main].site = s + 1
        BY <1>3, <2>2, <3>3 DEF LastSite
      <4> QED  BY <1>1, <2>1, <3>1, <4>1 DEF HasEntry, Filled
    <3> QED  BY <3>2, <3>3
  <2>3. CASE t = Game
    <3>1. /\ pc[Main].task = "idle" /\ pc'[Main].task = "idle"
      BY <1>1, <1>3, <2>3, Numbers
    <3>2. HasEntry(k) <=> IF k \in FsSites THEN k <= s ELSE k <= SiteCount
      BY <1>0, <1>1, <2>1, <2>3, <3>1 DEF HasEntry, Filled
    <3>3. CASE s = FsCount
      <4>1. pc'[Game].task = "idle"
        BY <1>3, <2>3, <3>3, Numbers DEF LastSite
      <4>2. k \in FsSites => k \in listed'
        BY <1>0, <1>1, <1>2, <2>1, <2>3, <3>3, ConstantsAssumption DEF Inv, ListedOk, FsSites
      <4> QED  BY <2>1, <3>1, <3>2, <3>3, <4>1, <4>2, ConstantsAssumption DEF HasEntry, FsSites
    <3>4. CASE s # FsCount
      <4>1. pc'[Game].task = "install" /\ pc'[Game].at = "find" /\ pc'[Game].site = s + 1
        BY <1>3, <2>3, <3>4, Numbers DEF LastSite
      <4> QED  BY <1>1, <2>1, <3>1, <3>2, <4>1 DEF HasEntry, Filled
    <3> QED  BY <3>3, <3>4
  <2> QED  BY <2>2, <2>3, Numbers
<1>10. ListedOk'
  <2>1. listed = {f \in FsSites : f < s}
    BY <1>0, <1>1, Numbers DEF Inv, ListedOk
  <2>2. listed' = {f \in FsSites : f < s + 1}
    <3>1. \A f \in FsSites : f < s + 1 <=> (f < s \/ f = s)
      BY <1>1 DEF FsSites
    <3> QED  BY <1>2, <2>1, <3>1
  <2>3. CASE t = Main
    <3>1. s = SiteCount => patched'
      BY <1>0, <1>1, <1>2, <2>3, ConstantsAssumption DEF Inv, ListedOk
    <3>2. FsCount < s + 1 => patched'
      BY <1>0, <1>1, <1>2, <2>3, ConstantsAssumption DEF Inv, ListedOk
    <3> QED  BY <1>1, <1>3, <2>2, <2>3, <3>1, <3>2, Numbers DEF ListedOk, LastSite
  <2>4. CASE t = Game
    <3>1. s = FsCount => patched'
      BY <1>2
    <3> QED  BY <1>1, <1>3, <2>2, <2>4, <3>1, Numbers DEF ListedOk, LastSite
  <2> QED  BY <2>3, <2>4, Numbers
<1>11. CodeOk'
  BY <1>0, <1>1, <1>2, <1>3, Numbers DEF Inv, CodeOk, Branched, Unbranched
<1> QED  BY <1>4, <1>5, <1>6, <1>7, <1>8, <1>9, <1>10, <1>11 DEF Inv

\* The entries of removePatch's list above the site are the ones left to remove.
LEMMA RemoveNothingKeeps ==
  ASSUME Inv, NEW t \in Threads, RemoveNothing(t)
  PROVE  Inv'
<1>0. PICK s \in Sites : s = pc[t].site
  BY Fields DEF Inv
<1>1. /\ pc[t].task = "remove" /\ pc[t].at = "find"
      /\ t = Game /\ pc[Main].task = "idle"
      /\ s \in FsSites /\ s \in Nat /\ s \notin listed
      /\ \A u \in Threads : u # t => pc[u].task = "idle"
  BY <1>0, Remover, SlotsOfSite, Alone, Numbers DEF RemoveNothing, At
<1>2. /\ NextSite(t)
      /\ patched' = IF s = FsCount THEN FALSE ELSE patched
      /\ UNCHANGED <<code, funcs, jumps, real, buffer, listed>>
  BY <1>0, <1>1 DEF RemoveNothing, NextSite
<1>3. /\ pc' \in [Threads -> Place] /\ patched' \in BOOLEAN
      /\ pc'[t].at = "find"
      /\ s = FsCount => pc'[t].task = "idle"
      /\ s # FsCount =>
           pc'[t].task = "remove" /\ pc'[t].site = s + 1 /\ s < FsCount
      /\ \A u \in Threads : u # t => pc'[u] = pc[u]
  BY <1>0, <1>1, <1>2, NextPlace, Alone, Numbers DEF Inv, LastSite
<1>4. TypeOK'
  BY <1>2, <1>3 DEF Inv, TypeOK
<1>5. EntriesInPlace' /\ RealInPlace'
  BY <1>2 DEF Inv, EntriesInPlace, RealInPlace
<1>6. (\A u \in Threads : PlaceOk(u))'
  <2>1. PlaceOk(t)'
    BY <1>1, <1>3, Numbers, ConstantsAssumption DEF PlaceOk, LastSite
  <2>2. ASSUME NEW u \in Threads, u # t PROVE PlaceOk(u)'
    BY <1>1, <1>3, <2>2 DEF Inv, PlaceOk, LastSite
  <2> QED  BY <2>1, <2>2
<1>7. OneAtATime'
  BY <1>1, <1>3, Numbers DEF Inv, OneAtATime
<1>8. OccupiedOk'
  BY <1>1, <1>2, <1>3, Numbers DEF Inv, OccupiedOk, HasEntry
<1>9. ListedOk'
  <2>1. \A f \in listed : f \in FsSites /\ s <= f
    BY <1>0, <1>1 DEF Inv, TypeOK, ListedOk
  <2>2. \A f \in listed : s + 1 <= f
    BY <1>1, <2>1 DEF FsSites
  <2>3. s = FsCount => listed = {}
    BY <2>1, <2>2, ConstantsAssumption DEF FsSites
  <2> QED  BY <1>1, <1>2, <1>3, <2>2, <2>3, Numbers DEF ListedOk
<1>10. CodeOk'
  BY <1>0, <1>1, <1>2, <1>3, Numbers DEF Inv, CodeOk, Branched, Unbranched
<1> QED  BY <1>4, <1>5, <1>6, <1>7, <1>8, <1>9, <1>10 DEF Inv

LEMMA RemoveClearKeeps ==
  ASSUME Inv, NEW t \in Threads, RemoveClear(t)
  PROVE  Inv'
<1>0. PICK s \in Sites : s = pc[t].site
  BY Fields DEF Inv
<1>1. /\ pc[t].task = "remove" /\ pc[t].at = "clear" /\ pc[t].slot = s
      /\ t = Game /\ pc[Main].task = "idle"
      /\ s \in FsSites /\ s \in Slots /\ s \in Nat
      /\ \A u \in Threads : u # t => pc[u].task = "idle"
      /\ code[s] = Own(s)
  BY <1>0, Remover, OnSlot, CodeAtSite, Alone, Numbers DEF RemoveClear, At
<1>2. /\ NextSite(t)
      /\ funcs' = [funcs EXCEPT ![s] = Null]
      /\ listed' = listed \ {s}
      /\ patched' = IF s = FsCount THEN FALSE ELSE patched
      /\ UNCHANGED <<code, jumps, real, buffer>>
  BY <1>0, <1>1 DEF RemoveClear, NextSite
<1>3. /\ pc' \in [Threads -> Place] /\ patched' \in BOOLEAN
      /\ pc'[t].at = "find"
      /\ s = FsCount => pc'[t].task = "idle"
      /\ s # FsCount =>
           pc'[t].task = "remove" /\ pc'[t].site = s + 1 /\ s < FsCount
      /\ \A u \in Threads : u # t => pc'[u] = pc[u]
  BY <1>0, <1>1, <1>2, NextPlace, Alone, Numbers DEF Inv, LastSite
<1>4. TypeOK'
  BY <1>1, <1>2, <1>3, Words DEF Inv, TypeOK
<1>5. /\ funcs'[s] = Null
      /\ \A k \in Slots : k # s => funcs'[k] = funcs[k]
  BY <1>1, <1>2 DEF Inv, TypeOK
<1>6. EntriesInPlace' /\ RealInPlace'
  BY <1>2, <1>5 DEF Inv, EntriesInPlace, RealInPlace
<1>7. (\A u \in Threads : PlaceOk(u))'
  <2>1. PlaceOk(t)'
    BY <1>1, <1>3, Numbers, ConstantsAssumption DEF PlaceOk, LastSite
  <2>2. ASSUME NEW u \in Threads, u # t PROVE PlaceOk(u)'
    BY <1>1, <1>3, <2>2 DEF Inv, PlaceOk, LastSite
  <2> QED  BY <2>1, <2>2
<1>8. OneAtATime'
  BY <1>1, <1>3, Numbers DEF Inv, OneAtATime
<1>9. OccupiedOk'
  <2> SUFFICES ASSUME NEW k \in Slots PROVE funcs'[k] # Null <=> HasEntry(k)'
    BY DEF OccupiedOk
  <2>1. HasEntry(k) <=> IF k > FsCount THEN k <= SiteCount ELSE k \in listed
    BY <1>1 DEF HasEntry
  <2>2. HasEntry(k)' <=> IF k > FsCount THEN k <= SiteCount ELSE k \in listed'
    BY <1>1, <1>3, Numbers DEF HasEntry
  <2>3. ~(s > FsCount)
    BY <1>1, ConstantsAssumption DEF FsSites
  <2>4. funcs[k] # Null <=> HasEntry(k)
    BY DEF Inv, OccupiedOk
  <2> QED  BY <1>2, <1>5, <2>1, <2>2, <2>3, <2>4
<1>10. ListedOk'
  <2>1. \A f \in listed : f \in FsSites /\ s <= f
    BY <1>0, <1>1 DEF Inv, TypeOK, ListedOk
  <2>2. \A f \in listed' : s + 1 <= f
    BY <1>1, <1>2, <2>1 DEF FsSites
  <2>3. s = FsCount => listed' = {}
    BY <1>2, <2>1, <2>2, ConstantsAssumption DEF FsSites
  <2> QED  BY <1>1, <1>2, <1>3, <2>2, <2>3, Numbers DEF ListedOk
<1>11. CodeOk'
  <2> SUFFICES ASSUME NEW x \in Sites
               PROVE  code'[x] = IF Branched(x)' THEN Branch(x) ELSE Own(x)
    BY DEF CodeOk
  <2>1. CASE x = s
    BY <1>1, <1>2, <1>5, <2>1 DEF Branched
  <2>2. CASE x # s
    <3>1. Branched(x)' <=> Branched(x)
      BY <1>0, <1>1, <1>3, <1>5, <2>2, Numbers DEF Branched, Unbranched
    <3> QED  BY <1>2, <3>1 DEF Inv, CodeOk
  <2> QED  BY <2>1, <2>2
<1> QED  BY <1>4, <1>6, <1>7, <1>8, <1>9, <1>10, <1>11 DEF Inv

\* The ProcUI hook starts to take the file system's patches out, or to put them
\* back in.
LEMMA HomeKeeps ==
  ASSUME ~HomeDuringSetup, Inv, ReleaseForeground \/ EnterForeground
  PROVE  Inv'
<1>1. PICK task \in {"remove", "install"} : pc' = [pc EXCEPT ![Game] = Begin(task)]
  BY DEF ReleaseForeground, EnterForeground
<1>2. /\ pc[Main].task = "idle" /\ pc[Game].task = "idle"
      /\ UNCHANGED <<code, funcs, jumps, real, buffer, listed, patched>>
      /\ task = "install" => ~patched
  BY <1>1 DEF ReleaseForeground, EnterForeground, ProcUiHooked, Begin, Inv, TypeOK, Threads
<1>3. Begin(task) \in Place
  BY ConstantsAssumption DEF Begin, Place, Sites
<1>4. /\ pc' \in [Threads -> Place]
      /\ pc'[Game].task = task /\ pc'[Game].at = "find" /\ pc'[Game].site = 1
      /\ pc'[Main] = pc[Main]
  BY <1>1, <1>3, Numbers DEF Inv, TypeOK, Begin
<1>5. TypeOK'
  BY <1>2, <1>4 DEF Inv, TypeOK
<1>6. EntriesInPlace' /\ RealInPlace'
  BY <1>2 DEF Inv, EntriesInPlace, RealInPlace
<1>7. (\A u \in Threads : PlaceOk(u))'
  BY <1>2, <1>4, Numbers, ConstantsAssumption DEF PlaceOk, LastSite
<1>8. OneAtATime'
  BY <1>2, <1>4 DEF OneAtATime
<1>9. task = "install" => listed = {}
  BY <1>2 DEF Inv, ListedOk
<1>10. OccupiedOk'
  <2> SUFFICES ASSUME NEW k \in Slots PROVE HasEntry(k)' <=> HasEntry(k)
    BY <1>2 DEF Inv, OccupiedOk
  <2>1. ~(k < 1)
    BY DEF Slots
  <2> QED  BY <1>2, <1>4, <1>9, <2>1 DEF HasEntry, Filled
<1>11. ListedOk'
  <2>1. \A f \in FsSites : 1 <= f /\ ~(f < 1)
    BY DEF FsSites
  <2> QED  BY <1>2, <1>4, <1>9, <2>1 DEF Inv, TypeOK, ListedOk
<1>12. CodeOk'
  BY <1>2, <1>4, Numbers DEF Inv, CodeOk, Branched, Unbranched
<1> QED  BY <1>5, <1>6, <1>7, <1>8, <1>10, <1>11, <1>12 DEF Inv

LEMMA InitInv ==
  ASSUME Init
  PROVE  Inv
<1>1. /\ pc[Main].task = "install" /\ pc[Main].at = "find" /\ pc[Main].site = 1
      /\ pc[Game].task = "idle"
      /\ \A k \in Slots : funcs[k] = Null
      /\ \A s \in Sites : code[s] = Own(s) /\ real[s] = NoSlot
      /\ listed = {}
  BY Numbers DEF Init, Begin, Idle
<1>2. TypeOK
  <2>1. Idle \in Place /\ Begin("install") \in Place
    BY ConstantsAssumption DEF Idle, Begin, Place, Sites
  <2> QED  BY <2>1, Words DEF Init, TypeOK
<1>3. EntriesInPlace /\ RealInPlace
  BY <1>1 DEF EntriesInPlace, RealInPlace
<1>4. \A t \in Threads : PlaceOk(t)
  BY <1>1, Numbers, ConstantsAssumption DEF PlaceOk, LastSite
<1>5. OneAtATime
  BY <1>1 DEF OneAtATime
<1>6. OccupiedOk
  BY <1>1 DEF OccupiedOk, HasEntry, Filled, Slots
<1>7. ListedOk
  BY <1>1, ConstantsAssumption DEF ListedOk, FsSites
<1>8. CodeOk
  BY <1>1 DEF CodeOk, Branched
<1> QED  BY <1>2, <1>3, <1>4, <1>5, <1>6, <1>7, <1>8 DEF Inv

LEMMA StutterKeeps ==
  ASSUME Inv, UNCHANGED vars
  PROVE  Inv'
BY DEF vars, Inv, TypeOK, EntriesInPlace, RealInPlace, PlaceOk, OneAtATime,
       OccupiedOk, HasEntry, Filled, ListedOk, CodeOk, Branched, Unbranched

LEMMA NextInv ==
  ASSUME ~HomeDuringSetup, Inv, [Next]_vars
  PROVE  Inv'
<1>1. CASE \E t \in Threads : Install(t)
  BY <1>1, FullKeeps, FindKeeps, FillKeeps, CopyKeeps, WriteKeeps, PublishKeeps
     DEF Install
<1>2. CASE \E t \in Threads : Remove(t)
  BY <1>2, RemoveNothingKeeps, RemoveFindKeeps, RemoveCopyKeeps, RemoveWriteKeeps,
     RemoveClearKeeps DEF Remove
<1>3. CASE ReleaseForeground \/ EnterForeground
  BY <1>3, HomeKeeps
<1>4. CASE UNCHANGED vars
  BY <1>4, StutterKeeps
<1> QED  BY <1>1, <1>2, <1>3, <1>4 DEF Next

-----------------------------------------------------------------------------
(* What the patcher guarantees.                                             *)

\* The invariant holds throughout when HOME is not pressed before MainThread is
\* done (main.cpp:34-89, filesystem.cpp:217-239).
THEOREM Invariance ==
  ASSUME ~HomeDuringSetup
  PROVE  Spec => []Inv
<1>1. Init => Inv
  BY InitInv
<1>2. Inv /\ [Next]_vars => Inv'
  BY NextInv
<1> QED  BY <1>1, <1>2, PTL DEF Spec

\* With no thread inside the patcher, a function is hooked exactly when one entry
\* of pFuncList would restore it (patcher.cpp:95-101, :127-130).
THEOREM EntriesMatch ==
  ASSUME ~HomeDuringSetup
  PROVE  Spec => []EntriesMatchHooks
<1>1. ASSUME Inv PROVE EntriesMatchHooks
  <2> SUFFICES ASSUME \A t \in Threads : pc[t].task = "idle", NEW s \in Sites
               PROVE  /\ code[s] = Branch(s) =>
                           \E k \in Slots : SlotsOf(s) = {k} /\ funcs[k].word = Own(s)
                      /\ code[s] = Own(s) => SlotsOf(s) = {}
    BY DEF EntriesMatchHooks
  <2>1. ~Unbranched(s)
    BY DEF Unbranched
  <2>2. code[s] = IF s \in SlotsOf(s) THEN Branch(s) ELSE Own(s)
    BY <1>1, <2>1, SlotsOfSite DEF Inv, CodeOk, Branched
  <2>3. s \in SlotsOf(s) => SlotsOf(s) = {s} /\ s \in Slots /\ funcs[s].word = Own(s)
    BY <1>1, SlotsOfSite, Words DEF Inv, EntriesInPlace
  <2>4. s \notin SlotsOf(s) => SlotsOf(s) = {}
    BY <1>1, SlotsOfSite
  <2> QED  BY <2>2, <2>3, <2>4, Words
<1> QED  BY <1>1, Invariance, PTL

\* A real pointer, once set, reaches its own function, also while its hook is out
\* and its table entry is free (patcher.cpp:95, :104-112, :126-130).
THEOREM RealPointersReach ==
  ASSUME ~HomeDuringSetup
  PROVE  Spec => []RealReachesOriginal
<1>1. Inv => RealReachesOriginal
  BY DEF Inv, RealInPlace, RealReachesOriginal, Reaches
<1> QED  BY <1>1, Invariance, PTL

LEMMA ContractInit ==
  ASSUME Init
  PROVE  Contract!Init
BY DEF Init, Contract!Init, Runs, Reaches

\* Nothing a caller of the functions can see.
LEMMA Invisible ==
  ASSUME UNCHANGED <<code, jumps, real>>
  PROVE  UNCHANGED Contract!vars
BY DEF Contract!vars, Runs, Reaches

\* Every step is a step of the contract, or nothing a caller can see.
LEMMA ContractStep ==
  ASSUME ~HomeDuringSetup, Inv, [Next]_vars
  PROVE  [Contract!Next]_(Contract!vars)
<1>1. ASSUME NEW t \in Threads, InstallFill(t)
      PROVE  UNCHANGED Contract!vars
  <2>1. PICK s \in Sites : s = pc[t].site
    BY Fields DEF Inv
  <2>2. /\ pc[t].task = "install" /\ pc[t].at = "fill" /\ pc[t].slot = s
        /\ code[s] = Own(s) /\ s \in Slots
    BY <1>1, <2>1, OnSlot, CodeAtSite DEF InstallFill, At
  <2>3. jumps' = [jumps EXCEPT ![s] = Trampoline(s)] /\ UNCHANGED <<code, real>>
    BY <1>1, <2>1, <2>2 DEF InstallFill, Trampoline
  <2>4. \A x \in Sites : Reaches(x)' = Reaches(x)
    <3> SUFFICES ASSUME NEW x \in Sites, real[x] # NoSlot
                 PROVE  jumps'[real[x]] = jumps[real[x]]
      BY <2>3 DEF Reaches
    <3>1. real[x] = x /\ x \in Slots /\ jumps[x] = Trampoline(x)
      BY DEF Inv, RealInPlace
    <3>2. x = s => jumps'[x] = Trampoline(x)
      BY <2>3, <3>1 DEF Inv, TypeOK
    <3>3. x # s => jumps'[x] = jumps[x]
      BY <2>3, <3>1 DEF Inv, TypeOK
    <3> QED  BY <3>1, <3>2, <3>3
  <2>5. \A x \in Sites : Runs(x)' = Runs(x)
    BY <2>3 DEF Runs
  <2> QED  BY <2>4, <2>5 DEF Contract!vars, Reaches, Runs
<1>2. ASSUME NEW t \in Threads, InstallWrite(t)
      PROVE  Contract!Next
  <2>1. PICK s \in Sites : s = pc[t].site
    BY Fields DEF Inv
  <2>2. /\ code[s] = Own(s)
        /\ code' = [code EXCEPT ![s] = Branch(s)]
        /\ UNCHANGED <<jumps, real>>
    BY <1>2, <2>1, CodeAtSite DEF InstallWrite, At, Inv, PlaceOk
  <2>3. Contract!Install(s)
    BY <2>2, Words DEF Contract!Install, Runs, Reaches, Inv, TypeOK
  <2> QED  BY <2>3 DEF Contract!Next
<1>3. ASSUME NEW t \in Threads, InstallPublish(t)
      PROVE  [Contract!Next]_(Contract!vars)
  <2>1. PICK s \in Sites : s = pc[t].site
    BY Fields DEF Inv
  <2>2. /\ code[s] = Branch(s) /\ jumps[s] = Trampoline(s) /\ s # NoSlot
        /\ real' = [real EXCEPT ![s] = s]
        /\ UNCHANGED <<code, jumps>>
    <3>1. pc[t].task = "install" /\ pc[t].at = "publish"
      BY <1>3 DEF InstallPublish, At
    <3>2. code[s] = Branch(s) /\ pc[t].slot = s
      BY <2>1, <3>1, OnSlot, CodeAtSite
    <3>3. jumps[s] = Trampoline(s)
      BY <2>1, <3>1 DEF Inv, PlaceOk
    <3>4. s # NoSlot
      BY Numbers DEF Sites
    <3> QED  BY <1>3, <2>1, <3>2, <3>3, <3>4 DEF InstallPublish
  <2>3. CASE real[s] = NoSlot
    <3>1. Contract!Publish(s)
      BY <2>2, <2>3, Words DEF Contract!Publish, Runs, Reaches, Inv, TypeOK
    <3> QED  BY <3>1 DEF Contract!Next
  <2>4. CASE real[s] # NoSlot
    <3>1. real[s] = s
      BY <2>4 DEF Inv, RealInPlace
    <3>2. real' = real
      BY <2>2, <3>1 DEF Inv, TypeOK
    <3> QED  BY <2>2, <3>2, Invisible
  <2> QED  BY <2>3, <2>4
<1>4. ASSUME NEW t \in Threads, RemoveWrite(t)
      PROVE  Contract!Next
  <2>1. PICK s \in Sites : s = pc[t].site
    BY Fields DEF Inv
  <2>2. /\ code[s] = Branch(s)
        /\ code' = [code EXCEPT ![s] = Own(s)]
        /\ UNCHANGED <<jumps, real>>
    BY <1>4, <2>1, CodeAtSite DEF RemoveWrite, At, Inv, PlaceOk
  <2>3. Contract!Remove(s)
    BY <2>2, Words DEF Contract!Remove, Runs, Reaches, Inv, TypeOK
  <2> QED  BY <2>3 DEF Contract!Next
<1>5. ASSUME NEW t \in Threads,
             \/ InstallFull(t) \/ InstallFind(t) \/ InstallCopy(t)
             \/ RemoveNothing(t) \/ RemoveFind(t) \/ RemoveCopy(t) \/ RemoveClear(t)
      PROVE  UNCHANGED Contract!vars
  BY <1>5, Invisible DEF InstallFull, InstallFind, InstallCopy, RemoveNothing, RemoveFind,
     RemoveCopy, RemoveClear
<1>6. CASE ReleaseForeground \/ EnterForeground \/ UNCHANGED vars
  BY <1>6, Invisible DEF ReleaseForeground, EnterForeground, vars
<1> QED  BY <1>1, <1>2, <1>3, <1>4, <1>5, <1>6 DEF Next, Install, Remove

\* The patcher implements its contract: a call runs the function or its hook, one
\* function changes at a time, and a real pointer is published once and for good
\* (patcher.h:82-92, patcher.cpp:89-131).
THEOREM ContractKept ==
  ASSUME ~HomeDuringSetup
  PROVE  Spec => KeepsContract
<1>1. Init => Contract!Init
  BY ContractInit
<1>2. Inv /\ [Next]_vars => [Contract!Next]_(Contract!vars)
  BY ContractStep
<1> QED  BY <1>1, <1>2, Invariance, PTL DEF Spec, KeepsContract, Contract!Spec

-----------------------------------------------------------------------------
(* Whenever HOME is pressed, a thread that is inside the patcher comes to   *)
(* its end: what it has left to do gets less with each of its steps.        *)

\* How far a thread in the patcher can be, and that its search found a slot.
AtWork(t) ==
  LET p == pc[t]
  IN p.task # "idle" =>
       /\ p.site <= LastSite(t)
       /\ p.at \in IF p.task = "install" THEN {"find", "fill", "copy", "write", "publish"}
                   ELSE {"find", "copy", "write", "clear"}
       /\ p.at # "find" => p.slot \in Slots

Working == TypeOK /\ \A t \in Threads : AtWork(t)

\* The steps that are left for the site it works on, and for the sites behind it.
Rank(at) ==
  CASE at = "find" -> 5 [] at = "fill" -> 4 [] at = "copy" -> 3 [] at = "write" -> 2
    [] OTHER -> 1

Left(t) ==
  IF pc[t].task = "idle" THEN 0 ELSE 5 * (LastSite(t) - pc[t].site) + Rank(pc[t].at)

LEMMA LeftIsNumber ==
  ASSUME Working, NEW t \in Threads
  PROVE  Left(t) \in Nat /\ (Left(t) = 0 <=> pc[t].task = "idle")
<1>1. pc[t].task # "idle" => LastSite(t) - pc[t].site \in Nat
  <2>1. LastSite(t) \in Nat /\ pc[t].site \in Nat
    BY Fields, Numbers DEF Working
  <2> QED  BY <2>1 DEF Working, AtWork
<1>2. Rank(pc[t].at) \in 1..5
  BY DEF Rank
<1> QED  BY <1>1, <1>2 DEF Left

\* A thread that goes on with its site.
LEMMA GoesOn ==
  ASSUME Working, NEW t \in Threads, pc[t].task # "idle",
         NEW a \in {"fill", "copy", "write", "publish", "clear"}, NEW k \in Slots,
         pc' = [pc EXCEPT ![t] = [pc[t] EXCEPT !.at = a, !.slot = k]],
         a \in IF pc[t].task = "install" THEN {"fill", "copy", "write", "publish"}
               ELSE {"copy", "write", "clear"},
         Rank(a) < Rank(pc[t].at)
  PROVE  /\ pc' \in [Threads -> Place]
         /\ \A u \in Threads : AtWork(u)'
         /\ Left(t)' < Left(t) /\ \A u \in Threads : u # t => Left(u)' = Left(u)
<1>1. /\ pc' \in [Threads -> Place]
      /\ pc'[t].task = pc[t].task /\ pc'[t].site = pc[t].site
      /\ pc'[t].at = a /\ pc'[t].slot = k
      /\ \A u \in Threads : u # t => pc'[u] = pc[u]
  BY GotoPlace DEF Working
<1>2. \A u \in Threads : LastSite(u)' = LastSite(u)
  BY DEF LastSite
<1>3. AtWork(t)'
  BY <1>1, <1>2 DEF Working, AtWork
<1>4. ASSUME NEW u \in Threads, u # t PROVE AtWork(u)' /\ Left(u)' = Left(u)
  BY <1>1, <1>2, <1>4 DEF Working, AtWork, Left
<1>5. Left(t)' < Left(t)
  <2>1. LastSite(t) \in Nat /\ pc[t].site \in Nat
    BY Fields, Numbers DEF Working
  <2>2. Rank(a) \in Nat /\ Rank(pc[t].at) \in Nat
    BY DEF Rank
  <2>3. Left(t)' = 5 * (LastSite(t) - pc[t].site) + Rank(a)
    BY <1>1, <1>2 DEF Left
  <2>4. Left(t) = 5 * (LastSite(t) - pc[t].site) + Rank(pc[t].at)
    BY DEF Left
  <2> HIDE DEF Rank, Left
  <2> QED  BY <2>1, <2>2, <2>3, <2>4
<1> QED  BY <1>1, <1>3, <1>4, <1>5

\* A thread that is done with its site.
LEMMA GoesToNext ==
  ASSUME Working, NEW t \in Threads, pc[t].task # "idle", NextSite(t)
  PROVE  /\ pc' \in [Threads -> Place] /\ patched' \in BOOLEAN
         /\ \A u \in Threads : AtWork(u)'
         /\ Left(t)' < Left(t) /\ \A u \in Threads : u # t => Left(u)' = Left(u)
<1>1. /\ pc' \in [Threads -> Place] /\ patched' \in BOOLEAN
      /\ pc'[t].at = "find"
      /\ pc[t].site = LastSite(t) => pc'[t].task = "idle"
      /\ pc[t].site # LastSite(t) =>
           /\ pc'[t].task = pc[t].task
           /\ pc'[t].site = pc[t].site + 1
           /\ pc[t].site < LastSite(t)
      /\ \A u \in Threads : u # t => pc'[u] = pc[u]
  BY NextPlace DEF Working, AtWork
<1>2. \A u \in Threads : LastSite(u)' = LastSite(u) /\ LastSite(u) \in Nat
  BY Numbers DEF LastSite
<1>3. pc[t].site \in Nat /\ pc[t].task \in {"install", "remove"}
  BY Fields, Numbers DEF Working
<1>4. AtWork(t)'
  BY <1>1, <1>2, <1>3 DEF AtWork
<1>5. ASSUME NEW u \in Threads, u # t PROVE AtWork(u)' /\ Left(u)' = Left(u)
  BY <1>1, <1>2, <1>5 DEF Working, AtWork, Left
<1>6. Left(t)' < Left(t)
  <2>1. Rank("find") = 5 /\ Rank(pc[t].at) \in 1..5
    BY DEF Rank
  <2>2. Left(t) = 5 * (LastSite(t) - pc[t].site) + Rank(pc[t].at)
    BY DEF Left
  <2>3. CASE pc[t].site = LastSite(t)
    <3>1. Left(t)' = 0
      BY <1>1, <2>3 DEF Left
    <3> QED  BY <1>2, <1>3, <2>1, <2>2, <2>3, <3>1
  <2>4. CASE pc[t].site # LastSite(t)
    <3>1. Left(t)' = 5 * (LastSite(t) - (pc[t].site + 1)) + 5
      BY <1>1, <1>2, <1>3, <2>1, <2>4 DEF Left
    <3> QED  BY <1>2, <1>3, <2>1, <2>2, <3>1
  <2> QED  BY <2>3, <2>4
<1> QED  BY <1>1, <1>4, <1>5, <1>6

\* One step of thread t in the patcher.
LEMMA WorkStep ==
  ASSUME Working, NEW t \in Threads, Install(t) \/ Remove(t)
  PROVE  /\ Working'
         /\ pc[t].task # "idle"
         /\ Left(t)' < Left(t) /\ \A u \in Threads : u # t => Left(u)' = Left(u)
<1> USE DEF Working
<1>1. /\ pc[t].site \in Sites
      /\ pc[t].task # "idle" /\ pc[t].at # "find" => pc[t].slot \in Slots
  BY Fields DEF AtWork
<1>2. CASE InstallFull(t) \/ RemoveNothing(t)
  <2>1. /\ pc[t].task # "idle" /\ NextSite(t)
        /\ UNCHANGED <<code, funcs, jumps, real, buffer>> /\ listed' \subseteq listed
    BY <1>2 DEF InstallFull, RemoveNothing, At
  <2>2. TypeOK'
    BY <2>1, GoesToNext DEF TypeOK
  <2> QED  BY <2>1, <2>2, GoesToNext
<1>3. CASE InstallFind(t)
  <2>1. First(FreeSlots) \in Slots
    BY <1>3, FirstIn DEF InstallFind, FreeSlots
  <2>2. /\ pc[t].task = "install" /\ pc[t].at = "find"
        /\ pc' = [pc EXCEPT ![t] = [pc[t] EXCEPT !.at = "fill", !.slot = First(FreeSlots)]]
        /\ UNCHANGED <<code, funcs, jumps, real, buffer, listed, patched>>
    BY <1>3 DEF InstallFind, At
  <2>3. Rank("fill") < Rank("find")
    BY DEF Rank
  <2>4. /\ pc' \in [Threads -> Place] /\ \A u \in Threads : AtWork(u)'
        /\ Left(t)' < Left(t) /\ \A u \in Threads : u # t => Left(u)' = Left(u)
    BY <2>1, <2>2, <2>3, GoesOn
  <2> QED  BY <2>2, <2>4 DEF TypeOK
<1>4. CASE RemoveFind(t)
  <2>1. First(SlotsOf(pc[t].site)) \in Slots
    BY <1>4, FirstIn DEF RemoveFind, SlotsOf
  <2>2. /\ pc[t].task = "remove" /\ pc[t].at = "find"
        /\ pc' = [pc EXCEPT ![t] = [pc[t] EXCEPT !.at = "copy",
                                                 !.slot = First(SlotsOf(pc[t].site))]]
        /\ UNCHANGED <<code, funcs, jumps, real, buffer, listed, patched>>
    BY <1>4 DEF RemoveFind, At
  <2>3. Rank("copy") < Rank("find")
    BY DEF Rank
  <2>4. /\ pc' \in [Threads -> Place] /\ \A u \in Threads : AtWork(u)'
        /\ Left(t)' < Left(t) /\ \A u \in Threads : u # t => Left(u)' = Left(u)
    BY <2>1, <2>2, <2>3, GoesOn
  <2> QED  BY <2>2, <2>4 DEF TypeOK
<1>5. ASSUME NEW a \in {"copy", "write", "publish", "clear"}, Goto(t, a),
             pc[t].task # "idle", pc[t].at # "find", Rank(a) < Rank(pc[t].at),
             a \in IF pc[t].task = "install" THEN {"fill", "copy", "write", "publish"}
                   ELSE {"copy", "write", "clear"}
      PROVE  /\ pc' \in [Threads -> Place] /\ \A u \in Threads : AtWork(u)'
             /\ Left(t)' < Left(t) /\ \A u \in Threads : u # t => Left(u)' = Left(u)
  <2>1. pc' = [pc EXCEPT ![t] = [pc[t] EXCEPT !.at = a, !.slot = pc[t].slot]]
    BY <1>5, GotoSlot
  <2> QED  BY <1>1, <1>5, <2>1, GoesOn
<1>6. Rank("copy") < Rank("fill") /\ Rank("write") < Rank("copy") /\ Rank("publish") < Rank("write")
      /\ Rank("clear") < Rank("write")
  BY DEF Rank
<1>7. CASE InstallFill(t)
  <2>1. /\ pc[t].task = "install" /\ pc[t].at = "fill" /\ Goto(t, "copy")
        /\ UNCHANGED <<code, real, buffer, listed, patched>>
    BY <1>7 DEF InstallFill, At
  <2>2. [site |-> pc[t].site, word |-> code[pc[t].site]] \in Entry
    BY <1>1 DEF TypeOK, Entry
  <2>3. funcs' \in [Slots -> Entry] /\ jumps' \in [Slots -> Entry]
    BY <1>7, <2>2 DEF InstallFill, TypeOK
  <2> QED  BY <1>5, <1>6, <2>1, <2>3 DEF TypeOK
<1>8. CASE InstallCopy(t)
  <2>1. /\ pc[t].task = "install" /\ pc[t].at = "copy" /\ Goto(t, "write")
        /\ buffer' = Branch(pc[t].site)
        /\ UNCHANGED <<code, funcs, jumps, real, listed, patched>>
    BY <1>8 DEF InstallCopy, At
  <2> QED  BY <1>1, <1>5, <1>6, <2>1, Words DEF TypeOK
<1>9. CASE InstallWrite(t) \/ RemoveWrite(t)
  <2>1. /\ UNCHANGED <<funcs, jumps, real, buffer, listed, patched>>
        /\ code' = [code EXCEPT ![pc[t].site] = buffer]
        /\ pc[t].at = "write"
        /\ \/ pc[t].task = "install" /\ Goto(t, "publish")
           \/ pc[t].task = "remove" /\ Goto(t, "clear")
    BY <1>9 DEF InstallWrite, RemoveWrite, At
  <2>2. code' \in [Sites -> Word]
    BY <1>1, <2>1 DEF TypeOK
  <2> QED  BY <1>5, <1>6, <2>1, <2>2 DEF TypeOK
<1>10. CASE InstallPublish(t)
  <2>1. /\ pc[t].task = "install" /\ pc[t].at = "publish" /\ NextSite(t)
        /\ UNCHANGED <<code, funcs, jumps, buffer>>
        /\ real' = [real EXCEPT ![pc[t].site] = pc[t].slot]
        /\ listed' \subseteq FsSites
    BY <1>10 DEF InstallPublish, At, TypeOK
  <2>2. real' \in [Sites -> Slots \cup {NoSlot}]
    BY <1>1, <2>1 DEF TypeOK
  <2> QED  BY <2>1, <2>2, GoesToNext DEF TypeOK
<1>11. CASE RemoveCopy(t)
  <2>1. /\ pc[t].task = "remove" /\ pc[t].at = "copy" /\ Goto(t, "write")
        /\ buffer' = funcs[pc[t].slot].word
        /\ UNCHANGED <<code, funcs, jumps, real, listed, patched>>
    BY <1>11 DEF RemoveCopy, At
  <2>2. buffer' \in Word
    BY <1>1, <2>1 DEF TypeOK, Entry
  <2> QED  BY <1>5, <1>6, <2>1, <2>2 DEF TypeOK
<1>12. CASE RemoveClear(t)
  <2>1. /\ pc[t].task = "remove" /\ pc[t].at = "clear" /\ NextSite(t)
        /\ UNCHANGED <<code, jumps, real, buffer>>
        /\ funcs' = [funcs EXCEPT ![pc[t].slot] = Null]
        /\ listed' \subseteq listed
    BY <1>12 DEF RemoveClear, At
  <2>2. funcs' \in [Slots -> Entry]
    BY <1>1, <2>1, Words DEF TypeOK
  <2> QED  BY <2>1, <2>2, GoesToNext DEF TypeOK
<1> QED
  BY <1>2, <1>3, <1>4, <1>7, <1>8, <1>9, <1>10, <1>11, <1>12 DEF Install, Remove

\* HOME gives work to a thread that has none.
LEMMA HomeWork ==
  ASSUME Working, ReleaseForeground \/ EnterForeground
  PROVE  /\ Working' /\ pc[Game].task = "idle" /\ Left(Main)' = Left(Main)
<1>1. PICK task \in {"remove", "install"} : pc' = [pc EXCEPT ![Game] = Begin(task)]
  BY DEF ReleaseForeground, EnterForeground
<1>2. /\ pc[Game].task = "idle"
      /\ UNCHANGED <<code, funcs, jumps, real, buffer, listed, patched>>
  BY DEF ReleaseForeground, EnterForeground
<1>3. Begin(task) \in Place
  BY ConstantsAssumption DEF Begin, Place, Sites
<1>4. /\ pc' \in [Threads -> Place]
      /\ pc'[Game].task = task /\ pc'[Game].at = "find" /\ pc'[Game].site = 1
      /\ pc'[Main] = pc[Main]
  BY <1>1, <1>3, Numbers DEF Working, TypeOK, Begin
<1>5. TypeOK'
  BY <1>2, <1>4 DEF Working, TypeOK
<1>6. (\A u \in Threads : AtWork(u))'
  BY <1>4, Numbers, ConstantsAssumption DEF Working, AtWork, LastSite
<1>7. Left(Main)' = Left(Main)
  BY <1>4 DEF Left, LastSite
<1> QED  BY <1>2, <1>5, <1>6, <1>7 DEF Working

LEMMA InitWorking ==
  ASSUME Init
  PROVE  Working
<1>1. Inv
  BY InitInv
<1>2. \A t \in Threads : pc[t].at = "find" /\ pc[t].site = 1
  BY DEF Init, Begin, Idle
<1>3. \A t \in Threads : 1 <= LastSite(t)
  BY Numbers, ConstantsAssumption DEF LastSite
<1> QED  BY <1>1, <1>2, <1>3, Fields DEF Inv, Working, AtWork

LEMMA WorkingAlways == Spec => []Working
<1>1. Init => Working
  BY InitWorking
<1>2. Working /\ [Next]_vars => Working'
  <2> SUFFICES ASSUME Working, [Next]_vars PROVE Working'
    OBVIOUS
  <2>1. CASE UNCHANGED vars
    BY <2>1 DEF vars, Working, TypeOK, AtWork, LastSite
  <2> QED  BY <2>1, WorkStep, HomeWork DEF Next
<1> QED  BY <1>1, <1>2, PTL DEF Spec

\* TypeOK, even when HOME is pressed while MainThread installs its hooks.
THEOREM TypeCorrect == Spec => []TypeOK
BY WorkingAlways, PTL DEF Working

\* A thread in the patcher has a number of steps left, until it is out of it; each of its
\* steps, and nothing another thread or the user does, makes the number less: whoever
\* installs or removes hooks gets to the end of the list, also while the other one is at
\* the same table (patcher.cpp:89-131, filesystem.cpp:217-239).
PatcherEnds ==
  /\ []\A t \in Threads : Left(t) \in Nat /\ (Left(t) = 0 <=> pc[t].task = "idle")
  /\ [][\A t \in Threads :
          pc[t].task # "idle" =>
            IF Install(t) \/ Remove(t) THEN Left(t)' < Left(t) ELSE Left(t)' = Left(t)]_vars

THEOREM WhoPatchesEnds == Spec => PatcherEnds
<1>1. Working => \A t \in Threads : Left(t) \in Nat /\ (Left(t) = 0 <=> pc[t].task = "idle")
  BY LeftIsNumber
<1>2. Working /\ [Next]_vars =>
        [\A t \in Threads :
           pc[t].task # "idle" =>
             IF Install(t) \/ Remove(t) THEN Left(t)' < Left(t) ELSE Left(t)' = Left(t)]_vars
  <2> SUFFICES ASSUME Working, Next, NEW t \in Threads, pc[t].task # "idle"
               PROVE  IF Install(t) \/ Remove(t) THEN Left(t)' < Left(t) ELSE Left(t)' = Left(t)
    OBVIOUS
  <2>1. CASE Install(t) \/ Remove(t)
    BY <2>1, WorkStep
  <2>2. CASE ~(Install(t) \/ Remove(t))
    BY <2>2, WorkStep, HomeWork, Numbers DEF Next
  <2> QED  BY <2>1, <2>2
<1> QED  BY <1>1, <1>2, WorkingAlways, PTL DEF Spec, PatcherEnds

\* With no thread in the patcher, the file system's functions that are hooked are the ones
\* in listFuncPatch.
LEMMA ListedAreHooked ==
  ASSUME Inv, \A t \in Threads : pc[t].task = "idle", NEW s \in FsSites
  PROVE  code[s] = IF s \in listed THEN Branch(s) ELSE Own(s)
<1>1. s \in Sites /\ s \in Slots /\ ~(s > FsCount)
  BY Numbers, ConstantsAssumption DEF FsSites
<1>2. HasEntry(s) <=> s \in listed
  BY <1>1, Numbers DEF HasEntry
<1>3. Branched(s) <=> s \in listed
  BY <1>1, <1>2 DEF Inv, OccupiedOk, Branched, Unbranched
<1> QED  BY <1>1, <1>3 DEF Inv, CodeOk

\* The last step of a list.
LEMMA LastStep ==
  ASSUME ~HomeDuringSetup, Inv, Next, pc[Game].task # "idle", pc'[Game].task # pc[Game].task
  PROVE  /\ InstallFull(Game) \/ InstallPublish(Game) \/ RemoveNothing(Game) \/ RemoveClear(Game)
         /\ pc[Game].site = FsCount
         /\ \A t \in Threads : pc'[t].task = "idle"
<1>1. pc[Main].task = "idle" /\ pc[Game].site <= LastSite(Game)
  BY Alone, Numbers
<1>2. Install(Game) \/ Remove(Game)
  <2>1. \A t \in Threads : Install(t) \/ Remove(t) => pc[t].task # "idle"
    BY DEF Install, Remove, InstallFull, InstallFind, InstallFill, InstallCopy, InstallWrite,
           InstallPublish, RemoveNothing, RemoveFind, RemoveCopy, RemoveWrite, RemoveClear, At
  <2>2. ~ReleaseForeground /\ ~EnterForeground
    BY DEF ReleaseForeground, EnterForeground
  <2> QED  BY <1>1, <2>1, <2>2, Numbers DEF Next
<1>3. \A a \in {"fill", "copy", "write", "publish", "clear"}, k \in Slots :
        ~Goto(Game, a) /\ pc' # [pc EXCEPT ![Game].at = a, ![Game].slot = k]
  BY Numbers DEF Inv, TypeOK, Place, Goto
<1>4. ~Goto(Game, "copy") /\ ~Goto(Game, "write") /\ ~Goto(Game, "publish")
      /\ ~Goto(Game, "clear")
  <2>1. PICK k \in Slots : TRUE
    BY Numbers, ConstantsAssumption DEF Slots
  <2> QED  BY <1>3, <2>1
<1>5. ~InstallFill(Game) /\ ~InstallCopy(Game) /\ ~InstallWrite(Game)
      /\ ~RemoveCopy(Game) /\ ~RemoveWrite(Game)
  BY <1>4 DEF InstallFill, InstallCopy, InstallWrite, RemoveCopy, RemoveWrite
<1>6. ~InstallFind(Game)
  BY <1>3, FirstIn DEF InstallFind, FreeSlots
<1>7. ~RemoveFind(Game)
  BY <1>3, FirstIn DEF RemoveFind, SlotsOf
<1>8. InstallFull(Game) \/ InstallPublish(Game) \/ RemoveNothing(Game) \/ RemoveClear(Game)
  BY <1>2, <1>5, <1>6, <1>7 DEF Install, Remove
<1>9. NextSite(Game)
  BY <1>8 DEF InstallFull, InstallPublish, RemoveNothing, RemoveClear
<1>10. /\ pc[Game].site # LastSite(Game) => pc'[Game].task = pc[Game].task
       /\ pc[Game].site = LastSite(Game) => pc'[Game].task = "idle"
       /\ \A u \in Threads : u # Game => pc'[u] = pc[u]
  BY <1>1, <1>9, NextPlace, Numbers DEF Inv
<1>11. pc[Game].site = FsCount
  BY <1>10, Numbers DEF LastSite
<1> QED  BY <1>1, <1>8, <1>10, <1>11, Numbers

\* AllOrNone: at the last site of the list the sites behind are still as they were left, and
\* so the branches of all functions of the file system are in, or out (filesystem.cpp:217-239).
THEOREM GameHooksAllOrNone ==
  ASSUME ~HomeDuringSetup
  PROVE  Spec => AllOrNone
<1> DEFINE Out == \A t \in Threads : pc[t].task = "idle"
           AsListed == \A s \in FsSites : code[s] = IF s \in listed THEN Branch(s) ELSE Own(s)
<1>1. (Inv /\ Out => AsListed)'
  <2>1. Inv /\ Out => AsListed
    BY ListedAreHooked
  <2> QED  BY <2>1, PTL
<1>2. ASSUME Inv, Inv', Next, pc[Game].task # "idle", pc'[Game].task # pc[Game].task
      PROVE  /\ pc'[Game].task = "idle"
             /\ \A s \in FsSites :
                  code'[s] = IF pc[Game].task = "install" THEN Branch(s) ELSE Own(s)
  <2>1. /\ InstallFull(Game) \/ InstallPublish(Game) \/ RemoveNothing(Game) \/ RemoveClear(Game)
        /\ pc[Game].site = FsCount
        /\ \A t \in Threads : pc'[t].task = "idle"
    BY <1>2, LastStep
  <2>2. \A s \in FsSites : code'[s] = IF s \in listed' THEN Branch(s) ELSE Own(s)
    <3>1. AsListed'
      BY <1>2, <1>1, <2>1
    <3> QED  BY <3>1 DEF FsSites, Branch, Own
  <2>3. CASE pc[Game].task = "install"
    <3>1. InstallPublish(Game)
      BY <2>1, <2>3, FreeForSite, <1>2, Numbers, ConstantsAssumption
         DEF InstallFull, RemoveNothing, RemoveClear, At
    <3>2. listed' = IF FsCount \in FsSites THEN listed \cup {FsCount} ELSE listed
      BY <2>1, <3>1 DEF InstallPublish
    <3>3. listed = {s \in FsSites : s < FsCount}
      BY <1>2, <2>1, <2>3 DEF Inv, ListedOk
    <3>4. FsSites \subseteq listed'
      BY <3>2, <3>3, ConstantsAssumption DEF FsSites
    <3>5. \A s \in FsSites : code'[s] = Branch(s)
      BY <2>2, <3>4
    <3> QED  BY <2>1, <2>3, <3>5, Numbers
  <2>4. CASE pc[Game].task # "install"
    <3>1. ~patched'
      BY <2>1, <2>4 DEF InstallFull, InstallPublish, RemoveNothing, RemoveClear, NextSite, At
    <3>2. listed' = {}
      BY <1>2, <2>1, <3>1, Numbers DEF Inv, ListedOk
    <3>3. \A s \in FsSites : code'[s] = Own(s)
      BY <2>2, <3>2
    <3> QED  BY <2>1, <2>4, <3>3, Numbers
  <2> QED  BY <2>3, <2>4
<1> QED  BY <1>2, Invariance, PTL DEF Spec, AllOrNone
=============================================================================
