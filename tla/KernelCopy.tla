------------------------------ MODULE KernelCopy ------------------------------
(***************************************************************************)
(* KernelCopyData (source/private/kernel.cpp), one call of it: the kernel  *)
(* copies byte by byte through two address windows of 1 MiB, which DBAT0   *)
(* and DBAT1 map to physical memory and which move along with the copy.    *)
(*                                                                         *)
(* The destination's window is at 0xC0000000 and the source's at           *)
(* 0xB0000000, so a pointer there is its distance from the start; what is  *)
(* in the mod's own range is reached without a window.                     *)
(***************************************************************************)
EXTENDS Integers

CONSTANTS
  Window,     \* bytes a DBAT maps (0x00100000)
  Windows,    \* windows side by side (16, as & 0x00F00000 keeps four bits)
  OwnFirst, OwnEnd,  \* the mod's own range (0x00800000, 0x01000000)
  Space,      \* bytes of memory
  Copies      \* calls: records with addr, src and len

Span == Window * Windows  \* & 0xFFFFFF

Own(a) == OwnFirst <= a /\ a < OwnEnd

\* A range is in the mod's own range or out of it, as those the patcher copies are.
OneKind(a, len) == \A k \in 0..(len - 1) : Own(a + k) <=> Own(a)

\* The destination holds no byte that is still to be read.
ASSUME CopiesAssumption ==
  /\ Window \in Nat \ {0} /\ Windows \in Nat \ {0, 1} /\ Space \in Nat
  /\ OwnFirst \in Nat /\ OwnEnd \in Nat
  /\ \A c \in Copies :
       /\ c \in [addr : Nat, src : Nat, len : Nat]
       /\ c.addr + c.len <= Space /\ c.src + c.len <= Space
       /\ OneKind(c.addr, c.len) /\ OneKind(c.src, c.len)
       /\ c.addr \notin (c.src + 1)..(c.src + c.len - 1)

VARIABLES
  copy,          \* the call
  copyAt,        \* "entry", "loop" or "returned"
  i,             \* bytes copied
  dst_p, src_p,  \* the two pointers
  dbat0, dbat1,  \* the windows: of the Windows, which one is mapped to which page
  memory         \* memory; the byte at Space stands for all a stray pointer may reach

copyVars == <<copy, copyAt, i, dst_p, src_p, dbat0, dbat1, memory>>

\* What the game has in DBAT0 and DBAT1.
GameDbat == [window |-> 0, page |-> Space]

CopyInit ==
  /\ copy \in Copies
  /\ copyAt = "entry"
  /\ i = 0
  /\ dst_p = 0 /\ src_p = 0
  /\ dbat0 = GameDbat /\ dbat1 = GameDbat
  /\ memory = [a \in 0..Space |-> a]

Dbats == [window : 0..(Windows - 1), page : Nat]

CopyTypeOK ==
  /\ copy \in Copies
  /\ copyAt \in {"entry", "loop", "returned"}
  /\ i \in 0..copy.len
  /\ dst_p \in Nat /\ src_p \in Nat
  /\ dbat0 \in Dbats /\ dbat1 \in Dbats
  /\ memory \in [0..Space -> 0..Space]

WindowOf(p) == (p \div Window) % Windows

\* The window through which address a is reached, and the pointer into it.
DbatFor(a) == [window |-> WindowOf(a), page |-> a \div Window]
PointerFor(a) == IF Own(a) THEN a ELSE a % Span

Enter ==
  /\ copyAt = "entry" /\ copyAt' = "loop"
  /\ dbat0' = IF Own(copy.addr) THEN dbat0 ELSE DbatFor(copy.addr)
  /\ dbat1' = IF Own(copy.src) THEN dbat1 ELSE DbatFor(copy.src)
  /\ dst_p' = PointerFor(copy.addr)
  /\ src_p' = PointerFor(copy.src)
  /\ UNCHANGED <<copy, i, memory>>

\* "If we are on the edge to next chunk": a copy that began at address a and has its
\* pointer p in the window of dbat.
Edge(a, p, dbat) == ~Own(a) /\ WindowOf(p) # dbat.window

\* What pointer p of a copy that began at a reaches.
Reached(a, p, dbat) ==
  IF Own(a) THEN IF Own(p) THEN p ELSE Space
  ELSE IF p \div Window = dbat.window THEN dbat.page * Window + (p % Window) ELSE Space

\* Mutation: the window moves to the start of the range, not to where the copy is.
MovedToStart(a, p, dbat) ==
  IF Edge(a, p, dbat) THEN [dbat |-> DbatFor(a), p |-> a % Span] ELSE [dbat |-> dbat, p |-> p]

\* Window and pointer for the next byte.
Moved(a, p, dbat) ==
  IF Edge(a, p, dbat) THEN [dbat |-> DbatFor(a + i), p |-> (a + i) % Span]
  ELSE [dbat |-> dbat, p |-> p]

\* One round of the loop.
CopyByte ==
  LET d == Moved(copy.addr, dst_p, dbat0)
      s == Moved(copy.src, src_p, dbat1)
  IN /\ copyAt = "loop" /\ i < copy.len
     /\ memory' = [memory EXCEPT ![Reached(copy.addr, d.p, d.dbat)] =
                                    memory[Reached(copy.src, s.p, s.dbat)]]
     /\ dbat0' = d.dbat /\ dst_p' = d.p + 1
     /\ dbat1' = s.dbat /\ src_p' = s.p + 1
     /\ i' = i + 1
     /\ UNCHANGED <<copy, copyAt>>

Restore ==
  /\ copyAt = "loop" /\ i = copy.len
  /\ copyAt' = "returned"
  /\ dbat0' = GameDbat /\ dbat1' = GameDbat
  /\ UNCHANGED <<copy, i, dst_p, src_p, memory>>

CopyNext == Enter \/ CopyByte \/ Restore

CopySpec == CopyInit /\ [][CopyNext]_copyVars

\* Over the edges of its windows and of the 16 MiB they repeat after, the copy has
\* brought every byte so far to its own place and touched no other (kernel.cpp:46-74),
\* and the game's windows are back when it is done.
CopiedSoFar ==
  /\ memory = [a \in 0..Space |-> IF a \in copy.addr..(copy.addr + i - 1)
                                  THEN copy.src + (a - copy.addr) ELSE a]
  /\ copyAt = "returned" => i = copy.len /\ dbat0 = GameDbat /\ dbat1 = GameDbat
=============================================================================
