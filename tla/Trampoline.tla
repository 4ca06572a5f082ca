------------------------------ MODULE Trampoline ------------------------------
(***************************************************************************)
(* The words that hookFunction, hookBranch and hookBranchNoLink write      *)
(* (source/wiiu/patcher.cpp, with the encoders of ppc.hpp), run by a       *)
(* processor: the branch at the hooked address and the trampoline that     *)
(* stands for the original function.                                       *)
(*                                                                         *)
(* A 32-bit word is the pair of its halves.  The processor is external: of *)
(* it the model has the instructions written here and the ones a hooked    *)
(* function may start with, each as the manual of the architecture has it. *)
(***************************************************************************)
EXTENDS Integers, Sequences

CONSTANTS
  Sources,       \* addresses in the game that may be hooked (source + delta)
  Destinations,  \* addresses of the mod's hook functions
  Jumps,         \* the address of hookJumps[ret_idx]
  Firsts,        \* the instructions a hooked function may start with
  Values,        \* what registers may hold when a function is called
  Stack          \* r1 then

Half == {h \in Nat : h < 65536}
Word == Half \X Half

Plus(w, n) ==
  LET sum == w[2] + n IN <<(w[1] + sum \div 65536) % 65536, sum % 65536>>

\* A branch cannot reach further.  The mod's code is linked to \h00A02000 (link.ld);
\* the two functions with a link choose a relative branch from \h04000000 on.
Reachable(kind, from, to) ==
  \/ to[1] < \h200
  \/ kind # "function" /\ to[1] >= \h400 /\ to[1] - from[1] \in -\h1FF..\h1FF

ASSUME WordsAssumption ==
  /\ Sources \cup Destinations \cup Firsts \cup Values \cup {Jumps, Stack} \subseteq Word
  /\ \A a \in Sources \cup Destinations \cup {Jumps} : a[2] % 4 = 0

VARIABLES
  hook,    \* what was hooked, how, and where to
  cpu,     \* the processor
  origin,  \* the processor as the game, or the hook function, made its call
  stage    \* how far the call is

callVars == <<hook, cpu, origin, stage>>

Kinds == {"function", "branch", "branch no link"}
Nowhere == [gpr |-> <<>>, lr |-> Jumps, ctr |-> Jumps, pc |-> Jumps, mem |-> <<>>]
NoHook == [kind |-> "none", source |-> Jumps, destination |-> Jumps, first |-> Jumps]

CallTypeOK ==
  /\ hook.kind \in Kinds \cup {"none"}
  /\ stage \in {"none", "hooked", "game", "hook", "real"}
  /\ \A m \in {cpu, origin} :
       /\ {m.lr, m.ctr, m.pc} \subseteq Word
       /\ \A n \in DOMAIN m.gpr : m.gpr[n] \in Word
       /\ \A a \in DOMAIN m.mem : m.mem[a] \in Word

CallInit == hook = NoHook /\ cpu = Nowhere /\ origin = Nowhere /\ stage = "none"

-----------------------------------------------------------------------------
(* Encoding. *)

\* PowerPC_LWZ, STW, LIS and ORI.
DForm(op, rt, ra, d) == <<op * 1024 + rt * 32 + ra, d % 65536>>

\* PowerPC_MTSPR and MFSPR: the SPR's low five bits come first.
MoveSpr(r, spr, extended) == <<31 * 1024 + r * 32 + spr, 2 * extended>>

Minus(w, v) ==
  LET low == w[2] - v[2] IN <<(w[1] - v[1] + low \div 65536) % 65536, low % 65536>>

\* 18 in the upper six bits, the two flags in the lower two, and the middle of x.
IForm(x, flags) == <<18 * 1024 + (x[1] % 1024), x[2] - (x[2] % 4) + flags>>

doBLA(addr) == IForm(addr, 3)

doBL(dst, src) == IForm(Minus(dst, src), 1)

\* Mutation: the link bit stays.
KeepLink(w) == w

WithoutLink(w) == <<w[1], IF w[2] % 2 = 1 THEN w[2] - 1 ELSE w[2] + 1>>

\* What is written at the hooked address.
Branch ==
  LET linked == IF hook.destination[1] < \h400 THEN doBLA(hook.destination)
                ELSE doBL(hook.destination, hook.source)
  IN CASE hook.kind = "function" -> WithoutLink(doBLA(hook.destination))
       [] hook.kind = "branch" -> linked
       [] hook.kind = "branch no link" -> WithoutLink(linked)

\* Mutation: the original goes on at the hooked address itself.
HookJumpsToSource ==
  <<DForm(36, 3, 1, -32), DForm(15, 3, 0, hook.source[1]), DForm(24, 3, 3, hook.source[2]),
    MoveSpr(3, 9, 467), DForm(32, 3, 1, -32), MoveSpr(13, 8, 339), hook.first,
    <<\h4E80, \h0420>>>>

\* hookJumps[ret_idx]: stw r3; lis, ori and mtctr of the address behind the branch;
\* lwz r3; mflr r13; the instruction the branch replaced; bctr.
HookJumps ==
  LET back == Plus(hook.source, 4)
  IN <<DForm(36, 3, 1, -32), DForm(15, 3, 0, back[1]), DForm(24, 3, 3, back[2]),
       MoveSpr(3, 9, 467), DForm(32, 3, 1, -32), MoveSpr(13, 8, 339), hook.first,
       <<\h4E80, \h0420>>>>

-----------------------------------------------------------------------------
(* The processor. *)

Signed(d) == IF d < 32768 THEN d ELSE d - 65536

Stored(m, a, w) == [x \in DOMAIN m.mem \cup {a} |-> IF x = a THEN w ELSE m.mem[x]]

\* Where a branch leads: 26 bits, sign-extended, from 0 or from the branch itself.
Target(pc, w) ==
  LET bits == w[1] % 1024
      offset == <<IF bits < 512 THEN bits ELSE bits + \hFC00, w[2] - (w[2] % 4)>>
  IN IF (w[2] \div 2) % 2 = 1 THEN offset
     ELSE <<(pc[1] + offset[1] + (pc[2] + offset[2]) \div 65536) % 65536,
            (pc[2] + offset[2]) % 65536>>

OpCode(w) == w[1] \div 1024

\* The fields of an instruction; r0 as a base stands for 0.
RT(w) == (w[1] \div 32) % 32
RA(w) == w[1] % 32
Base(m, w) == IF RA(w) = 0 THEN <<0, 0>> ELSE m.gpr[RA(w)]
Address(m, w) == Plus(Base(m, w), Signed(w[2]))

GoOn(m) == [m EXCEPT !.pc = Plus(@, 4)]

Addi(m, w) == [GoOn(m) EXCEPT !.gpr[RT(w)] = Address(m, w)]
Addis(m, w) ==
  [GoOn(m) EXCEPT !.gpr[RT(w)] = <<(Base(m, w)[1] + w[2]) % 65536, Base(m, w)[2]>>]
\* As it is written here: behind lis.
Ori(m, w) == [GoOn(m) EXCEPT !.gpr[RA(w)] = <<m.gpr[RT(w)][1], w[2]>>]
Mtctr(m, w) == [GoOn(m) EXCEPT !.ctr = m.gpr[RT(w)]]
Mflr(m, w) == [GoOn(m) EXCEPT !.gpr[RT(w)] = m.lr]
Lwz(m, w) == [GoOn(m) EXCEPT !.gpr[RT(w)] = m.mem[Address(m, w)]]
Stw(m, w) == [GoOn(m) EXCEPT !.mem = Stored(m, Address(m, w), m.gpr[RT(w)])]
Stwu(m, w) == [Stw(m, w) EXCEPT !.gpr[RA(w)] = Address(m, w)]
Bctr(m) == [m EXCEPT !.pc = m.ctr]
BranchTo(m, w) ==
  [m EXCEPT !.pc = Target(m.pc, w), !.lr = IF w[2] % 2 = 1 THEN Plus(m.pc, 4) ELSE @]

Moves(w, spr, extended) == OpCode(w) = 31 /\ RA(w) = spr /\ w[2] = 2 * extended

\* The processor after the instruction w.
Executed(m, w) ==
  CASE OpCode(w) = 14 -> Addi(m, w)
    [] OpCode(w) = 15 -> Addis(m, w)
    [] OpCode(w) = 18 -> BranchTo(m, w)
    [] OpCode(w) = 19 -> Bctr(m)
    [] OpCode(w) = 24 /\ m.gpr[RT(w)][2] = 0 -> Ori(m, w)
    [] Moves(w, 9, 467) -> Mtctr(m, w)
    [] Moves(w, 8, 339) -> Mflr(m, w)
    [] OpCode(w) = 32 -> Lwz(m, w)
    [] OpCode(w) = 36 -> Stw(m, w)
    [] OpCode(w) = 37 -> Stwu(m, w)

Caller(pc, r0, r3, lr) ==
  [gpr |-> [n \in 0..31 |-> IF n = 1 THEN Stack ELSE IF n = 3 THEN r3 ELSE r0],
   lr |-> lr, ctr |-> r0, pc |-> pc, mem |-> <<>>]

-----------------------------------------------------------------------------
(* Hooking, and a call. *)

\* What a hooked function may begin with: no branch, no load, no move to CTR.
MayBeFirst(w) == OpCode(w) \in {14, 15, 36, 37} \/ Moves(w, 8, 339)

ASSUME FirstsAssumption ==
  /\ \A w \in Firsts : MayBeFirst(w)
  /\ \A s \in Sources, k \in 0..7 : Plus(s, 4) # Plus(Jumps, 4 * k)

Hooked(kind, source, destination, first) ==
  /\ stage = "none" /\ Reachable(kind, source, destination)
  /\ stage' = "hooked"
  /\ hook' = [kind |-> kind, source |-> source, destination |-> destination, first |-> first]
  /\ UNCHANGED <<cpu, origin>>

MakeCall(from, to, m) ==
  /\ stage = from /\ stage' = to
  /\ cpu' = m /\ origin' = m
  /\ UNCHANGED hook

\* The game comes to the hooked address.
GameCalls(r0, r3, lr) == MakeCall("hooked", "game", Caller(hook.source, r0, r3, lr))

TakeBranch ==
  /\ stage = "game" /\ stage' = "hook"
  /\ cpu' = Executed(cpu, Branch)
  /\ UNCHANGED <<hook, origin>>

\* The hook function calls real, with arguments of its own, from behind its start.
HookCallsReal(r0, r3) ==
  /\ hook.kind = "function"
  /\ MakeCall("hook", "real", Caller(Jumps, r0, r3, Plus(hook.destination, 64)))

InJumps == \E k \in 0..7 : cpu.pc = Plus(Jumps, 4 * k)

\* The instruction k of the trampoline.
Jump(k) ==
  /\ stage = "real" /\ cpu.pc = Plus(Jumps, 4 * k)
  /\ cpu' = Executed(cpu, HookJumps[k + 1])
  /\ UNCHANGED <<hook, origin, stage>>

CallNext ==
  \/ \E kind \in Kinds, s \in Sources, d \in Destinations, w \in Firsts : Hooked(kind, s, d, w)
  \/ \E r0, r3, lr \in Values : GameCalls(r0, r3, lr)
  \/ TakeBranch
  \/ \E r0, r3 \in Values : HookCallsReal(r0, r3)
  \/ \E k \in 0..7 : Jump(k)

CallSpec == CallInit /\ [][CallNext]_callVars

-----------------------------------------------------------------------------
(* Properties. *)

\* A hooked address leads to its hook, which finds every register as the game left
\* it, and in LR its caller unless hookBranch put in the way back behind the branch
\* (patcher.cpp:30-39, :57-61, :81-85, :118).
BranchReachesHook ==
  stage = "hook" =>
    cpu = [origin EXCEPT !.pc = hook.destination,
                         !.lr = IF hook.kind = "branch" THEN Plus(hook.source, 4) ELSE @]

\* Through real the original runs as if it had never been hooked: behind the branch
\* the processor is as the replaced instruction would have left it, but for CTR, for
\* r13, which has LR, and for the word at r1 - 32 (patcher.cpp:103-113).
RealIsOriginal ==
  stage = "real" /\ ~InJumps =>
    LET original == Executed([origin EXCEPT !.pc = hook.source, !.gpr[13] = origin.lr], hook.first)
        scratch == Plus(Stack, -32)
    IN /\ cpu = [original EXCEPT !.ctr = cpu.ctr, !.mem = cpu.mem]
       /\ \A a \in (DOMAIN cpu.mem \cup DOMAIN original.mem) \ {scratch} :
            cpu.mem[a] = original.mem[a]
=============================================================================
