---------------------------- MODULE ServiceProofs ----------------------------
(***************************************************************************)
(* Proofs about the parts the hooks rest on, each a specification of its   *)
(* own: KeyStream, PathResolution, Dispatch, DebugLog, UpdateList,         *)
(* Trampoline and KernelCopy; and about MCServices, the specification in   *)
(* which these and the parts of MenuProofs are checked together.           *)
(*                                                                         *)
(* Induction on a number is done by its least counterexample               *)
(* (LeastElement), and RecursionRuns says that a recursive function runs   *)
(* as it is written: it begins with its first value and each further one   *)
(* comes from the one before. The hash, the rounds of RC4 and For are such *)
(* functions.                                                              *)
(*                                                                         *)
(* StreamInv says that the state of the cipher is that after as many       *)
(* rounds as bytes were read, less those that are still to be skipped,     *)
(* wherever the pieces begin and end; the builder's stream is the same     *)
(* one.                                                                    *)
(*                                                                         *)
(* ResolveInv says that what each function found last is what the SD card  *)
(* has for the hash it took; that the hash tells any two paths of the card *)
(* apart is an assumption of the module.                                   *)
(*                                                                         *)
(* DispatchInv says how far the walk over the handlers has come, and, by   *)
(* what is still the same since the call began, whether it may be trusted. *)
(*                                                                         *)
(* LogInv says who has the mutex, how often, and what it sent last;        *)
(* LogLeft how many steps a thread in the log has left.                    *)
(*                                                                         *)
(* ListInv says that no list has a name twice. IsJoin, IsInsert and        *)
(* IsRemoval say where the elements of a sequence are after two were       *)
(* joined, or one was put in or taken out.                                 *)
(*                                                                         *)
(* CallInv says where a call is and, in the trampoline, what the processor *)
(* is behind each instruction (Ran); Decoded, the lemmas ...Runs and the   *)
(* ones on the fields say what an instruction does to a processor.         *)
(* FirstRunsAlike says that the replaced instruction does the same in the  *)
(* trampoline as where it was.                                             *)
(*                                                                         *)
(* CopyInv says that source and destination are as far from where they     *)
(* began as bytes were copied, and that the windows, set for the addresses *)
(* of the moment, show them where they are.                                *)
(*                                                                         *)
(* EachIsAlone says that in the specification of all parts each behaves as *)
(* in its own, so that whatever was proved of it holds there too.          *)
(***************************************************************************)
EXTENDS MCServices, MenuProofs

-----------------------------------------------------------------------------
(* Recursion. *)

LEMMA LeastElement ==
  ASSUME NEW T, T \subseteq Nat, T # {}
  PROVE  \E x \in T : \A y \in T : x <= y
<1>1. PICK x \in T : \A y \in T : ~ (<<y, x>> \in OpToRel(<, Nat))
  BY NatLessThanWellFounded, WFMin
<1>2. \A y \in T : ~ (y < x)
  BY <1>1 DEF OpToRel
<1> QED
  BY <1>2

\* f begins with first and goes on with step, which is known for values of V, n times.
Runs(f, n, V, first, step) ==
  f[0] = first /\ \A m \in 1..n : f[m - 1] \in V => f[m] = step[m][f[m - 1]]

LEMMA RunsExist ==
  ASSUME NEW N \in Nat, NEW V, NEW first \in V, NEW step \in [1..N -> [V -> V]]
  PROVE  \E f \in [0..N -> V] : Runs(f, N, V, first, step)
<1> DEFINE Upto(n) == \E f \in [0..n -> V] : Runs(f, n, V, first, step)
           T == {n \in 0..N : ~Upto(n)}
<1>1. SUFFICES ASSUME T # {} PROVE FALSE
  BY <1>1
<1>2. PICK n \in T : \A k \in T : n <= k
  <2>1. T \subseteq Nat
    OBVIOUS
  <2> HIDE DEF T
  <2> QED
    BY <1>1, <2>1, LeastElement
<1>3. n \in 0..N /\ ~Upto(n)
  BY <1>2
<1>4. n # 0
  <2>1. [m \in 0..0 |-> first] \in [0..0 -> V] /\ Runs([m \in 0..0 |-> first], 0, V, first, step)
    BY DEF Runs
  <2>2. Upto(0)
    BY <2>1
  <2> QED
    BY <1>3, <2>2
<1>5. n - 1 \in 0..N /\ Upto(n - 1)
  <2>1. n - 1 \in 0..N /\ ~(n <= n - 1)
    BY <1>3, <1>4
  <2>2. n - 1 \notin T
    BY <1>2, <2>1
  <2> QED
    BY <2>1, <2>2
<1>6. PICK f \in [0..(n - 1) -> V] : Runs(f, n - 1, V, first, step)
  BY <1>5
<1> DEFINE g == [m \in 0..n |-> IF m = n THEN step[n][f[n - 1]] ELSE f[m]]
<1>7. n \in 1..N /\ n - 1 \in 0..(n - 1)
  BY <1>3, <1>4
<1>8. g \in [0..n -> V]
  <2>1. step[n][f[n - 1]] \in V
    BY <1>6, <1>7
  <2>2. \A m \in 0..n : m # n => f[m] \in V
    BY <1>6, <1>7
  <2> QED
    BY <2>1, <2>2
<1>9. Runs(g, n, V, first, step)
  <2>1. g[0] = first
    BY <1>6, <1>7 DEF Runs
  <2>2. ASSUME NEW m \in 1..n PROVE g[m] = step[m][g[m - 1]]
    <3>1. m - 1 \in 0..n /\ m - 1 # n /\ m \in 0..n
      BY <1>7
    <3>2. g[m - 1] = f[m - 1]
      BY <3>1
    <3>3. CASE m = n
      BY <3>1, <3>2, <3>3
    <3>4. CASE m # n
      <4>1. m \in 1..(n - 1)
        BY <1>7, <3>4
      <4> QED
        BY <1>6, <3>1, <3>2, <3>4, <4>1 DEF Runs
    <3> QED
      BY <3>3, <3>4
  <2> HIDE DEF g
  <2> QED
    BY <2>1, <2>2 DEF Runs
<1> QED
  BY <1>3, <1>8, <1>9

LEMMA RunsAgree ==
  ASSUME NEW N \in Nat, NEW V, NEW first, NEW step, NEW f \in [0..N -> V], NEW g,
         Runs(f, N, V, first, step), Runs(g, N, V, first, step)
  PROVE  \A n \in 0..N : f[n] = g[n]
<1> DEFINE T == {n \in 0..N : f[n] # g[n]}
<1>1. SUFFICES ASSUME T # {} PROVE FALSE
  BY <1>1
<1>2. PICK n \in T : \A k \in T : n <= k
  <2>1. T \subseteq Nat
    OBVIOUS
  <2> HIDE DEF T
  <2> QED
    BY <1>1, <2>1, LeastElement
<1>3. n \in 1..N
  BY <1>2 DEF Runs
<1>4. f[n - 1] = g[n - 1]
  <2>1. n - 1 \in 0..N /\ ~(n <= n - 1)
    BY <1>3
  <2> QED
    BY <1>2, <2>1
<1> QED
  BY <1>2, <1>3, <1>4 DEF Runs

\* A recursive function that goes on with step is the one that does: it is what CHOOSE
\* picks as its meaning.
LEMMA RecursionRuns ==
  ASSUME NEW N \in Nat, NEW V, NEW first \in V, NEW step \in [1..N -> [V -> V]]
  PROVE  \E f \in [0..N -> V] :
           /\ f[0] = first /\ \A m \in 1..N : f[m] = step[m][f[m - 1]]
           /\ \A g : g = [n \in 0..N |-> g[n]] /\ Runs(g, N, V, first, step) => g = f
<1>1. PICK f \in [0..N -> V] : Runs(f, N, V, first, step)
  BY RunsExist
<1>2. f[0] = first /\ \A m \in 1..N : f[m] = step[m][f[m - 1]]
  BY <1>1 DEF Runs
<1>3. ASSUME NEW g, g = [n \in 0..N |-> g[n]], Runs(g, N, V, first, step)
      PROVE  g = f
  <2>1. \A n \in 0..N : f[n] = g[n]
    BY <1>1, <1>3, RunsAgree
  <2>2. f = [n \in 0..N |-> f[n]]
    BY <1>1
  <2> QED
    BY <2>1, <2>2, <1>3
<1> QED
  BY <1>2, <1>3

-----------------------------------------------------------------------------
(* The key stream. *)

States == [perm : Permutations, index1 : Bytes, index2 : Bytes]

LEMMA Modular ==
  ASSUME NEW a \in Nat PROVE a % Size \in Bytes
<1>1. Size \in Nat \ {0}
  BY KeysAssumption
<1>2. a % Size \in 0..(Size - 1)
  BY ONLY <1>1, a \in Nat
<1> QED
  BY <1>2 DEF Bytes

LEMMA SwapTyped ==
  ASSUME NEW p \in Permutations, NEW a \in Bytes, NEW b \in Bytes
  PROVE  SwapBytes(p, a, b) \in Permutations
<1>1. p \in [Bytes -> Bytes] /\ \A x, y \in Bytes : p[x] = p[y] => x = y
  BY DEF Permutations
<1> DEFINE q == SwapBytes(p, a, b)
<1>2. q \in [Bytes -> Bytes]
  BY <1>1 DEF SwapBytes
<1>3. \A x \in Bytes : q[x] = IF x = b THEN p[a] ELSE IF x = a THEN p[b] ELSE p[x]
  BY <1>1 DEF SwapBytes
<1> HIDE DEF q
<1>4. \A x, y \in Bytes : q[x] = q[y] => x = y
  BY <1>1, <1>3
<1>5. q \in Permutations
  BY <1>2, <1>4 DEF Permutations
<1> QED
  BY <1>5 DEF q

\* The key schedule ends with a permutation.
LEMMA Rc4InitTyped ==
  ASSUME NEW k \in Keys
  PROVE  Rc4Init(k) \in States
<1> DEFINE V == [perm : Permutations, j : Bytes]
           jOf(r, was) == (was.j + was.perm[r - 1] + k[((r - 1) % Len(k)) + 1]) % Size
           Op(r, was) == [perm |-> SwapBytes(was.perm, r - 1, jOf(r, was)), j |-> jOf(r, was)]
           step == [r \in 1..Size |-> [was \in V |-> Op(r, was)]]
           first == [perm |-> [x \in Bytes |-> x], j |-> 0]
           Picked(g) == g = [r \in 0..Size |-> IF r = 0 THEN first ELSE Op(r, g[r - 1])]
<1>1. Size \in Nat \ {0} /\ k \in Seq(Bytes) /\ k # <<>>
  BY KeysAssumption
<1>2. ASSUME NEW r \in 1..Size, NEW was \in V
      PROVE  Op(r, was) \in V
  <2>1. Len(k) \in Nat \ {0}
    BY <1>1, EmptySeq, LenProperties
  <2>2. ((r - 1) % Len(k)) + 1 \in 1..Len(k)
    BY <2>1
  <2>3. k[((r - 1) % Len(k)) + 1] \in Bytes
    BY <1>1, <2>2, ElementOfSeq
  <2>4. r - 1 \in Bytes
    BY <1>1 DEF Bytes
  <2>5. was.j \in Bytes /\ was.perm \in Permutations
    OBVIOUS
  <2>6. was.perm[r - 1] \in Bytes
    BY <2>4, <2>5 DEF Permutations
  <2>7. ASSUME NEW u \in Bytes, NEW v \in Bytes, NEW w \in Bytes PROVE u + v + w \in Nat
    BY <1>1 DEF Bytes
  <2>8. was.j + was.perm[r - 1] + k[((r - 1) % Len(k)) + 1] \in Nat
    BY <2>3, <2>5, <2>6, <2>7
  <2>9. jOf(r, was) \in Bytes
    BY <2>8, Modular
  <2>10. SwapBytes(was.perm, r - 1, jOf(r, was)) \in Permutations
    BY <2>4, <2>5, <2>9, SwapTyped
  <2> HIDE DEF jOf
  <2> QED
    BY <2>9, <2>10
<1>3. first \in V
  <2>1. [x \in Bytes |-> x] \in Permutations
    BY DEF Permutations
  <2>2. 0 \in Bytes
    BY <1>1 DEF Bytes
  <2> QED
    BY <2>1, <2>2
<1> HIDE DEF V, first, Op
<1>4. step \in [1..Size -> [V -> V]]
  BY <1>2
<1>5. \A r \in 1..Size : \A was \in V : step[r][was] = Op(r, was)
  OBVIOUS
<1> HIDE DEF step
<1>6. PICK f \in [0..Size -> V] :
        /\ f[0] = first /\ \A m \in 1..Size : f[m] = step[m][f[m - 1]]
        /\ \A g : g = [n \in 0..Size |-> g[n]] /\ Runs(g, Size, V, first, step) => g = f
  BY <1>1, <1>3, <1>4, RecursionRuns
<1>7. Picked(f)
  <2>1. \A m \in 1..Size : f[m] = Op(m, f[m - 1])
    <3>1. ASSUME NEW m \in 1..Size PROVE f[m - 1] \in V
      BY <1>1, <1>6
    <3> QED
      BY <1>5, <1>6, <3>1
  <2>2. f = [n \in 0..Size |-> f[n]]
    BY <1>6
  <2>3. \A n \in 0..Size : f[n] = IF n = 0 THEN first ELSE Op(n, f[n - 1])
    BY <1>1, <1>6, <2>1
  <2>4. [n \in 0..Size |-> f[n]] = [n \in 0..Size |-> IF n = 0 THEN first ELSE Op(n, f[n - 1])]
    BY <2>3
  <2> QED
    BY <2>2, <2>4
<1>8. ASSUME NEW g, Picked(g) PROVE g = f
  <2>1. \A n \in 0..Size : g[n] = IF n = 0 THEN first ELSE Op(n, g[n - 1])
    BY <1>8
  <2>2. Runs(g, Size, V, first, step)
    BY <1>1, <1>5, <2>1 DEF Runs
  <2>3. g = [n \in 0..Size |-> g[n]]
    BY <1>8
  <2> QED
    BY <1>6, <2>2, <2>3
<1>9. (CHOOSE g : Picked(g)) = f
  BY <1>7, <1>8
<1>10. Rc4Init(k) = [perm |-> f[Size].perm, index1 |-> 0, index2 |-> 0]
  BY <1>9 DEF Rc4Init, Op, first
<1>11. f[Size].perm \in Permutations /\ 0 \in Bytes
  BY <1>1, <1>6 DEF V, Bytes
<1> QED
  BY <1>10, <1>11 DEF States

LEMMA RoundTyped ==
  ASSUME NEW s \in States
  PROVE  Round(s) \in States /\ Skipped(s) = Round(s) /\ KeyByte(s) \in Bytes
<1>1. /\ s.perm \in [Bytes -> Bytes] /\ s.perm \in Permutations
      /\ s.index1 \in Bytes /\ s.index2 \in Bytes
  BY DEF States, Permutations
<1>2. ASSUME NEW u \in Bytes, NEW v \in Bytes PROVE u + v \in Nat /\ u + 1 \in Nat
  BY KeysAssumption DEF Bytes
<1> DEFINE a == (s.index1 + 1) % Size
           b == (s.index2 + s.perm[a]) % Size
<1>3. a \in Bytes
  BY <1>1, <1>2, Modular
<1>4. b \in Bytes
  <2>1. s.perm[a] \in Bytes
    BY <1>1, <1>3
  <2> QED
    BY <1>1, <1>2, <2>1, Modular
<1>5. Round(s) = [perm |-> SwapBytes(s.perm, a, b), index1 |-> a, index2 |-> b]
  BY DEF Round
<1>6. Skipped(s) = Round(s)
  BY DEF Skipped, Round
<1>7. KeyByte(s) \in Bytes
  <2>1. s.perm[s.index1] \in Bytes /\ s.perm[s.index2] \in Bytes
    BY <1>1
  <2>2. (s.perm[s.index1] + s.perm[s.index2]) % Size \in Bytes
    BY <2>1, <1>2, Modular
  <2> QED
    BY <1>1, <2>2 DEF KeyByte
<1>8. SwapBytes(s.perm, a, b) \in Permutations
  BY <1>1, <1>3, <1>4, SwapTyped
<1> HIDE DEF a, b
<1> QED
  BY <1>3, <1>4, <1>5, <1>6, <1>7, <1>8 DEF States

\* The states of RC4 as the builder goes through a file: the one before each byte.
After[r \in 0..Len(file)] == IF r = 0 THEN Rc4Init(key) ELSE Round(After[r - 1])

LEMMA AfterRuns ==
  ASSUME key \in Keys, file \in Files
  PROVE  /\ After \in [0..Len(file) -> States]
         /\ After[0] = Rc4Init(key)
         /\ \A r \in 1..Len(file) : After[r] = Round(After[r - 1])
<1> DEFINE N == Len(file)
           first == Rc4Init(key)
           step == [r \in 1..N |-> [s \in States |-> Round(s)]]
           Picked(g) == g = [r \in 0..N |-> IF r = 0 THEN first ELSE Round(g[r - 1])]
<1>1. N \in Nat
  BY KeysAssumption, LenProperties
<1>2. first \in States
  BY Rc4InitTyped
<1>3. step \in [1..N -> [States -> States]]
  BY RoundTyped
<1>4. \A r \in 1..N : \A s \in States : step[r][s] = Round(s)
  OBVIOUS
<1>5. After = CHOOSE g : Picked(g)
  BY DEF After
<1> HIDE DEF N, first, step
<1>6. PICK f \in [0..N -> States] :
        /\ f[0] = first /\ \A m \in 1..N : f[m] = step[m][f[m - 1]]
        /\ \A g : g = [n \in 0..N |-> g[n]] /\ Runs(g, N, States, first, step) => g = f
  BY <1>1, <1>2, <1>3, RecursionRuns
<1>7. \A m \in 1..N : f[m] = Round(f[m - 1])
  <2>1. ASSUME NEW m \in 1..N PROVE f[m - 1] \in States
    BY <1>1, <1>6
  <2> QED
    BY <1>4, <1>6, <2>1
<1>8. Picked(f)
  <2>1. \A n \in 0..N : f[n] = IF n = 0 THEN first ELSE Round(f[n - 1])
    BY <1>1, <1>6, <1>7
  <2>2. f = [n \in 0..N |-> f[n]]
    BY <1>6
  <2>3. [n \in 0..N |-> f[n]] = [n \in 0..N |-> IF n = 0 THEN first ELSE Round(f[n - 1])]
    BY <2>1
  <2> QED
    BY <2>2, <2>3
<1>9. ASSUME NEW g, Picked(g) PROVE g = f
  <2>1. \A n \in 0..N : g[n] = IF n = 0 THEN first ELSE Round(g[n - 1])
    BY <1>9
  <2>2. Runs(g, N, States, first, step)
    BY <1>1, <1>4, <2>1 DEF Runs
  <2>3. g = [n \in 0..N |-> g[n]]
    BY <1>9
  <2> QED
    BY <1>6, <2>2, <2>3
<1>10. (CHOOSE g : Picked(g)) = f
  BY <1>8, <1>9
<1>11. After = f
  BY <1>5, <1>10
<1> QED
  BY <1>6, <1>7, <1>11 DEF N, first

LEMMA EncryptedWithAfter ==
  ASSUME key \in Keys, file \in Files
  PROVE  \A r \in 1..Len(file) : /\ Encrypted[r] = Xor[file[r]][KeyByte(After[r])]
                                 /\ Xor[Encrypted[r]][KeyByte(After[r])] = file[r]
                                 /\ file[r] \in Bytes
<1>1. Encrypted = [r \in DOMAIN file |-> Xor[file[r]][KeyByte(After[r])]]
  BY DEF Encrypted, After
<1>2. file \in Seq(Bytes) /\ DOMAIN file = 1..Len(file) /\ Len(file) \in Nat
  BY KeysAssumption, LenProperties
<1>3. ASSUME NEW r \in 1..Len(file)
      PROVE  file[r] \in Bytes /\ KeyByte(After[r]) \in Bytes
  <2>1. file[r] \in Bytes
    BY <1>2, ElementOfSeq
  <2>2. r \in 0..Len(file)
    BY <1>2
  <2>3. After[r] \in States
    BY <2>2, AfterRuns
  <2> QED
    BY <2>1, <2>3, RoundTyped
<1>4. ASSUME NEW r \in 1..Len(file)
      PROVE  Encrypted[r] = Xor[file[r]][KeyByte(After[r])]
  BY <1>1, <1>2
<1>5. ASSUME NEW r \in 1..Len(file)
      PROVE  Xor[Xor[file[r]][KeyByte(After[r])]][KeyByte(After[r])] = file[r]
  BY <1>3, KeysAssumption
<1> QED
  BY <1>3, <1>4, <1>5

\* The state is the builder's at the byte the game is at, skipped rounds included, and
\* what it has read so far is plain.
StreamInv ==
  /\ key \in Keys /\ file \in Files
  /\ skip \in Nat /\ piece \in Nat /\ offset \in 0..Len(file) /\ piece <= offset
  /\ out \in Seq(Bytes) /\ Len(out) = offset - piece
  /\ skip <= Len(out) /\ (skip > 0 => piece > 0)
  /\ rc4 = After[Len(out) - skip]
  /\ \A r \in 1..Len(out) : out[r] = file[r]

LEMMA StreamInitInv == StreamInit => StreamInv
<1> SUFFICES ASSUME StreamInit PROVE StreamInv
  OBVIOUS
<1>1. key \in Keys /\ file \in Files /\ rc4 = Rc4Init(key)
      /\ skip = 0 /\ piece = 0 /\ offset = 0 /\ out = <<>>
  BY DEF StreamInit
<1>2. out \in Seq(Bytes) /\ Len(out) = 0
  BY <1>1, EmptySeq
<1>3. Len(file) \in Nat
  BY <1>1, KeysAssumption, LenProperties
<1>4. rc4 = After[Len(out) - skip]
  <2>1. Len(out) - skip = 0
    BY <1>1, <1>2
  <2> QED
    BY <1>1, <2>1, AfterRuns
<1> QED
  BY <1>1, <1>2, <1>3, <1>4 DEF StreamInv

LEMMA StreamStep == StreamInv /\ [StreamNext]_streamVars => StreamInv'
<1> SUFFICES ASSUME StreamInv, [StreamNext]_streamVars PROVE StreamInv'
  OBVIOUS
<1>1. /\ key \in Keys /\ file \in Files
      /\ skip \in Nat /\ piece \in Nat /\ offset \in 0..Len(file) /\ piece <= offset
      /\ out \in Seq(Bytes) /\ Len(out) = offset - piece
      /\ skip <= Len(out) /\ (skip > 0 => piece > 0)
      /\ rc4 = After[Len(out) - skip]
      /\ \A r \in 1..Len(out) : out[r] = file[r]
  BY DEF StreamInv
<1>2. key' = key /\ file' = file
  BY DEF StreamNext, streamVars, ReadPiece, SkipRound, CryptByte
<1>3. After' = After
  BY <1>2 DEF After
<1>4. /\ After \in [0..Len(file) -> States]
      /\ After[0] = Rc4Init(key)
      /\ \A r \in 1..Len(file) : After[r] = Round(After[r - 1])
  BY <1>1, AfterRuns
<1>5. Len(file) \in Nat /\ Len(out) \in Nat
  BY <1>1, KeysAssumption, LenProperties
<1>6. CASE UNCHANGED streamVars
  BY <1>1, <1>3, <1>6 DEF streamVars, StreamInv
<1>7. ASSUME NEW n \in 1..Len(file), ReadPiece(n) PROVE StreamInv'
  <2>1. /\ skip = 0 /\ piece = 0 /\ offset + n <= Len(file)
        /\ rc4' = Rc4Init(key) /\ skip' = offset /\ piece' = n /\ offset' = offset + n
        /\ out' = out
    BY <1>7 DEF ReadPiece
  <2>2. Len(out) = offset /\ Len(out') - skip' = 0
    BY <1>1, <1>5, <2>1
  <2>3. rc4' = After'[Len(out') - skip']
    BY <1>3, <1>4, <2>1, <2>2
  <2>4. offset' \in 0..Len(file) /\ piece' <= offset' /\ offset' - piece' = offset
        /\ skip' \in Nat /\ piece' \in Nat /\ piece' > 0
    BY <1>1, <1>5, <2>1
  <2> QED
    BY <1>1, <1>2, <2>1, <2>2, <2>3, <2>4 DEF StreamInv
<1>8. CASE SkipRound
  <2>1. /\ skip > 0 /\ skip' = skip - 1 /\ rc4' = Skipped(rc4)
        /\ piece' = piece /\ offset' = offset /\ out' = out
    BY <1>8 DEF SkipRound
  <2> DEFINE k == Len(out) - skip
  <2>2. k \in 0..Len(file) /\ k + 1 \in 1..Len(file) /\ Len(out) - skip' = k + 1 /\ (k + 1) - 1 = k
    BY <1>1, <1>5, <2>1
  <2>3. rc4 = After[k]
    BY <1>1
  <2> HIDE DEF k
  <2>4. rc4' = Round(After[k])
    BY <1>4, <2>1, <2>2, <2>3, RoundTyped
  <2>5. After[k + 1] = Round(After[k])
    BY <1>4, <2>2
  <2>6. rc4' = After'[Len(out') - skip']
    BY <1>3, <2>1, <2>2, <2>4, <2>5
  <2>7. skip' \in Nat /\ skip' <= Len(out) /\ (skip' > 0 => piece > 0)
    BY <1>1, <1>5, <2>1
  <2> QED
    BY <1>1, <1>2, <2>1, <2>6, <2>7 DEF StreamInv
<1>9. CASE CryptByte
  <2>1. /\ skip = 0 /\ piece > 0
        /\ rc4' = Round(rc4)
        /\ piece' = piece - 1
        /\ out' = Append(out, Xor[Encrypted[Len(out) + 1]][KeyByte(rc4')])
        /\ skip' = skip /\ offset' = offset
    BY <1>9 DEF CryptByte
  <2> DEFINE k == Len(out)
             byte == Xor[Encrypted[k + 1]][KeyByte(rc4')]
  <2>2. k \in 0..Len(file) /\ k + 1 \in 1..Len(file) /\ Len(out) - skip = k /\ (k + 1) - 1 = k
    BY <1>1, <1>5, <2>1
  <2>3. rc4' = After[k + 1]
    <3>1. rc4 = After[k]
      BY <1>1, <2>2
    <3> HIDE DEF k
    <3> QED
      BY <1>4, <2>1, <2>2, <3>1
  <2>4. byte = file[k + 1] /\ byte \in Bytes
    <3> HIDE DEF k
    <3> QED
      BY <1>1, <2>2, <2>3, EncryptedWithAfter
  <2>5. out' = Append(out, byte)
    BY <2>1
  <2> HIDE DEF byte
  <2>6. /\ out' \in Seq(Bytes) /\ Len(out') = k + 1
        /\ \A r \in 1..k : out'[r] = out[r]
        /\ out'[k + 1] = byte
    <3>1. out \in Seq(Bytes)
      BY <1>1
    <3> QED
      BY ONLY <2>4, <2>5, <3>1, AppendProperties DEF k
  <2>7. \A r \in 1..(k + 1) : out'[r] = file[r]
    BY <1>1, <1>5, <2>4, <2>6
  <2>8. k + 1 - skip' = k + 1 /\ k + 1 = offset' - piece' /\ piece' \in Nat /\ piece' <= offset'
        /\ skip' <= k + 1
    BY <1>1, <1>5, <2>1
  <2> HIDE DEF k
  <2>9. rc4' = After'[Len(out') - skip']
    <3> DEFINE n == Len(out')
    <3>1. n \in Nat /\ n = k + 1 /\ skip' = 0
      BY <2>1, <2>2, <2>6
    <3> HIDE DEF n
    <3>2. n - skip' = n
      BY <3>1
    <3>3. rc4' = After'[n]
      BY <1>3, <2>3, <3>1
    <3>4. rc4' = After'[n - skip']
      BY <3>2, <3>3
    <3> QED
      BY <3>4 DEF n
  <2>10. \A r \in 1..Len(out') : out'[r] = file'[r]
    BY <1>2, <2>6, <2>7
  <2> QED
    BY <1>1, <1>2, <2>1, <2>6, <2>8, <2>9, <2>10 DEF StreamInv
<1> QED
  BY <1>6, <1>7, <1>8, <1>9 DEF StreamNext

LEMMA StreamInvTyped == StreamInv => StreamTypeOK
<1> SUFFICES ASSUME StreamInv PROVE StreamTypeOK
  OBVIOUS
<1>1. Len(file) \in Nat /\ Len(out) \in Nat
  BY KeysAssumption, LenProperties DEF StreamInv
<1>2. Len(out) - skip \in 0..Len(file)
  BY <1>1 DEF StreamInv
<1>3. rc4 \in States
  BY <1>2, AfterRuns DEF StreamInv
<1>4. skip \in 0..Len(file) /\ piece \in 0..Len(file)
  BY <1>1 DEF StreamInv
<1> QED
  BY <1>3, <1>4 DEF StreamInv, StreamTypeOK, States

LEMMA StreamInvPlain == StreamInv => PiecesArePlain
<1> SUFFICES ASSUME StreamInv PROVE PiecesArePlain
  OBVIOUS
<1> DEFINE n == offset - piece
           q == SubSeq(file, 1, n)
<1>1. file \in Seq(Bytes) /\ Len(file) \in Nat /\ n \in 0..Len(file) /\ Len(out) = n
      /\ out \in Seq(Bytes)
  BY KeysAssumption, LenProperties DEF StreamInv
<1>2. \A r \in 1..n : file[r] \in Bytes
  BY <1>1, ElementOfSeq
<1>3. /\ q \in Seq(Bytes)
      /\ Len(q) = IF 1 <= n THEN n - 1 + 1 ELSE 0
      /\ \A r \in 1..(n - 1 + 1) : q[r] = file[1 + r - 1]
  <2> HIDE DEF n
  <2> QED
    BY <1>1, <1>2, SubSeqProperties
<1>4. \A r \in 1..n : out[r] = file[r]
  BY <1>1 DEF StreamInv
<1> HIDE DEF n, q
<1>5. Len(q) = n /\ \A r \in 1..n : q[r] = file[r]
  <2>1. n \in Nat /\ n - 1 + 1 = n /\ (~(1 <= n) => n = 0)
    BY <1>1
  <2>2. Len(q) = n /\ \A r \in 1..n : q[r] = file[1 + r - 1]
    BY ONLY <1>3, <2>1
  <2>3. \A r \in 1..n : 1 + r - 1 = r
    OBVIOUS
  <2> QED
    BY ONLY <2>2, <2>3
<1>6. out = q
  BY <1>1, <1>3, <1>4, <1>5, SeqEqual
<1> QED
  BY <1>6 DEF PiecesArePlain, n, q

\* For any file, key and pieces, the state of the cipher and the positions keep their types
\* (crypto_engine.cpp:7-64).
THEOREM StreamTyped == StreamSpec => []StreamTypeOK
BY StreamInitInv, StreamStep, StreamInvTyped, PTL DEF StreamSpec

\* A file of any length, read in pieces of any length, comes out as it was before it was
\* encrypted as a whole (crypto_engine.cpp:66-88, create_archive.py:72-74).
THEOREM AnyPiecesArePlain == StreamSpec => []PiecesArePlain
BY StreamInitInv, StreamStep, StreamInvPlain, PTL DEF StreamSpec

-----------------------------------------------------------------------------
(* Paths. *)

\* Nothing but multiples of the modulus is lost by masking early.
MayMaskEarly(m, c, a) == (c + (a % m) * 1143) % m = (c + a * 1143) % m

LEMMA MaskedEarly ==
  ASSUME NEW m \in Nat \ {0}, NEW c \in Nat, NEW a \in Nat
  PROVE  MayMaskEarly(m, c, a)
<1> DEFINE r == a % m
           q == a \div m
           x == c + r * 1143
           s == x % m
           t == x \div m
<1>1. r \in Nat /\ q \in Nat /\ a = q * m + r
  BY DEF r, q
<1> HIDE DEF r, q
<1>2. x \in Nat
  BY <1>1
<1> HIDE DEF x
<1>3. s \in 0..(m - 1) /\ t \in Nat /\ x = t * m + s
  BY <1>2
<1> HIDE DEF s, t
<1>4. c + a * 1143 = x + (q * m) * 1143
  BY <1>1 DEF x
<1>5. (q * m) * 1143 = (q * 1143) * m
  BY <1>1
<1>6. c + a * 1143 = (t + q * 1143) * m + s
  <2> DEFINE u == q * 1143
  <2>1. u \in Nat
    BY <1>1
  <2>2. (t + u) * m = t * m + u * m
    <3> HIDE DEF u
    <3> QED
      BY <1>3, <2>1
  <2>3. c + a * 1143 = t * m + s + u * m
    BY <1>3, <1>4, <1>5
  <2>4. t * m \in Nat /\ u * m \in Nat
    BY <1>3, <2>1
  <2> HIDE DEF u
  <2>5. c + a * 1143 = (t + u) * m + s
    BY <1>3, <2>2, <2>3, <2>4
  <2> QED
    BY <2>5 DEF u
<1>7. ASSUME NEW y \in Nat, NEW k \in Nat, y = k * m + s PROVE y % m = s
  BY <1>3, <1>7
<1>8. c + a * 1143 \in Nat /\ t + q * 1143 \in Nat
  BY <1>1, <1>3
<1>9. (c + a * 1143) % m = s
  BY <1>6, <1>7, <1>8
<1> QED
  BY <1>9 DEF s, x, r, MayMaskEarly

\* What Hash has after each character.
Hashes(f, name) == \A r \in 1..Len(name) : f[r] = (name[r] + f[r - 1] * 1143) % Modulus

LEMMA HashRuns ==
  ASSUME NEW name \in Seq(Nat)
  PROVE  \E f \in [0..Len(name) -> Nat] :
           /\ f[0] = 0
           /\ Hashes(f, name)
           /\ Hash(name) = f[Len(name)]
<1> DEFINE N == Len(name)
           Op(r, v) == (name[r] + v * 1143) % Modulus
           step == [r \in 1..N |-> [v \in Nat |-> Op(r, v)]]
           Picked(g) == g = [r \in 0..N |-> IF r = 0 THEN 0 ELSE Op(r, g[r - 1])]
<1>1. N \in Nat /\ Modulus \in Nat \ {0}
  BY LenProperties, PathsAssumption
<1>2. ASSUME NEW r \in 1..N, NEW v \in Nat PROVE Op(r, v) \in Nat
  <2>1. name[r] \in Nat
    BY ElementOfSeq
  <2>2. name[r] + v * 1143 \in Nat
    BY <2>1
  <2> DEFINE x == name[r] + v * 1143
  <2> HIDE DEF x
  <2>3. x \in Nat => x % Modulus \in Nat
    BY <1>1
  <2> QED
    BY <2>2, <2>3 DEF x
<1> HIDE DEF N, Op
<1>3. step \in [1..N -> [Nat -> Nat]]
  BY <1>2
<1>4. \A r \in 1..N : \A v \in Nat : step[r][v] = Op(r, v)
  OBVIOUS
<1> HIDE DEF step
<1>5. PICK f \in [0..N -> Nat] :
        /\ f[0] = 0 /\ \A r \in 1..N : f[r] = step[r][f[r - 1]]
        /\ \A g : g = [n \in 0..N |-> g[n]] /\ Runs(g, N, Nat, 0, step) => g = f
  BY <1>1, <1>3, RecursionRuns
<1>6. \A r \in 1..N : f[r] = Op(r, f[r - 1])
  <2>1. ASSUME NEW r \in 1..N PROVE f[r - 1] \in Nat
    BY <1>1, <1>5
  <2> QED
    BY <1>4, <1>5, <2>1
<1>7. Picked(f)
  <2>1. \A n \in 0..N : f[n] = IF n = 0 THEN 0 ELSE Op(n, f[n - 1])
    BY <1>1, <1>5, <1>6
  <2>2. f = [n \in 0..N |-> f[n]]
    BY <1>5
  <2>3. [n \in 0..N |-> f[n]] = [n \in 0..N |-> IF n = 0 THEN 0 ELSE Op(n, f[n - 1])]
    BY <2>1
  <2> QED
    BY <2>2, <2>3
<1>8. ASSUME NEW g, Picked(g) PROVE g = f
  <2>1. \A n \in 0..N : g[n] = IF n = 0 THEN 0 ELSE Op(n, g[n - 1])
    BY <1>8
  <2>2. Runs(g, N, Nat, 0, step)
    BY <1>1, <1>4, <2>1 DEF Runs
  <2>3. g = [n \in 0..N |-> g[n]]
    BY <1>8
  <2> QED
    BY <1>5, <2>2, <2>3
<1>9. (CHOOSE g : Picked(g)) = f
  BY <1>7, <1>8
<1>10. Hash(name) = f[Len(name)]
  BY <1>9 DEF Hash, N, Op
<1>11. f \in [0..N -> Nat] /\ f[0] = 0
  BY <1>5
<1>12. Hashes(f, name)
  BY ONLY <1>6 DEF Hashes, N, Op
<1> QED
  BY ONLY <1>10, <1>11, <1>12 DEF N

\* What BuilderHash has after each character.
BuilderHashes(f, name) == \A r \in 1..Len(name) : f[r] = name[r] + f[r - 1] * 1143

LEMMA BuilderHashRuns ==
  ASSUME NEW name \in Seq(Nat)
  PROVE  \E f \in [0..Len(name) -> Nat] :
           /\ f[0] = 0
           /\ BuilderHashes(f, name)
           /\ BuilderHash(name) = f[Len(name)] % Modulus
<1> DEFINE N == Len(name)
           Op(r, v) == name[r] + v * 1143
           step == [r \in 1..N |-> [v \in Nat |-> Op(r, v)]]
           Picked(g) == g = [r \in 0..N |-> IF r = 0 THEN 0 ELSE Op(r, g[r - 1])]
<1>1. N \in Nat /\ Modulus \in Nat \ {0}
  BY LenProperties, PathsAssumption
<1>2. ASSUME NEW r \in 1..N, NEW v \in Nat PROVE Op(r, v) \in Nat
  <2>1. name[r] \in Nat
    BY ElementOfSeq
  <2>2. name[r] + v * 1143 \in Nat
    BY <2>1
  <2> DEFINE x == name[r] + v * 1143
  <2> HIDE DEF x
  <2>3. x \in Nat => x % Modulus \in Nat
    BY <1>1
  <2> QED
    BY <2>2, <2>3 DEF x
<1> HIDE DEF N, Op
<1>3. step \in [1..N -> [Nat -> Nat]]
  BY <1>2
<1>4. \A r \in 1..N : \A v \in Nat : step[r][v] = Op(r, v)
  OBVIOUS
<1> HIDE DEF step
<1>5. PICK f \in [0..N -> Nat] :
        /\ f[0] = 0 /\ \A r \in 1..N : f[r] = step[r][f[r - 1]]
        /\ \A g : g = [n \in 0..N |-> g[n]] /\ Runs(g, N, Nat, 0, step) => g = f
  BY <1>1, <1>3, RecursionRuns
<1>6. \A r \in 1..N : f[r] = Op(r, f[r - 1])
  <2>1. ASSUME NEW r \in 1..N PROVE f[r - 1] \in Nat
    BY <1>1, <1>5
  <2> QED
    BY <1>4, <1>5, <2>1
<1>7. Picked(f)
  <2>1. \A n \in 0..N : f[n] = IF n = 0 THEN 0 ELSE Op(n, f[n - 1])
    BY <1>1, <1>5, <1>6
  <2>2. f = [n \in 0..N |-> f[n]]
    BY <1>5
  <2>3. [n \in 0..N |-> f[n]] = [n \in 0..N |-> IF n = 0 THEN 0 ELSE Op(n, f[n - 1])]
    BY <2>1
  <2> QED
    BY <2>2, <2>3
<1>8. ASSUME NEW g, Picked(g) PROVE g = f
  <2>1. \A n \in 0..N : g[n] = IF n = 0 THEN 0 ELSE Op(n, g[n - 1])
    BY <1>8
  <2>2. Runs(g, N, Nat, 0, step)
    BY <1>1, <1>4, <2>1 DEF Runs
  <2>3. g = [n \in 0..N |-> g[n]]
    BY <1>8
  <2> QED
    BY <1>5, <2>2, <2>3
<1>9. (CHOOSE g : Picked(g)) = f
  BY <1>7, <1>8
<1>10. BuilderHash(name) = f[Len(name)] % Modulus
  BY ONLY <1>9 DEF BuilderHash, N, Op, Picked
<1>11. f \in [0..N -> Nat] /\ f[0] = 0
  BY <1>5
<1>12. BuilderHashes(f, name)
  BY ONLY <1>6 DEF BuilderHashes, N, Op
<1> QED
  BY ONLY <1>10, <1>11, <1>12 DEF N

\* The hash of the game, masked at every character, is the builder's, masked at the end.
LEMMA HashesAgree ==
  ASSUME NEW name \in Seq(Nat)
  PROVE  Hash(name) = BuilderHash(name)
<1> DEFINE N == Len(name)
<1>1. PICK f \in [0..N -> Nat] :
        f[0] = 0 /\ Hashes(f, name) /\ Hash(name) = f[N]
  BY HashRuns
<1>2. PICK g \in [0..N -> Nat] :
        g[0] = 0 /\ BuilderHashes(g, name) /\ BuilderHash(name) = g[N] % Modulus
  BY BuilderHashRuns
<1>3. N \in Nat /\ Modulus \in Nat \ {0}
  BY LenProperties, PathsAssumption
<1>4. \A n \in 0..N : f[n] = g[n] % Modulus
  <2> DEFINE T == {n \in 0..N : f[n] # g[n] % Modulus}
  <2>1. SUFFICES ASSUME T # {} PROVE FALSE
    BY <2>1
  <2>2. T \subseteq Nat
    OBVIOUS
  <2>3. PICK n \in T : \A k \in T : n <= k
    <3> HIDE DEF T
    <3> QED
      BY <2>1, <2>2, LeastElement
  <2>4. n \in 1..N
    <3>1. 0 % Modulus = 0
      BY <1>3
    <3>2. f[0] = g[0] % Modulus
      BY <1>1, <1>2, <3>1
    <3> QED
      BY <2>3, <3>2
  <2>5. n - 1 \in 0..N /\ f[n - 1] = g[n - 1] % Modulus
    <3>1. n - 1 \in 0..N /\ ~(n <= n - 1)
      BY <2>4
    <3> QED
      BY <2>3, <3>1
  <2>6. name[n] \in Nat /\ g[n - 1] \in Nat
    <3>1. name[n] \in Nat
      BY <2>4, ElementOfSeq
    <3>2. g[n - 1] \in Nat
      BY <2>5
    <3> QED
      BY <3>1, <3>2
  <2>7. (name[n] + (g[n - 1] % Modulus) * 1143) % Modulus = (name[n] + g[n - 1] * 1143) % Modulus
    <3>1. MayMaskEarly(Modulus, name[n], g[n - 1])
      BY <1>3, <2>6, MaskedEarly
    <3> QED
      BY <3>1 DEF MayMaskEarly
  <2>8. f[n] = g[n] % Modulus
    <3>1. f[n] = (name[n] + f[n - 1] * 1143) % Modulus
      BY <1>1, <2>4 DEF Hashes
    <3>2. g[n] = name[n] + g[n - 1] * 1143
      BY <1>2, <2>4 DEF BuilderHashes
    <3> QED
      BY ONLY <3>1, <3>2, <2>5, <2>7
  <2> QED
    BY <2>3, <2>8
<1> QED
  BY <1>1, <1>2, <1>3, <1>4

\* Where a file is found by its hash, it is that file.
LEMMA FoundByHash ==
  ASSUME NEW name \in SdFiles
  PROVE  SdFileFor(BuilderHash(name)) = name
<1>1. {f \in SdFiles : BuilderHash(f) = BuilderHash(name)} = {name}
  BY PathsAssumption
<1> QED
  BY <1>1 DEF SdFileFor

LEMMA SmallestOfOne == ASSUME NEW n \in Nat PROVE Smallest({n}) = n
BY DEF Smallest

LEMMA SingleTrackReplaced ==
  ASSUME NEW n \in 0..(TrackMaxId - 2), NEW path \in GamePaths, trackNamesMod[n] # NoName,
         \A m \in DOMAIN TrackNames : Occurrences(TrackNames[m], path) # {} <=> m = n
  PROVE  Replaced(path) =
           ReplacedAt(Smallest(Occurrences(TrackNames[n], path)), TrackNames[n], path,
                      trackNamesMod[n])
<1> DEFINE found == {m \in 0..(TrackMaxId - 2) :
                       trackNamesMod[m] # NoName /\ Occurrences(TrackNames[m], path) # {}}
<1>1. \A m \in 0..(TrackMaxId - 2) : m \in DOMAIN TrackNames
  BY PathsAssumption
<1>2. found = {n}
  BY <1>1
<1>3. Smallest(found) = n /\ found # {}
  <2>1. n \in Nat
    BY PathsAssumption
  <2> QED
    BY <1>2, <2>1, SmallestOfOne
<1> HIDE DEF found
<1> QED
  BY <1>3 DEF Replaced, found

LEMMA OpensItsTrackStep ==
  ASSUME NEW n \in 0..(TrackMaxId - 2), NEW path \in GamePaths,
         FSOpenFile(path), trackNamesMod[n] # NoName,
         \A m \in DOMAIN TrackNames : Occurrences(TrackNames[m], path) # {} <=> m = n,
         WithoutPrefix(ReplacedAt(Smallest(Occurrences(TrackNames[n], path)), TrackNames[n], path,
                                  trackNamesMod[n])) \in Released \cap SdFiles
  PROVE  opened'.sd =
           WithoutPrefix(ReplacedAt(Smallest(Occurrences(TrackNames[n], path)), TrackNames[n], path,
                                    trackNamesMod[n]))
<1> DEFINE swapped == WithoutPrefix(ReplacedAt(Smallest(Occurrences(TrackNames[n], path)),
                                            TrackNames[n], path, trackNamesMod[n]))
<1>1. swapped \in Released /\ swapped \in SdFiles
  OBVIOUS
<1>2. WithoutPrefix(Replaced(path)) = swapped
  BY SingleTrackReplaced
<1> HIDE DEF swapped
<1>3. opened'.sd = IF AllowedHash(Hash(swapped)) THEN SdFileFor(Hash(swapped)) ELSE GamesOwn
  BY <1>2 DEF FSOpenFile
<1>4. Hash(swapped) = BuilderHash(swapped)
  BY <1>1, HashesAgree, PathsAssumption
<1>5. AllowedHash(Hash(swapped))
  BY <1>1, <1>4 DEF AllowedHash
<1>6. SdFileFor(Hash(swapped)) = swapped
  BY <1>1, <1>4, FoundByHash
<1>7. opened'.sd = swapped
  BY <1>3, <1>5, <1>6
<1> QED
  BY <1>7 DEF swapped

\* For any paths and names: the released file of a custom track is the one that is opened
\* in place of the track's (filesystem.cpp:70-76, :105-131, create_archive.py:22-26).
THEOREM TrackFileIsOpened == ResolveSpec => OpensItsTrack
<1>1. [ResolveNext]_resolveVars =>
        [\A n \in 0..(TrackMaxId - 2), path \in GamePaths :
           LET here == Occurrences(TrackNames[n], path)
               swapped == WithoutPrefix(ReplacedAt(Smallest(here), TrackNames[n], path,
                                                   trackNamesMod[n]))
           IN /\ FSOpenFile(path) /\ trackNamesMod[n] # NoName
              /\ \A m \in DOMAIN TrackNames : Occurrences(TrackNames[m], path) # {} <=> m = n
              /\ swapped \in Released \cap SdFiles
              => opened'.sd = swapped]_resolveVars
  BY OpensItsTrackStep
<1> QED
  BY <1>1, PTL DEF ResolveSpec, OpensItsTrack

\* What each function found last is what the SD card has for the hash it took; a file
\* that was opened is on the list too.
MeasuredOk ==
  measured = Nothing \/ /\ measured.path \in GamePaths
                        /\ measured.sd = SdFileFor(Hash(WithoutPrefix(measured.path)))
OpenedOk ==
  opened = Nothing \/ /\ opened.path \in GamePaths
                      /\ opened.sd = IF AllowedHash(Hash(opened.looked))
                                     THEN SdFileFor(Hash(opened.looked)) ELSE GamesOwn

ResolveInv == ResolveTypeOK /\ MeasuredOk /\ OpenedOk

LEMMA SdFileTyped == ASSUME NEW hash PROVE SdFileFor(hash) \in SdFiles \cup {GamesOwn}
BY DEF SdFileFor

LEMMA ResolveInitInv == ResolveInit => ResolveInv
BY DEF ResolveInit, ResolveInv, ResolveTypeOK, MeasuredOk, OpenedOk, Nothing

LEMMA ResolveStep == ResolveInv /\ [ResolveNext]_resolveVars => ResolveInv'
<1> SUFFICES ASSUME ResolveInv, [ResolveNext]_resolveVars PROVE ResolveInv'
  OBVIOUS
<1>1. CASE UNCHANGED resolveVars
  BY <1>1 DEF resolveVars, ResolveInv, ResolveTypeOK, MeasuredOk, OpenedOk
<1>2. CASE CopyTrackNames
  <2>1. trackNamesMod' \in
          [DOMAIN TrackNames ->
             CustomNames \cup {NoName} \cup {TrackNames[n] : n \in DOMAIN TrackNames}]
    BY <1>2, PathsAssumption DEF CopyTrackNames
  <2> QED
    BY <2>1, <1>2 DEF CopyTrackNames, ResolveInv, ResolveTypeOK, MeasuredOk, OpenedOk
<1>3. ASSUME NEW n \in DOMAIN TrackNames, NEW name \in CustomNames \cup {NoName},
             SetTrackName(n, name)
      PROVE  ResolveInv'
  BY <1>3 DEF SetTrackName, ResolveInv, ResolveTypeOK, MeasuredOk, OpenedOk
<1>4. ASSUME NEW path \in GamePaths, FSOpenFile(path) PROVE ResolveInv'
  <2> DEFINE looked == WithoutPrefix(Replaced(path))
             sd == IF AllowedHash(Hash(looked)) THEN SdFileFor(Hash(looked)) ELSE GamesOwn
  <2>1. /\ opened' = [path |-> path, looked |-> looked, sd |-> sd]
        /\ UNCHANGED <<trackNamesMod, measured>>
    BY <1>4 DEF FSOpenFile
  <2>2. sd \in SdFiles \cup {GamesOwn}
    BY SdFileTyped
  <2>3. sd = IF AllowedHash(Hash(looked)) THEN SdFileFor(Hash(looked)) ELSE GamesOwn
    OBVIOUS
  <2> HIDE DEF looked, sd
  <2> QED
    BY <2>1, <2>2, <2>3 DEF ResolveInv, ResolveTypeOK, MeasuredOk, OpenedOk
<1>5. ASSUME NEW path \in GamePaths, FSGetStat(path) PROVE ResolveInv'
  <2> DEFINE sd == SdFileFor(Hash(WithoutPrefix(path)))
  <2>1. /\ measured' = [path |-> path, looked |-> WithoutPrefix(path), sd |-> sd]
        /\ UNCHANGED <<trackNamesMod, opened>>
    BY <1>5 DEF FSGetStat, StatLooks
  <2>2. sd \in SdFiles \cup {GamesOwn} /\ sd = SdFileFor(Hash(WithoutPrefix(path)))
    BY SdFileTyped
  <2> HIDE DEF sd
  <2> QED
    BY <2>1, <2>2 DEF ResolveInv, ResolveTypeOK, MeasuredOk, OpenedOk
<1> QED
  BY <1>1, <1>2, <1>3, <1>4, <1>5 DEF ResolveNext

\* What is behind the prefix of a path.
LEMMA RestIsName == ASSUME NEW path \in GamePaths PROVE WithoutPrefix(path) \in Seq(Nat)
<1>1. path \in Seq(Nat) /\ Len(path) \in Nat /\ Len(Prefix) \in Nat
  BY PathsAssumption, LenProperties
<1>2. \A n \in (Len(Prefix) + 1)..Len(path) : path[n] \in Nat
  <2>1. \A n \in (Len(Prefix) + 1)..Len(path) : n \in 1..Len(path)
    BY <1>1
  <2> QED
    BY <1>1, <2>1, ElementOfSeq
<1>3. Len(Prefix) + 1 \in Int /\ Len(path) \in Int
  BY <1>1
<1>4. SubSeq(path, Len(Prefix) + 1, Len(path)) \in Seq(Nat)
  BY <1>2, <1>3, SubSeqProperties
<1> QED
  BY <1>4 DEF WithoutPrefix

LEMMA ResolveInvAgrees == ResolveInv => StatAgreesWithOpen
<1> SUFFICES ASSUME ResolveInv,
                    measured.path = opened.path, opened.looked = WithoutPrefix(opened.path),
                    opened.looked \in SdFiles => opened.looked \in Released
             PROVE  measured.sd = opened.sd
  BY DEF StatAgreesWithOpen
<1>1. Nothing.path = <<>> /\ <<>> \notin GamePaths
  <2>1. Len(<<>>) = 0 /\ Len(Prefix) \in Nat
    BY PathsAssumption, LenProperties, EmptySeq
  <2> QED
    BY <2>1, PathsAssumption DEF Nothing
<1>2. CASE measured = Nothing \/ opened = Nothing
  BY <1>1, <1>2 DEF ResolveInv, MeasuredOk, OpenedOk
<1>3. CASE measured # Nothing /\ opened # Nothing
  <2> DEFINE path == opened.path
             name == WithoutPrefix(path)
  <2>1. /\ path \in GamePaths
        /\ measured.sd = SdFileFor(Hash(name))
        /\ opened.sd = IF AllowedHash(Hash(name)) THEN SdFileFor(Hash(name)) ELSE GamesOwn
        /\ name \in SdFiles => name \in Released
    BY <1>3 DEF ResolveInv, MeasuredOk, OpenedOk
  <2>2. name \in {WithoutPrefix(p) : p \in GamePaths}
    BY <2>1
  <2> HIDE DEF path
  <2>3. Hash(name) = BuilderHash(name)
    BY <2>1, RestIsName, HashesAgree
  <2> HIDE DEF name
  <2>4. CASE AllowedHash(Hash(name))
    BY <2>1, <2>4
  <2>5. CASE ~AllowedHash(Hash(name))
    <3>1. ASSUME NEW f \in SdFiles, BuilderHash(f) = Hash(name) PROVE FALSE
      <4>1. name = f
        BY <2>2, <2>3, <3>1, PathsAssumption
      <4>2. name \in Released
        BY <2>1, <4>1
      <4> QED
        BY <2>3, <2>5, <4>2 DEF AllowedHash
    <3>2. SdFileFor(Hash(name)) = GamesOwn
      BY <3>1 DEF SdFileFor
    <3> QED
      BY <2>1, <2>5, <3>2
  <2> QED
    BY <2>4, <2>5
<1> QED
  BY <1>2, <1>3

\* The names that replace others, and what was opened and measured, keep their types
\* (filesystem.cpp:61-79, :102-131, :186-198).
THEOREM ResolveTyped == ResolveSpec => []ResolveTypeOK
<1>1. ResolveInv => ResolveTypeOK
  BY DEF ResolveInv
<1> QED
  BY <1>1, ResolveInitInv, ResolveStep, PTL DEF ResolveSpec

\* For any paths and names, replaced and put back in any order: while no name is replaced,
\* the game is told the size of the file it opens (filesystem.cpp:121-140, :186-198).
THEOREM SizeOfWhatIsOpened == ResolveSpec => []StatAgreesWithOpen
BY ResolveInitInv, ResolveStep, ResolveInvAgrees, PTL DEF ResolveSpec

-----------------------------------------------------------------------------
(* Handlers. *)

AnyHandler == {Handlers(v)[n] : v \in Vectors, n \in Nat}

\* For goes on from one handler to the next.
ForRuns(f, v, k, page) ==
  /\ f[0] = <<>>
  /\ \A n \in 1..k : f[n] = IF Handlers(v)[n].page \in {Global, page}
                            THEN Append(f[n - 1], Handlers(v)[n]) ELSE f[n - 1]

LEMMA ForIsRun ==
  ASSUME NEW v \in Vectors, NEW k \in Nat, NEW page
  PROVE  \E f \in [0..k -> Seq(AnyHandler)] : ForRuns(f, v, k, page) /\ For(v, k, page) = f[k]
<1> DEFINE V == Seq(AnyHandler)
           h(n) == Handlers(v)[n]
           Op(n, was) == IF h(n).page \in {Global, page} THEN Append(was, h(n)) ELSE was
           step == [n \in 1..k |-> [was \in V |-> Op(n, was)]]
           Picked(g) == g = [n \in 0..k |-> IF n = 0 THEN <<>> ELSE Op(n, g[n - 1])]
<1>1. ASSUME NEW n \in 1..k, NEW was \in V PROVE Op(n, was) \in V
  <2>1. h(n) \in AnyHandler
    BY DEF AnyHandler
  <2> HIDE DEF h
  <2> QED
    BY <2>1, AppendProperties
<1>2. <<>> \in V
  BY EmptySeq
<1> HIDE DEF V, Op
<1>3. step \in [1..k -> [V -> V]]
  BY <1>1
<1>4. \A n \in 1..k : \A was \in V : step[n][was] = Op(n, was)
  OBVIOUS
<1> HIDE DEF step
<1>5. PICK f \in [0..k -> V] :
        /\ f[0] = <<>> /\ \A n \in 1..k : f[n] = step[n][f[n - 1]]
        /\ \A g : g = [n \in 0..k |-> g[n]] /\ Runs(g, k, V, <<>>, step) => g = f
  BY <1>2, <1>3, RecursionRuns
<1>6. \A n \in 1..k : f[n] = Op(n, f[n - 1])
  <2>1. ASSUME NEW n \in 1..k PROVE f[n - 1] \in V
    BY <1>5
  <2> QED
    BY <1>4, <1>5, <2>1
<1>7. Picked(f)
  <2>1. \A n \in 0..k : f[n] = IF n = 0 THEN <<>> ELSE Op(n, f[n - 1])
    BY <1>5, <1>6
  <2>2. f = [n \in 0..k |-> f[n]]
    BY <1>5
  <2>3. [n \in 0..k |-> f[n]] = [n \in 0..k |-> IF n = 0 THEN <<>> ELSE Op(n, f[n - 1])]
    BY <2>1
  <2> QED
    BY <2>2, <2>3
<1>8. ASSUME NEW g, Picked(g) PROVE g = f
  <2>1. \A n \in 0..k : g[n] = IF n = 0 THEN <<>> ELSE Op(n, g[n - 1])
    BY <1>8
  <2>2. Runs(g, k, V, <<>>, step)
    BY <1>4, <2>1 DEF Runs
  <2>3. g = [n \in 0..k |-> g[n]]
    BY <1>8
  <2> QED
    BY <1>5, <2>2, <2>3
<1>9. (CHOOSE g : Picked(g)) = f
  BY <1>7, <1>8
<1>10. For(v, k, page) = f[k]
  BY <1>9 DEF For, Op
<1>11. ForRuns(f, v, k, page)
  BY <1>5, <1>6 DEF ForRuns, Op
<1> QED
  BY <1>5, <1>10, <1>11 DEF V

\* Two such runs have the same beginning.
LEMMA ForRunsAgree ==
  ASSUME NEW v \in Vectors, NEW k \in Nat, NEW page, NEW f, NEW g,
         ForRuns(f, v, k, page), ForRuns(g, v, k, page)
  PROVE  f[k] = g[k]
<1> DEFINE T == {n \in 0..k : f[n] # g[n]}
<1>1. SUFFICES ASSUME T # {} PROVE FALSE
  BY <1>1
<1>2. PICK n \in T : \A m \in T : n <= m
  <2>1. T \subseteq Nat
    OBVIOUS
  <2> HIDE DEF T
  <2> QED
    BY <1>1, <2>1, LeastElement
<1>3. n \in 1..k
  BY <1>2 DEF ForRuns
<1>4. f[n - 1] = g[n - 1]
  <2>1. n - 1 \in 0..k /\ ~(n <= n - 1)
    BY <1>3
  <2> QED
    BY <1>2, <2>1
<1>5. f[n] = g[n]
  BY <1>3, <1>4 DEF ForRuns
<1> QED
  BY <1>2, <1>5

LEMMA ForNext ==
  ASSUME NEW v \in Vectors, NEW k \in Nat, NEW page
  PROVE  /\ For(v, 0, page) = <<>> /\ For(v, k, page) \in Seq(AnyHandler)
         /\ For(v, k + 1, page) =
              IF Handlers(v)[k + 1].page \in {Global, page}
              THEN Append(For(v, k, page), Handlers(v)[k + 1]) ELSE For(v, k, page)
<1>1. For(v, 0, page) = <<>>
  BY ForIsRun DEF ForRuns
<1>2. PICK f \in [0..k -> Seq(AnyHandler)] : ForRuns(f, v, k, page) /\ For(v, k, page) = f[k]
  BY ForIsRun
<1>3. k + 1 \in Nat
  OBVIOUS
<1>4. PICK g \in [0..(k + 1) -> Seq(AnyHandler)] :
        ForRuns(g, v, k + 1, page) /\ For(v, k + 1, page) = g[k + 1]
  BY <1>3, ForIsRun
<1>5. ForRuns(g, v, k, page)
  <2>1. \A n \in 1..k : n \in 1..(k + 1)
    OBVIOUS
  <2> QED
    BY <1>4, <2>1 DEF ForRuns
<1>6. g[k] = For(v, k, page)
  BY <1>2, <1>5, ForRunsAgree
<1>7. k + 1 \in 1..(k + 1) /\ (k + 1) - 1 = k
  OBVIOUS
<1>8. g[k + 1] = IF Handlers(v)[k + 1].page \in {Global, page}
                 THEN Append(g[k], Handlers(v)[k + 1]) ELSE g[k]
  BY <1>4, <1>7 DEF ForRuns
<1> QED
  BY <1>1, <1>2, <1>4, <1>6, <1>8

-----------------------------------------------------------------------------

CallsOfHooks == [state : {"begin", "walk", "over"}, vector : Vectors, page : Pages \cup {Global},
                 begin : Nat, end : Nat, pos : Nat, ran : Seq(AnyHandler),
                 cancel : BOOLEAN, real : BOOLEAN, known : Nat]

VectorsTyped ==
  /\ registering \in [number : Nat \ {0}, store : {"none", "start", "finish"}]
  /\ registering.store # "none" => registering.number <= Len(Registrations)
  /\ start \in [Vectors -> Nat] /\ finish \in [Vectors -> Nat] /\ grown \in [Vectors -> Nat]
  /\ call \in CallsOfHooks /\ dispatchCrashed \in BOOLEAN

\* A vector's pointers are to its last buffer, but while MainThread appends to it.
PointersOk ==
  \A v \in Vectors :
    IF registering.store # "none" /\ v = Growing
    THEN /\ finish[v] + 1 = grown[v]
         /\ start[v] = IF registering.store = "start" THEN finish[v] ELSE grown[v]
    ELSE start[v] = grown[v] /\ finish[v] = grown[v]

Canceller(c) == \E j \in DOMAIN c.ran : c.page \in c.ran[j].cancels

\* A call that is not disturbed walks the entries there were when it began.
Walked(c) ==
  /\ c.begin = c.known
  /\ c.state = "begin" => c.pos = 0 /\ c.ran = <<>> /\ ~c.cancel
  /\ c.state = "walk" => /\ c.end = c.known /\ c.pos <= c.end
                         /\ c.ran = For(c.vector, c.pos, c.page)
  /\ c.state = "over" => c.ran = For(c.vector, c.known, c.page) /\ (c.real \/ c.cancel)
  /\ c.cancel => Canceller(c)

CallOk ==
  /\ call.known <= finish[call.vector]
  /\ ~Disturbed => Walked(call)
  /\ dispatchCrashed => Disturbed

DispatchInv == VectorsTyped /\ PointersOk /\ CallOk

LEMMA GrowingKnown ==
  ASSUME registering.number \in Nat \ {0}, registering.number <= Len(Registrations)
  PROVE  Growing \in Vectors
<1>1. Registrations \in Seq([vector : Vectors, page : Pages \cup {Global}, cancels : SUBSET Pages])
  BY RegistrationsAssumption
<1>2. registering.number \in 1..Len(Registrations)
  BY <1>1, LenProperties
<1>3. Registrations[registering.number] \in
        [vector : Vectors, page : Pages \cup {Global}, cancels : SUBSET Pages]
  BY <1>1, <1>2, ElementOfSeq
<1> QED
  BY <1>3 DEF Growing

LEMMA NoCallTyped == NoCallYet \in CallsOfHooks
<1>1. <<>> \in Seq(AnyHandler)
  BY EmptySeq
<1> QED
  BY <1>1 DEF NoCallYet, CallsOfHooks, Vectors

LEMMA DispatchInitInv == DispatchInit => DispatchInv
<1> SUFFICES ASSUME DispatchInit PROVE DispatchInv
  OBVIOUS
<1>1. VectorsTyped
  <2>1. [number |-> 1, store |-> "none"] \in [number : Nat \ {0}, store : {"none", "start", "finish"}]
    OBVIOUS
  <2>2. registering.store = "none"
    BY DEF DispatchInit
  <2>3. call \in CallsOfHooks
    BY NoCallTyped DEF DispatchInit
  <2> QED
    BY <2>1, <2>2, <2>3 DEF DispatchInit, VectorsTyped
<1>2. PointersOk
  BY DEF DispatchInit, PointersOk
<1>3. CallOk
  <2>1. For("attach", 0, Global) = <<>>
    BY ForNext DEF Vectors
  <2> QED
    BY <2>1 DEF DispatchInit, CallOk, NoCallYet, Walked, Disturbed, Vectors
<1> QED
  BY <1>1, <1>2, <1>3 DEF DispatchInv

\* While MainThread appends, a call stays what it was or is disturbed.
LEMMA CallGoesOn ==
  ASSUME DispatchInv, UNCHANGED <<call, dispatchCrashed>>, VectorsTyped',
         \A v \in Vectors : finish'[v] >= finish[v] /\ grown'[v] >= grown[v]
  PROVE  CallOk'
<1>1. call.vector \in Vectors /\ call.known \in Nat
  BY DEF DispatchInv, VectorsTyped, CallsOfHooks
<1>2. /\ finish[call.vector] \in Nat /\ finish'[call.vector] \in Nat
      /\ grown[call.vector] \in Nat /\ grown'[call.vector] \in Nat
      /\ finish'[call.vector] >= finish[call.vector] /\ grown'[call.vector] >= grown[call.vector]
  BY <1>1 DEF DispatchInv, VectorsTyped
<1>3. call.known <= finish'[call.vector]
  BY <1>1, <1>2 DEF DispatchInv, CallOk
<1>4. Disturbed => Disturbed'
  BY <1>1, <1>2 DEF Disturbed
<1> QED
  BY <1>3, <1>4 DEF DispatchInv, CallOk, Walked, Canceller

LEMMA GrowStep == ASSUME DispatchInv, Grow PROVE DispatchInv'
<1> DEFINE v0 == Growing
<1>1. /\ v0 \in Vectors /\ registering.store = "none"
      /\ registering \in [number : Nat \ {0}, store : {"none", "start", "finish"}]
  BY GrowingKnown DEF DispatchInv, VectorsTyped, Grow
<1>2. /\ registering' = [registering EXCEPT !.store = "start"]
      /\ UNCHANGED <<start, finish, call, dispatchCrashed>>
  BY DEF Grow
<1>3. /\ registering' \in [number : Nat \ {0}, store : {"none", "start", "finish"}]
      /\ registering'.number = registering.number /\ registering'.store = "start"
  BY <1>1, <1>2
<1>4. Growing' = v0
  BY <1>3 DEF Growing
<1>5. /\ grown' \in [Vectors -> Nat] /\ grown'[v0] = grown[v0] + 1
      /\ \A v \in Vectors : v # v0 => grown'[v] = grown[v]
  <2>1. grown' = [grown EXCEPT ![v0] = @ + 1] /\ grown \in [Vectors -> Nat]
    BY DEF Grow, DispatchInv, VectorsTyped
  <2> HIDE DEF v0
  <2> QED
    BY <1>1, <2>1
<1>6. VectorsTyped'
  BY <1>2, <1>3, <1>5 DEF DispatchInv, VectorsTyped, Grow
<1>7. PointersOk'
  <2> HIDE DEF v0
  <2>1. \A v \in Vectors : start[v] = grown[v] /\ finish[v] = grown[v]
    BY <1>1 DEF DispatchInv, PointersOk
  <2>2. registering'.store # "none" /\ start' = start /\ finish' = finish
    BY <1>2, <1>3
  <2> QED
    BY <1>1, <1>3, <1>4, <1>5, <2>1, <2>2 DEF PointersOk
<1>8. \A v \in Vectors : finish'[v] >= finish[v] /\ grown'[v] >= grown[v]
  <2> HIDE DEF v0
  <2>1. \A v \in Vectors : finish[v] \in Nat /\ grown[v] \in Nat
    BY DEF DispatchInv, VectorsTyped
  <2> QED
    BY <1>2, <1>5, <2>1
<1> QED
  BY <1>2, <1>6, <1>7, <1>8, CallGoesOn DEF DispatchInv

LEMMA StoreStartStep == ASSUME DispatchInv, StoreStart PROVE DispatchInv'
<1> DEFINE v0 == Growing
<1>1. /\ v0 \in Vectors /\ registering.store = "start"
      /\ registering \in [number : Nat \ {0}, store : {"none", "start", "finish"}]
  BY GrowingKnown DEF DispatchInv, VectorsTyped, StoreStart
<1>2. /\ registering' = [registering EXCEPT !.store = "finish"]
      /\ UNCHANGED <<finish, grown, call, dispatchCrashed>>
  BY DEF StoreStart
<1>3. /\ registering' \in [number : Nat \ {0}, store : {"none", "start", "finish"}]
      /\ registering'.number = registering.number /\ registering'.store = "finish"
  BY <1>1, <1>2
<1>4. Growing' = v0
  BY <1>3 DEF Growing
<1>5. /\ start' \in [Vectors -> Nat] /\ start'[v0] = grown[v0]
      /\ \A v \in Vectors : v # v0 => start'[v] = start[v]
  <2>1. start' = [start EXCEPT ![v0] = grown[v0]] /\ start \in [Vectors -> Nat] /\ grown[v0] \in Nat
    BY <1>1 DEF StoreStart, DispatchInv, VectorsTyped
  <2> HIDE DEF v0
  <2> QED
    BY <1>1, <2>1
<1>6. VectorsTyped'
  BY <1>1, <1>2, <1>3, <1>5 DEF DispatchInv, VectorsTyped
<1>7. PointersOk'
  <2> HIDE DEF v0
  <2>1. /\ finish[v0] + 1 = grown[v0]
        /\ \A v \in Vectors : v # v0 => start[v] = grown[v] /\ finish[v] = grown[v]
    BY <1>1 DEF DispatchInv, PointersOk, v0
  <2> QED
    BY <1>1, <1>2, <1>3, <1>4, <1>5, <2>1 DEF PointersOk
<1>8. \A v \in Vectors : finish'[v] >= finish[v] /\ grown'[v] >= grown[v]
  <2>1. \A v \in Vectors : finish[v] \in Nat /\ grown[v] \in Nat
    BY DEF DispatchInv, VectorsTyped
  <2> QED
    BY <1>2, <2>1
<1> QED
  BY <1>2, <1>6, <1>7, <1>8, CallGoesOn DEF DispatchInv

LEMMA StoreFinishStep == ASSUME DispatchInv, StoreFinish PROVE DispatchInv'
<1> DEFINE v0 == Growing
<1>1. /\ v0 \in Vectors /\ registering.store = "finish"
      /\ registering \in [number : Nat \ {0}, store : {"none", "start", "finish"}]
  BY GrowingKnown DEF DispatchInv, VectorsTyped, StoreFinish
<1>2. /\ registering' = [number |-> registering.number + 1, store |-> "none"]
      /\ UNCHANGED <<start, grown, call, dispatchCrashed>>
  BY DEF StoreFinish
<1>3. /\ registering' \in [number : Nat \ {0}, store : {"none", "start", "finish"}]
      /\ registering'.store = "none"
  BY <1>1, <1>2
<1>5. /\ finish' \in [Vectors -> Nat] /\ finish'[v0] = grown[v0]
      /\ \A v \in Vectors : v # v0 => finish'[v] = finish[v]
  <2>1. finish' = [finish EXCEPT ![v0] = grown[v0]] /\ finish \in [Vectors -> Nat] /\ grown[v0] \in Nat
    BY <1>1 DEF StoreFinish, DispatchInv, VectorsTyped
  <2> HIDE DEF v0
  <2> QED
    BY <1>1, <2>1
<1>6. VectorsTyped'
  BY <1>1, <1>2, <1>3, <1>5 DEF DispatchInv, VectorsTyped
<1>7. /\ finish[v0] + 1 = grown[v0] /\ start[v0] = grown[v0]
      /\ \A v \in Vectors : v # v0 => start[v] = grown[v] /\ finish[v] = grown[v]
  BY <1>1 DEF DispatchInv, PointersOk
<1> HIDE DEF v0
<1>8. PointersOk'
  BY <1>1, <1>2, <1>3, <1>5, <1>7 DEF PointersOk
<1>9. \A v \in Vectors : finish'[v] >= finish[v] /\ grown'[v] >= grown[v]
  <2>1. \A v \in Vectors : finish[v] \in Nat /\ grown[v] \in Nat
    BY DEF DispatchInv, VectorsTyped
  <2> QED
    BY <1>2, <1>5, <1>7, <2>1
<1> QED
  BY <1>2, <1>6, <1>8, <1>9, CallGoesOn DEF DispatchInv

-----------------------------------------------------------------------------

\* What the game's thread does leaves the vectors as they were.
LEMMA HookCallStep ==
  ASSUME DispatchInv, UNCHANGED <<registering, start, finish, grown>>,
         call' \in CallsOfHooks, dispatchCrashed' \in BOOLEAN, CallOk'
  PROVE  DispatchInv'
BY DEF DispatchInv, VectorsTyped, PointersOk, Growing

LEMMA CalledStep ==
  ASSUME DispatchInv, ~dispatchCrashed, NEW v \in Vectors, NEW page \in Pages, Called(v, page)
  PROVE  DispatchInv'
<1> DEFINE c == [NoCallYet EXCEPT !.state = "begin", !.vector = v, !.page = page,
                                  !.begin = start[v], !.known = finish[v]]
<1>1. start[v] \in Nat /\ finish[v] \in Nat /\ grown[v] \in Nat /\ finish[v] <= grown[v]
      /\ (finish[v] = grown[v] => start[v] = grown[v])
  BY DEF DispatchInv, VectorsTyped, PointersOk
<1>2. call' = c /\ UNCHANGED <<registering, start, finish, grown, dispatchCrashed>>
  BY DEF Called
<1>3. c \in CallsOfHooks
  <2> DEFINE a == start[v]
             b == finish[v]
  <2>1. a \in Nat /\ b \in Nat
    BY <1>1
  <2> HIDE DEF a, b
  <2>2. [NoCallYet EXCEPT !.state = "begin", !.vector = v, !.page = page,
                          !.begin = a, !.known = b] \in CallsOfHooks
    BY <2>1, NoCallTyped DEF CallsOfHooks
  <2> QED
    BY <2>2 DEF a, b
<1>4. /\ c.state = "begin" /\ c.vector = v /\ c.begin = start[v] /\ c.known = finish[v]
      /\ c.pos = 0 /\ c.ran = <<>> /\ c.cancel = FALSE
  BY DEF NoCallYet
<1> HIDE DEF c
<1>5. CallOk'
  BY <1>1, <1>2, <1>4 DEF CallOk, Disturbed, Walked
<1> QED
  BY <1>2, <1>3, <1>5, HookCallStep DEF DispatchInv, VectorsTyped

LEMMA ReadEndStep == ASSUME DispatchInv, ~dispatchCrashed, ReadEnd PROVE DispatchInv'
<1> DEFINE c == [call EXCEPT !.state = "walk", !.end = finish[call.vector]]
<1>1. call \in CallsOfHooks /\ call.state = "begin"
  BY DEF DispatchInv, VectorsTyped, ReadEnd
<1>2. call' = c /\ UNCHANGED <<registering, start, finish, grown, dispatchCrashed>>
  BY DEF ReadEnd
<1>3. /\ call.vector \in Vectors /\ call.known \in Nat
      /\ finish[call.vector] \in Nat /\ grown[call.vector] \in Nat
      /\ finish[call.vector] <= grown[call.vector]
  <2>1. call.vector \in Vectors /\ call.known \in Nat
    BY <1>1 DEF CallsOfHooks
  <2> QED
    BY <2>1 DEF DispatchInv, VectorsTyped, PointersOk
<1>4. /\ c \in CallsOfHooks
      /\ c.state = "walk" /\ c.vector = call.vector /\ c.begin = call.begin
      /\ c.known = call.known /\ c.pos = call.pos /\ c.ran = call.ran /\ c.cancel = call.cancel
      /\ c.page = call.page /\ c.end = finish[call.vector]
  BY <1>1, <1>3 DEF CallsOfHooks
<1> HIDE DEF c
<1>5. For(call.vector, 0, call.page) = <<>>
  BY <1>3, ForNext
<1>6. CallOk'
  <2>1. call.known <= finish[call.vector] /\ (~Disturbed => Walked(call))
    BY DEF DispatchInv, CallOk
  <2>2. Disturbed' <=> Disturbed
    BY <1>2, <1>4 DEF Disturbed
  <2>3. ~Disturbed => finish[call.vector] = call.known
    BY <1>3, <2>1 DEF Disturbed
  <2>4. ~Disturbed => Walked(c)
    BY <1>1, <1>3, <1>4, <1>5, <2>1, <2>3 DEF Walked, Canceller
  <2> QED
    BY <1>2, <1>4, <2>1, <2>2, <2>4 DEF CallOk
<1> QED
  BY <1>2, <1>4, <1>6, HookCallStep DEF DispatchInv, VectorsTyped

LEMMA VisitStep == ASSUME DispatchInv, ~dispatchCrashed, Visit PROVE DispatchInv'
<1> DEFINE handler == Handlers(call.vector)[call.pos + 1]
<1>1. call \in CallsOfHooks /\ call.state = "walk" /\ call.pos < call.end
      /\ UNCHANGED <<registering, start, finish, grown, dispatchCrashed>>
  BY DEF DispatchInv, VectorsTyped, Visit
<1>2. /\ call.vector \in Vectors /\ call.pos \in Nat /\ call.end \in Nat
      /\ call.ran \in Seq(AnyHandler) /\ call.cancel \in BOOLEAN
  BY <1>1 DEF CallsOfHooks
<1>3. handler \in AnyHandler
  BY <1>2 DEF AnyHandler
<1>4. For(call.vector, call.pos + 1, call.page) =
        IF handler.page \in {Global, call.page}
        THEN Append(For(call.vector, call.pos, call.page), handler)
        ELSE For(call.vector, call.pos, call.page)
  BY <1>2, ForNext
<1>5. call.known <= finish[call.vector] /\ (~Disturbed => Walked(call))
  BY DEF DispatchInv, CallOk
<1>6. CASE Matches(handler, call.page)
  <2>1. PICK answer \in BOOLEAN :
          /\ answer => call.page \in handler.cancels
          /\ call' = [call EXCEPT !.pos = @ + 1, !.ran = Append(@, handler), !.cancel = @ \/ answer]
    BY <1>6 DEF Visit
  <2> DEFINE c == [call EXCEPT !.pos = @ + 1, !.ran = Append(@, handler), !.cancel = @ \/ answer]
  <2>2. Append(call.ran, handler) \in Seq(AnyHandler) /\ (call.cancel \/ answer) \in BOOLEAN
    BY <1>2, <1>3, AppendProperties
  <2>3. /\ c \in CallsOfHooks /\ c.state = "walk" /\ c.vector = call.vector
        /\ c.begin = call.begin /\ c.end = call.end /\ c.known = call.known
        /\ c.page = call.page /\ c.pos = call.pos + 1 /\ c.ran = Append(call.ran, handler)
        /\ c.cancel = (call.cancel \/ answer)
    <3> DEFINE r == Append(call.ran, handler)
               b == call.cancel \/ answer
               p == call.pos + 1
               d == [call EXCEPT !.pos = p, !.ran = r, !.cancel = b]
    <3>1. r \in Seq(AnyHandler) /\ b \in BOOLEAN /\ p \in Nat
      BY <1>2, <2>2
    <3>2. c = d
      OBVIOUS
    <3> HIDE DEF r, b, p, c
    <3>3. /\ d \in CallsOfHooks /\ d.state = call.state /\ d.vector = call.vector
          /\ d.begin = call.begin /\ d.end = call.end /\ d.known = call.known
          /\ d.page = call.page /\ d.pos = p /\ d.ran = r /\ d.cancel = b
      BY <1>1, <3>1 DEF CallsOfHooks
    <3> HIDE DEF d
    <3> QED
      BY <1>1, <3>2, <3>3 DEF r, b, p
  <2>4. call' = c
    BY <2>1
  <2> HIDE DEF c
  <2>5. Disturbed' <=> Disturbed
    BY <1>1, <2>3, <2>4 DEF Disturbed
  <2>6. ASSUME ~Disturbed PROVE Walked(c)
    <3>1. Walked(call)
      BY <1>5, <2>6
    <3>2. c.ran = For(c.vector, c.pos, c.page)
      BY <1>1, <1>4, <1>6, <2>3, <3>1 DEF Walked, Matches
    <3>3. c.cancel => Canceller(c)
      <4>1. Len(call.ran) \in Nat /\ Len(c.ran) = Len(call.ran) + 1
            /\ DOMAIN c.ran = 1..(Len(call.ran) + 1) /\ DOMAIN call.ran = 1..Len(call.ran)
            /\ c.ran[Len(call.ran) + 1] = handler
            /\ \A j \in 1..Len(call.ran) : c.ran[j] = call.ran[j]
        BY <1>2, <1>3, <2>3, AppendProperties, LenProperties
      <4>2. CASE call.cancel
        BY <2>3, <3>1, <4>1, <4>2 DEF Walked, Canceller
      <4>3. CASE answer
        <5>1. Len(call.ran) + 1 \in DOMAIN c.ran
          BY <4>1
        <5> QED
          BY <2>1, <2>3, <4>1, <4>3, <5>1 DEF Canceller
      <4> QED
        BY <2>3, <4>2, <4>3
    <3>4. c.begin = c.known /\ c.end = c.known /\ c.pos <= c.end
      BY <1>1, <1>2, <2>3, <3>1 DEF Walked
    <3> QED
      BY <2>3, <3>2, <3>3, <3>4 DEF Walked
  <2>7. CallOk'
    BY <1>1, <1>5, <2>3, <2>4, <2>5, <2>6 DEF CallOk
  <2> QED
    BY <1>1, <2>3, <2>4, <2>7, HookCallStep DEF DispatchInv, VectorsTyped
<1>7. CASE ~Matches(handler, call.page)
  <2> DEFINE c == [call EXCEPT !.pos = @ + 1]
  <2>1. call' = c
    BY <1>7 DEF Visit
  <2>2. /\ c \in CallsOfHooks /\ c.state = "walk" /\ c.vector = call.vector
        /\ c.begin = call.begin /\ c.end = call.end /\ c.known = call.known
        /\ c.page = call.page /\ c.pos = call.pos + 1 /\ c.ran = call.ran
        /\ c.cancel = call.cancel
    BY <1>1, <1>2 DEF CallsOfHooks
  <2> HIDE DEF c
  <2>3. Disturbed' <=> Disturbed
    BY <1>1, <2>1, <2>2 DEF Disturbed
  <2>4. ASSUME ~Disturbed PROVE Walked(c)
    <3>1. Walked(call)
      BY <1>5, <2>4
    <3>2. c.ran = For(c.vector, c.pos, c.page)
      BY <1>1, <1>4, <1>7, <2>2, <3>1 DEF Walked, Matches
    <3> QED
      BY <1>1, <1>2, <2>2, <3>1, <3>2 DEF Walked, Canceller
  <2>5. CallOk'
    BY <1>1, <1>5, <2>1, <2>2, <2>3, <2>4 DEF CallOk
  <2> QED
    BY <1>1, <2>1, <2>2, <2>5, HookCallStep DEF DispatchInv, VectorsTyped
<1> QED
  BY <1>6, <1>7

LEMMA CallRealStep == ASSUME DispatchInv, ~dispatchCrashed, CallReal PROVE DispatchInv'
<1> DEFINE c == [call EXCEPT !.state = "over", !.real = ~call.cancel]
<1>1. call \in CallsOfHooks /\ call.state = "walk" /\ call.pos = call.end
      /\ UNCHANGED <<registering, start, finish, grown, dispatchCrashed>> /\ call' = c
  BY DEF DispatchInv, VectorsTyped, CallReal
<1>2. /\ c \in CallsOfHooks /\ c.state = "over" /\ c.vector = call.vector
      /\ c.begin = call.begin /\ c.known = call.known /\ c.page = call.page
      /\ c.ran = call.ran /\ c.cancel = call.cancel /\ c.real = ~call.cancel
  BY <1>1 DEF CallsOfHooks
<1> HIDE DEF c
<1>3. Disturbed' <=> Disturbed
  BY <1>1, <1>2 DEF Disturbed
<1>4. call.known <= finish[call.vector] /\ (~Disturbed => Walked(call))
  BY DEF DispatchInv, CallOk
<1>5. ~Disturbed => Walked(c)
  BY <1>1, <1>2, <1>4 DEF Walked, Canceller
<1>6. CallOk'
  BY <1>1, <1>2, <1>3, <1>4, <1>5 DEF CallOk
<1> QED
  BY <1>1, <1>2, <1>6, HookCallStep DEF DispatchInv, VectorsTyped

\* Only a call that was disturbed goes astray.
LEMMA StrayStep == ASSUME DispatchInv, ~dispatchCrashed, Stray PROVE DispatchInv'
<1>1. call \in CallsOfHooks /\ call.state = "walk" /\ Astray
      /\ UNCHANGED <<registering, start, finish, grown>>
  BY DEF DispatchInv, VectorsTyped, Stray
<1>2. call.vector \in Vectors /\ call.known \in Nat
  BY <1>1 DEF CallsOfHooks
<1>3. /\ finish[call.vector] \in Nat /\ grown[call.vector] \in Nat
      /\ finish[call.vector] <= grown[call.vector] /\ call.known <= finish[call.vector]
  BY <1>2 DEF DispatchInv, VectorsTyped, PointersOk, CallOk
<1>4. Disturbed
  <2> SUFFICES ASSUME ~Disturbed PROVE FALSE
    OBVIOUS
  <2>1. Walked(call) /\ call.known = grown[call.vector]
    BY <1>2, <1>3 DEF DispatchInv, CallOk, Disturbed
  <2> QED
    BY <1>1, <2>1 DEF Walked, Astray
<1>5. CASE dispatchCrashed' = TRUE /\ UNCHANGED call
  BY <1>1, <1>3, <1>4, <1>5, HookCallStep DEF CallOk, Disturbed
<1>6. CASE call' = [call EXCEPT !.pos = call.end, !.state = "over", !.real = ~call.cancel]
           /\ UNCHANGED dispatchCrashed
  <2> DEFINE c == [call EXCEPT !.pos = call.end, !.state = "over", !.real = ~call.cancel]
  <2>1. c \in CallsOfHooks /\ c.vector = call.vector /\ c.known = call.known
    BY <1>1 DEF CallsOfHooks
  <2>2. call' = c
    BY <1>6
  <2> HIDE DEF c
  <2>3. Disturbed'
    BY <1>1, <1>4, <2>1, <2>2 DEF Disturbed
  <2>4. CallOk'
    BY <1>1, <1>3, <2>1, <2>2, <2>3 DEF CallOk
  <2> QED
    BY <1>1, <1>6, <2>1, <2>2, <2>4, HookCallStep DEF DispatchInv, VectorsTyped
<1> QED
  BY <1>5, <1>6 DEF Stray

LEMMA DispatchStep == DispatchInv /\ [DispatchNext]_dispatchVars => DispatchInv'
<1> SUFFICES ASSUME DispatchInv, [DispatchNext]_dispatchVars PROVE DispatchInv'
  OBVIOUS
<1>1. CASE DispatchNext
  BY <1>1, GrowStep, StoreStartStep, StoreFinishStep, CalledStep, ReadEndStep, VisitStep,
     CallRealStep, StrayStep DEF DispatchNext
<1>2. CASE UNCHANGED dispatchVars
  <2>1. UNCHANGED <<registering, start, finish, grown, call, dispatchCrashed>>
    BY <1>2 DEF dispatchVars
  <2>2. CallOk'
    BY <2>1 DEF DispatchInv, CallOk, Disturbed, Walked, Canceller
  <2> QED
    BY <2>1, <2>2, HookCallStep DEF DispatchInv, VectorsTyped
<1> QED
  BY <1>1, <1>2

\* Every call of a hooked function runs the handlers registered before it, in order and
\* once, unless MainThread registers another one meanwhile (global_patch.cpp:6, :19, :34).
THEOREM CallsRunTheirHandlers == DispatchSpec => []FollowingCallsUse
<1>1. DispatchInv => FollowingCallsUse
  BY DEF DispatchInv, VectorsTyped, CallsOfHooks, CallOk, Walked, Canceller, FollowingCallsUse
<1> QED
  BY <1>1, DispatchInitInv, DispatchStep, PTL DEF DispatchSpec

\* The registrations for a vector whose push_back has begun.
Begun == IF registering.store = "none" THEN registering.number - 1 ELSE registering.number
BegunFor(v) == {k \in RegisteredFor(v) : k <= Begun}

\* A vector has grown once for each of them.
GrownOk ==
  /\ registering.number <= Len(Registrations) + 1
  /\ \A v \in Vectors : grown[v] <= Cardinality(BegunFor(v))

InTwo(c) == c.begin <= 2 /\ c.end <= 2 /\ c.pos <= 2 /\ c.known <= 2

LEMMA AtMostTwo ==
  ASSUME NEW v \in Vectors, NEW T, T \subseteq RegisteredFor(v)
  PROVE  IsFiniteSet(T) /\ Cardinality(T) \in 0..2
<1>1. Registrations \in Seq([vector : Vectors, page : Pages \cup {Global}, cancels : SUBSET Pages])
      /\ Cardinality(RegisteredFor(v)) <= 2
  BY RegistrationsAssumption
<1>2. DOMAIN Registrations = 1..Len(Registrations) /\ Len(Registrations) \in Nat
  BY <1>1, LenProperties
<1>3. IsFiniteSet(DOMAIN Registrations)
  BY <1>2, FS_Interval
<1>4. RegisteredFor(v) \in SUBSET (DOMAIN Registrations)
  BY DEF RegisteredFor
<1>5. IsFiniteSet(RegisteredFor(v))
  BY <1>3, <1>4, FS_Subset
<1>6. IsFiniteSet(T) /\ Cardinality(T) <= Cardinality(RegisteredFor(v))
  BY <1>5, FS_Subset
<1>7. Cardinality(T) \in Nat /\ Cardinality(RegisteredFor(v)) \in Nat
  BY <1>5, <1>6, FS_CardinalityType
<1> QED
  BY <1>1, <1>6, <1>7

\* So no pointer leads behind the second buffer.
LEMMA PointersInTwo ==
  ASSUME DispatchInv, GrownOk, NEW v \in Vectors
  PROVE  start[v] \in 0..2 /\ finish[v] \in 0..2 /\ grown[v] \in 0..2
<1>1. Cardinality(BegunFor(v)) \in 0..2
  BY AtMostTwo DEF BegunFor
<1>2. start[v] \in Nat /\ finish[v] \in Nat /\ grown[v] \in Nat
  BY DEF DispatchInv, VectorsTyped
<1>3. start[v] <= grown[v] /\ finish[v] <= grown[v]
  BY <1>2 DEF DispatchInv, PointersOk
<1>4. grown[v] <= Cardinality(BegunFor(v))
  BY DEF GrownOk
<1> QED
  BY <1>1, <1>2, <1>3, <1>4

LEMMA GrownStep ==
  ASSUME DispatchInv, GrownOk, [DispatchNext]_dispatchVars
  PROVE  GrownOk'
<1> DEFINE r == registering.number
           N == Len(Registrations)
<1>1. /\ Registrations \in
           Seq([vector : Vectors, page : Pages \cup {Global}, cancels : SUBSET Pages])
      /\ r \in Nat \ {0} /\ r <= N + 1 /\ registering.store \in {"none", "start", "finish"}
      /\ registering = [number |-> r, store |-> registering.store]
  BY RegistrationsAssumption DEF DispatchInv, VectorsTyped, GrownOk
<1>2. N \in Nat /\ DOMAIN Registrations = 1..N
  BY <1>1, LenProperties
<1>3. CASE Grow
  <2>1. /\ registering.store = "none" /\ r <= N
        /\ registering' = [registering EXCEPT !.store = "start"]
        /\ grown' = [grown EXCEPT ![Growing] = @ + 1]
    BY <1>3 DEF Grow
  <2>2. registering'.number = r /\ registering'.store = "start"
    BY <1>1, <2>1
  <2>3. Begun = r - 1 /\ Begun' = r
    BY <2>1, <2>2 DEF Begun
  <2>4. r \in DOMAIN Registrations
    BY <1>1, <1>2, <2>1
  <2>5. ASSUME NEW v \in Vectors PROVE grown'[v] <= Cardinality(BegunFor(v)')
    <3>1. /\ IsFiniteSet(BegunFor(v)) /\ Cardinality(BegunFor(v)) \in Nat
          /\ grown[v] <= Cardinality(BegunFor(v)) /\ grown[v] \in Nat
      BY AtMostTwo DEF BegunFor, GrownOk, DispatchInv, VectorsTyped
    <3>2. BegunFor(v)' = {k \in RegisteredFor(v) : k <= r}
      BY <2>3 DEF BegunFor
    <3>3. RegisteredFor(v) \subseteq Nat
      BY <1>2 DEF RegisteredFor
    <3>4. BegunFor(v) = {k \in RegisteredFor(v) : k <= r - 1}
      BY <2>3 DEF BegunFor
    <3>5. CASE v = Growing
      <4>1. r \in RegisteredFor(v) /\ r \notin BegunFor(v)
        BY <1>1, <2>4, <3>4, <3>5 DEF RegisteredFor, Growing
      <4>2. BegunFor(v)' = BegunFor(v) \cup {r}
        BY <1>1, <3>2, <3>3, <3>4, <4>1
      <4>3. Cardinality(BegunFor(v)') = Cardinality(BegunFor(v)) + 1
        BY <3>1, <4>1, <4>2, FS_AddElement
      <4>4. grown'[v] = grown[v] + 1
        BY <2>1, <3>5 DEF DispatchInv, VectorsTyped
      <4> QED
        BY <3>1, <4>3, <4>4
    <3>6. CASE v # Growing
      <4>1. r \notin RegisteredFor(v)
        BY <3>6 DEF RegisteredFor, Growing
      <4>2. BegunFor(v)' = BegunFor(v)
        BY <1>1, <3>2, <3>3, <3>4, <4>1
      <4>3. grown'[v] = grown[v]
        BY <2>1, <3>6 DEF DispatchInv, VectorsTyped
      <4> QED
        BY <3>1, <4>2, <4>3
    <3> QED
      BY <3>5, <3>6
  <2> QED
    BY <1>1, <2>2, <2>5 DEF GrownOk
<1>4. CASE StoreStart
  <2>1. /\ registering.store = "start" /\ grown' = grown
        /\ registering' = [registering EXCEPT !.store = "finish"]
    BY <1>4 DEF StoreStart
  <2>2. registering'.number = r /\ registering'.store = "finish"
    BY <1>1, <2>1
  <2>3. Begun' = Begun
    BY <2>1, <2>2 DEF Begun
  <2> QED
    BY <2>1, <2>2, <2>3 DEF GrownOk, BegunFor
<1>5. CASE StoreFinish
  <2>1. /\ registering.store = "finish" /\ grown' = grown
        /\ registering' = [number |-> registering.number + 1, store |-> "none"]
    BY <1>5 DEF StoreFinish
  <2>2. r <= N
    BY <2>1 DEF DispatchInv, VectorsTyped
  <2>3. Begun' = Begun
    BY <1>1, <2>1 DEF Begun
  <2> QED
    BY <1>1, <1>2, <2>1, <2>2, <2>3 DEF GrownOk, BegunFor
<1>6. CASE UNCHANGED <<registering, grown>>
  BY <1>6 DEF GrownOk, BegunFor, Begun
<1>7. Grow \/ StoreStart \/ StoreFinish \/ UNCHANGED <<registering, grown>>
  <2>1. CASE DispatchNext
    BY <2>1 DEF DispatchNext, Called, ReadEnd, Visit, CallReal, Stray
  <2>2. CASE UNCHANGED dispatchVars
    BY <2>2 DEF dispatchVars
  <2> QED
    BY <2>1, <2>2
<1> QED
  BY <1>3, <1>4, <1>5, <1>6, <1>7

LEMMA InTwoStep ==
  ASSUME DispatchInv, GrownOk, InTwo(call), [DispatchNext]_dispatchVars
  PROVE  InTwo(call)'
<1>1. call \in CallsOfHooks
  BY DEF DispatchInv, VectorsTyped
<1>2. call.begin \in Nat /\ call.end \in Nat /\ call.pos \in Nat /\ call.vector \in Vectors
  BY <1>1 DEF CallsOfHooks
<1>3. CASE \E v \in Vectors, page \in Pages : Called(v, page)
  <2>1. PICK v \in Vectors, page \in Pages : Called(v, page)
    BY <1>3
  <2>2. start[v] \in 0..2 /\ finish[v] \in 0..2
    BY PointersInTwo
  <2>3. call' = [NoCallYet EXCEPT !.state = "begin", !.vector = v, !.page = page,
                                  !.begin = start[v], !.known = finish[v]]
    BY <2>1 DEF Called
  <2>4. call'.begin = start[v] /\ call'.known = finish[v] /\ call'.end = 0 /\ call'.pos = 0
    BY <2>3 DEF NoCallYet
  <2> QED
    BY <2>2, <2>4 DEF InTwo
<1>4. CASE ReadEnd
  <2>1. finish[call.vector] \in 0..2
    BY <1>2, PointersInTwo
  <2>2. call' = [call EXCEPT !.state = "walk", !.end = finish[call.vector]]
    BY <1>4 DEF ReadEnd
  <2>3. /\ call'.end = finish[call.vector] /\ call'.begin = call.begin
        /\ call'.pos = call.pos /\ call'.known = call.known
    BY <1>1, <2>2 DEF CallsOfHooks
  <2> QED
    BY <2>1, <2>3 DEF InTwo
<1>5. CASE Visit
  <2>1. call.pos < call.end
    BY <1>5 DEF Visit
  <2> DEFINE handler == Handlers(call.vector)[call.pos + 1]
             visited(answer) == [call EXCEPT !.pos = @ + 1, !.ran = Append(@, handler),
                                             !.cancel = @ \/ answer]
             passed == [call EXCEPT !.pos = @ + 1]
             OnlyMoved(c) == /\ c.pos = call.pos + 1 /\ c.begin = call.begin
                             /\ c.end = call.end /\ c.known = call.known
  <2>2. call' = passed \/ \E answer \in BOOLEAN : call' = visited(answer)
    BY <1>5 DEF Visit
  <2>3. OnlyMoved(passed) /\ \A answer \in BOOLEAN : OnlyMoved(visited(answer))
    BY <1>1 DEF CallsOfHooks
  <2>4. OnlyMoved(call')
    <3> HIDE DEF visited, passed, OnlyMoved
    <3> QED BY <2>2, <2>3
  <2>5. call'.pos <= 2
    BY <1>2, <2>1, <2>4 DEF InTwo
  <2> QED
    BY <2>4, <2>5 DEF InTwo
<1>6. CASE CallReal
  <2>1. /\ call'.pos = call.pos /\ call'.begin = call.begin
        /\ call'.end = call.end /\ call'.known = call.known
    BY <1>1, <1>6 DEF CallReal, CallsOfHooks
  <2> QED
    BY <2>1 DEF InTwo
<1>7. CASE Stray
  <2>1. /\ call'.pos \in {call.pos, call.end} /\ call'.begin = call.begin
        /\ call'.end = call.end /\ call'.known = call.known
    BY <1>1, <1>7 DEF Stray, CallsOfHooks
  <2> QED
    BY <2>1 DEF InTwo
<1>8. CASE UNCHANGED call
  BY <1>8 DEF InTwo
<1> QED
  BY <1>3, <1>4, <1>5, <1>6, <1>7, <1>8
     DEF DispatchNext, dispatchVars, Grow, StoreStart, StoreFinish

\* The vectors keep to the two buffers that the source's registrations fill, and so does
\* whoever walks them, also while MainThread appends (global_patch.cpp:6, :19, :34).
THEOREM DispatchTyped == DispatchSpec => []DispatchTypeOK
<1>1. DispatchInit => GrownOk /\ InTwo(call)
  <2> SUFFICES ASSUME DispatchInit PROVE GrownOk /\ InTwo(call)
    OBVIOUS
  <2>1. \A v \in Vectors : Cardinality(BegunFor(v)) \in 0..2
    BY AtMostTwo DEF BegunFor
  <2>2. registering.number = 1 /\ \A v \in Vectors : grown[v] = 0
    BY DEF DispatchInit
  <2>3. Len(Registrations) \in Nat
    BY RegistrationsAssumption, LenProperties
  <2> QED
    BY <2>1, <2>2, <2>3 DEF GrownOk, InTwo, DispatchInit, NoCallYet
<1>2. DispatchInv /\ GrownOk /\ InTwo(call) /\ [DispatchNext]_dispatchVars
        => GrownOk' /\ InTwo(call)'
  BY GrownStep, InTwoStep
<1>3. DispatchInv /\ GrownOk /\ InTwo(call) => DispatchTypeOK
  <2> SUFFICES ASSUME DispatchInv, GrownOk, InTwo(call) PROVE DispatchTypeOK
    OBVIOUS
  <2>1. registering \in [number : 1..(Len(Registrations) + 1), store : {"none", "start", "finish"}]
    <3>1. registering \in [number : Nat \ {0}, store : {"none", "start", "finish"}]
          /\ registering.number <= Len(Registrations) + 1
      BY DEF DispatchInv, VectorsTyped, GrownOk
    <3>2. Len(Registrations) \in Nat
      BY RegistrationsAssumption, LenProperties
    <3>3. registering.number \in 1..(Len(Registrations) + 1)
      BY <3>1, <3>2
    <3> QED
      BY <3>1, <3>3
  <2>2. start \in [Vectors -> 0..2] /\ finish \in [Vectors -> 0..2] /\ grown \in [Vectors -> 0..2]
    BY PointersInTwo DEF DispatchInv, VectorsTyped
  <2>3. call \in CallsOfHooks /\ dispatchCrashed \in BOOLEAN
    BY DEF DispatchInv, VectorsTyped
  <2>4. call.begin \in 0..2 /\ call.end \in 0..2 /\ call.pos \in 0..2 /\ call.known \in 0..2
    BY <2>3 DEF InTwo, CallsOfHooks
  <2> QED
    BY <2>1, <2>2, <2>3, <2>4 DEF DispatchTypeOK, CallsOfHooks
<1> QED
  BY <1>1, <1>2, <1>3, DispatchInitInv, DispatchStep, PTL DEF DispatchSpec

-----------------------------------------------------------------------------
(* The debug log. *)

\* Who is between the two calls of the mutex has it, once; who crashed in between may
\* have it once more.
MutexOk ==
  /\ mutex.owner = NoOne <=> mutex.locks = 0
  /\ \A l \in Loggers :
       /\ printing[l].logAt \in {"send", "leave"} => mutex.owner = l
       /\ printing[l].logAt = "enter" => printing[l].txt = 0
       /\ l \notin crashes => /\ printing[l].logAt \in {"out", "enter", "send", "leave"}
                              /\ texts[l] <= MaxTexts
       /\ mutex.owner = l =>
            IF l \notin crashes THEN printing[l].logAt \in {"send", "leave"} /\ mutex.locks = 1
            ELSE printing[l].logAt # "out" /\ (printing[l].logAt = "enter" => mutex.locks = 1)

\* Who has sent some of its text has sent the last block.
LastBlockOwn ==
  \A l \in Loggers : printing[l].logAt = "send" /\ printing[l].txt # 0 =>
    /\ blocks # <<>>
    /\ blocks[Len(blocks)].logger = l /\ blocks[Len(blocks)].text = texts[l]
    /\ blocks[Len(blocks)].to = printing[l].txt

LogInv == LogTypeOK /\ Len(blocks) <= 2 /\ MutexOk /\ LastBlockOwn /\ TextsWhole

LEMMA LogInitInv == LogInit => LogInv
<1> SUFFICES ASSUME LogInit PROVE LogInv
  OBVIOUS
<1> USE LogAssumption DEF LogInit, NotPrinting
<1>1. LogTypeOK /\ Len(blocks) <= 2
  <2>1. blocks \in Seq([logger : Loggers, text : Nat, from : Nat, to : Nat]) /\ Len(blocks) = 0
    BY EmptySeq
  <2>2. /\ printing \in [Loggers -> [logAt : {"out", "enter", "send", "leave", "reported", "closed"},
                                     len : Nat, txt : Nat]]
        /\ texts \in [Loggers -> 0..(MaxTexts + 1)]
    OBVIOUS
  <2>3. mutex \in [owner : Loggers \cup {NoOne}, locks : 0..2]
    OBVIOUS
  <2>4. crashes \subseteq Loggers /\ socket \in BOOLEAN /\ fatal \in BOOLEAN
    OBVIOUS
  <2>5. LogTypeOK
    BY ONLY <2>1, <2>2, <2>3, <2>4 DEF LogTypeOK
  <2> QED
    BY <2>1, <2>5
<1>2. MutexOk
  BY DEF MutexOk
<1>3. LastBlockOwn /\ TextsWhole
  BY DEF LastBlockOwn, TextsWhole
<1> QED
  BY <1>1, <1>2, <1>3 DEF LogInv

\* A text is begun: nobody has the mutex in that place, and nothing is sent.
LEMMA BeginStep ==
  ASSUME LogInv, NEW l \in Loggers, NEW len \in Lengths,
         PrintLog(l, len) \/ ExceptionHandler(l, len)
  PROVE  LogInv'
<1>1. /\ texts' = [texts EXCEPT ![l] = @ + 1]
      /\ printing' = [printing EXCEPT ![l] = [logAt |-> "enter", len |-> len, txt |-> 0]]
      /\ UNCHANGED <<mutex, blocks, socket, fatal>>
  BY DEF PrintLog, ExceptionHandler, Begin
<1>2. LogTypeOK /\ MutexOk /\ LastBlockOwn /\ TextsWhole /\ Len(blocks) <= 2
  BY DEF LogInv
<1>3. /\ texts \in [Loggers -> 0..(MaxTexts + 1)]
      /\ printing \in [Loggers -> [logAt : {"out", "enter", "send", "leave", "reported", "closed"},
                                   len : Nat, txt : Nat]]
  BY <1>2 DEF LogTypeOK
<1>4. /\ printing'[l] = [logAt |-> "enter", len |-> len, txt |-> 0]
      /\ \A m \in Loggers : m # l => printing'[m] = printing[m] /\ texts'[m] = texts[m]
      /\ texts'[l] = texts[l] + 1
  BY <1>1, <1>3
<1>5. /\ l \notin crashes \/ crashes' = crashes
      /\ texts[l] <= MaxTexts
      /\ crashes' \subseteq Loggers
      /\ l \in crashes' \/ texts[l] < MaxTexts
      /\ \A m \in Loggers : m # l => (m \in crashes' <=> m \in crashes)
  <2>1. CASE PrintLog(l, len)
    BY <2>1, <1>2, <1>3, LogAssumption DEF PrintLog, LogTypeOK
  <2>2. CASE ExceptionHandler(l, len)
    BY <2>2, <1>2, <1>3, LogAssumption DEF ExceptionHandler, LogTypeOK, MutexOk
  <2> QED
    BY <2>1, <2>2
<1>6. LogTypeOK'
  <2>1. texts' \in [Loggers -> 0..(MaxTexts + 1)]
    BY <1>1, <1>3, <1>5, LogAssumption
  <2>2. printing' \in [Loggers -> [logAt : {"out", "enter", "send", "leave", "reported", "closed"},
                                   len : Nat, txt : Nat]]
    BY <1>1, <1>3, LogAssumption
  <2> QED
    BY <2>1, <2>2, <1>1, <1>2, <1>5 DEF LogTypeOK
<1>7. MutexOk'
  <2>1. mutex.owner = l => mutex.locks = 1 /\ l \in crashes'
    <3>1. CASE PrintLog(l, len)
      BY <3>1, <1>2 DEF PrintLog, MutexOk
    <3>2. CASE ExceptionHandler(l, len)
      BY <3>2, <1>2 DEF ExceptionHandler, MutexOk
    <3> QED
      BY <3>1, <3>2
  <2>2. texts'[l] <= MaxTexts \/ l \in crashes'
    BY <1>4, <1>5, <1>3, LogAssumption
  <2>3. /\ printing'[l].logAt = "enter" /\ printing'[l].txt = 0
    BY <1>4
  <2> QED
    BY <2>1, <2>2, <2>3, <1>1, <1>2, <1>4, <1>5 DEF MutexOk
<1>8. LastBlockOwn'
  <2>1. printing'[l].logAt = "enter"
    BY <1>4
  <2> QED
    BY <2>1, <1>1, <1>2, <1>4 DEF LastBlockOwn
<1>9. TextsWhole' /\ (Len(blocks) <= 2)'
  BY <1>1, <1>2 DEF TextsWhole
<1> QED
  BY <1>6, <1>7, <1>8, <1>9 DEF LogInv

LEMMA EnterStep ==
  ASSUME LogInv, NEW l \in Loggers, EnterCriticalSection(l)
  PROVE  LogInv'
<1>1. /\ printing[l].logAt = "enter" /\ mutex.owner \in {NoOne, l}
      /\ mutex' = [owner |-> l, locks |-> mutex.locks + 1]
      /\ printing' = [printing EXCEPT ![l].logAt = "send"]
      /\ UNCHANGED <<texts, blocks, crashes, socket, fatal>>
  BY DEF EnterCriticalSection, Goes
<1>2. LogTypeOK /\ MutexOk /\ LastBlockOwn /\ TextsWhole /\ Len(blocks) <= 2
  BY DEF LogInv
<1>3. /\ printing \in [Loggers -> [logAt : {"out", "enter", "send", "leave", "reported", "closed"},
                                   len : Nat, txt : Nat]]
      /\ mutex \in [owner : Loggers \cup {NoOne}, locks : 0..2]
  BY <1>2 DEF LogTypeOK
<1>4. /\ printing'[l].logAt = "send" /\ printing'[l].txt = printing[l].txt
      /\ \A m \in Loggers : m # l => printing'[m] = printing[m]
      /\ printing' \in [Loggers -> [logAt : {"out", "enter", "send", "leave", "reported", "closed"},
                                    len : Nat, txt : Nat]]
  BY <1>1, <1>3
<1>5. /\ mutex.owner = l => l \in crashes /\ mutex.locks = 1
      /\ mutex.owner = NoOne => mutex.locks = 0
      /\ printing[l].txt = 0
  BY <1>1, <1>2 DEF MutexOk
<1>6. LogTypeOK'
  BY <1>1, <1>2, <1>3, <1>4, <1>5 DEF LogTypeOK
<1>7. MutexOk'
  <2>1. \A m \in Loggers : m # l => printing[m].logAt \notin {"send", "leave"}
    BY <1>1, <1>2, LogAssumption DEF MutexOk
  <2>2. l # NoOne /\ mutex'.owner = l /\ mutex'.locks \in 1..2
    BY <1>1, <1>5, LogAssumption
  <2>3. l \notin crashes => mutex'.locks = 1
    BY <1>1, <1>5
  <2> QED
    BY <2>1, <2>2, <2>3, <1>1, <1>2, <1>4 DEF MutexOk
<1>8. LastBlockOwn'
  BY <1>1, <1>2, <1>4, <1>5 DEF LastBlockOwn
<1>9. TextsWhole' /\ (Len(blocks) <= 2)'
  BY <1>1, <1>2 DEF TextsWhole
<1> QED
  BY <1>6, <1>7, <1>8, <1>9 DEF LogInv

\* What LastTwo leaves of at most two blocks and a new one.
LEMMA LastTwoAppend ==
  ASSUME NEW S, NEW s \in Seq(S), Len(s) <= 2, NEW b \in S
  PROVE  /\ LastTwo(Append(s, b)) \in Seq(S)
         /\ s = <<>> => Len(LastTwo(Append(s, b))) = 1 /\ LastTwo(Append(s, b))[1] = b
         /\ s # <<>> => /\ Len(LastTwo(Append(s, b))) = 2
                        /\ LastTwo(Append(s, b))[1] = s[Len(s)]
                        /\ LastTwo(Append(s, b))[2] = b
<1> DEFINE q == Append(s, b)
           Kept(t) == /\ t \in Seq(S)
                      /\ s = <<>> => Len(t) = 1 /\ t[1] = b
                      /\ s # <<>> => Len(t) = 2 /\ t[1] = s[Len(s)] /\ t[2] = b
           m == IF Len(q) > 2 THEN Len(q) - 1 ELSE 1
<1>1. /\ q \in Seq(S) /\ Len(q) = Len(s) + 1
      /\ \A n \in 1..Len(s) : q[n] = s[n]
      /\ q[Len(s) + 1] = b
  BY AppendProperties
<1>2. LastTwo(q) = SubSeq(q, m, Len(q))
  BY DEF LastTwo
<1> HIDE DEF q
<1>3. Len(s) \in 0..2 /\ (Len(s) = 0 <=> s = <<>>)
  <2>1. Len(s) \in Nat
    BY LenProperties
  <2>2. Len(s) = 0 => s = <<>>
    BY EmptySeq, SeqEqual
  <2>3. s = <<>> => Len(s) = 0
    BY EmptySeq
  <2> DEFINE n == Len(s)
  <2>4. n \in Nat /\ n <= 2
    BY <2>1
  <2> HIDE DEF n
  <2>5. n \in 0..2
    BY <2>4
  <2> QED
    BY <2>2, <2>3, <2>5 DEF n
<1>4. m \in 1..2 /\ m <= Len(q) /\ Len(q) \in 1..3
  BY <1>1, <1>3
<1>5. m = IF Len(s) = 2 THEN 2 ELSE 1
  BY <1>1, <1>3
<1> HIDE DEF m
<1>6. \A n \in m..Len(q) : q[n] \in S
  BY <1>1, <1>4, ElementOfSeq
<1>7. /\ SubSeq(q, m, Len(q)) \in Seq(S)
      /\ Len(SubSeq(q, m, Len(q))) = IF m <= Len(q) THEN Len(q) - m + 1 ELSE 0
      /\ \A n \in 1..(Len(q) - m + 1) : SubSeq(q, m, Len(q))[n] = q[m + n - 1]
  BY <1>4, <1>6, SubSeqProperties
<1> DEFINE r == LastTwo(q)
<1>8. /\ r \in Seq(S) /\ Len(r) = Len(q) - m + 1
      /\ \A n \in 1..(Len(q) - m + 1) : r[n] = q[m + n - 1]
  BY <1>2, <1>4, <1>7
<1> HIDE DEF r, Kept
<1>9. ASSUME Len(s) = 0 PROVE Kept(r)
  <2>1. Len(q) = 1 /\ m = 1 /\ Len(q) - m + 1 = 1
    BY <1>1, <1>5, <1>9
  <2>2. Len(r) = 1 /\ r[1] = q[1] /\ q[1] = b
    BY <1>1, <1>8, <1>9, <2>1
  <2> QED
    BY <1>3, <1>8, <1>9, <2>2 DEF Kept
<1>10. ASSUME Len(s) = 1 PROVE Kept(r)
  <2>1. Len(q) = 2 /\ m = 1 /\ Len(q) - m + 1 = 2
    BY <1>1, <1>5, <1>10
  <2>2. Len(r) = 2 /\ r[1] = q[1] /\ r[2] = q[2] /\ q[1] = s[1] /\ q[2] = b
    BY <1>1, <1>8, <1>10, <2>1
  <2> QED
    BY <1>3, <1>8, <1>10, <2>2 DEF Kept
<1>11. ASSUME Len(s) = 2 PROVE Kept(r)
  <2>1. Len(q) = 3 /\ m = 2 /\ Len(q) - m + 1 = 2
    BY <1>1, <1>5, <1>11
  <2>2. Len(r) = 2 /\ r[1] = q[2] /\ r[2] = q[3] /\ q[2] = s[2] /\ q[3] = b
    BY <1>1, <1>8, <1>11, <2>1
  <2> QED
    <3>1. s # <<>> /\ s[Len(s)] = s[2]
      BY <1>3, <1>11
    <3>2. r \in Seq(S) /\ Len(r) = 2 /\ r[1] = s[2] /\ r[2] = b
      BY <1>8, <2>2
    <3> QED
      BY ONLY <3>1, <3>2 DEF Kept
<1>12. Kept(r)
  BY <1>3, <1>9, <1>10, <1>11
<1> QED
  BY <1>12 DEF r, q, Kept

LEMMA SendStep ==
  ASSUME LogInv, NEW l \in Loggers, SendTo(l)
  PROVE  LogInv'
<1>1. PICK ret \in 1..Block(l) :
        /\ blocks' = LastTwo(Append(blocks, [logger |-> l, text |-> texts[l],
                                             from |-> printing[l].txt, to |-> printing[l].txt + ret]))
        /\ printing' = [printing EXCEPT ![l].len = @ - ret, ![l].txt = @ + ret]
  BY DEF SendTo
<1>2. LogTypeOK /\ MutexOk /\ LastBlockOwn /\ TextsWhole /\ Len(blocks) <= 2
  BY DEF LogInv
<1>3. /\ printing \in [Loggers -> [logAt : {"out", "enter", "send", "leave", "reported", "closed"},
                                   len : Nat, txt : Nat]]
      /\ texts \in [Loggers -> 0..(MaxTexts + 1)]
      /\ blocks \in Seq([logger : Loggers, text : Nat, from : Nat, to : Nat])
  BY <1>2 DEF LogTypeOK
<1>4. ret \in Nat /\ ret > 0 /\ ret <= printing[l].len
  BY <1>1, <1>3, LogAssumption DEF Block
<1> DEFINE b == [logger |-> l, text |-> texts[l],
                 from |-> printing[l].txt, to |-> printing[l].txt + ret]
<1>5. b \in [logger : Loggers, text : Nat, from : Nat, to : Nat]
  BY <1>3, <1>4, LogAssumption
<1>6. /\ printing'[l].logAt = "send" /\ printing'[l].txt = printing[l].txt + ret
      /\ \A m \in Loggers : m # l => printing'[m] = printing[m]
      /\ printing' \in [Loggers -> [logAt : {"out", "enter", "send", "leave", "reported", "closed"},
                                    len : Nat, txt : Nat]]
  <2> DEFINE p == printing[l]
             len == p.len - ret
             txt == p.txt + ret
             here == [p EXCEPT !.len = len, !.txt = txt]
  <2>1. /\ p \in [logAt : {"out", "enter", "send", "leave", "reported", "closed"},
                  len : Nat, txt : Nat]
        /\ p.logAt = "send"
    BY <1>3 DEF SendTo
  <2>2. len \in Nat /\ txt \in Nat
    BY <1>4, <2>1
  <2>3. printing' = [printing EXCEPT ![l] = here]
    BY <1>1
  <2> HIDE DEF p, len, txt
  <2>4. /\ here \in [logAt : {"out", "enter", "send", "leave", "reported", "closed"},
                     len : Nat, txt : Nat]
        /\ here.logAt = "send" /\ here.txt = txt
    BY <2>1, <2>2
  <2> HIDE DEF here
  <2> QED
    BY <1>3, <2>3, <2>4 DEF p, txt
<1>7. /\ blocks' \in Seq([logger : Loggers, text : Nat, from : Nat, to : Nat])
      /\ blocks = <<>> => Len(blocks') = 1 /\ blocks'[1] = b
      /\ blocks # <<>> => /\ Len(blocks') = 2
                          /\ blocks'[1] = blocks[Len(blocks)]
                          /\ blocks'[2] = b
  <2> DEFINE S == [logger : Loggers, text : Nat, from : Nat, to : Nat]
  <2>1. blocks \in Seq(S) /\ b \in S /\ Len(blocks) <= 2 /\ blocks' = LastTwo(Append(blocks, b))
    BY <1>1, <1>2, <1>3, <1>5
  <2> HIDE DEF S, b
  <2>2. /\ blocks' \in Seq(S)
        /\ blocks = <<>> => Len(blocks') = 1 /\ blocks'[1] = b
        /\ blocks # <<>> => /\ Len(blocks') = 2
                            /\ blocks'[1] = blocks[Len(blocks)]
                            /\ blocks'[2] = b
    BY <2>1, LastTwoAppend
  <2> QED
    BY <2>2 DEF S
<1>8. printing[l].txt # 0 =>
        /\ blocks # <<>>
        /\ blocks[Len(blocks)].logger = l /\ blocks[Len(blocks)].text = texts[l]
        /\ blocks[Len(blocks)].to = printing[l].txt
  BY <1>2 DEF SendTo, LastBlockOwn
<1>9. /\ blocks' # <<>> /\ Len(blocks') <= 2 /\ blocks'[Len(blocks')] = b
      /\ printing[l].txt # 0 => Len(blocks') = 2 /\ blocks'[1] = blocks[Len(blocks)]
  <2> HIDE DEF b
  <2>1. blocks' # <<>>
    BY <1>7
  <2>2. Len(blocks') <= 2 /\ blocks'[Len(blocks')] = b
    <3>1. \/ Len(blocks') = 1 /\ blocks'[1] = b
          \/ Len(blocks') = 2 /\ blocks'[2] = b
      BY <1>7, Zenon
    <3> QED
      BY ONLY <3>1
  <2>3. printing[l].txt # 0 => Len(blocks') = 2 /\ blocks'[1] = blocks[Len(blocks)]
    BY <1>7, <1>8
  <2> QED
    BY <2>1, <2>2, <2>3
<1>10. UNCHANGED <<mutex, texts, crashes, socket, fatal>>
  BY DEF SendTo
<1>11. LogTypeOK'
  BY <1>2, <1>6, <1>7, <1>10 DEF LogTypeOK
<1>12. MutexOk'
  <2>1. printing[l].logAt = "send"
    BY DEF SendTo
  <2> QED
    BY <2>1, <1>2, <1>6, <1>10 DEF MutexOk
<1>13. LastBlockOwn'
  <2>1. \A m \in Loggers : m # l => printing'[m].logAt # "send"
    BY <1>2, <1>6 DEF SendTo, MutexOk
  <2>2. b.logger = l /\ b.text = texts'[l] /\ b.to = printing'[l].txt
    BY <1>6, <1>10
  <2> HIDE DEF b
  <2> QED
    BY <2>1, <2>2, <1>9 DEF LastBlockOwn
<1>14. TextsWhole'
  <2>1. b.from = printing[l].txt
    OBVIOUS
  <2>2. ASSUME printing[l].txt # 0
        PROVE  blocks'[1] = [b EXCEPT !.from = blocks'[1].from, !.to = b.from]
    <3> DEFINE e == blocks[Len(blocks)]
    <3>1. Len(blocks) \in 1..Len(blocks)
      BY <2>2, <1>3, <1>8
    <3>2. e \in [logger : Loggers, text : Nat, from : Nat, to : Nat]
      BY <3>1, <1>3, ElementOfSeq
    <3>3. blocks'[1] = e /\ e.logger = b.logger /\ e.text = b.text /\ e.to = b.from
      BY <2>2, <1>8, <1>9
    <3> HIDE DEF e, b
    <3>4. e = [b EXCEPT !.from = e.from, !.to = b.from]
      BY <3>2, <3>3, <1>5
    <3> QED
      BY <3>3, <3>4
  <2> HIDE DEF b
  <2> QED
    BY <2>1, <2>2, <1>9 DEF TextsWhole
<1> QED
  BY <1>9, <1>11, <1>12, <1>13, <1>14 DEF LogInv

LEMMA SentStep ==
  ASSUME LogInv, NEW l \in Loggers, Sent(l) \/ CloseSocket(l) \/ Fatal(l)
  PROVE  LogInv'
<1>1. LogTypeOK /\ MutexOk /\ LastBlockOwn /\ TextsWhole /\ Len(blocks) <= 2
  BY DEF LogInv
<1>2. /\ printing \in [Loggers -> [logAt : {"out", "enter", "send", "leave", "reported", "closed"},
                                   len : Nat, txt : Nat]]
  BY <1>1 DEF LogTypeOK
<1>3. UNCHANGED <<mutex, texts, blocks, crashes>>
  BY DEF Sent, CloseSocket, Fatal
<1>4. /\ \A m \in Loggers : m # l => printing'[m] = printing[m]
      /\ printing' \in [Loggers -> [logAt : {"out", "enter", "send", "leave", "reported", "closed"},
                                    len : Nat, txt : Nat]]
      /\ \/ printing[l].logAt = "send" /\ printing'[l].logAt = "leave"
         \/ printing[l].logAt = "reported" /\ printing'[l].logAt = "closed"
         \/ printing' = printing
  BY <1>2 DEF Sent, CloseSocket, Fatal, Goes
<1>5. LogTypeOK'
  BY <1>1, <1>3, <1>4 DEF LogTypeOK, Sent, CloseSocket, Fatal
<1>6. MutexOk'
  BY <1>1, <1>3, <1>4 DEF MutexOk
<1>7. LastBlockOwn'
  BY <1>1, <1>3, <1>4 DEF LastBlockOwn
<1>8. TextsWhole' /\ (Len(blocks) <= 2)'
  BY <1>1, <1>3 DEF TextsWhole
<1> QED
  BY <1>5, <1>6, <1>7, <1>8 DEF LogInv

LEMMA LeaveStep ==
  ASSUME LogInv, NEW l \in Loggers, LeaveCriticalSection(l)
  PROVE  LogInv'
<1>1. LogTypeOK /\ MutexOk /\ LastBlockOwn /\ TextsWhole /\ Len(blocks) <= 2
  BY DEF LogInv
<1>2. /\ printing \in [Loggers -> [logAt : {"out", "enter", "send", "leave", "reported", "closed"},
                                   len : Nat, txt : Nat]]
      /\ mutex \in [owner : Loggers \cup {NoOne}, locks : 0..2]
  BY <1>1 DEF LogTypeOK
<1>3. /\ UNCHANGED <<texts, blocks, crashes, socket, fatal>>
      /\ printing[l].logAt = "leave"
      /\ mutex' = IF mutex.locks > 1 THEN [mutex EXCEPT !.locks = @ - 1]
                  ELSE [owner |-> NoOne, locks |-> 0]
  BY DEF LeaveCriticalSection
<1>4. /\ \A m \in Loggers : m # l => printing'[m] = printing[m]
      /\ printing' \in [Loggers -> [logAt : {"out", "enter", "send", "leave", "reported", "closed"},
                                    len : Nat, txt : Nat]]
      /\ l \in crashes => printing'[l].logAt = "reported"
      /\ l \notin crashes => printing'[l].logAt = "out"
  BY <1>2 DEF LeaveCriticalSection, Goes, NotPrinting
<1>5. mutex.owner = l /\ l # NoOne /\ (l \notin crashes => mutex.locks = 1)
  BY <1>1, <1>3, LogAssumption DEF MutexOk
<1>6. \/ l \in crashes /\ mutex'.owner = l /\ mutex'.locks = 1
      \/ mutex'.owner = NoOne /\ mutex'.locks = 0
  BY <1>2, <1>3, <1>5
<1>7. LogTypeOK'
  <2>1. mutex' \in [owner : Loggers \cup {NoOne}, locks : 0..2]
    BY <1>2, <1>3
  <2> QED
    BY <2>1, <1>1, <1>3, <1>4 DEF LogTypeOK
<1>8. MutexOk'
  <2>1. \A m \in Loggers : m # l => printing'[m].logAt \notin {"send", "leave"}
    BY <1>1, <1>4, <1>5 DEF MutexOk
  <2>2. l \notin crashes => texts[l] <= MaxTexts
    BY <1>1 DEF MutexOk
  <2>3. \A m \in Loggers : m # l =>
          /\ m \notin crashes => /\ printing[m].logAt \in {"out", "enter", "send", "leave"}
                                 /\ texts[m] <= MaxTexts
          /\ printing[m].logAt = "enter" => printing[m].txt = 0
    BY <1>1 DEF MutexOk
  <2> QED
    BY <2>1, <2>2, <2>3, <1>3, <1>4, <1>5, <1>6, LogAssumption DEF MutexOk
<1>9. LastBlockOwn'
  BY <1>1, <1>3, <1>4 DEF LastBlockOwn
<1>10. TextsWhole' /\ (Len(blocks) <= 2)'
  BY <1>1, <1>3 DEF TextsWhole
<1> QED
  BY <1>7, <1>8, <1>9, <1>10 DEF LogInv

LEMMA LogStep == LogInv /\ [LogNext]_logVars => LogInv'
<1> SUFFICES ASSUME LogInv, [LogNext]_logVars PROVE LogInv'
  OBVIOUS
<1>1. CASE UNCHANGED logVars
  BY <1>1 DEF logVars, LogInv, LogTypeOK, MutexOk, LastBlockOwn, TextsWhole
<1>2. CASE LogNext
  <2>1. PICK l \in Loggers : (\E len \in Lengths : PrintLog(l, len) \/ ExceptionHandler(l, len))
                             \/ Logging(l)
    BY <1>2 DEF LogNext
  <2> QED
    BY <2>1, BeginStep, EnterStep, SendStep, SentStep, LeaveStep DEF Logging
<1> QED
  BY <1>1, <1>2

\* For any threads and texts, the mutex, the socket and the blocks keep their types
\* (debug.cpp:50, :105-120).
THEOREM LogTyped == LogSpec => []LogTypeOK
<1>1. LogInv => LogTypeOK
  BY DEF LogInv
<1> QED
  BY <1>1, LogInitInv, LogStep, PTL DEF LogSpec

\* However many threads log texts of any length, and however sendto splits them, the
\* blocks of a text are not separated by another's (debug.cpp:105-120, :50).
THEOREM BlocksOfATextAreOneRun == LogSpec => []TextsWhole
<1>1. LogInv => TextsWhole
  BY DEF LogInv
<1> QED
  BY <1>1, LogInitInv, LogStep, PTL DEF LogSpec

\* The steps a thread has left in PrintLog and, if it crashed, in ExceptionHandler.
LogLeft(l) ==
  LET at == printing[l].logAt
  IN CASE at = "enter" -> 5 + printing[l].len [] at = "send" -> 4 + printing[l].len
       [] at = "leave" -> 3 [] at = "reported" -> 2 [] at = "closed" -> 1 [] OTHER -> 0

\* Who crashed is not out of the handler again, and who has the mutex not out of PrintLog.
CrashedAreIn ==
  /\ \A l \in crashes : printing[l].logAt # "out"
  /\ mutex.owner # NoOne => printing[mutex.owner].logAt # "out"

LEMMA LogLeftIsNumber ==
  ASSUME LogInv, NEW l \in Loggers
  PROVE  LogLeft(l) \in Nat /\ (LogLeft(l) = 0 <=> printing[l].logAt = "out")
<1>1. printing[l] \in [logAt : {"out", "enter", "send", "leave", "reported", "closed"},
                       len : Nat, txt : Nat]
  BY DEF LogInv, LogTypeOK
<1> QED
  BY <1>1 DEF LogLeft

\* A step of l in PrintLog and behind it.
LEMMA LoggingLeft ==
  ASSUME LogInv, NEW l \in Loggers, Logging(l), ~fatal'
  PROVE  /\ LogLeft(l)' < LogLeft(l)
         /\ \A m \in Loggers : m # l => printing'[m] = printing[m]
         /\ crashes' = crashes
         /\ l \in crashes => printing'[l].logAt # "out"
<1>1. printing \in [Loggers -> [logAt : {"out", "enter", "send", "leave", "reported", "closed"},
                                len : Nat, txt : Nat]]
  BY DEF LogInv, LogTypeOK
<1>2. ASSUME NEW here, NEW there, printing[l].logAt = here, Goes(l, there),
             <<here, there>> \in {<<"enter", "send">>, <<"send", "leave">>,
                                  <<"leave", "reported">>, <<"reported", "closed">>}
      PROVE  /\ LogLeft(l)' < LogLeft(l) /\ printing'[l].logAt # "out"
             /\ \A m \in Loggers : m # l => printing'[m] = printing[m]
  <2>1. /\ printing'[l].logAt = there /\ printing'[l].len = printing[l].len
        /\ printing[l].len \in Nat
        /\ \A m \in Loggers : m # l => printing'[m] = printing[m]
    BY <1>1, <1>2 DEF Goes
  <2> QED
    BY <1>2, <2>1 DEF LogLeft
<1>3. CASE EnterCriticalSection(l)
  BY <1>2, <1>3 DEF EnterCriticalSection
<1>4. CASE Sent(l)
  BY <1>2, <1>4 DEF Sent
<1>5. CASE CloseSocket(l)
  BY <1>2, <1>5 DEF CloseSocket
<1>6. CASE LeaveCriticalSection(l) /\ l \in crashes
  BY <1>2, <1>6 DEF LeaveCriticalSection
<1>7. CASE LeaveCriticalSection(l) /\ l \notin crashes
  <2>1. /\ printing[l].logAt = "leave" /\ printing' = [printing EXCEPT ![l] = NotPrinting]
        /\ crashes' = crashes
    BY <1>7 DEF LeaveCriticalSection
  <2>2. printing'[l] = NotPrinting /\ \A m \in Loggers : m # l => printing'[m] = printing[m]
    BY <1>1, <2>1
  <2> QED
    BY <1>7, <2>1, <2>2 DEF LogLeft, NotPrinting
<1>8. CASE SendTo(l)
  <2>1. PICK ret \in 1..Block(l) :
          printing' = [printing EXCEPT ![l].len = @ - ret, ![l].txt = @ + ret]
    BY <1>8 DEF SendTo
  <2>2. printing[l].logAt = "send" /\ crashes' = crashes
    BY <1>8 DEF SendTo
  <2>3. /\ printing'[l].logAt = "send" /\ printing'[l].len = printing[l].len - ret
        /\ \A m \in Loggers : m # l => printing'[m] = printing[m]
    BY <1>1, <2>1, <2>2
  <2>4. printing[l].len \in Nat /\ ret \in Nat \ {0}
    BY <1>1, LogAssumption DEF Block
  <2> QED
    BY <2>2, <2>3, <2>4 DEF LogLeft
<1>9. ~Fatal(l)
  BY DEF Fatal
<1>10. crashes' = crashes
  BY DEF Logging, EnterCriticalSection, SendTo, Sent, LeaveCriticalSection, CloseSocket, Fatal
<1> QED
  BY <1>3, <1>4, <1>5, <1>6, <1>7, <1>8, <1>9, <1>10 DEF Logging

LEMMA CrashedStep == LogInv /\ LogInv' /\ CrashedAreIn /\ [LogNext]_logVars => CrashedAreIn'
<1> SUFFICES ASSUME LogInv, LogInv', CrashedAreIn, [LogNext]_logVars PROVE CrashedAreIn'
  OBVIOUS
<1>1. ASSUME NEW l \in crashes' PROVE printing'[l].logAt # "out"
  <2>1. CASE UNCHANGED logVars
    BY <1>1, <2>1 DEF logVars, CrashedAreIn
  <2>2. ASSUME NEW m \in Loggers, NEW len \in Lengths,
               PrintLog(m, len) \/ ExceptionHandler(m, len)
        PROVE  printing'[l].logAt # "out"
    <3>1. /\ printing' = [printing EXCEPT ![m] = [logAt |-> "enter", len |-> len, txt |-> 0]]
          /\ crashes' \subseteq crashes \cup {m}
      BY <2>2 DEF PrintLog, ExceptionHandler, Begin
    <3>2. /\ printing'[m].logAt = "enter"
          /\ \A k \in Loggers : k # m => printing'[k] = printing[k]
      BY <3>1 DEF LogInv, LogTypeOK
    <3> QED
      BY <1>1, <3>1, <3>2 DEF CrashedAreIn, LogInv, LogTypeOK
  <2>3. ASSUME NEW m \in Loggers, Logging(m) PROVE printing'[l].logAt # "out"
    <3>1. CASE Fatal(m)
      BY <1>1, <3>1 DEF Fatal, CrashedAreIn
    <3>2. CASE ~Fatal(m) /\ ~fatal
      <4>1. ~fatal'
        BY <2>3, <3>2
           DEF Logging, EnterCriticalSection, SendTo, Sent, LeaveCriticalSection, CloseSocket
      <4> QED
        BY <1>1, <2>3, <4>1, LoggingLeft DEF CrashedAreIn, LogInv, LogTypeOK
    <3>3. CASE ~Fatal(m) /\ fatal
      BY <3>3, <1>1, <2>1 DEF LogNext
    <3> QED
      BY <3>1, <3>2, <3>3
  <2> QED
    BY <2>1, <2>2, <2>3 DEF LogNext
<1>2. ASSUME mutex'.owner # NoOne PROVE printing'[mutex'.owner].logAt # "out"
  <2>1. mutex'.owner \in Loggers
    BY <1>2 DEF LogInv, LogTypeOK
  <2>2. printing'[mutex'.owner].logAt # "out"
    BY <2>1 DEF LogInv, MutexOk
  <2> QED
    BY <2>2
<1> QED
  BY <1>1, <1>2 DEF CrashedAreIn

\* Whoever logs or has crashed gets to the end, if the mutex lets it.  What a thread has
\* left to do is a number and each of its steps makes it less, or stops the console; who
\* crashed always has something left, and nobody else adds to it; and who waits for the
\* mutex waits for a thread that still has a step to take, crashed or not, so no threads
\* wait for each other, and none keeps the mutex behind its last step (debug.cpp:50-52,
\* :105-120).
LogComesToItsEnd ==
  /\ [](/\ \A l \in Loggers : LogLeft(l) \in Nat
        /\ \A l \in crashes : LogLeft(l) > 0
        /\ mutex.owner # NoOne => mutex.owner \in Loggers /\ LogLeft(mutex.owner) > 0)
  /\ [][\A l \in Loggers :
          /\ Logging(l) => LogLeft(l)' < LogLeft(l) \/ fatal'
          /\ l \in crashes /\ ~Logging(l) => LogLeft(l)' = LogLeft(l)]_logVars

\* For any threads and lengths of texts.
THEOREM LoggingEnds == LogSpec => LogComesToItsEnd
<1>1. LogInit => CrashedAreIn
  BY DEF LogInit, CrashedAreIn
<1>2. LogInv /\ CrashedAreIn =>
        /\ \A l \in Loggers : LogLeft(l) \in Nat
        /\ \A l \in crashes : LogLeft(l) > 0
        /\ mutex.owner # NoOne => mutex.owner \in Loggers /\ LogLeft(mutex.owner) > 0
  <2> SUFFICES ASSUME LogInv, CrashedAreIn
               PROVE  /\ \A l \in Loggers : LogLeft(l) \in Nat
                      /\ \A l \in crashes : LogLeft(l) > 0
                      /\ mutex.owner # NoOne => mutex.owner \in Loggers /\ LogLeft(mutex.owner) > 0
    OBVIOUS
  <2>1. \A l \in Loggers : LogLeft(l) \in Nat /\ (printing[l].logAt # "out" => LogLeft(l) > 0)
    BY LogLeftIsNumber
  <2>2. crashes \subseteq Loggers /\ (mutex.owner # NoOne => mutex.owner \in Loggers)
    BY DEF LogInv, LogTypeOK
  <2> QED
    BY <2>1, <2>2 DEF CrashedAreIn
<1>3. LogInv /\ CrashedAreIn /\ [LogNext]_logVars =>
        [\A l \in Loggers :
           /\ Logging(l) => LogLeft(l)' < LogLeft(l) \/ fatal'
           /\ l \in crashes /\ ~Logging(l) => LogLeft(l)' = LogLeft(l)]_logVars
  <2> SUFFICES ASSUME LogInv, CrashedAreIn, LogNext, NEW l \in Loggers
               PROVE  /\ Logging(l) => LogLeft(l)' < LogLeft(l) \/ fatal'
                      /\ l \in crashes /\ ~Logging(l) => LogLeft(l)' = LogLeft(l)
    OBVIOUS
  <2>1. Logging(l) => LogLeft(l)' < LogLeft(l) \/ fatal'
    BY LoggingLeft
  <2>2. ASSUME l \in crashes, ~Logging(l) PROVE LogLeft(l)' = LogLeft(l)
    <3>1. PICK m \in Loggers : (\E len \in Lengths : PrintLog(m, len) \/ ExceptionHandler(m, len))
                               \/ Logging(m)
      BY DEF LogNext
    <3>2. m = l => FALSE
      BY <2>2, <3>1 DEF PrintLog, ExceptionHandler, CrashedAreIn
    <3>3. printing'[l] = printing[l]
      <4>1. CASE \E len \in Lengths : PrintLog(m, len) \/ ExceptionHandler(m, len)
        BY <3>2, <4>1 DEF PrintLog, ExceptionHandler, Begin, LogInv, LogTypeOK
      <4>2. CASE Logging(m)
        <5>1. CASE Fatal(m)
          BY <5>1 DEF Fatal
        <5>2. CASE ~Fatal(m)
          <6>1. ~fatal'
            BY <4>2, <5>2
               DEF LogNext, Logging, EnterCriticalSection, SendTo, Sent, LeaveCriticalSection, CloseSocket
          <6> QED
            BY <3>2, <4>2, <6>1, LoggingLeft
        <5> QED
          BY <5>1, <5>2
      <4> QED
        BY <3>1, <4>1, <4>2
    <3> QED
      BY <3>3 DEF LogLeft
  <2> QED
    BY <2>1, <2>2
<1>4. LogInv /\ CrashedAreIn /\ [LogNext]_logVars => LogInv' /\ CrashedAreIn'
  BY LogStep, CrashedStep
<1> QED
  BY <1>1, <1>2, <1>3, <1>4, LogInitInv, PTL DEF LogSpec, LogComesToItsEnd

-----------------------------------------------------------------------------
(* The list of a release. *)

\* The lists hold a name and contents for each file, and no name twice.
Listed == Seq(FileNames \X Contents)
OncePerName(list) == \A j, k \in DOMAIN list : list[j][1] = list[k][1] => j = k

ListInv == /\ list_version_local \in Listed /\ OncePerName(list_version_local)
           /\ list_version_server \in Listed /\ OncePerName(list_version_server)

\* A part of a list.
LEMMA PartOfList ==
  ASSUME NEW list \in Listed, NEW n, n = Len(list), NEW a \in Nat \ {0}, NEW b \in 0..n, a <= b + 1
  PROVE  /\ SubSeq(list, a, b) \in Listed /\ Len(SubSeq(list, a, b)) = (b - a) + 1
         /\ \A j \in 1..((b - a) + 1) : SubSeq(list, a, b)[j] = list[(a + j) - 1]
<1>1. n \in Nat
  BY LenProperties DEF Listed
<1>2. \A j \in a..b : list[j] \in FileNames \X Contents
  BY <1>1, ElementOfSeq DEF Listed
<1>3. /\ SubSeq(list, a, b) \in Seq(FileNames \X Contents)
      /\ Len(SubSeq(list, a, b)) = IF a <= b THEN b - a + 1 ELSE 0
      /\ \A j \in 1..(b - a + 1) : SubSeq(list, a, b)[j] = list[a + j - 1]
  BY <1>1, <1>2, SubSeqProperties
<1>4. (IF a <= b THEN b - a + 1 ELSE 0) = (b - a) + 1
  BY <1>1
<1> QED
  BY <1>3, <1>4 DEF Listed

IsJoin(t, list1, m, list2, n) ==
  /\ t \in Listed /\ Len(t) = m + n
  /\ \A j \in 1..(m + n) : t[j] = IF j <= m THEN list1[j] ELSE list2[j - m]

IsInsert(t, list, n, k, e) ==
  /\ t \in Listed /\ Len(t) = n + 1
  /\ \A j \in 1..(n + 1) : t[j] = IF j <= k THEN list[j] ELSE IF j = k + 1 THEN e ELSE list[j - 1]

IsRemoval(t, list, n, k) ==
  /\ t \in Listed /\ Len(t) = n - 1
  /\ \A j \in 1..(n - 1) : t[j] = IF j < k THEN list[j] ELSE list[j + 1]

LEMMA JoinedLists ==
  ASSUME NEW list1 \in Listed, NEW list2 \in Listed, NEW m \in Nat, NEW n \in Nat,
         Len(list1) = m, Len(list2) = n
  PROVE  IsJoin(list1 \o list2, list1, m, list2, n)
<1>1. /\ list1 \o list2 \in Listed /\ Len(list1 \o list2) = Len(list1) + Len(list2)
      /\ \A j \in 1..(Len(list1) + Len(list2)) :
           (list1 \o list2)[j] = IF j <= Len(list1) THEN list1[j] ELSE list2[j - Len(list1)]
  BY ConcatProperties DEF Listed
<1> QED
  BY <1>1 DEF IsJoin

LEMMA Inserted ==
  ASSUME NEW list \in Listed, NEW n, n = Len(list), NEW k \in 0..n, NEW e \in FileNames \X Contents,
         NEW t, t = SubSeq(list, 1, k) \o <<e>> \o SubSeq(list, k + 1, n)
  PROVE  IsInsert(t, list, n, k, e)
<1> DEFINE front == SubSeq(list, 1, k)
           back == SubSeq(list, k + 1, n)
           one == <<e>>
           both == front \o one
<1>1. n \in Nat
  BY LenProperties DEF Listed
<1>2. front \in Listed /\ Len(front) = k /\ \A j \in 1..k : front[j] = list[j]
  <2>1. 1 <= k + 1 /\ 1 \in Nat \ {0} /\ (k - 1) + 1 = k /\ \A j \in 1..k : (1 + j) - 1 = j
    BY <1>1
  <2> QED
    BY <2>1, PartOfList
<1>3. back \in Listed /\ Len(back) = n - k /\ \A j \in 1..(n - k) : back[j] = list[k + j]
  <2>1. k + 1 \in Nat \ {0} /\ n \in 0..n /\ k + 1 <= n + 1 /\ (n - (k + 1)) + 1 = n - k
        /\ \A j \in 1..(n - k) : ((k + 1) + j) - 1 = k + j
    BY <1>1
  <2> QED
    BY <2>1, PartOfList
<1>4. one \in Listed /\ Len(one) = 1 /\ one[1] = e
  BY DEF Listed
<1> HIDE DEF front, back, one
<1>10. k \in Nat /\ 1 \in Nat /\ k + 1 \in Nat /\ n - k \in Nat
  BY <1>1
<1>5. both \in Listed /\ Len(both) = k + 1
      /\ \A j \in 1..(k + 1) : both[j] = IF j <= k THEN front[j] ELSE one[j - k]
  <2>1. IsJoin(both, front, k, one, 1)
    BY ONLY <1>2, <1>4, <1>10, JoinedLists DEF both
  <2> QED
    BY ONLY <2>1 DEF IsJoin
<1> HIDE DEF both
<1>6. both \o back \in Listed /\ Len(both \o back) = (k + 1) + (n - k)
      /\ \A j \in 1..((k + 1) + (n - k)) :
           (both \o back)[j] = IF j <= k + 1 THEN both[j] ELSE back[j - (k + 1)]
  <2>1. IsJoin(both \o back, both, k + 1, back, n - k)
    BY ONLY <1>3, <1>5, <1>10, JoinedLists
  <2> QED
    BY ONLY <2>1 DEF IsJoin
<1>7. t = both \o back
  BY DEF both, front, back, one
<1>8. (k + 1) + (n - k) = n + 1
  BY <1>1
<1>9. ASSUME NEW j \in 1..(n + 1)
      PROVE  t[j] = IF j <= k THEN list[j] ELSE IF j = k + 1 THEN e ELSE list[j - 1]
  <2>1. t[j] = IF j <= k + 1 THEN both[j] ELSE back[j - (k + 1)]
    BY <1>6, <1>7, <1>8
  <2>2. CASE j <= k
    <3>1. j \in 1..k /\ j \in 1..(k + 1) /\ j <= k + 1
      BY <1>1, <2>2
    <3> QED
      BY <1>2, <1>5, <2>1, <2>2, <3>1
  <2>3. CASE j = k + 1
    <3>1. j \in 1..(k + 1) /\ j <= k + 1 /\ ~(j <= k) /\ j - k = 1
      BY <1>1, <2>3
    <3> QED
      BY <1>4, <1>5, <2>1, <2>3, <3>1
  <2>4. CASE j > k + 1
    <3>1. j - (k + 1) \in 1..(n - k) /\ ~(j <= k + 1) /\ ~(j <= k) /\ j # k + 1
          /\ k + (j - (k + 1)) = j - 1
      BY <1>1, <2>4
    <3> QED
      BY <1>3, <2>1, <3>1
  <2>5. j <= k \/ j = k + 1 \/ j > k + 1
    BY ONLY <1>1, j \in 1..(n + 1), k \in 0..n
  <2> QED
    BY <2>2, <2>3, <2>4, <2>5
<1> QED
  BY <1>6, <1>7, <1>8, <1>9 DEF IsInsert

LEMMA Removed ==
  ASSUME NEW list \in Listed, NEW n, n = Len(list), NEW k \in 1..n,
         NEW t, t = SubSeq(list, 1, k - 1) \o SubSeq(list, k + 1, n)
  PROVE  IsRemoval(t, list, n, k)
<1> DEFINE front == SubSeq(list, 1, k - 1)
           back == SubSeq(list, k + 1, n)
<1>1. n \in Nat
  BY LenProperties DEF Listed
<1>2. front \in Listed /\ Len(front) = k - 1 /\ \A j \in 1..(k - 1) : front[j] = list[j]
  <2>1. 1 <= (k - 1) + 1 /\ 1 \in Nat \ {0} /\ k - 1 \in 0..n /\ ((k - 1) - 1) + 1 = k - 1
        /\ \A j \in 1..(k - 1) : (1 + j) - 1 = j
    BY <1>1
  <2> QED
    BY <2>1, PartOfList
<1>3. back \in Listed /\ Len(back) = n - k /\ \A j \in 1..(n - k) : back[j] = list[k + j]
  <2>1. k + 1 \in Nat \ {0} /\ n \in 0..n /\ k + 1 <= n + 1 /\ (n - (k + 1)) + 1 = n - k
        /\ \A j \in 1..(n - k) : ((k + 1) + j) - 1 = k + j
    BY <1>1
  <2> QED
    BY <2>1, PartOfList
<1>4. t = front \o back
  OBVIOUS
<1> HIDE DEF front, back
<1>5. t \in Listed /\ Len(t) = (k - 1) + (n - k)
      /\ \A j \in 1..((k - 1) + (n - k)) : t[j] = IF j <= k - 1 THEN front[j] ELSE back[j - (k - 1)]
  <2>1. k - 1 \in Nat /\ n - k \in Nat
    BY <1>1
  <2>2. IsJoin(front \o back, front, k - 1, back, n - k)
    BY ONLY <1>2, <1>3, <2>1, JoinedLists
  <2> QED
    BY ONLY <1>4, <2>2 DEF IsJoin
<1>6. (k - 1) + (n - k) = n - 1
  BY <1>1
<1>7. ASSUME NEW j \in 1..(n - 1) PROVE t[j] = IF j < k THEN list[j] ELSE list[j + 1]
  <2>1. t[j] = IF j <= k - 1 THEN front[j] ELSE back[j - (k - 1)]
    BY <1>5, <1>6
  <2>2. CASE j < k
    <3>1. j \in 1..(k - 1) /\ j <= k - 1
      BY <1>1, <2>2
    <3> QED
      BY <1>2, <2>1, <2>2, <3>1
  <2>3. CASE ~(j < k)
    <3>1. j - (k - 1) \in 1..(n - k) /\ ~(j <= k - 1) /\ k + (j - (k - 1)) = j + 1
      BY <1>1, <2>3
    <3> QED
      BY <1>3, <2>1, <2>3, <3>1
  <2> QED
    BY <2>2, <2>3
<1> QED
  BY <1>5, <1>6, <1>7 DEF IsRemoval

LEMMA ListStep == ListInv /\ [ListNext]_listVars => ListInv'
<1> SUFFICES ASSUME ListInv, [ListNext]_listVars PROVE ListInv'
  OBVIOUS
<1> DEFINE list == list_version_local
           n == Len(list)
           new == list_version_local'
<1>1. n \in Nat /\ DOMAIN list = 1..n /\ list \in Listed /\ OncePerName(list) /\ n = Len(list)
  BY LenProperties DEF Listed, ListInv
<1>2. ASSUME NEW name \in FileNames, NEW value \in Contents, AddFile(name, value)
      PROVE  ListInv'
  <2> DEFINE e == <<name, value>>
  <2>1. PICK k \in 0..n : new = SubSeq(list, 1, k) \o <<e>> \o SubSeq(list, k + 1, n)
    BY <1>2 DEF AddFile
  <2>2. e \in FileNames \X Contents /\ e[1] = name
    OBVIOUS
  <2>3. \A j \in 1..n : list[j][1] # name
    BY <1>1, <1>2 DEF AddFile, Entries
  <2>4. UNCHANGED list_version_server
    BY <1>2 DEF AddFile
  <2> HIDE DEF list, n, e, new
  <2>5. /\ new \in Listed /\ Len(new) = n + 1
        /\ \A j \in 1..(n + 1) :
             new[j] = IF j <= k THEN list[j] ELSE IF j = k + 1 THEN e ELSE list[j - 1]
    <3>1. IsInsert(new, list, n, k, e)
      BY ONLY <1>1, <2>1, <2>2, k \in 0..n, Inserted
    <3> QED
      BY ONLY <3>1 DEF IsInsert
  <2>6. DOMAIN new = 1..(n + 1)
    BY <2>5, LenProperties DEF Listed
  <2> DEFINE was(j) == IF j <= k THEN j ELSE j - 1
  <2>7. \A j \in 1..(n + 1) : j # k + 1 => was(j) \in 1..n /\ new[j] = list[was(j)]
    BY <1>1, <2>5
  <2>8. new[k + 1] = e /\ k + 1 \in 1..(n + 1)
    BY <1>1, <2>5
  <2>9. OncePerName(new)
    <3> SUFFICES ASSUME NEW h \in 1..(n + 1), NEW j \in 1..(n + 1), new[h][1] = new[j][1]
                 PROVE  h = j
      BY <2>6 DEF OncePerName
    <3>1. CASE h # k + 1 /\ j # k + 1
      <4>1. was(h) \in 1..n /\ was(j) \in 1..n /\ list[was(h)][1] = list[was(j)][1]
        BY <2>7, <3>1
      <4>2. was(h) = was(j)
        BY <1>1, <4>1 DEF OncePerName
      <4> QED
        BY <3>1, <4>2
    <3>2. CASE h = k + 1 /\ j # k + 1
      BY <2>2, <2>3, <2>7, <2>8, <3>2
    <3>3. CASE h # k + 1 /\ j = k + 1
      BY <2>2, <2>3, <2>7, <2>8, <3>3
    <3> QED
      BY <3>1, <3>2, <3>3
  <2> QED
    BY <2>4, <2>5, <2>9 DEF new, ListInv, OncePerName
<1>3. ASSUME NEW k \in DOMAIN list_version_local, RemoveFile(k)
      PROVE  ListInv'
  <2>1. new = SubSeq(list, 1, k - 1) \o SubSeq(list, k + 1, n) /\ k \in 1..n
    BY <1>1, <1>3 DEF RemoveFile
  <2>2. UNCHANGED list_version_server
    BY <1>3 DEF RemoveFile
  <2> HIDE DEF list, n, new
  <2>3. /\ new \in Listed /\ Len(new) = n - 1
        /\ \A j \in 1..(n - 1) : new[j] = IF j < k THEN list[j] ELSE list[j + 1]
    <3>1. IsRemoval(new, list, n, k)
      BY ONLY <1>1, <2>1, Removed
    <3> QED
      BY ONLY <3>1 DEF IsRemoval
  <2>4. DOMAIN new = 1..(n - 1)
    BY <2>3, LenProperties DEF Listed
  <2>5. OncePerName(new)
    <3> SUFFICES ASSUME NEW h \in 1..(n - 1), NEW j \in 1..(n - 1), new[h][1] = new[j][1]
                 PROVE  h = j
      BY <2>4 DEF OncePerName
    <3> DEFINE was(m) == IF m < k THEN m ELSE m + 1
    <3>1. was(h) \in 1..n /\ was(j) \in 1..n
      BY <1>1
    <3>2. list[was(h)][1] = list[was(j)][1]
      BY <2>3
    <3>3. was(h) = was(j)
      BY <1>1, <3>1, <3>2 DEF OncePerName
    <3> QED
      BY <2>1, <3>3
  <2> QED
    BY <2>2, <2>3, <2>5 DEF new, ListInv, OncePerName
<1>4. ASSUME NEW k \in DOMAIN list_version_local, NEW value \in Contents, ChangeFile(k, value)
      PROVE  ListInv'
  <2> DEFINE entry == [list[k] EXCEPT ![2] = value]
  <2>1. list[k] \in FileNames \X Contents /\ k \in 1..n
    BY <1>1, ElementOfSeq DEF Listed
  <2>2. entry \in FileNames \X Contents /\ entry[1] = list[k][1]
    BY <2>1
  <2>3. new = [list EXCEPT ![k] = entry] /\ UNCHANGED list_version_server
    BY <1>4 DEF ChangeFile
  <2> HIDE DEF entry, list, new
  <2>4. new \in Listed /\ Len(new) = n /\ \A j \in 1..n : new[j] = IF j = k THEN entry ELSE list[j]
    BY <1>1, <2>1, <2>2, <2>3, ExceptSeq DEF Listed
  <2>5. DOMAIN new = 1..n
    BY <2>4, LenProperties DEF Listed
  <2>6. \A j \in 1..n : new[j][1] = list[j][1]
    BY <2>2, <2>4
  <2>7. OncePerName(new)
    BY <1>1, <2>5, <2>6 DEF OncePerName
  <2> QED
    BY <2>3, <2>4, <2>7 DEF new, ListInv, OncePerName
<1>5. CASE Upload
  BY <1>5 DEF Upload, ListInv, OncePerName
<1>6. CASE UNCHANGED listVars
  BY <1>6 DEF listVars, ListInv, OncePerName
<1> QED
  BY <1>2, <1>3, <1>4, <1>5, <1>6 DEF ListNext

LEMMA ListInitInv == ListInit => ListInv
<1>1. <<>> \in Listed /\ OncePerName(<<>>)
  BY EmptySeq DEF Listed, OncePerName
<1> QED
  BY <1>1 DEF ListInit, ListInv

\* A list never names a file twice, wherever os.walk gives a new one its place
\* (create_archive.py:124-133).
THEOREM FilesAreListedOnce == ListSpec => []UpdateTypeOK
<1>1. ASSUME NEW list \in Listed, OncePerName(list)
      PROVE  /\ Entries(list) \subseteq FileNames \X Contents
             /\ \A j, k \in DOMAIN list : list[j][1] = list[k][1] => j = k
  BY <1>1, ElementOfSeq, LenProperties DEF Listed, Entries, OncePerName
<1>2. ListInv => UpdateTypeOK
  BY <1>1 DEF ListInv, UpdateTypeOK
<1> QED
  BY <1>2, ListInitInv, ListStep, PTL DEF ListSpec

LEMMA ListInvListed == ListInv => ChangesListed
<1> SUFFICES ASSUME ListInv, NEW k \in DOMAIN list_version_local,
                    list_version_local[k] \notin Entries(list_version_server),
                    list_version_local[k][1] \notin Diff
             PROVE  /\ k \in DOMAIN list_version_server
                    /\ list_version_server[k][2] = list_version_local[k][2]
                    /\ list_version_server[k][1] # list_version_local[k][1]
  BY DEF ChangesListed
<1>1. k \in DOMAIN list_version_server /\ list_version_local[k][2] = list_version_server[k][2]
  BY DEF Diff
<1>2. /\ list_version_local[k] \in FileNames \X Contents
      /\ list_version_server[k] \in FileNames \X Contents
  BY <1>1, ElementOfSeq, LenProperties DEF ListInv, Listed
<1>3. list_version_server[k] # list_version_local[k]
  BY <1>1 DEF Entries
<1> QED
  BY <1>1, <1>2, <1>3

\* Whatever has changed since the last release is among the updates, but files that were
\* only renamed (create_archive.py:124-133).
THEOREM ChangesAreListed == ListSpec => []ChangesListed
  BY ListInitInv, ListStep, ListInvListed, PTL DEF ListSpec

-----------------------------------------------------------------------------
(* Words, and processors. *)

Registers == 0..31
Memories == UNION {[A -> Word] : A \in SUBSET Word}
Machines == [gpr : [Registers -> Word], lr : Word, ctr : Word, pc : Word, mem : Memories]

Machine(gpr, lr, ctr, pc, mem) ==
  [gpr |-> gpr, lr |-> lr, ctr |-> ctr, pc |-> pc, mem |-> mem]

LEMMA WordParts ==
  ASSUME NEW w \in Word
  PROVE  /\ w = <<w[1], w[2]>> /\ w[1] \in Half /\ w[2] \in Half
         /\ w[1] \in Nat /\ w[1] < 65536 /\ w[2] \in Nat /\ w[2] < 65536
BY DEF Word, Half

LEMMA PairIsWord ==
  ASSUME NEW a \in Half, NEW b \in Half
  PROVE  <<a, b>> \in Word /\ <<a, b>>[1] = a /\ <<a, b>>[2] = b
BY DEF Word

LEMMA RemainderIsHalf ==
  ASSUME NEW a \in Int
  PROVE  a % 65536 \in Half
BY DEF Half

LEMMA PlusTyped ==
  ASSUME NEW w \in Word, NEW n \in Int
  PROVE  Plus(w, n) \in Word
<1> DEFINE sum == w[2] + n
<1>1. sum \in Int /\ w[1] \in Int
  BY WordParts
<1> HIDE DEF sum
<1>2. w[1] + sum \div 65536 \in Int
  BY <1>1
<1>3. (w[1] + sum \div 65536) % 65536 \in Half /\ sum % 65536 \in Half
  BY <1>1, <1>2, RemainderIsHalf
<1>4. Plus(w, n) = <<(w[1] + sum \div 65536) % 65536, sum % 65536>>
  BY DEF Plus, sum
<1> QED
  BY <1>3, <1>4, PairIsWord

LEMMA PlusNothing ==
  ASSUME NEW w \in Word
  PROVE  Plus(w, 0) = w
BY WordParts DEF Plus

LEMMA PlusPlus ==
  ASSUME NEW w \in Word, NEW a \in 0..64
  PROVE  Plus(Plus(w, a), 4) = Plus(w, a + 4)
<1> DEFINE h == w[1]
           l == w[2]
           s == l + a
           t == (s % 65536) + 4
           u == l + (a + 4)
           g == (h + s \div 65536) % 65536
<1>1. h \in Nat /\ h < 65536 /\ l \in Nat /\ l < 65536
  BY WordParts
<1>2. Plus(w, a) = <<g, s % 65536>>
  BY DEF Plus
<1>3. Plus(Plus(w, a), 4) = <<(g + t \div 65536) % 65536, t % 65536>>
  BY <1>2 DEF Plus
<1>4. Plus(w, a + 4) = <<(h + u \div 65536) % 65536, u % 65536>>
  BY DEF Plus
<1> HIDE DEF h, l
<1>5. t % 65536 = u % 65536 /\ (g + t \div 65536) % 65536 = (h + u \div 65536) % 65536
  BY <1>1
<1> QED
  BY <1>3, <1>4, <1>5

LEMMA PlusDiffers ==
  ASSUME NEW w \in Word, NEW a \in 0..64, NEW c \in 0..64, Plus(w, a) = Plus(w, c)
  PROVE  a = c
<1>1. w[2] \in Nat /\ w[2] < 65536
  BY WordParts
<1>2. (w[2] + a) % 65536 = (w[2] + c) % 65536
  BY DEF Plus
<1> QED
  BY <1>1, <1>2

LEMMA SignedTyped ==
  ASSUME NEW d \in Half
  PROVE  Signed(d) \in Int
BY DEF Signed, Half

LEMMA Fields ==
  ASSUME NEW w \in Word
  PROVE  RT(w) \in Registers /\ RA(w) \in Registers
BY WordParts DEF RT, RA, Registers

LEMMA NothingStored == <<>> \in Memories /\ DOMAIN <<>> = {}
<1>1. <<>> \in Seq(Word) /\ Len(<<>>) = 0
  BY EmptySeq
<1>2. <<>> \in [1..0 -> Word] /\ 1..0 = {}
  BY <1>1, LenProperties
<1> QED
  BY <1>2 DEF Memories

LEMMA MemoryParts ==
  ASSUME NEW mem \in Memories
  PROVE  DOMAIN mem \subseteq Word /\ mem \in [DOMAIN mem -> Word]
BY DEF Memories

LEMMA StoredTyped ==
  ASSUME NEW m, m.mem \in Memories, NEW a \in Word, NEW w \in Word
  PROVE  Stored(m, a, w) \in Memories
<1>1. DOMAIN m.mem \cup {a} \in SUBSET Word
  BY MemoryParts
<1>2. \A x \in DOMAIN m.mem : m.mem[x] \in Word
  BY MemoryParts
<1>3. Stored(m, a, w) \in [DOMAIN m.mem \cup {a} -> Word]
  BY <1>2 DEF Stored
<1> QED
  BY <1>1, <1>3 DEF Memories

LEMMA MachineParts ==
  ASSUME NEW m \in Machines
  PROVE  /\ m = Machine(m.gpr, m.lr, m.ctr, m.pc, m.mem)
         /\ m.gpr \in [Registers -> Word] /\ m.lr \in Word /\ m.ctr \in Word /\ m.pc \in Word
         /\ m.mem \in Memories
BY DEF Machines, Machine

LEMMA AddressTyped ==
  ASSUME NEW m \in Machines, NEW w \in Word
  PROVE  Base(m, w) \in Word /\ Address(m, w) \in Word
<1>1. <<0, 0>> \in Word
  BY PairIsWord DEF Half
<1>2. Base(m, w) \in Word
  BY <1>1, Fields, MachineParts DEF Base
<1>3. Signed(w[2]) \in Int
  BY WordParts, SignedTyped
<1> QED
  BY <1>2, <1>3, PlusTyped DEF Address

-----------------------------------------------------------------------------
(* What the instructions make of a processor. *)

LEMMA GoOnRuns ==
  ASSUME NEW m \in Machines
  PROVE  GoOn(m) = Machine(m.gpr, m.lr, m.ctr, Plus(m.pc, 4), m.mem)
BY DEF GoOn, Machine, Machines

LEMMA StwRuns ==
  ASSUME NEW m \in Machines, NEW w
  PROVE  Stw(m, w) = Machine(m.gpr, m.lr, m.ctr, Plus(m.pc, 4),
                             Stored(m, Address(m, w), m.gpr[RT(w)]))
BY GoOnRuns DEF Stw, Machine

LEMMA StwuRuns ==
  ASSUME NEW m \in Machines, NEW w
  PROVE  Stwu(m, w) = Machine([m.gpr EXCEPT ![RA(w)] = Address(m, w)], m.lr, m.ctr,
                              Plus(m.pc, 4), Stored(m, Address(m, w), m.gpr[RT(w)]))
BY StwRuns DEF Stwu, Machine

LEMMA LwzRuns ==
  ASSUME NEW m \in Machines, NEW w
  PROVE  Lwz(m, w) = Machine([m.gpr EXCEPT ![RT(w)] = m.mem[Address(m, w)]], m.lr, m.ctr,
                             Plus(m.pc, 4), m.mem)
BY GoOnRuns DEF Lwz, Machine

LEMMA AddiRuns ==
  ASSUME NEW m \in Machines, NEW w
  PROVE  Addi(m, w) = Machine([m.gpr EXCEPT ![RT(w)] = Address(m, w)], m.lr, m.ctr,
                              Plus(m.pc, 4), m.mem)
BY GoOnRuns DEF Addi, Machine

LEMMA AddisRuns ==
  ASSUME NEW m \in Machines, NEW w
  PROVE  Addis(m, w) = Machine([m.gpr EXCEPT ![RT(w)] =
                                  <<(Base(m, w)[1] + w[2]) % 65536, Base(m, w)[2]>>],
                               m.lr, m.ctr, Plus(m.pc, 4), m.mem)
BY GoOnRuns DEF Addis, Machine

LEMMA OriRuns ==
  ASSUME NEW m \in Machines, NEW w
  PROVE  Ori(m, w) = Machine([m.gpr EXCEPT ![RA(w)] = <<m.gpr[RT(w)][1], w[2]>>],
                             m.lr, m.ctr, Plus(m.pc, 4), m.mem)
BY GoOnRuns DEF Ori, Machine

LEMMA MtctrRuns ==
  ASSUME NEW m \in Machines, NEW w
  PROVE  Mtctr(m, w) = Machine(m.gpr, m.lr, m.gpr[RT(w)], Plus(m.pc, 4), m.mem)
BY GoOnRuns DEF Mtctr, Machine

LEMMA MflrRuns ==
  ASSUME NEW m \in Machines, NEW w
  PROVE  Mflr(m, w) = Machine([m.gpr EXCEPT ![RT(w)] = m.lr], m.lr, m.ctr,
                              Plus(m.pc, 4), m.mem)
BY GoOnRuns DEF Mflr, Machine

LEMMA BctrRuns ==
  ASSUME NEW m \in Machines
  PROVE  Bctr(m) = Machine(m.gpr, m.lr, m.ctr, m.ctr, m.mem)
BY DEF Bctr, Machine, Machines

LEMMA Decoded ==
  ASSUME NEW m, NEW w
  PROVE  /\ OpCode(w) = 14 => Executed(m, w) = Addi(m, w)
         /\ OpCode(w) = 15 => Executed(m, w) = Addis(m, w)
         /\ OpCode(w) = 18 => Executed(m, w) = BranchTo(m, w)
         /\ OpCode(w) = 19 => Executed(m, w) = Bctr(m)
         /\ OpCode(w) = 24 /\ m.gpr[RT(w)][2] = 0 => Executed(m, w) = Ori(m, w)
         /\ Moves(w, 9, 467) => Executed(m, w) = Mtctr(m, w)
         /\ Moves(w, 8, 339) => Executed(m, w) = Mflr(m, w)
         /\ OpCode(w) = 32 => Executed(m, w) = Lwz(m, w)
         /\ OpCode(w) = 36 => Executed(m, w) = Stw(m, w)
         /\ OpCode(w) = 37 => Executed(m, w) = Stwu(m, w)
<1>1. OpCode(w) = 14 => Executed(m, w) = Addi(m, w)
  BY DEF Executed, Moves
<1>2. OpCode(w) = 15 => Executed(m, w) = Addis(m, w)
  BY DEF Executed, Moves
<1>3. OpCode(w) = 18 => Executed(m, w) = BranchTo(m, w)
  BY DEF Executed, Moves
<1>4. OpCode(w) = 19 => Executed(m, w) = Bctr(m)
  BY DEF Executed, Moves
<1>5. OpCode(w) = 24 /\ m.gpr[RT(w)][2] = 0 => Executed(m, w) = Ori(m, w)
  BY DEF Executed, Moves
<1>6. Moves(w, 9, 467) => Executed(m, w) = Mtctr(m, w)
  BY DEF Executed, Moves
<1>7. Moves(w, 8, 339) => Executed(m, w) = Mflr(m, w)
  BY DEF Executed, Moves
<1>8. OpCode(w) = 32 => Executed(m, w) = Lwz(m, w)
  BY DEF Executed, Moves
<1>9. OpCode(w) = 36 => Executed(m, w) = Stw(m, w)
  BY DEF Executed, Moves
<1>10. OpCode(w) = 37 => Executed(m, w) = Stwu(m, w)
  BY DEF Executed, Moves
<1> QED
  BY <1>1, <1>2, <1>3, <1>4, <1>5, <1>6, <1>7, <1>8, <1>9, <1>10

-----------------------------------------------------------------------------
(* Branches. *)

\* What of a branch's word its target depends on, and whether it links.
IsBranch(w, x, absolute, link) ==
  /\ OpCode(w) = 18 /\ w[1] % 1024 = x[1] % 1024
  /\ w[2] - (w[2] % 4) = x[2] - (x[2] % 4)
  /\ (w[2] \div 2) % 2 = 1 <=> absolute
  /\ w[2] % 2 = 1 <=> link

LEMMA IFormIsBranch ==
  ASSUME NEW x \in Word, NEW flags \in {1, 3}
  PROVE  /\ IForm(x, flags)[2] \in Nat
         /\ flags = 1 => IsBranch(IForm(x, flags), x, FALSE, TRUE)
         /\ flags = 3 => IsBranch(IForm(x, flags), x, TRUE, TRUE)
<1> DEFINE w == IForm(x, flags)
           h == x[1]
           l == x[2]
<1>1. h \in Nat /\ h < 65536 /\ l \in Nat /\ l < 65536
  BY WordParts
<1>2. w[1] = 18 * 1024 + (h % 1024) /\ w[2] = l - (l % 4) + flags
  BY DEF IForm
<1> HIDE DEF w, h, l
<1>3. w[1] \div 1024 = 18 /\ w[1] % 1024 = h % 1024
  BY <1>1, <1>2
<1>4. w[2] \in Nat /\ w[2] - (w[2] % 4) = l - (l % 4) /\ w[2] % 2 = 1
  BY <1>1, <1>2
<1>5. (w[2] \div 2) % 2 = 1 <=> flags = 3
  BY <1>1, <1>2
<1> QED
  BY <1>3, <1>4, <1>5 DEF IsBranch, OpCode, w, h, l

LEMMA WithoutLinkIsBranch ==
  ASSUME NEW w, NEW x, NEW absolute \in BOOLEAN, w[2] \in Nat, IsBranch(w, x, absolute, TRUE)
  PROVE  IsBranch(WithoutLink(w), x, absolute, FALSE)
<1>1. w[2] % 2 = 1 /\ WithoutLink(w) = <<w[1], w[2] - 1>>
  BY DEF IsBranch, WithoutLink
<1> DEFINE l == w[2]
<1>2. l \in Nat /\ l % 2 = 1
  BY <1>1
<1> HIDE DEF l
<1>3. (l - 1) % 2 = 0 /\ (l - 1) \div 2 = l \div 2 /\ (l - 1) - ((l - 1) % 4) = l - (l % 4)
  BY <1>2
<1> QED
  BY <1>1, <1>3 DEF IsBranch, OpCode, l

LEMMA AbsoluteTarget ==
  ASSUME NEW pc, NEW w, NEW x \in Word, NEW link \in BOOLEAN, IsBranch(w, x, TRUE, link),
         x[1] < 512, x[2] % 4 = 0
  PROVE  Target(pc, w) = x
<1> DEFINE h == x[1]
           l == x[2]
<1>1. h \in Nat /\ h < 512 /\ l \in Nat /\ l % 4 = 0 /\ x = <<h, l>>
  BY WordParts
<1> HIDE DEF h, l
<1>2. h % 1024 = h /\ l - (l % 4) = l
  BY <1>1
<1>3. w[1] % 1024 = h /\ w[2] - (w[2] % 4) = l
  BY <1>2 DEF IsBranch, h, l
<1> QED
  BY <1>1, <1>3 DEF IsBranch, Target

LEMMA RelativeTarget ==
  ASSUME NEW from \in Word, NEW to \in Word, NEW w, NEW link \in BOOLEAN,
         IsBranch(w, Minus(to, from), FALSE, link),
         to[1] - from[1] \in -511..511, to[2] % 4 = 0, from[2] % 4 = 0
  PROVE  Target(from, w) = to
<1> DEFINE d1 == to[1]
           d2 == to[2]
           s1 == from[1]
           s2 == from[2]
           low == d2 - s2
           high == (d1 - s1 + low \div 65536) % 65536
           bits == high % 1024
           shift == IF bits < 512 THEN bits ELSE bits + 64512
           rest == low % 65536
<1>1. /\ d1 \in Nat /\ d1 < 65536 /\ d2 \in Nat /\ d2 < 65536 /\ d2 % 4 = 0
      /\ s1 \in Nat /\ s1 < 65536 /\ s2 \in Nat /\ s2 < 65536 /\ s2 % 4 = 0
      /\ d1 - s1 \in -511..511 /\ to = <<d1, d2>>
  BY WordParts
<1>2. Minus(to, from) = <<high, rest>>
  BY DEF Minus
<1>3. w[1] % 1024 = bits /\ w[2] - (w[2] % 4) = rest - (rest % 4)
  BY <1>2 DEF IsBranch
<1>4. Target(from, w) = <<(s1 + shift + (s2 + (rest - (rest % 4))) \div 65536) % 65536,
                          (s2 + (rest - (rest % 4))) % 65536>>
  BY <1>3 DEF Target, IsBranch
<1> HIDE DEF d1, d2, s1, s2
<1>5. low \in Int /\ -65536 < low /\ low < 65536 /\ low % 4 = 0
  BY <1>1
<1>6. rest \in Nat /\ rest % 4 = 0 /\ rest = IF low < 0 THEN low + 65536 ELSE low
  BY <1>5
<1>7. low \div 65536 = IF low < 0 THEN -1 ELSE 0
  BY <1>5
<1>8. shift = high
  <2> HIDE DEF low
  <2>1. d1 - s1 + low \div 65536 \in -512..511
    BY <1>1, <1>7
  <2> DEFINE total == d1 - s1 + low \div 65536
  <2>2. total \in -512..511 /\ high = total % 65536
    BY <2>1
  <2> HIDE DEF total
  <2>3. high = IF total < 0 THEN total + 65536 ELSE total
    BY <2>2
  <2> HIDE DEF high
  <2> QED
    BY <2>2, <2>3
<1>9. (s2 + rest) % 65536 = d2
  BY <1>1, <1>6
<1>10. (s1 + high + (s2 + rest) \div 65536) % 65536 = d1
  BY <1>1, <1>6, <1>7
<1>11. rest - (rest % 4) = rest
  BY <1>6
<1> HIDE DEF rest, shift, high
<1> QED
  BY <1>1, <1>4, <1>8, <1>9, <1>10, <1>11

LEMMA MinusTyped ==
  ASSUME NEW w \in Word, NEW v \in Word
  PROVE  Minus(w, v) \in Word
<1> DEFINE low == w[2] - v[2]
<1>1. low \in Int /\ w[1] \in Int /\ v[1] \in Int
  BY WordParts
<1> HIDE DEF low
<1>2. w[1] - v[1] + low \div 65536 \in Int
  BY <1>1
<1>3. (w[1] - v[1] + low \div 65536) % 65536 \in Half /\ low % 65536 \in Half
  BY <1>1, <1>2, RemainderIsHalf
<1>4. Minus(w, v) = <<(w[1] - v[1] + low \div 65536) % 65536, low % 65536>>
  BY DEF Minus, low
<1> QED
  BY <1>3, <1>4, PairIsWord

\* The hook is of addresses that the constants allow.
HookOf ==
  /\ hook.kind \in Kinds /\ hook.source \in Sources /\ hook.destination \in Destinations
  /\ hook.first \in Firsts
  /\ Reachable(hook.kind, hook.source, hook.destination)

LEMMA BranchLeads ==
  ASSUME HookOf
  PROVE  /\ OpCode(Branch) = 18
         /\ Target(hook.source, Branch) = hook.destination
         /\ Branch[2] % 2 = 1 <=> hook.kind = "branch"
<1> DEFINE to == hook.destination
           from == hook.source
<1>1. to \in Word /\ from \in Word /\ to[2] % 4 = 0 /\ from[2] % 4 = 0
  BY WordsAssumption DEF HookOf
<1>2. to[1] \in Nat /\ from[1] \in Nat
  BY <1>1, WordParts
<1>3. /\ IsBranch(doBLA(to), to, TRUE, TRUE)
      /\ IsBranch(WithoutLink(doBLA(to)), to, TRUE, FALSE)
  <2>1. doBLA(to)[2] \in Nat /\ IsBranch(doBLA(to), to, TRUE, TRUE)
    BY <1>1, IFormIsBranch DEF doBLA
  <2> QED
    BY <2>1, WithoutLinkIsBranch
<1>4. /\ IsBranch(doBL(to, from), Minus(to, from), FALSE, TRUE)
      /\ IsBranch(WithoutLink(doBL(to, from)), Minus(to, from), FALSE, FALSE)
  <2>1. /\ doBL(to, from)[2] \in Nat
        /\ IsBranch(doBL(to, from), Minus(to, from), FALSE, TRUE)
    BY <1>1, MinusTyped, IFormIsBranch DEF doBL
  <2> QED
    BY <2>1, WithoutLinkIsBranch
<1> DEFINE linked == hook.kind = "branch"
<1> DEFINE word == IF to[1] < 1024 THEN doBLA(to) ELSE doBL(to, from)
<1>7. /\ hook.kind = "function" => Branch = WithoutLink(doBLA(to))
      /\ hook.kind = "branch" => Branch = word
      /\ hook.kind = "branch no link" => Branch = WithoutLink(word)
  <2>1. /\ hook.kind = "function" => Branch = WithoutLink(doBLA(to))
    BY DEF Branch
  <2>2. hook.kind = "branch" => Branch = word
    BY DEF Branch
  <2>3. hook.kind = "branch no link" => Branch = WithoutLink(word)
    BY DEF Branch
  <2> QED
    BY <2>1, <2>2, <2>3
<1>8. hook.kind \in {"function", "branch", "branch no link"}
  BY DEF HookOf, Kinds
<1>5. CASE to[1] < 512
  <2>1. Branch = IF linked THEN doBLA(to) ELSE WithoutLink(doBLA(to))
    <3>1. word = doBLA(to)
      BY <1>2, <1>5
    <3> HIDE DEF word
    <3> QED
      BY <3>1, <1>7, <1>8
  <2>2. CASE linked
    <3>1. IsBranch(Branch, to, TRUE, TRUE)
      BY <1>3, <2>1, <2>2
    <3>2. Target(from, Branch) = to
      BY <1>1, <1>5, <3>1, AbsoluteTarget
    <3> QED
      BY <2>2, <3>1, <3>2 DEF IsBranch
  <2>3. CASE ~linked
    <3>1. IsBranch(Branch, to, TRUE, FALSE)
      BY <1>3, <2>1, <2>3
    <3>2. Target(from, Branch) = to
      BY <1>1, <1>5, <3>1, AbsoluteTarget
    <3> QED
      BY <2>3, <3>1, <3>2 DEF IsBranch
  <2> QED
    BY <2>2, <2>3
<1>6. CASE ~(to[1] < 512)
  <2>1. hook.kind # "function" /\ to[1] >= 1024 /\ to[1] - from[1] \in -511..511
    BY <1>6 DEF HookOf, Reachable
  <2>2. Branch = IF linked THEN doBL(to, from) ELSE WithoutLink(doBL(to, from))
    <3>1. word = doBL(to, from)
      BY <1>2, <2>1
    <3> HIDE DEF word
    <3> QED
      BY <2>1, <3>1, <1>7, <1>8
  <2>3. CASE linked
    <3>1. IsBranch(Branch, Minus(to, from), FALSE, TRUE)
      BY <1>4, <2>2, <2>3
    <3>2. Target(from, Branch) = to
      BY <1>1, <2>1, <3>1, RelativeTarget
    <3> QED
      BY <2>3, <3>1, <3>2 DEF IsBranch
  <2>4. CASE ~linked
    <3>1. IsBranch(Branch, Minus(to, from), FALSE, FALSE)
      BY <1>4, <2>2, <2>4
    <3>2. Target(from, Branch) = to
      BY <1>1, <2>1, <3>1, RelativeTarget
    <3> QED
      BY <2>4, <3>1, <3>2 DEF IsBranch
  <2> QED
    BY <2>3, <2>4
<1> QED
  BY <1>5, <1>6

-----------------------------------------------------------------------------
(* The other encodings, and the replaced instruction. *)

LEMMA DFormParts ==
  ASSUME NEW op \in 0..63, NEW rt \in Registers, NEW ra \in Registers, NEW d,
         NEW w, w = DForm(op, rt, ra, d)
  PROVE  OpCode(w) = op /\ RT(w) = rt /\ RA(w) = ra
<1>1. w[1] = op * 1024 + rt * 32 + ra
  BY DEF DForm
<1>2. /\ (op * 1024 + rt * 32 + ra) \div 1024 = op
      /\ (op * 1024 + rt * 32 + ra) % 32 = ra
  BY DEF Registers
<1>3. (op * 1024 + rt * 32 + ra) \div 32 = op * 32 + rt
  BY DEF Registers
<1>4. (op * 32 + rt) % 32 = rt
  BY DEF Registers
<1> QED
  BY <1>1, <1>2, <1>3, <1>4 DEF OpCode, RT, RA

LEMMA MoveSprParts ==
  ASSUME NEW r \in Registers, NEW spr \in Registers, NEW extended \in Nat
  PROVE  Moves(MoveSpr(r, spr, extended), spr, extended) /\ RT(MoveSpr(r, spr, extended)) = r
<1>1. /\ MoveSpr(r, spr, extended)[1] = 31 * 1024 + r * 32 + spr
      /\ MoveSpr(r, spr, extended)[2] = 2 * extended
  BY DEF MoveSpr
<1>2. /\ (31 * 1024 + r * 32 + spr) \div 1024 = 31
      /\ (31 * 1024 + r * 32 + spr) % 32 = spr
  BY DEF Registers
<1>3. (31 * 1024 + r * 32 + spr) \div 32 = 31 * 32 + r /\ (31 * 32 + r) % 32 = r
  BY DEF Registers
<1> QED
  BY <1>1, <1>2, <1>3 DEF Moves, OpCode, RT, RA

\* Two processors that differ in pc, ctr and memory execute w alike.
SameEffect(m1, m2, e1, e2) ==
  /\ e1 \in Machines /\ e2 \in Machines
  /\ e1.gpr = e2.gpr /\ e1.lr = m1.lr /\ e2.lr = m2.lr /\ e1.ctr = m1.ctr /\ e2.ctr = m2.ctr
  /\ e1.pc = Plus(m1.pc, 4) /\ e2.pc = Plus(m2.pc, 4)
  /\ \/ e1.mem = m1.mem /\ e2.mem = m2.mem
     \/ \E a, v \in Word : e1.mem = Stored(m1, a, v) /\ e2.mem = Stored(m2, a, v)

LEMMA MachineTyped ==
  ASSUME NEW gpr \in [Registers -> Word], NEW lr \in Word, NEW ctr \in Word, NEW pc \in Word,
         NEW mem \in Memories
  PROVE  /\ Machine(gpr, lr, ctr, pc, mem) \in Machines
         /\ Machine(gpr, lr, ctr, pc, mem).gpr = gpr /\ Machine(gpr, lr, ctr, pc, mem).lr = lr
         /\ Machine(gpr, lr, ctr, pc, mem).ctr = ctr /\ Machine(gpr, lr, ctr, pc, mem).pc = pc
         /\ Machine(gpr, lr, ctr, pc, mem).mem = mem
BY DEF Machine, Machines

\* The machine behind an instruction that is no branch.
GoesOn(m, e, gpr, mem) ==
  /\ e \in Machines /\ e.gpr = gpr /\ e.lr = m.lr /\ e.ctr = m.ctr
  /\ e.pc = Plus(m.pc, 4) /\ e.mem = mem

LEMMA MachineGoesOn ==
  ASSUME NEW m \in Machines, NEW gpr \in [Registers -> Word], NEW mem \in Memories
  PROVE  GoesOn(m, Machine(gpr, m.lr, m.ctr, Plus(m.pc, 4), mem), gpr, mem)
<1>1. Plus(m.pc, 4) \in Word /\ m.lr \in Word /\ m.ctr \in Word
  BY MachineParts, PlusTyped
<1> QED
  BY <1>1, MachineTyped DEF GoesOn

\* If only a register is written.
LEMMA WriteAlike ==
  ASSUME NEW m1 \in Machines, NEW m2 \in Machines, NEW gpr \in [Registers -> Word]
  PROVE  SameEffect(m1, m2, Machine(gpr, m1.lr, m1.ctr, Plus(m1.pc, 4), m1.mem),
                            Machine(gpr, m2.lr, m2.ctr, Plus(m2.pc, 4), m2.mem))
<1> DEFINE e1 == Machine(gpr, m1.lr, m1.ctr, Plus(m1.pc, 4), m1.mem)
           e2 == Machine(gpr, m2.lr, m2.ctr, Plus(m2.pc, 4), m2.mem)
<1>1. GoesOn(m1, e1, gpr, m1.mem) /\ GoesOn(m2, e2, gpr, m2.mem)
  BY MachineParts, MachineGoesOn
<1> HIDE DEF e1, e2
<1>2. SameEffect(m1, m2, e1, e2)
  BY <1>1 DEF SameEffect, GoesOn
<1> QED
  BY <1>2 DEF e1, e2

\* If a word is stored.
LEMMA StoreAlike ==
  ASSUME NEW m1 \in Machines, NEW m2 \in Machines, NEW gpr \in [Registers -> Word],
         NEW a \in Word, NEW v \in Word
  PROVE  SameEffect(m1, m2, Machine(gpr, m1.lr, m1.ctr, Plus(m1.pc, 4), Stored(m1, a, v)),
                            Machine(gpr, m2.lr, m2.ctr, Plus(m2.pc, 4), Stored(m2, a, v)))
<1> DEFINE e1 == Machine(gpr, m1.lr, m1.ctr, Plus(m1.pc, 4), Stored(m1, a, v))
           e2 == Machine(gpr, m2.lr, m2.ctr, Plus(m2.pc, 4), Stored(m2, a, v))
<1>1. Stored(m1, a, v) \in Memories /\ Stored(m2, a, v) \in Memories
  BY MachineParts, StoredTyped
<1>2. GoesOn(m1, e1, gpr, Stored(m1, a, v)) /\ GoesOn(m2, e2, gpr, Stored(m2, a, v))
  BY <1>1, MachineGoesOn
<1> HIDE DEF e1, e2
<1>3. SameEffect(m1, m2, e1, e2)
  BY <1>2 DEF SameEffect, GoesOn
<1> QED
  BY <1>3 DEF e1, e2

LEMMA FirstRunsAlike ==
  ASSUME NEW m1 \in Machines, NEW m2 \in Machines, NEW w \in Word, MayBeFirst(w),
         m1.gpr = m2.gpr, m1.lr = m2.lr
  PROVE  SameEffect(m1, m2, Executed(m1, w), Executed(m2, w))
<1> DEFINE gpr == m1.gpr
           a == Address(m1, w)
<1>1. gpr \in [Registers -> Word] /\ RT(w) \in Registers /\ RA(w) \in Registers
  BY MachineParts, Fields
<1>2. /\ a \in Word /\ Address(m2, w) = a /\ gpr[RT(w)] \in Word
      /\ Base(m1, w) = Base(m2, w) /\ Base(m1, w) \in Word
  BY <1>1, AddressTyped DEF Address, Base
<1>3. CASE OpCode(w) = 14
  <2> DEFINE written == [gpr EXCEPT ![RT(w)] = a]
  <2>1. written \in [Registers -> Word]
    BY <1>1, <1>2
  <2>2. Executed(m1, w) = Machine(written, m1.lr, m1.ctr, Plus(m1.pc, 4), m1.mem)
    BY <1>3, Decoded, AddiRuns
  <2>3. Executed(m2, w) = Machine(written, m2.lr, m2.ctr, Plus(m2.pc, 4), m2.mem)
    BY <1>3, <1>2, Decoded, AddiRuns
  <2> HIDE DEF written
  <2> QED
    BY <2>1, <2>2, <2>3, WriteAlike
<1>4. CASE OpCode(w) = 15
  <2> DEFINE sum == <<(Base(m1, w)[1] + w[2]) % 65536, Base(m1, w)[2]>>
  <2>4. Base(m1, w)[1] + w[2] \in Int /\ Base(m1, w)[2] \in Half
    BY <1>2, WordParts
  <2>5. sum \in Word
    BY <2>4, RemainderIsHalf, PairIsWord
  <2> DEFINE written == [gpr EXCEPT ![RT(w)] = sum]
  <2>1. written \in [Registers -> Word]
    BY <1>1, <2>5
  <2>2. Executed(m1, w) = Machine(written, m1.lr, m1.ctr, Plus(m1.pc, 4), m1.mem)
    BY <1>4, Decoded, AddisRuns
  <2>3. Executed(m2, w) = Machine(written, m2.lr, m2.ctr, Plus(m2.pc, 4), m2.mem)
    BY <1>4, <1>2, Decoded, AddisRuns
  <2> HIDE DEF written
  <2> QED
    BY <2>1, <2>2, <2>3, WriteAlike
<1>5. CASE OpCode(w) = 36
  <2> DEFINE written == gpr
  <2>1. written \in [Registers -> Word]
    BY <1>1
  <2>2. Executed(m1, w) = Machine(written, m1.lr, m1.ctr, Plus(m1.pc, 4), Stored(m1, a, gpr[RT(w)]))
    BY <1>5, Decoded, StwRuns
  <2>3. Executed(m2, w) = Machine(written, m2.lr, m2.ctr, Plus(m2.pc, 4), Stored(m2, a, gpr[RT(w)]))
    BY <1>5, <1>2, Decoded, StwRuns
  <2> HIDE DEF written
  <2> QED
    BY <1>1, <1>2, <2>1, <2>2, <2>3, StoreAlike
<1>6. CASE OpCode(w) = 37
  <2> DEFINE written == [gpr EXCEPT ![RA(w)] = a]
  <2>1. written \in [Registers -> Word]
    BY <1>1, <1>2
  <2>2. Executed(m1, w) = Machine(written, m1.lr, m1.ctr, Plus(m1.pc, 4), Stored(m1, a, gpr[RT(w)]))
    BY <1>6, Decoded, StwuRuns
  <2>3. Executed(m2, w) = Machine(written, m2.lr, m2.ctr, Plus(m2.pc, 4), Stored(m2, a, gpr[RT(w)]))
    BY <1>6, <1>2, Decoded, StwuRuns
  <2> HIDE DEF written
  <2> QED
    BY <1>1, <1>2, <2>1, <2>2, <2>3, StoreAlike
<1>7. CASE Moves(w, 8, 339)
  <2> DEFINE written == [gpr EXCEPT ![RT(w)] = m1.lr]
  <2>1. written \in [Registers -> Word]
    BY <1>1, MachineParts
  <2>2. Executed(m1, w) = Machine(written, m1.lr, m1.ctr, Plus(m1.pc, 4), m1.mem)
    BY <1>7, Decoded, MflrRuns
  <2>3. Executed(m2, w) = Machine(written, m2.lr, m2.ctr, Plus(m2.pc, 4), m2.mem)
    BY <1>7, <1>2, Decoded, MflrRuns
  <2> HIDE DEF written
  <2> QED
    BY <2>1, <2>2, <2>3, WriteAlike
<1> QED
  BY <1>3, <1>4, <1>5, <1>6, <1>7 DEF MayBeFirst

-----------------------------------------------------------------------------
(* The trampoline, instruction by instruction. *)

Back == Plus(hook.source, 4)
Scratch == Plus(Stack, -32)

\* The hook function has called real.
CalledReal ==
  HookOf /\ origin \in Machines /\ origin.pc = Jumps /\ origin.mem = <<>> /\ origin.gpr[1] = Stack

Saved == Stored(origin, Scratch, origin.gpr[3])
With(n, value) == [origin.gpr EXCEPT ![n] = value]
Behind(k, gpr, ctr, mem) == Machine(gpr, origin.lr, ctr, Plus(Jumps, 4 * k), mem)

\* The original, entered with LR in r13, behind its first instruction.
Original == Executed([origin EXCEPT !.pc = hook.source, !.gpr[13] = origin.lr], hook.first)

\* So is the trampoline, but for ctr, pc and the word it stores.
RanFirst(m) ==
  /\ m \in Machines /\ Original \in Machines /\ Original.pc = Back
  /\ m.gpr = Original.gpr /\ m.lr = Original.lr /\ m.ctr = Back
  /\ \A a \in (DOMAIN m.mem \cup DOMAIN Original.mem) \ {Scratch} : m.mem[a] = Original.mem[a]

\* What the processor is behind k instructions of the trampoline.
Ran(k) ==
  CASE k = 0 -> cpu = Behind(0, origin.gpr, origin.ctr, origin.mem)
    [] k = 1 -> cpu = Behind(1, origin.gpr, origin.ctr, Saved)
    [] k = 2 -> cpu = Behind(2, With(3, <<Back[1], 0>>), origin.ctr, Saved)
    [] k = 3 -> cpu = Behind(3, With(3, Back), origin.ctr, Saved)
    [] k = 4 -> cpu = Behind(4, With(3, Back), Back, Saved)
    [] k = 5 -> cpu = Behind(5, origin.gpr, Back, Saved)
    [] k = 6 -> cpu = Behind(6, With(13, origin.lr), Back, Saved)
    [] k = 7 -> RanFirst(cpu) /\ cpu.pc = Plus(Jumps, 28)
    [] k = 8 -> RanFirst(cpu) /\ cpu.pc = Back

LEMMA RanKnown ==
  /\ Ran(0) <=> cpu = Behind(0, origin.gpr, origin.ctr, origin.mem)
  /\ Ran(1) <=> cpu = Behind(1, origin.gpr, origin.ctr, Saved)
  /\ Ran(2) <=> cpu = Behind(2, With(3, <<Back[1], 0>>), origin.ctr, Saved)
  /\ Ran(3) <=> cpu = Behind(3, With(3, Back), origin.ctr, Saved)
  /\ Ran(4) <=> cpu = Behind(4, With(3, Back), Back, Saved)
  /\ Ran(5) <=> cpu = Behind(5, origin.gpr, Back, Saved)
  /\ Ran(6) <=> cpu = Behind(6, With(13, origin.lr), Back, Saved)
  /\ Ran(7) <=> RanFirst(cpu) /\ cpu.pc = Plus(Jumps, 28)
  /\ Ran(8) <=> RanFirst(cpu) /\ cpu.pc = Back
BY DEF Ran

LEMMA ConstantsTyped ==
  ASSUME CalledReal
  PROVE  /\ Back \in Word /\ Scratch \in Word /\ Jumps \in Word /\ hook.first \in Word
         /\ MayBeFirst(hook.first) /\ hook.source \in Word /\ Saved \in Memories
         /\ Back[1] \in Half /\ Back[2] \in Half /\ Back = <<Back[1], Back[2]>>
         /\ <<Back[1], 0>> \in Word /\ Plus(Jumps, 0) = Jumps
         /\ \A k \in 0..8 : Plus(Jumps, 4 * k) \in Word
         /\ \A k \in 0..7 : Plus(Plus(Jumps, 4 * k), 4) = Plus(Jumps, 4 * (k + 1))
         /\ \A k \in 0..7 : Plus(Jumps, 4 * k) # Back
         /\ \A j, k \in 0..8 : Plus(Jumps, 4 * j) = Plus(Jumps, 4 * k) => j = k
<1>1. /\ Jumps \in Word /\ Stack \in Word /\ hook.source \in Word /\ hook.first \in Word
      /\ hook.source \in Sources /\ hook.first \in Firsts
  BY WordsAssumption DEF CalledReal, HookOf
<1>2. Back \in Word /\ Scratch \in Word
  BY <1>1, PlusTyped DEF Back, Scratch
<1>3. Back[1] \in Half /\ Back[2] \in Half /\ Back = <<Back[1], Back[2]>>
  BY <1>2, WordParts
<1>4. <<Back[1], 0>> \in Word
  <2>1. 0 \in Half
    BY DEF Half
  <2> QED
    BY <1>3, <2>1, PairIsWord
<1>5. Saved \in Memories
  <2>1. origin \in Machines
    BY DEF CalledReal
  <2>2. origin.gpr \in [Registers -> Word] /\ origin.mem \in Memories
    BY <2>1, MachineParts
  <2>3. origin.gpr[3] \in Word
    BY <2>2 DEF Registers
  <2> QED
    BY <1>2, <2>2, <2>3, StoredTyped DEF Saved
<1>6. \A k \in 0..8 : Plus(Jumps, 4 * k) \in Word
  BY <1>1, PlusTyped
<1>7. ASSUME NEW k \in 0..7 PROVE Plus(Plus(Jumps, 4 * k), 4) = Plus(Jumps, 4 * (k + 1))
  <2>1. 4 * k \in 0..64 /\ 4 * k + 4 = 4 * (k + 1)
    OBVIOUS
  <2> QED
    BY <1>1, <2>1, PlusPlus
<1>8. ASSUME NEW j \in 0..8, NEW k \in 0..8, Plus(Jumps, 4 * j) = Plus(Jumps, 4 * k)
      PROVE  j = k
  <2>1. 4 * j \in 0..64 /\ 4 * k \in 0..64
    OBVIOUS
  <2>2. 4 * j = 4 * k
    BY <1>1, <1>8, <2>1, PlusDiffers
  <2> QED
    BY <2>2
<1>9. \A k \in 0..7 : Plus(Jumps, 4 * k) # Back
  BY <1>1, FirstsAssumption DEF Back
<1>10. MayBeFirst(hook.first) /\ Plus(Jumps, 0) = Jumps
  BY <1>1, FirstsAssumption, PlusNothing
<1> QED
  BY <1>1, <1>2, <1>3, <1>4, <1>5, <1>6, <1>7, <1>8, <1>9, <1>10

LEMMA AtTyped ==
  ASSUME CalledReal, NEW k \in 0..7, NEW gpr \in [Registers -> Word], NEW ctr \in Word,
         NEW mem \in Memories
  PROVE  /\ Behind(k, gpr, ctr, mem) \in Machines
         /\ Behind(k, gpr, ctr, mem).gpr = gpr /\ Behind(k, gpr, ctr, mem).lr = origin.lr
         /\ Behind(k, gpr, ctr, mem).ctr = ctr /\ Behind(k, gpr, ctr, mem).mem = mem
         /\ Behind(k, gpr, ctr, mem).pc = Plus(Jumps, 4 * k)
         /\ Plus(Behind(k, gpr, ctr, mem).pc, 4) = Plus(Jumps, 4 * (k + 1))
<1>1. origin.lr \in Word /\ Plus(Jumps, 4 * k) \in Word
  BY MachineParts, ConstantsTyped DEF CalledReal
<1>2. Plus(Plus(Jumps, 4 * k), 4) = Plus(Jumps, 4 * (k + 1))
  BY ConstantsTyped
<1> QED
  BY <1>1, <1>2, MachineTyped DEF Behind

LEMMA JumpWords ==
  /\ HookJumps[1] = DForm(36, 3, 1, -32) /\ HookJumps[2] = DForm(15, 3, 0, Back[1])
  /\ HookJumps[3] = DForm(24, 3, 3, Back[2]) /\ HookJumps[4] = MoveSpr(3, 9, 467)
  /\ HookJumps[5] = DForm(32, 3, 1, -32) /\ HookJumps[6] = MoveSpr(13, 8, 339)
  /\ HookJumps[7] = hook.first /\ OpCode(HookJumps[8]) = 19
<1>1. HookJumps[8] = <<20096, 1056>>
  BY DEF HookJumps
<1>2. OpCode(HookJumps[8]) = 19
  BY <1>1 DEF OpCode
<1> QED
  BY <1>2 DEF HookJumps, Back

LEMMA BackTyped ==
  ASSUME CalledReal
  PROVE  /\ Back \in Word /\ <<Back[1], 0>> \in Word /\ <<Back[1], Back[2]>> = Back
         /\ Back[1] \in Int /\ Back[1] % 65536 = Back[1]
         /\ Back[2] \in Int /\ Back[2] % 65536 = Back[2]
<1>1. Back \in Word /\ <<Back[1], 0>> \in Word /\ Back = <<Back[1], Back[2]>>
  BY ConstantsTyped
<1>2. Back[1] \in Half /\ Back[2] \in Half
  BY ConstantsTyped
<1>3. \A h \in Half : h \in Int /\ h % 65536 = h
  BY DEF Half
<1> QED
  BY <1>1, <1>2, <1>3

LEMMA OriginTyped ==
  ASSUME CalledReal
  PROVE  /\ origin.gpr \in [Registers -> Word] /\ origin.gpr[1] = Stack
         /\ origin.lr \in Word /\ origin.ctr \in Word /\ origin.mem \in Memories
<1>1. origin \in Machines /\ origin.gpr[1] = Stack
  BY DEF CalledReal
<1> QED
  BY <1>1, MachineParts

LEMMA SavedTyped ==
  ASSUME CalledReal
  PROVE  Saved \in Memories
BY ConstantsTyped

LEMMA WithTyped ==
  ASSUME CalledReal, NEW n \in Registers, NEW v \in Word
  PROVE  /\ With(n, v) \in [Registers -> Word] /\ With(n, v)[n] = v
         /\ \A j \in Registers \ {n} : With(n, v)[j] = origin.gpr[j]
BY OriginTyped DEF With

LEMMA WithAgain ==
  ASSUME CalledReal, NEW n \in Registers, NEW v \in Word, NEW u
  PROVE  [With(n, v) EXCEPT ![n] = u] = With(n, u)
BY OriginTyped DEF With

LEMMA WithItsOwn ==
  ASSUME CalledReal, NEW n \in Registers
  PROVE  With(n, origin.gpr[n]) = origin.gpr
BY OriginTyped DEF With

\* The machine m comes to the instruction n next.
Waits(m, n, gpr, ctr, mem) ==
  /\ m \in Machines /\ m.gpr = gpr /\ m.lr = origin.lr /\ m.ctr = ctr /\ m.mem = mem
  /\ Plus(m.pc, 4) = Plus(Jumps, 4 * n)

LEMMA AtWaits ==
  ASSUME CalledReal, NEW k \in 0..7, NEW n, n = k + 1, NEW gpr \in [Registers -> Word],
         NEW ctr \in Word, NEW mem \in Memories
  PROVE  Waits(Behind(k, gpr, ctr, mem), n, gpr, ctr, mem)
BY AtTyped DEF Waits

LEMMA WaitsGoesOn ==
  ASSUME NEW m, NEW n, NEW gpr, NEW ctr, NEW mem, Waits(m, n, gpr, ctr, mem),
         NEW gpr2, NEW ctr2, NEW mem2
  PROVE  Machine(gpr2, m.lr, ctr2, Plus(m.pc, 4), mem2) = Behind(n, gpr2, ctr2, mem2)
BY DEF Waits, Behind

LEMMA Minus32 ==
  ASSUME NEW d \in Int, d + 32 = 0
  PROVE  d % 65536 = 65504 /\ Signed(65504) = d
<1>1. d % 65536 = 65504
  OBVIOUS
<1>2. Signed(65504) = d
  BY DEF Signed
<1> QED
  BY <1>1, <1>2

LEMMA ScratchAddress ==
  ASSUME NEW op \in 0..63, NEW m, m.gpr[1] = Stack, NEW w, w = DForm(op, 3, 1, -32)
  PROVE  Address(m, w) = Scratch /\ RT(w) = 3 /\ OpCode(w) = op
<1> DEFINE d == -32
<1>1. d \in Int /\ d + 32 = 0 /\ w = DForm(op, 3, 1, d) /\ Scratch = Plus(Stack, d)
  <2>1. d \in Int /\ d + 32 = 0
    OBVIOUS
  <2>2. w = DForm(op, 3, 1, d)
    OBVIOUS
  <2>3. Scratch = Plus(Stack, d)
    BY Zenon DEF Scratch
  <2> QED
    BY <2>1, <2>2, <2>3
<1> HIDE DEF d
<1>2. 3 \in Registers /\ 1 \in Registers
  BY DEF Registers
<1>3. OpCode(w) = op /\ RT(w) = 3 /\ RA(w) = 1
  BY <1>1, <1>2, DFormParts
<1>4. w[2] = d % 65536
  BY <1>1 DEF DForm
<1>5. Base(m, w) = Stack
  BY <1>3 DEF Base
<1>6. Signed(w[2]) = d
  BY <1>1, <1>4, Minus32
<1> QED
  BY <1>1, <1>3, <1>5, <1>6 DEF Address

LEMMA Jump0 ==
  ASSUME CalledReal, Ran(0)
  PROVE  Executed(cpu, HookJumps[1]) = Behind(1, origin.gpr, origin.ctr, Saved)
<1> DEFINE w == HookJumps[1]
           gpr == origin.gpr
<1>1. cpu = Behind(0, gpr, origin.ctr, origin.mem)
  BY RanKnown
<1>2. Waits(cpu, 1, gpr, origin.ctr, origin.mem)
  BY <1>1, OriginTyped, AtWaits
<1>3. OpCode(w) = 36 /\ RT(w) = 3 /\ Address(cpu, w) = Scratch
  <2>1. cpu.gpr[1] = Stack
    BY <1>2, OriginTyped DEF Waits
  <2>2. w = DForm(36, 3, 1, -32) /\ 36 \in 0..63
    BY JumpWords
  <2> QED
    BY <2>1, <2>2, ScratchAddress
<1> HIDE DEF w
<1>4. Executed(cpu, w) =
        Machine(cpu.gpr, cpu.lr, cpu.ctr, Plus(cpu.pc, 4), Stored(cpu, Scratch, cpu.gpr[3]))
  <2>1. cpu \in Machines
    BY <1>2 DEF Waits
  <2> QED
    BY <2>1, <1>3, Decoded, StwRuns
<1>5. Stored(cpu, Scratch, cpu.gpr[3]) = Saved
  BY <1>2 DEF Stored, Saved, Waits
<1>6. cpu.gpr = gpr /\ cpu.ctr = origin.ctr
  BY <1>2 DEF Waits
<1>7. Executed(cpu, w) = Machine(gpr, cpu.lr, origin.ctr, Plus(cpu.pc, 4), Saved)
  BY <1>4, <1>5, <1>6
<1> QED
  BY <1>2, <1>7, WaitsGoesOn DEF w

LEMMA Jump1 ==
  ASSUME CalledReal, Ran(1)
  PROVE  Executed(cpu, HookJumps[2]) = Behind(2, With(3, <<Back[1], 0>>), origin.ctr, Saved)
<1> DEFINE w == HookJumps[2]
           gpr == origin.gpr
           high == Back[1]
<1>1. Waits(cpu, 2, gpr, origin.ctr, Saved)
  BY RanKnown, OriginTyped, SavedTyped, AtWaits
<1>2. cpu \in Machines /\ cpu.gpr = gpr /\ cpu.ctr = origin.ctr /\ cpu.mem = Saved
  BY <1>1 DEF Waits
<1>3. high \in Int /\ high % 65536 = high
  BY BackTyped
<1>4. OpCode(w) = 15 /\ RT(w) = 3 /\ RA(w) = 0
  <2>1. 3 \in Registers /\ 0 \in Registers /\ 15 \in 0..63
    BY DEF Registers
  <2> QED
    BY <2>1, JumpWords, DFormParts
<1>5. w[2] = high
  <2>1. w[2] = high % 65536
    BY JumpWords DEF DForm
  <2> QED
    BY <1>3, <2>1
<1> HIDE DEF w, high
<1>6. <<(Base(cpu, w)[1] + w[2]) % 65536, Base(cpu, w)[2]>> = <<high, 0>>
  <2>1. Base(cpu, w)[1] = 0 /\ Base(cpu, w)[2] = 0
    BY <1>4 DEF Base
  <2> QED
    BY <1>3, <1>5, <2>1
<1>7. Executed(cpu, w) =
        Machine([gpr EXCEPT ![3] = <<high, 0>>], cpu.lr, origin.ctr, Plus(cpu.pc, 4), Saved)
  BY <1>2, <1>4, <1>6, Decoded, AddisRuns
<1>8. [gpr EXCEPT ![3] = <<high, 0>>] = With(3, <<high, 0>>)
  BY DEF With
<1> QED
  BY <1>1, <1>7, <1>8, WaitsGoesOn DEF w, high

LEMMA Jump2 ==
  ASSUME CalledReal, Ran(2)
  PROVE  Executed(cpu, HookJumps[3]) = Behind(3, With(3, Back), origin.ctr, Saved)
<1> DEFINE w == HookJumps[3]
           half == <<Back[1], 0>>
           was == With(3, half)
           low == Back[2]
<1>1. 3 \in Registers
  BY DEF Registers
<1>2. half \in Word /\ Back \in Word /\ <<half[1], low>> = Back /\ half[2] = 0
  BY BackTyped
<1>3. low \in Int /\ low % 65536 = low
  BY BackTyped
<1> HIDE DEF half
<1>4. was \in [Registers -> Word] /\ was[3] = half
  BY <1>1, <1>2, WithTyped
<1>5. Waits(cpu, 3, was, origin.ctr, Saved)
  BY <1>4, RanKnown, OriginTyped, SavedTyped, AtWaits DEF half
<1>6. cpu \in Machines /\ cpu.gpr = was /\ cpu.ctr = origin.ctr /\ cpu.mem = Saved
  BY <1>5 DEF Waits
<1>7. OpCode(w) = 24 /\ RT(w) = 3 /\ RA(w) = 3
  <2>1. 24 \in 0..63
    OBVIOUS
  <2> QED
    BY <1>1, <2>1, JumpWords, DFormParts
<1>8. w[2] = low
  <2>1. w[2] = low % 65536
    BY JumpWords DEF DForm
  <2> QED
    BY <1>3, <2>1
<1>9. [was EXCEPT ![3] = Back] = With(3, Back)
  BY <1>1, <1>2, WithAgain
<1> HIDE DEF w, low, was
<1>10. Executed(cpu, w) = Ori(cpu, w)
  BY <1>2, <1>4, <1>6, <1>7, Decoded
<1>11. Executed(cpu, w) =
         Machine([was EXCEPT ![3] = Back], cpu.lr, origin.ctr, Plus(cpu.pc, 4), Saved)
  BY <1>2, <1>4, <1>6, <1>7, <1>8, <1>10, OriRuns
<1>12. Executed(cpu, w) = Machine(With(3, Back), cpu.lr, origin.ctr, Plus(cpu.pc, 4), Saved)
  BY <1>9, <1>11
<1> QED
  BY <1>5, <1>12, WaitsGoesOn DEF w

LEMMA Jump3 ==
  ASSUME CalledReal, Ran(3)
  PROVE  Executed(cpu, HookJumps[4]) = Behind(4, With(3, Back), Back, Saved)
<1> DEFINE w == HookJumps[4]
           gpr == With(3, Back)
<1>1. 3 \in Registers /\ 9 \in Registers
  BY DEF Registers
<1>2. gpr \in [Registers -> Word] /\ gpr[3] = Back
  BY <1>1, BackTyped, WithTyped
<1>3. Waits(cpu, 4, gpr, origin.ctr, Saved)
  BY <1>2, RanKnown, OriginTyped, SavedTyped, AtWaits
<1>4. cpu \in Machines /\ cpu.gpr = gpr /\ cpu.mem = Saved
  BY <1>3 DEF Waits
<1>5. Moves(w, 9, 467) /\ RT(w) = 3
  BY <1>1, JumpWords, MoveSprParts
<1> HIDE DEF w, gpr
<1>6. Executed(cpu, w) = Machine(gpr, cpu.lr, Back, Plus(cpu.pc, 4), Saved)
  BY <1>2, <1>4, <1>5, Decoded, MtctrRuns
<1> QED
  BY <1>3, <1>6, WaitsGoesOn DEF w, gpr

LEMMA Jump4 ==
  ASSUME CalledReal, Ran(4)
  PROVE  Executed(cpu, HookJumps[5]) = Behind(5, origin.gpr, Back, Saved)
<1> DEFINE w == HookJumps[5]
           gpr == With(3, Back)
<1>1. 3 \in Registers /\ 1 \in Registers \ {3}
  BY DEF Registers
<1>2. gpr \in [Registers -> Word] /\ gpr[1] = Stack
  <2>1. gpr \in [Registers -> Word] /\ gpr[1] = origin.gpr[1]
    BY <1>1, BackTyped, WithTyped
  <2> QED
    BY <2>1, OriginTyped
<1>3. Waits(cpu, 5, gpr, Back, Saved)
  BY <1>2, RanKnown, BackTyped, SavedTyped, AtWaits
<1>4. cpu \in Machines /\ cpu.gpr = gpr /\ cpu.ctr = Back /\ cpu.mem = Saved
  BY <1>3 DEF Waits
<1>5. OpCode(w) = 32 /\ RT(w) = 3 /\ Address(cpu, w) = Scratch
  <2>1. 32 \in 0..63 /\ cpu.gpr[1] = Stack
    BY <1>2, <1>4
  <2> QED
    BY <2>1, JumpWords, ScratchAddress
<1>6. Saved[Scratch] = origin.gpr[3]
  BY DEF Saved, Stored
<1>7. [gpr EXCEPT ![3] = origin.gpr[3]] = origin.gpr
  BY <1>1, BackTyped, WithAgain, WithItsOwn
<1> HIDE DEF w, gpr
<1>8. Executed(cpu, w) =
        Machine([gpr EXCEPT ![3] = origin.gpr[3]], cpu.lr, Back, Plus(cpu.pc, 4), Saved)
  BY <1>4, <1>5, <1>6, Decoded, LwzRuns
<1> QED
  BY <1>3, <1>7, <1>8, WaitsGoesOn DEF w

LEMMA Jump5 ==
  ASSUME CalledReal, Ran(5)
  PROVE  Executed(cpu, HookJumps[6]) = Behind(6, With(13, origin.lr), Back, Saved)
<1> DEFINE w == HookJumps[6]
           gpr == origin.gpr
<1>1. Waits(cpu, 6, gpr, Back, Saved)
  BY RanKnown, OriginTyped, BackTyped, SavedTyped, AtWaits
<1>2. cpu \in Machines /\ cpu.gpr = gpr /\ cpu.lr = origin.lr /\ cpu.ctr = Back /\ cpu.mem = Saved
  BY <1>1 DEF Waits
<1>3. Moves(w, 8, 339) /\ RT(w) = 13
  <2>1. 13 \in Registers /\ 8 \in Registers
    BY DEF Registers
  <2> QED
    BY <2>1, JumpWords, MoveSprParts
<1> HIDE DEF w
<1>4. Executed(cpu, w) =
        Machine([gpr EXCEPT ![13] = origin.lr], cpu.lr, Back, Plus(cpu.pc, 4), Saved)
  BY <1>2, <1>3, Decoded, MflrRuns
<1>5. [gpr EXCEPT ![13] = origin.lr] = With(13, origin.lr)
  BY DEF With
<1> QED
  BY <1>1, <1>4, <1>5, WaitsGoesOn DEF w

LEMMA MemoryAlike ==
  ASSUME CalledReal, NEW m1, NEW m2, m1.mem = Saved, m2.mem = origin.mem, NEW e1, NEW e2,
         SameEffect(m1, m2, e1, e2)
  PROVE  \A a \in (DOMAIN e1.mem \cup DOMAIN e2.mem) \ {Scratch} : e1.mem[a] = e2.mem[a]
<1>1. \A a \in (DOMAIN Saved \cup DOMAIN origin.mem) \ {Scratch} : Saved[a] = origin.mem[a]
  BY DEF Saved, Stored
<1>2. CASE e1.mem = m1.mem /\ e2.mem = m2.mem
  BY <1>1, <1>2
<1>3. CASE \E a, v \in Word : e1.mem = Stored(m1, a, v) /\ e2.mem = Stored(m2, a, v)
  <2>1. PICK b \in Word, v \in Word : e1.mem = Stored(m1, b, v) /\ e2.mem = Stored(m2, b, v)
    BY <1>3
  <2>2. DOMAIN Saved = DOMAIN origin.mem \cup {Scratch}
    BY DEF Saved, Stored
  <2>3. DOMAIN e1.mem = DOMAIN Saved \cup {b} /\ DOMAIN e2.mem = DOMAIN origin.mem \cup {b}
    BY <2>1 DEF Stored
  <2> SUFFICES ASSUME NEW a \in (DOMAIN e1.mem \cup DOMAIN e2.mem) \ {Scratch}
               PROVE  e1.mem[a] = e2.mem[a]
    OBVIOUS
  <2>4. a \in DOMAIN origin.mem \cup {b} /\ a \in DOMAIN Saved \cup {b}
    BY <2>2, <2>3
  <2>5. e1.mem[a] = (IF a = b THEN v ELSE Saved[a])
    BY <2>1, <2>4 DEF Stored
  <2>6. e2.mem[a] = (IF a = b THEN v ELSE origin.mem[a])
    BY <2>1, <2>4 DEF Stored
  <2> QED
    BY <1>1, <2>4, <2>5, <2>6
<1> QED
  BY <1>2, <1>3 DEF SameEffect

LEMMA Jump6 ==
  ASSUME CalledReal, Ran(6)
  PROVE  /\ RanFirst(Executed(cpu, HookJumps[7]))
         /\ Executed(cpu, HookJumps[7]).pc = Plus(Jumps, 4 * 7)
<1> DEFINE w == hook.first
           gpr == With(13, origin.lr)
           entry == [origin EXCEPT !.pc = hook.source, !.gpr[13] = origin.lr]
<1>1. gpr \in [Registers -> Word]
  <2>1. 13 \in Registers
    BY DEF Registers
  <2> QED
    BY <2>1, OriginTyped, WithTyped
<1>2. Waits(cpu, 7, gpr, Back, Saved)
  BY <1>1, RanKnown, BackTyped, SavedTyped, AtWaits
<1>3. entry = Machine(gpr, origin.lr, origin.ctr, hook.source, origin.mem)
  <2> DEFINE there == [origin EXCEPT !.pc = hook.source]
  <2>1. origin \in Machines
    BY DEF CalledReal
  <2>2. entry = [there EXCEPT !.gpr = [@ EXCEPT ![13] = origin.lr]]
    BY <2>1
  <2>3. there = Machine(origin.gpr, origin.lr, origin.ctr, hook.source, origin.mem)
    BY <2>1 DEF Machine, Machines
  <2> HIDE DEF there, entry
  <2>4. entry = Machine([origin.gpr EXCEPT ![13] = origin.lr], origin.lr, origin.ctr,
                        hook.source, origin.mem)
    BY <2>2, <2>3 DEF Machine
  <2> QED
    BY <2>4 DEF With
<1>4. hook.source \in Word /\ w \in Word /\ MayBeFirst(w)
  BY ConstantsTyped
<1> HIDE DEF w, entry, gpr
<1>5. /\ entry \in Machines /\ entry.gpr = gpr /\ entry.lr = origin.lr
      /\ entry.pc = hook.source /\ entry.mem = origin.mem
  <2>1. origin.lr \in Word /\ origin.ctr \in Word /\ origin.mem \in Memories
    BY OriginTyped
  <2> QED
    BY <1>1, <1>3, <1>4, <2>1, MachineTyped
<1>6. /\ cpu \in Machines /\ cpu.gpr = gpr /\ cpu.lr = origin.lr /\ cpu.ctr = Back
      /\ cpu.mem = Saved /\ Plus(cpu.pc, 4) = Plus(Jumps, 4 * 7)
  BY <1>2 DEF Waits
<1> DEFINE e1 == Executed(cpu, w)
           e2 == Executed(entry, w)
<1>7. SameEffect(cpu, entry, e1, e2)
  BY <1>4, <1>5, <1>6, FirstRunsAlike
<1> HIDE DEF e1, e2
<1>8. \A a \in (DOMAIN e1.mem \cup DOMAIN e2.mem) \ {Scratch} : e1.mem[a] = e2.mem[a]
  BY <1>5, <1>6, <1>7, MemoryAlike
<1>9. e2 = Original
  BY DEF e2, entry, w, Original
<1>10. /\ e1 \in Machines /\ e2 \in Machines /\ e1.gpr = e2.gpr /\ e1.lr = e2.lr /\ e1.ctr = Back
       /\ e2.pc = Back /\ e1.pc = Plus(Jumps, 4 * 7)
  BY <1>5, <1>6, <1>7 DEF SameEffect, Back
<1>11. RanFirst(e1)
  BY <1>8, <1>9, <1>10 DEF RanFirst
<1>12. Executed(cpu, HookJumps[7]) = e1
  BY JumpWords DEF e1, w
<1> QED
  BY <1>10, <1>11, <1>12

LEMMA Jump7 ==
  ASSUME CalledReal, Ran(7)
  PROVE  RanFirst(Executed(cpu, HookJumps[8])) /\ Executed(cpu, HookJumps[8]).pc = Back
<1> DEFINE e == Executed(cpu, HookJumps[8])
<1>1. RanFirst(cpu)
  BY RanKnown
<1>2. cpu \in Machines /\ cpu.ctr = Back
  BY <1>1 DEF RanFirst
<1>3. e = Machine(cpu.gpr, cpu.lr, cpu.ctr, cpu.ctr, cpu.mem)
  BY <1>2, JumpWords, Decoded, BctrRuns
<1> HIDE DEF e
<1>4. /\ e \in Machines /\ e.gpr = cpu.gpr /\ e.lr = cpu.lr /\ e.ctr = Back /\ e.mem = cpu.mem
      /\ e.pc = Back
  BY <1>2, <1>3, MachineParts, MachineTyped
<1>5. RanFirst(e)
  BY <1>1, <1>4 DEF RanFirst
<1> QED
  BY <1>4, <1>5 DEF e

-----------------------------------------------------------------------------
(* Its steps. *)

LEMMA OriginUnchanged ==
  ASSUME UNCHANGED <<hook, origin>>
  PROVE  /\ Back' = Back /\ Scratch' = Scratch /\ Saved' = Saved /\ Original' = Original
         /\ CalledReal' <=> CalledReal
         /\ \A n, v : With(n, v)' = With(n, v)
         /\ \A k, gpr, ctr, mem : Behind(k, gpr, ctr, mem)' = Behind(k, gpr, ctr, mem)
         /\ \A m : RanFirst(m)' <=> RanFirst(m)
<1>1. Back' = Back /\ Scratch' = Scratch
  BY DEF Back, Scratch
<1>2. Saved' = Saved
  BY <1>1 DEF Saved
<1>3. Original' = Original
  BY DEF Original
<1>4. CalledReal' <=> CalledReal
  BY DEF CalledReal, HookOf
<1>5. ASSUME NEW n, NEW v PROVE With(n, v)' = With(n, v)
  BY DEF With
<1>6. ASSUME NEW k, NEW gpr, NEW ctr, NEW mem
      PROVE  Behind(k, gpr, ctr, mem)' = Behind(k, gpr, ctr, mem)
  BY DEF Behind
<1>7. ASSUME NEW m PROVE RanFirst(m)' <=> RanFirst(m)
  BY <1>1, <1>3 DEF RanFirst
<1> QED
  BY <1>1, <1>2, <1>3, <1>4, <1>5, <1>6, <1>7

LEMMA RanNext ==
  ASSUME UNCHANGED <<hook, origin>>
  PROVE  /\ cpu' = Behind(1, origin.gpr, origin.ctr, Saved) => Ran(1)'
         /\ cpu' = Behind(2, With(3, <<Back[1], 0>>), origin.ctr, Saved) => Ran(2)'
         /\ cpu' = Behind(3, With(3, Back), origin.ctr, Saved) => Ran(3)'
         /\ cpu' = Behind(4, With(3, Back), Back, Saved) => Ran(4)'
         /\ cpu' = Behind(5, origin.gpr, Back, Saved) => Ran(5)'
         /\ cpu' = Behind(6, With(13, origin.lr), Back, Saved) => Ran(6)'
         /\ RanFirst(cpu') /\ cpu'.pc = Plus(Jumps, 28) => Ran(7)'
         /\ RanFirst(cpu') /\ cpu'.pc = Back => Ran(8)'
BY OriginUnchanged DEF Ran

LEMMA RanWhere ==
  ASSUME CalledReal, NEW k \in 0..8, Ran(k)
  PROVE  cpu \in Machines /\ (\/ k \in 0..7 /\ cpu.pc = Plus(Jumps, 4 * k)
                              \/ k = 8 /\ cpu.pc = Back)
<1>1. 3 \in Registers /\ 13 \in Registers
  BY DEF Registers
<1>2. /\ origin.gpr \in [Registers -> Word] /\ With(3, Back) \in [Registers -> Word]
      /\ With(3, <<Back[1], 0>>) \in [Registers -> Word]
      /\ With(13, origin.lr) \in [Registers -> Word]
  <2>1. Back \in Word /\ <<Back[1], 0>> \in Word
    BY BackTyped
  <2>2. origin.gpr \in [Registers -> Word] /\ origin.lr \in Word
    BY OriginTyped
  <2> QED
    BY <1>1, <2>1, <2>2, WithTyped
<1>3. /\ origin.ctr \in Word /\ Back \in Word /\ origin.mem \in Memories /\ Saved \in Memories
  BY BackTyped, OriginTyped, SavedTyped
<1>4. ASSUME NEW j \in 0..7, NEW gpr \in [Registers -> Word], NEW ctr \in Word,
             NEW mem \in Memories, cpu = Behind(j, gpr, ctr, mem)
      PROVE  cpu \in Machines /\ cpu.pc = Plus(Jumps, 4 * j)
  BY <1>4, AtTyped
<1>5. k \in {0, 1, 2, 3, 4, 5, 6} => cpu \in Machines /\ cpu.pc = Plus(Jumps, 4 * k)
  <2>1. Ran(0) => cpu \in Machines /\ cpu.pc = Plus(Jumps, 4 * 0)
    BY <1>2, <1>3, <1>4, RanKnown
  <2>2. Ran(1) => cpu \in Machines /\ cpu.pc = Plus(Jumps, 4 * 1)
    BY <1>2, <1>3, <1>4, RanKnown
  <2>3. Ran(2) => cpu \in Machines /\ cpu.pc = Plus(Jumps, 4 * 2)
    BY <1>2, <1>3, <1>4, RanKnown
  <2>4. Ran(3) => cpu \in Machines /\ cpu.pc = Plus(Jumps, 4 * 3)
    BY <1>2, <1>3, <1>4, RanKnown
  <2>5. Ran(4) => cpu \in Machines /\ cpu.pc = Plus(Jumps, 4 * 4)
    BY <1>2, <1>3, <1>4, RanKnown
  <2>6. Ran(5) => cpu \in Machines /\ cpu.pc = Plus(Jumps, 4 * 5)
    BY <1>2, <1>3, <1>4, RanKnown
  <2>7. Ran(6) => cpu \in Machines /\ cpu.pc = Plus(Jumps, 4 * 6)
    BY <1>2, <1>3, <1>4, RanKnown
  <2> QED
    BY <2>1, <2>2, <2>3, <2>4, <2>5, <2>6, <2>7
<1>6. k = 7 => cpu \in Machines /\ cpu.pc = Plus(Jumps, 4 * 7)
  BY RanKnown DEF RanFirst
<1>7. k = 8 => cpu \in Machines /\ cpu.pc = Back
  BY RanKnown DEF RanFirst
<1> QED
  BY <1>5, <1>6, <1>7

LEMMA JumpRuns ==
  ASSUME CalledReal, NEW k \in 0..7, Ran(k), Jump(k)
  PROVE  Ran(k + 1)'
<1>1. UNCHANGED <<hook, origin>> /\ cpu' = Executed(cpu, HookJumps[k + 1])
  BY DEF Jump
<1>2. k = 0 => Ran(1)'
  BY <1>1, Jump0, RanNext
<1>3. k = 1 => Ran(2)'
  BY <1>1, Jump1, RanNext
<1>4. k = 2 => Ran(3)'
  BY <1>1, Jump2, RanNext
<1>5. k = 3 => Ran(4)'
  BY <1>1, Jump3, RanNext
<1>6. k = 4 => Ran(5)'
  BY <1>1, Jump4, RanNext
<1>7. k = 5 => Ran(6)'
  BY <1>1, Jump5, RanNext
<1>8. k = 6 => Ran(7)'
  BY <1>1, Jump6, RanNext
<1>9. k = 7 => Ran(8)'
  BY <1>1, Jump7, RanNext
<1> QED
  BY <1>2, <1>3, <1>4, <1>5, <1>6, <1>7, <1>8, <1>9

-----------------------------------------------------------------------------
(* A whole call. *)

\* The inductive invariant, one part for each stage of a call.
CallInv ==
  /\ stage \in {"none", "hooked", "game", "hook", "real"}
  /\ IF stage = "none" THEN hook = NoHook ELSE HookOf
  /\ stage \in {"none", "hooked"} => cpu = Nowhere /\ origin = Nowhere
  /\ stage = "game" => cpu = origin /\ origin \in Machines /\ origin.pc = hook.source
  /\ stage = "hook" => BranchReachesHook /\ cpu \in Machines /\ origin \in Machines
  /\ stage = "real" => CalledReal /\ \E k \in 0..8 : Ran(k)

LEMMA CallerTyped ==
  ASSUME NEW pc \in Word, NEW r0 \in Values, NEW r3 \in Values, NEW lr \in Word
  PROVE  LET m == Caller(pc, r0, r3, lr)
         IN m \in Machines /\ m.pc = pc /\ m.mem = <<>> /\ m.gpr[1] = Stack
<1> DEFINE gpr == [n \in 0..31 |-> IF n = 1 THEN Stack ELSE IF n = 3 THEN r3 ELSE r0]
<1>1. r0 \in Word /\ r3 \in Word /\ Stack \in Word
  BY WordsAssumption
<1>2. gpr \in [Registers -> Word] /\ gpr[1] = Stack
  BY <1>1 DEF Registers
<1> HIDE DEF gpr
<1>3. Caller(pc, r0, r3, lr) = Machine(gpr, lr, r0, pc, <<>>)
  BY DEF Caller, Machine, gpr
<1> QED
  BY <1>1, <1>2, <1>3, NothingStored, MachineTyped

LEMMA CallStarts == CallInit => CallInv
BY DEF CallInit, CallInv

LEMMA BranchTaken ==
  ASSUME CallInv, TakeBranch
  PROVE  CallInv'
<1>1. /\ stage = "game" /\ stage' = "hook" /\ hook' = hook /\ origin' = origin
      /\ cpu' = Executed(cpu, Branch)
  BY DEF TakeBranch
<1>2. HookOf /\ cpu = origin /\ origin \in Machines /\ origin.pc = hook.source
  BY <1>1 DEF CallInv
<1> DEFINE w == Branch
           to == hook.destination
           lr == IF w[2] % 2 = 1 THEN Plus(origin.pc, 4) ELSE origin.lr
<1>3. OpCode(w) = 18 /\ Target(hook.source, w) = to /\ (w[2] % 2 = 1 <=> hook.kind = "branch")
  BY <1>2, BranchLeads
<1> HIDE DEF w
<1>4. to \in Word
  BY <1>2, WordsAssumption DEF HookOf
<1>5. lr \in Word
  BY <1>2, MachineParts, PlusTyped
<1> HIDE DEF lr, to
<1>6. cpu' = [origin EXCEPT !.pc = to, !.lr = lr]
  <2>1. cpu' = BranchTo(origin, w)
    BY <1>1, <1>2, <1>3, Decoded DEF w
  <2>2. BranchTo(origin, w) = [origin EXCEPT !.pc = Target(origin.pc, w), !.lr = lr]
    BY Zenon DEF BranchTo, lr
  <2> QED
    BY <1>2, <1>3, <2>1, <2>2
<1>7. cpu' \in Machines
  BY <1>2, <1>4, <1>5, <1>6 DEF Machines
<1>8. BranchReachesHook'
  BY <1>1, <1>2, <1>3, <1>6 DEF BranchReachesHook, lr, to
<1>9. HookOf'
  BY <1>1, <1>2 DEF HookOf
<1> QED
  BY <1>1, <1>2, <1>7, <1>8, <1>9 DEF CallInv

LEMMA CallKept ==
  ASSUME CallInv, [CallNext]_callVars
  PROVE  CallInv'
<1>1. CASE UNCHANGED callVars
  BY <1>1, OriginUnchanged DEF callVars, CallInv, HookOf, BranchReachesHook, Ran
<1>2. ASSUME NEW kind \in Kinds, NEW s \in Sources, NEW d \in Destinations, NEW w \in Firsts,
             Hooked(kind, s, d, w)
      PROVE  CallInv'
  <2>1. stage = "none" /\ stage' = "hooked" /\ cpu' = cpu /\ origin' = origin
    BY <1>2 DEF Hooked
  <2>2. HookOf'
    BY <1>2 DEF Hooked, HookOf
  <2> QED
    BY <2>1, <2>2 DEF CallInv
<1>3. ASSUME NEW r0 \in Values, NEW r3 \in Values, NEW lr \in Values, GameCalls(r0, r3, lr)
      PROVE  CallInv'
  <2>1. /\ stage = "hooked" /\ stage' = "game" /\ hook' = hook
        /\ cpu' = Caller(hook.source, r0, r3, lr) /\ origin' = cpu'
    BY <1>3 DEF GameCalls, MakeCall
  <2>2. HookOf /\ HookOf'
    BY <2>1 DEF CallInv, HookOf
  <2>3. hook.source \in Word /\ lr \in Word
    BY <2>2, WordsAssumption DEF HookOf
  <2>4. origin' \in Machines /\ origin'.pc = hook.source
    BY <2>1, <2>3, CallerTyped
  <2> QED
    BY <2>1, <2>2, <2>4 DEF CallInv
<1>4. CASE TakeBranch
  BY <1>4, BranchTaken
<1>5. ASSUME NEW r0 \in Values, NEW r3 \in Values, HookCallsReal(r0, r3)
      PROVE  CallInv'
  <2> DEFINE lr == Plus(hook.destination, 64)
  <2>1. /\ stage = "hook" /\ stage' = "real" /\ hook' = hook
        /\ cpu' = Caller(Jumps, r0, r3, lr) /\ origin' = cpu'
    BY <1>5 DEF HookCallsReal, MakeCall
  <2>2. HookOf /\ HookOf'
    BY <2>1 DEF CallInv, HookOf
  <2>3. lr \in Word /\ Jumps \in Word
    BY <2>2, WordsAssumption, PlusTyped DEF HookOf
  <2> HIDE DEF lr
  <2>4. origin' \in Machines /\ origin'.pc = Jumps /\ origin'.mem = <<>> /\ origin'.gpr[1] = Stack
    BY <2>1, <2>3, CallerTyped
  <2>5. CalledReal'
    BY <2>2, <2>4 DEF CalledReal
  <2>6. Plus(Jumps, 4 * 0) = Jumps
    BY <2>3, PlusNothing
  <2>7. origin' = Machine(origin'.gpr, origin'.lr, origin'.ctr, origin'.pc, origin'.mem)
    BY <2>4, MachineParts
  <2>8. Ran(0)'
    BY <2>1, <2>4, <2>6, <2>7 DEF Ran, Behind
  <2> QED
    BY <2>1, <2>2, <2>5, <2>8 DEF CallInv
<1>6. ASSUME NEW k \in 0..7, Jump(k)
      PROVE  CallInv'
  <2>1. /\ stage = "real" /\ stage' = "real" /\ UNCHANGED <<hook, origin>>
        /\ cpu.pc = Plus(Jumps, 4 * k)
    BY <1>6 DEF Jump
  <2>2. CalledReal /\ HookOf
    BY <2>1 DEF CallInv, CalledReal
  <2>3. PICK j \in 0..8 : Ran(j)
    BY <2>1 DEF CallInv
  <2>4. j = k
    BY <2>1, <2>2, <2>3, RanWhere, ConstantsTyped
  <2>5. Ran(k + 1)'
    BY <1>6, <2>2, <2>3, <2>4, JumpRuns
  <2>6. CalledReal' /\ HookOf'
    BY <2>1, <2>2, OriginUnchanged DEF CalledReal
  <2> QED
    BY <2>1, <2>5, <2>6 DEF CallInv
<1> QED
  BY <1>1, <1>2, <1>3, <1>4, <1>5, <1>6 DEF CallNext

LEMMA CallsRun == CallSpec => []CallInv
BY CallStarts, CallKept, PTL DEF CallSpec

\* Registers, LR, CTR, the program counter and what is stored are words, however
\* long the trampoline runs (patcher.cpp:20-126).
THEOREM CallTyped == CallSpec => []CallTypeOK
<1>1. CallInv => CallTypeOK
  <2> SUFFICES ASSUME CallInv PROVE CallTypeOK
    OBVIOUS
  <2>1. hook.kind \in Kinds \cup {"none"}
    BY DEF CallInv, NoHook, HookOf
  <2>2. ASSUME NEW m \in Machines
        PROVE  /\ {m.lr, m.ctr, m.pc} \subseteq Word
               /\ \A n \in DOMAIN m.gpr : m.gpr[n] \in Word
               /\ \A a \in DOMAIN m.mem : m.mem[a] \in Word
    BY MachineParts, MemoryParts
  <2>3. /\ {Nowhere.lr, Nowhere.ctr, Nowhere.pc} \subseteq Word
        /\ \A n \in DOMAIN Nowhere.gpr : Nowhere.gpr[n] \in Word
        /\ \A a \in DOMAIN Nowhere.mem : Nowhere.mem[a] \in Word
    BY NothingStored, WordsAssumption DEF Nowhere
  <2>4. cpu \in Machines \cup {Nowhere} /\ origin \in Machines \cup {Nowhere}
    BY RanWhere DEF CallInv, CalledReal
  <2> QED
    BY <2>1, <2>2, <2>3, <2>4 DEF CallTypeOK, CallInv
<1> QED
  BY <1>1, CallsRun, PTL

\* Whatever is hooked, the branch at the hooked address leads to the hook function and
\* changes no register but LR, and that only if hookBranch put it there
\* (patcher.cpp:30-39, :57-61, :81-85, :118).
THEOREM BranchesReachHooks == CallSpec => []BranchReachesHook
<1>1. CallInv => BranchReachesHook
  BY DEF CallInv, BranchReachesHook
<1> QED
  BY <1>1, CallsRun, PTL

\* Whatever the address, the instruction the branch replaced and the registers, the
\* trampoline leads back behind the branch as that instruction would have left the
\* processor, but for CTR, r13 and the word at r1 - 32 (patcher.cpp:103-113).
THEOREM RealReachesTheOriginal == CallSpec => []RealIsOriginal
<1>1. CallInv => RealIsOriginal
  <2> SUFFICES ASSUME CallInv, stage = "real", ~InJumps
               PROVE  /\ cpu = [Original EXCEPT !.ctr = cpu.ctr, !.mem = cpu.mem]
                      /\ \A a \in (DOMAIN cpu.mem \cup DOMAIN Original.mem) \ {Scratch} :
                           cpu.mem[a] = Original.mem[a]
    BY Zenon DEF RealIsOriginal, Original, Scratch
  <2>1. PICK k \in 0..8 : CalledReal /\ Ran(k)
    BY DEF CallInv
  <2>2. k = 8
    BY <2>1, RanWhere DEF InJumps
  <2>3. RanFirst(cpu) /\ cpu.pc = Back
    BY <2>1, <2>2, RanKnown
  <2>4. cpu = [Original EXCEPT !.ctr = cpu.ctr, !.mem = cpu.mem]
    <3>1. /\ cpu \in Machines /\ Original \in Machines /\ cpu.pc = Original.pc
          /\ cpu.gpr = Original.gpr /\ cpu.lr = Original.lr
      BY <2>3 DEF RanFirst
    <3> QED
      BY <3>1 DEF Machines
  <2> QED
    BY <2>3, <2>4 DEF RanFirst
<1> QED
  BY <1>1, CallsRun, PTL

-----------------------------------------------------------------------------
(* Copying from and to the mapped memory. *)

LEMMA DivModUnique ==
  ASSUME NEW m \in Nat \ {0}, NEW k \in Nat, NEW s \in 0..(m - 1), NEW x \in Nat, x = k * m + s
  PROVE  x % m = s /\ x \div m = k
OBVIOUS

LEMMA DivMod ==
  ASSUME NEW m \in Nat \ {0}, NEW x \in Nat
  PROVE  x \div m \in Nat /\ x % m \in 0..(m - 1) /\ x = (x \div m) * m + (x % m)
OBVIOUS

LEMMA SpanPositive == Window \in Nat \ {0} /\ Windows \in Nat \ {0, 1} /\ Span \in Nat \ {0}
<1>1. Window \in Nat \ {0} /\ Windows \in Nat \ {0, 1}
  BY CopiesAssumption
<1>2. ASSUME NEW u \in Nat \ {0}, NEW v \in Nat \ {0} PROVE u * v \in Nat \ {0}
  OBVIOUS
<1>3. Window * Windows \in Nat \ {0}
  BY <1>1, <1>2
<1> QED
  BY <1>1, <1>3 DEF Span

\* The pointer into its window has the window's number and the place in it.
LEMMA PointerInWindow ==
  ASSUME NEW a \in Nat
  PROVE  /\ a % Span \in Nat
         /\ (a % Span) \div Window = (a \div Window) % Windows
         /\ (a % Span) % Window = a % Window
         /\ (a \div Window) % Windows \in 0..(Windows - 1)
<1> DEFINE q == a \div Window
           r == a % Window
           k == q \div Windows
           w == q % Windows
<1>1. q \in Nat /\ r \in 0..(Window - 1) /\ a = q * Window + r
  BY SpanPositive, DivMod
<1>2. k \in Nat /\ w \in 0..(Windows - 1) /\ q = k * Windows + w
  <2> HIDE DEF q
  <2> QED
    BY <1>1, SpanPositive, DivMod
<1> HIDE DEF q, r, k, w
<1> DEFINE p == w * Window + r
<1>3. a = k * Span + p
  <2>1. (k * Windows + w) * Window = k * (Window * Windows) + w * Window
    BY <1>2, SpanPositive
  <2> QED
    BY <1>1, <1>2, <2>1, SpanPositive DEF Span
<1>4. p \in 0..(Span - 1)
  <2>1. w * Window \in Nat /\ w * Window <= (Windows - 1) * Window
    BY <1>2, SpanPositive
  <2>2. (Windows - 1) * Window = Span - Window
    BY SpanPositive DEF Span
  <2> QED
    BY <1>1, <2>1, <2>2, SpanPositive
<1>5. p \in Nat
  BY <1>4
<1>6. p \div Window = w /\ p % Window = r
  <2>1. p = w * Window + r
    OBVIOUS
  <2> HIDE DEF p
  <2> QED
    BY <1>1, <1>2, <1>5, <2>1, SpanPositive, DivModUnique
<1> HIDE DEF p
<1>7. a % Span = p
  BY <1>2, <1>3, <1>4, SpanPositive, DivModUnique
<1> QED
  BY <1>2, <1>5, <1>6, <1>7 DEF w, q, r

\* The window of address m, and the pointer to it there.
InWindow(m, p, dbat) == dbat = DbatFor(m) /\ p = m % Span

LEMMA InWindowReached ==
  ASSUME NEW a, ~Own(a), NEW m \in Nat, NEW p, NEW dbat, InWindow(m, p, dbat)
  PROVE  Reached(a, p, dbat) = m
<1>1. /\ p \div Window = dbat.window /\ dbat.page = m \div Window /\ p % Window = m % Window
  BY PointerInWindow DEF InWindow, DbatFor, WindowOf
<1>2. Reached(a, p, dbat) = (m \div Window) * Window + (m % Window)
  BY <1>1 DEF Reached
<1> QED
  BY <1>2, SpanPositive, DivMod

\* The pointer behind that of address m: in the window of the next address, or out of
\* every window of that number.
LEMMA NextPointer ==
  ASSUME NEW m \in Nat
  PROVE  LET p == (m % Span) + 1
         IN \/ InWindow(m + 1, p, DbatFor(m)) /\ WindowOf(p) = DbatFor(m).window
            \/ WindowOf(p) # DbatFor(m).window
<1> DEFINE q == m \div Window
           r == m % Window
           w == q % Windows
           t == m % Span
<1>1. q \in Nat /\ r \in 0..(Window - 1) /\ m = q * Window + r
  BY SpanPositive, DivMod
<1>2. t \in Nat /\ t \div Window = w /\ t % Window = r /\ w \in 0..(Windows - 1)
  BY PointerInWindow
<1>3. DbatFor(m) = [window |-> w, page |-> q]
  BY DEF DbatFor, WindowOf
<1> HIDE DEF q, r, w, t
<1>4. t = w * Window + r
  BY <1>2, SpanPositive, DivMod
<1>5. CASE r + 1 < Window
  <2>1. (m + 1) \div Window = q
    <3>1. m + 1 = q * Window + (r + 1) /\ r + 1 \in 0..(Window - 1) /\ m + 1 \in Nat
      BY <1>1, <1>5, SpanPositive
    <3> QED
      BY <1>1, <3>1, SpanPositive, DivModUnique
  <2>2. DbatFor(m + 1) = DbatFor(m)
    BY <1>3, <2>1 DEF DbatFor, WindowOf, w
  <2>3. (t + 1) \div Window = w
    <3>1. t + 1 = w * Window + (r + 1) /\ r + 1 \in 0..(Window - 1) /\ t + 1 \in Nat /\ w \in Nat
      BY <1>1, <1>2, <1>4, <1>5, SpanPositive
    <3> QED
      BY <3>1, SpanPositive, DivModUnique
  <2>4. WindowOf(t + 1) = w
    <3>1. w % Windows = w
      BY <1>2, SpanPositive
    <3> QED
      BY <2>3, <3>1 DEF WindowOf
  <2>5. (m + 1) % Span = t + 1
    <3>1. t \in 0..(Span - 1) /\ m \div Span \in Nat /\ m = (m \div Span) * Span + t
      BY SpanPositive, DivMod DEF t
    <3>2. t + 1 # Span
      <4>1. Span = Windows * Window /\ Windows * Window \in Nat
        BY SpanPositive DEF Span
      <4>2. Windows * Window % Window = 0
        <5>1. Windows * Window = Windows * Window + 0 /\ 0 \in 0..(Window - 1)
          BY <4>1, SpanPositive
        <5> DEFINE x == Windows * Window
        <5>2. x \in Nat /\ x = Windows * Window + 0
          BY <4>1
        <5> HIDE DEF x
        <5>3. x % Window = 0
          BY <5>1, <5>2, SpanPositive, DivModUnique
        <5> QED
          BY <5>3 DEF x
      <4>3. (t + 1) % Window = r + 1
        <5> DEFINE x == t + 1
                   y == r + 1
        <5>1. x = w * Window + y /\ y \in 0..(Window - 1) /\ x \in Nat /\ w \in Nat
          BY <1>1, <1>2, <1>4, <1>5, SpanPositive
        <5> HIDE DEF x, y
        <5>2. x % Window = y
          BY <5>1, SpanPositive, DivModUnique
        <5> QED
          BY <5>2 DEF x, y
      <4> QED
        BY <1>1, <4>1, <4>2, <4>3
    <3> DEFINE k == m \div Span
               x == m + 1
               y == t + 1
    <3>3. k \in Nat /\ x = k * Span + y /\ y \in 0..(Span - 1) /\ x \in Nat
      BY <3>1, <3>2, SpanPositive
    <3> HIDE DEF k, x, y
    <3>4. x % Span = y
      BY <3>3, SpanPositive, DivModUnique
    <3> QED
      BY <3>4 DEF x, y
  <2>6. InWindow(m + 1, t + 1, DbatFor(m)) /\ WindowOf(t + 1) = DbatFor(m).window
    BY <1>3, <2>2, <2>4, <2>5 DEF InWindow
  <2> QED
    BY <2>6 DEF t
<1>6. CASE ~(r + 1 < Window)
  <2>1. t + 1 = (w + 1) * Window + 0 /\ 0 \in 0..(Window - 1) /\ t + 1 \in Nat /\ w + 1 \in Nat
    BY <1>1, <1>2, <1>4, <1>6, SpanPositive
  <2>2. (t + 1) \div Window = w + 1
    BY <2>1, SpanPositive, DivModUnique
  <2>3. (w + 1) % Windows # w
    <3>1. CASE w + 1 < Windows
      BY <1>2, <3>1, SpanPositive
    <3>2. CASE w + 1 = Windows
      BY <1>2, <3>2, SpanPositive
    <3> QED
      BY <1>2, <3>1, <3>2, SpanPositive
  <2>4. WindowOf(t + 1) # DbatFor(m).window
    BY <1>3, <2>2, <2>3 DEF WindowOf
  <2> QED
    BY <2>4 DEF t
<1> QED
  BY <1>1, <1>5, <1>6, SpanPositive

\* Out of the mod's own range, the pointer of a copy that began at a and has come so many bytes
\* far is the one of the first byte, or the one behind that of the byte before.
WindowAt(a, far, p, dbat) ==
  IF Own(a) THEN p = a + far
  ELSE IF far = 0 THEN InWindow(a, p, dbat)
  ELSE dbat = DbatFor(a + far - 1) /\ p = ((a + far - 1) % Span) + 1

\* One round takes each of the two pointers where it belongs, and on.
LEMMA MovedReaches ==
  ASSUME NEW a \in Nat, NEW len \in Nat, OneKind(a, len), i \in Nat, i < len,
         NEW p \in Nat, NEW dbat \in Dbats, WindowAt(a, i, p, dbat)
  PROVE  /\ Reached(a, Moved(a, p, dbat).p, Moved(a, p, dbat).dbat) = a + i
         /\ WindowAt(a, i + 1, Moved(a, p, dbat).p + 1, Moved(a, p, dbat).dbat)
         /\ Moved(a, p, dbat).p \in Nat
         /\ Moved(a, p, dbat).dbat \in Dbats
<1> DEFINE s == Moved(a, p, dbat)
<1>1. CASE Own(a)
  <2>1. s = [dbat |-> dbat, p |-> p] /\ p = a + i
    BY <1>1 DEF Moved, Edge, WindowAt
  <2>2. Own(a + i)
    BY <1>1 DEF OneKind
  <2> QED
    BY <1>1, <2>1, <2>2 DEF Reached, WindowAt
<1>2. CASE ~Own(a)
  <2>1. InWindow(a + i, s.p, s.dbat)
    <3>1. CASE Edge(a, p, dbat)
      BY <3>1 DEF Moved, InWindow
    <3>2. CASE ~Edge(a, p, dbat)
      <4>1. s.p = p /\ s.dbat = dbat /\ WindowOf(p) = dbat.window
        BY <1>2, <3>2 DEF Moved, Edge
      <4>2. CASE i = 0
        BY <1>2, <4>1, <4>2 DEF WindowAt
      <4>3. CASE i # 0
        <5> DEFINE m == a + i - 1
        <5>1. m \in Nat /\ m + 1 = a + i
          BY <4>3
        <5>2. dbat = DbatFor(m) /\ p = (m % Span) + 1
          BY <1>2, <4>3 DEF WindowAt
        <5> HIDE DEF m
        <5>3. InWindow(m + 1, p, dbat)
          BY <4>1, <5>1, <5>2, NextPointer
        <5> QED
          BY <4>1, <5>1, <5>3
      <4> QED
        BY <4>2, <4>3
    <3> QED
      BY <3>1, <3>2
  <2>2. Reached(a, s.p, s.dbat) = a + i
    BY <1>2, <2>1, InWindowReached
  <2>3. s.p \in Nat /\ s.dbat \in Dbats
    <3>1. a + i \in Nat
      OBVIOUS
    <3>2. (a + i) % Span \in Nat /\ (a + i) \div Window \in Nat
          /\ ((a + i) \div Window) % Windows \in 0..(Windows - 1)
      BY <3>1, PointerInWindow, SpanPositive, DivMod
    <3> QED
      BY <2>1, <3>2 DEF InWindow, DbatFor, WindowOf, Dbats
  <2>4. WindowAt(a, i + 1, s.p + 1, s.dbat)
    <3>1. i + 1 # 0 /\ a + (i + 1) - 1 = a + i
      OBVIOUS
    <3> HIDE DEF s
    <3> QED
      BY <1>2, <2>1, <3>1 DEF WindowAt, InWindow
  <2> QED
    BY <2>2, <2>3, <2>4
<1> QED
  BY <1>1, <1>2

CopyInv ==
  /\ CopyTypeOK /\ CopiedSoFar
  /\ copyAt = "entry" => i = 0
  /\ copyAt = "loop" => /\ WindowAt(copy.addr, i, dst_p, dbat0)
                        /\ WindowAt(copy.src, i, src_p, dbat1)

LEMMA CopyKnown ==
  ASSUME NEW c \in Copies
  PROVE  /\ c.addr \in Nat /\ c.src \in Nat /\ c.len \in Nat
         /\ c.addr + c.len <= Space /\ c.src + c.len <= Space
         /\ OneKind(c.addr, c.len) /\ OneKind(c.src, c.len)
         /\ c.addr \notin (c.src + 1)..(c.src + c.len - 1)
BY CopiesAssumption

LEMMA CopyInitInv == CopyInit => CopyInv
<1> SUFFICES ASSUME CopyInit PROVE CopyInv
  OBVIOUS
<1>1. copy \in Copies /\ copyAt = "entry" /\ i = 0 /\ dst_p = 0 /\ src_p = 0
      /\ dbat0 = GameDbat /\ dbat1 = GameDbat /\ memory = [a \in 0..Space |-> a]
  BY DEF CopyInit
<1>2. copy.addr \in Nat /\ copy.src \in Nat /\ copy.len \in Nat
  BY <1>1, CopyKnown
<1>3. GameDbat \in Dbats /\ Space \in Nat
  BY CopiesAssumption DEF GameDbat, Dbats
<1>4. CopyTypeOK
  BY <1>1, <1>2, <1>3 DEF CopyTypeOK
<1>5. CopiedSoFar
  <2>1. copy.addr..(copy.addr + i - 1) = {}
    BY <1>1, <1>2
  <2> QED
    BY <1>1, <2>1 DEF CopiedSoFar
<1> QED
  BY <1>1, <1>4, <1>5 DEF CopyInv

\* A pointer and its window when the loop is entered.
LEMMA EnterWindow ==
  ASSUME NEW a \in Nat, NEW dbat \in Dbats
  PROVE  /\ WindowAt(a, 0, PointerFor(a), IF Own(a) THEN dbat ELSE DbatFor(a))
         /\ PointerFor(a) \in Nat
         /\ (IF Own(a) THEN dbat ELSE DbatFor(a)) \in Dbats
<1>1. /\ a % Span \in Nat /\ a \div Window \in Nat
      /\ (a \div Window) % Windows \in 0..(Windows - 1)
  BY PointerInWindow, SpanPositive, DivMod
<1>2. DbatFor(a) \in Dbats
  BY <1>1 DEF DbatFor, WindowOf, Dbats
<1> QED
  BY <1>1, <1>2 DEF WindowAt, InWindow, PointerFor

LEMMA CopyStep == CopyInv /\ [CopyNext]_copyVars => CopyInv'
<1> SUFFICES ASSUME CopyInv, [CopyNext]_copyVars PROVE CopyInv'
  OBVIOUS
<1>1. /\ CopyTypeOK /\ CopiedSoFar
      /\ copyAt = "entry" => i = 0
      /\ copyAt = "loop" => /\ WindowAt(copy.addr, i, dst_p, dbat0)
                            /\ WindowAt(copy.src, i, src_p, dbat1)
  BY DEF CopyInv
<1>2. /\ copy.addr \in Nat /\ copy.src \in Nat /\ copy.len \in Nat
      /\ copy.addr + copy.len <= Space /\ copy.src + copy.len <= Space
      /\ OneKind(copy.addr, copy.len) /\ OneKind(copy.src, copy.len)
      /\ copy.addr \notin (copy.src + 1)..(copy.src + copy.len - 1)
  BY <1>1, CopyKnown DEF CopyTypeOK
<1>3. Space \in Nat
  BY CopiesAssumption
<1>4. CASE UNCHANGED copyVars
  BY <1>1, <1>4 DEF copyVars, CopyInv, CopyTypeOK, CopiedSoFar, WindowAt, InWindow
<1>5. CASE Enter
  <2>1. /\ copyAt = "entry" /\ copyAt' = "loop"
        /\ dbat0' = IF Own(copy.addr) THEN dbat0 ELSE DbatFor(copy.addr)
        /\ dbat1' = IF Own(copy.src) THEN dbat1 ELSE DbatFor(copy.src)
        /\ dst_p' = PointerFor(copy.addr) /\ src_p' = PointerFor(copy.src)
        /\ copy' = copy /\ i' = i /\ memory' = memory
    BY <1>5 DEF Enter
  <2>2. dbat0 \in Dbats /\ dbat1 \in Dbats
    BY <1>1 DEF CopyTypeOK
  <2>3. /\ WindowAt(copy.addr, 0, dst_p', dbat0') /\ dst_p' \in Nat /\ dbat0' \in Dbats
        /\ WindowAt(copy.src, 0, src_p', dbat1') /\ src_p' \in Nat /\ dbat1' \in Dbats
    BY <1>2, <2>1, <2>2, EnterWindow
  <2>4. WindowAt(copy.addr, i, dst_p, dbat0)' /\ WindowAt(copy.src, i, src_p, dbat1)'
    BY <1>1, <2>1, <2>3 DEF WindowAt, InWindow
  <2>5. CopyTypeOK'
    BY <1>1, <2>1, <2>3 DEF CopyTypeOK
  <2>6. CopiedSoFar'
    BY <1>1, <2>1 DEF CopiedSoFar
  <2> QED
    BY <2>1, <2>4, <2>5, <2>6 DEF CopyInv
<1>6. CASE CopyByte
  <2> DEFINE d == Moved(copy.addr, dst_p, dbat0)
             s == Moved(copy.src, src_p, dbat1)
             there == copy.addr + i
             here == copy.src + i
  <2>1. /\ copyAt = "loop" /\ i < copy.len
        /\ memory' = [memory EXCEPT ![Reached(copy.addr, d.p, d.dbat)] =
                                       memory[Reached(copy.src, s.p, s.dbat)]]
        /\ dbat0' = d.dbat /\ dst_p' = d.p + 1
        /\ dbat1' = s.dbat /\ src_p' = s.p + 1
        /\ i' = i + 1 /\ copy' = copy /\ copyAt' = copyAt
    BY <1>6 DEF CopyByte
  <2>2. /\ i \in Nat /\ dst_p \in Nat /\ src_p \in Nat /\ dbat0 \in Dbats /\ dbat1 \in Dbats
        /\ memory \in [0..Space -> 0..Space] /\ copy \in Copies
    BY <1>1, <1>2 DEF CopyTypeOK
  <2>3. /\ Reached(copy.addr, d.p, d.dbat) = there
        /\ WindowAt(copy.addr, i + 1, d.p + 1, d.dbat)
        /\ d.p \in Nat /\ d.dbat \in Dbats
    BY <1>1, <1>2, <2>1, <2>2, MovedReaches
  <2>4. /\ Reached(copy.src, s.p, s.dbat) = here
        /\ WindowAt(copy.src, i + 1, s.p + 1, s.dbat)
        /\ s.p \in Nat /\ s.dbat \in Dbats
    BY <1>1, <1>2, <2>1, <2>2, MovedReaches
  <2> HIDE DEF d, s
  <2>5. memory' = [memory EXCEPT ![there] = memory[here]]
    BY <2>1, <2>3, <2>4
  <2>6. there \in 0..Space /\ here \in 0..Space
    <3>1. ASSUME NEW a \in Nat, NEW len \in Nat, NEW k \in Nat, NEW m \in Nat, k < len, a + len <= m
          PROVE  a + k \in 0..m
      BY ONLY <3>1
    <3>2. i \in Nat /\ i < copy.len
      BY <2>1, <2>2
    <3> QED
      BY ONLY <1>2, <1>3, <3>1, <3>2 DEF there, here
  <2>7. memory[here] = here
    <3>1. memory = [a \in 0..Space |-> IF a \in copy.addr..(copy.addr + i - 1)
                                       THEN copy.src + (a - copy.addr) ELSE a]
      BY <1>1 DEF CopiedSoFar
    <3>2. here \notin copy.addr..(copy.addr + i - 1)
      <4>1. ASSUME NEW a \in Nat, NEW b \in Nat, NEW len \in Nat, NEW k \in Nat, k < len,
                   a \notin (b + 1)..(b + len - 1)
            PROVE  b + k \notin a..(a + k - 1)
        BY ONLY <4>1
      <4>2. i \in Nat /\ i < copy.len
        BY <2>1, <2>2
      <4> QED
        BY ONLY <1>2, <4>1, <4>2 DEF here
    <3> HIDE DEF here
    <3> QED
      BY <2>6, <3>1, <3>2
  <2>8. memory' = [a \in 0..Space |-> IF a \in copy.addr..(copy.addr + (i + 1) - 1)
                                      THEN copy.src + (a - copy.addr) ELSE a]
    <3>1. \A a \in 0..Space : memory[a] = IF a \in copy.addr..(copy.addr + i - 1)
                                          THEN copy.src + (a - copy.addr) ELSE a
      BY <1>1 DEF CopiedSoFar
    <3>2. memory' \in [0..Space -> 0..Space]
          /\ \A a \in 0..Space : memory'[a] = IF a = there THEN here ELSE memory[a]
      <4> HIDE DEF there, here
      <4> QED
        BY <2>2, <2>5, <2>6, <2>7
    <3>3. \A a \in 0..Space : memory'[a] = IF a \in copy.addr..(copy.addr + (i + 1) - 1)
                                           THEN copy.src + (a - copy.addr) ELSE a
      <4>1. TAKE a \in 0..Space
      <4>2. CASE a = there
        BY <1>2, <2>2, <3>2, <4>2
      <4>3. CASE a # there
        <5>1. a \in copy.addr..(copy.addr + (i + 1) - 1) <=> a \in copy.addr..(copy.addr + i - 1)
          BY <1>2, <2>2, <4>3
        <5> QED
          BY <3>1, <3>2, <4>3, <5>1
      <4> QED
        BY <4>2, <4>3
    <3>4. memory' = [a \in 0..Space |-> memory'[a]]
      BY <3>2
    <3> QED
      BY <3>3, <3>4
  <2>9. memory' \in [0..Space -> 0..Space]
    <3> HIDE DEF there, here
    <3> QED
      BY <2>2, <2>5, <2>6, <2>7
  <2>10. CopyTypeOK'
    <3>1. i + 1 \in 0..copy.len
      BY <1>2, <2>1, <2>2
    <3>2. i' \in 0..copy'.len
      BY <2>1, <3>1
    <3>3. dst_p' \in Nat /\ src_p' \in Nat
      BY <2>1, <2>3, <2>4
    <3> QED
      BY <1>1, <2>1, <2>2, <2>3, <2>4, <2>9, <3>2, <3>3 DEF CopyTypeOK
  <2>11. CopiedSoFar'
    BY <2>1, <2>8 DEF CopiedSoFar
  <2>12. WindowAt(copy.addr, i, dst_p, dbat0)' /\ WindowAt(copy.src, i, src_p, dbat1)'
    BY <2>1, <2>3, <2>4 DEF WindowAt, InWindow
  <2> QED
    BY <2>1, <2>10, <2>11, <2>12 DEF CopyInv
<1>7. CASE Restore
  <2>1. /\ copyAt' = "returned" /\ i = copy.len
        /\ dbat0' = GameDbat /\ dbat1' = GameDbat
        /\ UNCHANGED <<copy, i, dst_p, src_p, memory>>
    BY <1>7 DEF Restore
  <2>2. GameDbat \in Dbats
    BY CopiesAssumption DEF GameDbat, Dbats
  <2>3. CopyTypeOK'
    BY <1>1, <2>1, <2>2 DEF CopyTypeOK
  <2>4. CopiedSoFar'
    BY <1>1, <2>1 DEF CopiedSoFar
  <2> QED
    BY <2>1, <2>3, <2>4 DEF CopyInv
<1> QED
  BY <1>4, <1>5, <1>6, <1>7 DEF CopyNext

\* For any addresses and sizes, the positions and the windows keep their types
\* (kernel.cpp:46-74).
THEOREM CopyTyped == CopySpec => []CopyTypeOK
<1>1. CopyInv => CopyTypeOK
  BY DEF CopyInv
<1> QED
  BY <1>1, CopyInitInv, CopyStep, PTL DEF CopySpec

\* For any addresses and sizes: every byte is copied from its own place to its own place,
\* no other is touched, and the game's windows come back (kernel.cpp:46-74).
THEOREM EveryByteInItsPlace == CopySpec => []CopiedSoFar
<1>1. CopyInv => CopiedSoFar
  BY DEF CopyInv
<1> QED
  BY <1>1, CopyInitInv, CopyStep, PTL DEF CopySpec

-----------------------------------------------------------------------------
(* All of them together. *)

LEMMA CopyAlone == Spec => CopySpec
<1>1. [Next]_vars => [CopyNext]_copyVars
  BY DEF Next, vars
<1>2. Init => CopyInit
  BY DEF Init
<1> QED
  BY <1>1, <1>2, PTL DEF Spec, CopySpec

LEMMA StreamAlone == Spec => StreamSpec
<1>1. [Next]_vars => [StreamNext]_streamVars
  BY DEF Next, vars
<1>2. Init => StreamInit
  BY DEF Init
<1> QED
  BY <1>1, <1>2, PTL DEF Spec, StreamSpec

LEMMA LogAlone == Spec => LogSpec
<1>1. [Next]_vars => [LogNext]_logVars
  BY DEF Next, vars
<1>2. Init => LogInit
  BY DEF Init
<1> QED
  BY <1>1, <1>2, PTL DEF Spec, LogSpec

LEMMA TableAlone == Spec => TableSpec
<1>1. [Next]_vars => [TableNext]_tableVars
  BY DEF Next, vars
<1>2. Init => TableInit
  BY DEF Init
<1> QED
  BY <1>1, <1>2, PTL DEF Spec, TableSpec

LEMMA DispatchAlone == Spec => DispatchSpec
<1>1. [Next]_vars => [DispatchNext]_dispatchVars
  BY DEF Next, vars
<1>2. Init => DispatchInit
  BY DEF Init
<1> QED
  BY <1>1, <1>2, PTL DEF Spec, DispatchSpec

LEMMA CallAlone == Spec => CallSpec
<1>1. [Next]_vars => [CallNext]_callVars
  BY DEF Next, vars
<1>2. Init => CallInit
  BY DEF Init
<1> QED
  BY <1>1, <1>2, PTL DEF Spec, CallSpec

LEMMA ResolveAlone == Spec => ResolveSpec
<1>1. [Next]_vars => [ResolveNext]_resolveVars
  BY DEF Next, vars
<1>2. Init => ResolveInit
  BY DEF Init
<1> QED
  BY <1>1, <1>2, PTL DEF Spec, ResolveSpec

LEMMA IconAlone == Spec => IconSpec
<1>1. [Next]_vars => [IconNext]_iconVars
  BY DEF Next, vars
<1>2. Init => IconInit
  BY DEF Init
<1> QED
  BY <1>1, <1>2, PTL DEF Spec, IconSpec

LEMMA CursorAlone == Spec => CursorSpec
<1>1. [Next]_vars => [CursorNext]_cursorVars
  BY DEF Next, vars
<1>2. Init => CursorInit
  BY DEF Init
<1> QED
  BY <1>1, <1>2, PTL DEF Spec, CursorSpec

LEMMA MeetAlone == Spec => MeetSpec
<1>1. [Next]_vars => [MeetNext]_meetVars
  BY DEF Next, vars
<1>2. Init => MeetInit
  BY DEF Init
<1> QED
  BY <1>1, <1>2, PTL DEF Spec, MeetSpec

LEMMA RestartAlone == Spec => RestartSpec
<1>1. [Next]_vars => [RestartNext]_restartVars
  BY DEF Next, vars
<1>2. Init => RestartInit
  BY DEF Init
<1> QED
  BY <1>1, <1>2, PTL DEF Spec, RestartSpec

LEMMA ListAlone == Spec => ListSpec
<1>1. [Next]_vars => [ListNext]_listVars
  BY DEF Next, vars
<1>2. Init => ListInit
  BY DEF Init
<1> QED
  BY <1>1, <1>2, PTL DEF Spec, ListSpec

\* Spec: each of the parts behaves as if it were alone, whatever its constants: what is
\* proved of one of them holds of the specification the run checks (kernel.cpp,
\* crypto_engine.cpp, debug.cpp, message.cpp, global_patch.cpp, patcher.cpp,
\* filesystem.cpp, course.cpp, online.cpp, entry.cpp, create_archive.py).
THEOREM EachIsAlone ==
  Spec => /\ CopySpec /\ StreamSpec /\ LogSpec /\ TableSpec /\ DispatchSpec /\ CallSpec
          /\ ResolveSpec /\ IconSpec /\ CursorSpec /\ MeetSpec /\ RestartSpec /\ ListSpec
BY CopyAlone, StreamAlone, LogAlone, TableAlone, DispatchAlone, CallAlone, ResolveAlone,
   IconAlone, CursorAlone, MeetAlone, RestartAlone, ListAlone, PTL

\* TypeOK: no step of any of the parts takes a variable out of its type.
THEOREM ServicesTyped == Spec => []TypeOK
<1>1. /\ CopyTypeOK /\ StreamTypeOK /\ LogTypeOK /\ TableTypeOK /\ DispatchTypeOK /\ CallTypeOK
      /\ ResolveTypeOK /\ IconTypeOK /\ CursorTypeOK /\ MeetTypeOK /\ RestartTypeOK
      /\ UpdateTypeOK
      => TypeOK
  BY DEF TypeOK
<1> QED
  BY <1>1, EachIsAlone, CopyTyped, StreamTyped, LogTyped, TableTyped, DispatchTyped, CallTyped,
     ResolveTyped, IconsTyped, CursorTyped, MeetTyped, RestartTyped, FilesAreListedOnce, PTL

\* The invariants of the parts, as the run checks them: all at once, of its Spec.
THEOREM ServicesAreSafe ==
  Spec => [](/\ CopiedSoFar /\ PiecesArePlain /\ TextsWhole /\ TextsAlive /\ FreedOnce
             /\ FollowingCallsUse /\ BranchReachesHook /\ RealIsOriginal
             /\ StatAgreesWithOpen /\ RoomsDoNotMix /\ LabelTellsToggle
             /\ HooksReadThisTitle /\ ChangesListed)
BY EachIsAlone, EveryByteInItsPlace, AnyPiecesArePlain, BlocksOfATextAreOneRun,
   WhoLooksFindsALiveText, TextsAreFreedOnce, CallsRunTheirHandlers, BranchesReachHooks,
   RealReachesTheOriginal, SizeOfWhatIsOpened, MeetTheirKind, ButtonTellsToggle,
   ReadsThisTitle, ChangesAreListed, PTL

\* The action properties of the run, and that whoever logs comes to the end.
THEOREM ServicesKeepTheirWord ==
  Spec => OpensItsTrack /\ IconsComeBack /\ KeysUndo /\ LogComesToItsEnd
BY EachIsAlone, TrackFileIsOpened, PicturesComeBack, KeysUndoEachOther, LoggingEnds, PTL
=============================================================================
