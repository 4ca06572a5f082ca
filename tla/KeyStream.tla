------------------------------ MODULE KeyStream ------------------------------
(***************************************************************************)
(* RC4_EncryptDecrypt (source/private/crypto_engine.cpp): a file that the  *)
(* builder of the archive encrypted in one piece is read by the game in    *)
(* pieces, each decrypted from its own offset with a fresh RC4 state.      *)
(* FileRedirection takes for granted that this gives the same bytes.       *)
(***************************************************************************)
EXTENDS Integers, Sequences

CONSTANTS
  Size,    \* entries of the permutation (256), a power of two
  Xor,     \* exclusive or of two bytes
  Keys,    \* keys, sequences of bytes
  Files    \* plain files, sequences of bytes

Bytes == 0..(Size - 1)

ASSUME KeysAssumption ==
  /\ Size \in Nat \ {0}
  /\ Xor \in [Bytes -> [Bytes -> Bytes]] /\ \A a, b \in Bytes : Xor[Xor[a][b]][b] = a
  /\ \A k \in Keys : k \in Seq(Bytes) /\ k # <<>>
  /\ Files \subseteq Seq(Bytes)

VARIABLES
  key,     \* the key
  file,    \* the plain file
  rc4,     \* internal_rc4_state: perm, index1, index2
  skip,    \* rounds to go before the piece being read begins
  piece,   \* bytes of it to go
  offset,  \* where the next piece begins
  out      \* what the game has read

streamVars == <<key, file, rc4, skip, piece, offset, out>>

\* Mutation: the first value is lost.
SwapBytesWithoutTemp(p, a, b) == [p EXCEPT ![a] = p[b]]

SwapBytes(p, a, b) == [p EXCEPT ![a] = p[b], ![b] = p[a]]

\* internal_rc4_init.
Rc4Init(k) ==
  LET scheduled[r \in 0..Size] ==
        IF r = 0 THEN [perm |-> [x \in Bytes |-> x], j |-> 0]
        ELSE LET was == scheduled[r - 1]
                 j == (was.j + was.perm[r - 1] + k[((r - 1) % Len(k)) + 1]) % Size
             IN [perm |-> SwapBytes(was.perm, r - 1, j), j |-> j]
  IN [perm |-> scheduled[Size].perm, index1 |-> 0, index2 |-> 0]

\* Mutation: a round that is only skipped leaves the permutation alone.
SkippedUnswapped(s) ==
  LET a == (s.index1 + 1) % Size
  IN [s EXCEPT !.index1 = a, !.index2 = (s.index2 + s.perm[a]) % Size]

\* A round of the loop that skips, and the one that decrypts.
Skipped(s) ==
  LET a == (s.index1 + 1) % Size
      b == (s.index2 + s.perm[a]) % Size
  IN [perm |-> SwapBytes(s.perm, a, b), index1 |-> a, index2 |-> b]

Round(s) ==
  LET a == (s.index1 + 1) % Size
      b == (s.index2 + s.perm[a]) % Size
  IN [perm |-> SwapBytes(s.perm, a, b), index1 |-> a, index2 |-> b]

\* The byte of the key stream that a round ends with.
KeyByte(s) == s.perm[(s.perm[s.index1] + s.perm[s.index2]) % Size]

\* create_archive.py: ARC4 of the whole file.
Encrypted ==
  LET after[r \in 0..Len(file)] == IF r = 0 THEN Rc4Init(key) ELSE Round(after[r - 1])
  IN [r \in DOMAIN file |-> Xor[file[r]][KeyByte(after[r])]]

StreamInit ==
  /\ key \in Keys /\ file \in Files
  /\ rc4 = Rc4Init(key)
  /\ skip = 0 /\ piece = 0 /\ offset = 0
  /\ out = <<>>

Permutations == {p \in [Bytes -> Bytes] : \A x, y \in Bytes : p[x] = p[y] => x = y}

StreamTypeOK ==
  /\ key \in Keys /\ file \in Files
  /\ rc4 \in [perm : Permutations, index1 : Bytes, index2 : Bytes]
  /\ skip \in 0..Len(file) /\ piece \in 0..Len(file) /\ offset \in 0..Len(file)
  /\ out \in Seq(Bytes)

\* The next n bytes are read, and decrypted in place.
ReadPiece(n) ==
  /\ skip = 0 /\ piece = 0 /\ offset + n <= Len(file)
  /\ rc4' = Rc4Init(key)
  /\ skip' = offset
  /\ piece' = n
  /\ offset' = offset + n
  /\ UNCHANGED <<key, file, out>>

SkipRound ==
  /\ skip > 0 /\ skip' = skip - 1
  /\ rc4' = Skipped(rc4)
  /\ UNCHANGED <<key, file, piece, offset, out>>

CryptByte ==
  /\ skip = 0 /\ piece > 0
  /\ rc4' = Round(rc4)
  /\ piece' = piece - 1
  /\ out' = Append(out, Xor[Encrypted[Len(out) + 1]][KeyByte(rc4')])
  /\ UNCHANGED <<key, file, skip, offset>>

StreamNext == SkipRound \/ CryptByte \/ \E n \in 1..Len(file) : ReadPiece(n)

StreamSpec == StreamInit /\ [][StreamNext]_streamVars

\* In whatever pieces the game reads a file, it gets the bytes the builder encrypted
\* (crypto_engine.cpp:66-88, create_archive.py:72-74).
PiecesArePlain == out = SubSeq(file, 1, offset - piece)
=============================================================================
