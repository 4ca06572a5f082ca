---------------------------- MODULE PathResolution ----------------------------
(***************************************************************************)
(* Which file a path stands for (source/patch/filesystem.cpp): FSOpenFile  *)
(* puts the name in trackNamesMod in place of a track's name, hashes what  *)
(* it has, and opens the SD card's file with that hash, if it is on the    *)
(* list of the build, or the game's own for the path as it came; FSGetStat *)
(* hashes the path as it came and looks at no list.  FileRedirection takes *)
(* what FSOpenFile looks up as a parameter (Lookup).                       *)
(*                                                                         *)
(* Paths and names are sequences of small numbers, their characters.       *)
(* create_archive.py names the files by a hash of its own, in unlimited    *)
(* integers.                                                               *)
(***************************************************************************)
EXTENDS Integers, Sequences, FiniteSets

CONSTANTS
  TrackNames,   \* trackNames: the game's name of every track, from 0
  CustomNames,  \* trackPaths of the pages, and the custom battle courses
  GamePaths,    \* what the game opens
  Prefix,       \* "/vol/"
  Modulus,      \* 2^32
  Released,     \* the files of the build, whose hashes are fileHashes
  SdFiles       \* the files on the SD card

TrackMaxId == Cardinality(DOMAIN TrackNames)
NoName == <<>>
GamesOwn == <<>>

WithoutPrefix(path) == SubSeq(path, Len(Prefix) + 1, Len(path))

\* create_archive.py, calc_hash: masked once, at the end.
BuilderHash(name) ==
  LET res[n \in 0..Len(name)] == IF n = 0 THEN 0 ELSE name[n] + res[n - 1] * 1143
  IN res[Len(name)] % Modulus

\* No file has the hash of another file, or of a path of the game that is not its own.
ASSUME PathsAssumption ==
  /\ TrackMaxId \in Nat /\ TrackNames \in [0..(TrackMaxId - 1) -> Seq(Nat)]
  /\ CustomNames \cup Released \cup SdFiles \cup {Prefix} \subseteq Seq(Nat)
  /\ NoName \notin CustomNames /\ Modulus \in Nat \ {0}
  /\ \A path \in GamePaths :
       path \in Seq(Nat) /\ Len(path) > Len(Prefix) /\ SubSeq(path, 1, Len(Prefix)) = Prefix
  /\ \A b \in Released \cup SdFiles :
       \A a \in Released \cup SdFiles \cup {WithoutPrefix(path) : path \in GamePaths} :
         BuilderHash(a) = BuilderHash(b) => a = b

VARIABLES
  trackNamesMod,
  measured,  \* what FSGetStat measured last, and for which path
  opened     \* what FSOpenFile opened last; looked: what it hashed

resolveVars == <<trackNamesMod, measured, opened>>

Nothing == [path |-> <<>>, looked |-> <<>>, sd |-> GamesOwn]

ResolveTypeOK ==
  /\ trackNamesMod \in [DOMAIN TrackNames ->
                          CustomNames \cup {NoName} \cup {TrackNames[n] : n \in DOMAIN TrackNames}]
  /\ \A r \in {measured, opened} : r.path \in GamePaths \cup {<<>>} /\ r.sd \in SdFiles \cup {GamesOwn}

\* Without a CUP0 no name is replaced.
ResolveInit ==
  /\ trackNamesMod = [n \in DOMAIN TrackNames |-> NoName]
  /\ measured = Nothing /\ opened = Nothing

-----------------------------------------------------------------------------

\* Mutation: 0x477 read as decimal.
HashDecimal(name) ==
  LET res[n \in 0..Len(name)] == IF n = 0 THEN 0 ELSE (name[n] + res[n - 1] * 477) % Modulus
  IN res[Len(name)]

\* filesystem.cpp, calc_hash: in 32 bits.
Hash(name) ==
  LET res[n \in 0..Len(name)] == IF n = 0 THEN 0 ELSE (name[n] + res[n - 1] * 1143) % Modulus
  IN res[Len(name)]

\* Where name is in path, after how many characters.
Occurrences(name, path) ==
  {k \in 0..(Len(path) - Len(name)) : SubSeq(path, k + 1, k + Len(name)) = name}

ReplacedAt(k, name, path, by) ==
  SubSeq(path, 1, k) \o by \o SubSeq(path, k + Len(name) + 1, Len(path))

Smallest(S) == CHOOSE n \in S : \A k \in S : n <= k

\* The search of FSOpenFile, for all tracks but the last.  A track that is replaced
\* by its own name ends it too.
Replaced(path) ==
  LET found == {n \in 0..(TrackMaxId - 2) :
                  trackNamesMod[n] # NoName /\ Occurrences(TrackNames[n], path) # {}}
      n == Smallest(found)
  IN IF found = {} THEN path
     ELSE ReplacedAt(Smallest(Occurrences(TrackNames[n], path)), TrackNames[n], path, trackNamesMod[n])

\* The SD card's file with this hash, if it has one.
SdFileFor(hash) ==
  LET found == {f \in SdFiles : BuilderHash(f) = hash}
  IN IF found = {} THEN GamesOwn ELSE CHOOSE f \in found : TRUE

AllowedHash(hash) == hash \in {BuilderHash(f) : f \in Released}

-----------------------------------------------------------------------------

\* The constructor of CUP0, and LoadPanes.
CopyTrackNames ==
  /\ trackNamesMod' = TrackNames
  /\ UNCHANGED <<measured, opened>>

\* changeCourseButtons, handle_battle_swap and the online page change, for a track.
SetTrackName(n, name) ==
  /\ trackNamesMod' = [trackNamesMod EXCEPT ![n] = name]
  /\ UNCHANGED <<measured, opened>>

FSOpenFile(path) ==
  LET looked == WithoutPrefix(Replaced(path))
      hash == Hash(looked)
  IN /\ opened' = [path |-> path, looked |-> looked,
                   sd |-> IF AllowedHash(hash) THEN SdFileFor(hash) ELSE GamesOwn]
     /\ UNCHANGED <<trackNamesMod, measured>>

\* Mutation: the whole path is hashed.
StatLooksWhole(path) == path

StatLooks(path) == WithoutPrefix(path)

FSGetStat(path) ==
  LET looked == StatLooks(path)
  IN /\ measured' = [path |-> path, looked |-> looked, sd |-> SdFileFor(Hash(looked))]
     /\ UNCHANGED <<trackNamesMod, opened>>

ResolveNext ==
  \/ CopyTrackNames
  \/ \E n \in DOMAIN TrackNames, name \in CustomNames \cup {NoName} : SetTrackName(n, name)
  \/ \E path \in GamePaths : FSOpenFile(path) \/ FSGetStat(path)

ResolveSpec == ResolveInit /\ [][ResolveNext]_resolveVars

-----------------------------------------------------------------------------
(* Properties. *)

\* The size the game is told is that of the file it opens, whatever names were
\* replaced and put back in between, unless a name was replaced when it was opened
\* or the SD card has a file of that name that is not on the list
\* (filesystem.cpp:121-140, :186-198).
StatAgreesWithOpen ==
  /\ measured.path = opened.path /\ opened.looked = WithoutPrefix(opened.path)
  /\ opened.looked \in SdFiles => opened.looked \in Released
  => measured.sd = opened.sd

\* A custom track's file that was released and is on the SD card is the one that is
\* opened for a track it replaces, but for the last of TRACK_MAX_ID: no name that
\* another track had or has, and no wrap of the hash, leads elsewhere, if no other
\* track's name is in that path (filesystem.cpp:70-76, :105-131, create_archive.py:22-26).
OpensItsTrack ==
  [][\A n \in 0..(TrackMaxId - 2), path \in GamePaths :
       LET here == Occurrences(TrackNames[n], path)
           file == WithoutPrefix(ReplacedAt(Smallest(here), TrackNames[n], path, trackNamesMod[n]))
       IN /\ FSOpenFile(path) /\ trackNamesMod[n] # NoName
          /\ \A m \in DOMAIN TrackNames : Occurrences(TrackNames[m], path) # {} <=> m = n
          /\ file \in Released \cap SdFiles
          => opened'.sd = file]_resolveVars
=============================================================================
