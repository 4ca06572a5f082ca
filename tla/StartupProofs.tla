----------------------------- MODULE StartupProofs -----------------------------
(***************************************************************************)
(* Proofs about CupArchive and Startup, for every archive, number of free  *)
(* messages and set of faults: no page shows half of an archive, and in    *)
(* MainThread's loop the hooks find the instances they read.               *)
(*                                                                         *)
(* CupsOk and TracksOk say how much of the archive is in the pages when    *)
(* the loader is at entry n; that a later entry does not undo an earlier   *)
(* one rests on PlacesDiffer: no two entries share a place.  ReturnedOk    *)
(* says that a loader that gave up has reported why, or is about to, which *)
(* is why the loop shows the error instead of relying on the pages.        *)
(*                                                                         *)
(* TextsOk is the same for the table of texts, which all entries share: it *)
(* holds nothing but texts of entries under their own identifiers, and,    *)
(* while there is room, one for all that the loader has passed.            *)
(*                                                                         *)
(* WorkLeft counts the steps that MainThread has left before the error     *)
(* viewer: by what it has to install and load, by the entry and track the  *)
(* loader is at, and by the statement of FatalError it is in.              *)
(***************************************************************************)
EXTENDS Startup, SequenceTheorems, WellFoundedInduction, TLAPS

\* The first part of n - 1 cup entries, or all, are in the pages, and nothing else.
CupsOk ==
  /\ \A pc \in cups : \E k \in DOMAIN archive : pc = <<archive[k].page, archive[k].cup>>
  /\ \A k \in DOMAIN archive :
       at \in {"tracks", "loaded"} \/ (at = "cups" /\ k < n) =>
         <<archive[k].page, archive[k].cup>> \in cups
  /\ at = "open" => n = 1

\* Track t of the cup of entry k is in its page.
TrackLoaded(k, t) ==
  /\ trackNames[Place(k, t)] = k
  /\ Place(k, t) \in retros <=> t \in archive[k].retro

Passed(k, t) == k < n \/ (k = n /\ t < track)

\* So are the tracks before the one the loader is at.
TracksOk ==
  /\ at \in {"tracks", "loaded"} =>
       \A k \in DOMAIN archive, t \in Tracks : Passed(k, t) => TrackLoaded(k, t)
  /\ at \in {"open", "cups"} => \A t \in Tracks : track <= t
  /\ at = "loaded" => n > Len(archive)
  /\ at = "loaded" <=> CUP0Instance

LoaderInv == CupsOk /\ TracksOk

Tables == Seq([id : Messages, text : Messages])

\* What AddMessage stores.
Text(id, text) == [id |-> id, text |-> text]

\* The text comes from an entry of the archive, under the identifier the page holds.
FromEntry(m) ==
  \E k \in DOMAIN archive :
    \/ m = Text(CupMessage(archive[k].cup), <<"cup", k, 0>>)
    \/ \E t \in Tracks : \/ m = Text(TrackMessage(k, t), <<"name", k, t>>)
                         \/ m = Text(RetroMessage(k, t), <<"retro", k, t>>)

HasText(table, id) == \E row \in DOMAIN table : table[row].id = id

\* While there is room, what the loader has passed has its texts.
PassedHaveTexts ==
  /\ \A k \in DOMAIN archive :
       at \in {"tracks", "loaded"} \/ (at = "cups" /\ k < n) =>
         HasText(messages, CupMessage(archive[k].cup))
  /\ at \in {"tracks", "loaded"} =>
       \A k \in DOMAIN archive, t \in Tracks : Passed(k, t) =>
         /\ HasText(messages, TrackMessage(k, t))
         /\ t \in archive[k].retro => HasText(messages, RetroMessage(k, t))

TextsOk ==
  /\ \A row \in DOMAIN messages : FromEntry(messages[row])
  /\ Len(messages) < MaxMessages => PassedHaveTexts

\* A loader that gave up has reported an error, or is about to.
ReturnedOk ==
  at = "returned" => errorArg.errorType = 1 \/ raising[Main].at \in {"check", "type"}

\* What MainThread has set when it comes to each piece of its work.
MainOk ==
  /\ main \notin {"files", "dispatch", "GlobalPatch"} => "GlobalPatch" \in instances
  /\ main \in {"online", "wait", "loop", "viewer"} => "CoursePatch" \in instances
  /\ main \in {"courses", "CoursePatch", "online", "wait", "loop", "viewer"} =>
       at = "loaded" \/ (at = "returned" /\ errorArg.errorType = 1)

MainTypeOK ==
  /\ main \in {"files", "dispatch", "GlobalPatch", "texts", "course", "load", "courses",
               "CoursePatch", "online", "wait", "loop", "viewer"}
  /\ hooked \subseteq Groups
  /\ instances \subseteq {"GlobalPatch", "CoursePatch", "OnlinePatch"}
  /\ crashed \in BOOLEAN

\* What the loader may disturb, and what it may not.
LoadOk == ErrorTypeOK /\ LoaderTypeOK /\ LoaderInv /\ ReturnedOk

Inv == LoadOk /\ MainTypeOK /\ MainOk

-----------------------------------------------------------------------------

\* Every set of tracks has a least one.
LEMMA LeastIsLeast ==
  ASSUME NEW S \in SUBSET Nat, S # {}
  PROVE  Least(S) \in S /\ \A y \in S : Least(S) <= y
<1> DEFINE below == {ss \in Nat \X Nat : ss[1] < ss[2]}
<1>1. IsWellFoundedOn(below, Nat)
  BY NatLessThanWellFounded DEF OpToRel
<1>2. PICK x \in S : \A y \in S : ~(<<y, x>> \in below)
  <2> HIDE DEF below
  <2> QED BY <1>1, WFMin
<1>3. ASSUME NEW y \in S PROVE x <= y
  <2>1. y \in Nat /\ x \in Nat /\ (y < x => <<y, x>> \in below)
    OBVIOUS
  <2> HIDE DEF below
  <2> QED BY <2>1, <1>2
<1> QED BY <1>3 DEF Least

\* What an entry of an archive is.
LEMMA EntryType ==
  ASSUME archive \in Archives
  PROVE  /\ archive \in Seq([page : PageIds, cup : CupIds, retro : SUBSET Tracks])
         /\ Len(archive) \in Nat /\ DOMAIN archive = 1..Len(archive)
         /\ \A k \in DOMAIN archive :
              /\ archive[k].page \in PageIds /\ archive[k].cup \in CupIds
              /\ archive[k].cup \in Nat /\ archive[k].retro \subseteq Tracks
              /\ \A t \in Tracks : Place(k, t) \in Places
<1> DEFINE Entries == [page : PageIds, cup : CupIds, retro : SUBSET Tracks]
<1>1. archive \in Seq(Entries)
  BY ArchivesAssumption
<1>2. ASSUME NEW k \in DOMAIN archive
      PROVE  /\ archive[k].page \in PageIds /\ archive[k].cup \in CupIds
             /\ archive[k].retro \subseteq Tracks
  <2>1. archive[k] \in Entries
    <3> HIDE DEF Entries
    <3> QED BY <1>1
  <2> QED BY <2>1
<1> HIDE DEF Entries
<1>3. Len(archive) \in Nat /\ DOMAIN archive = 1..Len(archive)
  BY <1>1
<1>4. \A k \in DOMAIN archive, t \in Tracks : Place(k, t) \in Places
  BY <1>2 DEF Place, Places
<1> USE DEF Entries
<1> QED BY <1>1, <1>2, <1>3, <1>4, SizesAssumption

\* No two entries share a place, since no two are of the same cup.
LEMMA PlacesDiffer ==
  ASSUME archive \in Archives, NEW k \in DOMAIN archive, NEW j \in DOMAIN archive,
         NEW t, NEW u, Place(k, t) = Place(j, u)
  PROVE  k = j /\ t = u
<1>1. archive[k].cup = archive[j].cup /\ t = u
  BY DEF Place
<1>2. k \in Nat /\ j \in Nat
  BY EntryType
<1>3. ~(k < j) /\ ~(j < k)
  BY <1>1, ArchivesAssumption, Zenon
<1> QED BY <1>1, <1>2, <1>3

\* The codes the loader reports are codes.
LEMMA KnownCodes == {"444-0000", "444-0001", "444-0002", "444-0100", Missing} \subseteq Codes
BY StartupAssumption

\* A call of FatalError keeps the types, and the error that is shown.
LEMMA FatalErrorType ==
  ASSUME ErrorTypeOK, NEW t \in Threads, NEW code \in Codes, FatalError(t, code)
  PROVE  ErrorTypeOK' /\ errorArg' = errorArg
BY DEF FatalError, ErrorTypeOK

\* So does a step inside it, which never takes an error back.
LEMMA ReportingType ==
  ASSUME ErrorTypeOK, NEW t \in Threads, Reporting(t)
  PROVE  /\ ErrorTypeOK'
         /\ errorArg.errorType = 1 => errorArg'.errorType = 1
         /\ raising[t].at = "check" => raising'[t].at = "type" \/ errorArg'.errorType = 1
         /\ raising[t].at = "type" => errorArg'.errorType = 1
         /\ \A u \in Threads \ {t} : raising'[u] = raising[u]
<1>1. raising[t] \in [code : Codes, at : {"check", "type", "text", "title"}]
  BY DEF Reporting, Check, SetType, SetText, SetTitle, ErrorTypeOK, NotRaising
<1>2. CASE Check(t)
  BY <1>1, <1>2 DEF Check, Goes, Returns, ErrorTypeOK, NotRaising
<1>3. CASE SetType(t)
  BY <1>1, <1>3 DEF SetType, Goes, ErrorTypeOK, NotRaising
<1>4. CASE SetText(t)
  BY <1>1, <1>4 DEF SetText, Goes, ErrorTypeOK, NotRaising
<1>5. CASE SetTitle(t)
  BY <1>1, <1>5 DEF SetTitle, Returns, ErrorTypeOK, NotRaising
<1> QED BY <1>2, <1>3, <1>4, <1>5 DEF Reporting

-----------------------------------------------------------------------------
(* The loader. *)

\* The table of texts stays a table.
LEMMA AddMessageType ==
  ASSUME NEW table \in Seq([id : Messages, text : Messages]), Len(table) <= MaxMessages,
         NEW id \in Messages, NEW text \in Messages
  PROVE  /\ AddMessage(table, id, text) \in Seq([id : Messages, text : Messages])
         /\ Len(AddMessage(table, id, text)) <= MaxMessages
<1> DEFINE Active == [id : Messages, text : Messages]
           m == [id |-> id, text |-> text]
<1>1. m \in Active /\ table \in Seq(Active)
  OBVIOUS
<1>2. Len(table) \in Nat /\ MaxMessages \in Nat
  BY SizesAssumption
<1> HIDE DEF Active, m
<1>3. Append(table, m) \in Seq(Active) /\ Len(Append(table, m)) = Len(table) + 1
  BY <1>1
<1>4. table \in Seq(Active) /\ AddMessage(table, id, text) \in {table, Append(table, m)}
  BY <1>1 DEF AddMessage, m
<1>5. Len(AddMessage(table, id, text)) <= MaxMessages
  <2>1. CASE Len(table) < MaxMessages
    BY <1>2, <1>3, <2>1 DEF AddMessage, m
  <2>2. CASE ~(Len(table) < MaxMessages)
    BY <2>2 DEF AddMessage
  <2> QED BY <2>1, <2>2
<1>6. AddMessage(table, id, text) \in Seq(Active)
  BY <1>3, <1>4
<1> QED BY <1>5, <1>6 DEF Active

LEMMA OpenStep ==
  ASSUME LoadOk, NEW fault, OpenArchive(fault) PROVE LoadOk'
<1>1. at = "open" /\ at' \in {"cups", "returned", "null"}
  BY DEF OpenArchive
<1>2. ErrorTypeOK' /\ ReturnedOk'
  <2>1. CASE at' = "cups" /\ UNCHANGED errorVars
    BY <2>1 DEF LoadOk, ErrorTypeOK, errorVars, ReturnedOk
  <2>2. CASE at' = "returned" /\ FatalError(Main, "444-0000")
    <3>1. raising'[Main].at = "check"
      BY <2>2, SizesAssumption DEF FatalError, LoadOk, ErrorTypeOK
    <3> QED BY <2>2, <3>1, FatalErrorType, KnownCodes, SizesAssumption DEF LoadOk, ReturnedOk
  <2>3. CASE at' = "null" /\ FatalError(Main, Missing)
    BY <2>3, FatalErrorType, KnownCodes, SizesAssumption DEF LoadOk, ReturnedOk
  <2> QED BY <2>1, <2>2, <2>3 DEF OpenArchive
<1>3. LoaderTypeOK'
  BY <1>1 DEF OpenArchive, LoadOk, LoaderTypeOK
<1>4. LoaderInv'
  BY <1>1, EntryType DEF LoaderTypeOK, OpenArchive, LoadOk, LoaderInv, CupsOk, TracksOk
<1> QED BY <1>2, <1>3, <1>4 DEF LoadOk

\* A picture that cannot be loaded ends the loader, which reports it.
LEMMA FaultStep ==
  ASSUME ErrorTypeOK, NEW fault, NEW code \in Codes, PictureFault(fault, code)
  PROVE  /\ ErrorTypeOK' /\ at' \in {"returned", "null"}
         /\ raising'[Main].at = "check"
         /\ n' = n /\ track' = track
<1>1. PICK c \in Codes : FatalError(Main, c)
  BY KnownCodes DEF PictureFault
<1>2. raising'[Main].at = "check"
  BY <1>1, SizesAssumption DEF FatalError, ErrorTypeOK
<1> QED BY <1>1, <1>2, FatalErrorType, SizesAssumption DEF PictureFault

\* The identifiers of the texts are identifiers.
LEMMA KnownMessages ==
  ASSUME archive \in Archives, NEW k \in DOMAIN archive, NEW t \in Tracks
  PROVE  /\ CupMessage(archive[k].cup) \in Messages
         /\ TrackMessage(k, t) \in Messages /\ RetroMessage(k, t) \in Messages
         /\ <<"cup", k, 0>> \in Messages
         /\ <<"name", k, t>> \in Messages /\ <<"retro", k, t>> \in Messages
<1>1. k \in Nat /\ t \in Nat /\ archive[k].cup \in Nat
  BY EntryType, SizesAssumption
<1> QED BY <1>1 DEF Messages, CupMessage, TrackMessage, RetroMessage

LEMMA CupStep ==
  ASSUME LoadOk, NEW fault, LoadCup(fault) PROVE LoadOk'
<1> DEFINE e == archive[n]
<1>1. /\ at = "cups" /\ n <= Len(archive) /\ n \in DOMAIN archive
      /\ archive \in Archives /\ archive' = archive /\ trackNames' = trackNames
      /\ retros' = retros /\ CUP0Instance' = CUP0Instance
      /\ track \in Tracks /\ track' = track
      /\ cups' = cups \cup {<<e.page, e.cup>>}
  BY EntryType DEF LoadCup, LoadOk, LoaderTypeOK, PictureFault
<1>2. \/ fault = "none" /\ n' = n + 1 /\ at' = "cups" /\ UNCHANGED errorVars
      \/ PictureFault(fault, "444-0001")
  BY <1>1 DEF LoadCup
<1>3. /\ ErrorTypeOK' /\ ReturnedOk'
      /\ at' \in {"cups", "returned", "null"} /\ n' \in {n, n + 1}
      /\ at' = "cups" => n' = n + 1
  <2>1. CASE n' = n + 1 /\ at' = "cups" /\ UNCHANGED errorVars
    BY <2>1 DEF LoadOk, ErrorTypeOK, errorVars, ReturnedOk
  <2>2. CASE PictureFault(fault, "444-0001")
    BY <2>2, FaultStep, KnownCodes DEF LoadOk, ReturnedOk
  <2> QED BY <1>2, <2>1, <2>2
<1>4. n \in Nat /\ n' \in 1..(Len(archive) + 1)
  BY <1>1, <1>3, EntryType
<1>5. LoaderTypeOK'
  <2>1. /\ messages' \in Seq([id : Messages, text : Messages])
        /\ Len(messages') <= MaxMessages
    <3>1. messages' = AddMessage(messages, CupMessage(e.cup), <<"cup", n, 0>>)
      BY DEF LoadCup
    <3>2. /\ messages \in Seq([id : Messages, text : Messages])
          /\ Len(messages) <= MaxMessages
      BY DEF LoadOk, LoaderTypeOK
    <3> QED BY <3>1, <3>2, <1>1, KnownMessages, AddMessageType
  <2>2. cups' \subseteq PageIds \X CupIds
    BY <1>1, EntryType DEF LoadOk, LoaderTypeOK
  <2> QED BY <1>1, <1>3, <1>4, <2>1, <2>2 DEF LoadOk, LoaderTypeOK
<1>6. CupsOk'
  <2>1. \A pc \in cups' : \E k \in DOMAIN archive : pc = <<archive[k].page, archive[k].cup>>
    BY <1>1 DEF LoadOk, LoaderInv, CupsOk
  <2>2. ASSUME NEW k \in DOMAIN archive, at' = "cups", k < n'
        PROVE  <<archive[k].page, archive[k].cup>> \in cups'
    <3>1. k < n \/ k = n
      BY <1>3, <1>4, <2>2, <1>1, EntryType
    <3>2. CASE k < n
      BY <3>2, <1>1 DEF LoadOk, LoaderInv, CupsOk
    <3>3. CASE k = n
      BY <3>3, <1>1
    <3> QED BY <3>1, <3>2, <3>3
  <2> QED BY <1>1, <1>3, <2>1, <2>2 DEF CupsOk
<1>7. TracksOk'
  BY <1>1, <1>3 DEF LoadOk, LoaderInv, TracksOk
<1> QED BY <1>3, <1>5, <1>6, <1>7 DEF LoadOk, LoaderInv

LEMMA CupsDoneStep ==
  ASSUME LoadOk, CupsDone PROVE LoadOk'
<1>1. /\ at = "cups" /\ n > Len(archive) /\ at' = "tracks" /\ n' = 1
      /\ UNCHANGED <<archive, track, messages, cups, trackNames, retros, CUP0Instance>>
      /\ UNCHANGED errorVars
  BY DEF CupsDone
<1>2. ErrorTypeOK' /\ ReturnedOk'
  BY <1>1 DEF LoadOk, ErrorTypeOK, errorVars, ReturnedOk
<1>3. LoaderTypeOK' /\ Len(archive) \in Nat /\ DOMAIN archive = 1..Len(archive) /\ n \in Nat
  BY <1>1, EntryType DEF LoadOk, LoaderTypeOK
<1>4. CupsOk'
  BY <1>1, <1>3 DEF LoadOk, LoaderInv, CupsOk
<1>5. ASSUME NEW k \in DOMAIN archive, NEW t \in Tracks PROVE ~Passed(k, t)'
  <2>1. t \in Nat /\ track \in Nat /\ track <= t /\ k \in Nat /\ k >= 1
    BY <1>1, <1>3, SizesAssumption DEF LoadOk, LoaderInv, TracksOk, LoaderTypeOK
  <2> QED BY <2>1, <1>1 DEF Passed
<1>6. TracksOk'
  BY <1>1, <1>5 DEF LoadOk, LoaderInv, TracksOk
<1> QED BY <1>2, <1>3, <1>4, <1>6 DEF LoadOk, LoaderInv

LEMMA FinishStep ==
  ASSUME LoadOk, Finish PROVE LoadOk'
<1>1. /\ at = "tracks" /\ n > Len(archive) /\ at' = "loaded" /\ CUP0Instance' = TRUE
      /\ UNCHANGED <<archive, n, track, messages, cups, trackNames, retros>>
      /\ UNCHANGED errorVars
  BY DEF Finish
<1>2. ErrorTypeOK' /\ ReturnedOk'
  BY <1>1 DEF LoadOk, ErrorTypeOK, errorVars, ReturnedOk
<1>3. LoaderTypeOK'
  BY <1>1 DEF LoadOk, LoaderTypeOK
<1>4. CupsOk'
  BY <1>1 DEF LoadOk, LoaderInv, CupsOk
<1>5. TracksOk'
  BY <1>1 DEF LoadOk, LoaderInv, TracksOk, Passed, TrackLoaded, Place
<1> QED BY <1>2, <1>3, <1>4, <1>5 DEF LoadOk, LoaderInv

\* Going on to the next track passes the present one and no other.
LEMMA NextPassed ==
  ASSUME track \in Tracks, n \in Nat, NextTrack, NEW k \in Nat, NEW t \in Tracks
  PROVE  /\ Passed(k, t)' => Passed(k, t) \/ (k = n /\ t = track)
         /\ track' \in Tracks /\ n' \in {n, n + 1}
<1>1. t \in Nat /\ track \in Nat /\ Tracks \in SUBSET Nat /\ Later(track) \in SUBSET Nat
  BY SizesAssumption DEF Later
<1>2. CASE Later(track) # {}
  <2>1. track' = Least(Later(track)) /\ n' = n
    BY <1>2 DEF NextTrack
  <2>2. track' \in Later(track) /\ \A u \in Later(track) : track' <= u
    BY <2>1, <1>1, <1>2, LeastIsLeast
  <2>3. track' \in Tracks /\ track' \in Nat
    BY <2>2, <1>1 DEF Later
  <2>4. t < track' => t <= track
    BY <1>1, <2>2, <2>3 DEF Later
  <2> QED BY <1>1, <2>1, <2>3, <2>4 DEF Passed
<1>3. CASE Later(track) = {}
  <2>1. track' = Least(Tracks) /\ n' = n + 1
    BY <1>3 DEF NextTrack
  <2>2. track' \in Tracks /\ \A u \in Tracks : track' <= u
    BY <2>1, <1>1, LeastIsLeast
  <2>3. t <= track
    BY <1>1, <1>3 DEF Later
  <2>4. ~(t < track')
    BY <2>2, <1>1
  <2> QED BY <1>1, <2>1, <2>2, <2>3, <2>4 DEF Passed
<1> QED BY <1>2, <1>3

LEMMA TrackStep ==
  ASSUME LoadOk, NEW fault, LoadTrack(fault) PROVE LoadOk'
<1> DEFINE e == archive[n]
           named == AddMessage(messages, TrackMessage(n, track), <<"name", n, track>>)
<1>1. /\ at = "tracks" /\ n <= Len(archive) /\ n \in DOMAIN archive /\ n \in Nat
      /\ archive \in Archives /\ archive' = archive /\ track \in Tracks
      /\ cups' = cups /\ CUP0Instance' = CUP0Instance
      /\ trackNames' = [trackNames EXCEPT ![Place(n, track)] = n]
  BY EntryType DEF LoadTrack, LoadOk, LoaderTypeOK
<1>2. IF track \in e.retro
      THEN /\ messages' = AddMessage(named, RetroMessage(n, track), <<"retro", n, track>>)
           /\ retros' = retros \cup {Place(n, track)}
      ELSE messages' = named /\ retros' = retros \ {Place(n, track)}
  BY DEF LoadTrack
<1>3. \/ NextTrack /\ at' = "tracks" /\ UNCHANGED errorVars
      \/ PictureFault(fault, "444-0002")
  BY <1>1 DEF LoadTrack
<1>4. /\ ErrorTypeOK' /\ ReturnedOk'
      /\ at' \in {"tracks", "returned", "null"} /\ n' \in {n, n + 1} /\ track' \in Tracks
      /\ at' = "tracks" => NextTrack
  <2>1. CASE NextTrack /\ at' = "tracks" /\ UNCHANGED errorVars
    BY <1>1, <2>1, NextPassed DEF LoadOk, ErrorTypeOK, errorVars, ReturnedOk
  <2>2. CASE PictureFault(fault, "444-0002")
    BY <1>1, <2>2, FaultStep, KnownCodes DEF LoadOk, ReturnedOk
  <2> QED BY <1>3, <2>1, <2>2
<1>5. n' \in 1..(Len(archive) + 1)
  BY <1>1, <1>4, EntryType
<1>6. /\ messages' \in Seq([id : Messages, text : Messages])
      /\ Len(messages') <= MaxMessages
  <2>1. /\ messages \in Seq([id : Messages, text : Messages])
        /\ Len(messages) <= MaxMessages
    BY DEF LoadOk, LoaderTypeOK
  <2>2. /\ named \in Seq([id : Messages, text : Messages])
        /\ Len(named) <= MaxMessages
    BY <1>1, <2>1, KnownMessages, AddMessageType
  <2> HIDE DEF named
  <2> QED BY <1>1, <1>2, <2>2, KnownMessages, AddMessageType
<1>7. Place(n, track) \in Places
  BY <1>1, EntryType
<1>8. LoaderTypeOK'
  <2>1. trackNames' \in [Places -> 0..Len(archive)]
    BY <1>1, <1>7, EntryType DEF LoadOk, LoaderTypeOK
  <2>2. retros' \subseteq Places
    BY <1>2, <1>7 DEF LoadOk, LoaderTypeOK
  <2> QED BY <1>1, <1>4, <1>5, <1>6, <2>1, <2>2 DEF LoadOk, LoaderTypeOK
<1>9. CupsOk'
  BY <1>1, <1>4 DEF LoadOk, LoaderInv, CupsOk
<1>10. ASSUME at' = "tracks", NEW k \in DOMAIN archive, NEW t \in Tracks, Passed(k, t)'
       PROVE  TrackLoaded(k, t)'
  <2>1. Place(k, t)' = Place(k, t) /\ archive'[k].retro = archive[k].retro
    BY <1>1 DEF Place
  <2>2. Place(k, t) \in Places /\ k \in Nat
    BY <1>1, EntryType
  <2>3. trackNames \in [Places -> 0..Len(archive)]
    BY DEF LoadOk, LoaderTypeOK
  <2>4. CASE k = n /\ t = track
    BY <1>1, <1>2, <2>1, <2>2, <2>3, <2>4 DEF TrackLoaded
  <2>5. CASE ~(k = n /\ t = track)
    <3>1. Place(k, t) # Place(n, track)
      BY <1>1, <2>5, PlacesDiffer
    <3>2. TrackLoaded(k, t)
      BY <1>1, <1>4, <1>10, <2>2, <2>5, NextPassed DEF LoadOk, LoaderInv, TracksOk
    <3> QED BY <1>1, <1>2, <2>1, <2>2, <2>3, <3>1, <3>2 DEF TrackLoaded
  <2> QED BY <2>4, <2>5
<1>11. TracksOk'
  BY <1>1, <1>4, <1>10 DEF LoadOk, LoaderInv, TracksOk
<1> QED BY <1>4, <1>8, <1>9, <1>11 DEF LoadOk, LoaderInv

LEMMA LoadingStep ==
  ASSUME LoadOk, Loading PROVE LoadOk'
BY OpenStep, CupStep, CupsDoneStep, TrackStep, FinishStep DEF Loading

\* Nothing but the loader touches the pages.
LEMMA LoaderUnchanged ==
  ASSUME LoaderTypeOK, LoaderInv, UNCHANGED loaderVars PROVE LoaderTypeOK' /\ LoaderInv'
<1>1. LoaderTypeOK'
  BY DEF loaderVars, LoaderTypeOK
<1>2. CupsOk'
  BY DEF loaderVars, LoaderInv, CupsOk
<1>3. TracksOk'
  BY DEF loaderVars, LoaderInv, TracksOk, Passed, TrackLoaded, Place
<1> QED BY <1>1, <1>2, <1>3 DEF LoaderInv

-----------------------------------------------------------------------------
(* MainThread and the game. *)

LEMMA InitInv == Init => Inv
<1> SUFFICES ASSUME Init PROVE Inv
  OBVIOUS
<1> USE DEF Init, ErrorInit, LoaderInit
<1>1. ErrorTypeOK
  BY DEF ErrorTypeOK
<1>2. LoaderTypeOK
  <2>1. archive \in Archives /\ Len(archive) \in Nat
    BY EntryType
  <2>2. messages \in Seq([id : Messages, text : Messages]) /\ Len(messages) <= MaxMessages
    BY SizesAssumption
  <2>3. trackNames \in [Places -> 0..Len(archive)] /\ n \in 1..(Len(archive) + 1)
    BY <2>1
  <2>4. at = "open" /\ track \in Tracks /\ cups = {} /\ retros = {} /\ CUP0Instance = FALSE
    OBVIOUS
  <2> QED BY ONLY <2>1, <2>2, <2>3, <2>4 DEF LoaderTypeOK
<1>3. LoaderInv
  BY EntryType DEF LoaderInv, CupsOk, TracksOk
<1>4. ReturnedOk /\ MainTypeOK /\ MainOk
  BY DEF ReturnedOk, MainTypeOK, MainOk
<1> QED BY <1>1, <1>2, <1>3, <1>4 DEF Inv, LoadOk

\* Who is not inside FatalError and whose loader gave up has reported it.
LEMMA IdleReported ==
  ASSUME ReturnedOk, Idle(Main), at = "returned" PROVE errorArg.errorType = 1
BY DEF ReturnedOk, Idle, NotRaising

\* A report that is only made changes nothing else.
LEMMA RaisedOk ==
  ASSUME LoadOk, UNCHANGED loaderVars, NEW t \in Threads, NEW code \in Codes,
         FatalError(t, code)
  PROVE  LoadOk' /\ errorArg' = errorArg
<1>1. ErrorTypeOK' /\ errorArg' = errorArg
  BY FatalErrorType DEF LoadOk
<1>2. raising'[Main].at = "check" \/ raising'[Main] = raising[Main]
  BY SizesAssumption DEF FatalError, LoadOk, ErrorTypeOK
<1>3. ReturnedOk'
  BY <1>1, <1>2 DEF LoadOk, ReturnedOk, loaderVars
<1> QED BY <1>1, <1>3, LoaderUnchanged DEF LoadOk

\* Nothing of the loader and of the errors moves.
LEMMA StillOk ==
  ASSUME LoadOk, UNCHANGED loaderVars, UNCHANGED errorVars PROVE LoadOk'
<1>1. ErrorTypeOK' /\ ReturnedOk'
  BY DEF LoadOk, ErrorTypeOK, errorVars, ReturnedOk, loaderVars
<1> QED BY <1>1, LoaderUnchanged DEF LoadOk

LEMMA InstallStep ==
  ASSUME Inv, Install PROVE Inv'
<1>1. LoadOk' /\ at' = at /\ errorArg' = errorArg /\ crashed' = crashed
  BY StillOk DEF Inv, MainTypeOK, Install, Hooks, SetInstance, loaderVars, errorVars
<1>2. CASE Hooks("files", {"files"}, "dispatch")
  BY <1>1, <1>2 DEF Inv, MainTypeOK, Hooks, Goto, Groups, MainOk
<1>3. CASE Hooks("dispatch", {"dispatch"}, "GlobalPatch")
  BY <1>1, <1>3 DEF Inv, MainTypeOK, Hooks, Goto, Groups, MainOk
<1>4. CASE SetInstance("GlobalPatch", "texts")
  BY <1>1, <1>4 DEF Inv, MainTypeOK, SetInstance, Goto, MainOk
<1>5. CASE Hooks("texts", {"texts"}, "course")
  BY <1>1, <1>5 DEF Inv, MainTypeOK, Hooks, Goto, Groups, MainOk
<1>6. CASE Hooks("courses", {"courses"}, "CoursePatch")
  BY <1>1, <1>6 DEF Inv, MainTypeOK, Hooks, Goto, Groups, MainOk
<1>7. CASE SetInstance("CoursePatch", "online")
  BY <1>1, <1>7 DEF Inv, MainTypeOK, SetInstance, Goto, MainOk
<1>8. CASE Hooks("online", {"online", "random"}, "wait")
  BY <1>1, <1>8 DEF Inv, MainTypeOK, Hooks, Goto, Groups, MainOk
<1>9. CASE Hooks("wait", {}, "loop")
  BY <1>1, <1>9 DEF Inv, MainTypeOK, Hooks, Goto, Groups, MainOk
<1> QED BY <1>2, <1>3, <1>4, <1>5, <1>6, <1>7, <1>8, <1>9 DEF Install

LEMMA BattlePicturesStep ==
  ASSUME Inv, BattlePictures PROVE Inv'
<1>1. LoadOk' /\ crashed' \in BOOLEAN
  BY StillOk, RaisedOk, KnownCodes, SizesAssumption DEF Inv, MainTypeOK, BattlePictures
<1>2. main = "course" /\ main' = "load" /\ hooked' = hooked /\ instances' = instances
  BY DEF BattlePictures, Goto
<1> QED BY <1>1, <1>2 DEF Inv, MainTypeOK, MainOk

LEMMA LoadStep ==
  ASSUME Inv, Load PROVE Inv'
<1>1. main = "load" /\ hooked' = hooked /\ instances' = instances
  BY DEF Load
<1>2. CASE Loading /\ UNCHANGED <<main, crashed>>
  <2>1. LoadOk'
    BY <1>2, LoadingStep DEF Inv, MainTypeOK
  <2> QED BY <1>1, <1>2, <2>1 DEF Inv, MainTypeOK, MainOk
<1>3. CASE /\ at \in {"returned", "loaded"} /\ Goto("load", "courses")
           /\ UNCHANGED <<loaderVars, errorVars, crashed>>
  <2>1. LoadOk' /\ errorArg' = errorArg /\ at' = at
    BY <1>3, StillOk DEF Inv, MainTypeOK, loaderVars, errorVars
  <2>2. main' = "courses" /\ (at = "returned" => errorArg.errorType = 1)
    BY <1>3, IdleReported DEF Inv, MainTypeOK, Goto, LoadOk
  <2> QED BY <1>1, <1>3, <2>1, <2>2 DEF Inv, MainTypeOK, MainOk
<1>4. CASE crashed' = TRUE /\ UNCHANGED <<loaderVars, errorVars, main>>
  BY <1>1, <1>4, StillOk DEF Inv, MainTypeOK, MainOk
<1> QED BY <1>2, <1>3, <1>4 DEF Load

LEMMA OtherMainStep ==
  ASSUME Inv, NoSdCard \/ LaunchViewer PROVE Inv'
<1>1. LoadOk' /\ errorArg' = errorArg /\ at' = at
  BY StillOk DEF Inv, MainTypeOK, NoSdCard, LaunchViewer, loaderVars, errorVars
<1>2. CASE NoSdCard
  BY <1>1, <1>2 DEF Inv, MainTypeOK, NoSdCard, MainOk
<1>3. CASE LaunchViewer
  BY <1>1, <1>3 DEF Inv, MainTypeOK, LaunchViewer, Goto, MainOk
<1> QED BY <1>2, <1>3

LEMMA GameStep ==
  ASSUME Inv, GameOpens \/ \E g \in Groups : GameCrashes(g) PROVE Inv'
<1>1. LoadOk' /\ errorArg' = errorArg /\ at' = at /\ crashed' \in BOOLEAN
  BY StillOk, RaisedOk, KnownCodes, StartupAssumption
     DEF Inv, MainTypeOK, GameOpens, GameCrashes, loaderVars, errorVars
<1>2. UNCHANGED <<main, hooked, instances>>
  BY DEF GameOpens, GameCrashes
<1> QED BY <1>1, <1>2 DEF Inv, MainTypeOK, MainOk

LEMMA ReportStep ==
  ASSUME Inv, NEW t \in Threads, Report(t) PROVE Inv'
<1>1. /\ ErrorTypeOK'
      /\ errorArg.errorType = 1 => errorArg'.errorType = 1
      /\ raising[t].at = "check" => raising'[t].at = "type" \/ errorArg'.errorType = 1
      /\ raising[t].at = "type" => errorArg'.errorType = 1
      /\ \A u \in Threads \ {t} : raising'[u] = raising[u]
  BY ReportingType DEF Inv, MainTypeOK, Report, LoadOk
<1>2. UNCHANGED loaderVars /\ at' = at /\ UNCHANGED <<main, hooked, instances, crashed>>
  BY DEF Report, loaderVars
<1>3. ReturnedOk'
  BY <1>1, <1>2, SizesAssumption DEF Inv, MainTypeOK, LoadOk, ReturnedOk
<1>4. LoadOk'
  BY <1>1, <1>2, <1>3, LoaderUnchanged DEF Inv, MainTypeOK, LoadOk
<1> QED BY <1>1, <1>2, <1>4 DEF Inv, MainTypeOK, MainOk

LEMMA InvStep == Inv /\ [Next]_vars => Inv'
<1> SUFFICES ASSUME Inv, [Next]_vars PROVE Inv'
  OBVIOUS
<1>1. CASE UNCHANGED vars
  <2>1. LoadOk'
    BY <1>1, StillOk DEF Inv, MainTypeOK, vars
  <2> QED BY <1>1, <2>1 DEF Inv, MainTypeOK, vars, loaderVars, errorVars, MainOk
<1>2. CASE MainStep
  BY <1>2, InstallStep, BattlePicturesStep, LoadStep, OtherMainStep DEF MainStep
<1>3. CASE GameOpens \/ \E g \in Groups : GameCrashes(g)
  BY <1>3, GameStep
<1>4. CASE \E t \in Threads : Report(t)
  BY <1>4, ReportStep
<1> QED BY <1>1, <1>2, <1>3, <1>4 DEF Next

LEMMA InvAlways == Spec => []Inv
BY InitInv, InvStep, PTL DEF Spec

-----------------------------------------------------------------------------
(* The texts the loader adds. *)

\* The table new is table, with m if there was room.
Added(table, m, new) ==
  /\ \A row \in DOMAIN new : new[row] = m \/ (row \in DOMAIN table /\ new[row] = table[row])
  /\ \A x : HasText(table, x) => HasText(new, x)
  /\ Len(new) < MaxMessages => Len(table) < MaxMessages /\ HasText(new, m.id)

\* AddMessage never touches a text of the table, and adds its own if there is room.
LEMMA AddMessageAdds ==
  ASSUME NEW table \in Tables, NEW id \in Messages, NEW text \in Messages, NEW new,
         new = AddMessage(table, id, text)
  PROVE  Added(table, Text(id, text), new)
<1> DEFINE Active == [id : Messages, text : Messages]
           m == Text(id, text)
<1>1. m \in Active /\ m.id = id /\ table \in Seq(Active)
  BY DEF Text, Tables
<1>2. CASE Len(table) < MaxMessages
  <2> HIDE DEF Active, m
  <2>1. new = Append(table, m)
    BY <1>2 DEF AddMessage, Text, m
  <2>2. Len(table) \in Nat /\ DOMAIN table = 1..Len(table)
    BY <1>1
  <2>3. /\ Len(new) = Len(table) + 1 /\ DOMAIN new = 1..(Len(table) + 1)
        /\ \A row \in 1..Len(table) : new[row] = table[row]
        /\ new[Len(table) + 1] = m
    BY <1>1, <2>1
  <2>4. \A row \in DOMAIN new : new[row] = m \/ (row \in DOMAIN table /\ new[row] = table[row])
    BY <2>2, <2>3
  <2>5. \A x : HasText(table, x) => HasText(new, x)
    BY <2>2, <2>3 DEF HasText
  <2>6. HasText(new, id)
    BY <1>1, <2>2, <2>3 DEF HasText
  <2> QED BY <1>1, <1>2, <2>4, <2>5, <2>6 DEF m, Added
<1>3. CASE ~(Len(table) < MaxMessages)
  <2>1. new = table
    BY <1>3 DEF AddMessage
  <2> QED BY <1>3, <2>1 DEF Added
<1> QED BY <1>2, <1>3

\* A step that leaves table and loader alone, or gives up, keeps what is said of texts.
LEMMA SameTexts ==
  ASSUME TextsOk, UNCHANGED <<archive, messages>>,
         at' \in {"returned", "null"} \/ UNCHANGED <<at, n, track>>
  PROVE  TextsOk'
<1>1. \A k, t : TrackMessage(k, t)' = TrackMessage(k, t) /\ RetroMessage(k, t)' = RetroMessage(k, t)
  BY DEF TrackMessage, RetroMessage
<1>2. \A row \in DOMAIN messages' : FromEntry(messages[row])'
  BY DEF TextsOk, FromEntry, CupMessage, TrackMessage, RetroMessage, Text
<1>3. PassedHaveTexts => PassedHaveTexts'
  BY DEF PassedHaveTexts, Passed, HasText, CupMessage, TrackMessage, RetroMessage
<1> QED BY <1>2, <1>3 DEF TextsOk

LEMMA CupTexts ==
  ASSUME LoadOk, TextsOk, NEW fault, LoadCup(fault) PROVE TextsOk'
<1> DEFINE e == archive[n]
<1>1. /\ at = "cups" /\ n \in DOMAIN archive /\ archive' = archive /\ archive \in Archives
      /\ track \in Tracks /\ n \in Nat
      /\ messages \in Tables
      /\ messages' = AddMessage(messages, CupMessage(e.cup), <<"cup", n, 0>>)
      /\ at' \in {"cups", "returned", "null"}
      /\ at' = "cups" => n' = n + 1
  BY EntryType DEF LoadCup, LoadOk, LoaderTypeOK, PictureFault, Tables
<1>2. /\ \A row \in DOMAIN messages' :
           messages'[row] = Text(CupMessage(e.cup), <<"cup", n, 0>>)
             \/ (row \in DOMAIN messages /\ messages'[row] = messages[row])
      /\ \A x : HasText(messages, x) => HasText(messages', x)
      /\ Len(messages') < MaxMessages =>
           Len(messages) < MaxMessages /\ HasText(messages', CupMessage(e.cup))
  <2>1. CupMessage(e.cup) \in Messages /\ <<"cup", n, 0>> \in Messages
    BY <1>1, KnownMessages
  <2>2. Added(messages, Text(CupMessage(e.cup), <<"cup", n, 0>>), messages')
    BY <1>1, <2>1, AddMessageAdds
  <2> QED BY <2>2 DEF Added, Text
<1>3. \A m : FromEntry(m) => FromEntry(m)'
  BY <1>1 DEF FromEntry, CupMessage, TrackMessage, RetroMessage, Text
<1>4. \A m : m = Text(CupMessage(e.cup), <<"cup", n, 0>>) => FromEntry(m)'
  BY <1>1 DEF FromEntry, Text, CupMessage
<1>5. \A row \in DOMAIN messages' : FromEntry(messages[row])'
  BY <1>2, <1>3, <1>4 DEF TextsOk
<1>6. ASSUME Len(messages') < MaxMessages, at' = "cups", NEW k \in DOMAIN archive, k < n'
      PROVE  HasText(messages', CupMessage(archive[k].cup))
  <2>1. k < n \/ k = n
    BY <1>1, <1>6, EntryType
  <2> QED BY <1>1, <1>2, <1>6, <2>1 DEF TextsOk, PassedHaveTexts
<1>7. Len(messages') < MaxMessages => PassedHaveTexts'
  BY <1>1, <1>6 DEF PassedHaveTexts, CupMessage
<1> QED BY <1>5, <1>7 DEF TextsOk

LEMMA TrackTexts ==
  ASSUME LoadOk, TextsOk, NEW fault, LoadTrack(fault) PROVE TextsOk'
<1> DEFINE e == archive[n]
           named == AddMessage(messages, TrackMessage(n, track), <<"name", n, track>>)
           name == Text(TrackMessage(n, track), <<"name", n, track>>)
           console == Text(RetroMessage(n, track), <<"retro", n, track>>)
<1>1. /\ at = "tracks" /\ n \in DOMAIN archive /\ archive' = archive /\ archive \in Archives
      /\ track \in Tracks /\ n \in Nat
      /\ messages \in Tables
      /\ messages' = IF track \in e.retro
                     THEN AddMessage(named, RetroMessage(n, track), <<"retro", n, track>>)
                     ELSE named
      /\ at' \in {"tracks", "returned", "null"}
      /\ at' = "tracks" => NextTrack
  BY EntryType DEF LoadTrack, LoadOk, LoaderTypeOK, PictureFault, Tables
<1>2. named \in Tables
  BY <1>1, KnownMessages, AddMessageType DEF LoadOk, LoaderTypeOK, Tables
<1>3. /\ \A row \in DOMAIN named :
           named[row] = name \/ (row \in DOMAIN messages /\ named[row] = messages[row])
      /\ \A x : HasText(messages, x) => HasText(named, x)
      /\ Len(named) < MaxMessages =>
           Len(messages) < MaxMessages /\ HasText(named, TrackMessage(n, track))
  <2>1. TrackMessage(n, track) \in Messages /\ <<"name", n, track>> \in Messages
    BY <1>1, KnownMessages
  <2>2. Added(messages, name, named)
    BY <1>1, <2>1, AddMessageAdds
  <2> HIDE DEF named
  <2> QED BY <2>2 DEF Added, Text
<1>4. /\ \A row \in DOMAIN messages' :
           \/ messages'[row] \in {name, console}
           \/ row \in DOMAIN messages /\ messages'[row] = messages[row]
      /\ \A x : HasText(messages, x) => HasText(messages', x)
      /\ Len(messages') < MaxMessages =>
           /\ Len(messages) < MaxMessages
           /\ HasText(messages', TrackMessage(n, track))
           /\ track \in e.retro => HasText(messages', RetroMessage(n, track))
  <2> HIDE DEF named
  <2>1. CASE track \in e.retro
    <3>1. messages' = AddMessage(named, RetroMessage(n, track), <<"retro", n, track>>)
      BY <1>1, <2>1
    <3>2. /\ \A row \in DOMAIN messages' :
               messages'[row] = console \/ (row \in DOMAIN named /\ messages'[row] = named[row])
          /\ \A x : HasText(named, x) => HasText(messages', x)
          /\ Len(messages') < MaxMessages =>
               Len(named) < MaxMessages /\ HasText(messages', RetroMessage(n, track))
      <4>1. RetroMessage(n, track) \in Messages /\ <<"retro", n, track>> \in Messages
        BY <1>1, KnownMessages
      <4>2. Added(named, console, messages')
        BY <1>2, <3>1, <4>1, AddMessageAdds
      <4> QED BY <4>2 DEF Added, Text
    <3> HIDE DEF name, console
    <3> QED BY <1>3, <3>2
  <2>2. CASE track \notin e.retro
    BY <1>1, <1>3, <2>2
  <2> QED BY <2>1, <2>2
<1>5. \A m : FromEntry(m) => FromEntry(m)'
  BY <1>1 DEF FromEntry, CupMessage, TrackMessage, RetroMessage, Text
<1>6. \A m : m \in {name, console} => FromEntry(m)'
  BY <1>1 DEF FromEntry, Text, TrackMessage, RetroMessage
<1>7. \A row \in DOMAIN messages' : FromEntry(messages[row])'
  <2> HIDE DEF name, console
  <2> QED BY <1>4, <1>5, <1>6 DEF TextsOk
<1>8. ASSUME Len(messages') < MaxMessages, at' = "tracks"
      PROVE  PassedHaveTexts'
  <2>1. PassedHaveTexts /\ NextTrack
    BY <1>1, <1>4, <1>8 DEF TextsOk
  <2>2. \A k \in DOMAIN archive : HasText(messages', CupMessage(archive[k].cup))
    BY <1>1, <1>4, <2>1 DEF PassedHaveTexts
  <2>3. ASSUME NEW k \in DOMAIN archive, NEW t \in Tracks, Passed(k, t)'
        PROVE  /\ HasText(messages', TrackMessage(k, t))
               /\ t \in archive[k].retro => HasText(messages', RetroMessage(k, t))
    <3>1. Passed(k, t) \/ (k = n /\ t = track)
      BY <1>1, <2>1, <2>3, NextPassed, EntryType, SizesAssumption
    <3>2. CASE Passed(k, t)
      BY <1>1, <1>4, <2>1, <3>2 DEF PassedHaveTexts
    <3>3. CASE k = n /\ t = track
      BY <1>4, <1>8, <3>3
    <3> QED BY <3>1, <3>2, <3>3
  <2> QED BY <1>1, <1>8, <2>2, <2>3 DEF PassedHaveTexts, CupMessage, TrackMessage, RetroMessage
<1>9. at' # "tracks" => PassedHaveTexts'
  BY <1>1 DEF PassedHaveTexts
<1> QED BY <1>7, <1>8, <1>9 DEF TextsOk

LEMMA LoadingTexts ==
  ASSUME LoadOk, LoadOk', TextsOk, Loading PROVE TextsOk'
<1>1. ASSUME NEW fault, OpenArchive(fault) PROVE TextsOk'
  <2>1. /\ at = "open" /\ n = 1 /\ archive' = archive /\ messages' = messages
        /\ at' \in {"cups", "returned", "null"} /\ n' = n /\ archive \in Archives
    BY <1>1 DEF OpenArchive, LoadOk, LoaderInv, CupsOk, LoaderTypeOK
  <2>2. CASE at' = "cups"
    <3>1. PassedHaveTexts'
      BY <2>1, <2>2, EntryType DEF PassedHaveTexts
    <3>2. \A row \in DOMAIN messages' : FromEntry(messages[row])'
      BY <2>1 DEF TextsOk, FromEntry, CupMessage, TrackMessage, RetroMessage, Text
    <3> QED BY <3>1, <3>2 DEF TextsOk
  <2>3. CASE at' \in {"returned", "null"}
    BY <2>1, <2>3, SameTexts
  <2> QED BY <2>1, <2>2, <2>3
<1>2. ASSUME CupsDone PROVE TextsOk'
  <2>1. /\ at = "cups" /\ n > Len(archive) /\ archive' = archive /\ messages' = messages
        /\ at' = "tracks" /\ n' = 1 /\ track' = track /\ archive \in Archives /\ n \in Nat
        /\ \A t \in Tracks : track <= t
    BY <1>2, EntryType DEF CupsDone, LoadOk, LoaderInv, TracksOk, LoaderTypeOK
  <2>2. \A row \in DOMAIN messages' : FromEntry(messages[row])'
    BY <2>1 DEF TextsOk, FromEntry, CupMessage, TrackMessage, RetroMessage, Text
  <2>3. ASSUME NEW k \in DOMAIN archive, NEW t \in Tracks PROVE ~Passed(k, t)'
    <3>1. t \in Nat /\ track \in Nat /\ track <= t /\ k \in Nat /\ k >= 1
      BY <2>1, EntryType, SizesAssumption DEF LoadOk, LoaderTypeOK
    <3> QED BY <2>1, <3>1 DEF Passed
  <2>4. \A k \in DOMAIN archive : k < n
    BY <2>1, EntryType
  <2>5. Len(messages) < MaxMessages => PassedHaveTexts'
    BY <2>1, <2>3, <2>4 DEF TextsOk, PassedHaveTexts, CupMessage
  <2> QED BY <2>1, <2>2, <2>5 DEF TextsOk
<1>3. ASSUME Finish PROVE TextsOk'
  <2>1. /\ at = "tracks" /\ at' = "loaded"
        /\ UNCHANGED <<archive, messages, n, track>>
    BY <1>3 DEF Finish
  <2>2. \A row \in DOMAIN messages' : FromEntry(messages[row])'
    BY <2>1 DEF TextsOk, FromEntry, CupMessage, TrackMessage, RetroMessage, Text
  <2>3. PassedHaveTexts => PassedHaveTexts'
    BY <2>1 DEF PassedHaveTexts, Passed, CupMessage, TrackMessage, RetroMessage
  <2> QED BY <2>1, <2>2, <2>3 DEF TextsOk
<1> QED BY <1>1, <1>2, <1>3, CupTexts, TrackTexts DEF Loading

LEMMA TextsStep == Inv /\ Inv' /\ TextsOk /\ [Next]_vars => TextsOk'
<1> SUFFICES ASSUME Inv, Inv', TextsOk, [Next]_vars PROVE TextsOk'
  OBVIOUS
<1>1. CASE Loading
  BY <1>1, LoadingTexts DEF Inv
<1>2. CASE UNCHANGED loaderVars
  BY <1>2, SameTexts DEF loaderVars
<1>3. Loading \/ UNCHANGED loaderVars
  BY DEF Next, vars, MainStep, NoSdCard, Install, Hooks, SetInstance, BattlePictures, Load,
         LaunchViewer, GameOpens, GameCrashes, Report
<1> QED BY <1>1, <1>2, <1>3

LEMMA TextsAlways == Spec => []TextsOk
<1>1. Init => TextsOk
  BY EntryType DEF Init, LoaderInit, TextsOk, PassedHaveTexts
<1> QED BY <1>1, TextsStep, InvAlways, PTL DEF Spec

-----------------------------------------------------------------------------

\* The loader, the texts, the error and MainThread keep their types (cup0.cpp, main.cpp).
THEOREM TypeCorrect == Spec => []TypeOK
<1>1. Inv => TypeOK
  BY DEF Inv, LoadOk, MainTypeOK, TypeOK
<1> QED BY <1>1, InvAlways, PTL

\* For every archive and whatever is missing or corrupt: once CUP0Instance is set, every
\* cup and track of the archive is in its page, and no page has more (cup0.cpp:30-79).
THEOREM PagesWhole == Spec => []WholeArchive
<1>1. Inv => WholeArchive
  <2> SUFFICES ASSUME Inv, CUP0Instance PROVE WholeArchive
    BY DEF WholeArchive
  <2>1. at = "loaded" /\ n > Len(archive)
    BY DEF Inv, LoadOk, LoaderInv, TracksOk
  <2>2. ASSUME NEW k \in DOMAIN archive PROVE EntryLoaded(k)
    <3>1. k < n
      BY <2>1, EntryType DEF Inv, LoadOk, LoaderTypeOK
    <3>2. \A t \in Tracks : TrackLoaded(k, t)
      BY <2>1, <3>1 DEF Inv, LoadOk, LoaderInv, TracksOk, Passed
    <3>3. <<archive[k].page, archive[k].cup>> \in cups
      BY <2>1 DEF Inv, LoadOk, LoaderInv, CupsOk
    <3> QED BY <3>2, <3>3 DEF EntryLoaded, TrackLoaded
  <2> QED BY <2>2 DEF WholeArchive, Inv, LoadOk, LoaderInv, CupsOk
<1> QED BY <1>1, InvAlways, PTL

\* In MainThread's loop, if no error was reported, every hook but getRandomOnlineTracks
\* finds the instances it reads (main.cpp:26-63).
THEOREM LoopReady == Spec => []LoopFindsInstances
<1>1. Inv => LoopFindsInstances
  <2> SUFFICES ASSUME Inv, main = "loop", errorArg.errorType = 0,
                      NEW g \in hooked, g # "random"
               PROVE  Needs(g) \subseteq Set
    BY DEF LoopFindsInstances
  <2>1. {"GlobalPatch", "CoursePatch"} \subseteq instances /\ CUP0Instance
    BY DEF Inv, LoadOk, MainOk, LoaderInv, TracksOk
  <2>2. {"GlobalPatch", "CoursePatch", "CUP0"} \subseteq Set
    BY <2>1 DEF Set
  <2>3. g \in Groups
    BY DEF Inv, MainTypeOK
  <2>4. Needs(g) \subseteq {"GlobalPatch", "CoursePatch", "CUP0"}
    BY <2>3 DEF Groups, Needs
  <2> QED BY <2>2, <2>4
<1> QED BY <1>1, InvAlways, PTL

\* For every archive and any number of texts: if the table was never full, every
\* identifier a page holds leads to the text the archive has for it, whatever other
\* entries, with texts of the same table, were loaded before or after (cup0.cpp:35, :61,
\* :65, message.cpp:34-45).
THEOREM NamesOfTheArchive == Spec => []NamesLead
<1>1. ASSUME Inv, TextsOk, CUP0Instance, Len(messages) < MaxMessages, NEW k \in DOMAIN archive
      PROVE  /\ HasText(messages, CupMessage(archive[k].cup))
             /\ \A t \in Tracks :
                  /\ HasText(messages, TrackMessage(k, t))
                  /\ t \in archive[k].retro => HasText(messages, RetroMessage(k, t))
  <2>1. at = "loaded" /\ n > Len(archive) /\ archive \in Archives /\ n \in Nat
    BY <1>1, EntryType DEF Inv, LoadOk, LoaderTypeOK, LoaderInv, TracksOk
  <2>2. \A t : Passed(k, t)
    BY <2>1, EntryType DEF Passed
  <2> QED BY <1>1, <2>1, <2>2 DEF TextsOk, PassedHaveTexts
<1>2. ASSUME Inv, TextsOk, NEW x, HasText(messages, x)
      PROVE  \E row \in DOMAIN messages : messages[row].id = x /\ Message(x) = messages[row].text
  <2> DEFINE found == {row \in DOMAIN messages : messages[row].id = x}
  <2>1. found # {} /\ found \in SUBSET Nat
    BY <1>2 DEF HasText, Inv, LoadOk, LoaderTypeOK
  <2>2. Least(found) \in found
    BY <2>1, LeastIsLeast
  <2>3. Message(x) = messages[Least(found)].text
    BY <2>1 DEF Message, Least
  <2> QED BY <2>2, <2>3
<1>3. ASSUME Inv, TextsOk, NEW row \in DOMAIN messages, NEW k \in DOMAIN archive
      PROVE  /\ messages[row].id = CupMessage(archive[k].cup) =>
                  messages[row].text = <<"cup", k, 0>>
             /\ \A t \in Tracks :
                  /\ messages[row].id = TrackMessage(k, t) => messages[row].text = <<"name", k, t>>
                  /\ messages[row].id = RetroMessage(k, t) => messages[row].text = <<"retro", k, t>>
  <2>1. archive \in Archives
    BY <1>3 DEF Inv, LoadOk, LoaderTypeOK
  <2>2. PICK j \in DOMAIN archive :
          \/ messages[row] = Text(CupMessage(archive[j].cup), <<"cup", j, 0>>)
          \/ \E t \in Tracks : \/ messages[row] = Text(TrackMessage(j, t), <<"name", j, t>>)
                               \/ messages[row] = Text(RetroMessage(j, t), <<"retro", j, t>>)
    BY <1>3 DEF TextsOk, FromEntry
  <2>3. CASE messages[row] = Text(CupMessage(archive[j].cup), <<"cup", j, 0>>)
    <3>1. CupMessage(archive[j].cup) = CupMessage(archive[k].cup) => j = k
      <4>1. j \in Nat /\ k \in Nat
        BY <2>1, EntryType
      <4>2. archive[j].cup = archive[k].cup => ~(k < j) /\ ~(j < k)
        BY <2>1, ArchivesAssumption, Zenon
      <4> QED BY <4>1, <4>2 DEF CupMessage
    <3> QED BY <2>3, <3>1 DEF Text, CupMessage, TrackMessage, RetroMessage
  <2>4. CASE \E t \in Tracks : \/ messages[row] = Text(TrackMessage(j, t), <<"name", j, t>>)
                               \/ messages[row] = Text(RetroMessage(j, t), <<"retro", j, t>>)
    BY <2>4 DEF Text, CupMessage, TrackMessage, RetroMessage
  <2> QED BY <2>2, <2>3, <2>4
<1>4. Inv /\ TextsOk => NamesLead
  BY <1>1, <1>2, <1>3 DEF NamesLead
<1> QED BY <1>4, InvAlways, TextsAlways, PTL

-----------------------------------------------------------------------------
(* MainThread comes to its end: what it has left to do gets less.           *)

\* The pieces of its work before the loop is left.
MainRank ==
  CASE main = "files" -> 11 [] main = "dispatch" -> 10 [] main = "GlobalPatch" -> 9
    [] main = "texts" -> 8 [] main = "course" -> 7 [] main = "load" -> 6
    [] main = "courses" -> 5 [] main = "CoursePatch" -> 4 [] main = "online" -> 3
    [] main = "wait" -> 2 [] main = "loop" -> 1 [] OTHER -> 0

\* The rounds of the second loop that are left of an archive of len entries, when no track
\* is above top.
TracksLeft(len, top, k, t) == (len + 1 - k) * (top + 1) + (top + 1 - t)

\* The rounds of the loader.
LoaderRank(top) ==
  CASE at = "tracks" -> TracksLeft(Len(archive), top, n, track)
    [] at = "cups" -> (Len(archive) + 1) * (top + 1) + 1 + (Len(archive) + 1 - n)
    [] at = "open" -> (Len(archive) + 1) * (top + 1) + 2 + Len(archive) + 1
    [] OTHER -> 0

\* The steps of FatalError.
ReportRank ==
  CASE raising[Main].at = "check" -> 4 [] raising[Main].at = "type" -> 3
    [] raising[Main].at = "text" -> 2 [] raising[Main].at = "title" -> 1 [] OTHER -> 0

\* Each piece or round may report an error.
WorkLeft(top) == 5 * (MainRank + LoaderRank(top)) + ReportRank

LEMMA RanksAreNumbers ==
  ASSUME LoaderTypeOK, NEW top \in Nat, Tracks \subseteq 0..top
  PROVE  /\ MainRank \in Nat /\ LoaderRank(top) \in Nat /\ ReportRank \in 0..4
         /\ at = "tracks" => LoaderRank(top) > 0
<1>1. /\ Len(archive) \in Nat /\ n \in 1..(Len(archive) + 1) /\ track \in 0..top
      /\ at \in {"open", "cups", "tracks", "null", "returned", "loaded"}
  BY EntryType DEF LoaderTypeOK
<1> DEFINE entries == Len(archive) + 1 - n
           rounds == (Len(archive) + 1) * (top + 1)
           inTracks == entries * (top + 1)
<1>2. entries \in Nat /\ rounds \in Nat /\ inTracks \in Nat
  BY <1>1
<1>3. /\ at = "tracks" => LoaderRank(top) = inTracks + (top + 1 - track)
      /\ at = "cups" => LoaderRank(top) = rounds + 1 + entries
      /\ at = "open" => LoaderRank(top) = rounds + 2 + Len(archive) + 1
      /\ at \in {"null", "returned", "loaded"} => LoaderRank(top) = 0
  BY DEF LoaderRank, TracksLeft
<1> HIDE DEF entries, rounds, inTracks
<1>4. LoaderRank(top) \in Nat /\ (at = "tracks" => LoaderRank(top) > 0)
  BY <1>1, <1>2, <1>3
<1>5. MainRank \in Nat /\ ReportRank \in 0..4
  BY DEF MainRank, ReportRank
<1> QED BY <1>4, <1>5

LEMMA RankIsNumber ==
  LoaderTypeOK => \A top \in Nat : Tracks \subseteq 0..top => LoaderRank(top) \in Nat
BY RanksAreNumbers

LEMMA RankIsNumberThen ==
  (LoaderTypeOK => \A top \in Nat : Tracks \subseteq 0..top => LoaderRank(top) \in Nat)'
BY RankIsNumber, PTL

LEMMA LoaderRankTyped ==
  ASSUME LoaderTypeOK, LoaderTypeOK', NEW top \in Nat, Tracks \subseteq 0..top
  PROVE  LoaderRank(top) \in Nat /\ LoaderRank(top)' \in Nat
BY RankIsNumber, RankIsNumberThen

\* A round of the loader.
LEMMA LoadingRank ==
  ASSUME LoadOk, Loading, NEW top \in Nat, Tracks \subseteq 0..top
  PROVE  LoaderRank(top)' < LoaderRank(top)
<1> USE DEF LoadOk
<1> DEFINE W == top + 1
           L == Len(archive)
           rounds == (L + 1) * W
<1>1. /\ L \in Nat /\ W \in Nat \ {0} /\ n \in 1..(L + 1) /\ track \in 0..top /\ track \in Tracks
  BY EntryType DEF LoaderTypeOK
<1>2. archive' = archive /\ LoadOk'
  BY LoadingStep DEF Loading, OpenArchive, LoadCup, CupsDone, LoadTrack, Finish
<1>3. LoaderRank(top) \in Nat /\ LoaderRank(top)' \in Nat /\ (at = "tracks" => LoaderRank(top) > 0)
  BY <1>2, LoaderRankTyped, RanksAreNumbers
<1>4. /\ at = "tracks" => LoaderRank(top) = TracksLeft(L, top, n, track)
      /\ at = "cups" => LoaderRank(top) = rounds + 1 + (L + 1 - n)
      /\ at = "open" => LoaderRank(top) = rounds + 2 + L + 1
  BY DEF LoaderRank
<1>5. /\ at' = "tracks" => LoaderRank(top)' = TracksLeft(L, top, n', track')
      /\ at' = "cups" => LoaderRank(top)' = rounds + 1 + (L + 1 - n')
      /\ at' \in {"null", "returned", "loaded"} => LoaderRank(top)' = 0
  BY <1>2 DEF LoaderRank
<1>6. rounds \in Nat /\ \A k \in 1..(L + 1) : (L + 1 - k) * W \in Nat
  BY <1>1
<1>7. ASSUME NEW fault, OpenArchive(fault) PROVE LoaderRank(top)' < LoaderRank(top)
  <2>1. at = "open" /\ n' = n /\ at' \in {"cups", "null", "returned"}
    BY <1>7 DEF OpenArchive
  <2> HIDE DEF rounds, W, L
  <2> QED BY <1>1, <1>3, <1>4, <1>5, <1>6, <2>1
<1>8. ASSUME NEW fault, LoadCup(fault) PROVE LoaderRank(top)' < LoaderRank(top)
  <2>1. /\ at = "cups" /\ n <= L
        /\ (at' = "cups" /\ n' = n + 1) \/ at' \in {"null", "returned"}
    BY <1>8 DEF LoadCup, PictureFault
  <2> HIDE DEF rounds, W, L
  <2> QED BY <1>1, <1>3, <1>4, <1>5, <1>6, <2>1
<1>9. CASE CupsDone
  <2>1. at = "cups" /\ at' = "tracks" /\ n' = 1 /\ track' = track /\ n > L
    BY <1>9 DEF CupsDone
  <2>2. TracksLeft(L, top, 1, track) <= rounds
    <3>1. rounds = L * W + W /\ L * W \in Nat
      BY <1>1
    <3> QED BY <1>1, <3>1 DEF TracksLeft
  <2> HIDE DEF rounds, W, L
  <2> QED BY <1>1, <1>3, <1>4, <1>5, <1>6, <2>1, <2>2
<1>10. CASE Finish
  <2>1. at = "tracks" /\ at' = "loaded"
    BY <1>10 DEF Finish
  <2> QED BY <1>3, <1>4, <1>5, <2>1
<1>11. ASSUME NEW fault, LoadTrack(fault) PROVE LoaderRank(top)' < LoaderRank(top)
  <2>1. at = "tracks" /\ n <= L
    BY <1>11 DEF LoadTrack
  <2>2. CASE PictureFault(fault, "444-0002")
    <3>1. at' \in {"null", "returned"}
      BY <2>2 DEF PictureFault
    <3> QED BY <1>3, <1>4, <1>5, <2>1, <3>1
  <2>3. CASE NextTrack /\ at' = at
    <3>1. Tracks \in SUBSET Nat /\ Later(track) \in SUBSET Nat
      BY SizesAssumption DEF Later
    <3>2. CASE Later(track) # {}
      <4>1. n' = n /\ track' \in Later(track)
        BY <2>3, <3>1, <3>2, LeastIsLeast DEF NextTrack
      <4>2. track' \in 0..top /\ track' > track
        BY <4>1 DEF Later
      <4>3. TracksLeft(L, top, n, track') < TracksLeft(L, top, n, track)
        BY <1>1, <1>6, <4>2 DEF TracksLeft
      <4> QED BY <1>4, <1>5, <2>1, <2>3, <4>1, <4>3
    <3>3. CASE Later(track) = {}
      <4>1. n' = n + 1 /\ track' \in 0..top
        BY <1>1, <2>3, <3>1, <3>3, LeastIsLeast DEF NextTrack
      <4>2. (L + 1 - n) * W = (L + 1 - (n + 1)) * W + W
        BY <1>1
      <4>3. TracksLeft(L, top, n + 1, track') < TracksLeft(L, top, n, track)
        <5>1. (L + 1 - (n + 1)) * W \in Nat
          BY <1>1, <1>6, <2>1
        <5> QED BY <1>1, <4>1, <4>2, <5>1 DEF TracksLeft
      <4> QED BY <1>4, <1>5, <2>1, <2>3, <4>1, <4>3
    <3> QED BY <3>2, <3>3
  <2> QED BY <1>11, <2>2, <2>3 DEF LoadTrack
<1> QED BY <1>7, <1>8, <1>9, <1>10, <1>11 DEF Loading

\* A step of MainThread's own work, from outside FatalError.
LEMMA MainStepLeft ==
  ASSUME Inv, Inv', MainStep, ~crashed', NEW top \in Nat, Tracks \subseteq 0..top
  PROVE  WorkLeft(top)' < WorkLeft(top)
<1> USE DEF Inv
<1>1. /\ MainRank \in Nat /\ LoaderRank(top) \in Nat
      /\ MainRank' \in Nat /\ LoaderRank(top)' \in Nat /\ ReportRank' \in 0..4
  <2>1. LoaderRank(top) \in Nat /\ LoaderRank(top)' \in Nat
    BY LoaderRankTyped DEF LoadOk
  <2> QED BY <2>1 DEF MainRank, ReportRank
<1>2. Idle(Main) /\ MainRank' + LoaderRank(top)' < MainRank + LoaderRank(top)
  <2>1. CASE Install \/ BattlePictures \/ LaunchViewer
    <3>1. Idle(Main) /\ UNCHANGED loaderVars
      BY <2>1 DEF Install, Hooks, SetInstance, BattlePictures, LaunchViewer, Goto
    <3>2. LoaderRank(top)' = LoaderRank(top)
      BY <3>1 DEF loaderVars, LoaderRank
    <3>3. MainRank' < MainRank
      BY <2>1 DEF Install, Hooks, SetInstance, BattlePictures, LaunchViewer, Goto, MainRank
    <3> QED BY <1>1, <3>1, <3>2, <3>3
  <2>2. CASE Load
    <3>1. CASE Loading /\ UNCHANGED <<main, crashed>>
      <4>1. LoaderRank(top)' < LoaderRank(top) /\ Idle(Main)
        BY <3>1, LoadingRank DEF Loading
      <4>2. MainRank' = MainRank
        BY <3>1 DEF MainRank
      <4> QED BY <1>1, <4>1, <4>2
    <3>2. CASE Goto("load", "courses") /\ UNCHANGED loaderVars
      <4>1. LoaderRank(top)' = LoaderRank(top)
        BY <3>2 DEF loaderVars, LoaderRank
      <4>2. Idle(Main) /\ MainRank' < MainRank
        BY <3>2 DEF Goto, MainRank
      <4> QED BY <1>1, <4>1, <4>2
    <3> QED BY <2>2, <3>1, <3>2 DEF Load
  <2>3. ~NoSdCard
    BY DEF NoSdCard
  <2> QED BY <2>1, <2>2, <2>3 DEF MainStep
<1>3. ReportRank = 0
  BY <1>2 DEF Idle, NotRaising, ReportRank
<1> HIDE DEF Inv
<1> QED BY <1>1, <1>2, <1>3 DEF WorkLeft

\* A step of MainThread inside FatalError.
LEMMA ReportLeft ==
  ASSUME Inv, Report(Main), NEW top \in Nat, Tracks \subseteq 0..top
  PROVE  WorkLeft(top)' < WorkLeft(top)
<1>1. /\ MainRank \in Nat /\ LoaderRank(top) \in Nat
      /\ MainRank' = MainRank /\ LoaderRank(top)' = LoaderRank(top)
  BY RanksAreNumbers DEF Inv, LoadOk, Report, loaderVars, MainRank, LoaderRank
<1>2. raising[Main] \in [code : Codes, at : {"check", "type", "text", "title"}]
  BY SizesAssumption
     DEF Inv, LoadOk, Report, Reporting, Check, SetType, SetText, SetTitle, ErrorTypeOK, NotRaising
<1>3. ReportRank' \in Nat /\ ReportRank \in Nat /\ ReportRank' < ReportRank
  <2>1. raising \in [Threads -> [code : Codes, at : {"check", "type", "text", "title"}]
                                \cup {NotRaising}] /\ Main \in Threads
    BY SizesAssumption DEF Inv, LoadOk, ErrorTypeOK
  <2>2. /\ raising[Main].at = "check" => raising'[Main].at \in {"type", "out"}
        /\ raising[Main].at = "type" => raising'[Main].at = "text"
        /\ raising[Main].at = "text" => raising'[Main].at = "title"
        /\ raising[Main].at = "title" => raising'[Main].at = "out"
    BY <1>2, <2>1
       DEF Report, Reporting, Check, SetType, SetText, SetTitle, Goes, Returns, NotRaising
  <2> QED BY <1>2, <2>2 DEF ReportRank
<1> QED BY <1>1, <1>3 DEF WorkLeft

\* What the game does leaves MainThread's work alone.
LEMMA OthersLeft ==
  ASSUME Inv, NEW top,
         GameOpens \/ (\E g \in Groups : GameCrashes(g)) \/ Report(Game) \/ UNCHANGED vars
  PROVE  WorkLeft(top)' = WorkLeft(top)
<1>1. raising'[Main] = raising[Main]
  <2>1. CASE GameOpens
    BY <2>1, StartupAssumption DEF GameOpens, FatalError, Inv, LoadOk, ErrorTypeOK
  <2>2. CASE Report(Game)
    BY <2>2, ReportingType, StartupAssumption DEF Report, Inv, LoadOk
  <2> QED BY <2>1, <2>2 DEF GameCrashes, errorVars, vars
<1>2. UNCHANGED <<loaderVars, main>>
  BY DEF GameOpens, GameCrashes, Report, vars
<1> QED BY <1>1, <1>2 DEF WorkLeft, MainRank, LoaderRank, ReportRank, loaderVars

\* MainThread comes to its end.  A reported error stays reported; the steps MainThread has
\* left are a number, 0 only when the viewer was launched; each step of its own makes it
\* less, unless the program crashes, and nothing the game does, opening files and reporting
\* errors at the same time, makes it more.  So MainThread is kept from the viewer by nothing
\* but a crash, or by no error (main.cpp:4-11, :34-89, cup0.cpp:30-79).
MainComesToItsEnd(top) ==
  /\ [](WorkLeft(top) \in Nat /\ (WorkLeft(top) = 0 => main = "viewer"))
  /\ [][errorArg.errorType = 1 => errorArg'.errorType = 1]_vars
  /\ [][IF MainStep \/ Report(Main) THEN WorkLeft(top)' < WorkLeft(top) \/ crashed'
        ELSE WorkLeft(top)' = WorkLeft(top)]_vars

\* For archives of cups with any number of tracks.
THEOREM StartupEnds ==
  ASSUME NEW top \in Nat, Tracks \subseteq 0..top
  PROVE  Spec => MainComesToItsEnd(top)
<1>1. Inv => WorkLeft(top) \in Nat /\ (WorkLeft(top) = 0 => main = "viewer")
  <2> SUFFICES ASSUME Inv PROVE WorkLeft(top) \in Nat /\ (WorkLeft(top) = 0 => main = "viewer")
    OBVIOUS
  <2>1. MainRank \in Nat /\ LoaderRank(top) \in Nat /\ ReportRank \in 0..4
    BY RanksAreNumbers DEF Inv, LoadOk
  <2>2. MainRank = 0 => main = "viewer"
    BY DEF MainRank, Inv, MainTypeOK
  <2> QED BY <2>1, <2>2 DEF WorkLeft
<1>2. Inv /\ [Next]_vars =>
        [errorArg.errorType = 1 => errorArg'.errorType = 1]_vars
  <2> SUFFICES ASSUME Inv, Next, errorArg.errorType = 1 PROVE errorArg'.errorType = 1
    OBVIOUS
  <2>1. CASE MainStep
    <3>1. errorArg' = errorArg
      BY <2>1 DEF MainStep, NoSdCard, Install, Hooks, SetInstance, BattlePictures, Load, LaunchViewer,
         Loading, OpenArchive, LoadCup, LoadTrack, PictureFault, CupsDone, Finish, FatalError,
         errorVars
    <3> QED BY <3>1
  <2>2. CASE GameOpens \/ \E g \in Groups : GameCrashes(g)
    BY <2>2 DEF GameOpens, GameCrashes, FatalError, errorVars
  <2>3. CASE \E t \in Threads : Report(t)
    BY <2>3, ReportingType DEF Report, Inv, LoadOk
  <2> QED BY <2>1, <2>2, <2>3 DEF Next
<1>3. Inv /\ Inv' /\ [Next]_vars =>
        [IF MainStep \/ Report(Main) THEN WorkLeft(top)' < WorkLeft(top) \/ crashed'
         ELSE WorkLeft(top)' = WorkLeft(top)]_vars
  <2> SUFFICES ASSUME Inv, Inv', Next
               PROVE  IF MainStep \/ Report(Main) THEN WorkLeft(top)' < WorkLeft(top) \/ crashed'
                      ELSE WorkLeft(top)' = WorkLeft(top)
    OBVIOUS
  <2>1. CASE MainStep
    BY <2>1, MainStepLeft
  <2>2. CASE Report(Main)
    BY <2>2, ReportLeft
  <2>3. CASE ~(MainStep \/ Report(Main))
    BY <2>3, OthersLeft, StartupAssumption DEF Next
  <2> QED BY <2>1, <2>2, <2>3
<1> QED BY <1>1, <1>2, <1>3, InvAlways, PTL DEF Spec, MainComesToItsEnd
=============================================================================
