------------------------------ MODULE CupArchive ------------------------------
(***************************************************************************)
(* The loader of data.cup0 (source/patch/cup0.cpp): what MainThread does   *)
(* with the archive that create_cup_organization.py builds, and with the   *)
(* table of texts (source/patch/message.cpp) it fills on the way.          *)
(*                                                                         *)
(* An archive is the sequence of its cup entries, in the builder's order;  *)
(* the builder writes the tracks of each cup in turn, so the tracks need   *)
(* no sequence of their own.  A text is abstracted to where it is from.    *)
(* The identifiers 14337 + cup, 15337 + i and 15937 + i are kept apart:    *)
(* they would meet at the 600th track, far behind the last free message.   *)
(***************************************************************************)
EXTENDS Integers, Sequences, FatalErrors

CONSTANTS
  Archives,     \* the archives that may be installed
  NumPages,     \* num_cups_hardcode, which the builder writes as numPages
  CupIds,       \* cups a page has room for (0..7)
  Tracks,       \* tracks of a cup (0..3)
  MaxMessages,  \* messages still free (MAX_MESSAGE_COUNT, less 11 of the mod itself)
  Faults,       \* what may be wrong: files "missing" or "corrupt", no "sdcard"
  Main          \* the thread that loads

PageIds == 0..(NumPages - 1)

\* The builder goes through pages and cups in order; here every page it uses is
\* one of numPages, and no two pages replace the same cup.
Before(d, e) == d.page < e.page \/ (d.page = e.page /\ d.cup < e.cup)

ASSUME ArchivesAssumption ==
  \A a \in Archives :
    /\ a \in Seq([page : PageIds, cup : CupIds, retro : SUBSET Tracks])
    /\ \A i, j \in DOMAIN a : i < j => Before(a[i], a[j]) /\ a[i].cup # a[j].cup

ASSUME SizesAssumption ==
  /\ NumPages \in Nat /\ MaxMessages \in Nat
  /\ CupIds \subseteq Nat /\ Tracks \subseteq Nat
  /\ Faults \subseteq {"missing", "corrupt", "sdcard"} /\ Main \in Threads

VARIABLES
  archive,     \* the archive on the SD card
  at,          \* where the loader is
  n,           \* the cup entry it is at
  track,       \* the track of that cup it is at
  messages,    \* messages, in the order they became active
  cups,        \* <<page, cup>> with pageCustomCups and its icon
  trackNames,  \* the entry that trackNames and trackPaths of a place are from
  retros,      \* the places with a retroTrackNames
  CUP0Instance \* is the pointer set?

loaderVars == <<archive, at, n, track, messages, cups, trackNames, retros, CUP0Instance>>

Places == PageIds \X CupIds \X Tracks
Place(k, t) == <<archive[k].page, archive[k].cup, t>>

\* Identifiers: of cup c, whatever the page, and of track t of the cup of entry k.
CupMessage(c) == <<"cup", c, 0>>

\* Mutation: track names are numbered by trackId, not by entry.
TrackMessagePerCup(k, t) == <<"track", 0, t>>

TrackMessage(k, t) == <<"track", k, t>>
RetroMessage(k, t) == <<"retro", k, t>>
Messages == {"cup", "track", "name", "retro"} \X Nat \X Nat

LoaderTypeOK ==
  /\ archive \in Archives
  /\ at \in {"open", "cups", "tracks", "null", "returned", "loaded"}
  /\ n \in 1..(Len(archive) + 1)
  /\ track \in Tracks
  /\ messages \in Seq([id : Messages, text : Messages])
  /\ Len(messages) <= MaxMessages
  /\ cups \subseteq PageIds \X CupIds
  /\ trackNames \in [Places -> 0..Len(archive)]
  /\ retros \subseteq Places
  /\ CUP0Instance \in BOOLEAN

LoaderInit ==
  /\ archive \in Archives
  /\ at = "open"
  /\ n = 1
  /\ track \in {t \in Tracks : \A u \in Tracks : t <= u}
  /\ messages = <<>>
  /\ cups = {}
  /\ trackNames = [x \in Places |-> 0]
  /\ retros = {}
  /\ CUP0Instance = FALSE

-----------------------------------------------------------------------------
(* The table of texts. *)

\* Mutation: the last free message is never recognised.
AddMessagePastEnd(table, id, text) == Append(table, [id |-> id, text |-> text])

\* AddMessage: no message becomes inactive, so the active ones are a sequence.
AddMessage(table, id, text) ==
  IF Len(table) < MaxMessages THEN Append(table, [id |-> id, text |-> text]) ELSE table

\* getMessage: the first active message with that identifier.
Message(id) ==
  LET found == {i \in DOMAIN messages : messages[i].id = id}
  IN IF found = {} THEN None
     ELSE messages[CHOOSE i \in found : \A j \in found : i <= j].text

-----------------------------------------------------------------------------
(* Loading. *)

\* GetArchiveFile of a missing file: the FSOpenFile hook reports it, the report of
\* GetArchiveFile itself is one too many, and NULL is returned.
Missing == "444-0103"

\* The archive is opened.  The magic number of a missing one is read through NULL.
OpenArchive(fault) ==
  /\ at = "open"
  /\ \/ fault = "none" /\ at' = "cups" /\ UNCHANGED errorVars
     \/ fault = "corrupt" /\ at' = "returned" /\ FatalError(Main, "444-0000")
     \/ fault = "missing" /\ at' = "null" /\ FatalError(Main, Missing)
  /\ UNCHANGED <<archive, n, track, messages, cups, trackNames, retros, CUP0Instance>>

\* The picture of an entry cannot be loaded: an error, and the loader returns.  What
\* LoadTexture does with the NULL of a missing file is not in the source.
PictureFault(fault, code) ==
  /\ \/ fault = "corrupt" /\ at' = "returned" /\ FatalError(Main, code)
     \/ fault = "missing" /\ at' \in {"returned", "null"} /\ FatalError(Main, Missing)
  /\ UNCHANGED <<n, track>>

\* One round of the first loop: cupEntries[n].
LoadCup(fault) ==
  LET e == archive[n]
  IN /\ at = "cups" /\ n <= Len(archive)
     /\ messages' = AddMessage(messages, CupMessage(e.cup), <<"cup", n, 0>>)
     /\ cups' = cups \cup {<<e.page, e.cup>>}
     /\ \/ /\ fault = "none"
           /\ n' = n + 1
           /\ UNCHANGED <<at, track, errorVars>>
        \/ PictureFault(fault, "444-0001")
     /\ UNCHANGED <<archive, trackNames, retros, CUP0Instance>>

CupsDone ==
  /\ at = "cups" /\ n > Len(archive)
  /\ at' = "tracks"
  /\ n' = 1
  /\ UNCHANGED <<archive, track, messages, cups, trackNames, retros, CUP0Instance, errorVars>>

Later(t) == {u \in Tracks : u > t}
Least(S) == CHOOSE x \in S : \A y \in S : x <= y

\* On to the next track entry, of this cup or of the next.
NextTrack ==
  IF Later(track) # {} THEN track' = Least(Later(track)) /\ UNCHANGED n
  ELSE track' = Least(Tracks) /\ n' = n + 1

\* One round of the second loop.
LoadTrack(fault) ==
  LET e == archive[n]
      named == AddMessage(messages, TrackMessage(n, track), <<"name", n, track>>)
  IN /\ at = "tracks" /\ n <= Len(archive)
     /\ trackNames' = [trackNames EXCEPT ![Place(n, track)] = n]
     /\ IF track \in e.retro
        THEN /\ messages' = AddMessage(named, RetroMessage(n, track), <<"retro", n, track>>)
             /\ retros' = retros \cup {Place(n, track)}
        ELSE messages' = named /\ retros' = retros \ {Place(n, track)}
     /\ \/ fault = "none" /\ NextTrack /\ UNCHANGED <<at, errorVars>>
        \/ PictureFault(fault, "444-0002")
     /\ UNCHANGED <<archive, cups, CUP0Instance>>

\* Mutation: the pointer is set although the loader gave up.
FinishAnyway ==
  /\ at = "returned" \/ (at = "tracks" /\ n > Len(archive))
  /\ at' = "loaded"
  /\ CUP0Instance' = TRUE
  /\ UNCHANGED <<archive, n, track, messages, cups, trackNames, retros, errorVars>>

Finish ==
  /\ at = "tracks" /\ n > Len(archive)
  /\ at' = "loaded"
  /\ CUP0Instance' = TRUE
  /\ UNCHANGED <<archive, n, track, messages, cups, trackNames, retros, errorVars>>

\* A step of CUP0::Initialize; MainThread is not inside FatalError.
Loading ==
  /\ Idle(Main)
  /\ \/ \E fault \in Faults \cup {"none"} :
           \/ OpenArchive(fault)
           \/ LoadCup(fault)
           \/ LoadTrack(fault)
     \/ CupsDone
     \/ Finish

-----------------------------------------------------------------------------
(* Properties. *)

\* Is everything the archive says of entry k in its page?
EntryLoaded(k) ==
  LET e == archive[k]
  IN /\ <<e.page, e.cup>> \in cups
     /\ \A t \in Tracks :
          /\ trackNames[Place(k, t)] = k
          /\ Place(k, t) \in retros <=> t \in e.retro

\* A page never shows half of an archive: once CUP0Instance is set, every cup has
\* its icon and every track its path, name and console, and no page has more,
\* whatever was missing or corrupt (cup0.cpp:30-79).
WholeArchive ==
  CUP0Instance =>
    /\ \A k \in DOMAIN archive : EntryLoaded(k)
    /\ \A pc \in cups : \E k \in DOMAIN archive : pc = <<archive[k].page, archive[k].cup>>

\* Every identifier a page holds leads to the text the archive has for it, in a
\* table shared by all pages, if the table was never full (cup0.cpp:35, :61, :65, message.cpp:34-45).
NamesLead ==
  CUP0Instance /\ Len(messages) < MaxMessages =>
    \A k \in DOMAIN archive :
      /\ Message(CupMessage(archive[k].cup)) = <<"cup", k, 0>>
      /\ \A t \in Tracks :
           /\ Message(TrackMessage(k, t)) = <<"name", k, t>>
           /\ t \in archive[k].retro => Message(RetroMessage(k, t)) = <<"retro", k, t>>
=============================================================================
