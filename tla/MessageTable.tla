----------------------------- MODULE MessageTable -----------------------------
(***************************************************************************)
(* The table of texts (source/patch/message.cpp), store by store.  First   *)
(* MainThread fills it; then, once a frame, it replaces and frees the text *)
(* of the speedometer (source/main.cpp), while the game's thread looks up  *)
(* texts and replaces that of the CTGP toggle.  Nothing locks the table.   *)
(*                                                                         *)
(* A text is a literal of the program, or a number for what fromUTF8 has   *)
(* allocated.  What its caller does with a text from getMessage is         *)
(* external: it uses it in some later step.  CupArchive has the full table.*)
(***************************************************************************)
EXTENDS Integers, FiniteSets, Sequences

CONSTANTS
  Adds,      \* the AddMessage calls of the start-up, in order: id and alloc
  GameIds,   \* identifiers of the game's own texts
  MaxAllocs  \* bound: texts that are allocated

Speedometer == Adds[1].id  \* SPEEDOMETER_MSG_ID
Toggle == Adds[2].id       \* ONLINE_TOGGLE_MSG_ID
OwnIds == {Adds[k].id : k \in DOMAIN Adds}

\* 0, which the memset leaves in every entry, is the identifier of no text.
ASSUME AddsAssumption ==
  /\ Adds \in Seq([id : Nat \ {0}, alloc : BOOLEAN]) /\ Len(Adds) > 1
  /\ ~Adds[1].alloc /\ ~Adds[2].alloc
  /\ \A j, k \in DOMAIN Adds : Adds[j].id = Adds[k].id => j = k
  /\ GameIds \subseteq Nat \ ({0} \cup OwnIds) /\ MaxAllocs \in Nat

VARIABLES
  entries,   \* messages
  calls,     \* per thread: the call it is in, with its entry and text
  added,     \* AddMessage calls begun
  fresh,     \* the next text to be allocated
  freed      \* how often each was freed

tableVars == <<entries, calls, added, fresh, freed>>

Users == {"main", "game"}
Slots == DOMAIN Adds
Null == -1
Literal == 0
Texts == 1..MaxAllocs

NoCall == [at |-> "out", id |-> 0, slot |-> 0, text |-> Null]
Unused == [active |-> FALSE, id |-> 0, message |-> Null, alloc |-> FALSE]

TableInit ==
  /\ entries = [i \in Slots |-> Unused]
  /\ calls = [t \in Users |-> NoCall]
  /\ added = 0 /\ fresh = 1
  /\ freed = [x \in Texts |-> 0]

TableTypeOK ==
  /\ entries \in [Slots -> [active : BOOLEAN, id : Nat, alloc : BOOLEAN,
                            message : {Null, Literal} \cup Texts]]
  /\ calls \in [Users -> [id : Nat, slot : Slots \cup {0}, text : {Null, Literal} \cup Texts,
                          at : {"out", "id", "message", "alloc", "search", "free", "put",
                                "owner", "look", "return", "use"}]]
  /\ added \in 0..Len(Adds) /\ fresh \in 1..(MaxAllocs + 1) /\ freed \in [Texts -> Nat]

Least(S) == CHOOSE i \in S : \A j \in S : i <= j
Matching(id) == {i \in Slots : entries[i].active /\ entries[i].id = id}

At(t, at) == calls[t].at = at
Continue(t, at) == calls' = [calls EXCEPT ![t].at = at]
Set(t, entry) == entries' = [entries EXCEPT ![calls[t].slot] = entry]
Mine(t) == entries[calls[t].slot]

\* The start-up has made its calls.
Filled == added = Len(Adds) /\ calls["main"].at \notin {"id", "message", "alloc"}

-----------------------------------------------------------------------------
(* AddMessage stores active, id, message and alloc in this order. *)

AddActive ==
  LET k == added + 1
      i == Least({j \in Slots : ~entries[j].active})
  IN /\ At("main", "out") /\ k <= Len(Adds) /\ fresh <= MaxAllocs
     /\ added' = k
     /\ fresh' = IF Adds[k].alloc THEN fresh + 1 ELSE fresh
     /\ entries' = [entries EXCEPT ![i].active = TRUE]
     /\ calls' = [calls EXCEPT !["main"] =
                    [at |-> "id", id |-> Adds[k].id, slot |-> i,
                     text |-> IF Adds[k].alloc THEN fresh ELSE Literal]]
     /\ UNCHANGED freed

AddStores ==
  /\ LET c == calls["main"]
     IN \/ At("main", "id") /\ Continue("main", "message")
           /\ Set("main", [Mine("main") EXCEPT !.id = c.id])
        \/ At("main", "message") /\ Continue("main", "alloc")
           /\ Set("main", [Mine("main") EXCEPT !.message = c.text])
        \/ At("main", "alloc") /\ calls' = [calls EXCEPT !["main"] = NoCall]
           /\ Set("main", [Mine("main") EXCEPT !.alloc = Adds[added].alloc])
  /\ UNCHANGED <<added, fresh, freed>>

-----------------------------------------------------------------------------
(* ModifyMessage, and then setMessage, which looks the new text up. *)

\* MainThread, in a race, has a new text for the speedometer.
NextFrame ==
  /\ At("main", "out") /\ added = Len(Adds) /\ fresh <= MaxAllocs
  /\ fresh' = fresh + 1
  /\ calls' = [calls EXCEPT !["main"] =
                 [at |-> "search", id |-> Speedometer, slot |-> 0, text |-> fresh]]
  /\ UNCHANGED <<entries, added, freed>>

\* The game's thread, in the online menu, turns the toggle.
TurnToggle ==
  /\ At("game", "out") /\ Filled
  /\ calls' = [calls EXCEPT !["game"] =
                 [at |-> "search", id |-> Toggle, slot |-> 0, text |-> Literal]]
  /\ UNCHANGED <<entries, added, fresh, freed>>

Search(t) ==
  LET i == Least(Matching(calls[t].id))
  IN /\ At(t, "search")
     /\ calls' = [calls EXCEPT ![t].slot = i,
                               ![t].at = IF entries[i].alloc THEN "free" ELSE "put"]
     /\ UNCHANGED <<entries, added, fresh, freed>>

\* Mutation: the pointer is freed after the new text has been stored in it.
FreedAfterwards(t) == calls[t].text

Freed(t) == Mine(t).message

Free(t) ==
  /\ At(t, "free") /\ Continue(t, "put")
  /\ freed' = [freed EXCEPT ![Freed(t)] = @ + 1]
  /\ UNCHANGED <<entries, added, fresh>>

Put(t) ==
  /\ At(t, "put") /\ Continue(t, "owner")
  /\ Set(t, [Mine(t) EXCEPT !.message = calls[t].text])
  /\ UNCHANGED <<added, fresh, freed>>

\* Mutation: alloc stays what AddMessage stored.
OwnerKept(t) ==
  /\ At(t, "owner") /\ Continue(t, "look")
  /\ UNCHANGED <<entries, added, fresh, freed>>

Owner(t) ==
  /\ At(t, "owner") /\ Continue(t, "look")
  /\ Set(t, [Mine(t) EXCEPT !.alloc = calls[t].text # Literal])
  /\ UNCHANGED <<added, fresh, freed>>

-----------------------------------------------------------------------------
(* getMessage. *)

\* The game asks for a text of its own at any time, and for one of the mod's when
\* the hooks that know their identifiers are in: for each but the speedometer's.
Ask(id) ==
  /\ At("game", "out")
  /\ id \in GameIds \/ (Filled /\ id # Speedometer)
  /\ calls' = [calls EXCEPT !["game"] = [NoCall EXCEPT !.at = "look", !.id = id]]
  /\ UNCHANGED <<entries, added, fresh, freed>>

\* The search; without an entry the real getMessage is called.
Look(t) ==
  LET found == Matching(calls[t].id)
  IN /\ At(t, "look")
     /\ calls' = [calls EXCEPT ![t] = IF found = {} THEN NoCall
                                      ELSE [@ EXCEPT !.slot = Least(found), !.at = "return"]]
     /\ UNCHANGED <<entries, added, fresh, freed>>

Return(t) ==
  /\ At(t, "return")
  /\ calls' = [calls EXCEPT ![t].text = Mine(t).message, ![t].at = "use"]
  /\ UNCHANGED <<entries, added, fresh, freed>>

Use(t) ==
  /\ At(t, "use") /\ calls' = [calls EXCEPT ![t] = NoCall]
  /\ UNCHANGED <<entries, added, fresh, freed>>

TableNext ==
  \/ AddActive \/ AddStores \/ NextFrame \/ TurnToggle
  \/ \E id \in OwnIds \cup GameIds : Ask(id)
  \/ \E t \in Users : \/ Search(t) \/ Free(t) \/ Put(t) \/ Owner(t)
                      \/ Look(t) \/ Return(t) \/ Use(t)

TableSpec == TableInit /\ [][TableNext]_tableVars

-----------------------------------------------------------------------------
(* Properties. *)

\* Whoever looks a text up may use it: it is there and not freed, although the
\* table changes under the search and texts are freed each frame; and the game's own
\* identifiers are left to the game (message.cpp:10-18, :34-53, main.cpp:75-80).
TextsAlive ==
  \A t \in Users :
    calls[t].at = "use" =>
      /\ calls[t].id \in OwnIds
      /\ calls[t].text # Null
      /\ calls[t].text \in Texts => freed[calls[t].text] = 0

\* The calls that have an allocated text which is in no entry yet.
InHand(x) == {t \in Users : calls[t].text = x /\ calls[t].at \in {"id", "message", "search",
                                                                  "free", "put"}}
InEntry(x) == {i \in Slots : entries[i].message = x}
BeingReplaced(x) == \E t \in Users : At(t, "put") /\ Mine(t).message = x

\* No text leaks and none is freed twice: each that was allocated is in one entry, or
\* on its way there, until it is freed, once (message.cpp:45-55).
FreedOnce ==
  \A x \in 1..(fresh - 1) :
    IF freed[x] = 0 THEN Cardinality(InHand(x)) + Cardinality(InEntry(x)) = 1
    ELSE freed[x] = 1 /\ InHand(x) = {} /\ (InEntry(x) = {} \/ BeingReplaced(x))
=============================================================================
