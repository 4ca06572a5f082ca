-------------------------- MODULE OnlinePagesProofs --------------------------
(***************************************************************************)
(* Theorems about OnlinePages, for any room, any number of copies and any  *)
(* archive whose pages replace the same cups.                              *)
(*                                                                         *)
(* The argument: between the draw and the end of the race only packets     *)
(* change pages, and every packet carries the page of the console whose    *)
(* vote was drawn, which therefore never changes.  That console has the    *)
(* name of its course from selecting the cup, the others have all names of *)
(* the page from the packet.                                               *)
(***************************************************************************)
EXTENDS OnlinePages, TrackPagesProofs

\* While a cup is under the cursor its courses have the names of the page.
CupShown ==
  \A k \in Consoles :
    (cup[k] # None /\ vote[k] = None) => ShowsCup(mod[k], page[k], cup[k])

\* A course voted for from a page of custom tracks keeps its name.
VoteKept ==
  \A k \in Consoles :
    (vote[k] # None /\ page[k] > 0) => mod[k][vote[k]] = Offered(page[k], vote[k][1])

\* Until a vote is drawn nothing is sent or loaded; then everyone has voted.
Phases ==
  /\ drawn = None =>
       /\ answered = {} /\ informed = {} /\ packets = NoPackets
       /\ \A k \in Consoles : loaded[k] = None
  /\ drawn # None => \A k \in Consoles : vote[k] # None

PacketsCarry ==
  \A k \in Consoles, p \in AnyPage : packets[k][p] > 0 => p = page[drawn]

InformedShow ==
  \A k \in informed : page[drawn] > 0 => ShowsPage(mod[k], page[drawn])

RacesDrawn ==
  \A k \in Consoles :
    (Racing(k) /\ page[drawn] > 0) => loaded[k] = Offered(page[drawn], vote[drawn][1])

Inv ==
  /\ TypeOK
  /\ \A k \in Consoles : InPlace(mod[k])
  /\ CupShown /\ VoteKept /\ Phases /\ PacketsCarry /\ InformedShow /\ RacesDrawn

-----------------------------------------------------------------------------
(* Each step keeps the invariant. *)

LEMMA InitInv ==
  ASSUME Init
  PROVE  Inv
<1>1. TypeOK /\ \A k \in Consoles : InPlace(mod[k])
  BY PageNumbers, RoomAssumption DEF Init, TypeOK, InPlace, NoPackets
<1>2. Phases /\ InformedShow /\ RacesDrawn
  BY DEF Init, Phases, InformedShow, RacesDrawn, Racing
<1>3. CupShown /\ VoteKept /\ PacketsCarry
  BY PageNumbers DEF Init, CupShown, VoteKept, PacketsCarry, NoPackets
<1> QED  BY <1>1, <1>2, <1>3 DEF Inv

\* While someone is still choosing no vote has been drawn.
LEMMA Choosing ==
  ASSUME Inv, NEW k \in Consoles, vote[k] = None
  PROVE  /\ drawn = None /\ informed = {}
         /\ \A j \in Consoles : loaded[j] = None
         /\ \A j \in Consoles, p \in AnyPage : packets[j][p] = 0
BY DEF Inv, Phases, NoPackets

\* A step of choosing touches one console; what is said of the race stays idle.
LEMMA ChoosingIdle ==
  ASSUME Inv, NEW k \in Consoles, vote[k] = None, UNCHANGED Race
  PROVE  Phases' /\ PacketsCarry' /\ InformedShow' /\ RacesDrawn'
<1>1. UNCHANGED <<drawn, answered, packets, informed, loaded>>
  BY DEF Race
<1>2. Phases'
  BY <1>1, Choosing DEF Inv, Phases, NoPackets
<1>3. PacketsCarry' /\ InformedShow' /\ RacesDrawn'
  BY <1>1, Choosing DEF PacketsCarry, InformedShow, RacesDrawn, Racing
<1> QED  BY <1>2, <1>3

LEMMA TurnPageInv ==
  ASSUME Inv, NEW k \in Consoles, TurnPage(k)
  PROVE  Inv'
<1>1. Phases' /\ PacketsCarry' /\ InformedShow' /\ RacesDrawn'
  BY ChoosingIdle DEF TurnPage
<1>2. TypeOK'
  <2>1. page \in [Consoles -> AnyPage]
    BY DEF Inv, TypeOK
  <2>2. page' \in [Consoles -> AnyPage]
    BY ONLY <2>1, TurnPage(k), Turned DEF TurnPage
  <2>3. cup' \in [Consoles -> Cups \cup {None}]
    BY DEF TurnPage, Inv, TypeOK
  <2> QED  BY <2>2, <2>3 DEF TurnPage, Race, Inv, TypeOK
<1>3. \A j \in Consoles : j # k => page'[j] = page[j] /\ cup'[j] = cup[j]
  BY DEF TurnPage, Inv, TypeOK
<1>4. cup'[k] = None /\ vote[k] = None /\ UNCHANGED <<mod, vote>>
  BY DEF TurnPage, Inv, TypeOK
<1>5. CupShown' /\ VoteKept' /\ \A j \in Consoles : InPlace(mod'[j])
  BY <1>3, <1>4 DEF Inv, CupShown, VoteKept, ShowsCup
<1> QED  BY <1>1, <1>2, <1>5 DEF Inv, InPlace

\* Both handlers of the page: c is the cup selected now, or one selected before.
LEMMA NamesChange ==
  ASSUME SameCupsOnEachPage, Inv, NEW k \in Consoles, NEW c \in Cups,
         mod' = [mod EXCEPT ![k] = AfterSelect(@, page[k], c)]
  PROVE  /\ mod' \in [Consoles -> [Courses -> AnyPage]]
         /\ \A j \in Consoles : InPlace(mod'[j])
         /\ \A j \in Consoles : j # k => mod'[j] = mod[j]
         /\ ShowsCup(mod'[k], page[k], c)
<1>1. /\ mod[k] \in [Courses -> AnyPage] /\ page[k] \in AnyPage /\ InPlace(mod[k])
      /\ mod \in [Consoles -> [Courses -> AnyPage]]
  BY DEF Inv, TypeOK
<1>2. /\ mod'[k] = AfterSelect(mod[k], page[k], c)
      /\ \A j \in Consoles : j # k => mod'[j] = mod[j]
  BY <1>1
<1>3. InPlace(mod'[k]) /\ ShowsCup(mod'[k], page[k], c)
  BY <1>1, <1>2, Selected
<1>4. mod' \in [Consoles -> [Courses -> AnyPage]]
  BY <1>1, NamesTyped
<1>5. \A j \in Consoles : InPlace(mod'[j])
  BY <1>2, <1>3 DEF Inv
<1> QED  BY <1>2, <1>3, <1>4, <1>5

LEMMA SelectCupInv ==
  ASSUME SameCupsOnEachPage, Inv, NEW k \in Consoles, NEW c \in Cups, SelectCup(k, c)
  PROVE  Inv'
<1>1. Phases' /\ PacketsCarry' /\ InformedShow' /\ RacesDrawn'
  BY ChoosingIdle DEF SelectCup
<1>2. /\ mod' \in [Consoles -> [Courses -> AnyPage]]
      /\ \A j \in Consoles : InPlace(mod'[j])
      /\ \A j \in Consoles : j # k => mod'[j] = mod[j]
      /\ ShowsCup(mod'[k], page[k], c)
  BY NamesChange DEF SelectCup
<1>3. TypeOK'
  BY <1>2 DEF SelectCup, Race, Inv, TypeOK
<1>4. CupShown' /\ VoteKept'
  BY <1>2 DEF SelectCup, Inv, TypeOK, CupShown, VoteKept, ShowsCup
<1> QED  BY <1>1, <1>2, <1>3, <1>4 DEF Inv, InPlace

LEMMA OtherEventInv ==
  ASSUME SameCupsOnEachPage, Inv, NEW k \in Consoles, NEW c \in Cups, OtherEvent(k, c)
  PROVE  Inv'
<1>1. Phases' /\ PacketsCarry' /\ InformedShow' /\ RacesDrawn'
  BY ChoosingIdle DEF OtherEvent
<1>2. /\ mod' \in [Consoles -> [Courses -> AnyPage]]
      /\ \A j \in Consoles : InPlace(mod'[j])
      /\ \A j \in Consoles : j # k => mod'[j] = mod[j]
  BY NamesChange DEF OtherEvent
<1>3. TypeOK'
  BY <1>2 DEF OtherEvent, Race, Inv, TypeOK
<1>4. CupShown' /\ VoteKept'
  BY <1>2 DEF OtherEvent, Inv, TypeOK, CupShown, VoteKept, ShowsCup
<1> QED  BY <1>1, <1>2, <1>3, <1>4 DEF Inv, InPlace

LEMMA VoteInv ==
  ASSUME Inv, NEW k \in Consoles, NEW i \in Tracks, Vote(k, i)
  PROVE  Inv'
<1>1. Phases' /\ PacketsCarry' /\ InformedShow' /\ RacesDrawn'
  BY ChoosingIdle DEF Vote
<1>2. <<cup[k], i>> \in Courses /\ cup[k] \in Cups
  BY DEF Vote, Inv, TypeOK, Courses
<1>3. TypeOK'
  BY <1>2 DEF Vote, Race, Inv, TypeOK
<1>4. mod[k][<<cup[k], i>>] = Offered(page[k], cup[k])
  BY DEF Vote, Inv, CupShown, ShowsCup
<1>5. vote'[k] = <<cup[k], i>> /\ \A j \in Consoles : j # k => vote'[j] = vote[j]
  BY DEF Vote, Inv, TypeOK
<1>6. <<cup[k], i>> # None
  BY <1>2, RoomAssumption
<1>7. CupShown' /\ VoteKept'
  BY <1>4, <1>5, <1>6 DEF Vote, Inv, CupShown, VoteKept, ShowsCup
<1> QED  BY <1>1, <1>3, <1>7 DEF Vote, Inv, InPlace

LEMMA DrawInv ==
  ASSUME Inv, NEW w \in Consoles, Draw(w)
  PROVE  Inv'
<1>1. TypeOK'
  BY DEF Draw, Inv, TypeOK
<1>2. w # None /\ drawn = None /\ drawn' = w
  BY RoomAssumption DEF Draw
<1>3. informed = {} /\ packets = NoPackets /\ \A k \in Consoles : loaded[k] = None
  BY <1>2 DEF Inv, Phases
<1>4. CupShown' /\ VoteKept'
  BY DEF Draw, Inv, CupShown, VoteKept, ShowsCup
<1>5. Phases'
  BY <1>2 DEF Draw, Phases
<1>6. PacketsCarry' /\ InformedShow' /\ RacesDrawn'
  BY <1>3 DEF Draw, PacketsCarry, InformedShow, RacesDrawn, Racing, NoPackets
<1> QED  BY <1>1, <1>4, <1>5, <1>6 DEF Draw, Inv, InPlace

LEMMA GetRouletteResultInv ==
  ASSUME Inv, NEW k \in Consoles, GetRouletteResult(k)
  PROVE  Inv'
<1>1. packets' \in [Consoles -> [AnyPage -> 0..Copies]]
  BY RoomAssumption DEF GetRouletteResult, Sent, Inv, TypeOK
<1>2. TypeOK'
  BY <1>1 DEF GetRouletteResult, Inv, TypeOK
<1>3. CupShown' /\ VoteKept' /\ Phases' /\ InformedShow' /\ RacesDrawn'
  BY DEF GetRouletteResult, Inv, CupShown, VoteKept, Phases, InformedShow, RacesDrawn,
     Racing, ShowsCup, ShowsPage
<1>4. ASSUME NEW j \in Consoles, NEW p \in AnyPage, packets'[j][p] > 0
      PROVE  p = page[drawn]
  <2>1. CASE packets[j][p] > 0
    BY <2>1 DEF Inv, PacketsCarry
  <2>2. CASE ~(packets[j][p] > 0)
    <3>1. packets' = Sent(k) /\ packets \in [Consoles -> [AnyPage -> 0..Copies]]
      BY DEF GetRouletteResult, Inv, TypeOK
    <3>2. k = drawn
      BY <1>4, <2>2, <3>1 DEF Sent
    <3>3. packets'[j] = [packets[j] EXCEPT ![page[k]] = Copies]
      BY <3>1, <3>2 DEF Sent
    <3>4. p = page[k]
      BY <1>4, <2>2, <3>1, <3>3
    <3> QED  BY <3>2, <3>4
  <2> QED  BY <2>1, <2>2
<1>5. PacketsCarry'
  BY <1>4 DEF GetRouletteResult, PacketsCarry
<1> QED  BY <1>2, <1>3, <1>5 DEF GetRouletteResult, Inv, InPlace

\* A packet taken from the network leaves fewer of its page, and no others.
LEMMA TakenPackets ==
  ASSUME Inv, NEW k \in Consoles, NEW p \in AnyPage, packets[k][p] > 0
  PROVE  /\ Taken(k, p) \in [Consoles -> [AnyPage -> 0..Copies]]
         /\ \A j \in Consoles, q \in AnyPage : Taken(k, p)[j][q] > 0 => q = page[drawn]
         /\ p = page[drawn] /\ drawn \in Consoles
         /\ \A j \in Consoles : vote[j] # None
<1>1. packets \in [Consoles -> [AnyPage -> 0..Copies]] /\ Copies \in Nat
  BY RoomAssumption DEF Inv, TypeOK
<1>2. \A j \in Consoles, q \in AnyPage : Taken(k, p)[j][q] > 0 => packets[j][q] > 0
  BY <1>1 DEF Taken
<1>3. p = page[drawn]
  BY DEF Inv, PacketsCarry
<1>4. drawn # None
  BY DEF Inv, Phases, NoPackets
<1>5. Taken(k, p) \in [Consoles -> [AnyPage -> 0..Copies]]
  BY <1>1 DEF Taken
<1> QED  BY <1>2, <1>3, <1>4, <1>5 DEF Inv, TypeOK, PacketsCarry, Phases

LEMMA DeliverInv ==
  ASSUME SameCupsOnEachPage, Inv, NEW k \in Consoles, NEW p \in AnyPage, Deliver(k, p)
  PROVE  Inv'
<1>1. /\ packets' \in [Consoles -> [AnyPage -> 0..Copies]]
      /\ \A j \in Consoles, q \in AnyPage : packets'[j][q] > 0 => q = page[drawn]
      /\ p = page[drawn] /\ drawn \in Consoles
      /\ \A j \in Consoles : vote[j] # None
  BY TakenPackets DEF Deliver
<1>2. /\ page \in [Consoles -> AnyPage] /\ mod \in [Consoles -> [Courses -> AnyPage]]
      /\ mod[k] \in [Courses -> AnyPage] /\ InPlace(mod[k])
  BY DEF Inv, TypeOK
<1>3. /\ page' \in [Consoles -> AnyPage] /\ page'[k] = p
      /\ \A j \in Consoles : j # k => page'[j] = page[j] /\ mod'[j] = mod[j]
      /\ mod'[k] = AfterPacket(mod[k], p)
  BY <1>2 DEF Deliver
<1>4. mod' \in [Consoles -> [Courses -> AnyPage]]
  BY <1>2, NamesTyped DEF Deliver
<1>5. InPlace(mod'[k]) /\ (p > 0 => ShowsPage(mod'[k], p))
  BY <1>2, <1>3, Received
<1>6. page'[drawn] = page[drawn] /\ UNCHANGED <<cup, vote, drawn, answered, loaded>>
  BY <1>1, <1>3 DEF Deliver
<1>7. TypeOK'
  BY <1>1, <1>3, <1>4 DEF Deliver, Inv, TypeOK
<1>8. \A j \in Consoles : InPlace(mod'[j])
  BY <1>3, <1>5 DEF Inv
<1>9. CupShown'
  BY <1>1, <1>6 DEF CupShown
<1>10. VoteKept'
  <2>1. ASSUME NEW j \in Consoles, page'[j] > 0
        PROVE  mod'[j][vote[j]] = Offered(page'[j], vote[j][1])
    <3>1. vote[j] \in Courses
      BY <1>1 DEF Inv, TypeOK
    <3>2. CASE j = k
      BY <2>1, <3>1, <3>2, <1>3, <1>5 DEF ShowsPage
    <3>3. CASE j # k
      BY <2>1, <3>3, <1>1, <1>3 DEF Inv, VoteKept
    <3> QED  BY <3>2, <3>3
  <2> QED  BY <2>1, <1>6 DEF VoteKept
<1>11. drawn # None
  BY <1>1, RoomAssumption
<1>12. Phases'
  BY <1>1, <1>6, <1>11 DEF Phases
<1>13. PacketsCarry'
  BY <1>1, <1>6 DEF PacketsCarry
<1>14. InformedShow'
  <2>1. ASSUME NEW j \in informed', page[drawn] > 0
        PROVE  ShowsPage(mod'[j], page[drawn])
    <3>1. CASE j = k
      BY <2>1, <3>1, <1>1, <1>5
    <3>2. CASE j # k
      BY <2>1, <3>2, <1>3 DEF Deliver, Inv, TypeOK, InformedShow
    <3> QED  BY <3>1, <3>2
  <2> QED  BY <2>1, <1>6 DEF InformedShow, ShowsPage
<1>15. RacesDrawn'
  <2>1. ASSUME NEW j \in Consoles, Racing(j)' PROVE Racing(j)
    BY <2>1, <1>6 DEF Deliver, Racing
  <2> QED  BY <2>1, <1>6 DEF Inv, RacesDrawn
<1> QED  BY <1>7, <1>8, <1>9, <1>10, <1>12, <1>13, <1>14, <1>15 DEF Inv, InPlace

LEMMA LoseInv ==
  ASSUME Inv, NEW k \in Consoles, NEW p \in AnyPage, Lose(k, p)
  PROVE  Inv'
<1>1. /\ packets' \in [Consoles -> [AnyPage -> 0..Copies]]
      /\ \A j \in Consoles, q \in AnyPage : packets'[j][q] > 0 => q = page[drawn]
      /\ drawn \in Consoles
  BY TakenPackets DEF Lose
<1>2. TypeOK'
  BY <1>1 DEF Lose, Inv, TypeOK
<1>3. drawn # None
  BY <1>1, RoomAssumption
<1>4. Phases' /\ PacketsCarry'
  BY <1>1, <1>3 DEF Lose, Inv, Phases, PacketsCarry
<1>5. CupShown' /\ VoteKept' /\ InformedShow' /\ RacesDrawn'
  BY DEF Lose, Inv, CupShown, VoteKept, InformedShow, RacesDrawn, Racing, ShowsCup, ShowsPage
<1> QED  BY <1>2, <1>4, <1>5 DEF Lose, Inv, InPlace

LEMMA LoadInv ==
  ASSUME Inv, NEW k \in Consoles, Load(k)
  PROVE  Inv'
<1>1. drawn # None
  BY DEF Load, Inv, Phases
<1>2. drawn \in Consoles /\ vote[drawn] \in Courses /\ vote[drawn] # None
  BY <1>1 DEF Inv, TypeOK, Phases
<1>3. mod[k][vote[drawn]] \in AnyPage
  BY <1>2 DEF Inv, TypeOK
<1>4. /\ loaded' = [loaded EXCEPT ![k] = mod[k][vote[drawn]]]
      /\ loaded'[k] = mod[k][vote[drawn]]
      /\ \A j \in Consoles : j # k => loaded'[j] = loaded[j]
      /\ UNCHANGED <<page, mod, cup, vote, drawn, answered, packets, informed>>
  BY DEF Load, Inv, TypeOK
<1>5. TypeOK'
  BY <1>3, <1>4 DEF Inv, TypeOK
<1>6. CupShown' /\ VoteKept' /\ Phases' /\ PacketsCarry' /\ InformedShow'
  BY <1>1, <1>4 DEF Inv, CupShown, VoteKept, Phases, PacketsCarry, InformedShow, ShowsCup,
     ShowsPage
<1>7. ASSUME k = drawn \/ k \in informed, page[drawn] > 0
      PROVE  mod[k][vote[drawn]] = Offered(page[drawn], vote[drawn][1])
  <2>1. CASE k = drawn
    BY <1>2, <1>7, <2>1 DEF Inv, VoteKept
  <2>2. CASE k \in informed
    BY <1>2, <1>7, <2>2 DEF Inv, InformedShow, ShowsPage
  <2> QED  BY <1>7, <2>1, <2>2
<1>8. RacesDrawn'
  BY <1>4, <1>7 DEF Inv, RacesDrawn, Racing
<1> QED  BY <1>4, <1>5, <1>6, <1>8 DEF Inv, InPlace

LEMMA NextVoteInv ==
  ASSUME Inv, NextVote
  PROVE  Inv'
<1>1. mod' \in [Consoles -> [Courses -> AnyPage]] /\ \A k \in Consoles : InPlace(mod'[k])
  <2>1. CASE mod' = mod
    BY <2>1 DEF Inv, TypeOK
  <2>2. CASE mod' = [k \in Consoles |-> [x \in Courses |-> Original]]
    BY <2>2, PageNumbers DEF InPlace
  <2> QED  BY <2>1, <2>2 DEF NextVote
<1>2. TypeOK'
  BY <1>1, RoomAssumption, PageNumbers DEF NextVote, Inv, TypeOK, NoPackets
<1>3. CupShown' /\ VoteKept'
  BY DEF NextVote, CupShown, VoteKept
<1>4. Phases' /\ PacketsCarry' /\ InformedShow' /\ RacesDrawn'
  BY PageNumbers DEF NextVote, Phases, PacketsCarry, InformedShow, RacesDrawn, Racing, NoPackets
<1> QED  BY <1>1, <1>2, <1>3, <1>4 DEF Inv, InPlace

LEMMA NextInv ==
  ASSUME SameCupsOnEachPage, Inv, [Next]_vars
  PROVE  Inv'
<1>1. ASSUME NEW k \in Consoles, Choose(k) PROVE Inv'
  BY <1>1, TurnPageInv, SelectCupInv, OtherEventInv, VoteInv DEF Choose
<1>2. ASSUME NEW k \in Consoles, Network(k) PROVE Inv'
  BY <1>2, DeliverInv, LoseInv DEF Network
<1>3. CASE UNCHANGED vars
  BY <1>3 DEF vars, Inv, TypeOK, InPlace, CupShown, VoteKept, Phases, PacketsCarry,
     InformedShow, RacesDrawn, Racing, ShowsCup, ShowsPage, NoPackets
<1> QED  BY <1>1, <1>2, <1>3, DrawInv, GetRouletteResultInv, LoadInv, NextVoteInv DEF Next

-----------------------------------------------------------------------------
(* What a room guarantees. *)

\* The invariant holds throughout, if the pages replace the same cups.
THEOREM Invariance ==
  ASSUME SameCupsOnEachPage
  PROVE  Spec => []Inv
<1>1. Init => Inv
  BY InitInv
<1>2. Inv /\ [Next]_vars => Inv'
  BY NextInv
<1> QED  BY <1>1, <1>2, PTL DEF Spec

\* The state of a room keeps its types (online.cpp:21-67).
THEOREM TypeCorrect ==
  ASSUME SameCupsOnEachPage
  PROVE  Spec => []TypeOK
<1>1. Inv => TypeOK
  BY DEF Inv
<1> QED  BY <1>1, Invariance, PTL

\* Everyone a page reached in time races the track of the console whose vote was
\* drawn, whatever was lost, repeated or late (online.cpp:21-67).
THEOREM EveryoneRacesTheSame ==
  ASSUME SameCupsOnEachPage
  PROVE  Spec => []RaceAgrees
<1>1. Inv => RaceAgrees
  BY DEF Inv, RacesDrawn, RaceAgrees
<1> QED  BY <1>1, Invariance, PTL
=============================================================================
