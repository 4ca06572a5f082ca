--------------------------- MODULE TrackPagesProofs ---------------------------
(***************************************************************************)
(* Lemmas about pages and about what choosing one does to trackNamesMod,   *)
(* used by CoursePagesProofs and OnlinePagesProofs.                        *)
(***************************************************************************)
EXTENDS TrackPages, TLAPS

\* The cup is one that the pages replace.
Replaced(c) == \A p \in Pages : <<p, c>> \in Custom

\* trackNamesMod has names only in cups that the pages replace.
InPlace(mod) == \A x \in Courses : mod[x] # Original => Replaced(x[1])

\* trackNamesMod has what the page offers, in one cup and in all of them.
ShowsCup(mod, page, c) == \A i \in Tracks : mod[<<c, i>>] = Offered(page, c)
ShowsPage(mod, page) == \A x \in Courses : mod[x] = Offered(page, x[1])

\* The numbers of pages: 0 is the game's own.
LEMMA PageNumbers ==
  /\ Pages \subseteq Nat \ {0} /\ Pages \subseteq AnyPage
  /\ \A p \in AnyPage : p # 0 => p \in Pages
  /\ Original \in AnyPage /\ 0 \in AnyPage /\ Original = 0
  /\ \A p, c : <<p, c>> \in Custom => p \in Pages /\ c \in PagedCups
BY PagesAssumption DEF Pages, AnyPage, Original

\* Turning a page leads to a page.
LEMMA Turned ==
  ASSUME NEW p \in AnyPage
  PROVE  Decremented(p) \in AnyPage /\ Incremented(p) \in AnyPage
BY PagesAssumption DEF AnyPage, Decremented, Incremented

\* What a page offers is the page, or nothing.
LEMMA OfferedPage ==
  ASSUME NEW p \in AnyPage, NEW c
  PROVE  Offered(p, c) \in AnyPage
BY PageNumbers DEF Offered

\* A cup that one page replaces is replaced by every page.
LEMMA ReplacedByAll ==
  ASSUME SameCupsOnEachPage, NEW p, NEW c, <<p, c>> \in Custom
  PROVE  Replaced(c)
BY PageNumbers DEF SameCupsOnEachPage, Replaced

\* changeCourseButtons and loadPageTrackPaths keep trackNamesMod in its type.
LEMMA NamesTyped ==
  ASSUME NEW mod \in [Courses -> AnyPage], NEW p \in AnyPage, NEW c
  PROVE  /\ AfterSelect(mod, p, c) \in [Courses -> AnyPage]
         /\ AfterPacket(mod, p) \in [Courses -> AnyPage]
BY PageNumbers, OfferedPage DEF AfterSelect, AfterPacket

\* Selecting a cup gives its courses the names of the page and leaves the others.
LEMMA Selected ==
  ASSUME SameCupsOnEachPage, NEW mod \in [Courses -> AnyPage], InPlace(mod),
         NEW p \in AnyPage, NEW c \in Cups
  PROVE  LET m == AfterSelect(mod, p, c)
         IN /\ InPlace(m)
            /\ ShowsCup(m, p, c)
            /\ \A x \in Courses : x[1] # c => m[x] = mod[x]
<1> DEFINE m == AfterSelect(mod, p, c)
<1>1. InPlace(m)
  BY ReplacedByAll DEF AfterSelect, InPlace
<1>2. ASSUME NEW i \in Tracks PROVE m[<<c, i>>] = Offered(p, c)
  <2>1. <<c, i>> \in Courses
    BY DEF Courses
  <2>2. CASE <<p, c>> \in Custom
    BY <2>1, <2>2 DEF AfterSelect, Offered
  <2>3. CASE p = 0
    <3>1. <<p, c>> \notin Custom
      BY <2>3, PageNumbers
    <3> QED  BY <2>1, <2>3, <3>1 DEF AfterSelect, Offered
  <2>4. CASE <<p, c>> \notin Custom /\ p # 0
    <3>1. mod[<<c, i>>] = Original
      BY <2>1, <2>4, PageNumbers DEF InPlace, Replaced
    <3> QED  BY <2>1, <2>4, <3>1 DEF AfterSelect, Offered
  <2> QED  BY <2>2, <2>3, <2>4
<1>3. \A x \in Courses : x[1] # c => m[x] = mod[x]
  BY DEF AfterSelect
<1> QED  BY <1>1, <1>2, <1>3 DEF ShowsCup

\* A received page of custom tracks replaces every name; page 0 adds none.
LEMMA Received ==
  ASSUME SameCupsOnEachPage, NEW mod \in [Courses -> AnyPage], InPlace(mod),
         NEW p \in AnyPage
  PROVE  LET m == AfterPacket(mod, p)
         IN /\ InPlace(m)
            /\ p > 0 => ShowsPage(m, p)
<1> DEFINE m == AfterPacket(mod, p)
<1>1. InPlace(m)
  BY ReplacedByAll DEF AfterPacket, InPlace, Offered
<1>2. ASSUME p > 0, NEW x \in Courses PROVE m[x] = Offered(p, x[1])
  <2>1. CASE x[1] \in PagedCups
    BY <1>2, <2>1 DEF AfterPacket
  <2>2. CASE x[1] \notin PagedCups
    <3>1. <<p, x[1]>> \notin Custom /\ mod[x] = Original
      BY <1>2, <2>2, PageNumbers DEF InPlace, Replaced, AnyPage
    <3> QED  BY <1>2, <2>2, <3>1 DEF AfterPacket, Offered
  <2> QED  BY <2>1, <2>2
<1> QED  BY <1>1, <1>2 DEF ShowsPage
=============================================================================
