------------------------------- MODULE CupIcons -------------------------------
(***************************************************************************)
(* How the mod comes to the pictures on the cups (source/patch/course.cpp):*)
(* the hook of GetResource remembers at which address the game found the   *)
(* file of each cup's icon, the hook of LoadTexture recognises the texture *)
(* that is made of it by that address, keeps it, and saves what it showed. *)
(* loadPage then changes, and gives back, the pictures of what was kept.   *)
(*                                                                         *)
(* Twelve icons are looked for but there is room for eight (cup0.hpp:63):  *)
(* the textures of the others are stored over the beginning of the first   *)
(* saved one, and theirs are saved behind the CUP0, over whatever is there.*)
(*                                                                         *)
(* The addresses of earlier menus stay: a menu whose files overlap theirs  *)
(* in part may have an icon taken for another one.                         *)
(*                                                                         *)
(* The game is external: it builds the menu's layouts, loads their         *)
(* textures in an order of its own, and frees them; meanwhile it loads     *)
(* other textures anywhere else, also where the last menu was.             *)
(***************************************************************************)
EXTENDS Integers, Sequences

CONSTANTS
  IconCount,   \* icons the hooks know (12)
  Room,        \* entries of cupBflimFile (8)
  Bases,       \* where the menu's icons may be in memory
  PageIcons    \* the cups that the page of custom tracks replaces

ASSUME IconsAssumption ==
  /\ IconCount \in Nat /\ Room \in 1..IconCount /\ PageIcons \subseteq 0..(Room - 1)
  /\ Bases \subseteq Nat \ {0}

VARIABLES
  base,               \* where the menu's icons are; 0: there is no menu
  fetched,            \* the icons it has got by GetResource
  textures,           \* the icons whose textures it has made, in their order
  shows,              \* the picture on each
  cupIconsBflimData,
  cupBflimFile,       \* which of the menu's textures each entry is
  cupBflimFileSave,   \* the picture saved of each
  behind,             \* the icons that were saved behind the CUP0
  mistaken            \* was an icon of this menu taken for another one?

savedVars == <<cupBflimFile, cupBflimFileSave, behind>>
iconVars == <<base, fetched, textures, shows, cupIconsBflimData, savedVars, mistaken>>

Icons == 0..(IconCount - 1)
Paged == 0..(Room - 1)
Foreign == -1       \* not a texture of this menu; not one of its pictures
PagePicture == -2

MadeOf(icon) == base + icon
Made == {textures[k] : k \in DOMAIN textures}
Remembered(address) == {j \in Icons : cupIconsBflimData[j] = address}

IconTypeOK ==
  /\ base \in Bases \cup {0}
  /\ fetched \subseteq Icons /\ Made \subseteq fetched
  /\ shows \in [Icons -> Icons \cup {Foreign, PagePicture}]
  /\ cupIconsBflimData \in [Icons -> {0} \cup {b + j : b \in Bases, j \in Icons}]
  /\ cupBflimFile \in [Paged -> Made \cup {Foreign}]
  /\ cupBflimFileSave \in [Paged -> Icons \cup {Foreign}]
  /\ behind \subseteq Icons \ Paged /\ mistaken \in BOOLEAN

IconInit ==
  /\ base = 0 /\ fetched = {} /\ textures = <<>>
  /\ shows = [icon \in Icons |-> Foreign]
  /\ cupIconsBflimData = [icon \in Icons |-> 0]
  /\ cupBflimFile = [icon \in Paged |-> Foreign]
  /\ cupBflimFileSave = [icon \in Paged |-> Foreign]
  /\ behind = {} /\ mistaken = FALSE

-----------------------------------------------------------------------------

OpenMenu(b) ==
  /\ base = 0 /\ base' = b
  /\ UNCHANGED <<fetched, textures, shows, cupIconsBflimData, savedVars, mistaken>>

CloseMenu ==
  /\ base # 0 /\ base' = 0
  /\ fetched' = {} /\ textures' = <<>>
  /\ shows' = [icon \in Icons |-> Foreign]
  /\ cupBflimFile' = [icon \in Paged |-> Foreign]
  /\ mistaken' = FALSE
  /\ UNCHANGED <<cupIconsBflimData, cupBflimFileSave, behind>>

\* Mutation: an address that is known is kept.
RememberOnce(icon) ==
  cupIconsBflimData' = [cupIconsBflimData EXCEPT ![icon] = IF @ = 0 THEN MadeOf(icon) ELSE @]

Remember(icon) == cupIconsBflimData' = [cupIconsBflimData EXCEPT ![icon] = MadeOf(icon)]

GetResource(icon) ==
  /\ base # 0 /\ fetched' = fetched \cup {icon}
  /\ Remember(icon)
  /\ UNCHANGED <<base, textures, shows, savedVars, mistaken>>

\* LoadTexture, after the real one: texture shows picture.  From Room on the texture
\* lands in cupBflimFileSave[0], over the picture or over something else of it, and what
\* it shows behind the last of them.
Keep(address, texture, picture) ==
  LET known == Remembered(address)
      j == CHOOSE k \in known : \A n \in known : k <= n
  IN IF known = {} THEN UNCHANGED savedVars
     ELSE IF j \in Paged
     THEN /\ cupBflimFile' = [cupBflimFile EXCEPT ![j] = texture]
          /\ cupBflimFileSave' = [cupBflimFileSave EXCEPT ![j] = picture]
          /\ UNCHANGED behind
     ELSE /\ \/ cupBflimFileSave' = [cupBflimFileSave EXCEPT ![0] = Foreign]
             \/ UNCHANGED cupBflimFileSave
          /\ behind' = behind \cup {j}
          /\ UNCHANGED cupBflimFile

\* An earlier icon, not fetched in this menu yet, was in another one where this one is.
TakenForAnother(icon) ==
  \E j \in Icons \ fetched : j < icon /\ cupIconsBflimData[j] = MadeOf(icon)

LoadIcon(icon) ==
  /\ icon \in fetched \ Made
  /\ textures' = Append(textures, icon)
  /\ shows' = [shows EXCEPT ![icon] = icon]
  /\ Keep(MadeOf(icon), icon, icon)
  /\ mistaken' = (mistaken \/ TakenForAnother(icon))
  /\ UNCHANGED <<base, fetched, cupIconsBflimData>>

\* Any other texture: at an address that is free, or at none (0), if its file is missing.
LoadOther(address) ==
  /\ base # 0 => address \notin {MadeOf(icon) : icon \in Icons}
  /\ Keep(address, Foreign, Foreign)
  /\ UNCHANGED <<base, fetched, textures, shows, cupIconsBflimData, mistaken>>

\* loadPage, in a menu; what it writes without one goes to textures that are gone.
LoadIcons(page) ==
  /\ base # 0
  /\ shows' = [icon \in Icons |->
       LET kept == {j \in Paged : cupBflimFile[j] = icon /\ (page # 0 => j \in PageIcons)}
       IN IF kept = {} THEN shows[icon]
          ELSE IF page # 0 THEN PagePicture
          ELSE cupBflimFileSave[CHOOSE j \in kept : \A n \in kept : n <= j]]
  /\ UNCHANGED <<base, fetched, textures, cupIconsBflimData, savedVars, mistaken>>

IconNext ==
  \/ \E b \in Bases : OpenMenu(b)
  \/ CloseMenu
  \/ \E icon \in Icons : GetResource(icon) \/ LoadIcon(icon)
  \/ \E address \in {0} \cup {b + j : b \in Bases, j \in Icons} : LoadOther(address)
  \/ \E page \in {0, 1} : LoadIcons(page)

IconSpec == IconInit /\ [][IconNext]_iconVars

-----------------------------------------------------------------------------

\* Was an icon without room loaded after the first one?
FirstSpoilt ==
  \E k, n \in DOMAIN textures : k < n /\ textures[k] = 0 /\ textures[n] \notin Paged

\* In a menu whose icons are all loaded, in whatever order and wherever other textures
\* are, page 0 gives every cup its own picture back and the other page changes its own
\* cups alone; only the first cup's is lost if there is an icon without room after it,
\* and every icon without room was saved behind the CUP0 by then.  It is said of menus
\* none of whose icons was taken for another one: nothing in the code keeps that from
\* happening where a menu overlaps an earlier one in part (course.cpp:110-126, :327-362).
IconsComeBack ==
  [][\A page \in {0, 1} : LoadIcons(page) /\ Made = Icons /\ ~mistaken =>
       /\ behind = Icons \ Paged
       /\ \A icon \in Icons :
            IF page # 0
            THEN shows'[icon] = IF icon \in PageIcons THEN PagePicture ELSE shows[icon]
            ELSE (icon = 0 /\ FirstSpoilt) \/ shows'[icon] = icon]_iconVars
=============================================================================
