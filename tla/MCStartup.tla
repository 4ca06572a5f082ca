------------------------------ MODULE MCStartup ------------------------------
(***************************************************************************)
(* Values of the constants of Startup for model checking: all archives of  *)
(* up to two cups with two tracks each, on two pages.  The largest needs   *)
(* ten messages, one more than are free.                                   *)
(***************************************************************************)
EXTENDS Startup

MCTracks == 0..1
MCCupIds == 0..1

MCEntries == [page : PageIds, cup : MCCupIds, retro : SUBSET MCTracks]
MCArchives ==
  {a \in {<<>>} \cup {<<e>> : e \in MCEntries} \cup (MCEntries \X MCEntries) :
     Len(a) = 2 => Before(a[1], a[2]) /\ a[1].cup # a[2].cup}

MCCodes == {"444-0000", "444-0001", "444-0002", "444-0100", "444-0103"}
=============================================================================
