----------------------------- MODULE MCTrackPages -----------------------------
(***************************************************************************)
(* Values of the constants of TrackPages for model checking: two pages,    *)
(* both replacing the first cup only.  Three cups: one that the pages      *)
(* replace, one that they could replace, one that they cannot.             *)
(***************************************************************************)
EXTENDS Integers

MCNumPages == 2
MCCups == 0..2
MCPagedCups == 0..1
MCTracks == 0..1
MCCustom == {<<1, 0>>, <<2, 0>>}
=============================================================================
