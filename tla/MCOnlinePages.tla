---------------------------- MODULE MCOnlinePages ----------------------------
(* OnlinePages with the pages of MCTrackPages.                              *)
EXTENDS OnlinePages, MCTrackPages, TLC

MCSymmetry == Permutations(Consoles)
=============================================================================
