-------------------------- MODULE MCFileRedirection --------------------------
(* A small instance of FileRedirection: one name per case FSOpenFile tells   *)
(* apart.                                                                    *)
EXTENDS FileRedirection, TLC

Names == {"track", "mod", "stray", "plain", "gone", "nowhere"}

\* "track" is a name in trackNames; FSOpenFile looks "mod" up for it while a
\* custom cup is selected.
NamesLookup == [p \in Names |-> IF p = "track" THEN {"track", "mod"} ELSE {p}]

Listed == {"track", "mod", "gone"}
SdCard == {"track", "mod", "stray"}
Disc == {"track", "stray", "plain", "gone"}
NoErrors == {}
OneError == {-1}
SomeOffsets == -1..2
ThreadSymmetry == Permutations(Threads)
=============================================================================
