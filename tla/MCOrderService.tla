--------------------------- MODULE MCOrderService ---------------------------
(***************************************************************************)
(* An instance of OrderService for TLC.                                    *)
(***************************************************************************)
EXTENDS OrderService

\* Three stations; a station twice with a word between; none; a number too large.
MCStationTokens == {<<4, 5, 6>>, <<4, Word, 5, 4>>, <<>>, <<4, Huge>>}
MCUnset == -9
MCSizes == {-3, 0, 2, 4}
MCUninitialised == {0, 5}

\* Keep is what SelectSeq computes by recursion.
ASSUME KeepSelects ==
    \A n \in 0 .. 4 : \A s \in [1 .. n -> 1 .. 3] : \A S \in SUBSET (1 .. 3) :
        Keep(s, S) = SelectSeq(s, LAMBDA e : e \in S)
=============================================================================
