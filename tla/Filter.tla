------------------------------- MODULE Filter -------------------------------
(***************************************************************************)
(* What a loop over a sequence keeps of it, in order.  Keep is SelectSeq   *)
(* for a set of elements, defined by positions instead of by recursion, so *)
(* that one can reason about sequences of every length.                    *)
(***************************************************************************)
EXTENDS Integers, Sequences, FiniteSets

Positions(s, S) == {i \in DOMAIN s : s[i] \in S}

Rank(s, S, i) == Cardinality({j \in Positions(s, S) : j <= i})

Nth(s, S, k) == CHOOSE i \in Positions(s, S) : Rank(s, S, i) = k

Keep(s, S) == [k \in 1 .. Cardinality(Positions(s, S)) |-> s[Nth(s, S, k)]]

(* How often m is in s.                                                     *)
Count(s, m) == Cardinality({i \in DOMAIN s : s[i] = m})
=============================================================================
