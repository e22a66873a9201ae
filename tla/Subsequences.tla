---------------------------- MODULE Subsequences ----------------------------
(* Parts of sequences, by position. *)
EXTENDS Naturals, Sequences, FiniteSets

\* What a sequence has at some positions, in its order
Selected(s, positions) ==
  [n \in 1 .. Cardinality(positions) |->
     s[CHOOSE k \in positions : Cardinality({j \in positions : j <= k}) = n]]

Without(s, x) == Selected(s, {k \in DOMAIN s : s[k] # x})
=============================================================================
