---------------------------- MODULE MCWalletLinks ----------------------------
(* Model values for WalletLinks.                                           *)
EXTENDS WalletLinks, TLC

CONSTANTS c1, c2, c3, c4, c5, c6, u1, u2, w1, r1, r2

MCHolder == [r \in Resources |-> u1]

Symmetry == Permutations(Calls)
=============================================================================
