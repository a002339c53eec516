-------------------------- MODULE MCWalletCreation --------------------------
(* Model values for WalletCreation.                                        *)
EXTENDS WalletCreation

CONSTANTS c1, c2, u1, u2, k1, k2, e1
=============================================================================
