--------------------------- MODULE MCProviderHost ---------------------------
(* An instance of ProviderHost for TLC. *)
EXTENDS ProviderHost, TLC

CONSTANTS c1, c2, k1, k2, w1, w2

TheCallers == {c1, c2}
TheKeys == {k1, k2}
TheWaiters == {w1, w2}
=============================================================================
