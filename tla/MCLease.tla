------------------------------ MODULE MCLease ------------------------------
(***************************************************************************)
(* Small instances of the lease protocol for TLC.                          *)
(***************************************************************************)
EXTENDS LeaseInv, TLC

CONSTANTS h1, h2, c1, c2

TwoHolders == {h1, h2}
OneChallenger == {c1}
TwoChallengers == {c1, c2}
MCProc == Holders \cup Challengers
Nobody == {}

\* Holders are interchangeable, and so are challengers.
Symmetry == Permutations(Holders) \cup Permutations(Challengers)
============================================================================
