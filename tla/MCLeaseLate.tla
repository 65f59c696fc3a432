---------------------------- MODULE MCLeaseLate ----------------------------
(***************************************************************************)
(* A small instance of the lease protocol with late requests for TLC.      *)
(***************************************************************************)
EXTENDS LeaseLate

CONSTANTS h1, h2, c1, c2

TwoHolders == {h1, h2}
OneChallenger == {c1}
TwoChallengers == {c1, c2}
MCProc == Holders \cup Challengers
============================================================================
