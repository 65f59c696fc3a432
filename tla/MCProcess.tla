----------------------------- MODULE MCProcess ------------------------------
(***************************************************************************)
(* A small process for TLC: two goroutines, as each property is about what *)
(* two calls do to each other.                                             *)
(***************************************************************************)
EXTENDS Process

CONSTANTS g1, g2

TwoGoroutines == {g1, g2}
=============================================================================
