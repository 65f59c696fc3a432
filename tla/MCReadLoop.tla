----------------------------- MODULE MCReadLoop -----------------------------
(***************************************************************************)
(* Small instances of the receiving side of a connection for TLC.          *)
(***************************************************************************)
EXTENDS ReadLoop

\* Nothing, or as much as can come in two pieces.
ShortAndLong == {0, 2}
============================================================================
