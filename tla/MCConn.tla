------------------------------- MODULE MCConn -------------------------------
(***************************************************************************)
(* Small instances of the sending side of a connection for TLC.            *)
(***************************************************************************)
EXTENDS Conn

CONSTANTS w1, w2, o1, o2, o3, o4

TwoWriters == {w1, w2}
FourPayloads == {o1, o2, o3, o4}
============================================================================
