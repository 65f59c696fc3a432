---------------------------- MODULE MessageQueue ----------------------------
(***************************************************************************)
(* What a connection promises those who call Write: messages leave in the  *)
(* order they were accepted in, each as one whole frame and at most once,  *)
(* until the connection breaks; a break loses the message it hits and      *)
(* delivers nothing that comes after it.                                   *)
(***************************************************************************)
EXTENDS Sequences

CONSTANT Messages

VARIABLES queue,      \* accepted, not yet delivered
          delivered,  \* the frames sent, in order
          broken

\* The opcode and the rest of a frame are those of one and the same message.
Frame(m) == [op |-> m, rest |-> m]

Init == queue = <<>> /\ delivered = <<>> /\ broken = FALSE

Accept(m) ==
    /\ queue' = Append(queue, m)
    /\ UNCHANGED <<delivered, broken>>

Deliver ==
    /\ ~broken /\ queue # <<>>
    /\ delivered' = Append(delivered, Frame(Head(queue)))
    /\ queue' = Tail(queue)
    /\ UNCHANGED broken

Break ==
    /\ ~broken /\ queue # <<>>
    /\ queue' = Tail(queue)
    /\ broken' = TRUE
    /\ UNCHANGED delivered

Next == (\E m \in Messages : Accept(m)) \/ Deliver \/ Break

Spec == Init /\ [][Next]_<<queue, delivered, broken>>
=============================================================================
