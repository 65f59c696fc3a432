-------------------------------- MODULE Conn --------------------------------
(***************************************************************************)
(* The sending side of protocol.Conn (src/pkg/protocol/protocol.go):       *)
(* goroutines that call Write, the proxyQueue goroutine that moves         *)
(* payloads from the buffered channel c.in to the write loop through a     *)
(* buffer of its own, the write loop, Close, and the pool the payload      *)
(* structs are recycled through.                                           *)
(*                                                                         *)
(* A message is one call of Write: <<w, n>> is the n-th call of w.  The    *)
(* write loop reads the payload struct in two steps, the opcode and the    *)
(* rest of the frame, so that a struct reused too early would show.        *)
(***************************************************************************)
EXTENDS Sequences, Functions

CONSTANTS Writers, Payloads,
          Nobody,     \* no payload
          Cap,        \* capacity of c.in, 100 in the code
          MaxWrites   \* bound: the calls each writer starts

ASSUME CapAssumption == Cap \in Nat \ {0} /\ MaxWrites \in Nat
ASSUME NobodyAssumption == Nobody \notin Payloads

VARIABLES closed,  \* c.closed
          up,      \* the socket is open
          pc,      \* pc[w]: where the call of Write of w is
          hand,    \* hand[w]: the payload w fills and sends
          calls,   \* calls[w]: how often w has called Write
          in,      \* the channel c.in
          buf,     \* buf of proxyQueue
          loop,    \* where the write loop is
          p,       \* p of the write loop
          opcode,  \* the message whose opcode is in the bufio.Writer
          pool,    \* payloadPool
          pay,     \* pay[o]: the message payload o was last filled with
          wire     \* the frames written to the socket

callVars == <<pc, hand, calls>>
loopVars == <<loop, p, opcode>>
vars == <<closed, up, callVars, in, buf, loopVars, pool, pay, wire>>

Messages == Writers \X (1..MaxWrites)
NoMessage == <<>>

Init ==
    /\ closed = FALSE /\ up = TRUE
    /\ pc = [w \in Writers |-> "idle"]
    /\ hand = [w \in Writers |-> Nobody]
    /\ calls = [w \in Writers |-> 0]
    /\ in = <<>> /\ buf = <<>> /\ wire = <<>>
    /\ loop = "off" /\ p = Nobody /\ opcode = NoMessage
    /\ pool = {} /\ pay = [o \in Payloads |-> NoMessage]
-----------------------------------------------------------------------------
(* Write *)

\* The payloads some goroutine or channel refers to.
InUse == Range(in) \cup Range(buf) \cup {p} \cup {hand[w] : w \in Writers}

\* The closed flag is looked at under the lock, which is then released.
WriteChecks(w) ==
    /\ pc[w] = "idle" /\ calls[w] < MaxWrites
    /\ calls' = [calls EXCEPT ![w] = @ + 1]
    /\ pc' = [pc EXCEPT ![w] = IF closed THEN "idle" ELSE "get"]
    /\ UNCHANGED <<closed, up, hand, in, buf, loopVars, pool, pay, wire>>

\* payloadPool.Get() returns a recycled payload, or nil: then a new one is
\* allocated, wherever nothing else is.  The channels are made if need be.
WriteFills(w) ==
    /\ pc[w] = "get"
    /\ \E o \in pool \cup (Payloads \ InUse) :
         /\ hand' = [hand EXCEPT ![w] = o]
         /\ pool' = pool \ {o}
         /\ pay' = [pay EXCEPT ![o] = <<w, calls[w]>>]
    /\ pc' = [pc EXCEPT ![w] = "send"]
    /\ UNCHANGED <<closed, up, calls, in, buf, loopVars, wire>>

\* MUTANT: c.in takes more than its capacity.
WriteNeverWaits(w) ==
    /\ pc[w] = "send"
    /\ in' = Append(in, hand[w])
    /\ hand' = [hand EXCEPT ![w] = Nobody]
    /\ pc' = [pc EXCEPT ![w] = "idle"]
    /\ UNCHANGED <<closed, up, calls, buf, loopVars, pool, pay, wire>>

\* c.in <- p waits while the channel is full; then Write returns nil.
WriteSends(w) ==
    /\ pc[w] = "send" /\ Len(in) < Cap
    /\ in' = Append(in, hand[w])
    /\ hand' = [hand EXCEPT ![w] = Nobody]
    /\ pc' = [pc EXCEPT ![w] = "idle"]
    /\ UNCHANGED <<closed, up, calls, buf, loopVars, pool, pay, wire>>

Close ==
    /\ closed' = TRUE /\ up' = FALSE
    /\ UNCHANGED <<callVars, in, buf, loopVars, pool, pay, wire>>

\* The read loop met an error and closed the socket (protocol.go:200-205), or
\* the peer went away: c.closed does not change.
Disconnect ==
    /\ up /\ up' = FALSE
    /\ UNCHANGED <<closed, callVars, in, buf, loopVars, pool, pay, wire>>
-----------------------------------------------------------------------------
(* proxyQueue *)

StartWriteLoop ==
    /\ loop = "off" /\ loop' = "wait"
    /\ UNCHANGED <<closed, up, callVars, in, buf, p, opcode, pool, pay, wire>>

\* MUTANT: the proxy does not take anything while the write loop is busy.
ProxyTakesWhenIdle ==
    /\ loop = "wait" /\ in # <<>>
    /\ buf' = Append(buf, Head(in))
    /\ in' = Tail(in)
    /\ UNCHANGED <<closed, up, callVars, loopVars, pool, pay, wire>>

ProxyTakes ==
    /\ loop # "off" /\ in # <<>>
    /\ buf' = Append(buf, Head(in))
    /\ in' = Tail(in)
    /\ UNCHANGED <<closed, up, callVars, loopVars, pool, pay, wire>>

\* MUTANT: the newest payload is handed over first.
ProxyHandsNewest ==
    /\ loop = "wait" /\ buf # <<>>
    /\ p' = buf[Len(buf)]
    /\ buf' = SubSeq(buf, 1, Len(buf) - 1)
    /\ loop' = "opcode"
    /\ UNCHANGED <<closed, up, callVars, in, opcode, pool, pay, wire>>

\* MUTANT: the buffer is emptied when its first element is handed over.
ProxyHandsAndDrops ==
    /\ loop = "wait" /\ buf # <<>>
    /\ p' = Head(buf)
    /\ buf' = <<>>
    /\ loop' = "opcode"
    /\ UNCHANGED <<closed, up, callVars, in, opcode, pool, pay, wire>>

\* c.queue has no buffer: the proxy sends when the write loop receives.
ProxyHands ==
    /\ loop = "wait" /\ buf # <<>>
    /\ p' = Head(buf)
    /\ buf' = Tail(buf)
    /\ loop' = "opcode"
    /\ UNCHANGED <<closed, up, callVars, in, opcode, pool, pay, wire>>
-----------------------------------------------------------------------------
(* The write loop *)

\* MUTANT: the payload goes back to the pool before the frame is flushed.
PutEarly ==
    /\ loop = "opcode"
    /\ opcode' = pay[p]
    /\ loop' = "rest"
    /\ pool' = pool \cup {p}
    /\ UNCHANGED <<closed, up, callVars, in, buf, p, pay, wire>>

LoopWritesOpcode ==
    /\ loop = "opcode"
    /\ opcode' = pay[p]
    /\ loop' = "rest"
    /\ UNCHANGED <<closed, up, callVars, in, buf, p, pool, pay, wire>>

\* Data and body are written after the opcode, and the frame is flushed.
LoopFlushes ==
    /\ loop = "rest" /\ up
    /\ wire' = Append(wire, [op |-> opcode, rest |-> pay[p]])
    /\ loop' = "put"
    /\ UNCHANGED <<closed, up, callVars, in, buf, p, opcode, pool, pay>>

LoopPuts ==
    /\ loop = "put"
    /\ pool' = pool \cup {p}
    /\ p' = Nobody
    /\ loop' = "wait"
    /\ UNCHANGED <<closed, up, callVars, in, buf, opcode, pay, wire>>

\* Data that does not encode, a passed deadline, a socket that is closed: the
\* loop ends, and the payload it had with it.
LoopFails ==
    /\ loop \in {"opcode", "rest"}
    /\ loop' = "dead"
    /\ p' = Nobody
    /\ UNCHANGED <<closed, up, callVars, in, buf, opcode, pool, pay, wire>>

LoopStep == LoopWritesOpcode \/ LoopFlushes \/ LoopPuts \/ (LoopFails /\ ~up)

Next ==
    \/ \E w \in Writers : WriteChecks(w) \/ WriteFills(w) \/ WriteSends(w)
    \/ Close \/ Disconnect \/ StartWriteLoop
    \/ ProxyTakes \/ ProxyHands
    \/ LoopWritesOpcode \/ LoopFlushes \/ LoopPuts \/ LoopFails

Spec == Init /\ [][Next]_vars

\* Goroutines that can go on do, the write loop is started, and a write to a
\* socket ends, well or with an error.
FairSpec ==
    /\ Spec
    /\ \A w \in Writers : WF_vars(WriteFills(w)) /\ WF_vars(WriteSends(w))
    /\ WF_vars(StartWriteLoop) /\ WF_vars(ProxyTakes) /\ WF_vars(ProxyHands)
    /\ WF_vars(LoopStep)
-----------------------------------------------------------------------------
(* Properties *)

TypeOK ==
    /\ closed \in BOOLEAN /\ up \in BOOLEAN
    /\ pc \in [Writers -> {"idle", "get", "send"}]
    /\ hand \in [Writers -> Payloads \cup {Nobody}]
    /\ calls \in [Writers -> 0..MaxWrites]
    /\ in \in Seq(Payloads) /\ Len(in) <= Cap
    /\ buf \in Seq(Payloads)
    /\ loop \in {"off", "wait", "opcode", "rest", "put", "dead"}
    /\ p \in Payloads \cup {Nobody}
    /\ opcode \in Messages \cup {NoMessage}
    /\ pool \subseteq Payloads
    /\ pay \in [Payloads -> Messages \cup {NoMessage}]
    /\ wire \in Seq([op : Messages, rest : Messages])

Hands == {hand[w] : w \in Writers} \ {Nobody}

\* A payload struct has one owner at a time: a writer, one place in one of the
\* queues, the write loop, or the pool; a recycled struct is never written to
\* while a frame is still made of it (protocol.go:151-166, 353).
OneOwner ==
    /\ IsInjective(in) /\ IsInjective(buf)
    /\ \A v, w \in Writers : hand[v] = hand[w] => v = w \/ hand[v] = Nobody
    /\ Range(in) \cap Range(buf) = {}
    /\ Hands \cap (Range(in) \cup Range(buf) \cup {p}) = {}
    /\ p \notin Range(in) \cup Range(buf)
    /\ pool \cap InUse = {}

\* What has been accepted by Write and not been sent.
Contents(s) == [i \in DOMAIN s |-> pay[s[i]]]
Held == IF loop \in {"opcode", "rest"} THEN <<p>> ELSE <<>>
Pending == Contents(Held \o buf \o in)

\* The connection implements the message queue: what Write accepted is sent in
\* that order, in whole frames, nothing lost or sent twice before a failure and
\* nothing sent after one.
Queue == INSTANCE MessageQueue
           WITH queue <- Pending, delivered <- wire, broken <- loop = "dead"
QueueSpec == Queue!Spec

\* No Write waits for ever for room in c.in, not even once the write loop has
\* ended: the proxy goes on taking payloads (protocol.go:357-381).
WritesReturn == \A w \in Writers : (pc[w] # "idle") ~> (pc[w] = "idle")

\* What Write has accepted is sent, unless the write loop ends.
Delivery ==
    \A m \in Messages :
        (m \in Range(Pending)) ~> (Queue!Frame(m) \in Range(wire) \/ loop = "dead")

\* Who has a payload has filled it: a writer that sends, the queues, and the
\* write loop, which goes on with the message it has begun.
Filled ==
    /\ \A w \in Writers : /\ pc[w] = "send" <=> hand[w] # Nobody
                          /\ pc[w] = "get" => calls[w] > 0
    /\ loop \in {"opcode", "rest", "put"} <=> p # Nobody
    /\ \A o \in InUse \ {Nobody} : pay[o] \in Messages
    /\ loop = "rest" => opcode = pay[p]

\* The invariant of the sending side: its types, who owns a payload, and that it
\* has been filled.
ConnInv == TypeOK /\ OneOwner /\ Filled
=============================================================================
