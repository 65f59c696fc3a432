------------------------------ MODULE Service ------------------------------
(***************************************************************************)
(* One connection to the service manager, from Server.handle to the return *)
(* of handleService (src/pkg/servicemanager/server.go:39-63 and            *)
(* service.go:48-169).                                                     *)
(*                                                                         *)
(* What the client sends is a sequence of units: the connection type, the  *)
(* opcode and the length of a header, and the bytes of message and hash.   *)
(* A unit says which frame it belongs to.  A Read may return any number of *)
(* the units it asks for, as it does when the rest is still on its way; a  *)
(* Read that times out is repeated and changes nothing.                    *)
(***************************************************************************)
EXTENDS Sequences, Integers

CONSTANTS MaxLen,      \* bound: the longest message
          MaxFrames    \* bound: the frames a client sends

ASSUME BoundAssumption == MaxLen \in Nat /\ MaxFrames \in Nat

VARIABLES kind,     \* the connection type the client announces
          frames,   \* the frames it has sent
          stream,   \* the units on their way
          eof,      \* the client is gone
          pc,       \* what the goroutine of the connection is about to do
          total,    \* total of the read() in progress
          seen,     \* a first message has been accepted
          header, data, hash,   \* headerBuf, dataBuf, hashBuf
          sock,     \* whether this side has closed the socket
          handled,  \* the messages that were taken up
          reason,   \* why the goroutine has returned, none if it has not
          cut       \* the message in which a Read first came back short, 0 if none

clientVars == <<kind, frames, stream, eof>>
bufVars == <<header, data, hash>>
vars == <<clientVars, pc, total, seen, bufVars, sock, handled, reason, cut>>

\* CLIENT_REQUEST and CLIENT_RESPONSE are treated alike.
Op == {"hello", "heartbeat", "message", "shutdown", "unknown"}
Kind == {"service", "node", "unknown"}
Length == 0..MaxLen
FrameType == [op : Op, len : Length]

Unit(k, part, v) == [frame |-> k, part |-> part, v |-> v]
Bytes(k, part, n) == [i \in 1..n |-> Unit(k, part, i)]
Zeros(n) == Bytes(0, "zero", n)
HashLen == 2

\* <opcode><4-byte-length><message><hash> (proto/protocol.proto:77).
Units(f, k) ==
    <<Unit(k, "op", f.op), Unit(k, "len", f.len)>>
        \o Bytes(k, "data", f.len) \o Bytes(k, "hash", HashLen)

\* What a unit is taken for: the zero byte is OP_IGNORE and the length 0, and a
\* length begins with a zero byte.
AsOp(u) == CASE u.part = "op" -> {u.v} [] u.part \in {"zero", "len"} -> {"unknown"} [] OTHER -> Op
AsLength(u) == CASE u.part = "len" -> {u.v} [] u.part = "zero" -> {0} [] OTHER -> Length

Init ==
    /\ kind \in Kind /\ frames = <<>> /\ stream = <<>> /\ eof = FALSE
    /\ pc = "type" /\ total = 0 /\ seen = FALSE
    /\ header = Zeros(2) /\ data = <<>> /\ hash = Zeros(HashLen)
    /\ sock = "open" /\ handled = <<>> /\ reason = "none" /\ cut = 0
-----------------------------------------------------------------------------
(* The client *)

ClientSends(f) ==
    /\ ~eof /\ Len(frames) < MaxFrames
    /\ frames' = Append(frames, f)
    /\ stream' = stream \o Units(f, Len(frames) + 1)
    /\ UNCHANGED <<kind, eof, pc, total, seen, bufVars, sock, handled, reason, cut>>

\* The client closes the connection or dies, maybe in the middle of a frame.
ClientEnds(n) ==
    /\ ~eof /\ eof' = TRUE
    /\ stream' = SubSeq(stream, 1, n)
    /\ UNCHANGED <<kind, frames, pc, total, seen, bufVars, sock, handled, reason, cut>>
-----------------------------------------------------------------------------
(* Server.handle *)

\* The goroutine returns for reason w.
Return(w) == pc' = "returned" /\ reason' = w

\* The first byte decides; node connections are not handled any further.
ReadType ==
    /\ pc = "type"
    /\ \/ kind = "service" /\ pc' = "header" /\ UNCHANGED <<reason, sock>>
       \/ kind = "node" /\ Return("type") /\ UNCHANGED sock
       \/ kind = "unknown" /\ Return("type") /\ sock' = "closed"
    /\ UNCHANGED <<clientVars, total, seen, bufVars, handled, cut>>

\* The connection fails, or its deadline passes.
TypeFails ==
    /\ pc = "type" /\ Return("type") /\ sock' = "closed"
    /\ UNCHANGED <<clientVars, total, seen, bufVars, handled, cut>>
-----------------------------------------------------------------------------
(* handleService *)

\* MUTANT: what is read is put behind what is in the buffer.
FillAppends(buf, n) == buf \o SubSeq(stream, 1, n)

\* The start of read(): every Read stores at the beginning of buf.
Fill(buf, n) == SubSeq(stream, 1, n) \o SubSeq(buf, n + 1, Len(buf))

\* A Read of size returns n of the units: fewer than it asked for, and not because
\* the stream ends there.
Short(n, size) == n < size /\ ~(eof /\ n = Len(stream))

Take(n, size, then) ==
    /\ n \in 1..Len(stream) /\ n <= size
    /\ stream' = SubSeq(stream, n + 1, Len(stream))
    /\ IF total + n = size THEN pc' = then /\ total' = 0
       ELSE total' = total + n /\ UNCHANGED pc
    /\ cut' = IF cut = 0 /\ Short(n, size) THEN Len(handled) + 1 ELSE cut
    /\ UNCHANGED reason

\* MUTANT: read() gives up only on errors that are not the end of the stream.
ReadIgnoresEnd(n, size, then) == Take(n, size, then)

\* One Read of read(): n of the size units are there.  read() is done when the
\* sum of what its Reads returned is exactly size.
Read(n, size, then) ==
    \/ Take(n, size, then)
    \/ n = 0 /\ stream = <<>> /\ eof /\ Return("end") /\ UNCHANGED <<stream, total, cut>>

ReadHeader ==
    /\ pc = "header"
    /\ \E n \in 0..2 :
         Read(n, 2, IF seen THEN "length" ELSE "expect") /\ header' = Fill(header, n)
    /\ UNCHANGED <<kind, frames, eof, seen, data, hash, sock, handled>>

\* Anything but a CLIENT_HELLO is refused while seen is false.
ExpectHello ==
    /\ pc = "expect"
    /\ \/ "hello" \in AsOp(header[1]) /\ pc' = "length" /\ UNCHANGED <<sock, reason>>
       \/ AsOp(header[1]) # {"hello"} /\ Return("first") /\ sock' = "closed"
    /\ UNCHANGED <<clientVars, total, seen, bufVars, handled, cut>>

\* MUTANT: the hash is expected without the message in front of it.
SkipMessage ==
    /\ pc = "length"
    /\ \E len \in AsLength(header[2]) : data' = Zeros(len)
    /\ pc' = "hash"
    /\ UNCHANGED <<clientVars, total, seen, header, hash, sock, handled, reason, cut>>

\* MUTANT: an empty message is waited for like any other.
TakeEmptyLength ==
    /\ pc = "length"
    /\ \E len \in AsLength(header[2]) : data' = Zeros(len)
    /\ pc' = "data"
    /\ UNCHANGED <<clientVars, total, seen, header, hash, sock, handled, reason, cut>>

\* dataBuf[:dataLen]; reading nothing succeeds at once.
TakeLength ==
    /\ pc = "length"
    /\ \E len \in AsLength(header[2]) :
         /\ data' = Zeros(len)
         /\ pc' = IF len = 0 THEN "hash" ELSE "data"
    /\ UNCHANGED <<clientVars, total, seen, header, hash, sock, handled, reason, cut>>

ReadData ==
    /\ pc = "data"
    /\ \E n \in 0..Len(data) : Read(n, Len(data), "hash") /\ data' = Fill(data, n)
    /\ UNCHANGED <<kind, frames, eof, seen, header, hash, sock, handled>>

\* The hash is read, and never looked at.
ReadHash ==
    /\ pc = "hash"
    /\ \E n \in 0..HashLen : Read(n, HashLen, "dispatch") /\ hash' = Fill(hash, n)
    /\ UNCHANGED <<kind, frames, eof, seen, header, data, sock, handled>>

\* A message is taken up; one that does not decode, an unknown opcode and a
\* CLIENT_SHUTDOWN end the connection.  seen stays as it is.
Dispatch(op) ==
    /\ pc = "dispatch" /\ op \in AsOp(header[1])
    /\ ~seen => op = "hello"
    /\ \/ /\ op \in {"hello", "message", "heartbeat", "shutdown"}
          /\ handled' = Append(handled, [op |-> op, data |-> data])
          /\ IF op = "shutdown" THEN Return("shutdown") /\ sock' = "closed"
             ELSE pc' = "header" /\ UNCHANGED <<sock, reason>>
       \/ /\ op # "heartbeat"
          /\ Return(IF op = "unknown" THEN "opcode" ELSE "undecodable")
          /\ sock' = "closed"
          /\ UNCHANGED handled
    /\ UNCHANGED <<clientVars, total, seen, bufVars, cut>>

Goroutine ==
    \/ ReadType \/ TypeFails
    \/ ReadHeader \/ ExpectHello \/ TakeLength \/ ReadData \/ ReadHash
    \/ \E op \in Op : Dispatch(op)

Next ==
    \/ \E f \in FrameType : ClientSends(f)
    \/ \E n \in 0..Len(stream) : ClientEnds(n)
    \/ Goroutine

Spec == Init /\ [][Next]_vars

\* The goroutine goes on while its Read has something to return, or an error.
FairSpec == Spec /\ WF_vars(Goroutine)
-----------------------------------------------------------------------------
(* Properties *)

UnitType ==
    [frame : 1..MaxFrames, part : {"op"}, v : Op]
        \cup [frame : 1..MaxFrames, part : {"len"}, v : Length]
        \cup [frame : 1..MaxFrames, part : {"data"}, v : 1..MaxLen]
        \cup [frame : 1..MaxFrames, part : {"hash"}, v : 1..HashLen]
BufType == Seq(UnitType \cup [frame : {0}, part : {"zero"}, v : 1..(MaxLen + HashLen)])

TypeOK ==
    /\ kind \in Kind /\ frames \in Seq(FrameType) /\ Len(frames) <= MaxFrames
    /\ stream \in Seq(UnitType)
    /\ eof \in BOOLEAN /\ seen \in BOOLEAN
    /\ pc \in {"type", "header", "expect", "length", "data", "hash", "dispatch", "returned"}
    /\ total \in Nat /\ sock \in {"open", "closed"}
    /\ header \in BufType /\ data \in BufType /\ hash \in BufType
    /\ Len(header) = 2 /\ Len(data) <= MaxLen /\ Len(hash) = HashLen
    /\ handled \in Seq([op : Op, data : BufType])
    /\ reason \in {"none", "type", "end", "first", "shutdown", "opcode", "undecodable"}
    /\ cut \in Nat

\* The i-th message that is taken up is the message of the i-th frame, with its own
\* opcode and bytes: the framing of proto/protocol.proto:77.
AsSent(i) ==
    /\ handled[i].op = frames[i].op
    /\ handled[i].data = Bytes(i, "data", frames[i].len)

\* It is so for every message, however the network cuts the stream: what read() is
\* written for (service.go:52-64).
FramesInOrder == \A i \in DOMAIN handled : AsSent(i)

\* It is so for every message that was read before a Read came back short.
AsSentUntilCut == \A i \in DOMAIN handled : cut = 0 \/ i < cut => i <= Len(frames) /\ AsSent(i)

\* Whatever the client sends and the network does, nothing but a CLIENT_HELLO is ever
\* taken up, because seen is never set (service.go:93, 108-114).
OnlyHellos == ~seen /\ \A i \in DOMAIN handled : handled[i].op = "hello"

\* When the client is gone the goroutine ends, wherever in a frame it was.
EndEndsHandler == eof ~> pc = "returned"

\* While no Read comes back short and the client is there, every frame of a service
\* is taken up, unless one of the frames up to it does not decode or is no
\* CLIENT_HELLO: the goroutine neither gets stuck nor refuses a CLIENT_HELLO.
FramesTakenUp ==
    \A k \in 1..MaxFrames :
        (Len(frames) >= k) ~>
            \/ Len(handled) >= k
            \/ eof \/ cut # 0 \/ reason \in {"type", "undecodable"}
            \/ reason = "first" /\ Len(handled) < k /\ frames[Len(handled) + 1].op # "hello"

-----------------------------------------------------------------------------
(* The inductive invariant *)

\* The frame the goroutine is in, the last unit of a frame, and what is written
\* behind a unit of the frames fs.
Current == Len(handled) + 1
LastOf(k) == Unit(k, "hash", HashLen)
Following(fs, u) ==
    CASE u.part = "op" -> Unit(u.frame, "len", fs[u.frame].len)
      [] u.part = "hash" /\ u.v = HashLen -> Unit(u.frame + 1, "op", fs[u.frame + 1].op)
      [] u.part = "hash" /\ u.v # HashLen -> Unit(u.frame, "hash", u.v + 1)
      [] u.part = "data" /\ u.v # fs[u.frame].len -> Unit(u.frame, "data", u.v + 1)
      [] u.part = "len" /\ fs[u.frame].len # 0 -> Unit(u.frame, "data", 1)
      [] OTHER -> Unit(u.frame, "hash", 1)

\* The unit that was read last, if every Read has been given all it asked for.
LastRead ==
    CASE pc \in {"type", "header"} -> LastOf(Len(handled))
      [] pc = "dispatch" -> LastOf(Current)
      [] pc = "hash" /\ frames[Current].len # 0 -> Unit(Current, "data", frames[Current].len)
      [] OTHER -> Unit(Current, "len", frames[Current].len)

\* The stream goes on behind the unit read last, unit by unit, and reaches to the end
\* of the last frame while the client is there.
InStep ==
    /\ \A i \in DOMAIN stream : stream[i].frame <= Len(frames)
    /\ total > 0 => eof /\ stream = <<>>
    /\ pc # "returned" /\ total = 0 =>
         /\ stream # <<>> => stream[1] = Following(frames, LastRead)
         /\ \A i \in 1..(Len(stream) - 1) : stream[i + 1] = Following(frames, stream[i])
         /\ ~eof => (IF stream = <<>> THEN LastRead ELSE stream[Len(stream)]) = LastOf(Len(frames))

\* ... and the buffers hold what has been read of the frame.
Buffered ==
    /\ Len(handled) <= Len(frames)
    /\ pc \in {"expect", "length", "data", "hash", "dispatch"} =>
         LET f == frames[Current]
         IN  /\ Len(handled) < Len(frames)
             /\ header = <<Unit(Current, "op", f.op), Unit(Current, "len", f.len)>>
             /\ pc = "data" => Len(data) = f.len /\ f.len # 0
             /\ pc \in {"hash", "dispatch"} => data = Bytes(Current, "data", f.len)

\* The invariant of a service connection: its types, what has been taken up, and, up
\* to the first Read that comes back short, how far the goroutine is in what the
\* client has sent.
ServiceInv ==
    /\ TypeOK /\ OnlyHellos /\ AsSentUntilCut
    /\ cut \in 0..(Len(handled) + 1)
    /\ cut = 0 => InStep /\ Buffered
============================================================================
