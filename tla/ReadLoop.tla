------------------------------ MODULE ReadLoop ------------------------------
(***************************************************************************)
(* The receiving side of protocol.Conn: StartReadLoop cuts the byte stream *)
(* of the socket into frames and calls the handler with each               *)
(* (src/pkg/protocol/protocol.go:184-281).                                 *)
(*                                                                         *)
(* The stream is a sequence of units: an opcode byte, a four byte length,  *)
(* or a byte of data or body.  A unit says which frame it belongs to, so   *)
(* that bytes handed to the handler with the wrong frame show.  A Read     *)
(* returns any number of the units asked for, and fails once the stream    *)
(* has ended or, with Timeouts, once the deadline has passed that is set   *)
(* at the top of the loop, from then on until the loop is back there.      *)
(*                                                                         *)
(* The peer is taken to be well-formed: its payloads have Data and Body    *)
(* just where the opcode calls for them.  The writer sends each part if it *)
(* is not nil, whatever the opcode (lines 308 and 329), and leaves that    *)
(* agreement to the callers of Write, of which this repository has none.   *)
(***************************************************************************)
EXTENDS SequencesExt, Integers

CONSTANTS Length,     \* bound: the lengths data and body can have
          MaxFrames,  \* bound: the frames the peer sends
          Timeouts    \* StartReadLoop was given a timeout

ASSUME BoundAssumption ==
    Length \subseteq Nat /\ 0 \in Length /\ MaxFrames \in Nat /\ Timeouts \in BOOLEAN

VARIABLES frames,   \* the frames the peer has begun to send
          stream,   \* the units on their way
          eof,      \* nothing will be added to the stream
          readPc,   \* what the loop is about to read
          op,       \* the class of opcode
          lenBuf,   \* lenBuf, and what is left of dataLen
          dataLen,
          data, body,
          late,     \* a Read has found the deadline of this frame passed
          handled,  \* the calls of the handler until a deadline passes
          failed    \* the first error of a Read, "none" so far

netVars == <<frames, stream, eof>>
readVars == <<netVars, readPc, op, lenBuf, dataLen, data, body, late, handled, failed>>

\* Opcodes below 64 stand alone, those below 128 have data, others data and body.
Class == {"bare", "data", "full"}
FrameType ==
    [op : {"bare"}, data : {0}, body : {0}] \cup [op : {"data"}, data : Length, body : {0}]
        \cup [op : {"full"}, data : Length, body : Length]

Unit(k, kind, v) == [frame |-> k, kind |-> kind, v |-> v]
Bytes(k, kind, n) == [i \in 1..n |-> Unit(k, kind, i)]

\* Frame f as a well-formed peer writes it, the k-th on this connection.
Units(f, k) ==
    <<Unit(k, "op", f.op)>>
        \o (IF f.op = "bare" THEN <<>>
            ELSE <<Unit(k, "dlen", f.data)>> \o Bytes(k, "data", f.data))
        \o (IF f.op # "full" THEN <<>>
            ELSE <<Unit(k, "blen", f.body)>> \o Bytes(k, "body", f.body))

\* What a unit is taken for: any byte will do for an opcode or a length.
AsOpcode(u) == IF u.kind = "op" THEN {u.v} ELSE Class
AsLength(u) == IF u.kind \in {"dlen", "blen"} THEN {u.v} ELSE Length

ReadInit ==
    /\ frames = <<>> /\ stream = <<>> /\ eof = FALSE
    /\ readPc = "op" /\ op = "bare"
    /\ lenBuf = 0 /\ dataLen = 0
    /\ data = <<>> /\ body = <<>>
    /\ late = FALSE /\ handled = <<>> /\ failed = "none"
-----------------------------------------------------------------------------
(* The peer and the socket *)

PeerSends(f) ==
    /\ ~eof /\ Len(frames) < MaxFrames
    /\ frames' = Append(frames, f)
    /\ stream' = stream \o Units(f, Len(frames) + 1)
    /\ UNCHANGED <<eof, readPc, op, lenBuf, dataLen, data, body, late, handled, failed>>

\* The connection ends, from either side, maybe in the middle of a frame.
Ends(n) ==
    /\ ~eof /\ eof' = TRUE
    /\ stream' = SubSeq(stream, 1, n)
    /\ UNCHANGED <<frames, readPc, op, lenBuf, dataLen, data, body, late, handled, failed>>

\* What a Read finds.  While the buffer of the bufio.Reader holds something, it is
\* returned; else the socket is read, which fails at the end of the stream and, at
\* once, when the deadline has passed.  So once a Read has found it passed, every
\* further one of this frame fails too, whatever has arrived.
Ready == stream # <<>> /\ ~late

Error ==
    /\ \/ ~late /\ eof /\ stream = <<>> /\ UNCHANGED late
       \/ Timeouts /\ late' = TRUE
    /\ failed' = IF failed # "none" THEN failed ELSE IF late' THEN "timeout" ELSE "end"
-----------------------------------------------------------------------------
(* StartReadLoop *)

\* MUTANT: a frame with data is taken to have a body.
AlwaysBody == "blen"

AfterData == IF op = "full" THEN "blen" ELSE "handle"

\* MUTANT: an error is no reason to end the loop.
ReadOpcodeAgain ==
    /\ readPc = "op"
    /\ \/ /\ Ready /\ stream' = Tail(stream)
          /\ op' \in AsOpcode(Head(stream))
          /\ readPc' = IF op' = "bare" THEN "handle" ELSE "dlen"
          /\ UNCHANGED <<late, failed>>
       \/ /\ Error
          /\ UNCHANGED <<readPc, stream, op>>
    /\ UNCHANGED <<frames, eof, lenBuf, dataLen, data, body, handled>>

\* An error closes the socket and ends the loop.
ReadOpcode ==
    /\ readPc = "op"
    /\ \/ /\ Ready /\ stream' = Tail(stream)
          /\ op' \in AsOpcode(Head(stream))
          /\ readPc' = IF op' = "bare" THEN "handle" ELSE "dlen"
          /\ UNCHANGED <<late, failed>>
       \/ /\ Error /\ readPc' = "closed"
          /\ UNCHANGED <<stream, op>>
    /\ UNCHANGED <<frames, eof, lenBuf, dataLen, data, body, handled>>

\* The length of data ("dlen") or body ("blen").  An error only leaves the inner
\* loop, and the length is taken from what lenBuf holds by then: bytes of the new
\* length, of the one before, or of both.  The Reads that follow still ask for it.
ReadLength(part, after) ==
    /\ \/ /\ Ready /\ stream' = Tail(stream)
          /\ lenBuf' \in AsLength(Head(stream))
          /\ UNCHANGED <<late, failed>>
       \/ /\ Error
          /\ lenBuf' \in Length
          /\ UNCHANGED stream
    /\ dataLen' = lenBuf'
    /\ readPc' = IF dataLen' = 0 THEN after ELSE part
    /\ UNCHANGED <<frames, eof, op, handled>>

ReadDataLength ==
    readPc = "dlen" /\ ReadLength("data", AfterData) /\ UNCHANGED <<data, body>>

ReadBodyLength ==
    readPc = "blen" /\ ReadLength("body", "handle") /\ body' = <<>> /\ UNCHANGED data

\* MUTANT: the last chunk is not cut off at dataLen.
ReadPast(n, after) ==
    /\ \/ /\ Ready /\ n \in 1..Len(stream)
          /\ stream' = SubSeq(stream, n + 1, Len(stream))
          /\ dataLen' = dataLen - n
          /\ readPc' = IF dataLen' <= 0 THEN after ELSE readPc
          /\ UNCHANGED <<late, failed>>
       \/ /\ Error /\ readPc' = after
          /\ n = 0 /\ UNCHANGED <<stream, dataLen>>
    /\ UNCHANGED <<frames, eof, op, lenBuf, handled>>

\* One Read of n units of data or body; an error only leaves the inner loop.
ReadBytes(n, after) ==
    /\ \/ /\ Ready /\ n \in 1..Len(stream) /\ n <= dataLen
          /\ stream' = SubSeq(stream, n + 1, Len(stream))
          /\ dataLen' = dataLen - n
          /\ readPc' = IF dataLen' = 0 THEN after ELSE readPc
          /\ UNCHANGED <<late, failed>>
       \/ /\ Error /\ readPc' = after
          /\ n = 0 /\ UNCHANGED <<stream, dataLen>>
    /\ UNCHANGED <<frames, eof, op, lenBuf, handled>>

ReadData ==
    /\ readPc = "data"
    /\ \E n \in 0..Len(stream) :
         ReadBytes(n, AfterData) /\ data' = data \o SubSeq(stream, 1, n)
    /\ UNCHANGED body

ReadBody ==
    /\ readPc = "body"
    /\ \E n \in 0..Len(stream) :
         ReadBytes(n, "handle") /\ body' = body \o SubSeq(stream, 1, n)
    /\ UNCHANGED data

\* Once a deadline has passed, the calls are made of units of any frame.
Record(call) == handled' = IF failed = "timeout" THEN handled ELSE Append(handled, call)

\* MUTANT: only the body is reset.
HandleKeepsData ==
    /\ readPc = "handle" /\ readPc' = "op" /\ late' = FALSE
    /\ \E ok \in BOOLEAN :
         /\ Record([op |-> op, data |-> data, body |-> body, ok |-> ok])
         /\ body' = IF ok THEN <<>> ELSE body
    /\ UNCHANGED <<netVars, op, lenBuf, dataLen, data, failed>>

\* The handler is called.  If it fails the buffers are not reset.  Back at the top
\* of the loop a new deadline is set.
Handle ==
    /\ readPc = "handle" /\ readPc' = "op" /\ late' = FALSE
    /\ \E ok \in BOOLEAN :
         /\ Record([op |-> op, data |-> data, body |-> body, ok |-> ok])
         /\ data' = IF ok THEN <<>> ELSE data
         /\ body' = IF ok THEN <<>> ELSE body
    /\ UNCHANGED <<netVars, op, lenBuf, dataLen, failed>>

Loop == ReadOpcode \/ ReadDataLength \/ ReadBodyLength \/ ReadData \/ ReadBody \/ Handle

ReadNext ==
    \/ \E f \in FrameType : PeerSends(f)
    \/ \E n \in 0..Len(stream) : Ends(n)
    \/ Loop

ReadSpec == ReadInit /\ [][ReadNext]_readVars

\* The loop goes on while there is something to read, or an error to return; no
\* deadline need pass.
DeadlinePasses == ~late /\ late'
FairReadSpec == ReadSpec /\ WF_readVars(Loop /\ ~DeadlinePasses)
-----------------------------------------------------------------------------
(* Properties *)

UnitType == [frame : 1..MaxFrames, kind : {"op"}, v : Class]
                \cup [frame : 1..MaxFrames, kind : {"dlen", "blen"}, v : Length]
                \cup [frame : 1..MaxFrames, kind : {"data", "body"}, v : Nat \ {0}]

ReadTypeOK ==
    /\ frames \in Seq(FrameType) /\ Len(frames) <= MaxFrames
    /\ stream \in Seq(UnitType) /\ eof \in BOOLEAN
    /\ readPc \in {"op", "dlen", "data", "blen", "body", "handle", "closed"}
    /\ op \in Class /\ lenBuf \in Length /\ dataLen \in Nat
    /\ data \in Seq(UnitType) /\ body \in Seq(UnitType) /\ late \in BOOLEAN
    /\ handled \in Seq([op : Class, data : Seq(UnitType), body : Seq(UnitType), ok : BOOLEAN])
    /\ failed \in {"none", "end", "timeout"}

\* What a failed call of the handler leaves in front of the next one's arguments.
StaleData(i) == IF i > 1 /\ ~handled[i - 1].ok THEN handled[i - 1].data ELSE <<>>
LeftBody(i) == IF i > 1 /\ ~handled[i - 1].ok THEN handled[i - 1].body ELSE <<>>
StaleBody(i) == IF handled[i].op # "full" THEN LeftBody(i) ELSE <<>>

\* The i-th call of the handler is for the i-th frame, with exactly its bytes
\* behind what a failed call before it has left in the buffers.
Exactly(i) ==
    /\ handled[i].op = frames[i].op
    /\ handled[i].data = StaleData(i) \o Bytes(i, "data", frames[i].data)
    /\ handled[i].body = StaleBody(i) \o Bytes(i, "body", frames[i].body)

CutShort(i) ==
    /\ handled[i].op = frames[i].op
    /\ IsPrefix(handled[i].data, StaleData(i) \o Bytes(i, "data", frames[i].data))
    /\ IsPrefix(handled[i].body, StaleBody(i) \o Bytes(i, "body", frames[i].body))

\* However the stream is cut into chunks, every frame reaches the handler, once
\* and in order, with its own bytes, until a deadline passes in the middle of
\* one; only the frame the connection ended in is handed over cut short, and
\* nothing after it (protocol.go:196-281).
FramesInOrder ==
    \A i \in DOMAIN handled : Exactly(i) \/ (CutShort(i) /\ i = Len(handled) /\ failed = "end")

\* The end of the connection ends the loop, in whatever part of a frame it
\* comes, however many deadlines have passed before, in whatever parts of frames,
\* and however far they have put the loop out of step (protocol.go:196-281).
EndEndsLoop == eof ~> readPc = "closed"

\* What the peer sent before the connection ended is handled, unless a deadline
\* passes.
FramesHandled ==
    \A k \in 1..MaxFrames :
        (Len(frames) >= k) ~> (Len(handled) >= k \/ eof \/ failed = "timeout")

-----------------------------------------------------------------------------
(* The inductive invariant *)

\* The number of units of a frame, and which of those of frame f u is.
Size(f) == CASE f.op = "bare" -> 1 [] f.op = "data" -> 2 + f.data [] OTHER -> 3 + f.data + f.body
PlaceIn(f, u) ==
    CASE u.kind = "op" -> 1
      [] u.kind = "dlen" -> 2
      [] u.kind = "data" -> 2 + u.v
      [] u.kind = "blen" -> 3 + f.data
      [] u.kind = "body" -> 3 + f.data + u.v
Place(u) == PlaceIn(frames[u.frame], u)

\* u is a unit of one of the frames.
Framed(u) ==
    /\ u.frame \in 1..Len(frames)
    /\ Place(u) \in 1..Size(frames[u.frame])

\* The i-th unit of the stream stands among the units of its frame, as far as they
\* are in the stream, and the next frame begins behind them.
InFrame(i) ==
    LET k == stream[i].frame
        before == i - Place(stream[i])
    IN  /\ Framed(stream[i])
        /\ \A j \in 1..Size(frames[k]) :
             before + j \in DOMAIN stream => stream[before + j] = Units(frames[k], k)[j]
        /\ before + Size(frames[k]) + 1 \in DOMAIN stream =>
             stream[before + Size(frames[k]) + 1] = Unit(k + 1, "op", frames[k + 1].op)

\* The stream is a piece of the frames, one after the other, and reaches to the end
\* of the last while the connection is there.
WholeFrames ==
    /\ \A i \in DOMAIN stream : InFrame(i)
    /\ ~eof /\ stream # <<>> =>
         LET last == stream[Len(stream)]
         IN  last.frame = Len(frames) /\ Place(last) = Size(frames[Len(frames)])

\* The frame the loop is in, and which of its units it is about to read.
Current == Len(handled) + 1
Due ==
    CASE readPc = "op" -> 1
      [] readPc = "dlen" -> 2
      [] readPc = "data" -> 3 + frames[Current].data - dataLen
      [] readPc = "blen" -> 3 + frames[Current].data
      [] readPc = "body" -> 4 + frames[Current].data + frames[Current].body - dataLen
      [] OTHER -> Size(frames[Current]) + 1

\* Between the opcode and the return of the handler.
Inside == readPc \in {"dlen", "data", "blen", "body", "handle"}
InCurrent ==
    Inside /\ failed # "timeout" =>
        /\ Len(handled) < Len(frames) /\ op = frames[Current].op
        /\ readPc \in {"dlen", "data"} => op # "bare"
        /\ readPc \in {"blen", "body"} => op = "full"

\* While no Read has failed, the stream goes on with what the loop is about to read.
InStep ==
    failed = "none" =>
        /\ readPc # "closed" /\ Len(handled) <= Len(frames)
        /\ readPc = "data" => dataLen \in 1..frames[Current].data
        /\ readPc = "body" => dataLen \in 1..frames[Current].body
        /\ stream # <<>> =>
             IF readPc = "handle" THEN stream[1].frame = Current + 1 /\ Place(stream[1]) = 1
             ELSE stream[1].frame = Current /\ Place(stream[1]) = Due
        /\ stream = <<>> /\ ~eof =>
             \/ readPc = "op" /\ Len(handled) = Len(frames)
             \/ readPc = "handle" /\ Current = Len(frames)

\* ... and the buffers hold what it has read of the frame.
Buffered ==
    failed = "none" =>
        /\ data = StaleData(Current) \o
             (CASE readPc \in {"op", "dlen"} -> <<>>
                [] readPc = "data" -> Bytes(Current, "data", frames[Current].data - dataLen)
                [] OTHER -> Bytes(Current, "data", frames[Current].data))
        /\ body =
             CASE readPc = "body" -> Bytes(Current, "body", frames[Current].body - dataLen)
               [] readPc = "handle" /\ op = "full" -> Bytes(Current, "body", frames[Current].body)
               [] OTHER -> LeftBody(Current)

\* Once the end of the connection has cut the frame short, the buffers hold a part
\* of it, and there is nothing more to come.
CutOff ==
    failed = "end" =>
        /\ eof /\ stream = <<>>
        /\ Inside =>
             /\ IsPrefix(data, StaleData(Current) \o Bytes(Current, "data", frames[Current].data))
             /\ IF op = "full" /\ readPc \in {"body", "handle"}
                THEN IsPrefix(body, Bytes(Current, "body", frames[Current].body))
                ELSE op # "full" => body = LeftBody(Current)

\* What has been handled so far.
Served ==
    /\ Len(handled) <= Len(frames)
    /\ \A i \in DOMAIN handled :
         \/ Exactly(i)
         \/ CutShort(i) /\ i = Len(handled) /\ failed = "end" /\ ~Inside

\* The invariant of the receiving side: its types, what the handler has got, and
\* how far the loop is in the frames of the peer.
ReadInv ==
    /\ ReadTypeOK /\ FramesInOrder
    /\ WholeFrames /\ InCurrent /\ InStep /\ Buffered /\ CutOff /\ Served
=============================================================================
