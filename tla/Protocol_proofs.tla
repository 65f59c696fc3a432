--------------------------- MODULE Protocol_proofs ---------------------------
(***************************************************************************)
(* Proofs about both sides of a connection of package protocol.  Conn, for *)
(* any number of writers, messages and payloads and a channel of any       *)
(* capacity: who owns a payload, and that the sending side implements the  *)
(* message queue.  ReadLoop, for any lengths and number of frames, and     *)
(* however the stream is cut up: what the handler gets is the frames of    *)
(* the peer, in order and whole.                                           *)
(***************************************************************************)
EXTENDS Conn, ReadLoop, SequenceTheorems, TLAPS

-----------------------------------------------------------------------------
(* Sequences *)

\* What a queue holds after its head is taken.
LEMMA TailRange ==
    ASSUME NEW S, NEW s \in Seq(S), s # <<>>
    PROVE  /\ Head(s) = s[1] /\ 1 \in DOMAIN s
           /\ Range(Tail(s)) \subseteq Range(s) /\ Head(s) \in Range(s)
           /\ IsInjective(s) => IsInjective(Tail(s)) /\ Head(s) \notin Range(Tail(s))
<1>1. /\ Tail(s) \in Seq(S) /\ Len(s) \in Nat /\ Len(Tail(s)) = Len(s) - 1
      /\ DOMAIN s = 1..Len(s) /\ DOMAIN Tail(s) = 1..(Len(s) - 1)
      /\ \A i \in 1..(Len(s) - 1) : Tail(s)[i] = s[i + 1]
      /\ Head(s) = s[1] /\ Len(s) # 0
  BY HeadTailProperties, LenProperties, EmptySeq
<1>2. \A i \in DOMAIN Tail(s) : i + 1 \in DOMAIN s /\ i + 1 # 1 /\ Tail(s)[i] = s[i + 1]
  BY <1>1
<1>3. Range(Tail(s)) \subseteq Range(s) /\ Head(s) \in Range(s)
  BY <1>1, <1>2 DEF Range
<1>4. ASSUME IsInjective(s) PROVE IsInjective(Tail(s)) /\ Head(s) \notin Range(Tail(s))
  <2>1. IsInjective(Tail(s))
    BY <1>1, <1>2, <1>4 DEF IsInjective
  <2>2. Head(s) \notin Range(Tail(s))
    BY <1>1, <1>2, <1>4 DEF IsInjective, Range
  <2> QED
    BY <2>1, <2>2
<1> QED
  BY <1>1, <1>3, <1>4

\* What a queue holds after an element is put behind it.
LEMMA AppendRange ==
    ASSUME NEW S, NEW s \in Seq(S), NEW e \in S
    PROVE  /\ Append(s, e) \in Seq(S) /\ Len(Append(s, e)) = Len(s) + 1
           /\ Range(Append(s, e)) = Range(s) \cup {e}
           /\ IsInjective(s) /\ e \notin Range(s) => IsInjective(Append(s, e))
<1>1. /\ Append(s, e) \in Seq(S) /\ Len(s) \in Nat /\ Len(Append(s, e)) = Len(s) + 1
      /\ DOMAIN s = 1..Len(s) /\ DOMAIN Append(s, e) = 1..(Len(s) + 1)
      /\ \A i \in 1..Len(s) : Append(s, e)[i] = s[i]
      /\ Append(s, e)[Len(s) + 1] = e
  BY AppendProperties, LenProperties
<1>2. Range(Append(s, e)) = Range(s) \cup {e}
  BY <1>1 DEF Range
<1>3. ASSUME IsInjective(s), e \notin Range(s) PROVE IsInjective(Append(s, e))
  BY <1>1, <1>3 DEF IsInjective, Range
<1> QED
  BY <1>1, <1>2, <1>3
\* Taking the head of a queue behind which another one waits.
LEMMA HeadOfConcat ==
    ASSUME NEW S, NEW s \in Seq(S), NEW e \in S
    PROVE  /\ <<e>> \o s \in Seq(S) /\ <<e>> \o s # <<>>
           /\ Head(<<e>> \o s) = e /\ Tail(<<e>> \o s) = s
<1>1. <<e>> \in Seq(S) /\ Len(<<e>>) = 1 /\ <<e>>[1] = e
  OBVIOUS
<1>2. /\ <<e>> \o s \in Seq(S) /\ Len(<<e>> \o s) = Len(s) + 1 /\ Len(s) \in Nat
      /\ (<<e>> \o s)[1] = e
      /\ \A i \in 1..Len(s) : (<<e>> \o s)[i + 1] = s[i]
  BY <1>1, ConcatProperties, LenProperties
<1>3. <<e>> \o s # <<>>
  BY <1>2, EmptySeq
<1>4. /\ Tail(<<e>> \o s) \in Seq(S) /\ Len(Tail(<<e>> \o s)) = Len(s)
      /\ \A i \in 1..Len(s) : Tail(<<e>> \o s)[i] = s[i]
  BY <1>2, <1>3, HeadTailProperties
<1>5. Tail(<<e>> \o s) = s
  BY <1>4, SeqEqual
<1> QED
  BY <1>2, <1>3, <1>5

\* A queue is its head in front of its tail.
LEMMA HeadThenTail ==
    ASSUME NEW S, NEW s \in Seq(S), s # <<>>
    PROVE  <<Head(s)>> \o Tail(s) = s
<1>1. Head(s) \in S /\ Tail(s) \in Seq(S) /\ Head(s) = s[1]
      /\ Len(Tail(s)) = Len(s) - 1 /\ Len(s) \in Nat \ {0}
      /\ \A i \in 1..(Len(s) - 1) : Tail(s)[i] = s[i + 1]
  BY HeadTailProperties, EmptySeq
<1>2. <<Head(s)>> \in Seq(S) /\ Len(<<Head(s)>>) = 1 /\ <<Head(s)>>[1] = Head(s)
  BY <1>1
<1>3. /\ <<Head(s)>> \o Tail(s) \in Seq(S) /\ Len(<<Head(s)>> \o Tail(s)) = Len(s)
      /\ \A i \in 1..Len(s) :
           (<<Head(s)>> \o Tail(s))[i] = IF i <= 1 THEN <<Head(s)>>[i] ELSE Tail(s)[i - 1]
  BY <1>1, <1>2, ConcatProperties
<1>4. \A i \in 1..Len(s) : (<<Head(s)>> \o Tail(s))[i] = s[i]
  BY <1>1, <1>2, <1>3
<1> QED
  BY <1>3, <1>4, SeqEqual

LEMMA OneElement ==
    ASSUME NEW S, NEW e \in S
    PROVE  <<e>> \in Seq(S) /\ Len(<<e>>) = 1 /\ <<e>>[1] = e /\ Range(<<e>>) = {e}
<1>1. <<e>> \in Seq(S) /\ Len(<<e>>) = 1 /\ <<e>>[1] = e
  OBVIOUS
<1>2. DOMAIN <<e>> = {1}
  BY <1>1, LenProperties
<1>3. Range(<<e>>) = {<<e>>[i] : i \in {1}}
  BY <1>2 DEF Range
<1> QED
  BY <1>1, <1>3

\* The payloads of a queue are in its range.
LEMMA InRange ==
    \A S : \A s, t \in Seq(S) :
        s \o t \in Seq(S) /\ Range(s \o t) = Range(s) \cup Range(t)
  BY ConcatProperties, RangeConcatenation
\* An element put behind the second of two queues is put behind both.
LEMMA ConcatAppend ==
    ASSUME NEW S, NEW s \in Seq(S), NEW t \in Seq(S), NEW e \in S
    PROVE  s \o Append(t, e) = Append(s \o t, e)
<1>1. Append(t, e) = t \o <<e>> /\ <<e>> \in Seq(S)
  BY AppendIsConcat, OneElement
<1>2. s \o t \in Seq(S)
  BY ConcatProperties
<1>3. Append(s \o t, e) = (s \o t) \o <<e>>
  BY <1>2, AppendIsConcat
<1>4. (s \o t) \o <<e>> = s \o (t \o <<e>>)
  BY <1>1, ConcatAssociative
<1> QED
  BY <1>1, <1>3, <1>4

\* Moving an element from the head of one queue to the end of the queue before it.
LEMMA MoveBetween ==
    ASSUME NEW S, NEW s \in Seq(S), NEW t \in Seq(S), t # <<>>
    PROVE  Append(s, Head(t)) \o Tail(t) = s \o t
<1>1. Head(t) \in S /\ Tail(t) \in Seq(S) /\ <<Head(t)>> \in Seq(S)
  BY HeadTailProperties, OneElement
<1>2. Append(s, Head(t)) = s \o <<Head(t)>>
  BY <1>1, AppendIsConcat
<1>3. (s \o <<Head(t)>>) \o Tail(t) = s \o (<<Head(t)>> \o Tail(t))
  BY <1>1, ConcatAssociative
<1> QED
  BY <1>2, <1>3, HeadThenTail
-----------------------------------------------------------------------------
(* Who owns a payload *)

LEMMA ConnInit == Init => ConnInv
<1> SUFFICES ASSUME Init PROVE ConnInv
  OBVIOUS
<1> USE CapAssumption, NobodyAssumption DEF Init
<1>1. Range(in) = {} /\ Range(buf) = {}
  BY DEF Range
<1>2. TypeOK
  <2>1. in \in Seq(Payloads) /\ buf \in Seq(Payloads) /\ Len(in) = 0
    BY EmptySeq
  <2>2. wire \in Seq([op : Messages, rest : Messages])
    BY EmptySeq
  <2>3. closed \in BOOLEAN /\ up \in BOOLEAN
    OBVIOUS
  <2>4. calls \in [Writers -> 0..MaxWrites] /\ pc \in [Writers -> {"idle", "get", "send"}]
    OBVIOUS
  <2>5. /\ hand \in [Writers -> Payloads \cup {Nobody}]
        /\ pay \in [Payloads -> Messages \cup {NoMessage}]
    OBVIOUS
  <2> QED
    BY <2>1, <2>2, <2>3, <2>4, <2>5 DEF TypeOK
<1>3. OneOwner
  BY <1>1 DEF OneOwner, Hands, InUse, IsInjective
<1>4. Filled
  BY <1>1 DEF Filled, InUse
<1> QED
  BY <1>2, <1>3, <1>4 DEF ConnInv

LEMMA WriteFillsKeeps ==
    ASSUME ConnInv, NEW w \in Writers, WriteFills(w) PROVE ConnInv'
<1> USE CapAssumption, NobodyAssumption
<1>1. PICK o \in pool \cup (Payloads \ InUse) :
         /\ hand' = [hand EXCEPT ![w] = o]
         /\ pool' = pool \ {o}
         /\ pay' = [pay EXCEPT ![o] = <<w, calls[w]>>]
  BY DEF WriteFills
<1>2. /\ pc[w] = "get" /\ pc' = [pc EXCEPT ![w] = "send"]
      /\ closed' = closed /\ up' = up /\ calls' = calls /\ in' = in /\ buf' = buf
      /\ loop' = loop /\ p' = p /\ opcode' = opcode /\ wire' = wire
  BY DEF WriteFills, loopVars
<1>3. o \in Payloads /\ o # Nobody /\ o \notin InUse /\ <<w, calls[w]>> \in Messages
  BY <1>2 DEF ConnInv, TypeOK, OneOwner, Filled, Messages
<1>4. TypeOK'
  BY <1>1, <1>2, <1>3 DEF ConnInv, TypeOK, Messages
<1>5. /\ hand'[w] = o /\ \A v \in Writers : v # w => hand'[v] = hand[v]
      /\ hand[w] = Nobody
  BY <1>1, <1>2 DEF ConnInv, TypeOK, Filled
<1>6. InUse' \subseteq InUse \cup {o}
  BY <1>2, <1>5 DEF InUse
<1>7. OneOwner'
  <2>1. Hands' \subseteq Hands \cup {o}
    BY <1>5 DEF Hands
  <2>2. \A u, v \in Writers : hand'[u] = hand'[v] => u = v \/ hand'[u] = Nobody
    BY <1>3, <1>5 DEF ConnInv, OneOwner, InUse
  <2> QED
    BY <1>1, <1>2, <1>3, <1>6, <2>1, <2>2 DEF ConnInv, OneOwner, InUse
<1>8. Filled'
  <2>1. \A v \in Writers : /\ pc'[v] = "send" <=> hand'[v] # Nobody
                           /\ pc'[v] = "get" => calls'[v] > 0
    BY <1>2, <1>3, <1>5 DEF ConnInv, TypeOK, Filled
  <2>2. \A x \in InUse' \ {Nobody} : pay'[x] \in Messages
    BY <1>1, <1>3, <1>6 DEF ConnInv, TypeOK, Filled
  <2>3. loop = "rest" => opcode = pay'[p]
    BY <1>1, <1>3 DEF ConnInv, TypeOK, Filled, InUse
  <2> QED
    BY <1>2, <2>1, <2>2, <2>3 DEF ConnInv, Filled
<1> QED
  BY <1>4, <1>7, <1>8 DEF ConnInv

LEMMA WriteSendsKeeps ==
    ASSUME ConnInv, NEW w \in Writers, WriteSends(w) PROVE ConnInv'
<1> USE CapAssumption, NobodyAssumption
<1>1. /\ pc[w] = "send" /\ Len(in) < Cap /\ in' = Append(in, hand[w])
      /\ hand' = [hand EXCEPT ![w] = Nobody] /\ pc' = [pc EXCEPT ![w] = "idle"]
      /\ closed' = closed /\ up' = up /\ calls' = calls /\ buf' = buf /\ pool' = pool
      /\ loop' = loop /\ p' = p /\ opcode' = opcode /\ wire' = wire /\ pay' = pay
  BY DEF WriteSends, loopVars
<1>2. /\ hand[w] # Nobody /\ hand[w] \in Payloads /\ hand[w] \in Hands
      /\ in \in Seq(Payloads) /\ hand[w] \notin Range(in)
  BY <1>1 DEF ConnInv, TypeOK, OneOwner, Filled, Hands
<1>3. /\ in' \in Seq(Payloads) /\ Len(in') = Len(in) + 1
      /\ Range(in') = Range(in) \cup {hand[w]} /\ IsInjective(in')
  BY <1>1, <1>2, AppendRange DEF ConnInv, OneOwner
<1>4. TypeOK'
  BY <1>1, <1>3, LenProperties DEF ConnInv, TypeOK
<1>5. hand'[w] = Nobody /\ \A v \in Writers : v # w => hand'[v] = hand[v]
  BY <1>1 DEF ConnInv, TypeOK
<1>6. Range(buf') = Range(buf) /\ IsInjective(buf')
  BY <1>1 DEF ConnInv, OneOwner
<1>7. InUse' \ {Nobody} = InUse \ {Nobody}
  BY <1>1, <1>2, <1>3, <1>5 DEF InUse
<1>8. Hands' = Hands \ {hand[w]}
  BY <1>2, <1>5 DEF ConnInv, OneOwner, Hands
<1>9. OneOwner'
  <2>1. \A u, v \in Writers : hand'[u] = hand'[v] => u = v \/ hand'[u] = Nobody
    BY <1>5 DEF ConnInv, OneOwner
  <2>2. Nobody \notin pool
    BY DEF ConnInv, TypeOK
  <2> QED
    BY <1>1, <1>2, <1>3, <1>6, <1>7, <1>8, <2>1, <2>2 DEF ConnInv, OneOwner, Hands, InUse
<1>10. Filled'
  BY <1>1, <1>5, <1>7 DEF ConnInv, TypeOK, Filled
<1> QED
  BY <1>4, <1>9, <1>10 DEF ConnInv

LEMMA WriteChecksKeeps ==
    ASSUME ConnInv, NEW w \in Writers, WriteChecks(w) PROVE ConnInv'
<1>1. /\ pc[w] = "idle" /\ calls[w] < MaxWrites
      /\ calls' = [calls EXCEPT ![w] = @ + 1]
      /\ pc' = [pc EXCEPT ![w] = IF closed THEN "idle" ELSE "get"]
      /\ UNCHANGED <<closed, up, hand, in, buf, loop, p, opcode, pool, pay, wire>>
  BY DEF WriteChecks, loopVars
<1>2. calls'[w] = calls[w] + 1 /\ \A v \in Writers : v # w => calls'[v] = calls[v]
  BY <1>1 DEF ConnInv, TypeOK
<1>3. TypeOK'
  BY <1>1, CapAssumption DEF ConnInv, TypeOK
<1>4. InUse' = InUse /\ Hands' = Hands
  BY <1>1 DEF InUse, Hands
<1>5. OneOwner'
  BY <1>1, <1>4 DEF ConnInv, OneOwner
<1>6. Filled'
  BY <1>1, <1>2, <1>4 DEF ConnInv, TypeOK, Filled
<1> QED
  BY <1>3, <1>5, <1>6 DEF ConnInv

\* The socket is nothing the invariant speaks of.
LEMMA SocketKeeps ==
    ASSUME ConnInv, Close \/ Disconnect PROVE ConnInv'
<1>1. /\ closed' \in BOOLEAN /\ up' \in BOOLEAN
      /\ UNCHANGED <<pc, hand, calls, in, buf, loop, p, opcode, pool, pay, wire>>
  BY DEF Close, Disconnect, callVars, loopVars, ConnInv, TypeOK
<1>2. TypeOK'
  BY <1>1 DEF ConnInv, TypeOK
<1>3. OneOwner' /\ Filled'
  BY <1>1 DEF ConnInv, OneOwner, Filled, InUse, Hands
<1> QED
  BY <1>2, <1>3 DEF ConnInv

LEMMA ProxyTakesKeeps ==
    ASSUME ConnInv, ProxyTakes PROVE ConnInv'
<1>1. /\ in # <<>> /\ buf' = Append(buf, Head(in)) /\ in' = Tail(in)
      /\ UNCHANGED <<closed, up, pc, hand, calls, loop, p, opcode, pool, pay, wire>>
  BY DEF ProxyTakes, callVars, loopVars
<1>2. /\ in \in Seq(Payloads) /\ buf \in Seq(Payloads)
      /\ IsInjective(in) /\ IsInjective(buf) /\ Range(in) \cap Range(buf) = {}
  BY DEF ConnInv, TypeOK, OneOwner
<1>3. /\ Head(in) \in Payloads /\ Head(in) \in Range(in) /\ Head(in) \notin Range(in')
      /\ in' \in Seq(Payloads) /\ Len(in') = Len(in) - 1 /\ IsInjective(in')
      /\ Range(in') \subseteq Range(in)
  BY <1>1, <1>2, TailRange, HeadTailProperties
<1>4. /\ buf' \in Seq(Payloads) /\ Range(buf') = Range(buf) \cup {Head(in)}
      /\ IsInjective(buf')
  BY <1>1, <1>2, <1>3, AppendRange
<1>5. TypeOK'
  BY <1>1, <1>3, <1>4, LenProperties, CapAssumption DEF ConnInv, TypeOK
<1>6. InUse' \subseteq InUse /\ Hands' = Hands
  BY <1>1, <1>3, <1>4 DEF InUse, Hands
<1>7. OneOwner'
  BY <1>1, <1>2, <1>3, <1>4, <1>6 DEF ConnInv, OneOwner
<1>8. Filled'
  BY <1>1, <1>6 DEF ConnInv, TypeOK, Filled
<1> QED
  BY <1>5, <1>7, <1>8 DEF ConnInv

LEMMA ProxyHandsKeeps ==
    ASSUME ConnInv, ProxyHands PROVE ConnInv'
<1> USE NobodyAssumption
<1>1. /\ loop = "wait" /\ buf # <<>> /\ p' = Head(buf) /\ buf' = Tail(buf)
      /\ loop' = "opcode"
      /\ UNCHANGED <<closed, up, pc, hand, calls, in, opcode, pool, pay, wire>>
  BY DEF ProxyHands, callVars
<1>2. buf \in Seq(Payloads) /\ IsInjective(buf) /\ p = Nobody
  BY <1>1 DEF ConnInv, TypeOK, OneOwner, Filled
<1>3. /\ p' \in Payloads /\ p' \in Range(buf) /\ p' \notin Range(buf')
      /\ buf' \in Seq(Payloads) /\ IsInjective(buf') /\ Range(buf') \subseteq Range(buf)
  BY <1>1, <1>2, TailRange, HeadTailProperties
<1>4. TypeOK'
  BY <1>1, <1>3 DEF ConnInv, TypeOK
<1>5. InUse' \subseteq InUse /\ Hands' = Hands
  BY <1>1, <1>3 DEF InUse, Hands
<1>6. OneOwner'
  BY <1>1, <1>2, <1>3, <1>5 DEF ConnInv, OneOwner
<1>7. Filled'
  BY <1>1, <1>3, <1>5 DEF ConnInv, TypeOK, Filled
<1> QED
  BY <1>4, <1>6, <1>7 DEF ConnInv

\* The write loop is started, or writes the opcode of the payload it has.
LEMMA LoopBeginsKeeps ==
    ASSUME ConnInv, StartWriteLoop \/ LoopWritesOpcode PROVE ConnInv'
<1> USE NobodyAssumption
<1>1. /\ UNCHANGED <<closed, up, pc, hand, calls, in, buf, p, pool, pay, wire>>
      /\ \/ loop = "off" /\ loop' = "wait" /\ opcode' = opcode
         \/ loop = "opcode" /\ loop' = "rest" /\ opcode' = pay[p]
  BY DEF StartWriteLoop, LoopWritesOpcode, callVars
<1>2. loop = "opcode" => p # Nobody /\ p \in Payloads /\ pay[p] \in Messages
  BY DEF ConnInv, TypeOK, Filled, InUse
<1>3. TypeOK'
  BY <1>1, <1>2 DEF ConnInv, TypeOK
<1>4. InUse' = InUse /\ Hands' = Hands
  BY <1>1 DEF InUse, Hands
<1>5. OneOwner'
  BY <1>1, <1>4 DEF ConnInv, OneOwner
<1>6. Filled'
  BY <1>1, <1>2, <1>4 DEF ConnInv, TypeOK, Filled
<1> QED
  BY <1>3, <1>5, <1>6 DEF ConnInv

LEMMA LoopFlushesKeeps ==
    ASSUME ConnInv, LoopFlushes PROVE ConnInv'
<1> USE NobodyAssumption
<1>1. /\ loop = "rest" /\ loop' = "put"
      /\ wire' = Append(wire, [op |-> opcode, rest |-> pay[p]])
      /\ UNCHANGED <<closed, up, pc, hand, calls, in, buf, p, opcode, pool, pay>>
  BY DEF LoopFlushes, callVars
<1>2. p # Nobody /\ pay[p] \in Messages /\ opcode = pay[p]
  BY <1>1 DEF ConnInv, TypeOK, Filled, InUse
<1>3. wire' \in Seq([op : Messages, rest : Messages])
  BY <1>1, <1>2, AppendProperties DEF ConnInv, TypeOK
<1>4. TypeOK'
  BY <1>1, <1>3 DEF ConnInv, TypeOK
<1>5. InUse' = InUse /\ Hands' = Hands
  BY <1>1 DEF InUse, Hands
<1>6. OneOwner'
  BY <1>1, <1>5 DEF ConnInv, OneOwner
<1>7. Filled'
  BY <1>1, <1>2, <1>5 DEF ConnInv, TypeOK, Filled
<1> QED
  BY <1>4, <1>6, <1>7 DEF ConnInv

\* The write loop gives its payload back, or ends with it.
LEMMA LoopEndsKeeps ==
    ASSUME ConnInv, LoopPuts \/ LoopFails PROVE ConnInv'
<1> USE NobodyAssumption
<1>1. /\ p' = Nobody /\ loop' \in {"wait", "dead"}
      /\ UNCHANGED <<closed, up, pc, hand, calls, in, buf, opcode, pay, wire>>
      /\ (loop = "put" /\ pool' = pool \cup {p}) \/ pool' = pool
  BY DEF LoopPuts, LoopFails, callVars
<1>2. loop = "put" => p \in Payloads
  BY DEF ConnInv, TypeOK, Filled
<1>3. TypeOK'
  BY <1>1, <1>2 DEF ConnInv, TypeOK
<1>4. InUse' \subseteq InUse \cup {Nobody} /\ Hands' = Hands
  BY <1>1 DEF InUse, Hands
<1>5. Nobody \notin pool' /\ Nobody \notin Range(in) \cup Range(buf)
  <2>1. Range(in) \subseteq Payloads /\ Range(buf) \subseteq Payloads
    BY RangeOfSeq DEF ConnInv, TypeOK
  <2> QED
    BY <1>3, <2>1 DEF TypeOK
<1>6. loop = "put" => p \notin InUse'
  BY <1>1, <1>2 DEF ConnInv, OneOwner, InUse, Hands
<1>7. OneOwner'
  BY <1>1, <1>4, <1>5, <1>6 DEF ConnInv, OneOwner, Hands
<1>8. Filled'
  BY <1>1, <1>4 DEF ConnInv, TypeOK, Filled
<1> QED
  BY <1>3, <1>7, <1>8 DEF ConnInv

LEMMA ConnStep == ConnInv /\ [Next]_vars => ConnInv'
<1> SUFFICES ASSUME ConnInv, [Next]_vars PROVE ConnInv'
  OBVIOUS
<1>1. ASSUME NEW w \in Writers, WriteChecks(w) \/ WriteFills(w) \/ WriteSends(w)
      PROVE  ConnInv'
  BY <1>1, WriteChecksKeeps, WriteFillsKeeps, WriteSendsKeeps
<1>2. CASE Close \/ Disconnect
  BY <1>2, SocketKeeps
<1>3. CASE ProxyTakes \/ ProxyHands
  BY <1>3, ProxyTakesKeeps, ProxyHandsKeeps
<1>4. CASE StartWriteLoop \/ LoopWritesOpcode \/ LoopFlushes \/ LoopPuts \/ LoopFails
  BY <1>4, LoopBeginsKeeps, LoopFlushesKeeps, LoopEndsKeeps
<1>5. CASE UNCHANGED vars
  <2>1. UNCHANGED <<closed, up, pc, hand, calls, in, buf, loop, p, opcode, pool, pay, wire>>
    BY <1>5 DEF vars, callVars, loopVars
  <2> QED
    BY <2>1 DEF ConnInv, TypeOK, OneOwner, Filled, InUse, Hands
<1> QED
  BY <1>1, <1>2, <1>3, <1>4, <1>5 DEF Next

\* Whatever the writers, the proxy and the write loop do at the same time, a
\* payload struct has one owner, and is filled when it is sent from
\* (protocol.go:151-166, 284-381).
THEOREM ConnInvariant == Spec => []ConnInv
  BY ConnInit, ConnStep, PTL DEF Spec
-----------------------------------------------------------------------------
(* The refinement of the message queue *)

Queued == Held \o buf \o in

\* The messages of a queue of payloads that have been filled.
LEMMA ContentsProperties ==
    ASSUME NEW s \in Seq(Payloads), \A o \in Range(s) : pay[o] \in Messages
    PROVE  /\ Contents(s) \in Seq(Messages) /\ Len(Contents(s)) = Len(s)
           /\ \A i \in 1..Len(s) : Contents(s)[i] = pay[s[i]]
<1>1. Len(s) \in Nat /\ DOMAIN s = 1..Len(s)
  BY LenProperties
<1>2. Contents(s) = [i \in 1..Len(s) |-> pay[s[i]]]
  BY <1>1 DEF Contents
<1>3. \A i \in 1..Len(s) : pay[s[i]] \in Messages
  BY <1>1 DEF Range
<1>4. Contents(s) \in [1..Len(s) -> Messages]
  BY <1>2, <1>3
<1>5. Contents(s) \in Seq(Messages)
  BY <1>1, <1>4, SeqDef
<1>6. DOMAIN Contents(s) = 1..Len(s)
  BY <1>2
<1>7. Len(Contents(s)) = Len(s)
  BY <1>1, <1>5, <1>6, LenProperties
<1> QED
  BY <1>2, <1>5, <1>7

LEMMA ContentsAppend ==
    ASSUME NEW s \in Seq(Payloads), \A o \in Range(s) : pay[o] \in Messages,
           NEW o \in Payloads, pay[o] \in Messages
    PROVE  Contents(Append(s, o)) = Append(Contents(s), pay[o])
<1>1. /\ Append(s, o) \in Seq(Payloads) /\ Len(Append(s, o)) = Len(s) + 1
      /\ \A x \in Range(Append(s, o)) : pay[x] \in Messages
  BY AppendRange
<1>2. /\ \A i \in 1..Len(s) : Append(s, o)[i] = s[i]
      /\ Append(s, o)[Len(s) + 1] = o /\ Len(s) \in Nat
  BY AppendProperties, LenProperties
<1> DEFINE l == Contents(Append(s, o))
           r == Append(Contents(s), pay[o])
<1>3. /\ l \in Seq(Messages) /\ Len(l) = Len(s) + 1
      /\ \A i \in 1..(Len(s) + 1) : l[i] = pay[Append(s, o)[i]]
  BY <1>1, ContentsProperties
<1>4. /\ Contents(s) \in Seq(Messages) /\ Len(Contents(s)) = Len(s)
      /\ \A i \in 1..Len(s) : Contents(s)[i] = pay[s[i]]
  BY ContentsProperties
<1>5. /\ r \in Seq(Messages) /\ Len(r) = Len(s) + 1
      /\ \A i \in 1..Len(s) : r[i] = Contents(s)[i]
      /\ r[Len(s) + 1] = pay[o]
  BY <1>4, AppendProperties
<1>6. \A i \in 1..(Len(s) + 1) : l[i] = r[i]
  BY <1>2, <1>3, <1>4, <1>5
<1> QED
  BY <1>3, <1>5, <1>6, SeqEqual

LEMMA ContentsHead ==
    ASSUME NEW s \in Seq(Payloads), \A x \in Range(s) : pay[x] \in Messages,
           NEW o \in Payloads, pay[o] \in Messages
    PROVE  /\ Contents(<<o>> \o s) # <<>>
           /\ Head(Contents(<<o>> \o s)) = pay[o]
           /\ Tail(Contents(<<o>> \o s)) = Contents(s)
<1> DEFINE one == <<o>>
<1>1. one \in Seq(Payloads) /\ Len(one) = 1 /\ one[1] = o /\ Range(one) = {o}
  BY OneElement
<1> HIDE DEF one
<1> DEFINE t == one \o s
<1>2. Range(t) = {o} \cup Range(s)
  BY <1>1, InRange
<1>3. /\ t \in Seq(Payloads) /\ Len(t) = Len(s) + 1 /\ Len(s) \in Nat /\ t[1] = o
      /\ \A i \in 1..Len(s) : i + 1 \in 1..(Len(s) + 1) /\ t[i + 1] = s[i]
  BY <1>1, ConcatProperties, LenProperties, SMTT(30)
<1>10. \A x \in Range(t) : pay[x] \in Messages
  BY <1>1, <1>2
<1>4. /\ Contents(t) \in Seq(Messages) /\ Len(Contents(t)) = Len(s) + 1
      /\ \A i \in 1..(Len(s) + 1) : Contents(t)[i] = pay[t[i]]
  BY <1>3, <1>10, ContentsProperties
<1>5. /\ Contents(s) \in Seq(Messages) /\ Len(Contents(s)) = Len(s)
      /\ \A i \in 1..Len(s) : Contents(s)[i] = pay[s[i]]
  BY ContentsProperties
<1>6. Contents(t) # <<>> /\ Head(Contents(t)) = Contents(t)[1]
  BY <1>3, <1>4, EmptySeq
<1>7. /\ Tail(Contents(t)) \in Seq(Messages) /\ Len(Tail(Contents(t))) = Len(s)
      /\ \A i \in 1..Len(s) : Tail(Contents(t))[i] = Contents(t)[i + 1]
  BY <1>3, <1>4, <1>6, HeadTailProperties
<1>8. ASSUME NEW i \in 1..Len(s) PROVE Tail(Contents(t))[i] = Contents(s)[i]
  <2>1. Tail(Contents(t))[i] = pay[t[i + 1]]
    BY <1>3, <1>4, <1>7
  <2> QED
    BY <2>1, <1>3, <1>5
<1>9. Tail(Contents(t)) = Contents(s)
  BY <1>5, <1>7, <1>8, SeqEqual
<1> QED
  BY <1>3, <1>4, <1>6, <1>9, SMTT(30) DEF one

\* What waits to be sent is made of payloads in use, which have been filled.
LEMMA QueuedFilled ==
    ASSUME ConnInv
    PROVE  /\ Held \in Seq(Payloads) /\ buf \in Seq(Payloads) /\ in \in Seq(Payloads)
           /\ Queued \in Seq(Payloads) /\ Range(Queued) \subseteq InUse \ {Nobody}
           /\ \A o \in Range(Queued) : pay[o] \in Messages
<1>1. in \in Seq(Payloads) /\ buf \in Seq(Payloads)
  BY DEF ConnInv, TypeOK
<1>2. Held \in Seq(Payloads) /\ Range(Held) \subseteq InUse
  <2>1. CASE loop \in {"opcode", "rest"}
    <3>1. p \in Payloads /\ Held = <<p>>
      BY <2>1, NobodyAssumption DEF ConnInv, TypeOK, Filled, Held
    <3>2. Held \in Seq(Payloads) /\ Range(Held) = {p}
      BY <3>1, OneElement
    <3> QED
      BY <3>2 DEF InUse
  <2>2. CASE loop \notin {"opcode", "rest"}
    BY <2>2 DEF Held, Range
  <2> QED
    BY <2>1, <2>2
<1> DEFINE taken == Held \o buf
<1>3. taken \in Seq(Payloads) /\ Range(taken) = Range(Held) \cup Range(buf)
  BY <1>1, <1>2, InRange
<1>4. Queued = taken \o in
  BY DEF Queued
<1> HIDE DEF taken
<1>5. Queued \in Seq(Payloads) /\ Range(Queued) = Range(taken) \cup Range(in)
  BY <1>1, <1>3, <1>4, InRange
<1>6. Range(Queued) \subseteq InUse
  BY <1>2, <1>3, <1>5 DEF InUse
<1>7. Range(Queued) \subseteq Payloads
  BY <1>5, RangeOfSeq
<1>8. Range(Queued) \subseteq InUse \ {Nobody}
  BY <1>6, <1>7, NobodyAssumption
<1> QED
  BY <1>1, <1>2, <1>8, <1>5 DEF ConnInv, Filled

LEMMA PendingIsQueued == Pending = Contents(Queued) /\ Pending' = Contents(Queued)'
  BY DEF Pending, Queued

Mapped == <<Pending, wire, loop = "dead">>

\* Nothing happens to the queue while neither it nor its payloads change.
LEMMA QueueStutters ==
    ASSUME Queued' = Queued, UNCHANGED <<pay, wire>>, (loop' = "dead") <=> (loop = "dead")
    PROVE  UNCHANGED Mapped
<1>1. Pending' = Pending
  BY PendingIsQueued DEF Contents
<1> QED
  BY <1>1 DEF Mapped

\* A payload that is filled is not one that waits to be sent.
LEMMA FillingKeepsQueue ==
    ASSUME ConnInv, NEW w \in Writers, WriteFills(w) PROVE UNCHANGED Mapped
<1>1. PICK o \in pool \cup (Payloads \ InUse) : pay' = [pay EXCEPT ![o] = <<w, calls[w]>>]
  BY DEF WriteFills
<1>2. UNCHANGED <<in, buf, loop, p, wire>>
  BY DEF WriteFills, loopVars
<1>3. o \notin InUse
  BY DEF ConnInv, OneOwner
<1>4. Queued' = Queued
  BY <1>2 DEF Queued, Held
<1>5. \A i \in DOMAIN Queued : Queued[i] \in InUse \ {Nobody} /\ Queued[i] \in Payloads
  BY QueuedFilled, RangeOfSeq DEF Range
<1>6. \A i \in DOMAIN Queued : pay'[Queued[i]] = pay[Queued[i]]
  BY <1>1, <1>3, <1>5 DEF ConnInv, TypeOK
<1>7. Pending' = Pending
  BY <1>4, <1>6, PendingIsQueued DEF Contents
<1> QED
  BY <1>2, <1>7 DEF Mapped

\* A message is accepted when its payload has been sent to the channel.
LEMMA SendingAccepts ==
    ASSUME ConnInv, NEW w \in Writers, WriteSends(w) PROVE Queue!Next
<1>1. /\ pc[w] = "send" /\ in' = Append(in, hand[w])
      /\ UNCHANGED <<buf, loop, p, wire, pay>>
  BY DEF WriteSends, loopVars
<1>2. hand[w] \in Payloads /\ pay[hand[w]] \in Messages
  BY <1>1 DEF ConnInv, TypeOK, Filled, InUse
<1> DEFINE taken == Held \o buf
<1>3. taken \in Seq(Payloads) /\ in \in Seq(Payloads) /\ Queued = taken \o in
  BY QueuedFilled, ConcatProperties DEF Queued
<1>4. Queued' = taken \o Append(in, hand[w])
  BY <1>1 DEF Queued, Held
<1> HIDE DEF taken
<1>5. Queued' = Append(Queued, hand[w])
  BY <1>2, <1>3, <1>4, ConcatAppend
<1>6. Contents(Append(Queued, hand[w])) = Append(Contents(Queued), pay[hand[w]])
  BY <1>2, QueuedFilled, ContentsAppend
<1>7. Contents(Queued)' = Contents(Append(Queued, hand[w]))
  BY <1>1, <1>5 DEF Contents
<1>8. Pending' = Append(Pending, pay[hand[w]])
  BY <1>6, <1>7, PendingIsQueued
<1>9. Queue!Accept(pay[hand[w]])
  BY <1>1, <1>8 DEF Queue!Accept
<1> QED
  BY <1>2, <1>9 DEF Queue!Next

\* The proxy moves payloads without changing their order.
LEMMA ProxyStutters ==
    ASSUME ConnInv, ProxyTakes \/ ProxyHands PROVE UNCHANGED Mapped
<1>1. buf \in Seq(Payloads) /\ in \in Seq(Payloads) /\ Held \in Seq(Payloads)
  BY QueuedFilled
<1>2. CASE ProxyTakes
  <2>1. /\ in # <<>> /\ in' = Tail(in) /\ UNCHANGED <<loop, p, wire, pay>>
        /\ Held' = Held /\ buf' = Append(buf, Head(in))
    BY <1>2 DEF ProxyTakes, loopVars, Held
  <2> DEFINE taken == Held \o buf
  <2>2. taken \in Seq(Payloads) /\ Queued = taken \o in /\ Head(in) \in Payloads
    BY <1>1, <2>1, ConcatProperties, HeadTailProperties DEF Queued
  <2>3. Queued' = (Held \o Append(buf, Head(in))) \o Tail(in)
    BY <2>1 DEF Queued
  <2>4. Held \o Append(buf, Head(in)) = Append(taken, Head(in))
    BY <1>1, <2>2, ConcatAppend
  <2> HIDE DEF taken
  <2>5. Queued' = Queued
    BY <1>1, <2>1, <2>2, <2>3, <2>4, MoveBetween
  <2> QED
    BY <2>1, <2>5, QueueStutters
<1>3. CASE ProxyHands
  <2>1. /\ buf # <<>> /\ buf' = Tail(buf) /\ UNCHANGED <<in, wire, pay>>
        /\ Held = <<>> /\ Held' = <<Head(buf)>> /\ loop = "wait" /\ loop' = "opcode"
    BY <1>3 DEF ProxyHands, Held
  <2>2. Held' \o buf' = buf
    BY <1>1, <2>1, HeadThenTail
  <2>3. Held \o buf = buf
    BY <1>1, <2>1, ConcatEmptySeq
  <2>4. Queued' = Queued
    BY <2>1, <2>2, <2>3 DEF Queued
  <2> QED
    BY <2>1, <2>4, QueueStutters
<1> QED
  BY <1>2, <1>3

\* The write loop is done with the payload it holds, the first that waits.
LEMMA LoopTakesFirst ==
    ASSUME ConnInv, loop \in {"opcode", "rest"}, loop' \notin {"opcode", "rest"},
           UNCHANGED <<in, buf, pay>>
    PROVE  /\ Pending # <<>> /\ Head(Pending) = pay[p] /\ pay[p] \in Messages
           /\ Pending' = Tail(Pending)
<1>1. /\ p \in Payloads /\ pay[p] \in Messages /\ Held = <<p>> /\ Held' = <<>>
      /\ buf \in Seq(Payloads) /\ in \in Seq(Payloads)
  BY DEF ConnInv, TypeOK, Filled, InUse, Held
<1> DEFINE rest == buf \o in
<1>2. rest \in Seq(Payloads) /\ Range(rest) = Range(buf) \cup Range(in)
  BY <1>1, InRange
<1>3. \A o \in Range(rest) : pay[o] \in Messages
  <2>1. Range(rest) \subseteq InUse \ {Nobody}
    BY <1>1, <1>2, RangeOfSeq, NobodyAssumption DEF InUse
  <2> QED
    BY <2>1 DEF ConnInv, Filled
<1>4. <<p>> \in Seq(Payloads)
  BY <1>1, OneElement
<1>5. Queued = <<p>> \o rest
  BY <1>1, <1>4, ConcatAssociative DEF Queued
<1>6. Queued' = rest
  <2>1. Held' \o buf = buf
    BY <1>1, ConcatEmptySeq
  <2> QED
    BY <2>1 DEF Queued
<1> HIDE DEF rest
<1>7. /\ Contents(<<p>> \o rest) # <<>> /\ Head(Contents(<<p>> \o rest)) = pay[p]
      /\ Tail(Contents(<<p>> \o rest)) = Contents(rest)
  BY <1>1, <1>2, <1>3, ContentsHead
<1>8. Contents(Queued)' = Contents(rest)
  BY <1>6 DEF Contents
<1> QED
  BY <1>1, <1>5, <1>7, <1>8, PendingIsQueued

LEMMA FlushingDelivers ==
    ASSUME ConnInv, LoopFlushes PROVE Queue!Next
<1>1. /\ loop = "rest" /\ loop' = "put" /\ UNCHANGED <<in, buf, pay>>
      /\ wire' = Append(wire, [op |-> opcode, rest |-> pay[p]])
  BY DEF LoopFlushes
<1>2. /\ Pending # <<>> /\ Head(Pending) = pay[p] /\ Pending' = Tail(Pending)
  BY <1>1, LoopTakesFirst
<1>3. opcode = pay[p]
  BY <1>1 DEF ConnInv, Filled
<1>4. Queue!Deliver
  BY <1>1, <1>2, <1>3 DEF Queue!Deliver, Queue!Frame
<1> QED
  BY <1>4 DEF Queue!Next

LEMMA FailingBreaks ==
    ASSUME ConnInv, LoopFails PROVE Queue!Next
<1>1. /\ loop \in {"opcode", "rest"} /\ loop' = "dead" /\ UNCHANGED <<in, buf, pay, wire>>
  BY DEF LoopFails
<1>2. Pending # <<>> /\ Pending' = Tail(Pending)
  BY <1>1, LoopTakesFirst
<1>3. Queue!Break
  BY <1>1, <1>2 DEF Queue!Break
<1> QED
  BY <1>3 DEF Queue!Next

LEMMA QueueInit == Init => Queue!Init
<1> SUFFICES ASSUME Init PROVE Queue!Init
  OBVIOUS
<1>1. Held = <<>> /\ buf = <<>> /\ in = <<>> /\ wire = <<>> /\ loop = "off"
  BY DEF Init, Held
<1>2. Queued = <<>>
  BY <1>1 DEF Queued
<1>3. Pending = <<>>
  BY <1>2, PendingIsQueued DEF Contents
<1> QED
  BY <1>1, <1>3 DEF Queue!Init

LEMMA QueueStep == ConnInv /\ [Next]_vars => [Queue!Next]_Mapped
<1> SUFFICES ASSUME ConnInv, [Next]_vars PROVE Queue!Next \/ UNCHANGED Mapped
  OBVIOUS
<1>1. ASSUME NEW w \in Writers, WriteFills(w) \/ WriteSends(w)
      PROVE  Queue!Next \/ UNCHANGED Mapped
  BY <1>1, FillingKeepsQueue, SendingAccepts
<1>2. CASE ProxyTakes \/ ProxyHands
  BY <1>2, ProxyStutters
<1>3. CASE LoopFlushes \/ LoopFails
  BY <1>3, FlushingDelivers, FailingBreaks
<1>4. ASSUME \/ \E w \in Writers : WriteChecks(w)
             \/ Close \/ Disconnect \/ StartWriteLoop \/ LoopWritesOpcode \/ LoopPuts
             \/ UNCHANGED vars
      PROVE  UNCHANGED Mapped
  <2>1. UNCHANGED <<in, buf, pay, wire>> /\ Held' = Held /\ (loop' = "dead") = (loop = "dead")
    BY <1>4 DEF WriteChecks, Close, Disconnect, StartWriteLoop, LoopWritesOpcode, LoopPuts,
                vars, callVars, loopVars, Held
  <2>2. Queued' = Queued
    BY <2>1 DEF Queued
  <2> QED
    BY <2>1, <2>2, QueueStutters
<1> QED
  BY <1>1, <1>2, <1>3, <1>4 DEF Next

\* The connection implements the message queue: what Write accepted leaves in
\* that order, in whole frames, and nothing after a failure (protocol.go:137-381).
THEOREM ConnImplementsQueue == Spec => QueueSpec
<1>1. Spec => []ConnInv
  BY ConnInvariant
<1> QED
  BY <1>1, QueueInit, QueueStep, PTL DEF Spec, QueueSpec, Queue!Spec, Mapped
-----------------------------------------------------------------------------
(* Sequences of units *)

\* Any unit a frame is made of.
LEMMA UnitTypes ==
    ASSUME NEW k \in 1..MaxFrames
    PROVE  /\ \A c \in Class : Unit(k, "op", c) \in UnitType
           /\ \A l \in Length : Unit(k, "dlen", l) \in UnitType /\ Unit(k, "blen", l) \in UnitType
           /\ \A v \in Nat \ {0} : Unit(k, "data", v) \in UnitType /\ Unit(k, "body", v) \in UnitType
  BY DEF Unit, UnitType

\* The bytes of a frame, one by one.
LEMMA BytesElements ==
    ASSUME NEW k \in 1..MaxFrames, NEW kind \in {"data", "body"}, NEW n \in Nat
    PROVE  /\ Bytes(k, kind, n) \in Seq(UnitType) /\ Len(Bytes(k, kind, n)) = n
           /\ \A i \in 1..n : Bytes(k, kind, n)[i] = Unit(k, kind, i)
<1>1. \A i \in 1..n : Unit(k, kind, i) \in UnitType
  BY UnitTypes
<1> QED
  BY <1>1 DEF Bytes

\* There are none before the first.
LEMMA NoBytes ==
    ASSUME NEW k \in 1..MaxFrames, NEW kind \in {"data", "body"}
    PROVE  Bytes(k, kind, 0) = <<>>
<1>1. Bytes(k, kind, 0) \in Seq(UnitType) /\ Len(Bytes(k, kind, 0)) = 0
  BY BytesElements
<1> QED
  BY <1>1, EmptySeq

\* What stands where in two sequences one behind the other.
LEMMA Joined ==
    ASSUME NEW S, NEW s \in Seq(S), NEW t \in Seq(S)
    PROVE  /\ s \o t \in Seq(S) /\ Len(s \o t) = Len(s) + Len(t)
           /\ \A i \in 1..Len(s) : (s \o t)[i] = s[i]
           /\ \A i \in 1..Len(t) : (s \o t)[Len(s) + i] = t[i]
<1>1. Len(s) \in Nat /\ Len(t) \in Nat
  BY LenProperties
<1>2. /\ s \o t \in Seq(S) /\ Len(s \o t) = Len(s) + Len(t)
      /\ \A i \in 1 .. Len(s) + Len(t) : (s \o t)[i] = IF i <= Len(s) THEN s[i] ELSE t[i - Len(s)]
  BY ConcatProperties
<1>3. \A i \in 1..Len(s) : i \in 1..(Len(s) + Len(t)) /\ i <= Len(s)
  BY <1>1
<1>4. \A i \in 1..Len(t) : /\ Len(s) + i \in 1..(Len(s) + Len(t)) /\ ~(Len(s) + i <= Len(s))
                           /\ (Len(s) + i) - Len(s) = i
  BY <1>1
<1> QED
  BY <1>1, <1>2, <1>3, <1>4

\* Bytes read one after the other make a longer piece.
LEMMA MoreBytes ==
    ASSUME NEW k \in 1..MaxFrames, NEW kind \in {"data", "body"}, NEW m \in Nat,
           NEW s \in Seq(UnitType), \A i \in 1..Len(s) : s[i] = Unit(k, kind, m + i)
    PROVE  Bytes(k, kind, m) \o s = Bytes(k, kind, m + Len(s))
<1> DEFINE a == Bytes(k, kind, m)
           b == Bytes(k, kind, m + Len(s))
<1>1. Len(s) \in Nat
  BY LenProperties
<1>2. /\ a \in Seq(UnitType) /\ Len(a) = m /\ \A i \in 1..m : a[i] = Unit(k, kind, i)
      /\ b \in Seq(UnitType) /\ Len(b) = m + Len(s)
      /\ \A i \in 1..(m + Len(s)) : b[i] = Unit(k, kind, i)
  <2> HIDE DEF a, b
  <2>1. m + Len(s) \in Nat
    BY <1>1
  <2>2. \A n \in Nat :
          /\ Bytes(k, kind, n) \in Seq(UnitType) /\ Len(Bytes(k, kind, n)) = n
          /\ \A i \in 1..n : Bytes(k, kind, n)[i] = Unit(k, kind, i)
    BY BytesElements
  <2> QED
    BY <2>1, <2>2 DEF a, b
<1> HIDE DEF a, b
<1>3. /\ a \o s \in Seq(UnitType) /\ Len(a \o s) = m + Len(s)
      /\ \A i \in 1..(m + Len(s)) : (a \o s)[i] = IF i <= m THEN a[i] ELSE s[i - m]
  BY <1>2, ConcatProperties
<1>4. \A i \in 1..(m + Len(s)) : (a \o s)[i] = b[i]
  <2> SUFFICES ASSUME NEW i \in 1..(m + Len(s)) PROVE (a \o s)[i] = b[i]
    OBVIOUS
  <2>1. CASE i <= m
    BY <1>1, <1>2, <1>3, <2>1
  <2>2. CASE ~(i <= m)
    <3>1. i - m \in 1..Len(s) /\ m + (i - m) = i
      BY <1>1, <2>2
    <3> QED
      BY <1>2, <1>3, <2>2, <3>1
  <2> QED
    BY <2>1, <2>2
<1>5. a \o s = b
  BY <1>2, <1>3, <1>4, SeqEqual
<1> QED
  BY <1>5 DEF a, b

\* What is left of a sequence after its first n elements, and those elements.
LEMMA Rest ==
    ASSUME NEW S, NEW s \in Seq(S), NEW n \in 0..Len(s)
    PROVE  /\ SubSeq(s, n + 1, Len(s)) \in Seq(S) /\ Len(SubSeq(s, n + 1, Len(s))) = Len(s) - n
           /\ \A i \in 1..(Len(s) - n) : SubSeq(s, n + 1, Len(s))[i] = s[n + i]
           /\ SubSeq(s, 1, n) \in Seq(S) /\ Len(SubSeq(s, 1, n)) = n
           /\ \A i \in 1..n : SubSeq(s, 1, n)[i] = s[i]
<1>1. Len(s) \in Nat /\ n \in Nat /\ \A i \in 1..Len(s) : s[i] \in S
  BY LenProperties, ElementOfSeq
<1>2. \A i \in (n + 1)..Len(s) : s[i] \in S
  BY <1>1
<1>3. \A i \in 1..n : s[i] \in S
  BY <1>1
<1>4. /\ SubSeq(s, n + 1, Len(s)) \in Seq(S)
      /\ Len(SubSeq(s, n + 1, Len(s))) = Len(s) - n
      /\ \A i \in 1..(Len(s) - n) : SubSeq(s, n + 1, Len(s))[i] = s[n + i]
  <2>1. /\ SubSeq(s, n + 1, Len(s)) \in Seq(S)
        /\ Len(SubSeq(s, n + 1, Len(s))) = IF n + 1 <= Len(s) THEN Len(s) - (n + 1) + 1 ELSE 0
        /\ \A i \in 1..(Len(s) - (n + 1) + 1) : SubSeq(s, n + 1, Len(s))[i] = s[(n + 1) + i - 1]
    <3>1. n + 1 \in Int /\ Len(s) \in Int
      BY <1>1
    <3> QED
      BY <1>2, <3>1, SubSeqProperties
  <2>2. Len(s) - (n + 1) + 1 = Len(s) - n /\ \A i \in Int : (n + 1) + i - 1 = n + i
    BY <1>1
  <2>3. (IF n + 1 <= Len(s) THEN Len(s) - (n + 1) + 1 ELSE 0) = Len(s) - n
    BY <1>1
  <2> DEFINE r == SubSeq(s, n + 1, Len(s))
             m == Len(s) - (n + 1) + 1
  <2>4. r \in Seq(S) /\ Len(r) = Len(s) - n /\ \A i \in 1..m : r[i] = s[(n + 1) + i - 1]
    BY <2>1, <2>3
  <2>5. m = Len(s) - n
    BY <2>2
  <2> HIDE DEF r, m
  <2>6. \A i \in 1..(Len(s) - n) : r[i] = s[n + i]
    <3>1. 1..m = 1..(Len(s) - n) /\ \A i \in 1..(Len(s) - n) : i \in Int
      BY <1>1, <2>5
    <3>2. \A i \in 1..(Len(s) - n) : r[i] = s[(n + 1) + i - 1]
      BY <2>4, <3>1, Zenon
    <3> QED
      BY <2>2, <3>1, <3>2, Zenon
  <2> QED
    BY <2>4, <2>6 DEF r
<1>5. /\ SubSeq(s, 1, n) \in Seq(S) /\ Len(SubSeq(s, 1, n)) = n
      /\ \A i \in 1..n : SubSeq(s, 1, n)[i] = s[i]
  <2>1. /\ SubSeq(s, 1, n) \in Seq(S) /\ Len(SubSeq(s, 1, n)) = IF 1 <= n THEN n - 1 + 1 ELSE 0
        /\ \A i \in 1..(n - 1 + 1) : SubSeq(s, 1, n)[i] = s[1 + i - 1]
    BY <1>1, <1>3, SubSeqProperties
  <2>2. n - 1 + 1 = n /\ (IF 1 <= n THEN n - 1 + 1 ELSE 0) = n /\ \A i \in Int : 1 + i - 1 = i
    BY <1>1
  <2> QED
    BY <2>1, <2>2
<1> QED
  BY <1>4, <1>5

\* A prefix, and a prefix of a longer sequence.
LEMMA PrefixOfConcat ==
    ASSUME NEW S, NEW s \in Seq(S), NEW t \in Seq(S), NEW u \in Seq(S), u = s \o t
    PROVE  IsPrefix(s, u)
<1>1. Len(s) \in Nat /\ Len(t) \in Nat
  BY LenProperties
<1>2. /\ Len(u) = Len(s) + Len(t)
      /\ \A i \in 1..(Len(s) + Len(t)) : u[i] = IF i <= Len(s) THEN s[i] ELSE t[i - Len(s)]
  BY ConcatProperties
<1>3. Len(s) \in 0..Len(s) /\ Len(s) \in 0..Len(u)
  BY <1>1, <1>2
<1>4. /\ SubSeq(s, 1, Len(s)) \in Seq(S) /\ Len(SubSeq(s, 1, Len(s))) = Len(s)
      /\ \A i \in 1..Len(s) : SubSeq(s, 1, Len(s))[i] = s[i]
  BY <1>3, Rest
<1>5. /\ SubSeq(u, 1, Len(s)) \in Seq(S) /\ Len(SubSeq(u, 1, Len(s))) = Len(s)
      /\ \A i \in 1..Len(s) : SubSeq(u, 1, Len(s))[i] = u[i]
  BY <1>3, Rest
<1>6. \A i \in 1..Len(s) : u[i] = s[i]
  BY <1>1, <1>2
<1>7. SubSeq(s, 1, Len(s)) = SubSeq(u, 1, Len(s))
  BY <1>4, <1>5, <1>6, SeqEqual
<1> QED
  BY <1>1, <1>2, <1>7 DEF IsPrefix
-----------------------------------------------------------------------------
(* Frames *)

\* The lengths of a frame and the number of its units.
LEMMA Frames ==
    ASSUME NEW f \in FrameType
    PROVE  /\ f.op \in Class /\ f.data \in Length /\ f.body \in Length
           /\ f.data \in Nat /\ f.body \in Nat /\ Size(f) \in Nat \ {0}
           /\ f.op = "bare" => f.data = 0 /\ f.body = 0 /\ Size(f) = 1
           /\ f.op = "data" => f.body = 0 /\ Size(f) = 2 + f.data
           /\ f.op = "full" => Size(f) = 3 + f.data + f.body
           /\ f.op # "full" => f.body = 0
<1>1. /\ f.op \in Class /\ f.data \in Length /\ f.body \in Length
      /\ f.op = "bare" => f.data = 0 /\ f.body = 0
      /\ f.op = "data" => f.body = 0
  BY BoundAssumption DEF FrameType, Class
<1>2. f.data \in Nat /\ f.body \in Nat
  BY <1>1, BoundAssumption
<1> QED
  BY <1>1, <1>2 DEF Size, Class

\* The units of a frame on the wire.
LEMMA UnitsElements ==
    ASSUME NEW f \in FrameType, NEW k \in 1..MaxFrames
    PROVE  /\ Units(f, k) \in Seq(UnitType) /\ Len(Units(f, k)) = Size(f)
           /\ Units(f, k)[1] = Unit(k, "op", f.op)
           /\ f.op # "bare" =>
                /\ Units(f, k)[2] = Unit(k, "dlen", f.data)
                /\ \A v \in 1..f.data : Units(f, k)[2 + v] = Unit(k, "data", v)
           /\ f.op = "full" =>
                /\ Units(f, k)[3 + f.data] = Unit(k, "blen", f.body)
                /\ \A v \in 1..f.body : Units(f, k)[3 + f.data + v] = Unit(k, "body", v)
<1> DEFINE o == <<Unit(k, "op", f.op)>>
           d == Bytes(k, "data", f.data)
           b == Bytes(k, "body", f.body)
           dl == <<Unit(k, "dlen", f.data)>>
           bl == <<Unit(k, "blen", f.body)>>
<1>1. /\ f.data \in Nat /\ f.body \in Nat /\ f.op \in Class /\ f.data \in Length
      /\ f.body \in Length
      /\ f.op = "bare" => Size(f) = 1
      /\ f.op = "data" => Size(f) = 2 + f.data
      /\ f.op = "full" => Size(f) = 3 + f.data + f.body
  BY Frames
<1>2. /\ o \in Seq(UnitType) /\ Len(o) = 1 /\ o[1] = Unit(k, "op", f.op)
      /\ dl \in Seq(UnitType) /\ Len(dl) = 1 /\ dl[1] = Unit(k, "dlen", f.data)
      /\ bl \in Seq(UnitType) /\ Len(bl) = 1 /\ bl[1] = Unit(k, "blen", f.body)
  BY <1>1, UnitTypes
<1>3. /\ d \in Seq(UnitType) /\ Len(d) = f.data /\ \A v \in 1..f.data : d[v] = Unit(k, "data", v)
      /\ b \in Seq(UnitType) /\ Len(b) = f.body /\ \A v \in 1..f.body : b[v] = Unit(k, "body", v)
  BY <1>1, BytesElements
<1>4. Units(f, k) = (o \o (IF f.op = "bare" THEN <<>> ELSE dl \o d))
                       \o (IF f.op # "full" THEN <<>> ELSE bl \o b)
  BY DEF Units
<1> HIDE DEF o, d, b, dl, bl
<1> DEFINE pos == dl \o d
           q == bl \o b
           x == o \o pos
<1>5. /\ pos \in Seq(UnitType) /\ Len(pos) = 1 + f.data
      /\ pos[1] = Unit(k, "dlen", f.data) /\ \A v \in 1..f.data : pos[1 + v] = Unit(k, "data", v)
  <2>1. /\ pos \in Seq(UnitType) /\ Len(pos) = Len(dl) + Len(d)
        /\ \A i \in 1..Len(dl) : pos[i] = dl[i]
        /\ \A i \in 1..Len(d) : pos[Len(dl) + i] = d[i]
    <3>1. dl \in Seq(UnitType) /\ d \in Seq(UnitType)
      BY <1>2, <1>3
    <3> QED
      BY <3>1, Joined
  <2> QED
    BY <1>2, <1>3, <2>1
<1>6. /\ q \in Seq(UnitType) /\ Len(q) = 1 + f.body
      /\ q[1] = Unit(k, "blen", f.body) /\ \A v \in 1..f.body : q[1 + v] = Unit(k, "body", v)
  <2>1. /\ q \in Seq(UnitType) /\ Len(q) = Len(bl) + Len(b)
        /\ \A i \in 1..Len(bl) : q[i] = bl[i]
        /\ \A i \in 1..Len(b) : q[Len(bl) + i] = b[i]
    <3>1. bl \in Seq(UnitType) /\ b \in Seq(UnitType)
      BY <1>2, <1>3
    <3> QED
      BY <3>1, Joined
  <2> QED
    BY <1>2, <1>3, <2>1
<1> HIDE DEF pos, q
<1>9. /\ x \in Seq(UnitType) /\ Len(x) = 2 + f.data /\ x[1] = Unit(k, "op", f.op)
      /\ x[2] = Unit(k, "dlen", f.data)
      /\ \A v \in 1..f.data : x[2 + v] = Unit(k, "data", v)
  <2>0. /\ x \in Seq(UnitType) /\ Len(x) = Len(o) + Len(pos)
        /\ \A i \in 1..Len(o) : x[i] = o[i]
        /\ \A i \in 1..Len(pos) : x[Len(o) + i] = pos[i]
    <3>1. o \in Seq(UnitType) /\ pos \in Seq(UnitType)
      BY <1>2, <1>5
    <3> QED
      BY <3>1, Joined
  <2>1. /\ x \in Seq(UnitType) /\ Len(x) = 1 + (1 + f.data)
        /\ \A i \in 1..1 : x[i] = o[i]
        /\ \A i \in 1..(1 + f.data) : x[1 + i] = pos[i]
    BY <1>2, <1>5, <2>0
  <2>2. /\ 1 + (1 + f.data) = 2 + f.data /\ 1 + 1 = 2
        /\ 1 \in 1..1 /\ 1 \in 1..(1 + f.data)
        /\ \A v \in 1..f.data : 1 + v \in 1..(1 + f.data) /\ 1 + (1 + v) = 2 + v
    BY <1>1
  <2>3. x[1] = o[1] /\ x[2] = pos[1] /\ \A v \in 1..f.data : x[2 + v] = pos[1 + v]
    BY <2>1, <2>2
  <2> QED
    BY <1>2, <1>5, <2>1, <2>2, <2>3
<1> HIDE DEF x
<1>10. CASE f.op = "bare"
  <2>1. Units(f, k) = o
    BY <1>2, <1>4, <1>10, ConcatEmptySeq
  <2> QED
    BY <1>1, <1>2, <1>10, <2>1
<1>11. CASE f.op = "data"
  <2>1. Units(f, k) = x
    BY <1>4, <1>9, <1>11, ConcatEmptySeq DEF pos, x
  <2> QED
    BY <1>1, <1>9, <1>11, <2>1
<1>12. CASE f.op = "full"
  <2>1. Units(f, k) = x \o q
    BY <1>4, <1>12 DEF pos, q, x
  <2> DEFINE y == x \o q
  <2>9. /\ y \in Seq(UnitType) /\ Len(y) = Len(x) + Len(q)
        /\ \A i \in 1..Len(x) : y[i] = x[i]
        /\ \A i \in 1..Len(q) : y[Len(x) + i] = q[i]
    <3>1. x \in Seq(UnitType) /\ q \in Seq(UnitType)
      BY <1>6, <1>9
    <3> QED
      BY <3>1, Joined
  <2>2. /\ y \in Seq(UnitType) /\ Len(y) = (2 + f.data) + (1 + f.body)
        /\ \A i \in 1..(2 + f.data) : y[i] = x[i]
        /\ \A i \in 1..(1 + f.body) : y[(2 + f.data) + i] = q[i]
    BY <1>6, <1>9, <2>9
  <2> HIDE DEF y
  <2>3. /\ (2 + f.data) + (1 + f.body) = 3 + f.data + f.body /\ (2 + f.data) + 1 = 3 + f.data
        /\ 1 \in 1..(2 + f.data) /\ 2 \in 1..(2 + f.data) /\ 1 \in 1..(1 + f.body)
        /\ \A v \in 1..f.data : 2 + v \in 1..(2 + f.data)
        /\ \A v \in 1..f.body : 1 + v \in 1..(1 + f.body)
                                 /\ (2 + f.data) + (1 + v) = 3 + f.data + v
    BY <1>1
  <2>4. y[1] = x[1] /\ y[2] = x[2] /\ y[3 + f.data] = q[1]
    BY <2>2, <2>3
  <2>5. \A v \in 1..f.data : y[2 + v] = x[2 + v]
    BY <2>2, <2>3
  <2>6. \A v \in 1..f.body : y[3 + f.data + v] = q[1 + v]
    BY <2>2, <2>3
  <2>7. Units(f, k) = y
    BY <2>1 DEF y
  <2> QED
    BY <1>1, <1>6, <1>9, <1>12, <2>2, <2>3, <2>4, <2>5, <2>6, <2>7
<1> QED
  BY <1>1, <1>10, <1>11, <1>12 DEF Class
-----------------------------------------------------------------------------
(* The stream *)

\* What the stream is made of.
StreamTypes ==
    /\ frames \in Seq(FrameType) /\ Len(frames) <= MaxFrames
    /\ stream \in Seq(UnitType) /\ eof \in BOOLEAN

\* The frames there are, and their lengths.
LEMMA FrameNumbers ==
    ASSUME StreamTypes
    PROVE  /\ Len(frames) \in Nat /\ Len(stream) \in Nat
           /\ DOMAIN frames = 1..Len(frames) /\ DOMAIN stream = 1..Len(stream)
           /\ \A k \in 1..Len(frames) :
                frames[k] \in FrameType /\ k \in 1..MaxFrames /\ Size(frames[k]) \in Nat \ {0}
<1>1. /\ Len(frames) \in Nat /\ Len(stream) \in Nat
      /\ DOMAIN frames = 1..Len(frames) /\ DOMAIN stream = 1..Len(stream)
      /\ \A k \in 1..Len(frames) : frames[k] \in FrameType
  BY LenProperties, ElementOfSeq DEF StreamTypes
<1>2. \A k \in 1..Len(frames) : k \in 1..MaxFrames
  BY <1>1, BoundAssumption DEF StreamTypes
<1>3. \A f \in FrameType : Size(f) \in Nat \ {0}
  BY Frames DEF Class
<1> QED
  BY <1>1, <1>2, <1>3

\* A unit of a frame says which one it is.
LEMMA PlaceOfUnit ==
    ASSUME NEW f \in FrameType, NEW k \in 1..MaxFrames, NEW j \in 1..Size(f)
    PROVE  LET u == Units(f, k)[j] IN u.frame = k /\ PlaceIn(f, u) = j
<1> DEFINE u == Units(f, k)[j]
<1>2. /\ f.op \in Class /\ f.data \in Nat /\ f.body \in Nat
      /\ f.op = "bare" => Size(f) = 1
      /\ f.op = "data" => Size(f) = 2 + f.data
      /\ f.op = "full" => Size(f) = 3 + f.data + f.body
  BY Frames
<1>3. /\ Units(f, k)[1] = Unit(k, "op", f.op)
      /\ f.op # "bare" =>
           /\ Units(f, k)[2] = Unit(k, "dlen", f.data)
           /\ \A v \in 1..f.data : Units(f, k)[2 + v] = Unit(k, "data", v)
      /\ f.op = "full" =>
           /\ Units(f, k)[3 + f.data] = Unit(k, "blen", f.body)
           /\ \A v \in 1..f.body : Units(f, k)[3 + f.data + v] = Unit(k, "body", v)
  BY UnitsElements
<1>4. /\ \A v : /\ Unit(k, "op", v).frame = k /\ PlaceIn(f, Unit(k, "op", v)) = 1
                /\ Unit(k, "dlen", v).frame = k /\ PlaceIn(f, Unit(k, "dlen", v)) = 2
                /\ Unit(k, "data", v).frame = k /\ PlaceIn(f, Unit(k, "data", v)) = 2 + v
                /\ Unit(k, "blen", v).frame = k /\ PlaceIn(f, Unit(k, "blen", v)) = 3 + f.data
                /\ Unit(k, "body", v).frame = k /\ PlaceIn(f, Unit(k, "body", v)) = 3 + f.data + v
  BY DEF Unit, PlaceIn
<1>5. j \in 1..Size(f)
  OBVIOUS
<1>6. u.frame = k /\ PlaceIn(f, u) = j
  <2>1. CASE j = 1
    BY <1>3, <1>4, <2>1
  <2>2. CASE j = 2
    <3>1. f.op # "bare"
      BY <1>2, <1>5, <2>2
    <3> QED
      BY <1>3, <1>4, <2>2, <3>1
  <2>3. CASE 2 < j /\ j <= 2 + f.data
    <3>1. f.op # "bare" /\ j - 2 \in 1..f.data /\ 2 + (j - 2) = j
      BY <1>2, <1>5, <2>3
    <3> DEFINE v == j - 2
    <3>2. v \in 1..f.data /\ 2 + v = j
      BY <3>1
    <3> HIDE DEF v
    <3>3. u = Unit(k, "data", v)
      BY <1>3, <3>1, <3>2
    <3> QED
      BY <1>4, <3>2, <3>3
  <2>4. CASE j = 3 + f.data
    <3>1. f.op = "full"
      BY <1>2, <1>5, <2>4 DEF Class
    <3>2. u = Unit(k, "blen", f.body)
      BY <1>3, <2>4, <3>1
    <3> QED
      BY <1>4, <2>4, <3>2
  <2>5. CASE 3 + f.data < j
    <3> DEFINE v == j - (3 + f.data)
    <3>1. f.op = "full"
      BY <1>2, <1>5, <2>5 DEF Class
    <3>2. v \in 1..f.body /\ 3 + f.data + v = j
      BY <1>2, <1>5, <2>5, <3>1
    <3> HIDE DEF v
    <3>3. u = Unit(k, "body", v)
      BY <1>3, <3>1, <3>2
    <3> QED
      BY <1>4, <3>2, <3>3
  <2> QED
    <3>1. j \in Nat /\ 1 <= j /\ f.data \in Nat
      BY <1>2, <1>5
    <3>2. j = 1 \/ j = 2 \/ (2 < j /\ j <= 2 + f.data) \/ j = 3 + f.data \/ 3 + f.data < j
      BY <3>1
    <3> QED
      BY <2>1, <2>2, <2>3, <2>4, <2>5, <3>2
<1> QED
  BY <1>6

\* What the stream is a piece of depends on the frames and on itself alone.
LEMMA WholeStays ==
    ASSUME WholeFrames, UNCHANGED <<frames, eof, stream>>
    PROVE  WholeFrames'
<1>1. \A u : Place(u)' = Place(u)
  BY DEF Place
<1>2. \A u : Framed(u)' = Framed(u)
  BY <1>1 DEF Framed
<1>3. \A i : InFrame(i)' = InFrame(i)
  BY <1>1, <1>2 DEF InFrame
<1> QED
  BY <1>1, <1>3 DEF WholeFrames

\* Reading from the front of the stream leaves a piece of the frames.
LEMMA WholeAfterRead ==
    ASSUME StreamTypes, WholeFrames, NEW n \in 0..Len(stream), UNCHANGED <<frames, eof>>,
           stream' \in Seq(UnitType), Len(stream') = Len(stream) - n,
           \A i \in 1..(Len(stream) - n) : stream'[i] = stream[n + i]
    PROVE  WholeFrames'
<1>1. /\ Len(frames) \in Nat /\ Len(stream) \in Nat /\ n \in Nat
      /\ DOMAIN stream = 1..Len(stream)
  BY FrameNumbers
<1>2. /\ stream' \in Seq(UnitType) /\ Len(stream') = Len(stream) - n
      /\ \A i \in 1..(Len(stream) - n) : stream'[i] = stream[n + i]
  OBVIOUS
<1>3. DOMAIN stream' = 1..(Len(stream) - n)
  BY <1>2, LenProperties
<1>4. \A u : Place(u)' = Place(u) /\ (Framed(u)' <=> Framed(u))
  BY DEF Place, Framed
<1>5. ASSUME NEW i \in 1..(Len(stream) - n) PROVE InFrame(i)'
  <2> DEFINE q == n + i
             w == stream[q]
             k == w.frame
             before == q - Place(w)
             small == i - Place(w)
  <2>1. q \in 1..Len(stream) /\ q = n + i /\ i \in Int /\ q \in Int
    BY <1>1
  <2> HIDE DEF q
  <2>2. stream'[i] = w /\ InFrame(q)
    BY <1>1, <1>2, <2>1 DEF WholeFrames
  <2>3. /\ Framed(w)
        /\ \A j \in 1..Size(frames[k]) :
             before + j \in DOMAIN stream => stream[before + j] = Units(frames[k], k)[j]
        /\ before + Size(frames[k]) + 1 \in DOMAIN stream =>
             stream[before + Size(frames[k]) + 1] = Unit(k + 1, "op", frames[k + 1].op)
    BY <2>2 DEF InFrame
  <2>4. Place(w) \in Int /\ Size(frames[k]) \in Int
    <3>1. k \in 1..Len(frames) /\ Place(w) \in 1..Size(frames[k])
      BY <2>3 DEF Framed
    <3>2. Size(frames[k]) \in Nat
      BY <3>1, FrameNumbers
    <3> QED
      BY <3>1, <3>2
  <2> HIDE DEF w, k
  <2>5. before \in Int /\ small \in Int /\ before = n + small
    BY <1>1, <2>1, <2>4, SMTT(30)
  <2>9. small = i - Place(w)
    OBVIOUS
  <2> HIDE DEF before, small
  <2>6. ASSUME NEW x \in Int, small + x \in 1..(Len(stream) - n)
        PROVE  before + x \in 1..Len(stream) /\ stream'[small + x] = stream[before + x]
    <3> DEFINE y == small + x
    <3>1. n + y = before + x /\ n + y \in 1..Len(stream) /\ y \in 1..(Len(stream) - n)
      BY <1>1, <2>5, <2>6
    <3> HIDE DEF y
    <3>2. stream'[y] = stream[before + x]
      BY <1>2, <3>1
    <3> QED
      BY <3>1, <3>2 DEF y
  <2>7. ASSUME NEW j \in 1..Size(frames[k]), small + j \in 1..(Len(stream) - n)
        PROVE  stream'[small + j] = Units(frames[k], k)[j]
    <3>1. j \in Int
      BY <2>4
    <3>2. before + j \in DOMAIN stream /\ stream'[small + j] = stream[before + j]
      BY <1>1, <2>6, <2>7, <3>1
    <3> QED
      BY <2>3, <3>2
  <2>8. ASSUME small + Size(frames[k]) + 1 \in 1..(Len(stream) - n)
        PROVE  stream'[small + Size(frames[k]) + 1] = Unit(k + 1, "op", frames[k + 1].op)
    <3> DEFINE x == Size(frames[k]) + 1
    <3>1. Size(frames[k]) \in Int
      BY <2>4
    <3>2. small \in Int /\ before \in Int
      BY <2>5
    <3>3. small + Size(frames[k]) + 1 = small + x
      BY <3>1, <3>2
    <3>4. before + Size(frames[k]) + 1 = before + x
      BY <3>1, <3>2
    <3>5. x \in Int
      BY <3>1
    <3>6. small + x \in 1..(Len(stream) - n)
      BY <2>8, <3>3
    <3> HIDE DEF x
    <3>7. before + x \in DOMAIN stream /\ stream'[small + x] = stream[before + x]
      BY <1>1, <2>6, <3>5, <3>6
    <3>8. stream[before + x] = Unit(k + 1, "op", frames[k + 1].op)
      BY <2>3, <3>4, <3>7
    <3> QED
      BY <3>3, <3>7, <3>8
  <2>10. k = stream'[i].frame
    BY <2>2 DEF k
  <2>11. Place(stream[i])' = Place(w)
    BY <2>2 DEF Place
  <2>12. Framed(stream[i])'
    BY <2>2, <2>3, <2>11 DEF Framed
  <2>13. small = i - Place(stream[i])'
    BY <2>9, <2>11
  <2>14. small = (i - Place(stream[i]))'
    BY <2>13
  <2> QED
    BY <1>3, <2>7, <2>8, <2>10, <2>12, <2>14 DEF InFrame
<1>6. ASSUME ~eof', stream' # <<>>
      PROVE  /\ stream'[Len(stream')].frame = Len(frames)
             /\ Place(stream'[Len(stream')]) = Size(frames[Len(frames)])
  <2>1. Len(stream) - n \in Nat \ {0}
    <3>1. Len(stream') \in Nat \ {0}
      BY <1>2, <1>6, EmptySeq
    <3> QED
      BY <1>2, <3>1
  <2>2. /\ stream'[Len(stream')] = stream[n + (Len(stream) - n)]
        /\ n + (Len(stream) - n) = Len(stream) /\ Len(stream) # 0
    <3> DEFINE m == Len(stream) - n
    <3>4. m \in Nat \ {0}
      BY <2>1
    <3>5. n + m = Len(stream) /\ Len(stream) # 0
      BY <1>1, <3>4
    <3> HIDE DEF m
    <3>6. m \in 1..m
      BY <3>4
    <3>1. m \in 1..m /\ n + m = Len(stream) /\ Len(stream) # 0
      BY <3>5, <3>6, Zenon
    <3>2. Len(stream') = m /\ stream'[m] = stream[n + m]
      BY <1>2, <3>1 DEF m
    <3> QED
      BY <3>1, <3>2 DEF m
  <2>3. stream # <<>>
    BY <2>2, EmptySeq
  <2> QED
    BY <1>6, <2>2, <2>3 DEF WholeFrames
<1>7. \A i \in DOMAIN stream' : InFrame(i)'
  BY <1>3, <1>5
<1>8. WholeFrames'
  <2>1. Place(stream[Len(stream)])' = Place(stream'[Len(stream')])
    BY DEF Place
  <2> QED
    BY <1>6, <1>7, <2>1 DEF WholeFrames
<1> QED
  BY <1>8

\* So does cutting it off.
LEMMA WholeAfterEnd ==
    ASSUME StreamTypes, WholeFrames, NEW n \in 0..Len(stream), frames' = frames, eof',
           stream' \in Seq(UnitType), Len(stream') = n,
           \A i \in 1..n : stream'[i] = stream[i]
    PROVE  WholeFrames'
<1>1. /\ Len(stream) \in Nat /\ n \in Nat
      /\ DOMAIN stream = 1..Len(stream) /\ DOMAIN stream' = 1..n
      /\ 1..n \subseteq 1..Len(stream)
  BY FrameNumbers, LenProperties
<1>2. ASSUME NEW i \in 1..n PROVE InFrame(i)'
  <2>1. InFrame(i) /\ stream'[i] = stream[i]
    BY <1>1 DEF WholeFrames
  <2>2. Place(stream[i])' = Place(stream[i])
    BY <2>1 DEF Place
  <2>3. Framed(stream[i]) => Framed(stream[i])'
    BY <2>1, <2>2 DEF Framed
  <2>4. \A x \in DOMAIN stream' : x \in DOMAIN stream /\ stream'[x] = stream[x]
    BY <1>1
  <2> QED
    BY <2>1, <2>2, <2>3, <2>4 DEF InFrame
<1> QED
  BY <1>1, <1>2 DEF WholeFrames

\* What follows a unit: the rest of its frame, and the opcode of the next.  While the
\* connection is there, the rest of the frame is in the stream.
LEMMA Ahead ==
    ASSUME StreamTypes, WholeFrames, NEW i \in 1..Len(stream)
    PROVE  LET k == stream[i].frame
               pos == Place(stream[i])
               N == Size(frames[k])
           IN  /\ k \in 1..Len(frames) /\ pos \in 1..N
               /\ \A d \in 0..(Len(stream) - i) :
                    /\ pos + d <= N =>
                         /\ stream[i + d] = Units(frames[k], k)[pos + d]
                         /\ stream[i + d].frame = k /\ Place(stream[i + d]) = pos + d
                    /\ pos + d = N + 1 =>
                         stream[i + d].frame = k + 1 /\ Place(stream[i + d]) = 1
               /\ ~eof => N - pos <= Len(stream) - i
               /\ ~eof /\ N - pos = Len(stream) - i => k = Len(frames)
<1> DEFINE k == stream[i].frame
           pos == Place(stream[i])
           N == Size(frames[k])
           L == Len(stream)
<1>1. L \in Nat /\ DOMAIN stream = 1..L /\ Len(frames) \in Nat /\ i \in Nat /\ 1 <= i /\ i <= L
  BY FrameNumbers
<1>2. InFrame(i)
  BY <1>1 DEF WholeFrames
<1>3. Framed(stream[i])
  BY <1>2 DEF InFrame
<1>4. k \in 1..Len(frames) /\ pos \in 1..N
  BY <1>3 DEF Framed
<1>5. N \in Nat \ {0} /\ k \in Nat
  BY <1>1, <1>4, FrameNumbers
<1>6. /\ \A j \in 1..N : (i - pos) + j \in 1..L => stream[(i - pos) + j] = Units(frames[k], k)[j]
      /\ (i - pos) + N + 1 \in 1..L => stream[(i - pos) + N + 1] = Unit(k + 1, "op", frames[k + 1].op)
  BY <1>1, <1>2 DEF InFrame
<1>10. k = stream[i].frame
  OBVIOUS
<1> HIDE DEF N, L, pos, k
<1>11. pos \in Int /\ 1 <= pos /\ pos <= N
  BY <1>4, <1>5
<1>7. ASSUME NEW d \in 0..(L - i), pos + d <= N
      PROVE  /\ stream[i + d] = Units(frames[k], k)[pos + d]
             /\ stream[i + d].frame = k /\ Place(stream[i + d]) = pos + d
  <2> DEFINE j == pos + d
  <2>4. L \in Int /\ N \in Int /\ pos \in Int /\ 1 <= pos /\ d \in Int /\ 0 <= d /\ d <= L - i
        /\ i \in Int /\ 1 <= i
    BY <1>1, <1>5, <1>11
  <2>1. j \in 1..N /\ (i - pos) + j = i + d /\ i + d \in 1..L
    <3>1. j \in 1..N
      BY <1>7, <2>4
    <3>2. (i - pos) + j = i + d
      BY <2>4
    <3>3. i + d \in 1..L
      BY <2>4
    <3> QED
      BY <3>1, <3>2, <3>3
  <2> HIDE DEF j
  <2>2. stream[i + d] = Units(frames[k], k)[j]
    BY <1>6, <2>1
  <2>3. stream[i + d].frame = k /\ Place(stream[i + d]) = j
    <3>1. frames[k] \in FrameType /\ k \in 1..MaxFrames /\ j \in 1..Size(frames[k])
      BY <1>4, <2>1, FrameNumbers DEF N
    <3>2. stream[i + d].frame = k /\ PlaceIn(frames[k], stream[i + d]) = j
      BY <2>2, <3>1, PlaceOfUnit
    <3> QED
      BY <3>2 DEF Place
  <2> QED
    BY <2>2, <2>3 DEF j
<1>8. ASSUME NEW d \in 0..(L - i), pos + d = N + 1
      PROVE  stream[i + d].frame = k + 1 /\ Place(stream[i + d]) = 1
  <2>1. (i - pos) + N + 1 = i + d /\ i + d \in 1..L
    <3>1. L \in Int /\ N \in Int /\ pos \in Int /\ d \in Int /\ 0 <= d /\ d <= L - i
          /\ i \in Int /\ 1 <= i
      BY <1>1, <1>5, <1>11
    <3>2. (i - pos) + N + 1 = i + d
      BY <1>8, <3>1
    <3> QED
      BY <3>1, <3>2
  <2>2. stream[i + d] = Unit(k + 1, "op", frames[k + 1].op)
    BY <1>6, <2>1
  <2> QED
    BY <2>2 DEF Unit, Place, PlaceIn
<1>9. ASSUME ~eof
      PROVE  N - pos <= L - i /\ (N - pos = L - i => k = Len(frames))
  <2> DEFINE e == L - i
  <2>1. e \in 0..(L - i) /\ i + e = L /\ e \in Int /\ pos \in Int /\ N \in Int
    BY <1>1, <1>5, <1>11
  <2> HIDE DEF e
  <2>2. stream[L].frame = Len(frames) /\ Place(stream[L]) = Size(frames[Len(frames)])
    <3>1. stream # <<>>
      BY <1>1, EmptySeq DEF L
    <3> QED
      BY <1>9, <3>1 DEF WholeFrames, L
  <2>3. ASSUME pos + e <= N PROVE pos + e = N /\ k = Len(frames)
    <3>1. stream[L].frame = k /\ Place(stream[L]) = pos + e
      BY <1>7, <2>1, <2>3
    <3> QED
      BY <2>2, <3>1 DEF N
  <2>4. CASE pos + e <= N
    <3>1. N - pos = e
      BY <2>1, <2>3, <2>4
    <3> QED
      BY <2>1, <2>3, <2>4, <3>1 DEF e
  <2>5. CASE ~(pos + e <= N)
    <3>1. N - pos < e
      BY <2>1, <2>5
    <3> QED
      BY <2>1, <3>1 DEF e
  <2> QED
    BY <2>4, <2>5
<1> QED
  BY <1>4, <1>7, <1>8, <1>9 DEF N, L, pos, k

\* A frame that is sent goes behind the others.
LEMMA WholeAfterSend ==
    ASSUME StreamTypes, WholeFrames, NEW f \in FrameType, NEW K, K = Len(frames) + 1,
           Len(frames) < MaxFrames, ~eof, eof' = eof,
           frames' \in Seq(FrameType), Len(frames') = K, frames'[K] = f,
           \A k \in 1..Len(frames) : frames'[k] = frames[k],
           stream' \in Seq(UnitType), Len(stream') = Len(stream) + Size(f),
           \A i \in 1..Len(stream) : stream'[i] = stream[i],
           \A j \in 1..Size(f) : stream'[Len(stream) + j] = Units(f, K)[j]
    PROVE  /\ WholeFrames'
           /\ IF stream = <<>> THEN Place(stream[1])' = 1 /\ stream'[1].frame = K
              ELSE Place(stream[1])' = Place(stream[1]) /\ stream'[1] = stream[1]
<1> DEFINE L == Len(stream)
           F == Len(frames)
           m == Size(f)
<1>1. /\ L \in Nat /\ F \in Nat /\ m \in Nat \ {0} /\ K \in 1..MaxFrames
      /\ DOMAIN stream = 1..L /\ DOMAIN stream' = 1..(L + m)
  <2>1. L \in Nat /\ F \in Nat /\ DOMAIN stream = 1..L /\ DOMAIN stream' = 1..(L + m)
    BY FrameNumbers, LenProperties
  <2>2. m \in Nat \ {0}
    BY Frames
  <2>3. K \in 1..MaxFrames
    BY <2>1, BoundAssumption
  <2> QED
    BY <2>1, <2>2, <2>3
<1>2. Units(f, K)[1] = Unit(K, "op", f.op)
  BY <1>1, UnitsElements
<1> HIDE DEF L, F, m
<1>3. ASSUME NEW i \in 1..L
      PROVE  Place(stream[i])' = Place(stream[i]) /\ stream'[i] = stream[i] /\ stream[i].frame \in 1..F
  <2>1. stream'[i] = stream[i]
    BY <1>3 DEF L
  <2>2. stream[i].frame \in 1..F
    BY <1>3, Ahead DEF L, F
  <2>3. frames'[stream[i].frame] = frames[stream[i].frame]
    BY <2>2 DEF F
  <2> QED
    BY <2>1, <2>2, <2>3 DEF Place
<1>4. ASSUME NEW j \in 1..m
      PROVE  /\ stream'[L + j] = Units(f, K)[j]
             /\ stream'[L + j].frame = K /\ PlaceIn(f, stream'[L + j]) = j
  <2>1. stream'[L + j] = Units(f, K)[j]
    BY <1>4 DEF L, m
  <2>2. Units(f, K)[j].frame = K /\ PlaceIn(f, Units(f, K)[j]) = j
    BY <1>1, <1>4, PlaceOfUnit DEF m
  <2> QED
    BY <2>1, <2>2
<1>5. ASSUME NEW i \in 1..L PROVE InFrame(i)'
  <2> DEFINE k == stream[i].frame
             pos == Place(stream[i])
             N == Size(frames[k])
             before == i - pos
  <2>1. /\ k \in 1..F /\ pos \in 1..N
        /\ N - pos <= L - i /\ (N - pos = L - i => k = F)
    BY <1>5, Ahead DEF L, F
  <2>2. /\ N \in Nat /\ k \in Nat /\ frames'[k] = frames[k]
    BY <1>1, <2>1, FrameNumbers DEF F
  <2>3. InFrame(i)
    BY <1>1, <1>5 DEF WholeFrames
  <2>4. /\ Framed(stream[i])
        /\ \A j \in 1..N :
             before + j \in DOMAIN stream => stream[before + j] = Units(frames[k], k)[j]
        /\ before + N + 1 \in DOMAIN stream =>
             stream[before + N + 1] = Unit(k + 1, "op", frames[k + 1].op)
    BY <2>3 DEF InFrame
  <2>5. stream'[i] = stream[i] /\ Place(stream[i])' = pos
    BY <1>3, <1>5
  <2>6. k = stream'[i].frame
    BY <2>5
  <2> HIDE DEF k, pos, N
  <2>7. pos \in Int /\ N \in Int /\ i \in Int /\ L \in Int /\ m \in Int /\ 1 <= m /\ 1 <= i
        /\ before \in Int
    BY <1>1, <2>1, <2>2
  <2>8. before = (i - Place(stream[i]))'
    BY <2>5
  <2>9. Framed(stream[i])'
    <3>1. Size(frames[stream[i].frame])' = N /\ stream'[i].frame \in 1..Len(frames')
      BY <1>1, <2>1, <2>2, <2>6 DEF N, F
    <3> QED
      BY <2>1, <2>5, <3>1 DEF Framed
  <2>12. before = i - pos
    OBVIOUS
  <2> HIDE DEF before
  <2>10. ASSUME NEW j \in 1..N, before + j \in DOMAIN stream'
         PROVE  stream'[before + j] = Units(frames[k], k)[j]
    <3>1. before + j \in DOMAIN stream
      <4>1. j \in Int /\ 1 <= j /\ j <= N
        BY <2>7
      <4>2. before + j <= L
        BY <2>1, <2>7, <2>12, <4>1
      <4>3. 1 <= before + j
        BY <1>1, <2>7, <2>10, <4>1
      <4> QED
        BY <1>1, <2>7, <4>1, <4>2, <4>3
    <3>2. stream'[before + j] = stream[before + j]
      BY <1>1, <1>3, <3>1
    <3> QED
      BY <2>4, <3>1, <3>2
  <2>11. ASSUME before + N + 1 \in DOMAIN stream'
         PROVE  stream'[before + N + 1] = Unit(k + 1, "op", frames'[k + 1].op)
    <3> DEFINE x == before + N + 1
    <3>1. x \in Int /\ 1 <= x /\ x <= L + 1 /\ (x = L + 1 => k = F)
      <4>1. x \in Int /\ x <= L + 1
        BY <2>1, <2>7, <2>12
      <4>2. x = L + 1 => N - pos = L - i
        BY <2>7, <2>12
      <4>3. 1 <= x
        BY <1>1, <2>7, <2>11, <4>1
      <4> QED
        BY <2>1, <4>1, <4>2, <4>3
    <3> HIDE DEF x
    <3>2. CASE x <= L
      <4>1. x \in 1..L
        BY <1>1, <3>1, <3>2
      <4>2. stream[x] = Unit(k + 1, "op", frames[k + 1].op)
        BY <1>1, <2>4, <4>1 DEF x
      <4>3. stream[x].frame = k + 1
        BY <4>2 DEF Unit
      <4>4. k + 1 \in 1..F /\ stream'[x] = stream[x]
        BY <1>3, <4>1, <4>3
      <4>5. frames'[k + 1] = frames[k + 1]
        BY <4>4 DEF F
      <4> QED
        BY <4>2, <4>4, <4>5 DEF x
    <3>3. CASE x = L + 1
      <4>1. 1 \in 1..m
        BY <1>1
      <4>2. stream'[L + 1] = Units(f, K)[1]
        BY <1>4, <4>1
      <4>3. k + 1 = K
        BY <3>1, <3>3 DEF F
      <4> QED
        BY <1>2, <3>3, <4>2, <4>3 DEF x
    <3> QED
      BY <1>1, <3>1, <3>2, <3>3
  <2> QED
    BY <2>2, <2>6, <2>8, <2>9, <2>10, <2>11 DEF InFrame, N
<1>6. ASSUME NEW i \in (L + 1)..(L + m) PROVE InFrame(i)' /\ Place(stream[i])' = i - L
  <2> DEFINE j == i - L
  <2>1. j \in 1..m /\ i = L + j /\ j \in Int /\ L \in Int /\ m \in Int /\ i \in Int
    BY <1>1, <1>6
  <2>10. j = i - L
    OBVIOUS
  <2> HIDE DEF j
  <2>2. stream'[i].frame = K /\ PlaceIn(f, stream'[i]) = j
    BY <1>4, <2>1
  <2>3. frames'[K] = f /\ Size(frames'[K]) = m /\ K \in 1..Len(frames')
    BY <1>1 DEF m
  <2>4. Place(stream[i])' = j
    BY <2>2, <2>3 DEF Place
  <2>5. Framed(stream[i])'
    BY <2>1, <2>2, <2>3, <2>4 DEF Framed
  <2>6. i - j = L
    BY <2>1
  <2>7. \A x \in 1..m : stream'[L + x] = Units(f, K)[x]
    BY <1>4
  <2>8. L + m + 1 \notin DOMAIN stream'
    BY <1>1
  <2>9. (i - Place(stream[i]))' = L
    BY <2>4, <2>6
  <2> QED
    BY <2>2, <2>3, <2>4, <2>5, <2>7, <2>8, <2>9, <2>10 DEF InFrame
<1>7. \A i \in DOMAIN stream' : InFrame(i)'
  <2>1. \A i \in 1..(L + m) : i \in 1..L \/ i \in (L + 1)..(L + m)
    BY <1>1
  <2> QED
    BY <1>1, <1>5, <1>6, <2>1
<1>8. WholeFrames'
  <2>1. m \in 1..m /\ Len(stream') = L + m /\ Len(frames') = K
    BY <1>1 DEF L, m
  <2>2. stream'[Len(stream')].frame = K /\ PlaceIn(f, stream'[Len(stream')]) = m
    BY <1>4, <2>1
  <2>3. Place(stream[Len(stream)])' = m
    BY <2>2 DEF Place
  <2> QED
    BY <1>7, <2>1, <2>2, <2>3 DEF WholeFrames, m
<1>9. IF stream = <<>> THEN Place(stream[1])' = 1 /\ stream'[1].frame = K
      ELSE Place(stream[1])' = Place(stream[1]) /\ stream'[1] = stream[1]
  <2>1. CASE stream = <<>>
    <3>1. L = 0 /\ 1 \in 1..m /\ 0 + 1 = 1
      BY <1>1, <2>1 DEF L
    <3>2. stream'[1].frame = K /\ PlaceIn(f, stream'[1]) = 1
      BY <1>4, <3>1
    <3> QED
      BY <2>1, <3>2 DEF Place
  <2>2. CASE stream # <<>>
    <3>1. 1 \in 1..L
      BY <1>1, <2>2, EmptySeq DEF StreamTypes, L
    <3> QED
      BY <1>3, <2>2, <3>1
  <2> QED
    BY <2>1, <2>2
<1> QED
  BY <1>8, <1>9
-----------------------------------------------------------------------------
(* The loop: what all of its steps share *)

\* The types, and what the lemmas about the stream use of them.
LEMMA Types ==
    ASSUME ReadTypeOK
    PROVE  /\ StreamTypes /\ Len(handled) \in Nat /\ Len(frames) \in Nat
           /\ DOMAIN handled = 1..Len(handled)
           /\ \A i \in 1..Len(handled) :
                /\ handled[i].data \in Seq(UnitType) /\ handled[i].body \in Seq(UnitType)
                /\ handled[i].ok \in BOOLEAN
<1> DEFINE Call == [op : Class, data : Seq(UnitType), body : Seq(UnitType), ok : BOOLEAN]
<1>1. StreamTypes /\ handled \in Seq(Call)
  BY DEF ReadTypeOK, StreamTypes
<1> HIDE DEF Call
<1>2. /\ Len(handled) \in Nat /\ DOMAIN handled = 1..Len(handled)
      /\ \A i \in 1..Len(handled) : handled[i] \in Call
  BY <1>1, LenProperties, ElementOfSeq
<1> QED
  BY <1>1, <1>2, FrameNumbers DEF Call

LEMMA StaleTypes ==
    ASSUME ReadTypeOK, NEW i \in 1..(Len(handled) + 1)
    PROVE  StaleData(i) \in Seq(UnitType) /\ LeftBody(i) \in Seq(UnitType)
<1>1. i > 1 => i - 1 \in 1..Len(handled)
  BY Types
<1>2. <<>> \in Seq(UnitType)
  BY EmptySeq
<1> QED
  BY <1>1, <1>2, Types DEF StaleData, LeftBody

\* The frame the loop is in.
LEMMA CurrentFrame ==
    ASSUME ReadTypeOK, Len(handled) < Len(frames)
    PROVE  /\ Current \in 1..Len(frames) /\ Current \in 1..MaxFrames
           /\ frames[Current] \in FrameType
           /\ Current \in 1..(Len(handled) + 1) /\ Current = Len(handled) + 1
  BY Types, FrameNumbers DEF Current

\* Some of the bytes are a part of all of them.
LEMMA SomeBytes ==
    ASSUME NEW k \in 1..MaxFrames, NEW kind \in {"data", "body"}, NEW m \in Nat, NEW n \in Nat,
           m <= n, NEW s \in Seq(UnitType)
    PROVE  IsPrefix(s \o Bytes(k, kind, m), s \o Bytes(k, kind, n))
<1> DEFINE t == [i \in 1..(n - m) |-> Unit(k, kind, m + i)]
           a == Bytes(k, kind, m)
<1>1. n - m \in Nat
  OBVIOUS
<1>2. \A i \in 1..(n - m) : m + i \in Nat \ {0}
  OBVIOUS
<1>3. t \in Seq(UnitType) /\ Len(t) = n - m
  BY <1>1, <1>2, UnitTypes
<1>4. \A i \in 1..Len(t) : t[i] = Unit(k, kind, m + i)
  BY <1>3
<1>5. a \in Seq(UnitType)
  BY BytesElements
<1>6. a \o t = Bytes(k, kind, m + Len(t))
  BY <1>3, <1>4, MoreBytes
<1>7. m + Len(t) = n
  BY <1>3
<1> HIDE DEF t, a
<1>8. s \o (a \o t) = (s \o a) \o t
  <2>1. t \in Seq(UnitType) /\ a \in Seq(UnitType) /\ s \in Seq(UnitType)
    BY <1>3, <1>5
  <2>2. (s \o a) \o t = s \o (a \o t)
    BY <2>1, ConcatAssociative
  <2> QED
    BY <2>2
<1>9. s \o a \in Seq(UnitType) /\ a \o t \in Seq(UnitType)
  BY <1>3, <1>5, ConcatProperties
<1>10. s \o (a \o t) \in Seq(UnitType)
  BY <1>9, ConcatProperties
<1>11. IsPrefix(s \o a, s \o (a \o t))
  BY <1>3, <1>8, <1>9, <1>10, PrefixOfConcat
<1> QED
  BY <1>6, <1>7, <1>11 DEF a

\* A sequence is a prefix of itself, and nothing is one of any.
LEMMA TrivialPrefixes ==
    ASSUME NEW S, NEW s \in Seq(S)
    PROVE  IsPrefix(s, s) /\ IsPrefix(<<>>, s)
<1>1. s \o <<>> = s /\ <<>> \o s = s /\ <<>> \in Seq(S)
  BY ConcatEmptySeq, EmptySeq
<1>2. IsPrefix(s, s)
  BY <1>1, PrefixOfConcat
<1>3. IsPrefix(<<>>, s)
  BY <1>1, PrefixOfConcat
<1> QED
  BY <1>2, <1>3

\* While no deadline has passed, the buffers hold a part of the frame the loop is in.
LEMMA PartOfFrame ==
    ASSUME ReadInv, Inside, failed # "timeout"
    PROVE  /\ IsPrefix(data, StaleData(Current) \o Bytes(Current, "data", frames[Current].data))
           /\ IF op = "full" /\ readPc \in {"body", "handle"}
              THEN IsPrefix(body, Bytes(Current, "body", frames[Current].body))
              ELSE op # "full" => body = LeftBody(Current)
<1> DEFINE k == Current
           f == frames[k]
<1>1. ReadTypeOK /\ InCurrent /\ InStep /\ Buffered /\ CutOff
  BY DEF ReadInv
<1>2. Len(handled) < Len(frames)
  BY <1>1 DEF InCurrent
<1>3. k \in 1..MaxFrames /\ f \in FrameType /\ StaleData(k) \in Seq(UnitType)
  BY <1>1, <1>2, CurrentFrame, StaleTypes
<1>4. f.data \in Nat /\ f.body \in Nat
  BY <1>3, Frames
<1>5. CASE failed = "end"
  BY <1>1, <1>5 DEF CutOff
<1>6. CASE failed = "none"
  <2>1. PICK m \in Nat : m <= f.data /\ data = StaleData(k) \o Bytes(k, "data", m)
    <3>1. CASE readPc = "dlen"
      <4>1. data = StaleData(k) \o <<>>
        BY <1>1, <1>6, <3>1 DEF Buffered
      <4> QED
        BY <1>3, <1>4, <4>1, NoBytes
    <3>2. CASE readPc = "data"
      <4>1. data = StaleData(k) \o Bytes(k, "data", f.data - dataLen) /\ dataLen \in 1..f.data
        BY <1>1, <1>6, <3>2 DEF Buffered, InStep
      <4>2. f.data - dataLen \in Nat /\ f.data - dataLen <= f.data
        BY <1>4, <4>1
      <4> QED
        BY <4>1, <4>2
    <3>3. CASE readPc \in {"blen", "body", "handle"}
      <4>1. data = StaleData(k) \o Bytes(k, "data", f.data)
        BY <1>1, <1>6, <3>3 DEF Buffered
      <4> QED
        BY <1>4, <4>1
    <3> QED
      BY <3>1, <3>2, <3>3 DEF Inside
  <2>2. IsPrefix(data, StaleData(k) \o Bytes(k, "data", f.data))
    BY <1>3, <1>4, <2>1, SomeBytes
  <2>3. CASE op = "full" /\ readPc = "body"
    <3>1. body = Bytes(k, "body", f.body - dataLen) /\ dataLen \in 1..f.body
      BY <1>1, <1>6, <2>3 DEF Buffered, InStep
    <3>2. f.body - dataLen \in Nat /\ f.body - dataLen <= f.body /\ <<>> \in Seq(UnitType)
      BY <1>4, <3>1, EmptySeq
    <3> DEFINE n == f.body - dataLen
    <3>3. /\ Bytes(k, "body", n) \in Seq(UnitType) /\ Bytes(k, "body", f.body) \in Seq(UnitType)
      BY <1>3, <1>4, <3>2, BytesElements
    <3> HIDE DEF n
    <3>4. /\ <<>> \o Bytes(k, "body", n) = Bytes(k, "body", n)
          /\ <<>> \o Bytes(k, "body", f.body) = Bytes(k, "body", f.body)
      BY <3>3, ConcatEmptySeq
    <3>5. IsPrefix(<<>> \o Bytes(k, "body", n), <<>> \o Bytes(k, "body", f.body))
      BY <1>3, <1>4, <3>2, SomeBytes DEF n
    <3> QED
      BY <2>2, <2>3, <3>1, <3>4, <3>5 DEF n
  <2>4. CASE op = "full" /\ readPc = "handle"
    <3>1. body = Bytes(k, "body", f.body)
      BY <1>1, <1>6, <2>4 DEF Buffered
    <3> QED
      BY <1>3, <1>4, <2>2, <2>4, <3>1, BytesElements, TrivialPrefixes
  <2>5. CASE op # "full"
    <3>1. readPc # "body"
      BY <1>1, <1>6, <2>5 DEF InCurrent, Inside
    <3>2. body = LeftBody(k)
      BY <1>1, <1>6, <2>5, <3>1 DEF Buffered
    <3> QED
      BY <2>2, <2>5, <3>2
  <2>6. CASE op = "full" /\ readPc \notin {"body", "handle"}
    BY <2>2, <2>6
  <2> QED
    BY <2>3, <2>4, <2>5, <2>6
<1> QED
  BY <1>1, <1>5, <1>6 DEF ReadTypeOK

\* What has been handled stays as it is when nothing is added.
LEMMA ServedKept ==
    ASSUME ReadTypeOK, Served, handled' = handled, Len(frames') \in Nat, Len(frames) <= Len(frames'),
           \A k \in 1..Len(frames) : frames'[k] = frames[k],
           failed = "end" /\ ~Inside => failed' = "end" /\ ~Inside'
    PROVE  Served'
<1>1. Len(handled) <= Len(frames')
  BY Types DEF Served
<1>2. ASSUME NEW i \in DOMAIN handled
      PROVE  /\ StaleData(i)' = StaleData(i) /\ StaleBody(i)' = StaleBody(i)
             /\ frames'[i] = frames[i]
  <2>1. i \in 1..Len(frames)
    BY Types DEF Served
  <2> QED
    BY <2>1 DEF StaleData, StaleBody, LeftBody
<1>3. \A i \in DOMAIN handled : Exactly(i) => Exactly(i)'
  BY <1>2 DEF Exactly
<1>4. \A i \in DOMAIN handled : CutShort(i) => CutShort(i)'
  BY <1>2 DEF CutShort
<1> QED
  BY <1>1, <1>3, <1>4 DEF Served

\* Once a deadline has passed, nothing is handled any more.
LEMMA TimedOut ==
    ASSUME ReadInv, ReadTypeOK', WholeFrames', handled' = handled, Len(frames) <= Len(frames'),
           \A k \in 1..Len(frames) : frames'[k] = frames[k],
           failed # "end", failed' = "timeout"
    PROVE  ReadInv'
<1>1. ReadTypeOK /\ Served
  BY DEF ReadInv
<1>2. Len(frames') \in Nat
  BY LenProperties DEF ReadTypeOK
<1>3. Served'
  BY <1>1, <1>2, ServedKept
<1>4. FramesInOrder'
  BY <1>3 DEF Served, FramesInOrder
<1>5. InCurrent' /\ InStep' /\ Buffered' /\ CutOff'
  BY DEF InCurrent, InStep, Buffered, CutOff
<1> QED
  BY <1>3, <1>4, <1>5 DEF ReadInv
-----------------------------------------------------------------------------
(* Reading from the stream *)

\* What the error of a Read tells: as the first, that the end has come or the
\* deadline passed, and after the end nothing else can follow.
LEMMA ErrorCases ==
    ASSUME ReadTypeOK, CutOff, Error
    PROVE  /\ late' \in BOOLEAN /\ failed' \in {"end", "timeout"}
           /\ failed' = "timeout" => failed # "end"
           /\ failed' = "end" => failed \in {"none", "end"} /\ eof /\ stream = <<>>
<1>1. late \in BOOLEAN /\ failed \in {"none", "end", "timeout"}
  BY DEF ReadTypeOK
<1>2. failed = "end" => eof /\ stream = <<>>
  BY DEF CutOff
<1>3. CASE ~late /\ eof /\ stream = <<>> /\ late' = late
  <2>1. failed' = IF failed # "none" THEN failed ELSE "end"
    BY <1>3 DEF Error
  <2> QED
    BY <1>1, <1>2, <1>3, <2>1
<1>4. CASE late' = TRUE
  <2>1. failed' = IF failed # "none" THEN failed ELSE "timeout"
    BY <1>4 DEF Error
  <2> QED
    BY <1>1, <1>2, <1>4, <2>1
<1> QED
  BY <1>3, <1>4 DEF Error

LEMMA ErrorTypes ==
    ASSUME ReadTypeOK, Error
    PROVE  late' \in BOOLEAN /\ failed' \in {"none", "end", "timeout"}
<1>1. late \in BOOLEAN /\ failed \in {"none", "end", "timeout"}
  BY DEF ReadTypeOK
<1>2. late' \in BOOLEAN
  BY <1>1 DEF Error
<1>3. failed' \in {failed, "timeout", "end"}
  BY DEF Error
<1> QED
  BY <1>1, <1>2, <1>3

\* What a unit can be taken for.
LEMMA Taken ==
    ASSUME NEW u \in UnitType
    PROVE  AsOpcode(u) \subseteq Class /\ AsLength(u) \subseteq Length
  BY DEF UnitType, AsOpcode, AsLength

\* A Read takes units from the front of the stream, and leaves the rest of it.
LEMMA Taking ==
    ASSUME StreamTypes, WholeFrames, NEW n \in 0..Len(stream), UNCHANGED <<frames, eof>>,
           stream' = SubSeq(stream, n + 1, Len(stream))
    PROVE  /\ stream' \in Seq(UnitType) /\ Len(stream') = Len(stream) - n
           /\ \A i \in 1..(Len(stream) - n) : stream'[i] = stream[n + i]
           /\ WholeFrames'
<1>1. stream \in Seq(UnitType)
  BY DEF StreamTypes
<1>2. /\ stream' \in Seq(UnitType) /\ Len(stream') = Len(stream) - n
      /\ \A i \in 1..(Len(stream) - n) : stream'[i] = stream[n + i]
  BY <1>1, Rest
<1> QED
  BY <1>2, WholeAfterRead

\* So does a Read of a single unit.
LEMMA TakingOne ==
    ASSUME StreamTypes, WholeFrames, stream # <<>>, UNCHANGED <<frames, eof>>,
           stream' = Tail(stream)
    PROVE  /\ 1 \in 1..Len(stream) /\ Head(stream) = stream[1] /\ Head(stream) \in UnitType
           /\ stream' \in Seq(UnitType) /\ Len(stream') = Len(stream) - 1
           /\ \A i \in 1..(Len(stream) - 1) : stream'[i] = stream[1 + i]
           /\ stream' = SubSeq(stream, 1 + 1, Len(stream)) /\ WholeFrames'
<1>1. stream \in Seq(UnitType)
  BY DEF StreamTypes
<1>2. /\ Head(stream) \in UnitType /\ Tail(stream) \in Seq(UnitType)
      /\ Len(Tail(stream)) = Len(stream) - 1
      /\ \A i \in 1..Len(Tail(stream)) : Tail(stream)[i] = stream[i + 1]
  BY <1>1, HeadTailProperties
<1>3. 1 \in 1..Len(stream) /\ 1 \in 0..Len(stream) /\ Head(stream) = stream[1]
  BY <1>1, EmptySeq, LenProperties
<1>4. \A i \in 1..(Len(stream) - 1) : stream'[i] = stream[1 + i]
  BY <1>2
<1>5. WholeFrames'
  BY <1>2, <1>3, <1>4, WholeAfterRead
<1>6. stream' = SubSeq(stream, 1 + 1, Len(stream))
  <2>1. Tail(stream) = SubSeq(stream, 2, Len(stream)) /\ 1 + 1 = 2
    BY <1>1, TailIsSubSeq
  <2> QED
    BY <2>1
<1> QED
  BY <1>2, <1>3, <1>4, <1>5, <1>6

\* As long as the units that were read belong to one frame, they are those of the
\* frame from the first on, and behind them comes its next unit or the next frame.
LEMMA GoesOn ==
    ASSUME StreamTypes, WholeFrames, NEW n \in 1..Len(stream), UNCHANGED <<frames, eof>>,
           stream' = SubSeq(stream, n + 1, Len(stream)),
           NEW k \in 1..MaxFrames, k = stream[1].frame, NEW pos \in Nat, pos = Place(stream[1]),
           pos + n <= Size(frames[k]) + 1
    PROVE  /\ \A i \in 1..n : stream[i] = Units(frames[k], k)[pos + (i - 1)]
           /\ stream' # <<>> =>
                IF pos + n <= Size(frames[k])
                THEN stream'[1].frame = k /\ Place(stream[1])' = pos + n
                ELSE stream'[1].frame = k + 1 /\ Place(stream[1])' = 1
           /\ stream' = <<>> /\ ~eof =>
                pos + n = Size(frames[k]) + 1 /\ k = Len(frames)
<1> DEFINE L == Len(stream)
           N == Size(frames[k])
<1>1. L \in Nat /\ n \in Nat /\ 1 <= n /\ n <= L /\ 1 \in 1..L
  BY FrameNumbers
<1>8. /\ stream' \in Seq(UnitType) /\ Len(stream') = Len(stream) - n
      /\ \A i \in 1..(Len(stream) - n) : stream'[i] = stream[n + i]
  <2>1. n \in 0..Len(stream)
    BY <1>1
  <2> QED
    BY <2>1, Taking, Zenon
<1>2. /\ k \in 1..Len(frames) /\ pos \in 1..N
      /\ \A d \in 0..(L - 1) :
           /\ pos + d <= N =>
                /\ stream[1 + d] = Units(frames[k], k)[pos + d]
                /\ stream[1 + d].frame = k /\ Place(stream[1 + d]) = pos + d
           /\ pos + d = N + 1 => stream[1 + d].frame = k + 1 /\ Place(stream[1 + d]) = 1
      /\ ~eof => N - pos <= L - 1
      /\ ~eof /\ N - pos = L - 1 => k = Len(frames)
  BY <1>1, Ahead
<1>3. N \in Nat /\ pos \in Nat
  BY <1>2, FrameNumbers
<1> HIDE DEF N, L
<1>4. pos + n <= N + 1
  BY DEF N
<1>5. ASSUME NEW i \in 1..n
      PROVE  stream[i] = Units(frames[k], k)[pos + (i - 1)]
  <2>1. i \in Int /\ 1 <= i /\ i <= n
    BY <1>1, <1>5
  <2>3. i - 1 \in 0..(L - 1) /\ 1 + (i - 1) = i
    BY <1>1, <2>1
  <2>2. pos + (i - 1) <= N
    BY <1>1, <1>3, <1>4, <2>1
  <2> QED
    BY <1>2, <2>2, <2>3
<1>6. ASSUME stream' # <<>>
      PROVE  IF pos + n <= N
             THEN stream'[1].frame = k /\ Place(stream[1])' = pos + n
             ELSE stream'[1].frame = k + 1 /\ Place(stream[1])' = 1
  <2>1. 1 \in 1..(L - n)
    BY <1>1, <1>6, <1>8, EmptySeq, LenProperties DEF L
  <2>2. stream'[1] = stream[n + 1] /\ n + 1 = 1 + n
    BY <1>1, <1>8, <2>1 DEF L
  <2>7. stream'[1] = stream[1 + n]
    BY <2>2
  <2>3. n \in 0..(L - 1)
    BY <1>1, <2>1
  <2>4. Place(stream[1])' = Place(stream[1 + n])
    BY <2>7 DEF Place
  <2>5. ASSUME pos + n <= N
        PROVE  stream'[1].frame = k /\ Place(stream[1])' = pos + n
    <3>1. stream[1 + n].frame = k /\ Place(stream[1 + n]) = pos + n
      BY <1>2, <2>3, <2>5, Zenon
    <3>2. stream'[1].frame = k
      BY <2>7, <3>1
    <3>3. Place(stream[1])' = pos + n
      BY <2>4, <3>1
    <3> QED
      BY <3>2, <3>3
  <2>6. ASSUME ~(pos + n <= N)
        PROVE  stream'[1].frame = k + 1 /\ Place(stream[1])' = 1
    <3>5. pos \in Int /\ n \in Int /\ N \in Int
      BY <1>1, <1>3
    <3>1. pos + n = N + 1
      BY <1>4, <2>6, <3>5
    <3>2. stream[1 + n].frame = k + 1 /\ Place(stream[1 + n]) = 1
      BY <1>2, <2>3, <3>1, Zenon
    <3>3. stream'[1].frame = k + 1
      BY <2>7, <3>2
    <3>4. Place(stream[1])' = 1
      BY <2>4, <3>2
    <3> QED
      BY <3>3, <3>4
  <2> QED
    BY <2>5, <2>6, Zenon
<1>7. ASSUME stream' = <<>>, ~eof
      PROVE  pos + n = N + 1 /\ k = Len(frames)
  <2>1. n = L
    <3>1. Len(stream') = L - n /\ Len(stream') = 0
      BY <1>7, <1>8, EmptySeq DEF L
    <3> QED
      BY <1>1, <3>1
  <2>2. N - pos = L - 1
    <3>1. N - pos <= L - 1
      BY <1>2, <1>7
    <3> QED
      BY <1>1, <1>3, <1>4, <2>1, <3>1
  <2>3. pos + n = N + 1
    <3>1. pos \in Int /\ n \in Int /\ N \in Int /\ L \in Int
      BY <1>1, <1>3
    <3> QED
      BY <2>1, <2>2, <3>1
  <2> QED
    BY <1>2, <1>7, <2>2, <2>3
<1> QED
  BY <1>5, <1>6, <1>7 DEF N

\* What is left to show when a step of the loop leaves what was handled alone: while
\* no Read has failed, ...
LEMMA InvInStep ==
    ASSUME ReadInv, ReadTypeOK', WholeFrames', handled' = handled, Len(frames) <= Len(frames'),
           \A k \in 1..Len(frames) : frames'[k] = frames[k],
           failed = "none", failed' = "none", InCurrent', InStep', Buffered'
    PROVE  ReadInv'
<1>1. ReadTypeOK /\ Served
  BY DEF ReadInv
<1>2. Len(frames') \in Nat
  BY LenProperties DEF ReadTypeOK
<1>3. Served'
  BY <1>1, <1>2, ServedKept
<1>4. FramesInOrder'
  BY <1>3 DEF Served, FramesInOrder
<1>5. CutOff'
  BY DEF CutOff
<1> QED
  BY <1>3, <1>4, <1>5 DEF ReadInv

\* ... and when the end of the connection has come.
LEMMA InvCutOff ==
    ASSUME ReadInv, ReadTypeOK', WholeFrames', handled' = handled, frames' = frames,
           failed \in {"none", "end"}, failed' = "end", Inside' => Inside, InCurrent', CutOff'
    PROVE  ReadInv'
<1>1. ReadTypeOK /\ Served
  BY DEF ReadInv
<1>2. Len(frames) \in Nat
  BY <1>1, Types
<1>3. Served'
  BY <1>1, <1>2, ServedKept
<1>4. FramesInOrder'
  BY <1>3 DEF Served, FramesInOrder
<1>5. InStep' /\ Buffered'
  BY DEF InStep, Buffered
<1> QED
  BY <1>3, <1>4, <1>5 DEF ReadInv
-----------------------------------------------------------------------------
(* The steps of the loop *)

\* What is known of the frame the loop is in while no Read has failed and there is
\* something in the stream.
LEMMA Reading ==
    ASSUME ReadInv, failed = "none", stream # <<>>, readPc # "handle"
    PROVE  /\ StreamTypes /\ WholeFrames /\ 1 \in 1..Len(stream)
           /\ Len(handled) < Len(frames) /\ Current \in 1..MaxFrames
           /\ frames[Current] \in FrameType
           /\ stream[1].frame = Current /\ Place(stream[1]) = Due
           /\ StaleData(Current) \in Seq(UnitType) /\ LeftBody(Current) \in Seq(UnitType)
<1>1. ReadTypeOK /\ WholeFrames /\ InStep
  BY DEF ReadInv
<1>2. StreamTypes /\ 1 \in 1..Len(stream)
  BY <1>1, Types, FrameNumbers, EmptySeq DEF StreamTypes
<1>3. stream[1].frame = Current /\ Place(stream[1]) = Due
  BY <1>1 DEF InStep
<1>4. Current \in 1..Len(frames)
  BY <1>1, <1>2, <1>3, Ahead
<1>5. Len(handled) < Len(frames)
  BY <1>1, <1>4, Types DEF Current
<1> QED
  BY <1>1, <1>2, <1>3, <1>5, CurrentFrame, StaleTypes

LEMMA OpcodeTypes ==
    ASSUME ReadTypeOK, WholeFrames, ReadOpcode
    PROVE  ReadTypeOK' /\ WholeFrames'
<1>1. CASE stream # <<>> /\ stream' = Tail(stream) /\ op' \in AsOpcode(Head(stream))
           /\ readPc' = (IF op' = "bare" THEN "handle" ELSE "dlen") /\ UNCHANGED <<late, failed>>
  <2>1. StreamTypes /\ UNCHANGED <<frames, eof>>
    BY Types DEF ReadOpcode
  <2>2. Head(stream) \in UnitType /\ stream' \in Seq(UnitType) /\ WholeFrames'
    BY <1>1, <2>1, TakingOne
  <2>3. op' \in Class
    BY <1>1, <2>2, Taken
  <2> QED
    BY <1>1, <2>2, <2>3 DEF ReadTypeOK, ReadOpcode
<1>2. CASE Error /\ readPc' = "closed" /\ UNCHANGED <<stream, op>>
  <2>1. UNCHANGED <<frames, eof, stream>>
    BY <1>2 DEF ReadOpcode
  <2>2. WholeFrames'
    BY <2>1, WholeStays
  <2> QED
    BY <1>2, <2>2, ErrorTypes DEF ReadTypeOK, ReadOpcode
<1> QED
  BY <1>1, <1>2 DEF ReadOpcode, Ready

LEMMA OpcodeKeepsInv ==
    ASSUME ReadInv, ReadOpcode
    PROVE  ReadInv'
<1> DEFINE k == Current
           f == frames[k]
<1>1. ReadTypeOK /\ WholeFrames /\ InCurrent /\ InStep /\ Buffered /\ CutOff
  BY DEF ReadInv
<1>2. /\ ReadTypeOK' /\ WholeFrames' /\ readPc = "op" /\ Len(frames) <= Len(frames')
      /\ UNCHANGED <<frames, eof, lenBuf, dataLen, data, body, handled>>
  BY <1>1, OpcodeTypes, Types DEF ReadOpcode
<1>3. CASE failed' = "timeout"
  <2>1. failed # "end"
    BY <1>1, <1>3, ErrorCases DEF ReadOpcode, Ready, CutOff
  <2> QED
    BY <1>2, <1>3, <2>1, TimedOut
<1>4. CASE failed' = "end"
  <2>1. /\ failed \in {"none", "end"} /\ eof /\ stream = <<>> /\ stream' = stream
        /\ readPc' = "closed"
    BY <1>1, <1>4, ErrorCases DEF ReadOpcode, Ready, CutOff
  <2>2. ~Inside'
    BY <2>1 DEF Inside
  <2>3. InCurrent' /\ CutOff'
    BY <1>2, <2>1, <2>2 DEF InCurrent, CutOff
  <2> QED
    BY <1>2, <1>4, <2>1, <2>2, <2>3, InvCutOff
<1>5. CASE failed' = "none"
  <2>1. /\ failed = "none" /\ stream # <<>> /\ stream' = Tail(stream)
        /\ op' \in AsOpcode(Head(stream))
        /\ readPc' = IF op' = "bare" THEN "handle" ELSE "dlen"
    BY <1>1, <1>5, ErrorCases DEF ReadOpcode, Ready
  <2>2. /\ StreamTypes /\ Len(handled) < Len(frames) /\ k \in 1..MaxFrames /\ f \in FrameType
        /\ stream[1].frame = k /\ Place(stream[1]) = 1
        /\ StaleData(k) \in Seq(UnitType)
    BY <1>2, <2>1, Reading DEF Due
  <2>3. /\ 1 \in 1..Len(stream) /\ Head(stream) = stream[1]
        /\ stream' = SubSeq(stream, 1 + 1, Len(stream))
    BY <1>1, <1>2, <2>1, <2>2, TakingOne
  <2>4. /\ f.op \in Class /\ Size(f) \in Nat \ {0} /\ f.data \in Nat /\ f.body \in Nat
        /\ f.op = "bare" => Size(f) = 1 /\ f.data = 0
        /\ f.op = "data" => Size(f) = 2 + f.data
        /\ f.op = "full" => Size(f) = 3 + f.data + f.body
    BY <2>2, Frames
  <2>5. 1 + 1 <= Size(f) + 1
    BY <2>4
  <2>6. /\ \A i \in 1..1 : stream[i] = Units(f, k)[1 + (i - 1)]
        /\ stream' # <<>> =>
             IF 1 + 1 <= Size(f)
             THEN stream'[1].frame = k /\ Place(stream[1])' = 1 + 1
             ELSE stream'[1].frame = k + 1 /\ Place(stream[1])' = 1
        /\ stream' = <<>> /\ ~eof => 1 + 1 = Size(f) + 1 /\ k = Len(frames)
    BY <1>1, <1>2, <2>2, <2>3, <2>5, GoesOn
  <2>7. stream[1] = Unit(k, "op", f.op)
    <3>1. stream[1] = Units(f, k)[1 + (1 - 1)] /\ 1 + (1 - 1) = 1
      BY <2>6
    <3> QED
      BY <2>2, <3>1, UnitsElements
  <2>8. op' = f.op
    BY <2>1, <2>3, <2>7 DEF AsOpcode, Unit
  <2>9. Current' = k /\ f' = f /\ StaleData(k)' = StaleData(k) /\ LeftBody(k)' = LeftBody(k)
    BY <1>2 DEF Current, StaleData, LeftBody
  <2>10. InCurrent'
    BY <1>2, <2>1, <2>2, <2>8, <2>9 DEF InCurrent
  <2>11. InStep'
    <3>1. Due' = 2 \/ readPc' = "handle"
      BY <2>1 DEF Due
    <3>2. stream' # <<>> =>
            IF readPc' = "handle" THEN stream'[1].frame = k + 1 /\ Place(stream[1])' = 1
            ELSE stream'[1].frame = k /\ Place(stream[1])' = 2
      <4>1. f.op = "bare" => ~(1 + 1 <= Size(f)) /\ readPc' = "handle"
        BY <2>1, <2>4, <2>8
      <4>2. f.op # "bare" => 1 + 1 <= Size(f) /\ readPc' # "handle" /\ 1 + 1 = 2
        BY <2>1, <2>4, <2>8 DEF Class
      <4> QED
        BY <2>6, <4>1, <4>2
    <3>3. stream' = <<>> /\ ~eof' => readPc' = "handle" /\ k = Len(frames)
      BY <1>2, <2>1, <2>4, <2>6, <2>8 DEF Class
    <3>4. Len(handled') <= Len(frames')
      BY <1>1, <1>2, <2>1 DEF InStep
    <3> QED
      BY <1>2, <2>1, <2>9, <3>1, <3>2, <3>3, <3>4 DEF InStep
  <2>12. Buffered'
    <3>1. data = StaleData(k) \o <<>> /\ body = LeftBody(k)
      BY <1>1, <1>2, <2>1 DEF Buffered
    <3>2. readPc' = "handle" => Bytes(k, "data", f.data) = <<>> /\ op' # "full"
      BY <2>1, <2>2, <2>4, <2>8, NoBytes
    <3> QED
      BY <1>2, <2>1, <2>9, <3>1, <3>2 DEF Buffered
  <2> QED
    BY <1>2, <1>5, <2>1, <2>10, <2>11, <2>12, InvInStep
<1> QED
  BY <1>2, <1>3, <1>4, <1>5 DEF ReadTypeOK

LEMMA LengthTypes ==
    ASSUME ReadTypeOK, WholeFrames, NEW part \in {"data", "body"}, NEW after \in {"blen", "handle"},
           ReadLength(part, after), data' = data, body' \in {<<>>, body}
    PROVE  ReadTypeOK' /\ WholeFrames'
<1>1. StreamTypes /\ UNCHANGED <<frames, eof, op, handled>> /\ body' \in Seq(UnitType)
  BY Types, EmptySeq DEF ReadLength, ReadTypeOK
<1>2. CASE stream # <<>> /\ stream' = Tail(stream) /\ lenBuf' \in AsLength(Head(stream))
           /\ UNCHANGED <<late, failed>>
  <2>1. Head(stream) \in UnitType /\ stream' \in Seq(UnitType) /\ WholeFrames'
    BY <1>1, <1>2, TakingOne
  <2>2. lenBuf' \in Length
    BY <1>2, <2>1, Taken
  <2> QED
    BY <1>1, <1>2, <2>1, <2>2, BoundAssumption DEF ReadTypeOK, ReadLength
<1>3. CASE Error /\ lenBuf' \in Length /\ UNCHANGED stream
  <2>1. WholeFrames'
    BY <1>1, <1>3, WholeStays
  <2> QED
    BY <1>1, <1>3, <2>1, BoundAssumption, ErrorTypes DEF ReadTypeOK, ReadLength
<1> QED
  BY <1>2, <1>3 DEF ReadLength, Ready

\* What a Read of a length does, while no Read has failed or when the end has come.
LEMMA LengthRead ==
    ASSUME ReadInv, NEW part \in {"data", "body"}, NEW after \in {"blen", "handle"},
           ReadLength(part, after), failed' # "timeout"
    PROVE  /\ failed' = "end" =>
                failed \in {"none", "end"} /\ eof /\ stream = <<>> /\ stream' = stream
           /\ failed' = "none" =>
                /\ failed = "none" /\ stream # <<>> /\ stream' = Tail(stream)
                /\ lenBuf' \in AsLength(Head(stream))
           /\ dataLen' = lenBuf' /\ readPc' = (IF dataLen' = 0 THEN after ELSE part)
           /\ UNCHANGED <<frames, eof, op, handled>>
<1>1. ReadTypeOK /\ CutOff
  BY DEF ReadInv
<1> QED
  BY <1>1, ErrorCases DEF ReadTypeOK, CutOff, ReadLength, Ready

LEMMA DataLengthKeepsInv ==
    ASSUME ReadInv, ReadDataLength
    PROVE  ReadInv'
<1> DEFINE k == Current
           f == frames[k]
<1>1. ReadTypeOK /\ WholeFrames /\ InCurrent /\ InStep /\ Buffered /\ CutOff
  BY DEF ReadInv
<1>2. /\ ReadTypeOK' /\ WholeFrames' /\ Len(frames) <= Len(frames') /\ Inside
      /\ readPc = "dlen" /\ ReadLength("data", AfterData) /\ AfterData \in {"blen", "handle"}
      /\ UNCHANGED <<frames, eof, op, data, body, handled>>
  <2>1. AfterData \in {"blen", "handle"} /\ ReadLength("data", AfterData) /\ readPc = "dlen"
    BY DEF ReadDataLength, AfterData
  <2>2. UNCHANGED <<frames, eof, op, data, body, handled>>
    BY DEF ReadDataLength, ReadLength
  <2>3. ReadTypeOK' /\ WholeFrames'
    BY <1>1, <2>1, <2>2, LengthTypes
  <2> QED
    BY <1>1, <2>1, <2>2, <2>3, Types DEF Inside
<1>3. CASE failed' = "timeout"
  <2>1. failed # "end"
    BY <1>1, <1>2, <1>3, ErrorCases DEF ReadLength, Ready, CutOff
  <2> QED
    BY <1>2, <1>3, <2>1, TimedOut
<1>4. CASE failed' = "end"
  <2>1. /\ failed \in {"none", "end"} /\ eof /\ stream = <<>> /\ stream' = stream
        /\ readPc' \in {"data", AfterData}
    BY <1>2, <1>4, LengthRead
  <2>2. /\ IsPrefix(data, StaleData(k) \o Bytes(k, "data", f.data))
        /\ op # "full" => body = LeftBody(k)
    BY <1>2, <2>1, PartOfFrame
  <2>3. /\ StaleData(Current)' = StaleData(Current) /\ LeftBody(Current)' = LeftBody(Current)
        /\ Current' = Current
    BY <1>2 DEF Current, StaleData, LeftBody
  <2>4. InCurrent'
    BY <1>1, <1>2, <2>1, <2>3 DEF InCurrent, AfterData
  <2>5. ~(op' = "full" /\ readPc' \in {"body", "handle"})
    BY <1>2, <2>1 DEF AfterData
  <2>6. CutOff'
    BY <1>2, <2>1, <2>2, <2>3, <2>5 DEF CutOff
  <2> QED
    BY <1>2, <1>4, <2>1, <2>4, <2>6, InvCutOff
<1>5. CASE failed' = "none"
  <2>1. /\ failed = "none" /\ stream # <<>> /\ stream' = Tail(stream)
        /\ lenBuf' \in AsLength(Head(stream))
        /\ dataLen' = lenBuf' /\ readPc' = IF dataLen' = 0 THEN AfterData ELSE "data"
    BY <1>2, <1>5, LengthRead
  <2>2. /\ StreamTypes /\ Len(handled) < Len(frames) /\ k \in 1..MaxFrames /\ f \in FrameType
        /\ stream[1].frame = k /\ Place(stream[1]) = 2
        /\ StaleData(k) \in Seq(UnitType) /\ op = f.op /\ op # "bare"
    BY <1>1, <1>2, <2>1, Reading DEF Due, InCurrent
  <2>3. /\ 1 \in 1..Len(stream) /\ Head(stream) = stream[1]
        /\ stream' = SubSeq(stream, 1 + 1, Len(stream))
    BY <1>1, <1>2, <2>1, <2>2, TakingOne
  <2>4. /\ f.op \in Class /\ Size(f) \in Nat \ {0} /\ f.data \in Nat /\ f.body \in Nat
        /\ f.op = "data" => Size(f) = 2 + f.data
        /\ f.op = "full" => Size(f) = 3 + f.data + f.body
    BY <2>2, Frames
  <2>5. 2 + 1 <= Size(f) + 1
    <3>1. f.op \in {"data", "full"}
      BY <2>2, <2>4 DEF Class
    <3>2. CASE f.op = "data"
      BY <2>4, <3>2
    <3>3. CASE f.op = "full"
      BY <2>4, <3>3
    <3> QED
      BY <3>1, <3>2, <3>3
  <2>6. /\ \A i \in 1..1 : stream[i] = Units(f, k)[2 + (i - 1)]
        /\ stream' # <<>> =>
             IF 2 + 1 <= Size(f)
             THEN stream'[1].frame = k /\ Place(stream[1])' = 2 + 1
             ELSE stream'[1].frame = k + 1 /\ Place(stream[1])' = 1
        /\ stream' = <<>> /\ ~eof => 2 + 1 = Size(f) + 1 /\ k = Len(frames)
    BY <1>1, <1>2, <2>2, <2>3, <2>5, GoesOn
  <2>7. stream[1] = Unit(k, "dlen", f.data)
    <3>1. stream[1] = Units(f, k)[2 + (1 - 1)] /\ 2 + (1 - 1) = 2
      BY <2>6
    <3> QED
      BY <2>2, <3>1, UnitsElements
  <2>8. dataLen' = f.data
    BY <2>1, <2>3, <2>7 DEF AsLength, Unit
  <2>9. /\ StaleData(Current)' = StaleData(Current) /\ LeftBody(Current)' = LeftBody(Current)
        /\ Current' = Current
    BY <1>2 DEF Current, StaleData, LeftBody
  <2>10. InCurrent'
    BY <1>2, <2>1, <2>2, <2>9 DEF InCurrent, AfterData
  <2>11. InStep'
    <3>1. /\ readPc' = "data" => dataLen' \in 1..f.data /\ Due' = 3 /\ 2 + 1 <= Size(f)
          /\ readPc' = "blen" => Due' = 3 /\ 2 + 1 <= Size(f)
      <4>1. CASE readPc' = "data"
        <5>1. f.data # 0 /\ dataLen' = f.data /\ f.data \in Nat
          BY <2>1, <2>4, <2>8, <4>1 DEF AfterData
        <5>2. 3 + f.data - f.data = 3 /\ f.data \in 1..f.data
          BY <5>1
        <5>3. f.op \in {"data", "full"}
          BY <2>2, <2>4 DEF Class
        <5>4. f.op = "data" => 2 + 1 <= Size(f)
          BY <2>4, <5>1
        <5>5. f.op = "full" => 2 + 1 <= Size(f)
          BY <2>4, <5>1
        <5> QED
          BY <1>2, <2>9, <4>1, <5>1, <5>2, <5>3, <5>4, <5>5 DEF Due
      <4>2. CASE readPc' = "blen"
        <5>1. f.data = 0 /\ op = "full"
          BY <2>1, <2>8, <4>2 DEF AfterData
        <5>2. 3 + f.data = 3 /\ 2 + 1 <= Size(f)
          BY <2>2, <2>4, <5>1
        <5> QED
          BY <1>2, <2>9, <4>2, <5>2 DEF Due
      <4> QED
        BY <4>1, <4>2
    <3>2. readPc' = "handle" => ~(2 + 1 <= Size(f))
      BY <2>1, <2>2, <2>4, <2>8 DEF AfterData, Class
    <3>3. readPc' \in {"data", "blen", "handle"} /\ 2 + 1 = 3
      BY <2>1 DEF AfterData
    <3>4. stream' # <<>> =>
            IF readPc' = "handle" THEN stream'[1].frame = k + 1 /\ Place(stream[1])' = 1
            ELSE stream'[1].frame = k /\ Place(stream[1])' = Due'
      BY <2>6, <3>1, <3>2, <3>3
    <3>5. stream' = <<>> /\ ~eof' => readPc' = "handle" /\ k = Len(frames)
      <4>1. 2 + 1 = Size(f) + 1 => ~(2 + 1 <= Size(f))
        BY <2>4
      <4> QED
        BY <1>2, <2>6, <3>1, <3>3, <4>1
    <3>6. Len(handled') <= Len(frames')
      BY <1>1, <1>2, <2>1 DEF InStep
    <3> QED
      BY <1>2, <2>9, <3>1, <3>3, <3>4, <3>5, <3>6 DEF InStep
  <2>12. Buffered'
    <3>1. data = StaleData(k) \o <<>> /\ body = LeftBody(k)
      BY <1>1, <1>2, <2>1 DEF Buffered
    <3>2. Bytes(k, "data", 0) = <<>> /\ f.data - f.data = 0
      BY <2>2, <2>4, NoBytes
    <3>3. readPc' = "data" => f.data - dataLen' = 0
      BY <2>8, <3>2
    <3>4. readPc' \in {"blen", "handle"} => f.data = 0 /\ ~(readPc' = "handle" /\ op' = "full")
      BY <1>2, <2>1, <2>8 DEF AfterData
    <3>5. readPc' \in {"data", "blen", "handle"}
      BY <2>1 DEF AfterData
    <3> QED
      BY <1>2, <2>9, <3>1, <3>2, <3>3, <3>4, <3>5 DEF Buffered
  <2> QED
    BY <1>2, <1>5, <2>1, <2>10, <2>11, <2>12, InvInStep
<1> QED
  BY <1>2, <1>3, <1>4, <1>5 DEF ReadTypeOK

LEMMA BodyLengthKeepsInv ==
    ASSUME ReadInv, ReadBodyLength
    PROVE  ReadInv'
<1> DEFINE k == Current
           f == frames[k]
<1>1. ReadTypeOK /\ WholeFrames /\ InCurrent /\ InStep /\ Buffered /\ CutOff
  BY DEF ReadInv
<1>2. /\ ReadTypeOK' /\ WholeFrames' /\ Len(frames) <= Len(frames') /\ Inside
      /\ readPc = "blen" /\ ReadLength("body", "handle") /\ body' = <<>>
      /\ UNCHANGED <<frames, eof, op, data, handled>>
  <2>1. ReadLength("body", "handle") /\ readPc = "blen" /\ body' = <<>>
    BY DEF ReadBodyLength
  <2>2. UNCHANGED <<frames, eof, op, data, handled>>
    BY DEF ReadBodyLength, ReadLength
  <2>3. ReadTypeOK' /\ WholeFrames'
    BY <1>1, <2>1, <2>2, LengthTypes
  <2> QED
    BY <1>1, <2>1, <2>2, <2>3, Types DEF Inside
<1>3. CASE failed' = "timeout"
  <2>1. failed # "end"
    BY <1>1, <1>2, <1>3, ErrorCases DEF ReadLength, Ready, CutOff
  <2> QED
    BY <1>2, <1>3, <2>1, TimedOut
<1>4. CASE failed' = "end"
  <2>1. /\ failed \in {"none", "end"} /\ eof /\ stream = <<>> /\ stream' = stream
        /\ readPc' \in {"body", "handle"}
    BY <1>2, <1>4, LengthRead
  <2>2. Len(handled) < Len(frames) /\ op = "full"
    BY <1>1, <1>2, <2>1 DEF InCurrent
  <2>3. /\ k \in 1..MaxFrames /\ f.body \in Nat
        /\ IsPrefix(data, StaleData(k) \o Bytes(k, "data", f.data))
    BY <1>1, <1>2, <2>1, <2>2, PartOfFrame, CurrentFrame, Frames
  <2>4. Bytes(k, "body", f.body) \in Seq(UnitType)
    BY <2>3, BytesElements
  <2>5. IsPrefix(<<>>, Bytes(k, "body", f.body))
    BY <2>4, TrivialPrefixes
  <2>6. StaleData(Current)' = StaleData(Current) /\ Current' = Current
    BY <1>2 DEF Current, StaleData
  <2>7. InCurrent'
    BY <1>1, <1>2, <2>1, <2>2, <2>6 DEF InCurrent
  <2>8. CutOff'
    BY <1>2, <2>1, <2>2, <2>3, <2>5, <2>6 DEF CutOff
  <2> QED
    BY <1>2, <1>4, <2>1, <2>7, <2>8, InvCutOff
<1>5. CASE failed' = "none"
  <2>1. /\ failed = "none" /\ stream # <<>> /\ stream' = Tail(stream)
        /\ lenBuf' \in AsLength(Head(stream))
        /\ dataLen' = lenBuf' /\ readPc' = IF dataLen' = 0 THEN "handle" ELSE "body"
    BY <1>2, <1>5, LengthRead
  <2>2. /\ StreamTypes /\ Len(handled) < Len(frames) /\ k \in 1..MaxFrames /\ f \in FrameType
        /\ stream[1].frame = k /\ Place(stream[1]) = Due
        /\ StaleData(k) \in Seq(UnitType)
    BY <1>2, <2>1, Reading
  <2>3. op = "full" /\ f.op = "full" /\ Place(stream[1]) = 3 + f.data
    BY <1>1, <1>2, <2>1, <2>2 DEF InCurrent, Due
  <2>4. /\ Size(f) = 3 + f.data + f.body /\ f.data \in Nat /\ f.body \in Nat
    BY <2>2, <2>3, Frames
  <2>5. /\ 1 \in 1..Len(stream) /\ Head(stream) = stream[1]
        /\ stream' = SubSeq(stream, 1 + 1, Len(stream))
    BY <1>1, <1>2, <2>1, <2>2, TakingOne
  <2> DEFINE pos == 3 + f.data
  <2>6. pos + 1 <= Size(f) + 1 /\ pos \in Nat
    BY <2>4
  <2>7. Place(stream[1]) = pos
    BY <2>3
  <2> HIDE DEF pos
  <2>8. /\ \A i \in 1..1 : stream[i] = Units(f, k)[pos + (i - 1)]
        /\ stream' # <<>> =>
             IF pos + 1 <= Size(f)
             THEN stream'[1].frame = k /\ Place(stream[1])' = pos + 1
             ELSE stream'[1].frame = k + 1 /\ Place(stream[1])' = 1
        /\ stream' = <<>> /\ ~eof => pos + 1 = Size(f) + 1 /\ k = Len(frames)
    <3>1. /\ StreamTypes /\ WholeFrames /\ 1 \in 1..Len(stream) /\ UNCHANGED <<frames, eof>>
          /\ k = stream[1].frame /\ pos = Place(stream[1]) /\ pos + 1 <= Size(f) + 1
          /\ k \in 1..MaxFrames /\ pos \in Nat
      BY <1>1, <1>2, <2>2, <2>5, <2>6, <2>7
    <3> QED
      BY <2>5, <3>1, GoesOn
  <2>9. stream[1] = Unit(k, "blen", f.body)
    <3>1. 1 \in 1..1 /\ pos + (1 - 1) = pos
      BY <2>6
    <3>2. stream[1] = Units(f, k)[pos]
      BY <2>8, <3>1
    <3> QED
      BY <2>2, <2>3, <3>2, UnitsElements DEF pos
  <2>10. dataLen' = f.body
    BY <2>1, <2>5, <2>9 DEF AsLength, Unit
  <2>11. /\ StaleData(Current)' = StaleData(Current) /\ LeftBody(Current)' = LeftBody(Current)
         /\ Current' = Current
    BY <1>2 DEF Current, StaleData, LeftBody
  <2>12. InCurrent'
    BY <1>2, <2>1, <2>2, <2>3, <2>11 DEF InCurrent
  <2>13. InStep'
    <3>1. readPc' = "body" => dataLen' \in 1..f.body /\ Due' = pos + 1 /\ pos + 1 <= Size(f)
      <4> SUFFICES ASSUME readPc' = "body" PROVE dataLen' \in 1..f.body /\ Due' = pos + 1 /\ pos + 1 <= Size(f)
        OBVIOUS
      <4>1. f.body # 0 /\ dataLen' = f.body
        BY <2>1, <2>10
      <4>2. f.body \in 1..f.body /\ 4 + f.data + f.body - f.body = pos + 1 /\ pos + 1 <= Size(f)
        BY <2>4, <4>1 DEF pos
      <4>3. Due' = 4 + f.data + f.body - f.body
        BY <1>2, <2>11, <4>1 DEF Due
      <4> QED
        BY <4>1, <4>2, <4>3
    <3>2. readPc' = "handle" => ~(pos + 1 <= Size(f))
      BY <2>1, <2>4, <2>10 DEF pos
    <3>3. readPc' \in {"body", "handle"}
      BY <2>1
    <3>4. stream' # <<>> =>
            IF readPc' = "handle" THEN stream'[1].frame = k + 1 /\ Place(stream[1])' = 1
            ELSE stream'[1].frame = k /\ Place(stream[1])' = Due'
      BY <2>8, <3>1, <3>2, <3>3
    <3>5. stream' = <<>> /\ ~eof' => readPc' = "handle" /\ k = Len(frames)
      <4>1. pos + 1 = Size(f) + 1 => ~(pos + 1 <= Size(f))
        BY <2>4, <2>6
      <4> QED
        BY <1>2, <2>8, <3>1, <3>3, <4>1
    <3>6. Len(handled') <= Len(frames')
      BY <1>1, <1>2, <2>1 DEF InStep
    <3> QED
      BY <1>2, <2>11, <3>1, <3>3, <3>4, <3>5, <3>6 DEF InStep
  <2>14. Buffered'
    <3>1. data = StaleData(k) \o Bytes(k, "data", f.data)
      BY <1>1, <1>2, <2>1 DEF Buffered
    <3>2. Bytes(k, "body", 0) = <<>> /\ f.body - f.body = 0
      BY <2>2, <2>4, NoBytes
    <3>3. readPc' = "body" => f.body - dataLen' = 0
      BY <2>10, <3>2
    <3>4. readPc' = "handle" => f.body = 0 /\ op' = "full"
      BY <1>2, <2>1, <2>3, <2>10
    <3>5. readPc' \in {"body", "handle"}
      BY <2>1
    <3> QED
      BY <1>2, <2>11, <3>1, <3>2, <3>3, <3>4, <3>5 DEF Buffered
  <2> QED
    BY <1>2, <1>5, <2>1, <2>12, <2>13, <2>14, InvInStep
<1> QED
  BY <1>2, <1>3, <1>4, <1>5 DEF ReadTypeOK

LEMMA BytesTypes ==
    ASSUME ReadTypeOK, WholeFrames, NEW n \in 0..Len(stream), NEW after \in {"blen", "handle"},
           ReadBytes(n, after), data' \in Seq(UnitType), body' \in Seq(UnitType)
    PROVE  ReadTypeOK' /\ WholeFrames'
<1>1. StreamTypes /\ UNCHANGED <<frames, eof, op, lenBuf, handled>>
  BY Types DEF ReadBytes
<1>2. CASE /\ n \in 1..Len(stream) /\ n <= dataLen
           /\ stream' = SubSeq(stream, n + 1, Len(stream))
           /\ dataLen' = dataLen - n /\ readPc' \in {after, readPc} /\ UNCHANGED <<late, failed>>
  <2>1. stream' \in Seq(UnitType) /\ WholeFrames'
    BY <1>1, <1>2, Taking
  <2>2. dataLen' \in Nat
    BY <1>2 DEF ReadTypeOK
  <2> QED
    BY <1>1, <1>2, <2>1, <2>2 DEF ReadTypeOK
<1>3. CASE Error /\ readPc' = after /\ UNCHANGED <<stream, dataLen>>
  <2>1. WholeFrames'
    BY <1>1, <1>3, WholeStays
  <2> QED
    BY <1>1, <1>3, <2>1, ErrorTypes DEF ReadTypeOK
<1> QED
  BY <1>2, <1>3 DEF ReadBytes, Ready

\* What a Read of bytes does, while no Read has failed or when the end has come.
LEMMA BytesRead ==
    ASSUME ReadInv, NEW n \in 0..Len(stream), NEW after \in {"blen", "handle"},
           ReadBytes(n, after), failed' # "timeout"
    PROVE  /\ failed' = "end" =>
                /\ failed \in {"none", "end"} /\ eof /\ stream = <<>> /\ stream' = stream
                /\ n = 0 /\ readPc' = after
           /\ failed' = "none" =>
                /\ failed = "none" /\ stream # <<>> /\ n \in 1..Len(stream) /\ n <= dataLen
                /\ stream' = SubSeq(stream, n + 1, Len(stream))
                /\ dataLen' = dataLen - n /\ readPc' = (IF dataLen' = 0 THEN after ELSE readPc)
           /\ UNCHANGED <<frames, eof, op, handled>>
<1>1. ReadTypeOK /\ CutOff
  BY DEF ReadInv
<1>2. Len(stream) = 0 <=> stream = <<>>
  BY <1>1, EmptySeq DEF ReadTypeOK
<1>3. n \in 1..Len(stream) => stream # <<>>
  BY <1>1, <1>2, LenProperties
<1> QED
  BY <1>1, <1>3, ErrorCases DEF ReadTypeOK, CutOff, ReadBytes, Ready

\* The bytes of the frame the loop is in, read one after the other.
LEMMA BytesJoin ==
    ASSUME NEW k \in 1..MaxFrames, NEW kind \in {"data", "body"}, NEW m \in Nat,
           NEW s \in Seq(UnitType), NEW t \in Seq(UnitType),
           \A i \in 1..Len(t) : t[i] = Unit(k, kind, m + i)
    PROVE  (s \o Bytes(k, kind, m)) \o t = s \o Bytes(k, kind, m + Len(t))
<1>1. Bytes(k, kind, m) \o t = Bytes(k, kind, m + Len(t))
  BY MoreBytes
<1>2. Bytes(k, kind, m) \in Seq(UnitType)
  BY BytesElements
<1>3. (s \o Bytes(k, kind, m)) \o t = s \o (Bytes(k, kind, m) \o t)
  BY <1>2, ConcatAssociative, SMTT(30)
<1> QED
  BY <1>1, <1>3

\* Of the D bytes behind the first b units of a frame of N units, l are left and n of
\* those are read now: the m + 1-th to the m + n-th, at place pos and behind it.
LEMMA Counting ==
    ASSUME NEW D \in Nat, NEW l \in 1..D, NEW n \in Nat, 1 <= n, n <= l,
           NEW N \in Nat, NEW b \in Nat, b + D <= N,
           NEW m, m = D - l, NEW pos, pos = b + m + 1
    PROVE  /\ m \in Nat /\ pos \in Nat /\ pos + n <= N + 1
           /\ l - n \in Nat /\ D - (l - n) = m + n
           /\ l - n = 0 => m + n = D /\ pos + n = b + D + 1
           /\ l - n # 0 => l - n \in 1..D /\ pos + n <= N
           /\ \A i \in 1..n : m + i \in 1..D /\ pos + (i - 1) = b + (m + i)
<1>1. /\ D \in Int /\ l \in Int /\ n \in Int /\ N \in Int /\ b \in Int /\ 1 <= l /\ l <= D
      /\ 0 <= b
  OBVIOUS
<1>2. m \in Nat /\ m + l = D /\ pos \in Nat /\ pos + n <= N + 1
  BY <1>1
<1>3. /\ l - n \in Nat /\ D - (l - n) = m + n
      /\ l - n = 0 => m + n = D /\ pos + n = b + D + 1
  BY <1>1
<1>4. l - n # 0 => l - n \in 1..D /\ pos + n <= N
  BY <1>1
<1>5. \A i \in 1..n : m + i \in 1..D /\ pos + (i - 1) = b + (m + i)
  BY <1>1
<1> QED
  BY <1>2, <1>3, <1>4, <1>5

LEMMA DataKeepsInv ==
    ASSUME ReadInv, ReadData
    PROVE  ReadInv'
<1> DEFINE k == Current
           f == frames[k]
<1>1. ReadTypeOK /\ WholeFrames /\ InCurrent /\ InStep /\ Buffered /\ CutOff
  BY DEF ReadInv
<1>2. PICK n \in 0..Len(stream) :
        ReadBytes(n, AfterData) /\ data' = data \o SubSeq(stream, 1, n)
  BY DEF ReadData
<1> DEFINE read == SubSeq(stream, 1, n)
<1>3. read \in Seq(UnitType) /\ Len(read) = n /\ \A i \in 1..n : read[i] = stream[i]
  BY <1>1, Rest DEF ReadTypeOK
<1> HIDE DEF read
<1>4. /\ ReadTypeOK' /\ WholeFrames' /\ Len(frames) <= Len(frames') /\ Inside
      /\ readPc = "data" /\ AfterData \in {"blen", "handle"} /\ body' = body
      /\ UNCHANGED <<frames, eof, op, handled>>
  <2>1. AfterData \in {"blen", "handle"} /\ body' = body /\ readPc = "data"
    BY DEF ReadData, AfterData
  <2>2. data' = data \o read
    BY <1>2 DEF read
  <2>3. data' \in Seq(UnitType) /\ body' \in Seq(UnitType)
    BY <1>1, <1>3, <2>1, <2>2, ConcatProperties DEF ReadTypeOK
  <2>4. ReadTypeOK' /\ WholeFrames'
    BY <1>1, <1>2, <2>1, <2>3, BytesTypes
  <2> QED
    BY <1>1, <1>2, <2>1, <2>4, Types DEF Inside, ReadBytes
<1>5. CASE failed' = "timeout"
  <2>1. failed # "end"
    BY <1>1, <1>2, <1>5, ErrorCases DEF ReadBytes, Ready, CutOff
  <2> QED
    BY <1>4, <1>5, <2>1, TimedOut
<1>6. CASE failed' = "end"
  <2>1. /\ failed \in {"none", "end"} /\ eof /\ stream = <<>> /\ stream' = stream
        /\ n = 0 /\ readPc' = AfterData
    BY <1>2, <1>4, <1>6, BytesRead
  <2>2. data' = data
    <3>1. read = <<>>
      BY <1>3, <2>1, EmptySeq
    <3> QED
      BY <1>1, <1>2, <3>1, ConcatEmptySeq DEF ReadTypeOK, read
  <2>3. /\ IsPrefix(data, StaleData(k) \o Bytes(k, "data", f.data))
        /\ op # "full" => body = LeftBody(k)
    BY <1>4, <2>1, PartOfFrame
  <2>4. /\ StaleData(Current)' = StaleData(Current) /\ LeftBody(Current)' = LeftBody(Current)
        /\ Current' = Current
    BY <1>4 DEF Current, StaleData, LeftBody
  <2>5. InCurrent'
    BY <1>1, <1>4, <2>1, <2>4 DEF InCurrent, AfterData
  <2>6. ~(op' = "full" /\ readPc' \in {"body", "handle"})
    BY <1>4, <2>1 DEF AfterData
  <2>7. CutOff'
    BY <1>4, <2>1, <2>2, <2>3, <2>4, <2>6 DEF CutOff
  <2> QED
    BY <1>4, <1>6, <2>1, <2>5, <2>7, InvCutOff
<1>7. CASE failed' = "none"
  <2>1. /\ failed = "none" /\ stream # <<>> /\ n \in 1..Len(stream) /\ n <= dataLen
        /\ stream' = SubSeq(stream, n + 1, Len(stream))
        /\ dataLen' = dataLen - n /\ readPc' = (IF dataLen' = 0 THEN AfterData ELSE readPc)
    BY <1>2, <1>4, <1>7, BytesRead
  <2>2. /\ StreamTypes /\ Len(handled) < Len(frames) /\ k \in 1..MaxFrames /\ f \in FrameType
        /\ stream[1].frame = k /\ Place(stream[1]) = Due
        /\ StaleData(k) \in Seq(UnitType)
    BY <1>4, <2>1, Reading
  <2>3. /\ op = f.op /\ op # "bare" /\ Due = 3 + f.data - dataLen
        /\ dataLen \in 1..f.data
    BY <1>1, <1>4, <2>1 DEF InCurrent, Due, InStep
  <2>4. /\ f.op \in Class /\ Size(f) \in Nat /\ f.data \in Nat /\ f.body \in Nat
        /\ f.op = "data" => Size(f) = 2 + f.data
        /\ f.op = "full" => Size(f) = 3 + f.data + f.body
    BY <2>2, Frames
  <2>0. PICK m, pos : m = f.data - dataLen /\ pos = 2 + m + 1
    OBVIOUS
  <2>5. n \in Nat /\ 1 <= n /\ 2 + f.data <= Size(f)
    <3>1. f.op \in {"data", "full"}
      BY <2>3, <2>4 DEF Class
    <3> QED
      BY <2>1, <2>4, <3>1, SMTT(30)
  <2>6. /\ m \in Nat /\ pos \in Nat /\ pos + n <= Size(f) + 1
        /\ dataLen - n \in Nat /\ f.data - (dataLen - n) = m + n
        /\ dataLen - n = 0 => m + n = f.data /\ pos + n = 2 + f.data + 1
        /\ dataLen - n # 0 => dataLen - n \in 1..f.data /\ pos + n <= Size(f)
        /\ \A i \in 1..n : m + i \in 1..f.data /\ pos + (i - 1) = 2 + (m + i)
    <3>4. f.data \in Nat /\ dataLen \in Nat /\ Size(f) \in Nat
      BY <1>1, <2>4 DEF ReadTypeOK
    <3>1. PICK D \in Nat, l \in Nat, N \in Nat : D = f.data /\ l = dataLen /\ N = Size(f)
      BY <3>4
    <3>2. /\ l \in 1..D /\ n \in Nat /\ 1 <= n /\ n <= l /\ 2 + D <= N
          /\ m = D - l /\ pos = 2 + m + 1
      BY <2>0, <2>1, <2>3, <2>5, <3>1
    <3>3. /\ m \in Nat /\ pos \in Nat /\ pos + n <= N + 1
          /\ l - n \in Nat /\ D - (l - n) = m + n
          /\ l - n = 0 => m + n = D /\ pos + n = 2 + D + 1
          /\ l - n # 0 => l - n \in 1..D /\ pos + n <= N
          /\ \A i \in 1..n : m + i \in 1..D /\ pos + (i - 1) = 2 + (m + i)
      BY <3>2, Counting
    <3> QED
      BY <3>1, <3>3
  <2>7. Due = pos
    <3>1. \A D \in Nat, l \in Nat : 3 + D - l = 2 + (D - l) + 1
      OBVIOUS
    <3> QED
      BY <2>0, <2>3, <2>4, <3>1
  <2>9. /\ \A i \in 1..n : stream[i] = Units(f, k)[pos + (i - 1)]
        /\ stream' # <<>> =>
             IF pos + n <= Size(f)
             THEN stream'[1].frame = k /\ Place(stream[1])' = pos + n
             ELSE stream'[1].frame = k + 1 /\ Place(stream[1])' = 1
        /\ stream' = <<>> /\ ~eof => pos + n = Size(f) + 1 /\ k = Len(frames)
    <3>1. /\ StreamTypes /\ WholeFrames /\ UNCHANGED <<frames, eof>>
          /\ k = stream[1].frame /\ pos = Place(stream[1]) /\ pos + n <= Size(f) + 1
          /\ n \in 1..Len(stream) /\ stream' = SubSeq(stream, n + 1, Len(stream))
          /\ k \in 1..MaxFrames /\ pos \in Nat
      BY <1>1, <1>4, <2>1, <2>2, <2>6, <2>7
    <3> QED
      BY <3>1, GoesOn
  <2>10. \A i \in 1..n : read[i] = Unit(k, "data", m + i)
    <3>1. ASSUME NEW i \in 1..n PROVE read[i] = Unit(k, "data", m + i)
      <4>1. m + i \in 1..f.data /\ pos + (i - 1) = 2 + (m + i)
        BY <2>6
      <4>2. read[i] = Units(f, k)[2 + (m + i)]
        BY <1>3, <2>9, <4>1
      <4>3. f.op # "bare"
        BY <2>3
      <4> QED
        BY <2>2, <4>1, <4>2, <4>3, UnitsElements
    <3> QED
      BY <3>1
  <2>11. /\ StaleData(Current)' = StaleData(Current) /\ LeftBody(Current)' = LeftBody(Current)
         /\ Current' = Current
    BY <1>4 DEF Current, StaleData, LeftBody
  <2>12. readPc' \in {"data", "blen", "handle"} /\ (readPc' = "data" <=> dataLen' # 0)
    BY <1>4, <2>1
  <2>13. InCurrent'
    BY <1>4, <2>1, <2>2, <2>3, <2>11, <2>12 DEF InCurrent, AfterData
  <2>14. InStep'
    <3>1. CASE readPc' = "data"
      <4>1. dataLen' \in 1..f.data /\ pos + n <= Size(f)
        BY <2>1, <2>6, <2>12, <3>1
      <4>5. 3 + f.data - dataLen' = pos + n
        <5>1. m \in Int /\ n \in Int
          BY <2>5, <2>6
        <5>3. f.data \in Int /\ dataLen' \in Int /\ f.data - dataLen' = m + n
          BY <2>1, <2>4, <2>6
        <5>2. PICK D \in Int, l \in Int : D = f.data /\ l = dataLen'
          BY <5>3
        <5>4. D - l = m + n
          BY <5>2, <5>3, Zenon
        <5>5. 3 + D - l = (2 + m + 1) + n
          BY <5>1, <5>4
        <5> QED
          BY <2>0, <5>2, <5>5, Zenon
      <4>2. Due' = pos + n
        BY <1>4, <2>11, <3>1, <4>5 DEF Due
      <4>3. ~(pos + n = Size(f) + 1)
        BY <2>4, <4>1
      <4>4. Len(handled') <= Len(frames')
        BY <1>1, <1>4, <2>1 DEF InStep
      <4> QED
        BY <1>4, <2>9, <2>11, <3>1, <4>1, <4>2, <4>3, <4>4 DEF InStep
    <3>2. CASE readPc' = "blen"
      <4>1. op = "full" /\ pos + n = 2 + f.data + 1
        BY <1>4, <2>1, <2>6, <2>12, <3>2 DEF AfterData
      <4>2. pos + n <= Size(f) /\ 3 + f.data = pos + n
        <5>1. \A D \in Nat, B \in Nat : 2 + D + 1 <= 3 + D + B /\ 3 + D = 2 + D + 1
          OBVIOUS
        <5> QED
          BY <2>3, <2>4, <4>1, <5>1
      <4>3. Due' = pos + n
        BY <1>4, <2>11, <3>2, <4>2 DEF Due
      <4>4. ~(pos + n = Size(f) + 1)
        BY <2>4, <4>2
      <4>5. Len(handled') <= Len(frames')
        BY <1>1, <1>4, <2>1 DEF InStep
      <4> QED
        BY <1>4, <2>9, <2>11, <3>2, <4>2, <4>3, <4>4, <4>5 DEF InStep
    <3>3. CASE readPc' = "handle"
      <4>1. f.op = "data" /\ pos + n = 2 + f.data + 1
        BY <1>4, <2>1, <2>3, <2>4, <2>6, <2>12, <3>3 DEF AfterData, Class
      <4>2. ~(pos + n <= Size(f))
        BY <2>4, <2>6, <4>1
      <4>3. Len(handled') <= Len(frames')
        BY <1>1, <1>4, <2>1 DEF InStep
      <4> QED
        BY <1>4, <2>9, <2>11, <3>3, <4>2, <4>3 DEF InStep
    <3> QED
      BY <2>12, <3>1, <3>2, <3>3
  <2>15. Buffered'
    <3>1. data = StaleData(k) \o Bytes(k, "data", m) /\ body = LeftBody(k)
      BY <1>1, <1>4, <2>0, <2>1 DEF Buffered
    <3>2. data' = StaleData(k) \o Bytes(k, "data", m + n)
      <4>1. (StaleData(k) \o Bytes(k, "data", m)) \o read = StaleData(k) \o Bytes(k, "data", m + n)
        <5> DEFINE s == StaleData(k)
        <5>1. s \in Seq(UnitType) /\ k \in 1..MaxFrames /\ "data" \in {"data", "body"}
          BY <2>2
        <5> HIDE DEF s, k
        <5>2. \A i \in 1..Len(read) : read[i] = Unit(k, "data", m + i)
          BY <1>3, <2>10
        <5>3. (s \o Bytes(k, "data", m)) \o read = s \o Bytes(k, "data", m + Len(read))
          BY <1>3, <2>6, <5>1, <5>2, BytesJoin
        <5> QED
          BY <1>3, <5>3 DEF s
      <4> QED
        BY <1>2, <3>1, <4>1 DEF read
    <3>3. readPc' # "data" => m + n = f.data
      BY <2>1, <2>6, <2>12
    <3>5. f.data - dataLen' = m + n
      BY <2>1, <2>6
    <3>4. ~(readPc' = "handle" /\ op' = "full")
      BY <1>4, <2>1, <2>12 DEF AfterData
    <3> QED
      BY <1>4, <2>11, <2>12, <3>1, <3>2, <3>3, <3>4, <3>5 DEF Buffered
  <2> QED
    BY <1>4, <1>7, <2>1, <2>13, <2>14, <2>15, InvInStep
<1> QED
  BY <1>4, <1>5, <1>6, <1>7 DEF ReadTypeOK

LEMMA BodyKeepsInv ==
    ASSUME ReadInv, ReadBody
    PROVE  ReadInv'
<1> DEFINE k == Current
           f == frames[k]
<1>1. ReadTypeOK /\ WholeFrames /\ InCurrent /\ InStep /\ Buffered /\ CutOff
  BY DEF ReadInv
<1>2. PICK n \in 0..Len(stream) :
        ReadBytes(n, "handle") /\ body' = body \o SubSeq(stream, 1, n)
  BY DEF ReadBody
<1> DEFINE read == SubSeq(stream, 1, n)
<1>3. read \in Seq(UnitType) /\ Len(read) = n /\ \A i \in 1..n : read[i] = stream[i]
  BY <1>1, Rest DEF ReadTypeOK
<1> HIDE DEF read
<1>4. /\ ReadTypeOK' /\ WholeFrames' /\ Len(frames) <= Len(frames') /\ Inside
      /\ readPc = "body" /\ data' = data
      /\ UNCHANGED <<frames, eof, op, handled>>
  <2>1. data' = data /\ readPc = "body"
    BY DEF ReadBody
  <2>2. body' = body \o read
    BY <1>2 DEF read
  <2>3. data' \in Seq(UnitType) /\ body' \in Seq(UnitType)
    BY <1>1, <1>3, <2>1, <2>2, ConcatProperties DEF ReadTypeOK
  <2>4. ReadTypeOK' /\ WholeFrames'
    BY <1>1, <1>2, <2>3, BytesTypes
  <2> QED
    BY <1>1, <1>2, <2>1, <2>4, Types DEF Inside, ReadBytes
<1>5. CASE failed' = "timeout"
  <2>1. failed # "end"
    BY <1>1, <1>2, <1>5, ErrorCases DEF ReadBytes, Ready, CutOff
  <2> QED
    BY <1>4, <1>5, <2>1, TimedOut
<1>6. CASE failed' = "end"
  <2>1. /\ failed \in {"none", "end"} /\ eof /\ stream = <<>> /\ stream' = stream
        /\ n = 0 /\ readPc' = "handle"
    BY <1>2, <1>6, BytesRead
  <2>2. body' = body
    <3>1. read = <<>>
      BY <1>3, <2>1, EmptySeq
    <3> QED
      BY <1>1, <1>2, <3>1, ConcatEmptySeq DEF ReadTypeOK, read
  <2>3. op = "full"
    BY <1>1, <1>4, <2>1 DEF InCurrent
  <2>4. /\ IsPrefix(data, StaleData(k) \o Bytes(k, "data", f.data))
        /\ IsPrefix(body, Bytes(k, "body", f.body))
    BY <1>4, <2>1, <2>3, PartOfFrame
  <2>5. StaleData(Current)' = StaleData(Current) /\ Current' = Current
    BY <1>4 DEF Current, StaleData
  <2>6. InCurrent'
    BY <1>1, <1>4, <2>1, <2>5 DEF InCurrent
  <2>7. CutOff'
    BY <1>4, <2>1, <2>2, <2>3, <2>4, <2>5 DEF CutOff
  <2> QED
    BY <1>4, <1>6, <2>1, <2>6, <2>7, InvCutOff
<1>7. CASE failed' = "none"
  <2>1. /\ failed = "none" /\ stream # <<>> /\ n \in 1..Len(stream) /\ n <= dataLen
        /\ stream' = SubSeq(stream, n + 1, Len(stream))
        /\ dataLen' = dataLen - n /\ readPc' = (IF dataLen' = 0 THEN "handle" ELSE readPc)
    BY <1>2, <1>7, BytesRead
  <2>2. /\ StreamTypes /\ Len(handled) < Len(frames) /\ k \in 1..MaxFrames /\ f \in FrameType
        /\ stream[1].frame = k /\ Place(stream[1]) = Due
    BY <1>4, <2>1, Reading
  <2>3. /\ op = "full" /\ f.op = "full" /\ Due = 4 + f.data + f.body - dataLen
        /\ dataLen \in 1..f.body
    BY <1>1, <1>4, <2>1 DEF InCurrent, Due, InStep
  <2>4. f.data \in Nat /\ f.body \in Nat /\ Size(f) \in Nat /\ Size(f) = 3 + f.data + f.body
    BY <2>2, <2>3, Frames
  <2>5. n \in Nat /\ 1 <= n /\ dataLen \in Nat
    BY <1>1, <2>1 DEF ReadTypeOK
  <2>6. PICK A \in Nat, D \in Nat, l \in Nat : A = f.data /\ D = f.body /\ l = dataLen
    BY <2>4, <2>5
  <2>7. PICK N \in Nat, b \in Nat : N = 3 + A + D /\ b = 3 + A /\ b + D <= N
    <3>1. 3 + A + D \in Nat /\ 3 + A \in Nat /\ (3 + A) + D <= 3 + A + D
      OBVIOUS
    <3> QED
      BY <3>1
  <2>8. PICK m, pos : m = D - l /\ pos = b + m + 1
    OBVIOUS
  <2>9. /\ m \in Nat /\ pos \in Nat /\ pos + n <= N + 1
        /\ l - n \in Nat /\ D - (l - n) = m + n
        /\ l - n = 0 => m + n = D /\ pos + n = b + D + 1
        /\ l - n # 0 => l - n \in 1..D /\ pos + n <= N
        /\ \A i \in 1..n : m + i \in 1..D /\ pos + (i - 1) = b + (m + i)
    <3>1. l \in 1..D /\ n \in Nat /\ 1 <= n /\ n <= l
      BY <2>1, <2>3, <2>5, <2>6
    <3> QED
      BY <2>7, <2>8, <3>1, Counting
  <2>10. Size(f) = N /\ Due = pos
    <3>1. Size(f) = N
      BY <2>4, <2>6, <2>7
    <3>2. 4 + A + D - l = pos
      BY <2>7, <2>8
    <3> QED
      BY <2>3, <2>6, <3>1, <3>2
  <2>12. /\ \A i \in 1..n : stream[i] = Units(f, k)[pos + (i - 1)]
         /\ stream' # <<>> =>
              IF pos + n <= N
              THEN stream'[1].frame = k /\ Place(stream[1])' = pos + n
              ELSE stream'[1].frame = k + 1 /\ Place(stream[1])' = 1
         /\ stream' = <<>> /\ ~eof => pos + n = N + 1 /\ k = Len(frames)
    <3>1. /\ StreamTypes /\ WholeFrames /\ UNCHANGED <<frames, eof>>
          /\ k = stream[1].frame /\ pos = Place(stream[1]) /\ pos + n <= Size(f) + 1
          /\ n \in 1..Len(stream) /\ stream' = SubSeq(stream, n + 1, Len(stream))
          /\ k \in 1..MaxFrames /\ pos \in Nat
      BY <1>1, <1>4, <2>1, <2>2, <2>9, <2>10
    <3>2. /\ \A i \in 1..n : stream[i] = Units(f, k)[pos + (i - 1)]
          /\ stream' # <<>> =>
               IF pos + n <= Size(f)
               THEN stream'[1].frame = k /\ Place(stream[1])' = pos + n
               ELSE stream'[1].frame = k + 1 /\ Place(stream[1])' = 1
          /\ stream' = <<>> /\ ~eof => pos + n = Size(f) + 1 /\ k = Len(frames)
      BY <3>1, GoesOn
    <3> QED
      BY <2>10, <3>2
  <2>13. \A i \in 1..n : read[i] = Unit(k, "body", m + i)
    <3>1. ASSUME NEW i \in 1..n PROVE read[i] = Unit(k, "body", m + i)
      <4>1. m + i \in 1..D /\ pos + (i - 1) = b + (m + i)
        BY <2>9
      <4>2. read[i] = Units(f, k)[3 + f.data + (m + i)]
        BY <1>3, <2>6, <2>7, <2>12, <4>1
      <4> QED
        BY <2>2, <2>3, <2>6, <4>1, <4>2, UnitsElements
    <3> QED
      BY <3>1
  <2>14. /\ StaleData(Current)' = StaleData(Current) /\ LeftBody(Current)' = LeftBody(Current)
         /\ Current' = Current
    BY <1>4 DEF Current, StaleData, LeftBody
  <2>15. readPc' \in {"body", "handle"} /\ (readPc' = "body" <=> dataLen' # 0) /\ dataLen' = l - n
    BY <1>4, <2>1, <2>6
  <2>16. InCurrent'
    BY <1>4, <2>1, <2>2, <2>3, <2>14, <2>15 DEF InCurrent
  <2>17. InStep'
    <3>0. Len(handled') <= Len(frames')
      BY <1>1, <1>4, <2>1 DEF InStep
    <3>1. CASE readPc' = "body"
      <4>1. dataLen' \in 1..f.body /\ pos + n <= N
        BY <2>6, <2>9, <2>15, <3>1
      <4>2. 4 + A + D - (l - n) = pos + n
        BY <2>7, <2>8, <2>9, <2>5
      <4>3. Due' = pos + n
        BY <1>4, <2>6, <2>14, <2>15, <3>1, <4>2 DEF Due
      <4>4. ~(pos + n = N + 1)
        BY <2>7, <4>1
      <4> QED
        BY <1>4, <2>12, <2>14, <3>0, <3>1, <4>1, <4>3, <4>4 DEF InStep
    <3>2. CASE readPc' = "handle"
      <4>1. pos + n = b + D + 1
        BY <2>9, <2>15, <3>2
      <4>2. ~(pos + n <= N)
        BY <2>7, <4>1
      <4> QED
        BY <1>4, <2>12, <2>14, <3>0, <3>2, <4>2 DEF InStep
    <3> QED
      BY <2>15, <3>1, <3>2
  <2>18. Buffered'
    <3>1. /\ data = StaleData(k) \o Bytes(k, "data", f.data)
          /\ body = Bytes(k, "body", m)
      BY <1>1, <1>4, <2>1, <2>6, <2>8 DEF Buffered
    <3>2. body' = Bytes(k, "body", m + n)
      <4>1. \A i \in 1..Len(read) : read[i] = Unit(k, "body", m + i)
        BY <1>3, <2>13
      <4>2. Bytes(k, "body", m) \o read = Bytes(k, "body", m + Len(read))
        BY <1>3, <2>2, <2>9, <4>1, MoreBytes
      <4> QED
        BY <1>2, <1>3, <3>1, <4>2 DEF read
    <3>3. readPc' = "handle" => m + n = f.body
      BY <2>6, <2>9, <2>15
    <3>4. f.body - dataLen' = m + n
      BY <2>6, <2>9, <2>15
    <3>5. op' = "full"
      BY <1>4, <2>3
    <3> QED
      BY <1>4, <2>14, <2>15, <3>1, <3>2, <3>3, <3>4, <3>5 DEF Buffered
  <2> QED
    BY <1>4, <1>7, <2>1, <2>16, <2>17, <2>18, InvInStep
<1> QED
  BY <1>4, <1>5, <1>6, <1>7 DEF ReadTypeOK

\* What a call of the handler adds to what was handled.
LEMMA Added ==
    ASSUME ReadTypeOK, NEW call, handled' = Append(handled, call),
           call \in [op : Class, data : Seq(UnitType), body : Seq(UnitType), ok : BOOLEAN]
    PROVE  /\ handled' \in Seq([op : Class, data : Seq(UnitType), body : Seq(UnitType), ok : BOOLEAN])
           /\ Len(handled') = Current /\ DOMAIN handled' = 1..Current
           /\ handled'[Current] = call
           /\ \A i \in 1..Len(handled) : handled'[i] = handled[i]
           /\ \A i \in 1..Current : /\ StaleData(i)' = StaleData(i) /\ LeftBody(i)' = LeftBody(i)
<1> DEFINE Call == [op : Class, data : Seq(UnitType), body : Seq(UnitType), ok : BOOLEAN]
<1>1. handled \in Seq(Call) /\ call \in Call
  BY DEF ReadTypeOK
<1> HIDE DEF Call
<1>2. /\ handled' \in Seq(Call) /\ Len(handled') = Len(handled) + 1
      /\ \A i \in 1..Len(handled) : handled'[i] = handled[i]
      /\ handled'[Len(handled) + 1] = call
  BY <1>1, AppendProperties
<1>3. Len(handled) \in Nat /\ DOMAIN handled' = 1..(Len(handled) + 1)
  BY <1>1, <1>2, LenProperties
<1>4. ASSUME NEW i \in 1..Current
      PROVE  StaleData(i)' = StaleData(i) /\ LeftBody(i)' = LeftBody(i)
  <2>1. i > 1 => handled'[i - 1] = handled[i - 1]
    <3>1. i > 1 => i - 1 \in 1..Len(handled)
      BY <1>3 DEF Current
    <3> QED
      BY <1>2, <3>1
  <2> QED
    BY <2>1 DEF StaleData, LeftBody
<1> QED
  BY <1>2, <1>3, <1>4 DEF Current, Call

\* What was handled before the frame the loop is in has been handled whole.
LEMMA ServedBefore ==
    ASSUME ReadTypeOK, Served, Inside, UNCHANGED frames, NEW k, k = Len(handled) + 1,
           Len(handled') = k, k <= Len(frames),
           DOMAIN handled' = 1..k, \A i \in 1..Len(handled) : handled'[i] = handled[i],
           \A i \in 1..k : StaleData(i)' = StaleData(i) /\ LeftBody(i)' = LeftBody(i),
           Exactly(k)' \/ (CutShort(k)' /\ (failed = "end")' /\ ~Inside')
    PROVE  Served'
<1>1. Len(handled) \in Nat /\ DOMAIN handled = 1..Len(handled)
  BY Types
<1>2. ASSUME NEW i \in 1..Len(handled)
      PROVE  Exactly(i)'
  <2>1. Exactly(i)
    BY <1>1 DEF Served
  <2>2. i \in 1..k
    BY <1>1
  <2> QED
    BY <2>1, <2>2 DEF Exactly, StaleBody
<1>3. \A i \in 1..k : i \in 1..Len(handled) \/ i = k
  BY <1>1
<1> QED
  BY <1>2, <1>3 DEF Served

\* The handler is called with the whole frame, or with what there was of it.
LEMMA Calling ==
    ASSUME ReadInv, readPc = "handle", readPc' = "op", UNCHANGED <<frames, failed>>,
           NEW call, handled' = Append(handled, call),
           call \in [op : Class, data : Seq(UnitType), body : Seq(UnitType), ok : BOOLEAN],
           call.op = op, call.data = data, call.body = body, failed # "timeout"
    PROVE  Served' /\ Current \in 1..Len(frames)
<1>0. PICK k : k = Current
  OBVIOUS
<1> DEFINE f == frames[k]
<1>1. ReadTypeOK /\ InCurrent /\ Buffered /\ CutOff /\ Served
  BY DEF ReadInv
<1>2. /\ Len(handled') = k /\ DOMAIN handled' = 1..k /\ handled'[k] = call
      /\ \A i \in 1..Len(handled) : handled'[i] = handled[i]
      /\ \A i \in 1..k : StaleData(i)' = StaleData(i) /\ LeftBody(i)' = LeftBody(i)
  BY <1>0, <1>1, Added
<1>3. Inside /\ Len(handled) < Len(frames) /\ op = f.op
  BY <1>0, <1>1 DEF Inside, InCurrent
<1>4. /\ k \in 1..Len(frames) /\ k \in 1..MaxFrames /\ f \in FrameType
      /\ StaleData(k) \in Seq(UnitType) /\ LeftBody(k) \in Seq(UnitType)
      /\ Len(handled) \in Nat /\ Len(frames) \in Nat /\ k = Len(handled) + 1 /\ k \in 1..k
  BY <1>0, <1>1, <1>3, CurrentFrame, StaleTypes, Types
<1>5. f.data \in Nat /\ f.body \in Nat /\ (f.op # "full" => f.body = 0)
  BY <1>4, Frames
<1>6. /\ Bytes(k, "body", f.body) \in Seq(UnitType)
      /\ <<>> \o Bytes(k, "body", f.body) = Bytes(k, "body", f.body)
      /\ f.op # "full" => LeftBody(k) \o Bytes(k, "body", f.body) = LeftBody(k)
  <2>1. Bytes(k, "body", f.body) \in Seq(UnitType)
    BY <1>4, <1>5, BytesElements
  <2>2. Bytes(k, "body", 0) = <<>>
    BY <1>4, NoBytes
  <2>3. LeftBody(k) \o <<>> = LeftBody(k)
    BY <1>4, ConcatEmptySeq
  <2> QED
    BY <1>5, <2>1, <2>2, <2>3, ConcatEmptySeq
<1>7. /\ handled'[k].op = op /\ handled'[k].data = data /\ handled'[k].body = body
      /\ StaleData(k)' = StaleData(k) /\ frames'[k] = f
      /\ StaleBody(k)' = IF op # "full" THEN LeftBody(k) ELSE <<>>
  BY <1>2, <1>4 DEF StaleBody
<1>10. k <= Len(frames) /\ Current \in 1..Len(frames)
  BY <1>0, <1>4
<1>8. CASE failed = "none"
  <2>1. /\ data = StaleData(k) \o Bytes(k, "data", f.data)
        /\ body = IF op = "full" THEN Bytes(k, "body", f.body) ELSE LeftBody(k)
    BY <1>0, <1>1, <1>8 DEF Buffered
  <2>2. body = (IF op # "full" THEN LeftBody(k) ELSE <<>>) \o Bytes(k, "body", f.body)
    BY <1>3, <1>6, <2>1
  <2>3. Exactly(k)'
    BY <1>3, <1>7, <2>1, <2>2 DEF Exactly
  <2> QED
    BY <1>1, <1>2, <1>3, <1>4, <1>10, <2>3, ServedBefore
<1>9. CASE failed = "end"
  <2>1. /\ IsPrefix(data, StaleData(k) \o Bytes(k, "data", f.data))
        /\ IF op = "full" THEN IsPrefix(body, Bytes(k, "body", f.body))
           ELSE body = LeftBody(k)
    BY <1>0, <1>1, <1>3, <1>9 DEF CutOff
  <2>2. IsPrefix(body, (IF op # "full" THEN LeftBody(k) ELSE <<>>) \o Bytes(k, "body", f.body))
    <3>1. IsPrefix(LeftBody(k), LeftBody(k))
      BY <1>4, TrivialPrefixes
    <3> QED
      BY <1>3, <1>6, <2>1, <3>1
  <2>3. CutShort(k)'
    BY <1>3, <1>7, <2>1, <2>2 DEF CutShort
  <2>4. ~Inside'
    BY DEF Inside
  <2> QED
    BY <1>1, <1>2, <1>3, <1>4, <1>9, <1>10, <2>3, <2>4, ServedBefore
<1> QED
  BY <1>1, <1>8, <1>9 DEF ReadTypeOK

LEMMA HandleKeepsInv ==
    ASSUME ReadInv, Handle
    PROVE  ReadInv'
<1>1. ReadTypeOK /\ WholeFrames /\ InCurrent /\ InStep /\ Buffered /\ CutOff /\ Served
  BY DEF ReadInv
<1>2. PICK ok \in BOOLEAN :
        /\ Record([op |-> op, data |-> data, body |-> body, ok |-> ok])
        /\ data' = (IF ok THEN <<>> ELSE data) /\ body' = (IF ok THEN <<>> ELSE body)
  BY DEF Handle
<1> DEFINE Call == [op : Class, data : Seq(UnitType), body : Seq(UnitType), ok : BOOLEAN]
<1>3. PICK call : call = [op |-> op, data |-> data, body |-> body, ok |-> ok]
  OBVIOUS
<1>4. /\ call.op = op /\ call.data = data /\ call.body = body /\ call.ok = ok /\ call \in Call
      /\ handled' = IF failed = "timeout" THEN handled ELSE Append(handled, call)
  BY <1>1, <1>2, <1>3 DEF ReadTypeOK, Record
<1> HIDE DEF Call
<1>5. /\ readPc = "handle" /\ readPc' = "op" /\ late' = FALSE /\ UNCHANGED <<netVars, op, lenBuf, dataLen, failed>>
      /\ ~Inside' /\ Inside
  BY DEF Handle, Inside
<1>6. ReadTypeOK' /\ WholeFrames'
  <2>1. handled' \in Seq(Call)
    <3>1. handled \in Seq(Call)
      BY <1>1 DEF ReadTypeOK, Call
    <3> QED
      BY <1>4, <3>1, AppendProperties
  <2>2. data' \in Seq(UnitType) /\ body' \in Seq(UnitType)
    <3>1. /\ data \in Seq(UnitType) /\ body \in Seq(UnitType) /\ <<>> \in Seq(UnitType)
          /\ (data' = data \/ data' = <<>>) /\ (body' = body \/ body' = <<>>)
      BY <1>1, <1>2, EmptySeq DEF ReadTypeOK
    <3> QED
      BY <3>1
  <2>3. WholeFrames'
    <3>1. frames' = frames /\ stream' = stream /\ eof' = eof
      BY <1>5 DEF netVars
    <3>2. \A u : Place(u)' = Place(u) /\ Framed(u)' = Framed(u)
      BY <3>1 DEF Place, Framed
    <3>3. \A i : InFrame(i)' = InFrame(i)
      BY <3>1, <3>2, Zenon DEF InFrame
    <3> QED
      BY <1>1, <3>1, <3>2, <3>3, Zenon DEF WholeFrames
  <2> QED
    BY <1>1, <1>5, <2>1, <2>2, <2>3 DEF ReadTypeOK, netVars, Call
<1>7. CASE failed = "timeout"
  <2>1. handled' = handled /\ Len(frames) <= Len(frames') /\ frames' = frames
    BY <1>1, <1>4, <1>5, <1>7, Types DEF netVars
  <2> QED
    BY <1>5, <1>6, <1>7, <2>1, TimedOut
<1>8. CASE failed # "timeout"
  <2>1. handled' = Append(handled, call) /\ UNCHANGED <<frames, eof, stream, failed>>
    BY <1>4, <1>5, <1>8 DEF netVars
  <2>2. Served' /\ Current \in 1..Len(frames)
    BY <1>4, <1>5, <1>8, <2>1, Calling DEF Call
  <2>3. Len(handled') = Current /\ handled'[Current] = call
    BY <1>1, <1>4, <2>1, Added DEF Call
  <2>4. PICK k \in Nat : k = Current /\ k = Len(handled) + 1 /\ k > 0
    BY <1>1, Types DEF Current
  <2>5. Current' = k + 1 /\ Len(handled') = k /\ handled'[k] = call
    BY <2>3, <2>4 DEF Current
  <2>6. FramesInOrder'
    BY <2>2 DEF Served, FramesInOrder
  <2>7. InCurrent' /\ CutOff'
    BY <1>1, <1>5, <2>1 DEF InCurrent, CutOff
  <2>8. InStep'
    <3>1. SUFFICES ASSUME failed' = "none" PROVE InStep'
      BY DEF InStep
    <3>2. /\ stream # <<>> => stream[1].frame = k + 1 /\ Place(stream[1]) = 1
          /\ stream = <<>> /\ ~eof => k = Len(frames)
      BY <1>1, <1>5, <2>1, <2>4, <3>1 DEF InStep
    <3>3. Place(stream[1])' = Place(stream[1]) /\ Due' = 1
      BY <1>5, <2>1 DEF Place, Due
    <3> QED
      BY <1>5, <2>1, <2>2, <2>4, <2>5, <3>2, <3>3 DEF InStep
  <2>9. Buffered'
    <3>1. /\ StaleData(k + 1)' = IF ok THEN <<>> ELSE data
          /\ LeftBody(k + 1)' = IF ok THEN <<>> ELSE body
      <4>1. k + 1 > 1 /\ (k + 1) - 1 = k
        BY <2>4
      <4> QED
        BY <1>4, <2>5, <4>1 DEF StaleData, LeftBody
    <3>2. data' \in Seq(UnitType)
      BY <1>6 DEF ReadTypeOK
    <3>3. data' \o <<>> = data'
      BY <3>2, ConcatEmptySeq
    <3> QED
      BY <1>2, <1>5, <2>5, <3>1, <3>3 DEF Buffered
  <2> QED
    BY <1>6, <2>2, <2>6, <2>7, <2>8, <2>9 DEF ReadInv
<1> QED
  BY <1>7, <1>8
-----------------------------------------------------------------------------
(* The steps of the peer *)

LEMMA SendKeepsInv ==
    ASSUME ReadInv, NEW f \in FrameType, PeerSends(f)
    PROVE  ReadInv'
<1>1. ReadTypeOK /\ WholeFrames /\ InCurrent /\ InStep /\ Buffered /\ CutOff
  BY DEF ReadInv
<1>2. PICK K : K = Len(frames) + 1
  OBVIOUS
<1>3. /\ ~eof /\ Len(frames) < MaxFrames /\ frames' = Append(frames, f)
      /\ stream' = stream \o Units(f, K)
      /\ UNCHANGED <<eof, readPc, op, lenBuf, dataLen, data, body, late, handled, failed>>
      /\ failed # "end"
  BY <1>1, <1>2 DEF PeerSends, CutOff
<1>4. StreamTypes /\ Len(frames) \in Nat /\ Len(handled) \in Nat /\ K \in 1..MaxFrames
  BY <1>1, <1>2, <1>3, Types, BoundAssumption
<1>5. /\ frames' \in Seq(FrameType) /\ Len(frames') = K /\ frames'[K] = f
      /\ \A k \in 1..Len(frames) : frames'[k] = frames[k]
  BY <1>1, <1>2, <1>3, AppendProperties DEF ReadTypeOK
<1>6. /\ stream' \in Seq(UnitType) /\ Len(stream') = Len(stream) + Size(f)
      /\ \A i \in 1..Len(stream) : stream'[i] = stream[i]
      /\ \A j \in 1..Size(f) : stream'[Len(stream) + j] = Units(f, K)[j]
  <2>1. Units(f, K) \in Seq(UnitType) /\ Len(Units(f, K)) = Size(f)
    BY <1>4, UnitsElements
  <2>2. stream \in Seq(UnitType)
    BY <1>1 DEF ReadTypeOK
  <2>3. PICK u \in Seq(UnitType) : u = Units(f, K) /\ Len(u) = Size(f)
    BY <2>1
  <2>4. /\ stream \o u \in Seq(UnitType) /\ Len(stream \o u) = Len(stream) + Len(u)
        /\ \A i \in 1..Len(stream) : (stream \o u)[i] = stream[i]
        /\ \A i \in 1..Len(u) : (stream \o u)[Len(stream) + i] = u[i]
    BY <2>2, Joined
  <2> QED
    BY <1>3, <2>3, <2>4
<1>7. /\ WholeFrames'
      /\ IF stream = <<>> THEN Place(stream[1])' = 1 /\ stream'[1].frame = K
         ELSE Place(stream[1])' = Place(stream[1]) /\ stream'[1] = stream[1]
  <2>1. /\ StreamTypes /\ WholeFrames /\ K = Len(frames) + 1 /\ Len(frames) < MaxFrames /\ ~eof
        /\ eof' = eof
    BY <1>1, <1>2, <1>3, <1>4
  <2> QED
    BY <2>1, <1>5, <1>6, WholeAfterSend, SMTT(60)
<1>8. ReadTypeOK'
  <2>1. Len(frames') <= MaxFrames
    BY <1>4, <1>5
  <2> QED
    BY <1>1, <1>3, <1>5, <1>6, <2>1 DEF ReadTypeOK
<1>9. Len(frames) <= Len(frames')
  BY <1>2, <1>4, <1>5
<1>10. CASE failed = "timeout"
  BY <1>3, <1>5, <1>7, <1>8, <1>9, <1>10, TimedOut
<1>11. CASE failed = "none"
  <2>1. Inside => Current \in 1..Len(frames) /\ frames'[Current] = frames[Current]
    <3>1. Inside => Current \in 1..Len(frames)
      BY <1>1, <1>11, CurrentFrame DEF InCurrent
    <3> QED
      BY <1>5, <3>1
  <2>2. /\ Current' = Current /\ Inside' = Inside
        /\ StaleData(Current)' = StaleData(Current) /\ LeftBody(Current)' = LeftBody(Current)
    BY <1>3 DEF Current, Inside, StaleData, LeftBody
  <2>3. InCurrent'
    <3>1. Inside => Len(handled) < Len(frames')
      BY <1>1, <1>4, <1>9, <1>11, <1>5, <1>2 DEF InCurrent
    <3> QED
      BY <1>1, <1>3, <1>11, <2>1, <2>2, <3>1 DEF InCurrent
  <2>4. readPc \in {"op", "dlen", "data", "blen", "body", "handle"}
    BY <1>1, <1>11 DEF InStep, ReadTypeOK
  <2>5. InStep'
    <3>1. readPc # "handle" => Due' = Due
      BY <1>3, <2>1, <2>2, <2>4 DEF Due, Inside
    <3>2. stream' # <<>>
      <4>1. Size(f) \in Nat \ {0} /\ Len(stream) \in Nat
        BY <1>4, Frames, FrameNumbers
      <4> QED
        BY <1>6, <4>1, EmptySeq
    <3>3. IF readPc = "handle" THEN stream'[1].frame = Current + 1 /\ Place(stream[1])' = 1
          ELSE stream'[1].frame = Current /\ Place(stream[1])' = Due'
      <4>1. CASE stream # <<>>
        BY <1>1, <1>7, <1>11, <3>1, <4>1 DEF InStep
      <4>2. CASE stream = <<>> /\ readPc = "op"
        <5>1. Len(handled) = Len(frames) /\ Due = 1
          BY <1>1, <1>3, <1>11, <4>2 DEF InStep, Due
        <5> QED
          BY <1>2, <1>7, <3>1, <4>2, <5>1 DEF Current
      <4>3. CASE stream = <<>> /\ readPc # "op"
        <5>1. readPc = "handle" /\ Current = Len(frames)
          BY <1>1, <1>3, <1>11, <4>3 DEF InStep
        <5> QED
          BY <1>2, <1>7, <4>3, <5>1
      <4> QED
        BY <4>1, <4>2, <4>3
    <3>4. Len(handled) <= Len(frames')
      BY <1>1, <1>2, <1>4, <1>5, <1>11 DEF InStep
    <3> QED
      BY <1>1, <1>3, <1>11, <2>1, <2>2, <3>2, <3>3, <3>4 DEF InStep, Inside
  <2>6. Buffered'
    BY <1>1, <1>3, <1>11, <2>1, <2>2, <2>4 DEF Buffered, Inside
  <2> QED
    BY <1>3, <1>5, <1>7, <1>8, <1>9, <1>11, <2>3, <2>5, <2>6, InvInStep
<1> QED
  BY <1>1, <1>3, <1>10, <1>11 DEF ReadTypeOK

LEMMA EndKeepsInv ==
    ASSUME ReadInv, NEW n \in 0..Len(stream), Ends(n)
    PROVE  ReadInv'
<1>1. ReadTypeOK /\ WholeFrames /\ InCurrent /\ InStep /\ Buffered /\ CutOff
  BY DEF ReadInv
<1>2. /\ ~eof /\ eof' = TRUE /\ stream' = SubSeq(stream, 1, n)
      /\ UNCHANGED <<frames, readPc, op, lenBuf, dataLen, data, body, late, handled, failed>>
      /\ failed # "end"
  BY <1>1 DEF Ends, CutOff
<1>3. StreamTypes /\ Len(frames) <= Len(frames')
  BY <1>1, <1>2, Types
<1>4. stream' \in Seq(UnitType) /\ Len(stream') = n /\ \A i \in 1..n : stream'[i] = stream[i]
  <2>1. stream \in Seq(UnitType)
    BY <1>1 DEF ReadTypeOK
  <2> QED
    BY <1>2, <2>1, Rest
<1>5. WholeFrames'
  BY <1>1, <1>2, <1>3, <1>4, WholeAfterEnd
<1>6. ReadTypeOK'
  BY <1>1, <1>2, <1>4 DEF ReadTypeOK
<1>7. CASE failed = "timeout"
  BY <1>2, <1>3, <1>5, <1>6, <1>7, TimedOut
<1>8. CASE failed = "none"
  <2>1. stream' # <<>> => stream # <<>> /\ stream'[1] = stream[1]
    <3>1. SUFFICES ASSUME stream' # <<>> PROVE stream # <<>> /\ stream'[1] = stream[1]
      OBVIOUS
    <3>2. Len(stream) \in Nat /\ n # 0
      BY <1>3, <1>4, <3>1, EmptySeq, FrameNumbers
    <3>3. 1 \in 1..n /\ Len(stream) # 0
      BY <3>2
    <3> QED
      BY <1>4, <3>3, EmptySeq
  <2>2. /\ Current' = Current /\ Inside' = Inside /\ Due' = Due
        /\ StaleData(Current)' = StaleData(Current) /\ LeftBody(Current)' = LeftBody(Current)
        /\ stream' # <<>> => Place(stream[1])' = Place(stream[1])
    BY <1>2, <2>1 DEF Current, Inside, Due, Place, StaleData, LeftBody
  <2>3. InCurrent'
    BY <1>1, <1>2, <2>2 DEF InCurrent
  <2>4. InStep'
    BY <1>1, <1>2, <1>8, <2>1, <2>2 DEF InStep
  <2>5. Buffered'
    BY <1>1, <1>2, <2>2 DEF Buffered
  <2> QED
    BY <1>2, <1>3, <1>5, <1>6, <1>8, <2>3, <2>4, <2>5, InvInStep
<1> QED
  BY <1>1, <1>2, <1>7, <1>8 DEF ReadTypeOK
-----------------------------------------------------------------------------
(* The invariant *)

LEMMA InitInv ==
    ASSUME ReadInit
    PROVE  ReadInv
<1>1. /\ frames = <<>> /\ stream = <<>> /\ eof = FALSE /\ readPc = "op" /\ handled = <<>>
      /\ failed = "none" /\ data = <<>> /\ body = <<>>
  BY DEF ReadInit
<1>2. /\ \A S : <<>> \in Seq(S) /\ Len(<<>>) = 0 /\ DOMAIN <<>> = {}
  BY EmptySeq
<1>3. ReadTypeOK
  <2>1. /\ <<>> \in Seq(FrameType) /\ <<>> \in Seq(UnitType)
        /\ <<>> \in Seq([op : Class, data : Seq(UnitType), body : Seq(UnitType), ok : BOOLEAN])
    BY <1>2
  <2>2. Len(<<>>) <= MaxFrames /\ 0 \in Length /\ "bare" \in Class
    BY <1>2, BoundAssumption DEF Class
  <2> QED
    BY <2>1, <2>2 DEF ReadInit, ReadTypeOK
<1>4. Current = 1 /\ Len(handled) = 0 /\ Len(frames) = 0 /\ DOMAIN stream = {} /\ DOMAIN handled = {}
  BY <1>1, <1>2 DEF Current
<1>5. StaleData(Current) = <<>> /\ LeftBody(Current) = <<>>
  BY <1>4 DEF StaleData, LeftBody
<1>6. FramesInOrder /\ WholeFrames /\ Served
  BY <1>1, <1>4 DEF FramesInOrder, WholeFrames, Served
<1>7. InCurrent /\ InStep /\ CutOff
  BY <1>1, <1>4 DEF InCurrent, InStep, CutOff, Inside
<1>8. Buffered
  <2>1. <<>> \in Seq(Nat) /\ <<>> \o <<>> = <<>>
    BY <1>2, ConcatEmptySeq
  <2> QED
    BY <1>1, <1>5, <2>1 DEF Buffered
<1> QED
  BY <1>3, <1>6, <1>7, <1>8 DEF ReadInv

LEMMA NextInv ==
    ASSUME ReadInv, [ReadNext]_readVars
    PROVE  ReadInv'
<1>1. CASE UNCHANGED readVars
  <2>1. Place(stream[1])' = Place(stream[1]) /\ WholeFrames' = WholeFrames
    BY <1>1 DEF readVars, netVars, Place, WholeFrames, InFrame, Framed
  <2>2. /\ Current' = Current /\ Inside' = Inside /\ Due' = Due
        /\ StaleData(Current)' = StaleData(Current) /\ LeftBody(Current)' = LeftBody(Current)
    BY <1>1 DEF readVars, netVars, Current, Inside, Due, StaleData, LeftBody
  <2>3. ReadTypeOK' = ReadTypeOK /\ FramesInOrder' = FramesInOrder /\ Served' = Served
    BY <1>1 DEF readVars, netVars, ReadTypeOK, FramesInOrder, Served, Exactly, CutShort, StaleData,
                StaleBody, LeftBody, Inside
  <2>4. (InCurrent => InCurrent') /\ (InStep => InStep')
    BY <1>1, <2>1, <2>2 DEF readVars, netVars, InCurrent, InStep
  <2>5. (Buffered => Buffered') /\ (CutOff => CutOff')
    BY <1>1, <2>2 DEF readVars, netVars, Buffered, CutOff
  <2> QED
    BY <2>1, <2>3, <2>4, <2>5 DEF ReadInv
<1>2. CASE \E f \in FrameType : PeerSends(f)
  BY <1>2, SendKeepsInv
<1>3. CASE \E n \in 0..Len(stream) : Ends(n)
  BY <1>3, EndKeepsInv
<1>4. CASE Loop
  BY <1>4, OpcodeKeepsInv, DataLengthKeepsInv, BodyLengthKeepsInv, DataKeepsInv, BodyKeepsInv,
     HandleKeepsInv DEF Loop
<1> QED
  BY <1>1, <1>2, <1>3, <1>4 DEF ReadNext

\* For any lengths and any number of frames, and however the Reads cut up the
\* stream: until a deadline passes, the loop is in step with the peer and its
\* buffers hold what it has read of the frame it is in, and ReadInv, which says so,
\* is inductive (protocol.go:196-281).
THEOREM ReadInvariant == ReadSpec => []ReadInv
<1>1. ReadInit => ReadInv
  BY InitInv
<1>2. ReadInv /\ [ReadNext]_readVars => ReadInv'
  BY NextInv
<1> QED
  BY <1>1, <1>2, PTL DEF ReadSpec

\* So the i-th call of the handler is for the i-th frame, with exactly its bytes
\* behind what a failed call has left, up to the one the connection ended in
\* (protocol.go:196-281).
THEOREM FramesAreHandledInOrder == ReadSpec => []FramesInOrder
<1>1. ReadInv => FramesInOrder
  BY DEF ReadInv
<1> QED
  BY <1>1, ReadInvariant, PTL
=============================================================================
