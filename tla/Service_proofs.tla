--------------------------- MODULE Service_proofs ---------------------------
(***************************************************************************)
(* Proof that a connection to the service manager takes up the messages of *)
(* its client as they were sent, up to the first one of which a Read is    *)
(* given a piece only: for any network, messages of any length, any number *)
(* of them, and a client that goes at any time.                            *)
(***************************************************************************)
EXTENDS Service, SequenceTheorems, WellFoundedInduction, TLAPS

-----------------------------------------------------------------------------
(* Sequences *)

\* What stands where in two sequences one behind the other.
LEMMA Joined ==
    ASSUME NEW S, NEW s \in Seq(S), NEW t \in Seq(S)
    PROVE  /\ s \o t \in Seq(S) /\ Len(s \o t) = Len(s) + Len(t)
           /\ \A i \in 1..Len(s) : (s \o t)[i] = s[i]
           /\ \A i \in 1..Len(t) : (s \o t)[Len(s) + i] = t[i]
<1>1. Len(s) \in Nat /\ Len(t) \in Nat
  BY LenProperties
<1>2. /\ s \o t \in Seq(S) /\ Len(s \o t) = Len(s) + Len(t)
      /\ \A i \in 1 .. Len(s) + Len(t) : (s \o t)[i] = IF i <= Len(s) THEN s[i] ELSE t[i - Len(s)]
  BY ConcatProperties
<1>3. \A i \in 1..Len(s) : i \in 1..(Len(s) + Len(t)) /\ i <= Len(s)
  BY <1>1
<1>4. \A i \in 1..Len(t) : /\ Len(s) + i \in 1..(Len(s) + Len(t)) /\ ~(Len(s) + i <= Len(s))
                           /\ (Len(s) + i) - Len(s) = i
  BY <1>1
<1> QED
  BY <1>1, <1>2, <1>3, <1>4

\* What is left of a sequence after its first n elements, and those elements.
LEMMA Rest ==
    ASSUME NEW S, NEW s \in Seq(S), NEW n \in 0..Len(s)
    PROVE  /\ SubSeq(s, n + 1, Len(s)) \in Seq(S) /\ Len(SubSeq(s, n + 1, Len(s))) = Len(s) - n
           /\ \A i \in 1..(Len(s) - n) : SubSeq(s, n + 1, Len(s))[i] = s[n + i]
           /\ SubSeq(s, 1, n) \in Seq(S) /\ Len(SubSeq(s, 1, n)) = n
           /\ \A i \in 1..n : SubSeq(s, 1, n)[i] = s[i]
<1>1. Len(s) \in Nat /\ n \in Nat /\ \A i \in 1..Len(s) : s[i] \in S
  BY LenProperties, ElementOfSeq
<1>2. \A i \in (n + 1)..Len(s) : s[i] \in S
  BY <1>1
<1>3. \A i \in 1..n : s[i] \in S
  BY <1>1
<1>4. /\ SubSeq(s, n + 1, Len(s)) \in Seq(S)
      /\ Len(SubSeq(s, n + 1, Len(s))) = Len(s) - n
      /\ \A i \in 1..(Len(s) - n) : SubSeq(s, n + 1, Len(s))[i] = s[n + i]
  <2>1. /\ SubSeq(s, n + 1, Len(s)) \in Seq(S)
        /\ Len(SubSeq(s, n + 1, Len(s))) = IF n + 1 <= Len(s) THEN Len(s) - (n + 1) + 1 ELSE 0
        /\ \A i \in 1..(Len(s) - (n + 1) + 1) : SubSeq(s, n + 1, Len(s))[i] = s[(n + 1) + i - 1]
    <3>1. n + 1 \in Int /\ Len(s) \in Int
      BY <1>1
    <3> QED
      BY <1>2, <3>1, SubSeqProperties
  <2>2. Len(s) - (n + 1) + 1 = Len(s) - n /\ \A i \in Int : (n + 1) + i - 1 = n + i
    BY <1>1
  <2>3. (IF n + 1 <= Len(s) THEN Len(s) - (n + 1) + 1 ELSE 0) = Len(s) - n
    BY <1>1
  <2> DEFINE r == SubSeq(s, n + 1, Len(s))
             m == Len(s) - (n + 1) + 1
  <2>4. r \in Seq(S) /\ Len(r) = Len(s) - n /\ \A i \in 1..m : r[i] = s[(n + 1) + i - 1]
    BY <2>1, <2>3
  <2>5. m = Len(s) - n
    BY <2>2
  <2> HIDE DEF r, m
  <2>6. \A i \in 1..(Len(s) - n) : r[i] = s[n + i]
    BY <1>1, <2>2, <2>4, <2>5
  <2> QED
    BY <2>4, <2>6 DEF r
<1>5. /\ SubSeq(s, 1, n) \in Seq(S) /\ Len(SubSeq(s, 1, n)) = n
      /\ \A i \in 1..n : SubSeq(s, 1, n)[i] = s[i]
  <2>1. /\ SubSeq(s, 1, n) \in Seq(S) /\ Len(SubSeq(s, 1, n)) = IF 1 <= n THEN n - 1 + 1 ELSE 0
        /\ \A i \in 1..(n - 1 + 1) : SubSeq(s, 1, n)[i] = s[1 + i - 1]
    BY <1>1, <1>3, SubSeqProperties
  <2>2. n - 1 + 1 = n /\ (IF 1 <= n THEN n - 1 + 1 ELSE 0) = n /\ \A i \in Int : 1 + i - 1 = i
    BY <1>1
  <2> QED
    BY <2>1, <2>2
<1> QED
  BY <1>4, <1>5

-----------------------------------------------------------------------------
(* Units and frames *)

Frame == 1..MaxFrames

LEMMA UnitTypes ==
    ASSUME NEW k \in Frame
    PROVE  /\ \A v \in Op : Unit(k, "op", v) \in UnitType
           /\ \A v \in Length : Unit(k, "len", v) \in UnitType
           /\ \A v \in 1..MaxLen : Unit(k, "data", v) \in UnitType
           /\ \A v \in 1..HashLen : Unit(k, "hash", v) \in UnitType
  BY DEF Unit, UnitType, Frame

LEMMA Buffers ==
    /\ Seq(UnitType) \subseteq BufType
    /\ \A n \in 0..(MaxLen + HashLen) : Zeros(n) \in BufType /\ Len(Zeros(n)) = n
<1>1. Seq(UnitType) \subseteq BufType
  BY SeqMonotonic DEF BufType
<1>2. ASSUME NEW n \in 0..(MaxLen + HashLen)
      PROVE  Zeros(n) \in BufType /\ Len(Zeros(n)) = n
  <2>1. n \in Nat /\ \A i \in 1..n : i \in 1..(MaxLen + HashLen)
    BY BoundAssumption DEF HashLen
  <2>2. \A i \in 1..n : Unit(0, "zero", i) \in [frame : {0}, part : {"zero"}, v : 1..(MaxLen + HashLen)]
    BY <2>1 DEF Unit
  <2> QED
    BY <2>1, <2>2, IsASeq DEF Zeros, Bytes, BufType
<1> QED
  BY <1>1, <1>2

LEMMA Frames ==
    \A f \in FrameType : f.op \in Op /\ f.len \in Length /\ f.len \in Nat
  BY BoundAssumption DEF FrameType, Length

LEMMA BytesOf ==
    ASSUME NEW k \in Frame, NEW part \in {"data", "hash"},
           NEW n \in 0..(IF part = "data" THEN MaxLen ELSE HashLen)
    PROVE  /\ Bytes(k, part, n) \in Seq(UnitType) /\ Len(Bytes(k, part, n)) = n
           /\ \A i \in 1..n : Bytes(k, part, n)[i] = Unit(k, part, i)
<1>1. n \in Nat /\ \A i \in 1..n : Unit(k, part, i) \in UnitType
  <2>1. CASE part = "data"
    BY <2>1, BoundAssumption, UnitTypes
  <2>2. CASE part = "hash"
    BY <2>2, UnitTypes DEF HashLen
  <2> QED
    BY <2>1, <2>2
<1> QED
  BY <1>1, IsASeq DEF Bytes

LEMMA JoinedBy ==
    \A s, t \in Seq(UnitType) : \A m, n \in Nat :
        m = Len(s) /\ n = Len(t) =>
            /\ s \o t \in Seq(UnitType) /\ Len(s \o t) = m + n
            /\ \A i \in 1..m : (s \o t)[i] = s[i]
            /\ \A i \in 1..n : (s \o t)[m + i] = t[i]
  BY Joined

\* What a client writes for a message.
LEMMA UnitsOf ==
    ASSUME NEW k \in Frame, NEW f \in FrameType
    PROVE  /\ Units(f, k) \in Seq(UnitType) /\ Len(Units(f, k)) = f.len + 4
           /\ Units(f, k)[1] = Unit(k, "op", f.op) /\ Units(f, k)[2] = Unit(k, "len", f.len)
           /\ \A i \in 1..f.len : Units(f, k)[2 + i] = Unit(k, "data", i)
           /\ \A i \in 1..2 : Units(f, k)[2 + f.len + i] = Unit(k, "hash", i)
<1> DEFINE h == <<Unit(k, "op", f.op), Unit(k, "len", f.len)>>
           d == Bytes(k, "data", f.len)
           e == Bytes(k, "hash", HashLen)
<1>1. /\ h \in Seq(UnitType) /\ Len(h) = 2
      /\ h[1] = Unit(k, "op", f.op) /\ h[2] = Unit(k, "len", f.len)
  BY Frames, UnitTypes
<1>2. /\ f.len \in Nat /\ d \in Seq(UnitType) /\ Len(d) = f.len
      /\ \A i \in 1..f.len : d[i] = Unit(k, "data", i)
  BY Frames, BytesOf DEF Length
<1>3. e \in Seq(UnitType) /\ Len(e) = 2 /\ \A i \in 1..2 : e[i] = Unit(k, "hash", i)
  BY BytesOf DEF HashLen
<1>4. Units(f, k) = (h \o d) \o e
  BY DEF Units
<1> HIDE DEF h, d, e
<1>5. /\ h \o d \in Seq(UnitType) /\ Len(h \o d) = 2 + f.len
      /\ \A i \in 1..2 : (h \o d)[i] = h[i]
      /\ \A i \in 1..f.len : (h \o d)[2 + i] = d[i]
  <2>1. 2 \in Nat /\ 2 = Len(h) /\ f.len = Len(d)
    BY <1>1, <1>2
  <2> QED
    BY <1>1, <1>2, <2>1, JoinedBy, ZenonT(30)
<1>6. /\ (h \o d) \o e \in Seq(UnitType) /\ Len((h \o d) \o e) = (2 + f.len) + 2
      /\ \A i \in 1..(2 + f.len) : ((h \o d) \o e)[i] = (h \o d)[i]
      /\ \A i \in 1..2 : ((h \o d) \o e)[2 + f.len + i] = e[i]
  <2> DEFINE g == h \o d
             m == 2 + f.len
  <2>1. /\ g \in Seq(UnitType) /\ e \in Seq(UnitType)
        /\ 2 \in Nat /\ m \in Nat /\ m = Len(g) /\ 2 = Len(e)
    BY <1>2, <1>3, <1>5
  <2> HIDE DEF g, m
  <2>2. /\ g \o e \in Seq(UnitType) /\ Len(g \o e) = m + 2
        /\ \A i \in 1..m : (g \o e)[i] = g[i]
        /\ \A i \in 1..2 : (g \o e)[m + i] = e[i]
    <3>1. \A j, l \in Nat :
            j = Len(g) /\ l = Len(e) =>
                /\ g \o e \in Seq(UnitType) /\ Len(g \o e) = j + l
                /\ \A i \in 1..j : (g \o e)[i] = g[i]
                /\ \A i \in 1..l : (g \o e)[j + i] = e[i]
      BY <2>1, JoinedBy, ZenonT(30)
    <3> QED
      BY <2>1, <3>1, ZenonT(30)
  <2> QED
    BY <2>2 DEF g, m
<1>7. 1 \in 1..2 /\ 2 \in 1..2 /\ 1 \in 1..(2 + f.len) /\ 2 \in 1..(2 + f.len)
      /\ (\A i \in 1..f.len : 2 + i \in 1..(2 + f.len)) /\ (2 + f.len) + 2 = f.len + 4
  BY <1>2
<1> DEFINE u == (h \o d) \o e
<1>8. /\ u \in Seq(UnitType) /\ Len(u) = f.len + 4 /\ u[1] = h[1] /\ u[2] = h[2]
  BY <1>5, <1>6, <1>7
<1>9. \A i \in 1..f.len : u[2 + i] = d[i]
  BY <1>5, <1>6, <1>7
<1>10. \A i \in 1..2 : u[2 + f.len + i] = e[i]
  BY <1>6
<1> HIDE DEF u
<1>11. Units(f, k) = u
  BY <1>4 DEF u
<1> QED
  BY <1>1, <1>2, <1>3, <1>8, <1>9, <1>10, <1>11
-----------------------------------------------------------------------------
(* The stream *)

\* What the client writes behind each unit of the k-th frame.
LEMMA FollowingOf ==
    ASSUME NEW fs, NEW k
    PROVE  /\ \A v : Following(fs, Unit(k, "op", v)) = Unit(k, "len", fs[k].len)
           /\ fs[k].len = 0 => \A v : Following(fs, Unit(k, "len", v)) = Unit(k, "hash", 1)
           /\ fs[k].len # 0 => \A v : Following(fs, Unit(k, "len", v)) = Unit(k, "data", 1)
           /\ \A v : v # fs[k].len => Following(fs, Unit(k, "data", v)) = Unit(k, "data", v + 1)
           /\ Following(fs, Unit(k, "data", fs[k].len)) = Unit(k, "hash", 1)
           /\ Following(fs, Unit(k, "hash", 1)) = Unit(k, "hash", 2)
           /\ Following(fs, LastOf(k)) = Unit(k + 1, "op", fs[k + 1].op)
  BY DEF Following, Unit, LastOf, HashLen

Chained == \A i \in 1..(Len(stream) - 1) : stream[i + 1] = Following(frames, stream[i])

\* Behind the first byte of a message come the others, in their order.
LEMMA MessageAhead ==
    ASSUME stream \in Seq(UnitType), Chained, NEW k, frames[k].len \in Nat,
           stream[1] = Unit(k, "data", 1), NEW n \in 1..Len(stream), n <= frames[k].len
    PROVE  \A i \in 1..n : stream[i] = Unit(k, "data", i)
<1> DEFINE T == {i \in 1..n : stream[i] # Unit(k, "data", i)}
<1> SUFFICES ASSUME T # {} PROVE FALSE
  OBVIOUS
<1>1. Len(stream) \in Nat /\ n \in Nat /\ T \subseteq Nat
  BY LenProperties
<1> HIDE DEF T
<1>2. PICK i \in T : \A l \in T : ~ (<<l, i>> \in OpToRel(<, Nat))
  BY <1>1, NatLessThanWellFounded, WFMin, Zenon
<1> USE DEF T
<1>3. i \in 1..n /\ stream[i] # Unit(k, "data", i) /\ i \in Nat
  BY <1>1
<1>4. i # 1
  BY <1>3
<1>5. i - 1 \in 1..n /\ i - 1 \in 1..(Len(stream) - 1) /\ i - 1 < i /\ (i - 1) + 1 = i
  BY <1>1, <1>3, <1>4
<1>6. stream[i - 1] = Unit(k, "data", i - 1)
  BY <1>1, <1>2, <1>5 DEF OpToRel
<1>7. stream[i] = Following(frames, stream[i - 1])
  BY <1>5 DEF Chained
<1>8. i - 1 # frames[k].len
  BY <1>1, <1>3, <1>5
<1>9. Following(frames, Unit(k, "data", i - 1)) = Unit(k, "data", (i - 1) + 1)
  BY <1>8, FollowingOf
<1> QED
  BY <1>3, <1>5, <1>6, <1>7, <1>9

LEMMA Types ==
    ASSUME TypeOK
    PROVE  /\ Len(stream) \in Nat /\ DOMAIN stream = 1..Len(stream)
           /\ Len(handled) \in Nat /\ DOMAIN handled = 1..Len(handled)
           /\ Len(frames) \in Nat /\ Len(frames) <= MaxFrames
           /\ \A k \in 1..Len(frames) : k \in Frame /\ frames[k] \in FrameType
           /\ \A i \in 1..Len(stream) : stream[i] \in UnitType
           /\ stream = <<>> <=> Len(stream) = 0
<1>1. /\ stream \in Seq(UnitType) /\ frames \in Seq(FrameType) /\ Len(frames) <= MaxFrames
      /\ handled \in Seq([op : Op, data : BufType])
  BY DEF TypeOK
<1>2. /\ Len(stream) \in Nat /\ DOMAIN stream = 1..Len(stream)
      /\ Len(handled) \in Nat /\ DOMAIN handled = 1..Len(handled)
      /\ Len(frames) \in Nat
  BY <1>1, LenProperties
<1>3. /\ \A k \in 1..Len(frames) : frames[k] \in FrameType
      /\ \A i \in 1..Len(stream) : stream[i] \in UnitType
  BY <1>1, ElementOfSeq
<1>4. \A k \in 1..Len(frames) : k \in Frame
  BY <1>1, <1>2, BoundAssumption DEF Frame
<1>5. stream = <<>> <=> Len(stream) = 0
  BY <1>1, EmptySeq
<1> QED
  BY <1>1, <1>2, <1>3, <1>4, <1>5

\* What holds until a Read comes back short.
Whole == TypeOK /\ FramesInOrder /\ InStep /\ Buffered

\* Until then a Read is given all it asks for, or it is cut off by the end of the stream and the
\* next one fails, or it fails.
LEMMA ReadsWhole ==
    ASSUME Whole, cut = 0, cut' = 0, NEW size \in Nat \ {0}, NEW n \in 0..size, NEW then,
           Read(n, size, then)
    PROVE  \/ /\ pc' = "returned" /\ n = 0 /\ stream = <<>> /\ UNCHANGED <<stream, total>>
           \/ /\ total = 0 /\ n = size /\ n \in 1..Len(stream)
              /\ stream' = SubSeq(stream, n + 1, Len(stream)) /\ pc' = then /\ total' = 0
           \/ /\ eof /\ n \in 1..Len(stream) /\ stream' = <<>> /\ pc' = pc /\ total' > 0
              /\ total' \in Nat
<1>1. stream \in Seq(UnitType) /\ Len(stream) \in Nat /\ total \in Nat
      /\ (stream = <<>> <=> Len(stream) = 0) /\ (total > 0 => stream = <<>>)
  BY Types DEF Whole, TypeOK, InStep
<1>2. CASE n = 0
  BY <1>2 DEF Read, Take, Return
<1>3. CASE n # 0
  <2>1. /\ n \in 1..Len(stream) /\ n <= size
        /\ n = size \/ (eof /\ n = Len(stream))
        /\ stream' = SubSeq(stream, n + 1, Len(stream))
        /\ IF total + n = size THEN pc' = then /\ total' = 0
           ELSE total' = total + n /\ UNCHANGED pc
    BY <1>3 DEF Read, Take, Short
  <2>2. total = 0 /\ total + n = n
    BY <1>1, <2>1
  <2>3. CASE n = size
    BY <2>1, <2>2, <2>3
  <2>4. CASE n # size
    <3>1. eof /\ n = Len(stream) /\ n + 1 > Len(stream)
      BY <1>1, <2>1, <2>4
    <3>2. SubSeq(stream, n + 1, Len(stream)) = <<>>
      BY <1>1, <3>1, SubSeqEmpty
    <3>3. total' = total + n /\ pc' = pc
      BY <2>1, <2>2, <2>4
    <3>4. n \in Nat /\ total' > 0 /\ total' \in Nat
      BY <1>1, <2>1, <2>2, <3>3
    <3> QED
      BY <2>1, <3>1, <3>2, <3>3, <3>4
  <2> QED
    BY <2>3, <2>4
<1> QED
  BY <1>2, <1>3

LEMMA InStepAfterRead ==
    ASSUME Whole, NEW n \in 1..Len(stream), total = 0, pc # "returned",
           stream' = SubSeq(stream, n + 1, Len(stream)), total' = 0,
           UNCHANGED <<frames, eof>>, LastRead' = stream[n]
    PROVE  InStep' /\ stream' \in Seq(UnitType)
<1>0. PICK m : m = Len(stream) - n
  OBVIOUS
<1>1. /\ stream \in Seq(UnitType) /\ Len(stream) \in Nat /\ DOMAIN stream = 1..Len(stream)
      /\ n \in Nat /\ n \in 0..Len(stream) /\ m \in Nat /\ TypeOK /\ InStep
  BY <1>0, Types DEF Whole, TypeOK
<1>2. /\ stream' \in Seq(UnitType) /\ Len(stream') = m
      /\ \A i \in 1..m : stream'[i] = stream[n + i]
  BY <1>0, <1>1, Rest
<1>3. /\ \A i \in 1..Len(stream) : stream[i].frame <= Len(frames)
      /\ \A i \in 1..(Len(stream) - 1) : stream[i + 1] = Following(frames, stream[i])
      /\ ~eof => stream[Len(stream)] = LastOf(Len(frames))
  <2>1. stream # <<>>
    BY <1>1, Types
  <2> QED
    BY <1>1, <2>1 DEF InStep
<1>4. frames' = frames /\ eof' = eof
  OBVIOUS
<1>5. DOMAIN stream' = 1..m /\ (stream' = <<>> <=> m = 0)
  BY <1>2, EmptySeq, LenProperties
<1>6. \A i \in DOMAIN stream' : stream'[i].frame <= Len(frames')
  <2>1. \A i \in 1..m : n + i \in 1..Len(stream)
    BY <1>0, <1>1
  <2> QED
    BY <1>2, <1>3, <1>5, <2>1
<1>7. stream' # <<>> => stream'[1] = Following(frames', stream[n])
  <2> SUFFICES ASSUME m # 0 PROVE stream'[1] = Following(frames, stream[n])
    BY <1>4, <1>5
  <2>1. 1 \in 1..m /\ n \in 1..(Len(stream) - 1)
    BY <1>0, <1>1
  <2> QED
    BY <1>2, <1>3, <2>1
<1>8. ASSUME NEW i \in 1..(Len(stream') - 1) PROVE stream'[i + 1] = Following(frames', stream'[i])
  <2>1. i \in 1..m /\ i + 1 \in 1..m /\ n + i \in 1..(Len(stream) - 1) /\ n + (i + 1) = (n + i) + 1
    BY <1>0, <1>1, <1>2
  <2>2. stream'[i] = stream[n + i] /\ stream'[i + 1] = stream[(n + i) + 1]
    BY <1>2, <2>1
  <2> QED
    BY <1>3, <1>4, <2>1, <2>2
<1>9. ASSUME ~eof
      PROVE  /\ m = 0 => stream[n] = LastOf(Len(frames))
             /\ m # 0 => stream'[m] = LastOf(Len(frames))
  <2>1. stream[Len(stream)] = LastOf(Len(frames))
    BY <1>3, <1>9
  <2>2. m = 0 => n = Len(stream)
    BY <1>0, <1>1
  <2>3. m # 0 => m \in 1..m /\ n + m = Len(stream)
    BY <1>0, <1>1
  <2>4. m # 0 => stream'[m] = stream[n + m]
    BY <1>2, <2>3
  <2> QED
    BY <2>1, <2>2, <2>3, <2>4
<1>10. ~eof' => (IF stream' = <<>> THEN LastRead' ELSE stream'[Len(stream')]) = LastOf(Len(frames'))
  <2>1. LastOf(Len(frames')) = LastOf(Len(frames))
    BY <1>4
  <2>2. ~eof' => ~eof
    BY <1>4
  <2>3. m = 0 => (IF stream' = <<>> THEN LastRead' ELSE stream'[Len(stream')]) = stream[n]
    BY <1>5
  <2>4. m # 0 => (IF stream' = <<>> THEN LastRead' ELSE stream'[Len(stream')]) = stream'[m]
    BY <1>2, <1>5
  <2> QED
    BY <1>9, <2>1, <2>2, <2>3, <2>4
<1>11. stream' # <<>> => stream'[1] = Following(frames', LastRead')
  BY <1>7
<1>12. \A i \in 1..(Len(stream') - 1) : stream'[i + 1] = Following(frames', stream'[i])
  BY <1>8
<1>13. ~(total' > 0)
  OBVIOUS
<1> QED
  BY <1>2, <1>6, <1>10, <1>11, <1>12, <1>13 DEF InStep

LEMMA InStepAtEnd ==
    ASSUME Whole, eof, stream' = <<>>, UNCHANGED <<frames, eof>>, total' > 0, total' \in Nat
    PROVE  InStep' /\ stream' \in Seq(UnitType)
<1>1. stream' \in Seq(UnitType) /\ DOMAIN stream' = {}
  BY EmptySeq
<1>2. total' # 0
  OBVIOUS
<1> QED
  BY <1>1, <1>2 DEF InStep

\* Steps between two Reads leave the stream, and what it goes on behind.
LEMMA InStepWithout ==
    ASSUME Whole, UNCHANGED <<frames, stream, eof, total>>,
           pc' = "returned" \/ (pc # "returned" /\ LastRead' = LastRead)
    PROVE  InStep' /\ stream' \in Seq(UnitType)
<1>1. InStep /\ stream \in Seq(UnitType)
  BY DEF Whole, TypeOK
<1> QED
  BY <1>1 DEF InStep

\* The units of a frame follow one another, and are all there.
LEMMA UnitsChained ==
    ASSUME NEW k \in Frame, NEW f \in FrameType, NEW fs, fs[k] = f
    PROVE  /\ \A j \in 1..(f.len + 3) : Units(f, k)[j + 1] = Following(fs, Units(f, k)[j])
           /\ \A j \in 1..(f.len + 4) : Units(f, k)[j].frame = k
           /\ Units(f, k)[f.len + 4] = LastOf(k)
<1>0. PICK u, l : u = Units(f, k) /\ l = f.len
  OBVIOUS
<1>1. /\ u[1] = Unit(k, "op", f.op) /\ u[2] = Unit(k, "len", l) /\ l \in Nat
      /\ \A i \in 1..l : u[2 + i] = Unit(k, "data", i)
      /\ \A i \in 1..2 : u[2 + l + i] = Unit(k, "hash", i)
  BY <1>0, UnitsOf, Frames
<1>2. u[3 + l] = Unit(k, "hash", 1) /\ u[4 + l] = Unit(k, "hash", 2)
  <2>1. 1 \in 1..2 /\ 2 \in 1..2 /\ 2 + l + 1 = 3 + l /\ 2 + l + 2 = 4 + l
    BY <1>1
  <2> QED
    BY <1>1, <2>1
<1>3. \A j \in 1..(l + 4) :
        \/ j = 1 \/ j = 2 \/ j = 3 + l \/ j = 4 + l
        \/ j - 2 \in 1..l /\ j = 2 + (j - 2)
  BY <1>1
<1>4. \A j \in 1..(l + 4) : u[j].frame = k
  <2> TAKE j \in 1..(l + 4)
  <2>1. CASE j - 2 \in 1..l /\ j = 2 + (j - 2)
    <3>1. u[2 + (j - 2)] = Unit(k, "data", j - 2)
      BY <1>1, <2>1
    <3> QED
      BY <2>1, <3>1 DEF Unit
  <2>2. CASE j = 1 \/ j = 2 \/ j = 3 + l \/ j = 4 + l
    BY <1>1, <1>2, <2>2 DEF Unit
  <2> QED
    BY <1>3, <2>1, <2>2
<1>5. u[l + 4] = LastOf(k)
  <2>1. l + 4 = 4 + l
    BY <1>1
  <2> QED
    BY <1>2, <2>1 DEF LastOf, HashLen
<1>6. /\ \A v : Following(fs, Unit(k, "op", v)) = Unit(k, "len", l)
      /\ l = 0 => \A v : Following(fs, Unit(k, "len", v)) = Unit(k, "hash", 1)
      /\ l # 0 => \A v : Following(fs, Unit(k, "len", v)) = Unit(k, "data", 1)
      /\ \A v : v # l => Following(fs, Unit(k, "data", v)) = Unit(k, "data", v + 1)
      /\ Following(fs, Unit(k, "data", l)) = Unit(k, "hash", 1)
      /\ Following(fs, Unit(k, "hash", 1)) = Unit(k, "hash", 2)
  BY <1>0, FollowingOf
<1>7. ASSUME NEW j \in 1..(l + 3) PROVE u[j + 1] = Following(fs, u[j])
  <2>1. CASE j = 1
    BY <1>1, <1>6, <2>1
  <2>2. CASE j = 2 /\ l = 0
    <3>1. j + 1 = 3 + l
      BY <2>2
    <3> QED
      BY <1>1, <1>2, <1>6, <2>2, <3>1
  <2>3. CASE j = 2 /\ l # 0
    <3>1. 1 \in 1..l /\ j + 1 = 2 + 1
      BY <1>1, <2>3
    <3> QED
      BY <1>1, <1>6, <2>3, <3>1
  <2>4. CASE j = 3 + l
    <3>1. j + 1 = 4 + l
      BY <1>1, <2>4
    <3> QED
      BY <1>2, <1>6, <2>4, <3>1
  <2>5. CASE j - 2 \in 1..l
    <3>1. PICK i : i = j - 2
      OBVIOUS
    <3>2. i \in 1..l /\ j = 2 + i
      BY <1>1, <2>5, <3>1
    <3>3. u[j] = Unit(k, "data", i)
      BY <1>1, <3>2
    <3>4. CASE i = l
      <4>1. j + 1 = 3 + l
        BY <1>1, <3>2, <3>4
      <4> QED
        BY <1>2, <1>6, <3>3, <3>4, <4>1
    <3>5. CASE i # l
      <4>1. i + 1 \in 1..l /\ j + 1 = 2 + (i + 1)
        BY <1>1, <3>2, <3>5
      <4>2. u[j + 1] = Unit(k, "data", i + 1)
        BY <1>1, <4>1
      <4> QED
        BY <1>6, <3>3, <3>5, <4>2
    <3> QED
      BY <3>4, <3>5
  <2>6. j \in 1..(l + 4) /\ j # 4 + l
    BY <1>1
  <2> QED
    BY <1>3, <2>1, <2>2, <2>3, <2>4, <2>5, <2>6
<1> QED
  BY <1>0, <1>4, <1>5, <1>7

\* What follows a unit does not change when another frame is sent.
LEMMA FollowingKept ==
    ASSUME Len(frames) \in Nat, \A k \in 1..Len(frames) : frames'[k] = frames[k]
    PROVE  \A u : /\ u.frame \in Nat
                  /\ u.frame \in 1..Len(frames) \/ (u.part = "hash" /\ u.v = HashLen)
                  /\ Following(frames, u).frame <= Len(frames)
                  => Following(frames', u) = Following(frames, u)
<1> SUFFICES ASSUME NEW u, u.frame \in Nat, Following(frames, u).frame <= Len(frames),
                    u.frame \in 1..Len(frames) \/ (u.part = "hash" /\ u.v = HashLen)
             PROVE  Following(frames', u) = Following(frames, u)
  OBVIOUS
<1>1. CASE u.part = "hash" /\ u.v = HashLen
  <2>1. u.frame + 1 \in 1..Len(frames)
    BY <1>1 DEF Following, Unit
  <2> QED
    BY <1>1, <2>1 DEF Following
<1>2. CASE ~(u.part = "hash" /\ u.v = HashLen)
  <2>1. frames'[u.frame] = frames[u.frame]
    BY <1>2
  <2> QED
    BY <1>2, <2>1 DEF Following
<1> QED
  BY <1>1, <1>2

-----------------------------------------------------------------------------
(* The client *)

LEMMA LastReadKept ==
    ASSUME Whole, pc # "returned", UNCHANGED <<pc, handled>>,
           \A k \in 1..Len(frames) : frames'[k] = frames[k]
    PROVE  /\ LastRead' = LastRead /\ LastRead.frame \in Nat
           /\ \/ LastRead.frame \in 1..Len(frames)
              \/ LastRead.part = "hash" /\ LastRead.v = HashLen
<1>1. /\ Len(handled) \in Nat /\ Len(frames) \in Nat /\ Current \in Nat /\ Current' = Current
      /\ Buffered /\ pc \in {"type", "header", "expect", "length", "data", "hash", "dispatch", "returned"}
  BY Types DEF Whole, TypeOK, Current
<1>2. CASE pc \in {"type", "header", "dispatch"}
  BY <1>1, <1>2 DEF LastRead, LastOf, Unit
<1>3. CASE pc \in {"expect", "length", "data", "hash"}
  <2>1. Current \in 1..Len(frames)
    BY <1>1, <1>3 DEF Buffered, Current
  <2>2. frames'[Current] = frames[Current]
    BY <2>1
  <2> QED
    BY <1>1, <1>3, <2>1, <2>2 DEF LastRead, Unit
<1> QED
  BY <1>1, <1>2, <1>3

\* Sending a message keeps what is in step in step.
LEMMA InStepAfterSend ==
    ASSUME Whole, NEW f \in FrameType, ClientSends(f)
    PROVE  InStep' /\ stream' \in Seq(UnitType)
<1>0. PICK k, u, m, n : k = Len(frames) + 1 /\ u = Units(f, k) /\ m = Len(stream) /\ n = f.len + 4
  OBVIOUS
<1>1. /\ stream \in Seq(UnitType) /\ m \in Nat /\ (stream = <<>> <=> m = 0)
      /\ frames \in Seq(FrameType) /\ Len(frames) \in Nat /\ TypeOK /\ InStep /\ Buffered
  BY <1>0, Types DEF Whole, TypeOK
<1>2. /\ ~eof /\ eof' = eof /\ frames' = Append(frames, f) /\ stream' = stream \o u
      /\ pc' = pc /\ total' = total /\ handled' = handled
  BY <1>0 DEF ClientSends
<1>3. k \in Frame /\ k \in Nat /\ n \in Nat
  <2>1. Len(frames) < MaxFrames
    BY DEF ClientSends
  <2> QED
    BY <1>0, <1>1, <2>1, Frames, BoundAssumption DEF Frame
<1>4. /\ Len(frames') = k /\ frames'[k] = f
      /\ \A j \in 1..(k - 1) : frames'[j] = frames[j]
  BY <1>0, <1>1, <1>2, AppendProperties
<1>5. /\ u \in Seq(UnitType) /\ Len(u) = n /\ u[1] = Unit(k, "op", f.op)
      /\ \A j \in 1..n : u[j].frame = k
      /\ u[n] = LastOf(k)
  <2>1. /\ u \in Seq(UnitType) /\ Len(u) = f.len + 4 /\ u[1] = Unit(k, "op", f.op)
        /\ \A j \in 1..(f.len + 4) : u[j].frame = k
        /\ u[f.len + 4] = LastOf(k)
    BY <1>0, <1>3, <1>4, UnitsOf, UnitsChained
  <2> QED
    BY <1>0, <2>1
<1>6. \A j \in 1..(n - 1) : u[j + 1] = Following(frames', u[j])
  <2>1. \A j \in 1..(f.len + 3) : u[j + 1] = Following(frames', u[j])
    BY <1>0, <1>3, <1>4, UnitsChained, SMTT(30)
  <2>2. f.len + 3 = n - 1
    BY <1>0, Frames
  <2> QED
    BY <2>1, <2>2
<1>7. /\ stream' \in Seq(UnitType) /\ Len(stream') = m + n
      /\ \A j \in 1..m : stream'[j] = stream[j]
      /\ \A j \in 1..n : stream'[m + j] = u[j]
  <2>1. m = Len(stream) /\ n = Len(u)
    BY <1>0, <1>5
  <2>2. stream \in Seq(UnitType) /\ u \in Seq(UnitType) /\ m \in Nat /\ n \in Nat
    BY <1>1, <1>3, <1>5
  <2>3. /\ stream \o u \in Seq(UnitType) /\ Len(stream \o u) = Len(stream) + Len(u)
        /\ \A j \in 1..Len(stream) : (stream \o u)[j] = stream[j]
        /\ \A j \in 1..Len(u) : (stream \o u)[Len(stream) + j] = u[j]
    BY <2>2, Joined
  <2>4. stream' = stream \o u
    BY <1>2
  <2> QED
    BY <2>1, <2>3, <2>4
<1>8. \A j \in 1..m : /\ stream[j].frame \in Nat /\ stream[j].frame \in 1..Len(frames)
                      /\ stream[j].frame <= Len(frames)
  <2>1. \A j \in 1..m : stream[j] \in UnitType /\ stream[j].frame <= Len(frames)
    BY <1>0, <1>1, Types DEF InStep
  <2>2. \A x \in UnitType : x.frame \in 1..MaxFrames
    BY DEF UnitType
  <2> QED
    BY <1>1, <2>1, <2>2, BoundAssumption
<1>9. \A j \in DOMAIN stream' : stream'[j].frame <= Len(frames')
  <2> TAKE j \in DOMAIN stream'
  <2>1. j \in 1..(m + n)
    BY <1>7, LenProperties
  <2>2. CASE j \in 1..m
    <3>1. stream'[j].frame \in Nat /\ stream'[j].frame <= Len(frames)
      BY <1>7, <1>8, <2>2
    <3> QED
      BY <1>0, <1>1, <1>4, <3>1
  <2>3. CASE j \notin 1..m
    <3>1. j - m \in 1..n /\ m + (j - m) = j
      BY <1>1, <1>3, <2>1, <2>3
    <3>2. stream'[j].frame = k
      BY <1>5, <1>7, <3>1
    <3> QED
      BY <1>3, <1>4, <3>2
  <2> QED
    BY <2>2, <2>3
<1>10. ~(total' > 0)
  BY <1>1, <1>2 DEF InStep
<1>11. stream' # <<>> /\ m + n > 0 /\ n > 0
  <2>1. n > 0
    BY <1>0, Frames
  <2>2. Len(stream') # 0
    BY <1>1, <1>3, <1>7, <2>1
  <2> QED
    BY <1>1, <1>3, <1>7, <2>1, <2>2, EmptySeq
<1>12. stream'[m + n] = LastOf(k)
  BY <1>3, <1>5, <1>7, <1>11
<1>13. Following(frames', LastOf(k - 1)) = u[1] /\ Len(frames) = k - 1
  <2>1. Following(frames', LastOf(k - 1)) = Unit((k - 1) + 1, "op", frames'[(k - 1) + 1].op)
    BY FollowingOf
  <2>2. (k - 1) + 1 = k /\ Len(frames) = k - 1
    BY <1>0, <1>1
  <2> QED
    BY <1>4, <1>5, <2>1, <2>2
<1>14. ASSUME pc # "returned", total = 0
       PROVE  /\ stream'[1] = Following(frames', LastRead')
              /\ \A j \in 1..(m + n - 1) : stream'[j + 1] = Following(frames', stream'[j])
  <2>1. /\ LastRead' = LastRead /\ LastRead.frame \in Nat
        /\ \/ LastRead.frame \in 1..Len(frames)
           \/ LastRead.part = "hash" /\ LastRead.v = HashLen
    BY <1>2, <1>4, <1>13, <1>14, LastReadKept
  <2>2. /\ m # 0 => stream[1] = Following(frames, LastRead)
        /\ \A j \in 1..(m - 1) : stream[j + 1] = Following(frames, stream[j])
        /\ m = 0 => LastRead = LastOf(k - 1)
        /\ m # 0 => stream[m] = LastOf(k - 1)
    BY <1>0, <1>1, <1>2, <1>13, <1>14 DEF InStep
  <2>3. stream'[1] = Following(frames', LastRead')
    <3>1. CASE m = 0
      <4>1. 1 \in 1..n /\ m + 1 = 1
        BY <1>3, <1>11, <3>1
      <4>2. stream'[1] = u[1]
        BY <1>7, <4>1
      <4> QED
        BY <1>13, <2>1, <2>2, <3>1, <4>2
    <3>2. CASE m # 0
      <4>1. 1 \in 1..m
        BY <1>1, <3>2
      <4>2. stream'[1] = Following(frames, LastRead) /\ Following(frames, LastRead).frame <= Len(frames)
        BY <1>7, <1>8, <2>2, <3>2, <4>1
      <4>3. \A j \in 1..Len(frames) : frames'[j] = frames[j]
        BY <1>4, <1>13
      <4>4. Following(frames', LastRead) = Following(frames, LastRead)
        BY <1>1, <2>1, <4>2, <4>3, FollowingKept
      <4> QED
        BY <2>1, <4>2, <4>4
    <3> QED
      BY <3>1, <3>2
  <2>4. ASSUME NEW j \in 1..(m + n - 1) PROVE stream'[j + 1] = Following(frames', stream'[j])
    <3>1. CASE j \in 1..(m - 1)
      <4>1. j \in 1..m /\ j + 1 \in 1..m
        BY <1>1, <3>1
      <4>2. stream'[j] = stream[j] /\ stream'[j + 1] = Following(frames, stream[j])
            /\ Following(frames, stream[j]).frame <= Len(frames)
        BY <1>7, <1>8, <2>2, <3>1, <4>1
      <4>3. \A i \in 1..Len(frames) : frames'[i] = frames[i]
        BY <1>4, <1>13
      <4>4. stream[j].frame \in Nat /\ stream[j].frame \in 1..Len(frames)
        BY <1>8, <4>1
      <4>5. Following(frames', stream[j]) = Following(frames, stream[j])
        BY <1>1, <4>2, <4>3, <4>4, FollowingKept
      <4> QED
        BY <4>2, <4>5
    <3>2. CASE j = m
      <4>1. m # 0 /\ m \in 1..m /\ 1 \in 1..n
        BY <1>1, <1>3, <1>11, <3>2
      <4>2. stream'[j] = LastOf(k - 1) /\ stream'[j + 1] = u[1]
        BY <1>7, <2>2, <3>2, <4>1
      <4> QED
        BY <1>13, <4>2
    <3>3. CASE j \notin 1..m
      <4>1. PICK i : i = j - m
        OBVIOUS
      <4>2. i \in 1..(n - 1) /\ i \in 1..n /\ i + 1 \in 1..n /\ m + i = j /\ m + (i + 1) = j + 1
        BY <1>1, <1>3, <3>3, <4>1
      <4>3. stream'[j] = u[i] /\ stream'[j + 1] = u[i + 1]
        BY <1>7, <4>2
      <4> QED
        BY <1>6, <4>2, <4>3
    <3>4. j \in 1..(m - 1) \/ j = m \/ j \notin 1..m
      BY <1>1, <1>3
    <3> QED
      BY <3>1, <3>2, <3>3, <3>4
  <2> QED
    BY <2>3, <2>4
<1> QED
  <2>1. ~eof' => (IF stream' = <<>> THEN LastRead' ELSE stream'[Len(stream')]) = LastOf(Len(frames'))
    BY <1>4, <1>7, <1>11, <1>12
  <2>2. ASSUME pc' # "returned", total' = 0
        PROVE  /\ stream' # <<>> => stream'[1] = Following(frames', LastRead')
               /\ \A i \in 1..(Len(stream') - 1) : stream'[i + 1] = Following(frames', stream'[i])
    <3>1. pc # "returned" /\ total = 0
      BY <1>2, <2>2
    <3>3. Len(stream') - 1 = m + n - 1
      BY <1>1, <1>3, <1>7
    <3>2. /\ stream'[1] = Following(frames', LastRead')
          /\ \A i \in 1..(m + n - 1) : stream'[i + 1] = Following(frames', stream'[i])
      BY <1>14, <3>1
    <3> QED
      BY <3>2, <3>3
  <2> QED
    BY <1>7, <1>9, <1>10, <2>1, <2>2 DEF InStep

\* The client goes, and with it what the network has not delivered.
LEMMA InStepAfterEnd ==
    ASSUME Whole, NEW n \in 0..Len(stream), ClientEnds(n)
    PROVE  InStep' /\ stream' \in Seq(UnitType)
<1>1. /\ stream \in Seq(UnitType) /\ Len(stream) \in Nat /\ DOMAIN stream = 1..Len(stream)
      /\ TypeOK /\ InStep /\ n \in Nat
  BY Types DEF Whole, TypeOK
<1>2. /\ ~eof /\ eof' = TRUE /\ frames' = frames /\ stream' = SubSeq(stream, 1, n)
      /\ pc' = pc /\ total' = total /\ handled' = handled
  BY DEF ClientEnds
<1>3. /\ stream' \in Seq(UnitType) /\ Len(stream') = n
      /\ \A i \in 1..n : stream'[i] = stream[i]
  BY <1>1, <1>2, Rest
<1>4. DOMAIN stream' = 1..n /\ (stream' = <<>> <=> n = 0)
  BY <1>3, EmptySeq, LenProperties
<1>5. \A i \in DOMAIN stream' : stream'[i].frame <= Len(frames')
  <2>1. \A i \in 1..Len(stream) : stream[i].frame <= Len(frames)
    BY <1>1 DEF InStep
  <2>2. \A i \in 1..n : i \in 1..Len(stream)
    BY <1>1
  <2> QED
    BY <1>2, <1>3, <1>4, <2>1, <2>2
<1>6. ~(total' > 0)
  BY <1>1, <1>2 DEF InStep
<1>7. ASSUME pc # "returned", total = 0
      PROVE  /\ n # 0 => stream'[1] = Following(frames', LastRead')
             /\ \A i \in 1..(n - 1) : stream'[i + 1] = Following(frames', stream'[i])
  <2>1. LastRead' = LastRead
    BY <1>2, <1>7, LastReadKept
  <2>2. /\ stream # <<>> => stream[1] = Following(frames, LastRead)
        /\ \A i \in 1..(Len(stream) - 1) : stream[i + 1] = Following(frames, stream[i])
    BY <1>1, <1>7 DEF InStep
  <2>3. n # 0 => 1 \in 1..n /\ stream # <<>>
    BY <1>1, Types
  <2>4. \A i \in 1..(n - 1) : i \in 1..n /\ i + 1 \in 1..n /\ i \in 1..(Len(stream) - 1)
    BY <1>1
  <2> QED
    BY <1>2, <1>3, <2>1, <2>2, <2>3, <2>4
<1>8. ASSUME pc' # "returned", total' = 0
      PROVE  /\ stream' # <<>> => stream'[1] = Following(frames', LastRead')
             /\ \A i \in 1..(Len(stream') - 1) : stream'[i + 1] = Following(frames', stream'[i])
  <2>1. pc # "returned" /\ total = 0
    BY <1>2, <1>8
  <2>2. /\ n # 0 => stream'[1] = Following(frames', LastRead')
        /\ \A i \in 1..(n - 1) : stream'[i + 1] = Following(frames', stream'[i])
    BY <1>7, <2>1
  <2> QED
    BY <1>3, <1>4, <2>2
<1> QED
  BY <1>2, <1>3, <1>5, <1>6, <1>8 DEF InStep

-----------------------------------------------------------------------------
(* The buffers *)

\* A Read leaves the length of its buffer, and one that fills it leaves nothing else.
LEMMA FillOf ==
    ASSUME TypeOK, NEW buf \in BufType, NEW n \in 0..Len(stream), n <= Len(buf)
    PROVE  /\ Fill(buf, n) \in BufType /\ Len(Fill(buf, n)) = Len(buf)
           /\ n = Len(buf) => \A i \in 1..n : Fill(buf, n)[i] = stream[i]
<1>0. PICK Cell : Cell = UnitType \cup [frame : {0}, part : {"zero"}, v : 1..(MaxLen + HashLen)]
  OBVIOUS
<1>1. BufType = Seq(Cell) /\ stream \in Seq(Cell) /\ buf \in Seq(Cell)
  BY <1>0, Buffers DEF TypeOK, BufType
<1>2. Len(stream) \in Nat /\ Len(buf) \in Nat /\ n \in Nat /\ n \in 0..Len(buf)
  BY <1>1, LenProperties
<1>3. PICK s, t, r : s = SubSeq(stream, 1, n) /\ t = SubSeq(buf, n + 1, Len(buf)) /\ r = Len(buf) - n
  OBVIOUS
<1>4. s \in Seq(Cell) /\ Len(s) = n /\ \A i \in 1..n : s[i] = stream[i]
  BY <1>1, <1>3, Rest
<1>5. t \in Seq(Cell) /\ Len(t) = r
  BY <1>1, <1>2, <1>3, Rest
<1>6. /\ s \o t \in Seq(Cell) /\ Len(s \o t) = Len(s) + Len(t)
      /\ \A i \in 1..Len(s) : (s \o t)[i] = s[i]
  BY <1>4, <1>5, Joined
<1>7. Fill(buf, n) = s \o t
  BY <1>3 DEF Fill
<1>8. n + r = Len(buf)
  BY <1>2, <1>3
<1>9. Len(Fill(buf, n)) = Len(buf) /\ Fill(buf, n) \in BufType
  BY <1>1, <1>4, <1>5, <1>6, <1>7, <1>8
<1>10. \A i \in 1..n : Fill(buf, n)[i] = stream[i]
  BY <1>4, <1>6, <1>7
<1> QED
  BY <1>9, <1>10

LEMMA FramesKept ==
    ASSUME Whole, UNCHANGED handled, \A k \in 1..Len(frames) : frames'[k] = frames[k]
    PROVE  FramesInOrder'
<1>1. /\ Len(handled) \in Nat /\ DOMAIN handled = 1..Len(handled) /\ Len(frames) \in Nat
      /\ Len(handled) <= Len(frames) /\ FramesInOrder
  BY Types DEF Whole, Buffered
<1>2. \A i \in 1..Len(handled) : i \in 1..Len(frames)
  BY <1>1
<1> QED
  BY <1>1, <1>2 DEF FramesInOrder, AsSent

LEMMA BuffersKept ==
    ASSUME Whole, UNCHANGED <<pc, handled, header, data>>, Len(frames') \in Nat,
           Len(frames) <= Len(frames'), \A k \in 1..Len(frames) : frames'[k] = frames[k]
    PROVE  Buffered'
<1>1. /\ Len(handled) \in Nat /\ Len(frames) \in Nat /\ Buffered
  BY Types DEF Whole
<1>2. pc' = pc /\ handled' = handled /\ header' = header /\ data' = data /\ Current' = Current
  BY DEF Current
<1>3. Len(handled') <= Len(frames')
  BY <1>1, <1>2 DEF Buffered
<1>4. ASSUME pc \in {"expect", "length", "data", "hash", "dispatch"}
      PROVE  Len(handled) < Len(frames) /\ Len(handled') < Len(frames') /\ frames'[Current] = frames[Current]
  <2>1. Len(handled) < Len(frames)
    BY <1>1, <1>4 DEF Buffered
  <2>2. Current \in 1..Len(frames)
    BY <1>1, <2>1 DEF Current
  <2> QED
    BY <1>1, <1>2, <2>1, <2>2
<1> QED
  BY <1>1, <1>2, <1>3, <1>4 DEF Buffered

-----------------------------------------------------------------------------
(* Typing *)

\* A Read, whatever it returns.
LEMMA ReadTypes ==
    ASSUME TypeOK, NEW buf \in BufType, NEW n \in 0..Len(buf), NEW then, Read(n, Len(buf), then)
    PROVE  /\ stream' \in Seq(UnitType) /\ total' \in Nat /\ cut' \in Nat
           /\ pc' \in {pc, then, "returned"} /\ reason' \in {reason, "end"}
           /\ Fill(buf, n) \in BufType /\ Len(Fill(buf, n)) = Len(buf)
<1>1. /\ stream \in Seq(UnitType) /\ Len(stream) \in Nat /\ total \in Nat /\ cut \in Nat
      /\ Len(handled) + 1 \in Nat /\ n \in Nat
  BY Types, LenProperties DEF TypeOK, BufType
<1>2. CASE n = 0
  <2>1. /\ UNCHANGED <<stream, total, cut>> /\ pc' = "returned" /\ reason' = "end"
        /\ n \in 0..Len(stream)
    BY <1>1, <1>2 DEF Read, Take, Return
  <2> QED
    BY <1>1, <2>1, FillOf
<1>3. CASE n # 0
  <2>1. /\ n \in 1..Len(stream) /\ stream' = SubSeq(stream, n + 1, Len(stream))
        /\ total' \in {0, total + n} /\ pc' \in {pc, then} /\ reason' = reason
        /\ cut' \in {Len(handled) + 1, cut}
    BY <1>3 DEF Read, Take
  <2>2. n \in 0..Len(stream)
    BY <1>1, <2>1
  <2>3. stream' \in Seq(UnitType)
    BY <1>1, <2>1, <2>2, Rest
  <2> QED
    BY <1>1, <2>1, <2>2, <2>3, FillOf
<1> QED
  BY <1>2, <1>3

\* Whatever a length is read from, it is one.
LEMMA LengthType ==
    ASSUME TypeOK
    PROVE  \A len \in AsLength(header[2]) : Zeros(len) \in BufType /\ Len(Zeros(len)) <= MaxLen
<1>1. PICK Cell : Cell = UnitType \cup [frame : {0}, part : {"zero"}, v : 1..(MaxLen + HashLen)]
  OBVIOUS
<1>2. header[2] \in Cell
  <2>1. header \in Seq(Cell) /\ 2 \in 1..Len(header)
    BY <1>1 DEF TypeOK, BufType
  <2> QED
    BY <2>1, ElementOfSeq
<1>3. AsLength(header[2]) \subseteq Length
  BY <1>1, <1>2, BoundAssumption DEF AsLength, UnitType, Length
<1> SUFFICES ASSUME NEW len \in Length
             PROVE  Zeros(len) \in BufType /\ Len(Zeros(len)) <= MaxLen
  BY <1>3
<1>4. len \in 0..(MaxLen + HashLen) /\ len <= MaxLen
  BY BoundAssumption DEF Length, HashLen
<1> QED
  BY <1>4, Buffers

\* The types hold of a connection, whatever the network does.
LEMMA Typing == TypeOK /\ [Next]_vars => TypeOK'
<1> SUFFICES ASSUME TypeOK, [Next]_vars PROVE TypeOK'
  OBVIOUS
<1>0. /\ header \in BufType /\ data \in BufType /\ hash \in BufType
      /\ Len(header) = 2 /\ Len(data) <= MaxLen /\ Len(hash) = HashLen /\ HashLen = 2
      /\ stream \in Seq(UnitType)
  BY DEF TypeOK, HashLen
<1>1. ASSUME NEW f \in FrameType, ClientSends(f) PROVE TypeOK'
  <2>1. frames \in Seq(FrameType) /\ Len(frames) \in Nat /\ Len(frames) < MaxFrames
    BY <1>1, Types DEF TypeOK, ClientSends
  <2>2. frames' \in Seq(FrameType) /\ Len(frames') = Len(frames) + 1
    BY <1>1, <2>1, AppendProperties DEF ClientSends
  <2>3. Len(frames') <= MaxFrames /\ Len(frames) + 1 \in Frame
    BY <2>1, <2>2, BoundAssumption DEF Frame
  <2>4. Units(f, Len(frames) + 1) \in Seq(UnitType)
    BY <2>3, UnitsOf
  <2>5. stream' \in Seq(UnitType)
    BY <1>0, <1>1, <2>4, Joined DEF ClientSends
  <2> QED
    BY <1>1, <2>2, <2>3, <2>5 DEF TypeOK, ClientSends, bufVars
<1>2. ASSUME NEW n \in 0..Len(stream), ClientEnds(n) PROVE TypeOK'
  <2>1. stream' \in Seq(UnitType)
    BY <1>0, <1>2, Rest DEF ClientEnds
  <2> QED
    BY <1>2, <2>1 DEF TypeOK, ClientEnds, bufVars
<1>3. CASE ReadType \/ TypeFails
  BY <1>3 DEF ReadType, TypeFails, Return, TypeOK, clientVars, bufVars
<1>4. CASE ReadHeader
  <2>1. PICK n \in 0..2, then \in {"length", "expect"} :
          Read(n, Len(header), then) /\ header' = Fill(header, n)
    BY <1>0, <1>4 DEF ReadHeader
  <2>2. /\ stream' \in Seq(UnitType) /\ total' \in Nat /\ cut' \in Nat
        /\ pc' \in {pc, then, "returned"} /\ reason' \in {reason, "end"}
        /\ header' \in BufType /\ Len(header') = 2
    BY <1>0, <2>1, ReadTypes
  <2> QED
    BY <1>4, <2>2 DEF ReadHeader, TypeOK
<1>5. CASE ExpectHello
  BY <1>5 DEF ExpectHello, Return, TypeOK, clientVars, bufVars
<1>6. CASE TakeLength
  <2>1. data' \in BufType /\ Len(data') <= MaxLen /\ pc' \in {"hash", "data"}
    BY <1>6, LengthType DEF TakeLength
  <2> QED
    BY <1>6, <2>1 DEF TakeLength, TypeOK, clientVars
<1>7. CASE ReadData
  <2>1. PICK n \in 0..Len(data) : Read(n, Len(data), "hash") /\ data' = Fill(data, n)
    BY <1>7 DEF ReadData
  <2>2. /\ stream' \in Seq(UnitType) /\ total' \in Nat /\ cut' \in Nat
        /\ pc' \in {pc, "hash", "returned"} /\ reason' \in {reason, "end"}
        /\ data' \in BufType /\ Len(data') = Len(data)
    BY <1>0, <2>1, ReadTypes
  <2> QED
    BY <1>7, <2>2 DEF ReadData, TypeOK
<1>8. CASE ReadHash
  <2>1. PICK n \in 0..Len(hash) : Read(n, Len(hash), "dispatch") /\ hash' = Fill(hash, n)
    BY <1>0, <1>8 DEF ReadHash
  <2>2. /\ stream' \in Seq(UnitType) /\ total' \in Nat /\ cut' \in Nat
        /\ pc' \in {pc, "dispatch", "returned"} /\ reason' \in {reason, "end"}
        /\ hash' \in BufType /\ Len(hash') = Len(hash)
    BY <1>0, <2>1, ReadTypes
  <2> QED
    BY <1>8, <2>2 DEF ReadHash, TypeOK
<1>9. ASSUME NEW op \in Op, Dispatch(op) PROVE TypeOK'
  <2>1. /\ handled \in Seq([op : Op, data : BufType])
        /\ [op |-> op, data |-> data] \in [op : Op, data : BufType]
    BY <1>0 DEF TypeOK
  <2>2. handled' \in Seq([op : Op, data : BufType])
    <3>1. handled' = handled \/ handled' = Append(handled, [op |-> op, data |-> data])
      BY <1>9 DEF Dispatch
    <3>2. PICK e \in [op : Op, data : BufType] : handled' = handled \/ handled' = Append(handled, e)
      BY <2>1, <3>1
    <3>3. Append(handled, e) \in Seq([op : Op, data : BufType])
      BY <2>1, <3>2, AppendProperties, Zenon
    <3> QED
      BY <2>1, <3>2, <3>3, Zenon
  <2>3. /\ pc' \in {"header", "returned"} /\ sock' \in {sock, "closed"}
        /\ reason' \in {reason, "shutdown", "opcode", "undecodable"}
    BY <1>9 DEF Dispatch, Return
  <2> QED
    BY <1>9, <2>2, <2>3 DEF Dispatch, TypeOK, clientVars, bufVars
<1>10. CASE UNCHANGED vars
  BY <1>10 DEF vars, clientVars, bufVars, TypeOK
<1> QED
  BY <1>1, <1>2, <1>3, <1>4, <1>5, <1>6, <1>7, <1>8, <1>9, <1>10 DEF Next, Goroutine

-----------------------------------------------------------------------------
(* Every step, until a Read comes back short *)

LEMMA SendKeeps ==
    ASSUME Whole, NEW f \in FrameType, ClientSends(f), TypeOK' PROVE Whole'
<1>1. /\ TypeOK /\ frames \in Seq(FrameType) /\ Len(frames) \in Nat
      /\ frames' = Append(frames, f) /\ Len(frames) < MaxFrames
      /\ UNCHANGED <<kind, eof, pc, total, seen, bufVars, sock, handled>>
  BY Types DEF Whole, TypeOK, ClientSends
<1>2. /\ frames' \in Seq(FrameType) /\ Len(frames') = Len(frames) + 1
      /\ \A k \in 1..Len(frames) : frames'[k] = frames[k]
  BY <1>1, AppendProperties
<1>3. InStep' /\ stream' \in Seq(UnitType)
  BY InStepAfterSend
<1>4. Len(frames') \in Nat /\ Len(frames) <= Len(frames') /\ Len(frames') <= MaxFrames
  BY <1>1, <1>2, BoundAssumption
<1>5. TypeOK'
  OBVIOUS
<1>6. pc' = pc /\ handled' = handled /\ header' = header /\ data' = data
  BY <1>1 DEF bufVars
<1>7. FramesInOrder'
  BY <1>2, <1>6, FramesKept
<1>8. Buffered'
  BY <1>2, <1>4, <1>6, BuffersKept
<1> QED
  BY <1>3, <1>5, <1>7, <1>8 DEF Whole

LEMMA EndKeeps ==
    ASSUME Whole, NEW n \in 0..Len(stream), ClientEnds(n), TypeOK' PROVE Whole'
<1>1. /\ TypeOK /\ eof' = TRUE /\ Len(frames) \in Nat
      /\ UNCHANGED <<kind, frames, pc, total, seen, bufVars, sock, handled>>
  BY Types DEF Whole, ClientEnds
<1>2. InStep' /\ stream' \in Seq(UnitType)
  BY InStepAfterEnd
<1>3. TypeOK'
  OBVIOUS
<1>4. /\ pc' = pc /\ handled' = handled /\ header' = header /\ data' = data /\ frames' = frames
      /\ Len(frames') \in Nat /\ Len(frames) <= Len(frames')
  BY <1>1 DEF bufVars
<1>5. FramesInOrder' /\ Buffered'
  BY <1>4, FramesKept, BuffersKept
<1> QED
  BY <1>2, <1>3, <1>5 DEF Whole

LEMMA TypeKeeps ==
    ASSUME Whole, ReadType \/ TypeFails, TypeOK' PROVE Whole'
<1>1. /\ TypeOK /\ pc = "type" /\ pc' \in {"header", "returned"} /\ sock' \in {"open", "closed"}
      /\ UNCHANGED <<clientVars, total, seen, bufVars, handled>>
  BY DEF Whole, TypeOK, ReadType, TypeFails, Return
<1>2. /\ handled' = handled /\ frames' = frames /\ stream' = stream /\ eof' = eof /\ total' = total
      /\ kind' = kind /\ seen' = seen /\ header' = header /\ data' = data /\ hash' = hash
  BY <1>1 DEF clientVars, bufVars
<1>3. pc' # "returned" => LastRead' = LastRead
  BY <1>1, <1>2 DEF LastRead, Current
<1>4. InStep'
  BY <1>1, <1>2, <1>3, InStepWithout
<1>5. TypeOK'
  OBVIOUS
<1>6. FramesInOrder'
  BY <1>2, FramesKept
<1>7. Buffered'
  BY <1>1, <1>2 DEF Buffered, Whole
<1> QED
  BY <1>4, <1>5, <1>6, <1>7 DEF Whole

\* A goroutine whose Read fails, or is cut off by the end of the stream.
LEMMA FailedKeeps ==
    ASSUME Whole, UNCHANGED <<kind, frames, eof, seen, sock, handled>>,
           header' \in BufType, Len(header') = 2, data' \in BufType, Len(data') = Len(data),
           hash' \in BufType, Len(hash') = HashLen,
           \/ pc' = "returned" /\ UNCHANGED <<stream, total>>
           \/ /\ eof /\ stream' = <<>> /\ pc' = pc /\ total' > 0 /\ total' \in Nat
              /\ \/ pc = "header"
                 \/ pc = "data" /\ header' = header
                 \/ pc = "hash" /\ header' = header /\ data' = data, TypeOK'
    PROVE  Whole'
<1>1. /\ kind' = kind /\ frames' = frames /\ eof' = eof /\ seen' = seen /\ sock' = sock
      /\ handled' = handled /\ Current' = Current /\ TypeOK /\ Buffered
  BY DEF Whole, Current
<1>2. InStep' /\ stream' \in Seq(UnitType)
  <2>1. CASE pc' = "returned" /\ UNCHANGED <<stream, total>>
    BY <1>1, <2>1, InStepWithout
  <2>2. CASE eof /\ stream' = <<>> /\ total' > 0 /\ total' \in Nat
    BY <1>1, <2>2, InStepAtEnd
  <2> QED
    BY <2>1, <2>2
<1>3. TypeOK'
  OBVIOUS
<1>4. FramesInOrder'
  BY <1>1, FramesKept
<1>5. Buffered'
  BY <1>1 DEF Buffered
<1> QED
  BY <1>2, <1>3, <1>4, <1>5 DEF Whole

LEMMA HeaderKeeps ==
    ASSUME Whole, cut = 0, cut' = 0, ReadHeader, TypeOK' PROVE Whole'
<1>0. PICK n, then :
         /\ n \in 0..2 /\ Read(n, 2, then) /\ then \in {"length", "expect"} /\ header' = Fill(header, n)
  BY DEF ReadHeader
<1>1. /\ pc = "header" /\ UNCHANGED <<kind, frames, eof, seen, data, hash, sock, handled>>
      /\ TypeOK /\ InStep /\ Buffered /\ Len(header) = 2 /\ header \in BufType
      /\ data \in BufType /\ hash \in BufType /\ Len(hash) = HashLen
  BY DEF ReadHeader, Whole, TypeOK
<1>2. \/ /\ pc' = "returned" /\ n = 0 /\ stream = <<>> /\ UNCHANGED <<stream, total>>
      \/ /\ total = 0 /\ n = 2 /\ n \in 1..Len(stream)
         /\ stream' = SubSeq(stream, n + 1, Len(stream)) /\ pc' = then /\ total' = 0
      \/ /\ eof /\ n \in 1..Len(stream) /\ stream' = <<>> /\ pc' = pc /\ total' > 0
         /\ total' \in Nat
  BY <1>0, ReadsWhole
<1>3. n \in 0..Len(stream) /\ n <= Len(header)
  BY <1>0, <1>1, <1>2, Types
<1>4. header' \in BufType /\ Len(header') = 2 /\ (n = 2 => \A i \in 1..n : header'[i] = stream[i])
  BY <1>0, <1>1, <1>3, FillOf
<1>5. CASE ~(total = 0 /\ n = 2 /\ pc' = then)
  BY <1>1, <1>2, <1>4, <1>5, FailedKeeps
<1>6. CASE total = 0 /\ n = 2 /\ pc' = then
  <2>1. /\ n \in 1..Len(stream) /\ stream' = SubSeq(stream, n + 1, Len(stream)) /\ total' = 0
        /\ pc' \in {"length", "expect"}
    BY <1>0, <1>1, <1>2, <1>6
  <2>2. /\ 1 \in 1..Len(stream) /\ 2 \in 1..Len(stream) /\ 1 \in 1..(Len(stream) - 1) /\ stream # <<>>
        /\ Len(frames) \in Nat /\ Len(handled) \in Nat
    BY <1>1, <1>6, <2>1, Types
  <2>3. PICK f : f = frames[Current]
    OBVIOUS
  <2>4. stream[1] = Unit(Current, "op", f.op)
    <3>1. stream[1] = Following(frames, LastOf(Len(handled)))
      BY <1>1, <1>6, <2>2 DEF InStep, LastRead
    <3> QED
      BY <2>3, <3>1, FollowingOf DEF Current
  <2>5. stream[2] = Unit(Current, "len", f.len)
    <3>1. stream[1 + 1] = Following(frames, stream[1])
      BY <1>1, <1>6, <2>2 DEF InStep
    <3> QED
      BY <2>3, <2>4, <3>1, FollowingOf
  <2>6. Current \in 1..Len(frames)
    <3>1. stream[1].frame <= Len(frames) /\ stream[1].frame = Current
      BY <1>1, <2>2, <2>4, Types DEF InStep, Unit
    <3> QED
      BY <2>2, <3>1 DEF Current
  <2>7. header' = <<Unit(Current, "op", f.op), Unit(Current, "len", f.len)>>
    <3>1. header'[1] = Unit(Current, "op", f.op) /\ header'[2] = Unit(Current, "len", f.len)
      BY <1>4, <1>6, <2>4, <2>5
    <3> QED
      BY <1>4, <3>1 DEF BufType
  <2>8. /\ kind' = kind /\ frames' = frames /\ eof' = eof /\ seen' = seen /\ sock' = sock
        /\ data' = data /\ hash' = hash /\ handled' = handled /\ Current' = Current
    BY <1>1 DEF Current
  <2>9. LastRead' = stream[n]
    BY <1>6, <2>1, <2>3, <2>5, <2>8 DEF LastRead
  <2>10. InStep' /\ stream' \in Seq(UnitType)
    BY <1>1, <1>6, <2>1, <2>8, <2>9, InStepAfterRead
  <2>11. TypeOK'
    OBVIOUS
  <2>12. FramesInOrder'
    BY <2>8, FramesKept
  <2>13. Buffered'
    <3>1. Len(handled) < Len(frames)
      BY <2>2, <2>6 DEF Current
    <3> QED
      BY <2>1, <2>2, <2>3, <2>7, <2>8, <3>1 DEF Buffered
  <2> QED
    BY <2>10, <2>11, <2>12, <2>13 DEF Whole
<1> QED
  BY <1>5, <1>6

\* What the header that was read says of the message.
LEMMA HeaderSays ==
    ASSUME Whole, pc \in {"expect", "length", "data", "hash", "dispatch"}, NEW f, f = frames[Current]
    PROVE  /\ Current \in 1..Len(frames) /\ Current \in Frame /\ f \in FrameType
           /\ f.op \in Op /\ f.len \in Length /\ f.len \in Nat
           /\ AsOp(header[1]) = {f.op} /\ AsLength(header[2]) = {f.len}
<1>1. /\ Len(handled) \in Nat /\ Len(frames) \in Nat /\ Len(handled) < Len(frames)
      /\ header = <<Unit(Current, "op", f.op), Unit(Current, "len", f.len)>>
  BY Types DEF Whole, Buffered
<1>2. Current \in 1..Len(frames)
  BY <1>1 DEF Current
<1>3. Current \in Frame /\ f \in FrameType
  BY <1>2, Types DEF Whole
<1>4. header[1] = Unit(Current, "op", f.op) /\ header[2] = Unit(Current, "len", f.len)
  BY <1>1
<1> QED
  BY <1>2, <1>3, <1>4, Frames DEF AsOp, AsLength, Unit

LEMMA ExpectKeeps ==
    ASSUME Whole, ExpectHello, TypeOK' PROVE Whole'
<1>1. /\ TypeOK /\ Buffered /\ pc = "expect" /\ pc' \in {"length", "returned"}
      /\ sock' \in {"open", "closed"}
      /\ UNCHANGED <<clientVars, total, seen, bufVars, handled>>
  BY DEF Whole, TypeOK, ExpectHello, Return
<1>2. /\ handled' = handled /\ frames' = frames /\ stream' = stream /\ eof' = eof /\ total' = total
      /\ kind' = kind /\ seen' = seen /\ header' = header /\ data' = data /\ hash' = hash
      /\ Current' = Current
  BY <1>1 DEF clientVars, bufVars, Current
<1>3. pc' # "returned" => LastRead' = LastRead
  BY <1>1, <1>2 DEF LastRead
<1>4. InStep'
  BY <1>1, <1>2, <1>3, InStepWithout
<1>5. TypeOK'
  OBVIOUS
<1>6. FramesInOrder'
  BY <1>2, FramesKept
<1>7. Buffered'
  BY <1>1, <1>2 DEF Buffered
<1> QED
  BY <1>4, <1>5, <1>6, <1>7 DEF Whole

LEMMA LengthKeeps ==
    ASSUME Whole, TakeLength, TypeOK' PROVE Whole'
<1>0. PICK f : f = frames[Current]
  OBVIOUS
<1>1. /\ TypeOK /\ Buffered /\ pc = "length"
      /\ UNCHANGED <<clientVars, total, seen, header, hash, sock, handled>>
  BY DEF Whole, TakeLength
<1>2. /\ f.len \in Length /\ f.len \in Nat /\ AsLength(header[2]) = {f.len}
  BY <1>0, <1>1, HeaderSays
<1>3. data' = Zeros(f.len) /\ pc' = IF f.len = 0 THEN "hash" ELSE "data"
  BY <1>2 DEF TakeLength
<1>4. /\ handled' = handled /\ frames' = frames /\ stream' = stream /\ eof' = eof /\ total' = total
      /\ kind' = kind /\ seen' = seen /\ header' = header /\ hash' = hash /\ sock' = sock
      /\ Current' = Current
  BY <1>1 DEF clientVars, Current
<1>5. data' \in BufType /\ Len(data') = f.len /\ f.len <= MaxLen
  <2>1. f.len \in 0..(MaxLen + HashLen) /\ f.len <= MaxLen
    BY <1>2, BoundAssumption DEF Length, HashLen
  <2> QED
    BY <1>3, <2>1, Buffers
<1>6. LastRead' = LastRead
  <2>1. CASE f.len = 0
    BY <1>0, <1>1, <1>3, <1>4, <2>1 DEF LastRead
  <2>2. CASE f.len # 0
    BY <1>0, <1>1, <1>3, <1>4, <2>2 DEF LastRead
  <2> QED
    BY <2>1, <2>2
<1>7. InStep' /\ stream' \in Seq(UnitType)
  BY <1>1, <1>4, <1>6, InStepWithout
<1>8. TypeOK'
  OBVIOUS
<1>9. FramesInOrder'
  BY <1>4, FramesKept
<1>10. Buffered'
  <2>1. CASE f.len = 0
    <3>1. Zeros(0) = Bytes(Current, "data", 0)
      BY DEF Zeros, Bytes
    <3> QED
      BY <1>0, <1>1, <1>3, <1>4, <2>1, <3>1 DEF Buffered
  <2>2. CASE f.len # 0
    BY <1>0, <1>1, <1>3, <1>4, <1>5, <2>2 DEF Buffered
  <2> QED
    BY <2>1, <2>2
<1> QED
  BY <1>7, <1>8, <1>9, <1>10 DEF Whole

LEMMA DataKeeps ==
    ASSUME Whole, cut = 0, cut' = 0, ReadData, TypeOK' PROVE Whole'
<1>0. PICK n \in 0..Len(data) : Read(n, Len(data), "hash") /\ data' = Fill(data, n)
  BY DEF ReadData
<1>1. PICK f, l : f = frames[Current] /\ l = f.len
  OBVIOUS
<1>2. /\ pc = "data" /\ UNCHANGED <<kind, frames, eof, seen, header, hash, sock, handled>>
      /\ TypeOK /\ InStep /\ Buffered /\ Len(header) = 2 /\ header \in BufType
      /\ data \in BufType /\ hash \in BufType /\ Len(hash) = HashLen /\ Len(data) <= MaxLen
      /\ stream \in Seq(UnitType)
  BY DEF ReadData, Whole, TypeOK
<1>3. /\ Len(data) = l /\ l # 0 /\ l \in Nat /\ Current \in 1..Len(frames)
      /\ f \in FrameType /\ Current \in Frame /\ l \in Length
  BY <1>1, <1>2, HeaderSays DEF Buffered
<1>4. \/ /\ pc' = "returned" /\ n = 0 /\ stream = <<>> /\ UNCHANGED <<stream, total>>
      \/ /\ total = 0 /\ n = l /\ n \in 1..Len(stream)
         /\ stream' = SubSeq(stream, n + 1, Len(stream)) /\ pc' = "hash" /\ total' = 0
      \/ /\ eof /\ n \in 1..Len(stream) /\ stream' = <<>> /\ pc' = pc /\ total' > 0
         /\ total' \in Nat
  <2>1. l \in Nat \ {0} /\ n \in 0..l /\ Read(n, l, "hash")
    BY <1>0, <1>3
  <2> QED
    BY <1>3, <2>1, ReadsWhole
<1>5. n \in 0..Len(stream) /\ n <= Len(data)
  BY <1>0, <1>2, <1>3, <1>4, Types
<1>6. data' \in BufType /\ Len(data') = l /\ (n = l => \A i \in 1..n : data'[i] = stream[i])
  BY <1>0, <1>2, <1>3, <1>5, FillOf
<1>7. CASE ~(total = 0 /\ n = l /\ pc' = "hash")
  <2>1. \/ pc' = "returned" /\ UNCHANGED <<stream, total>>
        \/ eof /\ stream' = <<>> /\ pc' = pc /\ total' > 0 /\ total' \in Nat
    BY <1>4, <1>7
  <2>2. header' = header /\ hash' = hash /\ Len(data') = Len(data)
    BY <1>2, <1>3, <1>6
  <2> QED
    BY <1>2, <1>6, <2>1, <2>2, FailedKeeps
<1>8. CASE total = 0 /\ n = l /\ pc' = "hash"
  <2>1. n \in 1..Len(stream) /\ stream' = SubSeq(stream, n + 1, Len(stream)) /\ total' = 0
    BY <1>2, <1>4, <1>8
  <2>2. stream # <<>> /\ n \in Nat /\ n \in 1..n
    BY <1>2, <1>3, <1>8, <2>1, Types
  <2>3. stream[1] = Unit(Current, "data", 1) /\ Chained
    <3>1. LastRead = Unit(Current, "len", l)
      BY <1>1, <1>2 DEF LastRead
    <3>2. stream[1] = Following(frames, Unit(Current, "len", l))
      BY <1>2, <1>8, <2>2, <3>1 DEF InStep
    <3>3. Chained
      BY <1>2, <1>8 DEF InStep, Chained
    <3> QED
      BY <1>1, <1>3, <3>2, <3>3, FollowingOf
  <2>4. \A i \in 1..n : stream[i] = Unit(Current, "data", i)
    <3>1. frames[Current].len \in Nat /\ n <= frames[Current].len
      BY <1>1, <1>3, <1>8, <2>2
    <3> QED
      BY <1>2, <2>1, <2>3, <3>1, MessageAhead
  <2>5. data' = Bytes(Current, "data", l)
    <3>1. /\ Bytes(Current, "data", l) \in Seq(UnitType) /\ Len(Bytes(Current, "data", l)) = l
          /\ \A i \in 1..l : Bytes(Current, "data", l)[i] = Unit(Current, "data", i)
      BY <1>3, BytesOf DEF Length
    <3>2. PICK b : b = Bytes(Current, "data", l)
      OBVIOUS
    <3>3. b \in BufType /\ Len(b) = l /\ Len(data') = l /\ data' \in BufType
      BY <1>6, <3>1, <3>2, Buffers
    <3>4. \A i \in 1..l : b[i] = data'[i]
      BY <1>6, <1>8, <2>4, <3>1, <3>2
    <3>5. b = data'
      BY <3>3, <3>4, SeqEqual DEF BufType
    <3> QED
      BY <3>2, <3>5
  <2>6. /\ kind' = kind /\ frames' = frames /\ eof' = eof /\ seen' = seen /\ sock' = sock
        /\ header' = header /\ hash' = hash /\ handled' = handled /\ Current' = Current
    BY <1>2 DEF Current
  <2>7. LastRead' = stream[n]
    BY <1>1, <1>3, <1>8, <2>2, <2>4, <2>6 DEF LastRead
  <2>8. InStep' /\ stream' \in Seq(UnitType)
    BY <1>2, <1>8, <2>1, <2>6, <2>7, InStepAfterRead
  <2>9. TypeOK'
    OBVIOUS
  <2>10. FramesInOrder'
    BY <2>6, FramesKept
  <2>11. Buffered'
    BY <1>1, <1>2, <1>8, <2>5, <2>6 DEF Buffered
  <2> QED
    BY <2>8, <2>9, <2>10, <2>11 DEF Whole
<1> QED
  BY <1>7, <1>8

LEMMA HashKeeps ==
    ASSUME Whole, cut = 0, cut' = 0, ReadHash, TypeOK' PROVE Whole'
<1>0. PICK n \in 0..2 : Read(n, 2, "dispatch") /\ hash' = Fill(hash, n)
  BY DEF ReadHash, HashLen
<1>1. PICK f, l : f = frames[Current] /\ l = f.len
  OBVIOUS
<1>2. /\ pc = "hash" /\ UNCHANGED <<kind, frames, eof, seen, header, data, sock, handled>>
      /\ TypeOK /\ InStep /\ Buffered /\ Len(header) = 2 /\ header \in BufType
      /\ data \in BufType /\ hash \in BufType /\ Len(hash) = 2 /\ Len(data) <= MaxLen
      /\ stream \in Seq(UnitType)
  BY DEF ReadHash, Whole, TypeOK, HashLen
<1>3. \/ /\ pc' = "returned" /\ n = 0 /\ stream = <<>> /\ UNCHANGED <<stream, total>>
      \/ /\ total = 0 /\ n = 2 /\ n \in 1..Len(stream)
         /\ stream' = SubSeq(stream, n + 1, Len(stream)) /\ pc' = "dispatch" /\ total' = 0
      \/ /\ eof /\ n \in 1..Len(stream) /\ stream' = <<>> /\ pc' = pc /\ total' > 0
         /\ total' \in Nat
  BY <1>0, ReadsWhole
<1>4. n \in 0..Len(stream) /\ n <= Len(hash)
  BY <1>0, <1>2, <1>3, Types
<1>5. hash' \in BufType /\ Len(hash') = 2
  BY <1>0, <1>2, <1>4, FillOf
<1>6. CASE ~(total = 0 /\ n = 2 /\ pc' = "dispatch")
  <2>1. \/ pc' = "returned" /\ UNCHANGED <<stream, total>>
        \/ eof /\ stream' = <<>> /\ pc' = pc /\ total' > 0 /\ total' \in Nat
    BY <1>3, <1>6
  <2>2. header' = header /\ data' = data
    BY <1>2
  <2> QED
    BY <1>2, <1>5, <2>1, <2>2, FailedKeeps DEF HashLen
<1>7. CASE total = 0 /\ n = 2 /\ pc' = "dispatch"
  <2>1. n \in 1..Len(stream) /\ stream' = SubSeq(stream, n + 1, Len(stream)) /\ total' = 0
    BY <1>2, <1>3, <1>7
  <2>2. stream # <<>> /\ 1 \in 1..(Len(stream) - 1)
    BY <1>2, <1>7, <2>1, Types
  <2>3. stream[1] = Unit(Current, "hash", 1)
    <3>1. stream[1] = Following(frames, LastRead)
      BY <1>2, <1>7, <2>2 DEF InStep
    <3>2. CASE l # 0
      <4>1. LastRead = Unit(Current, "data", l)
        BY <1>1, <1>2, <3>2 DEF LastRead
      <4> QED
        BY <1>1, <3>1, <4>1, FollowingOf
    <3>3. CASE l = 0
      <4>1. LastRead = Unit(Current, "len", l)
        BY <1>1, <1>2, <3>3 DEF LastRead
      <4>2. frames[Current].len = 0
        BY <1>1, <3>3
      <4>3. Following(frames, Unit(Current, "len", l)) = Unit(Current, "hash", 1)
        BY <4>2, FollowingOf
      <4> QED
        BY <3>1, <4>1, <4>3
    <3> QED
      BY <3>2, <3>3
  <2>4. stream[2] = LastOf(Current)
    <3>1. stream[1 + 1] = Following(frames, stream[1])
      BY <1>2, <1>7, <2>2 DEF InStep
    <3> QED
      BY <2>3, <3>1, FollowingOf DEF LastOf, HashLen
  <2>5. /\ kind' = kind /\ frames' = frames /\ eof' = eof /\ seen' = seen /\ sock' = sock
        /\ header' = header /\ data' = data /\ handled' = handled /\ Current' = Current
    BY <1>2 DEF Current
  <2>6. LastRead' = stream[n]
    BY <1>7, <2>4, <2>5 DEF LastRead
  <2>7. InStep' /\ stream' \in Seq(UnitType)
    BY <1>2, <1>7, <2>1, <2>5, <2>6, InStepAfterRead
  <2>8. TypeOK'
    OBVIOUS
  <2>9. FramesInOrder'
    BY <2>5, FramesKept
  <2>10. Buffered'
    BY <1>2, <1>7, <2>5 DEF Buffered
  <2> QED
    BY <2>7, <2>8, <2>9, <2>10 DEF Whole
<1> QED
  BY <1>6, <1>7

LEMMA DispatchKeeps ==
    ASSUME Whole, NEW op \in Op, Dispatch(op), TypeOK' PROVE Whole'
<1>0. PICK f : f = frames[Current]
  OBVIOUS
<1>1. /\ TypeOK /\ Buffered /\ InStep /\ FramesInOrder /\ pc = "dispatch" /\ op \in AsOp(header[1])
      /\ pc' \in {"header", "returned"} /\ sock' \in {"open", "closed"}
      /\ UNCHANGED <<clientVars, total, seen, bufVars>>
      /\ \/ handled' = Append(handled, [op |-> op, data |-> data])
         \/ pc' = "returned" /\ handled' = handled
  BY DEF Whole, TypeOK, Dispatch, Return
<1>2. /\ frames' = frames /\ stream' = stream /\ eof' = eof /\ total' = total
      /\ kind' = kind /\ seen' = seen /\ header' = header /\ data' = data /\ hash' = hash
  BY <1>1 DEF clientVars, bufVars
<1>3. Current \in 1..Len(frames) /\ op = f.op /\ data = Bytes(Current, "data", f.len)
  <2>1. Current \in 1..Len(frames) /\ op = f.op
    BY <1>0, <1>1, HeaderSays
  <2> QED
    BY <1>0, <1>1, <2>1 DEF Buffered
<1>4. Len(handled) \in Nat /\ Len(frames) \in Nat /\ DOMAIN handled = 1..Len(handled)
  BY <1>1, Types
<1>5. CASE pc' = "returned" /\ handled' = handled
  <2>1. InStep' /\ stream' \in Seq(UnitType)
    BY <1>2, <1>5, InStepWithout
  <2>2. TypeOK'
    OBVIOUS
  <2>3. FramesInOrder'
    BY <1>2, <1>5, FramesKept
  <2>4. Buffered'
    BY <1>1, <1>2, <1>5 DEF Buffered
  <2> QED
    BY <2>1, <2>2, <2>3, <2>4 DEF Whole
<1>6. CASE handled' = Append(handled, [op |-> op, data |-> data])
  <2>0. PICK e : e = [op |-> op, data |-> data]
    OBVIOUS
  <2>1. /\ handled \in Seq([op : Op, data : BufType]) /\ e \in [op : Op, data : BufType]
        /\ e.op = op /\ e.data = data
    BY <1>1, <2>0 DEF TypeOK
  <2>2. /\ handled' \in Seq([op : Op, data : BufType]) /\ Len(handled') = Len(handled) + 1
        /\ \A i \in 1..Len(handled) : handled'[i] = handled[i]
        /\ handled'[Len(handled) + 1] = e
    BY <1>6, <2>0, <2>1, AppendProperties
  <2>3. Len(handled') = Current /\ DOMAIN handled' = 1..Current
    BY <2>2, LenProperties DEF Current
  <2>4. pc' # "returned" => LastRead' = LastRead
    BY <1>1, <2>3 DEF LastRead
  <2>5. InStep' /\ stream' \in Seq(UnitType)
    BY <1>1, <1>2, <2>4, InStepWithout
  <2>6. TypeOK'
    OBVIOUS
  <2>7. FramesInOrder'
    <3> SUFFICES ASSUME NEW i \in 1..Current
                 PROVE  /\ handled'[i].op = frames[i].op
                        /\ handled'[i].data = Bytes(i, "data", frames[i].len)
      BY <1>2, <1>3, <1>4, <2>3 DEF FramesInOrder, AsSent
    <3>1. CASE i = Current
      BY <1>0, <1>3, <2>1, <2>2, <3>1 DEF Current
    <3>2. CASE i # Current
      <4>1. i \in 1..Len(handled)
        BY <1>4, <3>2 DEF Current
      <4> QED
        BY <1>1, <1>4, <2>2, <4>1 DEF FramesInOrder, AsSent
    <3> QED
      BY <3>1, <3>2
  <2>8. Buffered'
    <3>1. Len(handled') <= Len(frames')
      BY <1>2, <1>3, <1>4, <2>3
    <3> QED
      BY <1>1, <3>1 DEF Buffered
  <2> QED
    BY <2>5, <2>6, <2>7, <2>8 DEF Whole
<1> QED
  BY <1>1, <1>5, <1>6

LEMMA InitWhole == Init => Whole
<1> SUFFICES ASSUME Init PROVE Whole
  OBVIOUS
<1>1. /\ frames \in Seq(FrameType) /\ Len(frames) = 0 /\ stream \in Seq(UnitType)
      /\ DOMAIN stream = {} /\ handled \in Seq([op : Op, data : BufType]) /\ Len(handled) = 0
      /\ DOMAIN handled = {} /\ data \in BufType /\ Len(data) = 0
  BY EmptySeq, LenProperties DEF Init, BufType
<1>2. /\ header \in BufType /\ Len(header) = 2 /\ hash \in BufType /\ Len(hash) = HashLen
  <2>1. 2 \in 0..(MaxLen + HashLen) /\ HashLen \in 0..(MaxLen + HashLen)
    BY BoundAssumption DEF HashLen
  <2> QED
    BY <2>1, Buffers DEF Init
<1>3. TypeOK
  <2>1. kind \in Kind /\ eof \in BOOLEAN /\ seen \in BOOLEAN /\ pc = "type" /\ total = 0 /\ sock = "open"
    BY DEF Init
  <2>2. Len(frames) <= MaxFrames /\ Len(data) <= MaxLen
    BY <1>1, BoundAssumption
  <2> QED
    BY <1>1, <1>2, <2>1, <2>2 DEF TypeOK, Init
<1>4. FramesInOrder
  BY <1>1 DEF FramesInOrder, AsSent
<1>5. InStep
  BY <1>1 DEF Init, InStep, LastRead
<1>6. Buffered
  BY <1>1 DEF Init, Buffered
<1> QED
  BY <1>3, <1>4, <1>5, <1>6 DEF Whole

LEMMA StepWhole ==
    ASSUME Whole, cut = 0, cut' = 0, [Next]_vars, TypeOK' PROVE Whole'
<1>1. CASE Next
  <2>1. CASE \E f \in FrameType : ClientSends(f)
    BY <2>1, SendKeeps
  <2>2. CASE \E n \in 0..Len(stream) : ClientEnds(n)
    BY <2>2, EndKeeps
  <2>3. CASE ReadType \/ TypeFails
    BY <2>3, TypeKeeps
  <2>4. CASE ReadHeader
    BY <2>4, HeaderKeeps
  <2>5. CASE ExpectHello
    BY <2>5, ExpectKeeps
  <2>6. CASE TakeLength
    BY <2>6, LengthKeeps
  <2>7. CASE ReadData
    BY <2>7, DataKeeps
  <2>8. CASE ReadHash
    BY <2>8, HashKeeps
  <2>9. CASE \E op \in Op : Dispatch(op)
    BY <2>9, DispatchKeeps
  <2> QED
    BY <1>1, <2>1, <2>2, <2>3, <2>4, <2>5, <2>6, <2>7, <2>8, <2>9 DEF Next, Goroutine
<1>2. CASE UNCHANGED vars
  BY <1>2 DEF vars, clientVars, bufVars, Whole, TypeOK, FramesInOrder, AsSent, InStep, LastRead,
              Buffered, Current
<1> QED
  BY <1>1, <1>2

-----------------------------------------------------------------------------
(* Every step, also after it *)

\* What is taken up, and where the first short Read is marked.
LEMMA HandledBy ==
    ASSUME TypeOK, [Next]_vars
    PROVE  /\ seen' = seen
           /\ \/ handled' = handled
              \/ /\ cut' = cut
                 /\ \E op \in Op : handled' = Append(handled, [op |-> op, data |-> data])
                                   /\ (~seen => op = "hello")
           /\ \/ cut' = cut
              \/ cut = 0 /\ cut' = Len(handled) + 1 /\ handled' = handled /\ frames' = frames
<1>1. ASSUME NEW n, NEW size, NEW then, Read(n, size, then)
      PROVE  cut' = cut \/ (cut = 0 /\ cut' = Len(handled) + 1)
  BY <1>1 DEF Read, Take
<1>2. CASE Goroutine
  <2>1. CASE ReadHeader \/ ReadData \/ ReadHash
    BY <1>1, <2>1 DEF ReadHeader, ReadData, ReadHash
  <2>2. CASE ReadType \/ TypeFails \/ ExpectHello \/ TakeLength
    BY <2>2 DEF ReadType, TypeFails, ExpectHello, TakeLength
  <2>3. CASE \E op \in Op : Dispatch(op)
    BY <2>3 DEF Dispatch
  <2> QED
    BY <1>2, <2>1, <2>2, <2>3 DEF Goroutine
<1>3. CASE (\E f \in FrameType : ClientSends(f)) \/ (\E n \in 0..Len(stream) : ClientEnds(n))
  BY <1>3 DEF ClientSends, ClientEnds
<1>4. CASE UNCHANGED vars
  BY <1>4 DEF vars
<1> QED
  BY <1>2, <1>3, <1>4 DEF Next

\* The frames that were sent stay as they are.
LEMMA FramesStay ==
    ASSUME TypeOK, [Next]_vars
    PROVE  /\ Len(frames) \in Nat /\ Len(frames') \in Nat /\ Len(frames) <= Len(frames')
           /\ \A k \in 1..Len(frames) : frames'[k] = frames[k]
<1>1. frames \in Seq(FrameType) /\ Len(frames) \in Nat
  BY Types DEF TypeOK
<1>2. CASE frames' = frames
  BY <1>1, <1>2
<1>3. ASSUME NEW f \in FrameType, frames' = Append(frames, f)
      PROVE  /\ Len(frames') \in Nat /\ Len(frames) <= Len(frames')
             /\ \A k \in 1..Len(frames) : frames'[k] = frames[k]
  BY <1>1, <1>3, AppendProperties
<1>4. frames' = frames \/ \E f \in FrameType : frames' = Append(frames, f)
  <2>1. CASE Goroutine
    BY <2>1 DEF Goroutine, ReadHeader, ReadData, ReadHash, ReadType, TypeFails, ExpectHello,
                TakeLength, Dispatch, clientVars
  <2>2. CASE (\E f \in FrameType : ClientSends(f)) \/ (\E n \in 0..Len(stream) : ClientEnds(n))
    BY <2>2 DEF ClientSends, ClientEnds
  <2> QED
    BY <2>1, <2>2 DEF Next, vars, clientVars
<1> QED
  BY <1>1, <1>2, <1>3, <1>4

LEMMA StepServiceInv == ServiceInv /\ [Next]_vars => ServiceInv'
<1> SUFFICES ASSUME ServiceInv, [Next]_vars PROVE ServiceInv'
  OBVIOUS
<1>1. /\ TypeOK /\ OnlyHellos /\ AsSentUntilCut /\ cut \in 0..(Len(handled) + 1)
      /\ Len(handled) \in Nat /\ DOMAIN handled = 1..Len(handled)
  BY Types DEF ServiceInv
<1>2. TypeOK' /\ Len(handled') \in Nat /\ DOMAIN handled' = 1..Len(handled')
  <2>1. TypeOK'
    BY <1>1, Typing
  <2> QED
    BY <2>1, LenProperties DEF TypeOK
<1>3. /\ Len(handled) <= Len(handled')
      /\ \A i \in 1..Len(handled) : handled'[i] = handled[i]
      /\ \A i \in 1..Len(handled') : i \in 1..Len(handled) \/ handled'[i].op = "hello"
      /\ cut' # cut => handled' = handled
  <2>1. CASE handled' = handled
    BY <1>1, <2>1
  <2>2. CASE /\ cut' = cut
             /\ \E op \in Op : handled' = Append(handled, [op |-> op, data |-> data])
                               /\ (~seen => op = "hello")
    <3>1. PICK e \in [op : Op, data : BufType] : handled' = Append(handled, e) /\ e.op = "hello"
      BY <1>1, <2>2 DEF TypeOK, OnlyHellos
    <3>2. handled \in Seq([op : Op, data : BufType])
      BY <1>1 DEF TypeOK
    <3>3. /\ Len(handled') = Len(handled) + 1 /\ handled'[Len(handled) + 1] = e
          /\ \A i \in 1..Len(handled) : handled'[i] = handled[i]
      BY <3>1, <3>2, AppendProperties
    <3>4. \A i \in 1..Len(handled') : i \in 1..Len(handled) \/ i = Len(handled) + 1
      BY <1>1, <3>3
    <3> QED
      BY <1>1, <2>2, <3>1, <3>3, <3>4
  <2> QED
    BY <1>1, <2>1, <2>2, HandledBy
<1>4. OnlyHellos'
  <2>1. seen' = seen
    BY <1>1, HandledBy
  <2> QED
    BY <1>1, <1>2, <1>3, <2>1 DEF OnlyHellos
<1>5. cut' \in 0..(Len(handled') + 1)
  <2>1. cut' = cut \/ cut' = Len(handled) + 1
    BY <1>1, HandledBy
  <2> QED
    BY <1>1, <1>2, <1>3, <2>1
<1>6. CASE cut' = 0
  <2>1. cut = 0
    BY <1>1, <1>6, HandledBy
  <2>2. Whole
    BY <1>1, <2>1 DEF ServiceInv, Whole, AsSentUntilCut, FramesInOrder
  <2>3. Whole'
    BY <1>2, <1>6, <2>1, <2>2, StepWhole
  <2>4. InStep' /\ Buffered'
    BY <2>3 DEF Whole
  <2>5. Len(frames') \in Nat /\ Len(handled') <= Len(frames')
    BY <1>1, <2>4, FramesStay DEF Buffered
  <2>6. \A i \in 1..Len(handled') : i <= Len(frames')
    BY <1>2, <2>5
  <2>7. AsSentUntilCut'
    BY <1>2, <2>3, <2>6 DEF Whole, FramesInOrder, AsSentUntilCut
  <2> QED
    BY <1>2, <1>4, <1>5, <2>4, <2>7 DEF ServiceInv
<1>7. CASE cut' # 0
  <2>1. ASSUME NEW i \in 1..Len(handled), i <= Len(frames), AsSent(i)
        PROVE  i <= Len(frames') /\ AsSent(i)'
    <3>1. frames'[i] = frames[i] /\ i <= Len(frames')
      BY <1>1, <2>1, FramesStay
    <3> QED
      BY <1>3, <2>1, <3>1 DEF AsSent
  <2>2. ASSUME NEW i \in 1..Len(handled'), i < cut' PROVE i \in 1..Len(handled) /\ (cut = 0 \/ i < cut)
    <3>1. CASE cut' = cut
      BY <1>1, <1>2, <1>7, <2>2, <3>1
    <3>2. CASE cut' # cut
      BY <1>1, <1>3, <2>2, <3>2, HandledBy
    <3> QED
      BY <3>1, <3>2
  <2>3. \A i \in 1..Len(handled) : cut = 0 \/ i < cut => i <= Len(frames) /\ AsSent(i)
    BY <1>1 DEF AsSentUntilCut
  <2>4. AsSentUntilCut'
    BY <1>2, <1>7, <2>1, <2>2, <2>3 DEF AsSentUntilCut
  <2> QED
    BY <1>2, <1>4, <1>5, <1>7, <2>4 DEF ServiceInv
<1> QED
  BY <1>6, <1>7

LEMMA InitServiceInv == Init => ServiceInv
<1> SUFFICES ASSUME Init PROVE ServiceInv
  OBVIOUS
<1>1. Whole /\ cut = 0 /\ ~seen /\ handled = <<>>
  BY InitWhole DEF Init
<1>2. DOMAIN handled = {} /\ Len(handled) = 0
  BY <1>1, EmptySeq
<1> QED
  BY <1>1, <1>2 DEF Whole, ServiceInv, OnlyHellos, AsSentUntilCut

-----------------------------------------------------------------------------
(* Theorems *)

\* However the network cuts the stream, whatever lengths the messages have, however
\* many there are, and wherever the client stops (service.go:48-169): up to the first
\* Read that comes back short the goroutine of a service connection is in step with
\* its client, the messages read before it are taken up as they were sent, and none
\* but a CLIENT_HELLO is ever taken up.
THEOREM ServiceInvariant == Spec => []ServiceInv
<1> QED
  BY InitServiceInv, StepServiceInv, PTL DEF Spec

\* The i-th message that is taken up is the message of the i-th frame, with its own
\* opcode and bytes, if every piece the network cuts before it is behind it
\* (service.go:74-166, proto/protocol.proto:77): the first short Read, and no other
\* cause, garbles a message.
THEOREM MessagesAsSent == Spec => []AsSentUntilCut
<1>1. ServiceInv => AsSentUntilCut
  BY DEF ServiceInv
<1> QED
  BY <1>1, ServiceInvariant, PTL
=============================================================================
