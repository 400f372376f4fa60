--------------------------- MODULE RtpSpliceProofs ---------------------------
(***************************************************************************)
(* Proofs about RtpSplice.  That timestamps keep step holds for any        *)
(* streams of any length, wherever the numbers wrap around and in whatever *)
(* order the packets arrive.  That numbers are fresh and losses visible    *)
(* needs packets in order, and streams that are together no longer than    *)
(* Modulus: numbers are counted back from the next one, and the count      *)
(* never exceeds the packets that have passed.                             *)
(***************************************************************************)
EXTENDS RtpSplice, SequenceTheorems, FiniteSetTheorems, TLAPS

-----------------------------------------------------------------------------
(***************************************************************************)
(* Numbers that wrap around.                                               *)
(***************************************************************************)

\* A remainder differs by a multiple of Modulus.
LEMMA Wraps ==
    ASSUME NEW x \in Int
    PROVE  \E k \in Int : x % Modulus = x + Modulus * k
<1>1. x % Modulus = x - Modulus * (x \div Modulus) /\ x \div Modulus \in Int
  BY ModulusAssumption
<1>2. Modulus * (- (x \div Modulus)) = - (Modulus * (x \div Modulus))
  BY <1>1, ModulusAssumption
<1>3. x % Modulus = x + Modulus * (- (x \div Modulus))
  BY <1>1, <1>2, ModulusAssumption
<1>4. - (x \div Modulus) \in Int
  BY <1>1
<1> QED BY <1>3, <1>4

\* What differs by a multiple of Modulus has the same remainder.
LEMMA SameRemainder ==
    ASSUME NEW x \in Int, NEW y \in Int, NEW k \in Int, x = y + Modulus * k
    PROVE  x % Modulus = y % Modulus
<1> DEFINE q == y \div Modulus
           r == y % Modulus
<1>1. q \in Int /\ r \in 0 .. Modulus - 1 /\ r = y - Modulus * q
  <2>1. y % Modulus = y - Modulus * (y \div Modulus)
    BY ModulusAssumption
  <2>2. y \div Modulus \in Int /\ y % Modulus \in 0 .. Modulus - 1
    BY ModulusAssumption
  <2> QED BY <2>1, <2>2
<1> HIDE DEF q
<1>2. Modulus * (q + k) = Modulus * q + Modulus * k
  BY <1>1, ModulusAssumption
<1>3. x = Modulus * (q + k) + r
  BY <1>1, <1>2, ModulusAssumption
<1>4. \A p \in Int : (Modulus * p + r) % Modulus = r
  BY <1>1, ModulusAssumption
<1> QED BY <1>1, <1>3, <1>4

\* And the other way round.
LEMMA SameRemainderOnly ==
    ASSUME NEW x \in Int, NEW y \in Int, x % Modulus = y % Modulus
    PROVE  \E k \in Int : x = y + Modulus * k
<1>1. PICK a \in Int : x % Modulus = x + Modulus * a
  BY Wraps
<1>2. PICK b \in Int : y % Modulus = y + Modulus * b
  BY Wraps
<1>3. Modulus * (b - a) = Modulus * b - Modulus * a
  BY ModulusAssumption
<1>4. x = y + Modulus * (b - a)
  BY <1>1, <1>2, <1>3, ModulusAssumption
<1> QED BY <1>4

\* Sums and differences fit the header field.
LEMMA WrapTypes ==
    ASSUME NEW x \in Int, NEW y \in Int
    PROVE  Plus(x, y) \in Number /\ Minus(x, y) \in Number
BY ModulusAssumption DEF Plus, Minus, Number

\* A distance depends on the remainders only.
LEMMA Distance ==
    ASSUME NEW a \in Int, NEW b \in Int, NEW c \in Int, NEW d \in Int
    PROVE  Minus(Plus(a, b), Plus(c, d)) = Minus(a + b, c + d)
<1>1. PICK k \in Int : Plus(a, b) = a + b + Modulus * k
  BY Wraps DEF Plus
<1>2. PICK l \in Int : Plus(c, d) = c + d + Modulus * l
  BY Wraps DEF Plus
<1>3. Modulus * (k - l) = Modulus * k - Modulus * l
  BY ModulusAssumption
<1>4. Plus(a, b) - Plus(c, d) = ((a + b) - (c + d)) + Modulus * (k - l)
  BY <1>1, <1>2, <1>3, ModulusAssumption
<1>5. Plus(a, b) - Plus(c, d) \in Int
  BY <1>4, ModulusAssumption
<1>6. (Plus(a, b) - Plus(c, d)) % Modulus = ((a + b) - (c + d)) % Modulus
  BY <1>4, <1>5, SameRemainder
<1> QED BY <1>6 DEF Minus

\* Adding what was taken away gives back the number.
LEMMA PlusMinus ==
    ASSUME NEW x \in Int, NEW y \in Number
    PROVE  Plus(x, Minus(y, x)) = y
<1>1. y \in Int
  BY ModulusAssumption DEF Number
<1>2. PICK k \in Int : Minus(y, x) = y - x + Modulus * k
  BY <1>1, Wraps DEF Minus
<1>3. x + Minus(y, x) = y + Modulus * k /\ x + Minus(y, x) \in Int
  BY <1>1, <1>2, ModulusAssumption
<1>4. Plus(x, Minus(y, x)) = y % Modulus
  BY <1>1, <1>3, SameRemainder DEF Plus
<1>5. y % Modulus = y
  BY ModulusAssumption DEF Number
<1> QED BY <1>4, <1>5

\* It stays when both ends move by as much, or by as much as two others with
\* the same distance.
LEMMA Shift ==
    ASSUME NEW a \in Int, NEW b \in Int, NEW c \in Int, NEW d \in Int,
           NEW x \in Int, NEW y \in Int,
           Minus(a, b) = Minus(c, d)
    PROVE  Minus(Plus(a, x), Plus(b, y)) = Minus(Plus(c, x), Plus(d, y))
<1>1. PICK k \in Int : a - b = c - d + Modulus * k
  BY SameRemainderOnly DEF Minus
<1>2. (a + x) - (b + y) = ((c + x) - (d + y)) + Modulus * k
  BY <1>1, ModulusAssumption
<1>3. Minus(a + x, b + y) = Minus(c + x, d + y)
  BY <1>2, SameRemainder DEF Minus
<1>4. Minus(Plus(a, x), Plus(b, y)) = Minus(a + x, b + y)
  BY Distance
<1>5. Minus(Plus(c, x), Plus(d, y)) = Minus(c + x, d + y)
  BY Distance
<1> QED BY <1>3, <1>4, <1>5

\* One more on both sides leaves the distance.
LEMMA ShiftBoth ==
    ASSUME NEW a \in Int, NEW b \in Int
    PROVE  Minus(Plus(a, 1), Plus(b, 1)) = Minus(a, b)
<1>1. Minus(Plus(a, 1), Plus(b, 1)) = Minus(a + 1, b + 1)
  BY Distance
<1>2. (a + 1) - (b + 1) = a - b
  OBVIOUS
<1> QED BY <1>1, <1>2 DEF Minus

\* Two that are as far from their timestamps are as far apart as these are.
LEMMA Cross ==
    ASSUME NEW a \in Int, NEW b \in Int, NEW c \in Int, NEW d \in Int,
           Minus(a, b) = Minus(c, d)
    PROVE  Minus(a, c) = Minus(b, d)
<1>1. PICK k \in Int : a - b = c - d + Modulus * k
  BY SameRemainderOnly DEF Minus
<1>2. a - c = b - d + Modulus * k
  BY <1>1, ModulusAssumption
<1> QED BY <1>2, SameRemainder DEF Minus

-----------------------------------------------------------------------------
(***************************************************************************)
(* Types.                                                                  *)
(***************************************************************************)

\* Header fields are integers.
LEMMA NumbersAreIntegers == Number \subseteq Int
BY ModulusAssumption DEF Number

\* What a forwarder that is not reading has in hand.
LEMMA WorkHasPacket ==
    ASSUME TypeOK, NEW s \in Stream, work[s].doing # "reading"
    PROVE  work[s].pkt \in Packet
<1>1. work[s] \in Work
  BY DEF TypeOK
<1>2. work[s] # Idle
  BY DEF Idle
<1> QED BY <1>1, <1>2 DEF Work

\* What the PBX chose.
LEMMA BaseTypes ==
    ASSUME TypeOK, NEW s \in Stream
    PROVE  seqBase[s] \in Int /\ tsBase[s] \in Int
<1>1. seqBase[s] \in Number /\ tsBase[s] \in Number
  BY BaseAssumption DEF TypeOK, Number
<1> QED BY <1>1, NumbersAreIntegers

\* The offsets are numbers.
LEMMA OffsetTypes ==
    ASSUME TypeOK, NEW pkt \in Packet
    PROVE  /\ Offsets(pkt)[1] \in Number
           /\ Offsets(pkt)[2] \in Number
<1>1. /\ pkt.seq \in Int /\ pkt.ts \in Int
      /\ nextSeq \in Int /\ nextTs \in Int /\ Plus(nextTs, 1) \in Int
  <2>1. pkt.seq \in Int /\ pkt.ts \in Int /\ nextSeq \in Int /\ nextTs \in Int
    BY NumbersAreIntegers DEF TypeOK, Packet
  <2>2. Plus(nextTs, 1) \in Number
    BY <2>1, WrapTypes
  <2> QED BY <2>1, <2>2, NumbersAreIntegers
<1>2. /\ Minus(nextSeq, pkt.seq) \in Number
      /\ Minus(Plus(nextTs, 1), pkt.ts) \in Number
  BY <1>1, WrapTypes
<1>3. 0 \in Number
  BY ModulusAssumption DEF Number
<1> QED BY <1>2, <1>3 DEF Offsets, TypeOK

\* What Renumber makes of the packet in hand.
Out(s) ==
    LET pkt == work[s].pkt
    IN  [pkt EXCEPT !.seq = Plus(@, Offsets(pkt)[1]), !.ts = Plus(@, Offsets(pkt)[2])]

\* What Renumber does, in terms of Out.
LEMMA RenumberMakes ==
    ASSUME TypeOK, NEW s \in Stream, Renumber(s)
    PROVE  /\ work[s].pkt \in Packet
           /\ Out(s) \in Packet
           /\ Out(s).ssrc = work[s].pkt.ssrc
           /\ Out(s).seq = Plus(work[s].pkt.seq, Offsets(work[s].pkt)[1])
           /\ Out(s).ts = Plus(work[s].pkt.ts, Offsets(work[s].pkt)[2])
           /\ rtpInit' = TRUE
           /\ srcSSRC' = work[s].pkt.ssrc
           /\ seqOffset' = Offsets(work[s].pkt)[1]
           /\ tsOffset' = Offsets(work[s].pkt)[2]
           /\ nextSeq' = Plus(Out(s).seq, 1)
           /\ nextTs' = Out(s).ts
           /\ work' = [work EXCEPT ![s] = [doing |-> "writing", pkt |-> Out(s)]]
           /\ UNCHANGED <<streams, taken, track>>
<1>1. work[s].pkt \in Packet
  BY WorkHasPacket DEF Renumber
<1>2. /\ Plus(work[s].pkt.seq, Offsets(work[s].pkt)[1]) \in Number
      /\ Plus(work[s].pkt.ts, Offsets(work[s].pkt)[2]) \in Number
  BY <1>1, OffsetTypes, WrapTypes, NumbersAreIntegers DEF Packet
<1>3. /\ Out(s) \in Packet
      /\ Out(s).ssrc = work[s].pkt.ssrc
      /\ Out(s).seq = Plus(work[s].pkt.seq, Offsets(work[s].pkt)[1])
      /\ Out(s).ts = Plus(work[s].pkt.ts, Offsets(work[s].pkt)[2])
  BY <1>1, <1>2 DEF Out, Packet
<1> QED BY <1>1, <1>3 DEF Renumber, Out

\* What Receive hands to the forwarder.
LEMMA ReceiveMakes ==
    ASSUME TypeOK, NEW s \in Stream, NEW n \in 1 .. Packets, Receive(s, n)
    PROVE  \E pkt \in Packet :
              /\ pkt.ssrc = s /\ pkt.n = n
              /\ pkt.seq = Plus(seqBase[s], n)
              /\ pkt.ts = Plus(tsBase[s], n)
              /\ work' = [work EXCEPT ![s] = [doing |-> "numbering", pkt |-> pkt]]
<1> DEFINE pkt == [ssrc |-> s, n |-> n, seq |-> Plus(seqBase[s], n), ts |-> Plus(tsBase[s], n)]
<1>1. seqBase[s] \in Int /\ tsBase[s] \in Int /\ n \in Int
  BY BaseTypes, PacketsAssumption
<1>2. pkt \in Packet
  BY <1>1, WrapTypes DEF Packet
<1> QED BY <1>2 DEF Receive

\* Every step keeps the types.
LEMMA TypeStep ==
    ASSUME TypeOK, [Next]_vars
    PROVE  TypeOK'
<1>1. ASSUME NEW s \in Stream, NEW n \in 1 .. Packets, Receive(s, n) PROVE TypeOK'
  <2>1. PICK pkt \in Packet : work' = [work EXCEPT ![s] = [doing |-> "numbering", pkt |-> pkt]]
    BY <1>1, ReceiveMakes
  <2>2. [doing |-> "numbering", pkt |-> pkt] \in Work
    BY DEF Work
  <2>3. work' \in [Stream -> Work]
    BY <2>1, <2>2 DEF TypeOK
  <2>4. taken' \in [Stream -> SUBSET (1 .. Packets)]
    BY <1>1 DEF TypeOK, Receive
  <2> QED BY <1>1, <2>3, <2>4 DEF TypeOK, Receive, streams, numbering
<1>2. ASSUME NEW s \in Stream, Renumber(s) PROVE TypeOK'
  <2>1. [doing |-> "writing", pkt |-> Out(s)] \in Work
    BY <1>2, RenumberMakes DEF Work
  <2>2. work' \in [Stream -> Work]
    BY <1>2, <2>1, RenumberMakes DEF TypeOK
  <2>3. /\ srcSSRC' \in Stream
        /\ seqOffset' \in Number /\ tsOffset' \in Number
        /\ nextTs' \in Number
    BY <1>2, RenumberMakes, OffsetTypes DEF Packet
  <2>4. nextSeq' \in Number
    <3>1. Out(s).seq \in Int
      BY <1>2, RenumberMakes, NumbersAreIntegers DEF Packet
    <3>2. Plus(Out(s).seq, 1) \in Number
      BY <3>1, WrapTypes
    <3> QED BY <1>2, <3>2, RenumberMakes
  <2> QED BY <1>2, <2>2, <2>3, <2>4, RenumberMakes DEF TypeOK, streams
<1>3. ASSUME NEW s \in Stream, WriteTrack(s) PROVE TypeOK'
  <2>1. track' \in Seq(Packet)
    BY <1>3, WorkHasPacket, AppendProperties DEF TypeOK, WriteTrack
  <2>2. work' \in [Stream -> Work]
    BY <1>3 DEF TypeOK, WriteTrack, Work
  <2> QED BY <1>3, <2>1, <2>2 DEF TypeOK, WriteTrack, streams, numbering
<1>4. CASE UNCHANGED vars
  BY <1>4 DEF TypeOK, vars, streams, numbering
<1> QED BY <1>1, <1>2, <1>3, <1>4 DEF Next

-----------------------------------------------------------------------------
(***************************************************************************)
(* The gap.                                                                *)
(***************************************************************************)

\* Numbering a packet leaves the gap as it was, or makes the first one.
LEMMA GapStays ==
    ASSUME SpliceInv, NEW s \in Stream, Renumber(s)
    PROVE  /\ Minus(Out(s).seq, Out(s).ts) = Gap'
           /\ rtpInit => Gap' = Gap
<1> DEFINE pkt == work[s].pkt
           o == Offsets(pkt)
<1>1. /\ pkt.seq \in Int /\ pkt.ts \in Int /\ pkt.ssrc = s
      /\ o[1] \in Int /\ o[2] \in Int
      /\ nextSeq \in Number /\ nextTs \in Int
      /\ Out(s).seq \in Int /\ Out(s).ts \in Int
      /\ seqBase[s] \in Int /\ tsBase[s] \in Int
      /\ seqOffset \in Int /\ tsOffset \in Int
  <2>1. TypeOK /\ WorkIsOwn /\ work[s].doing # "reading"
    BY DEF SpliceInv, Renumber
  <2>2. pkt \in Packet /\ Out(s) \in Packet
    BY <2>1, RenumberMakes
  <2>3. o[1] \in Number /\ o[2] \in Number
    BY <2>1, <2>2, OffsetTypes
  <2>4. seqBase[s] \in Int /\ tsBase[s] \in Int
    BY <2>1, BaseTypes
  <2>5. pkt.ssrc = s
    BY <2>1 DEF WorkIsOwn
  <2> QED BY <2>1, <2>2, <2>3, <2>4, <2>5, NumbersAreIntegers DEF TypeOK, Packet
<1>2. /\ Out(s).seq = Plus(pkt.seq, o[1])
      /\ Out(s).ts = Plus(pkt.ts, o[2])
      /\ Gap' = Minus(Plus(Out(s).seq, 1), Plus(Out(s).ts, 1))
  BY RenumberMakes DEF SpliceInv, Gap, Plus, Minus
<1> HIDE DEF o, pkt
<1>3. Minus(Out(s).seq, Out(s).ts) = Gap'
  BY <1>1, <1>2, ShiftBoth
<1>4. ASSUME rtpInit, s # srcSSRC PROVE Gap' = Gap
  <2>1. o[1] = Minus(nextSeq, pkt.seq) /\ o[2] = Minus(Plus(nextTs, 1), pkt.ts)
    BY <1>1, <1>4 DEF o, pkt, Offsets
  <2>2. Out(s).seq = nextSeq
    BY <1>1, <1>2, <2>1, PlusMinus
  <2>3. Out(s).ts = Plus(nextTs, 1)
    BY <1>1, <1>2, <2>1, PlusMinus, WrapTypes
  <2> QED BY <1>3, <2>2, <2>3 DEF Gap
<1>5. ASSUME rtpInit, s = srcSSRC PROVE Gap' = Gap
  <2>1. o[1] = seqOffset /\ o[2] = tsOffset
    BY <1>1, <1>5 DEF o, pkt, Offsets
  <2>2. PICK n \in Int, t \in Int, x \in Int, y \in Int, bn \in Int, bt \in Int :
            /\ n = pkt.seq /\ t = pkt.ts /\ x = seqOffset /\ y = tsOffset
            /\ bn = seqBase[s] /\ bt = tsBase[s]
    BY <1>1, Zenon
  <2>3. Minus(Out(s).seq, Out(s).ts) = Minus(Plus(n, x), Plus(t, y))
    BY <1>2, <2>1, <2>2
  <2>4. Gap = Minus(Plus(bn, x), Plus(bt, y))
    BY <1>5, <2>2 DEF SpliceInv, OffsetsFit
  <2>5. Minus(n, t) = Minus(bn, bt)
    BY <2>2 DEF SpliceInv, WorkIsOwn, Renumber, pkt
  <2>6. Minus(Plus(n, x), Plus(t, y)) = Minus(Plus(bn, x), Plus(bt, y))
    BY <2>5, Shift
  <2> QED BY <1>3, <2>3, <2>4, <2>6
<1> QED BY <1>3, <1>4, <1>5

\* The new offsets fit the stream they are for.
LEMMA OffsetsFitStep ==
    ASSUME SpliceInv, NEW s \in Stream, Renumber(s)
    PROVE  OffsetsFit'
<1> DEFINE pkt == work[s].pkt
           o == Offsets(pkt)
<1>1. TypeOK /\ WorkIsOwn /\ work[s].doing = "numbering"
  BY DEF SpliceInv, Renumber
<1>2. pkt \in Packet /\ pkt.ssrc = s
  BY <1>1, WorkHasPacket DEF WorkIsOwn
<1>3. /\ pkt.seq \in Int /\ pkt.ts \in Int
      /\ o[1] \in Int /\ o[2] \in Int
      /\ seqBase[s] \in Int /\ tsBase[s] \in Int
  <2>1. o[1] \in Number /\ o[2] \in Number
    BY <1>1, <1>2, OffsetTypes
  <2>2. pkt.seq \in Number /\ pkt.ts \in Number
    BY <1>2 DEF Packet
  <2> QED BY <1>1, <2>1, <2>2, BaseTypes, NumbersAreIntegers
<1>4. Minus(pkt.seq, pkt.ts) = Minus(seqBase[s], tsBase[s])
  BY <1>1 DEF WorkIsOwn
<1>5. /\ srcSSRC' = s /\ seqOffset' = o[1] /\ tsOffset' = o[2]
      /\ seqBase' = seqBase /\ tsBase' = tsBase
      /\ Out(s).seq = Plus(pkt.seq, o[1]) /\ Out(s).ts = Plus(pkt.ts, o[2])
  BY <1>1, <1>2, RenumberMakes DEF streams
<1> HIDE DEF o, pkt
<1>6. PICK n \in Int, t \in Int, x \in Int, y \in Int, bn \in Int, bt \in Int :
          /\ n = pkt.seq /\ t = pkt.ts /\ x = o[1] /\ y = o[2]
          /\ bn = seqBase[s] /\ bt = tsBase[s]
  BY <1>3, Zenon
<1>7. Gap' = Minus(Plus(n, x), Plus(t, y))
  BY <1>5, <1>6, GapStays
<1>8. Minus(n, t) = Minus(bn, bt)
  BY <1>4, <1>6
<1>9. Minus(Plus(n, x), Plus(t, y)) = Minus(Plus(bn, x), Plus(bt, y))
  BY <1>8, Shift
<1>10. /\ Plus(bn, x) = Plus(seqBase[srcSSRC], seqOffset)'
       /\ Plus(bt, y) = Plus(tsBase[srcSSRC], tsOffset)'
  BY <1>5, <1>6 DEF Plus
<1>11. Minus(Plus(bn, x), Plus(bt, y))
          = Minus(Plus(seqBase[srcSSRC], seqOffset), Plus(tsBase[srcSSRC], tsOffset))'
  BY <1>10 DEF Minus
<1> QED BY <1>5, <1>7, <1>9, <1>11 DEF OffsetsFit

\* What the PBX sends keeps its distance.
LEMMA WorkStep ==
    ASSUME TypeOK, WorkIsOwn, [Next]_vars
    PROVE  WorkIsOwn'
<1>1. ASSUME NEW s \in Stream, NEW n \in 1 .. Packets, Receive(s, n) PROVE WorkIsOwn'
  <2>1. PICK pkt \in Packet :
            /\ pkt.ssrc = s
            /\ pkt.seq = Plus(seqBase[s], n)
            /\ pkt.ts = Plus(tsBase[s], n)
            /\ work' = [work EXCEPT ![s] = [doing |-> "numbering", pkt |-> pkt]]
    BY <1>1, ReceiveMakes
  <2>2. PICK bn \in Int, bt \in Int, m \in Int : bn = seqBase[s] /\ bt = tsBase[s] /\ m = n
    BY BaseTypes, PacketsAssumption
  <2>3. Minus(Plus(bn, m), Plus(bt, m)) = Minus(bn, bt)
    <3>1. Minus(Plus(bn, m), Plus(bt, m)) = Minus(bn + m, bt + m)
      BY Distance
    <3>2. (bn + m) - (bt + m) = bn - bt
      OBVIOUS
    <3> QED BY <3>1, <3>2 DEF Minus
  <2>4. Minus(pkt.seq, pkt.ts) = Minus(seqBase[s], tsBase[s])
    BY <2>1, <2>2, <2>3
  <2>5. UNCHANGED <<seqBase, tsBase>>
    BY <1>1 DEF Receive, streams
  <2>6. work'[s].doing = "numbering" /\ work'[s].pkt = pkt
    BY <2>1 DEF TypeOK
  <2>7. ASSUME NEW o \in Stream, o # s PROVE work'[o] = work[o]
    BY <2>1, <2>7 DEF TypeOK
  <2>8. Minus(pkt.seq, pkt.ts) = Minus(seqBase'[s], tsBase'[s])
    BY <2>4, <2>5
  <2>9. ASSUME NEW o \in Stream
        PROVE  /\ work'[o].doing # "reading" => work'[o].pkt.ssrc = o
               /\ work'[o].doing = "numbering" =>
                     Minus(work'[o].pkt.seq, work'[o].pkt.ts) = Minus(seqBase'[o], tsBase'[o])
    <3>1. CASE o = s BY <2>1, <2>6, <2>8, <3>1
    <3>2. CASE o # s BY <2>5, <2>7, <3>2 DEF WorkIsOwn
    <3> QED BY <3>1, <3>2
  <2> QED BY <2>9 DEF WorkIsOwn, Minus
<1>2. ASSUME NEW s \in Stream, Renumber(s) PROVE WorkIsOwn'
  <2>1. Out(s).ssrc = s
    BY <1>2, RenumberMakes DEF WorkIsOwn, Renumber
  <2>2. work' = [work EXCEPT ![s] = [doing |-> "writing", pkt |-> Out(s)]] /\ UNCHANGED streams
    BY <1>2, RenumberMakes
  <2> QED BY <2>1, <2>2 DEF WorkIsOwn, TypeOK, streams, Minus
<1>3. ASSUME NEW s \in Stream, WriteTrack(s) PROVE WorkIsOwn'
  BY <1>3 DEF WorkIsOwn, WriteTrack, TypeOK, streams, Idle, Minus
<1>4. CASE UNCHANGED vars
  BY <1>4 DEF WorkIsOwn, vars, streams, Minus
<1> QED BY <1>1, <1>2, <1>3, <1>4 DEF Next

\* No packet is numbered by a step that is not Renumber.
LEMMA NumberedStays ==
    ASSUME TypeOK, NEW s \in Stream,
           (\E n \in 1 .. Packets : Receive(s, n)) \/ WriteTrack(s)
    PROVE  Numbered' \subseteq Numbered
<1>1. ASSUME NEW n \in 1 .. Packets, Receive(s, n) PROVE Numbered' \subseteq Numbered
  <2>1. Written' = Written
    BY <1>1 DEF Receive, Written
  <2>2. ASSUME NEW o \in InFlight' PROVE o \in InFlight /\ work'[o].pkt = work[o].pkt
    BY <1>1 DEF Receive, InFlight, TypeOK
  <2> QED BY <2>1, <2>2 DEF Numbered
<1>2. CASE WriteTrack(s)
  <2>1. work[s].pkt \in Packet /\ track \in Seq(Packet) /\ s \in InFlight
    BY <1>2, WorkHasPacket DEF WriteTrack, InFlight, TypeOK
  <2>2. track' = Append(track, work[s].pkt)
    BY <1>2 DEF WriteTrack
  <2>3. ASSUME NEW i \in 1 .. Len(track') PROVE track'[i] \in Numbered
    <3>1. CASE i \in 1 .. Len(track)
      BY <2>1, <2>2, <3>1, AppendProperties DEF Numbered, Written
    <3>2. CASE i = Len(track) + 1
      BY <2>1, <2>2, <3>2, AppendProperties DEF Numbered
    <3> QED BY <2>1, <2>2, <3>1, <3>2, AppendProperties
  <2>4. ASSUME NEW o \in InFlight' PROVE o \in InFlight /\ work'[o].pkt = work[o].pkt
    BY <1>2 DEF WriteTrack, InFlight, TypeOK, Idle
  <2> QED BY <2>3, <2>4 DEF Numbered, Written
<1> QED BY <1>1, <1>2

\* Renumber adds one.
LEMMA NumberedGrows ==
    ASSUME TypeOK, NEW s \in Stream, Renumber(s)
    PROVE  Numbered' \subseteq Numbered \cup {Out(s)}
<1>1. Written' = Written
  BY DEF Renumber, Written
<1>2. work' = [work EXCEPT ![s] = [doing |-> "writing", pkt |-> Out(s)]]
  BY RenumberMakes
<1>3. ASSUME NEW o \in InFlight'
      PROVE  work'[o].pkt = Out(s) \/ (o \in InFlight /\ work'[o].pkt = work[o].pkt)
  BY <1>2 DEF InFlight, TypeOK
<1> QED BY <1>1, <1>3 DEF Numbered

\* Every step keeps the gap.
LEMMA GapStep ==
    ASSUME SpliceInv, [Next]_vars
    PROVE  OffsetsFit' /\ NumberedFit'
<1>1. ASSUME NEW s \in Stream, (\E n \in 1 .. Packets : Receive(s, n)) \/ WriteTrack(s)
      PROVE  OffsetsFit' /\ NumberedFit'
  <2>1. UNCHANGED <<seqBase, tsBase, rtpInit, srcSSRC, seqOffset, tsOffset, nextSeq, nextTs>>
    BY <1>1 DEF Receive, WriteTrack, streams, numbering
  <2>2. Gap' = Gap
    BY <2>1 DEF Gap, Minus, Plus
  <2>3. Numbered' \subseteq Numbered
    BY <1>1, NumberedStays DEF SpliceInv
  <2>4. OffsetsFit'
    BY <2>1, <2>2 DEF SpliceInv, OffsetsFit, Minus, Plus
  <2>5. NumberedFit'
    BY <2>1, <2>2, <2>3 DEF SpliceInv, NumberedFit, Minus
  <2> QED BY <2>4, <2>5
<1>2. ASSUME NEW s \in Stream, Renumber(s) PROVE OffsetsFit' /\ NumberedFit'
  <2>1. rtpInit'
    BY <1>2 DEF Renumber
  <2>2. Numbered' \subseteq Numbered \cup {Out(s)}
    BY <1>2, NumberedGrows DEF SpliceInv
  <2>3. ASSUME NEW p \in Numbered' PROVE Minus(p.seq, p.ts) = Gap'
    <3>1. CASE p = Out(s) BY <1>2, <3>1, GapStays
    <3>2. CASE p \in Numbered BY <1>2, <3>2, GapStays DEF SpliceInv, NumberedFit
    <3> QED BY <2>2, <2>3, <3>1, <3>2
  <2>4. NumberedFit'
    BY <2>1, <2>3 DEF NumberedFit, Minus
  <2> QED BY <1>2, <2>4, OffsetsFitStep
<1>3. CASE UNCHANGED vars
  BY <1>3 DEF SpliceInv, OffsetsFit, NumberedFit, Numbered, Written, InFlight, Gap, Minus, Plus,
              vars, streams, numbering
<1> QED BY <1>1, <1>2, <1>3 DEF Next

-----------------------------------------------------------------------------
(***************************************************************************)
(* Numbers counted back from the next one.                                 *)
(***************************************************************************)

\* A multiple of Modulus that is smaller is none.
LEMMA NoMultiple ==
    ASSUME NEW c \in Int, Modulus * c < Modulus, - Modulus < Modulus * c
    PROVE  c = 0
<1>1. ASSUME c >= 1 PROVE FALSE
  <2>1. Modulus * c = Modulus + Modulus * (c - 1)
    BY ModulusAssumption
  <2>2. Modulus * (c - 1) >= 0
    BY <1>1, ModulusAssumption
  <2> QED BY <2>1, <2>2, ModulusAssumption
<1>2. ASSUME c <= -1 PROVE FALSE
  <2>1. Modulus * c = - Modulus + Modulus * (c + 1)
    BY ModulusAssumption
  <2>2. Modulus * (c + 1) <= 0
    BY <1>2, ModulusAssumption
  <2> QED BY <2>1, <2>2, ModulusAssumption
<1> QED BY <1>1, <1>2

\* Less than Modulus places back every number is another.
LEMMA BackDiffer ==
    ASSUME NEW x \in Int, NEW k \in 1 .. Modulus, NEW l \in 1 .. Modulus,
           Minus(x, k) = Minus(x, l)
    PROVE  k = l
<1>1. PICK c \in Int : x - k = x - l + Modulus * c
  <2>1. x - k \in Int /\ x - l \in Int
    BY ModulusAssumption
  <2>2. (x - k) % Modulus = (x - l) % Modulus
    BY DEF Minus
  <2> QED BY <2>1, <2>2, SameRemainderOnly
<1>2. Modulus * c = l - k
  BY <1>1, ModulusAssumption
<1>3. c = 0
  BY <1>2, NoMultiple, ModulusAssumption
<1> QED BY <1>2, <1>3, ModulusAssumption

\* And two are as far apart as their places are.
LEMMA BackDistance ==
    ASSUME NEW x \in Int, NEW k \in 1 .. Modulus, NEW l \in 1 .. k
    PROVE  Minus(Minus(x, l), Minus(x, k)) = k - l
<1>0. k \in Int /\ l \in Int /\ k - l \in Int /\ x - k \in Int /\ x - l \in Int
  BY ModulusAssumption
<1>1. PICK c \in Int : Minus(x, l) = x - l + Modulus * c
  BY <1>0, Wraps DEF Minus
<1>2. PICK d \in Int : Minus(x, k) = x - k + Modulus * d
  BY <1>0, Wraps DEF Minus
<1>3. Modulus * (c - d) = Modulus * c - Modulus * d
  BY ModulusAssumption
<1>4. /\ Minus(x, l) - Minus(x, k) = (k - l) + Modulus * (c - d)
      /\ Minus(x, l) - Minus(x, k) \in Int
  BY <1>0, <1>1, <1>2, <1>3, ModulusAssumption
<1>5. Minus(Minus(x, l), Minus(x, k)) = (k - l) % Modulus
  BY <1>0, <1>4, SameRemainder DEF Minus
<1>6. (k - l) % Modulus = k - l
  BY ModulusAssumption
<1> QED BY <1>5, <1>6

\* When the next number is a places on, all are a places further back.
LEMMA BackFurther ==
    ASSUME NEW x \in Int, NEW k \in Int, NEW a \in Int
    PROVE  Minus(x, k) = Minus(Plus(x, a), k + a)
<1>1. PICK c \in Int : Plus(x, a) = x + a + Modulus * c
  BY Wraps DEF Plus
<1>2. Plus(x, a) - (k + a) = x - k + Modulus * c /\ Plus(x, a) - (k + a) \in Int
  BY <1>1, ModulusAssumption
<1> QED BY <1>2, SameRemainder DEF Minus

\* The number before the one after x is x.
LEMMA BackOne ==
    ASSUME NEW x \in Number
    PROVE  Minus(Plus(x, 1), 1) = x
<1>1. x \in Int /\ x % Modulus = x
  BY ModulusAssumption DEF Number
<1>2. Minus(x, 0) = Minus(Plus(x, 1), 1)
  BY <1>1, BackFurther
<1> QED BY <1>1, <1>2 DEF Minus

\* With one offset, packets n and m of a stream stay n - m apart.
LEMMA OnePastTheOther ==
    ASSUME NEW b \in Int, NEW off \in Int, NEW m \in Int, NEW n \in Int, NEW x \in Int,
           Plus(Plus(b, m), off) = Minus(x, 1)
    PROVE  /\ Plus(Plus(Plus(b, n), off), 1) = Plus(x, n - m)
           /\ Minus(Plus(Plus(b, n), off), Plus(Plus(b, m), off)) = Minus(n, m)
<1>1. PICK c \in Int, d \in Int : /\ Plus(b, m) = b + m + Modulus * c
                                  /\ Plus(Plus(b, m), off) = Plus(b, m) + off + Modulus * d
  <2>1. PICK c \in Int : Plus(b, m) = b + m + Modulus * c
    BY Wraps DEF Plus
  <2>2. Plus(b, m) + off \in Int
    BY <2>1, ModulusAssumption
  <2>3. PICK d \in Int : Plus(Plus(b, m), off) = Plus(b, m) + off + Modulus * d
    BY <2>2, Wraps DEF Plus
  <2> QED BY <2>1, <2>3
<1>2. PICK e \in Int, f \in Int : /\ Plus(b, n) = b + n + Modulus * e
                                  /\ Plus(Plus(b, n), off) = Plus(b, n) + off + Modulus * f
  <2>1. PICK e \in Int : Plus(b, n) = b + n + Modulus * e
    BY Wraps DEF Plus
  <2>2. Plus(b, n) + off \in Int
    BY <2>1, ModulusAssumption
  <2>3. PICK f \in Int : Plus(Plus(b, n), off) = Plus(b, n) + off + Modulus * f
    BY <2>2, Wraps DEF Plus
  <2> QED BY <2>1, <2>3
<1>3. PICK g \in Int : Minus(x, 1) = x - 1 + Modulus * g
  BY Wraps DEF Minus
<1> DEFINE h == (e + f) - (c + d)
<1>4. PICK C \in Int, D \in Int, E \in Int, F \in Int, G \in Int :
          /\ C = Modulus * c /\ D = Modulus * d /\ E = Modulus * e /\ F = Modulus * f
          /\ G = Modulus * g
  BY ModulusAssumption
<1>5. h \in Int /\ Modulus * h = E + F - C - D /\ Modulus * (h + g) = E + F - C - D + G
  BY <1>4, ModulusAssumption
<1>6. /\ Plus(Plus(b, n), off) \in Int /\ Plus(Plus(b, m), off) \in Int
      /\ Plus(Plus(b, n), off) - Plus(Plus(b, m), off) = (n - m) + Modulus * h
  BY <1>1, <1>2, <1>4, <1>5
<1>7. Minus(Plus(Plus(b, n), off), Plus(Plus(b, m), off)) = Minus(n, m)
  BY <1>5, <1>6, SameRemainder DEF Minus
<1>8. Plus(Plus(Plus(b, n), off), 1) = Plus(x, n - m)
  <2>1. Plus(Plus(b, n), off) = b + n + off + E + F
    BY <1>2, <1>4
  <2>2. b + m + off + C + D = x - 1 + G
    BY <1>1, <1>3, <1>4
  <2>3. Plus(Plus(b, n), off) + 1 = x + (n - m) + (E + F - C - D + G)
    BY <2>1, <2>2
  <2>4. Plus(Plus(b, n), off) + 1 = x + (n - m) + Modulus * (h + g) /\ h + g \in Int
    BY <1>5, <2>3
  <2> QED BY <1>6, <2>4, SameRemainder DEF Plus
<1> QED BY <1>7, <1>8

-----------------------------------------------------------------------------
(***************************************************************************)
(* What has passed.                                                        *)
(***************************************************************************)

\* The streams together are no longer than Modulus: 2^16 packets are 22
\* minutes of calls for one browser.
Short == IsFiniteSet(Stream) /\ Cardinality(Stream) * Packets <= Modulus

\* No set of packets has more of them than the streams.
LEMMA NoMoreThanAll ==
    ASSUME Short, NEW P \in SUBSET (Stream \X (1 .. Packets))
    PROVE  /\ IsFiniteSet(P)
           /\ Cardinality(P) \in Nat
           /\ Cardinality(P) <= Modulus
<1> DEFINE All == Stream \X (1 .. Packets)
<1>1. IsFiniteSet(1 .. Packets) /\ Cardinality(1 .. Packets) = Packets
  BY FS_Interval, PacketsAssumption
<1>2. IsFiniteSet(All) /\ Cardinality(All) = Cardinality(Stream) * Packets
  BY <1>1, FS_Product DEF Short
<1>3. IsFiniteSet(P) /\ Cardinality(P) <= Cardinality(All)
  BY <1>2, FS_Subset
<1>4. Cardinality(P) \in Nat /\ Cardinality(All) \in Nat /\ Cardinality(Stream) \in Nat
  BY <1>2, <1>3, FS_CardinalityType DEF Short
<1> QED BY <1>2, <1>3, <1>4, ModulusAssumption, PacketsAssumption DEF Short

\* Nor do more pass, before or after a step.
LEMMA PassedIsShort ==
    ASSUME Short
    PROVE  /\ IsFiniteSet(Passed) /\ IsFiniteSet(Passed')
           /\ Cardinality(Passed) \in Nat /\ Cardinality(Passed) <= Modulus
           /\ Cardinality(Passed') \in Nat /\ Cardinality(Passed') <= Modulus
<1>1. Passed \in SUBSET (Stream \X (1 .. Packets)) /\ Passed' \in SUBSET (Stream \X (1 .. Packets))
  BY DEF Passed
<1> QED BY <1>1, NoMoreThanAll

\* A packet n that is numbered passes, with those from m + 1 on, if m is as new
\* as what was numbered of its stream.
LEMMA PassedGrows ==
    ASSUME Short, TypeOK, NEW s \in Stream, Renumber(s),
           NEW n \in taken[s], work[s].pkt.n = n,
           NEW m \in Nat, m < n, \A i \in Done(s) : i <= m
    PROVE  Cardinality(Passed') >= Cardinality(Passed) + (n - m)
<1> DEFINE Newer == {s} \X (m + 1 .. n)
<1>1. n \in 1 .. Packets /\ n \in Int /\ m + 1 \in Int
  BY PacketsAssumption DEF TypeOK
<1>2. /\ IsFiniteSet(m + 1 .. n)
      /\ Cardinality(m + 1 .. n) = n - m
  <2>1. Cardinality(m + 1 .. n) = IF m + 1 > n THEN 0 ELSE n - (m + 1) + 1
    BY <1>1, FS_Interval
  <2>2. ~ (m + 1 > n) /\ n - (m + 1) + 1 = n - m
    BY <1>1
  <2>3. IsFiniteSet(m + 1 .. n)
    BY <1>1, FS_Interval
  <2> QED BY <2>1, <2>2, <2>3
<1>3. IsFiniteSet(Newer) /\ Cardinality(Newer) = n - m
  <2>1. IsFiniteSet({s}) /\ Cardinality({s}) = 1
    BY FS_Singleton
  <2>2. IsFiniteSet(Newer) /\ Cardinality(Newer) = Cardinality({s}) * Cardinality(m + 1 .. n)
    BY <1>2, <2>1, FS_Product
  <2> QED BY <1>1, <1>2, <2>1, <2>2
<1>4. Newer \cap Passed = {}
  <2>1. ASSUME NEW sn \in Newer, sn \in Passed PROVE FALSE
    <3>1. sn[1] = s /\ sn[2] \in Int /\ m < sn[2]
      BY <1>1
    <3>2. PICK i \in Done(s) : sn[2] <= i
      BY <2>1, <3>1 DEF Passed
    <3>3. i \in Int /\ i <= m
      BY <3>2, PacketsAssumption DEF Done, TypeOK
    <3> QED BY <3>1, <3>2, <3>3
  <2> QED BY <2>1
<1>5. /\ \A o \in Stream : Done(o) \subseteq Done(o)'
      /\ n \in Done(s)'
  <2>1. work' = [work EXCEPT ![s] = [doing |-> "writing", pkt |-> Out(s)]] /\ taken' = taken
    BY RenumberMakes
  <2> QED BY <2>1 DEF TypeOK, Done
<1>6. Newer \cup Passed \subseteq Passed'
  <2>1. Passed \subseteq Passed'
    BY <1>5 DEF Passed
  <2>2. ASSUME NEW sn \in Newer PROVE sn \in Passed'
    <3>1. sn \in Stream \X (1 .. Packets) /\ sn[1] = s /\ sn[2] <= n
      BY <1>1, PacketsAssumption
    <3> QED BY <1>5, <3>1 DEF Passed
  <2> QED BY <2>1, <2>2
<1>7. /\ IsFiniteSet(Passed) /\ Cardinality(Passed) \in Nat
      /\ IsFiniteSet(Passed') /\ Cardinality(Passed') \in Nat
  BY PassedIsShort
<1> HIDE DEF Newer
<1>8. Cardinality(Newer \cup Passed) = Cardinality(Newer) + Cardinality(Passed)
  <2>1. Cardinality(Newer \cup Passed)
           = Cardinality(Newer) + Cardinality(Passed) - Cardinality(Newer \cap Passed)
    BY <1>3, <1>7, FS_Union
  <2>2. Cardinality(Newer \cap Passed) = 0
    BY <1>4, FS_EmptySet
  <2> QED BY <1>1, <1>3, <1>7, <2>1, <2>2
<1>9. Cardinality(Newer \cup Passed) <= Cardinality(Passed')
  BY <1>6, <1>7, FS_Subset
<1> QED BY <1>1, <1>3, <1>7, <1>8, <1>9

\* What was numbered stays.
LEMMA NumberedKept ==
    ASSUME TypeOK, NEW s \in Stream,
           (\E n \in 1 .. Packets : Receive(s, n)) \/ WriteTrack(s) \/ Renumber(s)
    PROVE  Numbered \subseteq Numbered'
<1>1. CASE (\E n \in 1 .. Packets : Receive(s, n)) \/ Renumber(s)
  <2>1. Written' = Written /\ s \notin InFlight /\ \A o \in Stream \ {s} : work'[o] = work[o]
    BY <1>1 DEF Receive, Renumber, Written, InFlight, TypeOK, Idle
  <2> QED BY <2>1 DEF Numbered, InFlight
<1>2. CASE WriteTrack(s)
  <2>1. work[s].pkt \in Packet /\ track \in Seq(Packet)
    BY <1>2, WorkHasPacket DEF WriteTrack, TypeOK
  <2>2. track' = Append(track, work[s].pkt) /\ \A o \in Stream \ {s} : work'[o] = work[o]
    BY <1>2 DEF WriteTrack, TypeOK
  <2>3. ASSUME NEW i \in 1 .. Len(track)
        PROVE  i \in 1 .. Len(track') /\ track'[i] = track[i]
    BY <2>1, <2>2, AppendProperties
  <2>4. Len(track') \in 1 .. Len(track') /\ track'[Len(track')] = work[s].pkt
    BY <2>1, <2>2, AppendProperties, LenProperties
  <2>5. Written \subseteq Written' /\ work[s].pkt \in Written'
    BY <2>3, <2>4 DEF Written
  <2> QED BY <2>2, <2>5 DEF Numbered, InFlight
<1> QED BY <1>1, <1>2

\* Renumber makes it one more.
LEMMA NumberedAnd ==
    ASSUME TypeOK, NEW s \in Stream, Renumber(s)
    PROVE  Numbered' = Numbered \cup {Out(s)}
<1>1. work'[s] = [doing |-> "writing", pkt |-> Out(s)]
  BY RenumberMakes DEF TypeOK
<1>2. Out(s) \in Numbered'
  BY <1>1 DEF Numbered, InFlight
<1> QED BY <1>2, NumberedKept, NumberedGrows

\* Whatever was numbered is a packet.
LEMMA NumberedTypes ==
    ASSUME TypeOK
    PROVE  Numbered \subseteq Packet
<1>1. Written \subseteq Packet
  BY DEF TypeOK, Written
<1>2. ASSUME NEW s \in InFlight PROVE work[s].pkt \in Packet
  BY WorkHasPacket DEF InFlight
<1> QED BY <1>1, <1>2 DEF Numbered

-----------------------------------------------------------------------------
(***************************************************************************)
(* The steps.                                                              *)
(***************************************************************************)

\* A step that numbers nothing leaves what is said of the numbers.
LEMMA NumbersStay ==
    ASSUME FreshInv, Numbered' = Numbered, \A s \in Stream : Done(s)' = Done(s),
           UNCHANGED <<streams, numbering>>
    PROVE  NumberedIsDone' /\ LastIsNumbered' /\ NumbersAreBehind' /\ NumberedDiffer'
           /\ LossesAreNumbered'
<1>1. Passed' = Passed
  BY DEF Passed
<1>2. \A p \in Numbered : p.ssrc \in Stream
  BY NumberedTypes DEF FreshInv, SpliceInv, Packet
<1>3. rtpInit => srcSSRC \in Stream
  BY DEF FreshInv, SpliceInv, OffsetsFit
<1>4. NumberedIsDone'
  BY <1>2 DEF FreshInv, NumberedIsDone
<1>5. LastIsNumbered'
  BY <1>3 DEF FreshInv, LastIsNumbered, streams, numbering, Plus, Minus
<1>6. NumbersAreBehind'
  BY <1>1 DEF FreshInv, NumbersAreBehind, numbering, Minus
<1>7. NumberedDiffer' /\ LossesAreNumbered'
  BY DEF FreshInv, NumberedDiffer, LossesAreNumbered, Between, Minus
<1> QED BY <1>4, <1>5, <1>6, <1>7

\* In order, the packet that is received is newer than those before it.
LEMMA ReceiveFresh ==
    ASSUME InOrder, FreshInv, NEW s \in Stream, NEW n \in 1 .. Packets, Receive(s, n)
    PROVE  /\ WorkIsNext' /\ NumberedIsDone' /\ LastIsNumbered' /\ NumbersAreBehind'
           /\ NumberedDiffer' /\ TrackIsInOrder' /\ LossesAreNumbered'
<1>1. TypeOK
  BY DEF FreshInv, SpliceInv
<1>2. PICK pkt \in Packet :
          /\ pkt.n = n /\ pkt.seq = Plus(seqBase[s], n)
          /\ work' = [work EXCEPT ![s] = [doing |-> "numbering", pkt |-> pkt]]
  BY <1>1, ReceiveMakes
<1>3. /\ work[s] = Idle /\ n \notin taken[s] /\ \A m \in taken[s] : m < n
      /\ taken' = [taken EXCEPT ![s] = @ \cup {n}]
      /\ UNCHANGED <<streams, numbering, track>>
  BY DEF Receive
<1>4. ASSUME NEW o \in Stream PROVE Done(o)' = Done(o)
  <2>1. CASE o # s
    BY <1>1, <1>2, <1>3, <2>1 DEF Done, TypeOK
  <2>2. CASE o = s
    <3>1. work'[s].doing = "numbering" /\ work'[s].pkt.n = n /\ taken'[s] = taken[s] \cup {n}
      BY <1>1, <1>2, <1>3 DEF TypeOK
    <3>2. Done(s) = taken[s] /\ Done(s)' = taken'[s] \ {n}
      BY <1>3, <3>1 DEF Done, Idle
    <3> QED BY <1>3, <2>2, <3>1, <3>2
  <2> QED BY <2>1, <2>2
<1>5. Numbered' = Numbered
  BY <1>1, NumberedStays, NumberedKept
<1>6. WorkIsNext'
  BY <1>1, <1>2, <1>3 DEF FreshInv, WorkIsNext, TypeOK, streams, Plus
<1>7. TrackIsInOrder'
  <2>1. \A o \in InFlight' : o \in InFlight /\ work'[o] = work[o]
    BY <1>1, <1>2 DEF InFlight, TypeOK
  <2> QED BY <1>3, <2>1 DEF FreshInv, TrackIsInOrder
<1> QED BY <1>3, <1>4, <1>5, <1>6, <1>7, NumbersStay

\* What is written is newer than what was written of its stream.
LEMMA WriteFresh ==
    ASSUME FreshInv, NEW s \in Stream, WriteTrack(s)
    PROVE  /\ WorkIsNext' /\ NumberedIsDone' /\ LastIsNumbered' /\ NumbersAreBehind'
           /\ NumberedDiffer' /\ TrackIsInOrder' /\ LossesAreNumbered'
<1>1. TypeOK /\ WorkIsOwn
  BY DEF FreshInv, SpliceInv
<1>2. /\ work[s].doing = "writing" /\ work' = [work EXCEPT ![s] = Idle]
      /\ track' = Append(track, work[s].pkt)
      /\ UNCHANGED <<streams, taken, numbering>>
  BY DEF WriteTrack
<1>3. \A o \in Stream : Done(o)' = Done(o)
  BY <1>1, <1>2 DEF Done, TypeOK, Idle
<1>4. Numbered' = Numbered
  BY <1>1, NumberedStays, NumberedKept
<1>5. WorkIsNext'
  BY <1>1, <1>2 DEF FreshInv, WorkIsNext, TypeOK, streams, Plus, Idle
<1>6. TrackIsInOrder'
  <2>1. work[s].pkt \in Packet /\ work[s].pkt.ssrc = s /\ track \in Seq(Packet) /\ s \in InFlight
    BY <1>1, <1>2, WorkHasPacket DEF WorkIsOwn, TypeOK, InFlight
  <2>2. /\ Len(track') = Len(track) + 1 /\ Len(track) \in Nat
        /\ \A i \in 1 .. Len(track) : track'[i] = track[i]
        /\ track'[Len(track) + 1] = work[s].pkt
    BY <1>2, <2>1, AppendProperties, LenProperties
  <2>3. \A o \in InFlight' : o \in InFlight /\ work'[o] = work[o] /\ o # s
    BY <1>1, <1>2 DEF InFlight, TypeOK, Idle
  <2>4. ASSUME NEW i \in 1 .. Len(track), NEW j \in 1 .. Len(track'), i < j,
               track'[i].ssrc = track'[j].ssrc
        PROVE  track'[i].n < track'[j].n
    <3>1. CASE j \in 1 .. Len(track)
      BY <2>2, <2>4, <3>1 DEF FreshInv, TrackIsInOrder
    <3>2. CASE j = Len(track) + 1
      BY <2>1, <2>2, <2>4, <3>2 DEF FreshInv, TrackIsInOrder
    <3> QED BY <2>2, <3>1, <3>2
  <2>5. ASSUME NEW i \in 1 .. Len(track), NEW o \in InFlight', track'[i].ssrc = o
        PROVE  track'[i].n < work'[o].pkt.n
    BY <2>2, <2>3, <2>5 DEF FreshInv, TrackIsInOrder
  <2> QED BY <2>1, <2>2, <2>3, <2>4, <2>5 DEF TrackIsInOrder
<1> QED BY <1>2, <1>3, <1>4, <1>5, <1>6, NumbersStay

\* A packet is one: no two have the same stream and place in it.
LEMMA PacketsAreOne ==
    ASSUME FreshInv, NEW p \in Numbered, NEW q \in Numbered, p.ssrc = q.ssrc, p.n = q.n
    PROVE  p = q
<1>1. TypeOK /\ WorkIsOwn
  BY DEF FreshInv, SpliceInv
<1>2. \A x \in Numbered : x.n \in Int
  BY <1>1, NumberedTypes, PacketsAssumption DEF Packet
<1>3. \A o \in InFlight : work[o].pkt.ssrc = o
  BY <1>1 DEF WorkIsOwn, InFlight
<1>4. ASSUME NEW i \in 1 .. Len(track), NEW o \in InFlight, track[i].ssrc = o
      PROVE  track[i].n # work[o].pkt.n
  <2>1. track[i] \in Numbered /\ track[i].n < work[o].pkt.n
    BY <1>4 DEF FreshInv, TrackIsInOrder, Numbered, Written
  <2> QED BY <1>2, <2>1
<1>5. ASSUME NEW i \in 1 .. Len(track), NEW j \in 1 .. Len(track),
             track[i].ssrc = track[j].ssrc, track[i].n = track[j].n
      PROVE  track[i] = track[j]
  <2>1. track[i] \in Numbered /\ track[j] \in Numbered
    BY DEF Numbered, Written
  <2>2. track[i].n \in Int
    BY <1>2, <2>1
  <2>3. ~ (i < j) /\ ~ (j < i)
    BY <1>5, <2>2 DEF FreshInv, TrackIsInOrder
  <2>4. i \in Int /\ j \in Int
    BY LenProperties
  <2> QED BY <2>3, <2>4
<1> QED BY <1>3, <1>4, <1>5 DEF Numbered, Written

\* Distances add up.
LEMMA Chain ==
    ASSUME NEW a \in Int, NEW b \in Int, NEW c \in Int,
           NEW x \in Int, NEW y \in Int, NEW z \in Int,
           Minus(a, b) = Minus(x, y), Minus(b, c) = Minus(y, z)
    PROVE  Minus(a, c) = Minus(x, z)
<1>1. PICK k \in Int : a - b = x - y + Modulus * k
  BY SameRemainderOnly DEF Minus
<1>2. PICK l \in Int : b - c = y - z + Modulus * l
  BY SameRemainderOnly DEF Minus
<1>3. Modulus * (k + l) = Modulus * k + Modulus * l
  BY ModulusAssumption
<1>4. a - c = x - z + Modulus * (k + l)
  BY <1>1, <1>2, <1>3, ModulusAssumption
<1> QED BY <1>4, SameRemainder DEF Minus

\* Numbering a packet brings the next number as many places on as packets pass;
\* the last packet r that was numbered is as far away as the PBX sent it, or is
\* of another stream and one place away.
LEMMA NextMoves ==
    ASSUME InOrder, Short, FreshInv, NEW s \in Stream, Renumber(s), rtpInit,
           NEW n \in taken[s], work[s].pkt.n = n
    PROVE  \E r \in Numbered, a \in Nat \ {0} :
              /\ nextSeq' = Plus(nextSeq, a)
              /\ Cardinality(Passed') >= Cardinality(Passed) + a
              /\ r.seq = Minus(nextSeq, 1)
              /\ r.ssrc = s => /\ Minus(Out(s).seq, r.seq) = Minus(n, r.n)
                               /\ \A m \in Done(s) : m <= r.n
<1>1. TypeOK /\ WorkIsOwn /\ OffsetsFit /\ work[s].doing = "numbering"
  BY DEF FreshInv, SpliceInv, Renumber
<1>2. /\ work[s].pkt.ssrc = s /\ work[s].pkt.seq = Plus(seqBase[s], n)
      /\ Done(s) = taken[s] \ {n} /\ \A m \in Done(s) : m < n
  BY <1>1 DEF FreshInv, WorkIsNext, WorkIsOwn, Done
<1>3. n \in 1 .. Packets /\ taken[s] \subseteq 1 .. Packets /\ srcSSRC \in Stream
  BY <1>1 DEF TypeOK, OffsetsFit
<1>4. PICK r \in Numbered :
          /\ r.ssrc = srcSSRC
          /\ \A m \in Done(srcSSRC) : m <= r.n
          /\ r.seq = Minus(nextSeq, 1)
          /\ r.seq = Plus(Plus(seqBase[srcSSRC], r.n), seqOffset)
  BY DEF FreshInv, LastIsNumbered
<1>5. /\ r \in Packet /\ r.n \in 1 .. Packets
      /\ nextSeq \in Number /\ nextSeq \in Int /\ seqOffset \in Int /\ seqBase[s] \in Int
      /\ work[s].pkt.seq \in Int
  BY <1>1, NumberedTypes, NumbersAreIntegers, BaseTypes, WorkHasPacket DEF TypeOK, Packet
<1>6. /\ Out(s).seq = Plus(work[s].pkt.seq, Offsets(work[s].pkt)[1])
      /\ nextSeq' = Plus(Out(s).seq, 1)
  BY <1>1, RenumberMakes
<1>7. CASE srcSSRC = s
  <2>1. r.n \in Done(s)
    BY <1>4, <1>7 DEF FreshInv, NumberedIsDone
  <2>2. r.n < n /\ r.n \in Nat /\ n \in Int /\ n - r.n \in Nat \ {0}
    BY <1>2, <1>3, <1>5, <2>1, PacketsAssumption
  <2>3. Out(s).seq = Plus(Plus(seqBase[s], n), seqOffset)
    BY <1>2, <1>6, <1>7 DEF Offsets
  <2>4. /\ nextSeq' = Plus(nextSeq, n - r.n)
        /\ Minus(Out(s).seq, r.seq) = Minus(n, r.n)
    BY <1>4, <1>5, <1>6, <1>7, <2>2, <2>3, OnePastTheOther
  <2>5. \A m \in Done(s) : m <= r.n
    BY <1>4, <1>7
  <2>6. Cardinality(Passed') >= Cardinality(Passed) + (n - r.n)
    BY <1>1, <2>2, <2>5, PassedGrows
  <2> QED BY <1>4, <2>2, <2>4, <2>5, <2>6
<1>8. CASE srcSSRC # s
  <2>1. Out(s).seq = nextSeq
    BY <1>2, <1>5, <1>6, <1>8, PlusMinus DEF Offsets
  <2>2. n - 1 \in Nat /\ n - 1 < n /\ n - (n - 1) = 1 /\ \A m \in Done(s) : m <= n - 1
    BY <1>2, <1>3, PacketsAssumption
  <2>3. Cardinality(Passed') >= Cardinality(Passed) + 1
    BY <1>1, <2>2, PassedGrows
  <2> QED BY <1>4, <1>6, <1>8, <2>1, <2>3
<1> QED BY <1>7, <1>8

\* Numbering a packet leaves what was numbered behind it, and all numbers apart.
LEMMA RenumberKeepsBehind ==
    ASSUME InOrder, Short, FreshInv, NEW s \in Stream, Renumber(s),
           NEW n \in taken[s], work[s].pkt.n = n
    PROVE  /\ Numbered' = Numbered \cup {Out(s)}
           /\ Out(s) \in Packet /\ Out(s).ssrc = s /\ Out(s).n = n
           /\ Out(s).seq = Minus(nextSeq', 1)
           /\ nextSeq' \in Int
           /\ 1 <= Cardinality(Passed') /\ Cardinality(Passed') <= Modulus
           /\ ~ rtpInit => Numbered = {}
           /\ \A p \in Numbered : \E k \in 2 .. Cardinality(Passed') : p.seq = Minus(nextSeq', k)
<1>1. TypeOK /\ WorkIsOwn /\ NumberedFit /\ work[s].doing = "numbering"
  BY DEF FreshInv, SpliceInv, Renumber
<1>2. /\ Numbered' = Numbered \cup {Out(s)}
      /\ Out(s) \in Packet /\ Out(s).ssrc = s /\ Out(s).n = n
      /\ nextSeq' = Plus(Out(s).seq, 1)
  <2>1. Out(s).n = work[s].pkt.n
    BY <1>1, WorkHasPacket DEF Out, Packet
  <2> QED BY <1>1, <2>1, NumberedAnd, RenumberMakes DEF WorkIsOwn
<1>3. Out(s).seq = Minus(nextSeq', 1) /\ nextSeq' \in Int /\ nextSeq \in Int
  <2>1. Out(s).seq \in Number
    BY <1>2 DEF Packet
  <2>2. Out(s).seq \in Int
    BY <2>1, NumbersAreIntegers
  <2>3. nextSeq' \in Number
    BY <1>2, <2>2, WrapTypes
  <2> QED BY <1>1, <1>2, <2>1, <2>3, BackOne, NumbersAreIntegers DEF TypeOK
<1>4. /\ Cardinality(Passed') \in Nat /\ Cardinality(Passed') <= Modulus
      /\ Cardinality(Passed) \in Nat
  BY PassedIsShort
<1>5. n \in 1 .. Packets
  BY <1>1 DEF TypeOK
<1>6. ~ rtpInit => Numbered = {}
  BY <1>1 DEF NumberedFit
<1>7. 1 <= Cardinality(Passed')
  <2>1. /\ n - 1 \in Nat /\ n - 1 < n /\ n - (n - 1) = 1
        /\ \A m \in Done(s) : m <= n - 1
    BY <1>1, <1>5, PacketsAssumption DEF FreshInv, WorkIsNext, Done, TypeOK
  <2>2. Cardinality(Passed') >= Cardinality(Passed) + 1
    BY <1>1, <2>1, PassedGrows
  <2> QED BY <1>4, <2>2
<1>8. ASSUME NEW p \in Numbered
      PROVE  \E k \in 2 .. Cardinality(Passed') : p.seq = Minus(nextSeq', k)
  <2>1. rtpInit
    BY <1>6, <1>8
  <2>2. PICK a \in Nat \ {0} : /\ nextSeq' = Plus(nextSeq, a)
                               /\ Cardinality(Passed') >= Cardinality(Passed) + a
    BY <2>1, NextMoves
  <2>3. PICK k \in 1 .. Cardinality(Passed) : p.seq = Minus(nextSeq, k)
    BY <1>8 DEF FreshInv, NumbersAreBehind
  <2>4. k + a \in 2 .. Cardinality(Passed')
    BY <1>4, <2>2, <2>3
  <2>5. p.seq = Minus(nextSeq', k + a)
    BY <1>3, <1>4, <2>2, <2>3, BackFurther
  <2> QED BY <2>4, <2>5
<1> QED BY <1>2, <1>3, <1>4, <1>6, <1>7, <1>8

\* Numbering a packet after a loss shows the loss, or there is one of another
\* stream in between.
LEMMA RenumberShowsLosses ==
    ASSUME InOrder, Short, FreshInv, NEW s \in Stream, Renumber(s),
           NEW n \in taken[s], work[s].pkt.n = n,
           NEW p \in Numbered, p.ssrc = s, p.n < n
    PROVE  \/ Minus(Out(s).seq, p.seq) = Minus(n, p.n)
           \/ \E o \in Numbered : /\ o.ssrc # s
                                  /\ Minus(o.seq, p.seq) < Minus(Out(s).seq, p.seq)
<1>1. TypeOK /\ NumberedFit /\ NumberedIsDone /\ LossesAreNumbered /\ NumbersAreBehind
  BY DEF FreshInv, SpliceInv
<1>2. rtpInit
  BY <1>1 DEF NumberedFit
<1>3. PICK r \in Numbered, a \in Nat \ {0} :
          /\ nextSeq' = Plus(nextSeq, a)
          /\ Cardinality(Passed') >= Cardinality(Passed) + a
          /\ r.seq = Minus(nextSeq, 1)
          /\ r.ssrc = s => /\ Minus(Out(s).seq, r.seq) = Minus(n, r.n)
                           /\ \A m \in Done(s) : m <= r.n
  BY <1>2, NextMoves
<1>4. PICK k \in 1 .. Cardinality(Passed) : p.seq = Minus(nextSeq, k)
  BY <1>1 DEF NumbersAreBehind
<1>5. /\ Cardinality(Passed) \in Nat /\ Cardinality(Passed) <= Modulus
      /\ Cardinality(Passed') \in Nat /\ Cardinality(Passed') <= Modulus
  BY PassedIsShort
<1>6. /\ nextSeq \in Int /\ nextSeq' \in Int
      /\ k \in 1 .. Modulus /\ k + a \in 1 .. Modulus
      /\ 1 \in 1 .. k /\ 1 \in 1 .. k + a /\ k \in Int /\ a \in Int
  <2>1. nextSeq \in Int
    BY <1>1, NumbersAreIntegers DEF TypeOK
  <2>2. nextSeq' \in Int
    BY RenumberKeepsBehind
  <2> QED BY <1>3, <1>4, <1>5, <2>1, <2>2, ModulusAssumption
<1>7. Minus(r.seq, p.seq) = k - 1
  BY <1>3, <1>4, <1>6, BackDistance
<1>8. Minus(Out(s).seq, p.seq) = k + a - 1
  <2>1. Out(s).seq = Minus(nextSeq', 1)
    BY RenumberKeepsBehind
  <2>2. p.seq = Minus(nextSeq', k + a)
    BY <1>3, <1>4, <1>6, BackFurther
  <2>3. Minus(Minus(nextSeq', 1), Minus(nextSeq', k + a)) = k + a - 1
    BY <1>6, BackDistance
  <2> QED BY <2>1, <2>2, <2>3
<1>9. k - 1 < k + a - 1
  BY <1>3, <1>6
<1>10. CASE r.ssrc # s
  BY <1>7, <1>8, <1>9, <1>10
<1>11. CASE r.ssrc = s
  <2>1. p.n <= r.n
    BY <1>1, <1>3, <1>11 DEF NumberedIsDone
  <2>2. /\ p \in Packet /\ r \in Packet /\ Out(s) \in Packet
        /\ p.n \in Int /\ r.n \in Int /\ n \in Int
        /\ p.seq \in Int /\ r.seq \in Int /\ Out(s).seq \in Int
    <3>1. p \in Packet /\ r \in Packet /\ Out(s) \in Packet /\ Out(s).n = n
      BY <1>1, NumberedTypes, RenumberKeepsBehind
    <3>2. \A x \in Packet : x.n \in 1 .. Packets /\ x.seq \in Number
      BY DEF Packet
    <3>3. \A x \in 1 .. Packets : x \in Int
      BY PacketsAssumption
    <3> QED BY <3>1, <3>2, <3>3, NumbersAreIntegers
  <2>3. CASE p.n = r.n
    <3>1. p = r
      BY <1>11, <2>3, PacketsAreOne
    <3> QED BY <1>3, <1>11, <3>1
  <2>4. CASE p.n # r.n
    <3>1. Minus(r.seq, p.seq) = Minus(r.n, p.n) \/ Between(p, r)
      <4>1. p.n < r.n
        BY <2>1, <2>2, <2>4
      <4> QED BY <1>1, <1>11, <4>1 DEF LossesAreNumbered
    <3>2. CASE Minus(r.seq, p.seq) = Minus(r.n, p.n)
      BY <1>3, <1>11, <2>2, <3>2, Chain
    <3>3. CASE Between(p, r)
      <4>1. PICK o \in Numbered : o.ssrc # s /\ Minus(o.seq, p.seq) < k - 1
        BY <1>7, <3>3 DEF Between
      <4>2. Minus(o.seq, p.seq) \in Int
        <5>1. o.seq \in Number
          BY <1>1, NumberedTypes DEF Packet
        <5>2. Minus(o.seq, p.seq) \in Number
          BY <2>2, <5>1, WrapTypes, NumbersAreIntegers
        <5> QED BY <5>2, NumbersAreIntegers
      <4>3. Minus(o.seq, p.seq) < k + a - 1
        BY <1>3, <1>6, <4>1, <4>2
      <4> QED BY <1>8, <4>1, <4>3
    <3> QED BY <3>1, <3>2, <3>3
  <2> QED BY <2>3, <2>4
<1> QED BY <1>10, <1>11

\* In order, and before Modulus packets have passed, a number that is given is a
\* fresh one, and losses before it show.
LEMMA RenumberFresh ==
    ASSUME InOrder, Short, FreshInv, NEW s \in Stream, Renumber(s)
    PROVE  /\ WorkIsNext' /\ NumberedIsDone' /\ LastIsNumbered' /\ NumbersAreBehind'
           /\ NumberedDiffer' /\ TrackIsInOrder' /\ LossesAreNumbered'
<1>1. /\ TypeOK /\ WorkIsOwn /\ WorkIsNext /\ NumberedIsDone /\ NumbersAreBehind
      /\ NumberedDiffer /\ TrackIsInOrder /\ LossesAreNumbered
      /\ work[s].doing = "numbering"
  BY DEF FreshInv, SpliceInv, Renumber
<1>2. PICK n \in taken[s] :
          /\ work[s].pkt.n = n
          /\ \A m \in taken[s] \ {n} : m < n
          /\ work[s].pkt.seq = Plus(seqBase[s], n)
  BY <1>1 DEF WorkIsNext
<1>3. /\ Numbered' = Numbered \cup {Out(s)}
      /\ Out(s) \in Packet /\ Out(s).ssrc = s /\ Out(s).n = n
      /\ Out(s).seq = Minus(nextSeq', 1)
      /\ nextSeq' \in Int
      /\ 1 <= Cardinality(Passed') /\ Cardinality(Passed') <= Modulus
      /\ \A p \in Numbered : \E k \in 2 .. Cardinality(Passed') : p.seq = Minus(nextSeq', k)
  BY <1>2, RenumberKeepsBehind
<1>4. /\ work' = [work EXCEPT ![s] = [doing |-> "writing", pkt |-> Out(s)]]
      /\ srcSSRC' = s
      /\ Out(s).seq = Plus(work[s].pkt.seq, seqOffset')
      /\ UNCHANGED <<streams, taken, track>>
  BY <1>1, RenumberMakes DEF WorkIsOwn
<1>5. /\ Cardinality(Passed') \in Nat
      /\ n \in Int /\ \A m \in taken[s] : m \in Int
  BY <1>1, PassedIsShort, PacketsAssumption DEF TypeOK
<1>6. /\ \A o \in Stream \ {s} : Done(o)' = Done(o)
      /\ Done(s) = taken[s] \ {n} /\ Done(s)' = taken[s]
  BY <1>1, <1>2, <1>4 DEF Done, TypeOK
<1>7. \A p \in Numbered : p.ssrc \in Stream /\ (p.ssrc = s => p.n < n)
  BY <1>1, <1>2, <1>6, NumberedTypes DEF NumberedIsDone, Packet
<1>8. WorkIsNext'
  BY <1>1, <1>4 DEF WorkIsNext, TypeOK, streams, Plus
<1>9. NumberedIsDone'
  BY <1>1, <1>3, <1>6, <1>7 DEF NumberedIsDone
<1>10. LastIsNumbered'
  <2>1. \A m \in Done(s)' : m <= n
    BY <1>2, <1>5, <1>6
  <2>2. Out(s).seq = Plus(Plus(seqBase'[s], Out(s).n), seqOffset')
    BY <1>2, <1>3, <1>4 DEF streams
  <2> QED BY <1>3, <1>4, <2>1, <2>2 DEF LastIsNumbered, Plus, Minus
<1>11. NumbersAreBehind'
  <2>1. \A p \in Numbered' : \E k \in 1 .. Cardinality(Passed') : p.seq = Minus(nextSeq', k)
    BY <1>3, <1>5
  <2> QED BY <2>1 DEF NumbersAreBehind, Minus
<1>12. NumberedDiffer'
  <2>1. ASSUME NEW p \in Numbered PROVE p.seq # Out(s).seq
    <3>1. PICK k \in 2 .. Cardinality(Passed') : p.seq = Minus(nextSeq', k)
      BY <1>3
    <3>2. k \in 1 .. Modulus /\ 1 \in 1 .. Modulus /\ k # 1
      BY <1>3, <1>5, ModulusAssumption
    <3> QED BY <1>3, <3>1, <3>2, BackDiffer
  <2> QED BY <1>1, <1>3, <2>1 DEF NumberedDiffer
<1>13. TrackIsInOrder'
  <2>1. \A o \in InFlight' : o = s \/ (o \in InFlight /\ work'[o] = work[o])
    BY <1>1, <1>4 DEF InFlight, TypeOK
  <2>2. work'[s].pkt = Out(s)
    BY <1>1, <1>4 DEF TypeOK
  <2>3. \A i \in 1 .. Len(track) : track[i].ssrc = s => track[i].n < n
    BY <1>7 DEF Numbered, Written
  <2> QED BY <1>1, <1>3, <1>4, <2>1, <2>2, <2>3 DEF TrackIsInOrder
<1>14. PICK out : out = Out(s)
  OBVIOUS
<1>15. LossesAreNumbered'
  <2>0. Numbered' = Numbered \cup {out} /\ out.ssrc = s /\ out.n = n
    BY <1>3, <1>14
  <2>1. ASSUME NEW p \in Numbered, NEW q \in Numbered, p.ssrc = q.ssrc, p.n < q.n
        PROVE  Minus(q.seq, p.seq) = Minus(q.n, p.n) \/ Between(p, q)'
    BY <1>1, <2>0, <2>1 DEF LossesAreNumbered, Between, Minus
  <2>2. ASSUME NEW p \in Numbered, p.ssrc = s
        PROVE  Minus(out.seq, p.seq) = Minus(n, p.n) \/ Between(p, out)'
    <3>1. p.n < n
      BY <1>7, <2>2
    <3>2. \/ Minus(out.seq, p.seq) = Minus(n, p.n)
          \/ \E o \in Numbered : /\ o.ssrc # s
                                 /\ Minus(o.seq, p.seq) < Minus(out.seq, p.seq)
      BY <1>2, <1>14, <2>2, <3>1, RenumberShowsLosses
    <3> QED BY <2>0, <2>2, <3>2 DEF Between, Minus
  <2>3. ASSUME NEW q \in Numbered', out.ssrc = q.ssrc, out.n < q.n PROVE FALSE
    <3>1. CASE q = out
      BY <1>5, <2>0, <2>3, <3>1
    <3>2. CASE q \in Numbered
      <4>1. q.n < n /\ n < q.n
        BY <1>7, <2>0, <2>3, <3>2
      <4>2. q.n \in Int
        BY <1>1, <3>2, NumberedTypes, PacketsAssumption DEF Packet
      <4> QED BY <1>5, <4>1, <4>2
    <3> QED BY <2>0, <3>1, <3>2
  <2>4. ASSUME NEW p \in Numbered', NEW q \in Numbered', p.ssrc = q.ssrc, p.n < q.n
        PROVE  Minus(q.seq, p.seq) = Minus(q.n, p.n) \/ Between(p, q)'
    BY <2>0, <2>1, <2>2, <2>3, <2>4
  <2> QED BY <2>4 DEF LossesAreNumbered, Minus
<1> QED BY <1>8, <1>9, <1>10, <1>11, <1>12, <1>13, <1>15

-----------------------------------------------------------------------------
(***************************************************************************)
(* The theorems.                                                           *)
(***************************************************************************)

\* Nothing is numbered at first.
LEMMA InitSplice ==
    ASSUME Init
    PROVE  SpliceInv /\ Numbered = {} /\ track = <<>>
<1>1. TypeOK
  <2>1. 0 \in Number
    BY ModulusAssumption DEF Number
  <2>2. taken \in [Stream -> SUBSET (1 .. Packets)] /\ work \in [Stream -> Work]
    BY DEF Init, Work
  <2>3. track \in Seq(Packet)
    BY DEF Init
  <2> QED BY <2>1, <2>2, <2>3 DEF Init, TypeOK
<1>2. WorkIsOwn
  BY DEF Init, WorkIsOwn, Idle
<1>3. OffsetsFit
  BY DEF Init, OffsetsFit
<1>4. Numbered = {}
  BY DEF Init, Numbered, Written, InFlight, Idle
<1> QED BY <1>1, <1>2, <1>3, <1>4 DEF SpliceInv, NumberedFit, Init

\* Every step keeps the inductive invariant of the gap.
LEMMA SpliceStep ==
    ASSUME SpliceInv, [Next]_vars
    PROVE  SpliceInv'
BY TypeStep, WorkStep, GapStep DEF SpliceInv

\* The inductive invariant of the splicing holds for any streams and Modulus.
THEOREM SpliceInvariant == Spec => []SpliceInv
<1>1. Init => SpliceInv
  BY InitSplice
<1>2. SpliceInv /\ [Next]_vars => SpliceInv'
  BY SpliceStep
<1> QED BY <1>1, <1>2, PTL DEF Spec

\* In order, and when the streams are short, so does that of the numbers.
THEOREM FreshInvariant ==
    ASSUME InOrder, Short
    PROVE  Spec => []FreshInv
<1>1. Init => FreshInv
  <2> SUFFICES ASSUME Init PROVE FreshInv
    OBVIOUS
  <2>1. SpliceInv /\ Numbered = {} /\ track = <<>>
    BY InitSplice
  <2>2. WorkIsNext /\ LastIsNumbered
    BY DEF Init, WorkIsNext, LastIsNumbered, Idle
  <2>3. NumberedIsDone /\ NumbersAreBehind /\ NumberedDiffer /\ LossesAreNumbered
    BY <2>1 DEF NumberedIsDone, NumbersAreBehind, NumberedDiffer, LossesAreNumbered
  <2>4. TrackIsInOrder
    BY <2>1 DEF TrackIsInOrder
  <2> QED BY <2>1, <2>2, <2>3, <2>4 DEF FreshInv
<1>2. FreshInv /\ [Next]_vars => FreshInv'
  <2> SUFFICES ASSUME FreshInv, [Next]_vars PROVE FreshInv'
    OBVIOUS
  <2>1. SpliceInv'
    BY SpliceStep DEF FreshInv
  <2>2. ASSUME NEW s \in Stream, NEW n \in 1 .. Packets, Receive(s, n) PROVE FreshInv'
    BY <2>1, <2>2, ReceiveFresh DEF FreshInv
  <2>3. ASSUME NEW s \in Stream, Renumber(s) PROVE FreshInv'
    BY <2>1, <2>3, RenumberFresh DEF FreshInv
  <2>4. ASSUME NEW s \in Stream, WriteTrack(s) PROVE FreshInv'
    BY <2>1, <2>4, WriteFresh DEF FreshInv
  <2>5. CASE UNCHANGED vars
    <3>1. UNCHANGED <<streams, taken, work, numbering, track>>
      BY <2>5 DEF vars
    <3>2. /\ Numbered' = Numbered /\ InFlight' = InFlight
          /\ \A s \in Stream : Done(s)' = Done(s)
      BY <3>1 DEF Numbered, Written, InFlight, Done
    <3>3. WorkIsNext' /\ TrackIsInOrder'
      BY <3>1, <3>2 DEF FreshInv, WorkIsNext, TrackIsInOrder, streams, Plus
    <3> QED BY <2>1, <3>1, <3>2, <3>3, NumbersStay DEF FreshInv
  <2> QED BY <2>2, <2>3, <2>4, <2>5 DEF Next
<1> QED BY <1>1, <1>2, PTL DEF Spec

\* No two packets reach the browser under one number.
THEOREM NumbersStayFresh ==
    ASSUME InOrder, Short
    PROVE  Spec => []NumbersAreFresh
<1>1. FreshInv => NumbersAreFresh
  <2> SUFFICES ASSUME FreshInv, NEW i \in 1 .. Len(track), NEW j \in 1 .. Len(track),
                      track[i].seq = track[j].seq
               PROVE  i = j
    BY DEF NumbersAreFresh
  <2>1. track[i] \in Numbered /\ track[j] \in Numbered
    BY DEF Numbered, Written
  <2>2. track[i] = track[j]
    BY <2>1 DEF FreshInv, NumberedDiffer
  <2>3. track[i].n \in Int
    BY <2>1, NumberedTypes, PacketsAssumption DEF FreshInv, SpliceInv, Packet
  <2>4. ~ (i < j) /\ ~ (j < i)
    BY <2>2, <2>3 DEF FreshInv, TrackIsInOrder
  <2>5. i \in Int /\ j \in Int
    BY LenProperties
  <2> QED BY <2>4, <2>5
<1> QED BY <1>1, FreshInvariant, PTL

\* Neighbours on the track are as far apart as the PBX sent them, unless a packet
\* of another call has a number between theirs.
THEOREM LossesShow ==
    ASSUME InOrder, Short
    PROVE  Spec => []LossesStayVisible
<1>1. FreshInv => LossesStayVisible
  <2> SUFFICES ASSUME FreshInv, NEW i \in 1 .. Len(track) - 1,
                      track[i].ssrc = track[i + 1].ssrc
               PROVE  \/ Minus(track[i + 1].seq, track[i].seq) = Minus(track[i + 1].n, track[i].n)
                      \/ Between(track[i], track[i + 1])
    BY DEF LossesStayVisible
  <2>1. Len(track) \in Nat
    BY DEF FreshInv, SpliceInv, TypeOK
  <2>2. i \in 1 .. Len(track) /\ i + 1 \in 1 .. Len(track) /\ i < i + 1
    BY <2>1
  <2>3. track[i] \in Numbered /\ track[i + 1] \in Numbered
    BY <2>2 DEF Numbered, Written
  <2>4. track[i].n < track[i + 1].n
    BY <2>2 DEF FreshInv, TrackIsInOrder
  <2> QED BY <2>3, <2>4 DEF FreshInv, LossesAreNumbered
<1> QED BY <1>1, FreshInvariant, PTL

\* On the track of a browser any two packets are as far apart in time as they
\* are in number, whatever calls they come from.
THEOREM TimestampsKeepStep == Spec => []StampsKeepStep
<1>1. SpliceInv => StampsKeepStep
  <2> SUFFICES ASSUME SpliceInv, NEW p \in Written, NEW q \in Written
               PROVE  Minus(p.seq, q.seq) = Minus(p.ts, q.ts)
    BY DEF StampsKeepStep
  <2>1. p \in Packet /\ q \in Packet
    BY DEF SpliceInv, TypeOK, Written
  <2>2. Minus(p.seq, p.ts) = Minus(q.seq, q.ts)
    BY DEF SpliceInv, NumberedFit, Numbered
  <2>3. PICK a \in Int, b \in Int, c \in Int, d \in Int :
            a = p.seq /\ b = p.ts /\ c = q.seq /\ d = q.ts
    BY <2>1, NumbersAreIntegers DEF Packet
  <2>4. Minus(a, b) = Minus(c, d)
    BY <2>2, <2>3
  <2>5. Minus(a, c) = Minus(b, d)
    BY <2>4, Cross
  <2> QED BY <2>3, <2>5
<1> QED BY <1>1, SpliceInvariant, PTL
=============================================================================
