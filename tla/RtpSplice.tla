------------------------------- MODULE RtpSplice -------------------------------
(***************************************************************************)
(* How the RTP streams of consecutive, or simultaneous, SIP calls become   *)
(* one stream on the audio track of a browser: forwardRTPToTrack,          *)
(* writeRTPToPeers and writeSIPRTP of sip-webrtc-gateway/main.go, for one  *)
(* peer.                                                                   *)
(*                                                                         *)
(* Each call has a forwarder goroutine.  It takes a packet from its socket *)
(* (Receive), numbers it for the peer under peer.rtpMu (Renumber), and     *)
(* writes it to the track after it has let rtpMu go (WriteTrack), so two   *)
(* inbound calls, which an idle browser hears both of, may write in        *)
(* another order than they have numbered.                                  *)
(*                                                                         *)
(* Data.  A stream is named by its SSRC.  Its n-th packet carries 20 ms of *)
(* PCMU: its sequence number is a base plus n, its timestamp a base plus n *)
(* frames of 160 ticks, counted here in frames.  Both wrap around at       *)
(* Modulus, which stands for 2^16 and for 2^32 / 160.  A packet that is    *)
(* lost, that is dropped because it is not PCMU media, or that is not      *)
(* routed to the peer because of its peer.call, is never received.  The    *)
(* latching of remoteAddr does not touch the numbering and is left out.    *)
(***************************************************************************)
EXTENDS Integers, Sequences, FiniteSets

CONSTANTS
    Stream,    \* SSRCs of the calls the peer hears
    Packets,   \* packets in a stream: the bound on the length of a call
    Modulus,   \* where sequence numbers and timestamps wrap around
    Base,      \* first numbers and timestamps a PBX may choose
    InOrder,   \* TRUE if the network delivers each stream in order
    None       \* no stream, no packet

ASSUME PacketsAssumption == Packets \in Nat
ASSUME ModulusAssumption == Modulus \in Nat \ {0}
ASSUME BaseAssumption == Base \subseteq 0 .. Modulus - 1
ASSUME InOrderAssumption == InOrder \in BOOLEAN
ASSUME StreamAssumption == None \notin Stream

VARIABLES
    seqBase, tsBase,    \* what the PBX chose for each stream
    taken,              \* packets each forwarder has taken from its socket
    work,               \* what each forwarder is working on
    rtpInit, srcSSRC, seqOffset, tsOffset, nextSeq, nextTs,  \* of peerState
    track               \* history: what was written to the track, in order

streams == <<seqBase, tsBase>>
numbering == <<rtpInit, srcSSRC, seqOffset, tsOffset, nextSeq, nextTs>>
vars == <<streams, taken, work, numbering, track>>

Number == 0 .. Modulus - 1
Packet == [ssrc : Stream, n : 1 .. Packets, seq : Number, ts : Number]
Idle == [doing |-> "reading"]
Work == {Idle} \cup [doing : {"numbering", "writing"}, pkt : Packet]

TypeOK ==
    /\ seqBase \in [Stream -> Base] /\ tsBase \in [Stream -> Base]
    /\ taken \in [Stream -> SUBSET (1 .. Packets)]
    /\ work \in [Stream -> Work]
    /\ rtpInit \in BOOLEAN
    /\ srcSSRC \in Stream \cup {None}
    /\ seqOffset \in Number /\ tsOffset \in Number
    /\ nextSeq \in Number /\ nextTs \in Number
    /\ track \in Seq(Packet)

Init ==
    /\ seqBase \in [Stream -> Base]
    /\ tsBase \in [Stream -> Base]
    /\ taken = [s \in Stream |-> {}]
    /\ work = [s \in Stream |-> Idle]
    /\ rtpInit = FALSE
    /\ srcSSRC = None
    /\ seqOffset = 0 /\ tsOffset = 0
    /\ nextSeq = 0 /\ nextTs = 0
    /\ track = <<>>

\* Faulty: the sum is kept wider than the header field.
PlusWide(x, y) == x + y

Plus(x, y) == (x + y) % Modulus
Minus(x, y) == (x - y) % Modulus

-----------------------------------------------------------------------------
\* forwardRTPToTrack: the socket delivers packet n of stream s, PCMU and not
\* empty.
Receive(s, n) ==
    /\ work[s] = Idle
    /\ n \notin taken[s]
    /\ InOrder => \A m \in taken[s] : m < n
    /\ taken' = [taken EXCEPT ![s] = @ \cup {n}]
    /\ work' = [work EXCEPT ![s] =
                   [doing |-> "numbering",
                    pkt |-> [ssrc |-> s, n |-> n, seq |-> Plus(seqBase[s], n),
                             ts |-> Plus(tsBase[s], n)]]]
    /\ UNCHANGED <<streams, numbering, track>>

\* Faulty: a new stream starts at the last number of the old one.
OffsetsReuse(pkt) ==
    IF ~ rtpInit THEN <<0, 0>>
    ELSE IF pkt.ssrc # srcSSRC
    THEN <<Minus(nextSeq, Plus(pkt.seq, 1)), Minus(Plus(nextTs, 1), pkt.ts)>>
    ELSE <<seqOffset, tsOffset>>

\* Faulty: a new stream starts at the last timestamp of the old one.
OffsetsNoFrame(pkt) ==
    IF ~ rtpInit THEN <<0, 0>>
    ELSE IF pkt.ssrc # srcSSRC
    THEN <<Minus(nextSeq, pkt.seq), Minus(nextTs, pkt.ts)>>
    ELSE <<seqOffset, tsOffset>>

\* Faulty: every packet is treated as the start of a stream.
OffsetsAlways(pkt) ==
    IF ~ rtpInit THEN <<0, 0>>
    ELSE <<Minus(nextSeq, pkt.seq), Minus(Plus(nextTs, 1), pkt.ts)>>

\* The offsets writeSIPRTP uses for pkt: none at the first packet ever, new
\* ones when the SSRC changes, else the ones it has.
Offsets(pkt) ==
    IF ~ rtpInit THEN <<0, 0>>
    ELSE IF pkt.ssrc # srcSSRC
    THEN <<Minus(nextSeq, pkt.seq), Minus(Plus(nextTs, 1), pkt.ts)>>
    ELSE <<seqOffset, tsOffset>>

\* The part of writeSIPRTP that runs under peer.rtpMu.
Renumber(s) ==
    /\ work[s].doing = "numbering"
    /\ LET pkt == work[s].pkt
           offsets == Offsets(pkt)
           out == [pkt EXCEPT !.seq = Plus(@, offsets[1]), !.ts = Plus(@, offsets[2])]
       IN  /\ rtpInit' = TRUE
           /\ srcSSRC' = pkt.ssrc
           /\ seqOffset' = offsets[1]
           /\ tsOffset' = offsets[2]
           /\ nextSeq' = Plus(out.seq, 1)
           /\ nextTs' = out.ts
           /\ work' = [work EXCEPT ![s] = [doing |-> "writing", pkt |-> out]]
    /\ UNCHANGED <<streams, taken, track>>

\* track.WriteRTP, after rtpMu.Unlock.
WriteTrack(s) ==
    /\ work[s].doing = "writing"
    /\ track' = Append(track, work[s].pkt)
    /\ work' = [work EXCEPT ![s] = Idle]
    /\ UNCHANGED <<streams, taken, numbering>>

Next ==
    \E s \in Stream :
        \/ \E n \in 1 .. Packets : Receive(s, n)
        \/ Renumber(s)
        \/ WriteTrack(s)

Spec == Init /\ [][Next]_vars

-----------------------------------------------------------------------------
(***************************************************************************)
(* Properties.                                                             *)
(***************************************************************************)
Written == {track[i] : i \in 1 .. Len(track)}
InFlight == {s \in Stream : work[s].doing = "writing"}
Numbered == Written \cup {work[s].pkt : s \in InFlight}

\* No two packets reach the browser under the same sequence number: one of
\* them would be dropped as a duplicate, though it is other audio.  ("stay
\* continuous across consecutive SIP calls", main.go:840-842.)
NumbersAreFresh ==
    \A i, j \in 1 .. Len(track) : track[i].seq = track[j].seq => i = j

\* Between any two packets of the track the timestamps are as many frames
\* apart as the sequence numbers are packets apart, splices included.
StampsKeepStep ==
    \A p, q \in Written : Minus(p.seq, q.seq) = Minus(p.ts, q.ts)

\* A packet of another stream was numbered between p and q.
Between(p, q) ==
    \E o \in Numbered : o.ssrc # p.ssrc /\ Minus(o.seq, p.seq) < Minus(q.seq, p.seq)

\* Inside a stream the browser sees every loss: neighbours on the track are
\* as far apart as the PBX sent them, unless a packet of another call has
\* been numbered in between.
LossesStayVisible ==
    \A i \in 1 .. Len(track) - 1 :
        LET p == track[i]
            q == track[i + 1]
        IN  p.ssrc = q.ssrc => Minus(q.seq, p.seq) = Minus(q.n, p.n) \/ Between(p, q)

-----------------------------------------------------------------------------
(***************************************************************************)
(* Why timestamps keep step: the inductive invariant.                      *)
(***************************************************************************)

\* How far the next sequence number is from the next timestamp.
Gap == Minus(nextSeq, Plus(nextTs, 1))

\* A forwarder works on packets of its own call, on the PBX's numbers at first.
WorkIsOwn ==
    \A s \in Stream :
        /\ work[s].doing # "reading" => work[s].pkt.ssrc = s
        /\ work[s].doing = "numbering" =>
              Minus(work[s].pkt.seq, work[s].pkt.ts) = Minus(seqBase[s], tsBase[s])

\* The offsets bring the numbers of the stream they are for to the gap.
OffsetsFit ==
    rtpInit =>
        /\ srcSSRC \in Stream
        /\ Minus(Plus(seqBase[srcSSRC], seqOffset), Plus(tsBase[srcSSRC], tsOffset)) = Gap

\* Whatever was numbered has the gap.
NumberedFit ==
    \A p \in Numbered : rtpInit /\ Minus(p.seq, p.ts) = Gap

\* All of it: inductive for any constants.
SpliceInv == TypeOK /\ WorkIsOwn /\ OffsetsFit /\ NumberedFit

-----------------------------------------------------------------------------
(***************************************************************************)
(* Why numbers are fresh and losses visible, while packets come in order   *)
(* and the streams together are no longer than Modulus.                    *)
(***************************************************************************)

\* The packets of s that were numbered.
Done(s) == IF work[s].doing = "numbering" THEN taken[s] \ {work[s].pkt.n} ELSE taken[s]

\* The packets that were numbered, and those that were lost before them: the
\* numbers given so far are no more than these.
Passed == {sn \in Stream \X (1 .. Packets) : \E m \in Done(sn[1]) : sn[2] <= m}

\* The packet in hand is newer than all that were numbered of its stream, and
\* still has the PBX's number.
WorkIsNext ==
    \A s \in Stream : work[s].doing = "numbering" =>
        LET pkt == work[s].pkt
        IN  /\ pkt.n \in taken[s]
            /\ \A m \in taken[s] \ {pkt.n} : m < pkt.n
            /\ pkt.seq = Plus(seqBase[s], pkt.n)

\* What was numbered has been taken.
NumberedIsDone == \A p \in Numbered : p.n \in Done(p.ssrc)

\* The last packet that was numbered is the newest of its stream, has the
\* number before the next, and the offset in force.
LastIsNumbered ==
    rtpInit =>
        \E r \in Numbered :
            /\ r.ssrc = srcSSRC
            /\ \A m \in Done(srcSSRC) : m <= r.n
            /\ r.seq = Minus(nextSeq, 1)
            /\ r.seq = Plus(Plus(seqBase[srcSSRC], r.n), seqOffset)

\* No number is further back than packets have passed.
NumbersAreBehind ==
    \A p \in Numbered : \E k \in 1 .. Cardinality(Passed) : p.seq = Minus(nextSeq, k)

\* No two packets have the same number.
NumberedDiffer == \A p, q \in Numbered : p.seq = q.seq => p = q

\* A stream is written in order, and what is in flight is newer.
TrackIsInOrder ==
    \A i \in 1 .. Len(track) :
        /\ \A j \in 1 .. Len(track) :
              i < j /\ track[i].ssrc = track[j].ssrc => track[i].n < track[j].n
        /\ \A s \in InFlight : track[i].ssrc = s => track[i].n < work[s].pkt.n

\* LossesStayVisible, for all that was numbered.
LossesAreNumbered ==
    \A p, q \in Numbered :
        p.ssrc = q.ssrc /\ p.n < q.n =>
            Minus(q.seq, p.seq) = Minus(q.n, p.n) \/ Between(p, q)

\* All of it: inductive if InOrder, and if Stream \X (1 .. Packets) has no more
\* members than Modulus.
FreshInv ==
    /\ SpliceInv
    /\ WorkIsNext
    /\ NumberedIsDone
    /\ LastIsNumbered
    /\ NumbersAreBehind
    /\ NumberedDiffer
    /\ TrackIsInOrder
    /\ LossesAreNumbered
===============================================================================
