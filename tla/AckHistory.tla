----------------------------- MODULE AckHistory -----------------------------
(***************************************************************************)
(* PeerLink with the history that says what an acknowledgement ought to    *)
(* mean: which packets really arrived.  The n-th packet of an end travels  *)
(* under number SequenceOf(n), 0 being skipped on every lap.               *)
(***************************************************************************)
EXTENDS PeerLink, FiniteSetsExt

CONSTANT MaxPackets  \* bound: packets sent, a function of the peer

ASSUME HistoryAssumption == MaxPackets \in [Peers -> Nat]

VARIABLES packets_sent,  \* Peer::packets_sent_
          arrived,       \* history: the other end's packets that arrived here
          leapt          \* history: an arrival was half a cycle off the newest

historyVars == <<vars, packets_sent, arrived, leapt>>

\* The packet of p a datagram with number s is: while nothing outlives a cycle,
\* the last one sent under that number.
PacketOf(p, s) == Max({ n \in 1 .. packets_sent[p] : SequenceOf(n) = s })

Newest(p) == Max({0} \union arrived[p])

HistoryInit ==
    /\ Init
    /\ packets_sent = [p \in Peers |-> 0]
    /\ arrived = [p \in Peers |-> {}]
    /\ leapt = [p \in Peers |-> FALSE]

RecordArrival(p, pkt) ==
    LET n   == PacketOf(Other(p), pkt.sequence)
        gap == IF n > Newest(p) THEN n - Newest(p) ELSE Newest(p) - n
    IN  /\ arrived' = [arrived EXCEPT ![p] = @ \union {n}]
        /\ leapt' = [leapt EXCEPT ![p] = @ \/ (arrived[p] # {} /\ gap >= HalfACycle)]

\* Peer::update sends, and counts the packet.
CountedFlush(p) ==
    /\ packets_sent[p] < MaxPackets[p]
    /\ Flush(p)
    /\ packets_sent' = [packets_sent EXCEPT ![p] = @ + 1]
    /\ UNCHANGED <<arrived, leapt>>

HistoryNext ==
    \/ \E p \in Peers : CountedFlush(p)
    \/ /\ \/ \E p \in Peers : QueueReliable(p) \/ QueueUnreliable(p)
          \/ \E pkt \in net : Lose(pkt)
       /\ UNCHANGED <<packets_sent, arrived, leapt>>
    \/ /\ \E p \in Peers, pkt \in net : Poll(p, pkt) /\ RecordArrival(p, pkt)
       /\ UNCHANGED packets_sent

HistorySpec == HistoryInit /\ [][HistoryNext]_historyVars

----------------------------------------------------------------------------
\* Connection::is_acked
IsAcked(p, s) == Slot(s) \in acked[p]

\* p's packets whose slot of acked_ has not been taken by a later one.
Recent(p) == { n \in 1 .. packets_sent[p] : n + BufferSize > packets_sent[p] }

AcksAreTrue(p) ==
    \A n \in Recent(p) : IsAcked(p, SequenceOf(n)) => n \in arrived[Other(p)]

\* As long as an end has sent no more packets than received_ has slots, it
\* knows exactly that: the rings' first lap is all that the unit test drives.
FirstLapAcksAreTrue ==
    \A p \in Peers : packets_sent[p] <= BufferSize => AcksAreTrue(p)

\* The packet numbers that a header acknowledges (packet.h, PacketHeader).
Acknowledged(pkt) ==
    IF pkt.ack = 0 THEN {}
    ELSE {pkt.ack} \union { Back(pkt.ack, k) : k \in pkt.ack_bits }

\* n is the last of the packets p sent under its number.
HoldsItsNumber(p, n) ==
    n \in 1 .. packets_sent[p] /\ PacketOf(p, SequenceOf(n)) = n

\* A header acknowledges no packet that did not arrive: every number it names
\* was "seen from the peer".
HeadersNameArrivals ==
    \A p \in Peers : \A pkt \in PacketsFrom(p) : \A s \in Acknowledged(pkt) :
        \E n \in arrived[p] : SequenceOf(n) = s /\ HoldsItsNumber(Other(p), n)

\* And it leaves none out: whatever was lost on the way there or back, was
\* overtaken or came twice, an end's next header repeats the acknowledgement of
\* every packet that arrived and whose number is in the header's window.
AcksSurviveLoss ==
    \A p \in Peers : \A n \in arrived[p] :
        /\ HoldsItsNumber(Other(p), n)
        /\ SequenceOf(n) \in Window(remote_sequence[p])
        => SequenceOf(n) \in Acknowledged(NextPacket(p))

\* The number an end acknowledges is the newest that arrived, whatever was
\* lost, repeated or overtaken and however often the numbers wrapped, unless
\* the path once skipped, or held a packet back for, half a cycle.
RemoteSequenceIsNewest ==
    \A p \in Peers :
        arrived[p] # {} /\ ~leapt[p] => remote_sequence[p] = SequenceOf(Newest(p))
=============================================================================
