------------------------------ MODULE PeerLink ------------------------------
(***************************************************************************)
(* Two reliable::Peer objects joined by a UDP path: the sequence/ack       *)
(* bookkeeping of Connection, the two channels of ChannelMux/ChannelDemux, *)
(* and the send and receive paths of Peer that compose them                *)
(* (src/transport/reliable/{connection,channel,peer}.cpp).                 *)
(*                                                                         *)
(* A packet is one datagram here; Reassembly.tla justifies that for the    *)
(* fragmented ones.  When a flush happens is the governor's business: the  *)
(* pacing test of Peer::update is an arbitrary delay, so Flush may happen  *)
(* at any time.                                                            *)
(*                                                                         *)
(* A message is the ordinal of its queue() call.  Its 16-bit id is that    *)
(* ordinal modulo IdSpace: next_id_ is a function of queued.               *)
(***************************************************************************)
EXTENDS SequenceNumbers, FiniteSets

CONSTANTS Peers,        \* the two ends
          IdSpace,      \* number of message ids (65536 in the code)
          MaxReliable,  \* bound: queue_reliable calls, a function of the peer
          MaxUnreliable,\* bound: queue_unreliable calls, a function of the peer
          MaxInFlight   \* bound: datagrams on the wire from each peer

ASSUME LinkAssumption ==
    /\ \E a, b \in Peers : a # b /\ Peers = {a, b}
    /\ IdSpace \in Nat \ {0}
    /\ MaxReliable \in [Peers -> Nat]
    /\ MaxUnreliable \in [Peers -> Nat]
    /\ MaxInFlight \in [Peers -> Nat]

Other(p) == CHOOSE q \in Peers : q # p

VARIABLES
    local_sequence,   \* Connection::local_sequence_
    remote_sequence,  \* Connection::remote_sequence_
    received_any,     \* Connection::received_any_
    received,         \* Connection::received_, the set of slots that are true
    acked,            \* Connection::acked_, the set of slots that are true
    queued,           \* how many reliable messages were queued so far
    unacked,          \* ReliableSender::unacked_, the ordinals still pending
    in_flight,        \* ReliableSender::in_flight_, {} where there is no entry
    seen,             \* ReliableReceiver::seen_, message ids
    uqueued,          \* how many unreliable messages were queued so far
    pending,          \* UnreliableSender::pending_, their ordinals
    net,              \* datagrams the network holds
    delivered         \* history: how often each reliable message of the
                      \* other end was handed to this end's application

connectionVars == <<local_sequence, remote_sequence, received_any, received, acked>>
senderVars     == <<queued, unacked, in_flight>>
unreliableVars == <<uqueued, pending>>
receiverVars   == <<seen, delivered>>
vars == <<connectionVars, senderVars, unreliableVars, receiverVars, net>>

\* The messages a peer may queue, as ordinals, and their ids on the wire.
Messages(p) == 0 .. MaxReliable[p] - 1

MessageId(m) == m % IdSpace

Ids(M) == { MessageId(m) : m \in M }

Packet == [from : Peers, sequence : SequenceNumber, ack : SequenceNumber,
           ack_bits : SUBSET (1 .. AckBits),
           reliable : SUBSET Nat, unreliable : SUBSET Nat]

PacketsFrom(p) == { pkt \in net : pkt.from = p }

Init ==
    /\ local_sequence = [p \in Peers |-> 1]
    /\ remote_sequence = [p \in Peers |-> 0]
    /\ received_any = [p \in Peers |-> FALSE]
    /\ received = [p \in Peers |-> {}]
    /\ acked = [p \in Peers |-> {}]
    /\ queued = [p \in Peers |-> 0]
    /\ unacked = [p \in Peers |-> {}]
    /\ in_flight = [p \in Peers |-> [s \in SequenceNumber |-> {}]]
    /\ seen = [p \in Peers |-> {}]
    /\ uqueued = [p \in Peers |-> 0]
    /\ pending = [p \in Peers |-> {}]
    /\ net = {}
    /\ delivered = [p \in Peers |-> [m \in Messages(Other(p)) |-> 0]]

----------------------------------------------------------------------------
(* Sending *)

\* Peer::queue_reliable
QueueReliable(p) ==
    /\ queued[p] < MaxReliable[p]
    /\ unacked' = [unacked EXCEPT ![p] = @ \union {queued[p]}]
    /\ queued' = [queued EXCEPT ![p] = @ + 1]
    /\ UNCHANGED <<connectionVars, in_flight, unreliableVars, receiverVars, net>>

\* Peer::queue_unreliable
QueueUnreliable(p) ==
    /\ uqueued[p] < MaxUnreliable[p]
    /\ pending' = [pending EXCEPT ![p] = @ \union {uqueued[p]}]
    /\ uqueued' = [uqueued EXCEPT ![p] = @ + 1]
    /\ UNCHANGED <<connectionVars, senderVars, receiverVars, net>>

\* The bits name the offsets k >= 1 below remote_sequence_ whose slot is set.
BuildAckBits(p) ==
    { k \in 1 .. AckBits : Slot(Back(remote_sequence[p], k)) \in received[p] }

\* A mistake: messages the packet before carried are not resent.
NextPacketWithNewsOnly(p) ==
    [from |-> p,
     sequence |-> local_sequence[p],
     ack |-> remote_sequence[p],
     ack_bits |-> BuildAckBits(p),
     reliable |-> { m \in unacked[p] :
                      MessageId(m) \notin in_flight[p][Back(local_sequence[p], 1)] },
     unreliable |-> pending[p]]

\* The header and the two channels' messages of p's next packet: the whole
\* unacknowledged set, and whatever is waiting on the unreliable channel.
NextPacket(p) ==
    [from |-> p,
     sequence |-> local_sequence[p],
     ack |-> remote_sequence[p],
     ack_bits |-> BuildAckBits(p),
     reliable |-> unacked[p],
     unreliable |-> pending[p]]

\* The numbers of p's packets that something in the system still refers to: a
\* datagram or an acknowledgement on the wire, or the other end's newest.
Referenced(p) ==
    { pkt.sequence : pkt \in PacketsFrom(p) }
      \union { pkt.ack : pkt \in PacketsFrom(Other(p)) }
      \union { remote_sequence[Other(p)] }

\* Assumption on the environment: nothing that names a sequence number (a
\* datagram, an acknowledgement, a direction of the path that is down)
\* survives until the 16-bit counter comes round to it again.
NothingOutlivesACycle(p) ==
    \A s \in Referenced(p) : local_sequence[p] \notin Window(s)

\* Peer::update once the governor lets it send: next_header, pack, send_to.
Flush(p) ==
    /\ NothingOutlivesACycle(p)
    /\ Cardinality(PacketsFrom(p)) < MaxInFlight[p]
    /\ net' = net \union {NextPacket(p)}
    /\ acked' = [acked EXCEPT ![p] = @ \ {Slot(local_sequence[p])}]
    /\ in_flight' = [in_flight EXCEPT ![p][local_sequence[p]] =
                                      Ids(NextPacket(p).reliable)]
    /\ local_sequence' = [local_sequence EXCEPT ![p] = NextSeq(@)]
    /\ pending' = [pending EXCEPT ![p] = {}]
    /\ UNCHANGED <<remote_sequence, received_any, received, queued, unacked,
                   uqueued, receiverVars>>

----------------------------------------------------------------------------
(* Receiving *)

\* A mistake: a packet that a later one has overtaken is passed over.
RecordReceivedInOrder(p, sequence) ==
    /\ IF ~received_any[p] \/ SeqGreater(sequence, remote_sequence[p])
         THEN /\ remote_sequence' = [remote_sequence EXCEPT ![p] = sequence]
              /\ received' = [received EXCEPT ![p] = @ \union {Slot(sequence)}]
         ELSE UNCHANGED <<remote_sequence, received>>
    /\ received_any' = [received_any EXCEPT ![p] = TRUE]

\* Connection::record_received: only a newer number moves remote_sequence_;
\* a slot, once set, is never cleared.
RecordReceived(p, sequence) ==
    /\ remote_sequence' =
          IF ~received_any[p] \/ SeqGreater(sequence, remote_sequence[p])
            THEN [remote_sequence EXCEPT ![p] = sequence]
            ELSE remote_sequence
    /\ received' = [received EXCEPT ![p] = @ \union {Slot(sequence)}]
    /\ received_any' = [received_any EXCEPT ![p] = TRUE]

\* A mistake: bit k read as the number k + 1 below the ack.
AckedSlotsShifted(ack, bits) ==
    IF ack = 0 THEN {}
    ELSE {Slot(ack)} \union { Slot(Back(ack, k + 1)) : k \in bits }

\* Connection::process_acks: the slots a header sets; ack 0 says nothing.
AckedSlots(ack, bits) ==
    IF ack = 0 THEN {}
    ELSE {Slot(ack)} \union { Slot(Back(ack, k)) : k \in bits }

\* A mistake: every number whose slot is set, in the window or not.
ScannedAcksAnywhere(ack, slots) == { s \in SequenceNumber : Slot(s) \in slots }

\* Peer::poll's scan of the window: the numbers whose acked_ slot is set.
ScannedAcks(ack, slots) == { s \in Window(ack) : Slot(s) \in slots }

\* A mistake: resends are not recognised.
FreshOrRepeated(p, msgs) ==
    { m \in msgs : \A n \in msgs : n < m => MessageId(n) # MessageId(m) }

\* ReliableReceiver::receive: of the messages in the packet, in queue order,
\* those whose id is not in seen_ yet.
Fresh(p, msgs) ==
    { m \in msgs : /\ MessageId(m) \notin seen[p]
                   /\ \A n \in msgs : n < m => MessageId(n) # MessageId(m) }

\* The application receives the messages M once more each.
HandOver(counts, M) ==
    [m \in DOMAIN counts |-> IF m \in M THEN counts[m] + 1 ELSE counts[m]]

\* Peer::poll for one datagram.  Draining k of them is k such steps: routing
\* comes after the loop but reads and writes nothing the loop does.  The
\* datagram stays in the network, so it may arrive again.
Poll(p, pkt) ==
    LET slots == acked[p] \union AckedSlots(pkt.ack, pkt.ack_bits)
        acks  == ScannedAcks(pkt.ack, slots)
        ids   == UNION { in_flight[p][s] : s \in acks }
        fresh == Fresh(p, pkt.reliable)
    IN  /\ pkt.from = Other(p)
        /\ RecordReceived(p, pkt.sequence)
        /\ acked' = [acked EXCEPT ![p] = slots]
        /\ unacked' = [unacked EXCEPT ![p] = { m \in @ : MessageId(m) \notin ids }]
        /\ in_flight' = [in_flight EXCEPT ![p] =
                            [s \in SequenceNumber |-> IF s \in acks THEN {} ELSE @[s]]]
        /\ seen' = [seen EXCEPT ![p] = @ \union Ids(pkt.reliable)]
        /\ delivered' = [delivered EXCEPT ![p] = HandOver(@, fresh)]
        /\ UNCHANGED <<local_sequence, queued, unreliableVars, net>>

\* The network drops a datagram (or its last copy).
Lose(pkt) ==
    /\ net' = net \ {pkt}
    /\ UNCHANGED <<connectionVars, senderVars, unreliableVars, receiverVars>>

Next ==
    \/ \E p \in Peers : QueueReliable(p)
    \/ \E p \in Peers : QueueUnreliable(p)
    \/ \E p \in Peers : Flush(p)
    \/ \E p \in Peers, pkt \in net : Poll(p, pkt)
    \/ \E pkt \in net : Lose(pkt)

Spec == Init /\ [][Next]_vars

----------------------------------------------------------------------------
TypeOK ==
    /\ local_sequence \in [Peers -> SequenceNumber \ {0}]
    /\ remote_sequence \in [Peers -> SequenceNumber]
    /\ received_any \in [Peers -> BOOLEAN]
    /\ received \in [Peers -> SUBSET (0 .. BufferSize - 1)]
    /\ acked \in [Peers -> SUBSET (0 .. BufferSize - 1)]
    /\ queued \in [Peers -> Nat]
    /\ unacked \in [Peers -> SUBSET Nat]
    /\ in_flight \in [Peers -> [SequenceNumber -> SUBSET Nat]]
    /\ seen \in [Peers -> SUBSET Nat]
    /\ uqueued \in [Peers -> Nat]
    /\ pending \in [Peers -> SUBSET Nat]
    /\ net \subseteq Packet
    /\ DOMAIN delivered = Peers
    /\ \A p \in Peers : delivered[p] \in [Messages(Other(p)) -> Nat]

\* The other end's messages that p's application has been given.
Given(p) == { m \in DOMAIN delivered[p] : delivered[p][m] > 0 }

\* A reliable message the sender has stopped resending was handed to the other
\* end's application: retirement (channel.cpp on_acked) never outruns delivery,
\* although the acks that cause it may be lost, late, repeated or stale.
NoFalseRetire ==
    \A p \in Peers : (0 .. queued[p] - 1) \ unacked[p] \subseteq Given(Other(p))

\* p's messages that wait for an ack and that an ack of packet s would retire.
RetiredBy(p, s) == { m \in unacked[p] : MessageId(m) \in in_flight[p][s] }

\* Why a stale ack bit does no harm: a packet carries every message, still
\* pending, that any of the packets its arrival may acknowledge carried
\* (ReliableSender::pack resends the whole unacked set)...
PacketCoversWindow ==
    \A pkt \in net : \A s \in Window(pkt.sequence) :
        RetiredBy(pkt.from, s) \subseteq pkt.reliable

\* ...so an end that acknowledges a, or has an ack of a on the wire, was given
\* every message that the other end would retire on any bit of that header.
AckedWindowGiven ==
    \A p \in Peers :
        \A a \in {remote_sequence[p]} \union { pkt.ack : pkt \in PacketsFrom(p) } :
            \A s \in Window(a) : RetiredBy(Other(p), s) \subseteq Given(p)

\* The application gets each reliable message at most once, however often the
\* resends and the network repeat it (ReliableReceiver::receive).
AtMostOnce ==
    \A p \in Peers : \A m \in DOMAIN delivered[p] : delivered[p][m] <= 1

\* What the promise calls retired: the messages p queued and no longer resends.
Promise == INSTANCE ReliableDelivery
             WITH retired <- [p \in Peers |-> (0 .. queued[p] - 1) \ unacked[p]]

\* The link implements the reliable channel's promise: a step of the packet
\* machinery is a step of the promise or changes nothing the applications see.
KeepsPromise == Promise!Spec
============================================================================
