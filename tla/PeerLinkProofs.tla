--------------------------- MODULE PeerLinkProofs ---------------------------
(***************************************************************************)
(* Proofs about PeerLink for every number of messages and packets, every   *)
(* size of the sequence space, of the rings and of the ack mask: what the  *)
(* link delivers, retires and promises; with the history of AckHistory,    *)
(* what acknowledgements mean, for any number of laps; and that they       *)
(* advance on the link of LinkLiveness.                                    *)
(***************************************************************************)
EXTENDS AckHistory, LinkLiveness, SequenceNumbersProofs

----------------------------------------------------------------------------
(* The link *)

LEMMA OtherPeer ==
    ASSUME NEW p \in Peers
    PROVE  /\ Other(p) \in Peers
           /\ Other(p) # p
           /\ Other(Other(p)) = p
           /\ \A q \in Peers : q = p \/ q = Other(p)
<1>1. PICK a, b \in Peers : a # b /\ Peers = {a, b}
  BY LinkAssumption
<1>2. ASSUME NEW q \in Peers
      PROVE  Other(q) \in Peers /\ Other(q) # q
  <2>1. \E r \in Peers : r # q
    BY <1>1
  <2>2. QED BY <2>1 DEF Other
<1>3. QED BY <1>1, <1>2

LEMMA MessageIdType ==
    ASSUME NEW m \in Nat
    PROVE  MessageId(m) \in Nat
BY LinkAssumption DEF MessageId

\* The slots a header's ack and mask name are slots of the ring.
LEMMA AckedSlotsType ==
    ASSUME NEW ack \in SequenceNumber, NEW bits \in SUBSET (1 .. AckBits)
    PROVE  AckedSlots(ack, bits) \subseteq 0 .. BufferSize - 1
<1>1. ASSUME NEW k \in bits
      PROVE  Slot(Back(ack, k)) \in 0 .. BufferSize - 1
  <2>1. k \in 0 .. AckBits
    BY SeqAssumption
  <2>2. QED BY <2>1, BackType, SlotType
<1>2. Slot(ack) \in 0 .. BufferSize - 1
  BY SlotType
<1>3. QED BY <1>1, <1>2 DEF AckedSlots

LEMMA NextPacketType ==
    ASSUME TypeOK, NEW p \in Peers
    PROVE  NextPacket(p) \in Packet
<1>1. BuildAckBits(p) \subseteq 1 .. AckBits
  BY DEF BuildAckBits
<1>2. QED BY <1>1 DEF TypeOK, NextPacket, Packet

LEMMA TypeInit == Init => TypeOK
<1> SUFFICES ASSUME Init PROVE TypeOK
  OBVIOUS
<1>1. 0 \in SequenceNumber /\ 1 \in SequenceNumber \ {0}
  BY SeqAssumption DEF SequenceNumber
<1>2. QED BY <1>1 DEF Init, TypeOK

LEMMA TypeStep == TypeOK /\ [Next]_vars => TypeOK'
<1> SUFFICES ASSUME TypeOK, [Next]_vars PROVE TypeOK'
  OBVIOUS
<1>1. ASSUME NEW p \in Peers, QueueReliable(p) PROVE TypeOK'
  BY <1>1 DEF TypeOK, QueueReliable, connectionVars, unreliableVars, receiverVars
<1>2. ASSUME NEW p \in Peers, QueueUnreliable(p) PROVE TypeOK'
  BY <1>2 DEF TypeOK, QueueUnreliable, connectionVars, senderVars, receiverVars
<1>3. ASSUME NEW p \in Peers, Flush(p) PROVE TypeOK'
  <2>1. net' \subseteq Packet
    BY <1>3, NextPacketType DEF TypeOK, Flush
  <2>2. local_sequence' \in [Peers -> SequenceNumber \ {0}]
    BY <1>3, NextSeqType DEF TypeOK, Flush
  <2>3. Ids(unacked[p]) \in SUBSET Nat
    BY MessageIdType DEF TypeOK, Ids
  <2>4. in_flight' \in [Peers -> [SequenceNumber -> SUBSET Nat]]
    BY <1>3, <2>3 DEF TypeOK, Flush, NextPacket
  <2>5. QED BY <1>3, <2>1, <2>2, <2>4 DEF TypeOK, Flush, NextPacket, receiverVars
<1>4. ASSUME NEW p \in Peers, NEW pkt \in net, Poll(p, pkt) PROVE TypeOK'
  <2>1. /\ pkt.sequence \in SequenceNumber
        /\ pkt.ack \in SequenceNumber
        /\ pkt.ack_bits \in SUBSET (1 .. AckBits)
        /\ pkt.reliable \in SUBSET Nat
    BY DEF TypeOK, Packet
  <2>2. /\ remote_sequence' \in [Peers -> SequenceNumber]
        /\ received_any' \in [Peers -> BOOLEAN]
        /\ received' \in [Peers -> SUBSET (0 .. BufferSize - 1)]
    BY <1>4, <2>1, SlotType DEF TypeOK, Poll, RecordReceived
  <2>3. acked' \in [Peers -> SUBSET (0 .. BufferSize - 1)]
    BY <1>4, <2>1, AckedSlotsType DEF TypeOK, Poll
  <2>4. unacked' \in [Peers -> SUBSET Nat]
    BY <1>4 DEF TypeOK, Poll
  <2>5. in_flight' \in [Peers -> [SequenceNumber -> SUBSET Nat]]
    BY <1>4 DEF TypeOK, Poll
  <2>6. Ids(pkt.reliable) \in SUBSET Nat
    BY <2>1, MessageIdType DEF Ids
  <2>7. seen' \in [Peers -> SUBSET Nat]
    BY <1>4, <2>6 DEF TypeOK, Poll
  <2>8. /\ DOMAIN delivered' = Peers
        /\ \A q \in Peers : delivered'[q] \in [Messages(Other(q)) -> Nat]
    <3>1. delivered' = [delivered EXCEPT ![p] =
                          HandOver(delivered[p], Fresh(p, pkt.reliable))]
      BY <1>4 DEF Poll
    <3>2. delivered[p] \in [Messages(Other(p)) -> Nat]
      BY DEF TypeOK
    <3>3. HandOver(delivered[p], Fresh(p, pkt.reliable))
            \in [Messages(Other(p)) -> Nat]
      BY <3>2 DEF HandOver
    <3>4. QED BY <3>1, <3>3 DEF TypeOK
  <2>9. QED
    BY <1>4, <2>2, <2>3, <2>4, <2>5, <2>7, <2>8 DEF TypeOK, Poll, unreliableVars
<1>5. ASSUME NEW pkt \in net, Lose(pkt) PROVE TypeOK'
  BY <1>5 DEF TypeOK, Lose, connectionVars, senderVars, unreliableVars, receiverVars
<1>6. CASE UNCHANGED vars
  BY <1>6 DEF TypeOK, vars, connectionVars, senderVars, unreliableVars, receiverVars
<1>7. QED BY <1>1, <1>2, <1>3, <1>4, <1>5, <1>6 DEF Next

\* Every reachable state of the link is well-typed: the counters stay in the
\* 16-bit spaces, 0 is never stamped on a packet, the rings are never indexed
\* out of bounds.
THEOREM TypeCorrect == Spec => []TypeOK
BY TypeInit, TypeStep, PTL DEF Spec

----------------------------------------------------------------------------
(* At most once *)

\* The receiver remembers the id of every message it handed over.
RemembersGiven ==
    \A p \in Peers : \A m \in Messages(Other(p)) :
        /\ delivered[p][m] <= 1
        /\ delivered[p][m] = 1 => MessageId(m) \in seen[p]

LEMMA RemembersStep == TypeOK /\ RemembersGiven /\ [Next]_vars => RemembersGiven'
<1> SUFFICES ASSUME TypeOK, RemembersGiven, [Next]_vars PROVE RemembersGiven'
  OBVIOUS
<1>1. ASSUME UNCHANGED receiverVars PROVE RemembersGiven'
  BY <1>1 DEF RemembersGiven, receiverVars
<1>2. ASSUME NEW p \in Peers, NEW pkt \in net, Poll(p, pkt) PROVE RemembersGiven'
  <2>1. SUFFICES ASSUME NEW q \in Peers, NEW m \in Messages(Other(q))
                 PROVE  /\ delivered'[q][m] <= 1
                        /\ delivered'[q][m] = 1 => MessageId(m) \in seen'[q]
    BY DEF RemembersGiven
  <2>2. CASE q # p
    BY <1>2, <2>2 DEF Poll, TypeOK, RemembersGiven
  <2>3. CASE q = p
    <3>1. delivered[p] \in [Messages(Other(p)) -> Nat]
      BY DEF TypeOK
    <3>2. /\ delivered'[p][m] = IF m \in Fresh(p, pkt.reliable)
                                  THEN delivered[p][m] + 1 ELSE delivered[p][m]
          /\ seen'[p] = seen[p] \union Ids(pkt.reliable)
      BY <1>2, <2>3, <3>1 DEF Poll, TypeOK, HandOver
    <3>3. m \in Fresh(p, pkt.reliable) =>
            MessageId(m) \notin seen[p] /\ MessageId(m) \in Ids(pkt.reliable)
      BY DEF Fresh, Ids
    <3>4. delivered[p][m] \in {0, 1}
      BY <2>3, <3>1 DEF RemembersGiven
    <3>5. QED BY <2>3, <3>2, <3>3, <3>4 DEF RemembersGiven
  <2>4. QED BY <2>2, <2>3
<1>3. QED
  BY <1>1, <1>2 DEF Next, vars, QueueReliable, QueueUnreliable, Flush, Lose

\* The application is handed each reliable message at most once, whatever the
\* network repeats and however the 16-bit ids wrap.
THEOREM AtMostOnceHolds == Spec => []AtMostOnce
<1>1. Init => RemembersGiven
  BY OtherPeer DEF Init, RemembersGiven
<1>2. TypeOK /\ RemembersGiven => AtMostOnce
  BY DEF TypeOK, RemembersGiven, AtMostOnce
<1>3. QED BY <1>1, <1>2, TypeCorrect, RemembersStep, PTL DEF Spec

----------------------------------------------------------------------------
(* Retirement never outruns delivery *)

\* No two messages of an end share an id: what 16 bits are enough for.
IdsSuffice == \A p \in Peers : MaxReliable[p] <= IdSpace

\* Then the id is the ordinal, ids in flight and on the wire are of messages
\* that were queued, and seen_ is what the application was given.
QueuedSoFar(p) == 0 .. queued[p] - 1

IdsAreOrdinals ==
    /\ \A p \in Peers : /\ queued[p] <= MaxReliable[p]
                        /\ unacked[p] \subseteq QueuedSoFar(p)
                        /\ \A s \in SequenceNumber : in_flight[p][s] \subseteq QueuedSoFar(p)
                        /\ seen[p] = Given(p)
    /\ \A pkt \in net : pkt.reliable \subseteq QueuedSoFar(pkt.from)

LEMMA MessageIdIsOrdinal ==
    ASSUME IdsSuffice, NEW p \in Peers, NEW m \in Messages(p)
    PROVE  MessageId(m) = m
BY LinkAssumption DEF IdsSuffice, Messages, MessageId

LEMMA QueuedAreMessages ==
    ASSUME TypeOK, IdsAreOrdinals, NEW p \in Peers
    PROVE  /\ QueuedSoFar(p) \subseteq Messages(p)
           /\ unacked[p] \subseteq Messages(p)
<1>1. /\ queued[p] \in Nat /\ MaxReliable[p] \in Nat /\ queued[p] <= MaxReliable[p]
      /\ unacked[p] \subseteq QueuedSoFar(p)
  BY LinkAssumption DEF TypeOK, IdsAreOrdinals
<1>2. QueuedSoFar(p) \subseteq Messages(p)
  BY <1>1 DEF QueuedSoFar, Messages
<1> QED
  BY <1>1, <1>2

LEMMA IdsOfQueued ==
    ASSUME IdsSuffice, TypeOK, IdsAreOrdinals, NEW p \in Peers,
           NEW M, M \subseteq QueuedSoFar(p)
    PROVE  Ids(M) = M
BY QueuedAreMessages, MessageIdIsOrdinal DEF Ids

\* A datagram's reliable messages, once received, are exactly what is added to
\* what the application has.
LEMMA PollGives ==
    ASSUME IdsSuffice, TypeOK, IdsAreOrdinals,
           NEW p \in Peers, NEW pkt \in net, Poll(p, pkt)
    PROVE  /\ Given(p)' = Given(p) \union pkt.reliable
           /\ seen'[p] = seen[p] \union pkt.reliable
           /\ \A q \in Peers : q # p => Given(q)' = Given(q) /\ seen'[q] = seen[q]
<1>1. /\ Other(p) \in Peers
      /\ pkt.from = Other(p)
      /\ pkt.reliable \subseteq QueuedSoFar(Other(p))
  BY OtherPeer DEF Poll, IdsAreOrdinals
<1>2. pkt.reliable \subseteq Messages(Other(p))
  BY <1>1, QueuedAreMessages
<1>3. \A m \in pkt.reliable : MessageId(m) = m
  BY <1>1, <1>2, MessageIdIsOrdinal
<1>4. Ids(pkt.reliable) = pkt.reliable
  BY <1>3 DEF Ids
<1>5. seen[p] = Given(p)
  BY DEF IdsAreOrdinals
<1>6. Fresh(p, pkt.reliable) = pkt.reliable \ Given(p)
  <2>1. pkt.reliable \subseteq Nat
    BY <1>2 DEF Messages
  <2>2. \A m, n \in pkt.reliable : n < m => MessageId(n) # MessageId(m)
    BY <1>3, <2>1
  <2>3. QED BY <1>3, <1>5, <2>2 DEF Fresh
<1>7. delivered[p] \in [Messages(Other(p)) -> Nat]
  BY DEF TypeOK
<1>8. delivered'[p] = HandOver(delivered[p], pkt.reliable \ Given(p))
  BY <1>6 DEF Poll, TypeOK
<1>9. Given(p)' = Given(p) \union pkt.reliable
  BY <1>2, <1>7, <1>8 DEF Given, HandOver
<1>10. QED BY <1>4, <1>9 DEF Poll, TypeOK, Given

LEMMA OrdinalsStep ==
    ASSUME IdsSuffice, TypeOK, IdsAreOrdinals, [Next]_vars
    PROVE  IdsAreOrdinals'
<1> USE DEF QueuedSoFar
<1>1. ASSUME NEW p \in Peers, QueueReliable(p) PROVE IdsAreOrdinals'
  <2>1. /\ queued' = [queued EXCEPT ![p] = queued[p] + 1]
        /\ queued[p] < MaxReliable[p]
        /\ unacked' = [unacked EXCEPT ![p] = unacked[p] \union {queued[p]}]
        /\ UNCHANGED <<in_flight, seen, delivered, net>>
    BY <1>1 DEF QueueReliable, receiverVars
  <2>2. \A q \in Peers : QueuedSoFar(q) \subseteq QueuedSoFar(q)'
    BY <2>1 DEF TypeOK
  <2>3. \A pkt \in net : pkt.from \in Peers
    BY DEF TypeOK, Packet
  <2>4. \A pkt \in net' : pkt.reliable \subseteq QueuedSoFar(pkt.from)'
    BY <2>1, <2>2, <2>3 DEF IdsAreOrdinals
  <2>5. ASSUME NEW q \in Peers
        PROVE  /\ queued'[q] <= MaxReliable[q]
               /\ unacked'[q] \subseteq QueuedSoFar(q)'
               /\ \A s \in SequenceNumber : in_flight'[q][s] \subseteq QueuedSoFar(q)'
               /\ seen'[q] = Given(q)'
    BY <2>1, <2>2, LinkAssumption DEF TypeOK, IdsAreOrdinals, Given
  <2>6. QED BY <2>4, <2>5 DEF IdsAreOrdinals
<1>2. ASSUME NEW p \in Peers, Flush(p) PROVE IdsAreOrdinals'
  <2>1. /\ net' = net \union {NextPacket(p)}
        /\ in_flight' = [in_flight EXCEPT ![p][local_sequence[p]] = Ids(unacked[p])]
        /\ UNCHANGED <<queued, unacked, seen, delivered>>
    BY <1>2 DEF Flush, NextPacket, receiverVars
  <2>2. Ids(unacked[p]) = unacked[p]
    BY IdsOfQueued DEF IdsAreOrdinals
  <2>3. \A q \in Peers, s \in SequenceNumber :
           in_flight'[q][s] \subseteq in_flight[q][s] \union unacked[q]
    BY <2>1, <2>2 DEF TypeOK
  <2>4. NextPacket(p).reliable = unacked[p] /\ NextPacket(p).from = p
    BY DEF NextPacket
  <2>5. \A pkt \in net' : pkt.reliable \subseteq QueuedSoFar(pkt.from)'
    BY <2>1, <2>4 DEF IdsAreOrdinals
  <2>6. QED BY <2>1, <2>3, <2>5 DEF IdsAreOrdinals, Given
<1>3. ASSUME NEW p \in Peers, NEW pkt \in net, Poll(p, pkt) PROVE IdsAreOrdinals'
  <2>1. \A q \in Peers : seen'[q] = Given(q)'
    BY <1>3, PollGives DEF IdsAreOrdinals
  <2>2. \A q \in Peers : /\ unacked'[q] \subseteq unacked[q]
                         /\ \A s \in SequenceNumber : in_flight'[q][s] \subseteq in_flight[q][s]
    BY <1>3 DEF Poll, TypeOK
  <2>3. UNCHANGED <<queued, net>>
    BY <1>3 DEF Poll
  <2>4. QED BY <2>1, <2>2, <2>3 DEF IdsAreOrdinals
<1>4. ASSUME UNCHANGED <<queued, unacked, in_flight, seen, delivered>>, net' \subseteq net
      PROVE  IdsAreOrdinals'
  BY <1>4 DEF IdsAreOrdinals, Given
<1>5. ASSUME NEW p \in Peers, QueueUnreliable(p) PROVE IdsAreOrdinals'
  BY <1>4, <1>5 DEF QueueUnreliable, senderVars, receiverVars
<1>6. ASSUME NEW pkt \in net, Lose(pkt) PROVE IdsAreOrdinals'
  BY <1>4, <1>6 DEF Lose, senderVars, receiverVars
<1>7. CASE UNCHANGED vars
  BY <1>4, <1>7 DEF vars, senderVars, receiverVars
<1>8. QED BY <1>1, <1>2, <1>3, <1>5, <1>6, <1>7 DEF Next

\* The two halves of the argument for a stale bit, and what they protect.
Covered ==
    /\ PacketCoversWindow
    /\ AckedWindowGiven
    /\ NoFalseRetire

\* What an ack can retire only shrinks, except for the packet being sent.
LEMMA RetiredByShrinks ==
    ASSUME TypeOK, NEW p \in Peers, NEW s \in SequenceNumber,
           unacked'[p] \subseteq unacked[p],
           in_flight'[p][s] \subseteq in_flight[p][s]
    PROVE  RetiredBy(p, s)' \subseteq RetiredBy(p, s)
BY DEF RetiredBy

LEMMA WindowType ==
    ASSUME NEW a \in SequenceNumber
    PROVE  Window(a) \subseteq SequenceNumber
BY BackType DEF Window

\* A step that sends nothing, after which acks can retire no more than before
\* and the applications have lost nothing, keeps the cover.
LEMMA CoveredByShrinking ==
    ASSUME TypeOK, Covered,
           net' \subseteq net,
           UNCHANGED remote_sequence,
           \A p \in Peers : /\ Given(p) \subseteq Given(p)'
                            /\ \A s \in SequenceNumber :
                                  RetiredBy(p, s)' \subseteq RetiredBy(p, s)
    PROVE  PacketCoversWindow' /\ AckedWindowGiven'
<1>1. \A pkt \in net : /\ pkt.from \in Peers
                       /\ Window(pkt.sequence) \subseteq SequenceNumber
                       /\ Window(pkt.ack) \subseteq SequenceNumber
  BY WindowType DEF TypeOK, Packet
<1>2. PacketCoversWindow'
  BY <1>1 DEF Covered, PacketCoversWindow
<1>3. ASSUME NEW p \in Peers,
             NEW a \in {remote_sequence'[p]} \union { pkt.ack : pkt \in PacketsFrom(p)' },
             NEW s \in Window(a)
      PROVE  RetiredBy(Other(p), s)' \subseteq Given(p)'
  <2>1. a \in {remote_sequence[p]} \union { pkt.ack : pkt \in PacketsFrom(p) }
    BY DEF PacketsFrom
  <2>2. RetiredBy(Other(p), s) \subseteq Given(p)
    BY <2>1 DEF Covered, AckedWindowGiven
  <2>3. a \in SequenceNumber
    BY <2>1 DEF TypeOK, Packet, PacketsFrom
  <2>4. s \in SequenceNumber
    BY <2>3, WindowType
  <2>5. QED BY <2>2, <2>4, OtherPeer
<1>4. QED BY <1>2, <1>3 DEF AckedWindowGiven

LEMMA CoveredQueue ==
    ASSUME IdsSuffice, TypeOK, IdsAreOrdinals, Covered,
           NEW p \in Peers, QueueReliable(p)
    PROVE  Covered'
<1>1. /\ queued[p] < MaxReliable[p]
      /\ unacked' = [unacked EXCEPT ![p] = unacked[p] \union {queued[p]}]
      /\ queued' = [queued EXCEPT ![p] = queued[p] + 1]
      /\ UNCHANGED <<in_flight, delivered, net, remote_sequence>>
  BY DEF QueueReliable, connectionVars, receiverVars
<1>2. MessageId(queued[p]) = queued[p]
  <2>1. queued[p] \in Messages(p)
    BY <1>1, LinkAssumption DEF TypeOK, Messages
  <2>2. QED BY <2>1, MessageIdIsOrdinal
<1>3. ASSUME NEW q \in Peers, NEW s \in SequenceNumber
      PROVE  RetiredBy(q, s)' \subseteq RetiredBy(q, s)
  <2>1. queued[q] \notin in_flight[q][s]
    BY DEF TypeOK, IdsAreOrdinals, QueuedSoFar
  <2>2. QED BY <1>1, <1>2, <2>1 DEF TypeOK, RetiredBy
<1>4. \A q \in Peers : Given(q)' = Given(q)
  BY <1>1 DEF Given
<1>5. PacketCoversWindow' /\ AckedWindowGiven'
  BY <1>1, <1>3, <1>4, CoveredByShrinking
<1>6. NoFalseRetire'
  BY <1>1, <1>4, OtherPeer DEF TypeOK, Covered, NoFalseRetire
<1>7. QED BY <1>5, <1>6 DEF Covered

LEMMA CoveredFlush ==
    ASSUME IdsSuffice, TypeOK, IdsAreOrdinals, Covered,
           NEW p \in Peers, Flush(p)
    PROVE  Covered'
<1>1. /\ net' = net \union {NextPacket(p)}
      /\ in_flight' = [in_flight EXCEPT ![p][local_sequence[p]] = Ids(unacked[p])]
      /\ UNCHANGED <<remote_sequence, queued, unacked, delivered>>
      /\ NothingOutlivesACycle(p)
  BY DEF Flush, NextPacket, receiverVars
<1>2. ASSUME NEW q \in Peers, NEW s \in SequenceNumber, q # p \/ s # local_sequence[p]
      PROVE  RetiredBy(q, s)' = RetiredBy(q, s)
  BY <1>1, <1>2 DEF TypeOK, RetiredBy
<1>3. \A q \in Peers : Given(q)' = Given(q)
  BY <1>1 DEF Given
<1>4. /\ NextPacket(p).from = p
      /\ NextPacket(p).ack = remote_sequence[p]
      /\ NextPacket(p).reliable = unacked[p]
  BY DEF NextPacket
<1>5. ASSUME NEW pkt \in net', NEW s \in Window(pkt.sequence)
      PROVE  RetiredBy(pkt.from, s)' \subseteq pkt.reliable
  <2>1. CASE pkt = NextPacket(p)
    BY <1>1, <1>4, <2>1 DEF RetiredBy
  <2>2. CASE pkt \in net
    <3>1. pkt.from \in Peers /\ s \in SequenceNumber
      BY <2>2, WindowType DEF TypeOK, Packet
    <3>2. pkt.from # p \/ s # local_sequence[p]
      BY <1>1, <2>2 DEF NothingOutlivesACycle, Referenced, PacketsFrom
    <3>3. QED BY <1>2, <2>2, <3>1, <3>2 DEF Covered, PacketCoversWindow
  <2>3. QED BY <1>1, <2>1, <2>2
<1>6. ASSUME NEW q \in Peers,
             NEW a \in {remote_sequence'[q]} \union { pkt.ack : pkt \in PacketsFrom(q)' },
             NEW s \in Window(a)
      PROVE  RetiredBy(Other(q), s)' \subseteq Given(q)'
  <2>1. a \in {remote_sequence[q]} \union { pkt.ack : pkt \in PacketsFrom(q) }
    BY <1>1, <1>4 DEF PacketsFrom
  <2>2. a \in SequenceNumber
    BY <2>1 DEF TypeOK, Packet, PacketsFrom
  <2>3. s \in SequenceNumber
    BY <2>2, WindowType
  <2>4. Other(q) # p \/ s # local_sequence[p]
    <3>1. SUFFICES ASSUME Other(q) = p PROVE s # local_sequence[p]
      OBVIOUS
    <3>2. q = Other(p)
      BY <3>1, OtherPeer
    <3>3. a \in Referenced(p)
      BY <2>1, <3>2 DEF Referenced
    <3>4. QED BY <1>1, <3>3 DEF NothingOutlivesACycle
  <2>5. RetiredBy(Other(q), s)' = RetiredBy(Other(q), s)
    BY <1>2, <2>3, <2>4, OtherPeer
  <2>6. QED BY <1>3, <2>1, <2>5 DEF Covered, AckedWindowGiven
<1>7. NoFalseRetire'
  BY <1>1, <1>3, OtherPeer DEF Covered, NoFalseRetire
<1>8. QED BY <1>5, <1>6, <1>7 DEF Covered, PacketCoversWindow, AckedWindowGiven

LEMMA CoveredPoll ==
    ASSUME IdsSuffice, TypeOK, IdsAreOrdinals, Covered,
           NEW p \in Peers, NEW pkt \in net, Poll(p, pkt)
    PROVE  Covered'
<1>1. /\ pkt.from = Other(p)
      /\ pkt.sequence \in SequenceNumber
      /\ UNCHANGED <<queued, net>>
  BY DEF Poll, TypeOK, Packet
<1>2. ASSUME NEW q \in Peers, NEW s \in SequenceNumber
      PROVE  RetiredBy(q, s)' \subseteq RetiredBy(q, s)
  <2>1. unacked'[q] \subseteq unacked[q] /\ in_flight'[q][s] \subseteq in_flight[q][s]
    BY DEF Poll, TypeOK
  <2>2. QED BY <2>1, RetiredByShrinks
<1>3. \A q \in Peers : Given(q) \subseteq Given(q)'
  BY PollGives
<1>4. PacketCoversWindow'
  <2>1. \A k \in net : k.from \in Peers /\ Window(k.sequence) \subseteq SequenceNumber
    BY WindowType DEF TypeOK, Packet
  <2>2. QED BY <1>1, <1>2, <2>1 DEF Covered, PacketCoversWindow
<1>5. ASSUME NEW q \in Peers,
             NEW a \in {remote_sequence'[q]} \union { k.ack : k \in PacketsFrom(q)' },
             NEW s \in Window(a)
      PROVE  RetiredBy(Other(q), s)' \subseteq Given(q)'
  <2>1. CASE a \in {remote_sequence[q]} \union { k.ack : k \in PacketsFrom(q) }
    <3>1. a \in SequenceNumber
      BY <2>1 DEF TypeOK, Packet, PacketsFrom
    <3>2. s \in SequenceNumber
      BY <3>1, WindowType
    <3>3. QED BY <1>2, <1>3, <2>1, <3>2, OtherPeer DEF Covered, AckedWindowGiven
  <2>2. CASE q = p /\ a = pkt.sequence
    <3>1. s \in SequenceNumber
      BY <1>1, <2>2, WindowType
    <3>2. RetiredBy(Other(p), s) \subseteq pkt.reliable
      BY <1>1, <2>2 DEF Covered, PacketCoversWindow
    <3>3. QED BY <1>2, <2>2, <3>1, <3>2, PollGives, OtherPeer
  <2>3. \/ remote_sequence'[q] = remote_sequence[q]
        \/ q = p /\ remote_sequence'[q] = pkt.sequence
    BY DEF Poll, RecordReceived, TypeOK
  <2>4. PacketsFrom(q)' = PacketsFrom(q)
    BY <1>1 DEF PacketsFrom
  <2>5. QED BY <2>1, <2>2, <2>3, <2>4
<1>6. NoFalseRetire'
  <2>1. ASSUME NEW m \in unacked[p], m \notin unacked'[p]
        PROVE  m \in Given(Other(p))
    <3>1. PICK s \in Window(pkt.ack) : MessageId(m) \in in_flight[p][s]
      BY <2>1 DEF Poll, TypeOK, ScannedAcks
    <3>2. m \in RetiredBy(p, s)
      BY <3>1 DEF RetiredBy
    <3>3. pkt \in PacketsFrom(Other(p))
      BY <1>1 DEF PacketsFrom
    <3>4. QED BY <3>1, <3>2, <3>3, OtherPeer DEF Covered, AckedWindowGiven
  <2>2. \A q \in Peers : q # p => unacked'[q] = unacked[q]
    BY DEF Poll, TypeOK
  <2>3. QED BY <1>1, <1>3, <2>1, <2>2, OtherPeer DEF Covered, NoFalseRetire
<1>7. QED BY <1>4, <1>5, <1>6 DEF Covered, AckedWindowGiven

LEMMA CoveredStep ==
    ASSUME IdsSuffice, TypeOK, IdsAreOrdinals, Covered, [Next]_vars
    PROVE  Covered'
<1>1. ASSUME UNCHANGED <<remote_sequence, queued, unacked, in_flight, delivered>>,
             net' \subseteq net
      PROVE  Covered'
  <2>1. \A q \in Peers : /\ Given(q) \subseteq Given(q)'
                         /\ \A s \in SequenceNumber :
                               RetiredBy(q, s)' \subseteq RetiredBy(q, s)
    BY <1>1 DEF Given, RetiredBy
  <2>2. NoFalseRetire'
    BY <1>1 DEF Covered, NoFalseRetire, Given
  <2>3. QED BY <1>1, <2>1, <2>2, CoveredByShrinking DEF Covered
<1>2. ASSUME NEW p \in Peers, QueueUnreliable(p) PROVE Covered'
  BY <1>1, <1>2 DEF QueueUnreliable, connectionVars, senderVars, receiverVars
<1>3. ASSUME NEW pkt \in net, Lose(pkt) PROVE Covered'
  BY <1>1, <1>3 DEF Lose, connectionVars, senderVars, receiverVars
<1>4. CASE UNCHANGED vars
  BY <1>1, <1>4 DEF vars, connectionVars, senderVars, receiverVars
<1>5. QED
  BY <1>2, <1>3, <1>4, CoveredQueue, CoveredFlush, CoveredPoll DEF Next

LEMMA CoveredInit == Init => IdsAreOrdinals /\ Covered
<1> SUFFICES ASSUME Init PROVE IdsAreOrdinals /\ Covered
  OBVIOUS
<1>1. \A p \in Peers : Given(p) = {}
  BY DEF Init, Given
<1>2. IdsAreOrdinals
  BY <1>1, LinkAssumption DEF Init, IdsAreOrdinals, QueuedSoFar
<1>3. \A p \in Peers : \A s \in SequenceNumber : RetiredBy(p, s) = {}
  BY DEF Init, RetiredBy
<1>4. PacketCoversWindow /\ NoFalseRetire
  BY DEF Init, PacketCoversWindow, NoFalseRetire
<1>5. AckedWindowGiven
  <2>1. 0 \in SequenceNumber
    BY SeqAssumption DEF SequenceNumber
  <2>2. \A p \in Peers : PacketsFrom(p) = {} /\ remote_sequence[p] = 0
    BY DEF Init, PacketsFrom
  <2>3. QED BY <1>3, <2>1, <2>2, WindowType, OtherPeer DEF AckedWindowGiven
<1>6. QED BY <1>2, <1>4, <1>5 DEF Covered

\* The inductive argument: while ids do not wrap, a packet carries every message
\* its acks could retire and every window a header acknowledges has been handed
\* over, so ids are ordinals and the three parts of Covered hold together.
THEOREM CoverHolds ==
    ASSUME IdsSuffice
    PROVE  Spec => [](IdsAreOrdinals /\ Covered)
<1>1. Init => IdsAreOrdinals /\ Covered
  BY CoveredInit
<1>2. TypeOK /\ IdsAreOrdinals /\ Covered /\ [Next]_vars => (IdsAreOrdinals /\ Covered)'
  BY OrdinalsStep, CoveredStep
<1>3. QED BY <1>1, <1>2, TypeCorrect, PTL DEF Spec

\* While the ids of an end do not wrap, a message is retired only after the
\* other end's application has it: neither a stale bit of received_ nor a lost,
\* late or repeated ack can make the sender give up a message that was lost.
THEOREM NoFalseRetireHolds ==
    ASSUME IdsSuffice
    PROVE  Spec => []NoFalseRetire
<1>1. Covered => NoFalseRetire
  BY DEF Covered
<1>2. QED BY <1>1, CoverHolds, PTL

\* Every packet in flight carries all that was unacknowledged when the packets
\* its number is acknowledged with went out: ChannelMux::pack resends the whole
\* set.
THEOREM PacketCoversWindowHolds ==
    ASSUME IdsSuffice
    PROVE  Spec => []PacketCoversWindow
<1>1. Covered => PacketCoversWindow
  BY DEF Covered
<1>2. QED BY <1>1, CoverHolds, PTL

\* What a header on the wire or an end's next header acknowledges, bit by bit,
\* may retire only messages that end's application has: build_ack_bits may name
\* packets that never came, but none whose messages are missing.
THEOREM AckedWindowGivenHolds ==
    ASSUME IdsSuffice
    PROVE  Spec => []AckedWindowGiven
<1>1. Covered => AckedWindowGiven
  BY DEF Covered
<1>2. QED BY <1>1, CoverHolds, PTL

----------------------------------------------------------------------------
(* The link implements the promise *)

LEMMA PromiseQueue ==
    ASSUME TypeOK, IdsAreOrdinals, NEW p \in Peers, QueueReliable(p)
    PROVE  Promise!Queue(p)
<1>1. /\ queued[p] < MaxReliable[p]
      /\ unacked' = [unacked EXCEPT ![p] = unacked[p] \union {queued[p]}]
      /\ queued' = [queued EXCEPT ![p] = queued[p] + 1]
      /\ UNCHANGED delivered
  BY DEF QueueReliable, receiverVars
<1>2. ASSUME NEW q \in Peers
      PROVE  (0 .. queued'[q] - 1) \ unacked'[q] = (0 .. queued[q] - 1) \ unacked[q]
  BY <1>1 DEF TypeOK, IdsAreOrdinals, QueuedSoFar
<1>3. QED BY <1>1, <1>2 DEF Promise!Queue

LEMMA PromiseHear ==
    ASSUME IdsSuffice, TypeOK, IdsAreOrdinals, IdsAreOrdinals', Covered',
           NEW p \in Peers, NEW pkt \in net, Poll(p, pkt)
    PROVE  \E M \in SUBSET Promise!Messages(Promise!Other(p)),
              R \in SUBSET Promise!Messages(p) : Promise!Hear(p, M, R)
<1> DEFINE M == Fresh(p, pkt.reliable)
           R == unacked[p] \ unacked'[p]
<1>1. /\ Promise!Other(p) = Other(p)
      /\ Promise!Messages(p) = Messages(p)
      /\ Promise!Messages(Other(p)) = Messages(Other(p))
  BY DEF Promise!Other, Other, Promise!Messages, Messages
<1>2. /\ pkt.from = Other(p)
      /\ pkt.reliable \subseteq QueuedSoFar(Other(p))
      /\ UNCHANGED queued
      /\ delivered' = [delivered EXCEPT ![p] = HandOver(delivered[p], M)]
      /\ \A q \in Peers : q # p => unacked'[q] = unacked[q]
      /\ unacked'[p] \subseteq unacked[p]
  BY DEF Poll, IdsAreOrdinals, TypeOK
<1>3. M \subseteq { m \in 0 .. queued[Other(p)] - 1 : delivered[p][m] = 0 }
  <2>1. M \subseteq pkt.reliable /\ M \intersect Given(p) = {}
    <3>1. \A m \in pkt.reliable : MessageId(m) = m
      BY <1>2, QueuedAreMessages, MessageIdIsOrdinal, OtherPeer
    <3>2. seen[p] = Given(p)
      BY DEF IdsAreOrdinals
    <3>3. QED BY <3>1, <3>2 DEF Fresh
  <2>2. /\ delivered[p] \in [Messages(Other(p)) -> Nat]
        /\ QueuedSoFar(Other(p)) \subseteq Messages(Other(p))
    BY QueuedAreMessages, OtherPeer DEF TypeOK
  <2>3. QED BY <1>2, <2>1, <2>2 DEF Given, QueuedSoFar
<1>4. R \subseteq { m \in 0 .. queued[p] - 1 : delivered[Other(p)][m] > 0 }
  <2>1. R \subseteq QueuedSoFar(p)
    BY DEF IdsAreOrdinals
  <2>2. R \subseteq Given(Other(p))'
    BY <1>2, <2>1 DEF Covered, NoFalseRetire, QueuedSoFar
  <2>3. Given(Other(p))' = Given(Other(p))
    BY OtherPeer, PollGives
  <2>4. QED BY <2>1, <2>2, <2>3 DEF Given, QueuedSoFar
<1>5. [q \in Peers |-> (0 .. queued'[q] - 1) \ unacked'[q]] =
        [[q \in Peers |-> (0 .. queued[q] - 1) \ unacked[q]]
           EXCEPT ![p] = @ \union R]
  BY <1>2 DEF IdsAreOrdinals, QueuedSoFar
<1>6. M \in SUBSET Messages(Other(p)) /\ R \in SUBSET Messages(p)
  BY <1>3, <1>4, QueuedAreMessages, OtherPeer DEF QueuedSoFar
<1>7. Promise!Hear(p, M, R)
  BY <1>1, <1>2, <1>3, <1>4, <1>5 DEF Promise!Hear, HandOver
<1>8. /\ M \in SUBSET Promise!Messages(Promise!Other(p))
      /\ R \in SUBSET Promise!Messages(p)
  BY <1>1, <1>6
<1> HIDE DEF M, R
<1>9. QED BY <1>7, <1>8 DEF Promise!Hear

\* The packet machinery implements the reliable channel's promise while ids do
\* not wrap: every step of it is a step of the promise or a stutter.
THEOREM LinkKeepsPromise ==
    ASSUME IdsSuffice
    PROVE  Spec => KeepsPromise
<1>1. Init => Promise!Init
  <2>1. \A p \in Peers : Promise!Messages(Promise!Other(p)) = Messages(Other(p))
    BY DEF Promise!Other, Other, Promise!Messages, Messages
  <2>2. QED BY <2>1, LinkAssumption DEF Init, Promise!Init
<1>2. TypeOK /\ IdsAreOrdinals /\ IdsAreOrdinals' /\ Covered' /\ [Next]_vars
        => [Promise!Next]_Promise!vars
  <2> SUFFICES ASSUME TypeOK, IdsAreOrdinals, IdsAreOrdinals', Covered', [Next]_vars
               PROVE  [Promise!Next]_Promise!vars
    OBVIOUS
  <2>1. ASSUME UNCHANGED <<queued, unacked, delivered>>
        PROVE  [Promise!Next]_Promise!vars
    BY <2>1 DEF Promise!vars
  <2>2. ASSUME NEW p \in Peers, QueueReliable(p) PROVE [Promise!Next]_Promise!vars
    BY <2>2, PromiseQueue DEF Promise!Next
  <2>3. ASSUME NEW p \in Peers, NEW pkt \in net, Poll(p, pkt)
        PROVE  [Promise!Next]_Promise!vars
    BY <2>3, PromiseHear DEF Promise!Next
  <2>4. QED
    BY <2>1, <2>2, <2>3
    DEF Next, vars, QueueUnreliable, Flush, Lose, senderVars, receiverVars
<1>3. QED
  BY <1>1, <1>2, TypeCorrect, CoverHolds, PTL
  DEF Spec, KeepsPromise, Promise!Spec

----------------------------------------------------------------------------
(* The history of packets and acknowledgements *)

\* A step of the history is a step of the link, or none of its business.
LEMMA HistoryStepIsLinkStep == [HistoryNext]_historyVars => [Next]_vars
BY DEF HistoryNext, historyVars, CountedFlush, Next

\* The history records and bounds: whatever is proved of the link holds of it.
THEOREM HistoryImplementsLink == HistorySpec => Spec
<1>1. HistoryInit => Init
  BY DEF HistoryInit
<1> QED
  BY <1>1, HistoryStepIsLinkStep, PTL DEF HistorySpec, Spec

LEMMA HistoryTypeCorrect == HistorySpec => []TypeOK
BY HistoryImplementsLink, TypeCorrect, PTL

----------------------------------------------------------------------------
(* The history *)

\* What Max is, of a set that has one.
LEMMA MaxIs ==
    ASSUME NEW S \in SUBSET Nat, NEW m \in S, \A k \in S : k <= m
    PROVE  Max(S) = m
<1>1. \A x \in S : (\A k \in S : x >= k) <=> x = m
  OBVIOUS
<1>2. \E x : x \in S /\ \A k \in S : x >= k
  BY <1>1
<1>3. Max(S) \in S /\ \A k \in S : Max(S) >= k
  BY <1>2 DEF Max
<1> QED
  BY <1>1, <1>3

\* Packets are numbered as they are sent, and nothing arrives that was not.
Numbered ==
    /\ packets_sent \in [Peers -> Nat]
    /\ arrived \in [Peers -> SUBSET Nat]
    /\ leapt \in [Peers -> BOOLEAN]
    /\ \A p \in Peers :
         /\ local_sequence[p] = SequenceOf(packets_sent[p] + 1)
         /\ arrived[p] \subseteq 1 .. packets_sent[Other(p)]
    /\ \A pkt \in net :
         \E n \in 1 .. packets_sent[pkt.from] : SequenceOf(n) = pkt.sequence

LEMMA PacketOfIsSent ==
    ASSUME TypeOK, Numbered, NEW pkt \in net
    PROVE  /\ PacketOf(pkt.from, pkt.sequence) \in 1 .. packets_sent[pkt.from]
           /\ SequenceOf(PacketOf(pkt.from, pkt.sequence)) = pkt.sequence
<1> DEFINE N == packets_sent[pkt.from]
           S == { n \in 1 .. N : SequenceOf(n) = pkt.sequence }
<1>1. N \in Nat /\ S # {} /\ S \subseteq 0 .. N
  <2>1. N \in Nat /\ pkt.from \in Peers
    BY DEF Numbered, TypeOK, Packet
  <2>2. S # {}
    BY DEF Numbered
  <2>3. S \subseteq 0 .. N
    BY <2>1
  <2> QED
    BY <2>1, <2>2, <2>3
<1>2. PICK m \in S : \A k \in S : k <= m
  <2> HIDE DEF N, S
  <2> QED
    BY <1>1, GreatestElement
<1>3. Max(S) = m
  BY <1>1, <1>2, MaxIs
<1> QED
  BY <1>3 DEF PacketOf

LEMMA NewestIsGreatest ==
    ASSUME Numbered, NEW p \in Peers
    PROVE  /\ Newest(p) \in {0} \union arrived[p]
           /\ Newest(p) \in Nat
           /\ \A k \in arrived[p] : k <= Newest(p)
<1> DEFINE N == packets_sent[Other(p)]
           S == {0} \union arrived[p]
<1>1. N \in Nat /\ S # {} /\ S \subseteq 0 .. N
  BY OtherPeer DEF Numbered
<1>2. PICK m \in S : \A k \in S : k <= m
  BY <1>1, GreatestElement
<1>3. Max(S) = m
  BY <1>1, <1>2, MaxIs
<1> QED
  BY <1>1, <1>2, <1>3 DEF Newest

LEMMA NumberedInit == HistoryInit => Numbered
<1> SUFFICES ASSUME HistoryInit PROVE Numbered
  OBVIOUS
<1> QED
  BY SequenceOfFirst DEF HistoryInit, Init, Numbered

LEMMA NumberedStep == TypeOK /\ Numbered /\ [HistoryNext]_historyVars => Numbered'
<1> SUFFICES ASSUME TypeOK, Numbered, [HistoryNext]_historyVars PROVE Numbered'
  OBVIOUS
<1>1. ASSUME NEW p \in Peers, CountedFlush(p) PROVE Numbered'
  <2>1. /\ packets_sent' = [packets_sent EXCEPT ![p] = packets_sent[p] + 1]
        /\ local_sequence' = [local_sequence EXCEPT ![p] = NextSeq(local_sequence[p])]
        /\ net' = net \union {NextPacket(p)}
        /\ UNCHANGED <<arrived, leapt>>
    BY <1>1 DEF CountedFlush, Flush
  <2>2. packets_sent[p] \in Nat /\ packets_sent[p] + 1 \in Nat \ {0}
    BY DEF Numbered
  <2>3. NextPacket(p).from = p /\ NextPacket(p).sequence = SequenceOf(packets_sent[p] + 1)
    BY DEF NextPacket, Numbered
  <2>4. NextSeq(local_sequence[p]) = SequenceOf((packets_sent[p] + 1) + 1)
    BY <2>2, SequenceOfType DEF Numbered
  <2>5. ASSUME NEW q \in Peers
        PROVE  /\ local_sequence'[q] = SequenceOf(packets_sent'[q] + 1)
               /\ arrived'[q] \subseteq 1 .. packets_sent'[Other(q)]
    BY <2>1, <2>2, <2>4, OtherPeer DEF Numbered, TypeOK
  <2>6. ASSUME NEW pkt \in net'
        PROVE  \E n \in 1 .. packets_sent'[pkt.from] : SequenceOf(n) = pkt.sequence
    <3>1. CASE pkt \in net
      <4>1. pkt.from \in Peers
        BY <3>1 DEF TypeOK, Packet
      <4> QED
        BY <2>1, <2>2, <3>1, <4>1 DEF Numbered
    <3>2. CASE pkt = NextPacket(p)
      <4>1. packets_sent'[p] = packets_sent[p] + 1
        BY <2>1 DEF Numbered
      <4> QED
        BY <2>2, <2>3, <3>2, <4>1
    <3> QED
      BY <2>1, <3>1, <3>2
  <2> QED
    BY <2>1, <2>2, <2>5, <2>6 DEF Numbered
<1>2. ASSUME NEW p \in Peers, NEW pkt \in net, Poll(p, pkt), RecordArrival(p, pkt),
             UNCHANGED packets_sent
      PROVE  Numbered'
  <2>1. pkt.from = Other(p) /\ UNCHANGED <<local_sequence, net>>
    BY <1>2 DEF Poll
  <2>2. PacketOf(Other(p), pkt.sequence) \in 1 .. packets_sent[Other(p)]
    BY <2>1, PacketOfIsSent
  <2>3. /\ arrived' = [arrived EXCEPT ![p] =
                         arrived[p] \union {PacketOf(Other(p), pkt.sequence)}]
        /\ leapt' \in [Peers -> BOOLEAN]
    BY <1>2 DEF RecordArrival, Numbered
  <2> QED
    BY <1>2, <2>1, <2>2, <2>3, OtherPeer DEF Numbered
<1>3. ASSUME UNCHANGED <<packets_sent, arrived, leapt, local_sequence>>,
             net' \subseteq net
      PROVE  Numbered'
  BY <1>3 DEF Numbered
<1>4. CASE UNCHANGED historyVars
  BY <1>3, <1>4 DEF historyVars, vars, connectionVars
<1> QED
  BY <1>1, <1>2, <1>3, <1>4
     DEF HistoryNext, QueueReliable, QueueUnreliable, Lose, connectionVars

LEMMA NumberedCorrect == HistorySpec => []Numbered
BY NumberedInit, NumberedStep, HistoryTypeCorrect, PTL DEF HistorySpec

\* Recording an arrival moves the newest, or leaves it.
LEMMA NewestAfter ==
    ASSUME TypeOK, Numbered, Numbered',
           NEW p \in Peers, NEW pkt \in net, Poll(p, pkt), RecordArrival(p, pkt)
    PROVE  LET n == PacketOf(Other(p), pkt.sequence)
           IN  /\ n \in Nat \ {0}
               /\ arrived' = [arrived EXCEPT ![p] = arrived[p] \union {n}]
               /\ Newest(p)' = IF n > Newest(p) THEN n ELSE Newest(p)
<1> DEFINE n == PacketOf(Other(p), pkt.sequence)
<1>1. pkt.from = Other(p)
  BY DEF Poll
<1>2. n \in Nat \ {0}
  BY <1>1, PacketOfIsSent, OtherPeer DEF Numbered
<1>3. arrived' = [arrived EXCEPT ![p] = arrived[p] \union {n}]
  BY DEF RecordArrival
<1> HIDE DEF n
<1>4. arrived'[p] = arrived[p] \union {n}
  BY <1>3 DEF Numbered
<1>5. /\ Newest(p) \in {0} \union arrived[p] /\ Newest(p) \in Nat
      /\ \A k \in arrived[p] : k <= Newest(p)
  BY NewestIsGreatest
<1> DEFINE S == {0} \union arrived'[p]
           m == IF n > Newest(p) THEN n ELSE Newest(p)
<1>6. S \in SUBSET Nat /\ m \in S
  BY <1>2, <1>4, <1>5 DEF Numbered
<1>7. \A k \in S : k <= m
  BY <1>2, <1>4, <1>5, <1>6
<1>8. Max(S) = m
  <2> HIDE DEF S, m
  <2> QED
    BY <1>6, <1>7, MaxIs
<1>9. Newest(p)' = Max(S)
  BY DEF Newest
<1> QED
  BY <1>2, <1>3, <1>8, <1>9 DEF n

----------------------------------------------------------------------------
(* The number acknowledged is the newest that arrived *)

NewestHeld ==
    \A p \in Peers :
        /\ received_any[p] <=> arrived[p] # {}
        /\ arrived[p] # {} /\ ~leapt[p] => remote_sequence[p] = SequenceOf(Newest(p))

LEMMA NewestHeldInit == HistoryInit => NewestHeld
BY DEF HistoryInit, Init, NewestHeld

\* An arrival less than half a cycle off the newest moves remote_sequence_
\* exactly if it is newer.
LEMMA NewestHeldPoll ==
    ASSUME TypeOK, Numbered, Numbered', NewestHeld,
           NEW p \in Peers, NEW pkt \in net, Poll(p, pkt), RecordArrival(p, pkt)
    PROVE  /\ received_any'[p] <=> arrived'[p] # {}
           /\ ~leapt'[p] => remote_sequence'[p] = SequenceOf(Newest(p)')
<1> DEFINE n == PacketOf(Other(p), pkt.sequence)
           gap == IF n > Newest(p) THEN n - Newest(p) ELSE Newest(p) - n
<1>1. /\ n \in Nat \ {0}
      /\ arrived' = [arrived EXCEPT ![p] = arrived[p] \union {n}]
      /\ Newest(p)' = IF n > Newest(p) THEN n ELSE Newest(p)
  BY NewestAfter
<1>2. SequenceOf(n) = pkt.sequence
  BY PacketOfIsSent DEF Poll
<1>3. leapt'[p] = (leapt[p] \/ (arrived[p] # {} /\ gap >= HalfACycle))
  BY DEF RecordArrival, Numbered
<1> HIDE DEF n
<1>4. /\ received_any'[p] = TRUE
      /\ remote_sequence'[p] = IF \/ ~received_any[p]
                                  \/ SeqGreater(SequenceOf(n), remote_sequence[p])
                                 THEN SequenceOf(n) ELSE remote_sequence[p]
  BY <1>2 DEF Poll, RecordReceived, TypeOK
<1>5. arrived'[p] # {}
  BY <1>1 DEF Numbered
<1>6. ASSUME ~leapt'[p] PROVE remote_sequence'[p] = SequenceOf(Newest(p)')
  <2>1. CASE arrived[p] = {}
    <3>1. ~received_any[p] /\ Newest(p) = 0
      BY <2>1, NewestIsGreatest DEF NewestHeld
    <3> QED
      BY <1>1, <1>4, <3>1
  <2>2. CASE arrived[p] # {}
    <3> DEFINE m == Newest(p)
    <3>1. m \in Nat \ {0}
      <4>1. PICK k \in arrived[p] : TRUE
        BY <2>2
      <4>2. k \in Nat \ {0} /\ k <= Newest(p) /\ Newest(p) \in Nat
        BY NewestIsGreatest, OtherPeer DEF Numbered
      <4> QED
        BY <4>2
    <3>2. ~leapt[p] /\ ~(gap >= HalfACycle)
      BY <1>3, <1>6, <2>2
    <3>3. received_any[p] /\ remote_sequence[p] = SequenceOf(m)
      BY <2>2, <3>2 DEF NewestHeld
    <3>4. HalfACycle \in Int
      BY SeqAssumption DEF HalfACycle, HalfSpace
    <3> HIDE DEF m
    <3>5. CASE n > m
      <4>1. SeqGreater(SequenceOf(n), SequenceOf(m))
        BY <1>1, <3>1, <3>2, <3>4, <3>5, AheadIsGreater DEF m
      <4> QED
        BY <1>1, <1>4, <3>3, <3>5, <4>1 DEF m
    <3>6. CASE n < m
      <4>1. SeqGreater(SequenceOf(m), SequenceOf(n))
        BY <1>1, <3>1, <3>2, <3>4, <3>6, AheadIsGreater DEF m
      <4>2. SequenceOf(m) \in SequenceNumber /\ SequenceOf(n) \in SequenceNumber
        BY <1>1, <3>1, SequenceOfType
      <4>3. ~SeqGreater(SequenceOf(n), SequenceOf(m))
        BY <4>1, <4>2, SeqGreaterTotal DEF SeqGreater, SequenceNumber
      <4> QED
        BY <1>1, <1>4, <3>1, <3>3, <3>6, <4>3 DEF m
    <3>7. CASE n = m
      BY <1>1, <1>4, <3>1, <3>3, <3>7 DEF m
    <3> QED
      BY <1>1, <3>1, <3>5, <3>6, <3>7
  <2> QED
    BY <2>1, <2>2
<1> QED
  BY <1>4, <1>5, <1>6

LEMMA NewestHeldStep ==
    TypeOK /\ Numbered /\ Numbered' /\ NewestHeld /\ [HistoryNext]_historyVars
      => NewestHeld'
<1> SUFFICES ASSUME TypeOK, Numbered, Numbered', NewestHeld, [HistoryNext]_historyVars
             PROVE  NewestHeld'
  OBVIOUS
<1>1. ASSUME NEW p \in Peers, NEW pkt \in net, Poll(p, pkt), RecordArrival(p, pkt)
      PROVE  NewestHeld'
  <2>1. ASSUME NEW q \in Peers, q # p
        PROVE  /\ arrived'[q] = arrived[q] /\ leapt'[q] = leapt[q]
               /\ received_any'[q] = received_any[q]
               /\ remote_sequence'[q] = remote_sequence[q]
    BY <1>1, <2>1 DEF Poll, RecordReceived, RecordArrival, TypeOK, Numbered
  <2>2. ASSUME NEW q \in Peers, q # p
        PROVE  Newest(q)' = Newest(q)
    BY <2>1, <2>2 DEF Newest
  <2>3. ASSUME NEW q \in Peers
        PROVE  /\ received_any'[q] <=> arrived'[q] # {}
               /\ arrived'[q] # {} /\ ~leapt'[q]
                    => remote_sequence'[q] = SequenceOf(Newest(q)')
    BY <1>1, <2>1, <2>2, NewestHeldPoll DEF NewestHeld
  <2> QED
    BY <2>3 DEF NewestHeld, SequenceOf
<1>2. ASSUME UNCHANGED <<arrived, leapt, received_any, remote_sequence>>
      PROVE  NewestHeld'
  BY <1>2 DEF NewestHeld, Newest
<1> QED
  BY <1>1, <1>2 DEF HistoryNext, CountedFlush, Flush, QueueReliable, QueueUnreliable,
                    Lose, connectionVars, historyVars, vars

\* The number an end acknowledges is the newest that arrived, for any number
\* of packets and laps (connection.cpp record_received).
THEOREM RemoteSequenceIsNewestHolds == HistorySpec => []RemoteSequenceIsNewest
<1>1. HistorySpec => []NewestHeld
  BY NewestHeldInit, NewestHeldStep, HistoryTypeCorrect, NumberedCorrect, PTL
     DEF HistorySpec
<1>2. NewestHeld => RemoteSequenceIsNewest
  BY DEF NewestHeld, RemoteSequenceIsNewest
<1> QED
  BY <1>1, <1>2, PTL

----------------------------------------------------------------------------
(* No arrival is left out *)

\* What arrived is recorded for good, and acknowledged under a number.
Recorded ==
    \A p \in Peers :
        /\ \A n \in arrived[p] : Slot(SequenceOf(n)) \in received[p]
        /\ received_any[p] => remote_sequence[p] # 0

LEMMA RecordedInit == HistoryInit => Recorded
BY DEF HistoryInit, Init, Recorded

LEMMA RecordedPoll ==
    ASSUME TypeOK, Numbered, Numbered', Recorded,
           NEW p \in Peers, NEW pkt \in net, Poll(p, pkt), RecordArrival(p, pkt)
    PROVE  Recorded'
<1> DEFINE n == PacketOf(Other(p), pkt.sequence)
<1>1. /\ n \in Nat \ {0}
      /\ arrived' = [arrived EXCEPT ![p] = arrived[p] \union {n}]
  BY NewestAfter
<1>2. SequenceOf(n) = pkt.sequence
  BY PacketOfIsSent DEF Poll
<1> HIDE DEF n
<1>3. pkt.sequence # 0
  BY <1>1, <1>2, SequenceOfType
<1>4. /\ received' = [received EXCEPT ![p] = received[p] \union {Slot(SequenceOf(n))}]
      /\ received_any' = [received_any EXCEPT ![p] = TRUE]
      /\ remote_sequence' =
            IF ~received_any[p] \/ SeqGreater(pkt.sequence, remote_sequence[p])
              THEN [remote_sequence EXCEPT ![p] = pkt.sequence]
              ELSE remote_sequence
  BY <1>2 DEF Poll, RecordReceived
<1>5. ASSUME NEW q \in Peers
      PROVE  /\ \A m \in arrived'[q] : Slot(SequenceOf(m)) \in received'[q]
             /\ received_any'[q] => remote_sequence'[q] # 0
  <2>1. CASE q = p
    <3>1. /\ arrived'[p] = arrived[p] \union {n}
          /\ received'[p] = received[p] \union {Slot(SequenceOf(n))}
      BY <1>1, <1>4 DEF TypeOK, Numbered
    <3>2. \/ remote_sequence'[p] = pkt.sequence
          \/ received_any[p] /\ remote_sequence'[p] = remote_sequence[p]
      BY <1>4 DEF TypeOK
    <3> QED
      BY <1>3, <2>1, <3>1, <3>2 DEF Recorded
  <2>2. CASE q # p
    <3>1. /\ arrived'[q] = arrived[q] /\ received'[q] = received[q]
          /\ received_any'[q] = received_any[q]
          /\ remote_sequence'[q] = remote_sequence[q]
      BY <1>1, <1>4, <2>2 DEF TypeOK, Numbered
    <3> QED
      BY <3>1 DEF Recorded
  <2> QED
    BY <2>1, <2>2
<1> QED
  BY <1>5 DEF Recorded, Slot, SequenceOf

LEMMA RecordedStep ==
    TypeOK /\ Numbered /\ Numbered' /\ Recorded /\ [HistoryNext]_historyVars => Recorded'
<1> SUFFICES ASSUME TypeOK, Numbered, Numbered', Recorded, [HistoryNext]_historyVars
             PROVE  Recorded'
  OBVIOUS
<1>1. ASSUME UNCHANGED <<arrived, received, received_any, remote_sequence>>
      PROVE  Recorded'
  BY <1>1 DEF Recorded
<1> QED
  BY <1>1, RecordedPoll
     DEF HistoryNext, CountedFlush, Flush, QueueReliable, QueueUnreliable, Lose,
         connectionVars, historyVars, vars

\* A recorded number in the window is one that the next header names.
LEMMA RecordedIsAcknowledged ==
    ASSUME TypeOK, NEW p \in Peers, NEW s \in Window(remote_sequence[p]),
           remote_sequence[p] # 0, Slot(s) \in received[p]
    PROVE  s \in Acknowledged(NextPacket(p))
<1>1. /\ NextPacket(p).ack = remote_sequence[p]
      /\ NextPacket(p).ack_bits = BuildAckBits(p)
  BY DEF NextPacket
<1>2. PICK k \in 0 .. AckBits : s = Back(remote_sequence[p], k)
  BY DEF Window
<1>3. CASE k = 0
  <2>1. remote_sequence[p] \in Nat
    BY SeqAssumption DEF TypeOK, SequenceNumber
  <2>2. s = remote_sequence[p]
    BY <1>2, <1>3, <2>1 DEF Back
  <2> QED
    BY <1>1, <2>2 DEF Acknowledged
<1>4. CASE k # 0
  <2>1. k \in 1 .. AckBits
    BY <1>4, SeqAssumption
  <2>2. k \in BuildAckBits(p)
    BY <1>2, <2>1 DEF BuildAckBits
  <2> QED
    BY <1>1, <1>2, <2>2 DEF Acknowledged
<1> QED
  BY <1>3, <1>4

\* An acknowledgement survives the loss of the header that made it: the next one
\* repeats it while its number is in the window, on any lap and for every ring at
\* least as long as the window (build_ack_bits; packet.h, "so acknowledgements
\* survive packet loss").
THEOREM AcksSurviveLossHolds == HistorySpec => []AcksSurviveLoss
<1>1. HistorySpec => []Recorded
  BY RecordedInit, RecordedStep, HistoryTypeCorrect, NumberedCorrect, PTL DEF HistorySpec
<1>2. HistorySpec => []NewestHeld
  BY NewestHeldInit, NewestHeldStep, HistoryTypeCorrect, NumberedCorrect, PTL
     DEF HistorySpec
<1>3. TypeOK /\ Recorded /\ NewestHeld => AcksSurviveLoss
  <2> SUFFICES ASSUME TypeOK, Recorded, NewestHeld, NEW p \in Peers, NEW n \in arrived[p],
                      SequenceOf(n) \in Window(remote_sequence[p])
               PROVE  SequenceOf(n) \in Acknowledged(NextPacket(p))
    BY DEF AcksSurviveLoss
  <2>1. Slot(SequenceOf(n)) \in received[p] /\ remote_sequence[p] # 0
    BY DEF Recorded, NewestHeld
  <2> QED
    BY <2>1, RecordedIsAcknowledged
<1> QED
  BY <1>1, <1>2, <1>3, HistoryTypeCorrect, PTL

----------------------------------------------------------------------------
(* Where an acknowledgement comes from *)

\* The slots an end's headers name are slots it has set, a set slot is that of
\* a packet that arrived, and the other end's acked_ has learnt no other.
AcksTraced ==
    /\ \A p \in Peers :
         /\ \A slot \in received[p] : \E n \in arrived[p] : slot = Slot(SequenceOf(n))
         /\ acked[p] \subseteq received[Other(p)]
         /\ received_any[p] => Slot(remote_sequence[p]) \in received[p]
         /\ ~received_any[p] => remote_sequence[p] = 0
    /\ \A pkt \in net :
         AckedSlots(pkt.ack, pkt.ack_bits) \subseteq received[pkt.from]

LEMMA AcksTracedInit == HistoryInit => AcksTraced
BY OtherPeer DEF HistoryInit, Init, AcksTraced

LEMMA AcksTracedFlush ==
    ASSUME TypeOK, AcksTraced, NEW p \in Peers, CountedFlush(p)
    PROVE  AcksTraced'
<1>1. /\ net' = net \union {NextPacket(p)}
      /\ acked' = [acked EXCEPT ![p] = acked[p] \ {Slot(local_sequence[p])}]
      /\ UNCHANGED <<received, received_any, remote_sequence, arrived>>
  BY DEF CountedFlush, Flush
<1>2. NextPacket(p).from = p
  BY DEF NextPacket
<1>3. AckedSlots(NextPacket(p).ack, NextPacket(p).ack_bits) \subseteq received[p]
  <2>1. /\ NextPacket(p).ack = remote_sequence[p]
        /\ NextPacket(p).ack_bits = BuildAckBits(p)
    BY DEF NextPacket
  <2>2. remote_sequence[p] # 0 => Slot(remote_sequence[p]) \in received[p]
    BY DEF AcksTraced
  <2>3. \A k \in BuildAckBits(p) : Slot(Back(remote_sequence[p], k)) \in received[p]
    BY DEF BuildAckBits
  <2> QED
    BY <2>1, <2>2, <2>3 DEF AckedSlots
<1>4. \A q \in Peers : acked'[q] \subseteq acked[q]
  BY <1>1 DEF TypeOK
<1>5. ASSUME NEW pkt \in net'
      PROVE  AckedSlots(pkt.ack, pkt.ack_bits) \subseteq received'[pkt.from]
  <2>1. CASE pkt \in net
    BY <1>1, <2>1 DEF AcksTraced
  <2>2. CASE pkt = NextPacket(p)
    BY <1>1, <1>2, <1>3, <2>2
  <2> QED
    BY <1>1, <2>1, <2>2
<1>6. ASSUME NEW q \in Peers
      PROVE  /\ \A slot \in received'[q] :
                   \E n \in arrived'[q] : slot = Slot(SequenceOf(n))
             /\ acked'[q] \subseteq received'[Other(q)]
             /\ received_any'[q] => Slot(remote_sequence'[q]) \in received'[q]
             /\ ~received_any'[q] => remote_sequence'[q] = 0
  BY <1>1, <1>4 DEF AcksTraced
<1> QED
  BY <1>5, <1>6 DEF AcksTraced

LEMMA AcksTracedPoll ==
    ASSUME TypeOK, Numbered, Numbered', AcksTraced,
           NEW p \in Peers, NEW pkt \in net, Poll(p, pkt), RecordArrival(p, pkt)
    PROVE  AcksTraced'
<1> DEFINE n == PacketOf(Other(p), pkt.sequence)
<1>1. arrived' = [arrived EXCEPT ![p] = arrived[p] \union {n}]
  BY NewestAfter
<1>2. SequenceOf(n) = pkt.sequence
  BY PacketOfIsSent DEF Poll
<1> HIDE DEF n
<1>3. /\ net' = net /\ pkt.from = Other(p)
      /\ acked' = [acked EXCEPT ![p] = acked[p] \union AckedSlots(pkt.ack, pkt.ack_bits)]
      /\ received' = [received EXCEPT ![p] = received[p] \union {Slot(pkt.sequence)}]
      /\ received_any' = [received_any EXCEPT ![p] = TRUE]
      /\ remote_sequence' =
            IF ~received_any[p] \/ SeqGreater(pkt.sequence, remote_sequence[p])
              THEN [remote_sequence EXCEPT ![p] = pkt.sequence]
              ELSE remote_sequence
  BY DEF Poll, RecordReceived
<1>4. \A q \in Peers : received[q] \subseteq received'[q] /\ arrived[q] \subseteq arrived'[q]
  BY <1>1, <1>3 DEF TypeOK, Numbered
<1>5. ASSUME NEW q \in Peers
      PROVE  \A slot \in received'[q] : \E m \in arrived'[q] : slot = Slot(SequenceOf(m))
  <2>1. CASE q = p
    <3>1. /\ received'[p] = received[p] \union {Slot(SequenceOf(n))}
          /\ arrived'[p] = arrived[p] \union {n}
      BY <1>1, <1>2, <1>3 DEF TypeOK, Numbered
    <3> QED
      BY <2>1, <3>1 DEF AcksTraced
  <2>2. CASE q # p
    BY <1>1, <1>3, <2>2 DEF AcksTraced, TypeOK, Numbered
  <2> QED
    BY <2>1, <2>2
<1>6. ASSUME NEW q \in Peers
      PROVE  acked'[q] \subseteq received'[Other(q)]
  <2>1. Other(q) \in Peers
    BY OtherPeer
  <2>2. CASE q = p
    <3>1. acked'[p] = acked[p] \union AckedSlots(pkt.ack, pkt.ack_bits)
      BY <1>3 DEF TypeOK
    <3>2. AckedSlots(pkt.ack, pkt.ack_bits) \subseteq received[Other(p)]
      BY <1>3 DEF AcksTraced
    <3>3. acked[p] \subseteq received[Other(p)]
      BY DEF AcksTraced
    <3> QED
      BY <1>4, <2>1, <2>2, <3>1, <3>2, <3>3
  <2>3. CASE q # p
    <3>1. acked'[q] = acked[q] /\ acked[q] \subseteq received[Other(q)]
      BY <1>3, <2>3 DEF TypeOK, AcksTraced
    <3> QED
      BY <1>4, <2>1, <3>1
  <2> QED
    BY <2>2, <2>3
<1>7. ASSUME NEW q \in Peers
      PROVE  /\ received_any'[q] => Slot(remote_sequence'[q]) \in received'[q]
             /\ ~received_any'[q] => remote_sequence'[q] = 0
  <2>1. CASE q = p
    <3>1. /\ received_any'[p] = TRUE
          /\ received'[p] = received[p] \union {Slot(pkt.sequence)}
          /\ \/ remote_sequence'[p] = pkt.sequence
             \/ received_any[p] /\ remote_sequence'[p] = remote_sequence[p]
      BY <1>3 DEF TypeOK
    <3> QED
      BY <2>1, <3>1 DEF AcksTraced
  <2>2. CASE q # p
    <3>1. /\ received_any'[q] = received_any[q] /\ received'[q] = received[q]
          /\ remote_sequence'[q] = remote_sequence[q]
      BY <1>3, <2>2 DEF TypeOK
    <3> QED
      BY <3>1 DEF AcksTraced
  <2> QED
    BY <2>1, <2>2
<1>8. ASSUME NEW other \in net'
      PROVE  AckedSlots(other.ack, other.ack_bits) \subseteq received'[other.from]
  <2>1. other.from \in Peers
    BY <1>3 DEF TypeOK, Packet
  <2> QED
    BY <1>3, <1>4, <2>1 DEF AcksTraced
<1> QED
  BY <1>5, <1>6, <1>7, <1>8 DEF AcksTraced

LEMMA AcksTracedStep ==
    TypeOK /\ Numbered /\ Numbered' /\ AcksTraced /\ [HistoryNext]_historyVars
      => AcksTraced'
<1> SUFFICES ASSUME TypeOK, Numbered, Numbered', AcksTraced, [HistoryNext]_historyVars
             PROVE  AcksTraced'
  OBVIOUS
<1>1. ASSUME UNCHANGED <<connectionVars, arrived>>, net' \subseteq net
      PROVE  AcksTraced'
  BY <1>1 DEF AcksTraced, connectionVars
<1> QED
  BY <1>1, AcksTracedFlush, AcksTracedPoll
     DEF HistoryNext, QueueReliable, QueueUnreliable, Lose, historyVars, vars

LEMMA AcksTracedCorrect == HistorySpec => []AcksTraced
BY AcksTracedInit, AcksTracedStep, HistoryTypeCorrect, NumberedCorrect, PTL
   DEF HistorySpec

\* What an ack means on any lap: a slot that an end sees as acknowledged is that of
\* a packet of its own that arrived, though perhaps of an earlier one than is_acked
\* is asked about (received_ is never cleared).
AckedSlotsArrived ==
    \A p \in Peers : \A s \in SequenceNumber :
        IsAcked(p, s) =>
            \E n \in arrived[Other(p)] :
                n <= packets_sent[p] /\ Slot(SequenceOf(n)) = Slot(s)

\* The rings keep that much for ever, whatever is lost, late or repeated
\* (Connection::record_received, build_ack_bits and process_acks).
THEOREM AckedSlotsArrivedHolds == HistorySpec => []AckedSlotsArrived
<1>1. Numbered /\ AcksTraced => AckedSlotsArrived
  <2> SUFFICES ASSUME Numbered, AcksTraced, NEW p \in Peers, NEW s \in SequenceNumber,
                      IsAcked(p, s)
               PROVE  \E n \in arrived[Other(p)] :
                        n <= packets_sent[p] /\ Slot(SequenceOf(n)) = Slot(s)
    BY DEF AckedSlotsArrived
  <2>1. Other(p) \in Peers /\ Other(Other(p)) = p
    BY OtherPeer
  <2>2. Slot(s) \in received[Other(p)]
    BY DEF IsAcked, AcksTraced
  <2>3. PICK n \in arrived[Other(p)] : Slot(s) = Slot(SequenceOf(n))
    BY <2>1, <2>2 DEF AcksTraced
  <2>4. n <= packets_sent[p]
    BY <2>1, <2>3 DEF Numbered
  <2> QED
    BY <2>3, <2>4
<1> QED
  BY <1>1, AcksTracedCorrect, NumberedCorrect, PTL

\* On the rings' first lap no two packets share a slot: an end's knowledge of
\* which of its packets arrived is exact (connection.cpp is_acked).
THEOREM FirstLapAcksAreTrueHolds ==
    ASSUME BufferSize < SeqSpace
    PROVE  HistorySpec => []FirstLapAcksAreTrue
<1>1. ASSUME NEW n \in 1 .. BufferSize
      PROVE  SequenceOf(n) = n
  <2>1. /\ SeqSpace - 1 \in Nat \ {0} /\ n - 1 \in Nat /\ n - 1 < SeqSpace - 1
        /\ n \in Nat
    BY SeqAssumption
  <2>2. (n - 1) % (SeqSpace - 1) = n - 1
    <3> DEFINE M == SeqSpace - 1   a == n - 1
    <3>1. M \in Nat \ {0} /\ a \in Nat /\ a < M
      BY <2>1
    <3> HIDE DEF M, a
    <3>2. a % M = a
      BY <3>1
    <3> QED
      BY <3>2 DEF M, a
  <2> QED
    BY <2>1, <2>2 DEF SequenceOf
<1>2. ASSUME NEW m \in 1 .. BufferSize, NEW n \in 1 .. BufferSize, Slot(m) = Slot(n)
      PROVE  m = n
  <2>1. ASSUME NEW k \in 1 .. BufferSize
        PROVE  Slot(k) = IF k = BufferSize THEN 0 ELSE k
    BY SeqAssumption DEF Slot
  <2> QED
    BY <1>2, <2>1, SeqAssumption
<1>3. Numbered /\ AcksTraced => FirstLapAcksAreTrue
  <2> SUFFICES ASSUME Numbered, AcksTraced, NEW p \in Peers,
                      packets_sent[p] <= BufferSize, NEW n \in Recent(p),
                      IsAcked(p, SequenceOf(n))
               PROVE  n \in arrived[Other(p)]
    BY DEF FirstLapAcksAreTrue, AcksAreTrue
  <2>1. Other(p) \in Peers /\ Other(Other(p)) = p
    BY OtherPeer
  <2>2. Slot(SequenceOf(n)) \in received[Other(p)]
    BY DEF IsAcked, AcksTraced
  <2>3. PICK m \in arrived[Other(p)] : Slot(SequenceOf(n)) = Slot(SequenceOf(m))
    BY <2>1, <2>2 DEF AcksTraced
  <2>4. m \in 1 .. BufferSize /\ n \in 1 .. BufferSize
    BY <2>1, SeqAssumption DEF Numbered, Recent
  <2> QED
    BY <1>1, <1>2, <2>3, <2>4
<1> QED
  BY <1>3, AcksTracedCorrect, NumberedCorrect, PTL

----------------------------------------------------------------------------
(* The link that runs for ever *)

\* The path's assumptions only restrict the link: whatever is proved of it holds.
THEOREM LiveLinkImplementsLink == LiveSpec => Spec
<1>1. [LiveNext]_vars => [Next]_vars
  BY DEF LiveNext, Send, Drop, Next
<1> QED
  BY <1>1, PTL DEF LiveSpec, Spec

\* Everything of p's on the wire, and what the other end holds, is less than half
\* a cycle behind the number n that p sent last (0 before the first).
Timely(p, n) ==
    /\ local_sequence[p] = NextSeq(n)
    /\ Distance(n, remote_sequence[Other(p)]) < HalfSpace
    /\ \A pkt \in PacketsFrom(p) :
          n # 0 /\ pkt.sequence # 0 /\ Distance(n, pkt.sequence) < HalfSpace
    /\ ~received_any[Other(p)] =>
          /\ remote_sequence[Other(p)] = 0
          /\ \A pkt \in PacketsFrom(p) : pkt.sequence <= n

AllTimely == \A p \in Peers : \E n \in SequenceNumber : Timely(p, n)

\* Of two numbers less than half a cycle behind n, the one that is less behind is
\* the newer one, and a step of n takes them both one number further behind.
LEMMA Behind ==
    ASSUME NEW n \in SequenceNumber, NEW a \in SequenceNumber, NEW b \in SequenceNumber,
           Distance(n, a) < HalfSpace, Distance(n, b) < HalfSpace
    PROVE  /\ Distance(n, a) < Distance(n, b) <=> SeqGreater(a, b)
           /\ Distance(n, a) = Distance(n, b) <=> a = b
           /\ Distance(NextSeq(n), a) <= Distance(NextSeq(n), b)
                <=> Distance(n, a) <= Distance(n, b)
<1>1. /\ SeqSpace \in Nat /\ SeqSpace >= 4 /\ HalfSpace \in Nat
      /\ HalfSpace + HalfSpace = SeqSpace
  BY SeqAssumption DEF HalfSpace
<1>2. /\ n \in Nat /\ a \in Nat /\ b \in Nat
      /\ n < SeqSpace /\ a < SeqSpace /\ b < SeqSpace
  BY <1>1 DEF SequenceNumber
<1>3. Distance(n, a) < Distance(n, b) <=> SeqGreater(a, b)
  BY <1>1, <1>2 DEF Distance, SeqGreater
<1>4. Distance(n, a) = Distance(n, b) <=> a = b
  BY <1>1, <1>2 DEF Distance
<1>5. Distance(NextSeq(n), a) <= Distance(NextSeq(n), b)
        <=> Distance(n, a) <= Distance(n, b)
  BY <1>1, <1>2 DEF Distance, NextSeq
<1> QED
  BY <1>3, <1>4, <1>5

LEMMA TimelyInit == Init => AllTimely
<1> SUFFICES ASSUME Init, NEW p \in Peers PROVE Timely(p, 0)
  BY SeqAssumption DEF AllTimely, SequenceNumber
<1>1. 0 \in SequenceNumber /\ NextSeq(0) = 1 /\ Distance(0, 0) < HalfSpace
  BY SeqAssumption DEF SequenceNumber, NextSeq, Distance, HalfSpace
<1> QED
  BY <1>1, OtherPeer DEF Init, Timely, PacketsFrom

\* The packet sent is the newest, and what was less than half a cycle behind the
\* number it takes is so behind it.
LEMMA TimelySend ==
    ASSUME TypeOK, AllTimely, NEW p \in Peers, Send(p)
    PROVE  AllTimely'
<1> SUFFICES ASSUME NEW q \in Peers PROVE (\E n \in SequenceNumber : Timely(q, n))'
  BY DEF AllTimely
<1>1. /\ net' = net \union {NextPacket(p)}
      /\ local_sequence' = [local_sequence EXCEPT ![p] = NextSeq(@)]
      /\ remote_sequence' = remote_sequence /\ received_any' = received_any
  BY DEF Send, Flush
<1>2. NextPacket(p).from = p /\ NextPacket(p).sequence = local_sequence[p]
  BY DEF NextPacket
<1>3. PICK n \in SequenceNumber : Timely(q, n)
  BY DEF AllTimely
<1>4. CASE q # p
  <2>1. PacketsFrom(q)' = PacketsFrom(q)
    BY <1>1, <1>2, <1>4 DEF PacketsFrom
  <2>2. local_sequence'[q] = local_sequence[q]
    BY <1>1, <1>4 DEF TypeOK
  <2> QED
    BY <1>1, <1>3, <2>1, <2>2 DEF Timely
<1>5. CASE q = p
  <2>0. PICK s \in SequenceNumber : s = local_sequence[p]
    BY DEF TypeOK
  <2> DEFINE r == remote_sequence[Other(p)]
  <2>1. s # 0 /\ r \in SequenceNumber
    BY <2>0, OtherPeer DEF TypeOK
  <2>2. local_sequence'[p] = NextSeq(s) /\ remote_sequence'[Other(p)] = r
    BY <1>1, <2>0 DEF TypeOK
  <2>3. Distance(s, r) < HalfSpace
    BY <2>0 DEF Send, PathUp, Outage
  <2>4. PacketsFrom(p)' = PacketsFrom(p) \union {NextPacket(p)}
    BY <1>1, <1>2 DEF PacketsFrom
  <2>5. ASSUME NEW pkt \in PacketsFrom(p)'
        PROVE  pkt.sequence # 0 /\ Distance(s, pkt.sequence) < HalfSpace
    <3>1. CASE pkt \in PacketsFrom(p)
      BY <1>3, <1>5, <2>0, <3>1 DEF Timely, Send, Prompt
    <3>2. CASE pkt = NextPacket(p)
      <4>1. Distance(s, s) < HalfSpace
        BY <2>1, SeqAssumption DEF Distance, HalfSpace, SequenceNumber
      <4> QED
        BY <1>2, <2>0, <2>1, <3>2, <4>1
    <3> QED
      BY <2>4, <3>1, <3>2
  <2>6. ASSUME ~received_any[Other(p)]
        PROVE  r = 0 /\ \A pkt \in PacketsFrom(p)' : pkt.sequence <= s
    <3>1. r = 0 /\ s = NextSeq(n) /\ \A pkt \in PacketsFrom(p) : pkt.sequence <= n
      BY <1>3, <1>5, <2>0, <2>6 DEF Timely
    <3>2. Distance(n, 0) < HalfSpace
      BY <1>3, <1>5, <3>1 DEF Timely
    <3>3. n + 1 = s
      BY <3>1, <3>2, SeqAssumption DEF Distance, HalfSpace, SequenceNumber, NextSeq
    <3>4. \A pkt \in PacketsFrom(p) : pkt.sequence \in Nat
      BY DEF TypeOK, Packet, PacketsFrom, SequenceNumber
    <3>5. \A pkt \in PacketsFrom(p) : pkt.sequence <= s
      BY <3>1, <3>3, <3>4 DEF SequenceNumber
    <3>6. NextPacket(p).sequence <= s
      BY <1>2, <2>0 DEF SequenceNumber
    <3> QED
      BY <2>4, <3>1, <3>5, <3>6
  <2>7. Timely(p, s)'
    BY <1>1, <2>1, <2>2, <2>3, <2>5, <2>6 DEF Timely
  <2> QED
    BY <1>5, <2>1, <2>7
<1> QED
  BY <1>4, <1>5

\* An arrival leaves the other end where it was, or at the number that arrived.
LEMMA TimelyPoll ==
    ASSUME TypeOK, AllTimely, NEW p \in Peers, NEW pkt \in net, Poll(p, pkt)
    PROVE  AllTimely'
<1> SUFFICES ASSUME NEW q \in Peers PROVE (\E n \in SequenceNumber : Timely(q, n))'
  BY DEF AllTimely
<1>1. /\ pkt \in PacketsFrom(Other(p))
      /\ net' = net /\ local_sequence' = local_sequence
      /\ RecordReceived(p, pkt.sequence)
  BY DEF Poll, PacketsFrom
<1>2. PICK n \in SequenceNumber : Timely(q, n)
  BY DEF AllTimely
<1>3. PacketsFrom(q)' = PacketsFrom(q)
  BY <1>1 DEF PacketsFrom
<1>4. CASE q = p
  <2>1. /\ remote_sequence'[Other(p)] = remote_sequence[Other(p)]
        /\ received_any'[Other(p)] = received_any[Other(p)]
    BY <1>1, OtherPeer DEF RecordReceived, TypeOK
  <2> QED
    BY <1>1, <1>2, <1>3, <1>4, <2>1 DEF Timely
<1>5. CASE q = Other(p)
  <2>1. received_any'[p] /\ remote_sequence'[p] \in {remote_sequence[p], pkt.sequence}
    BY <1>1 DEF RecordReceived, TypeOK
  <2>2. Other(q) = p
    BY <1>5, OtherPeer
  <2>3. Distance(n, remote_sequence'[p]) < HalfSpace
    BY <1>1, <1>2, <1>5, <2>1, <2>2 DEF Timely
  <2> QED
    BY <1>1, <1>2, <1>3, <2>1, <2>2, <2>3 DEF Timely
<1> QED
  BY <1>4, <1>5, OtherPeer

LEMMA TimelyStep == TypeOK /\ AllTimely /\ [LiveNext]_vars => AllTimely'
<1> SUFFICES ASSUME TypeOK, AllTimely, [LiveNext]_vars PROVE AllTimely'
  OBVIOUS
<1>1. ASSUME NEW p \in Peers, Send(p) PROVE AllTimely'
  BY <1>1, TimelySend
<1>2. ASSUME NEW p \in Peers, NEW pkt \in net, Poll(p, pkt) PROVE AllTimely'
  BY <1>2, TimelyPoll
<1>3. ASSUME /\ net' \subseteq net /\ local_sequence' = local_sequence
             /\ remote_sequence' = remote_sequence /\ received_any' = received_any
      PROVE  AllTimely'
  <2>1. \A p \in Peers : PacketsFrom(p)' \subseteq PacketsFrom(p)
    BY <1>3 DEF PacketsFrom
  <2> QED
    BY <1>3, <2>1 DEF AllTimely, Timely
<1>4. ASSUME NEW p \in Peers, QueueReliable(p) PROVE AllTimely'
  BY <1>3, <1>4 DEF QueueReliable, connectionVars
<1>5. ASSUME NEW pkt \in net, Drop(pkt) PROVE AllTimely'
  BY <1>3, <1>5 DEF Drop, Lose, connectionVars
<1>6. CASE UNCHANGED vars
  BY <1>3, <1>6 DEF vars, connectionVars
<1> QED
  BY <1>1, <1>2, <1>4, <1>5, <1>6 DEF LiveNext

LEMMA TimelyHolds == LiveSpec => [](TypeOK /\ AllTimely)
<1>1. LiveSpec => []TypeOK
  BY LiveLinkImplementsLink, TypeCorrect, PTL
<1> QED
  BY <1>1, TimelyInit, TimelyStep, PTL DEF LiveSpec

\* While no outage and no delay lasts for half a cycle of the numbers, the last
\* packet sent is newer, for Connection::record_received, than any number the other
\* end can hold: over any number of laps, and any loss, repetition and reordering.
THEOREM NewestIsRecognisedHolds == LiveSpec => []NewestIsRecognised
<1>1. TypeOK /\ AllTimely => NewestIsRecognised
  <2> SUFFICES ASSUME TypeOK, AllTimely, NEW p \in Peers, NEW pkt \in PacketsFrom(p),
                      IsNewest(pkt)
               PROVE  \/ pkt.sequence = remote_sequence[Other(p)]
                      \/ SeqGreater(pkt.sequence, remote_sequence[Other(p)])
    BY DEF NewestIsRecognised
  <2> DEFINE s == pkt.sequence   r == remote_sequence[Other(p)]
  <2>1. PICK n \in SequenceNumber : Timely(p, n)
    BY DEF AllTimely
  <2>2. /\ s \in SequenceNumber /\ r \in SequenceNumber
        /\ s # 0 /\ n # 0 /\ NextSeq(s) = NextSeq(n) /\ Distance(n, r) < HalfSpace
    BY <2>1, OtherPeer DEF TypeOK, Packet, PacketsFrom, Timely, IsNewest
  <2> HIDE DEF s, r
  <2>3. s = n
    BY <2>2, SeqAssumption DEF NextSeq, SequenceNumber
  <2>4. Distance(n, n) = 0 /\ 0 < HalfSpace /\ Distance(n, r) \in Nat
    BY <2>2, SeqAssumption DEF Distance, SequenceNumber, HalfSpace
  <2>5. s = r \/ SeqGreater(s, r)
    BY <2>2, <2>3, <2>4, Behind
  <2> QED
    BY <2>5 DEF s, r
<1> QED
  BY <1>1, TimelyHolds, PTL

LEMMA AdvancesStep ==
    ASSUME TypeOK, AllTimely, [LiveNext]_vars, NEW p \in Peers,
           local_sequence'[p] = local_sequence[p]
    PROVE  Outage(p)' <= Outage(p)
<1> DEFINE q == Other(p)   r == remote_sequence[q]
<1>0. q \in Peers /\ Other(q) = p /\ r \in SequenceNumber
  BY OtherPeer DEF TypeOK
<1>1. PICK n \in SequenceNumber : Timely(p, n)
  BY DEF AllTimely
<1>2. ASSUME remote_sequence'[q] = r PROVE Outage(p)' <= Outage(p)
  <2>1. Outage(p) \in Nat
    BY <1>0, SeqAssumption DEF Outage, Distance, TypeOK, SequenceNumber
  <2> QED
    BY <1>2, <2>1 DEF Outage
<1>3. ASSUME NEW pkt \in net, Poll(q, pkt) PROVE Outage(p)' <= Outage(p)
  <2> DEFINE s == pkt.sequence
  <2>1. /\ pkt \in PacketsFrom(p) /\ s \in SequenceNumber
        /\ RecordReceived(q, s)
    BY <1>0, <1>3 DEF Poll, PacketsFrom, TypeOK, Packet
  <2>2. CASE remote_sequence'[q] = r
    BY <1>2, <2>2
  <2>3. CASE remote_sequence'[q] # r
    <3>1. /\ remote_sequence'[q] = s
          /\ ~received_any[q] \/ SeqGreater(s, r)
      BY <1>0, <2>1, <2>3 DEF RecordReceived, TypeOK
    <3>2. Distance(n, s) < HalfSpace /\ Distance(n, r) < HalfSpace
      BY <1>1, <2>1 DEF Timely
    <3>3. ~received_any[q] => r = 0 /\ s <= n
      BY <1>1, <2>1 DEF Timely
    <3>4. Distance(n, s) \in Nat /\ Distance(n, r) \in Nat
      BY <1>0, <2>1, SeqAssumption DEF Distance, SequenceNumber
    <3> HIDE DEF s, r, q
    <3>5. Distance(n, s) <= Distance(n, r)
      <4>1. CASE SeqGreater(s, r)
        BY <1>0, <2>1, <3>2, <3>4, <4>1, Behind
      <4>2. CASE r = 0 /\ s <= n
        BY <1>0, <2>1, <4>2 DEF Distance, SequenceNumber
      <4> QED
        BY <3>1, <3>3, <4>1, <4>2
    <3>6. Distance(NextSeq(n), s) <= Distance(NextSeq(n), r)
      BY <1>0, <2>1, <3>2, <3>5, Behind
    <3>7. local_sequence[p] = NextSeq(n)
      BY <1>1 DEF Timely
    <3> QED
      BY <3>1, <3>6, <3>7 DEF Outage, q, r
  <2> QED
    BY <2>2, <2>3
<1>4. ASSUME remote_sequence' = remote_sequence PROVE Outage(p)' <= Outage(p)
  BY <1>2, <1>4
<1>5. ASSUME NEW k \in Peers, NEW pkt \in net, Poll(k, pkt)
      PROVE  Outage(p)' <= Outage(p)
  <2>1. CASE k = q
    BY <1>3, <1>5, <2>1
  <2>2. CASE k # q
    <3>1. remote_sequence'[q] = r
      BY <1>0, <1>5, <2>2 DEF Poll, RecordReceived, TypeOK
    <3> QED
      BY <1>2, <3>1
  <2> QED
    BY <2>1, <2>2
<1> QED
  BY <1>4, <1>5 DEF LiveNext, Send, Flush, Drop, Lose, QueueReliable,
                           connectionVars, vars

\* ...and what an end acknowledges only moves on: a datagram that comes late, twice
\* or out of order never takes it back to an older packet.
THEOREM AckOnlyAdvances ==
    LiveSpec => [][\A p \in Peers : local_sequence'[p] = local_sequence[p]
                                      => Outage(p)' <= Outage(p)]_vars
<1>1. TypeOK /\ AllTimely /\ [LiveNext]_vars
        => [\A p \in Peers : local_sequence'[p] = local_sequence[p]
                               => Outage(p)' <= Outage(p)]_vars
  BY AdvancesStep
<1> QED
  BY <1>1, TimelyHolds, PTL DEF LiveSpec

=============================================================================
