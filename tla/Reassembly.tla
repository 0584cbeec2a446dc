----------------------------- MODULE Reassembly -----------------------------
(***************************************************************************)
(* One direction of fragmentation: fragment() on the sending end, the      *)
(* Reassembler on the receiving end (src/transport/reliable/fragment.cpp), *)
(* and a network that loses, repeats and reorders single fragments.        *)
(*                                                                         *)
(* A packet is the ordinal of its flush; the bytes of its k-th slice are   *)
(* <<packet, k>>, so a torn packet can be told from a whole one.           *)
(***************************************************************************)
EXTENDS SequenceNumbers, Sequences, FiniteSets, Functions

CONSTANTS Sizes,       \* slices a packet may need
          CountSpace,  \* values of the uint8_t fragment count and id (256)
          MaxGroups,   \* kMaxGroups (16): partial packets tracked
          MaxSent      \* bound: packets sent

ASSUME ReassemblyAssumption ==
    /\ Sizes \subseteq Nat \ {0}
    /\ CountSpace \in Nat \ {0}
    /\ MaxGroups \in Nat \ {0}
    /\ MaxSent \in Nat

VARIABLES
    sent,            \* history: the size of each packet sent, in order
    local_sequence,  \* the number the next packet will carry
    net,             \* fragments the network holds
    groups,          \* Reassembler::groups_, by the packet number on the wire
    arrived,         \* history: <<packet, slice>> pairs that reached reassemble()
    returned         \* history: the packets reassemble() returned

vars == <<sent, local_sequence, net, groups, arrived, returned>>

Init ==
    /\ sent = <<>>
    /\ local_sequence = 1
    /\ net = {}
    /\ groups = <<>>
    /\ arrived = {}
    /\ returned = {}

\* The bytes of a packet of n slices.
WholePacket(packet, n) == [k \in 0 .. n - 1 |-> <<packet, k>>]

\* fragment(): the id and the count are cut to eight bits.
Fragments(packet, seq, n) ==
    { [packet_seq |-> seq,
       fragment_id |-> k % CountSpace,
       fragment_count |-> n % CountSpace,
       chunk |-> <<packet, k>>] : k \in 0 .. n - 1 }

\* Peer::update's fragment-and-send loop.  As for packets (PeerLink), a number
\* is taken again only when no fragment that carries it is still on its way.
Send(n) ==
    /\ Len(sent) < MaxSent
    /\ \A f \in net : f.packet_seq # local_sequence
    /\ sent' = Append(sent, n)
    /\ net' = net \union Fragments(Len(sent) + 1, local_sequence, n)
    /\ local_sequence' = NextSeq(local_sequence)
    /\ UNCHANGED <<groups, arrived, returned>>

Lose(f) ==
    /\ net' = net \ {f}
    /\ UNCHANGED <<sent, local_sequence, groups, arrived, returned>>

----------------------------------------------------------------------------
(* Reassembler::reassemble *)

Empty == <<>>

Malformed(f) == f.fragment_count = 0 \/ f.fragment_id >= f.fragment_count

\* A fragment that is the whole packet never touches the group table.
ReturnSingle(f) ==
    /\ ~Malformed(f)
    /\ f.fragment_count = 1
    /\ returned' = returned \union {[k \in {0} |-> f.chunk]}
    /\ UNCHANGED groups

\* A mistake: the comparison the wrong way round evicts the newest.
Newer(a, b) == IF SeqGreater(a, b) THEN a ELSE b

Older(a, b) == IF SeqGreater(a, b) THEN b ELSE a

\* evict_oldest: one pass in the hash table's order, which may be any, keeping
\* the older of what is kept and the next.  Past half a cycle "older" is not an
\* order, so the pass decides.
Oldest(table) ==
    LET D == DOMAIN table
        n == Cardinality(D)
    IN  { s \in D :
            \E pass \in Bijection(1 .. n, D), kept \in [1 .. n -> D] :
                /\ kept[1] = pass[1]
                /\ \A i \in 2 .. n : kept[i] = Older(kept[i - 1], pass[i])
                /\ kept[n] = s }

NewGroup(f) == [count |-> f.fragment_count,
                chunks |-> [k \in 0 .. f.fragment_count - 1 |-> Empty]]

\* A mistake: the table grows instead of evicting.
WithGroupUnbounded(f) ==
    IF f.packet_seq \in DOMAIN groups THEN {groups}
    ELSE {[s \in DOMAIN groups \union {f.packet_seq} |->
              IF s = f.packet_seq THEN NewGroup(f) ELSE groups[s]]}

\* The table once f's packet has a group in it: find, or evict and create.
WithGroup(f) ==
    LET opened(table) == [s \in DOMAIN table \union {f.packet_seq} |->
                            IF s = f.packet_seq THEN NewGroup(f) ELSE table[s]]
    IN  IF f.packet_seq \in DOMAIN groups THEN {groups}
        ELSE IF Cardinality(DOMAIN groups) < MaxGroups THEN {opened(groups)}
        ELSE { opened(Restrict(groups, DOMAIN groups \ {s})) : s \in Oldest(groups) }

\* A count that disagrees with the group's, or a slot already filled.
Rejected(f, group) ==
    \/ f.fragment_count # group.count
    \/ group.chunks[f.fragment_id] # Empty

\* A mistake: slices are kept in the order they arrive in.
FilledInOrder(f, group) ==
    LET free == { k \in DOMAIN group.chunks : group.chunks[k] = Empty }
    IN  [group EXCEPT !.chunks[CHOOSE k \in free : \A j \in free : k <= j] = f.chunk]

Filled(f, group) == [group EXCEPT !.chunks[f.fragment_id] = f.chunk]

\* A mistake: complete with one slice still missing.
AlmostComplete(group) ==
    Cardinality({ k \in DOMAIN group.chunks : group.chunks[k] = Empty }) <= 1

Complete(group) == \A k \in DOMAIN group.chunks : group.chunks[k] # Empty

\* A fragment of a larger packet, from the group lookup on.
Assemble(f) ==
    /\ ~Malformed(f)
    /\ f.fragment_count # 1
    /\ \E table \in WithGroup(f) :
        LET group  == table[f.packet_seq]
            filled == Filled(f, group)
        IN  \/ /\ Rejected(f, group)
               /\ groups' = table
               /\ UNCHANGED returned
            \/ /\ ~Rejected(f, group)
               /\ ~Complete(filled)
               /\ groups' = [table EXCEPT ![f.packet_seq] = filled]
               /\ UNCHANGED returned
            \/ /\ ~Rejected(f, group)
               /\ Complete(filled)
               /\ groups' = Restrict(table, DOMAIN table \ {f.packet_seq})
               /\ returned' = returned \union {filled.chunks}

\* The fragment stays in the network: it may arrive again.
Receive(f) ==
    /\ arrived' = arrived \union {f.chunk}
    /\ \/ Malformed(f) /\ UNCHANGED <<groups, returned>>
       \/ ReturnSingle(f)
       \/ Assemble(f)
    /\ UNCHANGED <<sent, local_sequence, net>>

Next ==
    \/ \E n \in Sizes : Send(n)
    \/ \E f \in net : Receive(f)
    \/ \E f \in net : Lose(f)

Spec == Init /\ [][Next]_vars

----------------------------------------------------------------------------
Chunk == Nat \X Nat

Fragment == [packet_seq : SequenceNumber, fragment_id : Nat,
             fragment_count : Nat, chunk : Chunk]

TypeOK ==
    /\ sent \in Seq(Sizes)
    /\ local_sequence \in SequenceNumber \ {0}
    /\ net \subseteq Fragment
    /\ DOMAIN groups \subseteq SequenceNumber
    /\ \A s \in DOMAIN groups :
         /\ groups[s].count \in 2 .. CountSpace - 1
         /\ groups[s].chunks \in [0 .. groups[s].count - 1 -> Chunk \union {Empty}]
    /\ Cardinality(DOMAIN groups) <= MaxGroups
    /\ arrived \subseteq Chunk

\* Whatever reassemble() returns is one packet that was sent, whole: no slice
\* of another packet, none missing.  This is what lets PeerLink treat a packet
\* as one datagram.
OnlyWholePackets ==
    \A packet \in returned :
        \E i \in 1 .. Len(sent) : packet = WholePacket(i, sent[i])

Path == INSTANCE DatagramPath
            WITH underway <- { f.chunk[1] : f \in net }, handed <- returned

\* Slicing, the path for slices and reassembly are together a path for whole
\* packets, as PeerLink assumes: what is handed over is a packet on its way.
IsDatagramPath == Path!Spec

\* The packets of which something arrived.
Touched == { c[1] : c \in arrived }

\* Lost fragments of other packets do not starve a packet: once all its slices
\* (255 at most) have arrived it has been returned, if fewer than MaxGroups - 1
\* later packets have been heard of (else its group may have been evicted).
ArrivedIsReturned ==
    \A i \in 1 .. Len(sent) :
        (/\ sent[i] < CountSpace
         /\ \A k \in 0 .. sent[i] - 1 : <<i, k>> \in arrived
         /\ Cardinality({ j \in Touched : j > i }) < MaxGroups - 1)
        => WholePacket(i, sent[i]) \in returned
=============================================================================
