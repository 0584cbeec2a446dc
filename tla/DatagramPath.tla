---------------------------- MODULE DatagramPath ----------------------------
(***************************************************************************)
(* What a Peer takes the network for, and PeerLink models: a path for      *)
(* packets that hands over whole ones, each never, once or several times,  *)
(* in any order.  Fragments do not appear: that fragment(), the path for   *)
(* fragments and the Reassembler add up to this is Reassembly's claim.     *)
(***************************************************************************)
EXTENDS SequenceNumbers, Sequences

CONSTANT Sizes  \* slices a packet may need

VARIABLES sent,      \* the size of each packet sent, in order
          underway,  \* the packets the path holds
          handed     \* the packets handed over

vars == <<sent, underway, handed>>

Init == sent = <<>> /\ underway = {} /\ handed = {}

\* A number is taken again only when no packet that carries it is on its way.
Send(n) ==
    LET packet == Len(sent) + 1
    IN  /\ \A i \in underway : SequenceOf(i) # SequenceOf(packet)
        /\ sent' = Append(sent, n)
        /\ underway' = underway \union {packet}
        /\ UNCHANGED handed

\* The packet may be handed over again.
Deliver(i) ==
    /\ handed' = handed \union {[k \in 0 .. sent[i] - 1 |-> <<i, k>>]}
    /\ UNCHANGED <<sent, underway>>

Drop(i) ==
    /\ underway' = underway \ {i}
    /\ UNCHANGED <<sent, handed>>

Next ==
    \/ \E n \in Sizes : Send(n)
    \/ \E i \in underway : Deliver(i) \/ Drop(i)

Spec == Init /\ [][Next]_vars
=============================================================================
