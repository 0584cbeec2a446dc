---------------------------- MODULE LinkLiveness ----------------------------
(***************************************************************************)
(* PeerLink that runs for ever, over a path that loses, repeats, delays    *)
(* and reorders datagrams but is never down, and holds none back, for half *)
(* a cycle of sequence numbers: what an application queues on the reliable *)
(* channel is delivered in the end, and resent no longer.                  *)
(***************************************************************************)
EXTENDS PeerLink

\* How far p's next number is from the newest of p's that the other end has.
Outage(p) == Distance(local_sequence[p], remote_sequence[Other(p)])

\* The path's assumption: when p has sent half a cycle of packets and the other
\* end has had none, it gets one before p sends another.  (The 16-bit numbers
\* leave it 32767 packets, at 30 per second a quarter of an hour.)
PathUp(p) == Outage(p) < HalfSpace

IsNewest(pkt) == NextSeq(pkt.sequence) = local_sequence[pkt.from]

\* ...and no datagram is held back for so long, and then passes for a new one.
Prompt(p) ==
    \A pkt \in PacketsFrom(p) : Distance(local_sequence[p], pkt.sequence) < HalfSpace

Send(p) == PathUp(p) /\ Prompt(p) /\ Flush(p)

\* What the path may drop: anything, but not the last packet it has to deliver.
Drop(pkt) == (IsNewest(pkt) => PathUp(pkt.from)) /\ Lose(pkt)

\* p gets the newest packet of the other end.
GetNewest(p) == \E pkt \in PacketsFrom(Other(p)) : IsNewest(pkt) /\ Poll(p, pkt)

\* The unreliable channel, of which nothing is asked, stays idle.
LiveNext ==
    \/ \E p \in Peers : QueueReliable(p) \/ Send(p)
    \/ \E p \in Peers, pkt \in net : Poll(p, pkt)
    \/ \E pkt \in net : Drop(pkt)

\* Each end's loop calls update and poll again and again, and the governor's
\* interval passes; a datagram does not stay in the path for ever.
LiveSpec ==
    /\ Init /\ [][LiveNext]_vars
    /\ \A p \in Peers :
          /\ WF_vars(Send(p))
          /\ WF_vars(GetNewest(p))
          /\ WF_vars(\E pkt \in PacketsFrom(p) : Drop(pkt))

----------------------------------------------------------------------------
\* The last packet sent is never taken for an old one, however the numbers
\* wrapped and whatever came before or in between: when it arrives it is what the
\* other end acknowledges (sequence_greater_than in Connection::record_received).
NewestIsRecognised ==
    \A p \in Peers : \A pkt \in PacketsFrom(p) :
        IsNewest(pkt) =>
            \/ pkt.sequence = remote_sequence[Other(p)]
            \/ SeqGreater(pkt.sequence, remote_sequence[Other(p)])

\* Every message queued on the reliable channel reaches the other end's
\* application ("Enqueue a message for guaranteed delivery", channel.h:31), and the
\* sender learns of it and stops resending: unacked_ empties.
EventuallyDelivered ==
    \A p \in Peers : \A m \in Messages(p) :
        m < queued[p] ~> m \in Given(Other(p)) \ unacked[p]
=============================================================================
