--------------------------- MODULE MCLinkLiveness ---------------------------
(***************************************************************************)
(* LinkLiveness on a small instance: the client queues a message, and the  *)
(* server's packets, which carry the acks of it, overtake one another.     *)
(***************************************************************************)
EXTENDS LinkLiveness

CONSTANTS server, client

TwoPeers == {server, client}

ServerClient(s, c) == [p \in TwoPeers |-> IF p = server THEN s ELSE c]

NoMessages == ServerClient(0, 0)
OneFromClient == ServerClient(0, 1)
TwoAndOne == ServerClient(2, 1)

\* Once every message is delivered and retired, which both last, a behaviour cannot
\* violate EventuallyDelivered any more: the run leaves out what comes after.
UnderWay == \E p \in Peers : \E m \in Messages(p) : m \notin Given(Other(p)) \ unacked[p]
=============================================================================
