----------------------------- MODULE MCPeerLink -----------------------------
(***************************************************************************)
(* PeerLink, with the history of AckHistory, on small instances: two       *)
(* peers, of which the runs say who queues how many messages and sends how *)
(* many packets.                                                           *)
(***************************************************************************)
EXTENDS AckHistory

CONSTANTS server, client

TwoPeers == {server, client}

ServerClient(s, c) == [p \in TwoPeers |-> IF p = server THEN s ELSE c]

NoMessages == ServerClient(0, 0)
OneEach == ServerClient(1, 1)
TwoEach == ServerClient(2, 2)
ThreeEach == ServerClient(3, 3)
OneFromClient == ServerClient(0, 1)
ThreeFromServer == ServerClient(3, 0)
FourAndTwo == ServerClient(4, 2)
SixAndOne == ServerClient(6, 1)
=============================================================================
