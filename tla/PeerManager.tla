---------------------------- MODULE PeerManager ----------------------------
(***************************************************************************)
(* reliable::PeerManager: one Peer per remote endpoint over the one socket *)
(* of the server (src/transport/reliable/peer_manager.{h,cpp}).  poll      *)
(* drains the socket, datagram by datagram and while more may arrive, into *)
(* an inbox per endpoint, and then lets every Peer that got something      *)
(* drain its inbox.  What a Peer makes of its datagrams is PeerLink's      *)
(* business: here it only takes them.                                      *)
(***************************************************************************)
EXTENDS Integers, Sequences, Functions

CONSTANTS Endpoints,    \* where datagrams may come from
          MaxQueue,     \* datagrams the kernel keeps for the socket
          MaxArrivals   \* bound: an endpoint's datagrams not taken by its Peer

ASSUME ManagerAssumption == MaxQueue \in Nat /\ MaxArrivals \in Nat

VARIABLES
    rx,        \* the socket's receive queue
    untaken,   \* history: how many datagrams of each endpoint the kernel has
               \* queued and the endpoint's Peer has not taken yet
    conns,     \* the keys of conns_
    inbox,     \* Inbox::queue_ of each endpoint
    order,     \* poll's locals: the endpoints heard in this poll, as they came
    fresh      \* ... and those of them that are new

kernelVars == <<rx, untaken>>
managerVars == <<conns, inbox, order, fresh>>

\* An endpoint's datagram, the n-th of those its Peer had not taken when the
\* kernel queued it.
Datagram == [from : Endpoints, n : Int]

ManagerInit ==
    /\ rx = <<>>
    /\ untaken = [e \in Endpoints |-> 0]
    /\ conns = {}
    /\ inbox = [e \in Endpoints |-> <<>>]
    /\ order = <<>>
    /\ fresh = {}

\* Assumption on the environment: of the datagrams of an endpoint at most
\* MaxArrivals reach the socket between the end of a drain loop and the end of
\* the next.  There may be as many again in every poll.
NoFlood(e) == untaken[e] < MaxArrivals

\* The kernel queues a datagram; it drops what finds the queue full.
Arrive(e) ==
    /\ NoFlood(e)
    /\ Len(rx) < MaxQueue
    /\ untaken' = [untaken EXCEPT ![e] = @ + 1]
    /\ rx' = Append(rx, [from |-> e, n |-> untaken[e] + 1])
    /\ UNCHANGED managerVars

\* poll begins with empty lists.
BeginPoll ==
    /\ order' = <<>>
    /\ fresh' = {}
    /\ UNCHANGED <<kernelVars, conns, inbox>>

\* A mistake: only new endpoints are put on the list of peers to poll.
HeardIfNew(e) == IF e \in conns \union Range(order) THEN order ELSE Append(order, e)

\* The list of peers to poll, after a datagram from e.
Heard(e) == IF e \in Range(order) THEN order ELSE Append(order, e)

\* A mistake: an endpoint whose Conn exists by its second datagram is not new.
FreshIfAlone(e) == IF e \in conns THEN fresh \ {e} ELSE fresh \union {e}

\* The new endpoints, after a datagram from e.
FreshWith(e) == IF e \in conns THEN fresh ELSE fresh \union {e}

\* A mistake: the datagram that creates the Conn is not delivered to it.
RouteAfterContact ==
    /\ rx # <<>>
    /\ LET d == Head(rx)
       IN  /\ conns' = conns \union {d.from}
           /\ fresh' = FreshWith(d.from)
           /\ inbox' = IF d.from \in conns
                         THEN [inbox EXCEPT ![d.from] = Append(@, d)] ELSE inbox
           /\ order' = Heard(d.from)
    /\ rx' = Tail(rx)
    /\ UNCHANGED untaken

\* An iteration of poll's loop: a datagram goes to its sender's inbox.
Route ==
    /\ rx # <<>>
    /\ LET d == Head(rx)
       IN  /\ conns' = conns \union {d.from}
           /\ fresh' = FreshWith(d.from)
           /\ inbox' = [inbox EXCEPT ![d.from] = Append(@, d)]
           /\ order' = Heard(d.from)
    /\ rx' = Tail(rx)
    /\ UNCHANGED untaken

\* A mistake: a receive that blocks while nothing has come.
PollPeersBlocking ==
    /\ rx = <<>>
    /\ order # <<>>
    /\ untaken' = [e \in Endpoints |->
                     IF e \in Range(order) THEN untaken[e] - Len(inbox[e]) ELSE untaken[e]]
    /\ inbox' = [e \in Endpoints |-> IF e \in Range(order) THEN <<>> ELSE inbox[e]]
    /\ UNCHANGED <<rx, conns, order, fresh>>

\* The socket says EAGAIN and the loop ends; every Peer on the list is polled.
PollPeers ==
    /\ rx = <<>>
    /\ untaken' = [e \in Endpoints |->
                     IF e \in Range(order) THEN untaken[e] - Len(inbox[e]) ELSE untaken[e]]
    /\ inbox' = [e \in Endpoints |-> IF e \in Range(order) THEN <<>> ELSE inbox[e]]
    /\ UNCHANGED <<rx, conns, order, fresh>>

\* What poll returns: the peers heard, in that order, and whether they are new.
Incoming == [i \in DOMAIN order |-> [from |-> order[i], is_new |-> order[i] \in fresh]]

----------------------------------------------------------------------------
\* No datagram the socket accepted is lost, repeated, reordered or given to
\* another endpoint's Peer on its way through the drain loop and the inboxes:
\* e's inbox and then what e has in the socket's queue are the datagrams that
\* e's Peer has not taken, one after the other.
EveryDatagramReachesItsPeer ==
    \A e \in Endpoints :
        LET routed  == Len(inbox[e])
            waiting == { i \in DOMAIN rx : rx[i].from = e }
        IN  /\ \A i \in DOMAIN inbox[e] : inbox[e][i] = [from |-> e, n |-> i]
            /\ routed <= untaken[e]
            /\ { rx[i].n : i \in waiting } = routed + 1 .. untaken[e]
            /\ \A i, j \in waiting : i < j => rx[i].n < rx[j].n
=============================================================================
