----------------------------- MODULE ServerLoop -----------------------------
(***************************************************************************)
(* The loop of src/server/main.cpp over PeerManager and FixedTimestep:     *)
(* drain the socket, take in what came, run the steps that are due, queue  *)
(* a snapshot for every client, let every Peer flush if its interval is    *)
(* over.  Datagrams arrive at any time, the drain loop's included.  The    *)
(* loop reads the clock once, at its top, so that is where time passes:    *)
(* an iteration may have taken any time.  What a snapshot says is          *)
(* StateSync's business, only how many wait for a flush counts here.       *)
(***************************************************************************)
EXTENDS PeerManager, FixedTimestep

CONSTANTS GoodInterval,  \* the governor's good_interval_us
          BadInterval,   \* the governor's bad_interval_us
          MaxTime        \* bound: the clock's last reading

ASSUME LoopAssumption ==
    /\ GoodInterval \in Nat \ {0} /\ BadInterval \in Nat \ {0}
    /\ MaxTime \in Nat

\* After a flush the governor is in either mode: RateControl says which.
Intervals == {GoodInterval, BadInterval}

VARIABLES
    pc,           \* where the loop is
    incoming,     \* what poll returned and the loop has not looked at
    now, last,    \* the steady clock as this iteration and the one before read it
    accumulator,  \* FixedTimestep::accumulator_
    tick,         \* steps of the simulation so far
    clients,      \* the entity of each endpoint that is a key of the map
    next_id,      \* World::next_id_
    pending,      \* snapshots each Peer has queued (UnreliableSender::pending_)
    todo,         \* the peers update_all has still to visit
    flushed,      \* the peers that are flushed_once_
    last_flush,   \* Peer::last_flush_us_
    interval,     \* RateGovernor::send_interval_us
    stalled       \* history: an iteration took longer than MaxSteps steps

clientVars == <<clients, next_id>>
timeVars   == <<last, accumulator, tick, stalled>>
peerVars   == <<pending, flushed, last_flush, interval>>
loopVars   == <<pc, incoming, now, clientVars, timeVars, peerVars, todo>>
vars       == <<kernelVars, managerVars, loopVars>>

\* An entity id nobody has: what a new ClientState holds.
NoEntity == 0

Init ==
    /\ ManagerInit
    /\ pc = "top"
    /\ incoming = <<>>
    /\ now = 0 /\ last = 0
    /\ accumulator = 0
    /\ tick = 0
    /\ clients = <<>>
    /\ next_id = 1
    /\ pending = [e \in Endpoints |-> 0]
    /\ todo = {}
    /\ flushed = {}
    /\ last_flush = [e \in Endpoints |-> 0]
    /\ interval = [e \in Endpoints |-> GoodInterval]
    /\ stalled = FALSE

----------------------------------------------------------------------------
\* The kernel queues a datagram for the socket.
DatagramArrives ==
    /\ \E e \in Endpoints : Arrive(e)
    /\ UNCHANGED loopVars

----------------------------------------------------------------------------
(* An iteration of the loop *)

\* The top of the loop: read the clock, which says t, and enter poll.
Begin(t) ==
    /\ pc = "top"
    /\ t >= now
    /\ pc' = "drain"
    /\ now' = t
    /\ BeginPoll
    /\ UNCHANGED <<incoming, clientVars, timeVars, peerVars, todo>>

Drain ==
    /\ pc = "drain"
    /\ Route
    /\ UNCHANGED loopVars

\* The socket is empty: poll the peers and return.
Drained ==
    /\ pc = "drain"
    /\ PollPeers
    /\ pc' = "ingest"
    /\ incoming' = Incoming
    /\ UNCHANGED <<now, clientVars, timeVars, peerVars, todo>>

\* The map's operator[]: a key that is missing gets a value of its own.
WithKeys(keys) ==
    [e \in keys \union DOMAIN clients |->
        IF e \in DOMAIN clients THEN clients[e] ELSE NoEntity]

\* One element of incoming: an endpoint that is new gets a player.
Ingest ==
    /\ pc = "ingest"
    /\ incoming # <<>>
    /\ LET in == Head(incoming)
       IN  IF in.is_new
             THEN /\ clients' = [WithKeys({in.from}) EXCEPT ![in.from] = next_id]
                  /\ next_id' = next_id + 1
             ELSE /\ clients' = WithKeys({in.from})
                  /\ UNCHANGED next_id
    /\ incoming' = Tail(incoming)
    /\ UNCHANGED <<kernelVars, managerVars, pc, now, timeVars, peerVars, todo>>

\* Advance the simulation and, if it moved, queue a snapshot for each client.
StepAndBroadcast ==
    /\ pc = "ingest"
    /\ incoming = <<>>
    /\ LET banked == accumulator + (now - last)
           moved  == StepsDue(banked) > 0 /\ conns # {}
       IN  /\ tick' = tick + StepsDue(banked)
           /\ accumulator' = Remainder(banked)
           /\ clients' = IF moved THEN WithKeys(conns) ELSE clients
           /\ pending' = [e \in Endpoints |->
                            IF moved /\ e \in conns THEN pending[e] + 1 ELSE pending[e]]
    /\ last' = now
    /\ stalled' = (stalled \/ now - last > MaxSteps * Dt)
    /\ pc' = "update"
    /\ todo' = conns
    /\ UNCHANGED <<kernelVars, managerVars, incoming, now, next_id,
                   flushed, last_flush, interval>>

\* A mistake: the interval is counted from the last call, not the last flush.
UpdatePeerRestarting(e) ==
    /\ pc = "update"
    /\ e \in todo
    /\ todo' = todo \ {e}
    /\ last_flush' = [last_flush EXCEPT ![e] = now]
    /\ IF e \in flushed /\ now - last_flush[e] < interval[e]
         THEN UNCHANGED <<pending, flushed, interval>>
         ELSE /\ pending' = [pending EXCEPT ![e] = 0]
              /\ flushed' = flushed \union {e}
              /\ \E i \in Intervals : interval' = [interval EXCEPT ![e] = i]
    /\ UNCHANGED <<kernelVars, managerVars, pc, incoming, now,
                   clientVars, timeVars>>

\* Whether Peer::update sends: at once the first time, then by the interval.
Due(e) == e \notin flushed \/ now - last_flush[e] >= interval[e]

\* An iteration of update_all's loop, in any order of the endpoints.
UpdatePeer(e) ==
    /\ pc = "update"
    /\ e \in todo
    /\ todo' = todo \ {e}
    /\ IF Due(e)
         THEN /\ pending' = [pending EXCEPT ![e] = 0]
              /\ last_flush' = [last_flush EXCEPT ![e] = now]
              /\ flushed' = flushed \union {e}
              /\ \E i \in Intervals : interval' = [interval EXCEPT ![e] = i]
         ELSE UNCHANGED peerVars
    /\ UNCHANGED <<kernelVars, managerVars, pc, incoming, now,
                   clientVars, timeVars>>

\* sendto fails, a full send buffer included: nothing catches what send_to
\* throws, so the process ends, some of its peers flushed and some not.
SendFails(e) ==
    /\ pc = "update"
    /\ e \in todo
    /\ Due(e)
    /\ pc' = "dead"
    /\ UNCHANGED <<kernelVars, managerVars, incoming, now, clientVars,
                   timeVars, peerVars, todo>>

EndIteration ==
    /\ pc = "update"
    /\ todo = {}
    /\ pc' = "top"
    /\ UNCHANGED <<kernelVars, managerVars, incoming, now, clientVars,
                   timeVars, peerVars, todo>>

ServerStep ==
    \/ \E t \in now .. MaxTime : Begin(t)
    \/ Drain
    \/ Drained
    \/ Ingest
    \/ StepAndBroadcast
    \/ \E e \in Endpoints : UpdatePeer(e)
    \/ EndIteration

Next ==
    \/ DatagramArrives
    \/ ServerStep
    \/ \E e \in Endpoints : SendFails(e)

Spec == Init /\ [][Next]_vars

\* The process is scheduled, and the clock it reads moves on.  Nothing has to
\* arrive, nothing ceases to, and a send need not fail.
FairSpec ==
    /\ Spec
    /\ WF_vars(ServerStep)
    /\ SF_vars(\E t \in now + 1 .. MaxTime : Begin(t))

----------------------------------------------------------------------------
TypeOK ==
    /\ rx \in Seq(Datagram)
    /\ untaken \in [Endpoints -> Int]
    /\ conns \subseteq Endpoints
    /\ inbox \in [Endpoints -> Seq(Datagram)]
    /\ order \in Seq(Endpoints)
    /\ fresh \subseteq Endpoints
    /\ now \in Nat /\ last \in 0 .. now
    /\ pc \in {"top", "drain", "ingest", "update", "dead"}
    /\ incoming \in Seq([from : Endpoints, is_new : BOOLEAN])
    /\ accumulator \in 0 .. Dt - 1
    /\ tick \in Nat
    /\ DOMAIN clients \subseteq Endpoints
    /\ clients \in [DOMAIN clients -> Nat]
    /\ next_id \in Nat
    /\ pending \in [Endpoints -> Nat]
    /\ todo \subseteq Endpoints
    /\ flushed \subseteq Endpoints
    /\ last_flush \in [Endpoints -> Nat]
    /\ interval \in [Endpoints -> Intervals]
    /\ stalled \in BOOLEAN

\* A poll hands over all that it drained: no datagram waits in an inbox for
\* its endpoint's next one, whichever endpoints were known before.
NothingLeftBehind ==
    pc # "drain" => \A e \in Endpoints : inbox[e] = <<>>

\* When the loop broadcasts, the two maps over endpoints, the server's and the
\* manager's, agree, and every client has a player of its own: operator[]
\* never makes an entry for nobody's entity.
OnePlayerPerClient ==
    pc = "update" =>
        /\ DOMAIN clients = conns
        /\ NoEntity \notin Range(clients)
        /\ IsInjective(clients)

\* The simulation neither loses nor gains time: while no iteration takes
\* longer than the cap, the ticks and the remainder are the time that passed;
\* after a stall it is short of it by whole steps only, and catches nothing up.
KeepsTime ==
    LET lag == last - (tick * Dt + accumulator)
    IN  /\ lag >= 0
        /\ lag % Dt = 0
        /\ ~stalled => lag = 0

\* How many snapshots a packet carries: pacing slower than the tick makes them
\* wait, but never more than the steps that fit into one interval.
PacketsStaySmall ==
    pc = "top" =>
        \A e \in conns : pending[e] <= (interval[e] + Dt - 2) \div Dt

\* The server's tick follows the clock, the loop never waiting for a datagram
\* and the drain loop coming to its end although datagrams keep arriving for
\* ever: as many as NoFlood allows in each poll.  (poll has no limit of its own,
\* and a flood past every bound would keep the server in the drain loop.)
KeepsTicking ==
    <>(pc = "dead" \/ stalled \/ tick = MaxTime \div Dt)
=============================================================================
