# Verification of the authoritative-netcode transport and state sync

TLA+ models of the repository's transport library (`transport/reliable/`) and of
the state synchronisation built on it (`sim/`, `server/main.cpp`,
`bots/main.cpp`), TLC configurations that check them on small instances, and
TLAPS proofs of the properties that matter most for every value of the
constants. Paths below are relative to the repository.

## 1. The system

A server and many clients exchange UDP datagrams. Each end of a link is a
`reliable::Peer`:

    application ── queue_reliable / queue_unreliable ──> ChannelMux ─┐
                                                                     v
       Peer::update:  RateGovernor interval -> Connection::next_header
                      -> pack -> fragment -> send_to -> governor.update
       Peer::poll:    try_recv_from -> Reassembler -> Connection::on_received
                      -> scan of 33 numbers -> on_acked (channels, RTT)
                      -> ChannelDemux::route ──> application

The server loop polls all clients, applies their inputs to the `World`, steps
it at a fixed rate, pushes a full snapshot into a ring and sends each client a
keyframe or a delta against the tick that client confirmed; a client patches
its baseline and stamps the tick it holds on each input it sends. Everything is
single-threaded per process: the concurrency is between processes and the
network, and between a call and the packets that were in flight when it ran.

| Component | State | Operations | Correct when |
|---|---|---|---|
| `Connection` | next number, newest number received, `received_` and `acked_` rings of 1024 bits | `next_header`, `on_received`, `is_acked` | acks name packets that arrived; the newest stays the newest across the wrap |
| Channels | `unacked_`, `in_flight_`, `next_id_`, `seen_`, `pending_` | `queue`, `pack`, `on_acked`, `receive`, `route` | each reliable message handed over once, and retired only after that |
| `Peer` | composes the above, pacing, statistics | `update`, `poll` | the promise of the channels holds over a lossy path |
| `fragment` / `Reassembler` | table of partial packets | `fragment`, `reassemble`, `evict_oldest` | only whole packets come out; loss does not starve later packets |
| `RttEstimator`, `RateGovernor` | send times, average; mode, penalty, two time stamps | `on_sent`, `on_acked`; `update` | the rate follows the link and does not thrash |
| `PeerManager` | one `Conn` with its `Inbox` per remote endpoint | `poll`, `update_all`, `endpoints` | every datagram reaches its own peer, in the same poll; first contact is announced once |
| `World` | entities, ids | `add_player`, `apply_input`, `step` | positions stay inside the bounds |
| `encode_*`, `apply_snapshot` | none | | a delta applied to its baseline gives the new state |
| `SnapshotHistory` | ring of snapshots | `push`, `get`, `encode_for` | the view recomputed for a baseline is the one the client has |
| Server loop | clock, tick, per-client entity and `last_received_tick` | ingest, step, record, broadcast, flush | never a delta against something the client may lack; one player per client; ticks keep the time; snapshots do not pile up |
| Bot | baseline | send input, apply snapshot | its state is the server's state of one tick, and a recent one again and again |
| `FixedTimestep` | accumulator | `advance` | no time lost or gained but past the cap, and then by whole steps |
| `bitstream`, `quantize`, `input.h` | the writer's accumulator | pack and unpack | what is written is what is read, and a buffer cut short is refused |
| `SimSocket`, `UdpSocket`, metrics, legacy client, examples | | | not modelled, see section 7 |

What is hard here, and which the unit tests hardly reach (the full list, with
lines, is `hazards` in `PROJECT.json`): rings indexed by a sequence number that
are never cleared; acknowledgements arriving late, twice or out of order against
state that has moved on; ids and numbers that wrap; fragments of different
packets interleaved in a bounded table; a baseline view that is recomputed
rather than remembered; snapshots and inputs overtaking each other; penalties
and healthy streaks sampled only when a packet happens to be sent; a server loop
that drains its socket while more arrives, keeps two maps over its clients and
ticks at one rate while it flushes at another.

## 2. The modules

| Module | Models | Notes |
|---|---|---|
| `SequenceNumbers` | number arithmetic of `connection.cpp` | `SeqSpace`, `BufferSize`, `AckBits` are parameters (65536, 1024, 32) |
| `ReliableDelivery` | what the reliable channel promises, no packets | abstract specification |
| `PeerLink` | two `Peer`s and a UDP path | refines `ReliableDelivery` (`KeepsPromise`) |
| `AckHistory` | `PeerLink` with a packet count and a history of which packets arrived | what an ack means |
| `LinkLiveness` | `PeerLink` that runs for ever over a path without an outage or a delay of half a cycle | fairness; messages get through |
| `DatagramPath` | what `Peer` takes the network for: a path for whole packets | abstract specification |
| `Reassembly` | `fragment`, `Reassembler` and a path for single fragments | refines `DatagramPath` (`IsDatagramPath`), which justifies packets as single datagrams in `PeerLink` |
| `RateControl` | `RttEstimator`, `RateGovernor`, pacing of `Peer::update` | fairness; the mode follows the link |
| `PeerManager` | `poll` datagram by datagram, inboxes, first contact, the kernel's queue | no specification of its own: its actions are steps of `ServerLoop` |
| `FixedTimestep` | `advance` | two operators |
| `ServerLoop` | the loop of `server/main.cpp` over `PeerManager` and `FixedTimestep` | composes both; fairness |
| `StateSync` | `World`, snapshots, `SnapshotHistory`, what the server sends, bot | network as the application sees the unreliable channel |
| `Bits` | the shifts and masks of `bitstream.cpp` | on numbers of any size |
| `BitStream` | `BitWriter`, `BitReader` | over `Bits`; width of a byte and of `acc_` are parameters |
| `SnapshotWire` | the wire format of the snapshots of `StateSync`, over `BitStream` | encoder and decoder |
| `CatchUp` | one client's snapshots and acks on a server that never stops | ticks as ages; pacing, restarts; fairness |
| `MCPeerLink`, `MCLinkLiveness`, `MCStateSync` | constants of the runs | |
| `*Proofs` | theorems of the module they are named after | `PeerLinkProofs` also those of `AckHistory` and `LinkLiveness`, `StateSyncProofs` also those of `SnapshotWire` |
| `NumberLemmas` | what those need of numbers: induction, recursion, remainders, powers of two | |

Correspondence with the code, by action; `PROJECT.json` maps each definition to
its lines.

**PeerLink.** `QueueReliable`, `QueueUnreliable` are the two `queue_*` calls.
`Flush` is `Peer::update` past the pacing test: header with the ack bits, pack of
the whole unacknowledged set and of the unreliable queue, the new number's
`acked_` slot cleared, the number recorded in `in_flight_`. `Poll` is one
iteration of the loop in `Peer::poll` with everything it calls: record the
number, set the slots the header acknowledges, scan the 33 numbers, retire,
hand over what `seen_` does not know. Draining several datagrams is several such
steps: `route` reads nothing the loop changes. `Lose` drops a datagram; one that
is polled stays in the network, so repetition and reordering need no actions of
their own. A message is its ordinal, its id the ordinal modulo `IdSpace`.
Ring slots are sets of indices that are true.

**AckHistory** adds `packets_sent_`, with the bound `MaxPackets` on it, `arrived`
(which of the other end's packets came) and `leapt` (an arrival was half a number
cycle away from the newest, where "newer" is undefined). A step of it is a step
of `PeerLink`, so what is proved of `PeerLink`'s `Spec` holds of it.

**LinkLiveness** restricts `PeerLink` instead of bounding it: an end sends, and the
path drops, only as `PathUp` and `Prompt` allow (section 3), and a step of it is
again a step of `PeerLink`; there is no bound on packets, and
the rings and the numbers go round for ever. The unreliable channel stays idle in it.

**Reassembly.** `Send(n)` is the flush of a packet of `n` slices, `Receive(f)` all
of `reassemble` for one fragment: the checks, the single-slice return, the group
lookup with eviction, the disagreement and duplicate checks, the completion.
`evict_oldest` compares numbers in a pass over a hash table, and past half a cycle
the comparison is no order: `Oldest` is every group some pass may end with.

**RateControl.** Time stamps are modelled by their age, capped where no comparison
changes any more, so the state space is finite although time is not. The
average is modelled by the side of the threshold it is on: a sample on the
same side keeps it there (it is a convex combination), one on the other side
may or may not take it across, the first replaces it. `Acked(s)` is `on_acked`,
`Flush(s)` a due `Peer::update` with `on_sent` and the `RateGovernor::update` that
follows the send (`Seed`, `Drop`, `Return`, `Stay` are its branches). Slots are
used in any order, a superset of the order of the numbers.

**PeerManager, ServerLoop.** `Arrive` is the kernel queueing a datagram, at any
point of the loop. `Begin` reads the clock and enters `poll`; `Drain` is one
iteration of `poll`'s while loop (`Route`: the map lookup or insertion, the inbox,
the lists of endpoints heard and new); `Drained` is the receive that finds the
socket empty, with the loop over the peers that follows. `Ingest` takes one
element of what `poll` returned, `StepAndBroadcast` is `advance`, the steps and the
queueing of a snapshot per client, `operator[]` included, `UpdatePeer` is one
iteration of `update_all` in any order, `SendFails` the exception of a failing
`sendto` in it. A Peer only takes its datagrams (a history, `untaken`, counts those it has not taken,
so that arrivals need no end) and counts the snapshots it has queued, and after a flush its interval is either of the two: `RateControl` and
`StateSync` say more. The clock moves at the top of the loop, which is the only place where the
loop reads it.

**StateSync.** `Join` and `Ingest` are the ingest of one message, `ServerTick(n)` an
iteration that owes `n` steps: step, record the last of them, broadcast.
`SendInput` and `ApplySnapshot` are the bot's. Positions are one-dimensional,
quantized to `0 .. MaxLevel` with the code's rounding; area of interest is a
distance. Blobs stay in the network once sent, which gives loss, repetition and
reordering; inputs can be lost, repeated and reordered too.

**BitStream, SnapshotWire.** `WriteBits` keeps the whole of `acc_`, stale high bits
included; `ReadBits` reads bit by bit and refuses what goes past the end. `Encode`
writes a blob of `StateSync` as `encode_keyframe` and `encode_delta` do, entities in
the order of their ids; `Decode` reads it in the order of `apply_snapshot`. Loops over
bits and entities are recursive functions (`WriteEntities`, `ReadBits`), so that they can
be proved about.

**CatchUp.** A snapshot is its tick, and a tick is how long ago it was, so that the
server can run for ever in a finite state space. `Tick` is an iteration that owes
one step: every age grows, a snapshot is queued against the acknowledged tick if
the ring holds it, and the queue goes out as one packet when the Peer's interval
is over. `Receive` applies a packet's snapshots one by one, `ReceiveCopy` leaves it
in the network, `Ingest` is the server's monotonic ack, `Restart` a client that
starts anew at the same endpoint.

## 3. Assumptions on the environment

- `NothingOutlivesACycle` (`PeerLink`), and the guard of `Send` in `Reassembly`: no
  datagram, and no acknowledgement of a number, is still under way when the
  16-bit counter comes round to that number, 36 minutes later at 30 Hz. It also
  rules out a direction that is down for that long while the other works.
- `IdsSuffice` (theorems): an end queues no more messages than there are ids.
  `PeerLinkIdWrap` shows it is needed.
- `NumberIsFree`, `SizesFit` (theorems of `Reassembly`): no packet goes out under a number
  that still names a group of the table, and a packet has at most 256 slices (256 travels
  as count 0 and is refused). The code does not see to the first, and `ReassemblyWrap`
  shows that it is needed; on the first lap of the numbers (`FirstLap`) it holds by itself.
  The second is needed too: `fragment.cpp:31` cuts the count to eight bits unchecked, so 257
  slices travel as count 1 and come out as one-slice packets, though `fragment.h:21`
  says the count caps a packet at 255 (a model instance with `CountSpace = 3` and a
  size of 4 reaches it; no listed run does).
- `MaxSteps = 1` (theorem and run of `AgedOutFallsBack`): the loop keeps up. The
  run `StateSyncSkippedSlots` shows what happens otherwise.
- `BufferSize < SeqSpace` (theorem of `FirstLapAcksAreTrue`): 1024 and 65536 in the code.
- `Fresh` (theorem of `ArrivedIsReturned`): no group lingers in the table while half a
  cycle of packets is sent (32767, a quarter of an hour at 30 Hz), for among so few
  "older" is an order. A group orphaned longer ago passes for the newest, and a
  live one is evicted in its place. For the first 32767 packets (`HalfLap`) it holds by itself.
- `PathUp` (`LinkLiveness`): when an end has sent half a cycle of packets of which the
  other end has had none (32767 packets, a quarter of an hour at 30 Hz), the path
  delivers the next. Without it the newest number looks older than the one held,
  and no ack advances until the numbers come round.
- `Prompt` (`LinkLiveness`): no datagram is held back for half a cycle while its sender
  goes on. Without it the late one looks newer than what the other end holds, which
  then goes back half a cycle and is stuck as after an outage: with two datagrams in
  flight both properties of the run fail (the proof of `NewestIsRecognised` does not
  go through either).
- `NoFlood` (`ServerLoop`): from the end of one drain loop to the end of the next, at most
  `MaxArrivals` datagrams of an endpoint reach the socket, and as many again in every
  poll. `poll` has no limit of its own (`peer_manager.cpp:18`): a flood that outruns the
  drain loop for ever would keep the server in it, and nothing in the code excludes
  that. `KeepsTicking` is checked under this assumption only; the theorems about
  `ServerLoop` hold for any value of the bound.
- `CatchUp`: an iteration owes one step (several are `StateSyncSkippedSlots`), and the
  network forgets a packet after `MaxAge` ticks.
- `WireAssumption` (`SnapshotWire`): ticks, levels, counts and entity ids fit their
  fields, and `acc_` has room for a field on top of an unfinished byte (7 + 32 bits of
  64). Ids are 16 bits on the wire and are not used again, so the first is at most
  65535 clients in the life of a server.
- Time is counted in whole units: the rounding of `FixedTimestep`'s doubles is left
  out.
- Corrupted or foreign datagrams are not modelled.

## 4. The runs

Each run finishes without error or finds the violation it is meant to find
(`expect` in `PROJECT.json`).

| Run | What it checks | Bounds, and why they are enough |
|---|---|---|
| `LinkLiveness` | the last packet sent is never taken for an old one; a queued reliable message is delivered, and retired | no bound on packets; one message from the client, 1 datagram in flight from it and 2 from the server, whose acks overtake one another; a ring of 1 slot, 6 numbers: every lap of the ring and of the numbers meets loss and delay, with the comparison at its limit. The constraint `UnderWay` leaves out the states after the message is both delivered and retired: both last, so nothing that violates `EventuallyDelivered` goes there |
| `PeerLinkBothWays` | no message retired undelivered, none delivered twice; packets cover their ack window (`PacketCoversWindow`, `AckedWindowGiven`: the two halves of the inductive argument); headers leave no arrival out, and acks are true in the rings' first lap; the acknowledged number is the newest, across the wrap; refinement of `ReliableDelivery` | a message each way and an unreliable one, 6 packets against 1, 5 usable numbers, rings of 3 slots, 2 ack bits: the numbers wrap past the reserved 0, the rings go round twice, so stale bits are set and read; 2 datagrams in flight per direction for overtaking |
| `PeerLinkIdWrap` | finds the loss of the message that reuses an id | 2 ids, 3 messages |
| `StaleAckBits` | finds a header that acknowledges a packet that has not arrived, by the ring bit of the packet one lap before it | ring of 2, 4 packets of which the second is lost, 9 usable numbers: no arrival leaps half a cycle |
| `Reassembly` | only whole packets returned, and only ones on their way: refinement of `DatagramPath`; arrived packets are not starved by partial ones; the table stays bounded | 3 packets of 1 to 3 slices, 2 groups: eviction happens with every pair; the count field holds 2, so a size of 3 is cut to 0 and refused |
| `ReassemblyWrap` | finds a packet stitched from two | 4 packets in a space of 4 |
| `RateControl` | a return to Good is earned by an unbroken streak; entries into Good spread out; the mode settles with the link | penalties 2, 4, 7: the cap is not a doubling; dwell, threshold and intervals all differ |
| `StateSync` | a client's state is the server's view of one tick; deltas only against what the client applied; overwritten baselines fall back to a keyframe; what is sent is read from the wire as written, and refused when cut short anywhere | 2 clients that leave and enter each other's sight, ring of 2 slots and 3 ticks: slots are reused; clients are symmetric (nothing orders them). Bytes of 3 bits and an accumulator of 4, so that fields of 2 bits straddle both |
| `StateSyncSkippedSlots` | finds a delta against a baseline older than the ring | 2 steps in one iteration |
| `ServerLoop` | no datagram lost, repeated or given to another Peer between the socket and its Peer; nothing left in an inbox; one player per client; ticks keep the time; snapshots do not pile up; the simulation goes on | arrivals without end, from 2 endpoints with at most 2 datagrams each that no poll has taken yet, through a socket that holds 2 (a poll drains up to 4, half of them while it runs); steps of 2 units, at most 2 per iteration, intervals of 2 and 5 (one a multiple of the step, one not), a clock up to 7: an iteration may overrun the cap and another follow |
| `CatchUp` | the client holds a recent state again and again | no bound on ticks; ring of 3, flushes 2 ticks apart, packets up to 2 ticks late: a baseline in the network may be older than the ring; one restart |
| `PacedDeltas` | finds a delta dropped on a link without a fault | flushes 2 ticks apart |

Bounds are `Max...` constants and appear in the guards of the actions they bound
(`MaxPackets`, `MaxInFlight`, `MaxReliable`, `MaxUnreliable`, `MaxSent`, `MaxTick`,
`MaxInputs`, `MaxQueue`, `MaxArrivals`, `MaxTime`, `MaxRestarts`, `MaxAge`).
`CHECK_DEADLOCK FALSE` in the runs of the bounded models is for that reason only:
when every message is used up, the network is empty and the clock has stopped
nothing is left to do; in `ServerLoop` the process may also have ended. `RateControl`
is unbounded and is checked for deadlock.

The runs on one link use `HistorySpec`, and `LinkLiveness` uses `LiveSpec`, both
restrictions of `PeerLink`'s `Spec` (`HistoryImplementsLink`,
`LiveLinkImplementsLink`): the theorems about `Spec` hold of them.

Each property of a passing run is violated when one mapped definition is replaced
by a plausible mistake (the operators commented "A mistake" in the modules, listed
under `mutants`).

### Fairness

The loops in `server/main.cpp` and `bots/main.cpp` never wait: they call `poll` and
`update` again and again, whether or not anything arrives. The fairness rests on that.

- `RateControl`: weak fairness of the clock, and of a flush that is due. Acks carry
  no fairness: the network may stay silent.
- `ServerLoop`: weak fairness of the loop's steps together, and the clock, read
  infinitely often, moves on (strong fairness of `Begin` with a later reading).
  Arrivals and failing sends carry none, and arrivals may go on for ever. That each
  drain loop ends rests on `NoFlood` (section 3), not on fairness.
- `LinkLiveness`: weak fairness of `Send` for each end, of the poll of the newest
  packet, and of dropping: a datagram does not stay in the path for ever. Loss is
  unrestricted but for `PathUp`.
- `CatchUp`: weak fairness of the server's ticks and strong fairness of receiving:
  not every packet is lost. Nothing is asked of the acks, which may all be lost.

The other runs check safety only, where the network may lose everything.

## 5. What the runs found

1. *Stale ack bits* (`connection.cpp:44`). A slot of `received_` is never cleared, so
   from the 1025th packet on a header can acknowledge a packet that has not arrived:
   `HeadersNameArrivals` fails, while its converse `AcksSurviveLoss`, that headers leave no
   arrival out, holds. In the trace packet 1 arrives, 2 is lost, 4 overtakes 3, and the header
   that acknowledges 4 names 3 by the slot it shares with 1. No message
   is lost by it: a packet carries the whole unacknowledged set, so a header with
   the stale bit acknowledges a packet that covers the lost one. That is what
   `PacketCoversWindow` and `AckedWindowGiven` say and what the proof rests on; a
   sender that resent less would lose messages (it is a mutant of
   `NoFalseRetire`). RTT samples are wrong by it, and `is_acked` is; for a packet a
   whole ring of packets (1024, half a minute at 30 Hz) newer than the one an ack is
   of, `is_acked` is also wrong if that ack comes so late (`connection.cpp:71`).
2. *Reliable ids wrap* (`channel.cpp:60`): message 65537 is dropped as a repeat and
   retired.
3. *Orphaned groups* (`fragment.cpp:65`) wait for the number cycle and stitch two
   packets together; nothing ages them out.
4. *Skipped ring slots* (`snapshot_history.cpp:42`): after an iteration of several
   steps a baseline older than the ring is still found. The delta is correct
   (`ViewConsistency` does not depend on it); only the stated bound is not kept.
5. *Paced deltas* (`snapshot.cpp:134`). The server queues a snapshot per tick at
   60 Hz and flushes at 30 Hz at best, so a packet carries two deltas, both against
   the one baseline the client has acknowledged. The client applies the older, which
   changes its tick, and refuses the newer: of the deltas of a packet all but the
   first are sent in vain, and the client is behind by as many ticks. The design
   note calls what is dropped stale or reordered.

Also seen, and not a disagreement with any text of the repository: keyframes that
arrive out of order take the client, and the tick it stamps, back, while the
server's ack of it is monotonic; the server may then send deltas the client must
refuse, until the newer tick leaves the ring (`SelfHealing` holds with it). And a
send that fails ends the server: nothing catches what `send_to` throws.

## 6. What is proved

All proofs are checked by TLAPS from the constants' named assumptions
(`SeqAssumption`, `LinkAssumption`, `ReassemblyAssumption`, `RateAssumption`,
`SyncAssumption`, `ManagerAssumption`, `StepAssumption`, `LoopAssumption`,
`HistoryAssumption`, `CatchUpAssumption`, `BitAssumption`, `WireAssumption`).

- `NumberLemmas`: the library's induction theorems take an operator as a parameter, which
  the provers cannot instantiate. Here induction is stated of sets instead, from
  the least element of a set of naturals: a set that has 0 and, with a number, its
  successor has them all (`InductionUpTo`). By it a function defined by recursion exists
  and is unique (`FiniteRecursion`, `Recursion`, `OneRecursion`), hence `Pow2` is what its
  definition says (`Pow2Def`); then remainders, and cutting a number at a bit and putting
  it together again.
- `SequenceNumbersProofs`: "newer" is "at most half the space ahead"; of two
  different numbers exactly one is newer, also at exactly half.
- `PeerLinkProofs`, the link: `TypeCorrect`; `AtMostOnceHolds`, without assuming that ids
  suffice (`seen_` contains the id of everything delivered);
  `NoFalseRetireHolds`, `PacketCoversWindowHolds`, `AckedWindowGivenHolds` and
  `LinkKeepsPromise` under `IdsSuffice`. `NoFalseRetire` is
  not inductive: the header that retires a message names a number whose bit may
  be stale. The invariant is `Covered`: a packet in flight carries every message that
  an ack of any number in its own window would retire, hence an end whose newest
  number is `a`, or that has an ack of `a` on the wire, has been given all of them.
  `OrdinalsStep` first shows that an id stands for one message. The refinement maps
  "retired" to queued and no longer in `unacked_`; a poll is one `Hear`.
- `PeerLinkProofs`, the history: `RemoteSequenceIsNewestHolds`, from `Numbered` (a datagram's number
  is that of a packet that was sent, and what arrived was sent) and
  `NewestHeld`: of two packets less than half a cycle apart the later has the newer
  number, wherever the numbers wrap and although each lap skips 0
  (`AheadIsGreater`), so `record_received` moves on exactly when a later packet comes.
  `AcksSurviveLossHolds`, from `Recorded`: a slot once set stays set, so a number in the window
  that arrived is named (`RecordedIsAcknowledged`). `FirstLapAcksAreTrueHolds`, from `AcksTraced`: on any lap a slot
  that is set in `received_`, in an ack on the wire or in `acked_` is the slot of a
  packet that arrived (`AckedSlotsArrivedHolds`, the truth that is left of a stale bit);
  on the first lap of the rings no two packets share a slot. `NewestIsRecognisedHolds` and `AckOnlyAdvances` on the link of
  `LinkLiveness`, from `AllTimely`: all that is under way, and what the other end holds,
  is less than half a cycle behind the last number sent, where the comparison is an
  order (`Behind`).
- `ReassemblyProofs`: `TypeCorrect`, with the bound on the table. `Carries(s, i)` says that
  packet `i` is the last that went out under number `s`. The invariant of
  `ReturnsOnlyWholePackets` and `IsDatagramPathHolds` is that a fragment on its way, and a
  group of the table, is of the packet its number carries; a group's chunks are slices of
  that one packet, at their places, with its count; eviction may choose any group. Only a
  flush changes what a number carries, and `NumberIsFree` is exactly that it does so to
  no group: nothing else is assumed of the laps. `ArrivedIsReturnedHolds`: among packets less
  than half a cycle apart, wherever the wrap falls, the later has the newer number
  (`OlderIsEarlier`, from `AheadIsGreater`), so that the pass of `evict_oldest` ends with
  the packet sent first, in whatever order the hash table gives the groups
  (`OldestIsLeast`); the others in the table are then all later, one packet for each group
  (`EvictedIsNotPromised`). The invariant `Kept`: unless so many later packets were heard of
  that its group may have been evicted, a packet has been returned, or its group holds all
  of it that arrived. `FreshIsFree` ties the two conditions together.
- `RateControlProofs`: `TypeCorrect`, `EarnedBackHolds`, `FlapsSlowDownHolds`. The
  invariant `Served` ties the healthy streak to the flushes seen and the penalty to
  the stay in Good before it.
- `StateSyncProofs`, the server and its clients: `TypeCorrect`, `ViewConsistencyHolds`,
  `DiffsOnlyAgainstAppliedHolds`, and `AgedOutFallsBackHolds` for `MaxSteps = 1`. The
  invariant `Faithful`: a ring slot holds what was recorded for its tick, every blob
  in the network is the true view (or the difference of two true views) of its
  ticks, every client holds a true view; `PatchDelta` shows that patching one true
  view with such a difference gives the other. The rest is which ticks can still
  be named.

- `ServerLoopProofs`: `TypeCorrect`; `KeepsTimeHolds`, from `TimeAccounted`: the time up
  to the last iteration is the ticks, the remainder and whole steps the cap cut
  off, none without a stall; `NothingLeftBehindHolds`, from `InboxesListed`: outside
  of the drain loop inboxes are empty, inside it every endpoint with an inbox is on
  the list of those to poll; `OnePlayerPerClientHolds`, from `PlayersDiffer` (ids
  below `next_id_`, all different) and `NewcomersAnnounced`: an endpoint of the manager
  that is not a key of the server's map is new in this poll and still ahead in
  what the loop has to take in; `PacketsStaySmallHolds`, from `Paced`: what waits for a
  flush is bounded by the time since the last one, and no peer the loop has been to
  is left due; `EveryDatagramReachesItsPeerHolds`: the datagrams of an endpoint that wait in
  its inbox and in the kernel's queue are, in this order, all of it that its Peer has not
  taken, a property that is inductive as it stands once one step
  of the drain loop is taken apart (`RouteKeepsOrder`). Division and products by the step are made linear by lemmas of
  their own. The theorems hold for any endpoints, step, cap, intervals and clock.

- `CatchUpProofs`: `TypeCorrect`, which bounds the ages on a server that never stops, and
  `SentInBatches`: a packet holds the snapshots of successive ticks, at most one flush
  interval of them, so that the age of its newest bounds that of all; each was
  encoded against a baseline that the ring then held, and grows old with it. That
  `HeldAfter`, a recursive function, is defined and has values in its range is shown by a
  least counterexample (`AppliedType`).

- `StateSyncProofs`, the wire: `ReadAsWrittenHolds`, from `WireIsLosslessHolds`: decoding gives back
  every snapshot the server can send and refuses every proper prefix of its bytes, for
  any widths of bytes and fields, any number of entities and any numbering of them.
  The argument relates the writer, and the buffer it leaves, to one number.
  `Holds(w, v, n)`: the writer's bytes and pending bits are the `n` bits of `v`,
  whatever old bits `acc_` has above them; writing a field shifts `v` and adds to it
  (`WriteHolds`), where the room in `acc_` is needed, for the bits it cuts off must be
  old ones. `take` leaves a buffer that spells `v` up to padding (`TakeSpells`), so that
  the bits of it from any place on are a part of `v` (`ReadBack`). What was written
  stays where it was as more is written (`Keeps`, `FieldWritten`); by induction on the
  length of the lists each entity is at its place (`EntitiesWritten`, `IdsWritten`), and
  reading there gives it back (`KeyframeRead`, `DeltaRead`). A prefix lacks a byte, and the
  last bit read is in the last byte (`Padded`). That a keyframe names no
  baseline and removes nobody is the inductive part (`StandAloneStep`).

Every invariant the passing runs check, and every action property but the liveness
ones, is thereby proved. Only model-checked are the liveness properties, which are
beyond TLAPS: `FollowsTheLink`, `KeepsTicking`, `SelfHealing`, `EventuallyDelivered`. The
properties of the runs that end in a violation are false, and there is nothing to prove
of them.

## 7. Not modelled

- Composition of `PeerLink` with `Reassembly`, and of `PeerLink` with `RateControl`, in
  one state space: `IsDatagramPath` justifies the first, for a packet of `PeerLink` is a
  packet of `DatagramPath` (loss, repeats and order are any in both, and both take a number
  again only when nothing that carries it is on its way); and a flush at any time includes
  every pacing.
- A client that restarts at the same endpoint, below the snapshots: its new `Peer`
  counts numbers and reliable ids from the start again, and the server's old `Conn`
  takes them for old. The code has no session to state a property about, and the
  bots bind a fresh port each. `CatchUp` has the restart as the snapshots see it.
- `remove_player`, which only tests call, and `FixedTimestep::alpha`, which only
  tests read.
- Sockets (`udp_socket.cpp`) but for an empty receive and a failing send, `SimSocket` (a test instrument; the
  models' networks allow all it does), metrics and dashboards, `client/main.cpp` and
  the examples (relics and demonstrations).
- Payload bytes, byte counters and log output; malformed datagrams.
- Two-dimensional positions: the axes are independent but for the distance of the
  area of interest.

## 8. Plan

1. Composition of fragments and link, so that a packet's loss is the loss of one
   of its slices and eviction meets resending.
2. A run of `LinkLiveness` with messages both ways, and `CatchUp` refined from
   `StateSync`'s ring, so that the two speak of the same snapshots.
3. Proofs: which earlier packet a stale bit may stand for.
