------------------------------ MODULE CatchUp ------------------------------
(***************************************************************************)
(* One client's snapshots over time: does it keep up, and does it recover  *)
(* from anything the network did?  StateSync says what the snapshots hold; *)
(* here a snapshot is its tick, and a tick is how long ago it was, so that *)
(* the server may run for ever (src/server/main.cpp, src/bots/main.cpp,    *)
(* src/sim/).  Unlike StateSync, this module has the pacing of the Peer    *)
(* below: snapshots wait for its flush, and travel several in a packet.    *)
(*                                                                         *)
(* Assumed: an iteration of the loop owes one step, so every tick is       *)
(* recorded, and the network forgets a packet after MaxAge ticks.          *)
(***************************************************************************)
EXTENDS Integers, SequencesExt

CONSTANTS Depth,       \* slots of the SnapshotHistory ring (128 in the server)
          Interval,    \* ticks between two flushes, at most (2 in Good mode, 6 in Bad)
          MaxAge,      \* the oldest that a packet in the network can be, in ticks
          MaxRestarts  \* bound: restarts of the client

ASSUME CatchUpAssumption ==
    /\ Depth \in Nat \ {0} /\ Interval \in Nat \ {0}
    /\ MaxAge \in Nat /\ MaxRestarts \in Nat

\* Beyond this age ticks are not told apart: no snapshot names one so old.
Old == Depth + MaxAge + Interval

\* Tick 0, of which there is no snapshot.
Never == Old + 1

VARIABLES
    acked,     \* the age of ClientState::last_received_tick
    pending,   \* the snapshots that wait for the server's flush
    downlink,  \* packets on their way to the client
    held,      \* the age of Bot::baseline's tick
    uplink,    \* last_received_tick of the inputs on their way to the server
    restarts   \* how often the client has restarted

vars == <<acked, pending, downlink, held, uplink, restarts>>

Age == 0 .. Never

\* The age of the oldest snapshot that can still arrive.
Recent == MaxAge + Interval - 1

\* A snapshot of some age; base is the age of its baseline, Never in a keyframe.
Blob == [age : 0 .. Recent, base : (1 .. Old - 1) \union {Never}]

Init ==
    /\ acked = Never
    /\ pending = <<>>
    /\ downlink = {}
    /\ held = Never
    /\ uplink = {}
    /\ restarts = 0

----------------------------------------------------------------------------
(* The server *)

Aged(a) == IF a < Old THEN a + 1 ELSE a

AgedBlobs(p) == [i \in DOMAIN p |-> [age |-> p[i].age + 1, base |-> Aged(p[i].base)]]

\* A mistake: a baseline is good for as long as anything of it is around.
StillAround(a) == a <= Old

\* SnapshotHistory::get: the ring holds the last Depth ticks.
InRing(a) == a < Depth

\* encode_for, with the client's ack a: a delta if the ring has its baseline.
EncodeFor(a) == [age |-> 0, base |-> IF InRing(a) THEN a ELSE Never]

\* An iteration that owes a step: the snapshot is queued, and goes out with
\* those that wait if the Peer's interval is over.
Tick(flush) ==
    LET queued == Append(AgedBlobs(pending), EncodeFor(Aged(acked)))
        aged   == { AgedBlobs(p) : p \in { q \in downlink : Last(q).age < MaxAge } }
    IN  /\ Len(queued) = Interval => flush
        /\ pending' = IF flush THEN <<>> ELSE queued
        /\ downlink' = IF flush THEN aged \union {queued} ELSE aged
        /\ acked' = Aged(acked)
        /\ held' = Aged(held)
        /\ uplink' = { Aged(a) : a \in { b \in uplink : b < Old } }
        /\ UNCHANGED restarts

\* The server's ingest of an input, which may be old, or repeated: only a newer
\* tick is an ack.
Ingest(a) ==
    /\ acked' = IF a < acked THEN a ELSE acked
    /\ UNCHANGED <<pending, downlink, held, uplink, restarts>>

----------------------------------------------------------------------------
(* The client *)

\* The driver's tick: an input carries the tick held now.
SendInput ==
    /\ uplink' = uplink \union {held}
    /\ UNCHANGED <<acked, pending, downlink, held, restarts>>

\* A mistake: a keyframe is for a client that has no state.
AcceptsFirstKeyframe(h, b) == h = b.base

\* apply_snapshot takes any keyframe, and a delta against what it holds.
Accepts(h, b) == b.base = Never \/ b.base = h

\* What the client holds after each of the snapshots of a packet, in turn.
HeldAfter(p) ==
    LET h[i \in 0 .. Len(p)] ==
            IF i = 0 THEN held
            ELSE IF Accepts(h[i - 1], p[i]) THEN p[i].age ELSE h[i - 1]
    IN  h

Applied(p) == HeldAfter(p)[Len(p)]

Receive(p) ==
    /\ held' = Applied(p)
    /\ downlink' = downlink \ {p}
    /\ UNCHANGED <<acked, pending, uplink, restarts>>

\* The network delivers a copy, and may deliver the packet again.
ReceiveCopy(p) ==
    /\ held' = Applied(p)
    /\ UNCHANGED <<acked, pending, downlink, uplink, restarts>>

\* The client's process starts anew at the same endpoint: the server, which
\* keeps its Conn and its ack, does not notice.
Restart ==
    /\ restarts < MaxRestarts
    /\ restarts' = restarts + 1
    /\ held' = Never
    /\ UNCHANGED <<acked, pending, downlink, uplink>>

----------------------------------------------------------------------------
Next ==
    \/ \E flush \in BOOLEAN : Tick(flush)
    \/ \E a \in uplink : Ingest(a)
    \/ SendInput
    \/ \E p \in downlink : Receive(p) \/ ReceiveCopy(p)
    \/ Restart

Spec == Init /\ [][Next]_vars

\* The server's loop runs on, and not every packet is lost.  Nothing is asked
\* of the inputs: the acks may all be lost.
FairSpec ==
    /\ Spec
    /\ WF_vars(\E flush \in BOOLEAN : Tick(flush))
    /\ SF_vars(\E p \in downlink : Receive(p))

\* A link without a fault or a delay: before the next tick the packet has
\* arrived, once, and what the client then holds is acknowledged.
OrderlyNext ==
    \/ /\ downlink = {} /\ (pending = <<>> => acked = held)
       /\ \E flush \in BOOLEAN : Tick(flush)
    \/ \E a \in uplink : Ingest(a)
    \/ SendInput
    \/ \E p \in downlink : Receive(p)

OrderlySpec == Init /\ [][OrderlyNext]_vars

----------------------------------------------------------------------------
TypeOK ==
    /\ acked \in Age
    /\ pending \in UNION { [1 .. n -> Blob] : n \in 0 .. Interval - 1 }
    /\ downlink \subseteq UNION { [1 .. n -> Blob] : n \in 1 .. Interval }
    /\ held \in Age
    /\ uplink \subseteq Age
    /\ restarts \in 0 .. MaxRestarts

\* Self-healing (docs/features/shipped/2026-06-07-p3-delta-compression.md:114):
\* whatever was lost, late, repeated or overtaken, acks included, and though
\* the server may know of a state the client has lost or left, the client gets
\* a recent state again, and again.
SelfHealing == []<>(held <= Recent)

\* A delta is dropped only if it is stale: after a packet the client holds
\* nothing older than the packet's newest snapshot.
DropsOnlyStale ==
    [][\A p \in downlink : Receive(p) => held' <= Last(p).age]_vars
=============================================================================
