----------------------------- MODULE StateSync -----------------------------
(***************************************************************************)
(* State synchronisation: the server loop (src/server/main.cpp) steps the  *)
(* World, keeps a ring of full snapshots and sends every client, on the    *)
(* unreliable channel, a keyframe or a delta against the tick that client  *)
(* last confirmed; the client patches its baseline and stamps the tick it  *)
(* holds on each input (src/sim/, src/bots/main.cpp).                      *)
(*                                                                         *)
(* The unreliable channel is PeerLink's as the application sees it: a blob *)
(* or an input arrives never, late, out of order or more than once.        *)
(* Abstracted: positions are integers on one axis, and a client's entity   *)
(* id is the client itself.                                                *)
(***************************************************************************)
EXTENDS Integers, FiniteSets

CONSTANTS Clients,     \* the endpoints that may connect
          Bound,       \* World::bound_, in units of position
          MaxLevel,    \* kMaxLevel: positions are sent as 0 .. MaxLevel
          Radius,      \* kAoiRadius
          Depth,       \* slots of the SnapshotHistory ring (128 in the server)
          Starts,      \* where a new entity may spawn
          Directions,  \* the velocities an input may ask for
          MaxSteps,    \* bound: fixed steps in one iteration of the loop
          MaxTick,     \* bound: the last tick
          MaxInputs    \* bound: inputs in flight per client

Position == 0 .. Bound
Level == 0 .. MaxLevel

ASSUME SyncAssumption ==
    /\ Bound \in Nat \ {0} /\ MaxLevel \in Nat /\ Radius \in Nat
    /\ Depth \in Nat \ {0}
    /\ Starts \subseteq Position /\ Directions \subseteq Int
    /\ MaxSteps \in Nat /\ MaxTick \in Nat /\ MaxInputs \in Nat

VARIABLES
    tick,           \* the server's tick
    world,          \* World::entities_: of each joined client, x and v
    ring,           \* SnapshotHistory::ring_
    last_received,  \* ClientState::last_received_tick, by client
    baseline,       \* Bot::baseline, with positions as levels
    inputs,         \* inputs the network holds
    blobs,          \* snapshots sent so far; losing one is never applying it
    recorded,       \* history: the positions the server recorded, by tick
    applied         \* history: the ticks each client has held

serverVars == <<tick, world, ring, last_received, recorded>>
vars == <<serverVars, baseline, inputs, blobs, applied>>

Joined == DOMAIN world

NoEntities == [c \in {} |-> 0]

\* Something about each of some of the clients' entities.
Tables(V) == UNION { [S -> V] : S \in SUBSET Clients }

Input == [from : Clients, dx : Directions, last_received_tick : 0 .. MaxTick]

Blob == [to : Clients, type : {"Keyframe", "Delta"}, tick : 1 .. MaxTick,
         baseline_tick : 0 .. MaxTick, changed : Tables(Level),
         removed : SUBSET Clients]

Init ==
    /\ tick = 0
    /\ world = NoEntities
    /\ ring = [s \in 0 .. Depth - 1 |-> [tick |-> 0, entities |-> NoEntities]]
    /\ last_received = [c \in Clients |-> 0]
    /\ baseline = [c \in Clients |-> [tick |-> 0, entities |-> NoEntities]]
    /\ inputs = {}
    /\ blobs = {}
    /\ recorded = [t \in 1 .. MaxTick |-> NoEntities]
    /\ applied = [c \in Clients |-> {}]

----------------------------------------------------------------------------
(* Encoding *)

\* A mistake: cells instead of levels, so the far wall gets one too many.
QuantizeToCells(x) == (x * (MaxLevel + 1)) \div Bound

\* quantize: the nearest of the MaxLevel + 1 levels, halves rounded up.
Quantize(x) == (2 * x * MaxLevel + Bound) \div (2 * Bound)

Quantized(view) == [c \in DOMAIN view |-> Quantize(view[c])]

\* filter_aoi: the entities within Radius of x.
FilterAoi(entities, x) ==
    [c \in { d \in DOMAIN entities :
                entities[d] - x <= Radius /\ x - entities[d] <= Radius }
        |-> entities[c]]

\* A mistake: whatever is in the slot will do.
SlotTaken(r, t) == t # 0 /\ r[t % Depth].tick # 0

\* SnapshotHistory::get finds tick t in the ring r (0 is "no baseline").
Held(r, t) == t # 0 /\ r[t % Depth].tick = t

\* What client c sees of the snapshot r holds for tick t.
ViewAt(r, t, c) ==
    LET entities == r[t % Depth].entities IN FilterAoi(entities, entities[c])

Keyframe(c, t, now) ==
    [to |-> c, type |-> "Keyframe", tick |-> t, baseline_tick |-> 0,
     changed |-> Quantized(now), removed |-> {}]

\* encode_delta: the comparison is of exact positions, not of levels.
Delta(c, t, now, t0, then) ==
    LET changed == { d \in DOMAIN now : d \in DOMAIN then => now[d] # then[d] }
    IN  [to |-> c, type |-> "Delta", tick |-> t, baseline_tick |-> t0,
         changed |-> Quantized([d \in changed |-> now[d]]),
         removed |-> DOMAIN then \ DOMAIN now]

\* A mistake: the baseline's view is centred on where the viewer is now.
EncodeForCentredNow(r, c, t0, t) ==
    IF Held(r, t0) /\ c \in DOMAIN r[t0 % Depth].entities
      THEN Delta(c, t, ViewAt(r, t, c), t0,
                 FilterAoi(r[t0 % Depth].entities, r[t % Depth].entities[c]))
      ELSE Keyframe(c, t, ViewAt(r, t, c))

\* A mistake: the diff is against the previous tick, confirmed or not.
EncodeForPreviousTick(r, c, t0, t) ==
    IF Held(r, t - 1) /\ c \in DOMAIN r[(t - 1) % Depth].entities
      THEN Delta(c, t, ViewAt(r, t, c), t - 1, ViewAt(r, t - 1, c))
      ELSE Keyframe(c, t, ViewAt(r, t, c))

\* SnapshotHistory::encode_for; both views are centred on the viewer as it was
\* at that view's tick.
EncodeFor(r, c, t0, t) ==
    IF Held(r, t0) /\ c \in DOMAIN r[t0 % Depth].entities
      THEN Delta(c, t, ViewAt(r, t, c), t0, ViewAt(r, t0, c))
      ELSE Keyframe(c, t, ViewAt(r, t, c))

----------------------------------------------------------------------------
(* The server *)

Clamp(x) == IF x < 0 THEN 0 ELSE IF x > Bound THEN Bound ELSE x

\* World::step, n times: the velocity is constant between two ingests, so
\* clamping once is clamping at every step.
Moved(entity, n) == [x |-> Clamp(entity.x + n * entity.v), v |-> entity.v]

\* The world once c is in it: add_player if c is new.
WithPlayer(c, x) ==
    [d \in Joined \union {c} |->
        IF d \in Joined THEN world[d] ELSE [x |-> x, v |-> 0]]

\* World::apply_input, for a client that is in the world.
Steered(w, c, dx) == [w EXCEPT ![c].v = dx]

\* World::snapshot.
Positions(w) == [c \in DOMAIN w |-> w[c].x]

\* SnapshotHistory::push.
Pushed(r, t, entities) == [r EXCEPT ![t % Depth] = [tick |-> t, entities |-> entities]]

\* First contact by a packet that carries no input (a join marker, or a
\* fragment): the entity is spawned all the same.
Join(c, x) ==
    /\ c \notin Joined
    /\ world' = WithPlayer(c, x)
    /\ UNCHANGED <<tick, ring, last_received, recorded, baseline, inputs, blobs,
                   applied>>

\* The server's ingest of one input: its direction becomes the velocity, the
\* tick it acknowledges counts only if it is newer.  A packet with k inputs is
\* k such steps.  The input stays in the network, so it may arrive again.
Ingest(i, x) ==
    /\ world' = Steered(WithPlayer(i.from, x), i.from, i.dx)
    /\ last_received' = [last_received EXCEPT ![i.from] =
                            IF i.last_received_tick > @ THEN i.last_received_tick ELSE @]
    /\ UNCHANGED <<tick, ring, recorded, baseline, inputs, blobs, applied>>

\* One iteration of the loop in which the timestep owes n steps: only the last
\* of the n ticks is recorded and broadcast, and only if a client is known.
ServerTick(n) ==
    LET t         == tick + n
        moved     == [c \in Joined |-> Moved(world[c], n)]
        positions == Positions(moved)
        pushed    == Pushed(ring, t, positions)
    IN  /\ t <= MaxTick
        /\ tick' = t
        /\ world' = moved
        /\ IF Joined = {}
             THEN UNCHANGED <<ring, recorded, blobs>>
             ELSE /\ ring' = pushed
                  /\ recorded' = [recorded EXCEPT ![t] = positions]
                  /\ blobs' = blobs \union
                        { EncodeFor(pushed, c, last_received[c], t) : c \in Joined }
        /\ UNCHANGED <<last_received, baseline, inputs, applied>>

----------------------------------------------------------------------------
(* The client *)

InputsFrom(c) == { i \in inputs : i.from = c }

\* The driver's tick: the input carries the tick of the state held now.
SendInput(c, dx) ==
    /\ Cardinality(InputsFrom(c)) < MaxInputs
    /\ inputs' = inputs \union
          {[from |-> c, dx |-> dx, last_received_tick |-> baseline[c].tick]}
    /\ UNCHANGED <<serverVars, baseline, blobs, applied>>

LoseInput(i) ==
    /\ inputs' = inputs \ {i}
    /\ UNCHANGED <<serverVars, baseline, blobs, applied>>

Patch(entities, b) ==
    [c \in (DOMAIN entities \ b.removed) \union DOMAIN b.changed |->
        IF c \in DOMAIN b.changed THEN b.changed[c] ELSE entities[c]]

Accepts(base, b) == b.type = "Keyframe" \/ base.tick = b.baseline_tick

\* apply_snapshot: a keyframe replaces the state whatever its tick, a delta
\* patches the tick it names; any other delta is refused and changes nothing.
ApplySnapshot(b) ==
    LET base == baseline[b.to] IN
    /\ Accepts(base, b)
    /\ baseline' = [baseline EXCEPT ![b.to] =
          [tick |-> b.tick,
           entities |-> IF b.type = "Keyframe" THEN b.changed
                                               ELSE Patch(base.entities, b)]]
    /\ applied' = [applied EXCEPT ![b.to] = @ \union {b.tick}]
    /\ UNCHANGED <<serverVars, inputs, blobs>>

Next ==
    \/ \E c \in Clients, x \in Starts : Join(c, x)
    \/ \E i \in inputs, x \in Starts : Ingest(i, x)
    \/ \E n \in 1 .. MaxSteps : ServerTick(n)
    \/ \E c \in Clients, dx \in Directions : SendInput(c, dx)
    \/ \E i \in inputs : LoseInput(i)
    \/ \E b \in blobs : ApplySnapshot(b)

Spec == Init /\ [][Next]_vars

----------------------------------------------------------------------------
TypeOK ==
    /\ tick \in 0 .. MaxTick
    /\ world \in Tables([x : Position, v : Directions \union {0}])
    /\ ring \in [0 .. Depth - 1 -> [tick : 0 .. MaxTick, entities : Tables(Position)]]
    /\ last_received \in [Clients -> 0 .. MaxTick]
    /\ baseline \in [Clients -> [tick : 0 .. MaxTick, entities : Tables(Level)]]
    /\ inputs \subseteq Input
    /\ blobs \subseteq Blob
    /\ recorded \in [1 .. MaxTick -> Tables(Position)]
    /\ applied \in [Clients -> SUBSET (1 .. MaxTick)]

\* What client c should hold of tick t: the quantized view, centred on c, of
\* the positions the server recorded for it.
TrueView(c, t) == Quantized(FilterAoi(recorded[t], recorded[t][c]))

\* However snapshots are lost, repeated, reordered or aged out of the ring, the
\* state a client holds is exactly the server's state of one tick, as that
\* client saw it then: the view that encode_for recomputes for the baseline is
\* the one the client patches.
ViewConsistency ==
    \A c \in Clients : baseline[c].tick # 0 =>
        /\ c \in DOMAIN recorded[baseline[c].tick]
        /\ baseline[c].entities = TrueView(c, baseline[c].tick)

\* The server diffs only against a tick that the client has itself applied
\* (the ack travels on the inputs, input.h:12), never against one merely sent.
DiffsOnlyAgainstApplied ==
    \A b \in blobs : b.type = "Delta" => b.baseline_tick \in applied[b.to]

\* A baseline Depth ticks old has been overwritten, and the client gets a
\* keyframe (snapshot_history.h:13): no delta names a tick that far back.
AgedOutFallsBack ==
    \A b \in blobs : b.type = "Delta" => b.tick - b.baseline_tick < Depth
=============================================================================
