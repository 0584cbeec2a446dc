---------------------------- MODULE SnapshotWire ----------------------------
(***************************************************************************)
(* The wire format of the snapshots that StateSync sends: encode_keyframe  *)
(* and encode_delta write them bit by bit, apply_snapshot reads them       *)
(* (src/sim/snapshot.cpp).  An entity has one coordinate, as in StateSync. *)
(***************************************************************************)
EXTENDS StateSync, BitStream

CONSTANTS TickBits,   \* bits of a tick (32)
          CountBits,  \* bits of a count (16)
          IdBits,     \* bits of an entity id (16)
          PosBits     \* kPosBits (12)

\* Ids are counted from 1 and never used again: 65535 of them fit the wire.
\* acc_ has room for a whole field on top of the bits of a byte that waits
\* (bitstream.h: 7 + 32 <= 64).
ASSUME WireAssumption ==
    /\ {TickBits, CountBits, IdBits, PosBits} \subseteq Nat \ {0}
    /\ \A bits \in {TickBits, CountBits, IdBits, PosBits} :
          ByteBits - 1 + bits <= AccBits
    /\ MaxTick < Pow2[TickBits] /\ MaxLevel < Pow2[PosBits]
    /\ IsFiniteSet(Clients)
    /\ Cardinality(Clients) < Pow2[CountBits] /\ Cardinality(Clients) < Pow2[IdBits]

TypeByte == [Keyframe |-> 0, Delta |-> 1]

EntityBits == IdBits + PosBits

\* The clients in the order of their entities' ids: the k-th has k ids up to its own.
Rank(S, id, c) == Cardinality({ d \in S : id[d] <= id[c] })
SortedById(S, id) ==
    [k \in 1 .. Cardinality(S) |-> CHOOSE c \in S : Rank(S, id, c) = k]

\* What a blob says, as lists in the order of the ids.
Content(b, id) ==
    LET cs == SortedById(DOMAIN b.changed, id)
        rs == SortedById(b.removed, id)
    IN  [type |-> b.type, tick |-> b.tick, baseline_tick |-> b.baseline_tick,
         changed |-> [k \in DOMAIN cs |-> [id |-> id[cs[k]], level |-> b.changed[cs[k]]]],
         removed |-> [k \in DOMAIN rs |-> id[rs[k]]]]

WriteEntity(w, e) == WriteBits(WriteBits(w, e.id, IdBits), e.level, PosBits)

WriteEntities(w, entities) ==
    LET v[k \in 0 .. Len(entities)] ==
            IF k = 0 THEN WriteBits(w, Len(entities), CountBits)
                     ELSE WriteEntity(v[k - 1], entities[k])
    IN  v[Len(entities)]

WriteIds(w, ids) ==
    LET v[k \in 0 .. Len(ids)] ==
            IF k = 0 THEN WriteBits(w, Len(ids), CountBits)
                     ELSE WriteBits(v[k - 1], ids[k], IdBits)
    IN  v[Len(ids)]

EncodeKeyframe(s) ==
    <<TypeByte.Keyframe>> \o
        Take(WriteEntities(WriteBits(NewWriter, s.tick, TickBits), s.changed))

EncodeDelta(s) ==
    LET ticks == WriteBits(WriteBits(NewWriter, s.tick, TickBits),
                           s.baseline_tick, TickBits)
    IN  <<TypeByte.Delta>> \o Take(WriteIds(WriteEntities(ticks, s.changed), s.removed))

Encode(s) == IF s.type = "Keyframe" THEN EncodeKeyframe(s) ELSE EncodeDelta(s)

----------------------------------------------------------------------------
\* apply_snapshot returns false.
Refused == [type |-> "Refused"]

ReadEntities(r, at, count) ==
    [k \in 1 .. count |->
        [id    |-> ReadBits(r, at + (k - 1) * EntityBits, IdBits),
         level |-> ReadBits(r, at + (k - 1) * EntityBits + IdBits, PosBits)]]

ReadIds(r, at, count) ==
    [k \in 1 .. count |-> ReadBits(r, at + (k - 1) * IdBits, IdBits)]

\* Every read of a keyframe is in the buffer if its last one is.
DecodeKeyframe(r) ==
    LET count == ReadBits(r, TickBits, CountBits)
        first == TickBits + CountBits
    IN  IF ~InBuffer(r, first, count * EntityBits) THEN Refused
        ELSE [type |-> "Keyframe", tick |-> ReadBits(r, 0, TickBits),
              baseline_tick |-> 0,
              changed |-> ReadEntities(r, first, count), removed |-> <<>>]

\* A mistake: a delta is accepted although its list of removals is cut short.
DecodeDeltaUnchecked(r) ==
    LET count   == ReadBits(r, 2 * TickBits, CountBits)
        first   == 2 * TickBits + CountBits
        after   == first + count * EntityBits
        removed == ReadBits(r, after, CountBits)
    IN  IF ~InBuffer(r, after, CountBits) THEN Refused
        ELSE [type |-> "Delta", tick |-> ReadBits(r, 0, TickBits),
              baseline_tick |-> ReadBits(r, TickBits, TickBits),
              changed |-> ReadEntities(r, first, count),
              removed |-> ReadIds(r, after + CountBits, removed)]

DecodeDelta(r) ==
    LET count   == ReadBits(r, 2 * TickBits, CountBits)
        first   == 2 * TickBits + CountBits
        after   == first + count * EntityBits
        removed == ReadBits(r, after, CountBits)
    IN  IF ~InBuffer(r, after + CountBits, removed * IdBits) THEN Refused
        ELSE [type |-> "Delta", tick |-> ReadBits(r, 0, TickBits),
              baseline_tick |-> ReadBits(r, TickBits, TickBits),
              changed |-> ReadEntities(r, first, count),
              removed |-> ReadIds(r, after + CountBits, removed)]

\* What apply_snapshot reads from a buffer, before it looks at its own state.
Decode(data) ==
    IF data = <<>> THEN Refused
    ELSE IF Head(data) = TypeByte.Keyframe THEN DecodeKeyframe(Tail(data))
    ELSE IF Head(data) = TypeByte.Delta THEN DecodeDelta(Tail(data))
    ELSE Refused

----------------------------------------------------------------------------
Injective(f) == \A c, d \in DOMAIN f : f[c] = f[d] => c = d

Numberings ==
    { id \in [Clients -> 1 .. Cardinality(Clients)] : Injective(id) }

Survives(s) ==
    LET data == Encode(s)
    IN  /\ Decode(data) = s
        /\ \A n \in 0 .. Len(data) - 1 : Decode(SubSeq(data, 1, n)) = Refused

\* A keyframe names no baseline and removes nobody.
Sendable ==
    { b \in Blob : b.type = "Keyframe" => b.baseline_tick = 0 /\ b.removed = {} }

WireIsLossless ==
    \A b \in Sendable, id \in Numberings : Survives(Content(b, id))

\* Every snapshot the server sends is read as it was written, whatever widths
\* its fields take and wherever they fall in the bytes, and none that was cut
\* short is taken for a whole one (snapshot.h:49, "also on a truncated buffer").
ReadAsWritten == \A b \in blobs : b \in Sendable /\ WireIsLossless
=============================================================================
