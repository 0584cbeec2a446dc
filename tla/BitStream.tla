----------------------------- MODULE BitStream -----------------------------
(***************************************************************************)
(* sim::BitWriter and sim::BitReader (src/sim/bitstream.{h,cpp}): values   *)
(* of any width packed back to back into bytes, most significant bit       *)
(* first.  A byte is a number below 2^ByteBits, a buffer a sequence of     *)
(* them.                                                                   *)
(***************************************************************************)
EXTENDS Bits, Integers, Sequences

CONSTANTS ByteBits,  \* bits of a byte (8)
          AccBits    \* width of BitWriter::acc_ (64)

ASSUME BitAssumption == ByteBits \in Nat \ {0} /\ AccBits \in Nat \ {0}

NewWriter == [out |-> <<>>, acc |-> 0, nbits |-> 0]

\* write_bits: acc_ is shifted and never cleared, so above the pending bits it
\* still holds old ones, which the width of acc_ and the byte mask cut off.
WriteBits(w, value, bits) ==
    LET acc   == Low(Shifted(w.acc, bits), AccBits) + Low(value, bits)
        total == w.nbits + bits
    IN  [out   |-> w.out \o [k \in 1 .. total \div ByteBits |->
                                Low(High(acc, total - k * ByteBits), ByteBits)],
         acc   |-> acc,
         nbits |-> total % ByteBits]

\* take: the last byte is padded with zeros.
Take(w) ==
    IF w.nbits = 0 THEN w.out
    ELSE Append(w.out, Low(Shifted(w.acc, ByteBits - w.nbits), ByteBits))

\* Whether a read of the bits from position at on stays in the buffer; one that
\* does not turns ok() false.
InBuffer(data, at, bits) == at + bits <= Len(data) * ByteBits

BitAt(data, i) ==
    High(data[i \div ByteBits + 1], (ByteBits - 1) - (i % ByteBits)) % 2

\* read_bits with bitpos_ at position at.
ReadBits(data, at, bits) ==
    LET value[n \in 0 .. bits] ==
            IF n = 0 THEN 0 ELSE 2 * value[n - 1] + BitAt(data, at + n - 1)
    IN  IF InBuffer(data, at, bits) THEN value[bits] ELSE 0
============================================================================
