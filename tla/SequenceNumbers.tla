-------------------------- MODULE SequenceNumbers --------------------------
(***************************************************************************)
(* The arithmetic of packet sequence numbers in the transport:             *)
(* src/transport/reliable/connection.cpp.  The code uses uint16_t, so the  *)
(* space is 65536, half of it 32768, and subtraction wraps; 0 is reserved  *)
(* to mean "nothing acknowledged yet" and is skipped on wraparound.        *)
(***************************************************************************)
EXTENDS Naturals

CONSTANTS SeqSpace,    \* number of sequence values (65536 in the code)
          BufferSize,  \* slots of the acked_/received_ rings (kBufferSize = 1024)
          AckBits      \* width of the ack bit mask (32)

ASSUME SeqAssumption ==
    /\ SeqSpace \in Nat /\ SeqSpace >= 4 /\ SeqSpace % 2 = 0
    /\ BufferSize \in Nat \ {0}
    /\ AckBits \in Nat /\ AckBits < BufferSize /\ BufferSize <= SeqSpace

SequenceNumber == 0 .. SeqSpace - 1

\* Half of the space: a difference above it means the numbers wrapped.
HalfSpace == SeqSpace \div 2

\* A mistake: numbers compared as if they never wrapped.
PlainGreater(a, b) == a > b

\* "Is a strictly newer than b", safe across the wrap.
SeqGreater(a, b) ==
    \/ a > b /\ a - b <= HalfSpace
    \/ a < b /\ b - a > HalfSpace

\* A mistake: the wraparound lands on the reserved 0.
NextSeqThroughZero(s) == (s + 1) % SeqSpace

\* ++local_sequence_, skipping the reserved 0.
NextSeq(s) == IF s + 1 = SeqSpace THEN 1 ELSE s + 1

\* The number k before s: uint16_t subtraction (k < SeqSpace).
Back(s, k) == IF k <= s THEN s - k ELSE (s + SeqSpace) - k

\* The ring slot a number lands in.  Numbers BufferSize apart share one.
Slot(s) == s % BufferSize

\* The numbers one header can speak about: its ack and the AckBits before it.
Window(ack) == { Back(ack, k) : k \in 0 .. AckBits }

\* Forward distance from b to a: how many increments (0 counted) reach a.
Distance(a, b) == IF a >= b THEN a - b ELSE (a + SeqSpace) - b

\* The number that the n-th packet of an end travels under: 1, 2 and so on, and
\* after SeqSpace - 1 of them from 1 again.
SequenceOf(n) == ((n - 1) % (SeqSpace - 1)) + 1

\* Across the wrap the skipped 0 takes one more step of the comparison.
HalfACycle == HalfSpace - 1
============================================================================
