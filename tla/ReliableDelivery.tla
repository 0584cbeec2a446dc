-------------------------- MODULE ReliableDelivery --------------------------
(***************************************************************************)
(* What the reliable channel promises to the two applications that use it, *)
(* with nothing about packets: every message is handed over at most once,  *)
(* in any order, and the sending end forgets a message only after the      *)
(* other end's application has it (src/transport/reliable/channel.h).      *)
(***************************************************************************)
EXTENDS Naturals

CONSTANTS Peers, MaxReliable

Other(p) == CHOOSE q \in Peers : q # p

Messages(p) == 0 .. MaxReliable[p] - 1

VARIABLES queued,    \* how many messages each application queued
          retired,   \* the messages (ordinals) each end stopped resending
          delivered  \* how often each message of the other end was handed over

vars == <<queued, retired, delivered>>

Init ==
    /\ queued = [p \in Peers |-> 0]
    /\ retired = [p \in Peers |-> {}]
    /\ delivered = [p \in Peers |-> [m \in Messages(Other(p)) |-> 0]]

\* The application at p queues its next message.
Queue(p) ==
    /\ queued[p] < MaxReliable[p]
    /\ queued' = [queued EXCEPT ![p] = @ + 1]
    /\ UNCHANGED <<retired, delivered>>

\* p hears from the other end: it hands over the new messages M, each for the
\* first time, and forgets R, whose delivery it has learnt of.
Hear(p, M, R) ==
    /\ M \subseteq { m \in 0 .. queued[Other(p)] - 1 : delivered[p][m] = 0 }
    /\ R \subseteq { m \in 0 .. queued[p] - 1 : delivered[Other(p)][m] > 0 }
    /\ delivered' = [delivered EXCEPT ![p] =
                        [m \in DOMAIN @ |-> IF m \in M THEN @[m] + 1 ELSE @[m]]]
    /\ retired' = [retired EXCEPT ![p] = @ \union R]
    /\ UNCHANGED queued

Next ==
    \E p \in Peers :
        \/ Queue(p)
        \/ \E M \in SUBSET Messages(Other(p)),
              R \in SUBSET Messages(p) : Hear(p, M, R)

Spec == Init /\ [][Next]_vars
=============================================================================
