---------------------------- MODULE MCStateSync ----------------------------
(* Values for model-checking StateSync. *)
EXTENDS SnapshotWire, TLC

ClientSymmetry == Permutations(Clients)

\* Everyone spawns at one spot; whoever moves first leaves the others' sight.
OneSpot == {0}
RightOnly == {1}
=============================================================================
