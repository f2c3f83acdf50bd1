---------------------------- MODULE MCSyncClient ----------------------------
(* Instances of SyncClient for TLC. *)
EXTENDS SyncClient, TLC

CONSTANTS a, b, c, d, r1, r2, t1, t2, t3

(* The paths, the rooms and the tasks are interchangeable. *)
Symmetry == Permutations(Paths) \cup Permutations(Rooms) \cup Permutations(Tasks)

=============================================================================
