---------------------------- MODULE MCRelayRooms ----------------------------
(* Instances of RelayRooms for TLC. *)
EXTENDS RelayRooms, TLC

CONSTANTS c1, c2, c3, r1, r2

(* The connections, and the rooms, are interchangeable. *)
Symmetry == Permutations(Conns) \cup Permutations(Rooms)

=============================================================================
