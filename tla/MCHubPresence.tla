---------------------------- MODULE MCHubPresence ----------------------------
(* Instances of HubPresence for TLC. *)
EXTENDS HubPresence, TLC

\* Also of the instances, when admin requests reach each of them.
Symmetry ==
    UNION {Permutations(S) : S \in {Instances, RoomIDs, ClientIDs, Buses}}
=============================================================================
