---------------------------- MODULE MCReplication ----------------------------
(* Instances of Replication for TLC: clients are alike, few packets are     *)
(* under way at once, and nothing is followed that comes after the lobby.   *)
EXTENDS Replication, TLC

CONSTANTS c1, c2, c3

ClientSymmetry == Permutations(Clients)

FewPackets == BagCardinality(requests) + BagCardinality(replies) <= 4

LobbyIsThere == status # "ended"
=============================================================================
