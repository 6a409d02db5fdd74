------------------------------ MODULE MCLobby ------------------------------
(* Instances of Lobby for TLC: players that are alike.                     *)
EXTENDS Lobby, TLC

CONSTANTS c1, c2, c3

ClientSymmetry == Permutations(Clients)
=============================================================================
