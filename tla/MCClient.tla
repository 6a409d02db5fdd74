------------------------------ MODULE MCClient ------------------------------
(* Instances of Client for TLC: lobbies that are alike.                    *)
EXTENDS Client, TLC

CONSTANTS l1, l2, l3

LobbySymmetry == Permutations(Lobbies)
=============================================================================
