------------------------------- MODULE MCWaves -------------------------------
(* Instances of Waves for TLC: waves of a few enemies.                     *)
EXTENDS Waves

CONSTANTS c1, c2

MCSize == <<2, 1>>
==============================================================================
