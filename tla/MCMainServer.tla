---------------------------- MODULE MCMainServer ----------------------------
(* Instances of MainServer for TLC: processes and names that are alike.    *)
EXTENDS MainServer, TLC

CONSTANTS p1, p2, p3, p4, n1, n2

ProcSymmetry == Permutations(Procs) \cup Permutations(Names)

Ordinal == (p1 :> 1) @@ (p2 :> 2) @@ (p3 :> 3) @@ (p4 :> 4)

\* For liveness, where symmetry is not sound: processes are born in their order, and
\* the first name that is asked for is the first.
InOrder ==
    /\ \A p, q \in Procs : Ordinal[q] < Ordinal[p] /\ proc'[p] # "unborn" => proc'[q] # "unborn"
    /\ creates = 0 => \A m \in net' : m.name = n1
=============================================================================
