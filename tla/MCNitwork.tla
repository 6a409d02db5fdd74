----------------------------- MODULE MCNitwork -----------------------------
(* Instances of Nitwork for TLC: two processes that send to each other.    *)
EXTENDS Nitwork

CONSTANTS a, b, p1, p2, p3, p4, q1, q2

\* Payloads p go from a to b, payloads q from b to a.
MCTo == [p \in Payloads |-> IF p \in {q1, q2} THEN a ELSE b]
MCFrom == [p \in Payloads |-> IF p \in {q1, q2} THEN b ELSE a]
=============================================================================
