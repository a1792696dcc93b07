----------------------------- MODULE MCConsole -----------------------------
EXTENDS Console, TLC

CONSTANTS c1, c2, r1, u1, g1, g2

\* c1 takes every request; c2 is created by another client.
AllOnC1 == [r \in Requests |-> c1]
============================================================================
