---------------------------- MODULE MCRequestChain ----------------------------
EXTENDS RequestChain, TLC

\* Slots are interchangeable; no run with this symmetry checks liveness.
Symmetry == Permutations(Slots)
=============================================================================
