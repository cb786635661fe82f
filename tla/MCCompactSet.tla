---------------------------- MODULE MCCompactSet ----------------------------
\* CompactSet for TLC, with the clients interchangeable.
EXTENDS CompactSet, TLC

ClientSymmetry == Permutations(Clients)

=============================================================================
