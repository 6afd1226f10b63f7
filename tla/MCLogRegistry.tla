--------------------------- MODULE MCLogRegistry ---------------------------
\* LogRegistry for TLC.
EXTENDS LogRegistry, TLC

\* Nodes are interchangeable.
RegistrySymmetry == Permutations(Node)

=============================================================================
