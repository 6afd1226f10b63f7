-------------------------- MODULE MCLinkListClient --------------------------
\* LinkListClient for TLC.
EXTENDS LinkListClient, TLC

\* Nodes are interchangeable.
NodeSymmetry == Permutations(Node)

=============================================================================
