------------------------------ MODULE MCTelLog ------------------------------
\* TelLog for TLC.
EXTENDS TelLog, TLC

\* Writers are interchangeable.
WriterSymmetry == Permutations(Writer)

InTurn == ~overlapped

\* How far the place of the log is followed when nothing bounds it.
Followed == \A k \in Sink : cur_size[k] <= MaxLogSize + 4 * LongestEntry

=============================================================================
