---------------------------- MODULE MCLineEditor ----------------------------
\* LineEditor for TLC, without the screen.
EXTENDS LineEditor

CONSTANT MaxTyped  \* lines are followed up to this length

\* The keys of a small session, and their use while a line is dropped.
FewKeys == {<<ESC, "[", "D">>, <<"a">>, <<BS>>, <<ETX>>}

Quit == {<<"b">>}

ShortLine == len <= MaxTyped

=============================================================================
