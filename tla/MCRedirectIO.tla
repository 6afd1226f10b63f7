---------------------------- MODULE MCRedirectIO ----------------------------
\* RedirectIO for TLC: a few sessions and a small descriptor table.
EXTENDS RedirectIO, TLC

\* Sessions are interchangeable: no action or property orders them.
SessionSymmetry == Permutations(Session)

\* Once commands have overlapped or a descriptor was refused, for good, what was
\* printed where decides nothing: neither a step nor a property that is checked.
RunView ==
  <<table, saved, held, fd_conn, phase, std, overlapped, starved,
    IF Undisturbed THEN <<stdout_buf, delivered>> ELSE <<>>>>

=============================================================================
