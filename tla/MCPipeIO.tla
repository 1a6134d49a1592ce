------------------------------ MODULE MCPipeIO ------------------------------
(***************************************************************************)
(* Model-checking instances of PipeIO.                                     *)
(***************************************************************************)
EXTENDS PipeIO

CONSTANTS w, r, p1, p2

\* The documented use: a parent that only writes and a child that only
\* reads, each with the other end closed after fork().  Writes of 2 bytes
\* into a 4-byte pipe and reads that drain it, like the test's 11-byte
\* writes and 512-byte read.
UsageProcs == {w, r}

\* Timeouts: block, poll, and a bounded wait.
AllWaits == {-1, 0, 1}

\* A bounded timeout only, as the test program uses.
BoundedWaits == {1}

\* Two processes that write one pipe and a third that reads it.
RacingProcs == {p1, p2, r}
RacingWriters == {p1, p2}

\* Two processes that both read and write the same pipe.
SharedProcs == {p1, p2}

=============================================================================
