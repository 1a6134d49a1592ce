------------------------------ MODULE MCFifoIO ------------------------------
EXTENDS FifoIO

CONSTANTS p1, p2

TwoProcs == {p1, p2}

\* "x" stands for any character trans_mode rejects.
AllModes == {"r", "a", "d", "x"}

=============================================================================
