----------------------------- MODULE MCShareMem -----------------------------
EXTENDS ShareMem

CONSTANTS s1, s2

TwoInsts == {s1, s2}

=============================================================================
