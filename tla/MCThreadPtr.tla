----------------------------- MODULE MCThreadPtr -----------------------------
EXTENDS ThreadPtr

CONSTANTS i1, i2, o1, o2, o3

TwoTids == {i1, i2}

ThreeObjs == {o1, o2, o3}

=============================================================================
