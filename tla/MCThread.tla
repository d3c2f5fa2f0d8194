------------------------------ MODULE MCThread ------------------------------
EXTENDS CThread

CONSTANTS u1, u2

Users == {u1, u2}

=============================================================================
