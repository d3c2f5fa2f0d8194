------------------------------- MODULE MCEvent -------------------------------
EXTENDS CEventProps

CONSTANTS t1, t2

Threads == {t1, t2}
WaitTimes == {-1, 1, 2}

=============================================================================
