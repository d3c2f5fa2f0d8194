--------------------------- MODULE MCEpollPipeline ---------------------------
EXTENDS EpollClaims, TLC

CONSTANTS c1, c2, c3

Clients2 == {c1, c2}
Clients3 == {c1, c2, c3}
Symmetry3 == Permutations(Clients3)

=============================================================================
