---------------------------- MODULE MCShmOperator ----------------------------
EXTENDS ShmOperator, TLC

CONSTANTS o1, o2, a1, a2, a3

Objects == {o1, o2}
Addresses == {a1, a2, a3}
Symmetry == Permutations(Objects) \cup Permutations(Addresses)

=============================================================================
