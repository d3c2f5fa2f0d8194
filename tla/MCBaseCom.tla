------------------------------ MODULE MCBaseCom ------------------------------
EXTENDS BaseCom

CONSTANTS c1, c2

Clients == {c1, c2}

=============================================================================
