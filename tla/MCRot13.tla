------------------------------- MODULE MCRot13 -------------------------------
EXTENDS Rot13Props

CONSTANTS c1, c2, c3

Clients == {c1, c2, c3}

\* A line end and a letter; the other letters and bytes take the same paths.
Bytes == {LF, 97}

\* rot13_char() is its own inverse and keeps line ends.
ASSUME
    /\ \A b \in 0..255 : rot13_char(rot13_char(b)) = b
    /\ \A b \in 0..255 : rot13_char(b) = LF <=> b = LF

=============================================================================
