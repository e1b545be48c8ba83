--------------------------- MODULE MCKeyRotation ---------------------------
EXTENDS KeyRotation, TLC

CONSTANTS d1, d2, p, q

Symmetry == Permutations({d1, d2}) \cup Permutations({p, q})

=============================================================================
