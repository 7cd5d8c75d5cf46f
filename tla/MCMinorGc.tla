------------------------------ MODULE MCMinorGc ------------------------------
\* MinorGc for model checking: the client's cells are interchangeable.
EXTENDS MinorGc, TLC

Symmetry == Permutations(Cell)
=============================================================================
