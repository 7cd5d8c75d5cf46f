----------------------------- MODULE MCRegAlloc -----------------------------
(***************************************************************************)
(* Every straight line of up to MaxLen instructions with no, one or two    *)
(* operands each, not only the lines that the builder emits.               *)
(***************************************************************************)
EXTENDS RegAlloc, TLC

CONSTANT MaxLen

\* The operands the instruction at position i can have.
Operands(i) == {<<>>} \cup {<<a>> : a \in 1 .. i - 1} \cup {<<a, b>> : a, b \in 1 .. i - 1}

Codes == LET line[n \in 0 .. MaxLen] ==
               IF n = 0 THEN {<<>>}
               ELSE {Append(c, [inputs |-> in]) : c \in line[n - 1], in \in Operands(n)}
         IN  UNION {line[n] : n \in 1 .. MaxLen}

MCInit == code \in Codes /\ Init

MCSpec == MCInit /\ [][Next]_vars
=============================================================================
