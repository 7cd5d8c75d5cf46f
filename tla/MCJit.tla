-------------------------------- MODULE MCJit --------------------------------
(***************************************************************************)
(* Scripts: every split of up to MaxLits distinct literals into            *)
(* statements, with every choice of operators.  Other trees: all that the  *)
(* constructors of ast.c make for up to two statements over expressions    *)
(* with up to three literals, nested either way: stores, returns, and      *)
(* expressions for their effect.                                           *)
(***************************************************************************)
EXTENDS Jit, TLC

CONSTANTS MaxLits, Opers,    \* of scripts
          Lits, Locals, TreeOpers    \* of the other trees

\* The sequences of sizes of statements with n literals in all.
Sizes(n) == {s \in UNION {[1 .. m -> 1 .. n] : m \in 1 .. n} :
               LET sum[i \in 0 .. Len(s)] == IF i = 0 THEN 0 ELSE sum[i - 1] + s[i]
               IN  sum[Len(s)] = n}

\* The literals of statement i are numbered on from those before it.
Script(sizes, opers) ==
  LET before[i \in 0 .. Len(sizes)] == IF i = 0 THEN 0 ELSE before[i - 1] + sizes[i]
  IN  [i \in 1 .. Len(sizes) |->
         [local |-> i,
          lits |-> [k \in 1 .. sizes[i] |-> before[i - 1] + k],
          opers |-> [k \in 1 .. sizes[i] - 1 |-> opers[before[i - 1] + k]]]]

MCSources == UNION {{Script(sizes, opers) : sizes \in Sizes(n), opers \in [1 .. n -> Opers]}
                      : n \in 1 .. MaxLits}

One   == {Literal(v) : v \in Lits}
Two   == {BinaryOp(op, l, r) : op \in TreeOpers, l \in One, r \in One}
Three == {BinaryOp(op, l, r) : op \in TreeOpers, l \in One, r \in Two}
         \cup {BinaryOp(op, l, r) : op \in TreeOpers, l \in Two, r \in One}
MCExprs == One \cup Two \cup Three

Statements == MCExprs \cup {StoreLocal(x, e) : x \in Locals, e \in MCExprs}
                      \cup {Return(e) : e \in MCExprs}

MCPrograms == {<<s>> : s \in Statements} \cup {<<s, t>> : s \in Statements, t \in Statements}
=============================================================================
