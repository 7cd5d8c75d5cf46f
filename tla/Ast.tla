-------------------------------- MODULE Ast --------------------------------
(***************************************************************************)
(* The nodes of the syntax tree (ast.c), and the tree that the parser makes*)
(* of a script: a sequence of statements "local x = l1 op1 l2 op2 ...",    *)
(* each a record with the fields local, lits and opers.  Also what the     *)
(* line of instructions is, with registers, that the phases behind the     *)
(* parser make of the tree for the code generator.                         *)
(***************************************************************************)
EXTENDS Integers, Sequences

Literal(v)           == [type |-> "literal", value |-> v]
BinaryOp(op, l, r)   == [type |-> "binary_op", oper |-> op, left |-> l, right |-> r]
StoreLocal(x, e)     == [type |-> "store_local", local |-> x, value |-> e]
Return(e)            == [type |-> "return", value |-> e]

\* What the constructors of ast.c make, over the expressions S.
IsExpr(e, S) ==
  \/ e.type = "literal" /\ e = Literal(e.value)
  \/ e.type = "binary_op" /\ e = BinaryOp(e.oper, e.left, e.right) /\ {e.left, e.right} \subseteq S

IsStatement(s, S) ==
  \/ s \in S
  \/ s.type = "store_local" /\ s = StoreLocal(s.local, s.value) /\ s.value \in S
  \/ s.type = "return" /\ s = Return(s.value) /\ s.value \in S

IsProgram(p, S) == /\ Len(p) \in Nat /\ p = [i \in 1 .. Len(p) |-> p[i]]
                   /\ \A i \in 1 .. Len(p) : IsStatement(p[i], S)

\* An instruction that has code of its own has the registers that it needs: -1
\* to 15 are those of the allocator's pool and RAX.
IsPlaced(instr, place, Opers) ==
  LET Names(r) == r \in -1 .. 15
  IN  \/ instr.op = "constant" /\ Names(place.output)
      \/ /\ instr.op = "binary_op" /\ instr.arg \in Opers
         /\ DOMAIN place.inputs = 1 .. 2 /\ Names(place.inputs[1]) /\ Names(place.inputs[2])
         /\ Names(place.output)
      \/ instr.op \in {"store_local", "return"}

\* What is stored was computed before, so a store is never the first.
IsLine(instrs, places, Opers) ==
  /\ Len(instrs) \in Nat /\ DOMAIN instrs = 1 .. Len(instrs) /\ DOMAIN places = DOMAIN instrs
  /\ \A i \in DOMAIN instrs : IsPlaced(instrs[i], places[i], Opers) /\ (i = 1 => instrs[i].op # "store_local")

\* parse_binary_expr: a literal, and everything behind it as the right operand.
parse_binary_expr(stmt) ==
  LET expr[i \in 1 .. Len(stmt.lits)] ==
        IF i = Len(stmt.lits) THEN Literal(stmt.lits[i])
        ELSE BinaryOp(stmt.opers[i], Literal(stmt.lits[i]), expr[i + 1])
  IN  expr[1]

\* Mutant: no return is added.
parseNoReturn(src) ==
  [i \in 1 .. Len(src) |-> StoreLocal(src[i].local, parse_binary_expr(src[i]))]

\* parse: one store per statement; a return of the last one's value is put
\* in front of the last store.
parse(src) ==
  LET m == Len(src)
      stores == [i \in 1 .. m |-> StoreLocal(src[i].local, parse_binary_expr(src[i]))]
  IN  SubSeq(stores, 1, m - 1) \o <<Return(stores[m].value), stores[m]>>
=============================================================================
