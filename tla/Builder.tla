------------------------------ MODULE Builder ------------------------------
(***************************************************************************)
(* graph_build (flow_graph.c): the visitors that turn the statements of a  *)
(* script into a straight line of instructions, and the count of operand   *)
(* temporaries they keep on the way.                                       *)
(*                                                                         *)
(* The visitors call each other recursively; todo is that call stack, the  *)
(* innermost visit first.  Each visitor collects a fragment and its caller *)
(* appends it before going on, so the fragments end up in the order of     *)
(* emission and code is their concatenation.                               *)
(*                                                                         *)
(* Nodes are the ones the parser makes: literals, binary operations,       *)
(* stores, and the return that parse() adds.                               *)
(***************************************************************************)
EXTENDS Ast, Integers, FiniteSets

CONSTANTS Exprs,      \* expressions: with a tree, the trees below it
          Programs    \* the statement sequences a script can have

ASSUME BuilderAssumption == /\ \A e \in Exprs : IsExpr(e, Exprs)
                            /\ \A p \in Programs : IsProgram(p, Exprs)

VARIABLES
  program,     \* the children of the script's sequence node
  child,       \* the index of visit_sequence
  todo,        \* visits to make, innermost first
  values,      \* for_value.value of the pending value visitors, oldest first
  code,        \* the instructions emitted so far
  temp_count,
  open         \* the sequence's fragment has an exit

vars == <<program, child, todo, values, code, temp_count, open>>

\* A definition that evis_do places keeps whatever temp_index malloc gave it.
Unset == 0

Instr(op, arg, inputs, temp) == [op |-> op, arg |-> arg, inputs |-> inputs, temp |-> temp]

Init == /\ program \in Programs
        /\ child = 1
        /\ todo = <<>> /\ values = <<>> /\ code = <<>>
        /\ temp_count = 0
        /\ open = TRUE

Defs(s) == {s[i] : i \in DOMAIN s}

TypeOK == /\ child \in 1 .. Len(program) + 1
          /\ Defs(values) \subseteq 1 .. Len(code)
          /\ \A i \in 1 .. Len(code) : /\ Defs(code[i].inputs) \subseteq 1 .. i - 1
                                       /\ code[i].temp \in Nat
          /\ temp_count \in Nat
          /\ open \in BOOLEAN

Top(k) == SubSeq(values, Len(values) - k + 1, Len(values))
Below(k) == SubSeq(values, 1, Len(values) - k)

\* Mutant: the temporaries of the inputs are not given back.
evis_bindNoDealloc(op, arg, k) ==
  /\ temp_count' = temp_count + 1
  /\ code' = Append(code, Instr(op, arg, Top(k), temp_count'))
  /\ values' = Append(Below(k), Len(code'))

\* Mutant: the new temporary is counted before the inputs are given back.
evis_bindSwapped(op, arg, k) ==
  /\ temp_count' = temp_count + 1 - k
  /\ code' = Append(code, Instr(op, arg, Top(k), temp_count + 1))
  /\ values' = Append(Below(k), Len(code'))

\* The definition takes the temporaries of its k inputs and leaves one.
evis_bind(op, arg, k) ==
  /\ temp_count' = temp_count - k + 1
  /\ code' = Append(code, Instr(op, arg, Top(k), temp_count'))
  /\ values' = Append(Below(k), Len(code'))

\* Mutant: the inputs' temporaries are given back twice.
evis_doTwice(op, arg, k) ==
  /\ temp_count' = temp_count - 2 * k
  /\ code' = Append(code, Instr(op, arg, Top(k), Unset))
  /\ values' = Below(k)

\* evis_do and evis_add_instruction: the same for effect only.
evis_do(op, arg, k) ==
  /\ temp_count' = temp_count - k
  /\ code' = Append(code, Instr(op, arg, Top(k), Unset))
  /\ values' = Below(k)

Visit(how, node) == [how |-> how, node |-> node]
\* What is left of a visit when its operands have been visited.
Then == [value |-> "then_value", effect |-> "then_effect"]
IsVisit(how, type) == todo # <<>> /\ Head(todo).how = how /\ Head(todo).node.type = type

\* visit_sequence: the next statement, while the fragment is open.
visit_sequence == /\ todo = <<>> /\ open /\ child <= Len(program)
                  /\ todo' = <<Visit("effect", program[child])>>
                  /\ child' = child + 1
                  /\ UNCHANGED <<program, values, code, temp_count, open>>

visit_literal ==
  \/ /\ IsVisit("value", "literal")
     /\ evis_bind("constant", Head(todo).node.value, 0)
     /\ todo' = Tail(todo)
     /\ UNCHANGED <<program, child, open>>
  \/ /\ IsVisit("effect", "literal")  \* a constant without a use is dropped
     /\ todo' = Tail(todo)
     /\ UNCHANGED <<program, child, values, code, temp_count, open>>

\* Mutant: the right operand is visited first.
visit_binary_opRightFirst ==
  /\ IsVisit("value", "binary_op") \/ IsVisit("effect", "binary_op")
  /\ LET v == Head(todo) IN
       todo' = <<Visit("value", v.node.right), Visit("value", v.node.left),
                 Visit(Then[v.how], v.node)>> \o Tail(todo)
  /\ UNCHANGED <<program, child, values, code, temp_count, open>>

\* The operands first, left to right ...
visit_binary_op ==
  /\ IsVisit("value", "binary_op") \/ IsVisit("effect", "binary_op")
  /\ LET v == Head(todo) IN
       todo' = <<Visit("value", v.node.left), Visit("value", v.node.right),
                 Visit(Then[v.how], v.node)>> \o Tail(todo)
  /\ UNCHANGED <<program, child, values, code, temp_count, open>>

\* ... then the operation itself.
return_binary_op ==
  /\ \/ IsVisit("then_value", "binary_op") /\ evis_bind("binary_op", Head(todo).node.oper, 2)
     \/ IsVisit("then_effect", "binary_op") /\ evis_do("binary_op", Head(todo).node.oper, 2)
  /\ todo' = Tail(todo)
  /\ UNCHANGED <<program, child, open>>

\* Stores and returns visit their value first.
visit_store_or_return ==
  /\ IsVisit("effect", "store_local") \/ IsVisit("effect", "return")
  /\ LET v == Head(todo) IN
       todo' = <<Visit("value", v.node.value), Visit("then_effect", v.node)>> \o Tail(todo)
  /\ UNCHANGED <<program, child, values, code, temp_count, open>>

return_store_local == /\ IsVisit("then_effect", "store_local")
                      /\ evis_do("store_local", Head(todo).node.local, 1)
                      /\ todo' = Tail(todo)
                      /\ UNCHANGED <<program, child, open>>

\* Mutant: the fragment stays open after a return.
add_return_exitOpen == /\ IsVisit("then_effect", "return")
                       /\ evis_do("return", Unset, 1)
                       /\ todo' = Tail(todo)
                       /\ UNCHANGED <<program, child, open>>

\* evis_add_return_exit: nothing can follow a return.
add_return_exit == /\ IsVisit("then_effect", "return")
                   /\ evis_do("return", Unset, 1)
                   /\ open' = FALSE
                   /\ todo' = Tail(todo)
                   /\ UNCHANGED <<program, child>>

Next == \/ visit_sequence \/ visit_literal
        \/ visit_binary_op \/ return_binary_op
        \/ visit_store_or_return \/ return_store_local \/ add_return_exit

Done == todo = <<>> /\ (~open \/ child > Len(program))

Spec == Init /\ [][Next]_vars
-----------------------------------------------------------------------------
(* A temporary that holds an operand is not given to another definition    *)
(* before the operand is used, and the operands of an instruction are the  *)
(* topmost temporaries in order: temp_index really is a stack slot.        *)
OperandsOnTop ==
  \A i \in 1 .. Len(code) : LET in == code[i].inputs IN
    \A k \in DOMAIN in :
      /\ code[in[k]].temp = code[in[1]].temp + k - 1
      /\ \A j \in in[k] + 1 .. i - 1 : code[j].temp = Unset \/ code[j].temp > code[in[k]].temp
      /\ code[i].temp \in {Unset, code[in[1]].temp}

(* No statement leaves a temporary behind, however deep its expression.    *)
TempsBalanced == todo = <<>> => temp_count = 0

\* The expression that each instruction of c computes.
Meaning(c) == LET expr[i \in 1 .. Len(c)] ==
                    CASE c[i].op = "constant" -> Literal(c[i].arg)
                      [] c[i].op = "binary_op" -> BinaryOp(c[i].arg, expr[c[i].inputs[1]],
                                                                     expr[c[i].inputs[2]])
                      [] OTHER -> expr[c[i].inputs[1]]
              IN  expr
Computes == Meaning(code)

\* The source statement that an instruction with an effect stands for.
Statement(i) == CASE code[i].op = "store_local" -> StoreLocal(code[i].arg, Computes[i])
                  [] code[i].op = "return" -> Return(Computes[i])
                  [] OTHER -> Computes[i]

\* The elements of s at the places in K, in order.
Picked(K, s) == LET pick[i \in 0 .. Len(s)] == IF i = 0 THEN <<>>
                                               ELSE IF i \in K THEN Append(pick[i - 1], s[i])
                                               ELSE pick[i - 1]
                IN  pick[Len(s)]

Effects == {i \in 1 .. Len(code) : code[i].temp = Unset}
Emitted == Picked(Effects, [i \in 1 .. Len(code) |-> Statement(i)])

\* The statements up to the first return, but for the literals.
Wanted == {i \in 1 .. Len(program) : /\ program[i].type # "literal"
                                     /\ \A j \in 1 .. i - 1 : program[j].type # "return"}
Expected == Picked(Wanted, program)

(* The finished code stores and returns exactly the statements of the      *)
(* source, in order, each with the expression it was written with, and     *)
(* stops at the first return.                                              *)
BuildsProgram == Done => Emitted = Expected
=============================================================================
