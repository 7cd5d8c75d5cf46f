----------------------------- MODULE MCAssembler -----------------------------
(***************************************************************************)
(* One operation on two constants, in every choice of registers: those     *)
(* that encodings treat alone and some that they do not.                   *)
(***************************************************************************)
EXTENDS Assembler

CONSTANTS Words,    \* words of the register pool
          Opers

Instr(op, arg, inputs) == [op |-> op, arg |-> arg, inputs |-> inputs]

Line(oper) == <<Instr("constant", 1, <<>>), Instr("constant", 2, <<>>), Instr("binary_op", oper, <<1, 2>>),
                Instr("store_local", 0, <<3>>), Instr("return", 0, <<3>>)>>

Place(inputs, output) == [inputs |-> inputs, output |-> output]
Places(r1, r2, r3) == <<Place(<<>>, r1), Place(<<>>, r2), Place(<<r1, r2>>, r3),
                        Place(<<r3>>, RAX), Place(<<r3>>, RAX)>>

\* alloc_register: a word w becomes the register 16 - w, of which there are -1 to 15.
Allocated == {16 - w : w \in Words}

MCLines == {<<Line(oper), Places(r1, r2, r3)>> : oper \in Opers, r1, r2, r3 \in Allocated}
=============================================================================
