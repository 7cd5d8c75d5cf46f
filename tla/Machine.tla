------------------------------- MODULE Machine -------------------------------
(***************************************************************************)
(* What the generated code of a line of instructions computes: one step    *)
(* per instruction, on registers that hold values.  A value is the         *)
(* expression that computes it.  The bytes that do this on the processor   *)
(* are in Assembler, which implements this module.                         *)
(***************************************************************************)
EXTENDS Ast, Integers, FiniteSetsExt

VARIABLES
  code,        \* the instructions
  locations,   \* the registers of their operands and results
  phase,       \* "assigned" while the code has not returned, then "done"
  ip,          \* the instruction whose machine code runs next
  reg,         \* the machine's registers
  result       \* what the generated code returns

machine == <<ip, reg, result>>
vars == <<code, locations, phase, machine>>

kNumberOfCpuRegisters == 16
RAX == 0
RBX == 3
RSP == 4
RBP == 5
RDI == 7
Registers == 0 .. kNumberOfCpuRegisters - 1
CalleeSaved == {RBX, RSP, RBP} \cup 12 .. 15

Caller(r) == [type |-> "caller", value |-> r]
Lost == [type |-> "undefined", value |-> 0]
NotYet == [type |-> "none", value |-> 0]

MachineInit == /\ ip = 1
               /\ reg = [r \in Registers |-> Caller(r)]
               /\ result = NotYet

Init == phase = "assigned" /\ MachineInit
-----------------------------------------------------------------------------
\* The first vreg's map holds -1, which is encoded as the low bits of RDI.
Encoded(r) == IF r = -1 THEN RDI ELSE r
In(k) == reg[Encoded(locations[ip].inputs[k])]
SetOutput(v) == reg' = [reg EXCEPT ![Encoded(locations[ip].output)] = v]

\* store_local_compile emits nothing: the next instruction is the next with code.
HasCode(i) == code[i].op # "store_local"
After(i) == Min({j \in i + 1 .. Len(code) : HasCode(j)} \cup {Len(code) + 1})

Running(op) == phase = "assigned" /\ ip <= Len(code) /\ code[ip].op = op

constant_compile == /\ Running("constant")
                    /\ SetOutput(Literal(code[ip].arg))
                    /\ ip' = After(ip)
                    /\ UNCHANGED <<code, locations, phase, result>>

binary_op_compile == /\ Running("binary_op")
                     /\ SetOutput(BinaryOp(code[ip].arg, In(1), In(2)))
                     /\ ip' = After(ip)
                     /\ UNCHANGED <<code, locations, phase, result>>

\* ret pops the return address, if RSP is still the caller's.
return_compile == /\ Running("return")
                  /\ result' = IF reg[RSP] = Caller(RSP) THEN reg[RAX] ELSE Lost
                  /\ phase' = "done"
                  /\ UNCHANGED <<code, locations, ip, reg>>

Next == constant_compile \/ binary_op_compile \/ return_compile

Spec == Init /\ [][Next]_vars
=============================================================================
