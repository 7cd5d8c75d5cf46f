------------------------------ MODULE Encoders ------------------------------
(***************************************************************************)
(* The integer instructions of x64/core.c, and what calls them: native     *)
(* calls (x64/compile.c) and the flow graph compiler (x64/compiler.c).     *)
(* The program reaches none of them yet.                                   *)
(*                                                                         *)
(* A call of an encoder is a record of the bytes it appends and of the     *)
(* instructions it means by its name, with two reservations that are the   *)
(* code's: a register or base in the low bits of an operand is below 8,    *)
(* whatever was asked for (Low), and a sum, difference, product, mask or   *)
(* comparison with an immediate goes through TMP, which is asked for as    *)
(* such an operand.                                                        *)
(***************************************************************************)
EXTENDS Locations, Decoder

CONSTANTS Registers, Scales, Displacements, Immediates, Slots, Sizes,
          NIL, native, call_native    \* addresses, as words

VARIABLES meant,     \* the instructions of the call
          decoded    \* those that the processor has read

vars == <<contents, rip, meant, decoded>>

TMP == 11
R10 == 10
RSI == 6
RDI == 7
-----------------------------------------------------------------------------
None == [type |-> "none"]
Reg(r) == [type |-> "register", number |-> r]
Imm(n) == [type |-> "immediate", value |-> n]
Mem(base, index, times, disp) ==
  [type |-> "memory", base |-> base, index |-> index, times |-> times, disp |-> disp]
Instr(op, dst, src) == [op |-> op, dst |-> dst, src |-> src]
NoReg == -1
Low(r) == r % 8

\* Operands with what they mean.
R(r) == [code |-> asm_oper_init_r(r), means |-> Reg(Low(r))]
A(base, disp) == [code |-> asm_addr_init_r(base, disp), means |-> Mem(Low(base), NoReg, 1, disp)]
S(index, scale, disp) ==
  [code |-> asm_addr_init_s(index, scale, disp),
   means |-> IF Low(index) = RSP THEN Mem(NoReg, NoReg, 1, disp)
             ELSE Mem(NoReg, Low(index), 2^(scale % 4), disp)]

\* A parameter, which has a negative slot, is looked for where a local would be.
FrameSlot(slot) == [code |-> loc_encode_stack_address(loc_init_zr(slot, RBP)),
                    means |-> Mem(RBP, NoReg, 1, kWordSize * (kFirstLocalSlotFromFp - slot))]
StackSlot(slot) == [code |-> loc_encode_stack_address(loc_init_zr(slot, RSP)),
                    means |-> Mem(RSP, NoReg, 1, kWordSize * slot)]

Call(bytes, meanings) == [bytes |-> bytes, meant |-> meanings]
Then(first, second) == Call(first.bytes \o second.bytes, first.meant \o second.meant)
All(calls) == FoldLeft(Then, Call(<<>>, <<>>), calls)

RegOper(op, opcode, dst, src) ==
  Call(emit_oper_rex(dst, src.code, {REX_W}) \o opcode \o emit_oper(dst % 8, src.code), <<Instr(op, Reg(dst), src.means)>>)
OperReg(op, opcode, dst, src) ==
  Call(emit_oper_rex(src, dst.code, {REX_W}) \o opcode \o emit_oper(src % 8, dst.code), <<Instr(op, dst.means, Reg(src))>>)
Unary(op, opcode, digit, oper) ==
  Call(emit_oper_rex(digit, oper.code, {}) \o <<opcode>> \o emit_oper(digit, oper.code), <<Instr(op, oper.means, None)>>)
Short(op, opcode, r) ==
  Call(emit_register_rex(r, {}) \o <<opcode + (r % 8)>>, <<Instr(op, Reg(r), None)>>)
-----------------------------------------------------------------------------
movq_ri(dst, imm) == Call(asm_movq_ri(dst, Bytes(imm, 8)), <<Instr("mov", Reg(dst), Imm(imm))>>)
asm_movq_rr(dst, src) == OperReg("mov", <<\h89>>, R(dst), src)
asm_movq_ra(dst, src) == RegOper("mov", <<\h8B>>, dst, src)
asm_movq_ar(dst, src) == OperReg("mov", <<\h89>>, dst, src)
asm_movq_ai(dst, imm) == Then(movq_ri(TMP, imm), asm_movq_ar(dst, TMP))
asm_leaq(dst, src) == RegOper("lea", <<\h8D>>, dst, src)

asm_addq_rr(dst, src) == RegOper("add", <<\h03>>, dst, R(src))
asm_addq_ra(dst, src) == RegOper("add", <<\h03>>, dst, src)
asm_addq_ri(dst, imm) == Then(movq_ri(TMP, imm), asm_addq_rr(dst, TMP))
asm_addq_ar(dst, src) == OperReg("add", <<\h01>>, dst, src)
asm_addq_ai(dst, imm) == Then(movq_ri(TMP, imm), asm_addq_ar(dst, TMP))

asm_subq_rr(dst, src) == RegOper("sub", <<\h2B>>, dst, R(src))
asm_subq_ra(dst, src) == RegOper("sub", <<\h2B>>, dst, src)
asm_subq_ri(dst, imm) == Then(movq_ri(TMP, imm), asm_subq_rr(dst, TMP))
asm_subq_ar(dst, src) == OperReg("sub", <<\h29>>, dst, src)
asm_subq_ai(dst, imm) == Then(movq_ri(TMP, imm), asm_subq_ar(dst, TMP))

asm_mulq_rr(dst, src) == RegOper("imul", <<\h0F, \hAF>>, dst, R(src))
asm_mulq_ri(dst, imm) == Then(movq_ri(TMP, imm), asm_mulq_rr(dst, TMP))
asm_andq_rr(dst, src) == RegOper("and", <<\h23>>, dst, R(src))
asm_andq_ri(dst, imm) == Then(movq_ri(TMP, imm), asm_andq_rr(dst, TMP))
asm_cmpq_rr(r1, r2) == RegOper("cmp", <<\h3B>>, r1, R(r2))
asm_cmpq_ri(r1, imm) == Then(movq_ri(TMP, imm), asm_cmpq_rr(r1, TMP))
asm_testq_rr(r1, r2) == RegOper("test", <<\h85>>, r1, R(r2))

asm_push_r(src) == Short("push", \h50, src)
asm_push_a(src) == Unary("push", \hFF, 6, src)
asm_push_i(imm) == IF is8(imm) THEN Call(<<\h6A, imm % 256>>, <<Instr("push", Imm(imm), None)>>)
                   ELSE Then(movq_ri(TMP, imm), asm_push_r(TMP))
asm_pop_r(dst) == Short("pop", \h58, dst)
asm_pop_a(dst) == Unary("pop", \h8F, 0, dst)
asm_jmp_r(dst) == Unary("jmp", \hFF, 4, R(dst))
asm_jmp_a(dst) == Unary("jmp", \hFF, 4, dst)
asm_call_r(r) == Unary("call", \hFF, 2, R(r))

asm_enter_frame(size) == All(<<asm_push_r(RBP), asm_movq_rr(RBP, RSP)>>
                               \o (IF size # 0 THEN <<asm_subq_ri(RSP, size)>> ELSE <<>>))
asm_leave_frame == Then(asm_movq_rr(RSP, RBP), asm_pop_r(RBP))
-----------------------------------------------------------------------------
ARGV_OFFSET == 0
RETVAL_OFFSET == 8
ARGC_OFFSET == 16
SizeOfArguments == 24

\* What it means to take from RSP, it takes as RBX: see asm_subq_ri.
native_call_compile(num_params, output) ==
  All(<<asm_push_i(NIL),
        asm_leaq(RAX, A(RBP, (kParamEndSlotFromFp + num_params) * kWordSize)),
        movq_ri(R10, num_params),
        movq_ri(RBX, native),
        asm_subq_ri(RSP, SizeOfArguments),
        asm_andq_ri(RSP, -16),
        asm_movq_ar(A(RSP, ARGC_OFFSET), R10),
        asm_movq_ar(A(RSP, ARGV_OFFSET), RAX),
        asm_movq_ra(RAX, A(RBP, 2 * kWordSize)),
        asm_movq_ar(A(RSP, RETVAL_OFFSET), RAX),
        asm_movq_rr(RDI, RSP),
        movq_ri(RSI, native),
        movq_ri(RAX, call_native),
        asm_call_r(RAX),
        asm_pop_r(output)>>)

\* The output of an instruction is pushed: a register, a constant, or a slot.
epilogue_register(r) == asm_push_r(loc_get_register(loc_init_r(r)))
epilogue_slot(slot) == asm_push_a(FrameSlot(slot))

\* NIL for the locals; a single one gets what RAX holds.
flow_graph_compiler_compile(num_stack_locals, num_copied_params, first_stack_local_index) ==
  All(<<asm_enter_frame(num_stack_locals + num_copied_params)>>
        \o (IF num_stack_locals > 1 THEN <<movq_ri(RAX, NIL)>> ELSE <<>>)
        \o [i \in 1 .. num_stack_locals |->
              asm_movq_ar(A(RBP, (first_stack_local_index - (i - 1)) * kWordSize), RAX)])
-----------------------------------------------------------------------------
Addresses == {A(base, disp) : base \in Registers, disp \in Displacements}
               \cup {S(index, scale, disp) : index \in Registers, scale \in Scales, disp \in Displacements}
               \cup {FrameSlot(slot) : slot \in Slots} \cup {StackSlot(slot) : slot \in Slots}

CallsOfRegisters == UNION {
  {asm_movq_rr(r, s), asm_addq_rr(r, s), asm_subq_rr(r, s), asm_mulq_rr(r, s), asm_andq_rr(r, s),
   asm_cmpq_rr(r, s), asm_testq_rr(r, s),
   asm_push_r(r), asm_pop_r(r), asm_jmp_r(r), asm_call_r(r), epilogue_register(r)} : r, s \in Registers}

CallsOfAddresses == UNION {
  {asm_movq_ra(r, a), asm_movq_ar(a, r), asm_leaq(r, a), asm_addq_ra(r, a), asm_addq_ar(a, r),
   asm_subq_ra(r, a), asm_subq_ar(a, r),
   asm_push_a(a), asm_pop_a(a), asm_jmp_a(a)} : r \in Registers, a \in Addresses}

CallsOfImmediates == UNION {
  {movq_ri(r, i), asm_addq_ri(r, i), asm_subq_ri(r, i), asm_mulq_ri(r, i), asm_andq_ri(r, i), asm_cmpq_ri(r, i),
   asm_movq_ai(A(r, 0), i), asm_addq_ai(A(r, 0), i), asm_subq_ai(A(r, 0), i), asm_push_i(i)}
     : r \in Registers, i \in Immediates}

CallsOfCompiler ==
  {asm_enter_frame(n) : n \in Sizes} \cup {asm_leave_frame}
    \cup {native_call_compile(n, r) : n \in Sizes, r \in Registers}
    \cup {epilogue_slot(slot) : slot \in Slots}
    \cup {flow_graph_compiler_compile(n, m, first) : n \in Sizes, m \in Sizes, first \in Slots}

Calls == CallsOfRegisters \cup CallsOfAddresses \cup CallsOfImmediates \cup CallsOfCompiler

Init == /\ \E call \in Calls : contents = call.bytes /\ meant = call.meant
        /\ rip = 0 /\ decoded = <<>>
-----------------------------------------------------------------------------
\* The processor: the instruction at rip, which ends before p.
Decode(op, dst, src, p) == /\ decoded' = Append(decoded, Instr(op, dst, src))
                           /\ rip' = p
                           /\ UNCHANGED <<contents, meant>>

\* The highest byte has the sign.
Signed(bytes) == FoldRight(LAMBDA byte, above : above * 256 + byte, Front(bytes),
                           IF Last(bytes) > 127 THEN Last(bytes) - 256 ELSE Last(bytes))

Immediate(p, n) == Signed([k \in 1 .. n |-> Byte(p + k - 1)])

Operand == IF Mod = 3 THEN Reg(RmField)
           ELSE Mem(IF HasBase THEN Base ELSE NoReg,
                    IF HasIndex THEN Index ELSE NoReg,
                    IF HasIndex THEN 2^(Sib \div 64) ELSE 1,
                    IF Disp = <<>> THEN 0 ELSE Signed(Disp))
OperandEnd == DispAt + DispSize
Wide == RexBit(REX_W) = 1

ToReg == [add |-> <<\h03>>, sub |-> <<\h2B>>, imul |-> <<\h0F, \hAF>>, and |-> <<\h23>>, cmp |-> <<\h3B>>,
          test |-> <<\h85>>, mov |-> <<\h8B>>, lea |-> <<\h8D>>]
decode_to_register ==
  \E op \in DOMAIN ToReg : /\ Opcode = ToReg[op] /\ Wide
                           /\ Decode(op, Reg(RegField), Operand, OperandEnd)

ToOperand == [add |-> <<\h01>>, sub |-> <<\h29>>, mov |-> <<\h89>>]
decode_to_operand ==
  \E op \in DOMAIN ToOperand : /\ Opcode = ToOperand[op] /\ Wide
                               /\ Decode(op, Operand, Reg(RegField), OperandEnd)

Group == [push |-> <<\hFF, 6>>, jmp |-> <<\hFF, 4>>, call |-> <<\hFF, 2>>, pop |-> <<\h8F, 0>>]
decode_unary ==
  \E op \in DOMAIN Group : /\ <<Byte(OpcodeAt), Digit>> = Group[op]
                           /\ Decode(op, Operand, None, OperandEnd)

OpcodeRegister == (Byte(OpcodeAt) % 8) + 8 * RexBit(REX_B)
decode_push_r == /\ Byte(OpcodeAt) \in \h50 .. \h57
                 /\ Decode("push", Reg(OpcodeRegister), None, OpcodeAt + 1)
decode_pop_r == /\ Byte(OpcodeAt) \in \h58 .. \h5F
                /\ Decode("pop", Reg(OpcodeRegister), None, OpcodeAt + 1)
decode_push_i == /\ Byte(OpcodeAt) = \h6A
                 /\ Decode("push", Imm(Immediate(OpcodeAt + 1, 1)), None, OpcodeAt + 2)
decode_mov_imm == /\ Byte(OpcodeAt) \in \hB8 .. \hBF /\ Wide
                  /\ Decode("mov", Reg(OpcodeRegister), Imm(Immediate(OpcodeAt + 1, 8)), OpcodeAt + 9)

Next == \/ decode_to_register \/ decode_to_operand \/ decode_unary
        \/ decode_push_r \/ decode_pop_r \/ decode_push_i \/ decode_mov_imm
=============================================================================
