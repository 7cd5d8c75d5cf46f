------------------------------ MODULE Assembler ------------------------------
(***************************************************************************)
(* Code generation to the byte: the handlers of compile.c call the         *)
(* encoders of x64/core.c, which append to the code buffer; main.c then    *)
(* calls the code, and the processor decodes the bytes and executes them.  *)
(* Each constant and each result is an object in memory, of which the code *)
(* knows the address and the place of its number field.                    *)
(*                                                                         *)
(* A byte is a number below 256.  The eight bytes of an object's address   *)
(* are opaque, but distinct: whoever reads them must find all of them, in  *)
(* their order, where an address is expected.                              *)
(***************************************************************************)
EXTENDS Ast, Locations, Decoder

CONSTANTS Lines,     \* pairs of a line of instructions and the registers assigned to them
          Offsets    \* places of the field as.number in an instance, below 256

VARIABLES
  code, locations,   \* the line
  registers,         \* history: the registers that locations stand for
  offset,            \* offsetof(instance, as.number)
  phase,             \* "compile", "run", "done"
  next,              \* the instruction that is compiled next
  placed,            \* history: how far the buffer was when each instruction's output was loaded
  reg, xmm, result,  \* the processor, with rip
  number             \* memory: the number field of each instruction's object

\* The operations that binary_op_compile has code for.
Handled == {"add", "sub", "mul", "div"}

ASSUME AssemblerAssumption == /\ 8 < IntBits /\ Offsets \subseteq 0 .. 255
                              /\ \A l \in Lines : IsLine(l[1], l[2], Handled)

emitted == <<next, contents, placed>>
processor == <<rip, reg, xmm, number, result>>
line == <<code, locations, registers, offset>>
vars == <<line, phase, emitted, processor>>
-----------------------------------------------------------------------------
XMM0 == 0
XMM1 == 1

asm_movsd_ra(dst, src) ==
  <<\hF2>> \o emit_rex_rb_ra(dst, src, {}) \o <<\h0F, \h10>> \o emit_oper(dst % 8, src)
asm_movsd_ar(dst, src) ==
  <<\hF2>> \o emit_rex_rb_ra(src, dst, {}) \o <<\h0F, \h11>> \o emit_oper(src % 8, dst)

\* asm_addsd_rr takes the two registers' rex bits the other way round.
asm_addsd_rr(dst, src) ==
  <<\hF2>> \o emit_rex_rb_xx(src, dst, {}) \o <<\h0F, \h58>> \o emit_xmm_register_operand(dst % 8, src)
asm_sd_rr(opcode, dst, src) ==
  <<\hF2>> \o emit_rex_rb_xx(dst, src, {}) \o <<\h0F, opcode>> \o emit_xmm_register_operand(dst % 8, src)
asm_arith_rr(op, dst, src) ==
  CASE op = "add" -> asm_addsd_rr(dst, src)
    [] op = "sub" -> asm_sd_rr(\h5C, dst, src)
    [] op = "mul" -> asm_sd_rr(\h59, dst, src)
    [] op = "div" -> asm_sd_rr(\h5E, dst, src)

\* The address of the object of instruction i, as an immediate.
Address(i) == [k \in 1 .. 8 |-> 256 + 8 * i + k - 1]
-----------------------------------------------------------------------------
Object(i) == [type |-> "object", value |-> i]
Caller(r) == [type |-> "caller", value |-> r]
Lost == [type |-> "undefined", value |-> 0]
NotYet == [type |-> "none", value |-> 0]
Zero == Literal(0)

\* A constant's object holds its number; number_new gives the others 0.0.
FirstNumber(instrs) == [i \in DOMAIN instrs |-> IF instrs[i].op = "constant" THEN Literal(instrs[i].arg) ELSE Zero]

\* assign: the locations of an instruction's operands and result.
assign(r) == [inputs |-> [k \in DOMAIN r.inputs |-> loc_init_r(r.inputs[k])],
              output |-> loc_init_r(r.output)]

Init == /\ \E l \in Lines : code = l[1] /\ registers = l[2]
        /\ locations = [i \in DOMAIN registers |-> assign(registers[i])]
        /\ offset \in Offsets
        /\ phase = "compile" /\ next = 1
        /\ contents = <<>> /\ placed = <<>>
        /\ rip = 0 /\ result = NotYet
        /\ reg = [r \in 0 .. 15 |-> Caller(r)]
        /\ xmm = [r \in 0 .. 15 |-> Lost]
        /\ number = FirstNumber(code)

Compiling(op) == phase = "compile" /\ next <= Len(code) /\ code[next].op = op

\* The bytes up to the move that loads the instruction's output, and those behind it.
Emit(loading, rest) == /\ contents' = contents \o loading \o rest
                       /\ placed' = Append(placed, Len(contents \o loading))
                       /\ next' = next + 1
                       /\ UNCHANGED <<line, phase, processor>>

constant_compile == /\ Compiling("constant") /\ loc_is_register(locations[next].output)
                    /\ Emit(asm_movq_ri(loc_get_register(locations[next].output), Address(next)), <<>>)

Field(loc) == asm_addr_init_r(loc_get_register(loc), offset)

binary_op_compile ==
  /\ Compiling("binary_op")
  /\ LET loc == locations[next] IN
       Emit(asm_movsd_ra(XMM0, Field(loc.inputs[1]))
              \o asm_movsd_ra(XMM1, Field(loc.inputs[2]))
              \o asm_arith_rr(code[next].arg, XMM0, XMM1)
              \o asm_movq_ri(loc_get_register(loc.output), Address(next)),
            asm_movsd_ar(Field(loc.output), XMM0))

store_local_compile == Compiling("store_local") /\ Emit(<<>>, <<>>)

return_compile == Compiling("return") /\ Emit(asm_ret, <<>>)

\* The copy in executable memory is called: no code depends on where it is.
asm_compile == /\ phase = "compile" /\ next > Len(code) /\ contents # <<>>
               /\ phase' = "run"
               /\ UNCHANGED <<line, emitted, processor>>
-----------------------------------------------------------------------------
\* The bytes of a displacement are sign-extended.
IsOffset(disp) == \/ disp = <<>> /\ offset = 0
                  \/ disp = <<offset>> /\ offset < 128
                  \/ disp = <<offset, 0, 0, 0>>

AtBase == HasBase /\ ~HasIndex

\* What is at the operand's address: a number field, or what the caller had there.
Value(v) == IF v.type = "object" THEN number[v.value] ELSE v
Loaded == IF AtBase /\ IsOffset(Disp) THEN Value(reg[Base]) ELSE Lost

IsSse(opcode) == phase = "run" /\ Scalar /\ Opcode = <<\h0F, opcode>>
Continue(p) == rip' = p /\ UNCHANGED <<line, phase, emitted, result>>

movsd_load == /\ IsSse(\h10) /\ Mod # 3
              /\ xmm' = [xmm EXCEPT ![RegField] = Loaded]
              /\ Continue(DispAt + DispSize)
              /\ UNCHANGED <<reg, number>>

movsd_store == /\ IsSse(\h11) /\ Mod # 3
               /\ AtBase /\ IsOffset(Disp) /\ reg[Base].type = "object"
               /\ number' = [number EXCEPT ![reg[Base].value] = xmm[RegField]]
               /\ Continue(DispAt + DispSize)
               /\ UNCHANGED <<reg, xmm>>

Arithmetic == [add |-> \h58, mul |-> \h59, sub |-> \h5C, div |-> \h5E]
arith == /\ \E op \in DOMAIN Arithmetic :
              /\ IsSse(Arithmetic[op]) /\ Mod = 3
              /\ xmm' = [xmm EXCEPT ![RegField] = BinaryOp(op, xmm[RegField], xmm[RmField])]
         /\ Continue(DispAt)
         /\ UNCHANGED <<reg, number>>

mov_imm64 == /\ phase = "run" /\ ~Scalar /\ Byte(OpcodeAt) \in \hB8 .. \hBF /\ RexBit(REX_W) = 1
             /\ LET imm == [k \in 1 .. 8 |-> Byte(OpcodeAt + k)]
                    named == {i \in DOMAIN code : imm = Address(i)}
                IN  reg' = [reg EXCEPT ![(Byte(OpcodeAt) % 8) + 8 * RexBit(REX_B)] =
                              IF named = {} THEN Lost ELSE Object(CHOOSE i \in named : TRUE)]
             /\ Continue(OpcodeAt + 9)
             /\ UNCHANGED <<xmm, number>>

ret == /\ phase = "run" /\ ~Scalar /\ Byte(OpcodeAt) = \hC3
       /\ result' = IF reg[RSP] = Caller(RSP) THEN Value(reg[RAX]) ELSE Lost
       /\ phase' = "done"
       /\ UNCHANGED <<line, emitted, rip, reg, xmm, number>>

Compile == constant_compile \/ binary_op_compile \/ store_local_compile \/ return_compile \/ asm_compile
Processor == movsd_load \/ movsd_store \/ arith \/ mov_imm64 \/ ret
Next == Compile \/ Processor

Spec == Init /\ [][Next]_vars /\ WF_vars(Next)
-----------------------------------------------------------------------------
(* The buffer holds bytes and whole addresses' bytes, registers hold what  *)
(* the caller had or objects of the line, and memory holds values.         *)
TypeOK == /\ next \in 1 .. Len(code) + 1 /\ Len(placed) = next - 1
          /\ \A p \in DOMAIN contents : contents[p] \in 0 .. 255 \cup 264 .. 8 * Len(code) + 263
          /\ rip \in 0 .. Len(contents)
          /\ \A r \in DOMAIN reg : reg[r] = Caller(r) \/ reg[r] \in {Object(i) : i \in DOMAIN code}

(* Every line of instructions that ends with a return gives code that the  *)
(* processor can decode to its end, instruction by instruction.            *)
CodeReturns == <>(phase = "done")

\* An instruction's effect is complete, as far as the registers tell, when its
\* output is loaded; the result of an operation is then still in XMM0.
Executed(i) == Len(placed) = Len(code) /\ rip >= placed[i]
NextIp == Min({i \in DOMAIN code : code[i].op # "store_local" /\ ~Executed(i)} \cup {Len(code) + 1})
Pending(v) == v.type = "object" /\ code[v.value].op = "binary_op" /\ rip = placed[v.value]

Abstract == INSTANCE Machine WITH
  locations <- registers,
  phase <- IF phase = "done" THEN "done" ELSE "assigned",
  ip <- NextIp,
  reg <- [r \in DOMAIN reg |-> IF phase = "run" /\ Pending(reg[r]) THEN xmm[XMM0] ELSE Value(reg[r])]

(* The bytes, decoded and executed, do what Machine says of the line: each *)
(* operand is read from the register it was given, each result goes to its *)
(* own, and no other register changes.                                     *)
ImplementsMachine == Abstract!Spec
=============================================================================
