------------------------------ MODULE Encoding ------------------------------
(***************************************************************************)
(* Parts of instructions as sequences of bytes (x64/core.c): the rex       *)
(* prefix, operands and addresses, immediates.                             *)
(*                                                                         *)
(* A rex is the set of its bits, an operand a record of the bits that it   *)
(* wants in the prefix and of its bytes.  An int has IntBits bits, really  *)
(* 32; a displacement is one.                                              *)
(***************************************************************************)
EXTENDS Integers, Sequences, SequencesExt

CONSTANT IntBits

REX_B == 1
REX_X == 2
REX_R == 4
REX_W == 8
REX_PREFIX == \h40
RAX == 0
RBX == 3
RSP == 4
RBP == 5
R12 == 12
TIMES_1 == 0

When(bit, condition) == IF condition THEN {bit} ELSE {}
BitOf(rex, bit) == IF bit \in rex THEN bit ELSE 0

\* No bits, no prefix.
emit_rex(rex) == IF rex = {} THEN <<>> ELSE <<REX_PREFIX + BitOf(rex, REX_B) + BitOf(rex, REX_X)
                                                         + BitOf(rex, REX_R) + BitOf(rex, REX_W)>>

emit_register_rex(r, rex) == emit_rex(rex \cup When(REX_B, r > 7))
emit_rex_rb_xx(r, base, rex) == emit_rex(rex \cup When(REX_R, r > 7) \cup When(REX_B, base > 7))

\* Mutant: the operand's own bits are left out.
emit_rex_rb_raNoBase(r, oper, rex) == emit_rex(rex \cup When(REX_R, r > 7))
emit_rex_rb_ra(r, oper, rex) == emit_rex(rex \cup When(REX_R, r > 7) \cup oper.rex)

\* The integer instructions leave the operand's bits out.
emit_oper_rex(rm, oper, rex) == emit_rex(rex \cup When(REX_R, rm > 7))

\* Mutant: all bits of the register's number are or-ed in.
set_mod_rmUnmasked(mod, rm) ==
  [rex |-> When(REX_B, rm > 7 /\ ~(rm = R12 /\ mod # 3)), encoding |-> <<64 * mod + rm>>]

\* The first byte of an operand; a fresh operand has no bits yet.
set_mod_rm(mod, rm) ==
  [rex |-> When(REX_B, rm > 7 /\ ~(rm = R12 /\ mod # 3)), encoding |-> <<64 * mod + (rm % 8)>>]

\* The byte has no room for TIMES_16.
set_sib(addr, scale, index, base) ==
  [rex |-> addr.rex \cup When(REX_B, base > 7) \cup When(REX_W, index > 7),
   encoding |-> Append(addr.encoding, (64 * scale + 8 * (index % 8) + (base % 8)) % 256)]

\* The n low bytes of a number, the lowest first.
Bytes(value, n) == LET shifted[k \in 1 .. n] == IF k = 1 THEN value ELSE shifted[k - 1] \div 256
                   IN  [k \in 1 .. n |-> shifted[k] % 256]

\* The number with the one bit n: a function, for which there are proofs.
PowerOf2[n \in Nat] == IF n = 0 THEN 1 ELSE 2 * PowerOf2[n - 1]

\* A cast to int: the bits that are left, the highest of them as the sign.
Narrow(value) == LET low == value % PowerOf2[IntBits]
                 IN  IF low < PowerOf2[IntBits - 1] THEN low ELSE low - PowerOf2[IntBits]

\* Mutant: 128 counts as a signed byte.
is8Wide(imm) == imm \in -128 .. 128
is8(imm) == imm \in -128 .. 127
set_disp8(addr, disp) == [rex |-> addr.rex, encoding |-> Append(addr.encoding, disp % 256)]
set_disp32(addr, disp) == [rex |-> addr.rex, encoding |-> addr.encoding \o Bytes(Narrow(disp), 4)]

\* Mutant: a base that needs a second byte does not get it.
asm_addr_init_rNoSib(base, disp) ==
  IF disp = 0 /\ base % 8 # RBP THEN set_mod_rm(0, base)
  ELSE IF is8(disp) THEN set_disp8(set_mod_rm(1, base), disp)
  ELSE set_disp32(set_mod_rm(2, base), disp)

asm_addr_init_r(base, disp) ==
  LET Mode(mod) == IF base % 8 = RSP THEN set_sib(set_mod_rm(mod, base), TIMES_1, RSP, base)
                   ELSE set_mod_rm(mod, base)
  IN  IF disp = 0 /\ base % 8 # RBP THEN Mode(0)
      ELSE IF is8(disp) THEN set_disp8(Mode(1), disp)
      ELSE set_disp32(Mode(2), disp)

\* No base, an index that is scaled.  The bits may hold anything before; only
\* emit_oper_rex is ever given such an address, and does not read them.
asm_addr_init_s(index, scale, disp) ==
  set_disp32(set_sib(set_mod_rm(0, RSP), scale, index, RBP), disp)

\* set_mod_rm of a register may set a bit in its operand, which nobody reads.
asm_oper_init_r(r) == set_mod_rm(3, r)
emit_oper(rm, oper) == <<oper.encoding[1] + 8 * rm>> \o Tail(oper.encoding)
emit_xmm_register_operand(rm, r) == emit_oper(rm, set_mod_rm(3, r))

\* is32 compares with INT32_MIN on either side and is true of no number, so an
\* immediate is always the eight bytes of a word.
asm_movq_ri(dst, word) == emit_register_rex(dst, {REX_W}) \o <<\hB8 + (dst % 8)>> \o word
asm_ret == <<\hC3>>
=============================================================================
