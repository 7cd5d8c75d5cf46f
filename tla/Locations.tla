------------------------------ MODULE Locations ------------------------------
(***************************************************************************)
(* Where a value is, packed in a word (location.c, bitfield.h): a kind in  *)
(* the low bits and a payload above.  The program makes registers; stack   *)
(* slots are for the flow graph compiler, which it does not call.  A word  *)
(* has WordBits bits, really 64.                                           *)
(***************************************************************************)
EXTENDS Encoding, StackFrame

CONSTANT WordBits

ASSUME LocationsAssumption == /\ WordBits \in Nat /\ IntBits \in Nat
                              /\ 5 < IntBits /\ IntBits < WordBits - 4

BitField(pos, size) == [pos |-> pos, size |-> size]
bit_field_encode(field, value) == (value * PowerOf2[field.pos]) % PowerOf2[WordBits]
bit_field_decode(field, value) == (value \div PowerOf2[field.pos]) % PowerOf2[field.size]

kBitsForKind == 4
kBitsForPayload == WordBits - kBitsForKind
kBitsForBaseReg == 5
kKindField == BitField(0, kBitsForKind)
kPayloadField == BitField(kBitsForKind, kBitsForPayload)
kStackSlotBaseField == BitField(0, kBitsForBaseReg)
kStackIndexField == BitField(kBitsForBaseReg, kBitsForPayload - kBitsForBaseReg)

kStackSlot == 4
kRegister == 8

\* The bits of the two fields are apart, so that their sum is the code's "|".
allocated(kind, payload) == bit_field_encode(kKindField, kind) + bit_field_encode(kPayloadField, payload)

loc_get_kind(loc) == bit_field_decode(kKindField, loc)
loc_get_payload(loc) == bit_field_decode(kPayloadField, loc)

loc_init_r(reg) == allocated(kRegister, reg)
loc_is_register(loc) == loc_get_kind(loc) = kRegister
loc_get_register(loc) == Narrow(loc_get_payload(loc))

\* An int shifted by its width or more, at compile time: nothing is left.
kStackIndexBias == LET shift == kBitsForPayload - 5 - 1
                   IN  IF shift < IntBits THEN PowerOf2[shift] ELSE 0
encode_stack_index(index) == kStackIndexBias + index

\* loc_init_z is the same with RBP for the base.
loc_init_zr(slot, base) ==
  allocated(kStackSlot, bit_field_encode(kStackSlotBaseField, base)
                          + bit_field_encode(kStackIndexField, encode_stack_index(slot)))

loc_get_stack_slot(loc) == bit_field_decode(kStackIndexField, loc_get_payload(loc)) - kStackIndexBias
loc_get_stack_register(loc) == bit_field_decode(kStackSlotBaseField, loc_get_payload(loc))

loc_encode_stack_address(loc) ==
  LET index == loc_get_stack_slot(loc)
      first == IF index < 0 THEN kParamEndSlotFromFp ELSE kFirstLocalSlotFromFp
  IN  IF loc_get_stack_register(loc) = RBP
      THEN asm_addr_init_r(RBP, (first - index) * kWordSize)
      ELSE asm_addr_init_r(loc_get_stack_register(loc), index * kWordSize)
=============================================================================
