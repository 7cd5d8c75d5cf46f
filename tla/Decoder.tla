------------------------------- MODULE Decoder -------------------------------
(***************************************************************************)
(* How the processor reads the instruction at rip: an F2 prefix, a rex, an *)
(* opcode of one or two bytes, a ModRM byte with what it asks for.         *)
(***************************************************************************)
EXTENDS Encoding

VARIABLES contents,    \* the code buffer up to the cursor
          rip          \* how much of the code the processor has read

\* There is no byte behind the end.
Byte(p) == IF p < Len(contents) THEN contents[p + 1] ELSE -1

Scalar == Byte(rip) = \hF2
RexAt == IF Scalar THEN rip + 1 ELSE rip
HasRex == Byte(RexAt) \in \h40 .. \h4F
RexBit(bit) == IF HasRex THEN (Byte(RexAt) \div bit) % 2 ELSE 0

OpcodeAt == IF HasRex THEN RexAt + 1 ELSE RexAt
Opcode == IF Byte(OpcodeAt) = \h0F THEN <<\h0F, Byte(OpcodeAt + 1)>> ELSE <<Byte(OpcodeAt)>>

ModRMAt == OpcodeAt + Len(Opcode)
ModRM == Byte(ModRMAt)
Mod == ModRM \div 64
Digit == (ModRM \div 8) % 8
RegField == Digit + 8 * RexBit(REX_R)
RmField == (ModRM % 8) + 8 * RexBit(REX_B)

HasSib == Mod # 3 /\ ModRM % 8 = RSP
Sib == Byte(ModRMAt + 1)
Index == ((Sib \div 8) % 8) + 8 * RexBit(REX_X)
HasIndex == HasSib /\ Index # RSP
Base == IF HasSib THEN (Sib % 8) + 8 * RexBit(REX_B) ELSE RmField
HasBase == ~(Mod = 0 /\ Base % 8 = RBP)

DispAt == ModRMAt + (IF HasSib THEN 2 ELSE 1)
DispSize == CASE Mod = 1 -> 1 [] Mod = 2 -> 4 [] Mod = 0 /\ ~HasBase -> 4 [] OTHER -> 0
Disp == [k \in 1 .. DispSize |-> Byte(DispAt + k - 1)]
=============================================================================
