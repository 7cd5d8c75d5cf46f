--------------------------- MODULE AssemblerProofs ---------------------------
(***************************************************************************)
(* The bytes that the back end emits, for every line of instructions that  *)
(* the allocator can hand it and every offset of the number in its object. *)
(*                                                                         *)
(* A register comes back out of the location word that it was packed into. *)
(* So each handler of codegen.c appends a byte string that is known, and   *)
(* the processor, which knows nothing of the handlers, finds in it exactly *)
(* the machine instructions that were meant: the prefix, the opcode and    *)
(* the ModRM byte give back the registers, and a displacement of one or of *)
(* four bytes gives back the offset.                                       *)
(*                                                                         *)
(* The invariant AsmInv says where the code of each instruction begins and *)
(* ends in the buffer, how far the processor is within the one at rip, and *)
(* that a register has what the caller had in it or the object of an       *)
(* instruction that is done.  From it follow the types, and that the bytes *)
(* run as Machine says: the instruction that loads an output is Machine's  *)
(* step, and what leads up to it changes nothing that Machine sees.        *)
(***************************************************************************)
EXTENDS Assembler, SequenceTheorems, WellFoundedInduction, TLAPS

-----------------------------------------------------------------------------
(* Powers of two, as far as locations need them.                           *)

\* A set of numbers that is not empty has a least member.
LEMMA LeastNumber ==
  ASSUME NEW T \in SUBSET Nat, T # {}
  PROVE  \E n \in T : \A m \in T : n <= m
<1> DEFINE R == OpToRel(<, Nat)
<1>1. IsWellFoundedOn(R, Nat)
  BY NatLessThanWellFounded
<1>2. PICK n \in T : \A m \in T : ~ (<<m, n>> \in R)
  <2> HIDE DEF R
  <2> QED  BY <1>1, WFMin
<1>3. \A m \in Nat : m < n => <<m, n>> \in R
  BY DEF OpToRel
<1>4. ASSUME NEW m \in T PROVE n <= m
  <2>1. m \in Nat /\ n \in Nat
    OBVIOUS
  <2>2. ~ (m < n)
    BY <1>2, <1>3, <2>1, Zenon
  <2> QED  BY <2>1, <2>2
<1> QED  BY <1>4

\* What holds of 0, and of the next number when it holds of one, holds of all.
LEMMA Induction ==
  ASSUME NEW S, 0 \in S, \A i \in Nat : i \in S => i + 1 \in S
  PROVE  \A i \in Nat : i \in S
<1> DEFINE Bad == {i \in Nat : i \notin S}
<1> SUFFICES ASSUME Bad # {} PROVE FALSE
  OBVIOUS
<1>1. Bad \in SUBSET Nat
  OBVIOUS
<1>2. PICK i \in Bad : \A m \in Bad : i <= m
  <2> HIDE DEF Bad
  <2> QED  BY <1>1, LeastNumber
<1>3. i \in Nat /\ i \notin S /\ i # 0
  OBVIOUS
<1>4. i - 1 \in Nat /\ ~ (i <= i - 1)
  BY <1>3
<1>5. i - 1 \in S
  BY <1>2, <1>4
<1>6. (i - 1) + 1 \in S
  BY <1>4, <1>5
<1> QED  BY <1>3, <1>6

\* Is g the function PowerOf2 as far as m?
Powers(g, m) == g[0] = 1 /\ \A i \in 0 .. m - 1 : g[i + 1] = 2 * g[i]

LEMMA PowersExist ==
  ASSUME NEW n \in Nat
  PROVE  \E g : Powers(g, n)
<1> DEFINE Good == {m \in Nat : \E g : Powers(g, m)}
<1>1. 0 \in Good
  <2>1. Powers([i \in {0} |-> 1], 0)
    BY DEF Powers
  <2> QED  BY <2>1
<1>2. ASSUME NEW m \in Nat, m \in Good PROVE m + 1 \in Good
  <2>1. PICK g : Powers(g, m)
    BY <1>2
  <2> DEFINE h == [i \in 0 .. m + 1 |-> IF i = m + 1 THEN 2 * g[m] ELSE g[i]]
  <2>2. h[0] = 1 /\ \A i \in 0 .. m : h[i + 1] = 2 * h[i]
    <3>1. \A i \in 0 .. m : h[i] = g[i] /\ i \in 0 .. m + 1 /\ i + 1 \in 0 .. m + 1
      OBVIOUS
    <3>2. h[m + 1] = 2 * g[m]
      OBVIOUS
    <3> HIDE DEF h
    <3>3. 0 \in 0 .. m /\ m \in 0 .. m
      OBVIOUS
    <3>4. ASSUME NEW i \in 0 .. m PROVE h[i + 1] = 2 * h[i]
      <4>1. CASE i = m
        BY <3>1, <3>2, <3>3, <4>1
      <4>2. CASE i # m
        <5>1. i \in 0 .. m - 1 /\ i + 1 \in 0 .. m
          BY <4>2
        <5>2. h[i + 1] = g[i + 1] /\ h[i] = g[i] /\ g[i + 1] = 2 * g[i]
          BY <2>1, <3>1, <5>1 DEF Powers
        <5> QED  BY <5>2
      <4> QED  BY <4>1, <4>2
    <3> QED  BY <2>1, <3>1, <3>3, <3>4 DEF Powers
  <2> HIDE DEF h
  <2>3. Powers(h, m + 1)
    BY <2>2 DEF Powers
  <2> QED  BY <2>3
<1> HIDE DEF Good
<1>3. n \in Good
  BY <1>1, <1>2, Induction
<1> QED  BY <1>3 DEF Good

LEMMA PowersAgree ==
  ASSUME NEW m \in Nat, NEW g, NEW h, Powers(g, m), Powers(h, m)
  PROVE  \A i \in 0 .. m : g[i] = h[i]
<1> DEFINE Good == {i \in Nat : i <= m => g[i] = h[i]}
<1>1. 0 \in Good
  BY DEF Powers
<1>2. ASSUME NEW i \in Nat, i \in Good PROVE i + 1 \in Good
  <2> SUFFICES ASSUME i + 1 <= m PROVE g[i + 1] = h[i + 1]
    OBVIOUS
  <2>1. i \in 0 .. m - 1 /\ g[i] = h[i]
    BY <1>2
  <2> QED  BY <2>1 DEF Powers
<1> HIDE DEF Good
<1>3. \A i \in Nat : i \in Good
  BY <1>1, <1>2, Induction
<1> QED  BY <1>3 DEF Good

LEMMA PowerOf2Is == PowerOf2[0] = 1 /\ \A n \in Nat : PowerOf2[n + 1] = 2 * PowerOf2[n]
<1> DEFINE upTo(n) == CHOOSE g : Powers(g, n)
           f == [n \in Nat |-> upTo(n)[n]]
<1>1. ASSUME NEW n \in Nat PROVE Powers(upTo(n), n)
  <2>1. PICK g : Powers(g, n)
    BY PowersExist
  <2> QED  BY <2>1
<1>2. ASSUME NEW n \in Nat PROVE f[n] = IF n = 0 THEN 1 ELSE 2 * f[n - 1]
  <2>1. f[n] = upTo(n)[n]
    OBVIOUS
  <2>2. CASE n = 0
    <3>1. Powers(upTo(0), 0)
      BY <1>1
    <3> QED  BY <2>1, <2>2, <3>1 DEF Powers
  <2>3. CASE n # 0
    <3>1. n - 1 \in Nat /\ n - 1 \in 0 .. n - 1 /\ (n - 1) + 1 = n
      BY <2>3
    <3>2. f[n - 1] = upTo(n - 1)[n - 1]
      BY <3>1
    <3> HIDE DEF upTo
    <3>3. Powers(upTo(n), n) /\ Powers(upTo(n - 1), n - 1)
      BY <1>1, <3>1
    <3>4. Powers(upTo(n), n - 1)
      BY <3>3 DEF Powers
    <3>5. upTo(n)[n - 1] = upTo(n - 1)[n - 1]
      BY <3>1, <3>3, <3>4, PowersAgree
    <3>6. upTo(n)[(n - 1) + 1] = 2 * upTo(n)[n - 1]
      BY <3>1, <3>3 DEF Powers
    <3> QED  BY <2>1, <2>3, <3>1, <3>2, <3>5, <3>6
  <2> QED  BY <2>2, <2>3
<1>3. f = [n \in Nat |-> IF n = 0 THEN 1 ELSE 2 * f[n - 1]]
  <2> HIDE DEF upTo
  <2>1. \A n \in Nat : f[n] = IF n = 0 THEN 1 ELSE 2 * f[n - 1]
    BY <1>2
  <2>2. f = [n \in Nat |-> f[n]]
    OBVIOUS
  <2> HIDE DEF f
  <2> QED  BY <2>1, <2>2
<1>4. PowerOf2 = CHOOSE p : p = [n \in Nat |-> IF n = 0 THEN 1 ELSE 2 * p[n - 1]]
  BY DEF PowerOf2
<1>5. PowerOf2 = [n \in Nat |-> IF n = 0 THEN 1 ELSE 2 * PowerOf2[n - 1]]
  <2> HIDE DEF f
  <2> QED  BY <1>3, <1>4
<1>6. PowerOf2[0] = 1
  BY <1>5
<1>7. ASSUME NEW n \in Nat PROVE PowerOf2[n + 1] = 2 * PowerOf2[n]
  <2>1. n + 1 \in Nat /\ n + 1 # 0 /\ (n + 1) - 1 = n
    OBVIOUS
  <2>2. PowerOf2[n + 1] = IF n + 1 = 0 THEN 1 ELSE 2 * PowerOf2[(n + 1) - 1]
    BY <1>5, <2>1
  <2> QED  BY <2>1, <2>2
<1> QED  BY <1>6, <1>7

LEMMA PowerOf2Type ==
  ASSUME NEW n \in Nat
  PROVE  PowerOf2[n] \in Nat /\ PowerOf2[n] > 0
<1> DEFINE Good == {i \in Nat : PowerOf2[i] \in Nat /\ PowerOf2[i] > 0}
<1>1. 0 \in Good
  BY PowerOf2Is
<1>2. ASSUME NEW i \in Nat, i \in Good PROVE i + 1 \in Good
  <2>1. PowerOf2[i + 1] = 2 * PowerOf2[i]
    BY PowerOf2Is
  <2> QED  BY <1>2, <2>1
<1> HIDE DEF Good
<1>3. n \in Good
  BY <1>1, <1>2, Induction
<1> QED  BY <1>3 DEF Good

LEMMA PowerOf2Sum ==
  ASSUME NEW m \in Nat, NEW n \in Nat
  PROVE  PowerOf2[m + n] = PowerOf2[m] * PowerOf2[n]
<1> DEFINE Good == {i \in Nat : PowerOf2[m + i] = PowerOf2[m] * PowerOf2[i]}
<1>0. PowerOf2[m] \in Nat
  BY PowerOf2Type
<1>1. 0 \in Good
  BY <1>0, PowerOf2Is
<1>2. ASSUME NEW i \in Nat, i \in Good PROVE i + 1 \in Good
  <2>1. m + i \in Nat /\ m + (i + 1) = (m + i) + 1
    OBVIOUS
  <2>2. PowerOf2[m + (i + 1)] = 2 * PowerOf2[m + i]
    BY <2>1, PowerOf2Is
  <2>3. PowerOf2[i + 1] = 2 * PowerOf2[i] /\ PowerOf2[i] \in Nat
    BY PowerOf2Is, PowerOf2Type
  <2>4. PowerOf2[m + i] = PowerOf2[m] * PowerOf2[i]
    BY <1>2
  <2>5. \A a, b \in Nat : 2 * (a * b) = a * (2 * b)
    OBVIOUS
  <2>6. PowerOf2[m + (i + 1)] = PowerOf2[m] * PowerOf2[i + 1]
    BY <1>0, <2>2, <2>3, <2>4, <2>5
  <2> QED  BY <2>6
<1> HIDE DEF Good
<1>3. n \in Good
  BY <1>1, <1>2, Induction
<1> QED  BY <1>3 DEF Good

LEMMA SmallPowers ==
  /\ PowerOf2[0] = 1 /\ PowerOf2[1] = 2 /\ PowerOf2[4] = 16 /\ PowerOf2[5] = 32 /\ PowerOf2[8] = 256
<1>1. PowerOf2[0 + 1] = 2 * PowerOf2[0] /\ PowerOf2[1 + 1] = 2 * PowerOf2[1] /\ PowerOf2[2 + 1] = 2 * PowerOf2[2]
      /\ PowerOf2[3 + 1] = 2 * PowerOf2[3] /\ PowerOf2[4 + 1] = 2 * PowerOf2[4] /\ PowerOf2[5 + 1] = 2 * PowerOf2[5]
      /\ PowerOf2[6 + 1] = 2 * PowerOf2[6] /\ PowerOf2[7 + 1] = 2 * PowerOf2[7] /\ PowerOf2[0] = 1
  BY PowerOf2Is
<1>2. 0 + 1 = 1 /\ 1 + 1 = 2 /\ 2 + 1 = 3 /\ 3 + 1 = 4 /\ 4 + 1 = 5 /\ 5 + 1 = 6 /\ 6 + 1 = 7 /\ 7 + 1 = 8
  OBVIOUS
<1> QED  BY <1>1, <1>2
-----------------------------------------------------------------------------
(* A register comes back out of its location, -1 too: the payload has all  *)
(* the bits of an int, and what is cut off is the sign.                    *)

LEMMA Fields ==
  /\ kBitsForKind = 4 /\ kBitsForPayload = WordBits - 4
  /\ kKindField = [pos |-> 0, size |-> 4]
  /\ kPayloadField = [pos |-> 4, size |-> WordBits - 4]
BY DEF kBitsForKind, kBitsForPayload, kKindField, kPayloadField, BitField

\* A word is a nibble and whole ints above it.
LEMMA WordOfInts ==
  ASSUME 5 < IntBits, IntBits \in Nat, WordBits \in Nat, IntBits < WordBits - 4
  PROVE  \E q, h \in Nat : /\ 0 < q /\ 16 <= h
                           /\ PowerOf2[WordBits - 4] = q * (2 * h)
                           /\ PowerOf2[WordBits] = 16 * (q * (2 * h))
                           /\ PowerOf2[IntBits] = 2 * h /\ PowerOf2[IntBits - 1] = h
<1> DEFINE w == WordBits - 4 - IntBits
           n == IntBits - 5
<1>1. w \in Nat /\ n \in Nat /\ WordBits - 4 \in Nat /\ IntBits - 1 \in Nat
      /\ w + IntBits = WordBits - 4 /\ 4 + (WordBits - 4) = WordBits /\ 4 + n = IntBits - 1 /\ (IntBits - 1) + 1 = IntBits
  OBVIOUS
<1> DEFINE q == PowerOf2[w]
           h == PowerOf2[IntBits - 1]
<1>2. q \in Nat /\ 0 < q /\ h \in Nat /\ PowerOf2[n] \in Nat /\ PowerOf2[n] > 0
  BY <1>1, PowerOf2Type
<1>3. h = 16 * PowerOf2[n]
  <2>1. PowerOf2[4 + n] = PowerOf2[4] * PowerOf2[n]
    BY <1>1, PowerOf2Sum
  <2> QED  BY <1>1, <2>1, SmallPowers
<1>4. PowerOf2[IntBits] = 2 * h
  <2>1. PowerOf2[(IntBits - 1) + 1] = 2 * PowerOf2[IntBits - 1]
    BY <1>1, PowerOf2Is
  <2> QED  BY <1>1, <2>1
<1>5. PowerOf2[WordBits - 4] = q * PowerOf2[IntBits]
  <2>1. PowerOf2[w + IntBits] = PowerOf2[w] * PowerOf2[IntBits]
    BY <1>1, PowerOf2Sum
  <2> QED  BY <1>1, <2>1
<1>6. PowerOf2[WordBits] = 16 * PowerOf2[WordBits - 4]
  <2>1. PowerOf2[4 + (WordBits - 4)] = PowerOf2[4] * PowerOf2[WordBits - 4]
    BY <1>1, PowerOf2Sum
  <2> QED  BY <1>1, <2>1, SmallPowers
<1>7. 16 <= h
  BY <1>2, <1>3
<1> HIDE DEF q, h
<1>8. PowerOf2[WordBits] = 16 * (q * (2 * h)) /\ PowerOf2[WordBits - 4] = q * (2 * h)
  BY <1>4, <1>5, <1>6
<1>9. PowerOf2[IntBits - 1] = h
  BY DEF h
<1> QED  BY <1>2, <1>4, <1>7, <1>8, <1>9

\* The word of register r, with room for p payloads, gives the kind and r.
CutsBack(q, h, r) == LET p == q * (2 * h)
                         loc == ((8 * 1) % (16 * p)) + ((r * 16) % (16 * p))
                         low == ((loc \div 16) % p) % (2 * h)
                     IN  /\ (loc \div 1) % 16 = 8
                         /\ (IF low < h THEN low ELSE low - 2 * h) = r

LEMMA CutWord ==
  ASSUME NEW q \in Nat, NEW h \in Nat, 0 < q, 16 <= h, NEW r \in -1 .. 15
  PROVE  CutsBack(q, h, r)
<1> DEFINE p == q * (2 * h)
           loc == ((8 * 1) % (16 * p)) + ((r * 16) % (16 * p))
           low == ((loc \div 16) % p) % (2 * h)
<1>1. p \in Nat /\ 32 <= p
  <2>1. 32 <= 2 * h /\ 2 * h \in Nat
    OBVIOUS
  <2>2. \A a, b \in Nat : 0 < a => b <= a * b /\ a * b \in Nat
    OBVIOUS
  <2> QED  BY <2>1, <2>2
<1>2. (8 * 1) % (16 * p) = 8
  <2> HIDE DEF p
  <2> QED  BY <1>1
<1> SUFFICES (loc \div 1) % 16 = 8 /\ (IF low < h THEN low ELSE low - 2 * h) = r
  BY DEF CutsBack
<1>3. CASE r # -1
  <2>1. r \in 0 .. 15 /\ (r * 16) % (16 * p) = r * 16
    <3> HIDE DEF p
    <3> QED  BY <1>1, <1>3
  <2>2. loc = 8 + 16 * r
    BY <1>2, <2>1
  <2>3. loc \div 16 = r /\ (loc \div 1) % 16 = 8
    <3> HIDE DEF loc
    <3> QED  BY <2>1, <2>2
  <2>4. r % p = r /\ r % (2 * h) = r
    <3> HIDE DEF p
    <3> QED  BY <1>1, <2>1
  <2>5. low = r
    <3> HIDE DEF p, loc
    <3> QED  BY <2>3, <2>4
  <2> QED  BY <2>1, <2>3, <2>5
<1>4. CASE r = -1
  <2>1. (r * 16) % (16 * p) = 16 * p - 16
    <3> HIDE DEF p
    <3> QED  BY <1>1, <1>4
  <2>2. loc = 16 * (p - 1) + 8
    <3> HIDE DEF p
    <3> QED  BY <1>1, <1>2, <2>1
  <2>3. loc \div 16 = p - 1 /\ (loc \div 1) % 16 = 8
    <3> HIDE DEF p, loc
    <3> QED  BY <1>1, <2>2
  <2>4. (p - 1) % p = p - 1
    <3> HIDE DEF p
    <3> QED  BY <1>1
  <2>5. (p - 1) % (2 * h) = 2 * h - 1
    <3>1. \A m \in Nat : 0 < m => (q * m - 1) % m = m - 1
      <4> TAKE m \in Nat
      <4> HAVE 0 < m
      <4>1. q * m - 1 = (q - 1) * m + (m - 1)
        OBVIOUS
      <4>2. \A a \in Nat : (a * m + (m - 1)) % m = m - 1
        OBVIOUS
      <4> QED  BY <4>1, <4>2
    <3>2. 2 * h \in Nat /\ 0 < 2 * h
      OBVIOUS
    <3> QED  BY <3>1, <3>2
  <2>6. low = 2 * h - 1
    <3> HIDE DEF p, loc
    <3> QED  BY <2>3, <2>4, <2>5
  <2>7. ~ (low < h) /\ low - 2 * h = r
    <3> HIDE DEF low
    <3> QED  BY <1>4, <2>6
  <2> HIDE DEF low, loc
  <2> QED  BY <2>3, <2>7
<1> QED  BY <1>3, <1>4

(* Whatever register of the pool a location is made of, or -1, the handlers*)
(* of the code generator find a register in it, and the same one           *)
(* (loc_init_r, loc_is_register and loc_get_register of location.c).       *)
THEOREM RegisterComesBack ==
  \A r \in -1 .. 15 : loc_is_register(loc_init_r(r)) /\ loc_get_register(loc_init_r(r)) = r
<1> SUFFICES ASSUME NEW r \in -1 .. 15
             PROVE  loc_is_register(loc_init_r(r)) /\ loc_get_register(loc_init_r(r)) = r
  OBVIOUS
<1>1. PICK q, h \in Nat : /\ 0 < q /\ 16 <= h
                          /\ PowerOf2[WordBits - 4] = q * (2 * h)
                          /\ PowerOf2[WordBits] = 16 * (q * (2 * h))
                          /\ PowerOf2[IntBits] = 2 * h /\ PowerOf2[IntBits - 1] = h
  BY WordOfInts, LocationsAssumption DEF LocationsAssumption
<1> DEFINE p == q * (2 * h)
           loc == ((8 * 1) % (16 * p)) + ((r * 16) % (16 * p))
           low == ((loc \div 16) % p) % (2 * h)
<1>2. (loc \div 1) % 16 = 8 /\ (IF low < h THEN low ELSE low - 2 * h) = r
  <2>1. CutsBack(q, h, r)
    BY <1>1, CutWord
  <2> QED  BY <2>1 DEF CutsBack
<1>3. PowerOf2[WordBits - 4] = p /\ PowerOf2[WordBits] = 16 * p /\ PowerOf2[0] = 1 /\ PowerOf2[4] = 16
  BY <1>1, SmallPowers
<1> HIDE DEF p
<1>4. loc_init_r(r) = loc
  <2>1. bit_field_encode(kKindField, kRegister) = (8 * 1) % (16 * p)
    BY <1>3, Fields DEF bit_field_encode, kRegister
  <2>2. bit_field_encode(kPayloadField, r) = (r * 16) % (16 * p)
    BY <1>3, Fields DEF bit_field_encode
  <2>3. loc_init_r(r) = bit_field_encode(kKindField, kRegister) + bit_field_encode(kPayloadField, r)
    BY DEF loc_init_r, allocated
  <2> DEFINE a == (8 * 1) % (16 * p)
             b == (r * 16) % (16 * p)
  <2>4. loc = a + b
    OBVIOUS
  <2> HIDE DEF a, b, loc
  <2>5. bit_field_encode(kKindField, kRegister) = a
    BY <2>1 DEF a
  <2>6. bit_field_encode(kPayloadField, r) = b
    BY <2>2 DEF b
  <2> QED  BY <2>3, <2>4, <2>5, <2>6
<1> HIDE DEF loc
<1>5. loc_get_kind(loc) = (loc \div 1) % 16 /\ loc_get_payload(loc) = (loc \div 16) % p
  BY <1>3, Fields DEF loc_get_kind, loc_get_payload, bit_field_decode
<1>6. loc_get_register(loc) = IF low < h THEN low ELSE low - 2 * h
  BY <1>1, <1>5 DEF loc_get_register, Narrow
<1>7. loc_is_register(loc)
  BY <1>2, <1>5 DEF loc_is_register, kRegister
<1> QED  BY <1>2, <1>4, <1>6, <1>7
-----------------------------------------------------------------------------
(* What the encoders emit, in the order of the bytes.                      *)

\* A register's number as the encoders see it: -1 has the low bits of 7.
High(r) == r > 7
Full(r) == (r % 8) + (IF High(r) THEN 8 ELSE 0)

\* Is the string t in s, behind the first p?
At(s, p, t) == p + Len(t) <= Len(s) /\ \A k \in 1 .. Len(t) : s[p + k] = t[k]

\* The operand that addresses the field at off of the object in register b.
ModOf(b, off) == IF off = 0 /\ b % 8 # RBP THEN 0 ELSE IF off < 128 THEN 1 ELSE 2
RexOf(b) == IF High(b) THEN {REX_B} ELSE {}
SibOf(b) == IF b % 8 = RSP THEN <<36>> ELSE <<>>
DispOf(b, off) == CASE ModOf(b, off) = 0 -> <<>>
                    [] ModOf(b, off) = 1 -> <<off>>
                    [] ModOf(b, off) = 2 -> <<off, 0, 0, 0>>
FieldModRM(b, off) == 64 * ModOf(b, off) + (b % 8)
FieldEnd(b, off) == SibOf(b) \o DispOf(b, off)

\* The machine instructions that the line is made of.
PrefixOf(b) == IF High(b) THEN <<65>> ELSE <<>>
Movsd(opcode, x, b, off) == <<242>> \o PrefixOf(b) \o <<15, opcode>>
                              \o <<FieldModRM(b, off) + 8 * x>> \o FieldEnd(b, off)
Arith(op) == <<242>> \o <<15, Arithmetic[op]>> \o <<193>>
Mov(r, i) == <<IF High(r) THEN 73 ELSE 72>> \o <<184 + (r % 8)>> \o Address(i)

First(place, off) == Movsd(16, 0, place.inputs[1], off)
Second(place, off) == Movsd(16, 1, place.inputs[2], off)
Store(place, off) == Movsd(17, 0, place.output, off)

\* What is emitted for an instruction, up to the move that loads its output and behind it.
Loading(instr, place, off, i) ==
  CASE instr.op = "constant" -> Mov(place.output, i)
    [] instr.op = "binary_op" -> First(place, off) \o Second(place, off) \o Arith(instr.arg) \o Mov(place.output, i)
    [] instr.op = "return" -> <<195>>
    [] instr.op = "store_local" -> <<>>
Rest(instr, place, off) == IF instr.op = "binary_op" THEN Store(place, off) ELSE <<>>

Strings == Seq(Int)

LEMMA Joined ==
  ASSUME NEW a \in Strings, NEW b \in Strings
  PROVE  /\ Len(a) \in Nat /\ Len(b) \in Nat
         /\ a \o b \in Strings /\ Len(a \o b) = Len(a) + Len(b)
         /\ \A k \in 1 .. Len(a) : (a \o b)[k] = a[k]
         /\ \A k \in 1 .. Len(b) : (a \o b)[Len(a) + k] = b[k]
<1>1. Len(a) \in Nat /\ Len(b) \in Nat
  BY LenProperties DEF Strings
<1>2. a \o b \in Strings /\ Len(a \o b) = Len(a) + Len(b)
      /\ \A k \in 1 .. Len(a) + Len(b) : (a \o b)[k] = IF k <= Len(a) THEN a[k] ELSE b[k - Len(a)]
  BY ConcatProperties DEF Strings
<1>3. ASSUME NEW k \in 1 .. Len(a) PROVE (a \o b)[k] = a[k]
  <2>1. k \in 1 .. Len(a) + Len(b) /\ k <= Len(a)
    BY <1>1
  <2> QED  BY <1>2, <2>1
<1>4. ASSUME NEW k \in 1 .. Len(b) PROVE (a \o b)[Len(a) + k] = b[k]
  <2>1. Len(a) + k \in 1 .. Len(a) + Len(b) /\ ~ (Len(a) + k <= Len(a)) /\ (Len(a) + k) - Len(a) = k
    BY <1>1
  <2> QED  BY <1>2, <2>1
<1> QED  BY <1>1, <1>2, <1>3, <1>4

LEMMA Tuples ==
  /\ <<>> \in Strings /\ Len(<<>>) = 0
  /\ \A a \in Int : <<a>> \in Strings /\ Len(<<a>>) = 1
  /\ \A a, b \in Int : <<a, b>> \in Strings /\ Len(<<a, b>>) = 2
  /\ \A a, b, c, d \in Int : <<a, b, c, d>> \in Strings /\ Len(<<a, b, c, d>>) = 4
BY DEF Strings

LEMMA Associates ==
  ASSUME NEW a \in Strings, NEW b \in Strings, NEW c \in Strings
  PROVE  (a \o b) \o c = a \o (b \o c)
BY ConcatAssociative DEF Strings

LEMMA Appends ==
  ASSUME NEW a \in Strings, NEW m \in Int
  PROVE  Append(a, m) = a \o <<m>>
BY AppendIsConcat DEF Strings

LEMMA FirstOfJoined ==
  ASSUME NEW m \in Int, NEW t \in Strings
  PROVE  (<<m>> \o t)[1] = m /\ Tail(<<m>> \o t) = t
<1> DEFINE s == <<m>> \o t
<1>1. <<m>> \in Strings /\ Len(<<m>>) = 1 /\ <<m>>[1] = m
  BY Tuples
<1>2. s \in Strings /\ Len(s) = 1 + Len(t) /\ Len(t) \in Nat /\ s[1] = m /\ \A k \in 1 .. Len(t) : s[1 + k] = t[k]
  BY <1>1, Joined
<1> HIDE DEF s
<1>3. s # <<>>
  BY <1>2, Tuples
<1>4. Tail(s) \in Strings /\ Len(Tail(s)) = Len(s) - 1 /\ \A k \in 1 .. Len(s) - 1 : Tail(s)[k] = s[k + 1]
  BY <1>2, <1>3, HeadTailProperties DEF Strings
<1>5. Len(Tail(s)) = Len(t) /\ \A k \in 1 .. Len(t) : Tail(s)[k] = t[k]
  <2>1. ASSUME NEW k \in 1 .. Len(t) PROVE Tail(s)[k] = t[k]
    <3>1. k \in 1 .. Len(s) - 1 /\ k + 1 = 1 + k
      BY <1>2
    <3> QED  BY <1>2, <1>4, <3>1
  <2> QED  BY <1>2, <1>4, <2>1
<1>6. Tail(s) = t
  BY <1>4, <1>5, SeqEqual DEF Strings
<1> QED  BY <1>2, <1>6 DEF s

\* One string behind another is there when both are, each at its place.
LEMMA AtJoined ==
  ASSUME NEW s, NEW p \in Nat, NEW a \in Strings, NEW b \in Strings, Len(s) \in Nat
  PROVE  At(s, p, a \o b) <=> At(s, p, a) /\ At(s, p + Len(a), b)
<1> DEFINE c == a \o b
<1>1. /\ Len(a) \in Nat /\ Len(b) \in Nat
      /\ c \in Strings /\ Len(c) = Len(a) + Len(b)
      /\ \A k \in 1 .. Len(a) : c[k] = a[k]
      /\ \A k \in 1 .. Len(b) : c[Len(a) + k] = b[k]
  BY Joined
<1> HIDE DEF c
<1>2. ASSUME At(s, p, c) PROVE At(s, p, a) /\ At(s, p + Len(a), b)
  <2>1. p + Len(a) <= Len(s) /\ (p + Len(a)) + Len(b) <= Len(s)
    BY <1>1, <1>2 DEF At
  <2>2. ASSUME NEW k \in 1 .. Len(a) PROVE s[p + k] = a[k]
    <3>1. k \in 1 .. Len(c)
      BY <1>1
    <3> QED  BY <1>1, <1>2, <3>1 DEF At
  <2>3. ASSUME NEW k \in 1 .. Len(b) PROVE s[(p + Len(a)) + k] = b[k]
    <3>1. Len(a) + k \in 1 .. Len(c) /\ p + (Len(a) + k) = (p + Len(a)) + k
      BY <1>1
    <3>2. s[p + (Len(a) + k)] = c[Len(a) + k]
      BY <1>2, <3>1 DEF At
    <3> QED  BY <1>1, <3>1, <3>2
  <2> QED  BY <2>1, <2>2, <2>3 DEF At
<1>3. ASSUME At(s, p, a), At(s, p + Len(a), b) PROVE At(s, p, c)
  <2>1. p + Len(c) <= Len(s)
    BY <1>1, <1>3 DEF At
  <2>2. ASSUME NEW k \in 1 .. Len(c) PROVE s[p + k] = c[k]
    <3>1. CASE k <= Len(a)
      <4>1. k \in 1 .. Len(a)
        BY <1>1, <3>1
      <4> QED  BY <1>1, <1>3, <4>1 DEF At
    <3>2. CASE ~ (k <= Len(a))
      <4>1. k - Len(a) \in 1 .. Len(b) /\ Len(a) + (k - Len(a)) = k /\ (p + Len(a)) + (k - Len(a)) = p + k
        BY <1>1, <3>2
      <4>2. s[(p + Len(a)) + (k - Len(a))] = b[k - Len(a)] /\ c[Len(a) + (k - Len(a))] = b[k - Len(a)]
        BY <1>1, <1>3, <4>1 DEF At
      <4> QED  BY <4>1, <4>2
    <3> QED  BY <3>1, <3>2
  <2> QED  BY <2>1, <2>2 DEF At
<1> QED  BY <1>2, <1>3 DEF c

\* The program's displacement is the offset of a field: an int keeps it, and its
\* higher bytes are zero.
LEMMA OffsetBytes ==
  ASSUME NEW off \in 0 .. 255
  PROVE  Bytes(Narrow(off), 4) = <<off, 0, 0, 0>>
<1>1. IntBits \in Nat /\ 8 < IntBits
  BY LocationsAssumption, AssemblerAssumption DEF LocationsAssumption, AssemblerAssumption
<1>2. PowerOf2[IntBits - 1] \in Nat /\ 256 <= PowerOf2[IntBits - 1]
  <2>1. IntBits - 9 \in Nat /\ 8 + (IntBits - 9) = IntBits - 1
    BY <1>1
  <2>2. PowerOf2[8 + (IntBits - 9)] = PowerOf2[8] * PowerOf2[IntBits - 9]
    BY <2>1, PowerOf2Sum
  <2>3. PowerOf2[IntBits - 9] \in Nat /\ 0 < PowerOf2[IntBits - 9]
    BY <2>1, PowerOf2Type
  <2> QED  BY <2>1, <2>2, <2>3, SmallPowers
<1>3. PowerOf2[IntBits] = 2 * PowerOf2[IntBits - 1]
  <2>1. IntBits - 1 \in Nat /\ (IntBits - 1) + 1 = IntBits
    BY <1>1
  <2>2. PowerOf2[(IntBits - 1) + 1] = 2 * PowerOf2[IntBits - 1]
    BY <2>1, PowerOf2Is
  <2> QED  BY <2>1, <2>2
<1>4. off % PowerOf2[IntBits] = off /\ off < PowerOf2[IntBits - 1]
  BY <1>2, <1>3
<1>5. Narrow(off) = off
  BY <1>4 DEF Narrow
<1> DEFINE shifted == CHOOSE f : f = [k \in 1 .. 4 |-> IF k = 1 THEN off ELSE f[k - 1] \div 256]
<1>6. shifted = [k \in 1 .. 4 |-> IF k = 1 THEN off ELSE shifted[k - 1] \div 256]
  <2> DEFINE g == [k \in 1 .. 4 |-> IF k = 1 THEN off ELSE 0]
  <2>1. off \div 256 = 0 /\ 0 \div 256 = 0
    OBVIOUS
  <2>2. ASSUME NEW k \in 1 .. 4 PROVE g[k] = IF k = 1 THEN off ELSE g[k - 1] \div 256
    <3>1. k # 1 => k - 1 \in 1 .. 4
      OBVIOUS
    <3> QED  BY <2>1, <3>1
  <2>3. g = [k \in 1 .. 4 |-> g[k]]
    OBVIOUS
  <2> HIDE DEF g
  <2>4. g = [k \in 1 .. 4 |-> IF k = 1 THEN off ELSE g[k - 1] \div 256]
    BY <2>2, <2>3
  <2> QED  BY <2>4
<1>7. Bytes(off, 4) = [k \in 1 .. 4 |-> shifted[k] % 256]
  BY DEF Bytes
<1> HIDE DEF shifted
<1>8. shifted[1] = off /\ shifted[2] = shifted[1] \div 256 /\ shifted[3] = shifted[2] \div 256 /\ shifted[4] = shifted[3] \div 256
  <2>1. \A k \in 1 .. 4 : shifted[k] = IF k = 1 THEN off ELSE shifted[k - 1] \div 256
    BY <1>6
  <2>2. 1 \in 1 .. 4 /\ 2 \in 1 .. 4 /\ 3 \in 1 .. 4 /\ 4 \in 1 .. 4 /\ 2 - 1 = 1 /\ 3 - 1 = 2 /\ 4 - 1 = 3
    OBVIOUS
  <2> QED  BY <2>1, <2>2
<1>9. shifted[1] = off /\ shifted[2] = 0 /\ shifted[3] = 0 /\ shifted[4] = 0
  BY <1>8
<1>10. off % 256 = off /\ 0 % 256 = 0
  OBVIOUS
<1>11. \A k \in 1 .. 4 : shifted[k] % 256 = <<off, 0, 0, 0>>[k]
  BY <1>9, <1>10
<1>12. [k \in 1 .. 4 |-> shifted[k] % 256] = <<off, 0, 0, 0>>
  BY <1>11
<1> QED  BY <1>5, <1>7, <1>12

ModRmOf(mod, b) == IF b % 8 = RSP THEN set_sib(set_mod_rm(mod, b), TIMES_1, RSP, b) ELSE set_mod_rm(mod, b)

LEMMA ModRm ==
  ASSUME NEW b \in -1 .. 15, NEW mod \in 0 .. 2
  PROVE  ModRmOf(mod, b) = [rex |-> RexOf(b), encoding |-> <<64 * mod + (b % 8)>> \o SibOf(b)]
<1> DEFINE m == 64 * mod + (b % 8)
<1>1. m \in Int /\ <<m>> \in Strings /\ b % 8 \in 0 .. 7
  <2>1. m \in Int /\ b % 8 \in 0 .. 7
    OBVIOUS
  <2> QED  BY <2>1, Tuples
<1>2. CASE b % 8 = RSP
  <2>1. (64 * TIMES_1 + 8 * (RSP % 8) + (b % 8)) % 256 = 36
    BY <1>2 DEF TIMES_1, RSP
  <2>2. set_mod_rm(mod, b).encoding = <<m>>
    BY DEF set_mod_rm
  <2>3. set_mod_rm(mod, b).rex \cup When(REX_B, b > 7) \cup When(REX_W, RSP > 7) = RexOf(b)
    BY DEF set_mod_rm, When, REX_B, REX_W, RSP, R12, RexOf, High
  <2>4. set_sib(set_mod_rm(mod, b), TIMES_1, RSP, b)
          = [rex |-> RexOf(b), encoding |-> Append(<<m>>, 36)]
    BY <2>1, <2>2, <2>3 DEF set_sib
  <2>5. Append(<<m>>, 36) = <<m>> \o <<36>>
    BY <1>1, AppendIsConcat DEF Strings
  <2>6. SibOf(b) = <<36>>
    BY <1>2 DEF SibOf
  <2> QED  BY <1>2, <2>4, <2>5, <2>6 DEF ModRmOf
<1>3. CASE b % 8 # RSP
  <2>1. set_mod_rm(mod, b) = [rex |-> RexOf(b), encoding |-> <<m>>]
    <3>1. When(REX_B, b > 7 /\ ~(b = R12 /\ mod # 3)) = RexOf(b)
      BY <1>3 DEF When, REX_B, RSP, R12, RexOf, High
    <3> QED  BY <3>1 DEF set_mod_rm
  <2>2. <<m>> \o <<>> = <<m>>
    BY <1>1, ConcatEmptySeq DEF Strings
  <2>3. SibOf(b) = <<>>
    BY <1>3 DEF SibOf
  <2> QED  BY <1>3, <2>1, <2>2, <2>3 DEF ModRmOf
<1> QED  BY <1>2, <1>3

\* The parts of an operand, and how long they are.
PartsAre(b, off) ==
  /\ ModOf(b, off) \in 0 .. 2 /\ b % 8 \in 0 .. 7 /\ FieldModRM(b, off) \in 0 .. 135
  /\ SibOf(b) \in Strings /\ Len(SibOf(b)) \in Nat /\ Len(SibOf(b)) = IF b % 8 = RSP THEN 1 ELSE 0
  /\ PrefixOf(b) \in Strings /\ Len(PrefixOf(b)) \in Nat /\ Len(PrefixOf(b)) = IF High(b) THEN 1 ELSE 0
  /\ DispOf(b, off) \in Strings /\ Len(DispOf(b, off)) \in Nat
  /\ Len(DispOf(b, off)) = IF ModOf(b, off) = 0 THEN 0 ELSE IF ModOf(b, off) = 1 THEN 1 ELSE 4
  /\ FieldEnd(b, off) \in Strings

LEMMA PartTypes ==
  ASSUME NEW b \in -1 .. 15, NEW off \in 0 .. 255
  PROVE  PartsAre(b, off)
<1>1. ModOf(b, off) \in 0 .. 2
  BY DEF ModOf
<1>2. SibOf(b) \in Strings /\ Len(SibOf(b)) = IF b % 8 = RSP THEN 1 ELSE 0
  BY Tuples DEF SibOf
<1>3. PrefixOf(b) \in Strings /\ Len(PrefixOf(b)) = IF High(b) THEN 1 ELSE 0
  BY Tuples DEF PrefixOf
<1>4. /\ DispOf(b, off) \in Strings
      /\ Len(DispOf(b, off)) = IF ModOf(b, off) = 0 THEN 0 ELSE IF ModOf(b, off) = 1 THEN 1 ELSE 4
  <2>1. <<>> \in Strings /\ <<off>> \in Strings /\ <<off, 0, 0, 0>> \in Strings
        /\ Len(<<>>) = 0 /\ Len(<<off>>) = 1 /\ Len(<<off, 0, 0, 0>>) = 4
    BY Tuples
  <2>2. CASE ModOf(b, off) = 0
    <3>1. DispOf(b, off) = <<>>
      BY <2>2 DEF DispOf
    <3> QED  BY <2>1, <2>2, <3>1
  <2>3. CASE ModOf(b, off) = 1
    <3>1. DispOf(b, off) = <<off>>
      BY <2>3 DEF DispOf
    <3> QED  BY <2>1, <2>3, <3>1
  <2>4. CASE ModOf(b, off) = 2
    <3>1. DispOf(b, off) = <<off, 0, 0, 0>>
      BY <2>4 DEF DispOf
    <3> QED  BY <2>1, <2>4, <3>1
  <2> QED  BY <1>1, <2>2, <2>3, <2>4
<1>5. b % 8 \in 0 .. 7
  OBVIOUS
<1>6. FieldModRM(b, off) \in 0 .. 135
  BY <1>1, <1>5 DEF FieldModRM
<1>7. FieldEnd(b, off) \in Strings
  BY <1>2, <1>4, Joined DEF FieldEnd
<1>8. Len(SibOf(b)) \in Nat /\ Len(PrefixOf(b)) \in Nat /\ Len(DispOf(b, off)) \in Nat
  BY <1>2, <1>3, <1>4, Joined
<1> QED  BY <1>1, <1>2, <1>3, <1>4, <1>5, <1>6, <1>7, <1>8 DEF PartsAre

LEMMA OperandIs ==
  ASSUME NEW b \in -1 .. 15, NEW off \in 0 .. 255
  PROVE  asm_addr_init_r(b, off) = [rex |-> RexOf(b), encoding |-> <<FieldModRM(b, off)>> \o FieldEnd(b, off)]
<1> DEFINE mod == ModOf(b, off)
           m == FieldModRM(b, off)
           start == <<m>> \o SibOf(b)
<1>1. mod \in 0 .. 2 /\ m \in Int /\ <<m>> \in Strings /\ SibOf(b) \in Strings /\ start \in Strings
  <2>0. mod \in 0 .. 2 /\ m \in 0 .. 135
    <3>1. PartsAre(b, off)
      BY PartTypes
    <3> QED  BY <3>1 DEF PartsAre
  <2>1. mod \in 0 .. 2 /\ m \in Int
    BY <2>0
  <2>2. SibOf(b) \in Strings
    <3>1. PartsAre(b, off)
      BY PartTypes
    <3> QED  BY <3>1 DEF PartsAre
  <2> QED  BY <2>1, <2>2, Tuples, Joined
<1>2. ModRmOf(mod, b) = [rex |-> RexOf(b), encoding |-> start]
  BY <1>1, ModRm DEF FieldModRM
<1>3. asm_addr_init_r(b, off) = IF off = 0 /\ b % 8 # RBP THEN ModRmOf(0, b)
                                ELSE IF is8(off) THEN set_disp8(ModRmOf(1, b), off)
                                ELSE set_disp32(ModRmOf(2, b), off)
  BY DEF asm_addr_init_r, ModRmOf
<1>4. is8(off) <=> off < 128
  BY DEF is8
<1>5. DispOf(b, off) \in Strings
  <2>1. PartsAre(b, off)
    BY PartTypes
  <2> QED  BY <2>1 DEF PartsAre
<1>6. start \o DispOf(b, off) = <<m>> \o FieldEnd(b, off)
  BY <1>1, <1>5, Associates DEF FieldEnd
<1> HIDE DEF start
<1>7. asm_addr_init_r(b, off) = [rex |-> RexOf(b), encoding |-> start \o DispOf(b, off)]
  <2>1. CASE mod = 0
    <3>1. off = 0 /\ b % 8 # RBP
      BY <2>1 DEF ModOf
    <3>2. DispOf(b, off) = <<>>
      BY <2>1 DEF DispOf
    <3>3. start \o <<>> = start
      BY <1>1, ConcatEmptySeq DEF Strings
    <3> QED  BY <1>2, <1>3, <2>1, <3>1, <3>2, <3>3
  <2>2. CASE mod = 1
    <3>1. ~ (off = 0 /\ b % 8 # RBP) /\ off < 128
      BY <2>2 DEF ModOf
    <3>2. DispOf(b, off) = <<off>> /\ off % 256 = off
      BY <2>2 DEF DispOf
    <3>3. Append(start, off) = start \o <<off>>
      BY <1>1, Appends
    <3>4. set_disp8([rex |-> RexOf(b), encoding |-> start], off) = [rex |-> RexOf(b), encoding |-> Append(start, off)]
      BY <3>2 DEF set_disp8
    <3> QED  BY <1>2, <1>3, <1>4, <2>2, <3>1, <3>2, <3>3, <3>4
  <2>3. CASE mod = 2
    <3>1. ~ (off = 0 /\ b % 8 # RBP) /\ ~ (off < 128)
      BY <2>3 DEF ModOf
    <3>2. DispOf(b, off) = <<off, 0, 0, 0>>
      BY <2>3 DEF DispOf
    <3>3. set_disp32([rex |-> RexOf(b), encoding |-> start], off) = [rex |-> RexOf(b), encoding |-> start \o <<off, 0, 0, 0>>]
      BY OffsetBytes DEF set_disp32
    <3> QED  BY <1>2, <1>3, <1>4, <2>3, <3>1, <3>2, <3>3
  <2> QED  BY <1>1, <2>1, <2>2, <2>3
<1> QED  BY <1>6, <1>7

LEMMA PrefixIs ==
  ASSUME NEW b \in -1 .. 15, NEW x \in 0 .. 1
  PROVE  emit_rex({} \cup When(REX_R, x > 7) \cup RexOf(b)) = PrefixOf(b)
<1>1. {} \cup When(REX_R, x > 7) \cup RexOf(b) = RexOf(b)
  BY DEF When
<1>2. CASE High(b)
  <2>1. RexOf(b) = {1}
    BY <1>2 DEF RexOf, REX_B
  <2>2. BitOf({1}, 1) = 1 /\ BitOf({1}, 2) = 0 /\ BitOf({1}, 4) = 0 /\ BitOf({1}, 8) = 0
    BY DEF BitOf
  <2>3. emit_rex({1}) = <<65>>
    BY <2>2 DEF emit_rex, REX_PREFIX, REX_B, REX_X, REX_R, REX_W
  <2> QED  BY <1>1, <1>2, <2>1, <2>3 DEF PrefixOf
<1>3. CASE ~ High(b)
  <2>1. emit_rex({}) = <<>>
    BY DEF emit_rex
  <2> QED  BY <1>1, <1>3, <2>1 DEF PrefixOf, RexOf
<1> QED  BY <1>2, <1>3

\* Both moves between a field and an xmm register.
LEMMA MovsdIs ==
  ASSUME NEW b \in -1 .. 15, NEW off \in 0 .. 255, NEW x \in 0 .. 1
  PROVE  /\ asm_movsd_ra(x, asm_addr_init_r(b, off)) = Movsd(16, x, b, off)
         /\ asm_movsd_ar(asm_addr_init_r(b, off), x) = Movsd(17, x, b, off)
<1> DEFINE m == FieldModRM(b, off)
           t == FieldEnd(b, off)
           oper == asm_addr_init_r(b, off)
<1>1. m \in Int /\ t \in Strings
  <2>1. m \in 0 .. 135 /\ t \in Strings
    <3>1. PartsAre(b, off)
      BY PartTypes
    <3> QED  BY <3>1 DEF PartsAre
  <2> QED  BY <2>1
<1>2. oper.rex = RexOf(b) /\ oper.encoding = <<m>> \o t
  <2>1. oper = [rex |-> RexOf(b), encoding |-> <<m>> \o t]
    BY OperandIs
  <2> HIDE DEF oper
  <2> QED  BY <2>1
<1> HIDE DEF oper, t
<1>3. oper.encoding[1] = m /\ Tail(oper.encoding) = t
  <2> HIDE DEF m
  <2> QED  BY <1>1, <1>2, FirstOfJoined
<1>4. emit_oper(x % 8, oper) = <<m + 8 * x>> \o t
  <2>1. x % 8 = x
    OBVIOUS
  <2> QED  BY <1>3, <2>1 DEF emit_oper
<1>5. emit_rex_rb_ra(x, oper, {}) = PrefixOf(b)
  BY <1>2, PrefixIs DEF emit_rex_rb_ra
<1>6. asm_movsd_ra(x, oper) = <<242>> \o PrefixOf(b) \o <<15, 16>> \o (<<m + 8 * x>> \o t)
  BY <1>4, <1>5 DEF asm_movsd_ra
<1>7. asm_movsd_ar(oper, x) = <<242>> \o PrefixOf(b) \o <<15, 17>> \o (<<m + 8 * x>> \o t)
  BY <1>4, <1>5 DEF asm_movsd_ar
<1> DEFINE Joins(opcode) == <<242>> \o PrefixOf(b) \o <<15, opcode>> \o (<<m + 8 * x>> \o t) = Movsd(opcode, x, b, off)
<1>8. ASSUME NEW opcode \in Int PROVE Joins(opcode)
  <2> DEFINE u == <<242>> \o PrefixOf(b) \o <<15, opcode>>
             v == <<m + 8 * x>>
  <2>1. u \in Strings /\ v \in Strings
    <3>1. m + 8 * x \in Int
      BY <1>1
    <3> HIDE DEF m
    <3>2. <<242>> \in Strings /\ PrefixOf(b) \in Strings /\ <<15, opcode>> \in Strings /\ v \in Strings
      <4>1. PrefixOf(b) \in Strings
        <5>1. PartsAre(b, off)
          BY PartTypes
        <5> QED  BY <5>1 DEF PartsAre
      <4>2. \A a \in Int : <<a>> \in Strings
        BY Tuples
      <4>3. <<15, opcode>> \in Strings
        BY Tuples
      <4>4. <<242>> \in Strings /\ v \in Strings
        BY <3>1, <4>2
      <4> QED  BY <4>1, <4>3, <4>4
    <3>3. <<242>> \o PrefixOf(b) \in Strings
      BY <3>2, Joined
    <3> QED  BY <3>2, <3>3, Joined
  <2>2. Movsd(opcode, x, b, off) = (u \o v) \o t
    BY DEF Movsd, t
  <2> HIDE DEF u, v
  <2>3. (u \o v) \o t = u \o (v \o t)
    BY <1>1, <2>1, Associates
  <2> QED  BY <2>2, <2>3 DEF u, v
<1>9. Joins(16) /\ Joins(17)
  <2> HIDE DEF Joins
  <2> QED  BY <1>8
<1> QED  BY <1>6, <1>7, <1>9 DEF oper

LEMMA MovIs ==
  ASSUME NEW b \in -1 .. 15, NEW i \in Nat
  PROVE  asm_movq_ri(b, Address(i)) = Mov(b, i)
<1> DEFINE rex == {REX_W} \cup When(REX_B, b > 7)
<1>1. emit_rex(rex) = <<IF High(b) THEN 73 ELSE 72>>
  <2>1. CASE High(b)
    <3>1. rex = {1, 8}
      BY <2>1 DEF When, REX_W, REX_B, High
    <3>2. BitOf({1, 8}, 1) = 1 /\ BitOf({1, 8}, 2) = 0 /\ BitOf({1, 8}, 4) = 0 /\ BitOf({1, 8}, 8) = 8
      BY DEF BitOf
    <3> HIDE DEF rex
    <3> QED  BY <2>1, <3>1, <3>2 DEF emit_rex, REX_PREFIX, REX_B, REX_X, REX_R, REX_W
  <2>2. CASE ~ High(b)
    <3>1. rex = {8}
      BY <2>2 DEF When, REX_W, REX_B, High
    <3>2. BitOf({8}, 1) = 0 /\ BitOf({8}, 2) = 0 /\ BitOf({8}, 4) = 0 /\ BitOf({8}, 8) = 8
      BY DEF BitOf
    <3> HIDE DEF rex
    <3> QED  BY <2>2, <3>1, <3>2 DEF emit_rex, REX_PREFIX, REX_B, REX_X, REX_R, REX_W
  <2> QED  BY <2>1, <2>2
<1>2. asm_movq_ri(b, Address(i)) = emit_rex(rex) \o <<184 + (b % 8)>> \o Address(i)
  BY DEF asm_movq_ri, emit_register_rex
<1> HIDE DEF rex
<1> QED  BY <1>1, <1>2 DEF Mov


LEMMA ArithIs ==
  ASSUME NEW op \in Handled
  PROVE  asm_arith_rr(op, XMM0, XMM1) = Arith(op)
<1>1. emit_rex_rb_xx(0, 1, {}) = <<>> /\ emit_rex_rb_xx(1, 0, {}) = <<>>
  <2>1. {} \cup When(REX_R, 0 > 7) \cup When(REX_B, 1 > 7) = {} /\ {} \cup When(REX_R, 1 > 7) \cup When(REX_B, 0 > 7) = {}
    BY DEF When
  <2>2. emit_rex({}) = <<>>
    BY DEF emit_rex
  <2> QED  BY <2>1, <2>2 DEF emit_rex_rb_xx
<1>2. emit_xmm_register_operand(0, 1) = <<193>>
  <2>1. set_mod_rm(3, 1).encoding = <<193>>
    <3>1. 64 * 3 + (1 % 8) = 193
      OBVIOUS
    <3> QED  BY <3>1 DEF set_mod_rm
  <2>2. <<193>> \in Strings /\ <<>> \in Strings
    BY Tuples
  <2>3. <<193>> \o <<>> = <<193>>
    BY <2>2, ConcatEmptySeq DEF Strings
  <2>4. Tail(<<193>>) = <<>>
    BY <2>2, <2>3, FirstOfJoined
  <2>5. <<193>>[1] + 8 * 0 = 193
    OBVIOUS
  <2>6. emit_oper(0, set_mod_rm(3, 1)) = <<193>> \o <<>>
    BY <2>1, <2>4, <2>5 DEF emit_oper
  <2> QED  BY <2>3, <2>6 DEF emit_xmm_register_operand
<1>3. 0 % 8 = 0 /\ XMM0 = 0 /\ XMM1 = 1
  BY DEF XMM0, XMM1
<1>4. <<242>> \o <<>> = <<242>>
  <2>1. <<242>> \in Strings
    BY Tuples
  <2> QED  BY <2>1, ConcatEmptySeq DEF Strings
<1>5. asm_addsd_rr(0, 1) = <<242>> \o <<15, 88>> \o <<193>>
  BY <1>1, <1>2, <1>3, <1>4 DEF asm_addsd_rr
<1>6. ASSUME NEW opcode PROVE asm_sd_rr(opcode, 0, 1) = <<242>> \o <<15, opcode>> \o <<193>>
  BY <1>1, <1>2, <1>3, <1>4 DEF asm_sd_rr
<1>7. CASE op = "add"
  <2>1. asm_arith_rr("add", 0, 1) = asm_addsd_rr(0, 1)
    BY DEF asm_arith_rr
  <2>2. Arithmetic["add"] = 88
    BY DEF Arithmetic
  <2> QED  BY <1>3, <1>5, <1>7, <2>1, <2>2 DEF Arith
<1>8. CASE op = "sub"
  <2>1. asm_arith_rr("sub", 0, 1) = asm_sd_rr(92, 0, 1)
    BY DEF asm_arith_rr
  <2>2. Arithmetic["sub"] = 92
    BY DEF Arithmetic
  <2> QED  BY <1>3, <1>6, <1>8, <2>1, <2>2 DEF Arith
<1>9. CASE op = "mul"
  <2>1. asm_arith_rr("mul", 0, 1) = asm_sd_rr(89, 0, 1)
    BY DEF asm_arith_rr
  <2>2. Arithmetic["mul"] = 89
    BY DEF Arithmetic
  <2> QED  BY <1>3, <1>6, <1>9, <2>1, <2>2 DEF Arith
<1>10. CASE op = "div"
  <2>1. asm_arith_rr("div", 0, 1) = asm_sd_rr(94, 0, 1)
    BY DEF asm_arith_rr
  <2>2. Arithmetic["div"] = 94
    BY DEF Arithmetic
  <2> QED  BY <1>3, <1>6, <1>10, <2>1, <2>2 DEF Arith
<1> QED  BY <1>7, <1>8, <1>9, <1>10 DEF Handled

\* Bytes, or bytes of the addresses of n objects.
Content(n) == 0 .. 255 \cup 264 .. 8 * n + 263
IsContent(s, n) == s \in Strings /\ \A k \in 1 .. Len(s) : s[k] \in Content(n)

LEMMA JoinedContent ==
  ASSUME NEW n \in Nat, NEW a, NEW b, IsContent(a, n), IsContent(b, n)
  PROVE  IsContent(a \o b, n) /\ Len(a \o b) = Len(a) + Len(b) /\ Len(a) \in Nat /\ Len(b) \in Nat
<1> DEFINE c == a \o b
<1>1. /\ a \in Strings /\ b \in Strings
      /\ Len(a) \in Nat /\ Len(b) \in Nat
      /\ c \in Strings /\ Len(c) = Len(a) + Len(b)
      /\ \A k \in 1 .. Len(a) : c[k] = a[k]
      /\ \A k \in 1 .. Len(b) : c[Len(a) + k] = b[k]
  BY Joined DEF IsContent
<1> HIDE DEF c
<1>2. ASSUME NEW k \in 1 .. Len(c) PROVE c[k] \in Content(n)
  <2>1. CASE k <= Len(a)
    <3>1. k \in 1 .. Len(a)
      BY <1>1, <2>1
    <3> QED  BY <1>1, <3>1 DEF IsContent
  <2>2. CASE ~ (k <= Len(a))
    <3>1. k - Len(a) \in 1 .. Len(b) /\ Len(a) + (k - Len(a)) = k
      BY <1>1, <2>2
    <3>2. c[Len(a) + (k - Len(a))] = b[k - Len(a)]
      BY <1>1, <3>1
    <3> QED  BY <3>1, <3>2 DEF IsContent
  <2> QED  BY <2>1, <2>2
<1> QED  BY <1>1, <1>2 DEF c, IsContent

LEMMA NoContent ==
  ASSUME NEW n \in Nat
  PROVE  IsContent(<<>>, n) /\ Len(<<>>) = 0
BY Tuples DEF IsContent

LEMMA ByteContent ==
  ASSUME NEW n \in Nat, NEW a \in 0 .. 255
  PROVE  IsContent(<<a>>, n) /\ Len(<<a>>) = 1
<1>1. <<a>> \in Strings /\ Len(<<a>>) = 1
  BY Tuples
<1> QED  BY <1>1 DEF IsContent, Content

LEMMA PairContent ==
  ASSUME NEW n \in Nat, NEW a \in 0 .. 255, NEW b \in 0 .. 255
  PROVE  IsContent(<<a, b>>, n) /\ Len(<<a, b>>) = 2
<1>1. <<a, b>> \in Strings /\ Len(<<a, b>>) = 2
  BY Tuples
<1>2. \A k \in 1 .. 2 : <<a, b>>[k] \in 0 .. 255
  OBVIOUS
<1> QED  BY <1>1, <1>2 DEF IsContent, Content

LEMMA LongContent ==
  ASSUME NEW n \in Nat, NEW a \in 0 .. 255
  PROVE  IsContent(<<a, 0, 0, 0>>, n)
<1>1. <<a, 0, 0, 0>> \in Strings /\ Len(<<a, 0, 0, 0>>) = 4
  BY Tuples
<1>2. \A k \in 1 .. 4 : <<a, 0, 0, 0>>[k] \in 0 .. 255
  OBVIOUS
<1> QED  BY <1>1, <1>2 DEF IsContent, Content

LEMMA AddressType ==
  ASSUME NEW i \in Nat
  PROVE  Address(i) \in Strings /\ Len(Address(i)) = 8
<1>1. Address(i) \in [1 .. 8 -> Int] /\ DOMAIN Address(i) = 1 .. 8
  BY DEF Address
<1>2. Address(i) \in Seq(Int)
  BY <1>1, SeqDef
<1>3. Len(Address(i)) \in Nat /\ 1 .. 8 = 1 .. Len(Address(i))
  BY <1>1, <1>2, LenProperties
<1>4. Len(Address(i)) = 8
  <2> DEFINE m == Len(Address(i))
  <2>1. m \in Nat /\ 1 .. 8 = 1 .. m
    BY <1>3
  <2> HIDE DEF m
  <2>2. \A k \in Int : k \in 1 .. 8 <=> k \in 1 .. m
    BY <2>1
  <2>3. 8 \in 1 .. m /\ ~ (m + 1 \in 1 .. 8)
    BY <2>1, <2>2
  <2>4. m = 8
    BY <2>1, <2>3
  <2> QED  BY <2>4 DEF m
<1> QED  BY <1>2, <1>4 DEF Strings

\* A move of a field holds bytes and words of the code, and is as long as its parts.
MovsdFits(opcode, x, b, off, n) ==
  /\ IsContent(Movsd(opcode, x, b, off), n)
  /\ Len(Movsd(opcode, x, b, off)) = 4 + Len(PrefixOf(b)) + Len(SibOf(b)) + Len(DispOf(b, off))
  /\ Len(Movsd(opcode, x, b, off)) \in Nat /\ Len(Movsd(opcode, x, b, off)) > 0

LEMMA MovsdType ==
  ASSUME NEW n \in Nat, NEW b \in -1 .. 15, NEW off \in 0 .. 255, NEW x \in 0 .. 1, NEW opcode \in 0 .. 255
  PROVE  MovsdFits(opcode, x, b, off, n)
<1> DEFINE m == FieldModRM(b, off) + 8 * x
<1>1. m \in 0 .. 255
  <2>1. FieldModRM(b, off) \in 0 .. 135
    <3>1. PartsAre(b, off)
      BY PartTypes
    <3> QED  BY <3>1 DEF PartsAre
  <2> QED  BY <2>1
<1>2. IsContent(PrefixOf(b), n)
  <2>0. 65 \in 0 .. 255
    OBVIOUS
  <2>1. IsContent(<<65>>, n) /\ IsContent(<<>>, n)
    BY <2>0, ByteContent, NoContent, Zenon
  <2> QED  BY <2>1 DEF PrefixOf
<1>3. IsContent(SibOf(b), n)
  <2>0. 36 \in 0 .. 255
    OBVIOUS
  <2>1. IsContent(<<36>>, n) /\ IsContent(<<>>, n)
    BY <2>0, ByteContent, NoContent, Zenon
  <2> QED  BY <2>1 DEF SibOf
<1>4. IsContent(DispOf(b, off), n)
  <2>0. ModOf(b, off) \in 0 .. 2
    <3>1. PartsAre(b, off)
      BY PartTypes
    <3> QED  BY <3>1 DEF PartsAre
  <2>1. CASE ModOf(b, off) = 0
    <3>1. DispOf(b, off) = <<>>
      BY <2>1 DEF DispOf
    <3> QED  BY <3>1, NoContent
  <2>2. CASE ModOf(b, off) = 1
    <3>1. DispOf(b, off) = <<off>>
      BY <2>2 DEF DispOf
    <3> QED  BY <3>1, ByteContent
  <2>3. CASE ModOf(b, off) = 2
    <3>1. DispOf(b, off) = <<off, 0, 0, 0>>
      BY <2>3 DEF DispOf
    <3> QED  BY <3>1, LongContent
  <2> QED  BY <2>0, <2>1, <2>2, <2>3
<1> HIDE DEF m
<1>5. /\ IsContent(<<242>>, n) /\ Len(<<242>>) = 1
      /\ IsContent(<<15, opcode>>, n) /\ Len(<<15, opcode>>) = 2
      /\ IsContent(<<m>>, n) /\ Len(<<m>>) = 1
  <2>1. IsContent(<<242>>, n) /\ Len(<<242>>) = 1
    BY ByteContent, SMTT(60)
  <2>0. 15 \in 0 .. 255
    OBVIOUS
  <2>2. IsContent(<<15, opcode>>, n) /\ Len(<<15, opcode>>) = 2
    BY <2>0, PairContent, Zenon
  <2>3. IsContent(<<m>>, n) /\ Len(<<m>>) = 1
    BY <1>1, ByteContent
  <2> QED  BY <2>1, <2>2, <2>3
<1> DEFINE s1 == <<242>> \o PrefixOf(b)
           s2 == s1 \o <<15, opcode>>
           s3 == s2 \o <<m>>
           s4 == FieldEnd(b, off)
           s5 == s3 \o s4
<1>6. IsContent(s1, n) /\ Len(s1) = 1 + Len(PrefixOf(b))
  BY <1>2, <1>5, JoinedContent
<1> HIDE DEF s1
<1>7. IsContent(s2, n) /\ Len(s2) = Len(s1) + 2
  BY <1>5, <1>6, JoinedContent
<1> HIDE DEF s2
<1>8. IsContent(s3, n) /\ Len(s3) = Len(s2) + 1
  BY <1>5, <1>7, JoinedContent
<1>9. IsContent(s4, n) /\ Len(s4) = Len(SibOf(b)) + Len(DispOf(b, off))
  <2>1. IsContent(SibOf(b) \o DispOf(b, off), n)
        /\ Len(SibOf(b) \o DispOf(b, off)) = Len(SibOf(b)) + Len(DispOf(b, off))
    BY <1>3, <1>4, JoinedContent
  <2> QED  BY <2>1 DEF FieldEnd
<1> HIDE DEF s3, s4
<1>10. IsContent(s5, n) /\ Len(s5) = Len(s3) + Len(s4)
  BY <1>8, <1>9, JoinedContent
<1>11. Movsd(opcode, x, b, off) = s5
  BY DEF Movsd, s1, s2, s3, s4, m
<1>12. Len(PrefixOf(b)) \in Nat /\ Len(SibOf(b)) \in Nat /\ Len(DispOf(b, off)) \in Nat
  BY <1>2, <1>3, <1>4, JoinedContent
<1> HIDE DEF s5
<1>13. Len(s5) = 4 + Len(PrefixOf(b)) + Len(SibOf(b)) + Len(DispOf(b, off))
  BY <1>6, <1>7, <1>8, <1>9, <1>10, <1>12
<1>14. Len(s5) \in Nat /\ Len(s5) > 0
  BY <1>12, <1>13
<1> QED  BY <1>10, <1>11, <1>13, <1>14 DEF MovsdFits

LEMMA MovType ==
  ASSUME NEW n \in Nat, NEW b \in -1 .. 15, NEW i \in 1 .. n
  PROVE  IsContent(Mov(b, i), n) /\ Len(Mov(b, i)) = 10
<1> DEFINE s1 == <<IF High(b) THEN 73 ELSE 72>>
           s2 == <<184 + (b % 8)>>
           s3 == Address(i)
<1>1. IsContent(s1, n) /\ Len(s1) = 1
  <2>1. (IF High(b) THEN 73 ELSE 72) \in 0 .. 255
    OBVIOUS
  <2> QED  BY <2>1, ByteContent
<1>2. IsContent(s2, n) /\ Len(s2) = 1
  <2>1. 184 + (b % 8) \in 0 .. 255
    OBVIOUS
  <2> QED  BY <2>1, ByteContent
<1>3. IsContent(s3, n) /\ Len(s3) = 8
  <2>1. s3 \in Strings /\ Len(s3) = 8
    BY AddressType
  <2>2. ASSUME NEW k \in 1 .. 8 PROVE s3[k] \in Content(n)
    <3>1. s3[k] = 256 + 8 * i + k - 1
      BY DEF Address
    <3>2. 256 + 8 * i + k - 1 \in 264 .. 8 * n + 263
      OBVIOUS
    <3> QED  BY <3>1, <3>2 DEF Content
  <2> QED  BY <2>1, <2>2 DEF IsContent
<1> HIDE DEF s1, s2, s3
<1>4. IsContent(s1 \o s2, n) /\ Len(s1 \o s2) = 2
  <2>1. IsContent(s1 \o s2, n) /\ Len(s1 \o s2) = Len(s1) + Len(s2)
    BY <1>1, <1>2, JoinedContent
  <2> QED  BY <1>1, <1>2, <2>1
<1>5. IsContent((s1 \o s2) \o s3, n) /\ Len((s1 \o s2) \o s3) = 10
  <2> DEFINE t == s1 \o s2
  <2> HIDE DEF t
  <2>1. IsContent(t, n) /\ Len(t) = 2
    BY <1>4 DEF t
  <2>2. IsContent(t \o s3, n) /\ Len(t \o s3) = 10
    <3>1. IsContent(t \o s3, n) /\ Len(t \o s3) = Len(t) + Len(s3)
      BY <1>3, <2>1, JoinedContent
    <3> QED  BY <1>3, <2>1, <3>1
  <2> QED  BY <2>2 DEF t
<1> QED  BY <1>5 DEF s1, s2, s3, Mov

LEMMA ArithType ==
  ASSUME NEW n \in Nat, NEW op \in Handled
  PROVE  IsContent(Arith(op), n) /\ Len(Arith(op)) = 4
<1>1. Arithmetic[op] \in 0 .. 255
  BY DEF Arithmetic, Handled
<1> DEFINE s1 == <<242>>
           s2 == <<15, Arithmetic[op]>>
           s3 == <<193>>
           t == s1 \o s2
<1>2. IsContent(s1, n) /\ Len(s1) = 1 /\ IsContent(s2, n) /\ Len(s2) = 2 /\ IsContent(s3, n) /\ Len(s3) = 1
  <2>1. IsContent(s1, n) /\ Len(s1) = 1
    BY ByteContent
  <2>0. 15 \in 0 .. 255
    OBVIOUS
  <2>2. IsContent(s2, n) /\ Len(s2) = 2
    BY <1>1, <2>0, PairContent, Zenon
  <2>3. IsContent(s3, n) /\ Len(s3) = 1
    BY ByteContent
  <2> QED  BY <2>1, <2>2, <2>3
<1> HIDE DEF s1, s2, s3
<1>3. IsContent(t, n) /\ Len(t) = 3
  <2>1. IsContent(s1 \o s2, n) /\ Len(s1 \o s2) = Len(s1) + Len(s2)
    BY <1>2, JoinedContent
  <2> QED  BY <1>2, <2>1
<1> HIDE DEF t
<1>4. IsContent(t \o s3, n) /\ Len(t \o s3) = 4
  <2>1. IsContent(t \o s3, n) /\ Len(t \o s3) = Len(t) + Len(s3)
    BY <1>2, <1>3, JoinedContent
  <2> QED  BY <1>2, <1>3, <2>1
<1> QED  BY <1>4 DEF t, s1, s2, s3, Arith

MovsdHas(opcode, x, b, off) ==
  Len(Movsd(opcode, x, b, off)) = 4 + Len(PrefixOf(b)) + Len(SibOf(b)) + Len(DispOf(b, off))

LEMMA MovsdSize ==
  ASSUME NEW b \in -1 .. 15, NEW off \in 0 .. 255, NEW x \in 0 .. 1, NEW opcode \in 0 .. 255
  PROVE  MovsdHas(opcode, x, b, off)
<1>1. ASSUME NEW n \in Nat PROVE MovsdHas(opcode, x, b, off)
  <2>1. MovsdFits(opcode, x, b, off, n)
    BY MovsdType
  <2> QED  BY <2>1 DEF MovsdHas, MovsdFits
<1>2. 1 \in Nat
  OBVIOUS
<1> QED  BY <1>1, <1>2
-----------------------------------------------------------------------------
(* What the processor finds at rip, for each of the machine instructions.  *)

LEMMA ByteAt ==
  ASSUME contents \in Strings, NEW p \in Nat, NEW t, At(contents, p, t), NEW k \in 1 .. Len(t), Len(t) \in Nat
  PROVE  Byte(p + k - 1) = t[k]
<1>1. Len(contents) \in Nat
  BY LenProperties DEF Strings
<1>2. p + k - 1 < Len(contents) /\ (p + k - 1) + 1 = p + k
  BY <1>1 DEF At
<1>3. contents[p + k] = t[k]
  BY DEF At
<1> QED  BY <1>2, <1>3 DEF Byte

LEMMA OneByteAt ==
  ASSUME contents \in Strings, NEW p \in Nat, NEW m \in Int, At(contents, p, <<m>>)
  PROVE  Byte(p) = m
<1>1. Len(<<m>>) = 1 /\ <<m>>[1] = m /\ 1 \in 1 .. 1 /\ p + 1 - 1 = p
  BY Tuples
<1>2. Byte(p + 1 - 1) = <<m>>[1]
  BY <1>1, ByteAt
<1> QED  BY <1>1, <1>2

LEMMA TwoBytesAt ==
  ASSUME contents \in Strings, NEW p \in Nat, NEW m \in Int, NEW n \in Int, At(contents, p, <<m, n>>)
  PROVE  Byte(p) = m /\ Byte(p + 1) = n
<1>1. Len(<<m, n>>) = 2 /\ <<m, n>>[1] = m /\ <<m, n>>[2] = n /\ 1 \in 1 .. 2 /\ 2 \in 1 .. 2
      /\ p + 1 - 1 = p /\ p + 2 - 1 = p + 1
  BY Tuples
<1>2. Byte(p + 1 - 1) = <<m, n>>[1] /\ Byte(p + 2 - 1) = <<m, n>>[2]
  BY <1>1, ByteAt
<1> QED  BY <1>1, <1>2

\* Where the parts of a move are.
MovsdAt(p, opcode, x, b, off) ==
  LET q == p + 1 + Len(PrefixOf(b))
  IN  /\ At(contents, p, <<242>>)
      /\ At(contents, p + 1, PrefixOf(b))
      /\ At(contents, q, <<15, opcode>>)
      /\ At(contents, q + 2, <<FieldModRM(b, off) + 8 * x>>)
      /\ At(contents, q + 3, SibOf(b))
      /\ At(contents, q + 3 + Len(SibOf(b)), DispOf(b, off))

LEMMA MovsdParts ==
  ASSUME contents \in Strings, NEW p \in Nat, NEW b \in -1 .. 15, NEW off \in 0 .. 255, NEW x \in 0 .. 1,
         NEW opcode \in 0 .. 255, At(contents, p, Movsd(opcode, x, b, off))
  PROVE  MovsdAt(p, opcode, x, b, off)
<1> DEFINE m == FieldModRM(b, off) + 8 * x
           s1 == <<242>> \o PrefixOf(b)
           s2 == s1 \o <<15, opcode>>
           s3 == s2 \o <<m>>
           s4 == SibOf(b) \o DispOf(b, off)
           q == p + 1 + Len(PrefixOf(b))
<1>0. /\ PrefixOf(b) \in Strings /\ SibOf(b) \in Strings /\ DispOf(b, off) \in Strings
      /\ Len(PrefixOf(b)) \in Nat /\ Len(SibOf(b)) \in Nat
  <2>1. PartsAre(b, off)
    BY PartTypes
  <2> QED  BY <2>1 DEF PartsAre
<1>1. m \in Int
  <2>1. FieldModRM(b, off) \in 0 .. 135
    <3>1. PartsAre(b, off)
      BY PartTypes
    <3> QED  BY <3>1 DEF PartsAre
  <2> QED  BY <2>1
<1> HIDE DEF m
<1>2. /\ <<242>> \in Strings /\ Len(<<242>>) = 1
      /\ <<15, opcode>> \in Strings /\ Len(<<15, opcode>>) = 2
      /\ <<m>> \in Strings /\ Len(<<m>>) = 1
  BY <1>1, Tuples
<1>3. s1 \in Strings /\ Len(s1) = 1 + Len(PrefixOf(b))
  BY <1>0, <1>2, Joined
<1> HIDE DEF s1
<1>4. s2 \in Strings /\ Len(s2) = Len(s1) + 2
  BY <1>2, <1>3, Joined
<1> HIDE DEF s2
<1>5. s3 \in Strings /\ Len(s3) = Len(s2) + 1
  BY <1>2, <1>4, Joined
<1> HIDE DEF s3
<1>6. s4 \in Strings
  BY <1>0, Joined
<1> HIDE DEF s4
<1>7. Movsd(opcode, x, b, off) = s3 \o s4
  BY DEF Movsd, FieldEnd, s1, s2, s3, s4, m
<1>8. Len(contents) \in Nat
  BY LenProperties DEF Strings
<1>9. /\ p + Len(s1) = q /\ q \in Nat
      /\ p + Len(s2) = q + 2 /\ p + Len(s3) = q + 3 /\ p + 1 \in Nat /\ q + 3 \in Nat
  BY <1>0, <1>3, <1>4, <1>5
<1>10. At(contents, p, s3) /\ At(contents, q + 3, s4)
  <2>1. At(contents, p, s3 \o s4)
    BY <1>7
  <2>2. At(contents, p, s3) /\ At(contents, p + Len(s3), s4)
    BY <1>5, <1>6, <1>8, <2>1, AtJoined
  <2> QED  BY <1>9, <2>2
<1>11. At(contents, p, s2) /\ At(contents, q + 2, <<m>>)
  <2>1. At(contents, p, s2 \o <<m>>)
    BY <1>10 DEF s3
  <2>2. At(contents, p, s2) /\ At(contents, p + Len(s2), <<m>>)
    BY <1>2, <1>4, <1>8, <2>1, AtJoined
  <2> QED  BY <1>9, <2>2
<1>12. At(contents, p, s1) /\ At(contents, q, <<15, opcode>>)
  <2>1. At(contents, p, s1 \o <<15, opcode>>)
    BY <1>11 DEF s2
  <2>2. At(contents, p, s1) /\ At(contents, p + Len(s1), <<15, opcode>>)
    BY <1>2, <1>3, <1>8, <2>1, AtJoined
  <2> QED  BY <1>9, <2>2
<1>13. At(contents, p, <<242>>) /\ At(contents, p + 1, PrefixOf(b))
  <2> DEFINE s0 == <<242>>
  <2>1. s0 \in Strings /\ Len(s0) = 1 /\ At(contents, p, s0 \o PrefixOf(b))
    BY <1>2, <1>12 DEF s1
  <2> HIDE DEF s0
  <2>2. At(contents, p, s0) /\ At(contents, p + Len(s0), PrefixOf(b))
    BY <1>0, <1>8, <2>1, AtJoined
  <2> QED  BY <2>1, <2>2 DEF s0
<1>14. At(contents, q + 3, SibOf(b)) /\ At(contents, q + 3 + Len(SibOf(b)), DispOf(b, off))
  <2>1. At(contents, q + 3, SibOf(b) \o DispOf(b, off))
    BY <1>10 DEF s4
  <2> HIDE DEF q
  <2> QED  BY <1>0, <1>8, <1>9, <2>1, AtJoined
<1> QED  BY <1>11, <1>12, <1>13, <1>14 DEF MovsdAt, m

\* The instruction at rip is a move between a field and an xmm register.
DecodesMovsd(opcode, x, b, off) ==
  /\ Scalar /\ Opcode = <<15, opcode>> /\ Mod # 3 /\ RegField = x
  /\ AtBase /\ Base = Full(b) /\ Disp = DispOf(b, off)
  /\ DispAt + DispSize = rip + 4 + Len(PrefixOf(b)) + Len(SibOf(b)) + Len(DispOf(b, off))

LEMMA MovsdDecoded ==
  ASSUME contents \in Strings, rip \in Nat, NEW b \in -1 .. 15, NEW off \in 0 .. 255, NEW x \in 0 .. 1,
         NEW opcode \in 0 .. 255, At(contents, rip, Movsd(opcode, x, b, off))
  PROVE  DecodesMovsd(opcode, x, b, off)
<1>0. PartsAre(b, off)
  BY PartTypes, ZenonT(60)
<1> DEFINE pl == Len(PrefixOf(b))
           sl == Len(SibOf(b))
           dl == Len(DispOf(b, off))
           q == rip + 1 + pl
           m == FieldModRM(b, off) + 8 * x
           mod == ModOf(b, off)
           low == b % 8
<1>1. MovsdAt(rip, opcode, x, b, off)
  BY MovsdParts
<1>2. pl = (IF High(b) THEN 1 ELSE 0) /\ sl = (IF low = 4 THEN 1 ELSE 0)
      /\ dl = (IF mod = 0 THEN 0 ELSE IF mod = 1 THEN 1 ELSE 4)
  <2>1. pl = (IF High(b) THEN 1 ELSE 0)
    BY Tuples DEF PrefixOf
  <2>2. sl = (IF low = RSP THEN 1 ELSE 0)
    BY <1>0 DEF PartsAre
  <2>3. dl = (IF mod = 0 THEN 0 ELSE IF mod = 1 THEN 1 ELSE 4)
    BY <1>0 DEF PartsAre
  <2> QED  BY <2>1, <2>2, <2>3 DEF RSP
<1>3. pl \in 0 .. 1 /\ sl \in 0 .. 1 /\ dl \in {0, 1, 4} /\ low \in 0 .. 7
  BY <1>2
<1>4. mod \in 0 .. 2 /\ m = 64 * mod + low + 8 * x
  <2>1. mod \in 0 .. 2
    BY <1>0 DEF PartsAre
  <2> QED  BY <2>1 DEF FieldModRM
<1>5. q \in Nat /\ q + 2 \in Nat /\ q + 3 \in Nat /\ q + 3 + sl \in Nat
  BY <1>3
<1>6. Byte(rip) = 242
  <2>1. At(contents, rip, <<242>>)
    BY <1>1 DEF MovsdAt
  <2> QED  BY <2>1, OneByteAt
<1>7. Byte(q) = 15 /\ Byte(q + 1) = opcode
  <2>1. At(contents, q, <<15, opcode>>)
    BY <1>1 DEF MovsdAt
  <2> HIDE DEF q
  <2> QED  BY <1>5, <2>1, TwoBytesAt
<1>8. Byte(q + 2) = m
  <2>1. At(contents, q + 2, <<m>>)
    BY <1>1 DEF MovsdAt
  <2>2. m \in Int
    BY <1>3, <1>4
  <2> HIDE DEF q, m
  <2> QED  BY <1>5, <2>1, <2>2, OneByteAt
<1>9. High(b) => Byte(rip + 1) = 65
  <2> SUFFICES ASSUME High(b) PROVE Byte(rip + 1) = 65
    OBVIOUS
  <2>1. PrefixOf(b) = <<65>>
    BY DEF PrefixOf
  <2>2. At(contents, rip + 1, <<65>>)
    BY <1>1, <2>1 DEF MovsdAt
  <2>3. rip + 1 \in Nat
    OBVIOUS
  <2> QED  BY <2>2, <2>3, OneByteAt
<1>10. low = 4 => Byte(q + 3) = 36
  <2> SUFFICES ASSUME low = 4 PROVE Byte(q + 3) = 36
    OBVIOUS
  <2>1. SibOf(b) = <<36>>
    BY DEF SibOf, RSP
  <2>2. At(contents, q + 3, <<36>>)
    BY <1>1, <2>1 DEF MovsdAt
  <2> HIDE DEF q
  <2> QED  BY <1>5, <2>2, OneByteAt
<1> HIDE DEF pl, sl, dl, m, mod
<1>11. Scalar /\ RexAt = rip + 1
  BY <1>6 DEF Scalar, RexAt
<1>12. HasRex <=> High(b)
  <2>1. CASE High(b)
    BY <1>9, <1>11, <2>1 DEF HasRex
  <2>2. CASE ~ High(b)
    <3>1. q = rip + 1
      BY <1>2, <2>2
    <3>2. Byte(RexAt) = 15
      BY <1>7, <1>11, <3>1
    <3> QED  BY <2>2, <3>2 DEF HasRex
  <2> QED  BY <2>1, <2>2
<1>13. RexBit(REX_B) = (IF High(b) THEN 1 ELSE 0) /\ RexBit(REX_X) = 0 /\ RexBit(REX_R) = 0
  <2>1. High(b) => Byte(RexAt) = 65
    BY <1>9, <1>11
  <2>2. (65 \div 1) % 2 = 1 /\ (65 \div 2) % 2 = 0 /\ (65 \div 4) % 2 = 0
    OBVIOUS
  <2> QED  BY <1>12, <2>1, <2>2 DEF RexBit, REX_B, REX_X, REX_R
<1>14. OpcodeAt = q
  BY <1>2, <1>11, <1>12 DEF OpcodeAt
<1>15. Opcode = <<15, opcode>>
  BY <1>7, <1>14 DEF Opcode
<1>16. ModRMAt = q + 2
  BY <1>14, <1>15 DEF ModRMAt
<1>17. ModRM = m
  BY <1>8, <1>16 DEF ModRM
<1>18. Mod = mod /\ Digit = x /\ ModRM % 8 = low
  BY <1>3, <1>4, <1>17 DEF Mod, Digit
<1>19. RegField = x
  BY <1>13, <1>18 DEF RegField
<1>20. RmField = Full(b)
  BY <1>3, <1>13, <1>18 DEF RmField, Full
<1>21. Mod # 3 /\ (HasSib <=> low = 4)
  BY <1>4, <1>18 DEF HasSib, RSP
<1>22. HasSib => Sib = 36
  <2>1. ModRMAt + 1 = q + 3
    BY <1>5, <1>16
  <2> QED  BY <1>10, <1>21, <2>1 DEF Sib
<1>23. ~ HasIndex
  <2>1. HasSib => Index = 4
    BY <1>13, <1>22 DEF Index
  <2> QED  BY <2>1 DEF HasIndex, RSP
<1>24. Base = Full(b)
  <2>1. CASE HasSib
    <3>1. Base = (36 % 8) + 8 * RexBit(REX_B)
      BY <1>22, <2>1 DEF Base
    <3> QED  BY <1>13, <1>21, <2>1, <3>1 DEF Full
  <2>2. CASE ~ HasSib
    BY <1>20, <2>2 DEF Base
  <2> QED  BY <2>1, <2>2
<1>25. Base % 8 = low /\ HasBase
  <2>1. Base % 8 = low
    BY <1>3, <1>24 DEF Full
  <2>2. ~ (mod = 0 /\ low = RBP)
    BY DEF mod, ModOf
  <2> QED  BY <1>18, <2>1, <2>2 DEF HasBase
<1>26. DispAt = q + 3 + sl
  BY <1>2, <1>5, <1>16, <1>21 DEF DispAt
<1>27. DispSize = dl
  <2>1. CASE mod = 0
    BY <1>2, <1>18, <1>25, <2>1 DEF DispSize
  <2>2. CASE mod = 1
    BY <1>2, <1>18, <1>25, <2>2 DEF DispSize
  <2>3. CASE mod = 2
    BY <1>2, <1>18, <1>25, <2>3 DEF DispSize
  <2> QED  BY <1>4, <2>1, <2>2, <2>3
<1>28. Disp = DispOf(b, off)
  <2> DEFINE d == DispOf(b, off)
             at == q + 3 + sl
  <2>1. At(contents, at, d)
    BY <1>1 DEF MovsdAt, sl, pl
  <2>2. d \in Strings /\ d = [k \in 1 .. dl |-> d[k]]
    <3>1. d \in Strings
      BY <1>0 DEF PartsAre
    <3> HIDE DEF d
    <3>2. d \in [1 .. Len(d) -> Int]
      BY <3>1, LenProperties DEF Strings
    <3>3. dl = Len(d)
      BY DEF dl, d
    <3> QED  BY <3>1, <3>2, <3>3
  <2>3. dl = Len(d)
    BY DEF dl
  <2> HIDE DEF d
  <2>4. ASSUME NEW k \in 1 .. dl PROVE Byte(DispAt + k - 1) = d[k]
    <3>1. at \in Nat
      BY <1>3, <1>5
    <3>2. Byte(at + k - 1) = d[k]
      <4> HIDE DEF at
      <4> QED  BY <1>3, <2>1, <2>3, <3>1, ByteAt
    <3> QED  BY <1>26, <3>2
  <2>5. Disp = [k \in 1 .. dl |-> Byte(DispAt + k - 1)]
    BY <1>27 DEF Disp
  <2>6. [k \in 1 .. dl |-> Byte(DispAt + k - 1)] = [k \in 1 .. dl |-> d[k]]
    BY <2>4
  <2>7. Disp = d
    BY <2>2, <2>5, <2>6
  <2> QED  BY <2>7 DEF d
<1>29. DispAt + DispSize = rip + 4 + pl + sl + dl
  BY <1>3, <1>26, <1>27
<1> QED  BY <1>11, <1>15, <1>19, <1>21, <1>23, <1>24, <1>25, <1>28, <1>29 DEF DecodesMovsd, AtBase, pl, sl, dl

\* It puts the address of an object in a register.
DecodesMov(b, i) ==
  /\ ~ Scalar /\ RexBit(REX_W) = 1 /\ OpcodeAt = rip + 1
  /\ Byte(OpcodeAt) \in 184 .. 191 /\ (Byte(OpcodeAt) % 8) + 8 * RexBit(REX_B) = Full(b)
  /\ [k \in 1 .. 8 |-> Byte(OpcodeAt + k)] = Address(i)

LEMMA MovDecoded ==
  ASSUME contents \in Strings, rip \in Nat, NEW b \in -1 .. 15, NEW i \in Nat, At(contents, rip, Mov(b, i))
  PROVE  DecodesMov(b, i)
<1> DEFINE s1 == <<IF High(b) THEN 73 ELSE 72>>
           s2 == <<184 + (b % 8)>>
           s3 == Address(i)
           t == s1 \o s2
<1>1. s1 \in Strings /\ Len(s1) = 1 /\ s2 \in Strings /\ Len(s2) = 1 /\ s3 \in Strings /\ Len(s3) = 8
  <2>1. (IF High(b) THEN 73 ELSE 72) \in Int /\ 184 + (b % 8) \in Int
    OBVIOUS
  <2>2. s1 \in Strings /\ Len(s1) = 1
    BY <2>1, Tuples
  <2>3. s2 \in Strings /\ Len(s2) = 1
    BY <2>1, Tuples
  <2>4. s3 \in Strings /\ Len(s3) = 8
    BY AddressType
  <2> QED  BY <2>2, <2>3, <2>4
<1>2. Mov(b, i) = (s1 \o s2) \o s3
  BY DEF Mov
<1> HIDE DEF s1, s2, s3
<1>3. t \in Strings /\ Len(t) = 2
  <2>1. s1 \o s2 \in Strings /\ Len(s1 \o s2) = Len(s1) + Len(s2)
    BY <1>1, Joined
  <2> QED  BY <1>1, <2>1
<1>4. Len(contents) \in Nat
  BY LenProperties DEF Strings
<1>5. At(contents, rip, s1) /\ At(contents, rip + 1, s2) /\ At(contents, rip + 2, s3)
  <2> HIDE DEF t
  <2>1. At(contents, rip, t \o s3)
    BY <1>2 DEF t
  <2>2. At(contents, rip, t) /\ At(contents, rip + Len(t), s3)
    BY <1>1, <1>3, <1>4, <2>1, AtJoined
  <2>3. At(contents, rip, s1 \o s2)
    BY <2>2 DEF t
  <2>4. At(contents, rip, s1) /\ At(contents, rip + Len(s1), s2)
    BY <1>1, <1>4, <2>3, AtJoined
  <2> QED  BY <1>1, <1>3, <2>2, <2>4
<1>6. Byte(rip) = IF High(b) THEN 73 ELSE 72
  <2> DEFINE m == IF High(b) THEN 73 ELSE 72
  <2>1. m \in Int /\ At(contents, rip, <<m>>)
    BY <1>5 DEF s1
  <2> HIDE DEF m
  <2>2. Byte(rip) = m
    BY <2>1, OneByteAt
  <2> QED  BY <2>2 DEF m
<1>7. Byte(rip + 1) = 184 + (b % 8)
  <2> DEFINE m == 184 + (b % 8)
  <2>1. m \in Int /\ At(contents, rip + 1, <<m>>) /\ rip + 1 \in Nat
    BY <1>5 DEF s2
  <2> HIDE DEF m
  <2>2. Byte(rip + 1) = m
    BY <2>1, OneByteAt
  <2> QED  BY <2>2 DEF m
<1>8. ~ Scalar /\ RexAt = rip /\ HasRex
  BY <1>6 DEF Scalar, RexAt, HasRex
<1>9. RexBit(REX_W) = 1 /\ RexBit(REX_B) = IF High(b) THEN 1 ELSE 0
  <2>1. (72 \div 8) % 2 = 1 /\ (73 \div 8) % 2 = 1 /\ (72 \div 1) % 2 = 0 /\ (73 \div 1) % 2 = 1
    OBVIOUS
  <2> QED  BY <1>6, <1>8, <2>1 DEF RexBit, REX_W, REX_B
<1>10. OpcodeAt = rip + 1
  BY <1>8 DEF OpcodeAt
<1>11. Byte(OpcodeAt) \in 184 .. 191 /\ Byte(OpcodeAt) % 8 = b % 8
  BY <1>7, <1>10
<1>12. (Byte(OpcodeAt) % 8) + 8 * RexBit(REX_B) = Full(b)
  <2>1. b % 8 \in Int
    OBVIOUS
  <2>2. CASE High(b)
    <3>1. RexBit(REX_B) = 1 /\ Full(b) = (b % 8) + 8
      BY <1>9, <2>2 DEF Full
    <3> QED  BY <1>11, <2>1, <3>1
  <2>3. CASE ~ High(b)
    <3>1. RexBit(REX_B) = 0 /\ Full(b) = (b % 8) + 0
      BY <1>9, <2>3 DEF Full
    <3> QED  BY <1>11, <2>1, <3>1
  <2> QED  BY <2>2, <2>3
<1>13. ASSUME NEW k \in 1 .. 8 PROVE Byte(OpcodeAt + k) = s3[k]
  <2>1. rip + 2 \in Nat /\ k \in 1 .. Len(s3) /\ Len(s3) \in Nat
    BY <1>1
  <2>2. Byte((rip + 2) + k - 1) = s3[k]
    BY <1>5, <2>1, ByteAt
  <2>3. (rip + 2) + k - 1 = (rip + 1) + k
    OBVIOUS
  <2> QED  BY <1>10, <2>2, <2>3
<1>14. [k \in 1 .. 8 |-> Byte(OpcodeAt + k)] = s3
  <2>1. s3 = [k \in 1 .. 8 |-> s3[k]]
    BY DEF s3, Address
  <2>2. [k \in 1 .. 8 |-> Byte(OpcodeAt + k)] = [k \in 1 .. 8 |-> s3[k]]
    BY <1>13
  <2> QED  BY <2>1, <2>2
<1> QED  BY <1>8, <1>9, <1>10, <1>11, <1>12, <1>14 DEF DecodesMov, s3

\* It computes on the first two xmm registers.
DecodesArith(op) ==
  Scalar /\ Opcode = <<15, Arithmetic[op]>> /\ Mod = 3 /\ RegField = 0 /\ RmField = 1 /\ DispAt = rip + 4

LEMMA ArithDecoded ==
  ASSUME contents \in Strings, rip \in Nat, NEW op \in Handled, At(contents, rip, Arith(op))
  PROVE  DecodesArith(op)
<1> DEFINE m == Arithmetic[op]
           s1 == <<242>>
           s2 == <<15, m>>
           s3 == <<193>>
           t == s1 \o s2
<1>0. m \in 0 .. 255
  BY DEF Arithmetic, Handled
<1> HIDE DEF m
<1>1. s1 \in Strings /\ Len(s1) = 1 /\ s2 \in Strings /\ Len(s2) = 2 /\ s3 \in Strings
  <2>1. m \in Int /\ 242 \in Int /\ 193 \in Int /\ 15 \in Int
    BY <1>0
  <2>2. s1 \in Strings /\ Len(s1) = 1
    BY <2>1, Tuples
  <2>3. s2 \in Strings /\ Len(s2) = 2
    BY <2>1, Tuples
  <2>4. s3 \in Strings
    BY <2>1, Tuples
  <2> QED  BY <2>2, <2>3, <2>4
<1>2. Arith(op) = (s1 \o s2) \o s3
  BY DEF Arith, m
<1> HIDE DEF s1, s2, s3
<1>3. t \in Strings /\ Len(t) = 3
  <2>1. s1 \o s2 \in Strings /\ Len(s1 \o s2) = Len(s1) + Len(s2)
    BY <1>1, Joined
  <2> QED  BY <1>1, <2>1
<1>4. Len(contents) \in Nat
  BY LenProperties DEF Strings
<1>5. At(contents, rip, s1) /\ At(contents, rip + 1, s2) /\ At(contents, rip + 3, s3)
  <2> HIDE DEF t
  <2>1. At(contents, rip, t \o s3)
    BY <1>2 DEF t
  <2>2. At(contents, rip, t) /\ At(contents, rip + Len(t), s3)
    BY <1>1, <1>3, <1>4, <2>1, AtJoined
  <2>3. At(contents, rip, s1 \o s2)
    BY <2>2 DEF t
  <2>4. At(contents, rip, s1) /\ At(contents, rip + Len(s1), s2)
    BY <1>1, <1>4, <2>3, AtJoined
  <2> QED  BY <1>1, <1>3, <2>2, <2>4
<1>6. Byte(rip) = 242
  <2>1. At(contents, rip, <<242>>)
    BY <1>5 DEF s1
  <2> QED  BY <2>1, OneByteAt
<1>7. Byte(rip + 1) = 15 /\ Byte((rip + 1) + 1) = m
  <2>1. At(contents, rip + 1, <<15, m>>) /\ rip + 1 \in Nat /\ m \in Int
    BY <1>0, <1>5 DEF s2
  <2> QED  BY <2>1, TwoBytesAt
<1>8. Byte(rip + 3) = 193
  <2>1. At(contents, rip + 3, <<193>>) /\ rip + 3 \in Nat
    BY <1>5 DEF s3
  <2> QED  BY <2>1, OneByteAt
<1>9. Scalar /\ RexAt = rip + 1 /\ ~ HasRex
  BY <1>6, <1>7 DEF Scalar, RexAt, HasRex
<1>10. RexBit(REX_B) = 0 /\ RexBit(REX_R) = 0
  BY <1>9 DEF RexBit
<1>11. OpcodeAt = rip + 1
  BY <1>9 DEF OpcodeAt
<1>12. Opcode = <<15, m>>
  BY <1>7, <1>11 DEF Opcode
<1>13. ModRMAt = rip + 3
  BY <1>11, <1>12 DEF ModRMAt
<1>14. ModRM = 193
  BY <1>8, <1>13 DEF ModRM
<1>15. Mod = 3 /\ Digit = 0 /\ ModRM % 8 = 1
  BY <1>14 DEF Mod, Digit
<1>16. RegField = 0 /\ RmField = 1 /\ ~ HasSib
  BY <1>10, <1>15 DEF RegField, RmField, HasSib
<1>17. DispAt = rip + 4
  BY <1>13, <1>16 DEF DispAt
<1> QED  BY <1>9, <1>12, <1>15, <1>16, <1>17 DEF DecodesArith, m

LEMMA RetDecoded ==
  ASSUME contents \in Strings, rip \in Nat, At(contents, rip, << 195 >>)
  PROVE  ~ Scalar /\ Byte(OpcodeAt) = 195
<1>1. Byte(rip) = 195
  BY OneByteAt
<1>2. ~ Scalar /\ OpcodeAt = rip
  BY <1>1 DEF Scalar, RexAt, HasRex, OpcodeAt
<1> QED  BY <1>1, <1>2

LEMMA EndDecoded ==
  ASSUME rip = Len(contents)
  PROVE  ~ Scalar /\ Byte(OpcodeAt) = -1
<1>1. Byte(rip) = -1
  BY DEF Byte
<1>2. ~ Scalar /\ OpcodeAt = rip
  BY <1>1 DEF Scalar, RexAt, HasRex, OpcodeAt
<1> QED  BY <1>1, <1>2
-----------------------------------------------------------------------------
(* What it then does: each machine instruction has one effect.             *)

LEMMA OffsetKept ==
  ASSUME NEW b \in -1 .. 15, offset \in 0 .. 255
  PROVE  IsOffset(DispOf(b, offset))
<1>1. ModOf(b, offset) \in 0 .. 2
  BY DEF ModOf
<1>2. CASE ModOf(b, offset) = 0
  <2>1. DispOf(b, offset) = <<>> /\ offset = 0
    BY <1>2 DEF DispOf, ModOf
  <2> QED  BY <2>1 DEF IsOffset
<1>3. CASE ModOf(b, offset) = 1
  <2>1. DispOf(b, offset) = <<offset>> /\ offset < 128
    BY <1>3 DEF DispOf, ModOf
  <2> QED  BY <2>1 DEF IsOffset
<1>4. CASE ModOf(b, offset) = 2
  <2>1. DispOf(b, offset) = <<offset, 0, 0, 0>>
    BY <1>4 DEF DispOf
  <2> QED  BY <2>1 DEF IsOffset
<1> QED  BY <1>1, <1>2, <1>3, <1>4

LEMMA LoadStep ==
  ASSUME Processor, NEW b \in -1 .. 15, offset \in 0 .. 255, NEW x, DecodesMovsd(16, x, b, offset)
  PROVE  /\ xmm' = [xmm EXCEPT ![x] = Value(reg[Full(b)])]
         /\ rip' = rip + 4 + Len(PrefixOf(b)) + Len(SibOf(b)) + Len(DispOf(b, offset))
         /\ UNCHANGED <<line, phase, emitted, result, reg, number>>
<1>1. Scalar /\ Opcode = <<15, 16>> /\ Mod # 3 /\ RegField = x /\ AtBase /\ Base = Full(b) /\ Disp = DispOf(b, offset)
      /\ DispAt + DispSize = rip + 4 + Len(PrefixOf(b)) + Len(SibOf(b)) + Len(DispOf(b, offset))
  BY DEF DecodesMovsd
<1>2. movsd_load
  <2>1. ~ movsd_store
    BY <1>1 DEF movsd_store, IsSse
  <2>2. ~ arith
    BY <1>1 DEF arith
  <2>3. ~ mov_imm64 /\ ~ ret
    BY <1>1 DEF mov_imm64, ret
  <2> QED  BY <2>1, <2>2, <2>3 DEF Processor
<1>3. Loaded = Value(reg[Full(b)])
  BY <1>1, OffsetKept DEF Loaded
<1> QED  BY <1>1, <1>2, <1>3 DEF movsd_load, Continue

LEMMA StoreStep ==
  ASSUME Processor, NEW b \in -1 .. 15, offset \in 0 .. 255, NEW x, DecodesMovsd(17, x, b, offset)
  PROVE  /\ number' = [number EXCEPT ![reg[Full(b)].value] = xmm[x]]
         /\ rip' = rip + 4 + Len(PrefixOf(b)) + Len(SibOf(b)) + Len(DispOf(b, offset))
         /\ UNCHANGED <<line, phase, emitted, result, reg, xmm>>
<1>1. Scalar /\ Opcode = <<15, 17>> /\ Mod # 3 /\ RegField = x /\ AtBase /\ Base = Full(b) /\ Disp = DispOf(b, offset)
      /\ DispAt + DispSize = rip + 4 + Len(PrefixOf(b)) + Len(SibOf(b)) + Len(DispOf(b, offset))
  BY DEF DecodesMovsd
<1>2. movsd_store
  <2>1. ~ movsd_load
    BY <1>1 DEF movsd_load, IsSse
  <2>2. ~ arith
    BY <1>1 DEF arith
  <2>3. ~ mov_imm64 /\ ~ ret
    BY <1>1 DEF mov_imm64, ret
  <2> QED  BY <2>1, <2>2, <2>3 DEF Processor
<1> QED  BY <1>1, <1>2 DEF movsd_store, Continue

LEMMA ArithStep ==
  ASSUME Processor, NEW op \in Handled, DecodesArith(op)
  PROVE  /\ xmm' = [xmm EXCEPT ![0] = BinaryOp(op, xmm[0], xmm[1])]
         /\ rip' = rip + 4
         /\ UNCHANGED <<line, phase, emitted, result, reg, number>>
<1>1. Scalar /\ Opcode = <<15, Arithmetic[op]>> /\ Mod = 3 /\ RegField = 0 /\ RmField = 1 /\ DispAt = rip + 4
  BY DEF DecodesArith
<1>2. arith
  BY <1>1 DEF Processor, movsd_load, movsd_store, mov_imm64, ret
<1>3. PICK o \in DOMAIN Arithmetic : /\ IsSse(Arithmetic[o])
                                    /\ xmm' = [xmm EXCEPT ![RegField] = BinaryOp(o, xmm[RegField], xmm[RmField])]
  BY <1>2 DEF arith
<1>4. o = op
  <2>1. Arithmetic[o] = Arithmetic[op]
    BY <1>1, <1>3 DEF IsSse
  <2> QED  BY <2>1 DEF Arithmetic, Handled
<1>5. xmm' = [xmm EXCEPT ![0] = BinaryOp(op, xmm[0], xmm[1])]
  BY <1>1, <1>3, <1>4
<1>6. rip' = DispAt /\ UNCHANGED <<line, phase, emitted, result, reg, number>>
  BY <1>2 DEF arith, Continue
<1> QED  BY <1>1, <1>5, <1>6

LEMMA MovStep ==
  ASSUME Processor, NEW b \in -1 .. 15, NEW i \in DOMAIN code, DOMAIN code \subseteq Nat, rip \in Nat,
         DecodesMov(b, i)
  PROVE  /\ reg' = [reg EXCEPT ![Full(b)] = Object(i)]
         /\ rip' = rip + 10
         /\ UNCHANGED <<line, phase, emitted, result, xmm, number>>
<1>1. /\ ~ Scalar /\ RexBit(REX_W) = 1 /\ OpcodeAt = rip + 1
      /\ Byte(OpcodeAt) \in 184 .. 191 /\ (Byte(OpcodeAt) % 8) + 8 * RexBit(REX_B) = Full(b)
      /\ [k \in 1 .. 8 |-> Byte(OpcodeAt + k)] = Address(i)
  BY DEF DecodesMov
<1>2. mov_imm64
  <2>1. ~ movsd_load /\ ~ movsd_store
    BY <1>1 DEF movsd_load, movsd_store, IsSse
  <2>2. ~ arith
    BY <1>1 DEF arith, IsSse
  <2>3. ~ ret
    BY <1>1 DEF ret
  <2> QED  BY <2>1, <2>2, <2>3 DEF Processor
<1> DEFINE named == {j \in DOMAIN code : [k \in 1 .. 8 |-> Byte(OpcodeAt + k)] = Address(j)}
<1>3. named = {i}
  <2>1. ASSUME NEW j \in DOMAIN code, Address(j) = Address(i) PROVE j = i
    <3>1. Address(j)[1] = 256 + 8 * j + 1 - 1 /\ Address(i)[1] = 256 + 8 * i + 1 - 1
      BY DEF Address
    <3>2. i \in Nat /\ j \in Nat
      OBVIOUS
    <3> QED  BY <2>1, <3>1, <3>2
  <2> QED  BY <1>1, <2>1
<1>4. reg' = [reg EXCEPT ![(Byte(OpcodeAt) % 8) + 8 * RexBit(REX_B)] =
                IF named = {} THEN Lost ELSE Object(CHOOSE j \in named : TRUE)]
  BY <1>2 DEF mov_imm64
<1> HIDE DEF named
<1>5. named # {} /\ (CHOOSE j \in named : TRUE) = i
  BY <1>3
<1>6. reg' = [reg EXCEPT ![Full(b)] = Object(i)]
  BY <1>1, <1>4, <1>5
<1>7. rip' = OpcodeAt + 9 /\ UNCHANGED <<line, phase, emitted, result, xmm, number>>
  BY <1>2 DEF mov_imm64, Continue
<1> QED  BY <1>1, <1>6, <1>7

LEMMA RetStep ==
  ASSUME Processor, ~ Scalar, Byte(OpcodeAt) = 195
  PROVE  /\ result' = IF reg[RSP] = Caller(RSP) THEN Value(reg[RAX]) ELSE Lost
         /\ phase' = "done"
         /\ UNCHANGED <<line, emitted, rip, reg, xmm, number>>
<1>1. ret
  BY DEF Processor, movsd_load, movsd_store, arith, mov_imm64, IsSse
<1> QED  BY <1>1 DEF ret

LEMMA EndStep ==
  ASSUME ~ Scalar, Byte(OpcodeAt) = -1
  PROVE  ~ Processor
BY DEF Processor, movsd_load, movsd_store, arith, mov_imm64, ret, IsSse
-----------------------------------------------------------------------------
(* What the handlers append.                                               *)

\* What the strings of an instruction, the i-th of n, are made of.
Emits(instr, place, off, i, n) ==
  /\ IsContent(Loading(instr, place, off, i), n) /\ IsContent(Rest(instr, place, off), n)
  /\ Len(Loading(instr, place, off, i)) \in Nat /\ Len(Rest(instr, place, off)) \in Nat
  /\ instr.op # "store_local" => Len(Loading(instr, place, off, i)) > 0
  /\ instr.op = "binary_op" => Len(Rest(instr, place, off)) > 0
  /\ instr.op # "binary_op" => Len(Rest(instr, place, off)) = 0
  /\ instr.op = "store_local" => Len(Loading(instr, place, off, i)) = 0

\* The strings that an operation is made of.
OperationIs(place, op, off, i, n) ==
  /\ IsContent(First(place, off), n) /\ Len(First(place, off)) \in Nat /\ Len(First(place, off)) > 0
  /\ IsContent(Second(place, off), n) /\ Len(Second(place, off)) \in Nat /\ Len(Second(place, off)) > 0
  /\ IsContent(Arith(op), n) /\ Len(Arith(op)) = 4
  /\ IsContent(Mov(place.output, i), n) /\ Len(Mov(place.output, i)) = 10
  /\ IsContent(Store(place, off), n) /\ Len(Store(place, off)) \in Nat /\ Len(Store(place, off)) > 0

LEMMA OperationType ==
  ASSUME NEW n \in Nat, NEW i \in 1 .. n, NEW off \in 0 .. 255, NEW op \in Handled, NEW place,
         place.inputs[1] \in -1 .. 15, place.inputs[2] \in -1 .. 15, place.output \in -1 .. 15
  PROVE  OperationIs(place, op, off, i, n)
<1>1. IsContent(First(place, off), n) /\ Len(First(place, off)) \in Nat /\ Len(First(place, off)) > 0
  <2> DEFINE b == place.inputs[1]
             m == 16
             x == 0
  <2>1. b \in -1 .. 15 /\ m \in 0 .. 255 /\ x \in 0 .. 1
    OBVIOUS
  <2>2. First(place, off) = Movsd(m, x, b, off)
    BY DEF First
  <2> HIDE DEF b, m, x
  <2>3. IsContent(Movsd(m, x, b, off), n) /\ Len(Movsd(m, x, b, off)) \in Nat /\ Len(Movsd(m, x, b, off)) > 0
    <3>1. MovsdFits(m, x, b, off, n)
      BY <2>1, MovsdType
    <3> QED  BY <3>1 DEF MovsdFits
  <2> QED  BY <2>2, <2>3
<1>2. IsContent(Second(place, off), n) /\ Len(Second(place, off)) \in Nat /\ Len(Second(place, off)) > 0
  <2> DEFINE b == place.inputs[2]
             m == 16
             x == 1
  <2>1. b \in -1 .. 15 /\ m \in 0 .. 255 /\ x \in 0 .. 1
    OBVIOUS
  <2>2. Second(place, off) = Movsd(m, x, b, off)
    BY DEF Second
  <2> HIDE DEF b, m, x
  <2>3. IsContent(Movsd(m, x, b, off), n) /\ Len(Movsd(m, x, b, off)) \in Nat /\ Len(Movsd(m, x, b, off)) > 0
    <3>1. MovsdFits(m, x, b, off, n)
      BY <2>1, MovsdType
    <3> QED  BY <3>1 DEF MovsdFits
  <2> QED  BY <2>2, <2>3
<1>3. IsContent(Store(place, off), n) /\ Len(Store(place, off)) \in Nat /\ Len(Store(place, off)) > 0
  <2> DEFINE b == place.output
             m == 17
             x == 0
  <2>1. b \in -1 .. 15 /\ m \in 0 .. 255 /\ x \in 0 .. 1
    OBVIOUS
  <2>2. Store(place, off) = Movsd(m, x, b, off)
    BY DEF Store
  <2> HIDE DEF b, m, x
  <2>3. IsContent(Movsd(m, x, b, off), n) /\ Len(Movsd(m, x, b, off)) \in Nat /\ Len(Movsd(m, x, b, off)) > 0
    <3>1. MovsdFits(m, x, b, off, n)
      BY <2>1, MovsdType
    <3> QED  BY <3>1 DEF MovsdFits
  <2> QED  BY <2>2, <2>3
<1>4. IsContent(Arith(op), n) /\ Len(Arith(op)) = 4
  BY ArithType
<1> DEFINE b == place.output
<1>5. IsContent(Mov(b, i), n) /\ Len(Mov(b, i)) = 10
  <2>1. b \in -1 .. 15
    OBVIOUS
  <2> HIDE DEF b
  <2> QED  BY <2>1, MovType
<1> QED  BY <1>1, <1>2, <1>3, <1>4, <1>5 DEF OperationIs

\* An instruction's kind and the registers that it needs.
LEMMA PlacedKinds ==
  ASSUME NEW instr, NEW place, IsPlaced(instr, place, Handled)
  PROVE  /\ instr.op \in {"constant", "binary_op", "store_local", "return"}
         /\ instr.op = "constant" => place.output \in -1 .. 15
         /\ instr.op = "binary_op" => /\ instr.arg \in Handled /\ DOMAIN place.inputs = 1 .. 2
                                      /\ place.inputs[1] \in -1 .. 15 /\ place.inputs[2] \in -1 .. 15
                                      /\ place.output \in -1 .. 15
BY DEF IsPlaced, Handled

LEMMA EmitsType ==
  ASSUME NEW n \in Nat, NEW i \in 1 .. n, NEW off \in 0 .. 255, NEW instr, NEW place, IsPlaced(instr, place, Handled)
  PROVE  Emits(instr, place, off, i, n)
<1>0. IsContent(<<>>, n) /\ Len(<<>>) = 0
  BY NoContent
<1>1. CASE instr.op = "constant"
  <2> DEFINE b == place.output
  <2>1. b \in -1 .. 15
    BY <1>1, PlacedKinds
  <2>2. Loading(instr, place, off, i) = Mov(b, i) /\ Rest(instr, place, off) = <<>>
    BY <1>1 DEF Loading, Rest
  <2> HIDE DEF b
  <2>3. IsContent(Mov(b, i), n) /\ Len(Mov(b, i)) = 10
    BY <2>1, MovType
  <2> QED  BY <1>0, <1>1, <2>2, <2>3 DEF Emits
<1>2. CASE instr.op = "binary_op"
  <2> DEFINE op == instr.arg
             s1 == First(place, off)
             s2 == Second(place, off)
             s3 == Arith(op)
             s4 == Mov(place.output, i)
             t2 == s1 \o s2
             t3 == t2 \o s3
  <2>1. /\ op \in Handled
        /\ place.inputs[1] \in -1 .. 15 /\ place.inputs[2] \in -1 .. 15 /\ place.output \in -1 .. 15
    BY <1>2, PlacedKinds
  <2>2. Loading(instr, place, off, i) = t3 \o s4 /\ Rest(instr, place, off) = Store(place, off)
    BY <1>2 DEF Loading, Rest
  <2> HIDE DEF op
  <2>3. OperationIs(place, op, off, i, n)
    BY <2>1, OperationType
  <2>4. /\ IsContent(s1, n) /\ IsContent(s2, n) /\ IsContent(s3, n) /\ IsContent(s4, n)
        /\ Len(s1) \in Nat /\ Len(s2) \in Nat /\ Len(s3) = 4 /\ Len(s4) = 10
        /\ IsContent(Store(place, off), n) /\ Len(Store(place, off)) \in Nat /\ Len(Store(place, off)) > 0
    BY <2>3 DEF OperationIs
  <2> HIDE DEF s1, s2, s3, s4
  <2>5. IsContent(t2, n) /\ Len(t2) = Len(s1) + Len(s2)
    <3>1. IsContent(s1, n) /\ IsContent(s2, n)
      BY <2>4
    <3> QED  BY <3>1, JoinedContent
  <2> HIDE DEF t2
  <2>6. IsContent(t3, n) /\ Len(t3) = Len(t2) + Len(s3)
    <3>1. IsContent(t2, n) /\ IsContent(s3, n)
      BY <2>4, <2>5
    <3> QED  BY <3>1, JoinedContent
  <2> HIDE DEF t3
  <2>7. IsContent(t3 \o s4, n) /\ Len(t3 \o s4) = Len(t3) + Len(s4)
    <3>1. IsContent(t3, n) /\ IsContent(s4, n)
      BY <2>4, <2>6
    <3> QED  BY <3>1, JoinedContent
  <2>8. Len(t3 \o s4) \in Nat /\ Len(t3 \o s4) > 0
    BY <2>4, <2>5, <2>6, <2>7
  <2> QED  BY <1>2, <2>2, <2>4, <2>7, <2>8 DEF Emits
<1>3. CASE instr.op = "store_local"
  <2>1. Loading(instr, place, off, i) = <<>> /\ Rest(instr, place, off) = <<>>
    BY <1>3 DEF Loading, Rest
  <2> QED  BY <1>0, <1>3, <2>1 DEF Emits
<1>4. CASE instr.op = "return"
  <2>1. Loading(instr, place, off, i) = <<195>> /\ Rest(instr, place, off) = <<>>
    BY <1>4 DEF Loading, Rest
  <2>2. IsContent(<<195>>, n) /\ Len(<<195>>) = 1
    BY ByteContent
  <2> QED  BY <1>0, <1>4, <2>1, <2>2 DEF Emits
<1>5. instr.op \in {"constant", "binary_op", "store_local", "return"}
  BY PlacedKinds
<1> QED  BY <1>1, <1>2, <1>3, <1>4, <1>5
-----------------------------------------------------------------------------
(* The invariant.                                                          *)

LineInv == /\ IsLine(code, registers, Handled)
           /\ locations = [i \in DOMAIN registers |-> assign(registers[i])]
           /\ offset \in 0 .. 255

LoadingOf(i) == Loading(code[i], registers[i], offset, i)
RestOf(i) == Rest(code[i], registers[i], offset)
Appended(i) == Emit(LoadingOf(i), RestOf(i))

\* An instruction of the line.
LEMMA LineMember ==
  ASSUME LineInv, NEW i \in 1 .. Len(code)
  PROVE  /\ Len(code) \in Nat /\ IsPlaced(code[i], registers[i], Handled)
         /\ locations[i] = assign(registers[i])
         /\ Emits(code[i], registers[i], offset, i, Len(code))
<1>1. /\ Len(code) \in Nat /\ DOMAIN code = 1 .. Len(code) /\ DOMAIN registers = DOMAIN code
      /\ IsPlaced(code[i], registers[i], Handled) /\ offset \in 0 .. 255 /\ locations[i] = assign(registers[i])
  BY DEF LineInv, IsLine
<1>2. Emits(code[i], registers[i], offset, i, Len(code))
  BY <1>1, EmitsType
<1> QED  BY <1>1, <1>2

\* The location of a register is one, and names it.
LEMMA FieldIs ==
  ASSUME NEW r \in -1 .. 15
  PROVE  loc_is_register(loc_init_r(r)) /\ loc_get_register(loc_init_r(r)) = r
         /\ Field(loc_init_r(r)) = asm_addr_init_r(r, offset)
<1>1. loc_is_register(loc_init_r(r)) /\ loc_get_register(loc_init_r(r)) = r
  BY RegisterComesBack
<1> QED  BY <1>1 DEF Field

LEMMA ConstantAppends ==
  ASSUME LineInv, constant_compile, next \in 1 .. Len(code)
  PROVE  Appended(next)
<1>1. /\ code[next].op = "constant"
      /\ Emit(asm_movq_ri(loc_get_register(locations[next].output), Address(next)), <<>>)
  BY DEF constant_compile, Compiling
<1> DEFINE b == registers[next].output
<1>2. Len(code) \in Nat /\ IsPlaced(code[next], registers[next], Handled) /\ locations[next] = assign(registers[next])
  BY LineMember
<1>3. b \in -1 .. 15
  BY <1>1, <1>2, PlacedKinds
<1>4. locations[next].output = loc_init_r(b)
  BY <1>2 DEF assign
<1> HIDE DEF b
<1>5. loc_get_register(locations[next].output) = b
  BY <1>3, <1>4, FieldIs
<1>6. asm_movq_ri(b, Address(next)) = Mov(b, next)
  BY <1>2, <1>3, MovIs
<1>7. LoadingOf(next) = Mov(b, next) /\ RestOf(next) = <<>>
  BY <1>1 DEF LoadingOf, RestOf, Loading, Rest, b
<1> QED  BY <1>1, <1>5, <1>6, <1>7 DEF Appended

LEMMA BinaryOpAppends ==
  ASSUME LineInv, binary_op_compile, next \in 1 .. Len(code)
  PROVE  Appended(next)
<1> DEFINE loc == locations[next]
           place == registers[next]
           op == code[next].arg
           b1 == place.inputs[1]
           b2 == place.inputs[2]
           b3 == place.output
<1>1. code[next].op = "binary_op"
  BY DEF binary_op_compile, Compiling
<1>2. Emit(asm_movsd_ra(XMM0, Field(loc.inputs[1]))
              \o asm_movsd_ra(XMM1, Field(loc.inputs[2]))
              \o asm_arith_rr(op, XMM0, XMM1)
              \o asm_movq_ri(loc_get_register(loc.output), Address(next)),
            asm_movsd_ar(Field(loc.output), XMM0))
  BY DEF binary_op_compile
<1>3. Len(code) \in Nat /\ IsPlaced(code[next], place, Handled) /\ loc = assign(place)
  BY LineMember
<1>4. op \in Handled /\ DOMAIN place.inputs = 1 .. 2 /\ b1 \in -1 .. 15 /\ b2 \in -1 .. 15 /\ b3 \in -1 .. 15
  BY <1>1, <1>3, PlacedKinds
<1>5. loc.inputs[1] = loc_init_r(b1) /\ loc.inputs[2] = loc_init_r(b2) /\ loc.output = loc_init_r(b3)
  BY <1>3, <1>4 DEF assign
<1>6. LoadingOf(next) = Movsd(16, 0, b1, offset) \o Movsd(16, 1, b2, offset) \o Arith(op) \o Mov(b3, next)
      /\ RestOf(next) = Movsd(17, 0, b3, offset)
  BY <1>1 DEF LoadingOf, RestOf, Loading, Rest, First, Second, Store
<1> HIDE DEF loc, op, b1, b2, b3
<1>7. /\ Field(loc.inputs[1]) = asm_addr_init_r(b1, offset) /\ Field(loc.inputs[2]) = asm_addr_init_r(b2, offset)
      /\ Field(loc.output) = asm_addr_init_r(b3, offset) /\ loc_get_register(loc.output) = b3
  BY <1>4, <1>5, FieldIs
<1>8. offset \in 0 .. 255 /\ 0 \in 0 .. 1 /\ 1 \in 0 .. 1
  BY DEF LineInv
<1>9. ASSUME NEW b \in -1 .. 15, NEW x \in 0 .. 1
      PROVE  /\ asm_movsd_ra(x, asm_addr_init_r(b, offset)) = Movsd(16, x, b, offset)
             /\ asm_movsd_ar(asm_addr_init_r(b, offset), x) = Movsd(17, x, b, offset)
  BY <1>8, MovsdIs
<1>10. /\ asm_movsd_ra(XMM0, asm_addr_init_r(b1, offset)) = Movsd(16, 0, b1, offset)
       /\ asm_movsd_ra(XMM1, asm_addr_init_r(b2, offset)) = Movsd(16, 1, b2, offset)
       /\ asm_movsd_ar(asm_addr_init_r(b3, offset), XMM0) = Movsd(17, 0, b3, offset)
  BY <1>4, <1>8, <1>9, Zenon DEF XMM0, XMM1
<1>11. asm_arith_rr(op, XMM0, XMM1) = Arith(op)
  BY <1>4, ArithIs
<1>12. asm_movq_ri(b3, Address(next)) = Mov(b3, next)
  <2>1. next \in Nat
    BY <1>3
  <2> QED  BY <1>4, <2>1, MovIs
<1> QED  BY <1>2, <1>6, <1>7, <1>10, <1>11, <1>12 DEF Appended

LEMMA StoreAppends ==
  ASSUME store_local_compile
  PROVE  Appended(next)
<1>1. LoadingOf(next) = <<>> /\ RestOf(next) = <<>>
  BY DEF store_local_compile, Compiling, LoadingOf, RestOf, Loading, Rest
<1> QED  BY <1>1 DEF store_local_compile, Appended

LEMMA ReturnAppends ==
  ASSUME return_compile
  PROVE  Appended(next)
<1>1. LoadingOf(next) = <<195>> /\ RestOf(next) = <<>> /\ asm_ret = <<195>>
  BY DEF return_compile, Compiling, LoadingOf, RestOf, Loading, Rest, asm_ret
<1> QED  BY <1>1 DEF return_compile, Appended

\* Where an instruction's code begins and ends.
Begin(i) == IF i = 1 THEN 0 ELSE placed[i - 1] + Len(RestOf(i - 1))
End(i) == placed[i] + Len(RestOf(i))

\* The code of instruction i is there.
Piece(i) == /\ placed[i] = Begin(i) + Len(LoadingOf(i)) /\ Begin(i) \in Nat /\ End(i) <= Len(contents)
            /\ At(contents, Begin(i), LoadingOf(i)) /\ At(contents, placed[i], RestOf(i))

\* Instruction j comes behind instruction i, directly if none between them has code.
Silent(i, j) == \A m \in i + 1 .. j - 1 : code[m].op = "store_local"
Apart(i, j) == End(i) <= Begin(j) /\ (Silent(i, j) => Begin(j) = End(i))

LayoutInv ==
  /\ next \in 1 .. Len(code) + 1 /\ placed \in Seq(Nat) /\ Len(placed) = next - 1
  /\ IsContent(contents, Len(code)) /\ Begin(next) = Len(contents)
  /\ \A i \in 1 .. next - 1 : Piece(i)
  /\ \A i \in 1 .. next - 1 : \A j \in i + 1 .. next : Apart(i, j)

LEMMA AtLonger ==
  ASSUME NEW a \in Strings, NEW b \in Strings, NEW p \in Nat, NEW t, Len(t) \in Nat, At(a, p, t)
  PROVE  At(a \o b, p, t)
<1> DEFINE c == a \o b
<1>1. Len(a) \in Nat /\ Len(b) \in Nat /\ Len(c) = Len(a) + Len(b) /\ \A k \in 1 .. Len(a) : c[k] = a[k]
  BY Joined
<1> HIDE DEF c
<1>2. p + Len(t) <= Len(c)
  BY <1>1 DEF At
<1>3. ASSUME NEW k \in 1 .. Len(t) PROVE c[p + k] = t[k]
  <2>1. p + k \in 1 .. Len(a)
    BY <1>1 DEF At
  <2> QED  BY <1>1, <2>1 DEF At
<1>4. At(c, p, t)
  BY <1>2, <1>3 DEF At
<1> QED  BY <1>4 DEF c

LEMMA AtEnd ==
  ASSUME NEW a \in Strings, NEW b \in Strings
  PROVE  At(a \o b, Len(a), b)
<1>1. Len(a) \in Nat /\ Len(b) \in Nat /\ Len(a \o b) = Len(a) + Len(b)
  BY Joined
<1>2. \A k \in 1 .. Len(b) : (a \o b)[Len(a) + k] = b[k]
  BY Joined
<1> QED  BY <1>1, <1>2 DEF At

LEMMA PlacedAppended ==
  ASSUME NEW s \in Seq(Nat), NEW m \in Nat, NEW k \in Nat, Len(s) = k - 1, k > 0
  PROVE  /\ Append(s, m) \in Seq(Nat) /\ Len(Append(s, m)) = k /\ Append(s, m)[k] = m
         /\ \A i \in 1 .. k - 1 : Append(s, m)[i] = s[i]
<1>1. /\ Append(s, m) \in Seq(Nat) /\ Len(Append(s, m)) = Len(s) + 1
      /\ \A i \in 1 .. Len(s) : Append(s, m)[i] = s[i]
      /\ Append(s, m)[Len(s) + 1] = m
  BY AppendProperties
<1> QED  BY <1>1

\* A handler keeps the order of what is in the buffer.
Lays(k) == /\ LineInv /\ LayoutInv /\ k = next /\ k \in 1 .. Len(code) /\ Appended(k)

LEMMA EmitKeepsLayout ==
  ASSUME NEW k \in Nat, Lays(k)
  PROVE  LayoutInv'
<1> DEFINE n == Len(code)
           lo == LoadingOf(k)
           re == RestOf(k)
           c1 == contents \o lo
           c2 == c1 \o re
<1>1. LineInv /\ LayoutInv /\ next = k /\ k \in 1 .. n
  BY DEF Lays
<1>2. /\ contents' = c2 /\ placed' = Append(placed, Len(c1)) /\ next' = k + 1
      /\ code' = code /\ registers' = registers /\ offset' = offset
  BY <1>1 DEF Lays, Appended, Emit, line
<1>3. /\ n \in Nat /\ IsContent(lo, n) /\ IsContent(re, n) /\ Len(lo) \in Nat /\ Len(re) \in Nat
      /\ code[k].op = "store_local" => Len(lo) = 0 /\ Len(re) = 0
  <2>1. n \in Nat /\ Emits(code[k], registers[k], offset, k, n) /\ IsPlaced(code[k], registers[k], Handled)
    BY <1>1, LineMember
  <2> QED  BY <2>1 DEF Emits, LoadingOf, RestOf
<1>4. \A i : LoadingOf(i)' = LoadingOf(i) /\ RestOf(i)' = RestOf(i)
  BY <1>2 DEF LoadingOf, RestOf
<1>5. /\ placed \in Seq(Nat) /\ Len(placed) = k - 1 /\ IsContent(contents, n) /\ Begin(k) = Len(contents)
      /\ \A i \in 1 .. k - 1 : Piece(i)
      /\ \A i \in 1 .. k - 1 : \A j \in i + 1 .. k : Apart(i, j)
  BY <1>1 DEF LayoutInv
<1> HIDE DEF lo, re
<1>6. IsContent(c1, n) /\ Len(c1) = Len(contents) + Len(lo) /\ Len(contents) \in Nat
  BY <1>3, <1>5, JoinedContent
<1> HIDE DEF c1
<1>7. IsContent(c2, n) /\ Len(c2) = Len(c1) + Len(re) /\ Len(c1) \in Nat
  BY <1>3, <1>6, JoinedContent
<1> DEFINE p == Append(placed, Len(c1))
<1>8. p \in Seq(Nat) /\ Len(p) = k /\ p[k] = Len(c1) /\ \A i \in 1 .. k - 1 : p[i] = placed[i]
  <2>1. k > 0 /\ Len(c1) \in Nat
    BY <1>1, <1>7
  <2> QED  BY <1>5, <2>1, PlacedAppended
<1> HIDE DEF c2, p
<1>9. placed' = p
  BY <1>2 DEF p
<1>10. ASSUME NEW i \in 1 .. k PROVE Begin(i)' = Begin(i)
  <2>1. CASE i = 1
    BY <2>1 DEF Begin
  <2>2. CASE i # 1
    <3>1. i - 1 \in 1 .. k - 1
      BY <2>2
    <3>2. placed'[i - 1] = placed[i - 1] /\ RestOf(i - 1)' = RestOf(i - 1)
      BY <1>4, <1>8, <1>9, <3>1
    <3> QED  BY <2>2, <3>2 DEF Begin
  <2> QED  BY <2>1, <2>2
<1>11. ASSUME NEW i \in 1 .. k - 1 PROVE End(i)' = End(i)
  BY <1>4, <1>8, <1>9 DEF End
<1>12. End(k)' = Len(c2)
  BY <1>4, <1>7, <1>8, <1>9 DEF End, re
<1>13. Begin(k + 1)' = Len(c2)
  <2>1. (k + 1) - 1 = k /\ k + 1 # 1
    BY <1>1
  <2>2. Begin(k + 1)' = placed'[(k + 1) - 1] + Len(RestOf((k + 1) - 1)')
    BY <2>1 DEF Begin
  <2>3. placed'[(k + 1) - 1] = Len(c1) /\ RestOf((k + 1) - 1)' = re
    BY <1>4, <1>8, <1>9, <2>1 DEF re
  <2> QED  BY <1>7, <2>2, <2>3
<1>14. contents \in Strings /\ lo \in Strings /\ c1 \in Strings /\ re \in Strings
  BY <1>3, <1>5, <1>6 DEF IsContent
<1>15. ASSUME NEW i \in 1 .. k - 1 PROVE Piece(i)'
  <2>1. /\ placed[i] = Begin(i) + Len(LoadingOf(i)) /\ Begin(i) \in Nat /\ End(i) <= Len(contents)
        /\ At(contents, Begin(i), LoadingOf(i)) /\ At(contents, placed[i], RestOf(i))
    BY <1>5 DEF Piece
  <2>2. Len(LoadingOf(i)) \in Nat /\ Len(RestOf(i)) \in Nat
    <3>1. i \in 1 .. n
      BY <1>1, <1>3
    <3>2. Emits(code[i], registers[i], offset, i, n)
      BY <1>1, <3>1, LineMember
    <3> QED  BY <3>2 DEF Emits, LoadingOf, RestOf
  <2> DEFINE b == Begin(i)
             l == LoadingOf(i)
             r == RestOf(i)
             q == placed[i]
  <2>3. q \in Nat
    BY <2>1, <2>2
  <2>4. At(c2, b, l) /\ At(c2, q, r)
    <3> HIDE DEF b, l, r, q
    <3>1. b \in Nat /\ Len(l) \in Nat /\ Len(r) \in Nat /\ At(contents, b, l) /\ At(contents, q, r)
      BY <2>1, <2>2 DEF b, l, r, q
    <3>2. At(c1, b, l)
      BY <1>14, <3>1, AtLonger DEF c1
    <3>3. At(c2, b, l)
      BY <1>14, <3>1, <3>2, AtLonger DEF c2
    <3>4. At(c1, q, r)
      BY <1>14, <2>3, <3>1, AtLonger DEF c1
    <3>5. At(c2, q, r)
      BY <1>14, <2>3, <3>1, <3>4, AtLonger DEF c2
    <3> QED  BY <3>3, <3>5
  <2>5. Begin(i)' = b /\ LoadingOf(i)' = l /\ RestOf(i)' = r /\ placed'[i] = q /\ End(i)' = End(i) /\ contents' = c2
    BY <1>2, <1>4, <1>8, <1>9, <1>10, <1>11
  <2>6. End(i) \in Nat /\ End(i) <= Len(c2)
    <3>1. End(i) \in Nat
      BY <2>2, <2>3 DEF End
    <3> QED  BY <1>3, <1>6, <1>7, <2>1, <3>1
  <2>7. placed'[i] = Begin(i)' + Len(LoadingOf(i)') /\ Begin(i)' \in Nat /\ End(i)' <= Len(contents')
    BY <2>1, <2>5, <2>6
  <2>8. At(contents', Begin(i)', LoadingOf(i)') /\ At(contents', placed'[i], RestOf(i)')
    BY <2>4, <2>5
  <2> QED  BY <2>7, <2>8 DEF Piece
<1>16. Piece(k)'
  <2>1. At(c1, Len(contents), lo)
    BY <1>14, AtEnd DEF c1
  <2>2. At(c2, Len(contents), lo)
    BY <1>3, <1>6, <1>14, <2>1, AtLonger DEF c2
  <2>3. At(c2, Len(c1), re)
    BY <1>14, AtEnd DEF c2
  <2>4. /\ Begin(k)' = Len(contents) /\ LoadingOf(k)' = lo /\ RestOf(k)' = re /\ placed'[k] = Len(c1)
        /\ End(k)' = Len(c2) /\ contents' = c2
    BY <1>1, <1>2, <1>4, <1>5, <1>8, <1>9, <1>10, <1>12 DEF lo, re
  <2>5. Len(c2) \in Nat
    BY <1>3, <1>7
  <2>6. placed'[k] = Begin(k)' + Len(LoadingOf(k)') /\ Begin(k)' \in Nat /\ End(k)' <= Len(contents')
    BY <1>6, <2>4, <2>5
  <2>7. At(contents', Begin(k)', LoadingOf(k)') /\ At(contents', placed'[k], RestOf(k)')
    BY <2>2, <2>3, <2>4
  <2> QED  BY <2>6, <2>7 DEF Piece
<1>17. \A i, j : Silent(i, j)' <=> Silent(i, j)
  BY <1>2 DEF Silent
<1>18. ASSUME NEW i \in 1 .. k, NEW j \in i + 1 .. k + 1 PROVE Apart(i, j)'
  <2>1. CASE i = k
    <3>1. j = k + 1
      BY <2>1
    <3> QED  BY <1>7, <1>3, <1>12, <1>13, <2>1, <3>1 DEF Apart
  <2>2. CASE i # k /\ j # k + 1
    <3>1. i \in 1 .. k - 1 /\ j \in i + 1 .. k /\ j \in 1 .. k
      BY <2>2
    <3>2. Apart(i, j) /\ Begin(j)' = Begin(j) /\ End(i)' = End(i)
      BY <1>5, <1>10, <1>11, <3>1
    <3> QED  BY <1>17, <3>2 DEF Apart
  <2>3. CASE i # k /\ j = k + 1
    <3>1. i \in 1 .. k - 1 /\ k \in i + 1 .. k
      BY <2>3
    <3>2. End(i) <= Len(contents) /\ (Silent(i, k) => Len(contents) = End(i)) /\ End(i)' = End(i)
      BY <1>5, <1>11, <3>1 DEF Apart
    <3>3. End(i) \in Int
      <4>1. i \in 1 .. n
        BY <1>1, <1>3, <3>1
      <4>2. Emits(code[i], registers[i], offset, i, n)
        BY <1>1, <4>1, LineMember
      <4>3. placed[i] \in Nat /\ Len(RestOf(i)) \in Nat
        BY <1>5, <3>1, <4>2 DEF Emits, RestOf
      <4> QED  BY <4>3 DEF End
    <3>4. End(i)' <= Begin(j)'
      BY <1>3, <1>6, <1>7, <1>13, <2>3, <3>2, <3>3
    <3>5. ASSUME Silent(i, k + 1) PROVE Begin(k + 1)' = End(i)
      <4>1. Silent(i, k) /\ code[k].op = "store_local"
        <5>1. \A m \in i + 1 .. k - 1 : m \in i + 1 .. (k + 1) - 1
          BY <3>1
        <5>2. k \in i + 1 .. (k + 1) - 1
          BY <3>1
        <5> QED  BY <3>5, <5>1, <5>2 DEF Silent
      <4> QED  BY <1>3, <1>6, <1>7, <1>13, <3>2, <4>1
    <3> QED  BY <1>17, <2>3, <3>2, <3>4, <3>5 DEF Apart
  <2> QED  BY <2>1, <2>2, <2>3
<1>19. next' \in 1 .. Len(code') + 1 /\ placed' \in Seq(Nat) /\ Len(placed') = next' - 1
  BY <1>1, <1>2, <1>3, <1>8, <1>9
<1>20. IsContent(contents', Len(code')) /\ Begin(next)' = Len(contents')
  <2>1. Begin(next)' = Begin(k + 1)'
    BY <1>2 DEF Begin, RestOf
  <2> QED  BY <1>2, <1>7, <1>13, <2>1
<1>21. \A i \in 1 .. next' - 1 : Piece(i)'
  <2>1. next' - 1 = k
    BY <1>2
  <2>2. \A i \in 1 .. k : i \in 1 .. k - 1 \/ i = k
    OBVIOUS
  <2> QED  BY <1>15, <1>16, <2>1, <2>2
<1>22. \A i \in 1 .. next' - 1 : \A j \in i + 1 .. next' : Apart(i, j)'
  <2>1. next' - 1 = k
    BY <1>2
  <2> QED  BY <1>2, <1>18, <2>1
<1> QED  BY <1>19, <1>20, <1>21, <1>22 DEF LayoutInv
-----------------------------------------------------------------------------
(* The processor in the middle of the line.                                *)

NumberInv == /\ DOMAIN number = DOMAIN code
             /\ \A i \in DOMAIN code : /\ number[i].type \in {"literal", "binary_op"}
                                       /\ code[i].op = "constant" => number[i] = Literal(code[i].arg)

CompileInv == rip = 0 /\ result = NotYet /\ reg = [r \in 0 .. 15 |-> Caller(r)]

\* Registers have what the caller had or objects of the first n instructions.
Holds(n) == /\ DOMAIN reg = 0 .. 15
            /\ \A r \in 0 .. 15 : reg[r] = Caller(r) \/ \E m \in 1 .. n : m <= Len(code) /\ reg[r] = Object(m)

In(i, k) == Value(reg[Full(registers[i].inputs[k])])

\* Behind an operation's first operand, its second, its arithmetic.
L1(i) == Begin(i) + Len(First(registers[i], offset))
L2(i) == L1(i) + Len(Second(registers[i], offset))
L3(i) == L2(i) + Len(Arith(code[i].arg))

\* How far the processor is: in front of instruction i, or within it.
Ready(i) == rip = Begin(i) /\ (i <= Len(code) => code[i].op # "store_local") /\ Holds(i - 1)
FirstIn(i) == rip = L1(i) /\ Holds(i - 1) /\ xmm[0] = In(i, 1)
BothIn(i) == rip = L2(i) /\ Holds(i - 1) /\ xmm[0] = In(i, 1) /\ xmm[1] = In(i, 2)
Computed(i) == rip = L3(i) /\ Holds(i - 1) /\ xmm[0] = BinaryOp(code[i].arg, In(i, 1), In(i, 2))
Named(i) == /\ rip = placed[i] /\ Holds(i) /\ xmm[0].type = "binary_op"
            /\ reg[Full(registers[i].output)] = Object(i)
Doing(i) == /\ i <= Len(code) /\ code[i].op = "binary_op"
            /\ FirstIn(i) \/ BothIn(i) \/ Computed(i) \/ Named(i)

RunInv == /\ next = Len(code) + 1 /\ result = NotYet
          /\ \E i \in 1 .. Len(code) + 1 : Ready(i) \/ Doing(i)
DoneInv == rip \in 0 .. Len(contents) /\ Holds(Len(code))

AsmInv == /\ LineInv /\ LayoutInv /\ NumberInv /\ DOMAIN xmm = 0 .. 15
          /\ \/ phase = "compile" /\ CompileInv
             \/ phase = "run" /\ RunInv
             \/ phase = "done" /\ DoneInv

\* The line is compiled: all its code is there.
Compiled == LineInv /\ LayoutInv /\ next = Len(code) + 1

\* The places of an instruction's code.
Spans(i) == /\ placed[i] \in Nat /\ Begin(i) \in Nat /\ End(i) \in Nat
            /\ Begin(i) <= placed[i] /\ placed[i] <= End(i) /\ End(i) <= Len(contents)
            /\ code[i].op # "store_local" => Begin(i) < placed[i]
            /\ code[i].op = "binary_op" => placed[i] < End(i)
            /\ code[i].op # "binary_op" => placed[i] = End(i)

LEMMA SpanOf ==
  ASSUME Compiled, NEW i \in 1 .. Len(code)
  PROVE  Spans(i)
<1>1. Piece(i)
  <2>1. LayoutInv /\ i \in 1 .. next - 1
    BY LineMember DEF Compiled
  <2> QED  BY <2>1 DEF LayoutInv
<1>2. Emits(code[i], registers[i], offset, i, Len(code))
  BY LineMember DEF Compiled
<1>3. /\ Len(LoadingOf(i)) \in Nat /\ Len(RestOf(i)) \in Nat
      /\ code[i].op # "store_local" => Len(LoadingOf(i)) > 0
      /\ code[i].op = "binary_op" => Len(RestOf(i)) > 0
      /\ code[i].op # "binary_op" => Len(RestOf(i)) = 0
  BY <1>2 DEF Emits, LoadingOf, RestOf
<1>4. placed[i] = Begin(i) + Len(LoadingOf(i)) /\ Begin(i) \in Nat /\ End(i) <= Len(contents)
  BY <1>1 DEF Piece
<1>5. End(i) = placed[i] + Len(RestOf(i))
  BY DEF End
<1> QED  BY <1>3, <1>4, <1>5 DEF Spans

LEMMA BufferType ==
  ASSUME Compiled
  PROVE  /\ contents \in Strings /\ Len(contents) \in Nat /\ Len(code) \in Nat /\ DOMAIN code = 1 .. Len(code)
         /\ Begin(Len(code) + 1) = Len(contents) /\ offset \in 0 .. 255 /\ DOMAIN registers = DOMAIN code
<1>1. contents \in Strings
  BY DEF Compiled, LayoutInv, IsContent
<1>2. Len(contents) \in Nat
  BY <1>1, LenProperties DEF Strings
<1>3. Len(code) \in Nat /\ DOMAIN code = 1 .. Len(code) /\ offset \in 0 .. 255 /\ DOMAIN registers = DOMAIN code
  BY DEF Compiled, LineInv, IsLine
<1>4. Begin(Len(code) + 1) = Len(contents)
  BY DEF Compiled, LayoutInv
<1> QED  BY <1>1, <1>2, <1>3, <1>4

\* An operation in the buffer.
Operation(i) ==
  /\ LET place == registers[i]
     IN  /\ place.inputs[1] \in -1 .. 15 /\ place.inputs[2] \in -1 .. 15 /\ place.output \in -1 .. 15
         /\ At(contents, Begin(i), Movsd(16, 0, place.inputs[1], offset))
         /\ At(contents, L1(i), Movsd(16, 1, place.inputs[2], offset))
         /\ At(contents, L2(i), Arith(code[i].arg))
         /\ At(contents, L3(i), Mov(place.output, i))
         /\ At(contents, placed[i], Movsd(17, 0, place.output, offset))
         /\ L1(i) = Begin(i) + Len(Movsd(16, 0, place.inputs[1], offset))
         /\ L2(i) = L1(i) + Len(Movsd(16, 1, place.inputs[2], offset))
         /\ End(i) = placed[i] + Len(Movsd(17, 0, place.output, offset))
  /\ code[i].arg \in Handled
  /\ L1(i) \in Nat /\ L2(i) \in Nat /\ L3(i) \in Nat
  /\ Begin(i) < L1(i) /\ L1(i) < L2(i) /\ L3(i) = L2(i) + 4 /\ placed[i] = L3(i) + 10

LEMMA OperationParts ==
  ASSUME Compiled, NEW i \in 1 .. Len(code), code[i].op = "binary_op"
  PROVE  Operation(i)
<1> DEFINE place == registers[i]
           op == code[i].arg
           n == Len(code)
           b == Begin(i)
           s1 == First(place, offset)
           s2 == Second(place, offset)
           s3 == Arith(op)
           s4 == Mov(place.output, i)
           t2 == s1 \o s2
           t3 == t2 \o s3
<1>1. Piece(i)
  <2>1. LayoutInv /\ i \in 1 .. next - 1
    BY LineMember DEF Compiled
  <2> QED  BY <2>1 DEF LayoutInv
<1>2. n \in Nat /\ IsPlaced(code[i], registers[i], Handled) /\ offset \in 0 .. 255 /\ contents \in Strings /\ Len(contents) \in Nat
  BY LineMember, BufferType DEF Compiled
<1>3. /\ op \in Handled
      /\ place.inputs[1] \in -1 .. 15 /\ place.inputs[2] \in -1 .. 15 /\ place.output \in -1 .. 15
  BY <1>2, PlacedKinds
<1>4. LoadingOf(i) = t3 \o s4 /\ RestOf(i) = Store(place, offset)
  BY DEF Loading, Rest, LoadingOf, RestOf
<1>5. b \in Nat /\ placed[i] = b + Len(LoadingOf(i)) /\ At(contents, b, LoadingOf(i)) /\ At(contents, placed[i], RestOf(i))
  BY <1>1 DEF Piece
<1>6. OperationIs(place, op, offset, i, n)
  <2> HIDE DEF place, op, n
  <2> QED  BY <1>2, <1>3, OperationType DEF n
<1>7. /\ IsContent(s1, n) /\ IsContent(s2, n) /\ IsContent(s3, n) /\ IsContent(s4, n)
      /\ Len(s1) \in Nat /\ Len(s2) \in Nat /\ Len(s3) = 4 /\ Len(s4) = 10 /\ Len(s1) > 0 /\ Len(s2) > 0
  BY <1>6 DEF OperationIs
<1>8. L1(i) = b + Len(s1) /\ L2(i) = L1(i) + Len(s2) /\ L3(i) = L2(i) + Len(s3)
  BY DEF L1, L2, L3
<1> HIDE DEF s1, s2, s3, s4, b, n, op
<1>9. IsContent(t2, n) /\ Len(t2) = Len(s1) + Len(s2)
  BY <1>2, <1>7, JoinedContent
<1> HIDE DEF t2
<1>10. IsContent(t3, n) /\ Len(t3) = Len(t2) + Len(s3)
  <2>1. n \in Nat /\ IsContent(t2, n) /\ IsContent(s3, n)
    BY <1>2, <1>7, <1>9
  <2> QED  BY <2>1, JoinedContent
<1> HIDE DEF t3
<1>11. Len(t3 \o s4) = Len(t3) + Len(s4)
  <2>1. IsContent(t3, n) /\ IsContent(s4, n)
    BY <1>7, <1>10
  <2> QED  BY <1>2, <2>1, JoinedContent
<1>12. s1 \in Strings /\ s2 \in Strings /\ s3 \in Strings /\ s4 \in Strings /\ t2 \in Strings /\ t3 \in Strings
  BY <1>7, <1>9, <1>10 DEF IsContent
<1>13. At(contents, b, t3 \o s4)
  BY <1>4, <1>5
<1>14. At(contents, b, t3) /\ At(contents, b + Len(t3), s4)
  BY <1>2, <1>5, <1>12, <1>13, AtJoined
<1>15. At(contents, b, t2) /\ At(contents, b + Len(t2), s3)
  <2>1. At(contents, b, t2 \o s3)
    BY <1>14 DEF t3
  <2> QED  BY <1>2, <1>5, <1>12, <2>1, AtJoined
<1>16. At(contents, b, s1) /\ At(contents, b + Len(s1), s2)
  <2>1. At(contents, b, s1 \o s2)
    BY <1>15 DEF t2
  <2> QED  BY <1>2, <1>5, <1>12, <2>1, AtJoined
<1>17. /\ L1(i) \in Nat /\ L2(i) \in Nat /\ L3(i) \in Nat
       /\ b < L1(i) /\ L1(i) < L2(i) /\ L3(i) = L2(i) + 4 /\ placed[i] = L3(i) + 10
       /\ b + Len(t2) = L2(i) /\ b + Len(t3) = L3(i)
  BY <1>4, <1>5, <1>7, <1>8, <1>9, <1>10, <1>11
<1>18. At(contents, L1(i), s2) /\ At(contents, L2(i), s3) /\ At(contents, L3(i), s4)
  BY <1>8, <1>14, <1>15, <1>16, <1>17
<1>19. End(i) = placed[i] + Len(Store(place, offset))
  BY <1>4 DEF End
<1> QED  BY <1>3, <1>4, <1>5, <1>8, <1>16, <1>17, <1>18, <1>19 DEF Operation, b, s1, s2, s3, s4, op, First, Second, Store

\* What the processor may do, for an instruction i of the line.
Same == UNCHANGED <<line, phase, emitted, result>>
StepConstant(i) == /\ code[i].op = "constant" /\ Ready(i) /\ registers[i].output \in -1 .. 15
                   /\ reg' = [reg EXCEPT ![Full(registers[i].output)] = Object(i)]
                   /\ rip' = placed[i] /\ UNCHANGED <<xmm, number>> /\ Same
StepFirst(i) == /\ code[i].op = "binary_op" /\ Ready(i)
                /\ xmm' = [xmm EXCEPT ![0] = In(i, 1)]
                /\ rip' = L1(i) /\ UNCHANGED <<reg, number>> /\ Same
StepSecond(i) == /\ code[i].op = "binary_op" /\ FirstIn(i)
                 /\ xmm' = [xmm EXCEPT ![1] = In(i, 2)]
                 /\ rip' = L2(i) /\ UNCHANGED <<reg, number>> /\ Same
StepArith(i) == /\ code[i].op = "binary_op" /\ BothIn(i)
                /\ xmm' = [xmm EXCEPT ![0] = BinaryOp(code[i].arg, xmm[0], xmm[1])]
                /\ rip' = L3(i) /\ UNCHANGED <<reg, number>> /\ Same
StepMov(i) == /\ code[i].op = "binary_op" /\ Computed(i) /\ registers[i].output \in -1 .. 15
              /\ reg' = [reg EXCEPT ![Full(registers[i].output)] = Object(i)]
              /\ rip' = placed[i] /\ UNCHANGED <<xmm, number>> /\ Same
StepStore(i) == /\ code[i].op = "binary_op" /\ Named(i)
                /\ number' = [number EXCEPT ![i] = xmm[0]]
                /\ rip' = End(i) /\ UNCHANGED <<reg, xmm>> /\ Same
StepReturn(i) == /\ code[i].op = "return" /\ Ready(i)
                 /\ result' = IF reg[RSP] = Caller(RSP) THEN Value(reg[RAX]) ELSE Lost
                 /\ phase' = "done"
                 /\ UNCHANGED <<line, emitted, rip, reg, xmm, number>>
RunStep(i) == \/ StepConstant(i) \/ StepFirst(i) \/ StepSecond(i) \/ StepArith(i) \/ StepMov(i) \/ StepStore(i)
              \/ StepReturn(i)

LEMMA FullType ==
  ASSUME NEW b \in -1 .. 15
  PROVE  Full(b) \in 0 .. 15
BY DEF Full, High

LEMMA ConstantStep ==
  ASSUME Compiled, Processor, NEW i \in 1 .. Len(code), code[i].op = "constant", Ready(i)
  PROVE  StepConstant(i)
<1> DEFINE b == registers[i].output
<1>1. IsPlaced(code[i], registers[i], Handled) /\ contents \in Strings /\ DOMAIN code = 1 .. Len(code)
  BY LineMember, BufferType DEF Compiled
<1>2. b \in -1 .. 15
  BY <1>1, PlacedKinds
<1>3. Piece(i)
  <2>1. LayoutInv /\ i \in 1 .. next - 1
    BY LineMember DEF Compiled
  <2> QED  BY <2>1 DEF LayoutInv
<1>4. LoadingOf(i) = Mov(b, i)
  BY DEF LoadingOf, Loading
<1>5. rip = Begin(i)
  BY DEF Ready
<1>6. Begin(i) \in Nat /\ placed[i] = Begin(i) + Len(Mov(b, i)) /\ At(contents, Begin(i), Mov(b, i))
  BY <1>3, <1>4 DEF Piece
<1> HIDE DEF b
<1>7. i \in Nat /\ i \in DOMAIN code /\ DOMAIN code \subseteq Nat
  BY <1>1
<1>8. DecodesMov(b, i)
  <2>1. rip \in Nat /\ At(contents, rip, Mov(b, i))
    BY <1>5, <1>6
  <2> QED  BY <1>1, <1>2, <1>7, <2>1, MovDecoded
<1>9. /\ reg' = [reg EXCEPT ![Full(b)] = Object(i)] /\ rip' = rip + 10
      /\ UNCHANGED <<line, phase, emitted, result, xmm, number>>
  <2>1. rip \in Nat
    BY <1>5, <1>6
  <2> QED  BY <1>2, <1>7, <1>8, <2>1, MovStep
<1>10. Len(Mov(b, i)) = 10
  <2>1. 1 \in Nat /\ i \in 1 .. i
    BY <1>7
  <2> QED  BY <1>2, <1>7, <2>1, MovType
<1>11. rip' = placed[i]
  BY <1>5, <1>6, <1>9, <1>10
<1> QED  BY <1>2, <1>9, <1>11 DEF StepConstant, Same, b

LEMMA ReturnStep ==
  ASSUME Compiled, Processor, NEW i \in 1 .. Len(code), code[i].op = "return", Ready(i)
  PROVE  StepReturn(i)
<1>1. Piece(i)
  <2>1. LayoutInv /\ i \in 1 .. next - 1
    BY LineMember DEF Compiled
  <2> QED  BY <2>1 DEF LayoutInv
<1>2. LoadingOf(i) = <<195>>
  BY DEF LoadingOf, Loading
<1>3. rip = Begin(i) /\ Begin(i) \in Nat /\ At(contents, Begin(i), <<195>>) /\ contents \in Strings
  BY <1>1, <1>2, BufferType DEF Ready, Piece
<1>4. ~ Scalar /\ Byte(OpcodeAt) = 195
  BY <1>3, RetDecoded
<1>5. /\ result' = IF reg[RSP] = Caller(RSP) THEN Value(reg[RAX]) ELSE Lost
      /\ phase' = "done"
      /\ UNCHANGED <<line, emitted, rip, reg, xmm, number>>
  BY <1>4, RetStep
<1> QED  BY <1>5 DEF StepReturn

\* How much of the code a move of a field reads.
LEMMA MovsdLength ==
  ASSUME NEW b \in -1 .. 15, NEW off \in 0 .. 255, NEW x \in 0 .. 1, NEW opcode \in 0 .. 255, NEW p \in Nat
  PROVE  p + 4 + Len(PrefixOf(b)) + Len(SibOf(b)) + Len(DispOf(b, off)) = p + Len(Movsd(opcode, x, b, off))
<1>1. MovsdHas(opcode, x, b, off)
  BY MovsdSize
<1>2. Len(PrefixOf(b)) \in Nat /\ Len(SibOf(b)) \in Nat /\ Len(DispOf(b, off)) \in Nat
  <2>1. PartsAre(b, off)
    BY PartTypes
  <2> QED  BY <2>1 DEF PartsAre
<1> QED  BY <1>1, <1>2 DEF MovsdHas

LEMMA LoadsAt ==
  ASSUME Compiled, Processor, rip \in Nat, NEW b \in -1 .. 15, NEW x \in 0 .. 1,
         At(contents, rip, Movsd(16, x, b, offset))
  PROVE  /\ xmm' = [xmm EXCEPT ![x] = Value(reg[Full(b)])]
         /\ rip' = rip + Len(Movsd(16, x, b, offset))
         /\ UNCHANGED <<line, phase, emitted, result, reg, number>>
<1> DEFINE m == 16
<1>1. m \in 0 .. 255 /\ offset \in 0 .. 255 /\ contents \in Strings /\ At(contents, rip, Movsd(m, x, b, offset))
  BY BufferType
<1>2. DecodesMovsd(16, x, b, offset)
  <2> HIDE DEF m
  <2>1. DecodesMovsd(m, x, b, offset)
    BY <1>1, MovsdDecoded
  <2> QED  BY <2>1 DEF m
<1>3. /\ xmm' = [xmm EXCEPT ![x] = Value(reg[Full(b)])]
      /\ rip' = rip + 4 + Len(PrefixOf(b)) + Len(SibOf(b)) + Len(DispOf(b, offset))
      /\ UNCHANGED <<line, phase, emitted, result, reg, number>>
  BY <1>1, <1>2, LoadStep
<1>4. rip + 4 + Len(PrefixOf(b)) + Len(SibOf(b)) + Len(DispOf(b, offset)) = rip + Len(Movsd(16, x, b, offset))
  <2>1. rip + 4 + Len(PrefixOf(b)) + Len(SibOf(b)) + Len(DispOf(b, offset)) = rip + Len(Movsd(m, x, b, offset))
    <3> HIDE DEF m
    <3> QED  BY <1>1, MovsdLength, Zenon
  <2> QED  BY <2>1
<1> QED  BY <1>3, <1>4

LEMMA StoresAt ==
  ASSUME Compiled, Processor, rip \in Nat, NEW b \in -1 .. 15, NEW x \in 0 .. 1,
         At(contents, rip, Movsd(17, x, b, offset))
  PROVE  /\ number' = [number EXCEPT ![reg[Full(b)].value] = xmm[x]]
         /\ rip' = rip + Len(Movsd(17, x, b, offset))
         /\ UNCHANGED <<line, phase, emitted, result, reg, xmm>>
<1> DEFINE m == 17
<1>1. m \in 0 .. 255 /\ offset \in 0 .. 255 /\ contents \in Strings /\ At(contents, rip, Movsd(m, x, b, offset))
  BY BufferType
<1>2. DecodesMovsd(17, x, b, offset)
  <2> HIDE DEF m
  <2>1. DecodesMovsd(m, x, b, offset)
    BY <1>1, MovsdDecoded
  <2> QED  BY <2>1 DEF m
<1>3. /\ number' = [number EXCEPT ![reg[Full(b)].value] = xmm[x]]
      /\ rip' = rip + 4 + Len(PrefixOf(b)) + Len(SibOf(b)) + Len(DispOf(b, offset))
      /\ UNCHANGED <<line, phase, emitted, result, reg, xmm>>
  BY <1>1, <1>2, StoreStep
<1>4. rip + 4 + Len(PrefixOf(b)) + Len(SibOf(b)) + Len(DispOf(b, offset)) = rip + Len(Movsd(17, x, b, offset))
  <2>1. rip + 4 + Len(PrefixOf(b)) + Len(SibOf(b)) + Len(DispOf(b, offset)) = rip + Len(Movsd(m, x, b, offset))
    <3> HIDE DEF m
    <3> QED  BY <1>1, MovsdLength, Zenon
  <2> QED  BY <2>1
<1> QED  BY <1>3, <1>4

LEMMA FirstStep ==
  ASSUME Compiled, Processor, NEW i \in 1 .. Len(code), code[i].op = "binary_op", Ready(i)
  PROVE  StepFirst(i)
<1> DEFINE b == registers[i].inputs[1]
           x == 0
<1>1. Operation(i) /\ Spans(i)
  BY OperationParts, SpanOf
<1>2. /\ b \in -1 .. 15 /\ rip \in Nat /\ x \in 0 .. 1
      /\ At(contents, rip, Movsd(16, x, b, offset)) /\ L1(i) = rip + Len(Movsd(16, x, b, offset))
  <2>1. /\ b \in -1 .. 15 /\ At(contents, Begin(i), Movsd(16, 0, b, offset))
        /\ L1(i) = Begin(i) + Len(Movsd(16, 0, b, offset))
    BY <1>1 DEF Operation
  <2>2. rip = Begin(i) /\ Begin(i) \in Nat
    BY <1>1 DEF Spans, Ready
  <2>3. x \in 0 .. 1
    OBVIOUS
  <2> HIDE DEF b
  <2> QED  BY <2>1, <2>2, <2>3
<1>3. Value(reg[Full(b)]) = In(i, 1)
  BY DEF In
<1> HIDE DEF b, x
<1>4. /\ xmm' = [xmm EXCEPT ![x] = Value(reg[Full(b)])]
      /\ rip' = rip + Len(Movsd(16, x, b, offset))
      /\ UNCHANGED <<line, phase, emitted, result, reg, number>>
  BY <1>2, LoadsAt
<1> QED  BY <1>2, <1>3, <1>4 DEF StepFirst, Same, x

LEMMA SecondStep ==
  ASSUME Compiled, Processor, NEW i \in 1 .. Len(code), code[i].op = "binary_op", FirstIn(i)
  PROVE  StepSecond(i)
<1> DEFINE b == registers[i].inputs[2]
           x == 1
<1>1. Operation(i)
  BY OperationParts
<1>2. /\ b \in -1 .. 15 /\ rip \in Nat /\ x \in 0 .. 1
      /\ At(contents, rip, Movsd(16, x, b, offset)) /\ L2(i) = rip + Len(Movsd(16, x, b, offset))
  <2>1. /\ b \in -1 .. 15 /\ At(contents, L1(i), Movsd(16, 1, b, offset)) /\ L1(i) \in Nat
        /\ L2(i) = L1(i) + Len(Movsd(16, 1, b, offset))
    BY <1>1 DEF Operation
  <2>2. rip = L1(i)
    BY DEF FirstIn
  <2>3. x \in 0 .. 1
    OBVIOUS
  <2> HIDE DEF b
  <2> QED  BY <2>1, <2>2, <2>3
<1>3. Value(reg[Full(b)]) = In(i, 2)
  BY DEF In
<1> HIDE DEF b, x
<1>4. /\ xmm' = [xmm EXCEPT ![x] = Value(reg[Full(b)])]
      /\ rip' = rip + Len(Movsd(16, x, b, offset))
      /\ UNCHANGED <<line, phase, emitted, result, reg, number>>
  BY <1>2, LoadsAt
<1> QED  BY <1>2, <1>3, <1>4 DEF StepSecond, Same, x

LEMMA ArithmeticStep ==
  ASSUME Compiled, Processor, NEW i \in 1 .. Len(code), code[i].op = "binary_op", BothIn(i)
  PROVE  StepArith(i)
<1> DEFINE op == code[i].arg
<1>1. Operation(i) /\ contents \in Strings
  BY OperationParts, BufferType
<1>2. op \in Handled /\ rip \in Nat /\ At(contents, rip, Arith(op)) /\ L3(i) = rip + 4
  BY <1>1 DEF Operation, BothIn
<1> HIDE DEF op
<1>3. DecodesArith(op)
  BY <1>1, <1>2, ArithDecoded
<1>4. /\ xmm' = [xmm EXCEPT ![0] = BinaryOp(op, xmm[0], xmm[1])]
      /\ rip' = rip + 4
      /\ UNCHANGED <<line, phase, emitted, result, reg, number>>
  BY <1>2, <1>3, ArithStep
<1> QED  BY <1>2, <1>4 DEF StepArith, Same, op

LEMMA NamingStep ==
  ASSUME Compiled, Processor, NEW i \in 1 .. Len(code), code[i].op = "binary_op", Computed(i)
  PROVE  StepMov(i)
<1> DEFINE b == registers[i].output
<1>1. Operation(i) /\ contents \in Strings /\ DOMAIN code = 1 .. Len(code)
  BY OperationParts, BufferType
<1>2. b \in -1 .. 15 /\ rip \in Nat /\ At(contents, rip, Mov(b, i)) /\ placed[i] = rip + 10
  BY <1>1 DEF Operation, Computed
<1> HIDE DEF b
<1>3. i \in Nat /\ i \in DOMAIN code /\ DOMAIN code \subseteq Nat
  BY <1>1
<1>4. DecodesMov(b, i)
  BY <1>1, <1>2, <1>3, MovDecoded
<1>5. /\ reg' = [reg EXCEPT ![Full(b)] = Object(i)] /\ rip' = rip + 10
      /\ UNCHANGED <<line, phase, emitted, result, xmm, number>>
  BY <1>2, <1>3, <1>4, MovStep
<1> QED  BY <1>2, <1>5 DEF StepMov, Same, b

LEMMA StoringStep ==
  ASSUME Compiled, Processor, NEW i \in 1 .. Len(code), code[i].op = "binary_op", Named(i)
  PROVE  StepStore(i)
<1> DEFINE b == registers[i].output
           x == 0
<1>1. Operation(i) /\ Spans(i)
  BY OperationParts, SpanOf
<1>2. /\ b \in -1 .. 15 /\ rip \in Nat /\ x \in 0 .. 1
      /\ At(contents, rip, Movsd(17, x, b, offset)) /\ End(i) = rip + Len(Movsd(17, x, b, offset))
  <2>1. /\ b \in -1 .. 15 /\ At(contents, placed[i], Movsd(17, 0, b, offset))
        /\ End(i) = placed[i] + Len(Movsd(17, 0, b, offset))
    BY <1>1 DEF Operation
  <2>2. rip = placed[i] /\ placed[i] \in Nat
    BY <1>1 DEF Spans, Named
  <2>3. x \in 0 .. 1
    OBVIOUS
  <2> HIDE DEF b
  <2> QED  BY <2>1, <2>2, <2>3
<1>3. reg[Full(b)] = Object(i)
  BY DEF Named
<1> HIDE DEF b, x
<1>4. /\ number' = [number EXCEPT ![reg[Full(b)].value] = xmm[x]]
      /\ rip' = rip + Len(Movsd(17, x, b, offset))
      /\ UNCHANGED <<line, phase, emitted, result, reg, xmm>>
  BY <1>2, StoresAt
<1>5. reg[Full(b)].value = i
  BY <1>3 DEF Object
<1> QED  BY <1>2, <1>4, <1>5 DEF StepStore, Same, x

\* The processor does one of these, and stops behind the end.
LEMMA RunSteps ==
  ASSUME LineInv, LayoutInv, RunInv, Processor
  PROVE  \E i \in 1 .. Len(code) : RunStep(i)
<1>1. Compiled
  BY DEF Compiled, RunInv
<1>2. PICK i \in 1 .. Len(code) + 1 : Ready(i) \/ Doing(i)
  BY DEF RunInv
<1>3. Len(code) \in Nat /\ Begin(Len(code) + 1) = Len(contents)
  BY <1>1, BufferType
<1>4. CASE i = Len(code) + 1
  <2>1. Ready(i)
    BY <1>2, <1>3, <1>4 DEF Doing
  <2>2. rip = Len(contents)
    BY <1>3, <1>4, <2>1 DEF Ready
  <2>3. ~ Processor
    BY <2>2, EndDecoded, EndStep
  <2> QED  BY <2>3
<1>5. CASE i \in 1 .. Len(code)
  <2>1. IsPlaced(code[i], registers[i], Handled)
    BY <1>1, <1>5, LineMember DEF Compiled
  <2>2. code[i].op \in {"constant", "binary_op", "store_local", "return"}
    BY <2>1, PlacedKinds
  <2>3. CASE Ready(i)
    <3>1. code[i].op # "store_local"
      BY <1>3, <1>5, <2>3 DEF Ready
    <3>2. CASE code[i].op = "constant"
      BY <1>1, <1>5, <2>3, <3>2, ConstantStep DEF RunStep
    <3>3. CASE code[i].op = "binary_op"
      BY <1>1, <1>5, <2>3, <3>3, FirstStep DEF RunStep
    <3>4. CASE code[i].op = "return"
      BY <1>1, <1>5, <2>3, <3>4, ReturnStep DEF RunStep
    <3> QED  BY <1>5, <2>2, <3>1, <3>2, <3>3, <3>4
  <2>4. CASE Doing(i)
    <3>1. code[i].op = "binary_op" /\ (FirstIn(i) \/ BothIn(i) \/ Computed(i) \/ Named(i))
      BY <2>4 DEF Doing
    <3>2. CASE FirstIn(i)
      BY <1>1, <1>5, <3>1, <3>2, SecondStep DEF RunStep
    <3>3. CASE BothIn(i)
      BY <1>1, <1>5, <3>1, <3>3, ArithmeticStep DEF RunStep
    <3>4. CASE Computed(i)
      BY <1>1, <1>5, <3>1, <3>4, NamingStep DEF RunStep
    <3>5. CASE Named(i)
      BY <1>1, <1>5, <3>1, <3>5, StoringStep DEF RunStep
    <3> QED  BY <1>5, <3>1, <3>2, <3>3, <3>4, <3>5
  <2> QED  BY <1>2, <2>3, <2>4
<1> QED  BY <1>3, <1>4, <1>5
-----------------------------------------------------------------------------
(* The invariant is kept.                                                  *)

\* Instruction c is the next with code behind i, or the end.
Follows(i, c) == /\ c \in i + 1 .. Len(code) + 1 /\ (c <= Len(code) => code[c].op # "store_local")
                 /\ Silent(i, c)

LEMMA FollowerExists ==
  ASSUME Len(code) \in Nat, NEW i \in 1 .. Len(code)
  PROVE  \E c : Follows(i, c)
<1> DEFINE T == {j \in i + 1 .. Len(code) : code[j].op # "store_local"} \cup {Len(code) + 1}
<1>1. T \in SUBSET Nat /\ T # {}
  OBVIOUS
<1>2. PICK c \in T : \A m \in T : c <= m
  BY <1>1, LeastNumber
<1>3. c \in i + 1 .. Len(code) + 1 /\ (c <= Len(code) => code[c].op # "store_local")
  OBVIOUS
<1>4. Silent(i, c)
  <2> SUFFICES ASSUME NEW m \in i + 1 .. c - 1 PROVE code[m].op = "store_local"
    BY DEF Silent
  <2>1. m \in i + 1 .. Len(code) /\ ~ (c <= m)
    BY <1>3
  <2>2. m \notin T
    BY <1>2, <2>1
  <2> QED  BY <2>1, <2>2
<1> QED  BY <1>3, <1>4 DEF Follows

LEMMA EndsAt ==
  ASSUME Compiled, NEW i \in 1 .. Len(code), NEW c, Follows(i, c)
  PROVE  Begin(c) = End(i)
<1>1. LayoutInv /\ next = Len(code) + 1 /\ Len(code) \in Nat
  BY BufferType DEF Compiled
<1>2. i \in 1 .. next - 1 /\ c \in i + 1 .. next /\ Silent(i, c)
  BY <1>1 DEF Follows
<1>3. Apart(i, c)
  BY <1>1, <1>2 DEF LayoutInv
<1> QED  BY <1>2, <1>3 DEF Apart

\* The code and its places stay as they are.
Fixed == /\ code' = code /\ registers' = registers /\ offset' = offset /\ placed' = placed /\ next' = next
         /\ contents' = contents
         /\ \A i : /\ Begin(i)' = Begin(i) /\ End(i)' = End(i)
                   /\ L1(i)' = L1(i) /\ L2(i)' = L2(i) /\ L3(i)' = L3(i)

LEMMA LineFixed ==
  ASSUME LineInv, LayoutInv, UNCHANGED <<line, emitted>>
  PROVE  Fixed /\ LineInv' /\ LayoutInv'
<1>1. /\ code' = code /\ registers' = registers /\ offset' = offset /\ placed' = placed /\ next' = next
      /\ contents' = contents /\ locations' = locations
  BY DEF line, emitted
<1>2. \A i : LoadingOf(i)' = LoadingOf(i) /\ RestOf(i)' = RestOf(i)
  BY <1>1 DEF LoadingOf, RestOf
<1>3. \A i : Begin(i)' = Begin(i) /\ End(i)' = End(i)
  BY <1>1, <1>2 DEF Begin, End
<1>4. \A i : L1(i)' = L1(i) /\ L2(i)' = L2(i) /\ L3(i)' = L3(i)
  BY <1>1, <1>3 DEF L1, L2, L3
<1>5. Fixed
  BY <1>1, <1>3, <1>4 DEF Fixed
<1>6. LineInv'
  BY <1>1 DEF LineInv
<1>7. LayoutInv'
  <2>1. \A i : Piece(i)' <=> Piece(i)
    BY <1>1, <1>2, <1>3 DEF Piece
  <2>2. \A i, j : Apart(i, j)' <=> Apart(i, j)
    <3>1. \A i, j : Silent(i, j)' <=> Silent(i, j)
      BY <1>1 DEF Silent
    <3> QED  BY <1>3, <3>1 DEF Apart
  <2>3. Begin(next)' = Begin(next)
    BY <1>1 DEF Begin, RestOf
  <2> QED  BY <1>1, <2>1, <2>2, <2>3 DEF LayoutInv
<1> QED  BY <1>5, <1>6, <1>7

\* An instruction that is done leaves the processor in front of the next.
LEMMA Arrives ==
  ASSUME Compiled, Fixed, NEW i \in 1 .. Len(code), rip' = End(i), Holds(i)'
  PROVE  \E c \in 1 .. Len(code) + 1 : Ready(c)'
<1>1. Len(code) \in Nat
  BY BufferType
<1>2. PICK c : Follows(i, c)
  BY <1>1, FollowerExists
<1>3. c \in i + 1 .. Len(code) + 1 /\ (c <= Len(code) => code[c].op # "store_local") /\ Begin(c) = End(i)
  BY <1>2, EndsAt DEF Follows
<1>4. rip' = Begin(c)' /\ (c <= Len(code') => code'[c].op # "store_local")
  BY <1>3 DEF Fixed
<1>5. Holds(c - 1)'
  <2>1. \A m \in 1 .. i : m \in 1 .. c - 1
    BY <1>3
  <2> QED  BY <2>1 DEF Holds
<1>6. Ready(c)'
  BY <1>4, <1>5 DEF Ready
<1>7. c \in 1 .. Len(code) + 1
  BY <1>3
<1> QED  BY <1>6, <1>7

LEMMA HoldsNamed ==
  ASSUME NEW i \in 1 .. Len(code), Holds(i - 1), NEW b \in -1 .. 15, reg' = [reg EXCEPT ![Full(b)] = Object(i)],
         code' = code, Len(code) \in Nat
  PROVE  Holds(i)' /\ reg'[Full(b)] = Object(i)
<1>1. Full(b) \in 0 .. 15 /\ DOMAIN reg = 0 .. 15
  BY FullType DEF Holds
<1>2. reg'[Full(b)] = Object(i) /\ DOMAIN reg' = 0 .. 15
  BY <1>1
<1>3. ASSUME NEW r \in 0 .. 15 PROVE reg'[r] = Caller(r) \/ \E m \in 1 .. i : m <= Len(code') /\ reg'[r] = Object(m)
  <2>1. CASE r = Full(b)
    <3>1. i \in 1 .. i /\ i <= Len(code')
      OBVIOUS
    <3> QED  BY <1>2, <2>1, <3>1
  <2>2. CASE r # Full(b)
    <3>1. reg'[r] = reg[r]
      BY <1>1, <2>2
    <3>2. reg[r] = Caller(r) \/ \E m \in 1 .. i - 1 : m <= Len(code) /\ reg[r] = Object(m)
      BY DEF Holds
    <3>3. \A m \in 1 .. i - 1 : m \in 1 .. i
      OBVIOUS
    <3> QED  BY <3>1, <3>2, <3>3
  <2> QED  BY <2>1, <2>2
<1> QED  BY <1>2, <1>3 DEF Holds

\* While the processor is within the line.
Running == /\ LineInv /\ LayoutInv /\ NumberInv /\ DOMAIN xmm = 0 .. 15 /\ phase = "run" /\ RunInv

LEMMA RunningFacts ==
  ASSUME Running, Same
  PROVE  /\ Compiled /\ Fixed /\ LineInv' /\ LayoutInv' /\ phase' = "run" /\ next' = Len(code') + 1 /\ result' = NotYet
         /\ Len(code) \in Nat
<1>1. UNCHANGED <<line, emitted>> /\ phase' = phase /\ result' = result
  BY DEF Same
<1>2. Compiled /\ next = Len(code) + 1 /\ result = NotYet /\ phase = "run"
  BY DEF Running, RunInv, Compiled
<1>3. Fixed /\ LineInv' /\ LayoutInv'
  BY <1>1, LineFixed DEF Running
<1>4. Len(code) \in Nat
  BY <1>2, BufferType
<1>5. next' = Len(code') + 1
  BY <1>2, <1>3 DEF Fixed
<1> QED  BY <1>1, <1>2, <1>3, <1>4, <1>5

LEMMA StillRuns ==
  ASSUME Running, Same, NumberInv', DOMAIN xmm' = 0 .. 15,
         \E c \in 1 .. Len(code) + 1 : Ready(c)' \/ Doing(c)'
  PROVE  AsmInv'
<1>1. Fixed /\ LineInv' /\ LayoutInv' /\ phase' = "run" /\ next' = Len(code') + 1 /\ result' = NotYet
  BY RunningFacts
<1>2. RunInv'
  <2>1. \E c \in 1 .. Len(code') + 1 : Ready(c)' \/ Doing(c)'
    BY <1>1 DEF Fixed
  <2> QED  BY <1>1, <2>1 DEF RunInv
<1> QED  BY <1>1, <1>2 DEF AsmInv

LEMMA NumbersKept ==
  ASSUME NumberInv, UNCHANGED number, code' = code
  PROVE  NumberInv'
BY DEF NumberInv

LEMMA AfterConstant ==
  ASSUME Running, NEW i \in 1 .. Len(code), StepConstant(i)
  PROVE  AsmInv'
<1>1. Same
  BY DEF StepConstant
<1>2. Compiled /\ Fixed /\ Len(code) \in Nat /\ Spans(i)
  BY <1>1, RunningFacts, SpanOf
<1>3. rip' = End(i)
  BY <1>2 DEF StepConstant, Spans
<1>4. Holds(i)'
  <2> DEFINE b == registers[i].output
  <2>1. Holds(i - 1) /\ b \in -1 .. 15 /\ reg' = [reg EXCEPT ![Full(b)] = Object(i)] /\ code' = code
    BY <1>2 DEF StepConstant, Ready, Fixed
  <2> HIDE DEF b
  <2> QED  BY <1>2, <2>1, HoldsNamed
<1>5. \E c \in 1 .. Len(code) + 1 : Ready(c)'
  BY <1>2, <1>3, <1>4, Arrives
<1>6. NumberInv' /\ DOMAIN xmm' = 0 .. 15
  BY <1>2, NumbersKept DEF Running, StepConstant, Fixed
<1> QED  BY <1>1, <1>5, <1>6, StillRuns

LEMMA AfterFirst ==
  ASSUME Running, NEW i \in 1 .. Len(code), StepFirst(i)
  PROVE  AsmInv'
<1>1. Same
  BY DEF StepFirst
<1>2. Fixed /\ Len(code) \in Nat /\ DOMAIN xmm = 0 .. 15
  BY <1>1, RunningFacts DEF Running
<1>3. /\ code[i].op = "binary_op" /\ Holds(i - 1) /\ xmm' = [xmm EXCEPT ![0] = In(i, 1)] /\ rip' = L1(i)
      /\ reg' = reg /\ number' = number
  BY DEF StepFirst, Ready
<1>4. Holds(i - 1)' /\ In(i, 1)' = In(i, 1)
  BY <1>2, <1>3 DEF Holds, In, Value, Fixed
<1>5. FirstIn(i)'
  BY <1>2, <1>3, <1>4 DEF FirstIn, Fixed
<1>6. Doing(i)'
  BY <1>2, <1>3, <1>5 DEF Doing, Fixed
<1>7. NumberInv' /\ DOMAIN xmm' = 0 .. 15
  BY <1>2, <1>3, NumbersKept DEF Running, Fixed
<1>8. i \in 1 .. Len(code) + 1
  BY <1>2
<1>9. \E c \in 1 .. Len(code) + 1 : Ready(c)' \/ Doing(c)'
  BY <1>6, <1>8
<1> QED  BY <1>1, <1>7, <1>9, StillRuns

LEMMA AfterSecond ==
  ASSUME Running, NEW i \in 1 .. Len(code), StepSecond(i)
  PROVE  AsmInv'
<1>1. Same
  BY DEF StepSecond
<1>2. Fixed /\ Len(code) \in Nat /\ DOMAIN xmm = 0 .. 15
  BY <1>1, RunningFacts DEF Running
<1>3. /\ code[i].op = "binary_op" /\ Holds(i - 1) /\ xmm' = [xmm EXCEPT ![1] = In(i, 2)] /\ rip' = L2(i)
      /\ reg' = reg /\ number' = number /\ xmm[0] = In(i, 1)
  BY DEF StepSecond, FirstIn
<1>4. Holds(i - 1)' /\ In(i, 1)' = In(i, 1) /\ In(i, 2)' = In(i, 2)
  BY <1>2, <1>3 DEF Holds, In, Value, Fixed
<1>5. BothIn(i)'
  BY <1>2, <1>3, <1>4 DEF BothIn, Fixed
<1>6. Doing(i)'
  BY <1>2, <1>3, <1>5 DEF Doing, Fixed
<1>7. NumberInv' /\ DOMAIN xmm' = 0 .. 15
  BY <1>2, <1>3, NumbersKept DEF Running, Fixed
<1>8. i \in 1 .. Len(code) + 1
  BY <1>2
<1>9. \E c \in 1 .. Len(code) + 1 : Ready(c)' \/ Doing(c)'
  BY <1>6, <1>8
<1> QED  BY <1>1, <1>7, <1>9, StillRuns

LEMMA AfterArith ==
  ASSUME Running, NEW i \in 1 .. Len(code), StepArith(i)
  PROVE  AsmInv'
<1>1. Same
  BY DEF StepArith
<1>2. Fixed /\ Len(code) \in Nat /\ DOMAIN xmm = 0 .. 15
  BY <1>1, RunningFacts DEF Running
<1>3. /\ code[i].op = "binary_op" /\ Holds(i - 1) /\ rip' = L3(i)
      /\ xmm' = [xmm EXCEPT ![0] = BinaryOp(code[i].arg, xmm[0], xmm[1])]
      /\ reg' = reg /\ number' = number /\ xmm[0] = In(i, 1) /\ xmm[1] = In(i, 2)
  BY DEF StepArith, BothIn
<1>4. Holds(i - 1)' /\ In(i, 1)' = In(i, 1) /\ In(i, 2)' = In(i, 2)
  BY <1>2, <1>3 DEF Holds, In, Value, Fixed
<1>5. xmm'[0] = BinaryOp(code'[i].arg, In(i, 1)', In(i, 2)')
  BY <1>2, <1>3, <1>4 DEF Fixed
<1>6. Computed(i)'
  BY <1>2, <1>3, <1>4, <1>5 DEF Computed, Fixed
<1>7. Doing(i)'
  BY <1>2, <1>3, <1>6 DEF Doing, Fixed
<1>8. NumberInv' /\ DOMAIN xmm' = 0 .. 15
  BY <1>2, <1>3, NumbersKept DEF Running, Fixed
<1>9. i \in 1 .. Len(code) + 1
  BY <1>2
<1>10. \E c \in 1 .. Len(code) + 1 : Ready(c)' \/ Doing(c)'
  BY <1>7, <1>9
<1> QED  BY <1>1, <1>8, <1>10, StillRuns

LEMMA AfterMov ==
  ASSUME Running, NEW i \in 1 .. Len(code), StepMov(i)
  PROVE  AsmInv'
<1>1. Same
  BY DEF StepMov
<1>2. Fixed /\ Len(code) \in Nat /\ DOMAIN xmm = 0 .. 15
  BY <1>1, RunningFacts DEF Running
<1>3. /\ code[i].op = "binary_op" /\ Holds(i - 1) /\ rip' = placed[i] /\ xmm' = xmm /\ number' = number
      /\ xmm[0] = BinaryOp(code[i].arg, In(i, 1), In(i, 2))
  BY DEF StepMov, Computed
<1>4. Holds(i)' /\ reg'[Full(registers[i].output)] = Object(i)
  <2> DEFINE b == registers[i].output
  <2>1. b \in -1 .. 15 /\ reg' = [reg EXCEPT ![Full(b)] = Object(i)] /\ code' = code
    BY <1>2 DEF StepMov, Fixed
  <2> HIDE DEF b
  <2>2. Holds(i)' /\ reg'[Full(b)] = Object(i)
    BY <1>2, <1>3, <2>1, HoldsNamed
  <2> QED  BY <2>2 DEF b
<1>5. xmm'[0].type = "binary_op"
  BY <1>3 DEF BinaryOp
<1>6. Named(i)'
  BY <1>2, <1>3, <1>4, <1>5 DEF Named, Fixed
<1>7. Doing(i)'
  BY <1>2, <1>3, <1>6 DEF Doing, Fixed
<1>8. NumberInv' /\ DOMAIN xmm' = 0 .. 15
  BY <1>2, <1>3, NumbersKept DEF Running, Fixed
<1>9. i \in 1 .. Len(code) + 1
  BY <1>2
<1>10. \E c \in 1 .. Len(code) + 1 : Ready(c)' \/ Doing(c)'
  BY <1>7, <1>9
<1> QED  BY <1>1, <1>8, <1>10, StillRuns

LEMMA AfterStore ==
  ASSUME Running, NEW i \in 1 .. Len(code), StepStore(i)
  PROVE  AsmInv'
<1>1. Same
  BY DEF StepStore
<1>2. Compiled /\ Fixed /\ Len(code) \in Nat /\ DOMAIN xmm = 0 .. 15
  BY <1>1, RunningFacts DEF Running
<1>3. /\ code[i].op = "binary_op" /\ Holds(i) /\ rip' = End(i) /\ xmm' = xmm /\ reg' = reg
      /\ number' = [number EXCEPT ![i] = xmm[0]] /\ xmm[0].type = "binary_op"
  BY DEF StepStore, Named
<1>4. Holds(i)'
  BY <1>2, <1>3 DEF Holds, Fixed
<1>5. \E c \in 1 .. Len(code) + 1 : Ready(c)'
  BY <1>2, <1>3, <1>4, Arrives
<1>6. NumberInv'
  <2>1. NumberInv /\ code' = code
    BY <1>2 DEF Running, Fixed
  <2> QED  BY <1>3, <2>1 DEF NumberInv
<1> QED  BY <1>1, <1>2, <1>3, <1>5, <1>6, StillRuns

LEMMA AfterReturn ==
  ASSUME Running, NEW i \in 1 .. Len(code), StepReturn(i)
  PROVE  AsmInv'
<1>1. UNCHANGED <<line, emitted>> /\ rip' = rip /\ reg' = reg /\ xmm' = xmm /\ number' = number /\ phase' = "done"
      /\ Ready(i)
  BY DEF StepReturn
<1>2. LineInv /\ LayoutInv /\ NumberInv /\ DOMAIN xmm = 0 .. 15 /\ Compiled
  BY DEF Running, RunInv, Compiled
<1>3. Fixed /\ LineInv' /\ LayoutInv'
  BY <1>1, <1>2, LineFixed
<1>4. Spans(i) /\ Len(code) \in Nat /\ Len(contents) \in Nat
  BY <1>2, SpanOf, BufferType
<1>5. rip' \in 0 .. Len(contents')
  <2>1. Begin(i) \in 0 .. Len(contents)
    BY <1>4 DEF Spans
  <2> QED  BY <1>1, <1>3, <2>1 DEF Ready, Fixed
<1>6. Holds(Len(code))'
  <2>1. Holds(i - 1) /\ code' = code
    BY <1>1, <1>3 DEF Ready, Fixed
  <2>2. \A m \in 1 .. i - 1 : m \in 1 .. Len(code)
    BY <1>4
  <2> QED  BY <1>1, <2>1, <2>2 DEF Holds
<1>7. NumberInv'
  BY <1>1, <1>2, <1>3, NumbersKept DEF Fixed
<1> QED  BY <1>1, <1>2, <1>3, <1>5, <1>6, <1>7 DEF AsmInv, DoneInv

LEMMA StartsRight == Init => AsmInv
<1> SUFFICES ASSUME Init PROVE AsmInv
  OBVIOUS
<1>1. LineInv
  <2>1. PICK l \in Lines : code = l[1] /\ registers = l[2]
    BY DEF Init
  <2>2. IsLine(l[1], l[2], Handled) /\ Offsets \subseteq 0 .. 255
    BY AssemblerAssumption
  <2> QED  BY <2>1, <2>2 DEF Init, LineInv
<1>2. Len(code) \in Nat /\ DOMAIN code = 1 .. Len(code)
  BY <1>1 DEF LineInv, IsLine
<1>3. LayoutInv
  <2>1. placed \in Seq(Nat) /\ Len(placed) = 0 /\ contents = <<>> /\ next = 1
    BY DEF Init
  <2>2. IsContent(contents, Len(code)) /\ Len(contents) = 0
    BY <1>2, <2>1, NoContent
  <2>3. Begin(next) = Len(contents) /\ next \in 1 .. Len(code) + 1
    BY <1>2, <2>1, <2>2 DEF Begin
  <2>4. 1 .. next - 1 = {}
    BY <2>1
  <2> QED  BY <2>1, <2>2, <2>3, <2>4 DEF LayoutInv
<1>4. NumberInv
  <2>1. number = [i \in DOMAIN code |-> IF code[i].op = "constant" THEN Literal(code[i].arg) ELSE Zero]
    BY DEF Init, FirstNumber
  <2>2. ASSUME NEW i \in DOMAIN code
        PROVE  number[i].type \in {"literal", "binary_op"} /\ (code[i].op = "constant" => number[i] = Literal(code[i].arg))
    BY <2>1 DEF Literal, Zero
  <2> QED  BY <2>1, <2>2 DEF NumberInv
<1>5. DOMAIN xmm = 0 .. 15 /\ phase = "compile" /\ CompileInv
  BY DEF Init, CompileInv
<1> QED  BY <1>1, <1>3, <1>4, <1>5 DEF AsmInv

\* While the line is compiled.
Emitting == LineInv /\ LayoutInv /\ NumberInv /\ DOMAIN xmm = 0 .. 15 /\ phase = "compile" /\ CompileInv

LEMMA AfterEmit ==
  ASSUME Emitting, next \in 1 .. Len(code), Appended(next)
  PROVE  AsmInv'
<1>1. /\ UNCHANGED <<line, phase, processor>>
  BY DEF Appended, Emit
<1>2. LayoutInv'
  <2>1. PICK k \in Nat : k = next
    BY DEF Emitting, LayoutInv
  <2>2. Appended(k)
    BY <2>1 DEF Appended, Emit, LoadingOf, RestOf
  <2>3. Lays(k)
    BY <2>1, <2>2 DEF Lays, Emitting
  <2> QED  BY <2>3, EmitKeepsLayout
<1>3. LineInv'
  BY <1>1 DEF Emitting, LineInv, line
<1>4. NumberInv'
  BY <1>1, NumbersKept DEF Emitting, line, processor
<1>5. DOMAIN xmm' = 0 .. 15 /\ phase' = "compile" /\ CompileInv'
  BY <1>1 DEF Emitting, CompileInv, processor
<1> QED  BY <1>2, <1>3, <1>4, <1>5 DEF AsmInv

LEMMA AfterHandler ==
  ASSUME Emitting, constant_compile \/ binary_op_compile \/ store_local_compile \/ return_compile
  PROVE  AsmInv' /\ next \in 1 .. Len(code) /\ UNCHANGED <<line, phase, processor>>
<1>1. next \in 1 .. Len(code)
  <2>1. next <= Len(code)
    BY DEF constant_compile, binary_op_compile, store_local_compile, return_compile, Compiling
  <2>2. next \in 1 .. Len(code) + 1 /\ Len(code) \in Nat
    BY DEF Emitting, LayoutInv, LineInv, IsLine
  <2> QED  BY <2>1, <2>2
<1>2. LineInv
  BY DEF Emitting
<1>3. Appended(next)
  BY <1>1, <1>2, ConstantAppends, BinaryOpAppends, StoreAppends, ReturnAppends
<1>4. UNCHANGED <<line, phase, processor>>
  BY <1>3 DEF Appended, Emit
<1> QED  BY <1>1, <1>3, <1>4, AfterEmit

\* The code is called: the processor is in front of the first instruction.
LEMMA AfterCall ==
  ASSUME Emitting, asm_compile
  PROVE  AsmInv'
<1>1. UNCHANGED <<line, emitted>> /\ UNCHANGED processor /\ phase' = "run" /\ next > Len(code)
  BY DEF asm_compile
<1>2. LineInv /\ LayoutInv /\ NumberInv /\ DOMAIN xmm = 0 .. 15 /\ CompileInv
  BY DEF Emitting
<1>3. Fixed /\ LineInv' /\ LayoutInv'
  BY <1>1, <1>2, LineFixed
<1>4. rip' = rip /\ reg' = reg /\ xmm' = xmm /\ number' = number /\ result' = result
  BY <1>1 DEF processor
<1>5. Len(code) \in Nat /\ DOMAIN code = 1 .. Len(code) /\ next = Len(code) + 1
      /\ (1 \in DOMAIN code => code[1].op # "store_local")
  <2>1. /\ Len(code) \in Nat /\ DOMAIN code = 1 .. Len(code)
        /\ (1 \in DOMAIN code => code[1].op # "store_local")
    BY <1>2 DEF LineInv, IsLine
  <2>2. next \in 1 .. Len(code) + 1
    BY <1>2 DEF LayoutInv
  <2> QED  BY <1>1, <2>1, <2>2
<1>6. Ready(1)'
  <2>1. rip' = Begin(1)'
    BY <1>2, <1>4 DEF CompileInv, Begin
  <2>2. 1 <= Len(code') => code'[1].op # "store_local"
    BY <1>3, <1>5 DEF Fixed
  <2>3. Holds(1 - 1)'
    BY <1>2, <1>4 DEF CompileInv, Holds
  <2> QED  BY <2>1, <2>2, <2>3 DEF Ready
<1>7. RunInv'
  <2>1. next' = Len(code') + 1 /\ result' = NotYet /\ 1 \in 1 .. Len(code') + 1
    BY <1>2, <1>3, <1>4, <1>5 DEF Fixed, CompileInv
  <2> QED  BY <1>6, <2>1 DEF RunInv
<1>8. NumberInv'
  BY <1>2, <1>3, <1>4, NumbersKept DEF Fixed
<1> QED  BY <1>1, <1>2, <1>3, <1>4, <1>7, <1>8 DEF AsmInv

LEMMA AfterStutter ==
  ASSUME AsmInv, UNCHANGED vars
  PROVE  AsmInv'
<1>1. UNCHANGED <<line, emitted>> /\ phase' = phase /\ rip' = rip /\ reg' = reg /\ xmm' = xmm /\ number' = number
      /\ result' = result
  BY DEF vars, processor
<1>2. LineInv /\ LayoutInv /\ NumberInv
  BY DEF AsmInv
<1>3. Fixed /\ LineInv' /\ LayoutInv'
  BY <1>1, <1>2, LineFixed
<1>4. NumberInv' /\ DOMAIN xmm' = DOMAIN xmm
  BY <1>1, <1>2, <1>3, NumbersKept DEF Fixed
<1>5. CompileInv => CompileInv'
  BY <1>1 DEF CompileInv
<1>6. \A n : Holds(n) => Holds(n)'
  BY <1>1, <1>3 DEF Holds, Fixed
<1>7. DoneInv => DoneInv'
  <2>1. Holds(Len(code)) => Holds(Len(code))'
    BY <1>1, <1>3 DEF Holds, Fixed
  <2> QED  BY <1>1, <1>3, <2>1 DEF DoneInv, Fixed
<1>8. RunInv => RunInv'
  <2>1. \A i, k : In(i, k)' = In(i, k)
    BY <1>1, <1>3 DEF In, Value, Fixed
  <2>2. \A i : Ready(i) => Ready(i)'
    BY <1>1, <1>3, <1>6 DEF Ready, Fixed
  <2>3. \A i : /\ FirstIn(i) => FirstIn(i)'
               /\ BothIn(i) => BothIn(i)'
    BY <1>1, <1>3, <1>6, <2>1 DEF FirstIn, BothIn, Fixed
  <2>4. \A i : Computed(i) => Computed(i)'
    BY <1>1, <1>3, <1>6, <2>1 DEF Computed, Fixed
  <2>5. \A i : Named(i) => Named(i)'
    BY <1>1, <1>3, <1>6 DEF Named, Fixed
  <2>6. \A i : Doing(i) => Doing(i)'
    BY <1>3, <2>3, <2>4, <2>5 DEF Doing, Fixed
  <2> QED  BY <1>1, <1>3, <2>2, <2>6 DEF RunInv, Fixed
<1> QED  BY <1>1, <1>3, <1>4, <1>5, <1>7, <1>8 DEF AsmInv

\* Which of the steps it is.
LEMMA PhaseOfStep ==
  ASSUME AsmInv, Next
  PROVE  \/ Emitting /\ (constant_compile \/ binary_op_compile \/ store_local_compile \/ return_compile)
         \/ Emitting /\ asm_compile
         \/ Running /\ \E i \in 1 .. Len(code) : RunStep(i)
<1>1. CASE Compile
  <2>1. phase = "compile"
    BY <1>1 DEF Compile, constant_compile, binary_op_compile, store_local_compile, return_compile, asm_compile, Compiling
  <2>2. Emitting
    BY <2>1 DEF AsmInv, Emitting
  <2> QED  BY <1>1, <2>2 DEF Compile
<1>2. CASE Processor
  <2>1. phase = "run"
    BY <1>2 DEF Processor, movsd_load, movsd_store, arith, mov_imm64, ret, IsSse
  <2>2. Running
    BY <2>1 DEF AsmInv, Running
  <2> QED  BY <1>2, <2>2, RunSteps DEF Running
<1> QED  BY <1>1, <1>2 DEF Next

LEMMA AfterRunStep ==
  ASSUME Running, NEW i \in 1 .. Len(code), RunStep(i)
  PROVE  AsmInv'
BY AfterConstant, AfterFirst, AfterSecond, AfterArith, AfterMov, AfterStore, AfterReturn DEF RunStep

LEMMA StaysRight == AsmInv /\ [Next]_vars => AsmInv'
<1> SUFFICES ASSUME AsmInv, [Next]_vars PROVE AsmInv'
  OBVIOUS
<1>1. CASE UNCHANGED vars
  BY <1>1, AfterStutter
<1>2. CASE Next
  BY <1>2, PhaseOfStep, AfterHandler, AfterCall, AfterRunStep
<1> QED  BY <1>1, <1>2

(* asm_get_code takes what the handlers appended as it stands: the code of *)
(* each instruction follows that of the one before it, a store_local has   *)
(* none, an output is loaded last, and when the buffer is called the       *)
(* processor is always in front of one of the machine instructions meant,  *)
(* never within the bytes of one (graph_compile of codegen.c, the emitters *)
(* of asm.h and x64/asm.c).                                                *)
THEOREM CodeIsInOrder == Spec => []AsmInv
<1>1. Init => AsmInv
  BY StartsRight
<1>2. AsmInv /\ [Next]_vars => AsmInv'
  BY StaysRight
<1> QED  BY <1>1, <1>2, PTL DEF Spec

LEMMA HoldsType ==
  ASSUME Len(code) \in Nat, DOMAIN code = 1 .. Len(code), NEW n, Holds(n)
  PROVE  \A r \in DOMAIN reg : reg[r] = Caller(r) \/ reg[r] \in {Object(i) : i \in DOMAIN code}
<1> SUFFICES ASSUME NEW r \in 0 .. 15 PROVE reg[r] = Caller(r) \/ reg[r] \in {Object(i) : i \in DOMAIN code}
  BY DEF Holds
<1>1. reg[r] = Caller(r) \/ \E m \in 1 .. n : m <= Len(code) /\ reg[r] = Object(m)
  BY DEF Holds
<1>2. ASSUME NEW m \in 1 .. n, m <= Len(code) PROVE m \in DOMAIN code
  BY <1>2
<1> QED  BY <1>1, <1>2

LEMMA TypesFollow == AsmInv => TypeOK
<1> SUFFICES ASSUME AsmInv PROVE TypeOK
  OBVIOUS
<1>1. LineInv /\ LayoutInv
  BY DEF AsmInv
<1>2. Len(code) \in Nat /\ DOMAIN code = 1 .. Len(code)
  BY <1>1 DEF LineInv, IsLine
<1>3. next \in 1 .. Len(code) + 1 /\ Len(placed) = next - 1
  BY <1>1 DEF LayoutInv
<1>4. contents \in Strings /\ \A k \in 1 .. Len(contents) : contents[k] \in 0 .. 255 \cup 264 .. 8 * Len(code) + 263
  BY <1>1 DEF LayoutInv, IsContent, Content
<1>5. DOMAIN contents = 1 .. Len(contents) /\ Len(contents) \in Nat
  BY <1>4, LenProperties DEF Strings
<1>6. rip \in 0 .. Len(contents) /\ \A r \in DOMAIN reg : reg[r] = Caller(r) \/ reg[r] \in {Object(i) : i \in DOMAIN code}
  <2>1. CASE CompileInv
    BY <1>5, <2>1 DEF CompileInv
  <2>2. CASE RunInv
    <3>1. Compiled
      BY <1>1, <2>2 DEF Compiled, RunInv
    <3>2. PICK i \in 1 .. Len(code) + 1 : Ready(i) \/ Doing(i)
      BY <2>2 DEF RunInv
    <3>3. CASE i \in 1 .. Len(code)
      <4>1. Spans(i) /\ (code[i].op = "binary_op" => Operation(i))
        BY <3>1, <3>3, SpanOf, OperationParts
      <4>2. Begin(i) \in 0 .. Len(contents) /\ placed[i] \in 0 .. Len(contents)
        BY <1>5, <4>1 DEF Spans
      <4>3. Ready(i) => rip \in 0 .. Len(contents) /\ Holds(i - 1)
        BY <4>2 DEF Ready
      <4>4. Doing(i) => rip \in 0 .. Len(contents) /\ (Holds(i - 1) \/ Holds(i))
        <5>1. SUFFICES ASSUME Doing(i) PROVE rip \in 0 .. Len(contents) /\ (Holds(i - 1) \/ Holds(i))
          OBVIOUS
        <5>2. Operation(i)
          BY <4>1, <5>1 DEF Doing
        <5>3. L1(i) \in 0 .. Len(contents) /\ L2(i) \in 0 .. Len(contents) /\ L3(i) \in 0 .. Len(contents)
          <6>1. /\ L1(i) \in Nat /\ L2(i) \in Nat /\ L3(i) \in Nat
                /\ L1(i) < L2(i) /\ L3(i) = L2(i) + 4 /\ placed[i] = L3(i) + 10
            BY <5>2 DEF Operation
          <6> QED  BY <1>5, <4>2, <6>1
        <5> QED  BY <4>2, <5>1, <5>3 DEF Doing, FirstIn, BothIn, Computed, Named
      <4> QED  BY <1>2, <3>2, <4>3, <4>4, HoldsType
    <3>4. CASE i = Len(code) + 1
      <4>1. Ready(i)
        BY <1>2, <3>2, <3>4 DEF Doing
      <4>2. rip = Len(contents)
        BY <3>1, <3>4, <4>1, BufferType DEF Ready
      <4>3. Holds(i - 1)
        BY <4>1 DEF Ready
      <4> QED  BY <1>2, <1>5, <4>2, <4>3, HoldsType
    <3> QED  BY <1>2, <3>3, <3>4
  <2>3. CASE DoneInv
    <3>1. rip \in 0 .. Len(contents) /\ Holds(Len(code))
      BY <2>3 DEF DoneInv
    <3> QED  BY <1>2, <3>1, HoldsType
  <2> QED  BY <2>1, <2>2, <2>3 DEF AsmInv
<1> QED  BY <1>3, <1>4, <1>5, <1>6, ZenonT(60) DEF TypeOK

(* What is appended to the buffer are bytes and places of objects, and a   *)
(* register that the code has written holds an object of the line, whose   *)
(* number the next instruction can read.                                   *)
THEOREM TypeCorrect == Spec => []TypeOK
<1>1. AsmInv => TypeOK
  BY TypesFollow
<1> QED  BY <1>1, CodeIsInOrder, PTL
-----------------------------------------------------------------------------
(* The refinement.                                                         *)

\* The instruction that comes next, when placed is pl and the processor is at p.
NextIpOf(pl, p) == Min({i \in DOMAIN code : code[i].op # "store_local" /\ ~ (Len(pl) = Len(code) /\ p >= pl[i])}
                         \cup {Len(code) + 1})

LEMMA NextIpIs == NextIp = NextIpOf(placed, rip)
BY DEF NextIp, NextIpOf, Executed

LEMMA NextIpThen == code' = code => NextIp' = NextIpOf(placed', rip')
BY DEF NextIp, NextIpOf, Executed

LEMMA MinIs ==
  ASSUME NEW S \in SUBSET Int, NEW c \in S, \A m \in S : c <= m
  PROVE  Min(S) = c /\ Abstract!Min(S) = c
<1>1. \A m \in S : (\A k \in S : m <= k) => m = c
  <2>1. ASSUME NEW m \in S, \A k \in S : m <= k PROVE m = c
    <3>1. m <= c /\ c <= m /\ m \in Int /\ c \in Int
      BY <2>1
    <3> QED  BY <3>1
  <2> QED  BY <2>1
<1> QED  BY <1>1 DEF Min, Abstract!Min

LEMMA IpAt ==
  ASSUME Len(code) \in Nat, DOMAIN code = 1 .. Len(code), NEW pl, NEW p, NEW c \in 1 .. Len(code) + 1,
         c <= Len(code) => code[c].op # "store_local" /\ ~ (Len(pl) = Len(code) /\ p >= pl[c]),
         \A m \in 1 .. c - 1 : code[m].op # "store_local" => Len(pl) = Len(code) /\ p >= pl[m]
  PROVE  NextIpOf(pl, p) = c
<1> DEFINE S == {i \in DOMAIN code : code[i].op # "store_local" /\ ~ (Len(pl) = Len(code) /\ p >= pl[i])}
                  \cup {Len(code) + 1}
<1>1. S \in SUBSET Int
  OBVIOUS
<1>2. c \in S
  OBVIOUS
<1>3. ASSUME NEW m \in S PROVE c <= m
  <2>1. CASE m = Len(code) + 1
    BY <2>1
  <2>2. CASE m \in DOMAIN code /\ code[m].op # "store_local" /\ ~ (Len(pl) = Len(code) /\ p >= pl[m])
    <3>1. m \notin 1 .. c - 1
      BY <2>2
    <3> QED  BY <2>2, <3>1
  <2> QED  BY <2>1, <2>2
<1> HIDE DEF S
<1>4. Min(S) = c
  BY <1>1, <1>2, <1>3, MinIs
<1> QED  BY <1>4 DEF S, NextIpOf

\* Instructions come one behind the other.
LEMMA InOrder ==
  ASSUME Compiled, NEW i \in 1 .. Len(code), NEW j \in i + 1 .. Len(code) + 1
  PROVE  End(i) <= Begin(j)
<1>1. LayoutInv /\ next = Len(code) + 1 /\ Len(code) \in Nat
  BY BufferType DEF Compiled
<1>2. Apart(i, j)
  BY <1>1 DEF LayoutInv
<1> QED  BY <1>2 DEF Apart

LEMMA PlacedAll ==
  ASSUME Compiled
  PROVE  Len(placed) = Len(code)
<1>1. Len(placed) = next - 1 /\ next = Len(code) + 1 /\ Len(code) \in Nat
  BY BufferType DEF Compiled, LayoutInv
<1> QED  BY <1>1

\* Within an instruction, before its output is loaded.
LEMMA IpWithin ==
  ASSUME Compiled, NEW i \in 1 .. Len(code), code[i].op # "store_local",
         NEW p \in Int, Begin(i) <= p, p < placed[i]
  PROVE  NextIpOf(placed, p) = i
<1>1. Len(code) \in Nat /\ DOMAIN code = 1 .. Len(code) /\ Len(placed) = Len(code) /\ Spans(i)
  BY BufferType, PlacedAll, SpanOf
<1>2. ASSUME NEW m \in 1 .. i - 1 PROVE p >= placed[m]
  <2>1. m \in 1 .. Len(code) /\ i \in m + 1 .. Len(code) + 1
    BY <1>1
  <2>2. Spans(m) /\ End(m) <= Begin(i)
    BY <2>1, SpanOf, InOrder
  <2>3. placed[m] <= End(m) /\ placed[m] \in Nat /\ End(m) \in Nat /\ Begin(i) \in Nat
    BY <1>1, <2>2 DEF Spans
  <2> QED  BY <2>2, <2>3
<1>3. ~ (p >= placed[i])
  BY <1>1 DEF Spans
<1>4. i \in 1 .. Len(code) + 1
  BY <1>1
<1> QED  BY <1>1, <1>2, <1>3, <1>4, IpAt

\* When its output is loaded, or its code is done.
LEMMA IpBehind ==
  ASSUME Compiled, NEW i \in 1 .. Len(code), NEW c, Follows(i, c), NEW p \in Int, placed[i] <= p, p <= End(i)
  PROVE  NextIpOf(placed, p) = c
<1>1. Len(code) \in Nat /\ DOMAIN code = 1 .. Len(code) /\ Len(placed) = Len(code) /\ Spans(i)
  BY BufferType, PlacedAll, SpanOf
<1>2. c \in i + 1 .. Len(code) + 1 /\ (c <= Len(code) => code[c].op # "store_local") /\ Silent(i, c) /\ Begin(c) = End(i)
  BY EndsAt DEF Follows
<1>3. ASSUME NEW m \in 1 .. c - 1, code[m].op # "store_local" PROVE p >= placed[m]
  <2>1. m \notin i + 1 .. c - 1
    BY <1>2, <1>3 DEF Silent
  <2>2. m \in 1 .. i
    BY <1>2, <2>1
  <2>3. CASE m = i
    BY <1>1, <2>3 DEF Spans
  <2>4. CASE m # i
    <3>1. m \in 1 .. Len(code) /\ i \in m + 1 .. Len(code) + 1
      BY <1>1, <2>2, <2>4
    <3>2. Spans(m) /\ End(m) <= Begin(i)
      BY <3>1, SpanOf, InOrder
    <3>3. placed[m] <= End(m) /\ placed[m] \in Nat /\ End(m) \in Nat /\ Begin(i) \in Nat /\ Begin(i) <= placed[i] /\ placed[i] \in Nat
      BY <1>1, <3>2 DEF Spans
    <3> QED  BY <3>2, <3>3
  <2> QED  BY <2>3, <2>4
<1>4. ASSUME c <= Len(code) PROVE ~ (p >= placed[c])
  <2>1. c \in 1 .. Len(code)
    BY <1>1, <1>2, <1>4
  <2>2. Spans(c)
    BY <2>1, SpanOf
  <2>3. Begin(c) < placed[c] /\ placed[c] \in Nat /\ Begin(c) \in Nat
    BY <1>2, <1>4, <2>2 DEF Spans
  <2> QED  BY <1>2, <2>3
<1>5. c \in 1 .. Len(code) + 1
  BY <1>2
<1> QED  BY <1>1, <1>2, <1>3, <1>4, <1>5, IpAt

LEMMA AfterIs ==
  ASSUME Len(code) \in Nat, NEW i \in 1 .. Len(code), NEW c, Follows(i, c)
  PROVE  Abstract!After(i) = c
<1> DEFINE S == {j \in i + 1 .. Len(code) : Abstract!HasCode(j)} \cup {Len(code) + 1}
<1>1. c \in i + 1 .. Len(code) + 1 /\ (c <= Len(code) => code[c].op # "store_local") /\ Silent(i, c)
  BY DEF Follows
<1>2. S \in SUBSET Int
  OBVIOUS
<1>3. c \in S
  BY <1>1 DEF Abstract!HasCode
<1>4. ASSUME NEW m \in S PROVE c <= m
  <2>1. CASE m = Len(code) + 1
    BY <1>1, <2>1
  <2>2. CASE m \in i + 1 .. Len(code) /\ code[m].op # "store_local"
    <3>1. m \notin i + 1 .. c - 1
      BY <1>1, <2>2 DEF Silent
    <3> QED  BY <1>1, <2>2, <3>1
  <2> QED  BY <2>1, <2>2 DEF Abstract!HasCode
<1> HIDE DEF S
<1>5. Abstract!Min(S) = c
  BY <1>2, <1>3, <1>4, MinIs
<1> QED  BY <1>5 DEF S, Abstract!After

\* The registers as Machine sees them.
Plain(v, nu) == IF v.type = "object" THEN nu[v.value] ELSE v
AbsVal(v, p, nu, x) == IF v.type = "object" /\ code[v.value].op = "binary_op" /\ p = placed[v.value] THEN x
                       ELSE Plain(v, nu)
AbsReg == [r \in DOMAIN reg |-> IF phase = "run" /\ Pending(reg[r]) THEN xmm[XMM0] ELSE Value(reg[r])]
AbsPhase == IF phase = "done" THEN "done" ELSE "assigned"

LEMMA RegNow ==
  /\ phase = "run" => AbsReg = [r \in DOMAIN reg |-> AbsVal(reg[r], rip, number, xmm[0])]
  /\ phase # "run" => AbsReg = [r \in DOMAIN reg |-> Plain(reg[r], number)]
BY DEF AbsReg, AbsVal, Plain, Pending, Value, XMM0

LEMMA RegThen ==
  ASSUME code' = code, placed' = placed
  PROVE  /\ phase' = "run" => AbsReg' = [r \in DOMAIN reg' |-> AbsVal(reg'[r], rip', number', xmm'[0])]
         /\ phase' # "run" => AbsReg' = [r \in DOMAIN reg' |-> Plain(reg'[r], number')]
BY DEF AbsReg, AbsVal, Plain, Pending, Value, XMM0

HoldsAt(g, n) == /\ DOMAIN g = 0 .. 15
                 /\ \A r \in 0 .. 15 : g[r] = Caller(r) \/ \E m \in 1 .. n : m <= Len(code) /\ g[r] = Object(m)

LEMMA HoldsNow == \A n : Holds(n) <=> HoldsAt(reg, n)
BY DEF Holds, HoldsAt

\* No operation's store comes next at p, among the first n instructions.
Quiet(n, p) == \A m \in 1 .. n : m <= Len(code) /\ code[m].op = "binary_op" => p # placed[m]

LEMMA QuietValue ==
  ASSUME NEW g, NEW n, HoldsAt(g, n), NEW p, Quiet(n, p), NEW r \in 0 .. 15, NEW nu, NEW x
  PROVE  AbsVal(g[r], p, nu, x) = Plain(g[r], nu)
<1>1. CASE g[r] = Caller(r)
  BY <1>1 DEF AbsVal, Caller
<1>2. CASE \E m \in 1 .. n : m <= Len(code) /\ g[r] = Object(m)
  <2>1. PICK m \in 1 .. n : m <= Len(code) /\ g[r] = Object(m)
    BY <1>2
  <2>2. g[r].value = m
    BY <2>1 DEF Object
  <2>3. ~ (code[m].op = "binary_op" /\ p = placed[m])
    BY <2>1 DEF Quiet
  <2> QED  BY <2>2, <2>3 DEF AbsVal
<1> QED  BY <1>1, <1>2 DEF HoldsAt

LEMMA QuietBelow ==
  ASSUME Compiled, NEW i \in 1 .. Len(code) + 1, NEW p \in Int, Begin(i) <= p, Begin(i) \in Nat
  PROVE  Quiet(i - 1, p)
<1> SUFFICES ASSUME NEW m \in 1 .. i - 1, m <= Len(code), code[m].op = "binary_op"
             PROVE  p # placed[m]
  BY DEF Quiet
<1>1. Len(code) \in Nat
  BY BufferType
<1>2. m \in 1 .. Len(code) /\ i \in m + 1 .. Len(code) + 1
  BY <1>1
<1>3. Spans(m) /\ End(m) <= Begin(i)
  BY <1>2, SpanOf, InOrder
<1>4. placed[m] < End(m) /\ placed[m] \in Nat /\ End(m) \in Nat
  BY <1>3 DEF Spans
<1> QED  BY <1>3, <1>4

LEMMA QuietEnd ==
  ASSUME Compiled, NEW i \in 1 .. Len(code)
  PROVE  Quiet(i, End(i)) /\ (code[i].op # "binary_op" => Quiet(i, placed[i]))
<1>1. Spans(i) /\ Len(code) \in Nat /\ i \in 1 .. Len(code) + 1
  BY SpanOf, BufferType
<1>2. /\ Begin(i) \in Nat /\ placed[i] \in Int /\ End(i) \in Int /\ Begin(i) <= placed[i] /\ Begin(i) <= End(i)
      /\ code[i].op = "binary_op" => End(i) # placed[i]
  BY <1>1 DEF Spans
<1>3. Quiet(i - 1, placed[i])
  BY <1>1, <1>2, QuietBelow
<1>4. Quiet(i - 1, End(i))
  <2> DEFINE p == End(i)
  <2>1. p \in Int /\ Begin(i) <= p
    BY <1>2
  <2> HIDE DEF p
  <2>2. Quiet(i - 1, p)
    BY <1>1, <1>2, <2>1, QuietBelow
  <2> QED  BY <2>2 DEF p
<1>5. \A m \in 1 .. i : m \in 1 .. i - 1 \/ m = i
  OBVIOUS
<1>6. Quiet(i, End(i))
  BY <1>2, <1>4, <1>5 DEF Quiet
<1>7. code[i].op # "binary_op" => Quiet(i, placed[i])
  BY <1>3, <1>5 DEF Quiet
<1> QED  BY <1>6, <1>7

\* Between two stores Machine's registers are what memory says of the objects.
Settled(n) == phase = "run" /\ Holds(n) /\ Quiet(n, rip)

LEMMA SettledNow ==
  ASSUME NEW n, Settled(n)
  PROVE  AbsReg = [r \in 0 .. 15 |-> Plain(reg[r], number)]
<1>1. HoldsAt(reg, n) /\ Quiet(n, rip) /\ phase = "run" /\ DOMAIN reg = 0 .. 15
  BY HoldsNow DEF Settled, Holds
<1>2. \A r \in 0 .. 15 : AbsVal(reg[r], rip, number, xmm[0]) = Plain(reg[r], number)
  BY <1>1, QuietValue
<1>3. AbsReg = [r \in 0 .. 15 |-> AbsVal(reg[r], rip, number, xmm[0])]
  BY <1>1, RegNow
<1> QED  BY <1>2, <1>3

LEMMA SettledThen ==
  ASSUME NEW n, phase' = "run", Holds(n)', code' = code, placed' = placed, Quiet(n, rip')
  PROVE  AbsReg' = [r \in 0 .. 15 |-> Plain(reg'[r], number')]
<1>1. HoldsAt(reg', n) /\ DOMAIN reg' = 0 .. 15
  BY DEF Holds, HoldsAt
<1> DEFINE g == reg'
           p == rip'
           nu == number'
           x == xmm'[0]
<1>2. HoldsAt(g, n) /\ Quiet(n, p)
  BY <1>1
<1>3. \A r \in 0 .. 15 : AbsVal(g[r], p, nu, x) = Plain(g[r], nu)
  <2> HIDE DEF g, p, nu, x
  <2> QED  BY <1>2, QuietValue
<1>4. AbsReg' = [r \in 0 .. 15 |-> AbsVal(g[r], p, nu, x)]
  BY <1>1, RegThen
<1> QED  BY <1>3, <1>4

LEMMA StutterMaps ==
  ASSUME code' = code, registers' = registers, AbsPhase' = AbsPhase, NextIp' = NextIp, AbsReg' = AbsReg,
         result' = result
  PROVE  UNCHANGED Abstract!vars
BY DEF Abstract!vars, Abstract!machine, AbsReg, AbsPhase

LEMMA EncodedIs ==
  ASSUME NEW b \in -1 .. 15
  PROVE  Abstract!Encoded(b) = Full(b)
<1>1. CASE ~ (0 <= b)
  <2>1. b % 8 = 7 /\ b = -1
    <3>1. b % 8 = 7
      BY <1>1
    <3>2. b = -1
      BY <1>1
    <3> QED  BY <3>1, <3>2
  <2> QED  BY <2>1 DEF Abstract!Encoded, Abstract!RDI, Full, High
<1>2. CASE b \in 0 .. 7
  <2>1. b % 8 = b
    BY <1>2
  <2> QED  BY <1>2, <2>1 DEF Abstract!Encoded, Full, High
<1>3. CASE b \in 8 .. 15
  <2>1. b % 8 = b - 8
    BY <1>3
  <2> QED  BY <1>3, <2>1 DEF Abstract!Encoded, Full, High
<1>4. ~ (0 <= b) \/ b \in 0 .. 7 \/ b \in 8 .. 15
  OBVIOUS
<1> QED  BY <1>1, <1>2, <1>3, <1>4

LEMMA ConstantMaps ==
  ASSUME NEW i \in 1 .. Len(code), Len(code) \in Nat, phase = "run", phase' = "run", code[i].op = "constant",
         NextIp = i, NextIp' = Abstract!After(i), registers[i].output \in -1 .. 15,
         AbsReg' = [AbsReg EXCEPT ![Full(registers[i].output)] = Literal(code[i].arg)],
         code' = code, registers' = registers, result' = result
  PROVE  Abstract!Next
<1>1. Abstract!Encoded(registers[i].output) = Full(registers[i].output)
  <2> DEFINE b == registers[i].output
  <2>1. b \in -1 .. 15
    OBVIOUS
  <2> HIDE DEF b
  <2>2. Abstract!Encoded(b) = Full(b)
    BY <2>1, EncodedIs
  <2> QED  BY <2>2 DEF b
<1>2. Abstract!SetOutput(Literal(code[i].arg))
  BY <1>1 DEF Abstract!SetOutput, AbsReg
<1>3. Abstract!Literal(code[i].arg) = Literal(code[i].arg)
  BY DEF Abstract!Literal, Literal
<1>4. Abstract!Running("constant")
  BY DEF Abstract!Running
<1>5. Abstract!constant_compile
  BY <1>2, <1>3, <1>4 DEF Abstract!constant_compile
<1> QED  BY <1>5 DEF Abstract!Next

LEMMA BinaryOpMaps ==
  ASSUME NEW i \in 1 .. Len(code), Len(code) \in Nat, phase = "run", phase' = "run", code[i].op = "binary_op",
         NextIp = i, NextIp' = Abstract!After(i), registers[i].output \in -1 .. 15,
         registers[i].inputs[1] \in -1 .. 15, registers[i].inputs[2] \in -1 .. 15,
         AbsReg' = [AbsReg EXCEPT ![Full(registers[i].output)] =
                      BinaryOp(code[i].arg, AbsReg[Full(registers[i].inputs[1])], AbsReg[Full(registers[i].inputs[2])])],
         code' = code, registers' = registers, result' = result
  PROVE  Abstract!Next
<1>1. ASSUME NEW b, b \in -1 .. 15 PROVE Abstract!Encoded(b) = Full(b)
  BY <1>1, EncodedIs
<1>2. /\ Abstract!Encoded(registers[i].output) = Full(registers[i].output)
      /\ Abstract!Encoded(registers[i].inputs[1]) = Full(registers[i].inputs[1])
      /\ Abstract!Encoded(registers[i].inputs[2]) = Full(registers[i].inputs[2])
  BY <1>1
<1> DEFINE v == BinaryOp(code[i].arg, AbsReg[Full(registers[i].inputs[1])], AbsReg[Full(registers[i].inputs[2])])
<1>3. Abstract!In(1) = AbsReg[Full(registers[i].inputs[1])] /\ Abstract!In(2) = AbsReg[Full(registers[i].inputs[2])]
  BY <1>2 DEF Abstract!In, AbsReg
<1>4. Abstract!BinaryOp(code[i].arg, Abstract!In(1), Abstract!In(2)) = v
  BY <1>3 DEF Abstract!BinaryOp, BinaryOp
<1>5. Abstract!SetOutput(v)
  <2>1. AbsReg' = [AbsReg EXCEPT ![Abstract!Encoded(registers[i].output)] = v]
    BY <1>2
  <2> HIDE DEF v
  <2> QED  BY <2>1 DEF Abstract!SetOutput, AbsReg
<1> HIDE DEF v
<1>6. Abstract!SetOutput(Abstract!BinaryOp(code[NextIp].arg, Abstract!In(1), Abstract!In(2)))
  BY <1>4, <1>5
<1>7. Abstract!Running("binary_op")
  BY DEF Abstract!Running
<1>8. Abstract!binary_op_compile
  BY <1>6, <1>7 DEF Abstract!binary_op_compile
<1> QED  BY <1>8 DEF Abstract!Next

LEMMA ReturnMaps ==
  ASSUME NEW i \in 1 .. Len(code), Len(code) \in Nat, phase = "run", phase' = "done", code[i].op = "return",
         NextIp = i, NextIp' = i, AbsReg' = AbsReg,
         result' = IF AbsReg[RSP] = Caller(RSP) THEN AbsReg[RAX] ELSE Lost,
         code' = code, registers' = registers
  PROVE  Abstract!Next
<1>1. Abstract!Running("return")
  BY DEF Abstract!Running
<1>2. Abstract!Caller(Abstract!RSP) = Caller(RSP) /\ Abstract!RSP = RSP /\ Abstract!RAX = RAX /\ Abstract!Lost = Lost
  BY DEF Abstract!Caller, Caller, Abstract!RSP, RSP, Abstract!RAX, RAX, Abstract!Lost, Lost
<1>3. Abstract!return_compile
  BY <1>1, <1>2 DEF Abstract!return_compile, AbsReg
<1> QED  BY <1>3 DEF Abstract!Next

\* Every step of the program is a step of Machine, or none.
Maps == Abstract!Next \/ UNCHANGED Abstract!vars

\* A step within an operation, before its output is loaded.
LEMMA WithinMaps ==
  ASSUME Running, Same, NEW i \in 1 .. Len(code), code[i].op = "binary_op", Holds(i - 1),
         Begin(i) <= rip, rip < placed[i], rip \in Nat, Begin(i) <= rip', rip' < placed[i], rip' \in Nat,
         reg' = reg, number' = number
  PROVE  Maps
<1>1. Compiled /\ Fixed /\ phase' = "run" /\ Len(code) \in Nat /\ phase = "run" /\ Spans(i)
  BY RunningFacts, SpanOf DEF Running
<1>2. code' = code /\ registers' = registers /\ placed' = placed /\ result' = result /\ Begin(i) \in Nat
  BY <1>1 DEF Fixed, Same, Spans
<1>3. NextIp = i
  <2>1. NextIpOf(placed, rip) = i
    BY <1>1, IpWithin
  <2> QED  BY <2>1, NextIpIs
<1>4. NextIp' = i
  <2>1. PICK p \in Nat : p = rip'
    OBVIOUS
  <2>2. p \in Int /\ Begin(i) <= p /\ p < placed[i]
    BY <2>1
  <2>3. NextIpOf(placed, p) = i
    BY <1>1, <2>2, IpWithin
  <2> QED  BY <1>2, <2>1, <2>3, NextIpThen
<1>5. Quiet(i - 1, rip) /\ Quiet(i - 1, rip')
  <2>1. i \in 1 .. Len(code) + 1
    BY <1>1
  <2>2. ASSUME NEW p \in Nat, Begin(i) <= p PROVE Quiet(i - 1, p)
    BY <1>1, <1>2, <2>1, <2>2, QuietBelow
  <2> QED  BY <2>2
<1>6. AbsReg = [r \in 0 .. 15 |-> Plain(reg[r], number)]
  BY <1>1, <1>5, SettledNow DEF Settled
<1>7. AbsReg' = [r \in 0 .. 15 |-> Plain(reg'[r], number')]
  <2>1. Holds(i - 1)'
    BY <1>2 DEF Holds
  <2> QED  BY <1>1, <1>2, <1>5, <2>1, SettledThen
<1>8. AbsPhase' = AbsPhase
  BY <1>1 DEF AbsPhase
<1> QED  BY <1>2, <1>3, <1>4, <1>6, <1>7, <1>8, StutterMaps DEF Maps

LEMMA FirstMaps ==
  ASSUME Running, NEW i \in 1 .. Len(code), StepFirst(i)
  PROVE  Maps
<1>1. /\ code[i].op = "binary_op" /\ Holds(i - 1) /\ rip = Begin(i) /\ rip' = L1(i) /\ reg' = reg /\ number' = number
      /\ Same
  BY DEF StepFirst, Ready
<1>2. Spans(i) /\ Operation(i)
  BY <1>1, RunningFacts, SpanOf, OperationParts
<1>3. /\ Begin(i) \in Nat /\ Begin(i) < placed[i] /\ L1(i) \in Nat /\ L2(i) \in Nat /\ L3(i) \in Nat
      /\ Begin(i) < L1(i) /\ L1(i) < L2(i) /\ L3(i) = L2(i) + 4 /\ placed[i] = L3(i) + 10
  BY <1>1, <1>2 DEF Spans, Operation
<1>4. Begin(i) <= rip /\ rip < placed[i] /\ rip \in Nat /\ Begin(i) <= rip' /\ rip' < placed[i] /\ rip' \in Nat
  BY <1>1, <1>3
<1> QED  BY <1>1, <1>4, WithinMaps

LEMMA SecondMaps ==
  ASSUME Running, NEW i \in 1 .. Len(code), StepSecond(i)
  PROVE  Maps
<1>1. /\ code[i].op = "binary_op" /\ Holds(i - 1) /\ rip = L1(i) /\ rip' = L2(i) /\ reg' = reg /\ number' = number
      /\ Same
  BY DEF StepSecond, FirstIn
<1>2. Spans(i) /\ Operation(i)
  BY <1>1, RunningFacts, SpanOf, OperationParts
<1>3. /\ Begin(i) \in Nat /\ L1(i) \in Nat /\ L2(i) \in Nat /\ L3(i) \in Nat
      /\ Begin(i) < L1(i) /\ L1(i) < L2(i) /\ L3(i) = L2(i) + 4 /\ placed[i] = L3(i) + 10
  BY <1>1, <1>2 DEF Spans, Operation
<1>4. Begin(i) <= rip /\ rip < placed[i] /\ rip \in Nat /\ Begin(i) <= rip' /\ rip' < placed[i] /\ rip' \in Nat
  BY <1>1, <1>3
<1> QED  BY <1>1, <1>4, WithinMaps

LEMMA ArithMaps ==
  ASSUME Running, NEW i \in 1 .. Len(code), StepArith(i)
  PROVE  Maps
<1>1. /\ code[i].op = "binary_op" /\ Holds(i - 1) /\ rip = L2(i) /\ rip' = L3(i) /\ reg' = reg /\ number' = number
      /\ Same
  BY DEF StepArith, BothIn
<1>2. Spans(i) /\ Operation(i)
  BY <1>1, RunningFacts, SpanOf, OperationParts
<1>3. /\ Begin(i) \in Nat /\ L1(i) \in Nat /\ L2(i) \in Nat /\ L3(i) \in Nat
      /\ Begin(i) < L1(i) /\ L1(i) < L2(i) /\ L3(i) = L2(i) + 4 /\ placed[i] = L3(i) + 10
  BY <1>1, <1>2 DEF Spans, Operation
<1>4. Begin(i) <= rip /\ rip < placed[i] /\ rip \in Nat /\ Begin(i) <= rip' /\ rip' < placed[i] /\ rip' \in Nat
  BY <1>1, <1>3
<1> QED  BY <1>1, <1>4, WithinMaps

\* The instruction pointer, when the output of i is loaded or its code is done.
LEMMA IpGoesOn ==
  ASSUME Compiled, Fixed, NEW i \in 1 .. Len(code), rip' = placed[i] \/ rip' = End(i)
  PROVE  NextIp' = Abstract!After(i)
<1>1. Len(code) \in Nat /\ Spans(i) /\ code' = code /\ placed' = placed
  BY BufferType, SpanOf DEF Fixed
<1>2. PICK c : Follows(i, c)
  BY <1>1, FollowerExists
<1>3. Abstract!After(i) = c
  BY <1>1, <1>2, AfterIs
<1>4. PICK p \in Int : p = rip'
  BY <1>1 DEF Spans
<1>5. placed[i] <= p /\ p <= End(i)
  BY <1>1, <1>4 DEF Spans
<1>6. NextIpOf(placed, p) = c
  BY <1>2, <1>5, IpBehind
<1> QED  BY <1>1, <1>3, <1>4, <1>6, NextIpThen

LEMMA ConstantStepMaps ==
  ASSUME Running, NEW i \in 1 .. Len(code), StepConstant(i)
  PROVE  Maps
<1> DEFINE b == registers[i].output
<1>1. /\ code[i].op = "constant" /\ Holds(i - 1) /\ rip = Begin(i) /\ rip' = placed[i] /\ number' = number
      /\ b \in -1 .. 15 /\ reg' = [reg EXCEPT ![Full(b)] = Object(i)] /\ Same
  BY DEF StepConstant, Ready
<1>2. Compiled /\ Fixed /\ phase' = "run" /\ Len(code) \in Nat /\ phase = "run" /\ Spans(i)
  BY <1>1, RunningFacts, SpanOf DEF Running
<1>3. code' = code /\ registers' = registers /\ placed' = placed /\ result' = result
  BY <1>1, <1>2 DEF Fixed, Same
<1>4. NextIp = i
  <2>1. Begin(i) \in Int /\ Begin(i) <= Begin(i) /\ Begin(i) < placed[i]
    BY <1>1, <1>2 DEF Spans
  <2>2. rip \in Int /\ Begin(i) <= rip /\ rip < placed[i]
    BY <1>1, <2>1
  <2>3. NextIpOf(placed, rip) = i
    BY <1>1, <1>2, <2>2, IpWithin
  <2> QED  BY <2>3, NextIpIs
<1>5. NextIp' = Abstract!After(i)
  BY <1>1, <1>2, IpGoesOn
<1>6. Quiet(i - 1, rip) /\ Quiet(i, rip')
  <2>1. i \in 1 .. Len(code) + 1 /\ rip \in Int /\ Begin(i) <= rip /\ Begin(i) \in Nat
    BY <1>1, <1>2 DEF Spans
  <2> QED  BY <1>1, <1>2, <2>1, QuietBelow, QuietEnd
<1>7. AbsReg = [r \in 0 .. 15 |-> Plain(reg[r], number)]
  BY <1>1, <1>2, <1>6, SettledNow DEF Settled
<1>8. AbsReg' = [r \in 0 .. 15 |-> Plain(reg'[r], number)]
  <2>1. Holds(i)'
    <3> HIDE DEF b
    <3> QED  BY <1>1, <1>2, <1>3, HoldsNamed
  <2>2. AbsReg' = [r \in 0 .. 15 |-> Plain(reg'[r], number')]
    BY <1>2, <1>3, <1>6, <2>1, SettledThen
  <2> QED  BY <1>1, <2>2
<1>9. Plain(Object(i), number) = Literal(code[i].arg)
  <2>1. NumberInv /\ i \in DOMAIN code
    BY <1>2, BufferType DEF Running
  <2>2. number[i] = Literal(code[i].arg)
    BY <1>1, <2>1 DEF NumberInv
  <2> QED  BY <2>2 DEF Plain, Object
<1>10. AbsReg' = [AbsReg EXCEPT ![Full(b)] = Literal(code[i].arg)]
  <2>1. Full(b) \in 0 .. 15 /\ DOMAIN reg = 0 .. 15
    BY <1>1, FullType DEF Holds
  <2> HIDE DEF b
  <2>2. ASSUME NEW r \in 0 .. 15 PROVE Plain(reg'[r], number) = [AbsReg EXCEPT ![Full(b)] = Literal(code[i].arg)][r]
    <3>1. CASE r = Full(b)
      <4>1. reg'[r] = Object(i)
        BY <1>1, <2>1, <3>1
      <4> QED  BY <1>7, <1>9, <2>1, <3>1, <4>1
    <3>2. CASE r # Full(b)
      <4>1. reg'[r] = reg[r]
        BY <1>1, <2>1, <3>2
      <4> QED  BY <1>7, <2>1, <3>2, <4>1
    <3> QED  BY <3>1, <3>2
  <2> QED  BY <1>7, <1>8, <2>2
<1> QED  BY <1>1, <1>2, <1>3, <1>4, <1>5, <1>10, ConstantMaps DEF Maps

\* When the number of operation i is computed, Machine has it already.
LEMMA NamedIs ==
  ASSUME Compiled, phase = "run", NEW i \in 1 .. Len(code), code[i].op = "binary_op",
         NEW g, HoldsAt(g, i), NEW nu, NEW x, NEW r \in 0 .. 15
  PROVE  AbsVal(g[r], placed[i], nu, x) = IF g[r] = Object(i) THEN x ELSE Plain(g[r], nu)
<1>1. CASE g[r] = Object(i)
  BY <1>1 DEF AbsVal, Object
<1>2. CASE g[r] # Object(i)
  <2>1. Quiet(i - 1, placed[i])
    <3>1. Spans(i) /\ i \in 1 .. Len(code) + 1
      BY SpanOf, BufferType
    <3>2. placed[i] \in Int /\ Begin(i) <= placed[i] /\ Begin(i) \in Nat
      BY <3>1 DEF Spans
    <3> QED  BY <3>1, <3>2, QuietBelow
  <2>2. g[r] = Caller(r) \/ \E m \in 1 .. i - 1 : m <= Len(code) /\ g[r] = Object(m)
    <3>1. \A m \in 1 .. i : m \in 1 .. i - 1 \/ m = i
      OBVIOUS
    <3> QED  BY <1>2, <3>1 DEF HoldsAt
  <2>3. CASE g[r] = Caller(r)
    BY <1>2, <2>3 DEF AbsVal, Caller
  <2>4. CASE \E m \in 1 .. i - 1 : m <= Len(code) /\ g[r] = Object(m)
    <3>1. PICK m \in 1 .. i - 1 : m <= Len(code) /\ g[r] = Object(m)
      BY <2>4
    <3>2. g[r].value = m
      BY <3>1 DEF Object
    <3>3. ~ (code[m].op = "binary_op" /\ placed[i] = placed[m])
      BY <2>1, <3>1 DEF Quiet
    <3> QED  BY <1>2, <3>2, <3>3 DEF AbsVal
  <2> QED  BY <2>2, <2>3, <2>4
<1> QED  BY <1>1, <1>2

LEMMA MovMaps ==
  ASSUME Running, NEW i \in 1 .. Len(code), StepMov(i)
  PROVE  Maps
<1> DEFINE b == registers[i].output
           v == BinaryOp(code[i].arg, In(i, 1), In(i, 2))
<1>1. /\ code[i].op = "binary_op" /\ Holds(i - 1) /\ rip = L3(i) /\ rip' = placed[i] /\ number' = number /\ xmm' = xmm
      /\ b \in -1 .. 15 /\ reg' = [reg EXCEPT ![Full(b)] = Object(i)] /\ xmm[0] = v /\ Same
  BY DEF StepMov, Computed
<1>2. Compiled /\ Fixed /\ phase' = "run" /\ Len(code) \in Nat /\ phase = "run" /\ Spans(i) /\ Operation(i)
  BY <1>1, RunningFacts, SpanOf, OperationParts DEF Running
<1>3. code' = code /\ registers' = registers /\ placed' = placed /\ result' = result
  BY <1>1, <1>2 DEF Fixed, Same
<1>4. rip \in Int /\ Begin(i) <= rip /\ rip < placed[i] /\ Begin(i) \in Nat
  <2>1. /\ Begin(i) \in Nat /\ L1(i) \in Nat /\ L2(i) \in Nat /\ L3(i) \in Nat
        /\ Begin(i) < L1(i) /\ L1(i) < L2(i) /\ L3(i) = L2(i) + 4 /\ placed[i] = L3(i) + 10
    BY <1>2 DEF Spans, Operation
  <2> QED  BY <1>1, <2>1
<1>5. NextIp = i
  <2>1. NextIpOf(placed, rip) = i
    BY <1>1, <1>2, <1>4, IpWithin
  <2> QED  BY <2>1, NextIpIs
<1>6. NextIp' = Abstract!After(i)
  BY <1>1, <1>2, IpGoesOn
<1>7. Quiet(i - 1, rip)
  <2>1. i \in 1 .. Len(code) + 1
    BY <1>2
  <2> QED  BY <1>2, <1>4, <2>1, QuietBelow
<1>8. AbsReg = [r \in 0 .. 15 |-> Plain(reg[r], number)]
  BY <1>1, <1>2, <1>7, SettledNow DEF Settled
<1>9. HoldsAt(reg', i)
  <2>1. Holds(i)'
    <3> HIDE DEF b
    <3> QED  BY <1>1, <1>2, <1>3, HoldsNamed
  <2> QED  BY <1>3, <2>1 DEF Holds, HoldsAt
<1>10. AbsReg' = [r \in 0 .. 15 |-> IF reg'[r] = Object(i) THEN v ELSE Plain(reg'[r], number)]
  <2> DEFINE g == reg'
             nu == number
             x == v
  <2>1. HoldsAt(g, i)
    BY <1>9
  <2>2. \A r \in 0 .. 15 : AbsVal(g[r], placed[i], nu, x) = IF g[r] = Object(i) THEN x ELSE Plain(g[r], nu)
    <3> HIDE DEF g, nu, x
    <3> QED  BY <1>1, <1>2, <2>1, NamedIs, ZenonT(60)
  <2>3. AbsReg' = [r \in DOMAIN reg' |-> AbsVal(reg'[r], rip', number', xmm'[0])]
    BY <1>2, <1>3, RegThen
  <2>4. AbsReg' = [r \in 0 .. 15 |-> AbsVal(g[r], placed[i], nu, x)]
    BY <1>1, <1>9, <2>3 DEF HoldsAt
  <2> QED  BY <2>2, <2>4
<1>11. /\ registers[i].inputs[1] \in -1 .. 15 /\ registers[i].inputs[2] \in -1 .. 15
  BY <1>2 DEF Operation
<1>12. In(i, 1) = AbsReg[Full(registers[i].inputs[1])] /\ In(i, 2) = AbsReg[Full(registers[i].inputs[2])]
  <2>1. ASSUME NEW k \in 1 .. 2, registers[i].inputs[k] \in -1 .. 15 PROVE In(i, k) = AbsReg[Full(registers[i].inputs[k])]
    <3> DEFINE a == registers[i].inputs[k]
    <3>1. Full(a) \in 0 .. 15
      <4>1. a \in -1 .. 15
        BY <2>1
      <4> HIDE DEF a
      <4> QED  BY <4>1, FullType
    <3>2. In(i, k) = Plain(reg[Full(a)], number)
      BY DEF In, Value, Plain
    <3> HIDE DEF a
    <3>3. AbsReg[Full(a)] = Plain(reg[Full(a)], number)
      BY <1>8, <3>1
    <3> QED  BY <3>2, <3>3 DEF a
  <2> QED  BY <1>11, <2>1
<1>13. AbsReg' = [AbsReg EXCEPT ![Full(b)] = v]
  <2>1. Full(b) \in 0 .. 15 /\ DOMAIN reg = 0 .. 15
    BY <1>1, FullType DEF Holds
  <2>0. HoldsAt(reg, i - 1)
    BY <1>1, HoldsNow
  <2> HIDE DEF b, v
  <2>2. ASSUME NEW r \in 0 .. 15
        PROVE (IF reg'[r] = Object(i) THEN v ELSE Plain(reg'[r], number)) = [AbsReg EXCEPT ![Full(b)] = v][r]
    <3>1. CASE r = Full(b)
      <4>1. reg'[r] = Object(i)
        BY <1>1, <2>1, <3>1
      <4> QED  BY <1>8, <2>1, <3>1, <4>1
    <3>2. CASE r # Full(b)
      <4>1. reg'[r] = reg[r]
        BY <1>1, <2>1, <3>2
      <4>2. reg[r] # Object(i)
        <5>1. reg[r] = Caller(r) \/ \E m \in 1 .. i - 1 : reg[r] = Object(m)
          BY <2>0 DEF HoldsAt
        <5>2. Caller(r) # Object(i)
          BY DEF Caller, Object
        <5>3. ASSUME NEW m \in 1 .. i - 1 PROVE Object(m) # Object(i)
          <6>1. Object(m).value = m /\ Object(i).value = i /\ m # i
            BY DEF Object
          <6> QED  BY <6>1
        <5> QED  BY <5>1, <5>2, <5>3
      <4> QED  BY <1>8, <2>1, <3>2, <4>1, <4>2
    <3> QED  BY <3>1, <3>2
  <2> QED  BY <1>8, <1>10, <2>2
<1>14. AbsReg' = [AbsReg EXCEPT ![Full(b)] =
                    BinaryOp(code[i].arg, AbsReg[Full(registers[i].inputs[1])], AbsReg[Full(registers[i].inputs[2])])]
  <2>1. v = BinaryOp(code[i].arg, AbsReg[Full(registers[i].inputs[1])], AbsReg[Full(registers[i].inputs[2])])
    BY <1>12
  <2> HIDE DEF v
  <2> QED  BY <1>13, <2>1
<1> QED  BY <1>1, <1>2, <1>3, <1>5, <1>6, <1>11, <1>14, BinaryOpMaps DEF Maps

LEMMA StoreMaps ==
  ASSUME Running, NEW i \in 1 .. Len(code), StepStore(i)
  PROVE  Maps
<1>1. /\ code[i].op = "binary_op" /\ Holds(i) /\ rip = placed[i] /\ rip' = End(i) /\ reg' = reg
      /\ number' = [number EXCEPT ![i] = xmm[0]] /\ Same
  BY DEF StepStore, Named
<1>2. Compiled /\ Fixed /\ phase' = "run" /\ Len(code) \in Nat /\ phase = "run" /\ Spans(i)
  BY <1>1, RunningFacts, SpanOf DEF Running
<1>3. code' = code /\ registers' = registers /\ placed' = placed /\ result' = result
  BY <1>1, <1>2 DEF Fixed, Same
<1>4. NextIp' = NextIp
  <2>1. PICK c : Follows(i, c)
    BY <1>2, FollowerExists
  <2>2. Abstract!After(i) = c
    BY <1>2, <2>1, AfterIs
  <2>3. rip \in Int /\ placed[i] <= rip /\ rip <= End(i)
    BY <1>1, <1>2 DEF Spans
  <2>4. NextIpOf(placed, rip) = c
    BY <1>2, <2>1, <2>3, IpBehind
  <2>5. NextIp' = c
    BY <1>1, <1>2, <2>2, IpGoesOn
  <2> QED  BY <2>4, <2>5, NextIpIs
<1>5. HoldsAt(reg, i) /\ DOMAIN reg = 0 .. 15
  BY <1>1, HoldsNow DEF Holds
<1>6. AbsReg = [r \in 0 .. 15 |-> IF reg[r] = Object(i) THEN xmm[0] ELSE Plain(reg[r], number)]
  <2>1. \A r \in 0 .. 15 : AbsVal(reg[r], placed[i], number, xmm[0]) =
                             IF reg[r] = Object(i) THEN xmm[0] ELSE Plain(reg[r], number)
    BY <1>1, <1>2, <1>5, NamedIs, ZenonT(60)
  <2>2. AbsReg = [r \in 0 .. 15 |-> AbsVal(reg[r], placed[i], number, xmm[0])]
    BY <1>1, <1>2, <1>5, RegNow
  <2> QED  BY <2>1, <2>2
<1>7. AbsReg' = [r \in 0 .. 15 |-> Plain(reg[r], number')]
  <2>1. Holds(i)'
    BY <1>1, <1>3 DEF Holds
  <2>2. Quiet(i, rip')
    BY <1>1, <1>2, QuietEnd
  <2>3. AbsReg' = [r \in 0 .. 15 |-> Plain(reg'[r], number')]
    BY <1>2, <1>3, <2>1, <2>2, SettledThen
  <2> QED  BY <1>1, <2>3
<1>8. ASSUME NEW r \in 0 .. 15
      PROVE  Plain(reg[r], number') = IF reg[r] = Object(i) THEN xmm[0] ELSE Plain(reg[r], number)
  <2>1. DOMAIN number = 1 .. Len(code)
    BY <1>2, BufferType DEF Running, NumberInv
  <2>2. CASE reg[r] = Caller(r)
    <3>1. Caller(r) # Object(i)
      BY DEF Caller, Object
    <3> QED  BY <2>2, <3>1 DEF Plain, Caller
  <2>3. CASE \E m \in 1 .. i : m <= Len(code) /\ reg[r] = Object(m)
    <3>1. PICK m \in 1 .. i : m <= Len(code) /\ reg[r] = Object(m)
      BY <2>3
    <3>2. reg[r].type = "object" /\ reg[r].value = m /\ Object(i).value = i
      BY <3>1 DEF Object
    <3>3. CASE m = i
      <4>1. Plain(reg[r], number') = number'[i]
        BY <3>2, <3>3 DEF Plain
      <4> QED  BY <1>1, <2>1, <3>1, <3>3, <4>1
    <3>4. CASE m # i
      <4>1. reg[r] # Object(i)
        BY <3>2, <3>4
      <4>2. number'[m] = number[m]
        BY <1>1, <2>1, <3>1, <3>4
      <4> QED  BY <3>2, <4>1, <4>2 DEF Plain
    <3> QED  BY <3>3, <3>4
  <2> QED  BY <1>5, <2>2, <2>3 DEF HoldsAt
<1>9. AbsReg' = AbsReg
  BY <1>6, <1>7, <1>8
<1>10. AbsPhase' = AbsPhase
  BY <1>2 DEF AbsPhase
<1> QED  BY <1>3, <1>4, <1>9, <1>10, StutterMaps DEF Maps

LEMMA ReturnStepMaps ==
  ASSUME Running, NEW i \in 1 .. Len(code), StepReturn(i)
  PROVE  Maps
<1>1. /\ code[i].op = "return" /\ Holds(i - 1) /\ rip = Begin(i) /\ rip' = rip /\ reg' = reg /\ number' = number
      /\ phase' = "done" /\ UNCHANGED <<line, emitted>>
      /\ result' = IF reg[RSP] = Caller(RSP) THEN Value(reg[RAX]) ELSE Lost
  BY DEF StepReturn, Ready
<1>2. Compiled /\ LineInv /\ LayoutInv /\ NumberInv /\ phase = "run"
  BY DEF Running, RunInv, Compiled
<1>3. Fixed /\ Len(code) \in Nat /\ DOMAIN code = 1 .. Len(code) /\ Spans(i)
  BY <1>1, <1>2, LineFixed, BufferType, SpanOf
<1>4. code' = code /\ registers' = registers /\ placed' = placed
  BY <1>3 DEF Fixed
<1>5. rip \in Int /\ Begin(i) <= rip /\ rip < placed[i] /\ Begin(i) \in Nat
  <2>1. Begin(i) \in Nat /\ Begin(i) < placed[i]
    BY <1>1, <1>3 DEF Spans
  <2> QED  BY <1>1, <2>1
<1>6. NextIp = i /\ NextIp' = i
  <2>1. NextIpOf(placed, rip) = i
    BY <1>1, <1>2, <1>5, IpWithin
  <2> QED  BY <1>1, <1>4, <2>1, NextIpIs, NextIpThen
<1>7. Quiet(i - 1, rip)
  <2>1. i \in 1 .. Len(code) + 1
    BY <1>3
  <2> QED  BY <1>2, <1>5, <2>1, QuietBelow
<1>8. AbsReg = [r \in 0 .. 15 |-> Plain(reg[r], number)]
  BY <1>1, <1>2, <1>7, SettledNow DEF Settled
<1>9. AbsReg' = AbsReg
  <2>1. AbsReg' = [r \in DOMAIN reg' |-> Plain(reg'[r], number')]
    BY <1>1, <1>4, RegThen
  <2> QED  BY <1>1, <1>8, <2>1 DEF Holds
<1>10. AbsReg[RAX] = Value(reg[RAX]) /\ AbsReg[RSP] = Plain(reg[RSP], number)
  <2>1. RAX \in 0 .. 15 /\ RSP \in 0 .. 15
    BY DEF RAX, RSP
  <2> QED  BY <1>8, <2>1 DEF Value, Plain
<1>11. Plain(reg[RSP], number) = Caller(RSP) <=> reg[RSP] = Caller(RSP)
  <2>1. RSP \in 0 .. 15
    BY DEF RSP
  <2>2. CASE reg[RSP] = Caller(RSP)
    BY <2>2 DEF Plain, Caller
  <2>3. CASE \E m \in 1 .. i - 1 : m <= Len(code) /\ reg[RSP] = Object(m)
    <3>1. PICK m \in 1 .. i - 1 : m <= Len(code) /\ reg[RSP] = Object(m)
      BY <2>3
    <3>2. m \in DOMAIN code
      BY <1>3, <3>1
    <3>3. number[m].type \in {"literal", "binary_op"}
      BY <1>2, <3>2 DEF NumberInv
    <3>4. Plain(reg[RSP], number) = number[m]
      BY <3>1 DEF Plain, Object
    <3>5. number[m] # Caller(RSP) /\ reg[RSP] # Caller(RSP)
      BY <3>1, <3>3 DEF Caller, Object
    <3> QED  BY <3>4, <3>5
  <2> QED  BY <1>1, <2>1, <2>2, <2>3 DEF Holds
<1>12. result' = IF AbsReg[RSP] = Caller(RSP) THEN AbsReg[RAX] ELSE Lost
  BY <1>1, <1>10, <1>11
<1> QED  BY <1>1, <1>2, <1>3, <1>4, <1>6, <1>9, <1>12, ReturnMaps DEF Maps

LEMMA RunStepMaps ==
  ASSUME Running, NEW i \in 1 .. Len(code), RunStep(i)
  PROVE  Maps
BY ConstantStepMaps, FirstMaps, SecondMaps, ArithMaps, MovMaps, StoreMaps, ReturnStepMaps DEF RunStep

\* While the line is compiled, its first instruction comes next.
LEMMA FirstComesNext ==
  ASSUME LineInv, NEW pl, NEW p, p = 0,
         1 <= Len(code) => ~ (Len(pl) = Len(code) /\ p >= pl[1])
  PROVE  NextIpOf(pl, p) = 1
<1>1. /\ Len(code) \in Nat /\ DOMAIN code = 1 .. Len(code)
      /\ 1 \in DOMAIN code => code[1].op # "store_local"
  BY DEF LineInv, IsLine
<1>2. 1 \in 1 .. Len(code) + 1 /\ 1 .. 1 - 1 = {}
  BY <1>1
<1>3. 1 <= Len(code) => code[1].op # "store_local" /\ ~ (Len(pl) = Len(code) /\ p >= pl[1])
  BY <1>1
<1> QED  BY <1>1, <1>2, <1>3, IpAt

\* Something is loaded behind the start.
LEMMA FirstPlaced ==
  ASSUME LineInv, NEW q \in Nat, 1 <= Len(code), q = Len(LoadingOf(1))
  PROVE  q > 0
<1>1. 1 \in 1 .. Len(code) /\ code[1].op # "store_local"
  BY DEF LineInv, IsLine
<1>2. Emits(code[1], registers[1], offset, 1, Len(code))
  BY <1>1, LineMember
<1> QED  BY <1>1, <1>2 DEF Emits, LoadingOf

LEMMA EmittingIp ==
  ASSUME Emitting
  PROVE  NextIp = 1
<1>1. LineInv /\ LayoutInv /\ rip = 0
  BY DEF Emitting, CompileInv
<1>2. ASSUME 1 <= Len(code), Len(placed) = Len(code) PROVE ~ (rip >= placed[1])
  <2>1. 1 \in 1 .. next - 1 /\ next \in 1 .. Len(code) + 1
    BY <1>1, <1>2 DEF LayoutInv, LineInv, IsLine
  <2>2. Piece(1)
    BY <1>1, <2>1 DEF LayoutInv
  <2>3. placed[1] = 0 + Len(LoadingOf(1))
    BY <2>2 DEF Piece, Begin
  <2>4. Len(LoadingOf(1)) \in Nat
    <3>1. 1 \in 1 .. Len(code)
      BY <1>1, <1>2 DEF LineInv, IsLine
    <3> QED  BY <1>1, <3>1, LineMember DEF Emits, LoadingOf
  <2>5. Len(LoadingOf(1)) > 0
    BY <1>1, <1>2, <2>4, FirstPlaced
  <2> QED  BY <1>1, <2>3, <2>4, <2>5
<1>3. NextIpOf(placed, rip) = 1
  BY <1>1, <1>2, FirstComesNext
<1> QED  BY <1>3, NextIpIs

LEMMA EmittedIp ==
  ASSUME Emitting, LayoutInv', UNCHANGED <<line, phase, processor>>
  PROVE  NextIp' = 1
<1>1. LineInv /\ rip' = 0 /\ code' = code /\ registers' = registers /\ offset' = offset
  BY DEF Emitting, CompileInv, line, processor
<1>2. ASSUME 1 <= Len(code), Len(placed') = Len(code) PROVE ~ (rip' >= placed'[1])
  <2>1. 1 \in 1 .. next' - 1
    <3>1. Len(placed') = next' - 1 /\ next' \in 1 .. Len(code') + 1
      BY DEF LayoutInv
    <3>2. Len(code) \in Nat
      BY <1>1 DEF LineInv, IsLine
    <3>3. next' - 1 = Len(code)
      BY <1>2, <3>1
    <3>4. 1 \in 1 .. Len(code)
      BY <1>2, <3>2
    <3> QED  BY <3>3, <3>4
  <2>2. Piece(1)'
    BY <2>1 DEF LayoutInv
  <2>3. LoadingOf(1)' = LoadingOf(1)
    BY <1>1 DEF LoadingOf
  <2>4. placed'[1] = 0 + Len(LoadingOf(1))
    BY <2>2, <2>3 DEF Piece, Begin
  <2>5. Len(LoadingOf(1)) \in Nat
    <3>1. 1 \in 1 .. Len(code)
      BY <1>1, <1>2 DEF LineInv, IsLine
    <3> QED  BY <1>1, <3>1, LineMember DEF Emits, LoadingOf
  <2>6. Len(LoadingOf(1)) > 0
    BY <1>1, <1>2, <2>5, FirstPlaced
  <2> QED  BY <1>1, <2>4, <2>5, <2>6
<1>3. NextIpOf(placed', rip') = 1
  <2> DEFINE pl == placed'
             p == rip'
  <2>1. p = 0 /\ (1 <= Len(code) => ~ (Len(pl) = Len(code) /\ p >= pl[1]))
    BY <1>1, <1>2
  <2> HIDE DEF pl, p
  <2>2. NextIpOf(pl, p) = 1
    BY <1>1, <2>1, FirstComesNext
  <2> QED  BY <2>2 DEF pl, p
<1> QED  BY <1>1, <1>3, NextIpThen

LEMMA HandlerMaps ==
  ASSUME Emitting, constant_compile \/ binary_op_compile \/ store_local_compile \/ return_compile
  PROVE  Maps
<1>1. UNCHANGED <<line, phase, processor>> /\ AsmInv'
  BY AfterHandler
<1>2. NextIp' = NextIp
  <2>1. LayoutInv'
    BY <1>1 DEF AsmInv
  <2> QED  BY <1>1, <2>1, EmittingIp, EmittedIp
<1>3. code' = code /\ registers' = registers /\ phase' = phase /\ phase = "compile"
      /\ reg' = reg /\ number' = number /\ result' = result
  BY <1>1 DEF line, processor, Emitting
<1>4. AbsReg' = AbsReg
  BY <1>3 DEF AbsReg, Value
<1>5. AbsPhase' = AbsPhase
  BY <1>3 DEF AbsPhase
<1> QED  BY <1>2, <1>3, <1>4, <1>5, StutterMaps DEF Maps

LEMMA CallMaps ==
  ASSUME Emitting, asm_compile
  PROVE  Maps
<1>1. UNCHANGED <<line, emitted>> /\ UNCHANGED processor /\ phase' = "run" /\ phase = "compile" /\ CompileInv
  BY DEF asm_compile, Emitting
<1>2. code' = code /\ registers' = registers /\ placed' = placed /\ rip' = rip
      /\ reg' = reg /\ number' = number /\ result' = result
  BY <1>1 DEF line, emitted, processor
<1>3. NextIp' = NextIp
  BY <1>2, NextIpIs, NextIpThen
<1>4. AbsReg' = AbsReg
  <2>1. AbsReg = [r \in DOMAIN reg |-> Plain(reg[r], number)]
    BY <1>1, RegNow
  <2>2. AbsReg' = [r \in DOMAIN reg |-> AbsVal(reg[r], rip, number, xmm'[0])]
    BY <1>1, <1>2, RegThen
  <2>3. ASSUME NEW r \in DOMAIN reg PROVE AbsVal(reg[r], rip, number, xmm'[0]) = Plain(reg[r], number)
    <3>1. reg[r] = Caller(r)
      BY <1>1 DEF CompileInv
    <3> QED  BY <3>1 DEF AbsVal, Caller
  <2> QED  BY <2>1, <2>2, <2>3
<1>5. AbsPhase' = AbsPhase
  BY <1>1 DEF AbsPhase
<1> QED  BY <1>2, <1>3, <1>4, <1>5, StutterMaps DEF Maps

LEMMA StutteringMaps ==
  ASSUME UNCHANGED vars
  PROVE  Maps
<1>1. code' = code /\ registers' = registers /\ placed' = placed /\ rip' = rip /\ phase' = phase
      /\ reg' = reg /\ number' = number /\ result' = result /\ xmm' = xmm
  BY DEF vars, line, emitted, processor
<1>2. NextIp' = NextIp
  BY <1>1, NextIpIs, NextIpThen
<1>3. AbsReg' = AbsReg
  BY <1>1, RegNow, RegThen
<1>4. AbsPhase' = AbsPhase
  BY <1>1 DEF AbsPhase
<1> QED  BY <1>1, <1>2, <1>3, <1>4, StutterMaps DEF Maps

LEMMA StepsMap == AsmInv /\ [Next]_vars => [Abstract!Next]_(Abstract!vars)
<1> SUFFICES ASSUME AsmInv, [Next]_vars PROVE Maps
  BY DEF Maps
<1>1. CASE UNCHANGED vars
  BY <1>1, StutteringMaps
<1>2. CASE Next
  BY <1>2, PhaseOfStep, HandlerMaps, CallMaps, RunStepMaps
<1> QED  BY <1>1, <1>2

LEMMA StartMaps == Init => Abstract!Init
<1> SUFFICES ASSUME Init PROVE Abstract!Init
  OBVIOUS
<1>1. Emitting
  BY StartsRight DEF AsmInv, Emitting, Init
<1>2. NextIp = 1
  BY <1>1, EmittingIp
<1>3. AbsReg = [r \in 0 .. 15 |-> Caller(r)]
  BY DEF Init, AbsReg, Value, Caller
<1>4. [r \in Abstract!Registers |-> Abstract!Caller(r)] = [r \in 0 .. 15 |-> Caller(r)]
  <2>1. 16 - 1 = 15
    OBVIOUS
  <2> QED  BY <2>1 DEF Abstract!Registers, Abstract!kNumberOfCpuRegisters, Abstract!Caller, Caller
<1>5. result = Abstract!NotYet /\ phase = "compile"
  BY DEF Init, Abstract!NotYet, NotYet
<1> QED  BY <1>2, <1>3, <1>4, <1>5 DEF Abstract!Init, Abstract!MachineInit, AbsReg

(* Calling the buffer (compiled_func of main.c) does what Machine says of  *)
(* the instructions that it was emitted for: the registers change as the   *)
(* code generator means them to, and what comes back is the number of the  *)
(* object that the caller finds.                                           *)
THEOREM Implements == Spec => ImplementsMachine
<1>1. Init => Abstract!Init
  BY StartMaps
<1>2. AsmInv /\ [Next]_vars => [Abstract!Next]_(Abstract!vars)
  BY StepsMap
<1> QED  BY <1>1, <1>2, CodeIsInOrder, PTL DEF Spec, ImplementsMachine, Abstract!Spec
=====
