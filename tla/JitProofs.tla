------------------------------ MODULE JitProofs ------------------------------
(***************************************************************************)
(* The compiler as main.c runs it, for every script and every other tree   *)
(* that the constructors of ast.c can make.                                *)
(*                                                                         *)
(* Three invariants meet here: what the builder has made of the tree so    *)
(* far, where the allocator has put each definition (RegAllocProofs), and  *)
(* what the machine has in its registers.  The last rests on the first     *)
(* two: the second definition and the last two all live in RAX, and the    *)
(* last instruction never uses the second one, because the builder visits  *)
(* a statement's operands just before it.                                  *)
(*                                                                         *)
(* The builder comes first, for trees of any size and shape: the           *)
(* temporaries of operands are a stack.  What makes it one is the call     *)
(* stack of the visitors: every visit that still has to be made or         *)
(* finished changes the number of operands at hand by a known amount, and  *)
(* all of them together bring it back to 0.                                *)
(***************************************************************************)
EXTENDS Jit, SequenceTheorems, WellFoundedInduction, TLAPS

RP == INSTANCE RegAllocProofs WITH kNumberOfCpuRegisters <- M!kNumberOfCpuRegisters
-----------------------------------------------------------------------------
\* What a visit adds to the operands at hand, and how many it must find.
Delta(v) == IF v.how = "value" THEN 1
            ELSE IF v.how = "effect" THEN 0
            ELSE IF v.how = "then_value" THEN -1
            ELSE IF v.node.type = "binary_op" THEN -2 ELSE -1
Needs(v) == IF v.how = "then_value" THEN 2 ELSE 0

\* H[i] operands are at hand when the i-th visit is made, none at the end.
Heights(H) == /\ H \in [1 .. Len(todo) + 1 -> Nat]
              /\ H[1] = Len(values) /\ H[Len(todo) + 1] = 0
              /\ \A i \in 1 .. Len(todo) : /\ Needs(todo[i]) <= H[i]
                                           /\ H[i + 1] = H[i] + Delta(todo[i])
StackInv == /\ \E S : todo \in Seq(S)
            /\ \E H : Heights(H)

\* The j-th operand at hand is in temporary j, and none behind it took that.
ValuesInv == /\ \E S : code \in Seq(S)
             /\ \A i \in 1 .. Len(code) : code[i].inputs \in Seq(1 .. i - 1)
             /\ values \in Seq(1 .. Len(code))
             /\ temp_count = Len(values)
             /\ \A j \in 1 .. Len(values) :
                  /\ code[values[j]].temp = j
                  /\ \A i \in values[j] + 1 .. Len(code) : code[i].temp = Unset \/ code[i].temp > j

IInv == TypeOK /\ StackInv /\ ValuesInv /\ OperandsOnTop /\ Len(program) \in Nat
-----------------------------------------------------------------------------
\* The builder before its first step.
Start == /\ child = 1 /\ todo = <<>> /\ values = <<>> /\ code = <<>> /\ temp_count = 0 /\ open = TRUE

LEMMA StartInv ==
  ASSUME Start, Len(program) \in Nat
  PROVE  IInv
<1>1. /\ todo = <<>> /\ values = <<>> /\ code = <<>> /\ child = 1 /\ temp_count = 0 /\ open = TRUE
      /\ Len(program) \in Nat
  BY DEF Start
<1>2. Len(todo) = 0 /\ Len(values) = 0 /\ Len(code) = 0 /\ 1 .. Len(code) = {} /\ 1 .. Len(values) = {}
  BY <1>1
<1>3. TypeOK
  <2>1. Defs(values) = {}
    BY <1>1 DEF Defs
  <2> QED  BY <1>1, <1>2, <2>1 DEF TypeOK
<1>4. StackInv
  <2>1. Heights([i \in 1 .. Len(todo) + 1 |-> 0])
    BY <1>2 DEF Heights
  <2>2. todo \in Seq({})
    BY <1>1
  <2> QED  BY <2>1, <2>2 DEF StackInv
<1>5. ValuesInv
  <2>1. code \in Seq({}) /\ values \in Seq(1 .. Len(code))
    BY <1>1
  <2> QED  BY <1>1, <1>2, <2>1 DEF ValuesInv
<1>6. OperandsOnTop
  BY <1>2 DEF OperandsOnTop
<1> QED  BY <1>1, <1>3, <1>4, <1>5, <1>6 DEF IInv

LEMMA InitInv == Init => IInv
  BY StartInv, BuilderAssumption DEF Init, Start, IsProgram

\* A visit is over.
LEMMA Pop ==
  ASSUME StackInv, todo # <<>>, todo' = Tail(todo), Len(values') = Len(values) + Delta(Head(todo))
  PROVE  StackInv'
<1> PICK S : todo \in Seq(S)
  BY DEF StackInv
<1> PICK H : Heights(H)
  BY DEF StackInv
<1> DEFINE n == Len(todo)
           G == [i \in 1 .. n |-> H[i + 1]]
<1>1. n \in Nat /\ n >= 1 /\ Head(todo) = todo[1] /\ Len(Tail(todo)) = n - 1 /\ Tail(todo) \in Seq(S)
  OBVIOUS
<1>2. \A i \in 1 .. n - 1 : Tail(todo)[i] = todo[i + 1]
  BY <1>1
<1>3. /\ H \in [1 .. n + 1 -> Nat] /\ H[1] = Len(values) /\ H[n + 1] = 0
      /\ \A i \in 1 .. n : Needs(todo[i]) <= H[i] /\ H[i + 1] = H[i] + Delta(todo[i])
  BY DEF Heights
<1> HIDE DEF n
<1>4. G \in [1 .. n -> Nat] /\ \A i \in 1 .. n : G[i] = H[i + 1]
  BY <1>1, <1>3
<1>5. Len(todo') + 1 = n /\ Len(todo') = n - 1
  BY <1>1
<1>6. G[1] = Len(values') /\ G[n] = 0
  BY <1>1, <1>3, <1>4
<1>7. ASSUME NEW i \in 1 .. n - 1 PROVE Needs(todo'[i]) <= G[i] /\ G[i + 1] = G[i] + Delta(todo'[i])
  <2>1. i \in 1 .. n /\ i + 1 \in 1 .. n
    BY <1>1
  <2> QED  BY <1>2, <1>3, <1>4, <2>1
<1> HIDE DEF G
<1>8. \A F : F = G => Heights(F)'
  BY <1>4, <1>5, <1>6, <1>7 DEF Heights, Needs, Delta
<1> QED  BY <1>1, <1>8 DEF StackInv

\* A visit of a node with two operands, or with one.
LEMMA Push ==
  ASSUME StackInv, todo # <<>>, values' = values, NEW left, NEW right, NEW then,
         \/ /\ todo' = <<left, right, then>> \o Tail(todo)
            /\ Delta(left) = 1 /\ Needs(left) = 0 /\ Delta(right) = 1 /\ Needs(right) = 0
            /\ Needs(then) <= 2 /\ Delta(then) + 2 = Delta(Head(todo)) /\ Delta(then) \in Int
         \/ /\ todo' = <<left, then>> \o Tail(todo)
            /\ Delta(left) = 1 /\ Needs(left) = 0
            /\ Needs(then) = 0 /\ Delta(then) + 1 = Delta(Head(todo)) /\ Delta(then) \in Int
  PROVE  StackInv'
<1> PICK S : todo \in Seq(S)
  BY DEF StackInv
<1> PICK H : Heights(H)
  BY DEF StackInv
<1> DEFINE n == Len(todo)
           R == S \cup {left, right, then}
<1>1. /\ n \in Nat /\ n >= 1 /\ Head(todo) = todo[1] /\ Len(Tail(todo)) = n - 1
      /\ Tail(todo) \in Seq(S) /\ Tail(todo) \in Seq(R)
  OBVIOUS
<1>2. \A i \in 1 .. n - 1 : Tail(todo)[i] = todo[i + 1]
  BY <1>1
<1>3. /\ H \in [1 .. n + 1 -> Nat] /\ H[1] = Len(values) /\ H[n + 1] = 0
      /\ \A i \in 1 .. n : Needs(todo[i]) <= H[i] /\ H[i + 1] = H[i] + Delta(todo[i])
  BY DEF Heights
<1>4. 1 \in 1 .. n /\ 1 \in 1 .. n + 1 /\ H[1] \in Nat /\ H[2] = H[1] + Delta(Head(todo)) /\ H[2] \in Nat
  <2>1. 1 \in 1 .. n /\ 1 \in 1 .. n + 1 /\ 2 \in 1 .. n + 1 /\ 1 + 1 = 2
    BY <1>1
  <2> QED  BY <1>1, <1>3, <2>1
<1> HIDE DEF n
<1>5. CASE /\ todo' = <<left, right, then>> \o Tail(todo)
           /\ Delta(left) = 1 /\ Needs(left) = 0 /\ Delta(right) = 1 /\ Needs(right) = 0
           /\ Needs(then) <= 2 /\ Delta(then) + 2 = Delta(Head(todo)) /\ Delta(then) \in Int
  <2> DEFINE G == [i \in 1 .. n + 3 |-> IF i = 1 THEN H[1] ELSE IF i = 2 THEN H[1] + 1
                                        ELSE IF i = 3 THEN H[1] + 2 ELSE H[i - 2]]
  <2>1. /\ todo' \in Seq(R) /\ Len(todo') = n + 2
        /\ todo'[1] = left /\ todo'[2] = right /\ todo'[3] = then
        /\ \A i \in 4 .. n + 2 : todo'[i] = Tail(todo)[i - 3]
    <3>1. <<left, right, then>> \in Seq(R) /\ Len(<<left, right, then>>) = 3
      OBVIOUS
    <3>2. todo' \in Seq(R) /\ Len(todo') = 3 + (n - 1)
      BY <1>1, <1>5, <3>1
    <3>3. \A i \in 1 .. Len(todo') : todo'[i] = IF i <= 3 THEN <<left, right, then>>[i] ELSE Tail(todo)[i - 3]
      BY <1>1, <1>5, <3>1
    <3>4. 1 \in 1 .. Len(todo') /\ 2 \in 1 .. Len(todo') /\ 3 \in 1 .. Len(todo') /\ Len(todo') = n + 2
      BY <1>1, <3>2
    <3>5. todo'[1] = left /\ todo'[2] = right /\ todo'[3] = then
      BY <3>3, <3>4
    <3>6. ASSUME NEW i \in 4 .. n + 2 PROVE todo'[i] = Tail(todo)[i - 3]
      <4>1. i \in 1 .. Len(todo') /\ ~(i <= 3)
        BY <1>1, <3>4
      <4> QED  BY <3>3, <4>1
    <3> QED  BY <3>2, <3>4, <3>5, <3>6
  <2>2. \A i \in 4 .. n + 2 : todo'[i] = todo[i - 2]
    <3>1. ASSUME NEW i \in 4 .. n + 2 PROVE i - 3 \in 1 .. n - 1 /\ (i - 3) + 1 = i - 2
      BY <1>1
    <3> QED  BY <1>2, <2>1, <3>1
  <2>3. /\ G[1] = H[1] /\ G[2] = H[1] + 1 /\ G[3] = H[1] + 2 /\ \A i \in 4 .. n + 3 : G[i] = H[i - 2]
    BY <1>1
  <2>4. G \in [1 .. n + 3 -> Nat]
    <3>1. \A i \in 4 .. n + 3 : i - 2 \in 1 .. n + 1
      BY <1>1
    <3>2. \A i \in 4 .. n + 3 : H[i - 2] \in Nat
      BY <1>3, <3>1
    <3>3. \A i \in 1 .. n + 3 : i \in {1, 2, 3} \/ i \in 4 .. n + 3
      BY <1>1
    <3> QED  BY <1>4, <3>2, <3>3
  <2>5. Len(todo') + 1 = n + 3 /\ G[1] = Len(values') /\ G[n + 3] = 0
    <3>1. n + 3 \in 4 .. n + 3 /\ (n + 3) - 2 = n + 1
      BY <1>1
    <3> QED  BY <1>1, <1>3, <2>1, <2>3, <3>1
  <2> HIDE DEF G
  <2>6. ASSUME NEW i \in 1 .. n + 2 PROVE Needs(todo'[i]) <= G[i] /\ G[i + 1] = G[i] + Delta(todo'[i])
    <3>1. CASE i = 1
      BY <1>4, <1>5, <2>1, <2>3, <3>1
    <3>2. CASE i = 2
      BY <1>4, <1>5, <2>1, <2>3, <3>2
    <3>3. CASE i = 3
      <4>1. 4 \in 4 .. n + 3 /\ 4 - 2 = 2 /\ 3 + 1 = 4
        BY <1>1
      <4>2. G[4] = H[2]
        BY <2>3, <4>1
      <4>3. Needs(then) \in Int
        BY DEF Needs
      <4>4. Needs(then) <= H[1] + 2 /\ H[2] = (H[1] + 2) + Delta(then)
        <5>1. H[2] = H[1] + (Delta(then) + 2) /\ H[1] \in Nat /\ Delta(then) \in Int /\ Needs(then) <= 2
          BY <1>4, <1>5
        <5>2. H[1] \in Int /\ H[1] >= 0
          BY <5>1
        <5>3. \A a, d, q \in Int : q <= 2 /\ a >= 0 => q <= a + 2 /\ a + (d + 2) = (a + 2) + d
          OBVIOUS
        <5> QED  BY <4>3, <5>1, <5>2, <5>3, Zenon
      <4> QED  BY <2>1, <2>3, <3>3, <4>1, <4>2, <4>4
    <3>4. CASE i \in 4 .. n + 2
      <4>1. i - 2 \in 1 .. n /\ i + 1 \in 4 .. n + 3 /\ (i + 1) - 2 = (i - 2) + 1 /\ i \in 4 .. n + 3
        BY <1>1, <3>4
      <4> QED  BY <1>3, <2>2, <2>3, <3>4, <4>1
    <3> QED  BY <1>1, <3>1, <3>2, <3>3, <3>4
  <2>7. \A F : F = G => Heights(F)'
    BY <1>1, <2>1, <2>4, <2>5, <2>6 DEF Heights, Needs, Delta
  <2> QED  BY <2>1, <2>7 DEF StackInv
<1>6. CASE /\ todo' = <<left, then>> \o Tail(todo)
           /\ Delta(left) = 1 /\ Needs(left) = 0
           /\ Needs(then) = 0 /\ Delta(then) + 1 = Delta(Head(todo)) /\ Delta(then) \in Int
  <2> DEFINE G == [i \in 1 .. n + 2 |-> IF i = 1 THEN H[1] ELSE IF i = 2 THEN H[1] + 1 ELSE H[i - 1]]
  <2>1. /\ todo' \in Seq(R) /\ Len(todo') = n + 1
        /\ todo'[1] = left /\ todo'[2] = then
        /\ \A i \in 3 .. n + 1 : todo'[i] = Tail(todo)[i - 2]
    <3>1. <<left, then>> \in Seq(R) /\ Len(<<left, then>>) = 2
      OBVIOUS
    <3>2. todo' \in Seq(R) /\ Len(todo') = 2 + (n - 1)
      BY <1>1, <1>6, <3>1
    <3>3. \A i \in 1 .. Len(todo') : todo'[i] = IF i <= 2 THEN <<left, then>>[i] ELSE Tail(todo)[i - 2]
      BY <1>1, <1>6, <3>1
    <3> QED  BY <1>1, <3>2, <3>3
  <2>2. \A i \in 3 .. n + 1 : todo'[i] = todo[i - 1]
    <3>1. ASSUME NEW i \in 3 .. n + 1 PROVE i - 2 \in 1 .. n - 1 /\ (i - 2) + 1 = i - 1
      BY <1>1
    <3> QED  BY <1>2, <2>1, <3>1
  <2>3. G[1] = H[1] /\ G[2] = H[1] + 1 /\ \A i \in 3 .. n + 2 : G[i] = H[i - 1]
    BY <1>1
  <2>4. G \in [1 .. n + 2 -> Nat]
    <3>1. \A i \in 3 .. n + 2 : i - 1 \in 1 .. n + 1
      BY <1>1
    <3>2. \A i \in 3 .. n + 2 : H[i - 1] \in Nat
      BY <1>3, <3>1
    <3>3. \A i \in 1 .. n + 2 : i \in {1, 2} \/ i \in 3 .. n + 2
      BY <1>1
    <3> QED  BY <1>4, <3>2, <3>3
  <2>5. Len(todo') + 1 = n + 2 /\ G[1] = Len(values') /\ G[n + 2] = 0
    <3>1. n + 2 \in 3 .. n + 2 /\ (n + 2) - 1 = n + 1
      BY <1>1
    <3> QED  BY <1>1, <1>3, <2>1, <2>3, <3>1
  <2> HIDE DEF G
  <2>6. ASSUME NEW i \in 1 .. n + 1 PROVE Needs(todo'[i]) <= G[i] /\ G[i + 1] = G[i] + Delta(todo'[i])
    <3>1. CASE i = 1
      BY <1>4, <1>6, <2>1, <2>3, <3>1
    <3>2. CASE i = 2
      <4>1. 3 \in 3 .. n + 2 /\ 3 - 1 = 2 /\ 2 + 1 = 3
        BY <1>1
      <4>2. G[3] = H[2]
        BY <2>3, <4>1
      <4>3. Needs(then) <= H[1] + 1 /\ H[2] = (H[1] + 1) + Delta(then)
        BY <1>4, <1>6
      <4> QED  BY <2>1, <2>3, <3>2, <4>1, <4>2, <4>3
    <3>3. CASE i \in 3 .. n + 1
      <4>1. i - 1 \in 1 .. n /\ i + 1 \in 3 .. n + 2 /\ (i + 1) - 1 = (i - 1) + 1 /\ i \in 3 .. n + 2
        BY <1>1, <3>3
      <4> QED  BY <1>3, <2>2, <2>3, <3>3, <4>1
    <3> QED  BY <1>1, <3>1, <3>2, <3>3
  <2>7. \A F : F = G => Heights(F)'
    BY <1>1, <2>1, <2>4, <2>5, <2>6 DEF Heights, Needs, Delta
  <2> QED  BY <2>1, <2>7 DEF StackInv
<1> QED  BY <1>5, <1>6
-----------------------------------------------------------------------------
\* The visit on top of the stack finds the operands it needs and does not
\* take more than there are.
LEMMA EnoughValues ==
  ASSUME StackInv, todo # <<>>
  PROVE  Len(values) \in Nat /\ Needs(Head(todo)) <= Len(values) /\ Len(values) + Delta(Head(todo)) \in Nat
<1> PICK S : todo \in Seq(S)
  BY DEF StackInv
<1> PICK H : Heights(H)
  BY DEF StackInv
<1>1. Len(todo) \in Nat /\ Len(todo) >= 1 /\ Head(todo) = todo[1]
  OBVIOUS
<1>2. 1 \in 1 .. Len(todo) /\ 1 \in 1 .. Len(todo) + 1 /\ 2 \in 1 .. Len(todo) + 1 /\ 1 + 1 = 2
  BY <1>1
<1>3. H[1] \in Nat /\ H[2] \in Nat /\ H[1] = Len(values)
  BY <1>2 DEF Heights
<1>4. Needs(todo[1]) <= H[1] /\ H[2] = H[1] + Delta(todo[1])
  BY <1>2 DEF Heights
<1> QED  BY <1>1, <1>3, <1>4

LEMMA AllAtOnce ==
  ASSUME StackInv, todo = <<>>
  PROVE  Len(values) = 0
<1> PICK H : Heights(H)
  BY DEF StackInv
<1>1. Len(todo) + 1 = 1
  OBVIOUS
<1> QED  BY <1>1 DEF Heights

LEMMA DefsIn ==
  ASSUME NEW R, NEW s \in Seq(R)
  PROVE  Defs(s) \subseteq R
  BY DEF Defs

\* The k topmost operands, and the others.
LEMMA TopBelow ==
  ASSUME NEW c \in Nat, values \in Seq(1 .. c), NEW k \in Nat, k <= Len(values)
  PROVE  /\ Top(k) \in Seq(1 .. c) /\ Len(Top(k)) = k
         /\ \A m \in 1 .. k : Top(k)[m] = values[Len(values) - k + m]
         /\ Below(k) \in Seq(1 .. c) /\ Len(Below(k)) = Len(values) - k
         /\ \A j \in 1 .. Len(values) - k : Below(k)[j] = values[j]
<1> DEFINE n == Len(values)
<1>1. n \in Nat /\ \A j \in 1 .. n : values[j] \in 1 .. c
  OBVIOUS
<1> DEFINE m1 == n - k + 1
<1>2. m1 \in Int /\ n - k \in Int /\ 1 \in Int /\ n - m1 + 1 = k /\ (n - k) - 1 + 1 = n - k /\ k <= n
  BY <1>1
<1>3. (\A i \in m1 .. n : values[i] \in 1 .. c) /\ \A i \in 1 .. n - k : values[i] \in 1 .. c
  BY <1>1
<1>4. /\ SubSeq(values, m1, n) \in Seq(1 .. c)
      /\ Len(SubSeq(values, m1, n)) = IF m1 <= n THEN n - m1 + 1 ELSE 0
      /\ \A i \in 1 .. n - m1 + 1 : SubSeq(values, m1, n)[i] = values[m1 + i - 1]
  BY <1>1, <1>2, <1>3, SubSeqProperties, SMTT(60)
<1>5. /\ SubSeq(values, 1, n - k) \in Seq(1 .. c)
      /\ Len(SubSeq(values, 1, n - k)) = IF 1 <= n - k THEN (n - k) - 1 + 1 ELSE 0
      /\ \A i \in 1 .. (n - k) - 1 + 1 : SubSeq(values, 1, n - k)[i] = values[1 + i - 1]
  BY <1>1, <1>2, <1>3, SubSeqProperties
<1>6. Len(SubSeq(values, m1, n)) = k /\ Len(SubSeq(values, 1, n - k)) = n - k
  <2> HIDE DEF n
  <2>1. (m1 <= n <=> k >= 1) /\ (1 <= n - k <=> n - k # 0) /\ n - k \in Nat
    BY <1>1, <1>2
  <2> HIDE DEF m1
  <2>2. CASE k = 0
    BY <1>2, <1>4, <1>5, <2>1, <2>2
  <2>3. CASE k # 0
    <3>1. m1 <= n
      BY <2>1, <2>3
    <3> QED  BY <1>2, <1>4, <1>5, <2>1, <3>1
  <2> QED  BY <2>2, <2>3
<1>7. \A m \in 1 .. k : m1 + m - 1 = n - k + m
  BY <1>1
<1>8. \A j \in 1 .. n - k : 1 + j - 1 = j
  BY <1>1
<1> QED  BY <1>2, <1>4, <1>5, <1>6, <1>7, <1>8 DEF Top, Below, n

\* Placing an instruction that takes the k topmost operands and leaves r.
LEMMA Place ==
  ASSUME IInv, NEW k \in 0 .. 2, k <= Len(values), NEW op, NEW arg,
         \/ evis_bind(op, arg, k)
         \/ evis_do(op, arg, k)
  PROVE  /\ ValuesInv' /\ OperandsOnTop'
         /\ Defs(values') \subseteq 1 .. Len(code') /\ temp_count' \in Nat
         /\ \A i \in 1 .. Len(code') : /\ Defs(code'[i].inputs) \subseteq 1 .. i - 1
                                       /\ code'[i].temp \in Nat
         /\ evis_bind(op, arg, k) => Len(values') = Len(values) - k + 1
         /\ evis_do(op, arg, k) => Len(values') = Len(values) - k
<1> PICK S : code \in Seq(S)
  BY DEF IInv, ValuesInv
<1> DEFINE n == Len(values)
           c == Len(code)
           t == temp_count'
           bind == evis_bind(op, arg, k)
           new == code'[c + 1]
<1>1. /\ values \in Seq(1 .. c) /\ n \in Nat /\ c \in Nat /\ temp_count = n /\ k \in Nat
      /\ \A j \in 1 .. n : values[j] \in 1 .. c
  BY DEF IInv, ValuesInv
<1>2. \A j \in 1 .. n : /\ code[values[j]].temp = j
                        /\ \A i \in values[j] + 1 .. c : code[i].temp = Unset \/ code[i].temp > j
  BY DEF IInv, ValuesInv
<1>3. \A i \in 1 .. c : code[i].inputs \in Seq(1 .. i - 1) /\ Defs(code[i].inputs) \subseteq 1 .. i - 1 /\ code[i].temp \in Nat
  BY DEF IInv, TypeOK, ValuesInv
<1>4. /\ Top(k) \in Seq(1 .. c) /\ Len(Top(k)) = k /\ \A m \in 1 .. k : Top(k)[m] = values[n - k + m]
      /\ Below(k) \in Seq(1 .. c) /\ Len(Below(k)) = n - k /\ \A j \in 1 .. n - k : Below(k)[j] = values[j]
  BY <1>1, TopBelow
<1>5. /\ t \in Nat /\ code' = Append(code, new) /\ new.inputs = Top(k) /\ Len(code') = c + 1
      /\ bind => t = n - k + 1 /\ new.temp = t /\ values' = Append(Below(k), c + 1)
      /\ ~bind => t = n - k /\ new.temp = Unset /\ values' = Below(k)
      /\ \A i \in 1 .. c : code'[i] = code[i]
      /\ code' \in Seq(S \cup {new})
  <2> DEFINE instr == Instr(op, arg, Top(k), IF bind THEN t ELSE Unset)
  <2>1. /\ code' = Append(code, instr)
        /\ bind => t = n - k + 1 /\ values' = Append(Below(k), Len(code'))
        /\ ~bind => t = n - k /\ values' = Below(k)
    BY <1>1 DEF evis_bind, evis_do
  <2>2. instr.inputs = Top(k) /\ instr.temp = IF bind THEN t ELSE Unset
    BY DEF Instr
  <2> HIDE DEF instr, bind
  <2>3. /\ Len(code') = c + 1 /\ code'[c + 1] = instr /\ (\A i \in 1 .. c : code'[i] = code[i])
        /\ code' \in Seq(S \cup {instr})
    BY <1>1, <2>1
  <2>4. n - k \in Nat /\ n - k + 1 \in Nat
    BY <1>1
  <2> QED  BY <2>1, <2>2, <2>3, <2>4
<1> HIDE DEF new
<1>6. /\ values' \in Seq(1 .. c + 1)
      /\ bind => /\ Len(values') = n - k + 1 /\ values'[n - k + 1] = c + 1
                 /\ \A j \in 1 .. n - k : values'[j] = values[j]
      /\ ~bind => Len(values') = n - k /\ \A j \in 1 .. n - k : values'[j] = values[j]
  <2>1. Below(k) \in Seq(1 .. c + 1) /\ c + 1 \in 1 .. c + 1
    <3>1. 1 .. c \subseteq 1 .. c + 1 /\ c + 1 \in 1 .. c + 1
      BY <1>1
    <3> QED  BY <1>4, <3>1, SeqMonotonic
  <2> HIDE DEF bind
  <2>2. CASE bind
    <3>1. values' = Append(Below(k), c + 1) /\ n - k \in Nat
      BY <1>1, <1>5, <2>2
    <3>2. /\ Append(Below(k), c + 1) \in Seq(1 .. c + 1)
          /\ Len(Append(Below(k), c + 1)) = Len(Below(k)) + 1
          /\ \A i \in 1 .. Len(Below(k)) : Append(Below(k), c + 1)[i] = Below(k)[i]
          /\ Append(Below(k), c + 1)[Len(Below(k)) + 1] = c + 1
      BY <2>1, AppendProperties
    <3> QED  BY <1>4, <2>2, <3>1, <3>2
  <2>3. CASE ~bind
    BY <1>4, <1>5, <2>1, <2>3
  <2> QED  BY <2>2, <2>3
<1> HIDE DEF bind
<1>7. ASSUME NEW j \in 1 .. Len(values')
      PROVE  /\ code'[values'[j]].temp = j
             /\ \A i \in values'[j] + 1 .. c + 1 : code'[i].temp = Unset \/ code'[i].temp > j
  <2>1. CASE j \in 1 .. n - k
    <3>1. values'[j] = values[j] /\ j \in 1 .. n /\ values[j] \in 1 .. c
      BY <1>1, <1>6, <2>1, SMTT(60)
    <3>2. code'[values'[j]].temp = j
      BY <1>2, <1>5, <3>1
    <3>3. code'[c + 1].temp = Unset \/ code'[c + 1].temp > j
      <4>1. j < n - k + 1
        BY <1>1, <2>1
      <4> QED  BY <1>5, <4>1 DEF new
    <3>4. \A i \in values'[j] + 1 .. c + 1 : i = c + 1 \/ (i \in values[j] + 1 .. c /\ i \in 1 .. c)
      <4>1. c \in Int
        BY <1>1
      <4>2. \A d \in Int : \A p \in 1 .. d : \A i \in p + 1 .. d + 1 : i = d + 1 \/ (i \in p + 1 .. d /\ i \in 1 .. d)
        OBVIOUS
      <4>3. \A p \in 1 .. c : \A i \in p + 1 .. c + 1 : i = c + 1 \/ (i \in p + 1 .. c /\ i \in 1 .. c)
        BY <4>1, <4>2, Zenon
      <4> QED  BY <3>1, <4>3
    <3> QED  BY <1>2, <1>5, <3>1, <3>2, <3>3, <3>4
  <2>2. CASE j \notin 1 .. n - k
    <3>1. bind /\ j = n - k + 1
      BY <1>1, <1>6, <2>2
    <3>2. values'[j] = c + 1 /\ code'[c + 1].temp = j /\ (c + 1) + 1 .. c + 1 = {}
      BY <1>1, <1>5, <1>6, <3>1 DEF new
    <3> QED  BY <3>2
  <2> QED  BY <2>1, <2>2
<1>8. t = Len(values')
  BY <1>5, <1>6
<1>9. ValuesInv'
  <2>1. \E R : code' \in Seq(R)
    BY <1>5
  <2>2. \A i \in 1 .. c + 1 : i = c + 1 \/ i \in 1 .. c
    BY <1>1
  <2>3. (c + 1) - 1 = c
    BY <1>1
  <2>4. new.inputs \in Seq(1 .. c)
    BY <1>4, <1>5
  <2>5. \A i \in 1 .. c + 1 : code'[i].inputs \in Seq(1 .. i - 1)
    BY <1>3, <1>5, <2>2, <2>3, <2>4 DEF new
  <2> QED  BY <1>5, <1>6, <1>7, <1>8, <2>1, <2>5 DEF ValuesInv, Unset
<1>10. OperandsOnTop'
  <2> SUFFICES ASSUME NEW i \in 1 .. c + 1, NEW m \in DOMAIN code'[i].inputs
               PROVE  LET in == code'[i].inputs IN
                      /\ code'[in[m]].temp = code'[in[1]].temp + m - 1
                      /\ \A j \in in[m] + 1 .. i - 1 : code'[j].temp = Unset \/ code'[j].temp > code'[in[m]].temp
                      /\ code'[i].temp \in {Unset, code'[in[1]].temp}
    BY <1>5 DEF OperandsOnTop, Unset
  <2>1. CASE i \in 1 .. c
    <3> DEFINE in == code[i].inputs
    <3>1. code'[i] = code[i] /\ m \in DOMAIN in
      BY <1>5, <2>1
    <3>2. \A p \in DOMAIN in : in[p] \in 1 .. i - 1
      BY <1>3, <2>1 DEF Defs
    <3>3. /\ code[in[m]].temp = code[in[1]].temp + m - 1
          /\ \A j \in in[m] + 1 .. i - 1 : code[j].temp = Unset \/ code[j].temp > code[in[m]].temp
          /\ code[i].temp \in {Unset, code[in[1]].temp}
      BY <2>1, <3>1 DEF IInv, OperandsOnTop
    <3>4. m \in Nat /\ m >= 1 /\ 1 \in DOMAIN in
      <4>1. in \in Seq(1 .. i - 1)
        BY <1>3, <2>1
      <4>2. DOMAIN in = 1 .. Len(in) /\ Len(in) \in Nat
        BY <4>1
      <4> HIDE DEF in
      <4> QED  BY <3>1, <4>2
    <3>5. \A p \in DOMAIN in : in[p] \in 1 .. c /\ code'[in[p]] = code[in[p]]
      <4>1. 1 .. i - 1 \subseteq 1 .. c
        BY <1>1, <2>1
      <4> QED  BY <1>5, <3>2, <4>1
    <3>6. \A j \in in[m] + 1 .. i - 1 : j \in 1 .. c /\ code'[j] = code[j]
      <4>1. \A p \in 1 .. i - 1 : \A j \in p + 1 .. i - 1 : j \in 1 .. c
        BY <1>1, <2>1
      <4> QED  BY <1>5, <3>1, <3>2, <4>1
    <3> QED  BY <3>1, <3>3, <3>4, <3>5, <3>6
  <2>2. CASE i = c + 1
    <3> DEFINE in == Top(k)
    <3>1. code'[i].inputs = in /\ DOMAIN in = 1 .. k
      BY <1>1, <1>4, <1>5, <2>2 DEF new
    <3>2. m \in 1 .. k /\ 1 \in 1 .. k /\ (n - k + m) \in 1 .. n /\ (n - k + 1) \in 1 .. n /\ n - k + m = (n - k + 1) + m - 1
      BY <1>1, <3>1, SMTT(60)
    <3>3. /\ in[m] = values[n - k + m] /\ in[1] = values[n - k + 1] /\ in[m] \in 1 .. c /\ in[1] \in 1 .. c
      BY <1>1, <1>4, <3>2
    <3>4. code'[in[m]].temp = n - k + m /\ code'[in[1]].temp = n - k + 1
      BY <1>2, <1>5, <3>2, <3>3
    <3>5. \A j \in in[m] + 1 .. c : code'[j].temp = Unset \/ code'[j].temp > n - k + m
      <4>1. \A p \in 1 .. c : \A j \in p + 1 .. c : j \in 1 .. c
        BY <1>1
      <4> QED  BY <1>2, <1>5, <3>2, <3>3, <4>1
    <3>6. code'[i].temp \in {Unset, n - k + 1}
      BY <1>5, <2>2 DEF new
    <3>7. i - 1 = c
      BY <1>1, <2>2
    <3> HIDE DEF in
    <3> QED  BY <3>1, <3>2, <3>4, <3>5, <3>6, <3>7
  <2> QED  BY <1>1, <2>1, <2>2
<1>11. Defs(values') \subseteq 1 .. Len(code')
  BY <1>5, <1>6, DefsIn
<1>12. ASSUME NEW i \in 1 .. c + 1
       PROVE  Defs(code'[i].inputs) \subseteq 1 .. i - 1 /\ code'[i].temp \in Nat
  <2>1. CASE i \in 1 .. c
    BY <1>3, <1>5, <2>1
  <2>2. CASE i = c + 1
    <3>1. i - 1 = c
      BY <1>1, <2>2
    <3>2. Defs(Top(k)) \subseteq 1 .. c
      BY <1>4 DEF Defs
    <3>3. code'[i].inputs = Top(k) /\ code'[i].temp \in Nat
      BY <1>5, <2>2 DEF new, Unset
    <3> QED  BY <3>1, <3>2, <3>3
  <2> QED  BY <1>1, <2>1, <2>2
<1>13. /\ evis_bind(op, arg, k) => Len(values') = n - k + 1
       /\ evis_do(op, arg, k) => Len(values') = n - k
  <2>1. evis_bind(op, arg, k) => t = n - k + 1
    BY <1>1 DEF evis_bind
  <2>2. evis_do(op, arg, k) => t = n - k
    BY <1>1 DEF evis_do
  <2> QED  BY <1>8, <2>1, <2>2
<1> QED  BY <1>5, <1>9, <1>10, <1>11, <1>12, <1>13
-----------------------------------------------------------------------------
\* Visits that only change what is still to visit.
LEMMA VisitOnly ==
  ASSUME IInv, UNCHANGED <<program, values, code, temp_count>>, child' \in 1 .. Len(program) + 1, open' \in BOOLEAN,
         StackInv'
  PROVE  IInv'
<1>1. TypeOK'
  BY DEF IInv, TypeOK, Defs
<1>2. ValuesInv'
  BY DEF IInv, ValuesInv, Unset
<1>3. OperandsOnTop'
  BY DEF IInv, OperandsOnTop, Unset
<1> QED  BY <1>1, <1>2, <1>3 DEF IInv

LEMMA SequenceStep ==
  ASSUME IInv, visit_sequence
  PROVE  IInv'
<1>1. /\ todo = <<>> /\ child <= Len(program) /\ child' = child + 1
      /\ todo' = <<Visit("effect", program[child])>>
      /\ UNCHANGED <<program, values, code, temp_count, open>>
  BY DEF visit_sequence
<1>2. Len(program) \in Nat /\ child \in 1 .. Len(program) + 1 /\ open \in BOOLEAN
  BY DEF IInv, TypeOK
<1>3. child' \in 1 .. Len(program) + 1
  BY <1>1, <1>2
<1>4. Len(values) = 0
  BY <1>1, AllAtOnce DEF IInv
<1> DEFINE visit == Visit("effect", program[child])
<1>5. Len(todo') = 1 /\ todo'[1].how = "effect" /\ \E S : todo' \in Seq(S)
  <2>1. visit.how = "effect"
    BY DEF Visit
  <2> HIDE DEF visit
  <2>2. todo' \in Seq({visit}) /\ Len(todo') = 1 /\ todo'[1] = visit
    BY <1>1 DEF visit
  <2> QED  BY <2>1, <2>2
<1> DEFINE G == [i \in 1 .. 2 |-> 0]
<1>6. \A F : F = G => Heights(F)'
  BY <1>1, <1>4, <1>5 DEF Heights, Needs, Delta
<1> HIDE DEF G
<1>7. StackInv'
  BY <1>5, <1>6 DEF StackInv
<1> QED  BY <1>1, <1>2, <1>3, <1>7, VisitOnly

LEMMA LiteralStep ==
  ASSUME IInv, visit_literal
  PROVE  IInv'
<1>1. todo # <<>> /\ todo' = Tail(todo) /\ UNCHANGED <<program, child, open>>
  BY DEF visit_literal, IsVisit
<1>2. StackInv /\ Len(values) \in Nat
  BY <1>1, EnoughValues DEF IInv
<1>3. child \in 1 .. Len(program) + 1 /\ open \in BOOLEAN
  BY DEF IInv, TypeOK
<1>4. CASE IsVisit("value", "literal") /\ evis_bind("constant", Head(todo).node.value, 0)
  <2>1. Delta(Head(todo)) = 1
    BY <1>4 DEF IsVisit, Delta
  <2>2. 0 \in 0 .. 2 /\ 0 <= Len(values)
    BY <1>2
  <2>3. /\ ValuesInv' /\ OperandsOnTop' /\ Len(values') = Len(values) - 0 + 1
        /\ Defs(values') \subseteq 1 .. Len(code') /\ temp_count' \in Nat
        /\ \A i \in 1 .. Len(code') : Defs(code'[i].inputs) \subseteq 1 .. i - 1 /\ code'[i].temp \in Nat
    BY <1>4, <2>2, Place
  <2>4. StackInv'
    BY <1>1, <1>2, <2>1, <2>3, Pop
  <2>5. TypeOK'
    BY <1>1, <1>3, <2>3 DEF TypeOK, Defs
  <2> QED  BY <1>1, <2>3, <2>4, <2>5 DEF IInv
<1>5. CASE IsVisit("effect", "literal") /\ UNCHANGED <<values, code, temp_count>>
  <2>1. Delta(Head(todo)) = 0
    BY <1>5 DEF IsVisit, Delta
  <2>2. StackInv'
    BY <1>1, <1>2, <1>5, <2>1, Pop
  <2> QED  BY <1>1, <1>3, <1>5, <2>2, VisitOnly
<1> QED  BY <1>4, <1>5 DEF visit_literal

LEMMA OperandsStep ==
  ASSUME IInv, visit_binary_op \/ visit_store_or_return
  PROVE  IInv'
<1> DEFINE v == Head(todo)
<1>1. todo # <<>> /\ UNCHANGED <<program, child, values, code, temp_count, open>>
  BY DEF visit_binary_op, visit_store_or_return, IsVisit
<1>2. StackInv /\ child \in 1 .. Len(program) + 1 /\ open \in BOOLEAN
  BY DEF IInv, TypeOK
<1>3. \A node : Delta(Visit("value", node)) = 1 /\ Needs(Visit("value", node)) = 0
  BY DEF Delta, Needs, Visit
<1>4. CASE visit_binary_op
  <2> DEFINE left == Visit("value", v.node.left)
             right == Visit("value", v.node.right)
             then == Visit(Then[v.how], v.node)
  <2>1. todo' = <<left, right, then>> \o Tail(todo) /\ v.node.type = "binary_op" /\ v.how \in {"value", "effect"}
    BY <1>4 DEF visit_binary_op, IsVisit
  <2>2. Needs(then) <= 2 /\ Delta(then) + 2 = Delta(v) /\ Delta(then) \in Int
    <3>1. CASE v.how = "value"
      <4>1. then.how = "then_value"
        BY <3>1 DEF Then, Visit
      <4>2. Needs(then) = 2 /\ Delta(then) = -1 /\ Delta(v) = 1
        BY <3>1, <4>1 DEF Needs, Delta
      <4> QED  BY <4>2
    <3>2. CASE v.how = "effect"
      <4>1. then.how = "then_effect" /\ then.node = v.node
        BY <3>2 DEF Then, Visit
      <4>2. Needs(then) = 0 /\ Delta(then) = -2 /\ Delta(v) = 0
        BY <2>1, <3>2, <4>1 DEF Needs, Delta
      <4> QED  BY <4>2
    <3> QED  BY <2>1, <3>1, <3>2
  <2>3. Delta(left) = 1 /\ Needs(left) = 0 /\ Delta(right) = 1 /\ Needs(right) = 0
    BY <1>3
  <2> HIDE DEF left, right, then
  <2>4. StackInv'
    BY <1>1, <1>2, <2>1, <2>2, <2>3, Push
  <2> QED  BY <1>1, <1>2, <2>4, VisitOnly
<1>5. CASE visit_store_or_return
  <2> DEFINE left == Visit("value", v.node.value)
             then == Visit("then_effect", v.node)
  <2>1. todo' = <<left, then>> \o Tail(todo) /\ v.node.type # "binary_op" /\ v.how = "effect"
    BY <1>5 DEF visit_store_or_return, IsVisit
  <2>2. Needs(then) = 0 /\ Delta(then) + 1 = Delta(v) /\ Delta(then) \in Int
    <3>1. then.how = "then_effect" /\ then.node = v.node
      BY DEF Visit
    <3>2. Needs(then) = 0 /\ Delta(then) = -1 /\ Delta(v) = 0
      BY <2>1, <3>1 DEF Needs, Delta
    <3> QED  BY <3>2
  <2> HIDE DEF then
  <2>3. StackInv'
    BY <1>1, <1>2, <1>3, <2>1, <2>2, Push
  <2> QED  BY <1>1, <1>2, <2>3, VisitOnly
<1> QED  BY <1>4, <1>5

\* An instruction that takes k operands, when its visit has found them.
LEMMA PlaceStep ==
  ASSUME IInv, todo # <<>>, todo' = Tail(todo), UNCHANGED <<program, child>>, open' \in BOOLEAN,
         NEW k \in 1 .. 2, NEW op, NEW arg,
         \/ evis_bind(op, arg, k) /\ Needs(Head(todo)) = k /\ Delta(Head(todo)) = 1 - k
         \/ evis_do(op, arg, k) /\ Delta(Head(todo)) = 0 - k
  PROVE  IInv'
<1>1. StackInv /\ Len(values) \in Nat /\ Needs(Head(todo)) <= Len(values) /\ Len(values) + Delta(Head(todo)) \in Nat
  BY EnoughValues DEF IInv
<1>2. k \in 0 .. 2 /\ k <= Len(values)
  BY <1>1
<1>3. /\ ValuesInv' /\ OperandsOnTop'
      /\ Defs(values') \subseteq 1 .. Len(code') /\ temp_count' \in Nat
      /\ \A i \in 1 .. Len(code') : Defs(code'[i].inputs) \subseteq 1 .. i - 1 /\ code'[i].temp \in Nat
      /\ evis_bind(op, arg, k) => Len(values') = Len(values) - k + 1
      /\ evis_do(op, arg, k) => Len(values') = Len(values) - k
  BY <1>2, Place
<1>4. Len(values') = Len(values) + Delta(Head(todo))
  BY <1>1, <1>2, <1>3
<1>5. StackInv'
  BY <1>1, <1>4, Pop
<1>6. TypeOK'
  BY <1>3 DEF IInv, TypeOK, Defs
<1> QED  BY <1>3, <1>5, <1>6 DEF IInv

LEMMA ReturnsStep ==
  ASSUME IInv, return_binary_op \/ return_store_local \/ add_return_exit
  PROVE  IInv'
<1>1. todo # <<>> /\ todo' = Tail(todo) /\ UNCHANGED <<program, child>> /\ open' \in BOOLEAN
  BY DEF IInv, TypeOK, return_binary_op, return_store_local, add_return_exit, IsVisit
<1>2. 1 \in 1 .. 2 /\ 2 \in 1 .. 2
  OBVIOUS
<1>3. CASE return_binary_op
  <2>1. \/ /\ evis_bind("binary_op", Head(todo).node.oper, 2)
           /\ Needs(Head(todo)) = 2 /\ Delta(Head(todo)) = 1 - 2
        \/ /\ evis_do("binary_op", Head(todo).node.oper, 2)
           /\ Delta(Head(todo)) = 0 - 2
    BY <1>3 DEF return_binary_op, IsVisit, Needs, Delta
  <2> QED  BY <1>1, <1>2, <2>1, PlaceStep
<1>4. CASE return_store_local
  <2>1. evis_do("store_local", Head(todo).node.local, 1) /\ Delta(Head(todo)) = 0 - 1
    BY <1>4 DEF return_store_local, IsVisit, Delta
  <2> QED  BY <1>1, <1>2, <2>1, PlaceStep
<1>5. CASE add_return_exit
  <2>1. evis_do("return", Unset, 1) /\ Delta(Head(todo)) = 0 - 1
    BY <1>5 DEF add_return_exit, IsVisit, Delta
  <2> QED  BY <1>1, <1>2, <2>1, PlaceStep
<1> QED  BY <1>3, <1>4, <1>5

LEMMA StepInv == IInv /\ [Next]_vars => IInv'
<1> SUFFICES ASSUME IInv, [Next]_vars PROVE IInv'
  OBVIOUS
<1>1. CASE Next
  BY <1>1, SequenceStep, LiteralStep, OperandsStep, ReturnsStep DEF Next
<1>2. CASE UNCHANGED vars
  <2>1. UNCHANGED <<program, child, todo, values, code, temp_count, open>>
    BY <1>2 DEF vars
  <2>2. child \in 1 .. Len(program) + 1 /\ open \in BOOLEAN
    BY DEF IInv, TypeOK
  <2>3. StackInv'
    BY <2>1 DEF IInv, StackInv, Heights, Needs, Delta
  <2> QED  BY <2>1, <2>2, <2>3, VisitOnly
<1> QED  BY <1>1, <1>2

(* The inductive invariant holds while any tree is built.                  *)
THEOREM Invariant == Spec => []IInv
  BY InitInv, StepInv, PTL DEF Spec

(* The count of temporaries never goes below zero, and an instruction only *)
(* uses definitions that were placed before it.                            *)
THEOREM TypeCorrect == Spec => []TypeOK
<1>1. IInv => TypeOK
  BY DEF IInv
<1> QED  BY <1>1, Invariant, PTL

(* For every tree that the constructors of ast.c make, temp_index is a     *)
(* stack slot: the operands of each instruction are the topmost            *)
(* temporaries, in order, and none of them was given away in between.      *)
THEOREM OperandStack == Spec => []OperandsOnTop
<1>1. IInv => OperandsOnTop
  BY DEF IInv
<1> QED  BY <1>1, Invariant, PTL

(* Every statement gives back the temporaries it took, however deep its    *)
(* expression and whatever it is used for.                                 *)
THEOREM StatementsBalanced == Spec => []TempsBalanced
<1>1. IInv => TempsBalanced
  BY AllAtOnce DEF IInv, ValuesInv, TempsBalanced
<1> QED  BY <1>1, Invariant, PTL
-----------------------------------------------------------------------------
(* Strong induction over the numbers, and what Picked picks.               *)

\* Induction over a set of numbers: what the recursive functions of the model
\* need, as facts about sets.
LEMMA LeastNumber ==
  ASSUME NEW S \in SUBSET Nat, S # {}
  PROVE  \E n \in S : \A m \in S : n <= m
<1> DEFINE R == OpToRel(<, Nat)
<1>1. IsWellFoundedOn(R, Nat)
  BY NatLessThanWellFounded
<1>2. \A m, n \in Nat : m < n => <<m, n>> \in R
  BY DEF OpToRel
<1> HIDE DEF R
<1>3. PICK n \in S : \A m \in S : ~ (<<m, n>> \in R)
  BY <1>1, WFMin
<1>4. ASSUME NEW m \in S PROVE n <= m
  <2>1. m \in Nat /\ n \in Nat
    OBVIOUS
  <2>2. ~ (m < n)
    BY <1>2, <1>3, <2>1, Zenon
  <2> QED  BY <2>1, <2>2
<1> QED  BY <1>4

LEMMA Induction ==
  ASSUME NEW n \in Nat, NEW S, \A k \in 0 .. n : (\A j \in 0 .. k - 1 : j \in S) => k \in S
  PROVE  \A k \in 0 .. n : k \in S
<1> DEFINE Bad == {k \in 0 .. n : k \notin S}
<1> SUFFICES ASSUME Bad # {} PROVE FALSE
  OBVIOUS
<1>1. Bad \in SUBSET Nat
  OBVIOUS
<1>2. PICK k \in Bad : \A m \in Bad : k <= m
  <2> HIDE DEF Bad
  <2> QED  BY <1>1, LeastNumber
<1>3. \A j \in 0 .. k - 1 : j \in 0 .. n /\ ~ (k <= j)
  OBVIOUS
<1> QED  BY <1>2, <1>3

\* f[i] is what K picks of the first i elements of s.
IsPick(f, K, s) == /\ f[0] = <<>>
                   /\ \A i \in 1 .. Len(s) : f[i] = IF i \in K THEN Append(f[i - 1], s[i]) ELSE f[i - 1]

PickFunction(f, K, s) == f = [i \in 0 .. Len(s) |-> IF i = 0 THEN <<>>
                                                    ELSE IF i \in K THEN Append(f[i - 1], s[i])
                                                    ELSE f[i - 1]]

LEMMA PickExists ==
  ASSUME NEW K, NEW s, Len(s) \in Nat
  PROVE  \E f : PickFunction(f, K, s)
<1> DEFINE n == Len(s)
           Body(g, i) == IF i = 0 THEN <<>> ELSE IF i \in K THEN Append(g[i - 1], s[i]) ELSE g[i - 1]
           UpTo(g, k) == \A i \in 0 .. k : g[i] = Body(g, i)
           Good == {k \in 0 .. n : \E g : UpTo(g, k)}
<1>1. ASSUME NEW k \in 0 .. n, \A j \in 0 .. k - 1 : j \in Good
      PROVE  k \in Good
  <2>1. CASE k = 0
    <3>1. UpTo([i \in 0 .. n |-> <<>>], 0)
      OBVIOUS
    <3> QED  BY <2>1, <3>1
  <2>2. CASE k # 0
    <3>1. PICK g : UpTo(g, k - 1)
      <4>1. k - 1 \in 0 .. k - 1
        BY <2>2
      <4> QED  BY <1>1, <4>1
    <3> DEFINE h == [i \in 0 .. n |-> IF i = k THEN Body(g, k) ELSE g[i]]
    <3>2. ASSUME NEW i \in 0 .. k PROVE h[i] = Body(h, i)
      <4>1. CASE i = k
        BY <2>2, <4>1
      <4>2. CASE i # k
        <5>1. i \in 0 .. k - 1 /\ i \in 0 .. n /\ (i # 0 => i - 1 \in 0 .. n /\ i - 1 # k)
          BY <4>2
        <5>2. h[i] = g[i] /\ (i # 0 => h[i - 1] = g[i - 1])
          BY <4>2, <5>1
        <5> QED  BY <3>1, <5>1, <5>2
      <4> QED  BY <4>1, <4>2
    <3> HIDE DEF h
    <3>3. UpTo(h, k)
      BY <3>2
    <3> QED  BY <3>3
  <2> QED  BY <2>1, <2>2
<1>2. n \in Good
  <2> HIDE DEF Good
  <2>1. \A k \in 0 .. n : k \in Good
    BY <1>1, Induction
  <2> QED  BY <2>1
<1>3. PICK g : UpTo(g, n)
  BY <1>2
<1> DEFINE f == [i \in 0 .. n |-> g[i]]
<1>4. f = [i \in 0 .. n |-> Body(f, i)]
  <2>1. \A i \in 0 .. n : f[i] = Body(f, i)
    BY <1>3
  <2> QED  BY <2>1
<1> QED  BY <1>4 DEF PickFunction

LEMMA PickIs ==
  ASSUME NEW K, NEW s, Len(s) \in Nat
  PROVE  \E f : IsPick(f, K, s) /\ Picked(K, s) = f[Len(s)]
<1> DEFINE pick == CHOOSE f : f = [i \in 0 .. Len(s) |-> IF i = 0 THEN <<>>
                                                         ELSE IF i \in K THEN Append(f[i - 1], s[i])
                                                         ELSE f[i - 1]]
<1>1. pick = [i \in 0 .. Len(s) |-> IF i = 0 THEN <<>>
                                    ELSE IF i \in K THEN Append(pick[i - 1], s[i])
                                    ELSE pick[i - 1]]
  <2>1. PICK g : PickFunction(g, K, s)
    BY PickExists
  <2>2. g = [i \in 0 .. Len(s) |-> IF i = 0 THEN <<>>
                                   ELSE IF i \in K THEN Append(g[i - 1], s[i])
                                   ELSE g[i - 1]]
    BY <2>1 DEF PickFunction
  <2> QED  BY <2>2
<1>2. IsPick(pick, K, s)
  <2> HIDE DEF pick
  <2>1. \A i \in 0 .. Len(s) : pick[i] = IF i = 0 THEN <<>>
                                         ELSE IF i \in K THEN Append(pick[i - 1], s[i])
                                         ELSE pick[i - 1]
    <3> DEFINE F == [i \in 0 .. Len(s) |-> IF i = 0 THEN <<>>
                                          ELSE IF i \in K THEN Append(pick[i - 1], s[i])
                                          ELSE pick[i - 1]]
    <3>1. pick = F
      BY <1>1
    <3>2. \A i \in 0 .. Len(s) : F[i] = IF i = 0 THEN <<>>
                                        ELSE IF i \in K THEN Append(pick[i - 1], s[i])
                                        ELSE pick[i - 1]
      OBVIOUS
    <3> HIDE DEF F
    <3> QED  BY <3>1, <3>2
  <2> QED  BY <2>1 DEF IsPick
<1>3. Picked(K, s) = pick[Len(s)]
  BY DEF Picked
<1> QED  BY <1>2, <1>3

\* Where two sequences agree, so does what is picked of them.
LEMMA PickAgree ==
  ASSUME NEW K, NEW s, Len(s) \in Nat, NEW f, IsPick(f, K, s),
         NEW J, NEW t, Len(t) \in Nat, NEW g, IsPick(g, J, t),
         NEW n \in Nat, n <= Len(s), n <= Len(t),
         \A i \in 1 .. n : s[i] = t[i] /\ (i \in K <=> i \in J)
  PROVE  \A i \in 0 .. n : f[i] = g[i]
<1> DEFINE Good == {k \in 0 .. n : f[k] = g[k]}
<1>1. ASSUME NEW k \in 0 .. n, \A j \in 0 .. k - 1 : j \in Good
      PROVE  k \in Good
  <2>1. CASE k = 0
    BY <2>1 DEF IsPick
  <2>2. CASE k # 0
    <3>1. k - 1 \in 0 .. k - 1 /\ k \in 1 .. Len(s) /\ k \in 1 .. Len(t) /\ k \in 1 .. n
      BY <2>2
    <3>2. f[k - 1] = g[k - 1]
      BY <1>1, <3>1
    <3> QED  BY <3>1, <3>2 DEF IsPick
  <2> QED  BY <2>1, <2>2
<1> HIDE DEF Good
<1>2. \A k \in 0 .. n : k \in Good
  BY <1>1, Induction
<1> QED  BY <1>2 DEF Good

\* Nothing is picked behind place m.
LEMMA PickTail ==
  ASSUME NEW K, NEW s, Len(s) \in Nat, NEW f, IsPick(f, K, s),
         NEW m \in 0 .. Len(s), \A i \in m + 1 .. Len(s) : i \notin K
  PROVE  f[Len(s)] = f[m]
<1> DEFINE n == Len(s) - m
           Good == {k \in 0 .. n : f[m + k] = f[m]}
<1>1. ASSUME NEW k \in 0 .. n, \A j \in 0 .. k - 1 : j \in Good
      PROVE  k \in Good
  <2>1. CASE k = 0
    <3>1. m + 0 = m
      OBVIOUS
    <3> QED  BY <2>1, <3>1
  <2>2. CASE k # 0
    <3>1. k - 1 \in 0 .. k - 1 /\ m + k \in 1 .. Len(s) /\ m + k \in m + 1 .. Len(s) /\ (m + k) - 1 = m + (k - 1)
      BY <2>2
    <3>2. f[m + (k - 1)] = f[m]
      BY <1>1, <3>1
    <3>3. f[m + k] = f[(m + k) - 1]
      BY <3>1 DEF IsPick
    <3> QED  BY <3>1, <3>2, <3>3
  <2> QED  BY <2>1, <2>2
<1>2. n \in Nat /\ m + n = Len(s)
  OBVIOUS
<1> HIDE DEF Good, n
<1>3. \A k \in 0 .. n : k \in Good
  BY <1>1, <1>2, Induction
<1>4. n \in Good
  BY <1>2, <1>3
<1> QED  BY <1>2, <1>4 DEF Good

\* One element more.
LEMMA PickGrows ==
  ASSUME NEW K, NEW s, NEW J, NEW t, Len(s) \in Nat, Len(t) = Len(s) + 1,
         \A i \in 1 .. Len(s) : s[i] = t[i] /\ (i \in K <=> i \in J)
  PROVE  Picked(J, t) = IF Len(t) \in J THEN Append(Picked(K, s), t[Len(t)]) ELSE Picked(K, s)
<1> DEFINE n == Len(s)
<1>1. PICK f : IsPick(f, K, s) /\ Picked(K, s) = f[n]
  BY PickIs
<1>2. Len(t) \in Nat /\ n \in 0 .. n /\ n + 1 \in 1 .. Len(t) /\ (n + 1) - 1 = n
  OBVIOUS
<1>3. PICK g : IsPick(g, J, t) /\ Picked(J, t) = g[n + 1]
  BY <1>2, PickIs
<1>4. f[n] = g[n]
  BY <1>1, <1>2, <1>3, PickAgree
<1>5. g[n + 1] = IF n + 1 \in J THEN Append(g[n], t[n + 1]) ELSE g[n]
  BY <1>2, <1>3 DEF IsPick
<1> QED  BY <1>1, <1>3, <1>4, <1>5

-----------------------------------------------------------------------------
(* What the instructions mean.                                             *)

\* Every instruction with operands has them in front of it.
Shaped(c) == /\ Len(c) \in Nat
             /\ \A i \in 1 .. Len(c) : /\ c[i].op # "constant" => c[i].inputs[1] \in 1 .. i - 1
                                       /\ c[i].op = "binary_op" => c[i].inputs[2] \in 1 .. i - 1

MeaningFunction(f, c) ==
  f = [i \in 1 .. Len(c) |-> CASE c[i].op = "constant" -> Literal(c[i].arg)
                               [] c[i].op = "binary_op" -> BinaryOp(c[i].arg, f[c[i].inputs[1]],
                                                                              f[c[i].inputs[2]])
                               [] OTHER -> f[c[i].inputs[1]]]

\* f[i] is the expression that c[i] computes.
IsMeaning(f, c) ==
  \A i \in 1 .. Len(c) :
    /\ c[i].op = "constant" => f[i] = Literal(c[i].arg)
    /\ c[i].op = "binary_op" => f[i] = BinaryOp(c[i].arg, f[c[i].inputs[1]], f[c[i].inputs[2]])
    /\ c[i].op \notin {"constant", "binary_op"} => f[i] = f[c[i].inputs[1]]

LEMMA MeaningExists ==
  ASSUME NEW c, Shaped(c)
  PROVE  \E f : MeaningFunction(f, c)
<1> DEFINE n == Len(c)
           Body(g, i) == CASE c[i].op = "constant" -> Literal(c[i].arg)
                           [] c[i].op = "binary_op" -> BinaryOp(c[i].arg, g[c[i].inputs[1]],
                                                                          g[c[i].inputs[2]])
                           [] OTHER -> g[c[i].inputs[1]]
           UpTo(g, k) == \A i \in 1 .. k : g[i] = Body(g, i)
           Good == {k \in 0 .. n : \E g : UpTo(g, k)}
<1>0. n \in Nat
  BY DEF Shaped
\* A body looks at earlier places only.
<1>1. ASSUME NEW g, NEW h, NEW k \in 1 .. n, \A i \in 1 .. k - 1 : g[i] = h[i]
      PROVE  Body(g, k) = Body(h, k)
  <2>1. CASE c[k].op = "constant"
    BY <2>1
  <2>2. CASE c[k].op = "binary_op"
    <3>1. c[k].inputs[1] \in 1 .. k - 1 /\ c[k].inputs[2] \in 1 .. k - 1
      BY <2>2 DEF Shaped
    <3>2. g[c[k].inputs[1]] = h[c[k].inputs[1]] /\ g[c[k].inputs[2]] = h[c[k].inputs[2]]
      BY <1>1, <3>1
    <3> QED  BY <2>2, <3>2
  <2>3. CASE c[k].op \notin {"constant", "binary_op"}
    <3>1. c[k].inputs[1] \in 1 .. k - 1
      BY <2>3 DEF Shaped
    <3>2. g[c[k].inputs[1]] = h[c[k].inputs[1]]
      BY <1>1, <3>1
    <3> QED  BY <2>3, <3>2
  <2> QED  BY <2>1, <2>2, <2>3
<1> HIDE DEF Body
<1>2. ASSUME NEW k \in 0 .. n, \A j \in 0 .. k - 1 : j \in Good
      PROVE  k \in Good
  <2>1. CASE k = 0
    <3>1. UpTo([i \in 1 .. n |-> <<>>], 0)
      OBVIOUS
    <3> QED  BY <2>1, <3>1
  <2>2. CASE k # 0
    <3>1. PICK g : UpTo(g, k - 1)
      <4>1. k - 1 \in 0 .. k - 1
        BY <2>2
      <4> QED  BY <1>2, <4>1
    <3> DEFINE h == [i \in 1 .. n |-> IF i = k THEN Body(g, k) ELSE g[i]]
    <3>2. h[k] = Body(g, k) /\ \A i \in 1 .. k - 1 : h[i] = g[i]
      BY <1>0, <2>2
    <3> HIDE DEF h
    <3>3. ASSUME NEW i \in 1 .. k PROVE h[i] = Body(h, i)
      <4>1. i \in 1 .. n /\ \A j \in 1 .. i - 1 : j \in 1 .. k - 1
        BY <1>0
      <4>2. \A j \in 1 .. i - 1 : g[j] = h[j]
        BY <3>2, <4>1
      <4>3. Body(g, i) = Body(h, i)
        BY <1>1, <4>1, <4>2
      <4>4. CASE i = k
        BY <3>2, <4>3, <4>4
      <4>5. CASE i # k
        <5>1. i \in 1 .. k - 1
          BY <4>5
        <5> QED  BY <3>1, <3>2, <4>3, <5>1
      <4> QED  BY <4>4, <4>5
    <3>4. UpTo(h, k)
      BY <3>3
    <3> QED  BY <3>4
  <2> QED  BY <2>1, <2>2
<1>3. n \in Good
  <2> HIDE DEF Good
  <2>1. \A k \in 0 .. n : k \in Good
    BY <1>0, <1>2, Induction
  <2> QED  BY <1>0, <2>1
<1>4. PICK g : UpTo(g, n)
  BY <1>3
<1> DEFINE f == [i \in 1 .. n |-> g[i]]
<1>5. ASSUME NEW i \in 1 .. n PROVE f[i] = Body(f, i)
  <2>1. f[i] = g[i] /\ \A j \in 1 .. i - 1 : g[j] = f[j]
    BY <1>0
  <2> HIDE DEF f
  <2> QED  BY <1>1, <1>4, <2>1
<1>6. f = [i \in 1 .. n |-> Body(f, i)]
  BY <1>5
<1> QED  BY <1>6 DEF MeaningFunction, Body

LEMMA MeaningIs ==
  ASSUME NEW c, Shaped(c)
  PROVE  IsMeaning(Meaning(c), c)
<1> DEFINE expr == CHOOSE f :
             f = [i \in 1 .. Len(c) |-> CASE c[i].op = "constant" -> Literal(c[i].arg)
                                          [] c[i].op = "binary_op" -> BinaryOp(c[i].arg, f[c[i].inputs[1]],
                                                                                         f[c[i].inputs[2]])
                                          [] OTHER -> f[c[i].inputs[1]]]
<1>1. expr = [i \in 1 .. Len(c) |-> CASE c[i].op = "constant" -> Literal(c[i].arg)
                                      [] c[i].op = "binary_op" -> BinaryOp(c[i].arg, expr[c[i].inputs[1]],
                                                                                     expr[c[i].inputs[2]])
                                      [] OTHER -> expr[c[i].inputs[1]]]
  <2>1. PICK g : MeaningFunction(g, c)
    BY MeaningExists
  <2>2. g = [i \in 1 .. Len(c) |-> CASE c[i].op = "constant" -> Literal(c[i].arg)
                                     [] c[i].op = "binary_op" -> BinaryOp(c[i].arg, g[c[i].inputs[1]],
                                                                                    g[c[i].inputs[2]])
                                     [] OTHER -> g[c[i].inputs[1]]]
    BY <2>1 DEF MeaningFunction
  <2> QED  BY <2>2
<1>2. Meaning(c) = expr
  BY DEF Meaning
<1> HIDE DEF expr
<1>3. ASSUME NEW i \in 1 .. Len(c)
      PROVE  expr[i] = CASE c[i].op = "constant" -> Literal(c[i].arg)
                         [] c[i].op = "binary_op" -> BinaryOp(c[i].arg, expr[c[i].inputs[1]], expr[c[i].inputs[2]])
                         [] OTHER -> expr[c[i].inputs[1]]
  BY <1>1, Zenon
<1>4. IsMeaning(expr, c)
  BY <1>3 DEF IsMeaning
<1> QED  BY <1>2, <1>4

\* Code means the same wherever it stands in front.
LEMMA MeaningAgree ==
  ASSUME NEW c, NEW f, Shaped(c), IsMeaning(f, c), NEW d, NEW g, IsMeaning(g, d),
         NEW n \in Nat, n <= Len(c), n <= Len(d), Len(d) \in Nat,
         \A i \in 1 .. n : c[i] = d[i]
  PROVE  \A i \in 1 .. n : f[i] = g[i]
<1> DEFINE Good == {k \in 0 .. n : k # 0 => f[k] = g[k]}
<1>1. ASSUME NEW k \in 0 .. n, \A j \in 0 .. k - 1 : j \in Good
      PROVE  k \in Good
  <2> SUFFICES ASSUME k # 0 PROVE f[k] = g[k]
    OBVIOUS
  <2>1. k \in 1 .. Len(c) /\ k \in 1 .. Len(d) /\ d[k] = c[k]
    BY DEF Shaped
  <2>2. \A j \in 1 .. k - 1 : f[j] = g[j]
    BY <1>1
  <2> HIDE DEF Good
  <2>3. CASE c[k].op = "constant"
    BY <2>1, <2>3 DEF IsMeaning
  <2>4. CASE c[k].op = "binary_op"
    <3>1. c[k].inputs[1] \in 1 .. k - 1 /\ c[k].inputs[2] \in 1 .. k - 1
      BY <2>1, <2>4 DEF Shaped
    <3>2. /\ f[k] = BinaryOp(c[k].arg, f[c[k].inputs[1]], f[c[k].inputs[2]])
          /\ g[k] = BinaryOp(d[k].arg, g[d[k].inputs[1]], g[d[k].inputs[2]])
      BY <2>1, <2>4 DEF IsMeaning
    <3>3. f[c[k].inputs[1]] = g[c[k].inputs[1]] /\ f[c[k].inputs[2]] = g[c[k].inputs[2]]
      BY <2>2, <3>1
    <3> QED  BY <2>1, <3>2, <3>3
  <2>5. CASE c[k].op \notin {"constant", "binary_op"}
    <3>1. c[k].inputs[1] \in 1 .. k - 1
      BY <2>1, <2>5 DEF Shaped
    <3> QED  BY <2>1, <2>2, <2>5, <3>1 DEF IsMeaning
  <2> QED  BY <2>3, <2>4, <2>5
<1> HIDE DEF Good
<1>2. \A k \in 0 .. n : k \in Good
  BY <1>1, Induction
<1> QED  BY <1>2 DEF Good


\* What an instruction has beside its operands' places.
ShapeInv == \A i \in 1 .. Len(code) :
  /\ code[i].op \in {"constant", "binary_op", "store_local", "return"}
  /\ code[i].op = "constant" => code[i].temp # Unset
  /\ code[i].op = "binary_op" => Len(code[i].inputs) = 2
  /\ code[i].op \in {"store_local", "return"} => Len(code[i].inputs) = 1 /\ code[i].temp = Unset

LEMMA CodeShaped ==
  ASSUME IInv, ShapeInv
  PROVE  Shaped(code)
<1>1. Len(code) \in Nat
  BY DEF IInv, ValuesInv
<1>2. ASSUME NEW i \in 1 .. Len(code), code[i].op # "constant"
      PROVE  code[i].inputs[1] \in 1 .. i - 1 /\ (code[i].op = "binary_op" => code[i].inputs[2] \in 1 .. i - 1)
  <2>1. code[i].inputs \in Seq(1 .. i - 1)
    BY DEF IInv, ValuesInv
  <2>2. Len(code[i].inputs) \in {1, 2} /\ (code[i].op = "binary_op" => Len(code[i].inputs) = 2)
    BY <1>2 DEF ShapeInv
  <2>3. \A m \in 1 .. Len(code[i].inputs) : code[i].inputs[m] \in 1 .. i - 1
    BY <2>1
  <2> QED  BY <2>2, <2>3
<1> QED  BY <1>1, <1>2 DEF Shaped

\* One instruction more, with the k topmost operands.
LEMMA PlacedCode ==
  ASSUME IInv, ShapeInv, NEW k \in 0 .. 2, k <= Len(values), NEW op, NEW arg, NEW temp,
         code' = Append(code, Instr(op, arg, Top(k), temp)),
         \/ op = "constant" /\ k = 0 /\ temp # Unset
         \/ op = "binary_op" /\ k = 2
         \/ op \in {"store_local", "return"} /\ k = 1 /\ temp = Unset
  PROVE  /\ ShapeInv' /\ Len(code) \in Nat /\ Len(code') = Len(code) + 1
         /\ \A i \in 1 .. Len(code) : code'[i] = code[i] /\ Computes'[i] = Computes[i]
         /\ code'[Len(code')] = Instr(op, arg, Top(k), temp)
         /\ op = "constant" => Computes'[Len(code')] = Literal(arg)
         /\ op = "binary_op" => Computes'[Len(code')] = BinaryOp(arg, Computes[values[Len(values) - 1]],
                                                                     Computes[values[Len(values)]])
         /\ op \in {"store_local", "return"} => Computes'[Len(code')] = Computes[values[Len(values)]]
<1> DEFINE c == Len(code)
           n == Len(values)
           new == Instr(op, arg, Top(k), temp)
<1> PICK S : code \in Seq(S)
  BY DEF IInv, ValuesInv
<1>1. c \in Nat /\ Len(code') = c + 1 /\ code'[c + 1] = new /\ \A i \in 1 .. c : code'[i] = code[i]
  <2> HIDE DEF new
  <2> QED  BY DEF new
<1>2. new.op = op /\ new.arg = arg /\ new.inputs = Top(k) /\ new.temp = temp
  BY DEF Instr
<1>3. n \in Nat /\ values \in Seq(1 .. c)
  BY DEF IInv, ValuesInv
<1>4. Len(Top(k)) = k /\ \A m \in 1 .. k : Top(k)[m] = values[n - k + m] /\ values[n - k + m] \in 1 .. c
  <2> HIDE DEF new, c
  <2>1. k \in Nat
    OBVIOUS
  <2>2. Len(Top(k)) = k /\ \A m \in 1 .. k : Top(k)[m] = values[Len(values) - k + m]
    BY <1>1, <1>3, <2>1, TopBelow
  <2>3. \A m \in 1 .. k : n - k + m \in 1 .. n
    BY <1>3
  <2>4. \A j \in 1 .. n : values[j] \in 1 .. c
    BY <1>3, ElementOfSeq, Zenon
  <2>5. \A m \in 1 .. k : Top(k)[m] = values[n - k + m]
    BY <2>2
  <2> HIDE DEF n
  <2> QED  BY <2>2, <2>3, <2>4, <2>5
<1> HIDE DEF new
<1>5. ShapeInv'
  <2>1. \A i \in 1 .. c + 1 : i = c + 1 \/ i \in 1 .. c
    BY <1>1
  <2>2. ASSUME NEW i \in 1 .. c + 1
        PROVE  /\ code'[i].op \in {"constant", "binary_op", "store_local", "return"}
               /\ code'[i].op = "constant" => code'[i].temp # Unset
               /\ code'[i].op = "binary_op" => Len(code'[i].inputs) = 2
               /\ code'[i].op \in {"store_local", "return"} => Len(code'[i].inputs) = 1 /\ code'[i].temp = Unset
    <3>1. CASE i = c + 1
      BY <1>1, <1>2, <1>4, <3>1
    <3>2. CASE i \in 1 .. c
      BY <1>1, <3>2 DEF ShapeInv
    <3> QED  BY <2>1, <3>1, <3>2
  <2> QED  BY <1>1, <2>2 DEF ShapeInv, Unset
<1>6. Shaped(code) /\ IsMeaning(Computes, code)
  BY CodeShaped, MeaningIs DEF Computes
<1>7. Shaped(code')
  <2>1. ASSUME NEW i \in 1 .. c + 1
        PROVE  /\ code'[i].op # "constant" => code'[i].inputs[1] \in 1 .. i - 1
               /\ code'[i].op = "binary_op" => code'[i].inputs[2] \in 1 .. i - 1
    <3>1. CASE i = c + 1
      <4>1. i - 1 = c
        BY <1>1, <3>1
      <4>2. \A m \in 1 .. k : code'[i].inputs[m] \in 1 .. c
        BY <1>1, <1>2, <1>4, <3>1
      <4>3. (op # "constant" => 1 \in 1 .. k) /\ (op = "binary_op" => 2 \in 1 .. k)
        OBVIOUS
      <4> QED  BY <1>1, <1>2, <3>1, <4>1, <4>2, <4>3
    <3>2. CASE i # c + 1
      <4>1. i \in 1 .. c
        BY <1>1, <3>2
      <4> QED  BY <1>1, <1>6, <4>1 DEF Shaped
    <3> QED  BY <3>1, <3>2
  <2> QED  BY <1>1, <2>1 DEF Shaped
<1>8. IsMeaning(Computes', code')
  BY <1>7, MeaningIs DEF Computes
<1>9. \A i \in 1 .. c : Computes'[i] = Computes[i]
  <2>1. c <= Len(code') /\ c <= c /\ Len(code') \in Nat /\ c \in Nat
    BY <1>1
  <2>2. \A i \in 1 .. c : code[i] = code'[i]
    BY <1>1
  <2> DEFINE d == code'
             g == Computes'
             f == Computes
  <2>3. IsMeaning(f, code) /\ IsMeaning(g, d) /\ Shaped(code) /\ Len(d) \in Nat /\ c <= Len(d) /\ c <= Len(code)
    BY <1>6, <1>8, <2>1
  <2>4. \A i \in 1 .. c : code[i] = d[i]
    BY <2>2
  <2> HIDE DEF c, d, f, g
  <2>5. \A i \in 1 .. c : f[i] = g[i]
    BY <2>1, <2>3, <2>4, MeaningAgree
  <2> QED  BY <2>5 DEF f, g
<1>10. c + 1 \in 1 .. Len(code')
  BY <1>1
<1>11. op = "constant" => Computes'[c + 1] = Literal(arg)
  BY <1>1, <1>2, <1>8, <1>10 DEF IsMeaning
<1>12. op = "binary_op" => Computes'[c + 1] = BinaryOp(arg, Computes[values[n - 1]], Computes[values[n]])
  <2> SUFFICES ASSUME op = "binary_op" PROVE Computes'[c + 1] = BinaryOp(arg, Computes[values[n - 1]], Computes[values[n]])
    OBVIOUS
  <2>1. Computes'[c + 1] = BinaryOp(arg, Computes'[new.inputs[1]], Computes'[new.inputs[2]])
    <3>1. code'[c + 1].op = "binary_op" /\ code'[c + 1].arg = arg
      BY <1>1, <1>2
    <3>2. Computes'[c + 1] = BinaryOp(code'[c + 1].arg, Computes'[code'[c + 1].inputs[1]], Computes'[code'[c + 1].inputs[2]])
      BY <1>8, <1>10, <3>1 DEF IsMeaning
    <3> QED  BY <1>1, <3>1, <3>2
  <2>2. k = 2 /\ 1 \in 1 .. k /\ 2 \in 1 .. k /\ n - k + 1 = n - 1 /\ n - k + 2 = n
    BY <1>3
  <2>3. /\ new.inputs[1] = values[n - 1] /\ values[n - 1] \in 1 .. c
        /\ new.inputs[2] = values[n] /\ values[n] \in 1 .. c
    BY <1>2, <1>4, <2>2
  <2> QED  BY <1>9, <2>1, <2>3
<1>13. op \in {"store_local", "return"} => Computes'[c + 1] = Computes[values[n]]
  <2> SUFFICES ASSUME op \in {"store_local", "return"} PROVE Computes'[c + 1] = Computes[values[n]]
    OBVIOUS
  <2>1. Computes'[c + 1] = Computes'[new.inputs[1]]
    BY <1>1, <1>2, <1>8, <1>10 DEF IsMeaning
  <2>2. k = 1 /\ 1 \in 1 .. k /\ n - k + 1 = n
    BY <1>3
  <2>3. new.inputs[1] = values[n] /\ values[n] \in 1 .. c
    BY <1>2, <1>4, <2>2
  <2> QED  BY <1>9, <2>1, <2>3
<1> QED  BY <1>1, <1>5, <1>9, <1>11, <1>12, <1>13 DEF new

\* The values on the stack when it is a bind, or a do.
LEMMA PlacedValues ==
  ASSUME IInv, NEW k \in 0 .. 2, k <= Len(values), NEW c \in Nat, c >= Len(code)
  PROVE  /\ Len(Below(k)) = Len(values) - k
         /\ \A j \in 1 .. Len(values) - k : Below(k)[j] = values[j]
         /\ Len(Append(Below(k), c)) = Len(values) - k + 1
         /\ \A j \in 1 .. Len(values) - k : Append(Below(k), c)[j] = values[j]
         /\ Append(Below(k), c)[Len(values) - k + 1] = c
<1>1. Len(code) \in Nat /\ values \in Seq(1 .. Len(code)) /\ Len(values) \in Nat /\ k \in Nat
  BY DEF IInv, ValuesInv
<1>2. /\ Below(k) \in Seq(1 .. Len(code)) /\ Len(Below(k)) = Len(values) - k
      /\ \A j \in 1 .. Len(values) - k : Below(k)[j] = values[j]
  BY <1>1, TopBelow
<1>3. Below(k) \in Seq(Nat)
  <2>1. 1 .. Len(code) \subseteq Nat
    BY <1>1
  <2> QED  BY <1>2, <2>1, SeqMonotonic
<1>4. /\ Len(Append(Below(k), c)) = Len(Below(k)) + 1
      /\ \A i \in 1 .. Len(Below(k)) : Append(Below(k), c)[i] = Below(k)[i]
      /\ Append(Below(k), c)[Len(Below(k)) + 1] = c
  BY <1>3, AppendProperties
<1> QED  BY <1>2, <1>4

\* What the code stores and returns, when an instruction is added.
LEMMA PlacedEffect ==
  ASSUME Len(code) \in Nat, Len(code') = Len(code) + 1,
         \A i \in 1 .. Len(code) : code'[i] = code[i] /\ Computes'[i] = Computes[i]
  PROVE  Emitted' = IF code'[Len(code')].temp = Unset THEN Append(Emitted, Statement(Len(code))')
                    ELSE Emitted
<1> DEFINE s == [i \in 1 .. Len(code) |-> Statement(i)]
           t == [i \in 1 .. Len(code') |-> Statement(i)']
<1>1. Len(s) = Len(code) /\ Len(t) = Len(code')
  OBVIOUS
<1>2. \A i \in 1 .. Len(code) : Statement(i)' = Statement(i)
  BY DEF Statement
<1>3. \A i \in 1 .. Len(code) : s[i] = t[i] /\ (i \in Effects <=> i \in Effects')
  <2>1. \A i \in 1 .. Len(code) : i \in 1 .. Len(code')
    OBVIOUS
  <2>2. \A i \in 1 .. Len(code) : s[i] = t[i]
    BY <1>2, <2>1
  <2> QED  BY <2>1, <2>2 DEF Effects, Unset
<1>4. Emitted = Picked(Effects, s) /\ Emitted' = Picked(Effects', t)
  BY DEF Emitted
<1>5. Len(code') \in 1 .. Len(code') /\ t[Len(code')] = Statement(Len(code))'
  OBVIOUS
<1>6. Len(code') \in Effects' <=> code'[Len(code')].temp = Unset
  BY <1>5 DEF Effects, Unset
<1> HIDE DEF s, t
<1>7. Picked(Effects', t) = IF Len(t) \in Effects' THEN Append(Picked(Effects, s), t[Len(t)]) ELSE Picked(Effects, s)
  BY <1>1, <1>3, PickGrows
<1> QED  BY <1>1, <1>4, <1>5, <1>6, <1>7

-----------------------------------------------------------------------------
(* The visits to make and the operands at hand: S[p] is what the p-th      *)
(* visit finds, as trees.                                                  *)

\* A visit of one of the trees T, or of a statement over them.
VisitOK(v, T) == /\ v.how \in {"value", "then_value", "effect", "then_effect"}
                 /\ v.how = "value" => v.node \in T
                 /\ v.how = "then_value" => v.node \in T /\ v.node.type = "binary_op"
                 /\ v.how = "effect" => IsStatement(v.node, T)
                 /\ v.how = "then_effect" => /\ IsStatement(v.node, T)
                                             /\ v.node.type \in {"binary_op", "store_local", "return"}

\* The visit finds operands that compute the trees s, and leaves t.
Makes(v, s, t, T) ==
  /\ v.how = "value" => t = Append(s, v.node)
  /\ v.how = "effect" => t = s
  /\ v.how = "then_value" => \E r \in Seq(T) : /\ s = Append(Append(r, v.node.left), v.node.right)
                                               /\ t = Append(r, v.node)
  /\ v.how = "then_effect" => s = IF v.node.type = "binary_op" THEN Append(Append(t, v.node.left), v.node.right)
                                  ELSE Append(t, v.node.value)

\* The operands at hand compute the trees s.
AtHand(s) == /\ Len(s) = Len(values)
             /\ \A j \in 1 .. Len(values) : Computes[values[j]] = s[j]

\* S[p] is what the p-th visit will find.
Stacks(S, T) == /\ S \in [1 .. Len(todo) + 1 -> Seq(T)]
                /\ AtHand(S[1]) /\ S[Len(todo) + 1] = <<>>
                /\ \A p \in 1 .. Len(todo) : Makes(todo[p], S[p], S[p + 1], T)

Trees(T) == /\ \A e \in T : IsExpr(e, T)
            /\ IsProgram(program, T)
            /\ \A p \in 1 .. Len(todo) : VisitOK(todo[p], T)
            /\ \E S : Stacks(S, T)

LEMMA PopTrees ==
  ASSUME NEW R, todo \in Seq(R), todo # <<>>, todo' = Tail(todo),
         NEW T, NEW S, Stacks(S, T), \A p \in 1 .. Len(todo) : VisitOK(todo[p], T),
         AtHand(S[2])'
  PROVE  /\ \E G : Stacks(G, T)'
         /\ \A p \in 1 .. Len(todo') : VisitOK(todo'[p], T)
<1> DEFINE n == Len(todo)
           G == [i \in 1 .. n |-> S[i + 1]]
<1>1. n \in Nat /\ n >= 1 /\ Len(todo') = n - 1 /\ todo' \in Seq(R)
  OBVIOUS
<1>2. \A i \in 1 .. n - 1 : todo'[i] = todo[i + 1] /\ i + 1 \in 1 .. n
  BY <1>1
<1>3. /\ S \in [1 .. n + 1 -> Seq(T)] /\ S[n + 1] = <<>>
      /\ \A i \in 1 .. n : Makes(todo[i], S[i], S[i + 1], T)
  BY DEF Stacks
<1>4. G \in [1 .. n -> Seq(T)] /\ \A i \in 1 .. n : G[i] = S[i + 1]
  <2>1. \A i \in 1 .. n : i + 1 \in 1 .. n + 1
    BY <1>1
  <2> HIDE DEF n
  <2> QED  BY <1>3, <2>1
<1>5. G[1] = S[2] /\ G[n] = <<>> /\ Len(todo') + 1 = n
  BY <1>1, <1>3, <1>4
<1>6. \A i \in 1 .. n - 1 : Makes(todo'[i], G[i], G[i + 1], T)
  <2> HIDE DEF n, G
  <2>1. \A i \in 1 .. n - 1 : i \in 1 .. n /\ i + 1 \in 1 .. n
    BY <1>1
  <2> QED  BY <1>2, <1>3, <1>4, <2>1
<1> HIDE DEF n, G
<1>7. \A F : F = G => Stacks(F, T)'
  <2> SUFFICES ASSUME NEW F, F = G PROVE Stacks(F, T)'
    OBVIOUS
  <2>1. AtHand(F[1])'
    BY <1>5
  <2>2. \A p \in 1 .. Len(todo') : Makes(todo'[p], F[p], F[p + 1], T)
    BY <1>1, <1>6
  <2> QED  BY <1>4, <1>5, <2>1, <2>2 DEF Stacks, Makes
<1> QED  BY <1>1, <1>2, <1>7 DEF n

\* Visits of operands before what is left of a visit.
LEMMA PushTwo ==
  ASSUME NEW R, todo \in Seq(R), todo # <<>>, UNCHANGED <<values, code>>, NEW left, NEW right, NEW then,
         todo' = <<left, right, then>> \o Tail(todo),
         NEW T, NEW S, Stacks(S, T), \A p \in 1 .. Len(todo) : VisitOK(todo[p], T),
         VisitOK(left, T) /\ VisitOK(right, T) /\ VisitOK(then, T),
         NEW s2 \in Seq(T), NEW s3 \in Seq(T),
         Makes(left, S[1], s2, T) /\ Makes(right, s2, s3, T) /\ Makes(then, s3, S[2], T)
  PROVE  /\ \E G : Stacks(G, T)'
         /\ \A p \in 1 .. Len(todo') : VisitOK(todo'[p], T)
<1> DEFINE n == Len(todo)
           Q == R \cup {left, right, then}
           G == [i \in 1 .. n + 3 |-> IF i = 1 THEN S[1] ELSE IF i = 2 THEN s2
                                      ELSE IF i = 3 THEN s3 ELSE S[i - 2]]
<1>1. /\ n \in Nat /\ n >= 1 /\ Len(Tail(todo)) = n - 1
      /\ Tail(todo) \in Seq(Q)
  OBVIOUS
<1>2. \A i \in 1 .. n - 1 : Tail(todo)[i] = todo[i + 1]
  BY <1>1
<1>3. /\ S \in [1 .. n + 1 -> Seq(T)] /\ S[n + 1] = <<>> /\ AtHand(S[1])
      /\ \A i \in 1 .. n : Makes(todo[i], S[i], S[i + 1], T)
  BY DEF Stacks
<1>4. /\ Len(todo') = n + 2 /\ todo'[1] = left /\ todo'[2] = right /\ todo'[3] = then
      /\ \A i \in 4 .. n + 2 : todo'[i] = todo[i - 2] /\ i - 2 \in 1 .. n
  <2>1. <<left, right, then>> \in Seq(Q) /\ Len(<<left, right, then>>) = 3
    OBVIOUS
  <2>2. todo' \in Seq(Q) /\ Len(todo') = 3 + (n - 1)
    BY <1>1, <2>1
  <2>3. \A i \in 1 .. Len(todo') : todo'[i] = IF i <= 3 THEN <<left, right, then>>[i] ELSE Tail(todo)[i - 3]
    BY <1>1, <2>1
  <2>4. \A i \in 4 .. n + 2 : i \in 1 .. Len(todo') /\ i - 3 \in 1 .. n - 1 /\ (i - 3) + 1 = i - 2 /\ ~ (i <= 3)
    BY <1>1, <2>2
  <2>5. \A i \in 4 .. n + 2 : todo'[i] = todo[i - 2] /\ i - 2 \in 1 .. n
    BY <1>1, <1>2, <2>3, <2>4
  <2>6. 1 \in 1 .. Len(todo') /\ 2 \in 1 .. Len(todo') /\ 3 \in 1 .. Len(todo')
    BY <1>1, <2>2
  <2> QED  BY <1>1, <2>2, <2>3, <2>5, <2>6
<1> HIDE DEF n
<1>5. /\ G[1] = S[1] /\ G[2] = s2 /\ G[3] = s3 /\ \A i \in 4 .. n + 3 : G[i] = S[i - 2]
  BY <1>1
<1>6. G \in [1 .. n + 3 -> Seq(T)]
  <2>1. S[1] \in Seq(T) /\ \A i \in 4 .. n + 3 : S[i - 2] \in Seq(T)
    BY <1>1, <1>3
  <2>2. \A i \in 1 .. n + 3 : i \in {1, 2, 3} \/ i \in 4 .. n + 3
    BY <1>1
  <2> QED  BY <2>1, <2>2
<1>7. G[n + 3] = <<>> /\ Len(todo') + 1 = n + 3
  <2> HIDE DEF G
  <2>1. n + 3 \in 4 .. n + 3 /\ (n + 3) - 2 = n + 1
    BY <1>1
  <2>2. Len(todo') + 1 = n + 3
    BY <1>1, <1>4
  <2> QED  BY <1>3, <1>5, <2>1, <2>2
<1> HIDE DEF G
<1>8. ASSUME NEW i \in 1 .. n + 2 PROVE Makes(todo'[i], G[i], G[i + 1], T) /\ VisitOK(todo'[i], T)
  <2>1. CASE i = 1
    BY <1>4, <1>5, <2>1
  <2>2. CASE i = 2
    BY <1>4, <1>5, <2>2
  <2>3. CASE i = 3
    <3>1. 4 \in 4 .. n + 3 /\ 4 - 2 = 2 /\ 3 + 1 = 4
      BY <1>1
    <3>2. G[4] = S[2]
      BY <1>5, <3>1
    <3> QED  BY <1>4, <1>5, <2>3, <3>1, <3>2
  <2>4. CASE i \in 4 .. n + 2
    <3>1. i - 2 \in 1 .. n /\ i + 1 \in 4 .. n + 3 /\ (i + 1) - 2 = (i - 2) + 1 /\ i \in 4 .. n + 3
      BY <1>1, <2>4
    <3>2. G[i] = S[i - 2] /\ G[i + 1] = S[(i - 2) + 1] /\ todo'[i] = todo[i - 2]
      BY <1>4, <1>5, <2>4, <3>1
    <3> QED  BY <1>3, <3>1, <3>2 DEF n
  <2> QED  BY <1>1, <2>1, <2>2, <2>3, <2>4
<1>9. \A F : F = G => Stacks(F, T)'
  <2> SUFFICES ASSUME NEW F, F = G PROVE Stacks(F, T)'
    OBVIOUS
  <2>1. AtHand(F[1])'
    BY <1>3, <1>5 DEF AtHand, Computes
  <2>2. \A p \in 1 .. Len(todo') : Makes(todo'[p], F[p], F[p + 1], T)
    BY <1>4, <1>8
  <2> QED  BY <1>6, <1>7, <2>1, <2>2 DEF Stacks, Makes
<1> QED  BY <1>4, <1>8, <1>9

LEMMA PushOne ==
  ASSUME NEW R, todo \in Seq(R), todo # <<>>, UNCHANGED <<values, code>>, NEW left, NEW then,
         todo' = <<left, then>> \o Tail(todo),
         NEW T, NEW S, Stacks(S, T), \A p \in 1 .. Len(todo) : VisitOK(todo[p], T),
         VisitOK(left, T) /\ VisitOK(then, T),
         NEW s2 \in Seq(T),
         Makes(left, S[1], s2, T) /\ Makes(then, s2, S[2], T)
  PROVE  /\ \E G : Stacks(G, T)'
         /\ \A p \in 1 .. Len(todo') : VisitOK(todo'[p], T)
<1> DEFINE n == Len(todo)
           Q == R \cup {left, then}
           G == [i \in 1 .. n + 2 |-> IF i = 1 THEN S[1] ELSE IF i = 2 THEN s2 ELSE S[i - 1]]
<1>1. /\ n \in Nat /\ n >= 1 /\ Len(Tail(todo)) = n - 1
      /\ Tail(todo) \in Seq(Q)
  OBVIOUS
<1>2. \A i \in 1 .. n - 1 : Tail(todo)[i] = todo[i + 1]
  BY <1>1
<1>3. /\ S \in [1 .. n + 1 -> Seq(T)] /\ S[n + 1] = <<>> /\ AtHand(S[1])
      /\ \A i \in 1 .. n : Makes(todo[i], S[i], S[i + 1], T)
  BY DEF Stacks
<1>4. /\ Len(todo') = n + 1 /\ todo'[1] = left /\ todo'[2] = then
      /\ \A i \in 3 .. n + 1 : todo'[i] = todo[i - 1] /\ i - 1 \in 1 .. n
  <2>1. <<left, then>> \in Seq(Q) /\ Len(<<left, then>>) = 2
    OBVIOUS
  <2>2. todo' \in Seq(Q) /\ Len(todo') = 2 + (n - 1)
    BY <1>1, <2>1
  <2>3. \A i \in 1 .. Len(todo') : todo'[i] = IF i <= 2 THEN <<left, then>>[i] ELSE Tail(todo)[i - 2]
    BY <1>1, <2>1
  <2>4. \A i \in 3 .. n + 1 : i \in 1 .. Len(todo') /\ i - 2 \in 1 .. n - 1 /\ (i - 2) + 1 = i - 1 /\ ~ (i <= 2)
    BY <1>1, <2>2
  <2>5. \A i \in 3 .. n + 1 : todo'[i] = todo[i - 1] /\ i - 1 \in 1 .. n
    BY <1>1, <1>2, <2>3, <2>4
  <2>6. 1 \in 1 .. Len(todo') /\ 2 \in 1 .. Len(todo')
    BY <1>1, <2>2
  <2> QED  BY <1>1, <2>2, <2>3, <2>5, <2>6
<1> HIDE DEF n
<1>5. /\ G[1] = S[1] /\ G[2] = s2 /\ \A i \in 3 .. n + 2 : G[i] = S[i - 1]
  BY <1>1
<1>6. G \in [1 .. n + 2 -> Seq(T)]
  <2>1. S[1] \in Seq(T) /\ \A i \in 3 .. n + 2 : S[i - 1] \in Seq(T)
    BY <1>1, <1>3
  <2>2. \A i \in 1 .. n + 2 : i \in {1, 2} \/ i \in 3 .. n + 2
    BY <1>1
  <2> QED  BY <2>1, <2>2
<1>7. G[n + 2] = <<>> /\ Len(todo') + 1 = n + 2
  <2> HIDE DEF G
  <2>1. n + 2 \in 3 .. n + 2 /\ (n + 2) - 1 = n + 1
    BY <1>1
  <2>2. Len(todo') + 1 = n + 2
    BY <1>1, <1>4
  <2> QED  BY <1>3, <1>5, <2>1, <2>2
<1> HIDE DEF G
<1>8. ASSUME NEW i \in 1 .. n + 1 PROVE Makes(todo'[i], G[i], G[i + 1], T) /\ VisitOK(todo'[i], T)
  <2>1. CASE i = 1
    BY <1>4, <1>5, <2>1
  <2>2. CASE i = 2
    <3>1. 3 \in 3 .. n + 2 /\ 3 - 1 = 2 /\ 2 + 1 = 3
      BY <1>1
    <3>2. G[3] = S[2]
      BY <1>5, <3>1
    <3> QED  BY <1>4, <1>5, <2>2, <3>1, <3>2
  <2>3. CASE i \in 3 .. n + 1
    <3>1. i - 1 \in 1 .. n /\ i + 1 \in 3 .. n + 2 /\ (i + 1) - 1 = (i - 1) + 1 /\ i \in 3 .. n + 2
      BY <1>1, <2>3
    <3>2. G[i] = S[i - 1] /\ G[i + 1] = S[(i - 1) + 1] /\ todo'[i] = todo[i - 1]
      BY <1>4, <1>5, <2>3, <3>1
    <3> QED  BY <1>3, <3>1, <3>2 DEF n
  <2> QED  BY <1>1, <2>1, <2>2, <2>3
<1>9. \A F : F = G => Stacks(F, T)'
  <2> SUFFICES ASSUME NEW F, F = G PROVE Stacks(F, T)'
    OBVIOUS
  <2>1. AtHand(F[1])'
    BY <1>3, <1>5 DEF AtHand, Computes
  <2>2. \A p \in 1 .. Len(todo') : Makes(todo'[p], F[p], F[p + 1], T)
    BY <1>4, <1>8
  <2> QED  BY <1>6, <1>7, <2>1, <2>2 DEF Stacks, Makes
<1> QED  BY <1>4, <1>8, <1>9


\* The nodes of the trees T and of the statements over them.
LEMMA Nodes ==
  ASSUME NEW T, \A e \in T : IsExpr(e, T)
  PROVE  /\ \A e \in T : \/ e.type = "literal" /\ e = Literal(e.value)
                         \/ /\ e.type = "binary_op" /\ e = BinaryOp(e.oper, e.left, e.right)
                            /\ e.left \in T /\ e.right \in T
         /\ \A s : IsStatement(s, T) =>
              /\ s.type \in {"literal", "binary_op", "store_local", "return"}
              /\ s.type \in {"literal", "binary_op"} => s \in T
              /\ s.type = "store_local" => s = StoreLocal(s.local, s.value) /\ s.value \in T
              /\ s.type = "return" => s = Return(s.value) /\ s.value \in T
<1>1. \A e \in T : \/ e.type = "literal" /\ e = Literal(e.value)
                   \/ /\ e.type = "binary_op" /\ e = BinaryOp(e.oper, e.left, e.right)
                      /\ e.left \in T /\ e.right \in T
  BY DEF IsExpr
<1>2. ASSUME NEW s, IsStatement(s, T)
      PROVE  /\ s.type \in {"literal", "binary_op", "store_local", "return"}
             /\ s.type \in {"literal", "binary_op"} => s \in T
             /\ s.type = "store_local" => s = StoreLocal(s.local, s.value) /\ s.value \in T
             /\ s.type = "return" => s = Return(s.value) /\ s.value \in T
  <2>1. s \in T => s.type \in {"literal", "binary_op"}
    BY <1>1
  <2>2. \/ s \in T
        \/ s.type = "store_local" /\ s = StoreLocal(s.local, s.value) /\ s.value \in T
        \/ s.type = "return" /\ s = Return(s.value) /\ s.value \in T
    BY <1>2 DEF IsStatement
  <2> QED  BY <2>1, <2>2
<1> QED  BY <1>1, <1>2

\* The two topmost trees, or one.
LEMMA TwoOnTop ==
  ASSUME NEW T, NEW r \in Seq(T), NEW left \in T, NEW right \in T
  PROVE  LET s == Append(Append(r, left), right) IN
         /\ s \in Seq(T) /\ Len(s) = Len(r) + 2 /\ \A j \in 1 .. Len(r) : s[j] = r[j]
         /\ s[Len(s) - 1] = left /\ s[Len(s)] = right
<1> DEFINE q == Append(r, left)
           s == Append(q, right)
<1>1. q \in Seq(T) /\ Len(q) = Len(r) + 1 /\ q[Len(r) + 1] = left /\ \A j \in 1 .. Len(r) : q[j] = r[j]
  BY AppendProperties
<1> HIDE DEF q
<1>2. s \in Seq(T) /\ Len(s) = Len(q) + 1 /\ s[Len(q) + 1] = right /\ \A j \in 1 .. Len(q) : s[j] = q[j]
  BY <1>1, AppendProperties
<1>3. Len(r) \in Nat /\ \A j \in 1 .. Len(r) : j \in 1 .. Len(r) + 1
  OBVIOUS
<1> HIDE DEF s
<1>4. Len(s) = Len(r) + 2 /\ Len(s) - 1 = Len(r) + 1 /\ Len(r) + 1 \in 1 .. Len(q)
  BY <1>1, <1>2, <1>3
<1> QED  BY <1>1, <1>2, <1>3, <1>4 DEF s, q

LEMMA OneOnTop ==
  ASSUME NEW T, NEW r \in Seq(T), NEW e \in T
  PROVE  LET s == Append(r, e) IN
         /\ s \in Seq(T) /\ Len(s) = Len(r) + 1 /\ \A j \in 1 .. Len(r) : s[j] = r[j]
         /\ s[Len(s)] = e
  BY AppendProperties

\* r is s without its k topmost elements.
Without(k, s, r) == Len(r) = Len(s) - k /\ \A j \in 1 .. Len(r) : s[j] = r[j]

\* q is r and x on top of it.
OnTop(q, r, x) == Len(q) = Len(r) + 1 /\ q[Len(q)] = x /\ \A j \in 1 .. Len(r) : q[j] = r[j]

\* AtHand, behind the step.
AtHandNext(s) == /\ Len(s) = Len(values')
                 /\ \A j \in 1 .. Len(values') : Computes'[values'[j]] = s[j]

\* The code so far means what it did.
SameMeaning == \A i \in 1 .. Len(code) : Computes'[i] = Computes[i]

\* What is at hand when an instruction has taken its operands.
LEMMA Kept ==
  ASSUME IInv, NEW k \in 0 .. 2, k <= Len(values),
         SameMeaning,
         NEW s, AtHand(s), NEW T, NEW r \in Seq(T), Without(k, s, r)
  PROVE  /\ Len(code) \in Nat /\ Len(values) \in Nat /\ Len(r) = Len(values) - k
         /\ \A j \in 1 .. Len(r) : Computes'[values[j]] = r[j]
<1>1. /\ Len(code) \in Nat /\ Len(values) \in Nat /\ \A j \in 1 .. Len(values) : values[j] \in 1 .. Len(code)
      /\ Len(s) = Len(values) /\ \A j \in 1 .. Len(values) : Computes[values[j]] = s[j]
  BY DEF IInv, ValuesInv, AtHand, Without
<1>2. ASSUME NEW j \in 1 .. Len(r)
      PROVE  j \in 1 .. Len(values) - k /\ Computes'[values[j]] = r[j]
  BY <1>1 DEF Without, SameMeaning
<1> QED  BY <1>1, <1>2 DEF Without

LEMMA TakenDo ==
  ASSUME IInv, NEW k \in 0 .. 2, k <= Len(values), values' = Below(k),
         SameMeaning,
         NEW s, AtHand(s), NEW T, NEW r \in Seq(T), Without(k, s, r)
  PROVE  AtHandNext(r)
<1>1. /\ Len(code) \in Nat /\ Len(values) \in Nat /\ Len(r) = Len(values) - k
      /\ \A j \in 1 .. Len(r) : Computes'[values[j]] = r[j]
  BY Kept
<1>2. Len(Below(k)) = Len(values) - k /\ \A j \in 1 .. Len(values) - k : Below(k)[j] = values[j]
  <2>1. Len(code) \in Nat /\ values \in Seq(1 .. Len(code)) /\ k \in Nat
    BY DEF IInv, ValuesInv
  <2> QED  BY <2>1, TopBelow
<1> QED  BY <1>1, <1>2 DEF AtHandNext

LEMMA TakenBind ==
  ASSUME IInv, NEW k \in 0 .. 2, k <= Len(values), values' = Append(Below(k), Len(code')),
         SameMeaning, Len(code') = Len(code) + 1,
         NEW s, AtHand(s), NEW T, NEW r \in Seq(T), Without(k, s, r),
         NEW q, OnTop(q, r, Computes'[Len(code')])
  PROVE  AtHandNext(q)
<1>1. /\ Len(code) \in Nat /\ Len(values) \in Nat /\ Len(r) = Len(values) - k
      /\ \A j \in 1 .. Len(r) : Computes'[values[j]] = r[j]
  BY Kept
<1>2. Len(code') \in Nat /\ Len(code') >= Len(code)
  BY <1>1
<1>3. /\ Len(values') = Len(values) - k + 1
      /\ \A j \in 1 .. Len(values) - k : values'[j] = values[j]
      /\ values'[Len(values) - k + 1] = Len(code')
  BY <1>2, PlacedValues
<1>4. /\ Len(q) = Len(r) + 1 /\ (\A j \in 1 .. Len(r) : q[j] = r[j])
      /\ q[Len(r) + 1] = Computes'[Len(code')]
  BY <1>1 DEF OnTop
<1>5. Len(q) = Len(values') /\ Len(r) = Len(values) - k /\ Len(r) \in Nat
  BY <1>1, <1>3, <1>4
<1>6. ASSUME NEW j \in 1 .. Len(values') PROVE Computes'[values'[j]] = q[j]
  <2>1. CASE j = Len(r) + 1
    BY <1>3, <1>4, <1>5, <2>1
  <2>2. CASE j # Len(r) + 1
    <3>1. j \in 1 .. Len(r)
      BY <1>4, <1>5, <2>2
    <3> QED  BY <1>1, <1>3, <1>4, <3>1
  <2> QED  BY <2>1, <2>2
<1> QED  BY <1>5, <1>6 DEF AtHandNext
-----------------------------------------------------------------------------
\* The number of statements that the code so far was made of.
Built == IF todo = <<>> THEN child - 1 ELSE child - 2

\* One statement at a time, and nothing behind a return.
StatementInv ==
  /\ todo # <<>> => /\ open /\ child >= 2
                    /\ todo[Len(todo)].node = program[child - 1]
                    /\ todo[Len(todo)].how \in {"effect", "then_effect"}
                    /\ \A p \in 1 .. Len(todo) - 1 : todo[p].how \in {"value", "then_value"}
  /\ \E f : IsPick(f, Wanted, program) /\ Emitted = f[Built]
  /\ open => \A j \in 1 .. Built : program[j].type # "return"
  /\ \A j \in 1 .. child - 2 : program[j].type # "return"
  /\ ~open => /\ todo = <<>> /\ child >= 2 /\ program[child - 1].type = "return"
              /\ Statement(Len(code)) = program[child - 1]

\* A return is the last instruction.
ReturnInv == /\ \A i \in 1 .. Len(code) : code[i].op = "return" => i = Len(code) /\ ~open
             /\ ~open => Len(code) >= 1 /\ code[Len(code)].op = "return"

BuildInv == IInv /\ ShapeInv /\ ReturnInv /\ StatementInv /\ \E T : Trees(T)

\* A step inside a statement.
LEMMA Inside ==
  ASSUME IInv, StatementInv, UNCHANGED <<program, child, open>>, todo # <<>>, todo' # <<>>, Emitted' = Emitted,
         todo'[Len(todo')].node = todo[Len(todo)].node, todo'[Len(todo')].how \in {"effect", "then_effect"},
         \A p \in 1 .. Len(todo') - 1 : todo'[p].how \in {"value", "then_value"}
  PROVE  StatementInv'
<1>1. Built' = Built
  BY DEF Built
<1>2. Wanted' = Wanted
  BY DEF Wanted
<1>3. PICK f : IsPick(f, Wanted, program) /\ Emitted = f[Built]
  BY DEF StatementInv
<1>4. IsPick(f, Wanted, program)'
  BY <1>2, <1>3 DEF IsPick
<1>5. (\E g : IsPick(g, Wanted, program) /\ Emitted = g[Built])'
  BY <1>1, <1>3, <1>4
<1>6. open
  BY DEF StatementInv
<1> QED  BY <1>1, <1>5, <1>6 DEF StatementInv

\* The last step of a statement.
LEMMA Ends ==
  ASSUME IInv, StatementInv, UNCHANGED <<program, child>>, Len(todo) = 1, todo # <<>>, todo' = <<>>,
         Emitted' = IF program[child - 1].type = "literal" THEN Emitted ELSE Append(Emitted, program[child - 1]),
         open' = (program[child - 1].type # "return"),
         program[child - 1].type = "return" => Statement(Len(code))' = program[child - 1]
  PROVE  StatementInv'
<1>1. child \in 1 .. Len(program) + 1 /\ child >= 2 /\ Len(program) \in Nat /\ open
  BY DEF IInv, TypeOK, StatementInv
<1>2. Built = child - 2 /\ Built' = child - 1 /\ Wanted' = Wanted
  BY DEF Built, Wanted
<1>3. PICK f : IsPick(f, Wanted, program) /\ Emitted = f[child - 2]
  BY <1>2 DEF StatementInv
<1>4. child - 1 \in 1 .. Len(program) /\ (child - 1) - 1 = child - 2
  BY <1>1
<1>5. child - 1 \in Wanted <=> program[child - 1].type # "literal"
  <2>1. \A j \in 1 .. child - 2 : program[j].type # "return"
    BY <1>1, <1>2 DEF StatementInv
  <2> QED  BY <1>4, <2>1 DEF Wanted
<1>6. f[child - 1] = IF child - 1 \in Wanted THEN Append(f[child - 2], program[child - 1]) ELSE f[child - 2]
  BY <1>3, <1>4 DEF IsPick
<1>7. Emitted' = f[child - 1]
  BY <1>3, <1>5, <1>6
<1>8. IsPick(f, Wanted, program)'
  BY <1>2, <1>3 DEF IsPick
<1>9. (\E g : IsPick(g, Wanted, program) /\ Emitted = g[Built])'
  BY <1>2, <1>7, <1>8
<1>10. ASSUME open', NEW j \in 1 .. child - 1 PROVE program[j].type # "return"
  <2>1. CASE j = child - 1
    BY <1>10, <2>1
  <2>2. CASE j # child - 1
    <3>1. j \in 1 .. child - 2
      BY <1>1, <2>2
    <3> QED  BY <1>1, <1>2, <3>1 DEF StatementInv
  <2> QED  BY <2>1, <2>2
<1>11. \A j \in 1 .. child - 2 : program[j].type # "return"
  BY <1>1, <1>2 DEF StatementInv
<1> QED  BY <1>1, <1>2, <1>9, <1>10, <1>11 DEF StatementInv


\* The visit that is made next; the last one to make belongs to a statement.
LEMMA NextVisit ==
  ASSUME BuildInv, todo # <<>>
  PROVE  /\ \E R : todo \in Seq(R)
         /\ Len(todo) \in Nat /\ Len(todo) >= 1 /\ Head(todo) = todo[1]
         /\ Head(todo).how \in {"value", "then_value"} => Len(todo) >= 2
         /\ Head(todo).how \in {"effect", "then_effect"} => /\ Len(todo) = 1 /\ Tail(todo) = <<>>
                                                            /\ Head(todo).node = program[child - 1]
         /\ Len(Tail(todo)) = Len(todo) - 1
         /\ \A p \in 1 .. Len(todo) - 1 : Tail(todo)[p] = todo[p + 1]
<1> PICK R : todo \in Seq(R)
  BY DEF BuildInv, IInv, StackInv
<1>1. Len(todo) \in Nat /\ Len(todo) >= 1 /\ Head(todo) = todo[1] /\ Len(Tail(todo)) = Len(todo) - 1
  OBVIOUS
<1>2. \A p \in 1 .. Len(todo) - 1 : Tail(todo)[p] = todo[p + 1]
  OBVIOUS
<1>3. /\ todo[Len(todo)].node = program[child - 1]
      /\ todo[Len(todo)].how \in {"effect", "then_effect"}
      /\ \A p \in 1 .. Len(todo) - 1 : todo[p].how \in {"value", "then_value"}
  BY DEF BuildInv, StatementInv
<1>4. Len(todo) = 1 => Tail(todo) = <<>>
  <2>1. Tail(todo) \in Seq(R)
    OBVIOUS
  <2>2. ASSUME Len(todo) = 1 PROVE Len(Tail(todo)) = 0
    BY <1>1, <2>2
  <2> QED  BY <2>1, <2>2, EmptySeq
<1>5. Len(todo) # 1 => 1 \in 1 .. Len(todo) - 1 /\ Len(todo) >= 2
  BY <1>1
<1> QED  BY <1>1, <1>2, <1>3, <1>4, <1>5

\* A visit inside an expression is over.
LEMMA PopInside ==
  ASSUME BuildInv, todo # <<>>, todo' = Tail(todo), Head(todo).how \in {"value", "then_value"},
         UNCHANGED <<program, child, open>>, Emitted' = Emitted
  PROVE  StatementInv'
<1> PICK R : todo \in Seq(R)
  BY NextVisit
<1> DEFINE n == Len(todo)
<1>1. /\ n \in Nat /\ n >= 2 /\ Len(todo') = n - 1 /\ todo' \in Seq(R)
      /\ \A p \in 1 .. n - 1 : todo'[p] = todo[p + 1]
  BY NextVisit
<1>2. todo' # <<>> /\ n - 1 \in 1 .. n - 1 /\ (n - 1) + 1 = n
  <2> HIDE DEF n
  <2>1. n - 1 # 0 /\ n - 1 \in 1 .. n - 1 /\ (n - 1) + 1 = n
    BY <1>1
  <2>2. Len(<<>>) = 0
    OBVIOUS
  <2>3. todo' # <<>>
    BY <1>1, <2>1, <2>2, Zenon
  <2> QED  BY <2>1, <2>3
<1>3. /\ todo[n].how \in {"effect", "then_effect"}
      /\ \A p \in 1 .. n - 1 : todo[p].how \in {"value", "then_value"}
  BY DEF BuildInv, StatementInv
<1>4. todo'[n - 1] = todo[n]
  BY <1>1, <1>2
<1>5. \A p \in 1 .. (n - 1) - 1 : p \in 1 .. n - 1 /\ p + 1 \in 1 .. n - 1
  BY <1>1
<1>6. \A p \in 1 .. Len(todo') - 1 : todo'[p].how \in {"value", "then_value"}
  BY <1>1, <1>3, <1>5
<1>7. IInv /\ StatementInv
  BY DEF BuildInv
<1> QED  BY <1>1, <1>2, <1>3, <1>4, <1>6, <1>7, Inside

LEMMA BuildSequence ==
  ASSUME BuildInv, visit_sequence
  PROVE  BuildInv'
<1>1. /\ todo = <<>> /\ open /\ child <= Len(program) /\ child' = child + 1
      /\ todo' = <<Visit("effect", program[child])>>
      /\ UNCHANGED <<program, values, code, temp_count, open>>
  BY DEF visit_sequence
<1>2. IInv /\ child \in 1 .. Len(program) + 1 /\ Len(program) \in Nat
  BY DEF BuildInv, IInv, TypeOK
<1>3. IInv'
  BY <1>2, SequenceStep
<1>4. ShapeInv' /\ ReturnInv'
  BY <1>1 DEF BuildInv, ShapeInv, ReturnInv, Unset
<1> DEFINE v == Visit("effect", program[child])
<1>5. v.how = "effect" /\ v.node = program[child]
  BY DEF Visit
<1> HIDE DEF v
<1>6. todo' # <<>> /\ Len(todo') = 1 /\ todo'[1] = v
  BY <1>1 DEF v
<1>7. StatementInv'
  <2>1. Built = child - 1 /\ Built' = child' - 2 /\ child' - 2 = child - 1 /\ child' - 1 = child /\ child' >= 2
    BY <1>1, <1>2, <1>6 DEF Built
  <2>2. PICK f : IsPick(f, Wanted, program) /\ Emitted = f[Built]
    BY DEF BuildInv, StatementInv
  <2>3. Wanted' = Wanted /\ Emitted' = Emitted
    BY <1>1 DEF Wanted, Emitted, Effects, Statement, Computes, Unset
  <2>4. IsPick(f, Wanted, program)'
    BY <1>1, <2>2, <2>3 DEF IsPick
  <2>5. (\E g : IsPick(g, Wanted, program) /\ Emitted = g[Built])'
    BY <2>1, <2>2, <2>3, <2>4
  <2>6. \A j \in 1 .. Built : program[j].type # "return"
    BY <1>1 DEF BuildInv, StatementInv
  <2>7. \A j \in 1 .. child' - 2 : program'[j].type # "return"
    BY <1>1, <2>1, <2>6
  <2> QED  BY <1>1, <1>5, <1>6, <2>1, <2>5, <2>6, <2>7 DEF StatementInv
<1>8. PICK T : Trees(T)
  BY DEF BuildInv
<1>9. Trees(T)'
  <2>1. PICK S : Stacks(S, T)
    BY <1>8 DEF Trees
  <2>2. Len(todo) = 0 /\ S[1] = <<>> /\ AtHand(S[1])
    BY <1>1, <2>1 DEF Stacks
  <2> DEFINE G == [i \in 1 .. 2 |-> <<>>]
  <2>3. G \in [1 .. 2 -> Seq(T)] /\ G[1] = <<>> /\ G[2] = <<>> /\ Len(todo') + 1 = 2
    BY <1>6
  <2> HIDE DEF G
  <2>4. AtHand(<<>>)'
    BY <1>1, <2>2 DEF AtHand, Computes
  <2>5. \A p \in 1 .. 1 : Makes(todo'[p], G[p], G[p + 1], T)
    BY <1>5, <1>6, <2>3 DEF Makes
  <2>6. \A F : F = G => Stacks(F, T)'
    <3> SUFFICES ASSUME NEW F, F = G PROVE Stacks(F, T)'
      OBVIOUS
    <3> QED  BY <1>6, <2>3, <2>4, <2>5 DEF Stacks, Makes
  <2>7. IsStatement(program[child], T)
    BY <1>1, <1>2, <1>8 DEF Trees, IsProgram
  <2>8. \A p \in 1 .. Len(todo') : VisitOK(todo'[p], T)
    BY <1>5, <1>6, <2>7 DEF VisitOK
  <2> QED  BY <1>1, <1>8, <2>6, <2>8 DEF Trees
<1> QED  BY <1>3, <1>4, <1>7, <1>9 DEF BuildInv

-----------------------------------------------------------------------------
(* The steps.                                                              *)

\* What an instruction with this operation computes from the topmost operands is node.
Gives(op, arg, node) ==
  /\ op = "constant" => node = Literal(arg)
  /\ op = "binary_op" => node = BinaryOp(arg, Computes[values[Len(values) - 1]], Computes[values[Len(values)]])
  /\ op = "store_local" => node = StoreLocal(arg, Computes[values[Len(values)]])
  /\ op = "return" => node = Return(Computes[values[Len(values)]])

\* The shapes of the instructions: their operations and how many operands they take.
ValueOp(op, k) == (op = "constant" /\ k = 0) \/ (op = "binary_op" /\ k = 2)
EffectOp(op, k) == (op = "binary_op" /\ k = 2) \/ (op \in {"store_local", "return"} /\ k = 1)

\* A definition for the visit that is over: what it computes is on top.
LEMMA BuildBind ==
  ASSUME BuildInv, todo # <<>>, todo' = Tail(todo), UNCHANGED <<program, child, open>>, IInv',
         NEW k \in 0 .. 2, k <= Len(values), NEW op, NEW arg, evis_bind(op, arg, k),
         ValueOp(op, k), Head(todo).how \in {"value", "then_value"}, Gives(op, arg, Head(todo).node),
         NEW T, Trees(T), NEW S, Stacks(S, T),
         NEW r \in Seq(T), Without(k, S[1], r), OnTop(S[2], r, Head(todo).node)
  PROVE  BuildInv'
<1>1. /\ temp_count' = temp_count - k + 1
      /\ code' = Append(code, Instr(op, arg, Top(k), temp_count'))
      /\ values' = Append(Below(k), Len(code'))
  BY DEF evis_bind
<1>2. IInv /\ ShapeInv /\ temp_count = Len(values) /\ Len(values) \in Nat /\ temp_count' # Unset
  <2>1. IInv /\ ShapeInv /\ temp_count = Len(values) /\ Len(values) \in Nat
    BY DEF BuildInv, IInv, ValuesInv
  <2>2. Len(values) - k + 1 # 0
    BY <2>1
  <2> QED  BY <1>1, <2>1, <2>2 DEF Unset
<1>3. /\ ShapeInv' /\ Len(code) \in Nat /\ Len(code') = Len(code) + 1
      /\ \A i \in 1 .. Len(code) : code'[i] = code[i] /\ Computes'[i] = Computes[i]
      /\ code'[Len(code')] = Instr(op, arg, Top(k), temp_count')
      /\ op = "constant" => Computes'[Len(code')] = Literal(arg)
      /\ op = "binary_op" => Computes'[Len(code')] = BinaryOp(arg, Computes[values[Len(values) - 1]],
                                                                  Computes[values[Len(values)]])
  BY <1>1, <1>2, PlacedCode DEF ValueOp
<1>4. code'[Len(code')].temp = temp_count' /\ code'[Len(code')].op = op
  BY <1>3 DEF Instr
<1>5. Emitted' = Emitted
  BY <1>2, <1>3, <1>4, PlacedEffect
<1>6. StatementInv'
  BY <1>5, PopInside
<1>7. open /\ ReturnInv'
  <2>1. open
    BY DEF BuildInv, StatementInv
  <2>2. \A i \in 1 .. Len(code) : code'[i].op # "return"
    BY <1>3, <2>1 DEF BuildInv, ReturnInv
  <2>3. \A i \in 1 .. Len(code') : i = Len(code') \/ i \in 1 .. Len(code)
    BY <1>3
  <2> QED  BY <1>3, <1>4, <2>1, <2>2, <2>3 DEF ReturnInv, ValueOp
<1>8. AtHand(S[2])'
  <2>1. AtHand(S[1])
    BY DEF Stacks
  <2>2. Computes'[Len(code')] = Head(todo).node
    BY <1>3 DEF Gives, ValueOp
  <2>3. SameMeaning
    BY <1>3 DEF SameMeaning
  <2> DEFINE s == S[1]
             q == S[2]
  <2>4. AtHand(s) /\ Without(k, s, r)
    BY <2>1
  <2>5. OnTop(q, r, Computes'[Len(code')])
    BY <2>2
  <2> HIDE DEF s, q
  <2>6. AtHandNext(q)
    BY <1>1, <1>2, <1>3, <2>3, <2>4, <2>5, TakenBind
  <2> QED  BY <2>6 DEF AtHand, AtHandNext, q
<1>9. Trees(T)'
  <2>1. PICK R : todo \in Seq(R)
    BY NextVisit
  <2>2. \A p \in 1 .. Len(todo) : VisitOK(todo[p], T)
    BY DEF Trees
  <2>3. /\ \E G : Stacks(G, T)'
        /\ \A p \in 1 .. Len(todo') : VisitOK(todo'[p], T)
    BY <1>8, <2>1, <2>2, PopTrees
  <2> QED  BY <2>3 DEF Trees
<1> QED  BY <1>3, <1>6, <1>7, <1>9 DEF BuildInv

\* The instruction that ends a statement.
LEMMA BuildDo ==
  ASSUME BuildInv, todo # <<>>, todo' = Tail(todo), UNCHANGED <<program, child>>, IInv',
         NEW k \in 1 .. 2, k <= Len(values), NEW op, NEW arg, evis_do(op, arg, k),
         EffectOp(op, k), Head(todo).how = "then_effect", Gives(op, arg, Head(todo).node),
         Head(todo).node.type = op, open' = (op # "return"),
         NEW T, Trees(T), NEW S, Stacks(S, T), Without(k, S[1], S[2])
  PROVE  BuildInv'
<1>1. /\ code' = Append(code, Instr(op, arg, Top(k), Unset))
      /\ values' = Below(k)
  BY DEF evis_do
<1>2. IInv /\ ShapeInv /\ Len(values) \in Nat /\ k \in 0 .. 2
  BY DEF BuildInv, IInv, ValuesInv, EffectOp
<1>3. /\ ShapeInv' /\ Len(code) \in Nat /\ Len(code') = Len(code) + 1
      /\ \A i \in 1 .. Len(code) : code'[i] = code[i] /\ Computes'[i] = Computes[i]
      /\ code'[Len(code')] = Instr(op, arg, Top(k), Unset)
      /\ op = "binary_op" => Computes'[Len(code')] = BinaryOp(arg, Computes[values[Len(values) - 1]],
                                                                  Computes[values[Len(values)]])
      /\ op \in {"store_local", "return"} => Computes'[Len(code')] = Computes[values[Len(values)]]
  BY <1>1, <1>2, PlacedCode DEF EffectOp
<1>4. /\ code'[Len(code')].temp = Unset /\ code'[Len(code')].op = op
      /\ code'[Len(code')].arg = arg
  BY <1>3 DEF Instr
<1>5. /\ Len(todo) = 1 /\ todo' = <<>> /\ Head(todo).node = program[child - 1]
  BY NextVisit
<1>6. Statement(Len(code))' = Head(todo).node
  <2>1. CASE op = "binary_op"
    BY <1>3, <1>4, <2>1 DEF Statement, Gives
  <2>2. CASE op = "store_local"
    BY <1>3, <1>4, <2>2 DEF Statement, Gives
  <2>3. CASE op = "return"
    BY <1>3, <1>4, <2>3 DEF Statement, Gives
  <2> QED  BY <2>1, <2>2, <2>3 DEF EffectOp
<1>7. Emitted' = Append(Emitted, program[child - 1])
  BY <1>3, <1>4, <1>5, <1>6, PlacedEffect
<1>8. StatementInv'
  <2>1. program[child - 1].type = op
    BY <1>5
  <2>2. open' = (program[child - 1].type # "return")
    BY <2>1
  <2>3. program[child - 1].type # "literal"
    BY <2>1 DEF EffectOp
  <2>4. Statement(Len(code))' = program[child - 1]
    BY <1>5, <1>6
  <2> QED  BY <1>2, <1>5, <1>7, <2>2, <2>3, <2>4, Ends DEF BuildInv
<1>9. ReturnInv'
  <2>1. open
    BY DEF BuildInv, StatementInv
  <2>2. \A i \in 1 .. Len(code) : code'[i].op # "return"
    BY <1>3, <2>1 DEF BuildInv, ReturnInv
  <2>3. \A i \in 1 .. Len(code') : i = Len(code') \/ i \in 1 .. Len(code)
    BY <1>3
  <2>4. Len(code') >= 1
    BY <1>3
  <2> QED  BY <1>4, <2>2, <2>3, <2>4 DEF ReturnInv
<1>10. AtHand(S[2])'
  <2>1. AtHand(S[1])
    BY DEF Stacks
  <2>2. SameMeaning
    BY <1>3 DEF SameMeaning
  <2>3. S[2] \in Seq(T)
    BY <1>5 DEF Stacks
  <2> DEFINE s == S[1]
             r == S[2]
  <2>4. AtHand(s) /\ r \in Seq(T) /\ Without(k, s, r)
    BY <2>1, <2>3
  <2> HIDE DEF s, r
  <2>5. AtHandNext(r)
    BY <1>1, <1>2, <2>2, <2>4, TakenDo
  <2> QED  BY <2>5 DEF AtHand, AtHandNext, r
<1>11. Trees(T)'
  <2>1. PICK R : todo \in Seq(R)
    BY NextVisit
  <2>2. \A p \in 1 .. Len(todo) : VisitOK(todo[p], T)
    BY DEF Trees
  <2>3. /\ \E G : Stacks(G, T)'
        /\ \A p \in 1 .. Len(todo') : VisitOK(todo'[p], T)
    BY <1>10, <2>1, <2>2, PopTrees
  <2> QED  BY <2>3 DEF Trees
<1> QED  BY <1>3, <1>8, <1>9, <1>11 DEF BuildInv


\* What the next visit finds at hand.
LEMMA Found ==
  ASSUME BuildInv, todo # <<>>, NEW T, Trees(T), NEW S, Stacks(S, T)
  PROVE  /\ VisitOK(Head(todo), T) /\ Makes(Head(todo), S[1], S[2], T) /\ AtHand(S[1])
         /\ S[1] \in Seq(T) /\ S[2] \in Seq(T)
         /\ \A p \in 1 .. Len(todo) : VisitOK(todo[p], T)
         /\ \A e \in T : IsExpr(e, T)
<1>1. Len(todo) \in Nat /\ Len(todo) >= 1 /\ Head(todo) = todo[1]
  BY NextVisit
<1>2. 1 \in 1 .. Len(todo) /\ 1 \in 1 .. Len(todo) + 1 /\ 2 \in 1 .. Len(todo) + 1 /\ 1 + 1 = 2
  BY <1>1
<1>3. \A p \in 1 .. Len(todo) : VisitOK(todo[p], T)
  BY DEF Trees
<1>4. VisitOK(Head(todo), T)
  BY <1>1, <1>2, <1>3
<1>5. S \in [1 .. Len(todo) + 1 -> Seq(T)] /\ AtHand(S[1]) /\ \A p \in 1 .. Len(todo) : Makes(todo[p], S[p], S[p + 1], T)
  BY DEF Stacks
<1>6. Makes(Head(todo), S[1], S[2], T) /\ S[1] \in Seq(T) /\ S[2] \in Seq(T)
  BY <1>1, <1>2, <1>5
<1>7. \A e \in T : IsExpr(e, T)
  BY DEF Trees
<1> QED  BY <1>3, <1>4, <1>5, <1>6, <1>7

LEMMA BuildLiteral ==
  ASSUME BuildInv, visit_literal
  PROVE  BuildInv'
<1>1. todo # <<>> /\ todo' = Tail(todo) /\ UNCHANGED <<program, child, open>>
  BY DEF visit_literal, IsVisit
<1>2. IInv /\ IInv' /\ Len(values) \in Nat
  <2>1. IInv
    BY DEF BuildInv
  <2> QED  BY <2>1, LiteralStep DEF IInv, ValuesInv
<1>3. PICK T : Trees(T)
  BY DEF BuildInv
<1>4. PICK S : Stacks(S, T)
  BY <1>3 DEF Trees
<1>5. /\ VisitOK(Head(todo), T) /\ Makes(Head(todo), S[1], S[2], T) /\ AtHand(S[1])
      /\ S[1] \in Seq(T) /\ S[2] \in Seq(T)
      /\ \A p \in 1 .. Len(todo) : VisitOK(todo[p], T)
      /\ \A e \in T : IsExpr(e, T)
  BY <1>1, <1>3, <1>4, Found
<1> DEFINE node == Head(todo).node
<1>6. CASE IsVisit("value", "literal") /\ evis_bind("constant", node.value, 0)
  <2>1. Head(todo).how = "value" /\ node.type = "literal"
    BY <1>6 DEF IsVisit
  <2>2. node \in T /\ node = Literal(node.value)
    <3>1. node \in T
      BY <1>5, <2>1 DEF VisitOK
    <3> QED  BY <1>5, <2>1, <3>1, Nodes
  <2>3. S[2] = Append(S[1], node)
    BY <1>5, <2>1 DEF Makes
  <2>4. OnTop(S[2], S[1], node)
    BY <1>5, <2>2, <2>3, OneOnTop DEF OnTop
  <2>5. Without(0, S[1], S[1])
    BY <1>5 DEF Without
  <2>6. Gives("constant", node.value, node)
    BY <2>2 DEF Gives
  <2>7. 0 \in 0 .. 2 /\ 0 <= Len(values) /\ ValueOp("constant", 0)
    BY <1>2 DEF ValueOp
  <2>8. Head(todo).how \in {"value", "then_value"} /\ evis_bind("constant", node.value, 0)
    BY <1>6, <2>1
  <2> QED  BY <1>1, <1>2, <1>3, <1>4, <1>5, <2>4, <2>5, <2>6, <2>7, <2>8, BuildBind
<1>7. CASE IsVisit("effect", "literal") /\ UNCHANGED <<values, code, temp_count>>
  <2>1. Head(todo).how = "effect" /\ node.type = "literal"
    BY <1>7 DEF IsVisit
  <2>2. Len(todo) = 1 /\ todo' = <<>> /\ node = program[child - 1]
    BY <1>1, <2>1, NextVisit
  <2>3. ShapeInv' /\ ReturnInv' /\ open
    BY <1>1, <1>7 DEF BuildInv, ShapeInv, ReturnInv, StatementInv, Unset
  <2>4. Emitted' = Emitted
    BY <1>7 DEF Emitted, Effects, Statement, Computes, Unset
  <2>5. StatementInv'
    <3>1. program[child - 1].type = "literal"
      BY <2>1, <2>2
    <3>2. open' = (program[child - 1].type # "return")
      BY <1>1, <2>3, <3>1
    <3> QED  BY <1>1, <2>2, <2>4, <3>1, <3>2, Ends DEF BuildInv
  <2>6. AtHand(S[2])'
    <3>1. S[2] = S[1]
      BY <1>5, <2>1 DEF Makes
    <3> QED  BY <1>5, <1>7, <3>1 DEF AtHand, Computes
  <2>7. Trees(T)'
    <3>1. PICK R : todo \in Seq(R)
      BY <1>1, NextVisit
    <3>2. /\ \E G : Stacks(G, T)'
          /\ \A p \in 1 .. Len(todo') : VisitOK(todo'[p], T)
      BY <1>1, <1>4, <1>5, <2>6, <3>1, PopTrees
    <3> QED  BY <1>1, <1>3, <3>2 DEF Trees
  <2> QED  BY <1>2, <2>3, <2>5, <2>7 DEF BuildInv
<1> QED  BY <1>6, <1>7 DEF visit_literal

\* The operands of a binary operation are in order on top of what it leaves.
LEMMA Operands ==
  ASSUME BuildInv, todo # <<>>, NEW T, Trees(T), NEW S, Stacks(S, T),
         NEW r \in Seq(T), S[1] = Append(Append(r, Head(todo).node.left), Head(todo).node.right),
         Head(todo).node \in T, Head(todo).node.type = "binary_op"
  PROVE  /\ Without(2, S[1], r) /\ 2 <= Len(values)
         /\ Gives("binary_op", Head(todo).node.oper, Head(todo).node)
<1> DEFINE node == Head(todo).node
           n == Len(values)
<1>1. AtHand(S[1]) /\ \A e \in T : IsExpr(e, T)
  BY Found
<1>2. node = BinaryOp(node.oper, node.left, node.right) /\ node.left \in T /\ node.right \in T
  <2>1. node.type # "literal"
    OBVIOUS
  <2> QED  BY <1>1, <2>1, Nodes
<1> HIDE DEF node
<1>3. LET s == Append(Append(r, node.left), node.right) IN
      /\ Len(s) = Len(r) + 2 /\ \A j \in 1 .. Len(r) : s[j] = r[j]
      /\ s[Len(s) - 1] = node.left /\ s[Len(s)] = node.right
  BY <1>2, TwoOnTop
<1>4. /\ Len(S[1]) = Len(r) + 2 /\ \A j \in 1 .. Len(r) : S[1][j] = r[j]
      /\ S[1][Len(S[1]) - 1] = node.left /\ S[1][Len(S[1])] = node.right
  BY <1>3 DEF node
<1>5. Len(S[1]) = n /\ \A j \in 1 .. n : Computes[values[j]] = S[1][j]
  BY <1>1 DEF AtHand
<1>6. Len(r) \in Nat
  OBVIOUS
<1>7. n \in 1 .. n /\ n - 1 \in 1 .. n /\ Len(r) = n - 2 /\ 2 <= n
  BY <1>4, <1>5, <1>6
<1>8. Computes[values[n - 1]] = node.left /\ Computes[values[n]] = node.right
  BY <1>4, <1>5, <1>7
<1>9. Without(2, S[1], r)
  BY <1>4, <1>6 DEF Without
<1> QED  BY <1>2, <1>7, <1>8, <1>9 DEF node, Gives

\* The operand of a store or a return is on top.
LEMMA Operand ==
  ASSUME BuildInv, todo # <<>>, NEW T, Trees(T), NEW S, Stacks(S, T),
         S[1] = Append(S[2], Head(todo).node.value), Head(todo).node.value \in T
  PROVE  /\ Without(1, S[1], S[2]) /\ 1 <= Len(values)
         /\ Computes[values[Len(values)]] = Head(todo).node.value
<1> DEFINE e == Head(todo).node.value
           n == Len(values)
<1>1. AtHand(S[1]) /\ S[2] \in Seq(T)
  BY Found
<1> HIDE DEF e
<1>2. e \in T /\ S[1] = Append(S[2], e)
  BY DEF e
<1> DEFINE r == S[2]
<1>3. r \in Seq(T)
  BY <1>1
<1> HIDE DEF r
<1>4. LET s == Append(r, e) IN
      /\ Len(s) = Len(r) + 1 /\ \A j \in 1 .. Len(r) : s[j] = r[j]
      /\ s[Len(s)] = e
  BY <1>2, <1>3, OneOnTop
<1>5. Len(S[1]) = Len(r) + 1 /\ (\A j \in 1 .. Len(r) : S[1][j] = r[j]) /\ S[1][Len(S[1])] = e
  BY <1>2, <1>4 DEF r
<1>6. Len(S[1]) = n /\ \A j \in 1 .. n : Computes[values[j]] = S[1][j]
  BY <1>1 DEF AtHand
<1>7. Len(r) \in Nat
  BY <1>3
<1>8. n \in 1 .. n /\ Len(r) = n - 1 /\ 1 <= n
  BY <1>5, <1>6, <1>7
<1>9. Without(1, S[1], r)
  BY <1>5, <1>7 DEF Without
<1> QED  BY <1>5, <1>6, <1>8, <1>9 DEF r, e


\* Visits of operands before what is left of a visit keep the statement.
LEMMA PushInside ==
  ASSUME BuildInv, todo # <<>>, UNCHANGED <<program, child, values, code, open>>,
         NEW Q, NEW pre \in Seq(Q), NEW m \in {2, 3}, Len(pre) = m, todo' = pre \o Tail(todo),
         pre[m].node = Head(todo).node, pre[m].how = Then[Head(todo).how],
         Head(todo).how \in {"value", "effect"},
         \A p \in 1 .. m - 1 : pre[p].how = "value"
  PROVE  StatementInv'
<1> PICK R : todo \in Seq(R)
  BY NextVisit
<1> DEFINE n == Len(todo)
<1>1. /\ n \in Nat /\ n >= 1 /\ Head(todo) = todo[1] /\ Len(Tail(todo)) = n - 1
      /\ \A p \in 1 .. n - 1 : Tail(todo)[p] = todo[p + 1]
      /\ Head(todo).how = "value" => n >= 2
      /\ Head(todo).how = "effect" => n = 1
  BY NextVisit
<1>2. /\ todo[n].node = program[child - 1] /\ todo[n].how \in {"effect", "then_effect"}
      /\ \A p \in 1 .. n - 1 : todo[p].how \in {"value", "then_value"}
  BY DEF BuildInv, StatementInv
<1>3. /\ Len(todo') = n + m - 1
      /\ \A i \in 1 .. n + m - 1 : todo'[i] = IF i <= m THEN pre[i] ELSE Tail(todo)[i - m]
  <2>1. pre \in Seq(Q \cup R) /\ Tail(todo) \in Seq(Q \cup R)
    BY <1>1
  <2> QED  BY <1>1, <2>1
<1> HIDE DEF n
<1>4. /\ \A i \in 1 .. m : todo'[i] = pre[i]
      /\ \A i \in m + 1 .. n + m - 1 : todo'[i] = todo[i - m + 1] /\ i - m + 1 \in 2 .. n
  <2>1. \A i \in 1 .. m : i \in 1 .. n + m - 1 /\ i <= m
    BY <1>1
  <2>2. \A i \in m + 1 .. n + m - 1 : /\ i \in 1 .. n + m - 1 /\ ~(i <= m) /\ i - m \in 1 .. n - 1
                                      /\ (i - m) + 1 = i - m + 1 /\ i - m + 1 \in 2 .. n
    BY <1>1
  <2> QED  BY <1>1, <1>3, <2>1, <2>2
<1>5. todo' # <<>>
  <2>1. Len(todo') # 0
    BY <1>1, <1>3
  <2>2. Len(<<>>) = 0
    OBVIOUS
  <2> QED  BY <2>1, <2>2, Zenon
<1>6. Then["value"] = "then_value" /\ Then["effect"] = "then_effect"
  BY DEF Then
<1>7. CASE n = 1
  <2>1. Len(todo') = m /\ todo'[m] = pre[m] /\ Head(todo).how = "effect"
    BY <1>1, <1>3, <1>4, <1>7
  <2>2. \A p \in 1 .. Len(todo') - 1 : todo'[p].how \in {"value", "then_value"}
    BY <1>4, <2>1
  <2>3. todo'[Len(todo')].node = todo[Len(todo)].node /\ todo'[Len(todo')].how \in {"effect", "then_effect"}
    BY <1>1, <1>6, <1>7, <2>1 DEF n
  <2>4. Emitted' = Emitted
    BY DEF Emitted, Effects, Statement, Computes, Unset
  <2> QED  BY <1>5, <2>2, <2>3, <2>4, Inside DEF BuildInv
<1>8. CASE n # 1
  <2>1. /\ Head(todo).how = "value" /\ n + m - 1 \in m + 1 .. n + m - 1
        /\ (n + m - 1) - m + 1 = n
    BY <1>1, <1>8
  <2>2. todo'[Len(todo')] = todo[n]
    BY <1>3, <1>4, <2>1
  <2>3. ASSUME NEW p \in 1 .. Len(todo') - 1 PROVE todo'[p].how \in {"value", "then_value"}
    <3>1. CASE p \in 1 .. m - 1
      BY <1>4, <3>1
    <3>2. CASE p = m
      BY <1>4, <1>6, <2>1, <3>2
    <3>3. CASE p \notin 1 .. m
      <4>1. p \in m + 1 .. n + m - 1 /\ p - m + 1 \in 1 .. n - 1
        BY <1>1, <1>3, <3>3
      <4> QED  BY <1>2, <1>4, <4>1 DEF n
    <3> QED  BY <3>1, <3>2, <3>3
  <2>4. Emitted' = Emitted
    BY DEF Emitted, Effects, Statement, Computes, Unset
  <2>5. todo'[Len(todo')].node = todo[Len(todo)].node /\ todo'[Len(todo')].how \in {"effect", "then_effect"}
    BY <1>2, <2>2 DEF n
  <2> QED  BY <1>5, <2>3, <2>4, <2>5, Inside DEF BuildInv
<1> QED  BY <1>7, <1>8

LEMMA BuildBinaryOp ==
  ASSUME BuildInv, visit_binary_op
  PROVE  BuildInv'
<1> DEFINE v == Head(todo)
           left == Visit("value", v.node.left)
           right == Visit("value", v.node.right)
           then == Visit(Then[v.how], v.node)
<1>1. /\ todo # <<>> /\ v.how \in {"value", "effect"} /\ v.node.type = "binary_op"
      /\ todo' = <<left, right, then>> \o Tail(todo)
      /\ UNCHANGED <<program, child, values, code, temp_count, open>>
  BY DEF visit_binary_op, IsVisit
<1>2. PICK T : Trees(T)
  BY DEF BuildInv
<1>3. PICK S : Stacks(S, T)
  BY <1>2 DEF Trees
<1>4. /\ VisitOK(v, T) /\ Makes(v, S[1], S[2], T)
      /\ S[1] \in Seq(T) /\ S[2] \in Seq(T)
      /\ \A p \in 1 .. Len(todo) : VisitOK(todo[p], T)
      /\ \A e \in T : IsExpr(e, T)
  BY <1>1, <1>2, <1>3, Found
<1>5. /\ v.node \in T /\ v.node.left \in T /\ v.node.right \in T
  <2>1. v.node \in T
    BY <1>1, <1>4, Nodes DEF VisitOK
  <2>2. v.node.type # "literal"
    BY <1>1
  <2> QED  BY <1>4, <2>1, <2>2, Nodes
<1>6. /\ left.how = "value" /\ left.node = v.node.left /\ right.how = "value" /\ right.node = v.node.right
      /\ then.node = v.node /\ then.how = Then[v.how]
      /\ v.how = "value" => then.how = "then_value"
      /\ v.how = "effect" => then.how = "then_effect"
  BY <1>1 DEF Visit, Then
<1> HIDE DEF left, right, then
<1>7. VisitOK(left, T) /\ VisitOK(right, T) /\ VisitOK(then, T)
  BY <1>1, <1>4, <1>5, <1>6 DEF VisitOK
<1> DEFINE s2 == Append(S[1], v.node.left)
           s3 == Append(s2, v.node.right)
<1>8. s2 \in Seq(T) /\ s3 \in Seq(T)
  BY <1>4, <1>5
<1>9. Makes(left, S[1], s2, T) /\ Makes(right, s2, s3, T)
  BY <1>6 DEF Makes
<1>10. Makes(then, s3, S[2], T)
  <2>1. CASE v.how = "value"
    BY <1>1, <1>4, <1>6, <2>1 DEF Makes
  <2>2. CASE v.how = "effect"
    BY <1>1, <1>4, <1>6, <2>2 DEF Makes
  <2> QED  BY <1>1, <2>1, <2>2
<1> HIDE DEF s2, s3
<1>11. PICK R : todo \in Seq(R)
  BY <1>1, NextVisit
<1>12. Trees(T)'
  <2>1. UNCHANGED <<values, code>>
    BY <1>1
  <2>2. /\ \E G : Stacks(G, T)'
        /\ \A p \in 1 .. Len(todo') : VisitOK(todo'[p], T)
    BY <1>1, <1>3, <1>4, <1>7, <1>8, <1>9, <1>10, <1>11, <2>1, PushTwo
  <2> QED  BY <1>1, <1>2, <2>2 DEF Trees
<1>13. StatementInv'
  <2> DEFINE pre == <<left, right, then>>
             Q == {left, right, then}
  <2>1. /\ pre \in Seq(Q) /\ Len(pre) = 3 /\ 3 \in {2, 3} /\ pre[3] = then
        /\ \A p \in 1 .. 3 - 1 : pre[p] = left \/ pre[p] = right
    OBVIOUS
  <2>2. todo' = pre \o Tail(todo)
    BY <1>1
  <2> HIDE DEF pre, Q
  <2>3. \A p \in 1 .. 3 - 1 : pre[p].how = "value"
    BY <1>6, <2>1
  <2>4. pre[3].node = Head(todo).node /\ pre[3].how = Then[Head(todo).how]
    BY <1>6, <2>1
  <2>5. UNCHANGED <<program, child, values, code, open>>
    BY <1>1
  <2>6. Head(todo).how \in {"value", "effect"}
    BY <1>1
  <2> QED  BY <1>1, <2>1, <2>2, <2>3, <2>4, <2>5, <2>6, PushInside
<1>14. IInv' /\ ShapeInv' /\ ReturnInv'
  <2>1. IInv
    BY DEF BuildInv
  <2> QED  BY <1>1, <2>1, OperandsStep DEF BuildInv, ShapeInv, ReturnInv, Unset
<1> QED  BY <1>12, <1>13, <1>14 DEF BuildInv

LEMMA BuildStoreOrReturn ==
  ASSUME BuildInv, visit_store_or_return
  PROVE  BuildInv'
<1> DEFINE v == Head(todo)
           left == Visit("value", v.node.value)
           then == Visit("then_effect", v.node)
<1>1. /\ todo # <<>> /\ v.how = "effect" /\ v.node.type \in {"store_local", "return"}
      /\ todo' = <<left, then>> \o Tail(todo)
      /\ UNCHANGED <<program, child, values, code, temp_count, open>>
  BY DEF visit_store_or_return, IsVisit
<1>2. PICK T : Trees(T)
  BY DEF BuildInv
<1>3. PICK S : Stacks(S, T)
  BY <1>2 DEF Trees
<1>4. /\ VisitOK(v, T) /\ Makes(v, S[1], S[2], T)
      /\ S[1] \in Seq(T) /\ S[2] \in Seq(T)
      /\ \A p \in 1 .. Len(todo) : VisitOK(todo[p], T)
      /\ \A e \in T : IsExpr(e, T)
  BY <1>1, <1>2, <1>3, Found
<1>5. IsStatement(v.node, T) /\ v.node.value \in T
  <2>1. IsStatement(v.node, T)
    BY <1>1, <1>4 DEF VisitOK
  <2> QED  BY <1>1, <1>4, <2>1, Nodes
<1>6. /\ left.how = "value" /\ left.node = v.node.value
      /\ then.node = v.node /\ then.how = "then_effect" /\ then.how = Then[v.how]
  BY <1>1 DEF Visit, Then
<1> HIDE DEF left, then
<1>7. VisitOK(left, T) /\ VisitOK(then, T)
  BY <1>1, <1>5, <1>6 DEF VisitOK
<1> DEFINE s2 == Append(S[1], v.node.value)
<1>8. s2 \in Seq(T)
  BY <1>4, <1>5
<1>9. Makes(left, S[1], s2, T)
  BY <1>6 DEF Makes
<1>10. Makes(then, s2, S[2], T)
  BY <1>1, <1>4, <1>6 DEF Makes
<1> HIDE DEF s2
<1>11. PICK R : todo \in Seq(R)
  BY <1>1, NextVisit
<1>12. Trees(T)'
  <2>1. UNCHANGED <<values, code>>
    BY <1>1
  <2>2. /\ \E G : Stacks(G, T)'
        /\ \A p \in 1 .. Len(todo') : VisitOK(todo'[p], T)
    BY <1>1, <1>3, <1>4, <1>7, <1>8, <1>9, <1>10, <1>11, <2>1, PushOne
  <2> QED  BY <1>1, <1>2, <2>2 DEF Trees
<1>13. StatementInv'
  <2> DEFINE pre == <<left, then>>
             Q == {left, then}
  <2>1. /\ pre \in Seq(Q) /\ Len(pre) = 2 /\ 2 \in {2, 3} /\ pre[2] = then
        /\ \A p \in 1 .. 2 - 1 : pre[p] = left
    OBVIOUS
  <2>2. todo' = pre \o Tail(todo)
    BY <1>1
  <2> HIDE DEF pre, Q
  <2>3. \A p \in 1 .. 2 - 1 : pre[p].how = "value"
    BY <1>6, <2>1
  <2>4. pre[2].node = Head(todo).node /\ pre[2].how = Then[Head(todo).how]
    BY <1>6, <2>1
  <2>5. UNCHANGED <<program, child, values, code, open>>
    BY <1>1
  <2>6. Head(todo).how \in {"value", "effect"}
    BY <1>1
  <2> QED  BY <1>1, <2>1, <2>2, <2>3, <2>4, <2>5, <2>6, PushInside
<1>14. IInv' /\ ShapeInv' /\ ReturnInv'
  <2>1. IInv
    BY DEF BuildInv
  <2> QED  BY <1>1, <2>1, OperandsStep DEF BuildInv, ShapeInv, ReturnInv, Unset
<1> QED  BY <1>12, <1>13, <1>14 DEF BuildInv

\* The operation itself, for its value or for effect.
LEMMA BuildOperation ==
  ASSUME BuildInv, return_binary_op
  PROVE  BuildInv'
<1> DEFINE node == Head(todo).node
<1>1. /\ todo # <<>> /\ todo' = Tail(todo) /\ UNCHANGED <<program, child, open>> /\ node.type = "binary_op"
      /\ \/ Head(todo).how = "then_value" /\ evis_bind("binary_op", node.oper, 2)
         \/ Head(todo).how = "then_effect" /\ evis_do("binary_op", node.oper, 2)
  BY DEF return_binary_op, IsVisit
<1>2. IInv'
  BY ReturnsStep DEF BuildInv
<1>3. PICK T : Trees(T)
  BY DEF BuildInv
<1>4. PICK S : Stacks(S, T)
  BY <1>3 DEF Trees
<1>5. /\ VisitOK(Head(todo), T) /\ Makes(Head(todo), S[1], S[2], T)
      /\ S[1] \in Seq(T) /\ S[2] \in Seq(T)
      /\ \A e \in T : IsExpr(e, T)
  BY <1>1, <1>3, <1>4, Found
<1>6. node \in T
  BY <1>1, <1>5, Nodes DEF VisitOK
<1>7. CASE Head(todo).how = "then_value" /\ evis_bind("binary_op", node.oper, 2)
  <2>1. PICK r \in Seq(T) : S[1] = Append(Append(r, node.left), node.right) /\ S[2] = Append(r, node)
    BY <1>5, <1>7 DEF Makes
  <2>2. Without(2, S[1], r) /\ 2 <= Len(values) /\ Gives("binary_op", node.oper, node)
    BY <1>1, <1>3, <1>4, <1>6, <2>1, Operands
  <2>3. OnTop(S[2], r, node)
    BY <1>6, <2>1, OneOnTop DEF OnTop
  <2>4. 2 \in 0 .. 2 /\ ValueOp("binary_op", 2)
    BY DEF ValueOp
  <2>5. Head(todo).how \in {"value", "then_value"} /\ evis_bind("binary_op", node.oper, 2)
    BY <1>7
  <2> QED  BY <1>1, <1>2, <1>3, <1>4, <2>1, <2>2, <2>3, <2>4, <2>5, BuildBind
<1>8. CASE Head(todo).how = "then_effect" /\ evis_do("binary_op", node.oper, 2)
  <2>1. S[1] = Append(Append(S[2], node.left), node.right)
    BY <1>1, <1>5, <1>8 DEF Makes
  <2>2. Without(2, S[1], S[2]) /\ 2 <= Len(values) /\ Gives("binary_op", node.oper, node)
    BY <1>1, <1>3, <1>4, <1>5, <1>6, <2>1, Operands
  <2>3. 2 \in 1 .. 2 /\ EffectOp("binary_op", 2)
    BY DEF EffectOp
  <2>4. open
    BY <1>1 DEF BuildInv, StatementInv
  <2>5. open' = ("binary_op" # "return")
    BY <1>1, <2>4
  <2>6. UNCHANGED <<program, child>> /\ evis_do("binary_op", node.oper, 2) /\ Head(todo).how = "then_effect"
    BY <1>1, <1>8
  <2> QED  BY <1>1, <1>2, <1>3, <1>4, <2>2, <2>3, <2>5, <2>6, BuildDo
<1> QED  BY <1>1, <1>7, <1>8

LEMMA BuildStatement ==
  ASSUME BuildInv, return_store_local \/ add_return_exit
  PROVE  BuildInv'
<1> DEFINE node == Head(todo).node
<1>1. /\ todo # <<>> /\ todo' = Tail(todo) /\ UNCHANGED <<program, child>> /\ Head(todo).how = "then_effect"
      /\ \/ node.type = "store_local" /\ evis_do("store_local", node.local, 1) /\ open' = open
         \/ node.type = "return" /\ evis_do("return", Unset, 1) /\ open' = FALSE
  BY DEF return_store_local, add_return_exit, IsVisit
<1>2. IInv'
  BY ReturnsStep DEF BuildInv
<1>3. PICK T : Trees(T)
  BY DEF BuildInv
<1>4. PICK S : Stacks(S, T)
  BY <1>3 DEF Trees
<1>5. /\ VisitOK(Head(todo), T) /\ Makes(Head(todo), S[1], S[2], T)
      /\ \A e \in T : IsExpr(e, T)
  BY <1>1, <1>3, <1>4, Found
<1>6. /\ node.value \in T /\ (node.type = "store_local" => node = StoreLocal(node.local, node.value))
      /\ node.type = "return" => node = Return(node.value)
  <2>1. IsStatement(node, T)
    BY <1>1, <1>5 DEF VisitOK
  <2> QED  BY <1>1, <1>5, <2>1, Nodes
<1>7. S[1] = Append(S[2], node.value)
  BY <1>1, <1>5 DEF Makes
<1>8. Without(1, S[1], S[2]) /\ 1 <= Len(values) /\ Computes[values[Len(values)]] = node.value
  BY <1>1, <1>3, <1>4, <1>6, <1>7, Operand
<1>9. 1 \in 1 .. 2 /\ EffectOp("store_local", 1) /\ EffectOp("return", 1)
  BY DEF EffectOp
<1>10. open
  BY <1>1 DEF BuildInv, StatementInv
<1>11. CASE node.type = "store_local" /\ evis_do("store_local", node.local, 1) /\ open' = open
  <2>1. Gives("store_local", node.local, node)
    BY <1>6, <1>8, <1>11 DEF Gives
  <2>2. open' = ("store_local" # "return")
    BY <1>10, <1>11
  <2>3. evis_do("store_local", node.local, 1) /\ node.type = "store_local"
    BY <1>11
  <2> QED  BY <1>1, <1>2, <1>3, <1>4, <1>8, <1>9, <2>1, <2>2, <2>3, BuildDo
<1>12. CASE node.type = "return" /\ evis_do("return", Unset, 1) /\ open' = FALSE
  <2>1. Gives("return", Unset, node)
    BY <1>6, <1>8, <1>12 DEF Gives
  <2>2. open' = ("return" # "return")
    BY <1>12
  <2>3. evis_do("return", Unset, 1) /\ node.type = "return"
    BY <1>12
  <2> QED  BY <1>1, <1>2, <1>3, <1>4, <1>8, <1>9, <2>1, <2>2, <2>3, BuildDo
<1> QED  BY <1>1, <1>11, <1>12


LEMMA BuildUnchanged ==
  ASSUME BuildInv, UNCHANGED vars
  PROVE  BuildInv'
<1>1. UNCHANGED <<program, child, todo, values, code, temp_count, open>>
  BY DEF vars
<1>2. IInv'
  BY StepInv DEF BuildInv
<1>3. ShapeInv' /\ ReturnInv'
  BY <1>1 DEF BuildInv, ShapeInv, ReturnInv, Unset
<1>4. StatementInv'
  <2>1. Wanted' = Wanted /\ Emitted' = Emitted /\ Built' = Built
    BY <1>1 DEF Wanted, Emitted, Effects, Statement, Computes, Unset, Built
  <2>2. PICK f : IsPick(f, Wanted, program) /\ Emitted = f[Built]
    BY DEF BuildInv, StatementInv
  <2>3. IsPick(f, Wanted, program)'
    BY <1>1, <2>1, <2>2 DEF IsPick
  <2>4. (\E g : IsPick(g, Wanted, program) /\ Emitted = g[Built])'
    BY <2>1, <2>2, <2>3
  <2>5. Statement(Len(code))' = Statement(Len(code))
    BY <1>1 DEF Statement, Computes
  <2> QED  BY <1>1, <2>1, <2>4, <2>5 DEF BuildInv, StatementInv
<1>5. (\E T : Trees(T))'
  <2>1. PICK T : Trees(T)
    BY DEF BuildInv
  <2>2. PICK S : Stacks(S, T)
    BY <2>1 DEF Trees
  <2>3. AtHand(S[1])'
    BY <1>1, <2>2 DEF Stacks, AtHand, Computes
  <2>4. Stacks(S, T)'
    BY <1>1, <2>2, <2>3 DEF Stacks
  <2>5. (\E G : Stacks(G, T))'
    BY <2>4
  <2>6. Trees(T)'
    BY <1>1, <2>1, <2>5 DEF Trees
  <2> QED  BY <2>6
<1> QED  BY <1>2, <1>3, <1>4, <1>5 DEF BuildInv

LEMMA BuildStarts ==
  ASSUME Start, IInv, NEW T, \A e \in T : IsExpr(e, T), IsProgram(program, T)
  PROVE  BuildInv
<1>1. /\ child = 1 /\ todo = <<>> /\ values = <<>> /\ code = <<>> /\ open = TRUE
      /\ Len(todo) = 0 /\ Len(values) = 0 /\ Len(code) = 0 /\ 1 .. Len(code) = {} /\ 1 .. Len(todo) = {}
  BY DEF Start
<1>2. ShapeInv /\ ReturnInv
  BY <1>1 DEF ShapeInv, ReturnInv
<1>3. StatementInv
  <2>1. Len(program) \in Nat
    BY DEF IsProgram
  <2>2. PICK f : IsPick(f, Wanted, program) /\ Picked(Wanted, program) = f[Len(program)]
    BY <2>1, PickIs
  <2> DEFINE s == [i \in 1 .. Len(code) |-> Statement(i)]
  <2>3. Len(s) = 0
    BY <1>1
  <2> HIDE DEF s
  <2>4. PICK g : IsPick(g, Effects, s) /\ Picked(Effects, s) = g[0]
    BY <2>3, PickIs
  <2>5. Emitted = <<>>
    BY <2>4 DEF Emitted, IsPick, s
  <2>6. Built = 0 /\ f[0] = <<>>
    BY <1>1, <2>2 DEF Built, IsPick
  <2>7. \E h : IsPick(h, Wanted, program) /\ Emitted = h[Built]
    BY <2>2, <2>5, <2>6
  <2>8. 1 .. Built = {} /\ 1 .. child - 2 = {}
    BY <1>1, <2>6
  <2> QED  BY <1>1, <2>7, <2>8 DEF StatementInv
<1>4. Trees(T)
  <2> DEFINE S == [i \in 1 .. 1 |-> <<>>]
  <2>1. S \in [1 .. 1 -> Seq(T)] /\ S[1] = <<>> /\ Len(todo) + 1 = 1
    BY <1>1
  <2> HIDE DEF S
  <2>2. AtHand(<<>>)
    BY <1>1 DEF AtHand
  <2>3. Stacks(S, T)
    BY <1>1, <2>1, <2>2 DEF Stacks
  <2> QED  BY <1>1, <2>3 DEF Trees
<1> QED  BY <1>2, <1>3, <1>4 DEF BuildInv

LEMMA BuildInit == Init => BuildInv
<1> SUFFICES ASSUME Init PROVE BuildInv
  OBVIOUS
<1>1. Start /\ program \in Programs
  BY DEF Init, Start
<1>2. IsProgram(program, Exprs) /\ \A e \in Exprs : IsExpr(e, Exprs)
  BY <1>1, BuilderAssumption
<1>3. IInv
  BY InitInv
<1> QED  BY <1>1, <1>2, <1>3, BuildStarts

LEMMA BuildStep == BuildInv /\ [Next]_vars => BuildInv'
<1> SUFFICES ASSUME BuildInv, [Next]_vars PROVE BuildInv'
  OBVIOUS
<1>1. CASE Next
  BY <1>1, BuildSequence, BuildLiteral, BuildBinaryOp, BuildOperation, BuildStoreOrReturn, BuildStatement DEF Next
<1>2. CASE UNCHANGED vars
  BY <1>2, BuildUnchanged
<1> QED  BY <1>1, <1>2

(* What the code built so far means: the statements finished are those of  *)
(* the source, and the visits under way will complete the next one.        *)
THEOREM BuildInvariant == Spec => []BuildInv
  BY BuildInit, BuildStep, PTL DEF Spec

\* When the builder is done, what was emitted is what the program asks for.
LEMMA BuiltAll ==
  ASSUME BuildInv, Done
  PROVE  Emitted = Expected
<1>1. IInv /\ StatementInv
  BY DEF BuildInv
<1>2. /\ todo = <<>> /\ (~open \/ child > Len(program))
      /\ child \in 1 .. Len(program) + 1 /\ Len(program) \in Nat
  <2>1. \E T : IsProgram(program, T)
    BY DEF BuildInv, Trees
  <2> QED  BY <1>1, <2>1 DEF IInv, TypeOK, Done, IsProgram
<1>3. Built = child - 1 /\ child - 1 \in 0 .. Len(program)
  BY <1>2 DEF Built
<1>4. PICK f : IsPick(f, Wanted, program) /\ Emitted = f[child - 1]
  BY <1>1, <1>3 DEF StatementInv
<1>5. \A i \in (child - 1) + 1 .. Len(program) : i \notin Wanted
  <2>1. CASE child > Len(program)
    BY <1>2, <2>1
  <2>2. CASE ~open
    <3>1. program[child - 1].type = "return" /\ child >= 2
      BY <1>1, <2>2 DEF StatementInv
    <3>2. \A i \in (child - 1) + 1 .. Len(program) : child - 1 \in 1 .. i - 1
      BY <1>2, <3>1
    <3> QED  BY <3>1, <3>2 DEF Wanted
  <2> QED  BY <1>2, <2>1, <2>2
<1>6. f[Len(program)] = f[child - 1]
  BY <1>2, <1>3, <1>4, <1>5, PickTail
<1>7. PICK g : IsPick(g, Wanted, program) /\ Picked(Wanted, program) = g[Len(program)]
  BY <1>2, PickIs
<1>8. \A i \in 0 .. Len(program) : f[i] = g[i]
  <2>1. \A i \in 1 .. Len(program) : program[i] = program[i] /\ (i \in Wanted <=> i \in Wanted)
    OBVIOUS
  <2> QED  BY <1>2, <1>4, <1>7, <2>1, PickAgree
<1>9. f[Len(program)] = g[Len(program)]
  BY <1>2, <1>8
<1> QED  BY <1>4, <1>6, <1>7, <1>9 DEF Expected

(* For every program that the constructors of ast.c can make: the finished *)
(* code stores and returns exactly its statements, in order, each with the *)
(* expression it was written with, and stops at the first return.          *)
THEOREM ProgramBuilt == Spec => []BuildsProgram
<1>1. BuildInv => BuildsProgram
  BY BuiltAll DEF BuildsProgram
<1> QED  BY <1>1, BuildInvariant, PTL
-----------------------------------------------------------------------------
\* The instructions that compute a value or have an effect only by what they compute.
IsValue(i) == code[i].op \in {"constant", "binary_op"}

\* The inputs of an instruction for effect at position i: the last one was
\* computed just before it, and a first one beside it is not the second
\* instruction of all.
EffectInputs(in, i) == /\ Len(in) \in {1, 2} /\ in[Len(in)] = i - 1
                       /\ Len(in) = 2 => in[1] # 2

UsesInv == /\ \A j \in 1 .. Len(values) : IsValue(values[j])
           /\ \A i \in 1 .. Len(code) : \A k \in 1 .. Len(code[i].inputs) : IsValue(code[i].inputs[k])
           /\ Len(values) # 0 => values[Len(values)] = Len(code) /\ values[1] # 2
           /\ Len(code) = 1 => Len(values) = 1
           /\ Len(values) = 0 /\ Len(code) # 0 => code[Len(code)].temp = Unset
           /\ \A i \in 1 .. Len(code) : code[i].temp = Unset => EffectInputs(code[i].inputs, i)

LEMMA PlacedUses ==
  ASSUME IInv, UsesInv, NEW k \in 0 .. 2, k <= Len(values), NEW op, NEW arg, NEW temp,
         code' = Append(code, Instr(op, arg, Top(k), temp)),
         \/ /\ op \in {"constant", "binary_op"} /\ k # 1 /\ temp # Unset
            /\ values' = Append(Below(k), Len(code'))
         \/ /\ k # 0 /\ k = Len(values) /\ temp = Unset
            /\ values' = Below(k)
  PROVE  UsesInv'
<1> DEFINE c == Len(code)
           n == Len(values)
           new == Instr(op, arg, Top(k), temp)
           bind == /\ op \in {"constant", "binary_op"} /\ k # 1 /\ temp # Unset
                   /\ values' = Append(Below(k), Len(code'))
           do == /\ k # 0 /\ k = n /\ temp = Unset
                 /\ values' = Below(k)
<1> PICK S : code \in Seq(S)
  BY DEF IInv, ValuesInv
<1>1. c \in Nat /\ Len(code') = c + 1 /\ code'[c + 1] = new /\ \A i \in 1 .. c : code'[i] = code[i]
  <2> HIDE DEF new
  <2> QED  BY DEF new
<1>2. new.op = op /\ new.inputs = Top(k) /\ new.temp = temp
  BY DEF Instr
<1>3. n \in Nat /\ values \in Seq(1 .. c)
  BY DEF IInv, ValuesInv
<1>4. \A j \in 1 .. n : values[j] \in 1 .. c
  BY <1>3, ElementOfSeq, Zenon
<1>5. \A i \in 1 .. c : code[i].inputs \in Seq(1 .. i - 1)
  BY DEF IInv, ValuesInv
<1> HIDE DEF new, c
<1>6. k \in Nat
  OBVIOUS
<1>7. /\ Len(Top(k)) = k /\ \A m \in 1 .. k : Top(k)[m] = values[Len(values) - k + m]
      /\ Below(k) \in Seq(1 .. c) /\ Len(Below(k)) = Len(values) - k
      /\ \A j \in 1 .. Len(values) - k : Below(k)[j] = values[j]
  BY <1>1, <1>3, <1>6, TopBelow
<1>8. bind \/ do
  OBVIOUS
<1> HIDE DEF bind, do, n
<1>9. \A i \in 1 .. c : IsValue(i)' = IsValue(i)
  BY <1>1 DEF IsValue
<1>10. bind => /\ Len(values') = n - k + 1 /\ values'[n - k + 1] = c + 1
               /\ \A j \in 1 .. n - k : values'[j] = values[j]
  <2>1. ASSUME bind PROVE values' = Append(Below(k), c + 1)
    BY <1>1, <2>1 DEF bind
  <2>2. n - k \in Nat
    BY <1>3, <1>6 DEF n
  <2>3. Len(Append(Below(k), c + 1)) = n - k + 1 /\ Append(Below(k), c + 1)[n - k + 1] = c + 1
        /\ \A j \in 1 .. n - k : Append(Below(k), c + 1)[j] = Below(k)[j]
    <3>1. Below(k) \in Seq(1 .. c + 1) /\ c + 1 \in 1 .. c + 1
      BY <1>1, <1>7
    <3>2. Len(Below(k)) = n - k
      BY <1>7 DEF n
    <3> HIDE DEF n
    <3> QED  BY <2>2, <3>1, <3>2, AppendProperties
  <2> QED  BY <1>7, <2>1, <2>3 DEF n
<1>11. do => /\ Len(values') = 0
  BY <1>3, <1>7 DEF do, n
<1>12. n = 0 \/ c # 0
  <2>1. ASSUME n # 0 PROVE c # 0
    <3>1. values[1] \in 1 .. c
      BY <1>3, <1>4, <2>1
    <3> QED  BY <1>1, <3>1
  <2> QED  BY <2>1
<1>14. ASSUME NEW j \in 1 .. Len(values') PROVE IsValue(values[j])'
  <2>1. bind
    BY <1>8, <1>11
  <2>2. CASE j = n - k + 1
    <3>1. code'[values'[j]].op = op
      BY <1>1, <1>2, <1>10, <2>1, <2>2
    <3> QED  BY <2>1, <3>1 DEF IsValue, bind
  <2>3. CASE j # n - k + 1
    <3>1. j \in 1 .. n - k /\ j \in 1 .. n
      BY <1>3, <1>6, <1>10, <2>1, <2>3
    <3>2. values'[j] = values[j] /\ values[j] \in 1 .. c
      BY <1>4, <1>10, <2>1, <3>1
    <3>3. code[values[j]].op \in {"constant", "binary_op"}
      BY <3>1 DEF UsesInv, IsValue, n
    <3> QED  BY <1>1, <3>2, <3>3 DEF IsValue
  <2> QED  BY <2>2, <2>3
<1>15. ASSUME NEW i \in 1 .. c + 1, NEW m \in 1 .. Len(code'[i].inputs) PROVE IsValue(code[i].inputs[m])'
  <2>1. CASE i = c + 1
    <3>1. code'[i].inputs = Top(k) /\ m \in 1 .. k
      BY <1>1, <1>2, <1>7, <2>1
    <3>2. n - k + m \in 1 .. n
      BY <1>3, <1>6, <3>1 DEF n
    <3>3. Top(k)[m] = values[n - k + m]
      BY <1>7, <3>1 DEF n
    <3>4. code[values[n - k + m]].op \in {"constant", "binary_op"} /\ values[n - k + m] \in 1 .. c
      BY <1>4, <3>2 DEF UsesInv, IsValue, n
    <3> QED  BY <1>1, <3>1, <3>3, <3>4 DEF IsValue
  <2>2. CASE i # c + 1
    <3>1. i \in 1 .. c /\ code'[i] = code[i]
      BY <1>1, <2>2
    <3>2. code[i].inputs[m] \in 1 .. i - 1
      BY <1>5, <3>1, ElementOfSeq
    <3>3. code[code[i].inputs[m]].op \in {"constant", "binary_op"}
      BY <3>1 DEF UsesInv, IsValue, c
    <3> QED  BY <1>1, <3>1, <3>2, <3>3 DEF IsValue
  <2> QED  BY <2>1, <2>2
<1>16. ASSUME Len(values') # 0 PROVE values'[Len(values')] = c + 1 /\ values'[1] # 2
  <2>1. bind
    BY <1>8, <1>11, <1>16
  <2>2. CASE n - k = 0
    <3>1. c # 1
      <4>1. c = 1 => n = 1
        BY DEF UsesInv, c, n
      <4> QED  BY <1>3, <1>6, <2>1, <2>2, <4>1 DEF bind
    <3> QED  BY <1>1, <1>10, <2>1, <2>2, <3>1
  <2>3. CASE n - k # 0
    <3>1. n - k \in Nat /\ 1 \in 1 .. n - k /\ n # 0
      BY <1>3, <1>6, <2>3 DEF n
    <3>2. values[1] # 2
      BY <3>1 DEF UsesInv, n
    <3> QED  BY <1>10, <2>1, <3>1, <3>2
  <2> QED  BY <2>2, <2>3
<1>17. ASSUME Len(code') = 1 PROVE Len(values') = 1
  <2>1. c = 0 /\ n = 0 /\ k = 0
    BY <1>1, <1>3, <1>6, <1>12, <1>17 DEF n
  <2>2. bind
    BY <1>8, <2>1 DEF do
  <2>3. Len(values') = n - k + 1
    BY <1>10, <2>2
  <2> QED  BY <2>1, <2>3
<1>18. Len(values') = 0 => code'[Len(code')].temp = Unset
  <2>1. ASSUME Len(values') = 0 PROVE do
    <3>1. bind => n - k + 1 # 0
      BY <1>3, <1>6 DEF n
    <3> QED  BY <1>8, <1>10, <2>1, <3>1
  <2> QED  BY <1>1, <1>2, <2>1 DEF do
<1>19. ASSUME NEW i \in 1 .. c + 1, code'[i].temp = Unset PROVE EffectInputs(code'[i].inputs, i)
  <2>1. CASE i = c + 1
    <3>1. code'[i].inputs = Top(k) /\ do
      BY <1>1, <1>2, <1>8, <1>19, <2>1 DEF bind
    <3>2. k \in {1, 2} /\ n = k /\ n - k + k = n /\ n - k + 1 = 1 /\ k \in 1 .. k /\ 1 \in 1 .. k
      BY <1>6, <3>1 DEF do
    <3>3. Top(k)[k] = values[n] /\ Top(k)[1] = values[1] /\ Len(Top(k)) = k
      BY <1>7, <3>2 DEF n
    <3>4. values[n] = c /\ values[1] # 2
      BY <3>2 DEF UsesInv, n, c
    <3>5. i - 1 = c
      BY <1>1, <2>1
    <3> QED  BY <3>1, <3>2, <3>3, <3>4, <3>5 DEF EffectInputs
  <2>2. CASE i # c + 1
    <3>1. i \in 1 .. c /\ code'[i] = code[i]
      BY <1>1, <2>2
    <3> QED  BY <1>19, <3>1 DEF UsesInv, c
  <2> QED  BY <2>1, <2>2
<1>20. (\A i \in 1 .. Len(code) : \A m \in 1 .. Len(code[i].inputs) : IsValue(code[i].inputs[m]))'
  BY <1>1, <1>15
<1>21. (\A j \in 1 .. Len(values) : IsValue(values[j]))'
  BY <1>14
<1>22. (Len(values) # 0 => values[Len(values)] = Len(code) /\ values[1] # 2)'
  BY <1>1, <1>16
<1>23. (\A i \in 1 .. Len(code) : code[i].temp = Unset => EffectInputs(code[i].inputs, i))'
  BY <1>1, <1>19 DEF Unset
<1> QED  BY <1>17, <1>18, <1>20, <1>21, <1>22, <1>23 DEF UsesInv, Unset
-----------------------------------------------------------------------------
\* When a statement has been finished, the operands at hand are used up.
LEMMA NoneAtHand ==
  ASSUME IInv', todo' = <<>>
  PROVE  Len(values') = 0
<1>1. (\E H : Heights(H))'
  BY DEF IInv, StackInv
<1>2. PICK H : Heights(H)'
  BY <1>1
<1>3. Len(todo') + 1 = 1
  OBVIOUS
<1> QED  BY <1>2, <1>3 DEF Heights

\* A step that defines a value.
LEMMA BindUses ==
  ASSUME IInv, UsesInv, NEW k \in {0, 2}, k <= Len(values), NEW op \in {"constant", "binary_op"}, NEW arg,
         evis_bind(op, arg, k)
  PROVE  UsesInv'
<1>1. /\ temp_count' = temp_count - k + 1
      /\ code' = Append(code, Instr(op, arg, Top(k), temp_count'))
      /\ values' = Append(Below(k), Len(code'))
  BY DEF evis_bind
<1>2. temp_count = Len(values) /\ Len(values) \in Nat
  BY DEF IInv, ValuesInv
<1>3. temp_count' # Unset
  <2>1. Len(values) - k + 1 # 0
    BY <1>2
  <2> QED  BY <1>1, <1>2, <2>1 DEF Unset
<1>4. k \in 0 .. 2 /\ k # 1
  OBVIOUS
<1> QED  BY <1>1, <1>3, <1>4, PlacedUses

\* The step that ends a statement.
LEMMA DoUses ==
  ASSUME IInv, UsesInv, IInv', todo' = <<>>, NEW k \in {1, 2}, k <= Len(values), NEW op, NEW arg,
         evis_do(op, arg, k)
  PROVE  UsesInv'
<1>1. /\ code' = Append(code, Instr(op, arg, Top(k), Unset))
      /\ values' = Below(k)
  BY DEF evis_do
<1>2. Len(values) \in Nat /\ Len(code) \in Nat /\ values \in Seq(1 .. Len(code)) /\ k \in Nat
  <2>1. \E S : code \in Seq(S)
    BY DEF IInv, ValuesInv
  <2> QED  BY <2>1 DEF IInv, ValuesInv
<1>3. Len(Below(k)) = Len(values) - k
  BY <1>2, TopBelow
<1>4. Len(values') = 0
  BY NoneAtHand
<1>5. k = Len(values)
  BY <1>1, <1>2, <1>3, <1>4
<1>6. k \in 0 .. 2 /\ k # 0
  OBVIOUS
<1> QED  BY <1>1, <1>5, <1>6, PlacedUses

LEMMA SameUses ==
  ASSUME UsesInv, UNCHANGED <<values, code>>
  PROVE  UsesInv'
  BY DEF UsesInv, IsValue, EffectInputs, Unset

LEMMA UsesStep ==
  ASSUME BuildInv, BuildInv', UsesInv, [Next]_vars
  PROVE  UsesInv'
<1>1. IInv /\ IInv' /\ Len(values) \in Nat
  <2>1. IInv /\ IInv'
    BY DEF BuildInv
  <2>2. Len(values) \in Nat
    BY <2>1 DEF IInv, ValuesInv
  <2> QED  BY <2>1, <2>2
<1>2. ASSUME todo # <<>>
      PROVE  /\ Needs(Head(todo)) <= Len(values) /\ Len(values) + Delta(Head(todo)) \in Nat
             /\ Head(todo).how = "then_effect" => Tail(todo) = <<>>
  BY <1>1, <1>2, EnoughValues, NextVisit DEF IInv
<1>3. CASE UNCHANGED vars
  BY <1>3, SameUses DEF vars
<1>4. CASE visit_sequence
  BY <1>4, SameUses DEF visit_sequence
<1>5. CASE visit_literal
  <2>1. CASE evis_bind("constant", Head(todo).node.value, 0)
    <3>1. 0 \in {0, 2} /\ 0 <= Len(values) /\ "constant" \in {"constant", "binary_op"}
      BY <1>1
    <3> QED  BY <1>1, <2>1, <3>1, BindUses
  <2>2. CASE UNCHANGED <<values, code, temp_count>>
    BY <2>2, SameUses
  <2> QED  BY <1>5, <2>1, <2>2 DEF visit_literal
<1>6. CASE visit_binary_op \/ visit_store_or_return
  BY <1>6, SameUses DEF visit_binary_op, visit_store_or_return
<1>7. CASE return_binary_op
  <2>1. todo # <<>> /\ todo' = Tail(todo) /\ Head(todo).node.type = "binary_op"
    BY <1>7 DEF return_binary_op, IsVisit
  <2>2. 2 \in {0, 2} /\ 2 \in {1, 2} /\ "binary_op" \in {"constant", "binary_op"}
    OBVIOUS
  <2>3. CASE IsVisit("then_value", "binary_op") /\ evis_bind("binary_op", Head(todo).node.oper, 2)
    <3>1. 2 <= Len(values)
      BY <1>2, <2>1, <2>3 DEF Needs, IsVisit
    <3> QED  BY <1>1, <2>2, <2>3, <3>1, BindUses
  <2>4. CASE IsVisit("then_effect", "binary_op") /\ evis_do("binary_op", Head(todo).node.oper, 2)
    <3>1. Head(todo).how = "then_effect"
      BY <2>4 DEF IsVisit
    <3>2. Delta(Head(todo)) = -2
      BY <2>1, <3>1 DEF Delta
    <3>3. 2 <= Len(values)
      BY <1>1, <1>2, <2>1, <3>2
    <3>4. todo' = <<>>
      BY <1>2, <2>1, <3>1
    <3> QED  BY <1>1, <2>2, <2>4, <3>3, <3>4, DoUses
  <2> QED  BY <1>7, <2>3, <2>4 DEF return_binary_op
<1>8. CASE return_store_local \/ add_return_exit
  <2>1. /\ todo # <<>> /\ todo' = Tail(todo) /\ Head(todo).how = "then_effect"
        /\ Head(todo).node.type \in {"store_local", "return"}
    BY <1>8 DEF return_store_local, add_return_exit, IsVisit
  <2>2. Delta(Head(todo)) = -1
    BY <2>1 DEF Delta
  <2>3. 1 <= Len(values) /\ todo' = <<>> /\ 1 \in {1, 2}
    BY <1>1, <1>2, <2>1, <2>2
  <2>4. evis_do("store_local", Head(todo).node.local, 1) \/ evis_do("return", Unset, 1)
    BY <1>8 DEF return_store_local, add_return_exit
  <2>5. CASE evis_do("store_local", Head(todo).node.local, 1)
    BY <1>1, <2>3, <2>5, DoUses
  <2>6. CASE evis_do("return", Unset, 1)
    BY <1>1, <2>3, <2>6, DoUses
  <2> QED  BY <2>4, <2>5, <2>6
<1> QED  BY <1>3, <1>4, <1>5, <1>6, <1>7, <1>8 DEF Next

\* The builder stops.
LEMMA DoneStops ==
  ASSUME IInv, Done
  PROVE  ~Next
<1>1. todo = <<>> /\ (~open \/ child > Len(program)) /\ Len(program) \in Nat /\ child \in 1 .. Len(program) + 1
  BY DEF IInv, TypeOK, Done
<1>2. ~visit_sequence
  BY <1>1 DEF visit_sequence
<1> QED
  BY <1>1, <1>2 DEF Next, visit_literal, visit_binary_op, return_binary_op, visit_store_or_return,
                    return_store_local, add_return_exit, IsVisit
-----------------------------------------------------------------------------
\* The allocator that Jit runs is the one that RegAllocProofs is about.
LEMMA AllocatorAssumption == RP!RegAllocAssumption
<1>1. RA!LiveRange = RP!LiveRange
  BY DEF RA!LiveRange, RP!LiveRange
<1>2. M!kNumberOfCpuRegisters \in Nat
  BY DEF M!kNumberOfCpuRegisters
<1> QED  BY <1>1, <1>2, JitAssumption DEF RP!RegAllocAssumption

LEMMA SameAllocator ==
  /\ RA!Init => RP!Init
  /\ RA!Next => RP!Next
<1>1. RA!Init => RP!Init
  BY DEF RA!Init, RP!Init, RA!CodeOK, RP!CodeOK, RA!N, RP!N,
         RA!interference_graph_init, RP!interference_graph_init
<1>2. /\ RA!N = RP!N /\ RA!FirstSsa = RP!FirstSsa /\ RA!MaxInstrs = RP!MaxInstrs /\ RA!AllocLimit = RP!AllocLimit
      /\ RA!pools = RP!pools /\ RA!graph = RP!graph
  BY DEF RA!N, RP!N, RA!FirstSsa, RP!FirstSsa, RA!MaxInstrs, RP!MaxInstrs, RA!AllocLimit, RP!AllocLimit,
         RA!pools, RP!pools, RA!graph, RP!graph
<1>3. /\ RA!pools' = RP!pools' /\ RA!graph' = RP!graph'
  BY DEF RA!pools, RP!pools, RA!graph, RP!graph
<1>4. RA!graph_rename => RP!graph_rename
  BY <1>2, <1>3 DEF RA!graph_rename, RP!graph_rename
<1>5. RA!process => RP!process
  BY <1>2, <1>3 DEF RA!process, RP!process, RA!Vregs, RP!Vregs, RA!Extend, RP!Extend,
                    RA!NewRange, RP!NewRange, RA!LifetimePos, RP!LifetimePos
<1>6. RA!live_ranges_built => RP!live_ranges_built
  BY <1>2, <1>3 DEF RA!live_ranges_built, RP!live_ranges_built
<1>7. ASSUME NEW range PROVE RA!InsertPos(range) = RP!InsertPos(range)
  BY DEF RA!InsertPos, RP!InsertPos
<1>8. ASSUME NEW range PROVE RA!alloc_register(range) <=> RP!alloc_register(range)
  BY <1>7 DEF RA!alloc_register, RP!alloc_register, RA!add_to_active, RP!add_to_active
<1>9. ASSUME NEW range PROVE RA!Expires(range) <=> RP!Expires(range)
  BY DEF RA!Expires, RP!Expires
<1>10. RA!alloc_ranges => RP!alloc_ranges
  BY <1>2, <1>3, <1>8, <1>9 DEF RA!alloc_ranges, RP!alloc_ranges
<1>11. RA!assign => RP!assign
  BY <1>2, <1>3 DEF RA!assign, RP!assign
<1> QED  BY <1>1, <1>4, <1>5, <1>6, <1>10, <1>11 DEF RA!Next, RP!Next
-----------------------------------------------------------------------------
\* The register that the value of position i ends up in.
Home(i) == M!Encoded(RP!OutputOf(i))
Ran == phase \in {"assigned", "done"}

\* In code of up to ten instructions: a value that was computed is in its
\* register until the next to last instruction takes that of the second one.
Held == ip <= Len(code) => \A i \in 1 .. ip - 1 :
          IsValue(i) => reg[Home(i)] = Computes[i] \/ (i = 2 /\ ip = Len(code) /\ Len(code) >= 4)

MachineInv ==
  /\ ip \in 1 .. Len(code) + 1
  /\ DOMAIN reg = M!Registers
  /\ Ran => RP!Assigned
  /\ ~Ran => ip = 1 /\ \A r \in M!Registers : reg[r] = M!Caller(r)
  /\ Ran /\ EachRegisterOnce => Held
  /\ Small => \A r \in M!CalleeSaved : reg[r] = M!Caller(r)
  /\ Finished /\ Small => result = Returned

\* What the homes are: the first ones apart, and the last two in RAX.
LEMMA Homes ==
  ASSUME Len(code) \in Nat, NEW i \in 1 .. Len(code)
  PROVE  /\ i <= Len(code) - 2 => Home(i) = IF i = 1 THEN M!RDI ELSE i - 2
         /\ i > Len(code) - 2 => Home(i) = M!RAX
  BY DEF Home, M!Encoded, RP!OutputOf, RP!N, RP!FirstSsa, M!RDI, M!RAX

\* The registers of instruction i, once they are assigned.
LEMMA Registered ==
  ASSUME RP!Assigned, ip \in 1 .. Len(code)
  PROVE  /\ \A v : M!SetOutput(v) <=> reg' = [reg EXCEPT ![Home(ip)] = v]
         /\ \A k \in DOMAIN code[ip].inputs : M!In(k) = reg[Home(code[ip].inputs[k])]
<1>1. locations[ip] = [inputs |-> [k \in DOMAIN code[ip].inputs |-> RP!OutputOf(code[ip].inputs[k])],
                       output |-> RP!OutputOf(ip)]
  BY DEF RP!Assigned, RP!N
<1> QED  BY <1>1 DEF M!SetOutput, M!In, Home

\* The next instruction with code; those in between have none.
LEMMA Afterwards ==
  ASSUME Len(code) \in Nat, NEW i \in 1 .. Len(code)
  PROVE  /\ M!After(i) \in i + 1 .. Len(code) + 1
         /\ \A j \in i + 1 .. M!After(i) - 1 : ~IsValue(j)
<1> DEFINE S == {j \in i + 1 .. Len(code) : M!HasCode(j)} \cup {Len(code) + 1}
<1>1. S \in SUBSET Nat /\ S # {} /\ \A j \in S : j \in i + 1 .. Len(code) + 1
  OBVIOUS
<1>2. M!After(i) = CHOOSE x \in S : \A y \in S : x <= y
  BY DEF M!After, M!Min
<1>3. \A j \in i + 1 .. Len(code) : j \notin S => ~IsValue(j)
  BY DEF M!HasCode, IsValue
<1>4. Len(code) + 1 \in S
  OBVIOUS
<1> HIDE DEF S
<1>5. \E x \in S : \A y \in S : x <= y
  BY <1>1, LeastNumber
<1>6. M!After(i) \in S /\ \A y \in S : M!After(i) <= y
  BY <1>2, <1>5
<1>7. ASSUME NEW j \in i + 1 .. M!After(i) - 1 PROVE ~IsValue(j)
  <2>1. M!After(i) \in i + 1 .. Len(code) + 1
    BY <1>1, <1>6
  <2>2. j \in i + 1 .. Len(code) /\ ~(M!After(i) <= j)
    BY <2>1
  <2> QED  BY <1>3, <1>6, <2>2
<1> QED  BY <1>1, <1>6, <1>7

\* In finished code, the last instruction is one for effect.
LEMMA LastForEffect ==
  ASSUME BuildInv, UsesInv, Done, Len(code) # 0
  PROVE  code[Len(code)].temp = Unset
<1>1. Len(values) = 0
  BY AllAtOnce DEF BuildInv, IInv, Done
<1> QED  BY <1>1 DEF UsesInv

(* The operands of the next instruction are in their registers.            *)
LEMMA InPlace ==
  ASSUME BuildInv, UsesInv, Done, MachineInv, Ran, EachRegisterOnce, ip <= Len(code),
         NEW k \in 1 .. Len(code[ip].inputs)
  PROVE  M!In(k) = Computes[code[ip].inputs[k]]
<1> DEFINE in == code[ip].inputs
           v == in[k]
           n == Len(code)
<1>1. n \in Nat /\ ip \in 1 .. n /\ in \in Seq(1 .. ip - 1)
  <2>1. \E S : code \in Seq(S)
    BY DEF BuildInv, IInv, ValuesInv
  <2>2. n \in Nat /\ ip \in 1 .. n
    BY <2>1 DEF MachineInv
  <2> QED  BY <2>2 DEF BuildInv, IInv, ValuesInv
<1>2. v \in 1 .. ip - 1
  BY <1>1, ElementOfSeq
<1>3. IsValue(v)
  BY <1>1 DEF UsesInv
<1>4. M!In(k) = reg[Home(v)]
  <2>1. DOMAIN in = 1 .. Len(in)
    BY <1>1
  <2> QED  BY <1>1, <2>1, Registered DEF MachineInv
<1>5. reg[Home(v)] = Computes[v] \/ (v = 2 /\ ip = n /\ n >= 4)
  BY <1>1, <1>2, <1>3 DEF MachineInv, Held
<1>6. ~(v = 2 /\ ip = n /\ n >= 4)
  <2> SUFFICES ASSUME v = 2, ip = n, n >= 4 PROVE FALSE
    OBVIOUS
  <2>1. code[n].temp = Unset
    BY LastForEffect
  <2>2. EffectInputs(in, n)
    BY <1>1, <2>1 DEF UsesInv
  <2>3. Len(in) \in {1, 2} /\ in[Len(in)] = n - 1 /\ (Len(in) = 2 => in[1] # 2)
    BY <2>2 DEF EffectInputs
  <2>4. k # Len(in)
    BY <2>3
  <2>5. k = 1 /\ Len(in) = 2
    BY <2>3, <2>4
  <2> QED  BY <2>3, <2>5
<1> QED  BY <1>4, <1>5, <1>6

\* An instruction that defines a value, or computes one for effect.
LEMMA ComputeStep ==
  ASSUME BuildInv, UsesInv, Done, MachineInv, phase = "assigned", ip <= Len(code),
         NEW v, M!SetOutput(v), EachRegisterOnce => v = Computes[ip],
         ip' = M!After(ip), UNCHANGED <<vars, locations, phase, result>>
  PROVE  MachineInv'
<1> DEFINE n == Len(code)
           h == Home(ip)
<1>1. n \in Nat /\ ip \in 1 .. n
  <2>1. \E S : code \in Seq(S)
    BY DEF BuildInv, IInv, ValuesInv
  <2> QED  BY <2>1 DEF MachineInv
<1>2. code' = code /\ program' = program /\ Computes' = Computes
  BY DEF vars, Computes
<1>3. /\ Ran /\ Ran' /\ RP!Assigned /\ RP!Assigned'
  <2>1. Ran /\ RP!Assigned
    BY DEF Ran, MachineInv
  <2>2. Ran'
    BY DEF Ran
  <2>3. RP!Assigned'
    BY <1>2, <2>1 DEF RP!Assigned, RP!OutputOf, RP!N, RP!MaxInstrs, RP!FirstSsa
  <2> QED  BY <2>1, <2>2, <2>3
<1>4. ip' \in ip + 1 .. n + 1 /\ \A j \in ip + 1 .. ip' - 1 : ~IsValue(j)
  BY <1>1, Afterwards
<1>5. reg' = [reg EXCEPT ![h] = v]
  BY <1>1, <1>3, Registered
<1>6. n <= M!kNumberOfCpuRegisters
  BY <1>3 DEF RP!Assigned, RP!N, RP!MaxInstrs, M!kNumberOfCpuRegisters
<1>7. \A i \in 1 .. n : Home(i) \in M!Registers /\ Home(i) \in 0 .. 15
  BY <1>1, <1>6, Homes, SMTT(60) DEF M!Registers, M!kNumberOfCpuRegisters, M!RDI, M!RAX
<1>8. \A i : Home(i)' = Home(i)
  BY <1>2 DEF Home, RP!OutputOf, RP!N, RP!FirstSsa, M!Encoded, M!RDI
<1> HIDE DEF h
<1>9. DOMAIN reg' = M!Registers /\ reg'[h] = v /\ \A r \in M!Registers : r # h => reg'[r] = reg[r]
  BY <1>1, <1>5, <1>7 DEF MachineInv, h
<1>10. ASSUME EachRegisterOnce', ip' <= n, NEW i \in 1 .. ip' - 1, IsValue(i)
       PROVE  reg'[Home(i)] = Computes[i] \/ (i = 2 /\ ip' = n /\ n >= 4)
  <2>1. EachRegisterOnce /\ n <= 10
    BY <1>2, <1>10 DEF EachRegisterOnce
  <2>2. i \in 1 .. ip
    BY <1>1, <1>4, <1>10
  <2>3. CASE i = ip
    BY <1>9, <2>1, <2>3 DEF h
  <2>4. CASE i # ip
    <3>1. i \in 1 .. ip - 1 /\ ip <= n - 1 /\ i <= n - 2
      BY <1>1, <1>4, <1>10, <2>2, <2>4
    <3>2. reg[Home(i)] = Computes[i]
      BY <1>1, <1>3, <1>10, <2>1, <3>1 DEF MachineInv, Held
    <3>3. CASE Home(i) # h
      BY <1>1, <1>7, <1>9, <3>1, <3>2, <3>3
    <3>4. CASE Home(i) = h
      <4>1. (i = 1 /\ h = 7) \/ (i # 1 /\ h = i - 2)
        BY <1>1, <3>1, <3>4, Homes DEF M!RDI
      <4>2. (ip <= n - 2 /\ ip = 1 /\ h = 7) \/ (ip <= n - 2 /\ ip # 1 /\ h = ip - 2) \/ (ip > n - 2 /\ h = 0)
        BY <1>1, Homes DEF h, M!RDI, M!RAX
      <4> HIDE DEF n
      <4>3. n \in Nat /\ n <= 10 /\ ip \in 1 .. n /\ i \in 1 .. ip - 1 /\ ip <= n - 1
        BY <1>1, <2>1, <3>1
      <4>4. i = 2 /\ ip = n - 1 /\ n >= 4
        BY <4>1, <4>2, <4>3
      <4> QED  BY <1>4, <1>10, <4>3, <4>4
    <3> QED  BY <3>3, <3>4
  <2> QED  BY <2>3, <2>4
<1>11. Held' \/ ~EachRegisterOnce'
  <2>1. IsValue(1)' = IsValue(1) /\ \A i : IsValue(i)' = IsValue(i)
    BY <1>2 DEF IsValue
  <2> QED  BY <1>2, <1>8, <1>10, <2>1 DEF Held
<1>12. ASSUME Small' PROVE \A r \in M!CalleeSaved : reg'[r] = M!Caller(r)
  <2>1. Small /\ n <= 6
    BY <1>2, <1>12 DEF Small
  <2>2. h \in {7, 0, 1, 2}
    <3>1. h = IF ip <= n - 2 THEN (IF ip = 1 THEN 7 ELSE ip - 2) ELSE 0
      BY <1>1, Homes DEF h, M!RDI, M!RAX
    <3>2. ip <= n - 2 => ip \in {1, 2, 3, 4}
      BY <1>1, <2>1
    <3> QED  BY <3>1, <3>2
  <2>3. \A r \in M!CalleeSaved : r \in M!Registers /\ r \notin {7, 0, 1, 2}
    BY DEF M!CalleeSaved, M!Registers, M!kNumberOfCpuRegisters, M!RBX, M!RSP, M!RBP
  <2>4. \A r \in M!CalleeSaved : reg[r] = M!Caller(r)
    BY <2>1 DEF MachineInv
  <2> QED  BY <1>9, <2>2, <2>3, <2>4
<1>13. ~Finished'
  BY DEF Finished
<1>14. (\A r \in M!CalleeSaved : reg[r] = M!Caller(r))' \/ ~Small'
  BY <1>12 DEF M!Caller
<1>15. ip' \in 1 .. n + 1
  BY <1>1, <1>4
<1> QED  BY <1>2, <1>3, <1>9, <1>11, <1>13, <1>14, <1>15 DEF MachineInv
-----------------------------------------------------------------------------
LEMMA Computed ==
  ASSUME BuildInv
  PROVE  IsMeaning(Computes, code)
  BY CodeShaped, MeaningIs DEF BuildInv, Computes

LEMMA ConstantStep ==
  ASSUME BuildInv, UsesInv, Done, MachineInv, M!constant_compile, UNCHANGED vars
  PROVE  MachineInv'
<1> DEFINE v == M!Literal(code[ip].arg)
<1>1. /\ phase = "assigned" /\ ip <= Len(code) /\ code[ip].op = "constant"
      /\ M!SetOutput(v) /\ ip' = M!After(ip) /\ UNCHANGED <<locations, phase, result>>
  BY DEF M!constant_compile, M!Running
<1>2. ip \in 1 .. Len(code)
  BY <1>1 DEF MachineInv
<1>3. v = Computes[ip]
  BY <1>1, <1>2, Computed DEF IsMeaning, Literal, M!Literal
<1> HIDE DEF v
<1> QED  BY <1>1, <1>3, ComputeStep

LEMMA BinaryOpStep ==
  ASSUME BuildInv, UsesInv, Done, MachineInv, M!binary_op_compile, UNCHANGED vars
  PROVE  MachineInv'
<1> DEFINE v == M!BinaryOp(code[ip].arg, M!In(1), M!In(2))
<1>1. /\ phase = "assigned" /\ ip <= Len(code) /\ code[ip].op = "binary_op"
      /\ M!SetOutput(v) /\ ip' = M!After(ip) /\ UNCHANGED <<locations, phase, result>>
  BY DEF M!binary_op_compile, M!Running
<1>2. ip \in 1 .. Len(code)
  BY <1>1 DEF MachineInv
<1>3. Len(code[ip].inputs) = 2
  BY <1>1, <1>2 DEF BuildInv, ShapeInv
<1>4. ASSUME EachRegisterOnce PROVE v = Computes[ip]
  <2>1. Ran
    BY <1>1 DEF Ran
  <2>2. 1 \in 1 .. Len(code[ip].inputs) /\ 2 \in 1 .. Len(code[ip].inputs)
    BY <1>3
  <2>3. M!In(1) = Computes[code[ip].inputs[1]] /\ M!In(2) = Computes[code[ip].inputs[2]]
    BY <1>1, <1>4, <2>1, <2>2, InPlace
  <2> QED  BY <1>1, <1>2, <2>3, Computed DEF IsMeaning, BinaryOp, M!BinaryOp
<1> HIDE DEF v
<1> QED  BY <1>1, <1>4, ComputeStep

\* What the code returns is the value of the first return.
LEMMA ReturnsFirst ==
  ASSUME BuildInv, ~open
  PROVE  Returned = Computes[Len(code)]
<1>1. /\ child >= 2 /\ program[child - 1].type = "return" /\ Statement(Len(code)) = program[child - 1]
      /\ \A j \in 1 .. child - 2 : program[j].type # "return"
  BY DEF BuildInv, StatementInv
<1>2. program[child - 1].value = Computes[Len(code)]
  <2>1. code[Len(code)].op = "return"
    BY DEF BuildInv, ReturnInv
  <2> QED  BY <1>1, <2>1 DEF Statement, Return
<1>3. child - 1 \in 1 .. Len(program) /\ child \in Nat /\ Len(program) \in Nat
  BY <1>1 DEF BuildInv, IInv, TypeOK
<1>4. DOMAIN program = 1 .. Len(program)
  <2>1. \E T : IsProgram(program, T)
    BY DEF BuildInv, Trees
  <2> QED  BY <2>1 DEF IsProgram
<1> DEFINE R == {i \in DOMAIN program : program[i].type = "return"}
           c == CHOOSE i \in R : \A j \in R : i <= j
<1>5. child - 1 \in R /\ \A j \in R : child - 1 <= j /\ j \in Nat
  BY <1>1, <1>3, <1>4
<1>6. c \in R /\ \A j \in R : c <= j
  BY <1>5
<1>7. c = child - 1
  <2> HIDE DEF R, c
  <2> QED  BY <1>3, <1>5, <1>6
<1> QED  BY <1>2, <1>7 DEF Returned

LEMMA ReturnStep ==
  ASSUME BuildInv, UsesInv, Done, MachineInv, M!return_compile, UNCHANGED vars
  PROVE  MachineInv'
<1> DEFINE n == Len(code)
<1>1. /\ phase = "assigned" /\ ip <= n /\ code[ip].op = "return" /\ phase' = "done"
      /\ result' = IF reg[M!RSP] = M!Caller(M!RSP) THEN reg[M!RAX] ELSE M!Lost
      /\ UNCHANGED <<locations, ip, reg>>
  BY DEF M!return_compile, M!Running
<1>2. code' = code /\ program' = program /\ Computes' = Computes
  BY DEF vars, Computes
<1>3. Ran /\ Ran'
  BY <1>1 DEF Ran
<1>4. n \in Nat /\ ip \in 1 .. n
  <2>1. \E S : code \in Seq(S)
    BY DEF BuildInv, IInv, ValuesInv
  <2> QED  BY <1>1, <2>1 DEF MachineInv
<1>5. ip = n /\ ~open
  BY <1>1, <1>4 DEF BuildInv, ReturnInv
<1>6. Len(code[n].inputs) = 1 /\ code[n].temp = Unset
  BY <1>1, <1>4, <1>5 DEF BuildInv, ShapeInv
<1>7. code[n].inputs[1] = n - 1
  BY <1>4, <1>5, <1>6 DEF UsesInv, EffectInputs
<1>8. n - 1 \in 1 .. n - 1
  <2>1. code[n].inputs \in Seq(1 .. n - 1)
    BY <1>4, <1>5 DEF BuildInv, IInv, ValuesInv
  <2>2. 1 \in 1 .. Len(code[n].inputs)
    BY <1>6
  <2>3. code[n].inputs[1] \in 1 .. n - 1
    BY <2>1, <2>2, ElementOfSeq
  <2> QED  BY <1>7, <2>3
<1>9. ASSUME Small PROVE result' = Returned
  <2>1. EachRegisterOnce
    BY <1>4, <1>9 DEF Small, EachRegisterOnce
  <2>2. 1 \in 1 .. Len(code[ip].inputs)
    BY <1>5, <1>6
  <2>3. M!In(1) = Computes[n - 1]
    BY <1>1, <1>3, <1>5, <1>7, <2>1, <2>2, InPlace
  <2>4. M!In(1) = reg[M!RAX]
    <3>1. DOMAIN code[ip].inputs = 1 .. Len(code[ip].inputs)
      BY <1>4 DEF BuildInv, IInv, ValuesInv
    <3>2. M!In(1) = reg[Home(n - 1)]
      BY <1>3, <1>4, <1>5, <1>7, <2>2, <3>1, Registered DEF MachineInv
    <3>3. n - 1 \in 1 .. n /\ n - 1 > n - 2
      BY <1>4, <1>8
    <3>4. Home(n - 1) = M!RAX
      BY <1>4, <3>3, Homes
    <3> QED  BY <3>2, <3>4
  <2>5. Computes[n] = Computes[n - 1]
    BY <1>1, <1>4, <1>5, <1>7, Computed DEF IsMeaning
  <2>6. reg[M!RSP] = M!Caller(M!RSP)
    BY <1>9 DEF MachineInv, M!CalleeSaved
  <2> QED  BY <1>1, <1>5, <2>3, <2>4, <2>5, <2>6, ReturnsFirst
<1>10. (Small => Small)' /\ (Small' => Small) /\ Returned' = Returned /\ (EachRegisterOnce' => EachRegisterOnce)
  BY <1>2 DEF Small, Returned, EachRegisterOnce
<1>11. RP!Assigned'
  BY <1>1, <1>2, <1>3 DEF MachineInv, RP!Assigned, RP!OutputOf, RP!N, RP!MaxInstrs, RP!FirstSsa
<1>12. Held' \/ ~EachRegisterOnce'
  <2>1. Held \/ ~EachRegisterOnce'
    BY <1>3, <1>10 DEF MachineInv
  <2>2. \A i : Home(i)' = Home(i) /\ IsValue(i)' = IsValue(i)
    BY <1>2 DEF Home, RP!OutputOf, RP!N, RP!FirstSsa, M!Encoded, M!RDI, IsValue
  <2> QED  BY <1>1, <1>2, <2>1, <2>2 DEF Held
<1>13. (\A r \in M!CalleeSaved : reg[r] = M!Caller(r))' \/ ~Small'
  BY <1>1, <1>10 DEF MachineInv, M!Caller
<1> QED  BY <1>1, <1>2, <1>3, <1>9, <1>10, <1>11, <1>12, <1>13 DEF MachineInv

LEMMA RunStep ==
  ASSUME BuildInv, UsesInv, Done, MachineInv, Run
  PROVE  MachineInv'
<1>1. M!Next /\ UNCHANGED vars
  BY DEF Run
<1> QED  BY <1>1, ConstantStep, BinaryOpStep, ReturnStep DEF M!Next
-----------------------------------------------------------------------------
\* f[i] is the expression behind the first i - 1 literals.
ParseFunction(f, stmt) ==
  f = [i \in 1 .. Len(stmt.lits) |-> IF i = Len(stmt.lits) THEN Literal(stmt.lits[i])
                                     ELSE BinaryOp(stmt.opers[i], Literal(stmt.lits[i]), f[i + 1])]

LEMMA ParseExists ==
  ASSUME NEW stmt, Len(stmt.lits) \in Nat
  PROVE  \E f : ParseFunction(f, stmt)
<1> DEFINE n == Len(stmt.lits)
           Body(g, i) == IF i = n THEN Literal(stmt.lits[i])
                         ELSE BinaryOp(stmt.opers[i], Literal(stmt.lits[i]), g[i + 1])
           From(g, k) == \A i \in n - k + 1 .. n : g[i] = Body(g, i)
           Good == {k \in 0 .. n : \E g : From(g, k)}
<1>0. n \in Nat
  OBVIOUS
\* A body looks at the next place only.
<1>1. ASSUME NEW g, NEW h, NEW i \in 1 .. n, i # n => g[i + 1] = h[i + 1]
      PROVE  Body(g, i) = Body(h, i)
  BY <1>1
<1> HIDE DEF Body, n
<1>2. ASSUME NEW k \in 0 .. n, \A j \in 0 .. k - 1 : j \in Good
      PROVE  k \in Good
  <2>1. CASE k = 0
    <3>1. n - 0 + 1 .. n = {}
      BY <1>0
    <3>2. From(<<>>, 0)
      BY <3>1
    <3> QED  BY <2>1, <3>2
  <2>2. CASE k # 0
    <3>1. PICK g : From(g, k - 1)
      <4>1. k - 1 \in 0 .. k - 1
        BY <1>0, <2>2
      <4> QED  BY <1>2, <4>1
    <3> DEFINE p == n - k + 1
               h == [i \in 1 .. n |-> IF i = p THEN Body(g, p) ELSE g[i]]
    <3>2. p \in 1 .. n /\ n - (k - 1) + 1 = p + 1
      BY <1>0, <2>2
    <3>3. h[p] = Body(g, p) /\ \A i \in p + 1 .. n : h[i] = g[i]
      BY <1>0, <3>2
    <3> HIDE DEF h, p
    <3>4. ASSUME NEW i \in p .. n PROVE h[i] = Body(h, i)
      <4>1. i \in 1 .. n /\ (i # n => i + 1 \in p + 1 .. n)
        BY <1>0, <3>2
      <4>2. i # n => g[i + 1] = h[i + 1]
        BY <3>3, <4>1
      <4>3. Body(g, i) = Body(h, i)
        BY <1>1, <4>1, <4>2
      <4>4. CASE i = p
        BY <3>3, <4>3, <4>4
      <4>5. CASE i # p
        <5>1. i \in p + 1 .. n
          BY <1>0, <3>2, <4>5
        <5>2. g[i] = Body(g, i)
          BY <3>1, <3>2, <5>1
        <5> QED  BY <3>3, <4>3, <5>1, <5>2
      <4> QED  BY <4>4, <4>5
    <3>5. From(h, k)
      BY <3>4 DEF p
    <3> QED  BY <3>5
  <2> QED  BY <2>1, <2>2
<1>3. n \in Good
  <2> HIDE DEF Good
  <2>1. \A k \in 0 .. n : k \in Good
    BY <1>0, <1>2, Induction
  <2> QED  BY <1>0, <2>1
<1>4. PICK g : From(g, n)
  BY <1>3
<1> DEFINE f == [i \in 1 .. n |-> g[i]]
<1>5. ASSUME NEW i \in 1 .. n PROVE f[i] = Body(f, i)
  <2>1. f[i] = g[i] /\ (i # n => g[i + 1] = f[i + 1])
    BY <1>0
  <2>2. n - n + 1 .. n = 1 .. n
    BY <1>0
  <2> HIDE DEF f
  <2> QED  BY <1>1, <1>4, <2>1, <2>2
<1>6. f = [i \in 1 .. n |-> Body(f, i)]
  BY <1>5
<1> QED  BY <1>6 DEF ParseFunction, Body, n

\* The expressions of a statement: its right operands and the literals.
ParseOf(stmt) == CHOOSE f : ParseFunction(f, stmt)
ExprsOf(stmt) == {ParseOf(stmt)[i] : i \in 1 .. Len(stmt.lits)}
                 \cup {Literal(stmt.lits[i]) : i \in 1 .. Len(stmt.lits)}

LEMMA ParseTrees ==
  ASSUME NEW stmt, Len(stmt.lits) \in Nat \ {0}
  PROVE  /\ parse_binary_expr(stmt) \in ExprsOf(stmt)
         /\ \A e \in ExprsOf(stmt) : IsExpr(e, ExprsOf(stmt))
<1> DEFINE n == Len(stmt.lits)
           f == ParseOf(stmt)
           T == ExprsOf(stmt)
<1>1. ParseFunction(f, stmt)
  BY ParseExists DEF ParseOf
<1>2. parse_binary_expr(stmt) = f[1]
  BY DEF parse_binary_expr, ParseOf, ParseFunction
<1> HIDE DEF f
<1>3. \A i \in 1 .. n : f[i] = IF i = n THEN Literal(stmt.lits[i])
                               ELSE BinaryOp(stmt.opers[i], Literal(stmt.lits[i]), f[i + 1])
  BY <1>1, Zenon DEF ParseFunction
<1>4. T = {f[i] : i \in 1 .. n} \cup {Literal(stmt.lits[i]) : i \in 1 .. n}
  BY DEF ExprsOf, f
<1>5. 1 \in 1 .. n
  OBVIOUS
<1> HIDE DEF n, T
<1>6. f[1] \in T
  BY <1>4, <1>5
<1>7. ASSUME NEW x PROVE IsExpr(Literal(x), T)
  BY DEF IsExpr, Literal
<1>8. ASSUME NEW i \in 1 .. n PROVE IsExpr(f[i], T)
  <2>1. CASE i = n
    BY <1>3, <1>7, <2>1
  <2>2. CASE i # n
    <3>1. i + 1 \in 1 .. n
      BY <2>2 DEF n
    <3>2. f[i + 1] \in T /\ Literal(stmt.lits[i]) \in T
      BY <1>4, <3>1
    <3>3. f[i] = BinaryOp(stmt.opers[i], Literal(stmt.lits[i]), f[i + 1])
      BY <1>3, <2>2
    <3>4. ASSUME NEW o, NEW l \in T, NEW r \in T PROVE IsExpr(BinaryOp(o, l, r), T)
      BY DEF IsExpr, BinaryOp
    <3> QED  BY <3>2, <3>3, <3>4
  <2> QED  BY <2>1, <2>2
<1>9. \A e \in T : IsExpr(e, T)
  BY <1>4, <1>7, <1>8
<1> QED  BY <1>2, <1>6, <1>9 DEF T

LEMMA ParseShape ==
  ASSUME NEW src, Len(src) \in Nat \ {0}
  PROVE  /\ Len(parse(src)) = Len(src) + 1
         /\ parse(src) = [i \in 1 .. Len(parse(src)) |-> parse(src)[i]]
         /\ \A i \in 1 .. Len(src) - 1 : parse(src)[i] = StoreLocal(src[i].local, parse_binary_expr(src[i]))
         /\ parse(src)[Len(src)] = Return(parse_binary_expr(src[Len(src)]))
         /\ parse(src)[Len(src) + 1] = StoreLocal(src[Len(src)].local, parse_binary_expr(src[Len(src)]))
<1> DEFINE m == Len(src)
           store(i) == StoreLocal(src[i].local, parse_binary_expr(src[i]))
           S == {store(i) : i \in 1 .. m} \cup {Return(store(m).value)}
           stores == [i \in 1 .. m |-> store(i)]
           front == SubSeq(stores, 1, m - 1)
           back == <<Return(stores[m].value), stores[m]>>
<1>1. parse(src) = front \o back
  BY DEF parse
<1>2. stores \in Seq(S) /\ Len(stores) = m /\ \A i \in 1 .. m : stores[i] = store(i)
  OBVIOUS
<1>3. back \in Seq(S) /\ Len(back) = 2 /\ back[1] = Return(store(m).value) /\ back[2] = store(m)
  OBVIOUS
<1>4. store(m).value = parse_binary_expr(src[m])
  BY DEF StoreLocal
<1> HIDE DEF store, S, stores, back
<1>5. front \in Seq(S) /\ Len(front) = m - 1 /\ \A i \in 1 .. m - 1 : front[i] = stores[i]
  BY <1>2, SubSeqProperties
<1> HIDE DEF front, m
<1>6. m \in Nat \ {0}
  BY DEF m
<1> DEFINE both == front \o back
<1>7. /\ both \in Seq(S) /\ Len(both) = m + 1
      /\ \A i \in 1 .. m - 1 : both[i] = front[i]
      /\ both[m] = back[1] /\ both[m + 1] = back[2]
  <2>1. /\ both \in Seq(S) /\ Len(both) = Len(front) + Len(back)
        /\ \A i \in 1 .. Len(front) + Len(back) :
             both[i] = IF i <= Len(front) THEN front[i] ELSE back[i - Len(front)]
    BY <1>3, <1>5, ConcatProperties
  <2> HIDE DEF both
  <2>2. Len(both) = m + 1
    BY <1>3, <1>5, <1>6, <2>1
  <2>3. \A i \in 1 .. m - 1 : both[i] = front[i]
    BY <1>3, <1>5, <1>6, <2>1
  <2>4. both[m] = back[m - (m - 1)] /\ both[m + 1] = back[m + 1 - (m - 1)]
    BY <1>3, <1>5, <1>6, <2>1
  <2>5. m - (m - 1) = 1 /\ m + 1 - (m - 1) = 2
    BY <1>6
  <2> QED  BY <2>1, <2>2, <2>3, <2>4, <2>5
<1>8. /\ \A i \in 1 .. m - 1 : parse(src)[i] = store(i)
      /\ parse(src)[m] = Return(parse_binary_expr(src[m])) /\ parse(src)[m + 1] = store(m)
  <2>2. parse(src)[m] = back[1] /\ parse(src)[m + 1] = back[2]
    BY <1>1, <1>7
  <2>3. ASSUME NEW i \in 1 .. m - 1 PROVE parse(src)[i] = store(i)
    <3>1. i \in 1 .. m
      BY <1>6
    <3> QED  BY <1>1, <1>2, <1>5, <1>7, <3>1
  <2> QED  BY <1>3, <1>4, <2>2, <2>3
<1>9. parse(src) \in Seq(S) /\ Len(parse(src)) = m + 1
  BY <1>1, <1>7
<1>10. parse(src) = [i \in 1 .. Len(parse(src)) |-> parse(src)[i]]
  BY <1>9
<1> QED  BY <1>8, <1>9, <1>10 DEF m, store
-----------------------------------------------------------------------------
\* The tree of a script is made of its statements' expressions.
LEMMA ScriptTrees ==
  ASSUME NEW src \in Sources
  PROVE  \E T : (\A e \in T : IsExpr(e, T)) /\ IsProgram(parse(src), T)
<1> DEFINE m == Len(src)
           p == parse(src)
           T == UNION {ExprsOf(src[i]) : i \in 1 .. m}
<1>1. m \in Nat \ {0} /\ \A i \in 1 .. m : Len(src[i].lits) \in Nat \ {0}
  BY JitAssumption
<1>2. \A i \in 1 .. m : parse_binary_expr(src[i]) \in T
  BY <1>1, ParseTrees
<1>3. ASSUME NEW e \in T PROVE IsExpr(e, T)
  <2>1. PICK i \in 1 .. m : e \in ExprsOf(src[i])
    OBVIOUS
  <2>2. IsExpr(e, ExprsOf(src[i])) /\ ExprsOf(src[i]) \subseteq T
    BY <1>1, <2>1, ParseTrees
  <2> HIDE DEF T
  <2> QED  BY <2>2 DEF IsExpr
<1> HIDE DEF T
<1>4. /\ Len(p) = m + 1 /\ p = [i \in 1 .. Len(p) |-> p[i]]
      /\ \A i \in 1 .. m - 1 : p[i] = StoreLocal(src[i].local, parse_binary_expr(src[i]))
      /\ p[m] = Return(parse_binary_expr(src[m]))
      /\ p[m + 1] = StoreLocal(src[m].local, parse_binary_expr(src[m]))
  BY <1>1, ParseShape
<1> HIDE DEF p, m
<1>5. ASSUME NEW x, NEW e \in T PROVE IsStatement(StoreLocal(x, e), T) /\ IsStatement(Return(e), T)
  BY DEF IsStatement, StoreLocal, Return
<1>6. ASSUME NEW i \in 1 .. Len(p) PROVE IsStatement(p[i], T)
  <2>1. CASE i \in 1 .. m - 1
    <3>1. i \in 1 .. m
      BY <1>1, <2>1
    <3>2. p[i] = StoreLocal(src[i].local, parse_binary_expr(src[i]))
      BY <1>4, <2>1
    <3> QED  BY <1>2, <1>5, <3>1, <3>2
  <2>2. CASE i \notin 1 .. m - 1
    <3>1. m \in 1 .. m /\ (i = m \/ i = m + 1)
      BY <1>1, <1>4, <2>2
    <3>2. p[i] = Return(parse_binary_expr(src[m])) \/ p[i] = StoreLocal(src[m].local, parse_binary_expr(src[m]))
      BY <1>4, <3>1
    <3> QED  BY <1>2, <1>5, <3>1, <3>2
  <2> QED  BY <2>1, <2>2
<1>7. Len(p) \in Nat
  BY <1>1, <1>4
<1>8. IsProgram(p, T)
  BY <1>4, <1>6, <1>7 DEF IsProgram
<1> QED  BY <1>3, <1>8 DEF p

LEMMA StartsWithTrees ==
  ASSUME JitInit
  PROVE  BuildInv
<1>1. Start
  BY DEF JitInit, Start
<1>2. \E T : (\A e \in T : IsExpr(e, T)) /\ IsProgram(program, T)
  <2>1. CASE source \in Sources /\ program = parse(source)
    BY <2>1, ScriptTrees
  <2>2. CASE program \in Programs
    BY <2>2, BuilderAssumption
  <2> QED  BY <2>1, <2>2 DEF JitInit
<1>3. PICK T : (\A e \in T : IsExpr(e, T)) /\ IsProgram(program, T)
  BY <1>2
<1>4. IInv
  BY <1>1, <1>3, StartInv DEF IsProgram
<1> QED  BY <1>1, <1>3, <1>4, BuildStarts
-----------------------------------------------------------------------------
\* Where the tree comes from.
Origin == source = NoScript \/ (source \in Sources /\ program = parse(source))

JitInv == /\ BuildInv /\ UsesInv
          /\ Origin
          /\ phase # "rename" => Done
          /\ phase # "done" => RP!IInv
          /\ MachineInv

LEMMA CalleeSavedRegisters == M!CalleeSaved \subseteq M!Registers
  BY DEF M!CalleeSaved, M!Registers, M!kNumberOfCpuRegisters, M!RBX, M!RSP, M!RBP

LEMMA JitStarts == JitInit => JitInv
<1> SUFFICES ASSUME JitInit PROVE JitInv
  OBVIOUS
<1>1. BuildInv /\ Origin
  BY StartsWithTrees DEF JitInit, Origin
<1>2. /\ values = <<>> /\ code = <<>> /\ Len(code) = 0 /\ Len(values) = 0
      /\ 1 .. Len(code) = {} /\ 1 .. Len(values) = {}
  BY DEF JitInit
<1>3. UsesInv
  BY <1>2 DEF UsesInv
<1>4. phase = "rename" /\ RP!IInv
  <2>1. RP!Init
    BY SameAllocator DEF JitInit
  <2>2. RP!IInv
    BY <2>1, AllocatorAssumption, RP!InitInv
  <2> QED  BY <2>1, <2>2 DEF RP!Init
<1>5. ip = 1 /\ reg = [r \in M!Registers |-> M!Caller(r)]
  BY DEF JitInit, M!MachineInit
<1>6. MachineInv
  BY <1>2, <1>4, <1>5, CalleeSavedRegisters DEF MachineInv, Ran, Finished
<1> QED  BY <1>1, <1>3, <1>4, <1>6 DEF JitInv

LEMMA JitBuild ==
  ASSUME JitInv, Build
  PROVE  JitInv'
<1>1. Next /\ UNCHANGED <<source, allocVars, machineVars>> /\ BuildInv /\ UsesInv
  BY DEF Build, JitInv
<1>2. phase = "rename" /\ phase' = "rename"
  <2>1. ~Done
    BY <1>1, DoneStops DEF BuildInv
  <2> QED  BY <1>1, <2>1 DEF JitInv, allocVars
<1>3. BuildInv'
  BY <1>1, BuildStep
<1>4. UsesInv'
  BY <1>1, <1>3, UsesStep
<1>5. Origin'
  <2>1. program' = program
    BY <1>1 DEF Next, visit_sequence, visit_literal, visit_binary_op, return_binary_op, visit_store_or_return,
                return_store_local, add_return_exit
  <2> QED  BY <1>1, <2>1 DEF JitInv, Origin
<1>6. Len(code') \in Nat /\ \A i \in 1 .. Len(code') : code'[i].inputs \in Seq(1 .. i - 1)
  <2>1. ValuesInv'
    BY <1>3 DEF BuildInv, IInv
  <2> QED  BY <2>1 DEF ValuesInv
<1>7. RP!IInv'
  <2>1. RP!CodeOK'
    <3>1. ASSUME NEW i \in 1 .. Len(code'), NEW k \in DOMAIN code'[i].inputs
          PROVE  code'[i].inputs[k] \in 1 .. i - 1
      <4>1. code'[i].inputs \in Seq(1 .. i - 1)
        BY <1>6
      <4>2. k \in 1 .. Len(code'[i].inputs)
        BY <4>1
      <4> QED  BY <4>1, <4>2, ElementOfSeq
    <3> QED  BY <1>6, <3>1 DEF RP!CodeOK, RP!N
  <2>2. RP!IInv /\ UNCHANGED <<phase, active, register_pool, register_maps>>
    BY <1>1, <1>2 DEF JitInv, allocVars
  <2>3. (active = <<>> /\ register_pool = RP!PoolAt(0) /\ RP!MapsAt(0))'
    BY <1>2, <2>2 DEF RP!IInv, RP!PoolAt, RP!MapsAt
  <2> QED  BY <1>2, <2>1, <2>3 DEF RP!IInv, RP!RegistersApart
<1>8. MachineInv'
  <2>1. ip' = 1 /\ reg' = reg /\ ip' \in 1 .. Len(code') + 1
    BY <1>1, <1>2, <1>6 DEF JitInv, machineVars, MachineInv, Ran
  <2>2. DOMAIN reg = M!Registers /\ \A r \in M!Registers : reg[r] = M!Caller(r)
    BY <1>2 DEF JitInv, MachineInv, Ran
  <2>3. (\A r \in M!Registers : reg[r] = M!Caller(r))' /\ DOMAIN reg' = M!Registers
    BY <2>1, <2>2 DEF M!Caller
  <2> QED  BY <1>2, <2>1, <2>3, CalleeSavedRegisters DEF MachineInv, Ran, Finished
<1> QED  BY <1>2, <1>3, <1>4, <1>5, <1>7, <1>8 DEF JitInv

LEMMA SameBuild ==
  ASSUME JitInv, UNCHANGED <<vars, source>>
  PROVE  BuildInv' /\ UsesInv' /\ Origin' /\ (Done => Done')
<1>1. BuildInv'
  BY BuildStep DEF JitInv
<1>2. UsesInv'
  BY SameUses DEF JitInv, vars
<1>3. Origin' /\ (Done => Done')
  BY DEF JitInv, Origin, Done, vars
<1> QED  BY <1>1, <1>2, <1>3

LEMMA JitAllocate ==
  ASSUME JitInv, Allocate
  PROVE  JitInv'
<1>1. Done /\ RP!Next /\ UNCHANGED <<vars, source, machineVars>>
  BY SameAllocator DEF Allocate
<1>2. phase \in {"rename", "build_live_ranges", "alloc_ranges"}
  BY <1>1 DEF RP!Next, RP!graph_rename, RP!process, RP!live_ranges_built, RP!alloc_ranges, RP!assign
<1>3. BuildInv' /\ UsesInv' /\ Origin' /\ Done'
  BY <1>1, SameBuild
<1>4. RP!IInv'
  <2>1. RP!IInv
    BY <1>2 DEF JitInv
  <2> QED  BY <1>1, <2>1, AllocatorAssumption, RP!StepInv
<1>5. MachineInv'
  <2>1. ~Ran /\ ~Finished'
    BY <1>2, <1>4 DEF Ran, RP!IInv, Finished
  <2>2. /\ ip = 1 /\ ip' = 1 /\ reg' = reg /\ code' = code /\ ip' \in 1 .. Len(code) + 1
        /\ DOMAIN reg = M!Registers /\ \A r \in M!Registers : reg[r] = M!Caller(r)
    BY <1>1, <2>1 DEF JitInv, MachineInv, machineVars, vars
  <2>3. (Ran => RP!Assigned)'
    BY <1>4, <2>1 DEF Ran, Finished, RP!IInv
  <2>4. Held'
    <3>1. 1 .. ip' - 1 = {}
      BY <2>2
    <3> QED  BY <3>1 DEF Held
  <2>5. (\A r \in M!Registers : reg[r] = M!Caller(r))' /\ DOMAIN reg' = M!Registers
    BY <2>2 DEF M!Caller
  <2> QED  BY <2>1, <2>2, <2>3, <2>4, <2>5, CalleeSavedRegisters DEF MachineInv
<1> QED  BY <1>3, <1>4, <1>5 DEF JitInv

LEMMA JitRun ==
  ASSUME JitInv, Run
  PROVE  JitInv'
<1>1. M!Next /\ UNCHANGED <<vars, source, at, ssa, live_ranges, active, register_pool, register_maps>>
  BY DEF Run
<1>2. phase = "assigned" /\ UNCHANGED locations /\ phase' \in {"assigned", "done"}
  BY <1>1 DEF M!Next, M!constant_compile, M!binary_op_compile, M!return_compile, M!Running
<1>3. Done
  BY <1>2 DEF JitInv
<1>4. BuildInv' /\ UsesInv' /\ Origin' /\ Done'
  BY <1>1, <1>3, SameBuild
<1>5. phase' # "done" => RP!IInv'
  <2>1. ASSUME phase' # "done" PROVE UNCHANGED RP!vars
    BY <1>1, <1>2, <2>1 DEF RP!vars, RP!graph, RP!pools, vars
  <2> QED  BY <1>2, <2>1, AllocatorAssumption, RP!StepInv DEF JitInv
<1>6. MachineInv'
  BY <1>3, RunStep DEF JitInv
<1> QED  BY <1>4, <1>5, <1>6 DEF JitInv

LEMMA JitStutter ==
  ASSUME JitInv, UNCHANGED jitVars
  PROVE  JitInv'
<1>1. UNCHANGED <<vars, source>> /\ UNCHANGED allocVars /\ UNCHANGED machineVars
  BY DEF jitVars
<1>2. UNCHANGED <<phase, at, ssa, live_ranges, active, register_pool, register_maps, locations,
                  ip, reg, result, code, program>>
  BY <1>1 DEF allocVars, machineVars, vars
<1>3. BuildInv' /\ UsesInv' /\ Origin' /\ (Done => Done')
  BY <1>1, SameBuild
<1>4. phase' # "done" => RP!IInv'
  <2>1. UNCHANGED RP!vars
    BY <1>2 DEF RP!vars, RP!graph, RP!pools
  <2> QED  BY <1>2, <2>1, AllocatorAssumption, RP!StepInv DEF JitInv
<1>5. MachineInv'
  <2>1. Computes' = Computes /\ Small' = Small /\ EachRegisterOnce' = EachRegisterOnce /\ Returned' = Returned
        /\ Ran' = Ran /\ Finished' = Finished
    BY <1>2 DEF Computes, Small, EachRegisterOnce, Returned, Ran, Finished
  <2>2. RP!Assigned' = RP!Assigned /\ \A i : Home(i)' = Home(i) /\ IsValue(i)' = IsValue(i)
    BY <1>2 DEF RP!Assigned, RP!OutputOf, RP!N, RP!MaxInstrs, RP!FirstSsa, Home, M!Encoded, M!RDI, IsValue
  <2>3. Held' = Held
    BY <1>2, <2>1, <2>2 DEF Held
  <2>4. \A r : M!Caller(r)' = M!Caller(r)
    BY DEF M!Caller
  <2> QED  BY <1>2, <2>1, <2>2, <2>3, <2>4 DEF JitInv, MachineInv
<1> QED  BY <1>2, <1>3, <1>4, <1>5 DEF JitInv

LEMMA JitStep == JitInv /\ [JitNext]_jitVars => JitInv'
  BY JitBuild, JitAllocate, JitRun, JitStutter DEF JitNext

(* Whatever ran so far: the code means what the tree says, the allocator   *)
(* has not lost count, and in code of up to ten instructions each value    *)
(* computed is in its register for as long as an instruction can ask for   *)
(* it.                                                                     *)
THEOREM JitInvariant == JitSpec => []JitInv
  BY JitStarts, JitStep, PTL DEF JitSpec

(* graph_build inside the whole compiler: operands are the topmost         *)
(* temporaries, none is left over, and the finished code stores and        *)
(* returns exactly the statements of the tree, for scripts of any length.  *)
THEOREM CompilesProgram == JitSpec => [](TypeOK /\ OperandsOnTop /\ TempsBalanced /\ BuildsProgram)
<1>1. JitInv => TypeOK /\ OperandsOnTop
  BY DEF JitInv, BuildInv, IInv
<1>2. JitInv => TempsBalanced
  <2>1. ASSUME BuildInv, todo = <<>> PROVE temp_count = 0
    BY <2>1, AllAtOnce DEF BuildInv, IInv, ValuesInv
  <2> QED  BY <2>1 DEF JitInv, TempsBalanced
<1>3. JitInv => BuildsProgram
  BY BuiltAll DEF JitInv, BuildsProgram
<1> QED  BY <1>1, <1>2, <1>3, JitInvariant, PTL

(* No instruction of code of up to ten finds an operand's register         *)
(* overwritten, although assign puts the last two definitions, which       *)
(* never got a register, in RAX, which the second one has.                 *)
THEOREM OperandsKept == JitSpec => []OperandsIntact
<1>1. ASSUME JitInv, EachRegisterOnce, phase = "assigned", ip <= Len(code), NEW k \in DOMAIN code[ip].inputs
      PROVE  M!In(k) = Computes[code[ip].inputs[k]]
  <2>1. Ran /\ Done /\ BuildInv /\ UsesInv /\ MachineInv
    BY <1>1 DEF JitInv, Ran
  <2>2. ip \in 1 .. Len(code)
    BY <1>1, <2>1 DEF MachineInv
  <2>3. code[ip].inputs \in Seq(1 .. ip - 1)
    BY <2>1, <2>2 DEF BuildInv, IInv, ValuesInv
  <2>4. k \in 1 .. Len(code[ip].inputs)
    BY <2>3
  <2> QED  BY <1>1, <2>1, <2>4, InPlace
<1>2. JitInv => OperandsIntact
  BY <1>1 DEF OperandsIntact, OperandsInPlace
<1> QED  BY <1>2, JitInvariant, PTL

(* Code of up to six instructions gives the registers that main.c relies   *)
(* on back: the homes of its definitions are RDI, RAX, RCX and RDX.        *)
THEOREM CallersRegistersKept == JitSpec => []KeepsCallersRegisters
<1>1. JitInv => KeepsCallersRegisters
  BY DEF JitInv, MachineInv, KeepsCallersRegisters
<1> QED  BY <1>1, JitInvariant, PTL

\* What a script returns first is the value of its last statement.
LEMMA ScriptReturns ==
  ASSUME source \in Sources, program = parse(source)
  PROVE  Returned = parse_binary_expr(Last(source))
<1> DEFINE m == Len(source)
           R == {i \in DOMAIN program : program[i].type = "return"}
           c == CHOOSE i \in R : \A j \in R : i <= j
<1>1. m \in Nat \ {0}
  BY JitAssumption
<1>2. /\ Len(program) = m + 1 /\ program = [i \in 1 .. Len(program) |-> program[i]]
      /\ \A i \in 1 .. m - 1 : program[i] = StoreLocal(source[i].local, parse_binary_expr(source[i]))
      /\ program[m] = Return(parse_binary_expr(source[m]))
  BY <1>1, ParseShape
<1>3. DOMAIN program = 1 .. m + 1
  BY <1>2
<1>4. program[m].type = "return" /\ program[m].value = parse_binary_expr(source[m])
  BY <1>2 DEF Return
<1>5. ASSUME NEW i \in 1 .. m - 1 PROVE program[i].type # "return"
  <2>1. program[i] = StoreLocal(source[i].local, parse_binary_expr(source[i]))
    BY <1>2
  <2> QED  BY <2>1 DEF StoreLocal
<1> HIDE DEF m
<1>6. m \in R /\ \A j \in R : j \in Nat /\ m <= j
  BY <1>1, <1>3, <1>4, <1>5
<1>7. c \in R /\ \A j \in R : c <= j
  BY <1>6
<1>8. c = m
  <2> HIDE DEF R, c
  <2> QED  BY <1>1, <1>6, <1>7
<1> QED  BY <1>4, <1>8 DEF Returned, Last, m

(* Code of up to six instructions returns the value of the tree's first    *)
(* return, which in a script is its last statement's expression.           *)
THEOREM LastValueReturned == JitSpec => []ReturnsLastValue
<1>1. JitInv => ReturnsLastValue
  <2> SUFFICES ASSUME JitInv, Finished, Small
               PROVE  result = Returned /\ (source # NoScript => result = parse_binary_expr(Last(source)))
    BY DEF ReturnsLastValue
  <2>1. result = Returned
    BY DEF JitInv, MachineInv
  <2>2. source # NoScript => Returned = parse_binary_expr(Last(source))
    BY ScriptReturns DEF JitInv, Origin
  <2> QED  BY <2>1, <2>2
<1> QED  BY <1>1, JitInvariant, PTL

\* Each instruction has the registers that its handler asks for.
LEMMA InstructionPlaced ==
  ASSUME JitInv, Ran, NEW i \in 1 .. Len(code), NEW S, code[i].arg \in S
  PROVE  IsPlaced(code[i], locations[i], S) /\ (i = 1 => code[i].op # "store_local")
<1> DEFINE in == code[i].inputs
<1>1. RP!Assigned /\ BuildInv /\ UsesInv
  BY DEF JitInv, MachineInv
<1>2. Len(code) \in Nat /\ Len(code) <= 15 /\ in \in Seq(1 .. i - 1)
  <2>1. Len(code) \in Nat /\ in \in Seq(1 .. i - 1)
    BY <1>1, SMTT(60) DEF BuildInv, IInv, ValuesInv
  <2>2. Len(code) <= 16 - 1
    BY <1>1 DEF RP!Assigned, RP!N, RP!MaxInstrs, M!kNumberOfCpuRegisters
  <2> HIDE DEF in
  <2> QED  BY <2>1, <2>2
<1>3. locations[i] = [inputs |-> [k \in DOMAIN in |-> RP!OutputOf(in[k])], output |-> RP!OutputOf(i)]
  BY <1>1 DEF RP!Assigned, RP!N
<1>4. ASSUME NEW j \in 1 .. Len(code) PROVE RP!OutputOf(j) \in -1 .. 15
  BY <1>2 DEF RP!OutputOf, RP!N, RP!FirstSsa
<1>5. \A k \in DOMAIN in : in[k] \in 1 .. Len(code)
  BY <1>2
<1>6. DOMAIN in = 1 .. Len(in)
  BY <1>2
<1>7. /\ code[i].op \in {"constant", "binary_op", "store_local", "return"}
      /\ code[i].op = "binary_op" => Len(in) = 2
      /\ code[i].op = "store_local" => Len(in) = 1 /\ code[i].temp = Unset
  BY <1>1 DEF BuildInv, ShapeInv
<1>8. locations[i].output \in -1 .. 15
  BY <1>3, <1>4
<1>9. code[i].op = "binary_op" => /\ DOMAIN locations[i].inputs = 1 .. 2
                                  /\ locations[i].inputs[1] \in -1 .. 15
                                  /\ locations[i].inputs[2] \in -1 .. 15
  <2> SUFFICES ASSUME code[i].op = "binary_op"
               PROVE  /\ DOMAIN locations[i].inputs = 1 .. 2
                      /\ locations[i].inputs[1] \in -1 .. 15
                      /\ locations[i].inputs[2] \in -1 .. 15
    OBVIOUS
  <2>1. DOMAIN in = 1 .. 2 /\ locations[i].inputs = [k \in DOMAIN in |-> RP!OutputOf(in[k])]
    BY <1>3, <1>6, <1>7, SMTT(60)
  <2>2. 1 \in DOMAIN in /\ 2 \in DOMAIN in
    BY <2>1
  <2> HIDE DEF in
  <2> QED  BY <1>4, <1>5, <2>1, <2>2, ZenonT(60)
<1>10. code[i].op = "store_local" => i # 1
  <2> SUFFICES ASSUME code[i].op = "store_local" PROVE i # 1
    OBVIOUS
  <2>1. Len(in) = 1 /\ EffectInputs(in, i)
    BY <1>1, <1>7 DEF UsesInv
  <2>2. in[1] = i - 1
    BY <2>1 DEF EffectInputs
  <2>3. in[1] \in 1 .. i - 1
    BY <1>2, <2>1
  <2> HIDE DEF in
  <2> QED  BY <2>2, <2>3
<1> QED  BY <1>7, <1>8, <1>9, <1>10 DEF IsPlaced

(* What assign leaves to the code generator is a line with registers as the*)
(* proofs about its bytes take it: every handler finds registers of the    *)
(* pool or RAX where it looks for them, and a store follows the value that *)
(* it stores.                                                              *)
THEOREM LineForCodeGenerator ==
  JitSpec => [](phase \in {"assigned", "done"} => IsLine(code, locations, {code[i].arg : i \in DOMAIN code}))
<1>1. ASSUME JitInv, Ran
      PROVE  IsLine(code, locations, {code[i].arg : i \in DOMAIN code})
  <2> DEFINE S == {code[i].arg : i \in DOMAIN code}
  <2>1. BuildInv /\ RP!Assigned
    BY <1>1 DEF JitInv, MachineInv
  <2>2. Len(code) \in Nat /\ DOMAIN code = 1 .. Len(code)
    BY <2>1 DEF BuildInv, IInv, ValuesInv
  <2>3. DOMAIN locations = 1 .. Len(code)
    BY <2>1 DEF RP!Assigned, RP!N
  <2>4. \A i \in 1 .. Len(code) : code[i].arg \in S
    BY <2>2
  <2> HIDE DEF S
  <2>5. \A i \in 1 .. Len(code) : IsPlaced(code[i], locations[i], S) /\ (i = 1 => code[i].op # "store_local")
    BY <1>1, <2>4, InstructionPlaced
  <2>6. IsLine(code, locations, S)
    BY <2>2, <2>3, <2>5 DEF IsLine
  <2> QED  BY <2>6 DEF S
<1>2. JitInv => (phase \in {"assigned", "done"} => IsLine(code, locations, {code[i].arg : i \in DOMAIN code}))
  BY <1>1 DEF Ran
<1> QED  BY <1>2, JitInvariant, PTL
=============================================================================
