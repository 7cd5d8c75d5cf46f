---------------------------- MODULE ScopeProofs -----------------------------
(***************************************************************************)
(* For any tree of scopes and any number of locals and parameters: two     *)
(* locals that one scope can name have different slots and different bits, *)
(* and the function's count of variables takes in all of them.             *)
(***************************************************************************)
EXTENDS Scope, SequenceTheorems, FiniteSetTheorems, WellFoundedInduction, TLAPS

Parent(s) == scope[s].parent
Owner(l) == local[l].owner

ScopeRecord == [parent : Nat, child : Nat, sibling : Nat, variables : Seq(Nat)]
LocalRecord == [name : Names, owner : Nat, index : Int]
CallRecord == [scope : Nat, frame_index : Int, min_frame_index : Int, child : Nat]

TypesInv == /\ pc \in {"declaring", "allocating", "laid_out"}
            /\ scope \in Seq(ScopeRecord) /\ Len(scope) > 0
            /\ local \in Seq(LocalRecord)
            /\ func \in [num_params : Nat, num_stack_locals : Int]
            /\ calls \in Seq(CallRecord)
            /\ DOMAIN free \subseteq 1 .. Len(scope)
            /\ \A s \in DOMAIN free : free[s] \in Int

\* The lists of children go from the youngest child to the oldest.
TreeInv == /\ Parent(1) = NoScope
           /\ \A s \in 2 .. Len(scope) : Parent(s) \in 1 .. s - 1
           /\ \A s \in 1 .. Len(scope) :
                /\ scope[s].child \in 0 .. Len(scope)
                /\ scope[s].child # NoScope => Parent(scope[s].child) = s
                /\ \A x \in 2 .. Len(scope) : Parent(x) = s => x <= scope[s].child
           /\ \A s \in 2 .. Len(scope) :
                /\ scope[s].sibling \in 0 .. s - 1
                /\ scope[s].sibling # NoScope => Parent(scope[s].sibling) = Parent(s)
                /\ \A x \in 2 .. s - 1 : Parent(x) = Parent(s) => x <= scope[s].sibling

\* A local is in one place of its owner, and elsewhere only further in.
LocalsInv == /\ \A s \in 1 .. Len(scope) : \A p \in Places(s) :
                  /\ scope[s].variables[p] \in 1 .. Len(local)
                  /\ Owner(scope[s].variables[p]) \in Ancestors(s)
                  /\ \A q \in Places(s) : scope[s].variables[p] = scope[s].variables[q] => p = q
             /\ \A l \in 1 .. Len(local) :
                  /\ Owner(l) \in 1 .. Len(scope)
                  /\ \E p \in Places(Owner(l)) : scope[Owner(l)].variables[p] = l

\* The scopes that were visited have their slots between where their parent's
\* end and where their children's start.
Start(s) == IF s = 1 THEN kFirstLocalSlotFromFp ELSE free[Parent(s)]
StackSlots(s) == {i \in Int : free[s] < i /\ i <= Start(s)}
ParamSlots(s) == IF s = 1 THEN 2 .. func.num_params + 1 ELSE {}

FrameInv == /\ pc = "declaring" => DOMAIN free = {}
            /\ pc # "declaring" => 1 \in DOMAIN free
            /\ \A s \in DOMAIN free :
                 /\ s # 1 => Parent(s) \in DOMAIN free
                 /\ free[s] <= Start(s) /\ Start(s) <= kFirstLocalSlotFromFp
                 /\ \A l \in 1 .. Len(local) : Owner(l) = s =>
                      /\ local[l].index \in StackSlots(s) \cup ParamSlots(s)
                      /\ \A m \in 1 .. Len(local) :
                           Owner(m) = s /\ local[l].index = local[m].index => l = m

\* The calls that run are of scopes within each other.  What a call has visited
\* are the children behind the one it is at.
CallAt(k) == /\ calls[k].scope \in DOMAIN free
             /\ calls[k].frame_index = free[calls[k].scope]
             /\ calls[k].child \in 0 .. Len(scope)
             /\ calls[k].child # NoScope => Parent(calls[k].child) = calls[k].scope
Within(k) == /\ k < Len(calls) => calls[k + 1].scope = calls[k].child
             /\ \A j \in 1 .. k - 1 : calls[j].scope < calls[k].scope
Visited(k) == \A s \in 2 .. Len(scope) : Parent(s) = calls[k].scope =>
                (s \in DOMAIN free <=> \/ s > calls[k].child
                                       \/ s = calls[k].child /\ k < Len(calls))

CallsInv == /\ pc = "allocating" <=> Len(calls) > 0
            /\ Len(calls) > 0 => calls[1].scope = 1
            /\ \A k \in 1 .. Len(calls) : CallAt(k) /\ Within(k) /\ Visited(k)
            /\ \A s \in 2 .. Len(scope) :
                 /\ Parent(s) \in DOMAIN free
                 /\ \A k \in 1 .. Len(calls) : calls[k].scope # Parent(s)
                 => s \in DOMAIN free

\* The lowest slot so far is known to a call that runs, in the end to the function.
MinInv == /\ pc = "allocating" =>
               \A s \in DOMAIN free : \E k \in 1 .. Len(calls) : calls[k].min_frame_index <= free[s]
          /\ pc = "laid_out" =>
               \A s \in DOMAIN free : kFirstLocalSlotFromFp - func.num_stack_locals <= free[s]

IInv == TypesInv /\ TreeInv /\ LocalsInv /\ FrameInv /\ CallsInv /\ MinInv
-----------------------------------------------------------------------------
\* Numbers that are not all out of a set have a least one in it.
LEMMA LeastNumber ==
  ASSUME NEW S \in SUBSET Nat, S # {}
  PROVE  \E n \in S : \A m \in S : n <= m
<1> DEFINE R == OpToRel(<, Nat)
<1>1. IsWellFoundedOn(R, Nat)
  BY NatLessThanWellFounded
<1>2. \A m, n \in Nat : m < n => <<m, n>> \in R
  BY DEF OpToRel
<1> HIDE DEF R
<1>3. PICK n \in S : \A m \in S : ~ (<<m, n>> \in R)
  BY <1>1, WFMin
<1>4. ASSUME NEW m \in S PROVE n <= m
  <2>1. m \in Nat /\ n \in Nat
    OBVIOUS
  <2>2. ~ (m < n)
    BY <1>2, <1>3, <2>1, Zenon
  <2> QED  BY <2>1, <2>2
<1> QED  BY <1>4

LEMMA LeastIn ==
  ASSUME NEW S \in SUBSET Nat, S # {}
  PROVE  Least(S) \in S
BY LeastNumber DEF Least

LEMMA GreatestIn ==
  ASSUME NEW n \in Nat, NEW S \in SUBSET (1 .. n), S # {}
  PROVE  Greatest(S) \in S
<1> DEFINE T == {n - i : i \in S}
<1>1. \A i \in S : n - i \in Nat
  OBVIOUS
<1>1a. T \in SUBSET Nat /\ T # {}
  BY <1>1, Zenon
<1>2. PICK t \in T : \A u \in T : t <= u
  BY <1>1a, LeastNumber
<1>3. PICK i \in S : t = n - i
  OBVIOUS
<1>4. \A j \in S : j <= i
  BY <1>2, <1>3
<1> QED  BY <1>3, <1>4 DEF Greatest
-----------------------------------------------------------------------------
\* The scopes around a scope are it, and those around its parent.
LEMMA AncestorsAre ==
  ASSUME TypesInv, TreeInv, NEW s \in 1 .. Len(scope)
  PROVE  /\ s \in Ancestors(s)
         /\ \A a \in Ancestors(s) : a \in 1 .. s
         /\ s = 1 => Ancestors(s) = {1}
         /\ s # 1 => Ancestors(s) = {s} \cup Ancestors(Parent(s))
<1>1. s \in Nat /\ Len(scope) \in Nat
  BY DEF TypesInv
<1>2. \A x \in 2 .. s : Parent(x) \in 1 .. x - 1
  BY <1>1 DEF TreeInv
<1>3. s \in Ancestors(s) /\ \A a \in Ancestors(s) : a \in 1 .. s
  BY <1>1 DEF Ancestors
<1>4. ASSUME s # 1 PROVE Ancestors(s) = {s} \cup Ancestors(Parent(s))
  <2>1. Parent(s) \in 1 .. s - 1 /\ scope[s].parent = Parent(s)
    BY <1>1, <1>2, <1>4 DEF Parent
  <2>2. ASSUME NEW a \in Ancestors(s), a # s PROVE a \in Ancestors(Parent(s))
    <3>0. a \in 1 .. Parent(s)
      <4> DEFINE D == {s} \cup (1 .. Parent(s))
      <4>1. D \in SUBSET (1 .. s) /\ s \in D
        BY <1>1, <2>1
      <4>2. ASSUME NEW x \in D PROVE scope[x].parent \in D \cup {NoScope}
        <5>1. x = 1 => scope[x].parent = NoScope
          BY DEF TreeInv, Parent
        <5>2. x # 1 /\ x # s => scope[x].parent \in 1 .. x - 1
          BY <1>1, <1>2, <2>1 DEF Parent
        <5> QED  BY <1>1, <1>4, <2>1, <5>1, <5>2
      <4>3. a \in D
        BY <4>1, <4>2, Zenon DEF Ancestors
      <4> QED  BY <2>2, <4>3
    <3>1. SUFFICES ASSUME NEW C \in SUBSET (1 .. Parent(s)), Parent(s) \in C,
                          \A x \in C : scope[x].parent \in C \cup {NoScope}
                   PROVE  a \in C
      BY <3>0 DEF Ancestors
    <3>2a. s \in 1 .. s /\ \A x \in 1 .. Parent(s) : x \in 1 .. s
      BY <1>1, <2>1
    <3>2. C \cup {s} \in SUBSET (1 .. s)
      BY <3>2a, Zenon
    <3>3. \A x \in C \cup {s} : scope[x].parent \in (C \cup {s}) \cup {NoScope}
      BY <2>1, <3>1
    <3> QED  BY <2>2, <3>2, <3>3 DEF Ancestors
  <2>3. ASSUME NEW a \in Ancestors(Parent(s)) PROVE a \in Ancestors(s)
    <3>1. SUFFICES ASSUME NEW C \in SUBSET (1 .. s), s \in C,
                          \A x \in C : scope[x].parent \in C \cup {NoScope}
                   PROVE  a \in C
      <4>1. a \in 1 .. s
        BY <1>1, <2>1 DEF Ancestors
      <4> QED  BY <4>1 DEF Ancestors
    <3>2. C \cap (1 .. Parent(s)) \in SUBSET (1 .. Parent(s))
      OBVIOUS
    <3>3. Parent(s) \in C
      BY <2>1, <3>1 DEF NoScope
    <3>4. Parent(s) \in C \cap (1 .. Parent(s))
      BY <2>1, <3>3
    <3>5. ASSUME NEW x \in C \cap (1 .. Parent(s))
          PROVE  scope[x].parent \in (C \cap (1 .. Parent(s))) \cup {NoScope}
      <4>1. x = 1 => scope[x].parent = NoScope
        BY DEF TreeInv, Parent
      <4>2. x # 1 => scope[x].parent \in 1 .. x - 1
        BY <1>1, <1>2, <2>1 DEF Parent
      <4>3. scope[x].parent \in C \cup {NoScope}
        BY <3>1
      <4> QED  BY <1>1, <2>1, <4>1, <4>2, <4>3
    <3> QED  BY <3>2, <3>4, <3>5 DEF Ancestors
  <2> QED  BY <1>3, <2>2, <2>3
<1>5. ASSUME s = 1 PROVE Ancestors(s) = {1}
  BY <1>3, <1>5
<1> QED  BY <1>3, <1>4, <1>5

\* Of two scopes around a third, the older one is around the younger one.
LEMMA AncestorsChain ==
  ASSUME TypesInv, TreeInv
  PROVE  \A s \in 1 .. Len(scope) : \A a, b \in Ancestors(s) : a <= b => a \in Ancestors(b)
<1> DEFINE Wrong == {s \in 1 .. Len(scope) : ~ \A a, b \in Ancestors(s) : a <= b => a \in Ancestors(b)}
<1>1. SUFFICES ASSUME Wrong # {} PROVE FALSE
  OBVIOUS
<1>2. Len(scope) \in Nat
  BY DEF TypesInv
<1>2a. Wrong \in SUBSET Nat
  BY <1>2
<1>3. PICK s \in Wrong : \A m \in Wrong : s <= m
  BY <1>1, <1>2a, LeastNumber, Zenon
<1>4. PICK a \in Ancestors(s), b \in Ancestors(s) : a <= b /\ a \notin Ancestors(b)
  OBVIOUS
<1>5. b # s /\ a \in 1 .. s /\ b \in 1 .. s
  BY <1>4, AncestorsAre
<1>6. a # s
  BY <1>2, <1>4, <1>5
<1>7. s # 1
  BY <1>5
<1>8. /\ a \in Ancestors(Parent(s)) /\ b \in Ancestors(Parent(s))
      /\ Parent(s) \in 1 .. s - 1
  BY <1>2, <1>5, <1>6, <1>7, AncestorsAre DEF TreeInv
<1>9. Parent(s) \in Wrong
  BY <1>2, <1>4, <1>8
<1> QED  BY <1>2, <1>3, <1>8, <1>9

LEMMA AncestorsTransitive ==
  ASSUME TypesInv, TreeInv, NEW s \in 1 .. Len(scope), NEW b \in Ancestors(s), NEW a \in Ancestors(b)
  PROVE  a \in Ancestors(s)
<1>1. s \in Nat /\ b \in 1 .. s /\ a \in 1 .. b
  BY AncestorsAre DEF TypesInv, Ancestors
<1>2. SUFFICES ASSUME NEW C \in SUBSET (1 .. s), s \in C,
                      \A x \in C : scope[x].parent \in C \cup {NoScope}
               PROVE  a \in C
  <2>1. a \in 1 .. s
    BY <1>1
  <2> QED  BY <2>1 DEF Ancestors
<1>3. b \in C
  BY <1>2 DEF Ancestors
<1> DEFINE D == C \cap (1 .. b)
<1>4. ASSUME NEW x \in D PROVE scope[x].parent \in D \cup {NoScope}
  <2>1. x = 1 => scope[x].parent = NoScope
    BY DEF TreeInv, Parent
  <2>2. x # 1 => scope[x].parent \in 1 .. x - 1
    BY <1>1 DEF TreeInv, Parent, TypesInv
  <2> QED  BY <1>1, <1>2, <2>1, <2>2
<1>5. D \in SUBSET (1 .. b) /\ b \in D
  BY <1>1, <1>3
<1>6. a \in D
  BY <1>4, <1>5, Zenon DEF Ancestors
<1> QED  BY <1>6

\* Scopes around a scope stay what they are while parents do.
LEMMA AncestorsStay ==
  ASSUME NEW s \in Nat, \A x \in 1 .. s : scope'[x].parent = scope[x].parent
  PROVE  Ancestors(s)' = Ancestors(s)
BY DEF Ancestors
-----------------------------------------------------------------------------
LEMMA SequenceOf ==
  ASSUME NEW S, NEW n \in Nat, NEW f, f = [i \in 1 .. n |-> f[i]], \A i \in 1 .. n : f[i] \in S
  PROVE  f \in Seq(S) /\ Len(f) = n
<1>1. [i \in 1 .. n |-> f[i]] \in Seq(S)
  OBVIOUS
<1>2. f \in Seq(S) /\ DOMAIN f = 1 .. n
  BY <1>1, Zenon
<1> QED  BY <1>2, LenProperties

LEMMA ScopeFields ==
  ASSUME TypesInv, NEW s \in 1 .. Len(scope)
  PROVE  /\ Len(scope) \in Nat /\ s \in Nat /\ DOMAIN scope = 1 .. Len(scope)
         /\ scope[s] \in ScopeRecord
         /\ scope[s].parent \in Nat /\ scope[s].child \in Nat /\ scope[s].sibling \in Nat
         /\ scope[s].variables \in Seq(Nat) /\ Len(scope[s].variables) \in Nat
         /\ Places(s) = 1 .. Len(scope[s].variables)
<1>1. Len(scope) \in Nat /\ s \in Nat /\ DOMAIN scope = 1 .. Len(scope) /\ scope[s] \in ScopeRecord
  BY DEF TypesInv
<1>2. scope[s].variables \in Seq(Nat)
  BY <1>1 DEF ScopeRecord
<1> QED  BY <1>1, <1>2 DEF ScopeRecord, Places

LEMMA LocalFields ==
  ASSUME TypesInv
  PROVE  /\ Len(local) \in Nat /\ DOMAIN local = 1 .. Len(local)
         /\ \A l \in 1 .. Len(local) : /\ local[l] \in LocalRecord /\ local[l].name \in Names
                                       /\ local[l].owner \in Nat /\ local[l].index \in Int
<1>1. Len(local) \in Nat /\ DOMAIN local = 1 .. Len(local)
  BY DEF TypesInv
<1>2. ASSUME NEW l \in 1 .. Len(local) PROVE local[l] \in LocalRecord
  BY DEF TypesInv
<1> QED  BY <1>1, <1>2 DEF LocalRecord

\* How many come before a place grows with the place.
LEMMA Counting ==
  ASSUME TypesInv, NEW s \in 1 .. Len(scope), NEW n \in Nat
  PROVE  /\ Cardinality(Own(s, n)) \in Nat
         /\ \A p \in Own(s, n) : /\ Before(s, n, p) \in Nat
                                 /\ Before(s, n, p) < Cardinality(Own(s, n))
         /\ \A p, q \in Own(s, n) : p < q => Before(s, n, p) < Before(s, n, q)
<1>1. scope[s].variables \in Seq(Nat) /\ Len(scope[s].variables) \in Nat
  BY ScopeFields
<1>2. IsFiniteSet(1 .. Len(scope[s].variables))
  <2>1. 1 \in Int /\ Len(scope[s].variables) \in Int
    BY <1>1
  <2> QED  BY <2>1, FS_Interval, Zenon
<1>3. Own(s, n) \subseteq 1 .. Len(scope[s].variables)
  BY <1>1 DEF Own, Places
<1>4. IsFiniteSet(Own(s, n)) /\ Cardinality(Own(s, n)) \in Nat
  BY <1>2, <1>3, FS_Subset, FS_CardinalityType
<1>6. ASSUME NEW T, IsFiniteSet(T), NEW p \in T, NEW U \in SUBSET (T \ {p})
      PROVE  Cardinality(U) \in Nat /\ Cardinality(U) < Cardinality(T)
  <2>1. IsFiniteSet(T \ {p}) /\ Cardinality(T \ {p}) = Cardinality(T) - 1
    BY <1>6, FS_RemoveElement
  <2>2. IsFiniteSet(U) /\ Cardinality(U) <= Cardinality(T \ {p})
    BY <2>1, FS_Subset
  <2> QED  BY <1>6, <2>1, <2>2, FS_CardinalityType
<1>7. ASSUME NEW p \in Own(s, n)
      PROVE  /\ Before(s, n, p) \in Nat
             /\ Before(s, n, p) < Cardinality(Own(s, n))
  <2>1. {q \in Own(s, n) : q < p} \in SUBSET (Own(s, n) \ {p})
    BY <1>3
  <2> QED  BY <1>4, <1>6, <2>1 DEF Before
<1>8. ASSUME NEW p \in Own(s, n), NEW q \in Own(s, n), p < q
      PROVE  Before(s, n, p) < Before(s, n, q)
  <2> DEFINE T == {r \in Own(s, n) : r < q}
             U == {r \in Own(s, n) : r < p}
  <2>1. IsFiniteSet(T) /\ p \in T
    BY <1>4, <1>8, FS_Subset
  <2>2. U \in SUBSET (T \ {p})
    BY <1>3, <1>8
  <2>3. Cardinality(U) < Cardinality(T)
    BY <1>6, <2>1, <2>2
  <2> QED  BY <2>3 DEF Before
<1> QED  BY <1>4, <1>7, <1>8

\* What a call has done when it comes to its children.
Entered(s, n, first_frame, callers) ==
  /\ local' \in Seq(LocalRecord) /\ Len(local') = Len(local)
  /\ \A l \in 1 .. Len(local) : Owner(l)' = Owner(l) /\ (Owner(l) # s => local'[l] = local[l])
  /\ DOMAIN free' = DOMAIN free \cup {s}
  /\ \A x \in DOMAIN free : free'[x] = free[x]
  /\ free'[s] \in Int /\ free'[s] <= first_frame
  /\ calls' \in Seq(CallRecord) /\ Len(calls') = Len(callers) + 1
  /\ \A k \in 1 .. Len(callers) : calls'[k] = callers[k]
  /\ calls'[Len(calls')] = [scope |-> s, frame_index |-> free'[s],
                            min_frame_index |-> free'[s], child |-> scope[s].child]
  /\ \A l \in 1 .. Len(local) : Owner(l) = s =>
       /\ local'[l].index \in {i \in Int : free'[s] < i /\ i <= first_frame} \cup (2 .. n + 1)
       /\ \A m \in 1 .. Len(local) :
            Owner(m) = s /\ local'[l].index = local'[m].index => l = m

LEMMA Entering ==
  ASSUME TypesInv, TreeInv, LocalsInv, NEW s \in 1 .. Len(scope), s \notin DOMAIN free,
         NEW n \in Nat, n <= Len(scope[s].variables), s = 1 \/ n = 0,
         NEW first_param \in Int, n > 0 => first_param = kParamEndSlotFromFp + n,
         NEW first_frame \in Int, first_frame <= kFirstLocalSlotFromFp,
         NEW callers \in Seq(CallRecord),
         Enter(s, first_param, n, first_frame, callers), UNCHANGED scope
  PROVE  Entered(s, n, first_frame, callers)
<1> DEFINE end == first_frame - Cardinality(Own(s, n))
           given == (1 .. n) \cup Own(s, n)
           vs == scope[s].variables
           slot(p) == SlotAt(s, first_param, n, first_frame, p)
           call == [scope |-> s, frame_index |-> end, min_frame_index |-> end, child |-> scope[s].child]
<1>1. /\ local' = [l \in DOMAIN local |->
                     IF \E p \in given : vs[p] = l
                     THEN [local[l] EXCEPT !.index = slot(CHOOSE p \in given : vs[p] = l)]
                     ELSE local[l]]
      /\ calls' = Append(callers, call)
      /\ free' = [x \in DOMAIN free \cup {s} |-> IF x = s THEN end ELSE free[x]]
  BY DEF Enter
<1>2. /\ vs \in Seq(Nat) /\ Places(s) = 1 .. Len(vs) /\ Len(vs) \in Nat /\ s \in Nat
      /\ scope[s].child \in Nat /\ DOMAIN local = 1 .. Len(local) /\ Len(local) \in Nat
  BY ScopeFields, LocalFields
<1>3. /\ Cardinality(Own(s, n)) \in Nat
      /\ \A p \in Own(s, n) : Before(s, n, p) \in Nat /\ Before(s, n, p) < Cardinality(Own(s, n))
      /\ \A p, q \in Own(s, n) : p < q => Before(s, n, p) < Before(s, n, q)
  BY Counting
<1>4. end \in Int /\ end <= first_frame
  BY <1>3
<1>5. given \subseteq Places(s)
  BY <1>2 DEF Own
<1>6. ASSUME NEW p \in given PROVE Owner(vs[p]) = s
  <2>1. CASE p \in Own(s, n)
    BY <2>1 DEF Own, Owner
  <2>2. CASE p \in 1 .. n
    <3>1. s = 1 /\ Ancestors(s) = {1}
      BY <2>2, AncestorsAre
    <3> QED  BY <1>5, <3>1 DEF LocalsInv
  <2> QED  BY <2>1, <2>2
<1>7. ASSUME NEW l \in 1 .. Len(local), Owner(l) = s
      PROVE  \E p \in given : /\ vs[p] = l
                              /\ local'[l].index = slot(p)
  <2>1. PICK p \in Places(s) : vs[p] = l
    BY <1>7 DEF LocalsInv
  <2>2. p \in given
    <3>1. p > n => p \in Own(s, n)
      BY <1>7, <2>1 DEF Own, Owner
    <3>2. ~ (p > n) => p \in 1 .. n
      BY <1>2
    <3> QED  BY <3>1, <3>2
  <2>3. \A q \in given : vs[q] = l => q = p
    BY <1>5, <2>1 DEF LocalsInv
  <2>4. (CHOOSE q \in given : vs[q] = l) = p
    BY <2>1, <2>2, <2>3
  <2>5. local[l] \in LocalRecord
    BY <1>7 DEF TypesInv
  <2>6. local'[l] = [local[l] EXCEPT !.index = slot(p)]
    BY <1>1, <1>2, <2>1, <2>2, <2>4
  <2> HIDE DEF given, slot
  <2>7. local'[l].index = slot(p)
    BY <2>5, <2>6 DEF LocalRecord
  <2> QED  BY <2>1, <2>2, <2>7
<1>8. ASSUME NEW p \in given
      PROVE  /\ p \in 1 .. n => slot(p) = n + 2 - p
             /\ p \notin 1 .. n => p \in Own(s, n) /\ slot(p) = first_frame - Before(s, n, p)
  <2>1. p \in Nat \ {0}
    BY <1>2, <1>5
  <2>2. ASSUME p \in 1 .. n PROVE slot(p) = n + 2 - p
    BY <2>1, <2>2 DEF SlotAt, kParamEndSlotFromFp
  <2>3. ASSUME p \notin 1 .. n PROVE p \in Own(s, n) /\ slot(p) = first_frame - Before(s, n, p)
    <3>1. ~ (p <= n)
      BY <2>1, <2>3
    <3> QED  BY <2>3, <3>1 DEF SlotAt
  <2> QED  BY <2>2, <2>3
<1>9. ASSUME NEW p \in given
      PROVE  slot(p) \in Int /\ slot(p) \in {i \in Int : end < i /\ i <= first_frame} \cup (2 .. n + 1)
  <2>1. CASE p \in 1 .. n
    <3>1. slot(p) = n + 2 - p
      BY <1>8, <2>1
    <3> HIDE DEF slot
    <3> QED  BY <2>1, <3>1
  <2>2. CASE p \notin 1 .. n
    <3>1. p \in Own(s, n) /\ slot(p) = first_frame - Before(s, n, p)
      BY <1>8, <2>2
    <3> HIDE DEF slot
    <3> QED  BY <1>3, <3>1
  <2> QED  BY <2>1, <2>2
<1>10. ASSUME NEW p \in given, NEW q \in given, slot(p) = slot(q)
       PROVE  p = q
  <2>1. p \in Nat /\ q \in Nat
    BY <1>2, <1>5
  <2> DEFINE a == slot(p)  b == slot(q)
  <2>2. /\ p \in 1 .. n => a = n + 2 - p
        /\ p \notin 1 .. n => p \in Own(s, n) /\ a = first_frame - Before(s, n, p)
        /\ q \in 1 .. n => b = n + 2 - q
        /\ q \notin 1 .. n => q \in Own(s, n) /\ b = first_frame - Before(s, n, q)
        /\ a = b
    BY <1>8, <1>10
  <2> HIDE DEF slot, given, a, b
  <2> QED  BY <1>3, <2>1, <2>2 DEF kFirstLocalSlotFromFp
<1> HIDE DEF slot
<1>11. /\ local' \in Seq(LocalRecord) /\ Len(local') = Len(local)
       /\ \A l \in 1 .. Len(local) : Owner(l)' = Owner(l) /\ (Owner(l) # s => local'[l] = local[l])
  <2>1. ASSUME NEW l \in 1 .. Len(local)
        PROVE  local'[l] \in LocalRecord /\ local'[l].owner = local[l].owner /\ (Owner(l) # s => local'[l] = local[l])
    <3>1. local[l] \in LocalRecord
      BY DEF TypesInv
    <3>2. CASE \E p \in given : vs[p] = l
      <4>1. PICK i \in Int : local'[l] = [local[l] EXCEPT !.index = i]
        BY <1>1, <1>2, <1>9, <3>2
      <4>2. Owner(l) = s
        BY <1>6, <3>2
      <4> HIDE DEF given
      <4> QED  BY <3>1, <4>1, <4>2 DEF LocalRecord
    <3>3. CASE ~ \E p \in given : vs[p] = l
      BY <1>1, <1>2, <3>1, <3>3
    <3> QED  BY <3>2, <3>3
  <2>2. local' = [l \in 1 .. Len(local) |-> local'[l]]
    BY <1>1, <1>2
  <2>3. local' \in Seq(LocalRecord) /\ Len(local') = Len(local)
    BY <1>2, <2>1, <2>2, SequenceOf
  <2> QED  BY <2>1, <2>3 DEF Owner
<1>12. call \in CallRecord
  BY <1>2, <1>4 DEF CallRecord
<1>13. /\ DOMAIN free' = DOMAIN free \cup {s} /\ free'[s] = end
       /\ \A x \in DOMAIN free : free'[x] = free[x]
  BY <1>1
<1>14. ASSUME NEW l \in 1 .. Len(local), Owner(l) = s
       PROVE  /\ local'[l].index \in {i \in Int : end < i /\ i <= first_frame} \cup (2 .. n + 1)
              /\ \A m \in 1 .. Len(local) : Owner(m) = s /\ local'[l].index = local'[m].index => l = m
  <2> HIDE DEF given, end
  <2>1. PICK p \in given : local'[l].index = slot(p) /\ vs[p] = l
    BY <1>7, <1>14
  <2>2. ASSUME NEW m \in 1 .. Len(local), Owner(m) = s, local'[l].index = local'[m].index PROVE l = m
    <3>1. PICK q \in given : local'[m].index = slot(q) /\ vs[q] = m
      BY <1>7, <2>2
    <3>2. p = q
      BY <1>10, <2>1, <2>2, <3>1
    <3> QED  BY <2>1, <3>1, <3>2
  <2> QED  BY <1>9, <2>1, <2>2
<1>15. /\ calls' \in Seq(CallRecord) /\ Len(calls') = Len(callers) + 1
       /\ \A k \in 1 .. Len(callers) : calls'[k] = callers[k]
       /\ calls'[Len(callers) + 1] = call
  BY <1>1, <1>12, AppendProperties
<1> QED  BY <1>4, <1>11, <1>13, <1>14, <1>15 DEF Entered
-----------------------------------------------------------------------------
LEMMA InitOK == ScopeInit => IInv
<1> SUFFICES ASSUME ScopeInit PROVE IInv
  OBVIOUS
<1>1. /\ scope = <<NewScope(NoScope, NoScope)>> /\ local = <<>> /\ calls = <<>> /\ free = <<>>
      /\ pc = "declaring" /\ func = [num_params |-> 0, num_stack_locals |-> 0]
  BY DEF ScopeInit
<1>2. /\ NewScope(NoScope, NoScope) \in ScopeRecord /\ NewScope(NoScope, NoScope).parent = 0
      /\ NewScope(NoScope, NoScope).child = 0 /\ NewScope(NoScope, NoScope).variables = <<>>
  BY DEF NewScope, NoScope, ScopeRecord
<1>3. /\ scope \in Seq(ScopeRecord) /\ Len(scope) = 1 /\ scope[1] = NewScope(NoScope, NoScope)
      /\ local \in Seq(LocalRecord) /\ Len(local) = 0
      /\ calls \in Seq(CallRecord) /\ Len(calls) = 0 /\ DOMAIN free = {}
  BY <1>1, <1>2
<1>4. TypesInv
  BY <1>1, <1>3 DEF TypesInv
<1>5. TreeInv
  BY <1>2, <1>3 DEF TreeInv, Parent, NoScope
<1>6. LocalsInv
  <2>1. \A s \in 1 .. Len(scope) : Places(s) = {}
    BY <1>2, <1>3 DEF Places
  <2> QED  BY <1>3, <2>1 DEF LocalsInv
<1>7. FrameInv /\ CallsInv /\ MinInv
  BY <1>1, <1>3 DEF FrameInv, CallsInv, MinInv
<1> QED  BY <1>4, <1>5, <1>6, <1>7 DEF IInv

\* While scopes and locals are made, no call runs and nothing has a slot.
LEMMA StillDeclaring ==
  ASSUME IInv, pc = "declaring", UNCHANGED <<pc, func, calls, free>>,
         scope' \in Seq(ScopeRecord), Len(scope') > 0, local' \in Seq(LocalRecord),
         TreeInv', LocalsInv'
  PROVE  IInv'
<1>1. DOMAIN free = {} /\ Len(calls) = 0 /\ calls \in Seq(CallRecord)
      /\ func \in [num_params : Nat, num_stack_locals : Int]
  BY DEF IInv, TypesInv, FrameInv, CallsInv
<1>2. DOMAIN free' = {} /\ Len(calls') = 0 /\ pc' = "declaring"
  BY <1>1
<1>3. TypesInv'
  BY <1>1, <1>2 DEF TypesInv
<1>4. FrameInv' /\ CallsInv' /\ MinInv'
  BY <1>2 DEF FrameInv, CallsInv, MinInv
<1> QED  BY <1>3, <1>4 DEF IInv

LEMMA RecordUpdates ==
  ASSUME NEW r \in ScopeRecord, NEW c \in Nat, NEW V \in Seq(Nat)
  PROVE  /\ [r EXCEPT !.child = c] \in ScopeRecord /\ [r EXCEPT !.variables = V] \in ScopeRecord
         /\ [r EXCEPT !.child = c].child = c /\ [r EXCEPT !.variables = V].variables = V
         /\ [r EXCEPT !.child = c].parent = r.parent /\ [r EXCEPT !.variables = V].parent = r.parent
         /\ [r EXCEPT !.child = c].sibling = r.sibling /\ [r EXCEPT !.variables = V].sibling = r.sibling
         /\ [r EXCEPT !.child = c].variables = r.variables /\ [r EXCEPT !.variables = V].child = r.child
BY DEF ScopeRecord

LEMMA NewScopeStep ==
  ASSUME IInv, NEW p \in 1 .. Len(scope), local_scope_new(p)
  PROVE  IInv'
<1> DEFINE new == Len(scope) + 1
           old == [scope EXCEPT ![p].child = new]
           youngest == NewScope(p, scope[p].child)
<1>1. TypesInv /\ TreeInv /\ LocalsInv
  BY DEF IInv
<1>2. pc = "declaring" /\ scope' = Append(old, youngest) /\ UNCHANGED <<pc, local, func, calls, free>>
  BY DEF local_scope_new
<1>3. Len(scope) \in Nat /\ \A s \in 1 .. Len(scope) : s \in Nat /\ scope[s] \in ScopeRecord
  BY <1>1, ScopeFields
<1>4. youngest \in ScopeRecord
  BY <1>3 DEF NewScope, NoScope, ScopeRecord
<1>5. old \in Seq(ScopeRecord) /\ Len(old) = Len(scope)
  <2>0. new \in Nat /\ <<>> \in Seq(Nat) /\ scope[p] \in ScopeRecord
    BY <1>3
  <2>1. [scope[p] EXCEPT !.child = new] \in ScopeRecord
    BY <2>0, RecordUpdates
  <2>2. old = [scope EXCEPT ![p] = [scope[p] EXCEPT !.child = new]]
    BY <1>1 DEF TypesInv
  <2> QED  BY <1>1, <2>1, <2>2, ExceptSeq DEF TypesInv
<1>6. /\ scope' \in Seq(ScopeRecord) /\ Len(scope') = new
      /\ \A s \in 1 .. Len(scope) : scope'[s] = old[s]
      /\ scope'[new] = youngest
  BY <1>2, <1>4, <1>5, AppendProperties
<1>7. \A s \in 1 .. Len(scope) :
        /\ scope'[s].parent = scope[s].parent /\ scope'[s].sibling = scope[s].sibling
        /\ scope'[s].variables = scope[s].variables
        /\ scope'[s].child = IF s = p THEN new ELSE scope[s].child
  <2> TAKE s \in 1 .. Len(scope)
  <2>1. DOMAIN scope = 1 .. Len(scope) /\ scope[s] \in ScopeRecord /\ new \in Nat /\ <<>> \in Seq(Nat)
    BY <1>1, <1>3 DEF TypesInv
  <2>2. scope'[s] = IF s = p THEN [scope[s] EXCEPT !.child = new] ELSE scope[s]
    BY <1>6, <2>1
  <2>3. /\ [scope[s] EXCEPT !.child = new].child = new
        /\ [scope[s] EXCEPT !.child = new].parent = scope[s].parent
        /\ [scope[s] EXCEPT !.child = new].sibling = scope[s].sibling
        /\ [scope[s] EXCEPT !.child = new].variables = scope[s].variables
    BY <2>1, RecordUpdates
  <2> QED  BY <2>2, <2>3
<1>8. /\ scope'[new].parent = p /\ scope'[new].child = 0
      /\ scope'[new].sibling = scope[p].child /\ scope'[new].variables = <<>>
  BY <1>6 DEF NewScope, NoScope
<1> HIDE DEF old, youngest
<1>9. TreeInv'
  <2>1. /\ scope[1].parent = 0
        /\ \A s \in 2 .. Len(scope) : scope[s].parent \in 1 .. s - 1
        /\ \A s \in 1 .. Len(scope) :
             /\ scope[s].child \in 0 .. Len(scope)
             /\ scope[s].child # 0 => scope[scope[s].child].parent = s
             /\ \A x \in 2 .. Len(scope) : scope[x].parent = s => x <= scope[s].child
        /\ \A s \in 2 .. Len(scope) :
             /\ scope[s].sibling \in 0 .. s - 1
             /\ scope[s].sibling # 0 => scope[scope[s].sibling].parent = scope[s].parent
             /\ \A x \in 2 .. s - 1 : scope[x].parent = scope[s].parent => x <= scope[s].sibling
    BY <1>1 DEF TreeInv, Parent, NoScope
  <2>2. /\ scope'[1].parent = 0
        /\ \A s \in 2 .. new : scope'[s].parent \in 1 .. s - 1
    <3>1. 1 \in 1 .. Len(scope)
      BY <1>3
    <3>2. ASSUME NEW s \in 2 .. new PROVE scope'[s].parent \in 1 .. s - 1
      <4>1. CASE s = new
        BY <1>3, <1>8, <4>1
      <4>2. CASE s # new
        <5>1. s \in 2 .. Len(scope) /\ s \in 1 .. Len(scope)
          BY <1>3, <4>2
        <5> QED  BY <1>7, <2>1, <5>1
      <4> QED  BY <4>1, <4>2
    <3> QED  BY <1>7, <2>1, <3>1, <3>2
  <2>3. \A x \in 2 .. new : x = new \/ (x \in 2 .. Len(scope) /\ x \in 1 .. Len(scope))
    BY <1>3
  <2>4. ASSUME NEW s \in 1 .. new
        PROVE  /\ scope'[s].child \in 0 .. new
               /\ scope'[s].child # 0 => scope'[scope'[s].child].parent = s
               /\ \A x \in 2 .. new : scope'[x].parent = s => x <= scope'[s].child
    <3>1. CASE s = new
      <4>1. \A x \in 2 .. new : scope'[x].parent # new
        BY <1>3, <2>2
      <4> QED  BY <1>3, <1>8, <3>1, <4>1
    <3>2. CASE s = p
      <4>1. scope'[s].child = new
        BY <1>7, <3>2
      <4> QED  BY <1>3, <1>8, <3>2, <4>1
    <3>3. CASE s # new /\ s # p
      <4>1. s \in 1 .. Len(scope)
        BY <1>3, <3>3
      <4>2. scope'[s].child = scope[s].child
        BY <1>7, <3>3, <4>1
      <4>3. scope[s].child \in 0 .. new
        BY <1>3, <2>1, <4>1
      <4>4. ASSUME scope[s].child # 0 PROVE scope'[scope[s].child].parent = s
        <5>1. scope[s].child \in 1 .. Len(scope)
          BY <1>3, <2>1, <4>1, <4>4
        <5> QED  BY <1>7, <2>1, <4>1, <4>4, <5>1
      <4>5. ASSUME NEW x \in 2 .. new, scope'[x].parent = s PROVE x <= scope[s].child
        <5>1. x # new
          BY <1>8, <3>3, <4>5
        <5> QED  BY <1>7, <2>1, <2>3, <4>1, <4>5, <5>1
      <4> QED  BY <4>2, <4>3, <4>4, <4>5
    <3> QED  BY <3>1, <3>2, <3>3
  <2>5. ASSUME NEW s \in 2 .. new
        PROVE  /\ scope'[s].sibling \in 0 .. s - 1
               /\ scope'[s].sibling # 0 => scope'[scope'[s].sibling].parent = scope'[s].parent
               /\ \A x \in 2 .. s - 1 : scope'[x].parent = scope'[s].parent => x <= scope'[s].sibling
    <3>1. CASE s = new
      <4>1. scope'[s].sibling = scope[p].child /\ scope'[s].parent = p
        BY <1>8, <3>1
      <4>2. scope[p].child \in 0 .. s - 1 /\ s - 1 = Len(scope)
        BY <1>3, <2>1, <3>1
      <4>3. ASSUME scope[p].child # 0 PROVE scope'[scope[p].child].parent = p
        <5>1. scope[p].child \in 1 .. Len(scope)
          BY <1>3, <2>1, <4>3
        <5> QED  BY <1>7, <2>1, <4>3, <5>1
      <4>4. \A x \in 2 .. s - 1 : scope'[x].parent = p => x <= scope[p].child
        BY <1>3, <1>7, <2>1, <4>2, SMTT(60)
      <4> QED  BY <4>1, <4>2, <4>3, <4>4
    <3>2. CASE s # new
      <4>1. s \in 2 .. Len(scope) /\ s \in 1 .. Len(scope)
        BY <2>3, <3>2
      <4>2. scope'[s].sibling = scope[s].sibling /\ scope'[s].parent = scope[s].parent
        BY <1>7, <4>1
      <4>3. ASSUME scope[s].sibling # 0 PROVE scope'[scope[s].sibling].parent = scope[s].parent
        <5>1. scope[s].sibling \in 1 .. Len(scope)
          BY <1>3, <2>1, <4>1, <4>3
        <5> QED  BY <1>7, <2>1, <4>1, <4>3, <5>1
      <4>4. \A x \in 2 .. s - 1 : scope'[x].parent = scope[x].parent
        BY <1>3, <1>7, <4>1
      <4> QED  BY <2>1, <4>1, <4>2, <4>3, <4>4
    <3> QED  BY <3>1, <3>2
  <2> QED  BY <1>6, <2>2, <2>4, <2>5 DEF TreeInv, Parent, NoScope
<1>10. LocalsInv'
  <2>1. ASSUME NEW s \in 1 .. Len(scope) PROVE Places(s)' = Places(s) /\ Ancestors(s)' = Ancestors(s)
    <3>1. \A x \in 1 .. s : scope'[x].parent = scope[x].parent
      BY <1>3, <1>7
    <3>2. Ancestors(s)' = Ancestors(s)
      BY <1>3, <3>1, AncestorsStay
    <3> QED  BY <1>7, <3>2 DEF Places
  <2>2. DOMAIN scope'[new].variables = {}
    BY <1>8
  <2>3. local' = local
    BY <1>2
  <2>4. ASSUME NEW s \in 1 .. new, NEW q \in DOMAIN scope'[s].variables
        PROVE  s \in 1 .. Len(scope)
    BY <1>3, <2>2
  <2>5. ASSUME NEW s \in 1 .. new, NEW q \in DOMAIN scope'[s].variables
        PROVE  /\ scope'[s].variables[q] \in 1 .. Len(local)
               /\ local[scope'[s].variables[q]].owner \in Ancestors(s)'
               /\ \A r \in DOMAIN scope'[s].variables : scope'[s].variables[q] = scope'[s].variables[r] => q = r
    BY <1>1, <1>7, <2>1, <2>4 DEF LocalsInv, Owner, Places
  <2>6. ASSUME NEW l \in 1 .. Len(local)
        PROVE  /\ local[l].owner \in 1 .. new
               /\ \E q \in DOMAIN scope'[local[l].owner].variables : scope'[local[l].owner].variables[q] = l
    <3>1. local[l].owner \in 1 .. Len(scope) /\ local[l].owner \in 1 .. new
      BY <1>1, <1>3 DEF LocalsInv, Owner
    <3> QED  BY <1>1, <1>7, <3>1 DEF LocalsInv, Owner, Places
  <2> QED  BY <1>6, <2>3, <2>5, <2>6 DEF LocalsInv, Owner, Places
<1>11. scope' \in Seq(ScopeRecord) /\ Len(scope') > 0 /\ local' \in Seq(LocalRecord)
  BY <1>1, <1>2, <1>3, <1>6 DEF TypesInv
<1> QED  BY <1>2, <1>9, <1>10, <1>11, StillDeclaring
-----------------------------------------------------------------------------
\* Changing the variables of one scope leaves the tree as it is.
LEMMA VariablesChange ==
  ASSUME TypesInv, TreeInv, NEW s \in 1 .. Len(scope), NEW V \in Seq(Nat),
         scope' = [scope EXCEPT ![s].variables = V]
  PROVE  /\ scope' \in Seq(ScopeRecord) /\ Len(scope') = Len(scope)
         /\ TreeInv'
         /\ \A x \in 1 .. Len(scope) :
              /\ Ancestors(x)' = Ancestors(x)
              /\ scope'[x].variables = IF x = s THEN V ELSE scope[x].variables
<1>1. Len(scope) \in Nat /\ DOMAIN scope = 1 .. Len(scope)
      /\ \A x \in 1 .. Len(scope) : x \in Nat /\ scope[x] \in ScopeRecord
  BY ScopeFields
<1>2. /\ [scope[s] EXCEPT !.variables = V] \in ScopeRecord
      /\ [scope[s] EXCEPT !.variables = V].variables = V
      /\ [scope[s] EXCEPT !.variables = V].parent = scope[s].parent
      /\ [scope[s] EXCEPT !.variables = V].child = scope[s].child
      /\ [scope[s] EXCEPT !.variables = V].sibling = scope[s].sibling
  <2>1. 0 \in Nat /\ scope[s] \in ScopeRecord
    BY <1>1
  <2> QED  BY <2>1, RecordUpdates, ZenonT(60)
<1>3. scope' = [scope EXCEPT ![s] = [scope[s] EXCEPT !.variables = V]]
  BY <1>1
<1>4. scope' \in Seq(ScopeRecord) /\ Len(scope') = Len(scope)
  BY <1>2, <1>3, ExceptSeq DEF TypesInv
<1>5. \A x \in 1 .. Len(scope) :
        scope'[x] = IF x = s THEN [scope[s] EXCEPT !.variables = V] ELSE scope[x]
  BY <1>1, <1>3
<1>6. \A x \in 1 .. Len(scope) :
        /\ scope'[x].parent = scope[x].parent /\ scope'[x].child = scope[x].child
        /\ scope'[x].sibling = scope[x].sibling
        /\ scope'[x].variables = IF x = s THEN V ELSE scope[x].variables
  BY <1>2, <1>5
<1>7. \A x \in 1 .. Len(scope) : Ancestors(x)' = Ancestors(x)
  <2> TAKE x \in 1 .. Len(scope)
  <2>1. \A y \in 1 .. x : scope'[y].parent = scope[y].parent
    BY <1>1, <1>6
  <2> QED  BY <1>1, <2>1, AncestorsStay
<1>8. /\ scope[1].parent = 0
      /\ \A x \in 2 .. Len(scope) : scope[x].parent \in 1 .. x - 1
      /\ \A x \in 1 .. Len(scope) :
           /\ scope[x].child \in 0 .. Len(scope)
           /\ scope[x].child # 0 => scope[scope[x].child].parent = x
           /\ \A y \in 2 .. Len(scope) : scope[y].parent = x => y <= scope[x].child
      /\ \A x \in 2 .. Len(scope) :
           /\ scope[x].sibling \in 0 .. x - 1
           /\ scope[x].sibling # 0 => scope[scope[x].sibling].parent = scope[x].parent
           /\ \A y \in 2 .. x - 1 : scope[y].parent = scope[x].parent => y <= scope[x].sibling
  BY DEF TreeInv, Parent, NoScope
<1>9. TreeInv'
  <2>1. ASSUME NEW x \in 1 .. Len(scope)
        PROVE  /\ scope'[x].child \in 0 .. Len(scope)
               /\ scope'[x].child # 0 => scope'[scope'[x].child].parent = x
               /\ \A y \in 2 .. Len(scope) : scope'[y].parent = x => y <= scope'[x].child
    <3>1. scope[x].child # 0 => scope[x].child \in 1 .. Len(scope)
      BY <1>1, <1>8
    <3>2. \A y \in 2 .. Len(scope) : y \in 1 .. Len(scope)
      BY <1>1
    <3> QED  BY <1>6, <1>8, <3>1, <3>2
  <2>2. ASSUME NEW x \in 2 .. Len(scope)
        PROVE  /\ scope'[x].sibling \in 0 .. x - 1
               /\ scope'[x].sibling # 0 => scope'[scope'[x].sibling].parent = scope'[x].parent
               /\ \A y \in 2 .. x - 1 : scope'[y].parent = scope'[x].parent => y <= scope'[x].sibling
    <3>1. x \in 1 .. Len(scope) /\ (scope[x].sibling # 0 => scope[x].sibling \in 1 .. Len(scope))
      BY <1>1, <1>8
    <3>2. \A y \in 2 .. x - 1 : y \in 1 .. Len(scope)
      BY <1>1
    <3> QED  BY <1>6, <1>8, <3>1, <3>2
  <2>3. scope'[1].parent = 0 /\ \A x \in 2 .. Len(scope) : scope'[x].parent \in 1 .. x - 1
    <3>1. 1 \in 1 .. Len(scope) /\ \A x \in 2 .. Len(scope) : x \in 1 .. Len(scope)
      BY <1>1
    <3> QED  BY <1>6, <1>8, <3>1
  <2> QED  BY <1>4, <2>1, <2>2, <2>3 DEF TreeInv, Parent, NoScope
<1> QED  BY <1>4, <1>6, <1>7, <1>9

\* V holds what W holds, and e, each of these once.
Holds(V, W, e) ==
  /\ \A q \in 1 .. Len(V) : V[q] = e \/ \E p \in 1 .. Len(W) : V[q] = W[p]
  /\ \A p \in 1 .. Len(W) : \E q \in 1 .. Len(V) : V[q] = W[p]
  /\ \E q \in 1 .. Len(V) : V[q] = e
  /\ \A q, r \in 1 .. Len(V) : V[q] = V[r] => q = r

\* Once more local in a scope: one just made there, or one of a scope around it.
LEMMA OneMore ==
  ASSUME IInv, pc = "declaring", UNCHANGED <<pc, func, calls, free>>,
         NEW s \in 1 .. Len(scope), NEW V \in Seq(Nat), NEW e \in 1 .. Len(local'),
         scope' = [scope EXCEPT ![s].variables = V], Holds(V, scope[s].variables, e),
         local' \in Seq(LocalRecord),
         \A l \in 1 .. Len(local) : l \in 1 .. Len(local') /\ local'[l].owner = local[l].owner,
         \A l \in 1 .. Len(local') : l \in 1 .. Len(local) \/ (l = e /\ local'[e].owner = s),
         local'[e].owner \in Ancestors(s)
  PROVE  IInv'
<1> DEFINE vs == scope[s].variables
<1>1. TypesInv /\ TreeInv /\ LocalsInv
  BY DEF IInv
<1>2. /\ Len(scope) \in Nat /\ s \in Nat /\ vs \in Seq(Nat) /\ DOMAIN V = 1 .. Len(V)
      /\ DOMAIN vs = 1 .. Len(vs)
  BY <1>1, ScopeFields
<1>3. /\ scope' \in Seq(ScopeRecord) /\ Len(scope') = Len(scope) /\ TreeInv'
      /\ \A x \in 1 .. Len(scope) : /\ Ancestors(x)' = Ancestors(x)
                                    /\ scope'[x].variables = IF x = s THEN V ELSE scope[x].variables
  BY <1>1, VariablesChange
<1>4. /\ \A q \in 1 .. Len(V) : V[q] = e \/ \E p \in 1 .. Len(vs) : V[q] = vs[p]
      /\ \A p \in 1 .. Len(vs) : \E q \in 1 .. Len(V) : V[q] = vs[p]
      /\ \E q \in 1 .. Len(V) : V[q] = e
      /\ \A q, r \in 1 .. Len(V) : V[q] = V[r] => q = r
  BY DEF Holds
<1>5. \A x \in 1 .. Len(scope) : \A p \in DOMAIN scope[x].variables :
        /\ scope[x].variables[p] \in 1 .. Len(local)
        /\ local[scope[x].variables[p]].owner \in Ancestors(x)
        /\ \A q \in DOMAIN scope[x].variables : scope[x].variables[p] = scope[x].variables[q] => p = q
  BY <1>1 DEF LocalsInv, Places, Owner
<1>6. \A l \in 1 .. Len(local) :
        /\ local[l].owner \in 1 .. Len(scope)
        /\ \E p \in DOMAIN scope[local[l].owner].variables : scope[local[l].owner].variables[p] = l
  BY <1>1 DEF LocalsInv, Places, Owner
<1>7. ASSUME NEW x \in 1 .. Len(scope), NEW p \in DOMAIN scope'[x].variables
      PROVE  /\ scope'[x].variables[p] \in 1 .. Len(local')
             /\ local'[scope'[x].variables[p]].owner \in Ancestors(x)'
             /\ \A q \in DOMAIN scope'[x].variables : scope'[x].variables[p] = scope'[x].variables[q] => p = q
  <2>0. Ancestors(x)' = Ancestors(x)
    BY <1>3
  <2>1. CASE x = s
    <3>1. scope'[x].variables = V /\ p \in 1 .. Len(V)
      BY <1>2, <1>3, <1>7, <2>1
    <3>2. CASE V[p] = e
      BY <1>2, <1>4, <2>0, <2>1, <3>1, <3>2
    <3>3. CASE V[p] # e
      <4>1. PICK r \in 1 .. Len(vs) : V[p] = vs[r]
        BY <1>4, <3>1, <3>3
      <4>2. vs[r] \in 1 .. Len(local) /\ local[vs[r]].owner \in Ancestors(s)
        BY <1>2, <1>5
      <4>3. V[p] \in 1 .. Len(local') /\ local'[V[p]].owner \in Ancestors(s)
        BY <4>1, <4>2
      <4> QED  BY <1>2, <1>4, <2>0, <2>1, <3>1, <4>3, SMTT(60)
    <3> QED  BY <3>2, <3>3
  <2>2. CASE x # s
    <3>1. scope'[x].variables = scope[x].variables
      BY <1>3, <2>2
    <3>2. /\ scope[x].variables[p] \in 1 .. Len(local)
          /\ local[scope[x].variables[p]].owner \in Ancestors(x)
          /\ \A q \in DOMAIN scope[x].variables : scope[x].variables[p] = scope[x].variables[q] => p = q
      BY <1>5, <1>7, <3>1
    <3>3. /\ scope[x].variables[p] \in 1 .. Len(local')
          /\ local'[scope[x].variables[p]].owner = local[scope[x].variables[p]].owner
      BY <3>2
    <3> QED  BY <2>0, <3>1, <3>2, <3>3
  <2> QED  BY <2>1, <2>2
<1>8. ASSUME NEW l \in 1 .. Len(local')
      PROVE  /\ local'[l].owner \in 1 .. Len(scope)
             /\ \E p \in DOMAIN scope'[local'[l].owner].variables : scope'[local'[l].owner].variables[p] = l
  <2>1. CASE l \in 1 .. Len(local)
    <3>1. local'[l].owner = local[l].owner /\ local[l].owner \in 1 .. Len(scope)
      BY <1>6, <2>1
    <3>2. PICK p \in DOMAIN scope[local[l].owner].variables : scope[local[l].owner].variables[p] = l
      BY <1>6, <2>1
    <3>3. CASE local[l].owner = s
      <4>1. scope'[s].variables = V
        BY <1>3
      <4>2. PICK q \in 1 .. Len(V) : V[q] = l
        <5>1. p \in 1 .. Len(vs) /\ vs[p] = l
          BY <1>2, <3>2, <3>3
        <5> HIDE DEF vs
        <5> QED  BY <1>4, <5>1
      <4> QED  BY <1>2, <3>1, <3>3, <4>1, <4>2
    <3>4. CASE local[l].owner # s
      <4>1. scope'[local[l].owner].variables = scope[local[l].owner].variables
        BY <1>3, <3>1, <3>4
      <4> QED  BY <3>1, <3>2, <4>1
    <3> QED  BY <3>3, <3>4
  <2>2. CASE l = e /\ local'[e].owner = s
    <3>1. scope'[s].variables = V
      BY <1>3
    <3>2. PICK q \in 1 .. Len(V) : V[q] = e
      BY <1>4
    <3> QED  BY <1>2, <2>2, <3>1, <3>2
  <2> QED  BY <2>1, <2>2
<1>9. LocalsInv'
  <2>1. ASSUME NEW x \in 1 .. Len(scope'), NEW p \in DOMAIN scope'[x].variables
        PROVE  /\ scope'[x].variables[p] \in 1 .. Len(local')
               /\ local'[scope'[x].variables[p]].owner \in Ancestors(x)'
               /\ \A q \in DOMAIN scope'[x].variables : scope'[x].variables[p] = scope'[x].variables[q] => p = q
    BY <1>3, <1>7
  <2>2. ASSUME NEW l \in 1 .. Len(local')
        PROVE  /\ local'[l].owner \in 1 .. Len(scope')
               /\ \E p \in DOMAIN scope'[local'[l].owner].variables : scope'[local'[l].owner].variables[p] = l
    BY <1>3, <1>8
  <2> QED  BY <2>1, <2>2 DEF LocalsInv, Places, Owner
<1>10. Len(scope') > 0
  BY <1>1, <1>3 DEF TypesInv
<1> QED  BY <1>3, <1>9, <1>10, StillDeclaring

\* What stands where when something is put in at place i.
LEMMA Inserted ==
  ASSUME NEW W \in Seq(Nat), NEW i \in 1 .. Len(W) + 1, NEW e \in Nat,
         \A p \in 1 .. Len(W) : W[p] # e,
         \A p, q \in 1 .. Len(W) : W[p] = W[q] => p = q
  PROVE  InsertAt(W, i, e) \in Seq(Nat) /\ Holds(InsertAt(W, i, e), W, e)
<1> DEFINE n == Len(W)
           A == SubSeq(W, 1, i - 1)
           B == SubSeq(W, i, n)
           V == InsertAt(W, i, e)
<1>1. n \in Nat /\ i \in Int /\ 1 <= i /\ i <= n + 1 /\ \A p \in 1 .. n : W[p] \in Nat
  OBVIOUS
<1>2. A \in Seq(Nat) /\ Len(A) = i - 1 /\ \A p \in 1 .. i - 1 : A[p] = W[p]
  <2>1. \A p \in 1 .. i - 1 : W[p] \in Nat
    BY <1>1
  <2>2. 1 \in Int /\ i - 1 \in Int
    BY <1>1
  <2>3. /\ A \in Seq(Nat) /\ Len(A) = IF 1 <= i - 1 THEN i - 1 - 1 + 1 ELSE 0
        /\ \A p \in 1 .. i - 1 - 1 + 1 : A[p] = W[1 + p - 1]
    BY <2>1, <2>2, SubSeqProperties
  <2> HIDE DEF A, n
  <2>4. \A p \in 1 .. i - 1 : 1 + p - 1 = p
    OBVIOUS
  <2> QED  BY <1>1, <2>3, <2>4
<1>3. B \in Seq(Nat) /\ Len(B) = n + 1 - i /\ \A p \in 1 .. n + 1 - i : B[p] = W[i + p - 1]
  <2>1. \A p \in i .. n : W[p] \in Nat
    BY <1>1
  <2>2. /\ B \in Seq(Nat) /\ Len(B) = IF i <= n THEN n - i + 1 ELSE 0
        /\ \A p \in 1 .. n - i + 1 : B[p] = W[i + p - 1]
    BY <1>1, <2>1, SubSeqProperties
  <2> HIDE DEF B, n
  <2> QED  BY <1>1, <2>2
<1> HIDE DEF A, B, n
<1>4. /\ <<e>> \in Seq(Nat) /\ Len(<<e>>) = 1 /\ <<e>>[1] = e
  OBVIOUS
<1>5. /\ A \o <<e>> \in Seq(Nat) /\ Len(A \o <<e>>) = i
      /\ \A p \in 1 .. i : (A \o <<e>>)[p] = IF p <= i - 1 THEN A[p] ELSE <<e>>[p - (i - 1)]
  BY <1>1, <1>2, <1>4, ConcatProperties
<1> DEFINE C == A \o <<e>>
<1> HIDE DEF C
<1>6. /\ C \in Seq(Nat) /\ Len(C) = i
      /\ \A p \in 1 .. i : C[p] = IF p <= i - 1 THEN A[p] ELSE <<e>>[p - (i - 1)]
  BY <1>5 DEF C
<1>8. V = C \o B
  BY DEF C, A, B, n, InsertAt
<1> HIDE DEF V
<1>7. /\ V \in Seq(Nat) /\ Len(V) = n + 1
      /\ \A p \in 1 .. n + 1 : V[p] = IF p <= i THEN C[p] ELSE B[p - i]
  <2>1. /\ C \o B \in Seq(Nat) /\ Len(C \o B) = Len(C) + Len(B)
        /\ \A p \in 1 .. Len(C) + Len(B) : (C \o B)[p] = IF p <= Len(C) THEN C[p] ELSE B[p - Len(C)]
    <3>1. C \in Seq(Nat) /\ B \in Seq(Nat)
      BY <1>3, <1>6
    <3> QED  BY <3>1, ConcatProperties
  <2>2. Len(C) + Len(B) = n + 1 /\ Len(C) = i
    BY <1>1, <1>3, <1>6
  <2> QED  BY <1>8, <2>1, <2>2
<1>9. V \in Seq(Nat) /\ Len(V) = n + 1
  BY <1>7
<1>10. V[i] = e
  BY <1>1, <1>4, <1>6, <1>7
<1>11. ASSUME NEW p \in 1 .. n, p < i PROVE p \in 1 .. n + 1 /\ V[p] = W[p]
  <2>1. p <= i - 1 /\ p <= i /\ p \in 1 .. i - 1 /\ p \in 1 .. i /\ p \in 1 .. n + 1
    BY <1>1, <1>11
  <2> QED  BY <1>2, <1>6, <1>7, <2>1
<1>12. ASSUME NEW p \in 1 .. n, p >= i PROVE p + 1 \in 1 .. n + 1 /\ V[p + 1] = W[p]
  <2>1. /\ p + 1 \in 1 .. n + 1 /\ ~ (p + 1 <= i) /\ p + 1 - i \in 1 .. n + 1 - i
        /\ i + (p + 1 - i) - 1 = p
    BY <1>1, <1>12
  <2>2. V[p + 1] = B[p + 1 - i]
    BY <1>7, <2>1
  <2>3. B[p + 1 - i] = W[i + (p + 1 - i) - 1]
    BY <1>3, <2>1
  <2> QED  BY <2>1, <2>2, <2>3
<1>13. \A q \in 1 .. n + 1 : q < i => q \in 1 .. n /\ V[q] = W[q]
  BY <1>1, <1>11
<1>14. ASSUME NEW q \in 1 .. n + 1, q > i PROVE q - 1 \in 1 .. n /\ V[q] = W[q - 1]
  <2>1. q - 1 \in 1 .. n /\ q - 1 >= i /\ (q - 1) + 1 = q
    BY <1>1, <1>14
  <2> QED  BY <1>12, <2>1
<1>15. \A q, r \in 1 .. n + 1 : V[q] = V[r] => q = r
  <2> SUFFICES ASSUME NEW q \in 1 .. n + 1, NEW r \in 1 .. n + 1, V[q] = V[r] PROVE q = r
    OBVIOUS
  <2>0. /\ \A p \in 1 .. n : W[p] # e
        /\ \A p, t \in 1 .. n : W[p] = W[t] => p = t
    BY DEF n
  <2>1. CASE q = i
    BY <1>1, <1>10, <1>13, <1>14, <2>0, <2>1
  <2>2. CASE r = i
    BY <1>1, <1>10, <1>13, <1>14, <2>0, <2>2
  <2>3. CASE q < i /\ r < i
    BY <1>13, <2>0, <2>3
  <2>4. CASE q < i /\ r > i
    <3>1. q = r - 1
      BY <1>13, <1>14, <2>0, <2>4
    <3> QED  BY <1>1, <2>4, <3>1
  <2>5. CASE q > i /\ r < i
    <3>1. r = q - 1
      BY <1>13, <1>14, <2>0, <2>5
    <3> QED  BY <1>1, <2>5, <3>1
  <2>6. CASE q > i /\ r > i
    <3>1. q - 1 = r - 1
      BY <1>14, <2>0, <2>6
    <3> QED  BY <1>1, <3>1
  <2> QED  BY <1>1, <2>1, <2>2, <2>3, <2>4, <2>5, <2>6
<1>16. ASSUME NEW q \in 1 .. n + 1 PROVE V[q] = e \/ \E p \in 1 .. n : V[q] = W[p]
  BY <1>1, <1>10, <1>13, <1>14
<1>17. ASSUME NEW p \in 1 .. n PROVE \E q \in 1 .. n + 1 : V[q] = W[p]
  BY <1>1, <1>11, <1>12
<1>18. i \in 1 .. n + 1
  BY <1>1
<1>19. Holds(V, W, e)
  BY <1>9, <1>10, <1>15, <1>16, <1>17, <1>18 DEF Holds, n
<1> QED  BY <1>9, <1>19 DEF V

LEMMA Appended ==
  ASSUME NEW W \in Seq(Nat), NEW e \in Nat, \A p \in 1 .. Len(W) : W[p] # e,
         \A p, q \in 1 .. Len(W) : W[p] = W[q] => p = q
  PROVE  Append(W, e) \in Seq(Nat) /\ Holds(Append(W, e), W, e)
<1> DEFINE V == Append(W, e)
           n == Len(W)
<1>1. /\ n \in Nat /\ V \in Seq(Nat) /\ Len(V) = n + 1 /\ V[n + 1] = e
      /\ \A p \in 1 .. n : V[p] = W[p]
  BY AppendProperties
<1> HIDE DEF V
<1> QED  BY <1>1 DEF Holds, V

LEMMA Declaring ==
  ASSUME IInv, pc = "declaring", UNCHANGED <<pc, func, calls, free>>,
         NEW s \in 1 .. Len(scope), NEW name \in Names, NEW V \in Seq(Nat),
         Holds(V, scope[s].variables, Len(local) + 1),
         local' = Append(local, [local_var_new(name) EXCEPT !.owner = s]),
         scope' = [scope EXCEPT ![s].variables = V]
  PROVE  IInv'
<1> DEFINE new == Len(local) + 1
           record == [local_var_new(name) EXCEPT !.owner = s]
<1>1. TypesInv /\ TreeInv /\ Len(local) \in Nat /\ s \in Nat /\ local \in Seq(LocalRecord)
  BY ScopeFields, LocalFields DEF IInv, TypesInv
<1>2. record \in LocalRecord /\ record.owner = s
  <2>1. record = [name |-> name, owner |-> s, index |-> NoIndex]
    BY SMTT(60) DEF local_var_new
  <2>2. NoIndex \in Int
    BY DEF NoIndex
  <2> HIDE DEF record
  <2> QED  BY <1>1, <2>1, <2>2 DEF LocalRecord
<1> HIDE DEF record
<1>3. /\ local' \in Seq(LocalRecord) /\ Len(local') = new /\ local'[new] = record
      /\ \A l \in 1 .. Len(local) : local'[l] = local[l]
  <2>1. local' = Append(local, record)
    BY DEF record
  <2> QED  BY <1>1, <1>2, <2>1, AppendProperties
<1>4. /\ new \in 1 .. Len(local')
      /\ \A l \in 1 .. Len(local) : l \in 1 .. Len(local') /\ local'[l].owner = local[l].owner
      /\ \A l \in 1 .. Len(local') : l \in 1 .. Len(local) \/ (l = new /\ local'[new].owner = s)
      /\ local'[new].owner \in Ancestors(s)
  <2>1. s \in Ancestors(s)
    BY <1>1, AncestorsAre
  <2>2. Len(local') = new /\ new = Len(local) + 1 /\ Len(local) \in Nat
    BY <1>1, <1>3
  <2> HIDE DEF new
  <2> QED  BY <1>2, <1>3, <2>1, <2>2
<1> QED  BY <1>3, <1>4, OneMore

\* The variables of a scope are numbers of locals made, each once.
LEMMA VariablesAre ==
  ASSUME TypesInv, LocalsInv, NEW s \in 1 .. Len(scope)
  PROVE  /\ scope[s].variables \in Seq(Nat) /\ Len(local) + 1 \in Nat
         /\ \A p \in 1 .. Len(scope[s].variables) : scope[s].variables[p] # Len(local) + 1
         /\ \A p, q \in 1 .. Len(scope[s].variables) :
              scope[s].variables[p] = scope[s].variables[q] => p = q
<1>1. /\ scope[s].variables \in Seq(Nat) /\ Len(local) \in Nat
      /\ Places(s) = 1 .. Len(scope[s].variables)
  BY ScopeFields, LocalFields
<1>2. \A p \in 1 .. Len(scope[s].variables) :
        /\ scope[s].variables[p] \in 1 .. Len(local)
        /\ \A q \in 1 .. Len(scope[s].variables) : scope[s].variables[p] = scope[s].variables[q] => p = q
  BY <1>1 DEF LocalsInv
<1>3. ASSUME NEW p \in 1 .. Len(scope[s].variables) PROVE scope[s].variables[p] # Len(local) + 1
  <2>1. scope[s].variables[p] \in 1 .. Len(local)
    BY <1>2
  <2> QED  BY <1>1, <2>1
<1> QED  BY <1>1, <1>2, <1>3

LEMMA DeclareStep ==
  ASSUME IInv, NEW s \in 1 .. Len(scope), NEW name \in Names, Declare(s, name)
  PROVE  IInv'
<1>1. TypesInv /\ LocalsInv
  BY DEF IInv
<1> DEFINE V == Append(scope[s].variables, Len(local) + 1)
<1>2. V \in Seq(Nat) /\ Holds(V, scope[s].variables, Len(local) + 1)
  BY <1>1, VariablesAre, Appended
<1>3. scope' = [scope EXCEPT ![s].variables = V]
  BY DEF Declare
<1> HIDE DEF V
<1> QED  BY <1>2, <1>3, Declaring DEF Declare

LEMMA InsertStep ==
  ASSUME IInv, NEW s \in 1 .. Len(scope), NEW name \in Names,
         NEW i \in 1 .. Len(scope[s].variables) + 1, local_scope_insert_param(s, i, name)
  PROVE  IInv'
<1>1. TypesInv /\ LocalsInv
  BY DEF IInv
<1> DEFINE V == InsertAt(scope[s].variables, i, Len(local) + 1)
<1>2. V \in Seq(Nat) /\ Holds(V, scope[s].variables, Len(local) + 1)
  BY <1>1, VariablesAre, Inserted
<1>3. scope' = [scope EXCEPT ![s].variables = V]
  BY DEF local_scope_insert_param
<1> HIDE DEF V
<1> QED  BY <1>2, <1>3, Declaring DEF local_scope_insert_param

\* A name found is that of a local in the scope.
LEMMA LocalLookup ==
  ASSUME TypesInv, LocalsInv, NEW s \in 1 .. Len(scope), NEW name
  PROVE  /\ Matches(s, name) # {} => local_scope_local_lookup(s, name) # NoLocal
         /\ local_scope_local_lookup(s, name) # NoLocal =>
              \E p \in Places(s) : local_scope_local_lookup(s, name) = scope[s].variables[p]
<1>1. Places(s) \subseteq Nat
  BY ScopeFields
<1>2. Matches(s, name) \subseteq Places(s)
  BY DEF Matches
<1>3. ASSUME Matches(s, name) # {}
      PROVE  \E p \in Places(s) : /\ local_scope_local_lookup(s, name) = scope[s].variables[p]
                                  /\ scope[s].variables[p] # NoLocal
  <2>1. Least(Matches(s, name)) \in Places(s)
    BY <1>1, <1>2, <1>3, LeastIn
  <2>2. scope[s].variables[Least(Matches(s, name))] # NoLocal
    BY <2>1, LocalFields DEF LocalsInv, NoLocal
  <2> QED  BY <1>3, <2>1, <2>2 DEF local_scope_local_lookup
<1> QED  BY <1>3 DEF local_scope_local_lookup

LEMMA CaptureStep ==
  ASSUME IInv, NEW s \in 1 .. Len(scope), NEW name \in Names, Capture(s, name)
  PROVE  IInv'
<1>1. TypesInv /\ TreeInv /\ LocalsInv
  BY DEF IInv
<1> DEFINE found == local_scope_lookup(s, name)
           holders == {a \in Ancestors(s) : local_scope_local_lookup(a, name) # NoLocal}
           g == Greatest(holders)
           V == Append(scope[s].variables, found)
<1>2. /\ pc = "declaring" /\ found # NoLocal /\ scope' = [scope EXCEPT ![s].variables = V]
      /\ local_scope_local_lookup(s, local[found].name) = NoLocal
      /\ UNCHANGED <<pc, local, func, calls, free>>
  BY DEF Capture
<1>3. g \in Ancestors(s) /\ found = local_scope_local_lookup(g, name)
  <2>1. holders # {} /\ found = local_scope_local_lookup(g, name)
    BY <1>2 DEF local_scope_lookup
  <2>2. holders \subseteq 1 .. s /\ s \in Nat
    BY <1>1, AncestorsAre, ScopeFields
  <2> HIDE DEF holders
  <2>3. g \in holders
    BY <2>1, <2>2, GreatestIn
  <2> QED  BY <2>1, <2>3 DEF holders
<1> HIDE DEF found, holders, g
<1>4. g \in 1 .. Len(scope)
  <2>1. s \in Nat /\ Len(scope) \in Nat /\ g \in 1 .. s
    BY <1>1, <1>3, AncestorsAre, ScopeFields
  <2> QED  BY <2>1
<1>5. PICK p \in Places(g) : found = scope[g].variables[p]
  BY <1>1, <1>2, <1>3, <1>4, LocalLookup
<1>6. found \in 1 .. Len(local) /\ local[found].owner \in Ancestors(g)
  BY <1>1, <1>4, <1>5 DEF LocalsInv, Owner
<1>7. local[found].owner \in Ancestors(s)
  BY <1>1, <1>3, <1>6, AncestorsTransitive
<1>8. ASSUME NEW q \in 1 .. Len(scope[s].variables), scope[s].variables[q] = found PROVE FALSE
  <2>1. q \in Places(s)
    BY <1>1, ScopeFields
  <2>2. IsPrefix(local[found].name, local[found].name)
    <3>1. local[found].name \in Names
      BY <1>1, <1>6, LocalFields
    <3>2. Len(local[found].name) \in Nat
      BY <3>1, ScopeAssumption
    <3> QED  BY <3>2 DEF IsPrefix
  <2>3. q \in Matches(s, local[found].name)
    BY <1>8, <2>1, <2>2 DEF Matches
  <2> QED  BY <1>1, <1>2, <2>3, LocalLookup
<1>9. V \in Seq(Nat) /\ Holds(V, scope[s].variables, found)
  <2>1. found \in Nat
    BY <1>1, <1>6, LocalFields
  <2> QED  BY <1>1, <1>8, <2>1, VariablesAre, Appended
<1>10. /\ found \in 1 .. Len(local') /\ local' \in Seq(LocalRecord)
       /\ \A l \in 1 .. Len(local) : l \in 1 .. Len(local') /\ local'[l].owner = local[l].owner
       /\ \A l \in 1 .. Len(local') : l \in 1 .. Len(local) \/ (l = found /\ local'[found].owner = s)
       /\ local'[found].owner \in Ancestors(s)
  BY <1>1, <1>2, <1>6, <1>7 DEF TypesInv
<1> HIDE DEF V
<1> QED  BY <1>2, <1>9, <1>10, OneMore
-----------------------------------------------------------------------------
\* Giving out slots changes neither scopes nor who owns which local.
LEMMA ScopesKept ==
  ASSUME TreeInv, LocalsInv, UNCHANGED scope, Len(local') = Len(local),
         \A l \in 1 .. Len(local) : Owner(l)' = Owner(l)
  PROVE  TreeInv' /\ LocalsInv'
<1>1. TreeInv'
  BY DEF TreeInv, Parent
<1>2. /\ \A s : Places(s)' = Places(s)
      /\ \A s : Ancestors(s)' = Ancestors(s)
  BY DEF Places, Ancestors
<1>3. ASSUME NEW s \in 1 .. Len(scope), NEW p \in DOMAIN scope[s].variables
      PROVE  /\ scope[s].variables[p] \in 1 .. Len(local)
             /\ local'[scope[s].variables[p]].owner \in Ancestors(s)'
             /\ \A q \in DOMAIN scope[s].variables : scope[s].variables[p] = scope[s].variables[q] => p = q
  <2>1. /\ scope[s].variables[p] \in 1 .. Len(local)
        /\ Owner(scope[s].variables[p]) \in Ancestors(s)
        /\ \A q \in DOMAIN scope[s].variables : scope[s].variables[p] = scope[s].variables[q] => p = q
    BY DEF LocalsInv, Places
  <2>2. local'[scope[s].variables[p]].owner = Owner(scope[s].variables[p])
    BY <2>1 DEF Owner
  <2> QED  BY <1>2, <2>1, <2>2
<1>4. ASSUME NEW l \in 1 .. Len(local)
      PROVE  /\ local'[l].owner \in 1 .. Len(scope)
             /\ \E p \in DOMAIN scope[local'[l].owner].variables : scope[local'[l].owner].variables[p] = l
  <2>1. /\ Owner(l) \in 1 .. Len(scope)
        /\ \E p \in DOMAIN scope[Owner(l)].variables : scope[Owner(l)].variables[p] = l
    BY DEF LocalsInv, Places
  <2>2. local'[l].owner = Owner(l)
    BY DEF Owner
  <2> QED  BY <2>1, <2>2
<1>5. LocalsInv'
  BY <1>3, <1>4 DEF LocalsInv, Places, Owner
<1> QED  BY <1>1, <1>5

LEMMA AllocStep ==
  ASSUME IInv, NEW n \in 0 .. MaxLocals, func_alloc_variables(n)
  PROVE  IInv'
<1>1. /\ TypesInv /\ TreeInv /\ LocalsInv /\ DOMAIN free = {}
      /\ func \in [num_params : Nat, num_stack_locals : Int]
  BY DEF IInv, FrameInv, TypesInv, func_alloc_variables
<1>2. /\ n \in Nat /\ n <= Len(scope[1].variables) /\ pc' = "allocating" /\ UNCHANGED scope
      /\ func' = [func EXCEPT !.num_params = n]
      /\ Enter(1, kParamEndSlotFromFp + n, n, kFirstLocalSlotFromFp, <<>>)
  BY ScopeAssumption DEF func_alloc_variables
<1>3. /\ 1 \in 1 .. Len(scope) /\ 1 \notin DOMAIN free /\ kParamEndSlotFromFp + n \in Int
      /\ kFirstLocalSlotFromFp \in Int /\ kFirstLocalSlotFromFp <= kFirstLocalSlotFromFp
      /\ <<>> \in Seq(CallRecord) /\ Len(<<>>) = 0
  BY <1>1, <1>2 DEF TypesInv, kParamEndSlotFromFp, kFirstLocalSlotFromFp
<1> DEFINE Sl == {i \in Int : free'[1] < i /\ i <= kFirstLocalSlotFromFp} \cup (2 .. n + 1)
<1>4. /\ local' \in Seq(LocalRecord) /\ Len(local') = Len(local)
      /\ \A l \in 1 .. Len(local) : Owner(l)' = Owner(l)
      /\ DOMAIN free' = {1} /\ free'[1] \in Int /\ free'[1] <= kFirstLocalSlotFromFp
      /\ calls' \in Seq(CallRecord) /\ Len(calls') = 1
      /\ calls'[1] = [scope |-> 1, frame_index |-> free'[1],
                      min_frame_index |-> free'[1], child |-> scope[1].child]
      /\ \A l \in 1 .. Len(local) : Owner(l) = 1 =>
           /\ local'[l].index \in Sl
           /\ \A m \in 1 .. Len(local) : Owner(m) = 1 /\ local'[l].index = local'[m].index => l = m
  <2> DEFINE first_param == kParamEndSlotFromFp + n
             callers == <<>>
  <2>1. /\ first_param \in Int /\ (n > 0 => first_param = kParamEndSlotFromFp + n)
        /\ callers \in Seq(CallRecord) /\ Len(callers) = 0
        /\ Enter(1, first_param, n, kFirstLocalSlotFromFp, callers)
    BY <1>2, <1>3
  <2> HIDE DEF first_param, callers
  <2>2. Entered(1, n, kFirstLocalSlotFromFp, callers)
    BY <1>1, <1>2, <1>3, <2>1, Entering
  <2>3. Len(calls') = 1 /\ DOMAIN free' = {1}
    BY <1>1, <2>1, <2>2 DEF Entered
  <2> QED  BY <2>2, <2>3 DEF Entered
<1>5. TreeInv' /\ LocalsInv'
  BY <1>1, <1>2, <1>4, ScopesKept
<1>6. func' \in [num_params : Nat, num_stack_locals : Int] /\ func'.num_params = n
  BY <1>1, <1>2
<1>7. TypesInv'
  BY <1>1, <1>2, <1>4, <1>6 DEF TypesInv
<1>8. /\ Start(1)' = kFirstLocalSlotFromFp
      /\ StackSlots(1)' \cup ParamSlots(1)' = Sl
  BY <1>6 DEF Start, StackSlots, ParamSlots
<1>9. FrameInv'
  <2>1. \A l \in 1 .. Len(local') : local'[l].owner = 1 =>
           /\ local'[l].index \in StackSlots(1)' \cup ParamSlots(1)'
           /\ \A m \in 1 .. Len(local') : local'[m].owner = 1 /\ local'[l].index = local'[m].index => l = m
    <3>1. \A l \in 1 .. Len(local) : local'[l].owner = Owner(l)
      BY <1>4 DEF Owner
    <3> HIDE DEF Sl
    <3> QED  BY <1>4, <1>8, <3>1
  <2>2. pc' # "declaring" /\ 1 \in DOMAIN free'
    BY <1>2, <1>4
  <2>3. free'[1] <= Start(1)' /\ Start(1)' <= kFirstLocalSlotFromFp
    BY <1>3, <1>4, <1>8
  <2> QED  BY <1>4, <2>1, <2>2, <2>3 DEF FrameInv, Owner
<1>10. CallsInv'
  <2>1. /\ calls'[1].scope = 1 /\ calls'[1].frame_index = free'[1] /\ calls'[1].child = scope[1].child
    BY <1>4
  <2>2. /\ scope[1].child \in 0 .. Len(scope)
        /\ scope[1].child # NoScope => Parent(scope[1].child) = 1
        /\ \A s \in 2 .. Len(scope) : Parent(s) = 1 => s <= scope[1].child
    BY <1>1, <1>3 DEF TreeInv
  <2>3. Len(scope) \in Nat /\ \A s : Parent(s)' = Parent(s)
    BY <1>1, <1>2 DEF TypesInv, Parent
  <2>4. ASSUME NEW s \in 2 .. Len(scope), Parent(s) = 1 PROVE s \notin DOMAIN free' /\ ~ (s > scope[1].child)
    BY <1>4, <2>2, <2>3, <2>4
  <2>5. CallAt(1)'
    BY <1>2, <1>4, <2>1, <2>2, <2>3 DEF CallAt
  <2>6. Within(1)'
    BY <1>4 DEF Within
  <2>7. Visited(1)'
    BY <1>2, <1>4, <2>1, <2>3, <2>4 DEF Visited
  <2> QED  BY <1>2, <1>4, <2>1, <2>3, <2>5, <2>6, <2>7 DEF CallsInv
<1>11. MinInv'
  <2>1. calls'[1].min_frame_index <= free'[1]
    BY <1>4
  <2> QED  BY <1>2, <1>4, <2>1 DEF MinInv
<1> QED  BY <1>5, <1>7, <1>9, <1>10, <1>11 DEF IInv

\* The call that runs goes on to a scope that has not been visited, and whose
\* locals start where its own end.
LEMMA ChildStep ==
  ASSUME IInv, alloc_child
  PROVE  IInv'
<1> DEFINE K == Len(calls)
           c == calls[K].child
<1>1. TypesInv /\ TreeInv /\ LocalsInv /\ FrameInv /\ CallsInv /\ MinInv
  BY DEF IInv
<1>2. /\ calls \in Seq(CallRecord) /\ K \in Nat /\ K > 0 /\ Last(calls) = calls[K]
      /\ Len(scope) \in Nat /\ Len(local) \in Nat
  <2>1. calls \in Seq(CallRecord) /\ calls # <<>> /\ Last(calls) = calls[Len(calls)]
    BY <1>1 DEF TypesInv, alloc_child, Last
  <2> QED  BY <1>1, <2>1, LocalFields DEF TypesInv
<1>3. /\ c # NoScope /\ Enter(c, 0, 0, free[Parent(c)], calls) /\ UNCHANGED <<pc, scope, func>>
      /\ c \in 0 .. Len(scope) /\ Parent(c) = calls[K].scope /\ calls[K].scope \in DOMAIN free
  BY <1>1, <1>2 DEF alloc_child, ChildStart, CallsInv, CallAt
<1>4. pc = "allocating" /\ pc' = "allocating" /\ func \in [num_params : Nat, num_stack_locals : Int]
  BY <1>1, <1>2, <1>3 DEF CallsInv, TypesInv
<1>5. c \in 2 .. Len(scope) /\ Parent(c) \in 1 .. c - 1
  <2>1. c # 1
    BY <1>1, <1>3 DEF TreeInv, TypesInv, NoScope
  <2>2. c \in 2 .. Len(scope)
    BY <1>2, <1>3, <2>1 DEF NoScope
  <2> QED  BY <1>1, <2>2 DEF TreeInv
<1>6. c \notin DOMAIN free
  <2>1. K \in 1 .. Len(calls) /\ ~ (K < Len(calls)) /\ c \in Int /\ ~ (c > c)
    BY <1>2, <1>5
  <2> QED  BY <1>1, <1>3, <1>5, <2>1 DEF CallsInv, Visited
<1> HIDE DEF c
<1>7. /\ free[Parent(c)] \in Int /\ free[Parent(c)] <= kFirstLocalSlotFromFp
      /\ Parent(c) \in DOMAIN free
  <2>1. Parent(c) \in DOMAIN free /\ free[Parent(c)] \in Int
    BY <1>1, <1>3 DEF TypesInv
  <2>2. /\ free[Parent(c)] <= Start(Parent(c)) /\ Start(Parent(c)) <= kFirstLocalSlotFromFp
    BY <1>1, <2>1 DEF FrameInv
  <2>3. Parent(c) # 1 => Parent(Parent(c)) \in DOMAIN free
    BY <1>1, <2>1 DEF FrameInv
  <2>4. Start(Parent(c)) \in Int
    BY <1>1, <2>1, <2>3 DEF Start, TypesInv, kFirstLocalSlotFromFp
  <2> QED  BY <2>1, <2>2, <2>4 DEF kFirstLocalSlotFromFp
<1>8. Entered(c, 0, free[Parent(c)], calls)
  <2>1. c \in 1 .. Len(scope) /\ 0 \in Nat /\ 0 \in Int
    BY <1>5
  <2>2. 0 <= Len(scope[c].variables)
    BY <1>1, <2>1, ScopeFields
  <2>3. 0 > 0 => 0 = kParamEndSlotFromFp + 0
    OBVIOUS
  <2> QED  BY <1>1, <1>2, <1>3, <1>6, <1>7, <2>1, <2>2, <2>3, Entering
<1>9. /\ local' \in Seq(LocalRecord) /\ Len(local') = Len(local)
      /\ \A l \in 1 .. Len(local) : Owner(l)' = Owner(l) /\ (Owner(l) # c => local'[l] = local[l])
      /\ DOMAIN free' = DOMAIN free \cup {c} /\ \A x \in DOMAIN free : free'[x] = free[x]
      /\ free'[c] \in Int /\ free'[c] <= free[Parent(c)]
      /\ calls' \in Seq(CallRecord) /\ Len(calls') = K + 1
      /\ \A k \in 1 .. K : calls'[k] = calls[k]
  BY <1>8 DEF Entered
<1>10. /\ calls'[K + 1].scope = c /\ calls'[K + 1].frame_index = free'[c]
       /\ calls'[K + 1].min_frame_index = free'[c] /\ calls'[K + 1].child = scope[c].child
  BY <1>8, <1>9 DEF Entered
<1>11. \A l \in 1 .. Len(local) : Owner(l) = c =>
         /\ local'[l].index \in {i \in Int : free'[c] < i /\ i <= free[Parent(c)]}
         /\ \A m \in 1 .. Len(local) : Owner(m) = c /\ local'[l].index = local'[m].index => l = m
  <2>1. 2 .. 0 + 1 = {}
    OBVIOUS
  <2> QED  BY <1>8, <2>1 DEF Entered
<1>12. TreeInv' /\ LocalsInv'
  BY <1>1, <1>3, <1>9, ScopesKept
<1>13. TypesInv'
  <2>1. c \in 1 .. Len(scope)
    BY <1>5
  <2> QED  BY <1>1, <1>3, <1>4, <1>9, <2>1 DEF TypesInv
<1>14. \A s : Parent(s)' = Parent(s)
  BY <1>3 DEF Parent
<1>15. FrameInv'
  <2>1. ASSUME NEW s \in DOMAIN free'
        PROVE  /\ s # 1 => Parent(s) \in DOMAIN free'
               /\ free'[s] <= Start(s)' /\ Start(s)' <= kFirstLocalSlotFromFp
               /\ \A l \in 1 .. Len(local) : Owner(l) = s =>
                    /\ local'[l].index \in StackSlots(s)' \cup ParamSlots(s)'
                    /\ \A m \in 1 .. Len(local) : Owner(m) = s /\ local'[l].index = local'[m].index => l = m
    <3>1. CASE s = c
      <4>1. Start(s)' = free[Parent(c)]
        <5>1. Start(s)' = free'[Parent(c)]
          BY <1>5, <1>14, <3>1 DEF Start
        <5> QED  BY <1>7, <1>9, <5>1
      <4>2. StackSlots(s)' = {i \in Int : free'[c] < i /\ i <= free[Parent(c)]}
        BY <3>1, <4>1 DEF StackSlots
      <4> QED  BY <1>7, <1>9, <1>11, <3>1, <4>1, <4>2
    <3>2. CASE s # c
      <4>1. s \in DOMAIN free /\ free'[s] = free[s]
        BY <1>9, <3>2
      <4>2. /\ s # 1 => Parent(s) \in DOMAIN free
            /\ free[s] <= Start(s) /\ Start(s) <= kFirstLocalSlotFromFp
            /\ \A l \in 1 .. Len(local) : Owner(l) = s =>
                 /\ local[l].index \in StackSlots(s) \cup ParamSlots(s)
                 /\ \A m \in 1 .. Len(local) : Owner(m) = s /\ local[l].index = local[m].index => l = m
        BY <1>1, <4>1 DEF FrameInv
      <4>3. Start(s)' = Start(s)
        <5>1. s # 1 => free'[Parent(s)] = free[Parent(s)]
          BY <1>9, <4>2
        <5> QED  BY <1>14, <5>1 DEF Start
      <4>4. StackSlots(s)' = StackSlots(s) /\ ParamSlots(s)' = ParamSlots(s)
        BY <1>3, <4>1, <4>3 DEF StackSlots, ParamSlots
      <4>5. \A l \in 1 .. Len(local) : Owner(l) = s => local'[l] = local[l]
        BY <1>9, <3>2
      <4> QED  BY <1>9, <4>1, <4>2, <4>3, <4>4, <4>5
    <3> QED  BY <3>1, <3>2
  <2>2. \A l \in 1 .. Len(local) : Owner(l)' = Owner(l)
    BY <1>9
  <2>3. pc' # "declaring" /\ 1 \in DOMAIN free'
    BY <1>1, <1>4, <1>9 DEF FrameInv
  <2> QED  BY <1>9, <1>14, <2>1, <2>2, <2>3 DEF FrameInv
<1>16. CallsInv'
  <2>1. \A k \in 1 .. K : CallAt(k) /\ Within(k) /\ Visited(k)
    BY <1>1 DEF CallsInv
  <2>2. calls[K].child = c /\ calls[K].scope = Parent(c) /\ K \in 1 .. K
    BY <1>2, <1>3 DEF c
  <2>3. \A k \in 1 .. K : k < K + 1 /\ calls'[k] = calls[k] /\ calls[k].scope \in DOMAIN free
                          /\ calls[k].scope \in Nat
    BY <1>1, <1>2, <1>9, <2>1, SMTT(60) DEF CallAt, TypesInv
  <2>4. \A k \in 1 .. K : k = K \/ (k < K /\ k \in 1 .. K - 1 /\ k + 1 \in 1 .. K)
    BY <1>2
  <2>5. ASSUME NEW k \in 1 .. K - 1 PROVE k \in 1 .. K /\ calls[k].scope < Parent(c)
    BY <1>2, <2>1, <2>2 DEF Within
  <2>6. ASSUME NEW k \in 1 .. K PROVE CallAt(k)' /\ Within(k)' /\ Visited(k)'
    <3>1. CallAt(k)'
      BY <1>3, <1>9, <1>14, <2>1, <2>3 DEF CallAt
    <3>2. calls'[k + 1].scope = calls[k].child
      <4>1. CASE k = K
        BY <1>10, <2>2, <4>1
      <4>2. CASE k # K
        BY <2>1, <2>3, <2>4, <4>2 DEF Within
      <4> QED  BY <4>1, <4>2
    <3>3. ASSUME NEW j \in 1 .. k - 1 PROVE calls'[j].scope < calls'[k].scope
      <4>1. j \in 1 .. K
        BY <1>2
      <4> QED  BY <2>1, <2>3, <4>1 DEF Within
    <3>4. Within(k)'
      BY <2>3, <3>2, <3>3 DEF Within
    <3>5. ASSUME NEW s \in 2 .. Len(scope), Parent(s) = calls[k].scope
          PROVE  s \in DOMAIN free' <=> s > calls[k].child \/ s = calls[k].child
      <4>1. CASE k = K
        BY <1>2, <1>9, <2>1, <2>2, <3>5, <4>1 DEF Visited
      <4>2. CASE k # K
        <5>1. k < K /\ calls[k].scope < Parent(c)
          BY <2>4, <2>5, <4>2
        <5>2. s # c
          BY <2>2, <2>3, <3>5, <5>1
        <5> QED  BY <1>9, <2>1, <3>5, <5>1, <5>2 DEF Visited
      <4> QED  BY <4>1, <4>2
    <3>6. Visited(k)'
      BY <1>3, <1>9, <1>14, <2>3, <3>5 DEF Visited
    <3> QED  BY <3>1, <3>4, <3>6
  <2>7. /\ scope[c].child \in 0 .. Len(scope)
        /\ scope[c].child # NoScope => Parent(scope[c].child) = c
        /\ \A x \in 2 .. Len(scope) : Parent(x) = c => x <= scope[c].child
    BY <1>1, <1>5 DEF TreeInv
  <2>8. ASSUME NEW k \in Nat, k = K + 1 PROVE CallAt(k)' /\ Within(k)' /\ Visited(k)'
    <3>1. ~ (k < K + 1) /\ 1 .. k - 1 = 1 .. K
      BY <1>2, <2>8
    <3>2. /\ calls'[k].scope = c /\ calls'[k].frame_index = free'[c]
          /\ calls'[k].child = scope[c].child
      BY <1>10, <2>8
    <3>3. CallAt(k)'
      BY <1>3, <1>9, <1>14, <2>7, <3>2 DEF CallAt
    <3>4. ASSUME NEW j \in 1 .. K PROVE calls'[j].scope < c
      <4>1. calls[j].scope <= Parent(c)
        BY <2>2, <2>3, <2>4, <2>5
      <4> QED  BY <1>5, <2>3, <4>1
    <3>5. Within(k)'
      BY <1>9, <3>1, <3>2, <3>4 DEF Within
    <3>6. ASSUME NEW s \in 2 .. Len(scope), Parent(s) = c
          PROVE  s \notin DOMAIN free' /\ ~ (s > scope[c].child)
      <4>1. s # c /\ s # 1
        BY <1>5, <3>6
      <4>2. s \notin DOMAIN free
        BY <1>1, <1>6, <3>6, <4>1 DEF FrameInv
      <4> QED  BY <1>9, <2>7, <3>6, <4>1, <4>2
    <3>7. Visited(k)'
      BY <1>3, <1>9, <1>14, <3>1, <3>2, <3>6 DEF Visited
    <3> QED  BY <3>3, <3>5, <3>7
  <2>11. ASSUME NEW s \in 2 .. Len(scope), Parent(s) \in DOMAIN free',
               \A k \in 1 .. K + 1 : calls'[k].scope # Parent(s)
        PROVE  s \in DOMAIN free'
    <3>1. K + 1 \in 1 .. K + 1 /\ \A k \in 1 .. K : k \in 1 .. K + 1
      BY <1>2
    <3>2. Parent(s) \in DOMAIN free /\ \A k \in 1 .. K : calls[k].scope # Parent(s)
      BY <1>9, <1>10, <2>11, <3>1
    <3> QED  BY <1>1, <1>9, <3>2 DEF CallsInv
  <2>12. calls'[1].scope = 1 /\ Len(calls') > 0
    BY <1>1, <1>2, <1>9 DEF CallsInv
  <2>13. \A k \in 1 .. Len(calls') : CallAt(k)' /\ Within(k)' /\ Visited(k)'
    <3>1. \A k \in 1 .. Len(calls') : k \in 1 .. K \/ (k \in Nat /\ k = K + 1)
      BY <1>2, <1>9
    <3> QED  BY <2>6, <2>8, <3>1
  <2> HIDE DEF K
  <2> QED  BY <1>3, <1>4, <1>9, <1>14, <2>11, <2>12, <2>13 DEF CallsInv
<1>17. MinInv'
  <2>1. ASSUME NEW s \in DOMAIN free'
        PROVE  \E k \in 1 .. K + 1 : calls'[k].min_frame_index <= free'[s]
    <3>1. CASE s = c
      <4>1. K + 1 \in 1 .. K + 1 /\ calls'[K + 1].min_frame_index <= free'[s]
        BY <1>2, <1>9, <1>10, <3>1
      <4> QED  BY <4>1
    <3>2. CASE s # c
      <4>1. s \in DOMAIN free /\ free'[s] = free[s]
        BY <1>9, <3>2
      <4>2. PICK k \in 1 .. K : calls[k].min_frame_index <= free[s]
        BY <1>1, <1>4, <4>1 DEF MinInv
      <4>3. k \in 1 .. K + 1
        BY <1>2
      <4> QED  BY <1>9, <4>1, <4>2, <4>3
    <3> QED  BY <3>1, <3>2
  <2> HIDE DEF K
  <2> QED  BY <1>4, <1>9, <2>1 DEF MinInv
<1> QED  BY <1>12, <1>13, <1>15, <1>16, <1>17 DEF IInv

LEMMA FrontOf ==
  ASSUME NEW S, NEW q \in Seq(S), Len(q) > 0
  PROVE  /\ Front(q) \in Seq(S) /\ Len(Front(q)) = Len(q) - 1
         /\ \A i \in 1 .. Len(q) - 1 : Front(q)[i] = q[i]
<1>1. Len(q) \in Nat /\ \A i \in 1 .. Len(q) - 1 : q[i] \in S
  OBVIOUS
<1>2. 1 \in Int /\ Len(q) - 1 \in Int
  BY <1>1
<1>3. /\ SubSeq(q, 1, Len(q) - 1) \in Seq(S)
      /\ Len(SubSeq(q, 1, Len(q) - 1)) = IF 1 <= Len(q) - 1 THEN Len(q) - 1 - 1 + 1 ELSE 0
      /\ \A i \in 1 .. Len(q) - 1 - 1 + 1 : SubSeq(q, 1, Len(q) - 1)[i] = q[1 + i - 1]
  BY <1>1, <1>2, SubSeqProperties
<1>4. /\ Len(q) - 1 - 1 + 1 = Len(q) - 1 /\ (1 > Len(q) - 1 => Len(q) - 1 = 0)
      /\ \A i \in 1 .. Len(q) - 1 : 1 + i - 1 = i
  <2> DEFINE n == Len(q)
  <2>1. n \in Nat /\ n > 0
    BY <1>1
  <2> HIDE DEF n
  <2>2. /\ n - 1 - 1 + 1 = n - 1 /\ (1 > n - 1 => n - 1 = 0)
        /\ \A i \in 1 .. n - 1 : 1 + i - 1 = i
    BY <2>1
  <2> QED  BY <2>2 DEF n
<1> QED  BY <1>3, <1>4 DEF Front

\* All children of the scope that returns were visited.  Its caller goes on to
\* the child next older, and knows of the lowest slot in the scope.
LEMMA ReturnStep ==
  ASSUME IInv, alloc_return
  PROVE  IInv'
<1> DEFINE K == Len(calls)
           L == K - 1
           caller == calls[L]
           result == calls[K].min_frame_index
           back == [caller EXCEPT !.min_frame_index = IF result < @ THEN result ELSE @,
                                  !.child = scope[@].sibling]
<1>1. TypesInv /\ TreeInv /\ LocalsInv /\ FrameInv /\ CallsInv /\ MinInv
  BY DEF IInv
<1>2. /\ calls \in Seq(CallRecord) /\ K \in Nat /\ K > 1 /\ calls[K].child = NoScope
      /\ UNCHANGED <<pc, scope, local, func, free>> /\ Len(scope) \in Nat
  BY <1>1 DEF TypesInv, alloc_return, Last
<1>3. calls' = Append(Front(Front(calls)), back)
  <2>1. Last(Front(calls)) = caller /\ Last(calls) = calls[K]
    <3>1. Len(Front(calls)) = L /\ Front(calls)[L] = calls[L]
      BY <1>2, FrontOf
    <3> QED  BY <3>1 DEF Last
  <2> HIDE DEF K, L
  <2> QED  BY <2>1 DEF alloc_return
<1>4. /\ L \in 1 .. K /\ K \in 1 .. K /\ L < K /\ L + 1 = K
      /\ \A k \in 1 .. L : k \in 1 .. K /\ k < K /\ (k = L \/ (k < L /\ k \in 1 .. L - 1 /\ k + 1 \in 1 .. L))
  BY <1>2
<1>5. \A k \in 1 .. K : CallAt(k) /\ Within(k) /\ Visited(k) /\ calls[k] \in CallRecord
  BY <1>1, <1>2 DEF CallsInv
<1> DEFINE c == caller.child
           d == scope[c].sibling
<1>6. calls[K].scope = c /\ c \in 2 .. Len(scope) /\ Parent(c) = caller.scope
  <2>1. calls[K].scope = c /\ calls[L].scope < calls[K].scope
    <3>0. L < Len(calls) /\ L \in 1 .. K - 1
      BY <1>2
    <3>1. Within(L) /\ Within(K) /\ L < Len(calls) /\ L \in 1 .. K - 1 /\ L + 1 = K
      <4> HIDE DEF K, L
      <4> QED  BY <1>4, <1>5, <3>0
    <3>2. calls[L + 1].scope = calls[L].child
      BY <3>1 DEF Within
    <3>3. calls[L].scope < calls[K].scope
      BY <3>1 DEF Within
    <3> QED  BY <3>1, <3>2, <3>3
  <2>2. c \in 0 .. Len(scope) /\ (c # NoScope => Parent(c) = caller.scope)
    BY <1>4, <1>5 DEF CallAt
  <2>3. calls[L].scope \in DOMAIN free
    BY <1>4, <1>5 DEF CallAt
  <2>4. calls[L].scope \in 1 .. Len(scope)
    BY <1>1, <2>3 DEF TypesInv
  <2> HIDE DEF c, caller
  <2> QED  BY <1>2, <2>1, <2>2, <2>4 DEF NoScope
<1>7. /\ d \in 0 .. c - 1 /\ d \in 0 .. Len(scope) /\ (d # NoScope => Parent(d) = caller.scope)
      /\ \A x \in 2 .. c - 1 : Parent(x) = caller.scope => x <= d
  <2>1. /\ d \in 0 .. c - 1 /\ (d # NoScope => Parent(d) = Parent(c))
        /\ \A x \in 2 .. c - 1 : Parent(x) = Parent(c) => x <= d
    BY <1>1, <1>6 DEF TreeInv
  <2> HIDE DEF d, c, caller
  <2> QED  BY <1>2, <1>6, <2>1
<1>8. /\ back \in CallRecord
      /\ back.scope = caller.scope /\ back.frame_index = caller.frame_index /\ back.child = d
      /\ back.min_frame_index <= caller.min_frame_index /\ back.min_frame_index <= result
  <2>1. caller \in CallRecord /\ result \in Int /\ d \in Nat /\ caller.min_frame_index \in Int
    <3>1. calls[L] \in CallRecord /\ calls[K] \in CallRecord
      BY <1>4, <1>5
    <3>2. d \in Nat
      <4> HIDE DEF d
      <4> QED  BY <1>2, <1>7
    <3> QED  BY <3>1, <3>2 DEF CallRecord
  <2> DEFINE m == IF result < caller.min_frame_index THEN result ELSE caller.min_frame_index
  <2>2. back = [caller EXCEPT !.min_frame_index = m, !.child = d]
    BY <2>1 DEF CallRecord
  <2>3. m \in Int /\ m <= caller.min_frame_index /\ m <= result
    BY <2>1
  <2> HIDE DEF m, back, caller, d, result
  <2> QED  BY <2>1, <2>2, <2>3 DEF CallRecord
<1> HIDE DEF back
<1>9. /\ calls' \in Seq(CallRecord) /\ Len(calls') = L /\ calls'[L] = back
      /\ \A k \in 1 .. L - 1 : calls'[k] = calls[k]
  <2>1. Front(calls) \in Seq(CallRecord) /\ Len(Front(calls)) = L /\ \A i \in 1 .. L : Front(calls)[i] = calls[i]
    BY <1>2, FrontOf
  <2> DEFINE F == Front(calls)
  <2> HIDE DEF F
  <2>2. F \in Seq(CallRecord) /\ Len(F) = L /\ \A i \in 1 .. L : F[i] = calls[i]
    BY <2>1 DEF F
  <2>3. Len(F) > 0
    BY <1>2, <2>2
  <2>4. /\ Front(F) \in Seq(CallRecord) /\ Len(Front(F)) = L - 1
        /\ \A i \in 1 .. L - 1 : Front(F)[i] = F[i]
    BY <2>2, <2>3, FrontOf
  <2>5. \A i \in 1 .. L - 1 : F[i] = calls[i]
    BY <1>2, <2>2
  <2>6. calls' = Append(Front(F), back)
    BY <1>3 DEF F
  <2>7. L - 1 + 1 = L
    BY <1>2
  <2> DEFINE G == Front(F)
  <2> HIDE DEF G
  <2>8. G \in Seq(CallRecord) /\ Len(G) = L - 1 /\ \A i \in 1 .. L - 1 : G[i] = calls[i]
    BY <2>4, <2>5 DEF G
  <2>9. /\ Append(G, back) \in Seq(CallRecord) /\ Len(Append(G, back)) = Len(G) + 1
        /\ \A i \in 1 .. Len(G) : Append(G, back)[i] = G[i]
        /\ Append(G, back)[Len(G) + 1] = back
    BY <1>8, <2>8, AppendProperties
  <2>10. calls' = Append(G, back)
    BY <2>6 DEF G
  <2> HIDE DEF L
  <2> QED  BY <2>7, <2>8, <2>9, <2>10
<1>10. TreeInv' /\ LocalsInv' /\ FrameInv' /\ \A s : Parent(s)' = Parent(s)
  <2>1. TreeInv' /\ LocalsInv'
    BY <1>1, <1>2, ScopesKept DEF Owner
  <2>2. FrameInv'
    BY <1>1, <1>2 DEF FrameInv, Owner, Parent, Start, StackSlots, ParamSlots
  <2> QED  BY <1>2, <2>1, <2>2 DEF Parent
<1>11. TypesInv'
  BY <1>1, <1>2, <1>9 DEF TypesInv
<1> HIDE DEF caller, c, d, result
<1>12. /\ calls[L] = caller /\ caller.child = c /\ calls[K].min_frame_index = result
       /\ \A k \in 1 .. L : calls'[k].scope = calls[k].scope
  <2>1. calls[L] = caller /\ caller.child = c /\ calls[K].min_frame_index = result
    BY DEF caller, c, result
  <2> QED  BY <1>4, <1>8, <1>9, <2>1
<1>13. CallsInv'
  <2>1. ASSUME NEW k \in 1 .. L PROVE CallAt(k)' /\ Within(k)' /\ Visited(k)'
    <3>1. CallAt(k)'
      <4>1. CASE k = L
        BY <1>2, <1>4, <1>5, <1>7, <1>8, <1>9, <1>10, <1>12, <4>1 DEF CallAt
      <4>2. CASE k # L
        BY <1>2, <1>4, <1>5, <1>9, <1>10, <4>2 DEF CallAt
      <4> QED  BY <4>1, <4>2
    <3>2. ASSUME NEW j \in 1 .. k - 1 PROVE calls'[j].scope < calls'[k].scope
      <4>1. j \in 1 .. L
        BY <1>2
      <4> QED  BY <1>4, <1>5, <1>12, <4>1 DEF Within
    <3>3. ASSUME k < L PROVE calls'[k + 1].scope = calls'[k].child
      <4>1. k + 1 \in 1 .. L /\ k < L /\ k \in 1 .. L - 1 /\ k \in 1 .. K /\ k < K
        BY <1>2, <3>3
      <4>2. calls[k + 1].scope = calls[k].child
        BY <1>5, <4>1 DEF Within
      <4>3. calls'[k] = calls[k] /\ calls'[k + 1].scope = calls[k + 1].scope
        BY <1>9, <1>12, <4>1
      <4> QED  BY <4>2, <4>3
    <3>4. Within(k)'
      BY <1>9, <3>2, <3>3 DEF Within
    <3>5. ASSUME NEW s \in 2 .. Len(scope), Parent(s) = calls[k].scope
          PROVE  s \in DOMAIN free <=> s > calls'[k].child \/ (s = calls'[k].child /\ k < L)
      <4>1. CASE k = L
        <5>1. s \in DOMAIN free <=> s > c \/ s = c
          BY <1>4, <1>5, <1>12, <3>5, <4>1 DEF Visited
        <5>2. s < c => s <= d
          BY <1>6, <1>7, <1>12, <3>5, <4>1
        <5>3. calls'[k].child = d /\ ~ (k < L)
          BY <1>2, <1>8, <1>9, <4>1
        <5> QED  BY <1>6, <1>7, <5>1, <5>2, <5>3
      <4>2. CASE k # L
        BY <1>4, <1>5, <1>9, <3>5, <4>2 DEF Visited
      <4> QED  BY <4>1, <4>2
    <3>6. Visited(k)'
      BY <1>2, <1>9, <1>10, <1>12, <3>5 DEF Visited
    <3> QED  BY <3>1, <3>4, <3>6
  <2>2. ASSUME NEW s \in 2 .. Len(scope), Parent(s) \in DOMAIN free,
               \A k \in 1 .. L : calls'[k].scope # Parent(s)
        PROVE  s \in DOMAIN free
    <3>1. CASE Parent(s) = calls[K].scope
      <4>1. Visited(K)
        <5> HIDE DEF K, L
        <5> QED  BY <1>4, <1>5
      <4>2. s > calls[K].child
        <5> HIDE DEF K, L
        <5> QED  BY <1>2 DEF NoScope
      <4> QED  BY <3>1, <4>1, <4>2 DEF Visited
    <3>2. CASE Parent(s) # calls[K].scope
      <4>1. \A k \in 1 .. K : k = K \/ k \in 1 .. L
        BY <1>2
      <4>2. \A k \in 1 .. K : calls[k].scope # Parent(s)
        BY <1>12, <2>2, <3>2, <4>1
      <4> QED  BY <1>1, <2>2, <4>2 DEF CallsInv
    <3> QED  BY <3>1, <3>2
  <2>3. calls'[1].scope = 1 /\ L > 0 /\ pc = "allocating"
    <3>1. 1 \in 1 .. L /\ L > 0 /\ Len(calls) > 0
      BY <1>2
    <3> QED  BY <1>1, <1>12, <3>1 DEF CallsInv
  <2> HIDE DEF L
  <2> QED  BY <1>2, <1>9, <1>10, <2>1, <2>2, <2>3 DEF CallsInv
<1>14. MinInv'
  <2>1. pc = "allocating"
    BY <1>1, <1>2 DEF CallsInv
  <2>2. ASSUME NEW s \in DOMAIN free PROVE \E k \in 1 .. L : calls'[k].min_frame_index <= free[s]
    <3>1. PICK k \in 1 .. K : calls[k].min_frame_index <= free[s]
      BY <1>1, <2>1 DEF MinInv
    <3>2. free[s] \in Int /\ calls[k].min_frame_index \in Int
      BY <1>1, <1>5 DEF TypesInv, CallRecord
    <3>3. k = K \/ k = L \/ k \in 1 .. L - 1
      BY <1>2
    <3>4. back.min_frame_index \in Int
      BY <1>8 DEF CallRecord
    <3>5. CASE k \in 1 .. L - 1
      <4>1. k \in 1 .. L
        BY <1>2, <3>5
      <4> QED  BY <1>9, <3>1, <3>5, <4>1
    <3>6. CASE k = K \/ k = L
      <4>1. L \in 1 .. L /\ calls'[L].min_frame_index <= calls[k].min_frame_index
        BY <1>2, <1>8, <1>9, <1>12, <3>6
      <4>2. calls'[L].min_frame_index <= free[s]
        BY <1>9, <3>1, <3>2, <3>4, <4>1
      <4> QED  BY <4>1, <4>2
    <3> QED  BY <3>3, <3>5, <3>6
  <2> HIDE DEF L
  <2> QED  BY <1>2, <1>9, <2>1, <2>2 DEF MinInv
<1> QED  BY <1>10, <1>11, <1>13, <1>14 DEF IInv

LEMMA DoneStep ==
  ASSUME IInv, alloc_done
  PROVE  IInv'
<1> DEFINE m == calls[1].min_frame_index
<1>1. TypesInv /\ TreeInv /\ LocalsInv /\ FrameInv /\ CallsInv /\ MinInv
  BY DEF IInv
<1>2. /\ Len(calls) = 1 /\ calls[1].child = NoScope /\ calls' = <<>> /\ pc' = "laid_out"
      /\ func' = [func EXCEPT !.num_stack_locals = kFirstLocalSlotFromFp - m]
      /\ UNCHANGED <<scope, local, free>>
  BY DEF alloc_done, Last
<1>3. /\ m \in Int /\ kFirstLocalSlotFromFp \in Int /\ pc = "allocating"
      /\ func \in [num_params : Nat, num_stack_locals : Int]
  <2>1. calls[1] \in CallRecord
    <3>1. calls \in Seq(CallRecord) /\ 1 \in 1 .. Len(calls)
      BY <1>1, <1>2 DEF TypesInv
    <3> QED  BY <3>1
  <2>2. func \in [num_params : Nat, num_stack_locals : Int]
    BY <1>1 DEF TypesInv
  <2>3. pc = "allocating"
    BY <1>1, <1>2 DEF CallsInv
  <2> QED  BY <2>1, <2>2, <2>3 DEF CallRecord, kFirstLocalSlotFromFp
<1> HIDE DEF m
<1>4. /\ func' \in [num_params : Nat, num_stack_locals : Int]
      /\ func'.num_params = func.num_params
      /\ func'.num_stack_locals = kFirstLocalSlotFromFp - m
  BY <1>2, <1>3
<1>5. TreeInv' /\ LocalsInv' /\ \A s : Parent(s)' = Parent(s)
  <2>1. TreeInv' /\ LocalsInv'
    BY <1>1, <1>2, ScopesKept DEF Owner
  <2> QED  BY <1>2, <2>1 DEF Parent
<1>6. TypesInv'
  <2>1. calls' \in Seq(CallRecord)
    BY <1>2
  <2> QED  BY <1>1, <1>2, <1>4, <2>1 DEF TypesInv
<1>7. FrameInv'
  <2>1. 1 \in DOMAIN free
    BY <1>1, <1>3 DEF FrameInv
  <2> QED  BY <1>1, <1>2, <1>4, <2>1 DEF FrameInv, Owner, Parent, Start, StackSlots, ParamSlots
<1>8. CallsInv'
  <2>1. Len(calls') = 0
    BY <1>2
  <2>2. ASSUME NEW s \in 2 .. Len(scope), Parent(s) \in DOMAIN free PROVE s \in DOMAIN free
    <3>1. CASE Parent(s) = calls[1].scope
      <4>1. 1 \in 1 .. Len(calls)
        BY <1>2
      <4>2. Visited(1)
        BY <1>1, <4>1 DEF CallsInv
      <4> QED  BY <1>2, <3>1, <4>2 DEF Visited, NoScope
    <3>2. CASE Parent(s) # calls[1].scope
      BY <1>1, <1>2, <2>2, <3>2 DEF CallsInv
    <3> QED  BY <3>1, <3>2
  <2> QED  BY <1>2, <1>5, <2>1, <2>2 DEF CallsInv
<1>9. MinInv'
  <2>1. ASSUME NEW s \in DOMAIN free
        PROVE  kFirstLocalSlotFromFp - (kFirstLocalSlotFromFp - m) <= free[s]
    <3>1. m <= free[s]
      BY <1>1, <1>2, <1>3 DEF MinInv, m
    <3>2. free[s] \in Int
      BY <1>1 DEF TypesInv
    <3> QED  BY <1>3, <3>1, <3>2
  <2> QED  BY <1>2, <1>4, <2>1 DEF MinInv
<1> QED  BY <1>5, <1>6, <1>7, <1>8, <1>9 DEF IInv
-----------------------------------------------------------------------------
(* While scopes and locals are made and slots given out, whatever the tree *)
(* is, the locals of a scope are in slots of its own, next to those of the *)
(* scope around it, and the calls know the lowest slot.                    *)
THEOREM Invariant == ScopeSpec => []IInv
<1>1. ASSUME IInv, ScopeNext PROVE IInv'
  <2>1. DOMAIN scope = 1 .. Len(scope)
    BY DEF IInv, TypesInv
  <2> QED  BY <1>1, <2>1, NewScopeStep, DeclareStep, CaptureStep, InsertStep, AllocStep, ChildStep,
              ReturnStep, DoneStep DEF ScopeNext
<1>2. ASSUME IInv, UNCHANGED scopeVars PROVE IInv'
  <2>1. UNCHANGED <<pc, scope, local, func, calls, free>>
    BY <1>2 DEF scopeVars
  <2>2. TypesInv' /\ TreeInv' /\ LocalsInv'
    BY <1>2, <2>1, ZenonT(60) DEF IInv, TypesInv, TreeInv, LocalsInv, Parent, Owner, Places, Ancestors
  <2>3. FrameInv' /\ MinInv'
    BY <1>2, <2>1 DEF IInv, FrameInv, MinInv, Parent, Owner, Start, StackSlots, ParamSlots
  <2>4. CallsInv'
    BY <1>2, <2>1 DEF IInv, CallsInv, CallAt, Within, Visited, Parent
  <2> QED  BY <2>2, <2>3, <2>4 DEF IInv
<1> QED  BY <1>1, <1>2, InitOK, PTL DEF ScopeSpec

\* In the end all scopes have been visited.
LEMMA AllVisited ==
  ASSUME IInv, pc = "laid_out"
  PROVE  \A s \in 1 .. Len(scope) : s \in DOMAIN free
<1>1. TypesInv /\ TreeInv /\ FrameInv /\ CallsInv /\ Len(scope) \in Nat
  BY DEF IInv, TypesInv
<1>2. Len(calls) = 0 /\ 1 \in DOMAIN free
  BY <1>1 DEF CallsInv, FrameInv, TypesInv
<1> DEFINE Left == {s \in 1 .. Len(scope) : s \notin DOMAIN free}
<1>3. SUFFICES ASSUME Left # {} PROVE FALSE
  OBVIOUS
<1>4. Left \in SUBSET Nat
  BY <1>1
<1>5. PICK s \in Left : \A m \in Left : s <= m
  BY <1>3, <1>4, LeastNumber, Zenon
<1>6. s \in 2 .. Len(scope)
  BY <1>1, <1>2
<1>7. Parent(s) \in 1 .. s - 1
  BY <1>1, <1>6 DEF TreeInv
<1>8. Parent(s) \in DOMAIN free
  BY <1>1, <1>5, <1>6, <1>7
<1>9. s \in DOMAIN free
  BY <1>1, <1>2, <1>6, <1>8 DEF CallsInv
<1> QED  BY <1>9

\* The stack slots of a scope are below those of all scopes around it.
LEMMA Below ==
  ASSUME IInv, pc = "laid_out"
  PROVE  \A b \in 1 .. Len(scope) : \A a \in Ancestors(b) : a # b => Start(b) <= free[a]
<1> DEFINE Wrong == {b \in 1 .. Len(scope) : \E a \in Ancestors(b) : a # b /\ ~ (Start(b) <= free[a])}
<1>1. SUFFICES ASSUME Wrong # {} PROVE FALSE
  OBVIOUS
<1>2. TypesInv /\ TreeInv /\ FrameInv /\ Len(scope) \in Nat
  BY DEF IInv, TypesInv
<1>3. Wrong \in SUBSET Nat
  BY <1>2
<1>4. PICK b \in Wrong : \A m \in Wrong : b <= m
  BY <1>1, <1>3, LeastNumber, Zenon
<1>5. PICK a \in Ancestors(b) : a # b /\ ~ (Start(b) <= free[a])
  OBVIOUS
<1>6. b # 1 /\ b \in 1 .. Len(scope)
  BY <1>2, <1>5, AncestorsAre
<1>7. a \in Ancestors(Parent(b)) /\ Parent(b) \in 1 .. b - 1
  BY <1>2, <1>5, <1>6, AncestorsAre DEF TreeInv
<1>8. Parent(b) \in 1 .. Len(scope) /\ ~ (b <= Parent(b))
  BY <1>2, <1>6, <1>7
<1>9. Start(b) = free[Parent(b)]
  BY <1>6 DEF Start
<1>10. \A x \in 1 .. Len(scope) : x \in DOMAIN free /\ free[x] \in Int
  BY <1>2, AllVisited DEF TypesInv
<1>11. CASE a = Parent(b)
  BY <1>5, <1>8, <1>9, <1>10, <1>11
<1>12. CASE a # Parent(b)
  <2>1. Start(Parent(b)) <= free[a]
    BY <1>4, <1>7, <1>8, <1>12
  <2>2. free[Parent(b)] <= Start(Parent(b))
    BY <1>2, <1>8, <1>10 DEF FrameInv
  <2>3. a \in 1 .. Len(scope)
    BY <1>2, <1>7, <1>8, AncestorsAre
  <2>4. Start(Parent(b)) \in Int
    <3>1. Parent(b) # 1 => Parent(Parent(b)) \in 1 .. Len(scope)
      BY <1>2, <1>8 DEF TreeInv
    <3> QED  BY <1>10, <3>1 DEF Start, kFirstLocalSlotFromFp
  <2> QED  BY <1>5, <1>8, <1>9, <1>10, <2>1, <2>2, <2>3, <2>4
<1> QED  BY <1>11, <1>12

\* A local's slot is a parameter's, which only scope 1 has, or in its scope's part of the stack.
LEMMA SlotIs ==
  ASSUME IInv, pc = "laid_out", NEW l \in 1 .. Len(local)
  PROVE  /\ Owner(l) \in 1 .. Len(scope) /\ local[l].index \in Int
         /\ \/ Owner(l) = 1 /\ local[l].index \in 2 .. func.num_params + 1
            \/ /\ free[Owner(l)] < local[l].index /\ local[l].index <= Start(Owner(l))
               /\ local[l].index <= kFirstLocalSlotFromFp
               /\ kFirstLocalSlotFromFp - func.num_stack_locals < local[l].index
<1> DEFINE o == Owner(l)
           i == local[l].index
<1>1. TypesInv /\ TreeInv /\ LocalsInv /\ FrameInv /\ MinInv
  BY DEF IInv
<1>2. o \in 1 .. Len(scope) /\ i \in Int /\ o \in DOMAIN free
  BY <1>1, AllVisited, LocalFields DEF LocalsInv
<1>3. /\ i \in StackSlots(o) \cup ParamSlots(o) /\ Start(o) <= kFirstLocalSlotFromFp
  BY <1>1, <1>2 DEF FrameInv
<1>4. free[o] \in Int /\ func.num_stack_locals \in Int
  BY <1>1, <1>2 DEF TypesInv
<1>5. Start(o) \in Int
  <2>1. o # 1 => Parent(o) \in DOMAIN free
    BY <1>1, <1>2 DEF FrameInv
  <2> QED  BY <1>1, <2>1 DEF Start, TypesInv, kFirstLocalSlotFromFp
<1>6. CASE i \in ParamSlots(o)
  BY <1>2, <1>6 DEF ParamSlots
<1>7. CASE i \in StackSlots(o)
  <2>1. kFirstLocalSlotFromFp - func.num_stack_locals <= free[o]
    BY <1>1, <1>2 DEF MinInv
  <2>2. free[o] < i /\ i <= Start(o)
    BY <1>7 DEF StackSlots
  <2> HIDE DEF o, i
  <2>3. i <= kFirstLocalSlotFromFp /\ kFirstLocalSlotFromFp - func.num_stack_locals < i
    BY <1>2, <1>3, <1>4, <1>5, <2>1, <2>2 DEF kFirstLocalSlotFromFp
  <2> QED  BY <1>2, <2>2, <2>3 DEF o, i
<1> QED  BY <1>3, <1>6, <1>7

LEMMA VisibleAre ==
  ASSUME IInv, NEW s \in 1 .. Len(scope), NEW l \in Visible(s)
  PROVE  l \in 1 .. Len(local) /\ Owner(l) \in Ancestors(s)
<1>1. TypesInv /\ TreeInv /\ LocalsInv
  BY DEF IInv
<1>2. PICK a \in Ancestors(s) : \E p \in Places(a) : l = scope[a].variables[p]
  BY DEF Visible
<1>3. a \in 1 .. Len(scope)
  <2>1. s \in Nat /\ Len(scope) \in Nat /\ a \in 1 .. s
    BY <1>1, AncestorsAre, ScopeFields
  <2> QED  BY <2>1
<1>4. l \in 1 .. Len(local) /\ Owner(l) \in Ancestors(a)
  BY <1>1, <1>2, <1>3 DEF LocalsInv
<1> QED  BY <1>1, <1>4, AncestorsTransitive

\* Of two scopes that are around a third, locals of each are in slots apart.
LEMMA SlotsDiffer ==
  ASSUME IInv, pc = "laid_out", NEW l \in 1 .. Len(local), NEW m \in 1 .. Len(local), l # m,
         Owner(l) \in Ancestors(Owner(m))
  PROVE  local[l].index # local[m].index
<1> DEFINE a == Owner(l)
           b == Owner(m)
           i == local[l].index
           j == local[m].index
<1>1. TypesInv /\ TreeInv /\ FrameInv /\ func.num_params \in Nat
  BY DEF IInv, TypesInv
<1>2. /\ a \in 1 .. Len(scope) /\ b \in 1 .. Len(scope) /\ i \in Int /\ j \in Int
      /\ (a = 1 /\ i \in 2 .. func.num_params + 1) \/ (free[a] < i /\ i <= kFirstLocalSlotFromFp)
      /\ (b = 1 /\ j \in 2 .. func.num_params + 1) \/ (j <= Start(b) /\ j <= kFirstLocalSlotFromFp)
  BY SlotIs
<1>3. CASE a = b
  BY <1>1, <1>2, <1>3, AllVisited DEF FrameInv
<1>4. CASE a # b
  <2>1. Start(b) <= free[a]
    BY <1>2, <1>4, Below
  <2>2. b # 1
    BY <1>1, <1>2, <1>4, AncestorsAre
  <2>3. free[a] \in Int /\ Start(b) \in Int
    <3>1. Parent(b) \in 1 .. Len(scope)
      BY <1>1, <1>2, <2>2, SMTT(60) DEF TreeInv, TypesInv
    <3> QED  BY <1>1, <1>2, <2>2, <3>1, AllVisited DEF TypesInv, Start
  <2> HIDE DEF a, b, i, j
  <2>4. i # j
    BY <1>1, <1>2, <2>1, <2>2, <2>3 DEF kFirstLocalSlotFromFp
  <2> QED  BY <2>4 DEF i, j
<1> QED  BY <1>3, <1>4

LEMMA Apart == IInv => LocalsApart
<1> SUFFICES ASSUME IInv, pc = "laid_out", NEW s \in 1 .. Len(scope)
             PROVE  /\ \A l \in Visible(s) : /\ local[l].index # NoIndex
                                             /\ local_var_bit_index(l) \in 0 .. graph_variable_count - 1
                    /\ \A l, m \in Visible(s) :
                         l # m => /\ local[l].index # local[m].index
                                  /\ local_var_bit_index(l) # local_var_bit_index(m)
  BY SMTT(60) DEF LocalsApart, IInv, TypesInv
<1> DEFINE n == func.num_params
           k == func.num_stack_locals
<1>1. TypesInv /\ TreeInv /\ n \in Nat /\ k \in Nat
  <2>1. TypesInv /\ TreeInv /\ FrameInv /\ MinInv /\ n \in Nat /\ k \in Int
    BY DEF IInv, TypesInv
  <2>2. /\ 1 \in DOMAIN free /\ free[1] \in Int
        /\ kFirstLocalSlotFromFp - k <= free[1] /\ free[1] <= kFirstLocalSlotFromFp
    BY <2>1 DEF FrameInv, MinInv, TypesInv, Start
  <2> HIDE DEF k
  <2> QED  BY <2>1, <2>2 DEF kFirstLocalSlotFromFp
<1>2. ASSUME NEW l \in Visible(s)
      PROVE  /\ local[l].index \in Int /\ n \in Nat /\ k \in Nat
             /\ \/ local[l].index \in 2 .. n + 1
                \/ local[l].index <= -3 /\ -3 - k < local[l].index
  BY <1>1, VisibleAre, SlotIs DEF kFirstLocalSlotFromFp
<1>3. ASSUME NEW l \in Visible(s)
      PROVE  local_var_bit_index(l) = n - (local[l].index - (IF local[l].index > 0 THEN 1 ELSE -3))
  BY DEF local_var_bit_index, kParamEndSlotFromFp, kFirstLocalSlotFromFp
<1> HIDE DEF n, k
<1>4. ASSUME NEW l \in Visible(s)
      PROVE  local[l].index # NoIndex /\ local_var_bit_index(l) \in 0 .. graph_variable_count - 1
  <2> DEFINE i == local[l].index
  <2>1. i \in Int /\ n \in Nat /\ k \in Nat /\ (i \in 2 .. n + 1 \/ (i <= -3 /\ -3 - k < i))
    BY <1>2
  <2>2. local_var_bit_index(l) = n - (i - (IF i > 0 THEN 1 ELSE -3))
    BY <1>3
  <2>3. graph_variable_count = n + k
    BY DEF graph_variable_count, n, k
  <2> HIDE DEF i
  <2>4. i # NoIndex /\ n - (i - (IF i > 0 THEN 1 ELSE -3)) \in 0 .. n + k - 1
    <3>1. CASE i \in 2 .. n + 1
      BY <2>1, <3>1 DEF NoIndex
    <3>2. CASE i <= -3 /\ -3 - k < i
      BY <2>1, <3>2 DEF NoIndex
    <3> QED  BY <2>1, <3>1, <3>2
  <2>5. local_var_bit_index(l) \in 0 .. graph_variable_count - 1
    <3> DEFINE bit == n - (i - (IF i > 0 THEN 1 ELSE -3))
    <3>1. local_var_bit_index(l) = bit /\ bit \in 0 .. n + k - 1
      BY <2>2, <2>4
    <3> HIDE DEF bit
    <3> QED  BY <2>1, <2>3, <3>1
  <2> QED  BY <2>4, <2>5 DEF i
<1>5. ASSUME NEW l \in Visible(s), NEW m \in Visible(s), l # m
      PROVE  /\ local[l].index # local[m].index
             /\ local_var_bit_index(l) # local_var_bit_index(m)
  <2> DEFINE i == local[l].index
             j == local[m].index
  <2>1. /\ l \in 1 .. Len(local) /\ Owner(l) \in Ancestors(s)
        /\ m \in 1 .. Len(local) /\ Owner(m) \in Ancestors(s)
    BY VisibleAre
  <2>2. Owner(l) \in Ancestors(Owner(m)) \/ Owner(m) \in Ancestors(Owner(l))
    <3>1. Owner(l) \in Nat /\ Owner(m) \in Nat
      BY <1>1, <2>1, LocalFields DEF Owner
    <3>2. Owner(l) <= Owner(m) \/ Owner(m) <= Owner(l)
      BY <3>1
    <3> QED  BY <1>1, <2>1, <3>2, AncestorsChain
  <2>3. i # j
    BY <1>5, <2>1, <2>2, SlotsDiffer
  <2>4. /\ i \in Int /\ (i \in 2 .. n + 1 \/ (i <= -3 /\ -3 - k < i))
        /\ j \in Int /\ (j \in 2 .. n + 1 \/ (j <= -3 /\ -3 - k < j))
        /\ n \in Nat /\ k \in Nat
    BY <1>2
  <2>5. /\ local_var_bit_index(l) = n - (i - (IF i > 0 THEN 1 ELSE -3))
        /\ local_var_bit_index(m) = n - (j - (IF j > 0 THEN 1 ELSE -3))
    BY <1>3
  <2> HIDE DEF i, j
  <2>6. n - (i - (IF i > 0 THEN 1 ELSE -3)) # n - (j - (IF j > 0 THEN 1 ELSE -3))
    BY <2>3, <2>4
  <2> QED  BY <2>3, <2>5, <2>6 DEF i, j
<1> QED  BY <1>4, <1>5

(* For every tree of scopes, however locals and parameters are declared in *)
(* it and added to further scopes: no two locals that code in a scope can  *)
(* name share a slot or a bit, and all bits are below the function's count.*)
THEOREM SlotsApart == ScopeSpec => []LocalsApart
BY Invariant, Apart, PTL
=============================================================================
