--------------------------- MODULE RefTableProofs ---------------------------
(***************************************************************************)
(* The root table for every set of addresses and every table size: IInv is *)
(* inductive, and the table of slots implements the set of roots.          *)
(***************************************************************************)
EXTENDS RefTable, FunctionTheorems, FiniteSetTheorems, TLAPS

(* A table without a cleared slot holds as many roots as it has slots.     *)
LEMMA FullTable ==
  ASSUME IInv, \A i \in Used : ~Cleared(i)
  PROVE  IsFiniteSet(Roots) /\ Cardinality(Roots) = refs_count
<1> DEFINE f == [i \in Used |-> references[i]]
<1>0. refs_count \in Nat /\ Used \subseteq Slots
  BY RefTableAssumption DEF IInv, TypeOK, Used, Slots
<1>1. f \in [Used -> Roots]
  BY DEF Roots, Cleared
<1>2. \A i, j \in Used : f[i] = f[j] => i = j
  BY DEF IInv, OneSlotPerRoot, Cleared
<1>3. \A r \in Roots : \E i \in Used : f[i] = r
  BY DEF Roots
<1>4. f \in Bijection(Used, Roots)
  <2> HIDE DEF f
  <2>1. f \in Injection(Used, Roots)
    BY <1>1, <1>2, Fun_IsInj
  <2>2. f \in Surjection(Used, Roots)
    BY <1>1, <1>3 DEF Surjection
  <2> QED BY <2>1, <2>2 DEF Bijection
<1>5. IsFiniteSet(Used) /\ Cardinality(Used) = refs_count
  <2>1. 0 \in Int /\ refs_count - 1 \in Int
    BY <1>0
  <2>2. /\ IsFiniteSet(0 .. refs_count - 1)
        /\ Cardinality(0 .. refs_count - 1) =
             IF 0 > refs_count - 1 THEN 0 ELSE (refs_count - 1) - 0 + 1
    BY <2>1, FS_Interval
  <2> QED BY <2>2, <1>0 DEF Used
<1>6. ExistsBijection(Used, Roots)
  BY <1>4 DEF ExistsBijection
<1> QED BY <1>5, <1>6, FS_Bijection

(* The address the caller adds when the table grows was not a root.        *)
LEMMA AppendFits ==
  ASSUME IInv, NEW a \in Addr, AddAppend(a),
         Cardinality(Roots \cup {a}) <= RootLimit
  PROVE  refs_count < RootLimit
<1>1. IsFiniteSet(Roots) /\ Cardinality(Roots) = refs_count
  BY FullTable DEF AddAppend
<1>2. a \notin Roots
  BY DEF AddAppend, Covers, Roots
<1>3. Cardinality(Roots \cup {a}) = refs_count + 1
  BY <1>1, <1>2, FS_AddElement
<1> QED
  BY <1>3, RefTableAssumption DEF IInv, TypeOK

-----------------------------------------------------------------------------
LEMMA InitInv == mun_gc_init => IInv
  BY RefTableAssumption
  DEF mun_gc_init, IInv, TypeOK, OneSlotPerRoot, InBounds, TailClear, Used, Slots

(* The steps that write one slot below refs_count keep every conjunct: the *)
(* new value is NULL or an address no other slot holds.                    *)
LEMMA WriteUsed ==
  ASSUME IInv, NEW i \in Used, NEW x \in Addr \cup {NULL},
         x # NULL => \A j \in Used : ~Covers(j, x),
         set_ref_block(i, x), UNCHANGED refs_count
  PROVE  IInv'
<1>0. i \in Slots /\ refs_count \in Nat
  BY RefTableAssumption DEF IInv, TypeOK, Used, Slots
<1>1. TypeOK'
  BY <1>0 DEF IInv, TypeOK, set_ref_block
<1>2. OneSlotPerRoot'
  BY <1>0 DEF IInv, TypeOK, OneSlotPerRoot, set_ref_block, Covers, Used, Slots
<1>3. InBounds'
  BY DEF IInv, InBounds
<1>4. TailClear'
  BY <1>0 DEF IInv, TypeOK, TailClear, set_ref_block, Used, Slots
<1> QED BY <1>1, <1>2, <1>3, <1>4 DEF IInv

LEMMA StepInv == IInv /\ [Next]_vars => IInv'
<1> SUFFICES ASSUME IInv, [Next]_vars PROVE IInv'
  OBVIOUS
<1>1. ASSUME NEW a \in Addr, AddCovered(a) PROVE IInv'
  BY <1>1 DEF AddCovered, vars, IInv, TypeOK, OneSlotPerRoot, InBounds, TailClear, Used
<1>2. ASSUME NEW a \in Addr, AddReuse(a) PROVE IInv'
  BY <1>2, WriteUsed DEF AddReuse
<1>3. ASSUME NEW a \in Addr, AddAppend(a), mun_gc_add_ref(a) PROVE IInv'
  <2>1. refs_count < RootLimit
    BY <1>3, AppendFits DEF mun_gc_add_ref
  <2>2. refs_count \in Slots /\ refs_count \in Nat /\ refs_count' = refs_count + 1
    BY <2>1, <1>3, RefTableAssumption DEF IInv, TypeOK, Slots, AddAppend
  <2>3. references' = [references EXCEPT ![refs_count] = a]
    BY <1>3 DEF AddAppend, set_ref_block
  <2>4. TypeOK'
    BY <2>1, <2>2, <2>3, RefTableAssumption DEF IInv, TypeOK
  <2>5. OneSlotPerRoot'
    <3> SUFFICES ASSUME NEW i \in Used', NEW j \in Used',
                        references'[i] # NULL, references'[i] = references'[j]
                 PROVE  i = j
      BY DEF OneSlotPerRoot
    <3>1. \A k \in Used' : k = refs_count \/ k \in Used
      BY <2>2 DEF Used
    <3>2. \A k \in Used : references[k] # a /\ references'[k] = references[k]
      BY <1>3, <2>2, <2>3 DEF AddAppend, Covers, Used, IInv, TypeOK, Slots
    <3>3. references'[refs_count] = a
      BY <2>2, <2>3 DEF IInv, TypeOK
    <3> QED BY <3>1, <3>2, <3>3 DEF IInv, OneSlotPerRoot
  <2>6. InBounds'
    BY <2>1, <2>2, RefTableAssumption DEF InBounds
  <2>7. TailClear'
    BY <2>2, <2>3 DEF IInv, TypeOK, TailClear, Slots
  <2> QED BY <2>4, <2>5, <2>6, <2>7 DEF IInv
<1>4. ASSUME NEW a \in Addr, RemoveFound(a) PROVE IInv'
  BY <1>4, WriteUsed DEF RemoveFound
<1>5. ASSUME NEW a \in Addr, RemoveMissed(a) PROVE IInv'
  <2>1. ~Covers(refs_count, a)
    BY RefTableAssumption DEF Covers, IInv, TypeOK, InBounds, TailClear, Slots
  <2> QED
    BY <1>5, <2>1 DEF RemoveMissed, IInv, TypeOK, OneSlotPerRoot, InBounds, TailClear, Used
<1>6. CASE UNCHANGED vars
  BY <1>6 DEF vars, IInv, TypeOK, OneSlotPerRoot, InBounds, TailClear, Used
<1> QED
  BY <1>1, <1>2, <1>3, <1>4, <1>5, <1>6
  DEF Next, mun_gc_add_ref, mun_gc_del_ref, add_ref, remove_ref

(* Every state of the root table satisfies the inductive invariant.        *)
THEOREM Invariant == Spec => []IInv
  BY InitInv, StepInv, PTL DEF Spec

(* The variables keep their types: refs_count never leaves the table.      *)
THEOREM TypeCorrect == Spec => []TypeOK
<1>1. IInv => TypeOK
  BY DEF IInv
<1> QED BY <1>1, Invariant, PTL

(* No root ever occupies two slots, so that one mun_gc_del_ref is enough.  *)
THEOREM NoSecondSlot == Spec => []OneSlotPerRoot
<1>1. IInv => OneSlotPerRoot
  BY DEF IInv
<1> QED BY <1>1, Invariant, PTL

(* A caller that holds RootLimit roots at most never grows the table       *)
(* beyond RootLimit slots, so add_ref stays inside references[].           *)
THEOREM TableFits == Spec => []InBounds
<1>1. IInv => InBounds
  BY DEF IInv
<1> QED BY <1>1, Invariant, PTL
-----------------------------------------------------------------------------
(* Every step of the table is a step of the set of roots, or a stutter.    *)
LEMMA AddStep ==
  ASSUME IInv, NEW a \in Addr, mun_gc_add_ref(a)
  PROVE  Roots' = Roots \cup {a}
<1>0. refs_count \in Nat /\ Used \subseteq Slots /\ a # NULL
  BY RefTableAssumption DEF IInv, TypeOK, Used, Slots
<1>1. CASE AddCovered(a)
  BY <1>0, <1>1 DEF AddCovered, vars, Roots, Covers, Used
<1>2. CASE AddReuse(a)
  <2>1. PICK i \in Used : Cleared(i) /\ set_ref_block(i, a)
    BY <1>2 DEF AddReuse
  <2>2. Used' = Used
    BY <1>2 DEF AddReuse, Used
  <2>3. references'[i] = a /\ \A j \in Used \ {i} : references'[j] = references[j]
    BY <1>0, <2>1 DEF set_ref_block, IInv, TypeOK
  <2> QED BY <1>0, <2>1, <2>2, <2>3 DEF Roots, Cleared
<1>3. CASE AddAppend(a)
  <2>1. refs_count < RootLimit
    BY <1>3, AppendFits DEF mun_gc_add_ref
  <2>2. refs_count \in Slots /\ refs_count' = refs_count + 1
    BY <2>1, <1>0, <1>3, RefTableAssumption DEF Slots, AddAppend
  <2>3. Used' = Used \cup {refs_count}
    BY <1>0, <2>2 DEF Used
  <2>4. references'[refs_count] = a /\ \A j \in Used : references'[j] = references[j]
    BY <1>0, <1>3, <2>2 DEF AddAppend, set_ref_block, IInv, TypeOK, Used
  <2> QED BY <1>0, <2>3, <2>4 DEF Roots
<1> QED BY <1>1, <1>2, <1>3 DEF mun_gc_add_ref, add_ref

LEMMA DelStep ==
  ASSUME IInv, NEW a \in Addr, mun_gc_del_ref(a)
  PROVE  Roots' = Roots \ {a}
<1>0. refs_count \in Nat /\ Used \subseteq Slots /\ a # NULL
  BY RefTableAssumption DEF IInv, TypeOK, Used, Slots
<1>1. CASE RemoveFound(a)
  <2>1. PICK i \in Used : Covers(i, a) /\ set_ref_block(i, NULL)
    BY <1>1 DEF RemoveFound
  <2>2. Used' = Used
    BY <1>1 DEF RemoveFound, Used
  <2>3. references'[i] = NULL /\ \A j \in Used \ {i} : references'[j] = references[j]
    BY <1>0, <2>1 DEF set_ref_block, IInv, TypeOK
  <2>4. \A j \in Used \ {i} : references[j] # a
    BY <1>0, <2>1 DEF Covers, IInv, OneSlotPerRoot
  <2> QED BY <1>0, <2>1, <2>2, <2>3, <2>4 DEF Roots, Covers
<1>2. CASE RemoveMissed(a)
  <2>1. ~Covers(refs_count, a)
    BY RefTableAssumption DEF Covers, IInv, TypeOK, InBounds, TailClear, Slots
  <2> QED BY <1>2, <2>1 DEF RemoveMissed, Roots, Used, Covers
<1> QED BY <1>1, <1>2 DEF mun_gc_del_ref, remove_ref

(* The slot table implements the plain set of roots of RootSet.            *)
THEOREM Implementation == Spec => ImplementsRootSet
<1>1. mun_gc_init => RS!Init
  BY DEF mun_gc_init, RS!Init, Roots, Used
<1>2. IInv /\ [Next]_vars => [RS!Next]_Roots
  <2> SUFFICES ASSUME IInv, [Next]_vars PROVE [RS!Next]_Roots
    OBVIOUS
  <2>1. ASSUME NEW a \in Addr, mun_gc_add_ref(a) PROVE RS!Next
    BY <2>1, AddStep DEF RS!Next, RS!Add, mun_gc_add_ref
  <2>2. ASSUME NEW a \in Addr, mun_gc_del_ref(a) PROVE RS!Next
    BY <2>2, DelStep DEF RS!Next, RS!Del
  <2>3. CASE UNCHANGED vars
    BY <2>3 DEF vars, Roots, Used
  <2> QED BY <2>1, <2>2, <2>3 DEF Next
<1> QED BY <1>1, <1>2, Invariant, PTL DEF Spec, ImplementsRootSet, RS!Spec
=============================================================================
