------------------------------ MODULE RefTable ------------------------------
(***************************************************************************)
(* The root table of the collector (alloc.c): references[], its high-water *)
(* mark refs_count, and the two operations of the public interface.        *)
(*                                                                         *)
(* The public operations only ever register one machine word, so a range   *)
(* [begin, end) is its begin address, and "begin >= b /\ end <= e" is      *)
(* equality of begins; a cleared slot [0, 0) covers no word.               *)
(***************************************************************************)
EXTENDS Integers, FiniteSets

CONSTANTS Addr,       \* addresses of the words that can be registered
          NULL,       \* the address 0 of a cleared slot
          MaxRefs,    \* GC_MAX_REFS
          RootLimit   \* most roots a caller holds at a time

ASSUME RefTableAssumption == /\ NULL \notin Addr
                             /\ MaxRefs \in Nat
                             /\ RootLimit \in Nat
                             /\ RootLimit < MaxRefs

VARIABLES refs_count, references

vars == <<refs_count, references>>

Slots == 0 .. MaxRefs - 1

\* The slots that the loops "for(i = 0; i < refs_count; i++)" visit.
Used == 0 .. refs_count - 1

TypeOK == /\ refs_count \in 0 .. MaxRefs
          /\ references \in [Slots -> Addr \cup {NULL}]

\* The addresses the collector finds when it scans the table.
Roots == {references[i] : i \in Used} \ {NULL}

\* mun_gc_init sets refs_count only; the table is zero because a block as large
\* as mun_alloc always comes as fresh pages.
mun_gc_init == /\ refs_count = 0
               /\ references = [i \in Slots |-> NULL]

Covers(i, a) == references[i] = a

set_ref_block(i, a) == references' = [references EXCEPT ![i] = a]

Cleared(i) == references[i] = NULL

\* add_ref: nothing when a slot covers the word already ...
AddCovered(a) == /\ \E i \in Used : Covers(i, a)
                 /\ UNCHANGED vars

\* ... else the first cleared slot is used again ...
AddReuse(a) == /\ \A i \in Used : ~Covers(i, a)
               /\ \E i \in Used : /\ Cleared(i)
                                  /\ \A j \in 0 .. i - 1 : ~Cleared(j)
                                  /\ set_ref_block(i, a)
               /\ UNCHANGED refs_count

\* ... else the table grows.
AddAppend(a) == /\ \A i \in Used : ~Covers(i, a) /\ ~Cleared(i)
                /\ set_ref_block(refs_count, a)
                /\ refs_count' = refs_count + 1

\* Mutant: appends without looking for a covering slot or a cleared one.
add_refAlwaysAppends(a) == AddCovered(a) \/ ( /\ \A i \in Used : ~Covers(i, a)
                                              /\ set_ref_block(refs_count, a)
                                              /\ refs_count' = refs_count + 1 )

\* Mutant: the search for a cleared slot comes before the covering test.
add_refReusesFirst(a) ==
  IF \E i \in Used : Cleared(i)
    THEN /\ \E i \in Used : Cleared(i) /\ set_ref_block(i, a)
         /\ UNCHANGED refs_count
    ELSE AddCovered(a) \/ AddAppend(a)

add_ref(a) == AddCovered(a) \/ AddReuse(a) \/ AddAppend(a)

\* remove_ref: clears the first slot that covers the word ...
RemoveFound(a) ==
  /\ \E i \in Used : /\ Covers(i, a)
                     /\ \A j \in 0 .. i - 1 : ~Covers(j, a)
                     /\ set_ref_block(i, NULL)
  /\ UNCHANGED refs_count

\* Mutant: the second look of remove_ref does not test what it finds.
RemoveMissedShrinks(a) == /\ \A i \in Used : ~Covers(i, a)
                          /\ refs_count' = refs_count - 1
                          /\ UNCHANGED references

\* ... and when there is none, looks once more at references[refs_count].
RemoveMissed(a) ==
  /\ \A i \in Used : ~Covers(i, a)
  /\ refs_count' = IF Covers(refs_count, a) THEN refs_count - 1 ELSE refs_count
  /\ UNCHANGED references

\* Mutant: gives the slot back by shrinking the table, wherever the slot is.
remove_refShrinks(a) ==
  \/ /\ \E i \in Used : Covers(i, a) /\ set_ref_block(i, NULL)
     /\ refs_count' = refs_count - 1
  \/ RemoveMissed(a)

remove_ref(a) == RemoveFound(a) \/ RemoveMissed(a)

\* The caller holds at most RootLimit roots: the code has no test of its own.
mun_gc_add_ref(a) == /\ Cardinality(Roots \cup {a}) <= RootLimit
                     /\ add_ref(a)

mun_gc_del_ref(a) == remove_ref(a)

Next == \E a \in Addr : mun_gc_add_ref(a) \/ mun_gc_del_ref(a)

Spec == mun_gc_init /\ [][Next]_vars
-----------------------------------------------------------------------------
(* A root sits in one slot only, whatever sequence of additions, removals  *)
(* and reuses of cleared slots came before: remove_ref clears a single     *)
(* slot, so a second copy would keep the object alive for good.            *)
OneSlotPerRoot ==
  \A i, j \in Used : references[i] # NULL /\ references[i] = references[j] => i = j

(* add_ref has no bound check, yet the table never outgrows the most roots *)
(* its caller held at once, however long it runs: cleared slots are used   *)
(* again before the table grows.                                           *)
InBounds == refs_count <= RootLimit

(* Slots past refs_count were never written, so the second look of         *)
(* remove_ref (alloc.c:293) never finds the word and never drops the last  *)
(* slot, which holds somebody else's root.                                 *)
TailClear == \A i \in Slots : i >= refs_count => references[i] = NULL

\* The inductive invariant of the table.
IInv == TypeOK /\ OneSlotPerRoot /\ InBounds /\ TailClear

RS == INSTANCE RootSet WITH roots <- Roots

(* The table of slots implements the plain set of roots.                   *)
ImplementsRootSet == RS!Spec
=============================================================================
