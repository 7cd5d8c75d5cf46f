---------------------------- MODULE MinorGcProofs ----------------------------
(***************************************************************************)
(* The minor collector, for any number of chunks, cells and roots: marking  *)
(* is exact, the client's pointers stay valid, and the root table is used   *)
(* as RefTable allows.                                                     *)
(***************************************************************************)
EXTENDS MinorGc, FiniteSetTheorems, TLAPS

TP == INSTANCE RefTableProofs WITH Addr <- Cell \cup Chunk,
                                   RootLimit <- Cardinality(Cell) + NChunks

Collecting == pc \in {"mark", "copy", "patch_refs", "patch_chunks", "memcpy"}
Marked == {c \in Chunk : marked[c]}
Place == <<"major", 0>>    \* where every survivor is copied to

TypesInv == /\ TypeOK
            /\ size \in [0 .. HeapUnits -> Int] /\ size[0] > 0
            /\ \A c \in Chunk : backpatch[c] \in {NULL, Place}
            /\ \A m \in Major : copy[m] \notin Chunk

PhaseInv == /\ pc # "mark" => cur = Nil
            /\ pc = "run" => wanted = Nil
            /\ Collecting => /\ free_chunk = NChunks
                             /\ wanted \in Cell \cap Table!Roots
                             /\ idx <= IF pc = "copy" THEN NChunks ELSE refs_count

\* While the client runs, its words lead to chunks that were handed out, and
\* those carry no mark.
Handed(w) == w \in Chunk => w[2] < free_chunk
ClientInv == /\ \A c \in Cell : c \notin Table!Roots => cell[c] \notin Chunk
             /\ pc = "run" => /\ \A c \in Chunk : Handed(c) => ~marked[c] /\ Handed(head[c])
                              /\ \A c \in Cell : Handed(cell[c])

\* What was met is reachable, and what it leads to was met or is cur.
MarkInv == pc = "mark" =>
  /\ \A c \in Chunk : marked[c] \/ c = cur => c \in Reachable
  /\ \A c \in Marked : head[c] \in Chunk => head[c] \in Marked \cup {cur}
  /\ \A i \in 0 .. idx - 1 : references[i] # NULL /\ Deref(references[i]) \in Chunk
                              => Deref(references[i]) \in Marked \cup {cur}

CopyInv == /\ pc = "copy" => /\ Marked = Reachable
                             /\ \A i \in 0 .. idx - 1 : marked[CHUNK_AT(i)] => backpatch[CHUNK_AT(i)] # NULL
           /\ pc \in {"patch_refs", "patch_chunks", "memcpy"} =>
                /\ Closed(Marked)
                /\ \A c \in Marked : backpatch[c] # NULL

HeadPatched(i) == CHUNK_AT(i) \in Marked => head[CHUNK_AT(i)] \notin Chunk
PatchInv ==
  /\ pc = "patch_refs" => \A i \in 0 .. idx - 1 : references[i] # NULL => Deref(references[i]) \notin Chunk
  /\ pc \in {"patch_chunks", "memcpy"} => \A r \in Table!Roots : Deref(r) \notin Chunk
  /\ pc = "patch_chunks" => \A i \in 0 .. idx - 1 : HeadPatched(i)
  /\ pc = "memcpy" => \A i \in 0 .. refs_count - 1 : HeadPatched(i)

IInv == /\ Table!IInv /\ TypesInv /\ PhaseInv /\ ClientInv
        /\ MarkInv /\ CopyInv /\ PatchInv /\ StaysDefined
-----------------------------------------------------------------------------
LEMMA ChunkFacts ==
  /\ \A i \in 0 .. NChunks - 1 : CHUNK_AT(i) \in Chunk /\ CHUNK_AT(i)[2] = i
  /\ \A c \in Chunk : c[2] \in 0 .. NChunks - 1 /\ c = CHUNK_AT(c[2])
  /\ \A i \in Nat : CHUNK_AT(i) \in Chunk => i \in 0 .. NChunks - 1
  /\ Place \in Major /\ Major \cap Chunk = {} /\ Cell \cap Chunk = {}
  /\ NULL \notin Cell \cup Chunk \cup Major /\ Nil \notin Cell \cup Chunk \cup Major
  /\ NChunks \in Nat \ {0}
<1>1. \A i \in Nat : CHUNK_AT(i) \in Chunk => i \in 0 .. NChunks - 1
  BY DEF CHUNK_AT, Chunk
<1>2. \A c \in Chunk : c[2] \in 0 .. NChunks - 1 /\ c = CHUNK_AT(c[2])
  BY DEF CHUNK_AT, Chunk
<1>3. \A i \in 0 .. NChunks - 1 : CHUNK_AT(i) \in Chunk /\ CHUNK_AT(i)[2] = i
  BY DEF CHUNK_AT, Chunk
<1>4. 0 \in 0 .. HeapUnits - 1 /\ NChunks \in Nat \ {0}
  BY MinorGcAssumption
<1>5. Place \in Major /\ Major \cap Chunk = {}
  BY <1>4 DEF Place, Major, Chunk, CHUNK_AT
<1> QED  BY <1>1, <1>2, <1>3, <1>4, <1>5, MinorGcAssumption

\* A set of roots is never larger than the client's cells and the chunks together.
LEMMA RootsFit ==
  ASSUME NEW S, S \subseteq Cell \cup Chunk
  PROVE  IsFiniteSet(S) /\ Cardinality(S) <= Cardinality(Cell) + NChunks
<1> DEFINE I == 0 .. NChunks - 1
           f == [i \in I |-> CHUNK_AT(i)]
<1>1. NChunks \in Nat \ {0}
  BY MinorGcAssumption
<1>2. IsFiniteSet(I) /\ Cardinality(I) = NChunks
  <2>1. 0 \in Int /\ NChunks - 1 \in Int /\ ~ (0 > NChunks - 1) /\ NChunks - 1 - 0 + 1 = NChunks
    BY <1>1
  <2>2. /\ IsFiniteSet(0 .. NChunks - 1)
        /\ Cardinality(0 .. NChunks - 1) = IF 0 > NChunks - 1 THEN 0 ELSE NChunks - 1 - 0 + 1
    BY <2>1, FS_Interval
  <2> QED  BY <2>1, <2>2
<1>3. f \in Bijection(I, Chunk)
  <2>1. f \in Injection(I, Chunk)
    BY ChunkFacts DEF Injection, IsInjective
  <2>2. f \in Surjection(I, Chunk)
    BY ChunkFacts DEF Surjection
  <2> QED  BY <2>1, <2>2 DEF Bijection
<1> HIDE DEF I, f
<1>4. IsFiniteSet(Chunk) /\ Cardinality(Chunk) = NChunks
  BY <1>2, <1>3, FS_Bijection DEF ExistsBijection
<1>5. IsFiniteSet(Cell)
  BY MinorGcAssumption
<1>6. /\ IsFiniteSet(Cell \cup Chunk)
      /\ Cardinality(Cell \cup Chunk) = Cardinality(Cell) + Cardinality(Chunk) - Cardinality(Cell \cap Chunk)
  BY <1>4, <1>5, FS_Union
<1>7. Cell \cap Chunk = {} /\ Cardinality(Cell \cap Chunk) = 0
  BY MinorGcAssumption, FS_EmptySet
<1>8. IsFiniteSet(S) /\ Cardinality(S) <= Cardinality(Cell \cup Chunk)
  BY <1>6, FS_Subset
<1>9. Cardinality(Cell) \in Nat
  BY <1>5, FS_CardinalityType
<1> QED  BY <1>1, <1>4, <1>6, <1>7, <1>8, <1>9
-----------------------------------------------------------------------------
\* The assumption of the root table holds for the collector's.
LEMMA TableAssumption == TP!RefTableAssumption
<1>1. IsFiniteSet(Cell) /\ Cardinality(Cell) \in Nat
  BY MinorGcAssumption, FS_CardinalityType
<1> QED  BY <1>1, MinorGcAssumption DEF TP!RefTableAssumption

\* Counting means the same in all three modules.
LEMMA SameCardinality ==
  ASSUME NEW S
  PROVE  TP!Cardinality(S) = Cardinality(S) /\ Table!Cardinality(S) = Cardinality(S)
  BY Zenon DEF TP!Cardinality, Table!Cardinality, Cardinality

LEMMA SameTable ==
  /\ TP!IInv <=> Table!IInv
  /\ TP!Roots = Table!Roots
  /\ TP!Used = Table!Used
  /\ \A a : (TP!mun_gc_add_ref(a) <=> Table!mun_gc_add_ref(a)) /\ (TP!mun_gc_del_ref(a) <=> Table!mun_gc_del_ref(a))
  /\ TP!mun_gc_init <=> Table!mun_gc_init
<1>1. TP!Roots = Table!Roots /\ TP!Used = Table!Used
  BY DEF TP!Roots, Table!Roots, TP!Used, Table!Used
<1>2. TP!IInv <=> Table!IInv
  BY <1>1 DEF TP!IInv, Table!IInv, TP!TypeOK, Table!TypeOK, TP!OneSlotPerRoot, Table!OneSlotPerRoot,
    TP!InBounds, Table!InBounds, TP!TailClear, Table!TailClear, TP!Slots, Table!Slots
<1>3. ASSUME NEW a PROVE TP!add_ref(a) <=> Table!add_ref(a)
  <2>1. TP!AddCovered(a) <=> Table!AddCovered(a)
    BY <1>1 DEF TP!AddCovered, Table!AddCovered, TP!vars, Table!vars, TP!Covers, Table!Covers
  <2>2. TP!AddReuse(a) <=> Table!AddReuse(a)
    BY <1>1 DEF TP!AddReuse, Table!AddReuse, TP!Covers, Table!Covers, TP!Cleared, Table!Cleared,
                TP!set_ref_block, Table!set_ref_block
  <2>3. TP!AddAppend(a) <=> Table!AddAppend(a)
    BY <1>1 DEF TP!AddAppend, Table!AddAppend, TP!Covers, Table!Covers, TP!Cleared, Table!Cleared,
                TP!set_ref_block, Table!set_ref_block
  <2> QED  BY <2>1, <2>2, <2>3 DEF TP!add_ref, Table!add_ref
<1>4. ASSUME NEW a PROVE TP!mun_gc_add_ref(a) <=> Table!mun_gc_add_ref(a)
  <2>1. TP!Roots \cup {a} = Table!Roots \cup {a}
    BY <1>1
  <2>2. TP!Cardinality(TP!Roots \cup {a}) = Table!Cardinality(Table!Roots \cup {a})
    BY <2>1, SameCardinality
  <2>3. TP!add_ref(a) <=> Table!add_ref(a)
    BY <1>3
  <2> QED  BY <2>2, <2>3 DEF TP!mun_gc_add_ref, Table!mun_gc_add_ref
<1>5. \A a : TP!mun_gc_del_ref(a) <=> Table!mun_gc_del_ref(a)
  BY <1>1 DEF TP!mun_gc_del_ref, Table!mun_gc_del_ref, TP!remove_ref, Table!remove_ref, TP!RemoveFound,
    Table!RemoveFound, TP!RemoveMissed, Table!RemoveMissed, TP!Covers, Table!Covers,
    TP!set_ref_block, Table!set_ref_block
<1>6. TP!mun_gc_init <=> Table!mun_gc_init
  BY DEF TP!mun_gc_init, Table!mun_gc_init, TP!Slots, Table!Slots
<1> QED  BY <1>1, <1>2, <1>4, <1>5, <1>6

LEMMA SameTableNext == (TP!IInv' <=> Table!IInv') /\ TP!Roots' = Table!Roots'
<1>1. TP!Roots' = Table!Roots' /\ TP!Used' = Table!Used'
  BY DEF TP!Roots, Table!Roots, TP!Used, Table!Used
<1>2. TP!IInv' <=> Table!IInv'
  BY <1>1 DEF TP!IInv, Table!IInv, TP!TypeOK, Table!TypeOK, TP!OneSlotPerRoot, Table!OneSlotPerRoot,
    TP!InBounds, Table!InBounds, TP!TailClear, Table!TailClear, TP!Slots, Table!Slots
<1> QED  BY <1>1, <1>2

\* What the table promises the collector.
LEMMA TableFacts ==
  ASSUME Table!IInv
  PROVE  /\ refs_count \in 0 .. Cardinality(Cell) + NChunks /\ refs_count < MaxRefs
         /\ Cardinality(Cell) \in Nat /\ Table!Roots \subseteq Cell \cup Chunk
         /\ \A i \in 0 .. refs_count - 1 : references[i] \in Table!Roots \cup {NULL}
         /\ \A r \in Table!Roots : r # NULL /\ \E i \in 0 .. refs_count - 1 : references[i] = r
<1>1. Cardinality(Cell) \in Nat /\ NChunks \in Nat /\ MaxRefs \in Nat /\ Cardinality(Cell) + NChunks < MaxRefs
  BY MinorGcAssumption, FS_CardinalityType
<1>2. refs_count \in 0 .. MaxRefs /\ refs_count <= Cardinality(Cell) + NChunks
  BY DEF Table!IInv, Table!TypeOK, Table!InBounds
<1>3. references \in [0 .. MaxRefs - 1 -> (Cell \cup Chunk) \cup {NULL}]
  BY DEF Table!IInv, Table!TypeOK, Table!Slots
<1>4. \A i \in 0 .. refs_count - 1 : references[i] \in (Cell \cup Chunk) \cup {NULL}
  BY <1>1, <1>2, <1>3
<1>5. refs_count \in 0 .. Cardinality(Cell) + NChunks /\ refs_count < MaxRefs
  BY <1>1, <1>2
<1> QED  BY <1>1, <1>4, <1>5 DEF Table!Roots, Table!Used

LEMMA TableAdd ==
  ASSUME Table!IInv, NEW a \in Cell \cup Chunk, Table!add_ref(a)
  PROVE  Table!IInv' /\ Table!Roots' = Table!Roots \cup {a} /\ Table!mun_gc_add_ref(a)
<1>1. Table!Roots \cup {a} \subseteq Cell \cup Chunk
  BY TableFacts
<1>2. Cardinality(Table!Roots \cup {a}) <= Cardinality(Cell) + NChunks
  BY <1>1, RootsFit
<1>3. Table!mun_gc_add_ref(a)
  BY <1>2, SameCardinality DEF Table!mun_gc_add_ref
<1>4. TP!IInv /\ TP!mun_gc_add_ref(a)
  BY <1>3, SameTable
<1>5. TP!Next
  BY <1>4 DEF TP!Next
<1>6. TP!IInv' /\ TP!Roots' = TP!Roots \cup {a}
  BY <1>4, <1>5, TableAssumption, TP!StepInv, TP!AddStep
<1> QED  BY <1>3, <1>6, SameTable, SameTableNext

LEMMA TableDel ==
  ASSUME Table!IInv, NEW a \in Cell \cup Chunk, Table!mun_gc_del_ref(a)
  PROVE  Table!IInv' /\ Table!Roots' = Table!Roots \ {a}
<1>1. TP!IInv /\ TP!mun_gc_del_ref(a)
  BY SameTable
<1>2. TP!Next
  BY <1>1 DEF TP!Next
<1>3. TP!IInv' /\ TP!Roots' = TP!Roots \ {a}
  BY <1>1, <1>2, TableAssumption, TP!StepInv, TP!DelStep
<1> QED  BY <1>3, SameTable, SameTableNext

LEMMA TableKept ==
  ASSUME UNCHANGED refs
  PROVE  /\ Table!Roots' = Table!Roots /\ refs_count' = refs_count /\ references' = references
         /\ Table!IInv => Table!IInv'
<1>1. refs_count' = refs_count /\ references' = references
  BY DEF refs
<1>2. Table!Roots' = Table!Roots
  BY <1>1 DEF Table!Roots, Table!Used
<1>3. Table!IInv => Table!IInv'
  BY <1>1 DEF Table!IInv, Table!TypeOK, Table!OneSlotPerRoot, Table!Used, Table!InBounds, Table!TailClear, Table!Slots
<1> QED  BY <1>1, <1>2, <1>3

LEMMA TableStart ==
  ASSUME Table!mun_gc_init
  PROVE  Table!IInv /\ Table!Roots = {}
<1>1. TP!mun_gc_init
  BY SameTable
<1>2. TP!IInv
  BY <1>1, TableAssumption, TP!InitInv
<1>3. Table!Roots = {}
  BY DEF Table!mun_gc_init, Table!Roots, Table!Used
<1> QED  BY <1>2, <1>3, SameTable
-----------------------------------------------------------------------------
\* Reachable is closed, and the least closed set.
LEMMA ReachableClosed == Reachable \subseteq Chunk /\ Closed(Reachable)
  BY DEF Reachable, Closed

LEMMA ReachableLeast ==
  ASSUME NEW S \in SUBSET Chunk, Closed(S)
  PROVE  Reachable \subseteq S
  BY DEF Reachable

LEMMA ReachableKept ==
  ASSUME UNCHANGED <<refs, head, cell>>
  PROVE  Reachable' = Reachable /\ (\A S : Closed(S)' = Closed(S)) /\ \A r : Deref(r)' = Deref(r)
<1>1. Table!Roots' = Table!Roots /\ head' = head /\ cell' = cell
  BY TableKept
<1>2. \A r : Deref(r)' = Deref(r)
  BY <1>1 DEF Deref
<1>3. ASSUME NEW S PROVE Closed(S)' = Closed(S)
  BY <1>1, <1>2 DEF Closed
<1>4. Reachable' = Reachable
  BY <1>3 DEF Reachable, Chunk, CHUNK_AT
<1> QED  BY <1>2, <1>3, <1>4

-----------------------------------------------------------------------------
LEMMA InitInv == Init => IInv
<1> SUFFICES ASSUME Init PROVE IInv
  OBVIOUS
<1>1. Table!IInv /\ Table!Roots = {}
  BY TableStart DEF Init, mun_gc_init
<1>2. /\ pc = "run" /\ idx = 0 /\ cur = Nil /\ wanted = Nil /\ free_chunk = 0
      /\ marked = [c \in Chunk |-> FALSE] /\ head = [c \in Chunk |-> Nil]
      /\ cell = [c \in Cell |-> Nil] /\ copy = [m \in Major |-> Nil]
      /\ backpatch = [c \in Chunk |-> NULL]
      /\ size = [o \in 0 .. HeapUnits |-> IF o = 0 THEN HeapUnits ELSE 0]
  BY DEF Init, mun_gc_init
<1>3. Table!TypeOK
  BY <1>1 DEF Table!IInv
<1>4. TypeOK
  BY <1>2, <1>3, ChunkFacts, MinorGcAssumption DEF TypeOK, Word
<1>5. size \in [0 .. HeapUnits -> Int] /\ size[0] > 0
  BY <1>2, MinorGcAssumption
<1>6. TypesInv
  BY <1>2, <1>4, <1>5, ChunkFacts DEF TypesInv
<1>7. PhaseInv /\ MarkInv /\ CopyInv /\ PatchInv /\ StaysDefined
  BY <1>2 DEF PhaseInv, Collecting, MarkInv, CopyInv, PatchInv, StaysDefined
<1>8. ClientInv
  BY <1>2, ChunkFacts DEF ClientInv, Handed
<1> QED  BY <1>1, <1>6, <1>7, <1>8 DEF IInv

\* Outside a collection its invariants say nothing.
LEMMA Outside ==
  ASSUME pc' = "run"
  PROVE  MarkInv' /\ CopyInv' /\ PatchInv' /\ StaysDefined' /\ ~Collecting'
  BY DEF MarkInv, CopyInv, PatchInv, StaysDefined, Collecting

\* Facts about the state while the client runs.
LEMMA RunFacts ==
  ASSUME IInv, pc = "run"
  PROVE  /\ Table!IInv /\ TypeOK /\ cur = Nil /\ wanted = Nil
         /\ \A c \in Cell : c \notin Table!Roots => cell[c] \notin Chunk
         /\ \A c \in Chunk : Handed(c) => ~marked[c] /\ Handed(head[c])
         /\ \A c \in Cell : Handed(cell[c])
         /\ \A m \in Major : copy[m] \notin Chunk
         /\ size \in [0 .. HeapUnits -> Int] /\ size[0] > 0
         /\ \A c \in Chunk : backpatch[c] \in {NULL, Place}
  BY DEF IInv, TypesInv, PhaseInv, ClientInv

LEMMA AddRootStep ==
  ASSUME IInv, NEW c \in Cell, AddRoot(c)
  PROVE  IInv'
<1>1. /\ pc = "run" /\ Table!mun_gc_add_ref(c)
      /\ UNCHANGED <<pc, idx, cur, wanted, free_chunk, marked, head, cell, copy, size, color, backpatch>>
  BY DEF AddRoot, heap
<1>2. Table!IInv' /\ Table!Roots' = Table!Roots \cup {c}
  <2>1. Table!add_ref(c)
    BY <1>1 DEF Table!mun_gc_add_ref
  <2> QED  BY <1>1, <2>1, RunFacts, TableAdd
<1>3. TypesInv'
  BY <1>1, <1>2, RunFacts DEF TypesInv, TypeOK, Table!IInv
<1>4. PhaseInv'
  BY <1>1, RunFacts DEF PhaseInv, Collecting
<1>5. ClientInv'
  BY <1>1, <1>2, RunFacts DEF ClientInv, Handed
<1> QED  BY <1>1, <1>2, <1>3, <1>4, <1>5, Outside DEF IInv

LEMMA DelRootStep ==
  ASSUME IInv, NEW c \in Cell, DelRoot(c)
  PROVE  IInv'
<1>1. /\ pc = "run" /\ Table!mun_gc_del_ref(c) /\ cell' = [cell EXCEPT ![c] = Nil]
      /\ UNCHANGED <<pc, idx, cur, wanted, free_chunk, marked, head, copy, size, color, backpatch>>
  BY DEF DelRoot, heap
<1>2. Table!IInv' /\ Table!Roots' = Table!Roots \ {c}
  BY <1>1, RunFacts, TableDel
<1>3. cell' \in [Cell -> Word] /\ cell'[c] \notin Chunk /\ \A d \in Cell \ {c} : cell'[d] = cell[d]
  BY <1>1, RunFacts, ChunkFacts DEF TypeOK, Word
<1>4. TypesInv'
  BY <1>1, <1>2, <1>3, RunFacts DEF TypesInv, TypeOK, Table!IInv
<1>5. PhaseInv'
  BY <1>1, RunFacts DEF PhaseInv, Collecting
<1>6. ClientInv'
  BY <1>1, <1>2, <1>3, RunFacts DEF ClientInv, Handed
<1> QED  BY <1>1, <1>2, <1>4, <1>5, <1>6, Outside DEF IInv

LEMMA StoreStep ==
  ASSUME IInv, NEW c \in Cell, NEW d \in Cell, Store(c, d)
  PROVE  IInv'
<1>1. /\ pc = "run" /\ cell[c] \in Chunk /\ head' = [head EXCEPT ![cell[c]] = cell[d]]
      /\ UNCHANGED <<pc, idx, cur, wanted, free_chunk, marked, cell, copy, size, color, backpatch, refs>>
  BY DEF Store, heap
<1>2. Table!IInv' /\ Table!Roots' = Table!Roots
  BY <1>1, RunFacts, TableKept
<1>3. head' \in [Chunk -> Word] /\ \A k \in Chunk : head'[k] = head[k] \/ head'[k] = cell[d]
  BY <1>1, RunFacts DEF TypeOK
<1>4. TypesInv'
  BY <1>1, <1>2, <1>3, RunFacts DEF TypesInv, TypeOK, Table!IInv
<1>5. PhaseInv'
  BY <1>1, RunFacts DEF PhaseInv, Collecting
<1>6. ClientInv'
  BY <1>1, <1>2, <1>3, RunFacts DEF ClientInv, Handed
<1> QED  BY <1>1, <1>2, <1>4, <1>5, <1>6, Outside DEF IInv

LEMMA LoadStep ==
  ASSUME IInv, NEW c \in Cell, NEW d \in Cell, Load(c, d)
  PROVE  IInv'
<1>1. /\ pc = "run" /\ c \in Table!Roots
      /\ \/ cell[d] \in Chunk /\ cell' = [cell EXCEPT ![c] = head[cell[d]]]
         \/ cell[d] \in Major /\ cell' = [cell EXCEPT ![c] = copy[cell[d]]]
      /\ UNCHANGED <<pc, idx, cur, wanted, free_chunk, marked, head, copy, size, color, backpatch, refs>>
  BY DEF Load, heap
<1>2. Table!IInv' /\ Table!Roots' = Table!Roots
  BY <1>1, RunFacts, TableKept
<1>3. /\ cell' \in [Cell -> Word] /\ Handed(cell'[c])
      /\ \A k \in Cell \ {c} : cell'[k] = cell[k]
  <2>1. CASE cell[d] \in Chunk /\ cell' = [cell EXCEPT ![c] = head[cell[d]]]
    <3>1. Handed(cell[d]) /\ Handed(head[cell[d]])
      BY <1>1, <2>1, RunFacts
    <3> QED  BY <1>1, <2>1, <3>1, RunFacts DEF TypeOK
  <2>2. CASE cell[d] \in Major /\ cell' = [cell EXCEPT ![c] = copy[cell[d]]]
    <3>1. copy[cell[d]] \in Word /\ copy[cell[d]] \notin Chunk
      BY <1>1, <2>2, RunFacts DEF TypeOK
    <3> QED  BY <1>1, <2>2, <3>1, RunFacts DEF TypeOK, Handed
  <2> QED  BY <1>1, <2>1, <2>2
<1>4. TypesInv'
  BY <1>1, <1>2, <1>3, RunFacts DEF TypesInv, TypeOK, Table!IInv
<1>5. PhaseInv'
  BY <1>1, RunFacts DEF PhaseInv, Collecting
<1>6. ClientInv'
  BY <1>1, <1>2, <1>3, RunFacts DEF ClientInv, Handed
<1> QED  BY <1>1, <1>2, <1>4, <1>5, <1>6, Outside DEF IInv

LEMMA BumpFacts ==
  ASSUME TypeOK, NEW c \in Cell, NEW at \in 0 .. NChunks - 1, Bump(c, at)
  PROVE  /\ marked' \in [Chunk -> BOOLEAN] /\ head' \in [Chunk -> Word] /\ cell' \in [Cell -> Word]
         /\ free_chunk' = at + 1 /\ free_chunk' \in 0 .. NChunks
         /\ ~marked'[CHUNK_AT(at)] /\ head'[CHUNK_AT(at)] = Nil /\ cell'[c] = CHUNK_AT(at)
         /\ \A k \in Chunk \ {CHUNK_AT(at)} : marked'[k] = marked[k] /\ head'[k] = head[k]
         /\ \A k \in Cell \ {c} : cell'[k] = cell[k]
<1>1. CHUNK_AT(at) \in Chunk /\ CHUNK_AT(at) \in Word /\ Nil \in Word
  BY ChunkFacts DEF Word
<1>2. at + 1 \in 0 .. NChunks
  BY ChunkFacts
<1> QED  BY <1>1, <1>2 DEF Bump, TypeOK

LEMMA AllocStep ==
  ASSUME IInv, NEW c \in Cell, minor_alloc(c)
  PROVE  IInv'
<1>1. /\ pc = "run" /\ c \in Table!Roots
      /\ UNCHANGED <<cur, copy, size, color, refs>>
  BY DEF minor_alloc, heap
<1>2. Table!IInv' /\ Table!Roots' = Table!Roots /\ refs_count' = refs_count
  BY <1>1, RunFacts, TableKept
<1>3. free_chunk \in 0 .. NChunks /\ NChunks \in Nat \ {0}
  BY <1>1, RunFacts, ChunkFacts DEF TypeOK
<1>4. CASE free_chunk < NChunks
  <2>1. Bump(c, free_chunk) /\ UNCHANGED <<pc, idx, wanted, backpatch>>
    BY <1>3, <1>4 DEF minor_alloc
  <2>2. free_chunk \in 0 .. NChunks - 1
    BY <1>3, <1>4
  <2>3. /\ marked' \in [Chunk -> BOOLEAN] /\ head' \in [Chunk -> Word] /\ cell' \in [Cell -> Word]
        /\ free_chunk' = free_chunk + 1 /\ free_chunk' \in 0 .. NChunks
        /\ ~marked'[CHUNK_AT(free_chunk)] /\ head'[CHUNK_AT(free_chunk)] = Nil
        /\ cell'[c] = CHUNK_AT(free_chunk)
        /\ \A k \in Chunk \ {CHUNK_AT(free_chunk)} : marked'[k] = marked[k] /\ head'[k] = head[k]
        /\ \A k \in Cell \ {c} : cell'[k] = cell[k]
    BY <1>1, <2>1, <2>2, RunFacts, BumpFacts
  <2>4. TypesInv'
    BY <1>1, <1>2, <2>1, <2>3, RunFacts DEF TypesInv, TypeOK, Table!IInv
  <2>5. PhaseInv'
    BY <1>1, <2>1, RunFacts DEF PhaseInv, Collecting
  <2>6. \A w : Handed(w) => Handed(w)'
    <3> SUFFICES ASSUME NEW w \in Chunk, w[2] < free_chunk PROVE w[2] < free_chunk'
      BY DEF Handed, Chunk, CHUNK_AT
    <3>1. w[2] \in 0 .. NChunks - 1 /\ free_chunk' = free_chunk + 1
      BY <2>3, ChunkFacts
    <3> QED  BY <1>3, <3>1
  <2>7. \A k \in Chunk : Handed(k)' => k = CHUNK_AT(free_chunk) \/ Handed(k)
    <3> SUFFICES ASSUME NEW k \in Chunk, k[2] < free_chunk + 1, k # CHUNK_AT(free_chunk)
                 PROVE  k[2] < free_chunk
      BY <2>3 DEF Handed, Chunk, CHUNK_AT
    <3>1. k[2] \in 0 .. NChunks - 1 /\ k = CHUNK_AT(k[2])
      BY ChunkFacts
    <3>2. k[2] # free_chunk
      BY <3>1
    <3> QED  BY <1>3, <3>1, <3>2
  <2>8. \A w : w = Nil \/ w = CHUNK_AT(free_chunk) => Handed(w)'
    <3>1. CHUNK_AT(free_chunk)[2] = free_chunk /\ free_chunk' = free_chunk + 1
      BY <2>2, <2>3, ChunkFacts
    <3>2. free_chunk < free_chunk'
      BY <1>3, <3>1
    <3>3. Nil \notin Chunk
      BY ChunkFacts
    <3> QED  BY <3>1, <3>2, <3>3 DEF Handed
  <2>9. \A k \in Chunk : Handed(k)' => ~marked'[k] /\ Handed(head[k])'
    <3> SUFFICES ASSUME NEW k \in Chunk, Handed(k)' PROVE ~marked'[k] /\ Handed(head[k])'
      OBVIOUS
    <3>1. CASE k = CHUNK_AT(free_chunk)
      BY <2>3, <2>8, <3>1 DEF Handed
    <3>2. CASE k # CHUNK_AT(free_chunk)
      <4>1. Handed(k) /\ head'[k] = head[k] /\ marked'[k] = marked[k]
        BY <2>3, <2>7, <3>2
      <4>2. ~marked[k] /\ Handed(head[k])
        BY <1>1, <4>1, RunFacts
      <4> QED  BY <2>6, <4>1, <4>2 DEF Handed
    <3> QED  BY <3>1, <3>2
  <2>10. \A k \in Cell : Handed(cell[k])'
    <3> SUFFICES ASSUME NEW k \in Cell PROVE Handed(cell[k])'
      OBVIOUS
    <3>1. CASE k = c
      BY <2>3, <2>8, <3>1 DEF Handed
    <3>2. CASE k # c
      <4>1. Handed(cell[k]) /\ cell'[k] = cell[k]
        BY <1>1, <2>3, <3>2, RunFacts
      <4> QED  BY <2>6, <4>1 DEF Handed
    <3> QED  BY <3>1, <3>2
  <2>11. ClientInv'
    BY <1>1, <1>2, <2>3, <2>9, <2>10, RunFacts DEF ClientInv
  <2> QED  BY <1>1, <1>2, <2>1, <2>4, <2>5, <2>11, Outside DEF IInv
<1>5. CASE free_chunk >= NChunks
  <2>1. /\ pc' = "mark" /\ idx' = 0 /\ wanted' = c /\ backpatch' = [k \in Chunk |-> NULL]
        /\ UNCHANGED <<free_chunk, marked, head, cell>>
    BY <1>3, <1>5 DEF minor_alloc
  <2>2. free_chunk = NChunks /\ free_chunk' = NChunks
    BY <1>3, <1>5, <2>1
  <2>3. 0 \in 0 .. MaxRefs /\ 0 <= refs_count
    BY <1>1, RunFacts, TableFacts, MinorGcAssumption
  <2>4. TypesInv'
    BY <1>1, <1>2, <2>1, <2>3, RunFacts DEF TypesInv, TypeOK, Table!IInv
  <2>5. PhaseInv'
    BY <1>1, <1>2, <2>1, <2>2, <2>3, RunFacts DEF PhaseInv, Collecting
  <2>6. ClientInv'
    BY <1>1, <1>2, <2>1, RunFacts DEF ClientInv
  <2>7. \A k \in Chunk : ~marked'[k]
    <3> SUFFICES ASSUME NEW k \in Chunk PROVE ~marked[k]
      BY <2>1 DEF Chunk, CHUNK_AT
    <3>1. k[2] < free_chunk
      <4>1. k[2] \in 0 .. NChunks - 1
        BY ChunkFacts
      <4> QED  BY <1>3, <2>2, <4>1
    <3> QED  BY <1>1, <3>1, RunFacts DEF Handed
  <2>8. cur' = Nil /\ Nil \notin Chunk /\ 0 .. idx' - 1 = {}
    BY <1>1, <2>1, RunFacts, ChunkFacts
  <2>9. MarkInv'
    BY <2>7, <2>8 DEF MarkInv, Marked
  <2>10. CopyInv' /\ PatchInv' /\ StaysDefined'
    BY <2>1 DEF CopyInv, PatchInv, StaysDefined
  <2> QED  BY <1>2, <2>4, <2>5, <2>6, <2>9, <2>10 DEF IInv
<1> QED  BY <1>3, <1>4, <1>5
-----------------------------------------------------------------------------
LEMMA CollectFacts ==
  ASSUME IInv, Collecting
  PROVE  /\ Table!IInv /\ TypeOK /\ TypesInv /\ free_chunk = NChunks /\ wanted \in Cell \cap Table!Roots
         /\ refs_count \in Nat /\ refs_count < MaxRefs /\ MaxRefs \in Nat /\ idx \in Nat
         /\ \A c \in Cell : c \notin Table!Roots => cell[c] \notin Chunk
         /\ \A i \in 0 .. refs_count - 1 : references[i] \in Table!Roots \cup {NULL}
         /\ \A r \in Table!Roots : r # NULL /\ \E i \in 0 .. refs_count - 1 : references[i] = r
         /\ head \in [Chunk -> Word] /\ marked \in [Chunk -> BOOLEAN] /\ cell \in [Cell -> Word]
<1>1. Table!IInv /\ TypeOK /\ TypesInv /\ free_chunk = NChunks /\ wanted \in Cell \cap Table!Roots
  BY DEF IInv, TypesInv, PhaseInv
<1>2. refs_count \in Nat /\ refs_count < MaxRefs /\ MaxRefs \in Nat
  BY <1>1, TableFacts, MinorGcAssumption
<1>3. /\ idx \in Nat /\ head \in [Chunk -> Word] /\ marked \in [Chunk -> BOOLEAN] /\ cell \in [Cell -> Word]
  BY <1>1, <1>2 DEF TypeOK
<1> QED  BY <1>1, <1>2, <1>3, TableFacts DEF IInv, ClientInv

LEMMA MarkMinorStep ==
  ASSUME IInv, mark_minor
  PROVE  IInv'
<1> DEFINE r == references[idx]
<1>1. /\ pc = "mark" /\ cur = Nil /\ idx < refs_count /\ idx' = idx + 1
      /\ cur' = IF r # NULL /\ Deref(r) \in Chunk THEN Deref(r) ELSE Nil
      /\ UNCHANGED <<pc, wanted, free_chunk, marked, head, cell, copy, size, color, backpatch, refs>>
  BY DEF mark_minor, heap
<1> HIDE DEF r
<1>2. Collecting
  BY <1>1 DEF Collecting
<1>3. /\ Table!IInv' /\ Table!Roots' = Table!Roots /\ refs_count' = refs_count /\ references' = references
  BY <1>1, <1>2, CollectFacts, TableKept
<1>4. Reachable' = Reachable /\ \A x : Deref(x)' = Deref(x)
  BY <1>1, ReachableKept
<1>5. idx \in 0 .. refs_count - 1 /\ idx' \in 0 .. MaxRefs /\ idx' <= refs_count /\ 0 .. idx' - 1 = (0 .. idx - 1) \cup {idx}
  BY <1>1, <1>2, CollectFacts
<1>6. r \in Table!Roots \cup {NULL}
  BY <1>2, <1>5, CollectFacts DEF r
<1>7. TypesInv'
  BY <1>1, <1>2, <1>3, <1>5, CollectFacts DEF TypesInv, TypeOK, Table!IInv
<1>8. PhaseInv'
  BY <1>1, <1>2, <1>3, <1>5 DEF IInv, PhaseInv, Collecting
<1>9. ClientInv'
  BY <1>1, <1>2, <1>3, CollectFacts DEF ClientInv
<1>10. MarkInv'
  <2>1. Marked' = Marked
    BY <1>1 DEF Marked, Chunk, CHUNK_AT
  <2>2. \A c \in Chunk : marked'[c] \/ c = cur' => c \in Reachable
    <3>1. cur' \in Chunk => cur' \in Reachable
      BY <1>1, <1>6, ReachableClosed, ChunkFacts DEF Closed
    <3> QED  BY <1>1, <3>1 DEF IInv, MarkInv
  <2>3. \A c \in Marked : head'[c] \in Chunk => head'[c] \in Marked \cup {cur'}
    BY <1>1, ChunkFacts DEF IInv, MarkInv
  <2>4. ASSUME NEW i \in 0 .. idx' - 1, references[i] # NULL, Deref(references[i]) \in Chunk
        PROVE  Deref(references[i]) \in Marked \cup {cur'}
    <3>1. CASE i = idx
      BY <1>1, <2>4, <3>1 DEF r
    <3>2. CASE i \in 0 .. idx - 1
      BY <1>1, <2>4, <3>2, ChunkFacts DEF IInv, MarkInv
    <3> QED  BY <1>5, <3>1, <3>2
  <2>5. \A i \in 0 .. idx' - 1 : references'[i] # NULL /\ Deref(references[i])' \in Chunk
                              => Deref(references[i])' \in Marked \cup {cur'}
    BY <1>1, <1>3, <2>4 DEF Deref
  <2> QED  BY <1>4, <2>1, <2>2, <2>3, <2>5 DEF MarkInv
<1>11. CopyInv' /\ PatchInv' /\ StaysDefined'
  BY <1>1 DEF CopyInv, PatchInv, StaysDefined
<1> QED  BY <1>3, <1>7, <1>8, <1>9, <1>10, <1>11 DEF IInv

LEMMA MarkChunkStep ==
  ASSUME IInv, mark_chunk
  PROVE  IInv'
<1>1. /\ pc = "mark" /\ cur \in Chunk /\ marked' = [marked EXCEPT ![cur] = TRUE]
      /\ cur' = IF head[cur] \in Chunk /\ ~marked'[head[cur]] THEN head[cur] ELSE Nil
      /\ UNCHANGED <<pc, idx, wanted, free_chunk, head, cell, copy, size, color, backpatch, refs>>
  BY DEF mark_chunk, heap
<1>2. Collecting
  BY <1>1 DEF Collecting
<1>3. /\ Table!IInv' /\ Table!Roots' = Table!Roots /\ refs_count' = refs_count /\ references' = references
  BY <1>1, <1>2, CollectFacts, TableKept
<1>4. Reachable' = Reachable /\ \A x : Deref(x)' = Deref(x)
  BY <1>1, ReachableKept
<1>5. marked' \in [Chunk -> BOOLEAN] /\ marked'[cur] /\ \A c \in Chunk \ {cur} : marked'[c] = marked[c]
  BY <1>1, <1>2, CollectFacts
<1>6. Marked' = Marked \cup {cur}
  BY <1>1, <1>5 DEF Marked
<1>7. TypesInv'
  BY <1>1, <1>2, <1>3, <1>5, CollectFacts DEF TypesInv, TypeOK, Table!IInv
<1>8. PhaseInv'
  BY <1>1, <1>2, <1>3 DEF IInv, PhaseInv, Collecting
<1>9. ClientInv'
  BY <1>1, <1>2, <1>3, CollectFacts DEF ClientInv
<1>10. MarkInv'
  <2>1. cur \in Reachable /\ (cur' \in Chunk => cur' \in Reachable)
    <3>1. cur \in Reachable
      BY <1>1 DEF IInv, MarkInv
    <3> QED  BY <1>1, <3>1, ReachableClosed, ChunkFacts DEF Closed
  <2>2. \A c \in Chunk : marked'[c] \/ c = cur' => c \in Reachable
    BY <1>1, <1>5, <2>1 DEF IInv, MarkInv
  <2>3. head[cur] \in Chunk => head[cur] \in Marked' \cup {cur'}
    BY <1>1 DEF Marked
  <2>4. \A c \in Marked' : head'[c] \in Chunk => head'[c] \in Marked' \cup {cur'}
    BY <1>1, <1>6, <2>3 DEF IInv, MarkInv
  <2>5. \A i \in 0 .. idx - 1 : references[i] # NULL /\ Deref(references[i]) \in Chunk
                              => Deref(references[i]) \in Marked'
    BY <1>1, <1>6 DEF IInv, MarkInv
  <2>6. \A i \in 0 .. idx' - 1 : references'[i] # NULL /\ Deref(references[i])' \in Chunk
                              => Deref(references[i])' \in Marked'
    BY <1>1, <1>3, <2>5 DEF Deref
  <2> QED  BY <1>4, <2>2, <2>4, <2>6 DEF MarkInv
<1>11. CopyInv' /\ PatchInv' /\ StaysDefined'
  BY <1>1 DEF CopyInv, PatchInv, StaysDefined
<1> QED  BY <1>3, <1>7, <1>8, <1>9, <1>10, <1>11 DEF IInv

\* A step to the next phase changes pc and idx only.
LEMMA PhaseStep ==
  ASSUME IInv, NEW from \in {"mark", "copy", "patch_refs", "patch_chunks"},
         NEW to \in {"copy", "patch_refs", "patch_chunks", "memcpy"},
         NEW limit, Phase(from, to, limit), pc = from
  PROVE  /\ Table!IInv' /\ Table!Roots' = Table!Roots /\ refs_count' = refs_count /\ references' = references
         /\ Reachable' = Reachable /\ (\A S : Closed(S)' = Closed(S)) /\ (\A r : Deref(r)' = Deref(r))
         /\ Marked' = Marked /\ pc' = to /\ cur = Nil /\ idx' = 0 /\ idx >= limit
         /\ UNCHANGED <<head, marked, backpatch>>
         /\ TypesInv' /\ PhaseInv' /\ ClientInv'
<1>1. /\ cur = Nil /\ idx >= limit /\ pc' = to /\ idx' = 0
      /\ UNCHANGED <<cur, wanted, free_chunk, marked, head, cell, copy, size, color, backpatch, refs>>
  BY DEF Phase, heap
<1>2. Collecting
  BY DEF Collecting
<1>3. /\ Table!IInv' /\ Table!Roots' = Table!Roots /\ refs_count' = refs_count /\ references' = references
  BY <1>1, <1>2, CollectFacts, TableKept
<1>4. Reachable' = Reachable /\ (\A S : Closed(S)' = Closed(S)) /\ \A r : Deref(r)' = Deref(r)
  BY <1>1, ReachableKept
<1>5. 0 \in 0 .. MaxRefs /\ 0 <= refs_count /\ 0 <= NChunks
  BY <1>2, CollectFacts, ChunkFacts
<1>6. TypesInv'
  BY <1>1, <1>2, <1>3, <1>5, CollectFacts DEF TypesInv, TypeOK, Table!IInv
<1>7. PhaseInv'
  BY <1>1, <1>2, <1>3, <1>5, CollectFacts DEF PhaseInv
<1>8. ClientInv'
  BY <1>1, <1>2, <1>3, CollectFacts DEF ClientInv
<1>9. Marked' = Marked
  BY <1>1 DEF Marked, Chunk, CHUNK_AT
<1> QED  BY <1>1, <1>3, <1>4, <1>6, <1>7, <1>8, <1>9

LEMMA MarkedStep ==
  ASSUME IInv, Phase("mark", "copy", refs_count)
  PROVE  IInv'
<1>1. pc = "mark" /\ Collecting
  BY DEF Phase, Collecting
<1>2. /\ Table!IInv' /\ Reachable' = Reachable /\ Marked' = Marked /\ pc' = "copy"
      /\ cur = Nil /\ idx' = 0 /\ idx >= refs_count /\ TypesInv' /\ PhaseInv' /\ ClientInv'
  BY <1>1, PhaseStep
<1>3. 0 .. refs_count - 1 \subseteq 0 .. idx - 1 /\ 0 .. idx' - 1 = {}
  BY <1>1, <1>2, CollectFacts
<1>4. \A c \in Marked : head[c] \in Chunk => head[c] \in Marked
  BY <1>1, <1>2, ChunkFacts DEF IInv, MarkInv
<1>5. ASSUME NEW r \in Table!Roots, Deref(r) \in Chunk PROVE Deref(r) \in Marked
  <2>1. PICK i \in 0 .. refs_count - 1 : references[i] = r /\ r # NULL
    BY <1>1, CollectFacts
  <2> QED  BY <1>1, <1>2, <1>3, <1>5, <2>1, ChunkFacts DEF IInv, MarkInv
<1>6. Marked \in SUBSET Chunk /\ Closed(Marked)
  BY <1>4, <1>5 DEF Closed, Marked
<1>7. Marked = Reachable
  <2>1. Marked \subseteq Reachable
    BY <1>1 DEF IInv, MarkInv, Marked
  <2> QED  BY <1>6, <2>1, ReachableLeast
<1>8. CopyInv'
  BY <1>2, <1>3, <1>7 DEF CopyInv
<1>9. MarkInv' /\ PatchInv' /\ StaysDefined'
  BY <1>2 DEF MarkInv, PatchInv, StaysDefined
<1> QED  BY <1>2, <1>8, <1>9 DEF IInv

LEMMA CopiedStep ==
  ASSUME IInv, Phase("copy", "patch_refs", CopyLimit)
  PROVE  IInv'
<1>1. pc = "copy" /\ Collecting
  BY DEF Phase, Collecting
<1>2. /\ Table!IInv' /\ (\A S : Closed(S)' = Closed(S)) /\ Marked' = Marked /\ pc' = "patch_refs"
      /\ idx' = 0 /\ idx >= CopyLimit /\ backpatch' = backpatch /\ TypesInv' /\ PhaseInv' /\ ClientInv'
  BY <1>1, PhaseStep
<1>3. 0 .. NChunks - 1 \subseteq 0 .. idx - 1 /\ 0 .. idx' - 1 = {}
  BY <1>1, <1>2, CollectFacts, ChunkFacts DEF CopyLimit
<1>4. Closed(Marked)
  BY <1>1, ReachableClosed DEF IInv, CopyInv
<1>5. ASSUME NEW c \in Marked PROVE backpatch[c] # NULL
  <2>1. c \in Chunk /\ marked[c] /\ c[2] \in 0 .. NChunks - 1 /\ c = CHUNK_AT(c[2])
    BY ChunkFacts DEF Marked
  <2> QED  BY <1>1, <1>3, <2>1 DEF IInv, CopyInv
<1>6. Closed(Marked)'
  <2>1. \A S : S = Marked => Closed(S)'
    BY <1>2, <1>4
  <2> QED  BY <1>2, <2>1 DEF Closed
<1>7. CopyInv'
  BY <1>2, <1>5, <1>6 DEF CopyInv
<1>8. PatchInv' /\ MarkInv' /\ StaysDefined'
  BY <1>2, <1>3 DEF PatchInv, MarkInv, StaysDefined
<1> QED  BY <1>2, <1>7, <1>8 DEF IInv

LEMMA RefsPatchedStep ==
  ASSUME IInv, Phase("patch_refs", "patch_chunks", refs_count)
  PROVE  IInv'
<1>1. pc = "patch_refs" /\ Collecting
  BY DEF Phase, Collecting
<1>2. /\ Table!IInv' /\ Table!Roots' = Table!Roots /\ (\A S : Closed(S)' = Closed(S)) /\ (\A r : Deref(r)' = Deref(r))
      /\ Marked' = Marked /\ pc' = "patch_chunks" /\ head' = head
      /\ idx' = 0 /\ idx >= refs_count /\ backpatch' = backpatch /\ TypesInv' /\ PhaseInv' /\ ClientInv'
  BY <1>1, PhaseStep
<1>3. 0 .. refs_count - 1 \subseteq 0 .. idx - 1 /\ 0 .. idx' - 1 = {}
  BY <1>1, <1>2, CollectFacts
<1>4. ASSUME NEW r \in Table!Roots PROVE Deref(r) \notin Chunk
  <2>1. PICK i \in 0 .. refs_count - 1 : references[i] = r /\ r # NULL
    BY <1>1, CollectFacts
  <2> QED  BY <1>1, <1>3, <2>1 DEF IInv, PatchInv
<1>5. \A r \in Table!Roots' : Deref(r)' \notin Chunk
  BY <1>2, <1>4
<1>6. PatchInv'
  BY <1>2, <1>3, <1>5 DEF PatchInv
<1>7. Closed(Marked)' /\ \A c \in Marked' : backpatch'[c] # NULL
  <2>1. Closed(Marked) /\ \A c \in Marked : backpatch[c] # NULL
    BY <1>1 DEF IInv, CopyInv
  <2>2. \A S : S = Marked => Closed(S)'
    BY <1>2, <2>1
  <2> QED  BY <1>2, <2>1, <2>2 DEF Closed
<1>8. CopyInv' /\ MarkInv' /\ StaysDefined'
  BY <1>2, <1>7 DEF CopyInv, MarkInv, StaysDefined
<1> QED  BY <1>2, <1>6, <1>8 DEF IInv

LEMMA ChunksPatchedStep ==
  ASSUME IInv, Phase("patch_chunks", "memcpy", refs_count)
  PROVE  IInv'
<1>1. pc = "patch_chunks" /\ Collecting
  BY DEF Phase, Collecting
<1>2. /\ Table!IInv' /\ Table!Roots' = Table!Roots /\ (\A S : Closed(S)' = Closed(S)) /\ (\A r : Deref(r)' = Deref(r))
      /\ Marked' = Marked /\ pc' = "memcpy" /\ head' = head /\ refs_count' = refs_count
      /\ idx' = 0 /\ idx >= refs_count /\ backpatch' = backpatch /\ TypesInv' /\ PhaseInv' /\ ClientInv'
  BY <1>1, PhaseStep
<1>3. 0 .. refs_count - 1 \subseteq 0 .. idx - 1
  BY <1>1, <1>2, CollectFacts
<1>4. \A r \in Table!Roots' : Deref(r)' \notin Chunk
  BY <1>1, <1>2 DEF IInv, PatchInv
<1>5. \A i \in 0 .. refs_count - 1 : HeadPatched(i)
  BY <1>1, <1>3 DEF IInv, PatchInv
<1>6. \A i \in 0 .. refs_count' - 1 : HeadPatched(i)'
  BY <1>2, <1>5 DEF HeadPatched
<1>7. PatchInv'
  BY <1>2, <1>4, <1>6 DEF PatchInv
<1>8. Closed(Marked)' /\ \A c \in Marked' : backpatch'[c] # NULL
  <2>1. Closed(Marked) /\ \A c \in Marked : backpatch[c] # NULL
    BY <1>1 DEF IInv, CopyInv
  <2>2. \A S : S = Marked => Closed(S)'
    BY <1>2, <2>1
  <2> QED  BY <1>2, <2>1, <2>2 DEF Closed
<1>9. CopyInv' /\ MarkInv' /\ StaysDefined'
  BY <1>2, <1>8 DEF CopyInv, MarkInv, StaysDefined
<1> QED  BY <1>2, <1>7, <1>9 DEF IInv
-----------------------------------------------------------------------------
\* A header that has room never sends the walk on, so it stops where it begins.
LEMMA StopsAtFirst ==
  ASSUME size[0] \in Int, size[0] > 0
  PROVE  MajorStop = 0
<1> DEFINE Walk(S) == 0 \in S /\ \A o \in S : GoesOn(o) => o + size[o] \in S
           met == {o \in 0 .. HeapUnits : \A S \in SUBSET (0 .. HeapUnits) : Walk(S) => o \in S}
<1>1. ~GoesOn(0)
  BY DEF GoesOn
<1>2. 0 \in 0 .. HeapUnits
  BY MinorGcAssumption
<1>3. Walk({0}) /\ {0} \in SUBSET (0 .. HeapUnits)
  BY <1>1, <1>2
<1>4. \A S : Walk(S) => 0 \in S
  OBVIOUS
<1> HIDE DEF Walk
<1>5. met = {0}
  BY <1>2, <1>3, <1>4
<1>6. MajorStop = CHOOSE o \in met : ~GoesOn(o)
  BY DEF MajorStop, Walk
<1> HIDE DEF met
<1> QED  BY <1>1, <1>5, <1>6

\* A root whose chunk is reachable anyway makes no other chunk reachable.
LEMMA ReachableRoot ==
  ASSUME UNCHANGED <<head, cell>>, NEW t \in Chunk \cap Reachable, Table!Roots' = Table!Roots \cup {t}
  PROVE  Reachable' = Reachable
<1>1. \A r : Deref(r)' = Deref(r)
  BY DEF Deref
<1>2. Deref(t) = head[t]
  BY ChunkFacts DEF Deref
<1>3. ASSUME NEW S, Closed(S)' PROVE Closed(S)
  BY <1>1, <1>3 DEF Closed
<1>4. \A S : S = Reachable => Closed(S)'
  BY <1>1, <1>2, ReachableClosed DEF Closed
<1>5. Reachable' = {c \in Chunk : \A S \in SUBSET Chunk : Closed(S)' => c \in S}
  BY DEF Reachable, Chunk, CHUNK_AT
<1>6. Reachable' \subseteq Reachable
  BY <1>4, <1>5, ReachableClosed
<1>7. Reachable \subseteq Reachable'
  BY <1>3, <1>5, ReachableLeast, ReachableClosed
<1> QED  BY <1>6, <1>7

LEMMA CopySlotStep ==
  ASSUME IInv, CopySlot
  PROVE  IInv'
<1> DEFINE c == CHUNK_AT(idx)
           target == head[c]
<1>1. /\ pc = "copy" /\ idx < free_chunk /\ idx' = idx + 1
      /\ UNCHANGED <<pc, cur, wanted, free_chunk, marked, head, cell, copy>>
  BY DEF CopySlot, CopyLimit
<1>2. Collecting
  BY <1>1 DEF Collecting
<1>3. idx \in 0 .. NChunks - 1 /\ c \in Chunk /\ idx' <= NChunks /\ 0 .. idx' - 1 = (0 .. idx - 1) \cup {idx}
  BY <1>1, <1>2, CollectFacts, ChunkFacts
<1>4. /\ size \in [0 .. HeapUnits -> Int] /\ size[0] > 0 /\ HeapUnits \in Nat \ {0} /\ MajorStop = 0
      /\ backpatch \in [Chunk -> {NULL} \cup Major] /\ Marked = Reachable
  <2>1. size \in [0 .. HeapUnits -> Int] /\ size[0] > 0 /\ HeapUnits \in Nat \ {0} /\ TypeOK
    BY <1>2, CollectFacts, MinorGcAssumption DEF TypesInv
  <2>2. size[0] \in Int
    BY <2>1
  <2> QED  BY <1>1, <2>1, <2>2, StopsAtFirst DEF TypeOK, IInv, CopyInv
<1>5. /\ size' \in [0 .. HeapUnits -> Int] /\ size'[0] > 0
      /\ backpatch' \in [Chunk -> {NULL} \cup Major]
      /\ \A k \in Chunk : backpatch'[k] = backpatch[k] \/ (k = c /\ backpatch'[k] = Place)
      /\ marked[c] => backpatch'[c] = Place
  <2>1. CASE marked[c]
    <3>1. size' = [size EXCEPT ![0 + 1] = size[0] - 1] /\ backpatch' = [backpatch EXCEPT ![c] = Place]
      BY <1>4, <2>1 DEF CopySlot, major_alloc, Place
    <3>2. size[0] - 1 \in Int /\ 0 + 1 \in 0 .. HeapUnits /\ 0 + 1 # 0
      BY <1>4
    <3>3. size' \in [0 .. HeapUnits -> Int] /\ size'[0] = size[0]
      BY <1>4, <3>1, <3>2
    <3>4. Place \in Major
      BY ChunkFacts
    <3> QED  BY <1>3, <1>4, <3>1, <3>3, <3>4
  <2>2. CASE ~marked[c]
    BY <1>4, <2>2 DEF CopySlot, heap
  <2> QED  BY <2>1, <2>2
<1>6. \/ UNCHANGED refs
      \/ target \in Chunk /\ marked[target] /\ Table!add_ref(target)
  BY DEF CopySlot
<1> HIDE DEF c, target
<1>7. /\ Table!IInv' /\ Table!Roots \subseteq Table!Roots' /\ Table!Roots' \ Table!Roots \subseteq Chunk
      /\ Reachable' = Reachable
  <2>1. CASE UNCHANGED refs
    BY <1>1, <1>2, <2>1, CollectFacts, TableKept, ReachableKept
  <2>2. CASE target \in Chunk /\ marked[target] /\ Table!add_ref(target)
    <3>1. Table!IInv' /\ Table!Roots' = Table!Roots \cup {target}
      BY <1>2, <2>2, CollectFacts, TableAdd
    <3>2. target \in Chunk \cap Reachable
      BY <1>4, <2>2 DEF Marked
    <3>3. Reachable' = Reachable
      BY <1>1, <3>1, <3>2, ReachableRoot
    <3> QED  BY <2>2, <3>1, <3>3
  <2> QED  BY <1>6, <2>1, <2>2
<1>8. TypesInv'
  <2>1. idx' \in 0 .. MaxRefs
    BY <1>1, <1>3, MinorGcAssumption, FS_CardinalityType
  <2>2. TypeOK'
    BY <1>1, <1>2, <1>5, <1>7, <2>1, CollectFacts DEF TypeOK, Table!IInv
  <2>3. \A k \in Chunk : backpatch'[k] \in {NULL, Place}
    BY <1>2, <1>5, CollectFacts DEF TypesInv
  <2>4. \A m \in Major : copy'[m] \notin Chunk
    BY <1>1, <1>2, CollectFacts DEF TypesInv
  <2> QED  BY <1>5, <2>2, <2>3, <2>4 DEF TypesInv, Chunk, CHUNK_AT, Major
<1>9. PhaseInv'
  BY <1>1, <1>2, <1>3, <1>7, CollectFacts DEF IInv, PhaseInv
<1>10. ClientInv'
  BY <1>1, <1>2, <1>7, CollectFacts, ChunkFacts DEF ClientInv
<1>11. CopyInv'
  <2>1. Marked' = Marked
    BY <1>1 DEF Marked, Chunk, CHUNK_AT
  <2>2. ASSUME NEW i \in 0 .. idx' - 1, marked[CHUNK_AT(i)] PROVE backpatch'[CHUNK_AT(i)] # NULL
    <3>1. CHUNK_AT(i) \in Chunk
      BY <1>3, ChunkFacts
    <3>2. NULL # Place
      BY ChunkFacts
    <3>3. CASE i = idx
      BY <1>5, <2>2, <3>2, <3>3 DEF c
    <3>4. CASE i \in 0 .. idx - 1
      BY <1>1, <1>5, <2>2, <3>1, <3>2, <3>4 DEF IInv, CopyInv
    <3> QED  BY <1>3, <3>3, <3>4
  <2> QED  BY <1>1, <1>4, <1>7, <2>1, <2>2 DEF CopyInv, CHUNK_AT
<1>12. MarkInv' /\ PatchInv' /\ StaysDefined'
  BY <1>1 DEF MarkInv, PatchInv, StaysDefined
<1> QED  BY <1>7, <1>8, <1>9, <1>10, <1>11, <1>12 DEF IInv
-----------------------------------------------------------------------------
\* What patching a word does to it.
LEMMA ForwardFacts ==
  ASSUME TypesInv, NEW w \in Word
  PROVE  /\ Forward(w) \in {w, Place} /\ Forward(w) \in Word
         /\ w \in Marked /\ backpatch[w] # NULL => Forward(w) \notin Chunk
         /\ w \notin Chunk => Forward(w) = w
<1>1. Place \in Word /\ Place \notin Chunk
  BY ChunkFacts DEF Word
<1>2. \A k \in Chunk : backpatch[k] \in {NULL, Place}
  BY DEF TypesInv
<1> QED  BY <1>1, <1>2 DEF Forward, Marked

\* Patching only takes words out of the minor heap, so a closed set stays closed.
LEMMA ClosedKept ==
  ASSUME NEW S \in SUBSET Chunk, Closed(S), UNCHANGED refs, Table!IInv,
         \A k \in Chunk : head'[k] = head[k] \/ head'[k] \notin Chunk,
         \A k \in Cell : cell'[k] = cell[k] \/ cell'[k] \notin Chunk
  PROVE  \A T : T = S => Closed(T)'
<1>1. Table!Roots' = Table!Roots /\ Table!Roots \subseteq Cell \cup Chunk
  BY TableKept, TableFacts
<1>2. ASSUME NEW r \in Table!Roots, Deref(r)' \in Chunk PROVE Deref(r)' \in S
  <2>1. Deref(r)' = Deref(r)
    BY <1>1, <1>2 DEF Deref
  <2> QED  BY <1>2, <2>1 DEF Closed
<1>3. \A k \in S : head'[k] \in Chunk => head'[k] \in S
  BY DEF Closed
<1>4. Chunk' = Chunk
  BY DEF Chunk, CHUNK_AT
<1> QED  BY <1>1, <1>2, <1>3 DEF Closed

LEMMA PatchRefStep ==
  ASSUME IInv, backpatch_refs
  PROVE  IInv'
<1> DEFINE r == references[idx]
<1>1. /\ pc = "patch_refs" /\ idx < refs_count /\ idx' = idx + 1
      /\ cell' = IF r \in Cell THEN [cell EXCEPT ![r] = Forward(cell[r])] ELSE cell
      /\ head' = IF r \in Chunk THEN [head EXCEPT ![r] = Forward(head[r])] ELSE head
      /\ UNCHANGED <<pc, cur, wanted, free_chunk, marked, copy, size, color, backpatch, refs>>
  BY DEF backpatch_refs, heap
<1> HIDE DEF r
<1>2. Collecting /\ TypesInv
  BY <1>1, CollectFacts DEF Collecting
<1>3. /\ Table!IInv' /\ Table!Roots' = Table!Roots /\ refs_count' = refs_count /\ references' = references
  BY <1>1, <1>2, CollectFacts, TableKept
<1>4. idx \in 0 .. refs_count - 1 /\ idx' \in 0 .. MaxRefs /\ idx' <= refs_count /\ 0 .. idx' - 1 = (0 .. idx - 1) \cup {idx}
  BY <1>1, <1>2, CollectFacts
<1>5. r \in Table!Roots \cup {NULL} /\ Table!Roots \subseteq Cell \cup Chunk
  BY <1>2, <1>4, CollectFacts, TableFacts DEF r
<1>6. Closed(Marked) /\ \A k \in Marked : backpatch[k] # NULL
  BY <1>1 DEF IInv, CopyInv
<1>7. /\ head' \in [Chunk -> Word] /\ cell' \in [Cell -> Word]
      /\ \A k \in Chunk : head'[k] \in {head[k], Place}
      /\ \A k \in Cell : cell'[k] \in {cell[k], Place}
  BY <1>1, <1>2, CollectFacts, ForwardFacts
<1>8. Place \notin Chunk /\ NULL \notin Cell \cup Chunk /\ Cell \cap Chunk = {}
  BY ChunkFacts
<1>9. \A x : x = r /\ x # NULL => Deref(x)' \notin Chunk
  <2> SUFFICES ASSUME r # NULL PROVE \A x : x = r => Deref(x)' \notin Chunk
    OBVIOUS
  <2>1. r \in Table!Roots /\ Deref(r) \in Word
    BY <1>2, <1>5, CollectFacts DEF Deref
  <2>2. Deref(r) \in Chunk => Deref(r) \in Marked /\ backpatch[Deref(r)] # NULL
    BY <1>6, <2>1 DEF Closed
  <2>3. Forward(Deref(r)) \notin Chunk
    BY <1>2, <2>1, <2>2, ForwardFacts
  <2>4. \A x : x = r => Deref(x)' = Forward(Deref(r))
    BY <1>1, <1>2, <1>5, <1>8, <2>1, CollectFacts DEF Deref
  <2> QED  BY <2>3, <2>4
<1>10. TypesInv'
  BY <1>1, <1>2, <1>3, <1>4, <1>7, CollectFacts DEF TypesInv, TypeOK, Table!IInv
<1>11. PhaseInv'
  BY <1>1, <1>2, <1>3, <1>4 DEF IInv, PhaseInv
<1>12. ClientInv'
  BY <1>1, <1>2, <1>3, <1>7, <1>8, CollectFacts DEF ClientInv
<1>13. CopyInv'
  <2>1. Marked' = Marked
    BY <1>1 DEF Marked, Chunk, CHUNK_AT
  <2>2. Marked \in SUBSET Chunk
    BY DEF Marked
  <2>3. \A T : T = Marked => Closed(T)'
    BY <1>1, <1>2, <1>6, <1>7, <1>8, <2>2, CollectFacts, ClosedKept
  <2>4. Closed(Marked)'
    BY <2>1, <2>3 DEF Closed
  <2> QED  BY <1>1, <1>6, <2>1, <2>4 DEF CopyInv
<1>14. PatchInv'
  <2>1. ASSUME NEW i \in 0 .. idx' - 1, references[i] # NULL PROVE \A x : x = references[i] => Deref(x)' \notin Chunk
    <3>1. CASE i = idx
      BY <1>9, <2>1, <3>1 DEF r
    <3>2. CASE i \in 0 .. idx - 1
      <4>1. Deref(references[i]) \notin Chunk
        BY <1>1, <2>1, <3>2 DEF IInv, PatchInv
      <4>2. references[i] \in Cell \cup Chunk
        <5>1. i \in 0 .. refs_count - 1
          BY <1>2, <1>4, <3>2, CollectFacts
        <5> QED  BY <1>2, <1>5, <2>1, <5>1, CollectFacts
      <4> QED  BY <1>7, <1>8, <4>1, <4>2 DEF Deref
    <3> QED  BY <1>4, <3>1, <3>2
  <2>2. \A i \in 0 .. idx' - 1 : references'[i] # NULL => Deref(references[i])' \notin Chunk
    BY <1>3, <2>1 DEF Deref
  <2> QED  BY <1>1, <2>2 DEF PatchInv
<1>15. MarkInv' /\ StaysDefined'
  BY <1>1 DEF MarkInv, StaysDefined
<1> QED  BY <1>3, <1>10, <1>11, <1>12, <1>13, <1>14, <1>15 DEF IInv

LEMMA PatchChunkStep ==
  ASSUME IInv, backpatch_chunk
  PROVE  IInv'
<1> DEFINE c == CHUNK_AT(idx)
<1>1. /\ pc = "patch_chunks" /\ idx < refs_count
      /\ \/ PatchDefined(c) /\ head' = [head EXCEPT ![c] = Forward(head[c])] /\ idx' = idx + 1 /\ UNCHANGED pc
         \/ ~PatchDefined(c) /\ pc' = "undefined" /\ UNCHANGED <<head, idx>>
      /\ UNCHANGED <<cur, wanted, free_chunk, marked, cell, copy, size, color, backpatch, refs>>
  BY DEF backpatch_chunk, heap
<1>2. Collecting /\ TypesInv
  BY <1>1, CollectFacts DEF Collecting
<1>3. /\ Table!IInv' /\ Table!Roots' = Table!Roots /\ refs_count' = refs_count /\ references' = references
  BY <1>1, <1>2, CollectFacts, TableKept
<1>4. idx \in 0 .. refs_count - 1 /\ idx + 1 \in 0 .. MaxRefs /\ 0 .. (idx + 1) - 1 = (0 .. idx - 1) \cup {idx}
  BY <1>1, <1>2, CollectFacts
<1>5. Closed(Marked) /\ \A k \in Marked : backpatch[k] # NULL
  BY <1>1 DEF IInv, CopyInv
<1>6. Marked' = Marked
  BY <1>1 DEF Marked, Chunk, CHUNK_AT
<1>7. /\ head' \in [Chunk -> Word]
      /\ \A k \in Chunk : head'[k] \in {head[k], Place} /\ (head[k] \notin Chunk => head'[k] = head[k])
      /\ idx' \in 0 .. MaxRefs
  <2>1. CASE PatchDefined(c) /\ head' = [head EXCEPT ![c] = Forward(head[c])] /\ idx' = idx + 1
    <3>1. c \in Chunk
      BY <2>1 DEF PatchDefined
    <3>2. head[c] \in Word /\ head \in [Chunk -> Word]
      BY <1>2, <3>1, CollectFacts
    <3>3. Forward(head[c]) \in {head[c], Place} /\ Forward(head[c]) \in Word /\ (head[c] \notin Chunk => Forward(head[c]) = head[c])
      BY <1>2, <3>2, ForwardFacts
    <3> HIDE DEF c
    <3> QED  BY <1>4, <2>1, <3>1, <3>2, <3>3
  <2>2. CASE UNCHANGED <<head, idx>>
    BY <1>2, <2>2, CollectFacts DEF TypeOK
  <2> QED  BY <1>1, <2>1, <2>2
<1>8. Place \notin Chunk
  BY ChunkFacts
<1>9. TypesInv'
  <2>1. pc' \in {"patch_chunks", "undefined"}
    BY <1>1
  <2> QED  BY <1>1, <1>2, <1>3, <1>7, <2>1, CollectFacts DEF TypesInv, TypeOK, Table!IInv
<1>10. ClientInv'
  <2>1. pc' # "run"
    BY <1>1
  <2> QED  BY <1>1, <1>2, <1>3, <2>1, CollectFacts DEF ClientInv
<1>11. \A r \in Table!Roots : Deref(r)' \notin Chunk
  <2>1. ASSUME NEW r \in Table!Roots PROVE Deref(r)' \notin Chunk
    <3>1. Deref(r) \notin Chunk
      BY <1>1 DEF IInv, PatchInv
    <3>2. r \in Cell \cup Chunk
      BY <1>2, CollectFacts, TableFacts
    <3> QED  BY <1>1, <1>7, <3>1, <3>2 DEF Deref
  <2> QED  BY <2>1
<1>12. CASE PatchDefined(c) /\ head' = [head EXCEPT ![c] = Forward(head[c])] /\ idx' = idx + 1 /\ UNCHANGED pc
  <2>1. PhaseInv'
    BY <1>1, <1>2, <1>3, <1>4, <1>12, CollectFacts DEF IInv, PhaseInv
  <2>2. CopyInv'
    <3>1. Marked \in SUBSET Chunk
      BY DEF Marked
    <3>2. \A T : T = Marked => Closed(T)'
      BY <1>1, <1>2, <1>5, <1>7, <1>8, <3>1, CollectFacts, ClosedKept
    <3>3. Closed(Marked)'
      BY <1>6, <3>2 DEF Closed
    <3> QED  BY <1>1, <1>5, <1>6, <1>12, <3>3 DEF CopyInv
  <2>3. c \in Marked => head'[c] \notin Chunk
    <3> SUFFICES ASSUME c \in Marked PROVE head'[c] \notin Chunk
      OBVIOUS
    <3>1. c \in Chunk /\ head[c] \in Word /\ head \in [Chunk -> Word]
      BY <1>2, CollectFacts DEF Marked
    <3>2. head[c] \in Chunk => head[c] \in Marked /\ backpatch[head[c]] # NULL
      BY <1>5 DEF Closed
    <3>3. Forward(head[c]) \notin Chunk
      BY <1>2, <3>1, <3>2, ForwardFacts
    <3> QED  BY <1>12, <3>1, <3>3
  <2>4. \A i \in 0 .. idx' - 1 : CHUNK_AT(i) \in Marked => head'[CHUNK_AT(i)] \notin Chunk
    <3>1. ASSUME NEW i \in 0 .. idx - 1, CHUNK_AT(i) \in Marked PROVE head'[CHUNK_AT(i)] \notin Chunk
      <4>1. CHUNK_AT(i) \in Chunk /\ head[CHUNK_AT(i)] \notin Chunk
        BY <1>1, <3>1 DEF IInv, PatchInv, HeadPatched, Marked
      <4> QED  BY <1>7, <4>1
    <3> QED  BY <1>4, <1>12, <2>3, <3>1
  <2>5. PatchInv'
    <3>1. \A i \in 0 .. idx' - 1 : HeadPatched(i)'
      BY <1>6, <2>4 DEF HeadPatched, CHUNK_AT, Chunk
    <3>2. \A r \in Table!Roots' : Deref(r)' \notin Chunk'
      BY <1>3, <1>11 DEF Chunk, CHUNK_AT
    <3> QED  BY <1>1, <1>12, <3>1, <3>2 DEF PatchInv
  <2>6. MarkInv' /\ StaysDefined'
    BY <1>1, <1>12 DEF MarkInv, StaysDefined
  <2> QED  BY <1>3, <1>9, <1>10, <2>1, <2>2, <2>5, <2>6 DEF IInv
<1>13. CASE ~PatchDefined(c) /\ pc' = "undefined" /\ UNCHANGED <<head, idx>>
  <2>1. c \notin Chunk
    BY <1>5, <1>13 DEF PatchDefined, Marked
  <2>2. ~(idx < NChunks)
    BY <1>4, <2>1, ChunkFacts
  <2>3. refs_count' > NChunks
    BY <1>2, <1>3, <1>4, <2>2, CollectFacts, ChunkFacts
  <2>4. PhaseInv'
    BY <1>1, <1>13 DEF IInv, PhaseInv, Collecting
  <2>5. MarkInv' /\ CopyInv' /\ PatchInv' /\ StaysDefined'
    BY <1>13, <2>3 DEF MarkInv, CopyInv, PatchInv, StaysDefined
  <2> QED  BY <1>3, <1>9, <1>10, <2>4, <2>5 DEF IInv
<1> QED  BY <1>1, <1>12, <1>13

LEMMA MemcpyStep ==
  ASSUME IInv, memcpy_chunk
  PROVE  IInv'
<1> DEFINE c == CHUNK_AT(idx)
<1>1. /\ pc = "memcpy" /\ idx < refs_count
      /\ IF ~CopyDefined(c) THEN pc' = "undefined" /\ UNCHANGED <<idx, copy, size, color>>
         ELSE /\ idx' = idx + 1 /\ UNCHANGED pc
              /\ IF marked[c] THEN /\ copy' = [copy EXCEPT ![backpatch[c]] = head[c]]
                                   /\ size' = [size EXCEPT ![backpatch[c][2]] = 1]
                 ELSE UNCHANGED <<copy, size>>
      /\ UNCHANGED <<cur, wanted, free_chunk, marked, head, cell, backpatch, refs>>
  BY DEF memcpy_chunk, heap
<1>2. Collecting /\ TypesInv
  BY <1>1, CollectFacts DEF Collecting
<1>3. /\ Table!IInv' /\ Table!Roots' = Table!Roots /\ refs_count' = refs_count /\ references' = references
  BY <1>1, <1>2, CollectFacts, TableKept
<1>4. idx \in 0 .. refs_count - 1 /\ idx + 1 \in 0 .. MaxRefs
  BY <1>1, <1>2, CollectFacts
<1>5. Closed(Marked) /\ \A k \in Marked : backpatch[k] # NULL
  BY <1>1 DEF IInv, CopyInv
<1>6. /\ Marked' = Marked /\ (\A S : Closed(S)' = Closed(S)) /\ \A r : Deref(r)' = Deref(r)
  BY <1>1, ReachableKept DEF Marked, Chunk, CHUNK_AT
<1>7. Closed(Marked)'
  <2>1. \A S : S = Marked => Closed(S)'
    BY <1>5, <1>6
  <2> QED  BY <1>6, <2>1 DEF Closed
<1>8. ClientInv'
  <2>1. pc' # "run"
    BY <1>1
  <2> QED  BY <1>1, <1>2, <1>3, <2>1, CollectFacts DEF ClientInv
<1>9. CASE CopyDefined(c)
  <2>1. /\ copy' \in [Major -> Word] /\ (\A m \in Major : copy'[m] \notin Chunk)
        /\ size' \in [0 .. HeapUnits -> Int] /\ size'[0] > 0
    <3>1. CASE marked[c]
      <4>1. c \in Chunk /\ backpatch[c] = Place
        BY <1>2, <1>9, <3>1 DEF CopyDefined, TypesInv
      <4>2. head[c] \notin Chunk /\ head[c] \in Word
        BY <1>1, <1>2, <1>4, <3>1, <4>1, CollectFacts DEF IInv, PatchInv, HeadPatched, Marked
      <4>3. backpatch[c][2] = 0 /\ 0 \in 0 .. HeapUnits
        BY <4>1, MinorGcAssumption DEF Place
      <4>4. size' = [size EXCEPT ![0] = 1] /\ copy' = [copy EXCEPT ![Place] = head[c]]
        BY <1>1, <1>9, <3>1, <4>1, <4>3
      <4>5. size' \in [0 .. HeapUnits -> Int] /\ size'[0] > 0
        BY <1>2, <4>3, <4>4 DEF TypesInv
      <4>6. copy \in [Major -> Word] /\ (\A m \in Major : copy[m] \notin Chunk) /\ Place \in Major
        BY <1>2, ChunkFacts DEF TypesInv, TypeOK
      <4> HIDE DEF c
      <4> QED  BY <4>2, <4>4, <4>5, <4>6
    <3>2. CASE ~marked[c]
      BY <1>1, <1>2, <1>9, <3>2 DEF TypesInv, TypeOK
    <3> QED  BY <3>1, <3>2
  <2>2. idx' = idx + 1 /\ pc' = pc
    BY <1>1, <1>9
  <2>3. TypesInv'
    BY <1>1, <1>2, <1>3, <1>4, <2>1, <2>2, CollectFacts DEF TypesInv, TypeOK, Table!IInv
  <2>4. PhaseInv'
    BY <1>1, <1>2, <1>3, <1>4, <2>2, CollectFacts DEF IInv, PhaseInv
  <2>5. CopyInv'
    BY <1>1, <1>5, <1>6, <1>7, <2>2 DEF CopyInv
  <2>6. PatchInv'
    <3>1. \A i \in 0 .. refs_count' - 1 : HeadPatched(i)'
      BY <1>1, <1>3, <1>6 DEF IInv, PatchInv, HeadPatched
    <3>2. \A r \in Table!Roots' : Deref(r)' \notin Chunk
      BY <1>1, <1>3, <1>6 DEF IInv, PatchInv
    <3> QED  BY <1>1, <2>2, <3>1, <3>2 DEF PatchInv
  <2>7. MarkInv' /\ StaysDefined'
    BY <1>1, <2>2 DEF MarkInv, StaysDefined
  <2> QED  BY <1>3, <1>8, <2>3, <2>4, <2>5, <2>6, <2>7 DEF IInv
<1>10. CASE ~CopyDefined(c)
  <2>1. pc' = "undefined" /\ UNCHANGED <<idx, copy, size>>
    BY <1>1, <1>10
  <2>2. c \notin Chunk
    BY <1>5, <1>10 DEF CopyDefined, Marked
  <2>3. ~(idx < NChunks)
    BY <1>4, <2>2, ChunkFacts
  <2>4. refs_count' > NChunks
    BY <1>2, <1>3, <1>4, <2>3, CollectFacts, ChunkFacts
  <2>5. TypesInv'
    BY <1>1, <1>2, <1>3, <2>1, CollectFacts DEF TypesInv, TypeOK, Table!IInv
  <2>6. PhaseInv'
    BY <1>1, <2>1 DEF IInv, PhaseInv, Collecting
  <2>7. MarkInv' /\ CopyInv' /\ PatchInv' /\ StaysDefined'
    BY <2>1, <2>4 DEF MarkInv, CopyInv, PatchInv, StaysDefined
  <2> QED  BY <1>3, <1>8, <2>5, <2>6, <2>7 DEF IInv
<1> QED  BY <1>9, <1>10

LEMMA FinishStep ==
  ASSUME IInv, Finish
  PROVE  IInv'
<1>1. /\ pc = "memcpy" /\ Bump(wanted, 0) /\ pc' = "run" /\ idx' = 0 /\ wanted' = Nil
      /\ UNCHANGED <<cur, copy, size, color, backpatch, refs>>
  BY DEF Finish, heap
<1>2. Collecting /\ TypesInv /\ wanted \in Cell \cap Table!Roots
  BY <1>1, CollectFacts DEF Collecting
<1>3. /\ Table!IInv' /\ Table!Roots' = Table!Roots
  BY <1>1, <1>2, CollectFacts, TableKept
<1>4. 0 \in 0 .. NChunks - 1 /\ 0 \in 0 .. MaxRefs /\ 0 + 1 = 1
  BY <1>2, CollectFacts, ChunkFacts
<1>5. /\ marked' \in [Chunk -> BOOLEAN] /\ head' \in [Chunk -> Word] /\ cell' \in [Cell -> Word]
      /\ free_chunk' = 1 /\ free_chunk' \in 0 .. NChunks
      /\ ~marked'[CHUNK_AT(0)] /\ head'[CHUNK_AT(0)] = Nil /\ cell'[wanted] = CHUNK_AT(0)
      /\ \A k \in Cell \ {wanted} : cell'[k] = cell[k]
  BY <1>1, <1>2, <1>4, CollectFacts, BumpFacts
<1>6. \A k \in Cell : cell[k] \notin Chunk
  <2>1. ASSUME NEW k \in Cell \cap Table!Roots PROVE cell[k] \notin Chunk
    BY <1>1 DEF IInv, PatchInv, Deref
  <2> QED  BY <1>2, <2>1, CollectFacts
<1>7. TypesInv'
  BY <1>1, <1>2, <1>3, <1>4, <1>5, CollectFacts DEF TypesInv, TypeOK, Table!IInv
<1>8. PhaseInv'
  BY <1>1 DEF IInv, PhaseInv, Collecting
<1>9. \A k \in Chunk : k[2] < 1 => k = CHUNK_AT(0)
  <2>1. ASSUME NEW k \in Chunk, k[2] < 1 PROVE k = CHUNK_AT(0)
    <3>1. k[2] \in 0 .. NChunks - 1 /\ k = CHUNK_AT(k[2])
      BY ChunkFacts
    <3>2. k[2] = 0
      BY <2>1, <3>1
    <3> QED  BY <3>1, <3>2
  <2> QED  BY <2>1
<1>10. CHUNK_AT(0)[2] = 0 /\ Nil \notin Chunk /\ 0 < 1
  BY <1>4, ChunkFacts
<1>11. ClientInv'
  <2>1. \A k \in Chunk : k[2] < 1 => ~marked'[k] /\ head'[k] = Nil
    BY <1>5, <1>9
  <2>2. \A k \in Cell : cell'[k] \in Chunk => cell'[k][2] < 1
    BY <1>5, <1>6, <1>10
  <2>3. \A k \in Cell : k \notin Table!Roots => cell'[k] \notin Chunk
    BY <1>2, <1>5, <1>6
  <2> QED  BY <1>3, <1>5, <1>10, <2>1, <2>2, <2>3 DEF ClientInv, Handed
<1> QED  BY <1>1, <1>3, <1>7, <1>8, <1>11, Outside DEF IInv
-----------------------------------------------------------------------------
LEMMA IdleStep ==
  ASSUME IInv, UNCHANGED vars
  PROVE  IInv'
<1>1. UNCHANGED <<pc, idx, cur, wanted, free_chunk, marked, head, cell, copy, size, color, backpatch, refs>>
  BY DEF vars, heap
<1>2. /\ Table!IInv' /\ Table!Roots' = Table!Roots /\ refs_count' = refs_count /\ references' = references
  BY <1>1, TableKept DEF IInv
<1>3. /\ Reachable' = Reachable /\ (\A S : Closed(S)' = Closed(S)) /\ \A r : Deref(r)' = Deref(r)
  BY <1>1, ReachableKept
<1>4. Marked' = Marked
  BY <1>1 DEF Marked, Chunk, CHUNK_AT
<1>5. TypesInv' /\ PhaseInv' /\ ClientInv' /\ StaysDefined'
  <2>1. TypesInv'
    BY <1>1, <1>2 DEF IInv, TypesInv, TypeOK, Table!IInv
  <2>2. PhaseInv'
    BY <1>1, <1>2 DEF IInv, PhaseInv, Collecting
  <2>3. ClientInv'
    BY <1>1, <1>2 DEF IInv, ClientInv, Handed, Chunk, CHUNK_AT
  <2> QED  BY <1>1, <1>2, <2>1, <2>2, <2>3 DEF IInv, StaysDefined
<1>6. MarkInv'
  <2>1. \A i : Deref(references[i])' = Deref(references[i])
    BY <1>1, <1>2 DEF Deref
  <2> QED  BY <1>1, <1>2, <1>3, <1>4, <2>1 DEF IInv, MarkInv
<1>7. CopyInv'
  <2>1. Closed(Marked)' = Closed(Marked)
    <3>1. \A S : S = Marked => Closed(S)' = Closed(Marked)
      BY <1>3
    <3> QED  BY <1>4, <3>1 DEF Closed
  <2> QED  BY <1>1, <1>3, <1>4, <2>1 DEF IInv, CopyInv
<1>8. PatchInv'
  <2>1. \A i : Deref(references[i])' = Deref(references[i]) /\ HeadPatched(i)' = HeadPatched(i)
    BY <1>1, <1>2, <1>4 DEF Deref, HeadPatched
  <2> QED  BY <1>1, <1>2, <1>3, <2>1 DEF IInv, PatchInv
<1> QED  BY <1>2, <1>5, <1>6, <1>7, <1>8 DEF IInv

LEMMA StepInv == IInv /\ [Next]_vars => IInv'
<1> SUFFICES ASSUME IInv, [Next]_vars PROVE IInv'
  OBVIOUS
<1>1. CASE Client
  BY <1>1, AddRootStep, DelRootStep, AllocStep, StoreStep, LoadStep DEF Client
<1>2. CASE mark_minor \/ mark_chunk
  BY <1>2, MarkMinorStep, MarkChunkStep
<1>3. CASE CopySlot \/ backpatch_refs
  BY <1>3, CopySlotStep, PatchRefStep
<1>4. CASE backpatch_chunk \/ memcpy_chunk \/ Finish
  BY <1>4, PatchChunkStep, MemcpyStep, FinishStep
<1>5. CASE Phases
  BY <1>5, MarkedStep, CopiedStep, RefsPatchedStep, ChunksPatchedStep DEF Phases
<1>6. CASE UNCHANGED vars
  BY <1>6, IdleStep
<1> QED  BY <1>1, <1>2, <1>3, <1>4, <1>5, <1>6 DEF Next, mun_gc_minor

(* The inductive invariant holds in every state the collector reaches.     *)
THEOREM Invariant == Spec => []IInv
  BY InitInv, StepInv, PTL DEF Spec

(* The collector's variables keep their types; its loop index stays within *)
(* the root table in every phase, also while the loop adds roots.          *)
THEOREM TypeCorrect == Spec => []TypeOK
<1>1. IInv => TypeOK
  BY DEF IInv, TypesInv
<1> QED  BY <1>1, Invariant, PTL

(* mark_minor and mark_chunk mark what the registered words reach and      *)
(* nothing else, for any number of chunks and any shape of the chains.     *)
THEOREM MarkingExact == Spec => []MarkExact
<1>1. IInv => MarkExact
  <2> SUFFICES ASSUME IInv, pc = "copy" PROVE {c \in {CHUNK_AT(i) : i \in 0 .. free_chunk - 1} : marked[c]} = Reachable
    BY DEF MarkExact
  <2>1. free_chunk = NChunks
    BY CollectFacts DEF Collecting
  <2>2. {CHUNK_AT(i) : i \in 0 .. free_chunk - 1} = Chunk
    BY <2>1 DEF Chunk
  <2> QED  BY <2>2 DEF IInv, CopyInv, Marked
<1> QED  BY <1>1, Invariant, PTL

(* When mun_gc_minor has returned, no registered cell of the client points *)
(* to a chunk that is free again.                                          *)
THEOREM ClientCells == Spec => []CellsValid
<1>1. IInv => CellsValid
  BY DEF IInv, ClientInv, CellsValid, Handed
<1> QED  BY <1>1, Invariant, PTL

(* The loops of copy_minor_heap that run to refs_count leave the minor     *)
(* heap only when more roots than chunks are registered.                   *)
THEOREM NoStrayLoop == Spec => []StaysDefined
<1>1. IInv => StaysDefined
  BY DEF IInv
<1> QED  BY <1>1, Invariant, PTL

(* The roots that copy_minor_heap registers on its own never overfill the  *)
(* table: one slot per cell and one per chunk are enough for ever.         *)
THEOREM RootsFitTable == Spec => []RootsBounded
<1>1. IInv => RootsBounded
  BY DEF IInv, Table!IInv, Table!InBounds, RootsBounded
<1> QED  BY <1>1, Invariant, PTL

(* Every survivor of a collection is given the same place in the major     *)
(* heap: major_alloc never walks past the first header, whose size is      *)
(* always enough.                                                          *)
THEOREM OnePlace == Spec => [](\A c \in Chunk : backpatch[c] \in {NULL, Place})
<1>1. IInv => \A c \in Chunk : backpatch[c] \in {NULL, Place}
  BY DEF IInv, TypesInv
<1> QED  BY <1>1, Invariant, PTL

(* The client and the collector together use the root table as RefTable    *)
(* allows: each of their steps is one of its calls or leaves it alone.     *)
THEOREM TableImplemented == Spec => Table!Spec
<1>1. Init => Table!mun_gc_init
  BY DEF Init, mun_gc_init
<1>2. IInv /\ [Next]_vars => [Table!Next]_(Table!vars)
  <2> SUFFICES ASSUME IInv, [Next]_vars PROVE [Table!Next]_(Table!vars)
    OBVIOUS
  <2>1. ASSUME UNCHANGED refs PROVE UNCHANGED Table!vars
    BY <2>1 DEF refs, Table!vars
  <2>2. ASSUME NEW c \in Cell, AddRoot(c) \/ DelRoot(c) PROVE Table!Next
    BY <2>2 DEF AddRoot, DelRoot, Table!Next
  <2>3. ASSUME CopySlot PROVE UNCHANGED refs \/ Table!Next
    <3>1. ASSUME NEW t \in Chunk, Table!add_ref(t) PROVE Table!Next
      <4>1. Table!mun_gc_add_ref(t)
        BY <3>1, TableAdd DEF IInv
      <4> QED  BY <4>1 DEF Table!Next
    <3> QED  BY <2>3, <3>1 DEF CopySlot
  <2>4. CASE UNCHANGED vars \/ mark_minor \/ mark_chunk
    BY <2>1, <2>4 DEF vars, mark_minor, mark_chunk
  <2>5. CASE backpatch_refs \/ backpatch_chunk \/ memcpy_chunk \/ Finish
    BY <2>1, <2>5 DEF backpatch_refs, backpatch_chunk, memcpy_chunk, Finish
  <2>6. CASE Phases
    BY <2>1, <2>6 DEF Phases, Phase
  <2>7. CASE \E c, d \in Cell : Store(c, d) \/ Load(c, d)
    BY <2>1, <2>7 DEF Store, Load
  <2>8. CASE \E c \in Cell : minor_alloc(c)
    BY <2>1, <2>8 DEF minor_alloc
  <2> QED  BY <2>1, <2>2, <2>3, <2>4, <2>5, <2>6, <2>7, <2>8 DEF Next, Client, mun_gc_minor
<1> QED  BY <1>1, <1>2, Invariant, PTL DEF Spec, Table!Spec
=============================================================================
