------------------------------ MODULE MinorGc ------------------------------
(***************************************************************************)
(* The minor collector (alloc.c): bump allocation of fixed-size chunks,    *)
(* and, when the chunks run out, mark, copy to the major heap, patch the   *)
(* pointers, start again at chunk 0.  The collector is one call of the     *)
(* code; its loops are steps here so that the order of their effects is    *)
(* visible.                                                                *)
(*                                                                         *)
(* Objects have the size of every object this program allocates (32 bytes: *)
(* ast_node, instance, parser).  The four slots the collector scans in     *)
(* such a chunk lie 64 bytes apart (BITS_AT), so only the first is inside  *)
(* the object: an object is its first word, head[c].  Its other words are  *)
(* never followed and never patched, so they are left out.                 *)
(***************************************************************************)
EXTENDS Integers, FiniteSets

CONSTANTS Cell,      \* variables of the client that hold object pointers
          NChunks,   \* GC_MINCHUNKS
          MaxRefs,   \* GC_MAX_REFS
          HeapUnits, \* size of the major heap, in objects
          NULL,      \* the address 0
          Nil        \* a word that is no pointer into either heap

CHUNK_AT(i) == <<"minor", i>>
Chunk == {CHUNK_AT(i) : i \in 0 .. NChunks - 1}
Major == {<<"major", o>> : o \in 0 .. HeapUnits - 1}
Word == {Nil} \cup Chunk \cup Major

ASSUME MinorGcAssumption == /\ NChunks \in Nat \ {0} /\ HeapUnits \in Nat \ {0} /\ MaxRefs \in Nat
                            /\ IsFiniteSet(Cell) /\ Cardinality(Cell) + NChunks < MaxRefs
                            /\ Cell \cap Chunk = {} /\ Nil \notin Cell \cup Chunk \cup Major
                            /\ NULL \notin Cell \cup Chunk \cup Major

VARIABLES
  pc,          \* where mun_gc_minor is; "run": the client runs; "undefined": the C program's behaviour is undefined
  idx,         \* the loop index of the running phase
  cur,         \* the chunk mark_chunk was called on
  wanted,      \* the cell whose allocation started the collection
  free_chunk,
  marked,      \* bit 0 of each minor chunk's header
  head,        \* the first word of each minor object
  cell,        \* the words of the client
  copy,        \* the first word of each object of the major heap
  size,        \* the major heap's headers: size in objects ...
  color,       \* ... and colour, by offset
  backpatch,
  refs_count, references

refs == <<refs_count, references>>
heap == <<size, color>>
vars == <<pc, idx, cur, wanted, free_chunk, marked, head, cell, copy, size, color, backpatch, refs>>

\* A chunk, as a root, is the address of that chunk's first word.
Table == INSTANCE RefTable WITH Addr <- Cell \cup Chunk,
                                RootLimit <- Cardinality(Cell) + NChunks

TypeOK == /\ pc \in {"run", "mark", "copy", "patch_refs", "patch_chunks", "memcpy", "undefined"}
          /\ idx \in 0 .. MaxRefs
          /\ cur \in Chunk \cup {Nil}
          /\ wanted \in Cell \cup {Nil}
          /\ free_chunk \in 0 .. NChunks
          /\ marked \in [Chunk -> BOOLEAN]
          /\ head \in [Chunk -> Word]
          /\ cell \in [Cell -> Word]
          /\ copy \in [Major -> Word]
          /\ backpatch \in [Chunk -> {NULL} \cup Major]
          /\ Table!TypeOK

mun_gc_init == /\ free_chunk = 0
               /\ backpatch = [c \in Chunk |-> NULL]
               /\ size = [o \in 0 .. HeapUnits |-> IF o = 0 THEN HeapUnits ELSE 0]
               /\ color = [o \in 0 .. HeapUnits |-> "FREE"]
               /\ Table!mun_gc_init

Init == /\ mun_gc_init
        /\ pc = "run" /\ idx = 0 /\ cur = Nil /\ wanted = Nil
        /\ marked = [c \in Chunk |-> FALSE]
        /\ head = [c \in Chunk |-> Nil]
        /\ cell = [c \in Cell |-> Nil]
        /\ copy = [m \in Major |-> Nil]

\* The word at a root address.
Deref(r) == IF r \in Cell THEN cell[r] ELSE head[r]
-----------------------------------------------------------------------------
(* The client: it registers the cells it keeps pointers in.                *)
AddRoot(c) == /\ pc = "run" /\ Table!mun_gc_add_ref(c)
              /\ UNCHANGED <<pc, idx, cur, wanted, free_chunk, marked, head, cell, copy, heap, backpatch>>

DelRoot(c) == /\ pc = "run" /\ c \in Table!Roots
              /\ Table!mun_gc_del_ref(c)
              /\ cell' = [cell EXCEPT ![c] = Nil]
              /\ UNCHANGED <<pc, idx, cur, wanted, free_chunk, marked, head, copy, heap, backpatch>>

\* Objects are filled in after their allocation and never written again, as
\* the constructors of ast.c and type.c do: no store into the major heap.
Store(c, d) == /\ pc = "run" /\ {c, d} \subseteq Table!Roots
               /\ cell[c] \in Chunk
               /\ head' = [head EXCEPT ![cell[c]] = cell[d]]
               /\ UNCHANGED <<pc, idx, cur, wanted, free_chunk, marked, cell, copy, heap, backpatch, refs>>

Load(c, d) == /\ pc = "run" /\ {c, d} \subseteq Table!Roots
              /\ \/ cell[d] \in Chunk /\ cell' = [cell EXCEPT ![c] = head[cell[d]]]
                 \/ cell[d] \in Major /\ cell' = [cell EXCEPT ![c] = copy[cell[d]]]
              /\ UNCHANGED <<pc, idx, cur, wanted, free_chunk, marked, head, copy, heap, backpatch, refs>>

\* The bump allocation, and the constructor's write of its type tag.
Bump(c, at) == /\ marked' = [marked EXCEPT ![CHUNK_AT(at)] = FALSE]
               /\ head' = [head EXCEPT ![CHUNK_AT(at)] = Nil]
               /\ cell' = [cell EXCEPT ![c] = CHUNK_AT(at)]
               /\ free_chunk' = at + 1

\* Mutant: the test for the last chunk is off by one.
minor_allocOneMore(c) ==
  /\ pc = "run" /\ c \in Table!Roots /\ free_chunk <= NChunks
  /\ Bump(c, free_chunk)
  /\ UNCHANGED <<pc, idx, cur, wanted, copy, heap, backpatch, refs>>

minor_alloc(c) ==
  /\ pc = "run" /\ c \in Table!Roots
  /\ \/ /\ free_chunk < NChunks
        /\ Bump(c, free_chunk)
        /\ UNCHANGED <<pc, idx, wanted, backpatch>>
     \/ /\ free_chunk >= NChunks
        /\ pc' = "mark" /\ idx' = 0 /\ wanted' = c
        /\ backpatch' = [k \in Chunk |-> NULL]
        /\ UNCHANGED <<free_chunk, marked, head, cell>>
  /\ UNCHANGED <<cur, copy, heap, refs>>
-----------------------------------------------------------------------------
\* mark_minor: the roots in order ...
mark_minor == /\ pc = "mark" /\ cur = Nil /\ idx < refs_count
              /\ idx' = idx + 1
              /\ cur' = IF /\ references[idx] # NULL
                           /\ Deref(references[idx]) \in Chunk
                        THEN Deref(references[idx]) ELSE Nil
              /\ UNCHANGED <<pc, wanted, free_chunk, marked, head, cell, copy, heap, backpatch, refs>>

\* Mutant: the recursion stops after the object the root points to.
mark_chunkShallow == /\ pc = "mark" /\ cur \in Chunk
                     /\ marked' = [marked EXCEPT ![cur] = TRUE]
                     /\ cur' = Nil
                     /\ UNCHANGED <<pc, idx, wanted, free_chunk, head, cell, copy, heap, backpatch, refs>>

\* Mutant: the recursion does not look at the mark of the object it meets.
mark_chunkUnchecked == /\ pc = "mark" /\ cur \in Chunk
                       /\ marked' = [marked EXCEPT ![cur] = TRUE]
                       /\ cur' = IF head[cur] \in Chunk THEN head[cur] ELSE Nil
                       /\ UNCHANGED <<pc, idx, wanted, free_chunk, head, cell, copy, heap, backpatch, refs>>

\* ... and mark_chunk down the chain of first words from each.
mark_chunk == /\ pc = "mark" /\ cur \in Chunk
              /\ marked' = [marked EXCEPT ![cur] = TRUE]
              /\ cur' = IF head[cur] \in Chunk /\ ~marked'[head[cur]] THEN head[cur] ELSE Nil
              /\ UNCHANGED <<pc, idx, wanted, free_chunk, head, cell, copy, heap, backpatch, refs>>

\* The next phase starts when the loop of this one has run out of indices.
Phase(from, to, limit) == /\ pc = from /\ cur = Nil /\ idx >= limit
                          /\ pc' = to /\ idx' = 0
                          /\ UNCHANGED <<cur, wanted, free_chunk, marked, head, cell, copy, heap, backpatch, refs>>

\* The walk over the major heap goes on from an occupied header that is too
\* small, and it meets no header but the first and those it goes on to.
GoesOn(o) == o < HeapUnits /\ color[o] # "FREE" /\ 1 > size[o]
MajorStop == LET Walk(S) == 0 \in S /\ \A o \in S : GoesOn(o) => o + size[o] \in S
                 met == {o \in 0 .. HeapUnits : \A S \in SUBSET (0 .. HeapUnits) : Walk(S) => o \in S}
             IN  CHOOSE o \in met : ~GoesOn(o)

major_alloc(at) == /\ size' = [size EXCEPT ![at + 1] = size[at] - 1]
                   /\ color' = [color EXCEPT ![at] = "WHITE", ![at + 1] = "FREE"]

\* Mutant: the last chunk is left out.
CopyLimitShort == free_chunk - 1

CopyLimit == free_chunk

\* copy_minor_heap, first loop: room for each survivor, and its first
\* word's target becomes a root.
CopySlot ==
  /\ pc = "copy" /\ idx < CopyLimit
  /\ idx' = idx + 1
  /\ IF marked[CHUNK_AT(idx)]
     THEN /\ major_alloc(MajorStop)
          /\ backpatch' = [backpatch EXCEPT ![CHUNK_AT(idx)] = <<"major", MajorStop>>]
          /\ LET target == head[CHUNK_AT(idx)]
             IN  IF target \in Chunk /\ marked[target]
                 THEN Table!add_ref(target) ELSE UNCHANGED refs
     ELSE UNCHANGED <<heap, backpatch, refs>>
  /\ UNCHANGED <<pc, cur, wanted, free_chunk, marked, head, cell, copy>>

Forward(w) == IF w \in Chunk /\ marked[w] /\ backpatch[w] # NULL THEN backpatch[w] ELSE w

backpatch_refs ==
  /\ pc = "patch_refs" /\ idx < refs_count
  /\ idx' = idx + 1
  /\ LET r == references[idx] IN
       /\ cell' = IF r \in Cell THEN [cell EXCEPT ![r] = Forward(cell[r])] ELSE cell
       /\ head' = IF r \in Chunk THEN [head EXCEPT ![r] = Forward(head[r])] ELSE head
  /\ UNCHANGED <<pc, cur, wanted, free_chunk, marked, copy, heap, backpatch, refs>>

\* The second and third loops of copy_minor_heap run to refs_count, so they
\* can leave the minor heap, or meet a marked chunk that got no copy.
PatchDefined(c) == c \in Chunk /\ (head[c] \in Chunk /\ marked[head[c]] => backpatch[head[c]] # NULL)

backpatch_chunk ==
  /\ pc = "patch_chunks" /\ idx < refs_count
  /\ LET c == CHUNK_AT(idx) IN
       \/ /\ PatchDefined(c)
          /\ head' = [head EXCEPT ![c] = Forward(head[c])]
          /\ idx' = idx + 1
          /\ UNCHANGED pc
       \/ ~PatchDefined(c) /\ pc' = "undefined" /\ UNCHANGED <<head, idx>>
  /\ UNCHANGED <<cur, wanted, free_chunk, marked, cell, copy, heap, backpatch, refs>>

CopyDefined(c) == c \in Chunk /\ (marked[c] => backpatch[c] # NULL)

\* The object's words and its header: its size, and its mark bit, which reads WHITE there.
memcpy_chunk ==
  /\ pc = "memcpy" /\ idx < refs_count
  /\ LET c == CHUNK_AT(idx) IN
       IF ~CopyDefined(c) THEN pc' = "undefined" /\ UNCHANGED <<idx, copy, heap>>
       ELSE /\ idx' = idx + 1
            /\ IF marked[c]
               THEN /\ copy' = [copy EXCEPT ![backpatch[c]] = head[c]]
                    /\ size' = [size EXCEPT ![backpatch[c][2]] = 1]
                    /\ color' = [color EXCEPT ![backpatch[c][2]] = "WHITE"]
               ELSE UNCHANGED <<copy, heap>>
            /\ UNCHANGED pc
  /\ UNCHANGED <<cur, wanted, free_chunk, marked, head, cell, backpatch, refs>>

\* mun_gc_minor starts again at chunk 0 and minor_alloc tries again.
Finish == /\ pc = "memcpy" /\ idx >= refs_count
          /\ Bump(wanted, 0)
          /\ pc' = "run" /\ idx' = 0 /\ wanted' = Nil
          /\ UNCHANGED <<cur, copy, heap, backpatch, refs>>

\* Mutant: the objects are copied out before their first words are patched.
PhasesCopyFirst == \/ Phase("mark", "copy", refs_count)
                   \/ Phase("copy", "patch_refs", free_chunk)
                   \/ Phase("patch_refs", "memcpy", refs_count)

Phases == \/ Phase("mark", "copy", refs_count)
          \/ Phase("copy", "patch_refs", CopyLimit)
          \/ Phase("patch_refs", "patch_chunks", refs_count)
          \/ Phase("patch_chunks", "memcpy", refs_count)

mun_gc_minor == \/ mark_minor \/ mark_chunk \/ CopySlot
                \/ backpatch_refs \/ backpatch_chunk \/ memcpy_chunk
                \/ Phases \/ Finish

Client == \/ \E c \in Cell : AddRoot(c) \/ DelRoot(c) \/ minor_alloc(c)
          \/ \E c, d \in Cell : Store(c, d) \/ Load(c, d)

Next == Client \/ mun_gc_minor

Spec == Init /\ [][Next]_vars

\* A collection is one call: once it has started, the thread is inside it.
FairSpec == Spec /\ WF_vars(mun_gc_minor)
-----------------------------------------------------------------------------
\* The minor objects that the registered words lead to: the least set that is
\* closed under following words.
Closed(S) == /\ \A r \in Table!Roots : Deref(r) \in Chunk => Deref(r) \in S
             /\ \A c \in S : head[c] \in Chunk => head[c] \in S
Reachable == {c \in Chunk : \A S \in SUBSET Chunk : Closed(S) => c \in S}

(* Marking finds every object that is reachable from a root through first  *)
(* words, however its chains share objects or close into cycles, and no    *)
(* other: no mark bit of an earlier collection survives the reuse of a     *)
(* chunk.                                                                  *)
MarkExact == pc = "copy" => {c \in {CHUNK_AT(i) : i \in 0 .. free_chunk - 1} : marked[c]} = Reachable

(* When the client runs, no registered cell points to a chunk that was not *)
(* handed out since the last collection: each pointer that survived was    *)
(* redirected to the major heap before the chunk can be used again, also   *)
(* the pointers the client loads from objects that were copied.            *)
CellsValid == pc = "run" =>
  \A c \in Cell \cap Table!Roots : cell[c] \in Chunk => cell[c][2] < free_chunk

(* The last loops of copy_minor_heap leave the minor heap only when there  *)
(* are more roots than chunks; a marked chunk always has a copy by then.   *)
StaysDefined == pc = "undefined" => refs_count > NChunks

(* The collector itself registers the first word of each survivor that     *)
(* another one points to and never removes it again; the root table still  *)
(* grows by one slot per chunk at most, over any number of collections.    *)
RootsBounded == refs_count <= Cardinality(Cell) + NChunks

(* Every collection comes to an end, also when objects point to each other *)
(* in a cycle and when the loops over the table register more roots.       *)
CollectionEnds == pc = "mark" ~> pc \in {"run", "undefined"}

(* Two objects that survive a collection are still two objects.            *)
SurvivorsApart == pc = "patch_refs" =>
  \A a, b \in Chunk : marked[a] /\ marked[b] /\ backpatch[a] = backpatch[b] => a = b
=============================================================================
