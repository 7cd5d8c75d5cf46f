------------------------------ MODULE RegAlloc ------------------------------
(***************************************************************************)
(* SSA numbering (graph_rename of flow_graph.c) and register allocation    *)
(* (interference_graph.c) of a straight line of instructions: one graph    *)
(* entry, one target entry, and the n instructions of code behind it, the  *)
(* only shape of graph that graph_build makes.                             *)
(*                                                                         *)
(* An instruction is a record with a field inputs, the positions of its    *)
(* operands.  Every instruction the builder emits counts as a definition,  *)
(* returns and stores included (kDefinitions).                             *)
(***************************************************************************)
EXTENDS Integers, Sequences

CONSTANTS kNumberOfCpuRegisters,
          NULL

LiveRange == [vreg : Int, start : Int, end : Int]

ASSUME RegAllocAssumption == kNumberOfCpuRegisters \in Nat /\ NULL \notin LiveRange

\* The longest code whose ssa indices all lie inside register_maps.  It needs
\* fewer registers than the pool has words, so the spilling branch of
\* alloc_ranges is out of reach and left out.
MaxInstrs == kNumberOfCpuRegisters - 1

VARIABLES
  code,         \* the instructions, from the builder
  phase,        \* the function that runs: "rename", "build_live_ranges", "alloc_ranges", "assign", "assigned", "undefined"
  at,           \* its loop index
  ssa,          \* ssa_temp_index, by position
  live_ranges,
  active, register_pool, register_maps,
  locations     \* the registers of each instruction's operands and result

graph == <<code, ssa>>
pools == <<active, register_pool, register_maps>>
vars == <<graph, phase, at, live_ranges, pools, locations>>

N == Len(code)

\* register_pool: a stack of the words 1 .. 17; register_maps: 17 zeroes.
interference_graph_init ==
  /\ active = <<>>
  /\ register_pool = [i \in 1 .. kNumberOfCpuRegisters + 1 |-> i]
  /\ register_maps = [v \in 0 .. kNumberOfCpuRegisters |-> 0]

\* Straight-line code: an operand is defined before the instruction.
CodeOK == /\ N \in Nat
          /\ \A i \in 1 .. N : \A k \in DOMAIN code[i].inputs : code[i].inputs[k] \in 1 .. i - 1

Init == /\ CodeOK
        /\ phase = "rename" /\ at = 0
        /\ ssa = <<>> /\ live_ranges = <<>> /\ locations = <<>>
        /\ interference_graph_init

\* Each of the two blocks takes one index for its NIL constant first.
FirstSsa == 2

\* graph_rename, and the NULLs that live_ranges is created with: one for
\* each ssa index, although its size counts the n instructions only.
graph_rename == /\ phase = "rename" /\ N <= MaxInstrs
                /\ ssa' = [i \in 1 .. N |-> FirstSsa + i - 1]
                /\ live_ranges' = [v \in 0 .. FirstSsa + N - 1 |-> NULL]
                /\ phase' = "build_live_ranges" /\ at' = N
                /\ UNCHANGED <<code, pools, locations>>

\* number: 0 and 2 are the block entries.
LifetimePos(i) == 2 * i + 2

NewRange(v, start, end) == [vreg |-> v, start |-> start, end |-> end]

\* Mutant: ranges that start at the definition and end at the last use.
ExtendForward(range, v, pos) ==
  IF range = NULL THEN NewRange(v, pos, pos) ELSE [range EXCEPT !.start = pos]

Extend(range, v, pos) ==
  IF range = NULL THEN NewRange(v, pos, pos) ELSE [range EXCEPT !.end = pos]

\* The ssa indices that process meets at position i: its operands and itself.
Vregs(i) == {ssa[i]} \cup {ssa[code[i].inputs[k]] : k \in DOMAIN code[i].inputs}

\* process, from the last instruction back to the first: a range starts at
\* the last use of its value and ends at the definition.
process == /\ phase = "build_live_ranges" /\ at >= 1
           /\ live_ranges' = [v \in DOMAIN live_ranges |->
                                IF v \in Vregs(at) THEN Extend(live_ranges[v], v, LifetimePos(at))
                                ELSE live_ranges[v]]
           /\ at' = at - 1
           /\ UNCHANGED <<graph, phase, pools, locations>>

live_ranges_built == /\ phase = "build_live_ranges" /\ at = 0
                     /\ phase' = "alloc_ranges" /\ at' = 0
                     /\ UNCHANGED <<graph, live_ranges, pools, locations>>

\* Before the first active range that ends earlier, else in front.
InsertPos(range) == LET Earlier == {k \in DOMAIN active : active[k].end < range.end}
                    IN  IF Earlier = {} THEN 1
                        ELSE CHOOSE k \in Earlier : \A j \in Earlier : k <= j

add_to_active(range) == LET p == InsertPos(range) IN
  active' = SubSeq(active, 1, p - 1) \o <<range>> \o SubSeq(active, p, Len(active))

\* Mutant: the pool is a queue, its first word is taken again and again.
alloc_registerFirst(range) ==
  /\ register_maps' = [register_maps EXCEPT ![range.vreg] = kNumberOfCpuRegisters - Head(register_pool)]
  /\ add_to_active(range)
  /\ UNCHANGED register_pool

alloc_register(range) ==
  LET top == Len(register_pool) IN
  /\ register_maps' = [register_maps EXCEPT ![range.vreg] = kNumberOfCpuRegisters - register_pool[top]]
  /\ register_pool' = SubSeq(register_pool, 1, top - 1)
  /\ add_to_active(range)

\* The first active range looks expired: the code gives its register back and
\* leaves a NULL in active, which add_to_active dereferences.
Expires(range) == active # <<>> /\ active[1].end > range.start

\* Mutant: the loop covers every ssa index.
AllocLimitAll == N + FirstSsa

\* live_ranges.size counts the instructions, not the indices that the NIL
\* constants took: the last two ranges keep the register their map starts with.
AllocLimit == N

\* One round of the loop of alloc_ranges.
alloc_ranges == /\ phase = "alloc_ranges" /\ at < AllocLimit
                /\ LET range == live_ranges[at] IN
                     IF range = NULL
                     THEN at' = at + 1 /\ UNCHANGED <<phase, pools>>
                     ELSE IF Expires(range)
                          THEN phase' = "undefined" /\ UNCHANGED <<at, pools>>
                          ELSE alloc_register(range) /\ at' = at + 1 /\ UNCHANGED phase
                /\ UNCHANGED <<graph, live_ranges, locations>>

\* assign: every operand and result from the map of its ssa index.  No policy
\* asks for the first input's register: kSameAsFirstInput does not fit in the
\* three bits of kPolicyField.
assign == /\ phase = "alloc_ranges" /\ at = AllocLimit
          /\ locations' = [i \in 1 .. N |->
               [inputs |-> [k \in DOMAIN code[i].inputs |-> register_maps[ssa[code[i].inputs[k]]]],
                output |-> register_maps[ssa[i]]]]
          /\ phase' = "assigned"
          /\ UNCHANGED <<graph, at, live_ranges, pools>>

Next == graph_rename \/ process \/ live_ranges_built \/ alloc_ranges \/ assign

Spec == Init /\ [][Next]_vars
-----------------------------------------------------------------------------
(* Live ranges are built back to front, so they start after they end, and  *)
(* the expiry test of alloc_ranges never hands a register back: the branch *)
(* that would leave a NULL in the active list is never taken.              *)
NothingExpires == phase # "undefined"

(* No register goes back to the pool, so two definitions that both got one *)
(* never share it, whether their values are needed at the same time or not.*)
RegistersApart == phase = "assigned" =>
  \A i, j \in 1 .. N - FirstSsa : i # j => locations[i].output # locations[j].output
=============================================================================
