--------------------------- MODULE RegAllocProofs ---------------------------
(***************************************************************************)
(* For straight-line code of any length, the expiry test of alloc_ranges   *)
(* never succeeds.  The reason is an order: ranges are allocated by ssa    *)
(* index, an index is numbered with its definition's position, a range     *)
(* ends at that position and starts no earlier.                            *)
(*                                                                         *)
(* So no register goes back, the pool is a stack that only shrinks, and    *)
(* each definition that gets a register gets one of its own.               *)
(***************************************************************************)
EXTENDS RegAlloc, SequenceTheorems, TLAPS

\* The position of the definition with ssa index v.
DefPos(v) == LifetimePos(v - 1)

\* A range that is complete: it ends at its definition.
Complete(v) == /\ live_ranges[v] \in LiveRange
               /\ live_ranges[v].vreg = v
               /\ live_ranges[v].end = DefPos(v)
               /\ live_ranges[v].start >= live_ranges[v].end

\* A range whose definition process has still to meet.
Growing(v) == /\ live_ranges[v] \in LiveRange
              /\ live_ranges[v].vreg = v
              /\ live_ranges[v].end > LifetimePos(at)
              /\ live_ranges[v].start >= live_ranges[v].end

Indices == 0 .. N + 1

\* The pool when the indices below v have got their registers, and these.
PoolAt(v) == LET given == IF v <= FirstSsa THEN 0 ELSE v - FirstSsa
             IN  [i \in 1 .. kNumberOfCpuRegisters + 1 - given |-> i]
MapsAt(v) == /\ DOMAIN register_maps = 0 .. kNumberOfCpuRegisters
             /\ \A w \in 0 .. kNumberOfCpuRegisters :
                  register_maps[w] = IF w \in FirstSsa .. v - 1 THEN w - FirstSsa - 1 ELSE 0

\* The register that the value of position i ends up in.
OutputOf(i) == IF i <= N - FirstSsa THEN i - FirstSsa ELSE 0

Assigned == /\ N <= MaxInstrs
            /\ locations = [i \in 1 .. N |->
                 [inputs |-> [k \in DOMAIN code[i].inputs |-> OutputOf(code[i].inputs[k])],
                  output |-> OutputOf(i)]]

Numbered == /\ N <= MaxInstrs
            /\ ssa = [i \in 1 .. N |-> i + 1]
            /\ DOMAIN live_ranges = Indices

BuildInv == /\ at \in 0 .. N
            /\ active = <<>>
            /\ register_pool = PoolAt(0) /\ MapsAt(0)
            /\ Numbered
            /\ \A v \in at + 2 .. N + 1 : live_ranges[v] # NULL
            /\ \A v \in Indices : live_ranges[v] # NULL =>
                 /\ v >= 2
                 /\ v - 1 > at => Complete(v)
                 /\ v - 1 <= at => Growing(v)

AllocInv == /\ at \in 0 .. N
            /\ Numbered
            /\ register_pool = PoolAt(at) /\ MapsAt(at)
            /\ \A v \in FirstSsa .. N + 1 : live_ranges[v] # NULL
            /\ \A v \in Indices : live_ranges[v] # NULL => v >= FirstSsa /\ Complete(v)
            /\ active \in Seq(LiveRange)
            /\ \A k \in 1 .. Len(active) : active[k].end < DefPos(at)

IInv == /\ CodeOK
        /\ phase \in {"rename", "build_live_ranges", "alloc_ranges", "assigned"}
        /\ phase = "rename" => active = <<>> /\ register_pool = PoolAt(0) /\ MapsAt(0)
        /\ phase = "build_live_ranges" => BuildInv
        /\ phase = "alloc_ranges" => AllocInv
        /\ phase = "assigned" => Assigned
        /\ RegistersApart
-----------------------------------------------------------------------------
LEMMA InitInv == Init => IInv
<1> SUFFICES ASSUME Init PROVE IInv
  OBVIOUS
<1>1. register_pool = PoolAt(0) /\ MapsAt(0)
  BY RegAllocAssumption DEF Init, interference_graph_init, PoolAt, MapsAt, FirstSsa
<1> QED BY <1>1 DEF Init, IInv, interference_graph_init, RegistersApart

LEMMA RenameStep == ASSUME IInv, graph_rename PROVE IInv'
<1>1. N \in Nat /\ CodeOK' /\ N' = N
  BY DEF IInv, graph_rename, CodeOK, N
<1>2. /\ at' = N /\ active' = <<>> /\ N <= MaxInstrs
      /\ ssa' = [i \in 1 .. N |-> i + 1]
      /\ live_ranges' = [v \in Indices |-> NULL]
  BY <1>1 DEF IInv, graph_rename, pools, FirstSsa, Indices
<1>3. (register_pool = PoolAt(0) /\ MapsAt(0))'
  BY DEF IInv, graph_rename, pools, PoolAt, MapsAt
<1>4. BuildInv'
  BY <1>1, <1>2, <1>3 DEF BuildInv, Numbered, Indices, MaxInstrs
<1> QED BY <1>1, <1>4 DEF IInv, graph_rename, RegistersApart

(* One position of process: the ranges it touches end there, before all    *)
(* the positions met so far; the range of the position itself is complete. *)
LEMMA ProcessStep == ASSUME IInv, process PROVE IInv'
<1>1. /\ N \in Nat /\ CodeOK' /\ N' = N /\ Indices' = Indices
      /\ at \in 1 .. N /\ at' = at - 1
      /\ phase = "build_live_ranges" /\ phase' = phase
      /\ BuildInv
  BY DEF IInv, process, CodeOK, N, graph, Indices, BuildInv
<1>2. /\ active' = <<>>
      /\ Numbered'
      /\ (register_pool = PoolAt(0) /\ MapsAt(0))'
  BY <1>1 DEF process, pools, graph, BuildInv, Numbered, MaxInstrs, PoolAt, MapsAt
<1>3. at + 1 \in Vregs(at) /\ \A v \in Vregs(at) : v \in 2 .. at + 1
  <2>1. ssa[at] = at + 1 /\ \A i \in 1 .. at - 1 : ssa[i] = i + 1
    BY <1>1 DEF BuildInv, Numbered
  <2>2. \A k \in DOMAIN code[at].inputs : code[at].inputs[k] \in 1 .. at - 1
    BY <1>1 DEF IInv, CodeOK
  <2> QED BY <2>1, <2>2, <1>1 DEF Vregs
<1>4. ASSUME NEW v \in Indices, live_ranges'[v] # NULL
      PROVE  /\ v >= 2
             /\ v - 1 > at' => Complete(v)'
             /\ v - 1 <= at' => Growing(v)'
  <2>1. CASE v \in Vregs(at)
    <3>1. live_ranges'[v] = Extend(live_ranges[v], v, LifetimePos(at))
      BY <2>1, <1>1 DEF process, BuildInv, Numbered
    <3>2. v \in 2 .. at + 1 /\ v \in Int
      BY <2>1, <1>1, <1>3
    <3>3. /\ live_ranges'[v] \in LiveRange
          /\ live_ranges'[v].vreg = v
          /\ live_ranges'[v].end = LifetimePos(at)
          /\ live_ranges'[v].start >= LifetimePos(at)
      <4>1. CASE live_ranges[v] = NULL
        BY <4>1, <3>1, <3>2, <1>1 DEF Extend, NewRange, LiveRange, LifetimePos
      <4>2. CASE live_ranges[v] # NULL
        <5>1. live_ranges[v] \in LiveRange /\ live_ranges[v].vreg = v /\ live_ranges[v].start >= LifetimePos(at)
          BY <4>2, <3>2, <1>1 DEF BuildInv, Complete, Growing, LiveRange, LifetimePos, DefPos
        <5> QED BY <4>2, <5>1, <3>1, <1>1 DEF Extend, LiveRange, LifetimePos
      <4> QED BY <4>1, <4>2
    <3> QED
      BY <3>2, <3>3, <1>1 DEF Complete, Growing, DefPos, LifetimePos, LiveRange
  <2>2. CASE v \notin Vregs(at)
    <3>1. live_ranges'[v] = live_ranges[v] /\ v # at + 1
      BY <2>2, <1>1, <1>3 DEF process, BuildInv, Numbered
    <3>2. v >= 2 /\ (v - 1 > at => Complete(v)) /\ (v - 1 <= at => Growing(v))
      BY <1>1, <1>4, <3>1 DEF BuildInv
    <3> QED
      BY <3>1, <3>2, <1>1 DEF Complete, Growing, DefPos, LifetimePos, LiveRange, Indices
  <2> QED BY <2>1, <2>2
<1>5. ASSUME NEW v \in at + 1 .. N + 1
      PROVE  live_ranges'[v] # NULL
  <2>1. v \in Indices
    BY <1>1 DEF Indices
  <2>2. CASE v \in Vregs(at)
    <3>1. live_ranges'[v] = Extend(live_ranges[v], v, LifetimePos(at))
      BY <2>1, <2>2, <1>1 DEF process, BuildInv, Numbered
    <3>2. v \in Int /\ LifetimePos(at) \in Int
      BY <1>1 DEF LifetimePos
    <3>3. live_ranges[v] # NULL => live_ranges[v] \in LiveRange
      BY <2>1, <1>1 DEF BuildInv, Complete, Growing
    <3>4. live_ranges'[v] \in LiveRange
      BY <3>1, <3>2, <3>3 DEF Extend, NewRange, LiveRange
    <3> QED BY <3>4, RegAllocAssumption
  <2>3. CASE v \notin Vregs(at)
    <3>1. live_ranges'[v] = live_ranges[v] /\ v # at + 1
      BY <2>1, <2>3, <1>1, <1>3 DEF process, BuildInv, Numbered
    <3> QED BY <3>1, <1>1 DEF BuildInv
  <2> QED BY <2>2, <2>3
<1>6. BuildInv'
  BY <1>1, <1>2, <1>4, <1>5 DEF BuildInv
<1> QED BY <1>1, <1>6 DEF IInv, RegistersApart

LEMMA BuiltStep == ASSUME IInv, live_ranges_built PROVE IInv'
<1>1. /\ N \in Nat /\ CodeOK' /\ N' = N /\ Indices' = Indices
      /\ at = 0 /\ at' = 0 /\ BuildInv
      /\ active' = active /\ live_ranges' = live_ranges
  BY DEF IInv, live_ranges_built, CodeOK, N, graph, pools, Indices
<1>2. \A v \in Indices : live_ranges[v] # NULL => v >= FirstSsa /\ Complete(v)
  BY <1>1 DEF BuildInv, Indices, FirstSsa
<1>3. (Numbered /\ register_pool = PoolAt(0) /\ MapsAt(0))'
  BY <1>1 DEF live_ranges_built, graph, pools, BuildInv, Numbered, MaxInstrs, PoolAt, MapsAt
<1>4. AllocInv'
  BY <1>1, <1>2, <1>3 DEF AllocInv, BuildInv, Complete, FirstSsa
<1> QED BY <1>1, <1>4 DEF IInv, live_ranges_built, RegistersApart

(* The test of the first active range: it ends before the new range does.  *)
LEMMA NoExpiry ==
  ASSUME IInv, phase = "alloc_ranges", at < N, live_ranges[at] # NULL
  PROVE  ~Expires(live_ranges[at])
<1>1. at \in Nat /\ N \in Nat /\ at \in Indices
  BY DEF IInv, AllocInv, CodeOK, Indices
<1>2. Complete(at)
  BY <1>1 DEF IInv, AllocInv
<1>3. active # <<>> => active[1].end < DefPos(at) /\ active[1] \in LiveRange
  BY <1>1 DEF IInv, AllocInv
<1> QED BY <1>1, <1>2, <1>3 DEF Expires, Complete, LiveRange, DefPos, LifetimePos

(* A range that ends after all the active ones goes in front of them.      *)
LEMMA InsertFront ==
  ASSUME NEW range \in LiveRange, active \in Seq(LiveRange),
         \A k \in 1 .. Len(active) : active[k].end < range.end
  PROVE  InsertPos(range) = 1
<1> DEFINE Earlier == {k \in DOMAIN active : active[k].end < range.end}
<1>1. Earlier = 1 .. Len(active) /\ Len(active) \in Nat
  OBVIOUS
<1>2. CASE Earlier = {}
  BY <1>2 DEF InsertPos
<1>3. CASE Earlier # {}
  <2>1. 1 \in Earlier /\ \A j \in Earlier : 1 <= j
    BY <1>1, <1>3
  <2>2. \A m \in Earlier : (\A j \in Earlier : m <= j) => m = 1
    BY <1>1, <2>1
  <2>3. InsertPos(range) = CHOOSE m \in Earlier : \A j \in Earlier : m <= j
    BY <1>3 DEF InsertPos
  <2> HIDE DEF Earlier
  <2> QED BY <2>1, <2>2, <2>3
<1> QED BY <1>2, <1>3

LEMMA InsertKeeps ==
  ASSUME NEW range \in LiveRange, active \in Seq(LiveRange), NEW bound \in Int,
         range.end < bound, \A k \in 1 .. Len(active) : active[k].end < range.end,
         add_to_active(range)
  PROVE  active' \in Seq(LiveRange) /\ \A k \in 1 .. Len(active') : active'[k].end < bound
<1> DEFINE front == SubSeq(active, 1, 0)
           back  == SubSeq(active, 1, Len(active))
<1>1. front = <<>> /\ back = active
  BY SubSeqEmpty, SubSeqFull
<1>2. active' = (front \o <<range>>) \o back
  <2>1. InsertPos(range) = 1
    BY InsertFront
  <2>2. 1 - 1 = 0
    OBVIOUS
  <2> QED BY <2>1, <2>2, Zenon DEF add_to_active
<1>3. <<range>> \in Seq(LiveRange) /\ Len(<<range>>) = 1 /\ <<range>>[1] = range
  OBVIOUS
<1>4. active' = <<range>> \o active
  <2>1. <<>> \o <<range>> = <<range>>
    BY <1>3, ConcatEmptySeq
  <2> QED BY <2>1, <1>1, <1>2
<1>5. /\ active' \in Seq(LiveRange)
      /\ Len(active') = 1 + Len(active)
      /\ \A i \in 1 .. 1 + Len(active) : active'[i] = IF i <= 1 THEN <<range>>[i] ELSE active[i - 1]
  BY <1>3, <1>4, ConcatProperties
<1>6. ASSUME NEW i \in 1 .. Len(active')
      PROVE  active'[i].end < bound
  <2>1. CASE i = 1
    BY <2>1, <1>3, <1>5
  <2>2. CASE i > 1
    <3>1. i - 1 \in 1 .. Len(active) /\ active'[i] = active[i - 1]
      BY <2>2, <1>5
    <3>2. active[i - 1] \in LiveRange /\ active[i - 1].end < range.end
      BY <3>1
    <3> QED BY <3>1, <3>2 DEF LiveRange
  <2> QED BY <2>1, <2>2
<1> QED BY <1>5, <1>6

(* One round allocates the range of the next index, or skips an index that *)
(* has none, and leaves the bound of the active ends one definition later. *)
LEMMA AllocStep == ASSUME IInv, alloc_ranges PROVE IInv'
<1> DEFINE range == live_ranges[at]
<1>1. /\ N \in Nat /\ CodeOK' /\ N' = N /\ Indices' = Indices
      /\ phase = "alloc_ranges" /\ AllocInv
      /\ at < N /\ at \in Nat /\ at \in Indices
      /\ live_ranges' = live_ranges
  BY DEF IInv, alloc_ranges, AllocInv, AllocLimit, CodeOK, N, graph, Indices
<1>2. /\ range # NULL => ~Expires(range)
  BY <1>1, NoExpiry
<1>3. phase' = phase /\ at' = at + 1
  BY <1>1, <1>2 DEF alloc_ranges
<1>4. /\ active' \in Seq(LiveRange)
      /\ \A k \in 1 .. Len(active') : active'[k].end < DefPos(at + 1)
  <2>1. CASE range = NULL
    <3>1. active' = active
      BY <2>1 DEF alloc_ranges, pools
    <3>2. active \in Seq(LiveRange) /\ \A k \in 1 .. Len(active) : active[k].end < DefPos(at)
      BY <1>1 DEF AllocInv
    <3>3. DefPos(at) \in Int /\ DefPos(at + 1) \in Int /\ DefPos(at) < DefPos(at + 1)
      BY <1>1 DEF DefPos, LifetimePos
    <3>4. \A k \in 1 .. Len(active) : active[k].end \in Int
      <4>1. \A r \in LiveRange : r.end \in Int
        BY DEF LiveRange
      <4>2. \A k \in 1 .. Len(active) : active[k] \in LiveRange
        BY <3>2
      <4> QED BY <4>1, <4>2
    <3> QED BY <3>1, <3>2, <3>3, <3>4
  <2>2. CASE range # NULL
    <3>1. add_to_active(range)
      BY <2>2, <1>2 DEF alloc_ranges, alloc_register
    <3>2. range \in LiveRange /\ range.end = DefPos(at) /\ DefPos(at) < DefPos(at + 1)
      BY <2>2, <1>1 DEF AllocInv, Complete, DefPos, LifetimePos
    <3>3. active \in Seq(LiveRange) /\ \A k \in 1 .. Len(active) : active[k].end < range.end
      BY <3>2, <1>1 DEF AllocInv
    <3>4. DefPos(at + 1) \in Int
      BY <1>1 DEF DefPos, LifetimePos
    <3> QED BY <3>1, <3>2, <3>3, <3>4, InsertKeeps
  <2> QED BY <2>1, <2>2
<1>5. (register_pool = PoolAt(at) /\ MapsAt(at))'
  <2>1. kNumberOfCpuRegisters \in Nat /\ N <= kNumberOfCpuRegisters - 1
    BY <1>1, RegAllocAssumption DEF AllocInv, Numbered, MaxInstrs
  <2>2. CASE range = NULL
    <3>1. at < FirstSsa
      BY <2>2, <1>1 DEF AllocInv, FirstSsa
    <3>2. register_pool' = register_pool /\ register_maps' = register_maps
      BY <2>2 DEF alloc_ranges, pools
    <3> QED BY <3>1, <3>2, <2>1, <1>1, <1>3 DEF AllocInv, PoolAt, MapsAt, FirstSsa
  <2>3. CASE range # NULL
    <3> DEFINE top == kNumberOfCpuRegisters + 1 - (at - FirstSsa)
    <3>1. alloc_register(range) /\ range.vreg = at /\ at >= 2
      BY <2>3, <1>1, <1>2 DEF alloc_ranges, AllocInv, Complete, FirstSsa
    <3>2. register_pool = [i \in 1 .. top |-> i] /\ top \in Nat /\ top >= 1
      BY <3>1, <2>1, <1>1 DEF AllocInv, PoolAt, FirstSsa
    <3>3. Len(register_pool) = top /\ register_pool[top] = top
      BY <3>2
    <3>4. register_pool' = [i \in 1 .. top - 1 |-> i]
      BY <3>1, <3>2, <3>3 DEF alloc_register
    <3>5. register_maps' = [register_maps EXCEPT ![at] = at - FirstSsa - 1]
      BY <3>1, <3>3, <2>1, <1>1 DEF alloc_register, FirstSsa
    <3>6. register_pool' = PoolAt(at + 1)
      BY <3>4, <3>1, <2>1, <1>1 DEF PoolAt, FirstSsa
    <3>7. /\ DOMAIN register_maps' = 0 .. kNumberOfCpuRegisters
          /\ \A w \in 0 .. kNumberOfCpuRegisters :
               register_maps'[w] = IF w \in FirstSsa .. at THEN w - FirstSsa - 1 ELSE 0
      BY <3>5, <3>1, <2>1, <1>1 DEF AllocInv, MapsAt, FirstSsa
    <3>8. MapsAt(at)'
      BY <3>7, <1>1, <1>3 DEF MapsAt
    <3>9. PoolAt(at)' = PoolAt(at + 1)
      BY <1>3 DEF PoolAt
    <3> QED BY <3>6, <3>8, <3>9
  <2> QED BY <2>2, <2>3
<1>6. AllocInv'
  <2>1. \A v \in Indices' : live_ranges'[v] # NULL' => v >= FirstSsa /\ Complete(v)'
    BY <1>1 DEF AllocInv, Complete
  <2>2. Numbered'
    BY <1>1 DEF AllocInv, Numbered, MaxInstrs, alloc_ranges, graph
  <2>3. (\A k \in 1 .. Len(active) : active[k].end < DefPos(at))'
    BY <1>3, <1>4 DEF DefPos, LifetimePos
  <2>4. at' \in 0 .. N /\ (\A v \in FirstSsa .. N + 1 : live_ranges'[v] # NULL)
    BY <1>1, <1>3 DEF AllocInv
  <2> QED BY <2>1, <2>2, <2>3, <2>4, <1>1, <1>4, <1>5, Zenon DEF AllocInv
<1> QED BY <1>1, <1>3, <1>6 DEF IInv, RegistersApart

(* The registers of the definitions up to the last but two are the words of *)
(* the pool in order.                                                       *)
LEMMA AssignStep == ASSUME IInv, assign PROVE IInv'
<1>1. /\ N \in Nat /\ CodeOK' /\ N' = N
      /\ phase = "alloc_ranges" /\ phase' = "assigned" /\ at = N /\ AllocInv
  BY DEF IInv, assign, AllocLimit, CodeOK, N, graph
<1>2. \A i \in 1 .. N : register_maps[ssa[i]] = OutputOf(i)
  <2>1. \A i \in 1 .. N : ssa[i] = i + 1 /\ i + 1 \in 0 .. kNumberOfCpuRegisters
    BY <1>1, RegAllocAssumption DEF AllocInv, Numbered, MaxInstrs
  <2>2. \A i \in 1 .. N : register_maps[i + 1] = IF i + 1 \in FirstSsa .. N - 1 THEN (i + 1) - FirstSsa - 1 ELSE 0
    BY <1>1, <2>1 DEF AllocInv, MapsAt
  <2>3. ASSUME NEW i \in 1 .. N PROVE register_maps[i + 1] = OutputOf(i)
    BY <1>1, <2>2 DEF FirstSsa, OutputOf
  <2> QED BY <2>1, <2>3
<1>3. locations' = [i \in 1 .. N |->
                      [inputs |-> [k \in DOMAIN code[i].inputs |-> OutputOf(code[i].inputs[k])],
                       output |-> OutputOf(i)]]
  <2>1. \A i \in 1 .. N : \A k \in DOMAIN code[i].inputs : code[i].inputs[k] \in 1 .. N
    BY <1>1 DEF IInv, CodeOK
  <2>2. locations' = [i \in 1 .. N |->
                        [inputs |-> [k \in DOMAIN code[i].inputs |-> register_maps[ssa[code[i].inputs[k]]]],
                         output |-> register_maps[ssa[i]]]]
    BY DEF assign
  <2> QED BY <1>2, <2>1, <2>2
<1>4. Assigned'
  <2>1. code' = code /\ N <= MaxInstrs /\ N' = N /\ OutputOf(1)' = OutputOf(1)
    BY <1>1 DEF assign, graph, AllocInv, Numbered, OutputOf
  <2>2. \A i : OutputOf(i)' = OutputOf(i)
    BY <1>1 DEF OutputOf
  <2> QED BY <1>3, <2>1, <2>2 DEF Assigned, MaxInstrs, OutputOf
<1>5. \A i \in 1 .. N - FirstSsa : locations'[i].output = i - FirstSsa
  BY <1>1, <1>3 DEF OutputOf, FirstSsa
<1>6. RegistersApart'
  BY <1>1, <1>5 DEF RegistersApart, FirstSsa
<1> QED BY <1>1, <1>4, <1>6 DEF IInv

LEMMA StepInv == IInv /\ [Next]_vars => IInv'
<1> SUFFICES ASSUME IInv, [Next]_vars PROVE IInv'
  OBVIOUS
<1>1. CASE graph_rename      BY <1>1, RenameStep
<1>2. CASE process           BY <1>2, ProcessStep
<1>3. CASE live_ranges_built BY <1>3, BuiltStep
<1>4. CASE alloc_ranges      BY <1>4, AllocStep
<1>5. CASE assign            BY <1>5, AssignStep
<1>6. CASE UNCHANGED vars
  <2>1. /\ code' = code /\ ssa' = ssa /\ phase' = phase /\ at' = at
        /\ live_ranges' = live_ranges /\ active' = active /\ locations' = locations
        /\ register_pool' = register_pool /\ register_maps' = register_maps
    BY <1>6 DEF vars, graph, pools
  <2>2. CodeOK' /\ N' = N /\ Indices' = Indices /\ (Numbered => Numbered')
    <3>1. N' = N
      BY <2>1 DEF N
    <3>2. CodeOK'
      BY <2>1, <3>1 DEF IInv, CodeOK
    <3>3. Indices' = Indices
      BY <3>1 DEF Indices
    <3>4. Numbered => Numbered'
      BY <2>1, <3>1, <3>3 DEF Numbered, MaxInstrs
    <3> QED BY <3>1, <3>2, <3>3, <3>4
  <2>3. /\ PoolAt(0)' = PoolAt(0) /\ (MapsAt(0) => MapsAt(0)')
        /\ PoolAt(at)' = PoolAt(at) /\ (MapsAt(at) => MapsAt(at)')
    BY <2>1 DEF PoolAt, MapsAt
  <2>4. BuildInv => BuildInv'
    BY <2>1, <2>2, <2>3 DEF BuildInv, Complete, Growing
  <2>5. AllocInv => AllocInv'
    BY <2>1, <2>2, <2>3 DEF AllocInv, Complete
  <2>6. RegistersApart' /\ (phase = "rename" => active' = <<>> /\ PoolAt(0)' = register_pool' /\ MapsAt(0)')
    BY <2>1 DEF IInv, RegistersApart, PoolAt, MapsAt, N
  <2>7. Assigned => Assigned'
    BY <2>1, <2>2 DEF Assigned, OutputOf, MaxInstrs
  <2> QED BY <2>1, <2>2, <2>4, <2>5, <2>6, <2>7 DEF IInv
<1> QED BY <1>1, <1>2, <1>3, <1>4, <1>5, <1>6 DEF Next

(* IInv holds in every state of the allocator, for any straight-line code. *)
THEOREM Invariant == Spec => []IInv
<1>1. Init => IInv
  BY InitInv
<1>2. IInv /\ [Next]_vars => IInv'
  BY StepInv
<1> QED BY <1>1, <1>2, PTL DEF Spec

(* alloc_ranges never takes an active range for expired, so it never leaves *)
(* a NULL for add_to_active to dereference, and no register is reused.      *)
THEOREM NoRangeExpires == Spec => []NothingExpires
<1>1. IInv => NothingExpires
  BY DEF IInv, NothingExpires
<1> QED BY <1>1, Invariant, PTL

(* Two definitions that both got a register, all but the last two, never    *)
(* share it.                                                                *)
THEOREM NoSharedRegister == Spec => []RegistersApart
<1>1. IInv => RegistersApart
  BY DEF IInv
<1> QED BY <1>1, Invariant, PTL
=============================================================================
