-------------------------------- MODULE Ssa ---------------------------------
(***************************************************************************)
(* graph_compute_ssa behind graph_discover_blocks: dominators, liveness of *)
(* the local variables (liveness.c), places for phis, and the numbering of *)
(* the definitions along the dominator tree (flow_graph.c).                *)
(*                                                                         *)
(* An instruction is a record of its op and, for a store, the bit index of *)
(* its variable.  Nothing in the program makes a load, for which           *)
(* kDefinitions has no entry either: code holds none.                      *)
(***************************************************************************)
EXTENDS Dominators

CONSTANT kBitsPerWord

ASSUME SsaAssumption ==
  /\ kBitsPerWord \in Nat \ {0}
  /\ \A g \in Graphs : \A b \in DOMAIN g.successors : g.code[b] \in Seq([op : {"store_local", "other"}, index : Int])

VARIABLES
  live_in, live_out, kill,    \* by place in postorder
  is_dead, is_last,           \* fields of the stores: places in code, by block
  changed,
  assigned,                   \* by place in preorder
  todo,                       \* blocks for graph_rename_recursive, the next one first
  current_ssa_temp_index,
  ssa                         \* by number of block: the index of its NIL constant

dominatorResults == <<pass, idom, semi, up, lowered, dominator, dominated, dominance>>
livenessVars == <<live_in, live_out, kill, is_dead, is_last, changed, assigned>>
renameVars == <<todo, current_ssa_temp_index, ssa>>
vars == <<phase, blockVars, dominatorVars, livenessVars, renameVars>>

code(b) == graph.code[b]
Place(b) == postorder_num[b] + 1    \* where block b is in an array by postorder

Init == /\ BlocksInit /\ DominatorsInit
        /\ live_in = <<>> /\ live_out = <<>> /\ kill = <<>>
        /\ is_dead = [b \in Blocks |-> {}] /\ is_last = [b \in Blocks |-> {}]
        /\ changed = FALSE /\ assigned = <<>>
        /\ todo = <<>> /\ current_ssa_temp_index = 0 /\ ssa = <<>>

Discovery == graph_discover_blocks /\ UNCHANGED <<dominatorVars, livenessVars, renameVars>>
DominatorPasses == DominatorsNext /\ UNCHANGED <<livenessVars, renameVars>>
-----------------------------------------------------------------------------
\* variable_liveness_init and the first loop of liveness_analyze.
liveness_analyze ==
  /\ DominatorsDone
  /\ phase' = "initial_sets" /\ block_index' = 1
  /\ live_in' = [i \in DOMAIN postorder |-> {}]
  /\ live_out' = live_in' /\ kill' = live_in'
  /\ UNCHANGED <<blockVars, dominatorResults,
                 is_dead, is_last, changed, assigned, renameVars>>

\* A variable that was given no place has index -2, and the processor takes a
\* negative shift from the top of the word.
Bit(index) == IF index < 0 THEN kBitsPerWord + index ELSE index

Backward(b) == Reverse([i \in DOMAIN code(b) |-> i])

\* The store at place i of block b.  A load would have made its variable's bit
\* live.  The test of the index is with the number of blocks.
StoreLocal(b, sets, i) ==
  LET index == code(b)[i].index
      bit == Bit(index)
      in == live_in[block_index]
  IN  IF code(b)[i].op # "store_local" \/ index >= Len(live_in) THEN sets
      ELSE IF bit \in sets.kill
      THEN [sets EXCEPT !.dead = IF bit \in in THEN @ ELSE @ \cup {i}]
      ELSE [sets EXCEPT !.last = IF bit \in in THEN @ ELSE @ \cup {i}, !.kill = @ \cup {bit}]

\* The stores of block b one after the other.
StoreLocals(b) ==
  LET sets[k \in 0 .. Len(code(b))] ==
        IF k = 0 THEN [kill |-> kill[block_index], dead |-> is_dead[b], last |-> is_last[b]]
        ELSE StoreLocal(b, sets[k - 1], Backward(b)[k])
  IN  sets[Len(code(b))]

compute_initial_sets ==
  /\ phase = "initial_sets" /\ block_index <= Len(postorder)
  /\ LET b == postorder[block_index]
         sets == StoreLocals(b)
     IN  /\ kill' = [kill EXCEPT ![block_index] = sets.kill]
         /\ is_dead' = [is_dead EXCEPT ![b] = sets.dead]
         /\ is_last' = [is_last EXCEPT ![b] = sets.last]
  /\ block_index' = block_index + 1
  /\ UNCHANGED <<phase, blockVars, dominatorResults,
                 live_in, live_out, changed, assigned, renameVars>>

Pass == block_index' = 1 /\ changed' = FALSE

initial_sets_done ==
  /\ phase = "initial_sets" /\ block_index > Len(postorder)
  /\ phase' = "live_sets" /\ Pass
  /\ UNCHANGED <<blockVars, dominatorResults,
                 live_in, live_out, kill, is_dead, is_last, assigned, renameVars>>

\* live_out[b] collects live_in of the successors; only if it grew, live_in[b]
\* gets what is not killed.
LiveOut(b) == live_out[Place(b)] \cup UNION {live_in[Place(s)] : s \in Range(successors(b))}
LiveIn(b) == IF LiveOut(b) # live_out[Place(b)]
             THEN live_in[Place(b)] \cup (LiveOut(b) \ kill[Place(b)]) ELSE live_in[Place(b)]

\* Mutant: a set that stayed as it was counts as changed.
GrewInverted(b) == LiveIn(b) = live_in[Place(b)]
Grew(b) == LiveIn(b) # live_in[Place(b)]

\* Every block has its place: otherwise an array is read at an unset number.
Placed == \A b \in Range(postorder) : \A s \in {b} \cup Range(successors(b)) : postorder_num[s] # NoNumber

update_live_sets ==
  /\ phase = "live_sets" /\ block_index <= Len(postorder) /\ Placed
  /\ LET b == postorder[block_index] IN
       /\ live_out' = [live_out EXCEPT ![Place(b)] = LiveOut(b)]
       /\ live_in' = [live_in EXCEPT ![Place(b)] = LiveIn(b)]
       /\ changed' = (changed \/ Grew(b))
  /\ block_index' = block_index + 1
  /\ UNCHANGED <<phase, blockVars, dominatorResults,
                 kill, is_dead, is_last, assigned, renameVars>>

place_unset ==
  /\ phase = "live_sets" /\ ~Placed
  /\ phase' = "undefined"
  /\ UNCHANGED <<blockVars, dominatorVars, livenessVars, renameVars>>

\* Mutant: what is killed counts as assigned, used behind the block or not.
compute_assignedAll(b) == kill[Place(b)]

\* The kill set itself is cut down to what is live behind the block.
compute_assigned(b) == kill[Place(b)] \cap live_out[Place(b)]

CutKill == [p \in DOMAIN postorder |-> compute_assigned(postorder[p])]

\* Another pass if this one changed anything.
live_sets_passed ==
  /\ phase = "live_sets" /\ block_index > Len(postorder) /\ Pass
  /\ phase' = IF changed THEN phase ELSE "phis"
  /\ kill' = IF changed THEN kill ELSE CutKill
  /\ assigned' = IF changed THEN assigned ELSE [i \in DOMAIN preorder |-> compute_assigned(preorder[i])]
  /\ UNCHANGED <<blockVars, dominatorResults,
                 live_in, live_out, is_dead, is_last, renameVars>>
-----------------------------------------------------------------------------
\* insert_phis finds no variable assigned in any block, and its worklist stays
\* empty (NothingAssigned); graph_rename starts at the entry.
insert_phis ==
  /\ phase = "phis" /\ \A i \in DOMAIN assigned : assigned[i] = {}
  /\ phase' = "rename"
  /\ todo' = <<0>>
  /\ ssa' = [b \in Numbers |-> Nobody]
  /\ UNCHANGED <<blockVars, dominatorVars, livenessVars, current_ssa_temp_index>>

\* Mutant: the NIL constant takes no index of its own.
IndicesWithoutNil(b) == Len(code(b))

\* A block takes one index for its NIL constant and one for each instruction,
\* all of which kDefinitions knows.
Indices(b) == 1 + Len(code(b))

graph_rename_recursive ==
  /\ phase = "rename" /\ todo # <<>>
  /\ LET b == Head(todo) IN
       /\ ssa' = [ssa EXCEPT ![b] = current_ssa_temp_index]
       /\ current_ssa_temp_index' = current_ssa_temp_index + Indices(preorder[b + 1])
       /\ todo' = dominated[b] \o Tail(todo)
  /\ UNCHANGED <<phase, blockVars, dominatorVars, livenessVars>>

renamed ==
  /\ phase = "rename" /\ todo = <<>>
  /\ phase' = "done"
  /\ UNCHANGED <<blockVars, dominatorVars, livenessVars, renameVars>>

Liveness == liveness_analyze \/ compute_initial_sets \/ initial_sets_done
              \/ update_live_sets \/ place_unset \/ live_sets_passed
Rename == insert_phis \/ graph_rename_recursive \/ renamed
Next == Discovery \/ DominatorPasses \/ Liveness \/ Rename

Spec == Init /\ [][Next]_vars /\ WF_vars(Next)
-----------------------------------------------------------------------------
(* The arrays grow together, and the stack points into its states.         *)
TypeOK == /\ \A b \in Met : b \in Blocks
          /\ Len(parent) = Len(preorder) /\ Len(postorder) <= Len(preorder)
          /\ \A k \in DOMAIN block_stack : block_stack[k] \in DOMAIN states
          /\ \A b \in Blocks : Range(predecessors[b]) \subseteq Blocks
          /\ pass > 0 => dominator \in [Numbers -> Numbers \cup {Nobody}] /\ dominance \in [Numbers -> SUBSET Numbers]
          /\ Len(live_in) = Len(kill) /\ Len(live_in) \in {0, Len(postorder)}
          /\ current_ssa_temp_index \in Nat

(* Of the stores of one bit in a block that the analysis looks at, the     *)
(* last one is marked last and all others dead.                            *)
Marked(b, i) == code(b)[i].op = "store_local" /\ code(b)[i].index < Len(live_in)
Later(b, i) == {j \in DOMAIN code(b) : j > i /\ Marked(b, j) /\ Bit(code(b)[j].index) = Bit(code(b)[i].index)}
StoresMarked == phase = "live_sets" =>
  \A b \in Range(postorder) :
                 /\ is_last[b] = {i \in DOMAIN code(b) : Marked(b, i) /\ Later(b, i) = {}}
                 /\ is_dead[b] = {i \in DOMAIN code(b) : Marked(b, i) /\ Later(b, i) # {}}

(* Code without loads needs no phi: whatever the graph and the stores, no  *)
(* variable counts as assigned in any block.                               *)
NothingAssigned == \A i \in DOMAIN assigned : assigned[i] = {}

(* Every block is renamed once, and no two values get one index.  In the   *)
(* program's own graph the target's instructions start at index 2, which   *)
(* is where RegAlloc starts them.                                          *)
Taken(b) == ssa[b] .. ssa[b] + Len(code(preorder[b + 1]))
OneIndexEach == phase = "done" =>
  /\ \A b \in Numbers : ssa[b] # Nobody
  /\ \A a, b \in Numbers : a # b => Taken(a) \cap Taken(b) = {}
  /\ preorder = <<0, 1>> /\ code(Entry) = <<>> => ssa[1] + 1 = 2

(* The numbering comes to an end on every graph whose walk loses no state  *)
(* and whose semidominators are not changed behind their computation.      *)
Finishes == <>(phase = "done" \/ Overwritten \/ lowered # {})
=============================================================================
