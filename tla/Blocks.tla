------------------------------- MODULE Blocks -------------------------------
(***************************************************************************)
(* graph_discover_blocks: the depth-first walk that numbers the blocks of  *)
(* a flow graph (flow_graph.c, instructions.c, blocks.c).                  *)
(*                                                                         *)
(* The walk asks an instruction for its successors through the table       *)
(* kDefinitions, in which only the graph entry has any yet: the program's  *)
(* own graph is the entry and one target.  The walk is written for every   *)
(* graph, and Graphs says which ones are looked at.  A graph is a record   *)
(* of functions on its blocks: kind, successors (a sequence), and code,    *)
(* the instructions behind the block's head.  Block 0 is the graph entry.  *)
(***************************************************************************)
EXTENDS Integers, Sequences, FiniteSets, SequencesExt

CONSTANTS Graphs,
          Garbage    \* what malloc left in preorder_num

Entry == 0

IsGraph(g) == /\ Entry \in DOMAIN g.successors
              /\ \A b \in DOMAIN g.successors :
                   g.successors[b] \in Seq(DOMAIN g.successors \ {Entry})

\* The kinds fit the edges: a target, which has room for one predecessor, is
\* entered from one block.
KindsFit(g) ==
  /\ \A b \in DOMAIN g.successors \ {Entry} : g.kind[b] \in {"target", "join"}
  /\ \A b, p, q \in DOMAIN g.successors :
       g.kind[b] = "target" /\ b \in Range(g.successors[p]) /\ b \in Range(g.successors[q]) => p = q

ASSUME BlocksAssumption == /\ Garbage \subseteq Int
                           /\ \A g \in Graphs : IsGraph(g)

VARIABLES
  graph,
  slots,                  \* what the stack's pointers to new_state find: "one" or "many"
  phase,                  \* "discover", then the phases behind it
  preorder, postorder,    \* blocks in the order they were met and left
  parent,                 \* of each block in preorder, its parent's number
  preorder_num, postorder_num, predecessors,    \* fields of the blocks
  states,                 \* block_traversal_state's: init_state and what new_state was
  block_stack             \* indices into states

numbers == <<preorder, parent, preorder_num>>
walk == <<postorder, postorder_num, states, block_stack>>
blockVars == <<graph, slots, numbers, walk, predecessors>>

Blocks == DOMAIN graph.successors
successors(b) == graph.successors[b]
NoNumber == -1
Init_state == 1    \* the place of init_state; new_state's come behind it
-----------------------------------------------------------------------------
BlocksInit == /\ graph \in Graphs
              /\ slots \in {"one", "many"}
              /\ phase = "discover"
              /\ preorder = <<>> /\ postorder = <<>> /\ parent = <<>>
              /\ \E n \in Garbage : preorder_num = [b \in Blocks |-> n]
              /\ postorder_num = [b \in Blocks |-> NoNumber]
              /\ predecessors = [b \in Blocks |-> <<>>]
              /\ states = <<>> /\ block_stack = <<>>

\* Mutant: any number in range is taken for a mark.
is_markedByNumber(b) == preorder_num[b] \in 0 .. Len(preorder) - 1

\* preorder_num may never have been set: only the entry of preorder tells.
is_marked(b) == /\ preorder_num[b] \in 0 .. Len(preorder) - 1
                /\ preorder[preorder_num[b] + 1] = b

\* A join collects its predecessors, a target has room for one, the entry for none.
block_add_predecessor(preds, b, p) ==
  CASE graph.kind[b] = "join"   -> [preds EXCEPT ![b] = Append(@, p)]
    [] graph.kind[b] = "target" -> [preds EXCEPT ![b] = <<p>>]
    [] OTHER -> preds

\* Mutant: the parent is numbered from one.
parent_numOff(p) == preorder_num[p] + 1
parent_num(p) == preorder_num[p]

\* Mutant: the entry, which has no parent, takes no place in parent.
NumberNoRoot(b, num) == /\ parent' = IF num = -1 THEN parent ELSE Append(parent, num)
                        /\ preorder_num' = [preorder_num EXCEPT ![b] = Len(preorder)]
                        /\ preorder' = Append(preorder, b)

\* block_discover_blocks of a block that is not marked.
Number(b, num) == /\ parent' = Append(parent, num)
                  /\ preorder_num' = [preorder_num EXCEPT ![b] = Len(preorder)]
                  /\ preorder' = Append(preorder, b)

State(b) == [block |-> b, next |-> Len(successors(b)) - 1]

discover_entry == /\ phase = "discover" /\ preorder = <<>>
                  /\ Number(Entry, -1)
                  /\ states' = <<State(Entry)>> /\ block_stack' = <<Init_state>>
                  /\ UNCHANGED <<graph, slots, phase, postorder, postorder_num, predecessors>>

Top == states[Last(block_stack)]
Visiting == phase = "discover" /\ block_stack # <<>>
Successor == successors(Top.block)[Top.next + 1]

Decremented == [states EXCEPT ![Last(block_stack)].next = @ - 1]

visit_marked == /\ Visiting /\ Top.next >= 0 /\ is_marked(Successor)
                /\ predecessors' = block_add_predecessor(predecessors, Successor, Top.block)
                /\ states' = Decremented
                /\ UNCHANGED <<graph, slots, phase, numbers, postorder, postorder_num, block_stack>>

\* new_state is a local of the loop's body, and the stack keeps a pointer to it
\* after the body has ended.  Either each of them stays where it was, or they
\* all have one place, as in the code that compilers make.
NewSlot == IF slots = "many" THEN Len(states) + 1 ELSE Init_state + 1

visit_new == /\ Visiting /\ Top.next >= 0 /\ ~is_marked(Successor)
             /\ Number(Successor, parent_num(Top.block))
             /\ predecessors' = block_add_predecessor([predecessors EXCEPT ![Successor] = <<>>],
                                                      Successor, Top.block)
             /\ states' = IF NewSlot \in DOMAIN states
                          THEN [Decremented EXCEPT ![NewSlot] = State(Successor)]
                          ELSE Append(Decremented, State(Successor))
             /\ block_stack' = Append(block_stack, NewSlot)
             /\ UNCHANGED <<graph, slots, phase, postorder, postorder_num>>

\* Mutant: the number is the one in reverse postorder.
leave_blockReverse == /\ Visiting /\ Top.next < 0
                      /\ block_stack' = Front(block_stack)
                      /\ postorder_num' = [postorder_num EXCEPT ![Top.block] = Len(preorder) - 1 - Len(postorder)]
                      /\ postorder' = Append(postorder, Top.block)
                      /\ UNCHANGED <<graph, slots, phase, numbers, states, predecessors>>

leave_block == /\ Visiting /\ Top.next < 0
               /\ block_stack' = Front(block_stack)
               /\ postorder_num' = [postorder_num EXCEPT ![Top.block] = Len(postorder)]
               /\ postorder' = Append(postorder, Top.block)
               /\ UNCHANGED <<graph, slots, phase, numbers, states, predecessors>>

Discovered == phase = "discover" /\ preorder # <<>> /\ block_stack = <<>>

graph_discover_blocks == discover_entry \/ visit_marked \/ visit_new \/ leave_block
-----------------------------------------------------------------------------
Met == Range(preorder)

(* Whatever preorder_num held before, the numbers are those of the blocks  *)
(* met, each met once, and each but the entry was met on an edge from its  *)
(* parent, which has a lower number.                                       *)
PreorderIsTree ==
  /\ Len(parent) = Len(preorder)
  /\ \A i \in DOMAIN preorder : preorder_num[preorder[i]] = i - 1
  /\ \A i \in DOMAIN preorder : i > 1 =>
       /\ parent[i] \in 0 .. i - 2
       /\ preorder[i] \in Range(successors(preorder[parent[i] + 1]))

\* A state was overwritten while the stack still pointed to it.
Overwritten == slots = "one" /\ Len(preorder) > 2

Count(s, x) == Cardinality({i \in DOMAIN s : s[i] = x})

(* When the walk has ended, unless it lost a state: each block that can be *)
(* reached was met, and a block's predecessors are the blocks with edges   *)
(* to it, as often as there are edges.                                     *)
PredecessorsExact == Discovered /\ ~Overwritten =>
  /\ \A b \in Met : Range(successors(b)) \subseteq Met
  /\ \A b, p \in Met : graph.kind[b] = "join" =>
       Count(predecessors[b], p) = Count(successors(p), b)

(* Then also every block has one place in postorder, and the blocks below  *)
(* it in the tree come before it.                                          *)
PostorderExact == Discovered /\ ~Overwritten =>
  /\ Range(postorder) = Met /\ Len(postorder) = Len(preorder)
  /\ \A i \in DOMAIN postorder : postorder_num[postorder[i]] = i - 1
  /\ \A i \in DOMAIN preorder : i > 1 =>
       postorder_num[preorder[i]] < postorder_num[preorder[parent[i] + 1]]
=============================================================================
