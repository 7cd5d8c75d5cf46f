----------------------------- MODULE Dominators -----------------------------
(***************************************************************************)
(* compute_dominators (flow_graph.c): semidominators with path             *)
(* compression, from them dominators, from them dominance frontiers.       *)
(* Blocks are named by their numbers in preorder.                          *)
(*                                                                         *)
(* The words in semi and label are allocated one by one.  When a block is  *)
(* done, label[b] becomes the same word as semi[b].  compress_path only    *)
(* meets blocks that are done, so that one function stands for both: what  *)
(* it writes as a label is a semidominator too.                            *)
(***************************************************************************)
EXTENDS Blocks

VARIABLES
  pass,         \* which of the three loops runs, 0 before them
  block_index,
  idom, semi,
  up,           \* graph->parent while its entries are replaced
  lowered,      \* history: blocks whose semi changed after they were done
  dominator,    \* field of the blocks, by number
  dominated,
  dominance     \* the frontier: a bit vector per block, here a set

dominatorVars == <<pass, block_index, idom, semi, up, lowered, dominator, dominated, dominance>>

Size == Len(parent)
Numbers == 0 .. Size - 1
Nobody == -1

PredNumbers(b) == [i \in DOMAIN predecessors[preorder[b + 1]] |->
                     preorder_num[predecessors[preorder[b + 1]][i]]]

minimum(a, b) == IF a < b THEN a ELSE b
-----------------------------------------------------------------------------
DominatorsInit == /\ pass = 0 /\ block_index = 0
                  /\ idom = <<>> /\ semi = <<>> /\ up = <<>> /\ lowered = {}
                  /\ dominator = <<>> /\ dominated = <<>> /\ dominance = <<>>

compute_dominators ==
  /\ Discovered
  /\ phase' = "dominators"
  /\ pass' = 1 /\ block_index' = Size - 1
  /\ idom' = [b \in Numbers |-> parent[b + 1]] /\ up' = idom'
  /\ semi' = [b \in Numbers |-> b]
  /\ dominator' = [b \in Numbers |-> Nobody]
  /\ dominated' = [b \in Numbers |-> <<>>]
  /\ dominance' = [b \in Numbers |-> {}]
  /\ UNCHANGED <<blockVars, lowered>>

\* The path from current up to start, with the least label in it handed down.
compress_path(start, current, tree) ==
  LET compress[c \in Numbers] ==
        LET next == tree.up[c]
            above == compress[next]
        IN  IF next > start
            THEN [above EXCEPT !.semi[c] = minimum(@, above.semi[next]),
                               !.up[c] = above.up[next]]
            ELSE tree
  IN  compress[current]

\* One predecessor of block b.
Relax(b, tree, pred) ==
  LET best == IF pred > b THEN compress_path(b, pred, tree) ELSE tree
  IN  [best EXCEPT !.semi[b] = minimum(@, best.semi[pred])]

Looping(n) == phase = "dominators" /\ pass = n

\* All predecessors of block b, one after the other.
RelaxAll(b) ==
  LET preds == PredNumbers(b)
      tree[i \in 0 .. Len(preds)] == IF i = 0 THEN [semi |-> semi, up |-> up]
                                     ELSE Relax(b, tree[i - 1], preds[i])
  IN  tree[Len(preds)]

semidominator ==
  /\ Looping(1) /\ block_index >= 1
  /\ LET tree == RelaxAll(block_index)
     IN  /\ semi' = tree.semi /\ up' = tree.up
         /\ lowered' = lowered \cup {c \in Numbers : c > block_index /\ tree.semi[c] # semi[c]}
  /\ block_index' = block_index - 1
  /\ UNCHANGED <<blockVars, phase, pass, idom, dominator, dominated, dominance>>

semidominators_done ==
  /\ Looping(1) /\ block_index < 1
  /\ pass' = 2 /\ block_index' = 1
  /\ UNCHANGED <<blockVars, phase, idom, semi, up, lowered, dominator, dominated, dominance>>

\* Mutant: the climb stops one dominator too late.
ClimbPast(b) == LET climb[d \in Numbers] == IF d >= semi[b] /\ d > 0 THEN climb[idom[d]] ELSE d
                IN  climb[idom[b]]

\* Mutant: no climb, the parent in the tree is the dominator.
ClimbNot(b) == idom[b]

\* From the parent up, to a block not above the semidominator's number.
Climb(b) == LET climb[d \in Numbers] == IF d > semi[b] THEN climb[idom[d]] ELSE d
            IN  climb[idom[b]]

block_add_dominated ==
  /\ Looping(2) /\ block_index < Size
  /\ LET dom_index == Climb(block_index)
     IN  /\ idom' = [idom EXCEPT ![block_index] = dom_index]
         /\ dominator' = [dominator EXCEPT ![block_index] = dom_index]
         /\ dominated' = [dominated EXCEPT ![dom_index] = Append(@, block_index)]
  /\ block_index' = block_index + 1
  /\ UNCHANGED <<blockVars, phase, pass, semi, up, lowered, dominance>>

dominators_done ==
  /\ Looping(2) /\ block_index = Size
  /\ pass' = 3 /\ block_index' = 0
  /\ UNCHANGED <<blockVars, phase, idom, semi, up, lowered, dominator, dominated, dominance>>

\* The blocks a runner meets from block r until it meets stop; the entry has no
\* dominator, and a runner that gets past it is at Nobody.
Run(r, stop) == LET run[x \in Numbers \cup {Nobody}] ==
                      IF x = stop THEN {} ELSE {x} \cup (IF x = Nobody THEN {} ELSE run[dominator[x]])
                IN  run[r]

\* A target counts one predecessor, whatever it has.
Runners(b) == IF graph.kind[preorder[b + 1]] = "join" /\ Len(PredNumbers(b)) > 1
              THEN UNION {Run(p, dominator[b]) : p \in Range(PredNumbers(b))} ELSE {}

frontier ==
  /\ Looping(3) /\ block_index < Size /\ Nobody \notin Runners(block_index)
  /\ dominance' = [b \in Numbers |-> IF b \in Runners(block_index)
                                     THEN dominance[b] \cup {block_index} ELSE dominance[b]]
  /\ block_index' = block_index + 1
  /\ UNCHANGED <<blockVars, phase, pass, idom, semi, up, lowered, dominator, dominated>>

\* The entry's dominator is read, and nobody set it.
runner_lost ==
  /\ Looping(3) /\ block_index < Size /\ Nobody \in Runners(block_index)
  /\ phase' = "undefined"
  /\ UNCHANGED <<blockVars, dominatorVars>>

DominatorsDone == Looping(3) /\ block_index = Size

DominatorsNext == \/ compute_dominators \/ semidominator \/ semidominators_done
                  \/ block_add_dominated \/ dominators_done \/ frontier \/ runner_lost
-----------------------------------------------------------------------------
\* Reference definitions, over the edges that the walk recorded.
Edge(p, b) == p \in Range(PredNumbers(b))

\* Some set of blocks holds the entry and, but for a itself, every block an
\* edge leads to from it, and does not hold b: b can be reached only through a.
Dominates(a, b) ==
  a = b \/ a = 0 \/ \E S \in SUBSET (Numbers \ {a, b}) :
                      0 \in S /\ \A p \in S, q \in Numbers : Edge(p, q) => q \in S \cup {a}
Strictly(a, b) == a # b /\ Dominates(a, b)
Immediate(a, b) == Strictly(a, b) /\ \A c \in Numbers : Strictly(c, b) => Dominates(c, a)

InFrontier(a, b) == (\E p \in Numbers : Edge(p, b) /\ Dominates(a, p)) /\ ~Strictly(a, b)

Dominated == pass = 3 /\ block_index = 0

(* The block named as a block's dominator dominates it, even where a later *)
(* compression has changed the semidominator it was computed from.         *)
DominatorsDominate == Dominated => \A b \in Numbers \ {0} : Strictly(dominator[b], b)

(* Where no compression has changed a block that was done, the dominators  *)
(* are the immediate ones, and the frontiers of the joins are exact.       *)
ExactUnlessLowered ==
  lowered = {} => /\ Dominated => \A b \in Numbers \ {0} : Immediate(dominator[b], b)
                  /\ DominatorsDone => \A a, b \in Numbers : graph.kind[preorder[b + 1]] = "join" =>
                       (b \in dominance[a] <=> InFrontier(a, b))
=============================================================================
