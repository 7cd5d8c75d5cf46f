------------------------------- MODULE MCSsa --------------------------------
(***************************************************************************)
(* The program's graph with every short code in its target, every graph of *)
(* four blocks with up to two successors each, and graphs of five blocks.  *)
(***************************************************************************)
EXTENDS Ssa

CONSTANTS CodeLength,   \* of the target in the program's graph
          Places        \* bit indices of variables that were given a place

Store(index) == [op |-> "store_local", index |-> index]
Other == [op |-> "other", index |-> 0]
Unplaced == Store(-2)

Codes == UNION {[1 .. n -> {Other, Unplaced}] \cup [1 .. n -> {Other} \cup {Store(i) : i \in Places}]
                 : n \in 0 .. CodeLength}

Program == {[kind |-> (0 :> "graph_entry" @@ 1 :> "target"), successors |-> (0 :> <<1>> @@ 1 :> <<>>),
             code |-> (0 :> <<>> @@ 1 :> c)] : c \in Codes}

\* A block with several edges to it is a join.
Kind(succ, b) == IF b = Entry THEN "graph_entry"
                 ELSE IF \A p \in DOMAIN succ : Count(succ[p], b) <= 1
                         /\ \A q \in DOMAIN succ : b \in Range(succ[p]) /\ b \in Range(succ[q]) => p = q
                 THEN "target" ELSE "join"

Graph(succ) == [kind |-> [b \in DOMAIN succ |-> Kind(succ, b)], successors |-> succ,
                code |-> [b \in DOMAIN succ |-> IF b = Entry THEN <<>>
                                                ELSE <<Store(b), Other, Store(1), Store(b)>>]]

UpToTwo(S) == {<<>>} \cup {<<a>> : a \in S} \cup {<<a, b>> : a, b \in S}
Four == {Graph((0 :> <<1>>) @@ s) : s \in [1 .. 3 -> UpToTwo(1 .. 3)]}

Five == {Graph(0 :> <<1>> @@ 1 :> s[1] @@ 2 :> s[2] @@ 3 :> s[3] @@ 4 :> s[4]) : s \in {
  <<<<2, 3>>, <<4>>, <<>>, <<3>>>>,              \* a conditional of two blocks
  <<<<2>>, <<3, 4>>, <<2>>, <<>>>>,              \* a loop and what follows it
  <<<<2, 3>>, <<4>>, <<4, 2>>, <<3>>>>,          \* a loop with two entries
  <<<<2>>, <<3, 4>>, <<1, 4>>, <<>>>>}}          \* a loop with two exits

MCGraphs == Program \cup Four \cup Five

\* What the exactness of dominators and frontiers is proved for.
ASSUME GraphsFit == \A g \in MCGraphs : KindsFit(g)
=============================================================================
