----------------------------- MODULE SsaProofs ------------------------------
(***************************************************************************)
(* For every graph, whatever preorder_num held before the walk: the walk   *)
(* numbers a tree; every edge it records enters a lower number or goes     *)
(* down in that tree, and, where no state was overwritten, it records each *)
(* edge once; what compute_dominators computes from the edges recorded     *)
(* dominates, and is exact, the frontiers too, where no label is lowered   *)
(* behind its computation; of a block's stores the last ones to their bits *)
(* are marked; in code without loads no variable counts as assigned in any *)
(* block; and no two values get one index.                                 *)
(***************************************************************************)
EXTENDS Ssa, SequenceTheorems, FiniteSetTheorems, WellFoundedInduction, TLAPS

\* Block b has a place in postorder.
Numbered(b) == Place(b) \in DOMAIN postorder /\ b \in Range(postorder)

BlockState == [block : Blocks, next : Int]

\* The walk: types, numbers, and what a state on the stack may say.
WalkTypes == /\ graph \in Graphs
             /\ slots \in {"one", "many"}
             /\ preorder \in Seq(Blocks) /\ postorder \in Seq(Blocks) /\ parent \in Seq(Int)
             /\ preorder_num \in [Blocks -> Int] /\ postorder_num \in [Blocks -> Int]
             /\ states \in Seq(BlockState)
             /\ block_stack \in Seq(1 .. Len(states))

StatesOK == \A k \in 1 .. Len(states) :
              /\ is_marked(states[k].block)
              /\ states[k].next < Len(successors(states[k].block))

WalkInv == WalkTypes /\ PreorderIsTree /\ StatesOK

\* The last pop is that of the entry.
StackInv == /\ preorder # <<>> => preorder[1] = Entry
            /\ \A k \in 1 .. Len(block_stack) : k = 1 <=> block_stack[k] = Init_state
            /\ preorder # <<>> => states # <<>> /\ states[1].block = Entry
            /\ preorder = <<>> => states = <<>> /\ block_stack = <<>>
            /\ preorder # <<>> /\ block_stack = <<>> => postorder_num[Entry] # NoNumber
            /\ \A b \in Blocks : postorder_num[b] # NoNumber => Numbered(b)

\* Without loads nothing is ever live.
Empty(sets) == \A i \in DOMAIN sets : sets[i] = {}
LiveInv == /\ phase # "discover" => preorder # <<>> /\ block_stack = <<>>
           /\ Empty(live_in) /\ Empty(live_out) /\ DOMAIN live_in = DOMAIN live_out
           /\ phase \in {"initial_sets", "live_sets"} =>
                DOMAIN live_in = DOMAIN postorder /\ block_index \in Nat \ {0}
           /\ phase = "live_sets" /\ block_index > 1 => Placed

IInv == WalkInv /\ StackInv /\ LiveInv /\ NothingAssigned
-----------------------------------------------------------------------------
\* The graph's blocks are among themselves.
LEMMA SuccessorsAreBlocks ==
  ASSUME WalkTypes
  PROVE  /\ Entry \in Blocks
         /\ \A b \in Blocks : successors(b) \in Seq(Blocks)
<1>1. IsGraph(graph)  BY BlocksAssumption DEF WalkTypes
<1>2. \A S, T : S \subseteq T => \A s \in Seq(S) : s \in Seq(T)
  BY ElementOfSeq, IsASeq, SeqMonotonic
<1> QED  BY <1>1, <1>2 DEF IsGraph, Blocks, successors

\* A mark is a number that preorder confirms.
LEMMA MarkedIsMet ==
  ASSUME WalkTypes, PreorderIsTree, NEW b \in Blocks
  PROVE  is_marked(b) <=> \E i \in 1 .. Len(preorder) : preorder[i] = b
<1>1. /\ preorder \in Seq(Blocks) /\ DOMAIN preorder = 1 .. Len(preorder) /\ Len(preorder) \in Nat
      /\ preorder_num[b] \in Int
  BY DEF WalkTypes
<1>2. \A i \in 1 .. Len(preorder) : preorder_num[preorder[i]] = i - 1
  BY <1>1 DEF PreorderIsTree
<1> QED  BY <1>1, <1>2 DEF is_marked

\* A new number extends the tree and takes no mark away.
LEMMA NumberStep ==
  ASSUME WalkTypes, PreorderIsTree, UNCHANGED graph,
         NEW b \in Blocks, ~is_marked(b), NEW num \in Int, Number(b, num),
         preorder # <<>> => /\ num \in 0 .. Len(preorder) - 1
                            /\ b \in Range(successors(preorder[num + 1]))
  PROVE  /\ preorder' \in Seq(Blocks) /\ parent' \in Seq(Int) /\ preorder_num' \in [Blocks -> Int]
         /\ PreorderIsTree'
         /\ \A c \in Blocks : is_marked(c) \/ c = b => is_marked(c)'
<1> DEFINE n == Len(preorder)
<1>1. /\ preorder \in Seq(Blocks) /\ DOMAIN preorder = 1 .. n /\ n \in Nat
      /\ parent \in Seq(Int) /\ Len(parent) = n
      /\ preorder_num \in [Blocks -> Int]
  BY DEF WalkTypes, PreorderIsTree
<1>2. /\ preorder' \in Seq(Blocks) /\ DOMAIN preorder' = 1 .. n + 1 /\ Len(preorder') = n + 1
      /\ preorder'[n + 1] = b /\ \A i \in 1 .. n : preorder'[i] = preorder[i]
  BY <1>1, AppendProperties DEF Number
<1>3. /\ parent' \in Seq(Int) /\ Len(parent') = n + 1
      /\ parent'[n + 1] = num /\ \A i \in 1 .. n : parent'[i] = parent[i]
  BY <1>1, AppendProperties DEF Number
<1>4. /\ preorder_num' \in [Blocks -> Int]
      /\ preorder_num'[b] = n /\ \A c \in Blocks \ {b} : preorder_num'[c] = preorder_num[c]
  BY <1>1 DEF Number
<1>5. \A i \in 1 .. n : preorder[i] # b /\ preorder[i] \in Blocks
  BY <1>1, MarkedIsMet
<1>6. \A i \in 1 .. n : preorder_num[preorder[i]] = i - 1
  BY <1>1 DEF PreorderIsTree
<1>7. \A i \in 1 .. n : i > 1 =>
        /\ parent[i] \in 0 .. i - 2
        /\ preorder[i] \in Range(successors(preorder[parent[i] + 1]))
  BY <1>1 DEF PreorderIsTree
<1>8. n > 0 => num + 1 \in 1 .. n /\ b \in Range(successors(preorder[num + 1]))
  BY <1>1
<1>9. \A c : successors(c)' = successors(c)
  BY DEF successors
<1> HIDE DEF n
<1>10. ASSUME NEW i \in 1 .. n + 1 PROVE preorder_num'[preorder'[i]] = i - 1
  <2>1. CASE i = n + 1
    BY <1>1, <1>2, <1>4, <2>1
  <2>2. CASE i \in 1 .. n
    BY <1>2, <1>4, <1>5, <1>6, <2>2
  <2> QED  BY <1>1, <2>1, <2>2
<1>11. ASSUME NEW i \in 1 .. n + 1, i > 1
       PROVE  /\ parent'[i] \in 0 .. i - 2
              /\ preorder'[i] \in Range(successors(preorder'[parent'[i] + 1]))
  <2>1. CASE i = n + 1
    BY <1>1, <1>2, <1>3, <1>8, <1>11, <2>1
  <2>2. CASE i \in 1 .. n
    <3>1. parent[i] + 1 \in 1 .. n
      BY <1>1, <1>7, <1>11, <2>2
    <3> QED  BY <1>2, <1>3, <1>7, <1>11, <2>2, <3>1
  <2> QED  BY <1>1, <2>1, <2>2
<1>12. PreorderIsTree'
  BY <1>1, <1>2, <1>3, <1>9, <1>10, <1>11 DEF PreorderIsTree
<1>13. ASSUME NEW c \in Blocks, is_marked(c) \/ c = b PROVE is_marked(c)'
  <2>1. PICK i \in 1 .. n + 1 : preorder'[i] = c
    BY <1>1, <1>2, <1>13, MarkedIsMet DEF n
  <2>2. preorder_num'[c] = i - 1
    BY <1>10, <2>1
  <2> QED  BY <1>1, <1>2, <2>1, <2>2 DEF is_marked
<1> QED  BY <1>2, <1>3, <1>4, <1>12, <1>13
-----------------------------------------------------------------------------
\* The state the stack's last pointer finds, and the next successor of its block.
LEMMA TopState ==
  ASSUME WalkInv, Visiting
  PROVE  /\ Len(block_stack) \in Nat \ {0} /\ Last(block_stack) \in 1 .. Len(states)
         /\ Top \in BlockState /\ is_marked(Top.block)
         /\ Top.next >= 0 => Successor \in Blocks /\ Successor \in Range(successors(Top.block))
<1>1. /\ block_stack \in Seq(1 .. Len(states)) /\ block_stack # <<>>
      /\ states \in Seq(BlockState)
  BY DEF WalkInv, WalkTypes, Visiting
<1>2. Len(block_stack) \in Nat \ {0} /\ Last(block_stack) \in 1 .. Len(states)
  BY <1>1, EmptySeq, ElementOfSeq DEF Last
<1>3. Top \in BlockState /\ is_marked(Top.block) /\ Top.next < Len(successors(Top.block))
  BY <1>1, <1>2, ElementOfSeq DEF WalkInv, StatesOK, Top
<1>4. ASSUME Top.next >= 0
      PROVE  Successor \in Blocks /\ Successor \in Range(successors(Top.block))
  <2>1. successors(Top.block) \in Seq(Blocks)
    BY <1>3, SuccessorsAreBlocks DEF WalkInv, BlockState
  <2>2. Top.next + 1 \in 1 .. Len(successors(Top.block))
    BY <1>3, <1>4, <2>1 DEF BlockState
  <2> QED  BY <2>1, <2>2, ElementOfSeq DEF Successor, Range
<1> QED  BY <1>2, <1>3, <1>4

LEMMA DecrementedState ==
  ASSUME WalkInv, Visiting
  PROVE  /\ Decremented \in Seq(BlockState) /\ Len(Decremented) = Len(states)
         /\ \A k \in 1 .. Len(states) : /\ Decremented[k].block = states[k].block
                                       /\ Decremented[k].next <= states[k].next
<1> DEFINE top == Last(block_stack)
<1>1. states \in Seq(BlockState) /\ top \in 1 .. Len(states)
  BY TopState DEF WalkInv, WalkTypes
<1>2. states[top] \in BlockState
  BY <1>1, ElementOfSeq
<1> DEFINE less == [states[top] EXCEPT !.next = @ - 1]
<1>3. less \in BlockState /\ less.block = states[top].block /\ less.next = states[top].next - 1
  BY <1>2 DEF BlockState
<1>4. Decremented = [states EXCEPT ![top] = less]
  BY <1>1 DEF Decremented
<1>5. ASSUME NEW k \in 1 .. Len(states) PROVE states[k].next \in Int
  <2>1. states[k] \in BlockState
    BY <1>1, ElementOfSeq
  <2> QED  BY <2>1 DEF BlockState
<1> HIDE DEF less, top
<1> QED  BY <1>1, <1>2, <1>3, <1>4, <1>5, ExceptSeq
-----------------------------------------------------------------------------
LEMMA WalkStart == Init => WalkInv /\ StackInv
<1> SUFFICES ASSUME Init PROVE WalkInv /\ StackInv
  OBVIOUS
<1>1. WalkTypes
  BY BlocksAssumption DEF Init, BlocksInit, WalkTypes, NoNumber
<1>2. PreorderIsTree /\ StatesOK
  BY DEF Init, BlocksInit, PreorderIsTree, StatesOK
<1>3. StackInv
  BY DEF Init, BlocksInit, StackInv
<1> QED  BY <1>1, <1>2, <1>3 DEF WalkInv

\* The walk's invariants only speak of the walk's variables.
LEMMA WalkUnchanged ==
  ASSUME WalkInv, StackInv, UNCHANGED blockVars
  PROVE  WalkInv' /\ StackInv'
<1>1. WalkTypes'
  BY DEF blockVars, numbers, walk, WalkInv, WalkTypes, Blocks, BlockState
<1>2. PreorderIsTree'
  BY DEF blockVars, numbers, walk, WalkInv, PreorderIsTree, successors
<1>3. StatesOK'
  BY DEF blockVars, numbers, walk, WalkInv, StatesOK, is_marked, successors
<1>4. StackInv'
  BY DEF blockVars, numbers, walk, StackInv, Blocks, Numbered, Place, NoNumber
<1> QED  BY <1>1, <1>2, <1>3, <1>4 DEF WalkInv

LEMMA WalkEnters ==
  ASSUME WalkInv, StackInv, discover_entry
  PROVE  WalkInv' /\ StackInv'
<1>1. /\ preorder = <<>> /\ Number(Entry, -1) /\ UNCHANGED <<graph, slots, postorder, postorder_num>>
      /\ states' = <<State(Entry)>> /\ block_stack' = <<1>>
      /\ Entry \in Blocks /\ successors(Entry) \in Seq(Blocks) /\ WalkTypes /\ PreorderIsTree
  BY SuccessorsAreBlocks DEF discover_entry, WalkInv, Init_state
<1>2. ~is_marked(Entry)
  BY <1>1, MarkedIsMet
<1>3. /\ preorder' \in Seq(Blocks) /\ parent' \in Seq(Int) /\ preorder_num' \in [Blocks -> Int]
      /\ PreorderIsTree' /\ is_marked(Entry)'
  BY <1>1, <1>2, NumberStep
<1>4. State(Entry) \in BlockState /\ State(Entry).next < Len(successors(Entry)) /\ State(Entry).block = Entry
  BY <1>1 DEF State, BlockState
<1>5. Blocks' = Blocks /\ BlockState' = BlockState /\ successors(Entry)' = successors(Entry)
  BY <1>1 DEF Blocks, BlockState, successors
<1>6. WalkTypes'
  BY <1>1, <1>3, <1>4, <1>5 DEF WalkTypes
<1>7. StatesOK'
  BY <1>1, <1>3, <1>4, <1>5 DEF StatesOK
<1>8. preorder' = <<Entry>>
  BY <1>1 DEF Number
<1>9. StackInv'
  BY <1>1, <1>4, <1>5, <1>8 DEF StackInv, Numbered, Place, Init_state
<1> QED  BY <1>3, <1>6, <1>7, <1>9 DEF WalkInv

LEMMA WalkMeetsMarked ==
  ASSUME WalkInv, StackInv, visit_marked
  PROVE  WalkInv' /\ StackInv'
<1>1. /\ WalkTypes /\ PreorderIsTree /\ StatesOK
      /\ states' = Decremented
      /\ UNCHANGED <<graph, slots, numbers, postorder, postorder_num, block_stack>>
  BY DEF visit_marked, WalkInv
<1>2. /\ Decremented \in Seq(BlockState) /\ Len(Decremented) = Len(states)
      /\ \A k \in 1 .. Len(states) : /\ Decremented[k].block = states[k].block
                                    /\ Decremented[k].next <= states[k].next
  BY DecrementedState DEF visit_marked
<1>3. WalkTypes'
  BY <1>1, <1>2 DEF numbers, WalkTypes, Blocks, BlockState
<1>4. PreorderIsTree'
  BY <1>1 DEF numbers, PreorderIsTree, successors
<1>5. ASSUME NEW k \in 1 .. Len(states)
      PROVE  /\ is_marked(Decremented[k].block)
             /\ Decremented[k].next < Len(successors(Decremented[k].block))
  <2>1. is_marked(states[k].block) /\ states[k].next < Len(successors(states[k].block))
    BY <1>1 DEF StatesOK
  <2>2. states[k] \in BlockState /\ Decremented[k] \in BlockState
    BY <1>1, <1>2, ElementOfSeq DEF WalkTypes
  <2>3. Len(successors(states[k].block)) \in Nat
    BY <1>1, <2>2, SuccessorsAreBlocks DEF BlockState
  <2> QED  BY <1>2, <2>1, <2>2, <2>3 DEF BlockState
<1>6. \A c : is_marked(c)' = is_marked(c) /\ successors(c)' = successors(c)
  BY <1>1 DEF numbers, is_marked, successors
<1>7. StatesOK'
  BY <1>1, <1>2, <1>5, <1>6 DEF StatesOK
<1>8. StackInv'
  <2>1. states # <<>> => states' # <<>> /\ states'[1].block = states[1].block
    <3>1. states \in Seq(BlockState)  BY <1>1 DEF WalkTypes
    <3> QED  BY <1>1, <1>2, <3>1
  <2>2. preorder # <<>>
    BY DEF visit_marked, Visiting, StackInv
  <2> QED  BY <1>1, <2>1, <2>2 DEF numbers, StackInv, Blocks, Numbered, Place, NoNumber
<1> QED  BY <1>3, <1>4, <1>7, <1>8 DEF WalkInv

LEMMA WalkMeetsNew ==
  ASSUME WalkInv, StackInv, visit_new
  PROVE  WalkInv' /\ StackInv'
<1> DEFINE new == State(Successor)
<1>1. /\ WalkTypes /\ PreorderIsTree /\ StatesOK
      /\ Visiting /\ Top.next >= 0 /\ ~is_marked(Successor)
      /\ Number(Successor, parent_num(Top.block))
      /\ states' = IF NewSlot \in DOMAIN states THEN [Decremented EXCEPT ![NewSlot] = new]
                   ELSE Append(Decremented, new)
      /\ block_stack' = Append(block_stack, NewSlot)
      /\ UNCHANGED <<graph, slots, postorder, postorder_num>>
  BY DEF visit_new, WalkInv
<1>2. /\ Decremented \in Seq(BlockState) /\ Len(Decremented) = Len(states)
      /\ \A k \in 1 .. Len(states) : /\ Decremented[k].block = states[k].block
                                    /\ Decremented[k].next <= states[k].next
  BY <1>1, DecrementedState
<1>3. /\ Successor \in Blocks /\ Successor \in Range(successors(Top.block))
      /\ Top \in BlockState /\ is_marked(Top.block)
  BY <1>1, TopState
<1>4. /\ parent_num(Top.block) \in 0 .. Len(preorder) - 1
      /\ preorder[parent_num(Top.block) + 1] = Top.block
  BY <1>3 DEF is_marked, parent_num
<1>5. /\ preorder' \in Seq(Blocks) /\ parent' \in Seq(Int) /\ preorder_num' \in [Blocks -> Int]
      /\ PreorderIsTree'
      /\ \A c \in Blocks : is_marked(c) \/ c = Successor => is_marked(c)'
  BY <1>1, <1>3, <1>4, NumberStep
<1>6. new \in BlockState /\ new.next < Len(successors(Successor)) /\ new.block = Successor
  BY <1>1, <1>3, SuccessorsAreBlocks DEF State, BlockState
<1>7. states \in Seq(BlockState) /\ DOMAIN states = 1 .. Len(states) /\ Len(states) \in Nat
  BY <1>1 DEF WalkTypes
<1>8. states # <<>> /\ preorder # <<>>
  BY <1>1 DEF Visiting, StackInv
<1>9. NewSlot \in 2 .. Len(states) + 1
  BY <1>7, <1>8 DEF NewSlot, Init_state
<1>10. Blocks' = Blocks /\ BlockState' = BlockState /\ \A c : successors(c)' = successors(c)
  BY <1>1 DEF Blocks, BlockState, successors
<1> HIDE DEF new
\* Each state is the new one or has been one before.
<1>11. /\ states' \in Seq(BlockState) /\ Len(states') >= Len(states) /\ NewSlot \in 1 .. Len(states')
       /\ \A k \in 1 .. Len(states') :
            \/ k = NewSlot /\ states'[k] = new
            \/ k # NewSlot /\ k \in 1 .. Len(states) /\ states'[k] = Decremented[k]
  <2>1. CASE NewSlot \in DOMAIN states
    <3>1. states' = [Decremented EXCEPT ![NewSlot] = new] /\ NewSlot \in 1 .. Len(Decremented)
      BY <1>1, <1>2, <1>7, <2>1
    <3> QED  BY <1>2, <1>6, <1>7, <3>1, ExceptSeq
  <2>2. CASE NewSlot \notin DOMAIN states
    <3>1. states' = Append(Decremented, new) /\ NewSlot = Len(Decremented) + 1
      BY <1>1, <1>2, <1>7, <1>9, <2>2
    <3> QED  BY <1>2, <1>6, <1>7, <3>1, AppendProperties
  <2> QED  BY <2>1, <2>2
<1>12. /\ block_stack' \in Seq(1 .. Len(states')) /\ Len(block_stack') = Len(block_stack) + 1
       /\ block_stack'[Len(block_stack) + 1] = NewSlot
       /\ \A k \in 1 .. Len(block_stack) : block_stack'[k] = block_stack[k]
  <2>1. block_stack \in Seq(1 .. Len(states')) /\ NewSlot \in 1 .. Len(states')
    <3>1. 1 .. Len(states) \subseteq 1 .. Len(states')
      BY <1>7, <1>11
    <3> QED  BY <1>1, <1>11, <3>1, SeqMonotonic DEF WalkTypes
  <2> QED  BY <1>1, <2>1, AppendProperties
<1>13. WalkTypes'
  BY <1>1, <1>5, <1>10, <1>11, <1>12 DEF WalkTypes
<1>14. StatesOK'
  <2>1. ASSUME NEW k \in 1 .. Len(states')
        PROVE  \E s \in BlockState : /\ s = states'[k] /\ (is_marked(s.block) \/ s.block = Successor)
                                     /\ s.next < Len(successors(s.block))
    <3>1. CASE states'[k] = new
      BY <1>6, <3>1
    <3>2. CASE k \in 1 .. Len(states) /\ states'[k] = Decremented[k]
      <4>1. is_marked(states[k].block) /\ states[k].next < Len(successors(states[k].block))
        BY <1>1, <3>2 DEF StatesOK
      <4>2. states[k] \in BlockState /\ Decremented[k] \in BlockState
        BY <1>2, <1>7, <3>2, ElementOfSeq
      <4>3. Len(successors(states[k].block)) \in Nat
        BY <1>1, <4>2, SuccessorsAreBlocks DEF BlockState
      <4> QED  BY <1>2, <3>2, <4>1, <4>2, <4>3 DEF BlockState
    <3> QED  BY <1>11, <3>1, <3>2
  <2>2. ASSUME NEW s \in BlockState, is_marked(s.block) \/ s.block = Successor PROVE is_marked(s.block)'
    BY <1>5, <2>2 DEF BlockState
  <2>3. ASSUME NEW k \in 1 .. Len(states')
        PROVE  (is_marked(states[k].block) /\ states[k].next < Len(successors(states[k].block)))'
    <3>1. PICK s \in BlockState : /\ s = states'[k] /\ (is_marked(s.block) \/ s.block = Successor)
                                  /\ s.next < Len(successors(s.block))
      BY <2>1
    <3>2. is_marked(s.block)' /\ successors(s.block)' = successors(s.block)
      BY <1>10, <2>2, <3>1
    <3>3. is_marked(states[k].block)'
      BY <3>1, <3>2 DEF is_marked
    <3>4. successors(states[k].block)' = successors(s.block)
      BY <3>1, <3>2 DEF successors
    <3> QED  BY <3>1, <3>3, <3>4
  <2> QED  BY <2>3 DEF StatesOK
<1>15. StackInv'
  <2>1. preorder' # <<>> /\ preorder'[1] = Entry
    <3>1. preorder \in Seq(Blocks) /\ preorder[1] = Entry /\ 1 \in 1 .. Len(preorder)
      BY <1>1, <1>8 DEF WalkTypes, StackInv
    <3>2. preorder' = Append(preorder, Successor)
      BY <1>1 DEF Number
    <3> QED  BY <1>3, <3>1, <3>2, AppendProperties
  <2>2. states' # <<>> /\ states'[1].block = Entry
    <3>1. states'[1] = Decremented[1] /\ 1 \in 1 .. Len(states)
      BY <1>7, <1>8, <1>9, <1>11
    <3> QED  BY <1>2, <1>8, <1>11, <3>1 DEF StackInv
  <2>3. \A k \in 1 .. Len(block_stack') : k = 1 <=> block_stack'[k] = Init_state
    <3>1. Len(block_stack) \in Nat \ {0}
      BY <1>1, TopState
    <3> QED  BY <1>9, <1>12, <3>1 DEF StackInv, Init_state
  <2>4. block_stack' # <<>>
    BY <1>1, <1>12, TopState
  <2>5. \A b \in Blocks : (postorder_num[b] # NoNumber => Numbered(b))'
    BY <1>1 DEF StackInv, Numbered, Place, NoNumber
  <2> QED  BY <1>10, <2>1, <2>2, <2>3, <2>4, <2>5 DEF StackInv
<1> QED  BY <1>5, <1>13, <1>14, <1>15 DEF WalkInv

LEMMA WalkLeaves ==
  ASSUME WalkInv, StackInv, leave_block
  PROVE  WalkInv' /\ StackInv'
<1>1. /\ WalkTypes /\ PreorderIsTree /\ StatesOK
      /\ Visiting /\ block_stack' = Front(block_stack)
      /\ postorder_num' = [postorder_num EXCEPT ![Top.block] = Len(postorder)]
      /\ postorder' = Append(postorder, Top.block)
      /\ UNCHANGED <<graph, slots, preorder, parent, preorder_num, states>>
  BY DEF leave_block, WalkInv, numbers
<1>2. /\ Len(block_stack) \in Nat \ {0} /\ Last(block_stack) \in 1 .. Len(states)
      /\ Top.block \in Blocks
  BY <1>1, TopState DEF BlockState
<1>3. /\ block_stack' \in Seq(1 .. Len(states)) /\ Len(block_stack') = Len(block_stack) - 1
      /\ \A k \in 1 .. Len(block_stack') : block_stack'[k] = block_stack[k]
  <2> DEFINE n == Len(block_stack) - 1
  <2>1. n \in Nat /\ 1 \in Int /\ Len(block_stack) = n + 1 /\ block_stack \in Seq(1 .. Len(states))
    BY <1>1, <1>2 DEF WalkTypes
  <2>2. \A i \in 1 .. n : block_stack[i] \in 1 .. Len(states)
    BY <2>1, ElementOfSeq
  <2>3. block_stack' = SubSeq(block_stack, 1, n)
    BY <1>1 DEF Front
  <2> HIDE DEF n
  <2>4. /\ SubSeq(block_stack, 1, n) \in Seq(1 .. Len(states))
        /\ Len(SubSeq(block_stack, 1, n)) = IF 1 <= n THEN n - 1 + 1 ELSE 0
        /\ \A i \in 1 .. n - 1 + 1 : SubSeq(block_stack, 1, n)[i] = block_stack[1 + i - 1]
    BY <2>1, <2>2, SubSeqProperties
  <2> QED  BY <2>1, <2>3, <2>4
<1>4. /\ postorder \in Seq(Blocks) /\ Len(postorder) \in Nat /\ DOMAIN postorder = 1 .. Len(postorder)
      /\ postorder_num \in [Blocks -> Int]
  BY <1>1 DEF WalkTypes
<1>5. /\ postorder' \in Seq(Blocks) /\ DOMAIN postorder' = 1 .. Len(postorder) + 1
      /\ postorder'[Len(postorder) + 1] = Top.block
      /\ \A i \in 1 .. Len(postorder) : postorder'[i] = postorder[i]
  BY <1>1, <1>2, <1>4, AppendProperties
<1>6. /\ postorder_num' \in [Blocks -> Int] /\ postorder_num'[Top.block] = Len(postorder)
      /\ \A b \in Blocks \ {Top.block} : postorder_num'[b] = postorder_num[b]
  BY <1>1, <1>2, <1>4
<1>7. Blocks' = Blocks /\ BlockState' = BlockState
  BY <1>1 DEF Blocks, BlockState
<1>8. WalkTypes'
  BY <1>1, <1>3, <1>5, <1>6, <1>7 DEF WalkTypes
<1>9. PreorderIsTree' /\ StatesOK'
  BY <1>1 DEF PreorderIsTree, StatesOK, is_marked, successors
<1>10. ASSUME NEW b \in Blocks, postorder_num'[b] # NoNumber
       PROVE  Numbered(b)'
  <2>1. CASE b = Top.block
    <3>1. postorder_num'[b] + 1 \in DOMAIN postorder' /\ Len(postorder) + 1 \in DOMAIN postorder'
      BY <1>4, <1>5, <1>6, <2>1
    <3> QED  BY <1>5, <2>1, <3>1 DEF Numbered, Place, Range
  <2>2. CASE b # Top.block
    <3>1. postorder_num[b] + 1 \in DOMAIN postorder /\ b \in Range(postorder)
      BY <1>6, <1>10, <2>2 DEF StackInv, Numbered, Place, NoNumber
    <3>2. PICK i \in 1 .. Len(postorder) : postorder[i] = b
      BY <1>4, <3>1 DEF Range
    <3>3. i \in DOMAIN postorder' /\ postorder'[i] = b
      BY <1>4, <1>5, <3>2
    <3>4. b \in Range(postorder)'
      BY <3>3 DEF Range
    <3>5. postorder_num'[b] = postorder_num[b]
      BY <1>6, <2>2
    <3>6. 1 .. Len(postorder) \subseteq DOMAIN postorder'
      BY <1>4, <1>5
    <3>7. postorder_num'[b] + 1 \in DOMAIN postorder'
      BY <1>4, <3>1, <3>5, <3>6
    <3> QED  BY <3>4, <3>7 DEF Numbered, Place
  <2> QED  BY <2>1, <2>2
<1>11. ASSUME block_stack' = <<>> PROVE postorder_num'[Entry] # NoNumber
  <2>1. Len(block_stack) = 1
    BY <1>2, <1>3, <1>11
  <2>2. Last(block_stack) = Init_state
    BY <2>1 DEF StackInv, Last
  <2>3. Top.block = Entry
    BY <1>1, <2>2 DEF Top, Init_state, StackInv, Visiting
  <2> QED  BY <1>4, <1>6, <2>3 DEF NoNumber
<1>12. StackInv'
  <2>1. \A k \in 1 .. Len(block_stack') : k = 1 <=> block_stack'[k] = Init_state
    BY <1>2, <1>3 DEF StackInv
  <2>2. preorder # <<>>
    BY <1>1 DEF Visiting, StackInv
  <2> QED  BY <1>1, <1>7, <1>10, <1>11, <2>1, <2>2 DEF StackInv, NoNumber
<1> QED  BY <1>8, <1>9, <1>12 DEF WalkInv

\* Every step keeps the walk's invariants: what is behind the walk leaves its
\* variables alone.
LEMMA WalkStep ==
  ASSUME WalkInv, StackInv, [Next]_vars
  PROVE  WalkInv' /\ StackInv'
<1>1. CASE Discovery
  BY <1>1, WalkEnters, WalkMeetsMarked, WalkMeetsNew, WalkLeaves DEF Discovery, graph_discover_blocks
<1>2. CASE DominatorPasses
  <2>1. UNCHANGED blockVars
    BY <1>2 DEF DominatorPasses, DominatorsNext, compute_dominators, semidominator,
                semidominators_done, block_add_dominated, dominators_done, frontier, runner_lost
  <2> QED  BY <2>1, WalkUnchanged
<1>3. CASE Liveness
  <2>1. UNCHANGED blockVars
    BY <1>3 DEF Liveness, liveness_analyze, compute_initial_sets, initial_sets_done,
                update_live_sets, place_unset, live_sets_passed
  <2> QED  BY <2>1, WalkUnchanged
<1>4. CASE Rename
  <2>1. UNCHANGED blockVars
    BY <1>4 DEF Rename, insert_phis, graph_rename_recursive, renamed
  <2> QED  BY <2>1, WalkUnchanged
<1>5. CASE UNCHANGED vars
  <2>1. UNCHANGED blockVars
    BY <1>5 DEF vars
  <2> QED  BY <2>1, WalkUnchanged
<1> QED  BY <1>1, <1>2, <1>3, <1>4, <1>5 DEF Next

(* Whatever malloc left in preorder_num, and wherever the walk's states are *)
(* kept, the numbers form a tree of the graph's edges (flow_graph.c 21-60, *)
(* instructions.c 163-185).                                                *)
THEOREM WalkNumbersTree == Spec => []PreorderIsTree
<1>1. Init => WalkInv /\ StackInv
  BY WalkStart
<1>2. WalkInv /\ StackInv /\ [Next]_vars => WalkInv' /\ StackInv'
  BY WalkStep
<1>3. WalkInv => PreorderIsTree
  BY DEF WalkInv
<1> QED  BY <1>1, <1>2, <1>3, PTL DEF Spec
-----------------------------------------------------------------------------
\* Numbers that are not all out of a set have a least one in it.
LEMMA LeastNumber ==
  ASSUME NEW S \in SUBSET Nat, S # {}
  PROVE  \E n \in S : \A m \in S : n <= m
<1> DEFINE R == OpToRel(<, Nat)
<1>1. IsWellFoundedOn(R, Nat)
  BY NatLessThanWellFounded
<1>2. \A m, n \in Nat : m < n => <<m, n>> \in R
  BY DEF OpToRel
<1> HIDE DEF R
<1>3. PICK n \in S : \A m \in S : ~ (<<m, n>> \in R)
  BY <1>1, WFMin
<1>4. ASSUME NEW m \in S PROVE n <= m
  <2>1. m \in Nat /\ n \in Nat
    OBVIOUS
  <2>2. ~ (m < n)
    BY <1>2, <1>3, <2>1, Zenon
  <2> QED  BY <2>1, <2>2
<1> QED  BY <1>4

\* The first block met that had no place would have a parent that has one, and
\* Placed gives that parent's successors theirs.
LEMMA EveryBlockPlaced ==
  ASSUME WalkInv, StackInv, preorder # <<>>, block_stack = <<>>, Placed
  PROVE  \A i \in DOMAIN preorder : Place(preorder[i]) \in DOMAIN postorder
<1> DEFINE Unset == {i \in DOMAIN preorder : postorder_num[preorder[i]] = NoNumber}
<1>1. /\ preorder \in Seq(Blocks) /\ DOMAIN preorder = 1 .. Len(preorder) /\ Len(preorder) \in Nat
      /\ PreorderIsTree
  BY DEF WalkInv, WalkTypes
<1>2. Unset = {}
  <2> SUFFICES ASSUME Unset # {} PROVE FALSE
    OBVIOUS
  <2>1. Unset \in SUBSET Nat
    BY <1>1
  <2>2. PICK i \in Unset : \A j \in Unset : i <= j
    BY <2>1, LeastNumber
  <2>3. i \in 1 .. Len(preorder) /\ i # 1
    BY <1>1 DEF StackInv
  <2>4. /\ parent[i] \in 0 .. i - 2
        /\ preorder[i] \in Range(successors(preorder[parent[i] + 1]))
    BY <1>1, <2>3 DEF PreorderIsTree
  <2>5. parent[i] + 1 \in DOMAIN preorder /\ parent[i] + 1 < i
    BY <1>1, <2>3, <2>4
  <2>6. parent[i] + 1 \notin Unset
    BY <2>1, <2>2, <2>5
  <2>7. preorder[parent[i] + 1] \in Blocks
    BY <1>1, <2>5, ElementOfSeq
  <2>8. preorder[parent[i] + 1] \in Range(postorder)
    BY <2>5, <2>6, <2>7 DEF StackInv, Numbered
  <2>9. postorder_num[preorder[i]] # NoNumber
    BY <2>4, <2>8 DEF Placed
  <2> QED  BY <2>9
<1>3. ASSUME NEW i \in DOMAIN preorder PROVE Place(preorder[i]) \in DOMAIN postorder
  <2>1. preorder[i] \in Blocks
    BY <1>1, ElementOfSeq
  <2>2. postorder_num[preorder[i]] # NoNumber
    BY <1>2
  <2> QED  BY <2>1, <2>2 DEF StackInv, Numbered
<1> QED  BY <1>3
-----------------------------------------------------------------------------
\* A step that leaves the liveness sets alone and starts none of their phases.
LEMMA LiveUnchanged ==
  ASSUME LiveInv, NothingAssigned, UNCHANGED <<live_in, live_out, assigned>>,
         \/ phase' \notin {"initial_sets", "live_sets"}
         \/ UNCHANGED <<phase, graph, postorder, postorder_num, block_index>>,
         phase' # "discover" => preorder' # <<>> /\ block_stack' = <<>>
  PROVE  LiveInv' /\ NothingAssigned'
<1>1. NothingAssigned' /\ Empty(live_in)' /\ Empty(live_out)' /\ DOMAIN live_in' = DOMAIN live_out'
  BY DEF LiveInv, NothingAssigned, Empty
<1>2. ASSUME phase' \in {"live_sets", "initial_sets"}
      PROVE  /\ DOMAIN live_in' = DOMAIN postorder' /\ block_index' \in Nat \ {0}
             /\ phase' = "live_sets" /\ block_index' > 1 => Placed'
  <2>1. UNCHANGED <<phase, graph, postorder, postorder_num, block_index>>
    BY <1>2
  <2>2. Placed' = Placed
    BY <2>1 DEF Placed, successors, NoNumber
  <2> QED  BY <1>2, <2>1, <2>2 DEF LiveInv
<1> QED  BY <1>1, <1>2 DEF LiveInv

LEMMA LivenessStarts ==
  ASSUME IInv, liveness_analyze
  PROVE  LiveInv' /\ NothingAssigned'
<1>1. /\ phase = "dominators" /\ phase' = "initial_sets" /\ block_index' = 1
      /\ live_in' = [i \in DOMAIN postorder |-> {}] /\ live_out' = live_in'
      /\ UNCHANGED <<preorder, postorder, block_stack, assigned>>
  BY DEF liveness_analyze, DominatorsDone, Looping, blockVars, numbers, walk
<1>2. preorder # <<>> /\ block_stack = <<>>
  BY <1>1 DEF IInv, LiveInv
<1>3. Empty(live_in)' /\ DOMAIN live_in' = DOMAIN postorder'
  BY <1>1 DEF Empty
<1>4. Empty(live_out)'
  BY <1>1, <1>3 DEF Empty
<1>5. NothingAssigned'
  BY <1>1 DEF IInv, NothingAssigned
<1>6. preorder' # <<>> /\ block_stack' = <<>>
  BY <1>1, <1>2
<1>7. DOMAIN live_in' = DOMAIN live_out'
  BY <1>1
<1>8. block_index' \in Nat \ {0} /\ phase' = "initial_sets"
  <2>1. block_index' = 1 /\ phase' = "initial_sets"
    BY <1>1
  <2> QED  BY <2>1
<1>9. LiveInv'
  BY <1>3, <1>4, <1>6, <1>7, <1>8 DEF LiveInv
<1> QED  BY <1>5, <1>9

LEMMA InitialSetsCounted ==
  ASSUME IInv, compute_initial_sets \/ initial_sets_done
  PROVE  LiveInv' /\ NothingAssigned'
<1>1. /\ UNCHANGED <<blockVars, live_in, live_out, assigned>>
      /\ phase = "initial_sets"
      /\ \/ phase' = phase /\ block_index' = block_index + 1
         \/ phase' = "live_sets" /\ block_index' = 1
  BY DEF compute_initial_sets, initial_sets_done, Pass
<1>2. UNCHANGED <<preorder, postorder, block_stack>>
  BY <1>1 DEF blockVars, numbers, walk
<1>3. /\ preorder # <<>> /\ block_stack = <<>> /\ DOMAIN live_in = DOMAIN postorder
      /\ block_index \in Nat \ {0}
  BY <1>1 DEF IInv, LiveInv
<1>4. block_index' \in Nat \ {0} /\ (phase' = "live_sets" => ~ (block_index' > 1))
  <2>1. \/ phase' = "initial_sets" /\ block_index' = block_index + 1
        \/ phase' = "live_sets" /\ block_index' = 1
    BY <1>1
  <2> QED  BY <1>3, <2>1
<1>5. Empty(live_in)' /\ Empty(live_out)' /\ DOMAIN live_in' = DOMAIN live_out' /\ NothingAssigned'
  BY <1>1 DEF IInv, LiveInv, NothingAssigned, Empty
<1>6. preorder' # <<>> /\ block_stack' = <<>> /\ DOMAIN live_in' = DOMAIN postorder'
  BY <1>1, <1>2, <1>3
<1> QED  BY <1>4, <1>5, <1>6 DEF LiveInv

LEMMA ElementsOfRange ==
  ASSUME NEW S, NEW s \in Seq(S)
  PROVE  \A x \in Range(s) : x \in S /\ \E i \in 1 .. Len(s) : x = s[i]
<1>1. DOMAIN s = 1 .. Len(s)
  OBVIOUS
<1>2. ASSUME NEW x \in Range(s) PROVE x \in S /\ \E i \in 1 .. Len(s) : x = s[i]
  <2>1. PICK i \in DOMAIN s : x = s[i]
    BY <1>2 DEF Range
  <2> QED  BY <1>1, <2>1, ElementOfSeq
<1> QED  BY <1>2

\* What is live behind a block is what is live in its successors: nothing.
LEMMA NothingLive ==
  ASSUME IInv, phase = "live_sets", Placed, NEW b \in Range(postorder)
  PROVE  LiveOut(b) = {} /\ LiveIn(b) = {}
<1>1. /\ Empty(live_in) /\ Empty(live_out) /\ DOMAIN live_in = DOMAIN postorder /\ DOMAIN live_out = DOMAIN postorder
      /\ postorder \in Seq(Blocks)
  BY DEF IInv, LiveInv, WalkInv, WalkTypes
<1>2. b \in Blocks
  BY <1>1, ElementsOfRange
<1>3. successors(b) \in Seq(Blocks)
  BY <1>2, SuccessorsAreBlocks DEF IInv, WalkInv
<1>4. \A s \in {b} \cup Range(successors(b)) : s \in Blocks
  BY <1>2, <1>3, ElementsOfRange
<1>5. \A s \in {b} \cup Range(successors(b)) : Place(s) \in DOMAIN postorder
  BY <1>4 DEF Placed, IInv, StackInv, Numbered
<1>6. \A s \in {b} \cup Range(successors(b)) : live_in[Place(s)] = {} /\ live_out[Place(s)] = {}
  BY <1>1, <1>5 DEF Empty
<1>7. UNION {live_in[Place(s)] : s \in Range(successors(b))} = {}
  BY <1>6
<1>8. LiveOut(b) = {}
  BY <1>6, <1>7 DEF LiveOut
<1>9. LiveIn(b) = {}
  BY <1>6, <1>8 DEF LiveIn
<1> QED  BY <1>8, <1>9

LEMMA LiveSetsUpdated ==
  ASSUME IInv, update_live_sets
  PROVE  LiveInv' /\ NothingAssigned'
<1> DEFINE b == postorder[block_index]
<1>1. /\ phase = "live_sets" /\ block_index <= Len(postorder) /\ Placed
      /\ live_out' = [live_out EXCEPT ![Place(b)] = LiveOut(b)]
      /\ live_in' = [live_in EXCEPT ![Place(b)] = LiveIn(b)]
      /\ block_index' = block_index + 1
      /\ UNCHANGED <<phase, blockVars, assigned>>
  BY DEF update_live_sets
<1>2. UNCHANGED <<graph, preorder, postorder, postorder_num, block_stack>>
  BY <1>1 DEF blockVars, numbers, walk
<1>3. block_index \in Nat \ {0} /\ postorder \in Seq(Blocks)
  BY <1>1 DEF IInv, LiveInv, WalkInv, WalkTypes
<1>4. b \in Range(postorder)
  <2>1. block_index \in DOMAIN postorder
    BY <1>1, <1>3
  <2> QED  BY <2>1 DEF Range
<1> HIDE DEF b
<1>5. LiveOut(b) = {} /\ LiveIn(b) = {}
  BY <1>1, <1>4, NothingLive
<1>6. /\ Empty(live_in)' /\ Empty(live_out)' /\ DOMAIN live_in' = DOMAIN live_in
      /\ DOMAIN live_out' = DOMAIN live_out
  BY <1>1, <1>5 DEF IInv, LiveInv, Empty
<1>7. Placed'
  BY <1>1, <1>2 DEF Placed, successors, NoNumber
<1>8. NothingAssigned'
  BY <1>1 DEF IInv, NothingAssigned
<1>9. block_index' \in Nat \ {0}
  <2>1. block_index' = block_index + 1
    BY <1>1
  <2> QED  BY <1>3, <2>1
<1>10. /\ preorder' # <<>> /\ block_stack' = <<>> /\ DOMAIN live_in' = DOMAIN postorder'
       /\ DOMAIN live_in' = DOMAIN live_out'
  BY <1>1, <1>2, <1>6 DEF IInv, LiveInv
<1> QED  BY <1>6, <1>7, <1>8, <1>9, <1>10 DEF LiveInv

LEMMA LiveSetsPassed ==
  ASSUME IInv, live_sets_passed
  PROVE  LiveInv' /\ NothingAssigned'
<1>1. /\ phase = "live_sets" /\ block_index > Len(postorder) /\ block_index' = 1
      /\ phase' = IF changed THEN phase ELSE "phis"
      /\ assigned' = IF changed THEN assigned
                     ELSE [i \in DOMAIN preorder |-> compute_assigned(preorder[i])]
      /\ UNCHANGED <<blockVars, live_in, live_out>>
  BY DEF live_sets_passed, Pass
<1>2. UNCHANGED <<preorder, postorder, block_stack>>
  BY <1>1 DEF blockVars, numbers, walk
<1>3. /\ preorder # <<>> /\ block_stack = <<>> /\ preorder[1] = Entry
      /\ postorder_num[Entry] # NoNumber /\ Entry \in Blocks
      /\ postorder \in Seq(Blocks)
  BY <1>1, SuccessorsAreBlocks DEF IInv, LiveInv, StackInv, WalkInv, WalkTypes
<1>4. Entry \in Range(postorder)
  BY <1>3 DEF IInv, StackInv, Numbered
<1>5. block_index > 1
  <2>1. PICK i \in 1 .. Len(postorder) : Entry = postorder[i]
    BY <1>3, <1>4, ElementsOfRange
  <2>2. 1 \in 1 .. Len(postorder) /\ Len(postorder) \in Nat /\ block_index \in Nat
    BY <1>1, <1>3, <2>1 DEF IInv, LiveInv
  <2>3. block_index > Len(postorder)
    BY <1>1
  <2> QED  BY <2>2, <2>3
<1>6. Placed
  BY <1>1, <1>5 DEF IInv, LiveInv
<1>7. \A i \in DOMAIN preorder : Place(preorder[i]) \in DOMAIN postorder
  BY <1>3, <1>6, EveryBlockPlaced DEF IInv
<1>8. \A i \in DOMAIN preorder : compute_assigned(preorder[i]) = {}
  <2>1. Empty(live_out) /\ DOMAIN live_out = DOMAIN postorder
    BY <1>1 DEF IInv, LiveInv
  <2> QED  BY <1>7, <2>1 DEF Empty, compute_assigned
<1>9. NothingAssigned'
  BY <1>1, <1>8 DEF IInv, NothingAssigned
<1>10. block_index' \in Nat \ {0} /\ ~ (block_index' > 1)
  <2>1. block_index' = 1
    BY <1>1
  <2> QED  BY <2>1
<1>11. /\ preorder' # <<>> /\ block_stack' = <<>> /\ DOMAIN live_in' = DOMAIN postorder'
       /\ Empty(live_in)' /\ Empty(live_out)' /\ DOMAIN live_in' = DOMAIN live_out'
  BY <1>1, <1>2 DEF IInv, LiveInv, Empty
<1> QED  BY <1>9, <1>10, <1>11 DEF LiveInv
-----------------------------------------------------------------------------
LEMMA LiveStep ==
  ASSUME IInv, [Next]_vars
  PROVE  LiveInv' /\ NothingAssigned'
<1>1. CASE Discovery
  <2>1. phase = "discover" /\ UNCHANGED <<phase, live_in, live_out, assigned>>
    BY <1>1 DEF Discovery, graph_discover_blocks, discover_entry, visit_marked, visit_new,
                leave_block, Visiting, livenessVars
  <2> QED  BY <2>1, LiveUnchanged DEF IInv
<1>2. CASE DominatorPasses
  <2>1. /\ UNCHANGED <<blockVars, live_in, live_out, assigned>>
        /\ phase' \in {"dominators", "undefined"}
        /\ phase = "dominators" \/ Discovered
    BY <1>2 DEF DominatorPasses, DominatorsNext, compute_dominators, semidominator,
                semidominators_done, block_add_dominated, dominators_done, frontier, runner_lost,
                Looping, livenessVars
  <2>2. UNCHANGED <<preorder, block_stack>>
    BY <2>1 DEF blockVars, numbers, walk
  <2>3. preorder # <<>> /\ block_stack = <<>> /\ LiveInv /\ NothingAssigned
    BY <2>1 DEF IInv, LiveInv, Discovered
  <2>4. /\ UNCHANGED <<live_in, live_out, assigned>> /\ phase' \notin {"initial_sets", "live_sets"}
        /\ preorder' # <<>> /\ block_stack' = <<>>
    BY <2>1, <2>2, <2>3
  <2> QED  BY <2>3, <2>4, LiveUnchanged
<1>3. CASE place_unset
  <2>1. /\ UNCHANGED <<blockVars, live_in, live_out, assigned>>
        /\ phase = "live_sets" /\ phase' = "undefined"
    BY <1>3 DEF place_unset, livenessVars
  <2>2. UNCHANGED <<preorder, block_stack>>
    BY <2>1 DEF blockVars, numbers, walk
  <2>3. preorder # <<>> /\ block_stack = <<>> /\ LiveInv /\ NothingAssigned
    BY <2>1 DEF IInv, LiveInv
  <2>4. /\ UNCHANGED <<live_in, live_out, assigned>> /\ phase' \notin {"initial_sets", "live_sets"}
        /\ preorder' # <<>> /\ block_stack' = <<>>
    BY <2>1, <2>2, <2>3
  <2> QED  BY <2>3, <2>4, LiveUnchanged
<1>4. CASE Rename
  <2>1. /\ UNCHANGED <<blockVars, live_in, live_out, assigned>>
        /\ phase \in {"phis", "rename"} /\ phase' \in {"rename", "done"}
    BY <1>4 DEF Rename, insert_phis, graph_rename_recursive, renamed, livenessVars
  <2>2. UNCHANGED <<preorder, block_stack>>
    BY <2>1 DEF blockVars, numbers, walk
  <2>3. preorder # <<>> /\ block_stack = <<>> /\ LiveInv /\ NothingAssigned
    BY <2>1 DEF IInv, LiveInv
  <2>4. /\ UNCHANGED <<live_in, live_out, assigned>> /\ phase' \notin {"initial_sets", "live_sets"}
        /\ preorder' # <<>> /\ block_stack' = <<>>
    BY <2>1, <2>2, <2>3
  <2> QED  BY <2>3, <2>4, LiveUnchanged
<1>5. CASE UNCHANGED vars
  <2>1. UNCHANGED <<phase, graph, preorder, postorder, postorder_num, block_stack, block_index,
                    live_in, live_out, assigned>>
    BY <1>5 DEF vars, blockVars, numbers, walk, dominatorVars, livenessVars
  <2>2. LiveInv /\ NothingAssigned /\ (phase' # "discover" => preorder' # <<>> /\ block_stack' = <<>>)
    BY <2>1 DEF IInv, LiveInv
  <2>3. /\ UNCHANGED <<live_in, live_out, assigned>>
        /\ UNCHANGED <<phase, graph, postorder, postorder_num, block_index>>
    BY <2>1
  <2> QED  BY <2>2, <2>3, LiveUnchanged
<1> QED  BY <1>1, <1>2, <1>3, <1>4, <1>5, LivenessStarts, InitialSetsCounted, LiveSetsUpdated,
            LiveSetsPassed DEF Next, Liveness

LEMMA LiveStart == Init => LiveInv /\ NothingAssigned
  BY DEF Init, BlocksInit, LiveInv, NothingAssigned, Empty

(* The invariant behind both theorems.                                     *)
THEOREM Invariant == Spec => []IInv
<1>1. Init => IInv
  BY WalkStart, LiveStart DEF IInv
<1>2. IInv /\ [Next]_vars => IInv'
  BY WalkStep, LiveStep DEF IInv
<1> QED  BY <1>1, <1>2, PTL DEF Spec

(* On every graph whose code holds no load, and this program's code holds  *)
(* none, no variable counts as assigned in a block: insert_phis has         *)
(* nothing to do (liveness.c 55-114, flow_graph.c 139-161).                *)
THEOREM NoVariableAssigned == Spec => []NothingAssigned
<1>1. IInv => NothingAssigned
  BY DEF IInv
<1> QED  BY <1>1, Invariant, PTL
-----------------------------------------------------------------------------
Known == {b \in Blocks : is_marked(b)}

\* In a depth-first numbering the blocks below a have the numbers from a on,
\* up to the first whose parent is above a.
Below(par, a, b) == a <= b /\ \A w \in a + 1 .. b : par[w + 1] >= a

\* An edge to a higher number goes down in the tree.
GoesDown(num, par, p, b) == num[p] < num[b] => Below(par, num[p], num[b])

\* What the walk may have recorded of blocks B: edges between blocks in met.
EdgesOf(B, preds, met, num, par) ==
  /\ preds \in [B -> Seq(B)]
  /\ \A b \in B : \A i \in 1 .. Len(preds[b]) :
       /\ b \in met /\ preds[b][i] \in met
       /\ GoesDown(num, par, preds[b][i], b)

\* The n blocks met so far: those numbered behind a block on the stack are below it.
PathOf(stack, sts, num, par, n) ==
  /\ \A k, l \in 1 .. Len(stack) : k <= l => num[sts[stack[k]].block] <= num[sts[stack[l]].block]
  /\ \A k \in 1 .. Len(stack) : Below(par, num[sts[stack[k]].block], n - 1)

EdgesInv == EdgesOf(Blocks, predecessors, Known, preorder_num, parent)
PathInv == /\ slots = "one" => Len(states) <= 2
           /\ PathOf(block_stack, states, preorder_num, parent, Len(preorder))

LEMMA BelowConvex ==
  ASSUME NEW par, NEW a \in Int, NEW b \in Int, NEW c \in Int, a <= b, b <= c, Below(par, a, c)
  PROVE  Below(par, a, b)
  BY DEF Below

\* One more block, the n-th, whose parent is t.
GrowsBelow(par, new, n, t) ==
  /\ \A x \in 0 .. n - 1, y \in 0 .. n - 1 : Below(par, x, y) => Below(new, x, y)
  /\ \A x \in 0 .. n - 1 : Below(par, x, n - 1) /\ x <= t => Below(new, x, n)
  /\ Below(new, n, n)

LEMMA BelowGrows ==
  ASSUME NEW par \in Seq(Int), NEW t \in Int
  PROVE  GrowsBelow(par, Append(par, t), Len(par), t)
<1> DEFINE n == Len(par)
           new == Append(par, t)
<1>1. n \in Nat /\ new[n + 1] = t /\ \A w \in 1 .. n : new[w] = par[w]
  BY AppendProperties
<1> HIDE DEF n, new
<1>2. ASSUME NEW x \in 0 .. n - 1, NEW y \in 0 .. n - 1, Below(par, x, y) PROVE Below(new, x, y)
  <2>1. \A w \in x + 1 .. y : w + 1 \in 1 .. n
    BY <1>1
  <2>2. \A w \in x + 1 .. y : new[w + 1] = par[w + 1]
    BY <1>1, <2>1
  <2> QED  BY <1>2, <2>2 DEF Below
<1>3. ASSUME NEW x \in 0 .. n - 1, Below(par, x, n - 1), x <= t PROVE Below(new, x, n)
  <2>1. n - 1 \in 0 .. n - 1
    BY <1>1
  <2>2. Below(new, x, n - 1)
    BY <1>2, <1>3, <2>1
  <2>3. \A w \in x + 1 .. n : w = n \/ w \in x + 1 .. n - 1
    BY <1>1
  <2> QED  BY <1>1, <1>3, <2>2, <2>3, SMTT(60) DEF Below
<1>4. Below(new, n, n)
  BY <1>1 DEF Below
<1>5. GrowsBelow(par, new, n, t)
  BY <1>2, <1>3, <1>4 DEF GrowsBelow
<1> QED  BY <1>5 DEF n, new

\* What block_add_predecessor may change.
LEMMA EdgeAdded ==
  ASSUME NEW preds, NEW met, NEW num, NEW par, NEW b \in Blocks, NEW p \in Blocks,
         EdgesOf(Blocks, preds, met, num, par), b \in met, p \in met, GoesDown(num, par, p, b)
  PROVE  EdgesOf(Blocks, block_add_predecessor(preds, b, p), met, num, par)
<1> DEFINE new == block_add_predecessor(preds, b, p)
<1>1. preds \in [Blocks -> Seq(Blocks)]
  BY DEF EdgesOf
<1>2. /\ new \in [Blocks -> Seq(Blocks)]
      /\ \A c \in Blocks : \A i \in 1 .. Len(new[c]) :
           \/ c = b /\ new[c][i] = p
           \/ i \in 1 .. Len(preds[c]) /\ new[c][i] = preds[c][i]
  <2>1. CASE graph.kind[b] = "join"
    <3>1. new = [preds EXCEPT ![b] = Append(preds[b], p)]
      BY <2>1 DEF block_add_predecessor
    <3>2. preds[b] \in Seq(Blocks) /\ Append(preds[b], p) \in Seq(Blocks)
      BY <1>1
    <3> HIDE DEF new
    <3>3. \A i \in 1 .. Len(Append(preds[b], p)) :
            Append(preds[b], p)[i] = p \/ (i \in 1 .. Len(preds[b]) /\ Append(preds[b], p)[i] = preds[b][i])
      BY <3>2, AppendProperties
    <3> QED  BY <1>1, <3>1, <3>2, <3>3
  <2>2. CASE graph.kind[b] = "target"
    <3>1. new = [preds EXCEPT ![b] = <<p>>]
      BY <2>2 DEF block_add_predecessor
    <3> HIDE DEF new
    <3> QED  BY <1>1, <3>1
  <2>3. CASE graph.kind[b] \notin {"join", "target"}
    <3>1. new = preds
      BY <2>3 DEF block_add_predecessor
    <3> HIDE DEF new
    <3> QED  BY <1>1, <3>1
  <2> QED  BY <2>1, <2>2, <2>3
<1> HIDE DEF new
<1>3. ASSUME NEW c \in Blocks, NEW i \in 1 .. Len(new[c])
      PROVE  c \in met /\ new[c][i] \in met /\ GoesDown(num, par, new[c][i], c)
  <2>1. CASE c = b /\ new[c][i] = p
    BY <2>1
  <2>2. CASE i \in 1 .. Len(preds[c]) /\ new[c][i] = preds[c][i]
    BY <2>2 DEF EdgesOf
  <2> QED  BY <1>2, <2>1, <2>2
<1>4. EdgesOf(Blocks, new, met, num, par)
  BY <1>2, <1>3 DEF EdgesOf
<1> QED  BY <1>4 DEF new

LEMMA WalkEdgesStart == Init => EdgesInv /\ PathInv
<1> SUFFICES ASSUME Init PROVE EdgesInv /\ PathInv
  OBVIOUS
<1>1. predecessors = [b \in Blocks |-> <<>>] /\ preorder = <<>> /\ block_stack = <<>> /\ states = <<>>
  BY DEF Init, BlocksInit
<1> QED  BY <1>1 DEF EdgesInv, EdgesOf, PathInv, PathOf

LEMMA EdgesEnter ==
  ASSUME WalkInv, StackInv, EdgesInv, PathInv, WalkInv', StackInv', discover_entry
  PROVE  EdgesInv' /\ PathInv'
<1>1. /\ preorder = <<>> /\ preorder' = <<Entry>> /\ states' = <<State(Entry)>> /\ block_stack' = <<1>>
      /\ UNCHANGED <<graph, slots, postorder, predecessors>>
  BY DEF discover_entry, Number, Init_state
<1>2. Blocks' = Blocks
  BY <1>1 DEF Blocks
<1>3. \A b \in Blocks : ~is_marked(b)
  BY <1>1, MarkedIsMet DEF WalkInv
<1>4. EdgesInv'
  <2>1. predecessors \in [Blocks -> Seq(Blocks)] /\ \A b \in Blocks : 1 .. Len(predecessors[b]) = {}
    BY <1>3 DEF EdgesInv, EdgesOf, Known
  <2>2. EdgesOf(Blocks, predecessors, Known', preorder_num', parent')
    BY <2>1 DEF EdgesOf
  <2> QED  BY <1>1, <1>2, <2>2 DEF EdgesInv
<1>5. preorder_num'[states'[1].block] = 0
  <2>1. preorder_num'[Entry] = 0
    BY <1>1 DEF discover_entry, Number, WalkInv, PreorderIsTree
  <2>2. states'[1].block = Entry
    BY <1>1 DEF State
  <2> QED  BY <2>1, <2>2
<1>6. Len(block_stack') = 1 /\ block_stack'[1] = 1 /\ Len(preorder') = 1 /\ Len(states') = 1
  BY <1>1
<1>7. PathInv'
  <2>1. \A k \in 1 .. Len(block_stack') : preorder_num'[states'[block_stack'[k]].block] = 0
    BY <1>5, <1>6
  <2>2. Below(parent', 0, 0)
    BY DEF Below
  <2>3. PathOf(block_stack', states', preorder_num', parent', Len(preorder'))
    BY <1>6, <2>1, <2>2 DEF PathOf
  <2> QED  BY <1>6, <2>3 DEF PathInv
<1> QED  BY <1>4, <1>7

LEMMA EdgesMarked ==
  ASSUME WalkInv, StackInv, EdgesInv, PathInv, WalkInv', StackInv', visit_marked
  PROVE  EdgesInv' /\ PathInv'
<1> DEFINE p == Top.block
           b == Successor
<1>1. /\ Visiting /\ Top.next >= 0 /\ is_marked(b)
      /\ predecessors' = block_add_predecessor(predecessors, b, p)
      /\ states' = Decremented
      /\ UNCHANGED <<graph, slots, numbers, postorder, postorder_num, block_stack>>
  BY DEF visit_marked
<1>2. /\ Len(block_stack) \in Nat \ {0} /\ Last(block_stack) \in 1 .. Len(states)
      /\ p \in Blocks /\ is_marked(p) /\ b \in Blocks
  BY <1>1, TopState DEF BlockState
<1>3. p = states[block_stack[Len(block_stack)]].block
  BY DEF Top, Last
<1> HIDE DEF p, b
<1>4. UNCHANGED <<preorder, parent, preorder_num>> /\ Blocks' = Blocks /\ Known' = Known
  BY <1>1 DEF Blocks, is_marked, numbers, Known
<1>5. Len(Decremented) = Len(states) /\ \A k \in 1 .. Len(states) : Decremented[k].block = states[k].block
  BY <1>1, DecrementedState
<1>6. GoesDown(preorder_num, parent, p, b)
  <2>1. Below(parent, preorder_num[p], Len(preorder) - 1)
    BY <1>2, <1>3 DEF PathInv, PathOf
  <2>2. preorder_num[b] \in 0 .. Len(preorder) - 1 /\ preorder_num[p] \in Int /\ Len(preorder) - 1 \in Int
    BY <1>1, <1>2 DEF is_marked, WalkInv, WalkTypes
  <2>3. preorder_num[b] \in Int /\ preorder_num[b] <= Len(preorder) - 1
    BY <2>2
  <2>4. preorder_num[p] < preorder_num[b] => preorder_num[p] <= preorder_num[b]
    BY <2>2, <2>3
  <2> QED  BY <2>1, <2>2, <2>3, <2>4, BelowConvex DEF GoesDown
<1>7. EdgesOf(Blocks, block_add_predecessor(predecessors, b, p), Known, preorder_num, parent)
  BY <1>1, <1>2, <1>6, EdgeAdded DEF EdgesInv, Known
<1>8. EdgesInv'
  BY <1>1, <1>4, <1>7 DEF EdgesInv
<1>9. \A k \in 1 .. Len(block_stack) : block_stack[k] \in 1 .. Len(states)
  BY ElementOfSeq DEF WalkInv, WalkTypes
<1>10. \A k \in 1 .. Len(block_stack) : states'[block_stack[k]].block = states[block_stack[k]].block
  BY <1>1, <1>5, <1>9
<1>11. PathOf(block_stack, states', preorder_num, parent, Len(preorder))
  BY <1>10 DEF PathInv, PathOf
<1>12. PathInv'
  BY <1>1, <1>4, <1>5, <1>11 DEF PathInv
<1> QED  BY <1>8, <1>12

\* All but the last of a stack.
LEMMA Popped ==
  ASSUME NEW S, NEW stack \in Seq(S), Len(stack) \in Nat \ {0}
  PROVE  /\ Front(stack) \in Seq(S) /\ Len(Front(stack)) = Len(stack) - 1
         /\ \A k \in 1 .. Len(stack) - 1 : Front(stack)[k] = stack[k]
<1> DEFINE n == Len(stack) - 1
<1>1. n \in Nat /\ 1 \in Int /\ Len(stack) = n + 1
  OBVIOUS
<1>2. \A i \in 1 .. n : stack[i] \in S
  BY <1>1, ElementOfSeq
<1>3. Front(stack) = SubSeq(stack, 1, n)
  BY DEF Front
<1> HIDE DEF n
<1>4. /\ SubSeq(stack, 1, n) \in Seq(S)
      /\ Len(SubSeq(stack, 1, n)) = IF 1 <= n THEN n - 1 + 1 ELSE 0
      /\ \A i \in 1 .. n - 1 + 1 : SubSeq(stack, 1, n)[i] = stack[1 + i - 1]
  BY <1>1, <1>2, SubSeqProperties
<1>5. Len(stack) - 1 = n
  BY <1>1
<1> QED  BY <1>1, <1>3, <1>4, <1>5

LEMMA EdgesLeave ==
  ASSUME WalkInv, StackInv, EdgesInv, PathInv, WalkInv', StackInv', leave_block
  PROVE  EdgesInv' /\ PathInv'
<1>1. /\ Visiting /\ block_stack' = Front(block_stack)
      /\ UNCHANGED <<graph, slots, numbers, states, predecessors>>
  BY DEF leave_block
<1>2. /\ Len(block_stack) \in Nat \ {0} /\ Len(Front(block_stack)) = Len(block_stack) - 1
      /\ \A k \in 1 .. Len(block_stack) - 1 : Front(block_stack)[k] = block_stack[k]
  <2>1. Len(block_stack) \in Nat \ {0} /\ block_stack \in Seq(1 .. Len(states))
    BY <1>1, TopState DEF WalkInv, WalkTypes
  <2> QED  BY <2>1, Popped
<1>3. UNCHANGED <<preorder, parent, preorder_num>> /\ Blocks' = Blocks /\ Known' = Known
  BY <1>1 DEF Blocks, is_marked, numbers, Known
<1>4. EdgesInv'
  BY <1>1, <1>3 DEF EdgesInv
<1>5. PathOf(Front(block_stack), states, preorder_num, parent, Len(preorder))
  <2>1. \A k \in 1 .. Len(Front(block_stack)) : k \in 1 .. Len(block_stack) /\ Front(block_stack)[k] = block_stack[k]
    BY <1>2
  <2> QED  BY <2>1 DEF PathInv, PathOf
<1>6. PathInv'
  BY <1>1, <1>3, <1>5 DEF PathInv
<1> QED  BY <1>4, <1>6

LEMMA EdgesUnchanged ==
  ASSUME EdgesInv, PathInv, UNCHANGED blockVars
  PROVE  EdgesInv' /\ PathInv'
<1>1. UNCHANGED <<graph, slots, preorder, parent, preorder_num, states, block_stack, predecessors>>
  BY DEF blockVars, numbers, walk
<1>2. Blocks' = Blocks /\ Known' = Known
  BY <1>1 DEF Blocks, is_marked, Known
<1> QED  BY <1>1, <1>2 DEF EdgesInv, PathInv

\* What the new block's state does to the states and the stack.
LEMMA Pushed ==
  ASSUME WalkInv, StackInv, Visiting, slots = "one" => Len(states) <= 2, visit_new
  PROVE  /\ slots = "one" => Len(states') <= 2
         /\ Len(block_stack') = Len(block_stack) + 1
         /\ \A k \in 1 .. Len(block_stack') :
              \/ /\ states'[block_stack'[k]].block = Successor
                 /\ \A l \in k .. Len(block_stack') : states'[block_stack'[l]].block = Successor
              \/ /\ k \in 1 .. Len(block_stack) /\ block_stack'[k] = block_stack[k]
                 /\ states'[block_stack'[k]].block = states[block_stack[k]].block
<1> DEFINE new == State(Successor)
           n == Len(block_stack)
<1>1. /\ states' = IF NewSlot \in DOMAIN states THEN [Decremented EXCEPT ![NewSlot] = new]
                   ELSE Append(Decremented, new)
      /\ block_stack' = Append(block_stack, NewSlot)
  BY DEF visit_new
<1>2. /\ Decremented \in Seq(BlockState) /\ Len(Decremented) = Len(states)
      /\ \A k \in 1 .. Len(states) : Decremented[k].block = states[k].block
  BY DecrementedState
<1>3. /\ states \in Seq(BlockState) /\ DOMAIN states = 1 .. Len(states) /\ Len(states) \in Nat
      /\ block_stack \in Seq(1 .. Len(states)) /\ n \in Nat \ {0} /\ slots \in {"one", "many"}
      /\ \A k \in 1 .. n : block_stack[k] \in 1 .. Len(states)
  <2>1. states \in Seq(BlockState) /\ block_stack \in Seq(1 .. Len(states)) /\ slots \in {"one", "many"}
    BY DEF WalkInv, WalkTypes
  <2>2. n \in Nat \ {0}
    BY TopState
  <2> QED  BY <2>1, <2>2, ElementOfSeq
<1>4. Len(states) >= 1
  BY <1>3
<1>5. NewSlot \in 2 .. Len(states) + 1 /\ (slots = "one" => NewSlot = 2) /\ (slots = "many" => NewSlot = Len(states) + 1)
  BY <1>3, <1>4 DEF NewSlot, Init_state
<1>6. new.block = Successor
  BY DEF State
<1>7. new \in BlockState
  BY TopState, SuccessorsAreBlocks DEF visit_new, State, BlockState, WalkInv
<1> HIDE DEF new, n
<1>8. /\ states'[NewSlot] = new
      /\ \A k \in 1 .. Len(states) : k # NewSlot => states'[k] = Decremented[k]
      /\ Len(states') = IF NewSlot \in 1 .. Len(states) THEN Len(states) ELSE Len(states) + 1
  <2>1. CASE NewSlot \in DOMAIN states
    <3>1. states' = [Decremented EXCEPT ![NewSlot] = new] /\ NewSlot \in 1 .. Len(Decremented)
      BY <1>1, <1>2, <1>3, <2>1
    <3>2. NewSlot \in 1 .. Len(states)
      BY <1>3, <2>1
    <3> QED  BY <1>2, <1>3, <1>7, <3>1, <3>2, ExceptSeq
  <2>2. CASE NewSlot \notin DOMAIN states
    <3>1. states' = Append(Decremented, new) /\ NewSlot = Len(Decremented) + 1
      BY <1>1, <1>2, <1>3, <1>5, <2>2
    <3>2. NewSlot \notin 1 .. Len(states)
      BY <1>3, <2>2
    <3> QED  BY <1>2, <1>3, <1>7, <3>1, <3>2, AppendProperties
  <2> QED  BY <2>1, <2>2
<1>9. /\ Len(block_stack') = n + 1 /\ block_stack'[n + 1] = NewSlot
      /\ \A k \in 1 .. n : block_stack'[k] = block_stack[k]
  <2>1. Append(block_stack, NewSlot) \in Seq(Int) /\ block_stack \in Seq(Int)
    BY <1>3, <1>5
  <2>2. block_stack' = Append(block_stack, NewSlot) /\ Len(block_stack) = n /\ NewSlot \in Int
    BY <1>1, <1>5 DEF n
  <2> QED  BY <2>1, <2>2, AppendProperties
<1>10. slots = "one" => Len(states') <= 2
  BY <1>3, <1>4, <1>5, <1>8
\* Where all new states have one place, only the entry's is another.
<1>11. ASSUME NEW k \in 1 .. n + 1, NEW l \in k .. n + 1, block_stack'[k] = NewSlot PROVE block_stack'[l] = NewSlot
  <2>1. CASE slots = "many"
    <3>1. \A j \in 1 .. n : block_stack'[j] # NewSlot
      BY <1>3, <1>5, <1>9, <2>1
    <3>2. k = n + 1
      BY <1>3, <1>11, <3>1
    <3> QED  BY <1>3, <1>9, <3>2
  <2>2. CASE slots = "one"
    <3>1. \A j \in 1 .. n : j # 1 => block_stack[j] = 2
      <4>1. \A j \in 1 .. n : j # 1 => block_stack[j] # 1
        BY DEF StackInv, n, Init_state
      <4>2. Len(states) <= 2
        BY <2>2
      <4>3. \A k2 \in 1 .. Len(states) : k2 # 1 => k2 = 2
        BY <1>3, <4>2
      <4> QED  BY <1>3, <4>1, <4>3
    <3>2. block_stack[1] = 1
      BY <1>3 DEF StackInv, n, Init_state
    <3>3. k # 1
      BY <1>3, <1>5, <1>9, <1>11, <2>2, <3>2
    <3>4. l # 1 /\ (l \in 1 .. n \/ l = n + 1)
      BY <1>3, <3>3
    <3> QED  BY <1>5, <1>9, <2>2, <3>1, <3>4
  <2> QED  BY <1>3, <2>1, <2>2
<1>12. ASSUME NEW k \in 1 .. n + 1
       PROVE  \/ /\ states'[block_stack'[k]].block = Successor
                 /\ \A l \in k .. n + 1 : states'[block_stack'[l]].block = Successor
              \/ /\ k \in 1 .. n /\ block_stack'[k] = block_stack[k]
                 /\ states'[block_stack'[k]].block = states[block_stack[k]].block
  <2>1. CASE block_stack'[k] = NewSlot
    <3>1. \A l \in k .. n + 1 : block_stack'[l] = NewSlot
      BY <1>11, <2>1
    <3> QED  BY <1>6, <1>8, <2>1, <3>1
  <2>2. CASE block_stack'[k] # NewSlot
    <3>1. k \in 1 .. n
      BY <1>3, <1>9, <2>2
    <3>2. block_stack'[k] = block_stack[k] /\ block_stack[k] \in 1 .. Len(states)
      BY <1>3, <1>9, <3>1
    <3>3. states'[block_stack[k]] = Decremented[block_stack[k]]
      BY <1>8, <2>2, <3>2
    <3> QED  BY <1>2, <3>1, <3>2, <3>3
  <2> QED  BY <2>1, <2>2
<1> QED  BY <1>9, <1>10, <1>12 DEF n

LEMMA EdgesNew ==
  ASSUME WalkInv, StackInv, EdgesInv, PathInv, WalkInv', StackInv', visit_new
  PROVE  EdgesInv' /\ PathInv'
<1> DEFINE p == Top.block
           b == Successor
           n == Len(preorder)
           t == preorder_num[p]
           top == Len(block_stack)
           reset == [predecessors EXCEPT ![b] = <<>>]
           N(k) == preorder_num[states[block_stack[k]].block]
           M(k) == preorder_num'[states'[block_stack'[k]].block]
<1>1. /\ Visiting /\ Top.next >= 0 /\ ~is_marked(b) /\ Number(b, t)
      /\ predecessors' = block_add_predecessor(reset, b, p)
      /\ UNCHANGED <<graph, slots, postorder, postorder_num>>
  BY DEF visit_new, parent_num
<1>2. /\ preorder' = Append(preorder, b) /\ parent' = Append(parent, t)
      /\ preorder_num' = [preorder_num EXCEPT ![b] = n]
  BY <1>1 DEF Number
<1>3. /\ top \in Nat \ {0} /\ p \in Blocks /\ is_marked(p) /\ b \in Blocks
      /\ b \in Range(successors(p))
  BY <1>1, TopState DEF BlockState
<1>4. p = states[block_stack[top]].block /\ N(top) = t
  BY DEF Top, Last
<1>5. /\ preorder \in Seq(Blocks) /\ parent \in Seq(Int) /\ Len(parent) = n /\ n \in Nat
      /\ preorder_num \in [Blocks -> Int] /\ WalkTypes /\ PreorderIsTree
  BY DEF WalkInv, WalkTypes, PreorderIsTree
<1>6. t \in 0 .. n - 1 /\ preorder[t + 1] = p
  BY <1>3 DEF is_marked
<1>7. Blocks' = Blocks /\ b \in Known' /\ Known \subseteq Known'
  <2>1. Blocks' = Blocks
    BY <1>1 DEF Blocks
  <2>2. \A c \in Blocks : is_marked(c) \/ c = b => is_marked(c)'
    BY <1>1, <1>3, <1>5, <1>6, NumberStep
  <2> QED  BY <1>3, <2>1, <2>2 DEF Known
<1>8. \A c \in Known : c # b /\ preorder_num'[c] = preorder_num[c] /\ preorder_num[c] \in 0 .. n - 1
  BY <1>1, <1>2, <1>5 DEF is_marked, Known
<1>9. preorder_num'[b] = n /\ Len(preorder') = n + 1
  BY <1>2, <1>3, <1>5
<1> HIDE DEF p, b, n, t, reset, top
<1>10. /\ \A x \in 0 .. n - 1, y \in 0 .. n - 1 : Below(parent, x, y) => Below(parent', x, y)
       /\ \A x \in 0 .. n - 1 : Below(parent, x, n - 1) /\ x <= t => Below(parent', x, n)
       /\ Below(parent', n, n)
  <2>1. t \in Int
    BY <1>6
  <2>2. GrowsBelow(parent, Append(parent, t), Len(parent), t)
    BY <1>5, <2>1, BelowGrows
  <2>3. GrowsBelow(parent, parent', n, t)
    BY <1>2, <1>5, <2>2
  <2> QED  BY <2>3 DEF GrowsBelow
<1>11. /\ slots = "one" => Len(states) <= 2
       /\ \A k, l \in 1 .. top : k <= l => N(k) <= N(l)
       /\ \A k \in 1 .. top : Below(parent, N(k), n - 1)
  BY DEF PathInv, PathOf, n, top
<1>12. Below(parent', t, n)
  BY <1>3, <1>4, <1>5, <1>6, <1>10, <1>11
<1>13. \A k \in 1 .. top : states[block_stack[k]].block \in Known
  <2>1. \A k \in 1 .. Len(states) : states[k] \in BlockState /\ is_marked(states[k].block)
    BY ElementOfSeq DEF WalkInv, WalkTypes, StatesOK
  <2>2. \A k \in 1 .. Len(block_stack) : block_stack[k] \in 1 .. Len(states)
    BY ElementOfSeq DEF WalkInv, WalkTypes
  <2> QED  BY <2>1, <2>2 DEF Known, BlockState, top
<1>14. \A k \in 1 .. top : N(k) \in 0 .. n - 1 /\ N(k) <= t /\ preorder_num'[states[block_stack[k]].block] = N(k)
  BY <1>3, <1>4, <1>8, <1>11, <1>13
<1>15. EdgesInv'
  <2>1. predecessors \in [Blocks -> Seq(Blocks)]
        /\ \A c \in Blocks : \A i \in 1 .. Len(predecessors[c]) :
             /\ c \in Known /\ predecessors[c][i] \in Known
             /\ GoesDown(preorder_num, parent, predecessors[c][i], c)
    BY DEF EdgesInv, EdgesOf
  <2>2. reset \in [Blocks -> Seq(Blocks)] /\ Len(reset[b]) = 0 /\ \A c \in Blocks : c # b => reset[c] = predecessors[c]
    BY <1>3, <2>1 DEF reset
  <2>3. ASSUME NEW c \in Known, NEW q \in Known, GoesDown(preorder_num, parent, q, c)
        PROVE  GoesDown(preorder_num', parent', q, c)
    BY <1>8, <1>10, <2>3 DEF GoesDown
  <2>4. ASSUME NEW c \in Blocks, NEW i \in 1 .. Len(reset[c])
        PROVE  c \in Known' /\ reset[c][i] \in Known' /\ GoesDown(preorder_num', parent', reset[c][i], c)
    <3>1. c # b /\ i \in 1 .. Len(predecessors[c]) /\ reset[c][i] = predecessors[c][i]
      BY <2>2
    <3> QED  BY <1>7, <2>1, <2>3, <3>1
  <2>5. EdgesOf(Blocks, reset, Known', preorder_num', parent')
    BY <2>2, <2>4 DEF EdgesOf
  <2>6. p \in Known
    BY <1>3 DEF Known
  <2>7. GoesDown(preorder_num', parent', p, b)
    BY <1>8, <1>9, <1>12, <2>6 DEF GoesDown, t
  <2>8. EdgesOf(Blocks, block_add_predecessor(reset, b, p), Known', preorder_num', parent')
    BY <1>3, <1>7, <2>5, <2>6, <2>7, EdgeAdded
  <2> QED  BY <1>1, <1>7, <2>8 DEF EdgesInv
<1>16. /\ slots = "one" => Len(states') <= 2
       /\ Len(block_stack') = top + 1
       /\ \A k \in 1 .. top + 1 :
            \/ M(k) = n /\ \A l \in k .. top + 1 : M(l) = n
            \/ k \in 1 .. top /\ M(k) = N(k)
  <2>1. /\ slots = "one" => Len(states') <= 2
        /\ Len(block_stack') = top + 1
        /\ \A k \in 1 .. top + 1 :
              \/ /\ states'[block_stack'[k]].block = b
                 /\ \A l \in k .. top + 1 : states'[block_stack'[l]].block = b
              \/ /\ k \in 1 .. top /\ block_stack'[k] = block_stack[k]
                 /\ states'[block_stack'[k]].block = states[block_stack[k]].block
    BY <1>1, <1>11, Pushed DEF top, b
  <2> QED  BY <1>9, <1>14, <2>1
<1> HIDE DEF M, N
<1>17. ASSUME NEW k \in 1 .. top + 1, NEW l \in 1 .. top + 1, k <= l PROVE M(k) <= M(l)
  <2>1. CASE M(k) = n /\ \A j \in k .. top + 1 : M(j) = n
    BY <1>3, <1>5, <1>17, <2>1
  <2>2. CASE M(l) = n
    BY <1>5, <1>14, <1>16, <2>2
  <2>3. CASE /\ k \in 1 .. top /\ M(k) = N(k) /\ l \in 1 .. top /\ M(l) = N(l)
    BY <1>11, <1>17, <2>3
  <2> QED  BY <1>16, <2>1, <2>2, <2>3
<1>18. ASSUME NEW k \in 1 .. top + 1 PROVE Below(parent', M(k), n)
  BY <1>10, <1>11, <1>14, <1>16
<1>19. PathOf(block_stack', states', preorder_num', parent', Len(preorder'))
  <2>1. Len(preorder') - 1 = n
    BY <1>5, <1>9
  <2> QED  BY <1>16, <1>17, <1>18, <2>1 DEF PathOf, M
<1>20. PathInv'
  BY <1>1, <1>16, <1>19 DEF PathInv
<1> QED  BY <1>15, <1>20

\* Behind the walk nothing changes what it left.
LEMMA WalkRests ==
  ASSUME [Next]_vars, ~Discovery
  PROVE  UNCHANGED blockVars
<1>1. CASE DominatorPasses
  BY <1>1 DEF DominatorPasses, DominatorsNext, compute_dominators, semidominator,
              semidominators_done, block_add_dominated, dominators_done, frontier, runner_lost
<1>2. CASE Liveness
  BY <1>2 DEF Liveness, liveness_analyze, compute_initial_sets, initial_sets_done,
              update_live_sets, place_unset, live_sets_passed
<1>3. CASE Rename
  BY <1>3 DEF Rename, insert_phis, graph_rename_recursive, renamed
<1>4. CASE UNCHANGED vars
  BY <1>4 DEF vars
<1> QED  BY <1>1, <1>2, <1>3, <1>4 DEF Next

LEMMA EdgesStep ==
  ASSUME WalkInv, StackInv, EdgesInv, PathInv, [Next]_vars
  PROVE  EdgesInv' /\ PathInv'
<1>1. WalkInv' /\ StackInv'
  BY WalkStep
<1>2. CASE Discovery
  BY <1>1, <1>2, EdgesEnter, EdgesMarked, EdgesNew, EdgesLeave DEF Discovery, graph_discover_blocks
<1>3. CASE ~Discovery
  BY <1>3, WalkRests, EdgesUnchanged
<1> QED  BY <1>2, <1>3
-----------------------------------------------------------------------------
\* What holds of a number whenever it holds of all before it holds of all.
LEMMA UpwardInduction ==
  ASSUME NEW n \in Nat, NEW S, \A k \in 0 .. n : (\A j \in 0 .. k - 1 : j \in S) => k \in S
  PROVE  \A k \in 0 .. n : k \in S
<1> DEFINE Bad == {k \in 0 .. n : k \notin S}
<1> SUFFICES ASSUME Bad # {} PROVE FALSE
  OBVIOUS
<1>1. Bad \in SUBSET Nat
  OBVIOUS
<1>2. PICK k \in Bad : \A m \in Bad : k <= m
  <2> HIDE DEF Bad
  <2> QED  BY <1>1, LeastNumber
<1>3. \A j \in 0 .. k - 1 : j \in 0 .. n /\ ~ (k <= j)
  OBVIOUS
<1> QED  BY <1>2, <1>3

\* f follows next down to Stop, where it is base, and step leads back up.
Follows(f, n, Stop, next, base, step) ==
  \A x \in 0 .. n : f[x] = IF x \in Stop THEN base[x] ELSE step[<<x, f[next[x]]>>]

LEMMA RecursionExists ==
  ASSUME NEW n \in Nat, NEW Stop, NEW next, NEW base, NEW step, NEW V, NEW v \in V,
         \A x \in 0 .. n : x \notin Stop => next[x] \in 0 .. x - 1,
         \A x \in 0 .. n : x \in Stop => base[x] \in V,
         \A x \in 0 .. n, y \in V : step[<<x, y>>] \in V
  PROVE  \E f \in [0 .. n -> V] : Follows(f, n, Stop, next, base, step)
<1> DEFINE Body(g, x) == IF x \in Stop THEN base[x] ELSE step[<<x, g[next[x]]>>]
           UpTo(g, k) == \A x \in 0 .. k : g[x] = Body(g, x)
           Good == {k \in 0 .. n : \E g \in [0 .. n -> V] : UpTo(g, k)}
\* A body looks at earlier places only.
<1>1. ASSUME NEW g, NEW h, NEW k \in 0 .. n, \A x \in 0 .. k - 1 : g[x] = h[x]
      PROVE  Body(g, k) = Body(h, k)
  BY <1>1
<1>2. ASSUME NEW g \in [0 .. n -> V], NEW k \in 0 .. n PROVE Body(g, k) \in V
  <2>1. CASE k \in Stop
    BY <2>1
  <2>2. CASE k \notin Stop
    <3>1. next[k] \in 0 .. n
      BY <2>2
    <3>2. g[next[k]] \in V
      BY <3>1
    <3> QED  BY <2>2, <3>2
  <2> QED  BY <2>1, <2>2
<1> HIDE DEF Body
<1>3. ASSUME NEW g \in [0 .. n -> V], NEW k \in 0 .. n, k # 0 => UpTo(g, k - 1)
      PROVE  \E h \in [0 .. n -> V] : UpTo(h, k)
  <2> DEFINE h == [x \in 0 .. n |-> IF x = k THEN Body(g, k) ELSE g[x]]
  <2>1. h[k] = Body(g, k) /\ \A x \in 0 .. k - 1 : h[x] = g[x]
    OBVIOUS
  <2>2. h \in [0 .. n -> V]
    BY <1>2
  <2> HIDE DEF h
  <2>3. ASSUME NEW x \in 0 .. k PROVE h[x] = Body(h, x)
    <3>1. x \in 0 .. n /\ \A y \in 0 .. x - 1 : g[y] = h[y]
      BY <2>1
    <3>2. Body(g, x) = Body(h, x)
      BY <1>1, <3>1
    <3>3. CASE x = k
      BY <2>1, <3>2, <3>3
    <3>4. CASE x # k
      <4>1. x \in 0 .. k - 1 /\ k # 0
        BY <3>4
      <4> QED  BY <1>3, <2>1, <3>2, <4>1
    <3> QED  BY <3>3, <3>4
  <2>4. UpTo(h, k)
    BY <2>3
  <2> QED  BY <2>2, <2>4
<1>4. ASSUME NEW k \in 0 .. n, \A j \in 0 .. k - 1 : j \in Good PROVE k \in Good
  <2>1. CASE k = 0
    <3>1. [x \in 0 .. n |-> v] \in [0 .. n -> V]
      OBVIOUS
    <3> HIDE DEF UpTo
    <3>2. \E h \in [0 .. n -> V] : UpTo(h, k)
      BY <1>3, <2>1, <3>1
    <3> QED  BY <3>2
  <2>2. CASE k # 0
    <3>1. k - 1 \in 0 .. k - 1
      BY <2>2
    <3>2. PICK g \in [0 .. n -> V] : UpTo(g, k - 1)
      BY <1>4, <3>1
    <3> HIDE DEF UpTo
    <3>3. \E h \in [0 .. n -> V] : UpTo(h, k)
      BY <1>3, <3>2
    <3> QED  BY <3>3
  <2> QED  BY <2>1, <2>2
<1>5. n \in Good
  <2> HIDE DEF Good
  <2>1. \A k \in 0 .. n : k \in Good
    BY <1>4, UpwardInduction
  <2> QED  BY <2>1
<1>6. PICK f \in [0 .. n -> V] : UpTo(f, n)
  BY <1>5
<1>7. Follows(f, n, Stop, next, base, step)
  BY <1>6 DEF Follows, Body
<1> QED  BY <1>6, <1>7
-----------------------------------------------------------------------------
LEMMA BelowTransitive ==
  ASSUME NEW par, NEW a \in Int, NEW b \in Int, NEW c \in Int,
         Below(par, a, b), Below(par, b, c), \A w \in a + 1 .. c : par[w + 1] \in Int
  PROVE  Below(par, a, c)
<1>1. a <= b /\ b <= c
  BY DEF Below
<1>2. ASSUME NEW w \in a + 1 .. c PROVE par[w + 1] >= a
  <2>1. CASE w <= b
    <3>1. w \in a + 1 .. b
      BY <2>1
    <3> QED  BY <3>1 DEF Below
  <2>2. CASE w > b
    <3>1. w \in b + 1 .. c
      BY <2>2
    <3>2. par[w + 1] >= b
      BY <3>1 DEF Below
    <3> QED  BY <1>1, <3>2
  <2> QED  BY <2>1, <2>2
<1> QED  BY <1>1, <1>2 DEF Below

\* Block b's semidominator is at most s, for what the edge from p says.
EdgeBound(s0, s, b, p) ==
  /\ p < b => s <= p
  /\ p > b => \A w \in Numbers : w > b /\ Below(parent, w, p) => s <= s0[w]

\* The edges to the blocks behind k are taken into account.
Bounds(s0, k) ==
  \A q \in Numbers : q > k => \A p \in Numbers : Edge(p, q) => EdgeBound(s0, s0[q], q, p)

\* No block between d and b has a semidominator above d.
Cut(s0, b, d) == \A w \in Numbers : w > d /\ Below(parent, w, b) => s0[w] >= d

\* The recorded edges are between numbers, and lead down or back.
EdgesDown == \A p, b \in Numbers : Edge(p, b) /\ p < b => Below(parent, p, b)

ParentsOK == Size \in Nat \ {0} /\ \A w \in Numbers : parent[w + 1] \in Int /\ parent[w + 1] < w

\* The blocks above d, and those below a block from which some path leads past d.
LEMMA CutDominates ==
  ASSUME ParentsOK, EdgesDown, NEW s0 \in [Numbers -> Nat], Bounds(s0, 0),
         NEW b \in Numbers, NEW d \in Numbers, d < b, Cut(s0, b, d)
  PROVE  Strictly(d, b)
<1>0. Numbers = 0 .. Size - 1 /\ Size \in Nat \ {0}
  BY DEF Numbers, ParentsOK
<1> DEFINE S == {x \in Numbers : x < d \/ \E w \in Numbers : w > d /\ Below(parent, w, x) /\ s0[w] < d}
<1>1. CASE d = 0
  BY <1>1 DEF Strictly, Dominates
<1>2. CASE d # 0
  <2>1. 0 \in S
    BY <1>0, <1>2
  <2>2. d \notin S
    <3>1. ~ (d < d) /\ \A w \in Numbers : w > d => ~ Below(parent, w, d)
      BY <1>0 DEF Below
    <3> QED  BY <3>1
  <2>3. b \notin S
    <3>1. ~ (b < d)
      BY <1>0
    <3>2. \A w \in Numbers : w > d /\ Below(parent, w, b) => ~ (s0[w] < d)
      BY <1>0 DEF Cut
    <3> QED  BY <3>1, <3>2
  <2>4. ASSUME NEW p \in S, NEW q \in Numbers, Edge(p, q), q # d PROVE q \in S
    <3>1. CASE q < d
      BY <3>1
    <3>2. CASE q > d
      <4>0. q \in Int /\ p \in Numbers /\ p \in Int /\ d \in Int /\ Below(parent, q, q) /\ s0[q] \in Nat
        BY <1>0 DEF Below
      <4>1. EdgeBound(s0, s0[q], q, p)
        BY <1>0, <2>4, <3>2, <4>0 DEF Bounds
      <4>2. CASE p < d
        <5>1. p < q
          BY <3>2, <4>0, <4>2
        <5>2. s0[q] < d
          BY <4>0, <4>1, <4>2, <5>1 DEF EdgeBound
        <5> QED  BY <3>2, <4>0, <5>2
      <4>3. CASE ~ (p < d)
        <5>1. PICK w \in Numbers : w > d /\ Below(parent, w, p) /\ s0[w] < d
          BY <2>4, <4>3
        <5>2. w \in Int /\ s0[w] \in Nat /\ w <= p
          BY <1>0, <5>1 DEF Below
        <5>3. CASE w <= q /\ q <= p
          <6>1. Below(parent, w, q)
            BY <4>0, <5>1, <5>2, <5>3, BelowConvex
          <6> QED  BY <5>1, <6>1
        <5>4. CASE p < q
          <6>1. Below(parent, p, q)
            BY <2>4, <4>0, <5>4 DEF EdgesDown
          <6>2. \A x \in w + 1 .. q : parent[x + 1] \in Int
            <7>1. \A x \in w + 1 .. q : x \in Numbers
              BY <1>0, <5>2
            <7> QED  BY <7>1 DEF ParentsOK
          <6>3. Below(parent, w, q)
            BY <4>0, <5>1, <5>2, <6>1, <6>2, BelowTransitive
          <6> QED  BY <5>1, <6>3
        <5>5. CASE q < w
          <6>1. p > q
            BY <4>0, <5>2, <5>5
          <6>2. s0[q] <= s0[w]
            BY <4>1, <5>1, <5>5, <6>1 DEF EdgeBound
          <6>3. s0[q] < d
            BY <4>0, <5>1, <5>2, <6>2
          <6> QED  BY <3>2, <4>0, <6>3
        <5> QED  BY <4>0, <5>2, <5>3, <5>4, <5>5
      <4> QED  BY <4>2, <4>3
    <3> QED  BY <1>0, <2>4, <3>1, <3>2
  <2>5. S \in SUBSET (Numbers \ {d, b})
    BY <2>2, <2>3
  <2> HIDE DEF S
  <2>6. \A p \in S, q \in Numbers : Edge(p, q) => q \in S \cup {d}
    BY <2>4
  <2>7. Dominates(d, b)
    BY <2>1, <2>5, <2>6 DEF Dominates
  <2> QED  BY <1>0, <2>7 DEF Strictly
<1> QED  BY <1>1, <1>2
-----------------------------------------------------------------------------
Tree == [semi : [Numbers -> Nat], up : [Numbers -> Numbers \cup {Nobody}]]

\* Labels stay below the semidominators on the way up that was compressed;
\* only what is behind k has been compressed.
Labels(s0, k, tree) ==
  \A c \in Numbers :
    /\ tree.up[c] < c
    /\ \A w \in Numbers : tree.up[c] < w /\ Below(parent, w, c) =>
         (w = c \/ w > k) /\ tree.semi[c] <= s0[w]

\* What a compression from current may change, and what it reaches.
Compressed(s0, start, current, tree, new) ==
  /\ new \in Tree /\ Labels(s0, start, new)
  /\ new.up[current] <= start
  /\ \A x \in Numbers : x <= start \/ x > current => new.semi[x] = tree.semi[x] /\ new.up[x] = tree.up[x]

\* One block more, when the path above it has been compressed.
HandDown(above, c, next) ==
  [above EXCEPT !.semi[c] = minimum(@, above.semi[next]), !.up[c] = above.up[next]]

LEMMA TreeFields ==
  ASSUME NEW tree \in Tree
  PROVE  /\ \A x \in Numbers : tree.semi[x] \in Nat /\ tree.up[x] \in Numbers \cup {Nobody}
         /\ tree = [semi |-> tree.semi, up |-> tree.up]
         /\ tree.semi \in [Numbers -> Nat] /\ tree.up \in [Numbers -> Numbers \cup {Nobody}]
  BY DEF Tree

LEMMA MinimumIs ==
  ASSUME NEW a \in Nat, NEW b \in Nat
  PROVE  minimum(a, b) \in Nat /\ minimum(a, b) <= a /\ minimum(a, b) <= b
  BY DEF minimum

LEMMA HandedDown ==
  ASSUME NEW above \in Tree, NEW c \in Numbers, NEW next \in Numbers
  PROVE  /\ HandDown(above, c, next) \in Tree
         /\ HandDown(above, c, next).semi[c] = minimum(above.semi[c], above.semi[next])
         /\ HandDown(above, c, next).up[c] = above.up[next]
         /\ \A x \in Numbers \ {c} : /\ HandDown(above, c, next).semi[x] = above.semi[x]
                                     /\ HandDown(above, c, next).up[x] = above.up[x]
<1>1. /\ above = [semi |-> above.semi, up |-> above.up]
      /\ above.semi \in [Numbers -> Nat] /\ above.up \in [Numbers -> Numbers \cup {Nobody}]
      /\ above.semi[c] \in Nat /\ above.semi[next] \in Nat /\ above.up[next] \in Numbers \cup {Nobody}
  BY TreeFields
<1>2. minimum(above.semi[c], above.semi[next]) \in Nat
  BY <1>1, MinimumIs
<1> DEFINE s == [above.semi EXCEPT ![c] = minimum(above.semi[c], above.semi[next])]
           u == [above.up EXCEPT ![c] = above.up[next]]
<1>3. HandDown(above, c, next) = [semi |-> s, up |-> u]
  <2> DEFINE m == minimum(above.semi[c], above.semi[next])
             v == above.up[next]
  <2>1. HandDown(above, c, next) = [[above EXCEPT !.semi[c] = m] EXCEPT !.up[c] = v]
    BY DEF HandDown
  <2>2. [above EXCEPT !.semi[c] = m] = [semi |-> s, up |-> above.up]
    <3> HIDE DEF m
    <3>1. s = [above.semi EXCEPT ![c] = m]
      BY DEF m
    <3> QED  BY <1>1, <3>1
  <2>3. [[semi |-> s, up |-> above.up] EXCEPT !.up[c] = v] = [semi |-> s, up |-> u]
    <3> HIDE DEF m, s, v
    <3>1. u = [above.up EXCEPT ![c] = v]
      BY DEF v
    <3> QED  BY <3>1
  <2> QED  BY <2>1, <2>2, <2>3
<1>4. /\ s \in [Numbers -> Nat] /\ s[c] = minimum(above.semi[c], above.semi[next])
      /\ \A x \in Numbers \ {c} : s[x] = above.semi[x]
  BY <1>1, <1>2
<1>5. /\ u \in [Numbers -> Numbers \cup {Nobody}] /\ u[c] = above.up[next]
      /\ \A x \in Numbers \ {c} : u[x] = above.up[x]
  BY <1>1
<1> HIDE DEF s, u
<1> QED  BY <1>3, <1>4, <1>5 DEF Tree

LEMMA CompressedOne ==
  ASSUME ParentsOK, NEW s0 \in [Numbers -> Nat], NEW start \in Numbers, NEW c \in Numbers,
         NEW tree \in Tree, NEW above, tree.up[c] > start, tree.up[c] < c,
         Compressed(s0, start, tree.up[c], tree, above)
  PROVE  Compressed(s0, start, c, tree, HandDown(above, c, tree.up[c]))
<1> DEFINE next == tree.up[c]
           new == HandDown(above, c, next)
<1>0. Numbers = 0 .. Size - 1 /\ Size \in Nat \ {0} /\ Nobody = -1
  BY DEF Numbers, ParentsOK, Nobody
<1>1. next \in Numbers /\ next > start /\ next < c /\ above \in Tree
  <2>1. next \in Numbers \cup {Nobody} /\ above \in Tree
    BY TreeFields DEF Compressed
  <2> QED  BY <1>0, <2>1
<1> HIDE DEF next
<1>2. /\ new \in Tree
      /\ new.semi[c] = minimum(above.semi[c], above.semi[next]) /\ new.up[c] = above.up[next]
      /\ \A x \in Numbers : x # c => new.semi[x] = above.semi[x] /\ new.up[x] = above.up[x]
  BY <1>1, HandedDown
<1>3. /\ Labels(s0, start, above) /\ above.up[next] <= start
      /\ \A x \in Numbers : x <= start \/ x > next => above.semi[x] = tree.semi[x] /\ above.up[x] = tree.up[x]
  BY DEF Compressed, next
<1>4. above.up[c] = next
  BY <1>1, <1>3 DEF next
<1>5. /\ \A x \in Numbers : above.semi[x] \in Nat /\ above.up[x] \in Int
      /\ \A w \in Numbers : s0[w] \in Nat
  <2>1. \A x \in Numbers : above.semi[x] \in Nat /\ above.up[x] \in Numbers \cup {Nobody}
    BY <1>1, TreeFields
  <2> QED  BY <1>0, <2>1
<1> HIDE DEF new
<1>6. /\ minimum(above.semi[c], above.semi[next]) <= above.semi[c]
      /\ minimum(above.semi[c], above.semi[next]) <= above.semi[next]
      /\ minimum(above.semi[c], above.semi[next]) \in Nat
  BY <1>1, <1>5, MinimumIs
<1>7. ASSUME NEW w \in Numbers, new.up[c] < w, Below(parent, w, c)
      PROVE  (w = c \/ w > start) /\ new.semi[c] <= s0[w]
  <2>1. CASE next < w
    <3>1. (w = c \/ w > start) /\ above.semi[c] <= s0[w]
      BY <1>3, <1>4, <1>7, <2>1 DEF Labels
    <3> QED  BY <1>2, <1>5, <1>6, <3>1
  <2>2. CASE ~ (next < w)
    <3>1. w \in Int /\ next \in Int /\ c \in Int /\ w <= next /\ next <= c
      BY <1>0, <1>1, <2>2
    <3>2. Below(parent, w, next)
      BY <1>7, <3>1, BelowConvex
    <3>3. (w = next \/ w > start) /\ above.semi[next] <= s0[w]
      BY <1>1, <1>2, <1>3, <1>7, <3>2 DEF Labels
    <3> QED  BY <1>1, <1>2, <1>5, <1>6, <3>3
  <2> QED  BY <2>1, <2>2
<1>8. new.up[c] < c
  BY <1>0, <1>1, <1>2, <1>3, <1>5
<1>9. Labels(s0, start, new)
  <2>1. ASSUME NEW x \in Numbers
        PROVE  /\ new.up[x] < x
               /\ \A w \in Numbers : new.up[x] < w /\ Below(parent, w, x) =>
                    (w = x \/ w > start) /\ new.semi[x] <= s0[w]
    <3>1. CASE x = c
      BY <1>7, <1>8, <3>1
    <3>2. CASE x # c
      BY <1>2, <1>3, <3>2 DEF Labels
    <3> QED  BY <3>1, <3>2
  <2> QED  BY <2>1 DEF Labels
<1>10. new.up[c] <= start
  BY <1>2, <1>3
<1>11. ASSUME NEW x \in Numbers, x <= start \/ x > c
       PROVE  new.semi[x] = tree.semi[x] /\ new.up[x] = tree.up[x]
  <2>1. x # c /\ (x <= start \/ x > next)
    BY <1>0, <1>1, <1>11
  <2> QED  BY <1>2, <1>3, <2>1
<1>12. Compressed(s0, start, c, tree, new)
  BY <1>2, <1>9, <1>10, <1>11 DEF Compressed
<1> QED  BY <1>12 DEF new, next

\* The function that compress_path is.
IsCompress(f, start, tree) ==
  \A c \in Numbers : f[c] = IF tree.up[c] > start THEN HandDown(f[tree.up[c]], c, tree.up[c]) ELSE tree

LEMMA CompressExists ==
  ASSUME ParentsOK, NEW s0, NEW start \in Numbers, NEW tree \in Tree, Labels(s0, start, tree)
  PROVE  \E f : f = [c \in Numbers |-> IF tree.up[c] > start THEN HandDown(f[tree.up[c]], c, tree.up[c]) ELSE tree]
<1> DEFINE n == Size - 1
           Stop == {c \in Numbers : ~ (tree.up[c] > start)}
           base == [c \in Numbers |-> tree]
           step == [cv \in Numbers \X Tree |-> IF cv[1] \in Stop THEN cv[2]
                                               ELSE HandDown(cv[2], cv[1], tree.up[cv[1]])]
<1>0. Numbers = 0 .. n /\ n \in Nat /\ Nobody = -1
  BY DEF Numbers, ParentsOK, Nobody
<1>1. \A x \in 0 .. n : x \notin Stop => tree.up[x] \in 0 .. x - 1
  <2>1. \A x \in Numbers : tree.up[x] \in Numbers \cup {Nobody} /\ tree.up[x] < x
    BY TreeFields DEF Labels
  <2>2. ASSUME NEW x \in Numbers, tree.up[x] > start PROVE tree.up[x] \in 0 .. x - 1
    BY <1>0, <2>1, <2>2
  <2> QED  BY <1>0, <2>2
<1>2. \A x \in 0 .. n : x \in Stop => base[x] \in Tree
  BY <1>0
<1>3. \A x \in 0 .. n, y \in Tree : step[<<x, y>>] \in Tree
  <2>1. ASSUME NEW x \in 0 .. n, NEW y \in Tree PROVE step[<<x, y>>] \in Tree
    <3>1. step[<<x, y>>] = IF x \in Stop THEN y ELSE HandDown(y, x, tree.up[x])
      BY <1>0
    <3>2. x \notin Stop => tree.up[x] \in Numbers
      BY <1>0, <1>1
    <3> HIDE DEF step, Stop
    <3>3. x \notin Stop => HandDown(y, x, tree.up[x]) \in Tree
      BY <1>0, <3>2, HandedDown
    <3> QED  BY <3>1, <3>3
  <2> QED  BY <2>1
<1>4. \E f \in [0 .. n -> Tree] : Follows(f, n, Stop, tree.up, base, step)
  <2> HIDE DEF n, Stop, base, step
  <2> QED  BY <1>0, <1>1, <1>2, <1>3, RecursionExists
<1>5. PICK f \in [0 .. n -> Tree] : Follows(f, n, Stop, tree.up, base, step)
  BY <1>4
<1>6. ASSUME NEW c \in Numbers
      PROVE  f[c] = IF tree.up[c] > start THEN HandDown(f[tree.up[c]], c, tree.up[c]) ELSE tree
  <2>1. f[c] = IF c \in Stop THEN base[c] ELSE step[<<c, f[tree.up[c]]>>]
    BY <1>0, <1>5 DEF Follows
  <2>2. CASE c \in Stop
    BY <2>1, <2>2
  <2>3. CASE c \notin Stop
    <3>1. tree.up[c] \in 0 .. n
      BY <1>0, <1>1, <2>3
    <3>2. f[tree.up[c]] \in Tree
      BY <1>5, <3>1
    <3>3. step[<<c, f[tree.up[c]]>>] = HandDown(f[tree.up[c]], c, tree.up[c])
      BY <2>3, <3>2
    <3> QED  BY <2>1, <2>3, <3>3
  <2> QED  BY <2>2, <2>3
<1>7. f = [c \in Numbers |-> f[c]]
  BY <1>0, <1>5
<1> QED  BY <1>6, <1>7

LEMMA CompressIs ==
  ASSUME ParentsOK, NEW s0, NEW start \in Numbers, NEW current \in Numbers, NEW tree \in Tree,
         Labels(s0, start, tree)
  PROVE  \E f : IsCompress(f, start, tree) /\ compress_path(start, current, tree) = f[current]
<1> DEFINE compress == CHOOSE f : f = [c \in Numbers |->
                         IF tree.up[c] > start THEN HandDown(f[tree.up[c]], c, tree.up[c]) ELSE tree]
<1>1. compress = [c \in Numbers |-> IF tree.up[c] > start
                                    THEN HandDown(compress[tree.up[c]], c, tree.up[c]) ELSE tree]
  <2>1. PICK g : g = [c \in Numbers |-> IF tree.up[c] > start THEN HandDown(g[tree.up[c]], c, tree.up[c]) ELSE tree]
    BY CompressExists, SMTT(60)
  <2> QED  BY <2>1, Zenon
<1>2. compress_path(start, current, tree) = compress[current]
  BY DEF compress_path, HandDown
<1> HIDE DEF compress
<1>3. IsCompress(compress, start, tree)
  <2>1. \A c \in Numbers : compress[c] = IF tree.up[c] > start
                                         THEN HandDown(compress[tree.up[c]], c, tree.up[c]) ELSE tree
    BY <1>1, Zenon
  <2> QED  BY <2>1 DEF IsCompress
<1> QED  BY <1>2, <1>3

\* compress_path does what it should.
LEMMA PathCompressed ==
  ASSUME ParentsOK, NEW s0 \in [Numbers -> Nat], NEW start \in Numbers, NEW current \in Numbers,
         NEW tree \in Tree, Labels(s0, start, tree)
  PROVE  Compressed(s0, start, current, tree, compress_path(start, current, tree))
<1>1. PICK f : IsCompress(f, start, tree) /\ compress_path(start, current, tree) = f[current]
  BY CompressIs
<1> DEFINE n == Size - 1
           Good == {c \in Numbers : Compressed(s0, start, c, tree, f[c])}
<1>2. Numbers = 0 .. n /\ n \in Nat /\ Nobody = -1
  BY DEF Numbers, ParentsOK, Nobody
<1>3. ASSUME NEW c \in 0 .. n, \A j \in 0 .. c - 1 : j \in Good PROVE c \in Good
  <2>1. c \in Numbers /\ tree.up[c] \in Numbers \cup {Nobody} /\ tree.up[c] < c
    BY <1>2, TreeFields DEF Labels
  <2>2. CASE tree.up[c] > start
    <3>1. tree.up[c] \in 0 .. c - 1
      BY <1>2, <2>1, <2>2
    <3>2. Compressed(s0, start, tree.up[c], tree, f[tree.up[c]])
      BY <1>3, <3>1
    <3>3. f[c] = HandDown(f[tree.up[c]], c, tree.up[c])
      BY <1>1, <2>1, <2>2 DEF IsCompress
    <3>4. Compressed(s0, start, c, tree, f[c])
      BY <2>1, <2>2, <3>2, <3>3, CompressedOne
    <3> QED  BY <2>1, <3>4
  <2>3. CASE ~ (tree.up[c] > start)
    <3>1. f[c] = tree
      BY <1>1, <2>1, <2>3 DEF IsCompress
    <3>2. tree.up[c] <= start
      BY <1>2, <2>1, <2>3
    <3>3. Compressed(s0, start, c, tree, f[c])
      BY <3>1, <3>2 DEF Compressed
    <3> QED  BY <2>1, <3>3
  <2> QED  BY <2>2, <2>3
<1>4. current \in Good
  <2> HIDE DEF Good, n
  <2>1. \A c \in 0 .. n : c \in Good
    BY <1>2, <1>3, UpwardInduction
  <2> QED  BY <1>2, <2>1
<1> QED  BY <1>1, <1>4
-----------------------------------------------------------------------------
\* While the predecessors of b are looked at.
Relaxed(s0, b, tree) ==
  tree \in Tree /\ Labels(s0, b, tree) /\ \A x \in Numbers : x < b => tree.semi[x] = x

PredsOK == \A b \in Numbers : PredNumbers(b) \in Seq(Numbers)

LEMMA SemiSet ==
  ASSUME NEW tree \in Tree, NEW b \in Numbers, NEW m \in Nat
  PROVE  /\ [tree EXCEPT !.semi[b] = m] \in Tree
         /\ [tree EXCEPT !.semi[b] = m].semi[b] = m
         /\ [tree EXCEPT !.semi[b] = m].up = tree.up
         /\ \A x \in Numbers : x # b => [tree EXCEPT !.semi[b] = m].semi[x] = tree.semi[x]
<1>1. /\ tree = [semi |-> tree.semi, up |-> tree.up]
      /\ tree.semi \in [Numbers -> Nat] /\ tree.up \in [Numbers -> Numbers \cup {Nobody}]
  BY TreeFields
<1> DEFINE s == [tree.semi EXCEPT ![b] = m]
<1>2. s \in [Numbers -> Nat] /\ s[b] = m /\ \A x \in Numbers : x # b => s[x] = tree.semi[x]
  BY <1>1
<1>3. [tree EXCEPT !.semi[b] = m] = [semi |-> s, up |-> tree.up]
  BY <1>1
<1> HIDE DEF s
<1> QED  BY <1>1, <1>2, <1>3 DEF Tree

LEMMA BoundLower ==
  ASSUME ParentsOK, NEW s0 \in [Numbers -> Nat], NEW s \in Nat, NEW t \in Nat, t <= s, NEW b \in Numbers,
         NEW p \in Numbers, EdgeBound(s0, s, b, p)
  PROVE  EdgeBound(s0, t, b, p)
<1>1. p \in Int /\ \A w \in Numbers : s0[w] \in Nat
  BY DEF ParentsOK, Numbers
<1> QED  BY <1>1 DEF EdgeBound

LEMMA RelaxedOne ==
  ASSUME ParentsOK, NEW s0 \in [Numbers -> Nat], NEW b \in Numbers, NEW p \in Numbers,
         NEW tree, Relaxed(s0, b, tree)
  PROVE  /\ Relaxed(s0, b, Relax(b, tree, p))
         /\ Relax(b, tree, p).semi[b] <= tree.semi[b]
         /\ EdgeBound(s0, Relax(b, tree, p).semi[b], b, p)
<1> DEFINE best == IF p > b THEN compress_path(b, p, tree) ELSE tree
           m == minimum(best.semi[b], best.semi[p])
           new == Relax(b, tree, p)
<1>0. Numbers = 0 .. Size - 1 /\ Size \in Nat \ {0} /\ Nobody = -1
  BY DEF Numbers, ParentsOK, Nobody
<1>1. tree \in Tree /\ Labels(s0, b, tree) /\ \A x \in Numbers : x < b => tree.semi[x] = x
  BY DEF Relaxed
<1>2. /\ best \in Tree /\ Labels(s0, b, best) /\ \A x \in Numbers : x <= b => best.semi[x] = tree.semi[x]
      /\ p > b => best.up[p] <= b
  <2>1. CASE p > b
    <3>1. Compressed(s0, b, p, tree, compress_path(b, p, tree))
      BY <1>1, PathCompressed
    <3>2. best = compress_path(b, p, tree)
      BY <2>1
    <3> HIDE DEF best
    <3> QED  BY <3>1, <3>2 DEF Compressed
  <2>2. CASE ~ (p > b)
    BY <1>1, <2>2
  <2> QED  BY <2>1, <2>2
<1>3. new = [best EXCEPT !.semi[b] = m]
  <2>1. new = [best EXCEPT !.semi[b] = minimum(best.semi[b], best.semi[p])]
    BY DEF Relax
  <2> QED  BY <2>1
<1> HIDE DEF best, new
<1>4. /\ \A x \in Numbers : best.semi[x] \in Nat /\ best.up[x] \in Int /\ s0[x] \in Nat
      /\ m \in Nat /\ m <= best.semi[b] /\ m <= best.semi[p]
  <2>1. \A x \in Numbers : best.semi[x] \in Nat /\ best.up[x] \in Numbers \cup {Nobody}
    BY <1>2, TreeFields
  <2>2. best.semi[b] \in Nat /\ best.semi[p] \in Nat
    BY <2>1
  <2>3. \A x \in Numbers : best.up[x] \in Int
    BY <1>0, <2>1
  <2> QED  BY <2>1, <2>2, <2>3, MinimumIs
<1> HIDE DEF m
<1>5. /\ new \in Tree /\ new.semi[b] = m /\ new.up = best.up
      /\ \A x \in Numbers : x # b => new.semi[x] = best.semi[x]
  BY <1>2, <1>3, <1>4, SemiSet
<1>6. Labels(s0, b, new)
  <2>1. ASSUME NEW c \in Numbers, NEW w \in Numbers, new.up[c] < w, Below(parent, w, c)
        PROVE  (w = c \/ w > b) /\ new.semi[c] <= s0[w]
    <3>1. (w = c \/ w > b) /\ best.semi[c] <= s0[w]
      BY <1>2, <1>5, <2>1 DEF Labels
    <3>2. new.semi[c] <= best.semi[c] /\ new.semi[c] \in Nat
      BY <1>4, <1>5
    <3> QED  BY <1>4, <3>1, <3>2
  <2>2. \A c \in Numbers : new.up[c] < c
    BY <1>2, <1>5 DEF Labels
  <2> QED  BY <2>1, <2>2 DEF Labels
<1>7. \A x \in Numbers : x < b => new.semi[x] = x
  BY <1>0, <1>1, <1>2, <1>5
<1>8. new.semi[b] <= tree.semi[b]
  BY <1>0, <1>2, <1>4, <1>5
<1>9. EdgeBound(s0, m, b, p)
  <2>1. ASSUME p < b PROVE m <= p
    <3>1. best.semi[p] = p
      BY <1>0, <1>1, <1>2, <2>1, SMTT(60)
    <3> QED  BY <1>4, <3>1
  <2>2. ASSUME p > b, NEW w \in Numbers, w > b, Below(parent, w, p) PROVE m <= s0[w]
    <3>1. best.up[p] < w
      BY <1>0, <1>2, <1>4, <2>2
    <3>2. best.semi[p] <= s0[w]
      BY <1>2, <2>2, <3>1 DEF Labels
    <3> QED  BY <1>4, <3>2
  <2> QED  BY <2>1, <2>2 DEF EdgeBound
<1>10. Relaxed(s0, b, new) /\ EdgeBound(s0, new.semi[b], b, p)
  BY <1>5, <1>6, <1>7, <1>9 DEF Relaxed
<1> QED  BY <1>8, <1>10 DEF new

\* The function that RelaxAll is.
IsRelaxAll(f, b, start, preds) ==
  \A i \in 0 .. Len(preds) : f[i] = IF i = 0 THEN start ELSE Relax(b, f[i - 1], preds[i])

LEMMA RelaxAllExists ==
  ASSUME ParentsOK, NEW s0 \in [Numbers -> Nat], NEW b \in Numbers, NEW preds \in Seq(Numbers),
         NEW start, Relaxed(s0, b, start)
  PROVE  \E f : f = [i \in 0 .. Len(preds) |-> IF i = 0 THEN start ELSE Relax(b, f[i - 1], preds[i])]
<1> DEFINE n == Len(preds)
           V == {t \in Tree : Relaxed(s0, b, t)}
           next == [i \in 0 .. n |-> i - 1]
           base == [i \in 0 .. n |-> start]
           step == [iv \in (0 .. n) \X V |-> IF iv[1] = 0 THEN iv[2] ELSE Relax(b, iv[2], preds[iv[1]])]
<1>0. n \in Nat /\ start \in V
  BY DEF Relaxed
<1>1. \A x \in 0 .. n : x \notin {0} => next[x] \in 0 .. x - 1
  BY <1>0
<1>2. \A x \in 0 .. n : x \in {0} => base[x] \in V
  BY <1>0
<1>3. \A x \in 0 .. n, y \in V : step[<<x, y>>] \in V
  <2>1. ASSUME NEW x \in 0 .. n, NEW y \in V PROVE step[<<x, y>>] \in V
    <3>1. step[<<x, y>>] = IF x = 0 THEN y ELSE Relax(b, y, preds[x])
      OBVIOUS
    <3>2. x # 0 => preds[x] \in Numbers
      BY <1>0, ElementOfSeq
    <3>3. Relaxed(s0, b, y)
      OBVIOUS
    <3> HIDE DEF step
    <3>4. x # 0 => Relaxed(s0, b, Relax(b, y, preds[x]))
      BY <3>2, <3>3, RelaxedOne
    <3>5. x # 0 => Relax(b, y, preds[x]) \in V
      BY <3>4 DEF Relaxed
    <3> QED  BY <3>1, <3>5
  <2> QED  BY <2>1
<1>4. \E f \in [0 .. n -> V] : Follows(f, n, {0}, next, base, step)
  <2> HIDE DEF n, V, next, base, step
  <2> QED  BY <1>0, <1>1, <1>2, <1>3, RecursionExists
<1>5. PICK f \in [0 .. n -> V] : Follows(f, n, {0}, next, base, step)
  BY <1>4
<1>6. ASSUME NEW i \in 0 .. n PROVE f[i] = IF i = 0 THEN start ELSE Relax(b, f[i - 1], preds[i])
  <2>1. f[i] = IF i \in {0} THEN base[i] ELSE step[<<i, f[next[i]]>>]
    BY <1>5 DEF Follows
  <2>2. CASE i = 0
    BY <2>1, <2>2
  <2>3. CASE i # 0
    <3>1. i - 1 \in 0 .. n /\ next[i] = i - 1
      BY <1>0, <2>3
    <3>2. f[i - 1] \in V
      BY <1>5, <3>1
    <3>3. step[<<i, f[i - 1]>>] = Relax(b, f[i - 1], preds[i])
      BY <2>3, <3>2
    <3> QED  BY <2>1, <2>3, <3>1, <3>3
  <2> QED  BY <2>2, <2>3
<1>7. f = [i \in 0 .. n |-> f[i]]
  BY <1>5
<1> QED  BY <1>6, <1>7

LEMMA RelaxAllIs ==
  ASSUME ParentsOK, PredsOK, NEW s0 \in [Numbers -> Nat], NEW b \in Numbers,
         Relaxed(s0, b, [semi |-> semi, up |-> up])
  PROVE  \E f : /\ IsRelaxAll(f, b, [semi |-> semi, up |-> up], PredNumbers(b))
                /\ RelaxAll(b) = f[Len(PredNumbers(b))]
<1> DEFINE preds == PredNumbers(b)
           start == [semi |-> semi, up |-> up]
           tree == CHOOSE f : f = [i \in 0 .. Len(preds) |->
                     IF i = 0 THEN start ELSE Relax(b, f[i - 1], preds[i])]
<1>1. tree = [i \in 0 .. Len(preds) |-> IF i = 0 THEN start ELSE Relax(b, tree[i - 1], preds[i])]
  <2>1. preds \in Seq(Numbers)
    BY DEF PredsOK
  <2>2. \E f : f = [i \in 0 .. Len(preds) |-> IF i = 0 THEN start ELSE Relax(b, f[i - 1], preds[i])]
    <3> HIDE DEF start, preds
    <3>1. Relaxed(s0, b, start)
      BY DEF start
    <3> QED  BY <2>1, <3>1, RelaxAllExists
  <2>3. PICK f : f = [i \in 0 .. Len(preds) |-> IF i = 0 THEN start ELSE Relax(b, f[i - 1], preds[i])]
    BY <2>2
  <2> QED  BY <2>3, Zenon
<1>2. RelaxAll(b) = tree[Len(preds)]
  BY DEF RelaxAll
<1> HIDE DEF tree, start, preds
<1>3. \A i \in 0 .. Len(preds) : tree[i] = IF i = 0 THEN start ELSE Relax(b, tree[i - 1], preds[i])
  BY <1>1, Zenon
<1>4. IsRelaxAll(tree, b, start, preds)
  BY <1>3 DEF IsRelaxAll
<1> QED  BY <1>2, <1>4 DEF start, preds

\* All edges to b are taken into account.
LEMMA AllRelaxed ==
  ASSUME ParentsOK, PredsOK, NEW s0 \in [Numbers -> Nat], NEW b \in Numbers,
         Relaxed(s0, b, [semi |-> semi, up |-> up])
  PROVE  /\ Relaxed(s0, b, RelaxAll(b))
         /\ \A p \in Numbers : Edge(p, b) => EdgeBound(s0, RelaxAll(b).semi[b], b, p)
<1> DEFINE preds == PredNumbers(b)
           start == [semi |-> semi, up |-> up]
           n == Len(preds)
<1>1. PICK f : IsRelaxAll(f, b, start, preds) /\ RelaxAll(b) = f[n]
  BY RelaxAllIs
<1>2. preds \in Seq(Numbers) /\ n \in Nat /\ DOMAIN preds = 1 .. n
  BY DEF PredsOK
<1>3. Relaxed(s0, b, start)
  OBVIOUS
<1> DEFINE Done(i) == /\ Relaxed(s0, b, f[i])
                      /\ \A j \in 1 .. i : EdgeBound(s0, f[i].semi[b], b, preds[j])
           Good == {i \in 0 .. n : Done(i)}
<1> HIDE DEF start, n, preds
<1>4. \A i \in 0 .. n : f[i] = IF i = 0 THEN start ELSE Relax(b, f[i - 1], preds[i])
  BY <1>1 DEF IsRelaxAll, n
<1>5. \A i \in 1 .. n : preds[i] \in Numbers
  BY <1>2, ElementOfSeq DEF n
<1>6. ASSUME NEW i \in 0 .. n, \A j \in 0 .. i - 1 : j \in Good PROVE i \in Good
  <2>1. CASE i = 0
    <3>1. f[i] = start
      BY <1>4, <2>1
    <3> QED  BY <1>3, <2>1, <3>1
  <2>2. CASE i # 0
    <3>1. i - 1 \in 0 .. i - 1 /\ i - 1 \in 0 .. n /\ i \in 1 .. n
      BY <1>2, <2>2
    <3>2. Done(i - 1)
      BY <1>6, <3>1
    <3>3. f[i] = Relax(b, f[i - 1], preds[i]) /\ preds[i] \in Numbers
      BY <1>4, <1>5, <2>2, <3>1
    <3>4. /\ Relaxed(s0, b, f[i]) /\ f[i].semi[b] <= f[i - 1].semi[b]
          /\ EdgeBound(s0, f[i].semi[b], b, preds[i])
      <4>1. Relaxed(s0, b, f[i - 1])
        BY <3>2
      <4> HIDE DEF Done, Good
      <4> QED  BY <3>3, <4>1, RelaxedOne
    <3>5. f[i].semi[b] \in Nat /\ f[i - 1].semi[b] \in Nat
      <4>1. f[i] \in Tree /\ f[i - 1] \in Tree
        BY <3>2, <3>4 DEF Relaxed
      <4> HIDE DEF Done, Good
      <4> QED  BY <4>1, TreeFields
    <3>6. ASSUME NEW j \in 1 .. i PROVE EdgeBound(s0, f[i].semi[b], b, preds[j])
      <4>1. CASE j = i
        BY <3>4, <4>1
      <4>2. CASE j # i
        <5>1. j \in 1 .. i - 1 /\ j \in 1 .. n
          BY <1>2, <4>2
        <5>2. EdgeBound(s0, f[i - 1].semi[b], b, preds[j])
          BY <3>2, <5>1
        <5>3. preds[j] \in Numbers
          BY <1>5, <5>1
        <5> HIDE DEF Done, Good
        <5> QED  BY <3>4, <3>5, <5>2, <5>3, BoundLower
      <4> QED  BY <4>1, <4>2
    <3> QED  BY <3>4, <3>6
  <2> QED  BY <2>1, <2>2
<1>7. Done(n)
  <2> HIDE DEF Good, Done
  <2>1. \A i \in 0 .. n : i \in Good
    BY <1>2, <1>6, UpwardInduction DEF n
  <2>2. n \in Good
    BY <1>2, <2>1 DEF n
  <2> QED  BY <2>2 DEF Good
<1>8. ASSUME NEW p \in Numbers, Edge(p, b) PROVE EdgeBound(s0, RelaxAll(b).semi[b], b, p)
  <2>1. PICK i \in DOMAIN preds : p = preds[i]
    BY <1>8 DEF Edge, Range, preds
  <2> QED  BY <1>1, <1>2, <1>7, <2>1 DEF n
<1> QED  BY <1>1, <1>7, <1>8
-----------------------------------------------------------------------------
\* Every block's dominator so far is above it; from block b on it is the parent.
\* Behind b no block in between has a semidominator that is higher.
Idoms(s0, b) ==
  /\ idom \in [Numbers -> Numbers \cup {Nobody}]
  /\ \A x \in Numbers : x # 0 => idom[x] \in 0 .. x - 1
  /\ \A x \in Numbers : x >= b => idom[x] = parent[x + 1]
  /\ \A x \in Numbers : x # 0 /\ x < b => Cut(s0, x, idom[x])

\* As far as it was climbed from b to x.
CutAbove(s0, b, x) == \A w \in Numbers : w > x /\ w < b /\ Below(parent, w, b) => s0[w] >= x

IsClimb(f, b) == \A d \in Numbers : f[d] = IF d > semi[b] THEN f[idom[d]] ELSE d

LEMMA ClimbIs ==
  ASSUME ParentsOK, NEW s0, NEW b \in Numbers, semi \in [Numbers -> Nat], Idoms(s0, b)
  PROVE  \E f : IsClimb(f, b) /\ Climb(b) = f[idom[b]]
<1> DEFINE n == Size - 1
           Stop == {d \in Numbers : ~ (d > semi[b])}
           base == [d \in Numbers |-> d]
           step == [dv \in Numbers \X Numbers |-> dv[2]]
<1>0. Numbers = 0 .. n /\ n \in Nat /\ 0 \in Numbers /\ semi[b] \in Nat
  BY DEF Numbers, ParentsOK
<1>1. \A x \in 0 .. n : x \notin Stop => idom[x] \in 0 .. x - 1
  <2>1. ASSUME NEW x \in 0 .. n, x > semi[b] PROVE idom[x] \in 0 .. x - 1
    <3>1. x # 0 /\ x \in Numbers
      BY <1>0, <2>1
    <3> QED  BY <3>1 DEF Idoms
  <2> QED  BY <1>0, <2>1
<1>2. \A x \in 0 .. n : x \in Stop => base[x] \in Numbers
  BY <1>0
<1>3. \A x \in 0 .. n, y \in Numbers : step[<<x, y>>] \in Numbers
  BY <1>0
<1>4. \E f \in [0 .. n -> Numbers] : Follows(f, n, Stop, idom, base, step)
  <2> HIDE DEF n, Stop, base, step
  <2> QED  BY <1>0, <1>1, <1>2, <1>3, RecursionExists
<1>5. PICK f \in [0 .. n -> Numbers] : Follows(f, n, Stop, idom, base, step)
  BY <1>4
<1>6. ASSUME NEW d \in Numbers PROVE f[d] = IF d > semi[b] THEN f[idom[d]] ELSE d
  <2>1. f[d] = IF d \in Stop THEN base[d] ELSE step[<<d, f[idom[d]]>>]
    BY <1>0, <1>5 DEF Follows
  <2>2. CASE d \in Stop
    BY <2>1, <2>2
  <2>3. CASE d \notin Stop
    <3>1. idom[d] \in 0 .. n
      BY <1>0, <1>1, <2>3
    <3>2. f[idom[d]] \in Numbers
      BY <1>5, <3>1
    <3>3. step[<<d, f[idom[d]]>>] = f[idom[d]]
      BY <3>2
    <3> QED  BY <2>1, <2>3, <3>3
  <2> QED  BY <2>2, <2>3
<1>7. f = [d \in Numbers |-> IF d > semi[b] THEN f[idom[d]] ELSE d]
  <2>1. f = [d \in Numbers |-> f[d]]
    BY <1>0, <1>5
  <2> QED  BY <1>6, <2>1
<1> DEFINE climb == CHOOSE g : g = [d \in Numbers |-> IF d > semi[b] THEN g[idom[d]] ELSE d]
<1>8. climb = [d \in Numbers |-> IF d > semi[b] THEN climb[idom[d]] ELSE d]
  BY <1>7, Zenon
<1>9. Climb(b) = climb[idom[b]]
  BY DEF Climb
<1> HIDE DEF climb
<1>10. IsClimb(climb, b)
  <2>1. \A d \in Numbers : climb[d] = IF d > semi[b] THEN climb[idom[d]] ELSE d
    BY <1>8, Zenon
  <2> QED  BY <2>1 DEF IsClimb
<1> QED  BY <1>9, <1>10

\* The climb ends at a dominator.
LEMMA Climbed ==
  ASSUME ParentsOK, NEW s0 \in [Numbers -> Nat], NEW b \in Numbers, b # 0,
         semi \in [Numbers -> Nat], semi[b] <= s0[b], Idoms(s0, b)
  PROVE  Climb(b) \in 0 .. b - 1 /\ Cut(s0, b, Climb(b))
<1>1. PICK f : IsClimb(f, b) /\ Climb(b) = f[idom[b]]
  BY ClimbIs
<1> DEFINE n == Size - 1
           Done(x) == f[x] \in 0 .. x /\ f[x] <= semi[b] /\ CutAbove(s0, b, f[x])
           Good == {x \in 0 .. b - 1 : CutAbove(s0, b, x) => Done(x)}
<1>0. Numbers = 0 .. n /\ n \in Nat /\ semi[b] \in Nat /\ b \in Nat /\ b - 1 \in Nat
      /\ \A w \in Numbers : s0[w] \in Nat
  BY DEF Numbers, ParentsOK
<1>2. ASSUME NEW x \in 0 .. b - 1, \A j \in 0 .. x - 1 : j \in Good PROVE x \in Good
  <2> SUFFICES ASSUME CutAbove(s0, b, x) PROVE Done(x)
    OBVIOUS
  <2>0. x \in Numbers /\ x < b
    BY <1>0
  <2>1. CASE x > semi[b]
    <3>1. x # 0 /\ idom[x] \in 0 .. x - 1 /\ Cut(s0, x, idom[x])
      BY <1>0, <2>0, <2>1 DEF Idoms
    <3>2. CutAbove(s0, b, idom[x])
      <4>1. ASSUME NEW w \in Numbers, w > idom[x], w < b, Below(parent, w, b) PROVE s0[w] >= idom[x]
        <5>1. CASE w > x
          <6>1. s0[w] >= x
            BY <2>0, <4>1, <5>1 DEF CutAbove
          <6> QED  BY <1>0, <3>1, <6>1
        <5>2. CASE ~ (w > x)
          <6>1. w \in Int /\ x \in Int /\ b \in Int /\ w <= x /\ x <= b
            BY <1>0, <2>0, <5>2
          <6>2. Below(parent, w, x)
            BY <4>1, <6>1, BelowConvex
          <6> QED  BY <3>1, <4>1, <6>2 DEF Cut
        <5> QED  BY <5>1, <5>2
      <4> QED  BY <4>1 DEF CutAbove
    <3>3. idom[x] \in Good
      BY <1>2, <3>1
    <3>4. Done(idom[x])
      BY <3>2, <3>3
    <3>5. f[x] = f[idom[x]]
      BY <1>1, <2>0, <2>1 DEF IsClimb
    <3> QED  BY <3>1, <3>4, <3>5
  <2>2. CASE ~ (x > semi[b])
    <3>1. f[x] = x
      BY <1>1, <2>0, <2>2 DEF IsClimb
    <3> QED  BY <1>0, <2>2, <3>1
  <2> QED  BY <2>1, <2>2
<1>3. \A x \in 0 .. b - 1 : x \in Good
  <2> HIDE DEF Good
  <2> QED  BY <1>0, <1>2, UpwardInduction
<1>4. idom[b] \in 0 .. b - 1 /\ idom[b] = parent[b + 1]
  BY <1>0 DEF Idoms
<1>5. CutAbove(s0, b, idom[b])
  <2>1. ASSUME NEW w \in Numbers, w > idom[b], w < b, Below(parent, w, b) PROVE FALSE
    <3>1. b \in w + 1 .. b
      BY <1>0, <2>1
    <3>2. parent[b + 1] >= w
      BY <2>1, <3>1 DEF Below
    <3> QED  BY <1>0, <1>4, <2>1, <3>2
  <2> QED  BY <2>1 DEF CutAbove
<1>6. Done(idom[b])
  BY <1>3, <1>4, <1>5
<1>7. Climb(b) \in 0 .. b - 1 /\ Climb(b) <= semi[b] /\ CutAbove(s0, b, Climb(b))
  BY <1>0, <1>1, <1>4, <1>6
<1> HIDE DEF Done, Good
<1>8. ASSUME NEW w \in Numbers, w > Climb(b), Below(parent, w, b) PROVE s0[w] >= Climb(b)
  <2>1. CASE w = b
    BY <1>0, <1>7, <2>1
  <2>2. CASE w # b
    <3>1. w <= b
      BY <1>8 DEF Below
    <3>2. w < b
      BY <1>0, <2>2, <3>1
    <3> QED  BY <1>7, <1>8, <3>2 DEF CutAbove
  <2> QED  BY <2>1, <2>2
<1> QED  BY <1>7, <1>8 DEF Cut
-----------------------------------------------------------------------------
\* Each block met waits on the stack or has been left; the first has no parent.
CountInv == /\ Len(postorder) + Len(block_stack) = Len(preorder)
            /\ preorder # <<>> => parent[1] = Nobody

LEMMA CountStart == Init => CountInv
  BY DEF Init, BlocksInit, CountInv

LEMMA CountStep ==
  ASSUME WalkInv, StackInv, CountInv, [Next]_vars
  PROVE  CountInv'
<1>0. WalkInv' /\ StackInv'
  BY WalkStep
<1>1. CASE discover_entry
  <2>1. preorder = <<>> /\ preorder' = <<Entry>> /\ block_stack' = <<1>> /\ parent' = Append(parent, -1)
        /\ postorder' = postorder
    BY <1>1 DEF discover_entry, Number, Init_state
  <2>2. block_stack = <<>> /\ Len(parent) = 0 /\ parent \in Seq(Int)
    BY <2>1 DEF StackInv, WalkInv, PreorderIsTree, WalkTypes
  <2>3. parent'[1] = -1
    BY <2>1, <2>2, AppendProperties
  <2>4. Len(postorder) = 0 /\ Len(postorder') = 0
    <3>1. Len(block_stack) = 0 /\ Len(preorder) = 0 /\ Len(postorder) \in Nat
      BY <2>1, <2>2 DEF WalkInv, WalkTypes
    <3> QED  BY <2>1, <3>1 DEF CountInv
  <2> QED  BY <2>1, <2>3, <2>4 DEF CountInv, Nobody
<1>2. CASE visit_marked
  BY <1>2 DEF visit_marked, numbers, CountInv
<1>3. CASE visit_new
  <2>1. /\ preorder' = Append(preorder, Successor) /\ block_stack' = Append(block_stack, NewSlot)
        /\ parent' = Append(parent, parent_num(Top.block)) /\ postorder' = postorder
    BY <1>3 DEF visit_new, Number
  <2>2. preorder # <<>>
    BY <1>3 DEF visit_new, Visiting, StackInv
  <2>3. /\ preorder \in Seq(Blocks) /\ block_stack \in Seq(1 .. Len(states)) /\ parent \in Seq(Int)
        /\ Len(parent) = Len(preorder) /\ Len(preorder) \in Nat /\ Len(block_stack) \in Nat /\ Len(postorder) \in Nat
    BY DEF WalkInv, WalkTypes, PreorderIsTree
  <2>4. Len(preorder') = Len(preorder) + 1 /\ Len(block_stack') = Len(block_stack) + 1
    BY <2>1, <2>3
  <2>5. parent'[1] = parent[1]
    <3>1. 1 \in 1 .. Len(parent)
      BY <2>2, <2>3
    <3>2. parent_num(Top.block) \in Int
      BY <1>3, TopState DEF visit_new, parent_num, is_marked
    <3> QED  BY <2>1, <2>3, <3>1, <3>2, AppendProperties
  <2> QED  BY <2>1, <2>2, <2>3, <2>4, <2>5 DEF CountInv
<1>4. CASE leave_block
  <2>1. /\ block_stack' = Front(block_stack) /\ postorder' = Append(postorder, Top.block)
        /\ UNCHANGED <<preorder, parent>> /\ Visiting
    BY <1>4 DEF leave_block, numbers
  <2>2. /\ block_stack \in Seq(1 .. Len(states)) /\ Len(block_stack) \in Nat \ {0}
        /\ postorder \in Seq(Blocks) /\ Top.block \in Blocks
    BY <2>1, TopState DEF WalkInv, WalkTypes, BlockState
  <2>3. Len(block_stack') = Len(block_stack) - 1
    BY <2>1, <2>2, Popped
  <2>4. Len(postorder') = Len(postorder) + 1 /\ Len(postorder) \in Nat
    BY <2>1, <2>2
  <2>5. Len(postorder') + Len(block_stack') = Len(preorder) /\ Len(preorder') = Len(preorder)
    <3>1. Len(block_stack) \in Int /\ Len(preorder') = Len(preorder)
      BY <2>1, <2>2
    <3> QED  BY <2>3, <2>4, <3>1 DEF CountInv
  <2>6. preorder # <<>> => parent'[1] = Nobody
    BY <2>1 DEF CountInv
  <2> QED  BY <2>1, <2>5, <2>6 DEF CountInv
<1>5. CASE ~Discovery
  BY <1>5, WalkRests DEF blockVars, numbers, walk, CountInv
<1> QED  BY <1>1, <1>2, <1>3, <1>4, <1>5 DEF Discovery, graph_discover_blocks

\* What the walk leaves to compute_dominators.
LEMMA WalkLeft ==
  ASSUME WalkInv, StackInv, EdgesInv, CountInv, preorder # <<>>
  PROVE  ParentsOK /\ PredsOK /\ EdgesDown
<1>0. /\ preorder \in Seq(Blocks) /\ DOMAIN preorder = 1 .. Size /\ Size \in Nat \ {0} /\ Len(preorder) = Size
      /\ preorder_num \in [Blocks -> Int]
  BY DEF WalkInv, WalkTypes, PreorderIsTree, Size
<1>1. Numbers = 0 .. Size - 1
  BY DEF Numbers
<1>2. ParentsOK
  <2>1. ASSUME NEW w \in Numbers PROVE parent[w + 1] \in Int /\ parent[w + 1] < w
    <3>1. CASE w = 0
      BY <3>1 DEF CountInv, Nobody
    <3>2. CASE w # 0
      <4>1. w + 1 \in 1 .. Size /\ w + 1 > 1
        BY <1>0, <1>1, <3>2
      <4>2. parent[w + 1] \in 0 .. (w + 1) - 2
        BY <1>0, <4>1 DEF WalkInv, PreorderIsTree
      <4> QED  BY <1>1, <4>2
    <3> QED  BY <3>1, <3>2
  <2> QED  BY <1>0, <2>1 DEF ParentsOK
<1>3. ASSUME NEW b \in Numbers
      PROVE  /\ preorder[b + 1] \in Blocks /\ preorder_num[preorder[b + 1]] = b
             /\ predecessors[preorder[b + 1]] \in Seq(Blocks)
             /\ \A i \in 1 .. Len(predecessors[preorder[b + 1]]) :
                  /\ preorder_num[predecessors[preorder[b + 1]][i]] \in Numbers
                  /\ preorder_num[predecessors[preorder[b + 1]][i]] < b =>
                       Below(parent, preorder_num[predecessors[preorder[b + 1]][i]], b)
  <2> DEFINE c == preorder[b + 1]
  <2>1. b + 1 \in 1 .. Size
    BY <1>0, <1>1
  <2>2. c \in Blocks /\ preorder_num[c] = b
    <3>1. c \in Blocks
      BY <1>0, <2>1, ElementOfSeq
    <3>2. preorder_num[c] = (b + 1) - 1
      BY <1>0, <2>1 DEF WalkInv, PreorderIsTree
    <3> QED  BY <1>1, <3>1, <3>2
  <2> HIDE DEF c
  <2>3. /\ predecessors[c] \in Seq(Blocks)
        /\ \A i \in 1 .. Len(predecessors[c]) :
             predecessors[c][i] \in Known /\ GoesDown(preorder_num, parent, predecessors[c][i], c)
    BY <2>2 DEF EdgesInv, EdgesOf
  <2>4. \A x \in Known : preorder_num[x] \in Numbers
    BY <1>0, <1>1 DEF Known, is_marked
  <2>5. \A i \in 1 .. Len(predecessors[c]) :
          /\ preorder_num[predecessors[c][i]] \in Numbers
          /\ preorder_num[predecessors[c][i]] < b => Below(parent, preorder_num[predecessors[c][i]], b)
    BY <2>2, <2>3, <2>4 DEF GoesDown
  <2> QED  BY <2>2, <2>3, <2>5 DEF c
<1>4. PredsOK
  <2>1. ASSUME NEW b \in Numbers PROVE PredNumbers(b) \in Seq(Numbers)
    <3> DEFINE s == predecessors[preorder[b + 1]]
    <3>1. s \in Seq(Blocks) /\ \A i \in 1 .. Len(s) : preorder_num[s[i]] \in Numbers
      BY <1>3
    <3>2. PredNumbers(b) = [i \in DOMAIN s |-> preorder_num[s[i]]]
      BY DEF PredNumbers
    <3> HIDE DEF s
    <3>3. DOMAIN s = 1 .. Len(s) /\ Len(s) \in Nat
      BY <3>1
    <3> QED  BY <3>1, <3>2, <3>3, IsASeq
  <2> QED  BY <2>1 DEF PredsOK
<1>5. EdgesDown
  <2>1. ASSUME NEW p \in Numbers, NEW b \in Numbers, Edge(p, b), p < b PROVE Below(parent, p, b)
    <3> DEFINE s == predecessors[preorder[b + 1]]
    <3>1. s \in Seq(Blocks)
      BY <1>3
    <3>2. PICK i \in DOMAIN s : p = preorder_num[s[i]]
      BY <2>1 DEF Edge, Range, PredNumbers
    <3>3. i \in 1 .. Len(s)
      BY <3>1, <3>2
    <3> QED  BY <1>3, <2>1, <3>2, <3>3
  <2> QED  BY <2>1 DEF EdgesDown
<1> QED  BY <1>2, <1>4, <1>5
-----------------------------------------------------------------------------
DomTypes ==
  /\ pass \in 0 .. 3
  /\ pass = 0 => phase = "discover"
  /\ pass > 0 =>
       /\ phase # "discover" /\ preorder # <<>>
       /\ semi \in [Numbers -> Nat]
       /\ dominator \in [Numbers -> Numbers \cup {Nobody}]
       /\ dominance \in [Numbers -> SUBSET Numbers]
  /\ pass \in {1, 2} => phase = "dominators"
  /\ pass = 1 => block_index \in 0 .. Size - 1
  /\ pass = 2 => block_index \in 1 .. Size
  /\ phase = "dominators" /\ pass = 3 => block_index \in 0 .. Size

\* The dominators of the blocks before b are found.
Found(s0, b) == \A x \in Numbers : x # 0 /\ x < b => dominator[x] \in 0 .. x - 1 /\ Cut(s0, x, dominator[x])

PassInv(s0) ==
  /\ pass = 1 => /\ Relaxed(s0, block_index, [semi |-> semi, up |-> up])
                 /\ Bounds(s0, block_index) /\ Idoms(s0, 1)
  /\ pass = 2 => /\ \A x \in Numbers : semi[x] <= s0[x]
                 /\ Bounds(s0, 0) /\ Idoms(s0, block_index) /\ Found(s0, block_index)
  /\ pass = 3 => Bounds(s0, 0) /\ Found(s0, Size)

\* A block before b is in the list of its dominator, once, and in no other.
Lists(b) ==
  /\ dominated \in [Numbers -> Seq(Numbers)]
  /\ \A d \in Numbers : \A i \in 1 .. Len(dominated[d]) :
       /\ dominated[d][i] # 0 /\ dominated[d][i] < b /\ dominator[dominated[d][i]] = d
       /\ \A j \in 1 .. Len(dominated[d]) : i < j => dominated[d][i] < dominated[d][j]
  /\ \A x \in Numbers : x # 0 /\ x < b =>
       \E i \in 1 .. Len(dominated[dominator[x]]) : dominated[dominator[x]][i] = x

ListsInv == /\ pass = 1 => Lists(1)
            /\ pass = 2 => Lists(block_index)
            /\ pass = 3 => Lists(Size)

DomInv == DomTypes /\ ListsInv /\ (pass > 0 => \E s0 \in [Numbers -> Nat] : PassInv(s0))

LEMMA DomStart == Init => DomInv
  BY DEF Init, BlocksInit, DominatorsInit, DomInv, DomTypes, ListsInv

\* What the operators say of the graph does not change.
LEMMA GraphKept ==
  ASSUME UNCHANGED blockVars
  PROVE  /\ Size' = Size /\ Numbers' = Numbers /\ parent' = parent /\ preorder' = preorder
         /\ \A s0, k : Bounds(s0, k)' = Bounds(s0, k)
         /\ \A s0, b, d : Cut(s0, b, d)' = Cut(s0, b, d)
         /\ \A s0, k, tree : Labels(s0, k, tree)' = Labels(s0, k, tree)
         /\ Tree' = Tree
<1>1. UNCHANGED <<parent, preorder, preorder_num, predecessors>>
  BY DEF blockVars, numbers, walk
<1>2. Size' = Size /\ Numbers' = Numbers
  BY <1>1 DEF Size, Numbers
<1>3. \A s0, k : Bounds(s0, k)' = Bounds(s0, k)
  BY <1>1, <1>2 DEF Bounds, Edge, PredNumbers, EdgeBound
<1>4. \A s0, b, d : Cut(s0, b, d)' = Cut(s0, b, d)
  BY <1>1, <1>2 DEF Cut
<1>5. \A s0, k, tree : Labels(s0, k, tree)' = Labels(s0, k, tree)
  BY <1>1, <1>2 DEF Labels
<1>6. Tree' = Tree
  BY <1>2 DEF Tree
<1> QED  BY <1>1, <1>2, <1>3, <1>4, <1>5, <1>6

LEMMA ComputeStarts ==
  ASSUME WalkInv, CountInv, ParentsOK, DomInv, compute_dominators
  PROVE  DomInv'
<1>1. /\ phase' = "dominators" /\ pass' = 1 /\ block_index' = Size - 1 /\ preorder # <<>>
      /\ idom' = [b \in Numbers |-> parent[b + 1]] /\ up' = idom'
      /\ semi' = [b \in Numbers |-> b]
      /\ dominator' = [b \in Numbers |-> Nobody]
      /\ dominated' = [b \in Numbers |-> <<>>]
      /\ dominance' = [b \in Numbers |-> {}]
      /\ UNCHANGED blockVars
  BY DEF compute_dominators, Discovered
<1>2. /\ Size' = Size /\ Numbers' = Numbers /\ parent' = parent /\ preorder' = preorder
      /\ Numbers = 0 .. Size - 1 /\ Size \in Nat \ {0} /\ Nobody = -1
  BY <1>1, GraphKept DEF Numbers, ParentsOK, Nobody
<1>3. /\ semi' \in [Numbers -> Nat] /\ dominator' \in [Numbers -> Numbers \cup {Nobody}]
      /\ dominance' \in [Numbers -> SUBSET Numbers]
  BY <1>1, <1>2
<1>4. DomTypes'
  BY <1>1, <1>2, <1>3 DEF DomTypes
<1>5. Lists(1)'
  <2>1. dominated' \in [Numbers -> Seq(Numbers)] /\ \A d \in Numbers : Len(dominated'[d]) = 0
    BY <1>1
  <2>2. \A x \in Numbers : x # 0 => ~ (x < 1)
    BY <1>2
  <2> QED  BY <1>2, <2>1, <2>2 DEF Lists
<1>6. ListsInv'
  BY <1>1, <1>5 DEF ListsInv
<1> DEFINE s0 == [b \in Numbers |-> b]
<1>7. s0 \in [Numbers -> Nat] /\ \A b \in Numbers : s0[b] = b
  BY <1>2
<1> HIDE DEF s0
<1>8. PICK s1 \in [Numbers -> Nat] : \A b \in Numbers : s1[b] = b
  BY <1>7
<1>9. \A c \in Numbers : /\ parent[c + 1] \in Numbers \cup {Nobody} /\ parent[c + 1] < c
                         /\ parent[c + 1] \in Int
                         /\ c # 0 => parent[c + 1] \in 0 .. c - 1
  <2>1. \A c \in Numbers : parent[c + 1] \in Int /\ parent[c + 1] < c
    BY DEF ParentsOK
  <2>2. ASSUME NEW c \in Numbers, c # 0 PROVE parent[c + 1] \in 0 .. c - 1
    <3>1. c + 1 \in 1 .. Size /\ c + 1 > 1
      BY <1>2, <2>2
    <3> QED  BY <1>2, <3>1 DEF WalkInv, PreorderIsTree, Size
  <2>3. parent[1] = Nobody
    BY <1>1 DEF CountInv
  <2>4. ASSUME NEW c \in Numbers PROVE parent[c + 1] \in Numbers \cup {Nobody}
    <3>1. CASE c = 0
      BY <2>3, <3>1
    <3>2. CASE c # 0
      BY <1>2, <2>2, <3>2
    <3> QED  BY <3>1, <3>2
  <2> QED  BY <2>1, <2>2, <2>4
<1>10. PassInv(s1)'
  <2>1. [semi |-> semi', up |-> up'] \in Tree
    <3>1. up' \in [Numbers -> Numbers \cup {Nobody}]
      BY <1>1, <1>9
    <3> QED  BY <1>3, <3>1 DEF Tree
  <2>2. \A c \in Numbers :
          /\ up'[c] < c
          /\ \A w \in Numbers : up'[c] < w /\ Below(parent, w, c) => (w = c \/ w > Size - 1) /\ semi'[c] <= s1[w]
    <3>1. ASSUME NEW c \in Numbers, NEW w \in Numbers, up'[c] < w, Below(parent, w, c)
          PROVE  (w = c \/ w > Size - 1) /\ semi'[c] <= s1[w]
      <4>1. up'[c] = parent[c + 1] /\ semi'[c] = c
        BY <1>1
      <4>2. w = c
        <5>1. w <= c
          BY <3>1 DEF Below
        <5>2. CASE w < c
          <6>1. c \in w + 1 .. c
            BY <1>2, <5>2
          <6>2. parent[c + 1] >= w
            BY <3>1, <6>1 DEF Below
          <6> QED  BY <1>2, <1>9, <3>1, <4>1, <6>2
        <5> QED  BY <1>2, <5>1, <5>2
      <4> QED  BY <1>2, <1>8, <4>1, <4>2
    <3>2. \A c \in Numbers : up'[c] < c
      BY <1>1, <1>9
    <3> QED  BY <3>1, <3>2
  <2>3. Relaxed(s1, block_index, [semi |-> semi, up |-> up])'
    <3>1. \A x \in Numbers : semi'[x] = x
      BY <1>1
    <3>2. Tree' = Tree
      BY <1>1, GraphKept
    <3>3. Labels(s1, block_index, [semi |-> semi, up |-> up])'
      BY <1>1, <1>2, <2>2 DEF Labels
    <3> QED  BY <1>2, <2>1, <3>1, <3>2, <3>3 DEF Relaxed
  <2>4. Bounds(s1, block_index)'
    <3>1. \A q \in Numbers : ~ (q > Size - 1)
      BY <1>2
    <3> QED  BY <1>1, <1>2, <3>1 DEF Bounds
  <2>5. Idoms(s1, 1)'
    <3>1. \A x \in Numbers : x # 0 => ~ (x < 1)
      BY <1>2
    <3>2. idom' \in [Numbers -> Numbers \cup {Nobody}] /\ \A x \in Numbers : idom'[x] = parent[x + 1]
      BY <1>1, <1>9
    <3> QED  BY <1>2, <1>9, <3>1, <3>2 DEF Idoms
  <2> QED  BY <1>1, <2>3, <2>4, <2>5 DEF PassInv
<1> QED  BY <1>2, <1>4, <1>6, <1>10 DEF DomInv
-----------------------------------------------------------------------------
\* s1 is s0 but for b, which has been dealt with.
LEMMA OneMoreBound ==
  ASSUME ParentsOK, NEW s0 \in [Numbers -> Nat], NEW b \in Numbers, NEW tree, Relaxed(s0, b, tree),
         \A p \in Numbers : Edge(p, b) => EdgeBound(s0, tree.semi[b], b, p),
         Bounds(s0, b), NEW s1, s1 = [s0 EXCEPT ![b] = tree.semi[b]]
  PROVE  /\ s1 \in [Numbers -> Nat] /\ Relaxed(s1, b - 1, tree) /\ Bounds(s1, b - 1)
<1>0. Numbers = 0 .. Size - 1 /\ Size \in Nat \ {0}
  BY DEF Numbers, ParentsOK
<1>1. tree \in Tree /\ Labels(s0, b, tree) /\ \A x \in Numbers : x < b => tree.semi[x] = x
  BY DEF Relaxed
<1>2. \A x \in Numbers : tree.semi[x] \in Nat
  BY <1>1, TreeFields
<1>3. s1 \in [Numbers -> Nat] /\ s1[b] = tree.semi[b] /\ \A x \in Numbers : x # b => s1[x] = s0[x]
  BY <1>2
<1>4. Labels(s1, b - 1, tree)
  <2>1. ASSUME NEW c \in Numbers, NEW w \in Numbers, tree.up[c] < w, Below(parent, w, c)
        PROVE  (w = c \/ w > b - 1) /\ tree.semi[c] <= s1[w]
    <3>1. (w = c \/ w > b) /\ tree.semi[c] <= s0[w]
      BY <1>1, <2>1 DEF Labels
    <3>2. CASE w = b
      <4>1. w = c
        BY <1>0, <3>1, <3>2
      <4> QED  BY <1>2, <1>3, <3>2, <4>1
    <3>3. CASE w # b
      BY <1>0, <1>3, <3>1, <3>3
    <3> QED  BY <3>2, <3>3
  <2>2. \A c \in Numbers : tree.up[c] < c
    BY <1>1 DEF Labels
  <2> QED  BY <2>1, <2>2 DEF Labels
<1>5. Relaxed(s1, b - 1, tree)
  <2>1. \A x \in Numbers : x < b - 1 => x < b
    BY <1>0
  <2> QED  BY <1>1, <1>4, <2>1 DEF Relaxed
<1>6. Bounds(s1, b - 1)
  <2>1. ASSUME NEW q \in Numbers, q > b - 1, NEW p \in Numbers, Edge(p, q) PROVE EdgeBound(s1, s1[q], q, p)
    <3>1. \A w \in Numbers : w > q => s1[w] = s0[w]
      BY <1>0, <1>3, <2>1
    <3>2. EdgeBound(s0, s1[q], q, p)
      <4>1. CASE q = b
        BY <1>3, <2>1, <4>1
      <4>2. CASE q # b
        <5>1. q > b
          BY <1>0, <2>1, <4>2
        <5>2. EdgeBound(s0, s0[q], q, p)
          BY <2>1, <5>1 DEF Bounds
        <5> QED  BY <1>3, <4>2, <5>2
      <4> QED  BY <4>1, <4>2
    <3> QED  BY <3>1, <3>2 DEF EdgeBound
  <2> QED  BY <2>1 DEF Bounds
<1> QED  BY <1>3, <1>5, <1>6

\* From here on: one step of compute_dominators when the walk left a graph.
LEMMA SemidominatorStep ==
  ASSUME ParentsOK, PredsOK, DomInv, semidominator
  PROVE  DomInv'
<1>1. /\ phase = "dominators" /\ pass = 1 /\ block_index >= 1
      /\ semi' = RelaxAll(block_index).semi /\ up' = RelaxAll(block_index).up
      /\ block_index' = block_index - 1
      /\ UNCHANGED <<blockVars, phase, pass, idom, dominator, dominated, dominance>>
  BY DEF semidominator, Looping
<1>2. /\ Size' = Size /\ Numbers' = Numbers /\ parent' = parent /\ preorder' = preorder
      /\ Numbers = 0 .. Size - 1 /\ Size \in Nat \ {0}
  BY <1>1, GraphKept DEF Numbers, ParentsOK
<1>3. block_index \in Numbers /\ block_index \in 0 .. Size - 1 /\ DomTypes /\ ListsInv
  BY <1>1, <1>2 DEF DomInv, DomTypes
<1>4. PICK s0 \in [Numbers -> Nat] : PassInv(s0)
  BY <1>1 DEF DomInv
<1>5. PICK b \in Numbers : b = block_index
  BY <1>3
<1>6. Relaxed(s0, b, [semi |-> semi, up |-> up]) /\ Bounds(s0, b) /\ Idoms(s0, 1)
  BY <1>1, <1>4, <1>5 DEF PassInv
<1>7. /\ Relaxed(s0, b, RelaxAll(b))
      /\ \A p \in Numbers : Edge(p, b) => EdgeBound(s0, RelaxAll(b).semi[b], b, p)
  BY <1>6, AllRelaxed
<1>8. PICK tree : tree = RelaxAll(b)
  OBVIOUS
<1>9. /\ Relaxed(s0, b, tree)
      /\ \A p \in Numbers : Edge(p, b) => EdgeBound(s0, tree.semi[b], b, p)
  BY <1>7, <1>8
<1>10. PICK s1 : s1 = [s0 EXCEPT ![b] = tree.semi[b]]
  OBVIOUS
<1>11. s1 \in [Numbers -> Nat] /\ Relaxed(s1, b - 1, tree) /\ Bounds(s1, b - 1)
  BY <1>6, <1>9, <1>10, OneMoreBound
<1>12. tree \in Tree /\ tree = [semi |-> tree.semi, up |-> tree.up] /\ tree.semi \in [Numbers -> Nat]
  BY <1>11, TreeFields DEF Relaxed
<1>13. semi' = tree.semi /\ up' = tree.up /\ block_index' = b - 1
  BY <1>1, <1>5, <1>8
<1>14. DomTypes'
  <2>1. block_index' \in 0 .. Size - 1
    BY <1>1, <1>2, <1>3
  <2> QED  BY <1>1, <1>2, <1>3, <1>12, <1>13, <2>1 DEF DomTypes
<1>15. ListsInv'
  BY <1>1, <1>2, <1>3 DEF ListsInv, Lists
<1>16. Idoms(s1, 1)'
  <2>1. \A x \in Numbers : x # 0 => ~ (x < 1)
    BY <1>2
  <2> QED  BY <1>1, <1>2, <1>6, <2>1 DEF Idoms
<1>17. Relaxed(s1, block_index, [semi |-> semi, up |-> up])'
  <2>1. PICK k : k = b - 1
    OBVIOUS
  <2>2. Relaxed(s1, k, tree)
    BY <1>11, <2>1
  <2>3. Relaxed(s1, k, tree)'
    <3>1. Tree' = Tree /\ Labels(s1, k, tree)' = Labels(s1, k, tree)
      BY <1>1, GraphKept
    <3> QED  BY <1>2, <2>2, <3>1 DEF Relaxed
  <2>4. block_index' = k /\ [semi |-> semi', up |-> up'] = tree
    BY <1>12, <1>13, <2>1
  <2> QED  BY <2>3, <2>4 DEF Relaxed, Labels
<1>18. Bounds(s1, block_index)'
  <2>1. PICK k : k = b - 1
    OBVIOUS
  <2>2. Bounds(s1, k)'
    BY <1>1, <1>11, <2>1, GraphKept
  <2> QED  BY <1>13, <2>1, <2>2 DEF Bounds
<1>19. PassInv(s1)'
  BY <1>1, <1>16, <1>17, <1>18 DEF PassInv
<1> QED  BY <1>2, <1>11, <1>14, <1>15, <1>19 DEF DomInv

LEMMA SemidominatorsDoneStep ==
  ASSUME ParentsOK, DomInv, semidominators_done
  PROVE  DomInv'
<1>1. /\ phase = "dominators" /\ pass = 1 /\ block_index < 1 /\ pass' = 2 /\ block_index' = 1
      /\ UNCHANGED <<blockVars, phase, idom, semi, up, dominator, dominated, dominance>>
  BY DEF semidominators_done, Looping
<1>2. /\ Size' = Size /\ Numbers' = Numbers /\ parent' = parent /\ preorder' = preorder
      /\ Numbers = 0 .. Size - 1 /\ Size \in Nat \ {0}
  BY <1>1, GraphKept DEF Numbers, ParentsOK
<1>3. block_index = 0 /\ DomTypes /\ Lists(1)
  BY <1>1, <1>2 DEF DomInv, DomTypes, ListsInv
<1>4. PICK s0 \in [Numbers -> Nat] : PassInv(s0)
  BY <1>1 DEF DomInv
<1>5. Relaxed(s0, 0, [semi |-> semi, up |-> up]) /\ Bounds(s0, 0) /\ Idoms(s0, 1)
  BY <1>1, <1>3, <1>4 DEF PassInv
<1>6. DomTypes'
  BY <1>1, <1>2, <1>3 DEF DomTypes
<1>7. ListsInv'
  <2>1. Lists(1)'
    BY <1>1, <1>2, <1>3 DEF Lists
  <2> QED  BY <1>1, <2>1 DEF ListsInv, Lists
<1>8. \A x \in Numbers : semi[x] <= s0[x]
  <2>1. ASSUME NEW x \in Numbers PROVE semi[x] <= s0[x]
    <3>1. Below(parent, x, x)
      BY <1>2 DEF Below
    <3>2. up[x] < x /\ \A w \in Numbers : up[x] < w /\ Below(parent, w, x) => semi[x] <= s0[w]
      BY <1>5 DEF Relaxed, Labels
    <3> QED  BY <3>1, <3>2
  <2> QED  BY <2>1
<1>9. Bounds(s0, 0)' /\ Idoms(s0, 1)' /\ Found(s0, 1)'
  <2>1. Bounds(s0, 0)'
    BY <1>1, <1>5, GraphKept
  <2>2. \A x \in Numbers : x # 0 => ~ (x < 1)
    BY <1>2
  <2>3. Idoms(s0, 1)'
    BY <1>1, <1>2, <1>5, <2>2 DEF Idoms
  <2>4. Found(s0, 1)'
    BY <1>2, <2>2 DEF Found
  <2> QED  BY <2>1, <2>3, <2>4
<1>10. PassInv(s0)'
  <2>1. Idoms(s0, block_index)' /\ Found(s0, block_index)'
    BY <1>1, <1>9 DEF Idoms, Found
  <2> QED  BY <1>1, <1>2, <1>8, <1>9, <2>1 DEF PassInv
<1> QED  BY <1>2, <1>6, <1>7, <1>10 DEF DomInv

LEMMA DominatedStep ==
  ASSUME ParentsOK, DomInv, block_add_dominated
  PROVE  DomInv'
<1>1. /\ phase = "dominators" /\ pass = 2 /\ block_index < Size
      /\ idom' = [idom EXCEPT ![block_index] = Climb(block_index)]
      /\ dominator' = [dominator EXCEPT ![block_index] = Climb(block_index)]
      /\ dominated' = [dominated EXCEPT ![Climb(block_index)] = Append(dominated[Climb(block_index)], block_index)]
      /\ block_index' = block_index + 1
      /\ UNCHANGED <<blockVars, phase, pass, semi, up, dominance>>
  <2>1. LET dom_index == Climb(block_index)
        IN  /\ idom' = [idom EXCEPT ![block_index] = dom_index]
            /\ dominator' = [dominator EXCEPT ![block_index] = dom_index]
            /\ dominated' = [dominated EXCEPT ![dom_index] = Append(@, block_index)]
    BY DEF block_add_dominated
  <2> QED  BY <2>1 DEF block_add_dominated, Looping
<1>2. /\ Size' = Size /\ Numbers' = Numbers /\ parent' = parent /\ preorder' = preorder
      /\ Numbers = 0 .. Size - 1 /\ Size \in Nat \ {0} /\ Nobody = -1
  BY <1>1, GraphKept DEF Numbers, ParentsOK, Nobody
<1>3. block_index \in 1 .. Size - 1 /\ DomTypes /\ Lists(block_index)
  BY <1>1, <1>2 DEF DomInv, DomTypes, ListsInv
<1>4. PICK s0 \in [Numbers -> Nat] : PassInv(s0)
  BY <1>1 DEF DomInv
<1>5. PICK b \in Numbers : b = block_index
  BY <1>2, <1>3
<1>6. PICK d : d = Climb(b)
  OBVIOUS
<1>7. /\ semi \in [Numbers -> Nat] /\ dominator \in [Numbers -> Numbers \cup {Nobody}]
      /\ dominance \in [Numbers -> SUBSET Numbers]
  BY <1>1, <1>3 DEF DomTypes
<1>8. /\ \A x \in Numbers : semi[x] <= s0[x]
      /\ Bounds(s0, 0) /\ Idoms(s0, b) /\ Found(s0, b) /\ Lists(b) /\ b # 0 /\ b \in 1 .. Size - 1
  <2>1. b # 0 /\ b \in 1 .. Size - 1
    BY <1>3, <1>5
  <2> QED  BY <1>1, <1>3, <1>4, <1>5, <2>1 DEF PassInv
<1>9. d \in 0 .. b - 1 /\ Cut(s0, b, d) /\ d \in Numbers
  <2>1. Climb(b) \in 0 .. b - 1 /\ Cut(s0, b, Climb(b))
    BY <1>7, <1>8, Climbed
  <2> QED  BY <1>2, <1>6, <1>8, <2>1
<1>10. /\ idom' = [idom EXCEPT ![b] = d] /\ dominator' = [dominator EXCEPT ![b] = d]
       /\ dominated' = [dominated EXCEPT ![d] = Append(dominated[d], b)] /\ block_index' = b + 1
  BY <1>1, <1>5, <1>6
<1>11. /\ idom \in [Numbers -> Numbers \cup {Nobody}] /\ \A x \in Numbers : x # 0 => idom[x] \in 0 .. x - 1
       /\ \A x \in Numbers : x >= b => idom[x] = parent[x + 1]
       /\ \A x \in Numbers : x # 0 /\ x < b => Cut(s0, x, idom[x])
  BY <1>8 DEF Idoms
<1>12. /\ idom' \in [Numbers -> Numbers \cup {Nobody}] /\ idom'[b] = d
       /\ \A x \in Numbers : x # b => idom'[x] = idom[x]
       /\ dominator' \in [Numbers -> Numbers \cup {Nobody}] /\ dominator'[b] = d
       /\ \A x \in Numbers : x # b => dominator'[x] = dominator[x]
  BY <1>7, <1>9, <1>10, <1>11
<1>13. DomTypes'
  <2>1. block_index' \in 1 .. Size
    BY <1>2, <1>8, <1>10
  <2> QED  BY <1>1, <1>2, <1>3, <1>7, <1>12, <2>1, SMTT(60) DEF DomTypes
<1>14. \A x \in Numbers : x < b + 1 => x = b \/ x < b
  BY <1>2
<1>15. Lists(b + 1)'
  <2>1. /\ dominated \in [Numbers -> Seq(Numbers)]
        /\ \A c \in Numbers : \A i \in 1 .. Len(dominated[c]) :
             /\ dominated[c][i] # 0 /\ dominated[c][i] < b /\ dominator[dominated[c][i]] = c
             /\ dominated[c][i] \in Numbers
             /\ \A j \in 1 .. Len(dominated[c]) : i < j => dominated[c][i] < dominated[c][j]
        /\ \A x \in Numbers : x # 0 /\ x < b =>
             \E i \in 1 .. Len(dominated[dominator[x]]) : dominated[dominator[x]][i] = x
    <3>1. dominated \in [Numbers -> Seq(Numbers)]
      BY <1>8 DEF Lists
    <3>2. \A c \in Numbers : \A i \in 1 .. Len(dominated[c]) : dominated[c][i] \in Numbers
      BY <3>1, ElementOfSeq
    <3> QED  BY <1>8, <3>1, <3>2 DEF Lists
  <2> DEFINE n == Len(dominated[d])
  <2>2. /\ dominated' \in [Numbers -> Seq(Numbers)] /\ n \in Nat
        /\ Len(dominated'[d]) = n + 1 /\ dominated'[d][n + 1] = b
        /\ \A i \in 1 .. n : dominated'[d][i] = dominated[d][i]
        /\ \A c \in Numbers : c # d => dominated'[c] = dominated[c]
    <3>1. dominated[d] \in Seq(Numbers)
      BY <1>9, <2>1
    <3>2. /\ Append(dominated[d], b) \in Seq(Numbers) /\ Len(Append(dominated[d], b)) = n + 1 /\ n \in Nat
          /\ Append(dominated[d], b)[n + 1] = b
          /\ \A i \in 1 .. n : Append(dominated[d], b)[i] = dominated[d][i]
      BY <3>1, AppendProperties
    <3> HIDE DEF n
    <3> QED  BY <1>9, <1>10, <2>1, <3>2
  <2>3. \A c \in Numbers : \A i \in 1 .. Len(dominated'[c]) :
          \/ i \in 1 .. Len(dominated[c]) /\ dominated'[c][i] = dominated[c][i]
          \/ c = d /\ i = n + 1 /\ dominated'[c][i] = b
    <3>1. Len(dominated[d]) = n
      OBVIOUS
    <3> HIDE DEF n
    <3>2. \A i \in 1 .. Len(dominated'[d]) :
            (i \in 1 .. n /\ dominated'[d][i] = dominated[d][i]) \/ (i = n + 1 /\ dominated'[d][i] = b)
      BY <2>2
    <3> QED  BY <2>2, <3>1, <3>2
  <2> HIDE DEF n
  <2>4. ASSUME NEW c \in Numbers, NEW i \in 1 .. Len(dominated'[c])
        PROVE  /\ dominated'[c][i] # 0 /\ dominated'[c][i] < b + 1 /\ dominator'[dominated'[c][i]] = c
               /\ \A j \in 1 .. Len(dominated'[c]) : i < j => dominated'[c][i] < dominated'[c][j]
    <3>1. CASE i \in 1 .. Len(dominated[c]) /\ dominated'[c][i] = dominated[c][i]
      <4>1. dominated'[c][i] # 0 /\ dominated'[c][i] < b /\ dominated'[c][i] \in Numbers
        BY <2>1, <3>1
      <4>2. dominator'[dominated'[c][i]] = c
        <5>1. dominator[dominated[c][i]] = c /\ dominated'[c][i] # b
          BY <1>2, <2>1, <3>1, <4>1, SMTT(60)
        <5> QED  BY <1>12, <3>1, <4>1, <5>1
      <4>3. ASSUME NEW j \in 1 .. Len(dominated'[c]), i < j PROVE dominated'[c][i] < dominated'[c][j]
        <5>1. CASE j \in 1 .. Len(dominated[c]) /\ dominated'[c][j] = dominated[c][j]
          BY <2>1, <3>1, <4>3, <5>1
        <5>2. CASE dominated'[c][j] = b
          BY <4>1, <5>2
        <5> QED  BY <2>3, <5>1, <5>2
      <4> QED  BY <1>2, <4>1, <4>2, <4>3
    <3>2. CASE c = d /\ i = n + 1 /\ dominated'[c][i] = b
      <4>1. \A j \in 1 .. Len(dominated'[c]) : ~ (i < j)
        BY <2>2, <3>2
      <4> QED  BY <1>2, <1>8, <1>12, <3>2, <4>1
    <3> QED  BY <2>3, <3>1, <3>2
  <2>5. ASSUME NEW x \in Numbers, x # 0, x < b + 1
        PROVE  \E i \in 1 .. Len(dominated'[dominator'[x]]) : dominated'[dominator'[x]][i] = x
    <3>1. CASE x = b
      BY <1>12, <2>2, <3>1
    <3>2. CASE x # b
      <4>1. x < b
        BY <1>14, <2>5, <3>2
      <4>2. PICK i \in 1 .. Len(dominated[dominator[x]]) : dominated[dominator[x]][i] = x
        BY <2>1, <2>5, <4>1
      <4>3. dominator[x] \in Numbers
        <5>1. dominator[x] \in 0 .. x - 1
          BY <1>8, <2>5, <4>1 DEF Found
        <5> QED  BY <1>2, <5>1
      <4>4. i \in 1 .. Len(dominated'[dominator[x]]) /\ dominated'[dominator[x]][i] = x
        <5>1. CASE dominator[x] = d
          <6>1. Len(dominated[d]) = n
            BY DEF n
          <6>2. i \in 1 .. n
            BY <4>2, <5>1, <6>1
          <6> QED  BY <2>2, <4>2, <5>1, <6>2, SMTT(60)
        <5>2. CASE dominator[x] # d
          BY <2>2, <4>2, <4>3, <5>2
        <5> QED  BY <5>1, <5>2
      <4> QED  BY <1>12, <3>2, <4>4
    <3> QED  BY <3>1, <3>2
  <2> QED  BY <1>2, <2>2, <2>4, <2>5 DEF Lists
<1>16. ListsInv'
  <2>1. pass' = 2 /\ block_index' = b + 1
    BY <1>1, <1>10
  <2>2. Lists(block_index)'
    BY <1>15, <2>1 DEF Lists
  <2> QED  BY <2>1, <2>2 DEF ListsInv
<1>17. Idoms(s0, b + 1)'
  <2>1. \A x \in Numbers : x # 0 => idom'[x] \in 0 .. x - 1
    BY <1>9, <1>11, <1>12
  <2>2. \A x \in Numbers : x >= b + 1 => idom'[x] = parent[x + 1]
    BY <1>2, <1>11, <1>12
  <2>3. ASSUME NEW x \in Numbers, x # 0, x < b + 1 PROVE Cut(s0, x, idom'[x])
    BY <1>9, <1>11, <1>12, <1>14, <2>3
  <2> QED  BY <1>2, <1>12, <2>1, <2>2, <2>3 DEF Idoms, Cut
<1>18. Found(s0, b + 1)'
  <2>1. ASSUME NEW x \in Numbers, x # 0, x < b + 1 PROVE dominator'[x] \in 0 .. x - 1 /\ Cut(s0, x, dominator'[x])
    <3>1. CASE x = b
      BY <1>9, <1>12, <3>1
    <3>2. CASE x # b
      BY <1>8, <1>12, <1>14, <2>1, <3>2 DEF Found
    <3> QED  BY <3>1, <3>2
  <2> QED  BY <1>2, <2>1 DEF Found, Cut
<1>19. PassInv(s0)'
  <2>1. Idoms(s0, block_index)' /\ Found(s0, block_index)'
    BY <1>10, <1>17, <1>18 DEF Idoms, Found
  <2>2. Bounds(s0, 0)'
    BY <1>1, <1>8, GraphKept
  <2> QED  BY <1>1, <1>2, <1>8, <2>1, <2>2 DEF PassInv
<1> QED  BY <1>2, <1>13, <1>16, <1>19 DEF DomInv
-----------------------------------------------------------------------------
\* A step that leaves the dominators as they are.
LEMMA PassKept ==
  ASSUME NEW s0, PassInv(s0), UNCHANGED <<blockVars, pass, idom, semi, up, dominator>>,
         pass \in {1, 2} => block_index' = block_index
  PROVE  PassInv(s0)'
<1>1. /\ Size' = Size /\ Numbers' = Numbers /\ parent' = parent
      /\ \A s1, k : Bounds(s1, k)' = Bounds(s1, k)
      /\ \A s1, b, d : Cut(s1, b, d)' = Cut(s1, b, d)
      /\ \A s1, k, tree : Labels(s1, k, tree)' = Labels(s1, k, tree)
      /\ Tree' = Tree
  BY GraphKept
<1>2. ASSUME pass = 1 PROVE Relaxed(s0, block_index, [semi |-> semi, up |-> up])' /\ Bounds(s0, block_index)' /\ Idoms(s0, 1)'
  <2>1. Relaxed(s0, block_index, [semi |-> semi, up |-> up]) /\ Bounds(s0, block_index) /\ Idoms(s0, 1) /\ block_index' = block_index
    BY <1>2 DEF PassInv
  <2>2. Relaxed(s0, block_index, [semi |-> semi, up |-> up])'
    BY <1>1, <2>1 DEF Relaxed, Labels
  <2>3. Bounds(s0, block_index)'
    <3>1. PICK k : k = block_index
      OBVIOUS
    <3>2. Bounds(s0, k)'
      BY <1>1, <2>1, <3>1
    <3> QED  BY <2>1, <3>1, <3>2 DEF Bounds
  <2>4. Idoms(s0, 1)'
    BY <1>1, <2>1 DEF Idoms
  <2> QED  BY <2>2, <2>3, <2>4
<1>3. ASSUME pass = 2
      PROVE  /\ \A x \in Numbers' : semi'[x] <= s0[x]
             /\ Bounds(s0, 0)' /\ Idoms(s0, block_index)' /\ Found(s0, block_index)'
  <2>1. /\ \A x \in Numbers : semi[x] <= s0[x]
        /\ Bounds(s0, 0) /\ Idoms(s0, block_index) /\ Found(s0, block_index) /\ block_index' = block_index
    BY <1>3 DEF PassInv
  <2>2. Idoms(s0, block_index)' /\ Found(s0, block_index)'
    BY <1>1, <2>1 DEF Idoms, Found
  <2> QED  BY <1>1, <2>1, <2>2
<1>4. ASSUME pass = 3 PROVE Bounds(s0, 0)' /\ Found(s0, Size)'
  <2>1. Bounds(s0, 0) /\ Found(s0, Size)
    BY <1>4 DEF PassInv
  <2> QED  BY <1>1, <2>1 DEF Found
<1> QED  BY <1>2, <1>3, <1>4 DEF PassInv

LEMMA ListsKept ==
  ASSUME ListsInv, UNCHANGED <<blockVars, pass, dominator, dominated>>,
         pass \in {1, 2} => block_index' = block_index
  PROVE  ListsInv'
<1>1. Size' = Size /\ Numbers' = Numbers
  BY GraphKept
<1>2. ASSUME NEW b, Lists(b) PROVE Lists(b)'
  BY <1>1, <1>2 DEF Lists
<1>3. ASSUME pass = 1 PROVE Lists(1)'
  <2>1. Lists(1)
    BY <1>3 DEF ListsInv
  <2> QED  BY <1>2, <2>1
<1>4. ASSUME pass = 2 PROVE Lists(block_index)'
  <2>1. PICK k : k = block_index
    OBVIOUS
  <2>2. Lists(k) /\ block_index' = k
    BY <1>4, <2>1 DEF ListsInv
  <2>3. Lists(k)'
    BY <1>2, <2>2
  <2> QED  BY <2>2, <2>3 DEF Lists
<1>5. ASSUME pass = 3 PROVE Lists(Size)'
  <2>1. Lists(Size)
    BY <1>5 DEF ListsInv
  <2> QED  BY <1>1, <2>1 DEF Lists
<1> QED  BY <1>3, <1>4, <1>5 DEF ListsInv

LEMMA DominatorsDoneStep ==
  ASSUME ParentsOK, DomInv, dominators_done
  PROVE  DomInv'
<1>1. /\ phase = "dominators" /\ pass = 2 /\ block_index = Size /\ pass' = 3 /\ block_index' = 0
      /\ UNCHANGED <<blockVars, phase, idom, semi, up, dominator, dominated, dominance>>
  BY DEF dominators_done, Looping
<1>2. /\ Size' = Size /\ Numbers' = Numbers /\ parent' = parent /\ preorder' = preorder
      /\ Size \in Nat \ {0}
  BY <1>1, GraphKept DEF ParentsOK
<1>3. PICK s0 \in [Numbers -> Nat] : PassInv(s0)
  BY <1>1 DEF DomInv
<1>4. Bounds(s0, 0) /\ Found(s0, Size) /\ Lists(Size) /\ DomTypes
  BY <1>1, <1>3 DEF PassInv, DomInv, ListsInv
<1>5. DomTypes'
  BY <1>1, <1>2, <1>4 DEF DomTypes
<1>6. ListsInv'
  BY <1>1, <1>2, <1>4 DEF ListsInv, Lists
<1>7. PassInv(s0)'
  <2>1. Bounds(s0, 0)'
    BY <1>1, <1>4, GraphKept
  <2>2. Found(s0, Size)'
    BY <1>1, <1>2, <1>4 DEF Found, Cut
  <2> QED  BY <1>1, <2>1, <2>2 DEF PassInv
<1> QED  BY <1>2, <1>5, <1>6, <1>7 DEF DomInv

LEMMA FrontierStep ==
  ASSUME ParentsOK, DomInv, frontier
  PROVE  DomInv'
<1>1. /\ phase = "dominators" /\ pass = 3 /\ block_index < Size /\ block_index' = block_index + 1
      /\ dominance' = [b \in Numbers |-> IF b \in Runners(block_index)
                                         THEN dominance[b] \cup {block_index} ELSE dominance[b]]
      /\ UNCHANGED <<blockVars, phase, pass, idom, semi, up, dominator, dominated>>
  BY DEF frontier, Looping
<1>2. /\ Size' = Size /\ Numbers' = Numbers /\ preorder' = preorder
      /\ Size \in Nat \ {0} /\ Numbers = 0 .. Size - 1
  BY <1>1, GraphKept DEF ParentsOK, Numbers
<1>3. PICK s0 \in [Numbers -> Nat] : PassInv(s0)
  BY <1>1 DEF DomInv
<1>4. DomTypes /\ ListsInv /\ ListsInv' /\ PassInv(s0)'
  BY <1>1, <1>3, PassKept, ListsKept DEF DomInv
<1>5. block_index \in 0 .. Size /\ dominance \in [Numbers -> SUBSET Numbers]
  BY <1>1, <1>4 DEF DomTypes
<1>6. block_index \in Numbers /\ block_index' \in 0 .. Size
  BY <1>1, <1>2, <1>5
<1>7. dominance' \in [Numbers -> SUBSET Numbers]
  <2>1. \A b \in Numbers : dominance[b] \cup {block_index} \in SUBSET Numbers /\ dominance[b] \in SUBSET Numbers
    BY <1>5, <1>6
  <2> QED  BY <1>1, <2>1
<1>8. DomTypes'
  BY <1>1, <1>2, <1>4, <1>6, <1>7 DEF DomTypes
<1> QED  BY <1>2, <1>4, <1>8 DEF DomInv

LEMMA RunnerLostStep ==
  ASSUME DomInv, runner_lost
  PROVE  DomInv'
<1>1. /\ pass = 3 /\ phase' = "undefined"
      /\ UNCHANGED <<blockVars, pass, block_index, idom, semi, up, dominator, dominated, dominance>>
  BY DEF runner_lost, Looping, dominatorVars
<1>2. Size' = Size /\ Numbers' = Numbers /\ preorder' = preorder
  BY <1>1, GraphKept
<1>3. PICK s0 \in [Numbers -> Nat] : PassInv(s0)
  BY <1>1 DEF DomInv
<1>4. DomTypes /\ ListsInv' /\ PassInv(s0)'
  BY <1>1, <1>3, PassKept, ListsKept DEF DomInv
<1>5. DomTypes'
  BY <1>1, <1>2, <1>4 DEF DomTypes
<1> QED  BY <1>2, <1>4, <1>5 DEF DomInv

\* The walk comes before, and liveness and renaming behind the dominators.
LEMMA DomOther ==
  ASSUME DomInv, [Next]_vars, ~DominatorPasses
  PROVE  DomInv'
<1>1. CASE Discovery
  <2>1. phase = "discover" /\ phase' = phase /\ pass' = pass
    BY <1>1 DEF Discovery, graph_discover_blocks, discover_entry, visit_marked, visit_new,
                leave_block, Visiting, dominatorVars
  <2>2. pass = 0
    BY <2>1 DEF DomInv, DomTypes
  <2> QED  BY <2>1, <2>2 DEF DomInv, DomTypes, ListsInv
<1>2. CASE Liveness \/ Rename
  <2>1. /\ UNCHANGED <<blockVars, pass, idom, semi, up, dominator, dominated, dominance>>
        /\ phase # "discover" /\ phase' \notin {"discover", "dominators"}
        /\ phase = "dominators" => pass = 3
    BY <1>2 DEF Liveness, liveness_analyze, compute_initial_sets, initial_sets_done,
                update_live_sets, place_unset, live_sets_passed, dominatorResults, dominatorVars,
                DominatorsDone, Looping, Rename, insert_phis, graph_rename_recursive, renamed
  <2>2. pass = 3
    BY <2>1 DEF DomInv, DomTypes
  <2>3. Size' = Size /\ Numbers' = Numbers /\ preorder' = preorder
    BY <2>1, GraphKept
  <2>4. PICK s0 \in [Numbers -> Nat] : PassInv(s0)
    BY <2>2 DEF DomInv
  <2>5. DomTypes /\ ListsInv' /\ PassInv(s0)'
    BY <2>1, <2>2, <2>4, PassKept, ListsKept DEF DomInv
  <2>6. DomTypes'
    BY <2>1, <2>2, <2>3, <2>5 DEF DomTypes
  <2> QED  BY <2>3, <2>5, <2>6 DEF DomInv
<1>3. CASE UNCHANGED vars
  <2>1. UNCHANGED <<blockVars, phase, pass, block_index, idom, semi, up, dominator, dominated, dominance>>
    BY <1>3 DEF vars, dominatorVars
  <2>2. Size' = Size /\ Numbers' = Numbers /\ preorder' = preorder
    BY <2>1, GraphKept
  <2>3. DomTypes' /\ ListsInv'
    <3>1. DomTypes'
      BY <2>1, <2>2 DEF DomInv, DomTypes
    <3> QED  BY <2>1, <3>1, ListsKept DEF DomInv
  <2>4. ASSUME pass > 0 PROVE \E s0 \in [Numbers -> Nat] : PassInv(s0)'
    <3>1. PICK s0 \in [Numbers -> Nat] : PassInv(s0)
      BY <2>4 DEF DomInv
    <3> QED  BY <2>1, <3>1, PassKept
  <2> QED  BY <2>1, <2>2, <2>3, <2>4 DEF DomInv
<1> QED  BY <1>1, <1>2, <1>3 DEF Next

\* The walk with the edges it recorded.
GraphInv == WalkInv /\ StackInv /\ EdgesInv /\ PathInv /\ CountInv

LEMMA GraphStart == Init => GraphInv
  BY WalkStart, WalkEdgesStart, CountStart DEF GraphInv

LEMMA GraphStep ==
  ASSUME GraphInv, [Next]_vars
  PROVE  GraphInv'
  BY WalkStep, EdgesStep, CountStep DEF GraphInv

LEMMA DomStep ==
  ASSUME GraphInv, DomInv, [Next]_vars
  PROVE  DomInv'
<1>1. CASE ~DominatorPasses
  BY <1>1, DomOther
<1>2. CASE DominatorPasses
  <2>1. preorder # <<>>
    <3>1. Discovered \/ pass > 0
      BY <1>2 DEF DominatorPasses, DominatorsNext, compute_dominators, semidominator,
                  semidominators_done, block_add_dominated, dominators_done, frontier, runner_lost, Looping
    <3> QED  BY <3>1 DEF Discovered, DomInv, DomTypes
  <2>2. ParentsOK /\ PredsOK
    BY <2>1, WalkLeft DEF GraphInv
  <2> QED  BY <1>2, <2>2, ComputeStarts, SemidominatorStep, SemidominatorsDoneStep, DominatedStep,
              DominatorsDoneStep, FrontierStep, RunnerLostStep
           DEF DominatorPasses, DominatorsNext, GraphInv
<1> QED  BY <1>1, <1>2

(* The invariant of the graph passes: what the walk recorded, the          *)
(* semidominators and the lists of dominated blocks.                       *)
THEOREM GraphInvariant == Spec => [](GraphInv /\ DomInv)
<1>1. Init => GraphInv /\ DomInv
  BY GraphStart, DomStart
<1>2. GraphInv /\ DomInv /\ [Next]_vars => GraphInv' /\ DomInv'
  BY GraphStep, DomStep
<1> QED  BY <1>1, <1>2, PTL DEF Spec

(* compute_dominators names a dominator for every block of every graph,    *)
(* although the semidominators it compares with may have been lowered      *)
(* behind their computation (flow_graph.c 67-123).                         *)
THEOREM DominatorsAreDominators == Spec => []DominatorsDominate
<1>1. GraphInv /\ DomInv => DominatorsDominate
  <2> SUFFICES ASSUME GraphInv, DomInv, Dominated, NEW b \in Numbers \ {0}
               PROVE  Strictly(dominator[b], b)
    BY DEF DominatorsDominate
  <2>1. pass = 3 /\ preorder # <<>>
    BY DEF Dominated, DomInv, DomTypes
  <2>2. ParentsOK /\ EdgesDown
    BY <2>1, WalkLeft DEF GraphInv
  <2>3. PICK s0 \in [Numbers -> Nat] : Bounds(s0, 0) /\ Found(s0, Size)
    BY <2>1 DEF DomInv, PassInv
  <2>4. Numbers = 0 .. Size - 1 /\ Size \in Nat
    BY <2>2 DEF Numbers, ParentsOK
  <2>5. dominator[b] \in 0 .. b - 1 /\ Cut(s0, b, dominator[b])
    BY <2>3, <2>4 DEF Found
  <2>6. dominator[b] \in Numbers /\ dominator[b] < b /\ b \in Numbers
    BY <2>4, <2>5
  <2> QED  BY <2>2, <2>3, <2>5, <2>6, CutDominates
<1> QED  BY <1>1, GraphInvariant, PTL
-----------------------------------------------------------------------------
\* The blocks that wait in todo: not renamed, their dominators are.
Waiting(dom, s, b) == s[b] = Nobody /\ (b = 0 \/ s[dom[b]] # Nobody)

TodoOK(N, dom, td, s) ==
  /\ td \in Seq(N)
  /\ \A i, j \in 1 .. Len(td) : i # j => td[i] # td[j]
  /\ \A i \in 1 .. Len(td) : Waiting(dom, s, td[i])
  /\ \A b \in N : Waiting(dom, s, b) => \E i \in 1 .. Len(td) : td[i] = b
  /\ \A b \in N : b # 0 /\ s[b] # Nobody => s[dom[b]] # Nobody

\* No index is taken twice, and none from c on; len are the lengths of the code.
TakenOK(N, len, s, c) ==
  /\ s \in [N -> Nat \cup {Nobody}] /\ c \in Nat
  /\ \A b \in N : s[b] # Nobody => s[b] + len[b] < c
  /\ \A a, b \in N : a # b /\ s[a] # Nobody /\ s[b] # Nobody =>
       s[a] + len[a] < s[b] \/ s[b] + len[b] < s[a]

\* The entry comes first; in the program's own graph the target is next.
EntryFirst(N, len, s, c) ==
  /\ s[0] = Nobody => c = 0 /\ \A b \in N : s[b] = Nobody
  /\ N = {0, 1} /\ s[0] # Nobody => IF s[1] = Nobody THEN c = 1 + len[0] ELSE s[1] = 1 + len[0]

\* What Lists says of one list.
ListOf(N, dom, b, list) ==
  /\ list \in Seq(N)
  /\ \A i \in 1 .. Len(list) : list[i] # 0 /\ dom[list[i]] = b
  /\ \A i, j \in 1 .. Len(list) : i # j => list[i] # list[j]
  /\ \A x \in N : x # 0 /\ dom[x] = b => \E i \in 1 .. Len(list) : list[i] = x

LEMMA TodoStep ==
  ASSUME NEW N, 0 \in N, NEW dom \in [N -> N \cup {Nobody}], NEW s \in [N -> Nat \cup {Nobody}],
         NEW td, TodoOK(N, dom, td, s), td # <<>>,
         NEW list, ListOf(N, dom, Head(td), list), NEW c \in Nat, Nobody \notin N,
         \A x \in N : x # 0 => dom[x] \in N /\ dom[x] # x
  PROVE  TodoOK(N, dom, list \o Tail(td), [s EXCEPT ![Head(td)] = c])
<1> DEFINE b == Head(td)
           n == Len(td)
           m == Len(list)
           new == list \o Tail(td)
           t == [s EXCEPT ![Head(td)] = c]
<1>1. /\ td \in Seq(N)
      /\ \A i, j \in 1 .. Len(td) : i # j => td[i] # td[j]
      /\ \A i \in 1 .. Len(td) : Waiting(dom, s, td[i])
      /\ \A x \in N : Waiting(dom, s, x) => \E i \in 1 .. Len(td) : td[i] = x
      /\ \A x \in N : x # 0 /\ s[x] # Nobody => s[dom[x]] # Nobody
  BY DEF TodoOK
<1>2. /\ n \in Nat \ {0} /\ b = td[1] /\ b \in N
      /\ Tail(td) \in Seq(N) /\ Len(Tail(td)) = n - 1 /\ \A i \in 1 .. n - 1 : Tail(td)[i] = td[i + 1]
  <2>1. n \in Nat \ {0} /\ td[1] \in N /\ b = td[1]
    BY <1>1, EmptySeq, ElementOfSeq, HeadTailProperties
  <2> QED  BY <1>1, <2>1, HeadTailProperties
<1>3. /\ list \in Seq(N) /\ m \in Nat
      /\ \A i \in 1 .. m : list[i] # 0 /\ dom[list[i]] = b /\ list[i] \in N
      /\ \A i, j \in 1 .. m : i # j => list[i] # list[j]
      /\ \A x \in N : x # 0 /\ dom[x] = b => \E i \in 1 .. m : list[i] = x
  BY ElementOfSeq DEF ListOf
<1>4. /\ new \in Seq(N) /\ Len(new) = m + n - 1
      /\ \A i \in 1 .. m + n - 1 : new[i] = IF i <= m THEN list[i] ELSE td[i - m + 1]
  <2>1. /\ new \in Seq(N) /\ Len(new) = m + Len(Tail(td))
        /\ \A i \in 1 .. m + Len(Tail(td)) : new[i] = IF i <= m THEN list[i] ELSE Tail(td)[i - m]
    BY <1>2, <1>3, ConcatProperties
  <2>2. m + Len(Tail(td)) = m + n - 1
    BY <1>2, <1>3
  <2> HIDE DEF new, n, m
  <2>3. \A i \in 1 .. m + n - 1 : i > m => i - m \in 1 .. n - 1 /\ i - m + 1 = (i - m) + 1
    BY <1>2, <1>3
  <2> QED  BY <1>2, <1>3, <2>1, <2>2, <2>3
<1>5. /\ t[b] = c /\ c # Nobody /\ \A x \in N : x # b => t[x] = s[x]
  BY <1>2 DEF Nobody
<1>6. Waiting(dom, s, b) /\ s[b] = Nobody
  BY <1>1, <1>2 DEF Waiting
<1> HIDE DEF b, n, m, new, t
<1>7. \A i \in 1 .. Len(new) : \/ i \in 1 .. m /\ new[i] = list[i]
                               \/ i > m /\ i - m + 1 \in 2 .. n /\ new[i] = td[i - m + 1]
  BY <1>2, <1>3, <1>4
\* The list's blocks did not wait before, and were not renamed.
<1>8. \A i \in 1 .. m : s[list[i]] = Nobody /\ list[i] # b /\ \A j \in 1 .. n : td[j] # list[i]
  <2> SUFFICES ASSUME NEW i \in 1 .. m PROVE s[list[i]] = Nobody /\ list[i] # b /\ \A j \in 1 .. n : td[j] # list[i]
    OBVIOUS
  <2>1. list[i] # 0 /\ dom[list[i]] = b /\ list[i] \in N
    BY <1>3
  <2>2. s[list[i]] = Nobody
    BY <1>1, <1>6, <2>1
  <2>3. ~ Waiting(dom, s, list[i])
    BY <1>6, <2>1 DEF Waiting
  <2> QED  BY <1>1, <1>6, <2>1, <2>2, <2>3 DEF n
<1>9. \A j \in 2 .. n : td[j] # b /\ td[j] \in N /\ Waiting(dom, s, td[j])
  <2>1. \A j \in 2 .. n : j \in 1 .. Len(td) /\ j # 1 /\ 1 \in 1 .. Len(td)
    BY <1>2 DEF n
  <2> QED  BY <1>1, <1>2, <2>1, ElementOfSeq
<1>10. ASSUME NEW i \in 1 .. Len(new), NEW j \in 1 .. Len(new), i # j PROVE new[i] # new[j]
  <2>1. CASE i \in 1 .. m /\ new[i] = list[i]
    <3>1. CASE j \in 1 .. m /\ new[j] = list[j]
      BY <1>3, <1>10, <2>1, <3>1
    <3>2. CASE j > m /\ j - m + 1 \in 2 .. n /\ new[j] = td[j - m + 1]
      <4>1. j - m + 1 \in 1 .. n
        BY <3>2
      <4> QED  BY <1>8, <2>1, <3>2, <4>1
    <3> QED  BY <1>7, <3>1, <3>2
  <2>2. CASE i > m /\ i - m + 1 \in 2 .. n /\ new[i] = td[i - m + 1]
    <3>0. i - m + 1 \in 1 .. n
      BY <2>2
    <3>1. CASE j \in 1 .. m /\ new[j] = list[j]
      BY <1>8, <2>2, <3>0, <3>1
    <3>2. CASE j > m /\ j - m + 1 \in 2 .. n /\ new[j] = td[j - m + 1]
      <4>1. j - m + 1 \in 1 .. n /\ i - m + 1 # j - m + 1
        BY <1>3, <1>10, <3>2
      <4> QED  BY <1>1, <2>2, <3>0, <3>2, <4>1 DEF n
    <3> QED  BY <1>7, <3>1, <3>2
  <2> QED  BY <1>7, <2>1, <2>2
<1>11. ASSUME NEW i \in 1 .. Len(new) PROVE Waiting(dom, t, new[i])
  <2>1. CASE i \in 1 .. m /\ new[i] = list[i]
    <3>1. s[list[i]] = Nobody /\ list[i] # b /\ dom[list[i]] = b /\ list[i] \in N
      BY <1>3, <1>8, <2>1
    <3> QED  BY <1>5, <2>1, <3>1 DEF Waiting
  <2>2. CASE i > m /\ i - m + 1 \in 2 .. n /\ new[i] = td[i - m + 1]
    <3>1. PICK x \in N : x = new[i] /\ x # b /\ Waiting(dom, s, x)
      BY <1>9, <2>2
    <3>2. t[x] = Nobody /\ (x = 0 \/ (dom[x] \in N /\ s[dom[x]] # Nobody))
      BY <1>5, <3>1 DEF Waiting
    <3> QED  BY <1>5, <3>1, <3>2 DEF Waiting
  <2> QED  BY <1>7, <2>1, <2>2
<1>12. ASSUME NEW x \in N, Waiting(dom, t, x) PROVE \E i \in 1 .. Len(new) : new[i] = x
  <2>1. x # b /\ s[x] = Nobody
    BY <1>5, <1>12 DEF Waiting
  <2>2. CASE x # 0 /\ dom[x] = b
    <3>1. PICK i \in 1 .. m : list[i] = x
      BY <1>3, <2>2
    <3>2. i \in 1 .. Len(new) /\ new[i] = x
      BY <1>2, <1>3, <1>4, <3>1
    <3> QED  BY <3>2
  <2>3. CASE x = 0 \/ dom[x] # b
    <3>1. Waiting(dom, s, x)
      BY <1>5, <1>12, <2>1, <2>3 DEF Waiting
    <3>2. PICK j \in 1 .. n : td[j] = x
      BY <1>1, <3>1 DEF n
    <3>3. j # 1
      BY <1>2, <2>1, <3>2
    <3>4. j + m - 1 \in 1 .. Len(new) /\ j + m - 1 > m /\ (j + m - 1) - m + 1 = j
      BY <1>2, <1>3, <1>4, <3>3
    <3>5. new[j + m - 1] = x
      BY <1>2, <1>3, <1>4, <3>2, <3>4
    <3> QED  BY <3>4, <3>5
  <2> QED  BY <2>2, <2>3
<1>13. ASSUME NEW x \in N, x # 0, t[x] # Nobody PROVE t[dom[x]] # Nobody
  <2>1. CASE x = b
    <3>1. s[dom[b]] # Nobody /\ dom[b] \in N
      BY <1>6, <1>13, <2>1 DEF Waiting
    <3> QED  BY <1>5, <2>1, <3>1
  <2>2. CASE x # b
    <3>1. s[dom[x]] # Nobody /\ dom[x] \in N
      BY <1>1, <1>5, <1>13, <2>2
    <3> QED  BY <1>5, <3>1
  <2> QED  BY <2>1, <2>2
<1>14. TodoOK(N, dom, new, t)
  BY <1>4, <1>10, <1>11, <1>12, <1>13 DEF TodoOK
<1> QED  BY <1>14 DEF new, t

LEMMA TakenStep ==
  ASSUME NEW N, NEW len \in [N -> Nat], NEW s, NEW c, NEW b \in N, TakenOK(N, len, s, c), s[b] = Nobody
  PROVE  TakenOK(N, len, [s EXCEPT ![b] = c], c + 1 + len[b])
<1> DEFINE t == [s EXCEPT ![b] = c]
           l == len[b]
<1>1. /\ s \in [N -> Nat \cup {Nobody}] /\ c \in Nat /\ l \in Nat
      /\ \A x \in N : s[x] # Nobody => s[x] + len[x] < c
      /\ \A x, y \in N : x # y /\ s[x] # Nobody /\ s[y] # Nobody =>
           s[x] + len[x] < s[y] \/ s[y] + len[y] < s[x]
  BY DEF TakenOK
<1>2. t \in [N -> Nat \cup {Nobody}] /\ t[b] = c /\ \A x \in N : x # b => t[x] = s[x]
  BY <1>1
<1>3. len[b] = l
  OBVIOUS
<1> HIDE DEF t, l
<1>4. ASSUME NEW x \in N, t[x] # Nobody PROVE t[x] + len[x] < c + 1 + l
  <2>1. CASE x = b
    BY <1>1, <1>2, <1>3, <2>1
  <2>2. CASE x # b
    <3>1. s[x] + len[x] < c /\ t[x] = s[x] /\ s[x] \in Nat /\ len[x] \in Nat
      BY <1>1, <1>2, <1>4, <2>2
    <3> QED  BY <1>1, <3>1
  <2> QED  BY <2>1, <2>2
<1>5. ASSUME NEW x \in N, NEW y \in N, x # y, t[x] # Nobody, t[y] # Nobody
      PROVE  t[x] + len[x] < t[y] \/ t[y] + len[y] < t[x]
  <2>1. CASE x = b
    <3>1. s[y] + len[y] < c /\ t[y] = s[y]
      BY <1>1, <1>2, <1>5, <2>1
    <3> QED  BY <1>2, <2>1, <3>1
  <2>2. CASE y = b
    <3>1. s[x] + len[x] < c /\ t[x] = s[x]
      BY <1>1, <1>2, <1>5, <2>2
    <3> QED  BY <1>2, <2>2, <3>1
  <2>3. CASE x # b /\ y # b
    BY <1>1, <1>2, <1>5, <2>3
  <2> QED  BY <2>1, <2>2, <2>3
<1>6. c + 1 + l \in Nat
  BY <1>1
<1>7. TakenOK(N, len, t, c + 1 + l)
  BY <1>2, <1>4, <1>5, <1>6 DEF TakenOK
<1> QED  BY <1>7 DEF t, l

LEMMA FirstStep ==
  ASSUME NEW N, 0 \in N, NEW len \in [N -> Nat], NEW dom, NEW s \in [N -> Nat \cup {Nobody}], NEW c \in Nat, NEW b \in N,
         EntryFirst(N, len, s, c), Waiting(dom, s, b), b # 0 => dom[b] \in N
  PROVE  EntryFirst(N, len, [s EXCEPT ![b] = c], c + 1 + len[b])
<1> DEFINE t == [s EXCEPT ![b] = c]
<1>1. /\ s[0] = Nobody => c = 0 /\ \A x \in N : s[x] = Nobody
      /\ N = {0, 1} /\ s[0] # Nobody => IF s[1] = Nobody THEN c = 1 + len[0] ELSE s[1] = 1 + len[0]
  BY DEF EntryFirst
<1>2. t[b] = c /\ c # Nobody /\ \A x \in N : x # b => t[x] = s[x]
  BY DEF Nobody
<1>3. s[b] = Nobody /\ (b # 0 => s[0] # Nobody)
  BY <1>1 DEF Waiting
<1> HIDE DEF t
<1>4. t[0] # Nobody
  BY <1>2, <1>3
<1>5. ASSUME N = {0, 1} PROVE IF t[1] = Nobody THEN c + 1 + len[b] = 1 + len[0] ELSE t[1] = 1 + len[0]
  <2>1. CASE b = 0
    <3>1. c = 0 /\ s[1] = Nobody /\ len[0] \in Nat
      BY <1>1, <1>3, <1>5, <2>1
    <3>2. t[1] = Nobody
      BY <1>2, <1>5, <2>1, <3>1
    <3> QED  BY <2>1, <3>1, <3>2
  <2>2. CASE b # 0
    <3>1. b = 1
      BY <1>5, <2>2
    <3> QED  BY <1>1, <1>2, <1>3, <1>5, <2>2, <3>1
  <2> QED  BY <2>1, <2>2
<1>6. EntryFirst(N, len, t, c + 1 + len[b])
  BY <1>4, <1>5 DEF EntryFirst
<1> QED  BY <1>6 DEF t
-----------------------------------------------------------------------------
\* The lengths of the blocks' code, by number.
Lengths == [b \in Numbers |-> Len(code(preorder[b + 1]))]

Renaming == phase \in {"rename", "done"}
RenameInv ==
  /\ ~Renaming => todo = <<>> /\ current_ssa_temp_index = 0
  /\ Renaming => /\ pass = 3
                 /\ TodoOK(Numbers, dominator, todo, ssa)
                 /\ TakenOK(Numbers, Lengths, ssa, current_ssa_temp_index)
                 /\ EntryFirst(Numbers, Lengths, ssa, current_ssa_temp_index)
  /\ phase = "done" => todo = <<>>

LEMMA LengthsAreNumbers ==
  ASSUME WalkInv
  PROVE  Lengths \in [Numbers -> Nat]
<1>1. /\ preorder \in Seq(Blocks) /\ Len(parent) = Len(preorder) /\ graph \in Graphs /\ Len(preorder) \in Nat
  BY DEF WalkInv, WalkTypes, PreorderIsTree
<1>2. ASSUME NEW b \in Numbers PROVE Len(code(preorder[b + 1])) \in Nat
  <2>1. b + 1 \in 1 .. Len(preorder)
    BY <1>1 DEF Numbers, Size
  <2>2. preorder[b + 1] \in Blocks
    BY <1>1, <2>1, ElementOfSeq
  <2>3. code(preorder[b + 1]) \in Seq([op : {"store_local", "other"}, index : Int])
    BY <1>1, <2>2, SsaAssumption DEF Blocks, code
  <2> QED  BY <2>3, LenProperties
<1> QED  BY <1>2 DEF Lengths

\* What the dominator pass left.
LEMMA DominatorsLeft ==
  ASSUME GraphInv, DomInv, pass = 3
  PROVE  /\ Size \in Nat \ {0} /\ Numbers = 0 .. Size - 1 /\ 0 \in Numbers
         /\ dominator \in [Numbers -> Numbers \cup {Nobody}]
         /\ \A x \in Numbers : x # 0 => dominator[x] \in 0 .. x - 1
         /\ \A b \in Numbers : ListOf(Numbers, dominator, b, dominated[b])
<1>1. preorder # <<>>
  BY DEF DomInv, DomTypes
<1>2. Size \in Nat \ {0} /\ Numbers = 0 .. Size - 1
  BY <1>1, WalkLeft DEF GraphInv, ParentsOK, Numbers
<1>3. dominator \in [Numbers -> Numbers \cup {Nobody}] /\ Lists(Size)
  BY DEF DomInv, DomTypes, ListsInv
<1>4. PICK s0 \in [Numbers -> Nat] : Found(s0, Size)
  BY DEF DomInv, PassInv
<1>5. \A x \in Numbers : x # 0 => dominator[x] \in 0 .. x - 1
  BY <1>2, <1>4 DEF Found
<1>6. ASSUME NEW b \in Numbers PROVE ListOf(Numbers, dominator, b, dominated[b])
  <2> DEFINE list == dominated[b]
  <2>1. /\ list \in Seq(Numbers)
        /\ \A i \in 1 .. Len(list) :
             /\ list[i] # 0 /\ dominator[list[i]] = b
             /\ \A j \in 1 .. Len(list) : i < j => list[i] < list[j]
    BY <1>3, <1>6 DEF Lists
  <2>2. \A x \in Numbers : x # 0 /\ dominator[x] = b => \E i \in 1 .. Len(list) : list[i] = x
    <3>1. \A x \in Numbers : x # 0 => x < Size
      BY <1>2
    <3>2. \A x \in Numbers : x # 0 /\ x < Size =>
            \E i \in 1 .. Len(dominated[dominator[x]]) : dominated[dominator[x]][i] = x
      BY <1>3 DEF Lists
    <3> QED  BY <3>1, <3>2, Zenon
  <2> HIDE DEF list
  <2>3. \A i \in 1 .. Len(list) : list[i] \in Int
    BY <1>2, <2>1, ElementOfSeq
  <2>4. \A i, j \in 1 .. Len(list) : i # j => list[i] # list[j]
    BY <2>1, <2>3
  <2>5. ListOf(Numbers, dominator, b, list)
    BY <2>1, <2>2, <2>4 DEF ListOf
  <2> QED  BY <2>5 DEF list
<1> QED  BY <1>2, <1>3, <1>5, <1>6

LEMMA RenameStarts ==
  ASSUME GraphInv, DomInv, RenameInv, insert_phis
  PROVE  RenameInv'
<1>1. /\ phase = "phis" /\ phase' = "rename" /\ todo' = <<0>> /\ ssa' = [b \in Numbers |-> Nobody]
      /\ UNCHANGED <<blockVars, pass, dominator, current_ssa_temp_index>>
  BY DEF insert_phis, dominatorVars
<1>2. pass = 3 /\ current_ssa_temp_index = 0
  BY <1>1 DEF DomInv, DomTypes, RenameInv, Renaming
<1>3. /\ Size \in Nat \ {0} /\ Numbers = 0 .. Size - 1 /\ 0 \in Numbers
      /\ dominator \in [Numbers -> Numbers \cup {Nobody}]
      /\ \A x \in Numbers : x # 0 => dominator[x] \in 0 .. x - 1
  BY <1>2, DominatorsLeft
<1>4. Numbers' = Numbers /\ Lengths' = Lengths
  BY <1>1, GraphKept DEF Lengths, code, blockVars, numbers
<1>5. TodoOK(Numbers, dominator, <<0>>, ssa')
  <2>1. <<0>> \in Seq(Numbers) /\ Len(<<0>>) = 1 /\ <<0>>[1] = 0
    BY <1>3
  <2>2. \A b \in Numbers : ssa'[b] = Nobody
    BY <1>1
  <2>3. \A x \in Numbers : x # 0 => dominator[x] \in Numbers
    BY <1>3
  <2> QED  BY <1>3, <2>1, <2>2, <2>3 DEF TodoOK, Waiting
<1>6. TakenOK(Numbers, Lengths, ssa', 0) /\ EntryFirst(Numbers, Lengths, ssa', 0)
  BY <1>1, <1>3 DEF TakenOK, EntryFirst
<1>7. /\ TodoOK(Numbers, dominator, todo, ssa)'
      /\ TakenOK(Numbers, Lengths, ssa, current_ssa_temp_index)'
      /\ EntryFirst(Numbers, Lengths, ssa, current_ssa_temp_index)'
  <2>1. TodoOK(Numbers, dominator, todo, ssa)'
    BY <1>1, <1>4, <1>5 DEF TodoOK, Waiting
  <2>2. TakenOK(Numbers, Lengths, ssa, current_ssa_temp_index)'
    BY <1>1, <1>2, <1>4, <1>6 DEF TakenOK
  <2>3. EntryFirst(Numbers, Lengths, ssa, current_ssa_temp_index)'
    BY <1>1, <1>2, <1>4, <1>6 DEF EntryFirst
  <2> QED  BY <2>1, <2>2, <2>3
<1> QED  BY <1>1, <1>2, <1>7 DEF RenameInv, Renaming

LEMMA RenameGoesOn ==
  ASSUME GraphInv, DomInv, RenameInv, graph_rename_recursive
  PROVE  RenameInv'
<1>1. PICK b : b = Head(todo)
  OBVIOUS
<1>2. /\ phase = "rename" /\ todo # <<>> /\ phase' = phase
      /\ ssa' = [ssa EXCEPT ![b] = current_ssa_temp_index]
      /\ current_ssa_temp_index' = current_ssa_temp_index + Indices(preorder[b + 1])
      /\ todo' = dominated[b] \o Tail(todo)
      /\ UNCHANGED <<blockVars, pass, dominator>>
  BY <1>1 DEF graph_rename_recursive, dominatorVars
<1>3. /\ pass = 3 /\ TodoOK(Numbers, dominator, todo, ssa)
      /\ TakenOK(Numbers, Lengths, ssa, current_ssa_temp_index)
      /\ EntryFirst(Numbers, Lengths, ssa, current_ssa_temp_index)
  BY <1>2 DEF RenameInv, Renaming
<1>4. /\ Size \in Nat \ {0} /\ Numbers = 0 .. Size - 1 /\ 0 \in Numbers
      /\ dominator \in [Numbers -> Numbers \cup {Nobody}]
      /\ \A x \in Numbers : x # 0 => dominator[x] \in 0 .. x - 1
      /\ \A c \in Numbers : ListOf(Numbers, dominator, c, dominated[c])
  BY <1>3, DominatorsLeft
<1>5. Numbers' = Numbers /\ Lengths' = Lengths
  BY <1>2, GraphKept DEF Lengths, code, blockVars, numbers
<1>6. Lengths \in [Numbers -> Nat] /\ ssa \in [Numbers -> Nat \cup {Nobody}] /\ current_ssa_temp_index \in Nat
  BY <1>3, LengthsAreNumbers DEF GraphInv, TakenOK
<1>7. b \in Numbers /\ Waiting(dominator, ssa, b) /\ ssa[b] = Nobody
  <2>1. todo \in Seq(Numbers) /\ \A i \in 1 .. Len(todo) : Waiting(dominator, ssa, todo[i])
    BY <1>3 DEF TodoOK
  <2>2. Len(todo) \in Nat \ {0} /\ b = todo[1]
    BY <1>1, <1>2, <2>1, EmptySeq, HeadTailProperties
  <2>3. 1 \in 1 .. Len(todo)
    BY <2>2
  <2>4. Waiting(dominator, ssa, b) /\ b \in Numbers
    BY <2>1, <2>2, <2>3, ElementOfSeq
  <2> QED  BY <2>4 DEF Waiting
<1>8. Nobody \notin Numbers /\ \A x \in Numbers : x # 0 => dominator[x] \in Numbers /\ dominator[x] # x
  BY <1>4 DEF Nobody
<1>9. PICK list : list = dominated[b] /\ ListOf(Numbers, dominator, b, list)
  BY <1>4, <1>7
<1>10. TodoOK(Numbers, dominator, todo', ssa')
  <2>1. TodoOK(Numbers, dominator, list \o Tail(todo), [ssa EXCEPT ![Head(todo)] = current_ssa_temp_index])
    BY <1>1, <1>2, <1>3, <1>4, <1>6, <1>8, <1>9, TodoStep
  <2>2. todo' = list \o Tail(todo) /\ ssa' = [ssa EXCEPT ![Head(todo)] = current_ssa_temp_index]
    BY <1>1, <1>2, <1>9
  <2> QED  BY <2>1, <2>2
<1>11. current_ssa_temp_index' = current_ssa_temp_index + 1 + Lengths[b]
  <2>1. Lengths[b] = Len(code(preorder[b + 1])) /\ Lengths[b] \in Nat
    BY <1>6, <1>7 DEF Lengths
  <2> QED  BY <1>2, <1>6, <2>1 DEF Indices
<1>12. TakenOK(Numbers, Lengths, ssa', current_ssa_temp_index')
  <2>1. TakenOK(Numbers, Lengths, [ssa EXCEPT ![b] = current_ssa_temp_index], current_ssa_temp_index + 1 + Lengths[b])
    BY <1>3, <1>6, <1>7, TakenStep
  <2> QED  BY <1>2, <1>11, <2>1, Zenon
<1>13. EntryFirst(Numbers, Lengths, ssa', current_ssa_temp_index')
  <2>1. b # 0 => dominator[b] \in Numbers
    BY <1>7, <1>8
  <2>2. EntryFirst(Numbers, Lengths, [ssa EXCEPT ![b] = current_ssa_temp_index], current_ssa_temp_index + 1 + Lengths[b])
    BY <1>3, <1>4, <1>6, <1>7, <2>1, FirstStep
  <2> QED  BY <1>2, <1>11, <2>2, Zenon
<1>14. /\ TodoOK(Numbers, dominator, todo, ssa)'
       /\ TakenOK(Numbers, Lengths, ssa, current_ssa_temp_index)'
       /\ EntryFirst(Numbers, Lengths, ssa, current_ssa_temp_index)'
  BY <1>2, <1>5, <1>10, <1>12, <1>13, ZenonT(60) DEF TodoOK, Waiting, TakenOK, EntryFirst
<1> QED  BY <1>2, <1>3, <1>14 DEF RenameInv, Renaming

LEMMA RenameKept ==
  ASSUME RenameInv, UNCHANGED <<blockVars, pass, dominator, ssa, todo, current_ssa_temp_index>>,
         Renaming' <=> Renaming, phase' = "done" => todo = <<>>
  PROVE  RenameInv'
<1>1. Numbers' = Numbers /\ Lengths' = Lengths
  BY GraphKept DEF Lengths, code, blockVars, numbers
<1>2. ASSUME Renaming
      PROVE  /\ pass' = 3
             /\ TodoOK(Numbers, dominator, todo, ssa)'
             /\ TakenOK(Numbers, Lengths, ssa, current_ssa_temp_index)'
             /\ EntryFirst(Numbers, Lengths, ssa, current_ssa_temp_index)'
  <2>1. /\ pass = 3
        /\ TodoOK(Numbers, dominator, todo, ssa)
        /\ TakenOK(Numbers, Lengths, ssa, current_ssa_temp_index)
        /\ EntryFirst(Numbers, Lengths, ssa, current_ssa_temp_index)
    BY <1>2 DEF RenameInv
  <2> QED  BY <1>1, <2>1 DEF TodoOK, Waiting, TakenOK, EntryFirst
<1> QED  BY <1>2 DEF RenameInv

LEMMA RenameStep ==
  ASSUME GraphInv, DomInv, RenameInv, [Next]_vars
  PROVE  RenameInv'
<1>1. CASE ~Rename /\ ~UNCHANGED vars
  <2>1. /\ UNCHANGED <<todo, current_ssa_temp_index>>
        /\ ~Renaming /\ ~Renaming'
    BY <1>1 DEF Next, Discovery, DominatorPasses, Liveness, Renaming, renameVars,
                graph_discover_blocks, discover_entry, visit_marked, visit_new, leave_block, Visiting,
                DominatorsNext, compute_dominators, semidominator, semidominators_done, block_add_dominated,
                dominators_done, frontier, runner_lost, Looping, Discovered, DominatorsDone,
                liveness_analyze, compute_initial_sets, initial_sets_done, update_live_sets,
                place_unset, live_sets_passed
  <2> QED  BY <2>1 DEF RenameInv, Renaming
<1>2. CASE renamed
  <2>1. /\ UNCHANGED <<blockVars, pass, dominator, ssa, todo, current_ssa_temp_index>>
        /\ phase = "rename" /\ phase' = "done" /\ todo = <<>>
    BY <1>2 DEF renamed, dominatorVars, renameVars
  <2>2. Renaming /\ Renaming'
    BY <2>1 DEF Renaming
  <2> QED  BY <2>1, <2>2, RenameKept
<1>3. CASE UNCHANGED vars
  <2>1. UNCHANGED <<blockVars, phase, pass, dominator, ssa, todo, current_ssa_temp_index>>
    BY <1>3 DEF vars, dominatorVars, renameVars
  <2>2. (Renaming' <=> Renaming) /\ (phase' = "done" => todo = <<>>)
    BY <2>1 DEF Renaming, RenameInv
  <2> QED  BY <2>1, <2>2, RenameKept
<1> QED  BY <1>1, <1>2, <1>3, RenameStarts, RenameGoesOn DEF Rename

LEMMA RenameStart == Init => RenameInv
  BY DEF Init, BlocksInit, RenameInv, Renaming

(* Whatever the graph: every block met is renamed, no two values share an  *)
(* index, and where the entry holds no code and is followed by one block,  *)
(* that block's instructions start at index 2 (flow_graph.c 185-302).      *)
THEOREM IndicesApart == Spec => []OneIndexEach
<1>1. Init => GraphInv /\ DomInv /\ RenameInv
  BY GraphStart, DomStart, RenameStart
<1>2. GraphInv /\ DomInv /\ RenameInv /\ [Next]_vars => GraphInv' /\ DomInv' /\ RenameInv'
  BY GraphStep, DomStep, RenameStep
<1>3. GraphInv /\ DomInv /\ RenameInv => OneIndexEach
  <2> SUFFICES ASSUME GraphInv, DomInv, RenameInv, phase = "done"
               PROVE  /\ \A b \in Numbers : ssa[b] # Nobody
                      /\ \A a, b \in Numbers : a # b => Taken(a) \cap Taken(b) = {}
                      /\ preorder = <<0, 1>> /\ code(Entry) = <<>> => ssa[1] + 1 = 2
    BY DEF OneIndexEach
  <2>1. /\ pass = 3 /\ todo = <<>> /\ TodoOK(Numbers, dominator, todo, ssa)
        /\ TakenOK(Numbers, Lengths, ssa, current_ssa_temp_index)
        /\ EntryFirst(Numbers, Lengths, ssa, current_ssa_temp_index)
    BY DEF RenameInv, Renaming
  <2>2. /\ Size \in Nat \ {0} /\ Numbers = 0 .. Size - 1 /\ 0 \in Numbers
        /\ \A x \in Numbers : x # 0 => dominator[x] \in 0 .. x - 1
    BY <2>1, DominatorsLeft
  <2>3. \A b \in Numbers : ~ Waiting(dominator, ssa, b)
    <3>1. Len(todo) = 0
      BY <2>1
    <3> QED  BY <2>1, <3>1 DEF TodoOK
  <2>4. \A b \in Numbers : ssa[b] # Nobody
    <3> DEFINE S == {b \in Numbers : ssa[b] # Nobody}
    <3>1. ASSUME NEW k \in 0 .. Size - 1, \A j \in 0 .. k - 1 : j \in S PROVE k \in S
      <4>1. k = 0 \/ (dominator[k] \in 0 .. k - 1 /\ dominator[k] \in Numbers)
        BY <2>2, <3>1
      <4>2. k = 0 \/ ssa[dominator[k]] # Nobody
        BY <3>1, <4>1
      <4>3. ssa[k] # Nobody
        BY <2>2, <2>3, <4>2 DEF Waiting
      <4> QED  BY <2>2, <4>3
    <3>2. Size - 1 \in Nat
      BY <2>2
    <3> HIDE DEF S
    <3>3. \A k \in 0 .. Size - 1 : k \in S
      BY <3>1, <3>2, UpwardInduction
    <3> QED  BY <2>2, <3>3 DEF S
  <2>5. Lengths \in [Numbers -> Nat] /\ ssa \in [Numbers -> Nat \cup {Nobody}]
    BY <2>1, LengthsAreNumbers DEF GraphInv, TakenOK
  <2>6. ASSUME NEW a \in Numbers, NEW b \in Numbers, a # b PROVE Taken(a) \cap Taken(b) = {}
    <3>1. ssa[a] + Lengths[a] < ssa[b] \/ ssa[b] + Lengths[b] < ssa[a]
      BY <2>1, <2>4, <2>6 DEF TakenOK
    <3>2. /\ ssa[a] \in Nat /\ ssa[b] \in Nat /\ Lengths[a] \in Nat /\ Lengths[b] \in Nat
          /\ Taken(a) = ssa[a] .. ssa[a] + Lengths[a] /\ Taken(b) = ssa[b] .. ssa[b] + Lengths[b]
      BY <2>4, <2>5 DEF Taken, Lengths
    <3> QED  BY <3>1, <3>2
  <2>7. ASSUME preorder = <<0, 1>>, code(Entry) = <<>> PROVE ssa[1] + 1 = 2
    <3>1. Size = 2
      BY <2>7 DEF Size, GraphInv, WalkInv, PreorderIsTree
    <3>2. Numbers = {0, 1} /\ Lengths[0] = 0
      BY <2>2, <2>7, <3>1 DEF Lengths, Entry
    <3>3. ssa[0] # Nobody /\ ssa[1] # Nobody
      BY <2>4, <3>2
    <3>4. ssa[1] = 1 + Lengths[0]
      BY <2>1, <3>2, <3>3 DEF EntryFirst
    <3> QED  BY <3>2, <3>4
  <2> QED  BY <2>4, <2>6, <2>7
<1> QED  BY <1>1, <1>2, <1>3, PTL DEF Spec
-----------------------------------------------------------------------------
\* An array by place in postorder.
Places(array) == array = [i \in DOMAIN postorder |-> array[i]]

ArraysInv ==
  /\ phase \in {"discover", "dominators"} => live_in = <<>> /\ kill = <<>>
  /\ phase \in {"initial_sets", "live_sets", "phis", "rename", "done"} => Places(live_in) /\ Places(kill)
  /\ phase = "undefined" => (live_in = <<>> /\ kill = <<>>) \/ (Places(live_in) /\ Places(kill))
  /\ phase \in {"discover", "dominators", "initial_sets", "live_sets", "phis", "rename", "done", "undefined"}

LEMMA ArraysKept ==
  ASSUME ArraysInv, UNCHANGED <<blockVars, live_in, kill>>,
         \/ phase' = phase
         \/ phase' = "undefined"
         \/ phase = "discover" /\ phase' = "dominators"
         \/ phase \in {"initial_sets", "live_sets", "phis", "rename"} /\ phase' \in {"live_sets", "phis", "rename", "done"}
  PROVE  ArraysInv'
<1>1. postorder' = postorder
  BY DEF blockVars, walk
<1>2. Places(live_in)' = Places(live_in) /\ Places(kill)' = Places(kill)
  BY <1>1 DEF Places
<1> QED  BY <1>2 DEF ArraysInv

LEMMA ArraysStep ==
  ASSUME ArraysInv, [Next]_vars
  PROVE  ArraysInv'
<1>1. CASE Discovery
  <2>1. phase = "discover" /\ phase' = phase /\ UNCHANGED <<live_in, kill>>
    BY <1>1 DEF Discovery, graph_discover_blocks, discover_entry, visit_marked, visit_new,
                leave_block, Visiting, livenessVars
  <2> QED  BY <2>1 DEF ArraysInv
<1>2. CASE DominatorPasses
  <2>1. /\ UNCHANGED <<blockVars, live_in, kill>>
        /\ phase' \in {"dominators", "undefined"} /\ phase \in {"discover", "dominators"}
    BY <1>2 DEF DominatorPasses, DominatorsNext, compute_dominators, semidominator,
                semidominators_done, block_add_dominated, dominators_done, frontier, runner_lost,
                Looping, livenessVars, Discovered
  <2> QED  BY <2>1, ArraysKept
<1>3. CASE liveness_analyze
  <2>1. /\ live_in' = [i \in DOMAIN postorder |-> {}] /\ kill' = live_in'
        /\ phase' = "initial_sets" /\ postorder' = postorder
    BY <1>3 DEF liveness_analyze, blockVars, walk
  <2> QED  BY <2>1 DEF ArraysInv, Places
<1>4. CASE compute_initial_sets
  <2>1. PICK new : kill' = [kill EXCEPT ![block_index] = new]
    BY <1>4, Zenon DEF compute_initial_sets
  <2>2. /\ phase = "initial_sets" /\ phase' = phase /\ live_in' = live_in /\ postorder' = postorder
    BY <1>4 DEF compute_initial_sets, blockVars, walk
  <2>3. Places(live_in) /\ Places(kill)
    BY <2>2 DEF ArraysInv
  <2>4. Places(live_in)' /\ Places(kill)'
    BY <2>1, <2>2, <2>3 DEF Places
  <2> QED  BY <2>2, <2>4 DEF ArraysInv
<1>5. CASE initial_sets_done \/ place_unset \/ Rename
  <2>1. UNCHANGED <<blockVars, live_in, kill>>
    BY <1>5 DEF initial_sets_done, place_unset, Rename, insert_phis, graph_rename_recursive, renamed, livenessVars
  <2>2. \/ phase' = "undefined"
        \/ phase \in {"initial_sets", "phis", "rename"} /\ phase' \in {"live_sets", "rename", "done"}
    BY <1>5 DEF initial_sets_done, place_unset, Rename, insert_phis, graph_rename_recursive, renamed
  <2> QED  BY <2>1, <2>2, ArraysKept
<1>6. CASE update_live_sets
  <2>1. PICK i, new : live_in' = [live_in EXCEPT ![i] = new]
    BY <1>6 DEF update_live_sets
  <2>2. /\ phase = "live_sets" /\ phase' = phase /\ kill' = kill /\ postorder' = postorder
    BY <1>6 DEF update_live_sets, blockVars, walk
  <2>3. Places(live_in) /\ Places(kill)
    BY <2>2 DEF ArraysInv
  <2>4. Places(live_in)' /\ Places(kill)'
    BY <2>1, <2>2, <2>3 DEF Places
  <2> QED  BY <2>2, <2>4 DEF ArraysInv
<1>7. CASE live_sets_passed
  <2>1. /\ phase = "live_sets" /\ phase' \in {"live_sets", "phis"} /\ live_in' = live_in
        /\ kill' = kill \/ kill' = [p \in DOMAIN postorder |-> compute_assigned(postorder[p])]
        /\ postorder' = postorder
    BY <1>7 DEF live_sets_passed, blockVars, walk, CutKill
  <2>2. Places(live_in) /\ Places(kill)
    BY <2>1 DEF ArraysInv
  <2>3. Places(live_in)' /\ Places(kill)'
    BY <2>1, <2>2 DEF Places
  <2> QED  BY <2>1, <2>3 DEF ArraysInv
<1>8. CASE UNCHANGED vars
  BY <1>8, ArraysKept DEF vars, livenessVars
<1> QED  BY <1>1, <1>2, <1>3, <1>4, <1>5, <1>6, <1>7, <1>8 DEF Next, Liveness

LEMMA ArraysStart == Init => ArraysInv
  BY DEF Init, BlocksInit, ArraysInv

LEMMA LengthOfPlaces ==
  ASSUME NEW S, NEW s \in Seq(S), NEW array, array = [i \in DOMAIN s |-> array[i]]
  PROVE  Len(array) = Len(s)
<1>1. DOMAIN s = 1 .. Len(s) /\ Len(s) \in Nat
  BY LenProperties
<1> DEFINE T == {array[i] : i \in 1 .. Len(s)}
<1>2. array \in [1 .. Len(s) -> T] /\ DOMAIN array = 1 .. Len(s)
  BY <1>1
<1>3. array \in Seq(T)
  <2> HIDE DEF T
  <2> QED  BY <1>1, <1>2, SeqDef
<1> HIDE DEF T
<1>4. DOMAIN array = 1 .. Len(array) /\ Len(array) \in Nat
  BY <1>3, LenProperties
<1> QED  BY <1>1, <1>2, <1>4

(* The state of all the passes keeps its types (flow_graph.c 304-319).     *)
THEOREM TypeCorrect == Spec => []TypeOK
<1>1. Init => GraphInv /\ DomInv /\ RenameInv /\ ArraysInv
  BY GraphStart, DomStart, RenameStart, ArraysStart
<1>2. /\ GraphInv /\ DomInv /\ RenameInv /\ ArraysInv /\ [Next]_vars
      => GraphInv' /\ DomInv' /\ RenameInv' /\ ArraysInv'
  BY GraphStep, DomStep, RenameStep, ArraysStep
<1>3. GraphInv /\ DomInv /\ RenameInv /\ ArraysInv => TypeOK
  <2> SUFFICES ASSUME GraphInv, DomInv, RenameInv, ArraysInv PROVE TypeOK
    OBVIOUS
  <2>1. /\ preorder \in Seq(Blocks) /\ postorder \in Seq(Blocks) /\ block_stack \in Seq(1 .. Len(states))
        /\ states \in Seq(BlockState) /\ Len(parent) = Len(preorder)
        /\ Len(postorder) + Len(block_stack) = Len(preorder)
    BY DEF GraphInv, WalkInv, WalkTypes, PreorderIsTree, CountInv
  <2>2. \A b \in Met : b \in Blocks
    BY <2>1, ElementOfSeq DEF Met, Range
  <2>3. Len(parent) = Len(preorder) /\ Len(postorder) <= Len(preorder)
    <3>1. Len(postorder) \in Nat /\ Len(block_stack) \in Nat /\ Len(preorder) \in Nat
      BY <2>1, LenProperties
    <3> QED  BY <2>1, <3>1
  <2>4. \A k \in DOMAIN block_stack : block_stack[k] \in DOMAIN states
    BY <2>1, ElementOfSeq
  <2>5. \A b \in Blocks : Range(predecessors[b]) \subseteq Blocks
    <3>1. ASSUME NEW b \in Blocks PROVE Range(predecessors[b]) \subseteq Blocks
      <4>1. predecessors[b] \in Seq(Blocks)
        BY DEF GraphInv, EdgesInv, EdgesOf
      <4> QED  BY <4>1, ElementOfSeq DEF Range
    <3> QED  BY <3>1
  <2>6. pass > 0 => dominator \in [Numbers -> Numbers \cup {Nobody}] /\ dominance \in [Numbers -> SUBSET Numbers]
    BY DEF DomInv, DomTypes
  <2>7. Len(live_in) = Len(kill) /\ Len(live_in) \in {0, Len(postorder)}
    <3>1. (live_in = <<>> /\ kill = <<>>) \/ (Places(live_in) /\ Places(kill))
      BY DEF ArraysInv
    <3>2. CASE live_in = <<>> /\ kill = <<>>
      BY <3>2
    <3>3. CASE Places(live_in) /\ Places(kill)
      <4>1. Len(live_in) = Len(postorder)
        BY <2>1, <3>3, LengthOfPlaces DEF Places
      <4>2. Len(kill) = Len(postorder)
        BY <2>1, <3>3, LengthOfPlaces DEF Places
      <4> QED  BY <4>1, <4>2
    <3> QED  BY <3>1, <3>2, <3>3
  <2>8. current_ssa_temp_index \in Nat
    BY DEF RenameInv, TakenOK
  <2> QED  BY <2>2, <2>3, <2>4, <2>5, <2>6, <2>7, <2>8 DEF TypeOK
<1> QED  BY <1>1, <1>2, <1>3, PTL DEF Spec
-----------------------------------------------------------------------------
\* The edges from p to b that have been looked at, when n is the next one's index.
Processed(g, p, n, b) == {i \in n + 2 .. Len(g.successors[p]) : g.successors[p][i] = b}

\* Those edges led to blocks that are met by now, and are recorded where a join is.
Seen(g, preds, met, p, n) ==
  /\ \A i \in n + 2 .. Len(g.successors[p]) : g.successors[p][i] \in met
  /\ \A b \in DOMAIN g.successors :
       g.kind[b] = "join" => Count(preds[b], p) = Cardinality(Processed(g, p, n, b))

On(stack) == {stack[l] : l \in 1 .. Len(stack)}

\* The stack is a path in the tree, from the entry down.
StackPath(stack, par, n) ==
  /\ stack \in Seq(1 .. n)
  /\ \A l, m \in 1 .. Len(stack) : l < m => stack[l] < stack[m]
  /\ \A l \in 2 .. Len(stack) : par[stack[l]] + 1 = stack[l - 1]

\* What is in postorder is what has left the stack, children before their parents.
Behind(pre, par, post, num, on) ==
  /\ \A i \in 1 .. Len(post) : num[post[i]] = i - 1 /\ \E k \in 1 .. Len(pre) : post[i] = pre[k]
  /\ \A k \in 1 .. Len(pre) : k \in on <=> \A i \in 1 .. Len(post) : post[i] # pre[k]
  /\ \A k \in 2 .. Len(pre) : k \notin on /\ par[k] + 1 \notin on => num[pre[k]] < num[pre[par[k] + 1]]

\* As long as no state was overwritten, the state at k is that of the block at k.
StatesFollow ==
  /\ Len(states) = Len(preorder)
  /\ \A k \in 1 .. Len(preorder) :
       /\ states[k].block = preorder[k] /\ states[k].next >= -1
       /\ k \notin On(block_stack) => states[k].next = -1
       /\ Seen(graph, predecessors, Known, preorder[k], states[k].next)

ExactInv == ~Overwritten =>
  /\ StatesFollow
  /\ StackPath(block_stack, parent, Len(preorder))
  /\ Behind(preorder, parent, postorder, postorder_num, On(block_stack))

LEMMA CountAppended ==
  ASSUME NEW S, NEW s \in Seq(S), NEW x \in S, NEW y
  PROVE  Count(Append(s, x), y) = Count(s, y) + (IF x = y THEN 1 ELSE 0)
<1> DEFINE n == Len(s)
           C == {i \in 1 .. n : s[i] = y}
           new == Append(s, x)
<1>1. n \in Nat /\ DOMAIN s = 1 .. n /\ DOMAIN new = 1 .. n + 1 /\ new[n + 1] = x /\ \A i \in 1 .. n : new[i] = s[i]
  <2>1. new \in Seq(S) /\ Len(new) = n + 1 /\ new[n + 1] = x /\ \A i \in 1 .. n : new[i] = s[i]
    BY AppendProperties
  <2>2. DOMAIN new = 1 .. Len(new) /\ n \in Nat /\ DOMAIN s = 1 .. n
    BY <2>1, LenProperties
  <2> QED  BY <2>1, <2>2
<1>2. IsFiniteSet(C)
  <2>1. IsFiniteSet(1 .. n) /\ C \in SUBSET (1 .. n)
    BY <1>1, FS_Interval
  <2> QED  BY <2>1, FS_Subset
<1>3. {i \in DOMAIN new : new[i] = y} = IF x = y THEN C \cup {n + 1} ELSE C
  BY <1>1
<1>4. Cardinality(C \cup {n + 1}) = Cardinality(C) + 1
  <2>1. n + 1 \notin C
    BY <1>1
  <2> HIDE DEF C
  <2> QED  BY <1>2, <2>1, FS_AddElement
<1>5. Cardinality(C) \in Nat
  BY <1>2, FS_CardinalityType
<1>6. Count(s, y) = Cardinality(C) /\ Count(new, y) = Cardinality({i \in DOMAIN new : new[i] = y})
  BY <1>1 DEF Count
<1>7. Count(new, y) = Cardinality(IF x = y THEN C \cup {n + 1} ELSE C)
  BY <1>3, <1>6
<1> HIDE DEF C, new
<1>8. Count(new, y) = Count(s, y) + (IF x = y THEN 1 ELSE 0)
  BY <1>4, <1>5, <1>6, <1>7
<1> QED  BY <1>8 DEF new

LEMMA NoneCounted ==
  ASSUME NEW s, NEW y, \A i \in DOMAIN s : s[i] # y
  PROVE  Count(s, y) = 0
<1>1. {i \in DOMAIN s : s[i] = y} = {}
  OBVIOUS
<1> QED  BY <1>1, FS_EmptySet DEF Count

\* One more edge has been looked at.
LEMMA OneMoreProcessed ==
  ASSUME NEW g, NEW p, NEW n \in Nat, NEW b, Len(g.successors[p]) \in Nat, n < Len(g.successors[p])
  PROVE  Cardinality(Processed(g, p, n - 1, b)) =
           Cardinality(Processed(g, p, n, b)) + (IF g.successors[p][n + 1] = b THEN 1 ELSE 0)
<1> DEFINE P == Processed(g, p, n, b)
<1>1. IsFiniteSet(P) /\ Cardinality(P) \in Nat
  <2>1. PICK m \in Int : m = Len(g.successors[p])
    OBVIOUS
  <2>2. n + 2 \in Int
    OBVIOUS
  <2>3. IsFiniteSet(n + 2 .. m)
    BY <2>2, FS_Interval
  <2>4. P \in SUBSET (n + 2 .. m)
    BY <2>1 DEF Processed
  <2> HIDE DEF P
  <2> QED  BY <2>3, <2>4, FS_Subset, FS_CardinalityType
<1>2. Processed(g, p, n - 1, b) = IF g.successors[p][n + 1] = b THEN P \cup {n + 1} ELSE P
  <2> DEFINE s == g.successors[p]
  <2>1. (n - 1) + 2 .. Len(s) = (n + 2 .. Len(s)) \cup {n + 1}
    OBVIOUS
  <2> QED  BY <2>1 DEF Processed
<1>3. n + 1 \notin P
  BY DEF Processed
<1> HIDE DEF P
<1>4. Cardinality(P \cup {n + 1}) = Cardinality(P) + 1
  BY <1>1, <1>3, FS_AddElement
<1>5. Cardinality(Processed(g, p, n - 1, b)) = Cardinality(P) + (IF g.successors[p][n + 1] = b THEN 1 ELSE 0)
  BY <1>1, <1>2, <1>4
<1> QED  BY <1>5 DEF P

\* What a new edge from p to c adds to the joins.
Adds(B, preds, new, c, p) ==
  \A b \in B : \A q : graph.kind[b] = "join" =>
    Count(preds[b], q) \in Nat /\ Count(new[b], q) = Count(preds[b], q) + (IF b = c /\ p = q THEN 1 ELSE 0)

LEMMA EdgeCounted ==
  ASSUME NEW B, NEW preds \in [B -> Seq(B)], NEW c \in B, NEW p \in B
  PROVE  Adds(B, preds, block_add_predecessor(preds, c, p), c, p)
<1> SUFFICES ASSUME NEW b \in B, NEW q, graph.kind[b] = "join"
             PROVE  /\ Count(preds[b], q) \in Nat
                    /\ Count(block_add_predecessor(preds, c, p)[b], q) =
                         Count(preds[b], q) + (IF b = c /\ p = q THEN 1 ELSE 0)
  BY DEF Adds
<1>1. Count(preds[b], q) \in Nat
  <2>1. preds[b] \in Seq(B)
    OBVIOUS
  <2>2. DOMAIN preds[b] = 1 .. Len(preds[b]) /\ Len(preds[b]) \in Nat
    BY <2>1, LenProperties
  <2>3. IsFiniteSet(1 .. Len(preds[b])) /\ {i \in DOMAIN preds[b] : preds[b][i] = q} \in SUBSET (1 .. Len(preds[b]))
    BY <2>2, FS_Interval
  <2> QED  BY <2>3, FS_Subset, FS_CardinalityType DEF Count
<1>2. CASE b = c
  <2>1. block_add_predecessor(preds, c, p) = [preds EXCEPT ![c] = Append(@, p)]
    BY <1>2 DEF block_add_predecessor
  <2>2. block_add_predecessor(preds, c, p)[b] = Append(preds[b], p) /\ preds[b] \in Seq(B)
    BY <1>2, <2>1
  <2>3. Count(Append(preds[b], p), q) = Count(preds[b], q) + (IF p = q THEN 1 ELSE 0)
    BY <2>2, CountAppended
  <2> QED  BY <1>1, <1>2, <2>2, <2>3
<1>3. CASE b # c
  <2>1. block_add_predecessor(preds, c, p)[b] = preds[b]
    BY <1>3 DEF block_add_predecessor
  <2> QED  BY <1>1, <1>3, <2>1
<1> QED  BY <1>2, <1>3, <1>1

LEMMA SeenNext ==
  ASSUME NEW B, B = DOMAIN graph.successors, NEW preds \in [B -> Seq(B)], NEW p \in B, NEW n \in Nat,
         Len(graph.successors[p]) \in Nat, n < Len(graph.successors[p]),
         NEW c \in B, c = graph.successors[p][n + 1], NEW met, NEW more, met \subseteq more, c \in more,
         Seen(graph, preds, met, p, n)
  PROVE  Seen(graph, block_add_predecessor(preds, c, p), more, p, n - 1)
<1>1. ASSUME NEW i \in (n - 1) + 2 .. Len(graph.successors[p]) PROVE graph.successors[p][i] \in more
  <2>1. i = n + 1 \/ i \in n + 2 .. Len(graph.successors[p])
    OBVIOUS
  <2> QED  BY <2>1 DEF Seen
<1>2. PICK new : new = block_add_predecessor(preds, c, p)
  OBVIOUS
<1>3. Adds(B, preds, new, c, p)
  BY <1>2, EdgeCounted
<1>4. ASSUME NEW b \in B, graph.kind[b] = "join"
      PROVE  Count(new[b], p) = Cardinality(Processed(graph, p, n - 1, b))
  <2>1. Count(new[b], p) = Count(preds[b], p) + (IF b = c THEN 1 ELSE 0) /\ Count(preds[b], p) \in Nat
    BY <1>3, <1>4 DEF Adds
  <2>2. Cardinality(Processed(graph, p, n - 1, b)) =
          Cardinality(Processed(graph, p, n, b)) + (IF graph.successors[p][n + 1] = b THEN 1 ELSE 0)
    BY OneMoreProcessed
  <2>3. Count(preds[b], p) = Cardinality(Processed(graph, p, n, b))
    BY <1>4 DEF Seen
  <2> QED  BY <2>1, <2>2, <2>3
<1>5. Seen(graph, new, more, p, n - 1)
  BY <1>1, <1>4 DEF Seen
<1> QED  BY <1>2, <1>5

LEMMA SeenOther ==
  ASSUME NEW B, B = DOMAIN graph.successors, NEW preds \in [B -> Seq(B)], NEW p \in B, NEW n,
         NEW c \in B, NEW met, NEW more, met \subseteq more, NEW q, q # p,
         Seen(graph, preds, met, q, n)
  PROVE  Seen(graph, block_add_predecessor(preds, c, p), more, q, n)
<1>1. PICK new : new = block_add_predecessor(preds, c, p)
  OBVIOUS
<1>2. Adds(B, preds, new, c, p)
  BY <1>1, EdgeCounted
<1>3. ASSUME NEW b \in B, graph.kind[b] = "join"
      PROVE  Count(new[b], q) = Cardinality(Processed(graph, q, n, b))
  <2>1. Count(new[b], q) = Count(preds[b], q) + 0 /\ Count(preds[b], q) \in Nat
    BY <1>2, <1>3 DEF Adds
  <2>2. Count(preds[b], q) = Cardinality(Processed(graph, q, n, b))
    BY <1>3 DEF Seen
  <2> QED  BY <2>1, <2>2
<1>4. \A i \in n + 2 .. Len(graph.successors[q]) : graph.successors[q][i] \in more
  BY DEF Seen
<1>5. Seen(graph, new, more, q, n)
  BY <1>3, <1>4 DEF Seen
<1> QED  BY <1>1, <1>5

\* A block that has just been met has no edge looked at.
LEMMA SeenNone ==
  ASSUME NEW B, B = DOMAIN graph.successors, NEW preds, NEW p, NEW met, Len(graph.successors[p]) \in Nat,
         \A b \in B : \A i \in DOMAIN preds[b] : preds[b][i] # p
  PROVE  Seen(graph, preds, met, p, Len(graph.successors[p]) - 1)
<1> DEFINE n == Len(graph.successors[p]) - 1
<1>1. n + 2 .. Len(graph.successors[p]) = {}
  OBVIOUS
<1>2. \A b : Processed(graph, p, n, b) = {}
  BY <1>1 DEF Processed
<1>3. \A b \in B : Count(preds[b], p) = 0
  BY NoneCounted
<1> HIDE DEF n
<1>4. Seen(graph, preds, met, p, n)
  BY <1>1, <1>2, <1>3, FS_EmptySet DEF Seen
<1> QED  BY <1>4 DEF n
-----------------------------------------------------------------------------
LEMMA TreeFacts ==
  ASSUME WalkInv
  PROVE  /\ preorder \in Seq(Blocks) /\ Len(preorder) \in Nat /\ DOMAIN preorder = 1 .. Len(preorder)
         /\ Len(parent) = Len(preorder) /\ parent \in Seq(Int)
         /\ \A k \in 1 .. Len(preorder) :
              preorder[k] \in Known /\ preorder[k] \in Blocks /\ preorder_num[preorder[k]] = k - 1
         /\ \A k \in 2 .. Len(preorder) : parent[k] \in 0 .. k - 2
         /\ \A b \in Known : /\ b \in Blocks /\ preorder_num[b] + 1 \in 1 .. Len(preorder)
                             /\ preorder[preorder_num[b] + 1] = b
<1>1. /\ preorder \in Seq(Blocks) /\ Len(preorder) \in Nat /\ DOMAIN preorder = 1 .. Len(preorder)
      /\ Len(parent) = Len(preorder) /\ parent \in Seq(Int)
  BY LenProperties DEF WalkInv, WalkTypes, PreorderIsTree
<1>2. \A k \in 1 .. Len(preorder) : preorder[k] \in Blocks /\ preorder_num[preorder[k]] = k - 1
  BY <1>1, ElementOfSeq DEF WalkInv, PreorderIsTree
<1>3. \A k \in 1 .. Len(preorder) : preorder[k] \in Known
  <2>1. \A k \in 1 .. Len(preorder) : k - 1 \in 0 .. Len(preorder) - 1 /\ (k - 1) + 1 = k
    BY <1>1
  <2> QED  BY <1>2, <2>1 DEF Known, is_marked
<1>4. \A k \in 2 .. Len(preorder) : parent[k] \in 0 .. k - 2
  <2>1. \A k \in 2 .. Len(preorder) : k \in DOMAIN preorder /\ k > 1
    BY <1>1
  <2> QED  BY <2>1 DEF WalkInv, PreorderIsTree
<1>5. ASSUME NEW b \in Known
      PROVE  b \in Blocks /\ preorder_num[b] + 1 \in 1 .. Len(preorder) /\ preorder[preorder_num[b] + 1] = b
  <2>1. b \in Blocks /\ preorder_num[b] \in 0 .. Len(preorder) - 1 /\ preorder[preorder_num[b] + 1] = b
    BY DEF Known, is_marked
  <2> QED  BY <1>1, <2>1
<1> QED  BY <1>1, <1>2, <1>3, <1>4, <1>5

LEMMA DecrementedIs ==
  ASSUME WalkInv, Visiting
  PROVE  /\ Decremented \in Seq(BlockState) /\ Len(Decremented) = Len(states)
         /\ \A k \in 1 .. Len(states) :
              /\ Decremented[k].block = states[k].block
              /\ Decremented[k].next = IF k = Last(block_stack) THEN states[k].next - 1 ELSE states[k].next
<1> DEFINE top == Last(block_stack)
<1>1. states \in Seq(BlockState) /\ top \in 1 .. Len(states)
  BY TopState DEF WalkInv, WalkTypes
<1>2. states[top] \in BlockState
  BY <1>1, ElementOfSeq
<1> DEFINE less == [states[top] EXCEPT !.next = @ - 1]
<1>3. less \in BlockState /\ less.block = states[top].block /\ less.next = states[top].next - 1
  BY <1>2 DEF BlockState
<1>4. Decremented = [states EXCEPT ![top] = less]
  BY <1>1 DEF Decremented
<1> HIDE DEF less
<1>5. /\ Decremented \in Seq(BlockState) /\ Len(Decremented) = Len(states)
      /\ \A k \in 1 .. Len(states) : Decremented[k] = IF k = top THEN less ELSE states[k]
  BY <1>1, <1>3, <1>4, ExceptSeq
<1> QED  BY <1>1, <1>3, <1>5

\* The state on top, as long as the states follow.
LEMMA TopFollows ==
  ASSUME WalkInv, StackInv, Visiting, StatesFollow, StackPath(block_stack, parent, Len(preorder))
  PROVE  /\ Last(block_stack) \in 1 .. Len(preorder) /\ Last(block_stack) \in On(block_stack)
         /\ Top = states[Last(block_stack)] /\ Top.block = preorder[Last(block_stack)]
         /\ Top.block \in Blocks /\ Top.next \in Int /\ Top.next >= -1
         /\ Last(block_stack) = block_stack[Len(block_stack)] /\ Len(block_stack) \in Nat \ {0}
         /\ block_stack[1] = 1
         /\ Top.next < Len(graph.successors[Top.block]) /\ Len(graph.successors[Top.block]) \in Nat
         /\ Top.next >= 0 => Successor = graph.successors[Top.block][Top.next + 1] /\ Successor \in Blocks
<1>1. /\ Len(block_stack) \in Nat \ {0} /\ Last(block_stack) \in 1 .. Len(states)
      /\ Top \in BlockState
      /\ Top.next >= 0 => Successor \in Blocks
  BY TopState
<1>2. Last(block_stack) = block_stack[Len(block_stack)] /\ Top = states[Last(block_stack)]
  BY DEF Last, Top
<1>3. /\ Len(states) = Len(preorder)
      /\ \A k \in 1 .. Len(preorder) : states[k].block = preorder[k] /\ states[k].next >= -1
  BY DEF StatesFollow
<1>4. Last(block_stack) \in On(block_stack)
  <2>1. Len(block_stack) \in 1 .. Len(block_stack)
    BY <1>1
  <2> QED  BY <1>2, <2>1 DEF On
<1>5. Top.block \in Blocks /\ Top.next \in Int
  BY <1>1 DEF BlockState
<1>6. block_stack[1] = 1
  <2>1. 1 \in 1 .. Len(block_stack)
    BY <1>1
  <2> QED  BY <2>1 DEF StackInv, Init_state
<1>7. Top.next < Len(successors(Top.block))
  BY <1>1, <1>2 DEF WalkInv, StatesOK
<1>8. successors(Top.block) \in Seq(Blocks) /\ successors(Top.block) = graph.successors[Top.block]
  BY <1>5, SuccessorsAreBlocks DEF WalkInv, successors
<1>9. Len(graph.successors[Top.block]) \in Nat
  BY <1>8, LenProperties
<1>10. Top.next >= 0 => Successor = graph.successors[Top.block][Top.next + 1] /\ Successor \in Blocks
  BY <1>1 DEF Successor, successors
<1> QED  BY <1>1, <1>2, <1>3, <1>4, <1>5, <1>6, <1>7, <1>8, <1>9, <1>10

LEMMA ExactEnters ==
  ASSUME WalkInv, StackInv, EdgesInv, CountInv, WalkInv', discover_entry
  PROVE  ExactInv'
<1>1. /\ preorder = <<>> /\ preorder' = <<Entry>> /\ states' = <<State(Entry)>> /\ block_stack' = <<1>>
      /\ parent' = Append(parent, -1) /\ UNCHANGED <<graph, predecessors, postorder, postorder_num>>
      /\ preorder = Append(<<>>, Entry) \/ preorder' = Append(preorder, Entry)
  BY DEF discover_entry, Number, Init_state
<1>2. block_stack = <<>> /\ Len(postorder) = 0
  <2>1. block_stack = <<>> /\ postorder \in Seq(Blocks)
    BY <1>1 DEF StackInv, WalkInv, WalkTypes
  <2>2. Len(block_stack) = 0 /\ Len(preorder) = 0 /\ Len(postorder) \in Nat
    BY <1>1, <2>1
  <2> QED  BY <2>1, <2>2 DEF CountInv
<1>3. \A b \in Blocks : DOMAIN predecessors[b] = {}
  <2>1. Known = {}
    <3>1. \A b \in Blocks : preorder_num[b] \notin 0 .. Len(preorder) - 1
      <4>1. Len(preorder) = 0
        BY <1>1
      <4> QED  BY <4>1
    <3> QED  BY <3>1 DEF Known, is_marked
  <2>2. ASSUME NEW b \in Blocks PROVE DOMAIN predecessors[b] = {}
    <3>1. predecessors[b] \in Seq(Blocks) /\ \A i \in 1 .. Len(predecessors[b]) : b \in Known
      BY DEF EdgesInv, EdgesOf
    <3>2. DOMAIN predecessors[b] = 1 .. Len(predecessors[b]) /\ Len(predecessors[b]) \in Nat
      BY <3>1, LenProperties
    <3> QED  BY <2>1, <3>1, <3>2
  <2> QED  BY <2>2
<1>4. Entry \in Blocks /\ Blocks = DOMAIN graph.successors /\ Len(graph.successors[Entry]) \in Nat
  <2>1. Entry \in Blocks /\ graph.successors[Entry] \in Seq(Blocks)
    BY SuccessorsAreBlocks DEF WalkInv, successors
  <2> QED  BY <2>1, LenProperties DEF Blocks
<1>5. PICK met : met = Known'
  OBVIOUS
<1>6. Seen(graph, predecessors, met, Entry, Len(graph.successors[Entry]) - 1)
  BY <1>3, <1>4, SeenNone
<1>7. /\ Len(preorder') = 1 /\ preorder'[1] = Entry /\ Len(states') = 1 /\ Len(block_stack') = 1 /\ block_stack'[1] = 1
      /\ states'[1].block = Entry /\ states'[1].next = Len(graph.successors[Entry]) - 1
  BY <1>1 DEF State, successors
<1>8. On(block_stack') = {1}
  BY <1>7 DEF On
<1>9. StatesFollow'
  <2>1. Seen(graph', predecessors', Known', Entry, Len(graph.successors[Entry]) - 1)
    BY <1>1, <1>5, <1>6
  <2>2. Seen(graph', predecessors', Known', preorder'[1], states'[1].next)
    BY <1>7, <2>1
  <2>3. Len(graph.successors[Entry]) - 1 >= -1
    BY <1>4
  <2> QED  BY <1>7, <1>8, <2>2, <2>3 DEF StatesFollow
<1>10. StackPath(block_stack', parent', Len(preorder'))
  <2>1. <<1>> \in Seq(1 .. 1)
    OBVIOUS
  <2> QED  BY <1>1, <1>7, <2>1 DEF StackPath
<1>11. Behind(preorder', parent', postorder', postorder_num', On(block_stack'))
  BY <1>1, <1>2, <1>7, <1>8 DEF Behind
<1> QED  BY <1>9, <1>10, <1>11 DEF ExactInv

LEMMA ExactMarked ==
  ASSUME WalkInv, StackInv, EdgesInv, ExactInv, visit_marked
  PROVE  ExactInv'
<1>1. /\ Visiting /\ Top.next >= 0 /\ is_marked(Successor)
      /\ predecessors' = block_add_predecessor(predecessors, Successor, Top.block)
      /\ states' = Decremented
      /\ UNCHANGED <<graph, slots, preorder, parent, preorder_num, postorder, postorder_num, block_stack>>
  BY DEF visit_marked, numbers
<1> SUFFICES ASSUME ~Overwritten'
             PROVE  /\ StatesFollow'
                    /\ StackPath(block_stack', parent', Len(preorder'))
                    /\ Behind(preorder', parent', postorder', postorder_num', On(block_stack'))
  BY DEF ExactInv
<1>2. /\ StatesFollow /\ StackPath(block_stack, parent, Len(preorder))
      /\ Behind(preorder, parent, postorder, postorder_num, On(block_stack))
  BY <1>1 DEF ExactInv, Overwritten
<1> DEFINE top == Last(block_stack)
           p == Top.block
           n == Top.next
           c == Successor
<1>3. /\ top \in 1 .. Len(preorder) /\ top \in On(block_stack) /\ Top = states[top] /\ p = preorder[top]
      /\ p \in Blocks /\ n \in Nat /\ n < Len(graph.successors[p]) /\ Len(graph.successors[p]) \in Nat
      /\ c = graph.successors[p][n + 1] /\ c \in Blocks
  BY <1>1, <1>2, TopFollows
<1>4. Known' = Known /\ c \in Known /\ Blocks = DOMAIN graph.successors
  BY <1>1, <1>3 DEF Known, is_marked, Blocks
<1>5. /\ Len(states') = Len(states) /\ Len(states) = Len(preorder)
      /\ \A k \in 1 .. Len(preorder) :
           /\ states'[k].block = states[k].block
           /\ states'[k].next = IF k = top THEN states[k].next - 1 ELSE states[k].next
  BY <1>1, <1>2, DecrementedIs DEF StatesFollow
<1>6. \A k \in 1 .. Len(preorder) :
         /\ states[k].block = preorder[k] /\ states[k].next >= -1
         /\ k \notin On(block_stack) => states[k].next = -1
         /\ Seen(graph, predecessors, Known, preorder[k], states[k].next)
  BY <1>2 DEF StatesFollow
<1>7. predecessors \in [Blocks -> Seq(Blocks)]
  BY DEF EdgesInv, EdgesOf
<1>8. n = states[top].next
  BY <1>3
<1> HIDE DEF top, p, n, c
<1>9. PICK new : new = block_add_predecessor(predecessors, c, p)
  OBVIOUS
<1>10. Seen(graph, new, Known, p, n - 1)
  <2>1. Seen(graph, predecessors, Known, p, n)
    BY <1>3, <1>6, <1>8
  <2>2. Known \subseteq Known
    OBVIOUS
  <2> QED  BY <1>3, <1>4, <1>7, <1>9, <2>1, <2>2, SeenNext
<1>11. ASSUME NEW k \in 1 .. Len(preorder), k # top PROVE Seen(graph, new, Known, preorder[k], states[k].next)
  <2>1. preorder[k] # p
    BY <1>3, <1>11, TreeFacts
  <2>2. Seen(graph, predecessors, Known, preorder[k], states[k].next) /\ Known \subseteq Known
    BY <1>6
  <2> QED  BY <1>3, <1>4, <1>7, <1>9, <2>1, <2>2, SeenOther
<1>12. predecessors' = new /\ graph' = graph
  BY <1>1, <1>9 DEF c, p
<1>13. ASSUME NEW k \in 1 .. Len(preorder)
       PROVE  /\ states'[k].block = preorder[k] /\ states'[k].next >= -1
              /\ k \notin On(block_stack) => states'[k].next = -1
              /\ Seen(graph, new, Known, preorder[k], states'[k].next)
  <2>1. CASE k = top
    <3>1. states'[k].next = n - 1 /\ preorder[k] = p
      BY <1>3, <1>5, <1>8, <2>1
    <3>2. n - 1 >= -1
      BY <1>3
    <3>3. states'[k].block = preorder[k]
      BY <1>5, <1>6
    <3> QED  BY <1>3, <1>10, <2>1, <3>1, <3>2, <3>3
  <2>2. CASE k # top
    <3>1. states'[k].next = states[k].next /\ states'[k].block = states[k].block
      BY <1>5, <2>2
    <3> QED  BY <1>6, <1>11, <2>2, <3>1
  <2> QED  BY <2>1, <2>2
<1>14. StatesFollow'
  BY <1>1, <1>4, <1>5, <1>12, <1>13 DEF StatesFollow
<1> QED  BY <1>1, <1>2, <1>14

LEMMA ExactRests ==
  ASSUME ExactInv, UNCHANGED blockVars
  PROVE  ExactInv'
<1>1. UNCHANGED <<graph, slots, preorder, parent, preorder_num, states, block_stack, predecessors, postorder, postorder_num>>
  BY DEF blockVars, numbers, walk
<1>2. Known' = Known /\ Overwritten' = Overwritten
  BY <1>1 DEF Blocks, is_marked, Known, Overwritten
<1>3. StatesFollow' = StatesFollow
  BY <1>1, <1>2 DEF StatesFollow
<1> QED  BY <1>1, <1>2, <1>3 DEF ExactInv
-----------------------------------------------------------------------------
\* One more at the end of the stack.
LEMMA OnPushed ==
  ASSUME NEW n \in Nat, NEW stack, NEW par, StackPath(stack, par, n), Len(stack) \in Nat \ {0},
         NEW num, Len(par) = n, par \in Seq(Int), num \in Int, num + 1 = stack[Len(stack)]
  PROVE  /\ On(Append(stack, n + 1)) = On(stack) \cup {n + 1}
         /\ StackPath(Append(stack, n + 1), Append(par, num), n + 1)
<1> DEFINE l0 == Len(stack)
           new == Append(stack, n + 1)
           par2 == Append(par, num)
<1>1. /\ stack \in Seq(1 .. n)
      /\ \A l, m \in 1 .. l0 : l < m => stack[l] < stack[m]
      /\ \A l \in 2 .. l0 : par[stack[l]] + 1 = stack[l - 1]
  BY DEF StackPath
<1>2. \A l \in 1 .. l0 : stack[l] \in 1 .. n
  BY <1>1, ElementOfSeq
<1>3. new \in Seq(1 .. n + 1) /\ Len(new) = l0 + 1 /\ new[l0 + 1] = n + 1 /\ \A l \in 1 .. l0 : new[l] = stack[l]
  <2>1. \A x \in 1 .. n : x \in 1 .. n + 1
    OBVIOUS
  <2>2. stack \in Seq(1 .. n + 1) /\ n + 1 \in 1 .. n + 1
    BY <1>1, <2>1, SeqMonotonic
  <2> QED  BY <2>2, AppendProperties
<1>4. par2[n + 1] = num /\ \A k \in 1 .. n : par2[k] = par[k]
  BY AppendProperties
<1>5. l0 \in Nat \ {0} /\ num + 1 = stack[l0]
  OBVIOUS
<1> HIDE DEF l0, new, par2
<1>6. \A l \in 1 .. l0 + 1 : l = l0 + 1 \/ l \in 1 .. l0
  BY <1>5
<1>7. On(new) = On(stack) \cup {n + 1}
  <2>1. On(new) = {new[l] : l \in 1 .. l0 + 1} /\ On(stack) = {stack[l] : l \in 1 .. l0}
    BY <1>3 DEF On, l0
  <2>2. l0 + 1 \in 1 .. l0 + 1 /\ \A l \in 1 .. l0 : l \in 1 .. l0 + 1
    BY <1>5
  <2> QED  BY <1>3, <1>6, <2>1, <2>2
<1>8. \A l, m \in 1 .. l0 + 1 : l < m => new[l] < new[m]
  <2> SUFFICES ASSUME NEW l \in 1 .. l0 + 1, NEW m \in 1 .. l0 + 1, l < m PROVE new[l] < new[m]
    OBVIOUS
  <2>1. l \in 1 .. l0
    BY <1>5
  <2>2. CASE m = l0 + 1
    <3>1. new[m] = n + 1 /\ new[l] = stack[l]
      BY <1>3, <2>1, <2>2
    <3>2. stack[l] \in 1 .. n
      BY <1>2, <2>1
    <3> QED  BY <3>1, <3>2
  <2>3. CASE m \in 1 .. l0
    BY <1>1, <1>3, <2>1, <2>3
  <2> QED  BY <1>6, <2>2, <2>3
<1>9. \A l \in 2 .. l0 + 1 : par2[new[l]] + 1 = new[l - 1]
  <2> SUFFICES ASSUME NEW l \in 2 .. l0 + 1 PROVE par2[new[l]] + 1 = new[l - 1]
    OBVIOUS
  <2>1. CASE l = l0 + 1
    <3>1. l - 1 = l0 /\ l0 \in 1 .. l0
      BY <1>5, <2>1
    <3> QED  BY <1>3, <1>4, <1>5, <2>1, <3>1
  <2>2. CASE l # l0 + 1
    <3>1. l \in 1 .. l0 /\ l \in 2 .. l0 /\ l - 1 \in 1 .. l0
      BY <1>5, <2>2
    <3>2. new[l] = stack[l] /\ new[l - 1] = stack[l - 1] /\ stack[l] \in 1 .. n
      BY <1>2, <1>3, <3>1
    <3> QED  BY <1>1, <1>4, <3>1, <3>2
  <2> QED  BY <2>1, <2>2
<1>10. StackPath(new, par2, n + 1)
  BY <1>3, <1>8, <1>9 DEF StackPath
<1> QED  BY <1>7, <1>10 DEF new, par2

LEMMA OnPopped ==
  ASSUME NEW n \in Nat, NEW stack, NEW par, StackPath(stack, par, n), Len(stack) \in Nat \ {0}
  PROVE  /\ On(Front(stack)) = On(stack) \ {stack[Len(stack)]}
         /\ StackPath(Front(stack), par, n)
<1> DEFINE l0 == Len(stack)
           new == Front(stack)
<1>1. /\ stack \in Seq(1 .. n)
      /\ \A l, m \in 1 .. l0 : l < m => stack[l] < stack[m]
      /\ \A l \in 2 .. l0 : par[stack[l]] + 1 = stack[l - 1]
  BY DEF StackPath
<1>2. \A l \in 1 .. l0 : stack[l] \in 1 .. n
  BY <1>1, ElementOfSeq
<1>3. new \in Seq(1 .. n) /\ Len(new) = l0 - 1 /\ \A l \in 1 .. l0 - 1 : new[l] = stack[l]
  BY <1>1, Popped
<1>4. l0 \in Nat \ {0} /\ Len(stack) = l0
  OBVIOUS
<1> HIDE DEF l0, new
<1>5. On(new) = On(stack) \ {stack[l0]}
  <2>1. On(new) = {new[l] : l \in 1 .. l0 - 1} /\ On(stack) = {stack[l] : l \in 1 .. l0}
    BY <1>3, <1>4 DEF On
  <2>2. \A l \in 1 .. l0 - 1 : new[l] = stack[l] /\ stack[l] # stack[l0] /\ l \in 1 .. l0
    <3>1. \A l \in 1 .. l0 - 1 : l \in 1 .. l0 /\ l0 \in 1 .. l0 /\ l < l0
      BY <1>4
    <3>2. \A l \in 1 .. l0 - 1 : stack[l] < stack[l0] /\ stack[l] \in 1 .. n
      BY <1>1, <1>2, <3>1
    <3> QED  BY <1>3, <3>1, <3>2
  <2>3. \A l \in 1 .. l0 : l = l0 \/ l \in 1 .. l0 - 1
    BY <1>4
  <2>4. \A x \in On(new) : x \in On(stack) \ {stack[l0]}
    BY <2>1, <2>2
  <2>5. \A x \in On(stack) \ {stack[l0]} : x \in On(new)
    BY <2>1, <2>2, <2>3
  <2> QED  BY <2>4, <2>5
<1>6. StackPath(new, par, n)
  <2>1. \A l \in 1 .. l0 - 1 : l \in 1 .. l0
    BY <1>4
  <2>2. \A l \in 2 .. l0 - 1 : l \in 2 .. l0 /\ l \in 1 .. l0 - 1 /\ l - 1 \in 1 .. l0 - 1
    BY <1>4
  <2>3. \A l, m \in 1 .. l0 - 1 : l < m => new[l] < new[m]
    BY <1>1, <1>3, <2>1
  <2>4. \A l \in 2 .. l0 - 1 : par[new[l]] + 1 = new[l - 1]
    BY <1>1, <1>3, <2>2
  <2> QED  BY <1>3, <2>3, <2>4 DEF StackPath
<1> QED  BY <1>5, <1>6 DEF l0, new

LEMMA ExactNew ==
  ASSUME WalkInv, StackInv, EdgesInv, ExactInv, WalkInv', visit_new
  PROVE  ExactInv'
<1>1. /\ Visiting /\ Top.next >= 0 /\ ~is_marked(Successor)
      /\ Number(Successor, preorder_num[Top.block])
      /\ predecessors' = block_add_predecessor([predecessors EXCEPT ![Successor] = <<>>], Successor, Top.block)
      /\ states' = IF NewSlot \in DOMAIN states THEN [Decremented EXCEPT ![NewSlot] = State(Successor)]
                   ELSE Append(Decremented, State(Successor))
      /\ block_stack' = Append(block_stack, NewSlot)
      /\ UNCHANGED <<graph, slots, postorder, postorder_num>>
  BY DEF visit_new, parent_num
<1> DEFINE top == Last(block_stack)
           p == Top.block
           n == Top.next
           c == Successor
           m == Len(preorder)
<1>2. preorder' = Append(preorder, c) /\ parent' = Append(parent, preorder_num[p])
  BY <1>1 DEF Number
<1>3. /\ preorder \in Seq(Blocks) /\ m \in Nat /\ Len(parent) = m /\ parent \in Seq(Int)
      /\ \A k \in 1 .. m : preorder[k] \in Known /\ preorder[k] \in Blocks /\ preorder_num[preorder[k]] = k - 1
      /\ \A k \in 2 .. m : parent[k] \in 0 .. k - 2
  BY TreeFacts
<1>4. c \in Blocks
  BY <1>1, TopState
<1>5. Len(preorder') = m + 1 /\ preorder'[m + 1] = c /\ \A k \in 1 .. m : preorder'[k] = preorder[k]
  BY <1>2, <1>3, <1>4, AppendProperties
<1> SUFFICES ASSUME ~Overwritten'
             PROVE  /\ StatesFollow'
                    /\ StackPath(block_stack', parent', Len(preorder'))
                    /\ Behind(preorder', parent', postorder', postorder_num', On(block_stack'))
  BY DEF ExactInv
<1>6. slots = "many" \/ m + 1 <= 2
  <2>1. slots # "one" \/ ~ (m + 1 > 2)
    BY <1>1, <1>5 DEF Overwritten
  <2>2. slots \in {"one", "many"}
    BY DEF WalkInv, WalkTypes
  <2> HIDE DEF m
  <2> QED  BY <1>3, <2>1, <2>2
<1>7. /\ StatesFollow /\ StackPath(block_stack, parent, m)
      /\ Behind(preorder, parent, postorder, postorder_num, On(block_stack))
  <2>1. ~Overwritten
    <3>1. slots # "one" \/ m <= 2
      BY <1>3, <1>6
    <3> HIDE DEF m
    <3>2. slots # "one" \/ ~ (m > 2)
      BY <1>3, <3>1
    <3> QED  BY <3>2 DEF Overwritten, m
  <2> QED  BY <2>1 DEF ExactInv
<1>8. /\ top \in 1 .. m /\ top \in On(block_stack) /\ Top = states[top] /\ p = preorder[top]
      /\ p \in Blocks /\ n \in Nat /\ n < Len(graph.successors[p]) /\ Len(graph.successors[p]) \in Nat
      /\ c = graph.successors[p][n + 1]
      /\ top = block_stack[Len(block_stack)] /\ Len(block_stack) \in Nat \ {0}
  BY <1>1, <1>7, TopFollows
<1>9. /\ Len(states) = m
      /\ \A k \in 1 .. m :
           /\ states[k].block = preorder[k] /\ states[k].next >= -1
           /\ k \notin On(block_stack) => states[k].next = -1
           /\ Seen(graph, predecessors, Known, preorder[k], states[k].next)
  BY <1>7 DEF StatesFollow
<1>10. NewSlot = m + 1
  <2>1. m >= 1
    BY <1>3, <1>8
  <2>2. slots = "many" \/ m = 1
    BY <1>3, <1>6, <2>1
  <2> QED  BY <1>9, <2>2 DEF NewSlot, Init_state
<1>11. states \in Seq(BlockState) /\ NewSlot \notin DOMAIN states
  <2>1. states \in Seq(BlockState)
    BY DEF WalkInv, WalkTypes
  <2>2. DOMAIN states = 1 .. m
    BY <1>9, <2>1, LenProperties
  <2> HIDE DEF m
  <2> QED  BY <1>3, <1>10, <2>1, <2>2
<1>12. /\ Decremented \in Seq(BlockState) /\ Len(Decremented) = m
       /\ \A k \in 1 .. m :
            /\ Decremented[k].block = states[k].block
            /\ Decremented[k].next = IF k = top THEN states[k].next - 1 ELSE states[k].next
  BY <1>1, <1>9, DecrementedIs
<1>13. State(c) \in BlockState /\ State(c).block = c /\ State(c).next = Len(graph.successors[c]) - 1
       /\ Len(graph.successors[c]) \in Nat
  <2>1. successors(c) \in Seq(Blocks) /\ successors(c) = graph.successors[c]
    BY <1>4, SuccessorsAreBlocks DEF WalkInv, successors
  <2>2. Len(graph.successors[c]) \in Nat
    BY <2>1, LenProperties
  <2> QED  BY <1>4, <2>1, <2>2 DEF State, BlockState
<1>14. /\ Len(states') = m + 1 /\ states'[m + 1] = State(c)
       /\ \A k \in 1 .. m : states'[k] = Decremented[k]
  <2>1. states' = Append(Decremented, State(c))
    BY <1>1, <1>11
  <2> QED  BY <1>12, <1>13, <2>1, AppendProperties
<1>15. Known \subseteq Known' /\ c \in Known' /\ c \notin Known /\ Blocks = DOMAIN graph.successors
  <2>1. preorder_num' = [preorder_num EXCEPT ![c] = m] /\ WalkTypes /\ PreorderIsTree /\ Blocks' = Blocks
    BY <1>1 DEF Number, WalkInv, Blocks
  <2>2. preorder_num[p] \in 0 .. m - 1
    <3>1. preorder_num[p] = top - 1
      BY <1>3, <1>8
    <3> QED  BY <1>3, <1>8, <3>1
  <2>3. c \in Range(successors(preorder[preorder_num[p] + 1]))
    <3>1. preorder_num[p] + 1 = top
      BY <1>3, <1>8
    <3>2. c \in Range(successors(p))
      BY <1>1, TopState
    <3> QED  BY <1>8, <3>1, <3>2
  <2>4. \A b \in Blocks : is_marked(b) \/ b = c => is_marked(b)'
    <3>1. preorder_num[p] \in Int
      BY <2>2
    <3> QED  BY <1>1, <1>4, <2>1, <2>2, <2>3, <3>1, NumberStep
  <2> QED  BY <1>1, <1>4, <2>1, <2>4 DEF Known, Blocks
<1>16. predecessors \in [Blocks -> Seq(Blocks)] /\ predecessors[c] = <<>> /\ \A b \in Blocks : \A i \in DOMAIN predecessors[b] : predecessors[b][i] # c
  <2>1. /\ predecessors \in [Blocks -> Seq(Blocks)]
        /\ \A b \in Blocks : \A i \in 1 .. Len(predecessors[b]) : b \in Known /\ predecessors[b][i] \in Known
    BY DEF EdgesInv, EdgesOf
  <2>2. \A b \in Blocks : DOMAIN predecessors[b] = 1 .. Len(predecessors[b]) /\ Len(predecessors[b]) \in Nat
    <3>1. ASSUME NEW b \in Blocks PROVE DOMAIN predecessors[b] = 1 .. Len(predecessors[b]) /\ Len(predecessors[b]) \in Nat
      <4>1. predecessors[b] \in Seq(Blocks)
        BY <2>1
      <4> QED  BY <4>1, LenProperties
    <3> QED  BY <3>1
  <2>3. Len(predecessors[c]) = 0
    <3>1. 1 \notin 1 .. Len(predecessors[c])
      BY <1>4, <1>15, <2>1
    <3> QED  BY <1>4, <2>2, <3>1
  <2>4. predecessors[c] = <<>>
    <3>1. predecessors[c] \in Seq(Blocks)
      BY <1>4, <2>1
    <3> QED  BY <2>3, <3>1, EmptySeq
  <2> QED  BY <1>15, <2>1, <2>2, <2>4
<1>17. PICK new : new = block_add_predecessor(predecessors, c, p)
  OBVIOUS
<1>18. predecessors' = new
  <2>1. [predecessors EXCEPT ![c] = <<>>] = predecessors
    BY <1>4, <1>16
  <2> QED  BY <1>1, <1>17, <2>1
<1>19. n = states[top].next
  BY <1>8
<1>20. preorder_num[p] + 1 = block_stack[Len(block_stack)] /\ preorder_num[p] \in Int
  <2>1. preorder_num[p] = top - 1
    BY <1>3, <1>8
  <2> QED  BY <1>3, <1>8, <2>1
<1>21. block_stack' = Append(block_stack, m + 1)
  BY <1>1, <1>10
<1>22. graph' = graph
  BY <1>1
<1> HIDE DEF top, p, n, c, m
<1>23. PICK more : more = Known'
  OBVIOUS
<1>24. Seen(graph, new, more, p, n - 1)
  <2>1. Seen(graph, predecessors, Known, p, n)
    BY <1>8, <1>9, <1>19
  <2>2. Known \subseteq more /\ c \in more
    BY <1>15, <1>23
  <2> QED  BY <1>4, <1>8, <1>15, <1>16, <1>17, <2>1, <2>2, SeenNext
<1>25. ASSUME NEW k \in 1 .. m, k # top PROVE Seen(graph, new, more, preorder[k], states[k].next)
  <2>1. preorder[k] # p
    <3>1. preorder_num[preorder[k]] = k - 1 /\ preorder_num[preorder[top]] = top - 1
      BY <1>3, <1>8
    <3>2. k - 1 # top - 1
      BY <1>3, <1>8, <1>25
    <3> QED  BY <1>8, <3>1, <3>2
  <2>2. Seen(graph, predecessors, Known, preorder[k], states[k].next) /\ Known \subseteq more
    BY <1>9, <1>15, <1>23
  <2> QED  BY <1>4, <1>8, <1>15, <1>16, <1>17, <2>1, <2>2, SeenOther
<1>26. Seen(graph, new, more, c, Len(graph.successors[c]) - 1)
  <2>1. Seen(graph, predecessors, Known, c, Len(graph.successors[c]) - 1)
    BY <1>13, <1>15, <1>16, SeenNone
  <2>2. c # p /\ Known \subseteq more
    BY <1>3, <1>8, <1>15, <1>23
  <2> QED  BY <1>4, <1>8, <1>15, <1>16, <1>17, <2>1, <2>2, SeenOther
<1>27. /\ On(block_stack') = On(block_stack) \cup {m + 1}
       /\ StackPath(block_stack', parent', m + 1)
  BY <1>2, <1>3, <1>7, <1>8, <1>20, <1>21, OnPushed
<1>28. ASSUME NEW k \in 1 .. m + 1
       PROVE  /\ states'[k].block = preorder'[k] /\ states'[k].next >= -1
              /\ k \notin On(block_stack') => states'[k].next = -1
              /\ Seen(graph, new, more, preorder'[k], states'[k].next)
  <2>1. CASE k = m + 1
    <3>1. states'[k].block = c /\ states'[k].next = Len(graph.successors[c]) - 1 /\ preorder'[k] = c
      BY <1>5, <1>13, <1>14, <2>1
    <3>2. Len(graph.successors[c]) - 1 >= -1 /\ k \in On(block_stack')
      BY <1>13, <1>27, <2>1
    <3> QED  BY <1>26, <3>1, <3>2
  <2>2. CASE k = top
    <3>1. k \in 1 .. m /\ states'[k].next = n - 1 /\ preorder'[k] = p /\ states'[k].block = p /\ k \in On(block_stack')
      BY <1>5, <1>8, <1>9, <1>12, <1>14, <1>19, <1>27, <2>2
    <3>2. n - 1 >= -1
      BY <1>8
    <3> QED  BY <1>24, <3>1, <3>2
  <2>3. CASE k # m + 1 /\ k # top
    <3>1. k \in 1 .. m
      BY <1>3, <2>3
    <3>2. /\ states'[k].next = states[k].next /\ states'[k].block = preorder[k] /\ preorder'[k] = preorder[k]
          /\ k \notin On(block_stack') => k \notin On(block_stack)
      BY <1>5, <1>9, <1>12, <1>14, <1>27, <2>3, <3>1
    <3> QED  BY <1>9, <1>25, <2>3, <3>1, <3>2
  <2> QED  BY <2>1, <2>2, <2>3
<1>29. StatesFollow'
  BY <1>5, <1>14, <1>18, <1>22, <1>23, <1>28 DEF StatesFollow
<1>30. Behind(preorder', parent', postorder', postorder_num', On(block_stack'))
  <2>1. /\ \A i \in 1 .. Len(postorder) : postorder_num[postorder[i]] = i - 1 /\ \E k \in 1 .. m : postorder[i] = preorder[k]
        /\ \A k \in 1 .. m : k \in On(block_stack) <=> \A i \in 1 .. Len(postorder) : postorder[i] # preorder[k]
        /\ \A k \in 2 .. m : k \notin On(block_stack) /\ parent[k] + 1 \notin On(block_stack) =>
             postorder_num[preorder[k]] < postorder_num[preorder[parent[k] + 1]]
    BY <1>7 DEF Behind, m
  <2>2. postorder' = postorder /\ postorder_num' = postorder_num
    BY <1>1
  <2>3. \A k \in 1 .. m : k # m + 1 /\ k \in 1 .. m + 1 /\ preorder'[k] = preorder[k]
    BY <1>3, <1>5
  <2>4. \A i \in 1 .. Len(postorder) : postorder_num[postorder[i]] = i - 1 /\ \E k \in 1 .. m + 1 : postorder[i] = preorder'[k]
    BY <2>1, <2>3
  <2>5. ASSUME NEW k \in 1 .. m + 1 PROVE k \in On(block_stack') <=> \A i \in 1 .. Len(postorder) : postorder[i] # preorder'[k]
    <3>1. CASE k = m + 1
      <4>1. \A i \in 1 .. Len(postorder) : postorder[i] \in Known
        BY <1>3, <2>1
      <4> QED  BY <1>5, <1>15, <1>27, <3>1, <4>1
    <3>2. CASE k # m + 1
      <4>1. k \in 1 .. m
        BY <1>3, <3>2
      <4> QED  BY <1>27, <2>1, <2>3, <3>2, <4>1
    <3> QED  BY <3>1, <3>2
  <2>6. ASSUME NEW k \in 2 .. m + 1, k \notin On(block_stack'), parent'[k] + 1 \notin On(block_stack')
        PROVE  postorder_num[preorder'[k]] < postorder_num[preorder'[parent'[k] + 1]]
    <3>1. k # m + 1
      BY <1>27, <2>6
    <3>2. k \in 2 .. m /\ k \in 1 .. m
      BY <1>3, <3>1
    <3>3. parent'[k] = parent[k]
      BY <1>2, <1>3, <1>20, <3>2, AppendProperties
    <3>4. parent[k] + 1 \in 1 .. m
      <4>1. parent[k] \in 0 .. k - 2
        BY <1>3, <3>2
      <4> QED  BY <1>3, <3>2, <4>1
    <3>5. k \notin On(block_stack) /\ parent[k] + 1 \notin On(block_stack)
      BY <1>27, <2>6, <3>3
    <3> QED  BY <2>1, <2>3, <3>2, <3>3, <3>4, <3>5
  <2> QED  BY <1>5, <2>2, <2>4, <2>5, <2>6 DEF Behind
<1> QED  BY <1>5, <1>27, <1>29, <1>30
-----------------------------------------------------------------------------
LEMMA ExactLeaves ==
  ASSUME WalkInv, StackInv, ExactInv, leave_block
  PROVE  ExactInv'
<1>1. /\ Visiting /\ Top.next < 0 /\ block_stack' = Front(block_stack)
      /\ postorder_num' = [postorder_num EXCEPT ![Top.block] = Len(postorder)]
      /\ postorder' = Append(postorder, Top.block)
      /\ UNCHANGED <<graph, slots, preorder, parent, preorder_num, states, predecessors>>
  BY DEF leave_block, numbers
<1> SUFFICES ASSUME ~Overwritten'
             PROVE  /\ StatesFollow'
                    /\ StackPath(block_stack', parent', Len(preorder'))
                    /\ Behind(preorder', parent', postorder', postorder_num', On(block_stack'))
  BY DEF ExactInv
<1> DEFINE top == Last(block_stack)
           p == Top.block
           m == Len(preorder)
           q == Len(postorder)
           on == On(block_stack)
<1>2. /\ StatesFollow /\ StackPath(block_stack, parent, m)
      /\ Behind(preorder, parent, postorder, postorder_num, on)
  BY <1>1 DEF ExactInv, Overwritten
<1>3. /\ top \in 1 .. m /\ top \in on /\ Top = states[top] /\ p = preorder[top]
      /\ p \in Blocks /\ Top.next = -1
      /\ top = block_stack[Len(block_stack)] /\ Len(block_stack) \in Nat \ {0} /\ block_stack[1] = 1
  BY <1>1, <1>2, TopFollows
<1>4. /\ m \in Nat
      /\ \A k \in 1 .. m : preorder[k] \in Blocks /\ preorder_num[preorder[k]] = k - 1
      /\ \A k \in 2 .. m : parent[k] \in 0 .. k - 2
  BY TreeFacts
<1>5. postorder \in Seq(Blocks) /\ postorder_num \in [Blocks -> Int] /\ q \in Nat
  BY LenProperties DEF WalkInv, WalkTypes
<1>6. /\ \A i \in 1 .. q : postorder_num[postorder[i]] = i - 1 /\ \E k \in 1 .. m : postorder[i] = preorder[k]
      /\ \A k \in 1 .. m : k \in on <=> \A i \in 1 .. q : postorder[i] # preorder[k]
      /\ \A k \in 2 .. m : k \notin on /\ parent[k] + 1 \notin on =>
           postorder_num[preorder[k]] < postorder_num[preorder[parent[k] + 1]]
  BY <1>2 DEF Behind
<1>7. /\ Len(postorder') = q + 1 /\ postorder'[q + 1] = p /\ \A i \in 1 .. q : postorder'[i] = postorder[i]
      /\ postorder_num'[p] = q /\ \A b \in Blocks : b # p => postorder_num'[b] = postorder_num[b]
  BY <1>1, <1>3, <1>5, AppendProperties
<1>8. On(block_stack') = on \ {top} /\ StackPath(block_stack', parent', Len(preorder'))
  <2>1. On(Front(block_stack)) = on \ {top} /\ StackPath(Front(block_stack), parent, m)
    BY <1>2, <1>3, <1>4, OnPopped
  <2> QED  BY <1>1, <2>1
\* A block on the stack that is not the entry has its parent there.
<1>9. top = 1 \/ (parent[top] + 1 \in on /\ parent[top] + 1 # top)
  <2>1. CASE Len(block_stack) = 1
    BY <1>3, <2>1
  <2>2. CASE Len(block_stack) # 1
    <3>1. Len(block_stack) \in 2 .. Len(block_stack) /\ Len(block_stack) - 1 \in 1 .. Len(block_stack)
      <4>1. PICK l0 \in Nat \ {0} : l0 = Len(block_stack)
        BY <1>3
      <4>2. l0 \in 2 .. l0 /\ l0 - 1 \in 1 .. l0
        BY <2>2, <4>1
      <4> QED  BY <4>1, <4>2
    <3>2. parent[top] + 1 = block_stack[Len(block_stack) - 1]
      BY <1>2, <1>3, <3>1 DEF StackPath
    <3>3. parent[top] + 1 \in on
      BY <3>1, <3>2 DEF On
    <3>4. top = 1 \/ parent[top] \in 0 .. top - 2
      BY <1>3, <1>4
    <3> QED  BY <1>3, <1>4, <3>3, <3>4
  <2> QED  BY <2>1, <2>2
<1>10. StatesFollow'
  <2>1. /\ Len(states) = m
        /\ \A k \in 1 .. m :
             /\ states[k].block = preorder[k] /\ states[k].next >= -1
             /\ k \notin on => states[k].next = -1
             /\ Seen(graph, predecessors, Known, preorder[k], states[k].next)
    BY <1>2 DEF StatesFollow
  <2>2. Known' = Known
    BY <1>1 DEF Known, is_marked, Blocks
  <2>3. \A k \in 1 .. m : k \notin On(block_stack') => states[k].next = -1
    BY <1>3, <1>8, <2>1
  <2> QED  BY <1>1, <2>1, <2>2, <2>3 DEF StatesFollow
<1> HIDE DEF top, p, m, q, on
<1>11. \A k \in 1 .. m : preorder[k] = p <=> k = top
  <2>1. ASSUME NEW k \in 1 .. m, preorder[k] = p PROVE k = top
    <3>1. preorder_num[preorder[k]] = k - 1 /\ preorder_num[preorder[top]] = top - 1
      BY <1>3, <1>4
    <3>2. k - 1 = top - 1
      BY <1>3, <2>1, <3>1
    <3> QED  BY <1>3, <1>4, <3>2
  <2> QED  BY <1>3, <2>1
<1>12. \A i \in 1 .. q : postorder[i] # p /\ postorder[i] \in Blocks
  BY <1>3, <1>4, <1>6
<1>13. \A i \in 1 .. q + 1 : i = q + 1 \/ i \in 1 .. q
  BY <1>5
<1>14. ASSUME NEW i \in 1 .. q + 1 PROVE postorder_num'[postorder'[i]] = i - 1 /\ \E k \in 1 .. m : postorder'[i] = preorder[k]
  <2>1. CASE i = q + 1
    BY <1>3, <1>5, <1>7, <2>1
  <2>2. CASE i \in 1 .. q
    <3>1. postorder'[i] = postorder[i] /\ postorder_num'[postorder[i]] = postorder_num[postorder[i]]
      BY <1>7, <1>12, <2>2
    <3> QED  BY <1>6, <2>2, <3>1
  <2> QED  BY <1>13, <2>1, <2>2
<1>15. ASSUME NEW k \in 1 .. m PROVE k \in On(block_stack') <=> \A i \in 1 .. q + 1 : postorder'[i] # preorder[k]
  <2>1. q + 1 \in 1 .. q + 1 /\ \A i \in 1 .. q : i \in 1 .. q + 1
    BY <1>5
  <2>2. CASE k = top
    <3>1. postorder'[q + 1] = preorder[k] /\ k \notin On(block_stack')
      BY <1>3, <1>7, <1>8, <2>2
    <3> QED  BY <2>1, <3>1
  <2>3. CASE k # top
    <3>1. postorder'[q + 1] # preorder[k] /\ (k \in On(block_stack') <=> k \in on)
      BY <1>7, <1>8, <1>11, <2>3
    <3> QED  BY <1>6, <1>7, <1>13, <2>1, <3>1
  <2> QED  BY <2>2, <2>3
<1>16. ASSUME NEW k \in 2 .. m, k \notin On(block_stack'), parent[k] + 1 \notin On(block_stack')
       PROVE  postorder_num'[preorder[k]] < postorder_num'[preorder[parent[k] + 1]]
  <2>1. k \in 1 .. m /\ parent[k] + 1 \in 1 .. m /\ k # 1
    <3>1. parent[k] \in 0 .. k - 2
      BY <1>4
    <3> QED  BY <1>4, <3>1
  <2>2. k # top
    BY <1>8, <1>9, <1>16, <2>1
  <2>3. k \notin on /\ postorder_num'[preorder[k]] = postorder_num[preorder[k]]
    BY <1>4, <1>7, <1>8, <1>11, <1>16, <2>1, <2>2
  <2>4. CASE parent[k] + 1 = top
    <3>1. PICK i \in 1 .. q : postorder[i] = preorder[k]
      BY <1>6, <2>1, <2>3
    <3>2. postorder_num[preorder[k]] = i - 1
      BY <1>6, <3>1
    <3>3. postorder_num'[preorder[parent[k] + 1]] = q
      BY <1>3, <1>7, <2>4
    <3>4. i - 1 < q
      BY <1>5
    <3> QED  BY <2>3, <3>2, <3>3, <3>4
  <2>5. CASE parent[k] + 1 # top
    <3>1. parent[k] + 1 \notin on /\ postorder_num'[preorder[parent[k] + 1]] = postorder_num[preorder[parent[k] + 1]]
      BY <1>4, <1>7, <1>8, <1>11, <1>16, <2>1, <2>5
    <3> QED  BY <1>6, <2>3, <3>1
  <2> QED  BY <2>4, <2>5
<1>17. Behind(preorder', parent', postorder', postorder_num', On(block_stack'))
  <2>1. preorder' = preorder /\ parent' = parent /\ Len(preorder) = m
    BY <1>1 DEF m
  <2>2. Behind(preorder, parent, postorder', postorder_num', On(block_stack'))
    BY <1>7, <1>14, <1>15, <1>16, <2>1 DEF Behind
  <2> QED  BY <2>1, <2>2
<1> QED  BY <1>8, <1>10, <1>17

LEMMA ExactStart == Init => ExactInv
<1> SUFFICES ASSUME Init PROVE ExactInv
  OBVIOUS
<1>1. preorder = <<>> /\ states = <<>> /\ block_stack = <<>> /\ postorder = <<>>
  BY DEF Init, BlocksInit
<1>2. Len(preorder) = 0 /\ Len(states) = 0 /\ Len(block_stack) = 0 /\ Len(postorder) = 0
  BY <1>1
<1>3. StackPath(block_stack, parent, 0)
  <2>1. <<>> \in Seq(1 .. 0)
    OBVIOUS
  <2> QED  BY <1>1, <1>2, <2>1 DEF StackPath
<1>4. StatesFollow
  BY <1>2 DEF StatesFollow
<1>5. Behind(preorder, parent, postorder, postorder_num, On(block_stack))
  BY <1>2 DEF Behind
<1> QED  BY <1>2, <1>3, <1>4, <1>5 DEF ExactInv

LEMMA ExactStep ==
  ASSUME GraphInv, ExactInv, [Next]_vars
  PROVE  ExactInv'
<1>1. WalkInv /\ StackInv /\ EdgesInv /\ CountInv /\ WalkInv'
  BY GraphStep DEF GraphInv
<1>2. CASE Discovery
  BY <1>1, <1>2, ExactEnters, ExactMarked, ExactNew, ExactLeaves DEF Discovery, graph_discover_blocks
<1>3. CASE ~Discovery
  BY <1>3, WalkRests, ExactRests
<1> QED  BY <1>2, <1>3

LEMMA ExactAlways == Spec => [](GraphInv /\ ExactInv)
<1>1. Init => GraphInv /\ ExactInv
  BY GraphStart, ExactStart
<1>2. GraphInv /\ ExactInv /\ [Next]_vars => GraphInv' /\ ExactInv'
  BY GraphStep, ExactStep
<1> QED  BY <1>1, <1>2, PTL DEF Spec

LEMMA WalkExact ==
  ASSUME GraphInv, ExactInv, Discovered, ~Overwritten
  PROVE  PredecessorsExact /\ PostorderExact
<1> DEFINE m == Len(preorder)
<1>1. /\ preorder \in Seq(Blocks) /\ m \in Nat /\ DOMAIN preorder = 1 .. m
      /\ \A k \in 1 .. m : preorder[k] \in Known
      /\ \A b \in Known : b \in Blocks /\ preorder_num[b] + 1 \in 1 .. m /\ preorder[preorder_num[b] + 1] = b
  BY TreeFacts DEF GraphInv
<1>2. Met = Known
  BY <1>1 DEF Met, Range
<1>3. StatesFollow /\ Behind(preorder, parent, postorder, postorder_num, On(block_stack)) /\ block_stack = <<>>
  BY DEF ExactInv, Discovered
<1>4. On(block_stack) = {}
  BY <1>3 DEF On
<1>5. \A b \in Known : Seen(graph, predecessors, Known, b, -1) /\ b \in Blocks
  BY <1>1, <1>3, <1>4 DEF StatesFollow
<1>6. \A b \in Blocks : /\ successors(b) = graph.successors[b] /\ DOMAIN graph.successors[b] = 1 .. Len(graph.successors[b])
                        /\ (-1) + 2 = 1
  <2>1. ASSUME NEW b \in Blocks PROVE DOMAIN graph.successors[b] = 1 .. Len(graph.successors[b])
    <3>1. successors(b) \in Seq(Blocks)
      BY SuccessorsAreBlocks DEF GraphInv, WalkInv
    <3> QED  BY <3>1, LenProperties DEF successors
  <2> QED  BY <2>1 DEF successors
<1>7. PredecessorsExact
  <2>1. ASSUME NEW b \in Met PROVE Range(successors(b)) \subseteq Met
    <3>1. \A i \in 1 .. Len(graph.successors[b]) : graph.successors[b][i] \in Known
      BY <1>2, <1>5, <1>6 DEF Seen
    <3> QED  BY <1>2, <1>5, <1>6, <3>1 DEF Range
  <2>2. ASSUME NEW b \in Met, NEW p \in Met, graph.kind[b] = "join"
        PROVE  Count(predecessors[b], p) = Count(successors(p), b)
    <3>1. Seen(graph, predecessors, Known, p, -1) /\ b \in DOMAIN graph.successors /\ p \in Blocks
      BY <1>2, <1>5 DEF Blocks
    <3>2. Count(predecessors[b], p) = Cardinality(Processed(graph, p, -1, b))
      BY <2>2, <3>1 DEF Seen
    <3>3. Processed(graph, p, -1, b) = {i \in DOMAIN successors(p) : successors(p)[i] = b}
      BY <1>6, <3>1 DEF Processed
    <3> QED  BY <3>2, <3>3 DEF Count
  <2> QED  BY <2>1, <2>2 DEF PredecessorsExact
<1>8. PostorderExact
  <2> DEFINE q == Len(postorder)
  <2>1. /\ \A i \in 1 .. q : postorder_num[postorder[i]] = i - 1 /\ \E k \in 1 .. m : postorder[i] = preorder[k]
        /\ \A k \in 1 .. m : \E i \in 1 .. q : postorder[i] = preorder[k]
        /\ \A k \in 2 .. m : postorder_num[preorder[k]] < postorder_num[preorder[parent[k] + 1]]
    BY <1>3, <1>4 DEF Behind
  <2>2. DOMAIN postorder = 1 .. q /\ q \in Nat
    BY LenProperties DEF GraphInv, WalkInv, WalkTypes
  <2>3. q = m
    <3>1. Len(block_stack) = 0
      BY <1>3
    <3> QED  BY <1>1, <2>2, <3>1 DEF GraphInv, CountInv
  <2>4. Range(postorder) = Met
    <3>1. Range(postorder) = {postorder[i] : i \in 1 .. q} /\ Met = {preorder[k] : k \in 1 .. m}
      BY <1>1, <2>2 DEF Range, Met
    <3>2. \A i \in 1 .. q : postorder[i] \in {preorder[k] : k \in 1 .. m}
      BY <2>1
    <3>3. \A k \in 1 .. m : preorder[k] \in {postorder[i] : i \in 1 .. q}
      BY <2>1
    <3> HIDE DEF q, m
    <3> QED  BY <3>1, <3>2, <3>3
  <2>5. \A i \in DOMAIN preorder : i > 1 => i \in 2 .. m
    BY <1>1
  <2> QED  BY <2>1, <2>2, <2>3, <2>4, <2>5 DEF PostorderExact
<1> QED  BY <1>7, <1>8

(* Where no state is overwritten, every block that can be reached is met   *)
(* and a join's predecessors are the sources of its edges, one for each:   *)
(* for every graph (flow_graph.c 21-60, instructions.c 163-185).           *)
THEOREM EveryEdgeRecorded == Spec => []PredecessorsExact
<1>1. GraphInv /\ ExactInv => PredecessorsExact
  BY WalkExact DEF PredecessorsExact
<1> QED  BY <1>1, ExactAlways, PTL

(* And every block has one place in postorder, behind those below it       *)
(* (flow_graph.c 51-55).                                                   *)
THEOREM PostorderComplete == Spec => []PostorderExact
<1>1. GraphInv /\ ExactInv => PostorderExact
  BY WalkExact DEF PostorderExact
<1> QED  BY <1>1, ExactAlways, PTL
-----------------------------------------------------------------------------
\* The stores of block b that have a bit, and the marks they should get.
Stored(b, j) == code(b)[j].op = "store_local" /\ code(b)[j].index < Len(postorder)
StoredLater(b, i) == {j \in DOMAIN code(b) : j > i /\ Stored(b, j) /\ Bit(code(b)[j].index) = Bit(code(b)[i].index)}
LastStores(b) == {i \in DOMAIN code(b) : Stored(b, i) /\ StoredLater(b, i) = {}}
DeadStores(b) == {i \in DOMAIN code(b) : Stored(b, i) /\ StoredLater(b, i) # {}}

\* What the last k instructions of block b add to sets.
After(b, sets, k) ==
  LET places == {j \in DOMAIN code(b) : j > Len(code(b)) - k}
  IN  [kill |-> {Bit(code(b)[j].index) : j \in {i \in places : Stored(b, i)}},
       dead |-> sets.dead \cup (DeadStores(b) \cap places),
       last |-> sets.last \cup (LastStores(b) \cap places)]

LEMMA CodeIsSeq ==
  ASSUME WalkTypes, NEW b \in Blocks
  PROVE  /\ Len(code(b)) \in Nat /\ DOMAIN code(b) = 1 .. Len(code(b))
         /\ \A j \in DOMAIN code(b) : code(b)[j].op \in {"store_local", "other"} /\ code(b)[j].index \in Int
<1>1. code(b) \in Seq([op : {"store_local", "other"}, index : Int])
  BY SsaAssumption DEF WalkTypes, Blocks, code
<1>2. Len(code(b)) \in Nat /\ DOMAIN code(b) = 1 .. Len(code(b))
  BY <1>1, LenProperties
<1>3. \A j \in 1 .. Len(code(b)) : code(b)[j] \in [op : {"store_local", "other"}, index : Int]
  BY <1>1, ElementOfSeq
<1> QED  BY <1>2, <1>3

\* Backward goes from the last instruction to the first.
LEMMA BackwardIs ==
  ASSUME WalkTypes, NEW b \in Blocks, NEW k \in 1 .. Len(code(b))
  PROVE  Backward(b)[k] = Len(code(b)) - k + 1
<1> DEFINE n == Len(code(b))
           s == [i \in DOMAIN code(b) |-> i]
<1>1. n \in Nat /\ DOMAIN code(b) = 1 .. n
  BY CodeIsSeq
<1>2. s = [i \in 1 .. n |-> i] /\ s \in Seq(Nat) /\ Len(s) = n
  <2>1. s = [i \in 1 .. n |-> i]
    BY <1>1
  <2> QED  BY <1>1, <2>1
<1>3. Backward(b) = Reverse(s)
  BY DEF Backward
<1>4. Reverse(s) = [i \in 1 .. n |-> s[(n - i) + 1]]
  BY <1>2 DEF Reverse
<1>5. k \in 1 .. n
  OBVIOUS
<1>6. s[(n - k) + 1] = n - k + 1
  <2>1. (n - k) + 1 \in 1 .. n
    BY <1>1, <1>5
  <2> HIDE DEF n
  <2> QED  BY <1>2, <2>1
<1> HIDE DEF n, s
<1>7. Backward(b)[k] = n - k + 1
  BY <1>3, <1>4, <1>5, <1>6
<1> QED  BY <1>7 DEF n

\* One store more.
LEMMA AfterOneMore ==
  ASSUME WalkTypes, NEW b \in Blocks, NEW sets, NEW k \in 1 .. Len(code(b)),
         Len(live_in) = Len(postorder), live_in[block_index] = {}
  PROVE  After(b, sets, k) = StoreLocal(b, After(b, sets, k - 1), Len(code(b)) - k + 1)
<1> DEFINE n == Len(code(b))
           i == Len(code(b)) - k + 1
           Lasts(m) == {j \in DOMAIN code(b) : j > n - m}
           kill0 == {Bit(code(b)[j].index) : j \in {l \in Lasts(k - 1) : Stored(b, l)}}
           dead0 == sets.dead \cup (DeadStores(b) \cap Lasts(k - 1))
           last0 == sets.last \cup (LastStores(b) \cap Lasts(k - 1))
           old == After(b, sets, k - 1)
           bit == Bit(code(b)[i].index)
<1>1. /\ n \in Nat /\ DOMAIN code(b) = 1 .. n /\ i \in 1 .. n
      /\ code(b)[i].index \in Int
  <2>1. n \in Nat /\ DOMAIN code(b) = 1 .. n
    BY CodeIsSeq
  <2>2. i \in 1 .. n
    BY <2>1
  <2> HIDE DEF i, n
  <2> QED  BY <2>1, <2>2, CodeIsSeq
<1>2. old = [kill |-> kill0, dead |-> dead0, last |-> last0]
  BY DEF After
<1>3. Lasts(k) = Lasts(k - 1) \cup {i} /\ i \notin Lasts(k - 1)
  <2>1. n - k + 1 = i /\ n - (k - 1) = i /\ n - k = i - 1 /\ i \in Int
    BY <1>1
  <2>2. \A j \in DOMAIN code(b) : j > n - k <=> (j > n - (k - 1) \/ j = i)
    <3> HIDE DEF i
    <3> QED  BY <1>1, <2>1
  <2>3. ~ (i > n - (k - 1)) /\ i \in DOMAIN code(b)
    <3> HIDE DEF i
    <3> QED  BY <1>1, <2>1
  <2> QED  BY <2>2, <2>3
<1>4. Lasts(k - 1) = {j \in DOMAIN code(b) : j > i}
  <2>1. n - (k - 1) = i
    BY <1>1
  <2> QED  BY <2>1
<1>5. Stored(b, i) <=> ~ (code(b)[i].op # "store_local" \/ code(b)[i].index >= Len(live_in))
  <2>1. postorder \in Seq(Blocks)
    BY DEF WalkTypes
  <2>2. Len(postorder) \in Nat
    BY <2>1, LenProperties
  <2> HIDE DEF i
  <2> QED  BY <1>1, <2>2 DEF Stored
<1>6. StoreLocal(b, old, i) =
        IF ~Stored(b, i) THEN old
        ELSE IF bit \in old.kill
        THEN [old EXCEPT !.dead = @ \cup {i}]
        ELSE [old EXCEPT !.last = @ \cup {i}, !.kill = @ \cup {bit}]
  <2> HIDE DEF i, old
  <2> QED  BY <1>5 DEF StoreLocal
<1>7. After(b, sets, k) =
        [kill |-> {Bit(code(b)[j].index) : j \in {l \in Lasts(k) : Stored(b, l)}},
         dead |-> sets.dead \cup (DeadStores(b) \cap Lasts(k)),
         last |-> sets.last \cup (LastStores(b) \cap Lasts(k))]
  BY DEF After
<1>8. i \in DOMAIN code(b)
  BY <1>1
<1>9. PICK old2 : old2 = old
  OBVIOUS
<1> HIDE DEF i, n, Lasts, old
<1>10. Stored(b, i) => (bit \in kill0 <=> StoredLater(b, i) # {})
  BY <1>4 DEF StoredLater
<1>11. CASE ~Stored(b, i)
  <2>1. {j \in Lasts(k) : Stored(b, j)} = {l \in Lasts(k - 1) : Stored(b, l)}
    BY <1>3, <1>11
  <2>2. i \notin DeadStores(b) /\ i \notin LastStores(b)
    BY <1>11 DEF DeadStores, LastStores
  <2>3. DeadStores(b) \cap Lasts(k) = DeadStores(b) \cap Lasts(k - 1) /\ LastStores(b) \cap Lasts(k) = LastStores(b) \cap Lasts(k - 1)
    BY <1>3, <2>2
  <2>4. After(b, sets, k) = old
    BY <1>2, <1>7, <2>1, <2>3
  <2>5. StoreLocal(b, old, i) = old
    BY <1>6, <1>11
  <2> QED  BY <2>4, <2>5 DEF i, old
<1>12. CASE Stored(b, i) /\ StoredLater(b, i) # {}
  <2>1. i \in DeadStores(b) /\ i \notin LastStores(b)
    BY <1>8, <1>12 DEF DeadStores, LastStores
  <2>2. DeadStores(b) \cap Lasts(k) = (DeadStores(b) \cap Lasts(k - 1)) \cup {i} /\ LastStores(b) \cap Lasts(k) = LastStores(b) \cap Lasts(k - 1)
    BY <1>3, <2>1
  <2>3. bit \in kill0
    BY <1>10, <1>12
  <2>4. {Bit(code(b)[j].index) : j \in {l \in Lasts(k) : Stored(b, l)}} = kill0
    <3>1. {j \in Lasts(k) : Stored(b, j)} = {l \in Lasts(k - 1) : Stored(b, l)} \cup {i}
      BY <1>3, <1>12
    <3> QED  BY <2>3, <3>1
  <2>5. After(b, sets, k) = [kill |-> kill0, dead |-> dead0 \cup {i}, last |-> last0]
    BY <1>7, <2>2, <2>4
  <2>6. StoreLocal(b, old, i) = [old EXCEPT !.dead = @ \cup {i}]
    BY <1>2, <1>6, <1>12, <2>3
  <2> HIDE DEF kill0, dead0, last0
  <2>7. StoreLocal(b, old, i) = [kill |-> kill0, dead |-> dead0 \cup {i}, last |-> last0]
    BY <1>2, <2>6
  <2> QED  BY <2>5, <2>7 DEF i, old
<1>13. CASE Stored(b, i) /\ StoredLater(b, i) = {}
  <2>1. i \notin DeadStores(b) /\ i \in LastStores(b)
    BY <1>8, <1>13 DEF DeadStores, LastStores
  <2>2. DeadStores(b) \cap Lasts(k) = DeadStores(b) \cap Lasts(k - 1) /\ LastStores(b) \cap Lasts(k) = (LastStores(b) \cap Lasts(k - 1)) \cup {i}
    BY <1>3, <2>1
  <2>3. bit \notin kill0
    BY <1>10, <1>13
  <2>4. {Bit(code(b)[j].index) : j \in {l \in Lasts(k) : Stored(b, l)}} = kill0 \cup {bit}
    <3>1. {j \in Lasts(k) : Stored(b, j)} = {l \in Lasts(k - 1) : Stored(b, l)} \cup {i}
      BY <1>3, <1>13
    <3> QED  BY <3>1
  <2>5. After(b, sets, k) = [kill |-> kill0 \cup {bit}, dead |-> dead0, last |-> last0 \cup {i}]
    BY <1>7, <2>2, <2>4
  <2>6. StoreLocal(b, old, i) = [old EXCEPT !.last = @ \cup {i}, !.kill = @ \cup {bit}]
    BY <1>2, <1>6, <1>13, <2>3
  <2> HIDE DEF kill0, dead0, last0, bit
  <2>7. StoreLocal(b, old, i) = [kill |-> kill0 \cup {bit}, dead |-> dead0, last |-> last0 \cup {i}]
    BY <1>2, <2>6
  <2> QED  BY <2>5, <2>7 DEF i, old
<1> QED  BY <1>11, <1>12, <1>13

LEMMA StoreLocalsIs ==
  ASSUME WalkTypes, NEW b \in Blocks, Len(live_in) = Len(postorder), live_in[block_index] = {}, kill[block_index] = {}
  PROVE  /\ StoreLocals(b).dead = is_dead[b] \cup DeadStores(b)
         /\ StoreLocals(b).last = is_last[b] \cup LastStores(b)
<1> DEFINE n == Len(code(b))
           start == [kill |-> kill[block_index], dead |-> is_dead[b], last |-> is_last[b]]
           sets == CHOOSE f : f = [k \in 0 .. n |-> IF k = 0 THEN start ELSE StoreLocal(b, f[k - 1], Backward(b)[k])]
           g == [k \in 0 .. n |-> After(b, start, k)]
<1>1. n \in Nat /\ DOMAIN code(b) = 1 .. n
  BY CodeIsSeq
<1>2. After(b, start, 0) = start
  <2>1. {j \in DOMAIN code(b) : j > n - 0} = {}
    BY <1>1
  <2> QED  BY <2>1 DEF After
<1>3. ASSUME NEW k \in 0 .. n, k # 0 PROVE After(b, start, k) = StoreLocal(b, After(b, start, k - 1), Backward(b)[k])
  <2>1. k \in 1 .. n
    BY <1>3
  <2>2. Backward(b)[k] = n - k + 1
    BY <2>1, BackwardIs
  <2> HIDE DEF start
  <2>3. After(b, start, k) = StoreLocal(b, After(b, start, k - 1), n - k + 1)
    BY <2>1, AfterOneMore
  <2> QED  BY <2>2, <2>3
<1>4. StoreLocals(b) = sets[n]
  BY DEF StoreLocals
<1>5. sets = [k \in 0 .. n |-> IF k = 0 THEN start ELSE StoreLocal(b, sets[k - 1], Backward(b)[k])]
  <2>1. g = [k \in 0 .. n |-> IF k = 0 THEN start ELSE StoreLocal(b, g[k - 1], Backward(b)[k])]
    <3>1. ASSUME NEW k \in 0 .. n PROVE After(b, start, k) = IF k = 0 THEN start ELSE StoreLocal(b, g[k - 1], Backward(b)[k])
      <4>1. CASE k = 0
        BY <1>2, <4>1
      <4>2. CASE k # 0
        <5>1. k - 1 \in 0 .. n
          BY <1>1, <4>2
        <5>2. g[k - 1] = After(b, start, k - 1)
          BY <5>1
        <5> QED  BY <1>3, <4>2, <5>2
      <4> QED  BY <4>1, <4>2
    <3>2. g = [k \in 0 .. n |-> After(b, start, k)]
      OBVIOUS
    <3> HIDE DEF g, start
    <3> QED  BY <3>1, <3>2
  <2> HIDE DEF g, start
  <2>2. \E f : f = [k \in 0 .. n |-> IF k = 0 THEN start ELSE StoreLocal(b, f[k - 1], Backward(b)[k])]
    BY <2>1
  <2>3. PICK f : f = [k \in 0 .. n |-> IF k = 0 THEN start ELSE StoreLocal(b, f[k - 1], Backward(b)[k])]
    BY <2>2
  <2> QED  BY <2>3, Zenon
<1> HIDE DEF sets, start, g
<1>6. \A k \in 0 .. n : sets[k] = IF k = 0 THEN start ELSE StoreLocal(b, sets[k - 1], Backward(b)[k])
  BY <1>5, Zenon
<1>7. sets[n] = After(b, start, n)
  <2> DEFINE S == {k \in 0 .. n : sets[k] = After(b, start, k)}
  <2>1. ASSUME NEW k \in 0 .. n, \A j \in 0 .. k - 1 : j \in S PROVE k \in S
    <3>1. CASE k = 0
      BY <1>2, <1>6, <3>1
    <3>2. CASE k # 0
      <4>1. k - 1 \in 0 .. k - 1
        BY <3>2
      <4>2. sets[k - 1] = After(b, start, k - 1)
        BY <2>1, <4>1
      <4>3. sets[k] = StoreLocal(b, sets[k - 1], Backward(b)[k])
        BY <1>6, <3>2
      <4>4. sets[k] = After(b, start, k)
        BY <1>3, <3>2, <4>2, <4>3
      <4> QED  BY <4>4
    <3> QED  BY <3>1, <3>2
  <2> HIDE DEF S
  <2>2. \A k \in 0 .. n : k \in S
    BY <1>1, <2>1, UpwardInduction
  <2>3. n \in S
    BY <1>1, <2>2
  <2> QED  BY <2>3 DEF S
<1>8. \A j \in DOMAIN code(b) : j > n - n
  BY <1>1
<1>9. DeadStores(b) \cap {j \in DOMAIN code(b) : j > n - n} = DeadStores(b) /\ LastStores(b) \cap {j \in DOMAIN code(b) : j > n - n} = LastStores(b)
  BY <1>8 DEF DeadStores, LastStores
<1>10. After(b, start, n).dead = start.dead \cup DeadStores(b) /\ After(b, start, n).last = start.last \cup LastStores(b)
  BY <1>9 DEF After, n
<1>11. start.dead = is_dead[b] /\ start.last = is_last[b]
  BY DEF start
<1> QED  BY <1>4, <1>7, <1>10, <1>11
-----------------------------------------------------------------------------
Unmarked(b) == is_dead[b] = {} /\ is_last[b] = {}
WellMarked(b) == is_dead[b] = DeadStores(b) /\ is_last[b] = LastStores(b)

\* A block that is in postorder twice is marked twice, with the same outcome.
MarkInv ==
  /\ is_dead \in [Blocks -> SUBSET Nat] /\ is_last \in [Blocks -> SUBSET Nat]
  /\ phase \in {"discover", "dominators"} => \A b \in Blocks : Unmarked(b)
  /\ phase = "initial_sets" =>
       /\ \A b \in Blocks : Unmarked(b) \/ WellMarked(b)
       /\ \A i \in 1 .. Len(postorder) : IF i < block_index THEN WellMarked(postorder[i]) ELSE kill[i] = {}
  /\ phase = "live_sets" => \A i \in 1 .. Len(postorder) : WellMarked(postorder[i])

LEMMA MarksKept ==
  ASSUME MarkInv, UNCHANGED <<graph, postorder, is_dead, is_last>>
  PROVE  /\ Blocks' = Blocks
         /\ is_dead' \in [Blocks -> SUBSET Nat] /\ is_last' \in [Blocks -> SUBSET Nat]
         /\ \A b : /\ Unmarked(b)' <=> Unmarked(b)
                   /\ WellMarked(b)' <=> WellMarked(b)
                   /\ DeadStores(b)' = DeadStores(b) /\ LastStores(b)' = LastStores(b)
<1>1. Blocks' = Blocks /\ \A b : code(b)' = code(b)
  BY DEF Blocks, code
<1>2. \A b, j : Stored(b, j)' = Stored(b, j)
  BY <1>1 DEF Stored
<1>3. \A b, j : StoredLater(b, j)' = StoredLater(b, j)
  BY <1>1, <1>2 DEF StoredLater, Bit
<1>4. \A b : DeadStores(b)' = DeadStores(b) /\ LastStores(b)' = LastStores(b)
  BY <1>1, <1>2, <1>3 DEF DeadStores, LastStores
<1> QED  BY <1>1, <1>4 DEF MarkInv, Unmarked, WellMarked

LEMMA MarksStart == Init => MarkInv
  BY DEF Init, BlocksInit, MarkInv, Unmarked, Blocks

LEMMA StoresMarkedStep ==
  ASSUME IInv, ArraysInv, MarkInv, compute_initial_sets
  PROVE  MarkInv'
<1>0. PICK b : b = postorder[block_index]
  OBVIOUS
<1>1. /\ phase = "initial_sets" /\ block_index <= Len(postorder) /\ phase' = phase
      /\ kill' = [kill EXCEPT ![block_index] = StoreLocals(b).kill]
      /\ is_dead' = [is_dead EXCEPT ![b] = StoreLocals(b).dead]
      /\ is_last' = [is_last EXCEPT ![b] = StoreLocals(b).last]
      /\ block_index' = block_index + 1
      /\ UNCHANGED <<graph, postorder>>
  BY <1>0 DEF compute_initial_sets, blockVars, walk
<1>2. /\ block_index \in Nat \ {0} /\ WalkTypes /\ Empty(live_in) /\ DOMAIN live_in = DOMAIN postorder
      /\ Places(live_in) /\ Places(kill)
  BY <1>1 DEF IInv, LiveInv, WalkInv, ArraysInv
<1>3. /\ postorder \in Seq(Blocks) /\ DOMAIN postorder = 1 .. Len(postorder) /\ Len(postorder) \in Nat
  BY <1>2, LenProperties DEF WalkTypes
<1>4. block_index \in 1 .. Len(postorder) /\ b \in Blocks
  <2>1. block_index \in 1 .. Len(postorder)
    BY <1>1, <1>2, <1>3
  <2> QED  BY <1>0, <1>3, <2>1, ElementOfSeq
<1>5. Len(live_in) = Len(postorder)
  BY <1>2, <1>3, LengthOfPlaces DEF Places
<1>6. live_in[block_index] = {} /\ kill[block_index] = {}
  <2>1. live_in[block_index] = {}
    BY <1>2, <1>3, <1>4 DEF Empty
  <2>2. ~ (block_index < block_index)
    BY <1>2
  <2> QED  BY <1>1, <1>4, <2>1, <2>2 DEF MarkInv
<1>7. /\ is_dead \in [Blocks -> SUBSET Nat] /\ is_last \in [Blocks -> SUBSET Nat]
      /\ \A c \in Blocks : Unmarked(c) \/ WellMarked(c)
      /\ \A i \in 1 .. Len(postorder) : IF i < block_index THEN WellMarked(postorder[i]) ELSE kill[i] = {}
  BY <1>1 DEF MarkInv
<1>8. StoreLocals(b).dead = DeadStores(b) /\ StoreLocals(b).last = LastStores(b)
  <2>1. /\ StoreLocals(b).dead = is_dead[b] \cup DeadStores(b)
        /\ StoreLocals(b).last = is_last[b] \cup LastStores(b)
    BY <1>0, <1>2, <1>4, <1>5, <1>6, StoreLocalsIs
  <2>2. Unmarked(b) \/ WellMarked(b)
    BY <1>4, <1>7
  <2> QED  BY <2>1, <2>2 DEF Unmarked, WellMarked
<1>9. /\ is_dead'[b] = DeadStores(b) /\ is_last'[b] = LastStores(b)
      /\ \A c \in Blocks : c # b => is_dead'[c] = is_dead[c] /\ is_last'[c] = is_last[c]
  BY <1>1, <1>4, <1>7, <1>8
<1>10. Blocks' = Blocks /\ \A c : DeadStores(c)' = DeadStores(c) /\ LastStores(c)' = LastStores(c)
  <2>1. Blocks' = Blocks /\ \A c : code(c)' = code(c)
    BY <1>1 DEF Blocks, code
  <2>2. \A c, j : Stored(c, j)' = Stored(c, j)
    BY <1>1, <2>1 DEF Stored
  <2>3. \A c, j : StoredLater(c, j)' = StoredLater(c, j)
    BY <2>1, <2>2 DEF StoredLater, Bit
  <2> QED  BY <2>1, <2>2, <2>3 DEF DeadStores, LastStores
<1>11. WellMarked(b)'
  BY <1>1, <1>9, <1>10 DEF WellMarked
<1>12. \A c \in Blocks : c # b => (Unmarked(c)' <=> Unmarked(c)) /\ (WellMarked(c)' <=> WellMarked(c))
  BY <1>9, <1>10 DEF Unmarked, WellMarked
<1>13. is_dead' \in [Blocks -> SUBSET Nat] /\ is_last' \in [Blocks -> SUBSET Nat]
  <2>1. DOMAIN code(b) \in SUBSET Nat
    BY <1>2, <1>4, CodeIsSeq
  <2>2. DeadStores(b) \in SUBSET Nat /\ LastStores(b) \in SUBSET Nat
    BY <2>1 DEF DeadStores, LastStores
  <2> QED  BY <1>1, <1>7, <1>8, <2>2
<1>14. \A c \in Blocks : Unmarked(c)' \/ WellMarked(c)'
  BY <1>7, <1>11, <1>12
<1>15. ASSUME NEW i \in 1 .. Len(postorder)
       PROVE  IF i < block_index' THEN WellMarked(postorder[i])' ELSE kill'[i] = {}
  <2>1. postorder[i] \in Blocks /\ postorder'[i] = postorder[i]
    BY <1>1, <1>3, ElementOfSeq
  <2>2. CASE i = block_index
    <3>1. postorder[i] = b /\ i < block_index'
      BY <1>0, <1>1, <1>2, <2>2
    <3> QED  BY <1>1, <1>11, <3>1 DEF WellMarked
  <2>3. CASE i < block_index
    <3>1. WellMarked(postorder[i]) /\ i < block_index'
      BY <1>1, <1>2, <1>7, <2>3
    <3>2. PICK c \in Blocks : c = postorder[i]
      BY <2>1
    <3>3. WellMarked(c)'
      BY <1>11, <1>12, <3>1, <3>2
    <3> QED  BY <1>1, <3>1, <3>2, <3>3 DEF WellMarked
  <2>4. CASE i > block_index
    <3>1. ~ (i < block_index') /\ ~ (i < block_index)
      BY <1>1, <1>2, <2>4
    <3>2. kill[i] = {} /\ i # block_index
      BY <1>2, <1>7, <2>4, <3>1
    <3>3. kill = [j \in 1 .. Len(postorder) |-> kill[j]]
      BY <1>2, <1>3 DEF Places
    <3>4. kill'[i] = kill[i]
      BY <1>1, <3>2, <3>3
    <3> QED  BY <3>1, <3>2, <3>4
  <2> QED  BY <1>2, <2>2, <2>3, <2>4
<1> QED  BY <1>1, <1>10, <1>13, <1>14, <1>15 DEF MarkInv

LEMMA MarksStep ==
  ASSUME IInv, ArraysInv, MarkInv, [Next]_vars
  PROVE  MarkInv'
<1>1. CASE Discovery
  <2>1. phase = "discover" /\ phase' = phase /\ graph' = graph /\ UNCHANGED <<is_dead, is_last>>
    BY <1>1 DEF Discovery, graph_discover_blocks, discover_entry, visit_marked, visit_new,
                leave_block, Visiting, livenessVars
  <2> QED  BY <2>1 DEF MarkInv, Unmarked, Blocks
<1>2. CASE DominatorPasses
  <2>1. /\ UNCHANGED <<graph, postorder, is_dead, is_last>>
        /\ phase' \in {"dominators", "undefined"} /\ phase \in {"discover", "dominators"}
    BY <1>2 DEF DominatorPasses, DominatorsNext, compute_dominators, semidominator,
                semidominators_done, block_add_dominated, dominators_done, frontier, runner_lost,
                Looping, livenessVars, Discovered, blockVars, walk
  <2> QED  BY <2>1, MarksKept DEF MarkInv
<1>3. CASE liveness_analyze
  <2>1. /\ UNCHANGED <<graph, postorder, is_dead, is_last>>
        /\ phase = "dominators" /\ phase' = "initial_sets" /\ block_index' = 1
        /\ kill' = [i \in DOMAIN postorder |-> {}]
    BY <1>3 DEF liveness_analyze, blockVars, walk, DominatorsDone, Looping
  <2>2. DOMAIN postorder = 1 .. Len(postorder)
    BY LenProperties DEF IInv, WalkInv, WalkTypes
  <2>3. \A i \in 1 .. Len(postorder) : ~ (i < 1) /\ kill'[i] = {}
    BY <2>1, <2>2
  <2>4. \A b \in Blocks : Unmarked(b)'
    BY <2>1, MarksKept DEF MarkInv
  <2> QED  BY <2>1, <2>3, <2>4, MarksKept DEF MarkInv
<1>4. CASE compute_initial_sets
  BY <1>4, StoresMarkedStep
<1>5. CASE initial_sets_done
  <2>1. /\ UNCHANGED <<graph, postorder, is_dead, is_last>>
        /\ phase = "initial_sets" /\ phase' = "live_sets" /\ block_index > Len(postorder)
    BY <1>5 DEF initial_sets_done, blockVars, walk
  <2>2. block_index \in Nat /\ Len(postorder) \in Nat
    BY <2>1, LenProperties DEF IInv, LiveInv, WalkInv, WalkTypes
  <2>3. \A i \in 1 .. Len(postorder) : WellMarked(postorder[i])
    <3>1. \A i \in 1 .. Len(postorder) : i < block_index
      BY <2>1, <2>2
    <3> QED  BY <2>1, <3>1 DEF MarkInv
  <2> QED  BY <2>1, <2>3, MarksKept DEF MarkInv, WellMarked
<1>6. CASE update_live_sets \/ place_unset \/ live_sets_passed \/ Rename
  <2>1. /\ UNCHANGED <<graph, postorder, is_dead, is_last>>
        /\ phase' \notin {"discover", "dominators", "initial_sets"}
        /\ phase' = "live_sets" => phase = "live_sets"
    BY <1>6 DEF update_live_sets, place_unset, live_sets_passed, Rename, insert_phis,
                graph_rename_recursive, renamed, blockVars, walk, livenessVars
  <2> QED  BY <2>1, MarksKept DEF MarkInv, WellMarked
<1>7. CASE UNCHANGED vars
  <2>1. UNCHANGED <<graph, postorder, is_dead, is_last, phase, block_index, kill>>
    BY <1>7 DEF vars, blockVars, walk, livenessVars, dominatorVars
  <2> QED  BY <2>1, MarksKept DEF MarkInv, WellMarked, Unmarked
<1> QED  BY <1>1, <1>2, <1>3, <1>4, <1>5, <1>6, <1>7 DEF Next, Liveness

(* Whatever a block's stores: of those to one bit that the analysis looks  *)
(* at, exactly the last is marked last and the others dead, also where the *)
(* walk left a block twice (liveness.c 55-98).                             *)
THEOREM LastStoreMarked == Spec => []StoresMarked
<1>1. Init => IInv /\ ArraysInv /\ MarkInv
  BY WalkStart, LiveStart, ArraysStart, MarksStart DEF IInv
<1>2. IInv /\ ArraysInv /\ MarkInv /\ [Next]_vars => IInv' /\ ArraysInv' /\ MarkInv'
  BY WalkStep, LiveStep, ArraysStep, MarksStep DEF IInv
<1>3. IInv /\ ArraysInv /\ MarkInv => StoresMarked
  <2> SUFFICES ASSUME IInv, ArraysInv, MarkInv, phase = "live_sets", NEW b \in Range(postorder)
               PROVE  /\ is_last[b] = {i \in DOMAIN code(b) : Marked(b, i) /\ Later(b, i) = {}}
                      /\ is_dead[b] = {i \in DOMAIN code(b) : Marked(b, i) /\ Later(b, i) # {}}
    BY DEF StoresMarked
  <2>1. postorder \in Seq(Blocks) /\ DOMAIN postorder = 1 .. Len(postorder)
    BY LenProperties DEF IInv, WalkInv, WalkTypes
  <2>2. Len(live_in) = Len(postorder)
    <3>1. Places(live_in)
      BY DEF ArraysInv
    <3> QED  BY <2>1, <3>1, LengthOfPlaces DEF Places
  <2>3. WellMarked(b)
    <3>1. PICK i \in 1 .. Len(postorder) : b = postorder[i]
      BY <2>1, ElementsOfRange
    <3> QED  BY <3>1 DEF MarkInv
  <2>4. \A i : Marked(b, i) <=> Stored(b, i)
    BY <2>2 DEF Marked, Stored
  <2>5. \A i : Later(b, i) = StoredLater(b, i)
    BY <2>4 DEF Later, StoredLater
  <2> QED  BY <2>3, <2>4, <2>5 DEF WellMarked, DeadStores, LastStores
<1> QED  BY <1>1, <1>2, <1>3, PTL DEF Spec
-----------------------------------------------------------------------------
\* The edge from each block's parent was recorded.
TreeEdges == \A b \in Numbers \ {0} : parent[b + 1] \in Numbers /\ Edge(parent[b + 1], b)

\* What dominates a block dominates what the block is entered from.
LEMMA DominatesSource ==
  ASSUME NEW c \in Numbers, NEW b \in Numbers, NEW p \in Numbers, Dominates(c, b), Edge(p, b), c # b
  PROVE  Dominates(c, p)
<1>1. CASE c = 0
  BY <1>1 DEF Dominates
<1>2. CASE c # 0
  <2>1. PICK S \in SUBSET (Numbers \ {c, b}) :
          0 \in S /\ \A x \in S, y \in Numbers : Edge(x, y) => y \in S \cup {c}
    BY <1>2 DEF Dominates
  <2>2. p \notin S
    BY <2>1
  <2>3. S \in SUBSET (Numbers \ {c, p})
    BY <2>1, <2>2
  <2> QED  BY <2>1, <2>3 DEF Dominates
<1> QED  BY <1>1, <1>2

\* The blocks with lower numbers are reached along the tree.
LEMMA DominatorsAbove ==
  ASSUME ParentsOK, TreeEdges, NEW c \in Numbers, NEW b \in Numbers, Dominates(c, b), c # 0
  PROVE  c <= b
<1>0. Numbers = 0 .. Size - 1 /\ Size \in Nat \ {0}
  BY DEF Numbers, ParentsOK
<1> SUFFICES ASSUME b < c PROVE FALSE
  BY <1>0
<1>1. PICK S \in SUBSET (Numbers \ {c, b}) :
        0 \in S /\ \A x \in S, y \in Numbers : Edge(x, y) => y \in S \cup {c}
  BY <1>0 DEF Dominates
<1>2. ASSUME NEW k \in 0 .. b, \A j \in 0 .. k - 1 : j \in S PROVE k \in S
  <2>1. CASE k = 0
    BY <1>1, <2>1
  <2>2. CASE k # 0
    <3>1. k \in Numbers \ {0} /\ k # c
      BY <1>0, <2>2
    <3>2. parent[k + 1] \in Numbers /\ Edge(parent[k + 1], k) /\ parent[k + 1] < k
      BY <3>1 DEF TreeEdges, ParentsOK
    <3>3. parent[k + 1] \in 0 .. k - 1
      BY <1>0, <3>2
    <3>4. parent[k + 1] \in S
      BY <1>2, <3>3
    <3> QED  BY <1>1, <3>1, <3>2, <3>4
  <2> QED  BY <2>1, <2>2
<1>3. b \in S
  <2>1. b \in Nat /\ b \in 0 .. b
    BY <1>0
  <2>2. \A k \in 0 .. b : k \in S
    BY <1>2, <2>1, UpwardInduction
  <2> QED  BY <2>1, <2>2
<1> QED  BY <1>1, <1>3

LEMMA DominatesTransitive ==
  ASSUME ParentsOK, TreeEdges, NEW a \in Numbers, NEW b \in Numbers, NEW c \in Numbers,
         Dominates(a, b), Dominates(b, c)
  PROVE  Dominates(a, c)
<1>0. Numbers = 0 .. Size - 1 /\ Size \in Nat \ {0}
  BY DEF Numbers, ParentsOK
<1>1. CASE a = 0 \/ a = b \/ b = c
  BY <1>1 DEF Dominates
<1>2. CASE a # 0 /\ a # b /\ b # c
  <2>1. b # 0
    <3>1. a <= b
      BY <1>2, DominatorsAbove
    <3> QED  BY <1>0, <1>2, <3>1
  <2>2. PICK S \in SUBSET (Numbers \ {a, b}) :
          0 \in S /\ \A x \in S, y \in Numbers : Edge(x, y) => y \in S \cup {a}
    BY <1>2 DEF Dominates
  <2>3. PICK T \in SUBSET (Numbers \ {b, c}) :
          0 \in T /\ \A x \in T, y \in Numbers : Edge(x, y) => y \in T \cup {b}
    BY <1>2, <2>1 DEF Dominates
  <2>4. S \cap T \in SUBSET (Numbers \ {a, c}) /\ 0 \in S \cap T
    BY <2>2, <2>3
  <2>5. \A x \in S \cap T, y \in Numbers : Edge(x, y) => y \in (S \cap T) \cup {a}
    BY <1>2, <2>2, <2>3
  <2> QED  BY <2>4, <2>5 DEF Dominates
<1> QED  BY <1>1, <1>2

\* A block with one predecessor is dominated by what dominates that.
LEMMA OnlySource ==
  ASSUME ParentsOK, NEW a \in Numbers, NEW b \in Numbers, NEW p \in Numbers, Dominates(a, p), b # 0,
         \A x \in Numbers : Edge(x, b) => x = p
  PROVE  Dominates(a, b)
<1>1. CASE a = 0 \/ a = b
  BY <1>1 DEF Dominates
<1>2. CASE a # 0 /\ a # b /\ a = p
  <2> DEFINE S == Numbers \ {a, b}
  <2>1. 0 \in S
    BY <1>2 DEF Numbers, ParentsOK
  <2>2. \A x \in S, y \in Numbers : Edge(x, y) => y \in S \cup {a}
    BY <1>2
  <2>3. S \in SUBSET (Numbers \ {a, b})
    OBVIOUS
  <2> HIDE DEF S
  <2> QED  BY <2>1, <2>2, <2>3 DEF Dominates
<1>3. CASE a # 0 /\ a # b /\ a # p
  <2>1. PICK S \in SUBSET (Numbers \ {a, p}) :
          0 \in S /\ \A x \in S, y \in Numbers : Edge(x, y) => y \in S \cup {a}
    BY <1>3 DEF Dominates
  <2> DEFINE T == S \ {b}
  <2>2. T \in SUBSET (Numbers \ {a, b}) /\ 0 \in T
    BY <2>1
  <2>3. \A x \in T, y \in Numbers : Edge(x, y) => y \in T \cup {a}
    BY <2>1
  <2> HIDE DEF T
  <2> QED  BY <2>2, <2>3 DEF Dominates
<1> QED  BY <1>1, <1>2, <1>3
-----------------------------------------------------------------------------
\* Block b's semidominator comes from an edge.
SemiFrom(s, b) ==
  \/ s[b] = b
  \/ \E p \in Numbers : Edge(p, b) /\ ((p < b /\ s[b] = p) \/ (p > b /\ s[b] = s[p]))

\* Between the semidominator and the block nothing dominates the block.
LEMMA NoneBetween ==
  ASSUME ParentsOK, TreeEdges, NEW s \in [Numbers -> Nat], \A b \in Numbers \ {0} : SemiFrom(s, b),
         NEW b \in Numbers, NEW c \in Numbers, s[b] < c, c < b
  PROVE  ~Dominates(c, b)
<1> DEFINE n == Size - 1
           Free(x) == \A d \in Numbers : s[x] < d /\ d < x => ~Dominates(d, x)
           Good == {k \in 0 .. n : Free(n - k)}
<1>0. Numbers = 0 .. n /\ n \in Nat /\ \A x \in Numbers : s[x] \in Nat
  <2>1. Numbers = 0 .. n
    BY DEF Numbers
  <2>2. n \in Nat
    <3>1. Size \in Nat \ {0}
      BY DEF ParentsOK
    <3> QED  BY <3>1
  <2>3. \A x \in Numbers : s[x] \in Nat
    OBVIOUS
  <2> HIDE DEF n, Good, Free
  <2> QED  BY <2>1, <2>2, <2>3
<1>1. ASSUME NEW k \in 0 .. n, \A j \in 0 .. k - 1 : j \in Good PROVE k \in Good
  <2>1. PICK x \in Numbers : x = n - k
    BY <1>0
  <2>2. ASSUME NEW d \in Numbers, s[x] < d, d < x PROVE ~Dominates(d, x)
    <3>0. x # 0 /\ s[x] # x /\ d # 0 /\ d # x
      BY <1>0, <2>2
    <3>1. PICK p \in Numbers : Edge(p, x) /\ ((p < x /\ s[x] = p) \/ (p > x /\ s[x] = s[p]))
      BY <3>0 DEF SemiFrom
    <3>2. ~Dominates(d, p)
      <4>1. CASE s[x] = p
        <5>1. ~ (d <= p)
          BY <1>0, <2>2, <4>1
        <5> QED  BY <3>0, <5>1, DominatorsAbove
      <4>2. CASE p > x /\ s[x] = s[p]
        <5>1. n - p \in 0 .. k - 1 /\ n - (n - p) = p
          BY <1>0, <2>1, <4>2
        <5>2. Free(p)
          BY <1>1, <5>1
        <5>3. s[p] < d /\ d < p
          BY <1>0, <2>2, <4>2
        <5> QED  BY <5>2, <5>3
      <4> QED  BY <3>1, <4>1, <4>2
    <3> QED  BY <3>0, <3>1, <3>2, DominatesSource
  <2>3. Free(x)
    BY <2>2
  <2> QED  BY <2>1, <2>3
<1>2. n - b \in 0 .. n /\ n - (n - b) = b
  BY <1>0
<1>3. n - b \in Good
  <2> HIDE DEF Good, n
  <2>1. \A k \in 0 .. n : k \in Good
    BY <1>0, <1>1, UpwardInduction
  <2> QED  BY <1>2, <2>1
<1>4. Free(b)
  BY <1>2, <1>3
<1> QED  BY <1>4

\* The climb passes no dominator.
LEMMA ClimbImmediate ==
  ASSUME ParentsOK, EdgesDown, TreeEdges, NEW s0 \in [Numbers -> Nat], NEW b \in Numbers, b # 0,
         semi \in [Numbers -> Nat], \A x \in Numbers : semi[x] <= s0[x], Bounds(s0, 0), Idoms(s0, b),
         \A x \in Numbers \ {0} : SemiFrom(semi, x),
         \A x \in Numbers \ {0} : x < b => Immediate(idom[x], x)
  PROVE  Immediate(Climb(b), b)
<1>0. Numbers = 0 .. Size - 1 /\ Size \in Nat \ {0} /\ \A x \in Numbers : s0[x] \in Nat /\ semi[x] \in Nat
  BY DEF Numbers, ParentsOK
<1>1. Climb(b) \in 0 .. b - 1 /\ Cut(s0, b, Climb(b))
  BY Climbed
<1>2. Strictly(Climb(b), b)
  <2>1. Climb(b) \in Numbers /\ Climb(b) < b
    BY <1>0, <1>1
  <2> QED  BY <1>1, <2>1, CutDominates
<1>3. PICK f : IsClimb(f, b) /\ Climb(b) = f[idom[b]]
  BY ClimbIs
<1>4. /\ idom[b] = parent[b + 1] /\ idom[b] \in Numbers /\ idom[b] < b /\ Edge(idom[b], b)
  <2>1. idom[b] = parent[b + 1] /\ idom[b] \in 0 .. b - 1
    BY <1>0 DEF Idoms
  <2>2. b \in Numbers \ {0} /\ idom[b] \in Numbers /\ idom[b] < b
    BY <1>0, <2>1
  <2> QED  BY <2>1, <2>2 DEF TreeEdges
<1>5. semi[b] <= idom[b]
  <2>1. b > 0
    BY <1>0
  <2>2. EdgeBound(s0, s0[b], b, idom[b])
    BY <1>4, <2>1 DEF Bounds
  <2>3. s0[b] <= idom[b] /\ semi[b] <= s0[b]
    BY <1>4, <2>2 DEF EdgeBound
  <2> QED  BY <1>0, <1>4, <2>3
<1>6. ASSUME NEW c \in Numbers, Strictly(c, b) PROVE Dominates(c, Climb(b))
  <2>1. CASE c = 0
    BY <2>1 DEF Dominates
  <2>2. CASE c # 0
    <3>1. c # b /\ Dominates(c, b)
      BY <1>6 DEF Strictly
    <3>2. c <= b
      BY <2>2, <3>1, DominatorsAbove
    <3>3. c <= semi[b]
      <4>1. c < b
        BY <1>0, <3>1, <3>2
      <4>2. ~ (semi[b] < c)
        BY <3>1, <4>1, NoneBetween
      <4> QED  BY <1>0, <4>2
    <3>4. Dominates(c, idom[b])
      BY <1>4, <3>1, DominatesSource
    <3> DEFINE Good == {x \in 0 .. b - 1 : Dominates(c, x) => Dominates(c, f[x])}
    <3>5. ASSUME NEW x \in 0 .. b - 1, \A j \in 0 .. x - 1 : j \in Good PROVE x \in Good
      <4>0. x \in Numbers /\ x < b
        BY <1>0
      <4> SUFFICES ASSUME Dominates(c, x) PROVE Dominates(c, f[x])
        OBVIOUS
      <4>1. CASE x > semi[b]
        <5>1. x # 0 /\ c # x
          BY <1>0, <3>3, <4>1
        <5>2. idom[x] \in 0 .. x - 1
          BY <4>0, <5>1 DEF Idoms
        <5>3. Immediate(idom[x], x)
          BY <4>0, <5>1
        <5>4. Strictly(c, x)
          BY <5>1 DEF Strictly
        <5>5. Dominates(c, idom[x])
          BY <5>3, <5>4 DEF Immediate
        <5>6. f[x] = f[idom[x]]
          BY <1>3, <4>0, <4>1 DEF IsClimb
        <5> QED  BY <3>5, <5>2, <5>5, <5>6
      <4>2. CASE ~ (x > semi[b])
        <5>1. f[x] = x
          BY <1>3, <4>0, <4>2 DEF IsClimb
        <5> QED  BY <5>1
      <4> QED  BY <4>1, <4>2
    <3>6. idom[b] \in Good
      <4> HIDE DEF Good
      <4>1. b - 1 \in Nat /\ idom[b] \in 0 .. b - 1
        BY <1>0, <1>4
      <4>2. \A x \in 0 .. b - 1 : x \in Good
        BY <3>5, <4>1, UpwardInduction
      <4> QED  BY <4>1, <4>2
    <3> QED  BY <1>3, <3>4, <3>6
  <2> QED  BY <2>1, <2>2
<1> QED  BY <1>2, <1>6 DEF Immediate
-----------------------------------------------------------------------------
\* No block's label or semidominator is raised.
Lowers(tree, new) == \A x \in Numbers : new.semi[x] <= tree.semi[x]

LEMMA LowersTransitive ==
  ASSUME NEW t \in Tree, NEW u \in Tree, NEW v \in Tree, Lowers(t, u), Lowers(u, v)
  PROVE  Lowers(t, v)
<1>1. \A x \in Numbers : t.semi[x] \in Nat /\ u.semi[x] \in Nat /\ v.semi[x] \in Nat
  BY TreeFields
<1> QED  BY <1>1 DEF Lowers

LEMMA PathLowered ==
  ASSUME ParentsOK, NEW s0 \in [Numbers -> Nat], NEW start \in Numbers, NEW current \in Numbers,
         NEW tree \in Tree, Labels(s0, start, tree)
  PROVE  compress_path(start, current, tree) \in Tree /\ Lowers(tree, compress_path(start, current, tree))
<1>1. PICK f : IsCompress(f, start, tree) /\ compress_path(start, current, tree) = f[current]
  BY CompressIs
<1> DEFINE n == Size - 1
           Good == {c \in Numbers : f[c] \in Tree /\ Lowers(tree, f[c])}
<1>2. Numbers = 0 .. n /\ n \in Nat /\ Nobody = -1
  BY DEF Numbers, ParentsOK, Nobody
<1>3. ASSUME NEW c \in 0 .. n, \A j \in 0 .. c - 1 : j \in Good PROVE c \in Good
  <2>1. c \in Numbers /\ tree.up[c] \in Numbers \cup {Nobody} /\ tree.up[c] < c
    BY <1>2, TreeFields DEF Labels
  <2>2. CASE tree.up[c] > start
    <3>1. tree.up[c] \in 0 .. c - 1 /\ tree.up[c] \in Numbers
      BY <1>2, <2>1, <2>2
    <3>2. PICK above : above = f[tree.up[c]] /\ above \in Tree /\ Lowers(tree, above)
      BY <1>3, <3>1
    <3>3. f[c] = HandDown(above, c, tree.up[c])
      BY <1>1, <2>1, <2>2, <3>2 DEF IsCompress
    <3>4. PICK new : new = f[c]
      OBVIOUS
    <3>5. /\ new \in Tree /\ new.semi[c] = minimum(above.semi[c], above.semi[tree.up[c]])
          /\ \A x \in Numbers \ {c} : new.semi[x] = above.semi[x]
      <4>1. PICK next \in Numbers : next = tree.up[c]
        BY <3>1
      <4>2. new = HandDown(above, c, next)
        BY <3>3, <3>4, <4>1
      <4>3. new \in Tree
        BY <2>1, <3>2, <4>2, HandedDown
      <4>4. new.semi[c] = minimum(above.semi[c], above.semi[next])
        BY <2>1, <3>2, <4>2, HandedDown, ZenonT(60)
      <4>5. \A x \in Numbers \ {c} : new.semi[x] = above.semi[x]
        <5>1. c \in Numbers /\ above \in Tree
          BY <2>1, <3>2
        <5>2. \A x \in Numbers \ {c} : /\ HandDown(above, c, next).semi[x] = above.semi[x]
                                       /\ HandDown(above, c, next).up[x] = above.up[x]
          BY <5>1, HandedDown, ZenonT(60)
        <5> QED  BY <4>2, <5>2
      <4> QED  BY <4>1, <4>3, <4>4, <4>5
    <3>6. \A x \in Numbers : above.semi[x] \in Nat
      BY <3>2, TreeFields
    <3>7. minimum(above.semi[c], above.semi[tree.up[c]]) <= above.semi[c]
      BY <2>1, <3>1, <3>6, MinimumIs
    <3>8. Lowers(above, new)
      BY <3>5, <3>6, <3>7 DEF Lowers
    <3>9. Lowers(tree, new)
      BY <3>2, <3>5, <3>8, LowersTransitive
    <3> QED  BY <2>1, <3>4, <3>5, <3>9
  <2>3. CASE ~ (tree.up[c] > start)
    <3>1. f[c] = tree
      BY <1>1, <2>1, <2>3 DEF IsCompress
    <3>2. Lowers(tree, tree)
      <4>1. \A x \in Numbers : tree.semi[x] \in Nat
        BY TreeFields
      <4> QED  BY <4>1 DEF Lowers
    <3> QED  BY <2>1, <3>1, <3>2
  <2> QED  BY <2>2, <2>3
<1>4. current \in Good
  <2> HIDE DEF Good, n
  <2>1. \A c \in 0 .. n : c \in Good
    BY <1>2, <1>3, UpwardInduction
  <2> QED  BY <1>2, <2>1
<1> QED  BY <1>1, <1>4

\* The edge that block b's semidominator comes from, when the edge was looked at.
From(b, p, tree) == (p < b /\ tree.semi[b] = p) \/ (p > b /\ tree.semi[b] = tree.semi[p])

LEMMA RelaxedFrom ==
  ASSUME ParentsOK, NEW s0 \in [Numbers -> Nat], NEW b \in Numbers, NEW p \in Numbers,
         NEW tree, Relaxed(s0, b, tree)
  PROVE  /\ Lowers(tree, Relax(b, tree, p))
         /\ Relax(b, tree, p).semi[b] = tree.semi[b] \/ From(b, p, Relax(b, tree, p))
<1> DEFINE best == IF p > b THEN compress_path(b, p, tree) ELSE tree
           new == Relax(b, tree, p)
           m == minimum(best.semi[b], best.semi[p])
<1>0. Numbers = 0 .. Size - 1 /\ Size \in Nat \ {0}
  BY DEF Numbers, ParentsOK
<1>1. tree \in Tree /\ Labels(s0, b, tree) /\ \A x \in Numbers : x < b => tree.semi[x] = x
  BY DEF Relaxed
<1>2. best \in Tree /\ Lowers(tree, best) /\ \A x \in Numbers : x <= b => best.semi[x] = tree.semi[x]
  <2>1. CASE p > b
    <3>1. /\ compress_path(b, p, tree) \in Tree /\ Lowers(tree, compress_path(b, p, tree))
          /\ Compressed(s0, b, p, tree, compress_path(b, p, tree))
      BY <1>1, PathLowered, PathCompressed
    <3>2. best = compress_path(b, p, tree)
      BY <2>1
    <3> HIDE DEF best
    <3> QED  BY <3>1, <3>2 DEF Compressed
  <2>2. CASE ~ (p > b)
    <3>1. best = tree
      BY <2>2
    <3> HIDE DEF best
    <3>2. \A x \in Numbers : tree.semi[x] \in Nat
      BY <1>1, TreeFields
    <3> QED  BY <1>1, <3>1, <3>2 DEF Lowers
  <2> QED  BY <2>1, <2>2
<1>3. new = [best EXCEPT !.semi[b] = m]
  <2>1. new = [best EXCEPT !.semi[b] = minimum(best.semi[b], best.semi[p])]
    BY DEF Relax
  <2> QED  BY <2>1
<1> HIDE DEF best, new
<1>4. /\ \A x \in Numbers : best.semi[x] \in Nat /\ tree.semi[x] \in Nat
      /\ m \in Nat /\ m <= best.semi[b] /\ (m = best.semi[b] \/ m = best.semi[p])
  <2>1. \A x \in Numbers : best.semi[x] \in Nat /\ tree.semi[x] \in Nat
    BY <1>1, <1>2, TreeFields
  <2>2. best.semi[b] \in Nat /\ best.semi[p] \in Nat
    BY <2>1
  <2> QED  BY <2>1, <2>2, MinimumIs DEF minimum
<1> HIDE DEF m
<1>5. new \in Tree /\ new.semi[b] = m /\ \A x \in Numbers : x # b => new.semi[x] = best.semi[x]
  BY <1>2, <1>3, <1>4, SemiSet
<1>6. Lowers(tree, new)
  <2>1. Lowers(best, new)
    BY <1>4, <1>5 DEF Lowers
  <2> QED  BY <1>1, <1>2, <1>5, <2>1, LowersTransitive
<1>7. new.semi[b] = tree.semi[b] \/ From(b, p, new)
  <2>1. CASE m = best.semi[b]
    BY <1>0, <1>2, <1>5, <2>1
  <2>2. CASE m = best.semi[p] /\ p < b
    <3>1. best.semi[p] = p
      BY <1>0, <1>1, <1>2, <2>2
    <3> QED  BY <1>5, <2>2, <3>1 DEF From
  <2>3. CASE m = best.semi[p] /\ p > b
    BY <1>0, <1>5, <2>3 DEF From
  <2>4. CASE p = b /\ m = best.semi[p]
    BY <1>0, <1>2, <1>5, <2>4
  <2> QED  BY <1>0, <1>4, <2>1, <2>2, <2>3, <2>4
<1> QED  BY <1>6, <1>7 DEF new

\* When all edges to b were looked at: the label it was compared with may have
\* been lowered since.
LEMMA AllRelaxedFrom ==
  ASSUME ParentsOK, PredsOK, NEW s0 \in [Numbers -> Nat], NEW b \in Numbers,
         Relaxed(s0, b, [semi |-> semi, up |-> up])
  PROVE  /\ \A x \in Numbers : RelaxAll(b).semi[x] <= semi[x]
         /\ \/ RelaxAll(b).semi[b] = semi[b]
            \/ \E p \in Numbers : Edge(p, b) /\
                 \/ p < b /\ RelaxAll(b).semi[b] = p
                 \/ p > b /\ RelaxAll(b).semi[p] <= RelaxAll(b).semi[b] /\ RelaxAll(b).semi[b] <= semi[p]
<1> DEFINE preds == PredNumbers(b)
           start == [semi |-> semi, up |-> up]
           n == Len(preds)
<1>1. PICK f : IsRelaxAll(f, b, start, preds) /\ RelaxAll(b) = f[n]
  BY RelaxAllIs
<1>2. preds \in Seq(Numbers) /\ n \in Nat /\ DOMAIN preds = 1 .. n
  BY DEF PredsOK
<1>3. Relaxed(s0, b, start) /\ start.semi = semi /\ start \in Tree
  BY DEF Relaxed
<1> DEFINE Source(i) == \/ f[i].semi[b] = semi[b]
                        \/ \E j \in 1 .. i :
                             \/ preds[j] < b /\ f[i].semi[b] = preds[j]
                             \/ /\ preds[j] > b /\ f[i].semi[preds[j]] <= f[i].semi[b]
                                /\ f[i].semi[b] <= semi[preds[j]]
           Done(i) == Relaxed(s0, b, f[i]) /\ Lowers(start, f[i]) /\ Source(i)
           Good == {i \in 0 .. n : Done(i)}
<1> HIDE DEF start, n, preds
<1>4. \A i \in 0 .. n : f[i] = IF i = 0 THEN start ELSE Relax(b, f[i - 1], preds[i])
  BY <1>1 DEF IsRelaxAll, n
<1>5. \A i \in 1 .. n : preds[i] \in Numbers
  BY <1>2, ElementOfSeq DEF n
<1>6. ASSUME NEW i \in 0 .. n, \A j \in 0 .. i - 1 : j \in Good PROVE i \in Good
  <2>1. CASE i = 0
    <3>1. f[i] = start
      BY <1>4, <2>1
    <3>2. \A x \in Numbers : start.semi[x] \in Nat
      BY <1>3, TreeFields
    <3> QED  BY <1>3, <2>1, <3>1, <3>2 DEF Lowers
  <2>2. CASE i # 0
    <3>1. i - 1 \in 0 .. i - 1 /\ i - 1 \in 0 .. n /\ i \in 1 .. n
      BY <1>2, <2>2
    <3>2. Done(i - 1)
      BY <1>6, <3>1
    <3>3. f[i] = Relax(b, f[i - 1], preds[i]) /\ preds[i] \in Numbers
      BY <1>4, <1>5, <2>2, <3>1
    <3>4. PICK old : old = f[i - 1]
      OBVIOUS
    <3>5. PICK new : new = f[i]
      OBVIOUS
    <3>6. PICK q : q = preds[i] /\ q \in Numbers
      BY <3>3
    <3>7. Relaxed(s0, b, old) /\ Lowers(start, old)
      BY <3>2, <3>4
    <3>8. new = Relax(b, old, q)
      BY <3>3, <3>4, <3>5, <3>6
    <3>9. Relaxed(s0, b, new)
      <4> HIDE DEF Done, Good
      <4> QED  BY <3>6, <3>7, <3>8, RelaxedOne
    <3>10. Lowers(old, new) /\ (new.semi[b] = old.semi[b] \/ From(b, q, new))
      <4> HIDE DEF Done, Good
      <4> QED  BY <3>6, <3>7, <3>8, RelaxedFrom
    <3>11. old \in Tree /\ new \in Tree
      BY <3>7, <3>9 DEF Relaxed
    <3>12. \A x \in Numbers : old.semi[x] \in Nat /\ new.semi[x] \in Nat /\ semi[x] \in Nat
      BY <1>3, <3>11, TreeFields
    <3>13. Lowers(start, new)
      BY <1>3, <3>7, <3>10, <3>11, LowersTransitive
    <3>14. Source(i)
      <4>1. CASE new.semi[b] = old.semi[b]
        <5>1. CASE old.semi[b] = semi[b]
          BY <3>5, <4>1, <5>1
        <5>2. ASSUME NEW j \in 1 .. i - 1, preds[j] < b /\ old.semi[b] = preds[j] PROVE Source(i)
          <6>1. j \in 1 .. i
            BY <3>1
          <6> QED  BY <3>5, <4>1, <5>2, <6>1
        <5>3. ASSUME NEW j \in 1 .. i - 1, preds[j] > b, old.semi[preds[j]] <= old.semi[b], old.semi[b] <= semi[preds[j]]
              PROVE Source(i)
          <6>1. j \in 1 .. i /\ j \in 1 .. n
            BY <1>2, <3>1
          <6>2. preds[j] \in Numbers
            BY <1>5, <6>1
          <6>3. new.semi[preds[j]] <= old.semi[preds[j]]
            BY <3>10, <6>2 DEF Lowers
          <6>4. new.semi[preds[j]] <= new.semi[b]
            BY <3>12, <4>1, <5>3, <6>2, <6>3
          <6> QED  BY <3>5, <4>1, <5>3, <6>1, <6>4
        <5>4. Source(i - 1)
          BY <3>2
        <5> HIDE DEF Done, Good
        <5> QED  BY <3>4, <5>1, <5>2, <5>3, <5>4
      <4>2. CASE From(b, q, new)
        <5>1. i \in 1 .. i
          BY <3>1
        <5>2. CASE q < b /\ new.semi[b] = q
          BY <3>5, <3>6, <5>1, <5>2
        <5>3. CASE q > b /\ new.semi[b] = new.semi[q]
          <6>1. new.semi[q] <= semi[q]
            BY <1>3, <3>6, <3>13 DEF Lowers
          <6>2. new.semi[q] <= new.semi[b]
            BY <3>6, <3>12, <5>3
          <6> QED  BY <3>5, <3>6, <5>1, <5>3, <6>1, <6>2
        <5> QED  BY <4>2, <5>2, <5>3 DEF From
      <4> QED  BY <3>10, <4>1, <4>2
    <3> HIDE DEF Source
    <3>15. Done(i)
      BY <3>5, <3>9, <3>13, <3>14
    <3> QED  BY <3>15
  <2> QED  BY <2>1, <2>2
<1>7. Done(n)
  <2> HIDE DEF Good, Done
  <2>1. \A i \in 0 .. n : i \in Good
    BY <1>2, <1>6, UpwardInduction DEF n
  <2>2. n \in Good
    BY <1>2, <2>1 DEF n
  <2> QED  BY <2>2 DEF Good
<1>8. \A x \in Numbers : RelaxAll(b).semi[x] <= semi[x]
  BY <1>1, <1>3, <1>7 DEF Lowers
<1>9. CASE f[n].semi[b] = semi[b]
  BY <1>1, <1>8, <1>9
<1>10. ASSUME NEW j \in 1 .. n,
              \/ preds[j] < b /\ f[n].semi[b] = preds[j]
              \/ /\ preds[j] > b /\ f[n].semi[preds[j]] <= f[n].semi[b]
                 /\ f[n].semi[b] <= semi[preds[j]]
       PROVE  \E p \in Numbers : Edge(p, b) /\
                 \/ p < b /\ RelaxAll(b).semi[b] = p
                 \/ p > b /\ RelaxAll(b).semi[p] <= RelaxAll(b).semi[b] /\ RelaxAll(b).semi[b] <= semi[p]
  <2>1. preds[j] \in Numbers /\ Edge(preds[j], b)
    BY <1>2, <1>5 DEF Edge, Range, preds
  <2> QED  BY <1>1, <1>10, <2>1
<1> QED  BY <1>7, <1>8, <1>9, <1>10
-----------------------------------------------------------------------------
\* The edge by which each block was met is among those recorded.
RecordedInv ==
  /\ predecessors[Entry] = <<>>
  /\ KindsFit(graph) => \A k \in 2 .. Len(preorder) :
       preorder[parent[k] + 1] \in Range(predecessors[preorder[k]])

LEMMA PredecessorAdded ==
  ASSUME NEW preds \in [Blocks -> Seq(Blocks)], NEW b \in Blocks, NEW p \in Blocks
  PROVE  /\ \A c \in Blocks \ {b} : block_add_predecessor(preds, b, p)[c] = preds[c]
         /\ graph.kind[b] \in {"join", "target"} => p \in Range(block_add_predecessor(preds, b, p)[b])
         /\ graph.kind[b] = "join" => Range(preds[b]) \subseteq Range(block_add_predecessor(preds, b, p)[b])
<1> DEFINE new == block_add_predecessor(preds, b, p)
<1>1. CASE graph.kind[b] = "join"
  <2>1. new = [preds EXCEPT ![b] = Append(preds[b], p)]
    BY <1>1 DEF block_add_predecessor
  <2>2. preds[b] \in Seq(Blocks)
    OBVIOUS
  <2> HIDE DEF new
  <2>3. new[b] = Append(preds[b], p) /\ \A c \in Blocks \ {b} : new[c] = preds[c]
    BY <2>1
  <2>4. /\ DOMAIN new[b] = 1 .. Len(preds[b]) + 1 /\ DOMAIN preds[b] = 1 .. Len(preds[b]) /\ Len(preds[b]) \in Nat
        /\ new[b][Len(preds[b]) + 1] = p /\ \A i \in 1 .. Len(preds[b]) : new[b][i] = preds[b][i]
    BY <2>2, <2>3, AppendProperties
  <2>5. p \in Range(new[b])
    <3>1. Len(preds[b]) + 1 \in DOMAIN new[b]
      BY <2>4
    <3> QED  BY <2>4, <3>1 DEF Range
  <2>6. ASSUME NEW i \in DOMAIN preds[b] PROVE preds[b][i] \in Range(new[b])
    <3>1. i \in DOMAIN new[b] /\ new[b][i] = preds[b][i]
      BY <2>4
    <3> QED  BY <3>1 DEF Range
  <2>7. Range(preds[b]) \subseteq Range(new[b])
    BY <2>6 DEF Range
  <2> QED  BY <2>3, <2>5, <2>7 DEF new
<1>2. CASE graph.kind[b] = "target"
  <2>1. new = [preds EXCEPT ![b] = <<p>>]
    BY <1>2 DEF block_add_predecessor
  <2> HIDE DEF new
  <2>2. new[b] = <<p>> /\ \A c \in Blocks \ {b} : new[c] = preds[c]
    BY <2>1
  <2>3. p \in Range(new[b])
    BY <2>2 DEF Range
  <2> QED  BY <1>2, <2>2, <2>3 DEF new
<1>3. CASE graph.kind[b] \notin {"join", "target"}
  <2>1. new = preds
    BY <1>3 DEF block_add_predecessor
  <2> HIDE DEF new
  <2> QED  BY <1>3, <2>1 DEF new
<1> QED  BY <1>1, <1>2, <1>3

LEMMA RecordedStart == Init => RecordedInv
<1> SUFFICES ASSUME Init PROVE RecordedInv
  OBVIOUS
<1>1. predecessors = [b \in Blocks |-> <<>>] /\ preorder = <<>> /\ graph \in Graphs
  BY DEF Init, BlocksInit
<1>2. Entry \in Blocks
  BY <1>1, BlocksAssumption DEF IsGraph, Blocks
<1> QED  BY <1>1, <1>2 DEF RecordedInv

\* The entry is no block's successor.
LEMMA NotTheEntry ==
  ASSUME WalkInv, Visiting, Top.next >= 0
  PROVE  /\ Successor \in Blocks \ {Entry} /\ Top.block \in Blocks /\ Entry \in Blocks
         /\ Successor \in Range(graph.successors[Top.block])
<1>1. /\ Top \in BlockState /\ Successor \in Blocks /\ Successor \in Range(successors(Top.block))
  BY TopState
<1>2. Top.block \in Blocks
  BY <1>1 DEF BlockState
<1>3. IsGraph(graph)
  BY BlocksAssumption DEF WalkInv, WalkTypes
<1>4. graph.successors[Top.block] \in Seq(Blocks \ {Entry}) /\ Entry \in Blocks
  BY <1>2, <1>3 DEF IsGraph, Blocks
<1>5. Successor \in Range(graph.successors[Top.block])
  BY <1>1 DEF successors
<1>6. PICK i \in DOMAIN graph.successors[Top.block] : Successor = graph.successors[Top.block][i]
  BY <1>5 DEF Range
<1>7. i \in 1 .. Len(graph.successors[Top.block])
  BY <1>4, <1>6
<1>8. Successor \in Blocks \ {Entry}
  BY <1>4, <1>6, <1>7, ElementOfSeq
<1> QED  BY <1>2, <1>4, <1>5, <1>8

LEMMA RecordedMarked ==
  ASSUME WalkInv, EdgesInv, RecordedInv, visit_marked
  PROVE  RecordedInv'
<1>1. /\ Visiting /\ Top.next >= 0
      /\ predecessors' = block_add_predecessor(predecessors, Successor, Top.block)
      /\ UNCHANGED <<graph, numbers>>
  BY DEF visit_marked
<1>2. UNCHANGED <<graph, preorder, parent>>
  BY <1>1 DEF numbers
<1>3. PICK b, p : b = Successor /\ p = Top.block
  OBVIOUS
<1>4. /\ b \in Blocks \ {Entry} /\ p \in Blocks /\ Entry \in Blocks /\ b \in Range(graph.successors[p])
      /\ predecessors' = block_add_predecessor(predecessors, b, p)
  BY <1>1, <1>3, NotTheEntry
<1>5. predecessors \in [Blocks -> Seq(Blocks)]
  BY DEF EdgesInv, EdgesOf
<1>6. /\ \A c \in Blocks \ {b} : predecessors'[c] = predecessors[c]
      /\ graph.kind[b] \in {"join", "target"} => p \in Range(predecessors'[b])
      /\ graph.kind[b] = "join" => Range(predecessors[b]) \subseteq Range(predecessors'[b])
  <2>1. /\ \A c \in Blocks \ {b} : block_add_predecessor(predecessors, b, p)[c] = predecessors[c]
        /\ graph.kind[b] \in {"join", "target"} => p \in Range(block_add_predecessor(predecessors, b, p)[b])
        /\ graph.kind[b] = "join" =>
             Range(predecessors[b]) \subseteq Range(block_add_predecessor(predecessors, b, p)[b])
    BY <1>4, <1>5, PredecessorAdded
  <2> QED  BY <1>4, <2>1
<1>7. ASSUME KindsFit(graph), NEW k \in 2 .. Len(preorder)
      PROVE  preorder[parent[k] + 1] \in Range(predecessors'[preorder[k]])
  <2>1. /\ k \in DOMAIN preorder /\ k > 1 /\ preorder[k] \in Blocks
        /\ parent[k] \in 0 .. k - 2 /\ Len(preorder) \in Nat
    BY TreeFacts
  <2>2. parent[k] + 1 \in 1 .. Len(preorder)
    BY <2>1
  <2>3. preorder[parent[k] + 1] \in Blocks
    BY <2>2, TreeFacts
  <2>4. preorder[parent[k] + 1] \in Range(predecessors[preorder[k]])
    BY <1>7 DEF RecordedInv
  <2>5. CASE preorder[k] # b
    BY <1>6, <2>1, <2>4, <2>5
  <2>6. CASE preorder[k] = b /\ graph.kind[b] = "join"
    BY <1>6, <2>4, <2>6
  <2>7. CASE preorder[k] = b /\ graph.kind[b] = "target"
    <3>1. b \in Range(graph.successors[preorder[parent[k] + 1]])
      BY <2>1, <2>7 DEF WalkInv, PreorderIsTree, successors
    <3>2. preorder[parent[k] + 1] = p
      BY <1>4, <1>7, <2>3, <2>7, <3>1 DEF KindsFit, Blocks
    <3> QED  BY <1>6, <2>7, <3>2
  <2>8. graph.kind[b] \in {"join", "target"}
    BY <1>4, <1>7 DEF KindsFit, Blocks
  <2> QED  BY <2>5, <2>6, <2>7, <2>8
<1>8. predecessors'[Entry] = <<>>
  BY <1>4, <1>6 DEF RecordedInv
<1> QED  BY <1>2, <1>7, <1>8 DEF RecordedInv

LEMMA RecordedNew ==
  ASSUME WalkInv, EdgesInv, RecordedInv, visit_new
  PROVE  RecordedInv'
<1>1. /\ Visiting /\ Top.next >= 0 /\ ~is_marked(Successor)
      /\ predecessors' = block_add_predecessor([predecessors EXCEPT ![Successor] = <<>>], Successor, Top.block)
      /\ parent' = Append(parent, preorder_num[Top.block]) /\ preorder' = Append(preorder, Successor)
      /\ UNCHANGED graph
  BY DEF visit_new, Number, parent_num
<1>2. PICK b, p : b = Successor /\ p = Top.block
  OBVIOUS
<1>3. PICK preds : preds = [predecessors EXCEPT ![b] = <<>>]
  OBVIOUS
<1>4. /\ b \in Blocks \ {Entry} /\ p \in Blocks /\ Entry \in Blocks
      /\ predecessors' = block_add_predecessor(preds, b, p)
  BY <1>1, <1>2, <1>3, NotTheEntry
<1>5. predecessors \in [Blocks -> Seq(Blocks)]
  BY DEF EdgesInv, EdgesOf
<1>6. preds \in [Blocks -> Seq(Blocks)] /\ \A c \in Blocks \ {b} : preds[c] = predecessors[c]
  <2>1. <<>> \in Seq(Blocks) /\ b \in Blocks
    BY <1>4
  <2> QED  BY <1>3, <1>5, <2>1
<1>7. /\ \A c \in Blocks \ {b} : predecessors'[c] = predecessors[c]
      /\ graph.kind[b] \in {"join", "target"} => p \in Range(predecessors'[b])
  <2>1. /\ \A c \in Blocks \ {b} : block_add_predecessor(preds, b, p)[c] = preds[c]
        /\ graph.kind[b] \in {"join", "target"} => p \in Range(block_add_predecessor(preds, b, p)[b])
    BY <1>4, <1>6, PredecessorAdded
  <2> QED  BY <1>4, <1>6, <2>1
<1> DEFINE n == Len(preorder)
<1>8. /\ preorder \in Seq(Blocks) /\ n \in Nat /\ Len(parent) = n /\ parent \in Seq(Int)
      /\ \A k \in 1 .. n : preorder[k] \in Known /\ preorder[k] \in Blocks
      /\ \A k \in 2 .. n : parent[k] \in 0 .. k - 2
  BY TreeFacts
<1>9. is_marked(p)
  BY <1>1, <1>2, TopState
<1>10. preorder_num[p] + 1 \in 1 .. n /\ preorder[preorder_num[p] + 1] = p
  <2>1. p \in Known
    BY <1>4, <1>9 DEF Known
  <2> QED  BY <2>1, TreeFacts
<1>11. /\ Len(preorder') = n + 1 /\ preorder'[n + 1] = b /\ \A k \in 1 .. n : preorder'[k] = preorder[k]
  BY <1>1, <1>2, <1>4, <1>8, AppendProperties
<1>12. preorder_num[p] \in Int
  BY <1>4 DEF WalkInv, WalkTypes
<1>13. /\ parent'[n + 1] = preorder_num[p] /\ \A k \in 1 .. n : parent'[k] = parent[k]
  BY <1>1, <1>2, <1>8, <1>12, AppendProperties
<1> HIDE DEF n
<1>14. ASSUME KindsFit(graph), NEW k \in 2 .. n + 1
       PROVE  preorder'[parent'[k] + 1] \in Range(predecessors'[preorder'[k]])
  <2>1. CASE k = n + 1
    <3>1. preorder'[parent'[k] + 1] = p /\ preorder'[k] = b
      BY <1>10, <1>11, <1>13, <2>1
    <3>2. graph.kind[b] \in {"join", "target"}
      BY <1>4, <1>14 DEF KindsFit, Blocks
    <3> QED  BY <1>7, <3>1, <3>2
  <2>2. CASE k # n + 1
    <3>1. k \in 2 .. n /\ k \in 1 .. n
      BY <1>8, <2>2
    <3>2. parent[k] + 1 \in 1 .. n
      BY <1>8, <3>1
    <3>3. preorder[k] # b /\ preorder[k] \in Blocks
      BY <1>1, <1>2, <1>8, <3>1 DEF Known
    <3>4. preorder[parent[k] + 1] \in Range(predecessors[preorder[k]])
      BY <1>14, <3>1 DEF RecordedInv, n
    <3> QED  BY <1>7, <1>11, <1>13, <3>1, <3>2, <3>3, <3>4
  <2> QED  BY <2>1, <2>2
<1>15. predecessors'[Entry] = <<>>
  BY <1>4, <1>7 DEF RecordedInv
<1> QED  BY <1>1, <1>11, <1>14, <1>15 DEF RecordedInv

LEMMA RecordedStep ==
  ASSUME GraphInv, RecordedInv, [Next]_vars
  PROVE  RecordedInv'
<1>1. CASE discover_entry
  <2>1. predecessors' = predecessors /\ preorder' = <<Entry>>
    BY <1>1 DEF discover_entry, Number
  <2>2. Len(preorder') = 1
    BY <2>1
  <2> QED  BY <2>1, <2>2 DEF RecordedInv
<1>2. CASE visit_marked
  BY <1>2, RecordedMarked DEF GraphInv
<1>3. CASE visit_new
  BY <1>3, RecordedNew DEF GraphInv
<1>4. CASE leave_block \/ ~Discovery
  <2>1. UNCHANGED <<graph, preorder, parent, predecessors>>
    BY <1>4, WalkRests DEF leave_block, numbers, blockVars, walk
  <2> QED  BY <2>1 DEF RecordedInv
<1> QED  BY <1>1, <1>2, <1>3, <1>4 DEF Discovery, graph_discover_blocks

LEMMA TreeRecorded ==
  ASSUME GraphInv, RecordedInv, KindsFit(graph), preorder # <<>>
  PROVE  TreeEdges /\ \A p : ~Edge(p, 0)
<1>0. ParentsOK /\ Numbers = 0 .. Size - 1 /\ Size \in Nat \ {0}
  BY WalkLeft DEF GraphInv, ParentsOK, Numbers
<1>1. ASSUME NEW b \in Numbers \ {0} PROVE parent[b + 1] \in Numbers /\ Edge(parent[b + 1], b)
  <2>1. b + 1 \in 2 .. Len(preorder) /\ parent[b + 1] \in 0 .. (b + 1) - 2
    BY <1>0, TreeFacts DEF Size, GraphInv
  <2>2. parent[b + 1] \in Numbers /\ parent[b + 1] + 1 \in 1 .. Len(preorder)
    BY <1>0, <2>1
  <2>3. preorder[parent[b + 1] + 1] \in Range(predecessors[preorder[b + 1]])
    BY <2>1 DEF RecordedInv
  <2>4. PICK i \in DOMAIN predecessors[preorder[b + 1]] :
          predecessors[preorder[b + 1]][i] = preorder[parent[b + 1] + 1]
    BY <2>3 DEF Range
  <2>5. preorder_num[preorder[parent[b + 1] + 1]] = (parent[b + 1] + 1) - 1
    BY <2>2, TreeFacts DEF GraphInv
  <2>6. i \in DOMAIN PredNumbers(b) /\ PredNumbers(b)[i] = parent[b + 1]
    BY <1>0, <2>2, <2>4, <2>5 DEF PredNumbers
  <2> QED  BY <2>2, <2>6 DEF Edge, Range
<1>2. preorder[1] = Entry
  BY DEF GraphInv, StackInv
<1>3. DOMAIN predecessors[preorder[0 + 1]] = {}
  BY <1>2 DEF RecordedInv
<1>4. \A p : ~Edge(p, 0)
  BY <1>3 DEF Edge, Range, PredNumbers
<1> QED  BY <1>1, <1>4 DEF TreeEdges
-----------------------------------------------------------------------------
\* Until a label is lowered behind its computation, every semidominator
\* computed comes from an edge.
SemiInv == lowered = {} =>
  /\ pass = 1 => /\ \A b \in Numbers : b > block_index => SemiFrom(semi, b)
                 /\ \A b \in Numbers : b <= block_index => semi[b] = b
  /\ pass = 2 => \A b \in Numbers \ {0} : SemiFrom(semi, b)

\* And every dominator found is the immediate one.
IdomInv ==
  /\ pass > 0 => dominator[0] = Nobody
  /\ KindsFit(graph) /\ lowered = {} =>
       /\ pass = 2 => \A x \in Numbers \ {0} : x < block_index =>
                        idom[x] = dominator[x] /\ Immediate(idom[x], x)
       /\ pass = 3 => \A x \in Numbers \ {0} : Immediate(dominator[x], x)

\* The frontiers hold the joins before k that they should, and no block from k on.
FrontiersTo(k) == \A a, b \in Numbers :
  /\ b < k /\ graph.kind[preorder[b + 1]] = "join" => (b \in dominance[a] <=> InFrontier(a, b))
  /\ b >= k => b \notin dominance[a]

FrontierInv ==
  /\ pass \in {1, 2} => \A a \in Numbers : dominance[a] = {}
  /\ KindsFit(graph) /\ lowered = {} /\ pass = 3 /\ phase = "dominators" => FrontiersTo(block_index)

LEMMA DominanceKept ==
  ASSUME UNCHANGED blockVars
  PROVE  /\ Numbers' = Numbers /\ graph' = graph /\ preorder' = preorder /\ Size' = Size
         /\ \A s, b : SemiFrom(s, b)' = SemiFrom(s, b)
         /\ \A a, b : Immediate(a, b)' = Immediate(a, b)
         /\ \A a, b : InFrontier(a, b)' = InFrontier(a, b)
<1>1. UNCHANGED <<graph, parent, preorder, preorder_num, predecessors>>
  BY DEF blockVars, numbers, walk
<1>2. Numbers' = Numbers /\ Size' = Size
  BY <1>1 DEF Size, Numbers
<1>3. \A a, b : Edge(a, b)' = Edge(a, b)
  BY <1>1 DEF Edge, PredNumbers
<1>4. \A s, b : SemiFrom(s, b)' = SemiFrom(s, b)
  BY <1>1, <1>2 DEF SemiFrom, Edge, PredNumbers
<1>5. \A a, b : Immediate(a, b)' = Immediate(a, b)
  BY <1>1, <1>2 DEF Immediate, Strictly, Dominates, Edge, PredNumbers
<1>6. \A a, b : InFrontier(a, b)' = InFrontier(a, b)
  BY <1>1, <1>2 DEF InFrontier, Strictly, Dominates, Edge, PredNumbers
<1> QED  BY <1>1, <1>2, <1>4, <1>5, <1>6

\* What the other parts leave of the dominators.
LEMMA DominatorsRest ==
  ASSUME DomInv, [Next]_vars, ~DominatorPasses, pass' > 0
  PROVE  /\ UNCHANGED <<blockVars, pass, idom, semi, lowered, dominator, dominance>>
         /\ pass \in {1, 2} => block_index' = block_index
         /\ phase' = "dominators" => phase = "dominators" /\ block_index' = block_index
<1>1. CASE Discovery
  <2>1. phase = "discover" /\ pass' = pass
    BY <1>1 DEF Discovery, graph_discover_blocks, discover_entry, visit_marked, visit_new,
                leave_block, Visiting, dominatorVars
  <2>2. pass \in 0 .. 3 /\ ~ (pass > 0)
    BY <2>1 DEF DomInv, DomTypes
  <2> QED  BY <2>1, <2>2
<1>2. CASE Liveness \/ Rename
  <2>1. /\ UNCHANGED <<blockVars, pass, idom, semi, lowered, dominator, dominance>>
        /\ phase # "discover" /\ phase' # "dominators"
        /\ phase = "dominators" => pass = 3
    BY <1>2 DEF Liveness, liveness_analyze, compute_initial_sets, initial_sets_done,
                update_live_sets, place_unset, live_sets_passed, dominatorResults, dominatorVars,
                DominatorsDone, Looping, Rename, insert_phis, graph_rename_recursive, renamed
  <2>2. pass \notin {1, 2}
    BY <2>1 DEF DomInv, DomTypes
  <2> QED  BY <2>1, <2>2
<1>3. CASE UNCHANGED vars
  BY <1>3 DEF vars, dominatorVars
<1> QED  BY <1>1, <1>2, <1>3 DEF Next

LEMMA SemidominatorFrom ==
  ASSUME ParentsOK, PredsOK, DomInv, SemiInv, semidominator
  PROVE  SemiInv'
<1>1. /\ pass = 1 /\ block_index >= 1 /\ pass' = pass
      /\ semi' = RelaxAll(block_index).semi /\ block_index' = block_index - 1
      /\ lowered' = lowered \cup {c \in Numbers : c > block_index /\ RelaxAll(block_index).semi[c] # semi[c]}
      /\ UNCHANGED blockVars
  BY DEF semidominator, Looping
<1>2. /\ Numbers' = Numbers /\ Numbers = 0 .. Size - 1 /\ Size \in Nat \ {0}
      /\ \A s, b : SemiFrom(s, b)' = SemiFrom(s, b)
  BY <1>1, DominanceKept DEF Numbers, ParentsOK
<1>3. PICK b \in Numbers : b = block_index
  BY <1>1, <1>2 DEF DomInv, DomTypes
<1>4. PICK s0 \in [Numbers -> Nat] : Relaxed(s0, b, [semi |-> semi, up |-> up])
  BY <1>1, <1>3 DEF DomInv, PassInv
<1>5. PICK new : new = RelaxAll(b).semi
  OBVIOUS
<1>6. /\ \A x \in Numbers : new[x] <= semi[x]
      /\ \/ new[b] = semi[b]
         \/ \E p \in Numbers : Edge(p, b) /\
              \/ p < b /\ new[b] = p
              \/ p > b /\ new[p] <= new[b] /\ new[b] <= semi[p]
  <2>1. /\ \A x \in Numbers : RelaxAll(b).semi[x] <= semi[x]
        /\ \/ RelaxAll(b).semi[b] = semi[b]
           \/ \E p \in Numbers : Edge(p, b) /\
                \/ p < b /\ RelaxAll(b).semi[b] = p
                \/ p > b /\ RelaxAll(b).semi[p] <= RelaxAll(b).semi[b] /\ RelaxAll(b).semi[b] <= semi[p]
    BY <1>4, AllRelaxedFrom
  <2> QED  BY <1>5, <2>1
<1>7. \A x \in Numbers : new[x] \in Nat /\ semi[x] \in Nat
  <2>1. RelaxAll(b) \in Tree
    BY <1>4, AllRelaxed DEF Relaxed
  <2>2. \A x \in Numbers : RelaxAll(b).semi[x] \in Nat
    BY <2>1, TreeFields
  <2>3. semi \in [Numbers -> Nat]
    BY <1>1 DEF DomInv, DomTypes
  <2> QED  BY <1>5, <2>2, <2>3
<1>8. ASSUME lowered' = {}, NEW c \in Numbers, c > b - 1 PROVE SemiFrom(new, c)
  <2>1. lowered = {} /\ \A x \in Numbers : x > b => new[x] = semi[x]
    BY <1>1, <1>3, <1>5, <1>8
  <2>2. CASE c > b
    <3>1. SemiFrom(semi, c)
      BY <1>1, <1>3, <2>1, <2>2 DEF SemiInv
    <3>2. \A p \in Numbers : p > c => new[p] = semi[p]
      BY <1>2, <2>1, <2>2
    <3> QED  BY <2>1, <2>2, <3>1, <3>2 DEF SemiFrom
  <2>3. CASE c = b
    <3>1. CASE new[b] = semi[b]
      <4>1. semi[b] = b
        BY <1>1, <1>2, <1>3, <2>1 DEF SemiInv
      <4> QED  BY <2>3, <3>1, <4>1 DEF SemiFrom
    <3>2. ASSUME NEW p \in Numbers, Edge(p, b), p < b /\ new[b] = p PROVE SemiFrom(new, c)
      BY <2>3, <3>2 DEF SemiFrom
    <3>3. ASSUME NEW p \in Numbers, Edge(p, b), p > b, new[p] <= new[b], new[b] <= semi[p]
          PROVE  SemiFrom(new, c)
      <4>1. new[p] = semi[p]
        BY <2>1, <3>3
      <4>2. new[b] = new[p]
        BY <1>7, <3>3, <4>1
      <4> QED  BY <2>3, <3>3, <4>2 DEF SemiFrom
    <3> QED  BY <1>6, <3>1, <3>2, <3>3
  <2> QED  BY <1>2, <1>8, <2>2, <2>3
<1>9. ASSUME lowered' = {}, NEW c \in Numbers, c > block_index' PROVE SemiFrom(semi, c)'
  <2>1. SemiFrom(new, c)
    BY <1>1, <1>3, <1>8, <1>9
  <2>2. SemiFrom(new, c)'
    BY <1>2, <2>1
  <2>3. semi' = new
    BY <1>1, <1>3, <1>5
  <2> QED  BY <2>2, <2>3 DEF SemiFrom
<1>10. ASSUME NEW c \in Numbers, c <= block_index' PROVE semi'[c] = c
  <2>1. \A x \in Numbers : x < b => RelaxAll(b).semi[x] = x
    BY <1>4, AllRelaxed DEF Relaxed
  <2>2. c < b
    BY <1>1, <1>2, <1>3, <1>10
  <2> QED  BY <1>1, <1>3, <2>1, <2>2
<1> QED  BY <1>1, <1>2, <1>9, <1>10 DEF SemiInv

LEMMA SemiPasses ==
  ASSUME ParentsOK, PredsOK, DomInv, SemiInv, DominatorPasses
  PROVE  SemiInv'
<1>0. Numbers = 0 .. Size - 1 /\ Size \in Nat \ {0}
  BY DEF Numbers, ParentsOK
<1>1. CASE compute_dominators
  <2>1. /\ pass' = 1 /\ block_index' = Size - 1 /\ semi' = [b \in Numbers |-> b] /\ UNCHANGED blockVars
    BY <1>1 DEF compute_dominators
  <2>2. Numbers' = Numbers
    BY <2>1, DominanceKept
  <2>3. \A b \in Numbers : ~ (b > block_index') /\ semi'[b] = b
    BY <1>0, <2>1
  <2> QED  BY <2>1, <2>2, <2>3 DEF SemiInv
<1>2. CASE semidominator
  BY <1>2, SemidominatorFrom
<1>3. CASE semidominators_done
  <2>1. /\ pass = 1 /\ block_index < 1 /\ pass' = 2 /\ UNCHANGED <<blockVars, semi, lowered>>
    BY <1>3 DEF semidominators_done, Looping
  <2>2. Numbers' = Numbers /\ \A s, b : SemiFrom(s, b)' = SemiFrom(s, b)
    BY <2>1, DominanceKept
  <2>3. block_index \in 0 .. Size - 1
    BY <2>1 DEF DomInv, DomTypes
  <2>4. \A b \in Numbers \ {0} : b > block_index
    BY <1>0, <2>1, <2>3
  <2>5. ASSUME lowered = {}, NEW b \in Numbers \ {0} PROVE SemiFrom(semi, b)'
    <3>1. SemiFrom(semi, b)
      BY <2>1, <2>4, <2>5 DEF SemiInv
    <3>2. PICK s : s = semi
      OBVIOUS
    <3>3. SemiFrom(s, b)' /\ semi' = s
      BY <2>1, <2>2, <3>1, <3>2
    <3> QED  BY <3>3 DEF SemiFrom
  <2> QED  BY <2>1, <2>2, <2>5 DEF SemiInv
<1>4. CASE block_add_dominated
  <2>1. pass = 2 /\ pass' = 2 /\ UNCHANGED <<blockVars, semi, lowered>>
    BY <1>4 DEF block_add_dominated, Looping
  <2>2. Numbers' = Numbers /\ \A s, b : SemiFrom(s, b)' = SemiFrom(s, b)
    BY <2>1, DominanceKept
  <2>3. ASSUME lowered = {}, NEW b \in Numbers \ {0} PROVE SemiFrom(semi, b)'
    <3>1. SemiFrom(semi, b)
      BY <2>1, <2>3 DEF SemiInv
    <3>2. PICK s : s = semi
      OBVIOUS
    <3>3. SemiFrom(s, b)' /\ semi' = s
      BY <2>1, <2>2, <3>1, <3>2
    <3> QED  BY <3>3 DEF SemiFrom
  <2> QED  BY <2>1, <2>2, <2>3 DEF SemiInv
<1>5. CASE dominators_done \/ frontier \/ runner_lost
  <2>1. pass' = 3
    BY <1>5 DEF dominators_done, frontier, runner_lost, Looping, dominatorVars
  <2> QED  BY <2>1 DEF SemiInv
<1> QED  BY <1>1, <1>2, <1>3, <1>4, <1>5 DEF DominatorPasses, DominatorsNext

LEMMA SemiRests ==
  ASSUME DomInv, SemiInv, [Next]_vars, ~DominatorPasses
  PROVE  SemiInv'
<1>1. CASE pass' > 0
  <2>1. /\ UNCHANGED <<blockVars, pass, semi, lowered>>
        /\ pass \in {1, 2} => block_index' = block_index
    BY <1>1, DominatorsRest
  <2>2. Numbers' = Numbers /\ \A s, b : SemiFrom(s, b)' = SemiFrom(s, b)
    BY <2>1, DominanceKept
  <2>3. ASSUME NEW b, SemiFrom(semi, b) PROVE SemiFrom(semi, b)'
    <3>1. PICK s : s = semi
      OBVIOUS
    <3>2. SemiFrom(s, b)' /\ semi' = s
      BY <2>1, <2>2, <2>3, <3>1
    <3> QED  BY <3>2 DEF SemiFrom
  <2> QED  BY <2>1, <2>2, <2>3 DEF SemiInv
<1>2. CASE ~ (pass' > 0)
  <2>1. pass' \notin {1, 2}
    BY <1>2
  <2> QED  BY <2>1 DEF SemiInv
<1> QED  BY <1>1, <1>2

LEMMA IdomPasses ==
  ASSUME ParentsOK, EdgesDown, KindsFit(graph) => TreeEdges, DomInv, SemiInv, IdomInv, DominatorPasses
  PROVE  IdomInv'
<1>0. /\ Numbers = 0 .. Size - 1 /\ Size \in Nat \ {0} /\ UNCHANGED blockVars
      /\ Numbers' = Numbers /\ graph' = graph /\ \A a, b : Immediate(a, b)' = Immediate(a, b)
      /\ lowered \subseteq lowered'
  <2>1. UNCHANGED blockVars /\ lowered \subseteq lowered'
    BY DEF DominatorPasses, DominatorsNext, compute_dominators, semidominator, semidominators_done,
           block_add_dominated, dominators_done, frontier, runner_lost, dominatorVars
  <2> QED  BY <2>1, DominanceKept DEF Numbers, ParentsOK
<1>1. CASE compute_dominators
  <2>1. pass' = 1 /\ dominator' = [b \in Numbers |-> Nobody]
    BY <1>1 DEF compute_dominators
  <2>2. dominator'[0] = Nobody
    BY <1>0, <2>1
  <2> QED  BY <2>1, <2>2 DEF IdomInv
<1>2. CASE semidominator
  <2>1. pass = 1 /\ pass' = 1 /\ dominator' = dominator
    BY <1>2 DEF semidominator, Looping
  <2> QED  BY <2>1 DEF IdomInv
<1>3. CASE semidominators_done
  <2>1. pass = 1 /\ pass' = 2 /\ block_index' = 1 /\ dominator' = dominator
    BY <1>3 DEF semidominators_done, Looping
  <2>2. \A x \in Numbers \ {0} : ~ (x < block_index')
    BY <1>0, <2>1
  <2> QED  BY <1>0, <2>1, <2>2 DEF IdomInv
<1>4. CASE block_add_dominated
  <2>1. /\ pass = 2 /\ pass' = 2 /\ block_index < Size /\ block_index' = block_index + 1 /\ lowered' = lowered
        /\ idom' = [idom EXCEPT ![block_index] = Climb(block_index)]
        /\ dominator' = [dominator EXCEPT ![block_index] = Climb(block_index)]
    BY <1>4 DEF block_add_dominated, Looping
  <2>2. DomTypes /\ block_index \in 1 .. Size
    BY <2>1 DEF DomInv, DomTypes
  <2>3. PICK b \in Numbers \ {0} : b = block_index
    BY <1>0, <2>1, <2>2
  <2>4. PICK s0 \in [Numbers -> Nat] : PassInv(s0)
    BY <2>1 DEF DomInv
  <2>5. (\A x \in Numbers : semi[x] <= s0[x]) /\ Bounds(s0, 0) /\ Idoms(s0, b)
    BY <2>1, <2>3, <2>4 DEF PassInv
  <2>6. semi \in [Numbers -> Nat] /\ dominator \in [Numbers -> Numbers \cup {Nobody}]
    BY <2>1, <2>2 DEF DomTypes
  <2>7. PICK d : d = Climb(b)
    OBVIOUS
  <2>8. /\ idom \in [Numbers -> Numbers \cup {Nobody}]
        /\ idom' = [idom EXCEPT ![b] = d] /\ dominator' = [dominator EXCEPT ![b] = d]
    BY <2>1, <2>3, <2>5, <2>7 DEF Idoms
  <2>9. /\ idom'[b] = d /\ dominator'[b] = d
        /\ \A x \in Numbers : x # b => idom'[x] = idom[x] /\ dominator'[x] = dominator[x]
    BY <2>6, <2>8
  <2>10. dominator'[0] = Nobody
    <3>1. 0 \in Numbers /\ 0 # b
      BY <1>0
    <3> QED  BY <2>1, <2>9, <3>1 DEF IdomInv
  <2>11. ASSUME KindsFit(graph), lowered = {}, NEW x \in Numbers \ {0}, x < b + 1
         PROVE  idom'[x] = dominator'[x] /\ Immediate(idom'[x], x)
    <3>1. \A y \in Numbers \ {0} : y < b => idom[y] = dominator[y] /\ Immediate(idom[y], y)
      BY <2>1, <2>3, <2>11 DEF IdomInv
    <3>2. CASE x = b
      <4>1. \A y \in Numbers \ {0} : SemiFrom(semi, y)
        BY <2>1, <2>11 DEF SemiInv
      <4>2. Immediate(Climb(b), b)
        BY <2>5, <2>6, <2>11, <3>1, <4>1, ClimbImmediate
      <4> QED  BY <2>7, <2>9, <3>2, <4>2
    <3>3. CASE x # b
      <4>1. x < b
        BY <1>0, <2>11, <3>3
      <4> QED  BY <2>9, <3>1, <3>3, <4>1
    <3> QED  BY <3>2, <3>3
  <2> QED  BY <1>0, <2>1, <2>3, <2>10, <2>11 DEF IdomInv
<1>5. CASE dominators_done
  <2>1. /\ pass = 2 /\ block_index = Size /\ pass' = 3 /\ UNCHANGED <<dominator, lowered>>
    BY <1>5 DEF dominators_done, Looping
  <2>2. \A x \in Numbers \ {0} : x < block_index
    BY <1>0, <2>1
  <2> QED  BY <1>0, <2>1, <2>2 DEF IdomInv
<1>6. CASE frontier \/ runner_lost
  <2>1. pass = 3 /\ UNCHANGED <<pass, dominator, lowered>>
    BY <1>6 DEF frontier, runner_lost, Looping, dominatorVars
  <2> QED  BY <1>0, <2>1 DEF IdomInv
<1> QED  BY <1>1, <1>2, <1>3, <1>4, <1>5, <1>6 DEF DominatorPasses, DominatorsNext

LEMMA IdomRests ==
  ASSUME DomInv, IdomInv, [Next]_vars, ~DominatorPasses
  PROVE  IdomInv'
<1>1. CASE pass' > 0
  <2>1. /\ UNCHANGED <<blockVars, pass, idom, lowered, dominator>>
        /\ pass \in {1, 2} => block_index' = block_index
    BY <1>1, DominatorsRest
  <2>2. Numbers' = Numbers /\ graph' = graph /\ \A a, b : Immediate(a, b)' = Immediate(a, b)
    BY <2>1, DominanceKept
  <2> QED  BY <2>1, <2>2 DEF IdomInv
<1>2. CASE ~ (pass' > 0)
  <2>1. pass' \notin {2, 3}
    BY <1>2
  <2> QED  BY <1>2, <2>1 DEF IdomInv
<1> QED  BY <1>1, <1>2
-----------------------------------------------------------------------------
\* Every block's dominator is the immediate one.
DominatorsBest ==
  /\ dominator \in [Numbers -> Numbers \cup {Nobody}] /\ dominator[0] = Nobody
  /\ \A x \in Numbers \ {0} : Immediate(dominator[x], x)

\* The function that Run is.
IsRun(f, stop) == \A x \in Numbers \cup {Nobody} :
  f[x] = IF x = stop THEN {} ELSE {x} \cup (IF x = Nobody THEN {} ELSE f[dominator[x]])

LEMMA DominatorLower ==
  ASSUME ParentsOK, TreeEdges, DominatorsBest, NEW x \in Numbers \ {0}
  PROVE  dominator[x] \in Numbers /\ dominator[x] < x
<1>1. Numbers = 0 .. Size - 1 /\ Size \in Nat \ {0} /\ Nobody = -1
  BY DEF Numbers, ParentsOK, Nobody
<1>2. Strictly(dominator[x], x) /\ dominator[x] \in Numbers \cup {Nobody}
  BY DEF DominatorsBest, Immediate
<1>3. dominator[x] # Nobody
  <2>1. SUFFICES ASSUME dominator[x] = Nobody PROVE FALSE
    OBVIOUS
  <2>2. Dominates(Nobody, x) /\ Nobody # x
    BY <1>1, <1>2, <2>1 DEF Strictly
  <2>3. PICK S \in SUBSET (Numbers \ {Nobody, x}) :
          0 \in S /\ \A p \in S, q \in Numbers : Edge(p, q) => q \in S \cup {Nobody}
    BY <1>1, <2>2 DEF Dominates
  <2>4. ASSUME NEW k \in 0 .. Size - 1, \A j \in 0 .. k - 1 : j \in S PROVE k \in S
    <3>1. CASE k = 0
      BY <2>3, <3>1
    <3>2. CASE k # 0
      <4>1. k \in Numbers \ {0} /\ k # Nobody
        BY <1>1, <3>2
      <4>2. parent[k + 1] \in Numbers /\ Edge(parent[k + 1], k) /\ parent[k + 1] < k
        BY <4>1 DEF TreeEdges, ParentsOK
      <4>3. parent[k + 1] \in S
        BY <1>1, <2>4, <4>2
      <4> QED  BY <2>3, <4>1, <4>2, <4>3
    <3> QED  BY <3>1, <3>2
  <2>5. x \in S
    <3>1. \A k \in 0 .. Size - 1 : k \in S
      BY <1>1, <2>4, UpwardInduction
    <3> QED  BY <1>1, <3>1
  <2> QED  BY <2>3, <2>5
<1>4. dominator[x] \in Numbers /\ dominator[x] # x /\ Dominates(dominator[x], x)
  BY <1>2, <1>3 DEF Strictly
<1>5. dominator[x] = 0 \/ dominator[x] <= x
  BY <1>4, DominatorsAbove
<1> QED  BY <1>1, <1>4, <1>5

LEMMA RunIs ==
  ASSUME ParentsOK, TreeEdges, DominatorsBest, NEW r, NEW stop \in Numbers
  PROVE  \E f : IsRun(f, stop) /\ Run(r, stop) = f[r]
<1> DEFINE n == Size - 1
           All == Numbers \cup {Nobody}
           Stop == {0, stop}
           base == [x \in Stop |-> IF x = stop THEN {} ELSE {0, Nobody}]
           step == [xv \in Numbers \X SUBSET All |-> {xv[1]} \cup xv[2]]
<1>0. Numbers = 0 .. n /\ n \in Nat /\ 0 \in Numbers /\ Nobody = -1 /\ Nobody \notin Numbers
  BY DEF Numbers, ParentsOK, Nobody
<1>1. \A x \in 0 .. n : x \notin Stop => dominator[x] \in 0 .. x - 1
  <2>1. ASSUME NEW x \in 0 .. n, x \notin Stop PROVE dominator[x] \in 0 .. x - 1
    <3>1. x \in Numbers \ {0}
      BY <1>0, <2>1
    <3>2. dominator[x] \in Numbers /\ dominator[x] < x
      BY <3>1, DominatorLower
    <3> QED  BY <1>0, <3>2
  <2> QED  BY <2>1
<1>2. \A x \in 0 .. n : x \in Stop => base[x] \in SUBSET All
  BY <1>0
<1>3. \A x \in 0 .. n, y \in SUBSET All : step[<<x, y>>] \in SUBSET All
  BY <1>0
<1>4. {} \in SUBSET All
  OBVIOUS
<1>5. PICK f \in [0 .. n -> SUBSET All] : Follows(f, n, Stop, dominator, base, step)
  <2> HIDE DEF n, Stop, base, step, All
  <2>1. \E f \in [0 .. n -> SUBSET All] : Follows(f, n, Stop, dominator, base, step)
    BY <1>0, <1>1, <1>2, <1>3, <1>4, RecursionExists
  <2> QED  BY <2>1
<1> DEFINE g == [x \in All |-> IF x = Nobody THEN {Nobody} ELSE f[x]]
<1>6. ASSUME NEW x \in All
      PROVE  g[x] = IF x = stop THEN {} ELSE {x} \cup (IF x = Nobody THEN {} ELSE g[dominator[x]])
  <2>1. CASE x = Nobody
    BY <1>0, <2>1
  <2>2. CASE x = stop
    <3>1. x \in 0 .. n /\ x \in Stop /\ x # Nobody
      BY <1>0, <2>2
    <3>2. f[x] = base[x]
      BY <1>5, <3>1 DEF Follows
    <3> QED  BY <2>2, <3>1, <3>2
  <2>3. CASE x = 0 /\ x # stop
    <3>1. x \in 0 .. n /\ x \in Stop /\ x # Nobody
      BY <1>0, <2>3
    <3>2. f[x] = base[x]
      BY <1>5, <3>1 DEF Follows
    <3>3. g[x] = {0, Nobody} /\ g[dominator[x]] = {Nobody}
      BY <2>3, <3>1, <3>2 DEF DominatorsBest
    <3> QED  BY <2>3, <3>1, <3>3
  <2>4. CASE x # Nobody /\ x # stop /\ x # 0
    <3>1. x \in 0 .. n /\ x \notin Stop
      BY <1>0, <2>4
    <3>2. dominator[x] \in Numbers /\ dominator[x] # Nobody
      BY <1>0, <1>1, <3>1
    <3>3. f[x] = step[<<x, f[dominator[x]]>>]
      BY <1>5, <3>1 DEF Follows
    <3>4. f[dominator[x]] \in SUBSET All
      BY <1>0, <1>5, <3>2
    <3>5. f[x] = {x} \cup f[dominator[x]]
      BY <1>0, <3>1, <3>3, <3>4
    <3> QED  BY <2>4, <3>2, <3>5
  <2> QED  BY <2>1, <2>2, <2>3, <2>4
<1>7. g = [x \in All |-> IF x = stop THEN {} ELSE {x} \cup (IF x = Nobody THEN {} ELSE g[dominator[x]])]
  <2>1. g = [x \in All |-> g[x]]
    OBVIOUS
  <2> HIDE DEF g, All
  <2> QED  BY <1>6, <2>1
<1> DEFINE run == CHOOSE h : h = [x \in Numbers \cup {Nobody} |->
                    IF x = stop THEN {} ELSE {x} \cup (IF x = Nobody THEN {} ELSE h[dominator[x]])]
<1>8. run = [x \in Numbers \cup {Nobody} |->
               IF x = stop THEN {} ELSE {x} \cup (IF x = Nobody THEN {} ELSE run[dominator[x]])]
  <2> HIDE DEF g
  <2> QED  BY <1>7, Zenon
<1>9. Run(r, stop) = run[r]
  BY DEF Run
<1> HIDE DEF run
<1>10. IsRun(run, stop)
  <2>1. \A x \in Numbers \cup {Nobody} :
          run[x] = IF x = stop THEN {} ELSE {x} \cup (IF x = Nobody THEN {} ELSE run[dominator[x]])
    BY <1>8, Zenon
  <2> QED  BY <2>1 DEF IsRun
<1> QED  BY <1>9, <1>10

\* A runner meets the dominators of where it starts, down to where it stops.
LEMMA RunMeets ==
  ASSUME ParentsOK, TreeEdges, DominatorsBest, NEW p \in Numbers, NEW stop \in Numbers, Dominates(stop, p)
  PROVE  Run(p, stop) = {a \in Numbers : Dominates(a, p) /\ ~Dominates(a, stop)}
<1>1. PICK f : IsRun(f, stop) /\ Run(p, stop) = f[p]
  BY RunIs
<1> DEFINE n == Size - 1
           Meets(x) == f[x] = {a \in Numbers : Dominates(a, x) /\ ~Dominates(a, stop)}
           Good == {x \in 0 .. n : Dominates(stop, x) => Meets(x)}
<1>0. Numbers = 0 .. n /\ n \in Nat /\ Nobody = -1
  BY DEF Numbers, ParentsOK, Nobody
<1>2. ASSUME NEW x \in 0 .. n, \A j \in 0 .. x - 1 : j \in Good PROVE x \in Good
  <2>0. x \in Numbers /\ x # Nobody
    BY <1>0
  <2> SUFFICES ASSUME Dominates(stop, x) PROVE Meets(x)
    OBVIOUS
  <2>1. CASE x = stop
    <3>1. f[x] = {}
      BY <1>1, <2>0, <2>1 DEF IsRun
    <3> QED  BY <2>1, <3>1
  <2>2. CASE x # stop
    <3>1. stop = 0 \/ stop <= x
      BY <2>0, DominatorsAbove
    <3>2. stop < x /\ x # 0
      BY <1>0, <2>0, <2>2, <3>1
    <3>3. dominator[x] \in Numbers /\ dominator[x] < x
      BY <2>0, <3>2, DominatorLower
    <3>4. Immediate(dominator[x], x)
      BY <2>0, <3>2 DEF DominatorsBest
    <3>5. Dominates(stop, dominator[x])
      BY <2>2, <3>4 DEF Immediate, Strictly
    <3>6. Meets(dominator[x])
      <4>1. dominator[x] \in 0 .. x - 1
        BY <1>0, <3>3
      <4> QED  BY <1>2, <3>5, <4>1
    <3>7. f[x] = {x} \cup f[dominator[x]]
      BY <1>1, <2>0, <2>2 DEF IsRun
    <3>8. ~Dominates(x, stop)
      <4>1. ~ (x <= stop)
        BY <1>0, <2>0, <3>2
      <4> QED  BY <2>0, <3>2, <4>1, DominatorsAbove
    <3>9. ASSUME NEW a \in Numbers PROVE Dominates(a, x) <=> a = x \/ Dominates(a, dominator[x])
      <4>1. ASSUME Dominates(a, x), a # x PROVE Dominates(a, dominator[x])
        BY <3>4, <4>1 DEF Immediate, Strictly
      <4>2. ASSUME Dominates(a, dominator[x]) PROVE Dominates(a, x)
        BY <2>0, <3>3, <3>4, <4>2, DominatesTransitive DEF Immediate, Strictly
      <4>3. Dominates(x, x)
        BY DEF Dominates
      <4> QED  BY <4>1, <4>2, <4>3
    <3> QED  BY <2>0, <3>6, <3>7, <3>8, <3>9
  <2> QED  BY <2>1, <2>2
<1>3. p \in Good
  <2> HIDE DEF Good, n
  <2>1. \A x \in 0 .. n : x \in Good
    BY <1>0, <1>2, UpwardInduction
  <2> QED  BY <1>0, <2>1
<1> QED  BY <1>1, <1>3

\* The runners of a join meet its frontier's blocks.
LEMMA RunnersMeet ==
  ASSUME ParentsOK, PredsOK, TreeEdges, \A p : ~Edge(p, 0), DominatorsBest,
         NEW a \in Numbers, NEW b \in Numbers, graph.kind[preorder[b + 1]] = "join"
  PROVE  a \in Runners(b) <=> InFrontier(a, b)
<1>0. Numbers = 0 .. Size - 1 /\ Size \in Nat \ {0}
  BY DEF Numbers, ParentsOK
<1>1. /\ PredNumbers(b) \in Seq(Numbers) /\ Len(PredNumbers(b)) \in Nat
      /\ DOMAIN PredNumbers(b) = 1 .. Len(PredNumbers(b))
      /\ \A i \in 1 .. Len(PredNumbers(b)) : PredNumbers(b)[i] \in Numbers
  BY ElementOfSeq DEF PredsOK
<1>2. CASE b = 0
  <2>1. ~InFrontier(a, b)
    BY <1>2 DEF InFrontier
  <2>2. Len(PredNumbers(b)) = 0
    <3>1. ASSUME Len(PredNumbers(b)) # 0 PROVE FALSE
      <4>1. 1 \in DOMAIN PredNumbers(b)
        BY <1>1, <3>1
      <4>2. Edge(PredNumbers(b)[1], b)
        BY <4>1 DEF Edge, Range
      <4> QED  BY <1>2, <4>2
    <3> QED  BY <3>1
  <2> QED  BY <2>1, <2>2 DEF Runners
<1>3. CASE b # 0 /\ ~ (Len(PredNumbers(b)) > 1)
  <2>1. PICK p \in Numbers : p = parent[b + 1] /\ Edge(p, b) /\ p < b
    BY <1>3 DEF TreeEdges, ParentsOK
  <2>2. ASSUME NEW x \in Numbers, Edge(x, b) PROVE x = p
    <3>1. PICK i \in DOMAIN PredNumbers(b) : x = PredNumbers(b)[i]
      BY <2>2 DEF Edge, Range
    <3>2. PICK j \in DOMAIN PredNumbers(b) : p = PredNumbers(b)[j]
      BY <2>1 DEF Edge, Range
    <3>3. i = j
      BY <1>1, <1>3, <3>1, <3>2
    <3> QED  BY <3>1, <3>2, <3>3
  <2>3. ASSUME Dominates(a, p) PROVE Strictly(a, b)
    <3>1. Dominates(a, b)
      BY <1>3, <2>2, <2>3, OnlySource
    <3>2. a = 0 \/ a <= p
      BY <2>3, DominatorsAbove
    <3>3. a # b
      BY <1>0, <1>3, <2>1, <3>2
    <3> QED  BY <3>1, <3>3 DEF Strictly
  <2>4. ~InFrontier(a, b)
    BY <2>2, <2>3 DEF InFrontier
  <2> QED  BY <1>3, <2>4 DEF Runners
<1>4. CASE b # 0 /\ Len(PredNumbers(b)) > 1
  <2>1. PICK d \in Numbers : d = dominator[b] /\ d < b /\ Immediate(d, b)
    BY <1>4, DominatorLower DEF DominatorsBest
  <2>2. d # b /\ Dominates(d, b)
    BY <2>1 DEF Immediate, Strictly
  <2>3. Dominates(a, d) <=> Strictly(a, b)
    <3>1. ASSUME Strictly(a, b) PROVE Dominates(a, d)
      BY <2>1, <3>1 DEF Immediate
    <3>2. ASSUME Dominates(a, d) PROVE Strictly(a, b)
      <4>1. Dominates(a, b)
        BY <2>2, <3>2, DominatesTransitive
      <4>2. a = 0 \/ a <= d
        BY <3>2, DominatorsAbove
      <4>3. a # b
        BY <1>0, <1>4, <2>1, <4>2
      <4> QED  BY <4>1, <4>3 DEF Strictly
    <3> QED  BY <3>1, <3>2
  <2>4. ASSUME NEW p \in Numbers, Edge(p, b)
        PROVE  a \in Run(p, d) <=> Dominates(a, p) /\ ~Dominates(a, d)
    <3>1. Dominates(d, p)
      BY <2>2, <2>4, DominatesSource
    <3>2. Run(p, d) = {x \in Numbers : Dominates(x, p) /\ ~Dominates(x, d)}
      BY <3>1, RunMeets
    <3> QED  BY <3>2
  <2>5. Runners(b) = UNION {Run(p, d) : p \in Range(PredNumbers(b))}
    BY <1>4, <2>1 DEF Runners
  <2>6. \A p : p \in Range(PredNumbers(b)) <=> p \in Numbers /\ Edge(p, b)
    BY <1>1 DEF Edge, Range
  <2>7. a \in Runners(b) <=> \E p \in Numbers : Edge(p, b) /\ a \in Run(p, d)
    BY <2>5, <2>6
  <2> QED  BY <2>3, <2>4, <2>7 DEF InFrontier
<1> QED  BY <1>2, <1>3, <1>4

LEMMA BestFound ==
  ASSUME DomInv, IdomInv, KindsFit(graph), lowered = {}, pass = 3
  PROVE  DominatorsBest
  BY DEF DomInv, DomTypes, IdomInv, DominatorsBest

LEMMA FrontierPasses ==
  ASSUME ParentsOK, PredsOK, KindsFit(graph) => TreeEdges /\ \A p : ~Edge(p, 0),
         DomInv, IdomInv, FrontierInv, DominatorPasses
  PROVE  FrontierInv'
<1>0. /\ Numbers = 0 .. Size - 1 /\ Size \in Nat \ {0} /\ UNCHANGED blockVars
      /\ Numbers' = Numbers /\ graph' = graph /\ preorder' = preorder
      /\ \A a, b : InFrontier(a, b)' = InFrontier(a, b)
  <2>1. UNCHANGED blockVars
    BY DEF DominatorPasses, DominatorsNext, compute_dominators, semidominator, semidominators_done,
           block_add_dominated, dominators_done, frontier, runner_lost
  <2> QED  BY <2>1, DominanceKept DEF Numbers, ParentsOK
<1>1. CASE compute_dominators
  <2>1. pass' = 1 /\ dominance' = [b \in Numbers |-> {}]
    BY <1>1 DEF compute_dominators
  <2> QED  BY <1>0, <2>1 DEF FrontierInv
<1>2. CASE semidominator \/ semidominators_done \/ block_add_dominated
  <2>1. pass \in {1, 2} /\ pass' \in {1, 2} /\ dominance' = dominance
    BY <1>2 DEF semidominator, semidominators_done, block_add_dominated, Looping
  <2> QED  BY <1>0, <2>1 DEF FrontierInv
<1>3. CASE dominators_done
  <2>1. pass = 2 /\ pass' = 3 /\ block_index' = 0 /\ dominance' = dominance
    BY <1>3 DEF dominators_done, Looping
  <2>2. \A a \in Numbers : dominance[a] = {}
    BY <2>1 DEF FrontierInv
  <2>3. FrontiersTo(0)'
    <3>1. \A b \in Numbers : ~ (b < 0)
      BY <1>0
    <3> QED  BY <1>0, <2>1, <2>2, <3>1 DEF FrontiersTo
  <2> QED  BY <2>1, <2>3 DEF FrontierInv, FrontiersTo
<1>4. CASE runner_lost
  <2>1. pass' = 3 /\ phase' = "undefined"
    BY <1>4 DEF runner_lost, Looping, dominatorVars
  <2> QED  BY <2>1 DEF FrontierInv
<1>5. CASE frontier
  <2>1. /\ phase = "dominators" /\ pass = 3 /\ pass' = 3 /\ block_index < Size /\ block_index' = block_index + 1
        /\ dominance' = [a \in Numbers |-> IF a \in Runners(block_index)
                                           THEN dominance[a] \cup {block_index} ELSE dominance[a]]
        /\ lowered' = lowered
    BY <1>5 DEF frontier, Looping
  <2>2. block_index \in 0 .. Size
    BY <2>1 DEF DomInv, DomTypes
  <2>3. PICK k \in Numbers : k = block_index
    BY <1>0, <2>1, <2>2
  <2>4. ASSUME KindsFit(graph), lowered = {} PROVE FrontiersTo(block_index)'
    <3>1. FrontiersTo(k)
      BY <2>1, <2>3, <2>4 DEF FrontierInv
    <3>2. TreeEdges /\ (\A p : ~Edge(p, 0)) /\ DominatorsBest
      BY <2>1, <2>4, BestFound
    <3>3. ASSUME NEW a \in Numbers, NEW b \in Numbers
          PROVE  /\ b < k + 1 /\ graph.kind[preorder[b + 1]] = "join" => (b \in dominance'[a] <=> InFrontier(a, b))
                 /\ b >= k + 1 => b \notin dominance'[a]
      <4>1. dominance'[a] = IF a \in Runners(k) THEN dominance[a] \cup {k} ELSE dominance[a]
        BY <2>1, <2>3
      <4>2. CASE b = k
        <5>1. k \notin dominance[a]
          BY <1>0, <3>1 DEF FrontiersTo
        <5>2. graph.kind[preorder[k + 1]] = "join" => (a \in Runners(k) <=> InFrontier(a, k))
          BY <3>2, RunnersMeet
        <5>3. ~ (b >= k + 1)
          BY <1>0, <4>2
        <5> QED  BY <4>1, <4>2, <5>1, <5>2, <5>3
      <4>3. CASE b # k
        <5>1. b \in dominance'[a] <=> b \in dominance[a]
          BY <4>1, <4>3
        <5>2. (b < k + 1 => b < k) /\ (b >= k + 1 => b >= k)
          BY <1>0, <4>3
        <5> QED  BY <3>1, <5>1, <5>2 DEF FrontiersTo
      <4> QED  BY <4>2, <4>3
    <3>4. block_index' = k + 1
      BY <2>1, <2>3
    <3> QED  BY <1>0, <3>3, <3>4 DEF FrontiersTo
  <2> QED  BY <1>0, <2>1, <2>4 DEF FrontierInv
<1> QED  BY <1>1, <1>2, <1>3, <1>4, <1>5 DEF DominatorPasses, DominatorsNext

LEMMA FrontierRests ==
  ASSUME DomInv, FrontierInv, [Next]_vars, ~DominatorPasses
  PROVE  FrontierInv'
<1>1. CASE pass' > 0
  <2>1. /\ UNCHANGED <<blockVars, pass, lowered, dominance>>
        /\ phase' = "dominators" => phase = "dominators" /\ block_index' = block_index
    BY <1>1, DominatorsRest
  <2>2. /\ Numbers' = Numbers /\ graph' = graph /\ preorder' = preorder
        /\ \A a, b : InFrontier(a, b)' = InFrontier(a, b)
    BY <2>1, DominanceKept
  <2>3. ASSUME phase' = "dominators", FrontiersTo(block_index) PROVE FrontiersTo(block_index)'
    <3>1. block_index' = block_index
      BY <2>1, <2>3
    <3> QED  BY <2>1, <2>2, <2>3, <3>1 DEF FrontiersTo
  <2> QED  BY <2>1, <2>2, <2>3 DEF FrontierInv
<1>2. CASE ~ (pass' > 0)
  <2>1. pass' \notin {1, 2, 3}
    BY <1>2
  <2> QED  BY <2>1 DEF FrontierInv
<1> QED  BY <1>1, <1>2

\* The invariant of exact dominators.
BestInv == RecordedInv /\ SemiInv /\ IdomInv /\ FrontierInv

LEMMA BestStart == Init => BestInv
<1>1. Init => RecordedInv
  BY RecordedStart
<1>2. Init => pass = 0
  BY DEF Init, DominatorsInit
<1>3. pass = 0 => SemiInv /\ IdomInv /\ FrontierInv
  BY DEF SemiInv, IdomInv, FrontierInv
<1> QED  BY <1>1, <1>2, <1>3 DEF BestInv

LEMMA BestStep ==
  ASSUME GraphInv, DomInv, BestInv, [Next]_vars
  PROVE  BestInv'
<1>1. RecordedInv'
  BY RecordedStep DEF BestInv
<1>2. CASE ~DominatorPasses
  BY <1>1, <1>2, SemiRests, IdomRests, FrontierRests DEF BestInv
<1>3. CASE DominatorPasses
  <2>1. preorder # <<>>
    <3>1. Discovered \/ pass > 0
      BY <1>3 DEF DominatorPasses, DominatorsNext, compute_dominators, semidominator,
                  semidominators_done, block_add_dominated, dominators_done, frontier, runner_lost, Looping
    <3> QED  BY <3>1 DEF Discovered, DomInv, DomTypes
  <2>2. ParentsOK /\ PredsOK /\ EdgesDown
    BY <2>1, WalkLeft DEF GraphInv
  <2>3. KindsFit(graph) => TreeEdges /\ \A p : ~Edge(p, 0)
    BY <2>1, TreeRecorded DEF BestInv
  <2> QED  BY <1>1, <1>3, <2>2, <2>3, SemiPasses, IdomPasses, FrontierPasses DEF BestInv
<1> QED  BY <1>2, <1>3

(* On every graph whose kinds fit its edges: where compress_path lowers no *)
(* label behind its computation, every dominator that compute_dominators   *)
(* names is the immediate one, and the frontier of every join holds        *)
(* exactly the blocks it should (flow_graph.c 67-163).                     *)
THEOREM DominatorsAreImmediate == Spec => [](KindsFit(graph) => ExactUnlessLowered)
<1>1. Init => GraphInv /\ DomInv /\ BestInv
  BY GraphStart, DomStart, BestStart
<1>2. GraphInv /\ DomInv /\ BestInv /\ [Next]_vars => GraphInv' /\ DomInv' /\ BestInv'
  BY GraphStep, DomStep, BestStep
<1>3. DomInv /\ BestInv => (KindsFit(graph) => ExactUnlessLowered)
  <2> SUFFICES ASSUME DomInv, BestInv, KindsFit(graph), lowered = {}
               PROVE  /\ Dominated => \A b \in Numbers \ {0} : Immediate(dominator[b], b)
                      /\ DominatorsDone => \A a, b \in Numbers : graph.kind[preorder[b + 1]] = "join" =>
                           (b \in dominance[a] <=> InFrontier(a, b))
    BY DEF ExactUnlessLowered
  <2>1. Dominated => \A b \in Numbers \ {0} : Immediate(dominator[b], b)
    BY DEF Dominated, BestInv, IdomInv
  <2>2. ASSUME DominatorsDone, NEW a \in Numbers, NEW b \in Numbers, graph.kind[preorder[b + 1]] = "join"
        PROVE  b \in dominance[a] <=> InFrontier(a, b)
    <3>1. FrontiersTo(block_index) /\ block_index = Size
      BY <2>2 DEF DominatorsDone, Looping, BestInv, FrontierInv
    <3>2. b < block_index
      <4>1. b \in 0 .. Size - 1
        BY DEF Numbers
      <4>2. Size \in Int
        BY <3>1, <2>2 DEF DomInv, DomTypes, DominatorsDone, Looping
      <4> QED  BY <3>1, <4>1, <4>2
    <3> QED  BY <2>2, <3>1, <3>2 DEF FrontiersTo
  <2> QED  BY <2>1, <2>2
<1> QED  BY <1>1, <1>2, <1>3, PTL DEF Spec
=============================================================================
