-------------------------------- MODULE Frame -------------------------------
(***************************************************************************)
(* The frame of a function: once the locals of its scopes have slots, the  *)
(* flow graph compiler (x64/compiler.c) emits the code that makes the      *)
(* frame, from the numbers the scopes left in the function.  Other         *)
(* behaviours are those of Encoders, with no function.                     *)
(***************************************************************************)
EXTENDS Encoders, Scope

frameVars == <<vars, scopeVars>>

NoFunction == /\ pc = "laid_out" /\ scope = <<>> /\ local = <<>> /\ calls = <<>> /\ free = <<>>
              /\ func = [num_params |-> 0, num_stack_locals |-> 0]
NoCode == contents = <<>> /\ meant = <<>> /\ rip = 0 /\ decoded = <<>>

FrameInit == \/ Init /\ NoFunction
             \/ NoCode /\ ScopeInit

compile_entry ==
  /\ pc = "laid_out" /\ scope # <<>> /\ contents = <<>>
  /\ LET entry == flow_graph_compiler_compile(func.num_stack_locals, 0, kFirstLocalSlotFromFp)
     IN  contents' = entry.bytes /\ meant' = entry.meant
  /\ UNCHANGED <<rip, decoded, scopeVars>>

FrameNext == \/ ScopeNext /\ UNCHANGED vars
             \/ compile_entry
             \/ Next /\ UNCHANGED scopeVars

\* The processor goes on while there is code; nobody need declare anything.
FrameSpec == FrameInit /\ [][FrameNext]_frameVars /\ WF_frameVars(Next /\ UNCHANGED scopeVars)
-----------------------------------------------------------------------------
\* What was read writes the slot of local l, if that is on this frame's side of RBP.
Written(l) == local[l].index < 0 =>
  \E i \in 1 .. Len(decoded) :
    decoded[i] = Instr("mov", Mem(RBP, NoReg, 1, kWordSize * local[l].index), Reg(RAX))

(* Whatever encoder is called with whatever registers, addresses and       *)
(* numbers, the processor reads its bytes to their end as the instructions *)
(* that were meant, with Low for the registers in operands; and what it    *)
(* reads at a function's entry writes the slot of every local.             *)
DecodesBack ==
  contents # <<>> ~> (rip = Len(contents) /\ decoded = meant /\ \A l \in 1 .. Len(local) : Written(l))
=============================================================================
