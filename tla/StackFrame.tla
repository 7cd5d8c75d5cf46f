----------------------------- MODULE StackFrame -----------------------------
(***************************************************************************)
(* Slots off RBP (x64/frame.h): parameters end in front of 1, locals start *)
(* at -3 and go down.                                                      *)
(***************************************************************************)
EXTENDS Integers

kWordSize == 8
kParamEndSlotFromFp == 1
kFirstLocalSlotFromFp == -3
=============================================================================
