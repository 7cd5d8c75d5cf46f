-------------------------------- MODULE Scope -------------------------------
(***************************************************************************)
(* Scopes, the locals declared in them, and the slots these get in the     *)
(* frame (scope.c, function.h).  Scopes and locals are numbered as they    *)
(* are made; the pointers between them are these numbers.                  *)
(*                                                                         *)
(* The program makes one scope and gives its locals no slots.  The client  *)
(* here uses all that scope.h offers: scopes within scopes, parameters,    *)
(* and a local of a scope around it added to a scope once more, which is   *)
(* what the field owner is for.                                            *)
(***************************************************************************)
EXTENDS StackFrame, Sequences, FiniteSets, SequencesExt

CONSTANTS Names,                    \* sequences of characters
          MaxScopes, MaxLocals      \* bounds of the model

ASSUME ScopeAssumption == /\ \A name \in Names : Len(name) \in Nat
                          /\ MaxScopes \in Nat /\ MaxLocals \in Nat

VARIABLES
  pc,        \* "declaring", "allocating", "laid_out"
  scope,     \* parent, child, sibling, and variables: locals in order
  local,     \* name, owner and index of each local
  func,      \* the function's numbers
  calls,     \* calls of local_scope_alloc_variables, the running one last
  free       \* by scope: the frame index behind its own locals.  A history.

scopeVars == <<pc, scope, local, func, calls, free>>

NoScope == 0
NoLocal == 0
NoIndex == -1

NewScope(parent, sibling) ==
  [parent |-> parent, child |-> NoScope, sibling |-> sibling, variables |-> <<>>]
local_var_new(name) == [name |-> name, owner |-> NoScope, index |-> NoIndex]

ScopeInit == /\ pc = "declaring" /\ scope = <<NewScope(NoScope, NoScope)>> /\ local = <<>>
             /\ func = [num_params |-> 0, num_stack_locals |-> 0]
             /\ calls = <<>> /\ free = <<>>
-----------------------------------------------------------------------------
Places(s) == DOMAIN scope[s].variables

\* The scopes around s, with s: all that every set closed under parent has that has s.
Ancestors(s) == {a \in 1 .. s :
  \A C \in SUBSET (1 .. s) :
     s \in C /\ (\A x \in C : scope[x].parent \in C \cup {NoScope}) => a \in C}

Least(S) == CHOOSE i \in S : \A j \in S : i <= j
Greatest(S) == CHOOSE i \in S : \A j \in S : j <= i

\* Only as many characters as the declared name has are compared.
Matches(s, name) == {p \in Places(s) : IsPrefix(local[scope[s].variables[p]].name, name)}
local_scope_local_lookup(s, name) ==
  IF Matches(s, name) = {} THEN NoLocal ELSE scope[s].variables[Least(Matches(s, name))]

\* Scopes are made before the scopes in them: the innermost has the greatest number.
local_scope_lookup(s, name) ==
  LET holders == {a \in Ancestors(s) : local_scope_local_lookup(a, name) # NoLocal}
  IN  IF holders = {} THEN NoLocal ELSE local_scope_local_lookup(Greatest(holders), name)

local_scope_new(parent) ==
  /\ pc = "declaring" /\ Len(scope) < MaxScopes
  /\ scope' = Append([scope EXCEPT ![parent].child = Len(scope) + 1],
                     NewScope(parent, scope[parent].child))
  /\ UNCHANGED <<pc, local, func, calls, free>>

\* A local that is refused is dropped: no step.
Declare(s, name) ==
  /\ pc = "declaring" /\ Len(local) < MaxLocals
  /\ local_scope_local_lookup(s, name) = NoLocal
  /\ local' = Append(local, [local_var_new(name) EXCEPT !.owner = s])
  /\ scope' = [scope EXCEPT ![s].variables = Append(@, Len(local) + 1)]
  /\ UNCHANGED <<pc, func, calls, free>>

\* A local that has an owner keeps it.
Capture(s, name) ==
  LET found == local_scope_lookup(s, name)
  IN  /\ pc = "declaring" /\ found # NoLocal
      /\ local_scope_local_lookup(s, local[found].name) = NoLocal
      /\ scope' = [scope EXCEPT ![s].variables = Append(@, found)]
      /\ UNCHANGED <<pc, local, func, calls, free>>

local_scope_insert_param(s, i, name) ==
  /\ pc = "declaring" /\ Len(local) < MaxLocals
  /\ local_scope_local_lookup(s, name) = NoLocal
  /\ local' = Append(local, [local_var_new(name) EXCEPT !.owner = s])
  /\ scope' = [scope EXCEPT ![s].variables = InsertAt(@, i, Len(local) + 1)]
  /\ UNCHANGED <<pc, func, calls, free>>
-----------------------------------------------------------------------------
\* The locals that scope s gives stack slots to, those at its first n places
\* being parameters, and how many of them come before place p.
Own(s, n) == {p \in Places(s) : p > n /\ local[scope[s].variables[p]].owner = s}
Before(s, n, p) == Cardinality({q \in Own(s, n) : q < p})

SlotAt(s, first_param, n, first_frame, p) ==
  IF p <= n THEN first_param - (p - 1) ELSE first_frame - Before(s, n, p)

\* A call of local_scope_alloc_variables up to its loop over the children.
Enter(s, first_param, n, first_frame, callers) ==
  LET end == first_frame - Cardinality(Own(s, n))
      given == (1 .. n) \cup Own(s, n)
  IN  /\ local' = [l \in DOMAIN local |->
                     IF \E p \in given : scope[s].variables[p] = l
                     THEN [local[l] EXCEPT !.index =
                             SlotAt(s, first_param, n, first_frame,
                                    CHOOSE p \in given : scope[s].variables[p] = l)]
                     ELSE local[l]]
      /\ calls' = Append(callers, [scope |-> s, frame_index |-> end,
                                   min_frame_index |-> end, child |-> scope[s].child])
      /\ free' = [x \in DOMAIN free \cup {s} |-> IF x = s THEN end ELSE free[x]]

\* The function's parameters are the first n variables of its scope.
func_alloc_variables(n) ==
  /\ pc = "declaring" /\ n <= Len(scope[1].variables)
  /\ pc' = "allocating"
  /\ func' = [func EXCEPT !.num_params = n]
  /\ Enter(1, kParamEndSlotFromFp + n, n, kFirstLocalSlotFromFp, <<>>)
  /\ UNCHANGED scope

\* Mutant: every scope has the frame to itself.
ChildStartShared(call) == kFirstLocalSlotFromFp

\* The locals of a child start where those of the scope end.
ChildStart(call) == call.frame_index

alloc_child ==
  /\ calls # <<>> /\ Last(calls).child # NoScope
  /\ Enter(Last(calls).child, 0, 0, ChildStart(Last(calls)), calls)
  /\ UNCHANGED <<pc, scope, func>>

alloc_return ==
  /\ Len(calls) > 1 /\ Last(calls).child = NoScope
  /\ LET caller == Last(Front(calls))
         result == Last(calls).min_frame_index
     IN  calls' = Append(Front(Front(calls)),
                    [caller EXCEPT
                       !.min_frame_index = IF result < @ THEN result ELSE @,
                       !.child = scope[@].sibling])
  /\ UNCHANGED <<pc, scope, local, func, free>>

alloc_done ==
  /\ Len(calls) = 1 /\ Last(calls).child = NoScope
  /\ func' = [func EXCEPT !.num_stack_locals = kFirstLocalSlotFromFp - Last(calls).min_frame_index]
  /\ calls' = <<>> /\ pc' = "laid_out"
  /\ UNCHANGED <<scope, local, free>>

ScopeNext == \/ \E s \in DOMAIN scope : local_scope_new(s)
             \/ \E s \in DOMAIN scope, name \in Names : Declare(s, name) \/ Capture(s, name)
             \/ \E s \in DOMAIN scope, name \in Names :
                  \E i \in 1 .. Len(scope[s].variables) + 1 : local_scope_insert_param(s, i, name)
             \/ \E n \in 0 .. MaxLocals : func_alloc_variables(n)
             \/ alloc_child \/ alloc_return \/ alloc_done

ScopeSpec == ScopeInit /\ [][ScopeNext]_scopeVars
-----------------------------------------------------------------------------
local_var_bit_index(l) ==
  func.num_params - (local[l].index - (IF local[l].index > 0 THEN kParamEndSlotFromFp
                                       ELSE kFirstLocalSlotFromFp))
graph_variable_count == func.num_params + func.num_stack_locals

Visible(s) == UNION {{scope[a].variables[p] : p \in Places(a)} : a \in Ancestors(s)}

(* Once slots are given out, two locals that code in one scope can name,   *)
(* its own, added ones and those of the scopes around it, are in different *)
(* slots and have different bits, and the count of variables, which also   *)
(* says how much of the frame the entry code clears, takes in all of them. *)
LocalsApart ==
  pc = "laid_out" =>
    \A s \in DOMAIN scope :
      /\ \A l \in Visible(s) : /\ local[l].index # NoIndex
                               /\ local_var_bit_index(l) \in 0 .. graph_variable_count - 1
      /\ \A l, m \in Visible(s) :
           l # m => /\ local[l].index # local[m].index
                    /\ local_var_bit_index(l) # local_var_bit_index(m)
=============================================================================
