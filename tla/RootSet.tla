------------------------------ MODULE RootSet ------------------------------
(***************************************************************************)
(* What mun_gc_add_ref and mun_gc_del_ref promise their caller: the set of *)
(* addresses the collector treats as roots.  Adding twice is adding once,  *)
(* and one removal undoes any number of additions.                         *)
(***************************************************************************)
CONSTANT Addr       \* addresses of the cells a caller can register

VARIABLE roots

Init == roots = {}

Add(a) == roots' = roots \cup {a}

Del(a) == roots' = roots \ {a}

Next == \E a \in Addr : Add(a) \/ Del(a)

Spec == Init /\ [][Next]_roots
============================================================================
