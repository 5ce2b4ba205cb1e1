---------------------------- MODULE MCOwnership ----------------------------
(***************************************************************************)
(* Instances of Ownership: the names are interchangeable when every choice *)
(* of nullable bindings and of parameters is allowed.                      *)
(***************************************************************************)
EXTENDS Ownership

AnySet == SUBSET Binding
AllStmts == {"var", "assign", "free", "dispose", "if", "loop", "break", "continue", "return"}
LoopStmts == {"var", "assign", "free", "loop"}
Symmetric == Permutations(Binding)
=============================================================================
