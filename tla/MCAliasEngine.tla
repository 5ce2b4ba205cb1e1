-------------------------- MODULE MCAliasEngine --------------------------
(* Programs for model checking AliasEngine.                                *)
EXTENDS AliasEngine, TLC

CONSTANTS
  MaxCalls,   \* bound: calls in one body
  MaxTotal    \* bound: calls in the program

Identity == [p \in Param |-> {p}]
Swap     == [p \in Param |-> Param \ {p}]

Lists(S, n) == UNION {[1 .. k -> S] : k \in 0 .. n}
Bodies == Lists([to : Func, as : {Identity, Swap}], MaxCalls)

(* One function returns its first parameter itself; the others return what *)
(* they get from calls, if anything.                                       *)
Sources == {[f \in Func |-> IF f = s THEN {CHOOSE p \in Param : TRUE} ELSE {}] : s \in Func}

SmallPrograms ==
  {q \in [own : Sources, calls : [Func -> Bodies]] :
     Cardinality(UNION {{f} \X DOMAIN q.calls[f] : f \in Func}) <= MaxTotal}

FuncSymmetry == Permutations(Func)
==========================================================================
