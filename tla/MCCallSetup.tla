--------------------------- MODULE MCCallSetup ----------------------------
(* Register files and bounds for model checking CallSetup.                 *)
EXTENDS CallSetup, TLC

(* R10, the first that Get hands out, and the fourth and fifth argument    *)
(* registers, whose low bytes are allocatable.  RBX, whose low byte comes  *)
(* first in regs8, is left out: it stands for a register some long-lived   *)
(* local occupies.                                                         *)
NarrowFull   == {"r10", "rcx", "r8", "rax", "rbp"}
NarrowLow    == {"r10", "rcx", "r8", "rax"}
Narrow64     == <<"r10", "rbp", "r8", "rcx", "rax">>
Narrow8      == <<"rcx", "rax", "r8", "r10">>
NarrowArgs   == <<"rcx", "r8">>
NarrowCaller == {"r10", "rcx", "r8", "rax"}

NameSymmetry == Permutations(Name)
===========================================================================
