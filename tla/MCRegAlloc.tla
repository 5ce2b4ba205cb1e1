---------------------------- MODULE MCRegAlloc ----------------------------
(* Register files and bounds for model checking RegAlloc.                  *)
EXTENDS RegAlloc, TLC

(* RBX and RDI: a callee-saved register, and a caller-saved one that takes *)
(* the first argument and whose low byte (DIL) is not in regs8.            *)
SmallFull  == {"rbx", "rdi", "rbp"}
SmallLow   == {"rbx", "rdi"}
Small64    == <<"rbx", "rbp", "rdi">>
Small8     == <<"rbx">>
SmallCaller == {"rdi"}
SmallArgs  == <<"rdi">>

(* RBX and RCX, whose low bytes are both in regs8.                         *)
RoomyFull  == {"rbx", "rcx", "rbp"}
RoomyLow   == {"rbx", "rcx"}
Roomy64    == <<"rbx", "rbp", "rcx">>
Roomy8     == <<"rbx", "rcx">>
RoomyCaller == {"rcx"}
RoomyArgs  == <<"rcx">>

(* The programs that always leave room (see Roomy).                        *)
RoomySpec == Init /\ [][Next /\ Roomy']_vars

NameSymmetry == Permutations(Name)
===========================================================================
