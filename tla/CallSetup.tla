----------------------------- MODULE CallSetup -----------------------------
(***************************************************************************)
(* The directives the compiler emits for a function call (setupArgs and    *)
(* the direct and indirect calls of cmd/bosc/compile.go), driving the      *)
(* allocator of RegAlloc.  Arguments are evaluated into locals first, the  *)
(* target of an indirect call before them; then one argument after the     *)
(* other is moved into its register and, if it was a temporary, forgotten. *)
(* From then on nothing but the order of the emitted directives protects   *)
(* the register it is in.  A call without arguments places nothing: it is  *)
(* a CALL of RegAlloc.                                                     *)
(***************************************************************************)
EXTENDS RegAlloc

CONSTANT ret_reg   \* the full register of the return value (RAX)

(* The registers of the arguments are distinct, a call may clobber them,   *)
(* and none of them has the result or is the first that Get hands out.     *)
ASSUME CallRegisters ==
  /\ ret_reg \in caller_saved \ {rbp}
  /\ \A i \in DOMAIN arg_regs : arg_regs[i] \in caller_saved /\ arg_regs[i] # ret_reg
  /\ \A i, j \in DOMAIN arg_regs : arg_regs[i] = arg_regs[j] => i = j
  /\ regs64 # <<>> /\ regs64[1] \in caller_saved \ {rbp, ret_reg}
  /\ \A i \in DOMAIN arg_regs : arg_regs[i] # regs64[1]

VARIABLES
  args,    \* the locals holding the arguments of the call being compiled
  tgt,     \* the local holding its target, None for a direct call
  step,    \* what is emitted next
  k,       \* the argument being placed or released
  intact   \* the arguments whose register still holds them

callVars == <<args, tgt, step, k, intact>>

ArgReg(i) == PartialReg(arg_regs[i], 64)

(* The arguments among those already placed whose register this step       *)
(* overwrites: a local that has a value is moved or loaded into it.        *)
Overwritten ==
  {j \in intact : \E x \in Name :
     /\ regof'[x] \notin {NoReg, regof[x]} /\ FullReg(regof'[x]) = arg_regs[j]
     /\ InReg(x) \/ x \in inmem}

(* What is in r is the argument x; for a chunk it is the address, and the  *)
(* bytes are where it points.                                              *)
Arrived(x, r) == RegHolds(x, r) /\ (alloc[x].regable \/ MemHolds(x))

CallInit ==
  Init /\ args = <<>> /\ tgt = None /\ step = "program" /\ k = 1 /\ intact = {}

(* Code around calls: any directive or instruction that claims no register *)
(* of its own.                                                             *)
Program ==
  /\ step = "program" /\ (Declare \/ Directive \/ Instr)
  /\ UNCHANGED callVars

(* All the arguments have been compiled into locals.  A chunk of less than *)
(* a register is passed by value, and only with the size of a part of one. *)
Passable(x) ==
  /\ Declared(x) /\ x \in live /\ ~NoCache(x)
  /\ alloc[x].size \in Sizes \/ alloc[x].size >= 64

(* Mutant of BeginCall: the result register of the last call is still held. *)
BeginNested ==
  /\ step = "program" /\ AtDirective
  /\ \E x \in Name : Passable(x) /\ args' = <<x>>
  /\ tgt' = None /\ step' = "place" /\ k' = 1 /\ intact' = {}
  /\ UNCHANGED vars

BeginCall ==
  /\ step = "program" /\ AtDirective /\ manual = {}
  /\ \E n \in 1 .. Len(arg_regs) :
       \E s \in [1 .. n -> {x \in Name : Passable(x)}] :
         /\ \A i, j \in 1 .. n : i # j => s[i] # s[j]
         /\ args' = s
         /\ tgt' \in {None} \cup
              {x \in Name : CallTarget(x) /\ x \in live /\ \A i \in 1 .. n : s[i] # x}
  /\ step' = "place" /\ k' = 1 /\ intact' = {}
  /\ UNCHANGED vars

(* A scalar narrower than a pointer, or a chunk smaller than one.          *)
Narrow(x) == alloc[x].size < 64

(* A pointer-sized argument, or a chunk passed by address: inreg arg reg.  *)
PlaceWide ==
  /\ step = "place" /\ ~Narrow(args[k])
  /\ IF regof[args[k]] = ArgReg(k) THEN UNCHANGED vars
                                   ELSE UseRegister(args[k], ArgReg(k))
  /\ step' = "free" /\ UNCHANGED <<args, tgt, k>>
  /\ intact' = (intact \ Overwritten)
               \cup (IF Arrived(args[k], ArgReg(k))' THEN {k} ELSE {})

(* Mutant of AcquireNarrow: the register is not acquired.                  *)
AcquireNothing ==
  /\ step = "place" /\ Narrow(args[k])
  /\ UNCHANGED vars
  /\ step' = "load" /\ UNCHANGED <<args, tgt, k, intact>>

(* A narrower one: acquire reg, then movzx/movsx reg arg, which loads the  *)
(* argument into a register of its own size first, or mov/movzx from       *)
(* [arg], which loads the address of the chunk (packSmallMemBackedArg).    *)
AcquireNarrow ==
  /\ step = "place" /\ Narrow(args[k])
  /\ Acquire(ArgReg(k))
  /\ step' = "load" /\ UNCHANGED <<args, tgt, k, intact>>

LoadNarrow ==
  /\ step = "load" /\ RegOperand(args[k], FALSE)
  /\ intact' = intact \ Overwritten
  /\ step' = "extend" /\ UNCHANGED <<args, tgt, k>>

Extend ==
  /\ step = "extend" /\ Emit
  /\ step' = "free" /\ UNCHANGED <<args, tgt, k>>
  /\ intact' = intact \cup (IF Running' /\ Arrived(args[k], regof[args[k]])' THEN {k} ELSE {})

(* A temporary is forgotten, a variable of the program stays where it is.  *)
Free ==
  /\ step = "free"
  /\ Forget(args[k]) \/ UNCHANGED vars
  /\ IF k < Len(args) THEN step' = "place" /\ k' = k + 1
                      ELSE step' = "result" /\ k' = 1
  /\ UNCHANGED <<args, tgt, intact>>

(* acquire the part of RAX that the result has (raxForType).               *)
AcquireResult ==
  /\ step = "result"
  /\ \E s \in Sizes : LET r == PartialReg(ret_reg, s) IN r \in Register /\ Acquire(r)
  /\ step' = "call" /\ UNCHANGED <<args, tgt, k, intact>>

(* call f                                                                  *)
DoCall ==
  /\ step = "call" /\ tgt = None /\ Call
  /\ step' = "release" /\ UNCHANGED <<args, tgt, k, intact>>

(* call tgt: EvictForCall, then the load of the target (cmd/bas/main.go),  *)
(* the call, and the target, a temporary, is forgotten.                    *)
EvictForTarget ==
  /\ step = "call" /\ tgt # None /\ BeginCallThrough
  /\ step' = "target" /\ UNCHANGED <<args, tgt, k, intact>>

LoadTarget ==
  /\ step = "target" /\ RegOperand(tgt, FALSE)
  /\ intact' = intact \ Overwritten
  /\ step' = "through" /\ UNCHANGED <<args, tgt, k>>

DoCallThrough ==
  /\ step = "through" /\ CallThrough
  /\ step' = "forget" /\ UNCHANGED <<args, tgt, k, intact>>

ForgetTarget ==
  /\ step = "forget" /\ Forget(tgt)
  /\ step' = "release" /\ UNCHANGED <<args, tgt, k, intact>>

(* release every argument register, in order.                              *)
ReleaseArg ==
  /\ step = "release" /\ ReleaseReg(ArgReg(k))
  /\ IF k < Len(args)
     THEN k' = k + 1 /\ UNCHANGED <<args, tgt, step, intact>>
     ELSE k' = 1 /\ args' = <<>> /\ tgt' = None /\ step' = "program" /\ intact' = {}

CallNext ==
  \/ Program \/ BeginCall \/ PlaceWide \/ AcquireNarrow \/ LoadNarrow
  \/ Extend \/ Free \/ AcquireResult \/ DoCall
  \/ EvictForTarget \/ LoadTarget \/ DoCallThrough \/ ForgetTarget \/ ReleaseArg

CallSpec == CallInit /\ [][CallNext]_<<vars, callVars>>

-----------------------------------------------------------------------------
(* The arguments that have been placed, until the call is emitted.         *)
PlacedArgs ==
  CASE step \in {"place", "load", "extend"}             -> 1 .. (k - 1)
    [] step = "free"                                    -> 1 .. k
    [] step \in {"result", "call", "target", "through"} -> 1 .. Len(args)
    [] OTHER                                            -> {}

(* Placing a later argument never overwrites an earlier one: the argument  *)
(* registers still hold their arguments when the call is emitted.          *)
ArgsInPlace == Running => PlacedArgs \subseteq intact

(* A pointer-sized argument in a register that no directive holds, after   *)
(* which a narrower one was or is being loaded.                            *)
Exposed(i) ==
  /\ ArgReg(i) \notin manual
  /\ \E j \in (i + 1) .. Len(args) : ArgReg(j) \in manual

(* Every argument, narrow or wide, scalar or chunk, gets to its register   *)
(* with its value and stays there until the call, the one kind apart that  *)
(* nothing protects while a narrower argument is loaded after it; and an   *)
(* indirect call goes to its target, loading which overwrites no argument. *)
ArgsArrive ==
  Running => /\ \A i \in PlacedArgs : i \in intact \/ Exposed(i)
             /\ step = "through" => RegHolds(tgt, regof[tgt])

(* The registers the call sequence releases are its own or free: a release *)
(* never takes a register away from a local.                               *)
ReleasesOwn ==
  step = "release" =>
    \A i \in k .. Len(args) : \A x \in Name :
      InReg(x) => ~Overlap(regof[x], ArgReg(i))

(* A call sequence always runs to its end: the allocator has no panic for  *)
(* the claims it makes.                                                    *)
CallCompletes == outcome # "acquire failed"
=============================================================================
