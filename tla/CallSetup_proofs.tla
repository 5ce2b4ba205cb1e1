-------------------------- MODULE CallSetup_proofs --------------------------
(***************************************************************************)
(* The call sequence of the compiler, for every register file whose        *)
(* argument registers are distinct and caller-saved, any number of         *)
(* arguments and direct and indirect calls: it never panics in the         *)
(* allocator, it releases no register a local is in, and every argument    *)
(* but those that ArgsInPlace is about is in its register, with its value, *)
(* when the call is emitted.                                               *)
(*                                                                         *)
(* The sequence is a program of RegAlloc, whose invariants it therefore    *)
(* has.  Its own rests on what it holds: argument registers of this call,  *)
(* and a part of RAX before it is emitted (Claims), so that a register it  *)
(* acquires can only be occupied by locals, which Acquire evicts, and so   *)
(* that nothing is loaded into the register of a narrow argument.  What is *)
(* still to be placed is declared and has a value (ArgsReady), and what is *)
(* in a register has it there by the coherence of the allocator.  After    *)
(* EvictForCall the first register that Get tries is free, which is no     *)
(* argument's: that is where the target of an indirect call is loaded.     *)
(***************************************************************************)
EXTENDS CallSetup, RegAlloc_values_proofs

CallSteps == {"program", "place", "load", "extend", "free", "result", "call",
              "target", "through", "forget", "release"}
BeforeCall == CallSteps \ {"program", "forget", "release"}

CallType ==
  /\ intact \subseteq DOMAIN arg_regs
  /\ step = "program" => intact = {}
  /\ step \in CallSteps
  /\ step # "program" =>
       /\ DOMAIN args = 1 .. Len(args) /\ Len(args) \in 1 .. Len(arg_regs)
       /\ \A i \in 1 .. Len(args) : args[i] \in Name /\ args[i] # tgt
       /\ \A i, j \in 1 .. Len(args) : i # j => args[i] # args[j]
       /\ k \in 1 .. Len(args)
       /\ tgt \in Name \cup {None}

(* The arguments whose registers the sequence may hold.                    *)
Placed == IF step = "place" THEN 1 .. (k - 1)
          ELSE IF step \in {"result", "call", "target"} THEN 1 .. Len(args) ELSE 1 .. k
Claims ==
  /\ step \in {"place", "load", "extend", "free", "result"} =>
       \A r \in manual : \E i \in Placed : r = ArgReg(i)
  /\ step \in {"call", "target"} =>
       \A r \in manual : FullReg(r) = ret_reg \/ \E i \in Placed : r = ArgReg(i)
  /\ step \in {"load", "extend"} => ArgReg(k) \in manual

(* What is still to be placed, and the target, can be.                     *)
Waiting == CASE step \in {"place", "load", "extend"} -> k .. Len(args)
             [] step = "free"                        -> (k + 1) .. Len(args)
             [] OTHER                                -> {}
ArgsReady ==
  /\ \A i \in Waiting : Declared(args[i]) /\ args[i] \in live
  /\ step \in BeforeCall /\ tgt # None => CallTarget(tgt) /\ tgt \in live

(* What was loaded is in its register.                                     *)
Loaded ==
  /\ step = "extend" /\ Running => InReg(args[k])
  /\ step = "through" /\ Running => InReg(tgt) /\ \A o \in operands : o.name = tgt
  /\ step \in {"target", "through", "forget"} => tgt # None
  /\ step = "target" => phase = "calling" /\ operands = {}

(* No local is left in a register the callee may have overwritten.         *)
Cleared ==
  step \in {"forget", "release"} =>
    \A x \in Name : InReg(x) /\ FullReg(regof[x]) \in caller_saved => step = "forget" /\ x = tgt

CallRest ==
  CallType /\ Claims /\ ArgsReady /\ Loaded /\ Cleared /\ outcome # "acquire failed"
CallInv == AllocInv /\ TablesInv /\ CallRest

-----------------------------------------------------------------------------
LEMMA RestParts ==
  ASSUME CallRest
  PROVE  CallType /\ Claims /\ ArgsReady /\ Loaded /\ Cleared
  BY DEF CallRest

LEMMA ArgRegFacts ==
  /\ \A i \in DOMAIN arg_regs :
       /\ ArgReg(i) \in Register /\ ArgReg(i) = PartialReg(arg_regs[i], 64)
       /\ FullReg(ArgReg(i)) = arg_regs[i] /\ arg_regs[i] \in Full
       /\ arg_regs[i] \in caller_saved /\ arg_regs[i] # rbp /\ arg_regs[i] # ret_reg
  /\ \A f \in Full : PartialReg(f, 64) \in Register /\ FullReg(PartialReg(f, 64)) = f
  /\ DOMAIN arg_regs = 1 .. Len(arg_regs) /\ Len(arg_regs) \in Nat
  <1>1. arg_regs \in Seq(Full \ {rbp})  BY AllocConstants
  <1>2. \A i \in DOMAIN arg_regs : arg_regs[i] \in Full /\ arg_regs[i] # rbp  BY <1>1
  <1>3. \A f \in Full : PartialReg(f, 64) \in Register /\ FullReg(PartialReg(f, 64)) = f
    <2>1. PartOfWidth(64) = "r64"  BY DEF PartOfWidth
    <2> QED  BY <2>1, RegisterFile DEF PartialReg, Register, FullReg
  <1> QED  BY <1>1, <1>2, <1>3, CallRegisters DEF ArgReg

(* A register that neither a directive nor the frame holds a part of can   *)
(* always be acquired: what conflicts with it are locals, and they are     *)
(* evicted.                                                                *)
LEMMA AcquireWorks ==
  ASSUME AllocInv, NEW r \in Register, FullReg(r) # rbp,
         \A m \in manual : FullReg(m) # FullReg(r), Acquire(r)
  PROVE  outcome' = outcome /\ manual' = manual \cup {r}
  <1> DEFINE f == FullReg(r)
             C == Conflicts(pool, r)
             V == Holders(C)
  <1>2. TypeOK /\ HoldersAgree /\ PoolExact  BY InvFacts
  <1>3. pool \in PoolType /\ Held \cup Reserved \in SUBSET Register /\ Exact(pool, Held \cup Reserved)
        /\ FullReg(PartialReg(rbp, 64)) = rbp
    BY <1>2, HeldFacts DEF TypeOK, PoolExact
  <1>4. C \subseteq Held \cup Reserved /\ (\A c \in C : Overlap(c, r)) /\ CanUse(Release(pool, C), r)
    BY <1>3, ConflictsExact
  <1>5. \A c \in C : c \in Register /\ FullReg(c) = f
    BY <1>3, <1>4, OverlapShape
  <1> HIDE DEF C
  <1>6. \A c \in Reserved : FullReg(c) # f  BY <1>3 DEF Reserved
  <1>7. \A c \in C : \E x \in Name : InReg(x) /\ regof[x] = c  BY <1>4, <1>5, <1>6 DEF Held
  <1>8. \A c \in C : \E x \in V : regof[x] = c /\ regs[c] = x
    BY <1>2, <1>5, <1>7 DEF Holders, HoldersAgree
  <1>9. \A c \in C : regs[c] # None  BY <1>8, AllocConstants DEF Holders
  <1>10. RegsOf(V) = C
    <2>1. \A x \in V : regof[x] \in C  BY <1>2, <1>5 DEF Holders, HoldersAgree
    <2> QED  BY <1>8, <2>1 DEF RegsOf
  <1>11. CanUse(PoolAfter(V), r)  BY <1>4, <1>10 DEF PoolAfter
  <1> HIDE DEF V
  <1> QED  BY <1>9, <1>11 DEF Acquire, C, V

(* EvictForCall leaves no local in a caller-saved register.                *)
LEMMA CallClears ==
  ASSUME AllocInv, Call
  PROVE  \A x \in Name : InReg(x)' => FullReg(regof'[x]) \notin caller_saved
  <1> SUFFICES ASSUME NEW x \in Name, InReg(x)', FullReg(regof'[x]) \in caller_saved PROVE FALSE
    OBVIOUS
  <1>1. TypeOK /\ HoldersAgree /\ PoolExact  BY InvFacts
  <1>2. CallEvicts \in SUBSET InRegNames  BY HoldersInReg
  <1>3. InReg(x) /\ x \notin CallEvicts /\ regof'[x] = regof[x]
    BY <1>1, <1>2, EvictTables DEF Call
  <1> DEFINE r == regof[x]
             f == FullReg(r)
  <1>4. r \in Register /\ r \in Held /\ regs[r] = x
    BY <1>1, <1>3 DEF TypeOK, InReg, HoldersAgree, Held
  <1>5. pool \in PoolType /\ Held \cup Reserved \in SUBSET Register /\ Exact(pool, Held \cup Reserved)
    BY <1>1, HeldFacts DEF TypeOK, PoolExact
  <1>6. /\ f \in Full /\ pool.size[f] \in Sizes
        /\ pool.size[f] = 8 => IsByte(r) /\ r \in pool.bytes
        /\ pool.size[f] # 8 => r = PartialReg(f, pool.size[f])
    BY <1>4, <1>5, ExactOn
  <1>7. f \in caller_saved  BY <1>3
  <1>8. FullReg(PartialReg(f, 64)) = f /\ ~IsByte(PartialReg(f, 64))
    BY DEF PartialReg, PartOfWidth, FullReg, IsByte
  <1>9. IsByte(r) => r \in SubRegisters8(f)  BY <1>4, RegisterShape DEF SubRegisters8
  <1>10. pool.size[f] # 0  BY <1>6 DEF Sizes
  <1> HIDE DEF r, f
  <1>11. r \in Conflicts(pool, PartialReg(f, 64))
    BY <1>6, <1>8, <1>9, <1>10 DEF Conflicts
  <1>12. x \in CallEvicts  BY <1>3, <1>4, <1>7, <1>11 DEF CallEvicts, Holders
  <1> QED  BY <1>3, <1>12

(* The code around a call acquires nothing.                                *)
LEMMA ProgramOutcome ==
  ASSUME Declare \/ Directive \/ Instr, outcome # "acquire failed"
  PROVE  outcome' # "acquire failed"
  <1>1. CASE Declare  BY <1>1 DEF Declare, Local, Bytes, Arg, StackArg
  <1>2. CASE Directive
    <2>1. ASSUME NEW V, ForgetNames(V) PROVE outcome' = outcome  BY <2>1 DEF ForgetNames
    <2>2. CASE ForgetAll \/ \E x \in Name : Forget(x)  BY <2>1, <2>2 DEF ForgetAll, Forget
    <2>3. CASE EvictAll \/ Call \/ Prologue \/ Epilogue
      BY <2>3 DEF EvictAll, Call, Prologue, Epilogue
    <2>4. CASE \E x \in Name : Volatile(x)  BY <2>4 DEF Volatile
    <2>5. CASE \E r \in Register : EvictReg(r) \/ ReleaseReg(r)  BY <2>5 DEF EvictReg, ReleaseReg
    <2>6. CASE \E x \in Name, r \in Register : UseRegister(x, r)  BY <2>6 DEF UseRegister
    <2> QED  BY <1>2, <2>2, <2>3, <2>4, <2>5, <2>6 DEF Directive
  <1>3. CASE Instr
    <2>1. ASSUME NEW x \in Name, NEW w \in BOOLEAN, RegOperand(x, w) PROVE outcome' # "acquire failed"
      BY <2>1 DEF RegOperand, Panic, LoadFailure
    <2>2. ASSUME NEW x \in Name, NEW w \in BOOLEAN, MemOperand(x, w) \/ PartialOperand(x, w)
          PROVE  outcome' # "acquire failed"
      BY <2>2 DEF MemOperand, PartialOperand
    <2>3. CASE Emit  BY <2>3, Zenon DEF Emit, Panic, Displacement
    <2>4. CASE BeginCallThrough \/ CallThrough  BY <2>4 DEF BeginCallThrough, CallThrough
    <2> QED  BY <1>3, <2>1, <2>2, <2>3, <2>4 DEF Instr
  <1> QED  BY <1>1, <1>2, <1>3

-----------------------------------------------------------------------------
(* During a call, k is one of its arguments.                               *)
LEMMA CallIndex ==
  ASSUME CallType, step # "program"
  PROVE  /\ Len(args) \in Nat /\ k \in Nat /\ 1 <= k /\ k <= Len(args)
         /\ 1 .. Len(args) \subseteq DOMAIN arg_regs /\ k \in DOMAIN arg_regs
         /\ args[k] \in Name /\ args[k] # tgt /\ k \in 1 .. Len(args)
  <1> DEFINE n == Len(args)
  <1>1. n \in 1 .. Len(arg_regs) /\ k \in 1 .. n /\ \A i \in 1 .. n : args[i] \in Name /\ args[i] # tgt
    BY DEF CallType
  <1>2. DOMAIN arg_regs = 1 .. Len(arg_regs) /\ Len(arg_regs) \in Nat  BY ArgRegFacts
  <1> HIDE DEF n
  <1>3. n \in Nat /\ k \in Nat /\ 1 <= k /\ k <= n /\ 1 .. n \subseteq DOMAIN arg_regs /\ k \in DOMAIN arg_regs
    BY <1>1, <1>2
  <1>4. args[k] \in Name /\ args[k] # tgt  BY <1>1
  <1> QED  BY <1>1, <1>3, <1>4 DEF n

(* Every step of the sequence is a step of the allocator or leaves it be.  *)
LEMMA CallAllocates ==
  ASSUME CallType, Loaded, CallNext
  PROVE  Next \/ UNCHANGED vars
  <1>1. ASSUME step # "program" PROVE ArgReg(k) \in Register /\ args[k] \in Name
    BY <1>1, CallIndex, ArgRegFacts
  <1>2. CASE Program  BY <1>2 DEF Program, Next
  <1>3. CASE BeginCall  BY <1>3 DEF BeginCall
  <1>4. CASE PlaceWide
    <2>1. ArgReg(k) \in Register /\ args[k] \in Name  BY <1>1, <1>4 DEF PlaceWide
    <2>2. UNCHANGED vars \/ UseRegister(args[k], ArgReg(k))  BY <1>4 DEF PlaceWide
    <2> QED  BY <2>1, <2>2 DEF Next, Directive
  <1>5. CASE AcquireNarrow
    <2>1. ArgReg(k) \in Register /\ Acquire(ArgReg(k))  BY <1>1, <1>5 DEF AcquireNarrow
    <2> QED  BY <2>1 DEF Next, Claim
  <1>6. CASE LoadNarrow
    <2>1. args[k] \in Name /\ RegOperand(args[k], FALSE)  BY <1>1, <1>6 DEF LoadNarrow
    <2> QED  BY <2>1 DEF Next, Instr
  <1>7. CASE Extend  BY <1>7 DEF Extend, Next, Instr
  <1>8. CASE Free
    <2>1. args[k] \in Name /\ (UNCHANGED vars \/ Forget(args[k]))  BY <1>1, <1>8 DEF Free
    <2> QED  BY <2>1 DEF Next, Directive
  <1>9. CASE AcquireResult
    <2>1. \E r \in Register : Acquire(r)  BY <1>9 DEF AcquireResult
    <2> QED  BY <2>1 DEF Next, Claim
  <1>10. CASE DoCall  BY <1>10 DEF DoCall, Next, Directive
  <1>11. CASE EvictForTarget  BY <1>11 DEF EvictForTarget, Next, Instr
  <1>12. ASSUME step \in {"target", "through", "forget"} PROVE tgt \in Name
    BY <1>12 DEF CallType, Loaded
  <1>13. CASE LoadTarget
    <2>1. tgt \in Name /\ RegOperand(tgt, FALSE)  BY <1>12, <1>13 DEF LoadTarget
    <2> QED  BY <2>1 DEF Next, Instr
  <1>14. CASE DoCallThrough  BY <1>14 DEF DoCallThrough, Next, Instr
  <1>15. CASE ForgetTarget
    <2>1. tgt \in Name /\ Forget(tgt)  BY <1>12, <1>15 DEF ForgetTarget
    <2> QED  BY <2>1 DEF Next, Directive
  <1>16. CASE ReleaseArg
    <2>1. ArgReg(k) \in Register /\ ReleaseReg(ArgReg(k))  BY <1>1, <1>16 DEF ReleaseArg
    <2> QED  BY <2>1 DEF Next, Directive
  <1> QED
    BY <1>2, <1>3, <1>4, <1>5, <1>6, <1>7, <1>8, <1>9, <1>10, <1>11, <1>13, <1>14, <1>15, <1>16
       DEF CallNext

-----------------------------------------------------------------------------
(* A step inside the sequence of one call.                                 *)
LEMMA SameCall ==
  ASSUME CallRest, step # "program", args' = args, tgt' = tgt, step' \in CallSteps \ {"program"},
         k' \in 1 .. Len(args), intact' \subseteq intact \cup {k}
  PROVE  CallType'
  <1>1. CallType /\ k \in DOMAIN arg_regs  BY CallIndex DEF CallRest
  <1> QED  BY <1>1 DEF CallType

(* One that leaves what the arguments and the target need as it is.        *)
LEMMA StayReady ==
  ASSUME CallRest, args' = args, tgt' = tgt, step' \in BeforeCall => step \in BeforeCall,
         Waiting' \subseteq Waiting, alloc' = alloc, live \subseteq live'
  PROVE  ArgsReady'
  <1>1. \A x : Declared(x)' <=> Declared(x)  BY DEF Declared
  <1>2. CallTarget(tgt)' <=> CallTarget(tgt)  BY DEF CallTarget
  <1> QED  BY <1>1, <1>2 DEF CallRest, ArgsReady

(* The arguments still to come, by step.                                   *)
LEMMA WaitingSteps ==
  ASSUME CallType, step # "program"
  PROVE  /\ step \in {"place", "load", "extend"} => Waiting = k .. Len(args) /\ k \in Waiting
         /\ step = "free" => Waiting = (k + 1) .. Len(args)
         /\ (k + 1) .. Len(args) \subseteq k .. Len(args) /\ k \notin (k + 1) .. Len(args)
         /\ (k + 1) .. Len(args) \subseteq 1 .. Len(args)
         /\ step \notin {"place", "load", "extend", "free"} => Waiting = {}
  <1>1. Len(args) \in Nat /\ k \in Nat /\ 1 <= k /\ k <= Len(args)  BY CallIndex
  <1>2. step \in {"place", "load", "extend"} => Waiting = k .. Len(args)  BY Zenon DEF Waiting
  <1>3. step = "free" => Waiting = (k + 1) .. Len(args)  BY Zenon DEF Waiting
  <1>4. step \notin {"place", "load", "extend", "free"} => Waiting = {}  BY Zenon DEF Waiting
  <1> QED  BY <1>1, <1>2, <1>3, <1>4

LEMMA ProgramKeeps ==
  ASSUME CallRest, Program
  PROVE  CallRest'
  <1>1. step = "program" /\ UNCHANGED <<args, tgt, step, k, intact>> /\ (Declare \/ Directive \/ Instr)
    BY DEF Program, callVars
  <1>2. outcome' # "acquire failed"  BY <1>1, ProgramOutcome DEF CallRest
  <1>3. CallType'  BY <1>1 DEF CallRest, CallType
  <1>4. Waiting' = {}  BY <1>1, Zenon DEF Waiting
  <1>5. Claims' /\ ArgsReady' /\ Loaded' /\ Cleared'
    BY <1>1, <1>4 DEF Claims, ArgsReady, Loaded, Cleared, BeforeCall
  <1> QED  BY <1>2, <1>3, <1>5 DEF CallRest

LEMMA BeginCallKeeps ==
  ASSUME CallRest, BeginCall
  PROVE  CallRest'
  <1>1. step' = "place" /\ k' = 1 /\ intact' = {} /\ manual = {} /\ UNCHANGED vars
    BY DEF BeginCall
  <1>2. manual' = {} /\ outcome' = outcome /\ alloc' = alloc /\ live' = live
    BY <1>1 DEF vars, tables, machine
  <1>0. PICK n \in 1 .. Len(arg_regs) :
          \E s \in [1 .. n -> {x \in Name : Passable(x)}] :
            /\ \A i, j \in 1 .. n : i # j => s[i] # s[j]
            /\ args' = s
            /\ tgt' \in {None} \cup
                 {x \in Name : CallTarget(x) /\ x \in live /\ \A i \in 1 .. n : s[i] # x}
    BY DEF BeginCall
  <1>3. PICK s \in [1 .. n -> {x \in Name : Passable(x)}] :
          /\ \A i, j \in 1 .. n : i # j => s[i] # s[j]
          /\ args' = s
          /\ tgt' \in {None} \cup
               {x \in Name : CallTarget(x) /\ x \in live /\ \A i \in 1 .. n : s[i] # x}
    BY <1>0
  <1>4. n \in Nat /\ 1 <= n  BY ArgRegFacts
  <1>5. /\ args' \in Seq(Name) /\ Len(args') = n /\ DOMAIN args' = 1 .. n
        /\ \A i \in 1 .. n : args'[i] \in Name /\ Passable(args'[i])
    BY <1>3, <1>4
  <1>6. 1 \in 1 .. n  BY <1>4
  <1>7. \A i \in 1 .. n : args'[i] # tgt'
    <2>1. tgt' = None => \A i \in 1 .. n : args'[i] # tgt'  BY <1>5, AllocConstants
    <2> QED  BY <1>3, <2>1
  <1>8. CallType'  BY <1>1, <1>3, <1>5, <1>6, <1>7 DEF CallType, CallSteps
  <1>9. Claims' /\ Cleared' /\ Loaded'  BY <1>1, <1>2 DEF Claims, Cleared, Loaded
  <1>10. ArgsReady'
    <2>1. Waiting' = 1 .. n  BY <1>1, <1>5, Zenon DEF Waiting
    <2>2. \A i \in 1 .. n : alloc'[args'[i]].size # 0 /\ args'[i] \in live'
      BY <1>2, <1>5 DEF Passable, Declared
    <2>3. tgt' # None => CallTarget(tgt') /\ tgt' \in live  BY <1>3
    <2>4. tgt' # None => CallTarget(tgt)' /\ tgt' \in live'
      BY <1>2, <2>3 DEF CallTarget
    <2>5. \A i \in Waiting' : Declared(args[i])' /\ args'[i] \in live'
      BY <2>1, <2>2 DEF Declared
    <2> QED  BY <2>4, <2>5 DEF ArgsReady
  <1> QED  BY <1>2, <1>8, <1>9, <1>10 DEF CallRest

(* What the placing of a pointer-sized argument can overwrite is its own   *)
(* register, where it puts the argument.                                   *)
LEMMA WideOverwrites ==
  ASSUME CallRest, PlaceWide
  PROVE  /\ Overwritten \subseteq {k} /\ regof'[args[k]] = ArgReg(k)
         /\ UNCHANGED <<manual, outcome, alloc, live>>
  <1>1. step = "place" /\ k \in DOMAIN arg_regs /\ args[k] \in Name /\ intact \subseteq DOMAIN arg_regs
    <2>1. step = "place" /\ step # "program" /\ CallType /\ intact \subseteq DOMAIN arg_regs
      BY DEF PlaceWide, CallRest, CallType
    <2> QED  BY <2>1, CallIndex
  <1>2. CASE regof[args[k]] = ArgReg(k)
    <2>1. UNCHANGED <<regof, manual, outcome, alloc, live>>
      BY <1>2 DEF PlaceWide, vars, tables, machine
    <2> QED  BY <1>2, <2>1 DEF Overwritten
  <1>3. CASE regof[args[k]] # ArgReg(k)
    <2> DEFINE V == Holders(Conflicts(pool, ArgReg(k)))
    <2>1. Place(args[k], ArgReg(k), V, FALSE) /\ outcome' = outcome
      BY <1>3 DEF PlaceWide, UseRegister
    <2> HIDE DEF V
    <2>2. UNCHANGED <<manual, alloc, live>>  BY <2>1 DEF Place
    <2>3. \E G : regof' = [RegofAfter(G) EXCEPT ![args[k]] = ArgReg(k)]  BY <2>1 DEF Place
    <2>4. \A x \in Name : x = args[k] \/ regof'[x] \in {NoReg, regof[x]}  BY <2>3 DEF RegofAfter
    <2>5. regof'[args[k]] = ArgReg(k)  BY <1>1, <2>3 DEF RegofAfter
    <2>6. FullReg(ArgReg(k)) = arg_regs[k]  BY <1>1, ArgRegFacts
    <2>7. \A j \in intact : arg_regs[k] = arg_regs[j] => j = k  BY <1>1, CallRegisters
    <2> QED  BY <2>1, <2>2, <2>4, <2>5, <2>6, <2>7 DEF Overwritten
  <1> QED  BY <1>2, <1>3

LEMMA PlaceWideKeeps ==
  ASSUME CallRest, PlaceWide
  PROVE  CallRest'
  <1>1. step = "place" /\ step' = "free" /\ UNCHANGED <<args, tgt, k>> /\ intact' \subseteq intact \cup {k}
    BY DEF PlaceWide
  <1>2. UNCHANGED <<manual, outcome, alloc, live>>  BY WideOverwrites
  <1>3. k \in 1 .. Len(args) /\ k \in Nat  BY <1>1, CallIndex DEF CallRest
  <1>4. CallType'  BY <1>1, <1>3, SameCall DEF CallSteps
  <1>5. Claims'
    <2>1. Placed = 1 .. (k - 1) /\ Placed' = 1 .. k  BY <1>1 DEF Placed
    <2>2. Placed \subseteq Placed'  BY <1>3, <2>1
    <2>3. \A r \in manual : \E i \in Placed : r = ArgReg(i)  BY <1>1 DEF CallRest, Claims
    <2> QED  BY <1>1, <1>2, <2>2, <2>3 DEF Claims, ArgReg
  <1>6. ArgsReady'
    <2>1. Waiting = k .. Len(args) /\ (k + 1) .. Len(args) \subseteq k .. Len(args)
      BY <1>1, WaitingSteps DEF CallRest
    <2>2. Waiting' = (k + 1) .. Len(args)  BY <1>1, Zenon DEF Waiting
    <2> QED  BY <1>1, <1>2, <2>1, <2>2, StayReady DEF BeforeCall, CallSteps
  <1>7. Loaded' /\ Cleared'  BY <1>1 DEF Loaded, Cleared
  <1> QED  BY <1>2, <1>4, <1>5, <1>6, <1>7 DEF CallRest

LEMMA AcquireNarrowKeeps ==
  ASSUME AllocInv, CallRest, AcquireNarrow
  PROVE  CallRest' /\ manual' = manual \cup {ArgReg(k)} /\ outcome' = outcome
  <1>1. step = "place" /\ step' = "load" /\ UNCHANGED <<args, tgt, k, intact>> /\ Acquire(ArgReg(k))
    BY DEF AcquireNarrow
  <1>2. k \in 1 .. Len(args) /\ k \in Nat /\ k \in DOMAIN arg_regs /\ 1 .. Len(args) \subseteq DOMAIN arg_regs
        /\ Len(args) \in Nat
    BY <1>1, CallIndex DEF CallRest
  <1>3. CallType'  BY <1>1, <1>2, SameCall DEF CallSteps
  <1>4. \A r \in manual : \E i \in 1 .. (k - 1) : r = ArgReg(i)  BY <1>1 DEF CallRest, Claims, Placed
  <1>5. \A i \in 1 .. (k - 1) : i # k /\ i \in 1 .. k /\ i \in DOMAIN arg_regs
    BY <1>2
  <1>6. \A r \in manual : FullReg(r) # arg_regs[k]
    BY <1>2, <1>4, <1>5, ArgRegFacts, CallRegisters
  <1>7. outcome' = outcome /\ manual' = manual \cup {ArgReg(k)}
    BY <1>1, <1>2, <1>6, ArgRegFacts, AcquireWorks
  <1>8. Claims'
    <2>1. Placed' = 1 .. k /\ ArgReg(k)' = ArgReg(k)  BY <1>1 DEF Placed, ArgReg
    <2>2. k \in 1 .. k  BY <1>2
    <2>3. \A r \in manual' : \E i \in 1 .. k : r = ArgReg(i)  BY <1>4, <1>5, <1>7, <2>2
    <2> QED  BY <1>1, <1>7, <2>1, <2>3 DEF Claims, ArgReg
  <1>9. ArgsReady'
    <2>1. Waiting = k .. Len(args)  BY <1>1, WaitingSteps DEF CallRest
    <2>2. Waiting' = k .. Len(args)  BY <1>1, Zenon DEF Waiting
    <2>3. outcome' # "acquire failed"  BY <1>7 DEF CallRest
    <2>4. alloc' = alloc /\ live' = live
      BY <1>1, <2>3 DEF Acquire, Panic
    <2> QED  BY <1>1, <2>1, <2>2, <2>4, StayReady DEF BeforeCall, CallSteps
  <1>10. Loaded' /\ Cleared'  BY <1>1 DEF Loaded, Cleared
  <1> QED  BY <1>3, <1>7, <1>8, <1>9, <1>10 DEF CallRest

(* An operand that is read changes neither the locals nor what is held;    *)
(* if its load succeeds it is in a register that is not held.              *)
LEMMA ReadsOperand ==
  ASSUME AllocInv, NEW x \in Name, RegOperand(x, FALSE), Running
  PROVE  /\ UNCHANGED <<manual, alloc, live, phase>>
         /\ outcome' # "acquire failed"
         /\ \A y \in Name : \/ regof'[y] \in {NoReg, regof[y]}
                            \/ /\ y = x /\ regof'[y] \in Register
                               /\ \A m \in manual : ~Overlap(regof'[y], m)
         /\ Running' => /\ InReg(x)'
                        /\ \E r : operands' = operands \cup {Operand(x, r, FALSE)}
  <1> DEFINE need == NeedSize(x)
             V == LruVictim(need)
             clear == alloc[x].regable /\ need < 64
  <1>1. TypeOK /\ HoldersAgree /\ PoolExact  BY InvFacts
  <1>2. V \in SUBSET InRegNames /\ {} \in SUBSET InRegNames /\ PoolAfter({}) = pool
    BY <1>1, HoldersInReg, EvictNone
  <1>3. /\ \A r \in Get(pool, need) : r \in Register /\ CanUse(PoolAfter({}), r)
        /\ \A r \in Get(PoolAfter(V), need) : r \in Register /\ CanUse(PoolAfter(V), r)
    BY <1>2, LoadsRegister
  <1> HIDE DEF V, need
  <1>4. ASSUME ~InReg(x), NEW U \in SUBSET InRegNames, NEW r \in Register, CanUse(PoolAfter(U), r),
               Place(x, r, U, clear), outcome' = outcome,
               operands' = operands \cup {Operand(x, r, FALSE)}
        PROVE  /\ UNCHANGED <<manual, alloc, live, phase>> /\ InReg(x)'
               /\ \A y \in Name : \/ regof'[y] \in {NoReg, regof[y]}
                                  \/ /\ y = x /\ regof'[y] \in Register
                                     /\ \A m \in manual : ~Overlap(regof'[y], m)
    <2>1. UNCHANGED <<manual, alloc, live, phase>>  BY <1>4 DEF Place
    <2>2. regof' = [RegofAfter(U) EXCEPT ![x] = r]
      <3>1. U \cup {} = U  OBVIOUS
      <3> QED  BY <1>4, <3>1 DEF Place
    <2>3. regof'[x] = r /\ \A y \in Name \ {x} : regof'[y] \in {NoReg, regof[y]}
      BY <2>2 DEF RegofAfter
    <2>4. \A m \in manual : ~Overlap(r, m)
      <3> DEFINE O == (Held \ RegsOf(U)) \cup Reserved
                 p == PoolAfter(U)
      <3>1. p \in PoolType /\ Exact(p, O)  BY <1>1, EvictPool
      <3>2. O \in SUBSET Register /\ manual \subseteq O  BY <1>1, HeldFacts DEF Reserved
      <3>3. r \notin O /\ Take(p, r) \in PoolType /\ Exact(Take(p, r), O \cup {r})
        <4> HIDE DEF O
        <4> QED  BY <1>4, <3>1, <3>2, TakeExact
      <3> HIDE DEF O, p
      <3>4. O \cup {r} \in SUBSET Register  BY <3>2
      <3> QED  BY <3>2, <3>3, <3>4, ExactDisjoint
    <2>5. r # NoReg  BY AllocConstants
    <2> QED  BY <2>1, <2>3, <2>4, <2>5 DEF InReg
  <1>5. CASE Panic(LoadFailure(need))
    <2>1. UNCHANGED <<manual, alloc, live, phase, regof>>
      BY <1>5, Zenon DEF Panic, tables, machine
    <2>2. outcome' \in {"failed to load register", "failed to load byte register"}
      BY <1>5 DEF Panic, LoadFailure
    <2> QED  BY <2>1, <2>2 DEF Running
  <1>6. CASE /\ InReg(x) /\ operands' = operands \cup {Operand(x, regof[x], FALSE)}
             /\ UNCHANGED <<alloc, regof, manual, phase, machine, outcome>>
    BY <1>6 DEF machine, InReg, Running
  <1>7. \/ Panic(LoadFailure(need))
        \/ /\ InReg(x) /\ operands' = operands \cup {Operand(x, regof[x], FALSE)}
           /\ UNCHANGED <<alloc, regof, manual, phase, machine, outcome>>
        \/ /\ ~InReg(x)
           /\ \E r \in Get(pool, need) : /\ Place(x, r, {}, clear)
                /\ operands' = operands \cup {Operand(x, r, FALSE)} /\ outcome' = outcome
        \/ /\ ~InReg(x)
           /\ \E r \in Get(PoolAfter(V), need) : /\ Place(x, r, V, clear)
                /\ operands' = operands \cup {Operand(x, r, FALSE)} /\ outcome' = outcome
    BY Zenon DEF RegOperand, need, V
  <1>8. outcome' = outcome => outcome' # "acquire failed"  BY DEF Running
  <1> HIDE DEF clear
  <1>9. CASE /\ ~InReg(x)
             /\ \E r \in Get(pool, need) : /\ Place(x, r, {}, clear)
                  /\ operands' = operands \cup {Operand(x, r, FALSE)} /\ outcome' = outcome
    BY <1>2, <1>3, <1>4, <1>8, <1>9
  <1>10. CASE /\ ~InReg(x)
              /\ \E r \in Get(PoolAfter(V), need) : /\ Place(x, r, V, clear)
                   /\ operands' = operands \cup {Operand(x, r, FALSE)} /\ outcome' = outcome
    BY <1>2, <1>3, <1>4, <1>8, <1>10
  <1> QED  BY <1>5, <1>6, <1>7, <1>9, <1>10

(* What can be read can be read only while the assembly runs.              *)
LEMMA ReadsRunning ==
  ASSUME NEW x, RegOperand(x, FALSE)
  PROVE  Running
  <1>1. AtOperand(x, FALSE) \/ AtCallTarget(x)  BY Zenon DEF RegOperand
  <1> QED  BY <1>1 DEF AtOperand, AtCallTarget

LEMMA LoadNarrowKeeps ==
  ASSUME AllocInv, CallRest, LoadNarrow
  PROVE  /\ CallRest' /\ manual' = manual /\ Overwritten \subseteq {j \in intact : ArgReg(j) \notin manual}
  <1>1. step = "load" /\ step' = "extend" /\ UNCHANGED <<args, tgt, k>> /\ intact' \subseteq intact
        /\ RegOperand(args[k], FALSE)
    BY DEF LoadNarrow
  <1>2. k \in 1 .. Len(args) /\ args[k] \in Name  BY <1>1, CallIndex DEF CallRest
  <1>3. CallType'  BY <1>1, <1>2, SameCall DEF CallSteps
  <1>4. /\ UNCHANGED <<manual, alloc, live>> /\ outcome' # "acquire failed"
        /\ Running' => InReg(args[k])'
    BY <1>1, <1>2, ReadsOperand, ReadsRunning
  <1>5. Claims'  BY <1>1, <1>4 DEF CallRest, Claims, Placed, ArgReg
  <1>6. ArgsReady'
    <2>1. Waiting = k .. Len(args)  BY <1>1, WaitingSteps DEF CallRest
    <2>2. Waiting' = k .. Len(args)  BY <1>1, Zenon DEF Waiting
    <2> QED  BY <1>1, <1>4, <2>1, <2>2, StayReady DEF BeforeCall, CallSteps
  <1>7. Loaded' /\ Cleared'
    <2>1. InReg(args[k])' <=> regof'[args[k]] # NoReg  BY <1>1 DEF InReg
    <2> QED  BY <1>1, <1>4, <2>1 DEF Loaded, Cleared, InReg
  <1>8. Overwritten \subseteq {j \in intact : ArgReg(j) \notin manual}
    <2> SUFFICES ASSUME NEW j \in Overwritten, ArgReg(j) \in manual PROVE FALSE
      BY DEF Overwritten
    <2>1. PICK y \in Name : regof'[y] \notin {NoReg, regof[y]} /\ FullReg(regof'[y]) = arg_regs[j]
      BY DEF Overwritten
    <2>2. j \in DOMAIN arg_regs  BY DEF Overwritten, CallRest, CallType
    <2>3. regof'[y] \in Register /\ ~Overlap(regof'[y], ArgReg(j))
      BY <1>1, <1>2, <2>1, ReadsOperand, ReadsRunning
    <2>4. ArgReg(j) \in Register /\ FullReg(ArgReg(j)) = arg_regs[j] /\ ~IsByte(ArgReg(j))
      BY <2>2, ArgRegFacts DEF PartialReg, PartOfWidth, IsByte
    <2> QED  BY <2>1, <2>3, <2>4, OverlapShape
  <1> QED  BY <1>3, <1>4, <1>5, <1>6, <1>7, <1>8 DEF CallRest

(* An instruction that writes no local.                                    *)
LEMMA ExtendKeeps ==
  ASSUME CallRest, Extend
  PROVE  /\ CallRest' /\ UNCHANGED <<manual, alloc, regof>> /\ live \subseteq live'
         /\ Running' => outcome' = outcome
  <1>1. step = "extend" /\ step' = "free" /\ UNCHANGED <<args, tgt, k>> /\ intact' \subseteq intact \cup {k} /\ Emit
    BY DEF Extend
  <1>2. k \in 1 .. Len(args)  BY <1>1, CallIndex DEF CallRest
  <1>3. CallType'  BY <1>1, <1>2, SameCall DEF CallSteps
  <1>4. /\ UNCHANGED <<manual, alloc, regof>> /\ live \subseteq live'
        /\ outcome' \in {outcome, "operand displaced", "partial operand displaced"}
    <2>1. CASE Panic(Displacement)
      <3>1. UNCHANGED <<manual, alloc, regof, live>>  BY <2>1, Zenon DEF Panic, tables, machine
      <3>2. outcome' \in {"operand displaced", "partial operand displaced"}
        BY <2>1 DEF Panic, Displacement
      <3> QED  BY <3>1, <3>2
    <2>2. CASE ~Panic(Displacement)
      <3>1. \E W : live' = live \cup W  BY <1>1, <2>2, Zenon DEF Emit
      <3>2. UNCHANGED <<manual, alloc, regof, outcome>>  BY <1>1, <2>2, Zenon DEF Emit, tables
      <3> QED  BY <3>1, <3>2
    <2> QED  BY <2>1, <2>2
  <1>5. Claims'  BY <1>1, <1>4 DEF CallRest, Claims, Placed, ArgReg
  <1>6. ArgsReady'
    <2>1. Waiting = k .. Len(args) /\ (k + 1) .. Len(args) \subseteq k .. Len(args)
      BY <1>1, WaitingSteps DEF CallRest
    <2>2. Waiting' = (k + 1) .. Len(args)  BY <1>1, Zenon DEF Waiting
    <2> QED  BY <1>1, <1>4, <2>1, <2>2, StayReady DEF BeforeCall, CallSteps
  <1>7. Loaded' /\ Cleared'  BY <1>1 DEF Loaded, Cleared
  <1>8. outcome' # "acquire failed"  BY <1>4 DEF CallRest
  <1>9. Running' => outcome' = outcome  BY <1>4 DEF Running
  <1> QED  BY <1>3, <1>4, <1>5, <1>6, <1>7, <1>8, <1>9 DEF CallRest

(* A temporary that is forgotten was the argument just placed.             *)
LEMMA FreeKeeps ==
  ASSUME CallRest, Free
  PROVE  CallRest' /\ manual' = manual /\ outcome' = outcome
  <1>1. step = "free" /\ UNCHANGED <<args, tgt, intact>>  BY DEF Free
  <1>2. k \in Nat /\ 1 <= k /\ k <= Len(args) /\ Len(args) \in Nat /\ args[k] # tgt
    BY <1>1, CallIndex DEF CallRest
  <1>3. manual' = manual /\ outcome' = outcome
    BY DEF Free, Forget, ForgetNames, vars
  <1>4. \A x \in Name : x # args[k] =>
          alloc'[x] = alloc[x] /\ (x \in live => x \in live')
    <2>1. CASE UNCHANGED vars  BY <2>1 DEF vars, machine, tables
    <2>2. CASE Forget(args[k])
      <3>1. ForgetNames({args[k]})  BY <2>2 DEF Forget
      <3>2. /\ alloc' = [x \in Name |-> IF x \in {args[k]} THEN Undeclared ELSE alloc[x]]
            /\ live' = live \ {args[k]}
        BY <3>1 DEF ForgetNames
      <3> QED  BY <3>2
    <2> QED  BY <2>1, <2>2 DEF Free
  <1>5. \A r \in manual : \E i \in 1 .. k : r = ArgReg(i)  BY <1>1 DEF CallRest, Claims, Placed
  <1>6. /\ Waiting = (k + 1) .. Len(args) /\ k \notin (k + 1) .. Len(args)
        /\ (k + 1) .. Len(args) \subseteq 1 .. Len(args)
    BY <1>1, WaitingSteps DEF CallRest
  <1>7. \A i \in (k + 1) .. Len(args) : args[i] \in Name /\ args[i] # args[k]
    BY <1>1, <1>2, <1>6 DEF CallRest, CallType
  <1>8. \A i \in (k + 1) .. Len(args) : alloc'[args[i]].size # 0 /\ args[i] \in live'
    <2>1. \A i \in (k + 1) .. Len(args) : Declared(args[i]) /\ args[i] \in live
      BY <1>6 DEF CallRest, ArgsReady
    <2> QED  BY <1>4, <1>7, <2>1 DEF Declared
  <1>9. tgt # None => CallTarget(tgt)' /\ tgt' \in live'
    <2> SUFFICES ASSUME tgt # None PROVE CallTarget(tgt)' /\ tgt' \in live'  OBVIOUS
    <2>1. tgt \in Name /\ CallTarget(tgt) /\ tgt \in live
      BY <1>1 DEF CallRest, CallType, ArgsReady, BeforeCall, CallSteps
    <2>2. alloc'[tgt] = alloc[tgt] /\ tgt \in live'  BY <1>2, <1>4, <2>1
    <2>3. tgt' = tgt  BY <1>1
    <2> QED  BY <2>1, <2>2, <2>3 DEF CallTarget
  <1>10. ASSUME Waiting' \subseteq (k + 1) .. Len(args) PROVE ArgsReady'
    <2>1. \A i \in Waiting' : Declared(args[i])' /\ args'[i] \in live'
      BY <1>1, <1>8, <1>10 DEF Declared
    <2> QED  BY <1>1, <1>9, <2>1 DEF ArgsReady
  <1>11. CASE k < Len(args)
    <2>1. step' = "place" /\ k' = k + 1  BY <1>11 DEF Free
    <2>2. k' \in 1 .. Len(args) /\ k' - 1 = k  BY <1>2, <1>11, <2>1
    <2>3. CallType'  BY <1>1, <2>1, <2>2, SameCall DEF CallSteps
    <2>4. Placed' = 1 .. k  BY <2>1, <2>2 DEF Placed
    <2>5. Claims'  BY <1>3, <1>5, <2>1, <2>4 DEF Claims, ArgReg
    <2>6. Waiting' = (k + 1) .. Len(args)  BY <1>1, <2>1, Zenon DEF Waiting
    <2>7. ArgsReady'  BY <1>10, <2>6
    <2> QED  BY <1>3, <2>1, <2>3, <2>5, <2>7 DEF CallRest, Cleared, Loaded
  <1>12. CASE ~(k < Len(args))
    <2>1. step' = "result" /\ k' = 1  BY <1>12 DEF Free
    <2>2. k' \in 1 .. Len(args) /\ k = Len(args)  BY <1>2, <1>12, <2>1
    <2>3. CallType'  BY <1>1, <2>1, <2>2, SameCall DEF CallSteps
    <2>4. Placed' = 1 .. k  BY <1>1, <2>1, <2>2 DEF Placed
    <2>5. Claims'  BY <1>3, <1>5, <2>1, <2>4 DEF Claims, ArgReg
    <2>6. Waiting' = {}  BY <2>1, Zenon DEF Waiting
    <2>7. ArgsReady'  BY <1>10, <2>6
    <2> QED  BY <1>3, <2>1, <2>3, <2>5, <2>7 DEF CallRest, Cleared, Loaded
  <1> QED  BY <1>3, <1>11, <1>12

(* The result has a part of RAX, which is no argument's.                   *)
LEMMA AcquireResultKeeps ==
  ASSUME AllocInv, CallRest, AcquireResult
  PROVE  /\ CallRest' /\ outcome' = outcome
         /\ \E r : FullReg(r) = ret_reg /\ manual' = manual \cup {r}
  <1>1. step = "result" /\ step' = "call" /\ UNCHANGED <<args, tgt, k, intact>>
    BY DEF AcquireResult
  <1>2. PICK r \in Register : FullReg(r) = ret_reg /\ Acquire(r)
    BY DEF AcquireResult, PartialReg, FullReg
  <1>3. k \in 1 .. Len(args) /\ 1 .. Len(args) \subseteq DOMAIN arg_regs
    BY <1>1, CallIndex DEF CallRest
  <1>4. CallType'  BY <1>1, <1>3, SameCall DEF CallSteps
  <1>5. \A q \in manual : \E i \in 1 .. Len(args) : q = ArgReg(i)  BY <1>1 DEF CallRest, Claims, Placed
  <1>6. \A q \in manual : FullReg(q) # ret_reg  BY <1>3, <1>5, ArgRegFacts
  <1>7. outcome' = outcome /\ manual' = manual \cup {r}
    BY <1>2, <1>6, AcquireWorks, CallRegisters
  <1>8. Claims'
    <2>1. Placed' = 1 .. Len(args)  BY <1>1 DEF Placed
    <2> QED  BY <1>1, <1>2, <1>5, <1>7, <2>1 DEF Claims, ArgReg
  <1>9. ArgsReady'
    <2>1. Waiting' = {}  BY <1>1, Zenon DEF Waiting
    <2>2. outcome' # "acquire failed"  BY <1>7 DEF CallRest
    <2>3. alloc' = alloc /\ live' = live  BY <1>2, <2>2 DEF Acquire, Panic
    <2> QED  BY <1>1, <2>1, <2>3, StayReady DEF BeforeCall, CallSteps
  <1>10. Loaded' /\ Cleared'  BY <1>1 DEF Loaded, Cleared
  <1> QED  BY <1>2, <1>4, <1>7, <1>8, <1>9, <1>10 DEF CallRest

LEMMA DoCallKeeps ==
  ASSUME AllocInv, CallRest, DoCall
  PROVE  CallRest'
  <1>1. step = "call" /\ step' = "release" /\ UNCHANGED <<args, tgt, k, intact>> /\ Call  BY DEF DoCall
  <1>2. k \in 1 .. Len(args)  BY <1>1, CallIndex DEF CallRest
  <1>3. CallType'  BY <1>1, <1>2, SameCall DEF CallSteps
  <1>4. Cleared'  BY <1>1, CallClears DEF Cleared
  <1>5. outcome' = outcome  BY <1>1 DEF Call
  <1>6. Waiting' = {}  BY <1>1, Zenon DEF Waiting
  <1>7. Claims' /\ ArgsReady' /\ Loaded'
    BY <1>1, <1>6 DEF Claims, ArgsReady, Loaded, BeforeCall
  <1> QED  BY <1>3, <1>4, <1>5, <1>7 DEF CallRest

LEMMA EvictForTargetKeeps ==
  ASSUME CallRest, EvictForTarget
  PROVE  CallRest' /\ UNCHANGED <<manual, outcome>>
  <1>1. step = "call" /\ step' = "target" /\ UNCHANGED <<args, tgt, k, intact>> /\ tgt # None
        /\ BeginCallThrough
    BY DEF EvictForTarget
  <1>2. /\ UNCHANGED <<manual, outcome, alloc, live>> /\ phase' = "calling" /\ operands' = {}
    BY <1>1 DEF BeginCallThrough, AtDirective
  <1>3. k \in 1 .. Len(args)  BY <1>1, CallIndex DEF CallRest
  <1>4. CallType'  BY <1>1, <1>3, SameCall DEF CallSteps
  <1>5. Waiting' = {}  BY <1>1, Zenon DEF Waiting
  <1>6. ArgsReady'  BY <1>1, <1>2, <1>5, StayReady DEF BeforeCall, CallSteps
  <1>7. Claims' /\ Loaded' /\ Cleared'
    BY <1>1, <1>2 DEF CallRest, Claims, Placed, ArgReg, Loaded, Cleared
  <1> QED  BY <1>2, <1>4, <1>6, <1>7 DEF CallRest

(* While an indirect call is being made its target takes the first of the  *)
(* full registers: EvictForCall has left no local in it, and it has no     *)
(* argument and no result.                                                 *)
LEMMA FirstFree ==
  ASSUME AllocInv, TablesInv, CallRest, step = "target"
  PROVE  Get(pool, 64) = {PartialReg(regs64[1], 64)}
  <1> DEFINE f == regs64[1]
             O == Held \cup Reserved
             free == {g \in Full : ~FullInUse(pool, g)}
  <1>1. TypeOK /\ HoldersAgree /\ PoolExact  BY InvFacts
  <1>2. pool \in PoolType /\ O \in SUBSET Register /\ Exact(pool, O)
    BY <1>1, HeldFacts DEF TypeOK, PoolExact
  <1>3. regs64 \in Seq(Full) /\ regs64 # <<>>  BY RegisterFile, CallRegisters
  <1>4. 1 \in DOMAIN regs64 /\ f \in Full /\ f \in caller_saved /\ f # rbp /\ f # ret_reg
    BY <1>3, CallRegisters
  <1>5. \A i \in DOMAIN arg_regs : arg_regs[i] # f  BY CallRegisters
  <1>6. phase = "calling" /\ operands = {}  BY RestParts DEF Loaded
  <1>7. \A x \in Name : InReg(x) => FullReg(regof[x]) # f
    BY <1>4, <1>6 DEF TablesInv, CallingRegs
  <1>8. \A r \in manual : FullReg(r) # f
    <2>1. Placed = 1 .. Len(args) /\ 1 .. Len(args) \subseteq DOMAIN arg_regs
      BY CallIndex, RestParts DEF Placed
    <2>2. \A r \in manual : FullReg(r) = ret_reg \/ \E i \in Placed : r = ArgReg(i)
      BY RestParts DEF Claims
    <2> QED  BY <1>4, <1>5, <2>1, <2>2, ArgRegFacts
  <1>9. FullReg(PartialReg(rbp, 64)) = rbp  BY DEF FullReg, PartialReg
  <1>10. \A r \in O : FullReg(r) # f
    BY <1>4, <1>7, <1>8, <1>9 DEF Held, Reserved
  <1>11. pool.size[f] = 0
    <2>1. pool.size[f] = 8 => \E r \in O : FullReg(r) = f  BY <1>2, <1>4 DEF Exact
    <2>2. pool.size[f] \notin {0, 8} => PartialReg(f, pool.size[f]) \in O  BY <1>2, <1>4 DEF Exact
    <2>3. FullReg(PartialReg(f, pool.size[f])) = f  BY DEF FullReg, PartialReg
    <2> QED  BY <1>10, <2>1, <2>2, <2>3
  <1>12. f \in free  BY <1>4, <1>11 DEF FullInUse
  <1> HIDE DEF free, O
  <1>13. FirstOf(regs64, free) = {f}
    <2>1. \A i \in DOMAIN regs64 : i \in Nat /\ 1 <= i  BY <1>3
    <2>2. \A i \in DOMAIN regs64 : (\A j \in 1 .. (i - 1) : regs64[j] \notin free) => i = 1
      <3> SUFFICES ASSUME NEW i \in DOMAIN regs64, i # 1, \A j \in 1 .. (i - 1) : regs64[j] \notin free
                   PROVE  FALSE
        OBVIOUS
      <3>1. 1 \in 1 .. (i - 1)  BY <2>1
      <3> QED  BY <1>12, <3>1
    <2>3. \A j \in 1 .. (1 - 1) : regs64[j] \notin free  OBVIOUS
    <2> QED  BY <1>4, <1>12, <2>2, <2>3 DEF FirstOf
  <1>14. Get(pool, 64) = {PartialReg(g, 64) : g \in FirstOf(regs64, free)}
    BY DEF Get, Unused, free
  <1> QED  BY <1>13, <1>14

LEMMA LoadTargetKeeps ==
  ASSUME AllocInv, TablesInv, CallRest, LoadTarget
  PROVE  CallRest' /\ Overwritten = {} /\ manual' = manual /\ live' = live /\ alloc' = alloc
  <1>1. step = "target" /\ step' = "through" /\ UNCHANGED <<args, tgt, k>> /\ intact' \subseteq intact
        /\ RegOperand(tgt, FALSE)
    BY DEF LoadTarget
  <1>2. tgt \in Name /\ tgt # None /\ operands = {} /\ CallTarget(tgt)
    BY <1>1, RestParts DEF CallType, Loaded, ArgsReady, BeforeCall, CallSteps
  <1>3. NeedSize(tgt) = 64  BY <1>2 DEF NeedSize, CallTarget
  <1>4. /\ UNCHANGED <<manual, alloc, live>> /\ outcome' # "acquire failed"
        /\ Running' => InReg(tgt)' /\ \E r : operands' = operands \cup {Operand(tgt, r, FALSE)}
    BY <1>1, <1>2, ReadsOperand, ReadsRunning
  <1> DEFINE r == PartialReg(regs64[1], 64)
  <1>5. Get(pool, 64) = {r}  BY <1>1, FirstFree
  <1>6. \A y \in Name : regof'[y] \in {NoReg, regof[y], r}
    <2> DEFINE need == NeedSize(tgt)
               clear == alloc[tgt].regable /\ need < 64
    <2>1. CASE Panic(LoadFailure(need))
      <3>1. regof' = regof  BY <2>1, Zenon DEF Panic, tables
      <3> QED  BY <3>1
    <2>2. CASE regof' = regof  BY <2>2
    <2>3. CASE \E q \in Get(pool, need) : Place(tgt, q, {}, clear)
      <3>1. Place(tgt, r, {}, clear)  BY <1>3, <1>5, <2>3
      <3>2. \E G : regof' = [RegofAfter(G) EXCEPT ![tgt] = r]  BY <3>1 DEF Place
      <3> QED  BY <3>2 DEF RegofAfter
    <2>4. CASE Get(pool, need) = {}  BY <1>3, <1>5, <2>4
    <2>5. \/ Panic(LoadFailure(need)) \/ regof' = regof \/ Get(pool, need) = {}
          \/ \E q \in Get(pool, need) : Place(tgt, q, {}, clear)
      BY <1>1, Zenon DEF RegOperand
    <2> QED  BY <2>1, <2>2, <2>3, <2>4, <2>5
  <1>7. Overwritten = {}
    <2> SUFFICES ASSUME NEW j \in Overwritten PROVE FALSE  OBVIOUS
    <2>1. j \in DOMAIN arg_regs  BY RestParts DEF Overwritten, CallType
    <2>2. PICK y \in Name : regof'[y] \notin {NoReg, regof[y]} /\ FullReg(regof'[y]) = arg_regs[j]
      BY DEF Overwritten
    <2>3. regof'[y] = r  BY <1>6, <2>2
    <2>4. FullReg(r) = regs64[1]  BY DEF FullReg, PartialReg
    <2> QED  BY <2>1, <2>2, <2>3, <2>4, CallRegisters
  <1>8. k \in 1 .. Len(args)  BY <1>1, CallIndex, RestParts
  <1>9. CallType'  BY <1>1, <1>8, SameCall DEF CallSteps
  <1>10. Waiting' = {}  BY <1>1, Zenon DEF Waiting
  <1>11. ArgsReady'  BY <1>1, <1>4, <1>10, StayReady DEF BeforeCall, CallSteps
  <1>12. Claims' /\ Cleared'  BY <1>1 DEF Claims, Cleared
  <1>13. Loaded'
    <2>0. Running' => InReg(tgt)' /\ \E q : operands' = operands \cup {Operand(tgt, q, FALSE)}
      BY <1>4
    <2> HIDE <1>4
    <2>1. Running' => InReg(tgt)' /\ \A o \in operands' : o.name = tgt
      BY <1>2, <2>0 DEF Operand
    <2>2. InReg(tgt)' <=> regof'[tgt] # NoReg  BY <1>1 DEF InReg
    <2> QED  BY <1>1, <1>2, <2>1, <2>2 DEF Loaded, InReg
  <1> QED  BY <1>4, <1>7, <1>9, <1>11, <1>12, <1>13 DEF CallRest

LEMMA DoCallThroughKeeps ==
  ASSUME TablesInv, CallRest, DoCallThrough
  PROVE  CallRest'
  <1>1. step = "through" /\ step' = "forget" /\ UNCHANGED <<args, tgt, k, intact>> /\ CallThrough
    BY DEF DoCallThrough
  <1>2. phase = "calling" /\ Running /\ UNCHANGED <<regof, outcome>>
    BY <1>1 DEF CallThrough, tables
  <1>3. k \in 1 .. Len(args)  BY <1>1, CallIndex, RestParts
  <1>4. CallType'  BY <1>1, <1>3, SameCall DEF CallSteps
  <1>5. Waiting' = {}  BY <1>1, Zenon DEF Waiting
  <1>6. \A x \in Name : InReg(x) /\ FullReg(regof[x]) \in caller_saved => x = tgt
    BY <1>1, <1>2, RestParts DEF Loaded, TablesInv, CallingRegs
  <1>7. Cleared'  BY <1>1, <1>2, <1>6 DEF Cleared, InReg
  <1>8. Claims' /\ ArgsReady' /\ Loaded'
    BY <1>1, <1>5, RestParts DEF Claims, ArgsReady, Loaded, BeforeCall
  <1> QED  BY <1>2, <1>4, <1>7, <1>8 DEF CallRest

LEMMA ForgetTargetKeeps ==
  ASSUME CallRest, ForgetTarget
  PROVE  CallRest'
  <1>1. step = "forget" /\ step' = "release" /\ UNCHANGED <<args, tgt, k, intact>> /\ Forget(tgt)
    BY DEF ForgetTarget
  <1>2. /\ regof' = RegofAfter({v \in {tgt} : InReg(v)}) /\ outcome' = outcome
    BY <1>1 DEF Forget, ForgetNames
  <1>3. k \in 1 .. Len(args)  BY <1>1, CallIndex, RestParts
  <1>4. CallType'  BY <1>1, <1>3, SameCall DEF CallSteps
  <1>5. Waiting' = {}  BY <1>1, Zenon DEF Waiting
  <1>6. \A x \in Name : regof'[x] # NoReg => regof'[x] = regof[x] /\ InReg(x) /\ x # tgt
    BY <1>2 DEF RegofAfter, InReg
  <1>7. Cleared'  BY <1>1, <1>6, RestParts DEF Cleared, InReg
  <1>8. Claims' /\ ArgsReady' /\ Loaded'
    BY <1>1, <1>5 DEF Claims, ArgsReady, Loaded, BeforeCall
  <1> QED  BY <1>2, <1>4, <1>7, <1>8 DEF CallRest

LEMMA ReleaseArgKeeps ==
  ASSUME CallRest, ReleaseArg
  PROVE  CallRest'
  <1>1. step = "release" /\ outcome' = outcome /\ regof' = regof
    BY DEF ReleaseArg, ReleaseReg, tables
  <1>2. k \in Nat /\ 1 <= k /\ k <= Len(args) /\ Len(args) \in Nat  BY <1>1, CallIndex, RestParts
  <1>3. CASE k < Len(args)
    <2>1. k' = k + 1 /\ UNCHANGED <<args, tgt, step, intact>>  BY <1>3 DEF ReleaseArg
    <2>2. k' \in 1 .. Len(args)  BY <1>2, <1>3, <2>1
    <2>3. CallType'  BY <1>1, <2>1, <2>2, SameCall DEF CallSteps
    <2>4. Waiting' = {}  BY <1>1, <2>1, Zenon DEF Waiting
    <2>5. Claims' /\ ArgsReady' /\ Loaded'
      BY <1>1, <2>1, <2>4 DEF Claims, ArgsReady, Loaded, BeforeCall
    <2>6. Cleared'  BY <1>1, <2>1, RestParts DEF Cleared, InReg
    <2> QED  BY <1>1, <2>3, <2>5, <2>6 DEF CallRest
  <1>4. CASE ~(k < Len(args))
    <2>1. step' = "program" /\ intact' = {}  BY <1>4 DEF ReleaseArg
    <2>2. Waiting' = {}  BY <2>1, Zenon DEF Waiting
    <2>3. CallType' /\ Claims' /\ ArgsReady' /\ Loaded' /\ Cleared'
      BY <2>1, <2>2 DEF CallType, CallSteps, Claims, ArgsReady, Loaded, Cleared, BeforeCall
    <2> QED  BY <1>1, <2>3 DEF CallRest
  <1> QED  BY <1>3, <1>4

-----------------------------------------------------------------------------
LEMMA CallStep == CallInv /\ [CallNext]_<<vars, callVars>> => CallInv' /\ [Next]_vars
  <1> SUFFICES ASSUME CallInv, [CallNext]_<<vars, callVars>> PROVE CallInv' /\ [Next]_vars
    OBVIOUS
  <1>1. CASE UNCHANGED <<vars, callVars>>
    <2>1. [Next]_vars  BY <1>1
    <2>2. AllocInv' /\ TablesInv'  BY <2>1, NextInv, NextTables DEF CallInv
    <2>3. UNCHANGED <<args, tgt, step, k, intact, manual, regof, outcome, alloc, live, operands, phase>>
      BY <1>1 DEF vars, callVars, tables, machine
    <2>4. CallType'  BY <2>3, RestParts DEF CallInv, CallType
    <2>5. Claims' /\ Cleared' /\ Loaded'
      BY <2>3, RestParts DEF CallInv, Claims, Placed, ArgReg, Cleared, Loaded, InReg, Running
    <2>6. Waiting' = Waiting  BY <2>3, Zenon DEF Waiting
    <2>7. ArgsReady'
      BY <2>3, <2>6, RestParts DEF CallInv, ArgsReady, Declared, CallTarget
    <2> QED  BY <2>1, <2>2, <2>3, <2>4, <2>5, <2>7 DEF CallInv, CallRest
  <1>2. CASE CallNext
    <2>1. [Next]_vars  BY <1>2, CallAllocates, RestParts DEF CallInv
    <2>2. AllocInv' /\ TablesInv'  BY <2>1, NextInv, NextTables DEF CallInv
    <2>3. CallRest'
      BY <1>2, ProgramKeeps, BeginCallKeeps, PlaceWideKeeps, AcquireNarrowKeeps, LoadNarrowKeeps,
         ExtendKeeps, FreeKeeps, AcquireResultKeeps, DoCallKeeps, EvictForTargetKeeps,
         LoadTargetKeeps, DoCallThroughKeeps, ForgetTargetKeeps, ReleaseArgKeeps DEF CallNext, CallInv
    <2> QED  BY <2>1, <2>2, <2>3 DEF CallInv
  <1> QED  BY <1>1, <1>2

LEMMA CallStart == CallInit => CallInv
  <1> SUFFICES ASSUME CallInit PROVE CallInv  OBVIOUS
  <1>1. AllocInv /\ TablesInv  BY InitInv, InitValues DEF CallInit
  <1>2. outcome = "ok" /\ step = "program"  BY DEF CallInit, Init
  <1>3. Waiting = {}  BY <1>2, Zenon DEF Waiting
  <1>4. CallType /\ Claims /\ ArgsReady /\ Loaded /\ Cleared
    BY <1>2, <1>3 DEF CallInit, CallType, CallSteps, Claims, ArgsReady, BeforeCall, Loaded, Cleared
  <1> QED  BY <1>1, <1>2, <1>4 DEF CallInv, CallRest

(* The invariant of the call sequence, around any code, and that it is a   *)
(* program of the allocator.                                               *)
THEOREM CallInvariant == CallSpec => Spec /\ []CallInv
  <1>1. CallInit => Init  BY DEF CallInit
  <1> QED  BY <1>1, CallStart, CallStep, PTL DEF CallSpec, Spec

(* The release directives after a call (compile.go) give back registers    *)
(* that no local has moved into: EvictForCall has emptied them.            *)
THEOREM ReleasesOnlyOwn == CallSpec => []ReleasesOwn
  <1>1. CallInv => ReleasesOwn
    <2> SUFFICES ASSUME CallInv, step = "release", NEW i \in k .. Len(args), NEW x \in Name, InReg(x)
                 PROVE  ~Overlap(regof[x], ArgReg(i))
      BY DEF ReleasesOwn
    <2>1. FullReg(regof[x]) \notin caller_saved  BY RestParts DEF CallInv, Cleared
    <2>2. i \in DOMAIN arg_regs
      <3>1. k \in Nat /\ 1 <= k /\ Len(args) \in Nat /\ 1 .. Len(args) \subseteq DOMAIN arg_regs
        BY CallIndex, RestParts DEF CallInv
      <3>2. i \in 1 .. Len(args)  BY <3>1
      <3> QED  BY <3>1, <3>2
    <2>3. ArgReg(i) \in Register /\ FullReg(ArgReg(i)) \in caller_saved  BY <2>2, ArgRegFacts
    <2>4. regof[x] \in Register  BY InvFacts DEF CallInv, TypeOK, InReg
    <2> QED  BY <2>1, <2>3, <2>4, OverlapShape
  <1> QED  BY <1>1, CallInvariant, PTL

(* The allocator accepts every claim of a call sequence: the panic of      *)
(* acquire is never reached.                                               *)
THEOREM CallsComplete == CallSpec => []CallCompletes
  <1>1. CallInv => CallCompletes  BY DEF CallInv, CallRest, CallCompletes
  <1> QED  BY <1>1, CallInvariant, PTL

-----------------------------------------------------------------------------
(* Only a running assembly takes a step that leaves it running.            *)
LEMMA WasRunning ==
  ASSUME CallType, Loaded, CallNext, Running'
  PROVE  Running
  <1>1. ASSUME NEW V, ForgetNames(V) PROVE outcome' = outcome  BY <1>1 DEF ForgetNames
  <1>2. \A x : Forget(x) => Running  BY DEF Forget, AtDeclaration
  <1>3. \A x : RegOperand(x, FALSE) => Running  BY ReadsRunning
  <1>4. \A r : Acquire(r) \/ ReleaseReg(r) => Running  BY Zenon DEF Acquire, ReleaseReg, AtDirective
  <1>5. UNCHANGED vars => Running  BY DEF vars, Running
  <1>6. Emit \/ Call \/ BeginCallThrough \/ CallThrough => Running
    BY Zenon DEF Emit, Call, BeginCallThrough, CallThrough, AtDirective
  <1>7. \A x, r : UseRegister(x, r) => Running  BY Zenon DEF UseRegister, AtDirective
  <1>8. Declare \/ Directive \/ Instr => Running
    <2>1. Declare => Running
      BY Zenon DEF Declare, Local, Bytes, Arg, StackArg, AtDeclaration
    <2>2. Directive => Running
      <3>1. ForgetAll \/ EvictAll \/ Prologue \/ Epilogue => Running
        BY Zenon DEF ForgetAll, EvictAll, Prologue, Epilogue, AtDeclaration, AtDirective
      <3>2. \A x, r : Volatile(x) \/ EvictReg(r) => Running  BY Zenon DEF Volatile, EvictReg, AtDirective
      <3> QED  BY <1>2, <1>4, <1>6, <1>7, <3>1, <3>2, Zenon DEF Directive
    <2>3. Instr => Running
      <3>1. \A x, w : RegOperand(x, w) \/ MemOperand(x, w) \/ PartialOperand(x, w) => Running
        BY Zenon DEF RegOperand, MemOperand, PartialOperand, AtOperand, AtCallTarget
      <3> QED  BY <1>6, <3>1, Zenon DEF Instr
    <2> QED  BY <2>1, <2>2, <2>3
  <1>9. Program \/ BeginCall \/ PlaceWide \/ AcquireNarrow \/ LoadNarrow \/ Extend \/ Free => Running
    BY <1>2, <1>3, <1>4, <1>5, <1>6, <1>7, <1>8, Zenon
    DEF Program, BeginCall, PlaceWide, AcquireNarrow, LoadNarrow, Extend, Free
  <1>10. DoCall \/ EvictForTarget \/ LoadTarget \/ DoCallThrough \/ ForgetTarget \/ ReleaseArg => Running
    BY <1>2, <1>3, <1>4, <1>6, Zenon
    DEF DoCall, EvictForTarget, LoadTarget, DoCallThrough, ForgetTarget, ReleaseArg
  <1>11. AcquireResult => Running
    <2>1. AcquireResult => \E r : Acquire(r)  BY DEF AcquireResult
    <2> QED  BY <1>4, <2>1
  <1> QED  BY <1>9, <1>10, <1>11 DEF CallNext

(* What nothing protects stays that way while more registers are claimed.  *)
LEMMA ExposedStays ==
  ASSUME NEW i, Exposed(i), args' = args, manual \subseteq manual', ArgReg(i) \notin manual'
  PROVE  Exposed(i)'
  BY DEF Exposed, ArgReg, PartialReg

(* A local with a value that is in a register has arrived there.           *)
LEMMA ArrivedThere ==
  ASSUME Coherent', NEW x \in Name, Declared(x), x \in live, alloc' = alloc, x \in live',
         regof'[x] # NoReg
  PROVE  RegHolds(x, regof[x])' /\ (alloc'[x].regable \/ MemHolds(x)')
  <1>1. x \in DeclaredNames' /\ InReg(x)'  BY DEF DeclaredNames, Declared, InReg
  <1> QED  BY <1>1 DEF Coherent

LEMMA ArriveStep ==
  ASSUME CallInv, CallInv', Coherent', ArgsArrive, CallNext
  PROVE  ArgsArrive'
  <1> SUFFICES ASSUME Running'
               PROVE  /\ \A i \in PlacedArgs' : i \in intact' \/ Exposed(i)'
                      /\ step' = "through" => RegHolds(tgt, regof[tgt])'
    BY DEF ArgsArrive
  <1>1. CallRest /\ CallType /\ Claims /\ ArgsReady /\ Loaded /\ AllocInv /\ TablesInv /\ Loaded'
    BY RestParts DEF CallInv, CallRest
  <1>2. Running  BY <1>1, WasRunning
  <1>3. \A i \in PlacedArgs : i \in intact \/ Exposed(i)  BY <1>2 DEF ArgsArrive
  <1>4. CASE Program \/ BeginCall \/ DoCall \/ DoCallThrough \/ ForgetTarget \/ ReleaseArg
    <2>1. \/ step' \in {"program", "release", "forget"}
          \/ step' = "place" /\ k' = 1
      BY <1>4 DEF Program, BeginCall, DoCall, DoCallThrough, ForgetTarget, ReleaseArg, callVars
    <2>2. step' \in {"program", "release", "forget"} => PlacedArgs' = {}  BY Zenon DEF PlacedArgs
    <2>3. step' = "place" => PlacedArgs' = 1 .. (k' - 1)  BY Zenon DEF PlacedArgs
    <2> QED  BY <2>1, <2>2, <2>3
  <1>5. ASSUME step # "program"
        PROVE  /\ Len(args) \in Nat /\ k \in Nat /\ 1 <= k /\ k <= Len(args) /\ k \in 1 .. Len(args)
               /\ 1 .. Len(args) \subseteq DOMAIN arg_regs /\ args[k] \in Name
               /\ step \in {"place", "load", "extend"} =>
                    /\ PlacedArgs = 1 .. (k - 1)
                    /\ Declared(args[k]) /\ args[k] \in live
               /\ step = "free" => PlacedArgs = 1 .. k
               /\ step \in {"result", "call", "target", "through"} => PlacedArgs = 1 .. Len(args)
    <2>1. step \in {"place", "load", "extend"} => PlacedArgs = 1 .. (k - 1)  BY Zenon DEF PlacedArgs
    <2>2. step = "free" => PlacedArgs = 1 .. k  BY Zenon DEF PlacedArgs
    <2>3. step \in {"result", "call", "target", "through"} => PlacedArgs = 1 .. Len(args)
      BY Zenon DEF PlacedArgs
    <2>4. step \in {"place", "load", "extend"} => Declared(args[k]) /\ args[k] \in live
      BY <1>1, <1>5, WaitingSteps DEF ArgsReady
    <2> QED  BY <1>1, <1>5, <2>1, <2>2, <2>3, <2>4, CallIndex
  <1>6. CASE PlaceWide
    <2>1. step = "place" /\ step' = "free" /\ UNCHANGED <<args, tgt, k>>
          /\ intact' = (intact \ Overwritten) \cup (IF Arrived(args[k], ArgReg(k))' THEN {k} ELSE {})
      BY <1>6 DEF PlaceWide
    <2>2. Overwritten \subseteq {k} /\ regof'[args[k]] = ArgReg(k) /\ UNCHANGED <<manual, alloc, live>>
      BY <1>1, <1>6, WideOverwrites
    <2>3. PlacedArgs' = 1 .. k  BY <2>1, Zenon DEF PlacedArgs
    <2>4. Arrived(args[k], ArgReg(k))'
      <3>1. ArgReg(k) # NoReg  BY <1>5, <2>1, ArgRegFacts, AllocConstants
      <3>2. PICK x \in Name : x = args[k]  BY <1>5, <2>1
      <3>3. RegHolds(x, regof[x])' /\ (alloc'[x].regable \/ MemHolds(x)')
        BY <1>5, <2>1, <2>2, <3>1, <3>2, ArrivedThere
      <3>4. RegHolds(x, ArgReg(k))' /\ (alloc'[x].regable \/ MemHolds(x)')
        BY <2>1, <2>2, <3>2, <3>3 DEF RegHolds, ArgReg
      <3> QED  BY <2>1, <3>2, <3>4 DEF Arrived, RegHolds, MemHolds
    <2>5. \A i \in 1 .. k : i = k \/ i \in 1 .. (k - 1)  BY <1>5, <2>1
    <2>6. \A i \in 1 .. (k - 1) : i # k  BY <1>5, <2>1
    <2>7. \A i \in 1 .. (k - 1) : i \in intact' \/ Exposed(i)'
      <3>1. \A i \in 1 .. (k - 1) : Exposed(i) => Exposed(i)'
        BY <2>1, <2>2 DEF Exposed, ArgReg, PartialReg
      <3> HIDE DEF Overwritten, Exposed, Arrived
      <3> QED  BY <1>3, <1>5, <2>1, <2>2, <2>6, <3>1
    <2>8. k \in intact'  BY <2>1, <2>4
    <2> QED  BY <2>1, <2>3, <2>5, <2>7, <2>8
  <1>7. CASE AcquireNarrow
    <2>1. step = "place" /\ step' = "load" /\ UNCHANGED <<args, tgt, k, intact>>
      BY <1>7 DEF AcquireNarrow
    <2>2. manual' = manual \cup {ArgReg(k)}  BY <1>1, <1>7, AcquireNarrowKeeps
    <2>3. PlacedArgs' = 1 .. (k - 1)  BY <2>1, Zenon DEF PlacedArgs
    <2>4. \A i \in 1 .. (k - 1) : i # k /\ i \in DOMAIN arg_regs  BY <1>5, <2>1
    <2>5. \A i \in 1 .. (k - 1) : ArgReg(i) # ArgReg(k)
      BY <1>5, <2>1, <2>4, ArgRegFacts, CallRegisters
    <2>6. \A i \in 1 .. (k - 1) : Exposed(i) => Exposed(i)'
      <3> SUFFICES ASSUME NEW i \in 1 .. (k - 1), Exposed(i) PROVE Exposed(i)'  OBVIOUS
      <3>1. ArgReg(i) \notin manual  BY DEF Exposed
      <3> QED  BY <2>1, <2>2, <2>5, <3>1, ExposedStays
    <2> QED  BY <1>3, <1>5, <2>1, <2>3, <2>6
  <1>8. CASE LoadNarrow
    <2>1. step = "load" /\ step' = "extend" /\ UNCHANGED <<args, tgt, k>> /\ intact' = intact \ Overwritten
      BY <1>8 DEF LoadNarrow
    <2>2. manual' = manual /\ Overwritten \subseteq {j \in intact : ArgReg(j) \notin manual}
      BY <1>1, <1>8, LoadNarrowKeeps
    <2>3. PlacedArgs' = 1 .. (k - 1)  BY <2>1, Zenon DEF PlacedArgs
    <2>4. ArgReg(k) \in manual  BY <1>1, <2>1 DEF Claims
    <2>5. \A i \in 1 .. (k - 1) : k \in (i + 1) .. Len(args)  BY <1>5, <2>1
    <2>6. \A i \in 1 .. (k - 1) : i \in Overwritten => Exposed(i)'
      BY <2>1, <2>2, <2>4, <2>5 DEF Exposed, ArgReg, PartialReg
    <2>7. \A i \in 1 .. (k - 1) : Exposed(i) => Exposed(i)'
      BY <2>1, <2>2 DEF Exposed, ArgReg, PartialReg
    <2> HIDE DEF Overwritten, Exposed
    <2> QED  BY <1>3, <1>5, <2>1, <2>3, <2>6, <2>7
  <1>9. CASE Extend
    <2>1. step = "extend" /\ step' = "free" /\ UNCHANGED <<args, tgt, k>>
          /\ intact' = intact \cup (IF Running' /\ Arrived(args[k], regof[args[k]])' THEN {k} ELSE {})
      BY <1>9 DEF Extend
    <2>2. UNCHANGED <<manual, alloc, regof>> /\ live \subseteq live'  BY <1>1, <1>9, ExtendKeeps
    <2>3. PlacedArgs' = 1 .. k  BY <2>1, Zenon DEF PlacedArgs
    <2>4. Arrived(args[k], regof[args[k]])'
      <3>1. regof[args[k]] # NoReg  BY <1>1, <1>2, <2>1 DEF Loaded, InReg
      <3>2. PICK x \in Name : x = args[k]  BY <1>5, <2>1
      <3>3. RegHolds(x, regof[x])' /\ (alloc'[x].regable \/ MemHolds(x)')
        BY <1>5, <2>1, <2>2, <3>1, <3>2, ArrivedThere
      <3> QED  BY <2>1, <3>2, <3>3 DEF Arrived, RegHolds, MemHolds
    <2>5. \A i \in 1 .. k : i = k \/ i \in 1 .. (k - 1)  BY <1>5, <2>1
    <2>6. \A i \in 1 .. (k - 1) : Exposed(i) => Exposed(i)'
      BY <2>1, <2>2 DEF Exposed, ArgReg, PartialReg
    <2>7. k \in intact' /\ intact \subseteq intact'  BY <2>1, <2>4
    <2>8. \A i \in 1 .. (k - 1) : i \in intact' \/ Exposed(i)'  BY <1>3, <1>5, <2>1, <2>6, <2>7
    <2>9. step' # "through"  BY <2>1
    <2>10. \A i \in 1 .. k : i \in intact' \/ Exposed(i)'
      <3> SUFFICES ASSUME NEW i \in 1 .. k PROVE i \in intact' \/ Exposed(i)'  OBVIOUS
      <3>1. CASE i = k  BY <2>7, <3>1
      <3>2. CASE i \in 1 .. (k - 1)  BY <2>8, <3>2
      <3> QED  BY <2>5, <3>1, <3>2
    <2> QED  BY <2>3, <2>9, <2>10
  <1>10. CASE Free
    <2>1. step = "free" /\ UNCHANGED <<args, tgt, intact>>  BY <1>10 DEF Free
    <2>2. manual' = manual  BY <1>1, <1>10, FreeKeeps
    <2>3. (step' = "place" /\ k' = k + 1) \/ (step' = "result" /\ k = Len(args))
      BY <1>5, <1>10, <2>1 DEF Free
    <2>4. step' = "place" => PlacedArgs' = 1 .. (k' - 1)  BY Zenon DEF PlacedArgs
    <2>5. step' = "result" => PlacedArgs' = 1 .. Len(args)  BY <2>1, Zenon DEF PlacedArgs
    <2>6. PlacedArgs' = 1 .. k  BY <1>5, <2>1, <2>3, <2>4, <2>5
    <2>7. \A i : Exposed(i) => Exposed(i)'  BY <2>1, <2>2 DEF Exposed, ArgReg, PartialReg
    <2> QED  BY <1>3, <1>5, <2>1, <2>3, <2>6, <2>7
  <1>11. CASE AcquireResult
    <2>1. step = "result" /\ step' = "call" /\ UNCHANGED <<args, tgt, k, intact>>
      BY <1>11 DEF AcquireResult
    <2>2. PICK r : FullReg(r) = ret_reg /\ manual' = manual \cup {r}
      BY <1>1, <1>11, AcquireResultKeeps
    <2>3. PlacedArgs' = 1 .. Len(args)  BY <2>1, Zenon DEF PlacedArgs
    <2>4. \A i \in 1 .. Len(args) : ArgReg(i) # r  BY <1>5, <2>1, <2>2, ArgRegFacts
    <2>5. \A i \in 1 .. Len(args) : Exposed(i) => Exposed(i)'
      <3> SUFFICES ASSUME NEW i \in 1 .. Len(args), Exposed(i) PROVE Exposed(i)'  OBVIOUS
      <3>1. ArgReg(i) \notin manual  BY DEF Exposed
      <3> QED  BY <2>1, <2>2, <2>4, <3>1, ExposedStays
    <2> QED  BY <1>3, <1>5, <2>1, <2>3, <2>5
  <1>12. CASE EvictForTarget
    <2>1. step = "call" /\ step' = "target" /\ UNCHANGED <<args, tgt, k, intact>>
      BY <1>12 DEF EvictForTarget
    <2>2. manual' = manual  BY <1>1, <1>12, EvictForTargetKeeps
    <2>3. PlacedArgs' = 1 .. Len(args)  BY <2>1, Zenon DEF PlacedArgs
    <2>4. \A i : Exposed(i) => Exposed(i)'  BY <2>1, <2>2 DEF Exposed, ArgReg, PartialReg
    <2> QED  BY <1>3, <1>5, <2>1, <2>3, <2>4
  <1>13. CASE LoadTarget
    <2>1. step = "target" /\ step' = "through" /\ UNCHANGED <<args, tgt, k>> /\ intact' = intact \ Overwritten
      BY <1>13 DEF LoadTarget
    <2>2. Overwritten = {} /\ UNCHANGED <<manual, live, alloc>>  BY <1>1, <1>13, LoadTargetKeeps
    <2>3. PlacedArgs' = 1 .. Len(args)  BY <2>1, Zenon DEF PlacedArgs
    <2>4. \A i : Exposed(i) => Exposed(i)'  BY <2>1, <2>2 DEF Exposed, ArgReg, PartialReg
    <2>5. RegHolds(tgt, regof[tgt])'
      <3>1. tgt \in Name /\ CallTarget(tgt) /\ tgt \in live
        BY <1>1, <2>1 DEF CallType, Loaded, ArgsReady, BeforeCall, CallSteps
      <3>2. PICK x \in Name : x = tgt  BY <3>1
      <3>3. Declared(x)  BY <3>1, <3>2 DEF CallTarget, Declared
      <3>4. regof'[x] # NoReg  BY <1>1, <2>1, <3>2 DEF Loaded, InReg
      <3>5. RegHolds(x, regof[x])'  BY <2>2, <3>1, <3>2, <3>3, <3>4, ArrivedThere
      <3> QED  BY <2>1, <3>2, <3>5 DEF RegHolds
    <2> QED  BY <1>3, <1>5, <2>1, <2>2, <2>3, <2>4, <2>5
  <1> QED
    BY <1>4, <1>6, <1>7, <1>8, <1>9, <1>10, <1>11, <1>12, <1>13 DEF CallNext

(* Every argument of a direct or indirect call gets to its register and is *)
(* there, with its value, when the call is emitted, and an indirect call   *)
(* goes to its target (setupArgs and compileIndirectCall, compile.go): the *)
(* only arguments this does not cover are pointer-sized ones whose         *)
(* register no directive holds while a narrower argument is loaded later.  *)
THEOREM ArgumentsArrive == CallSpec /\ []NoHighLocals => []ArgsArrive
  <1>1. CallInit => ArgsArrive
    <2> SUFFICES ASSUME CallInit PROVE ArgsArrive  OBVIOUS
    <2>1. step = "program"  BY DEF CallInit
    <2>2. PlacedArgs = {}  BY <2>1, Zenon DEF PlacedArgs
    <2> QED  BY <2>1, <2>2 DEF ArgsArrive
  <1>2. CallInv /\ CallInv' /\ Coherent' /\ ArgsArrive /\ [CallNext]_<<vars, callVars>> => ArgsArrive'
    <2> SUFFICES ASSUME CallInv, CallInv', Coherent', ArgsArrive, [CallNext]_<<vars, callVars>>
                 PROVE  ArgsArrive'
      OBVIOUS
    <2>1. CASE UNCHANGED <<vars, callVars>>
      <3>1. UNCHANGED <<args, tgt, step, k, intact, manual, regof, outcome, cell>>
        BY <2>1 DEF vars, callVars, tables, machine
      <3>2. PlacedArgs' = PlacedArgs  BY <3>1, Zenon DEF PlacedArgs
      <3>3. \A i : Exposed(i) => Exposed(i)'  BY <3>1 DEF Exposed, ArgReg, PartialReg
      <3> QED  BY <3>1, <3>2, <3>3 DEF ArgsArrive, Running, RegHolds
    <2> QED  BY <2>1, ArriveStep
  <1>3. CallSpec => Spec /\ []CallInv  BY CallInvariant
  <1> QED  BY <1>1, <1>2, <1>3, ValuesCorrect, PTL DEF CallSpec
=============================================================================
