------------------------------ MODULE RegAlloc ------------------------------
(***************************************************************************)
(* The register and stack-slot allocator of one function under assembly    *)
(* (Ralloc and Rallocs of function.go, driven by the directives of         *)
(* cmd/bas/main.go and by the operands of instructions).                   *)
(*                                                                         *)
(* The allocator decides where each named local lives and emits the moves  *)
(* that take it there.  The model keeps the allocator's own tables and,    *)
(* beside them, what the emitted code has left in the machine: `cell' and  *)
(* `mem' say, for every byte lane of a register and every byte of the      *)
(* frame, the local whose current value (or, for a memory-backed local,    *)
(* whose address) it holds.  What is left in a register that was evicted   *)
(* or forgotten is tracked only while an instruction's operands are being  *)
(* resolved; after that it counts as junk.                                 *)
(*                                                                         *)
(* A directive that bas refuses for what it asks (an undeclared name, a    *)
(* redeclaration, a volatile local or one of another width in a register)  *)
(* ends the assembly: its action is disabled.  The panics that depend on   *)
(* the state of the allocator are outcomes of the model.                   *)
(***************************************************************************)
EXTENDS Registers, Integers, FiniteSets

CONSTANTS
  Name,          \* names of locals
  None, Junk,    \* no local / a value that is no local's
  NoReg,         \* the location of a local that is in no register
  LocalSizes,    \* the sizes in bits that `local' and `argi' use
  ChunkBytes,    \* the sizes in bytes that `bytes' uses
  arg_regs,      \* argRegForSize: the full registers of arguments 0, 1, ...
  rbp,           \* the frame pointer
  MaxLocal,      \* bound: bytes of locals in the frame
  MaxStackArgs,  \* bound: arguments passed on the stack
  PartialOps,    \* whether the program uses operands `name:bits'
  MaxOperands,   \* bound: allocated operands of one instruction
  MaxManual      \* bound: registers held by use/acquire at once

ASSUME AllocConstants ==
  /\ None \notin Name /\ Junk \notin Name
  /\ NoReg \notin Register
  /\ LocalSizes \subseteq Sizes
  /\ \A s \in LocalSizes \ {8} : PartOfWidth(s) \in Wide
  /\ ChunkBytes \subseteq Nat \ {0}
  /\ rbp \in Full
  /\ \A f \in Full : \E i \in DOMAIN regs64 : regs64[i] = f
  /\ arg_regs \in Seq(Full \ {rbp})
  /\ PartialOps \in BOOLEAN
  /\ MaxLocal \in Nat /\ MaxStackArgs \in Nat
  /\ MaxOperands \in Nat \ {0} /\ MaxManual \in Nat

VARIABLES
  pool,       \* Registers: what the pool thinks is in use
  alloc,      \* names: the Ralloc of each declared name
  regof,      \* Ralloc.inreg and Ralloc.reg
  regs,       \* Rallocs.regs: the local in each register
  lru,        \* Rallocs.lru
  inmem,      \* Ralloc.inmem
  localoff, freeSpace,   \* the frame allocator
  manual,     \* registers held by a use or acquire directive
  phase,      \* "args" before prologue, "body", "calling" inside an indirect
              \* call, "done" after epilogue
  operands,   \* operands already resolved of the instruction in progress
  cell, mem,  \* what the emitted code left in registers and in the frame
  live,       \* locals that have been given a value
  outcome     \* "ok", or why the assembly stopped

tables  == <<alloc, regof, regs, lru, inmem>>
frame   == <<localoff, freeSpace>>
machine == <<cell, mem, live>>
vars == <<pool, tables, frame, manual, phase, operands, machine, outcome>>

-----------------------------------------------------------------------------
basePointerOff == 48    \* six pushes between the arguments and RBP

AllocType ==
  [size : Nat, regable : BOOLEAN, volatile : BOOLEAN, offset : Int]
Undeclared == [size |-> 0, regable |-> FALSE, volatile |-> FALSE, offset |-> 0]

Declared(x) == alloc[x].size # 0
DeclaredNames == {x \in Name : Declared(x)}
InReg(x) == regof[x] # NoReg
Held == {regof[x] : x \in {n \in Name : InReg(n)}}

(* RegSize of a local that is in no register.                              *)
NeedSize(x) == IF alloc[x].regable THEN alloc[x].size ELSE 64

(* Mutant of NoCache: the volatile flag is not consulted.                  *)
CacheAll(x) == Declared(x) /\ alloc[x].size = 0

(* A volatile scalar must never be cached in a register.                   *)
NoCache(x) == alloc[x].volatile /\ alloc[x].regable

Addr == (-MaxLocal .. -1) \cup
        (basePointerOff + 8 .. basePointerOff + 8 * MaxStackArgs + 7)
Slot(a) == a.offset .. (a.offset + (a.size \div 8) - 1)
AllLanes == Full \X Lane

(* What a register or a slot holds when it is read as a whole.             *)
RegHolds(x, r) == \A l \in Lanes(r) : cell[l] = x
MemHolds(x) == \A a \in Slot(alloc[x]) : mem[a] = x

-----------------------------------------------------------------------------
(* Mutants of the parts of an eviction: the register is not released, not  *)
(* deleted from regs, not removed from the LRU list, inmem is not set.     *)
NoRelease(V) == IF V = {} THEN pool ELSE pool
NoDelete(V) == IF V = {} THEN regs ELSE regs
NoRemoveLRU(V) == IF V = {} THEN lru ELSE lru
NoInmem(V) == IF V = {} THEN inmem ELSE inmem

(* The list compacted in place, without the registers of D.                *)
Without(seq, D) ==
  LET kept[i \in 0 .. Len(seq)] ==
        IF i = 0 THEN << >>
        ELSE IF seq[i] \in D THEN kept[i - 1] ELSE Append(kept[i - 1], seq[i])
  IN kept[Len(seq)]

(* Evicting the locals of V: the tables and the frame after it.  Every     *)
(* local of V that fits a register is stored into its slot.                *)
RegsOf(V) == {regof[v] : v \in V}
PoolAfter(V) == Release(pool, RegsOf(V))
RegofAfter(V) == [x \in Name |-> IF x \in V THEN NoReg ELSE regof[x]]
RegsAfter(V) == [r \in Register |-> IF r \in RegsOf(V) THEN None ELSE regs[r]]
LruAfter(V) == Without(lru, RegsOf(V))
InmemAfter(V) == inmem \cup {v \in V : alloc[v].regable}
MemAfter(V) ==
  [a \in Addr |->
     LET S == {v \in V : alloc[v].regable /\ a \in Slot(alloc[v])} IN
     IF S = {} THEN mem[a]
     ELSE LET v == CHOOSE s \in S : TRUE
          IN IF RegHolds(v, regof[v]) THEN v ELSE Junk]

CellAfter(V) ==
  [l \in AllLanes |-> IF \E v \in V : l \in Lanes(regof[v]) THEN Junk ELSE cell[l]]

Spilled(V) ==
  /\ pool' = PoolAfter(V) /\ regof' = RegofAfter(V) /\ regs' = RegsAfter(V)
  /\ lru' = LruAfter(V) /\ mem' = MemAfter(V) /\ cell' = CellAfter(V)

Evicted(V) == Spilled(V) /\ inmem' = InmemAfter(V)

(* Mutant of updateLRU: a register already in the list keeps its place.    *)
NoRefresh(seq, r) ==
  IF \E i \in DOMAIN seq : seq[i] = r THEN seq ELSE Append(seq, r)

updateLRU(seq, r) == Append(Without(seq, {r}), r)

(* The locals in the registers of R, as Rallocs.regs records them.         *)
Holders(R) == {x \in Name : InReg(x) /\ \E r \in R : regs[r] = x}
LruHolders == {x \in Name : InReg(x) /\ \E i \in DOMAIN lru : regs[lru[i]] = x}

(* Mutant of LruVictim: only strictly wider registers are evicted.         *)
StrictlyWider(size) ==
  {x \in Name : InReg(x) /\ \E i \in DOMAIN lru : Width(lru[i]) > size /\ regs[lru[i]] = x}

(* Rallocs.Evict(size): the first local of the LRU order wide enough.      *)
LruVictim(size) ==
  LET wide == {i \in DOMAIN lru : Width(lru[i]) >= size}
  IN {x \in Name : /\ InReg(x)
                   /\ \E i \in wide : /\ \A j \in wide : i <= j
                                      /\ regs[lru[i]] = x}

Running == outcome = "ok"
AtDeclaration == Running /\ operands = {} /\ phase \in {"args", "body"}
AtDirective == Running /\ operands = {} /\ phase = "body"

Panic(why) == outcome' = why /\
  UNCHANGED <<pool, tables, frame, manual, phase, operands, machine>>

-----------------------------------------------------------------------------
(* space / returnSpace: the offsets a new object of n bytes may be given.  *)
FreeEntries(n) == {e \in freeSpace : e.size = n}

(* Mutant of Space: a reused entry stays on the free list.                 *)
KeepEntry(n, off) ==
  \/ /\ \E e \in FreeEntries(n) : off = e.offset
     /\ UNCHANGED <<freeSpace, localoff>>
  \/ /\ FreeEntries(n) = {} /\ localoff + n <= MaxLocal
     /\ localoff' = localoff + n /\ off = -(localoff + n)
     /\ UNCHANGED freeSpace

Space(n, off) ==
  \/ /\ \E e \in FreeEntries(n) : off = e.offset /\ freeSpace' = freeSpace \ {e}
     /\ UNCHANGED localoff
  \/ /\ FreeEntries(n) = {}
     /\ localoff + n <= MaxLocal
     /\ localoff' = localoff + n /\ off = -(localoff + n)
     /\ UNCHANGED freeSpace

(* NewLocal                                                                *)
Local(x, size) ==
  /\ AtDeclaration /\ ~Declared(x)
  /\ \E off \in Addr :
       /\ Space(size \div 8, off)
       /\ alloc' = [alloc EXCEPT ![x] =
                      [size |-> size, regable |-> TRUE, volatile |-> FALSE, offset |-> off]]
  /\ inmem' = inmem \ {x}
  /\ UNCHANGED <<pool, regof, regs, lru, manual, phase, operands, machine, outcome>>

(* AllocBytes                                                              *)
Bytes(x, n) ==
  /\ AtDeclaration /\ ~Declared(x)
  /\ \E off \in Addr :
       /\ Space(n, off)
       /\ alloc' = [alloc EXCEPT ![x] =
                      [size |-> n * 8, regable |-> FALSE, volatile |-> FALSE, offset |-> off]]
  /\ inmem' = inmem \cup {x}
  /\ UNCHANGED <<pool, regof, regs, lru, manual, phase, operands, machine, outcome>>

(* Arg: argument i in the part of its register that has the argument's     *)
(* size.  The caller put the value there.  The compiler emits one argi per *)
(* parameter, before the prologue.                                         *)
Arg(x, i, size) ==
  LET r == PartialReg(arg_regs[i], size) IN
  /\ AtDeclaration /\ phase = "args" /\ ~Declared(x) /\ r \in Register
  /\ Conflicts(pool, PartialReg(arg_regs[i], 64)) = {}
  /\ \E off \in Addr :
       /\ Space(size \div 8, off)
       /\ alloc' = [alloc EXCEPT ![x] =
                      [size |-> size, regable |-> TRUE, volatile |-> FALSE, offset |-> off]]
  /\ inmem' = inmem \ {x}
  /\ regof' = [regof EXCEPT ![x] = r]
  /\ regs' = [regs EXCEPT ![r] = x]
  /\ lru' = updateLRU(lru, r)
  /\ pool' = Take(pool, r)
  /\ cell' = [l \in AllLanes |-> IF l \in Lanes(r) THEN x ELSE cell[l]]
  /\ live' = live \cup {x}
  /\ UNCHANGED <<mem, manual, phase, operands, outcome>>

(* StackArg: the k-th stack argument (counted from 0) lives where the      *)
(* caller pushed it.                                                       *)
StackArgOffset(k) == (k + 1) * 8 + basePointerOff

StackArg(x, k) ==
  LET a == [size |-> 64, regable |-> TRUE, volatile |-> FALSE, offset |-> StackArgOffset(k)] IN
  /\ AtDeclaration /\ phase = "args" /\ ~Declared(x)
  /\ localoff + 8 <= MaxLocal
  /\ \A y \in DeclaredNames : alloc[y].offset # a.offset
  /\ \A e \in freeSpace : e.offset # a.offset
  /\ alloc' = [alloc EXCEPT ![x] = a]
  /\ inmem' = inmem \cup {x}
  /\ localoff' = localoff + 8
  /\ mem' = [b \in Addr |-> IF b \in Slot(a) THEN x ELSE mem[b]]
  /\ live' = live \cup {x}
  /\ UNCHANGED <<pool, regof, regs, lru, freeSpace, manual, phase, operands, cell, outcome>>

(* Forget and ForgetAll: the registers and the slots of the names V go     *)
(* back to their pools.                                                    *)
ForgetNames(V) ==
  LET inregs == {v \in V : InReg(v)} IN
  /\ pool' = PoolAfter(inregs) /\ regof' = RegofAfter(inregs)
  /\ regs' = RegsAfter(inregs) /\ lru' = LruAfter(inregs)
  /\ alloc' = [x \in Name |-> IF x \in V THEN Undeclared ELSE alloc[x]]
  /\ inmem' = inmem \ V
  /\ freeSpace' = freeSpace \cup
       {[size |-> alloc[v].size \div 8, offset |-> alloc[v].offset] : v \in V}
  /\ cell' = [l \in AllLanes |-> IF cell[l] \in V THEN Junk ELSE cell[l]]
  /\ mem' = [a \in Addr |-> IF mem[a] \in V THEN Junk ELSE mem[a]]
  /\ live' = live \ V
  /\ UNCHANGED <<localoff, manual, phase, operands, outcome>>

Forget(x) == AtDeclaration /\ Declared(x) /\ ForgetNames({x})
ForgetAll == AtDeclaration /\ DeclaredNames # {} /\ ForgetNames(DeclaredNames)

-----------------------------------------------------------------------------
(* EvictReg, EvictAll (evict, label and every jump but a call).            *)
EvictReg(r) ==
  /\ AtDirective /\ Evicted(Holders(Conflicts(pool, r)))
  /\ UNCHANGED <<alloc, frame, manual, phase, operands, live, outcome>>

EvictAll ==
  /\ AtDirective /\ Evicted(LruHolders)
  /\ UNCHANGED <<alloc, frame, manual, phase, operands, live, outcome>>

(* VolatileLocal                                                           *)
Volatile(x) ==
  /\ AtDirective /\ Declared(x) /\ alloc[x].regable
  /\ Spilled(IF InReg(x) THEN {x} ELSE {})
  /\ alloc' = [alloc EXCEPT ![x].volatile = TRUE]
  /\ inmem' = inmem \cup {x}
  /\ UNCHANGED <<frame, manual, phase, operands, live, outcome>>

(* The registers a call may overwrite, and the frame it leaves alone.      *)
Clobbered == {l \in AllLanes : l[1] \in caller_saved}
(* Mutant of CallEvicts: a call saves nothing.                             *)
NoCallEvicts == {x \in Name : InReg(x) /\ ~InReg(x)}

CallEvicts ==
  Holders(UNION {Conflicts(pool, PartialReg(f, 64)) : f \in caller_saved})

(* Jump("CALL"): EvictForCall, then the callee runs.                       *)
Call ==
  LET V == CallEvicts IN
  /\ AtDirective
  /\ pool' = PoolAfter(V) /\ regof' = RegofAfter(V) /\ regs' = RegsAfter(V)
  /\ lru' = LruAfter(V) /\ mem' = MemAfter(V) /\ inmem' = InmemAfter(V)
  /\ cell' = [l \in AllLanes |-> IF l \in Clobbered THEN Junk ELSE CellAfter(V)[l]]
  /\ UNCHANGED <<alloc, frame, manual, phase, operands, live, outcome>>

(* use, acquire and release.  The directives come from the compiler, which *)
(* holds at most a few registers at once and releases a register it holds  *)
(* or one that no local is in.                                             *)
Use(r) ==
  /\ AtDirective /\ Cardinality(manual) < MaxManual /\ FullReg(r) # rbp
  /\ CanUse(pool, r)
  /\ pool' = Take(pool, r) /\ manual' = manual \cup {r}
  /\ UNCHANGED <<tables, frame, phase, operands, machine, outcome>>

Acquire(r) ==
  LET C == Conflicts(pool, r)
      V == Holders(C)
  IN
  /\ AtDirective /\ Cardinality(manual) < MaxManual /\ FullReg(r) # rbp
  /\ \/ /\ (\E c \in C : regs[c] = None) \/ ~CanUse(PoolAfter(V), r)
        /\ Panic("acquire failed")
     \/ /\ \A c \in C : regs[c] # None
        /\ CanUse(PoolAfter(V), r)
        /\ pool' = Take(PoolAfter(V), r)
        /\ manual' = manual \cup {r}
        /\ regof' = RegofAfter(V) /\ regs' = RegsAfter(V) /\ lru' = LruAfter(V)
        /\ inmem' = InmemAfter(V) /\ mem' = MemAfter(V) /\ cell' = CellAfter(V)
        /\ UNCHANGED <<alloc, frame, phase, operands, live, outcome>>

ReleaseReg(r) ==
  /\ AtDirective
  /\ r \in manual \/ Conflicts(pool, PartialReg(FullReg(r), 64)) = {}
  /\ pool' = Release(pool, {r}) /\ manual' = manual \ {r}
  /\ UNCHANGED <<tables, frame, phase, operands, machine, outcome>>

-----------------------------------------------------------------------------
(* Moving local x into register r once the locals of V are evicted.  The   *)
(* value comes from x's old register, or from its slot, or there is none   *)
(* yet.  `clear' says whether the full register is zeroed first.           *)
Place(x, r, V, clear) ==
  LET from == IF InReg(x) /\ x \notin V THEN {x} ELSE {}
      gone == V \cup from
      ok   == IF InReg(x) THEN RegHolds(x, regof[x])
                          ELSE ~alloc[x].regable \/ MemHolds(x)
      loads == InReg(x) \/ x \in inmem
      value == IF ok THEN x ELSE Junk
  IN
  /\ pool' = Release(Take(PoolAfter(V), r), RegsOf(from))
  /\ regof' = [RegofAfter(gone) EXCEPT ![x] = r]
  /\ regs' = [RegsAfter(gone) EXCEPT ![r] = x]
  /\ lru' = updateLRU(LruAfter(gone), r)
  /\ inmem' = InmemAfter(V)
  /\ mem' = MemAfter(V)
  /\ cell' = [l \in AllLanes |->
                CASE loads /\ l \in Lanes(r) -> value
                  [] loads /\ clear /\ l \notin Lanes(r) /\ l[1] = FullReg(r) -> Junk
                  [] OTHER -> IF operands = {} THEN CellAfter(gone)[l] ELSE cell[l]]
  /\ UNCHANGED <<alloc, frame, manual, phase, live>>

(* UseRegister, for `inreg x r' and the optional register of a             *)
(* declaration.  The compiler pins only to registers no use or acquire     *)
(* holds, and memory-backed locals to 64-bit ones.                         *)
UseRegister(x, r) ==
  LET V == Holders(Conflicts(pool, r)) IN
  /\ AtDirective /\ Declared(x) /\ FullReg(r) # rbp /\ regof[x] # r
  /\ \A m \in manual : ~Overlap(m, r)
  /\ ~NoCache(x)
  /\ Width(r) = IF alloc[x].regable THEN alloc[x].size ELSE 64
  /\ Place(x, r, V, FALSE)
  /\ UNCHANGED <<operands, outcome>>

(* An operand of the instruction in progress: the local, where the         *)
(* encoder was told it is (NoReg for its slot), whether it is written and  *)
(* whether it is `name:bits'.  An instruction names a local once (twice in *)
(* the same role is the same).                                             *)
Operand(x, loc, w) == [name |-> x, loc |-> loc, write |-> w, part |-> FALSE]
Partial(x, loc, w) == [name |-> x, loc |-> loc, write |-> w, part |-> TRUE]

AtOperand(x, w) ==
  /\ Running /\ phase = "body" /\ Declared(x)
  /\ Cardinality(operands) < MaxOperands
  /\ \A o \in operands : o.name # x /\ ~(w /\ o.write)

(* The target of an indirect call is a 64-bit scalar temporary.            *)
CallTarget(x) == alloc[x].size = 64 /\ alloc[x].regable /\ ~alloc[x].volatile
AtCallTarget(x) ==
  Running /\ phase = "calling" /\ operands = {} /\ CallTarget(x)

(* The panic of a load that finds no register, by what was asked for.      *)
LoadFailure(need) ==
  IF need = 8 THEN "failed to load byte register" ELSE "failed to load register"

(* Ralloc.Register(): an operand that must be in a register.               *)
RegOperand(x, w) ==
  LET need  == NeedSize(x)
      V     == LruVictim(need)
      clear == alloc[x].regable /\ need < 64
      load(r, evicted) == /\ Place(x, r, evicted, clear)
                          /\ operands' = operands \cup {Operand(x, r, w)}
                          /\ UNCHANGED outcome
  IN
  /\ AtOperand(x, w) \/ (AtCallTarget(x) /\ ~w)
  /\ ~NoCache(x)
  /\ \/ /\ InReg(x)
        /\ lru' = updateLRU(lru, regof[x])
        /\ operands' = operands \cup {Operand(x, regof[x], w)}
        /\ UNCHANGED <<pool, alloc, regof, regs, inmem, frame, manual, phase, machine, outcome>>
     \/ /\ ~InReg(x)
        /\ \E r \in Get(pool, need) : load(r, {})
     \/ /\ ~InReg(x) /\ Get(pool, need) = {} /\ V # {}
        /\ \E r \in Get(PoolAfter(V), need) : load(r, V)
     \/ /\ ~InReg(x) /\ Get(pool, need) = {}
        /\ V = {} \/ Get(PoolAfter(V), need) = {}
        /\ Panic(LoadFailure(need))

(* Ralloc.Indirect(): an operand that must be in memory: a volatile or     *)
(* memory-backed local, or the source of a LEA, which marks its slot.      *)
MemOperand(x, w) ==
  /\ AtOperand(x, w)
  /\ w => alloc[x].volatile \/ ~alloc[x].regable
  /\ Spilled(IF InReg(x) THEN {x} ELSE {})
  /\ inmem' = inmem \cup {x}
  /\ operands' = operands \cup {Operand(x, NoReg, w)}
  /\ UNCHANGED <<alloc, frame, manual, phase, live, outcome>>

(* RallocPartial.asOperand(): the low part of a local, where it is.        *)
PartialOperand(x, w) ==
  /\ PartialOps /\ AtOperand(x, w)
  /\ operands' = operands \cup {Partial(x, regof[x], w)}
  /\ inmem' = IF InReg(x) THEN inmem ELSE inmem \cup {x}
  /\ UNCHANGED <<pool, alloc, regof, regs, lru, frame, manual, phase, machine, outcome>>

(* IForm.Encode emits the instruction with the operands it resolved.       *)
(* Resolving one operand may have displaced another: the emitted code is   *)
(* wrong if that one is written, or is read and no longer holds its value. *)
Displaced ==
  {o \in operands :
     /\ o.loc # regof[o.name]
     /\ \/ o.write
        \/ /\ o.loc # NoReg /\ ~RegHolds(o.name, o.loc)
           /\ alloc[o.name].regable => o.name \in live}

Displacement ==
  IF \A o \in Displaced : o.part THEN "partial operand displaced" ELSE "operand displaced"

Emit ==
  /\ Running /\ phase = "body" /\ operands # {}
  /\ \/ Displaced # {} /\ Panic(Displacement)
     \/ /\ Displaced = {}
        /\ LET W == {o.name : o \in {p \in operands : p.write}}
               toReg == {x \in W : InReg(x) /\ alloc[x].regable}
           IN
           /\ cell' = [l \in AllLanes |->
                         LET T == {x \in Name : InReg(x) /\ l \in Lanes(regof[x])} IN
                         CASE T = {} -> Junk
                           [] T \cap toReg # {} -> CHOOSE x \in T \cap toReg : TRUE
                           [] OTHER -> cell[l]]
           /\ mem' = [a \in Addr |->
                        LET T == {x \in W \ toReg : a \in Slot(alloc[x])} IN
                        CASE T # {} -> CHOOSE x \in T : TRUE
                          [] T = {} /\ mem[a] \in W -> Junk
                          [] OTHER -> mem[a]]
           /\ live' = live \cup W
        /\ operands' = {}
        /\ UNCHANGED <<pool, tables, frame, manual, phase, outcome>>

(* CALL through a local: EvictForCall, then Instr("CALL", x), which loads  *)
(* x with RegOperand.  The code compiled for an indirect call forgets the  *)
(* target right after the call: its value is dead.                         *)
BeginCallThrough ==
  /\ AtDirective /\ \E x \in Name : CallTarget(x)
  /\ Evicted(CallEvicts) /\ phase' = "calling"
  /\ UNCHANGED <<alloc, frame, manual, operands, live, outcome>>

CallThrough ==
  /\ Running /\ phase = "calling" /\ operands # {}
  /\ cell' = [l \in AllLanes |-> IF l \in Clobbered THEN Junk ELSE cell[l]]
  /\ live' = live \ {o.name : o \in operands}
  /\ operands' = {} /\ phase' = "body"
  /\ UNCHANGED <<pool, tables, frame, manual, mem, outcome>>

-----------------------------------------------------------------------------
(* Prologue and Epilogue: RBP is in use between them (RSP likewise).       *)
Prologue ==
  /\ AtDeclaration /\ phase = "args"
  /\ pool' = IF CanUse(pool, PartialReg(rbp, 64)) THEN Take(pool, PartialReg(rbp, 64)) ELSE pool
  /\ phase' = "body"
  /\ UNCHANGED <<tables, frame, manual, operands, machine, outcome>>

Epilogue ==
  /\ AtDirective /\ manual = {}
  /\ pool' = Release(pool, {PartialReg(rbp, 64)})
  /\ phase' = "done"
  /\ UNCHANGED <<tables, frame, manual, operands, machine, outcome>>

Init ==
  /\ pool = NewRegisters
  /\ alloc = [x \in Name |-> Undeclared]
  /\ regof = [x \in Name |-> NoReg]
  /\ regs = [r \in Register |-> None]
  /\ lru = <<>> /\ inmem = {}
  /\ localoff = 0 /\ freeSpace = {}
  /\ manual = {} /\ phase = "args" /\ operands = {}
  /\ cell = [l \in AllLanes |-> Junk] /\ mem = [a \in Addr |-> Junk]
  /\ live = {} /\ outcome = "ok"

Declare ==
  \E x \in Name :
    \/ \E s \in LocalSizes : Local(x, s)
    \/ \E n \in ChunkBytes : Bytes(x, n)
    \/ \E i \in DOMAIN arg_regs, s \in LocalSizes : Arg(x, i, s)
    \/ \E k \in 0 .. (MaxStackArgs - 1) : StackArg(x, k)

Directive ==
  \/ ForgetAll \/ EvictAll \/ Call \/ Prologue \/ Epilogue
  \/ \E x \in Name : Forget(x) \/ Volatile(x)
  \/ \E r \in Register : EvictReg(r) \/ ReleaseReg(r)
  \/ \E x \in Name, r \in Register : UseRegister(x, r)

Instr ==
  \/ \E x \in Name, w \in BOOLEAN :
       RegOperand(x, w) \/ MemOperand(x, w) \/ PartialOperand(x, w)
  \/ Emit \/ BeginCallThrough \/ CallThrough

Claim == \E r \in Register : Use(r) \/ Acquire(r)

Next == Declare \/ Directive \/ Instr \/ Claim
Spec == Init /\ [][Next]_vars

-----------------------------------------------------------------------------
OperandType ==
  [name : Name, loc : Register \cup {NoReg}, write : BOOLEAN, part : BOOLEAN]
Outcomes ==
  {"ok", "acquire failed", "failed to load register", "failed to load byte register",
   "operand displaced", "partial operand displaced"}

(* Every table of the allocator, and the machine state, has its shape.     *)
TypeOK ==
  /\ pool \in PoolType
  /\ alloc \in [Name -> AllocType]
  /\ regof \in [Name -> Register \cup {NoReg}]
  /\ regs \in [Register -> Name \cup {None}]
  /\ inmem \subseteq Name /\ live \subseteq Name
  /\ localoff \in 0 .. MaxLocal
  /\ freeSpace \subseteq [size : Nat, offset : Int]
  /\ manual \subseteq Register
  /\ phase \in {"args", "body", "calling", "done"}
  /\ operands \subseteq OperandType
  /\ cell \in [AllLanes -> Name \cup {Junk}]
  /\ mem \in [Addr -> Name \cup {Junk}]
  /\ outcome \in Outcomes

(* Rallocs.regs and the location each Ralloc records say the same thing:   *)
(* every evict, forget, pin and load updates both (function.go).           *)
HoldersAgree ==
  \A x \in Name, r \in Register : regs[r] = x <=> regof[x] = r

(* The registers set aside: by directives, and RBP inside the function.    *)
Reserved == manual \cup (IF phase \in {"body", "calling"} THEN {PartialReg(rbp, 64)} ELSE {})

(* No two locals ever share a byte of a register, and no local is in a     *)
(* register that a use or acquire directive, or the frame, has reserved.   *)
NoOverlap ==
  /\ \A x, y \in Name : x # y /\ InReg(x) /\ InReg(y) => ~Overlap(regof[x], regof[y])
  /\ \A x \in Name, r \in Reserved : InReg(x) => ~Overlap(regof[x], r)

(* The pool's bookkeeping is exact: a register is in use, with the size it *)
(* was taken with, if and only if a local, a directive or the frame has    *)
(* it, and none of them share it.                                          *)
PoolExact == Exact(pool, Held \cup Reserved) /\ Held \cap Reserved = {}

(* The LRU list has every register that holds a local exactly once:        *)
(* Evict(size) and EvictAll dereference regs[lru[i]].                      *)
LruExact ==
  /\ {lru[i] : i \in DOMAIN lru} = Held
  /\ \A i, j \in DOMAIN lru : i # j => lru[i] # lru[j]

(* The value of a local that has one is where the allocator will look for  *)
(* it: in its register if it has one, otherwise in its slot.  The register *)
(* of a memory-backed local holds its address.                             *)
Coherent ==
  \A x \in DeclaredNames :
    IF alloc[x].regable
    THEN x \in live => IF InReg(x) THEN RegHolds(x, regof[x])
                                   ELSE x \in inmem /\ MemHolds(x)
    ELSE /\ InReg(x) => RegHolds(x, regof[x])
         /\ x \in live => MemHolds(x)

(* Slots of locals and free slots never overlap, and all lie in the part   *)
(* of the frame that Epilogue reserves (or are stack arguments).           *)
Slots == {[size |-> alloc[x].size \div 8, offset |-> alloc[x].offset, owner |-> x] : x \in DeclaredNames}
         \cup {[size |-> e.size, offset |-> e.offset, owner |-> None] : e \in freeSpace}
FrameSize(n) == ((n + 16) \div 16) * 16
SlotsDisjoint ==
  /\ \A s, t \in Slots : s # t =>
       s.offset + s.size <= t.offset \/ t.offset + t.size <= s.offset
  /\ \A s \in Slots : -FrameSize(localoff) <= s.offset

(* A volatile local is never cached in a register: a pointer to it sees    *)
(* every write.                                                            *)
VolatileInMemory == \A x \in DeclaredNames : alloc[x].volatile => ~InReg(x) /\ x \in inmem

(* The registers that an eviction for w bits cannot or should not take:    *)
(* those of narrower locals, those that directives hold and those of the   *)
(* operands resolved so far; and the full registers that serve w bits.     *)
Taken(w) == {r \in Held : Width(r) < w} \cup manual \cup
            ({o.loc : o \in {p \in operands : ~p.part}} \ {NoReg})
Candidates(w) ==
  LET order == IF w = 8 THEN regs8 ELSE regs64
  IN {order[i] : i \in DOMAIN order} \ {rbp}

(* There is room: whenever one more operand may be resolved, there are     *)
(* more registers for each width than are taken.                           *)
Roomy ==
  Cardinality(operands) < MaxOperands =>
    \A w \in LocalSizes \cup {64} : Cardinality(Taken(w)) < Cardinality(Candidates(w))

(* While there is room, resolving one operand of an instruction never      *)
(* displaces another that was resolved before it as a whole, whatever the  *)
(* widths of the two (Ralloc.Register refreshes the LRU order).            *)
OperandsStable == outcome # "operand displaced"

(* While there is room, the one eviction that Ralloc.Register attempts     *)
(* always leaves a register for an operand of more than a byte.            *)
AlwaysLoads == outcome # "failed to load register"

(* What the documentation says of a part of a local: the instruction uses  *)
(* the sub-register while the local is in a register, otherwise its slot.  *)
PartialsStable == outcome # "partial operand displaced"

(* What the documentation says of full registers: a variable is spilled    *)
(* and the new value loaded, a byte too.                                   *)
BytesLoad == outcome # "failed to load byte register"
=============================================================================
