----------------------- MODULE RegAlloc_values_proofs -----------------------
(***************************************************************************)
(* The frame of a function, the values of its locals and the operands of   *)
(* its instructions, for every bound and every register file.              *)
(*                                                                         *)
(* The frame: the slots of locals and the free slots never overlap and lie *)
(* in the frame that the epilogue reserves, and a volatile local is never  *)
(* in a register.  That slots are apart is not inductive: a new slot is    *)
(* cut below the lowest one, so every slot has to be above -localoff; and  *)
(* a stack argument is compared with the others by its offset alone, so    *)
(* whatever is above RBP has to be eight bytes wide and aligned, also when *)
(* the slot of a forgotten argument is handed out again.                   *)
(*                                                                         *)
(* The values: the value of a local is where the allocator will look for   *)
(* it, in every program that pins no local to a high byte.  Coherence      *)
(* leans on the tables (RegAlloc_proofs) and on the frame: an eviction     *)
(* stores into a slot that is no one else's, a load fills lanes that are   *)
(* no one else's.  Beyond that the tables have to be right about what was  *)
(* never given a value: a local that has one is declared, a memory-backed  *)
(* local is marked in memory, so is an operand the encoder was told to     *)
(* find there, and between EvictForCall and an indirect call no register   *)
(* the callee may overwrite holds a local but the target.                  *)
(*                                                                         *)
(* The operands, in a program that leaves room (Roomy): the registers of   *)
(* the whole operands resolved so far are the last of the LRU list, and    *)
(* when no register is free for a width, counting shows that the list has  *)
(* some other one that is wide enough; so the first such of the list, the  *)
(* victim of an eviction, is no operand.                                   *)
(***************************************************************************)
EXTENDS RegAlloc_proofs, FiniteSetTheorems

SlotLen(x) == alloc[x].size \div 8

Apart(o, n, p, m) == o + n <= p \/ p + m <= o

(* A slot below RBP is above the lowest one; any other is one of the       *)
(* caller's pushes.                                                        *)
Pushed(o, n) == n = 8 /\ \E k \in 0 .. (MaxStackArgs - 1) : o = StackArgOffset(k)
Below(o, n) == 0 <= localoff + o /\ o + n <= 0
InFrame(o, n) == n \in Nat \ {0} /\ o \in Int /\ (Below(o, n) \/ Pushed(o, n))

FrameInv ==
  /\ \A x \in DeclaredNames : InFrame(alloc[x].offset, SlotLen(x))
  /\ \A e \in freeSpace : InFrame(e.offset, e.size)
  /\ \A x, y \in DeclaredNames : x # y =>
       Apart(alloc[x].offset, SlotLen(x), alloc[y].offset, SlotLen(y))
  /\ \A x \in DeclaredNames, e \in freeSpace :
       Apart(alloc[x].offset, SlotLen(x), e.offset, e.size)
  /\ \A e, g \in freeSpace : e # g => Apart(e.offset, e.size, g.offset, g.size)

(* A volatile local is a scalar, is in no register and has its slot.       *)
VolatileInv ==
  \A x \in Name : alloc[x].volatile => alloc[x].regable /\ ~InReg(x) /\ x \in inmem

-----------------------------------------------------------------------------
(* A growing frame keeps its slots.                                        *)
LEMMA FrameGrows ==
  ASSUME localoff \in Nat, localoff' \in Nat, localoff <= localoff',
         NEW o, NEW n, InFrame(o, n)
  PROVE  InFrame(o, n)'
  <1>1. n \in Nat /\ o \in Int  BY DEF InFrame
  <1>2. Below(o, n) => Below(o, n)'
    <2>1. \A a, b \in Nat : a <= b /\ 0 <= a + o => 0 <= b + o  BY <1>1
    <2>2. Below(o, n) => 0 <= localoff' + o /\ o + n <= 0  BY <2>1, Zenon DEF Below
    <2> QED  BY <2>2 DEF Below
  <1>3. Pushed(o, n) => Pushed(o, n)'  BY DEF Pushed
  <1> QED  BY <1>2, <1>3 DEF InFrame

(* space: what is handed out is in the frame and apart from everything     *)
(* that is declared or stays free.                                         *)
LEMMA SpaceApart ==
  ASSUME TypeOK, FrameInv, NEW n \in Nat \ {0}, NEW off \in Int, Space(n, off)
  PROVE  /\ localoff' \in Nat /\ localoff <= localoff' /\ localoff \in Nat
         /\ freeSpace' \subseteq freeSpace
         /\ InFrame(off, n)'
         /\ \A x \in DeclaredNames : Apart(off, n, alloc[x].offset, SlotLen(x))
         /\ \A e \in freeSpace' : Apart(off, n, e.offset, e.size)
  <1>1. localoff \in Nat  BY DEF TypeOK
  <1>2. CASE \E e \in FreeEntries(n) : off = e.offset /\ freeSpace' = freeSpace \ {e} /\ localoff' = localoff
    <2>1. PICK e \in freeSpace : /\ e.size = n /\ off = e.offset
                                 /\ freeSpace' = freeSpace \ {e} /\ localoff' = localoff
      BY <1>2 DEF FreeEntries
    <2>2. InFrame(off, n)  BY <2>1 DEF FrameInv
    <2>3. InFrame(off, n)'  BY <1>1, <2>1, <2>2, FrameGrows
    <2>4. \A x \in DeclaredNames : Apart(alloc[x].offset, SlotLen(x), off, n)
      BY <2>1 DEF FrameInv
    <2>5. \A g \in freeSpace' : Apart(off, n, g.offset, g.size)
      BY <2>1 DEF FrameInv
    <2> QED  BY <1>1, <2>1, <2>3, <2>4, <2>5 DEF Apart
  <1>3. CASE localoff' = localoff + n /\ off = -(localoff + n) /\ freeSpace' = freeSpace
    <2>1. ASSUME NEW o, NEW m, InFrame(o, m) PROVE Apart(off, n, o, m)
      BY <1>1, <1>3, <2>1 DEF InFrame, Below, Pushed, Apart, StackArgOffset, basePointerOff
    <2>2. InFrame(off, n)'  BY <1>1, <1>3 DEF InFrame, Below
    <2> QED  BY <1>1, <1>3, <2>1, <2>2 DEF FrameInv
  <1> QED  BY <1>2, <1>3 DEF Space

(* local, bytes, argi: a new object takes the space it was given.          *)
LEMMA NewObject ==
  ASSUME TypeOK, FrameInv, NEW x \in Name, ~Declared(x), NEW n \in Nat \ {0},
         NEW off \in Int, Space(n, off), NEW a, a.offset = off, a.size \div 8 = n,
         alloc' = [alloc EXCEPT ![x] = a]
  PROVE  FrameInv'
  <1>1. /\ localoff' \in Nat /\ localoff <= localoff' /\ localoff \in Nat
        /\ freeSpace' \subseteq freeSpace
        /\ InFrame(off, n)'
        /\ \A y \in DeclaredNames : Apart(off, n, alloc[y].offset, SlotLen(y))
        /\ \A e \in freeSpace' : Apart(off, n, e.offset, e.size)
    BY SpaceApart
  <1>2. /\ alloc'[x] = a /\ \A y \in Name \ {x} : alloc'[y] = alloc[y]
    BY DEF TypeOK
  <1>3. \A y \in DeclaredNames' : y = x \/ (y # x /\ y \in DeclaredNames)
    BY <1>2 DEF DeclaredNames, Declared
  <1>4. /\ alloc'[x].offset = off /\ SlotLen(x)' = n
        /\ \A y \in DeclaredNames : alloc'[y].offset = alloc[y].offset /\ SlotLen(y)' = SlotLen(y)
    BY <1>2 DEF SlotLen, DeclaredNames
  <1> HIDE DEF SlotLen
  <1>5. \A y \in DeclaredNames' : InFrame(alloc[y].offset, SlotLen(y))'
    BY <1>1, <1>3, <1>4, FrameGrows DEF FrameInv
  <1>6. \A e \in freeSpace' : InFrame(e.offset, e.size)'
    BY <1>1, FrameGrows DEF FrameInv
  <1>7. \A y \in DeclaredNames : Apart(alloc[y].offset, SlotLen(y), off, n)
    BY <1>1 DEF Apart
  <1>8. \A y, z \in DeclaredNames' : y # z =>
          Apart(alloc'[y].offset, SlotLen(y)', alloc'[z].offset, SlotLen(z)')
    BY <1>1, <1>3, <1>4, <1>7 DEF FrameInv
  <1>9. \A y \in DeclaredNames', e \in freeSpace' :
          Apart(alloc'[y].offset, SlotLen(y)', e.offset, e.size)
    BY <1>1, <1>3, <1>4 DEF FrameInv
  <1>10. \A e, g \in freeSpace' : e # g => Apart(e.offset, e.size, g.offset, g.size)
    BY <1>1 DEF FrameInv
  <1> QED  BY <1>5, <1>6, <1>8, <1>9, <1>10 DEF FrameInv

(* Any other step leaves every slot where it is.                           *)
LEMMA SameSlots ==
  ASSUME FrameInv, UNCHANGED <<localoff, freeSpace>>,
         \A x \in Name : alloc'[x].size = alloc[x].size /\ alloc'[x].offset = alloc[x].offset
  PROVE  FrameInv'
  <1>1. DeclaredNames' = DeclaredNames  BY DEF DeclaredNames, Declared
  <1>2. \A x \in DeclaredNames : alloc'[x].offset = alloc[x].offset /\ SlotLen(x)' = SlotLen(x)
    BY DEF SlotLen, DeclaredNames
  <1>3. \A o, n : InFrame(o, n)' <=> InFrame(o, n)  BY DEF InFrame, Below, Pushed
  <1>4. \A x \in DeclaredNames' : InFrame(alloc[x].offset, SlotLen(x))'  BY <1>1, <1>2, <1>3 DEF FrameInv
  <1>5. \A e \in freeSpace' : InFrame(e.offset, e.size)'  BY <1>3 DEF FrameInv
  <1>6. \A x, y \in DeclaredNames' : x # y =>
          Apart(alloc'[x].offset, SlotLen(x)', alloc'[y].offset, SlotLen(y)')
    BY <1>1, <1>2 DEF FrameInv
  <1>7. \A x \in DeclaredNames', e \in freeSpace' :
          Apart(alloc'[x].offset, SlotLen(x)', e.offset, e.size)
    BY <1>1, <1>2 DEF FrameInv
  <1>8. \A e, g \in freeSpace' : e # g => Apart(e.offset, e.size, g.offset, g.size)
    BY DEF FrameInv
  <1> QED  BY <1>4, <1>5, <1>6, <1>7, <1>8 DEF FrameInv

(* The sizes of objects are whole bytes.                                   *)
LEMMA WholeBytes ==
  /\ \A s \in LocalSizes : s \div 8 \in Nat \ {0}
  /\ \A n \in ChunkBytes : n \in Nat \ {0} /\ (n * 8) \div 8 = n
  <1>1. \A s \in Sizes : s \div 8 \in Nat \ {0}  BY DEF Sizes
  <1> QED  BY <1>1, AllocConstants

LEMMA DeclareFrame ==
  ASSUME TypeOK, FrameInv, NEW x \in Name
  PROVE  /\ \A s \in LocalSizes : Local(x, s) => FrameInv'
         /\ \A n \in ChunkBytes : Bytes(x, n) => FrameInv'
         /\ \A i \in DOMAIN arg_regs, s \in LocalSizes : Arg(x, i, s) => FrameInv'
  <1>1. ASSUME NEW s \in LocalSizes, NEW off \in Addr, Space(s \div 8, off), ~Declared(x),
               alloc' = [alloc EXCEPT ![x] =
                           [size |-> s, regable |-> TRUE, volatile |-> FALSE, offset |-> off]]
        PROVE  FrameInv'
    BY <1>1, AddrInt, WholeBytes, NewObject
  <1>2. ASSUME NEW n \in ChunkBytes, NEW off \in Addr, Space(n, off), ~Declared(x),
               alloc' = [alloc EXCEPT ![x] =
                           [size |-> n * 8, regable |-> FALSE, volatile |-> FALSE, offset |-> off]]
        PROVE  FrameInv'
    BY <1>2, AddrInt, WholeBytes, NewObject
  <1>3. ASSUME NEW s \in LocalSizes, Local(x, s) PROVE FrameInv'
    BY <1>1, <1>3 DEF Local
  <1>4. ASSUME NEW n \in ChunkBytes, Bytes(x, n) PROVE FrameInv'
    BY <1>2, <1>4 DEF Bytes
  <1>5. ASSUME NEW i \in DOMAIN arg_regs, NEW s \in LocalSizes, Arg(x, i, s) PROVE FrameInv'
    BY <1>1, <1>5 DEF Arg
  <1> QED  BY <1>3, <1>4, <1>5

(* argi of an argument on the stack: eight bytes the caller pushed.        *)
LEMMA StackArgFrame ==
  ASSUME TypeOK, FrameInv, NEW x \in Name, NEW k \in 0 .. (MaxStackArgs - 1), StackArg(x, k)
  PROVE  FrameInv'
  <1> DEFINE a == [size |-> 64, regable |-> TRUE, volatile |-> FALSE, offset |-> StackArgOffset(k)]
             off == StackArgOffset(k)
  <1>1. /\ localoff \in Nat /\ localoff' \in Nat /\ localoff <= localoff' /\ freeSpace' = freeSpace
    BY DEF TypeOK, StackArg
  <1>2. k \in Nat /\ off \in Int  BY AllocConstants DEF StackArgOffset, basePointerOff
  <1>3. /\ alloc' = [alloc EXCEPT ![x] = a] /\ ~Declared(x)
        /\ \A y \in DeclaredNames : alloc[y].offset # off
        /\ \A e \in freeSpace : e.offset # off
    BY DEF StackArg
  <1>4. a.offset = off /\ a.size \div 8 = 8  OBVIOUS
  <1> HIDE DEF a
  <1>5. /\ alloc'[x] = a /\ \A y \in Name \ {x} : alloc'[y] = alloc[y]
    BY <1>3 DEF TypeOK
  <1>6. \A y \in DeclaredNames' : y = x \/ (y # x /\ y \in DeclaredNames)
    BY <1>5 DEF DeclaredNames, Declared
  <1>7. /\ alloc'[x].offset = off /\ SlotLen(x)' = 8
        /\ \A y \in DeclaredNames : alloc'[y].offset = alloc[y].offset /\ SlotLen(y)' = SlotLen(y)
    <2>1. x \notin DeclaredNames  BY <1>3 DEF DeclaredNames
    <2> QED  BY <1>4, <1>5, <2>1 DEF SlotLen, DeclaredNames
  <1>8. ASSUME NEW o, NEW n, InFrame(o, n), o # off PROVE Apart(off, 8, o, n) /\ Apart(o, n, off, 8)
    <2>1. CASE Below(o, n)
      BY <1>1, <1>2, <1>8, <2>1 DEF InFrame, Below, Apart, StackArgOffset, basePointerOff
    <2>2. CASE Pushed(o, n)
      <3>1. PICK j \in 0 .. (MaxStackArgs - 1) : o = StackArgOffset(j)  BY <2>2 DEF Pushed
      <3> QED  BY <1>2, <1>8, <2>2, <3>1 DEF Pushed, Apart, StackArgOffset, basePointerOff
    <2> QED  BY <1>8, <2>1, <2>2 DEF InFrame
  <1>9. InFrame(off, 8)'  BY <1>2 DEF InFrame, Pushed
  <1> HIDE DEF off
  <1>10. \A y \in DeclaredNames' : InFrame(alloc[y].offset, SlotLen(y))'
    BY <1>1, <1>6, <1>7, <1>9, FrameGrows DEF FrameInv
  <1>11. \A e \in freeSpace' : InFrame(e.offset, e.size)'
    BY <1>1, FrameGrows DEF FrameInv
  <1>12. \A y, z \in DeclaredNames' : y # z =>
           Apart(alloc'[y].offset, SlotLen(y)', alloc'[z].offset, SlotLen(z)')
    BY <1>3, <1>6, <1>7, <1>8 DEF FrameInv
  <1>13. \A y \in DeclaredNames', e \in freeSpace' :
           Apart(alloc'[y].offset, SlotLen(y)', e.offset, e.size)
    BY <1>1, <1>3, <1>6, <1>7, <1>8 DEF FrameInv
  <1> QED  BY <1>1, <1>10, <1>11, <1>12, <1>13 DEF FrameInv

(* forget, forgetall: a slot changes from a local's to a free one.         *)
LEMMA ForgetFrame ==
  ASSUME TypeOK, FrameInv, NEW V \in SUBSET DeclaredNames, ForgetNames(V)
  PROVE  FrameInv'
  <1> DEFINE entry(v) == [size |-> SlotLen(v), offset |-> alloc[v].offset]
  <1>1. /\ localoff' = localoff
        /\ freeSpace' = freeSpace \cup {entry(v) : v \in V}
        /\ alloc' = [x \in Name |-> IF x \in V THEN Undeclared ELSE alloc[x]]
    BY DEF ForgetNames, SlotLen
  <1>2. \A y \in DeclaredNames' : y \in DeclaredNames /\ y \notin V /\ alloc'[y] = alloc[y]
    BY <1>1 DEF DeclaredNames, Declared, Undeclared
  <1>3. \A y \in DeclaredNames' :
          y \in DeclaredNames /\ y \notin V /\ alloc'[y].offset = alloc[y].offset /\ SlotLen(y)' = SlotLen(y)
    BY <1>2 DEF SlotLen
  <1>4. \A v \in V : entry(v).size = SlotLen(v) /\ entry(v).offset = alloc[v].offset  OBVIOUS
  <1>5. \A e \in freeSpace' : e \in freeSpace \/ \E v \in V : e = entry(v)  BY <1>1
  <1>6. \A o, n : InFrame(o, n)' <=> InFrame(o, n)  BY <1>1 DEF InFrame, Below, Pushed
  <1> HIDE DEF entry
  <1>7. \A y \in DeclaredNames' : InFrame(alloc[y].offset, SlotLen(y))'
    BY <1>3, <1>6 DEF FrameInv
  <1>8. \A e \in freeSpace' : InFrame(e.offset, e.size)'
    BY <1>4, <1>5, <1>6 DEF FrameInv
  <1>9. \A x, y \in DeclaredNames' : x # y =>
          Apart(alloc'[x].offset, SlotLen(x)', alloc'[y].offset, SlotLen(y)')
    BY <1>3 DEF FrameInv
  <1>10. \A x \in DeclaredNames', e \in freeSpace' :
          Apart(alloc'[x].offset, SlotLen(x)', e.offset, e.size)
    BY <1>3, <1>4, <1>5 DEF FrameInv
  <1>11. ASSUME NEW e \in freeSpace', NEW g \in freeSpace', e # g
         PROVE  Apart(e.offset, e.size, g.offset, g.size)
    <2>1. CASE e \in freeSpace /\ g \in freeSpace  BY <1>11, <2>1 DEF FrameInv
    <2>2. ASSUME NEW v \in V, e = entry(v), g \in freeSpace PROVE Apart(e.offset, e.size, g.offset, g.size)
      BY <1>4, <2>2 DEF FrameInv
    <2>3. ASSUME NEW v \in V, g = entry(v), e \in freeSpace PROVE Apart(e.offset, e.size, g.offset, g.size)
      BY <1>4, <2>3 DEF FrameInv, Apart
    <2>4. ASSUME NEW v \in V, NEW w \in V, e = entry(v), g = entry(w)
          PROVE  Apart(e.offset, e.size, g.offset, g.size)
      <3>1. v # w  BY <1>11, <2>4
      <3> QED  BY <1>4, <2>4, <3>1 DEF FrameInv
    <2> QED  BY <1>5, <1>11, <2>1, <2>2, <2>3, <2>4
  <1> QED  BY <1>7, <1>8, <1>9, <1>10, <1>11 DEF FrameInv

(* A panic changes nothing but the outcome.                                *)
LEMMA PanicChanges ==
  ASSUME NEW why, Panic(why)
  PROVE  UNCHANGED <<pool, alloc, regof, regs, lru, inmem, localoff, freeSpace, manual, phase,
                     operands, cell, mem, live>>
  BY DEF Panic, tables, frame, machine

(* The steps that leave every object where it is.                          *)
LEMMA FrameAlone ==
  ASSUME \/ EvictAll \/ Call \/ Prologue \/ Epilogue
         \/ \E r \in Register : EvictReg(r) \/ ReleaseReg(r) \/ Use(r) \/ Acquire(r)
         \/ \E x \in Name, r \in Register : UseRegister(x, r)
         \/ Instr \/ UNCHANGED vars
  PROVE  UNCHANGED <<alloc, localoff, freeSpace>>
  <1>1. CASE EvictAll \/ Call \/ Prologue \/ Epilogue \/ UNCHANGED vars
    BY <1>1 DEF EvictAll, Call, Prologue, Epilogue, vars, tables, frame
  <1>2. ASSUME NEW r \in Register, EvictReg(r) \/ ReleaseReg(r) \/ Use(r)
        PROVE  UNCHANGED <<alloc, localoff, freeSpace>>
    BY <1>2 DEF EvictReg, ReleaseReg, Use, tables, frame
  <1>3. ASSUME NEW r \in Register, Acquire(r) PROVE UNCHANGED <<alloc, localoff, freeSpace>>
    BY <1>3, PanicChanges DEF Acquire, frame
  <1>4. ASSUME NEW x, NEW r, NEW V, NEW c, Place(x, r, V, c)
        PROVE  UNCHANGED <<alloc, localoff, freeSpace>>
    BY <1>4 DEF Place, frame
  <1>5. ASSUME NEW x \in Name, NEW r \in Register, UseRegister(x, r)
        PROVE  UNCHANGED <<alloc, localoff, freeSpace>>
    BY <1>4, <1>5, Zenon DEF UseRegister
  <1>6. ASSUME NEW x \in Name, NEW w \in BOOLEAN, RegOperand(x, w)
        PROVE  UNCHANGED <<alloc, localoff, freeSpace>>
    <2>1. CASE \E r, V, c : Place(x, r, V, c)  BY <1>4, <2>1
    <2>2. CASE Panic(LoadFailure(NeedSize(x)))  BY <2>2, PanicChanges
    <2>3. CASE UNCHANGED <<alloc, frame>>  BY <2>3 DEF frame
    <2> QED  BY <1>6, <2>1, <2>2, <2>3, Zenon DEF RegOperand
  <1>7. ASSUME NEW x \in Name, NEW w \in BOOLEAN, MemOperand(x, w) \/ PartialOperand(x, w)
        PROVE  UNCHANGED <<alloc, localoff, freeSpace>>
    BY <1>7 DEF MemOperand, PartialOperand, frame
  <1>8. CASE Emit
    <2>1. Panic(Displacement) \/ UNCHANGED <<tables, frame>>  BY <1>8 DEF Emit
    <2> QED  BY <2>1, PanicChanges DEF tables, frame
  <1>9. CASE BeginCallThrough \/ CallThrough
    BY <1>9 DEF BeginCallThrough, CallThrough, tables, frame
  <1> QED  BY <1>1, <1>2, <1>3, <1>5, <1>6, <1>7, <1>8, <1>9 DEF Instr

LEMMA VolatileSlot ==
  ASSUME TypeOK, NEW x \in Name, Volatile(x)
  PROVE  /\ UNCHANGED <<localoff, freeSpace>>
         /\ \A y \in Name : /\ alloc'[y].size = alloc[y].size /\ alloc'[y].offset = alloc[y].offset
                            /\ alloc'[y].regable = alloc[y].regable
                            /\ y # x => alloc'[y] = alloc[y]
  <1> DEFINE v == [alloc[x] EXCEPT !.volatile = TRUE]
  <1>1. alloc \in [Name -> AllocType] /\ alloc[x] \in AllocType  BY DEF TypeOK
  <1>2. v.size = alloc[x].size /\ v.offset = alloc[x].offset /\ v.regable = alloc[x].regable
    BY <1>1 DEF AllocType
  <1>3. alloc' = [alloc EXCEPT ![x] = v] /\ UNCHANGED <<localoff, freeSpace>>
    BY DEF Volatile, frame
  <1> HIDE DEF v
  <1> QED  BY <1>1, <1>2, <1>3

LEMMA NextFrame == AllocInv /\ FrameInv /\ [Next]_vars => FrameInv'
  <1> SUFFICES ASSUME AllocInv, FrameInv, [Next]_vars PROVE FrameInv'  OBVIOUS
  <1>1. TypeOK  BY InvFacts
  <1>2. CASE UNCHANGED <<alloc, localoff, freeSpace>>  BY <1>2, SameSlots
  <1>3. CASE Declare  BY <1>1, <1>3, DeclareFrame, StackArgFrame DEF Declare
  <1>4. ASSUME NEW x \in Name, Volatile(x) PROVE FrameInv'
    BY <1>1, <1>4, VolatileSlot, SameSlots
  <1>5. ASSUME NEW x \in Name, Forget(x) PROVE FrameInv'
    <2>1. {x} \in SUBSET DeclaredNames  BY <1>5 DEF Forget, DeclaredNames
    <2> QED  BY <1>1, <1>5, <2>1, ForgetFrame DEF Forget
  <1>6. CASE ForgetAll  BY <1>1, <1>6, ForgetFrame DEF ForgetAll
  <1> QED  BY <1>2, <1>3, <1>4, <1>5, <1>6, FrameAlone, Zenon DEF Next, Directive, Claim

-----------------------------------------------------------------------------
LEMMA StaysVolatile ==
  ASSUME VolatileInv, UNCHANGED alloc, inmem \subseteq inmem',
         \A y \in Name : InReg(y)' => InReg(y) \/ ~NoCache(y)
  PROVE  VolatileInv'
  BY DEF VolatileInv, NoCache

LEMMA SpillsIn ==
  /\ \A V : inmem \subseteq InmemAfter(V)
  /\ \A V, y : y \in Name /\ RegofAfter(V)[y] # NoReg => InReg(y)
  BY DEF InmemAfter, RegofAfter, InReg

LEMMA PlaceVolatile ==
  ASSUME VolatileInv, NEW x \in Name, NEW r, NEW V, NEW c, Place(x, r, V, c), ~NoCache(x)
  PROVE  VolatileInv'
  <1>1. alloc' = alloc /\ inmem \subseteq inmem'  BY SpillsIn DEF Place
  <1>2. \E G : regof' = [RegofAfter(G) EXCEPT ![x] = r]  BY DEF Place
  <1>3. \A y \in Name : InReg(y)' => InReg(y) \/ y = x  BY <1>2, SpillsIn DEF InReg, RegofAfter
  <1> QED  BY <1>1, <1>3, StaysVolatile

LEMMA NextVolatile == AllocInv /\ VolatileInv /\ [Next]_vars => VolatileInv'
  <1> SUFFICES ASSUME AllocInv, VolatileInv, [Next]_vars PROVE VolatileInv'  OBVIOUS
  <1>1. TypeOK /\ RegDeclared  BY DEF AllocInv
  <1>2. CASE UNCHANGED <<alloc, regof>> /\ inmem \subseteq inmem'
    BY <1>2, StaysVolatile DEF InReg
  <1>3. ASSUME NEW V, regof' = RegofAfter(V), inmem \subseteq inmem', UNCHANGED alloc
        PROVE  VolatileInv'
    BY <1>3, SpillsIn, StaysVolatile DEF InReg
  <1>4. CASE Declare
    <2>1. ASSUME NEW x \in Name, NEW a, alloc' = [alloc EXCEPT ![x] = a], a.volatile = FALSE,
                 \A y \in Name \ {x} : y \in inmem => y \in inmem',
                 \A y \in Name \ {x} : regof'[y] = regof[y]
          PROVE  VolatileInv'
      BY <1>1, <2>1 DEF VolatileInv, TypeOK, InReg
    <2>2. ASSUME NEW x \in Name, NEW s \in LocalSizes, Local(x, s) PROVE VolatileInv'
      <3>1. PICK off : alloc' = [alloc EXCEPT ![x] = [size |-> s, regable |-> TRUE, volatile |-> FALSE, offset |-> off]]
        BY <2>2 DEF Local
      <3> DEFINE a == [size |-> s, regable |-> TRUE, volatile |-> FALSE, offset |-> off]
      <3>2. a.volatile = FALSE  OBVIOUS
      <3>3. \A y \in Name \ {x} : (y \in inmem => y \in inmem') /\ regof'[y] = regof[y]
        BY <2>2 DEF Local
      <3> HIDE DEF a
      <3> QED  BY <2>1, <3>1, <3>2, <3>3 DEF a
    <2>3. ASSUME NEW x \in Name, NEW n \in ChunkBytes, Bytes(x, n) PROVE VolatileInv'
      <3>1. PICK off : alloc' = [alloc EXCEPT ![x] = [size |-> n * 8, regable |-> FALSE, volatile |-> FALSE, offset |-> off]]
        BY <2>3 DEF Bytes
      <3> DEFINE a == [size |-> n * 8, regable |-> FALSE, volatile |-> FALSE, offset |-> off]
      <3>2. a.volatile = FALSE  OBVIOUS
      <3>3. \A y \in Name \ {x} : (y \in inmem => y \in inmem') /\ regof'[y] = regof[y]
        BY <2>3 DEF Bytes
      <3> HIDE DEF a
      <3> QED  BY <2>1, <3>1, <3>2, <3>3 DEF a
    <2>4. ASSUME NEW x \in Name, NEW i \in DOMAIN arg_regs, NEW s \in LocalSizes, Arg(x, i, s)
          PROVE  VolatileInv'
      <3>1. PICK off : alloc' = [alloc EXCEPT ![x] = [size |-> s, regable |-> TRUE, volatile |-> FALSE, offset |-> off]]
        BY <2>4 DEF Arg
      <3> DEFINE a == [size |-> s, regable |-> TRUE, volatile |-> FALSE, offset |-> off]
      <3>2. a.volatile = FALSE  OBVIOUS
      <3>3. \A y \in Name \ {x} : (y \in inmem => y \in inmem') /\ regof'[y] = regof[y]
        BY <1>1, <2>4 DEF Arg, TypeOK
      <3> HIDE DEF a
      <3> QED  BY <2>1, <3>1, <3>2, <3>3 DEF a
    <2>5. ASSUME NEW x \in Name, NEW k \in 0 .. (MaxStackArgs - 1), StackArg(x, k) PROVE VolatileInv'
      <3> DEFINE a == [size |-> 64, regable |-> TRUE, volatile |-> FALSE, offset |-> StackArgOffset(k)]
      <3>1. alloc' = [alloc EXCEPT ![x] = a]  BY <2>5 DEF StackArg
      <3>2. a.volatile = FALSE  OBVIOUS
      <3>3. \A y \in Name \ {x} : (y \in inmem => y \in inmem') /\ regof'[y] = regof[y]
        BY <2>5 DEF StackArg
      <3> HIDE DEF a
      <3> QED  BY <2>1, <3>1, <3>2, <3>3
    <2> QED  BY <1>4, <2>2, <2>3, <2>4, <2>5 DEF Declare
  <1>5. ASSUME NEW V \in SUBSET Name, ForgetNames(V) PROVE VolatileInv'
    <2>1. /\ alloc' = [x \in Name |-> IF x \in V THEN Undeclared ELSE alloc[x]]
          /\ inmem' = inmem \ V /\ \E G : regof' = RegofAfter(G)
      BY <1>5 DEF ForgetNames
    <2>2. \A y \in Name : InReg(y)' => InReg(y)  BY <2>1, SpillsIn DEF InReg
    <2>3. Undeclared.volatile = FALSE  BY DEF Undeclared
    <2> QED  BY <2>1, <2>2, <2>3 DEF VolatileInv
  <1>6. ASSUME NEW x \in Name, Volatile(x) PROVE VolatileInv'
    <2>1. /\ alloc[x].regable /\ inmem' = inmem \cup {x}
          /\ regof' = RegofAfter(IF InReg(x) THEN {x} ELSE {})
      BY <1>6 DEF Volatile, Spilled
    <2>2. \A y \in Name : InReg(y)' => InReg(y) /\ y # x  BY <2>1 DEF RegofAfter, InReg
    <2> QED  BY <1>1, <1>6, <2>1, <2>2, VolatileSlot DEF VolatileInv
  <1>7. ASSUME NEW V, Evicted(V), UNCHANGED alloc PROVE VolatileInv'
    BY <1>3, <1>7, SpillsIn DEF Evicted, Spilled
  <1>8. CASE EvictAll \/ BeginCallThrough  BY <1>7, <1>8 DEF EvictAll, BeginCallThrough
  <1>9. CASE Call  BY <1>3, <1>9, SpillsIn DEF Call
  <1>10. ASSUME NEW r \in Register, EvictReg(r) PROVE VolatileInv'  BY <1>7, <1>10 DEF EvictReg
  <1>11. ASSUME NEW r \in Register, Acquire(r) PROVE VolatileInv'
    <2>1. CASE Panic("acquire failed")  BY <1>2, <2>1, PanicChanges
    <2>2. CASE ~Panic("acquire failed")
      <3>1. \E V : regof' = RegofAfter(V) /\ inmem' = InmemAfter(V) /\ UNCHANGED alloc
        BY <1>11, <2>2 DEF Acquire
      <3> QED  BY <1>3, <3>1, SpillsIn
    <2> QED  BY <2>1, <2>2
  <1>12. ASSUME NEW x \in Name, NEW r \in Register, UseRegister(x, r) PROVE VolatileInv'
    BY <1>12, PlaceVolatile, Zenon DEF UseRegister
  <1>13. ASSUME NEW x \in Name, NEW w \in BOOLEAN, RegOperand(x, w) PROVE VolatileInv'
    <2>1. CASE \E r, V, c : Place(x, r, V, c)
      <3>1. ~NoCache(x)  BY <1>13, Zenon DEF RegOperand
      <3> QED  BY <2>1, <3>1, PlaceVolatile
    <2>2. CASE Panic(LoadFailure(NeedSize(x)))  BY <1>2, <2>2, PanicChanges
    <2>3. CASE UNCHANGED <<alloc, regof, inmem>>  BY <1>2, <2>3
    <2> QED  BY <1>13, <2>1, <2>2, <2>3, Zenon DEF RegOperand
  <1>14. ASSUME NEW x \in Name, NEW w \in BOOLEAN, MemOperand(x, w) PROVE VolatileInv'
    BY <1>3, <1>14 DEF MemOperand, Spilled
  <1>15. ASSUME NEW x \in Name, NEW w \in BOOLEAN, PartialOperand(x, w) PROVE VolatileInv'
    BY <1>2, <1>15 DEF PartialOperand
  <1>16. CASE Emit
    <2>1. Panic(Displacement) \/ UNCHANGED tables  BY <1>16 DEF Emit
    <2> QED  BY <1>2, <2>1, PanicChanges DEF tables
  <1>17. CASE CallThrough \/ Prologue \/ Epilogue \/ UNCHANGED vars
    BY <1>2, <1>17 DEF CallThrough, Prologue, Epilogue, vars, tables
  <1>18. ASSUME NEW r \in Register, Use(r) \/ ReleaseReg(r) PROVE VolatileInv'
    BY <1>2, <1>18 DEF Use, ReleaseReg, tables
  <1>19. CASE ForgetAll
    <2>1. DeclaredNames \in SUBSET Name  BY DEF DeclaredNames
    <2> QED  BY <1>5, <1>19, <2>1 DEF ForgetAll
  <1>20. ASSUME NEW x \in Name, Forget(x) PROVE VolatileInv'
    <2>1. {x} \in SUBSET Name  OBVIOUS
    <2> QED  BY <1>5, <1>20, <2>1 DEF Forget
  <1>21. CASE Directive
    BY <1>6, <1>8, <1>9, <1>10, <1>12, <1>17, <1>18, <1>19, <1>20, <1>21 DEF Directive
  <1>22. CASE Instr  BY <1>8, <1>13, <1>14, <1>15, <1>16, <1>17, <1>22 DEF Instr
  <1>23. CASE Claim  BY <1>11, <1>18, <1>23 DEF Claim
  <1> QED  BY <1>4, <1>17, <1>21, <1>22, <1>23 DEF Next

-----------------------------------------------------------------------------
LEMMA InitFrame == Init => FrameInv /\ VolatileInv
  <1> SUFFICES ASSUME Init PROVE FrameInv /\ VolatileInv  OBVIOUS
  <1>1. \A x \in Name : alloc[x] = Undeclared  BY DEF Init
  <1>2. Undeclared.size = 0 /\ Undeclared.volatile = FALSE  BY DEF Undeclared
  <1>3. DeclaredNames = {}  BY <1>1, <1>2 DEF DeclaredNames, Declared
  <1>4. freeSpace = {}  BY DEF Init
  <1>5. FrameInv  BY <1>3, <1>4 DEF FrameInv
  <1>6. VolatileInv  BY <1>1, <1>2 DEF VolatileInv
  <1> QED  BY <1>5, <1>6

LEMMA FrameRounded == \A n \in Nat : FrameSize(n) \in Int /\ n <= FrameSize(n)
  BY DEF FrameSize

(* The inductive invariant gives the property.                             *)
LEMMA FrameDisjoint == TypeOK /\ FrameInv => SlotsDisjoint
  <1> SUFFICES ASSUME TypeOK, FrameInv PROVE SlotsDisjoint  OBVIOUS
  <1> DEFINE own(x) == [size |-> alloc[x].size \div 8, offset |-> alloc[x].offset, owner |-> x]
             free(e) == [size |-> e.size, offset |-> e.offset, owner |-> None]
  <1>1. \A x : own(x).size = SlotLen(x) /\ own(x).offset = alloc[x].offset  BY DEF SlotLen
  <1>2. \A e : free(e).size = e.size /\ free(e).offset = e.offset  OBVIOUS
  <1>3. \A s \in Slots : (\E x \in DeclaredNames : s = own(x)) \/ (\E e \in freeSpace : s = free(e))
    BY DEF Slots
  <1> HIDE DEF own, free
  <1>4. localoff \in Nat  BY DEF TypeOK
  <1>5. ASSUME NEW o, NEW n, InFrame(o, n) PROVE -FrameSize(localoff) <= o
    <2>1. o \in Int /\ n \in Nat  BY <1>5 DEF InFrame
    <2>2. 0 <= localoff + o
      BY <1>4, <1>5, <2>1 DEF InFrame, Below, Pushed, StackArgOffset, basePointerOff
    <2> QED  BY <1>4, <2>1, <2>2, FrameRounded
  <1>6. \A s \in Slots : -FrameSize(localoff) <= s.offset
    <2>1. ASSUME NEW s \in Slots PROVE -FrameSize(localoff) <= s.offset
      <3>1. InFrame(s.offset, s.size)  BY <1>1, <1>2, <1>3 DEF FrameInv
      <3> QED  BY <1>5, <3>1
    <2> QED  BY <2>1
  <1>7. ASSUME NEW s \in Slots, NEW t \in Slots, s # t
        PROVE  Apart(s.offset, s.size, t.offset, t.size)
    <2>1. ASSUME NEW x \in DeclaredNames, NEW y \in DeclaredNames, s = own(x), t = own(y)
          PROVE  Apart(s.offset, s.size, t.offset, t.size)
      <3>1. x # y  BY <1>7, <2>1
      <3> QED  BY <1>1, <2>1, <3>1 DEF FrameInv
    <2>2. ASSUME NEW x \in DeclaredNames, NEW e \in freeSpace, s = own(x), t = free(e)
          PROVE  Apart(s.offset, s.size, t.offset, t.size)
      BY <1>1, <1>2, <2>2 DEF FrameInv
    <2>3. ASSUME NEW x \in DeclaredNames, NEW e \in freeSpace, t = own(x), s = free(e)
          PROVE  Apart(s.offset, s.size, t.offset, t.size)
      BY <1>1, <1>2, <2>3 DEF FrameInv, Apart
    <2>4. ASSUME NEW e \in freeSpace, NEW g \in freeSpace, s = free(e), t = free(g)
          PROVE  Apart(s.offset, s.size, t.offset, t.size)
      <3>1. e # g  BY <1>7, <2>4
      <3> QED  BY <1>2, <2>4, <3>1 DEF FrameInv
    <2> QED  BY <1>3, <2>1, <2>2, <2>3, <2>4
  <1> QED  BY <1>6, <1>7 DEF SlotsDisjoint, Apart

(* The slots of locals and the free slots never overlap and lie in the     *)
(* frame the epilogue reserves, through any sequence of declarations,      *)
(* stack arguments and forgets (space, returnSpace and StackArg of         *)
(* function.go).                                                           *)
THEOREM SlotsCorrect == Spec => []SlotsDisjoint
  <1>1. Spec => []AllocInv  BY Invariance
  <1>2. Init => FrameInv  BY InitFrame
  <1>3. AllocInv /\ FrameInv /\ [Next]_vars => FrameInv'  BY NextFrame
  <1>4. AllocInv /\ FrameInv => SlotsDisjoint  BY InvFacts, FrameDisjoint
  <1> QED  BY <1>1, <1>2, <1>3, <1>4, PTL DEF Spec

(* A local marked volatile is never cached in a register again and has its *)
(* slot: UseRegister refuses it and Register and Indirect leave it in      *)
(* memory (function.go).                                                   *)
THEOREM VolatileCorrect == Spec => []VolatileInMemory
  <1>1. Spec => []AllocInv  BY Invariance
  <1>2. Init => VolatileInv  BY InitFrame
  <1>3. AllocInv /\ VolatileInv /\ [Next]_vars => VolatileInv'  BY NextVolatile
  <1>4. VolatileInv => VolatileInMemory  BY DEF VolatileInv, VolatileInMemory, DeclaredNames
  <1> QED  BY <1>1, <1>2, <1>3, <1>4, PTL DEF Spec

-----------------------------------------------------------------------------
(* The values of the locals.                                               *)
(* A load of a narrow scalar clears its whole register (Ralloc.Register),  *)
(* which a local in the second byte of that register would not survive.    *)
(* The compiler hands out and pins low bytes only.                         *)
NoHighLocals == \A x \in Name : InReg(x) => regof[x][2] # "hi"

OperandsKnown ==
  \A o \in operands : Declared(o.name) /\ (o.loc = NoReg => o.name \in inmem)

CallingRegs ==
  phase = "calling" =>
    /\ \A o \in operands : alloc[o.name].regable
    /\ \A x \in Name : InReg(x) /\ FullReg(regof[x]) \in caller_saved => \E o \in operands : o.name = x

LiveDeclared == live \subseteq DeclaredNames
ChunksInMem == \A x \in DeclaredNames : ~alloc[x].regable => x \in inmem

TablesInv == LiveDeclared /\ ChunksInMem /\ OperandsKnown /\ CallingRegs

(* Coherence of one local, taken apart.                                    *)
RegGood(x) == InReg(x) /\ (alloc[x].regable => x \in live) => RegHolds(x, regof[x])
MemGood(x) == x \in live /\ ~(alloc[x].regable /\ InReg(x)) => MemHolds(x)
MarkGood(x) == alloc[x].regable /\ x \in live /\ ~InReg(x) => x \in inmem
Good(x) == RegGood(x) /\ MemGood(x) /\ MarkGood(x)

AllGood == \A x \in DeclaredNames : Good(x)

(* What the other modules prove, and the hypothesis on programs.           *)
FullInv == AllocInv /\ FrameInv /\ NoOverlap /\ NoHighLocals

-----------------------------------------------------------------------------
LEMMA GoodCoherent == AllGood => Coherent
  BY DEF AllGood, Coherent, Good, RegGood, MemGood, MarkGood

(* The bytes of different locals are different, and all in the frame.      *)
LEMMA SlotFacts ==
  ASSUME TypeOK, FrameInv
  PROVE  /\ \A x \in DeclaredNames : Slot(alloc[x]) \subseteq Addr
         /\ \A x, y \in DeclaredNames : x # y => Slot(alloc[x]) \cap Slot(alloc[y]) = {}
  <1>1. localoff \in Nat /\ localoff <= MaxLocal /\ MaxLocal \in Nat /\ MaxStackArgs \in Nat
    BY AllocConstants DEF TypeOK
  <1>2. \A x \in DeclaredNames : Slot(alloc[x]) = alloc[x].offset .. (alloc[x].offset + SlotLen(x) - 1)
    BY DEF Slot, SlotLen
  <1>3. ASSUME NEW o, NEW n, InFrame(o, n) PROVE o .. (o + n - 1) \subseteq Addr
    <2>1. o \in Int /\ n \in Nat  BY <1>3 DEF InFrame
    <2>2. CASE Below(o, n)
      BY <1>1, <2>1, <2>2 DEF Below, Addr, basePointerOff
    <2>3. CASE Pushed(o, n)
      <3>1. PICK k \in 0 .. (MaxStackArgs - 1) : o = (k + 1) * 8 + 48
        BY <2>3 DEF Pushed, StackArgOffset, basePointerOff
      <3>2. n = 8  BY <2>3 DEF Pushed
      <3> QED  BY <1>1, <2>1, <3>1, <3>2 DEF Addr, basePointerOff
    <2> QED  BY <1>3, <2>2, <2>3 DEF InFrame
  <1>4. ASSUME NEW o \in Int, NEW n \in Nat, NEW p \in Int, NEW m \in Nat, Apart(o, n, p, m)
        PROVE  (o .. (o + n - 1)) \cap (p .. (p + m - 1)) = {}
    BY <1>4 DEF Apart
  <1>5. \A x \in DeclaredNames : /\ InFrame(alloc[x].offset, SlotLen(x))
                                 /\ alloc[x].offset \in Int /\ SlotLen(x) \in Nat
    BY DEF FrameInv, InFrame
  <1> QED  BY <1>2, <1>3, <1>4, <1>5 DEF FrameInv

SlotsApart ==
  /\ \A x \in DeclaredNames : Slot(alloc[x]) \subseteq Addr
  /\ \A x, y \in DeclaredNames : x # y => Slot(alloc[x]) \cap Slot(alloc[y]) = {}

LEMMA FrameSlots == TypeOK /\ FrameInv => SlotsApart
  BY SlotFacts DEF SlotsApart

LEMMA LaneFacts ==
  /\ \A r \in Register : Lanes(r) \subseteq AllLanes
  /\ \A r \in Register : \A l \in Lanes(r) : l[1] = FullReg(r)
  <1>1. ASSUME NEW r \in Register PROVE FullReg(r) \in Full /\ LanesOfPart[r[2]] \subseteq Lane
    <2>1. FullReg(r) \in Full /\ r[2] \in {"r64", "r32", "r16", "lo", "hi"}  BY RegisterShape
    <2> QED  BY <2>1 DEF LanesOfPart, Lane
  <1> QED  BY <1>1 DEF Lanes, AllLanes

(* Registers that are no high bytes and share a full register share a byte. *)
LEMMA LowShares ==
  ASSUME NEW r \in Register, NEW q \in Register, r[2] # "hi", q[2] # "hi",
         FullReg(r) = FullReg(q)
  PROVE  Overlap(r, q)
  <1>1. /\ r = <<r[1], r[2]>> /\ q = <<q[1], q[2]>>  BY RegisterShape
  <1>2. IsByte(r) /\ IsByte(q) => r = q  BY <1>1 DEF IsByte, FullReg
  <1> QED  BY <1>2, OverlapShape

(* What a spill leaves in memory: the locals it stores, and every other    *)
(* value that was there.                                                   *)
LEMMA SpillMem ==
  ASSUME TypeOK, FrameInv, RegDeclared, NEW V \in SUBSET InRegNames
  PROVE  /\ \A v \in V : alloc[v].regable /\ RegHolds(v, regof[v]) =>
              \A a \in Slot(alloc[v]) : MemAfter(V)[a] = v
         /\ \A x \in DeclaredNames : ~(x \in V /\ alloc[x].regable) /\ MemHolds(x) =>
              \A a \in Slot(alloc[x]) : MemAfter(V)[a] = x
  <1> DEFINE S(a) == {v \in V : alloc[v].regable /\ a \in Slot(alloc[v])}
             at(a) == IF S(a) = {} THEN mem[a]
                      ELSE LET v == CHOOSE s \in S(a) : TRUE
                           IN IF RegHolds(v, regof[v]) THEN v ELSE Junk
  <1>1. \A a \in Addr : MemAfter(V)[a] = at(a)  BY DEF MemAfter
  <1>2. V \subseteq DeclaredNames  BY DEF InRegNames, RegDeclared, DeclaredNames
  <1>3. ASSUME NEW v \in V, alloc[v].regable, RegHolds(v, regof[v]), NEW a \in Slot(alloc[v])
        PROVE  MemAfter(V)[a] = v
    <2>1. a \in Addr  BY <1>2, SlotFacts
    <2>2. S(a) = {v}  BY <1>2, <1>3, SlotFacts
    <2>3. at(a) = v  BY <1>3, <2>2
    <2> QED  BY <1>1, <2>1, <2>3
  <1>4. ASSUME NEW x \in DeclaredNames, ~(x \in V /\ alloc[x].regable), MemHolds(x),
               NEW a \in Slot(alloc[x])
        PROVE  MemAfter(V)[a] = x
    <2>1. a \in Addr  BY SlotFacts
    <2>2. S(a) = {}  BY <1>2, <1>4, SlotFacts
    <2>3. at(a) = x  BY <1>4, <2>2 DEF MemHolds
    <2> QED  BY <1>1, <2>1, <2>3
  <1> QED  BY <1>3, <1>4

(* Evicting V leaves the lanes of every other local alone.                 *)
LEMMA SpillCell ==
  ASSUME TypeOK, NoOverlap, NEW V \in SUBSET InRegNames, NEW x \in InRegNames \ V,
         NEW l \in Lanes(regof[x])
  PROVE  /\ l \in AllLanes
         /\ CellAfter(V)[l] = cell[l]
         /\ \A v \in V : l \notin Lanes(regof[v])
  <1>1. regof[x] \in Register  BY DEF InRegNames, InReg, TypeOK
  <1>2. l \in AllLanes  BY <1>1, LaneFacts
  <1>3. ASSUME NEW v \in V PROVE l \notin Lanes(regof[v])
    <2>1. ~Overlap(regof[x], regof[v])  BY DEF NoOverlap, InRegNames
    <2> QED  BY <2>1 DEF Overlap
  <1> QED  BY <1>2, <1>3 DEF CellAfter
-----------------------------------------------------------------------------
(* Nothing is in progress and no call is: the operands say nothing.        *)
LEMMA Idle ==
  ASSUME operands' = {}, phase' # "calling"
  PROVE  OperandsKnown' /\ CallingRegs'
  BY DEF OperandsKnown, CallingRegs

(* Every object keeps its kind, nothing gains a value or loses its mark.   *)
LEMMA QuietTables ==
  ASSUME TablesInv, live' \subseteq live, inmem \subseteq inmem',
         \A x \in Name : alloc'[x].size = alloc[x].size /\ alloc'[x].regable = alloc[x].regable
  PROVE  LiveDeclared' /\ ChunksInMem'
  <1>1. DeclaredNames' = DeclaredNames  BY DEF DeclaredNames, Declared
  <1>2. \A x \in DeclaredNames : alloc'[x].regable = alloc[x].regable  BY DEF DeclaredNames
  <1> QED  BY <1>1, <1>2 DEF TablesInv, LiveDeclared, ChunksInMem

(* A new object.                                                           *)
LEMMA NewTables ==
  ASSUME TypeOK, TablesInv, NEW x \in Name, NEW a, alloc' = [alloc EXCEPT ![x] = a], a.size # 0,
         live' \subseteq live \cup {x}, \A y \in Name \ {x} : y \in inmem => y \in inmem',
         a.regable \/ x \in inmem'
  PROVE  LiveDeclared' /\ ChunksInMem'
  <1>1. alloc'[x] = a /\ \A y \in Name \ {x} : alloc'[y] = alloc[y]  BY DEF TypeOK
  <1>2. DeclaredNames' = DeclaredNames \cup {x}  BY <1>1 DEF DeclaredNames, Declared
  <1>3. \A y \in DeclaredNames : y \in Name  BY DEF DeclaredNames
  <1> QED  BY <1>1, <1>2, <1>3 DEF TablesInv, LiveDeclared, ChunksInMem

LEMMA SizesPositive ==
  /\ \A s \in LocalSizes : s # 0
  /\ \A n \in ChunkBytes : n * 8 # 0
  BY AllocConstants DEF Sizes

(* local, bytes, argi: what the declaration writes.                        *)
LEMMA DeclareShape ==
  ASSUME TypeOK, Declare
  PROVE  /\ operands = {} /\ operands' = {} /\ phase' = phase /\ phase \in {"args", "body"}
         /\ \E x \in Name, a \in AllocType :
              /\ ~Declared(x) /\ alloc' = [alloc EXCEPT ![x] = a] /\ a.size # 0
              /\ live' \subseteq live \cup {x}
              /\ \A y \in Name \ {x} : y \in inmem => y \in inmem'
              /\ a.regable \/ x \in inmem'
              /\ \/ UNCHANGED <<regof, cell, mem, live>>
                 \/ /\ a.regable /\ UNCHANGED mem
                    /\ \E r \in Register :
                         /\ regof' = [regof EXCEPT ![x] = r]
                         /\ cell' = [l \in AllLanes |-> IF l \in Lanes(r) THEN x ELSE cell[l]]
                 \/ /\ a.regable /\ x \in inmem' /\ UNCHANGED <<regof, cell>>
                    /\ mem' = [b \in Addr |-> IF b \in Slot(a) THEN x ELSE mem[b]]
  <1> DEFINE P(x, a) ==
              /\ ~Declared(x) /\ alloc' = [alloc EXCEPT ![x] = a] /\ a.size # 0
              /\ live' \subseteq live \cup {x}
              /\ \A y \in Name \ {x} : y \in inmem => y \in inmem'
              /\ a.regable \/ x \in inmem'
              /\ \/ UNCHANGED <<regof, cell, mem, live>>
                 \/ /\ a.regable /\ UNCHANGED mem
                    /\ \E r \in Register :
                         /\ regof' = [regof EXCEPT ![x] = r]
                         /\ cell' = [l \in AllLanes |-> IF l \in Lanes(r) THEN x ELSE cell[l]]
                 \/ /\ a.regable /\ x \in inmem' /\ UNCHANGED <<regof, cell>>
                    /\ mem' = [b \in Addr |-> IF b \in Slot(a) THEN x ELSE mem[b]]
             Q == operands = {} /\ operands' = {} /\ phase' = phase /\ phase \in {"args", "body"}
  <1>1. ASSUME NEW x \in Name, NEW s \in LocalSizes, Local(x, s)
        PROVE  Q /\ \E a \in AllocType : P(x, a)
    <2>1. PICK off \in Addr : alloc' = [alloc EXCEPT ![x] = [size |-> s, regable |-> TRUE, volatile |-> FALSE, offset |-> off]]
      BY <1>1 DEF Local
    <2> DEFINE a == [size |-> s, regable |-> TRUE, volatile |-> FALSE, offset |-> off]
    <2>2. a.size # 0 /\ a.regable /\ a \in AllocType
      BY SizesPositive, AddrInt, AllocConstants DEF AllocType, Sizes
    <2>3. alloc' = [alloc EXCEPT ![x] = a]  BY <2>1
    <2> HIDE DEF a
    <2>4. P(x, a)  BY <1>1, <2>2, <2>3 DEF Local, machine
    <2> QED  BY <1>1, <2>2, <2>4 DEF Local, AtDeclaration
  <1>2. ASSUME NEW x \in Name, NEW n \in ChunkBytes, Bytes(x, n)
        PROVE  Q /\ \E a \in AllocType : P(x, a)
    <2>1. PICK off \in Addr : alloc' = [alloc EXCEPT ![x] = [size |-> n * 8, regable |-> FALSE, volatile |-> FALSE, offset |-> off]]
      BY <1>2 DEF Bytes
    <2> DEFINE a == [size |-> n * 8, regable |-> FALSE, volatile |-> FALSE, offset |-> off]
    <2>2. a.size # 0 /\ a \in AllocType
      BY SizesPositive, AddrInt, AllocConstants DEF AllocType
    <2>3. alloc' = [alloc EXCEPT ![x] = a]  BY <2>1
    <2> HIDE DEF a
    <2>4. P(x, a)  BY <1>2, <2>2, <2>3 DEF Bytes, machine
    <2> QED  BY <1>2, <2>2, <2>4 DEF Bytes, AtDeclaration
  <1>3. ASSUME NEW x \in Name, NEW i \in DOMAIN arg_regs, NEW s \in LocalSizes, Arg(x, i, s)
        PROVE  Q /\ \E a \in AllocType : P(x, a)
    <2>1. PICK off \in Addr : alloc' = [alloc EXCEPT ![x] = [size |-> s, regable |-> TRUE, volatile |-> FALSE, offset |-> off]]
      BY <1>3 DEF Arg
    <2> DEFINE a == [size |-> s, regable |-> TRUE, volatile |-> FALSE, offset |-> off]
               r == PartialReg(arg_regs[i], s)
    <2>2. a.size # 0 /\ a.regable /\ a \in AllocType
      BY SizesPositive, AddrInt, AllocConstants DEF AllocType, Sizes
    <2>3. alloc' = [alloc EXCEPT ![x] = a]  BY <2>1
    <2>4. /\ r \in Register /\ regof' = [regof EXCEPT ![x] = r]
          /\ cell' = [l \in AllLanes |-> IF l \in Lanes(r) THEN x ELSE cell[l]]
          /\ mem' = mem /\ ~Declared(x) /\ live' = live \cup {x} /\ inmem' = inmem \ {x}
      BY <1>3 DEF Arg
    <2> HIDE DEF a, r
    <2>5. P(x, a)  BY <2>2, <2>3, <2>4
    <2> QED  BY <1>3, <2>2, <2>5 DEF Arg, AtDeclaration
  <1>4. ASSUME NEW x \in Name, NEW k \in 0 .. (MaxStackArgs - 1), StackArg(x, k)
        PROVE  Q /\ \E a \in AllocType : P(x, a)
    <2> DEFINE a == [size |-> 64, regable |-> TRUE, volatile |-> FALSE, offset |-> StackArgOffset(k)]
    <2>1. a.size # 0 /\ a.regable /\ a \in AllocType
      BY AllocConstants DEF AllocType, StackArgOffset, basePointerOff
    <2>2. /\ alloc' = [alloc EXCEPT ![x] = a] /\ ~Declared(x) /\ inmem' = inmem \cup {x}
          /\ mem' = [b \in Addr |-> IF b \in Slot(a) THEN x ELSE mem[b]]
          /\ live' = live \cup {x} /\ UNCHANGED <<regof, cell>>
      BY <1>4 DEF StackArg
    <2> HIDE DEF a
    <2>3. P(x, a)  BY <2>1, <2>2
    <2> QED  BY <1>4, <2>1, <2>3 DEF StackArg, AtDeclaration
  <1> QED  BY <1>1, <1>2, <1>3, <1>4 DEF Declare
(* forget, forgetall                                                       *)
LEMMA ForgetTables ==
  ASSUME TablesInv, NEW V \in SUBSET Name, ForgetNames(V), operands = {}, phase # "calling"
  PROVE  TablesInv'
  <1>1. /\ alloc' = [x \in Name |-> IF x \in V THEN Undeclared ELSE alloc[x]]
        /\ inmem' = inmem \ V /\ live' = live \ V /\ operands' = {} /\ phase' = phase
    BY DEF ForgetNames
  <1>2. DeclaredNames' = DeclaredNames \ V
    BY <1>1 DEF DeclaredNames, Declared, Undeclared
  <1>3. \A y \in DeclaredNames' : alloc'[y] = alloc[y] /\ y \in DeclaredNames
    BY <1>1, <1>2 DEF DeclaredNames
  <1>4. LiveDeclared' /\ ChunksInMem'
    BY <1>1, <1>2, <1>3 DEF TablesInv, LiveDeclared, ChunksInMem
  <1> QED  BY <1>1, <1>4, Idle DEF TablesInv

(* EvictForCall empties every register a call may overwrite.               *)
LEMMA CallCovers ==
  ASSUME AllocInv, NEW x \in InRegNames, FullReg(regof[x]) \in caller_saved
  PROVE  x \in CallEvicts
  <1> DEFINE O == Held \cup Reserved
             r == regof[x]
             f == FullReg(r)
  <1>1. TypeOK /\ HoldersAgree /\ PoolExact  BY InvFacts
  <1>2. /\ pool \in PoolType /\ O \in SUBSET Register /\ Exact(pool, O) /\ r \in O
        /\ x \in Name /\ InReg(x) /\ r \in Register
    BY <1>1, HeldFacts DEF PoolExact, TypeOK, InRegNames
  <1> HIDE DEF O, r
  <1>3. /\ f \in Full /\ pool.size[f] \in Sizes
        /\ pool.size[f] = 8 => r \in pool.bytes
        /\ pool.size[f] # 8 => r = PartialReg(f, pool.size[f])
    BY <1>2, ExactOn
  <1>4. FullReg(PartialReg(f, 64)) = f /\ ~IsByte(PartialReg(f, 64))
    BY DEF PartialReg, PartOfWidth, FullReg, IsByte
  <1>5. r \in pool.bytes => r \in SubRegisters8(f)
    BY <1>2 DEF PoolType, SubRegisters8
  <1>6. pool.size[f] # 0  BY <1>3 DEF Sizes
  <1>7. r \in Conflicts(pool, PartialReg(f, 64))
    BY <1>3, <1>4, <1>5, <1>6 DEF Conflicts
  <1>8. r \in UNION {Conflicts(pool, PartialReg(g, 64)) : g \in caller_saved}
    BY <1>7 DEF r
  <1>9. regs[r] = x  BY <1>1, <1>2 DEF HoldersAgree, r
  <1> QED  BY <1>2, <1>8, <1>9 DEF CallEvicts, Holders

(* An operand that joins those of the instruction.                         *)
LEMMA OperandJoins ==
  ASSUME OperandsKnown, NEW x \in Name, NEW loc, NEW w,
         operands' = operands \cup {Operand(x, loc, w)} \/ operands' = operands \cup {Partial(x, loc, w)},
         Declared(x), inmem \subseteq inmem', loc = NoReg => x \in inmem', alloc' = alloc
  PROVE  OperandsKnown'
  <1>1. \A o \in {Operand(x, loc, w), Partial(x, loc, w)} : o.name = x /\ o.loc = loc
    BY DEF Operand, Partial
  <1>2. PICK o \in {Operand(x, loc, w), Partial(x, loc, w)} : operands' = operands \cup {o}
    OBVIOUS
  <1> QED  BY <1>1, <1>2 DEF OperandsKnown, Declared

LEMMA RegOperandTables ==
  ASSUME AllocInv, TablesInv, NEW x \in Name, NEW w \in BOOLEAN, RegOperand(x, w)
  PROVE  TablesInv'
  <1>1. /\ Declared(x) /\ TypeOK
        /\ phase = "body" \/ (phase = "calling" /\ operands = {} /\ alloc[x].regable)
    BY RegOperandCases, InvFacts
  <1>2. CASE Panic(LoadFailure(NeedSize(x)))
    <2>1. UNCHANGED <<alloc, regof, inmem, live, operands, phase>>  BY <1>2, PanicChanges
    <2> QED  BY <2>1 DEF TablesInv, LiveDeclared, ChunksInMem, OperandsKnown, CallingRegs,
                         DeclaredNames, Declared, InReg
  <1>3. ASSUME NEW r \in Register, operands' = operands \cup {Operand(x, r, w)},
               inmem \subseteq inmem', UNCHANGED <<alloc, phase, live>>,
               \A y \in Name \ {x} : InReg(y)' => InReg(y) /\ regof'[y] = regof[y]
        PROVE  TablesInv'
    <2>1. LiveDeclared' /\ ChunksInMem'  BY <1>3, QuietTables
    <2>2. r # NoReg  BY AllocConstants
    <2>3. OperandsKnown'  BY <1>1, <1>3, <2>2, OperandJoins DEF TablesInv
    <2> DEFINE o == Operand(x, r, w)
    <2>4. o.name = x  BY DEF Operand
    <2> HIDE DEF o
    <2>5. o \in operands' /\ \A p \in operands' : p \in operands \/ p = o  BY <1>3 DEF o
    <2>6. CallingRegs'
      BY <1>1, <1>3, <2>4, <2>5 DEF TablesInv, CallingRegs
    <2> QED  BY <2>1, <2>3, <2>6 DEF TablesInv
  <1>4. CASE /\ InReg(x) /\ operands' = operands \cup {Operand(x, regof[x], w)}
             /\ UNCHANGED <<pool, alloc, regof, regs, inmem, frame, manual, phase, machine, outcome>>
    <2>1. regof[x] \in Register  BY <1>1, <1>4 DEF TypeOK, InReg
    <2> QED  BY <1>3, <1>4, <2>1 DEF machine, InReg
  <1>5. ASSUME NEW r \in Register, NEW V \in SUBSET InRegNames, NEW c \in BOOLEAN,
               Place(x, r, V, c), operands' = operands \cup {Operand(x, r, w)}
        PROVE  TablesInv'
    <2>1. UNCHANGED <<alloc, phase, live>> /\ inmem \subseteq inmem'  BY <1>5, SpillsIn DEF Place
    <2>2. \E G : regof' = [RegofAfter(G) EXCEPT ![x] = r]  BY <1>5 DEF Place
    <2>3. \A y \in Name \ {x} : InReg(y)' => InReg(y) /\ regof'[y] = regof[y]
      BY <2>2 DEF InReg, RegofAfter
    <2> QED  BY <1>3, <1>5, <2>1, <2>3
  <1>6. \/ Panic(LoadFailure(NeedSize(x)))
        \/ /\ InReg(x) /\ operands' = operands \cup {Operand(x, regof[x], w)}
           /\ UNCHANGED <<pool, alloc, regof, regs, inmem, frame, manual, phase, machine, outcome>>
        \/ \E r \in Register, V \in SUBSET InRegNames, c \in BOOLEAN :
             Place(x, r, V, c) /\ operands' = operands \cup {Operand(x, r, w)}
    BY RegOperandCases
  <1> QED  BY <1>2, <1>4, <1>5, <1>6, Zenon

LEMMA NextTables == AllocInv /\ TablesInv /\ [Next]_vars => TablesInv'
  <1> SUFFICES ASSUME AllocInv, TablesInv, [Next]_vars PROVE TablesInv'  OBVIOUS
  <1>1. TypeOK  BY InvFacts
  <1>2. CASE UNCHANGED <<alloc, regof, inmem, live, operands, phase>>
    BY <1>2 DEF TablesInv, LiveDeclared, ChunksInMem, OperandsKnown, CallingRegs,
                DeclaredNames, Declared, InReg
  <1>3. CASE Declare
    <2>1. operands' = {} /\ phase' # "calling"  BY <1>1, <1>3, DeclareShape
    <2>2. LiveDeclared' /\ ChunksInMem'
      <3>1. PICK x \in Name, a \in AllocType :
              /\ alloc' = [alloc EXCEPT ![x] = a] /\ a.size # 0
              /\ live' \subseteq live \cup {x}
              /\ \A y \in Name \ {x} : y \in inmem => y \in inmem'
              /\ a.regable \/ x \in inmem'
        BY <1>1, <1>3, DeclareShape
      <3> QED  BY <1>1, <3>1, NewTables
    <2> QED  BY <2>1, <2>2, Idle DEF TablesInv
  <1>4. CASE ForgetAll
    <2>1. DeclaredNames \in SUBSET Name  BY DEF DeclaredNames
    <2> QED  BY <1>4, <2>1, ForgetTables DEF ForgetAll, AtDeclaration
  <1>5. ASSUME NEW x \in Name, Forget(x) PROVE TablesInv'
    <2>1. {x} \in SUBSET Name  OBVIOUS
    <2> QED  BY <1>5, <2>1, ForgetTables DEF Forget, AtDeclaration
  <1>6. ASSUME operands' = {}, phase' # "calling", live' \subseteq live, inmem \subseteq inmem',
               UNCHANGED alloc
        PROVE  TablesInv'
    BY <1>6, Idle, QuietTables DEF TablesInv
  <1>7. CASE EvictAll \/ Call
    BY <1>6, <1>7, SpillsIn DEF EvictAll, Call, AtDirective, Evicted
  <1>8. ASSUME NEW r \in Register, EvictReg(r) PROVE TablesInv'
    BY <1>6, <1>8, SpillsIn DEF EvictReg, AtDirective, Evicted
  <1>9. ASSUME NEW x \in Name, Volatile(x) PROVE TablesInv'
    <2>1. /\ operands' = {} /\ phase' # "calling" /\ live' = live /\ inmem \subseteq inmem'
      BY <1>9 DEF Volatile, AtDirective
    <2>2. \A y \in Name : alloc'[y].size = alloc[y].size /\ alloc'[y].regable = alloc[y].regable
      BY <1>1, <1>9, VolatileSlot
    <2> QED  BY <2>1, <2>2, Idle, QuietTables DEF TablesInv
  <1>10. CASE Prologue \/ Epilogue
    BY <1>6, <1>10 DEF Prologue, Epilogue, AtDeclaration, AtDirective, tables, machine
  <1>11. ASSUME NEW r \in Register, Use(r) \/ ReleaseReg(r) PROVE TablesInv'
    BY <1>2, <1>11 DEF Use, ReleaseReg, tables, machine
  <1>12. ASSUME NEW r \in Register, Acquire(r) PROVE TablesInv'
    <2>1. CASE Panic("acquire failed")  BY <1>2, <2>1, PanicChanges
    <2>2. CASE ~Panic("acquire failed")
      <3>1. \E V : inmem' = InmemAfter(V)  BY <1>12, <2>2 DEF Acquire
      <3>2. operands' = {} /\ phase' # "calling" /\ live' = live /\ alloc' = alloc
        BY <1>12, <2>2 DEF Acquire, AtDirective
      <3> QED  BY <1>6, <3>1, <3>2, SpillsIn
    <2> QED  BY <2>1, <2>2
  <1>13. ASSUME NEW x \in Name, NEW r \in Register, UseRegister(x, r) PROVE TablesInv'
    <2>1. operands' = {} /\ phase = "body" /\ \E V : Place(x, r, V, FALSE)
      BY <1>13 DEF UseRegister, AtDirective
    <2>2. UNCHANGED <<alloc, phase, live>> /\ inmem \subseteq inmem'  BY <2>1, SpillsIn DEF Place
    <2> QED  BY <1>6, <2>1, <2>2
  <1>14. ASSUME NEW x \in Name, NEW w \in BOOLEAN, RegOperand(x, w) PROVE TablesInv'
    BY <1>14, RegOperandTables
  <1>15. ASSUME NEW x \in Name, NEW w \in BOOLEAN, MemOperand(x, w) PROVE TablesInv'
    <2>1. /\ Declared(x) /\ phase = "body" /\ phase' = phase /\ alloc' = alloc /\ live' = live
          /\ inmem' = inmem \cup {x} /\ operands' = operands \cup {Operand(x, NoReg, w)}
      BY <1>15 DEF MemOperand, AtOperand
    <2>2. OperandsKnown'  BY <2>1, OperandJoins DEF TablesInv
    <2>3. CallingRegs'  BY <2>1 DEF CallingRegs
    <2> QED  BY <2>1, <2>2, <2>3, QuietTables DEF TablesInv
  <1>16. ASSUME NEW x \in Name, NEW w \in BOOLEAN, PartialOperand(x, w) PROVE TablesInv'
    <2>1. /\ Declared(x) /\ phase = "body" /\ phase' = phase /\ alloc' = alloc /\ live' = live
          /\ inmem \subseteq inmem' /\ operands' = operands \cup {Partial(x, regof[x], w)}
          /\ regof[x] = NoReg => x \in inmem'
      BY <1>16 DEF PartialOperand, AtOperand, machine, InReg
    <2>2. OperandsKnown'  BY <2>1, OperandJoins DEF TablesInv
    <2>3. CallingRegs'  BY <2>1 DEF CallingRegs
    <2> QED  BY <2>1, <2>2, <2>3, QuietTables DEF TablesInv
  <1>17. CASE Emit
    <2>1. CASE Panic(Displacement)  BY <1>2, <2>1, PanicChanges
    <2>2. CASE ~Panic(Displacement)
      <3> DEFINE W == {o.name : o \in {p \in operands : p.write}}
      <3>1. /\ live' = live \cup W /\ operands' = {} /\ phase' = "body" /\ UNCHANGED <<alloc, inmem>>
        BY <1>17, <2>2 DEF Emit, tables
      <3>2. W \subseteq DeclaredNames
        BY <1>1 DEF TablesInv, OperandsKnown, DeclaredNames, TypeOK, OperandType
      <3> HIDE DEF W
      <3>3. DeclaredNames' = DeclaredNames  BY <3>1 DEF DeclaredNames, Declared
      <3>4. LiveDeclared' /\ ChunksInMem'
        BY <3>1, <3>2, <3>3 DEF TablesInv, LiveDeclared, ChunksInMem
      <3> QED  BY <3>1, <3>4, Idle DEF TablesInv
    <2> QED  BY <2>1, <2>2
  <1>18. CASE BeginCallThrough
    <2>1. /\ operands' = {} /\ alloc' = alloc /\ live' = live /\ inmem' = InmemAfter(CallEvicts)
          /\ regof' = RegofAfter(CallEvicts)
      BY <1>18 DEF BeginCallThrough, AtDirective, Evicted, Spilled
    <2>2. OperandsKnown'  BY <2>1 DEF OperandsKnown
    <2>3. \A x \in Name : InReg(x)' => FullReg(regof'[x]) \notin caller_saved
      BY <2>1, CallCovers DEF RegofAfter, InReg, InRegNames
    <2>4. CallingRegs'  BY <2>1, <2>3 DEF CallingRegs
    <2> QED  BY <2>1, <2>2, <2>4, QuietTables, SpillsIn DEF TablesInv
  <1>19. CASE CallThrough
    BY <1>6, <1>19 DEF CallThrough, tables
  <1>20. CASE UNCHANGED vars  BY <1>2, <1>20 DEF vars, tables, machine
  <1>21. CASE Directive
    BY <1>4, <1>5, <1>7, <1>8, <1>9, <1>10, <1>11, <1>13, <1>21 DEF Directive
  <1>22. CASE Instr  BY <1>14, <1>15, <1>16, <1>17, <1>18, <1>19, <1>22 DEF Instr
  <1>23. CASE Claim  BY <1>11, <1>12, <1>23 DEF Claim
  <1> QED  BY <1>3, <1>20, <1>21, <1>22, <1>23 DEF Next
-----------------------------------------------------------------------------
(* A local that stays where it is, with the same kind and slot, keeps its  *)
(* value if the step leaves its lanes and its bytes alone.                 *)
LEMMA Kept ==
  ASSUME NEW y, Good(y), alloc'[y].regable = alloc[y].regable,
         Slot(alloc[y])' = Slot(alloc[y]), regof'[y] = regof[y],
         y \in inmem => y \in inmem', y \in live' => y \in live,
         InReg(y) => \A l \in Lanes(regof[y]) : cell[l] = y => cell'[l] = y,
         \A a \in Slot(alloc[y]) : mem[a] = y => mem'[a] = y
  PROVE  Good(y)'
  <1>1. InReg(y)' = InReg(y)  BY DEF InReg
  <1>2. RegHolds(y, regof[y]) /\ InReg(y) => RegHolds(y, regof[y])'  BY DEF RegHolds
  <1>3. MemHolds(y) => MemHolds(y)'  BY DEF MemHolds
  <1>4. RegGood(y)'  BY <1>1, <1>2 DEF Good, RegGood
  <1>5. MemGood(y)'  BY <1>1, <1>3 DEF Good, MemGood
  <1>6. MarkGood(y)'  BY <1>1 DEF Good, MarkGood
  <1> QED  BY <1>4, <1>5, <1>6 DEF Good

(* A local that leaves its register has its value in its slot.             *)
LEMMA SpilledGood ==
  ASSUME FullInv, NEW V \in SUBSET InRegNames, NEW v \in V, Good(v),
         alloc'[v].regable = alloc[v].regable, Slot(alloc[v])' = Slot(alloc[v]),
         regof'[v] = NoReg, mem' = MemAfter(V), live' = live,
         alloc[v].regable => v \in inmem'
  PROVE  Good(v)'
  <1>1. TypeOK /\ FrameInv /\ RegDeclared  BY DEF FullInv, AllocInv
  <1>2. InReg(v) /\ v \in DeclaredNames  BY <1>1 DEF InRegNames, RegDeclared, DeclaredNames
  <1>3. ~InReg(v)'  BY DEF InReg
  <1>4. CASE alloc[v].regable
    <2>1. v \in live => RegHolds(v, regof[v])  BY <1>2 DEF Good, RegGood
    <2>2. v \in live => \A a \in Slot(alloc[v]) : mem'[a] = v  BY <1>1, <1>4, <2>1, SpillMem
    <2> QED  BY <1>3, <1>4, <2>2 DEF Good, RegGood, MemGood, MarkGood, MemHolds
  <1>5. CASE ~alloc[v].regable
    <2>1. v \in live => MemHolds(v)  BY <1>5 DEF Good, MemGood
    <2>2. v \in live => \A a \in Slot(alloc[v]) : mem'[a] = v  BY <1>1, <1>2, <1>5, <2>1, SpillMem
    <2> QED  BY <1>3, <1>5, <2>2 DEF Good, RegGood, MemGood, MarkGood, MemHolds
  <1> QED  BY <1>4, <1>5

(* A spill that leaves the lanes of the other locals alone.                *)
LEMMA EvictGood ==
  ASSUME FullInv, AllGood, NEW V \in SUBSET InRegNames, regof' = RegofAfter(V), mem' = MemAfter(V),
         inmem \subseteq inmem', \A v \in V : alloc[v].regable => v \in inmem', live' = live,
         \A y \in Name : /\ alloc'[y].size = alloc[y].size /\ alloc'[y].offset = alloc[y].offset
                         /\ alloc'[y].regable = alloc[y].regable,
         \A y \in InRegNames \ V : \A l \in Lanes(regof[y]) : cell'[l] = cell[l]
  PROVE  AllGood'
  <1>1. TypeOK /\ FrameInv /\ RegDeclared  BY DEF FullInv, AllocInv
  <1>2. DeclaredNames' = DeclaredNames  BY DEF DeclaredNames, Declared
  <1>3. SUFFICES ASSUME NEW y \in DeclaredNames PROVE Good(y)'  BY <1>2 DEF AllGood
  <1>4. y \in Name /\ Good(y)  BY DEF AllGood, DeclaredNames
  <1>5. Slot(alloc[y])' = Slot(alloc[y]) /\ alloc'[y].regable = alloc[y].regable
    BY <1>4 DEF Slot
  <1>6. CASE y \in V
    <2>1. regof'[y] = NoReg  BY <1>4, <1>6 DEF RegofAfter
    <2> QED  BY <1>4, <1>5, <1>6, <2>1, SpilledGood
  <1>7. CASE y \notin V
    <2>1. regof'[y] = regof[y]  BY <1>4, <1>7 DEF RegofAfter
    <2>2. InReg(y) => \A l \in Lanes(regof[y]) : cell'[l] = cell[l]
      BY <1>4, <1>7 DEF InRegNames
    <2>3. \A a \in Slot(alloc[y]) : mem[a] = y => mem'[a] = y
      <3>1. ASSUME NEW a \in Slot(alloc[y]), mem[a] = y PROVE mem'[a] = y
        <4> DEFINE S == {v \in V : alloc[v].regable /\ a \in Slot(alloc[v])}
        <4>1. V \subseteq DeclaredNames  BY <1>1 DEF InRegNames, RegDeclared, DeclaredNames
        <4>2. S = {}  BY <1>1, <1>7, <4>1, SlotFacts
        <4>3. a \in Addr  BY <1>1, SlotFacts
        <4> QED  BY <3>1, <4>2, <4>3 DEF MemAfter
      <3> QED  BY <3>1
    <2> QED  BY <1>4, <1>5, <2>1, <2>2, <2>3, Kept
  <1> QED  BY <1>6, <1>7

(* The lanes of the locals that stay, after an eviction of V.              *)
LEMMA EvictCells ==
  ASSUME FullInv, NEW V \in SUBSET InRegNames, cell' = CellAfter(V)
  PROVE  \A y \in InRegNames \ V : \A l \in Lanes(regof[y]) : cell'[l] = cell[l]
  BY SpillCell DEF FullInv, AllocInv

(* Evictions, volatile and an operand taken from memory.                   *)
LEMMA SpilledKeeps ==
  ASSUME FullInv, AllGood, NEW V \in SUBSET InRegNames, Spilled(V),
         inmem \subseteq inmem', \A v \in V : alloc[v].regable => v \in inmem', live' = live,
         \A y \in Name : /\ alloc'[y].size = alloc[y].size /\ alloc'[y].offset = alloc[y].offset
                         /\ alloc'[y].regable = alloc[y].regable
  PROVE  AllGood'
  <1>1. regof' = RegofAfter(V) /\ mem' = MemAfter(V) /\ cell' = CellAfter(V)  BY DEF Spilled
  <1> QED  BY <1>1, EvictCells, EvictGood

LEMMA EvictedGood ==
  ASSUME FullInv, AllGood, NEW V \in SUBSET InRegNames, Evicted(V), UNCHANGED <<alloc, live>>
  PROVE  AllGood'
  <1>1. Spilled(V) /\ inmem \subseteq inmem' /\ \A v \in V : alloc[v].regable => v \in inmem'
    BY DEF Evicted, InmemAfter
  <1> QED  BY <1>1, SpilledKeeps
(* inreg, and an operand that is loaded: the value arrives in r, and no    *)
(* other local loses its own.                                              *)
LEMMA PlaceGood ==
  ASSUME FullInv, AllGood, ChunksInMem, NoOverlap', NoHighLocals', RegDeclared, NEW x \in Name, Declared(x),
         NEW r \in Register, NEW V \in SUBSET InRegNames, NEW clear \in BOOLEAN, Place(x, r, V, clear)
  PROVE  AllGood'
  <1> DEFINE from == IF InReg(x) /\ x \notin V THEN {x} ELSE {}
             gone == V \cup from
             ok   == IF InReg(x) THEN RegHolds(x, regof[x]) ELSE ~alloc[x].regable \/ MemHolds(x)
             loads == InReg(x) \/ x \in inmem
             value == IF ok THEN x ELSE Junk
  <1>1. /\ regof' = [RegofAfter(gone) EXCEPT ![x] = r]
        /\ inmem' = InmemAfter(V) /\ mem' = MemAfter(V)
        /\ UNCHANGED <<alloc, live>>
    BY DEF Place
  <1>2. cell' = [l \in AllLanes |->
                CASE loads /\ l \in Lanes(r) -> value
                  [] loads /\ clear /\ l \notin Lanes(r) /\ l[1] = FullReg(r) -> Junk
                  [] OTHER -> IF operands = {} THEN CellAfter(gone)[l] ELSE cell[l]]
    BY DEF Place
  <1>3. TypeOK /\ FrameInv /\ NoOverlap  BY DEF FullInv, AllocInv
  <1>4. gone \in SUBSET InRegNames  BY DEF InRegNames
  <1>5. DeclaredNames' = DeclaredNames  BY <1>1 DEF DeclaredNames, Declared
  <1>6. Slot(alloc[x])' = Slot(alloc[x]) /\ x \in DeclaredNames /\ Good(x)
    BY <1>1 DEF Slot, DeclaredNames, AllGood
  <1>7. regof'[x] = r /\ InReg(x)'
    <2>1. regof'[x] = r  BY <1>1 DEF RegofAfter
    <2> QED  BY <2>1, AllocConstants DEF InReg
  <1>8. ASSUME loads PROVE \A l \in Lanes(r) : cell'[l] = value
    <2> TAKE l \in Lanes(r)
    <2>1. l \in AllLanes  BY LaneFacts
    <2> HIDE DEF ok, loads, value, gone
    <2> QED  BY <1>2, <1>8, <2>1, Zenon
  <1>9. alloc[x].regable /\ x \in live => loads /\ ok
    BY <1>6 DEF Good, RegGood, MemGood, MarkGood
  <1>10. ~alloc[x].regable => loads /\ ok
    BY <1>6 DEF Good, RegGood, ChunksInMem
  <1>11. Good(x)'
    <2>1. (alloc[x].regable => x \in live) => \A l \in Lanes(r) : cell'[l] = x
      BY <1>8, <1>9, <1>10
    <2>2. RegGood(x)'  BY <1>1, <1>7, <2>1 DEF RegGood, RegHolds
    <2>3. MarkGood(x)'  BY <1>7 DEF MarkGood
    <2>4. MemGood(x)'
      <3>1. ~alloc[x].regable /\ x \in live => MemHolds(x)  BY <1>6 DEF Good, MemGood
      <3>2. ~alloc[x].regable /\ x \in live => \A a \in Slot(alloc[x]) : mem'[a] = x
        BY <1>1, <1>3, <1>6, <3>1, SpillMem
      <3> QED  BY <1>1, <1>7, <3>2 DEF MemGood, MemHolds
    <2> QED  BY <2>2, <2>3, <2>4 DEF Good
  <1>12. ASSUME NEW y \in DeclaredNames, y # x, y \in V PROVE Good(y)'
    <2>1. y \in Name /\ Good(y)  BY DEF DeclaredNames, AllGood
    <2>2. regof'[y] = NoReg  BY <1>1, <1>12, <2>1 DEF RegofAfter
    <2>3. Slot(alloc[y])' = Slot(alloc[y])  BY <1>1 DEF Slot
    <2>4. alloc[y].regable => y \in inmem'  BY <1>1, <1>12 DEF InmemAfter
    <2> QED  BY <1>1, <1>12, <2>1, <2>2, <2>3, <2>4, SpilledGood
  <1>13. ASSUME NEW y \in DeclaredNames, y # x, y \notin V PROVE Good(y)'
    <2>1. y \in Name /\ Good(y) /\ y \notin gone  BY <1>13 DEF DeclaredNames, AllGood
    <2>2. regof'[y] = regof[y]  BY <1>1, <1>13, <2>1 DEF RegofAfter
    <2>3. Slot(alloc[y])' = Slot(alloc[y])  BY <1>1 DEF Slot
    <2>4. y \in inmem => y \in inmem'  BY <1>1 DEF InmemAfter
    <2>5. \A a \in Slot(alloc[y]) : mem[a] = y => mem'[a] = y
      <3>1. ASSUME NEW a \in Slot(alloc[y]), mem[a] = y PROVE mem'[a] = y
        <4> DEFINE S == {v \in V : alloc[v].regable /\ a \in Slot(alloc[v])}
        <4>1. V \subseteq DeclaredNames  BY DEF InRegNames, RegDeclared, DeclaredNames
        <4>2. S = {}  BY <1>3, <1>13, <4>1, SlotFacts
        <4>3. a \in Addr  BY <1>3, SlotFacts
        <4> QED  BY <1>1, <3>1, <4>2, <4>3 DEF MemAfter
      <3> QED  BY <3>1
    <2>6. InReg(y) => \A l \in Lanes(regof[y]) : cell[l] = y => cell'[l] = y
      <3> SUFFICES ASSUME InReg(y), NEW l \in Lanes(regof[y]) PROVE cell'[l] = cell[l]  OBVIOUS
      <3>1. regof[y] \in Register /\ InReg(y)'  BY <1>3, <2>1, <2>2 DEF TypeOK, InReg
      <3>2. ~Overlap(regof[y], r)  BY <1>7, <1>13, <2>1, <2>2, <3>1 DEF NoOverlap
      <3>3. l \notin Lanes(r)  BY <3>2 DEF Overlap
      <3>4. regof[y][2] # "hi" /\ r[2] # "hi"
        BY <1>7, <2>1, <3>1 DEF NoHighLocals, FullInv
      <3>5. l[1] # FullReg(r)  BY <3>1, <3>2, <3>4, LowShares, LaneFacts
      <3>6. l \in AllLanes /\ CellAfter(gone)[l] = cell[l]
        <4>1. y \in InRegNames \ gone  BY <2>1 DEF InRegNames
        <4> HIDE DEF gone
        <4> QED  BY <1>3, <1>4, <4>1, SpillCell
      <3> HIDE DEF ok, loads, value, gone
      <3> QED  BY <1>2, <3>3, <3>5, <3>6, Zenon
    <2> QED  BY <1>1, <2>1, <2>2, <2>3, <2>4, <2>5, <2>6, Kept
  <1> QED  BY <1>5, <1>11, <1>12, <1>13 DEF AllGood

(* local, bytes, argi: a new local has no value, or arrives with one in    *)
(* its register or its slot, and disturbs nobody.                          *)
LEMMA DeclareGood ==
  ASSUME FullInv, AllGood, TablesInv, NoOverlap', FrameInv', TypeOK', Declare
  PROVE  AllGood'
  <1>1. TypeOK /\ RegDeclared  BY DEF FullInv, AllocInv
  <1>2. PICK x \in Name, a \in AllocType :
          /\ ~Declared(x) /\ alloc' = [alloc EXCEPT ![x] = a] /\ a.size # 0
          /\ live' \subseteq live \cup {x}
          /\ \A y \in Name \ {x} : y \in inmem => y \in inmem'
          /\ a.regable \/ x \in inmem'
          /\ \/ UNCHANGED <<regof, cell, mem, live>>
             \/ /\ a.regable /\ UNCHANGED mem
                /\ \E r \in Register :
                     /\ regof' = [regof EXCEPT ![x] = r]
                     /\ cell' = [l \in AllLanes |-> IF l \in Lanes(r) THEN x ELSE cell[l]]
             \/ /\ a.regable /\ x \in inmem' /\ UNCHANGED <<regof, cell>>
                /\ mem' = [b \in Addr |-> IF b \in Slot(a) THEN x ELSE mem[b]]
    BY <1>1, DeclareShape
  <1>3. alloc'[x] = a /\ \A y \in Name \ {x} : alloc'[y] = alloc[y]  BY <1>1, <1>2 DEF TypeOK
  <1>4. x \notin live /\ ~InReg(x)
    BY <1>1, <1>2 DEF TablesInv, LiveDeclared, DeclaredNames, RegDeclared
  <1>5. DeclaredNames' = DeclaredNames \cup {x} /\ x \notin DeclaredNames
    BY <1>2, <1>3 DEF DeclaredNames, Declared
  <1>6. /\ Slot(alloc[x])' = Slot(a) /\ Slot(a) \subseteq Addr
        /\ \A y \in DeclaredNames : y \in Name /\ y # x /\ Slot(alloc[y])' = Slot(alloc[y])
        /\ \A y \in DeclaredNames : Slot(a) \cap Slot(alloc[y]) = {}
    <2>1. Slot(alloc[x])' = Slot(a)  BY <1>3 DEF Slot
    <2>2. \A y \in DeclaredNames : y \in Name /\ y # x /\ Slot(alloc[y])' = Slot(alloc[y])
      BY <1>3, <1>5 DEF Slot, DeclaredNames
    <2>3. SlotsApart'  BY FrameSlots, PTL
    <2>4. Addr' = Addr  BY DEF Addr
    <2> QED  BY <1>5, <2>1, <2>2, <2>3, <2>4 DEF SlotsApart
  <1>7. ASSUME UNCHANGED <<regof, cell, mem, live>> PROVE AllGood'
    <2>1. ~InReg(x)' /\ x \notin live'  BY <1>4, <1>7 DEF InReg
    <2>2. Good(x)'  BY <2>1 DEF Good, RegGood, MemGood, MarkGood
    <2>3. ASSUME NEW y \in DeclaredNames PROVE Good(y)'
      <3>1. Good(y) /\ y \in Name /\ y # x  BY <1>6 DEF AllGood
      <3> QED  BY <1>2, <1>3, <1>6, <1>7, <3>1, Kept
    <2> QED  BY <1>5, <2>2, <2>3 DEF AllGood
  <1>8. ASSUME a.regable, UNCHANGED mem, NEW r \in Register, regof' = [regof EXCEPT ![x] = r],
               cell' = [l \in AllLanes |-> IF l \in Lanes(r) THEN x ELSE cell[l]]
        PROVE  AllGood'
    <2>1. regof'[x] = r /\ InReg(x)' /\ \A y \in Name \ {x} : regof'[y] = regof[y]
      BY <1>1, <1>8, AllocConstants DEF TypeOK, InReg
    <2>2. Good(x)'
      <3>1. \A l \in Lanes(r) : cell'[l] = x  BY <1>8, LaneFacts
      <3>2. alloc'[x].regable  BY <1>3, <1>8
      <3> QED  BY <2>1, <3>1, <3>2 DEF Good, RegGood, MemGood, MarkGood, RegHolds
    <2>3. ASSUME NEW y \in DeclaredNames PROVE Good(y)'
      <3>1. Good(y) /\ y \in Name /\ y # x  BY <1>6 DEF AllGood
      <3>2. InReg(y) => \A l \in Lanes(regof[y]) : cell[l] = y => cell'[l] = y
        <4> SUFFICES ASSUME InReg(y), NEW l \in Lanes(regof[y]) PROVE cell'[l] = cell[l]  OBVIOUS
        <4>1. regof[y] \in Register /\ InReg(y)'  BY <1>1, <2>1, <3>1 DEF TypeOK, InReg
        <4>2. ~Overlap(regof[y], r)  BY <2>1, <3>1, <4>1 DEF NoOverlap
        <4>3. l \notin Lanes(r)  BY <4>2 DEF Overlap
        <4>4. l \in AllLanes  BY <4>1, LaneFacts
        <4> QED  BY <1>8, <4>3, <4>4
      <3>3. y \in live' => y \in live  BY <1>2, <3>1
      <3> QED  BY <1>2, <1>3, <1>6, <1>8, <2>1, <3>1, <3>2, <3>3, Kept
    <2> QED  BY <1>5, <2>2, <2>3 DEF AllGood
  <1>9. ASSUME a.regable, x \in inmem', UNCHANGED <<regof, cell>>,
               mem' = [b \in Addr |-> IF b \in Slot(a) THEN x ELSE mem[b]]
        PROVE  AllGood'
    <2>1. ~InReg(x)'  BY <1>4, <1>9 DEF InReg
    <2>2. Good(x)'
      <3>1. \A b \in Slot(a) : mem'[b] = x  BY <1>6, <1>9
      <3>2. MemHolds(x)'  BY <1>6, <3>1 DEF MemHolds
      <3> QED  BY <1>9, <2>1, <3>2 DEF Good, RegGood, MemGood, MarkGood
    <2>3. ASSUME NEW y \in DeclaredNames PROVE Good(y)'
      <3>1. Good(y) /\ y \in Name /\ y # x  BY <1>6 DEF AllGood
      <3>2. \A b \in Slot(alloc[y]) : mem'[b] = mem[b]
        BY <1>1, <1>6, <1>9, SlotFacts DEF FullInv
      <3>3. y \in live' => y \in live  BY <1>2, <3>1
      <3> QED  BY <1>2, <1>3, <1>6, <1>9, <3>1, <3>2, <3>3, Kept
    <2> QED  BY <1>5, <2>2, <2>3 DEF AllGood
  <1> QED  BY <1>2, <1>7, <1>8, <1>9

(* forget, forgetall: what is left of the forgotten is junk, everyone else *)
(* keeps a value.                                                          *)
LEMMA ForgetGood ==
  ASSUME FullInv, AllGood, NEW V \in SUBSET Name, ForgetNames(V)
  PROVE  AllGood'
  <1> DEFINE W == {v \in V : InReg(v)}
  <1>1. /\ regof' = RegofAfter(W)
        /\ alloc' = [x \in Name |-> IF x \in V THEN Undeclared ELSE alloc[x]]
        /\ inmem' = inmem \ V /\ live' = live \ V
        /\ cell' = [l \in AllLanes |-> IF cell[l] \in V THEN Junk ELSE cell[l]]
        /\ mem' = [a \in Addr |-> IF mem[a] \in V THEN Junk ELSE mem[a]]
    BY DEF ForgetNames
  <1>2. TypeOK /\ FrameInv  BY DEF FullInv, AllocInv
  <1>3. DeclaredNames' = DeclaredNames \ V
    BY <1>1 DEF DeclaredNames, Declared, Undeclared
  <1>4. SUFFICES ASSUME NEW y \in DeclaredNames, y \notin V PROVE Good(y)'
    BY <1>3 DEF AllGood
  <1>5. y \in Name /\ Good(y)  BY DEF DeclaredNames, AllGood
  <1>6. alloc'[y] = alloc[y] /\ Slot(alloc[y])' = Slot(alloc[y])  BY <1>1, <1>4, <1>5 DEF Slot
  <1>7. regof'[y] = regof[y]  BY <1>1, <1>4, <1>5 DEF RegofAfter
  <1>8. InReg(y) => \A l \in Lanes(regof[y]) : cell[l] = y => cell'[l] = y
    <2> SUFFICES ASSUME InReg(y), NEW l \in Lanes(regof[y]), cell[l] = y PROVE cell'[l] = y
      OBVIOUS
    <2>1. regof[y] \in Register  BY <1>2, <1>5 DEF TypeOK, InReg
    <2>2. l \in AllLanes  BY <2>1, LaneFacts
    <2> QED  BY <1>1, <1>4, <2>2
  <1>9. \A a \in Slot(alloc[y]) : mem[a] = y => mem'[a] = y
    BY <1>1, <1>2, <1>4, SlotFacts
  <1> QED  BY <1>1, <1>4, <1>5, <1>6, <1>7, <1>8, <1>9, Kept

(* CALL: what the callee may overwrite holds no local any more.            *)
LEMMA CallGood ==
  ASSUME FullInv, AllGood, Call
  PROVE  AllGood'
  <1> DEFINE V == CallEvicts
  <1>1. V \in SUBSET InRegNames /\ TypeOK /\ NoOverlap /\ AllocInv
    BY HoldersInReg DEF FullInv, AllocInv
  <1>2. /\ regof' = RegofAfter(V) /\ mem' = MemAfter(V) /\ inmem' = InmemAfter(V)
        /\ cell' = [l \in AllLanes |-> IF l \in Clobbered THEN Junk ELSE CellAfter(V)[l]]
        /\ UNCHANGED <<alloc, live>>
    BY DEF Call
  <1>3. ASSUME NEW y \in InRegNames \ V, NEW l \in Lanes(regof[y]) PROVE cell'[l] = cell[l]
    <2>1. regof[y] \in Register  BY <1>1 DEF TypeOK, InRegNames, InReg
    <2>2. FullReg(regof[y]) \notin caller_saved  BY <1>1, CallCovers
    <2>3. l \notin Clobbered  BY <2>1, <2>2, LaneFacts DEF Clobbered
    <2>4. l \in AllLanes /\ CellAfter(V)[l] = cell[l]
      <3> HIDE DEF V
      <3> QED  BY <1>1, SpillCell
    <2> QED  BY <1>2, <2>3, <2>4
  <1>4. inmem \subseteq inmem' /\ \A v \in V : alloc[v].regable => v \in inmem'
    BY <1>2 DEF InmemAfter
  <1> HIDE DEF V
  <1> QED  BY <1>1, <1>2, <1>3, <1>4, EvictGood

(* CALL through a local: only the target may have been in a register the   *)
(* callee overwrites, and it is dead.                                      *)
LEMMA CallThroughGood ==
  ASSUME FullInv, AllGood, CallingRegs, CallThrough
  PROVE  AllGood'
  <1>1. /\ UNCHANGED <<alloc, regof, inmem, mem>> /\ phase = "calling"
        /\ cell' = [l \in AllLanes |-> IF l \in Clobbered THEN Junk ELSE cell[l]]
        /\ live' = live \ {o.name : o \in operands}
    BY DEF CallThrough, tables
  <1>2. TypeOK /\ DeclaredNames' = DeclaredNames
    BY <1>1 DEF FullInv, AllocInv, DeclaredNames, Declared
  <1>3. SUFFICES ASSUME NEW y \in DeclaredNames PROVE Good(y)'  BY <1>2 DEF AllGood
  <1>4. y \in Name /\ Good(y) /\ Slot(alloc[y])' = Slot(alloc[y])
    BY <1>1 DEF DeclaredNames, AllGood, Slot
  <1>5. CASE InReg(y) /\ FullReg(regof[y]) \in caller_saved
    <2>1. PICK o \in operands : o.name = y  BY <1>1, <1>4, <1>5 DEF CallingRegs
    <2>2. alloc'[y].regable /\ y \notin live'  BY <1>1, <2>1 DEF CallingRegs
    <2> QED  BY <2>2 DEF Good, RegGood, MemGood, MarkGood
  <1>6. CASE ~(InReg(y) /\ FullReg(regof[y]) \in caller_saved)
    <2>1. InReg(y) => \A l \in Lanes(regof[y]) : cell[l] = y => cell'[l] = y
      <3> SUFFICES ASSUME InReg(y), NEW l \in Lanes(regof[y]) PROVE cell'[l] = cell[l]  OBVIOUS
      <3>1. regof[y] \in Register  BY <1>2, <1>4 DEF TypeOK, InReg
      <3>2. l \in AllLanes /\ l \notin Clobbered  BY <1>6, <3>1, LaneFacts DEF Clobbered
      <3> QED  BY <1>1, <3>2
    <2> QED  BY <1>1, <1>4, <2>1, Kept
  <1> QED  BY <1>5, <1>6
(* An instruction writes its destination where it is: in lanes and bytes   *)
(* that are no other local's.                                              *)
LEMMA EmitGood ==
  ASSUME FullInv, AllGood, OperandsKnown, Emit
  PROVE  AllGood'
  <1>1. TypeOK /\ FrameInv /\ NoOverlap  BY DEF FullInv, AllocInv
  <1>2. CASE Panic(Displacement)
    <2>1. UNCHANGED <<alloc, regof, inmem, live, cell, mem>>  BY <1>2, PanicChanges
    <2> QED  BY <2>1 DEF AllGood, Good, RegGood, MemGood, MarkGood, RegHolds, MemHolds, InReg,
                         DeclaredNames, Declared
  <1>3. CASE ~Panic(Displacement)
    <2> DEFINE W == {o.name : o \in {p \in operands : p.write}}
               toReg == {x \in W : InReg(x) /\ alloc[x].regable}
               T(l) == {x \in Name : InReg(x) /\ l \in Lanes(regof[x])}
               S(a) == {x \in W \ toReg : a \in Slot(alloc[x])}
               c(l) == CHOOSE x \in T(l) \cap toReg : TRUE
               m(a) == CHOOSE x \in S(a) : TRUE
    <2>1. /\ cell' = [l \in AllLanes |-> CASE T(l) = {} -> Junk
                                           [] T(l) \cap toReg # {} -> c(l)
                                           [] OTHER -> cell[l]]
          /\ mem' = [a \in Addr |-> CASE S(a) # {} -> m(a)
                                      [] S(a) = {} /\ mem[a] \in W -> Junk
                                      [] OTHER -> mem[a]]
          /\ live' = live \cup W /\ Displaced = {}
          /\ UNCHANGED <<alloc, regof, inmem>>
      BY <1>3 DEF Emit, tables
    <2>2. W \subseteq DeclaredNames
      BY <1>1 DEF OperandsKnown, DeclaredNames, TypeOK, OperandType
    <2>3. \A x \in W : ~InReg(x) => x \in inmem
      <3> SUFFICES ASSUME NEW o \in operands, o.write, ~InReg(o.name) PROVE o.name \in inmem
        OBVIOUS
      <3>1. o.loc = regof[o.name]  BY <2>1 DEF Displaced
      <3> QED  BY <3>1 DEF InReg, OperandsKnown
    <2>4. DeclaredNames' = DeclaredNames  BY <2>1 DEF DeclaredNames, Declared
    <2>5. ASSUME NEW y \in DeclaredNames, InReg(y), NEW l \in Lanes(regof[y])
          PROVE  cell'[l] = IF y \in toReg THEN y ELSE cell[l]
      <3>1. y \in Name /\ regof[y] \in Register  BY <1>1, <2>5 DEF DeclaredNames, TypeOK, InReg
      <3>2. l \in AllLanes  BY <3>1, LaneFacts
      <3>3. T(l) = {y}
        <4>1. ASSUME NEW x \in Name, InReg(x), l \in Lanes(regof[x]) PROVE x = y
          BY <1>1, <2>5, <3>1, <4>1 DEF NoOverlap, Overlap
        <4> QED  BY <2>5, <3>1, <4>1
      <3>4. T(l) # {} /\ (T(l) \cap toReg # {} <=> y \in toReg)  BY <3>3
      <3>5. y \in toReg => c(l) = y  BY <3>3
      <3> HIDE DEF T, toReg, c, S, m, W
      <3>6. CASE y \in toReg  BY <2>1, <3>2, <3>4, <3>5, <3>6, Zenon
      <3>7. CASE y \notin toReg  BY <2>1, <3>2, <3>4, <3>7, Zenon
      <3> QED  BY <3>6, <3>7
    <2>6. ASSUME NEW y \in DeclaredNames, y \in W, y \notin toReg, NEW a \in Slot(alloc[y])
          PROVE  mem'[a] = y
      <3>1. a \in Addr  BY <1>1, SlotFacts
      <3>2. S(a) = {y}  BY <1>1, <2>2, <2>6, SlotFacts
      <3>3. S(a) # {} /\ m(a) = y  BY <3>2
      <3> HIDE DEF T, toReg, c, S, m, W
      <3> QED  BY <2>1, <3>1, <3>3, Zenon
    <2>7. ASSUME NEW y \in DeclaredNames, y \notin W, NEW a \in Slot(alloc[y]), mem[a] = y
          PROVE  mem'[a] = y
      <3>1. a \in Addr  BY <1>1, SlotFacts
      <3>2. S(a) = {}  BY <1>1, <2>2, <2>7, SlotFacts
      <3> HIDE DEF T, toReg, c, S, m, W
      <3> QED  BY <2>1, <2>7, <3>1, <3>2, Zenon
    <2>8. SUFFICES ASSUME NEW y \in DeclaredNames PROVE Good(y)'  BY <2>4 DEF AllGood
    <2>9. Good(y) /\ Slot(alloc[y])' = Slot(alloc[y]) /\ InReg(y)' = InReg(y)
      BY <2>1 DEF AllGood, Slot, InReg
    <2>10. RegGood(y)'
      <3> SUFFICES ASSUME InReg(y), alloc[y].regable => y \in live', NEW l \in Lanes(regof[y])
                   PROVE  cell'[l] = y
        BY <2>1, <2>9 DEF RegGood, RegHolds
      <3>1. CASE y \in toReg  BY <2>5, <3>1
      <3>2. CASE y \notin toReg
        <4>1. alloc[y].regable => y \in live  BY <2>1, <3>2
        <4>2. cell[l] = y  BY <2>9, <4>1 DEF Good, RegGood, RegHolds
        <4> QED  BY <2>5, <3>2, <4>2
      <3> QED  BY <3>1, <3>2
    <2>11. MemGood(y)'
      <3> SUFFICES ASSUME y \in live', ~(alloc[y].regable /\ InReg(y)), NEW a \in Slot(alloc[y])
                   PROVE  mem'[a] = y
        BY <2>1, <2>9 DEF MemGood, MemHolds
      <3>1. CASE y \in W  BY <2>6, <3>1
      <3>2. CASE y \notin W
        <4>1. mem[a] = y  BY <2>1, <2>9, <3>2 DEF Good, MemGood, MemHolds
        <4> QED  BY <2>7, <3>2, <4>1
      <3> QED  BY <3>1, <3>2
    <2>12. MarkGood(y)'
      BY <2>1, <2>3, <2>9 DEF Good, MarkGood
    <2> QED  BY <2>10, <2>11, <2>12 DEF Good
  <1> QED  BY <1>2, <1>3

-----------------------------------------------------------------------------
LEMMA NextGood ==
  FullInv /\ TablesInv /\ AllGood /\ [Next]_vars /\ FullInv' => AllGood'
  <1> SUFFICES ASSUME FullInv, TablesInv, AllGood, [Next]_vars, FullInv' PROVE AllGood'
    OBVIOUS
  <1>1. /\ TypeOK /\ AllocInv /\ FrameInv /\ NoOverlap /\ RegDeclared
        /\ NoOverlap' /\ FrameInv' /\ TypeOK' /\ NoHighLocals'
    BY DEF FullInv, AllocInv
  <1>2. CASE UNCHANGED <<alloc, regof, live, cell, mem>> /\ inmem \subseteq inmem'
    <2>1. ASSUME NEW y \in DeclaredNames PROVE Good(y)'
      <3>1. Good(y) /\ Slot(alloc[y])' = Slot(alloc[y])  BY <1>2 DEF AllGood, Slot
      <3> QED  BY <1>2, <3>1, Kept
    <2>2. DeclaredNames' = DeclaredNames  BY <1>2 DEF DeclaredNames, Declared
    <2> QED  BY <2>1, <2>2 DEF AllGood
  <1>3. CASE Declare  BY <1>1, <1>3, DeclareGood
  <1>4. CASE ForgetAll
    <2>1. DeclaredNames \in SUBSET Name  BY DEF DeclaredNames
    <2> QED  BY <1>4, <2>1, ForgetGood DEF ForgetAll
  <1>5. ASSUME NEW x \in Name, Forget(x) PROVE AllGood'
    <2>1. {x} \in SUBSET Name  OBVIOUS
    <2> QED  BY <1>5, <2>1, ForgetGood DEF Forget
  <1>6. CASE EvictAll \/ BeginCallThrough
    BY <1>6, HoldersInReg, EvictedGood DEF EvictAll, BeginCallThrough
  <1>7. CASE Call  BY <1>7, CallGood
  <1>8. ASSUME NEW r \in Register, EvictReg(r) PROVE AllGood'
    BY <1>8, HoldersInReg, EvictedGood DEF EvictReg
  <1>9. ASSUME NEW x \in Name, Volatile(x) PROVE AllGood'
    <2> DEFINE V == IF InReg(x) THEN {x} ELSE {}
    <2>1. V \in SUBSET InRegNames /\ Spilled(V) /\ inmem' = inmem \cup {x} /\ live' = live
      BY <1>9 DEF Volatile, InRegNames
    <2>2. \A v \in V : v \in inmem'  BY <2>1
    <2>3. \A y \in Name : /\ alloc'[y].size = alloc[y].size /\ alloc'[y].offset = alloc[y].offset
                          /\ alloc'[y].regable = alloc[y].regable
      BY <1>1, <1>9, VolatileSlot
    <2> HIDE DEF V
    <2> QED  BY <2>1, <2>2, <2>3, SpilledKeeps
  <1>10. CASE Prologue \/ Epilogue \/ UNCHANGED vars
    BY <1>2, <1>10 DEF Prologue, Epilogue, vars, tables, machine
  <1>11. ASSUME NEW r \in Register, Use(r) \/ ReleaseReg(r) PROVE AllGood'
    BY <1>2, <1>11 DEF Use, ReleaseReg, tables, machine
  <1>12. ASSUME NEW r \in Register, Acquire(r) PROVE AllGood'
    <2> DEFINE V == Holders(Conflicts(pool, r))
    <2>1. CASE Panic("acquire failed")  BY <1>2, <2>1, PanicChanges
    <2>2. CASE ~Panic("acquire failed")
      <3>1. /\ regof' = RegofAfter(V) /\ mem' = MemAfter(V) /\ cell' = CellAfter(V)
            /\ inmem' = InmemAfter(V) /\ UNCHANGED <<alloc, live>>
        BY <1>12, <2>2 DEF Acquire
      <3>2. V \in SUBSET InRegNames  BY HoldersInReg
      <3>3. inmem \subseteq inmem' /\ \A v \in V : alloc[v].regable => v \in inmem'
        BY <3>1 DEF InmemAfter
      <3> HIDE DEF V
      <3> QED  BY <3>1, <3>2, <3>3, EvictCells, EvictGood
    <2> QED  BY <2>1, <2>2
  <1>13. ASSUME NEW x \in Name, NEW r \in Register, UseRegister(x, r) PROVE AllGood'
    <2>1. Declared(x) /\ Place(x, r, Holders(Conflicts(pool, r)), FALSE)  BY <1>13 DEF UseRegister
    <2> QED  BY <1>1, <2>1, HoldersInReg, PlaceGood DEF TablesInv
  <1>14. ASSUME NEW x \in Name, NEW w \in BOOLEAN, RegOperand(x, w) PROVE AllGood'
    <2>1. /\ Declared(x)
          /\ \/ Panic(LoadFailure(NeedSize(x)))
             \/ UNCHANGED <<pool, alloc, regof, regs, inmem, frame, manual, phase, machine, outcome>>
             \/ \E r \in Register, V \in SUBSET InRegNames, c \in BOOLEAN : Place(x, r, V, c)
      BY <1>1, <1>14, RegOperandCases, Zenon
    <2>2. CASE Panic(LoadFailure(NeedSize(x)))  BY <1>2, <2>2, PanicChanges
    <2>3. CASE UNCHANGED <<pool, alloc, regof, regs, inmem, frame, manual, phase, machine, outcome>>
      BY <1>2, <2>3 DEF machine
    <2>4. CASE \E r \in Register, V \in SUBSET InRegNames, c \in BOOLEAN : Place(x, r, V, c)
      BY <1>1, <2>1, <2>4, PlaceGood DEF TablesInv
    <2> QED  BY <2>1, <2>2, <2>3, <2>4
  <1>15. ASSUME NEW x \in Name, NEW w \in BOOLEAN, MemOperand(x, w) PROVE AllGood'
    <2> DEFINE V == IF InReg(x) THEN {x} ELSE {}
    <2>1. /\ V \in SUBSET InRegNames /\ Spilled(V) /\ inmem' = inmem \cup {x}
          /\ UNCHANGED <<alloc, live>>
      BY <1>15 DEF MemOperand, InRegNames
    <2>2. \A v \in V : v \in inmem'  BY <2>1
    <2> HIDE DEF V
    <2> QED  BY <2>1, <2>2, SpilledKeeps
  <1>16. ASSUME NEW x \in Name, NEW w \in BOOLEAN, PartialOperand(x, w) PROVE AllGood'
    BY <1>2, <1>16 DEF PartialOperand, machine
  <1>17. CASE Emit  BY <1>17, EmitGood DEF TablesInv
  <1>18. CASE CallThrough  BY <1>18, CallThroughGood DEF TablesInv
  <1>19. CASE Directive
    BY <1>4, <1>5, <1>6, <1>7, <1>8, <1>9, <1>10, <1>11, <1>13, <1>19 DEF Directive
  <1>20. CASE Instr  BY <1>6, <1>14, <1>15, <1>16, <1>17, <1>18, <1>20 DEF Instr
  <1>21. CASE Claim  BY <1>11, <1>12, <1>21 DEF Claim
  <1> QED  BY <1>3, <1>10, <1>19, <1>20, <1>21 DEF Next

LEMMA InitValues == Init => TablesInv /\ AllGood
  <1> SUFFICES ASSUME Init PROVE TablesInv /\ AllGood  OBVIOUS
  <1>1. \A x \in Name : alloc[x] = Undeclared  BY DEF Init
  <1>2. Undeclared.size = 0  BY DEF Undeclared
  <1>3. DeclaredNames = {}  BY <1>1, <1>2 DEF DeclaredNames, Declared
  <1>4. live = {} /\ operands = {} /\ phase = "args"  BY DEF Init
  <1> QED  BY <1>3, <1>4 DEF TablesInv, LiveDeclared, ChunksInMem, OperandsKnown, CallingRegs, AllGood

(* What coherence leans on, in every program.                              *)
LEMMA TablesInvariant == Spec => []TablesInv
  <1>1. Init => TablesInv  BY InitValues
  <1>2. AllocInv /\ TablesInv /\ [Next]_vars => TablesInv'  BY NextTables
  <1> QED  BY <1>1, <1>2, Invariance, PTL DEF Spec

(* Wherever the allocator will look for a local's value, it is there: no   *)
(* eviction, load, call, pin or forget of any program loses or overwrites  *)
(* it (function.go), as long as no local is pinned to a high byte.         *)
THEOREM ValuesCorrect == Spec /\ []NoHighLocals => []Coherent
  <1>1. Spec => []AllocInv  BY Invariance
  <1>2. Init => FrameInv  BY InitFrame
  <1>3. AllocInv /\ FrameInv /\ [Next]_vars => FrameInv'  BY NextFrame
  <1>4. Init => TablesInv /\ AllGood  BY InitValues
  <1>5. AllocInv /\ TablesInv /\ [Next]_vars => TablesInv'  BY NextTables
  <1>6. AllocInv => NoOverlap  BY InvNoOverlap
  <1>7. AllocInv /\ FrameInv /\ NoOverlap /\ NoHighLocals => FullInv  BY DEF FullInv
  <1>8. FullInv /\ TablesInv /\ AllGood /\ [Next]_vars /\ FullInv' => AllGood'  BY NextGood
  <1>9. AllGood => Coherent  BY GoodCoherent
  <1> QED  BY <1>1, <1>2, <1>3, <1>4, <1>5, <1>6, <1>7, <1>8, <1>9, PTL DEF Spec

-----------------------------------------------------------------------------
(* A register that is used joins the last of the list.                     *)
LEMMA UpdateEnd ==
  ASSUME NEW s \in Seq(Register), NoRepeats(s), NEW r \in Register, NEW O, EndsWith(s, O)
  PROVE  EndsWith(updateLRU(s, r), O \cup {r})
  <1> DEFINE t == Without(s, {r})
  <1>1. t \in Seq(Register) /\ Listed(t) = Listed(s) \ {r} /\ EndsWith(t, O)
    BY WithoutShape
  <1>2. updateLRU(s, r) = Append(t, r)  BY DEF updateLRU
  <1> HIDE DEF t
  <1>3. EndsWith(t, O \cup {r})
    <2>1. \A i \in DOMAIN t : t[i] # r  BY <1>1 DEF Listed
    <2> QED  BY <1>1, <2>1 DEF EndsWith
  <1> QED  BY <1>1, <1>2, <1>3, AppendEnd

(* FirstOf finds a member if the order has one.                            *)
LEMMA FirstExists ==
  ASSUME NEW S, NEW seq \in Seq(S), NEW i \in DOMAIN seq, NEW T, seq[i] \in T
  PROVE  FirstOf(seq, T) # {}
  <1> DEFINE K == {k \in DOMAIN seq : seq[k] \in T}
  <1>1. K \in SUBSET Nat /\ K # {}  OBVIOUS
  <1> HIDE DEF K
  <1>2. PICK k \in K : \A m \in K : k <= m  BY <1>1, LeastNumber
  <1>3. k \in DOMAIN seq /\ seq[k] \in T  BY DEF K
  <1>4. \A j \in 1 .. (k - 1) : seq[j] \notin T
    <2> SUFFICES ASSUME NEW j \in 1 .. (k - 1), seq[j] \in T PROVE FALSE  OBVIOUS
    <2>1. k \in 1 .. Len(seq) /\ Len(seq) \in Nat /\ j \in 1 .. Len(seq)  BY <1>3
    <2>2. j \in K  BY <2>1 DEF K
    <2> QED  BY <1>2, <2>1, <2>2
  <1> QED  BY <1>3, <1>4 DEF FirstOf

(* Counting: an image is no larger.                                        *)
LEMMA ImageSize ==
  ASSUME NEW S, IsFiniteSet(S), NEW f, DOMAIN f = S, f = [x \in S |-> f[x]]
  PROVE  /\ IsFiniteSet({f[x] : x \in S})
         /\ Cardinality({f[x] : x \in S}) <= Cardinality(S)
  <1> DEFINE T == {f[x] : x \in S}
  <1>1. f \in Surjection(S, T)  BY DEF Surjection
  <1> HIDE DEF T
  <1>2. IsFiniteSet(T) /\ Cardinality(T) <= Cardinality(S)  BY <1>1, FS_Surjection
  <1> QED  BY <1>2 DEF T

(* A union has at most as many elements as its parts together.             *)
LEMMA UnionSize ==
  ASSUME NEW S, IsFiniteSet(S), NEW T, IsFiniteSet(T)
  PROVE  /\ IsFiniteSet(S \cup T) /\ Cardinality(S) \in Nat /\ Cardinality(T) \in Nat
         /\ Cardinality(S \cup T) \in Nat
         /\ Cardinality(S \cup T) <= Cardinality(S) + Cardinality(T)
  <1>1. /\ IsFiniteSet(S \cup T)
        /\ Cardinality(S \cup T) = Cardinality(S) + Cardinality(T) - Cardinality(S \cap T)
    BY FS_Union
  <1>2. IsFiniteSet(S \cap T)
    <2>1. S \cap T \in SUBSET S  OBVIOUS
    <2> QED  BY <2>1, FS_Subset
  <1>3. /\ Cardinality(S) \in Nat /\ Cardinality(T) \in Nat /\ Cardinality(S \cap T) \in Nat
        /\ Cardinality(S \cup T) \in Nat
    BY <1>1, <1>2, FS_CardinalityType
  <1> QED  BY <1>1, <1>3

-----------------------------------------------------------------------------
(* The registers the whole operands of the instruction in progress are in. *)
Whole == {o \in operands : ~o.part}
OpLocs == {o.loc : o \in Whole} \ {NoReg}

(* The whole operands of the instruction are where they were resolved, and *)
(* their registers are the last used.                                      *)
OperandInv ==
  /\ IsFiniteSet(operands) /\ IsFiniteSet(manual)
  /\ \A o \in Whole : o.loc = regof[o.name]
  /\ EndsWith(lru, OpLocs)
  /\ outcome \notin {"operand displaced", "failed to load register"}

(* The sets that Roomy counts.                                             *)
LEMMA TakenFinite ==
  ASSUME LruInv, OperandInv, NEW w
  PROVE  IsFiniteSet(Taken(w)) /\ IsFiniteSet(Candidates(w))
  <1>1. IsFiniteSet({r \in Held : Width(r) < w})
    <2>1. lru \in Seq(Register) /\ Listed(lru) = Held  BY LruShape
    <2>2. Len(lru) \in Nat /\ DOMAIN lru = 1 .. Len(lru) /\ lru = [i \in DOMAIN lru |-> lru[i]]
      BY <2>1
    <2>3. IsFiniteSet(DOMAIN lru)
      <3>1. IsFiniteSet(1 .. Len(lru))  BY <2>2, FS_Interval
      <3> QED  BY <2>2, <3>1
    <2>4. IsFiniteSet({lru[i] : i \in DOMAIN lru})  BY <2>2, <2>3, ImageSize
    <2>5. IsFiniteSet(Held)  BY <2>1, <2>4 DEF Listed
    <2>6. {r \in Held : Width(r) < w} \in SUBSET Held  OBVIOUS
    <2> QED  BY <2>5, <2>6, FS_Subset
  <1>2. IsFiniteSet(OpLocs)
    <2> DEFINE loc == [o \in Whole |-> o.loc]
               L == {loc[o] : o \in Whole}
    <2>1. IsFiniteSet(Whole)
      <3>1. Whole \in SUBSET operands  BY DEF Whole
      <3> QED  BY <3>1, FS_Subset DEF OperandInv
    <2>2. IsFiniteSet(L)
      <3>1. DOMAIN loc = Whole /\ loc = [o \in Whole |-> loc[o]]  OBVIOUS
      <3> HIDE DEF loc
      <3> QED  BY <2>1, <3>1, ImageSize
    <2>3. OpLocs \in SUBSET L  BY DEF OpLocs
    <2> HIDE DEF L
    <2> QED  BY <2>2, <2>3, FS_Subset
  <1>3. Taken(w) = ({r \in Held : Width(r) < w} \cup manual) \cup OpLocs
    BY DEF Taken, OpLocs, Whole
  <1>4. IsFiniteSet(manual)  BY DEF OperandInv
  <1>5. IsFiniteSet(Taken(w))  BY <1>1, <1>2, <1>3, <1>4, UnionSize
  <1>6. ASSUME NEW s \in Seq(Full) PROVE IsFiniteSet({s[i] : i \in DOMAIN s} \ {rbp})
    <2>1. Len(s) \in Nat /\ DOMAIN s = 1 .. Len(s) /\ s = [i \in DOMAIN s |-> s[i]]  OBVIOUS
    <2>2. IsFiniteSet(DOMAIN s)
      <3>1. IsFiniteSet(1 .. Len(s))  BY <2>1, FS_Interval
      <3> QED  BY <2>1, <3>1
    <2>3. IsFiniteSet({s[i] : i \in DOMAIN s})  BY <2>1, <2>2, ImageSize
    <2>4. ({s[i] : i \in DOMAIN s} \ {rbp}) \in SUBSET {s[i] : i \in DOMAIN s}  OBVIOUS
    <2> QED  BY <2>3, <2>4, FS_Subset
  <1>7. regs64 \in Seq(Full) /\ regs8 \in Seq(Full)  BY RegisterFile
  <1>8. IsFiniteSet(Candidates(w))
    <2>1. CASE w = 8  BY <1>6, <1>7, <2>1 DEF Candidates
    <2>2. CASE w # 8  BY <1>6, <1>7, <2>2 DEF Candidates
    <2> QED  BY <2>1, <2>2
  <1> QED  BY <1>5, <1>8

(* When no register is free for w bits, every full register that serves    *)
(* them is in use.                                                         *)
LEMMA NoneFree ==
  ASSUME TypeOK, NEW w \in Sizes, Get(pool, w) = {}, NEW f \in Candidates(w)
  PROVE  f \in Full /\ f # rbp /\ (pool.size[f] # 0 \/ LowByte(f) \in pool.bytes)
  <1>1. regs64 \in Seq(Full) /\ regs8 \in Seq(HasLow) /\ HasLow \subseteq Full  BY RegisterFile
  <1>2. CASE w = 8
    <2> DEFINE free == {g \in HasLow : CanUse(pool, LowByte(g))}
    <2>1. PICK i \in DOMAIN regs8 : regs8[i] = f /\ f # rbp  BY <1>2 DEF Candidates
    <2>2. f \in HasLow  BY <1>1, <2>1
    <2>3. f \notin free
      <3> SUFFICES ASSUME f \in free PROVE FALSE  OBVIOUS
      <3> HIDE DEF free
      <3>1. FirstOf(regs8, free) # {}  BY <1>1, <2>1, FirstExists
      <3>2. Get(pool, w) = {LowByte(g) : g \in FirstOf(regs8, free)}  BY <1>2 DEF Get, Unused8, free
      <3> QED  BY <3>1, <3>2
    <2>4. ~CanUse(pool, LowByte(f))  BY <2>2, <2>3
    <2>5. FullReg(LowByte(f)) = f  BY DEF LowByte, FullReg
    <2>6. IsByte(LowByte(f))  BY DEF LowByte, IsByte
    <2> QED  BY <1>1, <2>1, <2>2, <2>4, <2>5, <2>6 DEF CanUse, InUse
  <1>3. CASE w # 8
    <2> DEFINE free == {g \in Full : ~FullInUse(pool, g)}
    <2>1. PICK i \in DOMAIN regs64 : regs64[i] = f /\ f # rbp  BY <1>3 DEF Candidates
    <2>2. f \in Full  BY <1>1, <2>1
    <2>3. f \notin free
      <3> SUFFICES ASSUME f \in free PROVE FALSE  OBVIOUS
      <3> HIDE DEF free
      <3>1. FirstOf(regs64, free) # {}  BY <1>1, <2>1, FirstExists
      <3>2. Get(pool, w) = {PartialReg(g, w) : g \in FirstOf(regs64, free)}
        BY <1>3 DEF Get, Unused, free
      <3> QED  BY <3>1, <3>2
    <2> QED  BY <2>1, <2>2, <2>3 DEF FullInUse
  <1> QED  BY <1>2, <1>3

(* When no register is free for w bits and there is room, some local that  *)
(* is no whole operand of the instruction is in one that is wide enough.   *)
LEMMA SpareHolder ==
  ASSUME AllocInv, LruInv, OperandInv, NEW w \in Sizes, Get(pool, w) = {},
         Cardinality(Taken(w)) < Cardinality(Candidates(w))
  PROVE  \E r \in Held : Width(r) >= w /\ r \notin OpLocs
  <1> SUFFICES ASSUME \A r \in Held : Width(r) >= w => r \in OpLocs PROVE FALSE  OBVIOUS
  <1> DEFINE O == Held \cup Reserved
             T == Taken(w)
             full == [r \in T |-> FullReg(r)]
             F == {full[r] : r \in T}
             C == Candidates(w)
  <1>1. TypeOK /\ HoldersAgree /\ PoolExact  BY InvFacts
  <1>2. IsFiniteSet(T) /\ IsFiniteSet(C)  BY TakenFinite
  <1>3. IsFiniteSet(F) /\ Cardinality(F) <= Cardinality(T)
    <2>1. DOMAIN full = T /\ full = [r \in T |-> full[r]]  OBVIOUS
    <2> HIDE DEF full, T
    <2> QED  BY <1>2, <2>1, ImageSize
  <1>4. ASSUME NEW f \in C PROVE f \in F
    <2>1. f \in Full /\ f # rbp /\ (pool.size[f] # 0 \/ LowByte(f) \in pool.bytes)
      BY <1>1, NoneFree
    <2>2. O \in SUBSET Register /\ pool \in PoolType /\ Exact(pool, O)
          /\ FullReg(PartialReg(rbp, 64)) = rbp
      BY <1>1, HeldFacts DEF PoolExact, TypeOK
    <2>3. \E r \in O : FullReg(r) = f
      <3> HIDE DEF O
      <3>1. CASE pool.size[f] = 8  BY <2>1, <2>2, <3>1 DEF Exact
      <3>2. CASE pool.size[f] \notin {0, 8}
        <4>1. {r \in O : FullReg(r) = f} = {PartialReg(f, pool.size[f])}
          BY <2>1, <2>2, <3>2 DEF Exact
        <4> QED  BY <4>1
      <3>3. CASE LowByte(f) \in pool.bytes
        <4>1. LowByte(f) \in O  BY <2>2, <3>3 DEF Exact
        <4>2. FullReg(LowByte(f)) = f  BY DEF LowByte, FullReg
        <4> QED  BY <4>1, <4>2
      <3> QED  BY <2>1, <3>1, <3>2, <3>3
    <2>4. PICK r \in O : FullReg(r) = f  BY <2>3
    <2>5. r \in Held \cup manual  BY <2>1, <2>2, <2>4 DEF Reserved
    <2>6. ASSUME r \in Held PROVE Width(r) < w \/ r \in OpLocs
      <3>1. r \in Register  BY <2>2, <2>6
      <3>2. Width(r) \in Nat /\ w \in Nat
        BY <3>1, RegisterShape DEF Width, WidthOfPart, Sizes
      <3> QED  BY <2>6, <3>2
    <2>7. r \in T  BY <2>5, <2>6 DEF Taken, OpLocs, Whole
    <2> HIDE DEF T
    <2> QED  BY <2>4, <2>7
  <1>5. Cardinality(C) <= Cardinality(F)
    <2>1. C \in SUBSET F  BY <1>4
    <2> HIDE DEF F, C
    <2> QED  BY <1>3, <2>1, FS_Subset
  <1>6. Cardinality(C) \in Nat /\ Cardinality(F) \in Nat /\ Cardinality(T) \in Nat
    <2> HIDE DEF F, C, T
    <2> QED  BY <1>2, <1>3, FS_CardinalityType
  <1> HIDE DEF F
  <1> QED  BY <1>3, <1>5, <1>6

(* Get has a part of a full register to hand out unless all are in use.    *)
LEMMA GetFull ==
  ASSUME NEW p \in PoolType, NEW f \in Full, p.size[f] = 0, NEW w \in Sizes \ {8}
  PROVE  Get(p, w) # {}
  <1> DEFINE free == {g \in Full : ~FullInUse(p, g)}
  <1>1. PICK i \in DOMAIN regs64 : regs64[i] = f  BY AllocConstants
  <1>2. regs64[i] \in free  BY <1>1 DEF FullInUse
  <1> HIDE DEF free
  <1>3. FirstOf(regs64, free) # {}  BY <1>1, <1>2, RegisterFile, FirstExists
  <1>4. Get(p, w) = {PartialReg(g, w) : g \in FirstOf(regs64, free)}
    BY DEF Get, Unused, free
  <1> QED  BY <1>3, <1>4

(* Evict(w) takes the register of a local that is no whole operand, and    *)
(* unless a byte was asked for Get finds its full register free.           *)
LEMMA VictimFacts ==
  ASSUME AllocInv, LruInv, OperandInv, NEW w \in Sizes, Get(pool, w) = {},
         Cardinality(Taken(w)) < Cardinality(Candidates(w))
  PROVE  /\ LruVictim(w) # {}
         /\ w # 8 => Get(PoolAfter(LruVictim(w)), w) # {}
         /\ \A o \in Whole : o.name \notin LruVictim(w)
  <1> DEFINE V == LruVictim(w)
             O == Held \cup Reserved
             wide == {i \in DOMAIN lru : Width(lru[i]) >= w}
  <1>1. TypeOK /\ HoldersAgree /\ PoolExact /\ InRegNames \subseteq Name  BY InvFacts
  <1>2. PICK h \in Held : Width(h) >= w /\ h \notin OpLocs  BY SpareHolder
  <1>3. lru \in Seq(Register) /\ Listed(lru) = Held  BY LruShape
  <1>4. PICK k \in DOMAIN lru : lru[k] = h  BY <1>2, <1>3 DEF Listed
  <1>5. wide \in SUBSET Nat /\ k \in wide  BY <1>2, <1>3, <1>4
  <1>6. PICK m \in wide : \A j \in wide : m <= j
    <2> HIDE DEF wide
    <2> QED  BY <1>5, LeastNumber
  <1>7. m \in DOMAIN lru /\ m \in Nat /\ k \in Nat /\ m <= k /\ Width(lru[m]) >= w
    BY <1>5, <1>6
  <1>8. lru[m] \in Held /\ lru[m] \in Register  BY <1>3, <1>7 DEF Listed
  <1>9. lru[m] \notin OpLocs
    <2> SUFFICES ASSUME lru[m] \in OpLocs PROVE FALSE  OBVIOUS
    <2>1. m < k \/ m = k  BY <1>7
    <2> QED  BY <2>1, <1>2, <1>4, <1>7 DEF OperandInv, EndsWith
  <1>10. PICK x \in Name : InReg(x) /\ regof[x] = lru[m]  BY <1>8 DEF Held
  <1>11. regs[lru[m]] = x  BY <1>1, <1>8, <1>10 DEF HoldersAgree
  <1>12. V = {x}
    <2>1. V = {y \in Name : InReg(y) /\ \E i \in wide : /\ \A j \in wide : i <= j
                                                       /\ regs[lru[i]] = y}
      BY DEF LruVictim
    <2>2. \A i \in wide : (\A j \in wide : i <= j) => i = m
      <3> SUFFICES ASSUME NEW i \in wide, \A j \in wide : i <= j PROVE i = m  OBVIOUS
      <3>1. i \in Nat /\ i <= m /\ m <= i  BY <1>5, <1>6
      <3> HIDE DEF wide
      <3> QED  BY <1>7, <3>1
    <2> HIDE DEF wide, V
    <2> QED  BY <2>1, <2>2, <1>6, <1>10, <1>11
  <1>13. \A o \in Whole : o.name \notin V
    <2> SUFFICES ASSUME NEW o \in Whole, o.name = x PROVE FALSE  BY <1>12
    <2>1. o.loc = lru[m]  BY <1>10 DEF OperandInv
    <2> QED  BY <2>1, <1>9, <1>10 DEF OpLocs, InReg
  <1>14. ASSUME w # 8 PROVE Get(PoolAfter(V), w) # {}
    <2> DEFINE f == FullReg(lru[m])
               p == PoolAfter(V)
               U == (Held \ RegsOf(V)) \cup Reserved
    <2>1. V \in SUBSET InRegNames  BY HoldersInReg
    <2>2. p \in PoolType /\ Exact(p, U)
      <3> HIDE DEF V
      <3> QED  BY <1>1, <2>1, EvictPool
    <2>3. RegsOf(V) = {lru[m]}  BY <1>10, <1>12 DEF RegsOf
    <2>4. U \subseteq O /\ lru[m] \in O /\ lru[m] \notin U
      BY <1>1, <1>8, <2>3 DEF PoolExact
    <2>5. O \in SUBSET Register /\ pool \in PoolType /\ Exact(pool, O)
      BY <1>1, HeldFacts DEF PoolExact, TypeOK
    <2>6. f \in Full /\ ~IsByte(lru[m])
      <3>1. f \in Full /\ (IsByte(lru[m]) <=> Width(lru[m]) = 8)  BY <1>8, RegisterShape
      <3>2. w \in {16, 32, 64}  BY <1>14 DEF Sizes
      <3> QED  BY <1>7, <3>1, <3>2
    <2> HIDE DEF O, U, p, V, wide
    <2>7. ASSUME NEW r \in U PROVE FullReg(r) # f
      <3>1. r \in O /\ r # lru[m] /\ r \in Register  BY <2>4, <2>5
      <3>2. ~Overlap(r, lru[m])  BY <2>4, <2>5, <3>1, ExactDisjoint
      <3> QED  BY <1>8, <2>6, <3>1, <3>2, OverlapShape
    <2>8. p.size[f] = 0
      <3> SUFFICES ASSUME p.size[f] # 0 PROVE FALSE  OBVIOUS
      <3>1. CASE p.size[f] = 8  BY <2>2, <2>6, <2>7, <3>1 DEF Exact
      <3>2. CASE p.size[f] # 8
        <4>1. {r \in U : FullReg(r) = f} = {PartialReg(f, p.size[f])}
          BY <2>2, <2>6, <3>2 DEF Exact
        <4> QED  BY <4>1, <2>7
      <3> QED  BY <3>1, <3>2
    <2> QED  BY <1>14, <2>2, <2>6, <2>8, GetFull DEF p
  <1> QED  BY <1>12, <1>13, <1>14

(* A step that resolves no operand, or ends the instruction.               *)
LEMMA QuietOperands ==
  ASSUME OperandInv,
         operands' = {} \/ (operands' = operands /\ regof' = regof /\ lru' = lru),
         IsFiniteSet(manual'),
         outcome' \in {outcome, "acquire failed", "failed to load byte register",
                       "partial operand displaced"}
  PROVE  OperandInv'
  <1>1. IsFiniteSet(operands')  BY FS_EmptySet DEF OperandInv
  <1>2. \A o \in Whole' : o.loc = regof'[o.name]  BY DEF OperandInv, Whole
  <1>3. EndsWith(lru', OpLocs')
    <2>1. CASE operands' = {}
      <3>1. OpLocs' = {}  BY <2>1 DEF OpLocs, Whole
      <3> QED  BY <3>1 DEF EndsWith
    <2>2. CASE operands' = operands /\ lru' = lru  BY <2>2 DEF OperandInv, OpLocs, Whole
    <2> QED  BY <2>1, <2>2
  <1>4. outcome' \notin {"operand displaced", "failed to load register"}  BY DEF OperandInv
  <1> QED  BY <1>1, <1>2, <1>3, <1>4 DEF OperandInv

(* One more whole operand that is where it was said to be and joins the    *)
(* last of the list, or is in no register; the others stay where they were.*)
LEMMA NextOperand ==
  ASSUME OperandInv, NEW x \in Name, NEW w, NEW r,
         operands' = operands \cup {Operand(x, r, w)}, regof'[x] = r,
         \A o \in Whole : regof'[o.name] = regof[o.name],
         EndsWith(lru', OpLocs \cup ({r} \ {NoReg})),
         manual' = manual, outcome' = outcome
  PROVE  OperandInv'
  <1> DEFINE p == Operand(x, r, w)
  <1>1. operands' = operands \cup {p} /\ p.loc = r /\ p.name = x /\ ~p.part  BY DEF Operand
  <1> HIDE DEF p
  <1>2. IsFiniteSet(operands')
    <2>1. IsFiniteSet(operands)  BY DEF OperandInv
    <2> QED  BY <1>1, <2>1, FS_AddElement
  <1>3. Whole' = Whole \cup {p}  BY <1>1 DEF Whole
  <1>4. \A o \in Whole' : o.loc = regof'[o.name]  BY <1>1, <1>3 DEF OperandInv
  <1>5. OpLocs' = OpLocs \cup ({r} \ {NoReg})  BY <1>1, <1>3 DEF OpLocs
  <1> QED  BY <1>2, <1>4, <1>5 DEF OperandInv

(* A part of a local moves nothing.                                        *)
LEMMA PartialStable ==
  ASSUME OperandInv, NEW x \in Name, NEW w, PartialOperand(x, w)
  PROVE  OperandInv'
  <1> DEFINE p == Partial(x, regof[x], w)
  <1>1. operands' = operands \cup {p} /\ p.part  BY DEF PartialOperand, Partial
  <1>2. UNCHANGED <<regof, lru, manual, outcome>>  BY DEF PartialOperand
  <1> HIDE DEF p
  <1>3. IsFiniteSet(operands')
    <2>1. IsFiniteSet(operands)  BY DEF OperandInv
    <2> QED  BY <1>1, <2>1, FS_AddElement
  <1>4. Whole' = Whole  BY <1>1 DEF Whole
  <1>5. OpLocs' = OpLocs  BY <1>4 DEF OpLocs
  <1> QED  BY <1>2, <1>3, <1>4, <1>5 DEF OperandInv

(* Loading x for an operand once the locals of V are evicted.              *)
LEMMA LoadOperand ==
  ASSUME AllocInv, LruInv, OperandInv, NEW x \in Name, NEW w, ~InReg(x),
         \A o \in operands : o.name # x,
         NEW V \in SUBSET InRegNames, \A o \in Whole : o.name \notin V,
         NEW r \in Register, NEW c, Place(x, r, V, c),
         operands' = operands \cup {Operand(x, r, w)}, outcome' = outcome
  PROVE  OperandInv'
  <1>1. TypeOK  BY InvFacts
  <1>2. /\ regof' = [RegofAfter(V) EXCEPT ![x] = r] /\ lru' = updateLRU(LruAfter(V), r)
        /\ manual' = manual
    <2>1. V \cup {} = V  OBVIOUS
    <2> QED  BY <2>1 DEF Place
  <1>3. \A y \in Name : regof'[y] = IF y = x THEN r ELSE IF y \in V THEN NoReg ELSE regof[y]
    BY <1>2 DEF RegofAfter
  <1>4. \A o \in Whole : o.name \in Name /\ o.name # x
    BY <1>1 DEF TypeOK, OperandType, Whole
  <1>5. lru \in Seq(Register) /\ NoRepeats(lru) /\ EndsWith(lru, OpLocs)
    BY LruShape DEF OperandInv
  <1>6. /\ LruAfter(V) \in Seq(Register) /\ NoRepeats(LruAfter(V))
        /\ EndsWith(LruAfter(V), OpLocs)
    BY <1>5, WithoutShape DEF LruAfter
  <1>7. EndsWith(lru', OpLocs \cup {r})  BY <1>2, <1>6, UpdateEnd
  <1>8. {r} \ {NoReg} = {r}  BY AllocConstants
  <1>9. EndsWith(lru', OpLocs \cup ({r} \ {NoReg}))  BY <1>7, <1>8
  <1>10. \A o \in Whole : regof'[o.name] = regof[o.name]  BY <1>3, <1>4
  <1>11. regof'[x] = r  BY <1>3
  <1> QED  BY <1>2, <1>9, <1>10, <1>11, NextOperand

(* What Get hands out for an operand can be used.                          *)
LEMMA LoadsRegister ==
  ASSUME AllocInv, NEW x \in Name
  PROVE  /\ NeedSize(x) \in LocalSizes \cup {64} /\ NeedSize(x) \in Sizes
         /\ \A r \in Get(pool, NeedSize(x)) : r \in Register /\ CanUse(pool, r)
         /\ \A V \in SUBSET InRegNames : \A r \in Get(PoolAfter(V), NeedSize(x)) :
              r \in Register /\ CanUse(PoolAfter(V), r)
  <1> DEFINE need == NeedSize(x)
  <1>1. TypeOK /\ HoldersAgree /\ PoolExact /\ RegableSizes  BY InvFacts
  <1>2. need \in LocalSizes \cup {64}  BY <1>1 DEF NeedSize, RegableSizes
  <1>3. 64 \in Sizes /\ PartOfWidth(64) \in Wide  BY RegisterFile DEF Sizes, PartOfWidth
  <1> HIDE DEF need
  <1>4. need \in Sizes /\ (need # 8 => PartOfWidth(need) \in Wide)
    BY <1>2, <1>3, AllocConstants
  <1>5. \A p \in PoolType : \A r \in Get(p, need) : r \in Register /\ CanUse(p, r)
    BY <1>4, GetUsable
  <1>6. pool \in PoolType /\ \A V \in SUBSET InRegNames : PoolAfter(V) \in PoolType
    BY <1>1, EvictPool DEF TypeOK
  <1> QED  BY <1>2, <1>4, <1>5, <1>6 DEF need

(* An operand that has to be in a register takes one from no whole         *)
(* operand, and one of more than a byte finds one.                         *)
LEMMA RegOperandStable ==
  ASSUME AllocInv, LruInv, OperandInv, Roomy,
         NEW x \in Name, NEW w \in BOOLEAN, RegOperand(x, w)
  PROVE  OperandInv'
  <1> DEFINE need == NeedSize(x)
             V == LruVictim(need)
             clear == alloc[x].regable /\ need < 64
  <1>1. TypeOK /\ need \in LocalSizes \cup {64} /\ need \in Sizes
    BY InvFacts, LoadsRegister
  <1> HIDE DEF need
  <1>2. Cardinality(operands) < MaxOperands /\ \A o \in operands : o.name # x
    <2>1. AtOperand(x, w) \/ AtCallTarget(x)  BY Zenon DEF RegOperand
    <2>2. CASE AtOperand(x, w)  BY <2>2 DEF AtOperand
    <2>3. CASE AtCallTarget(x)
      <3>1. operands = {} /\ MaxOperands > 0  BY <2>3, AllocConstants DEF AtCallTarget
      <3> QED  BY <3>1, FS_EmptySet
    <2> QED  BY <2>1, <2>2, <2>3
  <1>3. Cardinality(Taken(need)) < Cardinality(Candidates(need))  BY <1>1, <1>2 DEF Roomy
  <1>4. V \in SUBSET InRegNames /\ {} \in SUBSET InRegNames  BY HoldersInReg
  <1>5. \A r \in Get(pool, need) \cup Get(PoolAfter(V), need) : r \in Register
    BY <1>4, LoadsRegister DEF need
  <1>7. CASE /\ InReg(x)
             /\ lru' = updateLRU(lru, regof[x])
             /\ operands' = operands \cup {Operand(x, regof[x], w)}
             /\ UNCHANGED <<regof, manual, outcome>>
    <2> DEFINE r == regof[x]
    <2>1. r \in Register /\ r # NoReg  BY <1>1, <1>7 DEF InReg, TypeOK
    <2>2. lru \in Seq(Register) /\ NoRepeats(lru) /\ EndsWith(lru, OpLocs)
      BY LruShape DEF OperandInv
    <2>3. operands' = operands \cup {Operand(x, r, w)} /\ regof'[x] = r  BY <1>7
    <2> HIDE DEF r
    <2>4. {r} \ {NoReg} = {r}  BY <2>1
    <2>5. EndsWith(lru', OpLocs \cup {r})  BY <1>7, <2>1, <2>2, UpdateEnd DEF r
    <2>6. EndsWith(lru', OpLocs \cup ({r} \ {NoReg}))  BY <2>4, <2>5
    <2> QED  BY <1>7, <2>3, <2>6, NextOperand
  <1>8. ASSUME ~InReg(x), NEW r \in Get(pool, need), Place(x, r, {}, clear),
               operands' = operands \cup {Operand(x, r, w)}, outcome' = outcome
        PROVE  OperandInv'
    <2>1. r \in Register  BY <1>5, <1>8
    <2> HIDE DEF clear
    <2> QED  BY <1>2, <1>4, <1>8, <2>1, LoadOperand
  <1>9. ASSUME ~InReg(x), Get(pool, need) = {}, NEW r \in Get(PoolAfter(V), need),
               Place(x, r, V, clear),
               operands' = operands \cup {Operand(x, r, w)}, outcome' = outcome
        PROVE  OperandInv'
    <2>1. r \in Register  BY <1>5, <1>9
    <2>2. \A o \in Whole : o.name \notin V  BY <1>1, <1>3, <1>9, VictimFacts
    <2> HIDE DEF clear, V
    <2> QED  BY <1>2, <1>4, <1>9, <2>1, <2>2, LoadOperand
  <1>10. ASSUME Get(pool, need) = {}, V = {} \/ Get(PoolAfter(V), need) = {},
                Panic(LoadFailure(need))
         PROVE  OperandInv'
    <2>1. need = 8  BY <1>1, <1>3, <1>10, VictimFacts
    <2>2. outcome' = "failed to load byte register"  BY <1>10, <2>1 DEF Panic, LoadFailure
    <2>3. UNCHANGED <<operands, regof, lru, manual>>  BY <1>10, Zenon DEF Panic, tables
    <2>4. IsFiniteSet(manual')  BY <2>3 DEF OperandInv
    <2> QED  BY <2>2, <2>3, <2>4, QuietOperands
  <1>11. \/ /\ InReg(x)
            /\ lru' = updateLRU(lru, regof[x])
            /\ operands' = operands \cup {Operand(x, regof[x], w)}
            /\ UNCHANGED <<regof, manual, outcome>>
         \/ /\ ~InReg(x)
            /\ \E r \in Get(pool, need) : /\ Place(x, r, {}, clear)
                 /\ operands' = operands \cup {Operand(x, r, w)} /\ outcome' = outcome
         \/ /\ ~InReg(x) /\ Get(pool, need) = {} /\ V # {}
            /\ \E r \in Get(PoolAfter(V), need) : /\ Place(x, r, V, clear)
                 /\ operands' = operands \cup {Operand(x, r, w)} /\ outcome' = outcome
         \/ /\ Get(pool, need) = {}
            /\ V = {} \/ Get(PoolAfter(V), need) = {}
            /\ Panic(LoadFailure(need))
    BY Zenon DEF RegOperand, need
  <1> HIDE DEF V, clear
  <1> QED  BY <1>7, <1>8, <1>9, <1>10, <1>11

(* An operand taken from memory: only its own local gives a register up.   *)
LEMMA MemOperandStable ==
  ASSUME AllocInv, LruInv, OperandInv, NEW x \in Name, NEW w \in BOOLEAN, MemOperand(x, w)
  PROVE  OperandInv'
  <1> DEFINE V == IF InReg(x) THEN {x} ELSE {}
  <1>1. V \in SUBSET InRegNames /\ TypeOK  BY InvFacts DEF InRegNames
  <1>2. /\ regof' = RegofAfter(V) /\ lru' = LruAfter(V)
        /\ operands' = operands \cup {Operand(x, NoReg, w)}
        /\ manual' = manual /\ outcome' = outcome
    BY DEF MemOperand, Spilled
  <1>3. \A y \in Name : regof'[y] = IF y \in V THEN NoReg ELSE regof[y]
    BY <1>2 DEF RegofAfter
  <1>4. regof'[x] = NoReg  BY <1>3 DEF InReg
  <1>5. \A o \in operands : o.name # x
    <2>1. AtOperand(x, w)  BY DEF MemOperand
    <2> QED  BY <2>1 DEF AtOperand
  <1>6. \A o \in Whole : regof'[o.name] = regof[o.name]
    BY <1>1, <1>3, <1>5 DEF TypeOK, OperandType, Whole
  <1>7. OpLocs \cup ({NoReg} \ {NoReg}) = OpLocs  OBVIOUS
  <1>8. EndsWith(lru', OpLocs)
    <2>1. lru \in Seq(Register) /\ EndsWith(lru, OpLocs)  BY LruShape DEF OperandInv
    <2> QED  BY <1>2, <2>1, WithoutShape DEF LruAfter
  <1> QED  BY <1>2, <1>4, <1>6, <1>7, <1>8, NextOperand

(* The whole operands are where they were resolved: only a part can be     *)
(* displaced.                                                              *)
LEMMA EmitStable ==
  ASSUME OperandInv, Emit
  PROVE  OperandInv'
  <1>1. \A o \in Displaced : o.part
    <2> SUFFICES ASSUME NEW o \in Displaced, ~o.part PROVE FALSE  OBVIOUS
    <2>1. o \in operands /\ o.loc # regof[o.name]  BY DEF Displaced
    <2> QED  BY <2>1 DEF OperandInv, Whole
  <1>2. IsFiniteSet(manual)  BY DEF OperandInv
  <1>3. CASE Panic(Displacement)
    <2>1. outcome' = "partial operand displaced"  BY <1>1, <1>3 DEF Panic, Displacement
    <2>2. UNCHANGED <<operands, regof, lru, manual>>  BY <1>3, Zenon DEF Panic, tables
    <2> QED  BY <1>2, <2>1, <2>2, QuietOperands
  <1>4. CASE ~Panic(Displacement)
    <2>1. operands' = {} /\ UNCHANGED <<manual, outcome>>  BY <1>4, Zenon DEF Emit
    <2> QED  BY <1>2, <2>1, QuietOperands
  <1> QED  BY <1>3, <1>4

(* Every step keeps the operands where they were resolved.                 *)
LEMMA NextOperandInv ==
  ASSUME AllocInv, LruInv, OperandInv, Roomy, [Next]_vars
  PROVE  OperandInv'
  <1>1. IsFiniteSet(manual)  BY DEF OperandInv
  <1>2. ASSUME operands' = {}, manual' = manual, outcome' = outcome PROVE OperandInv'
    BY <1>1, <1>2, QuietOperands
  <1>3. ASSUME UNCHANGED <<operands, regof, lru, manual>>, outcome' \in {outcome, "acquire failed"}
        PROVE  OperandInv'
    BY <1>1, <1>3, QuietOperands
  <1>4. CASE Declare
    <2>1. operands = {} /\ UNCHANGED <<operands, manual, outcome>>
      BY <1>4 DEF Declare, Arg, Local, Bytes, StackArg, AtDeclaration
    <2> QED  BY <1>2, <2>1
  <1>5. CASE Directive
    <2>1. ASSUME NEW r \in Register, ReleaseReg(r) PROVE OperandInv'
      <3>1. /\ operands = {} /\ UNCHANGED <<operands, outcome>> /\ manual' = manual \ {r}
        BY <2>1 DEF ReleaseReg, AtDirective
      <3>2. IsFiniteSet(manual')  BY <1>1, <3>1, FS_RemoveElement
      <3> QED  BY <3>1, <3>2, QuietOperands
    <2>2. CASE ForgetAll \/ EvictAll \/ Call \/ Prologue \/ Epilogue
      <3>1. operands = {} /\ UNCHANGED <<operands, manual, outcome>>
        BY <2>2, Zenon DEF ForgetAll, ForgetNames, EvictAll, Evicted, Call, Prologue, Epilogue,
                           AtDirective, AtDeclaration
      <3> QED  BY <1>2, <3>1
    <2>3. ASSUME NEW x \in Name, Forget(x) \/ Volatile(x) PROVE OperandInv'
      <3>1. operands = {} /\ UNCHANGED <<operands, manual, outcome>>
        BY <2>3, Zenon DEF Forget, ForgetNames, Volatile, AtDirective, AtDeclaration
      <3> QED  BY <1>2, <3>1
    <2>4. ASSUME NEW x \in Name, NEW r \in Register, UseRegister(x, r) PROVE OperandInv'
      <3>1. operands = {} /\ UNCHANGED <<operands, manual, outcome>>
        BY <2>4, Zenon DEF UseRegister, Place, AtDirective
      <3> QED  BY <1>2, <3>1
    <2>5. ASSUME NEW r \in Register, EvictReg(r) PROVE OperandInv'
      <3>1. operands = {} /\ UNCHANGED <<operands, manual, outcome>>
        BY <2>5, Zenon DEF EvictReg, AtDirective
      <3> QED  BY <1>2, <3>1
    <2> QED  BY <1>5, <2>1, <2>2, <2>3, <2>4, <2>5 DEF Directive
  <1>6. CASE Instr
    <2>1. ASSUME NEW x \in Name, NEW w \in BOOLEAN, RegOperand(x, w) PROVE OperandInv'
      BY <2>1, RegOperandStable
    <2>2. ASSUME NEW x \in Name, NEW w \in BOOLEAN, MemOperand(x, w) PROVE OperandInv'
      BY <2>2, MemOperandStable
    <2>3. ASSUME NEW x \in Name, NEW w \in BOOLEAN, PartialOperand(x, w) PROVE OperandInv'
      BY <2>3, PartialStable
    <2>4. CASE Emit  BY <2>4, EmitStable
    <2>5. CASE BeginCallThrough  BY <1>2, <2>5 DEF BeginCallThrough, AtDirective
    <2>6. CASE CallThrough  BY <1>2, <2>6 DEF CallThrough
    <2> QED  BY <1>6, <2>1, <2>2, <2>3, <2>4, <2>5, <2>6 DEF Instr
  <1>7. CASE Claim
    <2>1. ASSUME NEW r, operands = {}, UNCHANGED <<operands, outcome>>, manual' = manual \cup {r}
          PROVE  OperandInv'
      <3>1. IsFiniteSet(manual')  BY <1>1, <2>1, FS_AddElement
      <3> QED  BY <2>1, <3>1, QuietOperands
    <2>2. ASSUME NEW r \in Register, Use(r) PROVE OperandInv'
      BY <2>1, <2>2 DEF Use, AtDirective
    <2>3. ASSUME NEW r \in Register, Acquire(r) PROVE OperandInv'
      <3>1. CASE Panic("acquire failed")  BY <1>3, <3>1 DEF Panic, tables
      <3>2. CASE ~Panic("acquire failed")
        <4>1. operands = {} /\ UNCHANGED <<operands, outcome>> /\ manual' = manual \cup {r}
          BY <2>3, <3>2, Zenon DEF Acquire, AtDirective
        <4> QED  BY <2>1, <4>1
      <3> QED  BY <3>1, <3>2
    <2> QED  BY <1>7, <2>2, <2>3 DEF Claim
  <1>8. CASE UNCHANGED vars  BY <1>3, <1>8 DEF vars, tables
  <1> QED  BY <1>4, <1>5, <1>6, <1>7, <1>8 DEF Next

(* There are no operands at the start.                                     *)
LEMMA InitOperandInv == Init => OperandInv
  <1> SUFFICES ASSUME Init PROVE OperandInv  OBVIOUS
  <1>1. operands = {} /\ manual = {} /\ outcome = "ok" /\ lru = << >>  BY DEF Init
  <1>2. IsFiniteSet({})  BY FS_EmptySet
  <1>3. EndsWith(lru, OpLocs) /\ Whole = {}  BY <1>1 DEF EndsWith, Whole
  <1> QED  BY <1>1, <1>2, <1>3 DEF OperandInv

(* The three invariants together.                                          *)
LEMMA OperandsInvariant == Spec /\ []Roomy => []OperandInv
  <1>1. AllocInv /\ LruInv /\ [Next]_vars => LruInv'  BY NextLru
  <1>2. AllocInv /\ LruInv /\ OperandInv /\ Roomy /\ [Next]_vars => OperandInv'
    BY NextOperandInv
  <1> QED  BY <1>1, <1>2, InitLru, InitOperandInv, Invariance, PTL DEF Spec

(* With locals of any widths and operands `name:bits' among them, resolving*)
(* an operand never displaces another that was resolved as a whole, as long*)
(* as there are more registers than are taken (Ralloc.Register,            *)
(* IForm.Encode).                                                          *)
THEOREM OperandsCorrect == Spec /\ []Roomy => []OperandsStable
  <1>1. OperandInv => OperandsStable  BY DEF OperandInv, OperandsStable
  <1> QED  BY <1>1, OperandsInvariant, PTL

(* With locals of any widths, and as long as there are more registers than *)
(* are taken, the one eviction that Ralloc.Register attempts leaves a      *)
(* register for an operand of 16 bits or more: it does not panic.          *)
THEOREM LoadsCorrect == Spec /\ []Roomy => []AlwaysLoads
  <1>1. OperandInv => AlwaysLoads  BY DEF OperandInv, AlwaysLoads
  <1> QED  BY <1>1, OperandsInvariant, PTL
=============================================================================
