-------------------------- MODULE RegAlloc_proofs --------------------------
(***************************************************************************)
(* For every register file, set of names and bound: the allocator's tables *)
(* are typed and agree with each other, the pool's bookkeeping and the LRU *)
(* list are exact, and no two locals ever share a byte of a register.      *)
(*                                                                         *)
(* Absence of overlap is not inductive: whether a register can be handed   *)
(* out is decided from the pool's sizes and byte marks, so the pool has to *)
(* be exact (PoolExact); which local gives a register up is decided from   *)
(* Rallocs.regs, so that table has to be the inverse of the locations      *)
(* (HoldersAgree); and the frame pointer is taken by the prologue without  *)
(* evicting anyone, so no argument may be in it (ArgsOffFrame).            *)
(*                                                                         *)
(* The LRU list has the registers that hold locals, each once.  What       *)
(* compacting a list leaves is defined by recursion over the list: its     *)
(* shape follows by induction on the prefix that was compacted.            *)
(***************************************************************************)
EXTENDS RegAlloc, TLAPS, WellFoundedInduction

-----------------------------------------------------------------------------
(* The register file and the pool.  Exact(p, O) relates a pool to the set  *)
(* O of registers that are out; the lemmas say what use, release and the   *)
(* queries of the pool do to it.                                           *)

(* The shape of a register (reg.go): its full register, and that a byte    *)
(* register is exactly one of 8 bits; a wider one is the part its width    *)
(* names.                                                                  *)
LEMMA RegisterShape ==
  ASSUME NEW r \in Register
  PROVE  /\ FullReg(r) \in Full
         /\ r = <<r[1], r[2]>>
         /\ r[2] \in {"r64", "r32", "r16", "lo", "hi"}
         /\ IsByte(r) <=> r \in ByteRegister
         /\ Width(r) \in Sizes
         /\ IsByte(r) <=> Width(r) = 8
         /\ ~IsByte(r) => r = PartialReg(FullReg(r), Width(r))
  <1>1. CASE r \in Full \X Wide
    <2>1. PICK f \in Full, w \in Wide : r = <<f, w>>  BY <1>1
    <2>2. w \in {"r64", "r32", "r16"}  BY RegisterFile
    <2>3. ~IsByte(r) /\ r \notin ByteRegister
      BY <2>1, <2>2 DEF IsByte, ByteRegister, LowByte, HighByte
    <2>4. Width(r) \in {16, 32, 64} /\ w = PartOfWidth(Width(r))
      BY <2>1, <2>2 DEF Width, WidthOfPart, PartOfWidth
    <2> QED  BY <2>1, <2>2, <2>3, <2>4 DEF FullReg, Sizes, PartialReg
  <1>2. CASE r \in ByteRegister
    <2>1. PICK f \in Full, w \in {"lo", "hi"} : r = <<f, w>>
      BY <1>2, RegisterFile DEF ByteRegister, LowByte, HighByte
    <2>2. IsByte(r) /\ Width(r) = 8
      BY <2>1 DEF IsByte, Width, WidthOfPart
    <2> QED  BY <1>2, <2>1, <2>2 DEF FullReg, Sizes
  <1> QED  BY <1>1, <1>2 DEF Register

(* Two registers share a byte exactly if they are parts of the same full   *)
(* register and are not its two different bytes.                           *)
LEMMA OverlapShape ==
  ASSUME NEW r \in Register, NEW q \in Register
  PROVE  Overlap(r, q) <=>
           FullReg(r) = FullReg(q) /\ (IsByte(r) /\ IsByte(q) => r = q)
  <1>1. /\ r[2] \in {"r64", "r32", "r16", "lo", "hi"} /\ r = <<r[1], r[2]>>
        /\ q[2] \in {"r64", "r32", "r16", "lo", "hi"} /\ q = <<q[1], q[2]>>
    BY RegisterShape
  <1>2. Overlap(r, q) <=>
          FullReg(r) = FullReg(q) /\ LanesOfPart[r[2]] \cap LanesOfPart[q[2]] # {}
    <2> DEFINE A == LanesOfPart[r[2]]  B == LanesOfPart[q[2]]
    <2>1. ASSUME NEW l \in A, NEW m \in B, r[1] = q[1], l = m
          PROVE  <<r[1], l>> \in Lanes(r) \cap Lanes(q)
      BY <2>1 DEF Lanes, FullReg
    <2>2. ASSUME NEW l \in Lanes(r) \cap Lanes(q)
          PROVE  r[1] = q[1] /\ l[2] \in A \cap B
      BY DEF Lanes, FullReg
    <2>3. Overlap(r, q) => r[1] = q[1] /\ A \cap B # {}
      BY <2>2, Zenon DEF Overlap
    <2>4. r[1] = q[1] /\ A \cap B # {} => Overlap(r, q)
      BY <2>1, Zenon DEF Overlap
    <2> QED  BY <2>3, <2>4 DEF FullReg
  <1>3. ASSUME NEW p \in {"r64", "r32", "r16"}
        PROVE  {"lo", "hi"} \subseteq LanesOfPart[p]
    BY DEF LanesOfPart, Lane
  <1>4. LanesOfPart["lo"] = {"lo"} /\ LanesOfPart["hi"] = {"hi"}
    BY DEF LanesOfPart
  <1>5. LanesOfPart[r[2]] \cap LanesOfPart[q[2]] # {} <=>
          (IsByte(r) /\ IsByte(q) => r[2] = q[2])
    <2>1. CASE ~IsByte(r)  BY <2>1, <1>1, <1>3, <1>4 DEF IsByte
    <2>2. CASE ~IsByte(q)  BY <2>2, <1>1, <1>3, <1>4 DEF IsByte
    <2>3. CASE IsByte(r) /\ IsByte(q)  BY <2>3, <1>4 DEF IsByte
    <2> QED  BY <2>1, <2>2, <2>3
  <1> QED  BY <1>1, <1>2, <1>5 DEF FullReg

(* What is out on one full register, by the size the pool records.         *)
LEMMA ExactOn ==
  ASSUME NEW p \in PoolType, NEW O \in SUBSET Register, Exact(p, O),
         NEW r \in O
  PROVE  /\ FullReg(r) \in Full /\ p.size[FullReg(r)] \in Sizes
         /\ p.size[FullReg(r)] = 8 => IsByte(r) /\ r \in p.bytes
         /\ p.size[FullReg(r)] # 8 => r = PartialReg(FullReg(r), p.size[FullReg(r)])
         /\ p.size[FullReg(r)] # 8 => ~IsByte(r)
  <1>1. FullReg(r) \in Full  BY RegisterShape
  <1>2. p.size[FullReg(r)] \in Sizes \cup {0}  BY <1>1 DEF PoolType
  <1>3. p.size[FullReg(r)] # 0  BY <1>1 DEF Exact
  <1>4. p.size[FullReg(r)] = 8 => IsByte(r) /\ r \in p.bytes  BY <1>1 DEF Exact
  <1>5. p.size[FullReg(r)] # 8 => r = PartialReg(FullReg(r), p.size[FullReg(r)])
    BY <1>1, <1>3 DEF Exact
  <1>6. p.size[FullReg(r)] # 8 => ~IsByte(r)
    BY <1>2, <1>3, <1>5 DEF PartialReg, PartOfWidth, IsByte, Sizes
  <1> QED  BY <1>1, <1>2, <1>3, <1>4, <1>5, <1>6

(* Registers that are out at the same time share no byte.                  *)
LEMMA ExactDisjoint ==
  ASSUME NEW p \in PoolType, NEW O \in SUBSET Register, Exact(p, O),
         NEW r \in O, NEW q \in O, r # q
  PROVE  ~Overlap(r, q)
  BY ExactOn, OverlapShape

(* Use: a register that can be used was not out, and taking it keeps the   *)
(* bookkeeping exact.                                                      *)
LEMMA TakeExact ==
  ASSUME NEW p \in PoolType, NEW O \in SUBSET Register, Exact(p, O),
         NEW r \in Register, CanUse(p, r)
  PROVE  /\ r \notin O
         /\ Take(p, r) \in PoolType
         /\ Exact(Take(p, r), O \cup {r})
  <1> DEFINE f == FullReg(r)
             t == Take(p, r)
             Q == O \cup {r}
  <1>1. f \in Full /\ p.size[f] \in Sizes \cup {0} /\ Width(r) \in Sizes
    BY RegisterShape DEF PoolType
  <1>2. /\ t.bytes = IF IsByte(r) THEN p.bytes \cup {r} ELSE p.bytes
        /\ t.size[f] = Width(r)
        /\ \A g \in Full : g # f => t.size[g] = p.size[g]
        /\ t \in PoolType
    <2>1. p.size \in [Full -> Sizes \cup {0}] /\ p.bytes \subseteq ByteRegister
      BY DEF PoolType
    <2>2. IsByte(r) => r \in ByteRegister  BY RegisterShape
    <2> QED  BY <2>1, <2>2, <1>1 DEF Take, PoolType
  <1>3. ASSUME NEW q \in O, FullReg(q) = f
        PROVE  IsByte(r) /\ p.size[f] = 8 /\ IsByte(q) /\ q # r
    <2>1. p.size[f] # 0  BY <1>1, <1>3 DEF Exact
    <2>2. IsByte(r) /\ r \notin p.bytes /\ p.size[f] = 8
      BY <2>1 DEF CanUse, InUse, FullInUse
    <2> QED  BY <1>3, <2>2, ExactOn
  <1>4. r \notin O  BY <1>3
  <1>5. t.bytes = {q \in Q : IsByte(q)}  BY <1>2 DEF Exact
  <1>6. ASSUME NEW g \in Full, t.size[g] = 0
        PROVE  \A q \in Q : FullReg(q) # g
    BY <1>1, <1>2, <1>6 DEF Exact, Sizes
  <1>7. ASSUME NEW g \in Full, t.size[g] = 8
        PROVE  /\ \E q \in Q : FullReg(q) = g
               /\ \A q \in Q : FullReg(q) = g => IsByte(q)
    <2>1. CASE g = f  BY <2>1, <1>2, <1>3, <1>7, RegisterShape
    <2>2. CASE g # f  BY <2>2, <1>2, <1>7 DEF Exact
    <2> QED  BY <2>1, <2>2
  <1>8. ASSUME NEW g \in Full, t.size[g] \notin {0, 8}
        PROVE  {q \in Q : FullReg(q) = g} = {PartialReg(g, t.size[g])}
    <2>1. CASE g = f
      <3>1. ~IsByte(r) /\ r = PartialReg(g, t.size[g])
        BY <2>1, <1>2, <1>8, RegisterShape
      <3> QED  BY <3>1, <2>1, <1>3
    <2>2. CASE g # f
      <3>1. {q \in Q : FullReg(q) = g} = {q \in O : FullReg(q) = g}  BY <2>2
      <3> QED  BY <3>1, <2>2, <1>2, <1>8 DEF Exact
    <2> QED  BY <2>1, <2>2
  <1> HIDE DEF f, t, Q
  <1>9. Exact(t, Q)  BY <1>5, <1>6, <1>7, <1>8 DEF Exact
  <1> QED  BY <1>2, <1>4, <1>9 DEF t, Q

(* Release of registers that are out, or whose full register is free: they *)
(* and nothing else are no longer out.                                     *)
LEMMA ReleaseExact ==
  ASSUME NEW p \in PoolType, NEW O \in SUBSET Register, Exact(p, O),
         NEW R \in SUBSET Register,
         \A r \in R : r \in O \/ p.size[FullReg(r)] = 0
  PROVE  /\ Release(p, R) \in PoolType
         /\ Exact(Release(p, R), O \ R)
  <1> DEFINE rest == p.bytes \ R
             on(f) == {r \in R : FullReg(r) = f}
             sibling(f) == \E b \in rest : FullReg(b) = f
             t == Release(p, R)
             Q == O \ R
  <1>1. /\ t.bytes = rest
        /\ t.size = [f \in Full |->
                       IF on(f) = {} THEN p.size[f]
                       ELSE IF \A r \in on(f) : IsByte(r) /\ sibling(f) THEN 8 ELSE 0]
    BY DEF Release
  <1>2. ASSUME NEW f \in Full
        PROVE  /\ on(f) = {} => t.size[f] = p.size[f]
               /\ on(f) # {} /\ (\A r \in on(f) : IsByte(r) /\ sibling(f)) => t.size[f] = 8
               /\ on(f) # {} /\ ~(\A r \in on(f) : IsByte(r) /\ sibling(f)) => t.size[f] = 0
    BY <1>1
  <1>3. rest = {q \in Q : IsByte(q)}  BY DEF Exact
  <1>4. ASSUME NEW f \in Full, on(f) # {}
        PROVE  \/ t.size[f] = 8 /\ sibling(f) /\ \A q \in Q : FullReg(q) = f => IsByte(q)
               \/ t.size[f] = 0 /\ \A q \in Q : FullReg(q) # f
    <2>1. CASE p.size[f] = 0
      <3>1. \A q \in O : FullReg(q) # f  BY <2>1 DEF Exact
      <3>2. ~sibling(f)  BY <3>1, <1>3
      <3> QED  BY <3>1, <3>2, <1>2, <1>4
    <2>2. CASE p.size[f] # 0 /\ p.size[f] # 8
      <3>1. {q \in O : FullReg(q) = f} = {PartialReg(f, p.size[f])}  BY <2>2 DEF Exact
      <3>2. PICK r \in R : FullReg(r) = f  BY <1>4
      <3>3. r \in O  BY <3>2, <2>2
      <3>4. ~IsByte(r)  BY <3>2, <3>3, <2>2, ExactOn
      <3>5. \A q \in Q : FullReg(q) # f  BY <3>1, <3>2, <3>3
      <3> QED  BY <3>2, <3>4, <3>5, <1>2
    <2>3. CASE p.size[f] = 8
      <3>1. \A q \in O : FullReg(q) = f => IsByte(q)  BY <2>3 DEF Exact
      <3>2. \A q \in on(f) : IsByte(q)  BY <3>1, <2>3
      <3>3. CASE sibling(f)  BY <3>1, <3>2, <3>3, <1>2, <1>4
      <3>4. CASE ~sibling(f)  BY <3>1, <3>4, <1>2, <1>3, <1>4
      <3> QED  BY <3>3, <3>4
    <2> QED  BY <2>1, <2>2, <2>3
  <1>5. ASSUME NEW f \in Full, on(f) = {}
        PROVE  {q \in Q : FullReg(q) = f} = {q \in O : FullReg(q) = f}
    BY <1>5
  <1>6. t \in PoolType
    <2>1. \A f \in Full : t.size[f] \in Sizes \cup {0}
      BY <1>2, <1>4 DEF PoolType, Sizes
    <2>2. t = [size |-> t.size, bytes |-> t.bytes]  BY DEF Release
    <2>3. t.size \in [Full -> Sizes \cup {0}]  BY <1>1, <2>1
    <2>4. t.bytes \in SUBSET ByteRegister  BY <1>1 DEF PoolType
    <2> HIDE DEF t
    <2> QED  BY <2>2, <2>3, <2>4 DEF PoolType
  <1>7. ASSUME NEW f \in Full, t.size[f] = 0
        PROVE  \A q \in Q : FullReg(q) # f
    <2>1. CASE on(f) = {}
      <3>1. p.size[f] = 0  BY <1>2, <1>7, <2>1
      <3> QED  BY <3>1 DEF Exact
    <2>2. CASE on(f) # {}  BY <1>4, <1>7, <2>2
    <2> QED  BY <2>1, <2>2
  <1>8. ASSUME NEW f \in Full, t.size[f] = 8
        PROVE  /\ \E q \in Q : FullReg(q) = f
               /\ \A q \in Q : FullReg(q) = f => IsByte(q)
    <2>1. CASE on(f) = {}
      <3>1. p.size[f] = 8  BY <1>2, <1>8, <2>1
      <3>2. PICK q \in O : FullReg(q) = f  BY <3>1 DEF Exact
      <3>3. q \in Q  BY <2>1, <3>2
      <3> QED  BY <3>1, <3>2, <3>3 DEF Exact
    <2>2. CASE on(f) # {}
      <3>1. sibling(f) /\ \A q \in Q : FullReg(q) = f => IsByte(q)
        BY <1>4, <1>8, <2>2
      <3> QED  BY <3>1, <1>3
    <2> QED  BY <2>1, <2>2
  <1>9. ASSUME NEW f \in Full, t.size[f] \notin {0, 8}
        PROVE  {q \in Q : FullReg(q) = f} = {PartialReg(f, t.size[f])}
    <2>1. on(f) = {}  BY <1>4, <1>9
    <2>2. t.size[f] = p.size[f]  BY <1>2, <2>1
    <2> QED  BY <2>1, <2>2, <1>5, <1>9 DEF Exact
  <1>10. t.bytes = {q \in Q : IsByte(q)}  BY <1>1, <1>3
  <1> HIDE DEF t, Q
  <1>11. Exact(t, Q)  BY <1>7, <1>8, <1>9, <1>10 DEF Exact
  <1> QED  BY <1>6, <1>11 DEF t, Q

(* A full register without conflicts is free.                              *)
LEMMA NoConflicts ==
  ASSUME NEW p \in PoolType, NEW O \in SUBSET Register, Exact(p, O),
         NEW f \in Full, Conflicts(p, PartialReg(f, 64)) = {}
  PROVE  p.size[f] = 0
  <1>1. p.size[f] \in Sizes \cup {0}  BY DEF PoolType
  <1>2. ~IsByte(PartialReg(f, 64)) /\ FullReg(PartialReg(f, 64)) = f
    BY DEF PartialReg, PartOfWidth, IsByte, FullReg
  <1>3. p.size[f] # 8
    <2> SUFFICES ASSUME p.size[f] = 8 PROVE FALSE  OBVIOUS
    <2>1. PICK q \in O : FullReg(q) = f /\ IsByte(q)  BY DEF Exact
    <2>2. q \in p.bytes /\ q \in ByteRegister  BY <2>1, RegisterShape DEF Exact
    <2>3. Conflicts(p, PartialReg(f, 64)) = p.bytes \cap SubRegisters8(f)
      BY <1>2 DEF Conflicts
    <2> QED  BY <2>1, <2>2, <2>3 DEF SubRegisters8
  <1>4. p.size[f] # 0 /\ p.size[f] # 8 =>
          Conflicts(p, PartialReg(f, 64)) = {PartialReg(f, p.size[f])}
    BY <1>2 DEF Conflicts
  <1> QED  BY <1>3, <1>4

(* The conflicts of a register are out and share a byte with it, and once  *)
(* they are released it can be used.                                       *)
LEMMA ConflictsExact ==
  ASSUME NEW p \in PoolType, NEW O \in SUBSET Register, Exact(p, O),
         NEW r \in Register
  PROVE  /\ Conflicts(p, r) \subseteq O
         /\ \A c \in Conflicts(p, r) : Overlap(c, r)
         /\ CanUse(Release(p, Conflicts(p, r)), r)
  <1> DEFINE f == FullReg(r)
             C == Conflicts(p, r)
             t == Release(p, C)
  <1>1. f \in Full /\ p.size[f] \in Sizes \cup {0} /\ p.bytes \subseteq ByteRegister
    BY RegisterShape DEF PoolType
  <1>2. /\ p.size[f] = 0 => C = {}
        /\ p.size[f] = 8 => C = p.bytes \cap (IF IsByte(r) THEN {r} ELSE SubRegisters8(f))
        /\ p.size[f] # 0 /\ p.size[f] # 8 => C = {PartialReg(f, p.size[f])}
    BY DEF Conflicts
  <1>3. C \subseteq O
    <2>1. CASE p.size[f] \in {0, 8}  BY <2>1, <1>2 DEF Exact
    <2>2. CASE p.size[f] \notin {0, 8}
      <3>1. {q \in O : FullReg(q) = f} = {PartialReg(f, p.size[f])}
        BY <1>1, <2>2 DEF Exact
      <3> QED  BY <2>2, <3>1, <1>2
    <2> QED  BY <2>1, <2>2
  <1>4. ASSUME NEW c \in C
        PROVE  FullReg(c) = f /\ (IsByte(c) /\ IsByte(r) => c = r)
    <2>1. CASE p.size[f] = 8  BY <2>1, <1>2 DEF SubRegisters8
    <2>2. CASE p.size[f] \notin {0, 8}
      <3>1. c = PartialReg(f, p.size[f])  BY <1>2, <2>2
      <3>2. FullReg(c) = f  BY <3>1 DEF PartialReg, FullReg
      <3>3. c \in O  BY <1>3
      <3>4. ~IsByte(c)  BY <3>2, <3>3, <2>2, ExactOn
      <3> QED  BY <3>2, <3>4
    <2> QED  BY <2>1, <2>2, <1>2
  <1>5. \A c \in C : Overlap(c, r)
    <2> SUFFICES ASSUME NEW c \in C PROVE Overlap(c, r)  OBVIOUS
    <2>1. c \in Register  BY <1>3
    <2> QED  BY <1>4, <2>1, OverlapShape
  <1>6. t \in PoolType /\ Exact(t, O \ C)
    <2>1. C \in SUBSET Register /\ \A c \in C : c \in O  BY <1>3
    <2> QED  BY <2>1, ReleaseExact
  <1>7. t.size[f] \in Sizes \cup {0}  BY <1>1, <1>6 DEF PoolType
  <1>8. ASSUME NEW q \in O \ C, FullReg(q) = f
        PROVE  IsByte(q) /\ IsByte(r) /\ q # r
    <2>1. p.size[f] = 8 /\ IsByte(q) /\ q \in p.bytes
      <3>1. p.size[f] # 0  BY <1>1, <1>8 DEF Exact
      <3>2. p.size[f] = 8
        <4> SUFFICES ASSUME p.size[f] # 8 PROVE FALSE  OBVIOUS
        <4>1. q = PartialReg(f, p.size[f])  BY <1>8, ExactOn
        <4> QED  BY <4>1, <3>1, <1>2, <1>8
      <3> QED  BY <3>2, <1>8, ExactOn
    <2>2. q \in SubRegisters8(f)  BY <2>1, <1>1, <1>8 DEF SubRegisters8
    <2> QED  BY <2>1, <2>2, <1>2, <1>8
  <1>9. ASSUME IsByte(r) PROVE CanUse(t, r)
    <2>1. r \notin t.bytes  BY <1>6, <1>8 DEF Exact
    <2>2. t.size[f] \in {0, 8}
      <3> SUFFICES ASSUME t.size[f] \notin {0, 8} PROVE FALSE  OBVIOUS
      <3>1. {q \in O \ C : FullReg(q) = f} = {PartialReg(f, t.size[f])}
        BY <1>1, <1>6 DEF Exact
      <3>2. PICK q \in O \ C : FullReg(q) = f  BY <3>1
      <3>3. ~IsByte(q)  BY <3>2, <1>6, ExactOn
      <3> QED  BY <3>2, <3>3, <1>8
    <2> QED  BY <2>1, <2>2, <1>9 DEF CanUse, InUse
  <1>10. ASSUME ~IsByte(r) PROVE CanUse(t, r)
    <2>1. t.size[f] = 0
      <3> SUFFICES ASSUME t.size[f] # 0 PROVE FALSE  OBVIOUS
      <3>1. \E q \in O \ C : FullReg(q) = f
        <4>1. CASE t.size[f] = 8  BY <4>1, <1>1, <1>6 DEF Exact
        <4>2. CASE t.size[f] # 8
          <5>1. {q \in O \ C : FullReg(q) = f} = {PartialReg(f, t.size[f])}
            BY <4>2, <1>1, <1>6 DEF Exact
          <5> QED  BY <5>1
        <4> QED  BY <4>1, <4>2
      <3> QED  BY <3>1, <1>8, <1>10
    <2> QED  BY <2>1, <1>10 DEF CanUse, InUse, FullInUse
  <1> QED  BY <1>3, <1>5, <1>9, <1>10

(* Get: what is handed out for a size is a register of that size that can  *)
(* be used.                                                                *)
LEMMA GetUsable ==
  ASSUME NEW p \in PoolType, NEW size \in Sizes,
         size # 8 => PartOfWidth(size) \in Wide, NEW r \in Get(p, size)
  PROVE  r \in Register /\ CanUse(p, r)
  <1>1. CASE size = 8
    <2>1. PICK f \in HasLow : r = LowByte(f) /\ CanUse(p, LowByte(f))
      BY <1>1 DEF Get, Unused8, FirstOf
    <2> QED  BY <2>1 DEF Register, ByteRegister
  <1>2. CASE size # 8
    <2>1. PICK f \in Full : r = PartialReg(f, size) /\ ~FullInUse(p, f)
      BY <1>2 DEF Get, Unused, FirstOf
    <2>2. FullReg(r) = f  BY <2>1 DEF PartialReg, FullReg
    <2>3. r \in Full \X Wide  BY <2>1, <1>2 DEF PartialReg
    <2>4. PartOfWidth(size) \in {"r64", "r32", "r16"}  BY <1>2, RegisterFile
    <2>5. ~IsByte(r)  BY <2>1, <2>4 DEF PartialReg, IsByte
    <2> QED  BY <2>1, <2>2, <2>3, <2>5 DEF Register, CanUse, InUse
  <1> QED  BY <1>1, <1>2

-----------------------------------------------------------------------------
(* The allocator's invariant.                                              *)

(* A local that is in a register has been declared.                        *)
RegDeclared == \A x \in Name : InReg(x) => Declared(x)

(* A local that fits a register has a size some register has.              *)
RegableSizes == \A x \in Name : alloc[x].regable => alloc[x].size \in LocalSizes \cup {64}

(* Before the prologue nothing is in RBP and no directive holds a register. *)
ArgsOffFrame ==
  phase = "args" => /\ manual = {}
                    /\ \A x \in Name : InReg(x) => FullReg(regof[x]) # rbp

AllocInv ==
  /\ TypeOK /\ HoldersAgree /\ PoolExact
  /\ RegDeclared /\ RegableSizes /\ ArgsOffFrame
  /\ \A r \in manual : FullReg(r) # rbp

InRegNames == {x \in Name : InReg(x)}

-----------------------------------------------------------------------------
(* Locals are in different registers, and Held and Reserved are registers. *)
LEMMA HeldFacts ==
  ASSUME TypeOK, HoldersAgree
  PROVE  /\ Held \subseteq Register
         /\ Reserved \subseteq Register
         /\ Held \cup Reserved \in SUBSET Register
         /\ \A x, y \in InRegNames : regof[x] = regof[y] => x = y
         /\ \A x \in InRegNames : regof[x] \in Held
         /\ PartialReg(rbp, 64) \in Register /\ FullReg(PartialReg(rbp, 64)) = rbp
  <1>1. Held \subseteq Register  BY DEF TypeOK, Held, InReg
  <1>2. PartialReg(rbp, 64) \in Register /\ FullReg(PartialReg(rbp, 64)) = rbp
    <2>1. PartOfWidth(64) = "r64"  BY DEF PartOfWidth
    <2> QED  BY <2>1, AllocConstants, RegisterFile DEF PartialReg, FullReg, Register
  <1>3. Reserved \subseteq Register  BY <1>2 DEF Reserved, TypeOK
  <1>4. ASSUME NEW x \in InRegNames, NEW y \in InRegNames, regof[x] = regof[y]
        PROVE  x = y
    <2>1. regof[x] \in Register  BY DEF InRegNames, InReg, TypeOK
    <2>2. regs[regof[x]] = x /\ regs[regof[x]] = y
      BY <2>1, <1>4 DEF HoldersAgree, InRegNames
    <2> QED  BY <2>2
  <1>5. \A x \in InRegNames : regof[x] \in Held  BY DEF InRegNames, Held
  <1> QED  BY <1>1, <1>2, <1>3, <1>4, <1>5

(* The pool, the locations and the holders after the locals of V are       *)
(* evicted or forgotten.                                                   *)
LEMMA EvictPool ==
  ASSUME TypeOK, HoldersAgree, PoolExact, NEW V \in SUBSET InRegNames
  PROVE  /\ RegsOf(V) \subseteq Held
         /\ PoolAfter(V) \in PoolType
         /\ Exact(PoolAfter(V), (Held \ RegsOf(V)) \cup Reserved)
  <1> DEFINE O == Held \cup Reserved
             W == RegsOf(V)
  <1>1. W \subseteq Held  BY HeldFacts DEF RegsOf
  <1>2. pool \in PoolType /\ O \in SUBSET Register /\ Exact(pool, O)
    BY HeldFacts DEF PoolExact, TypeOK
  <1>3. W \in SUBSET Register /\ \A r \in W : r \in O  BY <1>1, HeldFacts
  <1>4. O \ W = (Held \ W) \cup Reserved  BY <1>1 DEF PoolExact
  <1> HIDE DEF O, W
  <1>5. Release(pool, W) \in PoolType /\ Exact(Release(pool, W), O \ W)
    BY <1>2, <1>3, ReleaseExact
  <1> QED  BY <1>1, <1>4, <1>5 DEF PoolAfter, O, W

LEMMA EvictTables ==
  ASSUME TypeOK, HoldersAgree, NEW V \in SUBSET InRegNames,
         regof' = RegofAfter(V), regs' = RegsAfter(V)
  PROVE  /\ regof' \in [Name -> Register \cup {NoReg}]
         /\ regs' \in [Register -> Name \cup {None}]
         /\ HoldersAgree'
         /\ Held' = Held \ RegsOf(V)
         /\ \A x \in Name : InReg(x)' <=> InReg(x) /\ x \notin V
         /\ \A x \in Name : InReg(x)' => regof'[x] = regof[x]
  <1>1. /\ regof' \in [Name -> Register \cup {NoReg}]
        /\ regs' \in [Register -> Name \cup {None}]
    BY DEF TypeOK, RegofAfter, RegsAfter
  <1>2. \A x \in Name : regof'[x] = IF x \in V THEN NoReg ELSE regof[x]
    BY DEF RegofAfter
  <1>3. \A r \in Register : regs'[r] = IF r \in RegsOf(V) THEN None ELSE regs[r]
    BY DEF RegsAfter
  <1>4. \A x \in Name : InReg(x)' <=> InReg(x) /\ x \notin V
    BY <1>2 DEF InReg
  <1>5. \A x \in Name : InReg(x) => (regof[x] \in RegsOf(V) <=> x \in V)
    BY HeldFacts DEF RegsOf, InRegNames
  <1>6. HoldersAgree'
    <2> SUFFICES ASSUME NEW x \in Name, NEW r \in Register
                 PROVE  regs'[r] = x <=> regof'[x] = r
      BY DEF HoldersAgree
    <2>1. x # None /\ r # NoReg  BY AllocConstants
    <2>2. regs[r] = x <=> regof[x] = r  BY DEF HoldersAgree
    <2>3. regof[x] = r => InReg(x)  BY <2>1 DEF InReg
    <2> QED  BY <2>1, <2>2, <2>3, <1>2, <1>3, <1>5
  <1>7. Held' = Held \ RegsOf(V)
    <2>1. Held' = {regof'[x] : x \in {n \in Name : InReg(n)'}}  BY DEF Held
    <2> QED  BY <2>1, <1>2, <1>4, <1>5 DEF Held
  <1> QED  BY <1>1, <1>2, <1>4, <1>6, <1>7

(* Evicting locals keeps the tables in agreement and the pool exact.       *)
LEMMA EvictKeeps ==
  ASSUME TypeOK, HoldersAgree, PoolExact, NEW V \in SUBSET InRegNames,
         pool' = PoolAfter(V), regof' = RegofAfter(V), regs' = RegsAfter(V),
         Reserved' = Reserved
  PROVE  /\ pool' \in PoolType
         /\ regof' \in [Name -> Register \cup {NoReg}]
         /\ regs' \in [Register -> Name \cup {None}]
         /\ HoldersAgree' /\ PoolExact'
  <1>1. Held' = Held \ RegsOf(V)  BY EvictTables
  <1>2. Held' \cap Reserved' = {}  BY <1>1 DEF PoolExact
  <1>3. Exact(pool', Held' \cup Reserved')  BY <1>1, EvictPool
  <1> QED  BY <1>2, <1>3, EvictPool, EvictTables DEF PoolExact

(* Moving x into register r once the locals of G have given theirs up: the *)
(* tables agree again, and r is held beside what was held before.          *)
LEMMA MoveTables ==
  ASSUME TypeOK, HoldersAgree, NEW x \in Name, NEW r \in Register,
         NEW G \in SUBSET InRegNames, InReg(x) => x \in G,
         r \notin Held \ RegsOf(G),
         regof' \in [Name -> Register \cup {NoReg}],
         regs' \in [Register -> Name \cup {None}],
         \A y \in Name : regof'[y] =
            IF y = x THEN r ELSE IF y \in G THEN NoReg ELSE regof[y],
         \A q \in Register : regs'[q] =
            IF q = r THEN x ELSE IF q \in RegsOf(G) THEN None ELSE regs[q]
  PROVE  /\ HoldersAgree'
         /\ Held' = (Held \ RegsOf(G)) \cup {r}
         /\ \A y \in Name : InReg(y)' <=> y = x \/ (InReg(y) /\ y \notin G)
  <1>1. r # NoReg /\ None \notin Name /\ NoReg \notin Register  BY AllocConstants
  <1>2. \A y \in Name : InReg(y)' <=> y = x \/ (InReg(y) /\ y \notin G)
    BY <1>1 DEF InReg
  <1>3. \A y \in Name : InReg(y) => (regof[y] \in RegsOf(G) <=> y \in G)
    BY HeldFacts DEF RegsOf, InRegNames
  <1>4. \A y \in Name : InReg(y) /\ y \notin G => regof[y] # r
    BY <1>3 DEF Held
  <1>5. HoldersAgree'
    <2> SUFFICES ASSUME NEW y \in Name, NEW q \in Register
                 PROVE  regs'[q] = y <=> regof'[y] = q
      BY DEF HoldersAgree
    <2>1. regs[q] = y <=> regof[y] = q  BY DEF HoldersAgree
    <2>2. regof[y] = q => InReg(y)  BY <1>1 DEF InReg
    <2>3. y # None /\ q # NoReg  BY <1>1
    <2>4. CASE q = r  BY <2>1, <2>2, <2>3, <2>4, <1>3, <1>4
    <2>5. CASE q # r
      <3>1. CASE y = x
        <4>1. ~(regof'[y] = q)  BY <3>1, <2>5
        <4>2. regs[q] = y => q \in RegsOf(G)  BY <3>1, <2>1, <2>2, <1>3
        <4> QED  BY <4>1, <4>2, <2>3, <2>5
      <3>2. CASE y # x  BY <3>2, <2>1, <2>2, <2>3, <2>5, <1>3
      <3> QED  BY <3>1, <3>2
    <2> QED  BY <2>4, <2>5
  <1>6. Held' = (Held \ RegsOf(G)) \cup {r}
    <2>1. Held' = {regof'[y] : y \in {n \in Name : InReg(n)'}}  BY DEF Held
    <2>2. ASSUME NEW q, q \in Held' PROVE q \in (Held \ RegsOf(G)) \cup {r}
      <3>1. PICK y \in Name : InReg(y)' /\ q = regof'[y]  BY <2>1, <2>2
      <3>2. CASE y = x  BY <3>1, <3>2
      <3>3. CASE y # x
        <4>1. InReg(y) /\ y \notin G /\ q = regof[y]  BY <3>1, <3>3, <1>2
        <4> QED  BY <4>1, <1>3 DEF Held
      <3> QED  BY <3>2, <3>3
    <2>3. r \in Held'
      <3>1. InReg(x)' /\ regof'[x] = r  BY <1>2
      <3> QED  BY <3>1, <2>1
    <2>4. ASSUME NEW q, q \in Held \ RegsOf(G) PROVE q \in Held'
      <3>1. PICK y \in Name : InReg(y) /\ q = regof[y]  BY <2>4 DEF Held
      <3>2. y \notin G  BY <3>1, <2>4, <1>3
      <3>3. y # x  BY <3>1, <3>2
      <3>4. InReg(y)' /\ regof'[y] = q  BY <3>1, <3>2, <3>3, <1>2
      <3> QED  BY <3>4, <2>1
    <2> QED  BY <2>2, <2>3, <2>4
  <1> QED  BY <1>2, <1>5, <1>6

(* The machine state keeps its shape when locals are evicted.              *)
LEMMA MachineTypes ==
  ASSUME TypeOK, NEW V \in SUBSET Name
  PROVE  /\ MemAfter(V) \in [Addr -> Name \cup {Junk}]
         /\ CellAfter(V) \in [AllLanes -> Name \cup {Junk}]
         /\ InmemAfter(V) \subseteq Name
  <1>1. CellAfter(V) \in [AllLanes -> Name \cup {Junk}]  BY DEF CellAfter, TypeOK
  <1>2. InmemAfter(V) \subseteq Name  BY DEF InmemAfter, TypeOK
  <1>3. MemAfter(V) \in [Addr -> Name \cup {Junk}]
    <2> DEFINE S(a) == {v \in V : alloc[v].regable /\ a \in Slot(alloc[v])}
               pick(a) == CHOOSE s \in S(a) : TRUE
               at(a) == IF S(a) = {} THEN mem[a]
                        ELSE IF RegHolds(pick(a), regof[pick(a)]) THEN pick(a) ELSE Junk
    <2>1. MemAfter(V) = [a \in Addr |-> at(a)]  BY DEF MemAfter
    <2>2. ASSUME NEW a \in Addr PROVE at(a) \in Name \cup {Junk}
      <3>1. S(a) # {} => pick(a) \in S(a)  OBVIOUS
      <3>2. S(a) # {} => pick(a) \in Name  BY <3>1
      <3>3. mem[a] \in Name \cup {Junk}  BY DEF TypeOK
      <3> HIDE DEF S, pick
      <3> QED  BY <3>2, <3>3
    <2> HIDE DEF at
    <2> QED  BY <2>1, <2>2
  <1> QED  BY <1>1, <1>2, <1>3

(* Loading or pinning x into a register that can be used once the locals   *)
(* of V are evicted (Ralloc.Register and Ralloc.UseRegister).              *)
LEMMA PlaceKeeps ==
  ASSUME TypeOK, HoldersAgree, PoolExact, NEW x \in Name, NEW r \in Register,
         NEW V \in SUBSET InRegNames, CanUse(PoolAfter(V), r),
         NEW clear \in BOOLEAN, Place(x, r, V, clear)
  PROVE  /\ pool' \in PoolType
         /\ regof' \in [Name -> Register \cup {NoReg}]
         /\ regs' \in [Register -> Name \cup {None}]
         /\ HoldersAgree' /\ PoolExact'
         /\ inmem' \subseteq Name
         /\ cell' \in [AllLanes -> Name \cup {Junk}]
         /\ mem' \in [Addr -> Name \cup {Junk}]
         /\ \A y \in Name : InReg(y)' => y = x \/ InReg(y)
  <1> DEFINE from == IF InReg(x) /\ x \notin V THEN {x} ELSE {}
             G == V \cup from
             O1 == (Held \ RegsOf(V)) \cup Reserved
  <1>1. from \in SUBSET InRegNames /\ G \in SUBSET InRegNames /\ (InReg(x) => x \in G)
    BY DEF InRegNames
  <1>2. /\ pool' = Release(Take(PoolAfter(V), r), RegsOf(from))
        /\ regof' = [RegofAfter(G) EXCEPT ![x] = r]
        /\ regs' = [RegsAfter(G) EXCEPT ![r] = x]
        /\ inmem' = InmemAfter(V) /\ mem' = MemAfter(V)
        /\ manual' = manual /\ phase' = phase
    BY DEF Place
  <1>3. RegsOf(G) = RegsOf(V) \cup RegsOf(from)  BY DEF RegsOf
  <1>4. PoolAfter(V) \in PoolType /\ Exact(PoolAfter(V), O1) /\ RegsOf(V) \subseteq Held
    BY EvictPool
  <1>5. O1 \in SUBSET Register  BY HeldFacts
  <1>6. /\ r \notin O1 /\ Take(PoolAfter(V), r) \in PoolType
        /\ Exact(Take(PoolAfter(V), r), O1 \cup {r})
    BY <1>4, <1>5, TakeExact
  <1>7. RegsOf(from) \subseteq Held \ RegsOf(V)
    BY HeldFacts DEF RegsOf, InRegNames
  <1>8. pool' \in PoolType /\ Exact(pool', (O1 \cup {r}) \ RegsOf(from))
    <2>1. O1 \cup {r} \in SUBSET Register  BY <1>5
    <2>2. RegsOf(from) \in SUBSET Register /\ \A q \in RegsOf(from) : q \in O1 \cup {r}
      BY <1>7, HeldFacts
    <2> QED  BY <1>2, <1>6, <2>1, <2>2, ReleaseExact
  <1>9. r \notin Held \ RegsOf(G)  BY <1>3, <1>6
  <1>10. /\ regof' \in [Name -> Register \cup {NoReg}]
         /\ regs' \in [Register -> Name \cup {None}]
         /\ \A y \in Name : regof'[y] =
               IF y = x THEN r ELSE IF y \in G THEN NoReg ELSE regof[y]
         /\ \A q \in Register : regs'[q] =
               IF q = r THEN x ELSE IF q \in RegsOf(G) THEN None ELSE regs[q]
    BY <1>2 DEF RegofAfter, RegsAfter, TypeOK
  <1> HIDE DEF from, G
  <1>11. /\ HoldersAgree' /\ Held' = (Held \ RegsOf(G)) \cup {r}
         /\ \A y \in Name : InReg(y)' <=> y = x \/ (InReg(y) /\ y \notin G)
    BY <1>1, <1>9, <1>10, MoveTables
  <1>12. Reserved' = Reserved  BY <1>2 DEF Reserved
  <1>13. RegsOf(G) \cap Reserved = {}  BY <1>3, <1>4, <1>7 DEF PoolExact
  <1>14. (O1 \cup {r}) \ RegsOf(from) = Held' \cup Reserved'
    BY <1>3, <1>6, <1>7, <1>11, <1>12, <1>13
  <1>15. Held' \cap Reserved' = {}  BY <1>6, <1>11, <1>12 DEF PoolExact
  <1>16. PoolExact'  BY <1>8, <1>14, <1>15 DEF PoolExact
  <1>17. cell' \in [AllLanes -> Name \cup {Junk}]
    <2> DEFINE g == V \cup (IF InReg(x) /\ x \notin V THEN {x} ELSE {})
               loads == InReg(x) \/ x \in inmem
               ok == IF InReg(x) THEN RegHolds(x, regof[x])
                                 ELSE ~alloc[x].regable \/ MemHolds(x)
               value == IF ok THEN x ELSE Junk
               old(l) == IF operands = {} THEN CellAfter(g)[l] ELSE cell[l]
    <2>1. cell' = [l \in AllLanes |->
                     CASE loads /\ l \in Lanes(r) -> value
                       [] loads /\ clear /\ l[1] = FullReg(r) -> Junk
                       [] OTHER -> old(l)]
      BY DEF Place
    <2>2. value \in Name \cup {Junk}  OBVIOUS
    <2>3. g \in SUBSET Name  BY DEF InRegNames
    <2>4. CellAfter(g) \in [AllLanes -> Name \cup {Junk}]  BY <2>3, MachineTypes
    <2>5. \A l \in AllLanes : old(l) \in Name \cup {Junk}  BY <2>4 DEF TypeOK
    <2> HIDE DEF value, old, loads
    <2> QED  BY <2>1, <2>2, <2>5, Zenon
  <1>18. inmem' \subseteq Name /\ mem' \in [Addr -> Name \cup {Junk}]
    <2>1. V \in SUBSET Name  BY DEF InRegNames
    <2> QED  BY <1>2, <2>1, MachineTypes
  <1> QED  BY <1>8, <1>10, <1>11, <1>16, <1>17, <1>18

-----------------------------------------------------------------------------
(* A step that evicts or forgets the locals of V (possibly none) and keeps *)
(* every other part of the state typed preserves the invariant.            *)
LEMMA EvictInv ==
  ASSUME AllocInv, NEW V \in SUBSET InRegNames,
         pool' = PoolAfter(V), regof' = RegofAfter(V), regs' = RegsAfter(V),
         manual' = manual, phase' = phase \/ {phase, phase'} = {"body", "calling"},
         alloc' \in [Name -> AllocType], RegableSizes',
         \A x \in InRegNames \ V : alloc'[x].size # 0,
         inmem' \subseteq Name, live' \subseteq Name,
         localoff' \in 0 .. MaxLocal, freeSpace' \subseteq [size : Nat, offset : Int],
         operands' \subseteq OperandType,
         cell' \in [AllLanes -> Name \cup {Junk}],
         mem' \in [Addr -> Name \cup {Junk}], outcome' \in Outcomes
  PROVE  AllocInv'
  <1>1. TypeOK /\ HoldersAgree /\ PoolExact  BY DEF AllocInv
  <1>2. Reserved' = Reserved  BY DEF Reserved
  <1>3. /\ pool' \in PoolType
        /\ regof' \in [Name -> Register \cup {NoReg}]
        /\ regs' \in [Register -> Name \cup {None}]
        /\ HoldersAgree' /\ PoolExact'
    BY <1>1, <1>2, EvictKeeps
  <1>4. TypeOK'  BY <1>1, <1>3 DEF TypeOK
  <1>5. /\ \A x \in Name : InReg(x)' <=> InReg(x) /\ x \notin V
        /\ \A x \in Name : InReg(x)' => regof'[x] = regof[x]
    BY <1>1, EvictTables
  <1>6. RegDeclared'  BY <1>5 DEF RegDeclared, Declared, InRegNames
  <1>7. ArgsOffFrame'  BY <1>5 DEF ArgsOffFrame, AllocInv
  <1> QED  BY <1>3, <1>4, <1>6, <1>7 DEF AllocInv

(* Evicting nobody changes none of the three tables.                       *)
LEMMA EvictNone ==
  ASSUME TypeOK
  PROVE  PoolAfter({}) = pool /\ RegofAfter({}) = regof /\ RegsAfter({}) = regs
  <1>1. RegsOf({}) = {}  BY DEF RegsOf
  <1>2. RegofAfter({}) = regof /\ RegsAfter({}) = regs
    BY <1>1 DEF RegofAfter, RegsAfter, TypeOK
  <1>3. Release(pool, {}) = pool
    <2>1. pool.size \in [Full -> Sizes \cup {0}] /\ pool = [size |-> pool.size, bytes |-> pool.bytes]
      BY DEF TypeOK, PoolType
    <2>2. Release(pool, {}) = [size |-> [f \in Full |-> pool.size[f]], bytes |-> pool.bytes]
      BY DEF Release
    <2> QED  BY <2>1, <2>2
  <1> QED  BY <1>1, <1>2, <1>3 DEF PoolAfter

(* A step that leaves the pool and the locations alone.                    *)
LEMMA QuietInv ==
  ASSUME AllocInv, UNCHANGED <<pool, regof, regs, manual>>,
         phase' = phase \/ {phase, phase'} = {"body", "calling"},
         alloc' \in [Name -> AllocType], RegableSizes',
         \A x \in InRegNames : alloc'[x].size # 0,
         inmem' \subseteq Name, live' \subseteq Name,
         localoff' \in 0 .. MaxLocal, freeSpace' \subseteq [size : Nat, offset : Int],
         operands' \subseteq OperandType,
         cell' \in [AllLanes -> Name \cup {Junk}],
         mem' \in [Addr -> Name \cup {Junk}], outcome' \in Outcomes
  PROVE  AllocInv'
  <1>1. pool' = PoolAfter({}) /\ regof' = RegofAfter({}) /\ regs' = RegsAfter({})
    BY EvictNone DEF AllocInv
  <1>2. {} \in SUBSET InRegNames  OBVIOUS
  <1> QED  BY <1>1, <1>2, EvictInv

(* A step that moves x into a register that can be used.                   *)
LEMMA PlaceInv ==
  ASSUME AllocInv, NEW x \in Name, NEW r \in Register, Declared(x),
         phase # "args",
         NEW V \in SUBSET InRegNames, CanUse(PoolAfter(V), r),
         NEW clear \in BOOLEAN, Place(x, r, V, clear),
         operands' \subseteq OperandType, outcome' \in Outcomes
  PROVE  AllocInv'
  <1>1. TypeOK /\ HoldersAgree /\ PoolExact  BY DEF AllocInv
  <1>2. UNCHANGED <<alloc, localoff, freeSpace, manual, phase, live>>
    BY DEF Place, frame
  <1>3. /\ pool' \in PoolType
        /\ regof' \in [Name -> Register \cup {NoReg}]
        /\ regs' \in [Register -> Name \cup {None}]
        /\ HoldersAgree' /\ PoolExact'
        /\ inmem' \subseteq Name
        /\ cell' \in [AllLanes -> Name \cup {Junk}]
        /\ mem' \in [Addr -> Name \cup {Junk}]
        /\ \A y \in Name : InReg(y)' => y = x \/ InReg(y)
    BY <1>1, PlaceKeeps
  <1>4. TypeOK'  BY <1>1, <1>2, <1>3 DEF TypeOK
  <1>5. RegDeclared'  BY <1>2, <1>3 DEF RegDeclared, Declared, AllocInv
  <1>6. RegableSizes'  BY <1>2 DEF RegableSizes, AllocInv
  <1>7. ArgsOffFrame'  BY <1>2 DEF ArgsOffFrame
  <1> QED  BY <1>2, <1>3, <1>4, <1>5, <1>6, <1>7 DEF AllocInv

(* The names whose locals an operation evicts are in registers.            *)
LEMMA HoldersInReg ==
  /\ \A R : Holders(R) \in SUBSET InRegNames
  /\ LruHolders \in SUBSET InRegNames
  /\ CallEvicts \in SUBSET InRegNames
  /\ \A size : LruVictim(size) \in SUBSET InRegNames
  <1>1. \A R : Holders(R) \in SUBSET InRegNames  BY DEF Holders, InRegNames
  <1>2. LruHolders \in SUBSET InRegNames  BY DEF LruHolders, InRegNames
  <1>3. CallEvicts \in SUBSET InRegNames  BY <1>1 DEF CallEvicts
  <1>4. \A size : LruVictim(size) \in SUBSET InRegNames
    BY Zenon DEF LruVictim, InRegNames
  <1> QED  BY <1>1, <1>2, <1>3, <1>4

(* The frame allocator stays within its bound.                             *)
LEMMA SpaceTypes ==
  ASSUME TypeOK, NEW n \in Nat, NEW off, Space(n, off)
  PROVE  localoff' \in 0 .. MaxLocal /\ freeSpace' \subseteq [size : Nat, offset : Int]
  <1>1. MaxLocal \in Nat /\ localoff \in 0 .. MaxLocal  BY AllocConstants DEF TypeOK
  <1>2. freeSpace \subseteq [size : Nat, offset : Int]  BY DEF TypeOK
  <1> QED  BY <1>1, <1>2 DEF Space

LEMMA AddrInt == Addr \subseteq Int
  BY AllocConstants DEF Addr, basePointerOff

LEMMA DivNat == \A n \in Nat : n \div 8 \in Nat
  BY SMT

(* local, bytes: a new object is in no register.                           *)
LEMMA LocalKeeps ==
  ASSUME AllocInv, NEW x \in Name, NEW s \in LocalSizes, Local(x, s)
  PROVE  AllocInv'
  <1>1. TypeOK /\ x \notin InRegNames  BY DEF AllocInv, Local, RegDeclared, InRegNames
  <1>2. s \in Nat /\ s # 0 /\ s \div 8 \in Nat  BY AllocConstants, DivNat DEF Sizes
  <1>3. PICK off \in Addr :
          /\ Space(s \div 8, off)
          /\ alloc' = [alloc EXCEPT ![x] =
               [size |-> s, regable |-> TRUE, volatile |-> FALSE, offset |-> off]]
    BY DEF Local
  <1>4. /\ alloc' \in [Name -> AllocType]
        /\ \A y \in InRegNames : alloc'[y].size # 0
        /\ RegableSizes'
    BY <1>1, <1>2, <1>3, AddrInt
    DEF AllocInv, TypeOK, AllocType, RegableSizes, RegDeclared, Declared, InRegNames
  <1>5. localoff' \in 0 .. MaxLocal /\ freeSpace' \subseteq [size : Nat, offset : Int]
    BY <1>1, <1>2, <1>3, SpaceTypes
  <1>6. /\ UNCHANGED <<pool, regof, regs, manual, phase, operands, cell, mem, live, outcome>>
        /\ inmem' \subseteq Name
    BY <1>1 DEF Local, machine, TypeOK
  <1> QED  BY <1>1, <1>4, <1>5, <1>6, QuietInv DEF TypeOK

LEMMA BytesKeeps ==
  ASSUME AllocInv, NEW x \in Name, NEW n \in ChunkBytes, Bytes(x, n)
  PROVE  AllocInv'
  <1>1. TypeOK /\ x \notin InRegNames  BY DEF AllocInv, Bytes, RegDeclared, InRegNames
  <1>2. n \in Nat /\ n * 8 \in Nat /\ n * 8 # 0  BY AllocConstants
  <1>3. PICK off \in Addr :
          /\ Space(n, off)
          /\ alloc' = [alloc EXCEPT ![x] =
               [size |-> n * 8, regable |-> FALSE, volatile |-> FALSE, offset |-> off]]
    BY DEF Bytes
  <1>4. /\ alloc' \in [Name -> AllocType]
        /\ \A y \in InRegNames : alloc'[y].size # 0
        /\ RegableSizes'
    BY <1>1, <1>2, <1>3, AddrInt
    DEF AllocInv, TypeOK, AllocType, RegableSizes, RegDeclared, Declared, InRegNames
  <1>5. localoff' \in 0 .. MaxLocal /\ freeSpace' \subseteq [size : Nat, offset : Int]
    BY <1>1, <1>2, <1>3, SpaceTypes
  <1>6. /\ UNCHANGED <<pool, regof, regs, manual, phase, operands, cell, mem, live, outcome>>
        /\ inmem' \subseteq Name
    BY <1>1 DEF Bytes, machine, TypeOK
  <1> QED  BY <1>1, <1>4, <1>5, <1>6, QuietInv DEF TypeOK

LEMMA StackArgKeeps ==
  ASSUME AllocInv, NEW x \in Name, NEW k \in 0 .. (MaxStackArgs - 1), StackArg(x, k)
  PROVE  AllocInv'
  <1>1. TypeOK /\ x \notin InRegNames  BY DEF AllocInv, StackArg, RegDeclared, InRegNames
  <1>2. StackArgOffset(k) \in Int /\ MaxLocal \in Nat
    BY AllocConstants DEF StackArgOffset, basePointerOff
  <1>3. alloc' = [alloc EXCEPT ![x] = [size |-> 64, regable |-> TRUE,
                    volatile |-> FALSE, offset |-> StackArgOffset(k)]]
    BY DEF StackArg
  <1>4. /\ alloc' \in [Name -> AllocType]
        /\ \A y \in InRegNames : alloc'[y].size # 0
        /\ RegableSizes'
    BY <1>1, <1>2, <1>3
    DEF AllocInv, TypeOK, AllocType, RegableSizes, RegDeclared, Declared, InRegNames
  <1>5. localoff' \in 0 .. MaxLocal  BY <1>1, <1>2 DEF StackArg, TypeOK
  <1>6. mem' \in [Addr -> Name \cup {Junk}]  BY <1>1 DEF StackArg, TypeOK
  <1>7. /\ UNCHANGED <<pool, regof, regs, freeSpace, manual, phase, operands, cell, outcome>>
        /\ inmem' \subseteq Name /\ live' \subseteq Name
    BY <1>1 DEF StackArg, TypeOK
  <1> QED  BY <1>1, <1>4, <1>5, <1>6, <1>7, QuietInv DEF TypeOK

(* argi: the register of an argument is free before the prologue, and it   *)
(* is not RBP.                                                             *)
LEMMA ArgKeeps ==
  ASSUME AllocInv, NEW x \in Name, NEW i \in DOMAIN arg_regs, NEW s \in LocalSizes,
         Arg(x, i, s)
  PROVE  AllocInv'
  <1> DEFINE f == arg_regs[i]
             r == PartialReg(f, s)
             O == Held \cup Reserved
             G == {}
  <1>1. TypeOK /\ HoldersAgree /\ PoolExact /\ ~InReg(x) /\ phase = "args"
    BY DEF AllocInv, Arg, RegDeclared
  <1>2. f \in Full /\ f # rbp  BY AllocConstants
  <1>3. r \in Register /\ FullReg(r) = f  BY DEF Arg, PartialReg, FullReg
  <1>4. O \in SUBSET Register /\ Exact(pool, O) /\ pool \in PoolType
    BY <1>1, HeldFacts DEF PoolExact, TypeOK
  <1>5. Conflicts(pool, PartialReg(f, 64)) = {}  BY DEF Arg
  <1> HIDE DEF f, r, O, G
  <1>6. pool.size[f] = 0  BY <1>2, <1>4, <1>5, NoConflicts
  <1>7. CanUse(pool, r)
    <2>1. r \notin pool.bytes  BY <1>2, <1>3, <1>4, <1>6 DEF Exact
    <2> QED  BY <2>1, <1>3, <1>6 DEF CanUse, InUse, FullInUse
  <1>8. r \notin O /\ pool' \in PoolType /\ Exact(pool', O \cup {r})
    BY <1>3, <1>4, <1>7, TakeExact DEF Arg, f, r
  <1>9. /\ regof' = [regof EXCEPT ![x] = r] /\ regs' = [regs EXCEPT ![r] = x]
        /\ manual' = manual /\ phase' = phase
    BY DEF Arg, f, r
  <1>10. RegsOf(G) = {} /\ G = {}  BY DEF RegsOf, G
  <1>11. /\ regof' \in [Name -> Register \cup {NoReg}]
         /\ regs' \in [Register -> Name \cup {None}]
         /\ \A y \in Name : regof'[y] =
               IF y = x THEN r ELSE IF y \in G THEN NoReg ELSE regof[y]
         /\ \A q \in Register : regs'[q] =
               IF q = r THEN x ELSE IF q \in RegsOf(G) THEN None ELSE regs[q]
    BY <1>1, <1>3, <1>9, <1>10 DEF TypeOK
  <1>12. r \notin Held \ RegsOf(G)  BY <1>8 DEF O
  <1>13. G \in SUBSET InRegNames /\ (InReg(x) => x \in G)  BY <1>1 DEF G
  <1>14. /\ HoldersAgree' /\ Held' = Held \cup {r}
         /\ \A y \in Name : InReg(y)' <=> y = x \/ InReg(y)
    <2>1. /\ HoldersAgree' /\ Held' = (Held \ RegsOf(G)) \cup {r}
          /\ \A y \in Name : InReg(y)' <=> y = x \/ (InReg(y) /\ y \notin G)
      BY <1>1, <1>3, <1>11, <1>12, <1>13, MoveTables
    <2> QED  BY <2>1, <1>10
  <1>15. Reserved' = Reserved  BY <1>9 DEF Reserved
  <1>16. PoolExact'
    <2>1. Held' \cup Reserved' = O \cup {r}  BY <1>14, <1>15 DEF O
    <2>2. Held' \cap Reserved' = {}  BY <1>1, <1>8, <1>14, <1>15 DEF O, PoolExact
    <2> QED  BY <2>1, <2>2, <1>8 DEF PoolExact
  <1>17. s \in Nat /\ s # 0 /\ s \div 8 \in Nat  BY AllocConstants, DivNat DEF Sizes
  <1>18. PICK off \in Addr :
          /\ Space(s \div 8, off)
          /\ alloc' = [alloc EXCEPT ![x] =
               [size |-> s, regable |-> TRUE, volatile |-> FALSE, offset |-> off]]
    BY DEF Arg
  <1>19. /\ alloc' \in [Name -> AllocType] /\ RegableSizes' /\ RegDeclared'
    BY <1>1, <1>14, <1>17, <1>18, AddrInt
    DEF AllocInv, TypeOK, AllocType, RegableSizes, RegDeclared, Declared
  <1>20. localoff' \in 0 .. MaxLocal /\ freeSpace' \subseteq [size : Nat, offset : Int]
    BY <1>1, <1>17, <1>18, SpaceTypes
  <1>21. /\ cell' \in [AllLanes -> Name \cup {Junk}]
         /\ inmem' \subseteq Name /\ live' \subseteq Name
         /\ UNCHANGED <<mem, operands, outcome>>
    BY <1>1 DEF Arg, TypeOK
  <1>22. TypeOK'  BY <1>1, <1>8, <1>9, <1>11, <1>19, <1>20, <1>21 DEF TypeOK
  <1>23. ArgsOffFrame'
    <2>1. \A y \in Name : InReg(y)' => FullReg(regof'[y]) # rbp
      BY <1>1, <1>2, <1>3, <1>10, <1>11, <1>14 DEF AllocInv, ArgsOffFrame
    <2> QED  BY <2>1, <1>1, <1>9 DEF AllocInv, ArgsOffFrame
  <1> QED  BY <1>9, <1>14, <1>16, <1>19, <1>22, <1>23 DEF AllocInv

(* What the invariant says about the parts a step leaves alone.            *)
LEMMA InvFacts ==
  ASSUME AllocInv
  PROVE  /\ TypeOK /\ HoldersAgree /\ PoolExact /\ RegableSizes
         /\ \A x \in InRegNames : x \in Name /\ alloc[x].size # 0
         /\ InRegNames \subseteq Name
  BY DEF AllocInv, RegDeclared, Declared, InRegNames

(* forget, forgetall                                                       *)
LEMMA ForgetKeeps ==
  ASSUME AllocInv, NEW V \in SUBSET Name, ForgetNames(V)
  PROVE  AllocInv'
  <1> DEFINE W == {v \in V : InReg(v)}
  <1>1. TypeOK /\ RegableSizes /\ W \in SUBSET InRegNames
    BY InvFacts DEF InRegNames
  <1>2. /\ pool' = PoolAfter(W) /\ regof' = RegofAfter(W) /\ regs' = RegsAfter(W)
        /\ UNCHANGED <<localoff, manual, phase, operands, outcome>>
    BY DEF ForgetNames
  <1>3. alloc' = [x \in Name |-> IF x \in V THEN Undeclared ELSE alloc[x]]
    BY DEF ForgetNames
  <1>4. Undeclared \in AllocType /\ ~Undeclared.regable
    BY DEF Undeclared, AllocType
  <1>5. alloc' \in [Name -> AllocType] /\ RegableSizes'
    BY <1>1, <1>3, <1>4 DEF TypeOK, RegableSizes
  <1>6. \A x \in InRegNames \ W : alloc'[x].size # 0
    <2> SUFFICES ASSUME NEW x \in InRegNames \ W PROVE alloc'[x].size # 0  OBVIOUS
    <2>1. x \in Name /\ x \notin V  BY DEF InRegNames
    <2> QED  BY <2>1, <1>3, InvFacts
  <1>7. freeSpace' \subseteq [size : Nat, offset : Int]
    <2>1. \A v \in V : alloc[v].size \div 8 \in Nat /\ alloc[v].offset \in Int
      BY <1>1, DivNat DEF TypeOK, AllocType
    <2> QED  BY <1>1, <2>1 DEF ForgetNames, TypeOK
  <1>8. /\ cell' \in [AllLanes -> Name \cup {Junk}] /\ mem' \in [Addr -> Name \cup {Junk}]
        /\ inmem' \subseteq Name /\ live' \subseteq Name
    BY <1>1 DEF ForgetNames, TypeOK
  <1> HIDE DEF W
  <1> QED  BY <1>1, <1>2, <1>5, <1>6, <1>7, <1>8, EvictInv DEF TypeOK

(* evict, label, jumps; volatile; a call; an operand taken from memory: the *)
(* locals of V are stored into their slots, and no register is handed out. *)
LEMMA SpillInv ==
  ASSUME AllocInv, NEW V \in SUBSET InRegNames,
         pool' = PoolAfter(V), regof' = RegofAfter(V), regs' = RegsAfter(V),
         mem' = MemAfter(V), cell' \in [AllLanes -> Name \cup {Junk}],
         inmem' \subseteq Name, operands' \subseteq OperandType,
         alloc' = alloc \/ \E x \in Name : alloc' = [alloc EXCEPT ![x].volatile = TRUE],
         phase' = phase \/ {phase, phase'} = {"body", "calling"},
         UNCHANGED <<localoff, freeSpace, manual, live, outcome>>
  PROVE  AllocInv'
  <1>1. TypeOK /\ RegableSizes /\ V \in SUBSET Name  BY InvFacts DEF InRegNames
  <1>2. /\ alloc' \in [Name -> AllocType]
        /\ \A x \in Name : /\ alloc'[x].size = alloc[x].size
                           /\ alloc'[x].regable = alloc[x].regable
    <2>1. CASE alloc' = alloc  BY <1>1, <2>1 DEF TypeOK
    <2>2. ASSUME NEW x \in Name, alloc' = [alloc EXCEPT ![x].volatile = TRUE]
          PROVE  /\ alloc' \in [Name -> AllocType]
                 /\ \A y \in Name : /\ alloc'[y].size = alloc[y].size
                                    /\ alloc'[y].regable = alloc[y].regable
      <3> DEFINE v == [alloc[x] EXCEPT !.volatile = TRUE]
      <3>1. alloc \in [Name -> AllocType] /\ alloc[x] \in AllocType  BY <1>1 DEF TypeOK
      <3>2. v \in AllocType /\ v.size = alloc[x].size /\ v.regable = alloc[x].regable
        BY <3>1 DEF AllocType
      <3>3. alloc' = [alloc EXCEPT ![x] = v]  BY <2>2
      <3> HIDE DEF v
      <3> QED  BY <3>1, <3>2, <3>3
    <2> QED  BY <2>1, <2>2
  <1>3. RegableSizes'  BY <1>1, <1>2 DEF RegableSizes
  <1>4. \A x \in InRegNames \ V : alloc'[x].size # 0  BY <1>2, InvFacts
  <1>5. mem' \in [Addr -> Name \cup {Junk}]  BY <1>1, MachineTypes
  <1> QED  BY <1>1, <1>2, <1>3, <1>4, <1>5, EvictInv DEF TypeOK

LEMMA EvictedKeeps ==
  ASSUME AllocInv, NEW V \in SUBSET InRegNames, Evicted(V),
         phase' = phase \/ {phase, phase'} = {"body", "calling"},
         UNCHANGED <<alloc, frame, manual, operands, live, outcome>>
  PROVE  AllocInv'
  <1>1. TypeOK /\ V \in SUBSET Name  BY InvFacts DEF InRegNames
  <1>2. cell' \in [AllLanes -> Name \cup {Junk}] /\ inmem' \subseteq Name
    BY <1>1, MachineTypes DEF Evicted, Spilled
  <1> QED  BY <1>1, <1>2, SpillInv DEF Evicted, Spilled, frame, TypeOK

LEMMA VolatileKeeps ==
  ASSUME AllocInv, NEW x \in Name, Volatile(x)
  PROVE  AllocInv'
  <1> DEFINE V == IF InReg(x) THEN {x} ELSE {}
  <1>1. V \in SUBSET InRegNames /\ V \in SUBSET Name /\ TypeOK  BY InvFacts DEF InRegNames
  <1>2. Spilled(V)  BY DEF Volatile
  <1> HIDE DEF V
  <1>3. cell' \in [AllLanes -> Name \cup {Junk}] /\ inmem' \subseteq Name
    BY <1>1, <1>2, MachineTypes DEF Volatile, Spilled, TypeOK
  <1> QED  BY <1>1, <1>2, <1>3, SpillInv DEF Volatile, Spilled, frame, TypeOK

(* What the encoder is told of an operand.                                 *)
LEMMA OperandTypes ==
  ASSUME NEW x \in Name, NEW loc \in Register \cup {NoReg}, NEW w \in BOOLEAN
  PROVE  Operand(x, loc, w) \in OperandType /\ Partial(x, loc, w) \in OperandType
  BY DEF Operand, Partial, OperandType

LEMMA MemOperandKeeps ==
  ASSUME AllocInv, NEW x \in Name, NEW w \in BOOLEAN, MemOperand(x, w)
  PROVE  AllocInv'
  <1> DEFINE V == IF InReg(x) THEN {x} ELSE {}
  <1>1. V \in SUBSET InRegNames /\ V \in SUBSET Name /\ TypeOK  BY InvFacts DEF InRegNames
  <1>2. Spilled(V)  BY DEF MemOperand
  <1> HIDE DEF V
  <1>3. cell' \in [AllLanes -> Name \cup {Junk}] /\ inmem' \subseteq Name
    BY <1>1, <1>2, MachineTypes DEF MemOperand, Spilled, TypeOK
  <1>4. operands' \subseteq OperandType
    BY <1>1, OperandTypes DEF MemOperand, TypeOK
  <1> QED  BY <1>1, <1>2, <1>3, <1>4, SpillInv DEF MemOperand, Spilled, frame, TypeOK

LEMMA CallKeeps ==
  ASSUME AllocInv, Call
  PROVE  AllocInv'
  <1>1. /\ TypeOK /\ CallEvicts \in SUBSET InRegNames /\ CallEvicts \in SUBSET Name
    BY InvFacts, HoldersInReg
  <1>2. cell' = [l \in AllLanes |-> IF l \in Clobbered THEN Junk ELSE CellAfter(CallEvicts)[l]]
    BY DEF Call
  <1>3. cell' \in [AllLanes -> Name \cup {Junk}]  BY <1>1, <1>2, MachineTypes
  <1>4. /\ pool' = PoolAfter(CallEvicts) /\ regof' = RegofAfter(CallEvicts)
        /\ regs' = RegsAfter(CallEvicts) /\ mem' = MemAfter(CallEvicts)
        /\ inmem' = InmemAfter(CallEvicts)
        /\ UNCHANGED <<alloc, localoff, freeSpace, manual, phase, operands, live, outcome>>
    BY DEF Call, frame
  <1>5. inmem' \subseteq Name  BY <1>1, <1>4, MachineTypes
  <1> QED  BY <1>1, <1>3, <1>4, <1>5, SpillInv DEF TypeOK

(* use, acquire, release                                                   *)
LEMMA ClaimInv ==
  ASSUME AllocInv, NEW V \in SUBSET InRegNames, NEW r \in Register,
         FullReg(r) # rbp, phase = "body", CanUse(PoolAfter(V), r),
         pool' = Take(PoolAfter(V), r), manual' = manual \cup {r},
         regof' = RegofAfter(V), regs' = RegsAfter(V),
         inmem' \subseteq Name,
         cell' \in [AllLanes -> Name \cup {Junk}],
         mem' \in [Addr -> Name \cup {Junk}],
         UNCHANGED <<alloc, localoff, freeSpace, phase, operands, live, outcome>>
  PROVE  AllocInv'
  <1> DEFINE O == (Held \ RegsOf(V)) \cup Reserved
  <1>1. TypeOK /\ HoldersAgree /\ PoolExact  BY InvFacts
  <1>2. PoolAfter(V) \in PoolType /\ Exact(PoolAfter(V), O)  BY <1>1, EvictPool
  <1>3. O \in SUBSET Register  BY <1>1, HeldFacts
  <1>4. r \notin O /\ pool' \in PoolType /\ Exact(pool', O \cup {r})
    BY <1>2, <1>3, TakeExact
  <1>5. /\ regof' \in [Name -> Register \cup {NoReg}]
        /\ regs' \in [Register -> Name \cup {None}]
        /\ HoldersAgree' /\ Held' = Held \ RegsOf(V)
        /\ \A x \in Name : InReg(x)' <=> InReg(x) /\ x \notin V
    BY <1>1, EvictTables
  <1>6. Reserved' = Reserved \cup {r}  BY DEF Reserved
  <1>7. PoolExact'
    <2>1. Held' \cup Reserved' = O \cup {r}  BY <1>5, <1>6
    <2>2. Held' \cap Reserved' = {}  BY <1>1, <1>4, <1>5, <1>6 DEF PoolExact
    <2> QED  BY <2>1, <2>2, <1>4 DEF PoolExact
  <1>8. TypeOK'  BY <1>1, <1>4, <1>5 DEF TypeOK
  <1>9. RegDeclared' /\ RegableSizes' /\ ArgsOffFrame'
    BY <1>5 DEF AllocInv, RegDeclared, RegableSizes, ArgsOffFrame, Declared
  <1> QED  BY <1>5, <1>7, <1>8, <1>9 DEF AllocInv

LEMMA PanicKeeps ==
  ASSUME AllocInv, NEW why \in Outcomes, Panic(why)
  PROVE  AllocInv'
  <1>1. /\ UNCHANGED <<pool, alloc, regof, regs, inmem, localoff, freeSpace, manual,
                        phase, operands, cell, mem, live>>
        /\ outcome' \in Outcomes
    BY DEF Panic, tables, frame, machine
  <1>2. RegableSizes'  BY <1>1, InvFacts DEF RegableSizes
  <1> QED  BY <1>1, <1>2, InvFacts, QuietInv DEF TypeOK

LEMMA UseKeeps ==
  ASSUME AllocInv, NEW r \in Register, Use(r)
  PROVE  AllocInv'
  <1>1. TypeOK  BY InvFacts
  <1>2. PoolAfter({}) = pool /\ RegofAfter({}) = regof /\ RegsAfter({}) = regs
    BY <1>1, EvictNone
  <1>3. {} \in SUBSET InRegNames  OBVIOUS
  <1>4. /\ UNCHANGED <<alloc, regof, regs, inmem, localoff, freeSpace, phase, operands,
                        cell, mem, live, outcome>>
        /\ phase = "body" /\ FullReg(r) # rbp /\ CanUse(pool, r)
        /\ pool' = Take(pool, r) /\ manual' = manual \cup {r}
    BY DEF Use, tables, frame, machine, AtDirective
  <1> QED  BY <1>1, <1>2, <1>3, <1>4, ClaimInv DEF TypeOK

LEMMA AcquireKeeps ==
  ASSUME AllocInv, NEW r \in Register, Acquire(r)
  PROVE  AllocInv'
  <1> DEFINE V == Holders(Conflicts(pool, r))
  <1>1. TypeOK /\ V \in SUBSET InRegNames /\ V \in SUBSET Name
    BY InvFacts, HoldersInReg
  <1>2. CASE Panic("acquire failed")
    <2>1. "acquire failed" \in Outcomes  BY DEF Outcomes
    <2> QED  BY <1>2, <2>1, PanicKeeps
  <1>3. CASE ~Panic("acquire failed")
    <2>1. /\ CanUse(PoolAfter(V), r) /\ FullReg(r) # rbp /\ phase = "body"
          /\ pool' = Take(PoolAfter(V), r) /\ manual' = manual \cup {r}
          /\ regof' = RegofAfter(V) /\ regs' = RegsAfter(V)
          /\ inmem' = InmemAfter(V) /\ mem' = MemAfter(V) /\ cell' = CellAfter(V)
          /\ UNCHANGED <<alloc, localoff, freeSpace, phase, operands, live, outcome>>
      BY <1>3 DEF Acquire, AtDirective, frame
    <2> HIDE DEF V
    <2>2. /\ inmem' \subseteq Name /\ cell' \in [AllLanes -> Name \cup {Junk}]
          /\ mem' \in [Addr -> Name \cup {Junk}]
      BY <1>1, <2>1, MachineTypes
    <2> QED  BY <1>1, <2>1, <2>2, ClaimInv
  <1> QED  BY <1>2, <1>3

(* release: the register is one a directive holds, or it is free.          *)
LEMMA ReleaseRegKeeps ==
  ASSUME AllocInv, NEW r \in Register, ReleaseReg(r)
  PROVE  AllocInv'
  <1> DEFINE O == Held \cup Reserved
             S == {r}
  <1>1. TypeOK /\ HoldersAgree /\ PoolExact  BY InvFacts
  <1>2. pool \in PoolType /\ O \in SUBSET Register /\ Exact(pool, O)
    BY <1>1, HeldFacts DEF PoolExact, TypeOK
  <1>3. FullReg(r) \in Full  BY RegisterShape
  <1>4. /\ r \in manual \/ Conflicts(pool, PartialReg(FullReg(r), 64)) = {}
        /\ pool' = Release(pool, S) /\ manual' = manual \ {r} /\ phase = "body"
        /\ UNCHANGED <<alloc, regof, regs, inmem, localoff, freeSpace, phase, operands,
                        cell, mem, live, outcome>>
    BY DEF ReleaseReg, tables, frame, machine, AtDirective
  <1>5. r \in manual \/ pool.size[FullReg(r)] = 0
    BY <1>2, <1>3, <1>4, NoConflicts
  <1>6. manual \subseteq Reserved  BY DEF Reserved
  <1>7. \A q \in S : q \in O \/ pool.size[FullReg(q)] = 0  BY <1>5, <1>6
  <1>8. S \in SUBSET Register  OBVIOUS
  <1>9. pool' \in PoolType /\ Exact(pool', O \ S)
    <2> HIDE DEF O, S
    <2> QED  BY <1>2, <1>4, <1>7, <1>8, ReleaseExact
  <1>10. Held' = Held
    BY <1>4 DEF Held, InReg
  <1>11. pool.size[FullReg(r)] = 0 => r \notin O  BY <1>2, <1>3 DEF Exact
  <1>12. Reserved' = Reserved \ {r}
    <2>1. CASE r \in manual
      <3>1. r # PartialReg(rbp, 64)  BY <1>1, <2>1, HeldFacts DEF AllocInv
      <3> QED  BY <3>1, <1>4 DEF Reserved
    <2>2. CASE r \notin manual
      <3>1. r \notin Reserved  BY <2>2, <1>5, <1>11
      <3> QED  BY <3>1, <2>2, <1>4 DEF Reserved
    <2> QED  BY <2>1, <2>2
  <1>13. r \notin Held  BY <1>1, <1>5, <1>6, <1>11 DEF PoolExact
  <1>14. PoolExact'
    <2>1. Held' \cup Reserved' = O \ S  BY <1>10, <1>12, <1>13
    <2>2. Held' \cap Reserved' = {}  BY <1>1, <1>10, <1>12 DEF PoolExact
    <2> QED  BY <2>1, <2>2, <1>9 DEF PoolExact
  <1>15. TypeOK'  BY <1>1, <1>4, <1>9 DEF TypeOK
  <1>16. HoldersAgree' /\ RegDeclared' /\ RegableSizes' /\ ArgsOffFrame'
    BY <1>4 DEF AllocInv, HoldersAgree, RegDeclared, RegableSizes, ArgsOffFrame, Declared, InReg
  <1> QED  BY <1>4, <1>14, <1>15, <1>16 DEF AllocInv

(* inreg: every register in the way of r holds a local, which gives it up. *)
LEMMA UseRegisterKeeps ==
  ASSUME AllocInv, NEW x \in Name, NEW r \in Register, UseRegister(x, r)
  PROVE  AllocInv'
  <1> DEFINE O == Held \cup Reserved
             C == Conflicts(pool, r)
             V == Holders(C)
  <1>1. TypeOK /\ HoldersAgree /\ PoolExact /\ V \in SUBSET InRegNames
    BY InvFacts, HoldersInReg
  <1>2. pool \in PoolType /\ O \in SUBSET Register /\ Exact(pool, O)
    BY <1>1, HeldFacts DEF PoolExact, TypeOK
  <1>3. /\ Declared(x) /\ phase = "body" /\ FullReg(r) # rbp
        /\ \A m \in manual : ~Overlap(m, r)
        /\ Place(x, r, V, FALSE) /\ UNCHANGED <<operands, outcome>>
    BY DEF UseRegister, AtDirective
  <1>4. C \subseteq O /\ (\A c \in C : Overlap(c, r)) /\ CanUse(Release(pool, C), r)
    <2> HIDE DEF O
    <2> QED  BY <1>2, ConflictsExact
  <1>5. C \subseteq Held
    <2> SUFFICES ASSUME NEW c \in C, c \in Reserved PROVE FALSE  BY <1>4
    <2>1. c \notin manual  BY <1>3, <1>4
    <2>2. c = PartialReg(rbp, 64)  BY <2>1 DEF Reserved
    <2>3. c \in Register /\ Overlap(c, r)  BY <1>2, <1>4
    <2>4. FullReg(c) = FullReg(r)  BY <2>3, OverlapShape
    <2> QED  BY <1>1, <1>3, <2>2, <2>4, HeldFacts
  <1>6. RegsOf(V) = C
    <2>1. ASSUME NEW c \in C PROVE c \in RegsOf(V)
      <3>1. PICK y \in Name : InReg(y) /\ regof[y] = c  BY <1>5 DEF Held
      <3>2. c \in Register  BY <1>2, <1>4
      <3>3. regs[c] = y  BY <1>1, <3>1, <3>2 DEF HoldersAgree
      <3>4. y \in V  BY <3>1, <3>3 DEF Holders
      <3> QED  BY <3>1, <3>4 DEF RegsOf
    <2>2. ASSUME NEW y \in V PROVE regof[y] \in C
      <3>1. PICK c \in C : regs[c] = y  BY DEF Holders
      <3>2. y \in Name /\ c \in Register  BY <1>2, <1>4 DEF Holders
      <3> QED  BY <1>1, <3>1, <3>2 DEF HoldersAgree
    <2> HIDE DEF V, C
    <2> QED  BY <2>1, <2>2 DEF RegsOf
  <1>7. CanUse(PoolAfter(V), r)  BY <1>4, <1>6 DEF PoolAfter
  <1> HIDE DEF V
  <1> QED  BY <1>1, <1>3, <1>7, PlaceInv DEF TypeOK

(* An instruction's operand in a register: it is there, or a free register *)
(* of its size is loaded, or one is after an eviction, or the assembler    *)
(* panics.                                                                 *)
LEMMA RegOperandKeeps ==
  ASSUME AllocInv, NEW x \in Name, NEW w \in BOOLEAN, RegOperand(x, w)
  PROVE  AllocInv'
  <1> DEFINE need == NeedSize(x)
             V == LruVictim(need)
             clear == alloc[x].regable /\ need < 64
  <1>1. TypeOK /\ HoldersAgree /\ PoolExact /\ RegableSizes  BY InvFacts
  <1>2. Declared(x) /\ phase # "args"
    <2>1. AtOperand(x, w) \/ AtCallTarget(x)  BY Zenon DEF RegOperand
    <2> QED  BY <2>1 DEF AtOperand, AtCallTarget, CallTarget, Declared
  <1>3. need \in Sizes /\ (need # 8 => PartOfWidth(need) \in Wide)
    <2>1. need \in LocalSizes \cup {64}  BY <1>1 DEF NeedSize, RegableSizes
    <2>2. PartOfWidth(64) = "r64"  BY DEF PartOfWidth
    <2> HIDE DEF need
    <2> QED  BY <2>1, <2>2, AllocConstants, RegisterFile DEF Sizes
  <1>4. clear \in BOOLEAN  BY <1>1 DEF TypeOK, AllocType
  <1>5. V \in SUBSET InRegNames  BY HoldersInReg
  <1>6. PoolAfter({}) = pool /\ {} \in SUBSET InRegNames  BY <1>1, EvictNone
  <1>7. PoolAfter(V) \in PoolType /\ pool \in PoolType  BY <1>1, <1>5, EvictPool DEF TypeOK
  <1>8. ASSUME NEW r \in Register PROVE operands \cup {Operand(x, r, w)} \subseteq OperandType
    <2>1. Operand(x, r, w) \in OperandType  BY OperandTypes
    <2> QED  BY <1>1, <2>1 DEF TypeOK
  <1>9. CASE Panic(LoadFailure(NeedSize(x)))
    <2>1. LoadFailure(NeedSize(x)) \in Outcomes  BY DEF Outcomes, LoadFailure
    <2> QED  BY <1>9, <2>1, PanicKeeps
  <1>10. CASE /\ InReg(x)
              /\ operands' = operands \cup {Operand(x, regof[x], w)}
              /\ UNCHANGED <<pool, alloc, regof, regs, inmem, frame, manual, phase, machine, outcome>>
    <2>1. regof[x] \in Register  BY <1>1, <1>10 DEF InReg, TypeOK
    <2>2. operands' \subseteq OperandType  BY <1>8, <1>10, <2>1
    <2>3. RegableSizes'  BY <1>1, <1>10 DEF RegableSizes
    <2> QED  BY <1>1, <1>10, <2>2, <2>3, InvFacts, QuietInv DEF TypeOK, frame, machine
  <1>11. ASSUME NEW r \in Get(pool, need), Place(x, r, {}, clear),
                operands' = operands \cup {Operand(x, r, w)}, outcome' = outcome
         PROVE  AllocInv'
    <2> HIDE DEF need, clear
    <2>1. r \in Register /\ CanUse(pool, r)  BY <1>3, <1>7, GetUsable
    <2> QED  BY <1>1, <1>2, <1>4, <1>6, <1>8, <1>11, <2>1, PlaceInv DEF TypeOK
  <1>12. ASSUME NEW r \in Get(PoolAfter(V), need), Place(x, r, V, clear),
                operands' = operands \cup {Operand(x, r, w)}, outcome' = outcome
         PROVE  AllocInv'
    <2> HIDE DEF need, clear, V
    <2>1. r \in Register /\ CanUse(PoolAfter(V), r)  BY <1>3, <1>7, GetUsable
    <2> QED  BY <1>1, <1>2, <1>4, <1>5, <1>8, <1>12, <2>1, PlaceInv DEF TypeOK
  <1> QED  BY <1>9, <1>10, <1>11, <1>12 DEF RegOperand

LEMMA PartialOperandKeeps ==
  ASSUME AllocInv, NEW x \in Name, NEW w \in BOOLEAN, PartialOperand(x, w)
  PROVE  AllocInv'
  <1>1. TypeOK /\ RegableSizes  BY InvFacts
  <1>2. operands' \subseteq OperandType /\ inmem' \subseteq Name
    BY <1>1, OperandTypes DEF PartialOperand, TypeOK
  <1>3. UNCHANGED <<pool, alloc, regof, regs, localoff, freeSpace, manual, phase,
                    cell, mem, live, outcome>>
    BY DEF PartialOperand, frame, machine
  <1>4. RegableSizes'  BY <1>1, <1>3 DEF RegableSizes
  <1> QED  BY <1>1, <1>2, <1>3, <1>4, InvFacts, QuietInv DEF TypeOK

LEMMA EmitKeeps ==
  ASSUME AllocInv, Emit
  PROVE  AllocInv'
  <1>1. TypeOK /\ RegableSizes  BY InvFacts
  <1>2. CASE Panic(Displacement)
    <2>1. Displacement \in Outcomes  BY DEF Outcomes, Displacement
    <2> QED  BY <1>2, <2>1, PanicKeeps
  <1>3. CASE ~Panic(Displacement)
    <2> DEFINE W == {o.name : o \in {p \in operands : p.write}}
               toReg == {x \in W : InReg(x) /\ alloc[x].regable}
               T(l) == {x \in Name : InReg(x) /\ l \in Lanes(regof[x])}
               S(a) == {x \in W \ toReg : a \in Slot(alloc[x])}
               c(l) == CHOOSE x \in T(l) \cap toReg : TRUE
               m(a) == CHOOSE x \in S(a) : TRUE
    <2>1. W \subseteq Name  BY <1>1 DEF TypeOK, OperandType
    <2>2. /\ cell' = [l \in AllLanes |-> CASE T(l) = {} -> Junk
                                           [] T(l) \cap toReg # {} -> c(l)
                                           [] OTHER -> cell[l]]
          /\ mem' = [a \in Addr |-> CASE S(a) # {} -> m(a)
                                      [] S(a) = {} /\ mem[a] \in W -> Junk
                                      [] OTHER -> mem[a]]
          /\ live' = live \cup W /\ operands' = {}
          /\ UNCHANGED <<pool, tables, frame, manual, phase, outcome>>
      BY <1>3 DEF Emit
    <2>3. \A l \in AllLanes : T(l) \cap toReg # {} => c(l) \in Name  BY <2>1
    <2>4. \A a \in Addr : S(a) # {} => m(a) \in Name  BY <2>1
    <2>5. /\ \A l \in AllLanes : cell[l] \in Name \cup {Junk}
          /\ \A a \in Addr : mem[a] \in Name \cup {Junk}
      BY <1>1 DEF TypeOK
    <2>6. live' \subseteq Name /\ operands' \subseteq OperandType
      BY <1>1, <2>1, <2>2 DEF TypeOK
    <2> HIDE DEF W, toReg, T, S, c, m
    <2>7. cell' \in [AllLanes -> Name \cup {Junk}]  BY <2>2, <2>3, <2>5, Zenon
    <2>8. mem' \in [Addr -> Name \cup {Junk}]  BY <2>2, <2>4, <2>5, Zenon
    <2>9. RegableSizes'  BY <1>1, <2>2 DEF RegableSizes, tables
    <2> QED  BY <1>1, <2>2, <2>6, <2>7, <2>8, <2>9, InvFacts, QuietInv
             DEF TypeOK, tables, frame
  <1> QED  BY <1>2, <1>3

LEMMA CallThroughKeeps ==
  ASSUME AllocInv, CallThrough
  PROVE  AllocInv'
  <1>1. TypeOK /\ RegableSizes  BY InvFacts
  <1>2. /\ UNCHANGED <<pool, alloc, regof, regs, inmem, localoff, freeSpace, manual, mem, outcome>>
        /\ {phase, phase'} = {"body", "calling"} /\ operands' = {}
    BY DEF CallThrough, tables, frame
  <1>3. cell' \in [AllLanes -> Name \cup {Junk}] /\ live' \subseteq Name
    BY <1>1 DEF CallThrough, TypeOK
  <1>4. RegableSizes'  BY <1>1, <1>2 DEF RegableSizes
  <1> QED  BY <1>1, <1>2, <1>3, <1>4, InvFacts, QuietInv DEF TypeOK

(* prologue: RBP is free, and is taken; epilogue: it is given back.        *)
LEMMA PrologueKeeps ==
  ASSUME AllocInv, Prologue
  PROVE  AllocInv'
  <1> DEFINE r == PartialReg(rbp, 64)
  <1>1. TypeOK /\ HoldersAgree /\ PoolExact /\ phase = "args" /\ manual = {}
    BY InvFacts DEF AllocInv, ArgsOffFrame, Prologue
  <1>2. Reserved = {} /\ \A q \in Held : FullReg(q) # rbp
    BY <1>1 DEF Reserved, Held, AllocInv, ArgsOffFrame
  <1>3. r \in Register /\ FullReg(r) = rbp /\ rbp \in Full /\ Held \in SUBSET Register
    BY <1>1, HeldFacts, AllocConstants
  <1>4. pool \in PoolType /\ Exact(pool, Held)
    <2>1. Held \cup Reserved = Held  BY <1>2
    <2> QED  BY <1>1, <2>1 DEF PoolExact, TypeOK
  <1>5. CanUse(pool, r)
    <2>1. pool.size[rbp] \in Sizes \cup {0}  BY <1>3, <1>4 DEF PoolType
    <2>2. pool.size[rbp] # 8  BY <1>2, <1>3, <1>4 DEF Exact
    <2>3. ASSUME pool.size[rbp] \notin {0, 8} PROVE FALSE
      <3>1. {q \in Held : FullReg(q) = rbp} = {PartialReg(rbp, pool.size[rbp])}
        BY <1>3, <1>4, <2>3 DEF Exact
      <3> QED  BY <3>1, <1>2
    <2>4. r \notin pool.bytes  BY <1>2, <1>3, <1>4 DEF Exact
    <2> QED  BY <1>3, <2>1, <2>2, <2>3, <2>4 DEF CanUse, InUse, FullInUse
  <1>6. /\ pool' = Take(pool, r) /\ phase' = "body"
        /\ UNCHANGED <<alloc, regof, regs, inmem, localoff, freeSpace, manual, operands,
                        cell, mem, live, outcome>>
    BY <1>5 DEF Prologue, tables, frame, machine
  <1> HIDE DEF r
  <1>7. r \notin Held /\ pool' \in PoolType /\ Exact(pool', Held \cup {r})
    BY <1>3, <1>4, <1>5, <1>6, TakeExact
  <1>8. Held' = Held /\ Reserved' = {r}
    BY <1>1, <1>6 DEF Held, InReg, Reserved, r
  <1>9. PoolExact'  BY <1>7, <1>8 DEF PoolExact
  <1>10. TypeOK'  BY <1>1, <1>6, <1>7 DEF TypeOK
  <1>11. HoldersAgree' /\ RegDeclared' /\ RegableSizes' /\ ArgsOffFrame'
    BY <1>6 DEF AllocInv, HoldersAgree, RegDeclared, RegableSizes, ArgsOffFrame, Declared, InReg
  <1> QED  BY <1>1, <1>6, <1>9, <1>10, <1>11 DEF AllocInv

LEMMA EpilogueKeeps ==
  ASSUME AllocInv, Epilogue
  PROVE  AllocInv'
  <1> DEFINE S == {PartialReg(rbp, 64)}
  <1>1. TypeOK /\ HoldersAgree /\ PoolExact /\ phase = "body" /\ manual = {}
    BY InvFacts DEF Epilogue, AtDirective
  <1>2. Reserved = S  BY <1>1 DEF Reserved
  <1>3. /\ pool' = Release(pool, S) /\ phase' = "done"
        /\ UNCHANGED <<alloc, regof, regs, inmem, localoff, freeSpace, manual, operands,
                        cell, mem, live, outcome>>
    BY DEF Epilogue, tables, frame, machine
  <1>4. S \in SUBSET Register /\ Held \cup S \in SUBSET Register  BY <1>1, HeldFacts
  <1> HIDE DEF S
  <1>5. pool \in PoolType /\ Exact(pool, Held \cup S) /\ Held \cap S = {}
    BY <1>1, <1>2 DEF PoolExact, TypeOK
  <1>6. pool' \in PoolType /\ Exact(pool', (Held \cup S) \ S)
    BY <1>3, <1>4, <1>5, ReleaseExact
  <1>7. Held' = Held /\ Reserved' = {}
    BY <1>1, <1>3 DEF Held, InReg, Reserved
  <1>8. PoolExact'
    <2>1. (Held \cup S) \ S = Held' \cup Reserved'  BY <1>5, <1>7
    <2> QED  BY <1>6, <1>7, <2>1 DEF PoolExact
  <1>9. TypeOK'  BY <1>1, <1>3, <1>6 DEF TypeOK
  <1>10. HoldersAgree' /\ RegDeclared' /\ RegableSizes' /\ ArgsOffFrame'
    BY <1>3 DEF AllocInv, HoldersAgree, RegDeclared, RegableSizes, ArgsOffFrame, Declared, InReg
  <1> QED  BY <1>1, <1>3, <1>8, <1>9, <1>10 DEF AllocInv

-----------------------------------------------------------------------------
LEMMA InitInv == Init => AllocInv
  <1> SUFFICES ASSUME Init PROVE AllocInv  OBVIOUS
  <1>1. NewRegisters \in PoolType  BY DEF NewRegisters, PoolType
  <1>2. Undeclared \in AllocType /\ ~Undeclared.regable  BY DEF Undeclared, AllocType
  <1>3. TypeOK
    BY <1>1, <1>2, AllocConstants DEF Init, TypeOK, Outcomes
  <1>4. None \notin Name /\ NoReg \notin Register  BY AllocConstants
  <1>5. HoldersAgree  BY <1>4 DEF Init, HoldersAgree
  <1>6. Held = {} /\ Reserved = {} /\ \A x \in Name : ~InReg(x)
    BY DEF Init, Held, Reserved, InReg
  <1>7. Exact(NewRegisters, {})  BY DEF Exact, NewRegisters
  <1>8. PoolExact  BY <1>6, <1>7 DEF PoolExact, Init
  <1>9. RegDeclared /\ ArgsOffFrame  BY <1>6 DEF RegDeclared, ArgsOffFrame, Init
  <1>10. RegableSizes  BY <1>2 DEF RegableSizes, Init
  <1> QED  BY <1>3, <1>5, <1>8, <1>9, <1>10 DEF AllocInv, Init

LEMMA NextInv == AllocInv /\ [Next]_vars => AllocInv'
  <1> SUFFICES ASSUME AllocInv, [Next]_vars PROVE AllocInv'  OBVIOUS
  <1>1. CASE Declare
    <2>1. ASSUME NEW x \in Name, NEW s \in LocalSizes, Local(x, s) PROVE AllocInv'
      BY <2>1, LocalKeeps
    <2>2. ASSUME NEW x \in Name, NEW n \in ChunkBytes, Bytes(x, n) PROVE AllocInv'
      BY <2>2, BytesKeeps
    <2>3. ASSUME NEW x \in Name, NEW i \in DOMAIN arg_regs, NEW s \in LocalSizes,
                 Arg(x, i, s)
          PROVE  AllocInv'
      BY <2>3, ArgKeeps
    <2>4. ASSUME NEW x \in Name, NEW k \in 0 .. (MaxStackArgs - 1), StackArg(x, k)
          PROVE  AllocInv'
      BY <2>4, StackArgKeeps
    <2> QED  BY <1>1, <2>1, <2>2, <2>3, <2>4 DEF Declare
  <1>2. CASE Directive
    <2>1. CASE ForgetAll
      <3>1. DeclaredNames \in SUBSET Name  BY DEF DeclaredNames
      <3> QED  BY <2>1, <3>1, ForgetKeeps DEF ForgetAll
    <2>2. CASE EvictAll  BY <2>2, HoldersInReg, EvictedKeeps DEF EvictAll
    <2>3. CASE Call  BY <2>3, CallKeeps
    <2>4. CASE Prologue  BY <2>4, PrologueKeeps
    <2>5. CASE Epilogue  BY <2>5, EpilogueKeeps
    <2>6. ASSUME NEW x \in Name, Forget(x) PROVE AllocInv'
      <3>1. {x} \in SUBSET Name  OBVIOUS
      <3> QED  BY <2>6, <3>1, ForgetKeeps DEF Forget
    <2>7. ASSUME NEW x \in Name, Volatile(x) PROVE AllocInv'  BY <2>7, VolatileKeeps
    <2>8. ASSUME NEW r \in Register, EvictReg(r) PROVE AllocInv'
      BY <2>8, HoldersInReg, EvictedKeeps DEF EvictReg
    <2>9. ASSUME NEW r \in Register, ReleaseReg(r) PROVE AllocInv'
      BY <2>9, ReleaseRegKeeps
    <2>10. ASSUME NEW x \in Name, NEW r \in Register, UseRegister(x, r) PROVE AllocInv'
      BY <2>10, UseRegisterKeeps
    <2> QED  BY <1>2, <2>1, <2>2, <2>3, <2>4, <2>5, <2>6, <2>7, <2>8, <2>9, <2>10
             DEF Directive
  <1>3. CASE Instr
    <2>1. ASSUME NEW x \in Name, NEW w \in BOOLEAN, RegOperand(x, w) PROVE AllocInv'
      BY <2>1, RegOperandKeeps
    <2>2. ASSUME NEW x \in Name, NEW w \in BOOLEAN, MemOperand(x, w) PROVE AllocInv'
      BY <2>2, MemOperandKeeps
    <2>3. ASSUME NEW x \in Name, NEW w \in BOOLEAN, PartialOperand(x, w) PROVE AllocInv'
      BY <2>3, PartialOperandKeeps
    <2>4. CASE Emit  BY <2>4, EmitKeeps
    <2>5. CASE BeginCallThrough
      <3>1. {phase, phase'} = {"body", "calling"}
        BY <2>5 DEF BeginCallThrough, AtDirective
      <3> QED  BY <2>5, <3>1, HoldersInReg, EvictedKeeps DEF BeginCallThrough
    <2>6. CASE CallThrough  BY <2>6, CallThroughKeeps
    <2> QED  BY <1>3, <2>1, <2>2, <2>3, <2>4, <2>5, <2>6 DEF Instr
  <1>4. CASE Claim
    <2>1. ASSUME NEW r \in Register, Use(r) PROVE AllocInv'  BY <2>1, UseKeeps
    <2>2. ASSUME NEW r \in Register, Acquire(r) PROVE AllocInv'  BY <2>2, AcquireKeeps
    <2> QED  BY <1>4, <2>1, <2>2 DEF Claim
  <1>5. CASE UNCHANGED vars
    <2>1. UNCHANGED <<pool, alloc, regof, regs, inmem, localoff, freeSpace, manual, phase,
                      operands, cell, mem, live, outcome>>
      BY <1>5 DEF vars, tables, frame, machine
    <2>2. RegableSizes'  BY <2>1, InvFacts DEF RegableSizes
    <2> QED  BY <2>1, <2>2, InvFacts, QuietInv DEF TypeOK
  <1> QED  BY <1>1, <1>2, <1>3, <1>4, <1>5 DEF Next

(* The allocator's tables agree and the pool is exact in every state.      *)
THEOREM Invariance == Spec => []AllocInv
  BY InitInv, NextInv, PTL DEF Spec

(* Every table of the allocator has its shape, whatever the program is.    *)
THEOREM TypeCorrect == Spec => []TypeOK
  <1>1. AllocInv => TypeOK  BY DEF AllocInv
  <1> QED  BY <1>1, Invariance, PTL

(* The pool knows exactly which registers are in use, and with what size.  *)
THEOREM PoolCorrect == Spec => [](PoolExact /\ HoldersAgree)
  <1>1. AllocInv => PoolExact /\ HoldersAgree  BY DEF AllocInv
  <1> QED  BY <1>1, Invariance, PTL

(* The pool is exact, so what is out at the same time shares no byte.      *)
LEMMA InvNoOverlap ==
  ASSUME AllocInv
  PROVE  NoOverlap
  <1> DEFINE O == Held \cup Reserved
  <1>1. TypeOK /\ HoldersAgree /\ PoolExact  BY InvFacts
  <1>2. pool \in PoolType /\ O \in SUBSET Register /\ Exact(pool, O)
    BY <1>1, HeldFacts DEF PoolExact, TypeOK
  <1>3. ASSUME NEW x \in Name, NEW y \in Name, x # y, InReg(x), InReg(y)
        PROVE  ~Overlap(regof[x], regof[y])
    <2>1. /\ regof[x] \in O /\ regof[y] \in O /\ regof[x] # regof[y]
      BY <1>1, <1>3, HeldFacts DEF InRegNames
    <2> HIDE DEF O
    <2> QED  BY <1>2, <2>1, ExactDisjoint
  <1>4. ASSUME NEW x \in Name, NEW r \in Reserved, InReg(x)
        PROVE  ~Overlap(regof[x], r)
    <2>1. /\ regof[x] \in O /\ r \in O /\ regof[x] # r
      BY <1>1, <1>4, HeldFacts DEF InRegNames, PoolExact
    <2> HIDE DEF O
    <2> QED  BY <1>2, <2>1, ExactDisjoint
  <1> QED  BY <1>3, <1>4 DEF NoOverlap

(* Rallocs.regs is the inverse of the locations the Rallocs record: no     *)
(* eviction finds a register whose local believes itself elsewhere.        *)
THEOREM HoldersCorrect == Spec => []HoldersAgree
  <1>1. AllocInv => HoldersAgree  BY DEF AllocInv
  <1> QED  BY <1>1, Invariance, PTL

(* No two locals share a byte of a register, and none is in a register a   *)
(* use or acquire directive or the frame has reserved.                     *)
THEOREM RegistersDisjoint == Spec => []NoOverlap
  <1>1. AllocInv => NoOverlap  BY InvNoOverlap
  <1> QED  BY <1>1, Invariance, PTL

(* The operand of an instruction is where it was, or is loaded, or the     *)
(* assembler panics.                                                       *)
LEMMA RegOperandCases ==
  ASSUME AllocInv, NEW x \in Name, NEW w \in BOOLEAN, RegOperand(x, w)
  PROVE  /\ Declared(x) /\ ~NoCache(x)
         /\ phase = "body" \/ (phase = "calling" /\ operands = {} /\ alloc[x].regable)
         /\ \/ Panic(LoadFailure(NeedSize(x)))
            \/ /\ InReg(x) /\ operands' = operands \cup {Operand(x, regof[x], w)}
               /\ UNCHANGED <<pool, alloc, regof, regs, inmem, frame, manual, phase, machine, outcome>>
            \/ /\ ~InReg(x)
               /\ \E r \in Register, V \in SUBSET InRegNames, c \in BOOLEAN :
                    Place(x, r, V, c) /\ operands' = operands \cup {Operand(x, r, w)}
  <1> DEFINE need == NeedSize(x)
             V == LruVictim(need)
             clear == alloc[x].regable /\ need < 64
  <1>1. TypeOK /\ HoldersAgree /\ PoolExact /\ RegableSizes  BY InvFacts
  <1>2. /\ Declared(x) /\ ~NoCache(x)
        /\ phase = "body" \/ (phase = "calling" /\ operands = {} /\ alloc[x].regable)
    <2>1. (AtOperand(x, w) \/ AtCallTarget(x)) /\ ~NoCache(x)  BY Zenon DEF RegOperand
    <2> QED  BY <2>1 DEF AtOperand, AtCallTarget, CallTarget, Declared
  <1>3. need \in Sizes /\ (need # 8 => PartOfWidth(need) \in Wide)
    <2>1. need \in LocalSizes \cup {64}  BY <1>1 DEF NeedSize, RegableSizes
    <2>2. PartOfWidth(64) = "r64"  BY DEF PartOfWidth
    <2> HIDE DEF need
    <2> QED  BY <2>1, <2>2, AllocConstants, RegisterFile DEF Sizes
  <1>4. clear \in BOOLEAN  BY <1>1 DEF TypeOK, AllocType
  <1>5. V \in SUBSET InRegNames /\ {} \in SUBSET InRegNames  BY HoldersInReg
  <1>6. PoolAfter(V) \in PoolType /\ pool \in PoolType  BY <1>1, <1>5, EvictPool DEF TypeOK
  <1>7. ASSUME NEW r \in Get(pool, need) PROVE r \in Register
    <2> HIDE DEF need
    <2> QED  BY <1>3, <1>6, GetUsable
  <1>8. ASSUME NEW r \in Get(PoolAfter(V), need) PROVE r \in Register
    <2> HIDE DEF need, V
    <2> QED  BY <1>3, <1>6, GetUsable
  <1>9. \/ Panic(LoadFailure(NeedSize(x)))
        \/ /\ InReg(x) /\ operands' = operands \cup {Operand(x, regof[x], w)}
           /\ UNCHANGED <<pool, alloc, regof, regs, inmem, frame, manual, phase, machine, outcome>>
        \/ /\ ~InReg(x)
           /\ \E r \in Get(pool, need) : Place(x, r, {}, clear) /\ operands' = operands \cup {Operand(x, r, w)}
        \/ /\ ~InReg(x)
           /\ \E r \in Get(PoolAfter(V), need) : Place(x, r, V, clear) /\ operands' = operands \cup {Operand(x, r, w)}
    BY Zenon DEF RegOperand
  <1> HIDE DEF need, clear, V
  <1> QED  BY <1>2, <1>4, <1>5, <1>7, <1>8, <1>9

-----------------------------------------------------------------------------
(* Lists.  Induction over 0 .. n is stated about sets, so that no theorem  *)
(* with an operator parameter is needed: a non-empty set of numbers has a  *)
(* least element.                                                          *)
LEMMA LeastNumber ==
  ASSUME NEW T \in SUBSET Nat, T # {}
  PROVE  \E n \in T : \A m \in T : n <= m
  <1> DEFINE R == OpToRel(<, Nat)
  <1>1. IsWellFoundedOn(R, Nat)  BY NatLessThanWellFounded
  <1>2. \A m, n \in Nat : <<m, n>> \in R <=> m < n  BY DEF OpToRel
  <1> HIDE DEF R
  <1>3. PICK n \in T : \A m \in T : ~ (<<m, n>> \in R)  BY <1>1, WFMin
  <1>4. \A m \in T : n <= m
    <2> SUFFICES ASSUME NEW m \in T PROVE n <= m OBVIOUS
    <2>1. n \in Nat /\ m \in Nat  OBVIOUS
    <2>2. ~ (m < n)  BY <1>2, <1>3, <2>1, Zenon
    <2> QED BY <2>1, <2>2
  <1> QED  BY <1>4

(* A set that has 0 and the next of each of its numbers has all of 0 .. n. *)
LEMMA UpTo ==
  ASSUME NEW n \in Nat, NEW T, 0 \in T, \A k \in 1 .. n : k - 1 \in T => k \in T
  PROVE  0 .. n \subseteq T
  <1> DEFINE U == {k \in 0 .. n : k \notin T}
  <1> SUFFICES ASSUME U # {} PROVE FALSE  OBVIOUS
  <1>1. U \in SUBSET Nat  OBVIOUS
  <1>2. PICK k \in U : \A m \in U : k <= m
    <2> HIDE DEF U
    <2> QED  BY <1>1, LeastNumber
  <1>3. k \in 1 .. n /\ k \notin T  OBVIOUS
  <1>4. k - 1 \in 0 .. n /\ k - 1 \notin U  BY <1>2, <1>3
  <1> QED  BY <1>3, <1>4

(* f goes from its first value c through the steps 1 .. n. *)
Stepwise(f, n, S, c, step) ==
  /\ f \in [0 .. n -> S] /\ f[0] = c
  /\ \A i \in 1 .. n : f[i] = step[i][f[i - 1]]

(* A recursive function over 0 .. n exists: n steps can be taken.          *)
LEMMA StepsExist ==
  ASSUME NEW n \in Nat, NEW S, NEW c \in S, NEW step \in [1 .. n -> [S -> S]]
  PROVE  \E f : Stepwise(f, n, S, c, step)
  <1> DEFINE T == {m \in 0 .. n : \E f : Stepwise(f, m, S, c, step)}
  <1>1. 0 \in T
    <2>1. Stepwise([i \in 0 .. 0 |-> c], 0, S, c, step)  BY DEF Stepwise
    <2>2. \E f : Stepwise(f, 0, S, c, step)  BY <2>1
    <2> QED  BY <2>2
  <1>2. ASSUME NEW k \in 1 .. n, k - 1 \in T PROVE k \in T
    <2>1. PICK f : Stepwise(f, k - 1, S, c, step)  BY <1>2
    <2> DEFINE g == [i \in 0 .. k |-> IF i = k THEN step[k][f[k - 1]] ELSE f[i]]
    <2>2. f[k - 1] \in S  BY <2>1 DEF Stepwise
    <2>3. g \in [0 .. k -> S]  BY <2>1, <2>2 DEF Stepwise
    <2>4. g[0] = c  BY <2>1 DEF Stepwise
    <2>5. ASSUME NEW i \in 1 .. k PROVE g[i] = step[i][g[i - 1]]
      <3>1. i - 1 \in 0 .. k /\ i - 1 # k /\ g[i - 1] = f[i - 1]  OBVIOUS
      <3>2. i # k => i \in 1 .. (k - 1)  OBVIOUS
      <3>3. i # k => f[i] = step[i][f[i - 1]]  BY <2>1, <3>2 DEF Stepwise
      <3> QED  BY <3>1, <3>3
    <2> HIDE DEF g
    <2>6. Stepwise(g, k, S, c, step)  BY <2>3, <2>4, <2>5 DEF Stepwise
    <2>7. \E h : Stepwise(h, k, S, c, step)  BY <2>6
    <2> QED  BY <2>7
  <1> HIDE DEF T
  <1>3. 0 .. n \subseteq T  BY <1>1, <1>2, UpTo
  <1>4. n \in T  BY <1>3
  <1> QED  BY <1>4 DEF T

(* What a list has in it, and that it has nothing twice.                   *)
Listed(t) == {t[i] : i \in DOMAIN t}
NoRepeats(t) == \A i, j \in DOMAIN t : i # j => t[i] # t[j]

(* The members of O are the last of the list.                              *)
EndsWith(t, O) == \A i, j \in DOMAIN t : i < j /\ t[i] \in O => t[j] \in O

(* Appending to a list. *)
LEMMA AppendShape ==
  ASSUME NEW S, NEW t \in Seq(S), NEW x \in S
  PROVE  /\ Append(t, x) \in Seq(S)
         /\ Listed(Append(t, x)) = Listed(t) \cup {x}
         /\ NoRepeats(t) /\ x \notin Listed(t) => NoRepeats(Append(t, x))
  <1> DEFINE u == Append(t, x)
  <1>1. /\ u \in Seq(S) /\ Len(u) = Len(t) + 1 /\ Len(t) \in Nat
        /\ DOMAIN u = 1 .. Len(u) /\ DOMAIN t = 1 .. Len(t)
        /\ u[Len(t) + 1] = x /\ \A i \in 1 .. Len(t) : u[i] = t[i]
    OBVIOUS
  <1> HIDE DEF u
  <1>2. \A i \in DOMAIN u : i \in DOMAIN t \/ i = Len(t) + 1  BY <1>1
  <1>3. Len(t) + 1 \in DOMAIN u /\ \A i \in DOMAIN t : i \in DOMAIN u /\ u[i] = t[i]
    BY <1>1
  <1>4. Listed(u) = Listed(t) \cup {x}  BY <1>1, <1>2, <1>3 DEF Listed
  <1>5. ASSUME NoRepeats(t), x \notin Listed(t) PROVE NoRepeats(u)
    <2> SUFFICES ASSUME NEW i \in DOMAIN u, NEW j \in DOMAIN u, i # j PROVE u[i] # u[j]
      BY DEF NoRepeats
    <2>1. \A k \in DOMAIN t : t[k] # x  BY <1>5 DEF Listed
    <2> QED  BY <1>1, <1>2, <1>3, <1>5, <2>1 DEF NoRepeats
  <1> QED  BY <1>1, <1>4, <1>5 DEF u

(* Appending a member, or anything to a list without members.              *)
LEMMA AppendEnd ==
  ASSUME NEW S, NEW t \in Seq(S), NEW x \in S, NEW O, EndsWith(t, O),
         x \in O \/ Listed(t) \cap O = {}
  PROVE  EndsWith(Append(t, x), O)
  <1> DEFINE u == Append(t, x)
  <1>1. /\ u \in Seq(S) /\ Len(u) = Len(t) + 1 /\ Len(t) \in Nat
        /\ DOMAIN u = 1 .. Len(u) /\ DOMAIN t = 1 .. Len(t)
        /\ u[Len(t) + 1] = x /\ \A i \in 1 .. Len(t) : u[i] = t[i]
    OBVIOUS
  <1> HIDE DEF u
  <1>2. SUFFICES ASSUME NEW i \in DOMAIN u, NEW j \in DOMAIN u, i < j, u[i] \in O
                 PROVE  u[j] \in O
    BY DEF EndsWith, u
  <1>3. i \in DOMAIN t /\ u[i] = t[i]  BY <1>1, <1>2
  <1>4. CASE j \in DOMAIN t  BY <1>1, <1>2, <1>3, <1>4 DEF EndsWith
  <1>5. CASE j \notin DOMAIN t
    <2>1. u[j] = x  BY <1>1, <1>5
    <2>2. t[i] \in Listed(t) \cap O  BY <1>2, <1>3 DEF Listed
    <2> QED  BY <2>1, <2>2
  <1> QED  BY <1>4, <1>5

(* Compacting a list takes the registers of D out of it and keeps the rest.*)
LEMMA WithoutShape ==
  ASSUME NEW S, NEW seq \in Seq(S), NEW D
  PROVE  /\ Without(seq, D) \in Seq(S)
         /\ Listed(Without(seq, D)) = Listed(seq) \ D
         /\ NoRepeats(seq) => NoRepeats(Without(seq, D))
         /\ \A O : EndsWith(seq, O) => EndsWith(Without(seq, D), O)
  <1> DEFINE n == Len(seq)
             kept == CHOOSE f : f = [i \in 0 .. n |->
                       IF i = 0 THEN << >>
                       ELSE IF seq[i] \in D THEN f[i - 1] ELSE Append(f[i - 1], seq[i])]
             step == [i \in 1 .. n |-> [t \in Seq(S) |->
                        IF seq[i] \in D THEN t ELSE Append(t, seq[i])]]
  <1>1. Without(seq, D) = kept[n]  BY DEF Without
  <1>2. n \in Nat /\ DOMAIN seq = 1 .. n /\ << >> \in Seq(S)  OBVIOUS
  <1>3. step \in [1 .. n -> [Seq(S) -> Seq(S)]]
    <2>1. ASSUME NEW i \in 1 .. n, NEW t \in Seq(S)
          PROVE  (IF seq[i] \in D THEN t ELSE Append(t, seq[i])) \in Seq(S)
      <3>1. seq[i] \in S  OBVIOUS
      <3> QED  BY <3>1
    <2> HIDE DEF n
    <2> QED  BY <2>1
  <1>4. PICK f : Stepwise(f, n, Seq(S), << >>, step)
    <2> HIDE DEF step, n, kept
    <2> QED  BY <1>2, <1>3, StepsExist
  <1>5. f = [i \in 0 .. n |->
               IF i = 0 THEN << >>
               ELSE IF seq[i] \in D THEN f[i - 1] ELSE Append(f[i - 1], seq[i])]
    <2>1. ASSUME NEW i \in 1 .. n
          PROVE  f[i] = IF seq[i] \in D THEN f[i - 1] ELSE Append(f[i - 1], seq[i])
      <3>1. i - 1 \in 0 .. n  OBVIOUS
      <3>2. f[i - 1] \in Seq(S)  BY <1>4, <3>1 DEF Stepwise
      <3>3. f[i] = step[i][f[i - 1]]  BY <1>4 DEF Stepwise
      <3> QED  BY <3>2, <3>3
    <2> DEFINE body(i) == IF i = 0 THEN << >>
                          ELSE IF seq[i] \in D THEN f[i - 1] ELSE Append(f[i - 1], seq[i])
    <2>2. \A i \in 0 .. n : f[i] = body(i)
      <3> SUFFICES ASSUME NEW i \in 0 .. n PROVE f[i] = body(i)  OBVIOUS
      <3>1. CASE i = 0  BY <1>4, <3>1 DEF Stepwise
      <3>2. CASE i # 0
        <4>1. i \in 1 .. n  BY <1>2, <3>2
        <4> QED  BY <2>1, <3>2, <4>1
      <3> QED  BY <3>1, <3>2
    <2> HIDE DEF n, body
    <2>3. f = [i \in 0 .. n |-> body(i)]  BY <1>4, <2>2 DEF Stepwise
    <2> QED  BY <2>3 DEF body
  <1>6. kept = [i \in 0 .. n |->
                  IF i = 0 THEN << >>
                  ELSE IF seq[i] \in D THEN kept[i - 1] ELSE Append(kept[i - 1], seq[i])]
    BY <1>5, Zenon
  <1>7. /\ kept[0] = << >>
        /\ \A i \in 1 .. n :
             kept[i] = IF seq[i] \in D THEN kept[i - 1] ELSE Append(kept[i - 1], seq[i])
    <2> HIDE DEF kept, n
    <2>1. 0 \in 0 .. n /\ \A i \in 1 .. n : i \in 0 .. n /\ i # 0  BY <1>2
    <2> QED  BY <1>6, <2>1
  <1> HIDE DEF kept, step
  <1> DEFINE Sofar(m) == {seq[i] : i \in 1 .. m}
             Prefix(m) == /\ kept[m] \in Seq(S)
                          /\ Listed(kept[m]) = Sofar(m) \ D
                          /\ NoRepeats(seq) => NoRepeats(kept[m])
                          /\ \A O : EndsWith(seq, O) => EndsWith(kept[m], O)
             T == {m \in 0 .. n : Prefix(m)}
  <1>8. Prefix(0)
    <2>1. Listed(<< >>) = {} /\ NoRepeats(<< >>) /\ \A O : EndsWith(<< >>, O)
      BY DEF Listed, NoRepeats, EndsWith
    <2>2. Sofar(0) = {}  OBVIOUS
    <2> HIDE DEF n, Sofar
    <2> QED  BY <1>2, <1>7, <2>1, <2>2
  <1>9. ASSUME NEW m \in 1 .. n, Prefix(m - 1) PROVE Prefix(m)
    <2>1. seq[m] \in S  BY <1>2
    <2>2. Sofar(m) = Sofar(m - 1) \cup {seq[m]}
      <3>1. m \in Nat /\ 1 .. m = 1 .. (m - 1) \cup {m}  BY <1>2
      <3> QED  BY <3>1
    <2>3. NoRepeats(seq) => seq[m] \notin Sofar(m - 1)
      BY <1>2 DEF NoRepeats
    <2> DEFINE t == kept[m - 1]
    <2>4. /\ t \in Seq(S) /\ Listed(t) = Sofar(m - 1) \ D
          /\ NoRepeats(seq) => NoRepeats(t)
          /\ \A O : EndsWith(seq, O) => EndsWith(t, O)
      BY <1>9
    <2>5. kept[m] = IF seq[m] \in D THEN t ELSE Append(t, seq[m])  BY <1>7
    <2> HIDE DEF t, n, Sofar
    <2>6. CASE seq[m] \in D  BY <2>2, <2>4, <2>5, <2>6
    <2>7. CASE seq[m] \notin D
      <3>1. /\ Append(t, seq[m]) \in Seq(S)
            /\ Listed(Append(t, seq[m])) = Listed(t) \cup {seq[m]}
            /\ NoRepeats(t) /\ seq[m] \notin Listed(t) => NoRepeats(Append(t, seq[m]))
        BY <2>1, <2>4, AppendShape
      <3>2. ASSUME NEW O, EndsWith(seq, O) PROVE EndsWith(Append(t, seq[m]), O)
        <4>1. seq[m] \in O \/ Sofar(m - 1) \cap O = {}
          <5>1. ASSUME NEW i \in 1 .. (m - 1), seq[i] \in O PROVE seq[m] \in O
            <6>1. i \in DOMAIN seq /\ m \in DOMAIN seq /\ i < m  BY <1>2
            <6> QED  BY <3>2, <5>1, <6>1 DEF EndsWith
          <5> QED  BY <5>1 DEF Sofar
        <4> QED  BY <2>1, <2>4, <3>2, <4>1, AppendEnd
      <3> QED  BY <2>2, <2>3, <2>4, <2>5, <2>7, <3>1, <3>2
    <2> QED  BY <2>6, <2>7
  <1>10. Prefix(n)
    <2> HIDE DEF Prefix, n
    <2>1. 0 \in T  BY <1>2, <1>8
    <2>2. ASSUME NEW m \in 1 .. n, m - 1 \in T PROVE m \in T
      <3>1. m \in 0 .. n /\ Prefix(m - 1)  BY <2>2
      <3> QED  BY <3>1, <1>9
    <2> HIDE DEF T
    <2>3. 0 .. n \subseteq T  BY <1>2, <2>1, <2>2, UpTo
    <2>4. n \in T  BY <1>2, <2>3
    <2> QED  BY <2>4 DEF T
  <1>11. Sofar(n) = Listed(seq)  BY <1>2 DEF Listed
  <1> HIDE DEF n, Sofar
  <1> QED  BY <1>1, <1>10, <1>11

-----------------------------------------------------------------------------
(* The list of least recently used registers.                              *)
LruInv == lru \in Seq(Register) /\ LruExact

(* LruExact in terms of the list.                                          *)
LEMMA LruShape ==
  LruInv <=> lru \in Seq(Register) /\ Listed(lru) = Held /\ NoRepeats(lru)
  BY DEF LruInv, LruExact, Listed, NoRepeats

(* A register that is used moves to the end of the list.                   *)
LEMMA UpdateShape ==
  ASSUME NEW s \in Seq(Register), NoRepeats(s), NEW r \in Register
  PROVE  /\ updateLRU(s, r) \in Seq(Register)
         /\ Listed(updateLRU(s, r)) = Listed(s) \cup {r}
         /\ NoRepeats(updateLRU(s, r))
  <1> DEFINE t == Without(s, {r})
  <1>1. /\ t \in Seq(Register) /\ Listed(t) = Listed(s) \ {r} /\ NoRepeats(t)
    BY WithoutShape
  <1>2. updateLRU(s, r) = Append(t, r)  BY DEF updateLRU
  <1> HIDE DEF t
  <1>3. /\ Append(t, r) \in Seq(Register) /\ Listed(Append(t, r)) = Listed(t) \cup {r}
        /\ NoRepeats(Append(t, r))
    BY <1>1, AppendShape
  <1> QED  BY <1>1, <1>2, <1>3

(* Locals that give their registers up leave the list.                     *)
LEMMA EvictLru ==
  ASSUME TypeOK, HoldersAgree, LruInv, NEW V \in SUBSET InRegNames,
         regof' = RegofAfter(V), regs' = RegsAfter(V), lru' = LruAfter(V)
  PROVE  LruInv'
  <1>1. Held' = Held \ RegsOf(V)  BY EvictTables
  <1>2. lru \in Seq(Register) /\ Listed(lru) = Held /\ NoRepeats(lru)  BY LruShape
  <1>3. /\ LruAfter(V) \in Seq(Register) /\ Listed(LruAfter(V)) = Listed(lru) \ RegsOf(V)
        /\ NoRepeats(LruAfter(V))
    BY <1>2, WithoutShape DEF LruAfter
  <1>4. lru' \in Seq(Register) /\ Listed(lru') = Held' /\ NoRepeats(lru')
    BY <1>1, <1>2, <1>3
  <1> QED  BY <1>4 DEF LruInv, LruExact, Listed, NoRepeats

(* A local that moves to r once the locals of G have given theirs up: r is *)
(* the last of the list.                                                   *)
LEMMA MoveLru ==
  ASSUME TypeOK, HoldersAgree, LruInv, NEW x \in Name, NEW r \in Register,
         NEW G \in SUBSET InRegNames, InReg(x) => x \in G,
         regof' = [RegofAfter(G) EXCEPT ![x] = r],
         lru' = updateLRU(LruAfter(G), r)
  PROVE  LruInv'
  <1>1. \A y \in Name : regof'[y] = IF y = x THEN r ELSE IF y \in G THEN NoReg ELSE regof[y]
    BY DEF RegofAfter
  <1>2. r # NoReg  BY AllocConstants
  <1>3. \A y \in Name : InReg(y) => (regof[y] \in RegsOf(G) <=> y \in G)
    BY HeldFacts DEF RegsOf, InRegNames
  <1>4. Held' = (Held \ RegsOf(G)) \cup {r}
    <2>1. Held' = {regof'[y] : y \in {n \in Name : InReg(n)'}}  BY DEF Held
    <2>2. \A y \in Name : InReg(y)' <=> y = x \/ (InReg(y) /\ y \notin G)
      BY <1>1, <1>2 DEF InReg
    <2>3. ASSUME NEW q, q \in Held' PROVE q \in (Held \ RegsOf(G)) \cup {r}
      <3>1. PICK y \in Name : InReg(y)' /\ q = regof'[y]  BY <2>1, <2>3
      <3> QED  BY <3>1, <1>1, <1>3, <2>2 DEF Held
    <2>4. r \in Held'
      <3>1. InReg(x)' /\ regof'[x] = r  BY <1>1, <2>2
      <3> QED  BY <3>1, <2>1
    <2>5. ASSUME NEW q, q \in Held \ RegsOf(G) PROVE q \in Held'
      <3>1. PICK y \in Name : InReg(y) /\ q = regof[y]  BY <2>5 DEF Held
      <3>2. y \notin G /\ y # x  BY <3>1, <2>5, <1>3
      <3>3. InReg(y)' /\ regof'[y] = q  BY <3>1, <3>2, <1>1, <2>2
      <3> QED  BY <3>3, <2>1
    <2> QED  BY <2>3, <2>4, <2>5
  <1>5. lru \in Seq(Register) /\ Listed(lru) = Held /\ NoRepeats(lru)  BY LruShape
  <1>6. /\ LruAfter(G) \in Seq(Register) /\ Listed(LruAfter(G)) = Held \ RegsOf(G)
        /\ NoRepeats(LruAfter(G))
    BY <1>5, WithoutShape DEF LruAfter
  <1>7. lru' \in Seq(Register) /\ Listed(lru') = Held' /\ NoRepeats(lru')
    BY <1>4, <1>6, UpdateShape
  <1> QED  BY <1>7 DEF LruInv, LruExact, Listed, NoRepeats

(* Loading or pinning a local.                                             *)
LEMMA PlaceLru ==
  ASSUME TypeOK, HoldersAgree, LruInv, NEW x \in Name, NEW r \in Register,
         NEW V \in SUBSET InRegNames, NEW c, Place(x, r, V, c)
  PROVE  LruInv'
  <1> DEFINE G == V \cup (IF InReg(x) /\ x \notin V THEN {x} ELSE {})
  <1>1. G \in SUBSET InRegNames /\ (InReg(x) => x \in G)  BY DEF InRegNames
  <1>2. regof' = [RegofAfter(G) EXCEPT ![x] = r] /\ lru' = updateLRU(LruAfter(G), r)
    BY DEF Place
  <1> HIDE DEF G
  <1> QED  BY <1>1, <1>2, MoveLru

(* A use of a local that has its register already.                         *)
LEMMA TouchLru ==
  ASSUME TypeOK, HoldersAgree, LruInv, NEW x \in Name, InReg(x),
         regof' = regof, lru' = updateLRU(lru, regof[x])
  PROVE  LruInv'
  <1> DEFINE r == regof[x]
  <1>1. r \in Held /\ r \in Register  BY DEF Held, InReg, TypeOK
  <1>2. lru \in Seq(Register) /\ Listed(lru) = Held /\ NoRepeats(lru)  BY LruShape
  <1>3. Held' = Held /\ lru' = updateLRU(lru, r)  BY DEF Held, InReg
  <1> HIDE DEF r
  <1>4. Held \cup {r} = Held  BY <1>1
  <1>5. lru' \in Seq(Register) /\ Listed(lru') = Listed(lru) \cup {r} /\ NoRepeats(lru')
    BY <1>1, <1>2, <1>3, UpdateShape
  <1>6. Listed(lru') = Held'  BY <1>2, <1>3, <1>4, <1>5
  <1> QED  BY <1>5, <1>6 DEF LruInv, LruExact, Listed, NoRepeats

(* Steps that leave locations and list alone.                              *)
LEMMA SameLru ==
  ASSUME LruInv, UNCHANGED <<regof, lru>>
  PROVE  LruInv'
  BY DEF LruInv, LruExact, Held, InReg

(* An argument arrives in its register.                                    *)
LEMMA ArgLru ==
  ASSUME AllocInv, LruInv, NEW x \in Name, NEW i \in DOMAIN arg_regs, NEW s \in LocalSizes,
         Arg(x, i, s)
  PROVE  LruInv'
  <1> DEFINE r == PartialReg(arg_regs[i], s)
  <1>1. r \in Register /\ ~InReg(x)  BY DEF AllocInv, Arg, RegDeclared
  <1>2. regof' = [regof EXCEPT ![x] = r] /\ lru' = updateLRU(lru, r)  BY DEF Arg
  <1> HIDE DEF r
  <1>3. TypeOK /\ HoldersAgree  BY InvFacts
  <1>4. Held' = Held \cup {r}
    <2>1. r # NoReg  BY <1>1, AllocConstants
    <2>2. regof'[x] = r /\ \A y \in Name \ {x} : regof'[y] = regof[y]  BY <1>2, <1>3 DEF TypeOK
    <2> QED  BY <1>1, <2>1, <2>2 DEF Held, InReg
  <1>5. lru \in Seq(Register) /\ Listed(lru) = Held /\ NoRepeats(lru)  BY LruShape
  <1>6. lru' \in Seq(Register) /\ Listed(lru') = Held' /\ NoRepeats(lru')
    BY <1>1, <1>2, <1>4, <1>5, UpdateShape
  <1> QED  BY <1>6 DEF LruInv, LruExact, Listed, NoRepeats

(* An operand that has to be in a register.                                *)
LEMMA RegOperandLru ==
  ASSUME AllocInv, LruInv, NEW x \in Name, NEW w \in BOOLEAN, RegOperand(x, w)
  PROVE  LruInv'
  <1>1. TypeOK /\ HoldersAgree  BY InvFacts
  <1>2. CASE Panic(LoadFailure(NeedSize(x)))
    BY <1>2, SameLru DEF Panic, tables
  <1>3. CASE InReg(x)
    <2>1. regof' = regof /\ lru' = updateLRU(lru, regof[x])  BY <1>3, Zenon DEF RegOperand
    <2> QED  BY <1>1, <1>3, <2>1, TouchLru
  <1>4. ASSUME ~InReg(x), ~Panic(LoadFailure(NeedSize(x))) PROVE LruInv'
    <2>1. PICK r \in Register, V \in SUBSET InRegNames, c \in BOOLEAN : Place(x, r, V, c)
      BY <1>4, RegOperandCases, Zenon
    <2> QED  BY <1>1, <2>1, PlaceLru
  <1> QED  BY <1>2, <1>3, <1>4

(* Every step keeps the list exact.                                        *)
LEMMA NextLru == AllocInv /\ LruInv /\ [Next]_vars => LruInv'
  <1> SUFFICES ASSUME AllocInv, LruInv, [Next]_vars PROVE LruInv'  OBVIOUS
  <1>1. TypeOK /\ HoldersAgree  BY InvFacts
  <1>2. ASSUME NEW V \in SUBSET InRegNames, regof' = RegofAfter(V), regs' = RegsAfter(V),
               lru' = LruAfter(V)
        PROVE  LruInv'
    BY <1>1, <1>2, EvictLru
  <1>3. CASE UNCHANGED <<regof, lru>>  BY <1>3, SameLru
  <1>4. CASE Declare
    <2>1. ASSUME NEW x \in Name, NEW i \in DOMAIN arg_regs, NEW s \in LocalSizes, Arg(x, i, s)
          PROVE  LruInv'
      BY <2>1, ArgLru
    <2>2. ASSUME NEW x \in Name,
                 \/ \E s \in LocalSizes : Local(x, s)
                 \/ \E n \in ChunkBytes : Bytes(x, n)
                 \/ \E k \in 0 .. (MaxStackArgs - 1) : StackArg(x, k)
          PROVE  LruInv'
      BY <1>3, <2>2 DEF Local, Bytes, StackArg
    <2> QED  BY <1>4, <2>1, <2>2 DEF Declare
  <1>5. ASSUME NEW V \in SUBSET Name, ForgetNames(V) PROVE LruInv'
    <2> DEFINE W == {v \in V : InReg(v)}
    <2>1. W \in SUBSET InRegNames  BY DEF InRegNames
    <2>2. regof' = RegofAfter(W) /\ regs' = RegsAfter(W) /\ lru' = LruAfter(W)
      BY <1>5 DEF ForgetNames
    <2> HIDE DEF W
    <2> QED  BY <1>2, <2>1, <2>2
  <1>6. ASSUME NEW V \in SUBSET InRegNames, Spilled(V) PROVE LruInv'
    BY <1>2, <1>6 DEF Spilled
  <1>7. CASE Directive
    <2>1. CASE ForgetAll
      <3>1. DeclaredNames \in SUBSET Name  BY DEF DeclaredNames
      <3> QED  BY <1>5, <2>1, <3>1 DEF ForgetAll
    <2>2. CASE EvictAll  BY <1>6, <2>2, HoldersInReg DEF EvictAll, Evicted
    <2>3. CASE Call  BY <1>2, <2>3, HoldersInReg DEF Call
    <2>4. CASE Prologue \/ Epilogue  BY <1>3, <2>4 DEF Prologue, Epilogue, tables
    <2>5. ASSUME NEW x \in Name, Forget(x) PROVE LruInv'
      <3>1. {x} \in SUBSET Name  OBVIOUS
      <3> QED  BY <1>5, <2>5, <3>1 DEF Forget
    <2>6. ASSUME NEW x \in Name, Volatile(x) PROVE LruInv'
      <3>1. (IF InReg(x) THEN {x} ELSE {}) \in SUBSET InRegNames  BY DEF InRegNames
      <3> QED  BY <1>6, <2>6, <3>1 DEF Volatile
    <2>7. ASSUME NEW r \in Register, EvictReg(r) PROVE LruInv'
      BY <1>6, <2>7, HoldersInReg DEF EvictReg, Evicted
    <2>8. ASSUME NEW r \in Register, ReleaseReg(r) PROVE LruInv'
      BY <1>3, <2>8 DEF ReleaseReg, tables
    <2>9. ASSUME NEW x \in Name, NEW r \in Register, UseRegister(x, r) PROVE LruInv'
      <3>1. PICK V \in SUBSET InRegNames : Place(x, r, V, FALSE)
        BY <2>9, HoldersInReg DEF UseRegister
      <3> QED  BY <1>1, <3>1, PlaceLru
    <2> QED  BY <1>7, <2>1, <2>2, <2>3, <2>4, <2>5, <2>6, <2>7, <2>8, <2>9 DEF Directive
  <1>8. CASE Instr
    <2>1. ASSUME NEW x \in Name, NEW w \in BOOLEAN, RegOperand(x, w) PROVE LruInv'
      BY <2>1, RegOperandLru
    <2>2. ASSUME NEW x \in Name, NEW w \in BOOLEAN, MemOperand(x, w) PROVE LruInv'
      <3>1. (IF InReg(x) THEN {x} ELSE {}) \in SUBSET InRegNames  BY DEF InRegNames
      <3> QED  BY <1>6, <2>2, <3>1 DEF MemOperand
    <2>3. ASSUME NEW x \in Name, NEW w \in BOOLEAN, PartialOperand(x, w) PROVE LruInv'
      BY <1>3, <2>3 DEF PartialOperand
    <2>4. CASE Emit  BY <1>3, <2>4 DEF Emit, Panic, tables
    <2>5. CASE BeginCallThrough  BY <1>6, <2>5, HoldersInReg DEF BeginCallThrough, Evicted
    <2>6. CASE CallThrough  BY <1>3, <2>6 DEF CallThrough, tables
    <2> QED  BY <1>8, <2>1, <2>2, <2>3, <2>4, <2>5, <2>6 DEF Instr
  <1>9. CASE Claim
    <2>1. ASSUME NEW r \in Register, Use(r) PROVE LruInv'
      BY <1>3, <2>1 DEF Use, tables
    <2>2. ASSUME NEW r \in Register, Acquire(r) PROVE LruInv'
      <3>1. CASE Panic("acquire failed")  BY <1>3, <3>1 DEF Panic, tables
      <3>2. CASE ~Panic("acquire failed")
        <4> DEFINE V == Holders(Conflicts(pool, r))
        <4>1. regof' = RegofAfter(V) /\ regs' = RegsAfter(V) /\ lru' = LruAfter(V)
          BY <2>2, <3>2 DEF Acquire
        <4>2. V \in SUBSET InRegNames  BY HoldersInReg
        <4> HIDE DEF V
        <4> QED  BY <1>2, <4>1, <4>2
      <3> QED  BY <3>1, <3>2
    <2> QED  BY <1>9, <2>1, <2>2 DEF Claim
  <1>10. CASE UNCHANGED vars  BY <1>3, <1>10 DEF vars, tables
  <1> QED  BY <1>4, <1>7, <1>8, <1>9, <1>10 DEF Next

(* It is exact at the start.                                               *)
LEMMA InitLru == Init => LruInv
  <1> SUFFICES ASSUME Init PROVE LruInv  OBVIOUS
  <1>1. lru = << >> /\ Held = {}  BY DEF Init, Held, InReg
  <1> QED  BY <1>1 DEF LruInv, LruExact

(* Rallocs.lru has every register that holds a local exactly once: no      *)
(* eviction meets a register without a local, and none is out of its reach. *)
THEOREM LruCorrect == Spec => []LruExact
  <1>1. AllocInv /\ LruInv /\ [Next]_vars => LruInv'  BY NextLru
  <1>2. LruInv => LruExact  BY DEF LruInv
  <1> QED  BY <1>1, <1>2, InitLru, Invariance, PTL DEF Spec
=============================================================================
