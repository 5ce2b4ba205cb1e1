----------------------------- MODULE Registers -----------------------------
(***************************************************************************)
(* The register pool of the assembler (regalloc.go) and the register       *)
(* geometry it rests on (reg.go).                                          *)
(*                                                                         *)
(* A register is a pair <<full, part>>: the 64-bit register it belongs to  *)
(* and the part of it that it names (RAX = <<"rax","r64">>, EAX =          *)
(* <<"rax","r32">>, AX = <<"rax","r16">>, AL = <<"rax","lo">>, AH =        *)
(* <<"rax","hi">>).  A pool is the record                                  *)
(*   size  : for every full register the size it is in use with, 0 when it *)
(*           is free (rstate.inuse and rstate.size of the full register;   *)
(*           the code reads size only while inuse is set);                 *)
(*   bytes : the 8-bit registers in use (rstate.inuse of a byte register). *)
(***************************************************************************)
EXTENDS Naturals, Sequences

CONSTANTS
  Full,         \* the 64-bit registers
  Wide,         \* the parts wider than a byte that programs name
  HasLow,       \* those whose low byte has a pool entry (AL, SIL, R8B, ...)
  HasHigh,      \* those with a high byte too (AH, BH, CH, DH)
  regs64,       \* allocation order of the full registers
  regs8,        \* full registers whose low byte is allocatable, in order
  caller_saved  \* full registers a call may clobber

ASSUME RegisterFile ==
  /\ Wide \subseteq {"r64", "r32", "r16"} /\ "r64" \in Wide
  /\ HasLow \subseteq Full
  /\ HasHigh \subseteq HasLow
  /\ regs64 \in Seq(Full)
  /\ regs8 \in Seq(HasLow)
  /\ caller_saved \subseteq Full

Lane  == {"lo", "hi", "top"}

LowByte(f)  == <<f, "lo">>
HighByte(f) == <<f, "hi">>
ByteRegister == {LowByte(f) : f \in HasLow} \cup {HighByte(f) : f \in HasHigh}
Register == (Full \X Wide) \cup ByteRegister

IsByte(r)  == r[2] \in {"lo", "hi"}
FullReg(r) == r[1]

WidthOfPart == [r64 |-> 64, r32 |-> 32, r16 |-> 16, lo |-> 8, hi |-> 8]
Width(r) == WidthOfPart[r[2]]

(* The part of a full register that partial(size) names.                   *)
PartOfWidth(size) == CASE size = 64 -> "r64" [] size = 32 -> "r32"
                       [] size = 16 -> "r16" [] OTHER -> "lo"
PartialReg(f, size) == <<f, PartOfWidth(size)>>

(* Sub-registers of 8 bits of the full register f.                         *)
SubRegisters8(f) == {r \in ByteRegister : FullReg(r) = f}

(* The physical bytes a register covers.  Writing a 32-bit register clears *)
(* the upper half, so only the 16-bit registers leave the top alone.       *)
LanesOfPart == [r64 |-> Lane, r32 |-> Lane, r16 |-> {"lo", "hi"},
                lo |-> {"lo"}, hi |-> {"hi"}]
Lanes(r) == {FullReg(r)} \X LanesOfPart[r[2]]

Overlap(r, q) == Lanes(r) \cap Lanes(q) # {}

-----------------------------------------------------------------------------
Sizes == {8, 16, 32, 64}

PoolType == [size : [Full -> Sizes \cup {0}], bytes : SUBSET ByteRegister]

NewRegisters == [size |-> [f \in Full |-> 0], bytes |-> {}]

FullInUse(p, f) == p.size[f] # 0

(* Mutant of InUse: a byte register ignores its full register.             *)
InUseByteOnly(p, r) ==
  IF IsByte(r) THEN r \in p.bytes ELSE FullInUse(p, FullReg(r))

InUse(p, r) ==
  IF IsByte(r) THEN r \in p.bytes \/ p.size[FullReg(r)] \notin {0, 8}
               ELSE FullInUse(p, FullReg(r))

(* The registers in use that prevent r from being used.                    *)
Conflicts(p, r) ==
  LET f == FullReg(r) IN
  IF p.size[f] = 0 THEN {}
  ELSE IF p.size[f] = 8 THEN p.bytes \cap (IF IsByte(r) THEN {r} ELSE SubRegisters8(f))
  ELSE {PartialReg(f, p.size[f])}

(* Use: whether r can be taken, and the pool once it is.                   *)
CanUse(p, r) == ~InUse(p, r)

Take(p, r) ==
  [size  |-> [p.size EXCEPT ![FullReg(r)] = Width(r)],
   bytes |-> IF IsByte(r) THEN p.bytes \cup {r} ELSE p.bytes]

(* Release of all the registers of R.  A byte register leaves its full     *)
(* register in use while the sibling byte is in use.                       *)
Release(p, R) ==
  LET rest == p.bytes \ R
      on(f) == {r \in R : FullReg(r) = f}
      sibling(f) == \E b \in rest : FullReg(b) = f
  IN [size  |-> [f \in Full |->
                   IF on(f) = {} THEN p.size[f]
                   ELSE IF \A r \in on(f) : IsByte(r) /\ sibling(f) THEN 8 ELSE 0],
      bytes |-> rest]

(* The elements of S that come first in the order seq.                     *)
FirstOf(seq, S) ==
  {seq[i] : i \in {k \in DOMAIN seq :
                     seq[k] \in S /\ \A j \in 1..(k-1) : seq[j] \notin S}}

(* Mutant of Unused8: hands out the high byte.                             *)
UnusedHigh(p) ==
  {HighByte(f) : f \in FirstOf(regs8, {f \in HasLow : CanUse(p, LowByte(f))})}

(* Get: the register handed out for a size; empty when there is none.      *)
Unused8(p) ==
  {LowByte(f) : f \in FirstOf(regs8, {f \in HasLow : CanUse(p, LowByte(f))})}

Unused(p, size) ==
  {PartialReg(f, size) : f \in FirstOf(regs64, {f \in Full : ~FullInUse(p, f)})}

Get(p, size) == IF size = 8 THEN Unused8(p) ELSE Unused(p, size)

(* The pool's bookkeeping is exact for the set O of registers handed out:  *)
(* a register is in use, with the size it was taken with, if and only if   *)
(* it is in O, and at most one register or its bytes are out per full one. *)
Exact(p, O) ==
  /\ p.bytes = {r \in O : IsByte(r)}
  /\ \A f \in Full : p.size[f] = 0 => \A r \in O : FullReg(r) # f
  /\ \A f \in Full : p.size[f] = 8 =>
       /\ \E r \in O : FullReg(r) = f
       /\ \A r \in O : FullReg(r) = f => IsByte(r)
  /\ \A f \in Full : p.size[f] \notin {0, 8} =>
       {r \in O : FullReg(r) = f} = {PartialReg(f, p.size[f])}
=============================================================================
