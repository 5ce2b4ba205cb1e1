------------------------------ MODULE Encoder ------------------------------
(***************************************************************************)
(* From a line of assembly to machine code: bas reads the operands         *)
(* (cmd/bas/main.go), Function.Instr rewrites instructions the processor   *)
(* does not have (function.go), and Asm.Encode finds the first form of the *)
(* instruction that takes the operands and writes its bytes (encoder.go).  *)
(*                                                                         *)
(* An operand of an instruction is one of                                  *)
(*   [k |-> "reg", n, w, high]           a register of w bits, number n    *)
(*   [k |-> "ind", reg, off, size, sym]  [reg + off] or [sym + off]        *)
(*   [k |-> "bis", base, index, scale]   [base + index * scale]            *)
(*   [k |-> "var", sym]                  a global                          *)
(*   [k |-> "int", signed, w, v]         an integer of a Go type           *)
(*   [k |-> "local", size, reg, off, volatile]   an allocation             *)
(* The code is a sequence of units [n, v]: a field of n bytes holding v.   *)
(* Widths keep their order but are scaled down by Bits.                    *)
(***************************************************************************)
EXTENDS Integers, Sequences, FiniteSets, SequencesExt, TLC

CONSTANTS
  Bits,        \* the bits a field of 8, 16, 32 and 64 bits has in the model
  Lines,       \* the lines of assembly: [instr, args]
  XForms,      \* the forms of each instruction, from x86_64.xml
  Locals,      \* the locals of the function by name
  Globals,     \* the names of the globals
  Tmp          \* the register an allocation of __movvar gets

VARIABLES
  line,        \* the line being assembled
  todo,        \* the instructions left to encode: [instr, ops]
  form,        \* the form being tried or encoded
  enc,         \* its encodings and, in the first, the pieces left
  code,        \* the bytes of the function
  rs,          \* the relocations of the piece encoded last
  relocs,      \* f.Relocations
  st           \* "line", "match", "emit", "done" or "fatal"

vars == <<line, todo, form, enc, code, rs, relocs, st>>

Pow2(b) == 2 ^ Bits[b]
Reg(n, w, high) == [k |-> "reg", n |-> n, w |-> w, high |-> high]
R64(n) == Reg(n, 64, FALSE)
Zero == Reg(0, 8, FALSE)
RIP == [R64(0) EXCEPT !.n = 5, !.w = 0]
RSP == R64(4)
RBP == R64(5)
R12 == R64(12)
R13 == R64(13)

ParseReg ==
  ("al" :> Reg(0, 8, FALSE)) @@ ("ah" :> Reg(0, 8, TRUE)) @@ ("ax" :> Reg(0, 16, FALSE)) @@ ("eax" :> Reg(0, 32, FALSE))
  @@ ("rax" :> R64(0)) @@ ("bl" :> Reg(3, 8, FALSE)) @@ ("bh" :> Reg(3, 8, TRUE)) @@ ("rbx" :> R64(3)) @@ ("rsp" :> RSP) @@ ("rbp" :> RBP)
  @@ ("sil" :> Reg(6, 8, FALSE)) @@ ("esi" :> Reg(6, 32, FALSE)) @@ ("rsi" :> R64(6)) @@ ("dil" :> Reg(7, 8, FALSE)) @@ ("rdi" :> R64(7))
  @@ ("r8b" :> Reg(8, 8, FALSE)) @@ ("r8d" :> Reg(8, 32, FALSE)) @@ ("r8" :> R64(8)) @@ ("r12" :> R12) @@ ("r13" :> R13)

byte(r) == IF r.high THEN r.n + 4 ELSE r.n
needREX(r) == r.n >= 8 \/ (r.w = 8 /\ ~r.high /\ r.n \in {6, 7})

(***************************************************************************)
(* Operands (cmd/bas/main.go).                                             *)
(***************************************************************************)
GoInt(signed, w, v) == [k |-> "int", signed |-> signed, w |-> w, v |-> v]
Widths == <<8, 16, 32, 64>>
Narrowest(Fits(_)) == IF \E i \in 1 .. 3 : Fits(Widths[i]) THEN Widths[CHOOSE i \in 1 .. 3 : Fits(Widths[i]) /\ \A j \in 1 .. i - 1 : ~Fits(Widths[j])] ELSE 64

smallestUi(v) == GoInt(FALSE, Narrowest(LAMBDA w : v < Pow2(w)), v)
smallestInt(v) == IF v < 0 THEN GoInt(TRUE, Narrowest(LAMBDA w : -v <= Pow2(w) \div 2), v) ELSE smallestUi(v)

Err == [k |-> "error"]
Ind(reg, off, size, sym) == [k |-> "ind", reg |-> reg, off |-> off, size |-> size, sym |-> sym]

(* A name as a register: of the processor, or holding a local.             *)
RegisterOf(name) ==
  IF name \in DOMAIN ParseReg THEN ParseReg[name] ELSE IF name \in DOMAIN Locals THEN Locals[name].reg ELSE Err

(* The memory operand a, whose base and index are these registers.         *)
Indirect(a, base, index, global) ==
  LET indirectFor(off) == IF global THEN Ind(Zero, off, a.size, a.base) ELSE Ind(base, off, a.size, "")
      fits == a.v < Pow2(32) \div 2
  IN  CASE base = Err /\ ~global -> Err
        [] (base # Err \/ global) /\ a.index = "0x" -> IF fits /\ a.scale = 0 /\ a.sign = "+" THEN indirectFor(a.v) ELSE Err
        [] (base # Err \/ global) /\ a.index = "#" /\ fits ->
             IF a.scale = 0 THEN indirectFor(IF a.sign = "-" THEN -a.v ELSE a.v) ELSE Err
        [] (base # Err \/ global) /\ a.index = "" -> IF a.scale = 0 THEN indirectFor(0) ELSE Err
        [] OTHER -> IF global \/ index = Err \/ a.scale \notin {0, 1, 2, 4, 8} THEN Err
                    ELSE [k |-> "bis", base |-> base, index |-> index, scale |-> IF a.scale = 0 THEN 1 ELSE a.scale]
ParseIndirect(a) ==
  Indirect(a, RegisterOf(a.base), RegisterOf(a.index), RegisterOf(a.base) = Err /\ a.base \in Globals)

(* asOperand: the low bits of a local, where the local is.                 *)
asOperand(l, bits) ==
  CASE bits > l.size -> Err
    [] bits <= l.size /\ l.inreg -> [l.reg EXCEPT !.w = bits]
    [] OTHER -> Ind(RBP, l.off, bits, "")

(* One operand of a line, in the order the names are looked up.            *)
operand(a) ==
  CASE a.t = "partial" -> asOperand(Locals[a.name], a.bits)
    [] a.t = "name" -> IF a.name \in DOMAIN Locals THEN Locals[a.name]
                       ELSE IF a.name \in Globals \/ a.name \notin DOMAIN ParseReg THEN [k |-> "var", sym |-> a.name]
                       ELSE ParseReg[a.name]
    [] a.t = "mem" -> ParseIndirect(a)
    [] a.t = "hex" -> smallestUi(a.v)
    [] a.t = "dec" -> smallestInt(a.v)

(***************************************************************************)
(* The table of forms (parseForm).  The attributes of an XML element that  *)
(* name an operand or a literal are <<"op", i>> and <<"lit", v>>.          *)
(***************************************************************************)
toOp(at, name) == IF name \in DOMAIN at THEN at[name] ELSE <<"op", 0>>
parsePiece(x) ==
  CASE x.el = "Opcode" -> [p |-> "opcode", op |-> x.at.byte, hasAddend |-> "addend" \in DOMAIN x.at, addend |-> toOp(x.at, "addend")[2]]
    [] x.el \in {"Immediate", "CodeOffset"} -> [p |-> x.el, size |-> x.at.size, value |-> x.at.value[2]]
    [] x.el = "REX" -> [p |-> "rex", mandatory |-> x.at.mandatory, w |-> x.at.W, r |-> toOp(x.at, "R")[2],
                        x |-> toOp(x.at, "X")[2], b |-> toOp(x.at, "B")[2]]
    [] x.el = "ModRM" -> [p |-> "modrm", mod |-> x.at.mode, reg |-> toOp(x.at, "reg"), rm |-> toOp(x.at, "rm")[2]]
    [] x.el = "Prefix" -> [p |-> "prefix", b |-> x.at.byte]
Encodable(xf) == \A i \in DOMAIN xf.encs : \A j \in DOMAIN xf.encs[i] : xf.encs[i][j].el \notin {"VEX", "EVEX"}
parseForm(xf) ==
  [ops |-> xf.ops, opcount |-> Len(SelectSeq(xf.ops, LAMBDA o : ~o.Implicit)),
   enc |-> [i \in DOMAIN xf.encs |-> [j \in DOMAIN xf.encs[i] |-> parsePiece(xf.encs[i][j])]]]

(* A form that cannot be parsed is left out.                               *)
Forms(instr) == LET fs == SelectSeq(XForms[instr], Encodable) IN [i \in DOMAIN fs |-> parseForm(fs[i])]

(***************************************************************************)
(* Op.Match: whether an operand suits a form's, and the size it counts as. *)
(***************************************************************************)
ImmSize == ("imm8" :> 8) @@ ("imm16" :> 16) @@ ("imm32" :> 32) @@ ("imm64" :> 64)
RegSize == ("r8" :> 8) @@ ("r16" :> 16) @@ ("r32" :> 32) @@ ("r64" :> 64)
MemSize == ("m8" :> 8) @@ ("m16" :> 16) @@ ("m32" :> 32) @@ ("m64" :> 64)
Rel == ("rel8" :> 8) @@ ("rel32" :> 32)

(* Mutant of SignSafe: a wide operand takes a narrow unsigned immediate.   *)
NoSignCheck(o, w, largest) == TRUE

(* An immediate narrower than the other operands is sign-extended.         *)
SignSafe(o, w, largest) == ~(~o.signed /\ o.w = w /\ w < 64 /\ largest > w /\ o.v >= Pow2(w) \div 2)

Match(tn, o, largest) ==
  CASE tn \in DOMAIN ImmSize -> o.k = "int" /\ o.w <= ImmSize[tn] /\ SignSafe(o, ImmSize[tn], largest)
    [] tn \in DOMAIN RegSize -> \/ o.k = "local" /\ ~o.volatile /\ o.regsize = RegSize[tn]
                                \/ o.k = "reg" /\ o.w = RegSize[tn]
    [] tn \in DOMAIN MemSize -> \/ o.k = "local" /\ o.size = MemSize[tn]
                                \/ o.k = "ind" /\ o.size \in {0, MemSize[tn]} /\ (o.sym # "" \/ o.reg.w = 64)
                                \/ o.k = "bis" /\ o.base.w = 64
                                \/ o.k = "var"
    [] tn = "m" -> o.k \in {"local", "var"} \/ (o.k = "ind" /\ (o.sym # "" \/ o.reg.w = 64)) \/ (o.k = "bis" /\ o.base.w = 64)
    [] tn \in DOMAIN Rel -> o.k = "int" /\ o.signed /\ o.w = Rel[tn]
    [] OTHER -> FALSE
SizeOf(tn) == (ImmSize @@ RegSize @@ MemSize @@ Rel @@ ("m" :> 64))[tn]

Explicit(f) == SelectSeq(f.ops, LAMBDA o : ~o.Implicit)
Takes(f, os) ==
  /\ f.opcount = Len(os)
  /\ \A i \in DOMAIN os :
       LET sizes == {SizeOf(Explicit(f)[j].TN) : j \in 1 .. i - 1}
           largest == IF sizes = {} THEN 0 ELSE CHOOSE s \in sizes : \A u \in sizes : u <= s
       IN  Match(Explicit(f)[i].TN, os[i], largest)

(* ConvertRalloc: by position among all operands of the form.              *)
Converted(f, os) ==
  [i \in DOMAIN os |->
     IF os[i].k # "local" THEN os[i]
     ELSE IF f.ops[i].TN \in DOMAIN RegSize THEN os[i].reg ELSE Ind(RBP, os[i].off, 0, "")]

(***************************************************************************)
(* The pieces of an encoding.                                              *)
(***************************************************************************)
B(v) == [n |-> 1, v |-> v]
Field(n, v) == [n |-> n, v |-> v]
Piece(units) == [units |-> units, rs |-> <<>>]
Size(units) == FoldLeft(LAMBDA a, u : a + u.n, 0, units)
Bit3(r) == (byte(r) \div 8) % 2

getRegister(i, os) ==
  LET o == os[i + 1] IN
  CASE o.k = "reg" -> o [] o.k = "ind" -> o.reg [] o.k = "bis" -> o.base [] OTHER -> Zero

(* Mutant of REX_X: the index bit of [r12] is not cleared.                 *)
IndexOfR12(i, os) == IF os[i + 1].k = "bis" THEN os[i + 1].index ELSE getRegister(i, os)

REX_X(i, os) ==
  LET o == os[i + 1] IN
  CASE o.k = "ind" /\ o.reg = R12 -> RBP
    [] o.k = "bis" -> o.index
    [] OTHER -> getRegister(i, os)

rex(p, os) ==
  LET r == getRegister(p.r, os)
      x == REX_X(p.x, os)
      b == getRegister(p.b, os)
  IN  IF os = <<>> THEN <<B(64 + 8 * p.w)>>
      ELSE IF ~p.mandatory /\ ~needREX(r) /\ ~needREX(x) /\ ~needREX(b) THEN <<>>
      ELSE <<B(64 + 8 * p.w + 4 * Bit3(r) + 2 * Bit3(x) + Bit3(b))>>

opcode(p, os) == <<B(p.op + (IF p.hasAddend THEN byte(getRegister(p.addend, os)) % 8 ELSE 0))>>

(* The value of a Go integer converted to a field.                         *)
immediate(p, os) == <<Field(p.size, os[p.value + 1].v % Pow2(8 * p.size))>>

(* Whether a displacement follows, and with which mod.                     *)
Displaced(mod, xrm) == mod # 0 \/ byte(xrm) \in {5, 13}


SlotAt(len) == len + 1

ModRMByte(mod, reg, rm) == B(64 * mod + 8 * (reg % 8) + (rm % 8))
modrm(p, os, len) ==
  LET o == IF p.mod[1] = "lit" THEN Zero ELSE os[p.mod[2] + 1]
      xreg == IF p.reg[1] = "lit" THEN p.reg[2] ELSE byte(getRegister(p.reg[2], os))
      sym == IF o.k \in {"ind", "var"} THEN o.sym ELSE ""
      ind == CASE p.mod[1] = "op" /\ sym # "" -> Ind(RIP, IF o.k = "ind" THEN o.off ELSE 0, 0, sym)
               [] p.mod[1] = "op" /\ o.k = "ind" /\ sym = "" -> o
               [] OTHER -> Err
      mod == IF p.mod[1] = "lit" THEN p.mod[2] ELSE IF ind # Err /\ sym = "" /\ ind.off # 0 THEN 2 ELSE 0
      found == IF sym = "" THEN <<>> ELSE <<[Offset |-> SlotAt(len), Symbol |-> sym, Addend |-> ind.off]>>
      disp8 == o.k = "bis" /\ o.base \in {RBP, R13}
      log2(s) == CASE s = 1 -> 0 [] s = 2 -> 1 [] s = 4 -> 2 [] s = 8 -> 3
      units ==
        CASE o.k = "bis" ->
               <<ModRMByte(IF disp8 THEN 1 ELSE 0, xreg, 4), ModRMByte(log2(o.scale), byte(o.index), byte(o.base))>>
                 \o (IF disp8 THEN <<B(0)>> ELSE <<>>)
          [] ind # Err /\ ind.reg \in {RSP, R12} ->
               <<ModRMByte(mod, xreg, 4), B(36)>> \o (IF mod # 0 THEN <<Field(4, ind.off)>> ELSE <<>>)
          [] ind # Err /\ ind.reg \notin {RSP, R12} ->
               LET shown == Displaced(mod, ind.reg)
                   m == IF shown /\ ind.reg \in {RBP, R13} THEN 2 ELSE mod
               IN  <<ModRMByte(m, xreg, byte(ind.reg))>> \o (IF shown THEN <<Field(4, ind.off)>> ELSE <<>>)
          [] OTHER -> <<ModRMByte(mod, xreg, byte(getRegister(p.rm, os)))>>
  IN  [units |-> units, rs |-> found]

EncodePiece(p, os, len) ==
  CASE p.p = "prefix" -> Piece(<<B(p.b)>>)
    [] p.p = "rex" -> Piece(rex(p, os))
    [] p.p = "opcode" -> Piece(opcode(p, os))
    [] p.p \in {"Immediate", "CodeOffset"} -> Piece(immediate(p, os))
    [] p.p = "modrm" -> modrm(p, os, len)

(* AH, BH, CH and DH cannot be named in an instruction with a REX prefix.  *)
HighWithREX(f, os) ==
  /\ \E i \in DOMAIN os : os[i].k = "reg" /\ os[i].high
  /\ \E i \in DOMAIN f.enc : \E j \in DOMAIN f.enc[i] : f.enc[i][j].p = "rex" /\ rex(f.enc[i][j], os) # <<>>

(***************************************************************************)
(* Function.Instr.                                                         *)
(***************************************************************************)
I(instr, ops) == [instr |-> instr, ops |-> ops]
operandBitWidth(o) == CASE o.k = "local" -> o.size [] o.k = "reg" -> o.w [] OTHER -> 0
Rewritten(instr, ops) ==
  CASE instr = "LEA" /\ Len(ops) = 2 /\ ops[1].k = "ind" /\ ops[2].k = "var" -> <<I("LEA", <<Tmp, ops[2]>>), I("MOV", <<ops[1], Tmp>>)>>
    [] instr = "MOVZX" /\ Len(ops) = 2 /\ \A i \in {1, 2} : ops[i].k = "local" /\ ops[i].size = 128 \div (2 ^ i) ->
         <<I("MOV", <<[ops[1].reg EXCEPT !.w = 32], ops[2]>>)>>
    [] instr = "MOVSX" /\ Len(ops) = 2 /\ operandBitWidth(ops[1]) = 64 /\ operandBitWidth(ops[2]) = 32 -> <<I("MOVSXD", ops)>>
    [] OTHER -> <<I(instr, ops)>>

Init ==
  /\ line \in Lines
  /\ todo = <<>> /\ form = 0 /\ enc = <<>> /\ code = <<>> /\ rs = <<>> /\ relocs = <<>>
  /\ st = "line"

ReadLine ==
  LET ops == [i \in DOMAIN line.args |-> operand(line.args[i])] IN
  /\ st = "line"
  /\ IF Err \in Range(ops) \/ line.instr \notin DOMAIN XForms
     THEN st' = "fatal" /\ UNCHANGED <<todo, form>>
     ELSE st' = "match" /\ todo' = Rewritten(line.instr, ops) /\ form' = 1
  /\ UNCHANGED <<line, enc, code, rs, relocs>>

(* Instruction.Encode: the next form; the first that takes the operands.   *)
TryForm ==
  LET now == Head(todo)
      fs == Forms(now.instr)
      os == IF form <= Len(fs) THEN Converted(fs[form], now.ops) ELSE <<>>
  IN  /\ st = "match"
      /\ CASE form > Len(fs) -> st' = "fatal" /\ UNCHANGED <<todo, form, enc>>
           [] form <= Len(fs) /\ ~Takes(fs[form], now.ops) -> form' = form + 1 /\ UNCHANGED <<todo, enc, st>>
           [] OTHER -> IF HighWithREX(fs[form], os) THEN st' = "fatal" /\ UNCHANGED <<todo, form, enc>>
                       ELSE /\ st' = "emit"
                            /\ enc' = fs[form].enc[1]
                            /\ todo' = [todo EXCEPT ![1].ops = os]
                            /\ UNCHANGED form
      /\ UNCHANGED <<line, code, rs, relocs>>

(* One piece; the relocations are those of the piece written last.         *)
Emit ==
  LET out == EncodePiece(Head(enc), Head(todo).ops, Size(code)) IN
  /\ st = "emit" /\ enc # <<>>
  /\ code' = code \o out.units
  /\ rs' = out.rs
  /\ enc' = Tail(enc)
  /\ UNCHANGED <<line, todo, form, relocs, st>>

Encoded ==
  /\ st = "emit" /\ enc = <<>>
  /\ relocs' = relocs \o rs
  /\ todo' = Tail(todo)
  /\ st' = IF Len(todo) = 1 THEN "done" ELSE "match"
  /\ form' = 1
  /\ rs' = <<>>
  /\ UNCHANGED <<line, enc, code>>

Next == ReadLine \/ TryForm \/ Emit \/ Encoded

Spec == Init /\ [][Next]_vars
=============================================================================
