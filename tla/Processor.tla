----------------------------- MODULE Processor -----------------------------
(***************************************************************************)
(* How an x86-64 processor reads the code that Encoder writes: prefixes,   *)
(* opcode, ModR/M and SIB bytes, displacement and immediate.  Written from *)
(* the architecture, independently of the encoder, it is what the code is  *)
(* compared with.                                                          *)
(***************************************************************************)
EXTENDS Encoder

Prefix66 == 102
After(us, k) == SubSeq(us, k + 1, Len(us))
Mem(base, index, scale, off, at) == [k |-> "mem", base |-> base, index |-> index, scale |-> scale, off |-> off, at |-> at, w |-> 0]
NoReg == -1
AtRIP == -2

(* Opcodes: the instruction, whether its operand is a byte, its operands   *)
(* in order and the opcode extension in ModR/M when there is one.          *)
O(op, b, args) == [op |-> op, b |-> b, args |-> args]
OneByte ==
  (136 :> O("MOV", TRUE, <<"rm", "reg">>)) @@ (137 :> O("MOV", FALSE, <<"rm", "reg">>)) @@ (138 :> O("MOV", TRUE, <<"reg", "rm">>))
  @@ (139 :> O("MOV", FALSE, <<"reg", "rm">>)) @@ (198 :> O("MOV", TRUE, <<"rm", "imm8">>)) @@ (199 :> O("MOV", FALSE, <<"rm", "imm">>))
  @@ (0 :> O("ADD", TRUE, <<"rm", "reg">>)) @@ (1 :> O("ADD", FALSE, <<"rm", "reg">>)) @@ (2 :> O("ADD", TRUE, <<"reg", "rm">>))
  @@ (3 :> O("ADD", FALSE, <<"reg", "rm">>)) @@ (128 :> O("ADD", TRUE, <<"rm", "imm8">>)) @@ (129 :> O("ADD", FALSE, <<"rm", "imm">>))
  @@ (131 :> O("ADD", FALSE, <<"rm", "imm8">>)) @@ (141 :> O("LEA", FALSE, <<"reg", "rm">>)) @@ (99 :> O("MOVSXD", FALSE, <<"reg", "rm32">>))
  @@ (107 :> O("IMUL", FALSE, <<"reg", "rm", "imm8">>)) @@ (105 :> O("IMUL", FALSE, <<"reg", "rm", "imm">>)) @@ (153 :> O("CQO", FALSE, <<>>))
  @@ (106 :> O("PUSH", FALSE, <<"imm8">>)) @@ (104 :> O("PUSH", FALSE, <<"imm">>)) @@ (255 :> O("PUSH", FALSE, <<"rm">>))
  @@ [c \in 80 .. 87 |-> O("PUSH", FALSE, <<"+r">>)] @@ [c \in 184 .. 191 |-> O("MOV", FALSE, <<"+r", "imm64">>)]
TwoByte == (182 :> O("MOVZX", FALSE, <<"reg", "rm8">>)) @@ (183 :> O("MOVZX", FALSE, <<"reg", "rm16">>)) @@ (190 :> O("MOVSX", FALSE, <<"reg", "rm8">>)) @@ (175 :> O("IMUL", FALSE, <<"reg", "rm">>))

(* A register by its number: without REX, 4 to 7 are the high bytes.       *)
Named(n, w, rexed) == IF w = 8 /\ ~rexed /\ n \in 4 .. 7 THEN Reg(n - 4, 8, TRUE) ELSE Reg(n, w, FALSE)

(* The r/m operand: a register, or memory with its base, index and offset; *)
(* at is the place of a displacement in the code.                          *)
ReadRM(us, rx, pos) ==
  LET mod == us[1].v \div 64
      rm == us[1].v % 8
      sib == mod # 3 /\ rm = 4
      sb == us[2].v
      base == IF sib THEN sb % 8 ELSE rm
      xi == ((sb \div 8) % 8) + 8 * ((rx \div 2) % 2)
      index == IF sib /\ xi # 4 THEN xi ELSE NoReg
      scale == IF index = NoReg THEN 1 ELSE 2 ^ (sb \div 64)
      k == IF sib THEN 2 ELSE 1
      bare == mod = 0 /\ base = 5
      size == CASE mod = 1 -> 1 [] mod = 2 \/ bare -> 4 [] OTHER -> 0
      off == IF size = 0 THEN 0 ELSE us[k + 1].v
      b == CASE bare /\ ~sib -> AtRIP [] bare /\ sib -> NoReg [] OTHER -> base + 8 * (rx % 2)
  IN  IF mod = 3 THEN [op |-> R64(rm + 8 * (rx % 2)), rest |-> After(us, 1), ok |-> TRUE, pos |-> pos + 1]
      ELSE [op |-> Mem(b, index, scale, off, pos + k), rest |-> After(us, IF size = 0 THEN k ELSE k + 1),
            ok |-> size = 0 \/ us[k + 1].n = size, pos |-> pos + k + size]

(* What comes before the operands: prefixes and opcode, in h.k units.      *)
Header(us) ==
  LET wide == us[1].v = Prefix66
      a == IF wide THEN 2 ELSE 1
      rexed == us[a].v \in 64 .. 79
      b == IF rexed THEN a + 1 ELSE a
      two == us[b].v = 15
      c == IF two THEN b + 1 ELSE b
  IN  [wide |-> wide, rexed |-> rexed, rx |-> IF rexed THEN us[a].v - 64 ELSE 0, k |-> c, byte |-> us[c].v,
       o |-> IF two THEN TwoByte[us[c].v] ELSE OneByte[us[c].v]]

Width(h) == IF h.o.b THEN 8 ELSE IF h.rx \div 8 = 1 \/ (h.o.op = "PUSH" /\ ~h.wide) THEN 64 ELSE IF h.wide THEN 16 ELSE 32

(* The instruction with header h, operand width w, the number in the reg   *)
(* field and the r/m operand: what it is, the units after it, and whether  *)
(* its fields have the sizes it needs.                                     *)
Instruction(h, w, reg, rm) ==
  LET at(x) == CASE x = "rm8" -> 8 [] x = "rm16" -> 16 [] x = "rm32" -> 32 [] OTHER -> w
      sized(x) == IF rm.op.k = "mem" THEN [rm.op EXCEPT !.w = at(x)] ELSE Named(rm.op.n, at(x), h.rexed)
      immw(x) == CASE x = "imm8" -> 8 [] x = "imm" -> IF w = 64 THEN 32 ELSE w [] x = "imm64" -> w
      signed(x) == LET v == rm.rest[1].v IN IF v >= Pow2(immw(x)) \div 2 THEN v - Pow2(immw(x)) ELSE v
      arg(x) == CASE x = "reg" -> Named(reg, w, h.rexed)
                  [] x = "+r" -> Named((h.byte % 8) + 8 * (h.rx % 2), w, h.rexed)
                  [] x \in {"imm8", "imm", "imm64"} -> [k |-> "imm", v |-> signed(x) % Pow2(w), w |-> w]
                  [] OTHER -> sized(x)
      imms == SelectSeq(h.o.args, LAMBDA x : x \in {"imm8", "imm", "imm64"})
  IN  [op |-> h.o.op, args |-> [i \in DOMAIN h.o.args |-> arg(h.o.args[i])], rest |-> After(rm.rest, Len(imms)),
       ok |-> rm.ok /\ \A i \in DOMAIN imms : 8 * rm.rest[i].n = immw(imms[i]), end |-> rm.pos + Size(SubSeq(rm.rest, 1, Len(imms)))]

(* The operands follow in us, at pos.                                      *)
Operands(h, us, pos) ==
  LET hasRM == \E i \in DOMAIN h.o.args : h.o.args[i] \in {"rm", "rm8", "rm16", "rm32"} IN
  Instruction(h, Width(h), ((us[1].v \div 8) % 8) + 8 * ((h.rx \div 4) % 2),
              IF hasRM THEN ReadRM(us, h.rx, pos) ELSE [op |-> Zero, rest |-> us, ok |-> TRUE, pos |-> pos])

Decode(us, pos) == Operands(Header(us), After(us, Header(us).k), pos + Header(us).k)

(* The processor reads the code of the line, one instruction a step.       *)
VARIABLE seen   \* the instructions it has read
Unread == IF seen = <<>> THEN code ELSE Last(seen).rest

Fetch ==
  /\ st = "done" /\ Unread # <<>>
  /\ seen' = Append(seen, Decode(Unread, IF seen = <<>> THEN 0 ELSE Last(seen).end))
  /\ UNCHANGED vars

RunInit == Init /\ seen = <<>>
RunNext == (Next /\ UNCHANGED seen) \/ Fetch
RunSpec == RunInit /\ [][RunNext]_<<vars, seen>>
Executed == st = "done" /\ Unread = <<>>

(***************************************************************************)
(* What the operands of a line ask for.                                    *)
(***************************************************************************)
RelocAt(pos) == SelectSeq(relocs, LAMBDA r : r.Offset = pos)

(* The fields that hold a displacement from RIP, and those of them that an *)
(* immediate follows: IForm.Encode drops the relocations of these.         *)
Slots(d) == {d.args[i].at : i \in {j \in DOMAIN d.args : d.args[j].k = "mem" /\ d.args[j].base = AtRIP}}
AllSlots == UNION {Slots(d) : d \in Range(seen)}
Followed == UNION {Slots(d) : d \in {e \in Range(seen) : \E i \in DOMAIN e.args : e.args[i].k = "imm"}}

(* A global, and the relocation that says which and where in it.           *)
IsGlobal(d, sym, off) ==
  /\ d.k = "mem" /\ d.base = AtRIP
  /\ d.at \in Followed \/ RelocAt(d.at) = <<[Offset |-> d.at, Symbol |-> sym, Addend |-> off]>>
InSlot(d, off) == d.k = "mem" /\ d.base = 5 /\ d.index = NoReg /\ d.off = off

AsksOffset(a) == CASE a.index = "" -> 0 [] a.sign = "-" -> -a.v [] OTHER -> a.v
Place(a, d) ==
  /\ d.k = "mem"
  /\ a.size # 0 => d.w = a.size
  /\ IF a.base \in Globals THEN IsGlobal(d, a.base, AsksOffset(a))
     ELSE /\ d.base = RegisterOf(a.base).n
          /\ IF a.index \in {"", "#", "0x"} THEN d.index = NoReg /\ d.off = AsksOffset(a)
             ELSE /\ d.index = RegisterOf(a.index).n
                  /\ d.scale = IF a.scale = 0 THEN 1 ELSE a.scale
                  /\ d.off = 0

Denotes(a, d) ==
  CASE a.t = "name" /\ a.name \in DOMAIN Locals ->
         LET l == Locals[a.name] IN d = l.reg \/ (InSlot(d, l.off) /\ d.w = l.size)
    [] a.t = "name" /\ a.name \in Globals -> IsGlobal(d, a.name, 0)
    [] a.t = "name" /\ a.name \notin DOMAIN Locals \cup Globals -> d = ParseReg[a.name]
    [] a.t = "partial" -> LET l == Locals[a.name] IN
         IF l.inreg THEN d = [l.reg EXCEPT !.w = a.bits] ELSE InSlot(d, l.off) /\ d.w = a.bits
    [] a.t = "mem" -> Place(a, d)
    [] a.t \in {"hex", "dec"} -> d.k = "imm"

Does(d, op, args) == d.op = op /\ Len(d.args) = Len(args) /\ \A i \in DOMAIN args : Denotes(args[i], d.args[i])

(* The bytes of an instruction are read by the processor as the            *)
(* instruction of the line: the registers, the memory operands with their  *)
(* base, index, scale and offset and the operand sizes are the ones        *)
(* written, for every register and for the instructions that are replaced  *)
(* by others (Instruction.Encode, rex, modrm, Function.Instr).             *)
OperandsKept ==
  Executed =>
    LET ds == seen
        a == line.args
    IN  /\ \A i \in DOMAIN ds : ds[i].ok
        /\ \/ Len(ds) = 1 /\ Does(ds[1], line.instr, a)
           \/ /\ line.instr = "LEA" /\ a[1].t = "mem"
              /\ Len(ds) = 2 /\ ds[1].op = "LEA" /\ ds[1].args[1] = Tmp /\ Denotes(a[2], ds[1].args[2])
              /\ ds[2].op = "MOV" /\ ds[2].args[2] = Tmp /\ Denotes(a[1], ds[2].args[1])
           \/ /\ line.instr = "MOVZX" /\ Len(ds) = 1 /\ ds[1].op = "MOV"
              /\ ds[1].args[1] = [Locals[a[1].name].reg EXCEPT !.w = 32] /\ Denotes(a[2], ds[1].args[2])
           \/ line.instr = "MOVSX" /\ Len(ds) = 1 /\ Does(ds[1], "MOVSXD", a)

(* An immediate reaches the instruction as the number written, after the   *)
(* processor has extended it to the size of the operation (Op.Match,       *)
(* immediate.Encode, smallestInt and smallestUi).                          *)
ValuesKept ==
  Executed =>
    \A i \in DOMAIN line.args : line.args[i].t \in {"hex", "dec"} =>
      LET d == Last(seen).args[i] IN d.v = line.args[i].v % Pow2(d.w)


(* DESIGN.md on an operand [name+N] of assembly: it "is RIP-relative with  *)
(* N baked into the relocation's Addend", whatever else the instruction    *)
(* takes.  IForm.Encode returns the relocations of the piece it encoded    *)
(* last: those of a ModR/M byte that an immediate follows are dropped, and *)
(* the instruction keeps a displacement that the linker never patches.     *)
RelocationsKept == Executed => \A at \in AllSlots : RelocAt(at) # <<>>
=============================================================================
