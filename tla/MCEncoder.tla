----------------------------- MODULE MCEncoder -----------------------------
(* The instance of Processor that TLC checks: the forms of x86_64.xml for  *)
(* the instructions the compiler uses most, and lines of assembly with     *)
(* them.                                                                   *)
EXTENDS Processor

Scaled == (8 :> 3) @@ (16 :> 4) @@ (32 :> 5) @@ (64 :> 7)

(* XML elements.  rm is an operand; reg is an operand or an extension.     *)
El(el, at) == [el |-> el, at |-> at]
Lit(v) == <<"lit", v>>
Arg(i) == <<"op", i>>
Op(b) == El("Opcode", [byte |-> b])
OpPlus(b) == El("Opcode", [byte |-> b, addend |-> Arg(0)])
Imm(size, i) == El("Immediate", [size |-> size, value |-> Arg(i)])
Rex(w, at) == El("REX", [mandatory |-> w = 1, W |-> w] @@ at)
Rm(mode, reg, rm) == El("ModRM", [mode |-> mode, reg |-> reg, rm |-> Arg(rm)])

(* Encodings by the operands they carry: registers only, a register and    *)
(* memory, and one operand with an opcode extension.                       *)
RR(w, ops, reg, rm) == <<Rex(w, [R |-> Arg(reg), B |-> Arg(rm)])>> \o ops \o <<Rm(Lit(3), Arg(reg), rm)>>
RM(w, ops, reg, m) == <<Rex(w, [R |-> Arg(reg), X |-> Arg(m), B |-> Arg(m)])>> \o ops \o <<Rm(Arg(m), Arg(reg), m)>>
R1(w, op, ext) == <<Rex(w, [B |-> Arg(0)]), Op(op), Rm(Lit(3), Lit(ext), 0)>>
M1(w, op, ext) == <<Rex(w, [X |-> Arg(0), B |-> Arg(0)]), Op(op), Rm(Arg(0), Lit(ext), 0)>>
Plus(w, op) == <<Rex(w, [B |-> Arg(0)]), OpPlus(op)>>

F(ops, encs) == [ops |-> [i \in DOMAIN ops |-> [TN |-> ops[i], Implicit |-> FALSE]], encs |-> encs]
Fixed(reg, ops, encs) == [F(<<reg>> \o ops, encs) EXCEPT !.ops[1].Implicit = TRUE]

(* MOV and ADD in their order in the file.                                 *)
MovForms ==
  <<F(<<"r8", "imm8">>, <<R1(0, 198, 0) \o <<Imm(1, 1)>>, Plus(0, 176) \o <<Imm(1, 1)>>>>),
    F(<<"r8", "r8">>, <<RR(0, <<Op(136)>>, 1, 0), RR(0, <<Op(138)>>, 0, 1)>>),
    F(<<"r8", "m8">>, <<RM(0, <<Op(138)>>, 0, 1)>>),
    F(<<"r16", "r16">>, <<<<El("Prefix", [byte |-> 102])>> \o RR(0, <<Op(137)>>, 1, 0), <<El("Prefix", [byte |-> 102])>> \o RR(0, <<Op(139)>>, 0, 1)>>),
    F(<<"r32", "imm32">>, <<R1(0, 199, 0) \o <<Imm(4, 1)>>, Plus(0, 184) \o <<Imm(4, 1)>>>>),
    F(<<"r32", "r32">>, <<RR(0, <<Op(137)>>, 1, 0), RR(0, <<Op(139)>>, 0, 1)>>),
    F(<<"r32", "m32">>, <<RM(0, <<Op(139)>>, 0, 1)>>),
    F(<<"r64", "imm32">>, <<R1(1, 199, 0) \o <<Imm(4, 1)>>>>),
    F(<<"r64", "imm64">>, <<Plus(1, 184) \o <<Imm(8, 1)>>>>),
    F(<<"r64", "r64">>, <<RR(1, <<Op(137)>>, 1, 0), RR(1, <<Op(139)>>, 0, 1)>>),
    F(<<"r64", "m64">>, <<RM(1, <<Op(139)>>, 0, 1)>>),
    F(<<"m8", "imm8">>, <<M1(0, 198, 0) \o <<Imm(1, 1)>>>>),
    F(<<"m8", "r8">>, <<RM(0, <<Op(136)>>, 1, 0)>>),
    F(<<"m32", "imm32">>, <<M1(0, 199, 0) \o <<Imm(4, 1)>>>>),
    F(<<"m32", "r32">>, <<RM(0, <<Op(137)>>, 1, 0)>>),
    F(<<"m64", "imm32">>, <<M1(1, 199, 0) \o <<Imm(4, 1)>>>>),
    F(<<"m64", "r64">>, <<RM(1, <<Op(137)>>, 1, 0)>>)>>
AddForms ==
  <<Fixed("al", <<"imm8">>, <<<<Op(4), Imm(1, 1)>>>>),
    F(<<"r8", "imm8">>, <<R1(0, 128, 0) \o <<Imm(1, 1)>>>>),
    F(<<"r8", "r8">>, <<RR(0, <<Op(0)>>, 1, 0), RR(0, <<Op(2)>>, 0, 1)>>),
    F(<<"r32", "imm8">>, <<R1(0, 131, 0) \o <<Imm(1, 1)>>>>),
    F(<<"r32", "imm32">>, <<R1(0, 129, 0) \o <<Imm(4, 1)>>>>),
    F(<<"r64", "imm8">>, <<R1(1, 131, 0) \o <<Imm(1, 1)>>>>),
    F(<<"r64", "imm32">>, <<R1(1, 129, 0) \o <<Imm(4, 1)>>>>),
    F(<<"r64", "r64">>, <<RR(1, <<Op(1)>>, 1, 0), RR(1, <<Op(3)>>, 0, 1)>>),
    F(<<"r64", "m64">>, <<RM(1, <<Op(3)>>, 0, 1)>>),
    F(<<"m8", "imm8">>, <<M1(0, 128, 0) \o <<Imm(1, 1)>>>>),
    F(<<"m64", "imm8">>, <<M1(1, 131, 0) \o <<Imm(1, 1)>>>>),
    F(<<"m64", "imm32">>, <<M1(1, 129, 0) \o <<Imm(4, 1)>>>>),
    F(<<"m64", "r64">>, <<RM(1, <<Op(1)>>, 1, 0)>>)>>
Extend(op) ==
  <<F(<<"r32", "r8">>, <<RR(0, <<Op(15), Op(op)>>, 0, 1)>>), F(<<"r32", "m8">>, <<RM(0, <<Op(15), Op(op)>>, 0, 1)>>),
    F(<<"r64", "r8">>, <<RR(1, <<Op(15), Op(op)>>, 0, 1)>>), F(<<"r64", "m8">>, <<RM(1, <<Op(15), Op(op)>>, 0, 1)>>)>>
TableForms ==
  ("MOV" :> MovForms) @@ ("ADD" :> AddForms) @@ ("MOVZX" :> Extend(182)) @@ ("MOVSX" :> Extend(190))
  @@ ("MOVSXD" :> <<F(<<"r64", "r32">>, <<RR(1, <<Op(99)>>, 0, 1)>>), F(<<"r64", "m32">>, <<RM(1, <<Op(99)>>, 0, 1)>>)>>)
  @@ ("LEA" :> <<F(<<"r32", "m">>, <<RM(0, <<Op(141)>>, 0, 1)>>), F(<<"r64", "m">>, <<RM(1, <<Op(141)>>, 0, 1)>>)>>)
  @@ ("PUSH" :> <<F(<<"imm8">>, <<<<Op(106), Imm(1, 0)>>>>), F(<<"imm32">>, <<<<Op(104), Imm(4, 0)>>>>),
                  F(<<"r64">>, <<Plus(0, 80), R1(0, 255, 6)>>), F(<<"m64">>, <<M1(0, 255, 6)>>)>>)
  @@ ("IMUL" :> <<F(<<"r64", "r64", "imm8">>, <<RR(1, <<Op(107)>>, 0, 1) \o <<Imm(1, 2)>>>>), F(<<"r64", "r64", "imm32">>, <<RR(1, <<Op(105)>>, 0, 1) \o <<Imm(4, 2)>>>>),
                  F(<<"r64", "m64", "imm8">>, <<RM(1, <<Op(107)>>, 0, 1) \o <<Imm(1, 2)>>>>),
                  F(<<"r64", "m64", "imm32">>, <<RM(1, <<Op(105)>>, 0, 1) \o <<Imm(4, 2)>>>>)>>)
  @@ ("CQO" :> <<Fixed("rax", <<>>, <<<<Rex(1, [z |-> 0]), Op(153)>>>>)>>)
  @@ ("VMOVQ" :> <<F(<<"r64", "r64">>, <<<<El("VEX", [z |-> 0]), Op(126)>>>>)>>)

(* Locals: two in registers, one 32 bits wide in a register, one byte and  *)
(* one volatile word in their stack slots.                                 *)
Local(size, reg, off, inreg, volatile) ==
  [k |-> "local", size |-> size, regsize |-> size, reg |-> reg, off |-> off, inreg |-> inreg, volatile |-> volatile]
TableLocals ==
  ("x" :> Local(64, R64(3), -8, TRUE, FALSE)) @@ ("y" :> Local(32, Reg(6, 32, FALSE), -4, TRUE, FALSE))
  @@ ("c" :> Local(8, Reg(7, 8, FALSE), -1, TRUE, FALSE)) @@ ("v" :> Local(64, Zero, -16, FALSE, TRUE))
TableGlobals == {"g"}
TmpReg == R64(13)

(* Operands.                                                               *)
N(name) == [t |-> "name", name |-> name]
Part(name, bits) == [t |-> "partial", name |-> name, bits |-> bits]
At(base, index, sign, v, scale, size) ==
  [t |-> "mem", base |-> base, index |-> index, sign |-> sign, v |-> v, scale |-> scale, size |-> size]
Num(t, v) == [t |-> t, v |-> v]
L(instr, args) == [instr |-> instr, args |-> args]

Regs64 == {N(r) : r \in {"rax", "rbx", "rsp", "rbp", "rsi", "r8", "r12", "r13"}}
Regs32 == {N(r) : r \in {"eax", "esi", "r8d"}}
Regs8 == {N(r) : r \in {"al", "ah", "bh", "sil", "dil", "r8b"}}
Bases == {"rax", "rsp", "rbp", "rsi", "r8", "r12", "r13", "x", "g"}
Memory(size) ==
  {At(b, i[1], i[2], i[3], 0, size) : b \in Bases, i \in {<<"", "+", 0>>, <<"#", "+", 3>>, <<"#", "-", 3>>, <<"0x", "+", 5>>}}
Scaling == {At(b, i, "+", 0, s, 0) : b \in {"rax", "rsp", "rbp", "r12", "r13"}, i \in {"rbx", "r8", "r12", "r13", "rbp"}, s \in {0, 1, 4, 8}}
Numbers == {Num("dec", v) : v \in {-16, -9, -8, -5, -4, -1, 0, 3, 4, 7, 8, 15, 16, 31}} \cup {Num("hex", v) : v \in {3, 4, 7, 8, 15, 16, 31}}
Wide == {Num("hex", 32), Num("hex", 127), Num("dec", -64)}
Wrong == {At("rax", "#", "+", 16, 0, 64), At("nobody", "", "+", 0, 0, 64), At("rax", "rbx", "+", 0, 3, 64), At("g", "rbx", "+", 0, 2, 64), Part("y", 64)}

AllLines ==
  {L("MOV", <<a, b>>) : a, b \in Regs64 \cup {N("x"), N("v")}} \cup {L("MOV", <<a, b>>) : a, b \in Regs32 \cup {N("y"), Part("x", 32)}}
  \cup {L("MOV", <<a, b>>) : a, b \in Regs8 \cup {N("c"), Part("x", 8)}} \cup {L("MOV", <<N("ax"), N("ax")>>)}
  \cup {L("MOV", <<a, b>>) : a \in Regs64, b \in Memory(64) \cup Scaling \cup Numbers \cup Wide \cup Wrong}
  \cup {L("MOV", <<b, a>>) : a \in Regs64, b \in Memory(64) \cup Scaling}
  \cup {L("MOV", <<b, a>>) : a \in Regs8, b \in Memory(8)} \cup {L("MOV", <<b, a>>) : a \in Regs32, b \in Memory(32)}
  \cup {L(op, <<a, b>>) : op \in {"MOV", "ADD"}, a \in Memory(8) \cup Memory(64) \cup {N("rax"), N("r8"), N("al"), N("sil"), N("x"), N("c"), N("v")}, b \in Numbers}
  \cup {L(op, <<a, b>>) : op \in {"MOV", "ADD"}, a \in {N("eax"), N("r8d"), N("y")}, b \in Numbers}
  \cup {L("ADD", <<a, b>>) : a \in Regs64, b \in Regs64 \cup Memory(64)}
  \cup {L("LEA", <<a, b>>) : a \in Regs64 \cup {N("x")}, b \in {N("g"), N("v")} \cup Memory(0) \cup Scaling}
  \cup {L("LEA", <<a, N("g")>>) : a \in Memory(64)}
  \cup {L(op, <<a, b>>) : op \in {"MOVZX", "MOVSX"}, a \in {N("rax"), N("r8d"), N("x"), N("y")}, b \in Regs8 \cup Memory(8) \cup {N("c"), N("y"), Part("x", 8)}}
  \cup {L("MOVSX", <<N("r8"), N("eax")>>), L("CQO", <<>>), L("VMOVQ", <<N("rax"), N("rbx")>>), L("NOPE", <<>>)}
  \cup {L("PUSH", <<a>>) : a \in Regs64 \cup Memory(64) \cup {n \in Numbers : n.v < 4}}
  \cup {L("IMUL", <<a, b, c>>) : a, b \in Regs64 \cup {N("x")}, c \in Numbers}
  \cup {L("IMUL", <<a, b, c>>) : a \in {N("rax"), N("r12"), N("x")}, b \in Memory(64), c \in Numbers}
=============================================================================
