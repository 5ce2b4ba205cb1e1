------------------------------ MODULE MCPackage ------------------------------
(* Instances of Package: every pair of declaration templates as compiled,   *)
(* and every single declaration with one of its lines lost, repeated or     *)
(* swapped with the next.                                                   *)
EXTENDS Package

W(s) == <<s>>
Ty(n) == [q |-> <<>>, n |-> W(n), p |-> <<>>]
Ptr(n) == [q |-> <<W("*mut")>>, n |-> W(n), p |-> <<>>]
Far(n) == [q |-> <<W("*")>>, n |-> W(n), p |-> W("q")]

MCBuiltins == {W("i64"), W("void")}
MCRetLabel == W("ret0")
(* Two names and two signatures collide, so that the order of a table is    *)
(* decided by each of its keys.                                             *)
MCHash(ws) == (Len(ws) * 3 + Len(Last(ws))) % 4

Fn(name, pub, args, ret, aliases, locals, calls) ==
  [k |-> "func", Name |-> W(name), IsPub |-> pub, Args |-> args, Variadic |-> FALSE, Return |-> ret, Aliases |-> aliases,
   Locals |-> locals, Calls |-> calls]

m1 == Fn("m", TRUE, <<Ptr("S"), Ty("I")>>, Ptr("S"), <<<<0>>>>, <<64, 128>>, <<W("F")>>)
m2 == Fn("h", FALSE, <<Ty("S")>>, Ty("void"), <<>>, <<>>, <<>>)
m3 == Fn("m", TRUE, <<Ty("A"), Far("R")>>, Ty("V"), <<>>, <<8>>, <<<<"q", "G">>>>)

DS == [k |-> "struct", Name |-> W("S"), IsPub |-> TRUE, size |-> 16, Methods |-> <<m1, m2>>,
       Fields |-> <<[Name |-> W("next"), Type |-> Ptr("S")], [Name |-> W("far"), Type |-> Far("R")]>>]
DT == [k |-> "struct", Name |-> W("T"), IsPub |-> FALSE, size |-> 0, Methods |-> <<>>, Fields |-> <<>>]
DA == [k |-> "alias", Name |-> W("A"), IsPub |-> TRUE, size |-> 8, Underlying |-> Ty("i64"), Methods |-> <<m3>>]
DB == [k |-> "alias", Name |-> W("B"), IsPub |-> TRUE, size |-> 16, Underlying |-> Ty("S"), Methods |-> <<>>]
DI == [k |-> "iface", Name |-> W("I"), IsPub |-> TRUE,
       Methods |-> <<[Name |-> W("m"), Params |-> <<[Name |-> W("a"), Type |-> Ptr("I")], [Name |-> W("b"), Type |-> Ty("T")]>>,
                      Return |-> Ty("I"), ReturnAliases |-> <<<<>>, <<0, 1>>>>],
                     [Name |-> <<"h", "2">>, Params |-> <<>>, Return |-> Ty("void"), ReturnAliases |-> <<<<>>>>]>>]
DV == [k |-> "values", Name |-> W("V"), IsPub |-> TRUE, size |-> 8, TagType |-> Ty("i64"),
       Cases |-> <<[Name |-> W("one"), Tag |-> 0], [Name |-> W("two"), Tag |-> 1]>>,
       Projections |-> <<Ty("A")>>, Methods |-> <<[m2 EXCEPT !.IsPub = TRUE, !.Args = <<Ty("V")>>]>>]
SliceOf(t) == [t EXCEPT !.n = Append(@, "[]")]
DF == [Fn("F", TRUE, <<Ty("T"), Ptr("I"), SliceOf(Ptr("S"))>>, SliceOf(Ty("S")), <<<<1>>, <<>>>>, <<64, 64>>,
          <<W("F"), <<"q", "G">>>>) EXCEPT !.Variadic = TRUE]
DG == [k |-> "var", Name |-> W("G"), IsPub |-> TRUE, Type |-> Ty("S"), size |-> 16, init |-> "data",
       Relocs |-> <<[Offset |-> 8, Symbol |-> W("anon"), Addend |-> 0]>>,
       Anon |-> <<[Name |-> W("anon"), Type |-> Ty("i64"), size |-> 8, Relocs |-> <<>>]>>]
DH == [k |-> "var", Name |-> W("H"), IsPub |-> TRUE, Type |-> Ty("V"), size |-> 8, init |-> "zero",
       Relocs |-> <<>>, Anon |-> <<>>]
Templates == {DS, DT, DA, DB, DI, DV, DF, DG, DH}

P == W("p")
File(lines) == [opens |-> TRUE, lines |-> lines]
Compiled(decls) == [pkg |-> P, decls |-> decls, files |-> <<File(CompiledLines(P, decls))>>, intact |-> TRUE]

(* Assembly that no compiler wrote.                                         *)
Hand(files) == [pkg |-> P, decls |-> <<>>, files |-> files, intact |-> FALSE]
Drop(s, i) == SubSeq(s, 1, i - 1) \o SubSeq(s, i + 1, Len(s))
Twice(s, i) == SubSeq(s, 1, i) \o SubSeq(s, i, Len(s))
Swap(s, i) == [s EXCEPT ![i] = s[i + 1], ![i + 1] = s[i]]
Damaged ==
  LET ls(d) == CompiledLines(P, <<d>>) IN
  UNION {UNION {{Hand(<<File(Drop(ls(d), i))>>), Hand(<<File(Twice(ls(d), i))>>), Hand(<<File(Swap(ls(d), i))>>),
                 Hand(<<File(SubSeq(ls(d), 1, i))>>)} :
            i \in 1..Len(ls(d)) - 1} : d \in Templates}

(* Other operations of the format, two files, and a file that is missing.   *)
PkgLine(n) == Line("package", FALSE, <<W(n)>>, <<>>)
Others ==
  LET f1 == File(CompiledLines(P, <<DT>>))
      extra == File(<<PkgLine("p"), Line("data", TRUE, <<W("D"), W("byte[3]")>>, <<3>>),
                      Line("Type", FALSE, <<W("Td"), W("prop")>>, <<>>),
                      Line("var", FALSE, <<W("far"), W("i64"), W("{")>>, <<>>), Line("bytes", FALSE, <<>>, <<8>>),
                      Line("reloc", FALSE, <<W("D")>>, <<1, 0>>), Close>>)
      code == File(<<PkgLine("p"), Line("function", FALSE, <<W("K")>>, <<>>), Line("instr", FALSE, <<W("D")>>, <<7>>),
                     Line("label", FALSE, <<W("x")>>, <<>>), Line("JMP", FALSE, <<W("x")>>, <<5>>)>>)
      gone == [opens |-> FALSE, lines |-> <<>>]
  IN  {Hand(<<f1, extra>>), Hand(<<File(SubSeq(extra.lines, 1, 3)), code>>), Hand(<<gone, f1>>), Hand(<<f1, gone>>),
       Hand(<<gone>>), Hand(<<f1, File(<<PkgLine("r")>>)>>), Hand(<<f1, f1>>)}

MCPrograms == {Compiled(<<d, e>>) : d, e \in Templates} \cup Damaged \cup Others
Distinct == {p \in MCPrograms : p.intact => p.decls[1].Name # p.decls[2].Name}
=============================================================================
