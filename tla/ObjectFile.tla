----------------------------- MODULE ObjectFile -----------------------------
(***************************************************************************)
(* The object file of bwrite.go and ofile.go: the record a package is      *)
(* collected in, the rules by which a name may be declared in it, and its  *)
(* wire format.  The writer and the reader are two tables of layouts, one  *)
(* entry per write or read function of the source, each translated on its  *)
(* own; the interpreters Emit and Take give the tables their meaning.      *)
(*                                                                         *)
(* The wire is a sequence of tokens, one per call of binary.Write: a token *)
(* is [t |-> the width that was written, v |-> the value].  A reader that  *)
(* asks for another width than the one that was written is misaligned from *)
(* there on and the model lets it fail; so does a reader at the end of the *)
(* file.  Strings and byte blocks are values with a length, never bytes.   *)
(***************************************************************************)
EXTENDS Integers, Sequences, FiniteSets, SequencesExt, TLC

(***************************************************************************)
(* Layouts.                                                                *)
(***************************************************************************)
Atom(t) == [kind |-> "atom", t |-> t]
Size == Atom("size")
Bool == Atom("bool")
U32 == Atom("u32")
I32 == Atom("i32")
I64 == Atom("i64")
String == [kind |-> "str"]
List(item) == [kind |-> "list", item |-> item]
Rec(parts) == [kind |-> "rec", parts |-> parts]
Dict(sorted, item) == [kind |-> "dict", sorted |-> sorted, item |-> item]
Tok(t, v) == [t |-> t, v |-> v]

Failed == [ok |-> FALSE, v |-> <<>>, rest |-> <<>>]
Got(v, rest) == [ok |-> TRUE, v |-> v, rest |-> rest]

writeSize(n) == <<Tok("size", n)>>
writeString(s) == writeSize(1) \o <<Tok("raw", s)>>

(* readSize and every other fixed-width binary.Read.                       *)
readFixed(t, ts) ==
  IF ts = <<>> \/ Head(ts).t # t THEN Failed ELSE Got(Head(ts).v, Tail(ts))

readString(ts) ==
  LET n == readFixed("size", ts) IN IF n.ok THEN readFixed("raw", n.rest) ELSE n

(* A map is written in the order Go happens to iterate it, or in the one   *)
(* order of sort.Strings; ord gives the order of the unsorted ones.        *)
Order(sorted, m, ord) == IF sorted THEN SetToSeq(DOMAIN m) ELSE ord[DOMAIN m]

RECURSIVE Emit(_, _, _)
Emit(l, v, ord) ==
  CASE l.kind = "atom" -> <<Tok(l.t, v)>>
    [] l.kind = "str"  -> writeString(v)
    [] l.kind = "list" -> writeSize(Len(v)) \o FlattenSeq([i \in DOMAIN v |-> Emit(l.item, v[i], ord)])
    [] l.kind = "rec"  -> FlattenSeq([i \in DOMAIN l.parts |-> Emit(l.parts[i][2], v[l.parts[i][1]], ord)])
    [] l.kind = "dict" -> LET names == Order(l.sorted, v, ord)
                          IN  writeSize(Len(names)) \o
                              FlattenSeq([i \in DOMAIN names |-> Emit(l.item, v[names[i]], ord)])

RECURSIVE Take(_, _), TakeParts(_, _, _), TakeList(_, _, _, _), TakeDict(_, _, _, _)
TakeParts(parts, ts, acc) ==
  IF parts = <<>> THEN Got(acc, ts)
  ELSE LET r == Take(Head(parts)[2], ts)
       IN  IF r.ok THEN TakeParts(Tail(parts), r.rest, (Head(parts)[1] :> r.v) @@ acc) ELSE Failed

TakeList(item, n, ts, acc) ==
  IF n = 0 THEN Got(acc, ts)
  ELSE LET r == Take(item, ts)
       IN  IF r.ok THEN TakeList(item, n - 1, r.rest, Append(acc, r.v)) ELSE Failed

(* m[t.Name] = t: a later record of the same name replaces an earlier one. *)
TakeDict(item, n, ts, acc) ==
  IF n = 0 THEN Got(acc, ts)
  ELSE LET r == Take(item, ts)
       IN  IF r.ok THEN TakeDict(item, n - 1, r.rest, (r.v.Name :> r.v) @@ acc) ELSE Failed

Take(l, ts) ==
  CASE l.kind = "atom" -> readFixed(l.t, ts)
    [] l.kind = "str"  -> readString(ts)
    [] l.kind = "rec"  -> TakeParts(l.parts, ts, <<>>)
    [] l.kind = "list" -> LET n == readFixed("size", ts)
                          IN  IF n.ok THEN TakeList(l.item, n.v, n.rest, <<>>) ELSE Failed
    [] l.kind = "dict" -> LET n == readFixed("size", ts)
                          IN  IF n.ok THEN TakeDict(l.item, n.v, n.rest, <<>>) ELSE Failed

(***************************************************************************)
(* The object in memory and the rules for declaring a name in it.  Each    *)
(* rule is a predicate; the record it adds is the caller's.                *)
(***************************************************************************)
NewOFile(pkgname) ==
  [Pkgname |-> pkgname, ExeFormat |-> <<>>, Types |-> <<>>, Data |-> <<>>, Vars |-> <<>>, Funcs |-> <<>>,
   Structs |-> <<>>, TypeAliases |-> <<>>, Interfaces |-> <<>>, Values |-> <<>>]

In(m, name) == name \in DOMAIN m
Put(m, rec) == (rec.Name :> rec) @@ m

(* AddVar and AddData.                                                     *)
MayAddVar(o, name) == ~In(o.Vars, name) /\ ~In(o.Data, name) /\ ~In(o.Funcs, name)
MayAddFunction(o, name) == ~In(o.Funcs, name) /\ ~In(o.Vars, name) /\ ~In(o.Data, name)
MayAddStruct(o, name) ==
  ~In(o.Structs, name) /\ ~In(o.Vars, name) /\ ~In(o.Data, name) /\ ~In(o.Funcs, name)
MayAddTypeAlias(o, name) == ~In(o.TypeAliases, name)
MayAddInterface(o, name) == ~In(o.Interfaces, name)
MayAddValues(o, name) ==
  ~In(o.Values, name) /\ ~In(o.Structs, name) /\ ~In(o.TypeAliases, name) /\ ~In(o.Interfaces, name)
MayAddType(o, name) == ~In(o.Types, name)

(***************************************************************************)
(* The writer.                                                             *)
(***************************************************************************)
writeTypeDescr == Rec(<<<<"Name", String>>, <<"Properties", List(String)>>, <<"Description", String>>>>)

writeDataReloc == Rec(<<<<"Offset", U32>>, <<"Symbol", String>>, <<"Addend", I64>>>>)

writeVar == Rec(<<<<"Name", String>>, <<"IsPub", Bool>>, <<"VType", String>>, <<"Val", String>>,
                  <<"Relocs", List(writeDataReloc)>>, <<"Kind", String>>>>)

writeSymbol == Rec(<<<<"Name", String>>, <<"Offset", U32>>>>)

writeRelocation == Rec(<<<<"Offset", U32>>, <<"Symbol", String>>, <<"Addend", I32>>>>)

writeFunction ==
  Rec(<<<<"Name", String>>, <<"IsPub", Bool>>, <<"Type", String>>, <<"SrcFile", String>>, <<"SrcLine", Size>>,
        <<"Args", List(writeVar)>>, <<"Symbols", List(writeSymbol)>>,
        <<"Relocations", List(writeRelocation)>>, <<"bodyBs", String>>,
        <<"ReturnAliases", List(List(Size))>>>>)

writeStruct ==
  Rec(<<<<"Name", String>>, <<"IsPub", Bool>>,
        <<"Fields", List(Rec(<<<<"Name", String>>, <<"Type", String>>>>))>>, <<"MethodNames", List(String)>>>>)

writeTypeAlias ==
  Rec(<<<<"Name", String>>, <<"IsPub", Bool>>, <<"Underlying", String>>, <<"MethodNames", List(String)>>>>)

writeInterface ==
  Rec(<<<<"Name", String>>, <<"IsPub", Bool>>,
        <<"Methods", List(Rec(<<<<"Name", String>>,
                               <<"Params", List(Rec(<<<<"Name", String>>, <<"Type", String>>>>))>>,
                               <<"Return", String>>, <<"ReturnAliases", List(List(Size))>>>>))>>>>)

writeValue ==
  Rec(<<<<"Name", String>>, <<"IsPub", Bool>>, <<"TagType", String>>,
        <<"Cases", List(Rec(<<<<"Name", String>>, <<"Tag", I64>>>>))>>,
        <<"Projections", List(String)>>, <<"MethodNames", List(String)>>>>)

writeOFile ==
  Rec(<<<<"Pkgname", String>>, <<"ExeFormat", String>>, <<"Types", Dict(FALSE, writeTypeDescr)>>,
        <<"Data", Dict(FALSE, writeVar)>>, <<"Vars", Dict(FALSE, writeVar)>>,
        <<"Funcs", Dict(FALSE, writeFunction)>>, <<"Structs", Dict(TRUE, writeStruct)>>,
        <<"TypeAliases", Dict(TRUE, writeTypeAlias)>>, <<"Interfaces", Dict(TRUE, writeInterface)>>,
        <<"Values", Dict(TRUE, writeValue)>>>>)

(***************************************************************************)
(* The reader.                                                             *)
(***************************************************************************)
readTypeDescr == Rec(<<<<"Name", String>>, <<"Properties", List(String)>>, <<"Description", String>>>>)

readDataReloc == Rec(<<<<"Offset", U32>>, <<"Symbol", String>>, <<"Addend", I64>>>>)

(* Mutant of readVar: a reader that looks for Kind before the relocations. *)
KindFirst ==
  Rec(<<<<"Name", String>>, <<"IsPub", Bool>>, <<"VType", String>>, <<"Val", String>>,
        <<"Kind", String>>, <<"Relocs", List(readDataReloc)>>>>)

readVar == Rec(<<<<"Name", String>>, <<"IsPub", Bool>>, <<"VType", String>>, <<"Val", String>>,
                 <<"Relocs", List(readDataReloc)>>, <<"Kind", String>>>>)

readSymbol == Rec(<<<<"Name", String>>, <<"Offset", U32>>>>)

readRelocation == Rec(<<<<"Offset", U32>>, <<"Symbol", String>>, <<"Addend", I32>>>>)

readFunction ==
  Rec(<<<<"Name", String>>, <<"IsPub", Bool>>, <<"Type", String>>, <<"SrcFile", String>>, <<"SrcLine", Size>>,
        <<"Args", List(readVar)>>, <<"Symbols", List(readSymbol)>>,
        <<"Relocations", List(readRelocation)>>, <<"bodyBs", String>>,
        <<"ReturnAliases", List(List(Size))>>>>)

readStruct ==
  Rec(<<<<"Name", String>>, <<"IsPub", Bool>>,
        <<"Fields", List(Rec(<<<<"Name", String>>, <<"Type", String>>>>))>>, <<"MethodNames", List(String)>>>>)

readTypeAlias ==
  Rec(<<<<"Name", String>>, <<"IsPub", Bool>>, <<"Underlying", String>>, <<"MethodNames", List(String)>>>>)

readInterface ==
  Rec(<<<<"Name", String>>, <<"IsPub", Bool>>,
        <<"Methods", List(Rec(<<<<"Name", String>>,
                               <<"Params", List(Rec(<<<<"Name", String>>, <<"Type", String>>>>))>>,
                               <<"Return", String>>, <<"ReturnAliases", List(List(Size))>>>>))>>>>)

readValue ==
  Rec(<<<<"Name", String>>, <<"IsPub", Bool>>, <<"TagType", String>>,
        <<"Cases", List(Rec(<<<<"Name", String>>, <<"Tag", I64>>>>))>>,
        <<"Projections", List(String)>>, <<"MethodNames", List(String)>>>>)

readOFile ==
  Rec(<<<<"Pkgname", String>>, <<"ExeFormat", String>>, <<"Types", Dict(FALSE, readTypeDescr)>>,
        <<"Data", Dict(FALSE, readVar)>>, <<"Vars", Dict(FALSE, readVar)>>,
        <<"Funcs", Dict(FALSE, readFunction)>>, <<"Structs", Dict(FALSE, readStruct)>>,
        <<"TypeAliases", Dict(FALSE, readTypeAlias)>>, <<"Interfaces", Dict(FALSE, readInterface)>>,
        <<"Values", Dict(FALSE, readValue)>>>>)
=============================================================================
