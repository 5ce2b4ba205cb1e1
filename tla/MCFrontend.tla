----------------------------- MODULE MCFrontend -----------------------------
(* Programs for the front end, printed from their trees.  An operand is    *)
(* put in parentheses when one of the Rankings binds it less tightly than  *)
(* its place asks for: parser.go and DESIGN.md do not agree on all of      *)
(* them, so a text for both has parentheses wherever they differ.          *)
EXTENDS Frontend

Words == {"a", "b", "f", "x", "y", "i64", "byte", "void", "main", "from", "multiretu", "_", "o", "n"} \cup keywords
MaxNumber == 255

W(w) == <<<<w>>>>
Sym(s) == N("symbol", <<s>>, <<0>>, <<>>)
Num(k) == N("number", <<>>, <<k>>, <<>>)

(* How tightly a node binds, by the functions of parser.go and by          *)
(* DESIGN.md:124 and 126; a statement never stands inside an operator.     *)
CONSTANT Rankings
Grammar == [statement |-> 0, bool |-> 1, bitor |-> 2, bitand |-> 3, compare |-> 4, add |-> 5, unary |-> 6, mul |-> 7,
            postfix |-> 8, primary |-> 8]
Design == [statement |-> 0, bool |-> 1, compare |-> 2, bitor |-> 3, bitand |-> 4, add |-> 5, mul |-> 6, postfix |-> 7,
           unary |-> 8, primary |-> 8]
Both == {Grammar, Design}
Documented == {Design}

OpWord(t) == CHOOSE w \in UNION {DOMAIN BinaryOps[l] : l \in DOMAIN BinaryOps} :
               \E l \in DOMAIN BinaryOps : w \in DOMAIN BinaryOps[l] /\ BinaryOps[l][w] = t
LevelOf(t) == CHOOSE l \in DOMAIN BinaryOps : \E w \in DOMAIN BinaryOps[l] : BinaryOps[l][w] = t
Operators == UNION {{BinaryOps[l][w] : w \in DOMAIN BinaryOps[l]} : l \in DOMAIN BinaryOps}
Unary == ("deref" :> "*") @@ ("neg" :> "-") @@ ("not" :> "!")
Level(n) ==
  CASE n.t \in Operators -> LevelOf(n.t)
    [] n.t \in DOMAIN Unary \cup {"address"} -> "unary"
    [] n.t \in {"eq", "var", "multibind", "if", "for", "return", "block", "typeswitch"} -> "statement"
    [] n.t \in {"dot", "index", "slice", "typeassert", "nonnull"} -> "postfix"
    [] OTHER -> "primary"

TwoRunes == (":=" :> <<":", "=">>) @@ ("*?" :> <<"*", "?">>) @@ ("&&" :> <<"&", "&">>) @@ ("||" :> <<"|", "|">>)
  @@ ("!=" :> <<"!", "=">>) @@ ("==" :> <<"=", "=">>) @@ ("<=" :> <<"<", "=">>) @@ (">=" :> <<">", "=">>)
  @@ ("..." :> <<".", ".", ".">>)
Spelled(w) == IF w \in DOMAIN TwoRunes THEN <<TwoRunes[w]>> ELSE W(w)
Ws(ws) == FlattenSeq([i \in DOMAIN ws |-> Spelled(ws[i])])

Types == {NamedType("i64"), TN(<<"i64">>, 1, NoQ, <<>>), TN(<<"i64">>, 1, [NoQ EXCEPT !.mut = {1}], <<>>),
          TN(<<"i64">>, 1, [NoQ EXCEPT !.own = {0}], <<>>), TN(<<"i64">>, 1, [NoQ EXCEPT !.nil = {0}], <<>>),
          TN(<<"byte">>, 0, NoQ, <<Plain("slice", <<>>)>>), TN(<<"byte">>, 0, [NoQ EXCEPT !.mut = {1}], <<Plain("slice", <<>>)>>),
          TN(<<"byte">>, 0, NoQ, <<N("index", <<>>, <<7>>, <<>>)>>), TN(<<"fn">>, 1, NoQ, <<NamedType("i64"), NamedType("byte")>>),
          TN(<<"<struct>">>, 0, NoQ, <<N("stfield", <<"a">>, <<0>>, <<NamedType("i64")>>)>>)}
Text1(ty) ==
  LET slice == ty.args # <<>> /\ ty.args[1].t = "slice"
      q(S, w) == IF S = {} THEN <<>> ELSE <<w>>
  IN  CASE ty.s = <<"fn">> -> Ws(<<"fn", "(", "i64", ")", "byte">>)
        [] ty.s = <<"<struct>">> -> Ws(<<"struct", "{", "a", "i64", "}">>)
        [] OTHER -> Ws(q(ty.i[3], "owned") \o (IF ty.i[1] = 1 THEN <<IF ty.i[4] = {} THEN "*" ELSE "*?">> ELSE <<>>)
                       \o q(ty.i[2], "mut") \o ty.s \o (IF slice THEN <<"[", "]">> ELSE <<>>)
                       \o (IF ty.args # <<>> /\ ~slice THEN <<"[", "7", "]">> ELSE <<>>))

Listed(ws) == FlattenSeq([i \in DOMAIN ws |-> IF i = 1 THEN ws[i] ELSE W(",") \o ws[i]])
Between(ws) == FlattenSeq([i \in DOMAIN ws |-> IF i = 1 THEN ws[i] ELSE W(";") \o ws[i]])

RECURSIVE Pr(_), At(_, _), Above(_, _)
At(n, place) == IF \E r \in Rankings : r[Level(n)] < r[place] THEN W("(") \o Pr(n) \o W(")") ELSE Pr(n)
Above(n, place) == IF \E r \in Rankings : r[Level(n)] <= r[place] THEN W("(") \o Pr(n) \o W(")") ELSE Pr(n)
Pr(n) ==
  LET a(i) == n.args[i]
      nm == <<n.s>>
      all(F(_), s) == [i \in DOMAIN s |-> F(s[i])]
      body == Last(n.args)
      params == SubSeq(n.args, 1, n.i[1])
      param(p) == (IF p.i[1] % 2 = 1 THEN W("var") ELSE <<>>) \o <<p.s>> \o (IF p.i[1] > 1 THEN Spelled("...") ELSE <<>>)
                    \o Text1(IF p.i[1] > 1 THEN [p.args[1] EXCEPT !.args = Front(@)] ELSE p.args[1])
      returns(ty) == CASE ty = NamedType("void") -> <<>>
                       [] ty.s = <<"<multiretu>">> -> Listed([i \in DOMAIN ty.args |-> Text1(ty.args[i].args[1])])
                       [] OTHER -> Text1(ty)
      target(b) == IF b.t # "var" THEN Pr(b)
                   ELSE (IF b.i[1] = 0 THEN W("var") ELSE <<>>) \o <<b.s>> \o (IF b.args[1] = Infer THEN <<>> ELSE Text1(b.args[1]))
      part(p) == IF p.t = "none" THEN <<>> ELSE Pr(p)
      field(f) == <<f.s>> \o W(":") \o Pr(f.args[1])
      tcase(c) == IF c.i[1] = 1 THEN W("default") \o Pr(c.args[1]) ELSE W("case") \o Text1(c.args[1]) \o Pr(c.args[2])
  IN
  CASE n.t = "symbol" -> nm
    [] n.t = "number" -> W(Numeral(n.i[1]))
    [] n.t = "str" -> <<<<"\"">> \o n.s \o <<"\"">>>>
    [] n.t = "byte" -> <<<<"'">> \o n.s \o <<"'">>>>
    [] n.t \in Operators -> LET l == Level(n) IN
         At(a(1), l) \o Spelled(OpWord(n.t)) \o (IF l = "add" THEN At(a(2), "mul") ELSE Above(a(2), l))
    [] n.t \in DOMAIN Unary -> W(Unary[n.t]) \o At(a(1), "unary")
    [] n.t = "address" -> W("&") \o (IF n.args = <<>> THEN nm ELSE Pr(a(1)))
    [] n.t = "funcall" -> nm \o W("(") \o Listed(all(Pr, n.args)) \o W(")")
    [] n.t = "variadic_forward" -> Pr(a(1)) \o Spelled("...")
    [] n.t = "dot" -> At(a(1), "postfix") \o W(".") \o Pr(a(2))
    [] n.t = "typeassert" -> At(a(1), "postfix") \o Ws(<<".", "(">>) \o Text1(a(2)) \o W(")")
    [] n.t = "nonnull" -> At(a(1), "postfix") \o W("?")
    [] n.t = "index" -> At(a(1), "postfix") \o W("[") \o Pr(a(2)) \o W("]")
    [] n.t = "slice" -> At(a(1), "postfix") \o W("[") \o (IF a(2) = Nil THEN <<>> ELSE Pr(a(2))) \o W(":")
                          \o (IF a(3) = Nil THEN <<>> ELSE Pr(a(3))) \o W("]")
    [] n.t = "arrlit" -> W("[") \o Listed(all(Pr, n.args)) \o W("]")
    [] n.t = "stlit" -> (IF n.s = <<>> THEN <<>> ELSE nm) \o W("{") \o Listed(all(field, n.args)) \o W("}")
    [] n.t = "ownedpromo" -> Ws(<<"owned", "(">>) \o Pr(a(1)) \o W(")")
    [] n.t = "dispose" -> Ws(<<"dispose", "(">>) \o nm \o W(")")
    [] n.t = "eq" -> At(a(1), "bool") \o W("=") \o Pr(a(2))
    [] n.t \in {"break", "continue"} -> W(n.t)
    [] n.t = "return" -> W("return") \o Listed(all(Pr, n.args))
    [] n.t = "if" -> Ws(<<"if", "(">>) \o Pr(a(1)) \o W(")") \o Pr(a(2))
                       \o (IF Len(n.args) = 3 THEN W("else") \o Pr(a(3)) ELSE <<>>)
    [] n.t = "for" -> Ws(<<"for", "(">>) \o part(a(1)) \o W(";") \o part(a(2)) \o W(";") \o part(a(3)) \o W(")") \o Pr(a(4))
    [] n.t = "typeswitch" -> Ws(<<"switch", "(">>) \o nm \o Pr(a(1)) \o Ws(<<".", "(", "type", ")", ")", "{">>)
                               \o Between(all(tcase, Tail(n.args))) \o W("}")
    [] n.t = "var" -> target(n) \o (IF Len(n.args) = 2 THEN Spelled(":=") \o Pr(a(2)) ELSE <<>>)
    [] n.t = "multibind" -> Listed(all(target, Front(n.args))) \o Spelled(IF n.i[1] = 1 THEN "=" ELSE ":=") \o Pr(body)
    [] n.t = "block" -> W("{") \o Between(all(Pr, n.args)) \o W("}")
    [] n.t \in {"fn", "method"} -> (IF n.t = "fn" THEN W("fn") ELSE <<>>) \o nm \o W("(") \o Listed(all(param, params)) \o W(")")
                       \o returns(n.args[n.i[1] + 1]) \o Pr(body)
    [] n.t = "import" -> W("import") \o <<<<"\"">> \o n.s \o <<"\"">>>>
    [] n.t = "typedecl" -> W("type") \o nm \o Text1(a(1))
    [] n.t = "typedecl_with_methods" -> W("type") \o nm \o Text1(a(1)) \o W("{")
         \o Between([i \in 1 .. Len(n.args) - 1 |-> Pr([n.args[i + 1] EXCEPT !.t = "method"])]) \o W("}")
    [] n.t = "valuesdecl" -> W("type") \o nm \o W("values")
         \o (IF n.i[1] = 0 THEN <<>> ELSE W("(") \o Listed(all(Text1, params)) \o W(")"))
         \o W("{") \o Between(all(LAMBDA c : <<c.s>> \o (IF c.args = <<>> THEN <<>> ELSE W(":") \o Listed(all(Pr, c.args))),
                                  SelectSeq(n.args, LAMBDA c : c.t = "valuescase"))) \o W("}")
         \o (IF body.t # "fn" THEN <<>> ELSE W("{") \o Pr([body EXCEPT !.t = "method"]) \o W("}"))
    [] n.t = "interface_decl" -> W("interface") \o nm \o W("{") \o Between(all(Pr, n.args)) \o W("}")
    [] n.t = "interface_method" -> nm \o W("(") \o Listed(all(param, params)) \o W(")")
         \o (LET ty == n.args[n.i[1] + 1]
                 froms == SubSeq(n.args, n.i[1] + 2, Len(n.args))
                 from(k) == IF froms = <<>> \/ froms[k].args = <<>> THEN <<>>
                            ELSE Ws(<<"from", "(">>) \o Listed(all(Pr, froms[k].args)) \o W(")")
             IN  IF ty.s = <<"<multiretu>">>
                 THEN Listed([i \in DOMAIN ty.args |-> Text1(ty.args[i].args[1]) \o from(i)])
                 ELSE returns(ty) \o from(1))

(***************************************************************************)
(* Trees.                                                                  *)
(***************************************************************************)
x0 == Sym("x")
Leaves == {x0, Num(7)}
Flat == {Plain(op, <<x0, Sym("b")>>) : op \in Operators}
  \cup {Plain(op, <<x0>>) : op \in DOMAIN Unary} \cup {N("address", <<"x">>, <<0>>, <<>>)}
Primaries ==
  {N("funcall", <<"f">>, <<0>>, <<x0, Num(1)>>), Plain("dot", <<x0, Sym("a")>>), Plain("index", <<x0, Num(1)>>),
   Plain("dot", <<x0, N("funcall", <<"f">>, <<0>>, <<>>)>>), Plain("nonnull", <<x0>>),
   Plain("slice", <<x0, Nil, Num(1)>>), Plain("slice", <<x0, Num(0), Nil>>), Plain("typeassert", <<x0, NamedType("i64")>>),
   Plain("arrlit", <<Num(1), Num(7)>>), N("stlit", <<"f">>, <<0>>, <<N("stfield", <<"a">>, <<0>>, <<Num(1)>>)>>),
   Plain("ownedpromo", <<x0>>), N("str", <<"a", "b">>, <<0>>, <<>>), N("byte", <<"a">>, <<0>>, <<>>),
   N("funcall", <<"f">>, <<0>>, <<Plain("variadic_forward", <<x0>>)>>)}
Small == Flat \cup Primaries
Exprs1 ==
  Small \cup Leaves
  \cup {Plain(op, <<e, Sym("y")>>) : op \in Operators, e \in Small}
  \cup {Plain(op, <<Sym("y"), e>>) : op \in Operators, e \in Small}
  \cup {Plain(op, <<e>>) : op \in DOMAIN Unary, e \in Small}
  \cup {Plain("index", <<e, x0>>) : e \in Flat \cup {Plain("dot", <<x0, Sym("a")>>)}}
  \cup {Plain("index", <<x0, e>>) : e \in Small}
  \cup {Plain("address", <<e>>) : e \in {Plain("dot", <<x0, Sym("a")>>), Plain("index", <<x0, Num(1)>>)}}
  \cup {Plain("nonnull", <<Plain("dot", <<e, Sym("a")>>)>>) : e \in Flat}

Void == NamedType("void")
Arg(s, k, ty) == N("arg", <<s>>, <<k>>, <<ty>>)
Blk(ss) == Plain("block", ss)
Fn(ps, ret, body) == N("fn", <<"main">>, <<Len(ps)>>, ps \o <<ret, body>>)
InFn(ss) == Fn(<<>>, Void, Blk(ss))
Two(tys) == ReturnNode(tys)

Set(e) == Plain("eq", <<Sym("y"), e>>)
Call == N("funcall", <<"f">>, <<0>>, <<x0>>)
Statements ==
  {Set(Sym("b")), Call, Plain("return", <<>>), Plain("return", <<x0, Num(1)>>), Plain("break", <<>>),
   N("dispose", <<"x">>, <<0>>, <<>>), Bind(<<"a">>, TRUE, <<Infer, Num(7)>>), Bind(<<"a">>, FALSE, <<NamedType("i64")>>),
   Bind(<<"a">>, TRUE, <<TN(<<"i64">>, 1, NoQ, <<>>), x0>>),
   Plain("multibind", <<Bind(<<"a">>, TRUE, <<Infer>>), Bind(<<"b">>, FALSE, <<Infer>>), Call>>),
   N("multibind", <<>>, <<1>>, <<x0, Plain("index", <<x0, Num(1)>>), Call>>),
   Plain("if", <<x0, Blk(<<Call>>), Plain("if", <<Sym("b"), Blk(<<>>), Blk(<<Set(x0)>>)>>)>>),
   Plain("if", <<x0, Plain("if", <<Sym("b"), Blk(<<>>), Blk(<<Call>>)>>)>>),
   Plain("for", <<Set(Num(0)), Plain("lt", <<Sym("y"), Num(7)>>), Plain("none", <<>>), Blk(<<Plain("continue", <<>>)>>)>>),
   N("typeswitch", <<"a">>, <<0>>, <<x0, Plain("typecase", <<NamedType("i64"), Blk(<<Call>>)>>),
                                        N("typecase", <<>>, <<1>>, <<Blk(<<>>)>>)>>),
   Set(Plain("add", <<Plain("mul", <<x0, Sym("b")>>), Call>>))}
Decls ==
  {N("import", <<"a">>, <<0>>, <<>>), Bind(<<"a">>, TRUE, <<NamedType("i64"), Num(1)>>), Bind(<<"a">>, FALSE, <<NamedType("i64")>>)}
  \cup {N("typedecl", <<"x">>, <<0>>, <<ty>>) : ty \in Types}
  \cup {Fn(<<Arg("a", 0, ty), Arg("b", 1, NamedType("i64"))>>, ret, Blk(<<Call>>)) :
          ty \in Types, ret \in {Void, NamedType("i64"), Two(<<NamedType("i64"), TN(<<"i64">>, 1, NoQ, <<>>)>>)}}
  \cup {Fn(<<Arg("a", 2, TN(<<"byte">>, 0, NoQ, <<Plain("slice", <<>>)>>))>>, Void, Blk(<<>>)),
        N("typedecl_with_methods", <<"x">>, <<0>>, <<NamedType("i64"), Fn(<<>>, NamedType("i64"), Blk(<<Plain("return", <<x0>>)>>)), InFn(<<>>)>>),
        N("valuesdecl", <<"x">>, <<0>>, <<N("valuescase", <<"a">>, <<0>>, <<>>), N("valuescase", <<"b">>, <<0>>, <<>>), InFn(<<>>)>>),
        N("valuesdecl", <<"x">>, <<2>>, <<NamedType("i64"), NamedType("byte"), N("valuescase", <<"a">>, <<0>>, <<Num(1), x0>>),
                                         N("valuescase", <<"b">>, <<0>>, <<Num(7), Call>>)>>),
        N("interface_decl", <<"x">>, <<0>>,
          <<N("interface_method", <<"f">>, <<1>>, <<Arg("a", 0, NamedType("i64")), Void>>),
            N("interface_method", <<"y">>, <<1>>, <<Arg("a", 0, TN(<<"i64">>, 1, NoQ, <<>>)),
                Two(<<TN(<<"i64">>, 1, NoQ, <<>>), NamedType("i64")>>), Plain("from", <<Sym("a")>>), Plain("from", <<>>)>>)>>)}
Pubs == {d \in Decls : d.t # "import"}

(***************************************************************************)
(* Sources.                                                                *)
(***************************************************************************)
Blank == <<" ">>
Newline == <<"\n">>
Comment == <<" ", "/", "/", " ", "x", "(", "\n">>

File(words, gaps, want) == [mode |-> "file", words |-> words, gaps |-> gaps, want |-> want]
Spaced(words, want) == File(words, [i \in DOMAIN words |-> Blank], want)
Tree(n, pub) == <<[n |-> n, pub |-> pub]>>

(* Every place where a line may be broken without ending a statement, and  *)
(* every semicolon a newline can stand for.  In LaidOut a comment stands   *)
(* before no bracket; in Commented it does.                                *)
Breakable(s, i) == OpenBefore(s, i) > 0 \/ ~isStatementEnder(WordKind(s.words[i - 1]))
Broken(s, gap) ==
  {[s EXCEPT !.gaps[i] = gap] : i \in {j \in 2 .. Len(s.words) :
     Breakable(s, j) /\ (gap = Comment => WordKind(s.words[j]) \notin {"(", ")", "[", "]"})}}
DropAt(ws, i) == SubSeq(ws, 1, i - 1) \o SubSeq(ws, i + 1, Len(ws))
Newlined(s) ==
  {[s EXCEPT !.words = DropAt(s.words, i), !.gaps = [DropAt(s.gaps, i) EXCEPT ![i] = Newline]] :
     i \in {j \in 2 .. Len(s.words) : /\ s.words[j] = <<";">> /\ OpenBefore(s, j) = 0
                                      /\ isStatementEnder(WordKind(s.words[j - 1]))}}

InFile(S) == {Spaced(Pr(InFn(<<Set(e)>>)), Tree(InFn(<<Set(e)>>), FALSE)) : e \in S}
ExprFiles == InFile(Exprs1)
StatementFiles == {Spaced(Pr(InFn(<<s1, s2>>)), Tree(InFn(<<s1, s2>>), FALSE)) : s1 \in Statements, s2 \in Statements}
DeclFiles == {Spaced(Pr(d), Tree(d, FALSE)) : d \in Decls} \cup {Spaced(W("pub") \o Pr(d), Tree(d, TRUE)) : d \in Pubs}
  \cup {Spaced(Pr(d) \o W(";") \o Pr(Fn(<<>>, Void, Blk(<<>>))), Tree(d, FALSE) \o Tree(InFn(<<>>), FALSE)) : d \in Decls}
Bases == {s \in StatementFiles : s.want[1].n.args[2].args[1] = Set(Sym("b"))} \cup {Spaced(Pr(d), Tree(d, FALSE)) : d \in Decls}
Commented ==
  UNION {{[s EXCEPT !.gaps[i] = Comment] : i \in {j \in 2 .. Len(s.words) : Breakable(s, j)}} : s \in Bases}
LaidOut == UNION {Broken(s, Newline) \cup Broken(s, Comment) : s \in Bases} \cup UNION {Newlined(s) : s \in StatementFiles}

Literals == {<<<<"0", "x", "f", "f">>, 255>>, <<<<"0", "x", "1", "0", "0">>, 256>>, <<<<"0", "b", "1", "1">>, 3>>,
             <<<<"0", "o", "1", "7">>, 15>>, <<<<"1", "9">>, 19>>, <<<<"7", ".", "9">>, 7>>, <<<<"9", "9", "9">>, 999>>}
NumberFiles ==
  {LET want == IF l[2] > MaxNumber THEN Rejected ELSE Tree(Bind(<<"a">>, TRUE, <<Infer, Num(l[2])>>), FALSE)
   IN  Spaced(W("a") \o Spelled(":=") \o <<l[1]>>, want) : l \in Literals}
Bad == {Spaced(Ws(ws), Rejected) : ws \in
  {<<"pub", "import", "x">>, <<"type", "x", "values", "(", "i64", ")", "{", "a", "}">>, <<"pub", "a">>, <<"a", ".", ".">>,
   <<"fn", "main", "(", "a", "mut", "i64", ")", "{", "}">>, <<"f", "(", "x", "...", ",", "y", ")">>, <<"&", "(", "x", ")">>}}

(***************************************************************************)
(* Types: every one that a declaration can spell with up to two pointers,  *)
(* a group and two suffixes, as parseTypeName reads it.  A value that may  *)
(* be null is an interface, so only a name has that mark.                  *)
(***************************************************************************)
Stars == {Ws(<<"*">>), Ws(<<"*?">>), Ws(<<"*", "mut">>), Ws(<<"*", "owned">>)}
Befores == {<<>>, W("owned"), W("mut")} \cup Stars \cup {W("owned") \o s : s \in Stars} \cup {s \o r : s \in Stars, r \in Stars}
Afters == {<<>>, Ws(<<"[", "]">>), Ws(<<"[", "7", "]">>), Ws(<<"[", "]", "[", "]">>), Ws(<<"[", "]", "[", "7", "]">>)}
Inner ==
  {p \o W("i64") \o s : p \in {<<>>, W("mut"), W("owned"), W("*"), Ws(<<"*", "mut">>)}, s \in {<<>>, Ws(<<"[", "]">>), Ws(<<"[", "7", "]">>)}}
    \cup {Ws(<<"fn", "(", "i64", ")">>), Ws(<<"struct", "{", "a", "i64", "}">>)}
Spellings ==
  {p \o Ws(<<"?", "i64">>) : p \in {<<>>} \cup Stars} \cup {p \o W("i64") \o s : p \in Befores, s \in Afters} \cup {p \o W("(") \o t \o W(")") : p \in Befores, t \in Inner}
  \cup {Ws(<<"fn", "(">>) \o t \o W(")") \o r : t \in Inner, r \in {<<>>} \cup Inner}
  \cup {Ws(<<w, "{", "a">>) \o t \o Ws(<<";", "b">>) \o r \o W("}") : t \in Inner, r \in Inner, w \in {"struct", "multiretu"}}

Read(ws) == Parse("typename", FALSE, Append([i \in DOMAIN ws |-> Lex(ws[i]).tok], Token("none")))
Spelt(S) == {mkTypename(x.v) : x \in {y \in {Read(ws) : ws \in S} : y.ok /\ Len(y.r) = 1}}
TypeFiles == {[mode |-> "type", words |-> <<TypeString(t)>>, gaps |-> <<<<>>>>, want |-> t] : t \in Spelt(Spellings)}

SliceOf(t) == [Simple(<<>>) EXCEPT !.Elem = <<t>>]
SigFiles ==
  {[mode |-> "functype", gaps |-> <<<<>>>>, want |-> [Args |-> <<[type |-> a, variadic |-> FALSE], [type |-> SliceOf(b), variadic |-> TRUE]>>, Return |-> r],
    words |-> <<<<"fn", "(">> \o TypeString(a) \o <<",", ".", ".", ".">> \o TypeString(b) \o <<")">>
                 \o (IF r = Simple(<<"void">>) THEN <<>> ELSE <<" ">> \o TypeString(r))>>] :
     a \in Spelt(Inner), b \in Spelt(Inner), r \in {Simple(<<"i64">>), Simple(<<"void">>)}}

Inputs == ExprFiles \cup StatementFiles \cup DeclFiles \cup LaidOut \cup NumberFiles \cup Bad \cup TypeFiles \cup SigFiles

(***************************************************************************)
(* Expressions as DESIGN.md ranks their operators, with Rankings =         *)
(* Documented.                                                             *)
(***************************************************************************)
BitsAndComparisons ==
  LET ops == {"bitand", "bitor", "deq", "lt"} IN
  InFile({Plain(op, <<Plain(o, <<x0, Sym("b")>>), Sym("y")>>) : op \in ops, o \in ops}
           \cup {Plain(op, <<Sym("y"), Plain(o, <<x0, Sym("b")>>)>>) : op \in ops, o \in ops})
UnaryAndOthers ==
  LET places == {Plain("dot", <<x0, Sym("a")>>), Plain("index", <<x0, Num(1)>>)} IN
  InFile({Plain(u, <<e>>) : u \in DOMAIN Unary, e \in Flat \cup places}
           \cup {Plain(op, <<Plain(u, <<x0>>), Sym("b")>>) : op \in {"mul", "div", "add"}, u \in DOMAIN Unary})
=============================================================================
