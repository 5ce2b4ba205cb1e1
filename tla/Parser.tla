------------------------------- MODULE Parser -------------------------------
(***************************************************************************)
(* The recursive-descent parser of cmd/bosc/parser.go, one operator per    *)
(* function of the source.  A parse function takes the tokens that are     *)
(* left, the last of them of kind "none", and returns [ok, v, r]: whether  *)
(* it ended without a panic, its result and the tokens left after it.  The *)
(* parameter h is the field inTypeSwitchHead.                              *)
(*                                                                         *)
(* A node is [t, s, i, args]: its nodetype without the prefix, its name,   *)
(* its number (ival and the masks of a type, in a tuple) and its children. *)
(***************************************************************************)
EXTENDS Lexer

N(t, s, i, args) == [t |-> t, s |-> s, i |-> i, args |-> args]
Nil == N("nil", <<>>, <<0>>, <<>>)
Plain(t, args) == N(t, <<>>, <<0>>, args)

OK(v, r) == [ok |-> TRUE, v |-> v, r |-> r, eof |-> FALSE]
Panic == [ok |-> FALSE, v |-> Nil, r |-> <<>>, eof |-> FALSE]
eofError == [Panic EXCEPT !.eof = TRUE]
Then(x, F(_, _)) == IF x.ok THEN F(x.v, x.r) ELSE x

T(ts) == Head(ts).t
advance(ts) == IF Len(ts) = 1 THEN ts ELSE Tail(ts)
Second(ts) == T(advance(ts))
expect(t, ts, v) == IF T(ts) = t THEN OK(v, advance(ts)) ELSE Panic

(* A parsed item, then the token that must follow it.                      *)
Closed(x, t) == Then(x, LAMBDA v, r : expect(t, r, v))
(* Semicolons before an item.                                              *)
RECURSIVE skip(_)
skip(ts) == IF T(ts) = ";" THEN skip(advance(ts)) ELSE ts

parseTok(ts) ==
  LET c == Head(ts) IN
  CASE c.t = "number" -> OK(N("number", <<>>, <<c.n>>, <<>>), advance(ts))
    [] c.t = "str" -> OK(N("str", c.s, <<0>>, <<>>), advance(ts))
    [] c.t = "byte" -> OK(N("byte", c.s, <<0>>, <<>>), advance(ts))
    [] c.t = "ident" -> OK(N("symbol", c.s, <<0>>, <<>>), advance(ts))
    [] OTHER -> Panic
Name(ts) == IF T(ts) = "ident" THEN parseTok(ts) ELSE Panic

(* The parse functions call each other through Parse, which names the      *)
(* function.                                                               *)
RECURSIVE Parse(_, _, _)

(***************************************************************************)
(* Types.  The masks are sets of bit positions.                            *)
(***************************************************************************)
TN(s, ind, q, args) == N("typename", s, <<ind, q.mut, q.own, q.nil>>, args)
NoQ == [mut |-> {}, own |-> {}, nil |-> {}]
NamedType(s) == TN(<<s>>, 0, NoQ, <<>>)
Simple(s) == [Name |-> s, Ind |-> 0, q |-> NoQ, Elem |-> <<>>, Size |-> 0, Sig |-> <<>>, Fields |-> <<>>, Multi |-> FALSE]

isTypeStart(t) == t \in {"ident", "fn", "*", "*?", "owned", "mut", "struct"}

RECURSIVE mkTypename(_)
mkTypename(n) ==
  LET fields == [i \in DOMAIN n.args |-> <<n.args[i].s, mkTypename(n.args[i].args[1])>>]
      masks == [mut |-> n.i[2], own |-> n.i[3], nil |-> n.i[4]]
      base == [Simple(n.s) EXCEPT !.Ind = n.i[1], !.q.nil = n.i[4]]
      wrap(t, w) == [Simple(<<>>) EXCEPT !.Elem = <<t>>, !.Size = IF w.t = "index" THEN w.i[1] ELSE 0]
  IN  CASE n.s \in {<<"<struct>">>, <<"<multiretu>">>} ->
             [Simple(<<>>) EXCEPT !.Fields = fields, !.Multi = n.s = <<"<multiretu>">>]
        [] n.s = <<"<prebuilt>">> -> n.i[2]
        [] n.s = <<"fn">> -> [Simple(<<>>) EXCEPT !.Sig = [i \in DOMAIN n.args |-> mkTypename(n.args[i])], !.q = masks]
        [] n.args = <<>> -> [base EXCEPT !.q = masks]
        [] OTHER -> [FoldLeft(wrap, base, n.args) EXCEPT !.q.mut = n.i[2], !.q.own = n.i[3]]

(* The type inside parentheses under the pointers and masks before them.   *)
Layered(inner, ind, q) ==
  LET up(S, more) == {b + ind : b \in S} \cup more
  IN  [inner EXCEPT !.Ind = @ + ind, !.q = [mut |-> up(inner.q.mut, q.mut), own |-> up(inner.q.own, q.own),
                                           nil |-> up(inner.q.nil, q.nil)]]

(* What follows the name of a type, and how its masks are settled.         *)
RECURSIVE Wrappers(_, _)
Wrappers(ts, acc) ==
  IF T(ts) # "[" THEN OK(acc, ts)
  ELSE LET ts1 == advance(ts) IN
       IF T(ts1) = "]" THEN Wrappers(advance(ts1), Append(acc, Plain("slice", <<>>)))
       ELSE IF T(ts1) = "number" /\ Second(ts1) = "]"
       THEN Wrappers(advance(advance(ts1)), Append(acc, N("index", <<>>, <<Head(ts1).n>>, <<>>)))
       ELSE Panic

TypeOf(s, ind, q, wrappers, r) ==
  LET raise(S) == IF ind \in S THEN (S \ {ind}) \cup {ind + 1} ELSE S IN
  CASE wrappers = <<>> -> IF ind = 0 /\ q.mut # {} THEN Panic ELSE OK(TN(s, ind, q, <<>>), r)
    [] wrappers # <<>> /\ Last(wrappers).t = "slice" ->
         OK(TN(s, ind, [q EXCEPT !.mut = raise(@), !.own = raise(@)], wrappers), r)
    [] OTHER -> IF ind \in q.mut THEN Panic ELSE OK(TN(s, ind, q, wrappers), r)

RECURSIVE Prefix(_, _, _), FieldTypes(_, _), TypeList(_, _)
FieldTypes(ts, acc) ==
  CASE T(ts) = "}" -> OK(acc, ts)
    [] T(ts) \in {";", ","} -> FieldTypes(advance(ts), acc)
    [] OTHER -> Then(Name(ts), LAMBDA f, r :
                  Then(Parse("typename", FALSE, IF T(r) = ":" THEN advance(r) ELSE r), LAMBDA ty, r2 :
                    FieldTypes(r2, Append(acc, N("stfield", f.s, <<0>>, <<ty>>)))))

TypeList(ts, acc) ==
  CASE T(ts) = ")" -> OK(acc, ts)
    [] T(ts) = ";" -> TypeList(advance(ts), acc)
    [] OTHER -> Then(Parse("typename", FALSE, ts), LAMBDA ty, r :
                  IF T(r) \in {",", ";"} THEN TypeList(advance(r), Append(acc, ty)) ELSE OK(Append(acc, ty), r))

BaseType(ts, ind, q) ==
  CASE T(ts) = "struct" \/ (T(ts) = "ident" /\ Head(ts).s = <<"multiretu">>) ->
         Then(expect("{", advance(ts), Nil), LAMBDA x, r :
           Then(Closed(FieldTypes(r, <<>>), "}"), LAMBDA fs, r2 :
             OK(TN(IF T(ts) = "struct" THEN <<"<struct>">> ELSE <<"<multiretu>">>, ind, q, fs), r2)))
    [] T(ts) = "fn" ->
         Then(expect("(", advance(ts), Nil), LAMBDA x, r :
           Then(Closed(TypeList(r, <<>>), ")"), LAMBDA as, r2 :
             Then(IF isTypeStart(T(r2)) THEN Parse("typename", FALSE, r2) ELSE OK(NamedType("void"), r2), LAMBDA ret, r3 :
               OK(TN(<<"fn">>, Len(as), NoQ, Append(as, ret)), r3))))
    [] T(ts) = "(" ->
         Then(Closed(Parse("typename", FALSE, advance(ts)), ")"), LAMBDA inner, r :
           OK(N("typename", <<"<prebuilt>">>, <<"pre", Layered(mkTypename(inner), ind, q)>>, <<>>), r))
    [] T(ts) = "ident" ->
         LET dotted == Second(ts) = "."
             r == IF dotted THEN advance(advance(ts)) ELSE advance(ts)
             s == IF dotted THEN Head(ts).s \o <<".">> \o Head(r).s ELSE Head(ts).s
         IN  IF dotted /\ T(r) # "ident" THEN Panic
             ELSE Then(Wrappers(IF dotted THEN advance(r) ELSE r, <<>>), LAMBDA ws, r2 : TypeOf(s, ind, q, ws, r2))
    [] OTHER -> Panic

(* Qualifiers and stars before the base type.                              *)
Prefix(ts, ind, q) ==
  CASE T(ts) = "owned" -> Prefix(advance(ts), ind, [q EXCEPT !.own = @ \cup {ind}])
    [] T(ts) = "mut" -> IF ind = 0 /\ Second(ts) = "*" THEN Panic
                        ELSE Prefix(advance(ts), ind, [q EXCEPT !.mut = @ \cup {ind}])
    [] T(ts) = "*" -> Prefix(advance(ts), ind + 1, q)
    [] T(ts) = "*?" -> Prefix(advance(ts), ind + 1, [q EXCEPT !.nil = @ \cup {ind}])
    [] T(ts) = "?" -> BaseType(advance(ts), ind, [q EXCEPT !.nil = @ \cup {ind}])
    [] OTHER -> BaseType(ts, ind, q)

parseTypeName(ts) == Prefix(ts, 0, NoQ)

(***************************************************************************)
(* Expressions, loosest first.  BinaryOps gives the operators of each      *)
(* level; operands are parsed by the next one.                             *)
(***************************************************************************)
BinaryOps ==
  [bool |-> ("&&" :> "booland") @@ ("||" :> "boolor"), bitor |-> ("|" :> "bitor"), bitand |-> ("&" :> "bitand"),
   compare |-> ("==" :> "deq") @@ ("!=" :> "neq") @@ ("<" :> "lt") @@ (">" :> "gt") @@ ("<=" :> "le") @@ (">=" :> "ge"),
   add |-> ("+" :> "add") @@ ("-" :> "sub"), mul |-> ("*" :> "mul") @@ ("/" :> "div")]

RECURSIVE parsePostfix(_, _, _), Chain(_, _, _, _), parseArgs(_, _, _), parseStructLiteral(_, _, _), Elements(_, _, _),
          Exprs(_, _, _), Block(_, _, _), TypeCases(_, _), parseParams(_, _), MoreTypes(_, _), MoreBindings(_, _),
          MoreTargets(_, _, _)

parseArgs(h, ts, acc) ==
  IF T(ts) = ")" THEN OK(acc, ts)
  ELSE Then(Parse("expression", h, ts), LAMBDA v, r :
         CASE T(r) = "..." -> IF Second(r) = ")" THEN OK(Append(acc, Plain("variadic_forward", <<v>>)), advance(r)) ELSE Panic
           [] T(r) = "," -> parseArgs(h, advance(r), Append(acc, v))
           [] OTHER -> OK(Append(acc, v), r))

Elements(h, ts, acc) ==
  CASE T(ts) = "]" -> OK(acc, ts)
    [] T(ts) = ";" -> Elements(h, advance(ts), acc)
    [] OTHER -> Then(Parse("expression", h, ts), LAMBDA v, r :
                  IF T(r) \in {",", ";"} THEN Elements(h, advance(r), Append(acc, v)) ELSE OK(Append(acc, v), r))
parseArrayLiteral(h, ts) ==
  Then(Closed(Elements(h, advance(ts), <<>>), "]"), LAMBDA es, r : OK(Plain("arrlit", es), r))

parseValue(h, ts) ==
  Then(IF T(ts) = "[" THEN parseArrayLiteral(h, ts) ELSE parseTok(ts), LAMBDA v, r : parsePostfix(h, v, r))

parseStructLiteral(h, ts, acc) ==
  CASE T(ts) = "}" -> OK(acc, ts)
    [] T(ts) = ";" -> parseStructLiteral(h, advance(ts), acc)
    [] OTHER -> Then(Parse("value", h, ts), LAMBDA f, r :
                  IF f.t # "symbol" THEN Panic
                  ELSE Then(expect(":", r, Nil), LAMBDA x, r1 : Then(Parse("expression", h, r1), LAMBDA v, r2 :
                         LET more == Append(acc, N("stfield", f.s, <<0>>, <<v>>)) IN
                         IF T(r2) \in {",", ";"} THEN parseStructLiteral(h, advance(r2), more) ELSE OK(more, r2))))

(* The bounds of a slice, either of which may be left out, or an index.    *)
parseIndexOrSlice(h, v, ts) ==
  LET upper(lo, r) == IF T(r) = "]" THEN OK(Plain("slice", <<v, lo, Nil>>), advance(r))
                      ELSE Then(Closed(Parse("expression", h, r), "]"), LAMBDA hi, r2 : OK(Plain("slice", <<v, lo, hi>>), r2))
  IN  IF T(ts) = ":" THEN upper(Nil, advance(ts))
      ELSE Then(Parse("expression", h, ts), LAMBDA lo, r :
             IF T(r) = ":" THEN upper(lo, advance(r)) ELSE expect("]", r, Plain("index", <<v, lo>>)))

(* The name a value spells when it can name a type: Name or pkg.Name.      *)
IsTypeIdent(v) == v.t = "symbol" \/ (v.t = "dot" /\ v.args[1].t = "symbol" /\ v.args[2].t = "symbol")
TypeIdent(v) == IF v.t = "symbol" THEN v.s ELSE v.args[1].s \o <<".">> \o v.args[2].s

parsePostfix(h, v, ts) ==
  LET ts1 == advance(ts)
      call(build(_)) == Then(Closed(parseArgs(h, ts1, <<>>), ")"), LAMBDA as, r : parsePostfix(h, build(as), r))
  IN
  CASE T(ts) = "." /\ ~h /\ T(ts1) = "(" ->
         Then(Closed(Parse("typename", FALSE, advance(ts1)), ")"), LAMBDA ty, r : parsePostfix(h, Plain("typeassert", <<v, ty>>), r))
    [] T(ts) = "." /\ ~h /\ T(ts1) # "(" ->
         Then(Name(ts1), LAMBDA m, r : parsePostfix(h, Plain("dot", <<v, m>>), r))
    [] T(ts) = "[" /\ T(ts1) = "]" ->
         IF Second(ts1) # "(" \/ ~IsTypeIdent(v) THEN Panic
         ELSE Then(Closed(parseArgs(h, advance(advance(ts1)), <<>>), ")"), LAMBDA as, r :
                parsePostfix(h, N("funcall", TypeIdent(v) \o <<"[]">>, <<0>>, as), r))
    [] T(ts) = "[" /\ T(ts1) # "]" ->
         Then(parseIndexOrSlice(h, v, ts1), LAMBDA x, r : parsePostfix(h, x, r))
    [] T(ts) = "(" /\ v.t = "symbol" -> call(LAMBDA as : N("funcall", v.s, <<0>>, as))
    [] T(ts) = "(" /\ v.t = "dot" /\ v.args[2].t = "symbol" ->
         call(LAMBDA as : [v EXCEPT !.args[2] = N("funcall", @.s, <<0>>, as)])
    [] T(ts) = "{" /\ IsTypeIdent(v) ->
         Then(Closed(parseStructLiteral(h, ts1, <<>>), "}"), LAMBDA fs, r :
           parsePostfix(h, N("stlit", TypeIdent(v), <<0>>, fs), r))
    [] T(ts) = "?" -> parsePostfix(h, Plain("nonnull", <<v>>), ts1)
    [] OTHER -> OK(v, ts)

(* One operator level: the operand, then operators of the level, which     *)
(* take on their right what the next level parses.                         *)
Operand(level, h, ts) ==
  LET next == [mul |-> "parens", add |-> "mul", compare |-> "add", bitand |-> "compare", bitor |-> "bitand", bool |-> "bitor"]
  IN  Parse(next[level], h, ts)
Chain(level, h, v, ts) ==
  LET ops == BinaryOps[level] IN
  IF T(ts) \notin DOMAIN ops THEN OK(v, ts)
  ELSE Then(Operand(level, h, advance(ts)), LAMBDA w, r : Chain(level, h, Plain(ops[T(ts)], <<v, w>>), r))

(* Mutant of parseSubexpr: multiplication groups to the right.             *)
RightToLeft(h, ts) ==
  Then(Parse("parens", h, ts), LAMBDA v, r :
    IF T(r) \notin {"*", "/"} THEN OK(v, r)
    ELSE Then(Parse("mul", h, advance(r)), LAMBDA w, r2 : OK(Plain(BinaryOps.mul[T(r)], <<v, w>>), r2)))

parseSubexpr(h, ts) == Then(Parse("parens", h, ts), LAMBDA v, r : Chain("mul", h, v, r))
parseAddSub(h, ts) == Then(Parse("unary", h, ts), LAMBDA v, r : Chain("add", h, v, r))
parseCompare(h, ts) == Then(Parse("add", h, ts), LAMBDA v, r : Chain("compare", h, v, r))
parseBitAnd(h, ts) == Then(Parse("compare", h, ts), LAMBDA v, r : Chain("bitand", h, v, r))
parseBitOr(h, ts) == Then(Parse("bitand", h, ts), LAMBDA v, r : Chain("bitor", h, v, r))
parseBoolOp(h, ts) == Then(Parse("bitor", h, ts), LAMBDA v, r : Chain("bool", h, v, r))

parseUnary(h, ts) ==
  LET ops == ("*" :> "deref") @@ ("-" :> "neg") @@ ("!" :> "not") IN
  CASE T(ts) \in DOMAIN ops -> Then(Parse("unary", h, advance(ts)), LAMBDA v, r : OK(Plain(ops[T(ts)], <<v>>), r))
    [] T(ts) = "&" -> Then(Parse("value", h, advance(ts)), LAMBDA v, r :
                        OK(IF v.t = "symbol" THEN N("address", v.s, <<0>>, <<>>) ELSE Plain("address", <<v>>), r))
    [] OTHER -> Parse("mul", h, ts)

(***************************************************************************)
(* Control flow, blocks and functions.                                     *)
(***************************************************************************)
parseIf(h, ts) ==
  Then(expect("(", advance(ts), Nil), LAMBDA x, r :
    Then(Closed(Parse("expression", h, r), ")"), LAMBDA c, r1 : Then(Parse("expression", h, r1), LAMBDA th, r2 :
      IF T(r2) # "else" THEN OK(Plain("if", <<c, th>>), r2)
      ELSE Then(Parse("expression", h, advance(r2)), LAMBDA el, r3 : OK(Plain("if", <<c, th, el>>), r3)))))

parseFor(h, ts) ==
  LET part(stop, r) == IF T(r) = stop THEN OK(Plain("none", <<>>), r) ELSE Parse("expression", h, r) IN
  Then(expect("(", advance(ts), Nil), LAMBDA x, r :
    Then(Closed(part(";", r), ";"), LAMBDA a, r1 : Then(Closed(part(";", r1), ";"), LAMBDA b, r2 :
      Then(Closed(part(")", r2), ")"), LAMBDA c, r3 : Then(Parse("expression", h, r3), LAMBDA body, r4 :
        OK(Plain("for", <<a, b, c, body>>), r4))))))

TypeCases(ts, acc) ==
  CASE T(ts) = ";" -> TypeCases(advance(ts), acc)
    [] T(ts) = "case" -> Then(Parse("typename", FALSE, advance(ts)), LAMBDA ty, r : Then(Parse("expression", FALSE, r), LAMBDA b, r2 :
                           TypeCases(r2, Append(acc, Plain("typecase", <<ty, b>>)))))
    [] T(ts) = "default" -> Then(Parse("expression", FALSE, advance(ts)), LAMBDA b, r :
                              TypeCases(r, Append(acc, N("typecase", <<>>, <<1>>, <<b>>))))
    [] T(ts) = "}" -> OK(acc, ts)
    [] OTHER -> Panic

parseTypeSwitch(ts) ==
  Then(expect("(", advance(ts), Nil), LAMBDA x, r : Then(Name(r), LAMBDA bind, r1 :
    Then(Parse("mul", TRUE, r1), LAMBDA val, r2 :
      LET head == SubSeq(r2, 1, IF Len(r2) < 6 THEN Len(r2) ELSE 6) IN
      IF [i \in DOMAIN head |-> head[i].t] # <<".", "(", "type", ")", ")", "{">> THEN Panic
      ELSE Then(Closed(TypeCases(SubSeq(r2, 7, Len(r2)), <<val>>), "}"), LAMBDA as, r3 :
             OK(N("typeswitch", bind.s, <<0>>, as), r3)))))

parseParams(ts, acc) ==
  IF T(ts) = ")" THEN OK(acc, ts)
  ELSE LET isVar == T(ts) = "var" IN
       Then(Name(IF isVar THEN advance(ts) ELSE ts), LAMBDA v, r :
         LET variadic == T(r) = "..." IN
         Then(Parse("typename", FALSE, IF variadic THEN advance(r) ELSE r), LAMBDA ty, r2 :
           LET ty2 == IF variadic THEN [ty EXCEPT !.args = Append(@, Plain("slice", <<>>))] ELSE ty
               more == Append(acc, N("arg", v.s, <<(IF isVar THEN 1 ELSE 0) + (IF variadic THEN 2 ELSE 0)>>, <<ty2>>))
           IN  IF variadic /\ ty.s \in {<<"fn">>, <<"<struct>">>, <<"<multiretu>">>} THEN Panic
               ELSE IF T(r2) = "," THEN parseParams(advance(r2), more) ELSE OK(more, r2)))

(* One return type, or several gathered in a struct of positions.          *)
Slot(k, ty) == N("stfield", <<"_", ToString(k)>>, <<0>>, <<ty>>)
MoreTypes(ts, acc) ==
  IF T(ts) # "," THEN OK(acc, ts)
  ELSE Then(Parse("typename", FALSE, advance(ts)), LAMBDA ty, r : MoreTypes(r, Append(acc, ty)))
ReturnNode(tys) ==
  IF Len(tys) = 1 THEN tys[1] ELSE TN(<<"<multiretu>">>, 0, NoQ, [i \in DOMAIN tys |-> Slot(i - 1, tys[i])])

(* Also parseFn after the keyword fn.                                      *)
parseMethodDef(ts) ==
  Then(Name(ts), LAMBDA f, r : Then(expect("(", r, Nil), LAMBDA x, r1 :
    Then(Closed(parseParams(r1, <<>>), ")"), LAMBDA ps, r2 :
      Then(IF T(r2) = "{" THEN OK(<<NamedType("void")>>, r2)
           ELSE Then(Parse("typename", FALSE, r2), LAMBDA ty, r3 : MoreTypes(r3, <<ty>>)), LAMBDA tys, r3 :
        Then(Parse("expression", FALSE, r3), LAMBDA body, r4 :
          OK(N("fn", f.s, <<Len(ps)>>, ps \o <<ReturnNode(tys), body>>), r4))))))
parseFn(ts) == Parse("method", FALSE, advance(ts))

Block(h, ts, acc) ==
  CASE T(ts) = "}" -> OK(Plain("block", acc), advance(ts))
    [] T(ts) = ";" -> Block(h, advance(ts), acc)
    [] OTHER -> Then(Parse("statement", h, ts), LAMBDA v, r : Block(h, r, Append(acc, v)))

Exprs(h, ts, acc) ==
  IF T(ts) # "," THEN OK(acc, ts) ELSE Then(Parse("expression", h, advance(ts)), LAMBDA v, r : Exprs(h, r, Append(acc, v)))

parseParens(h, ts) ==
  LET ts1 == advance(ts)
      body == skip(ts1)
  IN
  CASE T(ts) = "(" -> Then(Closed(Parse("expression", h, ts1), ")"), LAMBDA v, r : parsePostfix(h, v, r))
    [] T(ts) = "{" /\ T(body) = "ident" /\ Second(body) = ":" ->
         Then(Closed(parseStructLiteral(h, body, <<>>), "}"), LAMBDA fs, r : OK(N("stlit", <<>>, <<0>>, fs), r))
    [] T(ts) = "{" /\ ~(T(body) = "ident" /\ Second(body) = ":") -> Block(h, body, <<>>)
    [] T(ts) = "if" -> parseIf(h, ts)
    [] T(ts) = "for" -> parseFor(h, ts)
    [] T(ts) = "switch" -> parseTypeSwitch(ts)
    [] T(ts) \in {"break", "continue"} -> OK(Plain(T(ts), <<>>), ts1)
    [] T(ts) = "return" ->
         IF T(ts1) \in {"}", ";"} THEN OK(Plain("return", <<>>), ts1)
         ELSE Then(Parse("expression", h, ts1), LAMBDA v, r : Then(Exprs(h, r, <<v>>), LAMBDA vs, r2 : OK(Plain("return", vs), r2)))
    [] T(ts) = "fn" -> parseFn(ts)
    [] T(ts) = "owned" ->
         Then(expect("(", ts1, Nil), LAMBDA x, r : Then(Closed(Parse("expression", h, r), ")"), LAMBDA v, r2 :
           OK(Plain("ownedpromo", <<v>>), r2)))
    [] T(ts) = "dispose" ->
         Then(expect("(", ts1, Nil), LAMBDA x, r : Then(Closed(Name(r), ")"), LAMBDA v, r2 :
           OK(N("dispose", v.s, <<0>>, <<>>), r2)))
    [] OTHER -> Parse("value", h, ts)

(***************************************************************************)
(* Declarations, assignments and statements.                               *)
(***************************************************************************)
Infer == NamedType("<infer>")
Bind(s, isConst, args) == N("var", s, <<IF isConst THEN 1 ELSE 0>>, args)

(* A name and its type, up to the initializer.                             *)
parseBindingSpec(isConst, ts) ==
  Then(Name(ts), LAMBDA v, r :
    IF T(r) \in {":=", ","} THEN OK(Bind(v.s, isConst, <<Infer>>), r)
    ELSE Then(Parse("typename", FALSE, r), LAMBDA ty, r2 : OK(Bind(v.s, isConst, <<ty>>), r2)))

parseBindingDecl(isConst, ts) ==
  Then(parseBindingSpec(isConst, ts), LAMBDA b, r :
    IF T(r) # ":=" THEN OK(b, r)
    ELSE Then(Parse("expression", FALSE, advance(r)), LAMBDA v, r2 : OK([b EXCEPT !.args = Append(@, v)], r2)))

MoreBindings(ts, acc) ==
  IF T(ts) # "," THEN OK(acc, ts)
  ELSE LET isVar == Second(ts) = "var" IN
       Then(parseBindingSpec(~isVar, IF isVar THEN advance(advance(ts)) ELSE advance(ts)), LAMBDA b, r :
         MoreBindings(r, Append(acc, b)))

parseMultiBind(first, ts) ==
  Then(Closed(MoreBindings(ts, <<first>>), ":="), LAMBDA bs, r :
    Then(Parse("expression", FALSE, r), LAMBDA v, r2 : OK(Plain("multibind", Append(bs, v)), r2)))

Declaration(isConst, ts) ==
  Then(parseBindingDecl(isConst, ts), LAMBDA b, r :
    IF Len(b.args) = 1 /\ T(r) = "," THEN parseMultiBind(b, r) ELSE OK(b, r))

(* Whether the tokens begin a declaration without a keyword.               *)
startsBareDecl(ts) ==
  LET a == Second(ts)
      b == Second(advance(ts))
  IN  /\ T(ts) = "ident"
      /\ \/ a \in {":=", "ident", "owned", "mut", "fn", "*", "*?"}
         \/ a = "?" /\ b \in {"ident", "owned", "mut", "fn", "*", "?", "*?"}

asBindingSpec(v) == IF v.t = "symbol" THEN Bind(v.s, TRUE, <<Infer>>) ELSE v

MoreTargets(h, ts, acc) ==
  IF T(ts) # "," THEN OK(acc, ts)
  ELSE LET r == advance(ts) IN
       Then(CASE T(r) = "var" -> parseBindingSpec(FALSE, advance(r))
              [] T(r) # "var" /\ startsBareDecl(r) -> parseBindingSpec(TRUE, r)
              [] OTHER -> Parse("bool", h, r),
            LAMBDA v, r2 : MoreTargets(h, r2, Append(acc, v)))

parseStatement(h, ts) ==
  IF startsBareDecl(ts) THEN Declaration(TRUE, ts)
  ELSE Then(Parse("expression", h, ts), LAMBDA first, r :
         IF T(r) # "," THEN OK(first, r)
         ELSE Then(MoreTargets(h, r, <<first>>), LAMBDA vs, r2 :
                CASE T(r2) = ":=" /\ \A i \in DOMAIN vs : vs[i].t \in {"var", "symbol"} ->
                       Then(Parse("expression", h, advance(r2)), LAMBDA v, r3 :
                         OK(Plain("multibind", Append([i \in DOMAIN vs |-> asBindingSpec(vs[i])], v)), r3))
                  [] T(r2) = "=" -> Then(Parse("expression", h, advance(r2)), LAMBDA v, r3 :
                                      OK(N("multibind", <<>>, <<1>>, Append(vs, v)), r3))
                  [] OTHER -> Panic))

parseExpression(h, ts) ==
  CASE T(ts) = "pub" -> Panic
    [] T(ts) = "var" -> Declaration(FALSE, advance(ts))
    [] T(ts) = "none" -> eofError
    [] OTHER -> Then(Parse("bool", h, ts), LAMBDA v, r :
                  IF T(r) # "=" THEN OK(v, r)
                  ELSE Then(Parse("expression", h, advance(r)), LAMBDA w, r2 : OK(Plain("eq", <<v, w>>), r2)))

(***************************************************************************)
(* Top-level declarations.                                                 *)
(***************************************************************************)
parseImport(ts) ==
  IF Second(ts) = "str" THEN OK(N("import", Head(advance(ts)).s, <<0>>, <<>>), advance(advance(ts))) ELSE Panic

RECURSIVE FromNames(_, _), SigReturns(_, _), Sigs(_, _), Methods(_, _), Projections(_, _), Cases(_, _, _)
FromNames(ts, acc) ==
  IF T(ts) = ")" THEN OK(acc, ts)
  ELSE Then(Name(ts), LAMBDA v, r :
         IF T(r) = "," THEN FromNames(advance(r), Append(acc, v)) ELSE OK(Append(acc, v), r))
parseFromClause(ts) ==
  IF T(ts) # "ident" \/ Head(ts).s # <<"from">> THEN OK(Plain("from", <<>>), ts)
  ELSE Then(expect("(", advance(ts), Nil), LAMBDA x, r :
         Then(Closed(FromNames(r, <<>>), ")"), LAMBDA ns, r2 : OK(Plain("from", ns), r2)))

(* The return slots of a signature, each with its from clause.             *)
SigReturns(ts, acc) ==
  Then(Parse("typename", FALSE, ts), LAMBDA ty, r : Then(parseFromClause(r), LAMBDA fc, r2 :
    LET slots == Append(acc, <<ty, fc>>) IN
    IF T(r2) = "," THEN SigReturns(advance(r2), slots) ELSE OK(slots, r2)))

parseInterfaceMethodSig(ts) ==
  Then(Name(ts), LAMBDA f, r : Then(expect("(", r, Nil), LAMBDA x, r1 :
    Then(Closed(parseParams(r1, <<>>), ")"), LAMBDA ps, r2 :
      Then(IF isTypeStart(T(r2)) THEN SigReturns(r2, <<>>) ELSE OK(<<<<NamedType("void"), Plain("from", <<>>)>>>>, r2),
           LAMBDA slots, r3 :
        LET froms == [i \in DOMAIN slots |-> slots[i][2]]
            tail == IF \A i \in DOMAIN froms : froms[i].args = <<>> THEN <<>> ELSE froms
        IN  OK(N("interface_method", f.s, <<Len(ps)>>,
                 ps \o <<ReturnNode([i \in DOMAIN slots |-> slots[i][1]])>> \o tail), r3)))))

Sigs(ts, acc) ==
  LET r == skip(ts) IN
  IF T(r) = "}" THEN OK(acc, r) ELSE Then(parseInterfaceMethodSig(r), LAMBDA g, r2 : Sigs(r2, Append(acc, g)))
parseInterfaceDecl(ts) ==
  Then(Closed(Name(advance(ts)), "{"), LAMBDA nm, r :
    Then(Closed(Sigs(r, <<>>), "}"), LAMBDA gs, r2 : OK(N("interface_decl", nm.s, <<0>>, gs), r2)))

Methods(ts, acc) ==
  LET r == skip(ts) IN
  IF T(r) = "}" THEN OK(acc, r) ELSE Then(Parse("method", FALSE, r), LAMBDA m, r2 : Methods(r2, Append(acc, m)))

Projections(ts, acc) ==
  IF T(ts) = ")" THEN OK(acc, ts)
  ELSE Then(Parse("typename", FALSE, ts), LAMBDA ty, r : Projections(IF T(r) = "," THEN advance(r) ELSE r, Append(acc, ty)))

(* A case: its name and, after a colon, an initializer per projection.     *)
Cases(ts, some, acc) ==
  LET named == Name(ts)
      value == IF T(advance(ts)) = ":"
               THEN Then(Parse("expression", FALSE, advance(advance(ts))), LAMBDA v, r : Exprs(FALSE, r, <<v>>))
               ELSE IF some THEN Panic ELSE OK(<<>>, advance(ts))
  IN  CASE T(ts) = "}" -> OK(acc, ts)
        [] T(ts) = ";" -> Cases(advance(ts), some, acc)
        [] OTHER -> Then(named, LAMBDA nm, r0 : Then(value, LAMBDA vs, r :
                      LET more == Append(acc, N("valuescase", nm.s, <<0>>, vs)) IN
                      IF T(r) \in {";", ","} THEN Cases(advance(r), some, more) ELSE OK(more, r)))

parseValuesDecl(name, ts) ==
  Then(IF T(ts) = "(" THEN Closed(Projections(advance(ts), <<>>), ")") ELSE OK(<<>>, ts), LAMBDA ps, r :
    Then(expect("{", r, Nil), LAMBDA x, r1 : Then(Closed(Cases(r1, ps # <<>>, <<>>), "}"), LAMBDA cs, r2 :
      Then(IF T(r2) = "{" THEN Closed(Methods(advance(r2), <<>>), "}") ELSE OK(<<>>, r2), LAMBDA ms, r3 :
        OK(N("valuesdecl", name, <<Len(ps)>>, ps \o cs \o ms), r3)))))

parseTypeDecl(ts) ==
  Then(Name(advance(ts)), LAMBDA nm, r :
    IF T(r) = "values" THEN parseValuesDecl(nm.s, advance(r))
    ELSE Then(Parse("typename", FALSE, r), LAMBDA base, r1 :
           IF T(r1) # "{" THEN OK(N("typedecl", nm.s, <<0>>, <<base>>), r1)
           ELSE Then(Closed(Methods(advance(r1), <<>>), "}"), LAMBDA ms, r2 :
                  OK(N("typedecl_with_methods", nm.s, <<0>>, <<base>> \o ms), r2))))

(* The node of a top-level declaration and its isPub.                      *)
Declared(x, isPub) == Then(x, LAMBDA v, r : OK([n |-> v, pub |-> isPub], r))
PubBinding(isConst, ts) ==
  Then(parseBindingDecl(isConst, ts), LAMBDA b, r : IF Len(b.args) = 1 /\ T(r) = "," THEN Panic ELSE OK(b, r))

parseTopLevel(ts0) ==
  LET isPub == T(ts0) = "pub"
      ts == IF isPub THEN advance(ts0) ELSE ts0
  IN  Declared(
        CASE T(ts) = "import" -> IF isPub THEN Panic ELSE parseImport(ts)
          [] T(ts) = "type" -> parseTypeDecl(ts)
          [] T(ts) = "interface" -> parseInterfaceDecl(ts)
          [] isPub /\ T(ts) = "fn" -> parseFn(ts)
          [] isPub /\ T(ts) = "var" -> PubBinding(FALSE, advance(ts))
          [] isPub /\ startsBareDecl(ts) -> PubBinding(TRUE, ts)
          [] ~isPub /\ startsBareDecl(ts) -> Declaration(TRUE, ts)
          [] ~isPub /\ ~startsBareDecl(ts) -> Parse("expression", FALSE, ts)
          [] OTHER -> Panic, isPub)

Parse(what, h, ts) ==
  CASE what = "expression" -> parseExpression(h, ts) [] what = "statement" -> parseStatement(h, ts)
    [] what = "bool" -> parseBoolOp(h, ts) [] what = "bitor" -> parseBitOr(h, ts) [] what = "bitand" -> parseBitAnd(h, ts)
    [] what = "compare" -> parseCompare(h, ts) [] what = "add" -> parseAddSub(h, ts) [] what = "mul" -> parseSubexpr(h, ts)
    [] what = "unary" -> parseUnary(h, ts) [] what = "parens" -> parseParens(h, ts) [] what = "value" -> parseValue(h, ts)
    [] what = "typename" -> parseTypeName(ts) [] what = "method" -> parseMethodDef(ts) [] what = "toplevel" -> parseTopLevel(ts)
=============================================================================
