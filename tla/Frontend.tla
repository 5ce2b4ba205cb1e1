------------------------------ MODULE Frontend ------------------------------
(***************************************************************************)
(* The front end of cmd/bosc as a machine: the lexer turns the text of a   *)
(* source file into tokens, one call of Next at a time, and the parser     *)
(* turns them into top-level nodes, one call of Parser.Next at a time.     *)
(* The same parser reads the texts of types and signatures that object     *)
(* files carry, which ASTType.String wrote.                                *)
(*                                                                         *)
(* A source is [mode, words, gaps, want]: the words of the text, the blank *)
(* before each of them, what reads it ("file", "type" or "functype") and   *)
(* what was written: a sequence of nodes, a type, or Rejected.             *)
(***************************************************************************)
EXTENDS Parser

CONSTANTS
  Sources,     \* the inputs
  Rejected     \* what is wanted of a text the compiler has to refuse

VARIABLES
  src,         \* the input
  text,        \* the runes the lexer has not read
  depth,       \* parenDepth
  prev,        \* prevTok
  toks,        \* the tokens the parser has not consumed
  out,         \* what was parsed so far
  st           \* "lex", "parse", "done" or "error"

vars == <<src, text, depth, prev, toks, out, st>>

(***************************************************************************)
(* Types as text.                                                          *)
(***************************************************************************)
Numeral(k) == CHOOSE d \in DOMAIN Digits : Digits[d] = k
Word(b, w) == IF b THEN <<w, " ">> ELSE <<>>
Commas(ss) == FlattenSeq([i \in DOMAIN ss |-> IF i = 1 THEN ss[i] ELSE <<",">> \o ss[i]])

(* Mutant of Grouped: a pointer to a slice is written like a slice of      *)
(* pointers.                                                               *)
NoParens(t, inner) == inner

Grouped(t, inner) == IF t.Ind > 0 THEN <<"(">> \o inner \o <<")">> ELSE inner

RECURSIVE TypeString(_)
TypeString(t) ==
  LET star(i) == <<"*">> \o (IF i - 1 \in t.q.nil THEN <<"?">> ELSE <<>>) \o Word(i \in t.q.mut, "mut") \o Word(i \in t.q.own, "owned")
      outer == Word(0 \in t.q.own, "owned") \o FlattenSeq([i \in 1 .. t.Ind |-> star(i)])
      field(f) == f[1] \o <<":">> \o TypeString(f[2])
      returns == Last(t.Sig)
  IN  outer \o
      (CASE t.Elem # <<>> /\ t.Size > 0 -> Grouped(t, TypeString(t.Elem[1]) \o <<"[", Numeral(t.Size), "]">>)
         [] t.Elem # <<>> /\ t.Size = 0 ->
              Grouped(t, Word(1 \in t.q.own, "owned") \o Word(1 \in t.q.mut, "mut") \o TypeString(t.Elem[1]) \o <<"[", "]">>)
         [] t.Sig # <<>> -> <<"fn", "(">> \o Commas([i \in 1 .. Len(t.Sig) - 1 |-> TypeString(t.Sig[i])]) \o <<")">>
                              \o (IF returns = Simple(<<"void">>) THEN <<>> ELSE TypeString(returns))
         [] t.Fields # <<>> -> <<IF t.Multi THEN "multiretu" ELSE "struct", "{">>
                                 \o Commas([i \in DOMAIN t.Fields |-> field(t.Fields[i])]) \o <<"}">>
         [] OTHER -> t.Name)

RECURSIVE FuncArgs(_, _)
FuncArgs(ts, acc) ==
  IF T(ts) = ")" THEN OK(acc, ts)
  ELSE LET variadic == T(ts) = "..." IN
       Then(Parse("typename", FALSE, IF variadic THEN advance(ts) ELSE ts), LAMBDA ty, r :
         LET t == IF variadic THEN [Simple(<<>>) EXCEPT !.Elem = <<mkTypename(ty)>>] ELSE mkTypename(ty)
         IN  FuncArgs(IF T(r) = "," THEN advance(r) ELSE r, Append(acc, [type |-> t, variadic |-> variadic])))

ParseFunctype(ts) ==
  Then(expect("fn", ts, Nil), LAMBDA x0, r0 : Then(expect("(", r0, Nil), LAMBDA x, r :
    Then(Closed(FuncArgs(r, <<>>), ")"), LAMBDA as, r2 :
      Then(IF T(r2) \in {"{", "none"} THEN OK(NamedType("void"), r2) ELSE Parse("typename", FALSE, r2), LAMBDA ret, r3 :
        OK([Args |-> as, Return |-> mkTypename(ret)], r3)))))

(***************************************************************************)
(* The machine.                                                            *)
(***************************************************************************)
Text(s) == FlattenSeq([i \in DOMAIN s.words |-> s.gaps[i] \o s.words[i]])

Init ==
  /\ src \in Sources
  /\ text = Text(src)
  /\ depth = 0
  /\ prev = "none"
  /\ toks = <<>>
  /\ out = <<>>
  /\ st = "lex"

LexToken ==
  LET x == LexNext(text, depth, prev) IN
  /\ st = "lex"
  /\ IF x.ok
     THEN /\ text' = x.rest
          /\ depth' = x.d
          /\ prev' = x.tok.t
          /\ toks' = Append(toks, x.tok)
          /\ st' = IF x.tok.t = "none" THEN "parse" ELSE "lex"
     ELSE st' = "error" /\ UNCHANGED <<text, depth, prev, toks>>
  /\ UNCHANGED <<src, out>>

(* Parser.Next: a node, the end of the file, or an error.                  *)
ParseNode ==
  LET x == Parse("toplevel", FALSE, skip(toks)) IN
  /\ st = "parse" /\ src.mode = "file"
  /\ CASE x.ok -> out' = Append(out, x.v) /\ toks' = x.r /\ UNCHANGED st
       [] x.eof -> st' = "done" /\ UNCHANGED <<out, toks>>
       [] OTHER -> st' = "error" /\ UNCHANGED <<out, toks>>
  /\ UNCHANGED <<src, text, depth, prev>>

(* parseTypeString and parseFuncType.                                      *)
ReadType ==
  LET x == IF src.mode = "type" THEN Then(Parse("typename", FALSE, toks), LAMBDA ty, r : OK(mkTypename(ty), r)) ELSE ParseFunctype(toks)
  IN  /\ st = "parse" /\ src.mode # "file"
      /\ st' = IF x.ok THEN "done" ELSE "error"
      /\ out' = IF x.ok THEN x.v ELSE out
      /\ UNCHANGED <<src, text, depth, prev, toks>>

Next == LexToken \/ ParseNode \/ ReadType

Spec == Init /\ [][Next]_vars

(***************************************************************************)
(* Properties.                                                             *)
(***************************************************************************)
(* The tokens of the words, with a semicolon where a newline separates two *)
(* of them, the first can end a statement and no bracket is open.          *)
WordKind(w) == Lex(w).tok.t
OpenBefore(s, i) ==
  Cardinality({j \in 1 .. i - 1 : WordKind(s.words[j]) \in {"(", "["}})
    - Cardinality({j \in 1 .. i - 1 : WordKind(s.words[j]) \in {")", "]"}})
HasNewline(gap) == \E i \in DOMAIN gap : gap[i] = "\n"
Intended(s) ==
  FlattenSeq([i \in DOMAIN s.words |->
    LET ends == i > 1 /\ HasNewline(s.gaps[i]) /\ OpenBefore(s, i) = 0 /\ isStatementEnder(WordKind(s.words[i - 1]))
    IN  IF ends THEN <<";", WordKind(s.words[i])>> ELSE <<WordKind(s.words[i])>>])

(* Statements end where the layout ends them: the lexer produces the       *)
(* tokens of the words, and a newline or a comment makes a semicolon only  *)
(* outside brackets and after a token that can end a statement             *)
(* (lexer.Next).                                                           *)
StatementsEnd ==
  st = "lex" /\ src.mode = "file" /\ src.want # Rejected =>
    IsPrefix([i \in DOMAIN toks |-> toks[i].t], Intended(src))

(* A program is read as the tree it was written from: operators group by   *)
(* their precedence and to the left, an else belongs to its if, a          *)
(* declaration is told from an expression, wherever lines are broken       *)
(* (parser.go), and a number that does not fit 64 bits is refused.  Where  *)
(* parser.go and DESIGN.md rank two operators differently the text has     *)
(* parentheses; GroupsAsDocumented is about the others.                    *)
ReadAsWritten ==
  /\ st = "done" /\ src.mode = "file" => out = src.want
  /\ st = "error" /\ src.mode = "file" => src.want = Rejected

(* The types whose text has a place for every qualifier they carry.  The   *)
(* qualifiers of pointers to a named type have one each; a value that may  *)
(* be null has none, nor has a function or a struct.  A slice shows its    *)
(* own only outside pointers and, in front of a slice of pointers, they    *)
(* are read as those of the outermost one.                                 *)
RECURSIVE Legible(_), Stars0(_)
Stars0(t) == IF t.Elem = <<>> THEN t.Ind ELSE Stars0(t.Elem[1])
Legible(t) ==
  LET parts == {t.Sig[i] : i \in DOMAIN t.Sig} \cup {t.Fields[i][2] : i \in DOMAIN t.Fields}
      own == IF Stars0(t) = 0 /\ t.Size = 0 THEN {1} ELSE {0}
      e == t.Elem[1]
  IN  /\ t.q.nil \subseteq 0 .. t.Ind - 1
      /\ CASE parts # {} -> t.Ind = 0 /\ t.q = NoQ /\ \A u \in parts : Legible(u)
           [] parts = {} /\ t.Elem = <<>> -> t.q.mut \subseteq 1 .. t.Ind /\ t.q.own \subseteq 0 .. t.Ind
           [] parts = {} /\ t.Elem # <<>> ->
                /\ Legible(e) /\ e.q.mut \cup e.q.own = {} /\ e.Sig = <<>> /\ e.Fields = <<>> /\ (e.Elem # <<>> => e.Ind = 0)
                /\ IF t.Ind = 0 THEN t.q.own \subseteq own /\ t.q.mut \subseteq own \cap {1}
                   ELSE /\ t.q.mut \cup t.q.own \subseteq 0 .. t.Ind
                        /\ 0 \notin t.q.mut
                        /\ t.Size = 0 => 1 \notin t.q.mut \cup t.q.own

Written == CASE src.mode = "type" -> {src.want}
             [] src.mode = "functype" -> {src.want.Args[i].type : i \in DOMAIN src.want.Args} \cup {src.want.Return}
             [] OTHER -> {}

(* The text ASTType.String writes into an object file is read back by      *)
(* parseTypeName and ParseFunctype as the type it was written from, when   *)
(* the text has a place for all of the type's qualifiers (Legible).        *)
TypesReadBack ==
  src.mode # "file" /\ (\A t \in Written : Legible(t)) =>
    st # "error" /\ (st = "done" => out = src.want)

(* What DESIGN.md:93 says of the parenthesized form, which pointers to     *)
(* slices have: it is the exact inverse of ASTType.String.                 *)
TypesExact ==
  src.mode = "type" /\ src.want.Ind > 0 /\ src.want.Elem # <<>> => st # "error" /\ (st = "done" => out = src.want)

(* What the comment at lexer.go:242 says of parenDepth: it counts the      *)
(* parentheses and brackets that are open.                                 *)
DepthExact ==
  LET seen(S) == Cardinality({i \in DOMAIN toks : toks[i].t \in S})
  IN  st = "lex" => depth = seen({"(", "["}) - seen({")", "]"})

(* What DESIGN.md:124 and 126 say of expressions printed with the          *)
(* parentheses their precedence asks for: they group as written.           *)
GroupsAsDocumented == st # "error" /\ (st = "done" => out = src.want)
=============================================================================
