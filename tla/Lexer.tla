------------------------------- MODULE Lexer -------------------------------
(***************************************************************************)
(* The lexer of cmd/bosc/lexer.go.  The text is a sequence of runes, one   *)
(* string each: punctuation, digits, blanks and newlines as in the source  *)
(* file, and letters, where a whole word may stand as one letter.  A token *)
(* is [t, s, n]: its kind, the runes of a name or string and the value of  *)
(* a number.                                                               *)
(***************************************************************************)
EXTENDS Integers, Sequences, FiniteSets, SequencesExt, TLC

CONSTANTS
  Letters,     \* runes and words unicode.IsLetter accepts, "_" included
  MaxUint64    \* the largest number a token can hold

Digits == [d \in {"0", "1", "7", "9"} |-> CASE d = "0" -> 0 [] d = "1" -> 1 [] d = "7" -> 7 [] d = "9" -> 9]
HexDigits == Digits @@ ("a" :> 10) @@ ("f" :> 15)
numberset == DOMAIN Digits \cup {"."}
Spaces == {" ", "\n"}

keywords == {"if", "else", "return", "for", "fn", "break", "continue", "struct", "import", "var", "mut", "owned",
             "dispose", "type", "interface", "values", "pub", "switch", "case", "default"}

Token(t) == [t |-> t, s |-> <<>>, n |-> 0]
Lexeme(t, s, n, rest) == [ok |-> TRUE, tok |-> [t |-> t, s |-> s, n |-> n], rest |-> rest]
LexError == [ok |-> FALSE, tok |-> Token("error"), rest |-> <<>>]

(* The longest prefix of runes in a set.                                   *)
Run(rs, S) ==
  LET stop == {i \in DOMAIN rs : rs[i] \notin S}
  IN  IF stop = {} THEN rs ELSE SubSeq(rs, 1, (CHOOSE i \in stop : \A j \in stop : i <= j) - 1)
After(rs, k) == SubSeq(rs, k + 1, Len(rs))
headRune(rs) == IF rs = <<>> THEN "" ELSE Head(rs)

isStatementEnder(t) ==
  t \in {"ident", "number", "str", "byte", ")", "]", "}", "break", "continue", "return"}

(* strconv.ParseUint: the value, or an error when it does not fit.         *)
ParseUint(ds, base, rest) ==
  LET v == FoldLeft(LAMBDA a, d : IF a > MaxUint64 THEN a ELSE a * base + HexDigits[d], 0, ds)
  IN  IF v > MaxUint64 THEN LexError ELSE Lexeme("number", <<>>, v, rest)

BasePrefixes == ("x" :> <<16, DOMAIN HexDigits>>) @@ ("b" :> <<2, {"0", "1"}>>) @@ ("o" :> <<8, {"0", "1", "7"}>>)

(* A prefixed literal, or decimal digits with a fraction that is dropped.  *)
parseNumber(rs) ==
  LET second == headRune(Tail(rs)) IN
  IF Head(rs) = "0" /\ second \in DOMAIN BasePrefixes
  THEN LET ds == Run(After(rs, 2), BasePrefixes[second][2])
       IN  IF ds = <<>> THEN LexError ELSE ParseUint(ds, BasePrefixes[second][1], After(rs, 2 + Len(ds)))
  ELSE LET ds == Run(rs, numberset)
       IN  ParseUint(Run(ds, DOMAIN Digits), 10, After(rs, Len(ds)))

(* Only a word that is one letter of the model can be a keyword.           *)
parseIdent(rs) ==
  LET w == Run(rs, Letters \cup DOMAIN Digits)
      rest == After(rs, Len(w))
  IN  IF Len(w) = 1 /\ w[1] \in keywords THEN Lexeme(w[1], <<>>, 0, rest) ELSE Lexeme("ident", w, 0, rest)

Escapes == ("n" :> "\n") @@ ("0" :> "NUL")

RECURSIVE parseString(_, _)
parseString(rs, acc) ==
  CASE rs = <<>> -> LexError
    [] Head(rs) = "\"" -> Lexeme("str", acc, 0, Tail(rs))
    [] Head(rs) = "\\" -> IF Len(rs) = 1 THEN LexError
                          ELSE parseString(After(rs, 2), Append(acc, IF rs[2] \in DOMAIN Escapes THEN Escapes[rs[2]] ELSE rs[2]))
    [] OTHER -> parseString(Tail(rs), Append(acc, Head(rs)))

parseChar(rs) ==
  LET k == IF headRune(rs) = "\\" THEN 2 ELSE 1 IN
  IF Len(rs) <= k \/ rs[k + 1] # "'" THEN LexError
  ELSE Lexeme("byte", IF k = 2 /\ rs[2] \in DOMAIN Escapes THEN <<Escapes[rs[2]]>> ELSE <<rs[k]>>, 0, After(rs, k + 1))

(* Punctuation: the second rune, when it is one of these, is part of the   *)
(* token.                                                                  *)
Seconds == (":" :> "=") @@ ("*" :> "?") @@ ("&" :> "&") @@ ("|" :> "|") @@ ("!" :> "=") @@ ("=" :> "=")
             @@ ("<" :> "=") @@ (">" :> "=")
Doubles == (":" :> ":=") @@ ("*" :> "*?") @@ ("&" :> "&&") @@ ("|" :> "||") @@ ("!" :> "!=") @@ ("=" :> "==")
             @@ ("<" :> "<=") @@ (">" :> ">=")
Singles == {"(", ")", "{", "}", "[", "]", "-", ";", ",", "+", "?", "/"}

Lex(rs) ==
  LET r == headRune(rs) IN
  CASE r = "" -> Lexeme("none", <<>>, 0, rs)
    [] r = "." -> IF headRune(Tail(rs)) # "." THEN Lexeme(".", <<>>, 0, Tail(rs))
                  ELSE IF headRune(After(rs, 2)) = "." THEN Lexeme("...", <<>>, 0, After(rs, 3)) ELSE LexError
    [] r \in DOMAIN Seconds -> IF headRune(Tail(rs)) = Seconds[r] THEN Lexeme(Doubles[r], <<>>, 0, After(rs, 2))
                               ELSE Lexeme(r, <<>>, 0, Tail(rs))
    [] r \in Singles -> Lexeme(r, <<>>, 0, Tail(rs))
    [] r = "\"" -> parseString(Tail(rs), <<>>)
    [] r = "'" -> parseChar(Tail(rs))
    [] r \in numberset -> parseNumber(rs)
    [] r \in Letters -> parseIdent(rs)
    [] OTHER -> LexError

(* The deferred function of Next: it runs once per call, so twice for a    *)
(* token that follows a comment, which is read by a nested call.           *)
Depth(d, t) ==
  CASE t \in {"(", "["} -> d + 1
    [] t \in {")", "]"} -> IF d > 0 THEN d - 1 ELSE 0
    [] OTHER -> d

(* Mutant of SemicolonHere: newlines inside parentheses end statements.    *)
AnyDepth(blank, d, prev) == (\E i \in DOMAIN blank : blank[i] = "\n") /\ isStatementEnder(prev)

SemicolonHere(blank, d, prev) ==
  (\E i \in DOMAIN blank : blank[i] = "\n") /\ d = 0 /\ isStatementEnder(prev)

(* consumeLine leaves the newline in place.                                *)
consumeLine(rs) ==
  LET nl == {i \in DOMAIN rs : rs[i] = "\n"}
  IN  IF nl = {} THEN <<>> ELSE After(rs, (CHOOSE i \in nl : \A j \in nl : i <= j) - 1)

RECURSIVE LexNext(_, _, _)
LexNext(rs, d, prev) ==
  LET blank == Run(rs, Spaces)
      text == After(rs, Len(blank))
      got == IF SemicolonHere(blank, d, prev) THEN Lexeme(";", <<>>, 0, text) @@ [d |-> d]
             ELSE IF Len(text) > 1 /\ text[1] = "/" /\ text[2] = "/" THEN LexNext(consumeLine(text), d, prev)
             ELSE Lex(text) @@ [d |-> d]
  IN  IF got.ok THEN [got EXCEPT !.d = Depth(@, got.tok.t)] ELSE got
=============================================================================
