------------------------ MODULE Ownership_flow_proofs ------------------------
(***************************************************************************)
(* What the checker knows of nil is true, and nothing is lost, for         *)
(* functions of any length without loops: a binding known nil or not nil   *)
(* at a point is so in every run that gets there, and where no binding is  *)
(* nullable and nothing is disposed of, a run that returns has freed every *)
(* object.                                                                 *)
(*                                                                         *)
(* The argument is the one of Ownership_proofs with more on every edge:    *)
(* what a point says of nil must be so after the instruction before it, on *)
(* the branch that leads there (Leaves), and the owners an instruction     *)
(* leaves must all be owners of the next point.  That second half is the   *)
(* opposite inclusion to the one of Edge.  Loops are left out because both *)
(* halves fail for them: EndLoop compares a backedge with the facts before *)
(* the loop only as far as ownership goes, and it drops what the body has  *)
(* consumed.                                                               *)
(***************************************************************************)
EXTENDS Ownership_proofs

-----------------------------------------------------------------------------
(* What a point with facts f and the bindings S in scope says of the run:  *)
(* these bindings are nil, and these are not.  A binding that cannot be    *)
(* nil is not, even after its value has been moved.                        *)
Nil(f, S) == S \cap f.null
NonNil(f, S) == {x \in S : x \in f.nonnull \/ x \notin nullable}

(* The same after an instruction; of an if, on its branch b.               *)
NilAfter(ins, b) ==
  LET N == Nil(ins.facts, ins.bound)
  IN IF ins.op = "bind"
       THEN (N \ {ins.x}) \cup (({ins.src} \cap nullable) \ {ins.x})
              \cup (IF ins.src = "nil" THEN {ins.x} ELSE {})
     ELSE IF ins.op = "free" THEN N \cup ({ins.x} \cap nullable)
     ELSE IF ins.op = "if" /\ ins.src = (IF b THEN "nil" ELSE "nonnil") THEN N \cup {ins.x}
     ELSE N
NonNilAfter(ins, b) ==
  LET N == NonNil(ins.facts, ins.bound)
  IN IF ins.op = "bind"
       THEN (N \ ({ins.x} \cup ({ins.src} \cap nullable)))
              \cup (IF ins.src = "alloc" \/ ins.src \in N \ {ins.x} THEN {ins.x} ELSE {})
     ELSE IF ins.op = "free" THEN N \ ({ins.x} \cap nullable)
     ELSE IF ins.op = "if" /\ ins.src = (IF b THEN "nonnil" ELSE "nil") THEN N \cup {ins.x}
     ELSE N

(* The owners after an instruction, where nothing is nullable.             *)
OwnsAfter(ins) ==
  LET O == Owns(ins.facts, ins.bound)
  IN IF ins.op = "bind" THEN (O \ {ins.src}) \cup {ins.x}
     ELSE IF ins.op = "free" THEN O \ {ins.x} ELSE O

(* A point says no more than is so after the instruction; and where        *)
(* nothing is nullable, none of the owners left has been forgotten.        *)
Leaves(ins, b, f, S) ==
  /\ Nil(f, S) \subseteq NilAfter(ins, b) /\ NonNil(f, S) \subseteq NonNilAfter(ins, b)
  /\ nullable = {} /\ ins.op # "dispose" => OwnsAfter(ins) \subseteq Owns(f, S)

(* The point with g and T says no more than the one with f and S.          *)
Narrower(f, S, g, T) ==
  /\ Nil(g, T) \subseteq Nil(f, S) /\ NonNil(g, T) \subseteq NonNil(f, S)
  /\ nullable = {} => Owns(f, S) \subseteq Owns(g, T)

-----------------------------------------------------------------------------
(* Where a run may go from instruction i, in code without loops.           *)
Goes(i, b, j) ==
  \/ code[i].op \in Straight /\ b /\ j = i + 1
  \/ /\ code[i].op = "if" /\ ~b
     /\ \E a \in DOMAIN code : /\ FirstAhead(i, a, {"else", "endif"})
                               /\ j = IF code[a].op = "else" THEN a + 1 ELSE a
  \/ code[i].op = "else" /\ b /\ FirstAhead(i, j, {"endif"})

PointFacts(j) == IF j \in DOMAIN code THEN code[j].facts ELSE facts
PointBound(j) == IF j \in DOMAIN code THEN code[j].bound ELSE Bound

(* An owner is not overwritten, and none is left behind; no loop is left.  *)
Clean(ins) ==
  /\ ins.op \notin {"break", "continue", "endloop"}
  /\ nullable = {} => /\ ins.op = "bind" => ins.x \notin Owns(ins.facts, ins.bound)
                      /\ ins.op \in {"return", "end"} => Owns(ins.facts, ins.bound) = {}

FlowOK(i) ==
  /\ Clean(code[i])
  /\ \A b \in BOOLEAN, j \in 1 .. Len(code) + 1 :
       Goes(i, b, j) => Leaves(code[i], b, PointFacts(j), PointBound(j))
Flows == \A i \in DOMAIN code : code[i].reached => FlowOK(i)

(* What the frame of a block keeps for its jumps that have no target yet.  *)
ElseFacts(r) == Branch(r.before, r.cond, r.x, FALSE)
Owed(i) ==
  /\ code[i].op = "if" /\ NoneAhead(i, {"else", "endif"}) =>
       Leaves(code[i], FALSE, ElseFacts(Block(i)), BoundTo(code[i].depth))
  /\ code[i].op = "else" /\ NoneAhead(i, {"endif"}) =>
       Leaves(code[i], TRUE, Block(i).then, BoundTo(code[i].depth))
Owing == \A i \in DOMAIN code : code[i].reached => Owed(i)

(* The start of the function: its parameters hold what was passed.         *)
Entry == Instr("endif", "none", "nil", 0, NoFacts, params, TRUE)
Entered == Leaves(Entry, TRUE, PointFacts(1), PointBound(1))

-----------------------------------------------------------------------------
(* The run, with the bindings S in scope and facts f.                      *)
Covered(O) == \A o \in DOMAIN heap : heap[o] = "live" => \E x \in O : env[x] = o
Says(N, M, O) ==
  /\ \A x \in N : env[x] = 0
  /\ \A x \in M : env[x] # 0
  /\ nullable = {} /\ ~Uses("dispose") => Covered(O)
Truth ==
  /\ pc \in DOMAIN code => Says(Nil(code[pc].facts, code[pc].bound),
                                NonNil(code[pc].facts, code[pc].bound), OwnersAt(pc))
  /\ pc \notin DOMAIN code /\ nullable = {} /\ ~Uses("dispose") => Covered({})

FlowInv ==
  ~Uses("loop") => /\ Flows
                   /\ pc = 0 => Owing /\ Entered
                   /\ pc # 0 => Truth

-----------------------------------------------------------------------------
(* What the operations on facts do to the null facts.                      *)
LEMMA MoveNulls ==
  ASSUME NEW f \in Facts, NEW x \in Binding
  PROVE  /\ Invalidate(f, x).null = f.null /\ Invalidate(f, x).nonnull = f.nonnull
         /\ MoveConsume(f, x).null = f.null /\ MoveConsume(f, x).nonnull = f.nonnull
         /\ MoveSource(f, x).null = f.null \cup ({x} \cap nullable)
         /\ MoveSource(f, x).nonnull = f.nonnull \ ({x} \cap nullable)
  <1>1. \A g \in Facts : Invalidate(g, x).null = g.null /\ Invalidate(g, x).nonnull = g.nonnull
    BY DEF Invalidate, Facts, FactsType
  <1> DEFINE g == [f EXCEPT !.moved = @ \cup {x}]
  <1>2. g \in Facts /\ g.null = f.null /\ g.nonnull = f.nonnull  BY DEF Facts, FactsType
  <1>3. MoveConsume(f, x) = Invalidate(g, x)  BY DEF MoveConsume
  <1>4. /\ MoveSource(f, x).null = f.null \cup ({x} \cap nullable)
        /\ MoveSource(f, x).nonnull = f.nonnull \ ({x} \cap nullable)
    <2>1. /\ MoveSource(f, x).null = IF x \in nullable THEN f.null \cup {x} ELSE f.null
          /\ MoveSource(f, x).nonnull = IF x \in nullable THEN f.nonnull \ {x} ELSE f.nonnull
      BY DEF MoveSource, Facts, FactsType
    <2> QED  BY <2>1
  <1> HIDE DEF g
  <1> QED  BY <1>1, <1>2, <1>3, <1>4

(* The binding known not nil after x was bound from src.                   *)
Known(f, x, src) ==
  x \notin nullable \/ src = "alloc" \/ (src \in Binding /\ Narrowed(f, src))

LEMMA BindNulls ==
  ASSUME NEW f \in Facts, NEW x \in Binding, NEW src \in Sources, nullable \subseteq Binding
  PROVE  /\ Bind(f, x, src).null =
              ((f.null \cup ({src} \cap nullable)) \ {x}) \cup (IF src = "nil" THEN {x} ELSE {})
         /\ Bind(f, x, src).nonnull =
              ((f.nonnull \ ({src} \cap nullable)) \ {x}) \cup
                (IF Known(f, x, src) THEN {x} ELSE {})
  <1> DEFINE g == IF src \in Binding THEN MoveSource(f, src) ELSE f
             fresh == IF src = "alloc" THEN {x} ELSE {}
             p == IF src \in Binding THEN f.ptr[src] ELSE fresh
             h == [g EXCEPT !.moved = @ \ {x},
                            !.null = IF src = "nil" THEN @ \cup {x} ELSE @ \ {x},
                            !.nonnull = IF Known(f, x, src) THEN @ \cup {x} ELSE @ \ {x},
                            !.ptr[x] = p,
                            !.reg = @ \cup fresh,
                            !.dead = @ \ fresh]
  <1>1. Bind(f, x, src) = h  BY DEF Bind, Known
  <1>2. /\ g \in Facts /\ g.null = f.null \cup ({src} \cap nullable)
        /\ g.nonnull = f.nonnull \ ({src} \cap nullable)
    <2>1. CASE src \in Binding
      <3>1. MoveSource(f, src) \in Facts  BY <2>1, MoveFacts
      <3>2. /\ MoveSource(f, src).null = f.null \cup ({src} \cap nullable)
            /\ MoveSource(f, src).nonnull = f.nonnull \ ({src} \cap nullable)
        BY <2>1, MoveNulls
      <3> QED  BY <2>1, <3>1, <3>2
    <2>2. CASE src \notin Binding  BY <2>2
    <2> QED  BY <2>1, <2>2
  <1> HIDE DEF g, fresh, p
  <1>3. /\ h.null = IF src = "nil" THEN g.null \cup {x} ELSE g.null \ {x}
        /\ h.nonnull = IF Known(f, x, src) THEN g.nonnull \cup {x} ELSE g.nonnull \ {x}
    BY <1>2 DEF Facts, FactsType
  <1> HIDE DEF h
  <1>4. h.null = (g.null \ {x}) \cup (IF src = "nil" THEN {x} ELSE {})  BY <1>3
  <1>5. h.nonnull = (g.nonnull \ {x}) \cup (IF Known(f, x, src) THEN {x} ELSE {})  BY <1>3
  <1> QED  BY <1>1, <1>2, <1>4, <1>5

(* From f to g, only a test for p says that x is nil, and one for q that   *)
(* it is not.                                                              *)
Narrows(f, g, x, cond, p, q) ==
  /\ cond = p \/ g.null \subseteq f.null
  /\ g.null \subseteq f.null \cup {x}
  /\ cond = q \/ g.nonnull \subseteq f.nonnull
  /\ g.nonnull \subseteq f.nonnull \cup {x}

LEMMA BranchNulls ==
  ASSUME NEW f \in Facts, NEW x, NEW cond \in {"opaque", "nil", "nonnil"},
         cond # "opaque" => x \in Binding, NEW g, NEW p, NEW q,
         \/ g = Branch(f, cond, x, TRUE) /\ p = "nil" /\ q = "nonnil"
         \/ g = Branch(f, cond, x, FALSE) /\ p = "nonnil" /\ q = "nil"
  PROVE  Narrows(f, g, x, cond, p, q)
  <1> USE DEF Narrows
  <1>1. CASE cond = "opaque"  BY <1>1 DEF Branch
  <1>2. CASE cond # "opaque"
    <2>1. PICK isNil \in BOOLEAN : isNil <=> cond = p  OBVIOUS
    <2>2. x \in Binding /\ g = Narrow(f, x, isNil)
      <3>1. CASE g = Branch(f, cond, x, TRUE) /\ p = "nil"
        <4>1. isNil = ((cond = "nil") = TRUE)  BY <2>1, <3>1
        <4> QED  BY <1>2, <3>1, <4>1 DEF Branch
      <3>2. CASE g = Branch(f, cond, x, FALSE) /\ p = "nonnil"
        <4>1. isNil = ((cond = "nil") = FALSE)  BY <1>2, <2>1, <3>2
        <4> QED  BY <1>2, <3>2, <4>1 DEF Branch
      <3> QED  BY <3>1, <3>2
    <2> DEFINE h == [f EXCEPT !.null = @ \cup {x}, !.nonnull = @ \ {x}]
               k == [f EXCEPT !.null = @ \ {x}, !.nonnull = @ \cup {x}]
    <2>3. h \in Facts /\ h.null = f.null \cup {x} /\ h.nonnull = f.nonnull \ {x}
      BY <2>2 DEF Facts, FactsType
    <2>4. k.null = f.null \ {x} /\ k.nonnull = f.nonnull \cup {x}  BY DEF Facts, FactsType
    <2>5. g = IF isNil THEN MoveConsume(h, x) ELSE k  BY <2>2 DEF Narrow
    <2> HIDE DEF h, k
    <2>6. MoveConsume(h, x).null = h.null /\ MoveConsume(h, x).nonnull = h.nonnull
      BY <2>2, <2>3, MoveNulls
    <2>7. CASE isNil
      <3>1. cond = p  BY <2>1, <2>7
      <3> QED  BY <2>3, <2>5, <2>6, <2>7, <3>1
    <2>8. CASE ~isNil
      <3>1. cond = q  BY <1>2, <2>1, <2>8
      <3> QED  BY <2>4, <2>5, <2>8, <3>1
    <2> QED  BY <2>7, <2>8
  <1> QED  BY <1>1, <1>2

LEMMA KeepNulls ==
  ASSUME NEW f \in Facts, NEW S
  PROVE  Keep(f, S).null = f.null \cap S /\ Keep(f, S).nonnull = f.nonnull \cap S
  BY DEF Keep, Facts, FactsType

LEMMA MergeNulls ==
  ASSUME NEW f \in Facts, NEW g \in Facts, NEW m, m = Merge(<<f, g>>)
  PROVE  /\ m.null \subseteq f.null /\ m.null \subseteq g.null
         /\ m.nonnull \subseteq f.nonnull /\ m.nonnull \subseteq g.nonnull
  <1>1. PICK paths : paths = <<f, g>>  OBVIOUS
  <1>2. DOMAIN paths = {1, 2} /\ paths[1] = f /\ paths[2] = g  BY <1>1
  <1>3. /\ m.null = Common({paths[i].null : i \in DOMAIN paths})
        /\ m.nonnull = Common({paths[i].nonnull : i \in DOMAIN paths})
    BY <1>1 DEF Merge
  <1> QED  BY <1>2, <1>3 DEF Common

-----------------------------------------------------------------------------
(* Points and instructions.                                                *)
LEMMA NarrowerLeaves ==
  ASSUME NEW ins, NEW b, NEW f, NEW S, NEW g, NEW T, Leaves(ins, b, f, S), Narrower(f, S, g, T)
  PROVE  Leaves(ins, b, g, T)
  <1>1. Nil(g, T) \subseteq NilAfter(ins, b)  BY DEF Leaves, Narrower
  <1>2. NonNil(g, T) \subseteq NonNilAfter(ins, b)  BY DEF Leaves, Narrower
  <1>3. nullable = {} /\ ins.op # "dispose" => OwnsAfter(ins) \subseteq Owns(g, T)
    BY DEF Leaves, Narrower
  <1> QED  BY <1>1, <1>2, <1>3 DEF Leaves

LEMMA NarrowerSelf ==
  ASSUME NEW f, NEW S
  PROVE  Narrower(f, S, f, S)
  BY DEF Narrower

(* The points of a program do not change with the step of the compiler.    *)
LEMMA PointsKept ==
  ASSUME nullable' = nullable
  PROVE  /\ \A ins, b, f, S : Leaves(ins, b, f, S)' <=> Leaves(ins, b, f, S)
         /\ \A ins : Clean(ins)' <=> Clean(ins)
  <1>1. \A f, S : NonNil(f, S)' = NonNil(f, S) /\ Owns(f, S)' = Owns(f, S)  BY DEF NonNil, Owns
  <1>2. \A f, S : Nil(f, S)' = Nil(f, S)  BY DEF Nil
  <1>3. \A ins, b : NilAfter(ins, b)' = NilAfter(ins, b)  BY <1>2 DEF NilAfter
  <1>4. \A ins, b : NonNilAfter(ins, b)' = NonNilAfter(ins, b)  BY <1>1 DEF NonNilAfter
  <1>5. \A ins : OwnsAfter(ins)' = OwnsAfter(ins)  BY <1>1 DEF OwnsAfter
  <1>6. \A ins, b, f, S : Leaves(ins, b, f, S)' <=> Leaves(ins, b, f, S)
    BY <1>1, <1>2, <1>3, <1>4, <1>5 DEF Leaves
  <1>7. \A ins : Clean(ins)' <=> Clean(ins)  BY <1>1 DEF Clean
  <1> QED  BY <1>6, <1>7

-----------------------------------------------------------------------------
(* Compiling one more instruction.                                         *)
LEMMA AheadBack ==
  ASSUME CheckerType, NEW ins, Appended(ins), NEW n, n = Len(code) + 1,
         NEW i \in 1 .. Len(code), NEW ops
  PROVE  /\ \A a \in 1 .. Len(code) : FirstAhead(i, a, ops)' => FirstAhead(i, a, ops)
         /\ FirstAhead(i, n, ops)' =>
              NoneAhead(i, ops) /\ ins.op \in ops /\ ins.depth = code[i].depth
         /\ NoneAhead(i, ops)' => NoneAhead(i, ops)
         /\ \A a, e : FirstAhead(i, a, ops) /\ FirstAhead(i, e, ops) => a = e
         /\ \A a : FirstAhead(i, a, ops) => ~NoneAhead(i, ops)
  <1>1. \A j \in 1 .. Len(code) : Same(i, j, ops)' <=> Same(i, j, ops)  BY SameKept
  <1>2. Same(i, n, ops)' <=> ins.op \in ops /\ ins.depth = code[i].depth  BY SameKept
  <1>3. Len(code) \in Nat /\ Len(code') = Len(code) + 1  BY OldCode
  <1>4. \A a \in 1 .. Len(code) : FirstAhead(i, a, ops)' => FirstAhead(i, a, ops)
    BY <1>1, <1>3 DEF FirstAhead
  <1>5. FirstAhead(i, n, ops)' => NoneAhead(i, ops) /\ Same(i, n, ops)'
    BY <1>1, <1>3 DEF FirstAhead, NoneAhead
  <1>6. NoneAhead(i, ops)' => NoneAhead(i, ops)  BY <1>1, <1>3 DEF NoneAhead
  <1>7. ASSUME NEW a, NEW e, FirstAhead(i, a, ops), FirstAhead(i, e, ops) PROVE a = e
    <2>1. a \in i + 1 .. Len(code) /\ e \in i + 1 .. Len(code)  BY <1>7 DEF FirstAhead
    <2>2. ~(a < e) /\ ~(e < a)  BY <1>3, <1>7, <2>1 DEF FirstAhead
    <2> QED  BY <1>3, <2>1, <2>2
  <1>8. \A a : FirstAhead(i, a, ops) => ~NoneAhead(i, ops)  BY DEF FirstAhead, NoneAhead
  <1> QED  BY <1>2, <1>4, <1>5, <1>6, <1>7, <1>8

(* What leads to the point being compiled falls through to it.             *)
LEMMA FallsAt ==
  ASSUME Checking, NEW i \in 1 .. Len(code), code[i].reached, NEW b,
         NEW n, n = Len(code) + 1, Goes(i, b, n)
  PROVE  Top.falls
  <1>1. CheckerType /\ Edges  BY DEF Checking
  <1>2. DOMAIN code = 1 .. Len(code) /\ Len(code) \in Nat  BY <1>1 DEF CheckerType
  <1>3. InstrOK(i)  BY <1>1, <1>2 DEF Edges
  <1>4. n \notin DOMAIN code  BY <1>2
  <1>5. Edge(i, n) => Top.falls  BY <1>4 DEF Edge
  <1>6. \A ops, a, e : FirstAhead(i, a, ops) /\ FirstAhead(i, e, ops) => a = e
    <2> SUFFICES ASSUME NEW ops, NEW a, NEW e, FirstAhead(i, a, ops), FirstAhead(i, e, ops)
                 PROVE  a = e
      OBVIOUS
    <2>1. a \in i + 1 .. Len(code) /\ e \in i + 1 .. Len(code)  BY DEF FirstAhead
    <2>2. ~(a < e) /\ ~(e < a)  BY <1>2, <2>1 DEF FirstAhead
    <2> QED  BY <1>2, <2>1, <2>2
  <1>7. \A ops, a : FirstAhead(i, a, ops) => ~NoneAhead(i, ops)  BY DEF FirstAhead, NoneAhead
  <1>8. CASE code[i].op \in Straight /\ n = i + 1  BY <1>3, <1>5, <1>8 DEF InstrOK
  <1>9. CASE /\ code[i].op = "if"
             /\ \E a \in DOMAIN code : /\ FirstAhead(i, a, {"else", "endif"})
                                       /\ n = IF code[a].op = "else" THEN a + 1 ELSE a
    <2>1. PICK a \in DOMAIN code : /\ FirstAhead(i, a, {"else", "endif"})
                                   /\ n = IF code[a].op = "else" THEN a + 1 ELSE a
      BY <1>9
    <2>2. IfMet(i)  BY <1>3, <1>7, <1>9, <2>1 DEF InstrOK, IfEdge, IfOpen
    <2>3. PICK e \in DOMAIN code : /\ FirstAhead(i, e, {"else", "endif"})
                                   /\ Edge(i, IF code[e].op = "else" THEN e + 1 ELSE e)
      BY <2>2 DEF IfMet
    <2>4. a = e  BY <1>6, <2>1, <2>3
    <2> QED  BY <1>5, <2>1, <2>3, <2>4
  <1>10. CASE code[i].op = "else" /\ FirstAhead(i, n, {"endif"})
    BY <1>2, <1>10 DEF FirstAhead
  <1> QED  BY <1>8, <1>9, <1>10 DEF Goes

LEMMA FlowsKept ==
  ASSUME Checking, Flows, NEW ins, Appended(ins), NEW n, n = Len(code) + 1,
         Top.falls => Narrower(facts, Bound, ins.facts, ins.bound),
         NEW g, g = facts', NEW T, T = Bound',
         \A i \in 1 .. Len(code) : code[i].reached /\ code[i].depth = ins.depth =>
           /\ code[i].op = "if" /\ NoneAhead(i, {"else", "endif"}) /\ ins.op = "else" =>
                Leaves(code[i], FALSE, g, T)
           /\ code[i].op = "if" /\ NoneAhead(i, {"else", "endif"}) /\ ins.op = "endif" =>
                Leaves(code[i], FALSE, ins.facts, ins.bound)
           /\ code[i].op = "else" /\ NoneAhead(i, {"endif"}) /\ ins.op = "endif" =>
                Leaves(code[i], TRUE, ins.facts, ins.bound),
         ins.reached => Clean(ins) /\ (ins.op \in Straight => Leaves(ins, TRUE, g, T))
  PROVE  Flows'
  <1>0. CheckerType  BY DEF Checking
  <1>1. /\ DOMAIN code = 1 .. Len(code) /\ DOMAIN code' = 1 .. n /\ Len(code) \in Nat
        /\ Len(code') = n /\ code'[n] = ins /\ \A i \in 1 .. Len(code) : code'[i] = code[i]
    BY <1>0, OldCode
  <1>2. nullable' = nullable  BY DEF Appended
  <1>3. /\ \A c, b, f, S : Leaves(c, b, f, S)' <=> Leaves(c, b, f, S)
        /\ \A c : Clean(c)' <=> Clean(c)
    BY <1>2, PointsKept
  <1>4. /\ \A j \in 1 .. Len(code) : PointFacts(j)' = PointFacts(j) /\ PointBound(j)' = PointBound(j)
        /\ PointFacts(n)' = ins.facts /\ PointBound(n)' = ins.bound
        /\ PointFacts(n) = facts /\ PointBound(n) = Bound
        /\ PointFacts(n + 1)' = g /\ PointBound(n + 1)' = T
    BY <1>1 DEF PointFacts, PointBound
  <1>5. ASSUME NEW i \in 1 .. Len(code), code[i].reached,
               NEW b \in BOOLEAN, NEW j \in 1 .. n, Goes(i, b, j)
        PROVE  Leaves(code[i], b, PointFacts(j), PointBound(j))'
    <2>1. PICK c, f, S, h, U : /\ c = code[i] /\ f = PointFacts(j) /\ S = PointBound(j)
                               /\ h = PointFacts(j)' /\ U = PointBound(j)'
      OBVIOUS
    <2>2. Leaves(c, b, f, S)  BY <1>1, <1>5, <2>1 DEF Flows, FlowOK
    <2>3. Leaves(c, b, h, U)
      <3>1. CASE j \in 1 .. Len(code)  BY <1>4, <2>1, <2>2, <3>1
      <3>2. CASE j = n
        <4>1. Top.falls  BY <1>5, <3>2, FallsAt
        <4>2. Narrower(f, S, h, U)  BY <1>4, <2>1, <3>2, <4>1
        <4> QED  BY <2>2, <4>2, NarrowerLeaves
      <3> QED  BY <1>1, <3>1, <3>2
    <2>4. Leaves(c, b, h, U)'  BY <1>3, <2>3
    <2>5. c = code'[i]  BY <1>1, <1>5, <2>1
    <2> QED  BY <2>1, <2>4, <2>5
  <1>6. ASSUME NEW i \in 1 .. Len(code), code[i].reached PROVE FlowOK(i)'
    <2>0. Clean(code[i])'
      <3>1. PICK c : c = code[i]  OBVIOUS
      <3>2. Clean(c)' /\ c = code'[i]  BY <1>1, <1>3, <1>6, <3>1 DEF Flows, FlowOK
      <3> QED  BY <3>2
    <2> SUFFICES ASSUME NEW b \in BOOLEAN, NEW j \in 1 .. Len(code') + 1, Goes(i, b, j)'
                 PROVE  Leaves(code[i], b, PointFacts(j), PointBound(j))'
      BY <2>0 DEF FlowOK
    <2>1. CASE Goes(i, b, j) /\ j \in 1 .. n  BY <1>5, <1>6, <2>1
    <2>2. ASSUME NEW h, NEW U, h = PointFacts(j)', U = PointBound(j)', Leaves(code[i], b, h, U)
          PROVE  Leaves(code[i], b, PointFacts(j), PointBound(j))'
      <3>1. PICK c : c = code[i]  OBVIOUS
      <3>2. Leaves(c, b, h, U)' /\ c = code'[i]  BY <1>1, <1>3, <2>2, <3>1
      <3> QED  BY <2>2, <3>2
    <2>3. CASE code'[i].op \in Straight /\ b /\ j = i + 1
      <3>1. Goes(i, b, j) /\ j \in 1 .. n  BY <1>1, <2>3 DEF Goes
      <3> QED  BY <2>1, <3>1
    <2>4. CASE /\ code'[i].op = "if" /\ ~b
               /\ \E a \in DOMAIN code' : /\ FirstAhead(i, a, {"else", "endif"})'
                                          /\ j = IF code'[a].op = "else" THEN a + 1 ELSE a
      <3>1. PICK a \in 1 .. n : /\ FirstAhead(i, a, {"else", "endif"})'
                                /\ j = IF code'[a].op = "else" THEN a + 1 ELSE a
        BY <1>1, <2>4
      <3>2. CASE a \in 1 .. Len(code)
        <4>1. FirstAhead(i, a, {"else", "endif"})  BY <1>0, <3>1, <3>2, AheadBack
        <4>2. code'[a] = code[a] /\ a \in DOMAIN code  BY <1>1, <3>2
        <4>3. Goes(i, b, j)  BY <1>1, <2>4, <3>1, <4>1, <4>2 DEF Goes
        <4>4. j \in 1 .. n  BY <1>1, <3>1, <3>2
        <4> QED  BY <2>1, <4>3, <4>4
      <3>3. CASE a = n
        <4>1. /\ NoneAhead(i, {"else", "endif"}) /\ ins.op \in {"else", "endif"}
              /\ ins.depth = code[i].depth
          BY <1>0, <3>1, <3>3, AheadBack
        <4>2. code[i].op = "if" /\ b = FALSE  BY <1>1, <2>4
        <4>3. CASE ins.op = "else"
          <5>1. j = n + 1  BY <1>1, <3>1, <3>3, <4>3
          <5>2. Leaves(code[i], b, g, T)  BY <1>6, <4>1, <4>2, <4>3
          <5> QED  BY <1>4, <2>2, <5>1, <5>2
        <4>4. CASE ins.op = "endif"
          <5>1. j = n  BY <1>1, <3>1, <3>3, <4>4
          <5>2. Leaves(code[i], b, ins.facts, ins.bound)  BY <1>6, <4>1, <4>2, <4>4
          <5> QED  BY <1>4, <2>2, <5>1, <5>2
        <4> QED  BY <4>1, <4>3, <4>4
      <3> QED  BY <1>1, <3>2, <3>3
    <2>5. CASE code'[i].op = "else" /\ b /\ FirstAhead(i, j, {"endif"})'
      <3>1. j \in 1 .. n  BY <1>1, <2>5 DEF FirstAhead
      <3>2. CASE j \in 1 .. Len(code)
        <4>1. FirstAhead(i, j, {"endif"})  BY <1>0, <2>5, <3>2, AheadBack
        <4>2. Goes(i, b, j)  BY <1>1, <2>5, <4>1 DEF Goes
        <4> QED  BY <2>1, <3>1, <4>2
      <3>3. CASE j = n
        <4>1. NoneAhead(i, {"endif"}) /\ ins.op = "endif" /\ ins.depth = code[i].depth
          BY <1>0, <2>5, <3>3, AheadBack
        <4>2. code[i].op = "else" /\ b = TRUE  BY <1>1, <2>5
        <4>3. Leaves(code[i], b, ins.facts, ins.bound)  BY <1>6, <4>1, <4>2
        <4> QED  BY <1>4, <2>2, <3>3, <4>3
      <3> QED  BY <1>1, <3>1, <3>2, <3>3
    <2> QED  BY <2>3, <2>4, <2>5 DEF Goes
  <1>7. ASSUME ins.reached PROVE FlowOK(n)'
    <2>0. Clean(code[n])'
      <3>1. Clean(ins)'  BY <1>3, <1>7
      <3> QED  BY <1>1, <3>1
    <2> SUFFICES ASSUME NEW b \in BOOLEAN, NEW j \in 1 .. Len(code') + 1, Goes(n, b, j)'
                 PROVE  Leaves(code[n], b, PointFacts(j), PointBound(j))'
      BY <2>0 DEF FlowOK
    <2>1. \A a, ops : ~FirstAhead(n, a, ops)'  BY <1>1 DEF FirstAhead
    <2>2. ins.op \in Straight /\ b = TRUE /\ j = n + 1  BY <1>1, <2>1 DEF Goes
    <2>3. Leaves(ins, b, g, T)  BY <1>7, <2>2
    <2>4. Leaves(ins, b, g, T)'  BY <1>3, <2>3
    <2> QED  BY <1>1, <1>4, <2>2, <2>4
  <1> QED  BY <1>1, <1>6, <1>7 DEF Flows

(* The jumps out of the blocks that stay open.                             *)
LEMMA OwingKept ==
  ASSUME Checking, Owing, NEW ins, Appended(ins), NEW n, n = Len(code) + 1,
         \A m \in DOMAIN frames :
           \/ KeptFrame(m)
           \/ ins.depth = m - 1 /\ ins.op = "endif"
           \/ ins.depth = m - 1 /\ ins.op = "else" /\ frames[m].kind = "then",
         ins.reached => Owed(n)'
  PROVE  Owing'
  <1>0. CheckerType /\ Edges  BY DEF Checking
  <1>1. /\ DOMAIN code = 1 .. Len(code) /\ DOMAIN code' = 1 .. n /\ Len(code) \in Nat
        /\ code'[n] = ins
        /\ \A i \in 1 .. Len(code) : code[i] \in InstrType /\ code'[i] = code[i]
    BY <1>0, OldCode
  <1>2. nullable' = nullable  BY DEF Appended
  <1>3. \A c, b, f, S : Leaves(c, b, f, S)' <=> Leaves(c, b, f, S)  BY <1>2, PointsKept
  <1> SUFFICES ASSUME NEW i \in 1 .. Len(code), code[i].reached PROVE Owed(i)'
    BY <1>1 DEF Owing
  <1>4. Owed(i) /\ InstrOK(i) /\ code'[i] = code[i] /\ code[i].depth \in Nat
    BY <1>0, <1>1 DEF Owing, Edges, InstrType
  <1>5. PICK m, k : m = code[i].depth + 1 /\ k = code[i].depth  OBVIOUS
  <1>6. m = code'[i].depth + 1 /\ k = code'[i].depth /\ k = m - 1  BY <1>4, <1>5
  <1>7. \A ops, a : FirstAhead(i, a, ops) => ~NoneAhead(i, ops)  BY DEF FirstAhead, NoneAhead
  <1>8. Block(i) = frames[m] /\ Block(i)' = frames'[m]  BY <1>5, <1>6 DEF Block
  <1>9. ASSUME code[i].op = "if", NoneAhead(i, {"else", "endif"})'
        PROVE  Leaves(code[i], FALSE, ElseFacts(Block(i)), BoundTo(code[i].depth))'
    <2>1. NoneAhead(i, {"else", "endif"})  BY <1>0, <1>9, AheadBack
    <2>2. IfOpen(i)  BY <1>4, <1>7, <1>9, <2>1 DEF InstrOK, IfEdge, IfMet
    <2>3. m \in DOMAIN frames  BY <1>5, <2>2 DEF IfOpen, OpenAt
    <2>4. ~(ins.depth = k /\ ins.op \in {"else", "endif"})
      <3>1. ~Same(i, n, {"else", "endif"})'
        <4>1. n \in i + 1 .. Len(code')  BY <1>0, <1>1, OldCode
        <4> QED  BY <1>9, <4>1 DEF NoneAhead
      <3> QED  BY <1>1, <1>6, <3>1 DEF Same
    <2>5. KeptFrame(m)  BY <1>6, <2>3, <2>4
    <2>6. PICK c, f, S : c = code[i] /\ f = ElseFacts(frames[m]) /\ S = BoundTo(k)  OBVIOUS
    <2>7. Leaves(c, FALSE, f, S)  BY <1>4, <1>5, <1>8, <1>9, <2>1, <2>6 DEF Owed
    <2>8. f = ElseFacts(Block(i))' /\ S = BoundTo(k)' /\ c = code'[i]
      <3>1. S = BoundTo(k)' /\ c = code'[i]  BY <1>4, <1>6, <2>5, <2>6 DEF KeptFrame
      <3>4. PICK h, cond, x : h = frames[m].before /\ cond = frames[m].cond /\ x = frames[m].x
        OBVIOUS
      <3>5. h = frames'[m].before /\ cond = frames'[m].cond /\ x = frames'[m].x
        BY <2>5, <3>4 DEF KeptFrame
      <3>6. f = Branch(h, cond, x, FALSE)  BY <2>6, <3>4 DEF ElseFacts
      <3>7. ElseFacts(Block(i))' = Branch(h, cond, x, FALSE)
        BY <1>8, <3>5 DEF ElseFacts, Branch, Narrow, MoveConsume, Invalidate
      <3> QED  BY <3>1, <3>6, <3>7
    <2>9. Leaves(c, FALSE, f, S)'  BY <1>3, <2>7
    <2> QED  BY <1>6, <2>8, <2>9
  <1>10. ASSUME code[i].op = "else", NoneAhead(i, {"endif"})'
         PROVE  Leaves(code[i], TRUE, Block(i).then, BoundTo(code[i].depth))'
    <2>1. NoneAhead(i, {"endif"})  BY <1>0, <1>10, AheadBack
    <2>2. ElseOpen(i)
      <3>1. code[i].op \notin Straight  BY <1>10 DEF Straight
      <3> QED  BY <1>4, <1>7, <1>10, <2>1 DEF InstrOK, ElseEdge, ElseMet
    <2>3. m \in DOMAIN frames /\ frames[m].kind = "else"
      BY <1>5, <1>8, <2>2 DEF ElseOpen, OpenAt
    <2>4. ~(ins.depth = k /\ ins.op = "endif")
      <3>1. ~Same(i, n, {"endif"})'
        <4>1. n \in i + 1 .. Len(code')  BY <1>0, <1>1, OldCode
        <4> QED  BY <1>10, <4>1 DEF NoneAhead
      <3> QED  BY <1>1, <1>6, <3>1 DEF Same
    <2>5. KeptFrame(m)  BY <1>6, <2>3, <2>4
    <2>6. PICK c, f, S : c = code[i] /\ f = frames[m].then /\ S = BoundTo(k)  OBVIOUS
    <2>7. Leaves(c, TRUE, f, S)  BY <1>4, <1>5, <1>8, <1>10, <2>1, <2>6 DEF Owed
    <2>8. f = Block(i)'.then /\ S = BoundTo(k)' /\ c = code'[i]
      BY <1>4, <1>6, <1>8, <2>5, <2>6 DEF KeptFrame
    <2>9. Leaves(c, TRUE, f, S)'  BY <1>3, <2>7
    <2> QED  BY <1>6, <2>8, <2>9
  <1> QED  BY <1>4, <1>9, <1>10 DEF Owed

LEMMA EnteredKept ==
  ASSUME Checking, Entered, NEW ins, Appended(ins),
         Top.falls => Narrower(facts, Bound, ins.facts, ins.bound)
  PROVE  Entered'
  <1>0. CheckerType /\ StartOK  BY DEF Checking
  <1>1. PICK n : n = Len(code) + 1  OBVIOUS
  <1>2. /\ DOMAIN code = 1 .. Len(code) /\ DOMAIN code' = 1 .. n /\ Len(code) \in Nat
        /\ code'[n] = ins /\ \A i \in 1 .. Len(code) : code'[i] = code[i]
    BY <1>0, <1>1, OldCode
  <1>3. nullable' = nullable /\ params' = params  BY DEF Appended
  <1>4. Entry' = Entry  BY <1>3 DEF Entry, Instr, NoFacts
  <1>5. PICK e, f, S, g, T : /\ e = Entry /\ f = PointFacts(1) /\ S = PointBound(1)
                             /\ g = PointFacts(1)' /\ T = PointBound(1)'
    OBVIOUS
  <1>6. Leaves(e, TRUE, f, S)  BY <1>5 DEF Entered
  <1>7. Leaves(e, TRUE, g, T)
    <2>1. CASE 1 \in DOMAIN code
      <3>1. 1 \in DOMAIN code' /\ code'[1] = code[1]  BY <1>1, <1>2, <2>1
      <3>2. g = f /\ T = S  BY <1>5, <2>1, <3>1 DEF PointFacts, PointBound
      <3> QED  BY <1>6, <3>2
    <2>2. CASE 1 \notin DOMAIN code
      <3>1. n = 1 /\ Top.falls  BY <1>0, <1>1, <1>2, <2>2 DEF StartOK
      <3>2. f = facts /\ S = Bound /\ g = ins.facts /\ T = ins.bound
        BY <1>2, <1>5, <2>2, <3>1 DEF PointFacts, PointBound
      <3>3. Narrower(f, S, g, T)  BY <3>1, <3>2
      <3> QED  BY <1>6, <3>3, NarrowerLeaves
    <2> QED  BY <2>1, <2>2
  <1>8. Leaves(e, TRUE, g, T)'  BY <1>3, <1>7, PointsKept
  <1> QED  BY <1>4, <1>5, <1>8 DEF Entered

(* While compiling.                                                        *)
Flowing == Flows /\ Owing /\ Entered

(* A statement that opens no block but of an if, and closes none.          *)
LEMMA PlainFlow ==
  ASSUME Checking, Flowing, NEW ins, Appended(ins), NEW n, n = Len(code) + 1,
         ins.op \notin {"else", "endif"}, ins.facts = facts, ins.bound = Bound,
         \A m \in DOMAIN frames : KeptFrame(m), NEW g, g = facts', NEW T, T = Bound',
         Clean(ins), ins.op \in Straight => Leaves(ins, TRUE, g, T), ins.op = "if" => Owed(n)'
  PROVE  Flowing'
  <1>1. Flows /\ Owing /\ Entered  BY DEF Flowing
  <1>2. Narrower(facts, Bound, ins.facts, ins.bound)  BY NarrowerSelf
  <1>3. Flows'  BY <1>1, <1>2, FlowsKept
  <1>4. Owed(n)'
    <2>1. CASE ins.op = "if"  BY <2>1
    <2>2. CASE ins.op # "if"
      <3>1. code'[n] = ins  BY OldCode DEF Checking
      <3> QED  BY <2>2, <3>1 DEF Owed
    <2> QED  BY <2>1, <2>2
  <1>5. Owing'  BY <1>1, <1>4, OwingKept
  <1>6. Entered'  BY <1>1, <1>2, EnteredKept
  <1> QED  BY <1>3, <1>5, <1>6 DEF Flowing

-----------------------------------------------------------------------------
(* What each statement does to the facts is what its instruction leaves.   *)
LEMMA BindLeaves ==
  ASSUME nullable \subseteq Binding, NEW f \in Facts, NEW S, S \subseteq Binding,
         NEW x \in Binding, NEW src \in Sources, src = "nil" => x \in nullable,
         src \in Binding => /\ src \in S /\ src \notin f.moved
                            /\ x \in nullable \/ Narrowed(f, src),
         x \notin S \/ ~Live(f, x),
         NEW ins, ins.op = "bind", ins.x = x, ins.src = src, ins.facts = f, ins.bound = S,
         NEW g, g = Bind(f, x, src), NEW T, T = S \cup {x}
  PROVE  Clean(ins) /\ Leaves(ins, TRUE, g, T)
  <1>0. "alloc" \notin Binding /\ "nil" \notin Binding  BY OwnershipConstants
  <1>1. /\ g.null = ((f.null \cup ({src} \cap nullable)) \ {x}) \cup (IF src = "nil" THEN {x} ELSE {})
        /\ g.nonnull = ((f.nonnull \ ({src} \cap nullable)) \ {x}) \cup
                         (IF Known(f, x, src) THEN {x} ELSE {})
    BY BindNulls
  <1>2. g.moved = (f.moved \cup ({src} \cap Binding)) \ {x}  BY BindFacts
  <1>3. f.null \cap f.nonnull = {}  BY DEF Facts
  <1>4. Nil(g, T) \subseteq NilAfter(ins, TRUE)
    <2>1. NilAfter(ins, TRUE) = ((S \cap f.null) \ {x}) \cup (({src} \cap nullable) \ {x})
                                  \cup (IF src = "nil" THEN {x} ELSE {})
      BY DEF NilAfter, Nil
    <2> QED  BY <1>1, <2>1 DEF Nil
  <1>5. Known(f, x, src) => src = "alloc" \/ src \in NonNil(f, S) \ {x}
    <2>1. CASE src = "alloc"  BY <2>1
    <2>2. CASE src = "nil"  BY <1>0, <2>2 DEF Known
    <2>3. CASE src \in Binding
      <3> SUFFICES ASSUME Known(f, x, src) PROVE src \in NonNil(f, S) \ {x}  OBVIOUS
      <3>1. Narrowed(f, src)  BY <1>0, <2>3 DEF Known
      <3>2. src \in NonNil(f, S)  BY <2>3, <3>1 DEF Narrowed, NonNil
      <3>3. src # x  BY <1>3, <2>3, <3>1 DEF Narrowed, Live
      <3> QED  BY <3>2, <3>3
    <2> QED  BY <2>1, <2>2, <2>3 DEF Sources
  <1>6. NonNil(g, T) \subseteq NonNilAfter(ins, TRUE)
    <2>1. NonNilAfter(ins, TRUE) = (NonNil(f, S) \ ({x} \cup ({src} \cap nullable))) \cup
            (IF src = "alloc" \/ src \in NonNil(f, S) \ {x} THEN {x} ELSE {})
      BY DEF NonNilAfter
    <2> SUFFICES ASSUME NEW y \in NonNil(g, T) PROVE y \in NonNilAfter(ins, TRUE)  OBVIOUS
    <2>2. CASE y = x
      <3>1. Known(f, x, src)  BY <1>1, <2>2 DEF NonNil, Known
      <3> QED  BY <1>5, <2>1, <2>2, <3>1
    <2>3. CASE y # x
      <3>1. y \in S /\ (y \in f.nonnull \/ y \notin nullable) /\ y \notin {src} \cap nullable
        BY <1>1, <2>3 DEF NonNil
      <3> QED  BY <2>1, <2>3, <3>1 DEF NonNil
    <2> QED  BY <2>2, <2>3
  <1>7. nullable = {} => OwnsAfter(ins) \subseteq Owns(g, T)
    BY <1>2 DEF OwnsAfter, Owns
  <1>8. Clean(ins)  BY DEF Clean, Owns, Live
  <1> QED  BY <1>4, <1>6, <1>7, <1>8 DEF Leaves

LEMMA FreeLeaves ==
  ASSUME NEW f \in Facts, NEW S, NEW x \in Binding,
         NEW ins, ins.op = "free", ins.x = x, ins.facts = f, ins.bound = S,
         NEW g, g = Invalidate(MoveSource(f, x), x)
  PROVE  Clean(ins) /\ Leaves(ins, TRUE, g, S)
  <1>1. PICK h : h = MoveSource(f, x)  OBVIOUS
  <1>2. h \in Facts /\ h.moved = f.moved \cup {x}  BY <1>1, MoveFacts
  <1>3. h.null = f.null \cup ({x} \cap nullable) /\ h.nonnull = f.nonnull \ ({x} \cap nullable)
    BY <1>1, MoveNulls
  <1>4. g.null = h.null /\ g.nonnull = h.nonnull /\ g.moved = h.moved
    <2>1. g = Invalidate(h, x)  BY <1>1
    <2>2. Invalidate(h, x).null = h.null /\ Invalidate(h, x).nonnull = h.nonnull
      BY <1>2, MoveNulls
    <2>3. Invalidate(h, x).moved = h.moved  BY <1>2, MoveFacts
    <2> QED  BY <2>1, <2>2, <2>3
  <1>5. Nil(g, S) \subseteq NilAfter(ins, TRUE)
    <2>1. NilAfter(ins, TRUE) = (S \cap f.null) \cup ({x} \cap nullable)  BY DEF NilAfter, Nil
    <2> QED  BY <1>3, <1>4, <2>1 DEF Nil
  <1>6. NonNil(g, S) \subseteq NonNilAfter(ins, TRUE)
    <2>1. NonNilAfter(ins, TRUE) = NonNil(f, S) \ ({x} \cap nullable)  BY DEF NonNilAfter
    <2> QED  BY <1>3, <1>4, <2>1 DEF NonNil
  <1>7. OwnsAfter(ins) \subseteq Owns(g, S)  BY <1>2, <1>4 DEF OwnsAfter, Owns
  <1>8. Clean(ins)  BY DEF Clean
  <1> QED  BY <1>5, <1>6, <1>7, <1>8 DEF Leaves

LEMMA DisposeLeaves ==
  ASSUME NEW f \in Facts, NEW S, NEW x \in Binding,
         NEW ins, ins.op = "dispose", ins.facts = f, ins.bound = S, NEW g, g = MoveConsume(f, x)
  PROVE  Clean(ins) /\ Leaves(ins, TRUE, g, S)
  <1>1. g.null = f.null /\ g.nonnull = f.nonnull  BY MoveNulls
  <1>2. Nil(g, S) \subseteq NilAfter(ins, TRUE)  BY <1>1 DEF Nil, NilAfter
  <1>3. NonNil(g, S) \subseteq NonNilAfter(ins, TRUE)  BY <1>1 DEF NonNil, NonNilAfter
  <1> QED  BY <1>2, <1>3 DEF Leaves, Clean

(* An instruction that changes nothing leaves the point before it.         *)
LEMMA StillLeaves ==
  ASSUME NEW ins, ins.op \notin {"bind", "free", "if"}, NEW b
  PROVE  Leaves(ins, b, ins.facts, ins.bound)
  BY DEF Leaves, NilAfter, NonNilAfter, OwnsAfter

LEMMA IfLeaves ==
  ASSUME NEW f \in Facts, NEW S, NEW cond \in {"opaque", "nil", "nonnil"}, NEW x,
         cond # "opaque" => x \in Binding \cap nullable, NEW b \in BOOLEAN,
         NEW ins, ins.op = "if", ins.x = x, ins.src = cond, ins.facts = f, ins.bound = S,
         NEW g, g = Branch(f, cond, x, b)
  PROVE  Clean(ins) /\ Leaves(ins, b, g, S)
  <1>0. PICK p, q : p = (IF b THEN "nil" ELSE "nonnil") /\ q = (IF b THEN "nonnil" ELSE "nil")
    OBVIOUS
  <1>1. Narrows(f, g, x, cond, p, q)
    <2>1. cond # "opaque" => x \in Binding  OBVIOUS
    <2>2. \/ g = Branch(f, cond, x, TRUE) /\ p = "nil" /\ q = "nonnil"
          \/ g = Branch(f, cond, x, FALSE) /\ p = "nonnil" /\ q = "nil"
      BY <1>0
    <2> QED  BY <2>1, <2>2, BranchNulls
  <1>2. g.moved \ nullable = f.moved \ nullable
    <2>1. g = Branch(f, cond, x, TRUE) \/ g = Branch(f, cond, x, FALSE)  OBVIOUS
    <2> QED  BY <2>1, BranchFacts
  <1>4. Nil(g, S) \subseteq NilAfter(ins, b)
    <2>1. NilAfter(ins, b) = (S \cap f.null) \cup (IF cond = p THEN {x} ELSE {})
      BY <1>0 DEF NilAfter, Nil
    <2> QED  BY <1>1, <2>1 DEF Nil, Narrows
  <1>5. NonNil(g, S) \subseteq NonNilAfter(ins, b)
    <2>1. NonNilAfter(ins, b) = NonNil(f, S) \cup (IF cond = q THEN {x} ELSE {})
      BY <1>0 DEF NonNilAfter
    <2> QED  BY <1>1, <2>1 DEF NonNil, Narrows
  <1>6. nullable = {} => OwnsAfter(ins) \subseteq Owns(g, S)  BY <1>2 DEF OwnsAfter, Owns
  <1> QED  BY <1>4, <1>5, <1>6 DEF Leaves, Clean

(* At the end of a block nothing declared in it is still owned.            *)
LEMMA BlockEnds ==
  ASSUME NEW f \in Facts, NEW S, NEW T, T \subseteq S, \A x \in S \ T : ~Live(f, x),
         NEW g, g = f \/ g = Keep(f, T)
  PROVE  Narrower(f, S, g, T)
  <1>1. /\ g.null \cap T = f.null \cap T /\ g.nonnull \cap T = f.nonnull \cap T
        /\ g.moved \cap T = f.moved \cap T
    BY KeepNulls, KeepFacts
  <1>2. Nil(g, T) \subseteq Nil(f, S)  BY <1>1 DEF Nil
  <1>3. NonNil(g, T) \subseteq NonNil(f, S)  BY <1>1 DEF NonNil
  <1>4. nullable = {} => Owns(f, S) \subseteq Owns(g, T)  BY <1>1 DEF Owns, Live
  <1> QED  BY <1>2, <1>3, <1>4 DEF Narrower

LEMMA NarrowerTwice ==
  ASSUME NEW f, NEW S, NEW g, NEW T, NEW h, NEW U, Narrower(f, S, g, T), Narrower(g, T, h, U)
  PROVE  Narrower(f, S, h, U)
  <1>1. Nil(h, U) \subseteq Nil(f, S) /\ NonNil(h, U) \subseteq NonNil(f, S)  BY DEF Narrower
  <1>2. nullable = {} => Owns(f, S) \subseteq Owns(h, U)  BY DEF Narrower
  <1> QED  BY <1>1, <1>2 DEF Narrower

(* Where two paths meet, neither is said more of than it says itself.      *)
LEMMA MergeNarrower ==
  ASSUME NEW f \in Facts, NEW g \in Facts, NEW S, \A x \in S : SameLive(f, g, x),
         NEW m, m = Merge(<<f, g>>)
  PROVE  Narrower(f, S, m, S) /\ Narrower(g, S, m, S)
  <1>1. /\ m.null \subseteq f.null /\ m.null \subseteq g.null
        /\ m.nonnull \subseteq f.nonnull /\ m.nonnull \subseteq g.nonnull
    BY MergeNulls
  <1>2. m.moved = f.moved  BY DEF Merge
  <1>3. Owns(f, S) = Owns(g, S)  BY SameOwners
  <1>4. Owns(m, S) = Owns(f, S)  BY <1>2 DEF Owns
  <1>5. Nil(m, S) \subseteq Nil(f, S) /\ Nil(m, S) \subseteq Nil(g, S)  BY <1>1 DEF Nil
  <1>6. NonNil(m, S) \subseteq NonNil(f, S) /\ NonNil(m, S) \subseteq NonNil(g, S)
    BY <1>1 DEF NonNil
  <1> QED  BY <1>3, <1>4, <1>5, <1>6 DEF Narrower

-----------------------------------------------------------------------------
(* One lemma for every statement, in code without loops.                   *)
LEMMA EmitsPoint ==
  ASSUME NEW ins, NEW op, NEW x, NEW src, NEW depth, Emits(ins, op, x, src, depth)
  PROVE  ins.facts = facts /\ ins.bound = Bound
  BY DEF Emits, Instr

LEMMA BindFlow ==
  ASSUME Checking, Flowing, nullable' = nullable, params' = params,
         NEW x \in Binding, NEW src \in Sources, SourceAccepted(x, src),
         x \notin Bound \/ ~Live(facts, x), Emit("bind", x, src),
         NEW g, g = Bind(facts, x, src), facts' = g, NEW T, T = Bound \cup {x}, Bound' = T,
         \A m \in DOMAIN frames : KeptFrame(m)
  PROVE  Flowing'
  <1>0. CheckerType /\ Blocks /\ facts \in Facts /\ nullable \subseteq Binding
    BY DEF Checking, CheckerType
  <1>1. "bind" \in Ops /\ x \in Binding \cup {"none"} /\ src \in Sources \cup {"nonnil", "opaque"}
    BY DEF Ops, Straight
  <1>2. PICK ins : Emits(ins, "bind", x, src, Len(frames))  BY <1>1, EmitStep
  <1>3. PICK n : n = Len(code) + 1  OBVIOUS
  <1>4. Appended(ins) /\ ins.op = "bind" /\ ins.x = x /\ ins.src = src  BY <1>2, <1>3, Emitted
  <1>5. ins.facts = facts /\ ins.bound = Bound  BY <1>2, EmitsPoint
  <1>6. PICK d : d = Len(frames)  OBVIOUS
  <1>7. Bound \subseteq Binding  BY <1>0, <1>6, StackShape
  <1>8. /\ src = "nil" => x \in nullable
        /\ src \in Binding => /\ src \in Bound /\ src \notin facts.moved
                              /\ x \in nullable \/ Narrowed(facts, src)
    BY DEF SourceAccepted, Readable
  <1>9. PICK f, S : f = facts /\ S = Bound  OBVIOUS
  <1>10. Clean(ins) /\ Leaves(ins, TRUE, g, T)
    <2>1. f \in Facts /\ S \subseteq Binding /\ ins.facts = f /\ ins.bound = S
      BY <1>0, <1>5, <1>7, <1>9
    <2>2. (x \notin S \/ ~Live(f, x)) /\ g = Bind(f, x, src) /\ T = S \cup {x}  BY <1>9
    <2>3. /\ src = "nil" => x \in nullable
          /\ src \in Binding => /\ src \in S /\ src \notin f.moved
                                /\ x \in nullable \/ Narrowed(f, src)
      BY <1>8, <1>9
    <2> QED  BY ONLY <1>0, <1>4, <2>1, <2>2, <2>3, x \in Binding, src \in Sources, BindLeaves
  <1>11. ins.op \notin {"else", "endif"} /\ ins.op # "if"  BY <1>4
  <1> QED  BY <1>3, <1>4, <1>5, <1>10, <1>11, PlainFlow

LEMMA VarDeclFlow ==
  ASSUME Checking, Flowing, nullable' = nullable, params' = params,
         NEW x \in Binding, NEW src \in Sources, VarDecl(x, src)
  PROVE  Flowing'
  <1>1. /\ SourceAccepted(x, src) /\ x \notin Bound /\ Emit("bind", x, src)
        /\ facts' = Bind(facts, x, src)
        /\ frames' = [frames EXCEPT ![Len(frames)].scope = @ \cup {x}]
    BY DEF VarDecl
  <1>2. CheckerType /\ Blocks  BY DEF Checking
  <1>3. PICK g, T : g = Bind(facts, x, src) /\ T = Bound \cup {x}  OBVIOUS
  <1>4. Bound' = T /\ \A m \in DOMAIN frames : KeptFrame(m)  BY <1>1, <1>2, <1>3, DeclShape
  <1> QED  BY <1>1, <1>3, <1>4, BindFlow

LEMMA AssignmentFlow ==
  ASSUME Checking, Flowing, nullable' = nullable, params' = params,
         NEW x \in Binding, NEW src \in Sources, Assignment(x, src)
  PROVE  Flowing'
  <1>1. /\ SourceAccepted(x, src) /\ x \in Bound /\ ~Live(facts, x) /\ Emit("bind", x, src)
        /\ facts' = Bind(facts, x, src) /\ frames' = frames
    BY DEF Assignment
  <1>2. CheckerType /\ Blocks  BY DEF Checking
  <1>3. PICK g, T : g = Bind(facts, x, src) /\ T = Bound \cup {x}  OBVIOUS
  <1>4. Bound' = Bound /\ \A m \in DOMAIN frames : KeptFrame(m)  BY <1>1, <1>2, SameStack
  <1>5. Bound' = T  BY <1>1, <1>3, <1>4
  <1> QED  BY <1>1, <1>3, <1>4, <1>5, BindFlow

LEMMA FreeFlow ==
  ASSUME Checking, Flowing, nullable' = nullable, params' = params, NEW x \in Binding, FreeBuiltin(x)
  PROVE  Flowing'
  <1>0. CheckerType /\ Blocks /\ facts \in Facts  BY DEF Checking, CheckerType
  <1>1. /\ Emit("free", x, "nil") /\ frames' = frames
        /\ facts' = Invalidate(MoveSource(facts, x), x)
    BY DEF FreeBuiltin
  <1>2. Bound' = Bound /\ \A m \in DOMAIN frames : KeptFrame(m)  BY <1>0, <1>1, SameStack
  <1>3. "free" \in Ops /\ x \in Binding \cup {"none"} /\ "nil" \in Sources \cup {"nonnil", "opaque"}
    BY DEF Ops, Straight, Sources
  <1>4. PICK ins : Emits(ins, "free", x, "nil", Len(frames))  BY <1>1, <1>3, EmitStep
  <1>5. PICK n : n = Len(code) + 1  OBVIOUS
  <1>6. Appended(ins) /\ ins.op = "free" /\ ins.x = x  BY <1>4, <1>5, Emitted
  <1>7. ins.facts = facts /\ ins.bound = Bound  BY <1>4, EmitsPoint
  <1>8. PICK g, f, S : g = facts' /\ f = facts /\ S = Bound  OBVIOUS
  <1>9. Clean(ins) /\ Leaves(ins, TRUE, g, S)
    <2>1. /\ f \in Facts /\ ins.facts = f /\ ins.bound = S
          /\ g = Invalidate(MoveSource(f, x), x)
      BY <1>0, <1>1, <1>7, <1>8
    <2> QED  BY ONLY <1>6, <2>1, x \in Binding, FreeLeaves
  <1>10. ins.op \notin {"else", "endif"} /\ ins.op # "if" /\ S = Bound'  BY <1>2, <1>6, <1>8
  <1> QED  BY <1>2, <1>5, <1>6, <1>7, <1>8, <1>9, <1>10, PlainFlow

LEMMA DisposeFlow ==
  ASSUME Checking, Flowing, nullable' = nullable, params' = params, NEW x \in Binding, Dispose(x)
  PROVE  Flowing'
  <1>0. CheckerType /\ Blocks /\ facts \in Facts  BY DEF Checking, CheckerType
  <1>1. Emit("dispose", x, "nil") /\ frames' = frames /\ facts' = MoveConsume(facts, x)
    BY DEF Dispose
  <1>2. Bound' = Bound /\ \A m \in DOMAIN frames : KeptFrame(m)  BY <1>0, <1>1, SameStack
  <1>3. "dispose" \in Ops /\ x \in Binding \cup {"none"} /\ "nil" \in Sources \cup {"nonnil", "opaque"}
    BY DEF Ops, Straight, Sources
  <1>4. PICK ins : Emits(ins, "dispose", x, "nil", Len(frames))  BY <1>1, <1>3, EmitStep
  <1>5. PICK n : n = Len(code) + 1  OBVIOUS
  <1>6. Appended(ins) /\ ins.op = "dispose"  BY <1>4, <1>5, Emitted
  <1>7. ins.facts = facts /\ ins.bound = Bound  BY <1>4, EmitsPoint
  <1>8. PICK g, f, S : g = facts' /\ f = facts /\ S = Bound  OBVIOUS
  <1>9. Clean(ins) /\ Leaves(ins, TRUE, g, S)
    <2>1. f \in Facts /\ ins.facts = f /\ ins.bound = S /\ g = MoveConsume(f, x)
      BY <1>0, <1>1, <1>7, <1>8
    <2> QED  BY ONLY <1>6, <2>1, x \in Binding, DisposeLeaves
  <1>10. ins.op \notin {"else", "endif"} /\ ins.op # "if" /\ S = Bound'  BY <1>2, <1>6, <1>8
  <1> QED  BY <1>2, <1>5, <1>6, <1>7, <1>8, <1>9, <1>10, PlainFlow

LEMMA ReturnFlow ==
  ASSUME Checking, Flowing, nullable' = nullable, params' = params, Return
  PROVE  Flowing'
  <1>0. CheckerType /\ Blocks  BY DEF Checking
  <1>1. /\ EmitJump("return", 0) /\ \A y \in Bound : ~Live(facts, y)
        /\ frames' = [frames EXCEPT ![Len(frames)].falls = FALSE]
    BY DEF Return
  <1>2. \A m \in DOMAIN frames : KeptFrame(m)  BY <1>0, <1>1, StopShape
  <1>3. "return" \in Ops /\ 0 \in Nat  BY DEF Ops
  <1>4. PICK ins : Emits(ins, "return", "none", "nil", 0)  BY <1>1, <1>3, JumpStep
  <1>5. PICK n : n = Len(code) + 1  OBVIOUS
  <1>6. Appended(ins) /\ ins.op = "return"  BY <1>4, <1>5, Emitted
  <1>7. ins.facts = facts /\ ins.bound = Bound  BY <1>4, EmitsPoint
  <1>8. Clean(ins)  BY <1>1, <1>6, <1>7 DEF Clean, Owns, Live
  <1>9. PICK g, T : g = facts' /\ T = Bound'  OBVIOUS
  <1>10. ins.op \notin {"else", "endif"} /\ ins.op # "if" /\ ins.op \notin Straight
    BY <1>6 DEF Straight
  <1> QED  BY <1>2, <1>5, <1>6, <1>7, <1>8, <1>9, <1>10, PlainFlow

LEMMA IfFlow ==
  ASSUME Checking, Flowing, nullable' = nullable, params' = params,
         NEW cond \in {"opaque", "nil", "nonnil"}, NEW x \in Binding \cup {"none"}, If(cond, x)
  PROVE  Flowing'
  <1>0. CheckerType /\ Blocks /\ facts \in Facts  BY DEF Checking, CheckerType
  <1>1. PICK d : d = Len(frames)  OBVIOUS
  <1>2. d \in Nat \ {0} /\ Bound \subseteq Binding  BY <1>0, <1>1, StackShape
  <1>3. PICK r : r = Frame("then", cond, x, facts)  OBVIOUS
  <1>4. /\ cond # "opaque" => x \in Bound \cap nullable
        /\ Emit("if", x, cond) /\ facts' = Branch(facts, cond, x, TRUE)
        /\ frames' = Append(frames, r)
    BY <1>3 DEF If
  <1>5. r \in FrameType /\ r.scope = {} /\ r.cond = cond /\ r.x = x /\ r.before = facts
    BY <1>0, <1>3, FrameShape
  <1>6. /\ frames'[d + 1] = r /\ Bound' = Bound /\ BoundTo(d)' = Bound
        /\ \A m \in DOMAIN frames : KeptFrame(m)
    BY <1>0, <1>1, <1>4, <1>5, PushShape
  <1>7. "if" \in Ops /\ cond \in Sources \cup {"nonnil", "opaque"}  BY DEF Ops, Straight, Sources
  <1>8. PICK ins : Emits(ins, "if", x, cond, Len(frames))  BY <1>4, <1>7, EmitStep
  <1>9. PICK n : n = Len(code) + 1  OBVIOUS
  <1>10. /\ Appended(ins) /\ code'[n] = ins
         /\ ins.op = "if" /\ ins.x = x /\ ins.src = cond /\ ins.depth = d
    BY <1>1, <1>8, <1>9, Emitted
  <1>11. ins.facts = facts /\ ins.bound = Bound  BY <1>8, EmitsPoint
  <1>12. PICK g, h, f, S : /\ g = facts' /\ f = facts /\ S = Bound
                           /\ h = Branch(facts, cond, x, FALSE)
    OBVIOUS
  <1>13. /\ f \in Facts /\ ins.facts = f /\ ins.bound = S
         /\ g = Branch(f, cond, x, TRUE) /\ h = Branch(f, cond, x, FALSE)
         /\ cond # "opaque" => x \in Binding \cap nullable
    BY <1>0, <1>2, <1>4, <1>11, <1>12
  <1>14. Clean(ins) /\ Leaves(ins, TRUE, g, S)
    <2>1. TRUE \in BOOLEAN  OBVIOUS
    <2> QED  BY ONLY <1>10, <1>13, <2>1, cond \in {"opaque", "nil", "nonnil"}, IfLeaves
  <1>15. Leaves(ins, FALSE, h, S)
    <2>1. FALSE \in BOOLEAN  OBVIOUS
    <2> QED  BY ONLY <1>10, <1>13, <2>1, cond \in {"opaque", "nil", "nonnil"}, IfLeaves
  <1>16. Owed(n)'
    <2>1. Leaves(ins, FALSE, h, S)'  BY <1>15, PointsKept
    <2>2. Block(n)' = r  BY <1>6, <1>10 DEF Block
    <2>3. ElseFacts(Block(n))' = h
      BY <1>5, <1>12, <2>2 DEF ElseFacts, Branch, Narrow, MoveConsume, Invalidate
    <2>4. code'[n].depth = d /\ BoundTo(d)' = S  BY <1>6, <1>10, <1>12
    <2> QED  BY <1>10, <2>1, <2>3, <2>4 DEF Owed
  <1>17. ins.op \notin {"else", "endif"} /\ S = Bound'  BY <1>6, <1>10, <1>12
  <1> QED  BY <1>6, <1>9, <1>10, <1>11, <1>12, <1>14, <1>16, <1>17, PlainFlow

(* What the end of a block says is no more than its last point said.       *)
LEMMA OutNarrower ==
  ASSUME Checking, BlockAccepted, Top.falls, NEW out, out = Keep(facts, Outer)
  PROVE  Narrower(facts, Bound, out, Outer)
  <1>1. CheckerType /\ Blocks /\ facts \in Facts  BY DEF Checking, CheckerType
  <1>2. PICK d : d = Len(frames)  OBVIOUS
  <1>3. Outer \subseteq Bound /\ Bound = Outer \cup Top.scope  BY <1>1, <1>2, StackShape
  <1>4. \A x \in Top.scope : ~Live(facts, x)  BY DEF BlockAccepted
  <1>5. PICK f, S, T : f = facts /\ S = Bound /\ T = Outer  OBVIOUS
  <1>6. /\ f \in Facts /\ T \subseteq S /\ out = Keep(f, T)
        /\ \A x \in S \ T : ~Live(f, x)
    BY <1>1, <1>3, <1>4, <1>5
  <1>7. Narrower(f, S, out, T)  BY ONLY <1>6, BlockEnds
  <1> QED  BY <1>5, <1>7

(* The jumps of the innermost block that have no target yet.               *)
LEMMA OwedTop ==
  ASSUME Checking, Owing, NEW d, d = Len(frames), NEW i \in 1 .. Len(code), code[i].reached,
         code[i].depth = d - 1
  PROVE  /\ code[i].op = "if" /\ NoneAhead(i, {"else", "endif"}) =>
              Leaves(code[i], FALSE, ElseFacts(Top), Outer)
         /\ code[i].op = "else" /\ NoneAhead(i, {"endif"}) =>
              /\ Leaves(code[i], TRUE, Top.then, Outer) /\ Top.kind = "else" /\ Top.thenFalls
         /\ code[i].op = "if" /\ NoneAhead(i, {"else", "endif"}) => Top.kind = "then"
  <1>1. CheckerType /\ Blocks /\ Edges  BY DEF Checking
  <1>2. d \in Nat \ {0} /\ Top = frames[d] /\ Outer = BoundTo(d - 1)  BY <1>1, StackShape
  <1>3. DOMAIN code = 1 .. Len(code)  BY <1>1 DEF CheckerType
  <1>4. Owed(i) /\ InstrOK(i)  BY <1>1, <1>3 DEF Owing, Edges
  <1>5. Block(i) = Top  BY <1>2 DEF Block
  <1>6. \A ops, a : FirstAhead(i, a, ops) => ~NoneAhead(i, ops)  BY DEF FirstAhead, NoneAhead
  <1>7. ASSUME code[i].op = "if", NoneAhead(i, {"else", "endif"})
        PROVE  Leaves(code[i], FALSE, ElseFacts(Top), Outer) /\ Top.kind = "then"
    <2>1. IfOpen(i)  BY <1>4, <1>6, <1>7 DEF InstrOK, IfEdge, IfMet
    <2>2. Top.kind = "then"  BY <1>5, <2>1 DEF IfOpen, OpenAt
    <2>3. Leaves(code[i], FALSE, ElseFacts(Block(i)), BoundTo(code[i].depth))
      BY <1>4, <1>7 DEF Owed
    <2> QED  BY <1>2, <1>5, <2>2, <2>3
  <1>8. ASSUME code[i].op = "else", NoneAhead(i, {"endif"})
        PROVE  Leaves(code[i], TRUE, Top.then, Outer) /\ Top.kind = "else" /\ Top.thenFalls
    <2>1. ElseOpen(i)  BY <1>4, <1>6, <1>8 DEF InstrOK, ElseEdge, ElseMet
    <2>2. Top.kind = "else" /\ Top.thenFalls  BY <1>5, <2>1 DEF ElseOpen, OpenAt
    <2>3. Leaves(code[i], TRUE, Block(i).then, BoundTo(code[i].depth))
      BY <1>4, <1>8 DEF Owed
    <2> QED  BY <1>2, <1>5, <2>2, <2>3
  <1> QED  BY <1>7, <1>8

LEMMA ElseFlow ==
  ASSUME Checking, Flowing, nullable' = nullable, params' = params, Else
  PROVE  Flowing'
  <1>0. CheckerType /\ Blocks /\ Flows /\ Owing /\ Entered  BY DEF Checking, Flowing
  <1>1. PICK d, n, out : d = Len(frames) /\ n = Len(code) + 1 /\ out = Keep(facts, Outer)
    OBVIOUS
  <1>2. d \in Nat \ {0} /\ DOMAIN frames = 1 .. d /\ Top = frames[d] /\ Outer = BoundTo(d - 1)
    BY <1>0, <1>1, StackShape
  <1>3. /\ Top.kind = "then" /\ BlockAccepted
        /\ facts' = Branch(Top.before, Top.cond, Top.x, FALSE)
        /\ \E ins : ElseInstr(ins, out, d)
        /\ \E r : ElseFrame(r, out, d)
    BY <1>1, ElseShape
  <1>4. PICK ins, r : ElseInstr(ins, out, d) /\ ElseFrame(r, out, d)  BY <1>3
  <1>5. /\ Appended(ins) /\ ins.op = "else" /\ ins.depth = d - 1 /\ ins.facts = out
        /\ ins.bound = Outer /\ ins.reached = Top.falls
    BY <1>4 DEF ElseInstr
  <1>6. r \in FrameType /\ frames' = [frames EXCEPT ![d] = r] /\ r.scope = {} /\ r.then = out
    BY <1>4 DEF ElseFrame
  <1>7. /\ frames'[d] = r /\ Bound' = BoundTo(d - 1) \cup r.scope
        /\ \A m \in 1 .. d : m # d => KeptFrame(m)
        /\ \A m \in 1 .. d : BoundTo(m - 1)' = BoundTo(m - 1)
    BY <1>0, <1>1, <1>6, TopSet
  <1>8. Top.falls => Narrower(facts, Bound, ins.facts, ins.bound)
    BY <1>1, <1>3, <1>5, OutNarrower
  <1>9. PICK g, T : g = facts' /\ T = Bound'  OBVIOUS
  <1>10. g = ElseFacts(Top) /\ T = Outer  BY <1>2, <1>3, <1>6, <1>7, <1>9 DEF ElseFacts
  <1>11. Clean(ins) /\ ins.op \notin Straight  BY <1>5 DEF Clean, Straight
  <1>12. Flows'
    <2>1. ASSUME NEW i \in 1 .. Len(code), code[i].reached, code[i].depth = ins.depth,
                 code[i].op = "if", NoneAhead(i, {"else", "endif"})
          PROVE  Leaves(code[i], FALSE, g, T)
      <3>1. Leaves(code[i], FALSE, ElseFacts(Top), Outer)  BY <1>0, <1>1, <1>5, <2>1, OwedTop
      <3> QED  BY <1>10, <3>1
    <2>2. ins.op # "endif"  BY <1>5
    <2> QED  BY <1>0, <1>1, <1>5, <1>8, <1>9, <1>11, <2>1, <2>2, FlowsKept
  <1>13. Owed(n)'
    <2>1. code'[n] = ins  BY <1>0, <1>1, <1>5, OldCode
    <2>2. PICK k, S : k = d - 1 /\ S = Outer  OBVIOUS
    <2>3. Leaves(ins, TRUE, out, S)
      <3>1. ins.op \notin {"bind", "free", "if"} /\ ins.facts = out /\ ins.bound = S
        BY <1>5, <2>2
      <3> QED  BY <3>1, StillLeaves
    <2>4. Leaves(ins, TRUE, out, S)'  BY <2>3, PointsKept
    <2>5. d \in 1 .. d  BY <1>2
    <2>6. code'[n].depth = k /\ BoundTo(k)' = S  BY <1>2, <1>5, <1>7, <2>1, <2>2, <2>5
    <2>7. k + 1 = d  BY <1>2, <2>2
    <2>8. Block(n)'.then = out  BY <1>6, <1>7, <2>6, <2>7 DEF Block
    <2> QED  BY <1>5, <2>1, <2>4, <2>6, <2>8 DEF Owed
  <1>14. Owing'
    <2>1. \A m \in DOMAIN frames :
            \/ KeptFrame(m)
            \/ ins.depth = m - 1 /\ ins.op = "else" /\ frames[m].kind = "then"
      BY <1>2, <1>3, <1>5, <1>7
    <2> QED  BY <1>0, <1>1, <1>5, <1>13, <2>1, OwingKept
  <1>15. Entered'  BY <1>0, <1>5, <1>8, EnteredKept
  <1> QED  BY <1>12, <1>14, <1>15 DEF Flowing

(* What holds after an if holds at the end of each branch that gets there. *)
LEMMA JoinNarrower ==
  ASSUME NEW then, NEW else, NEW tf, NEW ef, NEW joined, Joins(then, else, tf, ef, joined)
  PROVE  /\ tf => Narrower(then, Outer, joined, Outer)
         /\ ef => Narrower(else, Outer, joined, Outer)
  <1>1. then \in Facts /\ else \in Facts /\ tf \in BOOLEAN /\ ef \in BOOLEAN  BY DEF Joins
  <1>2. PICK S : S = Outer  OBVIOUS
  <1>3. CASE tf /\ ef
    <2>1. joined = Merge(<<then, else>>) /\ \A x \in S : SameLive(then, else, x)
      BY <1>2, <1>3 DEF Joins
    <2>2. Narrower(then, S, joined, S) /\ Narrower(else, S, joined, S)
      BY <1>1, <2>1, MergeNarrower
    <2> QED  BY <1>2, <2>2
  <1>4. CASE tf /\ ~ef
    <2>1. joined = then  BY <1>4 DEF Joins
    <2> QED  BY <1>4, <2>1, NarrowerSelf
  <1>5. CASE ~tf /\ ef
    <2>1. joined = else  BY <1>5 DEF Joins
    <2> QED  BY <1>5, <2>1, NarrowerSelf
  <1> QED  BY <1>3, <1>4, <1>5

LEMMA EndIfFlow ==
  ASSUME Checking, Flowing, nullable' = nullable, params' = params, EndIf
  PROVE  Flowing'
  <1>0. CheckerType /\ Blocks /\ Flows /\ Owing /\ Entered  BY DEF Checking, Flowing
  <1>1. PICK d, n, out : d = Len(frames) /\ n = Len(code) + 1 /\ out = Keep(facts, Outer)
    OBVIOUS
  <1>2. d \in Nat \ {0} /\ DOMAIN frames = 1 .. d  BY <1>0, <1>1, StackShape
  <1>3. /\ \E ins, then, else, tf, ef, joined :
             Joins(then, else, tf, ef, joined) /\ EndIfInstr(ins, tf, ef, joined, n, d)
        /\ \A m \in 1 .. d - 1 : KeptFrame(m) /\ KeptBase(m)
        /\ BlockAccepted
    BY <1>1, EndIfShape
  <1>4. PICK ins, then, else, tf, ef, joined :
          Joins(then, else, tf, ef, joined) /\ EndIfInstr(ins, tf, ef, joined, n, d)
    BY <1>3
  <1>5. /\ Appended(ins) /\ ins.op = "endif" /\ ins.depth = d - 1
        /\ ins.facts = joined /\ ins.bound = Outer /\ code'[n] = ins
        /\ facts' = joined /\ Bound' = Outer
    BY <1>4 DEF EndIfInstr
  <1>6. \/ Top.kind = "then" /\ then = out /\ (tf <=> Top.falls) /\ ef /\ else = ElseFacts(Top)
        \/ /\ Top.kind = "else" /\ then = Top.then /\ (tf <=> Top.thenFalls)
           /\ else = out /\ (ef <=> Top.falls)
    BY <1>1, <1>4 DEF Joins, ElseFacts
  <1>7. /\ tf => Narrower(then, Outer, joined, Outer)
        /\ ef => Narrower(else, Outer, joined, Outer)
    BY <1>4, JoinNarrower
  <1>8. ASSUME Top.falls PROVE Narrower(facts, Bound, ins.facts, ins.bound)
    <2>1. Narrower(facts, Bound, out, Outer)  BY <1>1, <1>3, <1>8, OutNarrower
    <2>2. Narrower(out, Outer, joined, Outer)  BY <1>6, <1>7, <1>8
    <2>3. PICK f, S, T : f = facts /\ S = Bound /\ T = Outer  OBVIOUS
    <2>4. Narrower(f, S, joined, T)  BY <2>1, <2>2, <2>3, NarrowerTwice
    <2> QED  BY <1>5, <2>3, <2>4
  <1>9. ASSUME NEW i \in 1 .. Len(code), code[i].reached, code[i].depth = ins.depth
        PROVE  /\ code[i].op = "if" /\ NoneAhead(i, {"else", "endif"}) =>
                    Leaves(code[i], FALSE, ins.facts, ins.bound)
               /\ code[i].op = "else" /\ NoneAhead(i, {"endif"}) =>
                    Leaves(code[i], TRUE, ins.facts, ins.bound)
    <2>1. ASSUME code[i].op = "if", NoneAhead(i, {"else", "endif"})
          PROVE  Leaves(code[i], FALSE, ins.facts, ins.bound)
      <3>1. PICK c, h, T : c = code[i] /\ h = ElseFacts(Top) /\ T = Outer  OBVIOUS
      <3>2. Leaves(c, FALSE, h, T) /\ Top.kind = "then"
        BY <1>0, <1>1, <1>5, <1>9, <2>1, <3>1, OwedTop
      <3>3. Narrower(h, T, joined, T)  BY <1>6, <1>7, <3>1, <3>2
      <3>4. Leaves(c, FALSE, joined, T)  BY <3>2, <3>3, NarrowerLeaves
      <3> QED  BY <1>5, <3>1, <3>4
    <2>2. ASSUME code[i].op = "else", NoneAhead(i, {"endif"})
          PROVE  Leaves(code[i], TRUE, ins.facts, ins.bound)
      <3>1. PICK c, h, T : c = code[i] /\ h = Top.then /\ T = Outer  OBVIOUS
      <3>2. Leaves(c, TRUE, h, T) /\ Top.kind = "else" /\ Top.thenFalls
        BY <1>0, <1>1, <1>5, <1>9, <2>2, <3>1, OwedTop
      <3>3. Narrower(h, T, joined, T)  BY <1>6, <1>7, <3>1, <3>2
      <3>4. Leaves(c, TRUE, joined, T)  BY <3>2, <3>3, NarrowerLeaves
      <3> QED  BY <1>5, <3>1, <3>4
    <2> QED  BY <2>1, <2>2
  <1>10. PICK g, T : g = facts' /\ T = Bound'  OBVIOUS
  <1>11. Clean(ins) /\ Leaves(ins, TRUE, g, T)
    <2>1. Leaves(ins, TRUE, ins.facts, ins.bound)
      <3>1. ins.op \notin {"bind", "free", "if"}  BY <1>5
      <3> QED  BY <3>1, StillLeaves
    <2>2. Clean(ins)  BY <1>5 DEF Clean
    <2> QED  BY <1>5, <1>10, <2>1, <2>2
  <1>12. ins.op # "else"  BY <1>5
  <1>13. Flows'  BY <1>0, <1>1, <1>5, <1>8, <1>9, <1>10, <1>11, <1>12, FlowsKept
  <1>14. Owing'
    <2>1. \A m \in DOMAIN frames : KeptFrame(m) \/ (ins.depth = m - 1 /\ ins.op = "endif")
      BY <1>2, <1>3, <1>5
    <2>2. Owed(n)'  BY <1>5 DEF Owed
    <2> QED  BY <1>0, <1>1, <1>5, <2>1, <2>2, OwingKept
  <1>15. Entered'  BY <1>0, <1>5, <1>8, EnteredKept
  <1> QED  BY <1>13, <1>14, <1>15 DEF Flowing

(* What has been compiled stays compiled.                                  *)
LEMMA CodeGrows ==
  ASSUME CheckerType, NEW e, code' = Append(code, e), NEW op, Uses(op)
  PROVE  Uses(op)'
  <1>1. code \in Seq(InstrType)  BY DEF CheckerType
  <1>2. PICK i \in DOMAIN code : code[i].op = op  BY DEF Uses
  <1>3. i \in DOMAIN code' /\ code'[i] = code[i]  BY <1>1
  <1> QED  BY <1>2, <1>3 DEF Uses

LEMMA CompileGrows ==
  ASSUME CheckerType, Compile
  PROVE  \E e : code' = Append(code, e)
  <1>1. CASE \E x \in Binding, src \in Sources : VarDecl(x, src) \/ Assignment(x, src)
    BY <1>1 DEF VarDecl, Assignment, Emit
  <1>2. CASE \E x \in Binding : FreeBuiltin(x) \/ Dispose(x)
    BY <1>2 DEF FreeBuiltin, Dispose, Emit
  <1>3. CASE \E x \in Binding, cond \in {"nil", "nonnil"} : If(cond, x)
    BY <1>3 DEF If, Emit
  <1>4. CASE If("opaque", "none")  BY <1>4 DEF If, Emit
  <1>5. CASE Else  BY <1>5 DEF Else
  <1>6. CASE EndIf  BY <1>6 DEF EndIf, Close
  <1>7. CASE Loop  BY <1>7 DEF Loop, Emit
  <1>8. CASE Break  BY <1>8 DEF Break, EmitJump
  <1>9. CASE Continue  BY <1>9 DEF Continue, EmitJump
  <1>10. CASE EndLoop  BY <1>10 DEF EndLoop, Close
  <1>11. CASE Return  BY <1>11 DEF Return, EmitJump
  <1> QED  BY <1>1, <1>2, <1>3, <1>4, <1>5, <1>6, <1>7, <1>8, <1>9, <1>10, <1>11 DEF Compile

(* Without a loop instruction no loop is open, and Loop compiles one.      *)
LEMMA LoopFree ==
  ASSUME Checking, ~Uses("loop")
  PROVE  Loops = {} /\ Top.kind # "loop"
  <1>1. CheckerType /\ Blocks  BY DEF Checking
  <1>2. \A m \in DOMAIN frames : frames[m].kind # "loop"
    <2> SUFFICES ASSUME NEW m \in DOMAIN frames, frames[m].kind = "loop" PROVE FALSE
      OBVIOUS
    <2>1. PICK l \in DOMAIN code : OpenLoop(m, l)  BY <1>1 DEF Blocks, IsLoop
    <2>2. code[l].op = "loop"  BY <2>1 DEF OpenLoop
    <2> QED  BY <2>2 DEF Uses
  <1>3. PICK d : d = Len(frames)  OBVIOUS
  <1>4. d \in Nat \ {0} /\ Top = frames[d] /\ DOMAIN frames = 1 .. d  BY <1>1, <1>3, StackShape
  <1> QED  BY <1>2, <1>4 DEF Loops

LEMMA LoopUses ==
  ASSUME CheckerType, Loop
  PROVE  Uses("loop")'
  <1>1. PICK e : e = Instr("loop", "none", "nil", Len(frames), facts, Bound, Top.falls)  OBVIOUS
  <1>2. code' = Append(code, e) /\ e.op = "loop"  BY <1>1 DEF Loop, Emit, Instr
  <1>3. code \in Seq(InstrType)  BY DEF CheckerType
  <1>4. Len(code) + 1 \in DOMAIN code' /\ code'[Len(code) + 1] = e  BY <1>2, <1>3
  <1> QED  BY <1>2, <1>4 DEF Uses

LEMMA CompileFlow ==
  ASSUME Checking, Flowing, Compile, ~Uses("loop")'
  PROVE  Flowing'
  <1>1. nullable' = nullable /\ params' = params /\ CheckerType  BY DEF Compile, Checking
  <1>2. ~Uses("loop")  BY <1>1, CompileGrows, CodeGrows
  <1>3. Loops = {} /\ Top.kind # "loop"  BY <1>2, LoopFree
  <1>4. CASE \E x \in Binding, src \in Sources : VarDecl(x, src) \/ Assignment(x, src)
    BY <1>1, <1>4, VarDeclFlow, AssignmentFlow
  <1>5. CASE \E x \in Binding : FreeBuiltin(x) \/ Dispose(x)
    BY <1>1, <1>5, FreeFlow, DisposeFlow
  <1>6. CASE \E x \in Binding, cond \in {"nil", "nonnil"} : If(cond, x)
    BY <1>1, <1>6, IfFlow
  <1>7. CASE If("opaque", "none")
    <2>1. PICK cond, x : cond = "opaque" /\ x = "none"  OBVIOUS
    <2>2. cond \in {"opaque", "nil", "nonnil"} /\ x \in Binding \cup {"none"} /\ If(cond, x)
      BY <1>7, <2>1
    <2> QED  BY <1>1, <2>2, IfFlow
  <1>8. CASE Else  BY <1>1, <1>8, ElseFlow
  <1>9. CASE EndIf  BY <1>1, <1>9, EndIfFlow
  <1>10. CASE Return  BY <1>1, <1>10, ReturnFlow
  <1>11. CASE Loop  BY <1>1, <1>11, LoopUses
  <1>12. CASE Break \/ Continue \/ EndLoop  BY <1>3, <1>12 DEF Break, Continue, EndLoop
  <1> QED
    BY <1>4, <1>5, <1>6, <1>7, <1>8, <1>9, <1>10, <1>11, <1>12 DEF Compile

-----------------------------------------------------------------------------
(* The end of the function: the facts hold of its arguments.               *)
LEMMA EndFlows ==
  ASSUME Checking, Flowing, EndFunction
  PROVE  Flows' /\ Entered'
  <1>0. CheckerType /\ facts \in Facts /\ Flows /\ Entered  BY DEF Checking, CheckerType, Flowing
  <1>1. PICK ins : ins = Instr("end", "none", "nil", 0, facts, params, Top.falls)  OBVIOUS
  <1>2. /\ Appended(ins) /\ ins.op = "end" /\ ins.facts = facts /\ ins.bound = params
        /\ params \subseteq Bound /\ Bound \subseteq params \cup Top.scope /\ ins.reached = Top.falls
    BY <1>1, EndShape
  <1>3. /\ Top.falls => \A x \in Top.scope : ~Live(facts, x)
        /\ \A x \in params : ~Live(facts, x)
    BY DEF EndFunction, BlockAccepted
  <1>4. ASSUME Top.falls PROVE Narrower(facts, Bound, ins.facts, ins.bound)
    <2>1. PICK f, S, T, g : f = facts /\ S = Bound /\ T = params /\ g = facts  OBVIOUS
    <2>2. f \in Facts /\ T \subseteq S /\ (\A x \in S \ T : ~Live(f, x)) /\ g = f
      BY <1>0, <1>2, <1>3, <1>4, <2>1
    <2>3. Narrower(f, S, g, T)  BY ONLY <2>2, BlockEnds
    <2> QED  BY <1>2, <2>1, <2>3
  <1>5. Clean(ins)  BY <1>2, <1>3 DEF Clean, Owns, Live
  <1>6. ins.op \notin Straight /\ ins.op \notin {"else", "endif"}  BY <1>2 DEF Straight
  <1>7. PICK n, g, T : n = Len(code) + 1 /\ g = facts' /\ T = Bound'  OBVIOUS
  <1>8. Flows'  BY <1>0, <1>2, <1>4, <1>5, <1>6, <1>7, FlowsKept
  <1>9. Entered'  BY <1>0, <1>2, <1>4, EnteredKept
  <1> QED  BY <1>8, <1>9

LEMMA EndFlow ==
  ASSUME Checking, Flowing, EndFunction
  PROVE  Flows' /\ Truth'
  <1>1. Flows' /\ Entered'  BY EndFlows
  <1>2. /\ pc' = 1 /\ nullable' = nullable /\ params' = params  BY DEF EndFunction
  <1>3. 1 \in DOMAIN code'
    <2>1. code \in Seq(InstrType)  BY DEF Checking, CheckerType
    <2>2. \E e : code' = Append(code, e)  BY DEF EndFunction
    <2> QED  BY <2>1, <2>2
  <1>4. PICK f, S : f = code'[1].facts /\ S = code'[1].bound  OBVIOUS
  <1>5. PICK e : e = Entry  OBVIOUS
  <1>6. Leaves(e, TRUE, f, S)
    <2>1. Entry' = Entry  BY <1>2 DEF Entry, Instr, NoFacts
    <2>2. f = PointFacts(1)' /\ S = PointBound(1)'  BY <1>3, <1>4 DEF PointFacts, PointBound
    <2>3. Leaves(e, TRUE, f, S)'  BY <1>1, <1>5, <2>1, <2>2 DEF Entered
    <2> QED  BY <1>2, <2>3, PointsKept
  <1>7. /\ e.op = "endif" /\ e.facts.null = {} /\ e.facts.nonnull = {} /\ e.facts.moved = {}
        /\ e.bound = params
    BY <1>5 DEF Entry, Instr, NoFacts
  <1>8. /\ Nil(f, S) = {} /\ NonNil(f, S) \subseteq params \ nullable
        /\ nullable = {} => params \subseteq Owns(f, S)
    BY <1>6, <1>7 DEF Leaves, NilAfter, NonNilAfter, OwnsAfter, Nil, NonNil, Owns
  <1>9. PICK given \in SUBSET params : \E arg \in [given -> 1 .. Cardinality(given)] :
           /\ params \ nullable \subseteq given
           /\ \A x, y \in given : arg[x] = arg[y] => x = y
           /\ env' = [x \in Binding |-> IF x \in given THEN arg[x] ELSE 0]
           /\ heap' = [i \in 1 .. Cardinality(given) |-> "live"]
    BY DEF EndFunction
  <1>10. PICK c : c = Cardinality(given)  OBVIOUS
  <1>11. PICK arg \in [given -> 1 .. c] :
           /\ params \ nullable \subseteq given
           /\ \A x, y \in given : arg[x] = arg[y] => x = y
           /\ env' = [x \in Binding |-> IF x \in given THEN arg[x] ELSE 0]
           /\ heap' = [i \in 1 .. c |-> "live"]
    BY <1>9, <1>10
  <1>12. params \in ParamSets /\ params \subseteq Binding  BY DEF Checking, CheckerType
  <1>13. IsFiniteSet(given) /\ c \in Nat
    BY <1>10, <1>12, OwnershipConstants, FS_Subset, FS_CardinalityType
  <1>14. \A x \in given : env'[x] = arg[x] /\ arg[x] \in 1 .. c  BY <1>11, <1>12
  <1>15. \A x \in NonNil(f, S) : env'[x] # 0  BY <1>8, <1>11, <1>13, <1>14
  <1>16. ASSUME nullable = {}, NEW o \in DOMAIN heap' PROVE \E x \in Owns(f, S) : env'[x] = o
    <2>1. given = params /\ o \in 1 .. c  BY <1>11, <1>16
    <2>2. IsFiniteSet(1 .. c) /\ Cardinality(1 .. c) = c  BY <1>13, FS_Interval
    <2>3. arg \in Injection(given, 1 .. c)  BY <1>11 DEF Injection, IsInjective
    <2>4. arg \in Surjection(given, 1 .. c)
      BY <1>10, <1>13, <2>2, <2>3, FS_Injection
    <2>5. PICK x \in given : arg[x] = o  BY <2>1, <2>4 DEF Surjection
    <2> QED  BY <1>8, <1>14, <1>16, <2>1, <2>5
  <1>17. PICK N, M, O : N = Nil(f, S) /\ M = NonNil(f, S) /\ O = Owns(f, S)  OBVIOUS
  <1>18. Says(N, M, O)'
    <2>1. nullable = {} => Covered(O)'  BY <1>16, <1>17 DEF Covered
    <2> QED  BY <1>2, <1>8, <1>15, <1>17, <2>1 DEF Says
  <1>19. /\ N = Nil(code[pc].facts, code[pc].bound)'
         /\ M = NonNil(code[pc].facts, code[pc].bound)' /\ O = OwnersAt(pc)'
    BY <1>2, <1>4, <1>17 DEF Nil, NonNil, OwnersAt, Owns
  <1>20. Truth'
    <2>1. pc' \in DOMAIN code'  BY <1>2, <1>3
    <2> QED  BY <1>18, <1>19, <2>1 DEF Truth
  <1> QED  BY <1>1, <1>20

-----------------------------------------------------------------------------
(* Running.  What an instruction leaves is so at the point it leads to.    *)
LEMMA FlowsStay ==
  ASSUME Compiled
  PROVE  (Flows => Flows') /\ \A op : Uses(op)' <=> Uses(op)
  <1>1. nullable' = nullable /\ params' = params /\ code' = code /\ facts' = facts /\ frames' = frames
    BY DEF Compiled
  <1>2. /\ \A ins, b, f, S : Leaves(ins, b, f, S)' <=> Leaves(ins, b, f, S)
        /\ \A ins : Clean(ins)' <=> Clean(ins)
    BY <1>1, PointsKept
  <1>3. Bound' = Bound  BY <1>1 DEF Bound, Scope
  <1>4. \A j : PointFacts(j)' = PointFacts(j) /\ PointBound(j)' = PointBound(j)
    BY <1>1, <1>3 DEF PointFacts, PointBound
  <1>5. \A i, a, ops : FirstAhead(i, a, ops)' <=> FirstAhead(i, a, ops)
    BY <1>1 DEF FirstAhead, Same
  <1>6. \A i, b, j : Goes(i, b, j)' <=> Goes(i, b, j)  BY <1>1, <1>5 DEF Goes
  <1>7. ASSUME NEW i, FlowOK(i) PROVE FlowOK(i)'
    <2>1. PICK c : c = code[i]  OBVIOUS
    <2>2. Clean(c)' /\ c = code'[i]  BY <1>1, <1>2, <1>7, <2>1 DEF FlowOK
    <2>3. ASSUME NEW b \in BOOLEAN, NEW j \in 1 .. Len(code) + 1, Goes(i, b, j)
          PROVE  Leaves(code[i], b, PointFacts(j), PointBound(j))'
      <3>1. PICK f, S : f = PointFacts(j) /\ S = PointBound(j)  OBVIOUS
      <3>2. Leaves(c, b, f, S)  BY <1>7, <2>1, <2>3, <3>1 DEF FlowOK
      <3>3. Leaves(c, b, f, S)'  BY <1>2, <3>2
      <3>4. f = PointFacts(j)' /\ S = PointBound(j)'  BY <1>4, <3>1
      <3> QED  BY <2>2, <3>3, <3>4
    <2> QED  BY <1>1, <1>6, <2>2, <2>3 DEF FlowOK
  <1>8. Flows => Flows'  BY <1>1, <1>7 DEF Flows
  <1>9. \A op : Uses(op)' <=> Uses(op)  BY <1>1 DEF Uses
  <1> QED  BY <1>8, <1>9

LEMMA Arrive ==
  ASSUME CheckerType, Flows, Compiled, pc \in DOMAIN code, code[pc].reached,
         NEW b \in BOOLEAN, NEW j \in DOMAIN code, pc' = j, Goes(pc, b, j),
         NEW N, N = NilAfter(code[pc], b), NEW M, M = NonNilAfter(code[pc], b),
         NEW O, O = OwnsAfter(code[pc]), Says(N, M, O)'
  PROVE  Truth'
  <1>1. nullable' = nullable /\ code' = code  BY DEF Compiled
  <1>2. PICK f, S : f = code[j].facts /\ S = code[j].bound  OBVIOUS
  <1>3. DOMAIN code = 1 .. Len(code) /\ Len(code) \in Nat  BY DEF CheckerType
  <1>4. j \in 1 .. Len(code) + 1  BY <1>3
  <1>5. f = PointFacts(j) /\ S = PointBound(j)  BY <1>2 DEF PointFacts, PointBound
  <1>6. Leaves(code[pc], b, f, S)  BY <1>4, <1>5 DEF Flows, FlowOK
  <1>7. /\ Nil(f, S) \subseteq N /\ NonNil(f, S) \subseteq M
        /\ nullable = {} /\ ~Uses("dispose") => O \subseteq Owns(f, S)
    BY <1>6 DEF Leaves, Uses
  <1>8. PICK A, B, P : A = Nil(f, S) /\ B = NonNil(f, S) /\ P = Owns(f, S)  OBVIOUS
  <1>9. \A op : Uses(op)' <=> Uses(op)  BY FlowsStay
  <1>10. ASSUME nullable = {}, ~Uses("dispose") PROVE Covered(P)'
    <2>1. Covered(O)'  BY <1>1, <1>9, <1>10 DEF Says
    <2>2. O \subseteq P  BY <1>7, <1>8, <1>10
    <2> QED  BY <2>1, <2>2 DEF Covered
  <1>11. (\A x \in A : env'[x] = 0) /\ (\A x \in B : env'[x] # 0)  BY <1>7, <1>8 DEF Says
  <1>12. Says(A, B, P)'  BY <1>1, <1>9, <1>10, <1>11 DEF Says
  <1>13. /\ A = Nil(code[pc].facts, code[pc].bound)'
         /\ B = NonNil(code[pc].facts, code[pc].bound)' /\ P = OwnersAt(pc)'
    BY <1>1, <1>2, <1>8 DEF Nil, NonNil, OwnersAt, Owns
  <1>14. pc' \in DOMAIN code'  BY <1>1
  <1> QED  BY <1>12, <1>13, <1>14 DEF Truth

(* What a run knows at an instruction.                                     *)
Here(N, M, O) ==
  /\ N = Nil(code[pc].facts, code[pc].bound) /\ M = NonNil(code[pc].facts, code[pc].bound)
  /\ O = OwnersAt(pc) /\ O = Owns(code[pc].facts, code[pc].bound) /\ Says(N, M, O)
  /\ N \subseteq Binding /\ M \subseteq Binding /\ O \subseteq Binding

LEMMA AtPoint ==
  ASSUME CheckerType, Edges, Machine, Flows, Truth, pc \in DOMAIN code
  PROVE  /\ \E N, M, O : Here(N, M, O)
         /\ Clean(code[pc]) /\ code[pc].reached /\ InstrOK(pc)
         /\ \A j : Edge(pc, j) => j \in DOMAIN code
         /\ heap \in Seq({"live", "freed"}) /\ Len(heap) \in Nat
         /\ DOMAIN heap = 1 .. Len(heap) /\ env \in [Binding -> 0 .. Len(heap)]
         /\ nullable \subseteq Binding
  <1>1. /\ code[pc].reached /\ InstrOK(pc) /\ code[pc] \in InstrType
        /\ \A j : Edge(pc, j) => j \in DOMAIN code
    BY RunState
  <1>2. PICK N, M, O : /\ N = Nil(code[pc].facts, code[pc].bound)
                       /\ M = NonNil(code[pc].facts, code[pc].bound)
                       /\ O = OwnersAt(pc)
    OBVIOUS
  <1>3. Says(N, M, O)  BY <1>2 DEF Truth
  <1>4. code[pc].bound \subseteq Binding  BY <1>1 DEF InstrType
  <1>5. N \subseteq Binding /\ M \subseteq Binding /\ O \subseteq Binding
    BY <1>2, <1>4 DEF Nil, NonNil, OwnersAt, Owns
  <1>6. O = Owns(code[pc].facts, code[pc].bound)  BY <1>2 DEF OwnersAt
  <1>7. Here(N, M, O)  BY <1>2, <1>3, <1>5, <1>6 DEF Here
  <1>8. Clean(code[pc])  BY <1>1 DEF Flows, FlowOK
  <1>9. /\ heap \in Seq({"live", "freed"}) /\ Len(heap) \in Nat /\ DOMAIN heap = 1 .. Len(heap)
        /\ env \in [Binding -> 0 .. Len(heap)] /\ nullable \subseteq Binding
    BY DEF Machine, CheckerType
  <1> QED  BY <1>1, <1>7, <1>8, <1>9

LEMMA RunBindFlow ==
  ASSUME CheckerType, Edges, Machine, Flows, Truth, Compiled, RunBind
  PROVE  Truth'
  <1>1. pc \in DOMAIN code /\ code[pc].op = "bind" /\ pc' = pc + 1  BY DEF RunBind, At, Now
  <1>2. PICK N0, M0, O0 : Here(N0, M0, O0)  BY <1>1, AtPoint
  <1>3. /\ Clean(code[pc]) /\ code[pc].reached /\ InstrOK(pc) /\ nullable \subseteq Binding
        /\ \A j : Edge(pc, j) => j \in DOMAIN code
        /\ heap \in Seq({"live", "freed"}) /\ Len(heap) \in Nat /\ DOMAIN heap = 1 .. Len(heap)
        /\ env \in [Binding -> 0 .. Len(heap)]
    BY <1>1, AtPoint
  <1>4. PICK x, y, j : x = code[pc].x /\ y = code[pc].src /\ j = pc + 1  OBVIOUS
  <1>5. x \in Binding /\ y \in Sources /\ (y \in Binding => y \in O0)
    BY <1>1, <1>2, <1>3, <1>4 DEF InstrOK, Here
  <1>6. j \in DOMAIN code /\ Goes(pc, TRUE, j)
    <2>1. code[pc].op \in Straight  BY <1>1 DEF Straight
    <2>2. Edge(pc, j)  BY <1>3, <1>4, <2>1 DEF InstrOK
    <2> QED  BY <1>3, <1>4, <2>1, <2>2 DEF Goes
  <1>7. PICK N, M, O : /\ N = NilAfter(code[pc], TRUE) /\ M = NonNilAfter(code[pc], TRUE)
                       /\ O = OwnsAfter(code[pc])
    OBVIOUS
  <1>8. /\ N = (N0 \ {x}) \cup (({y} \cap nullable) \ {x}) \cup (IF y = "nil" THEN {x} ELSE {})
        /\ M = (M0 \ ({x} \cup ({y} \cap nullable)))
                 \cup (IF y = "alloc" \/ y \in M0 \ {x} THEN {x} ELSE {})
        /\ O = (O0 \ {y}) \cup {x}
    BY <1>1, <1>2, <1>4, <1>7 DEF NilAfter, NonNilAfter, OwnsAfter, Here
  <1>9. /\ \A z \in N0 : env[z] = 0
        /\ \A z \in M0 : env[z] # 0
        /\ nullable = {} /\ ~Uses("dispose") => Covered(O0)
        /\ N0 \subseteq Binding /\ M0 \subseteq Binding /\ O0 \subseteq Binding
    BY <1>2 DEF Here, Says
  <1>10. nullable = {} => x \notin O0  BY <1>1, <1>2, <1>3, <1>4 DEF Clean, Here
  <1>11. "alloc" \notin Binding /\ "nil" \notin Binding  BY OwnershipConstants
  <1>12. SUFFICES /\ \A z \in N : env'[z] = 0
                  /\ \A z \in M : env'[z] # 0
                  /\ nullable = {} /\ Covered(O0) => Covered(O)'
    <2>1. nullable' = nullable /\ (Uses("dispose")' <=> Uses("dispose"))
      BY FlowsStay DEF Compiled
    <2>2. Says(N, M, O)'  BY <1>9, <1>12, <2>1 DEF Says
    <2>3. PICK b \in BOOLEAN : b = TRUE  OBVIOUS
    <2> QED  BY <1>1, <1>3, <1>4, <1>6, <1>7, <2>2, <2>3, Arrive
  <1>13. CASE y = "alloc"
    <2>1. heap' = Append(heap, "live") /\ env' = [env EXCEPT ![x] = Len(heap) + 1]
      BY <1>4, <1>13 DEF RunBind, Now
    <2>2. /\ DOMAIN heap' = 1 .. Len(heap) + 1 /\ \A o \in 1 .. Len(heap) : heap'[o] = heap[o]
      BY <1>3, <2>1
    <2>3. env'[x] = Len(heap) + 1 /\ \A z \in Binding \ {x} : env'[z] = env[z]
      BY <1>3, <1>5, <2>1
    <2>4. y \notin Binding /\ y # "nil"  BY <1>11, <1>13
    <2>5. \A z \in N : env'[z] = 0  BY <1>3, <1>8, <1>9, <2>3, <2>4
    <2>6. \A z \in M : env'[z] # 0  BY <1>3, <1>8, <1>9, <2>3
    <2>7. ASSUME nullable = {}, Covered(O0) PROVE Covered(O)'
      <3> SUFFICES ASSUME NEW o \in DOMAIN heap', heap'[o] = "live" PROVE \E z \in O : env'[z] = o
        BY DEF Covered
      <3>1. CASE o = Len(heap) + 1  BY <1>8, <2>3, <3>1
      <3>2. CASE o \in 1 .. Len(heap)
        <4>1. PICK z \in O0 : env[z] = o  BY <1>3, <2>2, <2>7, <3>2 DEF Covered
        <4>2. z # x /\ z # y /\ z \in Binding  BY <1>9, <1>10, <2>4, <2>7
        <4> QED  BY <1>8, <2>3, <4>1, <4>2
      <3> QED  BY <1>3, <2>2, <3>1, <3>2
    <2> QED  BY <2>5, <2>6, <2>7
  <1>14. CASE y = "nil"
    <2>1. heap' = heap /\ env' = [env EXCEPT ![x] = 0]  BY <1>4, <1>14 DEF RunBind, Now
    <2>2. env'[x] = 0 /\ \A z \in Binding \ {x} : env'[z] = env[z]  BY <1>3, <1>5, <2>1
    <2>3. y \notin Binding /\ y # "alloc"  BY <1>11, <1>14
    <2>4. \A z \in N : env'[z] = 0  BY <1>3, <1>8, <1>9, <2>2, <2>3
    <2>5. \A z \in M : env'[z] # 0  BY <1>8, <1>9, <2>2, <2>3
    <2>6. ASSUME nullable = {}, Covered(O0) PROVE Covered(O)'
      <3> SUFFICES ASSUME NEW o \in DOMAIN heap, heap[o] = "live" PROVE \E z \in O : env'[z] = o
        BY <2>1 DEF Covered
      <3>1. PICK z \in O0 : env[z] = o  BY <2>6 DEF Covered
      <3>2. z # x /\ z # y /\ z \in Binding  BY <1>9, <1>10, <2>3, <2>6
      <3> QED  BY <1>8, <2>2, <3>1, <3>2
    <2> QED  BY <2>4, <2>5, <2>6
  <1>15. CASE y \in Binding
    <2>1. /\ heap' = heap
          /\ env' = IF y \in nullable THEN [env EXCEPT ![x] = env[y], ![y] = 0]
                    ELSE [env EXCEPT ![x] = env[y]]
      BY <1>4, <1>11, <1>15 DEF RunBind, Now
    <2>2. /\ x # y => env'[x] = env[y]
          /\ \A z \in Binding \ {x, y} : env'[z] = env[z]
          /\ y \in nullable => env'[y] = 0
          /\ y \notin nullable => env'[y] = env[y] /\ env'[x] = env[y]
      BY <1>3, <1>5, <1>15, <2>1
    <2>3. y # "nil" /\ y # "alloc"  BY <1>11, <1>15
    <2>4. \A z \in N : env'[z] = 0  BY <1>8, <1>9, <2>2, <2>3
    <2>5. \A z \in M : env'[z] # 0  BY <1>8, <1>9, <2>2, <2>3
    <2>6. ASSUME nullable = {}, Covered(O0) PROVE Covered(O)'
      <3> SUFFICES ASSUME NEW o \in DOMAIN heap, heap[o] = "live" PROVE \E z \in O : env'[z] = o
        BY <2>1 DEF Covered
      <3>1. PICK z \in O0 : env[z] = o  BY <2>6 DEF Covered
      <3>2. z # x /\ z \in Binding /\ y # x /\ y \notin nullable  BY <1>5, <1>9, <1>10, <1>15, <2>6
      <3>3. CASE z = y  BY <1>8, <2>2, <3>1, <3>2, <3>3
      <3>4. CASE z # y  BY <1>8, <2>2, <3>1, <3>2, <3>4
      <3> QED  BY <3>3, <3>4
    <2> QED  BY <2>4, <2>5, <2>6
  <1> QED  BY <1>5, <1>13, <1>14, <1>15 DEF Sources

LEMMA RunFreeFlow ==
  ASSUME CheckerType, Edges, Machine, Flows, Truth, Compiled, RunFree
  PROVE  Truth'
  <1>1. pc \in DOMAIN code /\ code[pc].op = "free" /\ pc' = pc + 1  BY DEF RunFree, At, Now
  <1>2. PICK N0, M0, O0 : Here(N0, M0, O0)  BY <1>1, AtPoint
  <1>3. /\ code[pc].reached /\ InstrOK(pc) /\ \A j : Edge(pc, j) => j \in DOMAIN code
        /\ heap \in Seq({"live", "freed"}) /\ Len(heap) \in Nat /\ DOMAIN heap = 1 .. Len(heap)
        /\ env \in [Binding -> 0 .. Len(heap)]
    BY <1>1, AtPoint
  <1>4. PICK x, j : x = code[pc].x /\ j = pc + 1  OBVIOUS
  <1>5. x \in O0  BY <1>1, <1>2, <1>3, <1>4 DEF InstrOK, Here
  <1>6. j \in DOMAIN code /\ Goes(pc, TRUE, j)
    <2>1. code[pc].op \in Straight  BY <1>1 DEF Straight
    <2>2. Edge(pc, j)  BY <1>3, <1>4, <2>1 DEF InstrOK
    <2> QED  BY <1>3, <1>4, <2>1, <2>2 DEF Goes
  <1>7. PICK N, M, O : /\ N = NilAfter(code[pc], TRUE) /\ M = NonNilAfter(code[pc], TRUE)
                       /\ O = OwnsAfter(code[pc])
    OBVIOUS
  <1>8. /\ N = N0 \cup ({x} \cap nullable) /\ M = M0 \ ({x} \cap nullable) /\ O = O0 \ {x}
    BY <1>1, <1>2, <1>4, <1>7 DEF NilAfter, NonNilAfter, OwnsAfter, Here
  <1>9. /\ \A z \in N0 : env[z] = 0
        /\ \A z \in M0 : env[z] # 0
        /\ nullable = {} /\ ~Uses("dispose") => Covered(O0)
        /\ N0 \subseteq Binding /\ M0 \subseteq Binding /\ O0 \subseteq Binding
    BY <1>2 DEF Here, Says
  <1>10. env' = IF x \in nullable THEN [env EXCEPT ![x] = 0] ELSE env
    BY <1>4 DEF RunFree, Now
  <1>11. /\ x \in nullable => env'[x] = 0
         /\ \A z \in Binding : z \notin {x} \cap nullable => env'[z] = env[z]
    BY <1>3, <1>5, <1>9, <1>10
  <1>12. \A z \in N : env'[z] = 0  BY <1>8, <1>9, <1>11
  <1>13. \A z \in M : env'[z] # 0  BY <1>8, <1>9, <1>11
  <1>14. ASSUME nullable = {}, Covered(O0) PROVE Covered(O)'
    <2>1. PICK o : o = env[x]  OBVIOUS
    <2>2. o \in 0 .. Len(heap) /\ env' = env  BY <1>3, <1>5, <1>9, <1>10, <1>14, <2>1
    <2>3. heap' = IF o = 0 THEN heap
                  ELSE [heap EXCEPT ![o] = IF heap[o] = "live" THEN "freed" ELSE "freed again"]
      BY <1>4, <2>1 DEF RunFree, Now
    <2>4. DOMAIN heap' = DOMAIN heap  BY <2>3
    <2> SUFFICES ASSUME NEW i \in DOMAIN heap, heap'[i] = "live" PROVE \E z \in O : env[z] = i
      BY <2>2, <2>4 DEF Covered
    <2>5. i # o
      <3>1. CASE o = 0  BY <1>3, <3>1
      <3>2. CASE i = o /\ o # 0
        <4>1. heap'[i] \in {"freed", "freed again"}  BY <2>3, <3>2
        <4> QED  BY <4>1
      <3> QED  BY <3>1, <3>2
    <2>6. heap[i] = "live"  BY <2>3, <2>5
    <2>7. PICK z \in O0 : env[z] = i  BY <1>14, <2>6 DEF Covered
    <2> QED  BY <1>8, <2>1, <2>5, <2>7
  <1>15. nullable' = nullable /\ (Uses("dispose")' <=> Uses("dispose"))
    BY FlowsStay DEF Compiled
  <1>16. Says(N, M, O)'  BY <1>9, <1>12, <1>13, <1>14, <1>15 DEF Says
  <1>17. PICK b \in BOOLEAN : b = TRUE  OBVIOUS
  <1> QED  BY <1>1, <1>3, <1>4, <1>6, <1>7, <1>16, <1>17, Arrive

(* A step that only goes elsewhere.                                        *)
LEMMA GoFlow ==
  ASSUME CheckerType, Edges, Machine, Flows, Truth, Compiled, env' = env, heap' = heap,
         pc \in DOMAIN code, code[pc].op \notin {"bind", "free"},
         NEW b \in BOOLEAN, NEW j \in DOMAIN code, pc' = j, Goes(pc, b, j),
         code[pc].op = "if" => /\ code[pc].src = "nil" => (b <=> env[code[pc].x] = 0)
                               /\ code[pc].src = "nonnil" => (b <=> env[code[pc].x] # 0)
  PROVE  Truth'
  <1>1. PICK N0, M0, O0 : Here(N0, M0, O0)  BY AtPoint
  <1>2. code[pc].reached  BY AtPoint
  <1>3. PICK N, M, O : /\ N = NilAfter(code[pc], b) /\ M = NonNilAfter(code[pc], b)
                       /\ O = OwnsAfter(code[pc])
    OBVIOUS
  <1>4. PICK x, p, q : /\ x = code[pc].x
                       /\ p = (IF b THEN "nil" ELSE "nonnil") /\ q = (IF b THEN "nonnil" ELSE "nil")
    OBVIOUS
  <1>5. /\ N = IF code[pc].op = "if" /\ code[pc].src = p THEN N0 \cup {x} ELSE N0
        /\ M = IF code[pc].op = "if" /\ code[pc].src = q THEN M0 \cup {x} ELSE M0
        /\ O = O0
    BY <1>1, <1>3, <1>4 DEF NilAfter, NonNilAfter, OwnsAfter, Here
  <1>6. /\ \A z \in N0 : env[z] = 0
        /\ \A z \in M0 : env[z] # 0
        /\ nullable = {} /\ ~Uses("dispose") => Covered(O0)
    BY <1>1 DEF Here, Says
  <1>7. ASSUME code[pc].op = "if", code[pc].src = p PROVE env[x] = 0  BY <1>4, <1>7
  <1>8. ASSUME code[pc].op = "if", code[pc].src = q PROVE env[x] # 0  BY <1>4, <1>8
  <1>9. (\A z \in N : env'[z] = 0) /\ \A z \in M : env'[z] # 0  BY <1>5, <1>6, <1>7, <1>8
  <1>10. nullable' = nullable /\ (Uses("dispose")' <=> Uses("dispose"))
    BY FlowsStay DEF Compiled
  <1>11. Covered(O0) => Covered(O)'  BY <1>5 DEF Covered
  <1>12. Says(N, M, O)'  BY <1>6, <1>9, <1>10, <1>11 DEF Says
  <1> QED  BY <1>2, <1>3, <1>12, Arrive

LEMMA RunIfFlow ==
  ASSUME CheckerType, Edges, Machine, Flows, Truth, Compiled, RunIf
  PROVE  Truth'
  <1>1. pc \in DOMAIN code /\ code[pc].op = "if" /\ env' = env /\ heap' = heap
    BY DEF RunIf, At, Now
  <1>2. /\ InstrOK(pc) /\ ~IfOpen(pc) /\ \A j : Edge(pc, j) => j \in DOMAIN code
    BY <1>1, RunState
  <1>3. Edge(pc, pc + 1) /\ IfMet(pc)  BY <1>1, <1>2 DEF InstrOK, Straight, IfEdge
  <1>4. PICK a \in DOMAIN code : /\ FirstAhead(pc, a, {"else", "endif"})
                                 /\ Edge(pc, IF code[a].op = "else" THEN a + 1 ELSE a)
    BY <1>3 DEF IfMet
  <1>5. Ahead({"else", "endif"}) = a  BY <1>1, <1>4, AheadIs
  <1>6. PICK b \in BOOLEAN :
          /\ code[pc].src = "nil" => b = (env[code[pc].x] = 0)
          /\ code[pc].src = "nonnil" => b = (env[code[pc].x] # 0)
          /\ pc' = IF b THEN pc + 1
                   ELSE IF code[Ahead({"else", "endif"})].op = "else"
                          THEN Ahead({"else", "endif"}) + 1 ELSE Ahead({"else", "endif"})
    BY DEF RunIf, Now
  <1>7. PICK j : j = pc'  OBVIOUS
  <1>8. j \in DOMAIN code /\ Goes(pc, b, j)
    <2>1. CASE b
      <3>1. j = pc + 1 /\ code[pc].op \in Straight  BY <1>1, <1>6, <1>7, <2>1 DEF Straight
      <3> QED  BY <1>2, <1>3, <2>1, <3>1 DEF Goes
    <2>2. CASE ~b
      <3>1. j = IF code[a].op = "else" THEN a + 1 ELSE a  BY <1>5, <1>6, <1>7, <2>2
      <3> QED  BY <1>1, <1>2, <1>4, <2>2, <3>1 DEF Goes
    <2> QED  BY <2>1, <2>2
  <1>9. code[pc].op \notin {"bind", "free"}  BY <1>1
  <1> QED  BY <1>1, <1>6, <1>7, <1>8, <1>9, GoFlow

LEMMA RunJumpFlow ==
  ASSUME CheckerType, Edges, Machine, Flows, Truth, Compiled, RunJump
  PROVE  Truth'
  <1>1. pc \in DOMAIN code /\ env' = env /\ heap' = heap  BY DEF RunJump, At
  <1>2. /\ InstrOK(pc) /\ ~ElseOpen(pc) /\ \A j : Edge(pc, j) => j \in DOMAIN code
        /\ pc \in 1 .. Len(code) /\ Len(code) \in Nat /\ DOMAIN code = 1 .. Len(code)
    BY <1>1, RunState
  <1>3. Clean(code[pc])  BY <1>1, AtPoint
  <1>4. code' = code /\ nullable' = nullable /\ (Uses("dispose")' <=> Uses("dispose"))
    BY FlowsStay DEF Compiled
  <1>5. ASSUME pc' = Len(code) + 1, code[pc].op \in {"return", "end"} PROVE Truth'
    <2>1. pc' \notin DOMAIN code'  BY <1>2, <1>4, <1>5
    <2>2. ASSUME nullable = {}, ~Uses("dispose") PROVE Covered({})'
      <3>1. Covered(OwnersAt(pc))  BY <1>1, <2>2 DEF Truth, Says
      <3>2. OwnersAt(pc) = {}  BY <1>3, <1>5, <2>2 DEF Clean, OwnersAt
      <3> QED  BY <1>1, <3>1, <3>2 DEF Covered
    <2> QED  BY <1>4, <2>1, <2>2 DEF Truth
  <1>6. CASE At("else") /\ pc' = Ahead({"endif"})
    <2>1. code[pc].op = "else"  BY <1>6 DEF At, Now
    <2>2. ElseMet(pc)  BY <1>2, <2>1 DEF InstrOK, ElseEdge
    <2>3. PICK a \in DOMAIN code : FirstAhead(pc, a, {"endif"}) /\ Edge(pc, a)  BY <2>2 DEF ElseMet
    <2>4. pc' = a  BY <1>1, <1>6, <2>3, AheadIs
    <2>5. PICK b \in BOOLEAN : b = TRUE  OBVIOUS
    <2>6. Goes(pc, b, a)  BY <2>1, <2>3, <2>5 DEF Goes
    <2>7. code[pc].op \notin {"bind", "free"} /\ code[pc].op # "if"  BY <2>1
    <2> QED  BY <1>1, <2>4, <2>6, <2>7, GoFlow
  <1>7. CASE At("break") \/ At("continue") \/ At("endloop")
    BY <1>3, <1>7 DEF At, Now, Clean
  <1>8. CASE At("return") /\ pc' = Len(code) + 1  BY <1>5, <1>8 DEF At, Now
  <1>9. CASE (At("dispose") \/ At("loop") \/ At("endif")) /\ pc' = pc + 1
    <2>1. code[pc].op \in {"dispose", "loop", "endif"}  BY <1>9 DEF At, Now
    <2>2. PICK j : j = pc + 1  OBVIOUS
    <2>3. code[pc].op \in Straight  BY <2>1 DEF Straight
    <2>4. j \in DOMAIN code  BY <1>2, <2>2, <2>3 DEF InstrOK
    <2>5. PICK b \in BOOLEAN : b = TRUE  OBVIOUS
    <2>6. Goes(pc, b, j)  BY <2>2, <2>3, <2>5 DEF Goes
    <2>7. code[pc].op \notin {"bind", "free"} /\ code[pc].op # "if"  BY <2>1
    <2> QED  BY <1>1, <1>9, <2>2, <2>4, <2>6, <2>7, GoFlow
  <1>10. CASE At("end") /\ pc' = pc + 1
    <2>1. code[pc].op = "end"  BY <1>10 DEF At, Now
    <2>2. pc = Len(code)  BY <1>2, <2>1 DEF InstrOK
    <2> QED  BY <1>5, <1>10, <2>1, <2>2
  <1> QED  BY <1>6, <1>7, <1>8, <1>9, <1>10 DEF RunJump

-----------------------------------------------------------------------------
(* Every step keeps FlowInv.                                               *)
LEMMA InitFlows ==
  ASSUME Init
  PROVE  FlowInv
  <1>1. code = <<>> /\ pc = 0  BY DEF Init
  <1>2. DOMAIN code = {}  BY <1>1
  <1>3. Flows /\ Owing  BY <1>2 DEF Flows, Owing
  <1>4. facts.null = {} /\ facts.nonnull = {} /\ facts.moved = {}
    <2>1. PICK p : p = [x \in Binding |-> params \cap {x}]  OBVIOUS
    <2>2. facts = [NoFacts EXCEPT !.ptr = p]  BY <2>1 DEF Init
    <2> QED  BY <2>2 DEF NoFacts
  <1>5. Bound = params
    <2>1. PICK r : r = Frame("body", "opaque", "none", facts)  OBVIOUS
    <2>2. frames = <<r>> /\ r.scope = {}  BY <2>1 DEF Init, Frame
    <2>3. 1 .. Len(frames) = {1} /\ frames[1] = r  BY <2>2
    <2> QED  BY <2>2, <2>3 DEF Bound, Scope
  <1>6. PICK e, f : e = Entry /\ f = facts  OBVIOUS
  <1>7. /\ e.op = "endif" /\ e.facts.null = {} /\ e.facts.nonnull = {} /\ e.facts.moved = {}
        /\ e.bound = params
    BY <1>6 DEF Entry, Instr, NoFacts
  <1>8. Leaves(e, TRUE, f, params)
    BY <1>4, <1>6, <1>7 DEF Leaves, NilAfter, NonNilAfter, OwnsAfter, Nil, NonNil, Owns
  <1>9. PointFacts(1) = f /\ PointBound(1) = params
    BY <1>2, <1>5, <1>6 DEF PointFacts, PointBound
  <1>10. Entered  BY <1>6, <1>8, <1>9 DEF Entered
  <1> QED  BY <1>1, <1>3, <1>10 DEF FlowInv

LEMMA FlowInvStays ==
  ASSUME FlowInv, UNCHANGED vars
  PROVE  FlowInv'
  <1>1. /\ nullable' = nullable /\ params' = params /\ code' = code /\ facts' = facts
        /\ used' = used /\ frames' = frames /\ pc' = pc /\ env' = env /\ heap' = heap
    BY DEF vars
  <1>2. (Flows => Flows') /\ \A op : Uses(op)' <=> Uses(op)  BY <1>1, FlowsStay DEF Compiled
  <1>3. \A ins, b, f, S : Leaves(ins, b, f, S)' <=> Leaves(ins, b, f, S)  BY <1>1, PointsKept
  <1>4. Entered => Entered'
    <2>1. Bound' = Bound /\ Entry' = Entry  BY <1>1 DEF Bound, Scope, Entry, Instr, NoFacts
    <2>2. PICK e, f, S : e = Entry /\ f = PointFacts(1) /\ S = PointBound(1)  OBVIOUS
    <2>3. f = PointFacts(1)' /\ S = PointBound(1)' /\ e = Entry'
      BY <1>1, <2>1, <2>2 DEF PointFacts, PointBound
    <2> QED  BY <1>3, <2>2, <2>3 DEF Entered
  <1>5. ASSUME NEW i, Owed(i) PROVE Owed(i)'
    <2>1. \A ops : NoneAhead(i, ops)' <=> NoneAhead(i, ops)  BY <1>1 DEF NoneAhead, Same
    <2>2. PICK c, g, h, S : /\ c = code[i] /\ g = ElseFacts(Block(i)) /\ h = Block(i).then
                            /\ S = BoundTo(code[i].depth)
      OBVIOUS
    <2>3. c = code'[i] /\ h = Block(i)'.then /\ S = BoundTo(code[i].depth)'
      BY <1>1, <2>2 DEF Block, BoundTo
    <2>4. g = ElseFacts(Block(i))'
      BY <1>1, <2>2 DEF ElseFacts, Block, Branch, Narrow, MoveConsume, Invalidate
    <2>5. c.op = "if" /\ NoneAhead(i, {"else", "endif"}) => Leaves(c, FALSE, g, S)'
      BY <1>3, <1>5, <2>2 DEF Owed
    <2>6. c.op = "else" /\ NoneAhead(i, {"endif"}) => Leaves(c, TRUE, h, S)'
      BY <1>3, <1>5, <2>2 DEF Owed
    <2> QED  BY <2>1, <2>3, <2>4, <2>5, <2>6 DEF Owed
  <1>6. Owing => Owing'  BY <1>1, <1>5 DEF Owing
  <1>7. Truth => Truth'
    <2>1. PICK N, M, O : /\ N = Nil(code[pc].facts, code[pc].bound)
                         /\ M = NonNil(code[pc].facts, code[pc].bound) /\ O = OwnersAt(pc)
      OBVIOUS
    <2>2. /\ N = Nil(code[pc].facts, code[pc].bound)'
          /\ M = NonNil(code[pc].facts, code[pc].bound)' /\ O = OwnersAt(pc)'
      BY <1>1, <2>1 DEF Nil, NonNil, OwnersAt, Owns
    <2>3. \A P : Covered(P)' <=> Covered(P)  BY <1>1 DEF Covered
    <2>4. Says(N, M, O) => Says(N, M, O)'  BY <1>1, <1>2, <2>3 DEF Says
    <2> QED  BY <1>1, <1>2, <2>1, <2>2, <2>3, <2>4 DEF Truth
  <1> QED  BY <1>1, <1>2, <1>4, <1>6, <1>7 DEF FlowInv

LEMMA NextFlows ==
  ASSUME OwnInv, FlowInv, [Next]_vars
  PROVE  FlowInv'
  <1>1. CheckerType /\ Edges  BY DEF OwnInv
  <1>2. ASSUME pc = 0 PROVE Checking
    <2>1. ~Machine  BY <1>2 DEF Machine
    <2> QED  BY <2>1 DEF OwnInv, Checking
  <1>3. ASSUME pc # 0 PROVE Machine
    BY <1>3 DEF OwnInv
  <1>4. ASSUME NEW e, code' = Append(code, e), ~Uses("loop")', pc = 0 PROVE Flowing
    <2>1. ~Uses("loop")  BY <1>1, <1>4, CodeGrows
    <2> QED  BY <1>4, <2>1 DEF FlowInv, Flowing
  <1>5. CASE Compile
    <2>1. pc = 0 /\ pc' = 0 /\ \E e : code' = Append(code, e)
      BY <1>1, <1>5, CompileGrows DEF Compile
    <2>2. ASSUME ~Uses("loop")' PROVE Flowing'
      BY <1>2, <1>4, <1>5, <2>1, <2>2, CompileFlow
    <2> QED  BY <2>1, <2>2 DEF FlowInv, Flowing
  <1>6. CASE EndFunction
    <2>1. Len(frames) = 1 /\ pc' = 1 /\ \E e : code' = Append(code, e)  BY <1>6 DEF EndFunction
    <2>2. frames # <<>>  BY <2>1
    <2>3. pc = 0  BY <1>3, <2>2 DEF Machine
    <2>4. ASSUME ~Uses("loop")' PROVE Flows' /\ Truth'
      BY <1>2, <1>4, <1>6, <2>1, <2>3, <2>4, EndFlow
    <2> QED  BY <2>1, <2>4 DEF FlowInv
  <1>7. CASE Run
    <2>1. pc \in DOMAIN code  BY <1>7 DEF Run, RunBind, RunFree, RunIf, RunJump, At
    <2>2. pc # 0  BY <1>1, <2>1 DEF CheckerType
    <2>3. Machine /\ Compiled  BY <1>3, <1>7, <2>2 DEF Run, Compiled
    <2>4. Machine'
      BY <1>1, <1>7, <2>3, RunIfStep, RunJumpStep, RunBindStep, RunFreeStep DEF Run
    <2>5. pc' # 0  BY <2>4 DEF Machine
    <2>6. ASSUME ~Uses("loop")' PROVE Flows' /\ Truth'
      <3>1. Flows /\ Truth  BY <2>2, <2>3, <2>6, FlowsStay DEF FlowInv
      <3>2. Truth'
        BY <1>1, <1>7, <2>3, <3>1, RunIfFlow, RunJumpFlow, RunBindFlow, RunFreeFlow DEF Run
      <3> QED  BY <2>3, <3>1, <3>2, FlowsStay
    <2> QED  BY <2>5, <2>6 DEF FlowInv
  <1>8. CASE UNCHANGED vars  BY <1>8, FlowInvStays
  <1> QED  BY <1>5, <1>6, <1>7, <1>8 DEF Next

-----------------------------------------------------------------------------
(* Without loops, for functions of any length and nesting: what the        *)
(* checker says of nil at a point is so after every instruction that leads *)
(* there, none of the owners an instruction leaves is forgotten at the     *)
(* next, and both are true of the run (flow/state.go's Merge and compile's *)
(* narrowing in the branches of an if).                                    *)
THEOREM FlowInvariant == Spec => []FlowInv
  <1>1. Init => FlowInv  BY InitFlows
  <1>2. OwnInv /\ FlowInv /\ [Next]_vars => FlowInv'  BY NextFlows
  <1> QED  BY <1>1, <1>2, OwnInvariant, PTL DEF Spec

(* A binding that the checker knows to be nil, or not to be, at a point of *)
(* a function without loops is so in every run that gets there: the facts  *)
(* that `x == nil' and `x != nil' put into the branches, that moves and    *)
(* assignments change and that joins keep (compile.go, flow/state.go).     *)
THEOREM NullFactsAreTrue == Spec => []NullFactsHold
  <1>1. OwnInv /\ FlowInv => NullFactsHold
    <2> SUFFICES ASSUME OwnInv, FlowInv, pc \in DOMAIN code, ~Uses("loop")
                 PROVE  /\ \A x \in Now.bound \cap Now.facts.null : env[x] = 0
                        /\ \A x \in Now.bound \cap Now.facts.nonnull : env[x] # 0
      BY DEF NullFactsHold, Running
    <2>1. pc # 0  BY DEF OwnInv, CheckerType
    <2>2. Truth  BY <2>1 DEF FlowInv
    <2> QED  BY <2>2 DEF Truth, Says, Nil, NonNil, Now
  <1> QED  BY <1>1, OwnInvariant, FlowInvariant, PTL

(* Where nothing is nullable, nothing is disposed of and there is no loop, *)
(* a run that returns has freed every object it was given or allocated:    *)
(* no assignment overwrites an owner (OwnedObligationLive), no block ends  *)
(* with one (the obligations at scope exit), no join forgets one.          *)
THEOREM NothingIsLost == Spec => []NothingLost
  <1>1. OwnInv /\ FlowInv => NothingLost
    <2> SUFFICES ASSUME OwnInv, FlowInv, pc > Len(code), nullable = {},
                        ~Uses("loop"), ~Uses("dispose"), NEW i \in DOMAIN heap
                 PROVE  heap[i] # "live"
      BY DEF NothingLost, Returned
    <2>1. code \in Seq(InstrType) /\ Len(code) \in Nat  BY DEF OwnInv, CheckerType
    <2>2. pc # 0 /\ Machine  BY <2>1 DEF OwnInv
    <2>3. pc \notin DOMAIN code  BY <2>1, <2>2 DEF Machine
    <2>4. Covered({})  BY <2>2, <2>3 DEF FlowInv, Truth
    <2> QED  BY <2>4 DEF Covered
  <1> QED  BY <1>1, OwnInvariant, FlowInvariant, PTL
=============================================================================
