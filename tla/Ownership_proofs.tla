-------------------------- MODULE Ownership_proofs --------------------------
(***************************************************************************)
(* The ownership checker is sound, for functions of any length: a program  *)
(* it accepts never frees an object twice, and wherever a run is, what the *)
(* checker counts as owned there is live and has one owner.                *)
(*                                                                         *)
(* At a point with facts f, the owners are the nullable bindings and those *)
(* that f does not count as moved (Owns); a nullable binding stays among   *)
(* them because a move zeroes it.  The compiled code never claims more     *)
(* owners at the target of a jump, or at the next instruction, than what   *)
(* the instruction before leaves (Edge).  While a block is open, its jumps *)
(* have no target yet: the facts that its frame keeps stand for it         *)
(* (IfOpen, ElseOpen, BreakOpen, BackOpen), and the tests at the end of    *)
(* the block turn them into edges (IfMet and so on).  The run then has     *)
(* one thing to maintain: the owners hold distinct live objects (Holding). *)
(***************************************************************************)
EXTENDS Ownership, TLAPS, FiniteSetTheorems, SequenceTheorems

FactsType ==
  [moved : SUBSET Binding, null : SUBSET Binding, nonnull : SUBSET Binding,
   reg : SUBSET Binding, dead : SUBSET Binding, ptr : [Binding -> SUBSET Binding]]
Facts == {f \in FactsType : f.dead \subseteq f.reg /\ f.null \cap f.nonnull = {}}

FrameType ==
  [kind : {"body", "then", "else", "loop"}, cond : {"opaque", "nil", "nonnil"},
   x : Binding \cup {"none"}, scope : SUBSET Binding, falls : BOOLEAN, before : Facts,
   then : Facts, thenFalls : BOOLEAN, conts : Seq(Facts), brks : Seq(Facts)]

Straight == {"bind", "free", "dispose", "if", "loop", "endif"}
Ops == Straight \cup {"else", "break", "continue", "endloop", "return", "end"}
InstrType ==
  [op : Ops, x : Binding \cup {"none"}, src : Sources \cup {"nonnil", "opaque"}, depth : Nat,
   facts : Facts, bound : SUBSET Binding, reached : BOOLEAN]

-----------------------------------------------------------------------------
(* The bindings in scope in the first d open blocks.                       *)
BoundTo(d) == params \cup UNION {frames[i].scope : i \in 1 .. d}

Owns(f, S) == {x \in S : x \in nullable \/ x \notin f.moved}
OwnersAt(i) == Owns(code[i].facts, code[i].bound)
OwnersNow == Owns(facts, Bound)

(* What an instruction leaves of the owners before it.                     *)
After(i) ==
  IF code[i].op = "bind" THEN (OwnersAt(i) \ ({code[i].src} \ nullable)) \cup {code[i].x}
  ELSE IF code[i].op = "free" THEN OwnersAt(i) \ ({code[i].x} \ nullable)
  ELSE OwnersAt(i)

(* Position j, or the point being compiled, may follow instruction i.      *)
Edge(i, j) ==
  IF j \in DOMAIN code THEN code[j].reached /\ OwnersAt(j) \subseteq After(i)
  ELSE frames # <<>> /\ Top.falls /\ OwnersNow \subseteq After(i)

Same(i, j, ops) == code[j].op \in ops /\ code[j].depth = code[i].depth
FirstAhead(i, a, ops) ==
  a \in i + 1 .. Len(code) /\ Same(i, a, ops) /\ \A j \in i + 1 .. a - 1 : ~Same(i, j, ops)
NoneAhead(i, ops) == \A j \in i + 1 .. Len(code) : ~Same(i, j, ops)

(* The open block an instruction belongs to.                               *)
Block(i) == frames[code[i].depth + 1]
OpenAt(i, kind) == code[i].depth + 1 \in DOMAIN frames /\ Block(i).kind = kind
KeptFor(i, f) == Owns(f, BoundTo(code[i].depth)) \subseteq OwnersAt(i)

(* A jump whose target is compiled, and one out of a block still open.     *)
IfMet(i) == \E a \in DOMAIN code : /\ FirstAhead(i, a, {"else", "endif"})
                                   /\ Edge(i, IF code[a].op = "else" THEN a + 1 ELSE a)
IfOpen(i) ==
  NoneAhead(i, {"else", "endif"}) /\ OpenAt(i, "then") /\ KeptFor(i, Block(i).before)
ElseMet(i) == \E a \in DOMAIN code : FirstAhead(i, a, {"endif"}) /\ Edge(i, a)
ElseOpen(i) ==
  /\ NoneAhead(i, {"endif"}) /\ OpenAt(i, "else")
  /\ Block(i).thenFalls /\ KeptFor(i, Block(i).then)
BreakMet(i) == \E a \in DOMAIN code : FirstAhead(i, a, {"endloop"}) /\ Edge(i, a + 1)
BreakOpen(i) ==
  /\ NoneAhead(i, {"endloop"}) /\ OpenAt(i, "loop")
  /\ \E b \in DOMAIN Block(i).brks : KeptFor(i, Block(i).brks[b])

LastLoop(i, l) ==
  /\ l \in 1 .. i /\ Same(i, l, {"loop"})
  /\ \A j \in l + 1 .. i : ~Same(i, j, {"loop"})
BackMet(i, l) == LastLoop(i, l) /\ code[l].reached /\ OwnersAt(l) \subseteq OwnersAt(i)
BackOpen(i, l) ==
  /\ LastLoop(i, l) /\ code[l].reached /\ OpenAt(i, "loop")
  /\ OwnersAt(l) \subseteq Owns(Block(i).before, BoundTo(code[i].depth))
  /\ \E c \in DOMAIN Block(i).conts : KeptFor(i, Block(i).conts[c])

IfEdge(i) == IfMet(i) \/ IfOpen(i)
ElseEdge(i) == ElseMet(i) \/ ElseOpen(i)
BreakEdge(i) == BreakMet(i) \/ BreakOpen(i)
BackEdge(i) == \E l \in DOMAIN code : BackMet(i, l) \/ BackOpen(i, l)

(* What the rest of the function must know of instruction i.               *)
InstrOK(i) ==
  /\ code[i].op \in Straight => Edge(i, i + 1)
  /\ code[i].op = "if" => IfEdge(i)
  /\ code[i].op = "else" => ElseEdge(i)
  /\ code[i].op = "break" => BreakEdge(i)
  /\ code[i].op \in {"continue", "endloop"} => BackEdge(i)
  /\ code[i].op = "bind" => /\ code[i].x \in Binding /\ code[i].src \in Sources
                            /\ code[i].src \in Binding => code[i].src \in OwnersAt(i)
  /\ code[i].op = "free" => code[i].x \in OwnersAt(i)
  /\ code[i].op = "end" => i = Len(code) /\ frames = <<>>

Edges == \A i \in DOMAIN code : code[i].reached => InstrOK(i)

StartOK ==
  IF 1 \in DOMAIN code THEN code[1].reached /\ OwnersAt(1) \subseteq params
  ELSE frames # <<>> /\ Top.falls /\ OwnersNow \subseteq params

-----------------------------------------------------------------------------
(* The stack of open blocks.                                               *)
OpenLoop(m, l) ==
  /\ code[l].op = "loop" /\ code[l].depth = m - 1 /\ code[l].reached
  /\ OwnersAt(l) \subseteq Owns(frames[m].before, BoundTo(m - 1))
  /\ \A j \in l + 1 .. Len(code) : ~(code[j].op = "loop" /\ code[j].depth = m - 1)
IsLoop(m) == frames[m].kind = "loop"

Blocks ==
  /\ frames # <<>> /\ frames[1].kind = "body"
  /\ \A m \in DOMAIN frames :
       /\ m # 1 => frames[m].kind # "body"
       /\ frames[m].scope \cap BoundTo(m - 1) = {}
       /\ frames[m].cond # "opaque" => frames[m].x \in nullable
       /\ IsLoop(m) => \E l \in DOMAIN code : OpenLoop(m, l)
  /\ \A m \in DOMAIN frames : (\E i \in 1 .. m : IsLoop(i)) =>
       \E i \in 1 .. m : IsLoop(i) /\ \A j \in 1 .. m : IsLoop(j) => j <= i
  /\ Len(code) + Len(frames) <= MaxLen

CheckerType ==
  /\ nullable \subseteq Binding /\ params \in ParamSets /\ params \subseteq Binding
  /\ used \subseteq Binding /\ facts \in Facts
  /\ code \in Seq(InstrType) /\ frames \in Seq(FrameType) /\ Len(code) <= MaxLen

Holding(S) ==
  /\ \A x \in S : env[x] # 0 => heap[env[x]] = "live"
  /\ \A x, y \in S : env[x] = env[y] /\ env[x] # 0 => x = y

Machine ==
  /\ frames = <<>> /\ pc \in 1 .. Len(code) + 1
  /\ heap \in Seq({"live", "freed"}) /\ Len(heap) <= MaxObj
  /\ env \in [Binding -> 0 .. Len(heap)]
  /\ pc \in DOMAIN code => code[pc].reached /\ Holding(OwnersAt(pc))

OwnInv ==
  /\ CheckerType /\ Edges
  /\ \/ pc = 0 /\ Blocks /\ StartOK /\ heap = <<>> /\ env = [x \in Binding |-> 0]
     \/ Machine

-----------------------------------------------------------------------------
(* The operations on facts: their type, and the moved bits they leave.     *)
LEMMA FactsShape ==
  ASSUME NEW f
  PROVE  f \in Facts <=>
           /\ f = [moved |-> f.moved, null |-> f.null, nonnull |-> f.nonnull, reg |-> f.reg,
                   dead |-> f.dead, ptr |-> f.ptr]
           /\ f.moved \subseteq Binding /\ f.null \subseteq Binding /\ f.nonnull \subseteq Binding
           /\ f.reg \subseteq Binding /\ f.dead \subseteq f.reg /\ f.ptr \in [Binding -> SUBSET Binding]
           /\ f.null \cap f.nonnull = {}
  BY DEF Facts, FactsType

LEMMA MoveFacts ==
  ASSUME NEW f \in Facts, NEW x \in Binding
  PROVE  /\ Invalidate(f, x) \in Facts /\ Invalidate(f, x).moved = f.moved
         /\ MoveConsume(f, x) \in Facts /\ MoveConsume(f, x).moved = f.moved \cup {x}
         /\ MoveSource(f, x) \in Facts /\ MoveSource(f, x).moved = f.moved \cup {x}
  <1>1. \A g \in Facts : Invalidate(g, x) \in Facts /\ Invalidate(g, x).moved = g.moved
    BY DEF Invalidate, Facts, FactsType
  <1> DEFINE g == [f EXCEPT !.moved = @ \cup {x}]
  <1>2. g \in Facts /\ g.moved = f.moved \cup {x}  BY DEF Facts, FactsType
  <1>3. MoveConsume(f, x) = Invalidate(g, x)  BY DEF MoveConsume
  <1>4. MoveSource(f, x) \in Facts /\ MoveSource(f, x).moved = f.moved \cup {x}
    BY DEF MoveSource, Facts, FactsType
  <1> HIDE DEF g
  <1> QED  BY <1>1, <1>2, <1>3, <1>4

LEMMA BindFacts ==
  ASSUME NEW f \in Facts, NEW x \in Binding, NEW src \in Sources, src = "nil" => x \in nullable
  PROVE  /\ Bind(f, x, src) \in Facts
         /\ Bind(f, x, src).moved = (f.moved \cup ({src} \cap Binding)) \ {x}
  <1> DEFINE g == IF src \in Binding THEN MoveSource(f, src) ELSE f
             known == \/ x \notin nullable
                      \/ src = "alloc"
                      \/ src \in Binding /\ Narrowed(f, src)
             fresh == IF src = "alloc" THEN {x} ELSE {}
             p == IF src \in Binding THEN f.ptr[src] ELSE fresh
             h == [g EXCEPT !.moved = @ \ {x},
                            !.null = IF src = "nil" THEN @ \cup {x} ELSE @ \ {x},
                            !.nonnull = IF known THEN @ \cup {x} ELSE @ \ {x},
                            !.ptr[x] = p,
                            !.reg = @ \cup fresh,
                            !.dead = @ \ fresh]
  <1>1. Bind(f, x, src) = h  BY DEF Bind
  <1>2. g \in Facts /\ g.moved = f.moved \cup ({src} \cap Binding)
    <2>1. CASE src \in Binding
      <3>1. MoveSource(f, src) \in Facts /\ MoveSource(f, src).moved = f.moved \cup {src}
        BY <2>1, MoveFacts
      <3> QED  BY <2>1, <3>1
    <2>2. CASE src \notin Binding  BY <2>2
    <2> QED  BY <2>1, <2>2
  <1>3. fresh \subseteq Binding /\ p \subseteq Binding  BY DEF Facts, FactsType
  <1>4. src = "nil" => ~known  BY OwnershipConstants
  <1>5. known \in BOOLEAN  OBVIOUS
  <1> HIDE DEF g, known, fresh, p
  <1>6. h.moved = g.moved \ {x}  BY <1>2 DEF Facts, FactsType
  <1>7. h \in FactsType
    <2>1. [g.ptr EXCEPT ![x] = p] \in [Binding -> SUBSET Binding]
      BY <1>2, <1>3 DEF Facts, FactsType
    <2> DEFINE q == [g.ptr EXCEPT ![x] = p]
    <2>2. h = [g EXCEPT !.moved = @ \ {x},
                        !.null = IF src = "nil" THEN @ \cup {x} ELSE @ \ {x},
                        !.nonnull = IF known THEN @ \cup {x} ELSE @ \ {x},
                        !.ptr = q,
                        !.reg = @ \cup fresh,
                        !.dead = @ \ fresh]
      OBVIOUS
    <2>3. q \in [Binding -> SUBSET Binding]  BY <2>1
    <2> HIDE DEF q, h
    <2> QED  BY <1>2, <1>3, <2>2, <2>3 DEF Facts, FactsType
  <1>8. h.dead \subseteq h.reg  BY <1>2 DEF Facts, FactsType
  <1>9. h.null \cap h.nonnull = {}  BY <1>2, <1>4 DEF Facts, FactsType
  <1>10. h \in Facts  BY <1>7, <1>8, <1>9 DEF Facts
  <1> QED  BY <1>1, <1>2, <1>6, <1>10

LEMMA NarrowFacts ==
  ASSUME NEW f \in Facts, NEW x \in Binding, NEW isNil \in BOOLEAN
  PROVE  /\ Narrow(f, x, isNil) \in Facts
         /\ Narrow(f, x, isNil).moved \in {f.moved, f.moved \cup {x}}
  <1> DEFINE g == [f EXCEPT !.null = @ \cup {x}, !.nonnull = @ \ {x}]
             h == [f EXCEPT !.null = @ \ {x}, !.nonnull = @ \cup {x}]
  <1>1. g \in Facts /\ g.moved = f.moved  BY DEF Facts, FactsType
  <1>2. h \in Facts /\ h.moved = f.moved  BY DEF Facts, FactsType
  <1>3. Narrow(f, x, isNil) = IF isNil THEN MoveConsume(g, x) ELSE h  BY DEF Narrow
  <1> HIDE DEF g, h
  <1>4. MoveConsume(g, x) \in Facts /\ MoveConsume(g, x).moved = g.moved \cup {x}
    BY <1>1, MoveFacts
  <1> QED  BY <1>1, <1>2, <1>3, <1>4

LEMMA BranchFacts ==
  ASSUME NEW f \in Facts, NEW x, NEW cond \in {"opaque", "nil", "nonnil"},
         cond # "opaque" => x \in Binding \cap nullable,
         NEW g, g = Branch(f, cond, x, TRUE) \/ g = Branch(f, cond, x, FALSE)
  PROVE  g \in Facts /\ g.moved \ nullable = f.moved \ nullable
  <1>1. CASE cond = "opaque"  BY <1>1 DEF Branch
  <1>2. CASE cond # "opaque"
    <2>1. x \in Binding /\ x \in nullable  BY <1>2
    <2>2. PICK b \in BOOLEAN : g = Narrow(f, x, b)  BY <1>2 DEF Branch
    <2>3. g \in Facts /\ g.moved \in {f.moved, f.moved \cup {x}}  BY <2>1, <2>2, NarrowFacts
    <2> QED  BY <2>1, <2>3
  <1> QED  BY <1>1, <1>2

LEMMA KeepFacts ==
  ASSUME NEW f \in Facts, NEW S
  PROVE  /\ Keep(f, S) \in Facts /\ Keep(f, S).moved = f.moved \cap S
         /\ Owns(Keep(f, S), S) = Owns(f, S)
  <1>1. Keep(f, S) \in FactsType  BY DEF Keep, Facts, FactsType
  <1>2. /\ Keep(f, S).moved = f.moved \cap S /\ Keep(f, S).dead = f.dead /\ Keep(f, S).reg = f.reg
        /\ Keep(f, S).null = f.null \cap S /\ Keep(f, S).nonnull = f.nonnull \cap S
    BY DEF Keep, Facts, FactsType
  <1>3. Keep(f, S) \in Facts  BY <1>1, <1>2 DEF Facts
  <1>4. Owns(Keep(f, S), S) = Owns(f, S)  BY <1>2 DEF Owns
  <1> QED  BY <1>2, <1>3, <1>4

LEMMA MergeFacts ==
  ASSUME NEW paths \in Seq(Facts), paths # <<>>
  PROVE  Merge(paths) \in Facts /\ Merge(paths).moved = paths[1].moved
  <1>1. 1 \in DOMAIN paths /\ \A i \in DOMAIN paths : paths[i] \in Facts  OBVIOUS
  <1> DEFINE D == DOMAIN paths
             n == Common({paths[i].null : i \in D})
             o == Common({paths[i].nonnull : i \in D})
             p == [x \in Binding |-> Common({paths[i].ptr[x] : i \in D})]
             r == UNION {paths[i].reg : i \in D}
             d == UNION {paths[i].dead : i \in D}
  <1>2. n \subseteq Binding /\ o \subseteq Binding /\ p \in [Binding -> SUBSET Binding]
    BY DEF Common
  <1>3. n \cap o = {}
    <2>1. n \subseteq paths[1].null /\ o \subseteq paths[1].nonnull  BY <1>1 DEF Common
    <2> QED  BY <2>1, <1>1 DEF Facts
  <1>4. \A i \in D : paths[i].reg \subseteq Binding /\ paths[i].dead \subseteq paths[i].reg
    BY <1>1 DEF Facts, FactsType
  <1>5. d \subseteq r /\ r \subseteq Binding  BY <1>4
  <1>6. paths[1].moved \subseteq Binding  BY <1>1 DEF Facts, FactsType
  <1>7. Merge(paths) = [moved |-> paths[1].moved, null |-> n, nonnull |-> o, ptr |-> p,
                        reg |-> r, dead |-> d]
    BY DEF Merge
  <1> HIDE DEF n, o, p, r, d
  <1> QED  BY <1>2, <1>3, <1>5, <1>6, <1>7 DEF Facts, FactsType

(* Paths that agree on what is live have the same owners.                  *)
LEMMA SameOwners ==
  ASSUME NEW f, NEW g, NEW S, \A x \in S : SameLive(f, g, x)
  PROVE  Owns(f, S) = Owns(g, S)
  BY DEF SameLive, Live, Owns

LEMMA OwnsSmaller ==
  ASSUME NEW f, NEW S, NEW T, S \subseteq T
  PROVE  Owns(f, S) \subseteq Owns(f, T)
  BY DEF Owns

-----------------------------------------------------------------------------
(* Appending an instruction that claims no more owners than the point      *)
(* before it keeps the edges there are.                                    *)
Appended(ins) ==
  /\ ins \in InstrType /\ code' = Append(code, ins)
  /\ nullable' = nullable /\ params' = params
  /\ Top.falls => ins.reached /\ Owns(ins.facts, ins.bound) \subseteq OwnersNow

LEMMA OldCode ==
  ASSUME CheckerType, NEW ins, Appended(ins), NEW n, n = Len(code) + 1
  PROVE  /\ Len(code') = Len(code) + 1 /\ code' \in Seq(InstrType)
         /\ DOMAIN code = 1 .. Len(code) /\ DOMAIN code' = 1 .. Len(code) + 1
         /\ code'[n] = ins
         /\ OwnersAt(n)' = Owns(ins.facts, ins.bound)
         /\ Len(code) \in Nat
         /\ \A i \in 1 .. Len(code) :
              /\ code[i] \in InstrType /\ code'[i] = code[i]
              /\ OwnersAt(i)' = OwnersAt(i) /\ After(i)' = After(i)
         /\ \A f, S : Owns(f, S)' = Owns(f, S)
  <1>1. /\ code \in Seq(InstrType) /\ ins \in InstrType /\ code' = Append(code, ins)
        /\ nullable' = nullable
    BY DEF CheckerType, Appended
  <1>2. /\ Len(code') = Len(code) + 1 /\ code' \in Seq(InstrType)
        /\ DOMAIN code = 1 .. Len(code) /\ DOMAIN code' = 1 .. Len(code) + 1
        /\ code'[n] = ins /\ Len(code) \in Nat
        /\ \A i \in 1 .. Len(code) : code[i] \in InstrType /\ code'[i] = code[i]
    BY <1>1
  <1>3. \A f, S : Owns(f, S)' = Owns(f, S)  BY <1>1 DEF Owns
  <1>4. OwnersAt(n)' = Owns(ins.facts, ins.bound)
    BY <1>1, <1>2 DEF OwnersAt, Owns
  <1>5. \A i \in 1 .. Len(code) : OwnersAt(i)' = OwnersAt(i)
    BY <1>1, <1>2 DEF OwnersAt, Owns
  <1>6. \A i \in 1 .. Len(code) : After(i)' = After(i)
    BY <1>1, <1>2, <1>5 DEF After
  <1> QED  BY <1>2, <1>3, <1>4, <1>5, <1>6

LEMMA EdgeKept ==
  ASSUME CheckerType, NEW ins, Appended(ins),
         NEW i \in 1 .. Len(code), NEW j \in 1 .. Len(code) + 1, Edge(i, j)
  PROVE  Edge(i, j)'
  <1>1. CASE j \in 1 .. Len(code)  BY <1>1, OldCode DEF Edge
  <1>2. CASE j = Len(code) + 1
    <2>1. Top.falls /\ OwnersNow \subseteq After(i)  BY <1>2, OldCode DEF Edge
    <2>2. ins.reached /\ Owns(ins.facts, ins.bound) \subseteq OwnersNow  BY <2>1 DEF Appended
    <2> QED  BY <1>2, <2>1, <2>2, OldCode DEF Edge
  <1>3. Len(code) \in Nat  BY OldCode
  <1> QED  BY <1>1, <1>2, <1>3

LEMMA SameKept ==
  ASSUME CheckerType, NEW ins, Appended(ins), NEW n, n = Len(code) + 1,
         NEW i \in 1 .. Len(code), NEW ops
  PROVE  /\ \A j \in 1 .. Len(code) : Same(i, j, ops)' <=> Same(i, j, ops)
         /\ Same(i, n, ops)' <=> ins.op \in ops /\ ins.depth = code[i].depth
         /\ \A a \in 1 .. Len(code) : FirstAhead(i, a, ops) => FirstAhead(i, a, ops)'
         /\ NoneAhead(i, ops) /\ ~Same(i, n, ops)' => NoneAhead(i, ops)'
         /\ NoneAhead(i, ops) /\ Same(i, n, ops)' => FirstAhead(i, n, ops)'
         /\ \A l \in 1 .. Len(code) : LastLoop(i, l) => LastLoop(i, l)'
  <1>1. \A j \in 1 .. Len(code) : Same(i, j, ops)' <=> Same(i, j, ops)
    BY OldCode DEF Same
  <1>2. Same(i, n, ops)' <=> ins.op \in ops /\ ins.depth = code[i].depth
    BY OldCode DEF Same
  <1>3. Len(code) \in Nat /\ Len(code') = Len(code) + 1  BY OldCode
  <1>4. \A a \in 1 .. Len(code) : FirstAhead(i, a, ops) => FirstAhead(i, a, ops)'
    BY <1>1, <1>3 DEF FirstAhead
  <1>5. NoneAhead(i, ops) /\ ~Same(i, n, ops)' => NoneAhead(i, ops)'
    BY <1>1, <1>3 DEF NoneAhead
  <1>6. NoneAhead(i, ops) /\ Same(i, n, ops)' => FirstAhead(i, n, ops)'
    BY <1>1, <1>3 DEF NoneAhead, FirstAhead
  <1>7. \A l \in 1 .. Len(code) : LastLoop(i, l) => LastLoop(i, l)'
    BY OldCode DEF LastLoop, Same
  <1> QED  BY <1>1, <1>2, <1>4, <1>5, <1>6, <1>7

LEMMA MetKept ==
  ASSUME CheckerType, NEW ins, Appended(ins), NEW i \in 1 .. Len(code)
  PROVE  /\ IfMet(i) => IfMet(i)'
         /\ ElseMet(i) => ElseMet(i)'
         /\ BreakMet(i) => BreakMet(i)'
         /\ \A l \in DOMAIN code : BackMet(i, l) => BackMet(i, l)'
  <1>0. /\ DOMAIN code = 1 .. Len(code) /\ DOMAIN code' = 1 .. Len(code) + 1 /\ Len(code) \in Nat
        /\ \A j \in 1 .. Len(code) : code'[j] = code[j]
    BY OldCode
  <1>1. IfMet(i) => IfMet(i)'
    <2> SUFFICES ASSUME IfMet(i) PROVE IfMet(i)'  OBVIOUS
    <2> DEFINE t(a) == IF code[a].op = "else" THEN a + 1 ELSE a
    <2>1. PICK a \in DOMAIN code : FirstAhead(i, a, {"else", "endif"}) /\ Edge(i, t(a))
      BY DEF IfMet
    <2>2. t(a) \in 1 .. Len(code) + 1 /\ t(a)' = t(a) /\ a \in DOMAIN code'  BY <1>0
    <2>3. FirstAhead(i, a, {"else", "endif"})'  BY <2>1, <1>0, SameKept
    <2>4. PICK j : j = t(a)  OBVIOUS
    <2>5. Edge(i, j)'  BY <2>1, <2>2, <2>4, EdgeKept
    <2>6. j = t(a)'  BY <2>2, <2>4
    <2> QED  BY <2>2, <2>3, <2>5, <2>6 DEF IfMet
  <1>2. ElseMet(i) => ElseMet(i)'
    <2> SUFFICES ASSUME ElseMet(i) PROVE ElseMet(i)'  OBVIOUS
    <2>1. PICK a \in DOMAIN code : FirstAhead(i, a, {"endif"}) /\ Edge(i, a)  BY DEF ElseMet
    <2>2. a \in DOMAIN code' /\ a \in 1 .. Len(code)  BY <1>0
    <2>3. FirstAhead(i, a, {"endif"})'  BY <2>1, <2>2, SameKept
    <2>4. Edge(i, a)'  BY <2>1, <1>0, EdgeKept
    <2> QED  BY <2>2, <2>3, <2>4 DEF ElseMet
  <1>3. BreakMet(i) => BreakMet(i)'
    <2> SUFFICES ASSUME BreakMet(i) PROVE BreakMet(i)'  OBVIOUS
    <2>1. PICK a \in DOMAIN code : FirstAhead(i, a, {"endloop"}) /\ Edge(i, a + 1)  BY DEF BreakMet
    <2>2. a + 1 \in 1 .. Len(code) + 1 /\ a \in DOMAIN code'  BY <1>0
    <2>3. FirstAhead(i, a, {"endloop"})'  BY <2>1, <1>0, SameKept
    <2>4. Edge(i, a + 1)'  BY <2>1, <2>2, EdgeKept
    <2> QED  BY <2>2, <2>3, <2>4 DEF BreakMet
  <1>4. \A l \in DOMAIN code : BackMet(i, l) => BackMet(i, l)'
    BY <1>0, OldCode, SameKept DEF BackMet
  <1> QED  BY <1>1, <1>2, <1>3, <1>4

(* What a step leaves of the open block m.                                 *)
KeptFrame(m) ==
  /\ m \in DOMAIN frames' /\ BoundTo(m - 1)' = BoundTo(m - 1)
  /\ frames'[m].kind = frames[m].kind /\ frames'[m].before = frames[m].before
  /\ frames'[m].cond = frames[m].cond /\ frames'[m].x = frames[m].x
  /\ frames'[m].then = frames[m].then /\ frames'[m].thenFalls = frames[m].thenFalls
  /\ \A b \in DOMAIN frames[m].brks :
       b \in DOMAIN frames'[m].brks /\ frames'[m].brks[b] = frames[m].brks[b]
  /\ \A c \in DOMAIN frames[m].conts :
       c \in DOMAIN frames'[m].conts /\ frames'[m].conts[c] = frames[m].conts[c]

LEMMA OpenKept ==
  ASSUME CheckerType, NEW ins, Appended(ins), NEW i \in 1 .. Len(code),
         code[i].depth + 1 \in DOMAIN frames => KeptFrame(code[i].depth + 1),
         ins.op \in {"else", "endif", "endloop"} => ins.depth # code[i].depth
  PROVE  /\ IfOpen(i) => IfOpen(i)'
         /\ ElseOpen(i) => ElseOpen(i)'
         /\ BreakOpen(i) => BreakOpen(i)'
         /\ \A l \in DOMAIN code : BackOpen(i, l) => BackOpen(i, l)'
  <1>0. PICK m : m = code[i].depth + 1  OBVIOUS
  <1>1. m = code'[i].depth + 1 /\ m \in Int /\ code[i].depth = m - 1 /\ code'[i].depth = m - 1
    <2>1. code[i] \in InstrType /\ code'[i] = code[i]  BY OldCode
    <2>2. code[i].depth \in Nat  BY <2>1 DEF InstrType
    <2> QED  BY <1>0, <2>1, <2>2
  <1>2. PICK n : n = Len(code) + 1  OBVIOUS
  <1>3. \A ops : ops \subseteq {"else", "endif", "endloop"} /\ NoneAhead(i, ops) => NoneAhead(i, ops)'
    BY <1>2, SameKept
  <1>4. \A kind : OpenAt(i, kind) => KeptFrame(m) /\ OpenAt(i, kind)' /\ Block(i) = frames[m] /\ Block(i)' = frames'[m]
    BY <1>0, <1>1 DEF OpenAt, Block, KeptFrame
  <1>5. \A f : KeptFrame(m) /\ KeptFor(i, f) => KeptFor(i, f)'
    BY <1>1, OldCode DEF KeptFor, KeptFrame
  <1>6. IfOpen(i) => IfOpen(i)'
    <2> SUFFICES ASSUME IfOpen(i) PROVE IfOpen(i)'  OBVIOUS
    <2>1. NoneAhead(i, {"else", "endif"}) /\ OpenAt(i, "then") /\ KeptFor(i, Block(i).before)
      BY DEF IfOpen
    <2>2. NoneAhead(i, {"else", "endif"})'  BY <2>1, <1>3
    <2>3. OpenAt(i, "then")' /\ KeptFrame(m) /\ Block(i).before = Block(i)'.before
      BY <2>1, <1>4 DEF KeptFrame
    <2>4. PICK f : f = Block(i).before  OBVIOUS
    <2>5. KeptFor(i, f)' /\ f = Block(i)'.before  BY <2>1, <2>3, <2>4, <1>5
    <2> QED  BY <2>2, <2>3, <2>5 DEF IfOpen
  <1>7. ElseOpen(i) => ElseOpen(i)'
    <2> SUFFICES ASSUME ElseOpen(i) PROVE ElseOpen(i)'  OBVIOUS
    <2>1. /\ NoneAhead(i, {"endif"}) /\ OpenAt(i, "else") /\ Block(i).thenFalls
          /\ KeptFor(i, Block(i).then)
      BY DEF ElseOpen
    <2>2. NoneAhead(i, {"endif"})'  BY <2>1, <1>3
    <2>3. /\ OpenAt(i, "else")' /\ KeptFrame(m) /\ Block(i).then = Block(i)'.then
          /\ Block(i)'.thenFalls
      BY <2>1, <1>4 DEF KeptFrame
    <2>4. PICK f : f = Block(i).then  OBVIOUS
    <2>5. KeptFor(i, f)' /\ f = Block(i)'.then  BY <2>1, <2>3, <2>4, <1>5
    <2> QED  BY <2>2, <2>3, <2>5 DEF ElseOpen
  <1>8. BreakOpen(i) => BreakOpen(i)'
    <2> SUFFICES ASSUME BreakOpen(i) PROVE BreakOpen(i)'  OBVIOUS
    <2>1. NoneAhead(i, {"endloop"}) /\ OpenAt(i, "loop")  BY DEF BreakOpen
    <2>2. PICK b \in DOMAIN Block(i).brks : KeptFor(i, Block(i).brks[b])  BY DEF BreakOpen
    <2>3. NoneAhead(i, {"endloop"})'  BY <2>1, <1>3
    <2>4. /\ OpenAt(i, "loop")' /\ KeptFrame(m) /\ b \in DOMAIN Block(i)'.brks
          /\ Block(i)'.brks[b] = Block(i).brks[b]
      BY <2>1, <2>2, <1>4 DEF KeptFrame
    <2>5. PICK f : f = Block(i).brks[b]  OBVIOUS
    <2>6. KeptFor(i, f)' /\ f = Block(i)'.brks[b]  BY <2>2, <2>4, <2>5, <1>5
    <2> QED  BY <2>3, <2>4, <2>6 DEF BreakOpen
  <1>9. ASSUME NEW l \in DOMAIN code, BackOpen(i, l) PROVE BackOpen(i, l)'
    <2>1. LastLoop(i, l) /\ code[l].reached /\ OpenAt(i, "loop")  BY <1>9 DEF BackOpen
    <2>2. OwnersAt(l) \subseteq Owns(Block(i).before, BoundTo(code[i].depth))  BY <1>9 DEF BackOpen
    <2>3. PICK c \in DOMAIN Block(i).conts : KeptFor(i, Block(i).conts[c])  BY <1>9 DEF BackOpen
    <2>4. LastLoop(i, l)' /\ code'[l].reached /\ OwnersAt(l)' = OwnersAt(l)
      BY <2>1, OldCode, SameKept
    <2>5. /\ OpenAt(i, "loop")' /\ KeptFrame(m) /\ c \in DOMAIN Block(i)'.conts
          /\ Block(i)'.conts[c] = Block(i).conts[c] /\ Block(i)'.before = Block(i).before
      BY <2>1, <2>3, <1>4 DEF KeptFrame
    <2>6. PICK f : f = Block(i).conts[c]  OBVIOUS
    <2>7. KeptFor(i, f)' /\ f = Block(i)'.conts[c]  BY <2>3, <2>5, <2>6, <1>5
    <2>8. BoundTo(code[i].depth)' = BoundTo(code[i].depth)  BY <2>5, <1>1 DEF KeptFrame
    <2>9. OwnersAt(l)' \subseteq Owns(Block(i).before, BoundTo(code[i].depth))'
      BY <2>2, <2>4, <2>5, <2>8, OldCode
    <2> QED  BY <2>4, <2>5, <2>7, <2>9 DEF BackOpen
  <1> QED  BY <1>6, <1>7, <1>8, <1>9

LEMMA EdgesKept ==
  ASSUME CheckerType, Edges, frames # <<>>, NEW ins, Appended(ins), NEW n, n = Len(code) + 1,
         NEW d \in Nat, \A m \in DOMAIN frames : m <= d => KeptFrame(m),
         \A m \in DOMAIN frames : m <= d + 1,
         ins.op \in {"else", "endif", "endloop"} => ins.depth = d,
         \A i \in 1 .. Len(code) : code[i].reached /\ code[i].depth = d =>
           /\ code[i].op = "if" /\ IfOpen(i) => IfEdge(i)'
           /\ code[i].op = "else" /\ ElseOpen(i) => ElseEdge(i)'
           /\ code[i].op = "break" /\ BreakOpen(i) => BreakEdge(i)'
           /\ \A l \in DOMAIN code : BackOpen(i, l) => BackEdge(i)',
         ins.reached => InstrOK(n)'
  PROVE  Edges'
  <1>0. /\ DOMAIN code = 1 .. Len(code) /\ DOMAIN code' = 1 .. Len(code) + 1 /\ Len(code) \in Nat
        /\ code'[n] = ins /\ \A i \in DOMAIN code : code[i] \in InstrType /\ code'[i] = code[i]
    BY OldCode
  <1> SUFFICES ASSUME NEW i \in DOMAIN code, code[i].reached PROVE InstrOK(i)'
    BY <1>0 DEF Edges
  <1>1. InstrOK(i) /\ i \in 1 .. Len(code) /\ code'[i] = code[i]  BY <1>0 DEF Edges
  <1>2. \/ code[i].depth = d
        \/ /\ code[i].depth + 1 \in DOMAIN frames => KeptFrame(code[i].depth + 1)
           /\ ins.op \in {"else", "endif", "endloop"} => ins.depth # code[i].depth
    <2>1. code[i].depth \in Nat  BY <1>0 DEF InstrType
    <2> QED  BY <2>1
  <1>3. /\ IfMet(i) => IfMet(i)'
        /\ ElseMet(i) => ElseMet(i)'
        /\ BreakMet(i) => BreakMet(i)'
        /\ \A l \in DOMAIN code : BackMet(i, l) => BackMet(i, l)'
    BY <1>1, MetKept
  <1>4. /\ code[i].op = "if" /\ IfOpen(i) => IfEdge(i)'
        /\ code[i].op = "else" /\ ElseOpen(i) => ElseEdge(i)'
        /\ code[i].op = "break" /\ BreakOpen(i) => BreakEdge(i)'
        /\ \A l \in DOMAIN code : BackOpen(i, l) => BackEdge(i)'
    <2>1. CASE code[i].depth = d  BY <1>1, <2>1
    <2>2. CASE /\ code[i].depth + 1 \in DOMAIN frames => KeptFrame(code[i].depth + 1)
               /\ ins.op \in {"else", "endif", "endloop"} => ins.depth # code[i].depth
      <3>1. /\ IfOpen(i) => IfOpen(i)'
            /\ ElseOpen(i) => ElseOpen(i)'
            /\ BreakOpen(i) => BreakOpen(i)'
            /\ \A l \in DOMAIN code : BackOpen(i, l) => BackOpen(i, l)'
        BY <1>1, <2>2, OpenKept
      <3> QED  BY <1>0, <3>1 DEF IfEdge, ElseEdge, BreakEdge, BackEdge
    <2> QED  BY <1>2, <2>1, <2>2
  <1>5. /\ code[i].op = "if" /\ IfEdge(i) => IfEdge(i)'
        /\ code[i].op = "else" /\ ElseEdge(i) => ElseEdge(i)'
        /\ code[i].op = "break" /\ BreakEdge(i) => BreakEdge(i)'
    BY <1>3, <1>4 DEF IfEdge, ElseEdge, BreakEdge
  <1>6. BackEdge(i) => BackEdge(i)'  BY <1>0, <1>3, <1>4 DEF BackEdge
  <1>7. Edge(i, i + 1) => Edge(i, i + 1)'  BY <1>0, EdgeKept
  <1>8. OwnersAt(i)' = OwnersAt(i)  BY <1>1, OldCode
  <1>9. code[i].op # "end"  BY <1>1 DEF InstrOK
  <1> QED  BY <1>1, <1>5, <1>6, <1>7, <1>8, <1>9 DEF InstrOK

(* The same for a step that closes nothing.                                *)
LEMMA EdgesExtended ==
  ASSUME CheckerType, Edges, frames # <<>>, NEW ins, Appended(ins), NEW n, n = Len(code) + 1,
         \A m \in DOMAIN frames : KeptFrame(m), ins.op \notin {"else", "endif", "endloop"},
         ins.reached => InstrOK(n)'
  PROVE  Edges'
  <1>1. PICK d \in Nat : d = Len(frames)  BY DEF CheckerType
  <1>2. DOMAIN frames = 1 .. d  BY <1>1 DEF CheckerType
  <1>3. \A i \in 1 .. Len(code) : code[i].depth = d =>
          /\ ~IfOpen(i) /\ ~ElseOpen(i) /\ ~BreakOpen(i)
          /\ \A l \in DOMAIN code : ~BackOpen(i, l)
    BY <1>2 DEF IfOpen, ElseOpen, BreakOpen, BackOpen, OpenAt
  <1>4. \A i \in 1 .. Len(code) : code[i].reached /\ code[i].depth = d =>
          /\ code[i].op = "if" /\ IfOpen(i) => IfEdge(i)'
          /\ code[i].op = "else" /\ ElseOpen(i) => ElseEdge(i)'
          /\ code[i].op = "break" /\ BreakOpen(i) => BreakEdge(i)'
          /\ \A l \in DOMAIN code : BackOpen(i, l) => BackEdge(i)'
    BY <1>3
  <1>5. \A m \in DOMAIN frames : m <= d + 1  BY <1>2
  <1>6. /\ ins.op \in {"else", "endif", "endloop"} => ins.depth = d
        /\ \A m \in DOMAIN frames : m <= d => KeptFrame(m)
    OBVIOUS
  <1> QED  BY <1>4, <1>5, <1>6, EdgesKept

-----------------------------------------------------------------------------
(* The stack of open blocks, and what is in scope in them.                 *)
LEMMA StackShape ==
  ASSUME CheckerType, Blocks, NEW d, d = Len(frames)
  PROVE  /\ d \in Nat \ {0} /\ DOMAIN frames = 1 .. d
         /\ \A m \in 1 .. d : frames[m] \in FrameType
         /\ Top = frames[d] /\ Top \in FrameType
         /\ Bound = BoundTo(d) /\ Outer = BoundTo(d - 1) /\ Outer \subseteq Bound
         /\ Bound = Outer \cup Top.scope /\ Bound \subseteq Binding
         /\ \A m \in 0 .. d : BoundTo(m) \subseteq Bound
  <1>1. d \in Nat \ {0} /\ DOMAIN frames = 1 .. d /\ \A m \in 1 .. d : frames[m] \in FrameType
    BY DEF CheckerType, Blocks
  <1>2. Top = frames[d]  BY DEF Top, Last
  <1>3. Bound = BoundTo(d)  BY DEF Bound, BoundTo, Scope
  <1>4. BoundTo(d) = BoundTo(d - 1) \cup frames[d].scope
    <2>1. 1 .. d = (1 .. d - 1) \cup {d}  BY <1>1
    <2> QED  BY <2>1 DEF BoundTo
  <1>5. frames[d].scope \cap BoundTo(d - 1) = {}  BY <1>1 DEF Blocks
  <1>6. Outer = BoundTo(d - 1) /\ Bound = Outer \cup Top.scope /\ Outer \subseteq Bound
    BY <1>2, <1>3, <1>4, <1>5 DEF Outer
  <1>7. \A m \in 0 .. d : BoundTo(m) \subseteq Bound
    <2> SUFFICES ASSUME NEW m \in 0 .. d PROVE BoundTo(m) \subseteq BoundTo(d)  BY <1>3
    <2>1. 1 .. m \subseteq 1 .. d  BY <1>1
    <2> QED  BY <2>1 DEF BoundTo
  <1>8. \A m \in 1 .. d : frames[m].scope \subseteq Binding  BY <1>1 DEF FrameType
  <1>9. Bound \subseteq Binding  BY <1>3, <1>8 DEF BoundTo, CheckerType
  <1> QED  BY <1>1, <1>2, <1>3, <1>6, <1>7, <1>9

LEMMA BoundKept ==
  ASSUME params' = params, NEW d, \A i \in 1 .. d : frames'[i].scope = frames[i].scope
  PROVE  BoundTo(d)' = BoundTo(d)
  BY DEF BoundTo

LEMMA StartKept ==
  ASSUME CheckerType, StartOK, NEW ins, Appended(ins)
  PROVE  StartOK'
  <1>0. PICK n : n = Len(code) + 1  OBVIOUS
  <1>1. /\ DOMAIN code = 1 .. Len(code) /\ DOMAIN code' = 1 .. Len(code) + 1 /\ Len(code) \in Nat
        /\ params' = params /\ OwnersAt(n)' = Owns(ins.facts, ins.bound) /\ code'[n] = ins
    BY <1>0, OldCode DEF Appended
  <1>2. CASE 1 \in DOMAIN code
    <2>1. code'[1] = code[1] /\ OwnersAt(1)' = OwnersAt(1)  BY <1>0, <1>1, <1>2, OldCode
    <2> QED  BY <1>1, <1>2, <2>1 DEF StartOK
  <1>3. CASE 1 \notin DOMAIN code
    <2>1. n = 1  BY <1>0, <1>1, <1>3
    <2>2. Top.falls /\ OwnersNow \subseteq params  BY <1>3 DEF StartOK
    <2>3. ins.reached /\ Owns(ins.facts, ins.bound) \subseteq OwnersNow  BY <2>2 DEF Appended
    <2> QED  BY <1>1, <2>1, <2>2, <2>3 DEF StartOK
  <1> QED  BY <1>2, <1>3

(* A step after which the open blocks are the first e of those before.     *)
KeptBase(m) ==
  /\ m \in DOMAIN frames' /\ BoundTo(m - 1)' = BoundTo(m - 1)
  /\ frames'[m].cond = frames[m].cond /\ frames'[m].x = frames[m].x
  /\ frames'[m].before = frames[m].before
  /\ \/ frames'[m].kind = frames[m].kind
     \/ {frames'[m].kind, frames[m].kind} \subseteq {"then", "else"}
  /\ frames'[m].scope \cap BoundTo(m - 1) = {}

LEMMA LoopsKept ==
  ASSUME CheckerType, Blocks, NEW ins, Appended(ins), NEW m \in DOMAIN frames,
         m \in DOMAIN frames', BoundTo(m - 1)' = BoundTo(m - 1),
         frames'[m].before = frames[m].before, ins.op = "loop" => ins.depth # m - 1,
         NEW l \in DOMAIN code, OpenLoop(m, l)
  PROVE  OpenLoop(m, l)'
  <1>0. PICK n : n = Len(code) + 1  OBVIOUS
  <1>1. /\ l \in 1 .. Len(code) /\ Len(code) \in Nat /\ Len(code') = Len(code) + 1
        /\ code'[n] = ins /\ \A i \in 1 .. Len(code) : code'[i] = code[i]
        /\ OwnersAt(l)' = OwnersAt(l) /\ \A f, S : Owns(f, S)' = Owns(f, S)
    BY <1>0, OldCode
  <1>2. code'[l].op = "loop" /\ code'[l].depth = m - 1 /\ code'[l].reached  BY <1>1 DEF OpenLoop
  <1>3. OwnersAt(l)' \subseteq Owns(frames[m].before, BoundTo(m - 1))'  BY <1>1 DEF OpenLoop
  <1>4. \A j \in l + 1 .. Len(code') : ~(code'[j].op = "loop" /\ code'[j].depth = m - 1)
    BY <1>0, <1>1 DEF OpenLoop
  <1> QED  BY <1>2, <1>3, <1>4 DEF OpenLoop

LEMMA BlocksKept ==
  ASSUME CheckerType, Blocks, NEW ins, Appended(ins), NEW e \in Nat \ {0}, e <= Len(frames),
         frames' \in Seq(FrameType), Len(frames') = e, \A m \in 1 .. e : KeptBase(m),
         ins.op # "loop", Len(code) + 1 + e <= MaxLen
  PROVE  Blocks'
  <1>1. PICK d : d = Len(frames)  OBVIOUS
  <1>2. d \in Nat /\ DOMAIN frames = 1 .. d /\ DOMAIN frames' = 1 .. e  BY <1>1, StackShape
  <1>3. \A m \in 1 .. e : IsLoop(m)' <=> IsLoop(m)  BY DEF KeptBase, IsLoop
  <1>4. frames' # <<>> /\ frames'[1].kind = "body"
    BY <1>2 DEF KeptBase, Blocks
  <1>5. ASSUME NEW m \in DOMAIN frames'
        PROVE  /\ m # 1 => frames'[m].kind # "body"
               /\ frames'[m].scope \cap BoundTo(m - 1)' = {}
               /\ frames'[m].cond # "opaque" => frames'[m].x \in nullable'
    <2>1. KeptBase(m) /\ m \in DOMAIN frames /\ nullable' = nullable
      BY <1>1, <1>2, <1>5 DEF Appended
    <2> QED  BY <2>1 DEF KeptBase, Blocks
  <1>6. ASSUME NEW m \in DOMAIN frames', IsLoop(m)' PROVE \E l \in DOMAIN code' : OpenLoop(m, l)'
    <2>1. KeptBase(m) /\ m \in DOMAIN frames /\ IsLoop(m)  BY <1>1, <1>2, <1>3, <1>6
    <2>2. PICK l \in DOMAIN code : OpenLoop(m, l)  BY <2>1 DEF Blocks
    <2>3. OpenLoop(m, l)'  BY <2>1, <2>2, LoopsKept DEF KeptBase
    <2>4. PICK n : n = Len(code) + 1  OBVIOUS
    <2>5. l \in DOMAIN code'  BY <2>4, OldCode
    <2> QED  BY <2>3, <2>5
  <1>7. ASSUME NEW m \in DOMAIN frames', \E i \in 1 .. m : IsLoop(i)'
        PROVE  \E i \in 1 .. m : IsLoop(i)' /\ \A j \in 1 .. m : IsLoop(j)' => j <= i
    <2>1. m \in DOMAIN frames /\ 1 .. m \subseteq 1 .. e  BY <1>1, <1>2
    <2>2. PICK i \in 1 .. m : IsLoop(i) /\ \A j \in 1 .. m : IsLoop(j) => j <= i
      BY <1>3, <1>7, <2>1 DEF Blocks
    <2> QED  BY <1>3, <2>1, <2>2
  <1>8. Len(code') + Len(frames') <= MaxLen
    <2>1. PICK n : n = Len(code) + 1  OBVIOUS
    <2>2. Len(code') = Len(code) + 1  BY <2>1, OldCode
    <2> QED  BY <2>2
  <1> QED  BY <1>4, <1>5, <1>6, <1>7, <1>8 DEF Blocks

-----------------------------------------------------------------------------
(* The state while compiling, and what every step of it has to show.       *)
Checking == CheckerType /\ Edges /\ Blocks /\ StartOK

LEMMA TypeKept ==
  ASSUME Checking, NEW ins, Appended(ins), facts' \in Facts, used' \subseteq Binding,
         frames' \in Seq(FrameType), Len(code) + 1 <= MaxLen
  PROVE  CheckerType'
  <1>1. PICK n : n = Len(code) + 1  OBVIOUS
  <1>2. Len(code') = Len(code) + 1 /\ code' \in Seq(InstrType)  BY <1>1, OldCode DEF Checking
  <1>3. nullable' = nullable /\ params' = params  BY DEF Appended
  <1> QED  BY <1>2, <1>3 DEF Checking, CheckerType

(* A statement that opens and closes no block.                             *)
LEMMA PlainStep ==
  ASSUME Checking, NEW ins, Appended(ins), NEW n, n = Len(code) + 1,
         ins.op \notin {"else", "endif", "endloop", "loop"},
         facts' \in Facts, used' \subseteq Binding, frames' \in Seq(FrameType),
         Len(frames') = Len(frames), Len(code) + 1 + Len(frames) <= MaxLen,
         \A m \in DOMAIN frames : KeptFrame(m) /\ frames'[m].scope \cap BoundTo(m - 1) = {},
         ins.reached => InstrOK(n)'
  PROVE  Checking'
  <1>0. CheckerType /\ Edges /\ Blocks /\ StartOK  BY DEF Checking
  <1>1. PICK e : e = Len(frames)  OBVIOUS
  <1>2. e \in Nat \ {0} /\ DOMAIN frames = 1 .. e /\ frames # <<>>
    BY <1>0, <1>1, StackShape DEF Blocks
  <1>3. Len(code) \in Nat  BY <1>0, OldCode
  <1>4. CheckerType'
    <2>1. Len(code) + 1 <= MaxLen  BY <1>1, <1>2, <1>3, OwnershipConstants
    <2> QED  BY <2>1, TypeKept
  <1>5. Edges'  BY <1>0, <1>2, EdgesExtended
  <1>6. \A m \in 1 .. e : KeptBase(m)  BY <1>2 DEF KeptFrame, KeptBase
  <1>7. Blocks'  BY <1>0, <1>1, <1>2, <1>6, BlocksKept
  <1>8. StartOK'  BY <1>0, StartKept
  <1> QED  BY <1>4, <1>5, <1>7, <1>8 DEF Checking

LEMMA NextEdge ==
  ASSUME CheckerType, NEW ins, Appended(ins), NEW n, n = Len(code) + 1,
         frames' # <<>>, Top'.falls, OwnersNow' \subseteq After(n)'
  PROVE  Edge(n, n + 1)'
  <1>1. DOMAIN code' = 1 .. n /\ n \in Nat  BY OldCode
  <1>2. n + 1 \notin DOMAIN code'  BY <1>1
  <1> QED  BY <1>2 DEF Edge

(* The blocks of a stack of which only the last changes.                   *)
LEMMA TopSet ==
  ASSUME CheckerType, Blocks, params' = params, NEW r \in FrameType, NEW d, d = Len(frames),
         frames' = [frames EXCEPT ![d] = r]
  PROVE  /\ frames' \in Seq(FrameType) /\ Len(frames') = d /\ frames' # <<>> /\ frames'[d] = r
         /\ Top' = r
         /\ \A m \in 1 .. d : m # d => frames'[m] = frames[m]
         /\ \A m \in 1 .. d : BoundTo(m - 1)' = BoundTo(m - 1)
         /\ Bound' = BoundTo(d - 1) \cup r.scope
         /\ \A m \in 1 .. d : m # d => KeptFrame(m) /\ frames'[m].scope \cap BoundTo(m - 1) = {}
  <1>1. d \in Nat \ {0} /\ DOMAIN frames = 1 .. d /\ \A m \in 1 .. d : frames[m] \in FrameType
    BY StackShape
  <1>2. frames \in Seq(FrameType)  BY DEF CheckerType
  <1>3. /\ frames' \in Seq(FrameType) /\ Len(frames') = d /\ frames' # <<>> /\ frames'[d] = r
        /\ \A m \in 1 .. d : m # d => frames'[m] = frames[m]
    BY <1>1, <1>2
  <1>4. Top' = r  BY <1>3 DEF Top, Last
  <1>5. ASSUME NEW m \in 1 .. d PROVE BoundTo(m - 1)' = BoundTo(m - 1)
    <2>1. PICK k : k = m - 1  OBVIOUS
    <2>2. \A i \in 1 .. k : frames'[i].scope = frames[i].scope  BY <1>1, <1>3, <2>1
    <2> QED  BY <2>1, <2>2, BoundKept
  <1>6. Bound' = BoundTo(d - 1) \cup r.scope
    <2>1. 1 .. d = (1 .. d - 1) \cup {d}  BY <1>1
    <2>2. \A x : x \in Bound' <=> x \in params \/ \E i \in 1 .. d : x \in frames'[i].scope
      BY <1>3 DEF Bound, Scope
    <2>3. \A x : x \in BoundTo(d - 1) <=> x \in params \/ \E i \in 1 .. d - 1 : x \in frames[i].scope
      BY DEF BoundTo
    <2>4. \A i \in 1 .. d - 1 : i \in 1 .. d /\ i # d /\ frames'[i].scope = frames[i].scope
      BY <1>1, <1>3
    <2>5. \A x : x \in Bound' <=> x \in BoundTo(d - 1) \/ x \in r.scope
      BY <1>3, <2>1, <2>2, <2>3, <2>4
    <2> QED  BY <2>5
  <1>7. ASSUME NEW m \in 1 .. d, m # d
        PROVE  KeptFrame(m) /\ frames'[m].scope \cap BoundTo(m - 1) = {}
    <2>1. frames'[m] = frames[m] /\ m \in DOMAIN frames' /\ m \in DOMAIN frames
      BY <1>1, <1>3, <1>7
    <2>2. BoundTo(m - 1)' = BoundTo(m - 1)  BY <1>5
    <2>3. KeptFrame(m)  BY <2>1, <2>2 DEF KeptFrame
    <2> QED  BY <2>1, <2>3 DEF Blocks
  <1> QED  BY <1>3, <1>4, <1>5, <1>6, <1>7

LEMMA SameStack ==
  ASSUME CheckerType, Blocks, params' = params, frames' = frames
  PROVE  /\ frames' \in Seq(FrameType) /\ Len(frames') = Len(frames) /\ frames' # <<>>
         /\ Top' = Top /\ Bound' = Bound
         /\ \A m \in DOMAIN frames : KeptFrame(m) /\ frames'[m].scope \cap BoundTo(m - 1) = {}
  <1>1. frames' \in Seq(FrameType) /\ frames # <<>>  BY DEF CheckerType, Blocks
  <1>2. Top' = Top /\ Bound' = Bound  BY DEF Top, Bound, Scope
  <1>3. \A m : BoundTo(m)' = BoundTo(m)  BY DEF BoundTo
  <1>4. \A m \in DOMAIN frames : KeptFrame(m)  BY <1>3 DEF KeptFrame
  <1> QED  BY <1>1, <1>2, <1>4 DEF Blocks

-----------------------------------------------------------------------------
(* One lemma for every statement the checker compiles.                     *)
Emits(ins, op, x, src, depth) ==
  /\ ins = Instr(op, x, src, depth, facts, Bound, Top.falls) /\ code' = Append(code, ins)
  /\ op \in Ops /\ x \in Binding \cup {"none"} /\ src \in Sources \cup {"nonnil", "opaque"}
  /\ depth \in Nat /\ nullable' = nullable /\ params' = params

LEMMA Emitted ==
  ASSUME Checking, NEW ins, NEW op, NEW x, NEW src, NEW depth, Emits(ins, op, x, src, depth),
         NEW n, n = Len(code) + 1
  PROVE  /\ Appended(ins) /\ code'[n] = ins /\ OwnersAt(n)' = OwnersNow
         /\ ins.op = op /\ ins.x = x /\ ins.src = src /\ ins.depth = depth
         /\ ins.reached = Top.falls
  <1>0. CheckerType /\ Blocks  BY DEF Checking
  <1>1. PICK d : d = Len(frames)  OBVIOUS
  <1>2. Bound \subseteq Binding /\ Top \in FrameType  BY <1>0, <1>1, StackShape
  <1>3. Top.falls \in BOOLEAN /\ facts \in Facts  BY <1>0, <1>2 DEF FrameType, CheckerType
  <1>4. /\ ins.op = op /\ ins.x = x /\ ins.src = src /\ ins.depth = depth
        /\ ins.reached = Top.falls /\ ins.facts = facts /\ ins.bound = Bound
    BY DEF Emits, Instr
  <1>5. ins \in InstrType  BY <1>2, <1>3 DEF Emits, Instr, InstrType
  <1>6. Appended(ins)  BY <1>4, <1>5 DEF Appended, OwnersNow, Emits
  <1>7. code'[n] = ins /\ OwnersAt(n)' = OwnersNow  BY <1>0, <1>4, <1>6, OldCode DEF OwnersNow
  <1> QED  BY <1>4, <1>6, <1>7

LEMMA EmitStep ==
  ASSUME Checking, nullable' = nullable, params' = params, NEW op \in Ops,
         NEW x \in Binding \cup {"none"}, NEW src \in Sources \cup {"nonnil", "opaque"},
         Emit(op, x, src)
  PROVE  used' \subseteq Binding /\ \E ins : Emits(ins, op, x, src, Len(frames))
  <1>1. CheckerType /\ Blocks  BY DEF Checking
  <1>2. PICK d : d = Len(frames)  OBVIOUS
  <1>3. d \in Nat /\ Bound \subseteq Binding  BY <1>1, <1>2, StackShape
  <1>4. PICK ins : ins = Instr(op, x, src, d, facts, Bound, Top.falls)  OBVIOUS
  <1>5. code' = Append(code, ins)  BY <1>2, <1>4 DEF Emit
  <1>6. Emits(ins, op, x, src, d)  BY <1>3, <1>4, <1>5 DEF Emits
  <1>7. used' \subseteq Binding  BY <1>1, <1>3 DEF Emit, CheckerType
  <1> QED  BY <1>2, <1>6, <1>7

LEMMA JumpStep ==
  ASSUME Checking, nullable' = nullable, params' = params, NEW op \in Ops, NEW depth \in Nat,
         EmitJump(op, depth)
  PROVE  used' \subseteq Binding /\ \E ins : Emits(ins, op, "none", "nil", depth)
  <1>1. CheckerType  BY DEF Checking
  <1>2. PICK ins : ins = Instr(op, "none", "nil", depth, facts, Bound, Top.falls)  OBVIOUS
  <1>3. code' = Append(code, ins) /\ used' = used  BY <1>2 DEF EmitJump
  <1>4. "none" \in Binding \cup {"none"} /\ "nil" \in Sources \cup {"nonnil", "opaque"}
    BY DEF Sources
  <1>5. Emits(ins, op, "none", "nil", depth)  BY <1>2, <1>3, <1>4 DEF Emits
  <1> QED  BY <1>1, <1>3, <1>5 DEF CheckerType

LEMMA BindEdge ==
  ASSUME Checking, nullable' = nullable, params' = params,
         NEW x \in Binding, NEW src \in Sources, SourceAccepted(x, src), Top.falls,
         Emit("bind", x, src), facts' = Bind(facts, x, src),
         frames' # <<>>, Top'.falls, Bound' \subseteq Bound \cup {x},
         NEW n, n = Len(code) + 1
  PROVE  InstrOK(n)'
  <1>0. CheckerType /\ Blocks  BY DEF Checking
  <1>1. PICK d \in Nat : d = Len(frames)  BY <1>0, StackShape
  <1>2. "bind" \in Ops /\ x \in Binding \cup {"none"} /\ src \in Sources \cup {"nonnil", "opaque"}
    BY DEF Ops, Straight
  <1>3. PICK ins : Emits(ins, "bind", x, src, Len(frames))  BY <1>2, EmitStep
  <1>4. /\ Appended(ins) /\ code'[n] = ins /\ OwnersAt(n)' = OwnersNow
        /\ ins.op = "bind" /\ ins.x = x /\ ins.src = src
    BY <1>3, Emitted
  <1>5. Bound \subseteq Binding  BY <1>0, <1>1, StackShape
  <1>6. facts'.moved = (facts.moved \cup ({src} \cap Binding)) \ {x}
    BY <1>0, BindFacts DEF SourceAccepted, CheckerType
  <1>7. After(n)' = (OwnersNow \ ({src} \ nullable)) \cup {x}  BY <1>4 DEF After
  <1>8. OwnersNow' \subseteq After(n)'
    <2>1. OwnersNow' = {y \in Bound' : y \in nullable \/ y \notin facts'.moved}
      BY DEF OwnersNow, Owns
    <2>2. OwnersNow = {y \in Bound : y \in nullable \/ y \notin facts.moved}  BY DEF OwnersNow, Owns
    <2> QED  BY <1>5, <1>6, <1>7, <2>1, <2>2
  <1>9. Edge(n, n + 1)'  BY <1>0, <1>4, <1>8, NextEdge
  <1>10. src \in Binding => src \in OwnersAt(n)'
    BY <1>4 DEF SourceAccepted, Readable, OwnersNow, Owns
  <1> QED  BY <1>4, <1>9, <1>10 DEF InstrOK

LEMMA Room ==
  ASSUME Checking, NEW kind, NEW k \in {1, 2}, CanCompile(kind, k)
  PROVE  /\ frames # <<>> /\ Top.falls /\ Len(code) + 1 + Len(frames) <= MaxLen
         /\ Len(code) + k + Len(frames) <= MaxLen
  <1>1. Len(code) \in Nat /\ Len(frames) \in Nat  BY DEF Checking, CheckerType
  <1> QED  BY <1>1, OwnershipConstants DEF CanCompile

(* A declaration: one more binding in the scope of the innermost block.    *)
LEMMA DeclShape ==
  ASSUME CheckerType, Blocks, params' = params, NEW x \in Binding, x \notin Bound,
         frames' = [frames EXCEPT ![Len(frames)].scope = @ \cup {x}]
  PROVE  /\ frames' \in Seq(FrameType) /\ Len(frames') = Len(frames) /\ frames' # <<>>
         /\ Top'.falls = Top.falls /\ Bound' = Bound \cup {x}
         /\ \A m \in DOMAIN frames : KeptFrame(m) /\ frames'[m].scope \cap BoundTo(m - 1) = {}
  <1>2. PICK d : d = Len(frames)  OBVIOUS
  <1>3. /\ d \in Nat \ {0} /\ DOMAIN frames = 1 .. d /\ Top = frames[d] /\ frames[d] \in FrameType
        /\ Bound = BoundTo(d - 1) \cup frames[d].scope /\ Bound \subseteq Binding
    BY <1>2, StackShape
  <1>4. PICK r : r = [frames[d] EXCEPT !.scope = @ \cup {x}]  OBVIOUS
  <1>5. /\ r \in FrameType /\ r.scope = frames[d].scope \cup {x} /\ r.falls = frames[d].falls
        /\ r.kind = frames[d].kind /\ r.cond = frames[d].cond /\ r.x = frames[d].x
        /\ r.before = frames[d].before /\ r.then = frames[d].then
        /\ r.thenFalls = frames[d].thenFalls /\ r.conts = frames[d].conts /\ r.brks = frames[d].brks
    BY <1>3, <1>4 DEF FrameType
  <1>6. frames' = [frames EXCEPT ![d] = r]  BY <1>2, <1>4
  <1>7. /\ frames' \in Seq(FrameType) /\ Len(frames') = d /\ frames' # <<>> /\ frames'[d] = r
        /\ Top' = r /\ Bound' = BoundTo(d - 1) \cup r.scope /\ BoundTo(d - 1)' = BoundTo(d - 1)
        /\ \A m \in 1 .. d : m # d => KeptFrame(m) /\ frames'[m].scope \cap BoundTo(m - 1) = {}
    <2>1. r \in FrameType /\ d \in 1 .. d  BY <1>3, <1>5
    <2> QED  BY <1>2, <2>1, <1>6, TopSet
  <1>8. KeptFrame(d) /\ frames'[d].scope \cap BoundTo(d - 1) = {}
    <2>1. d \in DOMAIN frames'  BY <1>3, <1>7
    <2>2. frames[d].scope \cap BoundTo(d - 1) = {}  BY <1>3 DEF Blocks
    <2>3. KeptFrame(d)  BY <1>5, <1>7, <2>1 DEF KeptFrame
    <2>4. r.scope \cap BoundTo(d - 1) = {}  BY <1>3, <1>5, <2>2
    <2> QED  BY <1>7, <2>3, <2>4
  <1>9. \A m \in DOMAIN frames : KeptFrame(m) /\ frames'[m].scope \cap BoundTo(m - 1) = {}
    BY <1>3, <1>7, <1>8
  <1> QED  BY <1>2, <1>3, <1>5, <1>7, <1>9

LEMMA VarDeclStep ==
  ASSUME Checking, nullable' = nullable, params' = params,
         NEW x \in Binding, NEW src \in Sources, VarDecl(x, src)
  PROVE  Checking'
  <1>0. CheckerType /\ Blocks  BY DEF Checking
  <1>1. /\ CanCompile("var", 1) /\ Top.falls /\ SourceAccepted(x, src)
        /\ x \notin Bound /\ Emit("bind", x, src) /\ facts' = Bind(facts, x, src)
        /\ frames' = [frames EXCEPT ![Len(frames)].scope = @ \cup {x}]
    BY DEF VarDecl, CanCompile
  <1>2. /\ frames' \in Seq(FrameType) /\ Len(frames') = Len(frames) /\ frames' # <<>>
        /\ Top'.falls = Top.falls /\ Bound' = Bound \cup {x}
        /\ \A m \in DOMAIN frames : KeptFrame(m) /\ frames'[m].scope \cap BoundTo(m - 1) = {}
    BY <1>0, <1>1, DeclShape
  <1>3. PICK n : n = Len(code) + 1  OBVIOUS
  <1>4. InstrOK(n)'
    <2>1. Bound' \subseteq Bound \cup {x} /\ Top'.falls  BY <1>1, <1>2
    <2> QED  BY <1>1, <1>2, <1>3, <2>1, BindEdge
  <1>5. "bind" \in Ops /\ x \in Binding \cup {"none"} /\ src \in Sources \cup {"nonnil", "opaque"}
    BY DEF Ops, Straight
  <1>6. PICK ins : Appended(ins) /\ ins.op = "bind"
    <2>1. PICK ins : Emits(ins, "bind", x, src, Len(frames))  BY <1>1, <1>5, EmitStep
    <2> QED  BY <1>3, <2>1, Emitted
  <1>7. used' \subseteq Binding  BY <1>1, <1>5, EmitStep
  <1>8. facts' \in Facts  BY <1>0, <1>1, BindFacts DEF SourceAccepted, CheckerType
  <1>9. Len(code) + 1 + Len(frames) <= MaxLen  BY <1>1, Room
  <1> QED  BY <1>2, <1>3, <1>4, <1>6, <1>7, <1>8, <1>9, PlainStep

LEMMA FlatStep ==
  ASSUME Checking, NEW ins, Appended(ins), NEW n, n = Len(code) + 1, NEW kind, CanCompile(kind, 1),
         frames' = frames, ins.op \notin {"else", "endif", "endloop", "loop"},
         facts' \in Facts, used' \subseteq Binding, InstrOK(n)'
  PROVE  Checking'
  <1>1. CheckerType /\ Blocks /\ params' = params  BY DEF Checking, Appended
  <1>2. Len(code) + 1 + Len(frames) <= MaxLen  BY Room
  <1>3. /\ frames' \in Seq(FrameType) /\ Len(frames') = Len(frames)
        /\ \A m \in DOMAIN frames : KeptFrame(m) /\ frames'[m].scope \cap BoundTo(m - 1) = {}
    BY <1>1, SameStack
  <1> QED  BY <1>2, <1>3, PlainStep

LEMMA AssignmentStep ==
  ASSUME Checking, nullable' = nullable, params' = params,
         NEW x \in Binding, NEW src \in Sources, Assignment(x, src)
  PROVE  Checking'
  <1>1. /\ CanCompile("assign", 1) /\ SourceAccepted(x, src) /\ Emit("bind", x, src)
        /\ facts' = Bind(facts, x, src) /\ frames' = frames
    BY DEF Assignment
  <1>2. CheckerType /\ Blocks /\ Top.falls  BY <1>1 DEF Checking, CanCompile
  <1>3. frames' # <<>> /\ Top' = Top /\ Bound' = Bound  BY <1>1, <1>2, SameStack
  <1>4. PICK n : n = Len(code) + 1  OBVIOUS
  <1>5. Top'.falls /\ Bound' \subseteq Bound \cup {x}  BY <1>2, <1>3
  <1>6. InstrOK(n)'  BY <1>1, <1>2, <1>3, <1>4, <1>5, BindEdge
  <1>7. "bind" \in Ops /\ x \in Binding \cup {"none"} /\ src \in Sources \cup {"nonnil", "opaque"}
    BY DEF Ops, Straight
  <1>8. used' \subseteq Binding  BY <1>1, <1>7, EmitStep
  <1>9. PICK ins : Emits(ins, "bind", x, src, Len(frames))  BY <1>1, <1>7, EmitStep
  <1>10. Appended(ins) /\ ins.op = "bind"  BY <1>4, <1>9, Emitted
  <1>11. facts' \in Facts  BY <1>1, <1>2, BindFacts DEF SourceAccepted, CheckerType
  <1> QED  BY <1>1, <1>4, <1>6, <1>8, <1>10, <1>11, FlatStep

LEMMA FreeStep ==
  ASSUME Checking, nullable' = nullable, params' = params, NEW x \in Binding, FreeBuiltin(x)
  PROVE  Checking'
  <1>1. /\ CanCompile("free", 1) /\ x \in Bound /\ Readable(facts, x) /\ Emit("free", x, "nil")
        /\ facts' = Invalidate(MoveSource(facts, x), x) /\ frames' = frames
    BY DEF FreeBuiltin
  <1>2. CheckerType /\ Blocks /\ Top.falls  BY <1>1 DEF Checking, CanCompile
  <1>3. frames' # <<>> /\ Top' = Top /\ Bound' = Bound  BY <1>1, <1>2, SameStack
  <1>4. PICK n : n = Len(code) + 1  OBVIOUS
  <1>5. "free" \in Ops /\ x \in Binding \cup {"none"} /\ "nil" \in Sources \cup {"nonnil", "opaque"}
    BY DEF Ops, Straight, Sources
  <1>6. used' \subseteq Binding  BY <1>1, <1>5, EmitStep
  <1>7. PICK ins : Emits(ins, "free", x, "nil", Len(frames))  BY <1>1, <1>5, EmitStep
  <1>8. /\ Appended(ins) /\ code'[n] = ins /\ OwnersAt(n)' = OwnersNow
        /\ ins.op = "free" /\ ins.x = x
    BY <1>4, <1>7, Emitted
  <1>9. facts' \in Facts /\ facts'.moved = facts.moved \cup {x}
    <2>1. MoveSource(facts, x) \in Facts /\ MoveSource(facts, x).moved = facts.moved \cup {x}
      BY <1>2, MoveFacts DEF CheckerType
    <2> QED  BY <1>1, <2>1, MoveFacts
  <1>10. x \in OwnersAt(n)'  BY <1>1, <1>8 DEF Readable, OwnersNow, Owns
  <1>11. OwnersNow' \subseteq After(n)'
    <2>1. After(n)' = OwnersNow \ ({x} \ nullable)  BY <1>8 DEF After
    <2> QED  BY <1>3, <1>9, <2>1 DEF OwnersNow, Owns
  <1>12. Edge(n, n + 1)'  BY <1>2, <1>3, <1>4, <1>8, <1>11, NextEdge
  <1>13. InstrOK(n)'  BY <1>8, <1>10, <1>12 DEF InstrOK
  <1> QED  BY <1>1, <1>4, <1>6, <1>8, <1>9, <1>13, FlatStep

LEMMA DisposeStep ==
  ASSUME Checking, nullable' = nullable, params' = params, NEW x \in Binding, Dispose(x)
  PROVE  Checking'
  <1>1. /\ CanCompile("dispose", 1) /\ Emit("dispose", x, "nil")
        /\ facts' = MoveConsume(facts, x) /\ frames' = frames
    BY DEF Dispose
  <1>2. CheckerType /\ Blocks /\ Top.falls  BY <1>1 DEF Checking, CanCompile
  <1>3. frames' # <<>> /\ Top' = Top /\ Bound' = Bound  BY <1>1, <1>2, SameStack
  <1>4. PICK n : n = Len(code) + 1  OBVIOUS
  <1>5. "dispose" \in Ops /\ x \in Binding \cup {"none"} /\ "nil" \in Sources \cup {"nonnil", "opaque"}
    BY DEF Ops, Straight, Sources
  <1>6. used' \subseteq Binding  BY <1>1, <1>5, EmitStep
  <1>7. PICK ins : Emits(ins, "dispose", x, "nil", Len(frames))  BY <1>1, <1>5, EmitStep
  <1>8. /\ Appended(ins) /\ code'[n] = ins /\ OwnersAt(n)' = OwnersNow /\ ins.op = "dispose"
    BY <1>4, <1>7, Emitted
  <1>9. facts' \in Facts /\ facts'.moved = facts.moved \cup {x}
    BY <1>1, <1>2, MoveFacts DEF CheckerType
  <1>10. OwnersNow' \subseteq After(n)'
    <2>1. After(n)' = OwnersNow  BY <1>8 DEF After
    <2> QED  BY <1>3, <1>9, <2>1 DEF OwnersNow, Owns
  <1>11. Edge(n, n + 1)'  BY <1>2, <1>3, <1>4, <1>8, <1>10, NextEdge
  <1>12. InstrOK(n)'  BY <1>8, <1>11 DEF InstrOK
  <1> QED  BY <1>1, <1>4, <1>6, <1>8, <1>9, <1>12, FlatStep

(* A block as it was but for what it falls through to and its jumps.       *)
Alike(q, r) ==
  /\ q \in FrameType /\ q.scope = r.scope /\ q.kind = r.kind /\ q.cond = r.cond /\ q.x = r.x
  /\ q.before = r.before /\ q.then = r.then /\ q.thenFalls = r.thenFalls
  /\ \A b \in DOMAIN r.brks : b \in DOMAIN q.brks /\ q.brks[b] = r.brks[b]
  /\ \A c \in DOMAIN r.conts : c \in DOMAIN q.conts /\ q.conts[c] = r.conts[c]

LEMMA AlikeFrames ==
  ASSUME NEW r \in FrameType, NEW f \in Facts, NEW v \in BOOLEAN
  PROVE  /\ Alike(r, r)
         /\ Alike([r EXCEPT !.falls = v], r) /\ [r EXCEPT !.falls = v].falls = v
         /\ [r EXCEPT !.falls = v].brks = r.brks /\ [r EXCEPT !.falls = v].conts = r.conts
         /\ Alike([r EXCEPT !.brks = Append(@, f)], r)
         /\ [r EXCEPT !.brks = Append(@, f)].brks = Append(r.brks, f)
         /\ Alike([r EXCEPT !.conts = Append(@, f)], r)
         /\ [r EXCEPT !.conts = Append(@, f)].conts = Append(r.conts, f)
  <1>1. r.brks \in Seq(Facts) /\ r.conts \in Seq(Facts)  BY DEF FrameType
  <1>2. \A s \in Seq(Facts) : /\ Append(s, f) \in Seq(Facts)
                              /\ \A b \in DOMAIN s : b \in DOMAIN Append(s, f) /\ Append(s, f)[b] = s[b]
    OBVIOUS
  <1>3. Alike(r, r)  BY DEF Alike
  <1>4. /\ Alike([r EXCEPT !.falls = v], r) /\ [r EXCEPT !.falls = v].falls = v
        /\ [r EXCEPT !.falls = v].brks = r.brks /\ [r EXCEPT !.falls = v].conts = r.conts
    BY DEF Alike, FrameType
  <1>5. PICK s : s = Append(r.brks, f)  OBVIOUS
  <1>6. /\ Alike([r EXCEPT !.brks = s], r) /\ [r EXCEPT !.brks = s].brks = s
    BY <1>1, <1>2, <1>5 DEF Alike, FrameType
  <1>7. PICK t : t = Append(r.conts, f)  OBVIOUS
  <1>8. /\ Alike([r EXCEPT !.conts = t], r) /\ [r EXCEPT !.conts = t].conts = t
    BY <1>1, <1>2, <1>7 DEF Alike, FrameType
  <1> QED  BY <1>3, <1>4, <1>5, <1>6, <1>7, <1>8

LEMMA AlikeStack ==
  ASSUME CheckerType, Blocks, params' = params, NEW d, d = Len(frames), Len(frames') = d,
         frames' \in Seq(FrameType), \A m \in 1 .. d : Alike(frames'[m], frames[m])
  PROVE  /\ frames' # <<>> /\ Top' = frames'[d] /\ Bound' = Bound
         /\ \A m \in 0 .. d : BoundTo(m)' = BoundTo(m)
         /\ \A m \in DOMAIN frames : KeptFrame(m) /\ frames'[m].scope \cap BoundTo(m - 1) = {}
  <1>1. /\ d \in Nat \ {0} /\ DOMAIN frames = 1 .. d /\ DOMAIN frames' = 1 .. d
        /\ Bound = BoundTo(d)
    BY StackShape
  <1>2. frames' # <<>> /\ Top' = frames'[d]  BY <1>1 DEF Top, Last
  <1>3. ASSUME NEW m \in 0 .. d PROVE BoundTo(m)' = BoundTo(m)
    <2>1. \A i \in 1 .. m : frames'[i].scope = frames[i].scope  BY <1>1 DEF Alike
    <2> QED  BY <2>1, BoundKept
  <1>4. Bound' = BoundTo(d)'
    BY DEF Bound, BoundTo, Scope
  <1>5. d \in 0 .. d  BY <1>1
  <1>6. ASSUME NEW m \in DOMAIN frames
        PROVE  KeptFrame(m) /\ frames'[m].scope \cap BoundTo(m - 1) = {}
    <2>1. m \in 1 .. d /\ m - 1 \in 0 .. d /\ m \in DOMAIN frames'  BY <1>1
    <2>2. PICK k : k = m - 1  OBVIOUS
    <2>3. BoundTo(k)' = BoundTo(k)  BY <1>3, <2>1, <2>2
    <2>4. Alike(frames'[m], frames[m])  BY <2>1
    <2>5. KeptFrame(m)  BY <2>1, <2>2, <2>3, <2>4 DEF KeptFrame, Alike
    <2> QED  BY <2>4, <2>5 DEF Alike, Blocks
  <1> QED  BY <1>1, <1>2, <1>3, <1>4, <1>5, <1>6

LEMMA SetItem ==
  ASSUME NEW S, NEW s \in Seq(S), NEW i \in DOMAIN s, NEW v \in S
  PROVE  [s EXCEPT ![i] = v] \in Seq(S) /\ Len([s EXCEPT ![i] = v]) = Len(s)
  OBVIOUS

(* After a jump the innermost block does not fall through.                 *)
LEMMA StopShape ==
  ASSUME CheckerType, Blocks, params' = params,
         frames' = [frames EXCEPT ![Len(frames)].falls = FALSE]
  PROVE  /\ frames' \in Seq(FrameType) /\ Len(frames') = Len(frames) /\ Bound' = Bound
         /\ \A m \in DOMAIN frames : KeptFrame(m) /\ frames'[m].scope \cap BoundTo(m - 1) = {}
  <1>3. PICK d : d = Len(frames)  OBVIOUS
  <1>4. d \in Nat \ {0} /\ DOMAIN frames = 1 .. d /\ \A m \in 1 .. d : frames[m] \in FrameType
    BY <1>3, StackShape
  <1>5. /\ Len(frames') = d /\ frames' \in Seq(FrameType)
        /\ \A m \in 1 .. d : Alike(frames'[m], frames[m])
    <2>1. PICK r : r = [frames[d] EXCEPT !.falls = FALSE]  OBVIOUS
    <2>2. facts \in Facts  BY DEF CheckerType
    <2>3. FALSE \in BOOLEAN /\ frames[d] \in FrameType  BY <1>4
    <2>4. Alike(r, frames[d])  BY <2>1, <2>2, <2>3, AlikeFrames, ZenonT(20)
    <2>5. \A m \in 1 .. d : Alike(frames[m], frames[m])
      BY <1>4, <2>2, <2>3, AlikeFrames
    <2>6. r \in FrameType  BY <2>4 DEF Alike
    <2>7. frames' = [frames EXCEPT ![d] = r]  BY <1>3, <2>1
    <2>8. frames \in Seq(FrameType)  BY DEF CheckerType
    <2>9. Len(frames') = d /\ frames' \in Seq(FrameType)
      <3>1. d \in DOMAIN frames  BY <1>4
      <3>2. [frames EXCEPT ![d] = r] \in Seq(FrameType) /\ Len([frames EXCEPT ![d] = r]) = Len(frames)
        BY <2>6, <2>8, <3>1, SetItem
      <3> QED  BY <1>3, <2>7, <3>2, Zenon
    <2>10. \A m \in 1 .. d : frames'[m] = IF m = d THEN r ELSE frames[m]  BY <1>4, <2>7
    <2> QED  BY <2>4, <2>5, <2>9, <2>10
  <1>6. /\ Bound' = Bound
        /\ \A m \in DOMAIN frames : KeptFrame(m) /\ frames'[m].scope \cap BoundTo(m - 1) = {}
    BY <1>3, <1>5, AlikeStack
  <1> QED  BY <1>3, <1>5, <1>6

LEMMA ReturnStep ==
  ASSUME Checking, nullable' = nullable, params' = params, Return
  PROVE  Checking'
  <1>1. /\ CanCompile("return", 1) /\ EmitJump("return", 0) /\ facts' = facts
        /\ frames' = [frames EXCEPT ![Len(frames)].falls = FALSE]
    BY DEF Return
  <1>2. CheckerType /\ Blocks  BY DEF Checking
  <1>3. /\ frames' \in Seq(FrameType) /\ Len(frames') = Len(frames)
        /\ \A m \in DOMAIN frames : KeptFrame(m) /\ frames'[m].scope \cap BoundTo(m - 1) = {}
    BY <1>1, <1>2, StopShape
  <1>4. PICK n : n = Len(code) + 1  OBVIOUS
  <1>5. "return" \in Ops /\ 0 \in Nat  BY DEF Ops
  <1>6. used' \subseteq Binding  BY <1>1, <1>5, JumpStep
  <1>7. PICK ins : Emits(ins, "return", "none", "nil", 0)  BY <1>1, <1>5, JumpStep
  <1>8. Appended(ins) /\ code'[n] = ins /\ ins.op = "return"  BY <1>4, <1>7, Emitted
  <1>9. InstrOK(n)'  BY <1>8 DEF InstrOK, Straight
  <1>10. Len(code) + 1 + Len(frames) <= MaxLen  BY <1>1, Room
  <1>11. facts' \in Facts  BY <1>1, <1>2 DEF CheckerType
  <1> QED  BY <1>3, <1>4, <1>6, <1>8, <1>9, <1>10, <1>11, PlainStep

LEMMA JumpFrames ==
  ASSUME CheckerType, Blocks, NEW d, d = Len(frames), NEW k \in 1 .. d,
         NEW q, Alike(q, frames[k]), NEW g, g = [frames EXCEPT ![k] = q],
         frames' = [g EXCEPT ![d] = [g[d] EXCEPT !.falls = FALSE]]
  PROVE  /\ frames' \in Seq(FrameType) /\ Len(frames') = d
         /\ \A m \in 1 .. d : Alike(frames'[m], frames[m])
         /\ frames'[k].brks = q.brks /\ frames'[k].conts = q.conts
  <1>1. /\ d \in Nat \ {0} /\ DOMAIN frames = 1 .. d /\ \A m \in 1 .. d : frames[m] \in FrameType
        /\ frames \in Seq(FrameType)
    BY StackShape DEF CheckerType
  <1>2. q \in FrameType  BY DEF Alike
  <1>3. g \in Seq(FrameType) /\ Len(g) = d /\ \A m \in 1 .. d : g[m] = IF m = k THEN q ELSE frames[m]
    BY <1>1, <1>2
  <1>4. facts \in Facts /\ FALSE \in BOOLEAN  BY DEF CheckerType
  <1>5. \A m \in 1 .. d : Alike(g[m], frames[m])
    <2>1. \A m \in 1 .. d : Alike(frames[m], frames[m])  BY <1>1, <1>4, AlikeFrames
    <2> QED  BY <1>3, <2>1
  <1>6. PICK r : r = [g[d] EXCEPT !.falls = FALSE]  OBVIOUS
  <1>7. g[d] \in FrameType  BY <1>1, <1>3
  <1>8. Alike(r, g[d]) /\ r.brks = g[d].brks /\ r.conts = g[d].conts
    BY <1>4, <1>6, <1>7, AlikeFrames, ZenonT(20)
  <1>9. Alike(r, frames[d])  BY <1>1, <1>5, <1>8 DEF Alike
  <1>10. r \in FrameType /\ frames' = [g EXCEPT ![d] = r]  BY <1>6, <1>8 DEF Alike
  <1>11. /\ frames' \in Seq(FrameType) /\ Len(frames') = d
         /\ \A m \in 1 .. d : frames'[m] = IF m = d THEN r ELSE g[m]
    <2>1. DOMAIN g = 1 .. d /\ g \in Seq(FrameType) /\ Len(g) = d  BY <1>3
    <2>2. frames' \in Seq(FrameType) /\ Len(frames') = d
      <3>1. d \in DOMAIN g /\ r \in FrameType  BY <1>1, <1>10, <2>1
      <3>2. [g EXCEPT ![d] = r] \in Seq(FrameType) /\ Len([g EXCEPT ![d] = r]) = Len(g)
        BY <2>1, <3>1, SetItem
      <3> QED  BY <1>10, <2>1, <3>2, Zenon
    <2>3. \A m \in 1 .. d : frames'[m] = IF m = d THEN r ELSE g[m]  BY <1>10, <2>1
    <2> QED  BY <2>2, <2>3
  <1>12. \A m \in 1 .. d : Alike(frames'[m], frames[m])  BY <1>5, <1>9, <1>11
  <1>13. frames'[k].brks = q.brks /\ frames'[k].conts = q.conts  BY <1>3, <1>8, <1>11
  <1> QED  BY <1>11, <1>12, <1>13

LEMMA InnermostLoop ==
  ASSUME CheckerType, Blocks, Loops # {}
  PROVE  Innermost \in DOMAIN frames /\ IsLoop(Innermost)
  <1>1. PICK d : d = Len(frames)  OBVIOUS
  <1>2. d \in Nat \ {0} /\ DOMAIN frames = 1 .. d  BY <1>1, StackShape
  <1>3. Loops = {i \in 1 .. d : IsLoop(i)}  BY <1>2 DEF Loops, IsLoop
  <1>4. \E i \in 1 .. d : IsLoop(i) /\ \A j \in 1 .. d : IsLoop(j) => j <= i
    <2>1. d \in DOMAIN frames /\ \E i \in 1 .. d : IsLoop(i)  BY <1>2, <1>3
    <2> QED  BY <2>1 DEF Blocks
  <1>5. \E i \in Loops : \A j \in Loops : j <= i  BY <1>3, <1>4
  <1>6. Innermost \in Loops  BY <1>5 DEF Innermost
  <1> QED  BY <1>2, <1>3, <1>6

LEMMA BreakStep ==
  ASSUME Checking, nullable' = nullable, params' = params, Break
  PROVE  Checking'
  <1>1. CheckerType /\ Blocks /\ facts \in Facts  BY DEF Checking, CheckerType
  <1>2. PICK k : k = Innermost  OBVIOUS
  <1>3. PICK d : d = Len(frames)  OBVIOUS
  <1>4. /\ CanCompile("break", 1) /\ Loops # {} /\ EmitJump("break", k - 1) /\ facts' = facts
        /\ frames' = [frames EXCEPT ![k].brks = Append(@, facts), ![d].falls = FALSE]
    BY <1>2, <1>3 DEF Break
  <1>5. /\ d \in Nat \ {0} /\ DOMAIN frames = 1 .. d
        /\ \A m \in 0 .. d : BoundTo(m) \subseteq Bound
    BY <1>1, <1>3, StackShape
  <1>6. k \in 1 .. d /\ IsLoop(k)  BY <1>1, <1>2, <1>4, <1>5, InnermostLoop
  <1>7. PICK q : q = [frames[k] EXCEPT !.brks = Append(@, facts)]  OBVIOUS
  <1>8. Alike(q, frames[k]) /\ q.brks = Append(frames[k].brks, facts) /\ frames[k].brks \in Seq(Facts)
    <2>1. frames[k] \in FrameType /\ TRUE \in BOOLEAN  BY <1>1, <1>3, <1>6, StackShape
    <2>2. Alike(q, frames[k]) /\ q.brks = Append(frames[k].brks, facts)
      BY <1>1, <1>7, <2>1, AlikeFrames, ZenonT(20)
    <2> QED  BY <2>1, <2>2 DEF FrameType
  <1>9. PICK g : g = [frames EXCEPT ![k] = q]  OBVIOUS
  <1>10. frames' = [g EXCEPT ![d] = [g[d] EXCEPT !.falls = FALSE]]
    BY <1>4, <1>5, <1>6, <1>7, <1>9
  <1>11. /\ frames' \in Seq(FrameType) /\ Len(frames') = d
         /\ \A m \in 1 .. d : Alike(frames'[m], frames[m])
         /\ frames'[k].brks = q.brks
    BY <1>1, <1>3, <1>6, <1>8, <1>9, <1>10, JumpFrames
  <1>12. /\ \A m \in DOMAIN frames : KeptFrame(m) /\ frames'[m].scope \cap BoundTo(m - 1) = {}
         /\ \A m \in 0 .. d : BoundTo(m)' = BoundTo(m)
    BY <1>1, <1>3, <1>11, AlikeStack
  <1>13. PICK n : n = Len(code) + 1  OBVIOUS
  <1>14. "break" \in Ops /\ k - 1 \in Nat  BY <1>5, <1>6 DEF Ops
  <1>15. used' \subseteq Binding  BY <1>4, <1>14, JumpStep
  <1>16. PICK ins : Emits(ins, "break", "none", "nil", k - 1)  BY <1>4, <1>14, JumpStep
  <1>17. /\ Appended(ins) /\ code'[n] = ins /\ ins.op = "break" /\ ins.depth = k - 1
         /\ OwnersAt(n)' = OwnersNow
    BY <1>13, <1>16, Emitted
  <1>18. BreakOpen(n)'
    <2>1. NoneAhead(n, {"endloop"})'
      <3>1. Len(code') = n /\ n \in Nat  BY <1>1, <1>13, <1>17, OldCode
      <3> QED  BY <3>1 DEF NoneAhead
    <2>2. OpenAt(n, "loop")' /\ Block(n)' = frames'[k]
      <3>1. frames'[k].kind = "loop"  BY <1>6, <1>11 DEF Alike, IsLoop
      <3>2. code'[n].depth + 1 = k /\ k \in DOMAIN frames'  BY <1>5, <1>6, <1>11, <1>17
      <3> QED  BY <3>1, <3>2 DEF OpenAt, Block
    <2>3. PICK b : b = Len(frames[k].brks) + 1  OBVIOUS
    <2>4. b \in DOMAIN Block(n)'.brks /\ Block(n)'.brks[b] = facts  BY <1>8, <1>11, <2>2, <2>3
    <2>5. KeptFor(n, facts)'
      <3>1. PICK j : j = k - 1  OBVIOUS
      <3>2. j \in 0 .. d  BY <1>5, <1>6, <3>1
      <3>3. BoundTo(j)' \subseteq Bound /\ code'[n].depth = j
        BY <1>5, <1>12, <1>17, <3>1, <3>2
      <3>4. Owns(facts, BoundTo(j))' \subseteq OwnersNow  BY <1>4, <3>3 DEF OwnersNow, Owns
      <3> QED  BY <1>17, <3>3, <3>4 DEF KeptFor
    <2>6. KeptFor(n, Block(n).brks[b])'  BY <1>4, <2>4, <2>5
    <2> QED  BY <2>1, <2>2, <2>4, <2>6 DEF BreakOpen
  <1>19. InstrOK(n)'  BY <1>17, <1>18 DEF InstrOK, Straight, BreakEdge
  <1>20. Len(code) + 1 + Len(frames) <= MaxLen  BY <1>4, Room
  <1> QED  BY <1>1, <1>3, <1>4, <1>11, <1>12, <1>13, <1>15, <1>17, <1>19, <1>20, PlainStep

LEMMA ContinueStep ==
  ASSUME Checking, nullable' = nullable, params' = params, Continue
  PROVE  Checking'
  <1>1. CheckerType /\ Blocks /\ facts \in Facts  BY DEF Checking, CheckerType
  <1>2. PICK k : k = Innermost  OBVIOUS
  <1>3. PICK d : d = Len(frames)  OBVIOUS
  <1>4. /\ CanCompile("continue", 1) /\ Loops # {} /\ EmitJump("continue", k - 1) /\ facts' = facts
        /\ frames' = [frames EXCEPT ![k].conts = Append(@, facts), ![d].falls = FALSE]
    BY <1>2, <1>3 DEF Continue
  <1>5. /\ d \in Nat \ {0} /\ DOMAIN frames = 1 .. d
        /\ \A m \in 0 .. d : BoundTo(m) \subseteq Bound
    BY <1>1, <1>3, StackShape
  <1>6. k \in 1 .. d /\ IsLoop(k)  BY <1>1, <1>2, <1>4, <1>5, InnermostLoop
  <1>7. PICK q : q = [frames[k] EXCEPT !.conts = Append(@, facts)]  OBVIOUS
  <1>8. Alike(q, frames[k]) /\ q.conts = Append(frames[k].conts, facts) /\ frames[k].conts \in Seq(Facts)
    <2>1. frames[k] \in FrameType /\ TRUE \in BOOLEAN  BY <1>1, <1>3, <1>6, StackShape
    <2>2. Alike(q, frames[k]) /\ q.conts = Append(frames[k].conts, facts)
      BY <1>1, <1>7, <2>1, AlikeFrames, ZenonT(20)
    <2> QED  BY <2>1, <2>2 DEF FrameType
  <1>9. PICK g : g = [frames EXCEPT ![k] = q]  OBVIOUS
  <1>10. frames' = [g EXCEPT ![d] = [g[d] EXCEPT !.falls = FALSE]]
    BY <1>4, <1>5, <1>6, <1>7, <1>9
  <1>11. /\ frames' \in Seq(FrameType) /\ Len(frames') = d
         /\ \A m \in 1 .. d : Alike(frames'[m], frames[m])
         /\ frames'[k].conts = q.conts
    BY <1>1, <1>3, <1>6, <1>8, <1>9, <1>10, JumpFrames
  <1>12. /\ \A m \in DOMAIN frames : KeptFrame(m) /\ frames'[m].scope \cap BoundTo(m - 1) = {}
         /\ \A m \in 0 .. d : BoundTo(m)' = BoundTo(m)
    BY <1>1, <1>3, <1>11, AlikeStack
  <1>13. PICK n : n = Len(code) + 1  OBVIOUS
  <1>14. "continue" \in Ops /\ k - 1 \in Nat  BY <1>5, <1>6 DEF Ops
  <1>15. used' \subseteq Binding  BY <1>4, <1>14, JumpStep
  <1>16. PICK ins : Emits(ins, "continue", "none", "nil", k - 1)  BY <1>4, <1>14, JumpStep
  <1>17. /\ Appended(ins) /\ code'[n] = ins /\ ins.op = "continue" /\ ins.depth = k - 1
         /\ OwnersAt(n)' = OwnersNow
    BY <1>13, <1>16, Emitted
  <1>18. BackEdge(n)'
    <2>1. PICK l \in DOMAIN code : OpenLoop(k, l)  BY <1>1, <1>5, <1>6 DEF Blocks
    <2>2. KeptFrame(k) /\ k \in DOMAIN frames  BY <1>5, <1>6, <1>12
    <2>3. OpenLoop(k, l)'  BY <1>1, <1>17, <2>1, <2>2, LoopsKept DEF KeptFrame
    <2>4. Len(code') = n /\ n \in Nat /\ DOMAIN code' = 1 .. n /\ l \in 1 .. n
      BY <1>1, <1>13, <1>17, OldCode
    <2>5. LastLoop(n, l)' /\ code'[l].reached
      <3>1. code'[l].op = "loop" /\ code'[l].depth = k - 1 /\ code'[l].reached  BY <2>3 DEF OpenLoop
      <3>2. \A j \in l + 1 .. n : ~(code'[j].op = "loop" /\ code'[j].depth = k - 1)
        BY <2>3, <2>4 DEF OpenLoop
      <3> QED  BY <1>17, <2>4, <3>1, <3>2 DEF LastLoop, Same
    <2>6. OpenAt(n, "loop")' /\ Block(n)' = frames'[k]
      <3>1. frames'[k].kind = "loop"  BY <1>6, <1>11 DEF Alike, IsLoop
      <3>2. code'[n].depth + 1 = k /\ k \in DOMAIN frames'  BY <1>5, <1>6, <1>11, <1>17
      <3> QED  BY <3>1, <3>2 DEF OpenAt, Block
    <2>7. OwnersAt(l)' \subseteq Owns(Block(n).before, BoundTo(code[n].depth))'
      BY <1>17, <2>3, <2>6 DEF OpenLoop
    <2>8. PICK c : c = Len(frames[k].conts) + 1  OBVIOUS
    <2>9. c \in DOMAIN Block(n)'.conts /\ Block(n)'.conts[c] = facts  BY <1>8, <1>11, <2>6, <2>8
    <2>10. KeptFor(n, facts)'
      <3>1. PICK j : j = k - 1  OBVIOUS
      <3>2. j \in 0 .. d  BY <1>5, <1>6, <3>1
      <3>3. BoundTo(j)' \subseteq Bound /\ code'[n].depth = j
        BY <1>5, <1>12, <1>17, <3>1, <3>2
      <3>4. Owns(facts, BoundTo(j))' \subseteq OwnersNow  BY <1>4, <3>3 DEF OwnersNow, Owns
      <3> QED  BY <1>17, <3>3, <3>4 DEF KeptFor
    <2>11. KeptFor(n, Block(n).conts[c])'  BY <1>4, <2>9, <2>10
    <2>12. BackOpen(n, l)'  BY <2>5, <2>6, <2>7, <2>9, <2>11 DEF BackOpen
    <2> QED  BY <2>4, <2>12 DEF BackEdge
  <1>19. InstrOK(n)'  BY <1>17, <1>18 DEF InstrOK, Straight
  <1>20. Len(code) + 1 + Len(frames) <= MaxLen  BY <1>4, Room
  <1> QED  BY <1>1, <1>3, <1>4, <1>11, <1>12, <1>13, <1>15, <1>17, <1>19, <1>20, PlainStep

(* Opening a block.                                                        *)
LEMMA PushShape ==
  ASSUME CheckerType, Blocks, params' = params, NEW d, d = Len(frames), NEW r \in FrameType,
         frames' = Append(frames, r), r.scope = {}
  PROVE  /\ frames' \in Seq(FrameType) /\ Len(frames') = d + 1 /\ DOMAIN frames' = 1 .. d + 1
         /\ frames' # <<>> /\ Top' = r /\ frames'[d + 1] = r
         /\ \A m \in 1 .. d : frames'[m] = frames[m]
         /\ \A m \in 0 .. d : BoundTo(m)' = BoundTo(m)
         /\ Bound' = Bound /\ BoundTo(d)' = Bound
         /\ \A m \in DOMAIN frames : KeptFrame(m)
  <1>1. /\ d \in Nat \ {0} /\ DOMAIN frames = 1 .. d /\ frames \in Seq(FrameType)
        /\ Bound = BoundTo(d)
    BY StackShape DEF CheckerType
  <1>2. /\ frames' \in Seq(FrameType) /\ Len(frames') = d + 1 /\ DOMAIN frames' = 1 .. d + 1
        /\ frames' # <<>> /\ frames'[d + 1] = r
        /\ \A m \in 1 .. d : frames'[m] = frames[m]
    BY <1>1
  <1>3. Top' = r  BY <1>2 DEF Top, Last
  <1>4. ASSUME NEW m \in 0 .. d PROVE BoundTo(m)' = BoundTo(m)
    <2>1. \A i \in 1 .. m : frames'[i].scope = frames[i].scope  BY <1>1, <1>2
    <2> QED  BY <2>1, BoundKept
  <1>5. d \in 0 .. d  BY <1>1
  <1>6. BoundTo(d)' = Bound  BY <1>1, <1>4, <1>5
  <1>7. Bound' = Bound
    <2>1. 1 .. d + 1 = (1 .. d) \cup {d + 1}  BY <1>1
    <2>2. \A x : x \in Bound' <=> x \in params \/ \E i \in 1 .. d + 1 : x \in frames'[i].scope
      BY <1>2 DEF Bound, Scope
    <2>3. \A x : x \in BoundTo(d)' <=> x \in params \/ \E i \in 1 .. d : x \in frames'[i].scope
      BY DEF BoundTo
    <2>4. \A x : x \in Bound' <=> x \in BoundTo(d)'  BY <1>2, <2>1, <2>2, <2>3
    <2> QED  BY <1>6, <2>4
  <1>8. ASSUME NEW m \in DOMAIN frames PROVE KeptFrame(m)
    <2>1. PICK k : k = m - 1  OBVIOUS
    <2>2. k \in 0 .. d /\ frames'[m] = frames[m] /\ m \in DOMAIN frames'  BY <1>1, <1>2, <2>1
    <2>3. BoundTo(k)' = BoundTo(k)  BY <1>4, <2>2
    <2> QED  BY <2>1, <2>2, <2>3 DEF KeptFrame
  <1> QED  BY <1>2, <1>3, <1>4, <1>6, <1>7, <1>8

LEMMA PushStep ==
  ASSUME Checking, NEW ins, Appended(ins), NEW n, n = Len(code) + 1, NEW d, d = Len(frames),
         NEW r \in FrameType, frames' = Append(frames, r), r.scope = {}, r.before = facts,
         r.kind \in {"then", "loop"}, r.cond # "opaque" => r.x \in nullable,
         ins.op \in {"if", "loop"}, ins.op = "loop" <=> r.kind = "loop", ins.depth = d,
         ins.reached, OwnersAt(n)' = OwnersNow,
         facts' \in Facts, used' \subseteq Binding, Len(code) + 2 + Len(frames) <= MaxLen,
         InstrOK(n)'
  PROVE  Checking'
  <1>0. CheckerType /\ Edges /\ Blocks /\ StartOK /\ params' = params /\ nullable' = nullable
    BY DEF Checking, Appended
  <1>1. d \in Nat \ {0} /\ DOMAIN frames = 1 .. d /\ frames # <<>>
    BY <1>0, StackShape DEF Blocks
  <1>2. /\ frames' \in Seq(FrameType) /\ Len(frames') = d + 1 /\ DOMAIN frames' = 1 .. d + 1
        /\ frames' # <<>> /\ frames'[d + 1] = r
        /\ \A m \in 1 .. d : frames'[m] = frames[m]
        /\ \A m \in 0 .. d : BoundTo(m)' = BoundTo(m)
        /\ BoundTo(d)' = Bound /\ \A m \in DOMAIN frames : KeptFrame(m)
    BY <1>0, PushShape
  <1>3. /\ Len(code) \in Nat /\ Len(code') = n /\ DOMAIN code = 1 .. Len(code)
        /\ DOMAIN code' = 1 .. n /\ code'[n] = ins
        /\ \A f, S : Owns(f, S)' = Owns(f, S)
    BY <1>0, OldCode
  <1>4. CheckerType'
    <2>1. Len(code) + 1 <= MaxLen  BY <1>1, <1>3, OwnershipConstants
    <2> QED  BY <1>2, <2>1, TypeKept
  <1>5. Edges'  BY <1>0, <1>1, <1>2, EdgesExtended
  <1>6. StartOK'  BY <1>0, StartKept
  <1>7. \A m \in 1 .. d : IsLoop(m)' <=> IsLoop(m)  BY <1>2 DEF IsLoop
  <1>8. ASSUME NEW m \in 1 .. d + 1
        PROVE  /\ m # 1 => frames'[m].kind # "body"
               /\ frames'[m].scope \cap BoundTo(m - 1)' = {}
               /\ frames'[m].cond # "opaque" => frames'[m].x \in nullable'
    <2>1. CASE m \in 1 .. d
      <3>1. PICK k : k = m - 1  OBVIOUS
      <3>2. BoundTo(k)' = BoundTo(k) /\ frames'[m] = frames[m]  BY <1>1, <1>2, <2>1, <3>1
      <3> QED  BY <1>0, <1>1, <2>1, <3>1, <3>2 DEF Blocks
    <2>2. CASE m = d + 1  BY <1>0, <1>2, <2>2
    <2> QED  BY <1>1, <2>1, <2>2
  <1>9. ASSUME NEW m \in 1 .. d + 1, IsLoop(m)' PROVE \E l \in DOMAIN code' : OpenLoop(m, l)'
    <2>1. CASE m \in 1 .. d
      <3>1. KeptFrame(m) /\ m \in DOMAIN frames /\ IsLoop(m)  BY <1>1, <1>2, <1>7, <1>9, <2>1
      <3>2. PICK l \in DOMAIN code : OpenLoop(m, l)  BY <1>0, <3>1 DEF Blocks
      <3>3. ins.depth # m - 1  BY <1>1, <2>1
      <3>4. OpenLoop(m, l)'  BY <1>0, <3>1, <3>2, <3>3, LoopsKept DEF KeptFrame
      <3>5. l \in DOMAIN code'  BY <1>3
      <3> QED  BY <3>4, <3>5
    <2>2. CASE m = d + 1
      <3>1. ins.op = "loop"  BY <1>2, <1>9, <2>2 DEF IsLoop
      <3>2. m - 1 = d  BY <1>1, <2>2
      <3>3. OwnersAt(n)' \subseteq Owns(frames[m].before, BoundTo(m - 1))'
        <4>1. Owns(frames[m].before, BoundTo(m - 1))' = Owns(facts, Bound)
          BY <1>2, <1>3, <2>2, <3>2
        <4> QED  BY <4>1 DEF OwnersNow
      <3>4. \A j \in n + 1 .. Len(code') : FALSE  BY <1>3
      <3>5. OpenLoop(m, n)'  BY <1>3, <3>1, <3>2, <3>3, <3>4 DEF OpenLoop
      <3> QED  BY <1>3, <3>5
    <2> QED  BY <1>1, <2>1, <2>2
  <1>10. ASSUME NEW m \in 1 .. d + 1, \E i \in 1 .. m : IsLoop(i)'
         PROVE  \E i \in 1 .. m : IsLoop(i)' /\ \A j \in 1 .. m : IsLoop(j)' => j <= i
    <2>1. ASSUME NEW k \in 1 .. d, \E i \in 1 .. k : IsLoop(i)'
          PROVE  \E i \in 1 .. k : IsLoop(i)' /\ \A j \in 1 .. k : IsLoop(j)' => j <= i
      <3>1. k \in DOMAIN frames /\ 1 .. k \subseteq 1 .. d  BY <1>1
      <3>2. PICK i \in 1 .. k : IsLoop(i) /\ \A j \in 1 .. k : IsLoop(j) => j <= i
        BY <1>0, <1>7, <2>1, <3>1 DEF Blocks
      <3> QED  BY <1>7, <3>1, <3>2
    <2>2. CASE m \in 1 .. d  BY <1>10, <2>1, <2>2
    <2>3. CASE m = d + 1 /\ IsLoop(m)'  BY <1>1, <2>3
    <2>4. CASE m = d + 1 /\ ~IsLoop(m)'
      <3>1. 1 .. m = (1 .. d) \cup {m} /\ d \in 1 .. d  BY <1>1, <2>4
      <3>2. \E i \in 1 .. d : IsLoop(i)'  BY <1>10, <2>4, <3>1
      <3>3. PICK i \in 1 .. d : IsLoop(i)' /\ \A j \in 1 .. d : IsLoop(j)' => j <= i
        BY <2>1, <3>1, <3>2
      <3> QED  BY <2>4, <3>1, <3>3
    <2> QED  BY <1>1, <2>2, <2>3, <2>4
  <1>11. frames'[1].kind = "body"  BY <1>0, <1>1, <1>2 DEF Blocks
  <1>12. Len(code') + Len(frames') <= MaxLen  BY <1>1, <1>2, <1>3
  <1>13. Blocks'  BY <1>2, <1>8, <1>9, <1>10, <1>11, <1>12 DEF Blocks
  <1> QED  BY <1>4, <1>5, <1>6, <1>13 DEF Checking

LEMMA FrameShape ==
  ASSUME NEW kind \in {"body", "then", "else", "loop"}, NEW cond \in {"opaque", "nil", "nonnil"},
         NEW x \in Binding \cup {"none"}, NEW f \in Facts
  PROVE  /\ Frame(kind, cond, x, f) \in FrameType
         /\ Frame(kind, cond, x, f).scope = {} /\ Frame(kind, cond, x, f).falls
         /\ Frame(kind, cond, x, f).kind = kind /\ Frame(kind, cond, x, f).cond = cond
         /\ Frame(kind, cond, x, f).x = x /\ Frame(kind, cond, x, f).before = f
  BY DEF Frame, FrameType

LEMMA IfStep ==
  ASSUME Checking, nullable' = nullable, params' = params,
         NEW cond \in {"opaque", "nil", "nonnil"}, NEW x \in Binding \cup {"none"}, If(cond, x)
  PROVE  Checking'
  <1>1. CheckerType /\ Blocks /\ facts \in Facts  BY DEF Checking, CheckerType
  <1>2. PICK d : d = Len(frames)  OBVIOUS
  <1>3. d \in Nat \ {0} /\ Bound \subseteq Binding  BY <1>1, <1>2, StackShape
  <1>4. PICK r : r = Frame("then", cond, x, facts)  OBVIOUS
  <1>5. /\ CanCompile("if", 2)
        /\ cond # "opaque" => x \in Bound \cap nullable
        /\ Emit("if", x, cond) /\ facts' = Branch(facts, cond, x, TRUE)
        /\ frames' = Append(frames, r)
    BY <1>4 DEF If
  <1>6. /\ r \in FrameType /\ r.scope = {} /\ r.falls /\ r.kind = "then" /\ r.cond = cond
        /\ r.x = x /\ r.before = facts
    BY <1>1, <1>4, FrameShape
  <1>7. frames # <<>> /\ Top.falls /\ Len(code) + 2 + Len(frames) <= MaxLen  BY <1>5, Room
  <1>8. PICK n : n = Len(code) + 1  OBVIOUS
  <1>9. "if" \in Ops /\ cond \in Sources \cup {"nonnil", "opaque"}  BY DEF Ops, Straight, Sources
  <1>10. used' \subseteq Binding  BY <1>5, <1>9, EmitStep
  <1>11. PICK ins : Emits(ins, "if", x, cond, Len(frames))  BY <1>5, <1>9, EmitStep
  <1>12. /\ Appended(ins) /\ code'[n] = ins /\ OwnersAt(n)' = OwnersNow
         /\ ins.op = "if" /\ ins.depth = d /\ ins.reached
    <2>1. /\ Appended(ins) /\ code'[n] = ins /\ OwnersAt(n)' = OwnersNow
          /\ ins.op = "if" /\ ins.depth = Len(frames) /\ ins.reached = Top.falls
      BY <1>8, <1>11, Emitted
    <2> QED  BY <1>2, <1>7, <2>1
  <1>13. facts' \in Facts /\ Owns(facts', Bound) = Owns(facts, Bound)
    <2>1. cond # "opaque" => x \in Binding \cap nullable  BY <1>3, <1>5
    <2>2. PICK g : g = Branch(facts, cond, x, TRUE)  OBVIOUS
    <2>3. g \in Facts /\ g.moved \ nullable = facts.moved \ nullable
      BY <1>1, <2>1, <2>2, BranchFacts
    <2>4. facts' = g  BY <1>5, <2>2
    <2> QED  BY <2>3, <2>4 DEF Owns
  <1>14. /\ frames' # <<>> /\ Top' = r /\ frames'[d + 1] = r /\ Bound' = Bound
         /\ BoundTo(d)' = Bound /\ DOMAIN frames' = 1 .. d + 1
    BY <1>1, <1>2, <1>5, <1>6, PushShape
  <1>15. Edge(n, n + 1)'
    <2>1. After(n)' = OwnersNow  BY <1>12 DEF After
    <2>2. OwnersNow' = OwnersNow  BY <1>13, <1>14 DEF OwnersNow, Owns
    <2> QED  BY <1>1, <1>6, <1>8, <1>12, <1>14, <2>1, <2>2, NextEdge
  <1>16. IfOpen(n)'
    <2>1. NoneAhead(n, {"else", "endif"})'
      <3>1. Len(code') = n /\ n \in Nat  BY <1>1, <1>8, <1>12, OldCode
      <3> QED  BY <3>1 DEF NoneAhead
    <2>2. OpenAt(n, "then")' /\ Block(n)' = r
      BY <1>3, <1>6, <1>12, <1>14 DEF OpenAt, Block
    <2>3. PICK f : f = facts  OBVIOUS
    <2>4. KeptFor(n, Block(n).before)'
      <3>1. Block(n)'.before = f /\ code'[n].depth = d  BY <1>6, <1>12, <2>2, <2>3
      <3>2. Owns(f, BoundTo(d))' = OwnersNow  BY <1>14, <2>3 DEF OwnersNow, Owns
      <3> QED  BY <1>12, <3>1, <3>2 DEF KeptFor
    <2> QED  BY <2>1, <2>2, <2>4 DEF IfOpen
  <1>17. InstrOK(n)'  BY <1>12, <1>15, <1>16 DEF InstrOK, IfEdge
  <1> QED  BY <1>2, <1>3, <1>5, <1>6, <1>7, <1>8, <1>10, <1>12, <1>13, <1>17, PushStep

LEMMA LoopStep ==
  ASSUME Checking, nullable' = nullable, params' = params, Loop
  PROVE  Checking'
  <1>1. CheckerType /\ Blocks /\ facts \in Facts  BY DEF Checking, CheckerType
  <1>2. PICK d : d = Len(frames)  OBVIOUS
  <1>3. d \in Nat \ {0} /\ Bound \subseteq Binding  BY <1>1, <1>2, StackShape
  <1>4. PICK r : r = Frame("loop", "opaque", "none", facts)  OBVIOUS
  <1>5. /\ CanCompile("loop", 2) /\ Emit("loop", "none", "nil") /\ facts' = facts
        /\ frames' = Append(frames, r)
    BY <1>4 DEF Loop
  <1>6. /\ r \in FrameType /\ r.scope = {} /\ r.falls /\ r.kind = "loop" /\ r.cond = "opaque"
        /\ r.before = facts
    BY <1>1, <1>4, FrameShape
  <1>7. frames # <<>> /\ Top.falls /\ Len(code) + 2 + Len(frames) <= MaxLen  BY <1>5, Room
  <1>8. PICK n : n = Len(code) + 1  OBVIOUS
  <1>9. "loop" \in Ops /\ "none" \in Binding \cup {"none"} /\ "nil" \in Sources \cup {"nonnil", "opaque"}
    BY DEF Ops, Straight, Sources
  <1>10. used' \subseteq Binding  BY <1>5, <1>9, EmitStep
  <1>11. PICK ins : Emits(ins, "loop", "none", "nil", Len(frames))  BY <1>5, <1>9, EmitStep
  <1>12. /\ Appended(ins) /\ code'[n] = ins /\ OwnersAt(n)' = OwnersNow
         /\ ins.op = "loop" /\ ins.depth = d /\ ins.reached
    <2>1. /\ Appended(ins) /\ code'[n] = ins /\ OwnersAt(n)' = OwnersNow
          /\ ins.op = "loop" /\ ins.depth = Len(frames) /\ ins.reached = Top.falls
      BY <1>8, <1>11, Emitted
    <2> QED  BY <1>2, <1>7, <2>1
  <1>13. frames' # <<>> /\ Top' = r /\ Bound' = Bound
    BY <1>1, <1>2, <1>5, <1>6, PushShape
  <1>14. Edge(n, n + 1)'
    <2>1. After(n)' = OwnersNow  BY <1>12 DEF After
    <2>2. OwnersNow' = OwnersNow  BY <1>5, <1>13 DEF OwnersNow, Owns
    <2> QED  BY <1>1, <1>6, <1>8, <1>12, <1>13, <2>1, <2>2, NextEdge
  <1>15. InstrOK(n)'  BY <1>12, <1>14 DEF InstrOK
  <1> QED  BY <1>1, <1>2, <1>3, <1>5, <1>6, <1>7, <1>8, <1>10, <1>12, <1>15, PushStep

(* Closing a block, or its first part: the jumps out of it get a target.   *)
LEMMA Lands ==
  ASSUME CheckerType, NEW ins, Appended(ins), NEW n, n = Len(code) + 1,
         NEW i \in 1 .. Len(code), code[i].op \notin {"bind", "free"},
         NEW ops, NoneAhead(i, ops), ins.op \in ops, ins.depth = code[i].depth
  PROVE  /\ FirstAhead(i, n, ops)' /\ n \in DOMAIN code' /\ code'[n] = ins /\ code'[i] = code[i]
         /\ ins.reached /\ Owns(ins.facts, ins.bound) \subseteq OwnersAt(i) => Edge(i, n)'
         /\ frames' # <<>> /\ Top'.falls /\ OwnersNow' \subseteq OwnersAt(i) => Edge(i, n + 1)'
  <1>1. /\ Len(code) \in Nat /\ DOMAIN code' = 1 .. Len(code) + 1 /\ code'[n] = ins
        /\ code'[i] = code[i] /\ OwnersAt(n)' = Owns(ins.facts, ins.bound)
        /\ After(i)' = After(i)
    BY OldCode
  <1>2. After(i) = OwnersAt(i)  BY DEF After
  <1>3. FirstAhead(i, n, ops)'  BY SameKept
  <1>4. n \in DOMAIN code' /\ n + 1 \notin DOMAIN code'  BY <1>1
  <1>5. ins.reached /\ Owns(ins.facts, ins.bound) \subseteq OwnersAt(i) => Edge(i, n)'
    BY <1>1, <1>2, <1>4 DEF Edge
  <1>6. frames' # <<>> /\ Top'.falls /\ OwnersNow' \subseteq OwnersAt(i) => Edge(i, n + 1)'
    BY <1>1, <1>2, <1>4 DEF Edge
  <1> QED  BY <1>1, <1>3, <1>4, <1>5, <1>6

ElseInstr(ins, out, d) ==
  /\ Appended(ins) /\ ins.op = "else" /\ ins.depth = d - 1
  /\ ins.facts = out /\ ins.bound = Outer /\ ins.reached = Top.falls
ElseFrame(r, out, d) ==
  /\ r \in FrameType /\ frames' = [frames EXCEPT ![d] = r]
  /\ r.scope = {} /\ r.falls /\ r.kind = "else" /\ r.then = out
  /\ r.thenFalls = Top.falls /\ r.before = Top.before /\ r.cond = Top.cond /\ r.x = Top.x

LEMMA ElseShape ==
  ASSUME Checking, nullable' = nullable, params' = params, Else, NEW d, d = Len(frames),
         NEW out, out = Keep(facts, Outer)
  PROVE  /\ Top.kind = "then" /\ BlockAccepted /\ Len(code) + Len(frames) + 1 <= MaxLen
         /\ used' = used \ Top.scope /\ facts' = Branch(Top.before, Top.cond, Top.x, FALSE)
         /\ out \in Facts /\ Owns(out, Outer) = Owns(facts, Outer)
         /\ \E ins : ElseInstr(ins, out, d)
         /\ \E r : ElseFrame(r, out, d)
  <1>0. CheckerType /\ Edges /\ Blocks /\ StartOK /\ facts \in Facts  BY DEF Checking, CheckerType
  <1>2. /\ d \in Nat \ {0} /\ DOMAIN frames = 1 .. d /\ Top = frames[d] /\ Top \in FrameType
        /\ Outer = BoundTo(d - 1) /\ Outer \subseteq Bound /\ Bound \subseteq Binding
    BY <1>0, StackShape
  <1>4. PICK ins : ins = Instr("else", Top.x, "nil", d - 1, out, Outer, Top.falls)  OBVIOUS
  <1>5. PICK r : r = [frames[d] EXCEPT !.kind = "else", !.scope = {}, !.falls = TRUE,
                                       !.then = out, !.thenFalls = Top.falls]
    OBVIOUS
  <1>6. /\ frames # <<>> /\ Top.kind = "then" /\ Len(code) + Len(frames) + 1 <= MaxLen
        /\ code' = Append(code, ins)
        /\ frames' = [frames EXCEPT ![d].kind = "else", ![d].scope = {}, ![d].falls = TRUE,
                                    ![d].then = out, ![d].thenFalls = Top.falls]
        /\ used' = used \ Top.scope /\ facts' = Branch(Top.before, Top.cond, Top.x, FALSE)
    BY <1>4 DEF Else
  <1>7. out \in Facts /\ Owns(out, Outer) = Owns(facts, Outer)  BY <1>0, KeepFacts
  <1>8. /\ Top.falls \in BOOLEAN /\ Top.x \in Binding \cup {"none"} /\ Top.before \in Facts
        /\ Top.cond \in {"opaque", "nil", "nonnil"}
    BY <1>2 DEF FrameType
  <1>9. /\ ins.op = "else" /\ ins.depth = d - 1 /\ ins.facts = out /\ ins.bound = Outer
        /\ ins.reached = Top.falls
    BY <1>4 DEF Instr
  <1>10. Appended(ins)
    <2>1. ins \in InstrType
      <3>1. "else" \in Ops /\ "nil" \in Sources \cup {"nonnil", "opaque"} /\ d - 1 \in Nat
        BY <1>2 DEF Ops, Sources
      <3> QED  BY <1>2, <1>4, <1>7, <1>8, <3>1 DEF Instr, InstrType
    <2>2. Owns(facts, Outer) \subseteq OwnersNow  BY <1>2 DEF OwnersNow, Owns
    <2> QED  BY <1>6, <1>7, <1>9, <2>1, <2>2 DEF Appended
  <1>11. frames' = [frames EXCEPT ![d] = r]  BY <1>2, <1>5, <1>6
  <1>12. /\ r \in FrameType /\ r.scope = {} /\ r.falls /\ r.kind = "else" /\ r.then = out
         /\ r.thenFalls = Top.falls /\ r.before = Top.before /\ r.cond = Top.cond /\ r.x = Top.x
    BY <1>2, <1>5, <1>7, <1>8 DEF FrameType
  <1>13. Top.kind = "then" /\ BlockAccepted  BY DEF Else
  <1>14. ElseInstr(ins, out, d)  BY <1>9, <1>10 DEF ElseInstr
  <1>15. ElseFrame(r, out, d)  BY <1>11, <1>12 DEF ElseFrame
  <1> QED  BY <1>6, <1>7, <1>13, <1>14, <1>15

LEMMA ElseStep ==
  ASSUME Checking, nullable' = nullable, params' = params, Else
  PROVE  Checking'
  <1>0. CheckerType /\ Edges /\ Blocks /\ StartOK /\ facts \in Facts  BY DEF Checking, CheckerType
  <1>1. PICK d : d = Len(frames)  OBVIOUS
  <1>2. /\ d \in Nat \ {0} /\ DOMAIN frames = 1 .. d /\ Top = frames[d] /\ Top \in FrameType
        /\ Outer = BoundTo(d - 1) /\ Outer \subseteq Bound /\ Bound \subseteq Binding
    BY <1>0, <1>1, StackShape
  <1>3. PICK out : out = Keep(facts, Outer)  OBVIOUS
  <1>4. /\ Top.kind = "then" /\ Len(code) + Len(frames) + 1 <= MaxLen
        /\ used' = used \ Top.scope /\ facts' = Branch(Top.before, Top.cond, Top.x, FALSE)
        /\ out \in Facts /\ Owns(out, Outer) = Owns(facts, Outer)
        /\ \E ins : ElseInstr(ins, out, d)
        /\ \E r : ElseFrame(r, out, d)
    BY <1>1, <1>3, ElseShape
  <1>5. PICK ins, r : ElseInstr(ins, out, d) /\ ElseFrame(r, out, d)  BY <1>4
  <1>6. /\ Top.kind = "then" /\ Len(code) + Len(frames) + 1 <= MaxLen /\ frames # <<>>
        /\ used' = used \ Top.scope /\ facts' = Branch(Top.before, Top.cond, Top.x, FALSE)
    BY <1>0, <1>4 DEF Blocks
  <1>7. out \in Facts /\ Owns(out, Outer) = Owns(facts, Outer)  BY <1>4
  <1>8. /\ Top.falls \in BOOLEAN /\ Top.x \in Binding \cup {"none"} /\ Top.before \in Facts
        /\ Top.cond \in {"opaque", "nil", "nonnil"}
    BY <1>2 DEF FrameType
  <1>9. /\ ins.op = "else" /\ ins.depth = d - 1 /\ ins.facts = out /\ ins.bound = Outer
        /\ ins.reached = Top.falls
    BY <1>5 DEF ElseInstr
  <1>10. Appended(ins)  BY <1>5 DEF ElseInstr
  <1>11. frames' = [frames EXCEPT ![d] = r]  BY <1>5 DEF ElseFrame
  <1>12. /\ r \in FrameType /\ r.scope = {} /\ r.falls /\ r.kind = "else" /\ r.then = out
         /\ r.thenFalls = Top.falls /\ r.before = Top.before /\ r.cond = Top.cond /\ r.x = Top.x
    BY <1>5 DEF ElseFrame
  <1>13. /\ frames' \in Seq(FrameType) /\ Len(frames') = d /\ frames' # <<>> /\ frames'[d] = r
         /\ Top' = r /\ \A m \in 1 .. d : BoundTo(m - 1)' = BoundTo(m - 1)
         /\ Bound' = BoundTo(d - 1) \cup r.scope
         /\ \A m \in 1 .. d : m # d => KeptFrame(m) /\ frames'[m].scope \cap BoundTo(m - 1) = {}
    BY <1>0, <1>1, <1>11, <1>12, TopSet
  <1>14. PICK n : n = Len(code) + 1  OBVIOUS
  <1>15. facts' \in Facts /\ facts'.moved \ nullable = Top.before.moved \ nullable
    <2>1. Top.cond # "opaque" => Top.x \in Binding \cap nullable
      BY <1>0, <1>2 DEF Blocks, CheckerType
    <2>2. PICK g : g = Branch(Top.before, Top.cond, Top.x, FALSE)  OBVIOUS
    <2>3. PICK f, c, y : f = Top.before /\ c = Top.cond /\ y = Top.x  OBVIOUS
    <2>4. f \in Facts /\ c \in {"opaque", "nil", "nonnil"} /\ g = Branch(f, c, y, FALSE)
      BY <1>8, <2>2, <2>3
    <2>5. c # "opaque" => y \in Binding \cap nullable  BY <2>1, <2>3
    <2>6. g \in Facts /\ g.moved \ nullable = f.moved \ nullable  BY <2>4, <2>5, BranchFacts
    <2> QED  BY <1>6, <2>2, <2>3, <2>6
  <1>16. OwnersNow' = Owns(Top.before, Outer)
    <2>1. Bound' = Outer  BY <1>2, <1>12, <1>13
    <2> QED  BY <1>15, <2>1 DEF OwnersNow, Owns
  <1>17. ASSUME NEW i \in 1 .. Len(code), code[i].depth = d - 1
         PROVE  /\ code[i].op = "if" /\ IfOpen(i) => IfEdge(i)'
                /\ ~ElseOpen(i) /\ ~BreakOpen(i) /\ \A l \in DOMAIN code : ~BackOpen(i, l)
    <2>1. Block(i) = Top  BY <1>2, <1>17 DEF Block
    <2>2. ~ElseOpen(i) /\ ~BreakOpen(i) /\ \A l \in DOMAIN code : ~BackOpen(i, l)
      BY <1>6, <2>1 DEF ElseOpen, BreakOpen, BackOpen, OpenAt
    <2>3. ASSUME code[i].op = "if", IfOpen(i) PROVE IfMet(i)'
      <3>1. NoneAhead(i, {"else", "endif"}) /\ Owns(Top.before, Outer) \subseteq OwnersAt(i)
        BY <1>2, <1>17, <2>1, <2>3 DEF IfOpen, KeptFor
      <3>2. /\ FirstAhead(i, n, {"else", "endif"})' /\ n \in DOMAIN code' /\ code'[n] = ins
            /\ Edge(i, n + 1)'
        <4>1. ins.op \in {"else", "endif"} /\ code[i].op \notin {"bind", "free"} /\ ins.depth = code[i].depth
          BY <1>9, <1>17, <2>3
        <4>2. frames' # <<>> /\ Top'.falls /\ OwnersNow' \subseteq OwnersAt(i)
          BY <1>12, <1>13, <1>16, <3>1
        <4> QED  BY <1>0, <1>10, <1>14, <3>1, <4>1, <4>2, Lands
      <3> QED  BY <1>9, <3>2 DEF IfMet
    <2> QED  BY <2>2, <2>3 DEF IfEdge
  <1>18. ins.reached => InstrOK(n)'
    <2> SUFFICES ASSUME ins.reached PROVE InstrOK(n)'  OBVIOUS
    <2>1. code'[n] = ins /\ OwnersAt(n)' = Owns(out, Outer) /\ Len(code') = n /\ n \in Nat
      BY <1>0, <1>9, <1>10, <1>14, OldCode
    <2>2. NoneAhead(n, {"endif"})'  BY <2>1 DEF NoneAhead
    <2>3. OpenAt(n, "else")' /\ Block(n)' = r
      BY <1>2, <1>9, <1>12, <1>13, <2>1 DEF OpenAt, Block
    <2>4. PICK k : k = d - 1  OBVIOUS
    <2>5. BoundTo(k)' = Outer /\ code'[n].depth = k  BY <1>2, <1>9, <1>13, <2>1, <2>4
    <2>6. Owns(out, BoundTo(k))' = Owns(out, Outer)  BY <2>5 DEF Owns
    <2>7. KeptFor(n, Block(n).then)'  BY <1>12, <2>1, <2>3, <2>5, <2>6 DEF KeptFor
    <2>8. Block(n)'.thenFalls  BY <1>9, <1>12, <2>3
    <2>9. ElseOpen(n)'  BY <2>2, <2>3, <2>7, <2>8 DEF ElseOpen
    <2> QED  BY <1>9, <2>1, <2>9 DEF InstrOK, ElseEdge, Straight
  <1>19. Edges'
    <2>1. PICK k \in Nat : k = d - 1  BY <1>2
    <2>2. \A m \in DOMAIN frames : m <= k => KeptFrame(m)  BY <1>2, <1>13, <2>1
    <2>3. \A m \in DOMAIN frames : m <= k + 1  BY <1>2, <2>1
    <2> QED  BY <1>0, <1>6, <1>9, <1>10, <1>14, <1>17, <1>18, <2>1, <2>2, <2>3, EdgesKept
  <1>20. Len(code) + 1 <= MaxLen /\ Len(code) + 1 + d <= MaxLen
    BY <1>0, <1>1, <1>2, <1>6, OwnershipConstants DEF CheckerType
  <1>21. CheckerType'
    <2>1. used' \subseteq Binding  BY <1>0, <1>6 DEF CheckerType
    <2> QED  BY <1>10, <1>13, <1>15, <1>20, <2>1, TypeKept
  <1>22. Blocks'
    <2>1. \A m \in 1 .. d : m # d => KeptBase(m)  BY <1>13 DEF KeptFrame, KeptBase
    <2>2. KeptBase(d)
      <3>1. d \in 1 .. d /\ d \in DOMAIN frames'  BY <1>2, <1>13
      <3>2. BoundTo(d - 1)' = BoundTo(d - 1)  BY <1>13, <3>1
      <3> QED  BY <1>2, <1>6, <1>12, <1>13, <3>1, <3>2 DEF KeptBase
    <2>3. \A m \in 1 .. d : KeptBase(m)  BY <2>1, <2>2
    <2> QED  BY <1>0, <1>1, <1>2, <1>9, <1>10, <1>13, <1>20, <2>3, BlocksKept
  <1>23. StartOK'  BY <1>0, <1>10, StartKept
  <1> QED  BY <1>19, <1>21, <1>22, <1>23 DEF Checking

LEMMA PopShape ==
  ASSUME CheckerType, Blocks, params' = params, NEW d, d = Len(frames), Top.kind # "body",
         NEW rest, rest = Front(frames), NEW falls \in BOOLEAN,
         frames' = [rest EXCEPT ![Len(rest)].falls = falls]
  PROVE  /\ d - 1 \in Nat \ {0} /\ Len(rest) = d - 1
         /\ frames' \in Seq(FrameType) /\ Len(frames') = d - 1 /\ frames' # <<>>
         /\ Top'.falls = falls /\ Bound' = Outer
         /\ \A m \in 1 .. d - 1 : KeptFrame(m) /\ KeptBase(m)
  <1>1. /\ d \in Nat \ {0} /\ DOMAIN frames = 1 .. d /\ frames \in Seq(FrameType)
        /\ \A m \in 1 .. d : frames[m] \in FrameType
        /\ Top = frames[d] /\ Outer = BoundTo(d - 1)
    BY StackShape DEF CheckerType
  <1>2. PICK e : e = d - 1  OBVIOUS
  <1>3. e \in Nat \ {0} /\ \A m \in 1 .. e : m \in 1 .. d
    <2>1. d # 1  BY <1>1 DEF Blocks
    <2> QED  BY <1>1, <1>2, <2>1
  <1>4. /\ rest \in Seq(FrameType) /\ Len(rest) = e /\ DOMAIN rest = 1 .. e
        /\ \A m \in 1 .. e : rest[m] = frames[m]
    BY <1>1, <1>2, <1>3 DEF Front
  <1>5. PICK r : r = [rest[e] EXCEPT !.falls = falls]  OBVIOUS
  <1>6. rest[e] \in FrameType /\ facts \in Facts  BY <1>1, <1>3, <1>4 DEF CheckerType
  <1>7. Alike(r, rest[e]) /\ r.falls = falls  BY <1>5, <1>6, AlikeFrames, ZenonT(20)
  <1>8. r \in FrameType  BY <1>7 DEF Alike
  <1>9. frames' = [rest EXCEPT ![e] = r]  BY <1>4, <1>5
  <1>10. frames' \in Seq(FrameType) /\ Len(frames') = e
    <2>1. e \in DOMAIN rest  BY <1>3, <1>4
    <2>2. [rest EXCEPT ![e] = r] \in Seq(FrameType) /\ Len([rest EXCEPT ![e] = r]) = Len(rest)
      BY <1>4, <1>8, <2>1, SetItem
    <2> QED  BY <1>4, <1>9, <2>2, Zenon
  <1>11. \A m \in 1 .. e : frames'[m] = IF m = e THEN r ELSE frames[m]  BY <1>4, <1>9
  <1>12. \A m \in 1 .. e : Alike(frames'[m], frames[m])
    <2>1. \A m \in 1 .. e : Alike(frames[m], frames[m])
      <3>1. TRUE \in BOOLEAN  OBVIOUS
      <3> QED  BY <1>1, <1>3, <1>6, <3>1, AlikeFrames
    <2>2. rest[e] = frames[e]  BY <1>3, <1>4
    <2> QED  BY <1>7, <1>11, <2>1, <2>2
  <1>13. Top' = r /\ frames' # <<>> /\ DOMAIN frames' = 1 .. e
    BY <1>3, <1>10, <1>11 DEF Top, Last
  <1>14. ASSUME NEW m \in 0 .. e PROVE BoundTo(m)' = BoundTo(m)
    <2>1. \A i \in 1 .. m : frames'[i].scope = frames[i].scope  BY <1>3, <1>12 DEF Alike
    <2> QED  BY <2>1, BoundKept
  <1>15. Bound' = Outer
    <2>1. Bound' = BoundTo(e)'  BY <1>10 DEF Bound, BoundTo, Scope
    <2>2. e \in 0 .. e  BY <1>3
    <2> QED  BY <1>1, <1>2, <1>14, <2>1, <2>2
  <1>16. ASSUME NEW m \in 1 .. e PROVE KeptFrame(m) /\ KeptBase(m)
    <2>1. PICK k : k = m - 1  OBVIOUS
    <2>2. k \in 0 .. e /\ m \in DOMAIN frames' /\ m \in DOMAIN frames  BY <1>1, <1>3, <1>13, <2>1
    <2>3. BoundTo(k)' = BoundTo(k) /\ Alike(frames'[m], frames[m])  BY <1>12, <1>14, <2>2
    <2>4. frames[m].scope \cap BoundTo(k) = {}  BY <2>1, <2>2 DEF Blocks
    <2>5. KeptFrame(m)  BY <2>1, <2>2, <2>3 DEF KeptFrame, Alike
    <2>6. KeptBase(m)  BY <2>1, <2>2, <2>3, <2>4 DEF KeptBase, Alike
    <2> QED  BY <2>5, <2>6
  <1> QED  BY <1>2, <1>3, <1>4, <1>7, <1>10, <1>13, <1>15, <1>16

LEMMA CloseShape ==
  ASSUME Checking, nullable' = nullable, params' = params, NEW op \in {"endif", "endloop"},
         NEW end \in Facts, NEW f \in Facts, NEW reached \in BOOLEAN, NEW falls \in BOOLEAN,
         Close(op, end, reached, f, falls), Top.kind # "body",
         Top.falls => reached /\ Owns(end, Outer) \subseteq Owns(facts, Outer),
         NEW n, n = Len(code) + 1, NEW d, d = Len(frames)
  PROVE  /\ d - 1 \in Nat \ {0}
         /\ \E ins : /\ Appended(ins) /\ ins.op = op /\ ins.depth = d - 1 /\ ins.reached = reached
                     /\ ins.facts = end /\ ins.bound = Outer
                     /\ code'[n] = ins /\ OwnersAt(n)' = Owns(end, Outer)
         /\ frames' \in Seq(FrameType) /\ Len(frames') = d - 1 /\ frames' # <<>>
         /\ Top'.falls = falls /\ facts' = f /\ Bound' = Outer /\ OwnersNow' = Owns(f, Outer)
         /\ \A m \in 1 .. d - 1 : KeptFrame(m) /\ KeptBase(m)
         /\ used' \subseteq Binding
  <1>1. CheckerType /\ Blocks /\ facts \in Facts  BY DEF Checking, CheckerType
  <1>2. PICK rest : rest = Front(frames)  OBVIOUS
  <1>3. PICK ins : ins = Instr(op, Top.x, "nil", Len(rest), end, Outer, reached)  OBVIOUS
  <1>4. /\ code' = Append(code, ins) /\ facts' = f /\ used' = used \ Top.scope
        /\ frames' = [rest EXCEPT ![Len(rest)].falls = falls]
    BY <1>2, <1>3 DEF Close
  <1>5. /\ d - 1 \in Nat \ {0} /\ Len(rest) = d - 1
        /\ frames' \in Seq(FrameType) /\ Len(frames') = d - 1 /\ frames' # <<>>
        /\ Top'.falls = falls /\ Bound' = Outer
        /\ \A m \in 1 .. d - 1 : KeptFrame(m) /\ KeptBase(m)
    BY <1>1, <1>2, <1>4, PopShape
  <1>6. Top \in FrameType /\ Outer \subseteq Bound /\ Bound \subseteq Binding  BY <1>1, StackShape
  <1>7. Appended(ins)
    <2>1. ins \in InstrType
      <3>1. op \in Ops /\ "nil" \in Sources \cup {"nonnil", "opaque"} /\ Top.x \in Binding \cup {"none"}
        BY <1>6 DEF Ops, Straight, Sources, FrameType
      <3>2. Len(rest) \in Nat /\ Outer \subseteq Binding  BY <1>5, <1>6
      <3> QED  BY <1>3, <3>1, <3>2 DEF Instr, InstrType
    <2>2. ins.reached = reached /\ ins.facts = end /\ ins.bound = Outer  BY <1>3 DEF Instr
    <2>3. Owns(facts, Outer) \subseteq OwnersNow  BY <1>6 DEF OwnersNow, Owns
    <2> QED  BY <1>4, <2>1, <2>2, <2>3 DEF Appended
  <1>8. /\ ins.op = op /\ ins.depth = d - 1 /\ ins.reached = reached
        /\ ins.facts = end /\ ins.bound = Outer
    BY <1>3, <1>5 DEF Instr
  <1>9. code'[n] = ins /\ OwnersAt(n)' = Owns(end, Outer)  BY <1>1, <1>7, <1>8, OldCode
  <1>10. OwnersNow' = Owns(f, Outer)  BY <1>4, <1>5 DEF OwnersNow, Owns
  <1>11. used' \subseteq Binding  BY <1>1, <1>4 DEF CheckerType
  <1> QED  BY <1>4, <1>5, <1>7, <1>8, <1>9, <1>10, <1>11

LEMMA CloseStep ==
  ASSUME Checking, NEW ins, Appended(ins), NEW n, n = Len(code) + 1, NEW d, d = Len(frames),
         d - 1 \in Nat \ {0}, ins.op \in {"endif", "endloop"}, ins.depth = d - 1,
         frames' \in Seq(FrameType), Len(frames') = d - 1, facts' \in Facts, used' \subseteq Binding,
         \A m \in 1 .. d - 1 : KeptFrame(m) /\ KeptBase(m),
         \A i \in 1 .. Len(code) : code[i].reached /\ code[i].depth = d - 1 =>
           /\ code[i].op = "if" /\ IfOpen(i) => IfEdge(i)'
           /\ code[i].op = "else" /\ ElseOpen(i) => ElseEdge(i)'
           /\ code[i].op = "break" /\ BreakOpen(i) => BreakEdge(i)'
           /\ \A l \in DOMAIN code : BackOpen(i, l) => BackEdge(i)',
         ins.reached => InstrOK(n)'
  PROVE  Checking'
  <1>0. CheckerType /\ Edges /\ Blocks /\ StartOK /\ frames # <<>>  BY DEF Checking, Blocks
  <1>1. d \in Nat \ {0} /\ DOMAIN frames = 1 .. d  BY <1>0, StackShape
  <1>2. PICK k \in Nat \ {0} : k = d - 1  OBVIOUS
  <1>3. Edges'
    <2>1. \A m \in DOMAIN frames : m <= k => KeptFrame(m)  BY <1>1, <1>2
    <2>2. \A m \in DOMAIN frames : m <= k + 1  BY <1>1, <1>2
    <2> QED  BY <1>0, <1>2, <2>1, <2>2, EdgesKept
  <1>4. Len(code) + Len(frames) <= MaxLen /\ Len(code) \in Nat
    BY <1>0 DEF Blocks, CheckerType
  <1>5. Len(code) + 1 <= MaxLen /\ Len(code) + 1 + k <= MaxLen
    BY <1>1, <1>2, <1>4, OwnershipConstants
  <1>6. CheckerType'  BY <1>5, TypeKept
  <1>7. Blocks'
    <2>1. k <= Len(frames) /\ Len(frames') = k /\ ins.op # "loop"  BY <1>1, <1>2
    <2>2. \A m \in 1 .. k : KeptBase(m)  BY <1>2
    <2> QED  BY <1>0, <1>5, <2>1, <2>2, BlocksKept
  <1>8. StartOK'  BY <1>0, StartKept
  <1> QED  BY <1>3, <1>6, <1>7, <1>8 DEF Checking

(* The paths that meet at the end of an if: the facts at the end of its    *)
(* branches, whether they get there, and the facts after it.               *)
Joins(then, else, tf, ef, joined) ==
  /\ then \in Facts /\ else \in Facts /\ joined \in Facts /\ tf \in BOOLEAN /\ ef \in BOOLEAN
  /\ \/ /\ Top.kind = "then" /\ then = Keep(facts, Outer) /\ (tf <=> Top.falls) /\ ef
        /\ else = Branch(Top.before, Top.cond, Top.x, FALSE)
        /\ Owns(else, Outer) = Owns(Top.before, Outer)
     \/ /\ Top.kind = "else" /\ then = Top.then /\ (tf <=> Top.thenFalls)
        /\ else = Keep(facts, Outer) /\ (ef <=> Top.falls)
  /\ tf /\ ef => joined = Merge(<<then, else>>) /\ \A x \in Outer : SameLive(then, else, x)
  /\ tf /\ ~ef => joined = then
  /\ ~tf /\ ef => joined = else
  /\ tf => Owns(joined, Outer) \subseteq Owns(then, Outer)
  /\ ef => Owns(joined, Outer) \subseteq Owns(else, Outer)
EndIfInstr(ins, tf, ef, joined, n, d) ==
  /\ Appended(ins) /\ ins.op = "endif" /\ ins.depth = d - 1 /\ (ins.reached <=> tf \/ ef)
  /\ ins.facts = joined /\ ins.bound = Outer /\ code'[n] = ins
  /\ OwnersAt(n)' = Owns(joined, Outer) /\ (Top'.falls <=> ins.reached)
  /\ facts' = joined /\ Bound' = Outer /\ OwnersNow' = Owns(joined, Outer)

LEMMA EndIfShape ==
  ASSUME Checking, nullable' = nullable, params' = params, EndIf, NEW n, n = Len(code) + 1,
         NEW d, d = Len(frames)
  PROVE  /\ \E ins, then, else, tf, ef, joined :
              Joins(then, else, tf, ef, joined) /\ EndIfInstr(ins, tf, ef, joined, n, d)
         /\ d - 1 \in Nat \ {0} /\ frames' \in Seq(FrameType) /\ Len(frames') = d - 1
         /\ frames' # <<>> /\ used' \subseteq Binding /\ facts' \in Facts
         /\ \A m \in 1 .. d - 1 : KeptFrame(m) /\ KeptBase(m)
         /\ BlockAccepted
  <1>0. CheckerType /\ Blocks /\ facts \in Facts  BY DEF Checking, CheckerType
  <1>2. /\ d \in Nat \ {0} /\ DOMAIN frames = 1 .. d /\ Top = frames[d] /\ Top \in FrameType
        /\ Outer = BoundTo(d - 1)
    BY <1>0, StackShape
  <1>3. PICK out : out = Keep(facts, Outer)  OBVIOUS
  <1>4. PICK other : other = Branch(Top.before, Top.cond, Top.x, FALSE)  OBVIOUS
  <1>5. PICK hasElse \in BOOLEAN : hasElse <=> Top.kind = "else"  OBVIOUS
  <1>6. PICK then : then = IF hasElse THEN Top.then ELSE out  OBVIOUS
  <1>7. PICK else : else = IF hasElse THEN out ELSE other  OBVIOUS
  <1>8. /\ Top.falls \in BOOLEAN /\ Top.thenFalls \in BOOLEAN /\ Top.before \in Facts
        /\ Top.then \in Facts /\ Top.cond \in {"opaque", "nil", "nonnil"}
    BY <1>2 DEF FrameType
  <1>9. PICK tf \in BOOLEAN : tf <=> IF hasElse THEN Top.thenFalls ELSE Top.falls  OBVIOUS
  <1>10. PICK ef \in BOOLEAN : ef <=> (hasElse => Top.falls)  OBVIOUS
  <1>11. PICK joined : joined = IF tf /\ ef THEN Merge(<<then, else>>)
                                ELSE IF tf THEN then ELSE IF ef THEN else ELSE Top.before
    OBVIOUS
  <1>12. /\ Top.kind \in {"then", "else"}
         /\ tf /\ ef => \A x \in Outer : SameLive(then, else, x)
         /\ Close("endif", joined, tf \/ ef, joined, tf \/ ef)
    BY <1>3, <1>4, <1>5, <1>6, <1>7, <1>9, <1>10, <1>11 DEF EndIf
  <1>13. out \in Facts /\ Owns(out, Outer) = Owns(facts, Outer)  BY <1>0, <1>3, KeepFacts
  <1>14. other \in Facts /\ Owns(other, Outer) = Owns(Top.before, Outer)
    <2>1. Top.cond # "opaque" => Top.x \in Binding \cap nullable
      BY <1>0, <1>2 DEF Blocks, CheckerType
    <2>2. PICK f, c, y : f = Top.before /\ c = Top.cond /\ y = Top.x  OBVIOUS
    <2>3. f \in Facts /\ c \in {"opaque", "nil", "nonnil"} /\ other = Branch(f, c, y, FALSE)
      BY <1>4, <1>8, <2>2
    <2>4. c # "opaque" => y \in Binding \cap nullable  BY <2>1, <2>2
    <2>5. other \in Facts /\ other.moved \ nullable = f.moved \ nullable
      BY <2>3, <2>4, BranchFacts
    <2> QED  BY <2>2, <2>5 DEF Owns
  <1>15. then \in Facts /\ else \in Facts  BY <1>6, <1>7, <1>8, <1>13, <1>14
  <1>16. /\ joined \in Facts
         /\ tf => Owns(joined, Outer) \subseteq Owns(then, Outer)
         /\ ef => Owns(joined, Outer) \subseteq Owns(else, Outer)
    <2>1. CASE tf /\ ef
      <3>1. PICK paths : paths = <<then, else>>  OBVIOUS
      <3>2. paths \in Seq(Facts) /\ paths # <<>> /\ paths[1] = then  BY <1>15, <3>1
      <3>3. Merge(paths) \in Facts /\ Merge(paths).moved = then.moved  BY <3>2, MergeFacts
      <3>4. joined \in Facts /\ joined.moved = then.moved  BY <1>11, <2>1, <3>1, <3>3
      <3>5. Owns(joined, Outer) = Owns(then, Outer)  BY <3>4 DEF Owns
      <3>6. Owns(then, Outer) = Owns(else, Outer)  BY <1>12, <2>1, SameOwners
      <3> QED  BY <3>4, <3>5, <3>6
    <2>2. CASE ~(tf /\ ef)  BY <1>8, <1>11, <1>15, <2>2
    <2> QED  BY <2>1, <2>2
  <1>17. PICK reached \in BOOLEAN : reached <=> tf \/ ef  OBVIOUS
  <1>18. Top.falls => reached /\ Owns(joined, Outer) \subseteq Owns(facts, Outer)
    BY <1>6, <1>7, <1>9, <1>10, <1>13, <1>16, <1>17
  <1>20. Close("endif", joined, reached, joined, reached) /\ Top.kind # "body"
    <2>1. reached = (tf \/ ef)  BY <1>17
    <2> QED  BY <1>12, <2>1
  <1>21. /\ d - 1 \in Nat \ {0}
         /\ \E ins : /\ Appended(ins) /\ ins.op = "endif" /\ ins.depth = d - 1 /\ ins.reached = reached
                     /\ ins.facts = joined /\ ins.bound = Outer
                     /\ code'[n] = ins /\ OwnersAt(n)' = Owns(joined, Outer)
         /\ frames' \in Seq(FrameType) /\ Len(frames') = d - 1 /\ frames' # <<>>
         /\ Top'.falls = reached /\ facts' = joined /\ Bound' = Outer /\ OwnersNow' = Owns(joined, Outer)
         /\ \A m \in 1 .. d - 1 : KeptFrame(m) /\ KeptBase(m)
         /\ used' \subseteq Binding
    BY <1>16, <1>18, <1>20, CloseShape
  <1>22. PICK ins : /\ Appended(ins) /\ ins.op = "endif" /\ ins.depth = d - 1 /\ ins.reached = reached
                    /\ ins.facts = joined /\ ins.bound = Outer
                    /\ code'[n] = ins /\ OwnersAt(n)' = Owns(joined, Outer)
    BY <1>21
  <1>23. Joins(then, else, tf, ef, joined)
    <2>1. \/ /\ Top.kind = "then" /\ then = Keep(facts, Outer) /\ (tf <=> Top.falls) /\ ef
             /\ else = Branch(Top.before, Top.cond, Top.x, FALSE)
             /\ Owns(else, Outer) = Owns(Top.before, Outer)
          \/ /\ Top.kind = "else" /\ then = Top.then /\ (tf <=> Top.thenFalls)
             /\ else = Keep(facts, Outer) /\ (ef <=> Top.falls)
      <3>1. CASE hasElse  BY <1>3, <1>5, <1>6, <1>7, <1>9, <1>10, <3>1
      <3>2. CASE ~hasElse
        BY <1>3, <1>4, <1>5, <1>6, <1>7, <1>9, <1>10, <1>12, <1>14, <3>2
      <3> QED  BY <3>1, <3>2
    <2>2. /\ tf /\ ef => joined = Merge(<<then, else>>) /\ \A x \in Outer : SameLive(then, else, x)
          /\ tf /\ ~ef => joined = then
          /\ ~tf /\ ef => joined = else
      BY <1>11, <1>12
    <2> QED  BY <1>15, <1>16, <2>1, <2>2 DEF Joins
  <1>24. EndIfInstr(ins, tf, ef, joined, n, d)
    <2>1. ins.reached <=> tf \/ ef  BY <1>17, <1>22
    <2>2. Top'.falls <=> ins.reached  BY <1>21, <1>22
    <2> QED  BY <1>21, <1>22, <2>1, <2>2 DEF EndIfInstr
  <1>25. BlockAccepted /\ facts' \in Facts  BY <1>16, <1>21 DEF EndIf
  <1> QED  BY <1>21, <1>23, <1>24, <1>25

LEMMA EndIfStep ==
  ASSUME Checking, nullable' = nullable, params' = params, EndIf
  PROVE  Checking'
  <1>0. CheckerType /\ Blocks  BY DEF Checking
  <1>1. PICK d, n : d = Len(frames) /\ n = Len(code) + 1  OBVIOUS
  <1>2. d \in Nat \ {0} /\ Top = frames[d] /\ Outer = BoundTo(d - 1)  BY <1>0, <1>1, StackShape
  <1>3. /\ \E ins, then, else, tf, ef, joined :
             Joins(then, else, tf, ef, joined) /\ EndIfInstr(ins, tf, ef, joined, n, d)
        /\ d - 1 \in Nat \ {0} /\ frames' \in Seq(FrameType) /\ Len(frames') = d - 1
        /\ frames' # <<>> /\ used' \subseteq Binding /\ facts' \in Facts
        /\ \A m \in 1 .. d - 1 : KeptFrame(m) /\ KeptBase(m)
    BY <1>1, EndIfShape
  <1>4. PICK ins, then, else, tf, ef, joined :
          Joins(then, else, tf, ef, joined) /\ EndIfInstr(ins, tf, ef, joined, n, d)
    BY <1>3
  <1>5. /\ Appended(ins) /\ ins.op = "endif" /\ ins.depth = d - 1 /\ (ins.reached <=> tf \/ ef)
        /\ ins.facts = joined /\ ins.bound = Outer /\ code'[n] = ins
        /\ OwnersAt(n)' = Owns(joined, Outer) /\ (Top'.falls <=> ins.reached)
        /\ OwnersNow' = Owns(joined, Outer)
    BY <1>4 DEF EndIfInstr
  <1>6. /\ Top.kind = "then" => ef /\ Owns(joined, Outer) \subseteq Owns(Top.before, Outer)
        /\ Top.kind = "else" /\ Top.thenFalls => tf /\ Owns(joined, Outer) \subseteq Owns(Top.then, Outer)
        /\ Top.kind \in {"then", "else"}
    BY <1>4 DEF Joins
  <1>7. ASSUME NEW i \in 1 .. Len(code), code[i].depth = d - 1
         PROVE  /\ code[i].op = "if" /\ IfOpen(i) => IfEdge(i)'
                /\ code[i].op = "else" /\ ElseOpen(i) => ElseEdge(i)'
                /\ ~BreakOpen(i) /\ \A l \in DOMAIN code : ~BackOpen(i, l)
    <2>1. Block(i) = Top  BY <1>2, <1>7 DEF Block
    <2>2. ~BreakOpen(i) /\ \A l \in DOMAIN code : ~BackOpen(i, l)
      BY <1>6, <2>1 DEF BreakOpen, BackOpen, OpenAt
    <2>3. ASSUME code[i].op = "if", IfOpen(i) PROVE IfMet(i)'
      <3>1. /\ NoneAhead(i, {"else", "endif"}) /\ Owns(Top.before, Outer) \subseteq OwnersAt(i)
            /\ Top.kind = "then"
        BY <1>2, <1>7, <2>1, <2>3 DEF IfOpen, KeptFor, OpenAt
      <3>2. ins.reached /\ Owns(ins.facts, ins.bound) \subseteq OwnersAt(i)
        BY <1>5, <1>6, <3>1
      <3>3. ins.op \in {"else", "endif"} /\ code[i].op \notin {"bind", "free"} /\ ins.depth = code[i].depth
        BY <1>5, <1>7, <2>3
      <3>4. FirstAhead(i, n, {"else", "endif"})' /\ n \in DOMAIN code' /\ Edge(i, n)'
        BY <1>0, <1>1, <1>5, <3>1, <3>2, <3>3, Lands
      <3>5. code'[n].op # "else"  BY <1>5
      <3> QED  BY <3>4, <3>5 DEF IfMet
    <2>4. ASSUME code[i].op = "else", ElseOpen(i) PROVE ElseMet(i)'
      <3>1. /\ NoneAhead(i, {"endif"}) /\ Owns(Top.then, Outer) \subseteq OwnersAt(i)
            /\ Top.kind = "else" /\ Top.thenFalls
        BY <1>2, <1>7, <2>1, <2>4 DEF ElseOpen, KeptFor, OpenAt
      <3>2. ins.reached /\ Owns(ins.facts, ins.bound) \subseteq OwnersAt(i)
        BY <1>5, <1>6, <3>1
      <3>3. ins.op \in {"endif"} /\ code[i].op \notin {"bind", "free"} /\ ins.depth = code[i].depth
        BY <1>5, <1>7, <2>4
      <3>4. FirstAhead(i, n, {"endif"})' /\ n \in DOMAIN code' /\ Edge(i, n)'
        BY <1>0, <1>1, <1>5, <3>1, <3>2, <3>3, Lands
      <3> QED  BY <3>4 DEF ElseMet
    <2> QED  BY <2>2, <2>3, <2>4 DEF IfEdge, ElseEdge
  <1>8. ins.reached => InstrOK(n)'
    <2> SUFFICES ASSUME ins.reached PROVE InstrOK(n)'  OBVIOUS
    <2>1. After(n)' = OwnersAt(n)'  BY <1>5 DEF After
    <2>2. Top'.falls /\ OwnersNow' \subseteq After(n)'  BY <1>3, <1>5, <2>1
    <2>3. Edge(n, n + 1)'  BY <1>0, <1>1, <1>3, <1>5, <2>2, NextEdge
    <2> QED  BY <1>5, <2>3 DEF InstrOK
  <1> QED  BY <1>1, <1>3, <1>5, <1>7, <1>8, CloseStep

(* What was live before a loop is live on every way back to its top.       *)
LEMMA BackOwners ==
  ASSUME CheckerType, Blocks, BackedgesAccepted, NEW f,
         \/ Top.falls /\ f = facts
         \/ \E c \in DOMAIN Top.conts : f = Top.conts[c]
  PROVE  Owns(Top.before, Outer) \subseteq Owns(f, Outer)
  <1>1. PICK d : d = Len(frames)  OBVIOUS
  <1>2. Top \in FrameType /\ facts \in Facts  BY <1>1, StackShape DEF CheckerType
  <1>3. PICK s : s = Top.conts  OBVIOUS
  <1>4. s \in Seq(Facts)  BY <1>2, <1>3 DEF FrameType
  <1>5. PICK t : t = IF Top.falls THEN <<facts>> ELSE <<>>  OBVIOUS
  <1>6. t \in Seq(Facts)  BY <1>2, <1>5
  <1>7. Backedges = t \o s  BY <1>3, <1>5 DEF Backedges
  <1>8. PICK i \in DOMAIN Backedges : Backedges[i] = f
    <2>1. DOMAIN (t \o s) = 1 .. Len(t) + Len(s)  BY <1>4, <1>6
    <2>2. CASE Top.falls /\ f = facts
      <3>1. t = <<facts>> /\ Len(t) = 1  BY <1>5, <2>2
      <3>2. Len(s) \in Nat /\ 1 \in 1 .. 1 + Len(s)  BY <1>4
      <3>3. (t \o s)[1] = facts  BY <1>4, <1>6, <3>1, <3>2
      <3> QED  BY <1>7, <2>1, <2>2, <3>1, <3>2, <3>3
    <2>3. CASE \E c \in DOMAIN Top.conts : f = Top.conts[c]
      <3>1. PICK c \in DOMAIN s : f = s[c]  BY <1>3, <2>3
      <3>2. Len(t) + c \in DOMAIN (t \o s) /\ (t \o s)[Len(t) + c] = s[c]  BY <1>4, <1>6, <2>1
      <3> QED  BY <1>7, <3>1, <3>2
    <2> QED  BY <2>2, <2>3
  <1>9. PICK b : b = Backedges[1]  OBVIOUS
  <1>10. \A x \in Outer : SameLive(b, f, x)  BY <1>8, <1>9 DEF BackedgesAccepted
  <1>11. \A x \in Outer : Live(Top.before, x) => Live(b, x)  BY <1>8, <1>9 DEF BackedgesAccepted
  <1>12. Owns(b, Outer) = Owns(f, Outer)  BY <1>10, SameOwners
  <1>13. Owns(Top.before, Outer) \subseteq Owns(b, Outer)  BY <1>11 DEF Live, Owns
  <1> QED  BY <1>12, <1>13

LEMMA EndLoopStep ==
  ASSUME Checking, nullable' = nullable, params' = params, EndLoop
  PROVE  Checking'
  <1>0. CheckerType /\ Blocks /\ facts \in Facts  BY DEF Checking, CheckerType
  <1>1. PICK d : d = Len(frames)  OBVIOUS
  <1>2. /\ d \in Nat \ {0} /\ DOMAIN frames = 1 .. d /\ Top = frames[d] /\ Top \in FrameType
        /\ Outer = BoundTo(d - 1)
    BY <1>0, <1>1, StackShape
  <1>3. PICK end : end = Keep(facts, Outer)  OBVIOUS
  <1>4. PICK f : f = IF Top.brks = <<>> THEN Top.before ELSE Keep(Merge(Top.brks), Outer)  OBVIOUS
  <1>5. /\ Top.kind = "loop" /\ BackedgesAccepted
        /\ \A i \in DOMAIN Top.brks, x \in Outer : SameLive(Top.brks[1], Top.brks[i], x)
        /\ Close("endloop", end, Top.falls, f, TRUE)
    BY <1>3, <1>4 DEF EndLoop
  <1>6. Top.falls \in BOOLEAN /\ Top.before \in Facts /\ Top.brks \in Seq(Facts)
    BY <1>2 DEF FrameType
  <1>7. end \in Facts /\ Owns(end, Outer) = Owns(facts, Outer)  BY <1>0, <1>3, KeepFacts
  <1>8. f \in Facts /\ \A b \in DOMAIN Top.brks : Owns(f, Outer) = Owns(Top.brks[b], Outer)
    <2>1. CASE Top.brks = <<>>  BY <1>4, <1>6, <2>1
    <2>2. CASE Top.brks # <<>>
      <3>1. PICK paths \in Seq(Facts) : paths = Top.brks  BY <1>6
      <3>2. PICK g : g = Merge(paths)  OBVIOUS
      <3>3. g \in Facts /\ g.moved = paths[1].moved  BY <2>2, <3>1, <3>2, MergeFacts
      <3>4. f = Keep(g, Outer)  BY <1>4, <2>2, <3>1, <3>2
      <3>5. f \in Facts /\ Owns(f, Outer) = Owns(g, Outer)  BY <3>3, <3>4, KeepFacts
      <3>6. Owns(g, Outer) = Owns(paths[1], Outer)  BY <3>3 DEF Owns
      <3>7. ASSUME NEW b \in DOMAIN paths PROVE Owns(paths[1], Outer) = Owns(paths[b], Outer)
        <4>1. \A x \in Outer : SameLive(paths[1], paths[b], x)  BY <1>5, <3>1, <3>7
        <4> QED  BY <4>1, SameOwners
      <3> QED  BY <3>1, <3>5, <3>6, <3>7
    <2> QED  BY <2>1, <2>2
  <1>9. PICK n : n = Len(code) + 1  OBVIOUS
  <1>10. PICK reached \in BOOLEAN : reached = Top.falls  BY <1>6
  <1>11. PICK falls \in BOOLEAN : falls = TRUE  OBVIOUS
  <1>12. /\ d - 1 \in Nat \ {0}
         /\ \E ins : /\ Appended(ins) /\ ins.op = "endloop" /\ ins.depth = d - 1 /\ ins.reached = reached
                     /\ ins.facts = end /\ ins.bound = Outer
                     /\ code'[n] = ins /\ OwnersAt(n)' = Owns(end, Outer)
         /\ frames' \in Seq(FrameType) /\ Len(frames') = d - 1 /\ frames' # <<>>
         /\ Top'.falls = falls /\ facts' = f /\ OwnersNow' = Owns(f, Outer)
         /\ \A m \in 1 .. d - 1 : KeptFrame(m) /\ KeptBase(m)
         /\ used' \subseteq Binding
    <2>1. Close("endloop", end, reached, f, falls) /\ Top.kind # "body"  BY <1>5, <1>10, <1>11
    <2>2. Top.falls => reached /\ Owns(end, Outer) \subseteq Owns(facts, Outer)  BY <1>7, <1>10
    <2> QED  BY <1>1, <1>7, <1>8, <1>9, <2>1, <2>2, CloseShape
  <1>13. PICK ins : /\ Appended(ins) /\ ins.op = "endloop" /\ ins.depth = d - 1 /\ ins.reached = reached
                    /\ ins.facts = end /\ ins.bound = Outer
                    /\ code'[n] = ins /\ OwnersAt(n)' = Owns(end, Outer)
    BY <1>12
  <1>14. ASSUME NEW i \in 1 .. Len(code), code[i].depth = d - 1
         PROVE  /\ ~IfOpen(i) /\ ~ElseOpen(i)
                /\ code[i].op = "break" /\ BreakOpen(i) => BreakEdge(i)'
                /\ \A l \in DOMAIN code : BackOpen(i, l) => BackEdge(i)'
    <2>1. Block(i) = Top  BY <1>2, <1>14 DEF Block
    <2>2. ~IfOpen(i) /\ ~ElseOpen(i)  BY <1>5, <2>1 DEF IfOpen, ElseOpen, OpenAt
    <2>3. ASSUME code[i].op = "break", BreakOpen(i) PROVE BreakMet(i)'
      <3>1. NoneAhead(i, {"endloop"})  BY <2>3 DEF BreakOpen
      <3>2. PICK b \in DOMAIN Top.brks : Owns(Top.brks[b], Outer) \subseteq OwnersAt(i)
        BY <1>2, <1>14, <2>1, <2>3 DEF BreakOpen, KeptFor
      <3>3. frames' # <<>> /\ Top'.falls /\ OwnersNow' \subseteq OwnersAt(i)
        BY <1>8, <1>11, <1>12, <3>2
      <3>4. ins.op \in {"endloop"} /\ code[i].op \notin {"bind", "free"} /\ ins.depth = code[i].depth
        BY <1>13, <1>14, <2>3
      <3>5. FirstAhead(i, n, {"endloop"})' /\ n \in DOMAIN code' /\ Edge(i, n + 1)'
        BY <1>0, <1>9, <1>13, <3>1, <3>3, <3>4, Lands
      <3> QED  BY <3>5 DEF BreakMet
    <2>4. ASSUME NEW l \in DOMAIN code, BackOpen(i, l) PROVE BackEdge(i)'
      <3>1. LastLoop(i, l) /\ code[l].reached /\ OwnersAt(l) \subseteq Owns(Top.before, Outer)
        BY <1>2, <1>14, <2>1, <2>4 DEF BackOpen
      <3>2. PICK c \in DOMAIN Top.conts : Owns(Top.conts[c], Outer) \subseteq OwnersAt(i)
        BY <1>2, <1>14, <2>1, <2>4 DEF BackOpen, KeptFor
      <3>3. Owns(Top.before, Outer) \subseteq Owns(Top.conts[c], Outer)
        BY <1>0, <1>5, BackOwners
      <3>4. BackMet(i, l)  BY <3>1, <3>2, <3>3 DEF BackMet
      <3>5. BackMet(i, l)' /\ l \in DOMAIN code'  BY <1>0, <1>9, <1>13, <3>4, MetKept, OldCode
      <3> QED  BY <3>5 DEF BackEdge
    <2> QED  BY <2>2, <2>3, <2>4 DEF BreakEdge
  <1>15. ins.reached => InstrOK(n)'
    <2> SUFFICES ASSUME ins.reached PROVE InstrOK(n)'  OBVIOUS
    <2>1. Owns(Top.before, Outer) \subseteq Owns(facts, Outer)
      BY <1>0, <1>5, <1>10, <1>13, BackOwners
    <2>2. d \in DOMAIN frames /\ IsLoop(d)  BY <1>2, <1>5 DEF IsLoop
    <2>3. PICK l \in DOMAIN code : OpenLoop(d, l)  BY <1>0, <2>2 DEF Blocks
    <2>4. /\ Len(code) \in Nat /\ l \in 1 .. Len(code) /\ code'[l] = code[l]
          /\ OwnersAt(l)' = OwnersAt(l) /\ DOMAIN code' = 1 .. n
          /\ \A j \in 1 .. Len(code) : code'[j] = code[j]
      BY <1>0, <1>9, <1>13, OldCode
    <2>5. LastLoop(n, l)'
      <3>1. l \in 1 .. n /\ code'[l].op = "loop" /\ code'[l].depth = code'[n].depth
        BY <1>9, <1>13, <2>3, <2>4 DEF OpenLoop
      <3>2. \A j \in l + 1 .. n : ~(code'[j].op = "loop" /\ code'[j].depth = d - 1)
        BY <1>9, <1>13, <2>3, <2>4 DEF OpenLoop
      <3> QED  BY <1>13, <3>1, <3>2 DEF LastLoop, Same
    <2>6. code'[l].reached /\ OwnersAt(l)' \subseteq OwnersAt(n)'
      BY <1>2, <1>7, <1>13, <2>1, <2>3, <2>4 DEF OpenLoop
    <2>7. BackMet(n, l)' /\ l \in DOMAIN code'  BY <1>9, <2>4, <2>5, <2>6 DEF BackMet
    <2>8. BackEdge(n)'  BY <2>7 DEF BackEdge
    <2> QED  BY <1>13, <2>8 DEF InstrOK, Straight
  <1>16. facts' \in Facts  BY <1>8, <1>12
  <1> QED  BY <1>1, <1>9, <1>12, <1>13, <1>14, <1>15, <1>16, CloseStep

-----------------------------------------------------------------------------
(* The start, and the end of the function.                                 *)
LEMMA InitOK ==
  ASSUME Init
  PROVE  OwnInv
  <1>1. /\ nullable \subseteq Binding /\ params \in ParamSets /\ params \subseteq Binding
        /\ code = <<>> /\ used = {} /\ pc = 0 /\ heap = <<>> /\ env = [x \in Binding |-> 0]
    BY OwnershipConstants DEF Init
  <1>2. facts \in Facts /\ facts.moved = {}
    <2>1. PICK p : p = [x \in Binding |-> params \cap {x}]  OBVIOUS
    <2>2. p \in [Binding -> SUBSET Binding]  BY <2>1
    <2>3. facts = [NoFacts EXCEPT !.ptr = p]  BY <2>1 DEF Init
    <2> QED  BY <2>2, <2>3 DEF NoFacts, Facts, FactsType
  <1>3. PICK r : r = Frame("body", "opaque", "none", facts)  OBVIOUS
  <1>4. r \in FrameType /\ r.scope = {} /\ r.falls /\ r.kind = "body" /\ r.cond = "opaque"
    BY <1>2, <1>3, FrameShape
  <1>5. frames = <<r>>  BY <1>3 DEF Init
  <1>6. frames \in Seq(FrameType) /\ Len(frames) = 1 /\ frames[1] = r /\ frames # <<>>
    BY <1>4, <1>5
  <1>7. DOMAIN frames = {1}  BY <1>6
  <1>8. code \in Seq(InstrType) /\ Len(code) = 0 /\ DOMAIN code = {}  BY <1>1
  <1>9. CheckerType  BY <1>1, <1>2, <1>6, <1>8, OwnershipConstants DEF CheckerType
  <1>10. Edges  BY <1>8 DEF Edges
  <1>11. Blocks
    <2>1. ~IsLoop(1)  BY <1>4, <1>6 DEF IsLoop
    <2>2. \A m \in DOMAIN frames :
            ~IsLoop(m) /\ frames[m].scope = {} /\ frames[m].cond = "opaque" /\ m = 1
      BY <1>4, <1>6, <1>7, <2>1
    <2>3. \A m \in DOMAIN frames : ~\E i \in 1 .. m : IsLoop(i)  BY <2>1, <2>2
    <2>4. Len(code) + Len(frames) <= MaxLen  BY <1>6, <1>8, OwnershipConstants
    <2> QED  BY <1>4, <1>6, <2>2, <2>3, <2>4 DEF Blocks
  <1>12. StartOK
    <2>1. Top = r  BY <1>6 DEF Top, Last
    <2>2. Bound = params
      <3>1. 1 .. Len(frames) = {1}  BY <1>6
      <3> QED  BY <1>4, <1>6, <3>1 DEF Bound, Scope
    <2> QED  BY <1>4, <1>6, <1>8, <2>1, <2>2 DEF StartOK, OwnersNow, Owns
  <1> QED  BY <1>1, <1>9, <1>10, <1>11, <1>12 DEF OwnInv

LEMMA EndShape ==
  ASSUME Checking, EndFunction, NEW ins,
         ins = Instr("end", "none", "nil", 0, facts, params, Top.falls)
  PROVE  /\ Appended(ins) /\ ins.op = "end" /\ ins.depth = 0 /\ ins.facts = facts
         /\ ins.bound = params /\ ins.reached = Top.falls
         /\ DOMAIN frames = 1 .. 1 /\ Top = frames[1] /\ Top \in FrameType
         /\ Bound \subseteq Binding /\ frames # <<>>
         /\ params \subseteq Bound /\ Bound \subseteq params \cup Top.scope
  <1>0. CheckerType /\ Blocks /\ facts \in Facts  BY DEF Checking, CheckerType
  <1>2. /\ Len(frames) = 1 /\ code' = Append(code, ins)
        /\ nullable' = nullable /\ params' = params
    BY DEF EndFunction
  <1>3. /\ DOMAIN frames = 1 .. 1 /\ Top = frames[1] /\ Top \in FrameType
        /\ Bound \subseteq Binding /\ frames # <<>>
    BY <1>0, <1>2, StackShape DEF Blocks
  <1>4. params \subseteq Bound  BY DEF Bound
  <1>5. /\ ins.op = "end" /\ ins.depth = 0 /\ ins.facts = facts /\ ins.bound = params
        /\ ins.reached = Top.falls
    BY DEF Instr
  <1>6. Appended(ins)
    <2>1. ins \in InstrType
      <3>1. "end" \in Ops /\ "nil" \in Sources \cup {"nonnil", "opaque"} /\ 0 \in Nat
        BY DEF Ops, Sources
      <3>2. Top.falls \in BOOLEAN /\ params \subseteq Binding  BY <1>3, <1>4 DEF FrameType
      <3> QED  BY <1>0, <3>1, <3>2 DEF Instr, InstrType
    <2>2. Owns(facts, params) \subseteq OwnersNow  BY <1>4 DEF OwnersNow, Owns
    <2> QED  BY <1>2, <1>5, <2>1, <2>2 DEF Appended
  <1>7. Bound \subseteq params \cup Top.scope
    <2>1. \A i \in 1 .. Len(frames) : frames[i].scope = Top.scope  BY <1>2, <1>3
    <2> QED  BY <2>1 DEF Bound, Scope
  <1> QED  BY <1>3, <1>4, <1>5, <1>6, <1>7

LEMMA EndFunctionStep ==
  ASSUME Checking, EndFunction
  PROVE  OwnInv'
  <1>0. CheckerType /\ Edges /\ Blocks /\ StartOK /\ facts \in Facts  BY DEF Checking, CheckerType
  <1>1. PICK ins : ins = Instr("end", "none", "nil", 0, facts, params, Top.falls)  OBVIOUS
  <1>2. /\ Len(frames) = 1 /\ code' = Append(code, ins) /\ frames' = <<>> /\ used' = {}
        /\ facts' = Keep(facts, {}) /\ pc' = 1 /\ nullable' = nullable /\ params' = params
    BY <1>1 DEF EndFunction
  <1>3. /\ DOMAIN frames = 1 .. 1 /\ Top = frames[1] /\ Top \in FrameType
        /\ Bound \subseteq Binding /\ frames # <<>>
    BY <1>1, EndShape
  <1>4. params \subseteq Bound  BY DEF Bound
  <1>5. /\ ins.op = "end" /\ ins.depth = 0 /\ ins.facts = facts /\ ins.bound = params
        /\ ins.reached = Top.falls
    BY <1>1, EndShape
  <1>6. Appended(ins)  BY <1>1, EndShape
  <1>7. PICK n : n = Len(code) + 1  OBVIOUS
  <1>8. /\ code'[n] = ins /\ Len(code') = n /\ DOMAIN code' = 1 .. n /\ n \in Nat \ {0}
        /\ Len(code) \in Nat
    BY <1>0, <1>6, <1>7, OldCode
  <1>9. InstrOK(n)'  BY <1>2, <1>5, <1>8 DEF InstrOK, Straight
  <1>10. Edges'
    <2>1. PICK d \in Nat : d = 0  OBVIOUS
    <2>2. frames[1].kind = "body"  BY <1>0 DEF Blocks
    <2>3. \A i \in 1 .. Len(code) : code[i].depth = d =>
            /\ ~IfOpen(i) /\ ~ElseOpen(i) /\ ~BreakOpen(i)
            /\ \A l \in DOMAIN code : ~BackOpen(i, l)
      BY <2>1, <2>2 DEF IfOpen, ElseOpen, BreakOpen, BackOpen, OpenAt, Block
    <2>4. \A m \in DOMAIN frames : m = 1  BY <1>3
    <2>5. /\ \A m \in DOMAIN frames : m <= d => KeptFrame(m)
          /\ \A m \in DOMAIN frames : m <= d + 1
      BY <2>1, <2>4
    <2> QED  BY <1>0, <1>3, <1>5, <1>6, <1>7, <1>9, <2>3, <2>5, EdgesKept
  <1>11. CheckerType'
    <2>1. Len(code) + 1 <= MaxLen  BY <1>0, <1>2, <1>8 DEF Blocks
    <2>2. facts' \in Facts  BY <1>0, <1>2, KeepFacts
    <2>3. frames' \in Seq(FrameType) /\ used' \subseteq Binding  BY <1>2
    <2> QED  BY <1>6, <2>1, <2>2, <2>3, TypeKept
  <1>12. code'[1].reached /\ OwnersAt(1)' \subseteq params
    <2>1. StartOK'  BY <1>0, <1>6, StartKept
    <2>2. 1 \in DOMAIN code'  BY <1>8
    <2> QED  BY <1>2, <2>1, <2>2 DEF StartOK
  <1>13. PICK given \in SUBSET params : \E arg \in [given -> 1 .. Cardinality(given)] :
           /\ \A x, y \in given : arg[x] = arg[y] => x = y
           /\ env' = [x \in Binding |-> IF x \in given THEN arg[x] ELSE 0]
           /\ heap' = [i \in 1 .. Cardinality(given) |-> "live"]
    BY DEF EndFunction
  <1>14. PICK c : c = Cardinality(given)  OBVIOUS
  <1>15. PICK arg \in [given -> 1 .. c] :
           /\ \A x, y \in given : arg[x] = arg[y] => x = y
           /\ env' = [x \in Binding |-> IF x \in given THEN arg[x] ELSE 0]
           /\ heap' = [i \in 1 .. c |-> "live"]
    BY <1>13, <1>14
  <1>16. c \in Nat /\ c <= MaxObj
    <2>1. params \in ParamSets  BY <1>0 DEF CheckerType
    <2>2. IsFiniteSet(params) /\ Cardinality(params) <= MaxObj  BY <2>1, OwnershipConstants
    <2>3. /\ IsFiniteSet(given) /\ Cardinality(given) <= Cardinality(params)
          /\ Cardinality(given) \in Nat /\ Cardinality(params) \in Nat
      BY <2>2, FS_Subset, FS_CardinalityType
    <2> QED  BY <1>14, <2>2, <2>3, OwnershipConstants
  <1>17. heap' \in Seq({"live", "freed"}) /\ Len(heap') = c  BY <1>15, <1>16
  <1>18. env' \in [Binding -> 0 .. c]  BY <1>15, <1>16
  <1>19. Holding(OwnersAt(1))'
    <2>1. params \subseteq Binding  BY <1>3, <1>4
    <2>2. ASSUME NEW x \in params, env'[x] # 0 PROVE x \in given /\ env'[x] = arg[x] /\ heap'[env'[x]] = "live"
      BY <1>15, <1>16, <2>1, <2>2
    <2> QED  BY <1>12, <1>15, <2>2 DEF Holding
  <1>20. Machine'
    <2>1. pc' \in 1 .. Len(code') + 1  BY <1>2, <1>8
    <2> QED  BY <1>2, <1>12, <1>16, <1>17, <1>18, <1>19, <2>1 DEF Machine
  <1> QED  BY <1>10, <1>11, <1>20 DEF OwnInv

-----------------------------------------------------------------------------
(* Running.  Nothing of the compiled code changes.                         *)
Compiled == UNCHANGED <<nullable, params, code, facts, used, frames>>

LEMMA CompiledKept ==
  ASSUME CheckerType, Edges, Compiled
  PROVE  /\ CheckerType' /\ Edges' /\ \A i : OwnersAt(i)' = OwnersAt(i)
  <1>1. /\ nullable' = nullable /\ params' = params /\ code' = code /\ facts' = facts
        /\ used' = used /\ frames' = frames
    BY DEF Compiled
  <1>2. CheckerType'  BY <1>1 DEF CheckerType
  <1>3. \A i : OwnersAt(i)' = OwnersAt(i)  BY <1>1 DEF OwnersAt, Owns
  <1>4. Edges'
    <2>1. \A f, S : Owns(f, S)' = Owns(f, S)  BY <1>1 DEF Owns
    <2>2. /\ \A i : After(i)' = After(i) /\ Top' = Top /\ OwnersNow' = OwnersNow
          /\ \A d : BoundTo(d)' = BoundTo(d)
      BY <1>1, <1>3 DEF After, Top, Bound, Scope, OwnersNow, Owns, BoundTo
    <2>3. \A i, j : Edge(i, j)' <=> Edge(i, j)  BY <1>1, <1>3, <2>2 DEF Edge
    <2>4. /\ \A i, j, ops : Same(i, j, ops)' <=> Same(i, j, ops)
          /\ \A i : Block(i)' = Block(i)
          /\ \A i, kind : OpenAt(i, kind)' <=> OpenAt(i, kind)
          /\ \A i, f : KeptFor(i, f)' <=> KeptFor(i, f)
      BY <1>1, <1>3, <2>1, <2>2 DEF Same, Block, OpenAt, KeptFor
    <2>5. /\ \A i, a, ops : FirstAhead(i, a, ops)' <=> FirstAhead(i, a, ops)
          /\ \A i, ops : NoneAhead(i, ops)' <=> NoneAhead(i, ops)
          /\ \A i, l : LastLoop(i, l)' <=> LastLoop(i, l)
      BY <1>1, <2>4 DEF FirstAhead, NoneAhead, LastLoop
    <2>6. \A i : InstrOK(i) => InstrOK(i)'
      BY <1>1, <1>3, <2>1, <2>2, <2>3, <2>4, <2>5
      DEF InstrOK, IfEdge, ElseEdge, BreakEdge, BackEdge, IfMet, IfOpen, ElseMet, ElseOpen,
          BreakMet, BreakOpen, BackMet, BackOpen
    <2> QED  BY <1>1, <2>6 DEF Edges
  <1> QED  BY <1>2, <1>3, <1>4

(* A run that gets to an instruction leaves it along one of its edges.     *)
LEMMA RunState ==
  ASSUME CheckerType, Edges, Machine, pc \in DOMAIN code
  PROVE  /\ code[pc].reached /\ InstrOK(pc) /\ Holding(OwnersAt(pc)) /\ code[pc] \in InstrType
         /\ pc \in 1 .. Len(code) /\ Len(code) \in Nat /\ DOMAIN code = 1 .. Len(code)
         /\ ~IfOpen(pc) /\ ~ElseOpen(pc) /\ ~BreakOpen(pc) /\ \A l : ~BackOpen(pc, l)
         /\ \A j : Edge(pc, j) => j \in DOMAIN code /\ code[j].reached /\ OwnersAt(j) \subseteq After(pc)
  <1>1. frames = <<>> /\ DOMAIN frames = {}  BY DEF Machine
  <1>2. \A kind : ~OpenAt(pc, kind)  BY <1>1 DEF OpenAt
  <1>3. /\ code[pc] \in InstrType /\ pc \in 1 .. Len(code) /\ Len(code) \in Nat
        /\ DOMAIN code = 1 .. Len(code)
    BY DEF CheckerType
  <1>4. ~IfOpen(pc) /\ ~ElseOpen(pc) /\ ~BreakOpen(pc) /\ \A l : ~BackOpen(pc, l)
    BY <1>2 DEF IfOpen, ElseOpen, BreakOpen, BackOpen
  <1>5. \A j : Edge(pc, j) => j \in DOMAIN code /\ code[j].reached /\ OwnersAt(j) \subseteq After(pc)
    BY <1>1 DEF Edge
  <1>6. code[pc].reached /\ InstrOK(pc) /\ Holding(OwnersAt(pc))  BY DEF Machine, Edges
  <1> QED  BY <1>3, <1>4, <1>5, <1>6

LEMMA HoldingSmaller ==
  ASSUME NEW S, NEW T, T \subseteq S, Holding(S)'
  PROVE  Holding(T)'
  BY DEF Holding

LEMMA AheadIs ==
  ASSUME CheckerType, pc \in DOMAIN code, NEW ops, NEW a \in DOMAIN code, FirstAhead(pc, a, ops)
  PROVE  Ahead(ops) = a
  <1>1. DOMAIN code = 1 .. Len(code) /\ Len(code) \in Nat  BY DEF CheckerType
  <1> DEFINE P(i) == /\ code[i].op \in ops /\ code[i].depth = Now.depth
                     /\ \A j \in pc + 1 .. i - 1 : code[j].op \in ops => code[j].depth # Now.depth
  <1>2. a \in pc + 1 .. Len(code) /\ P(a)  BY DEF FirstAhead, Same, Now
  <1>3. \A i \in pc + 1 .. Len(code) : P(i) => i = a
    <2> SUFFICES ASSUME NEW i \in pc + 1 .. Len(code), P(i) PROVE i = a  OBVIOUS
    <2>1. ~(i < a)  BY <1>1, <1>2
    <2>2. ~(a < i)  BY <1>1, <1>2
    <2> QED  BY <1>1, <1>2, <2>1, <2>2
  <1>4. Ahead(ops) = CHOOSE i \in pc + 1 .. Len(code) : P(i)  BY DEF Ahead
  <1> HIDE DEF P
  <1> QED  BY <1>2, <1>3, <1>4

LEMMA LoopTopIs ==
  ASSUME CheckerType, pc \in DOMAIN code, NEW l \in DOMAIN code, LastLoop(pc, l)
  PROVE  LoopTop = l
  <1>1. DOMAIN code = 1 .. Len(code) /\ Len(code) \in Nat  BY DEF CheckerType
  <1> DEFINE P(i) == /\ code[i].op = "loop" /\ code[i].depth = Now.depth
                     /\ \A j \in i + 1 .. pc : code[j].op = "loop" => code[j].depth # Now.depth
  <1>2. l \in 1 .. pc /\ P(l)  BY DEF LastLoop, Same, Now
  <1>3. \A i \in 1 .. pc : P(i) => i = l
    <2> SUFFICES ASSUME NEW i \in 1 .. pc, P(i) PROVE i = l  OBVIOUS
    <2>1. ~(i < l)  BY <1>1, <1>2
    <2>2. ~(l < i)  BY <1>1, <1>2
    <2> QED  BY <1>1, <1>2, <2>1, <2>2
  <1>4. LoopTop = CHOOSE i \in 1 .. pc : P(i)  BY DEF LoopTop
  <1> HIDE DEF P
  <1> QED  BY <1>2, <1>3, <1>4

(* A step that only goes elsewhere.                                        *)
LEMMA GoTo ==
  ASSUME CheckerType, Edges, Machine, Compiled, env' = env, heap' = heap, pc \in DOMAIN code,
         NEW j \in 1 .. Len(code) + 1, pc' = j,
         j \in DOMAIN code => code[j].reached /\ OwnersAt(j) \subseteq OwnersAt(pc)
  PROVE  Machine'
  <1>1. code' = code /\ frames' = frames /\ \A i : OwnersAt(i)' = OwnersAt(i)
    BY CompiledKept DEF Compiled
  <1>2. /\ frames' = <<>> /\ pc' \in 1 .. Len(code') + 1
        /\ heap' \in Seq({"live", "freed"}) /\ Len(heap') <= MaxObj
        /\ env' \in [Binding -> 0 .. Len(heap')]
    BY <1>1 DEF Machine
  <1>3. ASSUME j \in DOMAIN code PROVE Holding(OwnersAt(j))'
    <2>1. PICK S, T : S = OwnersAt(pc) /\ T = OwnersAt(j)  OBVIOUS
    <2>2. Holding(S)  BY <2>1, RunState
    <2>3. Holding(S)'  BY <2>2 DEF Holding
    <2>4. Holding(T)'  BY <1>3, <2>1, <2>3, HoldingSmaller
    <2>5. T = OwnersAt(j)'  BY <1>1, <2>1
    <2> QED  BY <2>4, <2>5
  <1>4. pc' \in DOMAIN code' => code'[pc'].reached /\ Holding(OwnersAt(pc))'
    <2>1. OwnersAt(pc)' = OwnersAt(j)'  BY <1>1 DEF OwnersAt
    <2> QED  BY <1>1, <1>3, <2>1 DEF Holding
  <1> QED  BY <1>2, <1>4 DEF Machine

LEMMA RunIfStep ==
  ASSUME CheckerType, Edges, Machine, Compiled, RunIf
  PROVE  Machine'
  <1>1. pc \in DOMAIN code /\ code[pc].op = "if" /\ env' = env /\ heap' = heap
    BY DEF RunIf, At, Now
  <1>2. /\ InstrOK(pc) /\ ~IfOpen(pc) /\ pc \in 1 .. Len(code) /\ Len(code) \in Nat
        /\ DOMAIN code = 1 .. Len(code)
        /\ \A j : Edge(pc, j) => j \in DOMAIN code /\ code[j].reached /\ OwnersAt(j) \subseteq After(pc)
    BY <1>1, RunState
  <1>3. After(pc) = OwnersAt(pc)  BY <1>1 DEF After
  <1>4. Edge(pc, pc + 1) /\ IfMet(pc)  BY <1>1, <1>2 DEF InstrOK, Straight, IfEdge
  <1>5. PICK a \in DOMAIN code : /\ FirstAhead(pc, a, {"else", "endif"})
                                 /\ Edge(pc, IF code[a].op = "else" THEN a + 1 ELSE a)
    BY <1>4 DEF IfMet
  <1>6. Ahead({"else", "endif"}) = a  BY <1>1, <1>5, AheadIs
  <1>7. Edge(pc, pc')
    <2>1. \/ pc' = pc + 1
          \/ pc' = IF code[Ahead({"else", "endif"})].op = "else"
                   THEN Ahead({"else", "endif"}) + 1 ELSE Ahead({"else", "endif"})
      BY DEF RunIf
    <2> QED  BY <1>4, <1>5, <1>6, <2>1
  <1>8. PICK j : j = pc'  OBVIOUS
  <1>9. j \in DOMAIN code /\ code[j].reached /\ OwnersAt(j) \subseteq OwnersAt(pc)
    BY <1>2, <1>3, <1>7, <1>8
  <1>10. j \in 1 .. Len(code) + 1  BY <1>2, <1>9
  <1> QED  BY <1>1, <1>8, <1>9, <1>10, GoTo

LEMMA RunJumpStep ==
  ASSUME CheckerType, Edges, Machine, Compiled, RunJump
  PROVE  Machine'
  <1>1. pc \in DOMAIN code /\ env' = env /\ heap' = heap  BY DEF RunJump, At
  <1>2. /\ InstrOK(pc) /\ ~ElseOpen(pc) /\ ~BreakOpen(pc) /\ \A l : ~BackOpen(pc, l)
        /\ pc \in 1 .. Len(code) /\ Len(code) \in Nat /\ DOMAIN code = 1 .. Len(code)
        /\ \A j : Edge(pc, j) => j \in DOMAIN code /\ code[j].reached /\ OwnersAt(j) \subseteq After(pc)
    BY <1>1, RunState
  <1>3. ASSUME Edge(pc, pc'), code[pc].op \notin {"bind", "free"} PROVE Machine'
    <2>1. PICK j : j = pc'  OBVIOUS
    <2>2. After(pc) = OwnersAt(pc)  BY <1>3 DEF After
    <2>3. j \in DOMAIN code /\ code[j].reached /\ OwnersAt(j) \subseteq OwnersAt(pc)
      BY <1>2, <1>3, <2>1, <2>2
    <2>4. j \in 1 .. Len(code) + 1  BY <1>2, <2>3
    <2> QED  BY <1>1, <2>1, <2>3, <2>4, GoTo
  <1>4. ASSUME pc' = Len(code) + 1 PROVE Machine'
    <2>1. PICK j : j = Len(code) + 1  OBVIOUS
    <2>2. j \in 1 .. Len(code) + 1 /\ j \notin DOMAIN code  BY <1>2, <2>1
    <2> QED  BY <1>1, <1>4, <2>1, <2>2, GoTo
  <1>5. CASE At("else") /\ pc' = Ahead({"endif"})
    <2>1. code[pc].op = "else"  BY <1>5 DEF At, Now
    <2>2. ElseMet(pc)  BY <1>2, <2>1 DEF InstrOK, ElseEdge
    <2>3. PICK a \in DOMAIN code : FirstAhead(pc, a, {"endif"}) /\ Edge(pc, a)  BY <2>2 DEF ElseMet
    <2>4. pc' = a  BY <1>1, <1>5, <2>3, AheadIs
    <2> QED  BY <1>3, <2>1, <2>3, <2>4
  <1>6. CASE At("break") /\ pc' = Ahead({"endloop"}) + 1
    <2>1. code[pc].op = "break"  BY <1>6 DEF At, Now
    <2>2. BreakMet(pc)  BY <1>2, <2>1 DEF InstrOK, BreakEdge
    <2>3. PICK a \in DOMAIN code : FirstAhead(pc, a, {"endloop"}) /\ Edge(pc, a + 1)
      BY <2>2 DEF BreakMet
    <2>4. pc' = a + 1  BY <1>1, <1>6, <2>3, AheadIs
    <2> QED  BY <1>3, <2>1, <2>3, <2>4
  <1>7. CASE (At("continue") \/ At("endloop")) /\ pc' = LoopTop
    <2>1. code[pc].op \in {"continue", "endloop"}  BY <1>7 DEF At, Now
    <2>2. PICK l \in DOMAIN code : BackMet(pc, l)  BY <1>2, <2>1 DEF InstrOK, BackEdge
    <2>3. LastLoop(pc, l) /\ code[l].reached /\ OwnersAt(l) \subseteq OwnersAt(pc)
      BY <2>2 DEF BackMet
    <2>4. pc' = l  BY <1>1, <1>7, <2>3, LoopTopIs
    <2>5. l \in 1 .. Len(code) + 1  BY <1>2
    <2> QED  BY <1>1, <2>3, <2>4, <2>5, GoTo
  <1>8. CASE At("return") /\ pc' = Len(code) + 1  BY <1>4, <1>8
  <1>9. CASE (At("dispose") \/ At("loop") \/ At("endif")) /\ pc' = pc + 1
    <2>1. code[pc].op \in {"dispose", "loop", "endif"}  BY <1>9 DEF At, Now
    <2>2. Edge(pc, pc + 1)  BY <1>2, <2>1 DEF InstrOK, Straight
    <2> QED  BY <1>3, <1>9, <2>1, <2>2
  <1>10. CASE At("end") /\ pc' = pc + 1
    <2>1. code[pc].op = "end"  BY <1>10 DEF At, Now
    <2>2. pc = Len(code)  BY <1>2, <2>1 DEF InstrOK
    <2> QED  BY <1>4, <1>10, <2>2
  <1> QED  BY <1>5, <1>6, <1>7, <1>8, <1>9, <1>10 DEF RunJump

(* A step that changes what the bindings hold goes to the next instruction. *)
LEMMA GoOn ==
  ASSUME CheckerType, Edges, Machine, Compiled, pc \in DOMAIN code, pc' = pc + 1,
         code[pc].op \in Straight,
         heap' \in Seq({"live", "freed"}), Len(heap') <= MaxObj,
         env' \in [Binding -> 0 .. Len(heap')], NEW S, S = After(pc), Holding(S)'
  PROVE  Machine'
  <1>1. code' = code /\ frames' = frames /\ \A i : OwnersAt(i)' = OwnersAt(i)
    BY CompiledKept DEF Compiled
  <1>2. /\ InstrOK(pc) /\ pc \in 1 .. Len(code) /\ Len(code) \in Nat /\ DOMAIN code = 1 .. Len(code)
        /\ \A j : Edge(pc, j) => j \in DOMAIN code /\ code[j].reached /\ OwnersAt(j) \subseteq After(pc)
    BY RunState
  <1>3. PICK j : j = pc + 1  OBVIOUS
  <1>4. j \in DOMAIN code /\ code[j].reached /\ OwnersAt(j) \subseteq S
    BY <1>2, <1>3 DEF InstrOK
  <1>5. PICK T : T = OwnersAt(j)  OBVIOUS
  <1>6. Holding(T)'  BY <1>4, <1>5, HoldingSmaller
  <1>7. OwnersAt(pc)' = T  BY <1>1, <1>3, <1>5 DEF OwnersAt
  <1>8. Holding(OwnersAt(pc))'  BY <1>6, <1>7 DEF Holding
  <1>9. frames' = <<>> /\ pc' \in 1 .. Len(code') + 1 /\ code'[pc'].reached
    BY <1>1, <1>2, <1>3, <1>4 DEF Machine
  <1> QED  BY <1>8, <1>9 DEF Machine

LEMMA RunBindStep ==
  ASSUME CheckerType, Edges, Machine, Compiled, RunBind
  PROVE  Machine'
  <1>1. pc \in DOMAIN code /\ code[pc].op = "bind" /\ pc' = pc + 1  BY DEF RunBind, At, Now
  <1>2. InstrOK(pc) /\ Holding(OwnersAt(pc)) /\ code[pc] \in InstrType  BY <1>1, RunState
  <1>3. PICK x, y, O, S : x = code[pc].x /\ y = code[pc].src /\ O = OwnersAt(pc) /\ S = After(pc)
    OBVIOUS
  <1>4. x \in Binding /\ y \in Sources /\ (y \in Binding => y \in O)
    BY <1>1, <1>2, <1>3 DEF InstrOK
  <1>5. S = (O \ ({y} \ nullable)) \cup {x}  BY <1>1, <1>3 DEF After
  <1>6. O \subseteq Binding  BY <1>2, <1>3 DEF OwnersAt, Owns, InstrType
  <1>7. /\ heap \in Seq({"live", "freed"}) /\ Len(heap) <= MaxObj /\ Len(heap) \in Nat
        /\ env \in [Binding -> 0 .. Len(heap)]
    BY DEF Machine
  <1>8. /\ \A z \in O : env[z] # 0 => heap[env[z]] = "live"
        /\ \A z, w \in O : env[z] = env[w] /\ env[z] # 0 => z = w
    BY <1>2, <1>3 DEF Holding
  <1>9. Binding \cap {"alloc", "nil"} = {}  BY OwnershipConstants
  <1>10. code[pc].op \in Straight  BY <1>1 DEF Straight
  <1>11. SUFFICES /\ heap' \in Seq({"live", "freed"}) /\ Len(heap') <= MaxObj
                  /\ env' \in [Binding -> 0 .. Len(heap')] /\ Holding(S)'
    BY <1>1, <1>3, <1>10, GoOn
  <1>12. CASE y = "alloc"
    <2>1. /\ Len(heap) < MaxObj /\ heap' = Append(heap, "live")
          /\ env' = [env EXCEPT ![x] = Len(heap) + 1]
      BY <1>3, <1>12 DEF RunBind, Now
    <2>2. /\ heap' \in Seq({"live", "freed"}) /\ Len(heap') = Len(heap) + 1
          /\ heap'[Len(heap) + 1] = "live" /\ \A o \in 1 .. Len(heap) : heap'[o] = heap[o]
      BY <1>7, <2>1
    <2>3. Len(heap') <= MaxObj  BY <1>7, <2>1, <2>2, OwnershipConstants
    <2>4. env' \in [Binding -> 0 .. Len(heap')]  BY <1>4, <1>7, <2>1, <2>2
    <2>5. \A z \in S : z = x \/ (z \in O /\ z # x /\ env'[z] = env[z] /\ env[z] \in 0 .. Len(heap))
      BY <1>4, <1>5, <1>6, <1>7, <2>1
    <2>6. env'[x] = Len(heap) + 1  BY <1>4, <1>7, <2>1
    <2>7. \A z \in S : env'[z] # 0 => heap'[env'[z]] = "live"
      BY <1>7, <1>8, <2>2, <2>5, <2>6
    <2>8. \A z, w \in S : env'[z] = env'[w] /\ env'[z] # 0 => z = w
      BY <1>7, <1>8, <2>5, <2>6
    <2>9. Holding(S)'  BY <2>7, <2>8 DEF Holding
    <2> QED  BY <2>2, <2>3, <2>4, <2>9
  <1>13. CASE y = "nil"
    <2>1. heap' = heap /\ env' = [env EXCEPT ![x] = 0]  BY <1>3, <1>13 DEF RunBind, Now
    <2>2. env' \in [Binding -> 0 .. Len(heap')]  BY <1>4, <1>7, <2>1
    <2>3. \A z \in S : env'[z] # 0 => z \in O /\ env'[z] = env[z]
      BY <1>4, <1>5, <1>6, <1>7, <2>1
    <2>4. Holding(S)'  BY <1>8, <2>1, <2>3 DEF Holding
    <2> QED  BY <1>7, <2>1, <2>2, <2>4
  <1>14. CASE y \in Binding
    <2>1. /\ heap' = heap
          /\ env' = IF y \in nullable THEN [env EXCEPT ![x] = env[y], ![y] = 0]
                    ELSE [env EXCEPT ![x] = env[y]]
      BY <1>3, <1>9, <1>14 DEF RunBind, Now
    <2>2. env' \in [Binding -> 0 .. Len(heap')]  BY <1>4, <1>7, <1>14, <2>1
    <2>3. \A z \in S : env'[z] # 0 => \/ z = x /\ env'[z] = env[y]
                                      \/ z \in O /\ z # x /\ z # y /\ env'[z] = env[z]
      BY <1>4, <1>5, <1>6, <1>7, <1>14, <2>1
    <2>4. \A z \in S : env'[z] # 0 => heap'[env'[z]] = "live"
      BY <1>4, <1>8, <1>14, <2>1, <2>3
    <2>5. \A z, w \in S : env'[z] = env'[w] /\ env'[z] # 0 => z = w
      BY <1>4, <1>8, <1>14, <2>3
    <2>6. Holding(S)'  BY <2>4, <2>5 DEF Holding
    <2> QED  BY <1>7, <2>1, <2>2, <2>6
  <1> QED  BY <1>4, <1>12, <1>13, <1>14 DEF Sources

LEMMA RunFreeStep ==
  ASSUME CheckerType, Edges, Machine, Compiled, RunFree
  PROVE  Machine'
  <1>1. pc \in DOMAIN code /\ code[pc].op = "free" /\ pc' = pc + 1  BY DEF RunFree, At, Now
  <1>2. InstrOK(pc) /\ Holding(OwnersAt(pc)) /\ code[pc] \in InstrType  BY <1>1, RunState
  <1>3. PICK x, O, S : x = code[pc].x /\ O = OwnersAt(pc) /\ S = After(pc)  OBVIOUS
  <1>4. x \in O  BY <1>1, <1>2, <1>3 DEF InstrOK
  <1>5. S = O \ ({x} \ nullable)  BY <1>1, <1>3 DEF After
  <1>6. O \subseteq Binding  BY <1>2, <1>3 DEF OwnersAt, Owns, InstrType
  <1>7. /\ heap \in Seq({"live", "freed"}) /\ Len(heap) <= MaxObj /\ Len(heap) \in Nat
        /\ env \in [Binding -> 0 .. Len(heap)]
    BY DEF Machine
  <1>8. /\ \A z \in O : env[z] # 0 => heap[env[z]] = "live"
        /\ \A z, w \in O : env[z] = env[w] /\ env[z] # 0 => z = w
    BY <1>2, <1>3 DEF Holding
  <1>9. code[pc].op \in Straight  BY <1>1 DEF Straight
  <1>10. SUFFICES /\ heap' \in Seq({"live", "freed"}) /\ Len(heap') <= MaxObj
                  /\ env' \in [Binding -> 0 .. Len(heap')] /\ Holding(S)'
    BY <1>1, <1>3, <1>9, GoOn
  <1>11. PICK o : o = env[x]  OBVIOUS
  <1>12. env' = IF x \in nullable THEN [env EXCEPT ![x] = 0] ELSE env
    BY <1>3 DEF RunFree, Now
  <1>13. \A z \in S : env'[z] # 0 => z \in O /\ z # x /\ env'[z] = env[z]
    BY <1>5, <1>6, <1>7, <1>12
  <1>14. CASE o = 0
    <2>1. heap' = heap  BY <1>3, <1>11, <1>14 DEF RunFree, Now
    <2>2. env' \in [Binding -> 0 .. Len(heap')]  BY <1>4, <1>6, <1>7, <1>12, <2>1
    <2>3. Holding(S)'  BY <1>8, <1>13, <2>1 DEF Holding
    <2> QED  BY <1>7, <2>1, <2>2, <2>3
  <1>15. CASE o # 0
    <2>1. o \in 1 .. Len(heap) /\ heap[o] = "live"  BY <1>4, <1>6, <1>7, <1>8, <1>11, <1>15
    <2>2. heap' = [heap EXCEPT ![o] = "freed"]
      BY <1>3, <1>11, <1>15, <2>1 DEF RunFree, Now
    <2>3. /\ heap' \in Seq({"live", "freed"}) /\ Len(heap') = Len(heap)
          /\ \A i \in 1 .. Len(heap) : i # o => heap'[i] = heap[i]
      BY <1>7, <2>1, <2>2
    <2>4. env' \in [Binding -> 0 .. Len(heap')]  BY <1>4, <1>6, <1>7, <1>12, <2>3
    <2>5. \A z \in S : env'[z] # 0 => env[z] # o /\ env[z] \in 1 .. Len(heap)
      BY <1>4, <1>6, <1>7, <1>8, <1>11, <1>13, <1>15
    <2>6. \A z \in S : env'[z] # 0 => heap'[env'[z]] = "live"
      BY <1>8, <1>13, <2>3, <2>5
    <2>7. \A z, w \in S : env'[z] = env'[w] /\ env'[z] # 0 => z = w  BY <1>8, <1>13
    <2>8. Holding(S)'  BY <2>6, <2>7 DEF Holding
    <2> QED  BY <1>7, <2>3, <2>4, <2>8
  <1> QED  BY <1>14, <1>15

-----------------------------------------------------------------------------
(* Every step of the compiler, and every step of a run, keeps OwnInv.      *)
LEMMA CompileStep ==
  ASSUME Checking, Compile
  PROVE  Checking'
  <1>1. nullable' = nullable /\ params' = params  BY DEF Compile
  <1>2. CASE \E x \in Binding, src \in Sources : VarDecl(x, src) \/ Assignment(x, src)
    BY <1>1, <1>2, VarDeclStep, AssignmentStep
  <1>3. CASE \E x \in Binding : FreeBuiltin(x) \/ Dispose(x)
    BY <1>1, <1>3, FreeStep, DisposeStep
  <1>4. CASE \E x \in Binding, cond \in {"nil", "nonnil"} : If(cond, x)
    BY <1>1, <1>4, IfStep
  <1>5. CASE If("opaque", "none")
    <2>1. PICK cond, x : cond = "opaque" /\ x = "none"  OBVIOUS
    <2>2. cond \in {"opaque", "nil", "nonnil"} /\ x \in Binding \cup {"none"} /\ If(cond, x)
      BY <1>5, <2>1
    <2> QED  BY <1>1, <2>2, IfStep
  <1>6. CASE Else  BY <1>1, <1>6, ElseStep
  <1>7. CASE EndIf  BY <1>1, <1>7, EndIfStep
  <1>8. CASE Loop  BY <1>1, <1>8, LoopStep
  <1>9. CASE Break  BY <1>1, <1>9, BreakStep
  <1>10. CASE Continue  BY <1>1, <1>10, ContinueStep
  <1>11. CASE EndLoop  BY <1>1, <1>11, EndLoopStep
  <1>12. CASE Return  BY <1>1, <1>12, ReturnStep
  <1> QED  BY <1>2, <1>3, <1>4, <1>5, <1>6, <1>7, <1>8, <1>9, <1>10, <1>11, <1>12 DEF Compile

LEMMA NextOK ==
  ASSUME OwnInv, [Next]_vars
  PROVE  OwnInv'
  <1>1. CheckerType /\ Edges  BY DEF OwnInv
  <1>2. ASSUME pc = 0
        PROVE  Checking /\ heap = <<>> /\ env = [x \in Binding |-> 0]
    <2>1. ~Machine  BY <1>2 DEF Machine
    <2> QED  BY <2>1 DEF OwnInv, Checking
  <1>3. ASSUME pc # 0
        PROVE  Machine
    BY <1>3 DEF OwnInv
  <1>4. CASE Compile
    <2>1. pc = 0 /\ pc' = pc /\ heap' = heap /\ env' = env  BY <1>4 DEF Compile
    <2>2. Checking'  BY <1>2, <1>4, <2>1, CompileStep
    <2> QED  BY <1>2, <2>1, <2>2 DEF OwnInv, Checking
  <1>5. CASE EndFunction
    <2>1. Len(frames) = 1  BY <1>5 DEF EndFunction
    <2>2. frames # <<>>  BY <2>1
    <2>3. Checking  BY <1>2, <1>3, <2>2 DEF Machine
    <2> QED  BY <1>5, <2>3, EndFunctionStep
  <1>6. CASE Run
    <2>1. pc \in DOMAIN code  BY <1>6 DEF Run, RunBind, RunFree, RunIf, RunJump, At
    <2>2. pc # 0  BY <1>1, <2>1 DEF CheckerType
    <2>3. Machine /\ Compiled  BY <1>3, <1>6, <2>2 DEF Run, Compiled
    <2>4. Machine'
      BY <1>1, <1>6, <2>3, RunIfStep, RunJumpStep, RunBindStep, RunFreeStep DEF Run
    <2> QED  BY <1>1, <2>3, <2>4, CompiledKept DEF OwnInv
  <1>7. CASE UNCHANGED vars
    <2>1. /\ nullable' = nullable /\ params' = params /\ code' = code /\ facts' = facts
          /\ used' = used /\ frames' = frames /\ pc' = pc /\ env' = env /\ heap' = heap
      BY <1>7 DEF vars
    <2>2. CheckerType' /\ Edges' /\ \A i : OwnersAt(i)' = OwnersAt(i)
      BY <1>1, <2>1, CompiledKept DEF Compiled
    <2>3. /\ \A d : BoundTo(d)' = BoundTo(d)
          /\ \A f, S : Owns(f, S)' = Owns(f, S)
          /\ Top' = Top /\ OwnersNow' = OwnersNow
      BY <2>1 DEF BoundTo, Owns, Top, OwnersNow, Bound, Scope
    <2>4. CASE pc = 0
      <3>1. Blocks /\ StartOK  BY <1>2, <2>4 DEF Checking
      <3>2. /\ \A m : IsLoop(m)' <=> IsLoop(m)
            /\ \A m, l : OpenLoop(m, l)' <=> OpenLoop(m, l)
        BY <2>1, <2>2, <2>3 DEF IsLoop, OpenLoop
      <3>3. Blocks'  BY <2>1, <2>3, <3>1, <3>2 DEF Blocks
      <3>4. StartOK'  BY <2>1, <2>2, <2>3, <3>1 DEF StartOK
      <3> QED  BY <1>2, <2>1, <2>2, <2>4, <3>3, <3>4 DEF OwnInv
    <2>5. CASE pc # 0
      <3>1. \A S : Holding(S)' <=> Holding(S)  BY <2>1 DEF Holding
      <3>2. Machine'  BY <1>3, <2>1, <2>2, <2>5, <3>1 DEF Machine
      <3> QED  BY <2>2, <3>2 DEF OwnInv
    <2> QED  BY <2>4, <2>5
  <1> QED  BY <1>4, <1>5, <1>6, <1>7 DEF Next

-----------------------------------------------------------------------------
(* The checker's bookkeeping and the run agree for functions of any length *)
(* and nesting: no edge of the compiled code claims more owners than it is *)
(* left, and the owners of the point a run is at hold distinct live        *)
(* objects (compile.go's moved facts, at merges, backedges and breaks).    *)
THEOREM OwnInvariant == Spec => []OwnInv
  <1>1. Init => OwnInv  BY InitOK
  <1>2. OwnInv /\ [Next]_vars => OwnInv'  BY NextOK
  <1> QED  BY <1>1, <1>2, PTL DEF Spec

(* The checker's facts are well formed at every point: only a registered   *)
(* origin is dead and nothing is known both nil and not nil; a run stays   *)
(* inside the code, and its bindings hold nil or an allocated object.      *)
THEOREM OwnershipTypes == Spec => []TypeOK
  <1>1. OwnInv => TypeOK
    <2> SUFFICES ASSUME OwnInv PROVE TypeOK
      OBVIOUS
    <2>1. CheckerType  BY DEF OwnInv
    <2>2. facts \in [moved : SUBSET Binding, null : SUBSET Binding, nonnull : SUBSET Binding,
                     reg : SUBSET Binding, dead : SUBSET facts.reg,
                     ptr : [Binding -> SUBSET Binding]]
      BY <2>1 DEF CheckerType, Facts, FactsType
    <2>3. facts.null \cap facts.nonnull = {}  BY <2>1 DEF CheckerType, Facts
    <2>4. Len(code) \in Nat  BY <2>1 DEF CheckerType
    <2>5. /\ heap \in Seq({"live", "freed", "freed again"}) /\ Len(heap) <= MaxObj
          /\ env \in [Binding -> 0 .. Len(heap)] /\ pc \in 0 .. Len(code) + 1
      <3>1. CASE Machine
        <4>1. heap \in Seq({"live", "freed"})  BY <3>1 DEF Machine
        <4>2. heap \in [1 .. Len(heap) -> {"live", "freed", "freed again"}] /\ Len(heap) \in Nat
          <5>1. heap \in [1 .. Len(heap) -> {"live", "freed"}] /\ Len(heap) \in Nat
            BY <4>1, LenProperties, ElementOfSeq
          <5> QED  BY <5>1
        <4>3. heap \in Seq({"live", "freed", "freed again"})  BY <4>2, SeqDef
        <4>4. Len(heap) <= MaxObj /\ env \in [Binding -> 0 .. Len(heap)] /\ pc \in 1 .. Len(code) + 1
          BY <3>1 DEF Machine
        <4>5. pc \in 0 .. Len(code) + 1  BY <2>4, <4>4
        <4> QED  BY <4>3, <4>4, <4>5
      <3>2. CASE ~Machine
        <4>1. pc = 0 /\ heap = <<>> /\ env = [x \in Binding |-> 0]  BY <3>2 DEF OwnInv
        <4>2. Len(heap) = 0 /\ heap \in Seq({"live", "freed", "freed again"})  BY <4>1
        <4> QED  BY <2>4, <4>1, <4>2, OwnershipConstants
      <3> QED  BY <3>1, <3>2
    <2> QED  BY <2>1, <2>2, <2>3, <2>5 DEF TypeOK, CheckerType
  <1> QED  BY <1>1, OwnInvariant, PTL

(* A function the checker accepts never frees an object twice, however     *)
(* its branches and loops go: free's argument is an owner, and the owners  *)
(* of a point hold live objects (compileFreeBuiltin, MoveConsume).         *)
THEOREM FreesOnce == Spec => []FreedOnce
  <1>1. OwnInv => FreedOnce
    <2>1. ASSUME Machine PROVE FreedOnce
      <3>1. heap \in Seq({"live", "freed"})  BY <2>1 DEF Machine
      <3>2. \A i \in DOMAIN heap : heap[i] \in {"live", "freed"}  BY <3>1
      <3> QED  BY <3>2 DEF FreedOnce
    <2>2. ASSUME heap = <<>> PROVE FreedOnce
      <3>1. DOMAIN heap = {}  BY <2>2
      <3> QED  BY <3>1 DEF FreedOnce
    <2> QED  BY <2>1, <2>2 DEF OwnInv
  <1> QED  BY <1>1, OwnInvariant, PTL

(* Wherever a run is, a binding that the checker does not count as moved   *)
(* holds nil or a live object that no other such binding holds: the facts  *)
(* that Merge (flow/state.go) and the tests on joins and backedges         *)
(* (compile.go) leave are true of every path to the point.                 *)
THEOREM OwnersAreSound == Spec => []OwnersHold
  <1>1. OwnInv => OwnersHold
    <2> SUFFICES ASSUME OwnInv, pc \in DOMAIN code
                 PROVE  LET owners == {x \in Now.bound \ Now.facts.moved : env[x] # 0}
                        IN /\ \A x \in owners : heap[env[x]] = "live"
                           /\ \A x, y \in owners : env[x] = env[y] => x = y
      BY DEF OwnersHold, Running
    <2>1. pc # 0  BY DEF OwnInv, CheckerType
    <2>2. Holding(OwnersAt(pc))  BY <2>1 DEF OwnInv, Machine
    <2>3. Now.bound \ Now.facts.moved \subseteq OwnersAt(pc)  BY DEF Now, OwnersAt, Owns
    <2> QED  BY <2>2, <2>3 DEF Holding
  <1> QED  BY <1>1, OwnInvariant, PTL
=============================================================================
