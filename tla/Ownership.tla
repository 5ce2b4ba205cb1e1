----------------------------- MODULE Ownership -----------------------------
(***************************************************************************)
(* The ownership checker of the compiler (cmd/bosc/checker.go and the      *)
(* statement cases of compile.go) against the programs it lets through.    *)
(* A function over owned pointers, some nullable, is compiled statement by *)
(* statement: a statement is appended only where the checker accepts it.   *)
(* The finished function is then run, opaque conditions going either way.  *)
(*                                                                         *)
(* The fragment is owned pointer bindings (`owned *T', `owned *?T') with   *)
(* var, assignment, free, dispose, if, loop, break, continue and a bare    *)
(* return; no borrows, fields, calls or values of other types.             *)
(***************************************************************************)
EXTENDS Naturals, Sequences, FiniteSets, SequencesExt

CONSTANTS
  Binding,       \* names of local variables and parameters
  NullableSets,  \* which bindings may be declared `owned *?T'
  ParamSets,     \* which bindings may be the parameters
  Stmts,         \* bound: the kinds of statement programs are made of
  MaxLen,        \* bound: statements and block ends of a program
  MaxObj         \* bound: allocations of a run

ASSUME OwnershipConstants ==
  /\ NullableSets \subseteq SUBSET Binding /\ ParamSets \subseteq SUBSET Binding
  /\ \A P \in ParamSets : IsFiniteSet(P) /\ Cardinality(P) <= MaxObj
  /\ Binding \cap {"alloc", "nil", "none"} = {}
  /\ MaxLen \in Nat \ {0} /\ MaxObj \in Nat

VARIABLES
  nullable,  \* bindings of type `owned *?T'
  params,    \* parameters of the function
  code,      \* what has been compiled: instructions with the facts before them
  facts,     \* the checker's flow state
  used,      \* bindings in scope that have been read or consumed
  frames,    \* open blocks, the function body first; <<>> once compiled
  pc,        \* next instruction of the run; 0 while compiling
  env,       \* what each binding holds: an object of heap, or 0 for nil
  heap       \* every object allocated: "live", "freed" or freed again

vars == <<nullable, params, code, facts, used, frames, pc, env, heap>>

-----------------------------------------------------------------------------
(* Flow facts.  moved, null and nonnull are the bindings with that fact;   *)
(* ptr[x] is the origin x points into, empty when unknown; an origin is    *)
(* named after the binding it was allocated for, and is in reg once        *)
(* registered and in dead once its target was consumed.                    *)

Live(f, x) == x \notin f.moved /\ ~(x \in nullable /\ x \in f.null)
Readable(f, x) == x \notin f.moved /\ f.ptr[x] \cap f.dead = {}
Narrowed(f, x) == x \notin nullable \/ x \in f.nonnull

Invalidate(f, x) == [f EXCEPT !.dead = @ \cup (f.ptr[x] \cap f.reg)]
MoveConsume(f, x) == Invalidate([f EXCEPT !.moved = @ \cup {x}], x)

(* markMovedIfOwnedSource: the source of a move; a nullable one is zeroed. *)
MoveSource(f, x) ==
  [f EXCEPT !.moved = @ \cup {x},
            !.null = IF x \in nullable THEN @ \cup {x} ELSE @,
            !.nonnull = IF x \in nullable THEN @ \ {x} ELSE @]

(* x initialised or assigned from "alloc", "nil" or a binding.             *)
Bind(f, x, src) ==
  LET g == IF src \in Binding THEN MoveSource(f, src) ELSE f
      known == \/ x \notin nullable
               \/ src = "alloc"
               \/ src \in Binding /\ Narrowed(f, src)
      fresh == IF src = "alloc" THEN {x} ELSE {}
  IN [g EXCEPT !.moved = @ \ {x},
               !.null = IF src = "nil" THEN @ \cup {x} ELSE @ \ {x},
               !.nonnull = IF known THEN @ \cup {x} ELSE @ \ {x},
               !.ptr[x] = IF src \in Binding THEN f.ptr[src] ELSE fresh,
               !.reg = @ \cup fresh,
               !.dead = @ \ fresh]

(* Mutant of Narrow: the opposite fact is not dropped.                     *)
NarrowKeeps(f, x, isNil) ==
  IF isNil
    THEN MoveConsume([f EXCEPT !.null = @ \cup {x}], x)
    ELSE [f EXCEPT !.nonnull = @ \cup {x}]

(* The facts in a branch where x was found nil, or not nil.                *)
Narrow(f, x, isNil) ==
  IF isNil
    THEN MoveConsume([f EXCEPT !.null = @ \cup {x}, !.nonnull = @ \ {x}], x)
    ELSE [f EXCEPT !.null = @ \ {x}, !.nonnull = @ \cup {x}]

(* Only the facts about the bindings in S: the others are out of scope.    *)
Keep(f, S) ==
  [f EXCEPT !.moved = @ \cap S, !.null = @ \cap S, !.nonnull = @ \cap S,
            !.ptr = [x \in Binding |-> IF x \in S THEN @[x] ELSE {}]]

(* What all the sets have in common.                                       *)
Common(sets) == {x \in Binding : \A S \in sets : x \in S}

(* Mutant of Merge: the null facts of the first path are taken for all.    *)
MergeFirstNull(paths) ==
  [paths[1] EXCEPT !.ptr = [x \in Binding |-> Common({paths[i].ptr[x] : i \in DOMAIN paths})],
                   !.reg = UNION {paths[i].reg : i \in DOMAIN paths},
                   !.dead = UNION {paths[i].dead : i \in DOMAIN paths}]

(* Facts after paths meet, which the code merges two at a time: the moved  *)
(* bits are those of the first.                                            *)
Merge(paths) ==
  [moved |-> paths[1].moved,
   null |-> Common({paths[i].null : i \in DOMAIN paths}),
   nonnull |-> Common({paths[i].nonnull : i \in DOMAIN paths}),
   ptr |-> [x \in Binding |-> Common({paths[i].ptr[x] : i \in DOMAIN paths})],
   reg |-> UNION {paths[i].reg : i \in DOMAIN paths},
   dead |-> UNION {paths[i].dead : i \in DOMAIN paths}]

(* Mutant of SameLive: paths may disagree.                                 *)
SameLiveAlways(f, g, x) == TRUE

(* The paths f and g agree on whether x has an obligation; a nullable one  *)
(* may differ, because nil says so at run time.                            *)
SameLive(f, g, x) == x \in nullable \/ Live(f, x) = Live(g, x)

HasLiveOwnedAlias(f, x, S) == \E y \in S \ {x} : x \in f.ptr[y] /\ Live(f, y)

-----------------------------------------------------------------------------
(* Compiling.                                                              *)

Top == Last(frames)
Scope(from) == UNION {frames[i].scope : i \in from..Len(frames)}
Bound == params \cup Scope(1)
Outer == Bound \ Top.scope

Frame(kind, cond, x, f) ==
  [kind |-> kind, cond |-> cond, x |-> x, scope |-> {}, falls |-> TRUE, before |-> f,
   then |-> f, thenFalls |-> TRUE, conts |-> <<>>, brks |-> <<>>]

(* An instruction, with the facts and the bindings in scope before it, and *)
(* whether the checker takes it to be reached.  The parts of an if or a    *)
(* loop, and the jumps out of it, have its depth.                          *)
Instr(op, x, src, depth, f, S, reached) ==
  [op |-> op, x |-> x, src |-> src, depth |-> depth, facts |-> f, bound |-> S, reached |-> reached]

Emit(op, x, src) ==
  /\ code' = Append(code, Instr(op, x, src, Len(frames), facts, Bound, Top.falls))
  /\ used' = used \cup (Bound \cap (IF op = "bind" THEN {src} ELSE {x}))
EmitJump(op, depth) ==
  /\ code' = Append(code, Instr(op, "none", "nil", depth, facts, Bound, Top.falls))
  /\ UNCHANGED used

(* There is room for n more instructions and the ends of the open blocks,  *)
(* and the code would be reached: nothing is compiled after a statement    *)
(* that does not fall through.                                             *)
CanCompile(kind, n) ==
  /\ frames # <<>> /\ kind \in Stmts
  /\ Top.falls
  /\ Len(code) + Len(frames) + n <= MaxLen

SourceAccepted(x, src) ==
  /\ src = "nil" => x \in nullable
  /\ src \in Binding => /\ src \in Bound /\ Readable(facts, src)
                        /\ x \in nullable \/ Narrowed(facts, src)

(* var x = src *)
VarDecl(x, src) ==
  /\ CanCompile("var", 1)
  /\ x \notin Bound
  /\ SourceAccepted(x, src)
  /\ Emit("bind", x, src)
  /\ facts' = Bind(facts, x, src)
  /\ frames' = [frames EXCEPT ![Len(frames)].scope = @ \cup {x}]

(* x = src *)
Assignment(x, src) ==
  /\ CanCompile("assign", 1)
  /\ x \in Bound
  /\ ~Live(facts, x)
  /\ ~(x \in facts.moved /\ HasLiveOwnedAlias(facts, x, Bound))
  /\ SourceAccepted(x, src)
  /\ Emit("bind", x, src)
  /\ facts' = Bind(facts, x, src)
  /\ UNCHANGED frames

(* free(x) *)
FreeBuiltin(x) ==
  /\ CanCompile("free", 1)
  /\ x \in Bound
  /\ x \notin facts.null /\ Readable(facts, x)
  /\ Emit("free", x, "nil")
  /\ facts' = Invalidate(MoveSource(facts, x), x)
  /\ UNCHANGED frames

(* dispose(x) *)
Dispose(x) ==
  /\ CanCompile("dispose", 1)
  /\ x \in Bound
  /\ Live(facts, x)
  /\ Emit("dispose", x, "nil")
  /\ facts' = MoveConsume(facts, x)
  /\ UNCHANGED frames

(* The facts at the start of a branch of `if (x != nil)', `if (x == nil)'  *)
(* or an if on something opaque.                                           *)
Branch(f, cond, x, isThen) ==
  IF cond = "opaque" THEN f ELSE Narrow(f, x, (cond = "nil") = isThen)

If(cond, x) ==
  /\ CanCompile("if", 2)
  /\ cond # "opaque" => x \in Bound \cap nullable /\ Readable(facts, x)
  /\ Emit("if", x, cond)
  /\ facts' = Branch(facts, cond, x, TRUE)
  /\ frames' = Append(frames, Frame("then", cond, x, facts))

(* Mutant of BlockAccepted: obligations are not checked at scope exit.     *)
BlockUnchecked == Top.scope \subseteq used

(* Scope exit: an owner declared in the block must have been consumed if   *)
(* the end of the block is reached, and used in any case.                  *)
BlockAccepted ==
  /\ Top.falls => \A x \in Top.scope : ~Live(facts, x)
  /\ Top.scope \subseteq used

Else ==
  /\ frames # <<>> /\ Top.kind = "then" /\ Len(code) + Len(frames) + 1 <= MaxLen
  /\ BlockAccepted
  /\ LET out == Keep(facts, Outer)
     IN /\ code' = Append(code, Instr("else", Top.x, "nil", Len(frames) - 1, out, Outer, Top.falls))
        /\ frames' = [frames EXCEPT ![Len(frames)].kind = "else",
                                    ![Len(frames)].scope = {},
                                    ![Len(frames)].falls = TRUE,
                                    ![Len(frames)].then = out,
                                    ![Len(frames)].thenFalls = Top.falls]
        /\ used' = used \ Top.scope
        /\ facts' = Branch(Top.before, Top.cond, Top.x, FALSE)

(* Back to the enclosing block with facts f, after a statement that falls  *)
(* through or not; `end' are the facts at its end.                         *)
Close(op, end, reached, f, falls) ==
  LET rest == Front(frames)
  IN /\ code' = Append(code, Instr(op, Top.x, "nil", Len(rest), end, Outer, reached))
     /\ facts' = f
     /\ frames' = [rest EXCEPT ![Len(rest)].falls = falls]
     /\ used' = used \ Top.scope

EndIf ==
  /\ frames # <<>> /\ Top.kind \in {"then", "else"}
  /\ BlockAccepted
  /\ LET out == Keep(facts, Outer)
         hasElse == Top.kind = "else"
         then == IF hasElse THEN Top.then ELSE out
         else == IF hasElse THEN out ELSE Branch(Top.before, Top.cond, Top.x, FALSE)
         thenFalls == IF hasElse THEN Top.thenFalls ELSE Top.falls
         elseFalls == hasElse => Top.falls
         joined == IF thenFalls /\ elseFalls THEN Merge(<<then, else>>)
                   ELSE IF thenFalls THEN then
                   ELSE IF elseFalls THEN else ELSE Top.before
     IN /\ thenFalls /\ elseFalls => \A x \in Outer : SameLive(then, else, x)
        /\ Close("endif", joined, thenFalls \/ elseFalls, joined, thenFalls \/ elseFalls)

Loop ==
  /\ CanCompile("loop", 2)
  /\ Emit("loop", "none", "nil")
  /\ frames' = Append(frames, Frame("loop", "opaque", "none", facts))
  /\ UNCHANGED facts

Loops == {i \in DOMAIN frames : frames[i].kind = "loop"}
Innermost == CHOOSE i \in Loops : \A j \in Loops : j <= i

Break ==
  /\ CanCompile("break", 1) /\ Loops # {}
  /\ EmitJump("break", Innermost - 1)
  /\ frames' = [frames EXCEPT ![Innermost].brks = Append(@, facts), ![Len(frames)].falls = FALSE]
  /\ UNCHANGED facts

Continue ==
  /\ CanCompile("continue", 1) /\ Loops # {}
  /\ EmitJump("continue", Innermost - 1)
  /\ frames' = [frames EXCEPT ![Innermost].conts = Append(@, facts), ![Len(frames)].falls = FALSE]
  /\ UNCHANGED facts

(* Mutant of BackedgesAccepted: a body is checked as if it ran once.       *)
BackedgesUnchecked == TRUE

(* What reaches the top of the loop again, and whether that is accepted.   *)
Backedges == (IF Top.falls THEN <<facts>> ELSE <<>>) \o Top.conts
BackedgesAccepted ==
  \A i \in DOMAIN Backedges, x \in Outer :
    /\ SameLive(Backedges[1], Backedges[i], x)
    /\ Live(Top.before, x) => Live(Backedges[1], x)

EndLoop ==
  /\ frames # <<>> /\ Top.kind = "loop"
  /\ BlockAccepted
  /\ BackedgesAccepted
  /\ \A i \in DOMAIN Top.brks, x \in Outer : SameLive(Top.brks[1], Top.brks[i], x)
  /\ Close("endloop", Keep(facts, Outer), Top.falls,
           IF Top.brks = <<>> THEN Top.before ELSE Keep(Merge(Top.brks), Outer), TRUE)

(* A bare return. *)
Return ==
  /\ CanCompile("return", 1)
  /\ \A y \in Bound : ~Live(facts, y)
  /\ EmitJump("return", 0)
  /\ frames' = [frames EXCEPT ![Len(frames)].falls = FALSE]
  /\ UNCHANGED facts

(* The end of the function; the run starts with some arguments.            *)
EndFunction ==
  /\ Len(frames) = 1
  /\ BlockAccepted
  /\ \A x \in params : x \in used /\ ~Live(facts, x)
  /\ code' = Append(code, Instr("end", "none", "nil", 0, facts, params, Top.falls))
  /\ frames' = <<>>
  /\ used' = {}
  /\ facts' = Keep(facts, {})
  /\ pc' = 1
  /\ \E given \in SUBSET params : \E arg \in [given -> 1..Cardinality(given)] :
       /\ params \ nullable \subseteq given
       /\ \A x, y \in given : arg[x] = arg[y] => x = y
       /\ env' = [x \in Binding |-> IF x \in given THEN arg[x] ELSE 0]
       /\ heap' = [i \in 1..Cardinality(given) |-> "live"]
  /\ UNCHANGED <<nullable, params>>

Sources == {"alloc", "nil"} \cup Binding

Compile ==
  /\ pc = 0
  /\ \/ \E x \in Binding, src \in Sources : VarDecl(x, src) \/ Assignment(x, src)
     \/ \E x \in Binding : FreeBuiltin(x) \/ Dispose(x)
     \/ \E x \in Binding, cond \in {"nil", "nonnil"} : If(cond, x)
     \/ If("opaque", "none") \/ Else \/ EndIf
     \/ Loop \/ Break \/ Continue \/ EndLoop \/ Return
  /\ UNCHANGED <<nullable, params, pc, env, heap>>

-----------------------------------------------------------------------------
(* Running what was compiled.                                              *)

Now == code[pc]
Ahead(ops) == CHOOSE i \in pc + 1..Len(code) :
                /\ code[i].op \in ops /\ code[i].depth = Now.depth
                /\ \A j \in pc + 1..i - 1 : code[j].op \in ops => code[j].depth # Now.depth
LoopTop == CHOOSE i \in 1..pc :
             /\ code[i].op = "loop" /\ code[i].depth = Now.depth
             /\ \A j \in i + 1..pc : code[j].op = "loop" => code[j].depth # Now.depth

At(op) == pc \in DOMAIN code /\ Now.op = op

(* The value is moved; a nullable source is zeroed after it.               *)
RunBind ==
  /\ At("bind")
  /\ LET x == Now.x
         y == Now.src
     IN IF y = "alloc"
          THEN /\ Len(heap) < MaxObj
               /\ heap' = Append(heap, "live")
               /\ env' = [env EXCEPT ![x] = Len(heap) + 1]
          ELSE /\ UNCHANGED heap
               /\ env' = IF y = "nil" THEN [env EXCEPT ![x] = 0]
                         ELSE IF y \in nullable THEN [env EXCEPT ![x] = env[y], ![y] = 0]
                         ELSE [env EXCEPT ![x] = env[y]]
  /\ pc' = pc + 1

(* The runtime's free ignores nil.                                         *)
RunFree ==
  /\ At("free")
  /\ LET o == env[Now.x]
     IN heap' = IF o = 0 THEN heap
                ELSE [heap EXCEPT ![o] = IF @ = "live" THEN "freed" ELSE "freed again"]
  /\ env' = IF Now.x \in nullable THEN [env EXCEPT ![Now.x] = 0] ELSE env
  /\ pc' = pc + 1

RunIf ==
  /\ At("if")
  /\ \E taken \in BOOLEAN :
       /\ Now.src = "nil" => taken = (env[Now.x] = 0)
       /\ Now.src = "nonnil" => taken = (env[Now.x] # 0)
       /\ pc' = IF taken THEN pc + 1
                ELSE LET other == Ahead({"else", "endif"})
                     IN IF code[other].op = "else" THEN other + 1 ELSE other
  /\ UNCHANGED <<env, heap>>

RunJump ==
  /\ \/ At("else") /\ pc' = Ahead({"endif"})
     \/ At("break") /\ pc' = Ahead({"endloop"}) + 1
     \/ (At("continue") \/ At("endloop")) /\ pc' = LoopTop
     \/ At("return") /\ pc' = Len(code) + 1
     \/ (At("dispose") \/ At("loop") \/ At("endif") \/ At("end")) /\ pc' = pc + 1
  /\ UNCHANGED <<env, heap>>

Run ==
  /\ RunBind \/ RunFree \/ RunIf \/ RunJump
  /\ UNCHANGED <<nullable, params, code, facts, used, frames>>

-----------------------------------------------------------------------------
NoFacts == [moved |-> {}, null |-> {}, nonnull |-> {}, reg |-> {}, dead |-> {},
            ptr |-> [x \in Binding |-> {}]]

Init ==
  /\ nullable \in NullableSets /\ params \in ParamSets
  /\ code = <<>> /\ used = {}
  /\ facts = [NoFacts EXCEPT !.ptr = [x \in Binding |-> params \cap {x}]]
  /\ frames = <<Frame("body", "opaque", "none", facts)>>
  /\ pc = 0 /\ env = [x \in Binding |-> 0] /\ heap = <<>>

Next == Compile \/ EndFunction \/ Run

Spec == Init /\ [][Next]_vars

-----------------------------------------------------------------------------
(* Correctness.                                                            *)

Running == pc \in DOMAIN code
Returned == pc > Len(code)
Uses(op) == \E i \in DOMAIN code : code[i].op = op

(* The types of the checker's and the machine's state; only a registered   *)
(* origin is dead, and nothing is known both nil and not nil.              *)
TypeOK ==
  /\ nullable \subseteq Binding /\ params \subseteq Binding /\ used \subseteq Binding
  /\ facts \in [moved : SUBSET Binding, null : SUBSET Binding, nonnull : SUBSET Binding,
                 reg : SUBSET Binding, dead : SUBSET facts.reg,
                 ptr : [Binding -> SUBSET Binding]]
  /\ facts.null \cap facts.nonnull = {}
  /\ Len(code) <= MaxLen /\ Len(heap) <= MaxObj
  /\ heap \in Seq({"live", "freed", "freed again"})
  /\ env \in [Binding -> 0..Len(heap)]
  /\ pc \in 0..Len(code) + 1

(* A program the checker accepted never frees an object twice, whatever    *)
(* way its branches and loops go.                                          *)
FreedOnce == \A i \in DOMAIN heap : heap[i] # "freed again"

(* Wherever a run is, a binding the checker counts as not moved there      *)
(* holds nil or an object that has not been freed and that no other such   *)
(* binding holds.                                                          *)
OwnersHold ==
  Running =>
    LET owners == {x \in Now.bound \ Now.facts.moved : env[x] # 0}
    IN /\ \A x \in owners : heap[env[x]] = "live"
       /\ \A x, y \in owners : env[x] = env[y] => x = y

(* Without nullable bindings, loops and dispose, a run that returns has    *)
(* freed everything it was given or allocated.                             *)
NothingLost ==
  Returned /\ nullable = {} /\ ~Uses("loop") /\ ~Uses("dispose")
    => \A i \in DOMAIN heap : heap[i] # "live"

(* Without loops, a binding known to be nil or not nil at a point of the   *)
(* program is so in every run that gets there.                             *)
NullFactsHold ==
  Running /\ ~Uses("loop") =>
    /\ \A x \in Now.bound \cap Now.facts.null : env[x] = 0
    /\ \A x \in Now.bound \cap Now.facts.nonnull : env[x] # 0

(* DESIGN.md on ownership: "Every path through a function must either      *)
(* consume every owned obligation or pass it to a function that will".     *)
(* Block looks at what its scope owns only where control falls out of it:  *)
(* what a break or continue leaves behind is lost.                         *)
PathsConsume ==
  Returned /\ nullable = {} /\ ~Uses("dispose") => \A i \in DOMAIN heap : heap[i] # "live"

(* DESIGN.md on nullable pointers: they "require a proof or assertion      *)
(* before non-null use".  A loop's body is compiled with the facts from    *)
(* before the loop, and the backedges are compared in what is owned, not   *)
(* in what is known of nil: the proof that the body uses may be false in   *)
(* the next iteration.                                                     *)
ProofsHold == Running => \A x \in (Now.bound \cap Now.facts.nonnull) \ Now.facts.moved : env[x] # 0

=============================================================================
