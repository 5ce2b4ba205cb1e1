---------------------------- MODULE AliasEngine ----------------------------
(***************************************************************************)
(* The return-alias engine of the compiler (cmd/bosc/retalias_engine.go):  *)
(* which parameters of a function its result may alias.  A summary is      *)
(* computed on demand by analysing the function's body, which demands the  *)
(* summaries of the functions it calls; around a recursive cycle the       *)
(* engine iterates on provisional summaries.  An activation of aliasSet is *)
(* a frame of `stack'.                                                     *)
(*                                                                         *)
(* A body is abstracted to the parameters it returns itself and the calls  *)
(* whose result it returns, in order; a call passes some of the caller's   *)
(* parameters on (its wiring).  A summary has one return slot: the engine  *)
(* treats slots pointwise.                                                 *)
(***************************************************************************)
EXTENDS Naturals, Sequences, FiniteSets

CONSTANTS
  Func,        \* functions of the compilation unit
  Param,       \* parameter indices
  Programs,    \* the programs to compile: [own, calls] for every function
  MaxDemands   \* bound: demands by the code generator

Wiring == [Param -> SUBSET Param]   \* which of its parameters the caller passes as each

ASSUME AliasConstants ==
  /\ MaxDemands \in Nat /\ IsFiniteSet(Param)
  /\ Programs \subseteq [own : [Func -> SUBSET Param],
                         calls : [Func -> Seq([to : Func, as : Wiring])]]

VARIABLES
  prog,         \* the program being compiled
  computed,     \* functions with AliasesComputed
  summary,      \* ReturnAliases
  provisional,  \* aliasProvisional, where there is an entry
  stack,        \* activations of aliasSet, with their frames of aliasDepStack
  answers       \* what the code generator was told: function and set

vars == <<prog, computed, summary, provisional, stack, answers>>

Top == stack[Len(stack)]
InProgress == {stack[i].f : i \in DOMAIN stack}
Through(wiring, S) == UNION {wiring[p] : p \in S}

(* An analysis of f that has not visited a call yet.                       *)
Frame(f, iter) == [f |-> f, next |-> 1, res |-> prog.own[f], deps |-> {}, iter |-> iter]

Calls == prog.calls[Top.f]
AtCall == stack # <<>> /\ Top.next <= Len(Calls)
Callee == Calls[Top.next].to

(* The frames below after the activation above them returned v.            *)
Resume(frames, v) ==
  LET n == Len(frames)
      call == prog.calls[frames[n].f][frames[n].next]
  IN [frames EXCEPT ![n].res = @ \cup Through(call.as, v), ![n].next = @ + 1]

AddDeps(frames, D) == [i \in DOMAIN frames |-> [frames[i] EXCEPT !.deps = @ \cup D]]

(* The code generator asks, or is told at once what is already known.      *)
Demand(f) ==
  /\ stack = <<>> /\ Len(answers) < MaxDemands
  /\ IF f \in computed
     THEN answers' = Append(answers, [f |-> f, set |-> summary[f]]) /\ UNCHANGED stack
     ELSE stack' = <<Frame(f, 1)>> /\ UNCHANGED answers
  /\ UNCHANGED <<prog, computed, summary, provisional>>

(* The body under analysis calls a function that has its summary ...       *)
Memoized ==
  /\ AtCall /\ Callee \in computed
  /\ stack' = Resume(stack, summary[Callee])
  /\ UNCHANGED <<prog, computed, summary, provisional, answers>>

(* ... or one that is being analysed: its provisional summary is used, and *)
(* every analysis under way depends on it ...                              *)
Reentry ==
  /\ AtCall /\ Callee \notin computed /\ Callee \in InProgress
  /\ stack' = Resume(AddDeps(stack, {Callee}),
                     IF Callee \in DOMAIN provisional THEN provisional[Callee] ELSE {})
  /\ UNCHANGED <<prog, computed, summary, provisional, answers>>

(* ... or one that is analysed now.                                        *)
Enter ==
  /\ AtCall /\ Callee \notin computed /\ Callee \notin InProgress
  /\ stack' = Append(stack, Frame(Callee, 1))
  /\ UNCHANGED <<prog, computed, summary, provisional, answers>>

-----------------------------------------------------------------------------
Analysed == stack # <<>> /\ Top.next > Len(Calls)
Below == SubSeq(stack, 1, Len(stack) - 1)

Pending == Top.deps \ computed
SelfDep == Top.f \in Top.deps

(* Mutant of OthersPending: what the enclosing analyses still owe is       *)
(* forgotten.                                                              *)
NoOthers == Pending \ {Top.f} # Pending \ {Top.f}

OthersPending == Pending \ {Top.f} # {}

(* The caller's result rests on what is still provisional.                 *)
Propagate(frames) ==
  IF frames = <<>> THEN frames
  ELSE [frames EXCEPT ![Len(frames)].deps = @ \cup Pending]

Return(v) ==
  LET frames == Propagate(Below)
  IN IF frames = <<>>
     THEN stack' = <<>> /\ answers' = Append(answers, [f |-> Top.f, set |-> v])
     ELSE stack' = Resume(frames, v) /\ UNCHANGED answers

Drop(f) == [g \in DOMAIN provisional \ {f} |-> provisional[g]]

Memoize(v) ==
  /\ computed' = computed \cup {Top.f} /\ summary' = [summary EXCEPT ![Top.f] = v]
  /\ provisional' = Drop(Top.f)

(* The result rests on final summaries only.                               *)
Final ==
  /\ Analysed /\ ~SelfDep /\ ~OthersPending
  /\ Memoize(Top.res) /\ Return(Top.res) /\ UNCHANGED prog

Union ==
  Top.res \cup (IF Top.f \in DOMAIN provisional THEN provisional[Top.f] ELSE {})

(* Mutant of Stable: an empty summary never equals an empty summary.       *)
EmptyUnstable == Top.f \in DOMAIN provisional /\ provisional[Top.f] = Union /\ Union # {}

(* No entry differs from every set: unionAliases makes one slot of none.   *)
Stable == Top.f \in DOMAIN provisional /\ provisional[Top.f] = Union

Grow ==
  /\ Analysed /\ (SelfDep \/ OthersPending) /\ ~Stable
  /\ provisional' =
       [g \in DOMAIN provisional \cup {Top.f} |-> IF g = Top.f THEN Union ELSE provisional[g]]
  /\ stack' = Append(Propagate(Below), Frame(Top.f, Top.iter + 1))
  /\ UNCHANGED <<prog, computed, summary, answers>>

(* The cycle through the function itself has converged.                    *)
Converged ==
  /\ Analysed /\ SelfDep /\ ~OthersPending /\ Stable
  /\ Memoize(Union) /\ Return(Union) /\ UNCHANGED prog

(* An enclosing analysis iterates on: the provisional summary is left.     *)
Leave ==
  /\ Analysed /\ OthersPending /\ Stable
  /\ Return(Top.res) /\ UNCHANGED <<prog, computed, summary, provisional>>

Init ==
  /\ prog \in Programs
  /\ computed = {} /\ summary = [f \in Func |-> {}]
  /\ provisional = [f \in {} |-> {}] /\ stack = <<>> /\ answers = <<>>

Next ==
  \/ \E f \in Func : Demand(f)
  \/ Memoized \/ Reentry \/ Enter
  \/ Final \/ Grow \/ Converged \/ Leave

Spec == Init /\ [][Next]_vars

-----------------------------------------------------------------------------
(* What a summary means: it holds what the body returns itself and what    *)
(* the calls return according to their own summaries, and nothing else.    *)
Closed(S) ==
  \A f \in Func :
    /\ prog.own[f] \subseteq S[f]
    /\ \A i \in DOMAIN prog.calls[f] :
         Through(prog.calls[f][i].as, S[prog.calls[f][i].to]) \subseteq S[f]

LeastSummary(f) ==
  {p \in Param : \A S \in [Func -> SUBSET Param] : Closed(S) => p \in S[f]}

(* Summaries are exact: no alias is missing and none is made up, neither   *)
(* in a summary memoized in the middle of another function's iteration nor *)
(* in an answer to the code generator that was not memoized.               *)
SummariesExact ==
  /\ \A f \in computed : summary[f] = LeastSummary(f)
  /\ \A i \in DOMAIN answers : answers[i].set = LeastSummary(answers[i].f)

(* The iteration ends: no activation is analysed more often than the       *)
(* lattice is high, and no function is on the stack twice.                 *)
IterationsBounded ==
  /\ \A i \in DOMAIN stack : stack[i].iter <= Cardinality(Param) + 2
  /\ Cardinality(InProgress) = Len(stack)
============================================================================
