------------------------- MODULE AliasEngine_proofs -------------------------
(***************************************************************************)
(* The return-alias engine computes the least fixed point, for every       *)
(* program: whatever the functions, their recursion and the order in which *)
(* summaries are demanded, a summary it memoizes and an answer it gives    *)
(* are exact, although it iterates each cycle where it meets it and uses   *)
(* provisional summaries of the analyses that are under way.               *)
(*                                                                         *)
(* Nothing is made up because every set is below the fixed point.  That    *)
(* nothing is missing is the harder half.  While f is being analysed, a    *)
(* call may have been given only what was guessed so far of a function h   *)
(* on the stack; the engine records h as a dependency.  So what f has is   *)
(* compared with a smaller fixed point, Least(q, G, Y): the one in which   *)
(* the functions of Y, the dependencies on the stack, contribute no more   *)
(* than their guess G.  It shrinks as Y grows, which is why a dependency   *)
(* may be added at any time.  When the analysis of f is stable, its guess  *)
(* restricts nothing any more and f leaves Y; an analysis with no other    *)
(* dependency is then compared with the fixed point itself.                *)
(***************************************************************************)
EXTENDS AliasEngine, TLAPS, FiniteSetTheorems, SequenceTheorems

Sums == [Func -> SUBSET Param]
Program == [own : Sums, calls : [Func -> Seq([to : Func, as : Wiring])]]
FrameType == [f : Func, next : Nat \ {0}, res : SUBSET Param, deps : SUBSET Func, iter : Nat \ {0}]
Answer == [f : Func, set : SUBSET Param]

(* What f returns when its callees return S.                               *)
Step(q, S, f) ==
  q.own[f] \cup UNION {Through(q.calls[f][i].as, S[q.calls[f][i].to]) : i \in DOMAIN q.calls[f]}

(* S has what each function returns; of those in Y, as far as G has it.    *)
Met(q, G, S, Y) ==
  \A f \in Func : IF f \in Y THEN Step(q, S, f) \cap G[f] \subseteq S[f]
                  ELSE Step(q, S, f) \subseteq S[f]
Least(q, G, Y) ==
  [f \in Func |-> {p \in Param : \A S \in Sums : Met(q, G, S, Y) => p \in S[f]}]

Nothing == [f \in Func |-> {}]
Exact(q) == Least(q, Nothing, {})

-----------------------------------------------------------------------------
(* Frame n of the stack st, with guesses G.                                *)
Guess(pv) == [f \in Func |-> IF f \in DOMAIN pv THEN pv[f] ELSE {}]
Pins(st, n) == st[n].deps \cap {st[j].f : j \in 1 .. n}
CallOf(q, fr, i) == q.calls[fr.f][i]

(* It has what the calls visited so far return at least.                   *)
Low(q, G, st, n) ==
  /\ q.own[st[n].f] \subseteq st[n].res
  /\ \A i \in 1 .. st[n].next - 1 :
       Through(CallOf(q, st[n], i).as, Least(q, G, Pins(st, n))[CallOf(q, st[n], i).to])
         \subseteq st[n].res

FrameOK(q, G, st, n) ==
  /\ st[n].next <= Len(q.calls[st[n].f]) + 1
  /\ st[n].res \subseteq Exact(q)[st[n].f]
  /\ Low(q, G, st, n)

(* A frame below the top is at the call that the frame above analyses.     *)
Chain(q, st) ==
  \A n \in 1 .. Len(st) - 1 :
    /\ st[n].next <= Len(q.calls[st[n].f])
    /\ CallOf(q, st[n], st[n].next).to = st[n + 1].f
Distinct(st) == \A i, j \in 1 .. Len(st) : st[i].f = st[j].f => i = j

(* Each iteration but the first has enlarged the guess.                    *)
Grown(pv, fr) ==
  fr.iter >= 2 => fr.f \in DOMAIN pv /\ fr.iter <= Cardinality(pv[fr.f]) + 2

Stacked(q, C, pv, st) ==
  /\ st \in Seq(FrameType) /\ Distinct(st) /\ Chain(q, st)
  /\ \A n \in 1 .. Len(st) :
       st[n].f \notin C /\ FrameOK(q, Guess(pv), st, n) /\ Grown(pv, st[n])

Guessed(q, pv) ==
  DOMAIN pv \subseteq Func /\ \A f \in DOMAIN pv : pv[f] \subseteq Exact(q)[f]

Answered(q, as) ==
  as \in Seq(Answer) /\ \A i \in DOMAIN as : as[i].set = Exact(q)[as[i].f]

AliasInv ==
  /\ prog \in Program
  /\ computed \subseteq Func /\ summary \in Sums
  /\ \A f \in computed : summary[f] = Exact(prog)[f]
  /\ Guessed(prog, provisional)
  /\ Stacked(prog, computed, provisional, stack)
  /\ Answered(prog, answers)

-----------------------------------------------------------------------------
(* The fixed points.                                                       *)
LEMMA ProgramFacts ==
  ASSUME NEW q \in Program, NEW f \in Func
  PROVE  /\ q.own[f] \subseteq Param
         /\ Len(q.calls[f]) \in Nat /\ DOMAIN q.calls[f] = 1 .. Len(q.calls[f])
         /\ \A i \in DOMAIN q.calls[f] : q.calls[f][i].to \in Func /\ q.calls[f][i].as \in Wiring
  <1>1. q.own \in Sums /\ q.calls \in [Func -> Seq([to : Func, as : Wiring])]  BY DEF Program
  <1>2. q.own[f] \subseteq Param  BY <1>1 DEF Sums
  <1>3. q.calls[f] \in Seq([to : Func, as : Wiring])  BY <1>1
  <1>4. PICK cs \in Seq([to : Func, as : Wiring]) : cs = q.calls[f]  BY <1>3
  <1>5. Len(cs) \in Nat /\ DOMAIN cs = 1 .. Len(cs)  BY LenProperties
  <1>6. \A i \in 1 .. Len(cs) : cs[i] \in [to : Func, as : Wiring]  BY ElementOfSeq
  <1>7. \A i \in DOMAIN cs : cs[i].to \in Func /\ cs[i].as \in Wiring  BY <1>5, <1>6
  <1> QED  BY <1>2, <1>4, <1>5, <1>7

LEMMA ThroughMono ==
  ASSUME NEW w, NEW S, NEW T, S \subseteq T
  PROVE  Through(w, S) \subseteq Through(w, T)
  BY DEF Through

LEMMA ThroughType ==
  ASSUME NEW w \in Wiring, NEW S, S \subseteq Param
  PROVE  Through(w, S) \subseteq Param
  BY DEF Through, Wiring

LEMMA StepMono ==
  ASSUME NEW q \in Program, NEW S \in Sums, NEW T \in Sums, \A f \in Func : S[f] \subseteq T[f],
         NEW f \in Func
  PROVE  Step(q, S, f) \subseteq Step(q, T, f) /\ Step(q, S, f) \subseteq Param
  <1>1. \A i \in DOMAIN q.calls[f] :
          /\ Through(q.calls[f][i].as, S[q.calls[f][i].to]) \subseteq
             Through(q.calls[f][i].as, T[q.calls[f][i].to])
          /\ Through(q.calls[f][i].as, S[q.calls[f][i].to]) \subseteq Param
    <2> SUFFICES ASSUME NEW i \in DOMAIN q.calls[f]
                 PROVE  /\ Through(q.calls[f][i].as, S[q.calls[f][i].to]) \subseteq
                           Through(q.calls[f][i].as, T[q.calls[f][i].to])
                        /\ Through(q.calls[f][i].as, S[q.calls[f][i].to]) \subseteq Param
      OBVIOUS
    <2>1. PICK w, g : w = q.calls[f][i].as /\ g = q.calls[f][i].to  OBVIOUS
    <2>2. w \in Wiring /\ g \in Func  BY <2>1, ProgramFacts
    <2>3. S[g] \subseteq T[g] /\ S[g] \subseteq Param  BY <2>2 DEF Sums
    <2> QED  BY <2>1, <2>2, <2>3, ThroughMono, ThroughType
  <1>2. q.own[f] \subseteq Param  BY ProgramFacts
  <1> QED  BY <1>1, <1>2 DEF Step

LEMMA LeastType ==
  ASSUME NEW q, NEW G, NEW Y
  PROVE  Least(q, G, Y) \in Sums
  BY DEF Least, Sums

LEMMA LeastLeast ==
  ASSUME NEW q, NEW G, NEW Y, NEW S \in Sums, Met(q, G, S, Y), NEW f \in Func
  PROVE  Least(q, G, Y)[f] \subseteq S[f]
  BY DEF Least

LEMMA LeastMet ==
  ASSUME NEW q \in Program, NEW G, NEW Y
  PROVE  Met(q, G, Least(q, G, Y), Y)
  <1>1. PICK L \in Sums : L = Least(q, G, Y)  BY LeastType
  <1>2. \A S \in Sums : Met(q, G, S, Y) => \A f \in Func : L[f] \subseteq S[f]
    BY <1>1, LeastLeast
  <1>3. SUFFICES ASSUME NEW f \in Func, NEW p \in Step(q, L, f), f \in Y => p \in G[f]
                 PROVE  p \in L[f]
    BY <1>1 DEF Met
  <1>4. p \in Param  BY StepMono
  <1>5. ASSUME NEW S \in Sums, Met(q, G, S, Y) PROVE p \in S[f]
    <2>1. p \in Step(q, S, f)  BY <1>2, <1>5, StepMono
    <2> QED  BY <1>3, <1>5, <2>1 DEF Met
  <1> QED  BY <1>1, <1>4, <1>5 DEF Least

(* It holds nothing that is not derived, and of Y nothing not guessed.     *)
LEMMA LeastBelow ==
  ASSUME NEW q \in Program, NEW G, NEW Y, NEW f \in Func
  PROVE  /\ Least(q, G, Y)[f] \subseteq Step(q, Least(q, G, Y), f)
         /\ f \in Y => Least(q, G, Y)[f] \subseteq G[f]
  <1>1. PICK L \in Sums : L = Least(q, G, Y)  BY LeastType
  <1>2. PICK N : N = Step(q, L, f) \cap (IF f \in Y THEN G[f] ELSE Param)  OBVIOUS
  <1>3. Step(q, L, f) \subseteq Param  BY StepMono
  <1>4. Met(q, G, L, Y)  BY <1>1, LeastMet
  <1>5. N \subseteq L[f]  BY <1>2, <1>3, <1>4 DEF Met
  <1>6. PICK S : S = [g \in Func |-> IF g = f THEN N ELSE L[g]]  OBVIOUS
  <1>7. S \in Sums /\ \A g \in Func : S[g] \subseteq L[g]  BY <1>2, <1>3, <1>5, <1>6 DEF Sums
  <1>8. \A g \in Func : Step(q, S, g) \subseteq Step(q, L, g)  BY <1>7, StepMono
  <1>9. Met(q, G, S, Y)
    <2> SUFFICES ASSUME NEW g \in Func, NEW p \in Step(q, S, g), g \in Y => p \in G[g]
                 PROVE  p \in S[g]
      BY DEF Met
    <2>1. p \in Step(q, L, g)  BY <1>8
    <2>2. CASE g = f  BY <1>2, <1>3, <1>6, <2>1, <2>2
    <2>3. CASE g # f
      <3>1. p \in L[g]  BY <1>4, <2>1 DEF Met
      <3> QED  BY <1>6, <2>3, <3>1
    <2> QED  BY <2>2, <2>3
  <1>10. L[f] \subseteq S[f]  BY <1>1, <1>7, <1>9, LeastLeast
  <1>11. S[f] = N  BY <1>6
  <1> QED  BY <1>1, <1>2, <1>10, <1>11

(* More functions held to their guess: a smaller fixed point.  The guesses *)
(* of the others do not matter.                                            *)
LEMMA LeastShrinks ==
  ASSUME NEW q \in Program, NEW G, NEW H, NEW Y, NEW Z, Y \subseteq Z,
         \A f \in Y : G[f] = H[f], NEW f \in Func
  PROVE  Least(q, H, Z)[f] \subseteq Least(q, G, Y)[f]
  <1>1. PICK L \in Sums : L = Least(q, G, Y)  BY LeastType
  <1>2. Met(q, G, L, Y)  BY <1>1, LeastMet
  <1>3. Met(q, H, L, Z)  BY <1>2 DEF Met
  <1> QED  BY <1>1, <1>3, LeastLeast

(* Through a call, the fixed point of the caller has that of the callee.   *)
LEMMA StepHas ==
  ASSUME NEW q \in Program, NEW G, NEW Y, NEW f \in Func, f \notin Y, NEW i \in DOMAIN q.calls[f]
  PROVE  /\ Through(q.calls[f][i].as, Least(q, G, Y)[q.calls[f][i].to]) \subseteq Least(q, G, Y)[f]
         /\ q.own[f] \subseteq Least(q, G, Y)[f]
  <1>1. Met(q, G, Least(q, G, Y), Y)  BY LeastMet
  <1> QED  BY <1>1 DEF Met, Step

LEMMA OwnHas ==
  ASSUME NEW q \in Program, NEW f \in Func
  PROVE  q.own[f] \subseteq Exact(q)[f]
  <1>1. Met(q, Nothing, Exact(q), {})  BY LeastMet DEF Exact
  <1> QED  BY <1>1 DEF Met, Step

LEMMA ExactHas ==
  ASSUME NEW q \in Program, NEW f \in Func, NEW i \in DOMAIN q.calls[f],
         NEW v, v \subseteq Exact(q)[q.calls[f][i].to]
  PROVE  Through(q.calls[f][i].as, v) \subseteq Exact(q)[f]
  <1>1. Through(q.calls[f][i].as, v) \subseteq Through(q.calls[f][i].as, Exact(q)[q.calls[f][i].to])
    BY ThroughMono
  <1>2. Through(q.calls[f][i].as, Exact(q)[q.calls[f][i].to]) \subseteq Exact(q)[f]
    <2>1. f \notin {}  OBVIOUS
    <2> QED  BY <2>1, StepHas DEF Exact
  <1> QED  BY <1>1, <1>2

LEMMA LeastUnderExact ==
  ASSUME NEW q \in Program, NEW G, NEW Y, NEW f \in Func
  PROVE  Least(q, G, Y)[f] \subseteq Exact(q)[f]
  BY LeastShrinks DEF Exact

LEMMA ExactAny ==
  ASSUME NEW q \in Program, NEW G, NEW f \in Func
  PROVE  Least(q, G, {})[f] = Exact(q)[f]
  <1>1. Least(q, G, {})[f] \subseteq Exact(q)[f]  BY LeastUnderExact
  <1>2. Exact(q)[f] \subseteq Least(q, G, {})[f]  BY LeastShrinks DEF Exact
  <1> QED  BY <1>1, <1>2

(* The fixed point of the proofs is the one of the property.               *)
LEMMA ExactIsLeast ==
  ASSUME prog \in Program, NEW f \in Func
  PROVE  Exact(prog)[f] = LeastSummary(f)
  <1>1. \A S \in Sums : Met(prog, Nothing, S, {}) <=> Closed(S)
    BY DEF Met, Step, Closed
  <1> QED  BY <1>1 DEF Exact, Least, LeastSummary, Sums

-----------------------------------------------------------------------------
(* The stack: dependencies added, frames popped; one frame further; one    *)
(* frame more.                                                             *)
Same(pv, pw, f) == (f \in DOMAIN pv <=> f \in DOMAIN pw) /\ (f \in DOMAIN pv => pv[f] = pw[f])

Kept(st, tt) ==
  /\ tt \in Seq(FrameType) /\ Len(tt) <= Len(st)
  /\ \A i \in 1 .. Len(tt) :
       /\ tt[i].f = st[i].f /\ tt[i].next = st[i].next /\ tt[i].res = st[i].res
       /\ tt[i].iter = st[i].iter /\ st[i].deps \subseteq tt[i].deps

LEMMA FrameFacts ==
  ASSUME NEW st \in Seq(FrameType), NEW n \in 1 .. Len(st)
  PROVE  /\ st[n] \in FrameType
         /\ st[n].f \in Func /\ st[n].next \in Nat \ {0} /\ st[n].res \subseteq Param
         /\ st[n].deps \subseteq Func /\ st[n].iter \in Nat \ {0}
  <1>1. st[n] \in FrameType  BY ElementOfSeq
  <1> QED  BY <1>1 DEF FrameType

LEMMA CallFacts ==
  ASSUME NEW q \in Program, NEW fr \in FrameType, NEW i \in 1 .. Len(q.calls[fr.f])
  PROVE  CallOf(q, fr, i).to \in Func /\ CallOf(q, fr, i).as \in Wiring
  <1>1. fr.f \in Func  BY DEF FrameType
  <1> QED  BY <1>1, ProgramFacts DEF CallOf

LEMMA KeptLow ==
  ASSUME NEW q \in Program, NEW pv, NEW pw, NEW st \in Seq(FrameType), NEW tt, Kept(st, tt),
         NEW n \in 1 .. Len(tt), \A i \in 1 .. Len(tt) : Same(pv, pw, st[i].f),
         FrameOK(q, Guess(pv), st, n)
  PROVE  FrameOK(q, Guess(pw), tt, n)
  <1>1. PICK G, H : G = Guess(pv) /\ H = Guess(pw)  OBVIOUS
  <1>2. PICK Y, Z : Y = Pins(st, n) /\ Z = Pins(tt, n)  OBVIOUS
  <1>3. tt \in Seq(FrameType) /\ Len(tt) \in Nat /\ Len(st) \in Nat /\ Len(tt) <= Len(st)
    BY LenProperties DEF Kept
  <1>4. /\ tt[n].f = st[n].f /\ tt[n].next = st[n].next /\ tt[n].res = st[n].res
        /\ st[n].deps \subseteq tt[n].deps
    BY DEF Kept
  <1>5. \A j \in 1 .. n : j \in 1 .. Len(tt) /\ tt[j].f = st[j].f  BY <1>3 DEF Kept
  <1>6. Y \subseteq Z  BY <1>2, <1>4, <1>5 DEF Pins
  <1>7. \A f \in Y : G[f] = H[f]
    <2> SUFFICES ASSUME NEW f \in Y PROVE G[f] = H[f]  OBVIOUS
    <2>1. PICK j \in 1 .. n : f = st[j].f  BY <1>2 DEF Pins
    <2>2. f \in Func  BY <1>3, <1>5, <2>1, FrameFacts
    <2>3. Same(pv, pw, f)  BY <1>5, <2>1
    <2> QED  BY <1>1, <2>2, <2>3 DEF Guess, Same
  <1>8. \A f \in Func : Least(q, H, Z)[f] \subseteq Least(q, G, Y)[f]
    BY <1>6, <1>7, LeastShrinks
  <1>9. n \in 1 .. Len(st)  BY <1>3
  <1>10. st[n] \in FrameType /\ st[n].next \in Nat \ {0} /\ st[n].f \in Func  BY <1>9, FrameFacts
  <1>11. Len(q.calls[st[n].f]) \in Nat  BY <1>10, ProgramFacts
  <1>12. st[n].next <= Len(q.calls[st[n].f]) + 1  BY DEF FrameOK
  <1>13. ASSUME NEW i \in 1 .. tt[n].next - 1
         PROVE  Through(CallOf(q, tt[n], i).as, Least(q, H, Z)[CallOf(q, tt[n], i).to])
                  \subseteq tt[n].res
    <2>1. i \in 1 .. st[n].next - 1 /\ i \in 1 .. Len(q.calls[st[n].f])
      BY <1>4, <1>10, <1>11, <1>12
    <2>2. PICK w, c : w = CallOf(q, st[n], i).as /\ c = CallOf(q, st[n], i).to  OBVIOUS
    <2>3. c \in Func  BY <1>10, <2>1, <2>2, CallFacts
    <2>4. Through(w, Least(q, G, Y)[c]) \subseteq st[n].res
      BY <1>1, <1>2, <2>1, <2>2 DEF FrameOK, Low
    <2>5. Through(w, Least(q, H, Z)[c]) \subseteq Through(w, Least(q, G, Y)[c])
      BY <1>8, <2>3, ThroughMono
    <2>6. CallOf(q, tt[n], i) = CallOf(q, st[n], i)  BY <1>4 DEF CallOf
    <2> QED  BY <1>4, <2>2, <2>4, <2>5, <2>6
  <1>14. q.own[tt[n].f] \subseteq tt[n].res  BY <1>4 DEF FrameOK, Low
  <1>15. Low(q, H, tt, n)  BY <1>2, <1>13, <1>14 DEF Low
  <1>16. tt[n].res \subseteq Exact(q)[tt[n].f]  BY <1>4 DEF FrameOK
  <1> QED  BY <1>1, <1>4, <1>12, <1>15, <1>16 DEF FrameOK

LEMMA KeptStacked ==
  ASSUME NEW q \in Program, NEW C, NEW D, NEW pv, NEW pw, NEW st, NEW tt,
         Stacked(q, C, pv, st), Kept(st, tt),
         \A i \in 1 .. Len(tt) : Same(pv, pw, st[i].f) /\ st[i].f \notin D
  PROVE  Stacked(q, D, pw, tt)
  <1>1. tt \in Seq(FrameType) /\ st \in Seq(FrameType) /\ Len(tt) \in Nat /\ Len(st) \in Nat
        /\ Len(tt) <= Len(st)
    BY LenProperties DEF Kept, Stacked
  <1>2. \A i \in 1 .. Len(tt) :
          /\ i \in 1 .. Len(st) /\ tt[i].f = st[i].f /\ tt[i].next = st[i].next
          /\ tt[i].iter = st[i].iter
    BY <1>1 DEF Kept
  <1>3. Distinct(tt)
    <2>1. Distinct(st)  BY DEF Stacked
    <2> QED  BY <1>2, <2>1 DEF Distinct
  <1>4. Chain(q, tt)
    <2>1. Chain(q, st)  BY DEF Stacked
    <2> SUFFICES ASSUME NEW n \in 1 .. Len(tt) - 1
                 PROVE  /\ tt[n].next <= Len(q.calls[tt[n].f])
                        /\ CallOf(q, tt[n], tt[n].next).to = tt[n + 1].f
      BY DEF Chain
    <2>2. n \in 1 .. Len(st) - 1 /\ n \in 1 .. Len(tt) /\ n + 1 \in 1 .. Len(tt)  BY <1>1
    <2>3. /\ st[n].next <= Len(q.calls[st[n].f])
          /\ CallOf(q, st[n], st[n].next).to = st[n + 1].f
      BY <2>1, <2>2 DEF Chain
    <2>4. tt[n].f = st[n].f /\ tt[n].next = st[n].next /\ tt[n + 1].f = st[n + 1].f
      BY <1>2, <2>2
    <2> QED  BY <2>3, <2>4 DEF CallOf
  <1>5. ASSUME NEW n \in 1 .. Len(tt)
        PROVE  tt[n].f \notin D /\ FrameOK(q, Guess(pw), tt, n) /\ Grown(pw, tt[n])
    <2>1. n \in 1 .. Len(st) /\ tt[n].f = st[n].f /\ tt[n].iter = st[n].iter  BY <1>2
    <2>2. FrameOK(q, Guess(pv), st, n) /\ Grown(pv, st[n])  BY <2>1 DEF Stacked
    <2>3. FrameOK(q, Guess(pw), tt, n)  BY <1>1, <2>2, KeptLow
    <2>4. Same(pv, pw, st[n].f) /\ st[n].f \notin D  OBVIOUS
    <2>5. Grown(pw, tt[n])  BY <2>1, <2>2, <2>4 DEF Grown, Same
    <2> QED  BY <2>1, <2>3, <2>4, <2>5
  <1> QED  BY <1>1, <1>3, <1>4, <1>5 DEF Stacked

LEMMA PushStacked ==
  ASSUME NEW q \in Program, NEW C, NEW pv, NEW st, Stacked(q, C, pv, st),
         NEW fr \in FrameType, fr.next = 1, fr.res = q.own[fr.f], fr.f \notin C, Grown(pv, fr),
         \A n \in 1 .. Len(st) : st[n].f # fr.f,
         Len(st) > 0 => /\ st[Len(st)].next <= Len(q.calls[st[Len(st)].f])
                        /\ CallOf(q, st[Len(st)], st[Len(st)].next).to = fr.f
  PROVE  Stacked(q, C, pv, Append(st, fr))
  <1>1. st \in Seq(FrameType) /\ Len(st) \in Nat  BY LenProperties DEF Stacked
  <1>2. PICK tt : tt = Append(st, fr)  OBVIOUS
  <1>3. tt \in Seq(FrameType) /\ Len(tt) = Len(st) + 1 /\ tt[Len(st) + 1] = fr
        /\ \A n \in 1 .. Len(st) : tt[n] = st[n]
    BY <1>1, <1>2, AppendProperties
  <1>4. Distinct(tt)
    <2>1. Distinct(st)  BY DEF Stacked
    <2> QED  BY <1>1, <1>3, <2>1 DEF Distinct
  <1>5. Chain(q, tt)
    <2>1. Chain(q, st)  BY DEF Stacked
    <2> SUFFICES ASSUME NEW n \in 1 .. Len(tt) - 1
                 PROVE  /\ tt[n].next <= Len(q.calls[tt[n].f])
                        /\ CallOf(q, tt[n], tt[n].next).to = tt[n + 1].f
      BY DEF Chain
    <2>2. n \in 1 .. Len(st) /\ tt[n] = st[n]  BY <1>1, <1>3
    <2>3. CASE n = Len(st)  BY <1>1, <1>3, <2>2, <2>3
    <2>4. CASE n # Len(st)
      <3>1. n \in 1 .. Len(st) - 1 /\ n + 1 \in 1 .. Len(st)  BY <1>1, <2>2, <2>4
      <3> QED  BY <1>3, <2>1, <2>2, <3>1 DEF Chain
    <2> QED  BY <2>3, <2>4
  <1>6. ASSUME NEW n \in 1 .. Len(tt)
        PROVE  tt[n].f \notin C /\ FrameOK(q, Guess(pv), tt, n) /\ Grown(pv, tt[n])
    <2>1. CASE n = Len(st) + 1
      <3>1. tt[n] = fr /\ fr.f \in Func  BY <1>3, <2>1 DEF FrameType
      <3>2. Len(q.calls[fr.f]) \in Nat /\ q.own[fr.f] \subseteq Exact(q)[fr.f]
        BY <3>1, ProgramFacts, OwnHas
      <3>3. 1 .. tt[n].next - 1 = {}  BY <3>1
      <3>4. FrameOK(q, Guess(pv), tt, n)  BY <3>1, <3>2, <3>3 DEF FrameOK, Low
      <3> QED  BY <3>1, <3>4
    <2>2. CASE n # Len(st) + 1
      <3>1. n \in 1 .. Len(st)  BY <1>1, <1>3, <2>2
      <3>2. tt[n] = st[n] /\ \A j \in 1 .. n : tt[j] = st[j]  BY <1>1, <1>3, <3>1
      <3>3. st[n].f \notin C /\ FrameOK(q, Guess(pv), st, n) /\ Grown(pv, st[n])
        BY <3>1 DEF Stacked
      <3>4. Pins(tt, n) = Pins(st, n)  BY <3>2 DEF Pins
      <3>5. FrameOK(q, Guess(pv), tt, n)  BY <3>2, <3>3, <3>4 DEF FrameOK, Low
      <3> QED  BY <3>2, <3>3, <3>5
    <2> QED  BY <2>1, <2>2
  <1> QED  BY <1>2, <1>3, <1>4, <1>5, <1>6 DEF Stacked

LEMMA ResumeShape ==
  ASSUME prog \in Program, NEW st \in Seq(FrameType), Len(st) > 0, NEW v, v \subseteq Param,
         NEW n, n = Len(st), st[n].next <= Len(prog.calls[st[n].f]), NEW tt, tt = Resume(st, v)
  PROVE  /\ tt \in Seq(FrameType) /\ Len(tt) = n
         /\ \A i \in 1 .. n : i # n => tt[i] = st[i]
         /\ tt[n].f = st[n].f /\ tt[n].deps = st[n].deps /\ tt[n].iter = st[n].iter
         /\ tt[n].next = st[n].next + 1
         /\ tt[n].res = st[n].res \cup Through(CallOf(prog, st[n], st[n].next).as, v)
  <1>1. Len(st) \in Nat /\ DOMAIN st = 1 .. n /\ n \in 1 .. Len(st)  BY LenProperties
  <1>2. PICK fr \in FrameType : fr = st[n]  BY <1>1, FrameFacts
  <1>3. fr.next \in Nat \ {0} /\ fr.f \in Func /\ fr.res \subseteq Param  BY <1>2 DEF FrameType
  <1>4. Len(prog.calls[fr.f]) \in Nat  BY <1>3, ProgramFacts
  <1>5. fr.next \in 1 .. Len(prog.calls[fr.f])  BY <1>2, <1>3, <1>4
  <1>6. PICK X : X = Through(CallOf(prog, fr, fr.next).as, v)  OBVIOUS
  <1>7. X \subseteq Param  BY <1>5, <1>6, CallFacts, ThroughType
  <1>8. PICK gr : gr = [fr EXCEPT !.res = @ \cup X, !.next = @ + 1]  OBVIOUS
  <1>9. gr \in FrameType /\ gr.f = fr.f /\ gr.deps = fr.deps /\ gr.iter = fr.iter
        /\ gr.next = fr.next + 1 /\ gr.res = fr.res \cup X
    <2>1. PICK nx, rs : nx = fr.next + 1 /\ rs = fr.res \cup X  OBVIOUS
    <2>2. nx \in Nat \ {0} /\ rs \in SUBSET Param  BY <1>3, <1>7, <2>1
    <2>3. fr.deps \in SUBSET Func /\ fr.iter \in Nat \ {0}  BY DEF FrameType
    <2>4. fr = [f |-> fr.f, next |-> fr.next, res |-> fr.res, deps |-> fr.deps, iter |-> fr.iter]
      BY DEF FrameType
    <2>5. gr = [f |-> fr.f, next |-> nx, res |-> rs, deps |-> fr.deps, iter |-> fr.iter]
      BY <1>8, <2>1, <2>4
    <2> QED  BY <1>3, <2>1, <2>2, <2>3, <2>5 DEF FrameType
  <1>10. tt = [st EXCEPT ![n] = gr]
    BY <1>1, <1>2, <1>6, <1>8 DEF Resume, CallOf
  <1>11. tt \in Seq(FrameType) /\ Len(tt) = Len(st)  BY <1>1, <1>9, <1>10, ExceptSeq
  <1>12. tt[n] = gr /\ \A i \in 1 .. n : i # n => tt[i] = st[i]  BY <1>1, <1>10
  <1> QED  BY <1>2, <1>6, <1>9, <1>11, <1>12

LEMMA ResumeStacked ==
  ASSUME prog \in Program, NEW C, NEW pv, NEW st, Stacked(prog, C, pv, st), Len(st) > 0,
         NEW n, n = Len(st), st[n].next <= Len(prog.calls[st[n].f]),
         NEW c, c = CallOf(prog, st[n], st[n].next).to, NEW v, v \subseteq Exact(prog)[c],
         Least(prog, Guess(pv), Pins(st, n))[c] \subseteq v
  PROVE  Stacked(prog, C, pv, Resume(st, v))
  <1>1. st \in Seq(FrameType) /\ Len(st) \in Nat /\ n \in 1 .. Len(st)
    BY LenProperties DEF Stacked
  <1>2. PICK fr \in FrameType : fr = st[n]  BY <1>1, FrameFacts
  <1>3. fr.next \in Nat \ {0} /\ fr.f \in Func  BY <1>2 DEF FrameType
  <1>4. Len(prog.calls[fr.f]) \in Nat /\ DOMAIN prog.calls[fr.f] = 1 .. Len(prog.calls[fr.f])
    BY <1>3, ProgramFacts
  <1>5. fr.next \in 1 .. Len(prog.calls[fr.f])  BY <1>2, <1>3, <1>4
  <1>6. c \in Func  BY <1>2, <1>5, CallFacts
  <1>7. v \subseteq Param
    <2>1. Exact(prog) \in Sums  BY LeastType DEF Exact
    <2> QED  BY <1>6, <2>1 DEF Sums
  <1>8. PICK tt : tt = Resume(st, v)  OBVIOUS
  <1>9. PICK X : X = Through(CallOf(prog, fr, fr.next).as, v)  OBVIOUS
  <1>10. /\ tt \in Seq(FrameType) /\ Len(tt) = n
         /\ \A i \in 1 .. n : i # n => tt[i] = st[i]
         /\ tt[n].f = fr.f /\ tt[n].deps = fr.deps /\ tt[n].iter = fr.iter
         /\ tt[n].next = fr.next + 1 /\ tt[n].res = fr.res \cup X
    BY <1>1, <1>2, <1>7, <1>8, <1>9, ResumeShape
  <1>11. \A i \in 1 .. n : tt[i].f = st[i].f  BY <1>2, <1>10
  <1>12. Distinct(tt)
    <2>1. Distinct(st)  BY DEF Stacked
    <2> QED  BY <1>10, <1>11, <2>1 DEF Distinct
  <1>13. Chain(prog, tt)
    <2>1. Chain(prog, st)  BY DEF Stacked
    <2> SUFFICES ASSUME NEW m \in 1 .. n - 1
                 PROVE  /\ tt[m].next <= Len(prog.calls[tt[m].f])
                        /\ CallOf(prog, tt[m], tt[m].next).to = tt[m + 1].f
      BY <1>10 DEF Chain
    <2>2. m \in 1 .. n /\ m # n /\ m + 1 \in 1 .. n  BY <1>1
    <2>3. tt[m] = st[m] /\ tt[m + 1].f = st[m + 1].f  BY <1>10, <1>11, <2>2
    <2> QED  BY <2>1, <2>3 DEF Chain
  <1>14. \A m \in 1 .. n : Pins(tt, m) = Pins(st, m)
    <2> SUFFICES ASSUME NEW m \in 1 .. n PROVE Pins(tt, m) = Pins(st, m)  OBVIOUS
    <2>1. tt[m].deps = st[m].deps  BY <1>2, <1>10
    <2>2. \A j \in 1 .. m : tt[j].f = st[j].f  BY <1>1, <1>11
    <2> QED  BY <2>1, <2>2 DEF Pins
  <1>15. ASSUME NEW m \in 1 .. n
         PROVE  tt[m].f \notin C /\ FrameOK(prog, Guess(pv), tt, m) /\ Grown(pv, tt[m])
    <2>1. st[m].f \notin C /\ FrameOK(prog, Guess(pv), st, m) /\ Grown(pv, st[m])
      BY DEF Stacked
    <2>2. tt[m].f \notin C  BY <1>11, <2>1
    <2>3. CASE m # n
      <3>1. tt[m] = st[m] /\ Pins(tt, m) = Pins(st, m)  BY <1>10, <1>14, <2>3
      <3>2. FrameOK(prog, Guess(pv), tt, m)  BY <2>1, <3>1 DEF FrameOK, Low
      <3> QED  BY <2>1, <2>2, <3>1, <3>2
    <2>4. CASE m = n
      <3>1. PICK L : L = Least(prog, Guess(pv), Pins(tt, n))  OBVIOUS
      <3>2. L[c] \subseteq v /\ L = Least(prog, Guess(pv), Pins(st, n))  BY <1>14, <2>4, <3>1
      <3>3. fr.res \subseteq Exact(prog)[fr.f] /\ prog.own[fr.f] \subseteq fr.res
        BY <1>2, <2>1, <2>4 DEF FrameOK, Low
      <3>4. X \subseteq Exact(prog)[fr.f]
        <4>1. c = prog.calls[fr.f][fr.next].to  BY <1>2 DEF CallOf
        <4> QED  BY <1>3, <1>4, <1>5, <1>9, <4>1, ExactHas DEF CallOf
      <3>5. ASSUME NEW i \in 1 .. tt[n].next - 1
            PROVE  Through(CallOf(prog, tt[n], i).as, L[CallOf(prog, tt[n], i).to])
                     \subseteq tt[n].res
        <4>1. CallOf(prog, tt[n], i) = CallOf(prog, fr, i)  BY <1>10 DEF CallOf
        <4>2. CASE i = fr.next
          <5>1. Through(CallOf(prog, fr, i).as, L[c]) \subseteq X  BY <1>9, <3>2, <4>2, ThroughMono
          <5> QED  BY <1>2, <1>10, <4>1, <4>2, <5>1
        <4>3. CASE i # fr.next
          <5>1. i \in 1 .. fr.next - 1  BY <1>3, <1>10, <4>3
          <5>2. Through(CallOf(prog, fr, i).as, L[CallOf(prog, fr, i).to]) \subseteq fr.res
            BY <1>2, <2>1, <2>4, <3>2, <5>1 DEF FrameOK, Low
          <5> QED  BY <1>10, <4>1, <5>2
        <4> QED  BY <4>2, <4>3
      <3>6. prog.own[tt[n].f] \subseteq tt[n].res  BY <1>10, <3>3
      <3>7. Low(prog, Guess(pv), tt, n)  BY <3>1, <3>5, <3>6 DEF Low
      <3>8. tt[n].res \subseteq Exact(prog)[tt[n].f]  BY <1>10, <3>3, <3>4
      <3>9. tt[n].next <= Len(prog.calls[tt[n].f]) + 1  BY <1>4, <1>5, <1>10
      <3>10. Grown(pv, tt[n])  BY <1>2, <1>10, <2>1, <2>4 DEF Grown
      <3> QED  BY <2>2, <2>4, <3>7, <3>8, <3>9, <3>10 DEF FrameOK
    <2> QED  BY <2>3, <2>4
  <1> QED  BY <1>8, <1>10, <1>12, <1>13, <1>15 DEF Stacked

(* An analysis that is through, of a function nothing is held to below     *)
(* what was found: then its own guess restricts nothing.                   *)
LEMMA ThroughLow ==
  ASSUME NEW q \in Program, NEW G, NEW st \in Seq(FrameType), NEW n \in 1 .. Len(st),
         Low(q, G, st, n), NEW f, f = st[n].f, st[n].next > Len(q.calls[f]),
         f \in st[n].deps => st[n].res \subseteq G[f]
  PROVE  Least(q, G, Pins(st, n) \ {f})[f] \subseteq st[n].res
  <1>1. f \in Func /\ st[n].next \in Nat \ {0}  BY FrameFacts
  <1>2. PICK Y : Y = Pins(st, n)  OBVIOUS
  <1>3. PICK M \in Sums : M = Least(q, G, Y)  BY LeastType
  <1>4. Len(q.calls[f]) \in Nat /\ DOMAIN q.calls[f] = 1 .. Len(q.calls[f])  BY <1>1, ProgramFacts
  <1>5. Step(q, M, f) \subseteq st[n].res
    <2>1. \A i \in DOMAIN q.calls[f] : i \in 1 .. st[n].next - 1  BY <1>1, <1>4
    <2>2. \A i \in DOMAIN q.calls[f] :
            Through(q.calls[f][i].as, M[q.calls[f][i].to]) \subseteq st[n].res
      BY <1>2, <1>3, <2>1 DEF Low, CallOf
    <2>3. q.own[f] \subseteq st[n].res  BY DEF Low
    <2> QED  BY <2>2, <2>3 DEF Step
  <1>6. M[f] \subseteq Step(q, M, f)  BY <1>1, <1>3, LeastBelow
  <1>7. Met(q, G, M, Y)  BY <1>3, LeastMet
  <1>8. f \in Y => st[n].res \subseteq G[f]  BY <1>2 DEF Pins
  <1>9. Met(q, G, M, Y \ {f})
    <2> SUFFICES ASSUME NEW g \in Func, NEW p \in Step(q, M, g), g \in Y \ {f} => p \in G[g]
                 PROVE  p \in M[g]
      BY DEF Met
    <2>1. g \in Y => p \in G[g]  BY <1>5, <1>8
    <2> QED  BY <1>7, <2>1 DEF Met
  <1>10. Least(q, G, Y \ {f})[f] \subseteq M[f]  BY <1>1, <1>9, LeastLeast
  <1> QED  BY <1>2, <1>5, <1>6, <1>10

-----------------------------------------------------------------------------
(* The top of the stack.                                                   *)
LEMMA TopFacts ==
  ASSUME AliasInv, stack # <<>>, NEW n, n = Len(stack)
  PROVE  /\ stack \in Seq(FrameType) /\ n \in Nat \ {0} /\ n \in 1 .. Len(stack)
         /\ Top = stack[n] /\ Top \in FrameType /\ Top.f \in Func
         /\ Top.next \in Nat \ {0} /\ Top.iter \in Nat \ {0} /\ Top.deps \subseteq Func
         /\ Len(Calls) \in Nat /\ Calls = prog.calls[Top.f] /\ Top.f \notin computed
         /\ FrameOK(prog, Guess(provisional), stack, n) /\ Grown(provisional, Top)
  <1>1. stack \in Seq(FrameType) /\ prog \in Program  BY DEF AliasInv, Stacked
  <1>2. n \in Nat \ {0} /\ n \in 1 .. Len(stack)
    <2>1. Len(stack) \in Nat  BY <1>1, LenProperties
    <2>2. Len(stack) # 0  BY <1>1, EmptySeq
    <2> QED  BY <2>1, <2>2
  <1>3. Top = stack[n]  BY DEF Top
  <1>4. Top \in FrameType /\ Top.f \in Func /\ Top.next \in Nat \ {0} /\ Top.iter \in Nat \ {0}
        /\ Top.deps \subseteq Func
    BY <1>1, <1>2, <1>3, FrameFacts
  <1>5. Len(Calls) \in Nat  BY <1>1, <1>4, ProgramFacts DEF Calls
  <1>6. stack[n].f \notin computed /\ FrameOK(prog, Guess(provisional), stack, n)
        /\ Grown(provisional, stack[n])
    BY <1>2 DEF AliasInv, Stacked
  <1> QED  BY <1>1, <1>2, <1>3, <1>4, <1>5, <1>6 DEF Calls

LEMMA InProgressFacts ==
  ASSUME AliasInv
  PROVE  InProgress = {stack[i].f : i \in 1 .. Len(stack)}
  <1>1. stack \in Seq(FrameType)  BY DEF AliasInv, Stacked
  <1> QED  BY <1>1, LenProperties DEF InProgress

LEMMA PropagateKept ==
  ASSUME AliasInv, stack # <<>>, NEW n, n = Len(stack), NEW tt, tt = Propagate(Below)
  PROVE  /\ Kept(stack, tt) /\ Len(tt) = n - 1 /\ (tt = <<>> <=> n = 1)
         /\ n > 1 => Pending \subseteq tt[n - 1].deps
  <1>1. stack \in Seq(FrameType) /\ n \in Nat \ {0} /\ Top.deps \subseteq Func  BY TopFacts
  <1>2. PICK bs : bs = Below  OBVIOUS
  <1>3. bs \in Seq(FrameType) /\ Len(bs) = n - 1 /\ \A i \in 1 .. n - 1 : bs[i] = stack[i]
    <2>1. \A i \in 1 .. n - 1 : stack[i] \in FrameType  BY <1>1, FrameFacts
    <2>2. 1 \in Int /\ n - 1 \in Int  BY <1>1
    <2>3. /\ SubSeq(stack, 1, n - 1) \in Seq(FrameType)
          /\ Len(SubSeq(stack, 1, n - 1)) = IF 1 <= n - 1 THEN n - 1 - 1 + 1 ELSE 0
          /\ \A i \in 1 .. n - 1 - 1 + 1 : SubSeq(stack, 1, n - 1)[i] = stack[1 + i - 1]
      BY <2>1, <2>2, SubSeqProperties
    <2>4. \A i \in 1 .. n - 1 : i \in 1 .. n - 1 - 1 + 1 /\ 1 + i - 1 = i  BY <1>1
    <2> QED  BY <1>1, <1>2, <2>3, <2>4 DEF Below
  <1>4. bs = <<>> <=> n = 1  BY <1>1, <1>3, EmptySeq
  <1>5. CASE n = 1
    <2>1. tt = <<>>  BY <1>2, <1>4, <1>5 DEF Propagate
    <2>2. tt \in Seq(FrameType) /\ Len(tt) = 0  BY <2>1, EmptySeq
    <2> QED  BY <1>5, <2>1, <2>2 DEF Kept
  <1>6. CASE n # 1
    <2>1. PICK m : m = n - 1  OBVIOUS
    <2>2. m \in Nat /\ m \in 1 .. Len(bs) /\ Len(bs) = m /\ bs # <<>>  BY <1>1, <1>3, <1>4, <1>6, <2>1
    <2>3. PICK fr \in FrameType : fr = bs[m]  BY <1>3, <2>2, FrameFacts
    <2>4. PICK gr : gr = [fr EXCEPT !.deps = @ \cup Pending]  OBVIOUS
    <2>5. fr.deps \subseteq Func /\ Pending \subseteq Func  BY <1>1 DEF FrameType, Pending
    <2>6. gr \in FrameType /\ gr.f = fr.f /\ gr.next = fr.next /\ gr.res = fr.res
          /\ gr.iter = fr.iter /\ gr.deps = fr.deps \cup Pending
      BY <2>4, <2>5 DEF FrameType
    <2>7. tt = [bs EXCEPT ![m] = gr]
      <3>1. DOMAIN bs = 1 .. Len(bs)  BY <1>3, LenProperties
      <3> QED  BY <1>2, <2>2, <2>3, <2>4, <3>1 DEF Propagate
    <2>8. tt \in Seq(FrameType) /\ Len(tt) = m
          /\ \A i \in 1 .. Len(bs) : tt[i] = IF i = m THEN gr ELSE bs[i]
      BY <1>3, <2>2, <2>6, <2>7, ExceptSeq
    <2>9. \A i \in 1 .. m : IF i = m THEN tt[i] = gr /\ stack[i] = fr ELSE tt[i] = stack[i]
      BY <1>3, <2>1, <2>2, <2>3, <2>8
    <2>10. Kept(stack, tt)  BY <1>1, <2>1, <2>2, <2>6, <2>8, <2>9 DEF Kept
    <2>11. tt # <<>>  BY <2>2, <2>8, EmptySeq
    <2> QED  BY <1>6, <2>1, <2>2, <2>6, <2>9, <2>8, <2>10, <2>11
  <1> QED  BY <1>5, <1>6

(* A function returns to the analysis that called it.                      *)
LEMMA ReturnInv ==
  ASSUME AliasInv, Analysed, NEW v, v \subseteq Exact(prog)[Top.f],
         Least(prog, Guess(provisional), Pins(stack, Len(stack)) \ {Top.f})[Top.f] \subseteq v,
         Return(v), prog' = prog, computed' \subseteq computed \cup {Top.f},
         \A f \in Func : f # Top.f => Same(provisional, provisional', f)
  PROVE  Stacked(prog', computed', provisional', stack') /\ Answered(prog', answers')
  <1>1. stack # <<>> /\ prog \in Program  BY DEF Analysed, AliasInv
  <1>2. PICK n : n = Len(stack)  OBVIOUS
  <1>3. /\ stack \in Seq(FrameType) /\ n \in Nat \ {0} /\ n \in 1 .. Len(stack)
        /\ Top = stack[n] /\ Top.f \in Func
    BY <1>1, <1>2, TopFacts
  <1>4. PICK c : c = Top.f  OBVIOUS
  <1>5. PICK tt : tt = Propagate(Below)  OBVIOUS
  <1>6. /\ Kept(stack, tt) /\ Len(tt) = n - 1 /\ (tt = <<>> <=> n = 1)
        /\ n > 1 => Pending \subseteq tt[n - 1].deps
    BY <1>1, <1>2, <1>5, PropagateKept
  <1>7. PICK Y : Y = Pins(stack, n) \ {c}  OBVIOUS
  <1>8. Least(prog, Guess(provisional), Y)[c] \subseteq v  BY <1>2, <1>4, <1>7
  <1>9. Stacked(prog, computed, provisional, stack) /\ Answered(prog, answers)  BY DEF AliasInv
  <1>10. CASE n = 1
    <2>1. stack' = <<>> /\ answers' = Append(answers, [f |-> c, set |-> v])
      BY <1>4, <1>5, <1>6, <1>10 DEF Return
    <2>2. Y = {}  BY <1>3, <1>4, <1>7, <1>10 DEF Pins
    <2>3. v = Exact(prog)[c]
      <3>1. Least(prog, Guess(provisional), {})[c] = Exact(prog)[c]
        BY <1>1, <1>3, <1>4, ExactAny
      <3> QED  BY <1>4, <1>8, <2>2, <3>1
    <2>4. v \subseteq Param
      <3>1. Exact(prog) \in Sums  BY LeastType DEF Exact
      <3> QED  BY <1>3, <1>4, <2>3, <3>1 DEF Sums
    <2>5. PICK a : a = [f |-> c, set |-> v]  OBVIOUS
    <2>6. a \in Answer /\ a.set = Exact(prog)[a.f]  BY <1>3, <1>4, <2>3, <2>4, <2>5 DEF Answer
    <2>7. answers \in Seq(Answer)  BY <1>9 DEF Answered
    <2>8. answers' \in Seq(Answer) /\ Len(answers') = Len(answers) + 1
          /\ (\A i \in 1 .. Len(answers) : answers'[i] = answers[i])
          /\ answers'[Len(answers) + 1] = a
      BY <2>1, <2>5, <2>6, <2>7, AppendProperties
    <2>9. DOMAIN answers' = 1 .. Len(answers) + 1 /\ DOMAIN answers = 1 .. Len(answers)
          /\ Len(answers) \in Nat
      BY <2>7, <2>8, LenProperties
    <2>10. \A i \in DOMAIN answers' : answers'[i].set = Exact(prog)[answers'[i].f]
      <3> SUFFICES ASSUME NEW i \in DOMAIN answers'
                   PROVE  answers'[i].set = Exact(prog)[answers'[i].f]
        OBVIOUS
      <3>1. CASE i = Len(answers) + 1  BY <2>6, <2>8, <3>1
      <3>2. CASE i # Len(answers) + 1
        <4>1. i \in DOMAIN answers /\ answers'[i] = answers[i]  BY <2>8, <2>9, <3>2
        <4> QED  BY <1>9, <4>1 DEF Answered
      <3> QED  BY <3>1, <3>2
    <2>11. Answered(prog', answers')  BY <2>8, <2>10 DEF Answered
    <2>12. stack' \in Seq(FrameType) /\ Len(stack') = 0  BY <2>1, EmptySeq
    <2>13. Stacked(prog', computed', provisional', stack')
      BY <2>12 DEF Stacked, Distinct, Chain
    <2> QED  BY <2>11, <2>13
  <1>11. CASE n # 1
    <2>1. stack' = Resume(tt, v) /\ answers' = answers  BY <1>5, <1>6, <1>11 DEF Return
    <2>2. PICK C, pw : C = computed' /\ pw = provisional'  OBVIOUS
    <2>3. PICK m : m = n - 1  OBVIOUS
    <2>4. m \in Nat /\ m \in 1 .. n /\ m + 1 = n /\ m \in 1 .. Len(tt) /\ Len(tt) = m /\ Len(tt) > 0
      BY <1>3, <1>6, <1>11, <2>3
    <2>5. \A i \in 1 .. m : tt[i].f = stack[i].f /\ tt[i].next = stack[i].next
      BY <1>6, <2>4 DEF Kept
    <2>6. \A i \in 1 .. m : stack[i].f \in Func /\ stack[i].f # c /\ stack[i].f \notin computed
      <3>1. \A i \in 1 .. m : i \in 1 .. Len(stack) /\ i # n  BY <1>2, <2>4
      <3>2. Distinct(stack)  BY <1>9 DEF Stacked
      <3>3. \A i \in 1 .. Len(stack) : stack[i].f \notin computed  BY <1>9 DEF Stacked
      <3>4. \A i \in 1 .. Len(stack) : stack[i].f \in Func  BY <1>3, FrameFacts
      <3> QED  BY <1>2, <1>3, <1>4, <3>1, <3>2, <3>3, <3>4 DEF Distinct
    <2>7. \A i \in 1 .. Len(tt) : Same(provisional, pw, stack[i].f) /\ stack[i].f \notin C
      BY <1>4, <2>2, <2>4, <2>6
    <2>8. Stacked(prog, C, pw, tt)  BY <1>1, <1>6, <1>9, <2>7, KeptStacked
    <2>9. stack[m].next <= Len(prog.calls[stack[m].f])
          /\ CallOf(prog, stack[m], stack[m].next).to = c
      <3>1. m \in 1 .. Len(stack) - 1  BY <1>2, <2>4
      <3>2. Chain(prog, stack)  BY <1>9 DEF Stacked
      <3> QED  BY <1>3, <1>4, <2>4, <3>1, <3>2 DEF Chain
    <2>10. tt[m].next <= Len(prog.calls[tt[m].f]) /\ c = CallOf(prog, tt[m], tt[m].next).to
      BY <2>4, <2>5, <2>9 DEF CallOf
    <2>11. Y \subseteq Pins(tt, m)
      <3> SUFFICES ASSUME NEW h \in Y PROVE h \in Pins(tt, m)  OBVIOUS
      <3>1. PICK j \in 1 .. n : h = stack[j].f  BY <1>7 DEF Pins
      <3>2. h \in Top.deps /\ h # c  BY <1>3, <1>7 DEF Pins
      <3>3. j # n  BY <1>3, <1>4, <3>1, <3>2
      <3>4. j \in 1 .. m  BY <1>3, <2>4, <3>1, <3>3
      <3>5. h \notin computed /\ h = tt[j].f  BY <2>5, <2>6, <3>1, <3>4
      <3>6. h \in Pending  BY <3>2, <3>5 DEF Pending
      <3>7. h \in tt[m].deps  BY <1>3, <1>6, <1>11, <2>3, <3>6
      <3> QED  BY <3>4, <3>5, <3>7 DEF Pins
    <2>12. \A h \in Y : Guess(provisional)[h] = Guess(pw)[h]
      <3> SUFFICES ASSUME NEW h \in Y PROVE Guess(provisional)[h] = Guess(pw)[h]  OBVIOUS
      <3>1. h \in Func /\ h # c
        <4>1. h \in stack[n].deps /\ h # c  BY <1>7 DEF Pins
        <4> QED  BY <1>3, <4>1, FrameFacts
      <3>2. Same(provisional, pw, h)  BY <1>4, <2>2, <3>1
      <3> QED  BY <3>1, <3>2 DEF Same, Guess
    <2>13. Least(prog, Guess(pw), Pins(tt, m))[c] \subseteq v
      <3>1. PICK G, H, Z : G = Guess(provisional) /\ H = Guess(pw) /\ Z = Pins(tt, m)  OBVIOUS
      <3>2. Least(prog, H, Z)[c] \subseteq Least(prog, G, Y)[c]
        BY <1>1, <1>3, <1>4, <2>11, <2>12, <3>1, LeastShrinks
      <3> QED  BY <1>8, <3>1, <3>2
    <2>14. Stacked(prog, C, pw, Resume(tt, v))
      BY <1>1, <1>4, <2>4, <2>8, <2>10, <2>13, ResumeStacked
    <2> QED  BY <1>9, <2>1, <2>2, <2>14
  <1> QED  BY <1>10, <1>11

LEMMA DropSame ==
  ASSUME NEW c
  PROVE  \A f : f # c => Same(provisional, Drop(c), f)
  BY DEF Drop, Same

(* Only the analysis of a function that rests on nothing else is memoized. *)
LEMMA MemoizeInv ==
  ASSUME AliasInv, Analysed, ~OthersPending, NEW v, v \subseteq Exact(prog)[Top.f],
         Least(prog, Guess(provisional), Pins(stack, Len(stack)) \ {Top.f})[Top.f] \subseteq v,
         Memoize(v), Return(v), prog' = prog
  PROVE  AliasInv'
  <1>1. stack # <<>> /\ prog \in Program  BY DEF Analysed, AliasInv
  <1>2. PICK n, c : n = Len(stack) /\ c = Top.f  OBVIOUS
  <1>3. stack \in Seq(FrameType) /\ n \in 1 .. Len(stack) /\ Top = stack[n] /\ c \in Func
    BY <1>1, <1>2, TopFacts
  <1>4. Pins(stack, n) \ {c} = {}
    <2> SUFFICES ASSUME NEW h \in Pins(stack, n), h # c PROVE FALSE  OBVIOUS
    <2>1. h \in Top.deps /\ h \in {stack[j].f : j \in 1 .. Len(stack)}  BY <1>2, <1>3 DEF Pins
    <2>2. h \notin computed  BY <2>1 DEF AliasInv, Stacked
    <2> QED  BY <1>2, <2>1, <2>2 DEF OthersPending, Pending
  <1>5. v = Exact(prog)[c]
    <2>1. Least(prog, Guess(provisional), {})[c] = Exact(prog)[c]  BY <1>1, <1>3, ExactAny
    <2> QED  BY <1>2, <1>4, <2>1
  <1>6. computed' = computed \cup {c} /\ summary' = [summary EXCEPT ![c] = v]
        /\ provisional' = Drop(c)
    BY <1>2 DEF Memoize
  <1>7. \A f \in Func : f # Top.f => Same(provisional, provisional', f)  BY <1>2, <1>6, DropSame
  <1>8. Stacked(prog', computed', provisional', stack') /\ Answered(prog', answers')
    BY <1>2, <1>6, <1>7, ReturnInv
  <1>9. v \subseteq Param
    <2>1. Exact(prog) \in Sums  BY LeastType DEF Exact
    <2> QED  BY <1>3, <1>5, <2>1 DEF Sums
  <1>10. computed' \subseteq Func /\ summary' \in Sums
         /\ \A f \in computed' : summary'[f] = Exact(prog)[f]
    BY <1>3, <1>5, <1>6, <1>9 DEF AliasInv, Sums
  <1>11. Guessed(prog, provisional')
    <2>1. Guessed(prog, provisional)  BY DEF AliasInv
    <2> QED  BY <1>6, <2>1 DEF Guessed, Drop
  <1> QED  BY <1>1, <1>8, <1>10, <1>11 DEF AliasInv

(* What an analysis that is through has found is all there is to find with *)
(* the guesses of the other analyses, if its own guess has it too.         *)
LEMMA TopLow ==
  ASSUME AliasInv, Analysed, SelfDep => Stable
  PROVE  /\ Least(prog, Guess(provisional), Pins(stack, Len(stack)) \ {Top.f})[Top.f]
              \subseteq Top.res
         /\ Top.res \subseteq Exact(prog)[Top.f]
  <1>1. stack # <<>> /\ prog \in Program /\ Top.next > Len(Calls)  BY DEF Analysed, AliasInv
  <1>2. PICK n, c, G : n = Len(stack) /\ c = Top.f /\ G = Guess(provisional)  OBVIOUS
  <1>3. /\ stack \in Seq(FrameType) /\ n \in 1 .. Len(stack) /\ Top = stack[n] /\ c \in Func
        /\ Calls = prog.calls[c] /\ FrameOK(prog, G, stack, n)
    BY <1>1, <1>2, TopFacts
  <1>4. c \in stack[n].deps => stack[n].res \subseteq G[c]
    <2> HAVE c \in stack[n].deps
    <2>1. c \in DOMAIN provisional /\ provisional[c] = Union  BY <1>2, <1>3 DEF SelfDep, Stable
    <2>2. G[c] = provisional[c]  BY <1>2, <1>3, <2>1 DEF Guess
    <2> QED  BY <1>3, <2>1, <2>2 DEF Union
  <1>5. Low(prog, G, stack, n) /\ stack[n].res \subseteq Exact(prog)[c]
    BY <1>2, <1>3 DEF FrameOK
  <1>6. Least(prog, G, Pins(stack, n) \ {c})[c] \subseteq stack[n].res
    BY <1>1, <1>2, <1>3, <1>4, <1>5, ThroughLow
  <1> QED  BY <1>2, <1>3, <1>5, <1>6

LEMMA UnionFacts ==
  ASSUME AliasInv, stack # <<>>
  PROVE  Top.res \subseteq Union /\ Union \subseteq Exact(prog)[Top.f]
  <1>1. PICK n : n = Len(stack)  OBVIOUS
  <1>2. Top = stack[n] /\ FrameOK(prog, Guess(provisional), stack, n)  BY <1>1, TopFacts
  <1>3. Top.res \subseteq Exact(prog)[Top.f]  BY <1>2 DEF FrameOK
  <1>4. Guessed(prog, provisional)  BY DEF AliasInv
  <1> QED  BY <1>3, <1>4 DEF Guessed, Union

LEMMA FinalInv ==
  ASSUME AliasInv, Final PROVE AliasInv'
  <1>1. Analysed /\ ~SelfDep /\ ~OthersPending /\ Memoize(Top.res) /\ Return(Top.res)
        /\ prog' = prog
    BY DEF Final
  <1>2. PICK v : v = Top.res  OBVIOUS
  <1>3. /\ Least(prog, Guess(provisional), Pins(stack, Len(stack)) \ {Top.f})[Top.f] \subseteq v
        /\ v \subseteq Exact(prog)[Top.f]
    BY <1>1, <1>2, TopLow
  <1> QED  BY <1>1, <1>2, <1>3, MemoizeInv

LEMMA ConvergedInv ==
  ASSUME AliasInv, Converged PROVE AliasInv'
  <1>1. Analysed /\ Stable /\ ~OthersPending /\ Memoize(Union) /\ Return(Union) /\ prog' = prog
    BY DEF Converged
  <1>2. PICK v : v = Union  OBVIOUS
  <1>3. Top.res \subseteq v /\ v \subseteq Exact(prog)[Top.f]
    BY <1>1, <1>2, UnionFacts DEF Analysed
  <1>4. Least(prog, Guess(provisional), Pins(stack, Len(stack)) \ {Top.f})[Top.f] \subseteq v
    BY <1>1, <1>3, TopLow
  <1> QED  BY <1>1, <1>2, <1>3, <1>4, MemoizeInv

LEMMA LeaveInv ==
  ASSUME AliasInv, Leave PROVE AliasInv'
  <1>1. Analysed /\ Stable /\ Return(Top.res)
        /\ prog' = prog /\ computed' = computed /\ summary' = summary /\ provisional' = provisional
    BY DEF Leave
  <1>2. PICK v : v = Top.res  OBVIOUS
  <1>3. /\ Least(prog, Guess(provisional), Pins(stack, Len(stack)) \ {Top.f})[Top.f] \subseteq v
        /\ v \subseteq Exact(prog)[Top.f]
    BY <1>1, <1>2, TopLow
  <1>4. computed' \subseteq computed \cup {Top.f}  BY <1>1
  <1>5. \A f \in Func : f # Top.f => Same(provisional, provisional', f)  BY <1>1 DEF Same
  <1>6. Stacked(prog', computed', provisional', stack') /\ Answered(prog', answers')
    BY <1>1, <1>2, <1>3, <1>4, <1>5, ReturnInv
  <1> QED  BY <1>1, <1>6 DEF AliasInv

-----------------------------------------------------------------------------
(* The call the top analysis is at.                                        *)
LEMMA AtCallFacts ==
  ASSUME AliasInv, AtCall, NEW n, n = Len(stack)
  PROVE  /\ stack # <<>> /\ Len(stack) > 0 /\ n \in 1 .. Len(stack) /\ stack \in Seq(FrameType)
         /\ prog \in Program /\ Stacked(prog, computed, provisional, stack)
         /\ stack[n].next <= Len(prog.calls[stack[n].f])
         /\ Callee = CallOf(prog, stack[n], stack[n].next).to /\ Callee \in Func
  <1>1. stack # <<>> /\ prog \in Program /\ Top.next <= Len(Calls)  BY DEF AtCall, AliasInv
  <1>2. /\ stack \in Seq(FrameType) /\ n \in Nat \ {0} /\ n \in 1 .. Len(stack)
        /\ Top = stack[n] /\ Top \in FrameType /\ Top.next \in Nat \ {0}
        /\ Len(Calls) \in Nat /\ Calls = prog.calls[Top.f]
    BY <1>1, TopFacts
  <1>3. Callee = CallOf(prog, Top, Top.next).to  BY <1>2 DEF Callee, CallOf
  <1>4. Callee \in Func
    <2>1. Top.next \in 1 .. Len(prog.calls[Top.f])  BY <1>1, <1>2
    <2> QED  BY <1>1, <1>2, <1>3, <2>1, CallFacts
  <1>5. Stacked(prog, computed, provisional, stack)  BY DEF AliasInv
  <1> QED  BY <1>1, <1>2, <1>3, <1>4, <1>5

LEMMA MemoizedInv ==
  ASSUME AliasInv, Memoized PROVE AliasInv'
  <1>1. AtCall /\ Callee \in computed /\ stack' = Resume(stack, summary[Callee])
        /\ prog' = prog /\ computed' = computed /\ summary' = summary
        /\ provisional' = provisional /\ answers' = answers
    BY DEF Memoized
  <1>2. PICK n, c, v : n = Len(stack) /\ c = Callee /\ v = summary[c]  OBVIOUS
  <1>3. /\ Len(stack) > 0 /\ prog \in Program /\ Stacked(prog, computed, provisional, stack)
        /\ stack[n].next <= Len(prog.calls[stack[n].f])
        /\ c = CallOf(prog, stack[n], stack[n].next).to /\ c \in Func
    BY <1>1, <1>2, AtCallFacts
  <1>4. v = Exact(prog)[c]  BY <1>1, <1>2 DEF AliasInv
  <1>5. Least(prog, Guess(provisional), Pins(stack, n))[c] \subseteq v
    BY <1>3, <1>4, LeastUnderExact
  <1>6. Stacked(prog, computed, provisional, Resume(stack, v))
    BY <1>2, <1>3, <1>4, <1>5, ResumeStacked
  <1> QED  BY <1>1, <1>2, <1>6 DEF AliasInv

LEMMA ReentryInv ==
  ASSUME AliasInv, Reentry PROVE AliasInv'
  <1>1. AtCall /\ Callee \notin computed /\ Callee \in InProgress
        /\ stack' = Resume(AddDeps(stack, {Callee}),
                           IF Callee \in DOMAIN provisional THEN provisional[Callee] ELSE {})
        /\ prog' = prog /\ computed' = computed /\ summary' = summary
        /\ provisional' = provisional /\ answers' = answers
    BY DEF Reentry
  <1>2. PICK n, c, G : n = Len(stack) /\ c = Callee /\ G = Guess(provisional)  OBVIOUS
  <1>3. /\ Len(stack) > 0 /\ prog \in Program /\ Stacked(prog, computed, provisional, stack)
        /\ stack \in Seq(FrameType) /\ n \in 1 .. Len(stack)
        /\ stack[n].next <= Len(prog.calls[stack[n].f])
        /\ c = CallOf(prog, stack[n], stack[n].next).to /\ c \in Func
    BY <1>1, <1>2, AtCallFacts
  <1>4. PICK v : v = G[c]  OBVIOUS
  <1>5. stack' = Resume(AddDeps(stack, {c}), v)  BY <1>1, <1>2, <1>3, <1>4 DEF Guess
  <1>6. PICK tt : tt = AddDeps(stack, {c})  OBVIOUS
  <1>7. tt \in Seq(FrameType) /\ Len(tt) = n
        /\ \A i \in 1 .. n : tt[i] = [stack[i] EXCEPT !.deps = @ \cup {c}]
    <2>1. DOMAIN stack = 1 .. n /\ n \in Nat  BY <1>2, <1>3, LenProperties
    <2>2. tt = [i \in 1 .. n |-> [stack[i] EXCEPT !.deps = @ \cup {c}]]
      BY <1>6, <2>1 DEF AddDeps
    <2>3. \A i \in 1 .. n : tt[i] \in FrameType
      <3> SUFFICES ASSUME NEW i \in 1 .. n PROVE tt[i] \in FrameType  OBVIOUS
      <3>1. PICK fr \in FrameType : fr = stack[i]  BY <1>2, <1>3, FrameFacts
      <3>2. tt[i] = [fr EXCEPT !.deps = @ \cup {c}]  BY <2>2, <3>1
      <3>3. fr.deps \cup {c} \subseteq Func  BY <1>3 DEF FrameType
      <3> QED  BY <3>2, <3>3 DEF FrameType
    <2>4. tt \in Seq(FrameType)
      <3>1. tt \in [1 .. n -> FrameType]  BY <2>2, <2>3
      <3> QED  BY <2>1, <3>1, SeqDef
    <2>5. Len(tt) = n
      <3>1. DOMAIN tt = 1 .. Len(tt) /\ Len(tt) \in Nat  BY <2>4, LenProperties
      <3>2. DOMAIN tt = 1 .. n  BY <2>2
      <3>3. PICK k \in Nat : k = Len(tt)  BY <3>1
      <3>4. \A i \in Nat : i \in 1 .. k <=> i \in 1 .. n  BY <3>1, <3>2, <3>3
      <3>5. ~(k < n)
        <4> SUFFICES ASSUME k < n PROVE FALSE  OBVIOUS
        <4>1. n \in 1 .. n  BY <2>1
        <4>2. n \in 1 .. k  BY <2>1, <3>4, <4>1
        <4> QED  BY <2>1, <4>2
      <3>6. ~(n < k)
        <4> SUFFICES ASSUME n < k PROVE FALSE  OBVIOUS
        <4>1. k \in 1 .. k  BY <2>1
        <4>2. k \in 1 .. n  BY <3>4, <4>1
        <4> QED  BY <2>1, <4>2
      <3> QED  BY <2>1, <3>3, <3>5, <3>6
    <2> QED  BY <2>2, <2>4, <2>5
  <1>8. ASSUME NEW i \in 1 .. n
        PROVE  /\ tt[i].f = stack[i].f /\ tt[i].next = stack[i].next /\ tt[i].res = stack[i].res
               /\ tt[i].iter = stack[i].iter /\ tt[i].deps = stack[i].deps \cup {c}
    <2>1. PICK fr \in FrameType : fr = stack[i]  BY <1>2, <1>3, FrameFacts
    <2>2. tt[i] = [fr EXCEPT !.deps = @ \cup {c}]  BY <1>7, <2>1
    <2> QED  BY <2>1, <2>2 DEF FrameType
  <1>9. Kept(stack, tt)
    <2>1. \A i \in 1 .. Len(tt) :
            /\ tt[i].f = stack[i].f /\ tt[i].next = stack[i].next /\ tt[i].res = stack[i].res
            /\ tt[i].iter = stack[i].iter /\ stack[i].deps \subseteq tt[i].deps
      BY <1>7, <1>8
    <2>2. Len(stack) \in Nat  BY <1>3, LenProperties
    <2> QED  BY <1>2, <1>7, <2>1, <2>2 DEF Kept
  <1>10. Stacked(prog, computed, provisional, tt)
    <2>1. \A i \in 1 .. Len(tt) :
            Same(provisional, provisional, stack[i].f) /\ stack[i].f \notin computed
      BY <1>2, <1>3, <1>7 DEF Same, Stacked
    <2> QED  BY <1>3, <1>9, <2>1, KeptStacked
  <1>11. c \in Pins(tt, n)
    <2>1. PICK j \in 1 .. n : c = stack[j].f  BY <1>1, <1>2, InProgressFacts
    <2>2. c = tt[j].f  BY <1>8, <2>1
    <2>3. c \in tt[n].deps  BY <1>2, <1>3, <1>8
    <2> QED  BY <2>2, <2>3 DEF Pins
  <1>12. Least(prog, G, Pins(tt, n))[c] \subseteq v  BY <1>3, <1>4, <1>11, LeastBelow
  <1>13. v \subseteq Exact(prog)[c]
    <2>1. Guessed(prog, provisional)  BY DEF AliasInv
    <2> QED  BY <1>2, <1>3, <1>4, <2>1 DEF Guessed, Guess
  <1>14. /\ tt[n].next <= Len(prog.calls[tt[n].f])
         /\ c = CallOf(prog, tt[n], tt[n].next).to
    BY <1>2, <1>3, <1>8 DEF CallOf
  <1>15. Stacked(prog, computed, provisional, Resume(tt, v))
    BY <1>2, <1>3, <1>7, <1>10, <1>12, <1>13, <1>14, ResumeStacked
  <1> QED  BY <1>1, <1>5, <1>6, <1>15 DEF AliasInv

LEMMA FrameShape ==
  ASSUME prog \in Program, NEW f \in Func, NEW k \in Nat \ {0}, NEW fr, fr = Frame(f, k)
  PROVE  /\ fr \in FrameType /\ fr.f = f /\ fr.next = 1 /\ fr.res = prog.own[f] /\ fr.iter = k
  <1>1. prog.own[f] \subseteq Param  BY ProgramFacts
  <1> QED  BY <1>1 DEF Frame, FrameType

LEMMA EnterInv ==
  ASSUME AliasInv, Enter PROVE AliasInv'
  <1>1. AtCall /\ Callee \notin computed /\ Callee \notin InProgress
        /\ stack' = Append(stack, Frame(Callee, 1))
        /\ prog' = prog /\ computed' = computed /\ summary' = summary
        /\ provisional' = provisional /\ answers' = answers
    BY DEF Enter
  <1>2. PICK n, c : n = Len(stack) /\ c = Callee  OBVIOUS
  <1>3. /\ prog \in Program /\ Stacked(prog, computed, provisional, stack)
        /\ stack[n].next <= Len(prog.calls[stack[n].f])
        /\ c = CallOf(prog, stack[n], stack[n].next).to /\ c \in Func
    BY <1>1, <1>2, AtCallFacts
  <1>4. PICK fr : fr = Frame(c, 1)  OBVIOUS
  <1>5. fr \in FrameType /\ fr.f = c /\ fr.next = 1 /\ fr.res = prog.own[c] /\ fr.iter = 1
    BY <1>3, <1>4, FrameShape
  <1>6. Grown(provisional, fr)  BY <1>5 DEF Grown
  <1>7. \A i \in 1 .. Len(stack) : stack[i].f # c  BY <1>1, <1>2, InProgressFacts
  <1>8. Stacked(prog, computed, provisional, Append(stack, fr))
    BY <1>1, <1>2, <1>3, <1>5, <1>6, <1>7, PushStacked
  <1> QED  BY <1>1, <1>2, <1>4, <1>8 DEF AliasInv

LEMMA EmptyStacked ==
  ASSUME NEW q, NEW C, NEW pv
  PROVE  Stacked(q, C, pv, <<>>) /\ Len(<<>>) = 0
  <1>1. <<>> \in Seq(FrameType) /\ Len(<<>>) = 0  BY EmptySeq
  <1> QED  BY <1>1 DEF Stacked, Distinct, Chain

LEMMA DemandInv ==
  ASSUME AliasInv, NEW f \in Func, Demand(f) PROVE AliasInv'
  <1>1. stack = <<>> /\ prog' = prog /\ computed' = computed /\ summary' = summary
        /\ provisional' = provisional /\ prog \in Program
    BY DEF Demand, AliasInv
  <1>2. CASE f \in computed
    <2>1. PICK a : a = [f |-> f, set |-> summary[f]]  OBVIOUS
    <2>2. stack' = stack /\ answers' = Append(answers, a)  BY <1>2, <2>1 DEF Demand
    <2>3. a \in Answer /\ a.set = Exact(prog)[a.f]
      BY <1>2, <2>1 DEF AliasInv, Sums, Answer
    <2>4. Answered(prog, answers)  BY DEF AliasInv
    <2>5. answers \in Seq(Answer)  BY <2>4 DEF Answered
    <2>6. answers' \in Seq(Answer) /\ Len(answers') = Len(answers) + 1
          /\ (\A i \in 1 .. Len(answers) : answers'[i] = answers[i])
          /\ answers'[Len(answers) + 1] = a
      BY <2>2, <2>3, <2>5, AppendProperties
    <2>7. DOMAIN answers' = 1 .. Len(answers) + 1 /\ DOMAIN answers = 1 .. Len(answers)
          /\ Len(answers) \in Nat
      BY <2>5, <2>6, LenProperties
    <2>8. \A i \in DOMAIN answers' : answers'[i].set = Exact(prog)[answers'[i].f]
      <3> SUFFICES ASSUME NEW i \in DOMAIN answers'
                   PROVE  answers'[i].set = Exact(prog)[answers'[i].f]
        OBVIOUS
      <3>1. CASE i = Len(answers) + 1  BY <2>3, <2>6, <3>1
      <3>2. CASE i # Len(answers) + 1
        <4>1. i \in DOMAIN answers /\ answers'[i] = answers[i]  BY <2>6, <2>7, <3>2
        <4> QED  BY <2>4, <4>1 DEF Answered
      <3> QED  BY <3>1, <3>2
    <2>9. Answered(prog, answers')  BY <2>6, <2>8 DEF Answered
    <2> QED  BY <1>1, <2>2, <2>9 DEF AliasInv
  <1>3. CASE f \notin computed
    <2>1. PICK fr : fr = Frame(f, 1)  OBVIOUS
    <2>2. stack' = <<fr>> /\ answers' = answers  BY <1>3, <2>1 DEF Demand
    <2>3. fr \in FrameType /\ fr.f = f /\ fr.next = 1 /\ fr.res = prog.own[f] /\ fr.iter = 1
      BY <1>1, <2>1, FrameShape
    <2>4. Grown(provisional, fr)  BY <2>3 DEF Grown
    <2>5. PICK st : st = <<>>  OBVIOUS
    <2>6. Stacked(prog, computed, provisional, st) /\ Len(st) = 0  BY <2>5, EmptyStacked
    <2>7. Stacked(prog, computed, provisional, Append(st, fr))
      <3>1. \A i \in 1 .. Len(st) : st[i].f # fr.f  BY <2>6
      <3>2. ~(Len(st) > 0)  BY <2>6
      <3>3. fr.res = prog.own[fr.f] /\ fr.f \notin computed  BY <1>3, <2>3
      <3> QED  BY <1>1, <2>3, <2>4, <2>6, <3>1, <3>2, <3>3, PushStacked
    <2>8. Append(st, fr) = <<fr>>  BY <2>5
    <2> QED  BY <1>1, <2>2, <2>7, <2>8 DEF AliasInv
  <1> QED  BY <1>2, <1>3

(* A guess that is not stable grows by a parameter.                        *)
LEMMA GuessGrows ==
  ASSUME AliasInv, stack # <<>>, ~Stable, NEW pw, Top.f \in DOMAIN pw, pw[Top.f] = Union,
         NEW fr, fr.f = Top.f, fr.iter = Top.iter + 1
  PROVE  Grown(pw, fr)
  <1>1. Top.f \in Func /\ Top.iter \in Nat \ {0} /\ Grown(provisional, Top)  BY TopFacts
  <1>2. Union \subseteq Param
    <2>1. Exact(prog) \in Sums  BY LeastType DEF Exact
    <2>2. Union \subseteq Exact(prog)[Top.f]  BY UnionFacts
    <2> QED  BY <1>1, <2>1, <2>2 DEF Sums
  <1>3. IsFiniteSet(Union) /\ Cardinality(Union) \in Nat
    <2>1. IsFiniteSet(Param)  BY AliasConstants
    <2>2. IsFiniteSet(Union)  BY <1>2, <2>1, FS_Subset
    <2> QED  BY <2>2, FS_CardinalityType
  <1>4. CASE Top.iter = 1  BY <1>3, <1>4 DEF Grown
  <1>5. CASE Top.iter # 1
    <2>1. PICK P : P = provisional[Top.f]  OBVIOUS
    <2>2. Top.f \in DOMAIN provisional /\ Top.iter <= Cardinality(P) + 2
      BY <1>1, <1>5, <2>1 DEF Grown
    <2>3. P \subseteq Union /\ P # Union  BY <2>1, <2>2 DEF Union, Stable
    <2>4. IsFiniteSet(P) /\ Cardinality(P) <= Cardinality(Union)
          /\ Cardinality(Union) # Cardinality(P)
      BY <1>3, <2>3, FS_Subset
    <2>5. Cardinality(P) \in Nat  BY <2>4, FS_CardinalityType
    <2>6. Top.iter + 1 <= Cardinality(Union) + 2  BY <1>1, <1>3, <2>2, <2>4, <2>5
    <2> QED  BY <2>6 DEF Grown
  <1> QED  BY <1>4, <1>5

LEMMA GrowInv ==
  ASSUME AliasInv, Grow PROVE AliasInv'
  <1>1. /\ Analysed /\ ~Stable
        /\ provisional' = [g \in DOMAIN provisional \cup {Top.f} |->
                             IF g = Top.f THEN Union ELSE provisional[g]]
        /\ stack' = Append(Propagate(Below), Frame(Top.f, Top.iter + 1))
        /\ prog' = prog /\ computed' = computed /\ summary' = summary /\ answers' = answers
    BY DEF Grow
  <1>2. stack # <<>> /\ prog \in Program /\ Stacked(prog, computed, provisional, stack)
    BY <1>1 DEF Analysed, AliasInv
  <1>3. PICK n, c, pw : n = Len(stack) /\ c = Top.f /\ pw = provisional'  OBVIOUS
  <1>4. /\ stack \in Seq(FrameType) /\ n \in Nat \ {0} /\ n \in 1 .. Len(stack)
        /\ Top = stack[n] /\ c \in Func /\ Top.iter \in Nat \ {0} /\ c \notin computed
    BY <1>2, <1>3, TopFacts
  <1>5. PICK fr : fr = Frame(c, Top.iter + 1)  OBVIOUS
  <1>6. /\ fr \in FrameType /\ fr.f = c /\ fr.next = 1 /\ fr.res = prog.own[c]
        /\ fr.iter = Top.iter + 1
    <2>1. Top.iter + 1 \in Nat \ {0}  BY <1>4
    <2> QED  BY <1>2, <1>4, <1>5, <2>1, FrameShape
  <1>7. PICK tt : tt = Propagate(Below)  OBVIOUS
  <1>8. Kept(stack, tt) /\ Len(tt) = n - 1  BY <1>2, <1>3, <1>7, PropagateKept
  <1>9. /\ c \in DOMAIN pw /\ pw[c] = Union /\ DOMAIN pw = DOMAIN provisional \cup {c}
        /\ \A g \in DOMAIN provisional : g # c => pw[g] = provisional[g]
    BY <1>1, <1>3
  <1>10. Grown(pw, fr)  BY <1>1, <1>2, <1>3, <1>6, <1>9, GuessGrows
  <1>11. \A i \in 1 .. n - 1 : stack[i].f # c /\ stack[i].f \notin computed
    <2>1. \A i \in 1 .. n - 1 : i \in 1 .. Len(stack) /\ i # n  BY <1>3, <1>4
    <2>2. Distinct(stack)  BY <1>2 DEF Stacked
    <2>3. \A i \in 1 .. Len(stack) : stack[i].f \notin computed  BY <1>2 DEF Stacked
    <2> QED  BY <1>3, <1>4, <2>1, <2>2, <2>3 DEF Distinct
  <1>12. \A i \in 1 .. Len(tt) : Same(provisional, pw, stack[i].f) /\ stack[i].f \notin computed
    BY <1>8, <1>9, <1>11 DEF Same
  <1>13. Stacked(prog, computed, pw, tt)  BY <1>2, <1>8, <1>12, KeptStacked
  <1>14. \A i \in 1 .. Len(tt) : tt[i].f = stack[i].f /\ tt[i].next = stack[i].next
    BY <1>8 DEF Kept
  <1>15. \A i \in 1 .. Len(tt) : tt[i].f # fr.f  BY <1>6, <1>8, <1>11, <1>14
  <1>16. Len(tt) > 0 => /\ tt[Len(tt)].next <= Len(prog.calls[tt[Len(tt)].f])
                        /\ CallOf(prog, tt[Len(tt)], tt[Len(tt)].next).to = fr.f
    <2> HAVE Len(tt) > 0
    <2>1. PICK m : m = Len(tt)  OBVIOUS
    <2>2. m \in 1 .. Len(stack) - 1 /\ m \in 1 .. Len(tt) /\ m + 1 = n  BY <1>3, <1>4, <1>8, <2>1
    <2>3. Chain(prog, stack)  BY <1>2 DEF Stacked
    <2>4. stack[m].next <= Len(prog.calls[stack[m].f])
          /\ CallOf(prog, stack[m], stack[m].next).to = c
      BY <1>3, <1>4, <2>2, <2>3 DEF Chain
    <2>5. tt[m].f = stack[m].f /\ tt[m].next = stack[m].next  BY <1>14, <2>2
    <2> QED  BY <1>6, <2>1, <2>4, <2>5 DEF CallOf
  <1>17. Stacked(prog, computed, pw, Append(tt, fr))
    BY <1>2, <1>4, <1>6, <1>10, <1>13, <1>15, <1>16, PushStacked
  <1>18. Guessed(prog, pw)
    <2>1. Guessed(prog, provisional)  BY DEF AliasInv
    <2>2. Union \subseteq Exact(prog)[c]  BY <1>2, <1>3, UnionFacts
    <2> QED  BY <1>4, <1>9, <2>1, <2>2 DEF Guessed
  <1> QED  BY <1>1, <1>3, <1>5, <1>7, <1>17, <1>18 DEF AliasInv

-----------------------------------------------------------------------------
LEMMA InitInv ==
  ASSUME Init PROVE AliasInv
  <1>1. prog \in Program  BY AliasConstants DEF Init, Program, Sums
  <1>2. Stacked(prog, computed, provisional, stack)  BY EmptyStacked DEF Init
  <1>3. Guessed(prog, provisional)  BY DEF Init, Guessed
  <1>4. answers \in Seq(Answer) /\ DOMAIN answers = {}  BY EmptySeq DEF Init
  <1>5. Answered(prog, answers)  BY <1>4 DEF Answered
  <1> QED  BY <1>1, <1>2, <1>3, <1>5 DEF AliasInv, Init, Sums

LEMMA NextInv ==
  ASSUME AliasInv, [Next]_vars PROVE AliasInv'
  <1>1. CASE \E f \in Func : Demand(f)  BY <1>1, DemandInv
  <1>2. CASE Memoized  BY <1>2, MemoizedInv
  <1>3. CASE Reentry  BY <1>3, ReentryInv
  <1>4. CASE Enter  BY <1>4, EnterInv
  <1>5. CASE Final  BY <1>5, FinalInv
  <1>6. CASE Grow  BY <1>6, GrowInv
  <1>7. CASE Converged  BY <1>7, ConvergedInv
  <1>8. CASE Leave  BY <1>8, LeaveInv
  <1>9. CASE UNCHANGED vars  BY <1>9 DEF vars, AliasInv
  <1> QED  BY <1>1, <1>2, <1>3, <1>4, <1>5, <1>6, <1>7, <1>8, <1>9 DEF Next

(* The inductive invariant: what the analyses on the stack have found lies *)
(* between the fixed point restricted by the guesses they depend on and    *)
(* the fixed point itself.                                                 *)
THEOREM AliasInvariant == Spec => []AliasInv
  BY InitInv, NextInv, PTL DEF Spec

LEMMA ExactFromInv ==
  ASSUME AliasInv PROVE SummariesExact
  <1>1. prog \in Program /\ computed \subseteq Func  BY DEF AliasInv
  <1>2. \A f \in Func : Exact(prog)[f] = LeastSummary(f)  BY <1>1, ExactIsLeast
  <1>3. \A f \in computed : summary[f] = LeastSummary(f)  BY <1>1, <1>2 DEF AliasInv
  <1>4. answers \in Seq(Answer)  BY DEF AliasInv, Answered
  <1>5. \A i \in DOMAIN answers : answers[i].f \in Func
    <2>1. \A i \in DOMAIN answers : answers[i] \in Answer  BY <1>4, LenProperties, ElementOfSeq
    <2> QED  BY <2>1 DEF Answer
  <1>6. \A i \in DOMAIN answers : answers[i].set = LeastSummary(answers[i].f)
    BY <1>2, <1>5 DEF AliasInv, Answered
  <1> QED  BY <1>3, <1>6 DEF SummariesExact

(* Every summary the engine memoizes and every answer it gives is the      *)
(* least set closed under the bodies of the program, whatever the program: *)
(* aliasSet never publishes a provisional result.                          *)
THEOREM SummariesAreExact == Spec => []SummariesExact
  BY AliasInvariant, ExactFromInv, PTL

LEMMA BoundFromInv ==
  ASSUME AliasInv PROVE IterationsBounded
  <1>1. stack \in Seq(FrameType) /\ Distinct(stack) /\ Guessed(prog, provisional)
    BY DEF AliasInv, Stacked
  <1>2. PICK n : n = Len(stack)  OBVIOUS
  <1>3. n \in Nat /\ DOMAIN stack = 1 .. n  BY <1>1, <1>2, LenProperties
  <1>4. IsFiniteSet(Param) /\ Cardinality(Param) \in Nat  BY AliasConstants, FS_CardinalityType
  <1>5. ASSUME NEW i \in DOMAIN stack PROVE stack[i].iter <= Cardinality(Param) + 2
    <2>1. i \in 1 .. Len(stack)  BY <1>2, <1>3
    <2>2. stack[i].f \in Func /\ stack[i].iter \in Nat \ {0}  BY <1>1, <2>1, FrameFacts
    <2>3. Grown(provisional, stack[i])  BY <2>1 DEF AliasInv, Stacked
    <2>4. CASE stack[i].iter = 1  BY <1>4, <2>4
    <2>5. CASE stack[i].iter # 1
      <3>1. PICK P : P = provisional[stack[i].f]  OBVIOUS
      <3>2. stack[i].f \in DOMAIN provisional /\ stack[i].iter <= Cardinality(P) + 2
        BY <2>2, <2>3, <2>5, <3>1 DEF Grown
      <3>3. P \subseteq Exact(prog)[stack[i].f]  BY <1>1, <3>1, <3>2 DEF Guessed
      <3>4. Exact(prog) \in Sums  BY LeastType DEF Exact
      <3>5. P \subseteq Param  BY <2>2, <3>3, <3>4 DEF Sums
      <3>6. IsFiniteSet(P) /\ Cardinality(P) <= Cardinality(Param)  BY <1>4, <3>5, FS_Subset
      <3>7. Cardinality(P) \in Nat  BY <3>6, FS_CardinalityType
      <3> QED  BY <1>4, <2>2, <3>2, <3>6, <3>7
    <2> QED  BY <2>4, <2>5
  <1>6. Cardinality(InProgress) = Len(stack)
    <2>1. PICK fn : fn = [i \in 1 .. n |-> stack[i].f]  OBVIOUS
    <2>2. InProgress = {stack[i].f : i \in 1 .. n}  BY <1>2, InProgressFacts
    <2>3. fn \in Bijection(1 .. n, InProgress)
      <3>1. fn \in [1 .. n -> InProgress]  BY <2>1, <2>2
      <3>2. \A i, j \in 1 .. n : fn[i] = fn[j] => i = j  BY <1>1, <1>2, <2>1 DEF Distinct
      <3>3. \A g \in InProgress : \E i \in 1 .. n : fn[i] = g  BY <2>1, <2>2
      <3> QED  BY <3>1, <3>2, <3>3 DEF Bijection, Injection, Surjection, IsInjective
    <2>4. IsFiniteSet(1 .. n) /\ Cardinality(1 .. n) = n
      <3>1. 1 \in Int /\ n \in Int  BY <1>3
      <3> QED  BY <1>3, <3>1, FS_Interval
    <2>5. ExistsBijection(1 .. n, InProgress)  BY <2>3 DEF ExistsBijection
    <2> QED  BY <1>2, <2>4, <2>5, FS_Bijection
  <1> QED  BY <1>5, <1>6 DEF IterationsBounded

(* The iteration of aliasSet needs no limit of its own: no activation is   *)
(* analysed more often than there are parameters, plus two, and no         *)
(* function is under analysis twice, for every program.                    *)
THEOREM IterationBound == Spec => []IterationsBounded
  BY AliasInvariant, BoundFromInv, PTL
=============================================================================
