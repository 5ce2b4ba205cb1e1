------------------------------ MODULE MCLinker ------------------------------
(* Small programs for model checking Linker: a start package with the entry*)
(* point and a program package with two definitions of any kind.           *)
EXTENDS Linker, TLC

CONSTANTS init, prog, start, x, y

MCStart == <<init, start>>

To(o, p, n, a) == [off |-> o, pkg |-> p, name |-> n, addend |-> a]

(* The entry point calls into the program, refers to it twice, to itself   *)
(* or to a name that may not exist.                                        *)
StartRelocs ==
  {<<>>, <<To(1, prog, x, 0)>>, <<To(1, Bare, x, 0)>>, <<To(1, prog, y, 0), To(6, prog, x, 0)>>,
   <<To(1, prog, x, 3), To(6, prog, x, 0)>>, <<To(1, Bare, start, 0), To(6, prog, y, 0)>>}

StartDefs ==
  {[n \in {start} |-> [kind |-> "func", size |-> 10, relocs |-> r]] : r \in StartRelocs}
  \cup {[n \in {start} |-> [kind |-> "data", size |-> 10, relocs |-> <<>>]]}

Relocs(o) ==
  {<<>>, <<To(o, Bare, x, 0)>>, <<To(o, Bare, y, 0)>>, <<To(o, init, start, 0)>>,
   <<To(o, Bare, y, 2), To(o + 8, prog, x, 0)>>, <<To(o, prog, y, 0), To(o + 8, init, y, 0)>>}

Funcs == [kind : {"func"}, size : {16, 17}, relocs : Relocs(1)]
Objects == [kind : {"var", "data"}, size : {16, 24}, relocs : Relocs(0)]
              \cup [kind : {"var", "data"}, size : {0, 5}, relocs : {<<>>}]

ProgDefs == UNION {[N -> Funcs \cup Objects] : N \in {{x}, {x, y}}}

SmallInputs ==
  {<<[pkg |-> init, defs |-> s], [pkg |-> prog, defs |-> d]>> : s \in StartDefs, d \in ProgDefs}
  \cup {<<[pkg |-> init, defs |-> s], [pkg |-> init, defs |-> s]>> : s \in StartDefs}
  \cup {<<[pkg |-> prog, defs |-> d]>> : d \in ProgDefs}
=============================================================================
