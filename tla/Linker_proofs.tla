---------------------------- MODULE Linker_proofs ----------------------------
(***************************************************************************)
(* The linker, for every list of object files: it links exactly what the   *)
(* program needs and gives up only for the reasons LinksNeeded lists, the  *)
(* symbols it places are apart and fill their sections, every slot leads   *)
(* to its target, and the file can be mapped page by page.                 *)
(*                                                                         *)
(* All four follow from one invariant of the placement loop.  Each         *)
(* relocation of a placed symbol is still pending or leads to a symbol     *)
(* that is placed or queued (Follow), so that nothing is missing once      *)
(* queue and stack are empty; a queued function is neither placed nor      *)
(* queued twice (Queue), so that each gets one place; and the symbols      *)
(* placed so far tile their sections, the function being placed excepted,  *)
(* whose bytes follow after those of what it refers to (Placement).        *)
(***************************************************************************)
EXTENDS Linker, TLAPS, FiniteSetTheorems, SequenceTheorems

Elems(seq) == {seq[j] : j \in DOMAIN seq}
Ref(s, i) == [from |-> s, i |-> i]
CodeReloc(s, i) == [at |-> locs[s] + defs[s].relocs[i].off, to |-> Target(s, i),
                    addend |-> defs[s].relocs[i].addend]

(* The symbols whose bytes are in their section.                           *)
Whole == DOMAIN locs \ current
End(s) == locs[s] + defs[s].size

LinkType ==
  /\ files \in Seq(File) /\ pkgs \subseteq Pkg
  /\ DOMAIN defs \subseteq Symbol
  /\ \A s \in DOMAIN defs : defs[s] \in Def /\ SlotsWithin(defs[s])
  /\ len \in [Kind -> Nat]

Gathering ==
  /\ DOMAIN locs = {} /\ len = [k \in Kind |-> 0] /\ needfn = <<>> /\ needfnm = {}
  /\ current = {} /\ pending = <<>> /\ relocations = {}

Placement ==
  /\ \A s \in DOMAIN locs : locs[s] \in Nat
  /\ \A f, g \in current : f = g
  /\ \A f \in current : f \in DOMAIN locs /\ defs[f].kind = "func" /\ locs[f] = len["func"]
  /\ \A s \in Whole : End(s) <= len[defs[s].kind]
  /\ \A s, t \in Whole : s # t /\ defs[s].kind = defs[t].kind => End(s) <= locs[t] \/ End(t) <= locs[s]
  /\ \A k \in Kind : \A b \in 0 .. len[k] - 1 :
       \E s \in Whole : defs[s].kind = k /\ locs[s] <= b /\ b < End(s)

Queue ==
  /\ needfn \in Seq(Symbol)
  /\ \A f \in Elems(needfn) :
       /\ f \in Needed /\ defs[f].kind = "func" /\ f \notin DOMAIN locs
       /\ f \in needfnm \cup {Start}
  /\ \A i, j \in DOMAIN needfn : i # j => needfn[i] # needfn[j]
  /\ needfnm \subseteq DOMAIN locs \cup Elems(needfn)
  /\ \/ Start \in DOMAIN locs /\ locs[Start] = 0
     \/ DOMAIN locs = {} /\ needfn = <<Start>> /\ current = {} /\ len["func"] = 0

Follow ==
  /\ pending \in Seq([from : Symbol, i : Nat])
  /\ current = {} => pending = <<>>
  /\ \A p \in Elems(pending) :
       /\ p.from \in DOMAIN locs /\ p.i \in DOMAIN defs[p.from].relocs
       /\ defs[p.from].kind = "func" => p.from \in current
  /\ \A s \in DOMAIN locs : \A i \in DOMAIN defs[s].relocs :
       Ref(s, i) \in Elems(pending) \/ Target(s, i) \in DOMAIN locs \cup Elems(needfn)
  /\ \A s \in DOMAIN locs : \A i \in DOMAIN defs[s].relocs : defs[s].kind = "func" =>
       Ref(s, i) \in Elems(pending) \/ CodeReloc(s, i) \in relocations
  /\ \A r \in relocations : \E s \in DOMAIN locs : \E i \in DOMAIN defs[s].relocs :
       /\ r = CodeReloc(s, i) /\ defs[s].kind = "func"
       /\ Target(s, i) \in DOMAIN locs \cup Elems(needfn)

Reached ==
  /\ Start \in DOMAIN defs /\ defs[Start].kind = "func"
  /\ IsFiniteSet(DOMAIN locs) /\ DOMAIN locs \subseteq Needed

Linked == current = {} /\ needfn = <<>> /\ off = SectionAddrs
Laid == \E a, b, c \in Nat :
          layout = FileOffsets(<<len["func"], len["var"], len["data"], a, b, c>>)

Fatal ==
  \/ files # <<>> /\ Head(files).pkg \in pkgs
  \/ Start \notin DOMAIN defs
  \/ defs[Start].kind # "func"
  \/ \E s \in Needed : \E i \in DOMAIN defs[s].relocs : Target(s, i) \notin DOMAIN defs

LinkInv ==
  /\ LinkType
  /\ \/ phase = "gather" /\ Gathering
     \/ /\ phase \in {"place", "relocate", "write", "done"}
        /\ Reached /\ Placement /\ Queue /\ Follow
        /\ phase # "place" => Linked
        /\ phase \in {"write", "done"} => words = Words
        /\ phase = "done" => Laid
     \/ phase = "fatal" /\ Fatal

-----------------------------------------------------------------------------
(* Rounding up to a page adds less than a page and at least one byte.      *)
LEMMA RoundUpFacts ==
  ASSUME NEW n \in Nat
  PROVE  /\ RoundUp(n) \in Nat /\ RoundUp(n) % Page = 0
         /\ n < RoundUp(n)
         /\ \E q \in Nat : RoundUp(n) = q * Page
  <1>1. Page \in Nat /\ Page > 0  BY LinkerConstants
  <1> DEFINE q == (n + Page) \div Page
  <1>2. q \in Nat /\ n + Page = q * Page + ((n + Page) % Page) /\ (n + Page) % Page \in 0 .. Page - 1
    BY <1>1
  <1> HIDE DEF q
  <1>3. q * Page \in Nat /\ n < q * Page  BY <1>1, <1>2
  <1>4. (q * Page) % Page = 0  BY <1>1, <1>2
  <1> QED  BY <1>2, <1>3, <1>4 DEF RoundUp, q

(* A page that begins between two addresses separates them.                *)
LEMMA PageBetween ==
  ASSUME NEW a \in Nat, NEW b \in Nat, NEW q \in Nat, a < q * Page, q * Page <= b
  PROVE  a \div Page # b \div Page
  <1>1. Page \in Nat /\ Page > 0  BY LinkerConstants
  <1> DEFINE x == a \div Page  y == b \div Page
  <1>2. /\ x \in Nat /\ a = x * Page + (a % Page) /\ a % Page \in 0 .. Page - 1
        /\ y \in Nat /\ b = y * Page + (b % Page) /\ b % Page \in 0 .. Page - 1
    BY <1>1
  <1> HIDE DEF x, y
  <1>3. x < q
    <2> SUFFICES ASSUME q <= x PROVE FALSE  BY <1>2
    <2>1. q * Page <= x * Page  BY <1>1, <1>2
    <2> QED  BY <1>1, <1>2, <2>1
  <1>4. q <= y
    <2> SUFFICES ASSUME y + 1 <= q PROVE FALSE  BY <1>2
    <2>1. (y + 1) * Page <= q * Page  BY <1>1, <1>2
    <2>2. (y + 1) * Page = y * Page + Page  BY <1>1, <1>2
    <2> QED  BY <1>1, <1>2, <2>1, <2>2
  <1> QED  BY <1>2, <1>3, <1>4 DEF x, y

(* Elements of the sequences the linker builds.                            *)
LEMMA ElemsTail ==
  ASSUME NEW S, NEW seq \in Seq(S), seq # <<>>
  PROVE  /\ Elems(seq) = {Head(seq)} \cup Elems(Tail(seq))
         /\ Tail(seq) \in Seq(S) /\ Head(seq) \in S /\ Head(seq) \in Elems(seq)
         /\ \A i \in DOMAIN Tail(seq) : i + 1 \in DOMAIN seq /\ Tail(seq)[i] = seq[i + 1]
         /\ Head(seq) = seq[1]
  <1>1. /\ Tail(seq) \in Seq(S) /\ Head(seq) \in S /\ Head(seq) = seq[1] /\ Len(seq) \in Nat /\ Len(seq) > 0
        /\ Len(Tail(seq)) = Len(seq) - 1
        /\ \A i \in 1 .. Len(seq) - 1 : Tail(seq)[i] = seq[i + 1]
        /\ DOMAIN seq = 1 .. Len(seq) /\ DOMAIN Tail(seq) = 1 .. Len(seq) - 1
    OBVIOUS
  <1>2. \A i \in DOMAIN Tail(seq) : i + 1 \in DOMAIN seq /\ Tail(seq)[i] = seq[i + 1]  BY <1>1
  <1>3. \A i \in DOMAIN seq : i = 1 \/ (i - 1 \in DOMAIN Tail(seq) /\ Tail(seq)[i - 1] = seq[i])
    BY <1>1
  <1>4. 1 \in DOMAIN seq  BY <1>1
  <1>5. Elems(seq) \subseteq {Head(seq)} \cup Elems(Tail(seq))  BY <1>1, <1>3 DEF Elems
  <1>6. {Head(seq)} \cup Elems(Tail(seq)) \subseteq Elems(seq)  BY <1>1, <1>2, <1>4 DEF Elems
  <1> QED  BY <1>1, <1>2, <1>5, <1>6

LEMMA ElemsAppend ==
  ASSUME NEW S, NEW seq \in Seq(S), NEW e \in S
  PROVE  /\ Append(seq, e) \in Seq(S) /\ Elems(Append(seq, e)) = Elems(seq) \cup {e}
         /\ DOMAIN Append(seq, e) = 1 .. Len(seq) + 1 /\ DOMAIN seq = 1 .. Len(seq) /\ Len(seq) \in Nat
         /\ \A i \in DOMAIN seq : Append(seq, e)[i] = seq[i]
         /\ Append(seq, e)[Len(seq) + 1] = e
  <1>1. /\ Append(seq, e) \in Seq(S) /\ Len(Append(seq, e)) = Len(seq) + 1 /\ Len(seq) \in Nat
        /\ DOMAIN Append(seq, e) = 1 .. Len(seq) + 1 /\ DOMAIN seq = 1 .. Len(seq)
        /\ \A i \in DOMAIN seq : Append(seq, e)[i] = seq[i]
        /\ Append(seq, e)[Len(seq) + 1] = e
    OBVIOUS
  <1>2. \A i \in DOMAIN Append(seq, e) : i \in DOMAIN seq \/ i = Len(seq) + 1  BY <1>1
  <1>3. Len(seq) + 1 \in DOMAIN Append(seq, e) /\ DOMAIN seq \subseteq DOMAIN Append(seq, e)  BY <1>1
  <1>4. Elems(Append(seq, e)) = Elems(seq) \cup {e}
    <2> HIDE DEF Elems
    <2>1. Elems(Append(seq, e)) \subseteq Elems(seq) \cup {e}  BY <1>1, <1>2 DEF Elems
    <2>2. Elems(seq) \cup {e} \subseteq Elems(Append(seq, e))  BY <1>1, <1>3 DEF Elems
    <2> QED  BY <2>1, <2>2
  <1> QED  BY <1>1, <1>4

LEMMA ElemsConcat ==
  ASSUME NEW S, NEW s \in Seq(S), NEW t \in Seq(S)
  PROVE  s \o t \in Seq(S) /\ Elems(s \o t) = Elems(s) \cup Elems(t)
  <1>1. /\ s \o t \in Seq(S) /\ Len(s \o t) = Len(s) + Len(t) /\ Len(s) \in Nat /\ Len(t) \in Nat
        /\ DOMAIN s = 1 .. Len(s) /\ DOMAIN t = 1 .. Len(t) /\ DOMAIN (s \o t) = 1 .. Len(s) + Len(t)
        /\ \A i \in 1 .. Len(s) : (s \o t)[i] = s[i]
        /\ \A i \in 1 .. Len(t) : (s \o t)[i + Len(s)] = t[i]
    OBVIOUS
  <1>2. \A i \in DOMAIN (s \o t) :
          \/ i \in DOMAIN s /\ (s \o t)[i] = s[i]
          \/ i - Len(s) \in DOMAIN t /\ (s \o t)[i] = t[i - Len(s)]
    <2>1. \A i \in 1 .. Len(s) + Len(t) : i \in 1 .. Len(s) \/ (i - Len(s) \in 1 .. Len(t) /\ (i - Len(s)) + Len(s) = i)
      BY <1>1
    <2> QED  BY <1>1, <2>1
  <1>3. /\ \A i \in DOMAIN s : i \in DOMAIN (s \o t) /\ (s \o t)[i] = s[i]
        /\ \A i \in DOMAIN t : i + Len(s) \in DOMAIN (s \o t) /\ (s \o t)[i + Len(s)] = t[i]
    BY <1>1
  <1>4. Elems(s \o t) \subseteq Elems(s) \cup Elems(t)  BY <1>2 DEF Elems
  <1>5. Elems(s) \cup Elems(t) \subseteq Elems(s \o t)  BY <1>3 DEF Elems
  <1> QED  BY <1>1, <1>4, <1>5

-----------------------------------------------------------------------------
(* What is needed is closed, and is within every closed set with Start.    *)
Closed(S) == Start \in S /\ \A u \in S, t \in DOMAIN defs : Refers(u, t) => t \in S

LEMMA NeededFacts ==
  /\ Needed \subseteq DOMAIN defs
  /\ Start \in DOMAIN defs => Start \in Needed
  /\ \A s \in Needed : \A t \in DOMAIN defs : Refers(s, t) => t \in Needed
  /\ \A S \in SUBSET DOMAIN defs : Closed(S) => Needed \subseteq S
  BY DEF Needed, Closed

(* What is needed follows from the definitions, which Link only reads.     *)
LEMMA SameDefs ==
  ASSUME UNCHANGED defs
  PROVE  /\ Needed' = Needed
         /\ \A s, i : Target(s, i)' = Target(s, i)
         /\ \A s : Refs(s)' = Refs(s)
  <1>1. \A s, i : Target(s, i)' = Target(s, i)  BY DEF Target
  <1>2. \A s, t : Refers(s, t)' <=> Refers(s, t)  BY <1>1 DEF Refers
  <1>3. Needed' = Needed  BY <1>2 DEF Needed
  <1> QED  BY <1>1, <1>3 DEF Refs

LEMMA RefsFacts ==
  ASSUME LinkType, NEW s \in DOMAIN defs
  PROVE  /\ Refs(s) \in Seq([from : Symbol, i : Nat])
         /\ \A p : p \in Elems(Refs(s)) <=> \E i \in DOMAIN defs[s].relocs : p = Ref(s, i)
         /\ DOMAIN defs[s].relocs \subseteq Nat
  <1>1. s \in Symbol /\ defs[s].relocs \in Seq(Reloc)  BY DEF LinkType, Def
  <1>2. DOMAIN defs[s].relocs = 1 .. Len(defs[s].relocs) /\ Len(defs[s].relocs) \in Nat  BY <1>1
  <1>3. \A i \in DOMAIN defs[s].relocs : [from |-> s, i |-> i] \in [from : Symbol, i : Nat]  BY <1>1, <1>2
  <1>4. Refs(s) \in Seq([from : Symbol, i : Nat])  BY <1>2, <1>3 DEF Refs
  <1>5. \A p : p \in Elems(Refs(s)) <=> \E i \in DOMAIN defs[s].relocs : p = Ref(s, i)
    BY DEF Refs, Elems, Ref
  <1> QED  BY <1>2, <1>4, <1>5

(* The kind, size and slots of a definition.                               *)
LEMMA DefFacts ==
  ASSUME LinkType, NEW s \in DOMAIN defs
  PROVE  /\ defs[s].kind \in Kind /\ defs[s].size \in Nat
         /\ \A i \in DOMAIN defs[s].relocs :
              /\ defs[s].relocs[i] \in Reloc /\ defs[s].relocs[i].off \in Nat
              /\ defs[s].relocs[i].addend \in Int
         /\ len[defs[s].kind] \in Nat
  <1>1. defs[s] \in Def  BY DEF LinkType
  <1>2. defs[s].kind \in Kind /\ defs[s].size \in Nat /\ defs[s].relocs \in Seq(Reloc)  BY <1>1 DEF Def
  <1>3. \A i \in DOMAIN defs[s].relocs : defs[s].relocs[i] \in Reloc  BY <1>2
  <1> QED  BY <1>2, <1>3 DEF LinkType, Reloc

LEMMA InitInv == Init => LinkInv
  <1> SUFFICES ASSUME Init PROVE LinkInv  OBVIOUS
  <1>1. files \in Seq(File)  BY LinkerConstants DEF Init
  <1>2. DOMAIN defs = {} /\ DOMAIN locs = {}  BY DEF Init
  <1>3. len \in [Kind -> Nat]  BY DEF Init
  <1> QED  BY <1>1, <1>2, <1>3 DEF Init, LinkInv, LinkType, Gathering

LEMMA GatherInv == LinkInv /\ Gather => LinkInv'
  <1> SUFFICES ASSUME LinkInv, Gather PROVE LinkInv'  OBVIOUS
  <1>1. phase = "gather" /\ files # <<>>  BY DEF Gather
  <1>2. LinkType /\ Gathering  BY <1>1 DEF LinkInv
  <1>3. Gathering'  BY <1>2 DEF Gathering, Gather
  <1> DEFINE f == Head(files)
             new == {f.pkg} \X DOMAIN f.defs
  <1>4. f \in File /\ Tail(files) \in Seq(File)  BY <1>1, <1>2 DEF LinkType
  <1>5. f.pkg \in Pkg /\ DOMAIN f.defs \subseteq Name
        /\ \A n \in DOMAIN f.defs : f.defs[n] \in Def /\ SlotsWithin(f.defs[n])
    BY <1>4, LinkerConstants
  <1>6. CASE f.pkg \in pkgs
    <2>1. phase' = "fatal" /\ UNCHANGED <<files, pkgs, defs, len>>  BY <1>6 DEF Gather
    <2>2. LinkType'  BY <1>2, <2>1 DEF LinkType
    <2>3. Fatal'  BY <1>1, <1>6, <2>1 DEF Fatal
    <2> QED  BY <2>1, <2>2, <2>3 DEF LinkInv
  <1>7. CASE f.pkg \notin pkgs
    <2>1. /\ defs' = [s \in DOMAIN defs \cup new |-> IF s \in new THEN f.defs[s[2]] ELSE defs[s]]
          /\ files' = Tail(files) /\ pkgs' = pkgs \cup {f.pkg} /\ phase' = phase /\ len' = len
      BY <1>7 DEF Gather
    <2>2. DOMAIN defs' = DOMAIN defs \cup new  BY <2>1
    <2>3. \A s \in new : s \in Symbol /\ s[2] \in DOMAIN f.defs  BY <1>5 DEF Symbol
    <2>4. \A s \in DOMAIN defs' : defs'[s] \in Def /\ SlotsWithin(defs'[s])
      <3> SUFFICES ASSUME NEW s \in DOMAIN defs' PROVE defs'[s] \in Def /\ SlotsWithin(defs'[s])  OBVIOUS
      <3>1. CASE s \in new
        <4>1. defs'[s] = f.defs[s[2]]  BY <2>1, <2>2, <3>1
        <4> QED  BY <1>5, <2>3, <3>1, <4>1
      <3>2. CASE s \notin new
        <4>1. defs'[s] = defs[s] /\ s \in DOMAIN defs  BY <2>1, <2>2, <3>2
        <4> QED  BY <1>2, <4>1 DEF LinkType
      <3> QED  BY <3>1, <3>2
    <2>5. LinkType'  BY <1>2, <1>4, <1>5, <2>1, <2>2, <2>3, <2>4 DEF LinkType
    <2> QED  BY <1>1, <1>3, <2>1, <2>5 DEF LinkInv
  <1> QED  BY <1>6, <1>7

LEMMA BeginInv == LinkInv /\ Begin => LinkInv'
  <1> SUFFICES ASSUME LinkInv, Begin PROVE LinkInv'  OBVIOUS
  <1>1. phase = "gather" /\ files = <<>>
        /\ UNCHANGED <<files, pkgs, defs, needfnm, locs, len, current, pending, relocations, off, words, layout>>
    BY DEF Begin
  <1>2. LinkType /\ Gathering  BY <1>1 DEF LinkInv
  <1>3. LinkType'  BY <1>1, <1>2 DEF LinkType
  <1>4. CASE Start \in DOMAIN defs /\ defs[Start].kind = "func"
    <2>1. phase' = "place" /\ needfn' = <<Start>>  BY <1>4 DEF Begin
    <2>2. Elems(<<Start>>) = {Start} /\ <<Start>> \in Seq(Symbol) /\ DOMAIN <<Start>> = {1}
      BY LinkerConstants DEF Elems
    <2>3. Start \in Needed /\ Needed' = Needed  BY <1>1, <1>4, NeededFacts, SameDefs
    <2>4. DOMAIN locs = {} /\ current = {} /\ pending = <<>> /\ relocations = {} /\ needfnm = {}
          /\ len = [k \in Kind |-> 0]
      BY <1>2 DEF Gathering
    <2>5. Reached'  BY <1>1, <1>4, <2>4, FS_EmptySet DEF Reached
    <2>6. Placement'
      <3>1. \A k \in Kind : len[k] = 0  BY <2>4
      <3> QED  BY <1>1, <2>4, <3>1 DEF Placement, Whole
    <2>7. Queue'  BY <1>1, <1>4, <2>1, <2>2, <2>3, <2>4 DEF Queue, Kind
    <2>8. Follow'
      <3>1. Elems(<<>>) = {} /\ <<>> \in Seq([from : Symbol, i : Nat])  BY DEF Elems
      <3> QED  BY <1>1, <2>4, <3>1 DEF Follow
    <2> QED  BY <1>3, <2>1, <2>5, <2>6, <2>7, <2>8 DEF LinkInv
  <1>5. CASE ~(Start \in DOMAIN defs /\ defs[Start].kind = "func")
    <2>1. phase' = "fatal"  BY <1>5 DEF Begin
    <2>2. Fatal'  BY <1>1, <1>5 DEF Fatal
    <2> QED  BY <1>3, <2>1, <2>2 DEF LinkInv
  <1> QED  BY <1>4, <1>5

-----------------------------------------------------------------------------
(* A new symbol gets the end of its section; the places given before stay. *)
LEMMA AtFacts ==
  ASSUME LinkType, NEW s \in DOMAIN defs, s \notin DOMAIN locs, locs' = At(s), UNCHANGED defs
  PROVE  /\ DOMAIN locs' = DOMAIN locs \cup {s}
         /\ locs'[s] = len[defs[s].kind]
         /\ \A t \in DOMAIN locs : locs'[t] = locs[t] /\ End(t)' = End(t)
         /\ \A t \in DOMAIN locs : \A i : CodeReloc(t, i)' = CodeReloc(t, i)
  <1>1. DOMAIN locs' = DOMAIN locs \cup {s}  BY DEF At
  <1>2. locs'[s] = len[defs[s].kind]  BY DEF At
  <1>3. \A t \in DOMAIN locs : locs'[t] = locs[t]  BY DEF At
  <1>4. \A t \in DOMAIN locs : End(t)' = End(t)  BY <1>3 DEF End
  <1>5. \A t \in DOMAIN locs : \A i : CodeReloc(t, i)' = CodeReloc(t, i)
    BY <1>3, SameDefs DEF CodeReloc
  <1> QED  BY <1>1, <1>2, <1>3, <1>4, <1>5

(* What holds while the linker places symbols.                             *)
Placing == LinkType /\ Reached /\ Placement /\ Queue /\ Follow

LEMMA PlacingInv == phase = "place" /\ LinkInv => Placing
  BY DEF LinkInv, Placing

LEMMA PlaceFuncInv == LinkInv /\ PlaceFunc => LinkInv'
  <1> SUFFICES ASSUME LinkInv, PlaceFunc PROVE LinkInv'  OBVIOUS
  <1> DEFINE f == Head(needfn)
  <1>1. /\ phase = "place" /\ current = {} /\ needfn # <<>>
        /\ current' = {f} /\ locs' = At(f) /\ pending' = Refs(f) /\ needfn' = Tail(needfn)
        /\ UNCHANGED <<files, pkgs, defs, needfnm, len, relocations, off, words, layout, phase>>
    BY DEF PlaceFunc
  <1>2. LinkType /\ Reached /\ Placement /\ Queue /\ Follow  BY <1>1, PlacingInv DEF Placing
  <1>3. LinkType'  BY <1>1, <1>2 DEF LinkType
  <1>4. needfn \in Seq(Symbol)  BY <1>2 DEF Queue
  <1>5. /\ Elems(needfn) = {f} \cup Elems(needfn') /\ needfn' \in Seq(Symbol)
        /\ f \in Elems(needfn) /\ f = needfn[1]
        /\ \A i \in DOMAIN needfn' : i + 1 \in DOMAIN needfn /\ needfn'[i] = needfn[i + 1]
    BY <1>1, <1>4, ElemsTail
  <1>6. f \in Needed /\ defs[f].kind = "func" /\ f \notin DOMAIN locs
    BY <1>2, <1>5 DEF Queue
  <1>7. f \in DOMAIN defs  BY <1>6, NeededFacts
  <1> HIDE DEF f
  <1>8. /\ DOMAIN locs' = DOMAIN locs \cup {f} /\ locs'[f] = len[defs[f].kind]
        /\ \A t \in DOMAIN locs : locs'[t] = locs[t] /\ End(t)' = End(t)
        /\ \A t \in DOMAIN locs : \A i : CodeReloc(t, i)' = CodeReloc(t, i)
    BY <1>1, <1>2, <1>6, <1>7, AtFacts
  <1>9. Needed' = Needed /\ \A s, i : Target(s, i)' = Target(s, i)  BY <1>1, SameDefs
  <1>10. Reached'
    <2>1. IsFiniteSet(DOMAIN locs')  BY <1>2, <1>8, FS_AddElement DEF Reached
    <2> QED  BY <1>1, <1>2, <1>6, <1>8, <1>9, <2>1 DEF Reached
  <1>11. Whole' = Whole /\ Whole = DOMAIN locs  BY <1>1, <1>6, <1>8 DEF Whole
  <1>12. Placement'
    <2>1. \A s \in DOMAIN locs' : locs'[s] \in Nat  BY <1>2, <1>6, <1>7, <1>8, DefFacts DEF Placement
    <2>2. \A g \in current' : g \in DOMAIN locs' /\ defs'[g].kind = "func" /\ locs'[g] = len'["func"]
      BY <1>1, <1>6, <1>8
    <2>3. \A s \in Whole' : End(s)' <= len'[defs'[s].kind]
      BY <1>1, <1>2, <1>8, <1>11 DEF Placement
    <2>4. \A s, t \in Whole' : s # t /\ defs'[s].kind = defs'[t].kind =>
            End(s)' <= locs'[t] \/ End(t)' <= locs'[s]
      BY <1>1, <1>2, <1>8, <1>11 DEF Placement
    <2>5. \A k \in Kind : \A b \in 0 .. len'[k] - 1 :
            \E s \in Whole' : defs'[s].kind = k /\ locs'[s] <= b /\ b < End(s)'
      BY <1>1, <1>2, <1>8, <1>11 DEF Placement
    <2>6. \A g, h \in current' : g = h  BY <1>1
    <2> QED  BY <2>1, <2>2, <2>3, <2>4, <2>5, <2>6 DEF Placement
  <1>13. Queue'
    <2>1. \A i \in DOMAIN needfn' : i + 1 \in DOMAIN needfn /\ i + 1 # 1 /\ 1 \in DOMAIN needfn
      <3>1. DOMAIN needfn' = 1 .. Len(needfn') /\ Len(needfn') \in Nat /\ DOMAIN needfn = 1 .. Len(needfn) /\ Len(needfn) \in Nat
        BY <1>4, <1>5
      <3> QED  BY <1>5, <3>1
    <2>2. f \notin Elems(needfn')  BY <1>2, <1>5, <2>1 DEF Queue, Elems
    <2>3. \A g \in Elems(needfn') :
            g \in Needed /\ defs[g].kind = "func" /\ g \notin DOMAIN locs' /\ g \in needfnm \cup {Start}
      BY <1>2, <1>5, <1>8, <2>2 DEF Queue
    <2>4. \A i, j \in DOMAIN needfn' : i # j => needfn'[i] # needfn'[j]
      <3> SUFFICES ASSUME NEW i \in DOMAIN needfn', NEW j \in DOMAIN needfn', i # j
                   PROVE  needfn'[i] # needfn'[j]
        OBVIOUS
      <3>1. i \in Nat /\ j \in Nat  BY <1>5
      <3>2. i + 1 # j + 1  BY <3>1
      <3> QED  BY <1>2, <1>5, <3>2 DEF Queue
    <2>5. needfnm \subseteq DOMAIN locs' \cup Elems(needfn')  BY <1>2, <1>5, <1>8 DEF Queue
    <2>6. Start \in DOMAIN locs' /\ locs'[Start] = 0
      <3>1. CASE Start \in DOMAIN locs /\ locs[Start] = 0  BY <1>8, <3>1
      <3>2. CASE needfn = <<Start>> /\ len["func"] = 0
        <4>1. f = Start  BY <1>5, <3>2
        <4> QED  BY <1>6, <1>8, <3>2, <4>1
      <3> QED  BY <1>2, <3>1, <3>2 DEF Queue
    <2> QED  BY <1>1, <1>5, <1>9, <2>3, <2>4, <2>5, <2>6 DEF Queue
  <1>14. Follow'
    <2>1. pending' \in Seq([from : Symbol, i : Nat])
          /\ \A p : p \in Elems(pending') <=> \E i \in DOMAIN defs[f].relocs : p = Ref(f, i)
      BY <1>1, <1>2, <1>7, RefsFacts
    <2>2. \A p \in Elems(pending') : p.from \in DOMAIN locs' /\ p.i \in DOMAIN defs[p.from].relocs /\ p.from \in current'
      BY <1>1, <1>8, <2>1 DEF Ref
    <2>3. Elems(pending) = {}  BY <1>1, <1>2 DEF Follow, Elems
    <2>4. \A s \in DOMAIN locs' : \A i \in DOMAIN defs[s].relocs :
            Ref(s, i) \in Elems(pending') \/ Target(s, i) \in DOMAIN locs' \cup Elems(needfn')
      BY <1>2, <1>5, <1>8, <2>1, <2>3 DEF Follow
    <2>5. \A s \in DOMAIN locs' : \A i \in DOMAIN defs[s].relocs : defs[s].kind = "func" =>
            Ref(s, i) \in Elems(pending') \/ CodeReloc(s, i)' \in relocations
      BY <1>2, <1>8, <2>1, <2>3 DEF Follow
    <2>6. \A r \in relocations : \E s \in DOMAIN locs' : \E i \in DOMAIN defs[s].relocs :
            /\ r = CodeReloc(s, i)' /\ defs[s].kind = "func"
            /\ Target(s, i) \in DOMAIN locs' \cup Elems(needfn')
      BY <1>2, <1>5, <1>8 DEF Follow
    <2>7. current' # {}  BY <1>1
    <2>8. \A s, i : Ref(s, i)' = Ref(s, i)  BY DEF Ref
    <2> QED  BY <1>1, <1>9, <2>1, <2>2, <2>4, <2>5, <2>6, <2>7, <2>8 DEF Follow
  <1> QED  BY <1>1, <1>3, <1>10, <1>12, <1>13, <1>14 DEF LinkInv

LEMMA WriteBodyInv == LinkInv /\ WriteBody => LinkInv'
  <1> SUFFICES ASSUME LinkInv, WriteBody PROVE LinkInv'  OBVIOUS
  <1>1. /\ phase = "place" /\ current # {} /\ pending = <<>> /\ current' = {}
        /\ UNCHANGED <<files, pkgs, defs, needfn, needfnm, locs, pending, relocations, off, words, layout, phase>>
    BY DEF WriteBody
  <1>2. LinkType /\ Reached /\ Placement /\ Queue /\ Follow  BY <1>1, PlacingInv DEF Placing
  <1>3. PICK f \in current : len' = [len EXCEPT !["func"] = @ + defs[f].size]  BY DEF WriteBody
  <1>4. current = {f} /\ f \in DOMAIN locs /\ defs[f].kind = "func" /\ locs[f] = len["func"]
    BY <1>2, <1>3 DEF Placement
  <1>5. f \in DOMAIN defs /\ DOMAIN locs \subseteq DOMAIN defs  BY <1>2, <1>4, NeededFacts DEF Reached
  <1>6. len["func"] \in Nat /\ defs[f].size \in Nat /\ len \in [Kind -> Nat]
    BY <1>2, <1>4, <1>5, DefFacts DEF LinkType
  <1>7. /\ len'["func"] = len["func"] + defs[f].size /\ len' \in [Kind -> Nat]
        /\ \A k \in Kind : k # "func" => len'[k] = len[k]
    BY <1>3, <1>6 DEF Kind
  <1>8. LinkType'  BY <1>1, <1>2, <1>7 DEF LinkType
  <1>9. Whole' = Whole \cup {f} /\ f \notin Whole /\ Whole \subseteq DOMAIN locs
    BY <1>1, <1>4 DEF Whole
  <1>10. End(f) = len'["func"]  BY <1>4, <1>7 DEF End
  <1>11. \A s \in Whole : /\ locs[s] \in Nat /\ End(s) \in Nat /\ End(s) <= len[defs[s].kind]
                          /\ defs[s].kind \in Kind /\ len[defs[s].kind] \in Nat
    BY <1>2, <1>5, <1>9, DefFacts DEF Placement, End
  <1>12. Placement'
    <2>1. \A s \in Whole' : End(s) <= len'[defs[s].kind]
      <3> SUFFICES ASSUME NEW s \in Whole' PROVE End(s) <= len'[defs[s].kind]  OBVIOUS
      <3>1. CASE s = f  BY <1>4, <1>6, <1>7, <1>10, <3>1
      <3>2. CASE s \in Whole /\ defs[s].kind = "func"  BY <1>6, <1>7, <1>11, <3>2
      <3>3. CASE s \in Whole /\ defs[s].kind # "func"  BY <1>7, <1>11, <3>3
      <3> QED  BY <1>9, <3>1, <3>2, <3>3
    <2>2. \A s, t \in Whole' : s # t /\ defs[s].kind = defs[t].kind => End(s) <= locs[t] \/ End(t) <= locs[s]
      <3> SUFFICES ASSUME NEW s \in Whole', NEW t \in Whole', s # t, defs[s].kind = defs[t].kind
                   PROVE  End(s) <= locs[t] \/ End(t) <= locs[s]
        OBVIOUS
      <3>1. CASE s \in Whole /\ t \in Whole  BY <1>2, <3>1 DEF Placement
      <3>2. CASE s = f /\ t \in Whole  BY <1>4, <1>11, <3>2
      <3>3. CASE t = f /\ s \in Whole  BY <1>4, <1>11, <3>3
      <3> QED  BY <1>9, <3>1, <3>2, <3>3
    <2>3. \A k \in Kind : \A b \in 0 .. len'[k] - 1 :
            \E s \in Whole' : defs[s].kind = k /\ locs[s] <= b /\ b < End(s)
      <3> SUFFICES ASSUME NEW k \in Kind, NEW b \in 0 .. len'[k] - 1
                   PROVE  \E s \in Whole' : defs[s].kind = k /\ locs[s] <= b /\ b < End(s)
        OBVIOUS
      <3>1. CASE b \in 0 .. len[k] - 1  BY <1>2, <1>9, <3>1 DEF Placement
      <3>2. CASE k = "func" /\ b \notin 0 .. len[k] - 1
        <4>1. locs[f] <= b /\ b < End(f)  BY <1>4, <1>6, <1>7, <1>10, <3>2
        <4> QED  BY <1>4, <1>9, <3>2, <4>1
      <3>3. CASE k # "func"  BY <1>7, <3>1, <3>3
      <3> QED  BY <3>1, <3>2, <3>3
    <2>4. \A s : End(s)' = End(s)  BY <1>1 DEF End
    <2> QED  BY <1>1, <1>2, <2>1, <2>2, <2>3, <2>4 DEF Placement
  <1>13. Needed' = Needed /\ \A s, i : Target(s, i)' = Target(s, i)  BY <1>1, SameDefs
  <1>14. Reached'  BY <1>1, <1>2, <1>13 DEF Reached
  <1>15. Queue'
    <2>1. Start \in DOMAIN locs /\ locs[Start] = 0  BY <1>2, <1>4 DEF Queue
    <2> QED  BY <1>1, <1>2, <1>13, <2>1 DEF Queue
  <1>16. Follow'
    <2>1. Elems(pending) = {}  BY <1>1 DEF Elems
    <2>2. \A s, i : CodeReloc(s, i)' = CodeReloc(s, i) /\ Ref(s, i)' = Ref(s, i)
      BY <1>1, <1>13 DEF CodeReloc, Ref
    <2> QED  BY <1>1, <1>2, <1>13, <2>1, <2>2 DEF Follow
  <1> QED  BY <1>1, <1>8, <1>12, <1>14, <1>15, <1>16 DEF LinkInv

-----------------------------------------------------------------------------
(* The relocation that is followed belongs to a placed symbol, so that its *)
(* target is needed.                                                       *)
LEMMA HereFacts ==
  ASSUME Placing, Following
  PROVE  /\ Here.from \in DOMAIN locs /\ Here.i \in DOMAIN defs[Here.from].relocs
         /\ Here = Ref(Here.from, Here.i) /\ Here \in Elems(pending)
         /\ defs[Here.from].kind = "func" => Here.from \in current
         /\ Elems(pending) = {Here} \cup Elems(Tail(pending))
         /\ Tail(pending) \in Seq([from : Symbol, i : Nat])
         /\ Here.from \in Needed
         /\ There \in DOMAIN defs => There \in Needed
         /\ Start \in DOMAIN locs /\ locs[Start] = 0
         /\ current # {}
  <1>1. pending \in Seq([from : Symbol, i : Nat]) /\ pending # <<>>  BY DEF Placing, Follow, Following
  <1>2. /\ Elems(pending) = {Here} \cup Elems(Tail(pending)) /\ Here \in Elems(pending)
        /\ Tail(pending) \in Seq([from : Symbol, i : Nat]) /\ Here \in [from : Symbol, i : Nat]
    BY <1>1, ElemsTail DEF Here
  <1>3. /\ Here.from \in DOMAIN locs /\ Here.i \in DOMAIN defs[Here.from].relocs
        /\ defs[Here.from].kind = "func" => Here.from \in current
    BY <1>2 DEF Placing, Follow
  <1>4. Here = Ref(Here.from, Here.i)  BY <1>2 DEF Ref
  <1>5. Here.from \in Needed  BY <1>3 DEF Placing, Reached
  <1>6. There \in DOMAIN defs => There \in Needed  BY <1>3, <1>5, NeededFacts DEF There, Refers
  <1>7. Start \in DOMAIN locs /\ locs[Start] = 0  BY <1>3 DEF Placing, Queue
  <1> QED  BY <1>1, <1>2, <1>3, <1>4, <1>5, <1>6, <1>7 DEF Placing, Follow

(* Following a relocation: its target is placed or queued afterwards, and  *)
(* a block that was placed for it has its own relocations pending.         *)
LEMMA FollowStep ==
  ASSUME Placing, Following, Keep, UNCHANGED <<defs, current>>,
         DOMAIN locs \subseteq DOMAIN locs',
         \A t \in DOMAIN locs : locs'[t] = locs[t],
         There \in DOMAIN locs' \cup Elems(needfn'),
         Elems(needfn) \subseteq DOMAIN locs' \cup Elems(needfn'),
         pending' \in Seq([from : Symbol, i : Nat]),
         Elems(Tail(pending)) \subseteq Elems(pending'),
         \A p \in Elems(pending') : p \in Elems(Tail(pending)) \/
           (p.from \in DOMAIN locs' /\ p.i \in DOMAIN defs[p.from].relocs /\ defs[p.from].kind # "func"),
         \A s \in DOMAIN locs' \ DOMAIN locs :
           defs[s].kind # "func" /\ \A i \in DOMAIN defs[s].relocs : Ref(s, i) \in Elems(pending')
  PROVE  Follow'
  <1>1. Follow  BY DEF Placing
  <1>2. /\ Here.from \in DOMAIN locs /\ Here.i \in DOMAIN defs[Here.from].relocs
        /\ Here = Ref(Here.from, Here.i) /\ Here \in Elems(pending)
        /\ defs[Here.from].kind = "func" => Here.from \in current
        /\ Elems(pending) = {Here} \cup Elems(Tail(pending)) /\ current # {}
    BY HereFacts
  <1>3. \A s, i : Target(s, i)' = Target(s, i)  BY SameDefs
  <1>4. \A s \in DOMAIN locs : \A i : CodeReloc(s, i)' = CodeReloc(s, i)  BY <1>3 DEF CodeReloc
  <1>5. \A s, i : Ref(s, i) = Here => s = Here.from /\ i = Here.i  BY DEF Ref
  <1>6. relocations \subseteq relocations'
        /\ (Here.from \in current => CodeReloc(Here.from, Here.i) \in relocations')
        /\ \A r \in relocations' : r \in relocations \/ (r = CodeReloc(Here.from, Here.i) /\ Here.from \in current)
    BY DEF Keep, CodeReloc, There
  <1>7. \A f \in current : defs[f].kind = "func"  BY DEF Placing, Placement
  <1>8. \A p \in Elems(pending') :
          /\ p.from \in DOMAIN locs' /\ p.i \in DOMAIN defs[p.from].relocs
          /\ defs[p.from].kind = "func" => p.from \in current
    BY <1>1, <1>2 DEF Follow
  <1>9. \A s \in DOMAIN locs' : \A i \in DOMAIN defs[s].relocs :
          Ref(s, i) \in Elems(pending') \/ Target(s, i) \in DOMAIN locs' \cup Elems(needfn')
    <2> SUFFICES ASSUME NEW s \in DOMAIN locs', NEW i \in DOMAIN defs[s].relocs
                 PROVE  Ref(s, i) \in Elems(pending') \/ Target(s, i) \in DOMAIN locs' \cup Elems(needfn')
      OBVIOUS
    <2>1. CASE s \notin DOMAIN locs  BY <2>1
    <2>2. CASE s \in DOMAIN locs /\ Ref(s, i) = Here
      <3>1. Target(s, i) = There  BY <1>5, <2>2 DEF There
      <3> QED  BY <3>1
    <2>3. CASE s \in DOMAIN locs /\ Ref(s, i) # Here  BY <1>1, <1>2, <2>3 DEF Follow
    <2> QED  BY <2>1, <2>2, <2>3
  <1>10. \A s \in DOMAIN locs' : \A i \in DOMAIN defs[s].relocs : defs[s].kind = "func" =>
           Ref(s, i) \in Elems(pending') \/ CodeReloc(s, i)' \in relocations'
    <2> SUFFICES ASSUME NEW s \in DOMAIN locs', NEW i \in DOMAIN defs[s].relocs, defs[s].kind = "func"
                 PROVE  Ref(s, i) \in Elems(pending') \/ CodeReloc(s, i)' \in relocations'
      OBVIOUS
    <2>1. s \in DOMAIN locs  OBVIOUS
    <2>2. CASE Ref(s, i) = Here  BY <1>2, <1>4, <1>5, <1>6, <2>1, <2>2
    <2>3. CASE Ref(s, i) # Here  BY <1>1, <1>2, <1>4, <1>6, <2>1, <2>3 DEF Follow
    <2> QED  BY <2>2, <2>3
  <1>11. \A r \in relocations' : \E s \in DOMAIN locs' : \E i \in DOMAIN defs[s].relocs :
           /\ r = CodeReloc(s, i)' /\ defs[s].kind = "func"
           /\ Target(s, i) \in DOMAIN locs' \cup Elems(needfn')
    <2> SUFFICES ASSUME NEW r \in relocations'
                 PROVE  \E s \in DOMAIN locs' : \E i \in DOMAIN defs[s].relocs :
                          /\ r = CodeReloc(s, i)' /\ defs[s].kind = "func"
                          /\ Target(s, i) \in DOMAIN locs' \cup Elems(needfn')
      OBVIOUS
    <2>1. CASE r \in relocations  BY <1>1, <1>4, <2>1 DEF Follow
    <2>2. CASE r = CodeReloc(Here.from, Here.i) /\ Here.from \in current
      <3>1. Target(Here.from, Here.i) \in DOMAIN locs' \cup Elems(needfn')  BY DEF There
      <3> QED  BY <1>2, <1>4, <1>7, <2>2, <3>1
    <2> QED  BY <1>6, <2>1, <2>2
  <1>12. \A s, i : Ref(s, i)' = Ref(s, i)  BY DEF Ref
  <1> QED  BY <1>2, <1>3, <1>8, <1>9, <1>10, <1>11, <1>12 DEF Follow

LEMMA FollowFuncInv == LinkInv /\ FollowFunc => LinkInv'
  <1> SUFFICES ASSUME LinkInv, FollowFunc PROVE LinkInv'  OBVIOUS
  <1>1. /\ Following /\ There \in DOMAIN defs /\ defs[There].kind = "func"
        /\ addNeeded(There) /\ Keep /\ pending' = Tail(pending)
        /\ UNCHANGED <<files, pkgs, defs, locs, len, current, off, words, layout, phase>>
    BY DEF FollowFunc
  <1>2. phase = "place"  BY <1>1 DEF Following
  <1>3. Placing /\ LinkType /\ Reached /\ Placement /\ Queue /\ Follow  BY <1>2, PlacingInv DEF Placing
  <1>4. LinkType'  BY <1>1, <1>3 DEF LinkType
  <1>5. Needed' = Needed  BY <1>1, SameDefs
  <1>6. Reached'  BY <1>1, <1>3, <1>5 DEF Reached
  <1>7. Placement'
    <2>1. Whole' = Whole /\ \A s : End(s)' = End(s)  BY <1>1 DEF Whole, End
    <2> QED  BY <1>1, <1>3, <2>1 DEF Placement
  <1>8. /\ There \in Needed /\ Tail(pending) \in Seq([from : Symbol, i : Nat])
        /\ Start \in DOMAIN locs /\ locs[Start] = 0
    BY <1>1, <1>3, HereFacts
  <1>9. There \in Symbol /\ needfn \in Seq(Symbol)  BY <1>1, <1>3 DEF LinkType, Queue
  <1>10. Queue' /\ Elems(needfn) \subseteq Elems(needfn') /\ There \in DOMAIN locs \cup Elems(needfn')
    <2>1. CASE There \in DOMAIN locs \/ There \in needfnm
      <3>1. UNCHANGED <<needfn, needfnm>>  BY <1>1, <2>1 DEF addNeeded
      <3>2. Queue'  BY <1>1, <1>3, <1>5, <1>8, <3>1 DEF Queue
      <3>3. There \in DOMAIN locs \cup Elems(needfn)  BY <1>3, <2>1 DEF Queue
      <3> QED  BY <3>1, <3>2, <3>3
    <2>2. CASE ~(There \in DOMAIN locs \/ There \in needfnm)
      <3>1. needfn' = Append(needfn, There) /\ needfnm' = needfnm \cup {There}
        BY <1>1, <2>2 DEF addNeeded
      <3>2. /\ needfn' \in Seq(Symbol) /\ Elems(needfn') = Elems(needfn) \cup {There}
            /\ DOMAIN needfn' = 1 .. Len(needfn) + 1 /\ DOMAIN needfn = 1 .. Len(needfn) /\ Len(needfn) \in Nat
            /\ \A i \in DOMAIN needfn : needfn'[i] = needfn[i]
            /\ needfn'[Len(needfn) + 1] = There
        BY <1>9, <3>1, ElemsAppend
      <3>3. There \notin Elems(needfn)  BY <1>3, <1>8, <2>2 DEF Queue
      <3>4. \A i, j \in DOMAIN needfn' : i # j => needfn'[i] # needfn'[j]
        <4>1. \A i \in DOMAIN needfn' : i \in DOMAIN needfn \/ i = Len(needfn) + 1  BY <3>2
        <4>2. \A i \in DOMAIN needfn : needfn[i] # There  BY <3>3 DEF Elems
        <4> QED  BY <1>3, <3>2, <4>1, <4>2 DEF Queue
      <3>5. \A f \in Elems(needfn') : /\ f \in Needed /\ defs[f].kind = "func" /\ f \notin DOMAIN locs
                                      /\ f \in needfnm' \cup {Start}
        BY <1>1, <1>3, <1>8, <2>2, <3>1, <3>2 DEF Queue
      <3>6. needfnm' \subseteq DOMAIN locs \cup Elems(needfn')  BY <1>3, <3>1, <3>2 DEF Queue
      <3>7. Queue'  BY <1>1, <1>5, <1>8, <3>2, <3>4, <3>5, <3>6 DEF Queue
      <3> QED  BY <3>2, <3>7
    <2> QED  BY <2>1, <2>2
  <1>11. Follow'  BY <1>1, <1>3, <1>8, <1>10, FollowStep
  <1> QED  BY <1>1, <1>2, <1>4, <1>6, <1>7, <1>10, <1>11 DEF LinkInv

LEMMA FollowObjectInv == LinkInv /\ FollowObject => LinkInv'
  <1> SUFFICES ASSUME LinkInv, FollowObject PROVE LinkInv'  OBVIOUS
  <1>1. /\ Following /\ There \in DOMAIN defs /\ defs[There].kind # "func" /\ addObject /\ Keep
        /\ UNCHANGED <<files, pkgs, defs, needfn, needfnm, current, off, words, layout, phase>>
    BY DEF FollowObject
  <1>2. phase = "place"  BY <1>1 DEF Following
  <1>3. Placing /\ LinkType /\ Reached /\ Placement /\ Queue /\ Follow  BY <1>2, PlacingInv DEF Placing
  <1>4. Needed' = Needed  BY <1>1, SameDefs
  <1>5. /\ There \in Needed /\ Tail(pending) \in Seq([from : Symbol, i : Nat])
        /\ Start \in DOMAIN locs /\ locs[Start] = 0
    BY <1>1, <1>3, HereFacts
  <1>6. CASE There \in DOMAIN locs
    <2>1. pending' = Tail(pending) /\ UNCHANGED <<locs, len>>  BY <1>1, <1>6 DEF addObject
    <2>2. LinkType'  BY <1>1, <1>3, <2>1 DEF LinkType
    <2>3. Reached'  BY <1>1, <1>3, <1>4, <2>1 DEF Reached
    <2>4. Placement'
      <3>1. Whole' = Whole /\ \A s : End(s)' = End(s)  BY <1>1, <2>1 DEF Whole, End
      <3> QED  BY <1>1, <1>3, <2>1, <3>1 DEF Placement
    <2>5. Queue'  BY <1>1, <1>3, <1>4, <1>5, <2>1 DEF Queue
    <2>6. Follow'  BY <1>1, <1>3, <1>5, <1>6, <2>1, FollowStep
    <2> QED  BY <1>1, <1>2, <2>2, <2>3, <2>4, <2>5, <2>6 DEF LinkInv
  <1>7. CASE There \notin DOMAIN locs
    <2>0. PICK s : s = There  OBVIOUS
    <2> DEFINE kind == defs[s].kind
    <2>1. /\ locs' = At(s) /\ len' = [len EXCEPT ![kind] = @ + defs[s].size]
          /\ pending' = Refs(s) \o Tail(pending)
      BY <1>1, <1>7, <2>0 DEF addObject
    <2>2. s \in DOMAIN defs /\ s \notin DOMAIN locs /\ s \in Needed /\ kind # "func" /\ defs[s].kind = kind
      BY <1>1, <1>5, <1>7, <2>0
    <2>3. /\ DOMAIN locs' = DOMAIN locs \cup {s} /\ locs'[s] = len[kind]
          /\ \A t \in DOMAIN locs : locs'[t] = locs[t] /\ End(t)' = End(t)
      BY <1>1, <1>3, <2>1, <2>2, AtFacts
    <2> HIDE DEF kind
    <2>4. kind \in Kind /\ defs[s].size \in Nat /\ len[kind] \in Nat /\ len \in [Kind -> Nat]
      BY <1>3, <2>2, DefFacts DEF LinkType
    <2>5. /\ len'[kind] = len[kind] + defs[s].size /\ len' \in [Kind -> Nat]
          /\ \A k \in Kind : k # kind => len'[k] = len[k]
      BY <2>1, <2>4
    <2>6. LinkType'  BY <1>1, <1>3, <2>5 DEF LinkType
    <2>7. Reached'
      <3>1. IsFiniteSet(DOMAIN locs')  BY <1>3, <2>3, FS_AddElement DEF Reached
      <3> QED  BY <1>1, <1>3, <1>4, <2>2, <2>3, <3>1 DEF Reached
    <2>8. \A f \in current : f \in DOMAIN locs /\ defs[f].kind = "func" /\ locs[f] = len["func"]
      BY <1>3 DEF Placement
    <2>9. Whole' = Whole \cup {s} /\ s \notin Whole /\ Whole \subseteq DOMAIN locs
      BY <1>1, <2>2, <2>3, <2>8 DEF Whole
    <2>10. End(s)' = len'[kind]  BY <1>1, <2>2, <2>3, <2>5 DEF End
    <2>11. DOMAIN locs \subseteq DOMAIN defs  BY <1>3, NeededFacts DEF Reached
    <2>12. \A t \in Whole : /\ locs[t] \in Nat /\ End(t) \in Nat /\ End(t) <= len[defs[t].kind]
                            /\ defs[t].kind \in Kind /\ len[defs[t].kind] \in Nat
                            /\ locs'[t] = locs[t] /\ End(t)' = End(t)
      BY <1>3, <2>3, <2>9, <2>11, DefFacts DEF Placement, End
    <2>13. Placement'
      <3>1. \A t \in Whole' : End(t)' <= len'[defs[t].kind]
        <4> SUFFICES ASSUME NEW t \in Whole' PROVE End(t)' <= len'[defs[t].kind]  OBVIOUS
        <4>1. CASE t = s  BY <2>2, <2>4, <2>5, <2>10, <4>1
        <4>2. CASE t \in Whole /\ defs[t].kind = kind
          <5>1. End(t)' \in Nat /\ End(t)' <= len[kind]  BY <2>12, <4>2
          <5> QED  BY <2>4, <2>5, <4>2, <5>1
        <4>3. CASE t \in Whole /\ defs[t].kind # kind  BY <2>5, <2>12, <4>3
        <4> QED  BY <2>9, <4>1, <4>2, <4>3
      <3>2. \A t, u \in Whole' : t # u /\ defs[t].kind = defs[u].kind => End(t)' <= locs'[u] \/ End(u)' <= locs'[t]
        <4> SUFFICES ASSUME NEW t \in Whole', NEW u \in Whole', t # u, defs[t].kind = defs[u].kind
                     PROVE  End(t)' <= locs'[u] \/ End(u)' <= locs'[t]
          OBVIOUS
        <4>1. CASE t \in Whole /\ u \in Whole
          <5>1. End(t) <= locs[u] \/ End(u) <= locs[t]  BY <1>3, <4>1 DEF Placement
          <5> QED  BY <2>12, <4>1, <5>1
        <4>2. CASE t = s /\ u \in Whole  BY <2>2, <2>3, <2>12, <4>2
        <4>3. CASE u = s /\ t \in Whole  BY <2>2, <2>3, <2>12, <4>3
        <4> QED  BY <2>9, <4>1, <4>2, <4>3
      <3>3. \A k \in Kind : \A b \in 0 .. len'[k] - 1 :
              \E t \in Whole' : defs[t].kind = k /\ locs'[t] <= b /\ b < End(t)'
        <4> SUFFICES ASSUME NEW k \in Kind, NEW b \in 0 .. len'[k] - 1
                     PROVE  \E t \in Whole' : defs[t].kind = k /\ locs'[t] <= b /\ b < End(t)'
          OBVIOUS
        <4>1. CASE b \in 0 .. len[k] - 1
          <5>1. PICK t \in Whole : defs[t].kind = k /\ locs[t] <= b /\ b < End(t)
            BY <1>3, <4>1 DEF Placement
          <5> QED  BY <2>9, <2>12, <5>1
        <4>2. CASE k = kind /\ b \notin 0 .. len[k] - 1
          <5>1. locs'[s] <= b /\ b < len'[kind]  BY <2>3, <2>4, <2>5, <4>2
          <5> QED  BY <2>2, <2>9, <2>10, <4>2, <5>1
        <4>3. CASE k # kind  BY <2>5, <4>1, <4>3
        <4> QED  BY <4>1, <4>2, <4>3
      <3>4. \A t \in DOMAIN locs' : locs'[t] \in Nat  BY <1>3, <2>3, <2>4 DEF Placement
      <3>5. \A f \in current : f \in DOMAIN locs' /\ locs'[f] = len'["func"]
        BY <2>2, <2>3, <2>5, <2>8 DEF Kind
      <3> QED  BY <1>1, <1>3, <2>8, <3>1, <3>2, <3>3, <3>4, <3>5 DEF Placement
    <2>14. Queue'
      <3>1. s \notin Elems(needfn)  BY <1>3, <2>2 DEF Queue
      <3> QED  BY <1>1, <1>3, <1>4, <1>5, <2>3, <3>1 DEF Queue
    <2>15. Follow'
      <3>1. /\ Refs(s) \in Seq([from : Symbol, i : Nat])
            /\ \A p : p \in Elems(Refs(s)) <=> \E i \in DOMAIN defs[s].relocs : p = Ref(s, i)
        BY <1>3, <2>2, RefsFacts
      <3>2. pending' \in Seq([from : Symbol, i : Nat]) /\ Elems(pending') = Elems(Refs(s)) \cup Elems(Tail(pending))
        <4>1. PICK R, a, b : R = [from : Symbol, i : Nat] /\ a = Refs(s) /\ b = Tail(pending)
          OBVIOUS
        <4>2. a \in Seq(R)  BY <3>1, <4>1
        <4>3. b \in Seq(R)  BY <1>5, <4>1
        <4>4. pending' = a \o b  BY <2>1, <4>1
        <4>5. a \o b \in Seq(R) /\ Elems(a \o b) = Elems(a) \cup Elems(b)
          BY <4>2, <4>3, ElemsConcat, Zenon
        <4> QED  BY <4>1, <4>4, <4>5
      <3>3. \A p \in Elems(pending') : p \in Elems(Tail(pending)) \/
              (p.from \in DOMAIN locs' /\ p.i \in DOMAIN defs[p.from].relocs /\ defs[p.from].kind # "func")
        BY <2>2, <2>3, <3>1, <3>2 DEF Ref
      <3>4. \A t \in DOMAIN locs' \ DOMAIN locs :
              defs[t].kind # "func" /\ \A i \in DOMAIN defs[t].relocs : Ref(t, i) \in Elems(pending')
        BY <2>2, <2>3, <3>1, <3>2
      <3>5. There \in DOMAIN locs'  BY <2>0, <2>3
      <3> QED  BY <1>1, <1>3, <2>3, <3>2, <3>3, <3>4, <3>5, FollowStep
    <2> QED  BY <1>1, <1>2, <2>6, <2>7, <2>13, <2>14, <2>15 DEF LinkInv
  <1> QED  BY <1>6, <1>7

LEMMA NoSuchSymbolInv == LinkInv /\ NoSuchSymbol => LinkInv'
  <1> SUFFICES ASSUME LinkInv, NoSuchSymbol PROVE LinkInv'  OBVIOUS
  <1>1. /\ Following /\ There \notin DOMAIN defs /\ phase' = "fatal" /\ phase = "place"
        /\ UNCHANGED <<files, pkgs, defs, len>>
    BY DEF NoSuchSymbol, Following
  <1>2. Placing /\ LinkType  BY <1>1, PlacingInv DEF Placing
  <1>3. Here.from \in Needed /\ Here.i \in DOMAIN defs[Here.from].relocs  BY <1>1, <1>2, HereFacts
  <1>4. Needed' = Needed /\ \A s, i : Target(s, i)' = Target(s, i)  BY <1>1, SameDefs
  <1>5. \E s \in Needed : \E i \in DOMAIN defs[s].relocs : Target(s, i) \notin DOMAIN defs
    BY <1>1, <1>3 DEF There
  <1>6. Fatal'  BY <1>1, <1>4, <1>5 DEF Fatal
  <1>7. LinkType'  BY <1>1, <1>2 DEF LinkType
  <1> QED  BY <1>1, <1>6, <1>7 DEF LinkInv

-----------------------------------------------------------------------------
(* Steps that leave the definitions and the places alone.                  *)
LEMMA SamePlaces ==
  ASSUME LinkType, Reached, Placement, Queue, Follow,
         UNCHANGED <<files, pkgs, defs, needfn, needfnm, locs, len, current, pending, relocations>>
  PROVE  LinkType' /\ Reached' /\ Placement' /\ Queue' /\ Follow'
  <1>1. Needed' = Needed /\ \A s, i : Target(s, i)' = Target(s, i)  BY SameDefs
  <1>2. LinkType'  BY DEF LinkType
  <1>3. Reached'  BY <1>1 DEF Reached
  <1>4. Placement'  BY DEF Placement, Whole, End
  <1>5. Queue'  BY <1>1 DEF Queue
  <1>6. Follow'
    <2>1. \A s, i : CodeReloc(s, i)' = CodeReloc(s, i) /\ Ref(s, i)' = Ref(s, i)
      BY <1>1 DEF CodeReloc, Ref
    <2> QED  BY <1>1, <2>1 DEF Follow
  <1> QED  BY <1>2, <1>3, <1>4, <1>5, <1>6

LEMMA SectionsInv == LinkInv /\ Sections => LinkInv'
  <1> SUFFICES ASSUME LinkInv, Sections PROVE LinkInv'  OBVIOUS
  <1>1. /\ phase = "place" /\ current = {} /\ needfn = <<>> /\ off' = SectionAddrs /\ phase' = "relocate"
        /\ UNCHANGED <<files, pkgs, defs, needfn, needfnm, locs, len, current, pending, relocations>>
    BY DEF Sections
  <1>2. LinkType /\ Reached /\ Placement /\ Queue /\ Follow  BY <1>1, PlacingInv DEF Placing
  <1>3. LinkType' /\ Reached' /\ Placement' /\ Queue' /\ Follow'  BY <1>1, <1>2, SamePlaces
  <1>4. SectionAddrs' = SectionAddrs  BY <1>1 DEF SectionAddrs
  <1>5. Linked'  BY <1>1, <1>4 DEF Linked
  <1> QED  BY <1>1, <1>3, <1>5 DEF LinkInv

(* Once queue and stack are empty, every target has a place.               *)
LEMMA AllPlaced ==
  ASSUME Follow, current = {}, needfn = <<>>
  PROVE  /\ \A s \in DOMAIN locs : \A i \in DOMAIN defs[s].relocs : Target(s, i) \in DOMAIN locs
         /\ \A s \in DOMAIN locs : \A i \in DOMAIN defs[s].relocs :
              defs[s].kind = "func" => CodeReloc(s, i) \in relocations
         /\ \A r \in relocations : \E s \in DOMAIN locs : \E i \in DOMAIN defs[s].relocs :
              r = CodeReloc(s, i) /\ defs[s].kind = "func"
  <1>1. Elems(pending) = {} /\ Elems(needfn) = {}  BY DEF Follow, Elems
  <1> QED  BY <1>1 DEF Follow

LEMMA RelocateInv == LinkInv /\ Relocate => LinkInv'
  <1> SUFFICES ASSUME LinkInv, Relocate PROVE LinkInv'  OBVIOUS
  <1>1. /\ phase = "relocate"
        /\ UNCHANGED <<files, pkgs, defs, needfn, needfnm, locs, len, current, pending, relocations, off, layout>>
    BY DEF Relocate
  <1>2. LinkType /\ Reached /\ Placement /\ Queue /\ Follow /\ Linked  BY <1>1 DEF LinkInv
  <1>3. LinkType' /\ Reached' /\ Placement' /\ Queue' /\ Follow'  BY <1>1, <1>2, SamePlaces
  <1>4. Linked'  BY <1>1, <1>2 DEF Linked, SectionAddrs
  <1>5. ~Unplaced
    <2>1. \A s \in DOMAIN locs : \A i \in DOMAIN defs[s].relocs : Target(s, i) \in DOMAIN locs
      BY <1>2, AllPlaced DEF Linked
    <2>2. \A r \in relocations : \E s \in DOMAIN locs : \E i \in DOMAIN defs[s].relocs : r = CodeReloc(s, i)
      BY <1>2, AllPlaced DEF Linked
    <2>3. \A r \in relocations : r.to \in DOMAIN locs  BY <2>1, <2>2 DEF CodeReloc
    <2> QED  BY <2>1, <2>3 DEF Unplaced, Blocks
  <1>6. phase' = "write" /\ words' = Words  BY <1>5 DEF Relocate
  <1>7. Words' = Words  BY <1>1 DEF Words, CodeWord, DataWord, Addr, Blocks, Target
  <1> QED  BY <1>3, <1>4, <1>6, <1>7 DEF LinkInv

LEMMA WriteElfInv == LinkInv /\ WriteElf => LinkInv'
  <1> SUFFICES ASSUME LinkInv, WriteElf PROVE LinkInv'  OBVIOUS
  <1>1. /\ phase = "write" /\ phase' = "done"
        /\ UNCHANGED <<files, pkgs, defs, needfn, needfnm, locs, len, current, pending, relocations, off, words>>
    BY DEF WriteElf
  <1>2. LinkType /\ Reached /\ Placement /\ Queue /\ Follow /\ Linked /\ words = Words  BY <1>1 DEF LinkInv
  <1>3. LinkType' /\ Reached' /\ Placement' /\ Queue' /\ Follow'  BY <1>1, <1>2, SamePlaces
  <1>4. Linked'  BY <1>1, <1>2 DEF Linked, SectionAddrs
  <1>5. Words' = Words  BY <1>1 DEF Words, CodeWord, DataWord, Addr, Blocks, Target
  <1>6. Laid'
    <2> DEFINE a == SymSize * (1 + Cardinality(DOMAIN locs))
    <2>1. Cardinality(DOMAIN locs) \in Nat  BY <1>2, FS_CardinalityType DEF Reached
    <2>2. a \in Nat  BY <2>1, LinkerConstants
    <2>3. PICK b \in StringSizes, c \in StringSizes :
            layout' = FileOffsets(<<len["func"], len["var"], len["data"], a, b, c>>)
      BY DEF WriteElf
    <2>4. b \in Nat /\ c \in Nat  BY LinkerConstants
    <2>5. PICK n \in Nat : n = a  BY <2>2
    <2>6. layout' = FileOffsets(<<len'["func"], len'["var"], len'["data"], n, b, c>>)  BY <1>1, <2>3, <2>5
    <2> HIDE DEF a
    <2> QED  BY <2>4, <2>6 DEF Laid
  <1> QED  BY <1>1, <1>2, <1>3, <1>4, <1>5, <1>6 DEF LinkInv

LEMMA NextInv == LinkInv /\ [Next]_vars => LinkInv'
  <1> SUFFICES ASSUME LinkInv, [Next]_vars PROVE LinkInv'  OBVIOUS
  <1>1. CASE UNCHANGED vars
    <2>1. /\ UNCHANGED <<files, pkgs, defs, needfn, needfnm, locs, len, current, pending, relocations>>
          /\ UNCHANGED <<off, words, layout, phase>>
      BY <1>1 DEF vars
    <2>2. Needed' = Needed /\ \A s, i : Target(s, i)' = Target(s, i)  BY <2>1, SameDefs
    <2>3. Words' = Words  BY <2>1 DEF Words, CodeWord, DataWord, Addr, Blocks, Target
    <2>4. SectionAddrs' = SectionAddrs  BY <2>1 DEF SectionAddrs
    <2>5. LinkType => LinkType'  BY <2>1 DEF LinkType
    <2>6. Gathering => Gathering'  BY <2>1 DEF Gathering
    <2>7. Fatal => Fatal'  BY <2>1, <2>2 DEF Fatal
    <2>8. LinkType /\ Reached /\ Placement /\ Queue /\ Follow => Reached' /\ Placement' /\ Queue' /\ Follow'
      BY <2>1, SamePlaces
    <2>9. (Linked => Linked') /\ (Laid => Laid')  BY <2>1, <2>4 DEF Linked, Laid
    <2> QED  BY <2>1, <2>3, <2>5, <2>6, <2>7, <2>8, <2>9 DEF LinkInv
  <1> QED
    BY <1>1, GatherInv, BeginInv, PlaceFuncInv, FollowFuncInv, FollowObjectInv, NoSuchSymbolInv,
       WriteBodyInv, SectionsInv, RelocateInv, WriteElfInv DEF Next

(* The invariant of the placement loop, for every list of object files.    *)
THEOREM LinkInvariant == Spec => []LinkInv
  <1>1. Init => LinkInv  BY InitInv
  <1>2. LinkInv /\ [Next]_vars => LinkInv'  BY NextInv
  <1> QED  BY <1>1, <1>2, PTL DEF Spec

(* The executable holds exactly what is reachable from the entry point     *)
(* along the relocations, and Link (linker.go) gives up only for a reason  *)
(* that is in the object files: its own `unresolved' exits in the          *)
(* relocation pass are never taken.                                        *)
THEOREM LinksExactly == Spec => []LinksNeeded
  <1>1. LinkInv => LinksNeeded
    <2> SUFFICES ASSUME LinkInv PROVE LinksNeeded  OBVIOUS
    <2>1. phase = "fatal" => Fatal  BY DEF LinkInv
    <2>2. ASSUME phase = "done" PROVE DOMAIN locs = Needed
      <3>1. Reached /\ Queue /\ Follow /\ Linked  BY <2>2 DEF LinkInv
      <3>2. DOMAIN locs \subseteq Needed /\ DOMAIN locs \in SUBSET DOMAIN defs
        BY <3>1, NeededFacts DEF Reached
      <3>3. Start \in DOMAIN locs  BY <3>1 DEF Queue, Linked
      <3>4. \A s \in DOMAIN locs : \A i \in DOMAIN defs[s].relocs : Target(s, i) \in DOMAIN locs
        BY <3>1, AllPlaced DEF Linked
      <3>5. Closed(DOMAIN locs)  BY <3>3, <3>4 DEF Closed, Refers
      <3>6. Needed \subseteq DOMAIN locs  BY <3>2, <3>5, NeededFacts
      <3> QED  BY <3>2, <3>6
    <2> QED  BY <2>1, <2>2 DEF LinksNeeded, Fatal
  <1> QED  BY <1>1, LinkInvariant, PTL

-----------------------------------------------------------------------------
(* The sections follow each other, and a page begins between two of them.  *)
Before(j, k) == off[j] + len[j] < off[k] /\ \E q \in Nat : off[k] = q * Page

LEMMA SectionFacts ==
  ASSUME LinkType, off = SectionAddrs
  PROVE  /\ off["func"] = TextOff
         /\ \A k \in Kind : off[k] \in Nat /\ off[k] % Page = 0 /\ len[k] \in Nat
         /\ \A j, k \in Kind : j # k => Before(j, k) \/ Before(k, j)
  <1> DEFINE v == RoundUp(TextOff + len["func"])
             d == RoundUp(v + len["var"])
  <1>1. len["func"] \in Nat /\ len["var"] \in Nat /\ len["data"] \in Nat /\ TextOff \in Nat /\ TextOff % Page = 0
    BY LinkerConstants DEF LinkType, Kind
  <1>2. off["func"] = TextOff /\ off["var"] = v /\ off["data"] = d
    BY DEF SectionAddrs, Kind
  <1>3. TextOff + len["func"] \in Nat  BY <1>1
  <1>4. v \in Nat /\ v % Page = 0 /\ TextOff + len["func"] < v /\ \E q \in Nat : v = q * Page
    BY <1>3, RoundUpFacts
  <1> HIDE DEF v
  <1>5. v + len["var"] \in Nat  BY <1>1, <1>4
  <1>6. d \in Nat /\ d % Page = 0 /\ v + len["var"] < d /\ \E q \in Nat : d = q * Page
    BY <1>5, RoundUpFacts
  <1> HIDE DEF d
  <1>7. Before("func", "var")  BY <1>2, <1>4 DEF Before
  <1>8. Before("var", "data")  BY <1>2, <1>6 DEF Before
  <1>9. Before("func", "data")
    <2>1. TextOff + len["func"] < d  BY <1>1, <1>4, <1>6
    <2> QED  BY <1>2, <1>6, <2>1 DEF Before
  <1> QED  BY <1>1, <1>2, <1>4, <1>6, <1>7, <1>8, <1>9 DEF Kind

(* A placed symbol lies within its section, and two of them are apart.     *)
LEMMA PlacesFacts ==
  ASSUME LinkType, Reached, Placement, Linked
  PROVE  /\ \A s \in DOMAIN locs :
              /\ s \in DOMAIN defs /\ Addr(s) \in Nat /\ defs[s].kind \in Kind /\ defs[s].size \in Nat
              /\ off[defs[s].kind] <= Addr(s)
              /\ Addr(s) + defs[s].size <= off[defs[s].kind] + len[defs[s].kind]
         /\ \A s, t \in DOMAIN locs : s # t =>
              Addr(s) + defs[s].size <= Addr(t) \/ Addr(t) + defs[t].size <= Addr(s)
  <1>1. \A k \in Kind : off[k] \in Nat /\ len[k] \in Nat  BY SectionFacts DEF Linked
  <1>2. \A j, k \in Kind : j # k => Before(j, k) \/ Before(k, j)  BY SectionFacts DEF Linked
  <1>3. Whole = DOMAIN locs  BY DEF Whole, Linked
  <1>4. DOMAIN locs \subseteq DOMAIN defs  BY NeededFacts DEF Reached
  <1>5. \A s \in DOMAIN locs : /\ locs[s] \in Nat /\ defs[s].kind \in Kind /\ defs[s].size \in Nat
                               /\ locs[s] + defs[s].size <= len[defs[s].kind]
    BY <1>3, <1>4, DefFacts DEF Placement, End
  <1>6. \A s \in DOMAIN locs :
          /\ Addr(s) \in Nat /\ off[defs[s].kind] <= Addr(s)
          /\ Addr(s) + defs[s].size <= off[defs[s].kind] + len[defs[s].kind]
    BY <1>1, <1>5 DEF Addr
  <1>7. ASSUME NEW s \in DOMAIN locs, NEW t \in DOMAIN locs, s # t
        PROVE  Addr(s) + defs[s].size <= Addr(t) \/ Addr(t) + defs[t].size <= Addr(s)
    <2>1. CASE defs[s].kind = defs[t].kind
      <3>1. locs[s] + defs[s].size <= locs[t] \/ locs[t] + defs[t].size <= locs[s]
        BY <1>3, <1>7, <2>1 DEF Placement, End
      <3> QED  BY <1>1, <1>5, <2>1, <3>1 DEF Addr
    <2>2. CASE defs[s].kind # defs[t].kind
      <3>1. \/ off[defs[s].kind] + len[defs[s].kind] < off[defs[t].kind]
            \/ off[defs[t].kind] + len[defs[t].kind] < off[defs[s].kind]
        BY <1>2, <1>5, <2>2 DEF Before
      <3> QED  BY <1>1, <1>5, <1>6, <3>1
    <2> QED  BY <2>1, <2>2
  <1> QED  BY <1>4, <1>5, <1>6, <1>7

(* No byte of the executable belongs to two symbols, however often they    *)
(* are referred to, no page to two sections, the sections have no holes,   *)
(* and the entry point is the first byte of the text.                      *)
THEOREM SymbolsApart == Spec => []PlacedApart
  <1>1. LinkInv => PlacedApart
    <2> SUFFICES ASSUME LinkInv, phase \in {"relocate", "write", "done"}
                 PROVE  /\ \A s, t \in DOMAIN locs :
                             /\ s # t => Extent(s) \cap Extent(t) = {}
                             /\ defs[s].kind # defs[t].kind =>
                                  \A a \in Extent(s), b \in Extent(t) : a \div Page # b \div Page
                        /\ Addr(Start) = TextOff
                        /\ \A k \in Kind : UNION {Extent(s) : s \in {t \in DOMAIN locs : defs[t].kind = k}}
                                             = off[k] .. off[k] + len[k] - 1
      BY DEF PlacedApart
    <2>1. LinkType /\ Reached /\ Placement /\ Queue /\ Linked  BY DEF LinkInv
    <2>2. /\ off["func"] = TextOff
          /\ \A k \in Kind : off[k] \in Nat /\ len[k] \in Nat
          /\ \A j, k \in Kind : j # k => Before(j, k) \/ Before(k, j)
      BY <2>1, SectionFacts DEF Linked
    <2>3. /\ \A s \in DOMAIN locs :
               /\ Addr(s) \in Nat /\ defs[s].kind \in Kind /\ defs[s].size \in Nat
               /\ off[defs[s].kind] <= Addr(s)
               /\ Addr(s) + defs[s].size <= off[defs[s].kind] + len[defs[s].kind]
          /\ \A s, t \in DOMAIN locs : s # t =>
               Addr(s) + defs[s].size <= Addr(t) \/ Addr(t) + defs[t].size <= Addr(s)
      BY <2>1, PlacesFacts
    <2>4. ASSUME NEW s \in DOMAIN locs, NEW t \in DOMAIN locs, s # t PROVE Extent(s) \cap Extent(t) = {}
      <3> SUFFICES ASSUME NEW a \in Extent(s), a \in Extent(t) PROVE FALSE  OBVIOUS
      <3>1. a \in Nat /\ Addr(s) <= a /\ a < Addr(s) + defs[s].size
            /\ Addr(t) <= a /\ a < Addr(t) + defs[t].size
        BY <2>3 DEF Extent
      <3> QED  BY <2>3, <2>4, <3>1
    <2>5. ASSUME NEW s \in DOMAIN locs, NEW t \in DOMAIN locs, Before(defs[s].kind, defs[t].kind),
                 NEW a \in Extent(s), NEW b \in Extent(t)
          PROVE  a \div Page # b \div Page
      <3>1. a \in Nat /\ b \in Nat /\ a < Addr(s) + defs[s].size /\ Addr(t) <= b  BY <2>3 DEF Extent
      <3>2. PICK q \in Nat : off[defs[t].kind] = q * Page  BY <2>5 DEF Before
      <3>3. off[defs[s].kind] + len[defs[s].kind] < q * Page  BY <2>5, <3>2 DEF Before
      <3>4. q * Page \in Nat  BY LinkerConstants
      <3>5. a < q * Page /\ q * Page <= b
        <4> DEFINE p == q * Page
        <4>1. p \in Nat /\ off[defs[t].kind] = p /\ off[defs[s].kind] + len[defs[s].kind] < p
          BY <3>2, <3>3, <3>4
        <4> HIDE DEF p
        <4>2. a < p /\ p <= b  BY <2>2, <2>3, <3>1, <4>1
        <4> QED  BY <4>2 DEF p
      <3> QED  BY <3>1, <3>5, PageBetween
    <2>6. ASSUME NEW s \in DOMAIN locs, NEW t \in DOMAIN locs, defs[s].kind # defs[t].kind,
                 NEW a \in Extent(s), NEW b \in Extent(t)
          PROVE  a \div Page # b \div Page
      BY <2>2, <2>3, <2>5, <2>6
    <2>7. Addr(Start) = TextOff
      <3>1. locs[Start] = 0 /\ defs[Start].kind = "func"  BY <2>1 DEF Queue, Linked, Reached
      <3> QED  BY <2>2, <3>1, LinkerConstants DEF Addr
    <2>8. ASSUME NEW k \in Kind
          PROVE  UNION {Extent(s) : s \in {t \in DOMAIN locs : defs[t].kind = k}} = off[k] .. off[k] + len[k] - 1
      <3>1. ASSUME NEW s \in DOMAIN locs, defs[s].kind = k, NEW a \in Extent(s)
            PROVE  a \in off[k] .. off[k] + len[k] - 1
        BY <2>2, <2>3, <3>1 DEF Extent
      <3>2. ASSUME NEW a \in off[k] .. off[k] + len[k] - 1
            PROVE  \E s \in DOMAIN locs : defs[s].kind = k /\ a \in Extent(s)
        <4>1. a - off[k] \in 0 .. len[k] - 1  BY <2>2
        <4>2. PICK s \in Whole : defs[s].kind = k /\ locs[s] <= a - off[k] /\ a - off[k] < End(s)
          BY <2>1, <4>1 DEF Placement
        <4>3. s \in DOMAIN locs /\ locs[s] \in Nat  BY <2>1 DEF Whole, Placement
        <4>4. a \in Extent(s)  BY <2>2, <2>3, <4>2, <4>3 DEF Extent, Addr, End
        <4> QED  BY <4>2, <4>3, <4>4
      <3> QED  BY <3>1, <3>2
    <2> QED  BY <2>4, <2>6, <2>7, <2>8
  <1> QED  BY <1>1, LinkInvariant, PTL

-----------------------------------------------------------------------------
(* The word in the slot of a relocation.                                   *)
Word(s, i) ==
  [at |-> Addr(s) + defs[s].relocs[i].off, size |-> SlotSize(defs[s]),
   val |-> IF defs[s].kind = "func" THEN CodeWord(CodeReloc(s, i)) ELSE DataWord(s, i)]

LEMMA WordsFacts ==
  ASSUME LinkType, Reached, Placement, Follow, Linked
  PROVE  /\ \A s \in DOMAIN locs : \A i \in DOMAIN defs[s].relocs : Word(s, i) \in Words
         /\ \A w \in Words : \E s \in DOMAIN locs : \E i \in DOMAIN defs[s].relocs : w = Word(s, i)
  <1>1. \A s \in DOMAIN locs : \A i \in DOMAIN defs[s].relocs :
          defs[s].kind = "func" => CodeReloc(s, i) \in relocations
    BY AllPlaced DEF Linked
  <1>2. \A r \in relocations : \E s \in DOMAIN locs : \E i \in DOMAIN defs[s].relocs :
          r = CodeReloc(s, i) /\ defs[s].kind = "func"
    BY AllPlaced DEF Linked
  <1>3. DOMAIN locs \subseteq DOMAIN defs  BY NeededFacts DEF Reached
  <1>4. ASSUME NEW s \in DOMAIN locs, NEW i \in DOMAIN defs[s].relocs, defs[s].kind = "func"
        PROVE  Word(s, i) = [at |-> TextOff + CodeReloc(s, i).at, size |-> 4, val |-> CodeWord(CodeReloc(s, i))]
    <2>1. off["func"] = TextOff /\ TextOff \in Nat  BY SectionFacts, LinkerConstants DEF Linked
    <2>2. locs[s] \in Nat /\ defs[s].relocs[i].off \in Nat  BY <1>3, DefFacts DEF Placement
    <2>3. Addr(s) + defs[s].relocs[i].off = TextOff + (locs[s] + defs[s].relocs[i].off)
      BY <1>4, <2>1, <2>2 DEF Addr
    <2>4. CodeReloc(s, i).at = locs[s] + defs[s].relocs[i].off  BY DEF CodeReloc
    <2>5. SlotSize(defs[s]) = 4  BY <1>4 DEF SlotSize
    <2> QED  BY <1>4, <2>3, <2>4, <2>5 DEF Word
  <1>5. ASSUME NEW s \in DOMAIN locs, NEW i \in DOMAIN defs[s].relocs, defs[s].kind # "func"
        PROVE  Word(s, i) = [at |-> Addr(s) + defs[s].relocs[i].off, size |-> 8, val |-> DataWord(s, i)]
    BY <1>5 DEF Word, SlotSize
  <1>6. ASSUME NEW s \in DOMAIN locs, NEW i \in DOMAIN defs[s].relocs PROVE Word(s, i) \in Words
    <2>1. CASE defs[s].kind = "func"
      BY <1>1, <1>4, <2>1 DEF Words
    <2>2. CASE defs[s].kind # "func"
      <3>1. s \in Blocks  BY <2>2 DEF Blocks
      <3> QED  BY <1>5, <2>2, <3>1 DEF Words
    <2> QED  BY <2>1, <2>2
  <1>7. ASSUME NEW w \in Words PROVE \E s \in DOMAIN locs : \E i \in DOMAIN defs[s].relocs : w = Word(s, i)
    <2>1. CASE \E r \in relocations : w = [at |-> TextOff + r.at, size |-> 4, val |-> CodeWord(r)]
      BY <1>2, <1>4, <2>1
    <2>2. CASE \E s \in Blocks : \E i \in DOMAIN defs[s].relocs :
                 w = [at |-> Addr(s) + defs[s].relocs[i].off, size |-> 8, val |-> DataWord(s, i)]
      BY <1>5, <2>2 DEF Blocks
    <2> QED  BY <2>1, <2>2 DEF Words
  <1> QED  BY <1>6, <1>7

(* In the linked program the processor finds the target of every           *)
(* relocation through its slot, relative in code and absolute in data, and *)
(* the writes of the relocation pass are apart from each other.            *)
THEOREM SlotsLeadToTargets == Spec => []SlotsResolve
  <1>1. LinkInv => SlotsResolve
    <2> SUFFICES ASSUME LinkInv, phase \in {"write", "done"},
                        NEW s \in DOMAIN locs, NEW i \in DOMAIN defs[s].relocs
                 PROVE  \E w \in words :
                          /\ Resolves(s, i, w)
                          /\ \A v \in words \ {w} : v.at + v.size <= w.at \/ w.at + w.size <= v.at
      BY DEF SlotsResolve
    <2>1. LinkType /\ Reached /\ Placement /\ Follow /\ Linked /\ words = Words  BY DEF LinkInv
    <2>2. /\ \A t \in DOMAIN locs : t \in DOMAIN defs /\ Addr(t) \in Nat /\ defs[t].size \in Nat
          /\ \A t, u \in DOMAIN locs : t # u =>
               Addr(t) + defs[t].size <= Addr(u) \/ Addr(u) + defs[u].size <= Addr(t)
      BY <2>1, PlacesFacts
    <2>3. /\ \A t \in DOMAIN locs : \A j \in DOMAIN defs[t].relocs : Word(t, j) \in words
          /\ \A w \in words : \E t \in DOMAIN locs : \E j \in DOMAIN defs[t].relocs : w = Word(t, j)
      BY <2>1, WordsFacts
    <2>4. \A t \in DOMAIN locs : \A j \in DOMAIN defs[t].relocs :
            /\ Word(t, j).at = Addr(t) + defs[t].relocs[j].off /\ Word(t, j).size = SlotSize(defs[t])
            /\ defs[t].relocs[j].off \in Nat /\ SlotSize(defs[t]) \in Nat
            /\ defs[t].relocs[j].off + SlotSize(defs[t]) <= defs[t].size
            /\ defs[t].relocs[j].addend \in Int
      <3>1. \A t \in DOMAIN locs : SlotsWithin(defs[t]) /\ SlotSize(defs[t]) \in Nat
        BY <2>1, <2>2 DEF LinkType, SlotSize
      <3>2. \A t \in DOMAIN locs : \A j \in DOMAIN defs[t].relocs :
              defs[t].relocs[j].off \in Nat /\ defs[t].relocs[j].addend \in Int
        BY <2>1, <2>2, DefFacts
      <3> QED  BY <3>1, <3>2 DEF Word, SlotsWithin
    <2>5. Resolves(s, i, Word(s, i))
      <3>1. Target(s, i) \in DOMAIN locs  BY <2>1, AllPlaced DEF Linked
      <3>2. Addr(Target(s, i)) \in Nat /\ Addr(s) \in Nat  BY <2>2, <3>1
      <3>3. CASE defs[s].kind = "func"
        <4>1. Word(s, i).val = Addr(Target(s, i)) - TextOff - (locs[s] + defs[s].relocs[i].off) - 4 + defs[s].relocs[i].addend
          BY <3>3 DEF Word, CodeWord, CodeReloc
        <4>2. off["func"] = TextOff /\ TextOff \in Nat /\ locs[s] \in Nat
          BY <2>1, SectionFacts, LinkerConstants DEF Linked, Placement
        <4>3. Addr(s) = TextOff + locs[s]  BY <3>3, <4>2 DEF Addr
        <4>4. Word(s, i).at + 4 + Word(s, i).val = Addr(Target(s, i)) + defs[s].relocs[i].addend
          BY <2>4, <3>2, <4>1, <4>2, <4>3
        <4> QED  BY <2>4, <3>3, <4>4 DEF Resolves
      <3>4. CASE defs[s].kind # "func"
        <4>1. Word(s, i).val = Addr(Target(s, i)) + defs[s].relocs[i].addend
          BY <3>4 DEF Word, DataWord
        <4> QED  BY <2>4, <3>4, <4>1 DEF Resolves
      <3> QED  BY <3>3, <3>4
    <2>6. ASSUME NEW v \in words, v # Word(s, i)
          PROVE  v.at + v.size <= Word(s, i).at \/ Word(s, i).at + Word(s, i).size <= v.at
      <3>1. PICK t \in DOMAIN locs : \E j \in DOMAIN defs[t].relocs : v = Word(t, j)  BY <2>3
      <3>2. PICK j \in DOMAIN defs[t].relocs : v = Word(t, j)  BY <3>1
      <3>3. CASE t # s
        <4>1. Addr(t) + defs[t].size <= Addr(s) \/ Addr(s) + defs[s].size <= Addr(t)  BY <2>2, <3>3
        <4> QED  BY <2>2, <2>4, <3>2, <4>1
      <3>4. CASE t = s
        <4>1. i # j  BY <2>6, <3>2, <3>4
        <4>2. SlotsWithin(defs[s])  BY <2>1, <2>2 DEF LinkType
        <4>3. \/ defs[s].relocs[i].off + SlotSize(defs[s]) <= defs[s].relocs[j].off
              \/ defs[s].relocs[j].off + SlotSize(defs[s]) <= defs[s].relocs[i].off
          BY <3>4, <4>1, <4>2 DEF SlotsWithin
        <4> QED  BY <2>2, <2>4, <3>2, <3>4, <4>3
      <3> QED  BY <3>3, <3>4
    <2>7. Word(s, i) \in words  BY <2>3
    <2> QED  BY <2>5, <2>6, <2>7
  <1> QED  BY <1>1, LinkInvariant, PTL

-----------------------------------------------------------------------------
(* Six sections in the file: each begins on a page, after the end of the   *)
(* one before it.                                                          *)
LEMMA FileOffsetsFacts ==
  ASSUME NEW z, Len(z) = 6, \A i \in 1 .. 6 : z[i] \in Nat
  PROVE  /\ Len(FileOffsets(z)) = 6 /\ FileOffsets(z)[1].at >= HeaderSize
         /\ \A i \in 1 .. 6 : FileOffsets(z)[i].at \in Nat /\ FileOffsets(z)[i].at % Page = 0
         /\ \A i \in 1 .. 5 : FileOffsets(z)[i].at + FileOffsets(z)[i].size <= FileOffsets(z)[i + 1].at
  <1> DEFINE Rec(h) == [i \in 1 .. Len(z) |-> IF i = 1 THEN RoundUp(HeaderSize) ELSE h[i - 1] + FileSize(z[i - 1])]
             at == CHOOSE h : h = Rec(h)
             b1 == RoundUp(HeaderSize)
             b2 == b1 + FileSize(z[1])
             b3 == b2 + FileSize(z[2])
             b4 == b3 + FileSize(z[3])
             b5 == b4 + FileSize(z[4])
             b6 == b5 + FileSize(z[5])
             g == [i \in 1 .. 6 |-> IF i = 1 THEN b1 ELSE IF i = 2 THEN b2 ELSE IF i = 3 THEN b3
                                    ELSE IF i = 4 THEN b4 ELSE IF i = 5 THEN b5 ELSE b6]
  <1>1. FileOffsets(z) = [i \in 1 .. Len(z) |-> [at |-> at[i], size |-> z[i]]]  BY DEF FileOffsets
  <1>2. g = Rec(g)
    <2>1. \A i \in 1 .. 6 : g[i] = IF i = 1 THEN RoundUp(HeaderSize) ELSE g[i - 1] + FileSize(z[i - 1])
      <3> HIDE DEF b1, b2, b3, b4, b5, b6
      <3>1. g[1] = b1 /\ g[2] = b2 /\ g[3] = b3 /\ g[4] = b4 /\ g[5] = b5 /\ g[6] = b6  OBVIOUS
      <3> HIDE DEF g
      <3>2. b1 = RoundUp(HeaderSize) /\ b2 = b1 + FileSize(z[1]) /\ b3 = b2 + FileSize(z[2])
            /\ b4 = b3 + FileSize(z[3]) /\ b5 = b4 + FileSize(z[4]) /\ b6 = b5 + FileSize(z[5])
        BY DEF b1, b2, b3, b4, b5, b6
      <3> QED  BY <3>1, <3>2
    <2> HIDE DEF b1, b2, b3, b4, b5, b6
    <2> QED  BY <2>1
  <1> HIDE DEF g
  <1>3. at = Rec(at)
    <2> HIDE DEF Rec
    <2> QED  BY <1>2
  <1> HIDE DEF at
  <1>4. /\ at[1] = RoundUp(HeaderSize)
        /\ at[2] = at[1] + FileSize(z[1]) /\ at[3] = at[2] + FileSize(z[2]) /\ at[4] = at[3] + FileSize(z[3])
        /\ at[5] = at[4] + FileSize(z[4]) /\ at[6] = at[5] + FileSize(z[5])
    BY <1>3
  <1>5. \A i \in 1 .. 6 : FileSize(z[i]) \in Nat /\ FileSize(z[i]) % Page = 0 /\ z[i] < FileSize(z[i])
    BY RoundUpFacts DEF FileSize
  <1>6. ASSUME NEW a \in Nat, NEW b \in Nat, a % Page = 0, b % Page = 0
        PROVE  a + b \in Nat /\ (a + b) % Page = 0
    <2>1. Page \in Nat /\ Page > 0  BY LinkerConstants
    <2> DEFINE x == a \div Page  y == b \div Page
    <2>2. x \in Nat /\ y \in Nat /\ a = x * Page /\ b = y * Page  BY <1>6, <2>1
    <2> HIDE DEF x, y
    <2>3. a + b = (x + y) * Page  BY <2>1, <2>2
    <2> QED  BY <2>1, <2>2, <2>3
  <1>7. at[1] \in Nat /\ at[1] % Page = 0 /\ HeaderSize < at[1]  BY <1>4, RoundUpFacts, LinkerConstants
  <1>8. ASSUME NEW i \in 1 .. 6, NEW a \in Nat, a % Page = 0
        PROVE  /\ a + FileSize(z[i]) \in Nat /\ (a + FileSize(z[i])) % Page = 0
               /\ a + z[i] <= a + FileSize(z[i])
    <2>1. FileSize(z[i]) \in Nat /\ FileSize(z[i]) % Page = 0 /\ z[i] < FileSize(z[i]) /\ z[i] \in Nat
      BY <1>5
    <2>2. a + FileSize(z[i]) \in Nat /\ (a + FileSize(z[i])) % Page = 0  BY <1>6, <1>8, <2>1
    <2> QED  BY <2>1, <2>2
  <1>9. at[2] \in Nat /\ at[2] % Page = 0 /\ at[1] + z[1] <= at[2]  BY <1>4, <1>7, <1>8
  <1>10. at[3] \in Nat /\ at[3] % Page = 0 /\ at[2] + z[2] <= at[3]  BY <1>4, <1>8, <1>9
  <1>11. at[4] \in Nat /\ at[4] % Page = 0 /\ at[3] + z[3] <= at[4]  BY <1>4, <1>8, <1>10
  <1>12. at[5] \in Nat /\ at[5] % Page = 0 /\ at[4] + z[4] <= at[5]  BY <1>4, <1>8, <1>11
  <1>13. at[6] \in Nat /\ at[6] % Page = 0 /\ at[5] + z[5] <= at[6]  BY <1>4, <1>8, <1>12
  <1>14. \A i \in 1 .. 6 : FileOffsets(z)[i].at = at[i] /\ FileOffsets(z)[i].size = z[i]  BY <1>1
  <1>15. Len(FileOffsets(z)) = 6  BY <1>1
  <1>16. \A i \in 1 .. 6 : at[i] \in Nat /\ at[i] % Page = 0  BY <1>7, <1>9, <1>10, <1>11, <1>12, <1>13
  <1>17. \A i \in 1 .. 5 : at[i] + z[i] <= at[i + 1]  BY <1>9, <1>10, <1>11, <1>12, <1>13
  <1>18. FileOffsets(z)[1].at >= HeaderSize  BY <1>7, <1>14, LinkerConstants
  <1>19. \A i \in 1 .. 5 : i \in 1 .. 6 /\ i + 1 \in 1 .. 6  OBVIOUS
  <1> QED  BY <1>14, <1>15, <1>16, <1>17, <1>18, <1>19

(* The file WriteElf (elf64.go) writes can be mapped: no section overlaps  *)
(* the next or the headers, and the loaded ones are on the page their      *)
(* address asks for.                                                       *)
THEOREM FileLoadable == Spec => []Loadable
  <1>1. LinkInv => Loadable
    <2> SUFFICES ASSUME LinkInv, phase = "done"
                 PROVE  /\ layout[1].at >= HeaderSize
                        /\ \A i \in 1 .. Len(layout) - 1 : layout[i].at + layout[i].size <= layout[i + 1].at
                        /\ \A i \in 1 .. 3 : layout[i].at % Page = off[<<"func", "var", "data">>[i]] % Page
      BY DEF Loadable
    <2>1. LinkType /\ Linked /\ Laid  BY DEF LinkInv
    <2>2. PICK a \in Nat, b \in Nat, c \in Nat :
            layout = FileOffsets(<<len["func"], len["var"], len["data"], a, b, c>>)
      BY <2>1 DEF Laid
    <2> DEFINE z == <<len["func"], len["var"], len["data"], a, b, c>>
    <2>3. len["func"] \in Nat /\ len["var"] \in Nat /\ len["data"] \in Nat  BY <2>1 DEF LinkType, Kind
    <2>4. Len(z) = 6 /\ \A i \in 1 .. 6 : z[i] \in Nat  BY <2>3
    <2>5. layout = FileOffsets(z)  BY <2>2
    <2> HIDE DEF z
    <2>6. /\ Len(layout) = 6 /\ layout[1].at >= HeaderSize
          /\ \A i \in 1 .. 6 : layout[i].at \in Nat /\ layout[i].at % Page = 0
          /\ \A i \in 1 .. 5 : layout[i].at + layout[i].size <= layout[i + 1].at
      BY <2>4, <2>5, FileOffsetsFacts
    <2>7. \A k \in Kind : off[k] % Page = 0  BY <2>1, SectionFacts DEF Linked
    <2>8. \A i \in 1 .. 3 : <<"func", "var", "data">>[i] \in Kind  BY DEF Kind
    <2> QED  BY <2>6, <2>7, <2>8
  <1> QED  BY <1>1, LinkInvariant, PTL
=============================================================================
