------------------------------- MODULE Linker -------------------------------
(***************************************************************************)
(* The linker: cmd/bld gathers the object files, Link (linker.go) places   *)
(* what is reachable from _init.start in three sections, resolves the      *)
(* relocations, and WriteElf (elf64.go) lays the sections out in the file. *)
(*                                                                         *)
(* An object file is its package and its definitions.  A definition has a  *)
(* kind, a size in bytes and its relocations: the offset of the slot, the  *)
(* target as it is written (with a package or bare) and the addend.  In    *)
(* code a slot is the last field of its instruction: the encoder keeps no  *)
(* relocation that an immediate follows (module Encoder).  A linked symbol *)
(* is a pair of package and name.  The recursion of addVar and addData is  *)
(* the stack `pending' of relocations still to be followed.                *)
(***************************************************************************)
EXTENDS Integers, Sequences, FiniteSets

CONSTANTS
  Pkg, Name,      \* package names, names of definitions
  Bare,           \* the package of a target that is written without one
  Start,          \* _init.start
  Inputs,         \* the lists of object files to link
  Page,           \* 0x1000
  TextOff,        \* ENTRY_ADDR
  HeaderSize,     \* bytes of the ELF header and of the two header tables
  SymSize,        \* bytes of one symbol table entry
  StringSizes     \* sizes the two string tables may have

Kind == {"func", "var", "data"}
Symbol == Pkg \X Name

Reloc == [off : Nat, pkg : Pkg \cup {Bare}, name : Name, addend : Int]
Def == [kind : Kind, size : Nat, relocs : Seq(Reloc)]
File == UNION {{input[i] : i \in DOMAIN input} : input \in Inputs}

(* A slot of code has four bytes, one of a block eight.                    *)
SlotSize(d) == IF d.kind = "func" THEN 4 ELSE 8

(* The slots of a definition lie within it and apart from each other: a    *)
(* relocation of code is a field of its instruction, bas refuses one of a  *)
(* block that would end outside it (RelocsInRange of module Package), and  *)
(* the compiler lays the pointers of a block side by side.                 *)
SlotsWithin(d) ==
  /\ \A i \in DOMAIN d.relocs : d.relocs[i].off + SlotSize(d) <= d.size
  /\ \A i, j \in DOMAIN d.relocs : i # j =>
       \/ d.relocs[i].off + SlotSize(d) <= d.relocs[j].off
       \/ d.relocs[j].off + SlotSize(d) <= d.relocs[i].off

ASSUME LinkerConstants ==
  /\ Bare \notin Pkg /\ Start \in Symbol
  /\ Page \in Nat \ {0} /\ TextOff \in Nat /\ TextOff % Page = 0
  /\ HeaderSize \in Nat /\ SymSize \in Nat /\ StringSizes \subseteq Nat
  /\ Inputs \subseteq Seq(File)
  /\ \A f \in File :
       /\ f.pkg \in Pkg /\ DOMAIN f.defs \subseteq Name
       /\ \A n \in DOMAIN f.defs : f.defs[n] \in Def /\ SlotsWithin(f.defs[n])

VARIABLES
  files,        \* object files not gathered yet
  pkgs,         \* packages gathered
  defs,         \* funcs, vars and data, by qualified name
  needfn,       \* functions to place
  needfnm,      \* functions that were ever added to needfn
  locs,         \* funclocs, varlocs and datalocs: offsets in the section
  len,          \* bytes in each section
  current,      \* the function whose body is being added, or none
  pending,      \* relocations to follow, innermost definition first
  relocations,  \* code relocations, with their offset in the text
  off,          \* virtual address of each section
  words,        \* what was written to the relocated slots
  layout,       \* file offset and size of each section written to the file
  phase

vars == <<files, pkgs, defs, needfn, needfnm, locs, len, current, pending,
          relocations, off, words, layout, phase>>

Qualify(pkg, r) == IF r.pkg = Bare THEN <<pkg, r.name>> ELSE <<r.pkg, r.name>>
Target(s, i) == Qualify(s[1], defs[s].relocs[i])
RoundUp(x) == ((x + Page) \div Page) * Page   \* (x + 0x1000) & ^0xFFF

Refs(s) == [i \in DOMAIN defs[s].relocs |-> [from |-> s, i |-> i]]

Init ==
  /\ files \in Inputs
  /\ pkgs = {} /\ defs = <<>> /\ needfn = <<>> /\ needfnm = {} /\ locs = <<>>
  /\ len = [k \in Kind |-> 0] /\ current = {} /\ pending = <<>> /\ relocations = {}
  /\ off = [k \in Kind |-> 0] /\ words = {} /\ layout = <<>> /\ phase = "gather"

-----------------------------------------------------------------------------
(* One object file: no other may have the same package.                    *)
Gather ==
  LET f == Head(files)
      new == {f.pkg} \X DOMAIN f.defs
  IN /\ phase = "gather" /\ files # <<>>
     /\ IF f.pkg \in pkgs
        THEN phase' = "fatal" /\ UNCHANGED <<files, pkgs, defs>>
        ELSE /\ defs' = [s \in DOMAIN defs \cup new |->
                           IF s \in new THEN f.defs[s[2]] ELSE defs[s]]
             /\ files' = Tail(files) /\ pkgs' = pkgs \cup {f.pkg} /\ UNCHANGED phase
     /\ UNCHANGED <<needfn, needfnm, locs, len, current, pending, relocations, off, words, layout>>

(* The entry point is the first function to place.                         *)
Begin ==
  /\ phase = "gather" /\ files = <<>>
  /\ IF Start \in DOMAIN defs /\ defs[Start].kind = "func"
     THEN phase' = "place" /\ needfn' = <<Start>>
     ELSE phase' = "fatal" /\ UNCHANGED needfn
  /\ UNCHANGED <<files, pkgs, defs, needfnm, locs, len, current, pending, relocations, off, words, layout>>

At(s) == [t \in DOMAIN locs \cup {s} |-> IF t = s THEN len[defs[s].kind] ELSE locs[t]]

(* The next function gets its place; its relocations are followed before   *)
(* its bytes are added to the text.                                        *)
PlaceFunc ==
  /\ phase = "place" /\ current = {} /\ needfn # <<>>
  /\ LET f == Head(needfn)
     IN current' = {f} /\ locs' = At(f) /\ pending' = Refs(f)
  /\ needfn' = Tail(needfn)
  /\ UNCHANGED <<files, pkgs, defs, needfnm, len, relocations, off, words, layout, phase>>

WriteBody ==
  /\ phase = "place" /\ current # {} /\ pending = <<>>
  /\ \E f \in current : len' = [len EXCEPT !["func"] = @ + defs[f].size]
  /\ current' = {}
  /\ UNCHANGED <<files, pkgs, defs, needfn, needfnm, locs, pending, relocations, off, words, layout, phase>>

(* Mutant of addNeeded: a function that waits for its place is added again.*)
AddAlways(f) ==
  /\ needfn' = IF f \in DOMAIN locs THEN needfn ELSE Append(needfn, f)
  /\ needfnm' = needfnm \cup {f}

addNeeded(f) ==
  IF f \in DOMAIN locs \/ f \in needfnm
  THEN UNCHANGED <<needfn, needfnm>>
  ELSE needfn' = Append(needfn, f) /\ needfnm' = needfnm \cup {f}

Following == phase = "place" /\ pending # <<>>
Here == Head(pending)
There == Target(Here.from, Here.i)

(* A relocation of the function being placed is kept for later.            *)
Keep ==
  relocations' =
    IF Here.from \in current
    THEN relocations \cup {[at |-> locs[Here.from] + defs[Here.from].relocs[Here.i].off,
                            to |-> There, addend |-> defs[Here.from].relocs[Here.i].addend]}
    ELSE relocations

FollowFunc ==
  /\ Following /\ There \in DOMAIN defs /\ defs[There].kind = "func"
  /\ addNeeded(There) /\ Keep /\ pending' = Tail(pending)
  /\ UNCHANGED <<files, pkgs, defs, locs, len, current, off, words, layout, phase>>

(* Mutant of addObject: the relocations of a placed block are not followed.*)
NotFollowed ==
  IF There \in DOMAIN locs
  THEN pending' = Tail(pending) /\ UNCHANGED <<locs, len>>
  ELSE /\ locs' = At(There)
       /\ len' = [len EXCEPT ![defs[There].kind] = @ + defs[There].size]
       /\ pending' = Tail(pending)

(* addVar and addData: a block is placed once, and what it points to after *)
(* it.                                                                     *)
addObject ==
  IF There \in DOMAIN locs
  THEN pending' = Tail(pending) /\ UNCHANGED <<locs, len>>
  ELSE /\ locs' = At(There)
       /\ len' = [len EXCEPT ![defs[There].kind] = @ + defs[There].size]
       /\ pending' = Refs(There) \o Tail(pending)

FollowObject ==
  /\ Following /\ There \in DOMAIN defs /\ defs[There].kind # "func"
  /\ addObject /\ Keep
  /\ UNCHANGED <<files, pkgs, defs, needfn, needfnm, current, off, words, layout, phase>>

NoSuchSymbol ==
  /\ Following /\ There \notin DOMAIN defs
  /\ phase' = "fatal"
  /\ UNCHANGED <<files, pkgs, defs, needfn, needfnm, locs, len, current, pending, relocations, off, words, layout>>

-----------------------------------------------------------------------------
SectionAddrs ==
  LET varoff == RoundUp(TextOff + len["func"])
      dataoff == RoundUp(varoff + len["var"])
  IN [k \in Kind |-> CASE k = "func" -> TextOff [] k = "var" -> varoff [] k = "data" -> dataoff]

Sections ==
  /\ phase = "place" /\ current = {} /\ needfn = <<>>
  /\ off' = SectionAddrs /\ phase' = "relocate"
  /\ UNCHANGED <<files, pkgs, defs, needfn, needfnm, locs, len, current, pending, relocations,
                 words, layout>>

Addr(s) == off[defs[s].kind] + locs[s]
Blocks == {s \in DOMAIN locs : defs[s].kind # "func"}

(* Mutant of CodeWord: relative to the slot, not to the end of it.         *)
FromSlot(r) == Addr(r.to) - TextOff - r.at + r.addend

(* The displacement in a code slot, from the end of the slot.              *)
CodeWord(r) == Addr(r.to) - TextOff - r.at - 4 + r.addend

(* The address in a slot of a block.                                       *)
DataWord(s, i) == Addr(Target(s, i)) + defs[s].relocs[i].addend

Words ==
  {[at |-> TextOff + r.at, size |-> 4, val |-> CodeWord(r)] : r \in relocations}
  \cup UNION {{[at |-> Addr(s) + defs[s].relocs[i].off, size |-> 8, val |-> DataWord(s, i)] :
                 i \in DOMAIN defs[s].relocs} : s \in Blocks}

Unplaced ==
  \/ \E r \in relocations : r.to \notin DOMAIN locs
  \/ \E s \in Blocks : \E i \in DOMAIN defs[s].relocs : Target(s, i) \notin DOMAIN locs

(* Every slot is written; Link gives up if a target has no place.          *)
Relocate ==
  /\ phase = "relocate"
  /\ IF Unplaced THEN phase' = "fatal" /\ UNCHANGED words
                 ELSE phase' = "write" /\ words' = Words
  /\ UNCHANGED <<files, pkgs, defs, needfn, needfnm, locs, len, current, pending, relocations,
                 off, layout>>

(* Mutant of FileSize: a section takes whole pages, the last one not.      *)
RoundDown(n) == (n \div Page) * Page

FileSize(n) == RoundUp(n)

(* The three sections, .symtab, .strtab and .shstrtab, one after another.  *)
FileOffsets(sizes) ==
  LET at[i \in 1 .. Len(sizes)] ==
        IF i = 1 THEN RoundUp(HeaderSize) ELSE at[i - 1] + FileSize(sizes[i - 1])
  IN [i \in 1 .. Len(sizes) |-> [at |-> at[i], size |-> sizes[i]]]

WriteElf ==
  /\ phase = "write"
  /\ \E strtab, shstrtab \in StringSizes :
       layout' = FileOffsets(<<len["func"], len["var"], len["data"],
                               SymSize * (1 + Cardinality(DOMAIN locs)), strtab, shstrtab>>)
  /\ phase' = "done"
  /\ UNCHANGED <<files, pkgs, defs, needfn, needfnm, locs, len, current, pending, relocations,
                 off, words>>

Next ==
  \/ Gather \/ Begin
  \/ PlaceFunc \/ FollowFunc \/ FollowObject \/ NoSuchSymbol \/ WriteBody
  \/ Sections \/ Relocate \/ WriteElf

Spec == Init /\ [][Next]_vars

-----------------------------------------------------------------------------
Refers(s, t) == \E i \in DOMAIN defs[s].relocs : Target(s, i) = t

(* What the program needs: the least set with the entry point that holds   *)
(* whatever its members refer to.                                          *)
Needed ==
  {s \in DOMAIN defs :
     \A S \in SUBSET DOMAIN defs :
       Start \in S /\ (\A u \in S, t \in DOMAIN defs : Refers(u, t) => t \in S) => s \in S}

(* The executable holds what the program needs and nothing else, whether   *)
(* it is reached from code, from data or around a cycle; and Link gives up *)
(* only for a second file of a package, for a missing entry point or for a *)
(* needed symbol that refers to nothing.                                   *)
LinksNeeded ==
  /\ phase = "done" => DOMAIN locs = Needed
  /\ phase = "fatal" =>
       \/ files # <<>> /\ Head(files).pkg \in pkgs
       \/ Start \notin DOMAIN defs
       \/ defs[Start].kind # "func"
       \/ \E s \in Needed : \E i \in DOMAIN defs[s].relocs : Target(s, i) \notin DOMAIN defs

Extent(s) == Addr(s) .. Addr(s) + defs[s].size - 1

(* Every symbol is placed once: the bytes of the executable's symbols are  *)
(* disjoint, also when they are referred to many times, no page holds      *)
(* bytes of two sections, and the entry point is where the ELF header says.*)
PlacedApart ==
  phase \in {"relocate", "write", "done"} =>
    /\ \A s, t \in DOMAIN locs :
         /\ s # t => Extent(s) \cap Extent(t) = {}
         /\ defs[s].kind # defs[t].kind =>
              \A a \in Extent(s), b \in Extent(t) : a \div Page # b \div Page
    /\ Addr(Start) = TextOff
    /\ \A k \in Kind : UNION {Extent(s) : s \in {t \in DOMAIN locs : defs[t].kind = k}}
                         = off[k] .. off[k] + len[k] - 1

(* What the processor makes of the slot of a relocation: in code it is     *)
(* relative to the end of the instruction, which is the end of the slot.   *)
Resolves(s, i, w) ==
  /\ w.at = Addr(s) + defs[s].relocs[i].off
  /\ Addr(Target(s, i)) + defs[s].relocs[i].addend
       = IF defs[s].kind = "func" THEN w.at + 4 + w.val ELSE w.val

(* In the linked program every slot leads to its target, and no other slot *)
(* was written over it.                                                    *)
SlotsResolve ==
  phase \in {"write", "done"} =>
    \A s \in DOMAIN locs : \A i \in DOMAIN defs[s].relocs :
      \E w \in words :
        /\ Resolves(s, i, w)
        /\ \A v \in words \ {w} : v.at + v.size <= w.at \/ w.at + w.size <= v.at

(* The file can be written front to back and mapped page by page: no       *)
(* section begins before the end of the one before it, none begins within  *)
(* the headers, and a loaded section's place in the file and its address   *)
(* agree modulo the page size.                                             *)
Loadable ==
  phase = "done" =>
    /\ layout[1].at >= HeaderSize
    /\ \A i \in 1 .. Len(layout) - 1 : layout[i].at + layout[i].size <= layout[i + 1].at
    /\ \A i \in 1 .. 3 : layout[i].at % Page = off[<<"func", "var", "data">>[i]] % Page
=============================================================================
