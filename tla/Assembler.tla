----------------------------- MODULE Assembler ------------------------------
(***************************************************************************)
(* bas (cmd/bas/main.go): reads the lines of its source files into one     *)
(* object, checks that every type descriptor has its cache, and writes the *)
(* object file.  Any malformed line ends the process with exit status 1.   *)
(* The register allocation directives are RegAlloc's; here a function is   *)
(* its frame, its labels and jumps and its relocations (function.go).      *)
(***************************************************************************)
EXTENDS Directives

CONSTANT Programs   \* what may be assembled: [pkg, decls, files, intact]

VARIABLES
  prog,    \* the member of Programs under way
  src,     \* files still to read, the one being read first
  o,       \* the object under construction, or None
  f,       \* name of the current function, or <<>>
  blk,     \* the block directive being read
  st,      \* "asm", "fatal", "write", "done", "killed" or "imported"
  out,     \* tokens to be written
  disk     \* the object file

asmvars == <<prog, src, o, f, blk, st, out, disk>>

None == [none |-> TRUE]
NoBlock == [k |-> "none"]

AsmInit ==
  /\ prog \in Programs
  /\ src = prog.files
  /\ o = None /\ f = <<>> /\ blk = NoBlock
  /\ st = "asm" /\ out = <<>> /\ disk = <<>>

(***************************************************************************)
(* The line at hand.                                                       *)
(***************************************************************************)
Reading == st = "asm" /\ src # <<>> /\ Head(src).opens /\ Head(src).lines # <<>>
Cur == Head(Head(src).lines)
Consume == src' = [src EXCEPT ![1].lines = Tail(@)]

BlockDirectives == {"interface", "typedesc", "iface_desc", "values", "struct"}
TopDirectives == BlockDirectives \cup {"typealias", "typedesc_cache", "function", "data", "var"}
FuncDirectives == {"type", "retaliases", "local", "label", "prologue", "epilogue", "JMP", "CALL", "instr"}

(* A line outside any block that ends the process.                         *)
LineFatal(l) ==
  \/ l.d = "package" /\ o # None /\ o.Pkgname # l.w[1]
  \/ l.d # "package" /\ o = None
  \/ /\ o # None
     /\ \/ l.d = "typealias" /\ (Len(l.w) < 2 \/ ~MayAddTypeAlias(o, l.w[1]))
        \/ l.d \in {"typedesc_cache", "data"} /\ ~MayAddVar(o, l.w[1])
        \/ l.d = "function" /\ ~MayAddFunction(o, l.w[1])
        \/ l.d = "var" /\ (l.w[3] \notin {<<"#">>, <<"\"">>, <<"{">>}
                             \/ (l.w[3] # <<"{">> /\ ~MayAddVar(o, l.w[1])))
        \/ l.d = "Type" /\ ~MayAddType(o, l.w[1])
        \/ l.d \notin TopDirectives \cup {"package", "Type"} /\ (f = <<>> \/ l.d \notin FuncDirectives)
        \/ l.d = "label" /\ f # <<>> /\ l.w[1] \in DOMAIN o.Funcs[f].labels

(* A line inside a block that ends the process, and a block that may not   *)
(* be closed as it stands.                                                 *)
Bytes(n) == [len |-> n, words |-> <<>>, text |-> <<>>]

(* Mutant of CloseFatal: a relocation may reach past the end of its bytes. *)
NoRangeCheck(b) ==
  \/ b.k = "interface" /\ b.m # None /\ b.m.Return = <<>>
  \/ b.k = "interface" /\ b.m = None /\ ~MayAddInterface(o, b.Name)
  \/ b.k \in {"typedesc", "iface_desc"} /\ ~MayAddVar(o, b.Name)
  \/ b.k = "values" /\ (b.TagType = <<>> \/ ~MayAddValues(o, b.Name))
  \/ b.k = "struct" /\ ~MayAddStruct(o, b.Name)
  \/ b.k = "var" /\ (b.Val = None \/ ~MayAddVar(o, b.Name))

CloseFatal(b) ==
  \/ b.k = "interface" /\ b.m # None /\ b.m.Return = <<>>
  \/ b.k = "interface" /\ b.m = None /\ ~MayAddInterface(o, b.Name)
  \/ b.k \in {"typedesc", "iface_desc"} /\ ~MayAddVar(o, b.Name)
  \/ b.k = "values" /\ (b.TagType = <<>> \/ ~MayAddValues(o, b.Name))
  \/ b.k = "struct" /\ ~MayAddStruct(o, b.Name)
  \/ b.k = "var" /\ \/ b.Val = None
                    \/ \E i \in DOMAIN b.Relocs : b.Relocs[i].Offset + 8 > b.Val.len
                    \/ ~MayAddVar(o, b.Name)

BlockFatal(l) ==
  IF l.d = "}" THEN CloseFatal(blk)
  ELSE \/ blk.k = "interface" /\ blk.m = None /\ l.d # "method"
       \/ blk.k = "interface" /\ blk.m # None
            /\ (l.d \notin {"param", "return", "retaliases"} \/ (l.d = "param" /\ Len(l.w) < 2))
       \/ blk.k = "typedesc" /\ (l.d \notin {"name", "size", "cache_ref", "method"}
                                   \/ (l.d = "method" /\ (Len(l.w) # 3 \/ Len(l.n) < 3)))
       \/ blk.k = "iface_desc" /\ (l.d \notin {"name", "method"}
                                     \/ (l.d = "method" /\ (Len(l.w) # 2 \/ Len(l.n) < 3)))
       \/ blk.k = "values" /\ l.d \notin {"tag", "case", "projection", "method"}
       \/ blk.k = "struct" /\ l.d = "" /\ Len(l.w) < 2
       \/ blk.k = "var" /\ (l.d \notin {"bytes", "reloc"} \/ (l.d = "bytes" /\ blk.Val # None))

Acceptable(l) == ~(IF blk = NoBlock THEN LineFatal(l) ELSE BlockFatal(l))

(* os.Exit(1): nothing has been written yet.                               *)
Reject ==
  /\ Reading /\ ~Acceptable(Cur)
  /\ st' = "fatal"
  /\ UNCHANGED <<prog, src, o, f, blk, out, disk>>

Accept(D) == Reading /\ blk = NoBlock /\ Cur.d \in D /\ Acceptable(Cur) /\ Consume /\ UNCHANGED <<prog, st, out, disk>>

(***************************************************************************)
(* One-line directives at package scope.                                   *)
(***************************************************************************)
PackageLine ==
  /\ Accept({"package"})
  /\ o' = IF o = None THEN NewOFile(Cur.w[1]) ELSE o
  /\ UNCHANGED <<f, blk>>

TypeAlias ==
  /\ Accept({"typealias"})
  /\ o' = [o EXCEPT !.TypeAliases = Put(@, [Name |-> Cur.w[1], IsPub |-> Cur.pub, Underlying |-> <<Cur.w[2]>>,
                                            MethodNames |-> SubSeq(Cur.w, 3, Len(Cur.w))])]
  /\ UNCHANGED <<f, blk>>

NewVar(name, pub, vtype, val, relocs, kind) ==
  [Name |-> name, IsPub |-> pub, VType |-> vtype, Val |-> val, Relocs |-> relocs, Kind |-> kind]

TypedescCache ==
  /\ Accept({"typedesc_cache"})
  /\ o' = [o EXCEPT !.Vars = Put(@, NewVar(Cur.w[1], Cur.pub, <<<<"byte[8]">>>>, Bytes(8), <<>>, "typedesc_cache"))]
  /\ UNCHANGED <<f, blk>>

(* The size form and the string form; the block form opens a block.  A     *)
(* declaration of data ends the current function.                          *)
VarOrData ==
  /\ Accept({"var", "data"})
  /\ f' = <<>>
  /\ LET v == NewVar(Cur.w[1], Cur.pub, <<Cur.w[2]>>, Bytes(Cur.n[1]), <<>>, "") IN
     \/ Cur.d = "var" /\ Cur.w[3] = <<"{">> /\ o' = o
          /\ blk' = [k |-> "var", Name |-> Cur.w[1], IsPub |-> Cur.pub, VType |-> <<Cur.w[2]>>, Val |-> None,
                     Relocs |-> <<>>]
     \/ Cur.d = "var" /\ Cur.w[3] # <<"{">> /\ o' = [o EXCEPT !.Vars = Put(@, v)] /\ blk' = blk
     \/ Cur.d = "data" /\ o' = [o EXCEPT !.Data = Put(@, v)] /\ blk' = blk

(* OFile.Type, called by users of the package; bas has no directive for it.*)
TypeDescr ==
  /\ Accept({"Type"})
  /\ o' = [o EXCEPT !.Types = Put(@, [Name |-> Cur.w[1], Properties |-> Tail(Cur.w), Description |-> <<"d">>])]
  /\ UNCHANGED <<f, blk>>

(***************************************************************************)
(* Block directives.                                                       *)
(***************************************************************************)
OpenBlock ==
  /\ Accept(BlockDirectives)
  /\ LET head == [k |-> Cur.d, Name |-> Cur.w[1], IsPub |-> Cur.pub] IN
     blk' = head @@ CASE Cur.d = "interface" -> [Methods |-> <<>>, m |-> None]
                      [] Cur.d = "typedesc" -> [rec |-> [TypeName |-> <<>>, SizeBytes |-> 0, CacheSym |-> <<>>,
                                                         Methods |-> <<>>]]
                      [] Cur.d = "iface_desc" -> [rec |-> [IfaceName |-> <<>>, Methods |-> <<>>]]
                      [] Cur.d = "values" -> [TagType |-> <<>>, Cases |-> <<>>, Projections |-> <<>>,
                                              MethodNames |-> <<>>]
                      [] Cur.d = "struct" -> [Fields |-> <<>>, MethodNames |-> Tail(Cur.w)]
  /\ UNCHANGED <<o, f>>

(* retAliases grows with empty slots up to the one that is set.            *)
SetSlot(aliases, slot, params) ==
  [s \in 1..(IF Len(aliases) > slot THEN Len(aliases) ELSE slot + 1) |->
     IF s = slot + 1 THEN params ELSE IF s <= Len(aliases) THEN aliases[s] ELSE <<>>]

InterfaceLine(l) ==
  CASE l.d = "method" -> [blk EXCEPT !.m = [Name |-> l.w[1], Params |-> <<>>, Return |-> <<>>, ReturnAliases |-> <<>>]]
    [] l.d = "param" -> [blk EXCEPT !.m.Params = Append(@, [Name |-> l.w[1], Type |-> Tail(l.w)])]
    [] l.d = "return" -> [blk EXCEPT !.m.Return = l.w]
    [] l.d = "retaliases" -> [blk EXCEPT !.m.ReturnAliases = SetSlot(@, l.n[1], Tail(l.n))]

TypedescLine(l) ==
  CASE l.d = "name" -> [blk EXCEPT !.rec.TypeName = l.w[1]]
    [] l.d = "size" -> [blk EXCEPT !.rec.SizeBytes = l.n[1]]
    [] l.d = "cache_ref" -> [blk EXCEPT !.rec.CacheSym = l.w[1]]
    [] l.d = "method" -> [blk EXCEPT !.rec.Methods =
         Append(@, [Name |-> l.w[1], Sig |-> l.w[2], NameHash |-> l.n[1], SigHash |-> l.n[2], RecvShape |-> l.n[3],
                    FnSym |-> l.w[3], SlotMasks |-> SubSeq(l.n, 4, Len(l.n))])]

IfaceDescLine(l) ==
  CASE l.d = "name" -> [blk EXCEPT !.rec.IfaceName = l.w[1]]
    [] l.d = "method" -> [blk EXCEPT !.rec.Methods =
         Append(@, [Name |-> l.w[1], Sig |-> l.w[2], NameHash |-> l.n[1], SigHash |-> l.n[2], DeclIdx |-> l.n[3],
                    SlotMasks |-> SubSeq(l.n, 4, Len(l.n))])]

ValuesLine(l) ==
  CASE l.d = "tag" -> [blk EXCEPT !.TagType = l.w]
    [] l.d = "case" -> [blk EXCEPT !.Cases = Append(@, [Name |-> l.w[1], Tag |-> l.n[1]])]
    [] l.d = "projection" -> [blk EXCEPT !.Projections = Append(@, l.w)]
    [] l.d = "method" -> [blk EXCEPT !.MethodNames = Append(@, l.w[1])]

(* Any line of a struct block is a field: the first token is its name.     *)
StructLine(l) ==
  LET words == IF l.d = "" THEN l.w ELSE <<<<l.d>>>> \o l.w
  IN  [blk EXCEPT !.Fields = Append(@, [Name |-> Head(words), Type |-> Tail(words)])]

VarLine(l) ==
  CASE l.d = "bytes" -> [blk EXCEPT !.Val = Bytes(l.n[1])]
    [] l.d = "reloc" -> [blk EXCEPT !.Relocs = Append(@, [Offset |-> l.n[1], Symbol |-> l.w[1], Addend |-> l.n[2]])]

BlockLine ==
  /\ Reading /\ blk # NoBlock /\ Cur.d # "}" /\ Acceptable(Cur) /\ Consume
  /\ blk' = CASE blk.k = "interface" -> InterfaceLine(Cur) [] blk.k = "typedesc" -> TypedescLine(Cur)
              [] blk.k = "iface_desc" -> IfaceDescLine(Cur) [] blk.k = "values" -> ValuesLine(Cur)
              [] blk.k = "struct" -> StructLine(Cur) [] blk.k = "var" -> VarLine(Cur)
  /\ UNCHANGED <<prog, o, f, st, out, disk>>

(* The record a finished block adds to the object.                         *)
Declared(b) ==
  CASE b.k = "interface" -> [o EXCEPT !.Interfaces =
                              Put(@, [Name |-> b.Name, IsPub |-> b.IsPub, Methods |-> b.Methods])]
    [] b.k = "typedesc" -> [o EXCEPT !.Data =
                              Put(@, NewVar(b.Name, b.IsPub, <<<<"byte[]">>>>, EncodeTypedesc(b.rec), TypedescRelocs(b.rec),
                                            "typedesc"))]
    [] b.k = "iface_desc" -> [o EXCEPT !.Data =
                              Put(@, NewVar(b.Name, b.IsPub, <<<<"byte[]">>>>, EncodeIfaceDesc(b.rec), <<>>, "iface_desc"))]
    [] b.k = "values" -> [o EXCEPT !.Values =
                              Put(@, [Name |-> b.Name, IsPub |-> b.IsPub, TagType |-> b.TagType, Cases |-> b.Cases,
                                      Projections |-> b.Projections, MethodNames |-> b.MethodNames])]
    [] b.k = "struct" -> [o EXCEPT !.Structs =
                              Put(@, [Name |-> b.Name, IsPub |-> b.IsPub, Fields |-> b.Fields,
                                      MethodNames |-> b.MethodNames])]
    [] b.k = "var" -> [o EXCEPT !.Vars = Put(@, NewVar(b.Name, b.IsPub, b.VType, b.Val, b.Relocs, ""))]

CloseBlock ==
  /\ Reading /\ blk # NoBlock /\ Cur.d = "}" /\ Acceptable(Cur) /\ Consume
  /\ IF blk.k = "interface" /\ blk.m # None
     THEN blk' = [blk EXCEPT !.Methods = Append(@, blk.m), !.m = None] /\ o' = o
     ELSE blk' = NoBlock /\ o' = Declared(blk)
  /\ UNCHANGED <<prog, f, st, out, disk>>

(***************************************************************************)
(* Functions.                                                              *)
(***************************************************************************)
PrologueLen == 20   \* six pushes, the frame pointer, SUB RSP imm32
EpilogueLen == 13

NewFunction ==
  /\ Accept({"function"})
  /\ f' = Cur.w[1]
  /\ o' = [o EXCEPT !.Funcs = Put(@, [Name |-> Cur.w[1], IsPub |-> Cur.pub, Type |-> <<>>, SrcFile |-> <<"src">>,
                                      SrcLine |-> Len(Head(src).lines), Args |-> <<>>, Symbols |-> <<>>,
                                      Relocations |-> <<>>, ReturnAliases |-> <<>>,
                                      len |-> 0, patch |-> <<>>, labels |-> <<>>, jumps |-> <<>>,
                                      localoff |-> 0, localsLocation |-> 0])]
  /\ blk' = blk

FuncType ==
  /\ Accept({"type"})
  /\ o' = [o EXCEPT !.Funcs[f].Type = Cur.w]
  /\ UNCHANGED <<f, blk>>

FuncAliases ==
  /\ Accept({"retaliases"})
  /\ o' = [o EXCEPT !.Funcs[f].ReturnAliases = SetSlot(@, Cur.n[1], Tail(Cur.n))]
  /\ UNCHANGED <<f, blk>>

(* NewLocal reserves the slot of a fresh local at once.                    *)
Local ==
  /\ Accept({"local"})
  /\ o' = [o EXCEPT !.Funcs[f].localoff = @ + Cur.n[1] \div 8]
  /\ UNCHANGED <<f, blk>>

Label ==
  /\ Accept({"label"})
  /\ o' = [o EXCEPT !.Funcs[f].labels = (Cur.w[1] :> o.Funcs[f].len) @@ @]
  /\ UNCHANGED <<f, blk>>

Jump ==
  /\ Accept({"JMP", "CALL"})
  /\ LET n == o.Funcs[f].len + Cur.n[1] IN
     o' = [o EXCEPT !.Funcs[f].len = n,
                    !.Funcs[f].jumps = Append(@, [Offset |-> n - 4, Symbol |-> Cur.w[1], Addend |-> 0])]
  /\ UNCHANGED <<f, blk>>

Prologue ==
  /\ Accept({"prologue"})
  /\ LET n == o.Funcs[f].len + PrologueLen IN
     o' = [o EXCEPT !.Funcs[f].len = n, !.Funcs[f].localsLocation = n - 4]
  /\ UNCHANGED <<f, blk>>

(* Mutant of FrameSize: the area rounded down to the alignment.            *)
RoundDown(localoff) == (localoff \div 16) * 16

FrameSize(localoff) == ((localoff + 16) \div 16) * 16

Epilogue ==
  /\ Accept({"epilogue"})
  /\ o' = [o EXCEPT !.Funcs[f].patch = (o.Funcs[f].localsLocation :> FrameSize(o.Funcs[f].localoff)) @@ @,
                    !.Funcs[f].len = @ + EpilogueLen]
  /\ UNCHANGED <<f, blk>>

(* Any other instruction; one with a symbol operand leaves a relocation.   *)
Instr ==
  /\ Accept({"instr"})
  /\ LET n == o.Funcs[f].len + Cur.n[1] IN
     o' = [o EXCEPT !.Funcs[f].len = n,
                    !.Funcs[f].Relocations =
                       IF Cur.w = <<>> THEN @ ELSE Append(@, [Offset |-> n - 4, Symbol |-> Cur.w[1], Addend |-> 0])]
  /\ UNCHANGED <<f, blk>>

(***************************************************************************)
(* The end of a file and of the run.                                       *)
(***************************************************************************)
(* A file that cannot be opened is reported and skipped.                   *)
NextFile ==
  /\ st = "asm" /\ src # <<>> /\ (~Head(src).opens \/ Head(src).lines = <<>>)
  /\ IF blk = NoBlock THEN src' = Tail(src) /\ f' = <<>> /\ st' = st
                      ELSE src' = src /\ f' = f /\ st' = "fatal"
  /\ UNCHANGED <<prog, o, blk, out, disk>>

(* A name with a dot is taken to name its package.                         *)
Dotted(sym) == Len(sym) > 1 /\ sym[1] \notin {"__typedesc_", "__typedesc_cache_", "__iface_desc_"}
Qualify(pkg, sym) == IF Dotted(sym) THEN sym ELSE pkg \o sym

(* Jumps to labels become displacements, the others relocations.           *)
Resolve(fn, pkg) ==
  LET local == SelectSeq(fn.jumps, LAMBDA j : j.Symbol \in DOMAIN fn.labels)
      other == SelectSeq(fn.jumps, LAMBDA j : j.Symbol \notin DOMAIN fn.labels)
      rels == fn.Relocations \o other
  IN  [Name |-> fn.Name, IsPub |-> fn.IsPub, Type |-> fn.Type, SrcFile |-> fn.SrcFile, SrcLine |-> fn.SrcLine,
       Args |-> fn.Args, Symbols |-> fn.Symbols, ReturnAliases |-> fn.ReturnAliases,
       Relocations |-> [i \in DOMAIN rels |-> [rels[i] EXCEPT !.Symbol = Qualify(pkg, @)]],
       bodyBs |-> [len |-> fn.len,
                   words |-> AsFunction({<<local[i].Offset, fn.labels[local[i].Symbol] - local[i].Offset - 4>> :
                                           i \in DOMAIN local}) @@ fn.patch]]

Resolved(ob) == [ob EXCEPT !.Funcs = [n \in DOMAIN @ |-> Resolve(@[n], ob.Pkgname)]]

Unpaired(ob) ==
  \E n \in DOMAIN ob.Data :
    /\ ob.Data[n].Kind = "typedesc"
    /\ LET c == typedescCacheName(Tail(n)) IN c \notin DOMAIN ob.Vars \/ ob.Vars[c].Kind # "typedesc_cache"

Orders(S) == {s \in [1..Cardinality(S) -> S] : \A i, j \in DOMAIN s : i # j => s[i] # s[j]}

(* The pairing check, then Output: the file is truncated and written.      *)
Output ==
  /\ st = "asm" /\ src = <<>>
  /\ IF o = None \/ Unpaired(o)
     THEN st' = "fatal" /\ UNCHANGED <<out, disk>>
     ELSE /\ st' = "write"
          /\ disk' = <<>>
          /\ LET doms == {DOMAIN o.Types, DOMAIN o.Data, DOMAIN o.Vars, DOMAIN o.Funcs} IN
             \E ord \in {h \in [doms -> UNION {Orders(S) : S \in doms}] : \A S \in doms : h[S] \in Orders(S)} :
                out' = Emit(writeOFile, Resolved(o), ord)
  /\ UNCHANGED <<prog, src, o, f, blk>>

Write ==
  /\ st = "write"
  /\ disk' = out /\ out' = <<>> /\ st' = "done"
  /\ UNCHANGED <<prog, src, o, f, blk>>

(* The process is killed, or a write fails, with part of the file written: *)
(* the file was truncated when it was created and nothing removes it.      *)
Kill ==
  /\ st = "write"
  /\ \E n \in 0..Len(out) - 1 : disk' = SubSeq(out, 1, n)
  /\ out' = <<>> /\ st' = "killed"
  /\ UNCHANGED <<prog, src, o, f, blk>>

AsmNext ==
  \/ Reject \/ PackageLine \/ TypeAlias \/ TypedescCache \/ VarOrData \/ TypeDescr
  \/ OpenBlock \/ BlockLine \/ CloseBlock
  \/ NewFunction \/ FuncType \/ FuncAliases \/ Local \/ Label \/ Jump \/ Prologue \/ Epilogue \/ Instr
  \/ NextFile \/ Output \/ Write \/ Kill
=============================================================================
