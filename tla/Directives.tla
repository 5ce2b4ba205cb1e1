----------------------------- MODULE Directives -----------------------------
(***************************************************************************)
(* The assembler directives bosc writes for the declarations of a package  *)
(* (compile.go, globals.go, cmd/bosc/typeinfo.go), line by line.           *)
(*                                                                         *)
(* A line is [d, pub, w, n]: its directive ("" for the bare lines of a     *)
(* struct block), its pub prefix, its remaining tokens and its numbers.    *)
(***************************************************************************)
EXTENDS ObjectFile, TypeInfo

CONSTANT RetLabel   \* the return label of a compiled function

Line(d, pub, w, n) == [d |-> d, pub |-> pub, w |-> w, n |-> n]
Close == Line("}", FALSE, <<>>, <<>>)

(* ASTType.String, as the words bas will tokenize it into.                 *)
TypeString(t) == Append(t.q, t.p \o t.n)

retaliases(aliases) ==
  FlattenSeq([s \in DOMAIN aliases |->
    IF aliases[s] = <<>> THEN <<>> ELSE <<Line("retaliases", FALSE, <<>>, <<s - 1>> \o aliases[s])>>])

(* A parameter of a signature: a variadic one, the last, is written as its *)
(* element type with a marker in front.                                    *)
Param(fn, i) ==
  IF fn.Variadic /\ i = Len(fn.Args) THEN <<<<"...">>>> \o TypeString([fn.Args[i] EXCEPT !.n = Front(@)])
  ELSE TypeString(fn.Args[i])

(* The body is reduced to what the object file keeps of it: the frame, the *)
(* locals, a jump to the return label and the calls.                       *)
FuncLines(name, fn) ==
  <<Line("function", fn.IsPub, <<name>>, <<>>),
    Line("type", FALSE, <<[args |-> [i \in DOMAIN fn.Args |-> Param(fn, i)],
                           ret |-> TypeString(fn.Return)]>>, <<>>)>>
  \o retaliases(fn.Aliases)
  \o <<Line("prologue", FALSE, <<>>, <<>>)>>
  \o [i \in DOMAIN fn.Locals |-> Line("local", FALSE, <<>>, <<fn.Locals[i]>>)]
  \o <<Line("JMP", FALSE, <<RetLabel>>, <<5>>)>>
  \o [i \in DOMAIN fn.Calls |-> Line("CALL", FALSE, <<fn.Calls[i]>>, <<5>>)]
  \o <<Line("label", FALSE, <<RetLabel>>, <<>>), Line("epilogue", FALSE, <<>>, <<>>),
       Line("instr", FALSE, <<>>, <<1>>)>>

Methods(d) == FlattenSeq([i \in DOMAIN d.Methods |-> FuncLines(d.Name \o d.Methods[i].Name, d.Methods[i])])
MethodNames(d) == [i \in DOMAIN d.Methods |-> d.Methods[i].Name]

typedescName(t) == <<"__typedesc_">> \o t
typedescCacheName(t) == <<"__typedesc_cache_">> \o t
ifaceDescName(t) == <<"__iface_desc_">> \o t

TypedescOf(pkg, d) ==
  [TypeName |-> d.Name, SizeBytes |-> d.size, CacheSym |-> typedescCacheName(d.Name),
   Methods |-> methodEntriesForType(pkg, d.Name, d.Methods)]
IfaceDescOf(pkg, d) == [IfaceName |-> d.Name, Methods |-> reqEntriesForInterface(pkg, d.Methods)]

emitTypedescStructured(pub, rec) ==
  <<Line("typedesc", pub, <<typedescName(rec.TypeName)>>, <<>>), Line("name", FALSE, <<rec.TypeName>>, <<>>),
    Line("size", FALSE, <<>>, <<rec.SizeBytes>>), Line("cache_ref", FALSE, <<rec.CacheSym>>, <<>>)>>
  \o [i \in DOMAIN rec.Methods |-> LET m == rec.Methods[i] IN
        Line("method", FALSE, <<m.Name>> \o basQuoteSig(m.Sig) \o <<m.FnSym>>,
             <<m.NameHash, m.SigHash, m.RecvShape>> \o m.SlotMasks)]
  \o <<Close, Line("typedesc_cache", pub, <<rec.CacheSym>>, <<>>)>>

emitIfaceDescStructured(pub, rec) ==
  <<Line("iface_desc", pub, <<ifaceDescName(rec.IfaceName)>>, <<>>), Line("name", FALSE, <<rec.IfaceName>>, <<>>)>>
  \o [i \in DOMAIN rec.Methods |-> LET m == rec.Methods[i] IN
        Line("method", FALSE, <<m.Name>> \o basQuoteSig(m.Sig), <<m.NameHash, m.SigHash, m.DeclIdx>> \o m.SlotMasks)]
  \o <<Close>>

StructLines(pkg, d) ==
  <<Line("struct", d.IsPub, <<d.Name>> \o MethodNames(d), <<>>)>>
  \o [i \in DOMAIN d.Fields |-> Line("", FALSE, <<d.Fields[i].Name>> \o TypeString(d.Fields[i].Type), <<>>)]
  \o <<Close>> \o emitTypedescStructured(d.IsPub, TypedescOf(pkg, d)) \o Methods(d)

AliasLines(pkg, d) ==
  <<Line("typealias", d.IsPub, <<d.Name>> \o TypeString(d.Underlying) \o MethodNames(d), <<>>)>>
  \o emitTypedescStructured(d.IsPub, TypedescOf(pkg, d)) \o Methods(d)

InterfaceLines(pkg, d) ==
  LET param(p) == Line("param", FALSE, <<p.Name>> \o TypeString(p.Type), <<>>)
      method(m) == <<Line("method", FALSE, <<m.Name>>, <<>>)>>
                     \o [i \in DOMAIN m.Params |-> param(m.Params[i])]
                     \o <<Line("return", FALSE, TypeString(m.Return), <<>>)>>
                     \o retaliases(m.ReturnAliases) \o <<Close>>
  IN  <<Line("interface", d.IsPub, <<d.Name>>, <<>>)>>
        \o FlattenSeq([i \in DOMAIN d.Methods |-> method(d.Methods[i])]) \o <<Close>>
        \o emitIfaceDescStructured(d.IsPub, IfaceDescOf(pkg, d))

(* The string form of a global, or its block form when it has relocations. *)
emitVarBlock(pub, g) ==
  LET head == <<g.Name>> \o TypeString(g.Type) IN
  IF g.Relocs = <<>> THEN <<Line("var", pub, Append(head, <<"\"">>), <<g.size>>)>>
  ELSE <<Line("var", pub, Append(head, <<"{">>), <<>>), Line("bytes", FALSE, <<>>, <<g.size>>)>>
         \o [i \in DOMAIN g.Relocs |-> Line("reloc", FALSE, <<g.Relocs[i].Symbol>>,
                                            <<g.Relocs[i].Offset, g.Relocs[i].Addend>>)]
         \o <<Close>>

(* A global without an initializer is a count of zero bytes; one with an   *)
(* initializer is followed by the anonymous globals its literals queued.   *)
emitGlobalVarDecl(d) ==
  IF d.init = "zero" THEN <<Line("var", d.IsPub, <<d.Name>> \o TypeString(d.Type) \o <<<<"#">>>>, <<d.size>>)>>
  ELSE emitVarBlock(d.IsPub, d) \o FlattenSeq([i \in DOMAIN d.Anon |-> emitVarBlock(FALSE, d.Anon[i])])

(* The table of a projection: one element per case.                        *)
projectionTable(d, i) ==
  LET t == d.Projections[i] IN
  [Name |-> <<"__projection_">> \o d.Name \o <<ToString(i)>>, Type |-> [t EXCEPT !.n = @ \o <<"[]">>],
   size |-> 8 * Len(d.Cases), Relocs |-> <<>>]

ValuesLines(pkg, d) ==
  <<Line("values", d.IsPub, <<d.Name>>, <<>>), Line("tag", FALSE, TypeString(d.TagType), <<>>)>>
  \o [i \in DOMAIN d.Cases |-> Line("case", FALSE, <<d.Cases[i].Name>>, <<d.Cases[i].Tag>>)]
  \o [i \in DOMAIN d.Projections |-> Line("projection", FALSE, TypeString(d.Projections[i]), <<>>)]
  \o [i \in DOMAIN d.Methods |-> Line("method", FALSE, <<d.Methods[i].Name>>, <<>>)]
  \o <<Close>> \o emitTypedescStructured(d.IsPub, TypedescOf(pkg, d))
  \o FlattenSeq([i \in DOMAIN d.Projections |-> emitVarBlock(FALSE, projectionTable(d, i))]) \o Methods(d)

DeclLines(pkg, d) ==
  CASE d.k = "struct" -> StructLines(pkg, d) [] d.k = "alias" -> AliasLines(pkg, d)
    [] d.k = "iface" -> InterfaceLines(pkg, d) [] d.k = "values" -> ValuesLines(pkg, d)
    [] d.k = "func" -> FuncLines(d.Name, d) [] d.k = "var" -> emitGlobalVarDecl(d)

CompiledLines(pkg, decls) ==
  <<Line("package", FALSE, <<pkg>>, <<>>)>>
    \o FlattenSeq([i \in DOMAIN decls |-> DeclLines(pkg, decls[i])])

=============================================================================
