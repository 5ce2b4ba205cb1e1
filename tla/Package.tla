------------------------------- MODULE Package -------------------------------
(***************************************************************************)
(* A package on its way from the compiler that declares it to the compiler *)
(* that imports it: the directives of Directives, read by the assembler of *)
(* Assembler, written and read in the format of ObjectFile, and registered *)
(* by Context.Import (cmd/bosc/ast.go).                                    *)
(***************************************************************************)
EXTENDS Assembler

VARIABLE ctx   \* what the importing compiler knows of the package, or None

vars == <<asmvars, ctx>>

Init == AsmInit /\ ctx = None

(***************************************************************************)
(* Context.Import.                                                         *)
(***************************************************************************)
Error == [error |-> TRUE]

ReadOFile(file) == Take(readOFile, file)

(* A rendered type is its words; one that ends in a qualifier has no name. *)
Qualifiers == {<<"*">>, <<"*mut">>, <<"owned">>}
parseTypeString(words) == words # <<>> /\ Last(words) \notin Qualifiers

(* Mutant of qualifyImportedTypeFull: interfaces are forgotten.            *)
NoInterfaces(words, ob) ==
  IF Leaf(Last(words)) \in DOMAIN ob.Structs \cup DOMAIN ob.TypeAliases \cup DOMAIN ob.Values
  THEN Append(Front(words), ob.Pkgname \o Last(words)) ELSE words

qualifyImportedTypeFull(words, ob) ==
  IF Leaf(Last(words)) \in DOMAIN ob.Structs \cup DOMAIN ob.TypeAliases \cup DOMAIN ob.Interfaces \cup DOMAIN ob.Values
  THEN Append(Front(words), ob.Pkgname \o Last(words)) ELSE words

PubOf(m) == {n \in DOMAIN m : m[n].IsPub}

(* ParseFunctype: what follows the marker is the element of a slice.       *)
ImportArg(words, ob) ==
  LET variadic == Head(words) = <<"...">>
      t == qualifyImportedTypeFull(IF variadic THEN Tail(words) ELSE words, ob)
  IN  [type |-> IF variadic THEN Append(Front(t), Last(t) \o <<"[]">>) ELSE t, variadic |-> variadic]

(* Only a function that has a type line is registered.                     *)
ImportedFuncs(ob) == {n \in PubOf(ob.Funcs) : ob.Funcs[n].Type # <<>>}
ImportFunc(fn, ob) ==
  LET t == Head(fn.Type) IN
  [args |-> [i \in DOMAIN t.args |-> ImportArg(t.args[i], ob)],
   ret |-> qualifyImportedTypeFull(t.ret, ob), aliases |-> fn.ReturnAliases]

(* The methods of a type are those of its names that were imported.        *)
ImportMethods(typeName, names, ob) ==
  LET known == SelectSeq(names, LAMBDA m : typeName \o m \in ImportedFuncs(ob))
  IN  [i \in DOMAIN known |-> <<known[i], ImportFunc(ob.Funcs[typeName \o known[i]], ob)>>]

ImportStruct(sh, ob) ==
  [k |-> "struct", fields |-> [i \in DOMAIN sh.Fields |-> <<sh.Fields[i].Name, qualifyImportedTypeFull(sh.Fields[i].Type, ob)>>],
   methods |-> ImportMethods(sh.Name, sh.MethodNames, ob)]

(* The underlying type is parsed and registered as it stands.              *)
ImportAlias(ta, ob) ==
  [k |-> "alias", underlying |-> ta.Underlying, methods |-> ImportMethods(ta.Name, ta.MethodNames, ob)]

ImportInterface(ifc, ob) ==
  LET sig(m) == [name |-> m.Name,
                 params |-> [i \in DOMAIN m.Params |-> <<m.Params[i].Name, qualifyImportedTypeFull(m.Params[i].Type, ob)>>],
                 ret |-> qualifyImportedTypeFull(m.Return, ob), aliases |-> m.ReturnAliases]
  IN  [k |-> "iface", methods |-> [i \in DOMAIN ifc.Methods |-> sig(ifc.Methods[i])]]

ImportValues(vs, ob) ==
  [k |-> "values", tag |-> vs.TagType, cases |-> vs.Cases,
   projections |-> [i \in DOMAIN vs.Projections |-> qualifyImportedTypeFull(vs.Projections[i], ob)],
   methods |-> ImportMethods(vs.Name, vs.MethodNames, ob)]

ImportedVars(ob) == {n \in PubOf(ob.Vars) : ob.Vars[n].VType # <<>>}

(* The types of exported declarations that Import has to parse.            *)
TypesToParse(ob) ==
  UNION {{sh.Fields[i].Type : i \in DOMAIN sh.Fields} : sh \in {ob.Structs[n] : n \in PubOf(ob.Structs)}}
    \cup {ob.TypeAliases[n].Underlying : n \in PubOf(ob.TypeAliases)}
    \cup {ob.Vars[n].VType : n \in ImportedVars(ob)}
    \cup UNION {UNION {{m.Params[i].Type : i \in DOMAIN m.Params} \cup {m.Return} :
                         m \in {ifc.Methods[i] : i \in DOMAIN ifc.Methods}} :
                  ifc \in {ob.Interfaces[n] : n \in PubOf(ob.Interfaces)}}
    \cup UNION {{vs.TagType} \cup {vs.Projections[i] : i \in DOMAIN vs.Projections} :
                  vs \in {ob.Values[n] : n \in PubOf(ob.Values)}}

Register(ob) ==
  LET types(m, F(_, _)) == [q \in {ob.Pkgname \o n : n \in PubOf(m)} |->
                              F(m[SubSeq(q, Len(ob.Pkgname) + 1, Len(q))], ob)]
  IN  [funcs |-> [n \in ImportedFuncs(ob) |-> ImportFunc(ob.Funcs[n], ob)],
       types |-> types(ob.Structs, ImportStruct) @@ types(ob.TypeAliases, ImportAlias)
                   @@ types(ob.Interfaces, ImportInterface) @@ types(ob.Values, ImportValues),
       vars |-> [n \in ImportedVars(ob) |-> qualifyImportedTypeFull(ob.Vars[n].VType, ob)]]

(* Another compilation imports what it finds on disk.                      *)
Import ==
  /\ st \in {"done", "killed"}
  /\ LET r == ReadOFile(disk) IN
     ctx' = IF r.ok /\ r.v.Pkgname # <<>> /\ \A t \in TypesToParse(r.v) : parseTypeString(t) THEN Register(r.v) ELSE Error
  /\ st' = "imported"
  /\ UNCHANGED <<prog, src, o, f, blk, out, disk>>

Next == (AsmNext /\ UNCHANGED ctx) \/ Import

Spec == Init /\ [][Next]_vars

(***************************************************************************)
(* What the importer should know: the exported declarations themselves.    *)
(***************************************************************************)
Decls == {prog.decls[i] : i \in DOMAIN prog.decls}
TypeKinds == {"struct", "alias", "iface", "values"}
LocalTypes == {d.Name : d \in {e \in Decls : e.k \in TypeKinds}}

(* A type as the importer writes it.                                       *)
Abroad(t) == TypeString(IF Leaf(t.n) \in LocalTypes THEN [t EXCEPT !.p = prog.pkg] ELSE t)
(* Alias slots without a parameter at the end of the list say nothing.     *)
Significant(aliases) ==
  SelectSeq([s \in DOMAIN aliases |-> <<s, aliases[s]>>], LAMBDA x : x[2] # <<>>)

FuncSeen(fn) ==
  [args |-> [i \in DOMAIN fn.Args |-> [type |-> Abroad(fn.Args[i]), variadic |-> fn.Variadic /\ i = Len(fn.Args)]],
   ret |-> Abroad(fn.Return), aliases |-> Significant(fn.Aliases)]
Seen(fn) == [fn EXCEPT !.aliases = Significant(@)]

MethodsSeen(d) ==
  LET pub == SelectSeq(d.Methods, LAMBDA m : m.IsPub)
  IN  [i \in DOMAIN pub |-> <<pub[i].Name, FuncSeen(pub[i])>>]

TypeSeen(d) ==
  CASE d.k = "struct" -> [k |-> "struct", methods |-> MethodsSeen(d),
                          fields |-> [i \in DOMAIN d.Fields |-> <<d.Fields[i].Name, Abroad(d.Fields[i].Type)>>]]
    [] d.k = "alias" -> [k |-> "alias", methods |-> MethodsSeen(d), underlying |-> TypeString(d.Underlying)]
    [] d.k = "values" -> [k |-> "values", methods |-> MethodsSeen(d), tag |-> TypeString(d.TagType), cases |-> d.Cases,
                          projections |-> [i \in DOMAIN d.Projections |-> Abroad(d.Projections[i])]]
    [] d.k = "iface" -> [k |-> "iface", methods |-> [i \in DOMAIN d.Methods |-> LET m == d.Methods[i] IN
                           [name |-> m.Name, ret |-> Abroad(m.Return), aliases |-> Significant(m.ReturnAliases),
                            params |-> [j \in DOMAIN m.Params |-> <<m.Params[j].Name, Abroad(m.Params[j].Type)>>]]]]

(* The same for what Import has registered.                                *)
Normal(t) ==
  IF t.k = "iface" THEN [t EXCEPT !.methods = [i \in DOMAIN @ |-> Seen(@[i])]]
  ELSE [t EXCEPT !.methods = [i \in DOMAIN @ |-> <<@[i][1], Seen(@[i][2])>>]]

Imported == st = "imported" /\ prog.intact /\ ctx # None

(***************************************************************************)
(* Properties.                                                             *)
(***************************************************************************)
(* A file whose writing was cut short at any point is refused by readOFile *)
(* (so by bosc, bld and bdump); a complete one reads back as exactly the   *)
(* object bas had, whatever order Go walked its maps in.                   *)
TornFileRefused ==
  /\ st = "killed" => ~ReadOFile(disk).ok
  /\ st = "done" => LET r == ReadOFile(disk) IN r.ok /\ r.rest = <<>> /\ r.v = Resolved(o)

(* An importer of a compiled package sees exactly its exported functions,  *)
(* types, methods and globals, with every type of the package qualified by *)
(* it, through directives, object, file and Import; only what an alias     *)
(* stands for arrives as its own package wrote it (AliasesQualified).      *)
ImportFaithful ==
  Imported /\ ReadOFile(disk).ok =>
    /\ ctx # Error
    /\ \A d \in Decls : d.IsPub =>
         CASE d.k = "func" -> d.Name \in DOMAIN ctx.funcs /\ Seen(ctx.funcs[d.Name]) = FuncSeen(d)
           [] d.k = "var" -> d.Name \in DOMAIN ctx.vars /\ ctx.vars[d.Name] = Abroad(d.Type)
           [] OTHER -> prog.pkg \o d.Name \in DOMAIN ctx.types /\ Normal(ctx.types[prog.pkg \o d.Name]) = TypeSeen(d)
    /\ Cardinality(DOMAIN ctx.types) = Cardinality({d \in Decls : d.IsPub /\ d.k \in TypeKinds})

(* What DESIGN.md:288 says of an alias, which is exported the same way a   *)
(* struct is: the type it stands for is qualified like those of fields.    *)
AliasesQualified ==
  Imported /\ ReadOFile(disk).ok =>
    \A d \in Decls : d.IsPub /\ d.k = "alias" => ctx.types[prog.pkg \o d.Name].underlying = Abroad(d.Underlying)

(* A descriptor decoded from the file (as bdump and the runtime's layout   *)
(* do) is the method table the compiler built: names, signatures, hashes,  *)
(* alias masks, and each function and cache symbol at its own slot.        *)
DescriptorsRead ==
  st = "done" /\ prog.intact =>
    LET ob == ReadOFile(disk).v IN
    \A d \in Decls :
      /\ d.k \in TypeKinds \ {"iface"} => DecodeTypedesc(ob.Data[typedescName(d.Name)]) = TypedescOf(prog.pkg, d)
      /\ d.k = "iface" => DecodeIfaceDesc(ob.Data[ifaceDescName(d.Name)]) = IfaceDescOf(prog.pkg, d)

(* Whatever the source of the directives, no pointer slot of a datum that  *)
(* reaches the object lies outside its bytes, where the linker would write *)
(* over the next symbol.                                                   *)
RelocsInRange ==
  st = "write" =>
    \A m \in {o.Data, o.Vars} : \A n \in DOMAIN m : \A i \in DOMAIN m[n].Relocs :
      m[n].Relocs[i].Offset + 8 <= m[n].Val.len

(* In a compiled function the frame covers every local, the frame size and *)
(* the displacements patched into the body lie inside it and apart, and a  *)
(* jump to a label lands on it.                                            *)
CodeSound ==
  st = "write" /\ prog.intact =>
    \A n \in DOMAIN o.Funcs :
      LET fn == o.Funcs[n]
          body == Resolve(fn, o.Pkgname)
          slots == {fn.jumps[i].Offset : i \in DOMAIN fn.jumps} \cup {fn.localsLocation}
                     \cup {fn.Relocations[i].Offset : i \in DOMAIN fn.Relocations}
      IN  /\ body.bodyBs.words[fn.localsLocation] >= fn.localoff
          /\ \A a, b \in slots : a # b => a + 4 <= b \/ b + 4 <= a
          /\ \A a \in slots : a + 4 <= fn.len
          /\ \A i \in DOMAIN fn.jumps : fn.jumps[i].Symbol \in DOMAIN fn.labels =>
               fn.jumps[i].Offset + 4 + body.bodyBs.words[fn.jumps[i].Offset] = fn.labels[fn.jumps[i].Symbol]
=============================================================================
