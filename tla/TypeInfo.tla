------------------------------ MODULE TypeInfo ------------------------------
(***************************************************************************)
(* Type descriptors: the method tables the compiler builds for types and   *)
(* interfaces (cmd/bosc/typeinfo.go) and the byte blocks bas lays them out *)
(* in and bdump reads them back from (typeinfo.go).                        *)
(*                                                                         *)
(* A word is a sequence of strings, the parts of a (possibly qualified)    *)
(* name; a type is [q, n, p]: its qualifier words, its leaf name and the   *)
(* package the leaf is qualified with.  A block is [len, words, text]: its *)
(* length, its 8-byte fields by offset and the strings of its blob by      *)
(* offset; the length of a string is the number of its parts.              *)
(***************************************************************************)
EXTENDS Integers, Sequences, FiniteSets, SequencesExt, TLC

CONSTANTS
  fnv1a64(_),     \* the 64-bit hash, by what it returns on the model's names and signatures
  Builtins        \* names canonicalTypeName leaves bare in every package

(***************************************************************************)
(* cmd/bosc/typeinfo.go.                                                   *)
(***************************************************************************)
(* The name a slice is a slice of.                                         *)
Leaf(n) == SelectSeq(n, LAMBDA part : part # "[]")

canonicalTypeName(pkg, t) ==
  IF t.p # <<>> \/ Leaf(t.n) \in Builtins THEN t ELSE [t EXCEPT !.p = pkg]

(* The words of a canonical type: the last one is the qualified leaf.      *)
canonicalTypeString(pkg, t) ==
  LET c == canonicalTypeName(pkg, t) IN Append(c.q, c.p \o c.n)

canonicalSig(pkg, params, ret) ==
  FlattenSeq([i \in DOMAIN params |-> canonicalTypeString(pkg, params[i])])
    \o <<<<"->">>>> \o canonicalTypeString(pkg, ret)

(* value, pointer to constant and pointer to mutable receivers.            *)
receiverShapeOf(recv) ==
  CASE recv.q = <<>> -> 0 [] recv.q = <<<<"*">>>> -> 1 [] OTHER -> 2

slotBitmasksFromAliases(aliases) ==
  LET mask(ps) == FoldSet(LAMBDA p, a : a + 2 ^ p, 0, {ps[i] : i \in DOMAIN ps})
      masks == [s \in DOMAIN aliases |-> mask(aliases[s])]
  IN  IF \A s \in DOMAIN masks : masks[s] = 0 THEN <<>> ELSE masks

methodEntriesForType(pkg, typeName, methods) ==
  LET bound == SelectSeq(methods, LAMBDA m : m.Args # <<>>)
      entry(m) == LET sig == canonicalSig(pkg, Tail(m.Args), m.Return)
                  IN  [Name |-> m.Name, Sig |-> sig, NameHash |-> fnv1a64(<<m.Name>>),
                       SigHash |-> fnv1a64(sig), RecvShape |-> receiverShapeOf(Head(m.Args)),
                       FnSym |-> pkg \o typeName \o m.Name, SlotMasks |-> slotBitmasksFromAliases(m.Aliases)]
  IN  SortSeq([i \in DOMAIN bound |-> entry(bound[i])],
              LAMBDA a, b : \/ a.NameHash < b.NameHash
                            \/ a.NameHash = b.NameHash /\ a.SigHash < b.SigHash
                            \/ a.NameHash = b.NameHash /\ a.SigHash = b.SigHash /\ a.RecvShape < b.RecvShape)

reqEntriesForInterface(pkg, methods) ==
  LET nonRecv(m) == IF m.Params = <<>> THEN <<>> ELSE [i \in 1..Len(m.Params) - 1 |-> m.Params[i + 1].Type]
      entry(i) == LET m == methods[i]
                      sig == canonicalSig(pkg, nonRecv(m), m.Return)
                  IN  [Name |-> m.Name, Sig |-> sig, NameHash |-> fnv1a64(<<m.Name>>), SigHash |-> fnv1a64(sig),
                       DeclIdx |-> i - 1, SlotMasks |-> slotBitmasksFromAliases(m.ReturnAliases)]
  IN  SortSeq([i \in DOMAIN methods |-> entry(i)],
              LAMBDA a, b : a.NameHash < b.NameHash \/ (a.NameHash = b.NameHash /\ a.SigHash < b.SigHash))

(* The tokens a signature takes on a directive line: quoted, the words are *)
(* one token whatever their number.                                        *)
basQuoteSig(sig) == <<sig>>

(***************************************************************************)
(* typeinfo.go.                                                            *)
(***************************************************************************)
tdHeadFixed == 40
tdMethodStride == 72
tdMethodMaskOff == 64
tdCacheRefOff == 24
idHeadFixed == 24
idMethodStride == 64
idMethodMaskOff == 56

Total(seq, F(_)) == FoldLeft(LAMBDA a, x : a + F(x), 0, seq)
AsFunction(pairs) == [o \in {p[1] : p \in pairs} |-> (CHOOSE p \in pairs : p[1] = o)[2]]

encodeSlotMasks(masks) == IF masks = <<>> THEN 0 ELSE 8 + 8 * Len(masks)

(* Where addStr puts the i-th string of the blob.                          *)
addStr(start, strs, i) == start + Total(SubSeq(strs, 1, i - 1), Len)

(* The fixed region, the method table, the string blob and the masks, in   *)
(* that order.  A row's strings are its name and its signature.            *)
Block(headFixed, stride, maskOff, head, rows, row(_), strs) ==
  LET n == Len(rows)
      blobStart == headFixed + n * stride
      masksStart == blobStart + Total(strs, Len)
      base(i) == headFixed + (i - 1) * stride
      maskAt(i) == masksStart + Total(SubSeq(rows, 1, i - 1), LAMBDA m : encodeSlotMasks(m.SlotMasks))
      str(i, at) == {<<at, addStr(blobStart, strs, i)>>, <<at + 8, Len(strs[i])>>}
      entry(i) == str(2 * i, base(i)) \cup str(2 * i + 1, base(i) + 16)
                    \cup {<<base(i) + r[1], r[2]>> : r \in row(i)}
                    \cup {<<base(i) + maskOff, IF rows[i].SlotMasks = <<>> THEN 0 ELSE maskAt(i)>>}
      masks(i) == IF rows[i].SlotMasks = <<>> THEN {}
                  ELSE {<<maskAt(i), Len(rows[i].SlotMasks)>>}
                         \cup {<<maskAt(i) + 8 * s, rows[i].SlotMasks[s]>> : s \in DOMAIN rows[i].SlotMasks}
  IN  [len |-> masksStart + Total(rows, LAMBDA m : encodeSlotMasks(m.SlotMasks)),
       words |-> AsFunction(head \cup str(1, 0) \cup UNION {entry(i) \cup masks(i) : i \in 1..n}),
       text |-> AsFunction({<<addStr(blobStart, strs, i), strs[i]>> : i \in DOMAIN strs})]

Strings(name, rows) ==
  <<name>> \o FlattenSeq([i \in DOMAIN rows |-> <<rows[i].Name, rows[i].Sig>>])

EncodeTypedesc(rec) ==
  LET row(i) == {<<32, rec.Methods[i].NameHash>>, <<40, rec.Methods[i].SigHash>>,
                 <<48, rec.Methods[i].RecvShape>>, <<56, 0>>}
  IN  Block(tdHeadFixed, tdMethodStride, tdMethodMaskOff,
            {<<16, rec.SizeBytes>>, <<24, 0>>, <<32, Len(rec.Methods)>>}, rec.Methods, row,
            Strings(rec.TypeName, rec.Methods))

(* Mutant of TypedescRelocs: the function slot taken from the old stride.  *)
OldStrideRelocs(rec) ==
  <<[Offset |-> tdCacheRefOff, Symbol |-> rec.CacheSym, Addend |-> 0]>>
    \o [i \in DOMAIN rec.Methods |->
          [Offset |-> tdHeadFixed + (i - 1) * 64 + 56, Symbol |-> rec.Methods[i].FnSym, Addend |-> 0]]

TypedescRelocs(rec) ==
  <<[Offset |-> tdCacheRefOff, Symbol |-> rec.CacheSym, Addend |-> 0]>>
    \o [i \in DOMAIN rec.Methods |->
          [Offset |-> tdHeadFixed + (i - 1) * tdMethodStride + 56, Symbol |-> rec.Methods[i].FnSym,
           Addend |-> 0]]

EncodeIfaceDesc(rec) ==
  LET row(i) == {<<32, rec.Methods[i].NameHash>>, <<40, rec.Methods[i].SigHash>>, <<48, rec.Methods[i].DeclIdx>>}
  IN  Block(idHeadFixed, idMethodStride, idMethodMaskOff, {<<16, Len(rec.Methods)>>}, rec.Methods, row,
            Strings(rec.IfaceName, rec.Methods))

(* What a reader finds at an offset; a field it should not look at is 0.   *)
Word(b, off) == IF off \in DOMAIN b.words THEN b.words[off] ELSE 0
getStr(b, off) ==
  LET at == Word(b, off) IN
  IF at + Word(b, off + 8) > b.len \/ at \notin DOMAIN b.text THEN <<>> ELSE b.text[at]

decodeSlotMasks(b, off) ==
  IF off = 0 \/ off + 8 > b.len \/ off + 8 + 8 * Word(b, off) > b.len THEN <<>>
  ELSE [s \in 1..Word(b, off) |-> Word(b, off + 8 * s)]

DecodeTypedesc(v) ==
  LET b == v.Val
      relAt(off) == LET rs == SelectSeq(v.Relocs, LAMBDA r : r.Offset = off)
                    IN  IF rs = <<>> THEN <<>> ELSE Head(rs).Symbol
      base(i) == tdHeadFixed + (i - 1) * tdMethodStride
      rows == {i \in 1..Word(b, 32) : base(i) + tdMethodStride <= b.len}
  IN  [TypeName |-> getStr(b, 0), SizeBytes |-> Word(b, 16), CacheSym |-> relAt(tdCacheRefOff),
       Methods |-> [i \in 1..Cardinality(rows) |->
                      [Name |-> getStr(b, base(i)), Sig |-> getStr(b, base(i) + 16),
                       NameHash |-> Word(b, base(i) + 32), SigHash |-> Word(b, base(i) + 40),
                       RecvShape |-> Word(b, base(i) + 48), FnSym |-> relAt(base(i) + 56),
                       SlotMasks |-> decodeSlotMasks(b, Word(b, base(i) + tdMethodMaskOff))]]]

DecodeIfaceDesc(v) ==
  LET b == v.Val
      base(i) == idHeadFixed + (i - 1) * idMethodStride
      rows == {i \in 1..Word(b, 16) : base(i) + idMethodStride <= b.len}
  IN  [IfaceName |-> getStr(b, 0),
       Methods |-> [i \in 1..Cardinality(rows) |->
                      [Name |-> getStr(b, base(i)), Sig |-> getStr(b, base(i) + 16),
                       NameHash |-> Word(b, base(i) + 32), SigHash |-> Word(b, base(i) + 40),
                       DeclIdx |-> Word(b, base(i) + 48),
                       SlotMasks |-> decodeSlotMasks(b, Word(b, base(i) + idMethodMaskOff))]]]
=============================================================================
