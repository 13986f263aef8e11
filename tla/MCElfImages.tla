---------------------------- MODULE MCElfImages ----------------------------
(***************************************************************************)
(* Small libraries for ElfImages, as a static linker would make them.        *)
(*                                                                           *)
(* A function of the ELF has a name, a type, whether it is undefined, and    *)
(* the number of places of each type that refer to it: jump slots of the     *)
(* PLT, GOT entries, pointers in data.                                       *)
(***************************************************************************)
EXTENDS ElfImages, TLC

LOCAL INSTANCE SequencesExt

Undefined0 == [name |-> "", type |-> "notype", undef |-> TRUE]
First(S) == IF S = {} THEN 0 ELSE Min(S)

(***************************************************************************)
(* Symbols and hash tables                                                   *)
(***************************************************************************)
\* Undefined functions come first, then those of the GNU table by bucket.
Rank(f) == IF f.undef THEN 0 ELSE 1 + (GnuHash[f.name] % 2)
Sorted(fs) == SelectSeq(fs, LAMBDA f : Rank(f) = 0) \o SelectSeq(fs, LAMBDA f : Rank(f) = 1)
              \o SelectSeq(fs, LAMBDA f : Rank(f) = 2)

SymbolsOf(fs) ==
    [i \in 0 .. Len(fs) |-> IF i = 0 THEN Undefined0
        ELSE [name |-> fs[i].name, type |-> fs[i].type, undef |-> fs[i].undef]]

\* All symbols are in the SYSV table, in two buckets.
SysvTable(fs) ==
    LET in(n) == {i \in DOMAIN fs : SysvHash[fs[i].name] % 2 = n}
    IN  [buckets |-> [n \in 1 .. 2 |-> First(in(n - 1))],
         chains  |-> [i \in DOMAIN fs |-> First({j \in in(SysvHash[fs[i].name] % 2) : j > i})]]

PlacesInChains(fs) ==
    [i \in DOMAIN fs |-> Cardinality({j \in 1 .. i - 1 : SysvHash[fs[j].name] % 2 = SysvHash[fs[i].name] % 2})]

\* The defined ones are in the GNU table, in two buckets, and each sets two bits
\* of the bloom filter.
GnuTable(fs) ==
    LET defined == {i \in DOMAIN fs : ~fs[i].undef}
        hash(i) == GnuHash[fs[i].name]
        in(n) == {i \in defined : hash(i) % 2 = n}
        filtered(w) == {i \in defined : (hash(i) \div 64) % 2 = w}
    IN  [buckets   |-> [n \in 1 .. 2 |-> First(in(n - 1))],
         symoffset |-> 1 + Len(fs) - Cardinality(defined),
         shift     |-> 3,
         bloom     |-> [w \in 1 .. 2 |->
                UNION {{hash(i) % 64, (hash(i) \div 8) % 64} : i \in filtered(w - 1)}],
         chains    |-> [i \in defined |->
                [hash |-> hash(i) \div 2, last |-> \A j \in in(hash(i) % 2) : j <= i]]]

NoSysv == [buckets |-> <<>>, chains |-> <<>>]
NoGnu == [buckets |-> <<>>, symoffset |-> 0, shift |-> 0, bloom |-> <<>>, chains |-> <<>>]

(***************************************************************************)
(* Relocations                                                               *)
(***************************************************************************)
\* Those of one type: the places of a function lie side by side.
RelocsOf(fs, type, base) ==
    LET of(i) == [k \in 1 .. fs[i].uses[type] |->
                    [at |-> base + 40 * i + 8 * k, sym |-> i, type |-> type]]
    IN  FlattenSeq([i \in DOMAIN fs |-> of(i)])

\* A group of packed relocations whose places are 8 bytes apart, the first one
\* behind the offset prev; the addends are 0.
GroupOf(relocs, prev, flags) ==
    LET delta(i) == relocs[i].at - (IF i = 1 THEN prev ELSE relocs[i - 1].at)
        info(i) == [sym |-> relocs[i].sym, type |-> relocs[i].type]
        one(i) == When("offset_delta" \notin flags, <<delta(i)>>)
                  \o When("info" \notin flags, <<info(i)>>)
                  \o When("has_addend" \in flags /\ "addend" \notin flags, <<0>>)
    IN  <<Len(relocs), flags>>
        \o When("offset_delta" \in flags, <<8>>) \o When("info" \in flags, <<info(1)>>)
        \o When({"addend", "has_addend"} \subseteq flags, <<0>>)
        \o FlattenSeq([i \in DOMAIN relocs |-> one(i)])

\* The first one in a group of its own where the others are grouped by their
\* distance.
Grouped(relocs, flags) ==
    IF relocs = <<>> THEN <<>>
    ELSE IF "offset_delta" \notin flags THEN <<[relocs |-> relocs, flags |-> flags]>>
    ELSE <<[relocs |-> SubSeq(relocs, 1, 1), flags |-> {}]>>
         \o (IF Len(relocs) = 1 THEN <<>> ELSE <<[relocs |-> Tail(relocs), flags |-> flags]>>)

\* The relocations of each function and type in a run.
Pack(fs, relocs, flags) ==
    LET run(i, type) == SelectSeq(relocs, LAMBDA r : r.sym = i /\ r.type = type)
        runs == FlattenSeq([i \in DOMAIN fs |-> Grouped(run(i, "glob_dat"), flags) \o Grouped(run(i, "abs"), flags)])
        prev(m) == IF m.packed = <<>> THEN 100 ELSE m.packed[Len(m.packed)].at
        add(m, g) == [s |-> m.s \o GroupOf(g.relocs, prev(m), g.flags),
                      packed |-> m.packed \o g.relocs,
                      groups |-> Append(m.groups, [at |-> Len(m.s) + 1, flags |-> g.flags,
                                                   first |-> Len(m.packed) + 1, size |-> Len(g.relocs)])]
    IN  FoldLeft(add, [s |-> <<Len(relocs), 100>>, packed |-> <<>>, groups |-> <<>>], runs)

(***************************************************************************)
(* Images                                                                    *)
(***************************************************************************)
NotPacked == {"not packed"}

\* tables: the hash tables the ELF has; flags: how .rel.dyn is packed.
Image(funcs, tables, flags, bias) ==
    LET fs == Sorted(funcs)
        dyn == RelocsOf(fs, "glob_dat", 500) \o RelocsOf(fs, "abs", 600)
        pack == IF flags = NotPacked THEN [s |-> <<>>, packed |-> <<>>, groups |-> <<>>] ELSE Pack(fs, dyn, flags)
    IN  [img |-> [bias |-> bias, syms |-> SymbolsOf(fs),
                  sysv |-> IF "sysv" \in tables THEN SysvTable(fs) ELSE NoSysv,
                  gnu  |-> IF "gnu" \in tables THEN GnuTable(fs) ELSE NoGnu,
                  plt  |-> RelocsOf(fs, "jump_slot", 0),
                  dyn  |-> IF flags = NotPacked THEN dyn ELSE <<>>,
                  aps2 |-> pack.s],
         place |-> PlacesInChains(fs), packed |-> pack.packed, groups |-> pack.groups]

Uses(j, g, d) == [jump_slot |-> j, glob_dat |-> g, abs |-> d]
Function(name, type, undef, uses) == [name |-> name, type |-> type, undef |-> undef, uses |-> uses]

\* A function f that is imported or exported, one with the same GNU hash, and
\* one in the same buckets; f and the third may be missing.
Fs == {<<>>} \cup {<<Function("f", r[1], r[2], Uses(j, g, d))>> :
        r \in {<<"func", TRUE>>, <<"notype", TRUE>>, <<"func", FALSE>>, <<"ifunc", FALSE>>},
        j \in 0 .. 1, g \in 0 .. 1, d \in {0, 2}}
Gs == {<<Function("g", "func", undef, Uses(1, 0, d))>> : undef \in BOOLEAN, d \in 0 .. 1}
Hs == {<<>>, <<Function("h", "func", FALSE, Uses(0, 0, 0))>>}

Packings == {NotPacked, {}, {"info"}, {"offset_delta"}, {"info", "offset_delta"}, {"info", "has_addend"},
             {"addend", "has_addend"}, {"info", "offset_delta", "addend", "has_addend"}}

Functions == {g \o f \o h : g \in Gs, f \in Fs, h \in Hs}
Tables == {{"sysv"}, {"gnu"}, {"sysv", "gnu"}}

\* g has the hash of f in the GNU table, and h shares its bucket.
SysvHashes == "f" :> 5 @@ "g" :> 7 @@ "h" :> 9
GnuHashes == "f" :> 200 @@ "g" :> 200 @@ "h" :> 202

NoLibraries == {}
SmallLibraries == {Image(funcs, tables, flags, 0) : funcs \in Functions, tables \in Tables, flags \in Packings}

=============================================================================
