----------------------------- MODULE ElfReader -----------------------------
(***************************************************************************)
(* What plthook reads in an ELF (bh_elf.cpp): the symbol of a function, from *)
(* the SYSV hash table, the import table, the GNU hash table or the          *)
(* relocations, and the GOT entries the linker fills in for it, from the     *)
(* relocations of .rel.plt and .rel.dyn and from the packed ones of APS2.    *)
(* All of it for 64 bits.                                                    *)
(*                                                                           *)
(* An image is a record: syms, the symbols by index, 0 for the undefined     *)
(* one; sysv and gnu, the hash tables, with no buckets where there is none;  *)
(* plt and dyn, sequences of relocations; aps2, the numbers that the SLEB128 *)
(* decoder yields.  Of a relocation the addend is left out.                  *)
(***************************************************************************)
EXTENDS Integers, Sequences, FiniteSetsExt

CONSTANTS
    SysvHash,   \* bh_elf_sysv_hash and
    GnuHash,    \* bh_elf_gnu_hash, of a symbol's name
    GotMax      \* BH_HOOK_MANAGER_GOT_MAX_CAP

ASSUME ElfReaderAssumption ==
    /\ DOMAIN SysvHash = DOMAIN GnuHash
    /\ \A name \in DOMAIN GnuHash : SysvHash[name] \in Nat /\ GnuHash[name] \in Nat
    /\ GotMax \in Nat \ {0}

Null == 0       \* no symbol is found

Symbols(img) == DOMAIN img.syms
FuncTypes == {"func", "ifunc", "notype"}

(***************************************************************************)
(* Looking for a symbol                                                      *)
(***************************************************************************)
IsNamed(img, i, name, types) == img.syms[i].type \in types /\ img.syms[i].name = name

\* The first hit of a search that visits at[1], at[2], ...
FirstHit(img, at, name, types) ==
    LET hits == {n \in DOMAIN at : IsNamed(img, at[n], name, types)}
    IN  IF hits = {} THEN Null ELSE at[Min(hits)]

HasSysv(img) == img.sysv.buckets # <<>>
HasGnu(img) == img.gnu.buckets # <<>>

Bucket(table, hash) == table.buckets[(hash % Len(table.buckets)) + 1]

\* bh_elf_find_symbol_by_name_use_sysv_hash
FindBySysv(img, name) ==
    LET at[n \in 0 .. Cardinality(Symbols(img))] ==
            IF n = 0 THEN Bucket(img.sysv, SysvHash[name])
            ELSE LET i == at[n - 1] IN IF i = 0 THEN 0 ELSE img.sysv.chains[i]
    IN  FirstHit(img, [n \in {m \in DOMAIN at : at[m] # 0} |-> at[n]], name, FuncTypes)

\* Both bits of the name are in the word of the bloom filter.
InBloom(gnu, hash) ==
    LET word == gnu.bloom[((hash \div 64) % Len(gnu.bloom)) + 1]
    IN  {hash % 64, (hash \div 2 ^ gnu.shift) % 64} \subseteq word

\* Mutant: the last symbol of a chain is not looked at.
ChainFromShort(img, i) ==
    LET last == {j \in DOMAIN img.gnu.chains : j >= i /\ img.gnu.chains[j].last}
    IN  i .. Min(last) - 1

\* A chain goes on to the next entry that has its lowest bit set.
ChainFrom(img, i) ==
    LET last == {j \in DOMAIN img.gnu.chains : j >= i /\ img.gnu.chains[j].last}
    IN  i .. Min(last)

\* bh_elf_find_symbol_by_name_use_gnu_hash
FindByGnu(img, name) ==
    LET hash == GnuHash[name]
        i == Bucket(img.gnu, hash)
        chain == {j \in ChainFrom(img, i) : img.gnu.chains[j].hash = hash \div 2}
    IN  IF ~InBloom(img.gnu, hash) \/ i < img.gnu.symoffset THEN Null
        ELSE FirstHit(img, [j \in chain |-> j], name, FuncTypes)

\* bh_elf_find_symbol_by_name_use_import_table: the symbols in front of those of
\* the GNU hash table, without ifuncs.
FindByImports(img, name) ==
    FirstHit(img, [i \in {j \in Symbols(img) : j < img.gnu.symoffset} |-> i], name, {"func", "notype"})

\* The symbols of relocations, of whatever type.
FindByRelocs(img, relocs, name) ==
    LET hits == {n \in DOMAIN relocs : img.syms[relocs[n].sym].name = name}
    IN  IF hits = {} THEN Null ELSE relocs[Min(hits)].sym

IsImport(img, i) == i # Null /\ img.syms[i].undef
IsExport(img, i) == i # Null /\ ~img.syms[i].undef

\* bh_elf_find_import_func_symbol_by_symbol_name
ImportSymbol(img, name) ==
    LET bySysv == IF HasSysv(img) THEN FindBySysv(img, name) ELSE Null
        byImports == FindByImports(img, name)
        byGnu == IF HasGnu(img) THEN FindByGnu(img, name) ELSE Null
        byPlt == FindByRelocs(img, img.plt, name)
    IN  IF IsImport(img, bySysv) THEN bySysv
        ELSE IF IsImport(img, byImports) THEN byImports
        ELSE IF IsExport(img, byGnu) THEN byGnu
        ELSE IF byPlt # Null THEN byPlt
        ELSE FindByRelocs(img, img.dyn, name)

\* bh_elf_find_export_func_symbol_by_symbol_name
ExportSymbol(img, name) ==
    LET bySysv == IF HasSysv(img) THEN FindBySysv(img, name) ELSE Null
        byGnu == IF HasGnu(img) THEN FindByGnu(img, name) ELSE Null
    IN  IF IsExport(img, byGnu) THEN byGnu
        ELSE IF IsExport(img, bySysv) THEN bySysv ELSE Null

(***************************************************************************)
(* Packed relocations: the number of them, the first offset, and groups.  A  *)
(* group has its size and flags, what its relocations have in common, and    *)
(* the rest of each one.                                                     *)
(***************************************************************************)
Flags == {"info", "offset_delta", "addend", "has_addend"}

One(b) == IF b THEN 1 ELSE 0

HeaderLen(flags) ==
    2 + One("offset_delta" \in flags) + One("info" \in flags) + One({"addend", "has_addend"} \subseteq flags)

RelocLen(flags) ==
    One("offset_delta" \notin flags) + One("info" \notin flags)
    + One("has_addend" \in flags /\ "addend" \notin flags)

\* What the i-th relocation of the group at p has for itself comes behind the
\* header of the group.
RestAt(s, p, i) == p + HeaderLen(s[p + 1]) + (i - 1) * RelocLen(s[p + 1])

DeltaAt(s, p, i) == IF "offset_delta" \in s[p + 1] THEN p + 2 ELSE RestAt(s, p, i)
InfoAt(s, p, i) ==
    LET common == "offset_delta" \in s[p + 1]
    IN  IF "info" \in s[p + 1] THEN p + 2 + One(common) ELSE RestAt(s, p, i) + One(~common)

\* The group at m.p; the decoder may run out of numbers in the middle.
AfterGroup(s, m) ==
    LET whole == {i \in 1 .. s[m.p] : RestAt(s, m.p, i + 1) - 1 <= Len(s)}
        at[i \in 0 .. Cardinality(whole)] ==
            IF i = 0 THEN m.offset ELSE at[i - 1] + s[DeltaAt(s, m.p, i)]
        reloc(i) == [at |-> at[i], sym |-> s[InfoAt(s, m.p, i)].sym, type |-> s[InfoAt(s, m.p, i)].type]
    IN  [p |-> RestAt(s, m.p, s[m.p] + 1), offset |-> at[Cardinality(whole)], idx |-> m.idx + s[m.p],
         out |-> m.out \o [i \in 1 .. Cardinality(whole) |-> reloc(i)]]

\* bh_elf_iterate_aps2
Unpacked(s) ==
    LET more(m) == m.idx < s[1] /\ m.p < Len(s) /\ m.p + HeaderLen(s[m.p + 1]) - 1 <= Len(s)
        m[n \in 0 .. Len(s)] ==
            IF n = 0 THEN [p |-> 3, offset |-> s[2], idx |-> 0, out |-> <<>>]
            ELSE LET k == m[n - 1] IN IF more(k) THEN AfterGroup(s, k) ELSE k
    IN  IF Len(s) < 2 THEN <<>> ELSE m[Len(s)].out

(***************************************************************************)
(* GOT entries                                                               *)
(***************************************************************************)
DynTypes == {"glob_dat", "abs"}

\* Those of the relocations that are wanted, in their order.
Picked(relocs, wanted) ==
    LET picked[n \in 0 .. Len(relocs)] ==
            IF n = 0 THEN <<>>
            ELSE IF relocs[n] \in wanted THEN Append(picked[n - 1], relocs[n]) ELSE picked[n - 1]
    IN  picked[Len(relocs)]

OfType(relocs, types) == Picked(relocs, {r \in Range(relocs) : r.type \in types})

\* The relocations the linker fills a GOT entry for, in the order they are read.
GotRelocs(img) ==
    OfType(img.plt, {"jump_slot"}) \o OfType(img.dyn, DynTypes) \o OfType(Unpacked(img.aps2), DynTypes)

\* The addresses of the entries, as many as there is room for.
Slots(img, relocs) ==
    [i \in 1 .. (IF Len(relocs) <= GotMax THEN Len(relocs) ELSE GotMax) |-> img.bias + relocs[i].at]

\* bh_elf_find_import_func_address_by_symbol_name
ImportSlots(img, name) ==
    LET sym == ImportSymbol(img, name)
        of == {r \in Range(GotRelocs(img)) : r.sym = sym}
    IN  IF sym = Null THEN <<>> ELSE Slots(img, Picked(GotRelocs(img), of))

\* bh_elf_find_import_func_address_by_callee_address: entries that hold a
\* function, got being what the linker wrote.
CalleeSlots(img, got, callee) ==
    Slots(img, Picked(GotRelocs(img), {r \in Range(GotRelocs(img)) : got[img.bias + r.at] = callee}))

=============================================================================
