----------------------------- MODULE ElfImages -----------------------------
(***************************************************************************)
(* ELFs as a static linker makes them, the input of ElfReader, and what its  *)
(* answers are measured against.  The linker is not part of the repository:  *)
(* this is what the formats promise.                                         *)
(*                                                                           *)
(* A library is a record: img, what ElfReader reads; packed, the relocations *)
(* that img.aps2 stands for; groups, where in it each group begins, its      *)
(* flags, its first relocation and how many it has; and place, the place of  *)
(* each symbol in the chain of its bucket of the SYSV table.                 *)
(***************************************************************************)
EXTENDS HookManager, ElfReader

CONSTANT Libraries

(***************************************************************************)
(* Symbols and hash tables                                                   *)
(***************************************************************************)
Names == DOMAIN GnuHash

\* The last symbol.
LastSymbol(img) == Cardinality(Symbols(img)) - 1

Symbol == [name : Names, type : FuncTypes \cup {"object"}, undef : BOOLEAN]

\* Symbol 0 has no name; no two others have the same.
HasSymbols(img) ==
    /\ Symbols(img) = 0 .. LastSymbol(img) /\ LastSymbol(img) \in Nat
    /\ img.syms[0].name \notin Names
    /\ \A i \in 1 .. LastSymbol(img) : img.syms[i] \in Symbol /\ (img.syms[i].undef => img.syms[i].type # "ifunc")
    /\ \A i, j \in 1 .. LastSymbol(img) : img.syms[i].name = img.syms[j].name => i = j

SysvBucket(img, i) == SysvHash[img.syms[i].name] % Len(img.sysv.buckets)

\* A bucket has its first symbol, and each symbol the next one of its bucket.
IsSysv(img, place) ==
    /\ img.sysv.buckets \in Seq(0 .. LastSymbol(img))
    /\ img.sysv.chains \in [1 .. LastSymbol(img) -> 0 .. LastSymbol(img)]
    /\ place \in [1 .. LastSymbol(img) -> 0 .. LastSymbol(img) - 1]
    /\ \A i \in 1 .. LastSymbol(img) :
        /\ place[i] = 0 => img.sysv.buckets[SysvBucket(img, i) + 1] = i
        /\ place[i] # 0 => \E j \in 1 .. LastSymbol(img) :
                /\ SysvBucket(img, j) = SysvBucket(img, i)
                /\ place[j] = place[i] - 1 /\ img.sysv.chains[j] = i
        /\ img.sysv.chains[i] # 0 => place[img.sysv.chains[i]] = place[i] + 1

GnuBucket(img, i) == GnuHash[img.syms[i].name] % Len(img.gnu.buckets)

\* The defined symbols are at the end, those of a bucket side by side, the last
\* one marked; the filter has two bits of each.
IsGnu(img) ==
    /\ img.gnu.symoffset \in 1 .. LastSymbol(img) + 1
    /\ \A i \in 1 .. LastSymbol(img) : img.syms[i].undef <=> i < img.gnu.symoffset
    /\ img.gnu.buckets \in Seq({0} \cup img.gnu.symoffset .. LastSymbol(img))
    /\ img.gnu.chains \in [img.gnu.symoffset .. LastSymbol(img) -> [hash : Nat, last : BOOLEAN]]
    /\ img.gnu.shift \in Nat /\ Len(img.gnu.bloom) \in Nat \ {0}
    /\ \A i \in img.gnu.symoffset .. LastSymbol(img) :
        LET hash == GnuHash[img.syms[i].name]
            first == img.gnu.buckets[GnuBucket(img, i) + 1]
        IN  /\ first \in img.gnu.symoffset .. i
            /\ \A j \in first .. i : GnuBucket(img, j) = GnuBucket(img, i)
            /\ img.gnu.chains[i].hash = hash \div 2
            /\ img.gnu.chains[i].last <=> i = LastSymbol(img) \/ GnuBucket(img, i + 1) # GnuBucket(img, i)
            /\ {hash % 64, (hash \div 2 ^ img.gnu.shift) % 64}
                   \subseteq img.gnu.bloom[((hash \div 64) % Len(img.gnu.bloom)) + 1]

\* One of the tables is there, or both.
HasTables(img, place) ==
    /\ HasSysv(img) \/ HasGnu(img)
    /\ HasSysv(img) => IsSysv(img, place)
    /\ IF HasGnu(img) THEN IsGnu(img) ELSE img.gnu.symoffset = 0

(***************************************************************************)
(* Relocations                                                               *)
(***************************************************************************)
GotTypes == {"jump_slot", "glob_dat", "abs"}

Reloc(img) == [at : Int, sym : Symbols(img), type : GotTypes \cup {"other"}]

Relocs(lib) == lib.img.plt \o lib.img.dyn \o lib.packed

\* Jump slots are relocations of the PLT, and no place has two relocations.
HasRelocs(lib) ==
    /\ {lib.img.plt, lib.img.dyn, lib.packed} \subseteq Seq(Reloc(lib.img))
    /\ \A n \in DOMAIN lib.img.plt : lib.img.plt[n].type \in {"jump_slot", "other"}
    /\ \A n \in DOMAIN lib.img.dyn : lib.img.dyn[n].type # "jump_slot"
    /\ \A n \in DOMAIN lib.packed : lib.packed[n].type # "jump_slot"
    /\ \A m, n \in DOMAIN Relocs(lib) : Relocs(lib)[m].at = Relocs(lib)[n].at => m = n

When(b, s) == IF b THEN s ELSE <<>>

\* What the stream has of the n-th relocation: the distance from the one before,
\* the first one from the offset that the stream begins with; symbol and type;
\* the addend, here 0.
Delta(lib, n) == lib.packed[n].at - (IF n = 1 THEN lib.img.aps2[2] ELSE lib.packed[n - 1].at)
Info(lib, n) == [sym |-> lib.packed[n].sym, type |-> lib.packed[n].type]

Header(lib, group) ==
    <<group.size, group.flags>>
    \o When("offset_delta" \in group.flags, <<Delta(lib, group.first)>>)
    \o When("info" \in group.flags, <<Info(lib, group.first)>>)
    \o When({"addend", "has_addend"} \subseteq group.flags, <<0>>)

OwnPart(lib, group, n) ==
    When("offset_delta" \notin group.flags, <<Delta(lib, n)>>)
    \o When("info" \notin group.flags, <<Info(lib, n)>>)
    \o When("has_addend" \in group.flags /\ "addend" \notin group.flags, <<0>>)

\* Where the part of the n-th relocation begins; the group ends where that of a
\* further one would begin.
OwnAt(lib, group, n) ==
    group.at + Len(Header(lib, group)) + (n - group.first) * Len(OwnPart(lib, group, group.first))

StandsAt(s, p, part) == \A k \in DOMAIN part : s[p + k - 1] = part[k]

\* A group has relocations that agree in what its header has of them.
IsGroup(lib, group) ==
    /\ group.flags \subseteq Flags
    /\ group.at \in Nat /\ group.first \in Nat \ {0} /\ group.size \in Nat \ {0}
    /\ StandsAt(lib.img.aps2, group.at, Header(lib, group))
    /\ \A n \in group.first .. group.first + group.size - 1 :
        /\ "offset_delta" \in group.flags => Delta(lib, n) = Delta(lib, group.first)
        /\ "info" \in group.flags => Info(lib, n) = Info(lib, group.first)
        /\ StandsAt(lib.img.aps2, OwnAt(lib, group, n), OwnPart(lib, group, n))

\* The stream is the number of relocations, an offset, and one group behind the
\* other up to its end.
IsStream(lib) ==
    LET s == lib.img.aps2
        next(g) == lib.groups[g].first + lib.groups[g].size
        end(g) == OwnAt(lib, lib.groups[g], next(g))
        G == Len(lib.groups)
    IN  /\ Len(s) \in Nat /\ s[1] = Len(lib.packed) /\ s[2] \in Int
        /\ G \in Nat /\ \A g \in 1 .. G : IsGroup(lib, lib.groups[g])
        /\ IF G = 0 THEN Len(s) = 2 /\ lib.packed = <<>>
           ELSE /\ lib.groups[1].at = 3 /\ lib.groups[1].first = 1
                /\ end(G) = Len(s) + 1 /\ next(G) = Len(lib.packed) + 1
        /\ \A g \in 1 .. G - 1 : lib.groups[g + 1].at = end(g) /\ lib.groups[g + 1].first = next(g)

IsPacked(lib) == IF lib.img.aps2 = <<>> THEN lib.packed = <<>> ELSE IsStream(lib)

IsLibrary(lib) ==
    /\ lib.img.bias \in Int
    /\ HasSymbols(lib.img)
    /\ HasTables(lib.img, lib.place)
    /\ HasRelocs(lib)
    /\ IsPacked(lib)

ASSUME LibrariesAssumption == \A lib \in Libraries : IsLibrary(lib)

(***************************************************************************)
(* What is to be found                                                       *)
(***************************************************************************)
\* The places that the linker fills in for a name.
PlacesOf(lib, name) ==
    {lib.img.bias + r.at : r \in {q \in Range(Relocs(lib)) : q.type \in GotTypes /\ lib.img.syms[q.sym].name = name}}

\* A function of the ELF itself whose only table is the SYSV one is looked for
\* in the relocations that are not packed only.
Unseen(img, name) ==
    /\ ~HasGnu(img)
    /\ \E i \in 1 .. LastSymbol(img) : img.syms[i].name = name /\ ~img.syms[i].undef
    /\ \A r \in Range(img.plt) \cup Range(img.dyn) : img.syms[r.sym].name # name

\* All the places, each of them once, or as many as there is room for.
AreAll(found, places) ==
    /\ Range(found) \subseteq places
    /\ IsInjective(found)
    /\ Len(found) = IF Cardinality(places) <= GotMax THEN Cardinality(places) ELSE GotMax

\* A function the ELF exports is found, and no other one.
ExportFound(img, name) ==
    LET sym == ExportSymbol(img, name)
    IN  IF \E i \in 1 .. LastSymbol(img) : img.syms[i].name = name /\ ~img.syms[i].undef
        THEN sym # Null /\ img.syms[sym].name = name
        ELSE sym = Null

\* Nothing but functions has that name.
IsFuncName(img, name) == \A i \in 1 .. LastSymbol(img) : img.syms[i].name = name => img.syms[i].type \in FuncTypes

AllFound(lib, name) ==
    LET all == {lib.img.bias + r.at : r \in Range(Relocs(lib))}
        holds == [at \in all |-> at \in PlacesOf(lib, name)]
    IN  /\ Unseen(lib.img, name) \/ AreAll(ImportSlots(lib.img, name), PlacesOf(lib, name))
        /\ AreAll(CalleeSlots(lib.img, holds, TRUE), PlacesOf(lib, name))
        /\ ExportFound(lib.img, name)

\* In every library, the reader finds each place that refers to a function,
\* once, by its name and by its address, and the functions that the library
\* exports (bh_elf.cpp).  (This says nothing of the state: it is evaluated at
\* the start.)
EveryPlaceFound ==
    Init => \A lib \in Libraries, name \in Names : IsFuncName(lib.img, name) => AllFound(lib, name)

=============================================================================
