---------------------------- MODULE InlineHook ----------------------------
(***************************************************************************)
(* Inline hooking on arm64 (arch/arm64/sh_inst.cpp), with the places of the  *)
(* jumps out of a function (sh_exit.cpp) and the moved instructions          *)
(* (sh_enter.cpp, A64Rewrite).                                               *)
(*                                                                           *)
(* A hooked function begins with a branch to an exit, four words within      *)
(* reach that jump to the trampoline of its hub, or with these four words    *)
(* themselves.  Exits stand in pages of ShTrampo (here: its promise) or in   *)
(* gaps between the segments of the function's library.  Addresses count     *)
(* words of four bytes; every operation runs under the caller's lock, and    *)
(* SharedHook says when.                                                     *)
(***************************************************************************)
EXTENDS A64Rewrite, Functions

CONSTANTS
    Insts,       \* the sh_inst_t objects: one for each hub
    TargetOf,    \* of which function
    SizeOf,      \* address of a function -> its size (dli_ssize)
    CodeAt,      \* address -> the instruction the library has there
    SegmentsOf,  \* address of a function -> the segments of its library
    Kernel,      \* functions of libraries the kernel loaded
    PageSize,    \* words of a page
    Library,     \* address -> the word there before anything is hooked
    NearSlots,   \* places in reach of some function where ShTrampo finds pages
    BranchBits,  \* width of the distance in a B instruction, in words
    GapMayFail   \* whether mprotect may refuse a gap

ExitLen == 4     \* words of an absolute jump, and of an exit
ExitAlign == 4   \* SH_UTIL_ALIGN_END(.., 0x10)
FlagLen == 2     \* words of SH_EXIT_CLEAR_FLAG

\* B: [-128M, +128M - 4]
RangeLow == 2 ^ (BranchBits - 1)
RangeHigh == RangeLow - 1

VARIABLES
    text,     \* address -> the word there: functions, gaps, places for exits
    slots,    \* exits held from ShTrampo
    insts,    \* the state of the sh_inst_t objects
    enters,   \* objects that hold an enter
    stuck     \* alloc_in_library returned with sh_exit_lock held

inlineVars == <<text, slots, insts, enters, stuck>>

Unused == [len |-> 0, exit |-> 0, inLibrary |-> FALSE, backup |-> <<>>]

Zero == Word("zero", 0)
Flag == Word("flag", 0)
Original(a) == Word("code", a)

\* sh_a64_absolute_jump_with_br
AbsoluteJump(to) == <<LoadX17(2), Word("br_x17", 0), Word("low", to), Word("high", to)>>

\* sh_a64_relative_jump keeps the low bits of the distance.
RelativeJump(to, pc) == <<Word("b", (to - pc) % 2 ^ BranchBits)>>

Words(m, a, n) == [i \in 1 .. n |-> m[a + i - 1]]
Written(m, a, s) == [x \in DOMAIN m |-> IF x \in a .. a + Len(s) - 1 THEN s[x - a + 1] ELSE m[x]]
Zeros == [i \in 1 .. ExitLen |-> Zero]

(***************************************************************************)
(* sh_exit_get_gaps                                                          *)
(***************************************************************************)
Up(a, n) == ((a + n - 1) \div n) * n
Down(a, n) == (a \div n) * n

EndOf(seg) == seg.vaddr + seg.memsz
FileEndOf(seg) == seg.vaddr + seg.filesz

GapStart(seg) == Up(EndOf(seg), ExitAlign)

NextStart(segs, i, kernel) ==
    IF kernel \/ i = Len(segs) THEN Up(EndOf(segs[i]), PageSize)
    ELSE Down(segs[i + 1].vaddr, PageSize)

\* The gap behind a segment: the rest of its last page and the hole up to the
\* next one; of data only what the file does not reach, or the hole.
Gap(segs, i, kernel) ==
    LET s == segs[i]
        pageEnd == Up(EndOf(s), PageSize)
        next == NextStart(segs, i, kernel)
    IN  IF s.exec THEN {[start |-> GapStart(s), end |-> next, clear |-> TRUE]}
        ELSE IF pageEnd > Up(FileEndOf(s), PageSize) THEN {[start |-> GapStart(s), end |-> next, clear |-> FALSE]}
        ELSE IF next > pageEnd THEN {[start |-> pageEnd, end |-> next, clear |-> TRUE]}
        ELSE {}

Worthwhile(gap) == gap.end > gap.start + (IF gap.clear THEN ExitAlign ELSE 0)

\* For each segment the gap behind it, if there is one worth while.
Gaps(segs, kernel) == [i \in DOMAIN segs |-> {g \in Gap(segs, i, kernel) : Worthwhile(g)}]

Functions == DOMAIN SizeOf
LibraryGaps == [pc \in Functions |-> Gaps(SegmentsOf[pc], pc \in Kernel)]

(***************************************************************************)
(* What is taken for granted of the constants.                               *)
(***************************************************************************)
Segment == [vaddr : Nat, memsz : Nat, filesz : Nat, exec : BOOLEAN]

ASSUME InlineAssumption ==
    /\ RangeLow \in Nat \ {0} /\ 2 ^ BranchBits = 2 * RangeLow
    /\ PageSize \in Nat \ {0}
    /\ DOMAIN Library \subseteq Nat \ {0} /\ Functions \subseteq Nat /\ NearSlots \subseteq Nat
    /\ SizeOf \in [Functions -> Nat]
    /\ TargetOf \in [Insts -> Functions]
    /\ SegmentsOf \in [Functions -> Seq(Segment)]

FirstPage(seg) == Down(seg.vaddr, PageSize)
PagesEnd(seg) == Up(EndOf(seg), PageSize)

\* From the first page of a library to the end of its last one.
Span(pc) ==
    LET segs == SegmentsOf[pc] IN FirstPage(segs[1]) .. PagesEnd(segs[Len(segs)]) - 1

\* The linker gives a segment pages of its own, one after the other, and a
\* library a range of its own.
ASSUME LinkerAssumption ==
    /\ \A pc \in Functions : \A i, j \in DOMAIN SegmentsOf[pc] :
        i < j => PagesEnd(SegmentsOf[pc][i]) <= FirstPage(SegmentsOf[pc][j])
    /\ \A p, q \in Functions :
        \/ SegmentsOf[p] = SegmentsOf[q] /\ (p \in Kernel <=> q \in Kernel)
        \/ Span(p) \cap Span(q) = {}
    /\ \A pc \in Functions : \A g \in UNION Range(LibraryGaps[pc]) :
        g.start .. g.end - 1 \subseteq DOMAIN Library

\* Functions lie in segments and do not overlap, one object hooks each, and no
\* word is taken for half of an address.
ASSUME FunctionAssumption ==
    /\ \A pc \in Functions : \E seg \in Range(SegmentsOf[pc]) :
        seg.vaddr <= pc /\ pc + SizeOf[pc] <= EndOf(seg)
    /\ \A pc \in Functions : \A a \in pc .. pc + SizeOf[pc] - 1 :
        a \in DOMAIN Library /\ Library[a] = Original(a)
    /\ \A p, q \in Functions : p < q => p + SizeOf[p] <= q
    /\ \A x, y \in Insts : TargetOf[x] = TargetOf[y] => x = y
    /\ \A a \in DOMAIN Library : Library[a].op # "low"

\* Slots of ShTrampo lie in pages of their own and do not overlap.
ASSUME SlotAssumption ==
    /\ \A a \in NearSlots : a .. a + ExitLen - 1 \subseteq DOMAIN Library
    /\ \A a \in NearSlots, pc \in Functions : a .. a + ExitLen - 1 \cap Span(pc) = {}
    /\ \A a, b \in NearSlots : a < b => a + ExitLen <= b

(***************************************************************************)
(* sh_exit_alloc                                                             *)
(***************************************************************************)
MaxOf(a, b) == IF a >= b THEN a ELSE b
MinOf(a, b) == IF a <= b THEN a ELSE b

LastPlace(gap, pc) == Down(MinOf(gap.end - ExitLen, pc + RangeHigh), ExitLen)

FirstPlace(gap, pc) ==
    Up(IF pc >= RangeLow THEN MaxOf(gap.start, pc - RangeLow) ELSE gap.start, ExitLen)

\* sh_exit_try_alloc_in_library: the places of a gap that are in reach and zero.
Room(m, gap, pc) ==
    {a \in FirstPlace(gap, pc) .. LastPlace(gap, pc) : a % ExitLen = 0 /\ Words(m, a, ExitLen) = Zeros}

\* Mutant: a gap is cleared whenever it is looked at.
UnclearedAlways(m, gap) == gap.clear

\* sh_exit_fill_zero clears a gap once and leaves a flag in it.
Uncleared(m, gap) == gap.clear /\ m[gap.start] # Flag

ClearedFirst(m, gaps, n) ==
    LET done == {g \in UNION {gaps[i] : i \in 1 .. n} : Uncleared(m, g)}
    IN  [a \in DOMAIN m |->
            IF \E g \in done : g.start <= a /\ a < g.start + FlagLen THEN Flag
            ELSE IF \E g \in done : g.start <= a /\ a < g.end THEN Zero
            ELSE m[a]]

\* What an allocation leaves: the exit, 0 if there is none, and the memory.
Found(at, inLibrary, m, lost) == [exit |-> at, inLibrary |-> inLibrary, text |-> m, lost |-> lost]

\* sh_trampo_alloc finds a slot in reach that nobody holds, or none.
Near(pc) == {a \in NearSlots \ slots : pc - RangeLow <= a /\ a <= pc + RangeHigh}
Lowest(S) == {a \in S : \A b \in S : a <= b}

AllocOutLibrary(pc, jump) ==
    {Found(a, FALSE, Written(text, a, jump), FALSE) : a \in Lowest(Near(pc))}

\* The gaps one after the other, each cleared before it is searched.  When one
\* cannot be made writable to be cleared the function returns with the lock;
\* when the place found in it cannot be, the next gap is tried.
AllocInLibrary(pc, jump) ==
    LET gaps == LibraryGaps[pc]
        after(n) == ClearedFirst(text, gaps, n)
        room(n) == UNION {Room(after(n), g, pc) : g \in gaps[n]}
        placed(n) == {Found(a, TRUE, Written(after(n), a, jump), FALSE) : a \in Lowest(room(n))}
        good == {n \in DOMAIN gaps : room(n) # {}}
        refused == {n \in DOMAIN gaps : GapMayFail /\ \E g \in gaps[n] : g.clear}
        reached(n) == GapMayFail \/ \A k \in good : n <= k
    IN  (UNION {placed(n) : n \in {k \in good : reached(k)}})
        \cup (IF reached(Len(gaps) + 1) THEN {Found(0, TRUE, after(Len(gaps)), FALSE)} ELSE {})
        \cup {Found(0, TRUE, after(n - 1), TRUE) : n \in {k \in refused : reached(k)}}

\* Memory of ShTrampo first, which may find no page; success is returned
\* whatever the two say.
ExitAlloc(pc, jump) ==
    AllocOutLibrary(pc, jump) \cup (IF stuck THEN {} ELSE AllocInLibrary(pc, jump))

\* sh_exit_free of an exit that is intact and can be written, as it was before.
ExitFreed(m, e) == IF e.inLibrary THEN Written(m, e.exit, Zeros) ELSE m

(***************************************************************************)
(* sh_inst_hook                                                              *)
(***************************************************************************)
\* sh_inst_hook_rewrite works on a part of n words; 1000 stands for the enter.
MovedPart(pc, n) ==
    [start |-> pc, insts |-> [i \in 1 .. n |-> CodeAt[pc + i - 1]], buf |-> 1000]

\* The function is long enough and its instructions can be moved.
Fits(pc, n) == SizeOf[pc] >= n /\ Rewritable(MovedPart(pc, n))

\* Mutant: only the first word is kept, as for a hook with an exit.
HookOverShort(x, n, e) ==
    [len |-> n, exit |-> e.exit, inLibrary |-> e.inLibrary, backup |-> Words(text, TargetOf[x], 1)]

\* What the object remembers of a hook over n words.
HookOver(x, n, e) ==
    [len |-> n, exit |-> e.exit, inLibrary |-> e.inLibrary, backup |-> Words(text, TargetOf[x], n)]

\* sh_inst_hook_with_exit: the branch is written whether an exit was found or
\* not.
HookWithExit(x) ==
    LET pc == TargetOf[x] IN
    /\ Fits(pc, 1)
    /\ \E e \in ExitAlloc(pc, AbsoluteJump(x)) :
        /\ text' = Written(e.text, pc, RelativeJump(e.exit, pc))
        /\ slots' = IF e.inLibrary THEN slots ELSE slots \cup {e.exit}
        /\ stuck' = (stuck \/ e.lost)
        /\ insts' = [insts EXCEPT ![x] = HookOver(x, 1, e)]
    /\ enters' = enters \cup {x}

\* It fails when the function cannot be moved, written or read, and frees the
\* exit.  With no exit nothing is left after that: the comparison at address 0
\* traps, which sh_sig.h catches nowhere, or waits for the lock that was kept.
AfterFailure(x) ==
    {ExitFreed(e.text, e) : e \in {f \in ExitAlloc(TargetOf[x], AbsoluteJump(x)) : f.exit # 0}}

\* sh_inst_hook_without_exit, the second try.
HookWithoutExit(x) ==
    LET pc == TargetOf[x] IN
    /\ Fits(pc, ExitLen)
    /\ \E m \in AfterFailure(x) : text' = Written(m, pc, AbsoluteJump(x))
    /\ insts' = [insts EXCEPT ![x] = HookOver(x, ExitLen, Found(0, FALSE, text, FALSE))]
    /\ enters' = enters \cup {x}
    /\ UNCHANGED <<slots, stuck>>

\* Mutant: the exit of the failed way is kept.
HookFailsLeaks(x) ==
    /\ \E e \in ExitAlloc(TargetOf[x], AbsoluteJump(x)) : ~e.lost /\ text' = e.text
    /\ UNCHANGED <<slots, insts, enters, stuck>>

\* There was no enter, or neither way worked.
HookFails(x) ==
    /\ text' \in {text} \cup AfterFailure(x)
    /\ UNCHANGED <<slots, insts, enters, stuck>>

(***************************************************************************)
(* sh_inst_unhook                                                            *)
(***************************************************************************)
InUse(x) == insts[x].len > 0

Trampo(x) ==
    IF insts[x].len = 1 THEN RelativeJump(insts[x].exit, TargetOf[x]) ELSE AbsoluteJump(x)

Restored(x) == Written(text, TargetOf[x], insts[x].backup)

\* The branch must still be there; an exit in the library that was changed
\* stays, and the enter with it.  An exit that is intact can be given back: its
\* words were made writable when it was written (sh_exit.cpp:333, 401).
Unhook(x) ==
    LET i == insts[x]
        inGap == i.inLibrary /\ i.exit # 0
        intact == Words(text, i.exit, ExitLen) = AbsoluteJump(x)
    IN  /\ InUse(x)
        /\ Words(text, TargetOf[x], i.len) = Trampo(x)
        /\ inGap => ~stuck
        /\ text' = IF inGap /\ intact THEN Written(Restored(x), i.exit, Zeros) ELSE Restored(x)
        /\ enters' = IF inGap /\ ~intact THEN enters ELSE enters \ {x}
        /\ slots' = IF i.inLibrary THEN slots ELSE slots \ {i.exit}
        /\ insts' = [insts EXCEPT ![x] = Unused]
        /\ UNCHANGED stuck

InlineInit ==
    /\ text = Library
    /\ slots = {}
    /\ insts = [x \in Insts |-> Unused]
    /\ enters = {}
    /\ stuck = FALSE

(***************************************************************************)
(* Properties                                                                *)
(***************************************************************************)
Addrs == DOMAIN Library

\* Where the words at an address send the thread: B sign-extends its distance.
Distance(w) == IF w.arg <= RangeHigh THEN w.arg ELSE w.arg - 2 ^ BranchBits
JumpsTo(a, x) == a .. a + ExitLen - 1 \subseteq Addrs /\ Words(text, a, ExitLen) = AbsoluteJump(x)
LeadsTo(a, x) == JumpsTo(a, x) \/ (text[a].op = "b" /\ JumpsTo(a + Distance(text[a]), x))

\* The variables have their types.
InlineTypeOK ==
    /\ DOMAIN text = Addrs
    /\ slots \subseteq NearSlots
    /\ DOMAIN insts = Insts
    /\ \A x \in Insts :
        /\ insts[x].len \in {0, 1, ExitLen}
        /\ insts[x].exit \in {0} \cup Addrs
        /\ insts[x].inLibrary \in BOOLEAN
        /\ Len(insts[x].backup) = insts[x].len
    /\ enters \subseteq Insts
    /\ stuck \in BOOLEAN

\* A hooked function leads to the trampoline of its hub, by a branch within
\* reach whose exit is intact, whatever was hooked and unhooked around it; but
\* not where sh_exit_alloc found no exit and said nothing.
ReachesHub ==
    \A x \in Insts : InUse(x) /\ (insts[x].len = 1 => insts[x].exit # 0) => LeadsTo(TargetOf[x], x)

\* The original function works through its enter: what was moved there is the
\* code of the library, not the branch of a hook, and the rest of the function
\* stands where the enter jumps back to.
OrigWorks ==
    \A x \in Insts : InUse(x) =>
        LET pc == TargetOf[x]
            n == insts[x].len
        IN  /\ insts[x].backup = [i \in 1 .. n |-> Original(pc + i - 1)]
            /\ \A a \in pc + n .. pc + SizeOf[pc] - 1 : text[a] = Library[a]
            /\ x \in enters

LibraryWords ==
    {a \in Addrs : \E pc \in Functions : \E g \in Range(SegmentsOf[pc]) : g.vaddr <= a /\ a < EndOf(g)}
OwnWords == {a \in Addrs : \A b \in NearSlots : a \notin b .. b + ExitLen - 1}
Replaced(x) == {a \in 0 .. SizeOf[TargetOf[x]] - 1 : a < insts[x].len}

\* A hook changes the words it replaces, in its own function, the gaps and its
\* exit, and nothing else of the library; of one that failed or was undone no
\* exit and no enter remains.
LibraryKept ==
    /\ \A a \in LibraryWords :
        text[a] = Library[a] \/ \E x \in Insts : a - TargetOf[x] \in Replaced(x)
    /\ \A a \in OwnWords : text[a].op = "low" => InUse(text[a].arg)
    /\ slots = {insts[x].exit : x \in {y \in Insts : insts[y].len = 1 /\ ~insts[y].inLibrary}}
    /\ enters = {x \in Insts : InUse(x)}

=============================================================================
