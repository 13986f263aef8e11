-------------------------- MODULE SharedHookProofs --------------------------
(***************************************************************************)
(* Hooking in the shared mode (SharedHook) uses the hubs as ShHub says: every*)
(* step of the composition is one of the hubs or leaves them alone, so that  *)
(* what is proved of the hubs holds of the composition.                      *)
(***************************************************************************)
EXTENDS SharedHook, ShHubProofs

\* Every step maps to a step of the hubs, the places of exits and the words of
\* the functions forgotten.
LEMMA SharedStep ==
    ASSUME SharedNext
    PROVE  [Next]_vars
<1>1. CASE \E h \in Hubs : SharedHooked(h) \/ SharedHookFails(h) \/ SharedUnhook(h)
  BY <1>1 DEF SharedHooked, SharedHookFails, SharedUnhook, Next
<1>2. CASE \E t \in Threads, h \in Hubs : SharedCall(t, h)
  BY <1>2 DEF SharedCall, Next
<1>3. CASE HubStep
  BY <1>3 DEF HubStep, Next
<1> QED BY <1>1, <1>2, <1>3 DEF SharedNext

\* The composition implements the hubs: a function is hooked and unhooked, and
\* its trampoline entered, only where sh_hub.cpp allows it.
THEOREM Composed == SharedSpec => Spec
<1>1. SharedInit => Init
  BY DEF SharedInit
<1>2. [SharedNext]_sharedVars => [Next]_vars
  BY SharedStep DEF sharedVars
<1> QED BY <1>1, <1>2, PTL DEF SharedSpec, Spec

\* No thread of a process that hooks in the shared mode is on its way to, on the
\* list of or in a frame of a hub that was freed after its delay (the code of the
\* trampoline is not meant: see Create).
THEOREM SharedNoStaleUse == SharedSpec => []NoUseAfterFree
BY Composed, NoStaleUse, PTL

\* The proxies that run are those whose callers have not unhooked them.
THEOREM SharedAgreement == SharedSpec => []CallersAgree
BY Composed, Agreement, PTL

\* The function a proxy goes on to stands after it in the list of its hub.
THEOREM SharedOrder == SharedSpec => []ChainOrder
BY Composed, Order, PTL

\* A thread has one frame for each hooked call it is in, of the caller it
\* returns to.
THEOREM SharedFrames == SharedSpec => []FramesMatchCalls
BY Composed, FramesOfCalls, PTL

\* A hooked call is entered again only below calls that allow it, or by a
\* trampoline that was written over that of another hub.
THEOREM SharedReentry == SharedSpec => []Reentry
BY Composed, ReentryAllowed, PTL

(***************************************************************************)
(* The inline hooks                                                          *)
(***************************************************************************)
\* An exit stands in a gap, on its own words.
InGap(a, g) == g.start <= a /\ a + ExitLen <= g.end /\ a % ExitLen = 0

GapsOf(pc) == UNION Range(LibraryGaps[pc])

Exiting(x) == insts[x].len = 1 /\ insts[x].exit # 0
GapExit(x) == Exiting(x) /\ insts[x].inLibrary
SlotExit(x) == insts[x].len = 1 /\ ~insts[x].inLibrary

InReach(a, pc) == pc - RangeLow <= a /\ a <= pc + RangeHigh

\* An exit in use stands in its function's reach, in a slot or in a gap of the
\* library that is not cleared again.
ExitRight(x) ==
    /\ InReach(insts[x].exit, TargetOf[x])
    /\ JumpsTo(insts[x].exit, x)
    /\ insts[x].inLibrary =>
        \E g \in GapsOf(TargetOf[x]) : InGap(insts[x].exit, g) /\ ~Uncleared(text, g)

HookRight(x) ==
    /\ insts[x].len \in {1, ExitLen} /\ insts[x].len <= SizeOf[TargetOf[x]]
    /\ insts[x].backup = Words(Library, TargetOf[x], insts[x].len)
    /\ Words(text, TargetOf[x], insts[x].len) = Trampo(x)
    /\ insts[x].len = ExitLen => insts[x].exit = 0 /\ ~insts[x].inLibrary
    /\ SlotExit(x) => insts[x].exit \in slots
    /\ Exiting(x) => ExitRight(x)

\* Where the address of a hub stands, outside the slots.
AddressAt(x) ==
    IF insts[x].len = ExitLen THEN {TargetOf[x] + 2}
    ELSE IF GapExit(x) THEN {insts[x].exit + 2} ELSE {}

\* What is in use is hooked right; no hook is in use before its hub is live.
HooksRight == \A x \in Insts : InUse(x) => phase[x] \notin {"new", "made"} /\ HookRight(x)

CodeKept == \A a \in LibraryWords : text[a] = Library[a] \/ \E x \in Insts : a - TargetOf[x] \in Replaced(x)

AddressesOwned ==
    \A a \in OwnWords : text[a].op = "low" =>
        \E x \in Insts : InUse(x) /\ text[a].arg = x /\ a \in AddressAt(x)

NothingLeft ==
    /\ slots = {insts[x].exit : x \in {y \in Insts : SlotExit(y)}}
    /\ enters = {x \in Insts : InUse(x)}

\* The inductive invariant: the named parts together.
HInv == InlineTypeOK /\ HooksRight /\ CodeKept /\ AddressesOwned /\ NothingLeft

(***************************************************************************)
(* Where things stand: functions, gaps and slots are apart                   *)
(***************************************************************************)
\* Up and Down round to a multiple, to the next one at most.
LEMMA Rounded ==
    ASSUME NEW a \in Int, NEW n \in Nat \ {0}
    PROVE  /\ Down(a, n) \in Int /\ Down(a, n) <= a /\ a < Down(a, n) + n
           /\ Up(a, n) \in Int /\ a <= Up(a, n) /\ Up(a, n) < a + n
<1>1. ASSUME NEW b \in Int
      PROVE  /\ b \div n \in Int /\ b % n \in 0 .. n - 1
             /\ b = n * (b \div n) + (b % n)
  OBVIOUS
<1>2. ASSUME NEW b \in Int
      PROVE  (b \div n) * n \in Int /\ (b \div n) * n <= b /\ b < (b \div n) * n + n
  <2>1. (b \div n) * n = n * (b \div n)
    BY <1>1
  <2> QED BY <1>1, <2>1
<1>3. Down(a, n) \in Int /\ Down(a, n) <= a /\ a < Down(a, n) + n
  BY <1>2 DEF Down
<1>4. a + n - 1 \in Int
  OBVIOUS
<1>5. Up(a, n) \in Int /\ Up(a, n) <= a + n - 1 /\ a + n - 1 < Up(a, n) + n
  BY <1>2, <1>4 DEF Up
<1> QED BY <1>3, <1>5

\* The segments of a library, and the pages they lie in.
LEMMA Segs ==
    ASSUME NEW pc \in Functions
    PROVE  /\ SegmentsOf[pc] \in Seq(Segment)
           /\ DOMAIN SegmentsOf[pc] = 1 .. Len(SegmentsOf[pc]) /\ Len(SegmentsOf[pc]) \in Nat
           /\ \A i \in DOMAIN SegmentsOf[pc] :
                /\ SegmentsOf[pc][i] \in Segment
                /\ SegmentsOf[pc][i].vaddr \in Nat /\ EndOf(SegmentsOf[pc][i]) \in Nat
                /\ SegmentsOf[pc][i].vaddr <= EndOf(SegmentsOf[pc][i])
                /\ FirstPage(SegmentsOf[pc][i]) \in Int /\ PagesEnd(SegmentsOf[pc][i]) \in Int
                /\ FirstPage(SegmentsOf[pc][i]) <= SegmentsOf[pc][i].vaddr
                /\ EndOf(SegmentsOf[pc][i]) <= PagesEnd(SegmentsOf[pc][i])
<1>1. SegmentsOf[pc] \in Seq(Segment)
  BY InlineAssumption
<1>2. DOMAIN SegmentsOf[pc] = 1 .. Len(SegmentsOf[pc]) /\ Len(SegmentsOf[pc]) \in Nat
  BY <1>1
<1>3. ASSUME NEW i \in DOMAIN SegmentsOf[pc]
      PROVE  /\ SegmentsOf[pc][i] \in Segment
             /\ SegmentsOf[pc][i].vaddr \in Nat /\ EndOf(SegmentsOf[pc][i]) \in Nat
             /\ SegmentsOf[pc][i].vaddr <= EndOf(SegmentsOf[pc][i])
  <2>1. SegmentsOf[pc][i] \in Segment
    BY <1>1, <1>2
  <2> QED BY <2>1 DEF Segment, EndOf
<1>4. ASSUME NEW i \in DOMAIN SegmentsOf[pc]
      PROVE  /\ FirstPage(SegmentsOf[pc][i]) \in Int /\ PagesEnd(SegmentsOf[pc][i]) \in Int
             /\ FirstPage(SegmentsOf[pc][i]) <= SegmentsOf[pc][i].vaddr
             /\ EndOf(SegmentsOf[pc][i]) <= PagesEnd(SegmentsOf[pc][i])
  <2>1. /\ PageSize \in Nat \ {0}
        /\ SegmentsOf[pc][i].vaddr \in Int /\ EndOf(SegmentsOf[pc][i]) \in Int
    BY <1>3, InlineAssumption
  <2>2. /\ Down(SegmentsOf[pc][i].vaddr, PageSize) \in Int
        /\ Down(SegmentsOf[pc][i].vaddr, PageSize) <= SegmentsOf[pc][i].vaddr
    BY <2>1, Rounded
  <2>3. /\ Up(EndOf(SegmentsOf[pc][i]), PageSize) \in Int
        /\ EndOf(SegmentsOf[pc][i]) <= Up(EndOf(SegmentsOf[pc][i]), PageSize)
    BY <2>1, Rounded
  <2> QED BY <2>2, <2>3 DEF FirstPage, PagesEnd
<1> QED BY <1>1, <1>2, <1>3, <1>4

\* A gap begins behind its segment and ends with its pages, or before the next
\* segment.
LEMMA GapPlace ==
    ASSUME NEW pc \in Functions, NEW i \in DOMAIN SegmentsOf[pc], NEW g \in LibraryGaps[pc][i]
    PROVE  /\ g.start \in Int /\ g.end \in Int /\ g.clear \in BOOLEAN
           /\ EndOf(SegmentsOf[pc][i]) <= g.start
           /\ g.start < g.end
           /\ g.clear => g.start + ExitAlign < g.end
           /\ \/ g.end <= PagesEnd(SegmentsOf[pc][i])
              \/ i + 1 \in DOMAIN SegmentsOf[pc] /\ g.end <= FirstPage(SegmentsOf[pc][i + 1])
           /\ \A h \in LibraryGaps[pc][i] : h = g
<1> DEFINE segs == SegmentsOf[pc]
           s == segs[i]
           kernel == pc \in Kernel
<1>1. LibraryGaps[pc][i] = {h \in Gap(segs, i, kernel) : Worthwhile(h)}
  BY DEF LibraryGaps, Gaps
<1>2. /\ EndOf(s) \in Int /\ PagesEnd(s) \in Int /\ EndOf(s) <= PagesEnd(s)
      /\ i \in 1 .. Len(segs) /\ Len(segs) \in Nat /\ DOMAIN segs = 1 .. Len(segs)
  BY Segs
<1>3. GapStart(s) \in Int /\ EndOf(s) <= GapStart(s)
  <2>1. ExitAlign \in Nat \ {0}
    BY DEF ExitAlign
  <2> QED BY <1>2, <2>1, Rounded DEF GapStart
<1>4. /\ NextStart(segs, i, kernel) \in Int
      /\ \/ NextStart(segs, i, kernel) = PagesEnd(s)
         \/ i + 1 \in DOMAIN segs /\ NextStart(segs, i, kernel) = FirstPage(segs[i + 1])
  <2>1. CASE kernel \/ i = Len(segs)
    BY <1>2, <2>1 DEF NextStart, PagesEnd
  <2>2. CASE ~(kernel \/ i = Len(segs))
    <3>1. i + 1 \in DOMAIN segs
      BY <1>2, <2>2
    <3>2. NextStart(segs, i, kernel) = FirstPage(segs[i + 1])
      BY <2>2 DEF NextStart, FirstPage
    <3>3. FirstPage(segs[i + 1]) \in Int
      BY <3>1, Segs
    <3> QED BY <3>1, <3>2, <3>3
  <2> QED BY <2>1, <2>2
<1> HIDE DEF kernel
<1>5. ASSUME NEW h \in LibraryGaps[pc][i]
      PROVE  /\ h \in Gap(segs, i, kernel) /\ Worthwhile(h)
             /\ h.start \in {GapStart(s), PagesEnd(s)}
             /\ h.end = NextStart(segs, i, kernel)
             /\ h.clear \in BOOLEAN
             /\ Gap(segs, i, kernel) = {h}
  <2>1. h \in Gap(segs, i, kernel) /\ Worthwhile(h)
    BY <1>1
  <2>2. \E r \in BOOLEAN, a \in {GapStart(s), PagesEnd(s)} :
            Gap(segs, i, kernel) = {[start |-> a, end |-> NextStart(segs, i, kernel), clear |-> r]}
    BY <2>1 DEF Gap, PagesEnd
  <2> QED BY <2>1, <2>2
<1>6. g.start \in Int /\ g.end \in Int /\ EndOf(s) <= g.start /\ g.clear \in BOOLEAN
  BY <1>2, <1>3, <1>4, <1>5
<1>7. g.start < g.end /\ (g.clear => g.start + ExitAlign < g.end)
  <2>1. Worthwhile(g)
    BY <1>5
  <2> QED BY <1>6, <2>1 DEF Worthwhile, ExitAlign
<1>8. \/ g.end <= PagesEnd(s)
      \/ i + 1 \in DOMAIN segs /\ g.end <= FirstPage(segs[i + 1])
  BY <1>2, <1>4, <1>5, Segs
<1>9. \A h \in LibraryGaps[pc][i] : h = g
  <2>1. Gap(segs, i, kernel) = {g}
    BY <1>5
  <2> QED BY <1>5, <2>1
<1> QED BY <1>6, <1>7, <1>8, <1>9

\* A gap lies behind the segments up to its own and before the others.
LEMMA GapBetween ==
    ASSUME NEW pc \in Functions, NEW i \in DOMAIN SegmentsOf[pc], NEW g \in LibraryGaps[pc][i],
           NEW j \in DOMAIN SegmentsOf[pc]
    PROVE  /\ j <= i => EndOf(SegmentsOf[pc][j]) <= g.start
           /\ i < j => g.end <= FirstPage(SegmentsOf[pc][j])
<1> DEFINE segs == SegmentsOf[pc]
<1>1. i \in Int /\ j \in Int /\ DOMAIN segs = 1 .. Len(segs) /\ Len(segs) \in Nat
  BY Segs
<1>2. ASSUME NEW k \in DOMAIN segs
      PROVE  /\ segs[k].vaddr \in Int /\ EndOf(segs[k]) \in Int
             /\ FirstPage(segs[k]) \in Int /\ PagesEnd(segs[k]) \in Int
             /\ FirstPage(segs[k]) <= segs[k].vaddr /\ segs[k].vaddr <= EndOf(segs[k])
             /\ EndOf(segs[k]) <= PagesEnd(segs[k])
  BY Segs
<1>3. \A k, l \in DOMAIN segs : k < l => PagesEnd(segs[k]) <= FirstPage(segs[l])
  BY LinkerAssumption
<1>4. /\ g.start \in Int /\ g.end \in Int /\ EndOf(segs[i]) <= g.start
      /\ \/ g.end <= PagesEnd(segs[i])
         \/ i + 1 \in DOMAIN segs /\ g.end <= FirstPage(segs[i + 1])
  BY GapPlace
<1>5. /\ FirstPage(segs[i]) \in Int /\ EndOf(segs[i]) \in Int /\ FirstPage(segs[i]) <= EndOf(segs[i])
      /\ PagesEnd(segs[i]) \in Int
  <2>1. /\ segs[i].vaddr \in Int /\ EndOf(segs[i]) \in Int /\ FirstPage(segs[i]) \in Int
        /\ PagesEnd(segs[i]) \in Int
    BY <1>2
  <2>2. FirstPage(segs[i]) <= segs[i].vaddr /\ segs[i].vaddr <= EndOf(segs[i])
    BY <1>2
  <2> QED BY <2>1, <2>2
<1>6. EndOf(segs[j]) \in Int /\ PagesEnd(segs[j]) \in Int /\ EndOf(segs[j]) <= PagesEnd(segs[j])
      /\ FirstPage(segs[j]) \in Int
  BY <1>2
<1>7. CASE j = i
  BY <1>1, <1>4, <1>7
<1>8. CASE j < i
  <2>1. PagesEnd(segs[j]) <= FirstPage(segs[i])
    BY <1>3, <1>8
  <2>2. EndOf(segs[j]) <= g.start
    BY <1>4, <1>5, <1>6, <2>1
  <2> QED BY <1>1, <1>8, <2>2
<1>9. CASE i < j
  <2>1. PagesEnd(segs[i]) <= FirstPage(segs[j])
    BY <1>3, <1>9
  <2>2. CASE g.end <= PagesEnd(segs[i])
    <3>1. g.end <= FirstPage(segs[j])
      BY <1>4, <1>5, <1>6, <2>1, <2>2
    <3> QED BY <1>1, <1>9, <3>1
  <2>3. CASE i + 1 \in DOMAIN segs /\ g.end <= FirstPage(segs[i + 1])
    <3>1. CASE j = i + 1
      BY <1>1, <1>9, <2>3, <3>1
    <3>2. CASE i + 1 < j
      <4>1. PagesEnd(segs[i + 1]) <= FirstPage(segs[j])
        BY <1>3, <2>3, <3>2
      <4>2. /\ segs[i + 1].vaddr \in Int /\ EndOf(segs[i + 1]) \in Int
            /\ FirstPage(segs[i + 1]) \in Int /\ PagesEnd(segs[i + 1]) \in Int
        BY <1>2, <2>3
      <4>3. /\ FirstPage(segs[i + 1]) <= segs[i + 1].vaddr
            /\ segs[i + 1].vaddr <= EndOf(segs[i + 1])
            /\ EndOf(segs[i + 1]) <= PagesEnd(segs[i + 1])
        BY <1>2, <2>3
      <4>4. g.end <= FirstPage(segs[j])
        BY <1>4, <1>6, <2>3, <4>1, <4>2, <4>3
      <4> QED BY <1>1, <1>9, <4>4
    <3> QED BY <1>1, <1>9, <3>1, <3>2
  <2> QED BY <1>4, <2>2, <2>3
<1> QED BY <1>1, <1>7, <1>8, <1>9

\* The gaps of a library are those behind its segments.
LEMMA Gapped ==
    ASSUME NEW pc \in Functions
    PROVE  /\ DOMAIN LibraryGaps[pc] = DOMAIN SegmentsOf[pc]
           /\ \A g : g \in GapsOf(pc) <=> \E i \in DOMAIN SegmentsOf[pc] : g \in LibraryGaps[pc][i]
<1>1. DOMAIN LibraryGaps[pc] = DOMAIN SegmentsOf[pc]
  BY DEF LibraryGaps, Gaps
<1> QED BY <1>1 DEF GapsOf, Range

\* Every segment lies in the span of its library, and every gap.
LEMMA SpanCovers ==
    ASSUME NEW pc \in Functions, NEW i \in DOMAIN SegmentsOf[pc], NEW a \in Int
    PROVE  /\ FirstPage(SegmentsOf[pc][i]) <= a /\ a < PagesEnd(SegmentsOf[pc][i]) => a \in Span(pc)
           /\ \A g \in LibraryGaps[pc][i] : g.start <= a /\ a < g.end => a \in Span(pc)
<1> DEFINE segs == SegmentsOf[pc]
           n == Len(segs)
<1>1. i \in Int /\ DOMAIN segs = 1 .. n /\ n \in Nat /\ 1 \in DOMAIN segs /\ n \in DOMAIN segs
  BY Segs
<1>2. ASSUME NEW k \in DOMAIN segs
      PROVE  /\ FirstPage(segs[k]) \in Int /\ PagesEnd(segs[k]) \in Int
             /\ FirstPage(segs[k]) <= PagesEnd(segs[k])
             /\ FirstPage(segs[k]) <= EndOf(segs[k]) /\ EndOf(segs[k]) \in Int
  <2>1. /\ FirstPage(segs[k]) \in Int /\ PagesEnd(segs[k]) \in Int
        /\ segs[k].vaddr \in Int /\ EndOf(segs[k]) \in Int
    BY Segs
  <2>2. /\ FirstPage(segs[k]) <= segs[k].vaddr /\ segs[k].vaddr <= EndOf(segs[k])
        /\ EndOf(segs[k]) <= PagesEnd(segs[k])
    BY Segs
  <2> QED BY <2>1, <2>2
<1>3. \A k, l \in DOMAIN segs : k < l => PagesEnd(segs[k]) <= FirstPage(segs[l])
  BY LinkerAssumption
<1>4. ASSUME NEW k \in DOMAIN segs, NEW b \in Int,
             FirstPage(segs[k]) <= b, b < PagesEnd(segs[k])
      PROVE  b \in Span(pc)
  <2>1. k = 1 \/ 1 < k
    BY <1>1
  <2>2. FirstPage(segs[1]) <= b
    <3>1. CASE 1 < k
      <4>1. PagesEnd(segs[1]) <= FirstPage(segs[k])
        BY <1>1, <1>3, <3>1
      <4>2. /\ FirstPage(segs[1]) <= PagesEnd(segs[1]) /\ FirstPage(segs[1]) \in Int
            /\ PagesEnd(segs[1]) \in Int /\ FirstPage(segs[k]) \in Int
        BY <1>1, <1>2
      <4> QED BY <1>4, <4>1, <4>2
    <3> QED BY <1>4, <2>1, <3>1
  <2>3. b < PagesEnd(segs[n])
    <3>1. CASE k < n
      <4>1. PagesEnd(segs[k]) <= FirstPage(segs[n])
        BY <1>1, <1>3, <3>1
      <4>2. /\ FirstPage(segs[n]) <= PagesEnd(segs[n]) /\ FirstPage(segs[n]) \in Int
            /\ PagesEnd(segs[n]) \in Int /\ PagesEnd(segs[k]) \in Int
        BY <1>1, <1>2
      <4> QED BY <1>4, <4>1, <4>2
    <3>2. k = n \/ k < n
      BY <1>1
    <3> QED BY <1>4, <3>1, <3>2
  <2>4. FirstPage(segs[1]) \in Int /\ PagesEnd(segs[n]) \in Int
    BY <1>1, <1>2
  <2>5. b \in FirstPage(segs[1]) .. PagesEnd(segs[n]) - 1
    BY <2>2, <2>3, <2>4
  <2> QED BY <2>5 DEF Span
<1>5. ASSUME NEW g \in LibraryGaps[pc][i], g.start <= a, a < g.end
      PROVE  a \in Span(pc)
  <2>1. /\ g.start \in Int /\ g.end \in Int /\ EndOf(segs[i]) <= g.start
        /\ \/ g.end <= PagesEnd(segs[i])
           \/ i + 1 \in DOMAIN segs /\ g.end <= FirstPage(segs[i + 1])
    BY GapPlace
  <2>2. /\ FirstPage(segs[i]) \in Int /\ PagesEnd(segs[i]) \in Int /\ EndOf(segs[i]) \in Int
        /\ FirstPage(segs[i]) <= EndOf(segs[i])
    BY <1>2
  <2>3. FirstPage(segs[i]) <= a
    BY <1>5, <2>1, <2>2
  <2>4. CASE a < PagesEnd(segs[i])
    BY <1>4, <2>3, <2>4
  <2>5. CASE ~(a < PagesEnd(segs[i]))
    <3>1. i + 1 \in DOMAIN segs /\ g.end <= FirstPage(segs[i + 1])
      BY <1>5, <2>1, <2>2, <2>5
    <3>2. CASE a < FirstPage(segs[i + 1])
      <4>1. PagesEnd(segs[i]) <= a
        BY <2>2, <2>5
      <4>2. FirstPage(segs[1]) <= a
        <5>1. CASE i = 1
          BY <2>3, <5>1
        <5>2. CASE 1 < i
          <6>1. PagesEnd(segs[1]) <= FirstPage(segs[i])
            BY <1>1, <1>3, <5>2
          <6>2. /\ FirstPage(segs[1]) <= PagesEnd(segs[1]) /\ FirstPage(segs[1]) \in Int
                /\ PagesEnd(segs[1]) \in Int
            BY <1>1, <1>2
          <6> QED BY <2>2, <2>3, <6>1, <6>2
        <5> QED BY <1>1, <5>1, <5>2
      <4>3. a < PagesEnd(segs[n])
        <5>1. i + 1 = n \/ i + 1 < n
          BY <1>1, <3>1
        <5>2. CASE i + 1 < n
          <6>1. PagesEnd(segs[i + 1]) <= FirstPage(segs[n])
            BY <1>1, <1>3, <3>1, <5>2
          <6>2. /\ FirstPage(segs[n]) <= PagesEnd(segs[n]) /\ FirstPage(segs[n]) \in Int
                /\ PagesEnd(segs[n]) \in Int
            BY <1>1, <1>2
          <6>3. /\ FirstPage(segs[i + 1]) <= PagesEnd(segs[i + 1]) /\ FirstPage(segs[i + 1]) \in Int
                /\ PagesEnd(segs[i + 1]) \in Int
            BY <1>2, <3>1
          <6> QED BY <3>2, <6>1, <6>2, <6>3
        <5>3. CASE i + 1 = n
          <6>1. /\ FirstPage(segs[n]) <= PagesEnd(segs[n]) /\ FirstPage(segs[n]) \in Int
                /\ PagesEnd(segs[n]) \in Int
            BY <1>1, <1>2
          <6>2. a < FirstPage(segs[n])
            BY <3>2, <5>3
          <6> QED BY <6>1, <6>2
        <5> QED BY <5>1, <5>2, <5>3
      <4>4. FirstPage(segs[1]) \in Int /\ PagesEnd(segs[n]) \in Int
        BY <1>1, <1>2
      <4>5. a \in FirstPage(segs[1]) .. PagesEnd(segs[n]) - 1
        BY <4>2, <4>3, <4>4
      <4> QED BY <4>5 DEF Span
    <3>3. FirstPage(segs[i + 1]) \in Int
      BY <1>2, <3>1
    <3> QED BY <1>5, <2>1, <3>1, <3>2, <3>3
  <2> QED BY <2>4, <2>5
<1> QED BY <1>4, <1>5

\* Two gaps of a library, or of two, are the same or apart.
LEMMA GapsApart ==
    ASSUME NEW p \in Functions, NEW q \in Functions, NEW g \in GapsOf(p), NEW h \in GapsOf(q), g # h
    PROVE  g.end <= h.start \/ h.end <= g.start
<1>1. PICK i \in DOMAIN SegmentsOf[p] : g \in LibraryGaps[p][i]
  BY Gapped
<1>2. PICK j \in DOMAIN SegmentsOf[q] : h \in LibraryGaps[q][j]
  BY Gapped
<1>3. /\ g.start \in Int /\ g.end \in Int /\ g.start < g.end
      /\ h.start \in Int /\ h.end \in Int /\ h.start < h.end
  BY <1>1, <1>2, GapPlace
<1>4. CASE SegmentsOf[p] = SegmentsOf[q] /\ (p \in Kernel <=> q \in Kernel)
  <2>1. LibraryGaps[p] = LibraryGaps[q]
    <3>1. (p \in Kernel) = (q \in Kernel)
      BY <1>4
    <3>2. /\ LibraryGaps[p] = Gaps(SegmentsOf[p], p \in Kernel)
          /\ LibraryGaps[q] = Gaps(SegmentsOf[q], q \in Kernel)
      BY DEF LibraryGaps
    <3> QED BY <1>4, <3>1, <3>2
  <2>2. j \in DOMAIN SegmentsOf[p] /\ h \in LibraryGaps[p][j] /\ i \in Int /\ j \in Int
    <3>1. j \in DOMAIN SegmentsOf[p] /\ h \in LibraryGaps[p][j]
      BY <1>2, <1>4, <2>1
    <3> QED BY <1>1, <3>1, Segs
  <2>3. i # j
    BY <1>1, <2>2, GapPlace
  <2>4. CASE i < j
    <3>1. g.end <= FirstPage(SegmentsOf[p][j])
      BY <1>1, <2>2, <2>4, GapBetween
    <3>2. EndOf(SegmentsOf[p][j]) <= h.start
      BY <2>2, GapPlace
    <3>3. /\ FirstPage(SegmentsOf[p][j]) \in Int /\ SegmentsOf[p][j].vaddr \in Int
          /\ EndOf(SegmentsOf[p][j]) \in Int
      BY <2>2, Segs
    <3>4. /\ FirstPage(SegmentsOf[p][j]) <= SegmentsOf[p][j].vaddr
          /\ SegmentsOf[p][j].vaddr <= EndOf(SegmentsOf[p][j])
      BY <2>2, Segs
    <3> QED BY <1>3, <3>1, <3>2, <3>3, <3>4
  <2>5. CASE j < i
    <3>1. h.end <= FirstPage(SegmentsOf[p][i])
      BY <1>1, <2>2, <2>5, GapBetween
    <3>2. EndOf(SegmentsOf[p][i]) <= g.start
      BY <1>1, GapPlace
    <3>3. /\ FirstPage(SegmentsOf[p][i]) \in Int /\ SegmentsOf[p][i].vaddr \in Int
          /\ EndOf(SegmentsOf[p][i]) \in Int
      BY <1>1, Segs
    <3>4. /\ FirstPage(SegmentsOf[p][i]) <= SegmentsOf[p][i].vaddr
          /\ SegmentsOf[p][i].vaddr <= EndOf(SegmentsOf[p][i])
      BY <1>1, Segs
    <3> QED BY <1>3, <3>1, <3>2, <3>3, <3>4
  <2> QED BY <2>2, <2>3, <2>4, <2>5
<1>5. CASE Span(p) \cap Span(q) = {}
  <2>1. ASSUME NEW a \in Int, g.start <= a, a < g.end, h.start <= a, a < h.end
        PROVE  FALSE
    BY <1>1, <1>2, <1>5, <2>1, SpanCovers
  <2>2. ~(g.start <= h.start /\ h.start < g.end)
    BY <1>3, <2>1
  <2>3. ~(h.start <= g.start /\ g.start < h.end)
    BY <1>3, <2>1
  <2> QED BY <1>3, <2>2, <2>3
<1> QED BY <1>4, <1>5, LinkerAssumption

\* Gaps consist of words that exist, none of them of a segment or of a slot.
LEMMA GapWords ==
    ASSUME NEW p \in Functions, NEW g \in GapsOf(p)
    PROVE  /\ g.start \in Int /\ g.end \in Int /\ g.start < g.end /\ g.clear \in BOOLEAN
           /\ g.clear => g.start + ExitAlign < g.end
           /\ \A a \in Int : g.start <= a /\ a < g.end =>
                /\ a \in Addrs
                /\ a \notin LibraryWords
                /\ \A b \in NearSlots : a \notin b .. b + ExitLen - 1
<1>1. PICK i \in DOMAIN SegmentsOf[p] : g \in LibraryGaps[p][i]
  BY Gapped
<1>2. /\ g.start \in Int /\ g.end \in Int /\ g.start < g.end /\ g.clear \in BOOLEAN
      /\ g.clear => g.start + ExitAlign < g.end
  BY <1>1, GapPlace
<1>3. ASSUME NEW a \in Int, g.start <= a, a < g.end
      PROVE  /\ a \in Addrs
             /\ a \notin LibraryWords
             /\ \A b \in NearSlots : a \notin b .. b + ExitLen - 1
  <2>1. a \in Span(p)
    BY <1>1, <1>3, SpanCovers
  <2>2. a \in Addrs
    <3>1. a \in g.start .. g.end - 1
      BY <1>2, <1>3
    <3>2. g \in UNION Range(LibraryGaps[p])
      BY DEF GapsOf
    <3> QED BY <3>1, <3>2, LinkerAssumption DEF Addrs
  <2>3. \A b \in NearSlots : a \notin b .. b + ExitLen - 1
    BY <2>1, SlotAssumption
  <2>4. ASSUME NEW q \in Functions, NEW j \in DOMAIN SegmentsOf[q],
               SegmentsOf[q][j].vaddr <= a, a < EndOf(SegmentsOf[q][j])
        PROVE  FALSE
    <3> DEFINE s == SegmentsOf[q][j]
    <3>1. /\ s.vaddr \in Int /\ EndOf(s) \in Int /\ FirstPage(s) \in Int /\ PagesEnd(s) \in Int
      BY Segs
    <3>2. FirstPage(s) <= s.vaddr /\ EndOf(s) <= PagesEnd(s)
      BY Segs
    <3>3. FirstPage(s) <= a /\ a < PagesEnd(s)
      BY <2>4, <3>1, <3>2
    <3>4. a \in Span(q)
      BY <3>3, SpanCovers
    <3>5. SegmentsOf[p] = SegmentsOf[q]
      BY <2>1, <3>4, LinkerAssumption
    <3>6. j \in DOMAIN SegmentsOf[p] /\ s = SegmentsOf[p][j] /\ i \in Int /\ j \in Int
      <4>1. j \in DOMAIN SegmentsOf[p] /\ s = SegmentsOf[p][j]
        BY <3>5
      <4> QED BY <1>1, <4>1, Segs
    <3>7. CASE j <= i
      <4>1. EndOf(s) <= g.start
        BY <1>1, <3>6, <3>7, GapBetween
      <4> QED BY <1>2, <1>3, <2>4, <3>1, <4>1
    <3>8. CASE i < j
      <4>1. g.end <= FirstPage(s)
        BY <1>1, <3>6, <3>8, GapBetween
      <4> QED BY <1>2, <1>3, <3>1, <3>3, <4>1
    <3> QED BY <3>6, <3>7, <3>8
  <2>5. a \notin LibraryWords
    <3>1. SUFFICES ASSUME NEW q \in Functions, NEW s \in Range(SegmentsOf[q]),
                          s.vaddr <= a, a < EndOf(s)
                   PROVE  FALSE
      BY DEF LibraryWords
    <3>2. PICK j \in DOMAIN SegmentsOf[q] : s = SegmentsOf[q][j]
      BY DEF Range
    <3> QED BY <2>4, <3>1, <3>2
  <2> QED BY <2>2, <2>3, <2>5
<1> QED BY <1>2, <1>3

\* The words of a segment are words of its library's span.
LEMMA LibrarySpan ==
    ASSUME NEW a \in LibraryWords
    PROVE  a \in Int /\ \E q \in Functions : a \in Span(q)
<1>1. PICK q \in Functions : \E s \in Range(SegmentsOf[q]) : s.vaddr <= a /\ a < EndOf(s)
  BY DEF LibraryWords
<1>2. PICK j \in DOMAIN SegmentsOf[q] :
        SegmentsOf[q][j].vaddr <= a /\ a < EndOf(SegmentsOf[q][j])
  BY <1>1 DEF Range
<1> DEFINE s == SegmentsOf[q][j]
<1>3. a \in Int
  BY InlineAssumption DEF LibraryWords, Addrs
<1>4. s.vaddr \in Int /\ EndOf(s) \in Int /\ FirstPage(s) \in Int /\ PagesEnd(s) \in Int
  BY <1>2, Segs
<1>5. FirstPage(s) <= s.vaddr /\ EndOf(s) <= PagesEnd(s)
  BY <1>2, Segs
<1>6. FirstPage(s) <= a /\ a < PagesEnd(s)
  BY <1>2, <1>3, <1>4, <1>5
<1>7. a \in Span(q)
  BY <1>2, <1>3, <1>6, SpanCovers
<1> QED BY <1>3, <1>7

\* The words of a slot exist; none of them belongs to a library.
LEMMA SlotWords ==
    ASSUME NEW b \in NearSlots
    PROVE  /\ b \in Nat \ {0}
           /\ \A a \in b .. b + ExitLen - 1 : a \in Addrs /\ a \notin LibraryWords /\ a \notin OwnWords
<1>1. b \in Nat
  BY InlineAssumption
<1>2. b \in b .. b + ExitLen - 1
  BY <1>1 DEF ExitLen
<1>3. \A a \in b .. b + ExitLen - 1 : a \in Addrs
  BY SlotAssumption DEF Addrs
<1>4. \A a \in b .. b + ExitLen - 1 : a \notin LibraryWords
  BY LibrarySpan, SlotAssumption
<1>5. \A a \in b .. b + ExitLen - 1 : a \notin OwnWords
  BY DEF OwnWords
<1> QED BY <1>1, <1>2, <1>3, <1>4, <1>5, InlineAssumption DEF Addrs

\* The words of a function are the code of the library, outside the slots.
LEMMA FunctionWords ==
    ASSUME NEW pc \in Functions
    PROVE  /\ pc \in Nat /\ SizeOf[pc] \in Nat
           /\ \A a \in pc .. pc + SizeOf[pc] - 1 :
                a \in Addrs /\ Library[a] = Original(a) /\ a \in LibraryWords /\ a \in OwnWords
<1>1. pc \in Nat /\ SizeOf[pc] \in Nat
  BY InlineAssumption
<1>2. ASSUME NEW a \in pc .. pc + SizeOf[pc] - 1
      PROVE  a \in Addrs /\ Library[a] = Original(a)
  BY FunctionAssumption DEF Addrs
<1>3. ASSUME NEW a \in pc .. pc + SizeOf[pc] - 1
      PROVE  a \in LibraryWords
  <2>1. PICK s \in Range(SegmentsOf[pc]) : s.vaddr <= pc /\ pc + SizeOf[pc] <= EndOf(s)
    BY FunctionAssumption
  <2>2. PICK j \in DOMAIN SegmentsOf[pc] : s = SegmentsOf[pc][j]
    BY DEF Range
  <2>3. s.vaddr \in Int /\ EndOf(s) \in Int
    BY <2>2, Segs
  <2>4. s.vaddr <= a /\ a < EndOf(s)
    BY <1>1, <2>1, <2>3
  <2> QED BY <1>2, <2>4 DEF LibraryWords
<1>4. ASSUME NEW a \in pc .. pc + SizeOf[pc] - 1
      PROVE  a \in OwnWords
  <2>1. \A b \in NearSlots : a \notin b .. b + ExitLen - 1
    BY <1>3, SlotWords
  <2> QED BY <1>2, <2>1 DEF OwnWords
<1> QED BY <1>1, <1>2, <1>3, <1>4

\* Functions and what hooks replace of them do not overlap.
LEMMA FunctionsApart ==
    ASSUME NEW p \in Functions, NEW q \in Functions, p # q,
           NEW a \in p .. p + SizeOf[p] - 1
    PROVE  a \notin q .. q + SizeOf[q] - 1
<1>1. p \in Nat /\ q \in Nat /\ SizeOf[p] \in Nat /\ SizeOf[q] \in Nat
  BY FunctionWords
<1>2. p < q \/ q < p
  BY <1>1
<1>3. p < q => p + SizeOf[p] <= q
  BY FunctionAssumption
<1>4. q < p => q + SizeOf[q] <= p
  BY FunctionAssumption
<1> QED BY <1>1, <1>2, <1>3, <1>4

\* Every object hooks a function of its own.
LEMMA TargetsApart ==
    /\ \A x \in Insts : TargetOf[x] \in Functions
    /\ \A x, y \in Insts : x # y => TargetOf[x] # TargetOf[y]
BY InlineAssumption, FunctionAssumption

(***************************************************************************)
(* Words written                                                             *)
(***************************************************************************)
LEMMA WrittenWords ==
    ASSUME NEW m, NEW a \in Int, NEW s, Len(s) \in Nat
    PROVE  /\ DOMAIN Written(m, a, s) = DOMAIN m
           /\ \A b \in DOMAIN m : b \in a .. a + Len(s) - 1 => Written(m, a, s)[b] = s[b - a + 1]
           /\ \A b \in DOMAIN m : b \notin a .. a + Len(s) - 1 => Written(m, a, s)[b] = m[b]
BY DEF Written

\* Two readings of the same number of words.
LEMMA SameWords ==
    ASSUME NEW m, NEW k, NEW a \in Int, NEW n \in Nat,
           \A b \in a .. a + n - 1 : m[b] = k[b]
    PROVE  Words(m, a, n) = Words(k, a, n)
<1>1. \A i \in 1 .. n : a + i - 1 \in a .. a + n - 1
  OBVIOUS
<1> QED BY <1>1 DEF Words

\* and the other way round.
LEMMA WordsEqual ==
    ASSUME NEW m, NEW k, NEW a \in Int, NEW n \in Nat, Words(m, a, n) = Words(k, a, n)
    PROVE  \A b \in a .. a + n - 1 : m[b] = k[b]
<1>1. TAKE b \in a .. a + n - 1
<1>2. b - a + 1 \in 1 .. n /\ a + (b - a + 1) - 1 = b
  OBVIOUS
<1>3. Words(m, a, n)[b - a + 1] = m[b] /\ Words(k, a, n)[b - a + 1] = k[b]
  BY <1>2 DEF Words
<1> QED BY <1>3

\* The four words of an absolute jump.
LEMMA JumpWords ==
    ASSUME NEW x
    PROVE  /\ Len(AbsoluteJump(x)) = ExitLen
           /\ AbsoluteJump(x) = [i \in 1 .. ExitLen |-> AbsoluteJump(x)[i]]
           /\ AbsoluteJump(x)[3] = Word("low", x)
           /\ \A i \in 1 .. ExitLen :
                /\ AbsoluteJump(x)[i] # Zero /\ AbsoluteJump(x)[i] # Flag
                /\ i # 3 => AbsoluteJump(x)[i].op # "low"
BY DEF AbsoluteJump, ExitLen, Word, LoadX17, Zero, Flag

\* An absolute jump that was written.
LEMMA JumpWritten ==
    ASSUME NEW x, NEW m, NEW a \in Int, a .. a + ExitLen - 1 \subseteq DOMAIN m
    PROVE  Words(Written(m, a, AbsoluteJump(x)), a, ExitLen) = AbsoluteJump(x)
<1> DEFINE w == Written(m, a, AbsoluteJump(x))
<1>1. Len(AbsoluteJump(x)) = ExitLen /\ ExitLen \in Nat
  BY JumpWords DEF ExitLen
<1>2. ASSUME NEW i \in 1 .. ExitLen
      PROVE  w[a + i - 1] = AbsoluteJump(x)[i]
  <2>1. a + i - 1 \in a .. a + ExitLen - 1 /\ (a + i - 1) - a + 1 = i
    BY <1>1
  <2> QED BY <1>1, <2>1, WrittenWords
<1>3. Words(w, a, ExitLen) = [i \in 1 .. ExitLen |-> AbsoluteJump(x)[i]]
  BY <1>2 DEF Words
<1> QED BY <1>3, JumpWords

\* What a reading of an absolute jump says of the words.
LEMMA JumpRead ==
    ASSUME NEW x, NEW m, NEW a \in Int, Words(m, a, ExitLen) = AbsoluteJump(x)
    PROVE  /\ m[a + 2] = Word("low", x)
           /\ \A b \in a .. a + ExitLen - 1 :
                /\ m[b] # Zero /\ m[b] # Flag
                /\ b # a + 2 => m[b].op # "low"
<1>1. ASSUME NEW b \in a .. a + ExitLen - 1
      PROVE  b - a + 1 \in 1 .. ExitLen /\ m[b] = AbsoluteJump(x)[b - a + 1]
  <2>1. b - a + 1 \in 1 .. ExitLen /\ a + (b - a + 1) - 1 = b
    BY DEF ExitLen
  <2>2. Words(m, a, ExitLen)[b - a + 1] = m[b]
    BY <2>1 DEF Words
  <2> QED BY <2>1, <2>2
<1>2. a + 2 \in a .. a + ExitLen - 1 /\ (a + 2) - a + 1 = 3
  BY DEF ExitLen
<1>3. m[a + 2] = Word("low", x)
  BY <1>1, <1>2, JumpWords
<1>4. ASSUME NEW b \in a .. a + ExitLen - 1, b # a + 2
      PROVE  m[b].op # "low"
  <2>1. b - a + 1 # 3
    BY <1>4
  <2> QED BY <1>1, <2>1, JumpWords
<1> QED BY <1>1, <1>3, <1>4, JumpWords

\* Where zeros are read every word is zero.
LEMMA ZerosRead ==
    ASSUME NEW m, NEW a \in Int, Words(m, a, ExitLen) = Zeros
    PROVE  \A b \in a .. a + ExitLen - 1 : m[b] = Zero
<1>1. TAKE b \in a .. a + ExitLen - 1
<1>2. b - a + 1 \in 1 .. ExitLen /\ a + (b - a + 1) - 1 = b
  BY DEF ExitLen
<1>3. Words(m, a, ExitLen)[b - a + 1] = m[b]
  BY <1>2 DEF Words
<1> QED BY <1>2, <1>3 DEF Zeros

\* A distance that a branch reaches is what its word says.
LEMMA BranchLands ==
    ASSUME NEW a \in Int, NEW pc \in Int, InReach(a, pc)
    PROVE  pc + Distance(RelativeJump(a, pc)[1]) = a
<1> DEFINE W == 2 ^ BranchBits
           d == a - pc
<1>1. RangeLow \in Nat \ {0} /\ W = 2 * RangeLow /\ RangeHigh = RangeLow - 1
  BY InlineAssumption DEF RangeHigh
<1>2. d \in Int /\ -RangeLow <= d /\ d <= RangeHigh
  BY <1>1 DEF InReach
<1>3. RelativeJump(a, pc)[1].arg = d % W
  BY DEF RelativeJump, Word
<1> HIDE DEF W
<1>4. CASE d >= 0
  <2>1. d % W = d
    BY <1>1, <1>2, <1>4
  <2> QED BY <1>1, <1>2, <1>3, <2>1 DEF Distance
<1>5. CASE d < 0
  <2>1. d % W = d + W
    BY <1>1, <1>2, <1>5
  <2> QED BY <1>1, <1>2, <1>3, <1>5, <2>1 DEF Distance, W
<1> QED BY <1>2, <1>4, <1>5

(***************************************************************************)
(* The search of an exit                                                     *)
(***************************************************************************)
ExitWords(x) == insts[x].exit .. insts[x].exit + ExitLen - 1

\* Memory in which nothing that is hooked was touched.
Harmless(m) ==
    /\ DOMAIN m = Addrs
    /\ \A a \in LibraryWords : m[a] = text[a]
    /\ \A x \in Insts : Exiting(x) => \A a \in ExitWords(x) : m[a] = text[a]
    /\ \A pc \in Functions : \A g \in GapsOf(pc) : g.clear /\ text[g.start] = Flag => m[g.start] = Flag

\* No address of a hub is new in it.
NoNewAddress(m) == \A a \in OwnWords : m[a].op = "low" => m[a] = text[a]

\* Where the words of an exit are.
LEMMA ExitPlace ==
    ASSUME HInv, NEW x \in Insts, Exiting(x)
    PROVE  /\ HookRight(x) /\ ExitRight(x) /\ InUse(x)
           /\ insts[x].exit \in Nat
           /\ Words(text, insts[x].exit, ExitLen) = AbsoluteJump(x)
           /\ ExitWords(x) \subseteq Addrs
           /\ ~insts[x].inLibrary => insts[x].exit \in slots /\ insts[x].exit \in NearSlots
           /\ insts[x].inLibrary =>
                \E g \in GapsOf(TargetOf[x]) :
                    ~Uncleared(text, g) /\ \A a \in ExitWords(x) : g.start <= a /\ a < g.end
<1>1. InUse(x) /\ HookRight(x) /\ ExitRight(x)
  BY DEF HInv, HooksRight, InUse, Exiting, HookRight
<1>2. insts[x].exit \in Nat
  <2>1. insts[x].exit \in {0} \cup Addrs
    BY DEF HInv, InlineTypeOK
  <2> QED BY <2>1, InlineAssumption DEF Addrs
<1>3. /\ Words(text, insts[x].exit, ExitLen) = AbsoluteJump(x)
      /\ ExitWords(x) \subseteq Addrs
  BY <1>1 DEF ExitRight, JumpsTo, ExitWords
<1>4. ~insts[x].inLibrary => insts[x].exit \in slots /\ insts[x].exit \in NearSlots
  <2>1. slots \subseteq NearSlots
    BY DEF HInv, InlineTypeOK
  <2> QED BY <1>1, <2>1 DEF HookRight, SlotExit, Exiting
<1>5. ASSUME insts[x].inLibrary
      PROVE  \E g \in GapsOf(TargetOf[x]) :
                ~Uncleared(text, g) /\ \A a \in ExitWords(x) : g.start <= a /\ a < g.end
  <2>1. PICK g \in GapsOf(TargetOf[x]) : InGap(insts[x].exit, g) /\ ~Uncleared(text, g)
    BY <1>1, <1>5 DEF ExitRight
  <2>2. g.start \in Int /\ g.end \in Int
    BY GapWords, TargetsApart
  <2>3. \A a \in ExitWords(x) : g.start <= a /\ a < g.end
    BY <1>2, <2>1, <2>2 DEF ExitWords, InGap, ExitLen
  <2> QED BY <2>1, <2>3
<1> QED BY <1>1, <1>2, <1>3, <1>4, <1>5

\* No exit in use stands on a word of a library.
LEMMA ExitOutside ==
    ASSUME HInv, NEW x \in Insts, Exiting(x), NEW a \in ExitWords(x)
    PROVE  a \in Int /\ a \in Addrs /\ a \notin LibraryWords
<1>1. a \in Int /\ a \in Addrs
  BY ExitPlace DEF ExitWords
<1>2. CASE ~insts[x].inLibrary
  BY <1>2, ExitPlace, SlotWords DEF ExitWords
<1>3. CASE insts[x].inLibrary
  <2>1. PICK g \in GapsOf(TargetOf[x]) : g.start <= a /\ a < g.end
    BY <1>3, ExitPlace
  <2> QED BY <1>1, <2>1, GapWords, TargetsApart
<1> QED BY <1>1, <1>2, <1>3

\* sh_exit_fill_zero leaves what is hooked alone: a gap with an exit in it has
\* been cleared before.
LEMMA Cleared ==
    ASSUME HInv, NEW pc \in Functions, NEW n \in 0 .. Len(SegmentsOf[pc])
    PROVE  /\ Harmless(ClearedFirst(text, LibraryGaps[pc], n))
           /\ NoNewAddress(ClearedFirst(text, LibraryGaps[pc], n))
           /\ \A i \in 1 .. n : \A g \in LibraryGaps[pc][i] :
                ~Uncleared(ClearedFirst(text, LibraryGaps[pc], n), g)
<1> DEFINE m == ClearedFirst(text, LibraryGaps[pc], n)
           done == {g \in UNION {LibraryGaps[pc][i] : i \in 1 .. n} : Uncleared(text, g)}
           In(a) == \E g \in done : g.start <= a /\ a < g.end
<1>1. DOMAIN text = Addrs /\ Addrs \subseteq Int /\ LibraryWords \subseteq Addrs
  BY InlineAssumption DEF HInv, InlineTypeOK, Addrs, LibraryWords
<1>2. 1 .. n \subseteq DOMAIN SegmentsOf[pc]
  BY Segs
<1>3. ASSUME NEW g \in done
      PROVE  /\ g \in GapsOf(pc) /\ g.clear /\ text[g.start] # Flag
             /\ g.start \in Int /\ g.end \in Int /\ g.start + FlagLen < g.end
  <2>1. g \in GapsOf(pc)
    BY <1>2, Gapped
  <2>2. g.clear /\ text[g.start] # Flag
    BY DEF Uncleared
  <2> QED BY <2>1, <2>2, GapWords DEF FlagLen, ExitAlign
<1>4. m = [a \in Addrs |->
            IF \E g \in done : g.start <= a /\ a < g.start + FlagLen THEN Flag
            ELSE IF In(a) THEN Zero ELSE text[a]]
  BY <1>1 DEF ClearedFirst
<1>5. ASSUME NEW a \in Addrs
      PROVE  /\ ~In(a) => m[a] = text[a]
             /\ In(a) => m[a] \in {Flag, Zero}
  <2>1. a \in Int
    BY <1>1
  <2>2. (\E g \in done : g.start <= a /\ a < g.start + FlagLen) => In(a)
    BY <1>3, <2>1 DEF FlagLen
  <2> QED BY <1>4, <2>2
<1>6. ASSUME NEW g \in done
      PROVE  m[g.start] = Flag
  <2>1. g.start \in Addrs
    BY <1>3, GapWords DEF FlagLen
  <2>2. g.start <= g.start /\ g.start < g.start + FlagLen
    BY <1>3 DEF FlagLen
  <2> QED BY <1>4, <2>1, <2>2
<1> HIDE DEF m
<1>7. ASSUME NEW a \in LibraryWords
      PROVE  m[a] = text[a]
  <2>1. ~In(a)
    BY <1>1, <1>3, GapWords
  <2> QED BY <1>1, <1>5, <2>1
<1>8. ASSUME NEW x \in Insts, Exiting(x), NEW a \in ExitWords(x)
      PROVE  m[a] = text[a]
  <2>1. a \in Int /\ a \in Addrs
    BY <1>8, ExitOutside
  <2>2. ASSUME NEW g \in done, g.start <= a, a < g.end
        PROVE  FALSE
    <3>1. CASE ~insts[x].inLibrary
      <4>1. insts[x].exit \in NearSlots
        BY <1>8, <3>1, ExitPlace
      <4>2. a \notin insts[x].exit .. insts[x].exit + ExitLen - 1
        BY <1>3, <2>1, <2>2, <4>1, GapWords
      <4> QED BY <4>2 DEF ExitWords
    <3>2. CASE insts[x].inLibrary
      <4>1. PICK h \in GapsOf(TargetOf[x]) : ~Uncleared(text, h) /\ h.start <= a /\ a < h.end
        BY <1>8, <3>2, ExitPlace
      <4>2. g # h
        BY <4>1
      <4>3. TargetOf[x] \in Functions
        BY TargetsApart
      <4>4. h.start \in Int /\ h.end \in Int
        BY <4>3, GapWords
      <4>5. g.end <= h.start \/ h.end <= g.start
        BY <1>3, <4>2, <4>3, GapsApart
      <4> QED BY <1>3, <2>1, <2>2, <4>1, <4>4, <4>5
    <3> QED BY <3>1, <3>2
  <2>3. ~In(a)
    BY <2>2
  <2> QED BY <1>5, <2>1, <2>3
<1>9. ASSUME NEW q \in Functions, NEW g \in GapsOf(q), g.clear, text[g.start] = Flag
      PROVE  m[g.start] = Flag
  <2>1. g.start \in Int /\ g.end \in Int /\ g.start < g.end
    BY GapWords
  <2>2. g.start \in Addrs
    BY <2>1, GapWords
  <2>3. ASSUME NEW h \in done, h.start <= g.start, g.start < h.end
        PROVE  FALSE
    <3>1. g # h
      BY <1>3, <1>9
    <3>2. g.end <= h.start \/ h.end <= g.start
      BY <1>3, <3>1, GapsApart
    <3> QED BY <1>3, <2>1, <2>3, <3>2
  <2> QED BY <1>5, <1>9, <2>2, <2>3
<1>10. ASSUME NEW a \in OwnWords, m[a].op = "low"
       PROVE  m[a] = text[a]
  <2>1. a \in Addrs
    BY DEF OwnWords
  <2>2. Flag.op # "low" /\ Zero.op # "low"
    BY DEF Flag, Zero, Word
  <2> QED BY <1>5, <1>10, <2>1, <2>2
<1>11. ASSUME NEW i \in 1 .. n, NEW g \in LibraryGaps[pc][i]
       PROVE  ~Uncleared(m, g)
  <2>1. CASE Uncleared(text, g)
    <3>1. g \in done
      BY <2>1
    <3> QED BY <1>6, <3>1 DEF Uncleared
  <2>2. CASE ~Uncleared(text, g)
    <3>1. g \in GapsOf(pc)
      BY <1>2, Gapped
    <3> QED BY <1>9, <2>2, <3>1 DEF Uncleared
  <2> QED BY <2>1, <2>2
<1>12. DOMAIN m = Addrs
  BY <1>4
<1>13. Harmless(m) /\ NoNewAddress(m)
  BY <1>7, <1>8, <1>9, <1>10, <1>12 DEF Harmless, NoNewAddress
<1> QED BY <1>11, <1>13 DEF m

(***************************************************************************)
(* sh_exit_alloc and its undoing                                             *)
(***************************************************************************)
\* Where an exit may be written: a free slot, or zeros of a gap.
Free(a, inLibrary, m, pc) ==
    /\ a \in Int /\ InReach(a, pc)
    /\ IF inLibrary
       THEN /\ Words(m, a, ExitLen) = Zeros
            /\ \E g \in GapsOf(pc) : InGap(a, g) /\ ~Uncleared(m, g)
       ELSE a \in NearSlots \ slots

\* The places of a gap that are searched lie in it, and in reach.
LEMMA RoomInGap ==
    ASSUME NEW pc \in Functions, NEW g \in GapsOf(pc), NEW m, NEW a \in Room(m, g, pc)
    PROVE  a \in Int /\ InGap(a, g) /\ InReach(a, pc) /\ Words(m, a, ExitLen) = Zeros
<1>1. g.start \in Int /\ g.end \in Int /\ pc \in Nat
  BY GapWords, FunctionWords
<1>2. RangeLow \in Nat \ {0} /\ RangeHigh = RangeLow - 1
  BY InlineAssumption DEF RangeHigh
<1>3. ExitLen \in Nat \ {0}
  BY DEF ExitLen
<1>4. /\ LastPlace(g, pc) \in Int
      /\ LastPlace(g, pc) <= g.end - ExitLen /\ LastPlace(g, pc) <= pc + RangeHigh
  <2> DEFINE b == MinOf(g.end - ExitLen, pc + RangeHigh)
  <2>1. b \in Int /\ b <= g.end - ExitLen /\ b <= pc + RangeHigh
    BY <1>1, <1>2, <1>3 DEF MinOf
  <2> HIDE DEF b
  <2>2. Down(b, ExitLen) \in Int /\ Down(b, ExitLen) <= b
    BY <1>3, <2>1, Rounded
  <2>3. LastPlace(g, pc) = Down(b, ExitLen)
    BY DEF LastPlace, b
  <2> QED BY <1>1, <1>2, <1>3, <2>1, <2>2, <2>3
<1>5. /\ FirstPlace(g, pc) \in Int
      /\ g.start <= FirstPlace(g, pc)
      /\ pc >= RangeLow => pc - RangeLow <= FirstPlace(g, pc)
  <2> DEFINE b == IF pc >= RangeLow THEN MaxOf(g.start, pc - RangeLow) ELSE g.start
  <2>1. b \in Int /\ g.start <= b /\ (pc >= RangeLow => pc - RangeLow <= b)
    BY <1>1, <1>2 DEF MaxOf
  <2>2. FirstPlace(g, pc) = Up(b, ExitLen)
    BY DEF FirstPlace
  <2> HIDE DEF b
  <2>3. Up(b, ExitLen) \in Int /\ b <= Up(b, ExitLen)
    BY <1>3, <2>1, Rounded
  <2> QED BY <1>1, <1>2, <2>1, <2>2, <2>3
<1>6. a \in FirstPlace(g, pc) .. LastPlace(g, pc) /\ a % ExitLen = 0 /\ Words(m, a, ExitLen) = Zeros
  BY DEF Room
<1>7. a \in Int /\ FirstPlace(g, pc) <= a /\ a <= LastPlace(g, pc)
  BY <1>4, <1>5, <1>6
<1>8. g.start <= a /\ a + ExitLen <= g.end
  BY <1>1, <1>3, <1>4, <1>5, <1>7
<1>9. pc - RangeLow <= a
  <2>1. CASE pc >= RangeLow
    BY <1>1, <1>2, <1>5, <1>7, <2>1
  <2>2. CASE pc < RangeLow
    <3>1. g.start \in Addrs
      BY <1>1, GapWords
    <3>2. g.start > 0
      BY <3>1, InlineAssumption DEF Addrs
    <3> QED BY <1>1, <1>2, <1>7, <1>8, <2>2, <3>2
  <2> QED BY <1>1, <1>2, <2>1, <2>2
<1>10. a <= pc + RangeHigh
  BY <1>1, <1>2, <1>4, <1>7
<1> QED BY <1>6, <1>7, <1>8, <1>9, <1>10 DEF InGap, InReach

\* What an allocation leaves: memory in which nothing hooked was touched, with
\* the exit written where it was free, if there is one.
LEMMA Allocated ==
    ASSUME HInv, NEW pc \in Functions, NEW jump, NEW e \in ExitAlloc(pc, jump)
    PROVE  \E m :
             /\ Harmless(m) /\ NoNewAddress(m)
             /\ e.inLibrary \in BOOLEAN /\ e.lost \in BOOLEAN
             /\ IF e.exit = 0 THEN e.inLibrary /\ e.text = m
                ELSE ~e.lost /\ e.text = Written(m, e.exit, jump) /\ Free(e.exit, e.inLibrary, m, pc)
<1>1. CASE e \in AllocOutLibrary(pc, jump)
  <2>1. PICK a \in NearSlots \ slots :
            /\ pc - RangeLow <= a /\ a <= pc + RangeHigh
            /\ e = Found(a, FALSE, Written(text, a, jump), FALSE)
    BY <1>1 DEF AllocOutLibrary, Lowest, Near
  <2>2. /\ e.exit = a /\ e.inLibrary = FALSE /\ e.text = Written(text, a, jump) /\ e.lost = FALSE
    BY <2>1 DEF Found
  <2>3. a # 0
    BY SlotWords
  <2>4. Free(a, FALSE, text, pc)
    BY <2>1, SlotWords DEF Free, InReach
  <2>5. Harmless(text) /\ NoNewAddress(text)
    BY DEF Harmless, NoNewAddress, HInv, InlineTypeOK
  <2> QED BY <2>2, <2>3, <2>4, <2>5
<1>2. CASE e \in AllocInLibrary(pc, jump)
  <2> DEFINE gaps == LibraryGaps[pc]
             after(n) == ClearedFirst(text, gaps, n)
             room(n) == UNION {Room(after(n), g, pc) : g \in gaps[n]}
  <2>1. /\ DOMAIN gaps = 1 .. Len(SegmentsOf[pc])
        /\ Len(SegmentsOf[pc]) \in Nat /\ Len(gaps) = Len(SegmentsOf[pc])
    <3>1. /\ DOMAIN gaps = 1 .. Len(SegmentsOf[pc])
          /\ Len(SegmentsOf[pc]) \in Nat
      BY Gapped, Segs
    <3>2. gaps = [i \in 1 .. Len(SegmentsOf[pc]) |-> gaps[i]]
      BY Segs DEF LibraryGaps, Gaps
    <3> QED BY <3>1, <3>2
  <2>2. ASSUME NEW n \in 0 .. Len(SegmentsOf[pc])
        PROVE  Harmless(after(n)) /\ NoNewAddress(after(n))
    BY Cleared
  <2>3. \/ \E n \in DOMAIN gaps : \E a \in room(n) :
              e = Found(a, TRUE, Written(after(n), a, jump), FALSE)
        \/ e = Found(0, TRUE, after(Len(gaps)), FALSE)
        \/ \E n \in DOMAIN gaps : e = Found(0, TRUE, after(n - 1), TRUE)
    <3> DEFINE placed(n) == {Found(a, TRUE, Written(after(n), a, jump), FALSE) : a \in Lowest(room(n))}
               good == {n \in DOMAIN gaps : room(n) # {}}
               refused == {n \in DOMAIN gaps : GapMayFail /\ \E g \in gaps[n] : g.clear}
               reached(n) == GapMayFail \/ \A k \in good : n <= k
    <3>1. e \in (UNION {placed(n) : n \in {k \in good : reached(k)}})
                \cup (IF reached(Len(gaps) + 1) THEN {Found(0, TRUE, after(Len(gaps)), FALSE)} ELSE {})
                \cup {Found(0, TRUE, after(n - 1), TRUE) : n \in {k \in refused : reached(k)}}
      BY <1>2 DEF AllocInLibrary
    <3>2. good \subseteq DOMAIN gaps /\ refused \subseteq DOMAIN gaps
      OBVIOUS
    <3>3. ASSUME NEW n \in DOMAIN gaps PROVE Lowest(room(n)) \subseteq room(n)
      BY DEF Lowest
    <3> HIDE DEF after, room, good, refused, reached, gaps
    <3> DEFINE first == UNION {placed(n) : n \in {k \in good : reached(k)}}
               second == IF reached(Len(gaps) + 1) THEN {Found(0, TRUE, after(Len(gaps)), FALSE)} ELSE {}
               third == {Found(0, TRUE, after(n - 1), TRUE) : n \in {k \in refused : reached(k)}}
    <3>4. CASE e \in first
      <4>1. PICK n \in good : e \in placed(n)
        BY <3>4
      <4>2. PICK a \in Lowest(room(n)) : e = Found(a, TRUE, Written(after(n), a, jump), FALSE)
        BY <4>1
      <4> QED BY <3>2, <3>3, <4>2
    <3>5. CASE e \in second
      BY <3>5
    <3>6. CASE e \in third
      <4>1. PICK n \in refused : e = Found(0, TRUE, after(n - 1), TRUE)
        BY <3>6
      <4> QED BY <3>2, <4>1
    <3>7. e \in first \cup second \cup third
      BY <3>1
    <3> HIDE DEF first, second, third
    <3> QED BY <3>4, <3>5, <3>6, <3>7
  <2>4. ASSUME NEW n \in DOMAIN gaps, NEW a \in room(n),
               e = Found(a, TRUE, Written(after(n), a, jump), FALSE)
        PROVE  /\ Harmless(after(n)) /\ NoNewAddress(after(n))
               /\ e.inLibrary = TRUE /\ e.lost = FALSE /\ e.exit # 0
               /\ e.text = Written(after(n), e.exit, jump)
               /\ Free(e.exit, TRUE, after(n), pc)
    <3>1. /\ e.exit = a /\ e.inLibrary = TRUE /\ e.text = Written(after(n), a, jump) /\ e.lost = FALSE
      BY <2>4 DEF Found
    <3>2. n \in 0 .. Len(SegmentsOf[pc]) /\ n \in 1 .. n /\ n \in DOMAIN SegmentsOf[pc]
      BY <2>1, Gapped
    <3>3. PICK g \in gaps[n] : a \in Room(after(n), g, pc)
      BY <2>4
    <3>4. g \in GapsOf(pc)
      BY <3>2, <3>3, Gapped
    <3>5. ~Uncleared(after(n), g)
      BY <3>2, <3>3, Cleared
    <3> HIDE DEF after
    <3>6. a \in Int /\ InGap(a, g) /\ InReach(a, pc) /\ Words(after(n), a, ExitLen) = Zeros
      BY <3>3, <3>4, RoomInGap
    <3>7. a # 0
      <4>1. g.start <= a /\ a < g.end
        BY <3>4, <3>6, GapWords DEF InGap, ExitLen
      <4>2. a \in Addrs
        BY <3>4, <3>6, <4>1, GapWords
      <4> QED BY <4>2, InlineAssumption DEF Addrs
    <3>8. Free(a, TRUE, after(n), pc)
      BY <3>4, <3>5, <3>6 DEF Free
    <3> QED BY <2>2, <3>1, <3>2, <3>7, <3>8
  <2>5. ASSUME NEW n \in 0 .. Len(SegmentsOf[pc]), NEW l \in BOOLEAN, e = Found(0, TRUE, after(n), l)
        PROVE  /\ Harmless(after(n)) /\ NoNewAddress(after(n))
               /\ e.inLibrary = TRUE /\ e.lost \in BOOLEAN /\ e.exit = 0 /\ e.text = after(n)
    <3>1. e.inLibrary = TRUE /\ e.lost = l /\ e.exit = 0 /\ e.text = after(n)
      BY <2>5 DEF Found
    <3> QED BY <2>2, <3>1
  <2>6. Len(gaps) \in 0 .. Len(SegmentsOf[pc])
    BY <2>1
  <2>7. \A n \in DOMAIN gaps : n - 1 \in 0 .. Len(SegmentsOf[pc])
    BY <2>1
  <2> HIDE DEF after, room, gaps
  <2>8. CASE \E n \in DOMAIN gaps : \E a \in room(n) :
               e = Found(a, TRUE, Written(after(n), a, jump), FALSE)
    BY <2>4, <2>8
  <2>9. CASE e = Found(0, TRUE, after(Len(gaps)), FALSE)
    BY <2>5, <2>6, <2>9
  <2>10. CASE \E n \in DOMAIN gaps : e = Found(0, TRUE, after(n - 1), TRUE)
    BY <2>5, <2>7, <2>10
  <2> QED BY <2>3, <2>8, <2>9, <2>10
<1> QED BY <1>1, <1>2 DEF ExitAlloc

\* Memory with an exit written where it was free: nothing hooked was touched,
\* and the one new address of a hub is the exit's.
LEMMA ExitWritten ==
    ASSUME HInv, NEW pc \in Functions, NEW x, NEW m, NEW a, NEW inLibrary \in BOOLEAN,
           Harmless(m), NoNewAddress(m), Free(a, inLibrary, m, pc)
    PROVE  LET w == Written(m, a, AbsoluteJump(x)) IN
           /\ Harmless(w)
           /\ a \in Nat /\ a .. a + ExitLen - 1 \subseteq Addrs
           /\ \A b \in a .. a + ExitLen - 1 : b \notin LibraryWords
           /\ Words(w, a, ExitLen) = AbsoluteJump(x)
           /\ inLibrary => \E g \in GapsOf(pc) : InGap(a, g) /\ ~Uncleared(w, g)
           /\ \A b \in OwnWords : w[b].op = "low" =>
                w[b] = text[b] \/ (inLibrary /\ b = a + 2 /\ w[b].arg = x)
           /\ ~inLibrary => NoNewAddress(w)
<1> DEFINE w == Written(m, a, AbsoluteJump(x))
           Here == a .. a + ExitLen - 1
<1>1. DOMAIN m = Addrs /\ ExitLen \in Nat /\ ExitLen = 4 /\ Len(AbsoluteJump(x)) = ExitLen /\ a \in Int
  BY JumpWords DEF Harmless, ExitLen, Free
<1>2. ASSUME inLibrary
      PROVE  \E g \in GapsOf(pc) :
                /\ InGap(a, g) /\ ~Uncleared(m, g)
                /\ \A b \in Here : g.start <= b /\ b < g.end
  <2>1. PICK g \in GapsOf(pc) : InGap(a, g) /\ ~Uncleared(m, g)
    BY <1>2 DEF Free
  <2>2. g.start \in Int /\ g.end \in Int
    BY GapWords
  <2>3. \A b \in Here : g.start <= b /\ b < g.end
    BY <1>1, <2>1, <2>2 DEF InGap
  <2> QED BY <2>1, <2>3
<1>3. /\ Here \subseteq Addrs
      /\ \A b \in Here : b \notin LibraryWords
      /\ ~inLibrary => \A b \in Here : b \notin OwnWords
  <2>1. CASE inLibrary
    BY <1>2, <2>1, GapWords
  <2>2. CASE ~inLibrary
    BY <2>2, SlotWords DEF Free
  <2> QED BY <2>1, <2>2
<1>4. a \in Nat
  <2>1. a \in Here
    BY <1>1
  <2> QED BY <1>3, <2>1, InlineAssumption DEF Addrs
<1>5. ASSUME inLibrary, NEW b \in Here
      PROVE  m[b] = Zero
  BY <1>1, <1>5, ZerosRead DEF Free
<1>6. Words(w, a, ExitLen) = AbsoluteJump(x)
  BY <1>1, <1>3, JumpWritten
<1>7. /\ DOMAIN w = Addrs
      /\ \A b \in Addrs : b \notin Here => w[b] = m[b]
  BY <1>1, WrittenWords
<1> HIDE DEF w
<1>8. ASSUME NEW q \in Functions, NEW g \in GapsOf(q), g.clear, m[g.start] = Flag
      PROVE  w[g.start] = Flag
  <2>1. g.start \in Int /\ g.start \in Addrs
    BY GapWords
  <2>2. g.start \notin Here
    <3>1. CASE inLibrary
      BY <1>5, <1>8, <3>1 DEF Zero, Flag, Word
    <3>2. CASE ~inLibrary
      <4>1. a \in NearSlots
        BY <3>2 DEF Free
      <4> QED BY <2>1, <4>1, GapWords
    <3> QED BY <3>1, <3>2
  <2> QED BY <1>7, <1>8, <2>1, <2>2
<1>9. ASSUME NEW y \in Insts, Exiting(y), NEW b \in ExitWords(y)
      PROVE  w[b] = text[b]
  <2>1. b \in Int /\ b \in Addrs /\ insts[y].exit \in Nat
    BY <1>9, ExitOutside, ExitPlace
  <2>2. m[b] = text[b]
    BY <1>9 DEF Harmless
  <2>3. b \notin Here
    <3>1. CASE inLibrary
      <4>1. text[b] # Zero
        BY <1>9, <2>1, ExitPlace, JumpRead DEF ExitWords
      <4> QED BY <1>5, <2>2, <3>1, <4>1
    <3>2. CASE ~inLibrary
      <4>1. a \in NearSlots /\ a \notin slots
        BY <3>2 DEF Free
      <4>2. CASE insts[y].inLibrary
        <5>1. PICK g \in GapsOf(TargetOf[y]) : g.start <= b /\ b < g.end
          BY <1>9, <4>2, ExitPlace
        <5> QED BY <2>1, <4>1, <5>1, GapWords, TargetsApart
      <4>3. CASE ~insts[y].inLibrary
        <5>1. insts[y].exit \in slots /\ insts[y].exit \in NearSlots
          BY <1>9, <4>3, ExitPlace
        <5>2. insts[y].exit < a \/ a < insts[y].exit
          BY <1>4, <2>1, <4>1, <5>1
        <5>3. insts[y].exit + ExitLen <= a \/ a + ExitLen <= insts[y].exit
          BY <4>1, <5>1, <5>2, SlotAssumption
        <5> QED BY <1>1, <1>4, <1>9, <2>1, <5>3 DEF ExitWords
      <4> QED BY <4>2, <4>3
    <3> QED BY <3>1, <3>2
  <2> QED BY <1>7, <2>1, <2>2, <2>3
<1>10. ASSUME NEW b \in LibraryWords
       PROVE  w[b] = text[b]
  <2>1. b \in Addrs /\ b \notin Here
    BY <1>3 DEF LibraryWords
  <2> QED BY <1>7, <2>1 DEF Harmless
<1>11. Harmless(w)
  <2>1. \A q \in Functions : \A g \in GapsOf(q) : g.clear /\ text[g.start] = Flag => w[g.start] = Flag
    BY <1>8 DEF Harmless
  <2> QED BY <1>7, <1>9, <1>10, <2>1 DEF Harmless
<1>12. ASSUME inLibrary
       PROVE  \E g \in GapsOf(pc) : InGap(a, g) /\ ~Uncleared(w, g)
  <2>1. PICK g \in GapsOf(pc) : InGap(a, g) /\ ~Uncleared(m, g)
    BY <1>2, <1>12
  <2> QED BY <1>8, <2>1 DEF Uncleared
<1>13. ASSUME NEW b \in OwnWords, w[b].op = "low"
       PROVE  w[b] = text[b] \/ (inLibrary /\ b = a + 2 /\ w[b].arg = x)
  <2>1. b \in Addrs
    BY DEF OwnWords
  <2>2. CASE b \notin Here
    BY <1>7, <1>13, <2>1, <2>2 DEF NoNewAddress
  <2>3. CASE b \in Here
    <3>1. inLibrary
      BY <1>3, <2>3
    <3>2. b = a + 2
      BY <1>1, <1>6, <1>13, <2>3, JumpRead
    <3>3. w[b] = Word("low", x)
      BY <1>1, <1>6, <3>2, JumpRead
    <3> QED BY <3>1, <3>2, <3>3 DEF Word
  <2> QED BY <2>2, <2>3
<1>14. ~inLibrary => NoNewAddress(w)
  BY <1>13 DEF NoNewAddress
<1> QED BY <1>3, <1>4, <1>6, <1>11, <1>12, <1>13, <1>14 DEF w

\* sh_exit_free after a failure leaves nothing hooked touched and no address.
LEMMA FreedAgain ==
    ASSUME HInv, NEW x \in Insts, NEW k \in AfterFailure(x)
    PROVE  Harmless(k) /\ NoNewAddress(k)
<1> DEFINE pc == TargetOf[x]
<1>1. pc \in Functions
  BY TargetsApart
<1>2. PICK e \in ExitAlloc(pc, AbsoluteJump(x)) : e.exit # 0 /\ k = ExitFreed(e.text, e)
  BY DEF AfterFailure
<1>3. PICK m :
        /\ Harmless(m) /\ NoNewAddress(m)
        /\ e.inLibrary \in BOOLEAN /\ e.lost \in BOOLEAN
        /\ IF e.exit = 0 THEN e.inLibrary /\ e.text = m
           ELSE ~e.lost /\ e.text = Written(m, e.exit, AbsoluteJump(x)) /\ Free(e.exit, e.inLibrary, m, pc)
  BY <1>1, Allocated
<1>4. CASE e.exit # 0 /\ ~e.inLibrary
  <2>1. k = Written(m, e.exit, AbsoluteJump(x))
    BY <1>2, <1>3, <1>4 DEF ExitFreed
  <2> QED BY <1>1, <1>3, <1>4, <2>1, ExitWritten
<1>5. CASE e.exit # 0 /\ e.inLibrary
  <2>1. e.exit \in Int /\ Words(m, e.exit, ExitLen) = Zeros
    BY <1>3, <1>5 DEF Free
  <2>2. k = Written(Written(m, e.exit, AbsoluteJump(x)), e.exit, Zeros)
    BY <1>2, <1>3, <1>5 DEF ExitFreed
  <2>3. Len(Zeros) = ExitLen /\ ExitLen \in Nat /\ \A i \in 1 .. ExitLen : Zeros[i] = Zero
    BY DEF Zeros, ExitLen
  <2>4. Len(AbsoluteJump(x)) = ExitLen
    BY JumpWords
  <2> DEFINE w == Written(m, e.exit, AbsoluteJump(x))
  <2>5. /\ DOMAIN w = DOMAIN m
        /\ \A b \in DOMAIN m : b \notin e.exit .. e.exit + ExitLen - 1 => w[b] = m[b]
    BY <2>1, <2>3, <2>4, WrittenWords
  <2> HIDE DEF w
  <2>6. /\ DOMAIN k = DOMAIN w
        /\ \A b \in DOMAIN w : b \in e.exit .. e.exit + ExitLen - 1 => k[b] = Zeros[b - e.exit + 1]
        /\ \A b \in DOMAIN w : b \notin e.exit .. e.exit + ExitLen - 1 => k[b] = w[b]
    BY <2>1, <2>2, <2>3, WrittenWords DEF w
  <2>10. ASSUME NEW b \in DOMAIN m
         PROVE  k[b] = m[b]
    <3>1. CASE b \in e.exit .. e.exit + ExitLen - 1
      <4>1. b - e.exit + 1 \in 1 .. ExitLen
        BY <2>1, <2>3, <3>1
      <4>2. k[b] = Zero
        BY <2>3, <2>5, <2>6, <3>1, <4>1
      <4> QED BY <2>1, <3>1, <4>2, ZerosRead
    <3>2. CASE b \notin e.exit .. e.exit + ExitLen - 1
      BY <2>5, <2>6, <3>2
    <3> QED BY <3>1, <3>2
  <2>7. Addrs = DOMAIN m
    BY <1>3 DEF Harmless
  <2>8. Harmless(k)
    <3>1. \A a \in LibraryWords : a \in Addrs
      BY DEF LibraryWords
    <3>2. \A y \in Insts : Exiting(y) => \A a \in ExitWords(y) : a \in Addrs
      BY ExitOutside
    <3>3. \A q \in Functions : \A g \in GapsOf(q) : g.start \in Addrs
      BY GapWords
    <3> QED BY <1>3, <2>5, <2>6, <2>7, <2>10, <3>1, <3>2, <3>3 DEF Harmless
  <2>9. NoNewAddress(k)
    BY <1>3, <2>7, <2>10 DEF NoNewAddress, OwnWords
  <2> QED BY <2>8, <2>9
<1> QED BY <1>2, <1>3, <1>4, <1>5

(***************************************************************************)
(* Steps                                                                     *)
(***************************************************************************)
\* What the length of a hook says.
LEMMA UseLen ==
    ASSUME HInv, NEW x \in Insts
    PROVE  /\ insts[x].len \in {0, 1, ExitLen}
           /\ InUse(x) <=> insts[x].len # 0
           /\ ~InUse(x) => Replaced(x) = {} /\ ~SlotExit(x) /\ AddressAt(x) = {}
           /\ Exiting(x) => InUse(x)
           /\ SlotExit(x) => InUse(x)
<1>1. insts[x].len \in {0, 1, ExitLen}
  BY DEF HInv, InlineTypeOK
<1> QED BY <1>1, FunctionWords, TargetsApart DEF InUse, Replaced, SlotExit, AddressAt, Exiting, GapExit, ExitLen

\* The code of a function that is not hooked is the library's.
LEMMA NotHooked ==
    ASSUME HInv, NEW x \in Insts,
           NEW a \in TargetOf[x] .. TargetOf[x] + SizeOf[TargetOf[x]] - 1,
           InUse(x) => a >= TargetOf[x] + insts[x].len
    PROVE  text[a] = Library[a]
<1>1. TargetOf[x] \in Functions /\ a \in LibraryWords
  BY FunctionWords, TargetsApart
<1>2. ASSUME NEW y \in Insts, a - TargetOf[y] \in Replaced(y)
      PROVE  FALSE
  <2>1. TargetOf[y] \in Functions /\ TargetOf[y] \in Nat /\ SizeOf[TargetOf[y]] \in Nat
    BY FunctionWords, TargetsApart
  <2>2. TargetOf[x] \in Nat /\ SizeOf[TargetOf[x]] \in Nat /\ a \in Int
    BY <1>1, FunctionWords
  <2>3. a \in TargetOf[y] .. TargetOf[y] + SizeOf[TargetOf[y]] - 1
    BY <1>2, <2>1, <2>2 DEF Replaced
  <2>4. y = x
    BY <1>1, <2>1, <2>3, FunctionsApart, TargetsApart
  <2>5. InUse(x)
    BY <1>2, <2>4, UseLen
  <2>6. a - TargetOf[x] < insts[x].len /\ insts[x].len \in Nat
    BY <1>2, <2>4, UseLen DEF Replaced, ExitLen
  <2> QED BY <2>2, <2>5, <2>6
<1> QED BY <1>1, <1>2 DEF HInv, CodeKept

\* A hook whose words were not touched stays right.
LEMMA StillRight ==
    ASSUME HInv, NEW y \in Insts, InUse(y), insts'[y] = insts[y],
           \A a \in TargetOf[y] .. TargetOf[y] + insts[y].len - 1 : text'[a] = text[a],
           Exiting(y) => \A a \in ExitWords(y) : text'[a] = text[a],
           \A g \in GapsOf(TargetOf[y]) : g.clear /\ text[g.start] = Flag => text'[g.start] = Flag,
           SlotExit(y) => insts[y].exit \in slots'
    PROVE  HookRight(y)'
<1>1. HookRight(y)
  BY DEF HInv, HooksRight
<1>2. TargetOf[y] \in Nat /\ insts[y].len \in Nat
  BY UseLen, FunctionWords, TargetsApart DEF ExitLen
<1>3. Words(text', TargetOf[y], insts[y].len) = Words(text, TargetOf[y], insts[y].len)
  BY <1>2, SameWords
<1>4. ASSUME Exiting(y)
      PROVE  ExitRight(y)'
  <2>1. ExitRight(y) /\ insts[y].exit \in Nat /\ ExitLen \in Nat
    BY <1>4, ExitPlace DEF ExitLen
  <2>2. Words(text', insts[y].exit, ExitLen) = Words(text, insts[y].exit, ExitLen)
    BY <1>4, <2>1, SameWords DEF ExitWords
  <2>3. JumpsTo(insts[y].exit, y)'
    BY <2>1, <2>2 DEF ExitRight, JumpsTo
  <2>4. ASSUME insts[y].inLibrary
        PROVE  \E g \in GapsOf(TargetOf[y]) : InGap(insts[y].exit, g) /\ ~Uncleared(text', g)
    BY <2>1, <2>4 DEF ExitRight, Uncleared
  <2> QED BY <2>1, <2>3, <2>4 DEF ExitRight
<1>5. (Trampo(y) = Trampo(y)') /\ (SlotExit(y) <=> SlotExit(y)') /\ (Exiting(y) <=> Exiting(y)')
  BY DEF Trampo, SlotExit, Exiting
<1> QED BY <1>1, <1>3, <1>4, <1>5 DEF HookRight

\* The words of a function that a hook does not write stay as they are.
LEMMA OtherHooksRight ==
    ASSUME HInv, NEW x \in Insts, NEW y \in Insts, y # x, InUse(y), insts'[y] = insts[y],
           NEW k, Harmless(k), NEW s, Len(s) \in Nat, Len(s) <= SizeOf[TargetOf[x]],
           text' = Written(k, TargetOf[x], s),
           SlotExit(y) => insts[y].exit \in slots'
    PROVE  HookRight(y)'
<1> DEFINE pc == TargetOf[x]
           Here == pc .. pc + Len(s) - 1
<1>1. /\ pc \in Functions /\ pc \in Nat /\ SizeOf[pc] \in Nat
      /\ TargetOf[y] \in Functions /\ TargetOf[y] \in Nat /\ SizeOf[TargetOf[y]] \in Nat
      /\ TargetOf[y] # pc
  BY TargetsApart, FunctionWords
<1>2. Here \subseteq pc .. pc + SizeOf[pc] - 1
  BY <1>1
<1>3. \A a \in Addrs : a \notin Here => text'[a] = k[a]
  <2>1. PICK w : w = Written(k, pc, s)
    OBVIOUS
  <2>2. DOMAIN k = Addrs
    BY DEF Harmless
  <2>3. \A a \in Addrs : a \notin Here => w[a] = k[a]
    BY <2>1, <2>2 DEF Written
  <2> QED BY <2>1, <2>3
<1>4. \A a \in Here : a \in LibraryWords
  BY <1>1, <1>2, FunctionWords
<1>5. ASSUME NEW a \in TargetOf[y] .. TargetOf[y] + insts[y].len - 1
      PROVE  text'[a] = text[a]
  <2>1. insts[y].len \in Nat /\ insts[y].len <= SizeOf[TargetOf[y]]
    BY UseLen DEF HInv, HooksRight, HookRight, ExitLen
  <2>2. a \in TargetOf[y] .. TargetOf[y] + SizeOf[TargetOf[y]] - 1
    BY <1>1, <2>1
  <2>3. a \notin Here
    BY <1>1, <1>2, <2>2, FunctionsApart
  <2>4. a \in Addrs /\ a \in LibraryWords
    BY <1>1, <2>2, FunctionWords
  <2> QED BY <1>3, <2>3, <2>4 DEF Harmless
<1>6. ASSUME Exiting(y), NEW a \in ExitWords(y)
      PROVE  text'[a] = text[a]
  <2>1. a \in Addrs /\ a \notin Here
    BY <1>4, <1>6, ExitOutside
  <2> QED BY <1>3, <1>6, <2>1 DEF Harmless
<1>7. ASSUME NEW g \in GapsOf(TargetOf[y]), g.clear, text[g.start] = Flag
      PROVE  text'[g.start] = Flag
  <2>1. g.start \in Int /\ g.start \in Addrs /\ g.start \notin LibraryWords
    BY <1>1, GapWords
  <2> QED BY <1>1, <1>3, <1>4, <1>7, <2>1 DEF Harmless
<1> QED BY <1>5, <1>6, <1>7, StillRight

\* The function of x was hooked: n words s were written at it, over memory k, and
\* its exit stands at e.
Makes(x, k, n, s, e, inLibrary) ==
    /\ ~InUse(x) /\ Harmless(k)
    /\ n \in {1, ExitLen} /\ n <= SizeOf[TargetOf[x]]
    /\ Len(s) = n /\ s = [i \in 1 .. n |-> s[i]]
    /\ e \in {0} \cup Addrs /\ inLibrary \in BOOLEAN
    /\ text' = Written(k, TargetOf[x], s)
    /\ insts' = [insts EXCEPT ![x] = [len |-> n, exit |-> e, inLibrary |-> inLibrary,
                                      backup |-> Words(text, TargetOf[x], n)]]
    /\ enters' = enters \cup {x} /\ stuck' \in BOOLEAN
    /\ slots' = IF n = 1 /\ ~inLibrary THEN slots \cup {e} ELSE slots
    /\ s = IF n = 1 THEN RelativeJump(e, TargetOf[x]) ELSE AbsoluteJump(x)
    /\ n = ExitLen => e = 0 /\ ~inLibrary
    /\ n = 1 /\ ~inLibrary => e \in NearSlots
    /\ n = 1 /\ e # 0 =>
        /\ InReach(e, TargetOf[x])
        /\ e .. e + ExitLen - 1 \subseteq Addrs
        /\ \A b \in e .. e + ExitLen - 1 : b \notin LibraryWords
        /\ Words(k, e, ExitLen) = AbsoluteJump(x)
        /\ inLibrary => \E g \in GapsOf(TargetOf[x]) : InGap(e, g) /\ ~Uncleared(k, g)
    /\ \A b \in OwnWords : k[b].op = "low" =>
        k[b] = text[b] \/ (n = 1 /\ inLibrary /\ e # 0 /\ b = e + 2 /\ k[b].arg = x)

\* Only the hub of x left the state before it is live.
Enlivens(x) == \A h \in Insts : phase'[h] \in {"new", "made"} => h # x /\ phase[h] \in {"new", "made"}

\* A hook that was made is right, and leaves everything else right.
LEMMA HookMade ==
    ASSUME HInv, NEW x \in Insts, NEW k, NEW n, NEW s, NEW e, NEW inLibrary,
           Makes(x, k, n, s, e, inLibrary), Enlivens(x)
    PROVE  HInv'
<1> DEFINE pc == TargetOf[x]
           Here == pc .. pc + n - 1
           made == [len |-> n, exit |-> e, inLibrary |-> inLibrary, backup |-> Words(text, pc, n)]
<1> USE DEF Makes, Enlivens
<1>1. /\ pc \in Functions /\ pc \in Nat /\ SizeOf[pc] \in Nat /\ n \in Nat /\ n \in {1, 4}
      /\ ExitLen = 4
  BY TargetsApart, FunctionWords DEF ExitLen
<1>2. Here \subseteq pc .. pc + SizeOf[pc] - 1
  BY <1>1
<1>3. \A a \in Here : a \in Addrs /\ a \in LibraryWords /\ a \in OwnWords /\ text[a] = Library[a]
  BY <1>1, <1>2, FunctionWords, NotHooked
<1>4. /\ DOMAIN text' = Addrs
      /\ \A a \in Addrs : a \notin Here => text'[a] = k[a]
      /\ \A a \in Here : text'[a] = s[a - pc + 1]
  <2>1. DOMAIN k = Addrs /\ pc \in Int /\ Len(s) \in Nat /\ Here = pc .. pc + Len(s) - 1
    BY <1>1 DEF Harmless
  <2>2. PICK w : w = Written(k, pc, s)
    OBVIOUS
  <2>3. /\ DOMAIN w = Addrs
        /\ \A a \in Addrs : a \in Here => w[a] = s[a - pc + 1]
        /\ \A a \in Addrs : a \notin Here => w[a] = k[a]
    BY <2>1, <2>2 DEF Written
  <2>4. text' = w
    BY <2>2
  <2>5. \A a \in Here : a \in Addrs
    BY <1>3
  <2> QED BY <2>3, <2>4, <2>5
<1>5. /\ DOMAIN insts' = Insts /\ insts'[x] = made
      /\ \A y \in Insts : y # x => insts'[y] = insts[y]
  BY DEF HInv, InlineTypeOK
<1>6. InUse(x)' /\ \A y \in Insts : y # x => (InUse(y) <=> InUse(y)') /\ (SlotExit(y) <=> SlotExit(y)')
  BY <1>1, <1>5 DEF InUse, SlotExit
<1>7. slots \subseteq slots' /\ slots \subseteq NearSlots /\ slots' \subseteq NearSlots
  BY DEF HInv, InlineTypeOK
<1>8. Words(text, pc, n) = Words(Library, pc, n)
  <2>1. \A a \in pc .. pc + n - 1 : text[a] = Library[a]
    BY <1>3
  <2>2. pc \in Int /\ n \in Nat
    BY <1>1
  <2> QED BY <2>1, <2>2, SameWords
<1>9. InlineTypeOK'
  <2>1. ASSUME NEW y \in Insts
        PROVE  /\ insts'[y].len \in {0, 1, ExitLen}
               /\ insts'[y].exit \in {0} \cup Addrs
               /\ insts'[y].inLibrary \in BOOLEAN
               /\ Len(insts'[y].backup) = insts'[y].len
    <3>1. CASE y = x
      <4>1. made.len = n /\ made.exit = e /\ made.inLibrary = inLibrary /\ made.backup = Words(text, pc, n)
        OBVIOUS
      <4>2. Len(Words(text, pc, n)) = n
        BY <1>1 DEF Words
      <4> QED BY <1>5, <3>1, <4>1, <4>2
    <3>2. CASE y # x
      BY <1>5, <3>2 DEF HInv, InlineTypeOK
    <3> QED BY <3>1, <3>2
  <2>2. enters' \subseteq Insts
    BY DEF HInv, InlineTypeOK
  <2> QED BY <1>4, <1>5, <1>7, <2>1, <2>2 DEF InlineTypeOK
<1>10. ASSUME NEW y \in Insts, y # x, InUse(y)
       PROVE  HookRight(y)'
  <2>1. SlotExit(y) => insts[y].exit \in slots'
    BY <1>7 DEF HInv, NothingLeft
  <2>2. Len(s) \in Nat /\ Len(s) <= SizeOf[pc]
    BY <1>1
  <2> QED BY <1>5, <1>10, <2>1, <2>2, OtherHooksRight
<1>11. /\ insts'[x].len = n /\ insts'[x].exit = e /\ insts'[x].inLibrary = inLibrary
       /\ insts'[x].backup = Words(text, pc, n)
  BY <1>5
<1> HIDE DEF made
<1>12. ASSUME n = 1, e # 0
       PROVE  ExitRight(x)'
  <2>1. e \in Nat
    BY InlineAssumption DEF Addrs
  <2>2. \A b \in e .. e + ExitLen - 1 : text'[b] = k[b]
    BY <1>3, <1>4, <1>12
  <2>3. Words(text', e, ExitLen) = AbsoluteJump(x)
    <3>1. e \in Int /\ ExitLen \in Nat
      BY <1>1, <2>1
    <3>2. Words(text', e, ExitLen) = Words(k, e, ExitLen)
      BY <2>2, <3>1, SameWords
    <3>3. Words(k, e, ExitLen) = AbsoluteJump(x)
      BY <1>12
    <3> QED BY <3>2, <3>3
  <2>4. InReach(e, pc) /\ e .. e + ExitLen - 1 \subseteq Addrs
    BY <1>12
  <2>5. ASSUME inLibrary
        PROVE  \E g \in GapsOf(pc) : InGap(e, g) /\ ~Uncleared(text', g)
    <3>1. PICK g \in GapsOf(pc) : InGap(e, g) /\ ~Uncleared(k, g)
      BY <1>12, <2>5
    <3>2. g.start \in Int /\ g.start \in Addrs /\ g.start \notin LibraryWords
      BY <1>1, GapWords
    <3>3. text'[g.start] = k[g.start]
      BY <1>3, <1>4, <3>2
    <3> QED BY <3>1, <3>3 DEF Uncleared
  <2> QED BY <1>11, <2>3, <2>4, <2>5 DEF ExitRight, JumpsTo
<1>13. Words(text', pc, n) = s
  <2>1. ASSUME NEW i \in 1 .. n
        PROVE  text'[pc + i - 1] = s[i]
    <3>1. pc + i - 1 \in Here /\ (pc + i - 1) - pc + 1 = i
      BY <1>1
    <3> QED BY <1>4, <3>1
  <2> QED BY <2>1 DEF Words
<1>14. HookRight(x)'
  <2>1. Trampo(x)' = s
    BY <1>1, <1>11 DEF Trampo
  <2>2. SlotExit(x)' => insts'[x].exit \in slots'
    BY <1>11 DEF SlotExit
  <2>3. Exiting(x)' => ExitRight(x)'
    BY <1>11, <1>12 DEF Exiting
  <2> QED BY <1>8, <1>11, <1>13, <2>1, <2>2, <2>3 DEF HookRight
<1>15. HooksRight'
  <2>1. \A y \in Insts : InUse(y)' => phase'[y] \notin {"new", "made"}
    BY <1>6 DEF HInv, HooksRight
  <2>2. \A y \in Insts : InUse(y)' => HookRight(y)'
    BY <1>6, <1>10, <1>14
  <2> QED BY <2>1, <2>2 DEF HooksRight
<1>16. CodeKept'
  <2> SUFFICES ASSUME NEW a \in LibraryWords
               PROVE  text'[a] = Library[a] \/ \E y \in Insts : a - TargetOf[y] \in Replaced(y)'
    BY DEF CodeKept
  <2>1. a \in Addrs /\ a \in Int
    BY InlineAssumption DEF LibraryWords, Addrs
  <2>2. CASE a \in Here
    <3>1. a - pc \in 0 .. SizeOf[pc] - 1 /\ a - pc < n
      BY <1>1, <1>2, <2>1, <2>2
    <3> QED BY <1>11, <3>1 DEF Replaced
  <2>3. CASE a \notin Here
    <3>1. text'[a] = text[a]
      BY <1>4, <2>1, <2>3 DEF Harmless
    <3>2. ASSUME NEW y \in Insts, a - TargetOf[y] \in Replaced(y)
          PROVE  a - TargetOf[y] \in Replaced(y)'
      <4>1. y # x
        BY <3>2, UseLen
      <4> QED BY <1>5, <3>2, <4>1 DEF Replaced
    <3> QED BY <3>1, <3>2 DEF HInv, CodeKept
  <2> QED BY <2>2, <2>3
<1>17. AddressesOwned'
  <2> SUFFICES ASSUME NEW a \in OwnWords, text'[a].op = "low"
               PROVE  \E y \in Insts : InUse(y)' /\ text'[a].arg = y /\ a \in AddressAt(y)'
    BY DEF AddressesOwned
  <2>1. a \in Addrs /\ a \in Int
    BY InlineAssumption DEF OwnWords, Addrs
  <2>2. CASE a \in Here
    <3>1. n = ExitLen
      <4>1. ASSUME n = 1 PROVE FALSE
        <5>1. s[1].op = "b" /\ a - pc + 1 = 1
          BY <1>1, <2>2, <4>1 DEF RelativeJump, Word
        <5> QED BY <1>4, <2>2, <5>1
      <4> QED BY <4>1
    <3>2. Words(text', pc, ExitLen) = AbsoluteJump(x)
      BY <1>1, <1>13, <3>1
    <3>3. a = pc + 2 /\ text'[a] = Word("low", x)
      BY <1>1, <2>2, <3>1, <3>2, JumpRead
    <3>4. a \in AddressAt(x)'
      BY <1>11, <3>1, <3>3 DEF AddressAt
    <3>5. text'[a].arg = x
      BY <3>3 DEF Word
    <3>6. InUse(x)'
      BY <1>6
    <3> QED BY <3>4, <3>5, <3>6
  <2>3. CASE a \notin Here
    <3>1. text'[a] = k[a]
      BY <1>4, <2>1, <2>3
    <3>2. CASE k[a] = text[a]
      <4>1. PICK y \in Insts : InUse(y) /\ text[a].arg = y /\ a \in AddressAt(y)
        BY <3>1, <3>2 DEF HInv, AddressesOwned
      <4>2. y # x
        BY <4>1
      <4>3. AddressAt(y)' = AddressAt(y)
        BY <1>5, <4>2 DEF AddressAt, GapExit, Exiting
      <4> QED BY <1>6, <3>1, <3>2, <4>1, <4>2, <4>3
    <3>3. CASE n = 1 /\ inLibrary /\ e # 0 /\ a = e + 2 /\ k[a].arg = x
      <4>1. a \in AddressAt(x)'
        BY <1>1, <1>11, <3>3 DEF AddressAt, GapExit, Exiting
      <4> QED BY <1>6, <3>1, <3>3, <4>1
    <3> QED BY <3>1, <3>2, <3>3
  <2> QED BY <2>2, <2>3
<1>18. NothingLeft'
  <2>1. enters' = {y \in Insts : InUse(y)'}
    BY <1>6 DEF HInv, NothingLeft
  <2>2. \A y \in Insts : y # x /\ SlotExit(y) => insts'[y].exit = insts[y].exit
    BY <1>5
  <2>3. SlotExit(x)' <=> n = 1 /\ ~inLibrary
    BY <1>11 DEF SlotExit
  <2>4. ~SlotExit(x)
    BY UseLen
  <2>5. slots = {insts[y].exit : y \in {z \in Insts : SlotExit(z)}}
    BY DEF HInv, NothingLeft
  <2>6. slots' = {insts'[y].exit : y \in {z \in Insts : SlotExit(z)'}}
    <3>1. CASE n = 1 /\ ~inLibrary
      BY <1>6, <1>11, <2>2, <2>3, <2>4, <2>5, <3>1
    <3>2. CASE ~(n = 1 /\ ~inLibrary)
      BY <1>6, <1>11, <2>2, <2>3, <2>4, <2>5, <3>2
    <3> QED BY <3>1, <3>2
  <2> QED BY <2>1, <2>6 DEF NothingLeft
<1> QED BY <1>9, <1>15, <1>16, <1>17, <1>18 DEF HInv

\* sh_inst_hook_with_exit leaves the function hooked and everything else right.
LEMMA HookedWithExit ==
    ASSUME HInv, NEW x \in Insts, ~InUse(x), HookWithExit(x), Enlivens(x)
    PROVE  HInv'
<1> DEFINE pc == TargetOf[x]
<1>1. /\ pc \in Functions /\ SizeOf[pc] \in Nat /\ SizeOf[pc] >= 1
      /\ \E e \in ExitAlloc(pc, AbsoluteJump(x)) :
            /\ text' = Written(e.text, pc, RelativeJump(e.exit, pc))
            /\ slots' = IF e.inLibrary THEN slots ELSE slots \cup {e.exit}
            /\ stuck' = (stuck \/ e.lost)
            /\ insts' = [insts EXCEPT ![x] = HookOver(x, 1, e)]
      /\ enters' = enters \cup {x}
  BY TargetsApart, FunctionWords DEF HookWithExit, Fits
<1>2. PICK e \in ExitAlloc(pc, AbsoluteJump(x)) :
        /\ text' = Written(e.text, pc, RelativeJump(e.exit, pc))
        /\ slots' = IF e.inLibrary THEN slots ELSE slots \cup {e.exit}
        /\ stuck' = (stuck \/ e.lost)
        /\ insts' = [insts EXCEPT ![x] = HookOver(x, 1, e)]
  BY <1>1
<1>3. PICK m :
        /\ Harmless(m) /\ NoNewAddress(m)
        /\ e.inLibrary \in BOOLEAN /\ e.lost \in BOOLEAN
        /\ IF e.exit = 0 THEN e.inLibrary /\ e.text = m
           ELSE ~e.lost /\ e.text = Written(m, e.exit, AbsoluteJump(x)) /\ Free(e.exit, e.inLibrary, m, pc)
  BY <1>1, <1>2, Allocated
<1> DEFINE at == e.exit
           in == e.inLibrary
           k == e.text
           s == RelativeJump(at, pc)
<1>4. Len(s) = 1 /\ s = [i \in 1 .. 1 |-> s[i]]
  BY DEF RelativeJump
<1>5. /\ Harmless(k)
      /\ at \in {0} \cup Addrs
      /\ ~in => at \in NearSlots
      /\ at # 0 =>
            /\ InReach(at, pc)
            /\ at .. at + ExitLen - 1 \subseteq Addrs
            /\ \A b \in at .. at + ExitLen - 1 : b \notin LibraryWords
            /\ Words(k, at, ExitLen) = AbsoluteJump(x)
            /\ in => \E g \in GapsOf(pc) : InGap(at, g) /\ ~Uncleared(k, g)
      /\ \A b \in OwnWords : k[b].op = "low" =>
            k[b] = text[b] \/ (in /\ at # 0 /\ b = at + 2 /\ k[b].arg = x)
  <2>1. CASE at = 0
    BY <1>3, <2>1 DEF NoNewAddress
  <2>2. CASE at # 0
    <3>1. Free(at, in, m, pc) /\ k = Written(m, at, AbsoluteJump(x)) /\ in \in BOOLEAN
      BY <1>3, <2>2
    <3>2. PICK w : w = Written(m, at, AbsoluteJump(x))
      OBVIOUS
    <3>3. /\ Harmless(w)
          /\ at \in Nat /\ at .. at + ExitLen - 1 \subseteq Addrs
          /\ \A b \in at .. at + ExitLen - 1 : b \notin LibraryWords
          /\ Words(w, at, ExitLen) = AbsoluteJump(x)
          /\ in => \E g \in GapsOf(pc) : InGap(at, g) /\ ~Uncleared(w, g)
          /\ \A b \in OwnWords : w[b].op = "low" =>
                w[b] = text[b] \/ (in /\ b = at + 2 /\ w[b].arg = x)
      BY <1>1, <1>3, <3>1, <3>2, ExitWritten
    <3>4. k = w
      BY <3>1, <3>2
    <3>5. InReach(at, pc) /\ (~in => at \in NearSlots)
      BY <3>1 DEF Free
    <3>6. at \in Addrs
      BY <3>3 DEF ExitLen
    <3> QED BY <2>2, <3>3, <3>4, <3>5, <3>6
  <2> QED BY <2>1, <2>2
<1>6. /\ text' = Written(k, pc, s)
      /\ insts' = [insts EXCEPT ![x] = [len |-> 1, exit |-> at, inLibrary |-> in, backup |-> Words(text, pc, 1)]]
      /\ enters' = enters \cup {x} /\ stuck' \in BOOLEAN
      /\ slots' = IF 1 = 1 /\ ~in THEN slots \cup {at} ELSE slots
  BY <1>1, <1>2, <1>3 DEF HookOver, HInv, InlineTypeOK
<1>7. Makes(x, k, 1, s, at, in)
  <2>1. 1 \in {1, ExitLen} /\ 1 # ExitLen /\ in \in BOOLEAN
    BY <1>3 DEF ExitLen
  <2>2. s = IF 1 = 1 THEN RelativeJump(at, pc) ELSE AbsoluteJump(x)
    OBVIOUS
  <2> HIDE DEF s, at, in, k
  <2> QED BY <1>1, <1>4, <1>5, <1>6, <2>1, <2>2 DEF Makes
<1> QED BY <1>7, HookMade

\* sh_inst_hook_without_exit does too.
LEMMA HookedWithoutExit ==
    ASSUME HInv, NEW x \in Insts, ~InUse(x), HookWithoutExit(x), Enlivens(x)
    PROVE  HInv'
<1> DEFINE pc == TargetOf[x]
           jump == AbsoluteJump(x)
<1>1. /\ SizeOf[pc] >= ExitLen
      /\ \E k \in AfterFailure(x) : text' = Written(k, pc, jump)
      /\ insts' = [insts EXCEPT ![x] = HookOver(x, ExitLen, Found(0, FALSE, text, FALSE))]
      /\ enters' = enters \cup {x} /\ slots' = slots /\ stuck' = stuck
  BY DEF HookWithoutExit, Fits
<1>2. PICK k \in AfterFailure(x) : text' = Written(k, pc, jump)
  BY <1>1
<1>3. Harmless(k) /\ NoNewAddress(k)
  BY <1>2, FreedAgain
<1>4. SizeOf[pc] \in Nat /\ ExitLen \in Nat /\ ExitLen # 1 /\ stuck \in BOOLEAN
  BY TargetsApart, FunctionWords DEF ExitLen, HInv, InlineTypeOK
<1>5. Len(jump) = ExitLen /\ jump = [i \in 1 .. ExitLen |-> jump[i]]
  BY JumpWords
<1>6. insts' = [insts EXCEPT ![x] = [len |-> ExitLen, exit |-> 0, inLibrary |-> FALSE,
                                     backup |-> Words(text, pc, ExitLen)]]
  BY <1>1 DEF HookOver, Found
<1>7. Makes(x, k, ExitLen, jump, 0, FALSE)
  <2>1. jump = IF ExitLen = 1 THEN RelativeJump(0, pc) ELSE AbsoluteJump(x)
    BY <1>4
  <2> HIDE DEF jump
  <2> QED BY <1>1, <1>2, <1>3, <1>4, <1>5, <1>6, <2>1 DEF Makes, NoNewAddress
<1> QED BY <1>7, HookMade

\* Where memory was not touched but for gaps, what is hooked stays right.
LEMMA HookFailed ==
    ASSUME HInv, NEW k, Harmless(k), NoNewAddress(k), text' = k,
           insts' = insts, slots' = slots, enters' = enters, stuck' = stuck,
           \A h \in Insts : phase'[h] \in {"new", "made"} => phase[h] \in {"new", "made"}
    PROVE  HInv'
<1>1. \A y \in Insts : (InUse(y) <=> InUse(y)') /\ (SlotExit(y) <=> SlotExit(y)')
  BY DEF InUse, SlotExit
<1>2. ASSUME NEW y \in Insts, InUse(y)
      PROVE  HookRight(y)'
  <2>1. /\ TargetOf[y] \in Functions /\ TargetOf[y] \in Nat /\ SizeOf[TargetOf[y]] \in Nat
        /\ insts[y].len \in Nat /\ insts[y].len <= SizeOf[TargetOf[y]]
    BY <1>2, UseLen, TargetsApart, FunctionWords DEF HInv, HooksRight, HookRight, ExitLen
  <2>2. \A a \in TargetOf[y] .. TargetOf[y] + insts[y].len - 1 : text'[a] = text[a]
    <3> SUFFICES ASSUME NEW a \in TargetOf[y] .. TargetOf[y] + insts[y].len - 1
                 PROVE  text'[a] = text[a]
      OBVIOUS
    <3>1. a \in TargetOf[y] .. TargetOf[y] + SizeOf[TargetOf[y]] - 1
      BY <2>1
    <3>2. a \in LibraryWords
      BY <2>1, <3>1, FunctionWords
    <3> QED BY <3>2 DEF Harmless
  <2>3. Exiting(y) => \A a \in ExitWords(y) : text'[a] = text[a]
    BY DEF Harmless
  <2>4. \A g \in GapsOf(TargetOf[y]) : g.clear /\ text[g.start] = Flag => text'[g.start] = Flag
    BY <2>1 DEF Harmless
  <2>5. SlotExit(y) => insts[y].exit \in slots'
    BY DEF HInv, NothingLeft
  <2> QED BY <1>2, <2>2, <2>3, <2>4, <2>5, StillRight
<1>3. InlineTypeOK'
  BY DEF HInv, InlineTypeOK, Harmless
<1>4. HooksRight'
  <2>1. \A y \in Insts : InUse(y)' => phase'[y] \notin {"new", "made"}
    BY <1>1 DEF HInv, HooksRight
  <2> QED BY <1>1, <1>2, <2>1 DEF HooksRight
<1>5. CodeKept'
  BY DEF HInv, CodeKept, Harmless, Replaced
<1>6. AddressesOwned'
  BY DEF HInv, AddressesOwned, AddressAt, GapExit, Exiting, NoNewAddress, InUse
<1>7. NothingLeft'
  BY DEF HInv, NothingLeft, InUse, SlotExit
<1> QED BY <1>3, <1>4, <1>5, <1>6, <1>7 DEF HInv

\* Exits of different hooks share no word: they hold different addresses, and
\* both stand on slots, or both on multiples of their length.
LEMMA ExitsApart ==
    ASSUME HInv, NEW x \in Insts, NEW y \in Insts, x # y, Exiting(x), Exiting(y),
           NEW a \in ExitWords(x)
    PROVE  a \notin ExitWords(y)
<1> SUFFICES ASSUME a \in ExitWords(y) PROVE FALSE
  OBVIOUS
<1> DEFINE p == insts[x].exit
           q == insts[y].exit
<1>1. /\ p \in Nat /\ q \in Nat /\ ExitLen = 4
      /\ Words(text, p, ExitLen) = AbsoluteJump(x) /\ Words(text, q, ExitLen) = AbsoluteJump(y)
  BY ExitPlace DEF ExitLen
<1>2. a \in p .. p + 3 /\ a \in q .. q + 3
  BY <1>1 DEF ExitWords
<1>3. p # q
  <2>1. text[p + 2] = Word("low", x) /\ text[q + 2] = Word("low", y)
    BY <1>1, JumpRead
  <2>2. Word("low", x).arg = x /\ Word("low", y).arg = y
    BY DEF Word
  <2> QED BY <2>1, <2>2
<1>4. CASE ~insts[x].inLibrary /\ ~insts[y].inLibrary
  <2>1. p \in NearSlots /\ q \in NearSlots
    BY <1>4, ExitPlace
  <2>2. p < q => p + ExitLen <= q
    BY <2>1, SlotAssumption
  <2>3. q < p => q + ExitLen <= p
    BY <2>1, SlotAssumption
  <2> HIDE DEF p, q
  <2> QED BY <1>1, <1>2, <1>3, <2>2, <2>3
<1>5. ASSUME NEW v \in Insts, NEW w \in Insts, Exiting(v), Exiting(w),
             insts[v].inLibrary, ~insts[w].inLibrary,
             a \in ExitWords(v), a \in ExitWords(w)
      PROVE  FALSE
  <2>1. PICK g \in GapsOf(TargetOf[v]) : g.start <= a /\ a < g.end
    BY <1>5, ExitPlace
  <2>2. insts[w].exit \in NearSlots
    BY <1>5, ExitPlace
  <2>3. a \in Int
    BY <1>5, ExitOutside
  <2> QED BY <1>5, <2>1, <2>2, <2>3, GapWords, TargetsApart DEF ExitWords
<1>6. CASE insts[x].inLibrary /\ insts[y].inLibrary
  <2>1. p % 4 = 0 /\ q % 4 = 0
    BY <1>1, <1>6, ExitPlace DEF ExitRight, InGap
  <2> HIDE DEF p, q
  <2> QED BY <1>1, <1>2, <1>3, <2>1
<1>7. insts[x].inLibrary \in BOOLEAN /\ insts[y].inLibrary \in BOOLEAN
  BY DEF HInv, InlineTypeOK
<1> QED BY <1>4, <1>5, <1>6, <1>7

\* What sh_inst_unhook does to memory: the code is back, and a gap's exit zero.
LEMMA UnhookedText ==
    ASSUME HInv, NEW x \in Insts, Unhook(x)
    PROVE  /\ InUse(x) /\ HookRight(x)
           /\ DOMAIN text' = Addrs
           /\ \A a \in TargetOf[x] .. TargetOf[x] + insts[x].len - 1 : text'[a] = Library[a]
           /\ GapExit(x) => \A a \in ExitWords(x) : text'[a] = Zero
           /\ \A a \in Addrs :
                \/ a \in TargetOf[x] .. TargetOf[x] + insts[x].len - 1
                \/ GapExit(x) /\ a \in ExitWords(x)
                \/ text'[a] = text[a]
           /\ enters' = enters \ {x}
<1> DEFINE pc == TargetOf[x]
           i == insts[x]
           Here == pc .. pc + i.len - 1
<1>1. /\ InUse(x) /\ HookRight(x)
      /\ pc \in Functions /\ pc \in Nat /\ SizeOf[pc] \in Nat /\ i.len \in Nat /\ i.len <= SizeOf[pc]
      /\ i.inLibrary \in BOOLEAN
  BY TargetsApart, FunctionWords, UseLen DEF Unhook, HInv, InlineTypeOK, HooksRight, HookRight, ExitLen
<1>2. i.inLibrary /\ i.exit # 0 <=> GapExit(x)
  BY <1>1 DEF HookRight, GapExit, Exiting
<1>3. GapExit(x) => Words(text, i.exit, ExitLen) = AbsoluteJump(x)
  BY ExitPlace DEF GapExit
<1>4. /\ text' = IF GapExit(x) THEN Written(Restored(x), i.exit, Zeros) ELSE Restored(x)
      /\ enters' = enters \ {x}
  BY <1>2, <1>3 DEF Unhook
<1>5. Here \subseteq pc .. pc + SizeOf[pc] - 1
  BY <1>1
<1>6. \A a \in Here : a \in Addrs /\ a \in LibraryWords
  BY <1>1, <1>5, FunctionWords
<1>7. i.backup = Words(Library, pc, i.len) /\ Len(i.backup) = i.len
  BY <1>1 DEF HookRight, HInv, InlineTypeOK
<1>8. PICK w : w = Restored(x)
  OBVIOUS
<1>9. /\ DOMAIN w = Addrs
      /\ \A a \in Here : w[a] = Library[a]
      /\ \A a \in Addrs : a \notin Here => w[a] = text[a]
  <2>1. w = [a \in Addrs |-> IF a \in Here THEN i.backup[a - pc + 1] ELSE text[a]]
    BY <1>7, <1>8 DEF Restored, Written, HInv, InlineTypeOK
  <2>2. ASSUME NEW a \in Here
        PROVE  w[a] = Library[a]
    <3>1. a - pc + 1 \in 1 .. i.len /\ pc + (a - pc + 1) - 1 = a
      BY <1>1
    <3>2. i.backup[a - pc + 1] = Library[pc + (a - pc + 1) - 1]
      BY <1>7, <3>1 DEF Words
    <3> QED BY <1>6, <2>1, <3>1, <3>2
  <2> QED BY <2>1, <2>2
<1>10. CASE ~GapExit(x)
  BY <1>1, <1>4, <1>6, <1>8, <1>9, <1>10
<1>11. CASE GapExit(x)
  <2>1. /\ text' = [a \in Addrs |-> IF a \in i.exit .. i.exit + Len(Zeros) - 1 THEN Zeros[a - i.exit + 1] ELSE w[a]]
        /\ Len(Zeros) = ExitLen
    BY <1>4, <1>8, <1>9, <1>11 DEF Written, Zeros, ExitLen
  <2>2. i.exit \in Nat /\ ExitWords(x) = i.exit .. i.exit + Len(Zeros) - 1
    BY <1>11, <2>1, ExitPlace DEF GapExit, ExitWords
  <2>3. ASSUME NEW a \in ExitWords(x)
        PROVE  a \in Addrs /\ a \notin Here /\ text'[a] = Zero
    <3>1. a \in Addrs /\ a \notin Here
      BY <1>6, <1>11, ExitOutside DEF GapExit
    <3>2. a - i.exit + 1 \in 1 .. ExitLen
      BY <2>1, <2>2 DEF ExitLen
    <3>3. Zeros[a - i.exit + 1] = Zero
      BY <3>2 DEF Zeros
    <3> QED BY <2>1, <2>2, <3>1, <3>3
  <2>4. \A a \in Addrs : a \notin ExitWords(x) => text'[a] = w[a]
    BY <2>1, <2>2
  <2>5. \A a \in Here : text'[a] = Library[a]
    BY <1>6, <1>9, <2>3, <2>4
  <2> QED BY <1>1, <1>4, <1>9, <1>11, <2>1, <2>3, <2>4, <2>5
<1> QED BY <1>10, <1>11

\* sh_inst_unhook leaves the other hooks right, and nothing of its own.
LEMMA Unhooked ==
    ASSUME HInv, NEW x \in Insts, Unhook(x),
           \A h \in Insts : phase'[h] \in {"new", "made"} => phase[h] \in {"new", "made"}
    PROVE  HInv'
<1> DEFINE pc == TargetOf[x]
           i == insts[x]
           Here == pc .. pc + i.len - 1
           Cut == IF GapExit(x) THEN ExitWords(x) ELSE {}
<1>1. /\ InUse(x) /\ HookRight(x)
      /\ pc \in Functions /\ pc \in Nat /\ SizeOf[pc] \in Nat /\ i.len \in Nat /\ i.len <= SizeOf[pc]
      /\ ExitLen = 4
  BY UnhookedText, TargetsApart, FunctionWords, UseLen DEF HookRight, ExitLen
<1>2. /\ DOMAIN text' = Addrs
      /\ \A a \in Here : text'[a] = Library[a]
      /\ \A a \in Cut : text'[a] = Zero
      /\ \A a \in Addrs : a \in Here \/ a \in Cut \/ text'[a] = text[a]
      /\ enters' = enters \ {x}
  BY UnhookedText
<1>3. /\ insts' = [insts EXCEPT ![x] = Unused] /\ stuck' = stuck
      /\ slots' = IF i.inLibrary THEN slots ELSE slots \ {i.exit}
  BY DEF Unhook
<1>4. /\ DOMAIN insts' = Insts /\ insts'[x] = Unused
      /\ \A y \in Insts : y # x => insts'[y] = insts[y]
  BY <1>3 DEF HInv, InlineTypeOK
<1>5. /\ insts'[x].len = 0 /\ insts'[x].exit = 0 /\ insts'[x].inLibrary = FALSE /\ Len(insts'[x].backup) = 0
      /\ ~InUse(x)' /\ ~SlotExit(x)'
  BY <1>4 DEF Unused, InUse, SlotExit
<1>6. \A y \in Insts : y # x => (InUse(y) <=> InUse(y)') /\ (SlotExit(y) <=> SlotExit(y)')
  BY <1>4 DEF InUse, SlotExit
<1>7. \A a \in Here : a \in Addrs /\ a \in LibraryWords
  <2>1. Here \subseteq pc .. pc + SizeOf[pc] - 1
    BY <1>1
  <2> QED BY <1>1, <2>1, FunctionWords
<1>8. \A a \in Cut : a \in Addrs /\ a \notin LibraryWords /\ text[a] # Flag
  <2> SUFFICES ASSUME NEW a \in ExitWords(x), GapExit(x)
               PROVE  a \in Addrs /\ a \notin LibraryWords /\ text[a] # Flag
    OBVIOUS
  <2>1. Exiting(x) /\ i.exit \in Int /\ Words(text, i.exit, ExitLen) = AbsoluteJump(x)
    BY ExitPlace DEF GapExit
  <2>2. text[a] # Flag
    BY <2>1, JumpRead DEF ExitWords
  <2> QED BY <2>1, <2>2, ExitOutside
<1>9. ASSUME NEW y \in Insts, y # x, SlotExit(y)
      PROVE  insts[y].exit \in slots'
  <2>1. insts[y].exit \in slots /\ slots \subseteq NearSlots
    BY <1>9 DEF HInv, NothingLeft, InlineTypeOK
  <2>2. CASE i.inLibrary
    BY <1>3, <2>1, <2>2
  <2>3. CASE ~i.inLibrary
    <3>1. insts[y].exit # i.exit
      <4>1. insts[y].exit # 0
        BY <2>1, SlotWords
      <4>2. ASSUME insts[y].exit = i.exit
            PROVE  FALSE
        <5>1. i.len = 1
          BY <1>1, <4>1, <4>2 DEF HookRight
        <5>2. Exiting(x) /\ Exiting(y)
          BY <1>9, <4>1, <4>2, <5>1 DEF Exiting, SlotExit
        <5>3. i.exit \in Nat
          BY <5>2, ExitPlace
        <5>4. i.exit \in ExitWords(x) /\ i.exit \in ExitWords(y)
          BY <4>2, <5>3 DEF ExitWords, ExitLen
        <5> QED BY <1>9, <5>2, <5>4, ExitsApart
      <4> QED BY <4>2
    <3> QED BY <1>3, <2>1, <2>3, <3>1
  <2> QED BY <2>2, <2>3
<1>10. ASSUME NEW y \in Insts, y # x, InUse(y)
       PROVE  HookRight(y)'
  <2>1. /\ TargetOf[y] \in Functions /\ TargetOf[y] \in Nat /\ SizeOf[TargetOf[y]] \in Nat
        /\ insts[y].len \in Nat /\ insts[y].len <= SizeOf[TargetOf[y]] /\ TargetOf[y] # pc
    BY <1>10, UseLen, TargetsApart, FunctionWords DEF HInv, HooksRight, HookRight, ExitLen
  <2>2. ASSUME NEW a \in TargetOf[y] .. TargetOf[y] + insts[y].len - 1
        PROVE  text'[a] = text[a]
    <3>1. a \in TargetOf[y] .. TargetOf[y] + SizeOf[TargetOf[y]] - 1
      BY <2>1
    <3>2. a \notin Here
      <4>1. a \notin pc .. pc + SizeOf[pc] - 1
        BY <1>1, <2>1, <3>1, FunctionsApart
      <4> QED BY <1>1, <4>1
    <3>3. a \in Addrs /\ a \in LibraryWords
      BY <2>1, <3>1, FunctionWords
    <3> QED BY <1>2, <1>8, <3>2, <3>3
  <2>3. ASSUME Exiting(y), NEW a \in ExitWords(y)
        PROVE  text'[a] = text[a]
    <3>1. a \in Addrs /\ a \notin LibraryWords
      BY <2>3, ExitOutside
    <3>2. a \notin Cut
      <4>1. GapExit(x) => a \notin ExitWords(x)
        BY <1>10, <2>3, ExitsApart DEF GapExit
      <4> QED BY <4>1
    <3> QED BY <1>2, <1>7, <3>1, <3>2
  <2>4. ASSUME NEW g \in GapsOf(TargetOf[y]), g.clear, text[g.start] = Flag
        PROVE  text'[g.start] = Flag
    <3>1. g.start \in Int /\ g.start \in Addrs /\ g.start \notin LibraryWords
      BY <2>1, GapWords
    <3> QED BY <1>2, <1>7, <1>8, <2>4, <3>1
  <2>5. SlotExit(y) => insts[y].exit \in slots'
    BY <1>9, <1>10
  <2>6. insts'[y] = insts[y]
    BY <1>4, <1>10
  <2> QED BY <1>10, <2>2, <2>3, <2>4, <2>5, <2>6, StillRight
<1>11. InlineTypeOK'
  <2>1. ASSUME NEW y \in Insts
        PROVE  /\ insts'[y].len \in {0, 1, ExitLen}
               /\ insts'[y].exit \in {0} \cup Addrs
               /\ insts'[y].inLibrary \in BOOLEAN
               /\ Len(insts'[y].backup) = insts'[y].len
    <3>1. CASE y = x
      BY <1>5, <3>1
    <3>2. CASE y # x
      BY <1>4, <3>2 DEF HInv, InlineTypeOK
    <3> QED BY <3>1, <3>2
  <2>2. enters' \subseteq Insts /\ slots' \subseteq NearSlots /\ stuck' \in BOOLEAN
    BY <1>2, <1>3 DEF HInv, InlineTypeOK
  <2> QED BY <1>2, <1>4, <2>1, <2>2 DEF InlineTypeOK
<1>12. HooksRight'
  <2>1. \A y \in Insts : InUse(y)' => y # x /\ InUse(y)
    BY <1>5, <1>6
  <2>2. \A y \in Insts : InUse(y)' => phase'[y] \notin {"new", "made"}
    BY <2>1 DEF HInv, HooksRight
  <2> QED BY <1>10, <2>1, <2>2 DEF HooksRight
<1>13. CodeKept'
  <2> SUFFICES ASSUME NEW a \in LibraryWords
               PROVE  text'[a] = Library[a] \/ \E y \in Insts : a - TargetOf[y] \in Replaced(y)'
    BY DEF CodeKept
  <2>1. a \in Addrs /\ a \in Int
    BY InlineAssumption DEF LibraryWords, Addrs
  <2>2. CASE a \in Here
    BY <1>2, <2>2
  <2>3. CASE a \notin Here
    <3>1. text'[a] = text[a]
      BY <1>2, <1>8, <2>1, <2>3
    <3>2. ASSUME NEW y \in Insts, a - TargetOf[y] \in Replaced(y)
          PROVE  a - TargetOf[y] \in Replaced(y)'
      <4>1. ASSUME y = x PROVE FALSE
        <5>1. a - pc \in 0 .. SizeOf[pc] - 1 /\ a - pc < i.len
          BY <3>2, <4>1 DEF Replaced
        <5> QED BY <1>1, <2>1, <2>3, <5>1
      <4> QED BY <1>4, <3>2, <4>1 DEF Replaced
    <3> QED BY <3>1, <3>2 DEF HInv, CodeKept
  <2> QED BY <2>2, <2>3
<1>14. AddressesOwned'
  <2> SUFFICES ASSUME NEW a \in OwnWords, text'[a].op = "low"
               PROVE  \E y \in Insts : InUse(y)' /\ text'[a].arg = y /\ a \in AddressAt(y)'
    BY DEF AddressesOwned
  <2>1. a \in Addrs /\ a \in Int
    BY InlineAssumption DEF OwnWords, Addrs
  <2>2. a \notin Here
    BY <1>2, <2>1, FunctionAssumption DEF Addrs
  <2>3. a \notin Cut
    BY <1>2 DEF Zero, Word
  <2>4. text'[a] = text[a]
    BY <1>2, <2>1, <2>2, <2>3
  <2>5. PICK y \in Insts : InUse(y) /\ text[a].arg = y /\ a \in AddressAt(y)
    BY <2>4 DEF HInv, AddressesOwned
  <2>6. ASSUME y = x PROVE FALSE
    <3>1. CASE i.len = ExitLen
      <4>1. a = pc + 2
        BY <2>5, <2>6, <3>1 DEF AddressAt
      <4> QED BY <1>1, <2>2, <3>1, <4>1
    <3>2. CASE i.len # ExitLen
      <4>1. GapExit(x) /\ a = i.exit + 2
        BY <2>5, <2>6, <3>2 DEF AddressAt
      <4>2. i.exit \in Nat
        BY <4>1, ExitPlace DEF GapExit
      <4>3. a \in ExitWords(x)
        BY <1>1, <4>1, <4>2 DEF ExitWords
      <4> QED BY <2>3, <4>1, <4>3
    <3> QED BY <3>1, <3>2
  <2>7. AddressAt(y)' = AddressAt(y)
    BY <1>4, <2>6 DEF AddressAt, GapExit, Exiting
  <2>8. InUse(y)'
    BY <1>6, <2>5, <2>6
  <2> QED BY <2>4, <2>5, <2>7, <2>8
<1>15. NothingLeft'
  <2>1. enters' = {y \in Insts : InUse(y)'}
    BY <1>2, <1>5, <1>6 DEF HInv, NothingLeft
  <2>2. slots' = {insts'[y].exit : y \in {z \in Insts : SlotExit(z)'}}
    <3>1. slots = {insts[y].exit : y \in {z \in Insts : SlotExit(z)}}
      BY DEF HInv, NothingLeft
    <3>2. \A y \in Insts : y # x => insts'[y].exit = insts[y].exit
      BY <1>4
    <3>3. ASSUME NEW b \in slots'
          PROVE  \E y \in Insts : SlotExit(y)' /\ b = insts'[y].exit
      <4>1. b \in slots /\ (b = i.exit => i.inLibrary)
        BY <1>3, <3>3
      <4>2. PICK y \in Insts : SlotExit(y) /\ b = insts[y].exit
        BY <3>1, <4>1
      <4>3. y # x
        BY <4>1, <4>2 DEF SlotExit
      <4> QED BY <1>6, <3>2, <4>2, <4>3
    <3>4. ASSUME NEW y \in Insts, SlotExit(y)'
          PROVE  insts'[y].exit \in slots'
      <4>1. y # x
        BY <1>5, <3>4
      <4>2. SlotExit(y)
        BY <1>6, <3>4, <4>1
      <4> QED BY <1>9, <3>2, <4>1, <4>2
    <3> QED BY <3>3, <3>4
  <2> QED BY <2>1, <2>2 DEF NothingLeft
<1> QED BY <1>11, <1>12, <1>13, <1>14, <1>15 DEF HInv

\* No hub goes back to where it was before it was hooked.
LEMMA NoneRevived ==
    ASSUME TypeOK, [Next]_vars
    PROVE  \A h \in Hubs : phase'[h] \in {"new", "made"} => phase[h] \in {"new", "made"}
<1>1. DOMAIN phase = Hubs
  BY DEF TypeOK
<1>2. CASE Tick \/ UNCHANGED vars
  BY <1>2 DEF Tick, vars, hubVars
<1>3. ASSUME NEW h \in Hubs,
             \/ Create(h) \/ Hooked(h) \/ BeginDestroy(h) \/ Sweep(h) \/ Retire(h)
             \/ \E f \in Funcs : AddProxy(h, f) \/ DeleteProxy(h, f)
      PROVE  \A g \in Hubs : phase'[g] \in {"new", "made"} => phase[g] \in {"new", "made"}
  <2>1. CASE Create(h)
    BY <1>1, <2>1 DEF Create
  <2>2. CASE Hooked(h) \/ BeginDestroy(h)
    BY <1>1, <2>2 DEF Hooked, BeginDestroy
  <2>3. CASE Sweep(h)
    BY <2>3 DEF Sweep, PhaseSwept
  <2>4. CASE Retire(h)
    BY <1>1, <2>4 DEF Retire
  <2>5. CASE \E f \in Funcs : AddProxy(h, f)
    BY <2>5 DEF AddProxy
  <2>6. CASE \E f \in Funcs : DeleteProxy(h, f)
    BY <1>1, <2>6 DEF DeleteProxy, PhaseAfter
  <2> QED BY <1>3, <2>1, <2>2, <2>3, <2>4, <2>5, <2>6
<1>4. ASSUME NEW t \in Threads, Step(t) \/ ThreadExit(t) \/ \E h \in Hubs : CallHub(t, h)
      PROVE  phase' = phase
  BY <1>4 DEF Step, ThreadExit, CallHub, PushStack, PushWalk, PushFrame, AllowReentrant,
              DisallowReentrant, GetPrev, PrevWalk, ProxyReturn, OrigReturn, hubVars
<1> QED BY <1>2, <1>3, <1>4 DEF Next

\* Before anything is hooked.
LEMMA InlineStart ==
    ASSUME InlineInit
    PROVE  HInv
<1>1. \A x \in Insts : ~InUse(x) /\ ~SlotExit(x) /\ insts[x] = Unused
  BY DEF InlineInit, InUse, SlotExit, Unused
<1>2. InlineTypeOK
  BY DEF InlineInit, InlineTypeOK, Unused, Addrs
<1>3. HooksRight
  BY <1>1 DEF HooksRight
<1>4. CodeKept
  BY DEF InlineInit, CodeKept
<1>5. AddressesOwned
  BY FunctionAssumption DEF InlineInit, AddressesOwned, OwnWords, Addrs
<1>6. NothingLeft
  BY <1>1 DEF InlineInit, NothingLeft
<1> QED BY <1>2, <1>3, <1>4, <1>5, <1>6 DEF HInv

\* What leaves the inline hooks alone keeps them right.
LEMMA InlineLeft ==
    ASSUME HInv, UNCHANGED inlineVars,
           \A h \in Insts : phase'[h] \in {"new", "made"} => phase[h] \in {"new", "made"}
    PROVE  HInv'
<1>1. text' = text /\ slots' = slots /\ insts' = insts /\ enters' = enters /\ stuck' = stuck
  BY DEF inlineVars
<1>2. Harmless(text) /\ NoNewAddress(text)
  BY DEF Harmless, NoNewAddress, HInv, InlineTypeOK
<1> QED BY <1>1, <1>2, HookFailed

\* Every step leaves what is hooked right.
LEMMA InlineStep ==
    ASSUME HInv, TypeOK, [SharedNext]_sharedVars
    PROVE  HInv'
<1>1. Insts = Hubs
  BY SharedAssumption
<1>2. [Next]_vars
  BY SharedStep DEF sharedVars
<1>3. \A h \in Insts : phase'[h] \in {"new", "made"} => phase[h] \in {"new", "made"}
  BY <1>1, <1>2, NoneRevived
<1>4. ASSUME NEW h \in Hubs, SharedHooked(h)
      PROVE  HInv'
  <2>1. phase[h] = "made" /\ phase' = [phase EXCEPT ![h] = "live"] /\ DOMAIN phase = Hubs
    BY <1>4 DEF SharedHooked, Hooked, TypeOK
  <2>2. ~InUse(h) /\ Enlivens(h)
    BY <1>1, <1>3, <1>4, <2>1 DEF HInv, HooksRight, Enlivens
  <2> QED BY <1>1, <1>4, <2>2, HookedWithExit, HookedWithoutExit DEF SharedHooked
<1>5. ASSUME NEW h \in Hubs, SharedHookFails(h)
      PROVE  HInv'
  <2>1. HookFails(h)
    BY <1>5 DEF SharedHookFails
  <2>2. slots' = slots /\ insts' = insts /\ enters' = enters /\ stuck' = stuck
    BY <2>1 DEF HookFails
  <2>3. CASE text' = text
    BY <1>3, <2>2, <2>3, InlineLeft DEF inlineVars
  <2>4. CASE text' \in AfterFailure(h)
    <3>1. PICK k \in AfterFailure(h) : text' = k
      BY <2>4
    <3>2. Harmless(k) /\ NoNewAddress(k)
      BY <1>1, <3>1, FreedAgain
    <3> QED BY <1>3, <2>2, <3>1, <3>2, HookFailed
  <2> QED BY <2>1, <2>3, <2>4 DEF HookFails
<1>6. ASSUME NEW h \in Hubs, SharedUnhook(h)
      PROVE  HInv'
  BY <1>1, <1>3, <1>6, Unhooked DEF SharedUnhook
<1>7. CASE UNCHANGED inlineVars
  BY <1>3, <1>7, InlineLeft
<1> QED BY <1>4, <1>5, <1>6, <1>7 DEF SharedNext, sharedVars

\* Together the named parts are an invariant of the composition.
THEOREM InlineInvariant == SharedSpec => []HInv
<1>1. SharedInit => HInv
  BY InlineStart DEF SharedInit
<1>2. HInv /\ TypeOK /\ [SharedNext]_sharedVars => HInv'
  BY InlineStep
<1>3. SharedSpec => []TypeOK
  BY Composed, HubTypes, PTL
<1> QED BY <1>1, <1>2, <1>3, PTL DEF SharedSpec

\* The variables of both sides have their types, and no stack of a thread
\* overruns its array of frames.
THEOREM SharedTypes == SharedSpec => []SharedTypeOK
<1>1. HInv /\ TypeOK => SharedTypeOK
  BY DEF HInv, SharedTypeOK
<1>2. SharedSpec => []TypeOK
  BY Composed, HubTypes, PTL
<1> QED BY <1>1, <1>2, InlineInvariant, PTL

\* A hooked function leads to the trampoline of its hub as long as it is hooked,
\* over an exit that nothing hooked or unhooked meanwhile has touched.
THEOREM AlwaysReachesHub == SharedSpec => []ReachesHub
<1>1. ASSUME HInv PROVE ReachesHub
  <2> SUFFICES ASSUME NEW x \in Insts, InUse(x), insts[x].len = 1 => insts[x].exit # 0
               PROVE  LeadsTo(TargetOf[x], x)
    BY DEF ReachesHub
  <2>1. HookRight(x) /\ TargetOf[x] \in Nat
    BY <1>1, TargetsApart, FunctionWords DEF HInv, HooksRight
  <2>2. CASE insts[x].len = 1
    <3>1. Exiting(x) /\ ExitRight(x) /\ insts[x].exit \in Nat
      BY <1>1, <2>2, ExitPlace DEF Exiting
    <3>2. PICK w : w = RelativeJump(insts[x].exit, TargetOf[x])
      OBVIOUS
    <3>3. Words(text, TargetOf[x], 1)[1] = w[1]
      BY <2>1, <2>2, <3>2 DEF HookRight, Trampo
    <3>4. Words(text, TargetOf[x], 1)[1] = text[TargetOf[x]]
      BY <2>1 DEF Words
    <3>5. w[1].op = "b"
      BY <3>2 DEF RelativeJump, Word
    <3>6. TargetOf[x] + Distance(w[1]) = insts[x].exit
      BY <2>1, <3>1, <3>2, BranchLands DEF ExitRight
    <3>7. JumpsTo(insts[x].exit, x)
      BY <3>1 DEF ExitRight
    <3> QED BY <3>3, <3>4, <3>5, <3>6, <3>7 DEF LeadsTo
  <2>3. CASE insts[x].len # 1
    <3>1. insts[x].len = ExitLen /\ ExitLen # 1 /\ ExitLen \in Nat /\ ExitLen <= SizeOf[TargetOf[x]]
      BY <2>1, <2>3 DEF HookRight, ExitLen
    <3>2. Words(text, TargetOf[x], ExitLen) = AbsoluteJump(x)
      BY <2>1, <3>1 DEF HookRight, Trampo
    <3>3. TargetOf[x] .. TargetOf[x] + ExitLen - 1 \subseteq Addrs
      <4>1. \A a \in TargetOf[x] .. TargetOf[x] + SizeOf[TargetOf[x]] - 1 : a \in Addrs
        BY TargetsApart, FunctionWords
      <4>2. SizeOf[TargetOf[x]] \in Nat
        BY TargetsApart, FunctionWords
      <4> QED BY <2>1, <3>1, <4>1, <4>2
    <3> QED BY <3>2, <3>3 DEF LeadsTo, JumpsTo
  <2> QED BY <2>2, <2>3
<1> QED BY <1>1, InlineInvariant, PTL

\* What was moved to the enter is the code of the library, what the enter jumps
\* back to stands there, and the enter exists.
THEOREM OrigAlwaysWorks == SharedSpec => []OrigWorks
<1>1. ASSUME HInv PROVE OrigWorks
  <2> SUFFICES ASSUME NEW x \in Insts, InUse(x)
               PROVE  /\ insts[x].backup = [i \in 1 .. insts[x].len |-> Original(TargetOf[x] + i - 1)]
                      /\ \A a \in TargetOf[x] + insts[x].len .. TargetOf[x] + SizeOf[TargetOf[x]] - 1 :
                            text[a] = Library[a]
                      /\ x \in enters
    BY DEF OrigWorks
  <2>1. /\ HookRight(x) /\ TargetOf[x] \in Functions /\ TargetOf[x] \in Nat
        /\ SizeOf[TargetOf[x]] \in Nat /\ insts[x].len \in Nat /\ insts[x].len <= SizeOf[TargetOf[x]]
    BY <1>1, UseLen, TargetsApart, FunctionWords DEF HInv, HooksRight, HookRight, ExitLen
  <2>2. insts[x].backup = [i \in 1 .. insts[x].len |-> Library[TargetOf[x] + i - 1]]
    BY <2>1 DEF HookRight, Words
  <2>3. ASSUME NEW i \in 1 .. insts[x].len
        PROVE  Library[TargetOf[x] + i - 1] = Original(TargetOf[x] + i - 1)
    <3>1. TargetOf[x] + i - 1 \in TargetOf[x] .. TargetOf[x] + SizeOf[TargetOf[x]] - 1
      BY <2>1
    <3> QED BY <2>1, <3>1, FunctionWords
  <2>4. ASSUME NEW a \in TargetOf[x] + insts[x].len .. TargetOf[x] + SizeOf[TargetOf[x]] - 1
        PROVE  text[a] = Library[a]
    <3>1. a \in TargetOf[x] .. TargetOf[x] + SizeOf[TargetOf[x]] - 1 /\ a >= TargetOf[x] + insts[x].len
      BY <2>1
    <3> QED BY <1>1, <3>1, NotHooked
  <2>5. x \in enters
    BY <1>1 DEF HInv, NothingLeft
  <2> QED BY <2>2, <2>3, <2>4, <2>5
<1> QED BY <1>1, InlineInvariant, PTL

\* Nothing of the library but what is hooked is changed, and a hook that failed or
\* was undone leaves neither exit nor enter.
THEOREM LibraryAlwaysKept == SharedSpec => []LibraryKept
<1>1. ASSUME HInv PROVE LibraryKept
  <2>1. \A a \in OwnWords : text[a].op = "low" => InUse(text[a].arg)
    BY <1>1 DEF HInv, AddressesOwned
  <2>2. {x \in Insts : SlotExit(x)} = {y \in Insts : insts[y].len = 1 /\ ~insts[y].inLibrary}
    BY DEF SlotExit
  <2> QED BY <1>1, <2>1, <2>2 DEF LibraryKept, HInv, CodeKept, NothingLeft
<1> QED BY <1>1, InlineInvariant, PTL

=============================================================================
