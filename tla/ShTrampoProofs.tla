-------------------------- MODULE ShTrampoProofs --------------------------
(***************************************************************************)
(* Proofs about ShTrampo, for every page and slot size and every pattern of  *)
(* requests: the slots handed out never overlap, they are in reach of those  *)
(* who asked, the flags match them, and an accepted page has a slot in reach. *)
(***************************************************************************)
EXTENDS ShTrampo, WellFoundedInduction, SequenceTheorems, TLAPS

USE SizeAssumption DEF Request

(***************************************************************************)
(* Arithmetic of slots                                                       *)
(***************************************************************************)
LEMMA MinExists ==
    ASSUME NEW S \in SUBSET Nat, S # {}
    PROVE  MinOf(S) \in S /\ \A j \in S : MinOf(S) <= j
<1>1. PICK x \in S : \A y \in S : ~(<<y, x>> \in OpToRel(<, Nat))
  BY WFMin, NatLessThanWellFounded
<1>2. \A y \in S : x \in Nat /\ y \in Nat
  OBVIOUS
<1>3. \A y \in S : ~(y < x)
  BY <1>1, <1>2 DEF OpToRel
<1>4. \A y \in S : x <= y
  BY <1>2, <1>3
<1> QED BY <1>4 DEF MinOf

\* Products by Size grow with the other factor.
LEMMA TimesGrows ==
    ASSUME NEW i \in Nat, NEW j \in Nat, i < j
    PROVE  /\ Size * i \in Nat
           /\ Size * j \in Nat
           /\ Size * i + Size <= Size * j
<1>1. Size * i \in Nat /\ Size * j \in Nat
  OBVIOUS
<1>2. PICK d \in Nat : j = i + 1 + d
  <2>1. j - i - 1 \in Nat /\ j = i + 1 + (j - i - 1)
    OBVIOUS
  <2> QED BY <2>1
<1>3. Size * j = Size * i + Size + Size * d
  BY <1>2
<1>4. Size * d \in Nat
  BY <1>2
<1> QED BY <1>1, <1>3, <1>4

\* A slot lies inside its page.
LEMMA SlotInside ==
    ASSUME NEW p \in PageAddrs, NEW i \in Slot
    PROVE  /\ p \in Nat /\ i \in Nat
           /\ Addr(p, i) \in Nat
           /\ p <= Addr(p, i)
           /\ Addr(p, i) + Size <= p + PageSize
<1>1. i \in Nat /\ p \in Nat /\ Size * (i + 1) <= PageSize
  BY DEF Slot
<1>2. Size * (i + 1) = Size * i + Size /\ Size * i \in Nat
  BY <1>1
<1> QED BY <1>1, <1>2 DEF Addr

\* Two slots of a page do not overlap.
LEMMA SlotsApart ==
    ASSUME NEW p \in PageAddrs, NEW i \in Slot, NEW j \in Slot, i # j
    PROVE  \/ Addr(p, i) + Size <= Addr(p, j)
           \/ Addr(p, j) + Size <= Addr(p, i)
<1>1. i \in Nat /\ j \in Nat /\ p \in Nat /\ (i < j \/ j < i)
  BY DEF Slot
<1>2. CASE i < j
  BY <1>1, <1>2, TimesGrows DEF Addr
<1>3. CASE j < i
  BY <1>1, <1>3, TimesGrows DEF Addr
<1> QED BY <1>1, <1>2, <1>3

\* The slot of an address that is the start of a slot.
LEMMA IndexOfAddr ==
    ASSUME NEW p \in PageAddrs, NEW i \in Slot
    PROVE  Index(p, Addr(p, i)) = i
<1>1. i \in Nat /\ p \in Nat /\ Size * i \in Nat
  BY DEF Slot
<1>2. Addr(p, i) - p = Size * i
  BY <1>1 DEF Addr
<1>3. (Size * i) \div Size = i
  BY <1>1
<1> QED BY <1>2, <1>3 DEF Index

\* The distances are cut, never stretched.
LEMMA WithinReach ==
    ASSUME NEW r \in Requests, NEW a \in Nat, InRange(a, r)
    PROVE  r.hint = 0 \/ a \in r.hint - r.low .. r.hint + r.high
<1>1. r.hint \in Nat /\ r.low \in Nat /\ r.high \in Nat /\ r.hint <= MaxAddr
  BY DEF Request
<1>2. r.hint - r.low <= From(r)
  BY <1>1 DEF From
<1>3. To(r) <= r.hint + r.high
  BY <1>1 DEF To
<1>4. From(r) \in Int /\ To(r) \in Int
  BY <1>1 DEF From, To
<1> QED BY <1>1, <1>2, <1>3, <1>4 DEF InRange

(***************************************************************************)
(* The inductive invariant                                                   *)
(***************************************************************************)
\* The pages of the list are different mappings.
PagesApart ==
    /\ \A m, n \in DOMAIN pages : m # n => pages[m] # pages[n]
    /\ \A p, q \in Pages : p # q => p + PageSize <= q \/ q + PageSize <= p

\* A slot that is held has its flag set; a flag that is set has one holder.
OwnedBusy == \A x \in owned : \E p \in Pages : \E i \in busy[p] : x.at = Addr(p, i)
BusyOwned == \A p \in Pages : \A i \in busy[p] : \E x \in owned : x.at = Addr(p, i)
OneOwner == \A x, y \in owned : x.at = y.at => x = y

IInv ==
    /\ TypeOK
    /\ PagesApart
    /\ OwnedBusy
    /\ BusyOwned
    /\ OneOwner
    /\ Reached

\* The list holds addresses of pages, and every slot of a page that is marked
\* is a slot.
LEMMA PagesType ==
    ASSUME TypeOK
    PROVE  /\ DOMAIN pages \in SUBSET Nat
           /\ \A n \in DOMAIN pages : pages[n] \in Pages /\ pages[n] \in PageAddrs
           /\ Pages \subseteq PageAddrs
           /\ \A p \in Pages : busy[p] \subseteq Slot
<1>1. DOMAIN pages = 1 .. Len(pages) /\ Len(pages) \in Nat
  BY DEF TypeOK
<1>2. \A n \in DOMAIN pages : pages[n] \in PageAddrs
  BY <1>1 DEF TypeOK
<1>3. \A n \in DOMAIN pages : pages[n] \in Pages
  BY DEF Pages
<1>4. Pages \subseteq PageAddrs
  BY <1>2 DEF Pages
<1>5. \A p \in Pages : busy[p] \subseteq Slot
  BY <1>4 DEF TypeOK
<1> QED BY <1>1, <1>2, <1>3, <1>4, <1>5

\* Where a slot starts tells its page and its number.
LEMMA AddrInjective ==
    ASSUME PagesApart, TypeOK, NEW p \in Pages, NEW q \in Pages,
           NEW i \in Slot, NEW j \in Slot, Addr(p, i) = Addr(q, j)
    PROVE  p = q /\ i = j
<1>1. p \in PageAddrs /\ q \in PageAddrs
  BY DEF Pages, TypeOK
<1>2. p = q
  BY <1>1, SlotInside DEF PagesApart
<1>3. i = j
  <2> SUFFICES ASSUME i # j PROVE FALSE
    OBVIOUS
  <2>1. \/ Addr(p, i) + Size <= Addr(p, j)
        \/ Addr(p, j) + Size <= Addr(p, i)
    BY <1>1, SlotsApart
  <2>2. Addr(p, i) \in Nat /\ Addr(p, i) = Addr(p, j)
    BY <1>1, <1>2, SlotInside
  <2> QED BY <2>1, <2>2
<1> QED BY <1>2, <1>3

LEMMA InitIInv == Init => IInv
<1> SUFFICES ASSUME Init PROVE IInv
  OBVIOUS
<1>1. pages \in Seq(PageAddrs) /\ DOMAIN pages = {} /\ Pages = {}
  BY DEF Init, Pages
<1>2. TypeOK
  <2>1. clock \in Nat /\ 0 \in 0 .. clock
    BY <1>1, SizeAssumption DEF Init
  <2>2. [i \in Slot |-> 0] \in [Slot -> 0 .. clock]
    BY <2>1
  <2>3. stamp \in [PageAddrs -> [Slot -> 0 .. clock]]
    BY <1>1, <2>2 DEF Init
  <2> QED BY <1>1, <2>1, <2>3 DEF Init, TypeOK
<1>3. PagesApart /\ OwnedBusy /\ BusyOwned /\ OneOwner /\ Reached
  BY <1>1 DEF Init, PagesApart, OwnedBusy, BusyOwned, OneOwner, Reached
<1> QED BY <1>2, <1>3 DEF IInv

\* A slot found free is a slot of a page of the list, in reach, and not held.
LEMMA ReuseIInv ==
    ASSUME IInv, NEW r \in Requests, NEW now \in NowValues, Reuse(r, now)
    PROVE  IInv'
<1> DEFINE n == MinOf(Hits(r, now))
           p == pages[n]
           F == {s \in Slot : Fits(p, s, r, now)}
           i == MinOf(F)
           x == [at |-> Addr(p, i), for |-> r]
<1>1. n \in Hits(r, now)
  <2>1. Hits(r, now) \in SUBSET Nat /\ Hits(r, now) # {}
    BY PagesType DEF Reuse, Hits, IInv
  <2> QED BY <2>1, MinExists
<1>2. n \in DOMAIN pages /\ p \in Pages /\ p \in PageAddrs /\ F # {}
  <2>1. n \in DOMAIN pages /\ \E s \in Slot : Fits(p, s, r, now)
    BY <1>1 DEF Hits
  <2> HIDE DEF n
  <2> QED BY <2>1, PagesType DEF IInv
<1>3. i \in F
  <2>1. F \in SUBSET Nat
    BY DEF Slot
  <2> HIDE DEF F
  <2> QED BY <1>2, <2>1, MinExists
<1>4. i \in Slot /\ i \notin busy[p] /\ InRange(Addr(p, i), r)
  BY <1>3 DEF Fits
<1>5. /\ busy' = [busy EXCEPT ![p] = busy[p] \cup {i}]
      /\ owned' = owned \cup {x}
      /\ UNCHANGED <<pages, stamp, clock, aborted>>
  BY DEF Reuse
<1>6. Pages' = Pages
  BY <1>5 DEF Pages
<1> HIDE DEF n, p, F, i
<1>7. x \in [at : Nat, for : Requests]
  BY <1>2, <1>4, SlotInside
<1>8. TypeOK'
  BY <1>2, <1>4, <1>5, <1>7 DEF IInv, TypeOK
<1>9. \A y \in owned : y.at # x.at
  <2> SUFFICES ASSUME NEW y \in owned, y.at = Addr(p, i) PROVE FALSE
    OBVIOUS
  <2>1. PICK q \in Pages : \E j \in busy[q] : y.at = Addr(q, j)
    BY DEF IInv, OwnedBusy
  <2>2. PICK j \in busy[q] : y.at = Addr(q, j)
    BY <2>1
  <2>3. j \in Slot
    BY <2>2, PagesType DEF IInv
  <2>4. Addr(p, i) = Addr(q, j)
    BY <2>2
  <2>5. p = q /\ i = j
    BY <1>2, <1>4, <2>3, <2>4, AddrInjective DEF IInv
  <2> QED BY <1>4, <2>2, <2>5
<1>10. PagesApart'
  BY <1>5, <1>6 DEF IInv, PagesApart
<1>11. busy'[p] = busy[p] \cup {i} /\ \A q \in Pages : busy[q] \subseteq busy'[q] /\ (q # p => busy'[q] = busy[q])
  BY <1>2, <1>5 DEF IInv, TypeOK, Pages
<1>12. OwnedBusy'
  <2> SUFFICES ASSUME NEW y \in owned' PROVE \E q \in Pages : \E j \in busy'[q] : y.at = Addr(q, j)
    BY <1>6 DEF OwnedBusy
  <2>1. CASE y = x
    BY <1>2, <1>11, <2>1
  <2>2. CASE y \in owned
    BY <1>11, <2>2 DEF IInv, OwnedBusy
  <2> QED BY <1>5, <2>1, <2>2
<1>13. BusyOwned'
  <2> SUFFICES ASSUME NEW q \in Pages, NEW j \in busy'[q] PROVE \E y \in owned' : y.at = Addr(q, j)
    BY <1>6 DEF BusyOwned
  <2>1. CASE q = p /\ j = i
    <3>1. x \in owned' /\ x.at = Addr(q, j)
      BY <1>5, <2>1
    <3> QED BY <3>1
  <2>2. CASE j \in busy[q]
    BY <1>5, <2>2 DEF IInv, BusyOwned
  <2> QED BY <1>11, <2>1, <2>2
<1>14. OneOwner'
  BY <1>5, <1>9 DEF IInv, OneOwner
<1>15. Reached'
  <2>1. x.at \in Nat /\ x.for = r /\ InRange(x.at, r)
    BY <1>4, <1>7
  <2>2. r.hint = 0 \/ x.at \in r.hint - r.low .. r.hint + r.high
    BY <2>1, WithinReach
  <2> QED BY <1>5, <2>1, <2>2 DEF IInv, Reached
<1> QED BY <1>8, <1>10, <1>12, <1>13, <1>14, <1>15 DEF IInv

\* No slot that is held lies in memory that is not in use.
LEMMA FreshNotHeld ==
    ASSUME IInv, NEW p \in PageAddrs, Fresh(p), NEW i \in Slot, NEW y \in owned
    PROVE  y.at # Addr(p, i)
<1>1. PICK q \in Pages : \E j \in busy[q] : y.at = Addr(q, j)
  BY DEF IInv, OwnedBusy
<1>2. PICK j \in busy[q] : y.at = Addr(q, j)
  BY <1>1
<1>3. j \in Slot /\ q \in PageAddrs
  BY <1>2, PagesType DEF IInv
<1>4. /\ q <= Addr(q, j) /\ Addr(q, j) + Size <= q + PageSize
      /\ p <= Addr(p, i) /\ Addr(p, i) + Size <= p + PageSize
      /\ Addr(q, j) \in Nat /\ Addr(p, i) \in Nat /\ p \in Nat /\ q \in Nat
  BY <1>3, SlotInside
<1>5. p + PageSize <= q \/ q + PageSize <= p
  BY DEF Fresh
<1> QED BY <1>2, <1>4, <1>5

\* The list with a new head.
LEMMA ConsPages ==
    ASSUME TypeOK, NEW p \in PageAddrs, pages' = <<p>> \o pages
    PROVE  /\ pages' \in Seq(PageAddrs)
           /\ DOMAIN pages' = 1 .. Len(pages) + 1
           /\ pages'[1] = p
           /\ \A n \in 2 .. Len(pages) + 1 : n - 1 \in DOMAIN pages /\ pages'[n] = pages[n - 1]
           /\ Pages' = Pages \cup {p}
<1>1. <<p>> \in Seq(PageAddrs) /\ Len(<<p>>) = 1 /\ pages \in Seq(PageAddrs)
  BY DEF TypeOK
<1>2. Len(pages) \in Nat /\ DOMAIN pages = 1 .. Len(pages)
  BY <1>1
<1>3. /\ pages' \in Seq(PageAddrs)
      /\ Len(pages') = Len(pages) + 1
      /\ \A n \in 1 .. Len(pages) + 1 : pages'[n] = IF n <= 1 THEN p ELSE pages[n - 1]
  BY <1>1, <1>2, ConcatProperties
<1>4. DOMAIN pages' = 1 .. Len(pages) + 1
  BY <1>3
<1>5. pages'[1] = p /\ 1 \in DOMAIN pages'
  BY <1>2, <1>3, <1>4
<1>6. \A n \in 2 .. Len(pages) + 1 : n - 1 \in DOMAIN pages /\ pages'[n] = pages[n - 1]
  BY <1>2, <1>3
<1>7. \A n \in DOMAIN pages : n + 1 \in DOMAIN pages' /\ pages'[n + 1] = pages[n]
  BY <1>2, <1>3, <1>4
<1>8. Pages' \subseteq Pages \cup {p}
  <2> SUFFICES ASSUME NEW n \in DOMAIN pages' PROVE pages'[n] \in Pages \cup {p}
    BY DEF Pages
  <2>1. CASE n = 1
    BY <1>5, <2>1
  <2>2. CASE n # 1
    <3>1. n \in 2 .. Len(pages) + 1
      BY <1>2, <1>4, <2>2
    <3> QED BY <1>6, <3>1 DEF Pages
  <2> QED BY <2>1, <2>2
<1>9. Pages \cup {p} \subseteq Pages'
  BY <1>5, <1>7 DEF Pages
<1> QED BY <1>3, <1>4, <1>5, <1>6, <1>8, <1>9

LEMMA NewPageIInv ==
    ASSUME IInv, NEW r \in Requests, NEW now \in NowValues, NewPage(r, now)
    PROVE  IInv'
<1> DEFINE Reach(p) == {i \in Slot : InRange(Addr(p, i), r)}
           Take(p) == IF Reach(p) = {} THEN {} ELSE {MinOf(Reach(p))}
<1>1. PICK p \in PageAddrs :
          /\ Fresh(p)
          /\ busy' = [busy EXCEPT ![p] = Take(p)]
          /\ owned' = owned \cup {[at |-> Addr(p, i), for |-> r] : i \in Take(p)}
          /\ aborted' = (Reach(p) = {})
          /\ stamp' = [stamp EXCEPT ![p] = [i \in Slot |-> 0]]
          /\ pages' = <<p>> \o pages
          /\ UNCHANGED clock
  BY DEF NewPage
<1>2. Take(p) \subseteq Reach(p)
  <2>1. Reach(p) \in SUBSET Nat
    BY DEF Slot
  <2> HIDE DEF Reach
  <2> QED BY <2>1, MinExists
<1>3. /\ Take(p) \subseteq Slot
      /\ \A i \in Take(p) : InRange(Addr(p, i), r)
      /\ \A i, j \in Take(p) : i = j
  BY <1>2
<1>4. p \in Nat /\ p \notin Pages
  <2>1. p \in Nat /\ ~(p + PageSize <= p)
    OBVIOUS
  <2> QED BY <1>1, <2>1 DEF Fresh
<1> HIDE DEF Take, Reach
<1> DEFINE new(i) == [at |-> Addr(p, i), for |-> r]
<1>5. \A i \in Take(p) : new(i) \in [at : Nat, for : Requests]
  BY <1>3, SlotInside
<1>6. /\ pages' \in Seq(PageAddrs)
      /\ DOMAIN pages' = 1 .. Len(pages) + 1
      /\ pages'[1] = p
      /\ \A n \in 2 .. Len(pages) + 1 : n - 1 \in DOMAIN pages /\ pages'[n] = pages[n - 1]
      /\ Pages' = Pages \cup {p}
  BY <1>1, ConsPages DEF IInv
<1>7. TypeOK'
  <2>1. busy' \in [PageAddrs -> SUBSET Slot]
    BY <1>1, <1>3 DEF IInv, TypeOK
  <2>2. stamp' \in [PageAddrs -> [Slot -> 0 .. clock']]
    BY <1>1 DEF IInv, TypeOK
  <2>3. owned' \subseteq [at : Nat, for : Requests]
    BY <1>1, <1>5 DEF IInv, TypeOK
  <2>4. clock' \in Nat /\ aborted' \in BOOLEAN
    BY <1>1 DEF IInv, TypeOK
  <2> QED BY <1>6, <2>1, <2>2, <2>3, <2>4 DEF TypeOK
<1>8. PagesApart'
  <2>1. \A m, n \in DOMAIN pages' : m # n => pages'[m] # pages'[n]
    <3> SUFFICES ASSUME NEW m \in DOMAIN pages', NEW n \in DOMAIN pages', m # n
                 PROVE  pages'[m] # pages'[n]
      OBVIOUS
    <3>1. Len(pages) \in Nat
      BY DEF IInv, TypeOK
    <3>2. \A k \in 2 .. Len(pages) + 1 : pages'[k] \in Pages
      BY <1>6 DEF Pages
    <3>3. CASE m = 1 \/ n = 1
      <4>1. (m = 1 /\ n \in 2 .. Len(pages) + 1) \/ (n = 1 /\ m \in 2 .. Len(pages) + 1)
        BY <1>6, <3>1, <3>3
      <4> QED BY <1>4, <1>6, <3>2, <4>1
    <3>4. CASE m # 1 /\ n # 1
      <4>1. m \in 2 .. Len(pages) + 1 /\ n \in 2 .. Len(pages) + 1
        BY <1>6, <3>1, <3>4
      <4>2. m - 1 # n - 1 /\ m - 1 \in DOMAIN pages /\ n - 1 \in DOMAIN pages
        BY <1>6, <4>1
      <4> QED BY <1>6, <4>1, <4>2 DEF IInv, PagesApart
    <3> QED BY <3>3, <3>4
  <2>2. \A q, s \in Pages' : q # s => q + PageSize <= s \/ s + PageSize <= q
    BY <1>1, <1>6 DEF IInv, PagesApart, Fresh
  <2> QED BY <2>1, <2>2 DEF PagesApart
<1>9. busy'[p] = Take(p) /\ \A q \in Pages : q # p /\ busy'[q] = busy[q]
  BY <1>1, <1>4, PagesType DEF IInv, TypeOK
<1>10. OwnedBusy'
  <2> SUFFICES ASSUME NEW y \in owned' PROVE \E q \in Pages' : \E j \in busy'[q] : y.at = Addr(q, j)
    BY DEF OwnedBusy
  <2>1. CASE y \in owned
    BY <1>6, <1>9, <2>1 DEF IInv, OwnedBusy
  <2>2. CASE \E i \in Take(p) : y = new(i)
    BY <1>6, <1>9, <2>2
  <2> QED BY <1>1, <2>1, <2>2
<1>11. BusyOwned'
  <2> SUFFICES ASSUME NEW q \in Pages', NEW j \in busy'[q] PROVE \E y \in owned' : y.at = Addr(q, j)
    BY DEF BusyOwned
  <2>1. CASE q = p
    <3>1. new(j) \in owned' /\ new(j).at = Addr(q, j)
      BY <1>1, <1>9, <2>1
    <3> QED BY <3>1
  <2>2. CASE q \in Pages
    BY <1>1, <1>9, <2>2 DEF IInv, BusyOwned
  <2> QED BY <1>6, <2>1, <2>2
<1>12. OneOwner'
  <2> SUFFICES ASSUME NEW x \in owned', NEW y \in owned', x.at = y.at PROVE x = y
    BY DEF OneOwner
  <2>1. CASE x \in owned /\ y \in owned
    BY <2>1 DEF IInv, OneOwner
  <2>2. ASSUME NEW i \in Take(p), NEW z \in owned PROVE z.at # new(i).at
    BY <1>1, <1>3, FreshNotHeld
  <2>3. ASSUME NEW i \in Take(p), NEW j \in Take(p) PROVE new(i) = new(j)
    BY <1>3
  <2> HIDE DEF new
  <2> QED BY <1>1, <2>1, <2>2, <2>3 DEF new
<1>13. Reached'
  <2>1. \A i \in Take(p) :
            r.hint = 0 \/ new(i).at \in r.hint - r.low .. r.hint + r.high
    BY <1>3, <1>5, WithinReach
  <2> QED BY <1>1, <2>1 DEF IInv, Reached
<1> QED BY <1>7, <1>8, <1>10, <1>11, <1>12, <1>13 DEF IInv

LEMMA FreeIInv ==
    ASSUME IInv, Free
    PROVE  IInv'
<1> DEFINE PageOf(x) == CHOOSE q \in Pages : q <= x.at /\ x.at < q + PageSize
<1>1. PICK x \in owned :
          /\ busy' = [busy EXCEPT ![PageOf(x)] = busy[PageOf(x)] \ {Index(PageOf(x), x.at)}]
          /\ stamp' = IF Delay > 0
                      THEN [stamp EXCEPT ![PageOf(x)][Index(PageOf(x), x.at)] = clock]
                      ELSE stamp
          /\ owned' = owned \ {x}
          /\ UNCHANGED <<pages, clock, aborted>>
  BY DEF Free, FreedAt
<1>2. PICK p \in Pages, i \in Slot : i \in busy[p] /\ x.at = Addr(p, i)
  BY PagesType DEF IInv, OwnedBusy
<1>3. i \in Slot /\ p \in PageAddrs
  BY <1>2, PagesType DEF IInv
<1>4. PageOf(x) = p
  <2>1. p <= x.at /\ x.at + Size <= p + PageSize /\ x.at \in Nat /\ p \in Nat
    BY <1>2, <1>3, SlotInside
  <2>2. p <= x.at /\ x.at < p + PageSize
    BY <2>1
  <2>3. \A q \in Pages : q <= x.at /\ x.at < q + PageSize => q = p
    <3> TAKE q \in Pages
    <3>1. q \in PageAddrs /\ q \in Nat
      <4>1. q \in PageAddrs
        BY PagesType DEF IInv
      <4> QED BY <4>1
    <3> QED BY <2>1, <2>2, <3>1 DEF IInv, PagesApart
  <2> QED BY <2>2, <2>3
<1>5. Index(p, x.at) = i
  BY <1>2, <1>3, IndexOfAddr
<1> HIDE DEF PageOf
<1>6. /\ busy' = [busy EXCEPT ![p] = busy[p] \ {i}]
      /\ stamp' = IF Delay > 0 THEN [stamp EXCEPT ![p][i] = clock] ELSE stamp
  BY <1>1, <1>4, <1>5
<1>7. Pages' = Pages
  BY <1>1 DEF Pages
<1>8. TypeOK'
  <2>1. stamp' \in [PageAddrs -> [Slot -> 0 .. clock']]
    <3>1. clock \in 0 .. clock /\ clock' = clock
      BY <1>1 DEF IInv, TypeOK
    <3> QED BY <1>3, <1>6, <3>1 DEF IInv, TypeOK
  <2>2. busy' \in [PageAddrs -> SUBSET Slot]
    BY <1>3, <1>6 DEF IInv, TypeOK
  <2> QED BY <1>1, <2>1, <2>2 DEF IInv, TypeOK
<1>9. PagesApart' /\ OneOwner' /\ Reached'
  BY <1>1, <1>7 DEF IInv, PagesApart, OneOwner, Reached
<1>10. \A q \in Pages : \A j \in Slot : j \in busy'[q] <=> j \in busy[q] /\ ~(q = p /\ j = i)
  BY <1>2, <1>3, <1>6, PagesType DEF IInv, TypeOK
<1>11. \A q \in Pages : busy'[q] \subseteq Slot
  BY <1>6, PagesType DEF IInv, TypeOK
<1>12. OwnedBusy'
  <2> SUFFICES ASSUME NEW y \in owned' PROVE \E q \in Pages : \E j \in busy'[q] : y.at = Addr(q, j)
    BY <1>7 DEF OwnedBusy
  <2>1. y \in owned /\ y.at # x.at
    BY <1>1 DEF IInv, OneOwner
  <2>2. PICK q \in Pages, j \in Slot : j \in busy[q] /\ y.at = Addr(q, j)
    BY <2>1, PagesType DEF IInv, OwnedBusy
  <2>3. j \in Slot /\ ~(q = p /\ j = i)
    BY <1>2, <2>1, <2>2, PagesType DEF IInv
  <2> QED BY <1>10, <2>2, <2>3
<1>13. BusyOwned'
  <2> SUFFICES ASSUME NEW q \in Pages, NEW j \in busy'[q] PROVE \E y \in owned' : y.at = Addr(q, j)
    BY <1>7 DEF BusyOwned
  <2>1. j \in Slot /\ j \in busy[q] /\ ~(q = p /\ j = i)
    BY <1>10, <1>11
  <2>2. PICK y \in owned : y.at = Addr(q, j)
    BY <2>1 DEF IInv, BusyOwned
  <2>3. y # x
    BY <1>2, <1>3, <2>1, <2>2, AddrInjective DEF IInv
  <2> QED BY <1>1, <2>2, <2>3
<1> QED BY <1>8, <1>9, <1>12, <1>13 DEF IInv

LEMMA NextIInv == IInv /\ [Next]_vars => IInv'
<1> SUFFICES ASSUME IInv, [Next]_vars PROVE IInv'
  OBVIOUS
<1>1. ASSUME UNCHANGED vars PROVE IInv'
  BY <1>1 DEF vars, IInv, TypeOK, PagesApart, OwnedBusy, BusyOwned, OneOwner, Reached, Pages
<1>2. ASSUME NEW r \in Requests, NEW now \in NowValues, Reuse(r, now) PROVE IInv'
  BY <1>2, ReuseIInv
<1>3. ASSUME NEW r \in Requests, NEW now \in NowValues, NewPage(r, now) PROVE IInv'
  BY <1>3, NewPageIInv
<1>4. ASSUME NEW r \in Requests, NEW now \in NowValues, AllocFails(r, now) PROVE IInv'
  BY <1>1, <1>4 DEF AllocFails
<1>5. ASSUME Free PROVE IInv'
  BY <1>5, FreeIInv
<1>6. ASSUME Tick PROVE IInv'
  BY <1>6 DEF Tick, IInv, TypeOK, PagesApart, OwnedBusy, BusyOwned, OneOwner, Reached, Pages
<1> QED BY <1>1, <1>2, <1>3, <1>4, <1>5, <1>6 DEF Next, Alloc

LEMMA Inductive == Spec => []IInv
<1> QED BY InitIInv, NextIInv, PTL DEF Spec

(***************************************************************************)
(* Theorems                                                                  *)
(***************************************************************************)
\* Every variable keeps its type.
THEOREM Types == Spec => []TypeOK
<1>1. IInv => TypeOK
  BY DEF IInv
<1> QED BY <1>1, Inductive, PTL

\* Slots that are held at the same time share no byte and lie in mapped pages,
\* for every size that fits a page and every sequence of requests.
THEOREM SlotsNeverOverlap == Spec => []Disjoint
<1>1. ASSUME IInv PROVE Disjoint
  <2>1. ASSUME NEW x \in owned
        PROVE  \E p \in Pages : p <= x.at /\ x.at + Size <= p + PageSize
    <3>1. PICK p \in Pages, i \in Slot : i \in busy[p] /\ x.at = Addr(p, i)
      BY <1>1, PagesType DEF IInv, OwnedBusy
    <3> QED BY <1>1, <3>1, PagesType, SlotInside DEF IInv
  <2>2. ASSUME NEW x \in owned, NEW y \in owned, x # y
        PROVE  x.at + Size <= y.at \/ y.at + Size <= x.at
    <3>1. PICK p \in Pages, i \in Slot : i \in busy[p] /\ x.at = Addr(p, i)
      BY <1>1, PagesType DEF IInv, OwnedBusy
    <3>2. PICK q \in Pages, j \in Slot : j \in busy[q] /\ y.at = Addr(q, j)
      BY <1>1, PagesType DEF IInv, OwnedBusy
    <3>3. i \in Slot /\ j \in Slot /\ p \in PageAddrs /\ q \in PageAddrs
      BY <1>1, <3>1, <3>2, PagesType DEF IInv
    <3>4. CASE p = q
      <4>1. i # j
        BY <1>1, <2>2, <3>1, <3>2, <3>4 DEF IInv, OneOwner
      <4> QED BY <3>1, <3>2, <3>3, <3>4, <4>1, SlotsApart
    <3>5. CASE p # q
      <4>1. p + PageSize <= q \/ q + PageSize <= p
        BY <1>1, <3>5 DEF IInv, PagesApart
      <4>2. /\ p <= x.at /\ x.at + Size <= p + PageSize
            /\ q <= y.at /\ y.at + Size <= q + PageSize
            /\ p \in Nat /\ q \in Nat /\ x.at \in Nat /\ y.at \in Nat
        BY <3>1, <3>2, <3>3, SlotInside
      <4> QED BY <4>1, <4>2
    <3> QED BY <3>4, <3>5
  <2> QED BY <2>1, <2>2 DEF Disjoint
<1> QED BY <1>1, Inductive, PTL

\* The flags are set for exactly the slots that callers hold.
THEOREM FlagsAlwaysMatch == Spec => []FlagsMatch
<1>1. ASSUME IInv PROVE FlagsMatch
  <2>1. \A x \in owned : x.at \in UNION {{Addr(p, i) : i \in busy[p]} : p \in Pages}
    BY <1>1 DEF IInv, OwnedBusy
  <2>2. \A p \in Pages : \A i \in busy[p] : Addr(p, i) \in {x.at : x \in owned}
    BY <1>1 DEF IInv, BusyOwned
  <2> QED BY <2>1, <2>2 DEF FlagsMatch
<1> QED BY <1>1, Inductive, PTL

\* Every slot that is held is in reach of the code it was asked for.
THEOREM AlwaysReached == Spec => []Reached
<1>1. IInv => Reached
  BY DEF IInv
<1> QED BY <1>1, Inductive, PTL

(***************************************************************************)
(* An accepted page has a slot in reach                                      *)
(***************************************************************************)
\* The first slot at or above a place that is below a page's last slot.
LEMMA SlotAbove ==
    ASSUME NEW n \in Nat, PageSize = Size * n,
           NEW d \in Nat, d < PageSize - Size
    PROVE  \E i \in Slot : d <= Size * i /\ Size * i < d + Size
<1> DEFINE q == (d + Size - 1) \div Size
<1>1. q \in Nat /\ d <= Size * q /\ Size * q < d + Size
  OBVIOUS
<1> HIDE DEF q
<1>2. q < n
  <2> SUFFICES ASSUME n <= q PROVE FALSE
    BY <1>1
  <2>1. CASE n = q
    BY <1>1, <2>1
  <2>2. CASE n < q
    BY <1>1, <2>2, TimesGrows
  <2> QED BY <1>1, <2>1, <2>2
<1>3. Size * q + Size <= PageSize
  BY <1>1, <1>2, TimesGrows
<1>4. Size * (q + 1) = Size * q + Size /\ q <= Size * q
  BY <1>1
<1>5. q \in Slot
  BY <1>1, <1>3, <1>4 DEF Slot
<1> QED BY <1>1, <1>5

LEMMA UsableHasSlot ==
    ASSUME NEW r \in Requests, NEW p \in PageAddrs, Usable(p, r)
    PROVE  \E i \in Slot : InRange(Addr(p, i), r)
<1>1. /\ p \in Nat /\ p + PageSize <= MaxAddr
      /\ r.hint \in Nat /\ r.low \in Nat /\ r.high \in Nat /\ r.hint <= MaxAddr
  OBVIOUS
<1>2. 0 \in Slot /\ Addr(p, 0) = p
  BY <1>1 DEF Slot, Addr
<1>3. CASE r.hint = 0
  BY <1>2, <1>3 DEF InRange
<1>4. CASE r.hint # 0 /\ From(r) <= p
  BY <1>2, <1>4 DEF InRange, Usable
<1>5. CASE r.hint # 0 /\ p < From(r)
  <2>1. From(r) \in Nat /\ From(r) < p + PageSize - Size
    BY <1>1, <1>5 DEF From, Usable
  <2> DEFINE d == From(r) - p
  <2>2. d \in Nat /\ d < PageSize - Size
    BY <1>1, <1>5, <2>1
  <2>3. PICK i \in Slot : d <= Size * i /\ Size * i < d + Size
    <3>1. PICK n \in Nat : PageSize = Size * n
      <4>1. PageSize = Size * (PageSize \div Size) /\ PageSize \div Size \in Nat
        BY <1>5, ReachAssumption
      <4> QED BY <4>1
    <3> HIDE DEF d
    <3> QED BY <2>2, <3>1, SlotAbove
  <2>4. i \in Nat /\ Addr(p, i) \in Nat /\ Addr(p, i) + Size <= p + PageSize
    BY SlotInside
  <2>5. Addr(p, i) = p + Size * i /\ Size * i \in Nat
    BY <2>4 DEF Addr
  <2>6. From(r) <= Addr(p, i) /\ Addr(p, i) < From(r) + Size
    BY <1>1, <2>1, <2>3, <2>5
  <2>7. Size <= r.high
    BY <1>5, ReachAssumption
  <2>8. From(r) <= r.hint
    BY <1>1 DEF From
  <2>9. Addr(p, i) <= To(r)
    <3>1. Addr(p, i) <= MaxAddr
      BY <1>1, <2>4
    <3>2. Addr(p, i) < r.hint + r.high
      BY <1>1, <2>1, <2>4, <2>6, <2>7, <2>8
    <3> QED BY <1>1, <2>4, <3>1, <3>2 DEF To
  <2> QED BY <2>6, <2>9 DEF InRange
<1>6. From(r) \in Int
  BY <1>1 DEF From
<1> QED BY <1>1, <1>3, <1>4, <1>5, <1>6

\* No allocation aborts for want of a slot in a page it has accepted.
THEOREM NoAbort == Spec => []NeverAborts
<1>1. Init => NeverAborts
  BY DEF Init, NeverAborts
<1>2. NeverAborts /\ [Next]_vars => NeverAborts'
  <2> SUFFICES ASSUME NeverAborts, Next PROVE NeverAborts'
    BY DEF NeverAborts, vars
  <2>1. ASSUME NEW r \in Requests, NEW now \in NowValues, NewPage(r, now) PROVE NeverAborts'
    BY <2>1, UsableHasSlot DEF NewPage, NeverAborts
  <2> QED BY <2>1 DEF Next, Alloc, Reuse, AllocFails, Free, Tick, NeverAborts, vars
<1> QED BY <1>1, <1>2, PTL DEF Spec

=============================================================================
