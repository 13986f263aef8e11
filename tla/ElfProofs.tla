----------------------------- MODULE ElfProofs -----------------------------
(***************************************************************************)
(* Proofs about ElfReader: in every library that is as the formats promise   *)
(* (IsLibrary of ElfImages), whatever its size, the reader finds each place  *)
(* that refers to a function and each function that is exported              *)
(* (EveryPlaceFound).                                                        *)
(***************************************************************************)
EXTENDS ElfImages, SequenceTheorems, FiniteSetTheorems, WellFoundedInduction, TLAPS

(***************************************************************************)
(* Numbers                                                                   *)
(***************************************************************************)
\* Every nonempty set of numbers has a least one.
LEMMA LeastOf ==
    ASSUME NEW T, T \subseteq Nat, T # {}
    PROVE  \E m \in T : \A k \in T : m <= k
<1> DEFINE R == OpToRel(<, Nat)
<1>1. IsWellFoundedOn(R, Nat)
  BY NatLessThanWellFounded
<1>2. \E m \in T : \A k \in T : <<k, m>> \notin R
  <2> HIDE DEF R
  <2> QED BY <1>1, WFMin
<1>3. PICK m \in T : \A k \in T : <<k, m>> \notin R
  BY <1>2
<1>4. ASSUME NEW k \in T PROVE m <= k
  <2>1. ~(k < m)
    BY <1>3 DEF OpToRel
  <2> QED BY <2>1
<1> QED BY <1>3, <1>4

\* Min is it.
LEMMA MinOf ==
    ASSUME NEW T, T \subseteq Nat, T # {}
    PROVE  Min(T) \in T /\ \A k \in T : Min(T) <= k
BY LeastOf DEF Min

\* A set that has 0, and with a number the next one, has the numbers up to N.
LEMMA CountUp ==
    ASSUME NEW S, NEW N \in Nat, 0 \in S, \A n \in 0 .. N - 1 : n \in S => n + 1 \in S
    PROVE  0 .. N \subseteq S
<1> DEFINE T == {n \in 0 .. N : n \notin S}
<1> SUFFICES ASSUME T # {} PROVE FALSE
  OBVIOUS
<1>1. PICK m \in T : \A k \in T : m <= k
  <2>1. T \subseteq Nat
    OBVIOUS
  <2> HIDE DEF T
  <2> QED BY <2>1, LeastOf
<1>2. m \in 1 .. N
  BY <1>1
<1>3. m - 1 \in 0 .. N - 1 /\ m - 1 \notin T
  BY <1>1, <1>2
<1>4. m - 1 + 1 \in S
  BY <1>3
<1> QED BY <1>1, <1>2, <1>4

(***************************************************************************)
(* The relocations that are picked                                           *)
(***************************************************************************)
\* picked has what is picked of the first k relocations, for each k up to n.
ArePicked(picked, relocs, wanted, n) ==
    picked = [k \in 0 .. n |->
                IF k = 0 THEN <<>>
                ELSE IF relocs[k] \in wanted THEN Append(picked[k - 1], relocs[k]) ELSE picked[k - 1]]

\* There is such a function.
LEMMA PickedExist ==
    ASSUME NEW relocs, NEW wanted, NEW N \in Nat
    PROVE  \E picked : ArePicked(picked, relocs, wanted, N)
<1> DEFINE S == {n \in 0 .. N : \E picked : ArePicked(picked, relocs, wanted, n)}
<1>1. 0 \in S
  <2>1. ArePicked([k \in 0 .. 0 |-> <<>>], relocs, wanted, 0)
    BY DEF ArePicked
  <2> QED BY <2>1
<1>2. ASSUME NEW n \in 0 .. N - 1, n \in S PROVE n + 1 \in S
  <2>1. PICK picked : ArePicked(picked, relocs, wanted, n)
    BY <1>2
  <2> DEFINE last == IF relocs[n + 1] \in wanted THEN Append(picked[n], relocs[n + 1]) ELSE picked[n]
             new == [k \in 0 .. n + 1 |-> IF k = n + 1 THEN last ELSE picked[k]]
  <2>4. \A k \in 0 .. n : picked[k] =
          IF k = 0 THEN <<>>
          ELSE IF relocs[k] \in wanted THEN Append(picked[k - 1], relocs[k]) ELSE picked[k - 1]
    BY <2>1 DEF ArePicked
  <2>2. ASSUME NEW k \in 0 .. n + 1
        PROVE  new[k] = IF k = 0 THEN <<>>
                        ELSE IF relocs[k] \in wanted THEN Append(new[k - 1], relocs[k]) ELSE new[k - 1]
    <3>1. n \in Nat /\ (k = 0 \/ k = n + 1 \/ k \in 1 .. n)
      OBVIOUS
    <3>2. CASE k = 0
      BY <2>1, <3>1, <3>2 DEF ArePicked
    <3>3. CASE k = n + 1
      <4>1. k # 0 /\ k - 1 = n /\ n # k /\ n \in 0 .. n + 1
        BY <3>1, <3>3
      <4>2. new[k] = last /\ new[n] = picked[n]
        BY <3>3, <4>1
      <4> QED BY <3>3, <4>1, <4>2
    <3>4. CASE k \in 1 .. n
      <4>1. picked[k] = IF relocs[k] \in wanted THEN Append(picked[k - 1], relocs[k]) ELSE picked[k - 1]
        BY <2>4, <3>1, <3>4
      <4>2. new[k] = picked[k] /\ new[k - 1] = picked[k - 1] /\ k # 0
        BY <3>1, <3>4
      <4> QED BY <4>1, <4>2
    <3> QED BY <3>1, <3>2, <3>3, <3>4
  <2>3. ArePicked(new, relocs, wanted, n + 1)
    BY <2>2 DEF ArePicked
  <2> QED BY <2>3
<1>3. 0 .. N \subseteq S
  <2> HIDE DEF S
  <2> QED BY <1>1, <1>2, CountUp
<1> QED BY <1>3

\* What is picked step by step.
LEMMA PickedFollow ==
    ASSUME NEW relocs, NEW wanted, Len(relocs) \in Nat
    PROVE  \E picked : /\ picked[0] = <<>>
                       /\ \A k \in 1 .. Len(relocs) : picked[k] =
                            IF relocs[k] \in wanted THEN Append(picked[k - 1], relocs[k]) ELSE picked[k - 1]
                       /\ Picked(relocs, wanted) = picked[Len(relocs)]
<1> DEFINE p == CHOOSE picked : ArePicked(picked, relocs, wanted, Len(relocs))
<1>1. ArePicked(p, relocs, wanted, Len(relocs))
  BY PickedExist
<1>2. Picked(relocs, wanted) = p[Len(relocs)]
  BY DEF Picked, ArePicked
<1> HIDE DEF p
<1>3. \A k \in 0 .. Len(relocs) : p[k] =
        IF k = 0 THEN <<>>
        ELSE IF relocs[k] \in wanted THEN Append(p[k - 1], relocs[k]) ELSE p[k - 1]
  BY <1>1 DEF ArePicked
<1>4. 0 \in 0 .. Len(relocs) /\ \A k \in 1 .. Len(relocs) : k \in 0 .. Len(relocs) /\ k # 0
  OBVIOUS
<1> QED BY <1>2, <1>3, <1>4

\* Those that are wanted are picked, each as often as it is there.
LEMMA PickedAre ==
    ASSUME NEW R, NEW relocs \in Seq(R), NEW wanted
    PROVE  /\ Picked(relocs, wanted) \in Seq(R)
           /\ Range(Picked(relocs, wanted)) = Range(relocs) \cap wanted
           /\ IsInjective(relocs) => IsInjective(Picked(relocs, wanted))
<1> DEFINE N == Len(relocs)
<1>1. N \in Nat /\ DOMAIN relocs = 1 .. N /\ \A k \in 1 .. N : relocs[k] \in R
  OBVIOUS
<1>2. PICK p : /\ p[0] = <<>>
               /\ \A k \in 1 .. N : p[k] =
                    IF relocs[k] \in wanted THEN Append(p[k - 1], relocs[k]) ELSE p[k - 1]
               /\ Picked(relocs, wanted) = p[N]
  BY <1>1, PickedFollow
<1> DEFINE Has(n) == /\ p[n] \in Seq(R)
                     /\ \A j \in DOMAIN p[n] : \E k \in 1 .. n : relocs[k] = p[n][j] /\ relocs[k] \in wanted
                     /\ \A k \in 1 .. n : relocs[k] \in wanted => \E j \in DOMAIN p[n] : p[n][j] = relocs[k]
                     /\ IsInjective(relocs) => IsInjective(p[n])
           S == {n \in 0 .. N : Has(n)}
<1>3. 0 \in S
  <2>1. p[0] \in Seq(R) /\ DOMAIN p[0] = {}
    BY <1>2
  <2>2. IsInjective(p[0])
    BY <2>1 DEF IsInjective
  <2>3. \A k \in 1 .. 0 : FALSE
    OBVIOUS
  <2> QED BY <1>1, <2>1, <2>2, <2>3
<1>4. ASSUME NEW n \in 0 .. N - 1, n \in S PROVE n + 1 \in S
  <2> DEFINE s == p[n]  t == p[n + 1]  r == relocs[n + 1]
  <2>0. n \in Nat /\ n + 1 \in 1 .. N /\ n + 1 - 1 = n /\ n + 1 \in 0 .. N /\ r \in R
    BY <1>1
  <2>1. t = IF r \in wanted THEN Append(s, r) ELSE s
    BY <1>2, <2>0
  <2>2. /\ s \in Seq(R)
        /\ \A j \in DOMAIN s : \E k \in 1 .. n : relocs[k] = s[j] /\ relocs[k] \in wanted
        /\ \A k \in 1 .. n : relocs[k] \in wanted => \E j \in DOMAIN s : s[j] = relocs[k]
        /\ IsInjective(relocs) => IsInjective(s)
    BY <1>4
  <2> HIDE DEF s, t, r
  <2>3. 1 .. n + 1 = (1 .. n) \cup {n + 1} /\ n + 1 \notin 1 .. n
    BY <2>0
  <2>4. CASE r \notin wanted
    <3>1. t = s
      BY <2>1, <2>4
    <3>2. \A j \in DOMAIN t : \E k \in 1 .. n + 1 : relocs[k] = t[j] /\ relocs[k] \in wanted
      BY <2>2, <2>3, <3>1
    <3>3. \A k \in 1 .. n + 1 : relocs[k] \in wanted => \E j \in DOMAIN t : t[j] = relocs[k]
      BY <2>2, <2>3, <2>4, <3>1 DEF r
    <3> QED BY <2>0, <2>2, <3>1, <3>2, <3>3 DEF t
  <2>5. CASE r \in wanted
    <3>1. /\ t \in Seq(R) /\ Len(s) \in Nat
          /\ DOMAIN s = 1 .. Len(s) /\ DOMAIN t = 1 .. Len(s) + 1
          /\ \A j \in 1 .. Len(s) : t[j] = s[j]
          /\ t[Len(s) + 1] = r
      BY <2>0, <2>1, <2>2, <2>5
    <3>2. 1 .. Len(s) + 1 = (1 .. Len(s)) \cup {Len(s) + 1} /\ Len(s) + 1 \notin 1 .. Len(s)
      BY <3>1
    <3>3. \A j \in DOMAIN t : \E k \in 1 .. n + 1 : relocs[k] = t[j] /\ relocs[k] \in wanted
      BY <2>2, <2>3, <2>5, <3>1, <3>2 DEF r
    <3>4. \A k \in 1 .. n + 1 : relocs[k] \in wanted => \E j \in DOMAIN t : t[j] = relocs[k]
      BY <2>2, <2>3, <3>1, <3>2 DEF r
    <3>5. ASSUME IsInjective(relocs) PROVE IsInjective(t)
      <4>1. \A j \in 1 .. Len(s) : s[j] # r
        <5> SUFFICES ASSUME NEW j \in 1 .. Len(s), s[j] = r PROVE FALSE
          OBVIOUS
        <5>1. PICK k \in 1 .. n : relocs[k] = r
          BY <2>2, <3>1
        <5>2. k \in DOMAIN relocs /\ n + 1 \in DOMAIN relocs /\ k # n + 1
          BY <1>1, <2>0, <2>3
        <5> QED BY <3>5, <5>1, <5>2 DEF IsInjective, r
      <4>2. \A a, b \in 1 .. Len(s) : s[a] = s[b] => a = b
        BY <2>2, <3>1, <3>5 DEF IsInjective
      <4>3. ASSUME NEW a \in DOMAIN t, NEW b \in DOMAIN t, t[a] = t[b] PROVE a = b
        BY <3>1, <3>2, <4>1, <4>2, <4>3
      <4> QED BY <4>3 DEF IsInjective
    <3> QED BY <2>0, <3>1, <3>3, <3>4, <3>5 DEF t
  <2> QED BY <2>4, <2>5
<1>5. 0 .. N \subseteq S
  <2> HIDE DEF S, N
  <2> QED BY <1>1, <1>3, <1>4, CountUp
<1>6. Has(N)
  BY <1>1, <1>5
<1> DEFINE t == Picked(relocs, wanted)
<1>7. t = p[N]
  BY <1>2
<1>8. Range(t) = Range(relocs) \cap wanted
  <2>1. ASSUME NEW x \in Range(t) PROVE x \in Range(relocs) \cap wanted
    BY <1>1, <1>6, <1>7, <2>1 DEF Range
  <2>2. ASSUME NEW x \in Range(relocs) \cap wanted PROVE x \in Range(t)
    BY <1>1, <1>6, <1>7, <2>2 DEF Range
  <2> QED BY <2>1, <2>2
<1> QED BY <1>6, <1>7, <1>8

(***************************************************************************)
(* Entries for what is picked                                                *)
(***************************************************************************)
\* What the proofs below use of a library's relocations: they are all of them,
\* and no two have a place in common.
AreRelocs(all, R) ==
    /\ all \in Seq(R)
    /\ \A m, n \in DOMAIN all : all[m].at = all[n].at => m = n

\* A set is as large as a sequence that lists it.
LEMMA ListedOnce ==
    ASSUME NEW R, NEW s \in Seq(R), IsInjective(s)
    PROVE  Cardinality(Range(s)) = Len(s)
<1>1. Len(s) \in Nat /\ DOMAIN s = 1 .. Len(s)
  OBVIOUS
<1>2. IsFiniteSet(1 .. Len(s)) /\ Cardinality(1 .. Len(s)) = Len(s)
  BY <1>1, FS_Interval
<1>3. s \in Bijection(1 .. Len(s), Range(s))
  BY <1>1 DEF IsInjective, Range, Bijection, Injection, Surjection
<1> QED BY <1>2, <1>3, FS_Bijection DEF ExistsBijection

\* The entries are those of the relocations picked, if these are in a list that
\* names no place twice.
LEMMA SlotsAreAll ==
    ASSUME NEW R, NEW all, AreRelocs(all, R), \A r \in R : r.at \in Int,
           NEW t \in Seq(R), IsInjective(t), Range(t) \subseteq Range(all),
           NEW img, img.bias \in Int
    PROVE  AreAll(Slots(img, t), {img.bias + r.at : r \in Range(t)})
<1> DEFINE at(n) == img.bias + t[n].at
           places == {img.bias + r.at : r \in Range(t)}
           every == [n \in 1 .. Len(t) |-> at(n)]
           max == IF Len(t) <= GotMax THEN Len(t) ELSE GotMax
<1>1. Len(t) \in Nat /\ DOMAIN t = 1 .. Len(t) /\ \A n \in 1 .. Len(t) : t[n] \in R
  OBVIOUS
<1>2. GotMax \in Nat /\ max \in Nat /\ 1 .. max \subseteq 1 .. Len(t)
  BY <1>1, ElfReaderAssumption
<1>3. ASSUME NEW m \in 1 .. Len(t), NEW n \in 1 .. Len(t), at(m) = at(n) PROVE m = n
  <2>1. t[m].at \in Int /\ t[n].at \in Int /\ t[m].at = t[n].at
    BY <1>1, <1>3
  <2>2. t[m] \in Range(all) /\ t[n] \in Range(all)
    BY <1>1 DEF Range
  <2>3. PICK j \in DOMAIN all, k \in DOMAIN all : all[j] = t[m] /\ all[k] = t[n]
    BY <2>2 DEF Range
  <2>4. t[m] = t[n]
    BY <2>1, <2>3 DEF AreRelocs
  <2> QED BY <1>1, <2>4 DEF IsInjective
<1>4. every \in Seq(Int) /\ Len(every) = Len(t) /\ DOMAIN every = 1 .. Len(t)
  <2>1. \A n \in 1 .. Len(t) : at(n) \in Int
    BY <1>1
  <2> QED BY <1>1, <2>1
<1>5. IsInjective(every)
  BY <1>3 DEF IsInjective
<1>6. Range(every) = places
  BY <1>1 DEF Range
<1>7. Cardinality(places) = Len(t)
  BY <1>4, <1>5, <1>6, ListedOnce
<1>8. Slots(img, t) = [n \in 1 .. max |-> at(n)]
  BY DEF Slots
<1>9. Len([n \in 1 .. max |-> at(n)]) = max /\ DOMAIN [n \in 1 .. max |-> at(n)] = 1 .. max
  BY <1>2
<1>10. Range([n \in 1 .. max |-> at(n)]) \subseteq places
  BY <1>1, <1>2 DEF Range
<1>11. IsInjective([n \in 1 .. max |-> at(n)])
  BY <1>2, <1>3 DEF IsInjective
<1> QED BY <1>7, <1>8, <1>9, <1>10, <1>11 DEF AreAll

\* Of a list that names no place twice, the entries of what is wanted.
LEMMA SlotsPicked ==
    ASSUME NEW R, NEW all, AreRelocs(all, R), \A r \in R : r.at \in Int,
           NEW t \in Seq(R), IsInjective(t), Range(t) \subseteq Range(all),
           NEW img, img.bias \in Int, NEW wanted
    PROVE  AreAll(Slots(img, Picked(t, wanted)), {img.bias + r.at : r \in Range(t) \cap wanted})
<1> DEFINE u == Picked(t, wanted)
<1>1. u \in Seq(R) /\ IsInjective(u) /\ Range(u) = Range(t) \cap wanted
  BY PickedAre
<1> HIDE DEF u
<1>2. AreAll(Slots(img, u), {img.bias + r.at : r \in Range(u)})
  BY <1>1, SlotsAreAll
<1> QED BY <1>1, <1>2 DEF u

\* Two parts of a list.
LEMMA JoinedOnce ==
    ASSUME NEW R, NEW s \in Seq(R), NEW t \in Seq(R)
    PROVE  /\ s \o t \in Seq(R)
           /\ Range(s \o t) = Range(s) \cup Range(t)
           /\ IsInjective(s) /\ IsInjective(t) /\ Range(s) \cap Range(t) = {} => IsInjective(s \o t)
           /\ IsInjective(s \o t) => IsInjective(s) /\ IsInjective(t) /\ Range(s) \cap Range(t) = {}
<1> DEFINE u == s \o t
<1>1. /\ u \in Seq(R) /\ Len(s) \in Nat /\ Len(t) \in Nat
      /\ DOMAIN s = 1 .. Len(s) /\ DOMAIN t = 1 .. Len(t) /\ DOMAIN u = 1 .. Len(s) + Len(t)
      /\ \A n \in 1 .. Len(s) : u[n] = s[n]
      /\ \A n \in 1 .. Len(t) : u[Len(s) + n] = t[n]
  OBVIOUS
<1>2. \A n \in 1 .. Len(s) : n \in DOMAIN u
  BY <1>1
<1>3. \A n \in 1 .. Len(t) : Len(s) + n \in DOMAIN u
  BY <1>1
<1>4. \A n \in DOMAIN u : n \in 1 .. Len(s) \/ \E k \in 1 .. Len(t) : n = Len(s) + k
  <2> SUFFICES ASSUME NEW n \in DOMAIN u, n \notin 1 .. Len(s)
               PROVE  \E k \in 1 .. Len(t) : n = Len(s) + k
    OBVIOUS
  <2>1. n - Len(s) \in 1 .. Len(t) /\ n = Len(s) + (n - Len(s))
    BY <1>1
  <2> QED BY <2>1
<1> HIDE DEF u
<1>5. Range(u) = Range(s) \cup Range(t)
  <2>1. ASSUME NEW x \in Range(u) PROVE x \in Range(s) \cup Range(t)
    <3>1. PICK n \in DOMAIN u : u[n] = x
      BY <2>1 DEF Range
    <3>2. CASE n \in 1 .. Len(s)
      <4>1. n \in DOMAIN s /\ s[n] = x
        BY <1>1, <3>1, <3>2
      <4> QED BY <4>1 DEF Range
    <3>3. CASE n \notin 1 .. Len(s)
      <4>1. PICK k \in 1 .. Len(t) : n = Len(s) + k
        BY <1>4, <3>3
      <4>2. k \in DOMAIN t /\ t[k] = x
        BY <1>1, <3>1, <4>1
      <4> QED BY <4>2 DEF Range
    <3> QED BY <3>2, <3>3
  <2>2. ASSUME NEW x \in Range(s) PROVE x \in Range(u)
    BY <1>1, <1>2, <2>2 DEF Range
  <2>3. ASSUME NEW x \in Range(t) PROVE x \in Range(u)
    BY <1>1, <1>3, <2>3 DEF Range
  <2> QED BY <2>1, <2>2, <2>3
<1>6. ASSUME IsInjective(s), IsInjective(t), Range(s) \cap Range(t) = {} PROVE IsInjective(u)
  <2>1. \A m \in 1 .. Len(s), n \in 1 .. Len(t) : s[m] # t[n]
    BY <1>1, <1>6 DEF Range
  <2>2. ASSUME NEW m \in DOMAIN u, NEW n \in DOMAIN u, u[m] = u[n] PROVE m = n
    <3>1. CASE m \in 1 .. Len(s) /\ n \in 1 .. Len(s)
      BY <1>1, <1>6, <2>2, <3>1 DEF IsInjective
    <3>2. CASE m \in 1 .. Len(s) /\ \E k \in 1 .. Len(t) : n = Len(s) + k
      BY <1>1, <2>1, <2>2, <3>2
    <3>3. CASE n \in 1 .. Len(s) /\ \E k \in 1 .. Len(t) : m = Len(s) + k
      BY <1>1, <2>1, <2>2, <3>3
    <3>4. CASE (\E k \in 1 .. Len(t) : m = Len(s) + k) /\ (\E k \in 1 .. Len(t) : n = Len(s) + k)
      <4>1. PICK j \in 1 .. Len(t), k \in 1 .. Len(t) : m = Len(s) + j /\ n = Len(s) + k
        BY <3>4
      <4>2. t[j] = t[k]
        BY <1>1, <2>2, <4>1
      <4>3. j = k
        BY <1>1, <1>6, <4>2 DEF IsInjective
      <4> QED BY <4>1, <4>3
    <3> QED BY <1>4, <3>1, <3>2, <3>3, <3>4
  <2> QED BY <2>2 DEF IsInjective
<1>7. ASSUME IsInjective(u) PROVE IsInjective(s) /\ IsInjective(t) /\ Range(s) \cap Range(t) = {}
  <2>1. IsInjective(s)
    BY <1>1, <1>2, <1>7 DEF IsInjective
  <2>2. IsInjective(t)
    <3> SUFFICES ASSUME NEW m \in 1 .. Len(t), NEW n \in 1 .. Len(t), t[m] = t[n] PROVE m = n
      BY <1>1 DEF IsInjective
    <3>1. u[Len(s) + m] = u[Len(s) + n]
      BY <1>1
    <3>2. Len(s) + m = Len(s) + n
      BY <1>3, <1>7, <3>1 DEF IsInjective
    <3> QED BY <1>1, <3>2
  <2>3. ASSUME NEW m \in 1 .. Len(s), NEW n \in 1 .. Len(t), s[m] = t[n] PROVE FALSE
    <3>1. u[m] = u[Len(s) + n] /\ m # Len(s) + n
      BY <1>1, <2>3
    <3> QED BY <1>2, <1>3, <1>7, <3>1 DEF IsInjective
  <2>4. Range(s) \cap Range(t) = {}
    BY <1>1, <2>3 DEF Range
  <2> QED BY <2>1, <2>2, <2>4
<1> QED BY <1>1, <1>5, <1>6, <1>7 DEF u

(***************************************************************************)
(* Symbols                                                                   *)
(***************************************************************************)
\* A symbol that has a name is the only one, and not symbol 0.
LEMMA TheSymbol ==
    ASSUME NEW img, HasSymbols(img), NEW name \in Names
    PROVE  /\ LastSymbol(img) \in Nat /\ Symbols(img) = 0 .. LastSymbol(img)
           /\ \A i \in Symbols(img) : img.syms[i].name = name => i \in 1 .. LastSymbol(img) /\ img.syms[i] \in Symbol
           /\ \A i, j \in Symbols(img) : img.syms[i].name = name /\ img.syms[j].name = name => i = j
<1>1. /\ LastSymbol(img) \in Nat /\ Symbols(img) = 0 .. LastSymbol(img)
      /\ img.syms[0].name # name
      /\ \A i \in 1 .. LastSymbol(img) : img.syms[i] \in Symbol
      /\ \A i, j \in 1 .. LastSymbol(img) : img.syms[i].name = img.syms[j].name => i = j
  BY DEF HasSymbols
<1>2. \A i \in 0 .. LastSymbol(img) : i # 0 => i \in 1 .. LastSymbol(img)
  BY <1>1
<1> QED BY <1>1, <1>2

\* The first hit is a symbol of the name, if one is visited.
LEMMA FirstHitIs ==
    ASSUME NEW img, NEW at, DOMAIN at \subseteq Nat, NEW name, NEW types
    PROVE  IF \E n \in DOMAIN at : IsNamed(img, at[n], name, types)
           THEN \E n \in DOMAIN at : FirstHit(img, at, name, types) = at[n] /\ IsNamed(img, at[n], name, types)
           ELSE FirstHit(img, at, name, types) = Null
<1> DEFINE hits == {n \in DOMAIN at : IsNamed(img, at[n], name, types)}
<1>1. CASE hits = {}
  BY <1>1 DEF FirstHit
<1>2. CASE hits # {}
  <2>1. Min(hits) \in hits
    <3>1. hits \subseteq Nat
      OBVIOUS
    <3> HIDE DEF hits
    <3> QED BY <1>2, <3>1, MinOf
  <2>2. FirstHit(img, at, name, types) = at[Min(hits)]
    BY <1>2 DEF FirstHit
  <2> HIDE DEF hits
  <2>3. Min(hits) \in DOMAIN at /\ IsNamed(img, at[Min(hits)], name, types)
    BY <2>1 DEF hits
  <2> QED BY <2>2, <2>3
<1> QED BY <1>1, <1>2

\* So it is that symbol, of the symbols that are visited.
LEMMA HitIs ==
    ASSUME NEW img, HasSymbols(img), NEW name \in Names, NEW types,
           NEW at, DOMAIN at \subseteq Nat, \A n \in DOMAIN at : at[n] \in Symbols(img)
    PROVE  /\ \A n \in DOMAIN at : IsNamed(img, at[n], name, types) =>
                FirstHit(img, at, name, types) = at[n] /\ at[n] \in 1 .. LastSymbol(img)
           /\ (\A n \in DOMAIN at : ~IsNamed(img, at[n], name, types)) => FirstHit(img, at, name, types) = Null
<1>1. IF \E n \in DOMAIN at : IsNamed(img, at[n], name, types)
      THEN \E n \in DOMAIN at : FirstHit(img, at, name, types) = at[n] /\ IsNamed(img, at[n], name, types)
      ELSE FirstHit(img, at, name, types) = Null
  BY FirstHitIs
<1>2. ASSUME NEW n \in DOMAIN at, IsNamed(img, at[n], name, types)
      PROVE  FirstHit(img, at, name, types) = at[n] /\ at[n] \in 1 .. LastSymbol(img)
  <2>1. PICK k \in DOMAIN at : FirstHit(img, at, name, types) = at[k] /\ IsNamed(img, at[k], name, types)
    BY <1>1, <1>2
  <2>2. at[k] \in Symbols(img) /\ at[n] \in Symbols(img)
    OBVIOUS
  <2>3. img.syms[at[k]].name = name /\ img.syms[at[n]].name = name
    BY <1>2, <2>1 DEF IsNamed
  <2>4. at[k] = at[n] /\ at[n] \in 1 .. LastSymbol(img)
    BY <2>2, <2>3, TheSymbol
  <2> QED BY <2>1, <2>4
<1> QED BY <1>1, <1>2

\* What a search for a name finds: the symbol of that name, if it is one of those
\* searched and of one of the types.
Finds(img, found, name, searched, types) ==
    /\ \A i \in searched : IsNamed(img, i, name, types) => found = i
    /\ (\A i \in searched : ~IsNamed(img, i, name, types)) => found = Null

(***************************************************************************)
(* The SYSV hash table                                                       *)
(***************************************************************************)
\* The chain of a bucket, a step at a time.
IsChain(at, img, head, n) ==
    at = [k \in 0 .. n |-> IF k = 0 THEN head
                           ELSE LET i == at[k - 1] IN IF i = 0 THEN 0 ELSE img.sysv.chains[i]]

\* There is one.
LEMMA ChainExists ==
    ASSUME NEW img, NEW head, NEW N \in Nat
    PROVE  \E at : IsChain(at, img, head, N)
<1> DEFINE S == {n \in 0 .. N : \E at : IsChain(at, img, head, n)}
           NextOf(i) == IF i = 0 THEN 0 ELSE img.sysv.chains[i]
<1>1. 0 \in S
  <2>1. IsChain([k \in 0 .. 0 |-> head], img, head, 0)
    BY DEF IsChain
  <2> QED BY <2>1
<1>2. ASSUME NEW n \in 0 .. N - 1, n \in S PROVE n + 1 \in S
  <2>1. PICK at : IsChain(at, img, head, n)
    BY <1>2
  <2> DEFINE new == [k \in 0 .. n + 1 |-> IF k = n + 1 THEN NextOf(at[n]) ELSE at[k]]
  <2>2. \A k \in 0 .. n : at[k] = IF k = 0 THEN head ELSE NextOf(at[k - 1])
    BY <2>1 DEF IsChain
  <2>3. ASSUME NEW k \in 0 .. n + 1 PROVE new[k] = IF k = 0 THEN head ELSE NextOf(new[k - 1])
    <3> HIDE DEF NextOf
    <3>1. n \in Nat /\ (k = 0 \/ k = n + 1 \/ k \in 1 .. n)
      OBVIOUS
    <3>2. CASE k = 0
      BY <2>2, <3>1, <3>2
    <3>3. CASE k = n + 1
      <4>1. k # 0 /\ k - 1 = n /\ n # k /\ n \in 0 .. n + 1
        BY <3>1, <3>3
      <4>2. new[k] = NextOf(at[n]) /\ new[n] = at[n]
        BY <3>3, <4>1
      <4> QED BY <3>3, <4>1, <4>2
    <3>4. CASE k \in 1 .. n
      <4>1. at[k] = NextOf(at[k - 1])
        BY <2>2, <3>1, <3>4
      <4>2. new[k] = at[k] /\ new[k - 1] = at[k - 1] /\ k # 0
        BY <3>1, <3>4
      <4> QED BY <4>1, <4>2
    <3> QED BY <3>1, <3>2, <3>3, <3>4
  <2>4. IsChain(new, img, head, n + 1)
    BY <2>3 DEF IsChain
  <2> QED BY <2>4
<1>3. 0 .. N \subseteq S
  <2> HIDE DEF S
  <2> QED BY <1>1, <1>2, CountUp
<1> QED BY <1>3

\* The buckets of a hash table are numbered from 1.
LEMMA BucketIs ==
    ASSUME NEW hash \in Nat, NEW n \in Nat \ {0}
    PROVE  (hash % n) + 1 \in 1 .. n
OBVIOUS

\* The search of the SYSV table visits the symbol of a name.
LEMMA FindsBySysv ==
    ASSUME NEW img, NEW place, HasSymbols(img), HasSysv(img), IsSysv(img, place), NEW name \in Names
    PROVE  Finds(img, FindBySysv(img, name), name, 1 .. LastSymbol(img), FuncTypes)
<1> DEFINE N == LastSymbol(img)
           head == Bucket(img.sysv, SysvHash[name])
           b == SysvHash[name] % Len(img.sysv.buckets)
           at == CHOOSE a : IsChain(a, img, head, N + 1)
<1>1. N \in Nat /\ Symbols(img) = 0 .. N
  BY TheSymbol
<1>2. Cardinality(Symbols(img)) = N + 1
  <2>1. Cardinality(0 .. N) = N + 1
    BY <1>1, FS_Interval
  <2> QED BY <1>1, <2>1
<1>3. /\ img.sysv.buckets \in Seq(0 .. N)
      /\ img.sysv.chains \in [1 .. N -> 0 .. N]
      /\ place \in [1 .. N -> 0 .. N - 1]
      /\ \A i \in 1 .. N :
          /\ place[i] = 0 => img.sysv.buckets[SysvBucket(img, i) + 1] = i
          /\ place[i] # 0 => \E j \in 1 .. N :
                /\ SysvBucket(img, j) = SysvBucket(img, i)
                /\ place[j] = place[i] - 1 /\ img.sysv.chains[j] = i
  BY DEF IsSysv
<1>4. head \in 0 .. N /\ head = img.sysv.buckets[b + 1]
  <2>1. Len(img.sysv.buckets) \in Nat \ {0}
    BY <1>3 DEF HasSysv
  <2>2. SysvHash[name] \in Nat
    BY ElfReaderAssumption DEF Names
  <2>3. b + 1 \in 1 .. Len(img.sysv.buckets)
    BY <2>1, <2>2, BucketIs
  <2>4. \A k \in 1 .. Len(img.sysv.buckets) : img.sysv.buckets[k] \in 0 .. N
    <3>1. img.sysv.buckets \in Seq(0 .. N)
      BY <1>3
    <3> QED BY ONLY <3>1, ElementOfSeq
  <2> QED BY ONLY <2>3, <2>4 DEF Bucket
<1>5. IsChain(at, img, head, N + 1)
  BY <1>1, ChainExists
<1>6. FindBySysv(img, name) = FirstHit(img, [n \in {m \in DOMAIN at : at[m] # 0} |-> at[n]], name, FuncTypes)
  BY <1>2 DEF FindBySysv, IsChain
<1> HIDE DEF at
<1>7. /\ DOMAIN at = 0 .. N + 1 /\ at[0] = head
      /\ \A k \in 1 .. N + 1 : at[k] = IF at[k - 1] = 0 THEN 0 ELSE img.sysv.chains[at[k - 1]]
  BY <1>1, <1>5 DEF IsChain
<1> HIDE DEF head, b
<1>8. \A k \in 0 .. N + 1 : at[k] \in 0 .. N
  <2> DEFINE M == N + 1
             S == {k \in 0 .. M : at[k] \in 0 .. N}
  <2>1. 0 \in S
    BY <1>1, <1>4, <1>7
  <2>2. ASSUME NEW k \in 0 .. M - 1, k \in S PROVE k + 1 \in S
    <3>1. k + 1 \in 1 .. N + 1 /\ k + 1 \in 0 .. N + 1 /\ k + 1 - 1 = k
      BY <1>1
    <3>2. at[k + 1] = IF at[k] = 0 THEN 0 ELSE img.sysv.chains[at[k]]
      BY <1>7, <3>1
    <3>3. at[k] # 0 => at[k] \in 1 .. N
      BY <1>1, <2>2
    <3>4. at[k + 1] \in 0 .. N
      BY <1>1, <1>3, <3>2, <3>3
    <3> QED BY <3>1, <3>4
  <2>3. 0 .. M \subseteq S
    <3>1. M \in Nat
      BY <1>1
    <3> HIDE DEF S, M
    <3> QED BY <2>1, <2>2, <3>1, CountUp
  <2> QED BY <2>3
<1>9. \A k \in 0 .. N : \A i \in 1 .. N : SysvBucket(img, i) = b /\ place[i] = k => at[k] = i
  <2> DEFINE S == {k \in 0 .. N : \A i \in 1 .. N : SysvBucket(img, i) = b /\ place[i] = k => at[k] = i}
  <2>1. 0 \in S
    <3>1. \A i \in 1 .. N : SysvBucket(img, i) = b /\ place[i] = 0 => at[0] = i
      BY <1>3, <1>4, <1>7
    <3> QED BY <1>1, <3>1
  <2>2. ASSUME NEW k \in 0 .. N - 1, k \in S PROVE k + 1 \in S
    <3>1. k + 1 \in 1 .. N + 1 /\ k + 1 \in 0 .. N /\ k + 1 - 1 = k /\ k + 1 # 0
      BY <1>1
    <3>2. at[k + 1] = IF at[k] = 0 THEN 0 ELSE img.sysv.chains[at[k]]
      BY <1>7, <3>1
    <3>3. ASSUME NEW i \in 1 .. N, SysvBucket(img, i) = b, place[i] = k + 1 PROVE at[k + 1] = i
      <4>1. PICK j \in 1 .. N : SysvBucket(img, j) = b /\ place[j] = k + 1 - 1 /\ img.sysv.chains[j] = i
        BY <1>3, <3>1, <3>3
      <4>2. at[k] = j /\ j # 0
        BY <2>2, <3>1, <4>1
      <4> QED BY <3>2, <4>1, <4>2
    <3> QED BY <3>1, <3>3
  <2>3. 0 .. N \subseteq S
    <3> HIDE DEF S
    <3> QED BY <1>1, <2>1, <2>2, CountUp
  <2> QED BY <2>3
<1> DEFINE visited == [n \in {m \in DOMAIN at : at[m] # 0} |-> at[n]]
<1>10. /\ DOMAIN visited = {m \in 0 .. N + 1 : at[m] # 0}
       /\ \A n \in DOMAIN visited : visited[n] = at[n] /\ visited[n] \in 1 .. N
  BY <1>1, <1>7, <1>8
<1>11. ASSUME NEW i \in 1 .. N, IsNamed(img, i, name, FuncTypes) PROVE \E n \in DOMAIN visited : visited[n] = i
  <2>1. SysvBucket(img, i) = b
    BY <1>11 DEF SysvBucket, IsNamed, b
  <2>2. place[i] \in 0 .. N /\ place[i] \in 0 .. N + 1
    BY <1>1, <1>3
  <2>3. at[place[i]] = i /\ i # 0
    BY <1>1, <1>9, <2>1, <2>2
  <2> QED BY <1>10, <2>2, <2>3
<1>12. DOMAIN visited \subseteq Nat /\ \A n \in DOMAIN visited : visited[n] \in Symbols(img)
  BY <1>1, <1>10
<1>13. FindBySysv(img, name) = FirstHit(img, visited, name, FuncTypes)
  BY <1>6
<1> HIDE DEF visited, N
<1>14. /\ \A n \in DOMAIN visited : IsNamed(img, visited[n], name, FuncTypes) =>
                FindBySysv(img, name) = visited[n]
       /\ (\A n \in DOMAIN visited : ~IsNamed(img, visited[n], name, FuncTypes)) => FindBySysv(img, name) = Null
  BY <1>12, <1>13, HitIs
<1> QED BY <1>10, <1>11, <1>14 DEF Finds, N

(***************************************************************************)
(* The GNU hash table                                                        *)
(***************************************************************************)
\* The chain from a symbol ends at the first one marked, and one is.
LEMMA ChainFromIs ==
    ASSUME NEW img, HasSymbols(img), IsGnu(img), NEW i \in img.gnu.symoffset .. LastSymbol(img)
    PROVE  /\ ChainFrom(img, i) \subseteq i .. LastSymbol(img)
           /\ \A j \in i .. LastSymbol(img) : (\A k \in i .. j - 1 : ~img.gnu.chains[k].last) => j \in ChainFrom(img, i)
<1> DEFINE N == LastSymbol(img)
           last == {j \in DOMAIN img.gnu.chains : j >= i /\ img.gnu.chains[j].last}
<1>1. N \in Nat /\ img.gnu.symoffset \in 1 .. N + 1 /\ i \in 1 .. N
  <2>1. N \in Nat
    BY TheSymbol DEF HasSymbols
  <2>2. img.gnu.symoffset \in 1 .. N + 1
    BY DEF IsGnu
  <2> QED BY <2>1, <2>2
<1>2. DOMAIN img.gnu.chains = img.gnu.symoffset .. N
  BY DEF IsGnu
<1>3. img.gnu.chains[N].last
  <2>1. N \in img.gnu.symoffset .. N
    BY <1>1
  <2> QED BY <2>1 DEF IsGnu
<1>4. N \in last /\ last \subseteq i .. N /\ last \subseteq Nat
  BY <1>1, <1>2, <1>3
<1>5. Min(last) \in last /\ \A j \in last : Min(last) <= j
  <2> HIDE DEF last
  <2> QED BY <1>4, MinOf
<1>6. ChainFrom(img, i) = i .. Min(last)
  BY DEF ChainFrom
<1>7. ASSUME NEW j \in i .. N, \A k \in i .. j - 1 : ~img.gnu.chains[k].last PROVE j \in i .. Min(last)
  <2>1. Min(last) \in i .. N /\ img.gnu.chains[Min(last)].last
    BY <1>4, <1>5
  <2> HIDE DEF last
  <2>2. ~(Min(last) < j)
    BY <1>1, <1>7, <2>1
  <2> QED BY <1>1, <2>1, <2>2
<1>8. i .. Min(last) \subseteq i .. N
  <2>1. Min(last) \in i .. N
    BY <1>4, <1>5
  <2>2. N \in Nat /\ i \in Nat
    BY <1>1
  <2>3. ASSUME NEW m \in i .. N PROVE i .. m \subseteq i .. N
    BY ONLY <2>2, <2>3
  <2> QED BY <2>1, <2>3
<1> QED BY <1>6, <1>7, <1>8

\* The search of the GNU table finds a symbol that is defined.
LEMMA FindsByGnu ==
    ASSUME NEW img, HasSymbols(img), IsGnu(img), HasGnu(img), NEW name \in Names
    PROVE  Finds(img, FindByGnu(img, name), name, img.gnu.symoffset .. LastSymbol(img), FuncTypes)
<1> DEFINE N == LastSymbol(img)
           hash == GnuHash[name]
           i == Bucket(img.gnu, hash)
           chain == {j \in ChainFrom(img, i) : img.gnu.chains[j].hash = hash \div 2}
           at == [j \in chain |-> j]
           off == img.gnu.symoffset
<1>1. N \in Nat /\ Symbols(img) = 0 .. N /\ off \in 1 .. N + 1
  BY TheSymbol DEF IsGnu
<1>2. i \in {0} \cup off .. N
  <2>1. Len(img.gnu.buckets) \in Nat \ {0} /\ img.gnu.buckets \in Seq({0} \cup off .. N)
    <3>1. img.gnu.buckets \in Seq({0} \cup off .. N)
      BY DEF IsGnu
    <3>2. img.gnu.buckets # <<>>
      BY DEF HasGnu
    <3> HIDE DEF off, N
    <3> QED BY ONLY <3>1, <3>2
  <2>2. hash \in Nat
    BY ElfReaderAssumption DEF Names
  <2>3. (hash % Len(img.gnu.buckets)) + 1 \in 1 .. Len(img.gnu.buckets)
    BY <2>1, <2>2, BucketIs
  <2>4. \A k \in 1 .. Len(img.gnu.buckets) : img.gnu.buckets[k] \in {0} \cup off .. N
    BY <2>1
  <2> QED BY ONLY <2>3, <2>4 DEF Bucket
<1>3. FindByGnu(img, name) =
        IF ~InBloom(img.gnu, hash) \/ i < off THEN Null ELSE FirstHit(img, at, name, FuncTypes)
  BY DEF FindByGnu
<1>4. ASSUME NEW j \in off .. N, IsNamed(img, j, name, FuncTypes)
      PROVE  InBloom(img.gnu, hash) /\ i \in off .. j /\ j \in chain
  <2>1. img.syms[j].name = name
    BY <1>4 DEF IsNamed
  <2>2. /\ img.gnu.buckets[GnuBucket(img, j) + 1] \in off .. j
        /\ \A k \in img.gnu.buckets[GnuBucket(img, j) + 1] .. j : GnuBucket(img, k) = GnuBucket(img, j)
        /\ img.gnu.chains[j].hash = hash \div 2
        /\ {hash % 64, (hash \div 2 ^ img.gnu.shift) % 64}
               \subseteq img.gnu.bloom[((hash \div 64) % Len(img.gnu.bloom)) + 1]
    BY <1>4, <2>1 DEF IsGnu
  <2>3. i = img.gnu.buckets[GnuBucket(img, j) + 1]
    BY <2>1 DEF Bucket, GnuBucket
  <2>4. InBloom(img.gnu, hash)
    BY <2>2 DEF InBloom
  <2> HIDE DEF i, hash
  <2>5. i \in off .. j /\ \A k \in i .. j : GnuBucket(img, k) = GnuBucket(img, j)
    BY <2>2, <2>3
  <2>6. ASSUME NEW k \in i .. j - 1 PROVE ~img.gnu.chains[k].last
    <3>1. k \in i .. j /\ k + 1 \in i .. j /\ k \in off .. N /\ k # N
      BY <1>1, <2>5
    <3>2. GnuBucket(img, k + 1) = GnuBucket(img, k)
      BY <2>5, <3>1
    <3>3. img.gnu.chains[k].last <=> k = N \/ GnuBucket(img, k + 1) # GnuBucket(img, k)
      BY <3>1 DEF IsGnu
    <3> QED BY <3>1, <3>2, <3>3
  <2>7. i \in off .. N /\ j \in i .. N
    BY <1>1, <2>5
  <2>8. j \in ChainFrom(img, i)
    BY <2>6, <2>7, ChainFromIs
  <2> QED BY <2>2, <2>4, <2>5, <2>8
<1>5. CASE InBloom(img.gnu, hash) /\ i \in off .. N
  <2>1. ChainFrom(img, i) \subseteq i .. N
    BY <1>5, ChainFromIs
  <2>2. chain \subseteq off .. N /\ DOMAIN at = chain /\ \A j \in chain : at[j] = j
    BY <1>1, <1>5, <2>1
  <2>3. DOMAIN at \subseteq Nat /\ \A j \in DOMAIN at : at[j] \in Symbols(img)
    BY <1>1, <2>2
  <2>4. FindByGnu(img, name) = FirstHit(img, at, name, FuncTypes)
    BY <1>1, <1>3, <1>5
  <2> HIDE DEF chain, at, i, hash, off, N
  <2>5. /\ \A n \in DOMAIN at : IsNamed(img, at[n], name, FuncTypes) => FindByGnu(img, name) = at[n]
        /\ (\A n \in DOMAIN at : ~IsNamed(img, at[n], name, FuncTypes)) => FindByGnu(img, name) = Null
    BY <2>3, <2>4, HitIs
  <2>6. /\ \A j \in off .. N : IsNamed(img, j, name, FuncTypes) => FindByGnu(img, name) = j
        /\ (\A j \in off .. N : ~IsNamed(img, j, name, FuncTypes)) => FindByGnu(img, name) = Null
    BY <1>4, <2>2, <2>5
  <2> QED BY <2>6 DEF Finds, off, N
<1>6. CASE ~(InBloom(img.gnu, hash) /\ i \in off .. N)
  <2>1. FindByGnu(img, name) = Null
    BY <1>1, <1>2, <1>3, <1>6
  <2>2. \A j \in off .. N : ~IsNamed(img, j, name, FuncTypes)
    <3> SUFFICES ASSUME NEW j \in off .. N, IsNamed(img, j, name, FuncTypes) PROVE FALSE
      OBVIOUS
    <3>1. InBloom(img.gnu, hash) /\ i \in off .. j
      BY <1>4
    <3>2. off .. j \subseteq off .. N
      BY <1>1
    <3> QED BY <1>6, <3>1, <3>2
  <2> QED BY <2>1, <2>2 DEF Finds
<1> QED BY <1>5, <1>6

(***************************************************************************)
(* The import table, and the symbols of relocations                          *)
(***************************************************************************)
\* The search of the import table finds functions that are not ifuncs.
LEMMA FindsByImports ==
    ASSUME NEW img, HasSymbols(img), NEW name \in Names, img.gnu.symoffset \in 0 .. LastSymbol(img) + 1
    PROVE  Finds(img, FindByImports(img, name), name, 1 .. img.gnu.symoffset - 1, {"func", "notype"})
<1> DEFINE N == LastSymbol(img)
           off == img.gnu.symoffset
           types == {"func", "notype"}
           searched == {j \in Symbols(img) : j < off}
           at == [i \in searched |-> i]
<1>1. N \in Nat /\ Symbols(img) = 0 .. N /\ off \in 0 .. N + 1
  BY TheSymbol
<1>2. DOMAIN at = searched /\ searched \subseteq Nat /\ \A i \in searched : at[i] = i
  BY <1>1
<1>3. \A i \in 0 .. N : IsNamed(img, i, name, types) => i \in 1 .. N
  BY <1>1, TheSymbol DEF IsNamed
<1>4. FindByImports(img, name) = FirstHit(img, at, name, types)
  BY DEF FindByImports
<1>5. /\ 1 .. off - 1 \subseteq searched
      /\ \A i \in searched : i \in Symbols(img) /\ (i \in 1 .. N => i \in 1 .. off - 1)
  BY <1>1
<1>8. DOMAIN at \subseteq Nat /\ \A n \in DOMAIN at : at[n] \in Symbols(img)
  BY <1>2, <1>5
<1> HIDE DEF at, searched, types
<1>6. /\ \A n \in DOMAIN at : IsNamed(img, at[n], name, types) => FindByImports(img, name) = at[n]
      /\ (\A n \in DOMAIN at : ~IsNamed(img, at[n], name, types)) => FindByImports(img, name) = Null
  BY <1>4, <1>8, HitIs
<1> HIDE DEF off, N
<1>7. /\ \A i \in 1 .. off - 1 : IsNamed(img, i, name, types) => FindByImports(img, name) = i
      /\ (\A i \in 1 .. off - 1 : ~IsNamed(img, i, name, types)) => FindByImports(img, name) = Null
  BY <1>1, <1>2, <1>3, <1>5, <1>6
<1> QED BY <1>7 DEF Finds, off, types

\* A search of relocations finds the symbol of a name that one of them has.
LEMMA FindsByRelocs ==
    ASSUME NEW img, HasSymbols(img), NEW name \in Names,
           NEW relocs \in Seq(Reloc(img))
    PROVE  LET found == FindByRelocs(img, relocs, name)
           IN  /\ found # Null => found \in 1 .. LastSymbol(img) /\ img.syms[found].name = name
               /\ \A r \in Range(relocs) : img.syms[r.sym].name = name => found = r.sym
<1> DEFINE hits == {n \in DOMAIN relocs : img.syms[relocs[n].sym].name = name}
           found == FindByRelocs(img, relocs, name)
<1>1. ASSUME NEW n \in DOMAIN relocs PROVE relocs[n].sym \in Symbols(img)
  <2>1. relocs[n] \in Reloc(img)
    OBVIOUS
  <2> QED BY ONLY <2>1 DEF Reloc
<1>2. CASE hits = {}
  <2>1. found = Null
    BY <1>2 DEF FindByRelocs
  <2>2. \A r \in Range(relocs) : img.syms[r.sym].name # name
    BY <1>2 DEF Range
  <2> QED BY <2>1, <2>2
<1>3. CASE hits # {}
  <2>1. Min(hits) \in hits
    <3>1. hits \subseteq Nat
      OBVIOUS
    <3> HIDE DEF hits
    <3> QED BY <1>3, <3>1, MinOf
  <2>2. found = relocs[Min(hits)].sym
    BY <1>3 DEF FindByRelocs
  <2>7. \E m \in DOMAIN relocs : found = relocs[m].sym /\ img.syms[relocs[m].sym].name = name
    <3>1. Min(hits) \in DOMAIN relocs /\ img.syms[relocs[Min(hits)].sym].name = name
      BY <2>1
    <3> HIDE DEF hits, found
    <3> QED BY <2>2, <3>1
  <2>8. PICK m \in DOMAIN relocs : found = relocs[m].sym /\ img.syms[relocs[m].sym].name = name
    BY <2>7
  <2>3. found \in Symbols(img) /\ img.syms[found].name = name
    <3>1. relocs[m].sym \in Symbols(img)
      BY <1>1
    <3> HIDE DEF hits, found
    <3> QED BY ONLY <2>8, <3>1
  <2> HIDE DEF hits, found
  <2>4. found \in 1 .. LastSymbol(img)
    BY <2>3, TheSymbol
  <2>5. \A r \in Range(relocs) : r.sym \in Symbols(img)
    BY <1>1 DEF Range
  <2>6. \A r \in Range(relocs) : img.syms[r.sym].name = name => found = r.sym
    BY <2>3, <2>5, TheSymbol
  <2> QED BY <2>3, <2>4, <2>6 DEF found
<1> QED BY <1>2, <1>3

\* What the searches find of one symbol of the name, i.
LEMMA SearchesFind ==
    ASSUME NEW img, NEW place, HasSymbols(img), HasTables(img, place),
           NEW name \in Names, IsFuncName(img, name),
           NEW i \in 1 .. LastSymbol(img), img.syms[i].name = name
    PROVE  /\ HasSysv(img) => FindBySysv(img, name) = i
           /\ FindByImports(img, name) = IF HasGnu(img) /\ img.syms[i].undef THEN i ELSE Null
           /\ HasGnu(img) => FindByGnu(img, name) = IF img.syms[i].undef THEN Null ELSE i
<1> DEFINE N == LastSymbol(img)
           off == img.gnu.symoffset
<1>1. N \in Nat /\ \A j \in 1 .. N : img.syms[j].name = name => j = i
  <2>1. /\ N \in Nat /\ Symbols(img) = 0 .. N
        /\ \A j, k \in Symbols(img) : img.syms[j].name = name /\ img.syms[k].name = name => j = k
    BY TheSymbol
  <2>2. \A j \in 1 .. N : j \in Symbols(img)
    BY <2>1
  <2> QED BY <2>1, <2>2
<1>2. \A types : \A j \in 1 .. N : IsNamed(img, j, name, types) => j = i
  BY <1>1 DEF IsNamed
<1>3. IsNamed(img, i, name, FuncTypes)
  BY DEF IsNamed, IsFuncName
<1>4. HasSysv(img) => FindBySysv(img, name) = i
  BY <1>3, FindsBySysv DEF HasTables, Finds
<1>5. CASE HasGnu(img)
  <2>1. IsGnu(img)
    BY <1>5 DEF HasTables
  <2>2. off \in 1 .. N + 1 /\ (img.syms[i].undef <=> i < off)
    BY <2>1 DEF IsGnu
  <2>3. Finds(img, FindByGnu(img, name), name, off .. N, FuncTypes)
    BY <1>5, <2>1, FindsByGnu
  <2>4. Finds(img, FindByImports(img, name), name, 1 .. off - 1, {"func", "notype"})
    <3>1. off \in 0 .. N + 1
      BY <1>1, <2>2
    <3> QED BY <3>1, FindsByImports
  <2>5. CASE img.syms[i].undef
    <3>1. i \in 1 .. off - 1 /\ off - 1 <= N /\ i \notin off .. N /\ off .. N \subseteq 1 .. N
      BY <1>1, <2>2, <2>5
    <3>2. IsNamed(img, i, name, {"func", "notype"})
      <4>1. img.syms[i].type # "ifunc"
        BY <2>5 DEF HasSymbols
      <4> QED BY <1>3, <4>1 DEF IsNamed, FuncTypes
    <3>3. FindByImports(img, name) = i
      BY <2>4, <3>1, <3>2 DEF Finds
    <3>4. FindByGnu(img, name) = Null
      <4>1. \A j \in off .. N : ~IsNamed(img, j, name, FuncTypes)
        BY <1>2, <3>1
      <4> QED BY <2>3, <4>1 DEF Finds
    <3> QED BY <1>4, <1>5, <2>5, <3>3, <3>4
  <2>6. CASE ~img.syms[i].undef
    <3>1. i \in off .. N /\ i \notin 1 .. off - 1 /\ 1 .. off - 1 \subseteq 1 .. N
      BY <1>1, <2>2, <2>6
    <3>2. FindByGnu(img, name) = i
      BY <1>3, <2>3, <3>1 DEF Finds
    <3>3. FindByImports(img, name) = Null
      <4>1. \A j \in 1 .. off - 1 : ~IsNamed(img, j, name, {"func", "notype"})
        BY <1>2, <3>1
      <4> QED BY <2>4, <4>1 DEF Finds
    <3> QED BY <1>4, <1>5, <2>6, <3>2, <3>3
  <2> QED BY <2>5, <2>6
<1>6. CASE ~HasGnu(img)
  <2>1. off = 0
    BY <1>6 DEF HasTables
  <2>2. Finds(img, FindByImports(img, name), name, 1 .. off - 1, {"func", "notype"})
    <3>1. off \in 0 .. N + 1
      BY <1>1, <2>1
    <3> QED BY <3>1, FindsByImports
  <2>3. 1 .. off - 1 = {}
    BY <2>1
  <2>4. FindByImports(img, name) = Null
    BY <2>2, <2>3 DEF Finds
  <2> QED BY <1>4, <1>6, <2>4
<1> QED BY <1>5, <1>6

\* No search finds a symbol if none has the name.
LEMMA SearchesMiss ==
    ASSUME NEW img, NEW place, HasSymbols(img), HasTables(img, place), NEW name \in Names,
           \A i \in 1 .. LastSymbol(img) : img.syms[i].name # name
    PROVE  /\ HasSysv(img) => FindBySysv(img, name) = Null
           /\ FindByImports(img, name) = Null
           /\ HasGnu(img) => FindByGnu(img, name) = Null
<1> DEFINE N == LastSymbol(img)
           off == img.gnu.symoffset
<1>1. N \in Nat
  BY TheSymbol
<1>2. \A types : \A i \in 1 .. N : ~IsNamed(img, i, name, types)
  BY DEF IsNamed
<1>3. HasGnu(img) => IsGnu(img) /\ off \in 1 .. N + 1
  BY DEF HasTables, IsGnu
<1>4. off \in 0 .. N + 1
  <2>1. ~HasGnu(img) => off = 0
    BY DEF HasTables
  <2> QED BY <1>1, <1>3, <2>1
<1>5. 1 .. off - 1 \subseteq 1 .. N
  BY <1>1, <1>4
<1>6. HasSysv(img) => FindBySysv(img, name) = Null
  BY <1>2, FindsBySysv DEF HasTables, Finds
<1>7. HasGnu(img) => FindByGnu(img, name) = Null
  <2> SUFFICES ASSUME HasGnu(img) PROVE FindByGnu(img, name) = Null
    OBVIOUS
  <2>1. off .. N \subseteq 1 .. N
    BY <1>1, <1>3
  <2>2. Finds(img, FindByGnu(img, name), name, off .. N, FuncTypes)
    BY <1>3, FindsByGnu
  <2> QED BY <1>2, <2>1, <2>2 DEF Finds
<1>8. FindByImports(img, name) = Null
  <2>1. Finds(img, FindByImports(img, name), name, 1 .. off - 1, {"func", "notype"})
    BY <1>4, FindsByImports
  <2> QED BY <1>2, <1>5, <2>1 DEF Finds
<1> QED BY <1>6, <1>7, <1>8

\* The symbol of a function that is looked for, be it imported or not.
LEMMA ImportSymbolIs ==
    ASSUME NEW img, NEW place, HasSymbols(img), HasTables(img, place),
           img.plt \in Seq(Reloc(img)), img.dyn \in Seq(Reloc(img)),
           NEW name \in Names, IsFuncName(img, name), ~Unseen(img, name)
    PROVE  /\ \A i \in 1 .. LastSymbol(img) : img.syms[i].name = name => ImportSymbol(img, name) = i
           /\ (\A i \in 1 .. LastSymbol(img) : img.syms[i].name # name) => ImportSymbol(img, name) = Null
<1> DEFINE found(relocs) == FindByRelocs(img, relocs, name)
<1>1. /\ found(img.plt) # Null => found(img.plt) \in 1 .. LastSymbol(img) /\ img.syms[found(img.plt)].name = name
      /\ \A r \in Range(img.plt) : img.syms[r.sym].name = name => found(img.plt) = r.sym
  BY FindsByRelocs
<1>2. /\ found(img.dyn) # Null => found(img.dyn) \in 1 .. LastSymbol(img) /\ img.syms[found(img.dyn)].name = name
      /\ \A r \in Range(img.dyn) : img.syms[r.sym].name = name => found(img.dyn) = r.sym
  BY FindsByRelocs
<1>3. ASSUME NEW i \in 1 .. LastSymbol(img), img.syms[i].name = name PROVE ImportSymbol(img, name) = i
  <2>1. /\ HasSysv(img) => FindBySysv(img, name) = i
        /\ FindByImports(img, name) = IF HasGnu(img) /\ img.syms[i].undef THEN i ELSE Null
        /\ HasGnu(img) => FindByGnu(img, name) = IF img.syms[i].undef THEN Null ELSE i
    BY <1>3, SearchesFind
  <2>2. i # Null
    BY DEF Null
  <2>3. CASE HasGnu(img)
    BY <2>1, <2>2, <2>3 DEF ImportSymbol, IsImport, IsExport
  <2>4. CASE ~HasGnu(img) /\ img.syms[i].undef
    <3>1. HasSysv(img)
      BY <2>4 DEF HasTables
    <3> QED BY <2>1, <2>2, <2>4, <3>1 DEF ImportSymbol, IsImport
  <2>5. CASE ~HasGnu(img) /\ ~img.syms[i].undef
    <3>1. HasSysv(img)
      BY <2>5 DEF HasTables
    <3>2. PICK r \in Range(img.plt) \cup Range(img.dyn) : img.syms[r.sym].name = name
      BY <1>3, <2>5 DEF Unseen
    <3>3. ImportSymbol(img, name) = IF found(img.plt) # Null THEN found(img.plt) ELSE found(img.dyn)
      BY <2>1, <2>2, <2>5, <3>1 DEF ImportSymbol, IsImport, IsExport
    <3>4. \A j \in 1 .. LastSymbol(img) : img.syms[j].name = name => j = i
      BY <1>3 DEF HasSymbols
    <3>5. CASE found(img.plt) # Null
      BY <1>1, <3>3, <3>4, <3>5
    <3>6. CASE found(img.plt) = Null
      <4> DEFINE d == found(img.dyn)
      <4>1. found(img.plt) = Null /\ ImportSymbol(img, name) = d
        BY <3>3, <3>6
      <4>2. r.sym # Null
        <5>1. img.syms[0].name # name
          BY DEF HasSymbols
        <5> QED BY <3>2, <5>1 DEF Null
      <4>3. r \notin Range(img.plt)
        BY <1>1, <3>2, <4>1, <4>2
      <4>4. d = r.sym
        BY <1>2, <3>2, <4>3
      <4> HIDE DEF d
      <4>5. d \in 1 .. LastSymbol(img) /\ img.syms[d].name = name
        BY <1>2, <4>2, <4>4 DEF d
      <4> QED BY <3>4, <4>1, <4>5
    <3> QED BY <3>5, <3>6
  <2> QED BY <2>3, <2>4, <2>5
<1>4. ASSUME \A i \in 1 .. LastSymbol(img) : img.syms[i].name # name PROVE ImportSymbol(img, name) = Null
  <2>1. /\ HasSysv(img) => FindBySysv(img, name) = Null
        /\ FindByImports(img, name) = Null
        /\ HasGnu(img) => FindByGnu(img, name) = Null
    BY <1>4, SearchesMiss
  <2>2. found(img.plt) = Null /\ found(img.dyn) = Null
    BY <1>1, <1>2, <1>4
  <2> QED BY <2>1, <2>2 DEF ImportSymbol, IsImport, IsExport
<1> QED BY <1>3, <1>4

\* A function of the ELF itself is found, and no other one.
LEMMA ExportIsFound ==
    ASSUME NEW img, NEW place, HasSymbols(img), HasTables(img, place),
           NEW name \in Names, IsFuncName(img, name)
    PROVE  ExportFound(img, name)
<1>1. ASSUME NEW i \in 1 .. LastSymbol(img), img.syms[i].name = name
      PROVE  ExportSymbol(img, name) = IF img.syms[i].undef THEN Null ELSE i
  <2>1. /\ HasSysv(img) => FindBySysv(img, name) = i
        /\ HasGnu(img) => FindByGnu(img, name) = IF img.syms[i].undef THEN Null ELSE i
    BY <1>1, SearchesFind
  <2>2. i # Null /\ (HasSysv(img) \/ HasGnu(img))
    BY DEF Null, HasTables
  <2> QED BY <2>1, <2>2 DEF ExportSymbol, IsExport
<1>2. ASSUME \A i \in 1 .. LastSymbol(img) : img.syms[i].name # name PROVE ExportSymbol(img, name) = Null
  <2>1. /\ HasSysv(img) => FindBySysv(img, name) = Null
        /\ HasGnu(img) => FindByGnu(img, name) = Null
    BY <1>2, SearchesMiss
  <2> QED BY <2>1 DEF ExportSymbol, IsExport
<1>3. \A i, j \in 1 .. LastSymbol(img) : img.syms[i].name = name /\ img.syms[j].name = name => i = j
  BY DEF HasSymbols
<1>4. CASE \E i \in 1 .. LastSymbol(img) : img.syms[i].name = name /\ ~img.syms[i].undef
  <2>1. PICK i \in 1 .. LastSymbol(img) : img.syms[i].name = name /\ ~img.syms[i].undef
    BY <1>4
  <2>2. ExportSymbol(img, name) = i /\ i # Null
    BY <1>1, <2>1 DEF Null
  <2> QED BY <1>4, <2>1, <2>2 DEF ExportFound
<1>5. CASE ~ \E i \in 1 .. LastSymbol(img) : img.syms[i].name = name /\ ~img.syms[i].undef
  <2>1. ExportSymbol(img, name) = Null
    BY <1>1, <1>2, <1>5
  <2> QED BY <1>5, <2>1 DEF ExportFound
<1> QED BY <1>4, <1>5

(***************************************************************************)
(* Packed relocations: one group                                             *)
(***************************************************************************)
\* h has the four parts.
HasParts(h, t, u, v, w) ==
    /\ DOMAIN h = 1 .. Len(h)
    /\ Len(h) = Len(t) + Len(u) + Len(v) + Len(w)
    /\ \A k \in 1 .. Len(t) : h[k] = t[k]
    /\ \A k \in 1 .. Len(u) : h[Len(t) + k] = u[k]
    /\ \A k \in 1 .. Len(v) : h[Len(t) + Len(u) + k] = v[k]

LEMMA FourParts ==
    ASSUME NEW U, NEW t \in Seq(U), NEW u \in Seq(U), NEW v \in Seq(U), NEW w \in Seq(U)
    PROVE  HasParts(((t \o u) \o v) \o w, t, u, v, w)
<1> DEFINE a == t \o u
           b == a \o v
           h == b \o w
<1>12. ASSUME NEW p \in Seq(U), NEW q \in Seq(U)
       PROVE  /\ p \o q \in Seq(U) /\ Len(p \o q) = Len(p) + Len(q)
              /\ \A k \in 1 .. Len(p) : (p \o q)[k] = p[k]
              /\ \A k \in 1 .. Len(q) : (p \o q)[Len(p) + k] = q[k]
  OBVIOUS
<1>1. /\ a \in Seq(U) /\ Len(t) \in Nat /\ Len(u) \in Nat /\ Len(v) \in Nat /\ Len(w) \in Nat
      /\ Len(a) = Len(t) + Len(u)
      /\ \A k \in 1 .. Len(t) : a[k] = t[k]
      /\ \A k \in 1 .. Len(u) : a[Len(t) + k] = u[k]
  OBVIOUS
<1> HIDE DEF a
<1>2. /\ b \in Seq(U) /\ Len(b) = Len(a) + Len(v)
      /\ \A k \in 1 .. Len(a) : b[k] = a[k]
      /\ \A k \in 1 .. Len(v) : b[Len(a) + k] = v[k]
  <2>1. a \in Seq(U)
    BY <1>1
  <2> QED BY <2>1, <1>12
<1> HIDE DEF b
<1>3. /\ h \in Seq(U) /\ Len(h) = Len(b) + Len(w)
      /\ \A k \in 1 .. Len(b) : h[k] = b[k]
  <2>1. b \in Seq(U)
    BY <1>2
  <2> QED BY <2>1, <1>12
<1>4. DOMAIN h = 1 .. Len(h)
  BY <1>3
<1> HIDE DEF h
<1>5. \A k \in 1 .. Len(t) : k \in 1 .. Len(a) /\ k \in 1 .. Len(b)
  BY <1>1, <1>2
<1>6. \A k \in 1 .. Len(u) : Len(t) + k \in 1 .. Len(a) /\ Len(t) + k \in 1 .. Len(b)
  BY <1>1, <1>2
<1>7. \A k \in 1 .. Len(v) : Len(a) + k \in 1 .. Len(b) /\ Len(a) + k = Len(t) + Len(u) + k
  BY <1>1, <1>2
<1>8. Len(h) = Len(t) + Len(u) + Len(v) + Len(w)
  BY <1>1, <1>2, <1>3
<1>9. \A k \in 1 .. Len(t) : h[k] = t[k]
  BY <1>1, <1>2, <1>3, <1>5
<1>10. \A k \in 1 .. Len(u) : h[Len(t) + k] = u[k]
  BY <1>1, <1>2, <1>3, <1>6
<1>11. \A k \in 1 .. Len(v) : h[Len(t) + Len(u) + k] = v[k]
  BY <1>1, <1>2, <1>3, <1>7
<1>13. HasParts(h, t, u, v, w)
  BY <1>4, <1>8, <1>9, <1>10, <1>11 DEF HasParts
<1> QED BY <1>13 DEF h, b, a

\* The header of a group.
LEMMA HeaderIs ==
    ASSUME NEW lib, NEW group
    PROVE  LET h == Header(lib, group)
           IN  /\ Len(h) = HeaderLen(group.flags) /\ DOMAIN h = 1 .. Len(h)
               /\ Len(h) \in 2 .. 5
               /\ h[1] = group.size /\ h[2] = group.flags
               /\ "offset_delta" \in group.flags => h[3] = Delta(lib, group.first)
               /\ "info" \in group.flags => h[3 + One("offset_delta" \in group.flags)] = Info(lib, group.first)
<1> DEFINE x == Delta(lib, group.first)
           y == Info(lib, group.first)
           u == When("offset_delta" \in group.flags, <<x>>)
           v == When("info" \in group.flags, <<y>>)
           w == When({"addend", "has_addend"} \subseteq group.flags, <<0>>)
           U == {group.size, group.flags, x, y, 0}
           t == <<group.size, group.flags>>
           h == ((t \o u) \o v) \o w
           ou == One("offset_delta" \in group.flags)
           ov == One("info" \in group.flags)
           ow == One({"addend", "has_addend"} \subseteq group.flags)
<1>1. t \in Seq(U) /\ Len(t) = 2 /\ t[1] = group.size /\ t[2] = group.flags /\ x \in U /\ y \in U /\ 0 \in U
  OBVIOUS
<1>2. /\ u \in Seq(U) /\ Len(u) = ou /\ ou \in 0 .. 1
      /\ "offset_delta" \in group.flags => ou = 1 /\ u[1] = x
  <2>2. CASE "offset_delta" \in group.flags
    <3>1. u = <<x>> /\ ou = 1
      BY <2>2 DEF When, One
    <3>2. <<x>> \in Seq(U) /\ Len(<<x>>) = 1 /\ <<x>>[1] = x
      BY <1>1
    <3> HIDE DEF u, x, U, ou
    <3> QED BY <3>1, <3>2
  <2>3. CASE "offset_delta" \notin group.flags
    <3>1. u = <<>> /\ ou = 0
      BY <2>3 DEF When, One
    <3>2. <<>> \in Seq(U) /\ Len(<<>>) = 0
      OBVIOUS
    <3> HIDE DEF u, x, U, ou
    <3> QED BY <2>3, <3>1, <3>2
  <2> QED BY <2>2, <2>3
<1>3. /\ v \in Seq(U) /\ Len(v) = ov /\ ov \in 0 .. 1
      /\ "info" \in group.flags => ov = 1 /\ v[1] = y
  <2>2. CASE "info" \in group.flags
    <3>1. v = <<y>> /\ ov = 1
      BY <2>2 DEF When, One
    <3>2. <<y>> \in Seq(U) /\ Len(<<y>>) = 1 /\ <<y>>[1] = y
      BY <1>1
    <3> HIDE DEF v, y, U, ov
    <3> QED BY <3>1, <3>2
  <2>3. CASE "info" \notin group.flags
    <3>1. v = <<>> /\ ov = 0
      BY <2>3 DEF When, One
    <3>2. <<>> \in Seq(U) /\ Len(<<>>) = 0
      OBVIOUS
    <3> HIDE DEF v, y, U, ov
    <3> QED BY <2>3, <3>1, <3>2
  <2> QED BY <2>2, <2>3
<1>4. w \in Seq(U) /\ Len(w) = ow /\ ow \in 0 .. 1
  <2>2. CASE {"addend", "has_addend"} \subseteq group.flags
    <3>1. w = <<0>> /\ ow = 1
      BY <2>2 DEF When, One
    <3>2. <<0>> \in Seq(U) /\ Len(<<0>>) = 1 /\ <<0>>[1] = 0
      BY <1>1
    <3> HIDE DEF w, U, ow
    <3> QED BY <3>1, <3>2
  <2>3. CASE ~({"addend", "has_addend"} \subseteq group.flags)
    <3>1. w = <<>> /\ ow = 0
      BY <2>3 DEF When, One
    <3>2. <<>> \in Seq(U) /\ Len(<<>>) = 0
      OBVIOUS
    <3> HIDE DEF w, U, ow
    <3> QED BY <3>1, <3>2
  <2> QED BY <2>2, <2>3
<1>5. Header(lib, group) = h /\ HeaderLen(group.flags) = 2 + ou + ov + ow
  BY DEF Header, HeaderLen
<1> HIDE DEF u, v, w, x, y, U, t, ou, ov, ow
<1>6. /\ DOMAIN h = 1 .. Len(h)
      /\ Len(h) = Len(t) + Len(u) + Len(v) + Len(w)
      /\ \A k \in 1 .. Len(t) : h[k] = t[k]
      /\ \A k \in 1 .. Len(u) : h[Len(t) + k] = u[k]
      /\ \A k \in 1 .. Len(v) : h[Len(t) + Len(u) + k] = v[k]
  <2>1. t \in Seq(U) /\ u \in Seq(U) /\ v \in Seq(U) /\ w \in Seq(U)
    BY <1>1, <1>2, <1>3, <1>4
  <2>2. HasParts(h, t, u, v, w)
    BY <2>1, FourParts
  <2> HIDE DEF h
  <2> QED BY <2>2 DEF HasParts
<1> HIDE DEF h
<1>7. Len(h) = 2 + ou + ov + ow /\ Len(h) \in 2 .. 5
  BY <1>1, <1>2, <1>3, <1>4, <1>6
<1>8. h[1] = group.size /\ h[2] = group.flags
  BY <1>1, <1>6
<1>9. "offset_delta" \in group.flags => h[3] = x
  BY <1>1, <1>2, <1>6
<1>10. "info" \in group.flags => h[3 + ou] = y
  <2> SUFFICES ASSUME "info" \in group.flags PROVE h[3 + ou] = y
    OBVIOUS
  <2>1. 1 \in 1 .. Len(v) /\ Len(t) + Len(u) + 1 = 3 + ou
    BY <1>1, <1>2, <1>3
  <2>2. h[Len(t) + Len(u) + 1] = v[1]
    BY <1>6, <2>1
  <2> QED BY <1>3, <2>1, <2>2
<1> QED BY <1>5, <1>6, <1>7, <1>8, <1>9, <1>10 DEF x, y, ou

\* What a relocation has for itself.
LEMMA OwnPartIs ==
    ASSUME NEW lib, NEW group, NEW n
    PROVE  LET h == OwnPart(lib, group, n)
           IN  /\ Len(h) = RelocLen(group.flags) /\ DOMAIN h = 1 .. Len(h)
               /\ Len(h) \in 0 .. 3
               /\ "offset_delta" \notin group.flags => 1 \in DOMAIN h /\ h[1] = Delta(lib, n)
               /\ "info" \notin group.flags =>
                    LET k == 1 + One("offset_delta" \notin group.flags)
                    IN  k \in DOMAIN h /\ h[k] = Info(lib, n)
<1> DEFINE x == Delta(lib, n)
           y == Info(lib, n)
           u == When("offset_delta" \notin group.flags, <<x>>)
           v == When("info" \notin group.flags, <<y>>)
           w == When("has_addend" \in group.flags /\ "addend" \notin group.flags, <<0>>)
           U == {x, y, 0}
           t == <<>>
           h == ((t \o u) \o v) \o w
           ou == One("offset_delta" \notin group.flags)
           ov == One("info" \notin group.flags)
           ow == One("has_addend" \in group.flags /\ "addend" \notin group.flags)
<1>1. t \in Seq(U) /\ Len(t) = 0 /\ x \in U /\ y \in U /\ 0 \in U
  OBVIOUS
<1>2. /\ u \in Seq(U) /\ Len(u) = ou /\ ou \in 0 .. 1
      /\ "offset_delta" \notin group.flags => ou = 1 /\ u[1] = x
  <2>2. CASE "offset_delta" \notin group.flags
    <3>1. u = <<x>> /\ ou = 1
      BY <2>2 DEF When, One
    <3>2. <<x>> \in Seq(U) /\ Len(<<x>>) = 1 /\ <<x>>[1] = x
      BY <1>1
    <3> HIDE DEF u, x, U, ou
    <3> QED BY <3>1, <3>2
  <2>3. CASE "offset_delta" \in group.flags
    <3>1. u = <<>> /\ ou = 0
      BY <2>3 DEF When, One
    <3>2. <<>> \in Seq(U) /\ Len(<<>>) = 0
      OBVIOUS
    <3> HIDE DEF u, x, U, ou
    <3> QED BY <2>3, <3>1, <3>2
  <2> QED BY <2>2, <2>3
<1>3. /\ v \in Seq(U) /\ Len(v) = ov /\ ov \in 0 .. 1
      /\ "info" \notin group.flags => ov = 1 /\ v[1] = y
  <2>2. CASE "info" \notin group.flags
    <3>1. v = <<y>> /\ ov = 1
      BY <2>2 DEF When, One
    <3>2. <<y>> \in Seq(U) /\ Len(<<y>>) = 1 /\ <<y>>[1] = y
      BY <1>1
    <3> HIDE DEF v, y, U, ov
    <3> QED BY <3>1, <3>2
  <2>3. CASE "info" \in group.flags
    <3>1. v = <<>> /\ ov = 0
      BY <2>3 DEF When, One
    <3>2. <<>> \in Seq(U) /\ Len(<<>>) = 0
      OBVIOUS
    <3> HIDE DEF v, y, U, ov
    <3> QED BY <2>3, <3>1, <3>2
  <2> QED BY <2>2, <2>3
<1>4. w \in Seq(U) /\ Len(w) = ow /\ ow \in 0 .. 1
  <2>2. CASE "has_addend" \in group.flags /\ "addend" \notin group.flags
    <3>1. w = <<0>> /\ ow = 1
      BY <2>2 DEF When, One
    <3>2. <<0>> \in Seq(U) /\ Len(<<0>>) = 1 /\ <<0>>[1] = 0
      BY <1>1
    <3> HIDE DEF w, U, ow
    <3> QED BY <3>1, <3>2
  <2>3. CASE ~("has_addend" \in group.flags /\ "addend" \notin group.flags)
    <3>1. w = <<>> /\ ow = 0
      BY <2>3 DEF When, One
    <3>2. <<>> \in Seq(U) /\ Len(<<>>) = 0
      OBVIOUS
    <3> HIDE DEF w, U, ow
    <3> QED BY <3>1, <3>2
  <2> QED BY <2>2, <2>3
<1>5. OwnPart(lib, group, n) = h /\ RelocLen(group.flags) = ou + ov + ow
  <2>1. <<>> \o u = u
    BY <1>2
  <2> QED BY <2>1 DEF OwnPart, RelocLen
<1> HIDE DEF u, v, w, x, y, U, t, ou, ov, ow
<1>6. /\ DOMAIN h = 1 .. Len(h)
      /\ Len(h) = Len(t) + Len(u) + Len(v) + Len(w)
      /\ \A k \in 1 .. Len(t) : h[k] = t[k]
      /\ \A k \in 1 .. Len(u) : h[Len(t) + k] = u[k]
      /\ \A k \in 1 .. Len(v) : h[Len(t) + Len(u) + k] = v[k]
  <2>1. t \in Seq(U) /\ u \in Seq(U) /\ v \in Seq(U) /\ w \in Seq(U)
    BY <1>1, <1>2, <1>3, <1>4
  <2>2. HasParts(h, t, u, v, w)
    BY <2>1, FourParts
  <2> HIDE DEF h
  <2> QED BY <2>2 DEF HasParts
<1> HIDE DEF h
<1>7. Len(h) = ou + ov + ow /\ Len(h) \in 0 .. 3
  BY <1>1, <1>2, <1>3, <1>4, <1>6
<1>8. "offset_delta" \notin group.flags => 1 \in 1 .. Len(h) /\ h[1] = x
  BY <1>1, <1>2, <1>3, <1>4, <1>6, <1>7
<1>9. "info" \notin group.flags => 1 + ou \in 1 .. Len(h) /\ h[1 + ou] = y
  <2> SUFFICES ASSUME "info" \notin group.flags PROVE 1 + ou \in 1 .. Len(h) /\ h[1 + ou] = y
    OBVIOUS
  <2>1. 1 \in 1 .. Len(v) /\ Len(t) + Len(u) + 1 = 1 + ou
    BY <1>1, <1>2, <1>3
  <2>2. h[Len(t) + Len(u) + 1] = v[1]
    BY <1>6, <2>1
  <2>3. 1 + ou \in 1 .. Len(h)
    BY <1>2, <1>3, <1>4, <1>7
  <2> QED BY <1>3, <2>1, <2>2, <2>3
<1> QED BY <1>5, <1>6, <1>7, <1>8, <1>9 DEF x, y, ou

\* Of each relocation of a group, the decoder reads its distance, symbol and type.
LEMMA GroupReads ==
    ASSUME NEW lib, NEW group, IsGroup(lib, group)
    PROVE  LET s == lib.img.aps2
           IN  /\ s[group.at] = group.size /\ s[group.at + 1] = group.flags
               /\ HeaderLen(group.flags) \in 2 .. 5 /\ RelocLen(group.flags) \in 0 .. 3
               /\ \A i \in Int : RestAt(s, group.at, i) = OwnAt(lib, group, group.first + i - 1)
               /\ \A i \in 1 .. group.size :
                    /\ s[DeltaAt(s, group.at, i)] = Delta(lib, group.first + i - 1)
                    /\ s[InfoAt(s, group.at, i)] = Info(lib, group.first + i - 1)
<1> DEFINE s == lib.img.aps2
           p == group.at
           flags == group.flags
           h == Header(lib, group)
           own(n) == OwnPart(lib, group, n)
           od == "offset_delta" \in flags
           common == "info" \in flags
<1>1. /\ flags \subseteq Flags
      /\ p \in Nat /\ group.first \in Nat /\ group.size \in Nat
      /\ \A k \in DOMAIN h : s[p + k - 1] = h[k]
      /\ \A n \in group.first .. group.first + group.size - 1 :
            /\ od => Delta(lib, n) = Delta(lib, group.first)
            /\ common => Info(lib, n) = Info(lib, group.first)
            /\ \A k \in DOMAIN own(n) : s[OwnAt(lib, group, n) + k - 1] = own(n)[k]
  BY DEF IsGroup, StandsAt
<1>2. /\ Len(h) = HeaderLen(flags) /\ DOMAIN h = 1 .. Len(h)
      /\ Len(h) \in 2 .. 5
      /\ h[1] = group.size /\ h[2] = flags
      /\ od => h[3] = Delta(lib, group.first)
      /\ common => h[3 + One(od)] = Info(lib, group.first)
  BY HeaderIs
<1>3. ASSUME NEW n
      PROVE  /\ Len(own(n)) = RelocLen(flags) /\ DOMAIN own(n) = 1 .. Len(own(n))
             /\ Len(own(n)) \in 0 .. 3
             /\ ~od => 1 \in DOMAIN own(n) /\ own(n)[1] = Delta(lib, n)
             /\ ~common => 1 + One(~od) \in DOMAIN own(n) /\ own(n)[1 + One(~od)] = Info(lib, n)
  BY OwnPartIs
<1>8. \A n \in Int : OwnAt(lib, group, n) = p + Len(h) + (n - group.first) * Len(own(group.first))
  BY DEF OwnAt
<1> HIDE DEF h, own, s, p, flags, od, common
<1>4. s[p] = group.size /\ s[p + 1] = flags
  <2>1. s[p + 1 - 1] = h[1] /\ s[p + 2 - 1] = h[2]
    BY <1>1, <1>2
  <2> QED BY <1>1, <1>2, <2>1
<1>5. HeaderLen(flags) \in 2 .. 5 /\ RelocLen(flags) \in 0 .. 3
  BY <1>2, <1>3
<1>6. ASSUME NEW i \in Int PROVE RestAt(s, p, i) = OwnAt(lib, group, group.first + i - 1)
  <2>1. RestAt(s, p, i) = p + HeaderLen(flags) + (i - 1) * RelocLen(flags)
    BY <1>4 DEF RestAt
  <2>2. OwnAt(lib, group, group.first + i - 1) =
            p + Len(h) + ((group.first + i - 1) - group.first) * Len(own(group.first))
    <3> DEFINE n == group.first + i - 1
    <3>1. n \in Int
      BY <1>1
    <3> HIDE DEF n
    <3>2. OwnAt(lib, group, n) = p + Len(h) + (n - group.first) * Len(own(group.first))
      BY ONLY <1>8, <3>1
    <3> QED BY <3>2 DEF n
  <2>3. (group.first + i - 1) - group.first = i - 1
    BY <1>1
  <2> QED BY <1>2, <1>3, <2>1, <2>2, <2>3
<1>7. ASSUME NEW i \in 1 .. group.size
      PROVE  /\ s[DeltaAt(s, p, i)] = Delta(lib, group.first + i - 1)
             /\ s[InfoAt(s, p, i)] = Info(lib, group.first + i - 1)
  <2> DEFINE n == group.first + i - 1
             r == RestAt(s, p, i)
  <2>1. n \in group.first .. group.first + group.size - 1 /\ i \in Int
    BY <1>1
  <2>2. r = OwnAt(lib, group, n)
    BY <1>6, <2>1
  <2>3. r \in Int
    <3>1. r = p + HeaderLen(flags) + (i - 1) * RelocLen(flags)
      BY <1>4 DEF RestAt
    <3>2. p \in Int /\ HeaderLen(flags) \in Int /\ RelocLen(flags) \in Int /\ i - 1 \in Int
      BY <1>1, <1>5, <2>1
    <3> HIDE DEF r
    <3>3. (i - 1) * RelocLen(flags) \in Int
      BY <3>2
    <3> QED BY <3>1, <3>2, <3>3
  <2>4. /\ DeltaAt(s, p, i) = IF od THEN p + 2 ELSE r
        /\ InfoAt(s, p, i) = IF common THEN p + 2 + One(od) ELSE r + One(~od)
    BY <1>4 DEF DeltaAt, InfoAt, od, common
  <2> HIDE DEF n, r
  <2>5. /\ od => Delta(lib, n) = Delta(lib, group.first)
        /\ common => Info(lib, n) = Info(lib, group.first)
        /\ \A k \in DOMAIN own(n) : s[r + k - 1] = own(n)[k]
    BY <1>1, <2>1, <2>2
  <2>6. /\ One(od) \in 0 .. 1 /\ One(~od) \in 0 .. 1
        /\ HeaderLen(flags) = 2 + One(od) + One(common) + One({"addend", "has_addend"} \subseteq flags)
    BY DEF One, HeaderLen, od, common
  <2>7. One(common) = (IF common THEN 1 ELSE 0) /\ One(od) = (IF od THEN 1 ELSE 0)
        /\ One({"addend", "has_addend"} \subseteq flags) \in 0 .. 1
    BY DEF One
  <2>8. s[DeltaAt(s, p, i)] = Delta(lib, n)
    <3>1. CASE od
      <4>1. 3 \in DOMAIN h
        BY <1>2, <2>6, <2>7, <3>1
      <4>2. s[p + 3 - 1] = h[3] /\ p + 3 - 1 = p + 2
        BY <1>1, <4>1
      <4> QED BY <1>2, <2>4, <2>5, <3>1, <4>2
    <3>2. CASE ~od
      <4>1. s[r + 1 - 1] = own(n)[1] /\ r + 1 - 1 = r
        BY <1>3, <2>3, <2>5, <3>2
      <4> QED BY <1>3, <2>4, <3>2, <4>1
    <3> QED BY <3>1, <3>2
  <2>9. s[InfoAt(s, p, i)] = Info(lib, n)
    <3>1. CASE common
      <4>1. 3 + One(od) \in DOMAIN h
        BY <1>2, <2>6, <2>7, <3>1
      <4>2. s[p + (3 + One(od)) - 1] = h[3 + One(od)] /\ p + (3 + One(od)) - 1 = p + 2 + One(od)
        BY <1>1, <2>6, <4>1
      <4> QED BY <1>2, <2>4, <2>5, <3>1, <4>2
    <3>2. CASE ~common
      <4>1. s[r + (1 + One(~od)) - 1] = own(n)[1 + One(~od)] /\ r + (1 + One(~od)) - 1 = r + One(~od)
        BY <1>3, <2>3, <2>5, <2>6, <3>2
      <4> QED BY <1>3, <2>4, <3>2, <4>1
    <3> QED BY <3>1, <3>2
  <2> QED BY <2>8, <2>9 DEF n
<1> QED BY <1>4, <1>5, <1>6, <1>7 DEF s, p, flags

\* Where a group ends, and that none of its relocations goes beyond.
LEMMA GroupSpan ==
    ASSUME NEW lib, NEW group, IsGroup(lib, group)
    PROVE  LET s == lib.img.aps2
               end == OwnAt(lib, group, group.first + group.size)
           IN  /\ end \in Nat /\ group.at + HeaderLen(group.flags) <= end
               /\ RestAt(s, group.at, group.size + 1) = end
               /\ \A i \in 1 .. group.size : RestAt(s, group.at, i + 1) \in Int /\ RestAt(s, group.at, i + 1) <= end
<1> DEFINE s == lib.img.aps2
           p == group.at
           H == HeaderLen(group.flags)
           L == RelocLen(group.flags)
           end == OwnAt(lib, group, group.first + group.size)
           size == group.size
<1>1. p \in Nat /\ group.first \in Nat /\ size \in Nat /\ size # 0
  BY DEF IsGroup
<1>2. /\ s[p + 1] = group.flags /\ H \in 2 .. 5 /\ L \in 0 .. 3
      /\ \A i \in Int : RestAt(s, p, i) = OwnAt(lib, group, group.first + i - 1)
  BY GroupReads
<1>3. ASSUME NEW i \in 1 .. size PROVE RestAt(s, p, i + 1) = p + H + i * L
  <2>1. RestAt(s, p, i + 1) = p + H + (i + 1 - 1) * L
    BY <1>2 DEF RestAt
  <2>2. i + 1 - 1 = i
    BY <1>1
  <2> QED BY <2>1, <2>2
<1>4. RestAt(s, p, size + 1) = end
  <2>1. size + 1 \in Int /\ group.first + (size + 1) - 1 = group.first + size
    BY <1>1
  <2> QED BY <1>2, <2>1
<1>5. size \in 1 .. size
  BY <1>1
<1>6. end = p + H + size * L
  BY <1>3, <1>4, <1>5
<1> HIDE DEF end, H, L, p, s, size
<1>7. ASSUME NEW i \in 1 .. size
      PROVE  p + H + i * L \in Nat /\ p + H <= p + H + i * L /\ p + H + i * L <= p + H + size * L
  <2>1. CASE L = 0
    BY <1>1, <1>2, <2>1
  <2>2. CASE L = 1
    BY <1>1, <1>2, <2>2
  <2>3. CASE L = 2
    BY <1>1, <1>2, <2>3
  <2>4. CASE L = 3
    BY <1>1, <1>2, <2>4
  <2> QED BY <1>2, <2>1, <2>2, <2>3, <2>4
<1>8. end \in Nat /\ p + H <= end
  BY <1>5, <1>6, <1>7
<1>9. \A i \in 1 .. size : RestAt(s, p, i + 1) \in Int /\ RestAt(s, p, i + 1) <= end
  <2> SUFFICES ASSUME NEW i \in 1 .. size PROVE RestAt(s, p, i + 1) \in Int /\ RestAt(s, p, i + 1) <= end
    OBVIOUS
  <2>1. RestAt(s, p, i + 1) = p + H + i * L
    BY <1>3
  <2>2. p + H + i * L \in Nat /\ p + H + i * L <= p + H + size * L
    BY <1>7
  <2> QED BY <1>6, <2>1, <2>2
<1> QED BY <1>4, <1>8, <1>9 DEF end, H, p, s, size

(***************************************************************************)
(* Packed relocations: the stream                                            *)
(***************************************************************************)
\* How many relocations there are up to a group, and where the next one begins.
Done(lib, g) == IF g = 0 THEN 0 ELSE lib.groups[g].first + lib.groups[g].size - 1
EndOf(lib, g) == IF g = 0 THEN 3 ELSE OwnAt(lib, lib.groups[g], lib.groups[g].first + lib.groups[g].size)

\* The groups follow each other from the beginning to the end.
InOrder(lib) ==
    LET s == lib.img.aps2
        G == Len(lib.groups)
    IN  /\ Len(s) \in Nat /\ Len(s) >= 2 /\ s[1] = Len(lib.packed) /\ s[2] \in Int
        /\ G \in 0 .. Len(s) /\ Done(lib, G) = Len(lib.packed)
        /\ \A g \in 0 .. G : Done(lib, g) \in 0 .. Len(lib.packed) /\ EndOf(lib, g) \in 3 .. Len(s) + 1
        /\ \A g \in 1 .. G :
            /\ IsGroup(lib, lib.groups[g])
            /\ lib.groups[g].at = EndOf(lib, g - 1)
            /\ lib.groups[g].first = Done(lib, g - 1) + 1
            /\ Done(lib, g) = Done(lib, g - 1) + lib.groups[g].size

LEMMA StreamIs ==
    ASSUME NEW lib, IsStream(lib), lib.packed \in Seq(Reloc(lib.img))
    PROVE  InOrder(lib)
<1> DEFINE s == lib.img.aps2
           G == Len(lib.groups)
           D(g) == Done(lib, g)
           E(g) == EndOf(lib, g)
           size(g) == lib.groups[g].size
           P == Len(lib.packed)
           S == Len(s)
<1>1. /\ S \in Nat /\ s[1] = P /\ s[2] \in Int /\ G \in Nat /\ P \in Nat
      /\ \A g \in 1 .. G : IsGroup(lib, lib.groups[g])
      /\ G = 0 => S = 2 /\ lib.packed = <<>>
  BY DEF IsStream
<1>2. ASSUME NEW g \in 1 .. G
      PROVE  /\ size(g) \in Nat /\ size(g) # 0 /\ D(g) = lib.groups[g].first + size(g) - 1
             /\ E(g) \in Nat /\ lib.groups[g].at + 2 <= E(g)
             /\ lib.groups[g].at \in Nat /\ lib.groups[g].first \in Nat
  <2> DEFINE group == lib.groups[g]
             end == OwnAt(lib, group, group.first + group.size)
  <2>1. IsGroup(lib, group)
    BY <1>1
  <2>2. group.at \in Nat /\ group.size \in Nat /\ group.size # 0 /\ group.first \in Nat
    BY <2>1 DEF IsGroup
  <2>3. end \in Nat /\ group.at + HeaderLen(group.flags) <= end /\ HeaderLen(group.flags) \in 2 .. 5
    BY <2>1, GroupSpan, GroupReads
  <2>4. E(g) = end /\ D(g) = group.first + group.size - 1
    BY DEF EndOf, Done
  <2> HIDE DEF group, end
  <2>5. group.at + 2 <= end
    BY <2>2, <2>3
  <2> QED BY <2>2, <2>3, <2>4, <2>5 DEF group
<1>3. ASSUME NEW g \in 1 .. G PROVE lib.groups[g].at = E(g - 1) /\ lib.groups[g].first = D(g - 1) + 1
  <2>1. CASE g = 1
    <3>1. G # 0 /\ g - 1 = 0
      BY <1>1, <2>1
    <3>2. lib.groups[1].at = 3 /\ lib.groups[1].first = 1
      BY <3>1 DEF IsStream
    <3> QED BY <2>1, <3>1, <3>2 DEF EndOf, Done
  <2>2. CASE g # 1
    <3> DEFINE h == g - 1
    <3>1. h \in 1 .. G - 1 /\ h \in 1 .. G /\ h + 1 = g /\ h # 0
      BY <1>1, <2>2
    <3> HIDE DEF h
    <3>2. /\ lib.groups[h + 1].at = OwnAt(lib, lib.groups[h], lib.groups[h].first + lib.groups[h].size)
          /\ lib.groups[h + 1].first = lib.groups[h].first + lib.groups[h].size
      BY <3>1 DEF IsStream
    <3>3. lib.groups[g].at = E(h)
      BY <3>1, <3>2 DEF EndOf
    <3>4. lib.groups[h].first \in Nat /\ size(h) \in Nat /\ D(h) = lib.groups[h].first + size(h) - 1
      BY <1>2, <3>1
    <3>5. lib.groups[g].first = D(h) + 1
      <4>1. lib.groups[g].first = lib.groups[h].first + size(h)
        BY <3>1, <3>2
      <4> QED BY <3>4, <4>1
    <3> QED BY <3>3, <3>5 DEF h
  <2> QED BY <2>1, <2>2
<1>4. G # 0 => E(G) = S + 1 /\ D(G) = P
  <2> SUFFICES ASSUME G # 0 PROVE E(G) = S + 1 /\ D(G) = P
    OBVIOUS
  <2>1. /\ OwnAt(lib, lib.groups[G], lib.groups[G].first + lib.groups[G].size) = S + 1
        /\ lib.groups[G].first + lib.groups[G].size = P + 1
    BY DEF IsStream
  <2>2. G \in 1 .. G
    BY <1>1
  <2>3. D(G) = lib.groups[G].first + size(G) - 1 /\ lib.groups[G].first \in Nat /\ size(G) \in Nat
    BY <1>2, <2>2
  <2>4. D(G) = P
    <3> DEFINE f == lib.groups[G].first
               z == size(G)
               d == D(G)
    <3>1. d = f + z - 1 /\ f \in Nat /\ z \in Nat /\ f + z = P + 1 /\ P \in Nat
      BY <1>1, <2>1, <2>3
    <3> HIDE DEF f, z, d, P
    <3>2. d = P
      BY ONLY <3>1
    <3> QED BY <3>2 DEF d
  <2>5. E(G) = S + 1
    BY <2>1 DEF EndOf
  <2> QED BY <2>4, <2>5
<1>5. D(0) = 0 /\ E(0) = 3
  BY DEF Done, EndOf
<1>6. G = 0 => E(G) = S + 1 /\ D(G) = P
  <2> SUFFICES ASSUME G = 0 PROVE E(G) = S + 1 /\ D(G) = P
    OBVIOUS
  <2>1. S = 2 /\ lib.packed = <<>>
    BY <1>1
  <2>2. P = 0
    BY <2>1
  <2> QED BY <1>5, <2>1, <2>2
<1> HIDE DEF s, G, D, E, size, P, S
<1>7. \A g \in 0 .. G : D(g) \in Nat /\ E(g) \in Nat /\ E(g) >= 3 + 2 * g
  <2> DEFINE T == {g \in 0 .. G : D(g) \in Nat /\ E(g) \in Nat /\ E(g) >= 3 + 2 * g}
  <2>1. 0 \in T
    BY <1>1, <1>5
  <2>2. ASSUME NEW g \in 0 .. G - 1, g \in T PROVE g + 1 \in T
    <3>1. g + 1 \in 1 .. G /\ g + 1 - 1 = g /\ g \in Nat /\ g + 1 \in 0 .. G
      BY <1>1
    <3>2. lib.groups[g + 1].at = E(g) /\ lib.groups[g + 1].first = D(g) + 1
      BY <1>3, <3>1
    <3>3. /\ size(g + 1) \in Nat /\ size(g + 1) # 0 /\ D(g + 1) = lib.groups[g + 1].first + size(g + 1) - 1
          /\ E(g + 1) \in Nat /\ lib.groups[g + 1].at + 2 <= E(g + 1)
      BY <1>2, <3>1
    <3>4. D(g) \in Nat /\ E(g) \in Nat /\ E(g) >= 3 + 2 * g
      BY <2>2
    <3>5. D(g + 1) \in Nat /\ E(g + 1) >= 3 + 2 * (g + 1)
      BY <3>1, <3>2, <3>3, <3>4
    <3> QED BY <3>1, <3>3, <3>5
  <2>3. 0 .. G \subseteq T
    <3> HIDE DEF T
    <3> QED BY <1>1, <2>1, <2>2, CountUp
  <2> QED BY <2>3
<1>8. ASSUME NEW g \in 1 .. G PROVE D(g) = D(g - 1) + size(g)
  <2>1. D(g - 1) \in Nat
    <3>1. g - 1 \in 0 .. G
      BY <1>1
    <3> QED BY <1>7, <3>1
  <2> QED BY <1>2, <1>3, <2>1
<1>9. \A k \in 0 .. G : D(G - k) <= P /\ E(G - k) <= S + 1
  <2> DEFINE T == {k \in 0 .. G : D(G - k) <= P /\ E(G - k) <= S + 1}
  <2>1. 0 \in T
    <3>1. G - 0 = G
      BY <1>1
    <3> QED BY <1>1, <1>4, <1>6, <3>1
  <2>2. ASSUME NEW k \in 0 .. G - 1, k \in T PROVE k + 1 \in T
    <3> DEFINE g == G - k
    <3>1. g \in 1 .. G /\ G - (k + 1) = g - 1 /\ k + 1 \in 0 .. G /\ g - 1 \in 0 .. G /\ g \in 0 .. G
      BY <1>1
    <3>2. D(g) <= P /\ E(g) <= S + 1
      BY <2>2
    <3> HIDE DEF g
    <3>3. /\ D(g) = D(g - 1) + size(g) /\ size(g) \in Nat
          /\ D(g - 1) \in Nat /\ E(g - 1) \in Nat /\ E(g) \in Nat
          /\ E(g - 1) + 2 <= E(g)
      BY <1>2, <1>3, <1>7, <1>8, <3>1
    <3>4. D(g - 1) <= P /\ E(g - 1) <= S + 1
      BY <1>1, <3>2, <3>3
    <3> QED BY <3>1, <3>4
  <2>3. 0 .. G \subseteq T
    <3> HIDE DEF T
    <3> QED BY <1>1, <2>1, <2>2, CountUp
  <2> QED BY <2>3
<1>10. ASSUME NEW g \in 0 .. G PROVE D(g) \in 0 .. P /\ E(g) \in 3 .. S + 1
  <2> DEFINE k == G - g
  <2>1. k \in 0 .. G /\ G - k = g
    BY <1>1
  <2> HIDE DEF k
  <2>2. D(g) <= P /\ E(g) <= S + 1
    BY <1>9, <2>1
  <2>3. D(g) \in Nat /\ E(g) \in Nat /\ E(g) >= 3 + 2 * g
    BY <1>7
  <2> QED BY <1>1, <2>2, <2>3
<1>11. S >= 2 /\ G \in 0 .. S
  <2>1. G \in 0 .. G
    BY <1>1
  <2>2. E(G) \in Nat /\ E(G) >= 3 + 2 * G /\ E(G) <= S + 1
    BY <1>1, <1>4, <1>6, <1>7, <2>1
  <2> QED BY <1>1, <2>2
<1> QED BY <1>1, <1>3, <1>4, <1>6, <1>8, <1>10, <1>11 DEF InOrder, s, G, D, E, size, P, S

(***************************************************************************)
(* Packed relocations: what the decoder makes of them                        *)
(***************************************************************************)
\* The offset in front of the relocation after the first n.
OffsetAt(lib, n) == IF n = 0 THEN lib.img.aps2[2] ELSE lib.packed[n].at

\* The decoder behind the first g groups.
StateAfter(lib, g) ==
    [p |-> EndOf(lib, g), offset |-> OffsetAt(lib, Done(lib, g)), idx |-> Done(lib, g),
     out |-> [n \in 1 .. Done(lib, g) |-> lib.packed[n]]]

\* The front of a list, and what follows.
LEMMA FrontJoined ==
    ASSUME NEW R, NEW t \in Seq(R), NEW d \in Nat, NEW k \in Nat, d + k <= Len(t)
    PROVE  [n \in 1 .. d |-> t[n]] \o [i \in 1 .. k |-> t[d + i]] = [n \in 1 .. d + k |-> t[n]]
<1> DEFINE a == [n \in 1 .. d |-> t[n]]
           b == [i \in 1 .. k |-> t[d + i]]
           c == [n \in 1 .. d + k |-> t[n]]
<1>1. \A n \in 1 .. d + k : n \in 1 .. Len(t) /\ t[n] \in R
  OBVIOUS
<1>2. a \in Seq(R) /\ Len(a) = d /\ b \in Seq(R) /\ Len(b) = k /\ c \in Seq(R) /\ Len(c) = d + k
  <2>1. \A n \in 1 .. d : n \in 1 .. d + k
    OBVIOUS
  <2>2. \A i \in 1 .. k : d + i \in 1 .. d + k
    OBVIOUS
  <2> QED BY <1>1, <2>1, <2>2
<1>3. /\ \A n \in 1 .. d : a[n] = t[n]
      /\ \A i \in 1 .. k : b[i] = t[d + i]
      /\ \A n \in 1 .. d + k : c[n] = t[n]
  OBVIOUS
<1> HIDE DEF a, b, c
<1>4. ASSUME NEW u \in Seq(R), NEW v \in Seq(R)
      PROVE  /\ u \o v \in Seq(R) /\ Len(u \o v) = Len(u) + Len(v)
             /\ \A n \in 1 .. Len(u) + Len(v) : (u \o v)[n] = IF n <= Len(u) THEN u[n] ELSE v[n - Len(u)]
  OBVIOUS
<1>5. /\ a \o b \in Seq(R) /\ Len(a \o b) = Len(a) + Len(b)
      /\ \A n \in 1 .. Len(a) + Len(b) : (a \o b)[n] = IF n <= Len(a) THEN a[n] ELSE b[n - Len(a)]
  BY <1>2, <1>4
<1> DEFINE j == a \o b
<1> HIDE DEF j
<1>6. /\ j \in Seq(R) /\ Len(j) = d + k
      /\ \A n \in 1 .. d + k : j[n] = IF n <= d THEN a[n] ELSE b[n - d]
  BY <1>2, <1>5 DEF j
<1>7. ASSUME NEW n \in 1 .. d + k PROVE j[n] = c[n]
  <2>1. CASE n <= d
    <3>1. n \in 1 .. d
      BY <2>1
    <3> QED BY <1>3, <1>6, <2>1, <3>1
  <2>2. CASE ~(n <= d)
    <3>1. n - d \in 1 .. k /\ d + (n - d) = n
      BY <2>2
    <3>2. b[n - d] = t[d + (n - d)]
      BY <1>3, <3>1
    <3> QED BY <1>3, <1>6, <2>2, <3>1, <3>2
  <2> QED BY <2>1, <2>2
<1>8. j = c
  BY <1>2, <1>6, <1>7, SeqEqual
<1> QED BY <1>8 DEF j, a, b, c

\* at has the offset in front of a group, and of its relocations up to n.
AreOffsets(at, s, m, n) ==
    at = [i \in 0 .. n |-> IF i = 0 THEN m.offset ELSE at[i - 1] + s[DeltaAt(s, m.p, i)]]

\* From behind a group, the decoder goes behind the next one.
LEMMA AfterGroupIs ==
    ASSUME NEW lib, IsStream(lib), lib.packed \in Seq(Reloc(lib.img)), NEW g \in 1 .. Len(lib.groups)
    PROVE  AfterGroup(lib.img.aps2, StateAfter(lib, g - 1)) = StateAfter(lib, g)
<1> DEFINE s == lib.img.aps2
           packed == lib.packed
           P == Len(packed)
           G == Len(lib.groups)
           group == lib.groups[g]
           p == group.at
           size == group.size
           m == StateAfter(lib, g - 1)
           d == Done(lib, g - 1)
           O(n) == OffsetAt(lib, n)
           whole == {i \in 1 .. s[m.p] : RestAt(s, m.p, i + 1) - 1 <= Len(s)}
           at == CHOOSE a : AreOffsets(a, s, m, Cardinality(whole))
           reloc(i) == [at |-> at[i], sym |-> s[InfoAt(s, m.p, i)].sym, type |-> s[InfoAt(s, m.p, i)].type]
<1>1. /\ Len(s) \in Nat /\ s[2] \in Int
      /\ EndOf(lib, g) \in 3 .. Len(s) + 1 /\ d \in 0 .. P /\ Done(lib, g) \in 0 .. P
      /\ IsGroup(lib, group) /\ p = EndOf(lib, g - 1) /\ group.first = d + 1
      /\ Done(lib, g) = d + size
  <2>1. /\ Len(s) \in Nat /\ s[2] \in Int /\ G \in Nat
        /\ \A h \in 0 .. G : Done(lib, h) \in 0 .. P /\ EndOf(lib, h) \in 3 .. Len(s) + 1
        /\ \A h \in 1 .. G :
              /\ IsGroup(lib, lib.groups[h])
              /\ lib.groups[h].at = EndOf(lib, h - 1)
              /\ lib.groups[h].first = Done(lib, h - 1) + 1
              /\ Done(lib, h) = Done(lib, h - 1) + lib.groups[h].size
    <3>1. InOrder(lib)
      BY StreamIs
    <3> QED BY ONLY <3>1 DEF InOrder
  <2>2. g \in 1 .. G /\ g \in 0 .. G /\ g - 1 \in 0 .. G
    BY <2>1
  <2> HIDE DEF s, P, G
  <2> QED BY <2>1, <2>2
<1>2. AfterGroup(s, m) =
        [p |-> RestAt(s, m.p, s[m.p] + 1), offset |-> at[Cardinality(whole)], idx |-> m.idx + s[m.p],
         out |-> m.out \o [i \in 1 .. Cardinality(whole) |-> reloc(i)]]
  BY DEF AfterGroup, AreOffsets
<1>3. /\ m.p = p /\ m.offset = O(d) /\ m.idx = d /\ m.out = [n \in 1 .. d |-> packed[n]]
  BY <1>1 DEF StateAfter
<1>4. /\ size \in Nat /\ size # 0 /\ s[p] = size
      /\ \A i \in 1 .. size : s[DeltaAt(s, p, i)] = Delta(lib, group.first + i - 1)
      /\ \A i \in 1 .. size : s[InfoAt(s, p, i)] = Info(lib, group.first + i - 1)
      /\ RestAt(s, p, size + 1) = EndOf(lib, g)
      /\ \A i \in 1 .. size : RestAt(s, p, i + 1) \in Int /\ RestAt(s, p, i + 1) <= EndOf(lib, g)
  <2>1. size \in Nat /\ size # 0
    BY <1>1 DEF IsGroup
  <2>2. EndOf(lib, g) = OwnAt(lib, group, group.first + size)
    BY DEF EndOf
  <2>3. IsGroup(lib, group)
    BY <1>1
  <2> HIDE DEF group
  <2>4. /\ s[group.at] = group.size
        /\ \A i \in 1 .. group.size :
              /\ s[DeltaAt(s, group.at, i)] = Delta(lib, group.first + i - 1)
              /\ s[InfoAt(s, group.at, i)] = Info(lib, group.first + i - 1)
    BY ONLY <2>3, GroupReads
  <2>5. /\ RestAt(s, group.at, group.size + 1) = OwnAt(lib, group, group.first + group.size)
        /\ \A i \in 1 .. group.size :
              /\ RestAt(s, group.at, i + 1) \in Int
              /\ RestAt(s, group.at, i + 1) <= OwnAt(lib, group, group.first + group.size)
    BY ONLY <2>3, GroupSpan
  <2> HIDE DEF s
  <2> QED BY <2>1, <2>2, <2>4, <2>5
<1>5. ASSUME NEW n \in 1 .. P
      PROVE  /\ packed[n].at \in Int
             /\ packed[n] = [at |-> packed[n].at, sym |-> packed[n].sym, type |-> packed[n].type]
  <2>1. packed[n] \in Reloc(lib.img)
    OBVIOUS
  <2> QED BY ONLY <2>1 DEF Reloc
<1>6. ASSUME NEW n \in 0 .. P PROVE O(n) \in Int
  <2>1. CASE n = 0
    BY <1>1, <2>1 DEF OffsetAt
  <2>2. CASE n # 0
    <3>1. n \in 1 .. P
      BY <2>2
    <3>2. packed[n].at \in Int
      BY <1>5, <3>1
    <3> QED BY <2>2, <3>2 DEF OffsetAt
  <2> QED BY <2>1, <2>2
<1>7. ASSUME NEW n \in 1 .. P PROVE O(n) = O(n - 1) + Delta(lib, n)
  <2>1. n - 1 \in 0 .. P /\ n \in 0 .. P /\ n # 0 /\ (n = 1 <=> n - 1 = 0)
    BY DEF P
  <2>2. O(n) = packed[n].at
    BY <2>1 DEF OffsetAt
  <2>3. Delta(lib, n) = packed[n].at - O(n - 1)
    BY <2>1 DEF Delta, OffsetAt
  <2>4. O(n) \in Int /\ O(n - 1) \in Int
    BY <1>6, <2>1
  <2> QED BY <2>2, <2>3, <2>4
<1> HIDE DEF m, reloc, O, p, size, d
<1>8. whole = 1 .. size
  <2>1. ASSUME NEW i \in 1 .. size PROVE RestAt(s, p, i + 1) - 1 <= Len(s)
    <3> DEFINE end == EndOf(lib, g)
               rest == RestAt(s, p, i + 1)
               L == Len(s)
    <3>1. rest \in Int /\ rest <= end /\ end \in 3 .. L + 1 /\ L \in Nat
      BY <1>1, <1>4
    <3> HIDE DEF end, rest, L
    <3>2. rest - 1 <= L
      BY ONLY <3>1
    <3> QED BY <3>2 DEF rest, L
  <2> QED BY <1>3, <1>4, <2>1
<1>9. Cardinality(whole) = size
  <2>1. Cardinality(1 .. size) = size
    BY <1>4, FS_Interval
  <2> QED BY <1>8, <2>1
<1>10. ASSUME NEW i \in 1 .. size
       PROVE  /\ d + i \in 1 .. P /\ d + i # 0 /\ d + (i - 1) = (d + i) - 1 /\ group.first + i - 1 = d + i
              /\ i # 0 /\ i - 1 \in 0 .. size
  <2> DEFINE f == group.first
             N == P
  <2>1. d \in 0 .. N /\ d + size \in 0 .. N /\ f = d + 1 /\ size \in Nat /\ N \in Nat
    <3>1. P \in Nat
      OBVIOUS
    <3>2. size \in Nat
      BY <1>4
    <3> QED BY ONLY <1>1, <3>1, <3>2
  <2> HIDE DEF f, N
  <2>2. d + i \in 1 .. N /\ d + i # 0 /\ d + (i - 1) = (d + i) - 1 /\ i # 0 /\ i - 1 \in 0 .. size
    BY ONLY <2>1, i \in 1 .. size
  <2>3. f + i - 1 = d + i
    BY ONLY <2>1, i \in 1 .. size
  <2> QED BY <2>2, <2>3 DEF f, N
<1>11. AreOffsets([i \in 0 .. size |-> O(d + i)], s, m, size)
  <2> DEFINE f == [i \in 0 .. size |-> O(d + i)]
  <2>1. ASSUME NEW i \in 0 .. size PROVE f[i] = IF i = 0 THEN m.offset ELSE f[i - 1] + s[DeltaAt(s, m.p, i)]
    <3>1. CASE i = 0
      <4>1. d + 0 = d
        BY <1>1
      <4> QED BY <1>3, <3>1, <4>1
    <3>2. CASE i # 0
      <4>1. i \in 1 .. size
        BY <1>4, <3>2
      <4>2. f[i] = O(d + i) /\ f[i - 1] = O((d + i) - 1)
        BY <1>10, <4>1
      <4>3. s[DeltaAt(s, m.p, i)] = Delta(lib, d + i)
        BY <1>3, <1>4, <1>10, <4>1
      <4>4. O(d + i) = O((d + i) - 1) + Delta(lib, d + i)
        BY <1>7, <1>10, <4>1
      <4> HIDE DEF f
      <4> QED BY <3>2, <4>2, <4>3, <4>4
    <3> QED BY <3>1, <3>2
  <2>2. DOMAIN f = 0 .. size
    OBVIOUS
  <2> QED BY <2>1, <2>2 DEF AreOffsets
<1>12. AreOffsets(at, s, m, size)
  BY <1>9, <1>11
<1> HIDE DEF at, whole
<1>13. \A i \in 0 .. size : at[i] = O(d + i)
  <2> DEFINE T == {i \in 0 .. size : at[i] = O(d + i)}
  <2>1. \A i \in 0 .. size : at[i] = IF i = 0 THEN m.offset ELSE at[i - 1] + s[DeltaAt(s, m.p, i)]
    BY <1>12 DEF AreOffsets
  <2>2. 0 \in T
    <3>1. d + 0 = d /\ 0 \in 0 .. size
      BY <1>1, <1>4
    <3> QED BY <1>3, <2>1, <3>1
  <2>3. ASSUME NEW j \in 0 .. size - 1, j \in T PROVE j + 1 \in T
    <3> DEFINE i == j + 1
    <3>1. i \in 1 .. size /\ i \in 0 .. size /\ i - 1 = j /\ i # 0
      BY <1>4
    <3>2. at[i - 1] = O(d + (i - 1))
      BY <2>3, <3>1
    <3> HIDE DEF i
    <3>3. s[DeltaAt(s, m.p, i)] = Delta(lib, d + i)
      BY <1>3, <1>4, <1>10, <3>1
    <3>4. O(d + i) = O((d + i) - 1) + Delta(lib, d + i) /\ d + (i - 1) = (d + i) - 1
      BY <1>7, <1>10, <3>1
    <3>5. at[i] = at[i - 1] + s[DeltaAt(s, m.p, i)]
      BY <2>1, <3>1
    <3>6. at[i] = O(d + i)
      BY <3>2, <3>3, <3>4, <3>5
    <3> QED BY <3>1, <3>6 DEF i
  <2>4. 0 .. size \subseteq T
    <3> HIDE DEF T
    <3> QED BY <1>4, <2>2, <2>3, CountUp
  <2> QED BY <2>4
<1>14. ASSUME NEW i \in 1 .. size PROVE reloc(i) = packed[d + i]
  <2> DEFINE n == d + i
  <2>1. n \in 1 .. P /\ n # 0 /\ group.first + i - 1 = n
    BY <1>10
  <2>2. at[i] = packed[n].at
    <3>1. at[i] = O(n) /\ n # 0
      BY <1>10, <1>13
    <3> QED BY <3>1 DEF O, OffsetAt
  <2>3. s[InfoAt(s, m.p, i)] = Info(lib, n)
    BY <1>3, <1>4, <2>1
  <2>4. Info(lib, n).sym = packed[n].sym /\ Info(lib, n).type = packed[n].type
    BY DEF Info
  <2>5. reloc(i) = [at |-> packed[n].at, sym |-> packed[n].sym, type |-> packed[n].type]
    BY <2>2, <2>3, <2>4 DEF reloc
  <2> QED BY <1>5, <2>1, <2>5
<1>15. m.out \o [i \in 1 .. size |-> reloc(i)] = [n \in 1 .. d + size |-> packed[n]]
  <2>1. [i \in 1 .. size |-> reloc(i)] = [i \in 1 .. size |-> packed[d + i]]
    BY <1>14
  <2>2. d \in Nat /\ d + size <= P
    BY <1>1
  <2>3. [n \in 1 .. d |-> packed[n]] \o [i \in 1 .. size |-> packed[d + i]] = [n \in 1 .. d + size |-> packed[n]]
    <3> DEFINE R == Reloc(lib.img)
    <3>1. packed \in Seq(R)
      OBVIOUS
    <3> HIDE DEF R, packed
    <3> QED BY <1>4, <2>2, <3>1, FrontJoined DEF P
  <2>4. m.out \o [i \in 1 .. size |-> reloc(i)] = [n \in 1 .. d |-> packed[n]] \o [i \in 1 .. size |-> packed[d + i]]
    BY ONLY <1>3, <2>1
  <2> QED BY ONLY <2>3, <2>4
<1>16. at[size] = O(d + size)
  <2>1. size \in 0 .. size
    BY <1>4
  <2> QED BY ONLY <1>13, <2>1
<1>17. AfterGroup(s, m) = [p |-> EndOf(lib, g), offset |-> O(d + size), idx |-> d + size,
                           out |-> [n \in 1 .. d + size |-> packed[n]]]
  BY <1>2, <1>3, <1>4, <1>9, <1>15, <1>16
<1> QED BY <1>1, <1>17 DEF StateAfter, O, m

\* The decoder's states, a group at a time.
More(s, m) == m.idx < s[1] /\ m.p < Len(s) /\ m.p + HeaderLen(s[m.p + 1]) - 1 <= Len(s)

AreStates(m, s, n) ==
    m = [k \in 0 .. n |->
            IF k = 0 THEN [p |-> 3, offset |-> s[2], idx |-> 0, out |-> <<>>]
            ELSE LET j == m[k - 1] IN IF More(s, j) THEN AfterGroup(s, j) ELSE j]

\* The decoder goes on until it is behind the last group.
LEMMA MoreGroups ==
    ASSUME NEW lib, IsStream(lib), lib.packed \in Seq(Reloc(lib.img))
    PROVE  LET G == Len(lib.groups)
           IN  /\ \A g \in 0 .. G - 1 : More(lib.img.aps2, StateAfter(lib, g))
               /\ ~More(lib.img.aps2, StateAfter(lib, G))
<1> DEFINE s == lib.img.aps2
           P == Len(lib.packed)
           G == Len(lib.groups)
<1>1. /\ Len(s) \in Nat /\ s[1] = P /\ P \in Nat
      /\ G \in Nat /\ Done(lib, G) = P
      /\ \A g \in 0 .. G : Done(lib, g) \in 0 .. P /\ EndOf(lib, g) \in 3 .. Len(s) + 1
      /\ \A g \in 1 .. G :
            /\ IsGroup(lib, lib.groups[g])
            /\ lib.groups[g].at = EndOf(lib, g - 1)
            /\ Done(lib, g) = Done(lib, g - 1) + lib.groups[g].size
  <2>1. InOrder(lib)
    BY StreamIs
  <2>2. Len(lib.packed) \in Nat
    OBVIOUS
  <2> QED BY ONLY <2>1, <2>2 DEF InOrder
<1>2. \A g : StateAfter(lib, g).idx = Done(lib, g) /\ StateAfter(lib, g).p = EndOf(lib, g)
  BY DEF StateAfter
<1>3. ASSUME NEW g \in 0 .. G - 1 PROVE More(s, StateAfter(lib, g))
  <2> DEFINE h == g + 1
             group == lib.groups[h]
             p == group.at
  <2>1. h \in 1 .. G /\ h \in 0 .. G /\ h - 1 = g /\ g \in 0 .. G
    BY <1>1
  <2> HIDE DEF h
  <2>2. IsGroup(lib, group) /\ p = EndOf(lib, g) /\ Done(lib, h) = Done(lib, g) + group.size
    BY <1>1, <2>1
  <2>3. EndOf(lib, h) = OwnAt(lib, group, group.first + group.size)
    BY <2>1 DEF EndOf
  <2> HIDE DEF group
  <2>4. group.size \in Nat /\ group.size # 0 /\ p \in Nat
    BY <2>2 DEF IsGroup
  <2>5. s[p + 1] = group.flags /\ HeaderLen(group.flags) \in 2 .. 5 /\ p + HeaderLen(group.flags) <= EndOf(lib, h)
    BY <2>2, <2>3, GroupReads, GroupSpan
  <2>6. EndOf(lib, h) \in 3 .. Len(s) + 1 /\ Done(lib, h) \in 0 .. P /\ Done(lib, g) \in 0 .. P
    BY <1>1, <2>1
  <2>7. Done(lib, g) < P
    BY <1>1, <2>2, <2>4, <2>6
  <2>8. p < Len(s) /\ p + HeaderLen(group.flags) - 1 <= Len(s)
    <3> DEFINE L == Len(s)
               H == HeaderLen(group.flags)
               e == EndOf(lib, h)
    <3>1. L \in Nat /\ p \in Nat /\ H \in 2 .. 5 /\ p + H <= e /\ e \in 3 .. L + 1
      BY <1>1, <2>4, <2>5, <2>6
    <3> HIDE DEF L, H, e, p
    <3>2. p < L /\ p + H - 1 <= L
      BY ONLY <3>1
    <3> QED BY <3>2 DEF L, H
  <2> QED BY <1>1, <1>2, <2>2, <2>5, <2>7, <2>8 DEF More
<1>4. ~More(s, StateAfter(lib, G))
  BY <1>1, <1>2 DEF More
<1> QED BY <1>3, <1>4

\* The decoder yields the relocations that the stream stands for: all of them, in
\* their order, with their places, symbols and types (bh_elf_iterate_aps2).
THEOREM Unpacks ==
    ASSUME NEW lib, IsPacked(lib), lib.packed \in Seq(Reloc(lib.img))
    PROVE  Unpacked(lib.img.aps2) = lib.packed
<1> DEFINE s == lib.img.aps2
           G == Len(lib.groups)
           N == Len(s)
           m == CHOOSE f : AreStates(f, s, N)
<1>1. CASE s = <<>>
  <2>1. Len(<<>>) = 0
    OBVIOUS
  <2> QED BY <1>1, <2>1 DEF Unpacked, IsPacked
<1>2. CASE s # <<>>
  <2>1. IsStream(lib)
    BY <1>2 DEF IsPacked
  <2>2. /\ N \in Nat /\ N >= 2 /\ G \in 0 .. N /\ Done(lib, G) = Len(lib.packed)
    <3>1. InOrder(lib)
      BY <2>1, StreamIs
    <3> QED BY ONLY <3>1 DEF InOrder
  <2>3. Unpacked(s) = m[N].out
    <3>1. Unpacked(s) = IF N < 2 THEN <<>> ELSE m[N].out
      BY DEF Unpacked, AreStates, More
    <3> QED BY <2>2, <3>1
  <2> DEFINE least(k) == IF k <= G THEN k ELSE G
             S(g) == StateAfter(lib, g)
  <2>4. S(0) = [p |-> 3, offset |-> s[2], idx |-> 0, out |-> <<>>]
    BY DEF StateAfter, EndOf, Done, OffsetAt
  <2>5. ASSUME NEW k \in 1 .. N
        PROVE  S(least(k)) = IF More(s, S(least(k - 1))) THEN AfterGroup(s, S(least(k - 1))) ELSE S(least(k - 1))
    <3> HIDE DEF S, s, G, N
    <3>1. CASE k <= G
      <4>1. k \in 1 .. G /\ k - 1 \in 0 .. G - 1 /\ least(k) = k /\ least(k - 1) = k - 1
        BY <2>2, <3>1
      <4>2. More(s, S(k - 1)) /\ AfterGroup(s, S(k - 1)) = S(k)
        BY <2>1, <4>1, MoreGroups, AfterGroupIs DEF S, s, G
      <4> HIDE DEF least
      <4> QED BY <4>1, <4>2
    <3>2. CASE ~(k <= G)
      <4>1. least(k) = G /\ least(k - 1) = G
        BY <2>2, <3>2
      <4>2. ~More(s, S(G))
        BY <2>1, MoreGroups DEF S, s, G
      <4> HIDE DEF least
      <4> QED BY <4>1, <4>2
    <3> QED BY <3>1, <3>2
  <2>6. least(0) = 0 /\ least(N) = G
    BY <2>2
  <2> HIDE DEF S, s, G, least
  <2>7. AreStates([k \in 0 .. N |-> S(least(k))], s, N)
    <3> DEFINE f == [k \in 0 .. N |-> S(least(k))]
    <3> HIDE DEF N
    <3>1. ASSUME NEW k \in 0 .. N
          PROVE  f[k] = IF k = 0 THEN [p |-> 3, offset |-> s[2], idx |-> 0, out |-> <<>>]
                        ELSE IF More(s, f[k - 1]) THEN AfterGroup(s, f[k - 1]) ELSE f[k - 1]
      <4>1. CASE k = 0
        BY <2>4, <2>6, <4>1
      <4>2. CASE k # 0
        <5>1. k \in 1 .. N /\ k - 1 \in 0 .. N
          BY <2>2, <4>2
        <5>2. f[k] = S(least(k)) /\ f[k - 1] = S(least(k - 1))
          BY <5>1
        <5> HIDE DEF f
        <5> QED BY <2>5, <4>2, <5>1, <5>2
      <4> QED BY <4>1, <4>2
    <3>2. DOMAIN f = 0 .. N
      OBVIOUS
    <3> QED BY <3>1, <3>2 DEF AreStates
  <2>8. AreStates(m, s, N)
    BY <2>7
  <2> HIDE DEF m, N
  <2>9. \A k \in 0 .. N : m[k] = S(least(k))
    <3> DEFINE T == {k \in 0 .. N : m[k] = S(least(k))}
    <3>1. \A k \in 0 .. N : m[k] =
            IF k = 0 THEN [p |-> 3, offset |-> s[2], idx |-> 0, out |-> <<>>]
            ELSE IF More(s, m[k - 1]) THEN AfterGroup(s, m[k - 1]) ELSE m[k - 1]
      BY <2>8 DEF AreStates
    <3>2. 0 \in T
      BY <2>2, <2>4, <2>6, <3>1
    <3>3. ASSUME NEW j \in 0 .. N - 1, j \in T PROVE j + 1 \in T
      <4> DEFINE k == j + 1
      <4>1. k \in 1 .. N /\ k \in 0 .. N /\ k - 1 = j /\ k # 0
        BY <2>2
      <4>2. m[k - 1] = S(least(k - 1))
        BY <3>3, <4>1
      <4> HIDE DEF k
      <4>3. m[k] = IF More(s, m[k - 1]) THEN AfterGroup(s, m[k - 1]) ELSE m[k - 1]
        BY <3>1, <4>1
      <4>4. m[k] = S(least(k))
        BY <2>5, <4>1, <4>2, <4>3
      <4> QED BY <4>1, <4>4 DEF k
    <3>4. 0 .. N \subseteq T
      <4> HIDE DEF T
      <4> QED BY <2>2, <3>2, <3>3, CountUp
    <3> QED BY <3>4
  <2>10. m[N] = S(G)
    BY <2>2, <2>6, <2>9
  <2>11. S(G).out = lib.packed
    <3>1. S(G).out = [n \in 1 .. Len(lib.packed) |-> lib.packed[n]]
      BY <2>2 DEF S, StateAfter
    <3> QED BY <3>1
  <2> QED BY <2>3, <2>10, <2>11 DEF s
<1> QED BY <1>1, <1>2

(***************************************************************************)
(* What is found in a library                                                *)
(***************************************************************************)
\* Of the relocations, those with a place the linker fills in, each of them once.
LEMMA GotRelocsAre ==
    ASSUME NEW lib, HasRelocs(lib), IsPacked(lib)
    PROVE  LET R == Reloc(lib.img)
               t == GotRelocs(lib.img)
           IN  /\ AreRelocs(Relocs(lib), R)
               /\ t \in Seq(R) /\ IsInjective(t)
               /\ Range(t) = {r \in Range(Relocs(lib)) : r.type \in GotTypes}
<1> DEFINE R == Reloc(lib.img)
           plt == lib.img.plt
           dyn == lib.img.dyn
           packed == lib.packed
           pd == plt \o dyn
           all == pd \o packed
           a == OfType(plt, {"jump_slot"})
           b == OfType(dyn, DynTypes)
           c == OfType(packed, DynTypes)
<1>1. plt \in Seq(R) /\ dyn \in Seq(R) /\ packed \in Seq(R)
  BY DEF HasRelocs
<1>2. Relocs(lib) = all /\ GotRelocs(lib.img) = (a \o b) \o c
  <2>1. Unpacked(lib.img.aps2) = packed
    BY <1>1, Unpacks
  <2> HIDE DEF packed
  <2> QED BY <2>1 DEF GotRelocs, Relocs, packed
<1>3. \A m, n \in DOMAIN all : all[m].at = all[n].at => m = n
  BY <1>2 DEF HasRelocs
<1>4. /\ \A r \in Range(plt) : r.type \in {"jump_slot", "other"}
      /\ \A r \in Range(dyn) : r.type # "jump_slot"
      /\ \A r \in Range(packed) : r.type # "jump_slot"
  BY DEF HasRelocs, Range
<1> HIDE DEF R, plt, dyn, packed
<1>5. pd \in Seq(R) /\ Range(pd) = Range(plt) \cup Range(dyn)
  BY <1>1, JoinedOnce
<1>6. all \in Seq(R) /\ Range(all) = Range(pd) \cup Range(packed)
  <2> HIDE DEF pd
  <2> QED BY <1>1, <1>5, JoinedOnce
<1>7. IsInjective(all)
  <2> HIDE DEF all
  <2> QED BY <1>3 DEF IsInjective
<1>8. IsInjective(pd) /\ IsInjective(packed) /\ Range(pd) \cap Range(packed) = {}
  <2> HIDE DEF pd
  <2> QED BY <1>1, <1>5, <1>7, JoinedOnce
<1>9. IsInjective(plt) /\ IsInjective(dyn) /\ Range(plt) \cap Range(dyn) = {}
  BY <1>1, <1>8, JoinedOnce
<1> HIDE DEF pd, all
<1>10. ASSUME NEW s \in Seq(R), IsInjective(s), NEW types
       PROVE  /\ OfType(s, types) \in Seq(R) /\ IsInjective(OfType(s, types))
              /\ Range(OfType(s, types)) = {r \in Range(s) : r.type \in types}
  <2> DEFINE W == {r \in Range(s) : r.type \in types}
  <2>1. Range(s) \cap W = W
    OBVIOUS
  <2>2. OfType(s, types) = Picked(s, W)
    BY DEF OfType
  <2> HIDE DEF W
  <2>3. Picked(s, W) \in Seq(R) /\ IsInjective(Picked(s, W)) /\ Range(Picked(s, W)) = W
    BY <1>10, <2>1, PickedAre
  <2> QED BY <2>2, <2>3 DEF W
<1>11. /\ a \in Seq(R) /\ IsInjective(a) /\ Range(a) = {r \in Range(plt) : r.type \in {"jump_slot"}}
       /\ b \in Seq(R) /\ IsInjective(b) /\ Range(b) = {r \in Range(dyn) : r.type \in DynTypes}
       /\ c \in Seq(R) /\ IsInjective(c) /\ Range(c) = {r \in Range(packed) : r.type \in DynTypes}
  BY <1>1, <1>8, <1>9, <1>10
<1> HIDE DEF a, b, c
<1>12. a \o b \in Seq(R) /\ IsInjective(a \o b) /\ Range(a \o b) = Range(a) \cup Range(b)
  <2>1. Range(a) \cap Range(b) = {}
    BY <1>9, <1>11
  <2> QED BY <1>11, <2>1, JoinedOnce
<1> DEFINE ab == a \o b
<1>13. ab \in Seq(R) /\ IsInjective(ab) /\ Range(ab) = Range(a) \cup Range(b)
  BY <1>12
<1> HIDE DEF ab
<1>14. ab \o c \in Seq(R) /\ IsInjective(ab \o c) /\ Range(ab \o c) = Range(ab) \cup Range(c)
  <2>1. Range(ab) \cap Range(c) = {}
    BY <1>5, <1>8, <1>11, <1>13
  <2> QED BY <1>11, <1>13, <2>1, JoinedOnce
<1>15. Range(ab) \cup Range(c) = {r \in Range(all) : r.type \in GotTypes}
  BY <1>4, <1>5, <1>6, <1>11, <1>13 DEF GotTypes, DynTypes
<1>16. AreRelocs(all, R)
  BY <1>3, <1>6 DEF AreRelocs
<1> QED BY <1>2, <1>14, <1>15, <1>16 DEF ab, R

\* In a library, whatever its size, each place that refers to a function is found,
\* once, by the name and by the address of the function, unless it is not looked
\* for there (Unseen), and a function that it exports is (bh_elf.cpp).
THEOREM FoundInLibrary ==
    ASSUME NEW lib, IsLibrary(lib), NEW name \in Names, IsFuncName(lib.img, name)
    PROVE  AllFound(lib, name)
<1> DEFINE img == lib.img
           R == Reloc(img)
           t == GotRelocs(img)
           places == PlacesOf(lib, name)
           addr(r) == img.bias + r.at
<1>1. /\ img.bias \in Int /\ HasSymbols(img) /\ HasTables(img, lib.place)
      /\ HasRelocs(lib) /\ IsPacked(lib)
  BY DEF IsLibrary
<1>2. img.plt \in Seq(R) /\ img.dyn \in Seq(R)
  BY <1>1 DEF HasRelocs
<1>3. /\ AreRelocs(Relocs(lib), R)
      /\ t \in Seq(R) /\ IsInjective(t)
      /\ Range(t) = {r \in Range(Relocs(lib)) : r.type \in GotTypes}
  BY <1>1, GotRelocsAre
<1>4. \A r \in R : r.at \in Int /\ r.sym \in Symbols(img)
  BY DEF Reloc
<1>5. places = {addr(r) : r \in {q \in Range(t) : img.syms[q.sym].name = name}}
  BY <1>3 DEF PlacesOf
<1>6. \A r \in Range(t) : r \in R
  BY <1>3 DEF Range
<1>7. ASSUME NEW W PROVE AreAll(Slots(img, Picked(t, W)), {addr(r) : r \in Range(t) \cap W})
  <2>1. Range(t) \subseteq Range(Relocs(lib)) /\ \A r \in R : r.at \in Int
    BY <1>3, <1>4
  <2> HIDE DEF img, t, R
  <2> QED BY <1>1, <1>3, <2>1, SlotsPicked
<1>8. ASSUME ~Unseen(img, name) PROVE AreAll(ImportSlots(img, name), places)
  <2> DEFINE sym == ImportSymbol(img, name)
             W == {r \in Range(t) : r.sym = sym}
  <2>1. /\ \A i \in 1 .. LastSymbol(img) : img.syms[i].name = name => sym = i
        /\ (\A i \in 1 .. LastSymbol(img) : img.syms[i].name # name) => sym = Null
    <3> HIDE DEF img, R
    <3> QED BY <1>1, <1>2, <1>8, ImportSymbolIs DEF img, R
  <2>2. \A i \in Symbols(img) : img.syms[i].name = name => i \in 1 .. LastSymbol(img)
    BY <1>1, TheSymbol
  <2>3. \A i \in 1 .. LastSymbol(img) : i # Null
    BY DEF Null
  <2>4. ImportSlots(img, name) = IF sym = Null THEN <<>> ELSE Slots(img, Picked(t, W))
    BY DEF ImportSlots
  <2> HIDE DEF sym, t, img, R
  <2>5. CASE sym = Null
    <3>1. places = {}
      BY <1>4, <1>5, <1>6, <2>1, <2>2, <2>3, <2>5
    <3>2. AreAll(<<>>, {})
      <4>1. Cardinality({}) = 0 /\ Len(<<>>) = 0 /\ DOMAIN <<>> = {}
        BY FS_EmptySet
      <4> QED BY <4>1, ElfReaderAssumption DEF AreAll, Range, IsInjective
    <3> QED BY <2>4, <2>5, <3>1, <3>2
  <2>6. CASE sym # Null
    <3>1. PICK i \in 1 .. LastSymbol(img) : img.syms[i].name = name
      BY <2>1, <2>6
    <3>2. sym = i
      BY <2>1, <3>1
    <3>3. \A r \in Range(t) : r.sym = sym <=> img.syms[r.sym].name = name
      BY <1>4, <1>6, <2>1, <2>2, <3>1, <3>2
    <3>4. {addr(r) : r \in Range(t) \cap W} = places
      BY <1>5, <3>3
    <3> HIDE DEF W, addr, places
    <3>5. AreAll(Slots(img, Picked(t, W)), {addr(r) : r \in Range(t) \cap W})
      BY <1>7
    <3> QED BY <2>4, <2>6, <3>4, <3>5
  <2> QED BY <2>5, <2>6
<1> DEFINE all == {addr(r) : r \in Range(Relocs(lib))}
           holds == [at \in all |-> at \in places]
<1>9. AreAll(CalleeSlots(img, holds, TRUE), places)
  <2> DEFINE W == {r \in Range(t) : holds[addr(r)] = TRUE}
  <2>1. \A r \in Range(t) : addr(r) \in all
    BY <1>3
  <2>2. \A r \in Range(t) : r \in W <=> addr(r) \in places
    <3> SUFFICES ASSUME NEW r \in Range(t) PROVE r \in W <=> addr(r) \in places
      OBVIOUS
    <3>1. addr(r) \in all
      BY <2>1
    <3> HIDE DEF all, places, addr, t
    <3>2. holds[addr(r)] = (addr(r) \in places)
      BY <3>1, Zenon
    <3>3. holds[addr(r)] = TRUE <=> addr(r) \in places
      BY <3>2, Zenon
    <3> QED BY <3>3, Zenon
  <2>3. CalleeSlots(img, holds, TRUE) = Slots(img, Picked(t, W))
    BY DEF CalleeSlots
  <2> HIDE DEF W, holds, t, img
  <2>4. {addr(r) : r \in Range(t) \cap W} = places
    BY <1>5, <2>2
  <2>5. AreAll(Slots(img, Picked(t, W)), {addr(r) : r \in Range(t) \cap W})
    BY <1>7
  <2> HIDE DEF addr, places
  <2> QED BY <2>3, <2>4, <2>5
<1>10. ExportFound(img, name)
  <2> HIDE DEF img
  <2> QED BY <1>1, ExportIsFound DEF img
<1> QED BY <1>8, <1>9, <1>10, Zenon DEF AllFound

\* So it is in every library of the ones given (EveryPlaceFound).
THEOREM Found == Spec => []EveryPlaceFound
<1>1. EveryPlaceFound
  <2>1. ASSUME NEW lib \in Libraries, NEW name \in Names, IsFuncName(lib.img, name) PROVE AllFound(lib, name)
    BY <2>1, LibrariesAssumption, FoundInLibrary
  <2> QED BY <2>1 DEF EveryPlaceFound
<1> QED BY <1>1, PTL

=============================================================================
