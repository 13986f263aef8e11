--------------------------- MODULE RewriteProofs ---------------------------
(***************************************************************************)
(* Proofs that the enter of a hooked function does what its first            *)
(* instructions did: RelocationSound of SharedHook, for every part that      *)
(* A64Rewrite and A32Rewrite describe.  First arm64, then arm; each half     *)
(* locates the blocks in the enter, runs the words one at a time, puts them  *)
(* together into what a block of each type does, and compares that with what *)
(* its instruction did.                                                      *)
(***************************************************************************)
EXTENDS SharedHook, TLAPS, WellFoundedInduction, FiniteSetTheorems

\* Every nonempty set of numbers has a least one.
LEMMA LeastOf ==
    ASSUME NEW T, T \subseteq Nat, T # {}
    PROVE  \E m \in T : \A k \in T : m <= k
<1> DEFINE R == OpToRel(<, Nat)
<1>1. IsWellFoundedOn(R, Nat)
  BY NatLessThanWellFounded
<1>2. \E m \in T : \A k \in T : <<k, m>> \notin R
  <2> HIDE DEF R
  <2> QED BY <1>1, WFMin
<1>3. PICK m \in T : \A k \in T : <<k, m>> \notin R
  BY <1>2
<1>4. ASSUME NEW k \in T PROVE m <= k
  <2>1. ~(k < m)
    BY <1>3 DEF OpToRel
  <2> QED BY <2>1
<1> QED BY <1>3, <1>4

\* A set that has 0, and with a number the next one, has the numbers up to N.
LEMMA CountUp ==
    ASSUME NEW S, NEW N \in Nat, 0 \in S, \A n \in 0 .. N - 1 : n \in S => n + 1 \in S
    PROVE  0 .. N \subseteq S
<1> DEFINE T == {n \in 0 .. N : n \notin S}
<1> SUFFICES ASSUME T # {} PROVE FALSE
  OBVIOUS
<1>1. PICK m \in T : \A k \in T : m <= k
  <2>1. T \subseteq Nat
    OBVIOUS
  <2> HIDE DEF T
  <2> QED BY <2>1, LeastOf
<1>2. m \in 1 .. N
  BY <1>1
<1>3. m - 1 \in 0 .. N - 1 /\ m - 1 \notin T
  BY <1>1, <1>2
<1>4. m - 1 + 1 \in S
  BY <1>3
<1> QED BY <1>1, <1>2, <1>4

(***************************************************************************)
(* The places of the blocks                                                  *)
(***************************************************************************)
\* at has the places of the first n blocks and the one behind them.
ArePlaces(at, moved, n) ==
    at = [k \in 0 .. n |-> IF k = 0 THEN moved.buf ELSE at[k - 1] + RewriteLen(moved.insts[k].type)]

\* The places exist.
LEMMA PlacesExist ==
    ASSUME NEW moved \in Part
    PROVE  \E at : ArePlaces(at, moved, Len(moved.insts))
<1> DEFINE N == Len(moved.insts)
           S == {n \in 0 .. N : \E at : ArePlaces(at, moved, n)}
<1>1. N \in Nat
  BY DEF Part
<1>2. 0 \in S
  <2>1. ArePlaces([k \in 0 .. 0 |-> moved.buf], moved, 0)
    BY DEF ArePlaces
  <2> QED BY <1>1, <2>1
<1>3. ASSUME NEW n \in 0 .. N - 1, n \in S PROVE n + 1 \in S
  <2>1. PICK at : ArePlaces(at, moved, n)
    BY <1>3
  <2> DEFINE new == [k \in 0 .. n + 1 |->
                        IF k = n + 1 THEN at[n] + RewriteLen(moved.insts[n + 1].type) ELSE at[k]]
  <2>2. ASSUME NEW k \in 0 .. n + 1
        PROVE  new[k] = IF k = 0 THEN moved.buf ELSE new[k - 1] + RewriteLen(moved.insts[k].type)
    <3>1. n \in Nat /\ (k = 0 \/ k = n + 1 \/ k \in 1 .. n)
      BY <1>1
    <3>2. CASE k = 0
      BY <2>1, <3>1, <3>2 DEF ArePlaces
    <3>3. CASE k = n + 1
      <4>1. k # 0 /\ k - 1 = n /\ n # k /\ n \in 0 .. n + 1
        BY <3>1, <3>3
      <4>2. new[k] = at[n] + RewriteLen(moved.insts[n + 1].type) /\ new[n] = at[n]
        BY <3>3, <4>1
      <4> QED BY <3>3, <4>1, <4>2
    <3>4. CASE k \in 1 .. n
      <4>1. at[k] = at[k - 1] + RewriteLen(moved.insts[k].type)
        BY <2>1, <3>1, <3>4 DEF ArePlaces
      <4>2. new[k] = at[k] /\ new[k - 1] = at[k - 1] /\ k # 0
        BY <3>1, <3>4
      <4> QED BY <4>1, <4>2
    <3> QED BY <3>1, <3>2, <3>3, <3>4
  <2>3. ArePlaces(new, moved, n + 1)
    BY <2>2 DEF ArePlaces
  <2> QED BY <1>1, <2>3
<1>4. 0 .. N \subseteq S
  <2> HIDE DEF S, N
  <2> QED BY <1>1, <1>2, <1>3, CountUp
<1> QED BY <1>1, <1>4

\* Each block stands behind the one before it.
LEMMA PlacesFollow ==
    ASSUME NEW moved \in Part
    PROVE  /\ BlockAt(moved, 1) = moved.buf
           /\ \A i \in 1 .. Len(moved.insts) :
                BlockAt(moved, i + 1) = BlockAt(moved, i) + RewriteLen(moved.insts[i].type)
<1>1. Len(moved.insts) \in Nat
  BY DEF Part
<1>2. ArePlaces(Places(moved), moved, Len(moved.insts))
  BY PlacesExist DEF ArePlaces, Places
<1> SUFFICES ASSUME NEW at, at = Places(moved)
             PROVE  /\ at[1 - 1] = moved.buf
                    /\ \A i \in 1 .. Len(moved.insts) :
                         at[i + 1 - 1] = at[i - 1] + RewriteLen(moved.insts[i].type)
  BY DEF BlockAt
<1>3. \A k \in 0 .. Len(moved.insts) :
        at[k] = IF k = 0 THEN moved.buf ELSE at[k - 1] + RewriteLen(moved.insts[k].type)
  BY <1>2 DEF ArePlaces
<1>4. at[1 - 1] = moved.buf
  BY <1>1, <1>3
<1>5. ASSUME NEW i \in 1 .. Len(moved.insts)
      PROVE  at[i + 1 - 1] = at[i - 1] + RewriteLen(moved.insts[i].type)
  <2>1. i \in 0 .. Len(moved.insts) /\ i # 0 /\ i + 1 - 1 = i
    BY <1>1
  <2> QED BY <1>3, <2>1
<1> QED BY <1>4, <1>5

(***************************************************************************)
(* Running a block                                                           *)
(***************************************************************************)
At(at, x17, saved, gone, link, value) ==
    [at |-> at, x17 |-> x17, saved |-> saved, gone |-> gone, link |-> link, value |-> value]

AreStates(state, block, base, holds, n) ==
    state = [k \in 0 .. n |-> IF k = 0 THEN Starting ELSE After(block, base, holds, state[k - 1])]

\* The states of a block that runs exist, so that States is defined everywhere.
LEMMA StatesExist ==
    ASSUME NEW block, NEW base, NEW holds
    PROVE  \E state : AreStates(state, block, base, holds, 7)
<1> DEFINE S == {n \in 0 .. 7 : \E state : AreStates(state, block, base, holds, n)}
<1>2. 0 \in S
  <2>1. AreStates([k \in 0 .. 0 |-> Starting], block, base, holds, 0)
    BY DEF AreStates
  <2> QED BY <2>1
<1>3. ASSUME NEW n \in 0 .. 7 - 1, n \in S PROVE n + 1 \in S
  <2>1. PICK state : AreStates(state, block, base, holds, n)
    BY <1>3
  <2> DEFINE new == [k \in 0 .. n + 1 |-> IF k = n + 1 THEN After(block, base, holds, state[n]) ELSE state[k]]
  <2>2. ASSUME NEW k \in 0 .. n + 1
        PROVE  new[k] = IF k = 0 THEN Starting ELSE After(block, base, holds, new[k - 1])
    BY <1>3, <2>1 DEF AreStates
  <2>3. AreStates(new, block, base, holds, n + 1)
    BY <2>2 DEF AreStates
  <2> QED BY <2>3
<1>4. 0 .. 7 \subseteq S
  <2> HIDE DEF S
  <2> QED BY <1>2, <1>3, CountUp
<1> QED BY <1>4

\* Its seven words run one after the other.
LEMMA RunsSeven ==
    ASSUME NEW block, NEW base, NEW holds
    PROVE  LET state == States(block, base, holds)
           IN  /\ state[0] = Starting
               /\ state[1] = After(block, base, holds, state[0])
               /\ state[2] = After(block, base, holds, state[1])
               /\ state[3] = After(block, base, holds, state[2])
               /\ state[4] = After(block, base, holds, state[3])
               /\ state[5] = After(block, base, holds, state[4])
               /\ state[6] = After(block, base, holds, state[5])
               /\ state[7] = After(block, base, holds, state[6])
<1>1. AreStates(States(block, base, holds), block, base, holds, 7)
  BY StatesExist DEF AreStates, States
<1> DEFINE state == States(block, base, holds)
<1>2. state[0] = Starting
  BY <1>1 DEF AreStates
<1>3. \A k \in 1 .. 7 : state[k] = After(block, base, holds, state[k - 1])
  BY <1>1 DEF AreStates
<1> HIDE DEF state
<1>4. /\ state[1] = After(block, base, holds, state[0])
      /\ state[2] = After(block, base, holds, state[1])
      /\ state[3] = After(block, base, holds, state[2])
      /\ state[4] = After(block, base, holds, state[3])
      /\ state[5] = After(block, base, holds, state[4])
      /\ state[6] = After(block, base, holds, state[5])
      /\ state[7] = After(block, base, holds, state[6])
  BY <1>3
<1> QED BY <1>2, <1>4 DEF state

\* The condition of the instruction holds, or it does not.
Holds(holds) == holds = TRUE
Fails(holds) == holds = FALSE

\* The words of a block: the one at an index, from which the block goes on at to,
HasWord(block, at, to, w) ==
    at \in Nat /\ to = at + 1 /\ at < Len(block) /\ block[at + 1] = w

\* a jump to an index, and a load of the address at a distance.
HasJump(block, at, to, op) ==
    at \in Nat /\ to \in Nat /\ at < Len(block) /\ block[at + 1] = Word(op, to - at)

HasLoad(block, at, to, op, n, a) ==
    n \in Nat /\ HasWord(block, at, to, Word(op, n)) /\ block[at + n + 1] = Word("low", a)

\* A call that returns to an address, and the end of the block.
HasCall(block, base, at, to, back) ==
    HasWord(block, at, to, Word("blr_x17", 0)) /\ base \in Int /\ back = base + to

IsEnd(block, at) == at \in Nat /\ at = Len(block)

(***************************************************************************)
(* One word                                                                  *)
(***************************************************************************)
\* LDR X17 loads an address,
LEMMA DoLoadX17 ==
    ASSUME NEW block, NEW base, NEW holds, NEW at, NEW to, NEW x17, NEW saved, NEW link, NEW value,
           NEW n, NEW a, HasLoad(block, at, to, "ldr_x17", n, a)
    PROVE  After(block, base, holds, At(at, x17, saved, None, link, value))
             = At(to, Address(a), saved, None, link, value)
<1> SUFFICES ASSUME NEW m, m = At(at, x17, saved, None, link, value)
             PROVE  After(block, base, holds, m) = At(to, Address(a), saved, None, link, value)
  OBVIOUS
<1>1. /\ m.at = at /\ m.gone = None /\ m.x17 = x17 /\ m.saved = saved
      /\ m.value = value
      /\ block[m.at + 1].op = "ldr_x17"
  BY DEF At, HasLoad, HasWord, Word
<1>2. After(block, base, holds, m) = RunWord(block, base, holds, m)
  <2>1. at \in Nat /\ at < Len(block)
    BY DEF HasLoad, HasWord, Word
  <2> QED BY <1>1, <2>1 DEF After
<1>3. RunWord(block, base, holds, m)
        = [[m EXCEPT !.at = @ + 1] EXCEPT !.x17 = Address(block[m.at + 1 + block[m.at + 1].arg].arg)]
  BY <1>1 DEF RunWord
<1>4. block[m.at + 1 + block[m.at + 1].arg].arg = a
  BY <1>1 DEF HasLoad, HasWord, Word
<1>5. to = at + 1
  BY DEF HasLoad, HasWord
<1> QED BY <1>1, <1>2, <1>3, <1>4, <1>5 DEF At

\* as does the load of the instruction's own register.
LEMMA DoLoadXt ==
    ASSUME NEW block, NEW base, NEW holds, NEW at, NEW to, NEW x17, NEW saved, NEW link, NEW value,
           NEW n, NEW a, HasLoad(block, at, to, "ldr_xt", n, a)
    PROVE  After(block, base, holds, At(at, x17, saved, None, link, value))
             = At(to, x17, saved, None, link, Address(a))
<1> SUFFICES ASSUME NEW m, m = At(at, x17, saved, None, link, value)
             PROVE  After(block, base, holds, m) = At(to, x17, saved, None, link, Address(a))
  OBVIOUS
<1>1. /\ m.at = at /\ m.gone = None /\ m.x17 = x17 /\ m.saved = saved
      /\ m.value = value
      /\ block[m.at + 1].op = "ldr_xt"
  BY DEF At, HasLoad, HasWord, Word
<1>2. After(block, base, holds, m) = RunWord(block, base, holds, m)
  <2>1. at \in Nat /\ at < Len(block)
    BY DEF HasLoad, HasWord, Word
  <2> QED BY <1>1, <2>1 DEF After
<1>3. RunWord(block, base, holds, m)
        = [[m EXCEPT !.at = @ + 1] EXCEPT !.value = Address(block[m.at + 1 + block[m.at + 1].arg].arg)]
  BY <1>1 DEF RunWord
<1>4. block[m.at + 1 + block[m.at + 1].arg].arg = a
  BY <1>1 DEF HasLoad, HasWord, Word
<1>5. to = at + 1
  BY DEF HasLoad, HasWord
<1> QED BY <1>1, <1>2, <1>3, <1>4, <1>5 DEF At

\* A jump goes on elsewhere.
LEMMA DoJump ==
    ASSUME NEW block, NEW base, NEW holds, NEW at, NEW to, NEW x17, NEW saved, NEW link, NEW value,
           HasJump(block, at, to, "jump")
    PROVE  After(block, base, holds, At(at, x17, saved, None, link, value))
             = At(to, x17, saved, None, link, value)
<1> SUFFICES ASSUME NEW m, m = At(at, x17, saved, None, link, value)
             PROVE  After(block, base, holds, m) = At(to, x17, saved, None, link, value)
  OBVIOUS
<1>1. /\ m.at = at /\ m.gone = None /\ m.x17 = x17 /\ m.saved = saved
      /\ m.value = value
      /\ block[m.at + 1].op = "jump"
  BY DEF At, HasJump, HasWord, Word
<1>2. After(block, base, holds, m) = RunWord(block, base, holds, m)
  <2>1. at \in Nat /\ at < Len(block)
    BY DEF HasJump, HasWord, Word
  <2> QED BY <1>1, <2>1 DEF After
<1>3. RunWord(block, base, holds, m)
        = [m EXCEPT !.at = @ + block[m.at + 1].arg]
  BY <1>1 DEF RunWord
<1>4. m.at + block[m.at + 1].arg = to
  BY <1>1 DEF HasJump, HasWord, Word, Address, Loaded
<1> QED BY <1>1, <1>2, <1>3, <1>4 DEF At, Address, Loaded, HasJump, HasWord, Word

\* So does the branch on the instruction's condition if it holds,
LEMMA DoWhen ==
    ASSUME NEW block, NEW base, NEW holds, NEW at, NEW to, NEW x17, NEW saved, NEW link, NEW value,
           Holds(holds), HasJump(block, at, to, "when")
    PROVE  After(block, base, holds, At(at, x17, saved, None, link, value))
             = At(to, x17, saved, None, link, value)
<1> SUFFICES ASSUME NEW m, m = At(at, x17, saved, None, link, value)
             PROVE  After(block, base, holds, m) = At(to, x17, saved, None, link, value)
  OBVIOUS
<1>1. /\ m.at = at /\ m.gone = None /\ m.x17 = x17 /\ m.saved = saved
      /\ m.value = value
      /\ block[m.at + 1].op = "when"
  BY DEF At, HasJump, HasWord, Word
<1>2. After(block, base, holds, m) = RunWord(block, base, holds, m)
  <2>1. at \in Nat /\ at < Len(block)
    BY DEF HasJump, HasWord, Word
  <2> QED BY <1>1, <2>1 DEF After
<1>3. RunWord(block, base, holds, m)
        = [m EXCEPT !.at = @ + block[m.at + 1].arg]
  BY <1>1 DEF RunWord, Holds
<1>4. m.at + block[m.at + 1].arg = to
  BY <1>1 DEF HasJump, HasWord, Word, Address, Loaded
<1> QED BY <1>1, <1>2, <1>3, <1>4 DEF At, Address, Loaded, HasJump, HasWord, Word

\* and if not it goes on behind itself.
LEMMA DoNotWhen ==
    ASSUME NEW block, NEW base, NEW holds, NEW at, NEW to, NEW x17, NEW saved, NEW link, NEW value,
           Fails(holds), NEW n, HasWord(block, at, to, Word("when", n))
    PROVE  After(block, base, holds, At(at, x17, saved, None, link, value))
             = At(to, x17, saved, None, link, value)
<1> SUFFICES ASSUME NEW m, m = At(at, x17, saved, None, link, value)
             PROVE  After(block, base, holds, m) = At(to, x17, saved, None, link, value)
  OBVIOUS
<1>1. /\ m.at = at /\ m.gone = None /\ m.x17 = x17 /\ m.saved = saved
      /\ m.value = value
      /\ block[m.at + 1].op = "when"
  BY DEF At, HasWord, Word
<1>2. After(block, base, holds, m) = RunWord(block, base, holds, m)
  <2>1. at \in Nat /\ at < Len(block)
    BY DEF HasWord, Word
  <2> QED BY <1>1, <2>1 DEF After
<1>3. RunWord(block, base, holds, m)
        = [m EXCEPT !.at = @ + 1]
  BY <1>1 DEF RunWord, Fails
<1> QED BY <1>1, <1>2, <1>3 DEF At, Address, Loaded, HasWord, Word

\* A load through the instruction's register, and
LEMMA DoLdrXt ==
    ASSUME NEW block, NEW base, NEW holds, NEW at, NEW to, NEW x17, NEW saved, NEW link, NEW value,
           HasWord(block, at, to, Word("ldr", "xt")), NEW a, value = Address(a)
    PROVE  After(block, base, holds, At(at, x17, saved, None, link, value))
             = At(to, x17, saved, None, link, Loaded(a))
<1> SUFFICES ASSUME NEW m, m = At(at, x17, saved, None, link, value)
             PROVE  After(block, base, holds, m) = At(to, x17, saved, None, link, Loaded(a))
  OBVIOUS
<1>1. /\ m.at = at /\ m.gone = None /\ m.x17 = x17 /\ m.saved = saved
      /\ m.value = value
      /\ block[m.at + 1].op = "ldr"
  BY DEF At, HasWord, Word
<1>2. After(block, base, holds, m) = RunWord(block, base, holds, m)
  <2>1. at \in Nat /\ at < Len(block)
    BY DEF HasWord, Word
  <2> QED BY <1>1, <2>1 DEF After
<1>3. RunWord(block, base, holds, m)
        = [[m EXCEPT !.at = @ + 1] EXCEPT !.value = Loaded(IF block[m.at + 1].arg
              = "xt" THEN m.value.at ELSE m.x17.at)]
  BY <1>1 DEF RunWord
<1>4. Loaded(IF block[m.at + 1].arg = "xt" THEN m.value.at ELSE m.x17.at) = Loaded(a)
  BY <1>1 DEF HasWord, Word, Address, Loaded
<1> QED BY <1>1, <1>2, <1>3, <1>4 DEF At, Address, Loaded, HasWord, Word

\* one through X17.
LEMMA DoLdrX17 ==
    ASSUME NEW block, NEW base, NEW holds, NEW at, NEW to, NEW x17, NEW saved, NEW link, NEW value,
           HasWord(block, at, to, Word("ldr", "x17")), NEW a, x17 = Address(a)
    PROVE  After(block, base, holds, At(at, x17, saved, None, link, value))
             = At(to, x17, saved, None, link, Loaded(a))
<1> SUFFICES ASSUME NEW m, m = At(at, x17, saved, None, link, value)
             PROVE  After(block, base, holds, m) = At(to, x17, saved, None, link, Loaded(a))
  OBVIOUS
<1>1. /\ m.at = at /\ m.gone = None /\ m.x17 = x17 /\ m.saved = saved
      /\ m.value = value
      /\ block[m.at + 1].op = "ldr"
  BY DEF At, HasWord, Word
<1>2. After(block, base, holds, m) = RunWord(block, base, holds, m)
  <2>1. at \in Nat /\ at < Len(block)
    BY DEF HasWord, Word
  <2> QED BY <1>1, <2>1 DEF After
<1>3. RunWord(block, base, holds, m)
        = [[m EXCEPT !.at = @ + 1] EXCEPT !.value = Loaded(IF block[m.at + 1].arg
              = "xt" THEN m.value.at ELSE m.x17.at)]
  BY <1>1 DEF RunWord
<1>4. Loaded(IF block[m.at + 1].arg = "xt" THEN m.value.at ELSE m.x17.at) = Loaded(a)
  BY <1>1 DEF HasWord, Word, Address, Loaded
<1> QED BY <1>1, <1>2, <1>3, <1>4 DEF At, Address, Loaded, HasWord, Word

\* X17 is saved, and
LEMMA DoSave ==
    ASSUME NEW block, NEW base, NEW holds, NEW at, NEW to, NEW x17, NEW saved, NEW link, NEW value,
           HasWord(block, at, to, Word("save_x17", 0))
    PROVE  After(block, base, holds, At(at, x17, saved, None, link, value))
             = At(to, x17, x17, None, link, value)
<1> SUFFICES ASSUME NEW m, m = At(at, x17, saved, None, link, value)
             PROVE  After(block, base, holds, m) = At(to, x17, x17, None, link, value)
  OBVIOUS
<1>1. /\ m.at = at /\ m.gone = None /\ m.x17 = x17 /\ m.saved = saved
      /\ m.value = value
      /\ block[m.at + 1].op = "save_x17"
  BY DEF At, HasWord, Word
<1>2. After(block, base, holds, m) = RunWord(block, base, holds, m)
  <2>1. at \in Nat /\ at < Len(block)
    BY DEF HasWord, Word
  <2> QED BY <1>1, <2>1 DEF After
<1>3. RunWord(block, base, holds, m)
        = [[m EXCEPT !.at = @ + 1] EXCEPT !.saved = m.x17]
  BY <1>1 DEF RunWord
<1> QED BY <1>1, <1>2, <1>3 DEF At, Address, Loaded, HasWord, Word

\* restored.
LEMMA DoRestore ==
    ASSUME NEW block, NEW base, NEW holds, NEW at, NEW to, NEW x17, NEW saved, NEW link, NEW value,
           HasWord(block, at, to, Word("restore_x17", 0))
    PROVE  After(block, base, holds, At(at, x17, saved, None, link, value))
             = At(to, saved, saved, None, link, value)
<1> SUFFICES ASSUME NEW m, m = At(at, x17, saved, None, link, value)
             PROVE  After(block, base, holds, m) = At(to, saved, saved, None, link, value)
  OBVIOUS
<1>1. /\ m.at = at /\ m.gone = None /\ m.x17 = x17 /\ m.saved = saved
      /\ m.value = value
      /\ block[m.at + 1].op = "restore_x17"
  BY DEF At, HasWord, Word
<1>2. After(block, base, holds, m) = RunWord(block, base, holds, m)
  <2>1. at \in Nat /\ at < Len(block)
    BY DEF HasWord, Word
  <2> QED BY <1>1, <2>1 DEF After
<1>3. RunWord(block, base, holds, m)
        = [[m EXCEPT !.at = @ + 1] EXCEPT !.x17 = m.saved]
  BY <1>1 DEF RunWord
<1> QED BY <1>1, <1>2, <1>3 DEF At, Address, Loaded, HasWord, Word

\* BR X17 leaves the block.
LEMMA DoBr ==
    ASSUME NEW block, NEW base, NEW holds, NEW at, NEW to, NEW x17, NEW saved, NEW link, NEW value,
           HasWord(block, at, to, Word("br_x17", 0))
    PROVE  After(block, base, holds, At(at, x17, saved, None, link, value))
             = At(to, x17, saved, x17, link, value)
<1> SUFFICES ASSUME NEW m, m = At(at, x17, saved, None, link, value)
             PROVE  After(block, base, holds, m) = At(to, x17, saved, x17, link, value)
  OBVIOUS
<1>1. /\ m.at = at /\ m.gone = None /\ m.x17 = x17 /\ m.saved = saved
      /\ m.value = value
      /\ block[m.at + 1].op = "br_x17"
  BY DEF At, HasWord, Word
<1>2. After(block, base, holds, m) = RunWord(block, base, holds, m)
  <2>1. at \in Nat /\ at < Len(block)
    BY DEF HasWord, Word
  <2> QED BY <1>1, <2>1 DEF After
<1>3. RunWord(block, base, holds, m)
        = [[m EXCEPT !.at = @ + 1] EXCEPT !.gone = m.x17]
  BY <1>1 DEF RunWord
<1> QED BY <1>1, <1>2, <1>3 DEF At, Address, Loaded, HasWord, Word

\* BLR X17 sets the link register as well.
LEMMA DoBlr ==
    ASSUME NEW block, NEW base, NEW holds, NEW at, NEW to, NEW x17, NEW saved, NEW link, NEW value,
           NEW back, HasCall(block, base, at, to, back)
    PROVE  After(block, base, holds, At(at, x17, saved, None, link, value))
             = At(to, x17, saved, x17, Address(back), value)
<1> SUFFICES ASSUME NEW m, m = At(at, x17, saved, None, link, value)
             PROVE  After(block, base, holds, m) = At(to, x17, saved, x17, Address(back), value)
  OBVIOUS
<1>1. /\ m.at = at /\ m.gone = None /\ m.x17 = x17 /\ m.saved = saved
      /\ m.value = value
      /\ block[m.at + 1].op = "blr_x17"
  BY DEF At, HasCall, HasWord, Word
<1>2. After(block, base, holds, m) = RunWord(block, base, holds, m)
  <2>1. at \in Nat /\ at < Len(block)
    BY DEF HasCall, HasWord, Word
  <2> QED BY <1>1, <2>1 DEF After
<1>3. RunWord(block, base, holds, m)
        = [[[m EXCEPT !.at = @ + 1] EXCEPT !.gone = m.x17] EXCEPT !.link = Address(base + m.at + 1)]
  BY <1>1 DEF RunWord
<1>4. base + m.at + 1 = back
  BY <1>1 DEF HasCall, HasWord, Word, Address, Loaded
<1>5. to = at + 1
  BY DEF HasCall, HasWord
<1> QED BY <1>1, <1>2, <1>3, <1>4, <1>5 DEF At

\* An instruction that is kept.
LEMMA DoInst ==
    ASSUME NEW block, NEW base, NEW holds, NEW at, NEW to, NEW x17, NEW saved, NEW link, NEW value,
           HasWord(block, at, to, Word("inst", 0))
    PROVE  After(block, base, holds, At(at, x17, saved, None, link, value))
             = At(to, x17, saved, None, link, value)
<1> SUFFICES ASSUME NEW m, m = At(at, x17, saved, None, link, value)
             PROVE  After(block, base, holds, m) = At(to, x17, saved, None, link, value)
  OBVIOUS
<1>1. /\ m.at = at /\ m.gone = None /\ m.x17 = x17 /\ m.saved = saved
      /\ m.value = value
      /\ block[m.at + 1].op = "inst"
  BY DEF At, HasWord, Word
<1>2. After(block, base, holds, m) = RunWord(block, base, holds, m)
  <2>1. at \in Nat /\ at < Len(block)
    BY DEF HasWord, Word
  <2> QED BY <1>1, <2>1 DEF After
<1>3. RunWord(block, base, holds, m)
        = [m EXCEPT !.at = @ + 1]
  BY <1>1 DEF RunWord
<1> QED BY <1>1, <1>2, <1>3 DEF At, Address, Loaded, HasWord, Word

\* An address is not None: a block that left for an address has left.
LEMMA AddressIsSome == ASSUME NEW a PROVE Address(a) # None
BY DEF Address, None

\* Where it has left the block is over,
LEMMA LeftStays ==
    ASSUME NEW block, NEW base, NEW holds, NEW at, NEW x17, NEW saved, NEW a, NEW link, NEW value
    PROVE  After(block, base, holds, At(at, x17, saved, Address(a), link, value))
             = At(at, x17, saved, Address(a), link, value)
BY AddressIsSome DEF After, At

\* as it is at its end.
LEMMA EndStays ==
    ASSUME NEW block, NEW base, NEW holds, NEW at, NEW x17, NEW saved, NEW gone, NEW link, NEW value,
           IsEnd(block, at)
    PROVE  After(block, base, holds, At(at, x17, saved, gone, link, value))
             = At(at, x17, saved, gone, link, value)
BY DEF After, At, IsEnd

\* What a block has done when it has left,
LEMMA BlockLeaves ==
    ASSUME NEW block, NEW base, NEW holds, NEW at, NEW a, NEW saved, NEW link, NEW value,
           States(block, base, holds)[7] = At(at, Address(a), saved, Address(a), link, value)
    PROVE  RunBlock(block, base, holds)
             = [next |-> Address(a), link |-> link, value |-> value, x17 |-> "lost"]
BY AddressIsSome DEF RunBlock, At

\* and when it is at its end.
LEMMA BlockEnds ==
    ASSUME NEW block, NEW base, NEW holds, NEW at, NEW saved, NEW link, NEW value,
           States(block, base, holds)[7] = At(at, None, saved, None, link, value)
    PROVE  RunBlock(block, base, holds)
             = [next |-> Address(base + at), link |-> link, value |-> value, x17 |-> "kept"]
BY DEF RunBlock, At

(***************************************************************************)
(* Whole blocks                                                              *)
(***************************************************************************)
\* B
LEMMA RunB ==
    ASSUME NEW block, NEW base \in Int, NEW holds, NEW a,
           Len(block) = 5,
           block[1] = LoadX17(2),
           block[2] = Jump(3),
           block[3] = Word("low", a),
           block[5] = Word("br_x17", 0)
    PROVE  RunBlock(block, base, holds)
             = [next |-> Address(a), link |-> None, value |-> None, x17 |-> "lost"]
<1>1. Starting = At(0, None, None, None, None, None)
  BY DEF Starting, At
<1>2. After(block, base, holds, At(0, None, None, None, None, None))
        = At(1, Address(a), None, None, None, None)
  <2>1. HasLoad(block, 0, 1, "ldr_x17", 2, a)
    BY DEF LoadX17, HasLoad, HasJump, HasWord, Word
  <2> QED BY <2>1, DoLoadX17
<1>3. After(block, base, holds, At(1, Address(a), None, None, None, None))
        = At(4, Address(a), None, None, None, None)
  <2>1. HasJump(block, 1, 4, "jump")
    BY DEF Jump, HasLoad, HasJump, HasWord, Word
  <2> QED BY <2>1, DoJump
<1>4. After(block, base, holds, At(4, Address(a), None, None, None, None))
        = At(5, Address(a), None, Address(a), None, None)
  <2>1. HasWord(block, 4, 5, Word("br_x17", 0))
    BY DEF HasLoad, HasJump, HasWord, Word
  <2> QED BY <2>1, DoBr
<1>5. After(block, base, holds, At(5, Address(a), None, Address(a), None, None))
        = At(5, Address(a), None, Address(a), None, None)
  BY LeftStays
<1>6. States(block, base, holds)[7] = At(5, Address(a), None, Address(a), None, None)
  BY ONLY <1>1, <1>2, <1>3, <1>4, <1>5, RunsSeven
<1> QED BY <1>6, BlockLeaves

\* BL
LEMMA RunBl ==
    ASSUME NEW block, NEW base \in Int, NEW holds, NEW a,
           Len(block) = 5,
           block[1] = LoadX17(2),
           block[2] = Jump(3),
           block[3] = Word("low", a),
           block[5] = Word("blr_x17", 0)
    PROVE  RunBlock(block, base, holds)
             = [next |-> Address(a), link |-> Address(base + 5), value |-> None, x17 |-> "lost"]
<1>1. Starting = At(0, None, None, None, None, None)
  BY DEF Starting, At
<1>2. After(block, base, holds, At(0, None, None, None, None, None))
        = At(1, Address(a), None, None, None, None)
  <2>1. HasLoad(block, 0, 1, "ldr_x17", 2, a)
    BY DEF LoadX17, HasLoad, HasJump, HasWord, Word
  <2> QED BY <2>1, DoLoadX17
<1>3. After(block, base, holds, At(1, Address(a), None, None, None, None))
        = At(4, Address(a), None, None, None, None)
  <2>1. HasJump(block, 1, 4, "jump")
    BY DEF Jump, HasLoad, HasJump, HasWord, Word
  <2> QED BY <2>1, DoJump
<1>4. After(block, base, holds, At(4, Address(a), None, None, None, None))
        = At(5, Address(a), None, Address(a), Address(base + 5), None)
  <2>1. HasCall(block, base, 4, 5, base + 5)
    BY DEF HasCall, HasLoad, HasJump, HasWord, Word
  <2> QED BY <2>1, DoBlr
<1>5. After(block, base, holds, At(5, Address(a), None, Address(a), Address(base + 5), None))
        = At(5, Address(a), None, Address(a), Address(base + 5), None)
  BY LeftStays
<1>6. States(block, base, holds)[7] = At(5, Address(a), None, Address(a), Address(base + 5), None)
  BY ONLY <1>1, <1>2, <1>3, <1>4, <1>5, RunsSeven
<1> QED BY <1>6, BlockLeaves

\* B.cond that is taken
LEMMA RunCondTaken ==
    ASSUME NEW block, NEW base \in Int, NEW holds, Holds(holds), NEW a,
           Len(block) = 7,
           block[1] = When(2),
           block[2] = Jump(6),
           block[3] = LoadX17(2),
           block[4] = Jump(3),
           block[5] = Word("low", a),
           block[7] = Word("br_x17", 0)
    PROVE  RunBlock(block, base, holds)
             = [next |-> Address(a), link |-> None, value |-> None, x17 |-> "lost"]
<1>1. Starting = At(0, None, None, None, None, None)
  BY DEF Starting, At
<1>2. After(block, base, holds, At(0, None, None, None, None, None))
        = At(2, None, None, None, None, None)
  <2>1. HasJump(block, 0, 2, "when")
    BY DEF When, HasLoad, HasJump, HasWord, Word
  <2> QED BY <2>1, DoWhen
<1>3. After(block, base, holds, At(2, None, None, None, None, None))
        = At(3, Address(a), None, None, None, None)
  <2>1. HasLoad(block, 2, 3, "ldr_x17", 2, a)
    BY DEF LoadX17, HasLoad, HasJump, HasWord, Word
  <2> QED BY <2>1, DoLoadX17
<1>4. After(block, base, holds, At(3, Address(a), None, None, None, None))
        = At(6, Address(a), None, None, None, None)
  <2>1. HasJump(block, 3, 6, "jump")
    BY DEF Jump, HasLoad, HasJump, HasWord, Word
  <2> QED BY <2>1, DoJump
<1>5. After(block, base, holds, At(6, Address(a), None, None, None, None))
        = At(7, Address(a), None, Address(a), None, None)
  <2>1. HasWord(block, 6, 7, Word("br_x17", 0))
    BY DEF HasLoad, HasJump, HasWord, Word
  <2> QED BY <2>1, DoBr
<1>6. After(block, base, holds, At(7, Address(a), None, Address(a), None, None))
        = At(7, Address(a), None, Address(a), None, None)
  BY LeftStays
<1>7. States(block, base, holds)[7] = At(7, Address(a), None, Address(a), None, None)
  BY ONLY <1>1, <1>2, <1>3, <1>4, <1>5, <1>6, RunsSeven
<1> QED BY <1>7, BlockLeaves

\* B.cond that is not
LEMMA RunCond ==
    ASSUME NEW block, NEW base \in Int, NEW holds, Fails(holds), NEW a,
           Len(block) = 7,
           block[1] = When(2),
           block[2] = Jump(6),
           block[3] = LoadX17(2),
           block[4] = Jump(3),
           block[5] = Word("low", a),
           block[7] = Word("br_x17", 0)
    PROVE  RunBlock(block, base, holds)
             = [next |-> Address(base + 7), link |-> None, value |-> None, x17 |-> "kept"]
<1>1. Starting = At(0, None, None, None, None, None)
  BY DEF Starting, At
<1>2. After(block, base, holds, At(0, None, None, None, None, None))
        = At(1, None, None, None, None, None)
  <2>1. HasWord(block, 0, 1, Word("when", 2))
    BY DEF When, HasLoad, HasJump, HasWord, Word
  <2> QED BY <2>1, DoNotWhen
<1>3. After(block, base, holds, At(1, None, None, None, None, None))
        = At(7, None, None, None, None, None)
  <2>1. HasJump(block, 1, 7, "jump")
    BY DEF Jump, HasLoad, HasJump, HasWord, Word
  <2> QED BY <2>1, DoJump
<1>4. After(block, base, holds, At(7, None, None, None, None, None))
        = At(7, None, None, None, None, None)
  <2>1. IsEnd(block, 7)
    BY DEF IsEnd
  <2> QED BY <2>1, EndStays
<1>5. States(block, base, holds)[7] = At(7, None, None, None, None, None)
  BY ONLY <1>1, <1>2, <1>3, <1>4, RunsSeven
<1> QED BY <1>5, BlockEnds

\* CBZ, CBNZ, TBZ or TBNZ that is taken
LEMMA RunTestTaken ==
    ASSUME NEW block, NEW base \in Int, NEW holds, Holds(holds), NEW a,
           Len(block) = 6,
           block[1] = When(2),
           block[2] = Jump(5),
           block[3] = LoadX17(2),
           block[4] = Word("br_x17", 0),
           block[5] = Word("low", a)
    PROVE  RunBlock(block, base, holds)
             = [next |-> Address(a), link |-> None, value |-> None, x17 |-> "lost"]
<1>1. Starting = At(0, None, None, None, None, None)
  BY DEF Starting, At
<1>2. After(block, base, holds, At(0, None, None, None, None, None))
        = At(2, None, None, None, None, None)
  <2>1. HasJump(block, 0, 2, "when")
    BY DEF When, HasLoad, HasJump, HasWord, Word
  <2> QED BY <2>1, DoWhen
<1>3. After(block, base, holds, At(2, None, None, None, None, None))
        = At(3, Address(a), None, None, None, None)
  <2>1. HasLoad(block, 2, 3, "ldr_x17", 2, a)
    BY DEF LoadX17, HasLoad, HasJump, HasWord, Word
  <2> QED BY <2>1, DoLoadX17
<1>4. After(block, base, holds, At(3, Address(a), None, None, None, None))
        = At(4, Address(a), None, Address(a), None, None)
  <2>1. HasWord(block, 3, 4, Word("br_x17", 0))
    BY DEF HasLoad, HasJump, HasWord, Word
  <2> QED BY <2>1, DoBr
<1>5. After(block, base, holds, At(4, Address(a), None, Address(a), None, None))
        = At(4, Address(a), None, Address(a), None, None)
  BY LeftStays
<1>6. States(block, base, holds)[7] = At(4, Address(a), None, Address(a), None, None)
  BY ONLY <1>1, <1>2, <1>3, <1>4, <1>5, RunsSeven
<1> QED BY <1>6, BlockLeaves

\* One of them that is not
LEMMA RunTest ==
    ASSUME NEW block, NEW base \in Int, NEW holds, Fails(holds), NEW a,
           Len(block) = 6,
           block[1] = When(2),
           block[2] = Jump(5),
           block[3] = LoadX17(2),
           block[4] = Word("br_x17", 0),
           block[5] = Word("low", a)
    PROVE  RunBlock(block, base, holds)
             = [next |-> Address(base + 6), link |-> None, value |-> None, x17 |-> "kept"]
<1>1. Starting = At(0, None, None, None, None, None)
  BY DEF Starting, At
<1>2. After(block, base, holds, At(0, None, None, None, None, None))
        = At(1, None, None, None, None, None)
  <2>1. HasWord(block, 0, 1, Word("when", 2))
    BY DEF When, HasLoad, HasJump, HasWord, Word
  <2> QED BY <2>1, DoNotWhen
<1>3. After(block, base, holds, At(1, None, None, None, None, None))
        = At(6, None, None, None, None, None)
  <2>1. HasJump(block, 1, 6, "jump")
    BY DEF Jump, HasLoad, HasJump, HasWord, Word
  <2> QED BY <2>1, DoJump
<1>4. After(block, base, holds, At(6, None, None, None, None, None))
        = At(6, None, None, None, None, None)
  <2>1. IsEnd(block, 6)
    BY DEF IsEnd
  <2> QED BY <2>1, EndStays
<1>5. States(block, base, holds)[7] = At(6, None, None, None, None, None)
  BY ONLY <1>1, <1>2, <1>3, <1>4, RunsSeven
<1> QED BY <1>5, BlockEnds

\* ADR or ADRP
LEMMA RunAdr ==
    ASSUME NEW block, NEW base \in Int, NEW holds, NEW a,
           Len(block) = 4,
           block[1] = LoadXt(2),
           block[2] = Jump(3),
           block[3] = Word("low", a)
    PROVE  RunBlock(block, base, holds)
             = [next |-> Address(base + 4), link |-> None, value |-> Address(a), x17 |-> "kept"]
<1>1. Starting = At(0, None, None, None, None, None)
  BY DEF Starting, At
<1>2. After(block, base, holds, At(0, None, None, None, None, None))
        = At(1, None, None, None, None, Address(a))
  <2>1. HasLoad(block, 0, 1, "ldr_xt", 2, a)
    BY DEF LoadXt, HasLoad, HasJump, HasWord, Word
  <2> QED BY <2>1, DoLoadXt
<1>3. After(block, base, holds, At(1, None, None, None, None, Address(a)))
        = At(4, None, None, None, None, Address(a))
  <2>1. HasJump(block, 1, 4, "jump")
    BY DEF Jump, HasLoad, HasJump, HasWord, Word
  <2> QED BY <2>1, DoJump
<1>4. After(block, base, holds, At(4, None, None, None, None, Address(a)))
        = At(4, None, None, None, None, Address(a))
  <2>1. IsEnd(block, 4)
    BY DEF IsEnd
  <2> QED BY <2>1, EndStays
<1>5. States(block, base, holds)[7] = At(4, None, None, None, None, Address(a))
  BY ONLY <1>1, <1>2, <1>3, <1>4, RunsSeven
<1> QED BY <1>5, BlockEnds

\* A load of a general register
LEMMA RunLdr ==
    ASSUME NEW block, NEW base \in Int, NEW holds, NEW a,
           Len(block) = 5,
           block[1] = LoadXt(3),
           block[2] = Word("ldr", "xt"),
           block[3] = Jump(3),
           block[4] = Word("low", a)
    PROVE  RunBlock(block, base, holds)
             = [next |-> Address(base + 5), link |-> None, value |-> Loaded(a), x17 |-> "kept"]
<1>1. Starting = At(0, None, None, None, None, None)
  BY DEF Starting, At
<1>2. After(block, base, holds, At(0, None, None, None, None, None))
        = At(1, None, None, None, None, Address(a))
  <2>1. HasLoad(block, 0, 1, "ldr_xt", 3, a)
    BY DEF LoadXt, HasLoad, HasJump, HasWord, Word
  <2> QED BY <2>1, DoLoadXt
<1>3. After(block, base, holds, At(1, None, None, None, None, Address(a)))
        = At(2, None, None, None, None, Loaded(a))
  <2>1. HasWord(block, 1, 2, Word("ldr", "xt"))
    BY DEF HasLoad, HasJump, HasWord, Word
  <2> QED BY <2>1, DoLdrXt
<1>4. After(block, base, holds, At(2, None, None, None, None, Loaded(a)))
        = At(5, None, None, None, None, Loaded(a))
  <2>1. HasJump(block, 2, 5, "jump")
    BY DEF Jump, HasLoad, HasJump, HasWord, Word
  <2> QED BY <2>1, DoJump
<1>5. After(block, base, holds, At(5, None, None, None, None, Loaded(a)))
        = At(5, None, None, None, None, Loaded(a))
  <2>1. IsEnd(block, 5)
    BY DEF IsEnd
  <2> QED BY <2>1, EndStays
<1>6. States(block, base, holds)[7] = At(5, None, None, None, None, Loaded(a))
  BY ONLY <1>1, <1>2, <1>3, <1>4, <1>5, RunsSeven
<1> QED BY <1>6, BlockEnds

\* A prefetch, or a load of a vector register
LEMMA RunLiteral ==
    ASSUME NEW block, NEW base \in Int, NEW holds, NEW a,
           Len(block) = 7,
           block[1] = Word("save_x17", 0),
           block[2] = LoadX17(4),
           block[3] = Word("ldr", "x17"),
           block[4] = Word("restore_x17", 0),
           block[5] = Jump(3),
           block[6] = Word("low", a)
    PROVE  RunBlock(block, base, holds)
             = [next |-> Address(base + 7), link |-> None, value |-> Loaded(a), x17 |-> "kept"]
<1>1. Starting = At(0, None, None, None, None, None)
  BY DEF Starting, At
<1>2. After(block, base, holds, At(0, None, None, None, None, None))
        = At(1, None, None, None, None, None)
  <2>1. HasWord(block, 0, 1, Word("save_x17", 0))
    BY DEF HasLoad, HasJump, HasWord, Word
  <2> QED BY <2>1, DoSave
<1>3. After(block, base, holds, At(1, None, None, None, None, None))
        = At(2, Address(a), None, None, None, None)
  <2>1. HasLoad(block, 1, 2, "ldr_x17", 4, a)
    BY DEF LoadX17, HasLoad, HasJump, HasWord, Word
  <2> QED BY <2>1, DoLoadX17
<1>4. After(block, base, holds, At(2, Address(a), None, None, None, None))
        = At(3, Address(a), None, None, None, Loaded(a))
  <2>1. HasWord(block, 2, 3, Word("ldr", "x17"))
    BY DEF HasLoad, HasJump, HasWord, Word
  <2> QED BY <2>1, DoLdrX17
<1>5. After(block, base, holds, At(3, Address(a), None, None, None, Loaded(a)))
        = At(4, None, None, None, None, Loaded(a))
  <2>1. HasWord(block, 3, 4, Word("restore_x17", 0))
    BY DEF HasLoad, HasJump, HasWord, Word
  <2> QED BY <2>1, DoRestore
<1>6. After(block, base, holds, At(4, None, None, None, None, Loaded(a)))
        = At(7, None, None, None, None, Loaded(a))
  <2>1. HasJump(block, 4, 7, "jump")
    BY DEF Jump, HasLoad, HasJump, HasWord, Word
  <2> QED BY <2>1, DoJump
<1>7. After(block, base, holds, At(7, None, None, None, None, Loaded(a)))
        = At(7, None, None, None, None, Loaded(a))
  <2>1. IsEnd(block, 7)
    BY DEF IsEnd
  <2> QED BY <2>1, EndStays
<1>8. States(block, base, holds)[7] = At(7, None, None, None, None, Loaded(a))
  BY ONLY <1>1, <1>2, <1>3, <1>4, <1>5, <1>6, <1>7, RunsSeven
<1> QED BY <1>8, BlockEnds

\* An instruction that is kept
LEMMA RunIgnored ==
    ASSUME NEW block, NEW base \in Int, NEW holds,
           Len(block) = 1,
           block[1] = Word("inst", 0)
    PROVE  RunBlock(block, base, holds)
             = [next |-> Address(base + 1), link |-> None, value |-> None, x17 |-> "kept"]
<1>1. Starting = At(0, None, None, None, None, None)
  BY DEF Starting, At
<1>2. After(block, base, holds, At(0, None, None, None, None, None))
        = At(1, None, None, None, None, None)
  <2>1. HasWord(block, 0, 1, Word("inst", 0))
    BY DEF HasLoad, HasJump, HasWord, Word
  <2> QED BY <2>1, DoInst
<1>3. After(block, base, holds, At(1, None, None, None, None, None))
        = At(1, None, None, None, None, None)
  <2>1. IsEnd(block, 1)
    BY DEF IsEnd
  <2> QED BY <2>1, EndStays
<1>4. States(block, base, holds)[7] = At(1, None, None, None, None, None)
  BY ONLY <1>1, <1>2, <1>3, RunsSeven
<1> QED BY <1>4, BlockEnds

\* The words of the block of each type: B and BL,
LEMMA BlockOfB ==
    ASSUME NEW moved, NEW inst, inst.type \in {"b", "bl"}, NEW block, block = Rewrite(inst, moved)
    PROVE  /\ Len(block) = 5
           /\ block[1] = LoadX17(2)
           /\ block[2] = Jump(3)
           /\ block[3] = Word("low", FixAddr(inst.to, moved))
           /\ block[5] = Word(IF inst.type = "bl" THEN "blr_x17" ELSE "br_x17", 0)
<1>1. block = RewriteB(inst, moved)
  BY DEF Rewrite, Tests, Addressing, Literals
<1> SUFFICES ASSUME NEW a, a = FixAddr(inst.to, moved),
                    NEW go, go = IF inst.type = "bl" THEN "blr_x17" ELSE "br_x17"
             PROVE  /\ Len(block) = 5
                    /\ block[1] = LoadX17(2)
                    /\ block[2] = Jump(3)
                    /\ block[3] = Word("low", a)
                    /\ block[5] = Word(go, 0)
  OBVIOUS
<1>2. block = <<>> \o <<LoadX17(2), Jump(3)>> \o <<Word("low", a), Word("high", a)>> \o <<Word(go, 0)>>
  BY <1>1 DEF RewriteB, Data
<1> QED BY <1>2

\* B.cond,
LEMMA BlockOfCond ==
    ASSUME NEW moved, NEW inst, inst.type = "b_cond", NEW block, block = Rewrite(inst, moved)
    PROVE  /\ Len(block) = 7
           /\ block[1] = When(2)
           /\ block[2] = Jump(6)
           /\ block[3] = LoadX17(2)
           /\ block[4] = Jump(3)
           /\ block[5] = Word("low", FixAddr(inst.to, moved))
           /\ block[7] = Word("br_x17", 0)
<1>1. block = RewriteB(inst, moved)
  BY DEF Rewrite, Tests, Addressing, Literals
<1>2. block = <<When(2), Jump(6)>> \o <<LoadX17(2), Jump(3)>>
                \o <<Word("low", FixAddr(inst.to, moved)), Word("high", FixAddr(inst.to, moved))>>
                \o <<Word("br_x17", 0)>>
  BY <1>1 DEF RewriteB, Data
<1> QED BY <1>2

\* CBZ, CBNZ, TBZ and TBNZ,
LEMMA BlockOfTest ==
    ASSUME NEW moved, NEW inst, inst.type \in Tests, NEW block, block = Rewrite(inst, moved)
    PROVE  /\ Len(block) = 6
           /\ block[1] = When(2)
           /\ block[2] = Jump(5)
           /\ block[3] = LoadX17(2)
           /\ block[4] = Word("br_x17", 0)
           /\ block[5] = Word("low", FixAddr(inst.to, moved))
<1>1. block = RewriteTest(inst, moved)
  BY DEF Rewrite, Tests, Addressing, Literals
<1> QED BY <1>1 DEF RewriteTest, Data

\* ADR and ADRP,
LEMMA BlockOfAdr ==
    ASSUME NEW moved, NEW inst, inst.type \in Addressing, NEW block, block = Rewrite(inst, moved), block # <<>>
    PROVE  /\ Len(block) = 4
           /\ block[1] = LoadXt(2)
           /\ block[2] = Jump(3)
           /\ block[3] = Word("low", inst.to)
<1>1. block = RewriteAdr(inst, moved)
  BY DEF Rewrite, Tests, Addressing, Literals
<1>2. block = <<LoadXt(2), Jump(3)>> \o <<Word("low", inst.to), Word("high", inst.to)>>
  BY <1>1 DEF RewriteAdr, Data
<1> QED BY <1>2

\* the load of a general register,
LEMMA BlockOfLdr ==
    ASSUME NEW moved, NEW inst, inst.type = "ldr", NEW block, block = Rewrite(inst, moved), block # <<>>
    PROVE  /\ Len(block) = 5
           /\ block[1] = LoadXt(3)
           /\ block[2] = Word("ldr", "xt")
           /\ block[3] = Jump(3)
           /\ block[4] = Word("low", inst.to)
<1>1. block = RewriteLdr(inst, moved)
  BY DEF Rewrite, Tests, Addressing, Literals
<1>2. block = <<LoadXt(3), Word("ldr", "xt"), Jump(3)>> \o <<Word("low", inst.to), Word("high", inst.to)>>
  BY <1>1 DEF RewriteLdr, Data
<1> QED BY <1>2

\* a prefetch or the load of a vector register,
LEMMA BlockOfLiteral ==
    ASSUME NEW moved, NEW inst, inst.type \in Literals, NEW block, block = Rewrite(inst, moved), block # <<>>
    PROVE  /\ Len(block) = 7
           /\ block[1] = Word("save_x17", 0)
           /\ block[2] = LoadX17(4)
           /\ block[3] = Word("ldr", "x17")
           /\ block[4] = Word("restore_x17", 0)
           /\ block[5] = Jump(3)
           /\ block[6] = Word("low", FixAddr(inst.to, moved))
           /\ inst.type # "prfm" => FixAddr(inst.to, moved) = inst.to
<1>1. block = RewriteLdr(inst, moved)
  BY DEF Rewrite, Tests, Addressing, Literals
<1>2. inst.type # "ldr"
  BY DEF Literals
<1>3. ~(NeedFix(inst.to, moved) /\ inst.type # "prfm")
  BY <1>1 DEF RewriteLdr
<1>4. block = <<Word("save_x17", 0), LoadX17(4), Word("ldr", "x17"), Word("restore_x17", 0), Jump(3)>>
                \o Data(FixAddr(inst.to, moved))
  BY <1>1, <1>2, <1>3 DEF RewriteLdr
<1>5. inst.type # "prfm" => FixAddr(inst.to, moved) = inst.to
  BY <1>3 DEF FixAddr
<1> QED BY <1>4, <1>5 DEF Data

\* and an instruction that is kept.
LEMMA BlockOfIgnored ==
    ASSUME NEW moved, NEW inst, inst.type = "ignored", NEW block, block = Rewrite(inst, moved)
    PROVE  /\ Len(block) = 1
           /\ block[1] = Word("inst", 0)
BY DEF Rewrite, Tests, Addressing, Literals

(***************************************************************************)
(* What the blocks do                                                        *)
(***************************************************************************)
\* Places are addresses.
LEMMA PlaceType ==
    ASSUME NEW moved \in Part, NEW i \in 1 .. Len(moved.insts) + 1
    PROVE  BlockAt(moved, i) \in Int
<1> DEFINE N == Len(moved.insts)
           S == {n \in 0 .. N : BlockAt(moved, n + 1) \in Int}
<1>1. N \in Nat
  BY DEF Part
<1>2. 0 \in S
  BY <1>1, PlacesFollow DEF Part
<1>3. ASSUME NEW n \in 0 .. N - 1, n \in S PROVE n + 1 \in S
  <2>1. n + 1 \in 1 .. N
    BY <1>1
  <2>2. BlockAt(moved, n + 1 + 1) = BlockAt(moved, n + 1) + RewriteLen(moved.insts[n + 1].type)
    BY <2>1, PlacesFollow
  <2>3. moved.insts[n + 1] \in Inst
    BY <2>1 DEF Part
  <2>4. RewriteLen(moved.insts[n + 1].type) \in Int
    BY <2>3 DEF RewriteLen, Inst, Types, Branches, Addressing, Tests, Literals
  <2>5. n + 1 \in 0 .. N /\ BlockAt(moved, n + 1) \in Int
    BY <1>1, <1>3
  <2> QED BY <2>2, <2>4, <2>5
<1>4. 0 .. N \subseteq S
  <2> HIDE DEF S, N
  <2> QED BY <1>1, <1>2, <1>3, CountUp
<1>5. i - 1 \in 0 .. N /\ i - 1 + 1 = i
  BY <1>1
<1>6. BlockAt(moved, i - 1 + 1) \in Int
  <2> HIDE DEF N
  <2> QED BY <1>4, <1>5
<1> QED BY <1>5, <1>6

\* A branch goes to the same place.
LEMMA TargetMoves ==
    ASSUME NEW moved \in Part, NEW a \in Int
    PROVE  SamePlace(Address(a), Address(FixAddr(a, moved)), moved)
<1>1. End(moved) \in Int /\ moved.start \in Int
  BY DEF Part, End
<1> QED BY <1>1 DEF SamePlace, Moved, FixAddr, NeedFix, Address

\* A block goes on to the next one.
LEMMA NextMoves ==
    ASSUME NEW moved \in Part, NEW i \in 1 .. Len(moved.insts)
    PROVE  Moved(Address(moved.start + i - 1 + 1), moved)
             = Address(BlockAt(moved, i) + RewriteLen(moved.insts[i].type))
<1>1. /\ Len(moved.insts) \in Nat
      /\ moved.start \in Int
  BY DEF Part
<1> DEFINE a == moved.start + i - 1 + 1
<1>2. /\ moved.start <= a
      /\ a <= End(moved)
      /\ a - moved.start + 1 = i + 1
  BY <1>1 DEF End
<1>3. Moved(Address(a), moved) = Address(BlockAt(moved, i + 1))
  BY <1>2 DEF Moved, Address
<1> QED BY <1>3, PlacesFollow

\* The block of the i-th instruction of a part that can be rewritten.
IsBlock(block, base, inst, pc, moved, i) ==
    /\ moved \in Part
    /\ i \in 1 .. Len(moved.insts)
    /\ inst = moved.insts[i]
    /\ pc = moved.start + i - 1
    /\ block = Rewrite(inst, moved)
    /\ block # <<>>
    /\ base = BlockAt(moved, i)

\* It does the same.
DoesSame(block, base, inst, pc, moved, holds) ==
    LET e == Effect(inst, pc, holds)
        r == RunBlock(block, base, holds)
    IN  /\ Len(block) = RewriteLen(inst.type)
        /\ SamePlace(e.next, r.next, moved)
        /\ r.link = Moved(e.link, moved)
        /\ r.value = e.value \/ inst.type = "prfm"
        /\ r.x17 = "kept" \/ (inst.type \in Branches /\ e.next = Address(inst.to))

\* The facts about a block and its instruction that the lemmas below use.
LEMMA BlockFacts ==
    ASSUME NEW block, NEW base, NEW inst, NEW pc, NEW moved, NEW i,
           IsBlock(block, base, inst, pc, moved, i)
    PROVE  /\ inst.to \in Int
           /\ inst.type \in Types
           /\ base \in Int
           /\ pc \in Int
           /\ SamePlace(Address(inst.to), Address(FixAddr(inst.to, moved)), moved)
           /\ Moved(Address(pc + 1), moved) = Address(base + RewriteLen(inst.type))
           /\ SamePlace(Address(pc + 1), Address(base + RewriteLen(inst.type)), moved)
           /\ Moved(None, moved) = None
<1>1. /\ moved \in Part
      /\ i \in 1 .. Len(moved.insts)
      /\ Len(moved.insts) \in Nat
  BY DEF IsBlock, Part
<1>2. inst \in Inst
  BY <1>1 DEF Part, IsBlock
<1>3. base \in Int
  BY <1>1, PlaceType DEF IsBlock
<1>4. pc \in Int
  BY <1>1 DEF Part, IsBlock
<1>5. SamePlace(Address(inst.to), Address(FixAddr(inst.to, moved)), moved)
  BY <1>1, <1>2, TargetMoves DEF Inst
<1>6. Moved(Address(pc + 1), moved) = Address(base + RewriteLen(inst.type))
  BY <1>1, NextMoves DEF IsBlock
<1>7. Moved(None, moved) = None
  BY DEF Moved, None
<1> QED BY <1>1, <1>2, <1>3, <1>4, <1>5, <1>6, <1>7 DEF Inst, SamePlace

\* Each type does the same: B and BL,
LEMMA SameB ==
    ASSUME NEW block, NEW base, NEW inst, NEW pc, NEW moved, NEW i, NEW holds \in BOOLEAN,
           IsBlock(block, base, inst, pc, moved, i), inst.type \in {"b", "bl"}
    PROVE  DoesSame(block, base, inst, pc, moved, holds)
<1> SUFFICES ASSUME NEW a, a = FixAddr(inst.to, moved)
             PROVE  DoesSame(block, base, inst, pc, moved, holds)
  OBVIOUS
<1>1. /\ inst.to \in Int
      /\ base \in Int
      /\ SamePlace(Address(inst.to), Address(FixAddr(inst.to, moved)), moved)
      /\ Moved(Address(pc + 1), moved) = Address(base + RewriteLen(inst.type))
      /\ SamePlace(Address(pc + 1), Address(base + RewriteLen(inst.type)), moved)
      /\ Moved(None, moved) = None
  BY BlockFacts
<1>2. /\ block = Rewrite(inst, moved)
      /\ block # <<>>
  BY DEF IsBlock
<1>3. /\ Len(block) = 5
      /\ block[1] = LoadX17(2)
      /\ block[2] = Jump(3)
      /\ block[3] = Word("low", a)
      /\ inst.type = "b" => block[5] = Word("br_x17", 0)
      /\ inst.type = "bl" => block[5] = Word("blr_x17", 0)
  BY <1>2, BlockOfB
<1>4. RewriteLen(inst.type) = 5
  BY DEF RewriteLen, Tests, Addressing, Literals
<1>5. CASE inst.type = "b"
  <2>1. RunBlock(block, base, holds) = [next |-> Address(a), link |-> None, value |-> None, x17 |-> "lost"]
    BY <1>1, <1>3, <1>5, RunB
  <2>2. Effect(inst, pc, holds) = [next |-> Address(inst.to), link |-> None, value |-> None, x17 |-> "kept"]
    BY <1>5 DEF Effect, Tests, Addressing, Literals, Holds, Fails
  <2>3. LET e == Effect(inst, pc, holds)
            r == RunBlock(block, base, holds)
        IN  /\ e.next = Address(inst.to)
            /\ e.link = None
            /\ e.value = None
            /\ e.x17 = "kept"
            /\ r.next = Address(a)
            /\ r.link = None
            /\ r.value = None
            /\ r.x17 = "lost"
    BY <2>1, <2>2
  <2> QED BY <1>1, <1>3, <1>4, <1>5, <2>3 DEF DoesSame, Branches, Tests
<1>6. CASE inst.type = "bl"
  <2>1. RunBlock(block, base, holds)
        = [next |-> Address(a), link |-> Address(base + 5), value |-> None, x17 |-> "lost"]
    BY <1>1, <1>3, <1>6, RunBl
  <2>2. Effect(inst, pc, holds)
        = [next |-> Address(inst.to), link |-> Address(pc + 1), value |-> None, x17 |-> "kept"]
    BY <1>6 DEF Effect, Tests, Addressing, Literals, Holds, Fails
  <2>3. LET e == Effect(inst, pc, holds)
            r == RunBlock(block, base, holds)
        IN  /\ e.next = Address(inst.to)
            /\ e.link = Address(pc + 1)
            /\ e.value = None
            /\ e.x17 = "kept"
            /\ r.next = Address(a)
            /\ r.link = Address(base + 5)
            /\ r.value = None
            /\ r.x17 = "lost"
    BY <2>1, <2>2
  <2> QED BY <1>1, <1>3, <1>4, <1>6, <2>3 DEF DoesSame, Branches, Tests
<1> QED BY <1>5, <1>6 DEF Holds, Fails

\* B.cond,
LEMMA SameCond ==
    ASSUME NEW block, NEW base, NEW inst, NEW pc, NEW moved, NEW i, NEW holds \in BOOLEAN,
           IsBlock(block, base, inst, pc, moved, i), inst.type = "b_cond"
    PROVE  DoesSame(block, base, inst, pc, moved, holds)
<1> SUFFICES ASSUME NEW a, a = FixAddr(inst.to, moved)
             PROVE  DoesSame(block, base, inst, pc, moved, holds)
  OBVIOUS
<1>1. /\ inst.to \in Int
      /\ base \in Int
      /\ SamePlace(Address(inst.to), Address(FixAddr(inst.to, moved)), moved)
      /\ Moved(Address(pc + 1), moved) = Address(base + RewriteLen(inst.type))
      /\ SamePlace(Address(pc + 1), Address(base + RewriteLen(inst.type)), moved)
      /\ Moved(None, moved) = None
  BY BlockFacts
<1>2. /\ block = Rewrite(inst, moved)
      /\ block # <<>>
  BY DEF IsBlock
<1>3. /\ Len(block) = 7
      /\ block[1] = When(2)
      /\ block[2] = Jump(6)
      /\ block[3] = LoadX17(2)
      /\ block[4] = Jump(3)
      /\ block[5] = Word("low", a)
      /\ block[7] = Word("br_x17", 0)
  BY <1>2, BlockOfCond
<1>4. RewriteLen(inst.type) = 7
  BY DEF RewriteLen, Tests, Addressing, Literals
<1>5. CASE Holds(holds)
  <2>1. RunBlock(block, base, holds) = [next |-> Address(a), link |-> None, value |-> None, x17 |-> "lost"]
    BY <1>1, <1>3, <1>5, RunCondTaken
  <2>2. Effect(inst, pc, holds) = [next |-> Address(inst.to), link |-> None, value |-> None, x17 |-> "kept"]
    BY <1>5 DEF Effect, Tests, Addressing, Literals, Holds, Fails
  <2>3. LET e == Effect(inst, pc, holds)
            r == RunBlock(block, base, holds)
        IN  /\ e.next = Address(inst.to)
            /\ e.link = None
            /\ e.value = None
            /\ e.x17 = "kept"
            /\ r.next = Address(a)
            /\ r.link = None
            /\ r.value = None
            /\ r.x17 = "lost"
    BY <2>1, <2>2
  <2> QED BY <1>1, <1>3, <1>4, <1>5, <2>3 DEF DoesSame, Branches, Tests
<1>6. CASE Fails(holds)
  <2>1. RunBlock(block, base, holds) = [next |-> Address(base + 7), link |-> None, value |-> None, x17 |-> "kept"]
    BY <1>1, <1>3, <1>6, RunCond
  <2>2. Effect(inst, pc, holds) = [next |-> Address(pc + 1), link |-> None, value |-> None, x17 |-> "kept"]
    BY <1>6 DEF Effect, Tests, Addressing, Literals, Holds, Fails
  <2>3. LET e == Effect(inst, pc, holds)
            r == RunBlock(block, base, holds)
        IN  /\ e.next = Address(pc + 1)
            /\ e.link = None
            /\ e.value = None
            /\ e.x17 = "kept"
            /\ r.next = Address(base + 7)
            /\ r.link = None
            /\ r.value = None
            /\ r.x17 = "kept"
    BY <2>1, <2>2
  <2> QED BY <1>1, <1>3, <1>4, <1>6, <2>3 DEF DoesSame, Branches, Tests
<1> QED BY <1>5, <1>6 DEF Holds, Fails

\* CBZ, CBNZ, TBZ and TBNZ,
LEMMA SameTest ==
    ASSUME NEW block, NEW base, NEW inst, NEW pc, NEW moved, NEW i, NEW holds \in BOOLEAN,
           IsBlock(block, base, inst, pc, moved, i), inst.type \in Tests
    PROVE  DoesSame(block, base, inst, pc, moved, holds)
<1> SUFFICES ASSUME NEW a, a = FixAddr(inst.to, moved)
             PROVE  DoesSame(block, base, inst, pc, moved, holds)
  OBVIOUS
<1>1. /\ inst.to \in Int
      /\ base \in Int
      /\ SamePlace(Address(inst.to), Address(FixAddr(inst.to, moved)), moved)
      /\ Moved(Address(pc + 1), moved) = Address(base + RewriteLen(inst.type))
      /\ SamePlace(Address(pc + 1), Address(base + RewriteLen(inst.type)), moved)
      /\ Moved(None, moved) = None
  BY BlockFacts
<1>2. /\ block = Rewrite(inst, moved)
      /\ block # <<>>
  BY DEF IsBlock
<1>3. /\ Len(block) = 6
      /\ block[1] = When(2)
      /\ block[2] = Jump(5)
      /\ block[3] = LoadX17(2)
      /\ block[4] = Word("br_x17", 0)
      /\ block[5] = Word("low", a)
  BY <1>2, BlockOfTest
<1>4. RewriteLen(inst.type) = 6
  BY DEF RewriteLen, Tests, Addressing, Literals
<1>5. CASE Holds(holds)
  <2>1. RunBlock(block, base, holds) = [next |-> Address(a), link |-> None, value |-> None, x17 |-> "lost"]
    BY <1>1, <1>3, <1>5, RunTestTaken
  <2>2. Effect(inst, pc, holds) = [next |-> Address(inst.to), link |-> None, value |-> None, x17 |-> "kept"]
    BY <1>5 DEF Effect, Tests, Addressing, Literals, Holds, Fails
  <2>3. LET e == Effect(inst, pc, holds)
            r == RunBlock(block, base, holds)
        IN  /\ e.next = Address(inst.to)
            /\ e.link = None
            /\ e.value = None
            /\ e.x17 = "kept"
            /\ r.next = Address(a)
            /\ r.link = None
            /\ r.value = None
            /\ r.x17 = "lost"
    BY <2>1, <2>2
  <2> QED BY <1>1, <1>3, <1>4, <1>5, <2>3 DEF DoesSame, Branches, Tests
<1>6. CASE Fails(holds)
  <2>1. RunBlock(block, base, holds) = [next |-> Address(base + 6), link |-> None, value |-> None, x17 |-> "kept"]
    BY <1>1, <1>3, <1>6, RunTest
  <2>2. Effect(inst, pc, holds) = [next |-> Address(pc + 1), link |-> None, value |-> None, x17 |-> "kept"]
    BY <1>6 DEF Effect, Tests, Addressing, Literals, Holds, Fails
  <2>3. LET e == Effect(inst, pc, holds)
            r == RunBlock(block, base, holds)
        IN  /\ e.next = Address(pc + 1)
            /\ e.link = None
            /\ e.value = None
            /\ e.x17 = "kept"
            /\ r.next = Address(base + 6)
            /\ r.link = None
            /\ r.value = None
            /\ r.x17 = "kept"
    BY <2>1, <2>2
  <2> QED BY <1>1, <1>3, <1>4, <1>6, <2>3 DEF DoesSame, Branches, Tests
<1> QED BY <1>5, <1>6 DEF Holds, Fails

\* ADR and ADRP,
LEMMA SameAdr ==
    ASSUME NEW block, NEW base, NEW inst, NEW pc, NEW moved, NEW i, NEW holds \in BOOLEAN,
           IsBlock(block, base, inst, pc, moved, i), inst.type \in Addressing
    PROVE  DoesSame(block, base, inst, pc, moved, holds)
<1> SUFFICES ASSUME NEW a, a = inst.to
             PROVE  DoesSame(block, base, inst, pc, moved, holds)
  OBVIOUS
<1>1. /\ inst.to \in Int
      /\ base \in Int
      /\ SamePlace(Address(inst.to), Address(FixAddr(inst.to, moved)), moved)
      /\ Moved(Address(pc + 1), moved) = Address(base + RewriteLen(inst.type))
      /\ SamePlace(Address(pc + 1), Address(base + RewriteLen(inst.type)), moved)
      /\ Moved(None, moved) = None
  BY BlockFacts
<1>2. /\ block = Rewrite(inst, moved)
      /\ block # <<>>
  BY DEF IsBlock
<1>3. /\ Len(block) = 4
      /\ block[1] = LoadXt(2)
      /\ block[2] = Jump(3)
      /\ block[3] = Word("low", a)
  BY <1>2, BlockOfAdr
<1>4. RewriteLen(inst.type) = 4
  BY DEF RewriteLen, Tests, Addressing, Literals
<1>5. RunBlock(block, base, holds)
      = [next |-> Address(base + 4), link |-> None, value |-> Address(a), x17 |-> "kept"]
  BY <1>1, <1>3, RunAdr
<1>6. Effect(inst, pc, holds) = [next |-> Address(pc + 1), link |-> None, value |-> Address(a), x17 |-> "kept"]
  BY DEF Effect, Tests, Addressing, Literals, Holds, Fails
<1>7. LET e == Effect(inst, pc, holds)
          r == RunBlock(block, base, holds)
      IN  /\ e.next = Address(pc + 1)
          /\ e.link = None
          /\ e.value = Address(a)
          /\ e.x17 = "kept"
          /\ r.next = Address(base + 4)
          /\ r.link = None
          /\ r.value = Address(a)
          /\ r.x17 = "kept"
  BY <1>5, <1>6
<1> QED BY <1>1, <1>3, <1>4, <1>7 DEF DoesSame, Branches, Tests

\* the load of a general register,
LEMMA SameLdr ==
    ASSUME NEW block, NEW base, NEW inst, NEW pc, NEW moved, NEW i, NEW holds \in BOOLEAN,
           IsBlock(block, base, inst, pc, moved, i), inst.type = "ldr"
    PROVE  DoesSame(block, base, inst, pc, moved, holds)
<1> SUFFICES ASSUME NEW a, a = inst.to
             PROVE  DoesSame(block, base, inst, pc, moved, holds)
  OBVIOUS
<1>1. /\ inst.to \in Int
      /\ base \in Int
      /\ SamePlace(Address(inst.to), Address(FixAddr(inst.to, moved)), moved)
      /\ Moved(Address(pc + 1), moved) = Address(base + RewriteLen(inst.type))
      /\ SamePlace(Address(pc + 1), Address(base + RewriteLen(inst.type)), moved)
      /\ Moved(None, moved) = None
  BY BlockFacts
<1>2. /\ block = Rewrite(inst, moved)
      /\ block # <<>>
  BY DEF IsBlock
<1>3. /\ Len(block) = 5
      /\ block[1] = LoadXt(3)
      /\ block[2] = Word("ldr", "xt")
      /\ block[3] = Jump(3)
      /\ block[4] = Word("low", a)
  BY <1>2, BlockOfLdr
<1>4. RewriteLen(inst.type) = 5
  BY DEF RewriteLen, Tests, Addressing, Literals
<1>5. RunBlock(block, base, holds)
      = [next |-> Address(base + 5), link |-> None, value |-> Loaded(a), x17 |-> "kept"]
  BY <1>1, <1>3, RunLdr
<1>6. Effect(inst, pc, holds) = [next |-> Address(pc + 1), link |-> None, value |-> Loaded(a), x17 |-> "kept"]
  BY DEF Effect, Tests, Addressing, Literals, Holds, Fails
<1>7. LET e == Effect(inst, pc, holds)
          r == RunBlock(block, base, holds)
      IN  /\ e.next = Address(pc + 1)
          /\ e.link = None
          /\ e.value = Loaded(a)
          /\ e.x17 = "kept"
          /\ r.next = Address(base + 5)
          /\ r.link = None
          /\ r.value = Loaded(a)
          /\ r.x17 = "kept"
  BY <1>5, <1>6
<1> QED BY <1>1, <1>3, <1>4, <1>7 DEF DoesSame, Branches, Tests

\* a prefetch or the load of a vector register,
LEMMA SameLiteral ==
    ASSUME NEW block, NEW base, NEW inst, NEW pc, NEW moved, NEW i, NEW holds \in BOOLEAN,
           IsBlock(block, base, inst, pc, moved, i), inst.type \in Literals
    PROVE  DoesSame(block, base, inst, pc, moved, holds)
<1> SUFFICES ASSUME NEW a, a = FixAddr(inst.to, moved)
             PROVE  DoesSame(block, base, inst, pc, moved, holds)
  OBVIOUS
<1>1. /\ inst.to \in Int
      /\ base \in Int
      /\ SamePlace(Address(inst.to), Address(FixAddr(inst.to, moved)), moved)
      /\ Moved(Address(pc + 1), moved) = Address(base + RewriteLen(inst.type))
      /\ SamePlace(Address(pc + 1), Address(base + RewriteLen(inst.type)), moved)
      /\ Moved(None, moved) = None
  BY BlockFacts
<1>2. /\ block = Rewrite(inst, moved)
      /\ block # <<>>
  BY DEF IsBlock
<1>3. /\ Len(block) = 7
      /\ block[1] = Word("save_x17", 0)
      /\ block[2] = LoadX17(4)
      /\ block[3] = Word("ldr", "x17")
      /\ block[4] = Word("restore_x17", 0)
      /\ block[5] = Jump(3)
      /\ block[6] = Word("low", a)
      /\ inst.type # "prfm" => a = inst.to
  BY <1>2, BlockOfLiteral
<1>4. RewriteLen(inst.type) = 7
  BY DEF RewriteLen, Tests, Addressing, Literals
<1>5. RunBlock(block, base, holds)
      = [next |-> Address(base + 7), link |-> None, value |-> Loaded(a), x17 |-> "kept"]
  BY <1>1, <1>3, RunLiteral
<1>6. Effect(inst, pc, holds)
      = [next |-> Address(pc + 1), link |-> None, value |-> Loaded(inst.to), x17 |-> "kept"]
  BY DEF Effect, Tests, Addressing, Literals, Holds, Fails
<1>7. LET e == Effect(inst, pc, holds)
          r == RunBlock(block, base, holds)
      IN  /\ e.next = Address(pc + 1)
          /\ e.link = None
          /\ e.value = Loaded(inst.to)
          /\ e.x17 = "kept"
          /\ r.next = Address(base + 7)
          /\ r.link = None
          /\ r.value = Loaded(a)
          /\ r.x17 = "kept"
  BY <1>5, <1>6
<1> QED BY <1>1, <1>3, <1>4, <1>7 DEF DoesSame, Branches, Tests

\* and an instruction that is kept.
LEMMA SameIgnored ==
    ASSUME NEW block, NEW base, NEW inst, NEW pc, NEW moved, NEW i, NEW holds \in BOOLEAN,
           IsBlock(block, base, inst, pc, moved, i), inst.type = "ignored"
    PROVE  DoesSame(block, base, inst, pc, moved, holds)
<1> SUFFICES ASSUME NEW a, a = FixAddr(inst.to, moved)
             PROVE  DoesSame(block, base, inst, pc, moved, holds)
  OBVIOUS
<1>1. /\ inst.to \in Int
      /\ base \in Int
      /\ SamePlace(Address(inst.to), Address(FixAddr(inst.to, moved)), moved)
      /\ Moved(Address(pc + 1), moved) = Address(base + RewriteLen(inst.type))
      /\ SamePlace(Address(pc + 1), Address(base + RewriteLen(inst.type)), moved)
      /\ Moved(None, moved) = None
  BY BlockFacts
<1>2. /\ block = Rewrite(inst, moved)
      /\ block # <<>>
  BY DEF IsBlock
<1>3. /\ Len(block) = 1
      /\ block[1] = Word("inst", 0)
  BY <1>2, BlockOfIgnored
<1>4. RewriteLen(inst.type) = 1
  BY DEF RewriteLen, Tests, Addressing, Literals
<1>5. RunBlock(block, base, holds) = [next |-> Address(base + 1), link |-> None, value |-> None, x17 |-> "kept"]
  BY <1>1, <1>3, RunIgnored
<1>6. Effect(inst, pc, holds) = [next |-> Address(pc + 1), link |-> None, value |-> None, x17 |-> "kept"]
  BY DEF Effect, Tests, Addressing, Literals, Holds, Fails
<1>7. LET e == Effect(inst, pc, holds)
          r == RunBlock(block, base, holds)
      IN  /\ e.next = Address(pc + 1)
          /\ e.link = None
          /\ e.value = None
          /\ e.x17 = "kept"
          /\ r.next = Address(base + 1)
          /\ r.link = None
          /\ r.value = None
          /\ r.x17 = "kept"
  BY <1>5, <1>6
<1> QED BY <1>1, <1>3, <1>4, <1>7 DEF DoesSame, Branches, Tests

\* Every part of an arm64 function does the same from its enter: each block is as
\* long as its place, goes on where the instruction did, loads the same, calls
\* with the return address behind the block, and keeps X17 unless it branches
\* (sh_a64_rewrite), whatever the part and the branches into it.
THEOREM SameOnArm64 ==
    ASSUME NEW moved \in Part
    PROVE  SameProgram(moved)
<1> SUFFICES ASSUME Rewritable(moved), NEW i \in DOMAIN moved.insts, NEW holds \in BOOLEAN
             PROVE  SameEffect(i, moved, holds)
  BY DEF SameProgram
<1> SUFFICES ASSUME NEW inst, inst = moved.insts[i], NEW block, block = Rewrite(inst, moved),
                    NEW base, base = BlockAt(moved, i), NEW pc, pc = moved.start + i - 1
             PROVE  SameEffect(i, moved, holds)
  OBVIOUS
<1>1. IsBlock(block, base, inst, pc, moved, i)
  BY DEF IsBlock, Part, Rewritable
<1>2. inst.type \in Types
  BY <1>1, BlockFacts
<1>3. DoesSame(block, base, inst, pc, moved, holds)
  BY <1>1, <1>2, SameB, SameCond, SameTest, SameAdr, SameLdr, SameLiteral, SameIgnored
     DEF Types, Branches
<1> QED BY <1>3 DEF SameEffect, DoesSame

(***************************************************************************)
(* The same for arm (A32Rewrite): the places of the blocks                   *)
(***************************************************************************)
ArePlaces32(at, moved, n) ==
    at = [k \in 0 .. n |-> IF k = 0 THEN moved.buf ELSE at[k - 1] + A32!RewriteLen(moved.insts[k])]

\* The places exist.
LEMMA PlacesExist32 ==
    ASSUME NEW moved \in A32!Part
    PROVE  \E at : ArePlaces32(at, moved, Len(moved.insts))
<1> DEFINE N == Len(moved.insts)
           S == {n \in 0 .. N : \E at : ArePlaces32(at, moved, n)}
<1>1. N \in Nat
  BY DEF A32!Part
<1>2. 0 \in S
  <2>1. ArePlaces32([k \in 0 .. 0 |-> moved.buf], moved, 0)
    BY DEF ArePlaces32
  <2> QED BY <1>1, <2>1
<1>3. ASSUME NEW n \in 0 .. N - 1, n \in S PROVE n + 1 \in S
  <2>1. PICK at : ArePlaces32(at, moved, n)
    BY <1>3
  <2> DEFINE new == [k \in 0 .. n + 1 |->
                        IF k = n + 1 THEN at[n] + A32!RewriteLen(moved.insts[n + 1]) ELSE at[k]]
  <2>2. ASSUME NEW k \in 0 .. n + 1
        PROVE  new[k] = IF k = 0 THEN moved.buf ELSE new[k - 1] + A32!RewriteLen(moved.insts[k])
    <3>1. n \in Nat /\ (k = 0 \/ k = n + 1 \/ k \in 1 .. n)
      BY <1>1
    <3>2. CASE k = 0
      BY <2>1, <3>1, <3>2 DEF ArePlaces32
    <3>3. CASE k = n + 1
      <4>1. k # 0 /\ k - 1 = n /\ n # k /\ n \in 0 .. n + 1
        BY <3>1, <3>3
      <4>2. new[k] = at[n] + A32!RewriteLen(moved.insts[n + 1]) /\ new[n] = at[n]
        BY <3>3, <4>1
      <4> QED BY <3>3, <4>1, <4>2
    <3>4. CASE k \in 1 .. n
      <4>1. at[k] = at[k - 1] + A32!RewriteLen(moved.insts[k])
        BY <2>1, <3>1, <3>4 DEF ArePlaces32
      <4>2. new[k] = at[k] /\ new[k - 1] = at[k - 1] /\ k # 0
        BY <3>1, <3>4
      <4> QED BY <4>1, <4>2
    <3> QED BY <3>1, <3>2, <3>3, <3>4
  <2>3. ArePlaces32(new, moved, n + 1)
    BY <2>2 DEF ArePlaces32
  <2> QED BY <1>1, <2>3
<1>4. 0 .. N \subseteq S
  <2> HIDE DEF S, N
  <2> QED BY <1>1, <1>2, <1>3, CountUp
<1> QED BY <1>1, <1>4

\* Each block stands behind the one before it.
LEMMA PlacesFollow32 ==
    ASSUME NEW moved \in A32!Part
    PROVE  /\ A32!BlockAt(moved, 1) = moved.buf
           /\ \A i \in 1 .. Len(moved.insts) :
                A32!BlockAt(moved, i + 1) = A32!BlockAt(moved, i) + A32!RewriteLen(moved.insts[i])
<1>1. Len(moved.insts) \in Nat
  BY DEF A32!Part
<1>2. ArePlaces32(A32!Places(moved), moved, Len(moved.insts))
  BY PlacesExist32 DEF ArePlaces32, A32!Places
<1> SUFFICES ASSUME NEW at, at = A32!Places(moved)
             PROVE  /\ at[1 - 1] = moved.buf
                    /\ \A i \in 1 .. Len(moved.insts) :
                         at[i + 1 - 1] = at[i - 1] + A32!RewriteLen(moved.insts[i])
  BY DEF A32!BlockAt
<1>3. \A k \in 0 .. Len(moved.insts) :
        at[k] = IF k = 0 THEN moved.buf ELSE at[k - 1] + A32!RewriteLen(moved.insts[k])
  BY <1>2 DEF ArePlaces32
<1>4. at[1 - 1] = moved.buf
  BY <1>1, <1>3
<1>5. ASSUME NEW i \in 1 .. Len(moved.insts)
      PROVE  at[i + 1 - 1] = at[i - 1] + A32!RewriteLen(moved.insts[i])
  <2>1. i \in 0 .. Len(moved.insts) /\ i # 0 /\ i + 1 - 1 = i
    BY <1>1
  <2> QED BY <1>3, <2>1
<1> QED BY <1>4, <1>5

\* Places are addresses.
LEMMA PlaceType32 ==
    ASSUME NEW moved \in A32!Part, NEW i \in 1 .. Len(moved.insts) + 1
    PROVE  A32!BlockAt(moved, i) \in Int
<1>1. /\ Len(moved.insts) \in {1, 2}
      /\ moved.buf \in Int
      /\ \A k \in 1 .. Len(moved.insts) : moved.insts[k] \in A32!Inst
  BY DEF A32!Part
<1>2. \A inst \in A32!Inst : A32!RewriteLen(inst) \in Int
  BY DEF A32!RewriteLen, A32!Inst, A32!Types, A32!Branches, A32!Calls
<1>3. A32!BlockAt(moved, 1) \in Int
  BY <1>1, PlacesFollow32
<1>4. A32!BlockAt(moved, 2) \in Int
  <2>1. 1 \in 1 .. Len(moved.insts)
    <3>1. \A n \in {1, 2} : 1 \in 1 .. n
      OBVIOUS
    <3> QED BY <1>1, <3>1
  <2>2. A32!BlockAt(moved, 1 + 1) = A32!BlockAt(moved, 1) + A32!RewriteLen(moved.insts[1])
    BY <2>1, PlacesFollow32
  <2>3. A32!RewriteLen(moved.insts[1]) \in Int
    BY <1>1, <1>2, <2>1
  <2> QED BY <1>3, <2>2, <2>3
<1>5. CASE i = 1
  BY <1>3, <1>5
<1>6. CASE i = 2
  BY <1>4, <1>6
<1>7. CASE i = 3
  <2>1. Len(moved.insts) = 2
    BY <1>1, <1>7
  <2>2. A32!BlockAt(moved, 2 + 1) = A32!BlockAt(moved, 2) + A32!RewriteLen(moved.insts[2])
    BY <2>1, PlacesFollow32
  <2>3. A32!BlockAt(moved, 2) \in Int /\ A32!RewriteLen(moved.insts[2]) \in Int
    BY <1>1, <1>2, <1>4, <2>1
  <2> QED BY <1>7, <2>2, <2>3
<1> QED BY <1>1, <1>5, <1>6, <1>7

(***************************************************************************)
(* Registers and their order                                                 *)
(***************************************************************************)
LEMMA SameCardinality == ASSUME NEW set PROVE A32!Cardinality(set) = Cardinality(set)
BY DEF A32!Cardinality, Cardinality, A32!IsFiniteSet, IsFiniteSet

\* There is a register that is not in use.
LEMMA UnusedOfThree ==
    ASSUME NEW a, NEW b, NEW c
    PROVE  LET r == A32!Unused(3, {a, b, c})
           IN  r \in 0 .. 3 /\ r # a /\ r # b /\ r # c
<1> DEFINE Free(r) == r \notin {a, b, c} /\ \A q \in r + 1 .. 3 : q \in {a, b, c}
<1>1. \E r \in 0 .. 3 : Free(r)
  <2>1. CASE 3 \notin {a, b, c}
    BY <2>1
  <2>2. CASE 3 \in {a, b, c} /\ 2 \notin {a, b, c}
    BY <2>2
  <2>3. CASE 3 \in {a, b, c} /\ 2 \in {a, b, c} /\ 1 \notin {a, b, c}
    BY <2>3
  <2>4. CASE 3 \in {a, b, c} /\ 2 \in {a, b, c} /\ 1 \in {a, b, c}
    <3>1. 0 \notin {a, b, c}
      BY <2>4
    <3> QED BY <2>4, <3>1
  <2> QED BY <2>1, <2>2, <2>3, <2>4
<1>2. A32!Unused(3, {a, b, c}) = CHOOSE r \in 0 .. 3 : Free(r)
  BY DEF A32!Unused
<1> HIDE DEF Free
<1>3. A32!Unused(3, {a, b, c}) \in 0 .. 3 /\ Free(A32!Unused(3, {a, b, c}))
  BY <1>1, <1>2
<1> QED BY <1>3 DEF Free

\* The same when four are in use, as for the second register of a block.
LEMMA UnusedOfFour ==
    ASSUME NEW a, NEW b, NEW c, NEW d
    PROVE  LET r == A32!Unused(4, {a, b, c, d})
           IN  r \in 0 .. 4 /\ r # a /\ r # b /\ r # c /\ r # d
<1> DEFINE Free(r) == r \notin {a, b, c, d} /\ \A q \in r + 1 .. 4 : q \in {a, b, c, d}
<1>1. \E r \in 0 .. 4 : Free(r)
  <2>1. CASE 4 \notin {a, b, c, d}
    BY <2>1
  <2>2. CASE 4 \in {a, b, c, d} /\ 3 \notin {a, b, c, d}
    BY <2>2
  <2>3. CASE 4 \in {a, b, c, d} /\ 3 \in {a, b, c, d} /\ 2 \notin {a, b, c, d}
    BY <2>3
  <2>4. CASE /\ 4 \in {a, b, c, d} /\ 3 \in {a, b, c, d} /\ 2 \in {a, b, c, d}
             /\ 1 \notin {a, b, c, d}
    BY <2>4
  <2>5. CASE /\ 4 \in {a, b, c, d} /\ 3 \in {a, b, c, d} /\ 2 \in {a, b, c, d}
             /\ 1 \in {a, b, c, d}
    <3>1. 0 \notin {a, b, c, d}
      BY <2>5
    <3> QED BY <2>5, <3>1
  <2> QED BY <2>1, <2>2, <2>3, <2>4, <2>5
<1>2. A32!Unused(4, {a, b, c, d}) = CHOOSE r \in 0 .. 4 : Free(r)
  BY DEF A32!Unused
<1> HIDE DEF Free
<1>3. A32!Unused(4, {a, b, c, d}) \in 0 .. 4 /\ Free(A32!Unused(4, {a, b, c, d}))
  BY <1>1, <1>2
<1> QED BY <1>3 DEF Free

\* A list is in ascending order.
LEMMA OrderOfOne ==
    ASSUME NEW a \in Int
    PROVE  A32!Ordered({a}) = <<a>>
<1>1. Cardinality({a}) = 1
  BY FS_Singleton
<1> DEFINE Is(s) == \A j, k \in DOMAIN s : j < k => s[j] < s[k]
<1>2. <<a>> \in [1 .. 1 -> {a}] /\ Is(<<a>>)
  OBVIOUS
<1>3. A32!Ordered({a}) = CHOOSE s \in [1 .. 1 -> {a}] : Is(s)
  BY <1>1, SameCardinality DEF A32!Ordered
<1>4. A32!Ordered({a}) \in [1 .. 1 -> {a}]
  <2> HIDE DEF Is
  <2> QED BY <1>2, <1>3
<1>5. ASSUME NEW s \in [1 .. 1 -> {a}] PROVE s = <<a>>
  OBVIOUS
<1> QED BY <1>4, <1>5

\* Two registers in the order of their words on the stack,
LEMMA OrderOfTwo ==
    ASSUME NEW a \in Int, NEW b \in Int, a < b
    PROVE  A32!Ordered({a, b}) = <<a, b>>
<1>1. Cardinality({a, b}) = 2
  <2>1. IsFiniteSet({a}) /\ Cardinality({a}) = 1
    BY FS_Singleton
  <2>2. Cardinality({a} \cup {b}) = 2
    BY <2>1, FS_AddElement
  <2>3. {a} \cup {b} = {a, b}
    OBVIOUS
  <2> QED BY <2>2, <2>3
<1> DEFINE Is(s) == \A j, k \in DOMAIN s : j < k => s[j] < s[k]
<1>2. <<a, b>> \in [1 .. 2 -> {a, b}] /\ Is(<<a, b>>)
  OBVIOUS
<1>3. A32!Ordered({a, b}) = CHOOSE s \in [1 .. 2 -> {a, b}] : Is(s)
  BY <1>1, SameCardinality DEF A32!Ordered
<1>4. A32!Ordered({a, b}) \in [1 .. 2 -> {a, b}] /\ Is(A32!Ordered({a, b}))
  <2> HIDE DEF Is
  <2> QED BY <1>2, <1>3
<1>5. ASSUME NEW s \in [1 .. 2 -> {a, b}], Is(s) PROVE s = <<a, b>>
  <2>1. s[1] < s[2] /\ s[1] \in {a, b} /\ s[2] \in {a, b}
    BY <1>5
  <2>2. s[1] = a /\ s[2] = b
    BY <2>1
  <2> QED BY <2>2
<1> QED BY <1>4, <1>5

\* and three.
LEMMA OrderOfThree ==
    ASSUME NEW a \in Int, NEW b \in Int, NEW c \in Int, a < b, b < c
    PROVE  A32!Ordered({a, b, c}) = <<a, b, c>>
<1>1. Cardinality({a, b, c}) = 3
  <2>1. IsFiniteSet({a}) /\ Cardinality({a}) = 1
    BY FS_Singleton
  <2>2. IsFiniteSet({a} \cup {b}) /\ Cardinality({a} \cup {b}) = 2
    BY <2>1, FS_AddElement
  <2>3. Cardinality(({a} \cup {b}) \cup {c}) = 3
    BY <2>2, FS_AddElement
  <2>4. ({a} \cup {b}) \cup {c} = {a, b, c}
    OBVIOUS
  <2> QED BY <2>3, <2>4
<1> DEFINE Is(s) == \A j, k \in DOMAIN s : j < k => s[j] < s[k]
<1>2. <<a, b, c>> \in [1 .. 3 -> {a, b, c}] /\ Is(<<a, b, c>>)
  OBVIOUS
<1>3. A32!Ordered({a, b, c}) = CHOOSE s \in [1 .. 3 -> {a, b, c}] : Is(s)
  BY <1>1, SameCardinality DEF A32!Ordered
<1>4. A32!Ordered({a, b, c}) \in [1 .. 3 -> {a, b, c}] /\ Is(A32!Ordered({a, b, c}))
  <2> HIDE DEF Is
  <2> QED BY <1>2, <1>3
<1>5. ASSUME NEW s \in [1 .. 3 -> {a, b, c}], Is(s) PROVE s = <<a, b, c>>
  <2>1. s[1] < s[2] /\ s[2] < s[3] /\ s[1] \in {a, b, c} /\ s[2] \in {a, b, c} /\ s[3] \in {a, b, c}
    BY <1>5
  <2>2. s[1] = a /\ s[2] = b /\ s[3] = c
    BY <2>1
  <2> QED BY <2>2
<1> QED BY <1>4, <1>5

(***************************************************************************)
(* The states of a block, and how far it runs                                *)
(***************************************************************************)
At32(at, regs, stack, gone) == [at |-> at, regs |-> regs, stack |-> stack, gone |-> gone]

AreStates32(state, block, base, holds, n) ==
    state = [k \in 0 .. n |-> IF k = 0 THEN A32!Starting ELSE A32!After(block, base, holds, state[k - 1])]

\* The states exist.
LEMMA StatesExist32 ==
    ASSUME NEW block, NEW base, NEW holds
    PROVE  \E state : AreStates32(state, block, base, holds, 9)
<1> DEFINE S == {n \in 0 .. 9 : \E state : AreStates32(state, block, base, holds, n)}
<1>2. 0 \in S
  <2>1. AreStates32([k \in 0 .. 0 |-> A32!Starting], block, base, holds, 0)
    BY DEF AreStates32
  <2> QED BY <2>1
<1>3. ASSUME NEW n \in 0 .. 9 - 1, n \in S PROVE n + 1 \in S
  <2>1. PICK state : AreStates32(state, block, base, holds, n)
    BY <1>3
  <2> DEFINE new == [k \in 0 .. n + 1 |-> IF k = n + 1 THEN A32!After(block, base, holds, state[n]) ELSE state[k]]
  <2>2. ASSUME NEW k \in 0 .. n + 1
        PROVE  new[k] = IF k = 0 THEN A32!Starting ELSE A32!After(block, base, holds, new[k - 1])
    BY <1>3, <2>1 DEF AreStates32
  <2>3. AreStates32(new, block, base, holds, n + 1)
    BY <2>2 DEF AreStates32
  <2> QED BY <2>3
<1>4. 0 .. 9 \subseteq S
  <2> HIDE DEF S
  <2> QED BY <1>2, <1>3, CountUp
<1> QED BY <1>4

\* Its nine words run one after the other.
LEMMA RunsNine ==
    ASSUME NEW block, NEW base, NEW holds
    PROVE  LET state == A32!States(block, base, holds)
           IN  /\ state[0] = A32!Starting
               /\ state[1] = A32!After(block, base, holds, state[0])
               /\ state[2] = A32!After(block, base, holds, state[1])
               /\ state[3] = A32!After(block, base, holds, state[2])
               /\ state[4] = A32!After(block, base, holds, state[3])
               /\ state[5] = A32!After(block, base, holds, state[4])
               /\ state[6] = A32!After(block, base, holds, state[5])
               /\ state[7] = A32!After(block, base, holds, state[6])
               /\ state[8] = A32!After(block, base, holds, state[7])
               /\ state[9] = A32!After(block, base, holds, state[8])
<1>1. AreStates32(A32!States(block, base, holds), block, base, holds, 9)
  BY StatesExist32 DEF AreStates32, A32!States
<1> DEFINE state == A32!States(block, base, holds)
<1>2. state[0] = A32!Starting
  BY <1>1 DEF AreStates32
<1>3. \A k \in 1 .. 9 : state[k] = A32!After(block, base, holds, state[k - 1])
  BY <1>1 DEF AreStates32
<1> HIDE DEF state
<1>4. /\ state[1] = A32!After(block, base, holds, state[0])
      /\ state[2] = A32!After(block, base, holds, state[1])
      /\ state[3] = A32!After(block, base, holds, state[2])
      /\ state[4] = A32!After(block, base, holds, state[3])
      /\ state[5] = A32!After(block, base, holds, state[4])
      /\ state[6] = A32!After(block, base, holds, state[5])
      /\ state[7] = A32!After(block, base, holds, state[6])
      /\ state[8] = A32!After(block, base, holds, state[7])
      /\ state[9] = A32!After(block, base, holds, state[8])
  BY <1>3
<1> QED BY <1>2, <1>4 DEF state

\* A word with a condition runs if it holds; the words of a block and its jumps,
Runs32(cond, holds) == cond # A32!Own \/ Holds(holds)

HasWord32(block, at, to, w) ==
    at \in Nat /\ to = at + 1 /\ at < Len(block) /\ block[at + 1] = w

HasOwn32(block, at, to) ==
    at \in Nat /\ to = at + 1 /\ at < Len(block) /\ block[at + 1].cond = A32!Own

HasBranch32(block, at, to, cond) ==
    at \in Nat /\ to \in Nat /\ at < Len(block) /\ block[at + 1] = A32!Branch(cond, to - (at + 2))

\* its literals, and the link of a call.
HasLiteral32(block, at, to, cond, rd, n, v) ==
    n \in Nat /\ HasWord32(block, at, to, A32!Literal(cond, rd, n)) /\ block[at + 2 + n + 1] = A32!Data(v)

HasLink32(block, base, at, to, cond, back) ==
    base \in Int /\ HasWord32(block, at, to, A32!Word("add_pc", cond, A32!Lr, 0, 0, 2)) /\ back
          = base + (at + 2) + 2

\* Registers of which one has another value.
Set32(new, regs, r, v) == new = [regs EXCEPT ![r] = v]

\* A register other than the pc, and some of them in order.
IsReg32(r) == r \in A32!Registers /\ r # A32!Pc

InOrder32(a, b) == IsReg32(a) /\ IsReg32(b) /\ a < b

(***************************************************************************)
(* One word                                                                  *)
(***************************************************************************)
\* A step of a block.
LEMMA AfterIs ==
    ASSUME NEW block, NEW base, NEW holds, NEW m, NEW w, w = A32!RunWord(block, base, holds, m)
    PROVE  A32!After(block, base, holds, m) = IF m.gone # A32!None \/ m.at >= Len(block) THEN m ELSE w
BY DEF A32!After

\* The word is run when the block has not left.
LEMMA WordRuns ==
    ASSUME NEW block, NEW base, NEW holds, NEW m, m.gone = A32!None, ~(m.at >= Len(block))
    PROVE  A32!After(block, base, holds, m) = A32!RunWord(block, base, holds, m)
<1> SUFFICES ASSUME NEW w, w = A32!RunWord(block, base, holds, m)
             PROVE  A32!After(block, base, holds, m) = w
  OBVIOUS
<1>1. ~(m.gone # A32!None \/ m.at >= Len(block))
  OBVIOUS
<1>2. A32!After(block, base, holds, m) = IF m.gone # A32!None \/ m.at >= Len(block) THEN m ELSE w
  BY AfterIs
<1> QED BY <1>1, <1>2

\* A word whose condition does not hold is passed,
LEMMA SkipWord ==
    ASSUME NEW block, NEW base, NEW holds, NEW at, NEW to, NEW regs, NEW stack,
           Fails(holds), HasOwn32(block, at, to)
    PROVE  A32!After(block, base, holds, At32(at, regs, stack, A32!None))
             = At32(to, regs, stack, A32!None)
<1> SUFFICES ASSUME NEW m, m = At32(at, regs, stack, A32!None)
             PROVE  A32!After(block, base, holds, m) = At32(to, regs, stack, A32!None)
  OBVIOUS
<1>1. m.at = at /\ m.gone = A32!None /\ m.regs = regs /\ m.stack = stack
  BY DEF At32
<1>2. A32!After(block, base, holds, m) = A32!RunWord(block, base, holds, m)
  <2>1. at \in Nat /\ at < Len(block)
    BY DEF HasOwn32
  <2>2. ~(m.at >= Len(block))
    BY <1>1, <2>1
  <2> QED BY <1>1, <2>2, WordRuns
<1>3. (block[m.at + 1].cond = A32!Own /\ ~holds)
  BY <1>1 DEF HasOwn32, Fails
<1>4. A32!RunWord(block, base, holds, m)
        = [m EXCEPT !.at = @ + 1]
  BY <1>3 DEF A32!RunWord
<1> QED BY <1>1, <1>2, <1>4 DEF At32, HasOwn32

\* a branch jumps,
LEMMA DoBranch32 ==
    ASSUME NEW block, NEW base, NEW holds, NEW at, NEW to, NEW regs, NEW stack, NEW cond,
           Runs32(cond, holds), HasBranch32(block, at, to, cond)
    PROVE  A32!After(block, base, holds, At32(at, regs, stack, A32!None))
             = At32(to, regs, stack, A32!None)
<1> SUFFICES ASSUME NEW m, m = At32(at, regs, stack, A32!None)
             PROVE  A32!After(block, base, holds, m) = At32(to, regs, stack, A32!None)
  OBVIOUS
<1>1. m.at = at /\ m.gone = A32!None /\ m.regs = regs /\ m.stack = stack
  BY DEF At32
<1>2. A32!After(block, base, holds, m) = A32!RunWord(block, base, holds, m)
  <2>1. at \in Nat /\ at < Len(block)
    BY DEF HasBranch32
  <2>2. ~(m.at >= Len(block))
    BY <1>1, <2>1
  <2> QED BY <1>1, <2>2, WordRuns
<1>3. block[m.at + 1].op = "b" /\ ~(block[m.at + 1].cond = A32!Own /\ ~holds)
  BY <1>1 DEF HasBranch32, A32!Branch, A32!Word, Runs32, Holds, Fails
<1>4. A32!RunWord(block, base, holds, m)
        = [m EXCEPT !.at = (m.at + 2) + block[m.at + 1].n]
  BY <1>3 DEF A32!RunWord
<1>5. (m.at + 2) + block[m.at + 1].n = to
  BY <1>1 DEF HasBranch32, A32!Branch, A32!Word
<1> QED BY <1>1, <1>2, <1>4, <1>5 DEF At32, HasBranch32, A32!Branch, A32!Word

\* a literal is loaded into a register or, which leaves the block,
LEMMA DoLiteral32 ==
    ASSUME NEW block, NEW base, NEW holds, NEW at, NEW to, NEW regs, NEW stack, NEW new, NEW cond, NEW rd, NEW n,
           NEW v,
           Set32(new, regs, rd, v),
           IsReg32(rd), Runs32(cond, holds), HasLiteral32(block, at, to, cond, rd, n, v)
    PROVE  A32!After(block, base, holds, At32(at, regs, stack, A32!None))
             = At32(to, new, stack, A32!None)
<1> SUFFICES ASSUME NEW m, m = At32(at, regs, stack, A32!None)
             PROVE  A32!After(block, base, holds, m) = At32(to, new, stack, A32!None)
  OBVIOUS
<1>1. m.at = at /\ m.gone = A32!None /\ m.regs = regs /\ m.stack = stack
  BY DEF At32
<1>2. A32!After(block, base, holds, m) = A32!RunWord(block, base, holds, m)
  <2>1. at \in Nat /\ at < Len(block)
    BY DEF HasLiteral32, HasWord32
  <2>2. ~(m.at >= Len(block))
    BY <1>1, <2>1
  <2> QED BY <1>1, <2>2, WordRuns
<1>3. block[m.at + 1].op = "literal" /\ ~(block[m.at + 1].cond = A32!Own /\ ~holds)
  BY <1>1 DEF HasLiteral32, HasWord32, A32!Literal, A32!Data, A32!Word, Runs32, Holds, Fails
<1>4. A32!RunWord(block, base, holds, m)
        = A32!Set([m EXCEPT !.at
              = @ + 1], block[m.at + 1].rd, block[(m.at + 2) + block[m.at + 1].n + 1].n)
  BY <1>3 DEF A32!RunWord
<1>5. block[m.at + 1].rd = rd /\ rd # A32!Pc /\ block[(m.at + 2) + block[m.at + 1].n + 1].n = v
  BY <1>1 DEF HasLiteral32, HasWord32, A32!Literal, A32!Data, A32!Word, IsReg32
<1> QED BY <1>1, <1>2, <1>4, <1>5 DEF At32, A32!Set, Set32, HasLiteral32, HasWord32, A32!Literal, A32!Data,
    A32!Word

\* into the pc,
LEMMA DoLiteralPc ==
    ASSUME NEW block, NEW base, NEW holds, NEW at, NEW to, NEW regs, NEW stack, NEW cond, NEW n, NEW v,
           Runs32(cond, holds), HasLiteral32(block, at, to, cond, A32!Pc, n, v)
    PROVE  A32!After(block, base, holds, At32(at, regs, stack, A32!None))
             = At32(to, regs, stack, v)
<1> SUFFICES ASSUME NEW m, m = At32(at, regs, stack, A32!None)
             PROVE  A32!After(block, base, holds, m) = At32(to, regs, stack, v)
  OBVIOUS
<1>1. m.at = at /\ m.gone = A32!None /\ m.regs = regs /\ m.stack = stack
  BY DEF At32
<1>2. A32!After(block, base, holds, m) = A32!RunWord(block, base, holds, m)
  <2>1. at \in Nat /\ at < Len(block)
    BY DEF HasLiteral32, HasWord32
  <2>2. ~(m.at >= Len(block))
    BY <1>1, <2>1
  <2> QED BY <1>1, <2>2, WordRuns
<1>3. block[m.at + 1].op = "literal" /\ ~(block[m.at + 1].cond = A32!Own /\ ~holds)
  BY <1>1 DEF HasLiteral32, HasWord32, A32!Literal, A32!Data, A32!Word, Runs32, Holds, Fails
<1>4. A32!RunWord(block, base, holds, m)
        = A32!Set([m EXCEPT !.at
              = @ + 1], block[m.at + 1].rd, block[(m.at + 2) + block[m.at + 1].n + 1].n)
  BY <1>3 DEF A32!RunWord
<1>5. block[m.at + 1].rd = A32!Pc /\ block[(m.at + 2) + block[m.at + 1].n + 1].n = v
  BY <1>1 DEF HasLiteral32, HasWord32, A32!Literal, A32!Data, A32!Word
<1> QED BY <1>1, <1>2, <1>4, <1>5 DEF At32, A32!Set, Set32, HasLiteral32, HasWord32, A32!Literal, A32!Data,
    A32!Word

\* a call sets the link register,
LEMMA DoLink32 ==
    ASSUME NEW block, NEW base, NEW holds, NEW at, NEW to, NEW regs, NEW stack, NEW new, NEW cond, NEW back,
           Set32(new, regs, A32!Lr, A32!Address(back)),
           Runs32(cond, holds), HasLink32(block, base, at, to, cond, back)
    PROVE  A32!After(block, base, holds, At32(at, regs, stack, A32!None))
             = At32(to, new, stack, A32!None)
<1> SUFFICES ASSUME NEW m, m = At32(at, regs, stack, A32!None)
             PROVE  A32!After(block, base, holds, m) = At32(to, new, stack, A32!None)
  OBVIOUS
<1>1. m.at = at /\ m.gone = A32!None /\ m.regs = regs /\ m.stack = stack
  BY DEF At32
<1>2. A32!After(block, base, holds, m) = A32!RunWord(block, base, holds, m)
  <2>1. at \in Nat /\ at < Len(block)
    BY DEF HasLink32, HasWord32
  <2>2. ~(m.at >= Len(block))
    BY <1>1, <2>1
  <2> QED BY <1>1, <2>2, WordRuns
<1>3. block[m.at + 1].op = "add_pc" /\ ~(block[m.at + 1].cond = A32!Own /\ ~holds)
  BY <1>1 DEF HasLink32, HasWord32, A32!Word, Runs32, Holds, Fails
<1>4. A32!RunWord(block, base, holds, m)
        = A32!Set([m EXCEPT !.at = @ + 1], block[m.at + 1].rd, A32!Address(base + (m.at + 2) + block[m.at + 1].n))
  BY <1>3 DEF A32!RunWord
<1>5. block[m.at + 1].rd = A32!Lr /\ A32!Lr # A32!Pc /\ base + (m.at + 2) + block[m.at + 1].n = back
  BY <1>1 DEF HasLink32, HasWord32, A32!Word, A32!Lr, A32!Pc
<1> QED BY <1>1, <1>2, <1>4, <1>5 DEF At32, A32!Set, Set32, HasLink32, HasWord32, A32!Word

\* a sum is computed,
LEMMA DoCompute32 ==
    ASSUME NEW block, NEW base, NEW holds, NEW at, NEW to, NEW regs, NEW stack, NEW new, NEW rd, NEW rn, NEW rm,
           Set32(new, regs, rd, A32!Sum(regs[rn], regs[rm])),
           IsReg32(rd), HasWord32(block, at, to, A32!Compute(rd, rn, rm))
    PROVE  A32!After(block, base, holds, At32(at, regs, stack, A32!None))
             = At32(to, new, stack, A32!None)
<1> SUFFICES ASSUME NEW m, m = At32(at, regs, stack, A32!None)
             PROVE  A32!After(block, base, holds, m) = At32(to, new, stack, A32!None)
  OBVIOUS
<1>1. m.at = at /\ m.gone = A32!None /\ m.regs = regs /\ m.stack = stack
  BY DEF At32
<1>2. A32!After(block, base, holds, m) = A32!RunWord(block, base, holds, m)
  <2>1. at \in Nat /\ at < Len(block)
    BY DEF HasWord32
  <2>2. ~(m.at >= Len(block))
    BY <1>1, <2>1
  <2> QED BY <1>1, <2>2, WordRuns
<1>3. block[m.at + 1].op = "alu" /\ ~(block[m.at + 1].cond = A32!Own /\ ~holds)
  BY <1>1 DEF HasWord32, A32!Compute, A32!Word, A32!Always, A32!Own
<1>4. A32!RunWord(block, base, holds, m)
        = A32!Set([m EXCEPT !.at
              = @ + 1], block[m.at + 1].rd, A32!Sum(m.regs[block[m.at + 1].rn], m.regs[block[m.at + 1].rm]))
  BY <1>3 DEF A32!RunWord
<1>5. block[m.at + 1].rd = rd /\ rd # A32!Pc /\ block[m.at + 1].rn = rn /\ block[m.at + 1].rm = rm
  BY <1>1 DEF HasWord32, A32!Compute, A32!Word, IsReg32
<1> QED BY <1>1, <1>2, <1>4, <1>5 DEF At32, A32!Set, Set32, HasWord32, A32!Compute, A32!Word

\* a register is copied,
LEMMA DoMove32 ==
    ASSUME NEW block, NEW base, NEW holds, NEW at, NEW to, NEW regs, NEW stack, NEW new, NEW rd, NEW rm,
           Set32(new, regs, rd, regs[rm]),
           IsReg32(rd), HasWord32(block, at, to, A32!Move(rd, rm))
    PROVE  A32!After(block, base, holds, At32(at, regs, stack, A32!None))
             = At32(to, new, stack, A32!None)
<1> SUFFICES ASSUME NEW m, m = At32(at, regs, stack, A32!None)
             PROVE  A32!After(block, base, holds, m) = At32(to, new, stack, A32!None)
  OBVIOUS
<1>1. m.at = at /\ m.gone = A32!None /\ m.regs = regs /\ m.stack = stack
  BY DEF At32
<1>2. A32!After(block, base, holds, m) = A32!RunWord(block, base, holds, m)
  <2>1. at \in Nat /\ at < Len(block)
    BY DEF HasWord32
  <2>2. ~(m.at >= Len(block))
    BY <1>1, <2>1
  <2> QED BY <1>1, <2>2, WordRuns
<1>3. block[m.at + 1].op = "mov" /\ ~(block[m.at + 1].cond = A32!Own /\ ~holds)
  BY <1>1 DEF HasWord32, A32!Move, A32!Word, A32!Always, A32!Own
<1>4. A32!RunWord(block, base, holds, m)
        = A32!Set([m EXCEPT !.at = @ + 1], block[m.at + 1].rd, m.regs[block[m.at + 1].rm])
  BY <1>3 DEF A32!RunWord
<1>5. block[m.at + 1].rd = rd /\ rd # A32!Pc /\ block[m.at + 1].rm = rm
  BY <1>1 DEF HasWord32, A32!Move, A32!Word, IsReg32
<1> QED BY <1>1, <1>2, <1>4, <1>5 DEF At32, A32!Set, Set32, HasWord32, A32!Move, A32!Word

\* memory is loaded at the address in a register,
LEMMA DoLoad32 ==
    ASSUME NEW block, NEW base, NEW holds, NEW at, NEW to, NEW regs, NEW stack, NEW new, NEW rd, NEW rn,
           Set32(new, regs, rd, A32!Memory(regs[rn], A32!None)),
           IsReg32(rd), HasWord32(block, at, to, A32!Load(rd, rn))
    PROVE  A32!After(block, base, holds, At32(at, regs, stack, A32!None))
             = At32(to, new, stack, A32!None)
<1> SUFFICES ASSUME NEW m, m = At32(at, regs, stack, A32!None)
             PROVE  A32!After(block, base, holds, m) = At32(to, new, stack, A32!None)
  OBVIOUS
<1>1. m.at = at /\ m.gone = A32!None /\ m.regs = regs /\ m.stack = stack
  BY DEF At32
<1>2. A32!After(block, base, holds, m) = A32!RunWord(block, base, holds, m)
  <2>1. at \in Nat /\ at < Len(block)
    BY DEF HasWord32
  <2>2. ~(m.at >= Len(block))
    BY <1>1, <2>1
  <2> QED BY <1>1, <2>2, WordRuns
<1>3. block[m.at + 1].op = "load" /\ ~(block[m.at + 1].cond = A32!Own /\ ~holds)
  BY <1>1 DEF HasWord32, A32!Load, A32!Word, A32!Always, A32!Own
<1>4. A32!RunWord(block, base, holds, m)
        = A32!Set([m EXCEPT !.at = @ + 1], block[m.at + 1].rd, A32!Memory(m.regs[block[m.at + 1].rn], A32!None))
  BY <1>3 DEF A32!RunWord
<1>5. block[m.at + 1].rd = rd /\ rd # A32!Pc /\ block[m.at + 1].rn = rn
  BY <1>1 DEF HasWord32, A32!Load, A32!Word, IsReg32
<1> QED BY <1>1, <1>2, <1>4, <1>5 DEF At32, A32!Set, Set32, HasWord32, A32!Load, A32!Word

\* or at the sum of two,
LEMMA DoLoadReg32 ==
    ASSUME NEW block, NEW base, NEW holds, NEW at, NEW to, NEW regs, NEW stack, NEW new, NEW rd, NEW rn, NEW rm,
           Set32(new, regs, rd, A32!Memory(regs[rn], regs[rm])),
           IsReg32(rd), HasWord32(block, at, to, A32!LoadReg(rd, rn, rm))
    PROVE  A32!After(block, base, holds, At32(at, regs, stack, A32!None))
             = At32(to, new, stack, A32!None)
<1> SUFFICES ASSUME NEW m, m = At32(at, regs, stack, A32!None)
             PROVE  A32!After(block, base, holds, m) = At32(to, new, stack, A32!None)
  OBVIOUS
<1>1. m.at = at /\ m.gone = A32!None /\ m.regs = regs /\ m.stack = stack
  BY DEF At32
<1>2. A32!After(block, base, holds, m) = A32!RunWord(block, base, holds, m)
  <2>1. at \in Nat /\ at < Len(block)
    BY DEF HasWord32
  <2>2. ~(m.at >= Len(block))
    BY <1>1, <2>1
  <2> QED BY <1>1, <2>2, WordRuns
<1>3. block[m.at + 1].op = "load_reg" /\ ~(block[m.at + 1].cond = A32!Own /\ ~holds)
  BY <1>1 DEF HasWord32, A32!LoadReg, A32!Word, A32!Always, A32!Own
<1>4. A32!RunWord(block, base, holds, m)
        = A32!Set([m EXCEPT !.at
              = @ + 1], block[m.at + 1].rd, A32!Memory(m.regs[block[m.at + 1].rn], m.regs[block[m.at + 1].rm]))
  BY <1>3 DEF A32!RunWord
<1>5. block[m.at + 1].rd = rd /\ rd # A32!Pc /\ block[m.at + 1].rn = rn /\ block[m.at + 1].rm = rm
  BY <1>1 DEF HasWord32, A32!LoadReg, A32!Word, IsReg32
<1> QED BY <1>1, <1>2, <1>4, <1>5 DEF At32, A32!Set, Set32, HasWord32, A32!LoadReg, A32!Word

\* a word on the stack is replaced,
LEMMA DoStore32 ==
    ASSUME NEW block, NEW base, NEW holds, NEW at, NEW to, NEW regs, NEW stack, NEW rd, NEW n, NEW after,
           Set32(after, stack, n + 1, regs[rd]),
           n \in Nat, HasWord32(block, at, to, A32!Store(rd, n))
    PROVE  A32!After(block, base, holds, At32(at, regs, stack, A32!None))
             = At32(to, regs, after, A32!None)
<1> SUFFICES ASSUME NEW m, m = At32(at, regs, stack, A32!None)
             PROVE  A32!After(block, base, holds, m) = At32(to, regs, after, A32!None)
  OBVIOUS
<1>1. m.at = at /\ m.gone = A32!None /\ m.regs = regs /\ m.stack = stack
  BY DEF At32
<1>2. A32!After(block, base, holds, m) = A32!RunWord(block, base, holds, m)
  <2>1. at \in Nat /\ at < Len(block)
    BY DEF HasWord32
  <2>2. ~(m.at >= Len(block))
    BY <1>1, <2>1
  <2> QED BY <1>1, <2>2, WordRuns
<1>3. block[m.at + 1].op = "store" /\ ~(block[m.at + 1].cond = A32!Own /\ ~holds)
  BY <1>1 DEF HasWord32, A32!Store, A32!Word, A32!Always, A32!Own
<1>4. A32!RunWord(block, base, holds, m)
        = [[m EXCEPT !.at = @ + 1] EXCEPT !.stack[block[m.at + 1].n + 1] = m.regs[block[m.at + 1].rd]]
  BY <1>3 DEF A32!RunWord
<1>5. block[m.at + 1].rd = rd /\ block[m.at + 1].n = n
  BY <1>1 DEF HasWord32, A32!Store, A32!Word
<1> QED BY <1>1, <1>2, <1>4, <1>5 DEF At32, A32!Set, Set32, HasWord32, A32!Store, A32!Word

\* and an instruction that does not use the pc runs as it is.
LEMMA DoInst32 ==
    ASSUME NEW block, NEW base, NEW holds, NEW at, NEW to, NEW regs, NEW stack,
           HasWord32(block, at, to, A32!Word("inst", A32!Always, 0, 0, 0, 0))
    PROVE  A32!After(block, base, holds, At32(at, regs, stack, A32!None))
             = At32(to, regs, stack, A32!None)
<1> SUFFICES ASSUME NEW m, m = At32(at, regs, stack, A32!None)
             PROVE  A32!After(block, base, holds, m) = At32(to, regs, stack, A32!None)
  OBVIOUS
<1>1. m.at = at /\ m.gone = A32!None /\ m.regs = regs /\ m.stack = stack
  BY DEF At32
<1>2. A32!After(block, base, holds, m) = A32!RunWord(block, base, holds, m)
  <2>1. at \in Nat /\ at < Len(block)
    BY DEF HasWord32
  <2>2. ~(m.at >= Len(block))
    BY <1>1, <2>1
  <2> QED BY <1>1, <2>2, WordRuns
<1>3. block[m.at + 1].op = "inst" /\ ~(block[m.at + 1].cond = A32!Own /\ ~holds)
  BY <1>1 DEF HasWord32, A32!Word, A32!Always, A32!Own
<1>4. A32!RunWord(block, base, holds, m)
        = [m EXCEPT !.at = @ + 1]
  BY <1>3 DEF A32!RunWord
<1> QED BY <1>1, <1>2, <1>4 DEF At32, HasWord32, A32!Word

\* Registers of which some are restored, and the outcome of a block.
RestoredOne(new, regs, a, x) == new = [r \in A32!Registers |-> IF r = a THEN x ELSE regs[r]]

RestoredTwo(new, regs, a, x, b, y) ==
    new = [r \in A32!Registers |-> IF r = a THEN x ELSE IF r = b THEN y ELSE regs[r]]

Outcome32(regs) == [regs |-> regs, stack |-> <<>>]

\* The registers of a list, and the place of one in it.
LEMMA ListOfOne ==
    ASSUME NEW f, NEW a
    PROVE  [k \in DOMAIN <<a>> |-> f[<<a>>[k]]] \o <<>> = <<f[a]>>
<1>1. [k \in DOMAIN <<a>> |-> f[<<a>>[k]]] = <<f[a]>>
  OBVIOUS
<1> QED BY <1>1

\* The values of two registers as a list,
LEMMA ListOfTwo ==
    ASSUME NEW f, NEW a, NEW b
    PROVE  [k \in DOMAIN <<a, b>> |-> f[<<a, b>>[k]]] \o <<>> = <<f[a], f[b]>>
<1>1. [k \in DOMAIN <<a, b>> |-> f[<<a, b>>[k]]] = <<f[a], f[b]>>
  OBVIOUS
<1> QED BY <1>1

\* and of three.
LEMMA ListOfThree ==
    ASSUME NEW f, NEW a, NEW b, NEW c
    PROVE  [k \in DOMAIN <<a, b, c>> |-> f[<<a, b, c>>[k]]] \o <<>> = <<f[a], f[b], f[c]>>
<1>1. [k \in DOMAIN <<a, b, c>> |-> f[<<a, b, c>>[k]]] = <<f[a], f[b], f[c]>>
  OBVIOUS
<1> QED BY <1>1

\* The place of a register in a list of two,
LEMMA PlaceOfTwo ==
    ASSUME NEW a, NEW b, a # b
    PROVE  /\ (CHOOSE k \in DOMAIN <<a, b>> : <<a, b>>[k] = a) = 1
           /\ (CHOOSE k \in DOMAIN <<a, b>> : <<a, b>>[k] = b) = 2
<1>1. \A k \in DOMAIN <<a, b>> : (<<a, b>>[k] = a <=> k = 1) /\ (<<a, b>>[k] = b <=> k = 2)
  OBVIOUS
<1>2. 1 \in DOMAIN <<a, b>> /\ 2 \in DOMAIN <<a, b>>
  OBVIOUS
<1> QED BY <1>1, <1>2

\* and in one of three.
LEMMA PlaceOfThree ==
    ASSUME NEW a, NEW b, NEW c, a # b, a # c, b # c
    PROVE  /\ (CHOOSE k \in DOMAIN <<a, b, c>> : <<a, b, c>>[k] = a) = 1
           /\ (CHOOSE k \in DOMAIN <<a, b, c>> : <<a, b, c>>[k] = b) = 2
           /\ (CHOOSE k \in DOMAIN <<a, b, c>> : <<a, b, c>>[k] = c) = 3
<1>1. \A k \in DOMAIN <<a, b, c>> :
        (<<a, b, c>>[k] = a <=> k = 1) /\ (<<a, b, c>>[k] = b <=> k = 2) /\ (<<a, b, c>>[k] = c <=> k = 3)
  OBVIOUS
<1>2. 1 \in DOMAIN <<a, b, c>> /\ 2 \in DOMAIN <<a, b, c>> /\ 3 \in DOMAIN <<a, b, c>>
  OBVIOUS
<1> QED BY <1>1, <1>2

\* A register is pushed,
LEMMA DoPushOne ==
    ASSUME NEW block, NEW base, NEW holds, NEW at, NEW to, NEW regs, NEW a,
           IsReg32(a), HasWord32(block, at, to, A32!Push({a}))
    PROVE  A32!After(block, base, holds, At32(at, regs, <<>>, A32!None))
             = At32(to, regs, <<regs[a]>>, A32!None)
<1> SUFFICES ASSUME NEW m, m = At32(at, regs, <<>>, A32!None)
             PROVE  A32!After(block, base, holds, m) = At32(to, regs, <<regs[a]>>, A32!None)
  OBVIOUS
<1>1. m.at = at /\ m.gone = A32!None /\ m.regs = regs /\ m.stack = <<>>
  BY DEF At32
<1>2. A32!After(block, base, holds, m) = A32!RunWord(block, base, holds, m)
  <2>1. at \in Nat /\ at < Len(block)
    BY DEF HasWord32
  <2>2. ~(m.at >= Len(block))
    BY <1>1, <2>1
  <2> QED BY <1>1, <2>2, WordRuns
<1>3. block[m.at + 1].op = "push" /\ ~(block[m.at + 1].cond = A32!Own /\ ~holds) /\ block[m.at + 1].n = {a}
  BY <1>1 DEF HasWord32, A32!Word, A32!Push, A32!Pop, A32!Always, A32!Own
<1>4. A32!RunWord(block, base, holds, m) = A32!Pushed([m EXCEPT !.at = @ + 1], block[m.at + 1].n)
  BY <1>3 DEF A32!RunWord
<1>5. A32!Ordered({a}) = <<a>>
  BY OrderOfOne DEF IsReg32, A32!Registers
<1> DEFINE step == [m EXCEPT !.at = @ + 1]
<1>6. step.regs = regs /\ step.stack = <<>> /\ step.at = to /\ step.gone = A32!None /\ step
      = At32(to, regs, <<>>, A32!None)
  BY <1>1 DEF At32, HasWord32
<1> HIDE DEF step
<1>7. A32!Pushed(step, {a})
        = [step EXCEPT !.stack = [k \in DOMAIN <<a>> |-> step.regs[<<a>>[k]]] \o @]
  BY <1>5 DEF A32!Pushed
<1>8. [k \in DOMAIN <<a>> |-> step.regs[<<a>>[k]]] \o step.stack = <<regs[a]>>
  BY <1>6, ListOfOne
<1>9. [step EXCEPT !.stack = <<regs[a]>>] = At32(to, regs, <<regs[a]>>, A32!None)
  BY <1>6 DEF At32
<1> QED BY <1>2, <1>3, <1>4, <1>7, <1>8, <1>9 DEF step

\* or two,
LEMMA DoPushTwo ==
    ASSUME NEW block, NEW base, NEW holds, NEW at, NEW to, NEW regs, NEW a, NEW b,
           InOrder32(a, b), HasWord32(block, at, to, A32!Push({a, b}))
    PROVE  A32!After(block, base, holds, At32(at, regs, <<>>, A32!None))
             = At32(to, regs, <<regs[a], regs[b]>>, A32!None)
<1> SUFFICES ASSUME NEW m, m = At32(at, regs, <<>>, A32!None)
             PROVE  A32!After(block, base, holds, m) = At32(to, regs, <<regs[a], regs[b]>>, A32!None)
  OBVIOUS
<1>1. m.at = at /\ m.gone = A32!None /\ m.regs = regs /\ m.stack = <<>>
  BY DEF At32
<1>2. A32!After(block, base, holds, m) = A32!RunWord(block, base, holds, m)
  <2>1. at \in Nat /\ at < Len(block)
    BY DEF HasWord32
  <2>2. ~(m.at >= Len(block))
    BY <1>1, <2>1
  <2> QED BY <1>1, <2>2, WordRuns
<1>3. block[m.at + 1].op = "push" /\ ~(block[m.at + 1].cond = A32!Own /\ ~holds) /\ block[m.at + 1].n = {a, b}
  BY <1>1 DEF HasWord32, A32!Word, A32!Push, A32!Pop, A32!Always, A32!Own
<1>4. A32!RunWord(block, base, holds, m) = A32!Pushed([m EXCEPT !.at = @ + 1], block[m.at + 1].n)
  BY <1>3 DEF A32!RunWord
<1>5. A32!Ordered({a, b}) = <<a, b>>
  BY OrderOfTwo DEF InOrder32, IsReg32, A32!Registers
<1> DEFINE step == [m EXCEPT !.at = @ + 1]
<1>6. step.regs = regs /\ step.stack = <<>> /\ step.at = to /\ step.gone = A32!None /\ step
      = At32(to, regs, <<>>, A32!None)
  BY <1>1 DEF At32, HasWord32
<1> HIDE DEF step
<1>7. A32!Pushed(step, {a, b})
        = [step EXCEPT !.stack = [k \in DOMAIN <<a, b>> |-> step.regs[<<a, b>>[k]]] \o @]
  BY <1>5 DEF A32!Pushed
<1>8. [k \in DOMAIN <<a, b>> |-> step.regs[<<a, b>>[k]]] \o step.stack = <<regs[a], regs[b]>>
  BY <1>6, ListOfTwo
<1>9. [step EXCEPT !.stack = <<regs[a], regs[b]>>] = At32(to, regs, <<regs[a], regs[b]>>, A32!None)
  BY <1>6 DEF At32
<1> QED BY <1>2, <1>3, <1>4, <1>7, <1>8, <1>9 DEF step

\* or two and the pc, which is above them.
LEMMA DoPushThree ==
    ASSUME NEW block, NEW base, NEW holds, NEW at, NEW to, NEW regs, NEW a, NEW b,
           InOrder32(a, b), HasWord32(block, at, to, A32!Push({a, b, A32!Pc}))
    PROVE  A32!After(block, base, holds, At32(at, regs, <<>>, A32!None))
             = At32(to, regs, <<regs[a], regs[b], regs[A32!Pc]>>, A32!None)
<1> SUFFICES ASSUME NEW m, m = At32(at, regs, <<>>, A32!None)
             PROVE  A32!After(block, base, holds, m)
                   = At32(to, regs, <<regs[a], regs[b], regs[A32!Pc]>>, A32!None)
  OBVIOUS
<1>1. m.at = at /\ m.gone = A32!None /\ m.regs = regs /\ m.stack = <<>>
  BY DEF At32
<1>2. A32!After(block, base, holds, m) = A32!RunWord(block, base, holds, m)
  <2>1. at \in Nat /\ at < Len(block)
    BY DEF HasWord32
  <2>2. ~(m.at >= Len(block))
    BY <1>1, <2>1
  <2> QED BY <1>1, <2>2, WordRuns
<1>3. block[m.at + 1].op = "push" /\ ~(block[m.at + 1].cond = A32!Own /\ ~holds) /\ block[m.at + 1].n
      = {a, b, A32!Pc}
  BY <1>1 DEF HasWord32, A32!Word, A32!Push, A32!Pop, A32!Always, A32!Own
<1>4. A32!RunWord(block, base, holds, m) = A32!Pushed([m EXCEPT !.at = @ + 1], block[m.at + 1].n)
  BY <1>3 DEF A32!RunWord
<1>5. A32!Ordered({a, b, A32!Pc}) = <<a, b, A32!Pc>>
  BY OrderOfThree DEF InOrder32, IsReg32, A32!Registers, A32!Pc
<1> DEFINE step == [m EXCEPT !.at = @ + 1]
<1>6. step.regs = regs /\ step.stack = <<>> /\ step.at = to /\ step.gone = A32!None /\ step
      = At32(to, regs, <<>>, A32!None)
  BY <1>1 DEF At32, HasWord32
<1> HIDE DEF step
<1>7. A32!Pushed(step, {a, b, A32!Pc})
        = [step EXCEPT !.stack = [k \in DOMAIN <<a, b, A32!Pc>> |-> step.regs[<<a, b, A32!Pc>>[k]]] \o @]
  BY <1>5 DEF A32!Pushed
<1>8. [k \in DOMAIN <<a, b, A32!Pc>> |-> step.regs[<<a, b, A32!Pc>>[k]]] \o step.stack
      = <<regs[a], regs[b], regs[A32!Pc]>>
  BY <1>6, ListOfThree
<1>9. [step EXCEPT !.stack = <<regs[a], regs[b], regs[A32!Pc]>>]
      = At32(to, regs, <<regs[a], regs[b], regs[A32!Pc]>>, A32!None)
  BY <1>6 DEF At32
<1> QED BY <1>2, <1>3, <1>4, <1>7, <1>8, <1>9 DEF step

\* A register is popped,
LEMMA DoPopOne ==
    ASSUME NEW block, NEW base, NEW holds, NEW at, NEW to, NEW regs, NEW a, NEW x,
           NEW after, RestoredOne(after, regs, a, x), IsReg32(a),
           HasWord32(block, at, to, A32!Pop({a}))
    PROVE  A32!After(block, base, holds, At32(at, regs, <<x>>, A32!None))
             = At32(to, after, <<>>, A32!None)
<1> SUFFICES ASSUME NEW m, m = At32(at, regs, <<x>>, A32!None)
             PROVE  A32!After(block, base, holds, m) = At32(to, after, <<>>, A32!None)
  OBVIOUS
<1>1. m.at = at /\ m.gone = A32!None /\ m.regs = regs /\ m.stack = <<x>>
  BY DEF At32
<1>2. A32!After(block, base, holds, m) = A32!RunWord(block, base, holds, m)
  <2>1. at \in Nat /\ at < Len(block)
    BY DEF HasWord32
  <2>2. ~(m.at >= Len(block))
    BY <1>1, <2>1
  <2> QED BY <1>1, <2>2, WordRuns
<1>3. block[m.at + 1].op = "pop" /\ ~(block[m.at + 1].cond = A32!Own /\ ~holds) /\ block[m.at + 1].n = {a}
  BY <1>1 DEF HasWord32, A32!Word, A32!Push, A32!Pop, A32!Always, A32!Own
<1>4. A32!RunWord(block, base, holds, m) = A32!Popped([m EXCEPT !.at = @ + 1], block[m.at + 1].n)
  BY <1>3 DEF A32!RunWord
<1>5. A32!Ordered({a}) = <<a>>
  BY OrderOfOne DEF IsReg32, A32!Registers
<1> DEFINE step == [m EXCEPT !.at = @ + 1]
<1>6. /\ step.regs = regs /\ step.stack = <<x>> /\ step.at = to /\ step.gone = A32!None
      /\ step = At32(to, regs, <<x>>, A32!None)
  BY <1>1 DEF At32, HasWord32
<1> HIDE DEF step
<1> DEFINE WordOf(list, r) == step.stack[CHOOSE k \in DOMAIN list : list[k] = r]
           Taken(list) == [r \in A32!Registers |-> IF r \in {a} \ {A32!Pc} THEN WordOf(list, r) ELSE step.regs[r]]
           Then(list) == IF A32!Pc \in {a} THEN WordOf(list, A32!Pc) ELSE step.gone
           Rest(list) == SubSeq(step.stack, Len(list) + 1, Len(step.stack))
           Short(list) == [step EXCEPT !.stack = Rest(list)]
           Gone(list) == [Short(list) EXCEPT !.gone = Then(list)]
           Finally(list) == [Gone(list) EXCEPT !.regs = Taken(list)]
<1>7. A32!Popped(step, {a}) = Finally(A32!Ordered({a}))
  BY DEF A32!Popped
<1>8. WordOf(<<a>>, a) = x
  BY <1>6 DEF IsReg32, A32!Registers
<1>9. Rest(<<a>>) = <<>>
  BY <1>6
<1> HIDE DEF WordOf
<1>10. Taken(<<a>>) = after
  BY <1>6, <1>8 DEF IsReg32, A32!Registers, RestoredOne, RestoredTwo
<1>11. Then(<<a>>) = A32!None
  BY <1>6, <1>8 DEF IsReg32, A32!Registers
<1> HIDE DEF Taken, Then, Rest
<1>12. Short(<<a>>) = At32(to, regs, <<>>, A32!None)
  BY <1>6, <1>9 DEF At32
<1> HIDE DEF Short
<1>13. Gone(<<a>>) = At32(to, regs, <<>>, A32!None)
  BY <1>11, <1>12 DEF At32
<1> HIDE DEF Gone
<1>14. Finally(<<a>>) = At32(to, after, <<>>, A32!None)
  BY <1>10, <1>13 DEF At32
<1> HIDE DEF Finally
<1>15. A32!Popped(step, {a}) = At32(to, after, <<>>, A32!None)
  BY <1>5, <1>7, <1>14
<1> QED BY <1>2, <1>3, <1>4, <1>15 DEF step

\* or one and the pc, which leaves the block,
LEMMA DoPopTwo ==
    ASSUME NEW block, NEW base, NEW holds, NEW at, NEW to, NEW regs, NEW a, NEW x, NEW y,
           NEW after, RestoredOne(after, regs, a, x), IsReg32(a),
           HasWord32(block, at, to, A32!Pop({a, A32!Pc}))
    PROVE  A32!After(block, base, holds, At32(at, regs, <<x, y>>, A32!None))
             = At32(to, after, <<>>, y)
<1> SUFFICES ASSUME NEW m, m = At32(at, regs, <<x, y>>, A32!None)
             PROVE  A32!After(block, base, holds, m) = At32(to, after, <<>>, y)
  OBVIOUS
<1>1. m.at = at /\ m.gone = A32!None /\ m.regs = regs /\ m.stack = <<x, y>>
  BY DEF At32
<1>2. A32!After(block, base, holds, m) = A32!RunWord(block, base, holds, m)
  <2>1. at \in Nat /\ at < Len(block)
    BY DEF HasWord32
  <2>2. ~(m.at >= Len(block))
    BY <1>1, <2>1
  <2> QED BY <1>1, <2>2, WordRuns
<1>3. block[m.at + 1].op = "pop" /\ ~(block[m.at + 1].cond = A32!Own /\ ~holds) /\ block[m.at + 1].n = {a, A32!Pc}
  BY <1>1 DEF HasWord32, A32!Word, A32!Push, A32!Pop, A32!Always, A32!Own
<1>4. A32!RunWord(block, base, holds, m) = A32!Popped([m EXCEPT !.at = @ + 1], block[m.at + 1].n)
  BY <1>3 DEF A32!RunWord
<1>5. A32!Ordered({a, A32!Pc}) = <<a, A32!Pc>>
  BY OrderOfTwo DEF IsReg32, A32!Registers, A32!Pc
<1> DEFINE step == [m EXCEPT !.at = @ + 1]
<1>6. /\ step.regs = regs /\ step.stack = <<x, y>> /\ step.at = to /\ step.gone = A32!None
      /\ step = At32(to, regs, <<x, y>>, A32!None)
  BY <1>1 DEF At32, HasWord32
<1> HIDE DEF step
<1> DEFINE WordOf(list, r) == step.stack[CHOOSE k \in DOMAIN list : list[k] = r]
           Taken(list) == [r \in A32!Registers |-> IF r \in {a, A32!Pc} \ {A32!Pc} THEN WordOf(list, r) ELSE step.regs[r]]
           Then(list) == IF A32!Pc \in {a, A32!Pc} THEN WordOf(list, A32!Pc) ELSE step.gone
           Rest(list) == SubSeq(step.stack, Len(list) + 1, Len(step.stack))
           Short(list) == [step EXCEPT !.stack = Rest(list)]
           Gone(list) == [Short(list) EXCEPT !.gone = Then(list)]
           Finally(list) == [Gone(list) EXCEPT !.regs = Taken(list)]
<1>7. A32!Popped(step, {a, A32!Pc}) = Finally(A32!Ordered({a, A32!Pc}))
  BY DEF A32!Popped
<1>8. WordOf(<<a, A32!Pc>>, a) = x /\ WordOf(<<a, A32!Pc>>, A32!Pc) = y
  BY <1>6, PlaceOfTwo DEF IsReg32, A32!Registers, A32!Pc
<1>9. Rest(<<a, A32!Pc>>) = <<>>
  BY <1>6
<1> HIDE DEF WordOf
<1>10. Taken(<<a, A32!Pc>>) = after
  BY <1>6, <1>8 DEF IsReg32, A32!Registers, A32!Pc, RestoredOne, RestoredTwo
<1>11. Then(<<a, A32!Pc>>) = y
  BY <1>6, <1>8 DEF IsReg32, A32!Registers, A32!Pc
<1> HIDE DEF Taken, Then, Rest
<1>12. Short(<<a, A32!Pc>>) = At32(to, regs, <<>>, A32!None)
  BY <1>6, <1>9 DEF At32
<1> HIDE DEF Short
<1>13. Gone(<<a, A32!Pc>>) = At32(to, regs, <<>>, y)
  BY <1>11, <1>12 DEF At32
<1> HIDE DEF Gone
<1>14. Finally(<<a, A32!Pc>>) = At32(to, after, <<>>, y)
  BY <1>10, <1>13 DEF At32
<1> HIDE DEF Finally
<1>15. A32!Popped(step, {a, A32!Pc}) = At32(to, after, <<>>, y)
  BY <1>5, <1>7, <1>14
<1> QED BY <1>2, <1>3, <1>4, <1>15 DEF step

\* or two and the pc.
LEMMA DoPopThree ==
    ASSUME NEW block, NEW base, NEW holds, NEW at, NEW to, NEW regs, NEW a, NEW b, NEW x, NEW y, NEW z,
           NEW after, RestoredTwo(after, regs, a, x, b, y), InOrder32(a, b),
           HasWord32(block, at, to, A32!Pop({a, b, A32!Pc}))
    PROVE  A32!After(block, base, holds, At32(at, regs, <<x, y, z>>, A32!None))
             = At32(to, after, <<>>, z)
<1> SUFFICES ASSUME NEW m, m = At32(at, regs, <<x, y, z>>, A32!None)
             PROVE  A32!After(block, base, holds, m) = At32(to, after, <<>>, z)
  OBVIOUS
<1>1. m.at = at /\ m.gone = A32!None /\ m.regs = regs /\ m.stack = <<x, y, z>>
  BY DEF At32
<1>2. A32!After(block, base, holds, m) = A32!RunWord(block, base, holds, m)
  <2>1. at \in Nat /\ at < Len(block)
    BY DEF HasWord32
  <2>2. ~(m.at >= Len(block))
    BY <1>1, <2>1
  <2> QED BY <1>1, <2>2, WordRuns
<1>3. block[m.at + 1].op = "pop" /\ ~(block[m.at + 1].cond = A32!Own /\ ~holds) /\ block[m.at + 1].n
      = {a, b, A32!Pc}
  BY <1>1 DEF HasWord32, A32!Word, A32!Push, A32!Pop, A32!Always, A32!Own
<1>4. A32!RunWord(block, base, holds, m) = A32!Popped([m EXCEPT !.at = @ + 1], block[m.at + 1].n)
  BY <1>3 DEF A32!RunWord
<1>5. A32!Ordered({a, b, A32!Pc}) = <<a, b, A32!Pc>>
  BY OrderOfThree DEF InOrder32, IsReg32, A32!Registers, A32!Pc
<1> DEFINE step == [m EXCEPT !.at = @ + 1]
<1>6. /\ step.regs = regs /\ step.stack = <<x, y, z>> /\ step.at = to /\ step.gone = A32!None
      /\ step = At32(to, regs, <<x, y, z>>, A32!None)
  BY <1>1 DEF At32, HasWord32
<1> HIDE DEF step
<1> DEFINE WordOf(list, r) == step.stack[CHOOSE k \in DOMAIN list : list[k] = r]
           Taken(list) == [r \in A32!Registers |-> IF r \in {a, b, A32!Pc} \ {A32!Pc} THEN WordOf(list, r) ELSE step.regs[r]]
           Then(list) == IF A32!Pc \in {a, b, A32!Pc} THEN WordOf(list, A32!Pc) ELSE step.gone
           Rest(list) == SubSeq(step.stack, Len(list) + 1, Len(step.stack))
           Short(list) == [step EXCEPT !.stack = Rest(list)]
           Gone(list) == [Short(list) EXCEPT !.gone = Then(list)]
           Finally(list) == [Gone(list) EXCEPT !.regs = Taken(list)]
<1>7. A32!Popped(step, {a, b, A32!Pc}) = Finally(A32!Ordered({a, b, A32!Pc}))
  BY DEF A32!Popped
<1>8. WordOf(<<a, b, A32!Pc>>, a) = x /\ WordOf(<<a, b, A32!Pc>>, b) = y /\ WordOf(<<a, b, A32!Pc>>, A32!Pc) = z
  BY <1>6, PlaceOfThree DEF InOrder32, IsReg32, A32!Registers, A32!Pc
<1>9. Rest(<<a, b, A32!Pc>>) = <<>>
  BY <1>6
<1> HIDE DEF WordOf
<1>10. Taken(<<a, b, A32!Pc>>) = after
  BY <1>6, <1>8 DEF InOrder32, IsReg32, A32!Registers, A32!Pc, RestoredOne, RestoredTwo
<1>11. Then(<<a, b, A32!Pc>>) = z
  BY <1>6, <1>8 DEF InOrder32, IsReg32, A32!Registers, A32!Pc
<1> HIDE DEF Taken, Then, Rest
<1>12. Short(<<a, b, A32!Pc>>) = At32(to, regs, <<>>, A32!None)
  BY <1>6, <1>9 DEF At32
<1> HIDE DEF Short
<1>13. Gone(<<a, b, A32!Pc>>) = At32(to, regs, <<>>, z)
  BY <1>11, <1>12 DEF At32
<1> HIDE DEF Gone
<1>14. Finally(<<a, b, A32!Pc>>) = At32(to, after, <<>>, z)
  BY <1>10, <1>13 DEF At32
<1> HIDE DEF Finally
<1>15. A32!Popped(step, {a, b, A32!Pc}) = At32(to, after, <<>>, z)
  BY <1>5, <1>7, <1>14
<1> QED BY <1>2, <1>3, <1>4, <1>15 DEF step

\* Where it has left the block is over,
LEMMA LeftStays32 ==
    ASSUME NEW block, NEW base, NEW holds, NEW at, NEW regs, NEW stack, NEW gone, gone # A32!None
    PROVE  A32!After(block, base, holds, At32(at, regs, stack, gone)) = At32(at, regs, stack, gone)
<1> SUFFICES ASSUME NEW m, m = At32(at, regs, stack, gone), NEW w, w = A32!RunWord(block, base, holds, m)
             PROVE  A32!After(block, base, holds, m) = m
  OBVIOUS
<1>1. m.gone # A32!None
  BY DEF At32
<1>2. A32!After(block, base, holds, m) = IF m.gone # A32!None \/ m.at >= Len(block) THEN m ELSE w
  BY AfterIs
<1> QED BY <1>1, <1>2

\* as it is at its end.
LEMMA EndStays32 ==
    ASSUME NEW block, NEW base, NEW holds, NEW at, NEW regs, NEW stack, NEW gone, IsEnd(block, at)
    PROVE  A32!After(block, base, holds, At32(at, regs, stack, gone)) = At32(at, regs, stack, gone)
<1> SUFFICES ASSUME NEW m, m = At32(at, regs, stack, gone), NEW w, w = A32!RunWord(block, base, holds, m)
             PROVE  A32!After(block, base, holds, m) = m
  OBVIOUS
<1>1. m.at >= Len(block)
  BY DEF At32, IsEnd
<1>2. A32!After(block, base, holds, m) = IF m.gone # A32!None \/ m.at >= Len(block) THEN m ELSE w
  BY AfterIs
<1> QED BY <1>1, <1>2

\* What a block has done when it has left,
LEMMA BlockLeaves32 ==
    ASSUME NEW block, NEW base, NEW holds, NEW at, NEW regs, NEW gone, gone # A32!None,
           A32!States(block, base, holds)[9] = At32(at, regs, <<>>, gone),
           NEW final, Set32(final, regs, A32!Pc, gone)
    PROVE  A32!RunBlock(block, base, holds) = Outcome32(final)
<1> SUFFICES ASSUME NEW end, end = At32(at, regs, <<>>, gone), A32!States(block, base, holds)[9] = end
             PROVE  A32!RunBlock(block, base, holds) = Outcome32(final)
  OBVIOUS
<1>1. end.gone = gone /\ end.regs = regs /\ end.stack = <<>>
  BY DEF At32
<1> QED BY <1>1 DEF A32!RunBlock, Set32, Outcome32

\* and when it is at its end.
LEMMA BlockEnds32 ==
    ASSUME NEW block, NEW base, NEW holds, NEW at, NEW regs,
           A32!States(block, base, holds)[9] = At32(at, regs, <<>>, A32!None),
           NEW final, Set32(final, regs, A32!Pc, A32!Address(base + at))
    PROVE  A32!RunBlock(block, base, holds) = Outcome32(final)
<1> SUFFICES ASSUME NEW end, end = At32(at, regs, <<>>, A32!None), A32!States(block, base, holds)[9] = end
             PROVE  A32!RunBlock(block, base, holds) = Outcome32(final)
  OBVIOUS
<1>1. end.gone = A32!None /\ end.regs = regs /\ end.stack = <<>> /\ end.at = at
  BY DEF At32
<1> QED BY <1>1 DEF A32!RunBlock, Set32, Outcome32

(***************************************************************************)
(* Whole blocks                                                              *)
(***************************************************************************)
\* The registers are those at the start but for the pc and for rd, which has v,
Did32(regs, pc, rd, v) ==
    regs[A32!Pc] = pc /\ \A q \in A32!Registers \ {A32!Pc} : regs[q] = IF q = rd THEN v ELSE A32!Initial(q)

\* and the stack is as it was.
Ran32(block, base, holds, pc, rd, v) ==
    LET r == A32!RunBlock(block, base, holds)
    IN  r.stack = <<>> /\ Did32(r.regs, pc, rd, v)

\* The pc and the link register are registers, and differ.
LEMMA PcIs == A32!Pc \in A32!Registers /\ A32!Lr \in A32!Registers /\ A32!Lr # A32!Pc /\ IsReg32(0) /\ IsReg32(1)
BY DEF A32!Pc, A32!Lr, A32!Registers, IsReg32

\* Registers in order are two registers.
LEMMA InOrderIs == ASSUME NEW lo, NEW hi, InOrder32(lo, hi) PROVE IsReg32(lo) /\ IsReg32(hi) /\ lo # hi
BY DEF InOrder32, IsReg32, A32!Registers

\* At the start each register has its own initial value.
LEMMA StartIs == DOMAIN A32!AtStart = A32!Registers /\ \A q \in A32!Registers : A32!AtStart[q] = A32!Initial(q)
BY DEF A32!AtStart

\* What the registers are after one of them is set,
LEMMA SetIs ==
    ASSUME NEW new, NEW regs, NEW r, NEW v, DOMAIN regs = A32!Registers, r \in A32!Registers, Set32(new, regs, r,
           v)
    PROVE  DOMAIN new = A32!Registers /\ new[r] = v /\ \A q \in A32!Registers \ {r} : new[q] = regs[q]
<1> USE DEF Set32
<1>1. DOMAIN new = A32!Registers
  OBVIOUS
<1>2. new[r] = v
  OBVIOUS
<1>3. ASSUME NEW q \in A32!Registers \ {r} PROVE new[q] = regs[q]
  OBVIOUS
<1> QED BY <1>1, <1>2, <1>3

\* after one is popped,
LEMMA RestoredIs ==
    ASSUME NEW new, NEW regs, NEW a, NEW x, a \in A32!Registers, RestoredOne(new, regs, a, x)
    PROVE  DOMAIN new = A32!Registers /\ new[a] = x /\ \A q \in A32!Registers \ {a} : new[q] = regs[q]
<1> USE DEF RestoredOne
<1>1. DOMAIN new = A32!Registers
  OBVIOUS
<1>2. new[a] = x
  OBVIOUS
<1>3. ASSUME NEW q \in A32!Registers \ {a} PROVE new[q] = regs[q]
  OBVIOUS
<1> QED BY <1>1, <1>2, <1>3

\* and after two are.
LEMMA RestoredTwoIs ==
    ASSUME NEW new, NEW regs, NEW a, NEW x, NEW b, NEW y, a \in A32!Registers, b \in A32!Registers, a # b,
           RestoredTwo(new, regs, a, x, b, y)
    PROVE  /\ DOMAIN new = A32!Registers /\ new[a] = x /\ new[b] = y
           /\ \A q \in A32!Registers \ {a, b} : new[q] = regs[q]
<1> USE DEF RestoredTwo
<1>1. DOMAIN new = A32!Registers
  OBVIOUS
<1>2. new[a] = x /\ new[b] = y
  OBVIOUS
<1>3. ASSUME NEW q \in A32!Registers \ {a, b} PROVE new[q] = regs[q]
  OBVIOUS
<1> QED BY <1>1, <1>2, <1>3

\* A block has done what its outcome says.
LEMMA RanBy ==
    ASSUME NEW block, NEW base, NEW holds, NEW pc, NEW rd, NEW v, NEW final,
           A32!RunBlock(block, base, holds) = Outcome32(final), Did32(final, pc, rd, v)
    PROVE  Ran32(block, base, holds, pc, rd, v)
<1>1. Outcome32(final).stack = <<>> /\ Outcome32(final).regs = final
  BY DEF Outcome32
<1> QED BY <1>1 DEF Ran32

\* A word that always runs does.
LEMMA AlwaysRuns == ASSUME NEW holds PROVE Runs32(A32!Always, holds)
BY DEF Runs32, A32!Always, A32!Own

\* One with the condition of the instruction runs if that holds.
LEMMA OwnRuns == ASSUME NEW holds, Holds(holds) PROVE Runs32(A32!Own, holds)
BY DEF Runs32

\* What goes on is somewhere.
LEMMA SomeAddress == ASSUME NEW a PROVE A32!Address(a) # A32!None
BY DEF A32!Address, A32!None

\* A word of memory is somewhere,
LEMMA SomeMemory == ASSUME NEW a, NEW b PROVE A32!Memory(a, b) # A32!None
BY DEF A32!Memory, A32!None

\* and a sum is somewhere too.
LEMMA SomeSum == ASSUME NEW a, NEW b PROVE A32!Sum(a, b) # A32!None
BY DEF A32!Sum, A32!None

\* Words on the stack are replaced.
LEMMA StoreSecond ==
    ASSUME NEW a, NEW b, NEW v
    PROVE  Set32(<<a, v>>, <<a, b>>, 1 + 1, v)
BY DEF Set32

\* Of three words the last is replaced.
LEMMA StoreThird ==
    ASSUME NEW a, NEW b, NEW c, NEW v
    PROVE  Set32(<<a, b, v>>, <<a, b, c>>, 2 + 1, v)
BY DEF Set32

\* A block whose condition does not hold is passed.
LEMMA RunSkip32 ==
    ASSUME NEW block, NEW base \in Int, NEW holds,
           Fails(holds), Len(block) \in Nat, 2 <= Len(block), block[1].cond = A32!Own,
           block[2] = A32!Branch(A32!Always, Len(block) - 3)
    PROVE  Ran32(block, base, holds, A32!Address(base + Len(block)), A32!Pc, A32!None)
<1> SUFFICES ASSUME NEW final, Set32(final, A32!AtStart, A32!Pc, A32!Address(base + Len(block)))
             PROVE  Ran32(block, base, holds, A32!Address(base + Len(block)), A32!Pc, A32!None)
  BY DEF Set32, RestoredOne, RestoredTwo
<1>0. Set32(final, A32!AtStart, A32!Pc, A32!Address(base + Len(block)))
  OBVIOUS
<1>1. A32!Starting = At32(0, A32!AtStart, <<>>, A32!None)
  BY DEF A32!Starting, At32
<1>2. A32!After(block, base, holds, At32(0, A32!AtStart, <<>>, A32!None))
        = At32(1, A32!AtStart, <<>>, A32!None)
  <2>1. HasOwn32(block, 0, 1)
    BY DEF HasOwn32
  <2> QED BY <2>1, SkipWord
<1>3. A32!After(block, base, holds, At32(1, A32!AtStart, <<>>, A32!None))
        = At32(Len(block), A32!AtStart, <<>>, A32!None)
  <2>1. HasBranch32(block, 1, Len(block), A32!Always)
    BY DEF HasBranch32
  <2> QED BY <2>1, DoBranch32, AlwaysRuns
<1>4. A32!After(block, base, holds, At32(Len(block), A32!AtStart, <<>>, A32!None))
        = At32(Len(block), A32!AtStart, <<>>, A32!None)
  <2>1. IsEnd(block, Len(block))
    BY DEF IsEnd
  <2> QED BY <2>1, EndStays32
<1>5. A32!States(block, base, holds)[9] = At32(Len(block), A32!AtStart, <<>>, A32!None)
  <2> DEFINE m0 == At32(0, A32!AtStart, <<>>, A32!None)
             m1 == At32(1, A32!AtStart, <<>>, A32!None)
             m2 == At32(Len(block), A32!AtStart, <<>>, A32!None)
  <2>1. /\ A32!Starting = m0
        /\ A32!After(block, base, holds, m0) = m1
        /\ A32!After(block, base, holds, m1) = m2
        /\ A32!After(block, base, holds, m2) = m2
    BY ONLY <1>1, <1>2, <1>3, <1>4
  <2> HIDE DEF m0, m1, m2
  <2>2. A32!States(block, base, holds)[9] = m2
    BY ONLY <2>1, RunsNine
  <2> QED BY ONLY <2>2 DEF m2
<1>6. A32!RunBlock(block, base, holds) = Outcome32(final)
  BY ONLY <1>0, <1>5, BlockEnds32, Zenon
<1>7. Did32(final, A32!Address(base + Len(block)), A32!Pc, A32!None)
  <2>0. A32!Pc \in A32!Registers /\ A32!Lr \in A32!Registers /\ A32!Lr # A32!Pc
    BY PcIs DEF IsReg32
  <2>1. DOMAIN A32!AtStart = A32!Registers /\ \A q \in A32!Registers : A32!AtStart[q] = A32!Initial(q)
    BY StartIs
  <2>2. DOMAIN final = A32!Registers /\ final[A32!Pc] = A32!Address(base + Len(block))
        /\ \A q \in A32!Registers \ {A32!Pc} : final[q] = A32!AtStart[q]
    BY <2>0, <2>1, SetIs
  <2> QED BY <2>0, <2>1, <2>2 DEF Did32
<1> QED BY <1>6, <1>7, RanBy

\* An instruction that the code leaves alone
LEMMA RunIgnored32 ==
    ASSUME NEW block, NEW base \in Int, NEW holds,
           Len(block) = 1, block[1] = A32!Word("inst", A32!Always, 0, 0, 0, 0)
    PROVE  Ran32(block, base, holds, A32!Address(base + 1), A32!Pc, A32!None)
<1> SUFFICES ASSUME NEW final, Set32(final, A32!AtStart, A32!Pc, A32!Address(base + 1))
             PROVE  Ran32(block, base, holds, A32!Address(base + 1), A32!Pc, A32!None)
  BY DEF Set32, RestoredOne, RestoredTwo
<1>0. Set32(final, A32!AtStart, A32!Pc, A32!Address(base + 1))
  OBVIOUS
<1>1. A32!Starting = At32(0, A32!AtStart, <<>>, A32!None)
  BY DEF A32!Starting, At32
<1>2. A32!After(block, base, holds, At32(0, A32!AtStart, <<>>, A32!None))
        = At32(1, A32!AtStart, <<>>, A32!None)
  <2>1. HasWord32(block, 0, 1, A32!Word("inst", A32!Always, 0, 0, 0, 0))
    BY DEF HasWord32
  <2> QED BY <2>1, DoInst32
<1>3. A32!After(block, base, holds, At32(1, A32!AtStart, <<>>, A32!None))
        = At32(1, A32!AtStart, <<>>, A32!None)
  <2>1. IsEnd(block, 1)
    BY DEF IsEnd
  <2> QED BY <2>1, EndStays32
<1>4. A32!States(block, base, holds)[9] = At32(1, A32!AtStart, <<>>, A32!None)
  <2> DEFINE m0 == At32(0, A32!AtStart, <<>>, A32!None)
             m1 == At32(1, A32!AtStart, <<>>, A32!None)
  <2>1. /\ A32!Starting = m0
        /\ A32!After(block, base, holds, m0) = m1
        /\ A32!After(block, base, holds, m1) = m1
    BY ONLY <1>1, <1>2, <1>3
  <2> HIDE DEF m0, m1
  <2>2. A32!States(block, base, holds)[9] = m1
    BY ONLY <2>1, RunsNine
  <2> QED BY ONLY <2>2 DEF m1
<1>5. A32!RunBlock(block, base, holds) = Outcome32(final)
  BY ONLY <1>0, <1>4, BlockEnds32, Zenon
<1>6. Did32(final, A32!Address(base + 1), A32!Pc, A32!None)
  <2>0. A32!Pc \in A32!Registers /\ A32!Lr \in A32!Registers /\ A32!Lr # A32!Pc
    BY PcIs DEF IsReg32
  <2>1. DOMAIN A32!AtStart = A32!Registers /\ \A q \in A32!Registers : A32!AtStart[q] = A32!Initial(q)
    BY StartIs
  <2>2. DOMAIN final = A32!Registers /\ final[A32!Pc] = A32!Address(base + 1)
        /\ \A q \in A32!Registers \ {A32!Pc} : final[q] = A32!AtStart[q]
    BY <2>0, <2>1, SetIs
  <2> QED BY <2>0, <2>1, <2>2 DEF Did32
<1> QED BY <1>5, <1>6, RanBy

\* B, BX PC, and ADR or MOV into the pc
LEMMA RunGoto32 ==
    ASSUME NEW block, NEW base \in Int, NEW holds, NEW a,
           Holds(holds), Len(block) = 3, block[1] = A32!Literal(A32!Own, A32!Pc, 0), block[3] = A32!Data(A32!Address(a))
    PROVE  Ran32(block, base, holds, A32!Address(a), A32!Pc, A32!None)
<1> SUFFICES ASSUME NEW final, Set32(final, A32!AtStart, A32!Pc, A32!Address(a))
             PROVE  Ran32(block, base, holds, A32!Address(a), A32!Pc, A32!None)
  BY DEF Set32, RestoredOne, RestoredTwo
<1>0. Set32(final, A32!AtStart, A32!Pc, A32!Address(a))
  OBVIOUS
<1>1. A32!Starting = At32(0, A32!AtStart, <<>>, A32!None)
  BY DEF A32!Starting, At32
<1>2. A32!After(block, base, holds, At32(0, A32!AtStart, <<>>, A32!None))
        = At32(1, A32!AtStart, <<>>, A32!Address(a))
  <2>1. HasLiteral32(block, 0, 1, A32!Own, A32!Pc, 0, A32!Address(a))
    BY DEF HasLiteral32, HasWord32
  <2> QED BY <2>1, DoLiteralPc, OwnRuns
<1>3. A32!Address(a) # A32!None
  BY SomeAddress
<1>4. A32!After(block, base, holds, At32(1, A32!AtStart, <<>>, A32!Address(a)))
        = At32(1, A32!AtStart, <<>>, A32!Address(a))
  BY <1>3, LeftStays32
<1>5. A32!States(block, base, holds)[9] = At32(1, A32!AtStart, <<>>, A32!Address(a))
  <2> DEFINE m0 == At32(0, A32!AtStart, <<>>, A32!None)
             m1 == At32(1, A32!AtStart, <<>>, A32!Address(a))
  <2>1. /\ A32!Starting = m0
        /\ A32!After(block, base, holds, m0) = m1
        /\ A32!After(block, base, holds, m1) = m1
    BY ONLY <1>1, <1>2, <1>4
  <2> HIDE DEF m0, m1
  <2>2. A32!States(block, base, holds)[9] = m1
    BY ONLY <2>1, RunsNine
  <2> QED BY ONLY <2>2 DEF m1
<1>6. A32!RunBlock(block, base, holds) = Outcome32(final)
  BY ONLY <1>0, <1>3, <1>5, BlockLeaves32
<1>7. Did32(final, A32!Address(a), A32!Pc, A32!None)
  <2>0. A32!Pc \in A32!Registers /\ A32!Lr \in A32!Registers /\ A32!Lr # A32!Pc
    BY PcIs DEF IsReg32
  <2>1. DOMAIN A32!AtStart = A32!Registers /\ \A q \in A32!Registers : A32!AtStart[q] = A32!Initial(q)
    BY StartIs
  <2>2. DOMAIN final = A32!Registers /\ final[A32!Pc] = A32!Address(a)
        /\ \A q \in A32!Registers \ {A32!Pc} : final[q] = A32!AtStart[q]
    BY <2>0, <2>1, SetIs
  <2> QED BY <2>0, <2>1, <2>2 DEF Did32
<1> QED BY <1>6, <1>7, RanBy

\* ADR
LEMMA RunAdr32 ==
    ASSUME NEW block, NEW base \in Int, NEW holds, NEW a, NEW rd,
           Holds(holds), IsReg32(rd), Len(block) = 3,
           block[1] = A32!Literal(A32!Own, rd, 0), block[2] = A32!Branch(A32!Always, 0), block[3] = A32!Data(A32!Address(a))
    PROVE  Ran32(block, base, holds, A32!Address(base + 3), rd, A32!Address(a))
<1> SUFFICES ASSUME NEW r1, Set32(r1, A32!AtStart, rd, A32!Address(a)),
                    NEW final, Set32(final, r1, A32!Pc, A32!Address(base + 3))
             PROVE  Ran32(block, base, holds, A32!Address(base + 3), rd, A32!Address(a))
  BY DEF Set32, RestoredOne, RestoredTwo
<1>0. Set32(final, r1, A32!Pc, A32!Address(base + 3))
  OBVIOUS
<1>1. A32!Starting = At32(0, A32!AtStart, <<>>, A32!None)
  BY DEF A32!Starting, At32
<1>2. A32!After(block, base, holds, At32(0, A32!AtStart, <<>>, A32!None))
        = At32(1, r1, <<>>, A32!None)
  <2>1. HasLiteral32(block, 0, 1, A32!Own, rd, 0, A32!Address(a))
    BY DEF HasLiteral32, HasWord32
  <2> QED BY <2>1, DoLiteral32, OwnRuns
<1>3. A32!After(block, base, holds, At32(1, r1, <<>>, A32!None))
        = At32(3, r1, <<>>, A32!None)
  <2>1. HasBranch32(block, 1, 3, A32!Always)
    BY DEF HasBranch32
  <2> QED BY <2>1, DoBranch32, AlwaysRuns
<1>4. A32!After(block, base, holds, At32(3, r1, <<>>, A32!None))
        = At32(3, r1, <<>>, A32!None)
  <2>1. IsEnd(block, 3)
    BY DEF IsEnd
  <2> QED BY <2>1, EndStays32
<1>5. A32!States(block, base, holds)[9] = At32(3, r1, <<>>, A32!None)
  <2> DEFINE m0 == At32(0, A32!AtStart, <<>>, A32!None)
             m1 == At32(1, r1, <<>>, A32!None)
             m2 == At32(3, r1, <<>>, A32!None)
  <2>1. /\ A32!Starting = m0
        /\ A32!After(block, base, holds, m0) = m1
        /\ A32!After(block, base, holds, m1) = m2
        /\ A32!After(block, base, holds, m2) = m2
    BY ONLY <1>1, <1>2, <1>3, <1>4
  <2> HIDE DEF m0, m1, m2
  <2>2. A32!States(block, base, holds)[9] = m2
    BY ONLY <2>1, RunsNine
  <2> QED BY ONLY <2>2 DEF m2
<1>6. A32!RunBlock(block, base, holds) = Outcome32(final)
  BY ONLY <1>0, <1>5, BlockEnds32, Zenon
<1>7. Did32(final, A32!Address(base + 3), rd, A32!Address(a))
  <2>0. rd \in A32!Registers /\ rd # A32!Pc /\ A32!Pc \in A32!Registers /\ A32!Lr \in A32!Registers
        /\ A32!Lr # A32!Pc
    BY PcIs DEF IsReg32
  <2>1. DOMAIN A32!AtStart = A32!Registers /\ \A q \in A32!Registers : A32!AtStart[q] = A32!Initial(q)
    BY StartIs
  <2>2. DOMAIN r1 = A32!Registers /\ r1[rd] = A32!Address(a) /\ \A q \in A32!Registers \ {rd} : r1[q]
        = A32!AtStart[q]
    BY <2>0, <2>1, SetIs
  <2>3. DOMAIN final = A32!Registers /\ final[A32!Pc] = A32!Address(base + 3)
        /\ \A q \in A32!Registers \ {A32!Pc} : final[q] = r1[q]
    BY <2>0, <2>2, SetIs
  <2> QED BY <2>0, <2>1, <2>2, <2>3 DEF Did32
<1> QED BY <1>6, <1>7, RanBy

\* BL and BLX that call
LEMMA RunCall32 ==
    ASSUME NEW block, NEW base \in Int, NEW holds, NEW v, v # A32!None, NEW cond,
           Runs32(cond, holds), Len(block) = 4,
           block[1] = A32!Word("add_pc", cond, A32!Lr, 0, 0, 2), block[2]
                 = A32!Literal(cond, A32!Pc, 0), block[4] = A32!Data(v)
    PROVE  Ran32(block, base, holds, v, A32!Lr, A32!Address(base + 4))
<1> SUFFICES ASSUME NEW r1, Set32(r1, A32!AtStart, A32!Lr, A32!Address(base + 4)),
                    NEW final, Set32(final, r1, A32!Pc, v)
             PROVE  Ran32(block, base, holds, v, A32!Lr, A32!Address(base + 4))
  BY DEF Set32, RestoredOne, RestoredTwo
<1>0. Set32(final, r1, A32!Pc, v)
  OBVIOUS
<1>1. A32!Starting = At32(0, A32!AtStart, <<>>, A32!None)
  BY DEF A32!Starting, At32
<1>2. A32!After(block, base, holds, At32(0, A32!AtStart, <<>>, A32!None))
        = At32(1, r1, <<>>, A32!None)
  <2>1. HasLink32(block, base, 0, 1, cond, base + 4)
    BY DEF HasLink32, HasWord32
  <2> QED BY <2>1, DoLink32
<1>3. A32!After(block, base, holds, At32(1, r1, <<>>, A32!None))
        = At32(2, r1, <<>>, v)
  <2>1. HasLiteral32(block, 1, 2, cond, A32!Pc, 0, v)
    BY DEF HasLiteral32, HasWord32
  <2> QED BY <2>1, DoLiteralPc
<1>4. v # A32!None
  OBVIOUS
<1>5. A32!After(block, base, holds, At32(2, r1, <<>>, v))
        = At32(2, r1, <<>>, v)
  BY <1>4, LeftStays32
<1>6. A32!States(block, base, holds)[9] = At32(2, r1, <<>>, v)
  <2> DEFINE m0 == At32(0, A32!AtStart, <<>>, A32!None)
             m1 == At32(1, r1, <<>>, A32!None)
             m2 == At32(2, r1, <<>>, v)
  <2>1. /\ A32!Starting = m0
        /\ A32!After(block, base, holds, m0) = m1
        /\ A32!After(block, base, holds, m1) = m2
        /\ A32!After(block, base, holds, m2) = m2
    BY ONLY <1>1, <1>2, <1>3, <1>5
  <2> HIDE DEF m0, m1, m2
  <2>2. A32!States(block, base, holds)[9] = m2
    BY ONLY <2>1, RunsNine
  <2> QED BY ONLY <2>2 DEF m2
<1>7. A32!RunBlock(block, base, holds) = Outcome32(final)
  BY ONLY <1>0, <1>4, <1>6, BlockLeaves32
<1>8. Did32(final, v, A32!Lr, A32!Address(base + 4))
  <2>0. A32!Pc \in A32!Registers /\ A32!Lr \in A32!Registers /\ A32!Lr # A32!Pc
    BY PcIs DEF IsReg32
  <2>1. DOMAIN A32!AtStart = A32!Registers /\ \A q \in A32!Registers : A32!AtStart[q] = A32!Initial(q)
    BY StartIs
  <2>2. DOMAIN r1 = A32!Registers /\ r1[A32!Lr] = A32!Address(base + 4)
        /\ \A q \in A32!Registers \ {A32!Lr} : r1[q] = A32!AtStart[q]
    BY <2>0, <2>1, SetIs
  <2>3. DOMAIN final = A32!Registers /\ final[A32!Pc] = v
        /\ \A q \in A32!Registers \ {A32!Pc} : final[q] = r1[q]
    BY <2>0, <2>2, SetIs
  <2> QED BY <2>0, <2>1, <2>2, <2>3 DEF Did32
<1> QED BY <1>7, <1>8, RanBy

\* BL that does not
LEMMA RunNoCall32 ==
    ASSUME NEW block, NEW base \in Int, NEW holds,
           Fails(holds), Len(block) = 4,
           block[1].cond = A32!Own, block[2].cond = A32!Own, block[3] = A32!Branch(A32!Always, 0)
    PROVE  Ran32(block, base, holds, A32!Address(base + 4), A32!Pc, A32!None)
<1> SUFFICES ASSUME NEW final, Set32(final, A32!AtStart, A32!Pc, A32!Address(base + 4))
             PROVE  Ran32(block, base, holds, A32!Address(base + 4), A32!Pc, A32!None)
  BY DEF Set32, RestoredOne, RestoredTwo
<1>0. Set32(final, A32!AtStart, A32!Pc, A32!Address(base + 4))
  OBVIOUS
<1>1. A32!Starting = At32(0, A32!AtStart, <<>>, A32!None)
  BY DEF A32!Starting, At32
<1>2. A32!After(block, base, holds, At32(0, A32!AtStart, <<>>, A32!None))
        = At32(1, A32!AtStart, <<>>, A32!None)
  <2>1. HasOwn32(block, 0, 1)
    BY DEF HasOwn32
  <2> QED BY <2>1, SkipWord
<1>3. A32!After(block, base, holds, At32(1, A32!AtStart, <<>>, A32!None))
        = At32(2, A32!AtStart, <<>>, A32!None)
  <2>1. HasOwn32(block, 1, 2)
    BY DEF HasOwn32
  <2> QED BY <2>1, SkipWord
<1>4. A32!After(block, base, holds, At32(2, A32!AtStart, <<>>, A32!None))
        = At32(4, A32!AtStart, <<>>, A32!None)
  <2>1. HasBranch32(block, 2, 4, A32!Always)
    BY DEF HasBranch32
  <2> QED BY <2>1, DoBranch32, AlwaysRuns
<1>5. A32!After(block, base, holds, At32(4, A32!AtStart, <<>>, A32!None))
        = At32(4, A32!AtStart, <<>>, A32!None)
  <2>1. IsEnd(block, 4)
    BY DEF IsEnd
  <2> QED BY <2>1, EndStays32
<1>6. A32!States(block, base, holds)[9] = At32(4, A32!AtStart, <<>>, A32!None)
  <2> DEFINE m0 == At32(0, A32!AtStart, <<>>, A32!None)
             m1 == At32(1, A32!AtStart, <<>>, A32!None)
             m2 == At32(2, A32!AtStart, <<>>, A32!None)
             m3 == At32(4, A32!AtStart, <<>>, A32!None)
  <2>1. /\ A32!Starting = m0
        /\ A32!After(block, base, holds, m0) = m1
        /\ A32!After(block, base, holds, m1) = m2
        /\ A32!After(block, base, holds, m2) = m3
        /\ A32!After(block, base, holds, m3) = m3
    BY ONLY <1>1, <1>2, <1>3, <1>4, <1>5
  <2> HIDE DEF m0, m1, m2, m3
  <2>2. A32!States(block, base, holds)[9] = m3
    BY ONLY <2>1, RunsNine
  <2> QED BY ONLY <2>2 DEF m3
<1>7. A32!RunBlock(block, base, holds) = Outcome32(final)
  BY ONLY <1>0, <1>6, BlockEnds32, Zenon
<1>8. Did32(final, A32!Address(base + 4), A32!Pc, A32!None)
  <2>0. A32!Pc \in A32!Registers /\ A32!Lr \in A32!Registers /\ A32!Lr # A32!Pc
    BY PcIs DEF IsReg32
  <2>1. DOMAIN A32!AtStart = A32!Registers /\ \A q \in A32!Registers : A32!AtStart[q] = A32!Initial(q)
    BY StartIs
  <2>2. DOMAIN final = A32!Registers /\ final[A32!Pc] = A32!Address(base + 4)
        /\ \A q \in A32!Registers \ {A32!Pc} : final[q] = A32!AtStart[q]
    BY <2>0, <2>1, SetIs
  <2> QED BY <2>0, <2>1, <2>2 DEF Did32
<1> QED BY <1>7, <1>8, RanBy

\* ADD and SUB
LEMMA RunCompute32 ==
    ASSUME NEW block, NEW base \in Int, NEW holds, NEW a, NEW rd, NEW rn, NEW rm, NEW x, NEW v, NEW r1,
           Holds(holds), Len(block) = 8, block[1] = A32!Branch(A32!Own, 0),
           IsReg32(rd), IsReg32(x), x # rd,
           block[3] = A32!Push({x}), block[4] = A32!Literal(A32!Always, x, 2), block[5] = A32!Compute(rd, rn, rm),
           block[6] = A32!Pop({x}), block[7] = A32!Branch(A32!Always, 0), block[8] = A32!Data(A32!Address(a)),
           Set32(r1, A32!AtStart, x, A32!Address(a)), v = A32!Sum(r1[rn], r1[rm])
    PROVE  Ran32(block, base, holds, A32!Address(base + 8), rd, v)
<1> SUFFICES ASSUME NEW r2, Set32(r2, r1, rd, A32!Sum(r1[rn], r1[rm])),
                    NEW r3, RestoredOne(r3, r2, x, A32!AtStart[x]),
                    NEW final, Set32(final, r3, A32!Pc, A32!Address(base + 8))
             PROVE  Ran32(block, base, holds, A32!Address(base + 8), rd, v)
  BY DEF Set32, RestoredOne, RestoredTwo
<1>0. Set32(final, r3, A32!Pc, A32!Address(base + 8))
  OBVIOUS
<1>1. A32!Starting = At32(0, A32!AtStart, <<>>, A32!None)
  BY DEF A32!Starting, At32
<1>2. A32!After(block, base, holds, At32(0, A32!AtStart, <<>>, A32!None))
        = At32(2, A32!AtStart, <<>>, A32!None)
  <2>1. HasBranch32(block, 0, 2, A32!Own)
    BY DEF HasBranch32
  <2> QED BY <2>1, DoBranch32, OwnRuns
<1>3. A32!After(block, base, holds, At32(2, A32!AtStart, <<>>, A32!None))
        = At32(3, A32!AtStart, <<A32!AtStart[x]>>, A32!None)
  <2>1. HasWord32(block, 2, 3, A32!Push({x}))
    BY DEF HasWord32
  <2> QED BY <2>1, DoPushOne
<1>4. A32!After(block, base, holds, At32(3, A32!AtStart, <<A32!AtStart[x]>>, A32!None))
        = At32(4, r1, <<A32!AtStart[x]>>, A32!None)
  <2>1. HasLiteral32(block, 3, 4, A32!Always, x, 2, A32!Address(a))
    BY DEF HasLiteral32, HasWord32
  <2> QED BY <2>1, DoLiteral32, AlwaysRuns
<1>5. A32!After(block, base, holds, At32(4, r1, <<A32!AtStart[x]>>, A32!None))
        = At32(5, r2, <<A32!AtStart[x]>>, A32!None)
  <2>1. HasWord32(block, 4, 5, A32!Compute(rd, rn, rm))
    BY DEF HasWord32
  <2> QED BY <2>1, DoCompute32
<1>6. A32!After(block, base, holds, At32(5, r2, <<A32!AtStart[x]>>, A32!None))
        = At32(6, r3, <<>>, A32!None)
  <2>1. HasWord32(block, 5, 6, A32!Pop({x}))
    BY DEF HasWord32
  <2> QED BY <2>1, DoPopOne
<1>7. A32!After(block, base, holds, At32(6, r3, <<>>, A32!None))
        = At32(8, r3, <<>>, A32!None)
  <2>1. HasBranch32(block, 6, 8, A32!Always)
    BY DEF HasBranch32
  <2> QED BY <2>1, DoBranch32, AlwaysRuns
<1>8. A32!After(block, base, holds, At32(8, r3, <<>>, A32!None))
        = At32(8, r3, <<>>, A32!None)
  <2>1. IsEnd(block, 8)
    BY DEF IsEnd
  <2> QED BY <2>1, EndStays32
<1>9. A32!States(block, base, holds)[9] = At32(8, r3, <<>>, A32!None)
  <2> DEFINE m0 == At32(0, A32!AtStart, <<>>, A32!None)
             m1 == At32(2, A32!AtStart, <<>>, A32!None)
             m2 == At32(3, A32!AtStart, <<A32!AtStart[x]>>, A32!None)
             m3 == At32(4, r1, <<A32!AtStart[x]>>, A32!None)
             m4 == At32(5, r2, <<A32!AtStart[x]>>, A32!None)
             m5 == At32(6, r3, <<>>, A32!None)
             m6 == At32(8, r3, <<>>, A32!None)
  <2>1. /\ A32!Starting = m0
        /\ A32!After(block, base, holds, m0) = m1
        /\ A32!After(block, base, holds, m1) = m2
        /\ A32!After(block, base, holds, m2) = m3
        /\ A32!After(block, base, holds, m3) = m4
        /\ A32!After(block, base, holds, m4) = m5
        /\ A32!After(block, base, holds, m5) = m6
        /\ A32!After(block, base, holds, m6) = m6
    BY ONLY <1>1, <1>2, <1>3, <1>4, <1>5, <1>6, <1>7, <1>8
  <2> HIDE DEF m0, m1, m2, m3, m4, m5, m6
  <2>2. A32!States(block, base, holds)[9] = m6
    BY ONLY <2>1, RunsNine
  <2> QED BY ONLY <2>2 DEF m6
<1>10. A32!RunBlock(block, base, holds) = Outcome32(final)
  BY ONLY <1>0, <1>9, BlockEnds32, Zenon
<1>11. Did32(final, A32!Address(base + 8), rd, v)
  <2>0. x \in A32!Registers /\ x # A32!Pc /\ rd \in A32!Registers /\ rd # A32!Pc /\ A32!Pc \in A32!Registers
        /\ A32!Lr \in A32!Registers /\ A32!Lr # A32!Pc
    BY PcIs DEF IsReg32
  <2>1. DOMAIN A32!AtStart = A32!Registers /\ \A q \in A32!Registers : A32!AtStart[q] = A32!Initial(q)
    BY StartIs
  <2>2. DOMAIN r1 = A32!Registers /\ r1[x] = A32!Address(a) /\ \A q \in A32!Registers \ {x} : r1[q]
        = A32!AtStart[q]
    BY <2>0, <2>1, SetIs
  <2>3. DOMAIN r2 = A32!Registers /\ r2[rd] = A32!Sum(r1[rn], r1[rm]) /\ \A q \in A32!Registers \ {rd} : r2[q]
        = r1[q]
    BY <2>0, <2>2, SetIs
  <2>4. DOMAIN r3 = A32!Registers /\ r3[x] = A32!AtStart[x] /\ \A q \in A32!Registers \ {x} : r3[q] = r2[q]
    BY <2>0, <2>3, RestoredIs
  <2>5. DOMAIN final = A32!Registers /\ final[A32!Pc] = A32!Address(base + 8)
        /\ \A q \in A32!Registers \ {A32!Pc} : final[q] = r3[q]
    BY <2>0, <2>4, SetIs
  <2> QED BY <2>0, <2>1, <2>2, <2>3, <2>4, <2>5 DEF Did32
<1> QED BY <1>10, <1>11, RanBy

\* MOV
LEMMA RunMove32 ==
    ASSUME NEW block, NEW base \in Int, NEW holds, NEW a, NEW rd, NEW x,
           Holds(holds), Len(block) = 8, block[1] = A32!Branch(A32!Own, 0),
           IsReg32(rd), IsReg32(x), x # rd,
           block[3] = A32!Push({x}), block[4] = A32!Literal(A32!Always, x, 2), block[5] = A32!Move(rd, x),
           block[6] = A32!Pop({x}), block[7] = A32!Branch(A32!Always, 0), block[8] = A32!Data(A32!Address(a))
    PROVE  Ran32(block, base, holds, A32!Address(base + 8), rd, A32!Address(a))
<1> SUFFICES ASSUME NEW r1, Set32(r1, A32!AtStart, x, A32!Address(a)),
                    NEW r2, Set32(r2, r1, rd, r1[x]),
                    NEW r3, RestoredOne(r3, r2, x, A32!AtStart[x]),
                    NEW final, Set32(final, r3, A32!Pc, A32!Address(base + 8))
             PROVE  Ran32(block, base, holds, A32!Address(base + 8), rd, A32!Address(a))
  BY DEF Set32, RestoredOne, RestoredTwo
<1>0. Set32(final, r3, A32!Pc, A32!Address(base + 8))
  OBVIOUS
<1>1. A32!Starting = At32(0, A32!AtStart, <<>>, A32!None)
  BY DEF A32!Starting, At32
<1>2. A32!After(block, base, holds, At32(0, A32!AtStart, <<>>, A32!None))
        = At32(2, A32!AtStart, <<>>, A32!None)
  <2>1. HasBranch32(block, 0, 2, A32!Own)
    BY DEF HasBranch32
  <2> QED BY <2>1, DoBranch32, OwnRuns
<1>3. A32!After(block, base, holds, At32(2, A32!AtStart, <<>>, A32!None))
        = At32(3, A32!AtStart, <<A32!AtStart[x]>>, A32!None)
  <2>1. HasWord32(block, 2, 3, A32!Push({x}))
    BY DEF HasWord32
  <2> QED BY <2>1, DoPushOne
<1>4. A32!After(block, base, holds, At32(3, A32!AtStart, <<A32!AtStart[x]>>, A32!None))
        = At32(4, r1, <<A32!AtStart[x]>>, A32!None)
  <2>1. HasLiteral32(block, 3, 4, A32!Always, x, 2, A32!Address(a))
    BY DEF HasLiteral32, HasWord32
  <2> QED BY <2>1, DoLiteral32, AlwaysRuns
<1>5. A32!After(block, base, holds, At32(4, r1, <<A32!AtStart[x]>>, A32!None))
        = At32(5, r2, <<A32!AtStart[x]>>, A32!None)
  <2>1. HasWord32(block, 4, 5, A32!Move(rd, x))
    BY DEF HasWord32
  <2> QED BY <2>1, DoMove32
<1>6. A32!After(block, base, holds, At32(5, r2, <<A32!AtStart[x]>>, A32!None))
        = At32(6, r3, <<>>, A32!None)
  <2>1. HasWord32(block, 5, 6, A32!Pop({x}))
    BY DEF HasWord32
  <2> QED BY <2>1, DoPopOne
<1>7. A32!After(block, base, holds, At32(6, r3, <<>>, A32!None))
        = At32(8, r3, <<>>, A32!None)
  <2>1. HasBranch32(block, 6, 8, A32!Always)
    BY DEF HasBranch32
  <2> QED BY <2>1, DoBranch32, AlwaysRuns
<1>8. A32!After(block, base, holds, At32(8, r3, <<>>, A32!None))
        = At32(8, r3, <<>>, A32!None)
  <2>1. IsEnd(block, 8)
    BY DEF IsEnd
  <2> QED BY <2>1, EndStays32
<1>9. A32!States(block, base, holds)[9] = At32(8, r3, <<>>, A32!None)
  <2> DEFINE m0 == At32(0, A32!AtStart, <<>>, A32!None)
             m1 == At32(2, A32!AtStart, <<>>, A32!None)
             m2 == At32(3, A32!AtStart, <<A32!AtStart[x]>>, A32!None)
             m3 == At32(4, r1, <<A32!AtStart[x]>>, A32!None)
             m4 == At32(5, r2, <<A32!AtStart[x]>>, A32!None)
             m5 == At32(6, r3, <<>>, A32!None)
             m6 == At32(8, r3, <<>>, A32!None)
  <2>1. /\ A32!Starting = m0
        /\ A32!After(block, base, holds, m0) = m1
        /\ A32!After(block, base, holds, m1) = m2
        /\ A32!After(block, base, holds, m2) = m3
        /\ A32!After(block, base, holds, m3) = m4
        /\ A32!After(block, base, holds, m4) = m5
        /\ A32!After(block, base, holds, m5) = m6
        /\ A32!After(block, base, holds, m6) = m6
    BY ONLY <1>1, <1>2, <1>3, <1>4, <1>5, <1>6, <1>7, <1>8
  <2> HIDE DEF m0, m1, m2, m3, m4, m5, m6
  <2>2. A32!States(block, base, holds)[9] = m6
    BY ONLY <2>1, RunsNine
  <2> QED BY ONLY <2>2 DEF m6
<1>10. A32!RunBlock(block, base, holds) = Outcome32(final)
  BY ONLY <1>0, <1>9, BlockEnds32, Zenon
<1>11. Did32(final, A32!Address(base + 8), rd, A32!Address(a))
  <2>0. x \in A32!Registers /\ x # A32!Pc /\ rd \in A32!Registers /\ rd # A32!Pc /\ A32!Pc \in A32!Registers
        /\ A32!Lr \in A32!Registers /\ A32!Lr # A32!Pc
    BY PcIs DEF IsReg32
  <2>1. DOMAIN A32!AtStart = A32!Registers /\ \A q \in A32!Registers : A32!AtStart[q] = A32!Initial(q)
    BY StartIs
  <2>2. DOMAIN r1 = A32!Registers /\ r1[x] = A32!Address(a) /\ \A q \in A32!Registers \ {x} : r1[q]
        = A32!AtStart[q]
    BY <2>0, <2>1, SetIs
  <2>3. DOMAIN r2 = A32!Registers /\ r2[rd] = r1[x] /\ \A q \in A32!Registers \ {rd} : r2[q] = r1[q]
    BY <2>0, <2>2, SetIs
  <2>4. DOMAIN r3 = A32!Registers /\ r3[x] = A32!AtStart[x] /\ \A q \in A32!Registers \ {x} : r3[q] = r2[q]
    BY <2>0, <2>3, RestoredIs
  <2>5. DOMAIN final = A32!Registers /\ final[A32!Pc] = A32!Address(base + 8)
        /\ \A q \in A32!Registers \ {A32!Pc} : final[q] = r3[q]
    BY <2>0, <2>4, SetIs
  <2> QED BY <2>0, <2>1, <2>2, <2>3, <2>4, <2>5 DEF Did32
<1> QED BY <1>10, <1>11, RanBy

\* LDR with a register
LEMMA RunLdrReg32 ==
    ASSUME NEW block, NEW base \in Int, NEW holds, NEW a, NEW rd, NEW rm, NEW x, NEW v, NEW r1,
           Holds(holds), Len(block) = 8, block[1] = A32!Branch(A32!Own, 0),
           IsReg32(rd), IsReg32(x), x # rd,
           block[3] = A32!Push({x}), block[4] = A32!Literal(A32!Always, x, 0), block[5] = A32!Branch(A32!Always,
           0),
           block[6] = A32!Data(A32!Address(a)), block[7] = A32!LoadReg(rd, x, rm), block[8] = A32!Pop({x}),
           Set32(r1, A32!AtStart, x, A32!Address(a)), v = A32!Memory(r1[x], r1[rm])
    PROVE  Ran32(block, base, holds, A32!Address(base + 8), rd, v)
<1> SUFFICES ASSUME NEW r2, Set32(r2, r1, rd, A32!Memory(r1[x], r1[rm])),
                    NEW r3, RestoredOne(r3, r2, x, A32!AtStart[x]),
                    NEW final, Set32(final, r3, A32!Pc, A32!Address(base + 8))
             PROVE  Ran32(block, base, holds, A32!Address(base + 8), rd, v)
  BY DEF Set32, RestoredOne, RestoredTwo
<1>0. Set32(final, r3, A32!Pc, A32!Address(base + 8))
  OBVIOUS
<1>1. A32!Starting = At32(0, A32!AtStart, <<>>, A32!None)
  BY DEF A32!Starting, At32
<1>2. A32!After(block, base, holds, At32(0, A32!AtStart, <<>>, A32!None))
        = At32(2, A32!AtStart, <<>>, A32!None)
  <2>1. HasBranch32(block, 0, 2, A32!Own)
    BY DEF HasBranch32
  <2> QED BY <2>1, DoBranch32, OwnRuns
<1>3. A32!After(block, base, holds, At32(2, A32!AtStart, <<>>, A32!None))
        = At32(3, A32!AtStart, <<A32!AtStart[x]>>, A32!None)
  <2>1. HasWord32(block, 2, 3, A32!Push({x}))
    BY DEF HasWord32
  <2> QED BY <2>1, DoPushOne
<1>4. A32!After(block, base, holds, At32(3, A32!AtStart, <<A32!AtStart[x]>>, A32!None))
        = At32(4, r1, <<A32!AtStart[x]>>, A32!None)
  <2>1. HasLiteral32(block, 3, 4, A32!Always, x, 0, A32!Address(a))
    BY DEF HasLiteral32, HasWord32
  <2> QED BY <2>1, DoLiteral32, AlwaysRuns
<1>5. A32!After(block, base, holds, At32(4, r1, <<A32!AtStart[x]>>, A32!None))
        = At32(6, r1, <<A32!AtStart[x]>>, A32!None)
  <2>1. HasBranch32(block, 4, 6, A32!Always)
    BY DEF HasBranch32
  <2> QED BY <2>1, DoBranch32, AlwaysRuns
<1>6. A32!After(block, base, holds, At32(6, r1, <<A32!AtStart[x]>>, A32!None))
        = At32(7, r2, <<A32!AtStart[x]>>, A32!None)
  <2>1. HasWord32(block, 6, 7, A32!LoadReg(rd, x, rm))
    BY DEF HasWord32
  <2> QED BY <2>1, DoLoadReg32
<1>7. A32!After(block, base, holds, At32(7, r2, <<A32!AtStart[x]>>, A32!None))
        = At32(8, r3, <<>>, A32!None)
  <2>1. HasWord32(block, 7, 8, A32!Pop({x}))
    BY DEF HasWord32
  <2> QED BY <2>1, DoPopOne
<1>8. A32!After(block, base, holds, At32(8, r3, <<>>, A32!None))
        = At32(8, r3, <<>>, A32!None)
  <2>1. IsEnd(block, 8)
    BY DEF IsEnd
  <2> QED BY <2>1, EndStays32
<1>9. A32!States(block, base, holds)[9] = At32(8, r3, <<>>, A32!None)
  <2> DEFINE m0 == At32(0, A32!AtStart, <<>>, A32!None)
             m1 == At32(2, A32!AtStart, <<>>, A32!None)
             m2 == At32(3, A32!AtStart, <<A32!AtStart[x]>>, A32!None)
             m3 == At32(4, r1, <<A32!AtStart[x]>>, A32!None)
             m4 == At32(6, r1, <<A32!AtStart[x]>>, A32!None)
             m5 == At32(7, r2, <<A32!AtStart[x]>>, A32!None)
             m6 == At32(8, r3, <<>>, A32!None)
  <2>1. /\ A32!Starting = m0
        /\ A32!After(block, base, holds, m0) = m1
        /\ A32!After(block, base, holds, m1) = m2
        /\ A32!After(block, base, holds, m2) = m3
        /\ A32!After(block, base, holds, m3) = m4
        /\ A32!After(block, base, holds, m4) = m5
        /\ A32!After(block, base, holds, m5) = m6
        /\ A32!After(block, base, holds, m6) = m6
    BY ONLY <1>1, <1>2, <1>3, <1>4, <1>5, <1>6, <1>7, <1>8
  <2> HIDE DEF m0, m1, m2, m3, m4, m5, m6
  <2>2. A32!States(block, base, holds)[9] = m6
    BY ONLY <2>1, RunsNine
  <2> QED BY ONLY <2>2 DEF m6
<1>10. A32!RunBlock(block, base, holds) = Outcome32(final)
  BY ONLY <1>0, <1>9, BlockEnds32, Zenon
<1>11. Did32(final, A32!Address(base + 8), rd, v)
  <2>0. x \in A32!Registers /\ x # A32!Pc /\ rd \in A32!Registers /\ rd # A32!Pc /\ A32!Pc \in A32!Registers
        /\ A32!Lr \in A32!Registers /\ A32!Lr # A32!Pc
    BY PcIs DEF IsReg32
  <2>1. DOMAIN A32!AtStart = A32!Registers /\ \A q \in A32!Registers : A32!AtStart[q] = A32!Initial(q)
    BY StartIs
  <2>2. DOMAIN r1 = A32!Registers /\ r1[x] = A32!Address(a) /\ \A q \in A32!Registers \ {x} : r1[q]
        = A32!AtStart[q]
    BY <2>0, <2>1, SetIs
  <2>3. DOMAIN r2 = A32!Registers /\ r2[rd] = A32!Memory(r1[x], r1[rm])
        /\ \A q \in A32!Registers \ {rd} : r2[q] = r1[q]
    BY <2>0, <2>2, SetIs
  <2>4. DOMAIN r3 = A32!Registers /\ r3[x] = A32!AtStart[x] /\ \A q \in A32!Registers \ {x} : r3[q] = r2[q]
    BY <2>0, <2>3, RestoredIs
  <2>5. DOMAIN final = A32!Registers /\ final[A32!Pc] = A32!Address(base + 8)
        /\ \A q \in A32!Registers \ {A32!Pc} : final[q] = r3[q]
    BY <2>0, <2>4, SetIs
  <2> QED BY <2>0, <2>1, <2>2, <2>3, <2>4, <2>5 DEF Did32
<1> QED BY <1>10, <1>11, RanBy

\* LDR of a literal
LEMMA RunLdrLit32 ==
    ASSUME NEW block, NEW base \in Int, NEW holds, NEW a, NEW rd,
           Holds(holds), Len(block) = 6, block[1] = A32!Branch(A32!Own, 0),
           IsReg32(rd), block[3] = A32!Literal(A32!Always, rd, 0), block[4] = A32!Branch(A32!Always, 0),
           block[5] = A32!Data(A32!Address(a)), block[6] = A32!Load(rd, rd)
    PROVE  Ran32(block, base, holds, A32!Address(base + 6), rd, A32!Memory(A32!Address(a), A32!None))
<1> SUFFICES ASSUME NEW r1, Set32(r1, A32!AtStart, rd, A32!Address(a)),
                    NEW r2, Set32(r2, r1, rd, A32!Memory(r1[rd], A32!None)),
                    NEW final, Set32(final, r2, A32!Pc, A32!Address(base + 6))
             PROVE  Ran32(block, base, holds, A32!Address(base + 6), rd, A32!Memory(A32!Address(a), A32!None))
  BY DEF Set32, RestoredOne, RestoredTwo
<1>0. Set32(final, r2, A32!Pc, A32!Address(base + 6))
  OBVIOUS
<1>1. A32!Starting = At32(0, A32!AtStart, <<>>, A32!None)
  BY DEF A32!Starting, At32
<1>2. A32!After(block, base, holds, At32(0, A32!AtStart, <<>>, A32!None))
        = At32(2, A32!AtStart, <<>>, A32!None)
  <2>1. HasBranch32(block, 0, 2, A32!Own)
    BY DEF HasBranch32
  <2> QED BY <2>1, DoBranch32, OwnRuns
<1>3. A32!After(block, base, holds, At32(2, A32!AtStart, <<>>, A32!None))
        = At32(3, r1, <<>>, A32!None)
  <2>1. HasLiteral32(block, 2, 3, A32!Always, rd, 0, A32!Address(a))
    BY DEF HasLiteral32, HasWord32
  <2> QED BY <2>1, DoLiteral32, AlwaysRuns
<1>4. A32!After(block, base, holds, At32(3, r1, <<>>, A32!None))
        = At32(5, r1, <<>>, A32!None)
  <2>1. HasBranch32(block, 3, 5, A32!Always)
    BY DEF HasBranch32
  <2> QED BY <2>1, DoBranch32, AlwaysRuns
<1>5. A32!After(block, base, holds, At32(5, r1, <<>>, A32!None))
        = At32(6, r2, <<>>, A32!None)
  <2>1. HasWord32(block, 5, 6, A32!Load(rd, rd))
    BY DEF HasWord32
  <2> QED BY <2>1, DoLoad32
<1>6. A32!After(block, base, holds, At32(6, r2, <<>>, A32!None))
        = At32(6, r2, <<>>, A32!None)
  <2>1. IsEnd(block, 6)
    BY DEF IsEnd
  <2> QED BY <2>1, EndStays32
<1>7. A32!States(block, base, holds)[9] = At32(6, r2, <<>>, A32!None)
  <2> DEFINE m0 == At32(0, A32!AtStart, <<>>, A32!None)
             m1 == At32(2, A32!AtStart, <<>>, A32!None)
             m2 == At32(3, r1, <<>>, A32!None)
             m3 == At32(5, r1, <<>>, A32!None)
             m4 == At32(6, r2, <<>>, A32!None)
  <2>1. /\ A32!Starting = m0
        /\ A32!After(block, base, holds, m0) = m1
        /\ A32!After(block, base, holds, m1) = m2
        /\ A32!After(block, base, holds, m2) = m3
        /\ A32!After(block, base, holds, m3) = m4
        /\ A32!After(block, base, holds, m4) = m4
    BY ONLY <1>1, <1>2, <1>3, <1>4, <1>5, <1>6
  <2> HIDE DEF m0, m1, m2, m3, m4
  <2>2. A32!States(block, base, holds)[9] = m4
    BY ONLY <2>1, RunsNine
  <2> QED BY ONLY <2>2 DEF m4
<1>8. A32!RunBlock(block, base, holds) = Outcome32(final)
  BY ONLY <1>0, <1>7, BlockEnds32, Zenon
<1>9. Did32(final, A32!Address(base + 6), rd, A32!Memory(A32!Address(a), A32!None))
  <2>0. rd \in A32!Registers /\ rd # A32!Pc /\ A32!Pc \in A32!Registers /\ A32!Lr \in A32!Registers
        /\ A32!Lr # A32!Pc
    BY PcIs DEF IsReg32
  <2>1. DOMAIN A32!AtStart = A32!Registers /\ \A q \in A32!Registers : A32!AtStart[q] = A32!Initial(q)
    BY StartIs
  <2>2. DOMAIN r1 = A32!Registers /\ r1[rd] = A32!Address(a) /\ \A q \in A32!Registers \ {rd} : r1[q]
        = A32!AtStart[q]
    BY <2>0, <2>1, SetIs
  <2>3. DOMAIN r2 = A32!Registers /\ r2[rd] = A32!Memory(r1[rd], A32!None)
        /\ \A q \in A32!Registers \ {rd} : r2[q] = r1[q]
    BY <2>0, <2>2, SetIs
  <2>4. DOMAIN final = A32!Registers /\ final[A32!Pc] = A32!Address(base + 6)
        /\ \A q \in A32!Registers \ {A32!Pc} : final[q] = r2[q]
    BY <2>0, <2>3, SetIs
  <2> QED BY <2>0, <2>1, <2>2, <2>3, <2>4 DEF Did32
<1> QED BY <1>8, <1>9, RanBy

\* and into the pc,
LEMMA RunLdrLitPc32 ==
    ASSUME NEW block, NEW base \in Int, NEW holds, NEW a, NEW v,
           Holds(holds), Len(block) = 9, block[1] = A32!Branch(A32!Own, 0),
           block[3] = A32!Push({0, 1}), block[4] = A32!Literal(A32!Always, 0, 0),
           block[5] = A32!Branch(A32!Always, 0),
           block[6] = A32!Data(A32!Address(a)), block[7] = A32!Load(0, 0), block[8] = A32!Store(0, 1), block[9] = A32!Pop({0,
           A32!Pc}),
           v = A32!Memory(A32!Address(a), A32!None)
    PROVE  Ran32(block, base, holds, v, A32!Pc, A32!None)
<1> SUFFICES ASSUME NEW r1, Set32(r1, A32!AtStart, 0, A32!Address(a)),
                    NEW r2, Set32(r2, r1, 0, A32!Memory(r1[0], A32!None)),
                    NEW r3, RestoredOne(r3, r2, 0, A32!AtStart[0]),
                    NEW final, Set32(final, r3, A32!Pc, v)
             PROVE  Ran32(block, base, holds, v, A32!Pc, A32!None)
  BY DEF Set32, RestoredOne, RestoredTwo
<1>0. Set32(final, r3, A32!Pc, v)
  OBVIOUS
<1>1. A32!Starting = At32(0, A32!AtStart, <<>>, A32!None)
  BY DEF A32!Starting, At32
<1>2. A32!After(block, base, holds, At32(0, A32!AtStart, <<>>, A32!None))
        = At32(2, A32!AtStart, <<>>, A32!None)
  <2>1. HasBranch32(block, 0, 2, A32!Own)
    BY DEF HasBranch32
  <2> QED BY <2>1, DoBranch32, OwnRuns
<1>3. A32!After(block, base, holds, At32(2, A32!AtStart, <<>>, A32!None))
        = At32(3, A32!AtStart, <<A32!AtStart[0], A32!AtStart[1]>>, A32!None)
  <2>1. InOrder32(0, 1) /\ HasWord32(block, 2, 3, A32!Push({0, 1}))
    BY DEF HasWord32, InOrder32, IsReg32, A32!Registers, A32!Pc
  <2> QED BY <2>1, DoPushTwo
<1>4. A32!After(block, base, holds, At32(3, A32!AtStart, <<A32!AtStart[0], A32!AtStart[1]>>, A32!None))
        = At32(4, r1, <<A32!AtStart[0], A32!AtStart[1]>>, A32!None)
  <2>1. IsReg32(0) /\ HasLiteral32(block, 3, 4, A32!Always, 0, 0, A32!Address(a))
    BY DEF HasLiteral32, HasWord32, IsReg32, A32!Registers, A32!Pc
  <2> QED BY <2>1, DoLiteral32, AlwaysRuns
<1>5. A32!After(block, base, holds, At32(4, r1, <<A32!AtStart[0], A32!AtStart[1]>>, A32!None))
        = At32(6, r1, <<A32!AtStart[0], A32!AtStart[1]>>, A32!None)
  <2>1. HasBranch32(block, 4, 6, A32!Always)
    BY DEF HasBranch32
  <2> QED BY <2>1, DoBranch32, AlwaysRuns
<1>6. A32!After(block, base, holds, At32(6, r1, <<A32!AtStart[0], A32!AtStart[1]>>, A32!None))
        = At32(7, r2, <<A32!AtStart[0], A32!AtStart[1]>>, A32!None)
  <2>1. IsReg32(0) /\ HasWord32(block, 6, 7, A32!Load(0, 0))
    BY DEF HasWord32, IsReg32, A32!Registers, A32!Pc
  <2> QED BY <2>1, DoLoad32
<1>7. A32!After(block, base, holds, At32(7, r2, <<A32!AtStart[0], A32!AtStart[1]>>, A32!None))
        = At32(8, r2, <<A32!AtStart[0], v>>, A32!None)
  <2>1. 1 \in Nat /\ HasWord32(block, 7, 8, A32!Store(0, 1))
    BY DEF HasWord32
  <2>2. r2[0] = v
    BY DEF Set32, A32!AtStart, A32!Registers
  <2>3. Set32(<<A32!AtStart[0], v>>, <<A32!AtStart[0], A32!AtStart[1]>>, 1 + 1, r2[0])
    BY <2>2, StoreSecond
  <2> QED BY <2>1, <2>2, <2>3, DoStore32
<1>8. A32!After(block, base, holds, At32(8, r2, <<A32!AtStart[0], v>>, A32!None))
        = At32(9, r3, <<>>, v)
  <2>1. IsReg32(0) /\ HasWord32(block, 8, 9, A32!Pop({0, A32!Pc}))
    BY DEF HasWord32, IsReg32, A32!Registers, A32!Pc
  <2> QED BY <2>1, DoPopTwo
<1>9. v # A32!None
  BY SomeMemory
<1>10. A32!After(block, base, holds, At32(9, r3, <<>>, v))
        = At32(9, r3, <<>>, v)
  BY <1>9, LeftStays32
<1>11. A32!States(block, base, holds)[9] = At32(9, r3, <<>>, v)
  <2> DEFINE m0 == At32(0, A32!AtStart, <<>>, A32!None)
             m1 == At32(2, A32!AtStart, <<>>, A32!None)
             m2 == At32(3, A32!AtStart, <<A32!AtStart[0], A32!AtStart[1]>>, A32!None)
             m3 == At32(4, r1, <<A32!AtStart[0], A32!AtStart[1]>>, A32!None)
             m4 == At32(6, r1, <<A32!AtStart[0], A32!AtStart[1]>>, A32!None)
             m5 == At32(7, r2, <<A32!AtStart[0], A32!AtStart[1]>>, A32!None)
             m6 == At32(8, r2, <<A32!AtStart[0], v>>, A32!None)
             m7 == At32(9, r3, <<>>, v)
  <2>1. /\ A32!Starting = m0
        /\ A32!After(block, base, holds, m0) = m1
        /\ A32!After(block, base, holds, m1) = m2
        /\ A32!After(block, base, holds, m2) = m3
        /\ A32!After(block, base, holds, m3) = m4
        /\ A32!After(block, base, holds, m4) = m5
        /\ A32!After(block, base, holds, m5) = m6
        /\ A32!After(block, base, holds, m6) = m7
        /\ A32!After(block, base, holds, m7) = m7
    BY ONLY <1>1, <1>2, <1>3, <1>4, <1>5, <1>6, <1>7, <1>8, <1>10
  <2> HIDE DEF m0, m1, m2, m3, m4, m5, m6, m7
  <2>2. A32!States(block, base, holds)[9] = m7
    BY ONLY <2>1, RunsNine
  <2> QED BY ONLY <2>2 DEF m7
<1>12. A32!RunBlock(block, base, holds) = Outcome32(final)
  BY ONLY <1>0, <1>9, <1>11, BlockLeaves32
<1>13. Did32(final, v, A32!Pc, A32!None)
  <2>0. A32!Pc \in A32!Registers /\ A32!Lr \in A32!Registers /\ A32!Lr # A32!Pc /\ 0 \in A32!Registers
        /\ 0 # A32!Pc
    BY PcIs DEF IsReg32
  <2>1. DOMAIN A32!AtStart = A32!Registers /\ \A q \in A32!Registers : A32!AtStart[q] = A32!Initial(q)
    BY StartIs
  <2>2. DOMAIN r1 = A32!Registers /\ r1[0] = A32!Address(a) /\ \A q \in A32!Registers \ {0} : r1[q]
        = A32!AtStart[q]
    BY <2>0, <2>1, SetIs
  <2>3. DOMAIN r2 = A32!Registers /\ r2[0] = A32!Memory(r1[0], A32!None)
        /\ \A q \in A32!Registers \ {0} : r2[q] = r1[q]
    BY <2>0, <2>2, SetIs
  <2>4. DOMAIN r3 = A32!Registers /\ r3[0] = A32!AtStart[0] /\ \A q \in A32!Registers \ {0} : r3[q] = r2[q]
    BY <2>0, <2>3, RestoredIs
  <2>5. DOMAIN final = A32!Registers /\ final[A32!Pc] = v /\ \A q \in A32!Registers \ {A32!Pc} : final[q] = r3[q]
    BY <2>0, <2>4, SetIs
  <2> QED BY <2>0, <2>1, <2>2, <2>3, <2>4, <2>5 DEF Did32
<1> QED BY <1>12, <1>13, RanBy

\* as are ADD
LEMMA RunComputePc32 ==
    ASSUME NEW block, NEW base \in Int, NEW holds, NEW a, NEW rn, NEW rm, NEW x, NEW y, NEW lo, NEW hi, NEW v,
           NEW r1,
           Holds(holds), Len(block) = 8, block[1] = A32!Branch(A32!Own, 0),
           InOrder32(lo, hi), (x = lo /\ y = hi) \/ (x = hi /\ y = lo),
           block[3] = A32!Push({lo, hi, A32!Pc}), block[4] = A32!Literal(A32!Always, x, 2),
           block[5] = A32!Compute(y, rn, rm),
           block[6] = A32!Store(y, 2), block[7] = A32!Pop({lo, hi, A32!Pc}), block[8] = A32!Data(A32!Address(a)),
           Set32(r1, A32!AtStart, x, A32!Address(a)), v = A32!Sum(r1[rn], r1[rm])
    PROVE  Ran32(block, base, holds, v, A32!Pc, A32!None)
<1> SUFFICES ASSUME NEW r2, Set32(r2, r1, y, A32!Sum(r1[rn], r1[rm])),
                    NEW r3, RestoredTwo(r3, r2, lo, A32!AtStart[lo], hi, A32!AtStart[hi]),
                    NEW final, Set32(final, r3, A32!Pc, v)
             PROVE  Ran32(block, base, holds, v, A32!Pc, A32!None)
  BY DEF Set32, RestoredOne, RestoredTwo
<1>0. Set32(final, r3, A32!Pc, v)
  OBVIOUS
<1>1. A32!Starting = At32(0, A32!AtStart, <<>>, A32!None)
  BY DEF A32!Starting, At32
<1>2. A32!After(block, base, holds, At32(0, A32!AtStart, <<>>, A32!None))
        = At32(2, A32!AtStart, <<>>, A32!None)
  <2>1. HasBranch32(block, 0, 2, A32!Own)
    BY DEF HasBranch32
  <2> QED BY <2>1, DoBranch32, OwnRuns
<1>3. A32!After(block, base, holds, At32(2, A32!AtStart, <<>>, A32!None))
        = At32(3, A32!AtStart, <<A32!AtStart[lo], A32!AtStart[hi], A32!AtStart[A32!Pc]>>, A32!None)
  <2>1. HasWord32(block, 2, 3, A32!Push({lo, hi, A32!Pc}))
    BY DEF HasWord32
  <2> QED BY <2>1, DoPushThree
<1>4. A32!After(block, base, holds, At32(3, A32!AtStart, <<A32!AtStart[lo], A32!AtStart[hi], A32!AtStart[A32!Pc]>>, A32!None))
        = At32(4, r1, <<A32!AtStart[lo], A32!AtStart[hi], A32!AtStart[A32!Pc]>>, A32!None)
  <2>1. IsReg32(x) /\ HasLiteral32(block, 3, 4, A32!Always, x, 2, A32!Address(a))
    BY DEF HasLiteral32, HasWord32, InOrder32
  <2> QED BY <2>1, DoLiteral32, AlwaysRuns
<1>5. A32!After(block, base, holds, At32(4, r1, <<A32!AtStart[lo], A32!AtStart[hi], A32!AtStart[A32!Pc]>>, A32!None))
        = At32(5, r2, <<A32!AtStart[lo], A32!AtStart[hi], A32!AtStart[A32!Pc]>>, A32!None)
  <2>1. IsReg32(y) /\ HasWord32(block, 4, 5, A32!Compute(y, rn, rm))
    BY DEF HasWord32, InOrder32
  <2> QED BY <2>1, DoCompute32
<1>6. A32!After(block, base, holds, At32(5, r2, <<A32!AtStart[lo], A32!AtStart[hi], A32!AtStart[A32!Pc]>>, A32!None))
        = At32(6, r2, <<A32!AtStart[lo], A32!AtStart[hi], v>>, A32!None)
  <2>1. 2 \in Nat /\ HasWord32(block, 5, 6, A32!Store(y, 2))
    BY DEF HasWord32
  <2>2. r2[y] = v
    BY DEF Set32, A32!AtStart, A32!Registers, InOrder32, IsReg32
  <2>3. Set32(<<A32!AtStart[lo], A32!AtStart[hi], v>>, <<A32!AtStart[lo], A32!AtStart[hi], A32!AtStart[A32!Pc]>>, 2 + 1, r2[y])
    BY <2>2, StoreThird
  <2> QED BY <2>1, <2>2, <2>3, DoStore32
<1>7. A32!After(block, base, holds, At32(6, r2, <<A32!AtStart[lo], A32!AtStart[hi], v>>, A32!None))
        = At32(7, r3, <<>>, v)
  <2>1. HasWord32(block, 6, 7, A32!Pop({lo, hi, A32!Pc}))
    BY DEF HasWord32
  <2> QED BY <2>1, DoPopThree
<1>8. v # A32!None
  BY SomeSum
<1>9. A32!After(block, base, holds, At32(7, r3, <<>>, v))
        = At32(7, r3, <<>>, v)
  BY <1>8, LeftStays32
<1>10. A32!States(block, base, holds)[9] = At32(7, r3, <<>>, v)
  <2> DEFINE m0 == At32(0, A32!AtStart, <<>>, A32!None)
             m1 == At32(2, A32!AtStart, <<>>, A32!None)
             m2 == At32(3, A32!AtStart, <<A32!AtStart[lo], A32!AtStart[hi], A32!AtStart[A32!Pc]>>, A32!None)
             m3 == At32(4, r1, <<A32!AtStart[lo], A32!AtStart[hi], A32!AtStart[A32!Pc]>>, A32!None)
             m4 == At32(5, r2, <<A32!AtStart[lo], A32!AtStart[hi], A32!AtStart[A32!Pc]>>, A32!None)
             m5 == At32(6, r2, <<A32!AtStart[lo], A32!AtStart[hi], v>>, A32!None)
             m6 == At32(7, r3, <<>>, v)
  <2>1. /\ A32!Starting = m0
        /\ A32!After(block, base, holds, m0) = m1
        /\ A32!After(block, base, holds, m1) = m2
        /\ A32!After(block, base, holds, m2) = m3
        /\ A32!After(block, base, holds, m3) = m4
        /\ A32!After(block, base, holds, m4) = m5
        /\ A32!After(block, base, holds, m5) = m6
        /\ A32!After(block, base, holds, m6) = m6
    BY ONLY <1>1, <1>2, <1>3, <1>4, <1>5, <1>6, <1>7, <1>9
  <2> HIDE DEF m0, m1, m2, m3, m4, m5, m6
  <2>2. A32!States(block, base, holds)[9] = m6
    BY ONLY <2>1, RunsNine
  <2> QED BY ONLY <2>2 DEF m6
<1>11. A32!RunBlock(block, base, holds) = Outcome32(final)
  BY ONLY <1>0, <1>8, <1>10, BlockLeaves32
<1>12. Did32(final, v, A32!Pc, A32!None)
  <2>0. x \in A32!Registers /\ x # A32!Pc /\ y \in A32!Registers /\ y # A32!Pc /\ lo \in A32!Registers
        /\ lo # A32!Pc /\ hi \in A32!Registers /\ hi # A32!Pc /\ A32!Pc \in A32!Registers /\ A32!Lr \in A32!Registers /\ A32!Lr # A32!Pc /\ lo # hi
    BY PcIs, InOrderIs DEF IsReg32
  <2>1. DOMAIN A32!AtStart = A32!Registers /\ \A q \in A32!Registers : A32!AtStart[q] = A32!Initial(q)
    BY StartIs
  <2>2. DOMAIN r1 = A32!Registers /\ r1[x] = A32!Address(a) /\ \A q \in A32!Registers \ {x} : r1[q]
        = A32!AtStart[q]
    BY <2>0, <2>1, SetIs
  <2>3. DOMAIN r2 = A32!Registers /\ r2[y] = A32!Sum(r1[rn], r1[rm]) /\ \A q \in A32!Registers \ {y} : r2[q]
        = r1[q]
    BY <2>0, <2>2, SetIs
  <2>4. /\ DOMAIN r3 = A32!Registers /\ r3[lo] = A32!AtStart[lo] /\ r3[hi] = A32!AtStart[hi]
        /\ \A q \in A32!Registers \ {lo, hi} : r3[q] = r2[q]
    BY <2>0, <2>3, RestoredTwoIs
  <2>5. DOMAIN final = A32!Registers /\ final[A32!Pc] = v /\ \A q \in A32!Registers \ {A32!Pc} : final[q] = r3[q]
    BY <2>0, <2>4, SetIs
  <2> QED BY <2>0, <2>1, <2>2, <2>3, <2>4, <2>5 DEF Did32
<1> QED BY <1>11, <1>12, RanBy

\* and LDR with a register.
LEMMA RunLdrRegPc32 ==
    ASSUME NEW block, NEW base \in Int, NEW holds, NEW a, NEW rm, NEW x, NEW y, NEW lo, NEW hi, NEW v, NEW r1,
           Holds(holds), Len(block) = 9, block[1] = A32!Branch(A32!Own, 0),
           InOrder32(lo, hi), (x = lo /\ y = hi) \/ (x = hi /\ y = lo),
           block[3] = A32!Push({lo, hi, A32!Pc}), block[4] = A32!Literal(A32!Always, x, 0),
           block[5] = A32!Branch(A32!Always, 0),
           block[6] = A32!Data(A32!Address(a)), block[7] = A32!LoadReg(y, x, rm), block[8] = A32!Store(y, 2),
           block[9] = A32!Pop({lo, hi, A32!Pc}),
           Set32(r1, A32!AtStart, x, A32!Address(a)), v = A32!Memory(r1[x], r1[rm])
    PROVE  Ran32(block, base, holds, v, A32!Pc, A32!None)
<1> SUFFICES ASSUME NEW r2, Set32(r2, r1, y, A32!Memory(r1[x], r1[rm])),
                    NEW r3, RestoredTwo(r3, r2, lo, A32!AtStart[lo], hi, A32!AtStart[hi]),
                    NEW final, Set32(final, r3, A32!Pc, v)
             PROVE  Ran32(block, base, holds, v, A32!Pc, A32!None)
  BY DEF Set32, RestoredOne, RestoredTwo
<1>0. Set32(final, r3, A32!Pc, v)
  OBVIOUS
<1>1. A32!Starting = At32(0, A32!AtStart, <<>>, A32!None)
  BY DEF A32!Starting, At32
<1>2. A32!After(block, base, holds, At32(0, A32!AtStart, <<>>, A32!None))
        = At32(2, A32!AtStart, <<>>, A32!None)
  <2>1. HasBranch32(block, 0, 2, A32!Own)
    BY DEF HasBranch32
  <2> QED BY <2>1, DoBranch32, OwnRuns
<1>3. A32!After(block, base, holds, At32(2, A32!AtStart, <<>>, A32!None))
        = At32(3, A32!AtStart, <<A32!AtStart[lo], A32!AtStart[hi], A32!AtStart[A32!Pc]>>, A32!None)
  <2>1. HasWord32(block, 2, 3, A32!Push({lo, hi, A32!Pc}))
    BY DEF HasWord32
  <2> QED BY <2>1, DoPushThree
<1>4. A32!After(block, base, holds, At32(3, A32!AtStart, <<A32!AtStart[lo], A32!AtStart[hi], A32!AtStart[A32!Pc]>>, A32!None))
        = At32(4, r1, <<A32!AtStart[lo], A32!AtStart[hi], A32!AtStart[A32!Pc]>>, A32!None)
  <2>1. IsReg32(x) /\ HasLiteral32(block, 3, 4, A32!Always, x, 0, A32!Address(a))
    BY DEF HasLiteral32, HasWord32, InOrder32
  <2> QED BY <2>1, DoLiteral32, AlwaysRuns
<1>5. A32!After(block, base, holds, At32(4, r1, <<A32!AtStart[lo], A32!AtStart[hi], A32!AtStart[A32!Pc]>>, A32!None))
        = At32(6, r1, <<A32!AtStart[lo], A32!AtStart[hi], A32!AtStart[A32!Pc]>>, A32!None)
  <2>1. HasBranch32(block, 4, 6, A32!Always)
    BY DEF HasBranch32
  <2> QED BY <2>1, DoBranch32, AlwaysRuns
<1>6. A32!After(block, base, holds, At32(6, r1, <<A32!AtStart[lo], A32!AtStart[hi], A32!AtStart[A32!Pc]>>, A32!None))
        = At32(7, r2, <<A32!AtStart[lo], A32!AtStart[hi], A32!AtStart[A32!Pc]>>, A32!None)
  <2>1. IsReg32(y) /\ HasWord32(block, 6, 7, A32!LoadReg(y, x, rm))
    BY DEF HasWord32, InOrder32
  <2> QED BY <2>1, DoLoadReg32
<1>7. A32!After(block, base, holds, At32(7, r2, <<A32!AtStart[lo], A32!AtStart[hi], A32!AtStart[A32!Pc]>>, A32!None))
        = At32(8, r2, <<A32!AtStart[lo], A32!AtStart[hi], v>>, A32!None)
  <2>1. 2 \in Nat /\ HasWord32(block, 7, 8, A32!Store(y, 2))
    BY DEF HasWord32
  <2>2. r2[y] = v
    BY DEF Set32, A32!AtStart, A32!Registers, InOrder32, IsReg32
  <2>3. Set32(<<A32!AtStart[lo], A32!AtStart[hi], v>>, <<A32!AtStart[lo], A32!AtStart[hi], A32!AtStart[A32!Pc]>>, 2 + 1, r2[y])
    BY <2>2, StoreThird
  <2> QED BY <2>1, <2>2, <2>3, DoStore32
<1>8. A32!After(block, base, holds, At32(8, r2, <<A32!AtStart[lo], A32!AtStart[hi], v>>, A32!None))
        = At32(9, r3, <<>>, v)
  <2>1. HasWord32(block, 8, 9, A32!Pop({lo, hi, A32!Pc}))
    BY DEF HasWord32
  <2> QED BY <2>1, DoPopThree
<1>9. v # A32!None
  BY SomeMemory
<1>10. A32!After(block, base, holds, At32(9, r3, <<>>, v))
        = At32(9, r3, <<>>, v)
  BY <1>9, LeftStays32
<1>11. A32!States(block, base, holds)[9] = At32(9, r3, <<>>, v)
  <2> DEFINE m0 == At32(0, A32!AtStart, <<>>, A32!None)
             m1 == At32(2, A32!AtStart, <<>>, A32!None)
             m2 == At32(3, A32!AtStart, <<A32!AtStart[lo], A32!AtStart[hi], A32!AtStart[A32!Pc]>>, A32!None)
             m3 == At32(4, r1, <<A32!AtStart[lo], A32!AtStart[hi], A32!AtStart[A32!Pc]>>, A32!None)
             m4 == At32(6, r1, <<A32!AtStart[lo], A32!AtStart[hi], A32!AtStart[A32!Pc]>>, A32!None)
             m5 == At32(7, r2, <<A32!AtStart[lo], A32!AtStart[hi], A32!AtStart[A32!Pc]>>, A32!None)
             m6 == At32(8, r2, <<A32!AtStart[lo], A32!AtStart[hi], v>>, A32!None)
             m7 == At32(9, r3, <<>>, v)
  <2>1. /\ A32!Starting = m0
        /\ A32!After(block, base, holds, m0) = m1
        /\ A32!After(block, base, holds, m1) = m2
        /\ A32!After(block, base, holds, m2) = m3
        /\ A32!After(block, base, holds, m3) = m4
        /\ A32!After(block, base, holds, m4) = m5
        /\ A32!After(block, base, holds, m5) = m6
        /\ A32!After(block, base, holds, m6) = m7
        /\ A32!After(block, base, holds, m7) = m7
    BY ONLY <1>1, <1>2, <1>3, <1>4, <1>5, <1>6, <1>7, <1>8, <1>10
  <2> HIDE DEF m0, m1, m2, m3, m4, m5, m6, m7
  <2>2. A32!States(block, base, holds)[9] = m7
    BY ONLY <2>1, RunsNine
  <2> QED BY ONLY <2>2 DEF m7
<1>12. A32!RunBlock(block, base, holds) = Outcome32(final)
  BY ONLY <1>0, <1>9, <1>11, BlockLeaves32
<1>13. Did32(final, v, A32!Pc, A32!None)
  <2>0. x \in A32!Registers /\ x # A32!Pc /\ y \in A32!Registers /\ y # A32!Pc /\ lo \in A32!Registers
        /\ lo # A32!Pc /\ hi \in A32!Registers /\ hi # A32!Pc /\ A32!Pc \in A32!Registers /\ A32!Lr \in A32!Registers /\ A32!Lr # A32!Pc /\ lo # hi
    BY PcIs, InOrderIs DEF IsReg32
  <2>1. DOMAIN A32!AtStart = A32!Registers /\ \A q \in A32!Registers : A32!AtStart[q] = A32!Initial(q)
    BY StartIs
  <2>2. DOMAIN r1 = A32!Registers /\ r1[x] = A32!Address(a) /\ \A q \in A32!Registers \ {x} : r1[q]
        = A32!AtStart[q]
    BY <2>0, <2>1, SetIs
  <2>3. DOMAIN r2 = A32!Registers /\ r2[y] = A32!Memory(r1[x], r1[rm]) /\ \A q \in A32!Registers \ {y} : r2[q]
        = r1[q]
    BY <2>0, <2>2, SetIs
  <2>4. /\ DOMAIN r3 = A32!Registers /\ r3[lo] = A32!AtStart[lo] /\ r3[hi] = A32!AtStart[hi]
        /\ \A q \in A32!Registers \ {lo, hi} : r3[q] = r2[q]
    BY <2>0, <2>3, RestoredTwoIs
  <2>5. DOMAIN final = A32!Registers /\ final[A32!Pc] = v /\ \A q \in A32!Registers \ {A32!Pc} : final[q] = r3[q]
    BY <2>0, <2>4, SetIs
  <2> QED BY <2>0, <2>1, <2>2, <2>3, <2>4, <2>5 DEF Did32
<1> QED BY <1>12, <1>13, RanBy

(***************************************************************************)
(* Where blocks go on                                                        *)
(***************************************************************************)
IsBlock32(block, base, inst, pc, moved, i) ==
    /\ moved \in A32!Part
    /\ i \in 1 .. Len(moved.insts)
    /\ inst = moved.insts[i]
    /\ block = A32!Rewrite(moved, i)
    /\ block # <<>>
    /\ base = A32!BlockAt(moved, i)
    /\ pc = A32!PcOf(moved, i)

\* A block goes on where its instruction did.
SamePlace32(old, new, moved) ==
    new = A32!Moved(old, moved) \/ (old = A32!Address(A32!End(moved)) /\ new = A32!Address(A32!End(moved)))

\* The facts about a part.
LEMMA PartIs32 ==
    ASSUME NEW moved \in A32!Part
    PROVE  /\ moved.start \in Int /\ moved.buf \in Int
           /\ Len(moved.insts) \in Nat /\ (Len(moved.insts) = 1 \/ Len(moved.insts) = 2)
           /\ DOMAIN moved.insts = 1 .. Len(moved.insts)
           /\ \A i \in 1 .. Len(moved.insts) : moved.insts[i] \in A32!Inst /\ A32!Covered(moved.insts[i])
                                               /\ ~A32!LosesThumb(moved.insts[i], moved)
<1>1. /\ moved \in [start : Int, insts : Seq(A32!Inst), buf : Int]
      /\ Len(moved.insts) \in 1 .. 2 /\ \A i \in DOMAIN moved.insts : A32!Covered(moved.insts[i])
                                               /\ ~A32!LosesThumb(moved.insts[i], moved)
  BY DEF A32!Part
<1>2. moved.start \in Int /\ moved.buf \in Int /\ moved.insts \in Seq(A32!Inst)
  BY <1>1
<1>3. Len(moved.insts) \in Nat /\ DOMAIN moved.insts = 1 .. Len(moved.insts)
  BY <1>2
<1>4. \A n \in Nat : n \in 1 .. 2 => n = 1 \/ n = 2
  OBVIOUS
<1>5. Len(moved.insts) = 1 \/ Len(moved.insts) = 2
  BY <1>1, <1>3, <1>4
<1>6. \A i \in 1 .. Len(moved.insts) : moved.insts[i] \in A32!Inst
  BY <1>2, <1>3
<1> QED BY <1>1, <1>2, <1>3, <1>5, <1>6

\* An address in or outside the part,
LEMMA FixedPlace32 ==
    ASSUME NEW moved \in A32!Part, NEW a \in Int
    PROVE  SamePlace32(A32!Address(a), A32!Address(A32!FixAddr(a, moved)), moved)
<1>1. moved.start \in Int /\ Len(moved.insts) \in Nat
  BY PartIs32
<1>2. A32!Address(a).kind = "address" /\ A32!Address(a).at = a
  BY DEF A32!Address
<1>3. CASE A32!NeedFix(a, moved)
  <2>1. moved.start <= a /\ a <= A32!End(moved)
    BY <1>1, <1>3 DEF A32!NeedFix, A32!End
  <2>2. A32!FixAddr(a, moved) = A32!BlockAt(moved, a - moved.start + 1)
    BY <1>3 DEF A32!FixAddr
  <2>3. A32!Moved(A32!Address(a), moved) = A32!Address(A32!BlockAt(moved, a - moved.start + 1))
    BY <1>2, <2>1 DEF A32!Moved
  <2> QED BY <2>2, <2>3 DEF SamePlace32
<1>4. CASE ~A32!NeedFix(a, moved) /\ a = A32!End(moved)
  BY <1>4 DEF A32!FixAddr, SamePlace32
<1>5. CASE ~A32!NeedFix(a, moved) /\ a # A32!End(moved)
  <2>1. ~(moved.start <= a /\ a <= A32!End(moved))
    BY <1>1, <1>5 DEF A32!NeedFix, A32!End
  <2>2. A32!FixAddr(a, moved) = a
    BY <1>5 DEF A32!FixAddr
  <2>3. A32!Moved(A32!Address(a), moved) = A32!Address(a)
    BY <1>2, <2>1 DEF A32!Moved
  <2> QED BY <2>2, <2>3 DEF SamePlace32
<1> QED BY <1>3, <1>4, <1>5

\* the next instruction,
LEMMA NextPlace32 ==
    ASSUME NEW moved \in A32!Part, NEW i \in 1 .. Len(moved.insts)
    PROVE  A32!Moved(A32!Address(moved.start + i), moved)
             = A32!Address(A32!BlockAt(moved, i) + A32!RewriteLen(moved.insts[i]))
<1>1. moved.start \in Int /\ Len(moved.insts) \in Nat
  BY PartIs32
<1>2. moved.start <= moved.start + i /\ moved.start + i <= A32!End(moved)
  BY <1>1 DEF A32!End
<1>3. A32!Address(moved.start + i).kind = "address" /\ A32!Address(moved.start + i).at = moved.start + i
  BY DEF A32!Address
<1>4. moved.start + i - moved.start + 1 = i + 1
  BY <1>1
<1>5. A32!Moved(A32!Address(moved.start + i), moved) = A32!Address(A32!BlockAt(moved, i + 1))
  <2>1. /\ A32!Address(moved.start + i).kind = "address"
        /\ moved.start <= A32!Address(moved.start + i).at /\ A32!Address(moved.start + i).at <= A32!End(moved)
    BY <1>2, <1>3
  <2>2. A32!Moved(A32!Address(moved.start + i), moved)
          = A32!Address(A32!BlockAt(moved, A32!Address(moved.start + i).at - moved.start + 1))
    BY <2>1 DEF A32!Moved
  <2>3. A32!Address(moved.start + i).at - moved.start + 1 = i + 1
    BY <1>1, <1>3, <1>4
  <2> QED BY <2>2, <2>3
<1>6. A32!BlockAt(moved, i + 1) = A32!BlockAt(moved, i) + A32!RewriteLen(moved.insts[i])
  BY PlacesFollow32
<1> QED BY <1>5, <1>6

\* the pc that an instruction reads, which is not in the part, and what is no address.
LEMMA PcPlace32 ==
    ASSUME NEW moved \in A32!Part, NEW i \in 1 .. Len(moved.insts)
    PROVE  A32!PcOf(moved, i) \in Int /\ A32!FixAddr(A32!PcOf(moved, i), moved) = A32!PcOf(moved, i)
<1>1. moved.start \in Int /\ Len(moved.insts) \in Nat /\ (Len(moved.insts) = 1 \/ Len(moved.insts) = 2)
  BY PartIs32
<1>2. \A n \in Nat : (n = 1 \/ n = 2) => \A k \in 1 .. n : \A a \in Int : a + k - 1 + 2 \in Int
      /\ a + k - 1 + 2 >= a + n
  OBVIOUS
<1>3. A32!PcOf(moved, i) \in Int /\ ~A32!NeedFix(A32!PcOf(moved, i), moved)
  <2> SUFFICES ASSUME NEW a \in Int, a = moved.start, NEW n \in Nat, n = Len(moved.insts)
               PROVE  a + i - 1 + 2 \in Int /\ ~(a <= a + i - 1 + 2 /\ a + i - 1 + 2 < a + n)
    BY <1>1 DEF A32!PcOf, A32!NeedFix, A32!End
  <2>1. a + i - 1 + 2 \in Int /\ a + i - 1 + 2 >= a + n
    BY <1>1, <1>2
  <2> QED BY <2>1
<1> QED BY <1>3 DEF A32!FixAddr

\* Only addresses are moved.
LEMMA OtherPlace32 ==
    ASSUME NEW moved, NEW v, v.kind # "address"
    PROVE  A32!Moved(v, moved) = v
BY DEF A32!Moved

\* The facts about a block and its instruction.
LEMMA BlockFacts32 ==
    ASSUME NEW block, NEW base, NEW inst, NEW pc, NEW moved, NEW i, IsBlock32(block, base, inst, pc, moved, i)
    PROVE  /\ inst \in A32!Inst /\ A32!Covered(inst) /\ base \in Int /\ pc \in Int
           /\ ~A32!LosesThumb(inst, moved)
           /\ A32!FixAddr(pc, moved) = pc
           /\ SamePlace32(A32!Address(pc), A32!Address(pc), moved)
           /\ \A a \in Int : SamePlace32(A32!Address(a), A32!Address(A32!FixAddr(a, moved)), moved)
           /\ A32!Moved(A32!Address(moved.start + i), moved) = A32!Address(base + A32!RewriteLen(inst))
           /\ SamePlace32(A32!Address(moved.start + i), A32!Address(base + A32!RewriteLen(inst)), moved)
<1> USE DEF IsBlock32
<1>1. inst \in A32!Inst /\ A32!Covered(inst) /\ ~A32!LosesThumb(inst, moved)
  BY PartIs32
<1>2. base \in Int
  <2>1. i \in 1 .. Len(moved.insts) + 1
    BY PartIs32
  <2> QED BY <2>1, PlaceType32
<1>3. pc \in Int /\ A32!FixAddr(pc, moved) = pc
  BY PcPlace32
<1>4. \A a \in Int : SamePlace32(A32!Address(a), A32!Address(A32!FixAddr(a, moved)), moved)
  BY FixedPlace32
<1>5. A32!Moved(A32!Address(moved.start + i), moved) = A32!Address(base + A32!RewriteLen(inst))
  BY NextPlace32
<1>6. SamePlace32(A32!Address(pc), A32!Address(pc), moved)
  BY <1>3, <1>4
<1> QED BY <1>1, <1>2, <1>3, <1>4, <1>5, <1>6 DEF SamePlace32

(***************************************************************************)
(* What instructions do                                                      *)
(***************************************************************************)
\* The registers before an instruction and behind one that goes on,
Own32(own, pc) == Set32(own, A32!AtStart, A32!Pc, A32!Address(pc))

Plain32(plain, moved, i) == Set32(plain, A32!AtStart, A32!Pc, A32!Address(moved.start + i))

\* and whether it does something.
Done32(inst, holds) == inst.type # "ignored" /\ (inst.type = "blx" \/ Holds(holds))

Skips32(inst, holds) == inst.type = "ignored" \/ (inst.type # "blx" /\ Fails(holds))

\* One that is skipped goes on,
LEMMA EffectSkipped32 ==
    ASSUME NEW block, NEW base, NEW inst, NEW pc, NEW moved, NEW i, IsBlock32(block, base, inst, pc, moved, i),
           NEW holds, Skips32(inst, holds)
    PROVE  Did32(A32!Effect(moved, i, holds), A32!Address(moved.start + i), A32!Pc, A32!None)
<1> SUFFICES ASSUME NEW plain, Plain32(plain, moved, i)
             PROVE  Did32(A32!Effect(moved, i, holds), A32!Address(moved.start + i), A32!Pc, A32!None)
  BY DEF Plain32, Set32
<1>1. A32!Effect(moved, i, holds) = plain
  BY DEF A32!Effect, Skips32, Fails, IsBlock32, Plain32, Set32
<1>2. DOMAIN A32!AtStart = A32!Registers /\ \A q \in A32!Registers : A32!AtStart[q] = A32!Initial(q)
  BY StartIs
<1>3. A32!Pc \in A32!Registers
  BY PcIs
<1>4. plain[A32!Pc] = A32!Address(moved.start + i) /\ \A q \in A32!Registers \ {A32!Pc} : plain[q]
      = A32!AtStart[q]
  BY <1>2, <1>3, SetIs DEF Plain32
<1> QED BY <1>1, <1>2, <1>4 DEF Did32

\* one of the others sets a register, and
LEMMA DidSet32 ==
    ASSUME NEW moved, NEW i, NEW plain, Plain32(plain, moved, i), NEW e, NEW rd \in A32!Registers, NEW v,
           Set32(e, plain, rd, v)
    PROVE  IF rd = A32!Pc THEN Did32(e, v, A32!Pc, A32!None) ELSE Did32(e, A32!Address(moved.start + i), rd, v)
<1>2. DOMAIN A32!AtStart = A32!Registers /\ \A q \in A32!Registers : A32!AtStart[q] = A32!Initial(q)
  BY StartIs
<1>3. A32!Pc \in A32!Registers
  BY PcIs
<1>4. /\ DOMAIN plain = A32!Registers /\ plain[A32!Pc] = A32!Address(moved.start + i)
      /\ \A q \in A32!Registers \ {A32!Pc} : plain[q] = A32!AtStart[q]
  BY <1>2, <1>3, SetIs DEF Plain32
<1>5. e[rd] = v /\ \A q \in A32!Registers \ {rd} : e[q] = plain[q]
  BY <1>4, SetIs
<1> QED BY <1>2, <1>3, <1>4, <1>5 DEF Did32

\* a call two.
LEMMA DidCall32 ==
    ASSUME NEW moved, NEW i, NEW plain, Plain32(plain, moved, i), NEW linked, Set32(linked, plain, A32!Lr,
           plain[A32!Pc]),
           NEW e, NEW v, Set32(e, linked, A32!Pc, v)
    PROVE  Did32(e, v, A32!Lr, A32!Address(moved.start + i))
<1>2. DOMAIN A32!AtStart = A32!Registers /\ \A q \in A32!Registers : A32!AtStart[q] = A32!Initial(q)
  BY StartIs
<1>3. A32!Pc \in A32!Registers /\ A32!Lr \in A32!Registers /\ A32!Lr # A32!Pc
  BY PcIs
<1>4. /\ DOMAIN plain = A32!Registers /\ plain[A32!Pc] = A32!Address(moved.start + i)
      /\ \A q \in A32!Registers \ {A32!Pc} : plain[q] = A32!AtStart[q]
  BY <1>2, <1>3, SetIs DEF Plain32
<1>5. DOMAIN linked = A32!Registers /\ linked[A32!Lr] = plain[A32!Pc]
      /\ \A q \in A32!Registers \ {A32!Lr} : linked[q] = plain[q]
  BY <1>3, <1>4, SetIs
<1>6. e[A32!Pc] = v /\ \A q \in A32!Registers \ {A32!Pc} : e[q] = linked[q]
  BY <1>3, <1>5, SetIs
<1> QED BY <1>2, <1>3, <1>4, <1>5, <1>6 DEF Did32

\* What a register had before.
LEMMA OwnIs ==
    ASSUME NEW own, NEW pc, Own32(own, pc)
    PROVE  own[A32!Pc] = A32!Address(pc) /\ \A q \in A32!Registers \ {A32!Pc} : own[q] = A32!Initial(q)
<1>1. DOMAIN A32!AtStart = A32!Registers /\ \A q \in A32!Registers : A32!AtStart[q] = A32!Initial(q)
  BY StartIs
<1>2. A32!Pc \in A32!Registers
  BY PcIs
<1>3. own[A32!Pc] = A32!Address(pc) /\ \A q \in A32!Registers \ {A32!Pc} : own[q] = A32!AtStart[q]
  BY <1>1, <1>2, SetIs DEF Own32
<1> QED BY <1>1, <1>3

\* Branches
LEMMA EffectOfBranch ==
    ASSUME NEW block, NEW base, NEW inst, NEW pc, NEW moved, NEW i, IsBlock32(block, base, inst, pc, moved, i),
           NEW holds, Done32(inst, holds), inst.type \in {"b", "bx_pc"},
           NEW own, Own32(own, pc)
    PROVE  Did32(A32!Effect(moved, i, holds), IF inst.type
          = "b" THEN A32!Address(inst.to) ELSE own[A32!Pc], A32!Pc, A32!None)
<1> SUFFICES ASSUME NEW plain, Plain32(plain, moved, i)
             PROVE  Did32(A32!Effect(moved, i, holds), IF inst.type
                   = "b" THEN A32!Address(inst.to) ELSE own[A32!Pc], A32!Pc, A32!None)
  BY DEF Plain32, Set32
<1>1. Set32(A32!Effect(moved, i, holds), plain, A32!Pc, IF inst.type
      = "b" THEN A32!Address(inst.to) ELSE own[A32!Pc])
  BY DEF A32!Effect, Done32, Holds, IsBlock32, Plain32, Own32, Set32, A32!Branches, A32!Calls
<1>2. A32!Pc \in A32!Registers
  BY PcIs
<1> QED BY <1>1, <1>2, DidSet32

\* Where a call leads, and where its block does.
CallTo32(inst) == IF inst.type = "blx" THEN A32!Thumb(inst.to) ELSE A32!Address(inst.to)

FixedCall32(inst, moved) ==
    IF inst.type = "blx" THEN A32!FixThumb(inst.to, moved) ELSE A32!Address(A32!FixAddr(inst.to, moved))

\* and calls,
LEMMA EffectOfCall ==
    ASSUME NEW block, NEW base, NEW inst, NEW pc, NEW moved, NEW i, IsBlock32(block, base, inst, pc, moved, i),
           NEW holds, Done32(inst, holds), inst.type \in A32!Calls,
           NEW own, Own32(own, pc)
    PROVE  Did32(A32!Effect(moved, i, holds), CallTo32(inst), A32!Lr, A32!Address(moved.start + i))
<1> SUFFICES ASSUME NEW plain, Plain32(plain, moved, i), NEW linked, Set32(linked, plain, A32!Lr, plain[A32!Pc])
             PROVE  Did32(A32!Effect(moved, i, holds), CallTo32(inst), A32!Lr, A32!Address(moved.start + i))
  BY DEF Plain32, Set32
<1>1. Set32(A32!Effect(moved, i, holds), linked, A32!Pc, CallTo32(inst))
  BY DEF CallTo32, A32!Effect, Done32, Holds, IsBlock32, Plain32, Own32, Set32, A32!Branches, A32!Calls
<1> QED BY <1>1, DidCall32

\* ADR,
LEMMA EffectOfAdr ==
    ASSUME NEW block, NEW base, NEW inst, NEW pc, NEW moved, NEW i, IsBlock32(block, base, inst, pc, moved, i),
           NEW holds, Done32(inst, holds), inst.type \in {"adr"},
           NEW own, Own32(own, pc)
    PROVE  IF inst.rd = A32!Pc THEN Did32(A32!Effect(moved, i, holds), A32!Address(inst.to), A32!Pc, A32!None)
           ELSE Did32(A32!Effect(moved, i, holds), A32!Address(moved.start + i), inst.rd, A32!Address(inst.to))
<1> SUFFICES ASSUME NEW plain, Plain32(plain, moved, i)
             PROVE  IF inst.rd = A32!Pc THEN Did32(A32!Effect(moved, i, holds), A32!Address(inst.to), A32!Pc, A32!None)
           ELSE Did32(A32!Effect(moved, i, holds), A32!Address(moved.start + i), inst.rd, A32!Address(inst.to))
  BY DEF Plain32, Set32
<1>1. Set32(A32!Effect(moved, i, holds), plain, inst.rd, A32!Address(inst.to))
  BY DEF A32!Effect, Done32, Holds, IsBlock32, Plain32, Own32, Set32, A32!Branches, A32!Calls
<1>2. inst.rd \in A32!Registers
  BY BlockFacts32 DEF A32!Inst
<1> QED BY <1>1, <1>2, DidSet32

\* MOV,
LEMMA EffectOfMov ==
    ASSUME NEW block, NEW base, NEW inst, NEW pc, NEW moved, NEW i, IsBlock32(block, base, inst, pc, moved, i),
           NEW holds, Done32(inst, holds), inst.type \in {"mov"},
           NEW own, Own32(own, pc)
    PROVE  IF inst.rd = A32!Pc THEN Did32(A32!Effect(moved, i, holds), own[A32!Pc], A32!Pc, A32!None)
           ELSE Did32(A32!Effect(moved, i, holds), A32!Address(moved.start + i), inst.rd, own[A32!Pc])
<1> SUFFICES ASSUME NEW plain, Plain32(plain, moved, i)
             PROVE  IF inst.rd = A32!Pc THEN Did32(A32!Effect(moved, i, holds), own[A32!Pc], A32!Pc, A32!None)
           ELSE Did32(A32!Effect(moved, i, holds), A32!Address(moved.start + i), inst.rd, own[A32!Pc])
  BY DEF Plain32, Set32
<1>1. Set32(A32!Effect(moved, i, holds), plain, inst.rd, own[A32!Pc])
  BY DEF A32!Effect, Done32, Holds, IsBlock32, Plain32, Own32, Set32, A32!Branches, A32!Calls
<1>2. inst.rd \in A32!Registers
  BY BlockFacts32 DEF A32!Inst
<1> QED BY <1>1, <1>2, DidSet32

\* ADD and SUB,
LEMMA EffectOfAlu ==
    ASSUME NEW block, NEW base, NEW inst, NEW pc, NEW moved, NEW i, IsBlock32(block, base, inst, pc, moved, i),
           NEW holds, Done32(inst, holds), inst.type \in {"alu"},
           NEW own, Own32(own, pc)
    PROVE  IF inst.rd = A32!Pc THEN Did32(A32!Effect(moved, i, holds), A32!Sum(own[inst.rn], own[inst.rm]), A32!Pc, A32!None)
           ELSE Did32(A32!Effect(moved, i, holds), A32!Address(moved.start + i), inst.rd, A32!Sum(own[inst.rn], own[inst.rm]))
<1> SUFFICES ASSUME NEW plain, Plain32(plain, moved, i)
             PROVE  IF inst.rd = A32!Pc THEN Did32(A32!Effect(moved, i, holds), A32!Sum(own[inst.rn], own[inst.rm]), A32!Pc, A32!None)
           ELSE Did32(A32!Effect(moved, i, holds), A32!Address(moved.start + i), inst.rd, A32!Sum(own[inst.rn], own[inst.rm]))
  BY DEF Plain32, Set32
<1>1. Set32(A32!Effect(moved, i, holds), plain, inst.rd, A32!Sum(own[inst.rn], own[inst.rm]))
  BY DEF A32!Effect, Done32, Holds, IsBlock32, Plain32, Own32, Set32, A32!Branches, A32!Calls
<1>2. inst.rd \in A32!Registers
  BY BlockFacts32 DEF A32!Inst
<1> QED BY <1>1, <1>2, DidSet32

\* LDR of a literal,
LEMMA EffectOfLdrLit ==
    ASSUME NEW block, NEW base, NEW inst, NEW pc, NEW moved, NEW i, IsBlock32(block, base, inst, pc, moved, i),
           NEW holds, Done32(inst, holds), inst.type \in {"ldr_lit"},
           NEW own, Own32(own, pc)
    PROVE  IF inst.rd = A32!Pc THEN Did32(A32!Effect(moved, i, holds), A32!Memory(A32!Address(inst.to), A32!None), A32!Pc, A32!None)
           ELSE Did32(A32!Effect(moved, i, holds), A32!Address(moved.start + i), inst.rd, A32!Memory(A32!Address(inst.to), A32!None))
<1> SUFFICES ASSUME NEW plain, Plain32(plain, moved, i)
             PROVE  IF inst.rd = A32!Pc THEN Did32(A32!Effect(moved, i, holds), A32!Memory(A32!Address(inst.to), A32!None), A32!Pc, A32!None)
           ELSE Did32(A32!Effect(moved, i, holds), A32!Address(moved.start + i), inst.rd, A32!Memory(A32!Address(inst.to), A32!None))
  BY DEF Plain32, Set32
<1>1. Set32(A32!Effect(moved, i, holds), plain, inst.rd, A32!Memory(A32!Address(inst.to), A32!None))
  BY DEF A32!Effect, Done32, Holds, IsBlock32, Plain32, Own32, Set32, A32!Branches, A32!Calls
<1>2. inst.rd \in A32!Registers
  BY BlockFacts32 DEF A32!Inst
<1> QED BY <1>1, <1>2, DidSet32

\* and LDR with a register.
LEMMA EffectOfLdrReg ==
    ASSUME NEW block, NEW base, NEW inst, NEW pc, NEW moved, NEW i, IsBlock32(block, base, inst, pc, moved, i),
           NEW holds, Done32(inst, holds), inst.type \in {"ldr_reg"},
           NEW own, Own32(own, pc)
    PROVE  IF inst.rd = A32!Pc THEN Did32(A32!Effect(moved, i, holds), A32!Memory(own[A32!Pc], own[inst.rm]), A32!Pc, A32!None)
           ELSE Did32(A32!Effect(moved, i, holds), A32!Address(moved.start + i), inst.rd, A32!Memory(own[A32!Pc], own[inst.rm]))
<1> SUFFICES ASSUME NEW plain, Plain32(plain, moved, i)
             PROVE  IF inst.rd = A32!Pc THEN Did32(A32!Effect(moved, i, holds), A32!Memory(own[A32!Pc], own[inst.rm]), A32!Pc, A32!None)
           ELSE Did32(A32!Effect(moved, i, holds), A32!Address(moved.start + i), inst.rd, A32!Memory(own[A32!Pc], own[inst.rm]))
  BY DEF Plain32, Set32
<1>1. Set32(A32!Effect(moved, i, holds), plain, inst.rd, A32!Memory(own[A32!Pc], own[inst.rm]))
  BY DEF A32!Effect, Done32, Holds, IsBlock32, Plain32, Own32, Set32, A32!Branches, A32!Calls
<1>2. inst.rd \in A32!Registers
  BY BlockFacts32 DEF A32!Inst
<1> QED BY <1>1, <1>2, DidSet32

\* A block does what its instruction did.
LEMMA SameIf32 ==
    ASSUME NEW block, NEW base, NEW inst, NEW pc, NEW moved, NEW i, IsBlock32(block, base, inst, pc, moved, i),
           NEW holds,
           Len(block) = A32!RewriteLen(inst),
           NEW new, NEW old, NEW rd, NEW v, NEW w,
           Ran32(block, base, holds, new, rd, w),
           Did32(A32!Effect(moved, i, holds), old, rd, v),
           SamePlace32(old, new, moved),
           IF inst.type \in A32!Calls THEN rd = A32!Pc \/ (rd = A32!Lr /\ w = A32!Moved(v, moved)) ELSE w = v
    PROVE  A32!SameEffect(moved, i, holds)
<1> SUFFICES ASSUME NEW e, e = A32!Effect(moved, i, holds), NEW r, r = A32!RunBlock(block, base, holds)
             PROVE  /\ r.stack = <<>>
                    /\ r.regs[A32!Pc] = A32!Moved(e[A32!Pc], moved)
                         \/ (e[A32!Pc] = A32!Address(A32!End(moved)) /\ r.regs[A32!Pc]
                               = A32!Address(A32!End(moved)))
                    /\ r.regs[A32!Lr] = IF inst.type \in A32!Calls THEN A32!Moved(e[A32!Lr], moved) ELSE e[A32!Lr]
                    /\ \A q \in A32!Registers \ {A32!Lr, A32!Pc} : r.regs[q] = e[q]
  BY DEF A32!SameEffect, IsBlock32
<1>1. r.stack = <<>> /\ Did32(r.regs, new, rd, w) /\ Did32(e, old, rd, v)
  BY DEF Ran32
<1>2. r.regs[A32!Pc] = new /\ e[A32!Pc] = old
  BY <1>1 DEF Did32
<1>3. \A q \in A32!Registers \ {A32!Pc} :
        (r.regs[q] = IF q = rd THEN w ELSE A32!Initial(q)) /\ (e[q] = IF q = rd THEN v ELSE A32!Initial(q))
  BY <1>1 DEF Did32
<1>4. A32!Lr \in A32!Registers \ {A32!Pc}
  BY PcIs
<1>5. A32!Moved(A32!Initial(A32!Lr), moved) = A32!Initial(A32!Lr)
  <2>1. A32!Initial(A32!Lr).kind # "address"
    BY DEF A32!Initial
  <2> QED BY <2>1, OtherPlace32
<1>6. CASE inst.type \in A32!Calls
  <2>1. r.regs[A32!Lr] = A32!Moved(e[A32!Lr], moved)
    BY <1>3, <1>4, <1>5, <1>6
  <2>2. \A q \in A32!Registers \ {A32!Lr, A32!Pc} : r.regs[q] = e[q]
    BY <1>3, <1>6
  <2> QED BY <1>1, <1>2, <1>6, <2>1, <2>2 DEF SamePlace32
<1>7. CASE inst.type \notin A32!Calls
  <2>1. \A q \in A32!Registers \ {A32!Pc} : r.regs[q] = e[q]
    BY <1>3, <1>7
  <2> QED BY <1>1, <1>2, <1>4, <1>7, <2>1 DEF SamePlace32
<1> QED BY <1>6, <1>7

(***************************************************************************)
(* The blocks                                                                *)
(***************************************************************************)
\* The block of each type.
LEMMA BlockIs32 ==
    ASSUME NEW block, NEW base, NEW inst, NEW pc, NEW moved, NEW i, IsBlock32(block, base, inst, pc, moved, i)
    PROVE  /\ inst.type \in A32!Branches => block = A32!RewriteB(inst, pc, moved)
           /\ inst.type = "alu" => block = A32!RewriteAddOrSub(inst, pc)
           /\ inst.type = "adr" => block = A32!RewriteAdr(inst, moved)
           /\ inst.type = "mov" => block = A32!RewriteMov(inst, pc)
           /\ inst.type = "ldr_lit" => block = A32!RewriteLdrLit(inst, moved)
           /\ inst.type = "ldr_reg" => block = A32!RewriteLdrReg(inst, pc)
           /\ inst.type = "ignored" => block = <<A32!Word("inst", A32!Always, 0, 0, 0, 0)>>
BY DEF IsBlock32, A32!Rewrite, A32!Branches, A32!Calls

\* The words of blocks that are put together.
LEMMA FourWords ==
    ASSUME NEW a, NEW b, NEW c, NEW d, NEW block, block = <<a>> \o <<b, c, d>>
    PROVE  Len(block) = 4 /\ block[1] = a /\ block[2] = b /\ block[3] = c /\ block[4] = d
OBVIOUS

\* and of blocks of eight words.
LEMMA EightWords ==
    ASSUME NEW a, NEW b, NEW c, NEW d, NEW e, NEW f, NEW g, NEW h, NEW block,
           block = <<a, b>> \o <<c, d, e, f, g>> \o <<h>>
    PROVE  /\ Len(block) = 8 /\ block[1] = a /\ block[2] = b /\ block[3] = c /\ block[4] = d
           /\ block[5] = e /\ block[6] = f /\ block[7] = g /\ block[8] = h
OBVIOUS

\* A block that is passed is the same as an instruction that is.
LEMMA SameIfSkipped32 ==
    ASSUME NEW block, NEW base, NEW inst, NEW pc, NEW moved, NEW i, IsBlock32(block, base, inst, pc, moved, i),
           NEW holds, Skips32(inst, holds), Len(block) = A32!RewriteLen(inst),
           Ran32(block, base, holds, A32!Address(base + Len(block)), A32!Pc, A32!None)
    PROVE  A32!SameEffect(moved, i, holds)
<1>1. Did32(A32!Effect(moved, i, holds), A32!Address(moved.start + i), A32!Pc, A32!None)
  BY EffectSkipped32
<1>2. SamePlace32(A32!Address(moved.start + i), A32!Address(base + Len(block)), moved)
  BY BlockFacts32
<1> QED BY <1>1, <1>2, SameIf32

\* So is one whose condition does not hold and whose second word jumps to its end.
LEMMA SameIfPassed32 ==
    ASSUME NEW block, NEW base, NEW inst, NEW pc, NEW moved, NEW i, IsBlock32(block, base, inst, pc, moved, i),
           NEW holds, Fails(holds), inst.type # "blx", NEW len \in Nat, 2 <= len,
           Len(block) = len, A32!RewriteLen(inst) = len,
           block[1].cond = A32!Own, block[2] = A32!Branch(A32!Always, len - 3)
    PROVE  A32!SameEffect(moved, i, holds)
<1>1. base \in Int
  BY BlockFacts32
<1>2. Ran32(block, base, holds, A32!Address(base + Len(block)), A32!Pc, A32!None)
  BY <1>1, RunSkip32
<1> QED BY <1>2, SameIfSkipped32 DEF Skips32

\* One that sets a register and goes on.
LEMMA SameIfSet32 ==
    ASSUME NEW block, NEW base, NEW inst, NEW pc, NEW moved, NEW i, IsBlock32(block, base, inst, pc, moved, i),
           NEW holds, inst.type \notin A32!Calls, NEW len, Len(block) = len, A32!RewriteLen(inst) = len,
           NEW v, NEW rd,
           Ran32(block, base, holds, A32!Address(base + len), rd, v),
           Did32(A32!Effect(moved, i, holds), A32!Address(moved.start + i), rd, v)
    PROVE  A32!SameEffect(moved, i, holds)
<1>1. SamePlace32(A32!Address(moved.start + i), A32!Address(base + len), moved)
  BY BlockFacts32
<1> QED BY <1>1, SameIf32

\* One that goes elsewhere.
LEMMA SameIfGone32 ==
    ASSUME NEW block, NEW base, NEW inst, NEW pc, NEW moved, NEW i, IsBlock32(block, base, inst, pc, moved, i),
           NEW holds, inst.type \notin A32!Calls, Len(block) = A32!RewriteLen(inst),
           NEW old, NEW new, SamePlace32(old, new, moved),
           Ran32(block, base, holds, new, A32!Pc, A32!None),
           Did32(A32!Effect(moved, i, holds), old, A32!Pc, A32!None)
    PROVE  A32!SameEffect(moved, i, holds)
BY SameIf32

\* What is no address goes on the same.
LEMMA SameValue32 ==
    ASSUME NEW moved, NEW a, NEW b
    PROVE  SamePlace32(A32!Sum(a, b), A32!Sum(a, b), moved)
          /\ SamePlace32(A32!Memory(a, b), A32!Memory(a, b), moved)
<1>1. A32!Sum(a, b).kind # "address" /\ A32!Memory(a, b).kind # "address"
  BY DEF A32!Sum, A32!Memory
<1>2. A32!Moved(A32!Sum(a, b), moved) = A32!Sum(a, b) /\ A32!Moved(A32!Memory(a, b), moved) = A32!Memory(a, b)
  BY <1>1, OtherPlace32
<1> QED BY <1>2 DEF SamePlace32

(***************************************************************************)
(* Each type                                                                 *)
(***************************************************************************)
\* An instruction that is left alone
LEMMA SameIgnored32 ==
    ASSUME NEW block, NEW base, NEW inst, NEW pc, NEW moved, NEW i, IsBlock32(block, base, inst, pc, moved, i),
           NEW holds \in BOOLEAN, inst.type = "ignored"
    PROVE  A32!SameEffect(moved, i, holds)
<1>1. /\ inst \in A32!Inst /\ A32!Covered(inst) /\ base \in Int /\ pc \in Int /\ block # <<>>
      /\ inst.rd \in A32!Registers /\ inst.rn \in A32!Registers /\ inst.rm \in A32!Registers /\ inst.to \in Int
  BY BlockFacts32 DEF A32!Inst, IsBlock32
<1>2. inst.type # "blx" /\ inst.type \notin A32!Calls
  BY DEF A32!Calls
<1>3. block = <<A32!Word("inst", A32!Always, 0, 0, 0, 0)>>
  BY BlockIs32
<1>4. Len(block) = 1 /\ block[1] = A32!Word("inst", A32!Always, 0, 0, 0, 0)
  BY <1>3
<1>5. A32!RewriteLen(inst) = 1
  BY DEF A32!RewriteLen, A32!Calls
<1>6. Ran32(block, base, holds, A32!Address(base + Len(block)), A32!Pc, A32!None)
  BY <1>1, <1>4, RunIgnored32
<1> QED BY <1>4, <1>5, <1>6, SameIfSkipped32 DEF Skips32

\* B and BX PC
LEMMA SameB32 ==
    ASSUME NEW block, NEW base, NEW inst, NEW pc, NEW moved, NEW i, IsBlock32(block, base, inst, pc, moved, i),
           NEW holds \in BOOLEAN, inst.type \in {"b", "bx_pc"}
    PROVE  A32!SameEffect(moved, i, holds)
<1> SUFFICES ASSUME NEW to, to = (IF inst.type = "bx_pc" THEN pc ELSE inst.to), NEW a, a = A32!FixAddr(to, moved),
                    NEW own, Own32(own, pc)
             PROVE  A32!SameEffect(moved, i, holds)
  BY DEF Own32, Set32
<1>1. /\ inst \in A32!Inst /\ A32!Covered(inst) /\ base \in Int /\ pc \in Int /\ block # <<>>
      /\ inst.rd \in A32!Registers /\ inst.rn \in A32!Registers /\ inst.rm \in A32!Registers /\ inst.to \in Int
  BY BlockFacts32 DEF A32!Inst, IsBlock32
<1>2. inst.type # "blx" /\ inst.type \notin A32!Calls
  BY DEF A32!Calls
<1>3. block = <<>> \o <<A32!Literal(A32!Own, A32!Pc, 0), A32!Branch(A32!Always, 0), A32!Data(A32!Address(a))>>
  <2>1. inst.type \in A32!Branches
    BY DEF A32!Branches, A32!Calls
  <2>2. block = A32!RewriteB(inst, pc, moved)
    BY <2>1, BlockIs32
  <2> QED BY <2>2 DEF A32!RewriteB, A32!Calls
<1>4. /\ Len(block) = 3 /\ block[1] = A32!Literal(A32!Own, A32!Pc, 0) /\ block[2] = A32!Branch(A32!Always, 0)
      /\ block[3] = A32!Data(A32!Address(a))
  BY <1>3
<1>5. A32!RewriteLen(inst) = 3
  BY DEF A32!RewriteLen, A32!Calls
<1>6. CASE Holds(holds)
  <2>1. Ran32(block, base, holds, A32!Address(a), A32!Pc, A32!None)
    BY <1>1, <1>4, <1>6, RunGoto32
  <2>2. Did32(A32!Effect(moved, i, holds), IF inst.type
        = "b" THEN A32!Address(inst.to) ELSE own[A32!Pc], A32!Pc, A32!None)
    BY <1>6, EffectOfBranch DEF Done32
  <2>3. own[A32!Pc] = A32!Address(pc)
    BY OwnIs
  <2>4. Did32(A32!Effect(moved, i, holds), A32!Address(to), A32!Pc, A32!None)
    BY <2>2, <2>3
  <2>5. to \in Int
    BY <1>1
  <2>6. SamePlace32(A32!Address(to), A32!Address(a), moved)
    BY <2>5, BlockFacts32
  <2> QED BY <1>2, <1>4, <1>5, <2>1, <2>4, <2>6, SameIfGone32
<1>7. CASE Fails(holds)
  <2>1. block[1].cond = A32!Own
    BY <1>4 DEF A32!Branch, A32!Literal, A32!Word
  <2>2. 3 \in Nat /\ 2 <= 3 /\ 0 = 3 - 3
    OBVIOUS
  <2>3. block[2] = A32!Branch(A32!Always, 3 - 3)
    BY <1>4, <2>2
  <2> QED BY <1>2, <1>4, <1>5, <1>7, <2>1, <2>2, <2>3, SameIfPassed32
<1> QED BY <1>6, <1>7 DEF Holds, Fails

\* BL and BLX
LEMMA SameCall32 ==
    ASSUME NEW block, NEW base, NEW inst, NEW pc, NEW moved, NEW i, IsBlock32(block, base, inst, pc, moved, i),
           NEW holds \in BOOLEAN, inst.type \in A32!Calls
    PROVE  A32!SameEffect(moved, i, holds)
<1> SUFFICES ASSUME NEW cond, cond = (IF inst.type = "blx" THEN A32!Always ELSE A32!Own), NEW a,
                    a = FixedCall32(inst, moved),
                    NEW own, Own32(own, pc)
             PROVE  A32!SameEffect(moved, i, holds)
  BY DEF Own32, Set32
<1>1. inst.to \in Int /\ base \in Int /\ ~A32!LosesThumb(inst, moved)
  BY BlockFacts32 DEF A32!Inst
<1>2. block = <<A32!Word("add_pc", cond, A32!Lr, 0, 0, 2)>>
                \o <<A32!Literal(cond, A32!Pc, 0), A32!Branch(A32!Always, 0), A32!Data(a)>>
  <2>1. inst.type \in A32!Branches
    BY DEF A32!Branches, A32!Calls
  <2>2. block = A32!RewriteB(inst, pc, moved)
    BY <2>1, BlockIs32
  <2> QED BY <2>2 DEF A32!RewriteB, A32!Calls, FixedCall32
<1>3. /\ Len(block) = 4 /\ block[1] = A32!Word("add_pc", cond, A32!Lr, 0, 0, 2)
      /\ block[2] = A32!Literal(cond, A32!Pc, 0)
      /\ block[3] = A32!Branch(A32!Always, 0) /\ block[4] = A32!Data(a)
  BY <1>2, FourWords
<1>4. A32!RewriteLen(inst) = 4
  BY DEF A32!RewriteLen, A32!Calls
<1>5. CASE inst.type = "blx" \/ Holds(holds)
  <2>1. Runs32(cond, holds)
    BY <1>5, AlwaysRuns, OwnRuns
  <2>2. Ran32(block, base, holds, a, A32!Lr, A32!Address(base + 4))
    <3>1. a # A32!None
      BY DEF FixedCall32, A32!FixThumb, A32!Address, A32!Thumb, A32!None
    <3> QED BY <1>1, <1>3, <2>1, <3>1, RunCall32
  <2>3. Did32(A32!Effect(moved, i, holds), CallTo32(inst), A32!Lr, A32!Address(moved.start + i))
    BY <1>5, EffectOfCall DEF Done32, A32!Calls
  <2>4. A32!Moved(A32!Address(moved.start + i), moved) = A32!Address(base + 4)
    BY <1>1, <1>4, BlockFacts32
  <2>5. SamePlace32(CallTo32(inst), a, moved)
    <3>1. CASE inst.type = "blx"
      <4>1. a = A32!Thumb(inst.to) /\ CallTo32(inst) = A32!Thumb(inst.to)
        BY <1>1, <3>1 DEF FixedCall32, CallTo32, A32!FixThumb, A32!LosesThumb
      <4>2. A32!Thumb(inst.to).kind # "address"
        BY DEF A32!Thumb
      <4>3. A32!Moved(A32!Thumb(inst.to), moved) = A32!Thumb(inst.to)
        BY <4>2, OtherPlace32
      <4> QED BY <4>1, <4>3 DEF SamePlace32
    <3>2. CASE inst.type # "blx"
      <4>1. a = A32!Address(A32!FixAddr(inst.to, moved)) /\ CallTo32(inst) = A32!Address(inst.to)
        BY <3>2 DEF FixedCall32, CallTo32
      <4> QED BY <1>1, <4>1, BlockFacts32
    <3> QED BY <3>1, <3>2
  <2> QED BY <1>3, <1>4, <2>2, <2>3, <2>4, <2>5, SameIf32
<1>6. CASE inst.type # "blx" /\ Fails(holds)
  <2>1. block[1].cond = A32!Own /\ block[2].cond = A32!Own
    BY <1>3, <1>6 DEF A32!Branch, A32!Literal, A32!Word
  <2>2. Ran32(block, base, holds, A32!Address(base + 4), A32!Pc, A32!None)
    BY <1>1, <1>3, <1>6, <2>1, RunNoCall32
  <2> QED BY <1>3, <1>4, <1>6, <2>2, SameIfSkipped32 DEF Skips32
<1> QED BY <1>5, <1>6 DEF Holds, Fails

\* ADR
LEMMA SameAdr32 ==
    ASSUME NEW block, NEW base, NEW inst, NEW pc, NEW moved, NEW i, IsBlock32(block, base, inst, pc, moved, i),
           NEW holds \in BOOLEAN, inst.type = "adr"
    PROVE  A32!SameEffect(moved, i, holds)
<1> SUFFICES ASSUME NEW own, Own32(own, pc)
             PROVE  A32!SameEffect(moved, i, holds)
  BY DEF Own32, Set32
<1>1. /\ inst \in A32!Inst /\ A32!Covered(inst) /\ base \in Int /\ pc \in Int /\ block # <<>>
      /\ inst.rd \in A32!Registers /\ inst.rn \in A32!Registers /\ inst.rm \in A32!Registers /\ inst.to \in Int
  BY BlockFacts32 DEF A32!Inst, IsBlock32
<1>2. inst.type # "blx" /\ inst.type \notin A32!Calls
  BY DEF A32!Calls
<1>3. block = <<A32!Literal(A32!Own, inst.rd, 0), A32!Branch(A32!Always, 0), A32!Data(A32!Address(inst.to))>>
      /\ ~A32!NeedFix(inst.to, moved)
  <2>1. block = A32!RewriteAdr(inst, moved)
    BY BlockIs32
  <2> QED BY <1>1, <2>1 DEF A32!RewriteAdr
<1>4. /\ Len(block) = 3 /\ block[1] = A32!Literal(A32!Own, inst.rd, 0) /\ block[2] = A32!Branch(A32!Always, 0)
      /\ block[3] = A32!Data(A32!Address(inst.to))
  BY <1>3
<1>5. A32!RewriteLen(inst) = 3
  BY DEF A32!RewriteLen, A32!Calls
<1>6. CASE Holds(holds) /\ inst.rd = A32!Pc
  <2>1. Ran32(block, base, holds, A32!Address(inst.to), A32!Pc, A32!None)
    BY <1>1, <1>4, <1>6, RunGoto32
  <2>2. Did32(A32!Effect(moved, i, holds), A32!Address(inst.to), A32!Pc, A32!None)
    BY <1>6, EffectOfAdr DEF Done32
  <2>3. A32!FixAddr(inst.to, moved) = inst.to
    BY <1>3 DEF A32!FixAddr
  <2>4. SamePlace32(A32!Address(inst.to), A32!Address(inst.to), moved)
    BY <1>1, <2>3, BlockFacts32
  <2> QED BY <1>2, <1>4, <1>5, <2>1, <2>2, <2>4, SameIfGone32
<1>7. CASE Holds(holds) /\ inst.rd # A32!Pc
  <2>1. Ran32(block, base, holds, A32!Address(base + 3), inst.rd, A32!Address(inst.to))
    BY <1>1, <1>4, <1>7, RunAdr32 DEF IsReg32
  <2>2. Did32(A32!Effect(moved, i, holds), A32!Address(moved.start + i), inst.rd, A32!Address(inst.to))
    BY <1>7, EffectOfAdr DEF Done32
  <2> QED BY <1>2, <1>4, <1>5, <2>1, <2>2, SameIfSet32
<1>8. CASE Fails(holds)
  <2>1. block[1].cond = A32!Own
    BY <1>4 DEF A32!Branch, A32!Literal, A32!Word
  <2>2. 3 \in Nat /\ 2 <= 3 /\ 0 = 3 - 3
    OBVIOUS
  <2>3. block[2] = A32!Branch(A32!Always, 3 - 3)
    BY <1>4, <2>2
  <2> QED BY <1>2, <1>4, <1>5, <1>8, <2>1, <2>2, <2>3, SameIfPassed32
<1> QED BY <1>6, <1>7, <1>8 DEF Holds, Fails

\* MOV into the pc
LEMMA SameMovPc32 ==
    ASSUME NEW block, NEW base, NEW inst, NEW pc, NEW moved, NEW i, IsBlock32(block, base, inst, pc, moved, i),
           NEW holds \in BOOLEAN, inst.type = "mov", inst.rd = A32!Pc
    PROVE  A32!SameEffect(moved, i, holds)
<1> SUFFICES ASSUME NEW own, Own32(own, pc)
             PROVE  A32!SameEffect(moved, i, holds)
  BY DEF Own32, Set32
<1>1. /\ inst \in A32!Inst /\ A32!Covered(inst) /\ base \in Int /\ pc \in Int /\ block # <<>>
      /\ inst.rd \in A32!Registers /\ inst.rn \in A32!Registers /\ inst.rm \in A32!Registers /\ inst.to \in Int
  BY BlockFacts32 DEF A32!Inst, IsBlock32
<1>2. inst.type # "blx" /\ inst.type \notin A32!Calls
  BY DEF A32!Calls
<1>3. block = <<A32!Literal(A32!Own, A32!Pc, 0), A32!Branch(A32!Always, 0), A32!Data(A32!Address(pc))>>
  <2>1. block = A32!RewriteMov(inst, pc)
    BY BlockIs32
  <2> QED BY <2>1 DEF A32!RewriteMov
<1>4. /\ Len(block) = 3 /\ block[1] = A32!Literal(A32!Own, A32!Pc, 0) /\ block[2] = A32!Branch(A32!Always, 0)
      /\ block[3] = A32!Data(A32!Address(pc))
  BY <1>3
<1>5. A32!RewriteLen(inst) = 3
  BY DEF A32!RewriteLen, A32!Calls
<1>6. CASE Holds(holds)
  <2>1. Ran32(block, base, holds, A32!Address(pc), A32!Pc, A32!None)
    BY <1>1, <1>4, <1>6, RunGoto32
  <2>2. Did32(A32!Effect(moved, i, holds), own[A32!Pc], A32!Pc, A32!None)
    BY <1>6, EffectOfMov DEF Done32
  <2>3. own[A32!Pc] = A32!Address(pc)
    BY OwnIs
  <2>4. SamePlace32(A32!Address(pc), A32!Address(pc), moved)
    BY BlockFacts32
  <2> QED BY <1>2, <1>4, <1>5, <2>1, <2>2, <2>3, <2>4, SameIfGone32
<1>7. CASE Fails(holds)
  <2>1. block[1].cond = A32!Own
    BY <1>4 DEF A32!Branch, A32!Literal, A32!Word
  <2>2. 3 \in Nat /\ 2 <= 3 /\ 0 = 3 - 3
    OBVIOUS
  <2>3. block[2] = A32!Branch(A32!Always, 3 - 3)
    BY <1>4, <2>2
  <2> QED BY <1>2, <1>4, <1>5, <1>7, <2>1, <2>2, <2>3, SameIfPassed32
<1> QED BY <1>6, <1>7 DEF Holds, Fails

\* and into another register
LEMMA SameMov32 ==
    ASSUME NEW block, NEW base, NEW inst, NEW pc, NEW moved, NEW i, IsBlock32(block, base, inst, pc, moved, i),
           NEW holds \in BOOLEAN, inst.type = "mov", inst.rd # A32!Pc
    PROVE  A32!SameEffect(moved, i, holds)
<1> SUFFICES ASSUME NEW own, Own32(own, pc), NEW x, x = (IF inst.rd = 0 THEN 1 ELSE 0)
             PROVE  A32!SameEffect(moved, i, holds)
  BY DEF Own32, Set32
<1>1. /\ inst \in A32!Inst /\ A32!Covered(inst) /\ base \in Int /\ pc \in Int /\ block # <<>>
      /\ inst.rd \in A32!Registers /\ inst.rn \in A32!Registers /\ inst.rm \in A32!Registers /\ inst.to \in Int
  BY BlockFacts32 DEF A32!Inst, IsBlock32
<1>2. inst.type # "blx" /\ inst.type \notin A32!Calls
  BY DEF A32!Calls
<1>3. block = <<A32!Branch(A32!Own, 0), A32!Branch(A32!Always, 5), A32!Push({x}), A32!Literal(A32!Always, x, 2), A32!Move(inst.rd, x),
                  A32!Pop({x}), A32!Branch(A32!Always, 0), A32!Data(A32!Address(pc))>>
  <2>1. block = A32!RewriteMov(inst, pc)
    BY BlockIs32
  <2> QED BY <2>1 DEF A32!RewriteMov
<1>4. /\ Len(block) = 8 /\ block[1] = A32!Branch(A32!Own, 0) /\ block[2] = A32!Branch(A32!Always, 5)
      /\ block[3] = A32!Push({x})
      /\ block[4] = A32!Literal(A32!Always, x, 2) /\ block[5] = A32!Move(inst.rd, x) /\ block[6] = A32!Pop({x})
      /\ block[7] = A32!Branch(A32!Always, 0) /\ block[8] = A32!Data(A32!Address(pc))
  BY <1>3
<1>5. A32!RewriteLen(inst) = 8
  BY DEF A32!RewriteLen, A32!Calls
<1>6. CASE Holds(holds)
  <2>1. IsReg32(x) /\ x # inst.rd /\ IsReg32(inst.rd)
    BY <1>1 DEF IsReg32, A32!Registers, A32!Pc
  <2>2. Ran32(block, base, holds, A32!Address(base + 8), inst.rd, A32!Address(pc))
    BY <1>1, <1>4, <1>6, <2>1, RunMove32
  <2>3. Did32(A32!Effect(moved, i, holds), A32!Address(moved.start + i), inst.rd, own[A32!Pc])
    BY <1>6, EffectOfMov DEF Done32
  <2>4. own[A32!Pc] = A32!Address(pc)
    BY OwnIs
  <2> QED BY <1>2, <1>4, <1>5, <2>2, <2>3, <2>4, SameIfSet32
<1>7. CASE Fails(holds)
  <2>1. block[1].cond = A32!Own
    BY <1>4 DEF A32!Branch, A32!Literal, A32!Word
  <2>2. 8 \in Nat /\ 2 <= 8 /\ 5 = 8 - 3
    OBVIOUS
  <2>3. block[2] = A32!Branch(A32!Always, 8 - 3)
    BY <1>4, <2>2
  <2> QED BY <1>2, <1>4, <1>5, <1>7, <2>1, <2>2, <2>3, SameIfPassed32
<1> QED BY <1>6, <1>7 DEF Holds, Fails

\* LDR of a literal into the pc
LEMMA SameLdrLitPc32 ==
    ASSUME NEW block, NEW base, NEW inst, NEW pc, NEW moved, NEW i, IsBlock32(block, base, inst, pc, moved, i),
           NEW holds \in BOOLEAN, inst.type = "ldr_lit", inst.rd = A32!Pc
    PROVE  A32!SameEffect(moved, i, holds)
<1> SUFFICES ASSUME NEW own, Own32(own, pc)
             PROVE  A32!SameEffect(moved, i, holds)
  BY DEF Own32, Set32
<1>1. /\ inst \in A32!Inst /\ A32!Covered(inst) /\ base \in Int /\ pc \in Int /\ block # <<>>
      /\ inst.rd \in A32!Registers /\ inst.rn \in A32!Registers /\ inst.rm \in A32!Registers /\ inst.to \in Int
  BY BlockFacts32 DEF A32!Inst, IsBlock32
<1>2. inst.type # "blx" /\ inst.type \notin A32!Calls
  BY DEF A32!Calls
<1>3. block = <<A32!Branch(A32!Own, 0), A32!Branch(A32!Always, 6), A32!Push({0, 1}), A32!Literal(A32!Always, 0, 0), A32!Branch(A32!Always, 0),
                  A32!Data(A32!Address(inst.to)), A32!Load(0, 0), A32!Store(0, 1), A32!Pop({0, A32!Pc})>>
  <2>1. block = A32!RewriteLdrLit(inst, moved)
    BY BlockIs32
  <2> QED BY <1>1, <2>1 DEF A32!RewriteLdrLit
<1>4. /\ Len(block) = 9 /\ block[1] = A32!Branch(A32!Own, 0) /\ block[2] = A32!Branch(A32!Always, 6)
      /\ block[3] = A32!Push({0, 1})
      /\ block[4] = A32!Literal(A32!Always, 0, 0) /\ block[5] = A32!Branch(A32!Always, 0)
      /\ block[6] = A32!Data(A32!Address(inst.to))
      /\ block[7] = A32!Load(0, 0) /\ block[8] = A32!Store(0, 1) /\ block[9] = A32!Pop({0, A32!Pc})
  BY <1>3
<1>5. A32!RewriteLen(inst) = 9
  BY DEF A32!RewriteLen, A32!Calls
<1>6. CASE Holds(holds)
  <2>2. Ran32(block, base, holds, A32!Memory(A32!Address(inst.to), A32!None), A32!Pc, A32!None)
    BY <1>1, <1>4, <1>6, RunLdrLitPc32
  <2>3. Did32(A32!Effect(moved, i, holds), A32!Memory(A32!Address(inst.to), A32!None), A32!Pc, A32!None)
    BY <1>6, EffectOfLdrLit DEF Done32
  <2>4. SamePlace32(A32!Memory(A32!Address(inst.to), A32!None), A32!Memory(A32!Address(inst.to), A32!None), moved)
    BY SameValue32
  <2> QED BY <1>2, <1>4, <1>5, <2>2, <2>3, <2>4, SameIfGone32
<1>7. CASE Fails(holds)
  <2>1. block[1].cond = A32!Own
    BY <1>4 DEF A32!Branch, A32!Literal, A32!Word
  <2>2. 9 \in Nat /\ 2 <= 9 /\ 6 = 9 - 3
    OBVIOUS
  <2>3. block[2] = A32!Branch(A32!Always, 9 - 3)
    BY <1>4, <2>2
  <2> QED BY <1>2, <1>4, <1>5, <1>7, <2>1, <2>2, <2>3, SameIfPassed32
<1> QED BY <1>6, <1>7 DEF Holds, Fails

\* and into another register
LEMMA SameLdrLit32 ==
    ASSUME NEW block, NEW base, NEW inst, NEW pc, NEW moved, NEW i, IsBlock32(block, base, inst, pc, moved, i),
           NEW holds \in BOOLEAN, inst.type = "ldr_lit", inst.rd # A32!Pc
    PROVE  A32!SameEffect(moved, i, holds)
<1> SUFFICES ASSUME NEW own, Own32(own, pc)
             PROVE  A32!SameEffect(moved, i, holds)
  BY DEF Own32, Set32
<1>1. /\ inst \in A32!Inst /\ A32!Covered(inst) /\ base \in Int /\ pc \in Int /\ block # <<>>
      /\ inst.rd \in A32!Registers /\ inst.rn \in A32!Registers /\ inst.rm \in A32!Registers /\ inst.to \in Int
  BY BlockFacts32 DEF A32!Inst, IsBlock32
<1>2. inst.type # "blx" /\ inst.type \notin A32!Calls
  BY DEF A32!Calls
<1>3. block = <<A32!Branch(A32!Own, 0), A32!Branch(A32!Always, 3), A32!Literal(A32!Always, inst.rd, 0), A32!Branch(A32!Always, 0),
                  A32!Data(A32!Address(inst.to)), A32!Load(inst.rd, inst.rd)>>
  <2>1. block = A32!RewriteLdrLit(inst, moved)
    BY BlockIs32
  <2> QED BY <1>1, <2>1 DEF A32!RewriteLdrLit
<1>4. /\ Len(block) = 6 /\ block[1] = A32!Branch(A32!Own, 0) /\ block[2] = A32!Branch(A32!Always, 3)
      /\ block[3] = A32!Literal(A32!Always, inst.rd, 0) /\ block[4] = A32!Branch(A32!Always, 0)
      /\ block[5] = A32!Data(A32!Address(inst.to)) /\ block[6] = A32!Load(inst.rd, inst.rd)
  BY <1>3
<1>5. A32!RewriteLen(inst) = 6
  BY DEF A32!RewriteLen, A32!Calls
<1>6. CASE Holds(holds)
  <2>1. IsReg32(inst.rd)
    BY <1>1 DEF IsReg32
  <2>2. Ran32(block, base, holds, A32!Address(base + 6), inst.rd, A32!Memory(A32!Address(inst.to), A32!None))
    BY <1>1, <1>4, <1>6, <2>1, RunLdrLit32
  <2>3. Did32(A32!Effect(moved, i, holds), A32!Address(moved.start + i), inst.rd, A32!Memory(A32!Address(inst.to), A32!None))
    BY <1>6, EffectOfLdrLit DEF Done32
  <2> QED BY <1>2, <1>4, <1>5, <2>2, <2>3, SameIfSet32
<1>7. CASE Fails(holds)
  <2>1. block[1].cond = A32!Own
    BY <1>4 DEF A32!Branch, A32!Literal, A32!Word
  <2>2. 6 \in Nat /\ 2 <= 6 /\ 3 = 6 - 3
    OBVIOUS
  <2>3. block[2] = A32!Branch(A32!Always, 6 - 3)
    BY <1>4, <2>2
  <2> QED BY <1>2, <1>4, <1>5, <1>7, <2>1, <2>2, <2>3, SameIfPassed32
<1> QED BY <1>6, <1>7 DEF Holds, Fails

\* ADD and SUB into a register
LEMMA SameAlu32 ==
    ASSUME NEW block, NEW base, NEW inst, NEW pc, NEW moved, NEW i, IsBlock32(block, base, inst, pc, moved, i),
           NEW holds \in BOOLEAN, inst.type = "alu", inst.rd # A32!Pc
    PROVE  A32!SameEffect(moved, i, holds)
<1> SUFFICES ASSUME NEW own, Own32(own, pc), NEW x, x = A32!Unused(3, {inst.rn, inst.rm, inst.rd}),
                    NEW y, y = A32!Unused(4, {inst.rn, inst.rm, inst.rd, x}),
                    NEW rn, rn = (IF inst.rn = A32!Pc THEN x ELSE inst.rn),
                    NEW rm, rm = (IF inst.rn = A32!Pc THEN inst.rm ELSE x), NEW r1, Set32(r1, A32!AtStart, x,
                    A32!Address(pc))
             PROVE  A32!SameEffect(moved, i, holds)
  BY DEF Own32, Set32
<1>1. /\ inst \in A32!Inst /\ A32!Covered(inst) /\ base \in Int /\ pc \in Int /\ block # <<>>
      /\ inst.rd \in A32!Registers /\ inst.rn \in A32!Registers /\ inst.rm \in A32!Registers /\ inst.to \in Int
  BY BlockFacts32 DEF A32!Inst, IsBlock32
<1>2. inst.type # "blx" /\ inst.type \notin A32!Calls
  BY DEF A32!Calls
<1>3. x \in 0 .. 3 /\ x # inst.rn /\ x # inst.rm /\ x # inst.rd
  BY UnusedOfThree
<1>4. y \in 0 .. 4 /\ y # x
  <2>1. A32!Unused(4, {inst.rn, inst.rm, inst.rd, x}) \in 0 .. 4
        /\ A32!Unused(4, {inst.rn, inst.rm, inst.rd, x}) # x
    BY ONLY UnusedOfFour
  <2> QED BY <2>1
<1>5. IsReg32(x) /\ IsReg32(y) /\ A32!Pc \notin 0 .. 4
  BY <1>3, <1>4 DEF IsReg32, A32!Registers, A32!Pc
<1>6. /\ rn = (IF inst.rn = A32!Pc THEN x ELSE inst.rn) /\ rm = (IF inst.rn = A32!Pc THEN inst.rm ELSE x)
      /\ (inst.rn = A32!Pc /\ inst.rm # A32!Pc) \/ (inst.rm = A32!Pc /\ inst.rn # A32!Pc)
  BY <1>1 DEF A32!Covered
<1>7. block = <<A32!Branch(A32!Own, 0), A32!Branch(A32!Always, 5)>>
                \o <<A32!Push({x}), A32!Literal(A32!Always, x, 2), A32!Compute(inst.rd, rn, rm), A32!Pop({x}), A32!Branch(A32!Always, 0)>>
                \o <<A32!Data(A32!Address(pc))>>
  <2>1. block = A32!RewriteAddOrSub(inst, pc)
    BY BlockIs32
  <2>2. CASE inst.rn = A32!Pc
    BY <1>6, <2>1, <2>2 DEF A32!RewriteAddOrSub
  <2>3. CASE inst.rn # A32!Pc
    BY <1>6, <2>1, <2>3 DEF A32!RewriteAddOrSub
  <2> QED BY <2>2, <2>3
<1>8. /\ Len(block) = 8 /\ block[1] = A32!Branch(A32!Own, 0) /\ block[2] = A32!Branch(A32!Always, 5)
      /\ block[3] = A32!Push({x})
      /\ block[4] = A32!Literal(A32!Always, x, 2) /\ block[5] = A32!Compute(inst.rd, rn, rm)
      /\ block[6] = A32!Pop({x})
      /\ block[7] = A32!Branch(A32!Always, 0) /\ block[8] = A32!Data(A32!Address(pc))
  BY <1>7, EightWords
<1>9. A32!RewriteLen(inst) = 8
  BY DEF A32!RewriteLen, A32!Calls
<1>10. CASE Holds(holds)
  <2>2. DOMAIN A32!AtStart = A32!Registers /\ \A q \in A32!Registers : A32!AtStart[q] = A32!Initial(q)
    BY StartIs
  <2>3. r1[x] = A32!Address(pc) /\ \A q \in A32!Registers \ {x} : r1[q] = A32!AtStart[q]
    BY <1>5, <2>2, SetIs DEF IsReg32
  <2>4. own[A32!Pc] = A32!Address(pc) /\ \A q \in A32!Registers \ {A32!Pc} : own[q] = A32!Initial(q)
    BY OwnIs
  <2>5. A32!Sum(r1[rn], r1[rm]) = A32!Sum(own[inst.rn], own[inst.rm])
    <3>1. CASE inst.rn = A32!Pc /\ inst.rm # A32!Pc
      BY <1>1, <1>3, <1>6, <2>2, <2>3, <2>4, <3>1
    <3>2. CASE inst.rm = A32!Pc /\ inst.rn # A32!Pc
      BY <1>1, <1>3, <1>6, <2>2, <2>3, <2>4, <3>2
    <3> QED BY <1>6, <3>1, <3>2
  <2>6. IsReg32(inst.rd)
    BY <1>1 DEF IsReg32
  <2>7. Ran32(block, base, holds, A32!Address(base + 8), inst.rd, A32!Sum(r1[rn], r1[rm]))
    BY <1>1, <1>3, <1>5, <1>8, <1>10, <2>6, RunCompute32
  <2>8. Did32(A32!Effect(moved, i, holds), A32!Address(moved.start + i), inst.rd, A32!Sum(own[inst.rn], own[inst.rm]))
    BY <1>10, EffectOfAlu DEF Done32
  <2> QED BY <1>2, <1>8, <1>9, <2>5, <2>7, <2>8, SameIfSet32
<1>11. CASE Fails(holds)
  <2>1. block[1].cond = A32!Own
    BY <1>8 DEF A32!Branch, A32!Literal, A32!Word
  <2>2. 8 \in Nat /\ 2 <= 8 /\ 5 = 8 - 3
    OBVIOUS
  <2>3. block[2] = A32!Branch(A32!Always, 8 - 3)
    BY <1>8, <2>2
  <2> QED BY <1>2, <1>8, <1>9, <1>11, <2>1, <2>2, <2>3, SameIfPassed32
<1> QED BY <1>10, <1>11 DEF Holds, Fails

\* and into the pc
LEMMA SameAluPc32 ==
    ASSUME NEW block, NEW base, NEW inst, NEW pc, NEW moved, NEW i, IsBlock32(block, base, inst, pc, moved, i),
           NEW holds \in BOOLEAN, inst.type = "alu", inst.rd = A32!Pc
    PROVE  A32!SameEffect(moved, i, holds)
<1> SUFFICES ASSUME NEW own, Own32(own, pc), NEW x, x = A32!Unused(3, {inst.rn, inst.rm, inst.rd}),
                    NEW y, y = A32!Unused(4, {inst.rn, inst.rm, inst.rd, x}),
                    NEW rn, rn = (IF inst.rn = A32!Pc THEN x ELSE inst.rn),
                    NEW rm, rm = (IF inst.rn = A32!Pc THEN inst.rm ELSE x), NEW r1, Set32(r1, A32!AtStart, x,
                    A32!Address(pc))
             PROVE  A32!SameEffect(moved, i, holds)
  BY DEF Own32, Set32
<1>1. /\ inst \in A32!Inst /\ A32!Covered(inst) /\ base \in Int /\ pc \in Int /\ block # <<>>
      /\ inst.rd \in A32!Registers /\ inst.rn \in A32!Registers /\ inst.rm \in A32!Registers /\ inst.to \in Int
  BY BlockFacts32 DEF A32!Inst, IsBlock32
<1>2. inst.type # "blx" /\ inst.type \notin A32!Calls
  BY DEF A32!Calls
<1>3. x \in 0 .. 3 /\ x # inst.rn /\ x # inst.rm /\ x # inst.rd
  BY UnusedOfThree
<1>4. y \in 0 .. 4 /\ y # x
  <2>1. A32!Unused(4, {inst.rn, inst.rm, inst.rd, x}) \in 0 .. 4
        /\ A32!Unused(4, {inst.rn, inst.rm, inst.rd, x}) # x
    BY ONLY UnusedOfFour
  <2> QED BY <2>1
<1>5. IsReg32(x) /\ IsReg32(y) /\ A32!Pc \notin 0 .. 4
  BY <1>3, <1>4 DEF IsReg32, A32!Registers, A32!Pc
<1>6. /\ rn = (IF inst.rn = A32!Pc THEN x ELSE inst.rn) /\ rm = (IF inst.rn = A32!Pc THEN inst.rm ELSE x)
      /\ (inst.rn = A32!Pc /\ inst.rm # A32!Pc) \/ (inst.rm = A32!Pc /\ inst.rn # A32!Pc)
  BY <1>1 DEF A32!Covered
<1>7. block = <<A32!Branch(A32!Own, 0), A32!Branch(A32!Always, 5)>>
                \o <<A32!Push({x, y, A32!Pc}), A32!Literal(A32!Always, x, 2), A32!Compute(y, rn, rm), A32!Store(y, 2), A32!Pop({x, y, A32!Pc})>>
                \o <<A32!Data(A32!Address(pc))>>
  <2>1. block = A32!RewriteAddOrSub(inst, pc)
    BY BlockIs32
  <2>2. CASE inst.rn = A32!Pc
    BY <1>6, <2>1, <2>2 DEF A32!RewriteAddOrSub
  <2>3. CASE inst.rn # A32!Pc
    BY <1>6, <2>1, <2>3 DEF A32!RewriteAddOrSub
  <2> QED BY <2>2, <2>3
<1>8. /\ Len(block) = 8 /\ block[1] = A32!Branch(A32!Own, 0) /\ block[2] = A32!Branch(A32!Always, 5)
      /\ block[3] = A32!Push({x, y, A32!Pc}) /\ block[4] = A32!Literal(A32!Always, x, 2)
      /\ block[5] = A32!Compute(y, rn, rm)
      /\ block[6] = A32!Store(y, 2) /\ block[7] = A32!Pop({x, y, A32!Pc}) /\ block[8] = A32!Data(A32!Address(pc))
  BY <1>7, EightWords
<1>9. A32!RewriteLen(inst) = 8
  BY DEF A32!RewriteLen, A32!Calls
<1>10. CASE Holds(holds)
  <2>2. DOMAIN A32!AtStart = A32!Registers /\ \A q \in A32!Registers : A32!AtStart[q] = A32!Initial(q)
    BY StartIs
  <2>3. r1[x] = A32!Address(pc) /\ \A q \in A32!Registers \ {x} : r1[q] = A32!AtStart[q]
    BY <1>5, <2>2, SetIs DEF IsReg32
  <2>4. own[A32!Pc] = A32!Address(pc) /\ \A q \in A32!Registers \ {A32!Pc} : own[q] = A32!Initial(q)
    BY OwnIs
  <2>5. A32!Sum(r1[rn], r1[rm]) = A32!Sum(own[inst.rn], own[inst.rm])
    <3>1. CASE inst.rn = A32!Pc /\ inst.rm # A32!Pc
      BY <1>1, <1>3, <1>6, <2>2, <2>3, <2>4, <3>1
    <3>2. CASE inst.rm = A32!Pc /\ inst.rn # A32!Pc
      BY <1>1, <1>3, <1>6, <2>2, <2>3, <2>4, <3>2
    <3> QED BY <1>6, <3>1, <3>2
  <2>6. \E lo, hi : InOrder32(lo, hi) /\ ((x = lo /\ y = hi) \/ (x = hi /\ y = lo))
    <3>1. CASE x < y
      BY <1>5, <3>1 DEF InOrder32
    <3>2. CASE y < x
      BY <1>5, <3>2 DEF InOrder32
    <3> QED BY <1>3, <1>4, <3>1, <3>2
  <2>7. PICK lo, hi : InOrder32(lo, hi) /\ ((x = lo /\ y = hi) \/ (x = hi /\ y = lo))
    BY <2>6
  <2>8. block[3] = A32!Push({lo, hi, A32!Pc}) /\ block[7] = A32!Pop({lo, hi, A32!Pc})
    <3>1. {x, y, A32!Pc} = {lo, hi, A32!Pc}
      BY <2>7
    <3> QED BY <1>8, <3>1
  <2>9. Ran32(block, base, holds, A32!Sum(r1[rn], r1[rm]), A32!Pc, A32!None)
    BY <1>1, <1>8, <1>10, <2>7, <2>8, RunComputePc32
  <2>10. Did32(A32!Effect(moved, i, holds), A32!Sum(own[inst.rn], own[inst.rm]), A32!Pc, A32!None)
    BY <1>10, EffectOfAlu DEF Done32
  <2>11. SamePlace32(A32!Sum(own[inst.rn], own[inst.rm]), A32!Sum(own[inst.rn], own[inst.rm]), moved)
    BY SameValue32
  <2> QED BY <1>2, <1>8, <1>9, <2>5, <2>9, <2>10, <2>11, SameIfGone32
<1>11. CASE Fails(holds)
  <2>1. block[1].cond = A32!Own
    BY <1>8 DEF A32!Branch, A32!Literal, A32!Word
  <2>2. 8 \in Nat /\ 2 <= 8 /\ 5 = 8 - 3
    OBVIOUS
  <2>3. block[2] = A32!Branch(A32!Always, 8 - 3)
    BY <1>8, <2>2
  <2> QED BY <1>2, <1>8, <1>9, <1>11, <2>1, <2>2, <2>3, SameIfPassed32
<1> QED BY <1>10, <1>11 DEF Holds, Fails

\* LDR with a register into a register
LEMMA SameLdrReg32 ==
    ASSUME NEW block, NEW base, NEW inst, NEW pc, NEW moved, NEW i, IsBlock32(block, base, inst, pc, moved, i),
           NEW holds \in BOOLEAN, inst.type = "ldr_reg", inst.rd # A32!Pc
    PROVE  A32!SameEffect(moved, i, holds)
<1> SUFFICES ASSUME NEW own, Own32(own, pc), NEW x, x = A32!Unused(3, {inst.rd, inst.rd + 1, inst.rm}),
                    NEW y, y = A32!Unused(4, {inst.rd, inst.rd + 1, inst.rm, x}), NEW r1, Set32(r1, A32!AtStart,
                    x, A32!Address(pc))
             PROVE  A32!SameEffect(moved, i, holds)
  BY DEF Own32, Set32
<1>1. /\ inst \in A32!Inst /\ A32!Covered(inst) /\ base \in Int /\ pc \in Int /\ block # <<>>
      /\ inst.rd \in A32!Registers /\ inst.rn \in A32!Registers /\ inst.rm \in A32!Registers /\ inst.to \in Int
  BY BlockFacts32 DEF A32!Inst, IsBlock32
<1>2. inst.type # "blx" /\ inst.type \notin A32!Calls
  BY DEF A32!Calls
<1>3. x \in 0 .. 3 /\ x # inst.rm /\ x # inst.rd
  BY UnusedOfThree
<1>4. y \in 0 .. 4 /\ y # x
  <2>1. A32!Unused(4, {inst.rd, inst.rd + 1, inst.rm, x}) \in 0 .. 4
        /\ A32!Unused(4, {inst.rd, inst.rd + 1, inst.rm, x}) # x
    BY ONLY UnusedOfFour
  <2> QED BY <2>1
<1>5. IsReg32(x) /\ IsReg32(y) /\ A32!Pc \notin 0 .. 4
  BY <1>3, <1>4 DEF IsReg32, A32!Registers, A32!Pc
<1>6. inst.rm # A32!Pc
  BY <1>1 DEF A32!Covered
<1>7. block = <<A32!Branch(A32!Own, 0), A32!Branch(A32!Always, 5), A32!Push({x}), A32!Literal(A32!Always, x, 0), A32!Branch(A32!Always, 0),
                  A32!Data(A32!Address(pc)), A32!LoadReg(inst.rd, x, inst.rm), A32!Pop({x})>>
  <2>1. block = A32!RewriteLdrReg(inst, pc)
    BY BlockIs32
  <2> QED BY <2>1 DEF A32!RewriteLdrReg
<1>8. /\ Len(block) = 8 /\ block[1] = A32!Branch(A32!Own, 0) /\ block[2] = A32!Branch(A32!Always, 5)
      /\ block[3] = A32!Push({x})
      /\ block[4] = A32!Literal(A32!Always, x, 0) /\ block[5] = A32!Branch(A32!Always, 0)
      /\ block[6] = A32!Data(A32!Address(pc))
      /\ block[7] = A32!LoadReg(inst.rd, x, inst.rm) /\ block[8] = A32!Pop({x})
  BY <1>7
<1>9. A32!RewriteLen(inst) = 8
  BY DEF A32!RewriteLen, A32!Calls
<1>10. CASE Holds(holds)
  <2>2. DOMAIN A32!AtStart = A32!Registers /\ \A q \in A32!Registers : A32!AtStart[q] = A32!Initial(q)
    BY StartIs
  <2>3. r1[x] = A32!Address(pc) /\ \A q \in A32!Registers \ {x} : r1[q] = A32!AtStart[q]
    BY <1>5, <2>2, SetIs DEF IsReg32
  <2>4. own[A32!Pc] = A32!Address(pc) /\ \A q \in A32!Registers \ {A32!Pc} : own[q] = A32!Initial(q)
    BY OwnIs
  <2>5. A32!Memory(r1[x], r1[inst.rm]) = A32!Memory(own[A32!Pc], own[inst.rm])
    BY <1>1, <1>3, <1>6, <2>2, <2>3, <2>4
  <2>6. IsReg32(inst.rd)
    BY <1>1 DEF IsReg32
  <2>7. Ran32(block, base, holds, A32!Address(base + 8), inst.rd, A32!Memory(r1[x], r1[inst.rm]))
    BY <1>1, <1>3, <1>5, <1>8, <1>10, <2>6, RunLdrReg32
  <2>8. Did32(A32!Effect(moved, i, holds), A32!Address(moved.start + i), inst.rd, A32!Memory(own[A32!Pc], own[inst.rm]))
    BY <1>10, EffectOfLdrReg DEF Done32
  <2> QED BY <1>2, <1>8, <1>9, <2>5, <2>7, <2>8, SameIfSet32
<1>11. CASE Fails(holds)
  <2>1. block[1].cond = A32!Own
    BY <1>8 DEF A32!Branch, A32!Literal, A32!Word
  <2>2. 8 \in Nat /\ 2 <= 8 /\ 5 = 8 - 3
    OBVIOUS
  <2>3. block[2] = A32!Branch(A32!Always, 8 - 3)
    BY <1>8, <2>2
  <2> QED BY <1>2, <1>8, <1>9, <1>11, <2>1, <2>2, <2>3, SameIfPassed32
<1> QED BY <1>10, <1>11 DEF Holds, Fails

\* and into the pc.
LEMMA SameLdrRegPc32 ==
    ASSUME NEW block, NEW base, NEW inst, NEW pc, NEW moved, NEW i, IsBlock32(block, base, inst, pc, moved, i),
           NEW holds \in BOOLEAN, inst.type = "ldr_reg", inst.rd = A32!Pc
    PROVE  A32!SameEffect(moved, i, holds)
<1> SUFFICES ASSUME NEW own, Own32(own, pc), NEW x, x = A32!Unused(3, {inst.rd, inst.rd + 1, inst.rm}),
                    NEW y, y = A32!Unused(4, {inst.rd, inst.rd + 1, inst.rm, x}), NEW r1, Set32(r1, A32!AtStart,
                    x, A32!Address(pc))
             PROVE  A32!SameEffect(moved, i, holds)
  BY DEF Own32, Set32
<1>1. /\ inst \in A32!Inst /\ A32!Covered(inst) /\ base \in Int /\ pc \in Int /\ block # <<>>
      /\ inst.rd \in A32!Registers /\ inst.rn \in A32!Registers /\ inst.rm \in A32!Registers /\ inst.to \in Int
  BY BlockFacts32 DEF A32!Inst, IsBlock32
<1>2. inst.type # "blx" /\ inst.type \notin A32!Calls
  BY DEF A32!Calls
<1>3. x \in 0 .. 3 /\ x # inst.rm
  BY UnusedOfThree
<1>4. y \in 0 .. 4 /\ y # x
  <2>1. A32!Unused(4, {inst.rd, inst.rd + 1, inst.rm, x}) \in 0 .. 4
        /\ A32!Unused(4, {inst.rd, inst.rd + 1, inst.rm, x}) # x
    BY ONLY UnusedOfFour
  <2> QED BY <2>1
<1>5. IsReg32(x) /\ IsReg32(y) /\ A32!Pc \notin 0 .. 4
  BY <1>3, <1>4 DEF IsReg32, A32!Registers, A32!Pc
<1>6. inst.rm # A32!Pc
  BY <1>1 DEF A32!Covered
<1>7. block = <<A32!Branch(A32!Own, 0), A32!Branch(A32!Always, 6), A32!Push({x, y, A32!Pc}), A32!Literal(A32!Always, x, 0), A32!Branch(A32!Always, 0),
                  A32!Data(A32!Address(pc)), A32!LoadReg(y, x, inst.rm), A32!Store(y, 2), A32!Pop({x, y, A32!Pc})>>
  <2>1. block = A32!RewriteLdrReg(inst, pc)
    BY BlockIs32
  <2> QED BY <2>1 DEF A32!RewriteLdrReg
<1>8. /\ Len(block) = 9 /\ block[1] = A32!Branch(A32!Own, 0) /\ block[2] = A32!Branch(A32!Always, 6)
      /\ block[3] = A32!Push({x, y, A32!Pc}) /\ block[4] = A32!Literal(A32!Always, x, 0)
      /\ block[5] = A32!Branch(A32!Always, 0)
      /\ block[6] = A32!Data(A32!Address(pc)) /\ block[7] = A32!LoadReg(y, x, inst.rm) /\ block[8] = A32!Store(y, 2)
      /\ block[9] = A32!Pop({x, y, A32!Pc})
  BY <1>7
<1>9. A32!RewriteLen(inst) = 9
  BY DEF A32!RewriteLen, A32!Calls
<1>10. CASE Holds(holds)
  <2>2. DOMAIN A32!AtStart = A32!Registers /\ \A q \in A32!Registers : A32!AtStart[q] = A32!Initial(q)
    BY StartIs
  <2>3. r1[x] = A32!Address(pc) /\ \A q \in A32!Registers \ {x} : r1[q] = A32!AtStart[q]
    BY <1>5, <2>2, SetIs DEF IsReg32
  <2>4. own[A32!Pc] = A32!Address(pc) /\ \A q \in A32!Registers \ {A32!Pc} : own[q] = A32!Initial(q)
    BY OwnIs
  <2>5. A32!Memory(r1[x], r1[inst.rm]) = A32!Memory(own[A32!Pc], own[inst.rm])
    BY <1>1, <1>3, <1>6, <2>2, <2>3, <2>4
  <2>6. \E lo, hi : InOrder32(lo, hi) /\ ((x = lo /\ y = hi) \/ (x = hi /\ y = lo))
    <3>1. CASE x < y
      BY <1>5, <3>1 DEF InOrder32
    <3>2. CASE y < x
      BY <1>5, <3>2 DEF InOrder32
    <3> QED BY <1>3, <1>4, <3>1, <3>2
  <2>7. PICK lo, hi : InOrder32(lo, hi) /\ ((x = lo /\ y = hi) \/ (x = hi /\ y = lo))
    BY <2>6
  <2>8. block[3] = A32!Push({lo, hi, A32!Pc}) /\ block[9] = A32!Pop({lo, hi, A32!Pc})
    <3>1. {x, y, A32!Pc} = {lo, hi, A32!Pc}
      BY <2>7
    <3> QED BY <1>8, <3>1
  <2>9. Ran32(block, base, holds, A32!Memory(r1[x], r1[inst.rm]), A32!Pc, A32!None)
    BY <1>1, <1>8, <1>10, <2>7, <2>8, RunLdrRegPc32
  <2>10. Did32(A32!Effect(moved, i, holds), A32!Memory(own[A32!Pc], own[inst.rm]), A32!Pc, A32!None)
    BY <1>10, EffectOfLdrReg DEF Done32
  <2>11. SamePlace32(A32!Memory(own[A32!Pc], own[inst.rm]), A32!Memory(own[A32!Pc], own[inst.rm]), moved)
    BY SameValue32
  <2> QED BY <1>2, <1>8, <1>9, <2>5, <2>9, <2>10, <2>11, SameIfGone32
<1>11. CASE Fails(holds)
  <2>1. block[1].cond = A32!Own
    BY <1>8 DEF A32!Branch, A32!Literal, A32!Word
  <2>2. 9 \in Nat /\ 2 <= 9 /\ 6 = 9 - 3
    OBVIOUS
  <2>3. block[2] = A32!Branch(A32!Always, 9 - 3)
    BY <1>8, <2>2
  <2> QED BY <1>2, <1>8, <1>9, <1>11, <2>1, <2>2, <2>3, SameIfPassed32
<1> QED BY <1>10, <1>11 DEF Holds, Fails

\* Every part of an arm function does the same from its enter, unless it uses SP in
\* a block that pushes, has the pc as both operands of an instruction, or has a BLX
\* that leads into the part (Covered and LosesThumb): each block is as long as its
\* place, sets the registers that the instruction did and no other, leaves the
\* stack as it was, and goes on where the instruction did, in thumb state for a BLX,
\* with the link register behind the block for a call (sh_a32_rewrite).
THEOREM SameOnArm ==
    ASSUME NEW moved \in A32!Part
    PROVE  A32!SameProgram(moved)
<1> SUFFICES ASSUME A32!Rewritable(moved), NEW i \in DOMAIN moved.insts, NEW holds \in BOOLEAN
             PROVE  A32!SameEffect(moved, i, holds)
  BY DEF A32!SameProgram
<1> SUFFICES ASSUME NEW inst, inst = moved.insts[i], NEW block, block = A32!Rewrite(moved, i),
                    NEW base, base = A32!BlockAt(moved, i), NEW pc, pc = A32!PcOf(moved, i)
             PROVE  A32!SameEffect(moved, i, holds)
  OBVIOUS
<1>1. DOMAIN moved.insts = 1 .. Len(moved.insts)
  BY PartIs32
<1>2. IsBlock32(block, base, inst, pc, moved, i)
  BY <1>1 DEF IsBlock32, A32!Rewritable
<1>3. inst.type \in A32!Types
  BY <1>2, BlockFacts32 DEF A32!Inst
<1> QED BY <1>2, <1>3, SameIgnored32, SameB32, SameCall32, SameAdr32, SameMovPc32, SameMov32, SameLdrLitPc32,
           SameLdrLit32, SameAlu32, SameAluPc32, SameLdrReg32, SameLdrRegPc32
           DEF A32!Types, A32!Branches

\* Whatever the parts of the functions, but for the arm parts left out above:
\* wherever the enter of a hooked function holds them, it does what they did
\* (RelocationSound).
THEOREM Relocated == SharedSpec => []RelocationSound
<1>1. RelocationSound
  BY PartsAssumption, SameOnArm64, SameOnArm DEF RelocationSound
<1> QED BY <1>1, PTL

=============================================================================
