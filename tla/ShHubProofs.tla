----------------------------- MODULE ShHubProofs -----------------------------
(***************************************************************************)
(* Proofs about the hubs of shadowhook (ShHub): types, the agreement of the  *)
(* lists with their callers, the order of a chain, which calls own the       *)
(* frames of a stack and which let a call reenter, and that nobody uses a    *)
(* hub after it was freed.                                                   *)
(*                                                                           *)
(* The invariant IInv says of every thread that the hubs it stands on were   *)
(* reachable when its outermost hooked call began or later (Held), or not    *)
(* hooked yet if its trampoline was written over that of another hub with    *)
(* the thread in it (Unseen).  As the call takes                             *)
(* no longer than CallMax and a hub rests for more than Delay after it was   *)
(* unreachable, the hub is not freed yet.  It also says which frame belongs  *)
(* to which call (Matches): every call of a proxy has the frame that the     *)
(* first proxy of its chain pushed, so that the top frame, whose list and    *)
(* hub sh_hub_get_prev_func takes, is that of the proxy that asks.  A frame   *)
(* that lets calls reenter is that of a call that asked for it and has not   *)
(* taken it back (Asked).                                                    *)
(***************************************************************************)
EXTENDS ShHub, WellFoundedInduction, SequenceTheorems, TLAPS

USE HubAssumption, HubNamesAssumption

(***************************************************************************)
(* Frames and calls                                                          *)
(***************************************************************************)
\* A call that a frame was pushed for.
Pushed(c) == c.first /\ c.fn \in Funcs

\* A call that asked for reentrancy and has not taken it back.
Asked(c) == c.fn \in Allowing /\ c.stage # "entry"

\* The i-th frame is that of the k-th call: no call pushed one in between.
FrameOf(pos, s, cs, i, k) ==
    /\ pos[i] <= k
    /\ \A j \in 1 .. Len(s) : i < j => k < pos[j]
    /\ s[i].hub = cs[k].hub
    /\ cs[k].first => pos[i] = k

MatchedBy(pos, s, cs) ==
    /\ pos \in [1 .. Len(s) -> 1 .. Len(cs)]
    /\ \A i, j \in 1 .. Len(s) : i < j => pos[i] < pos[j]
    /\ \A i \in 1 .. Len(s) : Pushed(cs[pos[i]]) /\ cs[pos[i]].ret = s[i].ret
    /\ \A i \in 1 .. Len(s) : s[i].allow => Asked(cs[pos[i]])
    /\ \A k \in 1 .. Len(cs) : cs[k].fn \in Funcs =>
            \E i \in 1 .. Len(s) : FrameOf(pos, s, cs, i, k)

Matches(s, cs) == \E pos : MatchedBy(pos, s, cs)

\* Kept apart for the provers.
LEMMA LeqTrans == \A i, j, k \in Nat : i <= j /\ j <= k => i <= k
OBVIOUS

\* A sequence with one more element.
LEMMA AppendFacts ==
    ASSUME NEW S, NEW s \in Seq(S), NEW e \in S
    PROVE  /\ Append(s, e) \in Seq(S)
           /\ Len(s) \in Nat
           /\ Len(Append(s, e)) = Len(s) + 1
           /\ DOMAIN Append(s, e) = 1 .. Len(s) + 1
           /\ \A i \in 1 .. Len(s) : Append(s, e)[i] = s[i]
           /\ Append(s, e)[Len(s) + 1] = e
           /\ Append(s, e) # <<>>
           /\ Last(Append(s, e)) = e
BY DEF Last

\* A sequence without its last element.
LEMMA FrontFacts ==
    ASSUME NEW S, NEW s \in Seq(S), s # <<>>
    PROVE  /\ Front(s) \in Seq(S)
           /\ Len(s) \in Nat \ {0}
           /\ Len(Front(s)) = Len(s) - 1
           /\ DOMAIN Front(s) = 1 .. Len(s) - 1
           /\ \A i \in 1 .. Len(s) - 1 : Front(s)[i] = s[i]
           /\ Last(s) = s[Len(s)]
           /\ Last(s) \in S
<1>1. Len(s) \in Nat \ {0} /\ Len(s) - 1 \in Nat
  BY EmptySeq
<1> DEFINE n == Len(s) - 1
<1>2. /\ SubSeq(s, 1, n) \in Seq(S)
      /\ Len(SubSeq(s, 1, n)) = n
      /\ \A i \in 1 .. n : SubSeq(s, 1, n)[i] = s[i]
  <2>1. 1 \in Int /\ n \in Int /\ \A i \in 1 .. n : s[i] \in S
    BY <1>1
  <2>2. /\ SubSeq(s, 1, n) \in Seq(S)
        /\ Len(SubSeq(s, 1, n)) = IF 1 <= n THEN n - 1 + 1 ELSE 0
        /\ \A i \in 1 .. n - 1 + 1 : SubSeq(s, 1, n)[i] = s[1 + i - 1]
    <3> HIDE DEF n
    <3> QED BY <1>1, <2>1, SubSeqProperties
  <2>3. n - 1 + 1 = n /\ \A i \in 1 .. n : 1 + i - 1 = i
    BY <1>1
  <2>4. n \in Nat
    BY <1>1
  <2> HIDE DEF n
  <2>5. (IF 1 <= n THEN n - 1 + 1 ELSE 0) = n
    BY <2>4
  <2> QED BY <2>2, <2>3, <2>5
<1>3. DOMAIN SubSeq(s, 1, n) = 1 .. n
  BY <1>2
<1> QED BY <1>1, <1>2, <1>3 DEF Front, Last

\* What is left stands where it stood.
LEMMA FrontItems ==
    ASSUME NEW S, NEW s \in Seq(S), s # <<>>
    PROVE  \A i \in 1 .. Len(s) - 1 : Front(s)[i] = s[i]
BY FrontFacts

\* PushFrame: a proxy is called with a frame of its own.
LEMMA MatchPush ==
    ASSUME NEW s \in Seq(Frame), NEW cs \in Seq(Call), Matches(s, cs),
           NEW f \in Frame, NEW c \in Call, Pushed(c), f.ret = c.ret, f.hub = c.hub,
           ~f.allow
    PROVE  Matches(Append(s, f), Append(cs, c))
<1>1. PICK pos : MatchedBy(pos, s, cs)
  BY DEF Matches
<1> DEFINE m == Len(s)  n == Len(cs)  S == Append(s, f)  C == Append(cs, c)
           new == [i \in 1 .. m + 1 |-> IF i = m + 1 THEN n + 1 ELSE pos[i]]
<1>2. m \in Nat /\ n \in Nat /\ Len(S) = m + 1 /\ Len(C) = n + 1
  BY AppendFacts
<1>3. S[m + 1] = f /\ C[n + 1] = c
  BY AppendFacts
<1>4. (\A i \in 1 .. m : S[i] = s[i]) /\ (\A i \in 1 .. n : C[i] = cs[i])
  BY AppendFacts
<1>5. \A i \in 1 .. m : pos[i] \in 1 .. n /\ new[i] = pos[i]
  <2>1. pos \in [1 .. m -> 1 .. n]
    BY <1>1 DEF MatchedBy
  <2> HIDE DEF S, C, m, n
  <2>2. \A i \in 1 .. m : i \in 1 .. m + 1 /\ i # m + 1
    BY <1>2
  <2> QED BY <2>1, <2>2
<1> HIDE DEF S, C, m, n
<1>6. new[m + 1] = n + 1 /\ new \in [1 .. m + 1 -> 1 .. n + 1]
  <2>1. m + 1 \in 1 .. m + 1 /\ \A i \in 1 .. m : i # m + 1
    BY <1>2
  <2>2. \A i \in 1 .. m + 1 : i # m + 1 => i \in 1 .. m
    BY <1>2
  <2>3. (1 .. n) \subseteq 1 .. n + 1 /\ n + 1 \in 1 .. n + 1
    BY <1>2
  <2> QED BY <1>5, <2>1, <2>2, <2>3
<1>a. \A i \in 1 .. m + 1 : i \in 1 .. m \/ i = m + 1
  BY <1>2
<1>b. \A i \in 1 .. n + 1 : i \in 1 .. n \/ i = n + 1
  BY <1>2
<1> HIDE DEF new
<1>7. \A i, j \in 1 .. m + 1 : i < j => new[i] < new[j]
  <2> SUFFICES ASSUME NEW i \in 1 .. m + 1, NEW j \in 1 .. m + 1, i < j PROVE new[i] < new[j]
    OBVIOUS
  <2>1. i \in 1 .. m
    BY <1>2
  <2>2. CASE j = m + 1
    <3>1. pos[i] \in 1 .. n /\ new[i] = pos[i]
      BY <1>5, <2>1
    <3> QED BY <1>2, <1>6, <2>2, <3>1
  <2>3. CASE j \in 1 .. m
    <3>1. pos[i] < pos[j]
      BY <1>1, <2>1, <2>3 DEF MatchedBy, m
    <3> QED BY <1>5, <2>1, <2>3, <3>1
  <2> QED BY <1>a, <2>2, <2>3
<1>8. \A i \in 1 .. m + 1 : Pushed(C[new[i]]) /\ C[new[i]].ret = S[i].ret
  <2> TAKE i \in 1 .. m + 1
  <2>1. CASE i = m + 1
    BY <1>3, <1>6, <2>1
  <2>2. CASE i \in 1 .. m
    <3>1. pos[i] \in 1 .. n /\ new[i] = pos[i] /\ S[i] = s[i]
      BY <1>4, <1>5, <2>2
    <3>2. C[pos[i]] = cs[pos[i]]
      BY <1>4, <3>1
    <3> QED BY <1>1, <2>2, <3>1, <3>2 DEF MatchedBy, m
  <2> QED BY <1>a, <2>1, <2>2
<1>9. ASSUME NEW k \in 1 .. n + 1, C[k].fn \in Funcs
      PROVE  \E i \in 1 .. m + 1 : FrameOf(new, S, C, i, k)
  <2>1. CASE k = n + 1
    <3>1. FrameOf(new, S, C, m + 1, k)
      BY <1>2, <1>3, <1>6, <2>1 DEF FrameOf
    <3> QED BY <1>2, <3>1
  <2>2. CASE k \in 1 .. n
    <3>1. PICK i \in 1 .. m : FrameOf(pos, s, cs, i, k)
      BY <1>1, <1>4, <1>9, <2>2 DEF MatchedBy, m, n
    <3>2. ASSUME NEW j \in 1 .. m + 1, i < j PROVE k < new[j]
      <4>1. CASE j = m + 1
        BY <1>2, <1>6, <2>2, <4>1
      <4>2. CASE j \in 1 .. m
        BY <1>5, <3>1, <3>2, <4>2 DEF FrameOf, m
      <4> QED BY <1>a, <4>1, <4>2
    <3>3. FrameOf(new, S, C, i, k)
      BY <1>2, <1>4, <1>5, <2>2, <3>1, <3>2 DEF FrameOf
    <3> QED BY <1>2, <3>3
  <2> QED BY <1>b, <2>1, <2>2
<1>10. \A i \in 1 .. m + 1 : S[i].allow => Asked(C[new[i]])
  <2> SUFFICES ASSUME NEW i \in 1 .. m + 1, S[i].allow PROVE Asked(C[new[i]])
    OBVIOUS
  <2>1. i \in 1 .. m
    BY <1>3, <1>a
  <2>2. pos[i] \in 1 .. n /\ new[i] = pos[i] /\ S[i] = s[i]
    BY <1>4, <1>5, <2>1
  <2>3. C[pos[i]] = cs[pos[i]]
    BY <1>4, <2>2
  <2> QED BY <1>1, <2>1, <2>2, <2>3 DEF MatchedBy, m
<1>11. MatchedBy(new, S, C)
  BY <1>2, <1>6, <1>7, <1>8, <1>9, <1>10 DEF MatchedBy
<1> QED BY <1>11 DEF Matches, S, C

\* The top frame is that of the innermost call, when a proxy runs there.
LEMMA MatchTop ==
    ASSUME NEW s \in Seq(Frame), NEW cs \in Seq(Call), Matches(s, cs),
           cs # <<>>, Last(cs).fn \in Funcs
    PROVE  /\ s # <<>>
           /\ Last(s).hub = Last(cs).hub
           /\ Last(cs).first => /\ Last(s).ret = Last(cs).ret
                                /\ Last(s).allow => Asked(Last(cs))
<1>1. PICK pos : MatchedBy(pos, s, cs)
  BY DEF Matches
<1>2. Len(cs) \in Nat \ {0} /\ Last(cs) = cs[Len(cs)] /\ Len(s) \in Nat
  BY EmptySeq DEF Last
<1>3. PICK i \in 1 .. Len(s) : FrameOf(pos, s, cs, i, Len(cs))
  BY <1>1, <1>2 DEF MatchedBy
<1>4. \A j \in 1 .. Len(s) : pos[j] \in 1 .. Len(cs)
  BY <1>1 DEF MatchedBy
<1>5. i = Len(s)
  <2>1. Len(s) \in 1 .. Len(s) /\ i \in Nat
    BY <1>2, <1>3
  <2>2. ~(i < Len(s))
    <3>1. i < Len(s) => Len(cs) < pos[Len(s)]
      BY <1>3, <2>1 DEF FrameOf
    <3>2. pos[Len(s)] \in 1 .. Len(cs)
      BY <1>4, <2>1
    <3> QED BY <1>2, <3>1, <3>2
  <2> QED BY <1>2, <1>3, <2>1, <2>2
<1>6. s # <<>> /\ Last(s) = s[Len(s)]
  BY <1>3 DEF Last
<1> QED BY <1>1, <1>2, <1>3, <1>5, <1>6 DEF FrameOf, MatchedBy

\* A call without a frame: of the original function, or of a proxy further down
\* the chain, which has the hub of the top frame.
LEMMA MatchCall ==
    ASSUME NEW s \in Seq(Frame), NEW cs \in Seq(Call), Matches(s, cs),
           NEW c \in Call, ~Pushed(c),
           c.fn \in Funcs => s # <<>> /\ c.hub = Last(s).hub
    PROVE  Matches(s, Append(cs, c))
<1>1. PICK pos : MatchedBy(pos, s, cs)
  BY DEF Matches
<1> DEFINE m == Len(s)  n == Len(cs)  C == Append(cs, c)
<1>2. m \in Nat /\ n \in Nat /\ Len(C) = n + 1 /\ C[n + 1] = c
  BY AppendFacts
<1>3. \A i \in 1 .. n : C[i] = cs[i]
  BY AppendFacts
<1>4. \A i \in 1 .. m : pos[i] \in 1 .. n
  BY <1>1 DEF MatchedBy
<1>5. \A i \in 1 .. n + 1 : i \in 1 .. n \/ i = n + 1
  BY <1>2
<1>6. c.fn \in Funcs => m \in 1 .. m /\ s[m].hub = c.hub
  <2> SUFFICES ASSUME c.fn \in Funcs PROVE m \in 1 .. m /\ s[m].hub = c.hub
    OBVIOUS
  <2> QED BY <1>2, EmptySeq DEF Last
<1> HIDE DEF C, m, n
<1>7. pos \in [1 .. m -> 1 .. n + 1]
  BY <1>1, <1>2, <1>4 DEF MatchedBy, m, n
<1>8. ASSUME NEW k \in 1 .. n + 1, C[k].fn \in Funcs
      PROVE  \E i \in 1 .. m : FrameOf(pos, s, C, i, k)
  <2>1. CASE k = n + 1
    <3>1. \A j \in 1 .. m : ~(m < j)
      BY <1>2
    <3>2. FrameOf(pos, s, C, m, k)
      BY <1>2, <1>4, <1>6, <1>8, <2>1, <3>1 DEF FrameOf, Pushed, m
    <3> QED BY <1>2, <1>6, <1>8, <2>1, <3>2
  <2>2. CASE k \in 1 .. n
    <3>1. PICK i \in 1 .. m : FrameOf(pos, s, cs, i, k)
      BY <1>1, <1>3, <1>8, <2>2 DEF MatchedBy, m, n
    <3>2. FrameOf(pos, s, C, i, k)
      BY <1>3, <2>2, <3>1 DEF FrameOf
    <3> QED BY <3>2
  <2> QED BY <1>5, <2>1, <2>2
<1>9. \A i \in 1 .. m : C[pos[i]] = cs[pos[i]]
  BY <1>3, <1>4
<1>10. MatchedBy(pos, s, C)
  BY <1>1, <1>2, <1>7, <1>8, <1>9 DEF MatchedBy, m, n
<1> QED BY <1>10 DEF Matches, C

\* The proxy that the top frame was pushed for returns, and its frame goes.
LEMMA MatchPop ==
    ASSUME NEW s \in Seq(Frame), NEW cs \in Seq(Call), Matches(s, cs),
           cs # <<>>, Pushed(Last(cs))
    PROVE  s # <<>> /\ Last(s).ret = Last(cs).ret /\ Matches(Front(s), Front(cs))
<1>1. PICK pos : MatchedBy(pos, s, cs)
  BY DEF Matches
<1>2. s # <<>> /\ Last(s).ret = Last(cs).ret
  BY MatchTop DEF Pushed
<1> DEFINE m == Len(s) - 1  n == Len(cs) - 1  S == Front(s)  C == Front(cs)
           new == [i \in 1 .. m |-> pos[i]]
<1>3. m \in Nat /\ n \in Nat /\ Len(s) = m + 1 /\ Len(cs) = n + 1
  BY <1>2, FrontFacts
<1>4. Len(S) = m /\ Len(C) = n
  BY <1>2, FrontFacts
<1>5. (\A i \in 1 .. m : S[i] = s[i]) /\ (\A i \in 1 .. n : C[i] = cs[i])
  <2>1. \A i \in 1 .. Len(s) - 1 : Front(s)[i] = s[i]
    BY <1>2, FrontItems
  <2>2. \A i \in 1 .. Len(cs) - 1 : Front(cs)[i] = cs[i]
    BY FrontItems
  <2> QED BY <2>1, <2>2
<1>6. Pushed(cs[n + 1])
  BY <1>3 DEF Last
<1> HIDE DEF m, n, S, C
<1>7. \A i \in 1 .. m + 1 : pos[i] \in 1 .. n + 1
  BY <1>1, <1>3 DEF MatchedBy
<1>8. \A i, j \in 1 .. m + 1 : i < j => pos[i] < pos[j]
  BY <1>1, <1>3 DEF MatchedBy
<1>9. \A i \in 1 .. m : i \in 1 .. m + 1 /\ i < m + 1 /\ m + 1 \in 1 .. m + 1
  BY <1>3
<1>10. \A i \in 1 .. m : pos[i] \in 1 .. n
  <2> TAKE i \in 1 .. m
  <2>1. pos[i] < pos[m + 1] /\ pos[i] \in 1 .. n + 1 /\ pos[m + 1] \in 1 .. n + 1
    BY <1>7, <1>8, <1>9
  <2> QED BY <1>3, <2>1
<1>11. new \in [1 .. m -> 1 .. n] /\ \A i \in 1 .. m : new[i] = pos[i]
  BY <1>10
<1> HIDE DEF new
<1>12. \A i \in 1 .. m :
          /\ Pushed(C[new[i]]) /\ C[new[i]].ret = S[i].ret
          /\ S[i].allow => Asked(C[new[i]])
  <2> TAKE i \in 1 .. m
  <2>1. /\ Pushed(cs[pos[i]]) /\ cs[pos[i]].ret = s[i].ret
        /\ s[i].allow => Asked(cs[pos[i]])
    BY <1>1, <1>3, <1>9 DEF MatchedBy
  <2>2. C[new[i]] = cs[pos[i]] /\ S[i] = s[i]
    BY <1>5, <1>10, <1>11
  <2> QED BY <2>1, <2>2
<1>13. ASSUME NEW k \in 1 .. n, C[k].fn \in Funcs
       PROVE  \E i \in 1 .. m : FrameOf(new, S, C, i, k)
  <2>1. k \in 1 .. n + 1 /\ C[k] = cs[k] /\ k < n + 1
    BY <1>3, <1>5
  <2>2. PICK i \in 1 .. m + 1 : FrameOf(pos, s, cs, i, k)
    BY <1>1, <1>3, <1>13, <2>1 DEF MatchedBy
  <2>3. pos[m + 1] = n + 1
    <3>1. PICK j \in 1 .. m + 1 : FrameOf(pos, s, cs, j, n + 1)
      BY <1>1, <1>3, <1>6 DEF MatchedBy, Pushed
    <3>2. pos[j] = n + 1
      BY <1>6, <3>1 DEF FrameOf, Pushed
    <3>3. j = m + 1
      <4> SUFFICES ASSUME j < m + 1 PROVE FALSE
        <5>1. \A x \in 1 .. m + 1 : x < m + 1 \/ x = m + 1
          BY <1>3
        <5> QED BY <3>1, <5>1
      <4>1. m + 1 \in 1 .. m + 1
        BY <1>3
      <4>2. n + 1 < pos[m + 1] /\ pos[m + 1] \in 1 .. n + 1
        BY <1>7, <1>8, <3>2, <4>1
      <4>3. \A x \in 1 .. n + 1 : ~(n + 1 < x)
        BY <1>3
      <4> QED BY <4>2, <4>3
    <3> QED BY <3>2, <3>3
  <2>4. i # m + 1
    BY <1>3, <2>1, <2>2, <2>3 DEF FrameOf
  <2>5. i \in 1 .. m
    BY <1>3, <2>2, <2>4
  <2>6. FrameOf(new, S, C, i, k)
    BY <1>3, <1>4, <1>5, <1>9, <1>11, <2>1, <2>2, <2>5 DEF FrameOf
  <2> QED BY <2>5, <2>6
<1>14. \A i, j \in 1 .. m : i < j => new[i] < new[j]
  BY <1>8, <1>9, <1>11
<1>15. MatchedBy(new, S, C)
  BY <1>4, <1>11, <1>12, <1>13, <1>14 DEF MatchedBy
<1> QED BY <1>2, <1>15 DEF Matches, S, C

\* Any other call returns, and no frame goes.
LEMMA MatchReturn ==
    ASSUME NEW s \in Seq(Frame), NEW cs \in Seq(Call), Matches(s, cs),
           cs # <<>>, ~Pushed(Last(cs))
    PROVE  Matches(s, Front(cs))
<1>1. PICK pos : MatchedBy(pos, s, cs)
  BY DEF Matches
<1> DEFINE m == Len(s)  n == Len(cs) - 1  C == Front(cs)
<1>3. m \in Nat /\ n \in Nat /\ Len(cs) = n + 1
  BY FrontFacts
<1>4. Len(C) = n
  BY FrontFacts
<1>5. \A i \in 1 .. n : C[i] = cs[i]
  BY FrontFacts
<1>6. ~Pushed(cs[n + 1])
  BY <1>3 DEF Last
<1> HIDE DEF m, n, C
<1>7. \A i \in 1 .. m : pos[i] \in 1 .. n + 1 /\ Pushed(cs[pos[i]])
  BY <1>1, <1>3 DEF MatchedBy, m
<1>8. \A i \in 1 .. m : pos[i] \in 1 .. n
  BY <1>3, <1>6, <1>7
<1>9. pos \in [1 .. m -> 1 .. n]
  BY <1>1, <1>8 DEF MatchedBy, m
<1>10. ASSUME NEW k \in 1 .. n, C[k].fn \in Funcs
       PROVE  \E i \in 1 .. m : FrameOf(pos, s, C, i, k)
  <2>1. k \in 1 .. n + 1 /\ C[k] = cs[k]
    BY <1>3, <1>5
  <2>2. PICK i \in 1 .. m : FrameOf(pos, s, cs, i, k)
    BY <1>1, <1>3, <1>10, <2>1 DEF MatchedBy, m
  <2> QED BY <2>1, <2>2 DEF FrameOf
<1>11. \A i \in 1 .. m : C[pos[i]] = cs[pos[i]]
  BY <1>5, <1>8
<1>12. MatchedBy(pos, s, C)
  BY <1>1, <1>3, <1>4, <1>9, <1>10, <1>11 DEF MatchedBy, m
<1> QED BY <1>12 DEF Matches, C

\* The parts that flags and stages do not touch.
SameFrames(s, s2) ==
    /\ Len(s2) = Len(s)
    /\ \A i \in 1 .. Len(s) :
        s2[i].ret = s[i].ret /\ s2[i].hub = s[i].hub /\ s2[i].top = s[i].top
        /\ s2[i].orig = s[i].orig

SameCalls(cs, cs2) ==
    /\ Len(cs2) = Len(cs)
    /\ \A k \in 1 .. Len(cs) :
        /\ cs2[k].fn = cs[k].fn /\ cs2[k].first = cs[k].first
        /\ cs2[k].ret = cs[k].ret /\ cs2[k].hub = cs[k].hub /\ cs2[k].at = cs[k].at

\* Only the top frame and the innermost call are touched; a flag is set only on
\* the frame of a call that asks for it, and cleared before that call takes it
\* back.
TopTouched(s, cs, s2, cs2) ==
    /\ \A i \in 1 .. Len(s) : i < Len(s) => s2[i].allow = s[i].allow
    /\ \A k \in 1 .. Len(cs) : k < Len(cs) => cs2[k].stage = cs[k].stage
    /\ s # <<>> /\ cs # <<>> =>
        IF Pushed(Last(cs)) THEN s2[Len(s)].allow => Asked(cs2[Len(cs)])
        ELSE s2[Len(s)].allow => s[Len(s)].allow

\* Such flags and stages keep the match.
LEMMA MatchSame ==
    ASSUME NEW s \in Seq(Frame), NEW cs \in Seq(Call), NEW s2, NEW cs2, Matches(s, cs),
           SameFrames(s, s2), SameCalls(cs, cs2), TopTouched(s, cs, s2, cs2)
    PROVE  Matches(s2, cs2)
<1>1. PICK pos : MatchedBy(pos, s, cs)
  BY DEF Matches
<1> DEFINE m == Len(s)  n == Len(cs)
<1>2. m \in Nat /\ n \in Nat /\ Len(s2) = m /\ Len(cs2) = n
  BY DEF SameFrames, SameCalls
<1>3. \A i \in 1 .. m : pos[i] \in 1 .. n
  BY <1>1 DEF MatchedBy
<1>4. pos \in [1 .. Len(s2) -> 1 .. Len(cs2)]
  BY <1>1, <1>2 DEF MatchedBy
<1>5. \A i \in 1 .. Len(s2) : Pushed(cs2[pos[i]]) /\ cs2[pos[i]].ret = s2[i].ret
  BY <1>1 DEF MatchedBy, SameFrames, SameCalls, Pushed
<1>6. ASSUME NEW k \in 1 .. Len(cs2), cs2[k].fn \in Funcs
      PROVE  \E i \in 1 .. Len(s2) : FrameOf(pos, s2, cs2, i, k)
  <2>1. PICK i \in 1 .. Len(s) : FrameOf(pos, s, cs, i, k)
    BY <1>1, <1>6 DEF MatchedBy, SameCalls
  <2> QED BY <1>6, <2>1 DEF FrameOf, SameFrames, SameCalls
<1>7. ASSUME NEW i \in 1 .. m, i < m, s2[i].allow PROVE Asked(cs2[pos[i]])
  <2>1. s[i].allow /\ Asked(cs[pos[i]])
    BY <1>1, <1>7 DEF TopTouched, MatchedBy
  <2>2. m \in 1 .. m
    BY <1>2, <1>7
  <2>3. pos[i] < pos[m] /\ pos[i] \in 1 .. n /\ pos[m] \in 1 .. n
    BY <1>1, <1>3, <1>7, <2>2 DEF MatchedBy
  <2>4. pos[i] < n
    BY <1>2, <2>3
  <2>5. cs2[pos[i]].stage = cs[pos[i]].stage /\ cs2[pos[i]].fn = cs[pos[i]].fn
    BY <2>3, <2>4 DEF TopTouched, SameCalls
  <2> QED BY <2>1, <2>5 DEF Asked
<1>8. ASSUME m \in 1 .. m, s2[m].allow PROVE Asked(cs2[pos[m]])
  <2>1. pos[m] \in 1 .. n /\ n \in 1 .. n
    BY <1>2, <1>3, <1>8
  <2>2. s # <<>> /\ cs # <<>> /\ Last(cs) = cs[n]
    BY <1>8, <2>1 DEF Last
  <2>3. CASE Pushed(cs[n])
    <3>1. PICK i \in 1 .. m : FrameOf(pos, s, cs, i, n)
      BY <1>1, <2>1, <2>3 DEF MatchedBy, Pushed
    <3>2. pos[i] = n
      BY <2>3, <3>1 DEF FrameOf, Pushed
    <3>3. ~(i < m)
      <4>1. i < m => n < pos[m]
        BY <1>8, <3>1 DEF FrameOf
      <4> QED BY <1>2, <2>1, <4>1
    <3>4. i = m
      BY <1>2, <3>1, <3>3
    <3>5. Asked(cs2[n])
      BY <1>8, <2>2, <2>3 DEF TopTouched
    <3> QED BY <3>2, <3>4, <3>5
  <2>4. CASE ~Pushed(cs[n])
    <3>1. Pushed(cs[pos[m]]) /\ (s[m].allow => Asked(cs[pos[m]]))
      BY <1>1, <1>8 DEF MatchedBy
    <3>2. pos[m] < n
      BY <1>2, <2>1, <2>4, <3>1
    <3>3. cs2[pos[m]].stage = cs[pos[m]].stage /\ cs2[pos[m]].fn = cs[pos[m]].fn
      BY <2>1, <3>2 DEF TopTouched, SameCalls
    <3>4. s[m].allow
      BY <1>8, <2>2, <2>4 DEF TopTouched
    <3> QED BY <3>1, <3>3, <3>4 DEF Asked
  <2> QED BY <2>3, <2>4
<1>9. \A i \in 1 .. Len(s2) : s2[i].allow => Asked(cs2[pos[i]])
  <2>1. \A i \in 1 .. m : i < m \/ (i = m /\ m \in 1 .. m)
    BY <1>2
  <2> QED BY <1>2, <1>7, <1>8, <2>1
<1>10. MatchedBy(pos, s2, cs2)
  BY <1>1, <1>4, <1>5, <1>6, <1>9 DEF MatchedBy, SameFrames
<1> QED BY <1>10 DEF Matches

\* A set of positions that is not empty has a last one.
LEMMA HasLast ==
    ASSUME NEW n \in Nat, NEW S \in SUBSET (1 .. n), S # {}
    PROVE  \E i \in S : \A j \in S : j <= i
<1> DEFINE T == {n - i : i \in S}
<1>1. T \subseteq Nat /\ T # {}
  <2>1. \A i \in S : n - i \in Nat
    OBVIOUS
  <2>2. PICK i \in S : TRUE
    OBVIOUS
  <2>3. n - i \in T
    OBVIOUS
  <2> QED BY <2>1, <2>3
<1>2. PICK x \in T : \A y \in T : ~(<<y, x>> \in OpToRel(<, Nat))
  <2> HIDE DEF T
  <2> QED BY <1>1, WFMin, NatLessThanWellFounded
<1>3. \A y \in T : ~(y < x)
  BY <1>1, <1>2 DEF OpToRel
<1>4. PICK i \in S : x = n - i
  OBVIOUS
<1>5. \A j \in S : j <= i
  <2> TAKE j \in S
  <2>1. ~(n - j < x)
    BY <1>3
  <2> QED BY <2>1, <1>4
<1> QED BY <1>5

\* What Max chooses from such a set.
LEMMA MaxIsLast ==
    ASSUME NEW n \in Nat, NEW S \in SUBSET (1 .. n), S # {}
    PROVE  Max(S) \in S /\ \A j \in S : j <= Max(S)
<1>1. PICK i \in S : \A j \in S : j <= i
  BY HasLast
<1>2. \A j \in S : i >= j
  BY <1>1
<1>3. Max(S) \in S /\ \A j \in S : Max(S) >= j
  <2>1. Max(S) = CHOOSE x \in S : \A j \in S : x >= j
    BY DEF Max
  <2> QED BY <1>2, <2>1
<1> QED BY <1>3

UniqueFuncs(s) == \A i, j \in DOMAIN s : s[i].func = s[j].func => i = j

\* The list has grown, and its older items have the functions they had.
Grown(s, s2) ==
    /\ s2 \in Seq(Item)
    /\ Len(s) <= Len(s2)
    /\ \A i \in 1 .. Len(s) : s2[i].func = s[i].func

\* The items of a list.
LEMMA Items ==
    ASSUME NEW s \in Seq(Item)
    PROVE  /\ Len(s) \in Nat
           /\ DOMAIN s = 1 .. Len(s)
           /\ s \in [1 .. Len(s) -> Item]
           /\ \A i \in 1 .. Len(s) : s[i].func \in Funcs /\ s[i].enabled \in BOOLEAN
<1>1. Len(s) \in Nat /\ DOMAIN s = 1 .. Len(s) /\ s \in [1 .. Len(s) -> Item]
  OBVIOUS
<1>2. ASSUME NEW i \in 1 .. Len(s) PROVE s[i].func \in Funcs /\ s[i].enabled \in BOOLEAN
  <2>1. s[i] \in Item
    BY <1>1
  <2> QED BY <2>1 DEF Item
<1> QED BY <1>1, <1>2

\* sh_hub_add_proxy leaves one item for each function, and enables its own.
LEMMA AddedRight ==
    ASSUME NEW s \in Seq(Item), NEW f \in Funcs, UniqueFuncs(s)
    PROVE  /\ Grown(s, ProxyAdded(s, f))
           /\ UniqueFuncs(ProxyAdded(s, f))
           /\ EnabledIn(ProxyAdded(s, f)) = EnabledIn(s) \cup {f}
<1> DEFINE S == ProxyAdded(s, f)
<1>1. CASE Has(s, f)
  <2>1. S = [i \in DOMAIN s |-> IF s[i].func = f THEN [s[i] EXCEPT !.enabled = TRUE] ELSE s[i]]
    BY <1>1 DEF ProxyAdded
  <2>2. \A i \in 1 .. Len(s) : [s[i] EXCEPT !.enabled = TRUE] \in Item
    <3> TAKE i \in 1 .. Len(s)
    <3>1. s[i] \in Item
      OBVIOUS
    <3> QED BY <3>1 DEF Item
  <2>3. S \in [1 .. Len(s) -> Item]
    BY <2>1, <2>2, Items
  <2>4. S \in Seq(Item) /\ Len(S) = Len(s) /\ DOMAIN S = DOMAIN s
    BY <2>3, Items
  <2> HIDE DEF S
  <2>5. \A i \in DOMAIN s : /\ S[i].func = s[i].func
                            /\ S[i].enabled <=> s[i].enabled \/ s[i].func = f
    BY <2>1, Items DEF Item
  <2>6. UniqueFuncs(S) /\ Grown(s, S)
    <3>1. UniqueFuncs(S)
      BY <2>4, <2>5 DEF UniqueFuncs
    <3>2. Len(s) \in Nat /\ DOMAIN s = 1 .. Len(s)
      BY Items
    <3>3. Grown(s, S)
      BY <2>4, <2>5, <3>2 DEF Grown
    <3> QED BY <3>1, <3>3
  <2>7. EnabledIn(S) = EnabledIn(s) \cup {f}
    <3>1. PICK i \in DOMAIN s : s[i].func = f
      BY <1>1 DEF Has
    <3>2. f \in EnabledIn(S)
      BY <2>4, <2>5, <3>1 DEF EnabledIn
    <3>3. EnabledIn(s) \subseteq EnabledIn(S)
      BY <2>4, <2>5 DEF EnabledIn
    <3>4. EnabledIn(S) \subseteq EnabledIn(s) \cup {f}
      BY <2>4, <2>5 DEF EnabledIn
    <3> QED BY <3>2, <3>3, <3>4
  <2> QED BY <2>6, <2>7 DEF S
<1>2. CASE ~Has(s, f)
  <2> DEFINE new == [func |-> f, enabled |-> TRUE]
  <2>1. S = Append(s, new) /\ new \in Item
    BY <1>2 DEF ProxyAdded, Item
  <2>2. /\ Append(s, new) \in Seq(Item)
        /\ Len(Append(s, new)) = Len(s) + 1
        /\ DOMAIN Append(s, new) = 1 .. Len(s) + 1
        /\ \A i \in 1 .. Len(s) : Append(s, new)[i] = s[i]
        /\ Append(s, new)[Len(s) + 1] = new
    <3> HIDE DEF new
    <3> QED BY <2>1, AppendFacts
  <2>3. new.func = f /\ new.enabled
    OBVIOUS
  <2> HIDE DEF new, S
  <2>4. Len(s) \in Nat /\ DOMAIN s = 1 .. Len(s) /\ \A i \in 1 .. Len(s) : s[i].func # f
    BY <1>2, Items DEF Has
  <2>5. \A i \in 1 .. Len(s) + 1 : i \in 1 .. Len(s) \/ i = Len(s) + 1
    BY <2>4
  <2>a. /\ DOMAIN S = 1 .. Len(s) + 1 /\ S[Len(s) + 1] = new
        /\ \A i \in DOMAIN s : i \in DOMAIN S /\ S[i] = s[i]
        /\ \A i \in DOMAIN S : i \in DOMAIN s \/ i = Len(s) + 1
        /\ Len(s) + 1 \in DOMAIN S
    BY <2>1, <2>2, <2>4, <2>5
  <2>6. Grown(s, S)
    BY <2>1, <2>2, <2>4 DEF Grown
  <2>7. UniqueFuncs(S)
    <3> SUFFICES ASSUME NEW i \in DOMAIN S, NEW j \in DOMAIN S, S[i].func = S[j].func PROVE i = j
      BY DEF UniqueFuncs
    <3>1. CASE i \in DOMAIN s /\ j \in DOMAIN s
      BY <2>a, <3>1 DEF UniqueFuncs
    <3>2. CASE i \in DOMAIN s /\ j = Len(s) + 1
      BY <2>a, <2>3, <2>4, <3>2
    <3>3. CASE i = Len(s) + 1 /\ j \in DOMAIN s
      BY <2>a, <2>3, <2>4, <3>3
    <3> QED BY <2>a, <3>1, <3>2, <3>3
  <2>8. EnabledIn(S) = EnabledIn(s) \cup {f}
    <3>1. f \in EnabledIn(S)
      BY <2>a, <2>3 DEF EnabledIn
    <3>2. EnabledIn(s) \subseteq EnabledIn(S)
      BY <2>a DEF EnabledIn
    <3>3. EnabledIn(S) \subseteq EnabledIn(s) \cup {f}
      BY <2>a, <2>3 DEF EnabledIn
    <3> QED BY <3>1, <3>2, <3>3
  <2> QED BY <2>6, <2>7, <2>8 DEF S
<1> QED BY <1>1, <1>2

\* sh_hub_delete_proxy disables its own item only, and finds out whether another
\* one is enabled, though it may stop before the end of the list.
LEMMA DeletedRight ==
    ASSUME NEW s \in Seq(Item), NEW f \in Funcs, UniqueFuncs(s)
    PROVE  /\ Grown(s, ProxyDeleted(s, f))
           /\ UniqueFuncs(ProxyDeleted(s, f))
           /\ EnabledIn(ProxyDeleted(s, f)) = EnabledIn(s) \ {f}
           /\ HaveEnabled(s, f) <=> EnabledIn(s) \ {f} # {}
<1> DEFINE S == ProxyDeleted(s, f)
<1>1. Len(s) \in Nat /\ DOMAIN s = 1 .. Len(s)
  BY Items
\* The item of the function is the only one, so that the walk gets to it.
<1>2. \A i \in DOMAIN s : s[i].func = f => i \in Visited(s, f)
  <2> SUFFICES ASSUME NEW i \in DOMAIN s, s[i].func = f PROVE i \in Visited(s, f)
    OBVIOUS
  <2>1. \A j \in i + 1 .. Len(s) : j \in DOMAIN s /\ j # i
    BY <1>1
  <2>2. \A j \in i + 1 .. Len(s) : s[j].func # f
    BY <2>1 DEF UniqueFuncs
  <2> QED BY <2>2 DEF Visited
<1>3. S = [i \in DOMAIN s |-> IF s[i].func = f THEN [s[i] EXCEPT !.enabled = FALSE] ELSE s[i]]
  BY <1>2 DEF ProxyDeleted
<1>4. \A i \in 1 .. Len(s) : [s[i] EXCEPT !.enabled = FALSE] \in Item
  <2> TAKE i \in 1 .. Len(s)
  <2>1. s[i] \in Item
    OBVIOUS
  <2> QED BY <2>1 DEF Item
<1>5. S \in [1 .. Len(s) -> Item]
  BY <1>3, <1>4, Items
<1>6. S \in Seq(Item) /\ Len(S) = Len(s) /\ DOMAIN S = DOMAIN s
  BY <1>5, Items
<1> HIDE DEF S
<1>7. \A i \in DOMAIN s : /\ S[i].func = s[i].func
                          /\ S[i].enabled <=> s[i].enabled /\ s[i].func # f
  BY <1>3, Items DEF Item
<1>8. UniqueFuncs(S) /\ Grown(s, S)
  <2>1. UniqueFuncs(S)
    BY <1>6, <1>7 DEF UniqueFuncs
  <2>2. Grown(s, S)
    BY <1>1, <1>6, <1>7 DEF Grown
  <2> QED BY <2>1, <2>2
<1>9. EnabledIn(S) = EnabledIn(s) \ {f}
  <2>1. EnabledIn(S) \subseteq EnabledIn(s) \ {f}
    BY <1>6, <1>7 DEF EnabledIn
  <2>2. EnabledIn(s) \ {f} \subseteq EnabledIn(S)
    BY <1>6, <1>7 DEF EnabledIn
  <2> QED BY <2>1, <2>2
<1>10. HaveEnabled(s, f) => EnabledIn(s) \ {f} # {}
  BY DEF HaveEnabled, Visited, OtherEnabled, EnabledIn
\* The first enabled item of another function is one the walk gets to.
<1>11. EnabledIn(s) \ {f} # {} => HaveEnabled(s, f)
  <2> SUFFICES ASSUME EnabledIn(s) \ {f} # {} PROVE HaveEnabled(s, f)
    OBVIOUS
  <2> DEFINE O == {i \in DOMAIN s : OtherEnabled(s, f, i)}
  <2>1. O # {} /\ O \in SUBSET (1 .. Len(s))
    BY <1>1 DEF EnabledIn, OtherEnabled
  <2>2. PICK i \in O : \A j \in O : j <= i
    <3> HIDE DEF O
    <3> QED BY <1>1, <2>1, HasLast
  <2>3. \A j \in i + 1 .. Len(s) : ~OtherEnabled(s, f, j)
    <3> SUFFICES ASSUME NEW j \in i + 1 .. Len(s), OtherEnabled(s, f, j) PROVE FALSE
      OBVIOUS
    <3>1. j \in DOMAIN s /\ i \in Nat /\ j \in Nat /\ ~(j <= i)
      BY <1>1, <2>1
    <3> QED BY <2>2, <3>1
  <2> QED BY <2>2, <2>3 DEF HaveEnabled, Visited
<1> QED BY <1>8, <1>9, <1>10, <1>11 DEF S

(***************************************************************************)
(* The inductive invariant                                                   *)
(***************************************************************************)
\* A stack of the cache belongs to one thread and is marked used; any other is
\* the thread's own.
StacksOwned ==
    /\ \A t \in Threads : mem[t] \in {NoStack, t} \cup used
    /\ \A t, u \in Threads : t # u /\ mem[t] # NoStack => mem[t] # mem[u]

\* The lists agree with their owners, and a hub on its way out has none.
ListsRight ==
    \A h \in Hubs :
        /\ UniqueFuncs(proxies[h])
        /\ EnabledIn(proxies[h]) = owners[h]
        /\ phase[h] = "live" /\ proxies[h] # <<>> => owners[h] # {}
        /\ phase[h] \in {"new", "made", "unused"} => proxies[h] = <<>>
        /\ phase[h] # "live" => owners[h] = {}

(***************************************************************************)
(* What is right of a thread, of its walk w, its calls cs, the time b they   *)
(* began, its stack s and the memory m that the stack is in.                 *)
(***************************************************************************)
\* No hooked call takes longer than CallMax.
InTime(w, cs, b) ==
    /\ b \in Nat /\ b <= now
    /\ cs # <<>> \/ w # Idle => now <= b + CallMax

\* The hub was reachable when the outermost call began.
Held(b, h) ==
    \/ phase[h] \in {"live", "empty"}
    \/ phase[h] \in {"leaving", "swept", "delayed"} /\ b <= stamp[h]

\* What a walk stands on is there.
WalkRight(w, cs, b, s, m) ==
    w # Idle =>
        /\ Held(b, w.hub) \/ (w.mode = "trampo" /\ Unseen(w.hub))
        /\ w.mode = "prev" <=> w.ret[2] = Prev
        /\ w.mode # "trampo" => w.at <= Len(proxies[w.hub]) /\ m # NoStack
        /\ w.mode = "found" => w.at > 0
        /\ w.mode = "prev" =>
            /\ s # <<>>
            /\ cs # <<>>
            /\ Last(cs).fn \in Funcs
            /\ Last(cs).hub = w.hub
            /\ w.at < Last(cs).at

FrameRight(f, b) ==
    /\ Held(b, f.hub)
    /\ f.top <= Len(proxies[f.hub])
    /\ f.ret[2] # Prev

\* A proxy runs as an item of a list that is there.
CallRight(c, b) ==
    /\ c.first <=> c.ret[2] # Prev
    /\ c.fn \in Funcs =>
        /\ Held(b, c.hub)
        /\ 0 < c.at /\ c.at <= Len(proxies[c.hub])
        /\ proxies[c.hub][c.at].func = c.fn

\* A function is entered again only where its frames below allow it, or from the
\* trampoline of another hub.
Entered(w, s) ==
    /\ w.mode \in {"push", "found"} => ~Recursive(s, w.hub) \/ Astray(w)
    /\ \A i, j \in 1 .. Len(s) : i < j /\ s[i].orig = s[j].orig => s[i].allow \/ Astray(s[j])

FramesRight(s, b) == \A i \in 1 .. Len(s) : FrameRight(s[i], b)
CallsRight(cs, b) == \A k \in 1 .. Len(cs) : CallRight(cs[k], b)

\* A function that was called by a proxy stands after it.
InOrder(cs) == \A k \in 1 .. Len(cs) : k > 1 /\ ~cs[k].first => cs[k].at < cs[k - 1].at

Right(w, cs, b, s, m) ==
    /\ InTime(w, cs, b)
    /\ WalkRight(w, cs, b, s, m)
    /\ FramesRight(s, b)
    /\ CallsRight(cs, b)
    /\ InOrder(cs)
    /\ Matches(s, cs)
    /\ Entered(w, s)

ThreadRight(t) == Right(walk[t], calls[t], began[t], Stack(t), mem[t])

IInv ==
    /\ TypeOK
    /\ began \in [Threads -> Nat]
    /\ \A h \in Hubs : stamp[h] <= now
    /\ StacksOwned
    /\ ListsRight
    /\ \A t \in Threads : ThreadRight(t)

(***************************************************************************)
(* Steps of a thread                                                         *)
(***************************************************************************)
LEMMA Names ==
    /\ Idle \notin Walk
    /\ \A w \in Walk : w # Idle
    /\ \A t \in Threads : t # NoStack /\ t \in Memory
    /\ \A m \in Slots : m # NoStack /\ m \in Memory /\ m \notin Threads
    /\ \A f \in Funcs : f \notin Origs
    /\ \A h \in Hubs : h # Prev
<1>1. ASSUME NEW w \in Walk PROVE w # Idle
  <2>1. w.mode \in {"trampo", "push", "found", "prev"} /\ Idle.mode = "idle"
    BY DEF Walk, Idle
  <2> QED BY <2>1
<1> QED BY <1>1 DEF Memory

\* The stack of a thread has its type.
LEMMA StackTyped ==
    ASSUME TypeOK, NEW t \in Threads
    PROVE  /\ Stack(t) \in Seq(Frame)
           /\ Len(Stack(t)) <= FrameMax
           /\ mem[t] # NoStack => mem[t] \in Memory /\ Stack(t) = frames[mem[t]]
           /\ mem[t] = NoStack => Stack(t) = <<>>
<1>1. CASE mem[t] = NoStack
  BY <1>1 DEF Stack
<1>2. CASE mem[t] # NoStack
  BY <1>2 DEF Stack, TypeOK
<1> QED BY <1>1, <1>2

\* What is right of a thread depends on the clock and the hubs only.
LEMMA SameRight ==
    ASSUME UNCHANGED <<now, hubVars>>, NEW w, NEW cs, NEW b, NEW s, NEW m,
           Right(w, cs, b, s, m)
    PROVE  Right(w, cs, b, s, m)'
<1>1. \A c, h : Held(c, h)' <=> Held(c, h)
  BY DEF Held, hubVars
<1>2. InTime(w, cs, b)'
  BY DEF Right, InTime
<1>3. WalkRight(w, cs, b, s, m)'
  BY <1>1 DEF Right, WalkRight, Unseen, hubVars
<1>4. FramesRight(s, b)'
  BY <1>1 DEF Right, FramesRight, FrameRight, hubVars
<1>5. CallsRight(cs, b)'
  BY <1>1 DEF Right, CallsRight, CallRight, hubVars
<1>6. InOrder(cs) /\ Matches(s, cs) /\ Entered(w, s)
  BY DEF Right
<1> QED BY <1>2, <1>3, <1>4, <1>5, <1>6 DEF Right

\* The other threads are as they were.
LEMMA OthersRight ==
    ASSUME IInv, NEW t \in Threads, UNCHANGED <<now, hubVars>>,
           mem'[t] = mem[t], walk'[t] = walk[t], calls'[t] = calls[t], began'[t] = began[t],
           mem[t] # NoStack => frames'[mem[t]] = frames[mem[t]]
    PROVE  ThreadRight(t)'
<1>1. Stack(t)' = Stack(t)
  BY DEF Stack
<1>2. Right(walk[t], calls[t], began[t], Stack(t), mem[t])
  BY DEF IInv, ThreadRight
<1>3. PICK w, cs, b, s, m :
          /\ w = walk[t] /\ cs = calls[t] /\ b = began[t] /\ s = Stack(t) /\ m = mem[t]
  OBVIOUS
<1>4. Right(w, cs, b, s, m)'
  BY <1>2, <1>3, SameRight
<1>5. walk'[t] = w /\ calls'[t] = cs /\ began'[t] = b /\ Stack(t)' = s /\ mem'[t] = m
  BY <1>1, <1>3
<1> QED BY <1>4, <1>5 DEF ThreadRight

\* A thread takes a step on its own stack: it ends up with the walk w, the calls
\* cs that began at b, and the stack s.
StepTo(t, w, cs, b, s) ==
    /\ walk' = [walk EXCEPT ![t] = w]
    /\ calls' = [calls EXCEPT ![t] = cs]
    /\ began' = [began EXCEPT ![t] = b]
    /\ IF mem[t] = NoStack THEN s = <<>> /\ UNCHANGED frames
       ELSE frames' = [frames EXCEPT ![mem[t]] = s]

\* Such a step keeps the invariant if the thread is right after it.
LEMMA StepKeeps ==
    ASSUME IInv, NEW t \in Threads, UNCHANGED <<now, hubVars, mem, used>>,
           NEW w \in Walk \cup {Idle}, NEW cs \in Seq(Call), NEW b,
           NEW s \in Seq(Frame), Len(s) <= FrameMax,
           StepTo(t, w, cs, b, s), Right(w, cs, b, s, mem[t])
    PROVE  IInv'
<1>1. TypeOK /\ began \in [Threads -> Nat] /\ StacksOwned
  BY DEF IInv
<1>2. walk \in [Threads -> Walk \cup {Idle}] /\ calls \in [Threads -> Seq(Call)]
  BY <1>1 DEF TypeOK
<1>3. walk' \in [Threads -> Walk \cup {Idle}] /\ calls' \in [Threads -> Seq(Call)]
  BY <1>2 DEF StepTo
<1>4. began' \in [Threads -> Nat]
  <2>1. b \in Nat
    BY DEF Right, InTime
  <2> QED BY <1>1, <2>1 DEF StepTo
<1>5. frames \in [Memory -> Seq(Frame)] /\ \A m \in Memory : Len(frames[m]) <= FrameMax
  BY <1>1 DEF TypeOK
<1>6. frames' \in [Memory -> Seq(Frame)] /\ \A m \in Memory : Len(frames'[m]) <= FrameMax
  <2>1. CASE UNCHANGED frames
    BY <1>5, <2>1
  <2>2. CASE frames' = [frames EXCEPT ![mem[t]] = s]
    <3>1. \A m \in Memory : frames'[m] = IF m = mem[t] THEN s ELSE frames[m]
      BY <1>5, <2>2
    <3>2. frames' \in [Memory -> Seq(Frame)]
      BY <1>5, <2>2
    <3> QED BY <1>5, <3>1, <3>2
  <2> QED BY <2>1, <2>2 DEF StepTo
<1>7. TypeOK'
  BY <1>1, <1>3, <1>6 DEF TypeOK, hubVars
<1>8. mem[t] # NoStack => mem[t] \in Memory
  BY <1>1 DEF TypeOK
<1>9. Stack(t)' = s
  BY <1>5, <1>8 DEF StepTo, Stack
<1>10. walk'[t] = w /\ calls'[t] = cs /\ began'[t] = b /\ mem'[t] = mem[t]
  BY <1>1, <1>2 DEF StepTo
<1>11. ThreadRight(t)'
  BY <1>9, <1>10 DEF ThreadRight, Right, InTime, WalkRight, FramesRight, CallsRight,
                     FrameRight, CallRight, Held, Unseen, hubVars
<1>12. ASSUME NEW u \in Threads, u # t PROVE ThreadRight(u)'
  <2>1. walk'[u] = walk[u] /\ calls'[u] = calls[u] /\ began'[u] = began[u]
    BY <1>1, <1>2, <1>12 DEF StepTo
  <2>2. mem[u] # NoStack => mem[u] \in Memory /\ mem[u] # mem[t]
    BY <1>1, <1>12 DEF StacksOwned, TypeOK
  <2>3. mem[u] # NoStack => frames'[mem[u]] = frames[mem[u]]
    BY <1>5, <2>2 DEF StepTo
  <2> QED BY <2>1, <2>3, OthersRight
<1>13. (StacksOwned /\ ListsRight /\ \A h \in Hubs : stamp[h] <= now)'
  BY DEF IInv, StacksOwned, ListsRight, hubVars
<1> QED BY <1>4, <1>7, <1>11, <1>12, <1>13 DEF IInv

\* The types of what a thread has.
LEMMA TypedThread ==
    ASSUME IInv, NEW t \in Threads
    PROVE  /\ walk[t] \in Walk \cup {Idle}
           /\ calls[t] \in Seq(Call)
           /\ Stack(t) \in Seq(Frame)
           /\ Len(Stack(t)) <= FrameMax
           /\ mem[t] = NoStack => Stack(t) = <<>>
           /\ Right(walk[t], calls[t], began[t], Stack(t), mem[t])
           /\ proxies \in [Hubs -> Seq(Item)]
           /\ now \in Nat
BY StackTyped DEF IInv, TypeOK, ThreadRight

\* What a step leaves alone.
LEMMA SameStack ==
    ASSUME IInv, NEW t \in Threads, UNCHANGED frames
    PROVE  IF mem[t] = NoStack THEN Stack(t) = <<>> /\ UNCHANGED frames
           ELSE frames' = [frames EXCEPT ![mem[t]] = Stack(t)]
<1>1. frames \in [Memory -> Seq(Frame)] /\ TypeOK
  BY DEF IInv, TypeOK
<1>2. CASE mem[t] = NoStack
  BY <1>1, <1>2, StackTyped
<1>3. CASE mem[t] # NoStack
  BY <1>1, <1>3, StackTyped
<1> QED BY <1>2, <1>3

\* Walks and calls that stay.
LEMMA SameWalk ==
    ASSUME IInv, NEW t \in Threads
    PROVE  /\ [walk EXCEPT ![t] = walk[t]] = walk
           /\ [calls EXCEPT ![t] = calls[t]] = calls
<1>1. walk \in [Threads -> Walk \cup {Idle}] /\ calls \in [Threads -> Seq(Call)]
  BY DEF IInv, TypeOK
<1> QED BY <1>1

\* The time the outermost call began stays.
LEMMA SameBegan ==
    ASSUME IInv, NEW t \in Threads, UNCHANGED began
    PROVE  began' = [began EXCEPT ![t] = began[t]]
BY DEF IInv

\* Only a walk into a hub asks for more.
LEMMA EnteredAs ==
    ASSUME NEW w, NEW s, Entered(w, s), NEW w2,
           w2.mode \in {"push", "found"} => ~Recursive(s, w2.hub) \/ Astray(w2)
    PROVE  Entered(w2, s)
BY DEF Entered

LEMMA IdleMode == Idle.mode \notin {"push", "found"}
BY DEF Idle

\* Nothing is entered where there are no frames.
LEMMA EnteredNone ==
    ASSUME NEW w
    PROVE  Entered(w, <<>>)
BY DEF Entered, Recursive

\* A frame for a function that may be entered.
LEMMA EnteredPush ==
    ASSUME NEW s \in Seq(Frame), NEW f \in Frame, NEW h, Entered(Idle, s),
           ~Recursive(s, h) \/ Astray(f), f.orig = OrigOf[h]
    PROVE  Entered(Idle, Append(s, f))
<1> DEFINE S == Append(s, f)  m == Len(s)
<1>1. /\ m \in Nat /\ Len(S) = m + 1 /\ S[m + 1] = f
      /\ \A i \in 1 .. m : S[i] = s[i]
  BY AppendFacts
<1> HIDE DEF S
<1>2. \A i \in 1 .. m : s[i].orig = f.orig => s[i].allow \/ Astray(f)
  <2>1. DOMAIN s = 1 .. m
    OBVIOUS
  <2> QED BY <2>1 DEF Recursive
<1>3. ASSUME NEW i \in 1 .. m + 1, NEW j \in 1 .. m + 1, i < j, S[i].orig = S[j].orig
      PROVE  S[i].allow \/ Astray(S[j])
  <2>1. i \in 1 .. m
    BY <1>1, <1>3
  <2>2. CASE j = m + 1
    BY <1>1, <1>2, <1>3, <2>1, <2>2
  <2>3. CASE j # m + 1
    <3>1. j \in 1 .. m
      BY <1>1, <2>3
    <3> QED BY <1>1, <1>3, <2>1, <3>1 DEF Entered
  <2> QED BY <2>2, <2>3
<1> QED BY <1>1, <1>3, IdleMode DEF Entered, S

\* The top frame goes.
LEMMA EnteredPop ==
    ASSUME NEW s \in Seq(Frame), s # <<>>, Entered(Idle, s)
    PROVE  Entered(Idle, Front(s))
<1>1. /\ Len(s) \in Nat \ {0} /\ Len(Front(s)) = Len(s) - 1
      /\ \A i \in 1 .. Len(s) - 1 : Front(s)[i] = s[i]
  BY FrontFacts
<1>2. \A i \in 1 .. Len(s) - 1 : i \in 1 .. Len(s)
  BY <1>1
<1> QED BY <1>1, <1>2, IdleMode DEF Entered

\* A walk ends in a call.
LEMMA CalledRight ==
    ASSUME IInv, NEW t \in Threads, walk[t] # Idle,
           NEW c \in Call, CallRight(c, began[t]),
           ~c.first => calls[t] # <<>> /\ c.at < Last(calls[t]).at,
           NEW s \in Seq(Frame), FramesRight(s, began[t]), Matches(s, Append(calls[t], c)),
           Entered(Idle, s)
    PROVE  /\ Append(calls[t], c) \in Seq(Call)
           /\ Right(Idle, Append(calls[t], c), began[t], s, mem[t])
<1> DEFINE cs == calls[t]  C == Append(cs, c)  b == began[t]
<1>1. cs \in Seq(Call) /\ Right(walk[t], cs, b, Stack(t), mem[t])
  BY TypedThread
<1>2. /\ C \in Seq(Call) /\ Len(C) = Len(cs) + 1 /\ Len(cs) \in Nat
      /\ \A k \in 1 .. Len(cs) : C[k] = cs[k]
      /\ C[Len(cs) + 1] = c
  BY <1>1, AppendFacts
<1>3. \A k \in 1 .. Len(cs) + 1 : k \in 1 .. Len(cs) \/ k = Len(cs) + 1
  BY <1>2
<1>4. Last(cs) = cs[Len(cs)]
  BY DEF Last
<1>5. ~c.first => Len(cs) \in 1 .. Len(cs)
  BY <1>1, <1>2, EmptySeq
<1>6. Matches(s, C)
  OBVIOUS
<1>7. CallsRight(cs, b) /\ InOrder(cs) /\ InTime(walk[t], cs, b)
  BY <1>1 DEF Right
<1>8. b = began[t] /\ cs = calls[t]
  OBVIOUS
<1> HIDE DEF C, cs, b
<1>9. CallsRight(C, b)
  BY <1>2, <1>3, <1>7, <1>8 DEF CallsRight
<1>10. InOrder(C)
  <2> SUFFICES ASSUME NEW k \in 1 .. Len(cs) + 1, k > 1, ~C[k].first
               PROVE  C[k].at < C[k - 1].at
    BY <1>2 DEF InOrder
  <2>1. CASE k \in 1 .. Len(cs)
    <3>1. k - 1 \in 1 .. Len(cs)
      BY <1>2, <2>1
    <3> QED BY <1>2, <1>7, <2>1, <3>1 DEF InOrder
  <2>2. CASE k = Len(cs) + 1
    <3>1. k - 1 = Len(cs) /\ ~c.first
      BY <1>2, <2>2
    <3> QED BY <1>2, <1>4, <1>5, <1>8, <2>2, <3>1
  <2> QED BY <1>3, <2>1, <2>2
<1>11. InTime(Idle, C, b)
  BY <1>7, <1>8 DEF InTime
<1>12. WalkRight(Idle, C, b, s, mem[t])
  BY DEF WalkRight
<1> QED BY <1>2, <1>6, <1>8, <1>9, <1>10, <1>11, <1>12 DEF Right, C

\* The original function is called at once.
LEMMA ToOrigIInv ==
    ASSUME IInv, NEW t \in Threads, walk[t] # Idle, walk[t].mode # "prev",
           UNCHANGED <<now, hubVars, stackVars, began>>, ToOrig(t)
    PROVE  IInv'
<1> DEFINE w == walk[t]
           c == [fn |-> OrigOf[w.hub], hub |-> w.hub, ret |-> w.ret, first |-> TRUE, at |-> 0,
                 stage |-> "entry", nested |-> FALSE]
           cs == Append(calls[t], c)
<1>1. w \in Walk /\ Right(w, calls[t], began[t], Stack(t), mem[t])
  BY TypedThread
<1>2. w.hub \in Hubs /\ w.ret \in Site /\ OrigOf[w.hub] \in Origs
  BY <1>1 DEF Walk
<1>3. c \in Call
  BY <1>2 DEF Call
<1>4. c.fn \notin Funcs /\ c.first /\ c.ret = w.ret
  BY <1>2
<1>5. calls' = [calls EXCEPT ![t] = cs] /\ walk' = [walk EXCEPT ![t] = Idle]
  BY DEF ToOrig, Enter
<1>6. w.ret[2] # Prev
  BY <1>1 DEF Right, WalkRight
<1> HIDE DEF c, w
<1>7. CallRight(c, began[t])
  BY <1>4, <1>6 DEF CallRight
<1>8. ~Pushed(c)
  BY <1>4 DEF Pushed
<1>9. Matches(Stack(t), cs)
  BY <1>1, <1>3, <1>4, <1>8, TypedThread, MatchCall DEF Right
<1>10. cs \in Seq(Call) /\ Right(Idle, cs, began[t], Stack(t), mem[t])
  <2>1. Entered(Idle, Stack(t))
    BY <1>1, EnteredAs, IdleMode DEF Right
  <2> QED BY <1>1, <1>3, <1>4, <1>7, <1>9, <2>1, TypedThread, CalledRight DEF Right
<1> HIDE DEF cs
<1>11. StepTo(t, Idle, cs, began[t], Stack(t))
  BY <1>5, SameStack, SameBegan DEF StepTo, stackVars
<1> QED BY <1>10, <1>11, TypedThread, StepKeeps DEF stackVars

\* A walk goes on to the next item, or turns to another.
LEMMA WalkIInv ==
    ASSUME IInv, NEW t \in Threads, walk[t] # Idle,
           UNCHANGED <<now, hubVars, stackVars, calls, began>>,
           NEW w \in Walk, walk' = [walk EXCEPT ![t] = w],
           w.hub = walk[t].hub, w.ret = walk[t].ret, Held(began[t], w.hub),
           w.mode = "prev" <=> walk[t].mode = "prev",
           w.mode # "trampo" => w.at <= Len(proxies[w.hub]) /\ mem[t] # NoStack,
           w.mode = "found" => w.at > 0,
           w.mode = "prev" => w.at <= walk[t].at,
           w.mode \in {"push", "found"} => ~Recursive(Stack(t), w.hub) \/ Astray(w)
    PROVE  IInv'
<1>1. /\ walk[t] \in Walk
      /\ Right(walk[t], calls[t], began[t], Stack(t), mem[t])
      /\ calls[t] \in Seq(Call)
  BY TypedThread
<1>2. w # Idle /\ w.at \in Nat /\ walk[t].at \in Nat
  BY <1>1, Names DEF Walk
<1>3. calls[t] # <<>> => Last(calls[t]).at \in Nat
  <2> SUFFICES ASSUME calls[t] # <<>> PROVE Last(calls[t]).at \in Nat
    OBVIOUS
  <2>1. Last(calls[t]) \in Call
    BY <1>1, FrontFacts
  <2> QED BY <2>1 DEF Call
<1>4. WalkRight(w, calls[t], began[t], Stack(t), mem[t])
  BY <1>1, <1>2, <1>3 DEF Right, WalkRight
<1>5. InTime(w, calls[t], began[t])
  BY <1>1 DEF Right, InTime
<1>6. Right(w, calls[t], began[t], Stack(t), mem[t])
  <2>1. Entered(w, Stack(t))
    BY <1>1, EnteredAs DEF Right
  <2> QED BY <1>1, <1>4, <1>5, <2>1 DEF Right
<1>7. StepTo(t, w, calls[t], began[t], Stack(t))
  BY SameStack, SameWalk, SameBegan DEF StepTo, stackVars
<1> QED BY <1>6, <1>7, TypedThread, StepKeeps DEF stackVars

\* A walk goes one item further.
LEMMA WalkedOn ==
    ASSUME NEW w \in Walk, w.at # 0
    PROVE  LET w2 == [w EXCEPT !.at = w.at - 1] IN
             w2 \in Walk /\ w2.hub = w.hub /\ w2.ret = w.ret /\ w2.mode = w.mode /\ w2.at = w.at - 1
<1>1. w.at \in Nat /\ w.at - 1 \in Nat
  BY DEF Walk
<1>2. \A n \in Nat : LET w2 == [w EXCEPT !.at = n] IN
        w2 \in Walk /\ w2.hub = w.hub /\ w2.ret = w.ret /\ w2.mode = w.mode /\ w2.at = n
  BY DEF Walk
<1> QED BY <1>1, <1>2

\* An item of the list in sh_hub_push_stack.
LEMMA PushWalkIInv ==
    ASSUME IInv, NEW t \in Threads, PushWalk(t)
    PROVE  IInv'
<1> DEFINE w == walk[t]
<1>1. w.mode = "push" /\ w # Idle
  BY DEF PushWalk, Idle
<1>2. w \in Walk /\ Right(w, calls[t], began[t], Stack(t), mem[t])
  BY <1>1, TypedThread
<1>3. /\ w.at \in Nat /\ w.hub \in Hubs /\ w.at <= Len(proxies[w.hub]) /\ mem[t] # NoStack
      /\ Held(began[t], w.hub)
  BY <1>1, <1>2 DEF Right, WalkRight, Walk
<1>a. ~Recursive(Stack(t), w.hub) \/ Astray(w)
  BY <1>1, <1>2 DEF Right, Entered
<1>b. \A v : v.hub = w.hub /\ v.ret = w.ret => (Astray(v) <=> Astray(w))
  BY DEF Astray
<1>4. CASE w.at = 0
  <2>1. ToOrig(t)
    BY <1>4 DEF PushWalk
  <2> QED BY <1>1, <2>1, ToOrigIInv DEF PushWalk
<1>5. CASE w.at # 0 /\ proxies[w.hub][w.at].enabled
  <2> DEFINE w2 == [w EXCEPT !.mode = "found"]
  <2>1. walk' = [walk EXCEPT ![t] = w2] /\ UNCHANGED <<now, hubVars, stackVars, calls, began>>
    BY <1>5 DEF PushWalk
  <2>2. w2 \in Walk /\ w2.hub = w.hub /\ w2.ret = w.ret /\ w2.mode = "found" /\ w2.at = w.at
    BY <1>2 DEF Walk
  <2> HIDE DEF w2
  <2>3. w2.at > 0
    BY <1>3, <1>5, <2>2
  <2> QED BY <1>1, <1>3, <1>a, <1>b, <2>1, <2>2, <2>3, WalkIInv
<1>6. CASE w.at # 0 /\ ~proxies[w.hub][w.at].enabled
  <2> DEFINE w2 == [w EXCEPT !.at = w.at - 1]
  <2>1. walk' = [walk EXCEPT ![t] = w2] /\ UNCHANGED <<now, hubVars, stackVars, calls, began>>
    BY <1>6 DEF PushWalk
  <2>2. w2 \in Walk /\ w2.hub = w.hub /\ w2.ret = w.ret /\ w2.mode = "push" /\ w2.at = w.at - 1
    <3>1. w \in Walk /\ w.mode = "push" /\ w.at # 0
      BY <1>1, <1>2, <1>3, <1>6
    <3> HIDE DEF w
    <3> QED BY <3>1, WalkedOn
  <2> HIDE DEF w2
  <2>3. Len(proxies[w.hub]) \in Nat
    BY <1>3, TypedThread
  <2>4. w2.at <= Len(proxies[w.hub])
    BY <1>3, <2>2, <2>3
  <2> QED BY <1>1, <1>3, <1>a, <1>b, <2>1, <2>2, <2>4, WalkIInv
<1> QED BY <1>4, <1>5, <1>6

\* The frame is pushed, or there is no room for it.
LEMMA PushFrameIInv ==
    ASSUME IInv, NEW t \in Threads, PushFrame(t)
    PROVE  IInv'
<1> DEFINE w == walk[t]
<1>1. w.mode = "found" /\ w # Idle
  BY DEF PushFrame, Idle
<1>2. w \in Walk /\ Right(w, calls[t], began[t], Stack(t), mem[t])
  BY <1>1, TypedThread
<1>3. /\ w.at \in Nat /\ w.hub \in Hubs /\ w.ret \in Site
      /\ 0 < w.at /\ w.at <= Len(proxies[w.hub]) /\ mem[t] # NoStack
      /\ Held(began[t], w.hub) /\ w.ret[2] # Prev
  BY <1>1, <1>2 DEF Right, WalkRight, Walk
<1>a. (~Recursive(Stack(t), w.hub) \/ Astray(w)) /\ Entered(Idle, Stack(t))
  <2>1. Entered(w, Stack(t))
    BY <1>2 DEF Right
  <2> QED BY <1>1, <2>1, EnteredAs, IdleMode DEF Entered
<1>4. CASE Full(Stack(t))
  <2>1. ToOrig(t) /\ UNCHANGED <<now, hubVars, stackVars, began>>
    BY <1>4 DEF PushFrame, stackVars
  <2> QED BY <1>1, <2>1, ToOrigIInv
<1>5. CASE ~Full(Stack(t))
  <2> DEFINE f == [hub |-> w.hub, top |-> Len(proxies[w.hub]), orig |-> OrigOf[w.hub],
                   ret |-> w.ret, allow |-> FALSE]
             c == [fn |-> proxies[w.hub][w.at].func, hub |-> w.hub, ret |-> w.ret,
                   first |-> TRUE, at |-> w.at, stage |-> "entry", nested |-> FALSE]
             s == Append(Stack(t), f)
             cs == Append(calls[t], c)
  <2>1. proxies[w.hub] \in Seq(Item) /\ Len(proxies[w.hub]) \in Nat
    BY <1>3, TypedThread
  <2>2. proxies[w.hub][w.at] \in Item
    BY <1>3, <2>1
  <2>3. proxies[w.hub][w.at].func \in Funcs
    BY <2>2 DEF Item
  <2>4. c \in Call
    BY <1>3, <2>3 DEF Call
  <2>5. f \in Frame
    BY <1>3, <2>1 DEF Frame
  <2>6. calls' = [calls EXCEPT ![t] = cs] /\ walk' = [walk EXCEPT ![t] = Idle]
    BY <1>5 DEF PushFrame, Enter
  <2>7. mem[t] \in Memory /\ Stack(t) = frames[mem[t]]
    BY <1>3, StackTyped DEF IInv
  <2>8. frames' = [frames EXCEPT ![mem[t]] = s]
    BY <1>5, <2>7 DEF PushFrame
  <2>9. UNCHANGED <<now, hubVars, mem, used, began>>
    BY DEF PushFrame
  <2>10. Stack(t) \in Seq(Frame) /\ Len(Stack(t)) < FrameMax /\ Len(Stack(t)) \in Nat
    BY <1>5, TypedThread DEF Full
  <2>11. c.fn = proxies[c.hub][c.at].func /\ c.hub = w.hub /\ c.at = w.at /\ c.first /\ c.ret = w.ret
    OBVIOUS
  <2>12. /\ f.hub = w.hub /\ f.top = Len(proxies[w.hub]) /\ f.ret = w.ret
         /\ f.orig = OrigOf[w.hub] /\ ~f.allow
    OBVIOUS
  <2> HIDE DEF f, c, w
  <2>13. CallRight(c, began[t])
    BY <1>3, <2>11 DEF CallRight
  <2>14. FrameRight(f, began[t])
    BY <1>3, <2>1, <2>12 DEF FrameRight
  <2>15. /\ s \in Seq(Frame) /\ Len(s) = Len(Stack(t)) + 1 /\ s[Len(Stack(t)) + 1] = f
         /\ \A i \in 1 .. Len(Stack(t)) : s[i] = Stack(t)[i]
    BY <2>5, <2>10, AppendFacts
  <2>16. \A i \in 1 .. Len(Stack(t)) + 1 : i \in 1 .. Len(Stack(t)) \/ i = Len(Stack(t)) + 1
    BY <2>10
  <2>17. Len(s) <= FrameMax
    BY <2>10, <2>15
  <2>18. FramesRight(s, began[t])
    BY <1>2, <2>14, <2>15, <2>16 DEF Right, FramesRight
  <2>19. Matches(s, cs)
    <3>1. Matches(Stack(t), calls[t]) /\ calls[t] \in Seq(Call)
      BY <1>2, TypedThread DEF Right
    <3>2. Pushed(c)
      BY <2>3, <2>11 DEF Pushed
    <3> QED BY <2>4, <2>5, <2>10, <2>11, <2>12, <3>1, <3>2, MatchPush
  <2>20. Entered(Idle, s)
    <3>1. ~Recursive(Stack(t), w.hub) \/ Astray(f)
      BY <1>a, <2>12 DEF Astray
    <3> QED BY <1>a, <2>5, <2>10, <2>12, <3>1, EnteredPush
  <2>22. cs \in Seq(Call) /\ Right(Idle, cs, began[t], s, mem[t])
    BY <1>1, <2>4, <2>11, <2>13, <2>15, <2>18, <2>19, <2>20, CalledRight DEF w
  <2> HIDE DEF cs, s
  <2>21. StepTo(t, Idle, cs, began[t], s)
    BY <1>3, <2>6, <2>8, <2>9, SameBegan DEF StepTo
  <2> QED BY <2>9, <2>15, <2>17, <2>21, <2>22, StepKeeps
<1> QED BY <1>4, <1>5

\* An item of the list in sh_hub_get_prev_func, and the call of what it found.
LEMMA PrevWalkIInv ==
    ASSUME IInv, NEW t \in Threads, PrevWalk(t)
    PROVE  IInv'
<1> DEFINE w == walk[t]
<1>1. w.mode = "prev" /\ w # Idle
  BY DEF PrevWalk, Idle
<1>2. w \in Walk /\ Right(w, calls[t], began[t], Stack(t), mem[t])
  BY <1>1, TypedThread
<1>3. /\ w.at \in Nat /\ w.hub \in Hubs /\ w.ret \in Site
      /\ w.at <= Len(proxies[w.hub]) /\ mem[t] # NoStack
      /\ Held(began[t], w.hub) /\ w.ret[2] = Prev
      /\ Stack(t) # <<>> /\ calls[t] # <<>>
      /\ Last(calls[t]).fn \in Funcs /\ Last(calls[t]).hub = w.hub /\ w.at < Last(calls[t]).at
  BY <1>1, <1>2 DEF Right, WalkRight, Walk
<1>4. Len(proxies[w.hub]) \in Nat /\ proxies[w.hub] \in Seq(Item)
  BY <1>3, TypedThread
<1>5. CASE w.at > 0 /\ ~proxies[w.hub][w.at].enabled
  <2> DEFINE w2 == [w EXCEPT !.at = w.at - 1]
  <2>1. walk' = [walk EXCEPT ![t] = w2] /\ UNCHANGED <<now, hubVars, stackVars, calls, began>>
    BY <1>5 DEF PrevWalk
  <2>2. w2 \in Walk /\ w2.hub = w.hub /\ w2.ret = w.ret /\ w2.mode = "prev" /\ w2.at = w.at - 1
    <3>1. w \in Walk /\ w.mode = "prev" /\ w.at # 0
      BY <1>1, <1>2, <1>3, <1>5
    <3> HIDE DEF w
    <3> QED BY <3>1, WalkedOn
  <2> HIDE DEF w2
  <2>4. w2.at <= Len(proxies[w.hub]) /\ w2.at <= w.at
    BY <1>3, <1>4, <2>2
  <2> QED BY <1>1, <1>3, <2>1, <2>2, <2>4, WalkIInv
<1>6. CASE ~(w.at > 0 /\ ~proxies[w.hub][w.at].enabled)
  <2> DEFINE fn == IF w.at = 0 THEN Last(Stack(t)).orig ELSE proxies[w.hub][w.at].func
             c == [fn |-> fn, hub |-> w.hub, ret |-> w.ret,
                   first |-> FALSE, at |-> w.at, stage |-> "entry", nested |-> FALSE]
             cs == Append(calls[t], c)
  <2>1. /\ w.at = 0 => fn \in Origs
        /\ w.at # 0 => fn \in Funcs /\ fn = proxies[w.hub][w.at].func
    <3>1. CASE w.at = 0
      <4>1. Last(Stack(t)) \in Frame
        BY <1>3, TypedThread, FrontFacts
      <4> QED BY <3>1, <4>1 DEF Frame
    <3>2. CASE w.at # 0
      <4>1. proxies[w.hub][w.at] \in Item
        BY <1>3, <1>4, <3>2
      <4> QED BY <3>2, <4>1 DEF Item
    <3> QED BY <3>1, <3>2
  <2>2. calls' = [calls EXCEPT ![t] = cs] /\ walk' = [walk EXCEPT ![t] = Idle]
    BY <1>6, <1>3 DEF PrevWalk, Enter
  <2> HIDE DEF fn
  <2>3. c \in Call
    BY <1>3, <2>1 DEF Call
  <2>4. c.fn = fn /\ c.hub = w.hub /\ c.at = w.at /\ ~c.first /\ c.ret = w.ret
    OBVIOUS
  <2> HIDE DEF c, w
  <2>5. CallRight(c, began[t])
    BY <1>3, <2>1, <2>4, Names DEF CallRight
  <2>6. /\ Matches(Stack(t), calls[t]) /\ FramesRight(Stack(t), began[t])
        /\ Entered(Idle, Stack(t))
    BY <1>2, EnteredAs, IdleMode DEF Right
  <2>7. Last(Stack(t)).hub = w.hub
    BY <1>3, <2>6, TypedThread, MatchTop
  <2>8. Matches(Stack(t), cs)
    <3>1. ~Pushed(c)
      BY <2>4 DEF Pushed
    <3> QED BY <1>3, <2>3, <2>4, <2>6, <2>7, <3>1, TypedThread, MatchCall
  <2>9. cs \in Seq(Call) /\ Right(Idle, cs, began[t], Stack(t), mem[t])
    BY <1>1, <1>3, <2>3, <2>4, <2>5, <2>6, <2>8, TypedThread, CalledRight DEF w
  <2> HIDE DEF cs
  <2>10. UNCHANGED <<now, hubVars, stackVars, began>>
    BY DEF PrevWalk
  <2>11. StepTo(t, Idle, cs, began[t], Stack(t))
    BY <2>2, <2>10, SameStack, SameBegan DEF StepTo, stackVars
  <2> QED BY <2>9, <2>10, <2>11, TypedThread, StepKeeps DEF stackVars
<1> QED BY <1>5, <1>6

\* A thread that is outside.
LEMMA MatchEmpty == Matches(<<>>, <<>>)
<1>1. MatchedBy(<<>>, <<>>, <<>>)
  BY DEF MatchedBy
<1> QED BY <1>1 DEF Matches

\* A thread that is outside has no frames left.
LEMMA MatchNone ==
    ASSUME NEW s \in Seq(Frame), Matches(s, <<>>)
    PROVE  s = <<>>
<1>1. PICK pos : MatchedBy(pos, s, <<>>)
  BY DEF Matches
<1>2. \A i \in 1 .. Len(s) : pos[i] \in 1 .. 0
  BY <1>1 DEF MatchedBy
<1>3. ~(1 \in 1 .. Len(s))
  BY <1>2
<1> QED BY <1>3, EmptySeq

\* A return leaves the calls below.
LEMMA ReturnedRight ==
    ASSUME IInv, NEW t \in Threads, walk[t] = Idle, calls[t] # <<>>,
           NEW s \in Seq(Frame), FramesRight(s, began[t]), Matches(s, Front(calls[t])),
           Entered(Idle, s)
    PROVE  /\ Front(calls[t]) \in Seq(Call)
           /\ Right(Idle, Front(calls[t]), Left(t)[t], s, mem[t])
<1> DEFINE cs == calls[t]  C == Front(cs)  b == began[t]
<1>1. cs \in Seq(Call) /\ Right(Idle, cs, b, Stack(t), mem[t]) /\ b \in Nat
  BY TypedThread DEF IInv
<1>2. /\ C \in Seq(Call) /\ Len(C) = Len(cs) - 1 /\ Len(cs) \in Nat \ {0}
      /\ \A k \in 1 .. Len(cs) - 1 : C[k] = cs[k]
  BY <1>1, FrontFacts
<1>3. Left(t)[t] = IF Len(cs) = 1 THEN 0 ELSE b
  BY DEF Left, IInv
<1>4. cs = calls[t] /\ b = began[t]
  OBVIOUS
<1> HIDE DEF C, cs, b
<1>5. CallsRight(C, b) /\ InOrder(C)
  <2>1. CallsRight(cs, b) /\ InOrder(cs)
    BY <1>1 DEF Right
  <2>2. \A k \in 1 .. Len(C) : k \in 1 .. Len(cs) /\ C[k] = cs[k]
    <3>1. \A k \in 1 .. Len(cs) - 1 : k \in 1 .. Len(cs)
      BY <1>2
    <3> QED BY <1>2, <3>1
  <2>3. \A k \in 1 .. Len(C) : k > 1 => k - 1 \in 1 .. Len(C)
    BY <1>2
  <2>4. CallsRight(C, b)
    BY <2>1, <2>2 DEF CallsRight
  <2>5. InOrder(C)
    BY <2>1, <2>2, <2>3 DEF InOrder
  <2> QED BY <2>4, <2>5
<1>6. WalkRight(Idle, C, Left(t)[t], s, mem[t])
  BY DEF WalkRight
<1>7. CASE Len(cs) = 1
  <2>1. C = <<>> /\ Left(t)[t] = 0
    BY <1>2, <1>3, <1>7, EmptySeq
  <2>2. s = <<>>
    BY <1>4, <2>1, MatchNone DEF C
  <2>3. InTime(Idle, C, 0)
    BY <2>1, TypedThread DEF InTime
  <2>4. FramesRight(s, 0) /\ CallsRight(C, 0)
    BY <2>1, <2>2 DEF FramesRight, CallsRight
  <2> QED BY <1>2, <1>4, <1>5, <1>6, <2>1, <2>3, <2>4 DEF Right, C
<1>8. CASE Len(cs) # 1
  <2>1. InTime(Idle, C, b)
    <3>1. cs # <<>>
      BY <1>4
    <3> QED BY <1>1, <3>1 DEF Right, InTime
  <2> QED BY <1>2, <1>3, <1>4, <1>5, <1>6, <1>8, <2>1 DEF Right, C
<1> QED BY <1>7, <1>8

\* The time is reset when the outermost call returns.
LEMMA LeftIs ==
    ASSUME IInv, NEW t \in Threads
    PROVE  Left(t) = [began EXCEPT ![t] = Left(t)[t]]
BY DEF Left, IInv

\* A proxy returns through sh_hub_pop_stack.
LEMMA ProxyReturnIInv ==
    ASSUME IInv, NEW t \in Threads, ProxyReturn(t)
    PROVE  IInv'
<1> DEFINE c == Last(calls[t])  s == Stack(t)
<1>1. walk[t] = Idle /\ calls[t] # <<>> /\ c.fn \in Funcs
  BY DEF ProxyReturn, InProxy
<1>2. calls[t] \in Seq(Call) /\ s \in Seq(Frame) /\ Right(Idle, calls[t], began[t], s, mem[t])
      /\ Len(s) <= FrameMax
  BY <1>1, TypedThread
<1>3. /\ Matches(s, calls[t]) /\ FramesRight(s, began[t]) /\ CallsRight(calls[t], began[t])
      /\ Entered(Idle, s)
  BY <1>2 DEF Right
<1>4. s # <<>>
  BY <1>1, <1>2, <1>3, MatchTop
<1>5. mem[t] # NoStack /\ mem[t] \in Memory /\ s = frames[mem[t]]
  BY <1>4, StackTyped DEF IInv
<1>6. /\ Len(calls[t]) \in Nat \ {0} /\ c = calls[t][Len(calls[t])]
      /\ Len(s) \in Nat \ {0} /\ Last(s) = s[Len(s)]
  BY <1>1, <1>2, <1>4, EmptySeq DEF Last
<1>7. CallRight(c, began[t])
  <2>1. Len(calls[t]) \in 1 .. Len(calls[t])
    BY <1>6
  <2> QED BY <1>3, <1>6, <2>1 DEF CallsRight
<1>8. PICK s2 \in Seq(Frame) : /\ s2 = Popped(s, c.ret)
                               /\ Len(s2) <= FrameMax
                               /\ FramesRight(s2, began[t])
                               /\ Matches(s2, Front(calls[t]))
                               /\ Entered(Idle, s2)
  <2>1. CASE c.first
    <3>1. Last(s).ret = c.ret /\ Matches(Front(s), Front(calls[t]))
      BY <1>1, <1>2, <1>3, <2>1, MatchPop DEF Pushed
    <3>2. /\ Front(s) \in Seq(Frame) /\ Len(Front(s)) = Len(s) - 1
          /\ \A i \in 1 .. Len(s) - 1 : Front(s)[i] = s[i]
      BY <1>2, <1>4, FrontFacts
    <3>3. Len(Front(s)) <= FrameMax
      BY <1>2, <1>6, <3>2
    <3>4. FramesRight(Front(s), began[t])
      BY <1>3, <1>6, <3>2 DEF FramesRight
    <3>5. Front(s) = Popped(s, c.ret)
      BY <1>4, <3>1 DEF Popped
    <3>6. Entered(Idle, Front(s))
      BY <1>2, <1>3, <1>4, EnteredPop
    <3> QED BY <3>1, <3>2, <3>3, <3>4, <3>5, <3>6
  <2>2. CASE ~c.first
    <3>1. c.ret[2] = Prev
      BY <1>7, <2>2 DEF CallRight
    <3>2. Last(s).ret[2] # Prev
      <4>1. Len(s) \in 1 .. Len(s)
        BY <1>6
      <4> QED BY <1>3, <1>6, <4>1 DEF FramesRight, FrameRight
    <3>3. s = Popped(s, c.ret)
      BY <3>1, <3>2 DEF Popped
    <3>4. Matches(s, Front(calls[t]))
      BY <1>1, <1>2, <1>3, <2>2, MatchReturn DEF Pushed
    <3> QED BY <1>2, <1>3, <3>3, <3>4
  <2> QED BY <2>1, <2>2
<1>9. frames' = [frames EXCEPT ![mem[t]] = s2]
  BY <1>5, <1>8 DEF ProxyReturn, IInv, TypeOK
<1>10. /\ UNCHANGED <<now, hubVars, mem, used, walk>>
       /\ calls' = [calls EXCEPT ![t] = Front(calls[t])] /\ began' = Left(t)
  BY DEF ProxyReturn
<1>11. Front(calls[t]) \in Seq(Call) /\ Right(Idle, Front(calls[t]), Left(t)[t], s2, mem[t])
  BY <1>1, <1>8, ReturnedRight
<1>12. StepTo(t, Idle, Front(calls[t]), Left(t)[t], s2)
  BY <1>1, <1>5, <1>9, <1>10, LeftIs, SameWalk DEF StepTo
<1> QED BY <1>8, <1>10, <1>11, <1>12, StepKeeps

\* An original function returns.
LEMMA OrigReturnIInv ==
    ASSUME IInv, NEW t \in Threads, OrigReturn(t)
    PROVE  IInv'
<1>1. walk[t] = Idle /\ calls[t] # <<>> /\ Last(calls[t]).fn \in Origs
  BY DEF OrigReturn
<1>2. /\ calls[t] \in Seq(Call) /\ Stack(t) \in Seq(Frame) /\ Len(Stack(t)) <= FrameMax
      /\ Right(Idle, calls[t], began[t], Stack(t), mem[t])
  BY <1>1, TypedThread
<1>3. /\ Matches(Stack(t), calls[t]) /\ FramesRight(Stack(t), began[t])
      /\ Entered(Idle, Stack(t))
  BY <1>2 DEF Right
<1>4. ~Pushed(Last(calls[t]))
  BY <1>1, Names DEF Pushed
<1>5. Matches(Stack(t), Front(calls[t]))
  BY <1>1, <1>2, <1>3, <1>4, MatchReturn
<1>6. /\ UNCHANGED <<now, hubVars, stackVars, walk>>
      /\ calls' = [calls EXCEPT ![t] = Front(calls[t])] /\ began' = Left(t)
  BY DEF OrigReturn
<1>7. Front(calls[t]) \in Seq(Call) /\ Right(Idle, Front(calls[t]), Left(t)[t], Stack(t), mem[t])
  BY <1>1, <1>2, <1>3, <1>5, ReturnedRight
<1>8. StepTo(t, Idle, Front(calls[t]), Left(t)[t], Stack(t))
  BY <1>1, <1>6, LeftIs, SameWalk, SameStack DEF StepTo, stackVars
<1> QED BY <1>2, <1>6, <1>7, <1>8, StepKeeps DEF stackVars

\* Flags of a frame and of a call, which nothing else depends on.
LEMMA TouchedRight ==
    ASSUME NEW w, NEW cs \in Seq(Call), NEW b, NEW s \in Seq(Frame), NEW m,
           Right(w, cs, b, s, m), w.mode \notin {"push", "found"},
           NEW cs2 \in Seq(Call), NEW s2 \in Seq(Frame), SameCalls(cs, cs2), SameFrames(s, s2),
           TopTouched(s, cs, s2, cs2)
    PROVE  Right(w, cs2, b, s2, m)
<1>1. Matches(s2, cs2)
  BY MatchSame DEF Right
<1>a. Entered(w, s2)
  <2>1. Entered(w, s) /\ Len(s) \in Nat /\ Len(s2) = Len(s)
    BY DEF Right, SameFrames
  <2>2. ASSUME NEW i \in 1 .. Len(s), NEW j \in 1 .. Len(s), i < j, s2[i].orig = s2[j].orig
        PROVE  s2[i].allow \/ Astray(s2[j])
    <3>1. s[i].orig = s[j].orig /\ (Astray(s2[j]) <=> Astray(s[j]))
      BY <2>2 DEF SameFrames, Astray
    <3>2. i < Len(s)
      BY <2>1, <2>2
    <3>3. s[i].allow \/ Astray(s[j])
      BY <2>1, <2>2, <3>1 DEF Entered
    <3> QED BY <3>1, <3>2, <3>3 DEF TopTouched
  <2> QED BY <2>1, <2>2 DEF Entered
<1>2. CallsRight(cs2, b)
  <2>1. CallsRight(cs, b)
    BY DEF Right
  <2>2. ASSUME NEW k \in 1 .. Len(cs) PROVE CallRight(cs2[k], b)
    <3>1. CallRight(cs[k], b)
      BY <2>1 DEF CallsRight
    <3>2. /\ cs2[k].fn = cs[k].fn /\ cs2[k].first = cs[k].first
          /\ cs2[k].ret = cs[k].ret /\ cs2[k].hub = cs[k].hub /\ cs2[k].at = cs[k].at
      BY DEF SameCalls
    <3> QED BY <3>1, <3>2 DEF CallRight
  <2> QED BY <2>2 DEF CallsRight, SameCalls
<1>3. FramesRight(s2, b)
  BY DEF Right, FramesRight, FrameRight, SameFrames
<1>4. InOrder(cs2)
  <2>1. InOrder(cs) /\ Len(cs) \in Nat /\ Len(cs2) = Len(cs)
    BY DEF Right, SameCalls
  <2>2. \A k \in 1 .. Len(cs) : k > 1 => k - 1 \in 1 .. Len(cs)
    BY <2>1
  <2>3. \A k \in 1 .. Len(cs) : cs2[k].first = cs[k].first /\ cs2[k].at = cs[k].at
    BY DEF SameCalls
  <2> QED BY <2>1, <2>2, <2>3 DEF InOrder
<1>5. (cs # <<>> <=> cs2 # <<>>) /\ (s # <<>> <=> s2 # <<>>)
  BY EmptySeq DEF SameCalls, SameFrames
<1>6. cs # <<>> => /\ Last(cs2).fn = Last(cs).fn /\ Last(cs2).hub = Last(cs).hub
                   /\ Last(cs2).at = Last(cs).at
  <2> SUFFICES ASSUME cs # <<>>
               PROVE  /\ Last(cs2).fn = Last(cs).fn /\ Last(cs2).hub = Last(cs).hub
                      /\ Last(cs2).at = Last(cs).at
    OBVIOUS
  <2>1. Len(cs) \in 1 .. Len(cs)
    BY EmptySeq
  <2> QED BY <2>1 DEF Last, SameCalls
<1>7. WalkRight(w, cs2, b, s2, m)
  BY <1>5, <1>6 DEF Right, WalkRight
<1>8. InTime(w, cs2, b)
  BY <1>5 DEF Right, InTime
<1> QED BY <1>1, <1>2, <1>3, <1>4, <1>7, <1>8, <1>a DEF Right

\* The last call is touched.
LEMMA LastTouched ==
    ASSUME NEW cs \in Seq(Call), cs # <<>>, NEW c \in Call,
           LET l == Last(cs) IN
           c.fn = l.fn /\ c.first = l.first /\ c.ret = l.ret /\ c.hub = l.hub /\ c.at = l.at
    PROVE  /\ [cs EXCEPT ![Len(cs)] = c] \in Seq(Call)
           /\ SameCalls(cs, [cs EXCEPT ![Len(cs)] = c])
           /\ \A k \in 1 .. Len(cs) :
                [cs EXCEPT ![Len(cs)] = c][k] = IF k = Len(cs) THEN c ELSE cs[k]
<1>1. Len(cs) \in Nat \ {0} /\ Len(cs) \in 1 .. Len(cs) /\ Last(cs) = cs[Len(cs)]
  BY EmptySeq DEF Last
<1>2. /\ [cs EXCEPT ![Len(cs)] = c] \in Seq(Call)
      /\ Len([cs EXCEPT ![Len(cs)] = c]) = Len(cs)
  BY <1>1, ExceptSeq
<1>3. \A k \in 1 .. Len(cs) : [cs EXCEPT ![Len(cs)] = c][k] = IF k = Len(cs) THEN c ELSE cs[k]
  BY <1>1
<1> QED BY <1>1, <1>2, <1>3 DEF SameCalls

\* Nothing is touched where flags stay and no call takes back what it asked for.
LEMMA TopKept ==
    ASSUME NEW s \in Seq(Frame), NEW cs \in Seq(Call), NEW cs2, Matches(s, cs),
           SameCalls(cs, cs2),
           \A k \in 1 .. Len(cs) : k < Len(cs) => cs2[k].stage = cs[k].stage,
           cs # <<>> => cs2[Len(cs)].stage \in {Last(cs).stage, "after"}
    PROVE  TopTouched(s, cs, s, cs2)
<1>1. ASSUME s # <<>>, cs # <<>>, Pushed(Last(cs)), s[Len(s)].allow PROVE Asked(cs2[Len(cs)])
  <2>1. Asked(Last(cs))
    BY <1>1, MatchTop DEF Pushed, Last
  <2>2. Len(cs) \in 1 .. Len(cs) /\ Last(cs) = cs[Len(cs)]
    BY <1>1, EmptySeq DEF Last
  <2>3. cs2[Len(cs)].fn = Last(cs).fn
    BY <2>2 DEF SameCalls
  <2> QED BY <1>1, <2>1, <2>3 DEF Asked
<1> QED BY <1>1 DEF TopTouched

\* Setting a flag changes nothing else of the stack.
LEMMA FlaggedRight ==
    ASSUME IInv, NEW t \in Threads, NEW a \in BOOLEAN, frames' = Flagged(t, a)
    PROVE  \E s2 \in Seq(Frame) :
              /\ Len(s2) <= FrameMax
              /\ SameFrames(Stack(t), s2)
              /\ \A i \in 1 .. Len(Stack(t)) : s2[i].allow =
                    IF i = Len(Stack(t)) /\ CurrentFrame(t, Last(calls[t]).ret) THEN a
                    ELSE Stack(t)[i].allow
              /\ IF mem[t] = NoStack THEN s2 = <<>> /\ UNCHANGED frames
                 ELSE frames' = [frames EXCEPT ![mem[t]] = s2]
<1>1. Stack(t) \in Seq(Frame) /\ Len(Stack(t)) <= FrameMax
  BY TypedThread
<1>2. CASE ~CurrentFrame(t, Last(calls[t]).ret)
  <2>1. UNCHANGED frames
    BY <1>2 DEF Flagged
  <2>2. SameFrames(Stack(t), Stack(t))
    BY DEF SameFrames
  <2>3. \A i \in 1 .. Len(Stack(t)) : Stack(t)[i].allow =
              IF i = Len(Stack(t)) /\ CurrentFrame(t, Last(calls[t]).ret) THEN a
              ELSE Stack(t)[i].allow
    BY <1>2
  <2> QED BY <1>1, <2>1, <2>2, <2>3, SameStack
<1>3. CASE CurrentFrame(t, Last(calls[t]).ret)
  <2> DEFINE s == Stack(t)  f == [s[Len(s)] EXCEPT !.allow = a]  s2 == [s EXCEPT ![Len(s)] = f]
  <2>1. s # <<>>
    BY <1>3 DEF CurrentFrame
  <2>2. mem[t] # NoStack /\ mem[t] \in Memory /\ s = frames[mem[t]]
    BY <2>1, StackTyped DEF IInv
  <2>3. Len(s) \in Nat \ {0} /\ Len(s) \in 1 .. Len(s)
    BY <1>1, <2>1, EmptySeq
  <2>4. s[Len(s)] \in Frame
    BY <1>1, <2>3
  <2>5. /\ f \in Frame /\ f.ret = s[Len(s)].ret /\ f.hub = s[Len(s)].hub /\ f.top = s[Len(s)].top
        /\ f.orig = s[Len(s)].orig /\ f.allow = a
    <3> DEFINE g == s[Len(s)]
    <3>1. g \in Frame
      BY <2>4
    <3> HIDE DEF g
    <3>2. LET h == [g EXCEPT !.allow = a] IN
            /\ h \in Frame /\ h.ret = g.ret /\ h.hub = g.hub /\ h.top = g.top
            /\ h.orig = g.orig /\ h.allow = a
      BY <3>1 DEF Frame
    <3> QED BY <3>2 DEF g
  <2>6. frames' = [frames EXCEPT ![mem[t]] = s2]
    <3>1. frames' = [frames EXCEPT ![mem[t]][Len(s)].allow = a]
      BY <1>3 DEF Flagged
    <3> QED BY <2>2, <3>1
  <2> HIDE DEF f, s
  <2>7. s \in Seq(Frame)
    BY <1>1 DEF s
  <2>8. s2 \in Seq(Frame) /\ Len(s2) = Len(s)
    BY <2>3, <2>5, <2>7, ExceptSeq
  <2>9. \A k \in 1 .. Len(s) : s2[k] = IF k = Len(s) THEN f ELSE s[k]
    BY <2>3, <2>7
  <2>10. SameFrames(s, s2)
    BY <2>3, <2>5, <2>8, <2>9 DEF SameFrames
  <2>11. \A i \in 1 .. Len(s) : s2[i].allow =
               IF i = Len(s) /\ CurrentFrame(t, Last(calls[t]).ret) THEN a ELSE s[i].allow
    BY <1>3, <2>5, <2>9
  <2> HIDE DEF s2
  <2> QED BY <1>1, <2>2, <2>6, <2>8, <2>10, <2>11 DEF s
<1> QED BY <1>2, <1>3

\* A proxy further down the chain has another return address than the top frame.
LEMMA OthersFrame ==
    ASSUME NEW t \in Threads, NEW cs \in Seq(Call), NEW b, NEW m, Stack(t) \in Seq(Frame),
           Right(Idle, cs, b, Stack(t), m), cs # <<>>, Last(cs).fn \in Funcs, ~Pushed(Last(cs)),
           Stack(t) # <<>>
    PROVE  ~CurrentFrame(t, Last(cs).ret)
<1>1. Len(cs) \in 1 .. Len(cs) /\ Last(cs) = cs[Len(cs)]
  BY EmptySeq DEF Last
<1>2. Last(cs).ret[2] = Prev
  BY <1>1 DEF Right, CallsRight, CallRight, Pushed
<1>3. Len(Stack(t)) \in 1 .. Len(Stack(t)) /\ Last(Stack(t)) = Stack(t)[Len(Stack(t))]
  BY EmptySeq DEF Last
<1>4. Last(Stack(t)).ret[2] # Prev
  BY <1>3 DEF Right, FramesRight, FrameRight
<1> QED BY <1>2, <1>4 DEF CurrentFrame

\* A flag goes to the frame of the call that asks.
LEMMA TopFlagged ==
    ASSUME NEW t \in Threads, NEW cs, NEW cs2, NEW s2, NEW a,
           Stack(t) \in Seq(Frame), cs = calls[t], Len(cs) \in Nat,
           \A i \in 1 .. Len(Stack(t)) : s2[i].allow =
                IF i = Len(Stack(t)) /\ CurrentFrame(t, Last(calls[t]).ret) THEN a
                ELSE Stack(t)[i].allow,
           \A k \in 1 .. Len(cs) : k < Len(cs) => cs2[k].stage = cs[k].stage,
           Stack(t) # <<>> /\ ~Pushed(Last(cs)) => ~CurrentFrame(t, Last(cs).ret),
           \/ Asked(cs2[Len(cs)])
           \/ ~a /\ (Pushed(Last(cs)) => CurrentFrame(t, Last(cs).ret))
    PROVE  TopTouched(Stack(t), cs, s2, cs2)
<1> DEFINE s == Stack(t)
<1>1. Len(s) \in Nat /\ \A i \in 1 .. Len(s) : i < Len(s) => i # Len(s)
  OBVIOUS
<1>2. \A i \in 1 .. Len(s) : i < Len(s) => s2[i].allow = s[i].allow
  BY <1>1
<1>3. s # <<>> => Len(s) \in 1 .. Len(s)
  BY EmptySeq
<1> QED BY <1>2, <1>3 DEF TopTouched

\* sh_hub_allow_reentrant.
LEMMA AllowReentrantIInv ==
    ASSUME IInv, NEW t \in Threads, AllowReentrant(t)
    PROVE  IInv'
<1> DEFINE cs == calls[t]  n == Len(cs)  c == [cs[n] EXCEPT !.stage = "body"]
           cs2 == [cs EXCEPT ![n] = c]
<1>1. walk[t] = Idle /\ cs # <<>> /\ cs \in Seq(Call) /\ Last(cs) = cs[n] /\ n \in 1 .. n
  <2>1. walk[t] = Idle /\ cs # <<>> /\ cs \in Seq(Call)
    BY TypedThread DEF AllowReentrant, InProxy
  <2> QED BY <2>1, EmptySeq DEF Last
<1>2. cs[n] \in Call
  BY <1>1
<1>3. /\ c \in Call
      /\ LET l == cs[n] IN
         c.fn = l.fn /\ c.first = l.first /\ c.ret = l.ret /\ c.hub = l.hub /\ c.at = l.at
      /\ c.stage = "body"
  <2> DEFINE l == cs[n]
  <2>1. l \in Call
    BY <1>2
  <2> HIDE DEF l
  <2>2. LET d == [l EXCEPT !.stage = "body"] IN
          /\ d \in Call /\ d.stage = "body"
          /\ d.fn = l.fn /\ d.first = l.first /\ d.ret = l.ret /\ d.hub = l.hub /\ d.at = l.at
    BY <2>1 DEF Call
  <2> QED BY <2>2 DEF l
<1>4. calls' = [calls EXCEPT ![t] = cs2]
  <2>1. calls' = [calls EXCEPT ![t][n].stage = "body"]
    BY DEF AllowReentrant
  <2> QED BY <2>1
<1> HIDE DEF c
<1>5. /\ cs2 \in Seq(Call) /\ SameCalls(cs, cs2)
      /\ \A k \in 1 .. n : cs2[k] = IF k = n THEN c ELSE cs[k]
  BY <1>1, <1>3, LastTouched
<1> HIDE DEF cs2
<1>6. UNCHANGED <<now, hubVars, mem, used, walk, began>> /\ frames' = Flagged(t, TRUE)
  BY DEF AllowReentrant
<1>7. PICK s2 \in Seq(Frame) :
          /\ Len(s2) <= FrameMax
          /\ SameFrames(Stack(t), s2)
          /\ \A i \in 1 .. Len(Stack(t)) : s2[i].allow =
                IF i = Len(Stack(t)) /\ CurrentFrame(t, Last(calls[t]).ret) THEN TRUE
                ELSE Stack(t)[i].allow
          /\ IF mem[t] = NoStack THEN s2 = <<>> /\ UNCHANGED frames
             ELSE frames' = [frames EXCEPT ![mem[t]] = s2]
  BY <1>6, FlaggedRight
<1>8. Right(Idle, cs2, began[t], s2, mem[t])
  <2>1. TopTouched(Stack(t), cs, s2, cs2)
    <3>1. Stack(t) \in Seq(Frame) /\ Right(Idle, cs, began[t], Stack(t), mem[t])
      BY <1>1, TypedThread
    <3>2. Last(cs).fn \in Allowing /\ Last(cs).fn \in Funcs
      BY DEF AllowReentrant, InProxy
    <3>3. Asked(cs2[n])
      BY <1>1, <1>3, <1>5, <3>2 DEF Asked
    <3>4. Stack(t) # <<>> /\ ~Pushed(Last(cs)) => ~CurrentFrame(t, Last(cs).ret)
      BY <1>1, <3>1, <3>2, OthersFrame
    <3>5. Len(cs) \in Nat /\ \A k \in 1 .. Len(cs) : k < Len(cs) => cs2[k].stage = cs[k].stage
      BY <1>1, <1>5
    <3> QED BY <1>7, <3>1, <3>3, <3>4, <3>5, TopFlagged
  <2> QED BY <1>1, <1>5, <1>7, <2>1, IdleMode, TypedThread, TouchedRight
<1>9. StepTo(t, Idle, cs2, began[t], s2)
  BY <1>1, <1>4, <1>6, <1>7, SameWalk, SameBegan DEF StepTo
<1> QED BY <1>5, <1>6, <1>7, <1>8, <1>9, StepKeeps

\* sh_hub_disallow_reentrant.
LEMMA DisallowReentrantIInv ==
    ASSUME IInv, NEW t \in Threads, DisallowReentrant(t)
    PROVE  IInv'
<1> DEFINE cs == calls[t]  n == Len(cs)  c == [cs[n] EXCEPT !.stage = "entry", !.nested = TRUE]
           cs2 == [cs EXCEPT ![n] = c]
<1>1. walk[t] = Idle /\ cs # <<>> /\ cs \in Seq(Call) /\ Last(cs) = cs[n] /\ n \in 1 .. n
  <2>1. walk[t] = Idle /\ cs # <<>> /\ cs \in Seq(Call)
    BY TypedThread DEF DisallowReentrant, InProxy
  <2> QED BY <2>1, EmptySeq DEF Last
<1>2. cs[n] \in Call
  BY <1>1
<1>3. /\ c \in Call
      /\ LET l == cs[n] IN
         c.fn = l.fn /\ c.first = l.first /\ c.ret = l.ret /\ c.hub = l.hub /\ c.at = l.at
  <2> DEFINE l == cs[n]
  <2>1. l \in Call
    BY <1>2
  <2> HIDE DEF l
  <2>2. LET d == [l EXCEPT !.stage = "entry", !.nested = TRUE] IN
          /\ d \in Call
          /\ d.fn = l.fn /\ d.first = l.first /\ d.ret = l.ret /\ d.hub = l.hub /\ d.at = l.at
    BY <2>1 DEF Call
  <2> QED BY <2>2 DEF l
<1>4. calls' = [calls EXCEPT ![t] = cs2]
  <2>1. calls' = [calls EXCEPT ![t][n].stage = "entry", ![t][n].nested = TRUE]
    BY DEF DisallowReentrant
  <2>2. calls \in [Threads -> Seq(Call)]
    BY DEF IInv, TypeOK
  <2>3. n \in DOMAIN cs
    BY <1>1
  <2> QED BY <2>1, <2>2, <2>3
<1> HIDE DEF c
<1>5. /\ cs2 \in Seq(Call) /\ SameCalls(cs, cs2)
      /\ \A k \in 1 .. n : cs2[k] = IF k = n THEN c ELSE cs[k]
  BY <1>1, <1>3, LastTouched
<1> HIDE DEF cs2
<1>6. UNCHANGED <<now, hubVars, mem, used, walk, began>> /\ frames' = Flagged(t, FALSE)
  BY DEF DisallowReentrant
<1>7. PICK s2 \in Seq(Frame) :
          /\ Len(s2) <= FrameMax
          /\ SameFrames(Stack(t), s2)
          /\ \A i \in 1 .. Len(Stack(t)) : s2[i].allow =
                IF i = Len(Stack(t)) /\ CurrentFrame(t, Last(calls[t]).ret) THEN FALSE
                ELSE Stack(t)[i].allow
          /\ IF mem[t] = NoStack THEN s2 = <<>> /\ UNCHANGED frames
             ELSE frames' = [frames EXCEPT ![mem[t]] = s2]
  BY <1>6, FlaggedRight
<1>8. Right(Idle, cs2, began[t], s2, mem[t])
  <2>1. TopTouched(Stack(t), cs, s2, cs2)
    <3>1. Stack(t) \in Seq(Frame) /\ Right(Idle, cs, began[t], Stack(t), mem[t])
      BY <1>1, TypedThread
    <3>2. Last(cs).fn \in Funcs
      BY DEF DisallowReentrant, InProxy
    <3>3. Stack(t) # <<>> /\ ~Pushed(Last(cs)) => ~CurrentFrame(t, Last(cs).ret)
      BY <1>1, <3>1, <3>2, OthersFrame
    <3>4. Pushed(Last(cs)) => CurrentFrame(t, Last(cs).ret)
      BY <1>1, <3>1, MatchTop DEF Right, Pushed, CurrentFrame
    <3>5. Len(cs) \in Nat /\ \A k \in 1 .. Len(cs) : k < Len(cs) => cs2[k].stage = cs[k].stage
      BY <1>1, <1>5
    <3> QED BY <1>7, <3>1, <3>3, <3>4, <3>5, TopFlagged
  <2> QED BY <1>1, <1>5, <1>7, <2>1, IdleMode, TypedThread, TouchedRight
<1>9. StepTo(t, Idle, cs2, began[t], s2)
  BY <1>1, <1>4, <1>6, <1>7, SameWalk, SameBegan DEF StepTo
<1> QED BY <1>5, <1>6, <1>7, <1>8, <1>9, StepKeeps

\* The search of the top frame's list ends before the proxy's own item.
LEMMA AfterOwnRight ==
    ASSUME NEW f \in Frame, NEW fn, NEW n \in Nat, proxies[f.hub] \in Seq(Item),
           UniqueFuncs(proxies[f.hub]), f.top <= Len(proxies[f.hub]),
           0 < n, n <= Len(proxies[f.hub]), proxies[f.hub][n].func = fn
    PROVE  AfterOwn(f, fn) \in Nat /\ AfterOwn(f, fn) < n
<1> DEFINE own == {i \in 1 .. f.top : proxies[f.hub][i].func = fn}
<1>1. f.top \in Nat /\ Len(proxies[f.hub]) \in Nat
  BY DEF Frame
<1>2. CASE own = {}
  BY <1>2 DEF AfterOwn
<1>3. CASE own # {}
  <2>1. Max(own) \in own
    <3>1. own \in SUBSET (1 .. f.top)
      OBVIOUS
    <3> HIDE DEF own
    <3> QED BY <1>1, <1>3, <3>1, MaxIsLast
  <2>2. Max(own) \in 1 .. f.top /\ proxies[f.hub][Max(own)].func = fn
    BY <2>1
  <2>3. AfterOwn(f, fn) = Max(own) - 1
    BY <1>3 DEF AfterOwn
  <2> HIDE DEF own
  <2>4. Max(own) = n
    <3>1. DOMAIN proxies[f.hub] = 1 .. Len(proxies[f.hub])
      BY Items
    <3>2. Max(own) \in DOMAIN proxies[f.hub] /\ n \in DOMAIN proxies[f.hub]
      BY <1>1, <2>2, <3>1
    <3> QED BY <2>2, <3>2 DEF UniqueFuncs
  <2> QED BY <1>1, <2>2, <2>3, <2>4
<1> QED BY <1>2, <1>3

\* sh_hub_get_prev_func takes the list of the top frame.
LEMMA GetPrevIInv ==
    ASSUME IInv, NEW t \in Threads, GetPrev(t)
    PROVE  IInv'
<1> DEFINE cs == calls[t]  n == Len(cs)  d == cs[n]  c == [cs[n] EXCEPT !.stage = "after"]
           cs2 == [cs EXCEPT ![n] = c]  s == Stack(t)  f == Last(s)
           w == [mode |-> "prev", hub |-> f.hub, ret |-> <<d.fn, Prev>>, at |-> AfterOwn(f, d.fn)]
<1>1. /\ walk[t] = Idle /\ cs # <<>> /\ cs \in Seq(Call) /\ Last(cs) = d /\ n \in 1 .. n
      /\ s # <<>> /\ s \in Seq(Frame) /\ Len(s) <= FrameMax /\ d.fn \in Funcs
      /\ Right(Idle, cs, began[t], s, mem[t])
  <2>1. walk[t] = Idle /\ cs # <<>> /\ s # <<>> /\ Last(cs).fn \in Funcs
    BY DEF GetPrev, InProxy
  <2> QED BY <2>1, TypedThread, EmptySeq DEF Last
<1>2. d \in Call
  BY <1>1
<1>3. /\ c \in Call
      /\ c.fn = d.fn /\ c.first = d.first /\ c.ret = d.ret /\ c.hub = d.hub /\ c.at = d.at
      /\ c.stage = "after"
  <2>1. d \in Call
    BY <1>2
  <2> HIDE DEF d
  <2>2. LET e == [d EXCEPT !.stage = "after"] IN
          /\ e \in Call /\ e.stage = "after"
          /\ e.fn = d.fn /\ e.first = d.first /\ e.ret = d.ret /\ e.hub = d.hub /\ e.at = d.at
    BY <2>1 DEF Call
  <2> QED BY <2>2 DEF d
<1>4. calls' = [calls EXCEPT ![t] = cs2] /\ walk' = [walk EXCEPT ![t] = w]
  BY <1>1 DEF GetPrev
<1>5. Len(s) \in Nat \ {0} /\ f = s[Len(s)] /\ Len(s) \in 1 .. Len(s) /\ f \in Frame
  BY <1>1, EmptySeq DEF Last
<1> HIDE DEF c, d, f, s
<1>6. /\ cs2 \in Seq(Call) /\ SameCalls(cs, cs2)
      /\ \A k \in 1 .. n : cs2[k] = IF k = n THEN c ELSE cs[k]
  <2>1. /\ cs \in Seq(Call) /\ cs # <<>> /\ c \in Call
        /\ LET l == Last(cs) IN
           c.fn = l.fn /\ c.first = l.first /\ c.ret = l.ret /\ c.hub = l.hub /\ c.at = l.at
    BY <1>1, <1>3
  <2> QED BY <2>1, LastTouched
<1>7. SameFrames(s, s)
  BY DEF SameFrames
<1>8. Right(Idle, cs2, began[t], s, mem[t])
  <2>1. TopTouched(s, cs, s, cs2)
    <3>1. Matches(s, cs)
      BY <1>1 DEF Right
    <3>2. \A k \in 1 .. n : k < n => cs2[k].stage = cs[k].stage
      BY <1>1, <1>6
    <3>3. cs2[n].stage = "after"
      BY <1>1, <1>3, <1>6
    <3> HIDE DEF cs2
    <3> QED BY <1>1, <1>6, <3>1, <3>2, <3>3, TopKept
  <2> QED BY <1>1, <1>6, <1>7, <2>1, IdleMode, TouchedRight
<1>9. FrameRight(f, began[t]) /\ CallRight(d, began[t]) /\ Matches(s, cs)
  BY <1>1, <1>5 DEF Right, FramesRight, CallsRight, d
<1>10. f.hub = d.hub
  BY <1>1, <1>9, MatchTop DEF f
<1>11. f.hub \in Hubs /\ d.at \in Nat
  BY <1>2, <1>5 DEF Frame, Call
<1>12. proxies[f.hub] \in Seq(Item) /\ UniqueFuncs(proxies[f.hub])
  BY <1>11, TypedThread DEF IInv, ListsRight
<1>13. AfterOwn(f, d.fn) \in Nat /\ AfterOwn(f, d.fn) < d.at
  BY <1>1, <1>5, <1>9, <1>10, <1>11, <1>12, AfterOwnRight DEF FrameRight, CallRight
<1>14. /\ w.mode = "prev" /\ w.hub = f.hub /\ w.ret[2] = Prev /\ w.at = AfterOwn(f, d.fn)
       /\ w \in Walk
  BY <1>1, <1>11, <1>13 DEF Walk, Site
<1>15. Last(cs2).fn = d.fn /\ Last(cs2).hub = d.hub /\ Last(cs2).at = d.at /\ cs2 # <<>>
  <2>1. Len(cs2) = n
    BY <1>6 DEF SameCalls
  <2>2. cs2[n].fn = d.fn /\ cs2[n].hub = d.hub /\ cs2[n].at = d.at
    BY <1>1, <1>6 DEF SameCalls, d
  <2>3. cs2 # <<>>
    BY <1>1, <1>6, <2>1, EmptySeq
  <2> QED BY <2>1, <2>2, <2>3 DEF Last
<1>16. mem[t] # NoStack
  BY <1>1, StackTyped DEF s, IInv
<1> HIDE DEF cs2, w
<1>17. Len(proxies[f.hub]) \in Nat
  BY <1>12
<1>18. w.at <= Len(proxies[w.hub])
  BY <1>9, <1>10, <1>11, <1>13, <1>14, <1>17, <1>1 DEF CallRight
<1>a. Held(began[t], w.hub)
  BY <1>9, <1>14 DEF FrameRight
<1>19. WalkRight(w, cs2, began[t], s, mem[t])
  BY <1>1, <1>9, <1>10, <1>14, <1>15, <1>16, <1>18, <1>a, <1>13 DEF WalkRight
<1>20. InTime(w, cs2, began[t])
  BY <1>8, <1>15 DEF Right, InTime
<1>21. Right(w, cs2, began[t], s, mem[t])
  <2>1. Entered(w, s)
    BY <1>1, <1>14, EnteredAs DEF Right
  <2> QED BY <1>8, <1>19, <1>20, <2>1 DEF Right
<1>22. UNCHANGED <<now, hubVars, stackVars, began>>
  BY DEF GetPrev
<1>23. StepTo(t, w, cs2, began[t], s)
  BY <1>4, <1>22, SameStack, SameBegan DEF StepTo, stackVars, s
<1> QED BY <1>1, <1>6, <1>14, <1>21, <1>22, <1>23, StepKeeps DEF stackVars

\* Spending the one call that a proxy makes (a bound) changes nothing else.
LEMMA SpendSame ==
    ASSUME NEW cs \in Seq(Call)
    PROVE  /\ Spend(cs) \in Seq(Call) /\ SameCalls(cs, Spend(cs))
           /\ \A k \in 1 .. Len(cs) : Spend(cs)[k].stage = cs[k].stage
<1>1. CASE cs = <<>>
  BY <1>1 DEF Spend, SameCalls
<1>2. CASE cs # <<>>
  <2> DEFINE n == Len(cs)  d == cs[n]  c == [d EXCEPT !.nested = TRUE]
  <2>1. n \in 1 .. n /\ Last(cs) = d
    BY <1>2, EmptySeq DEF Last
  <2>2. d \in Call
    BY <2>1
  <2>3. Spend(cs) = [cs EXCEPT ![n] = c]
    BY <1>2 DEF Spend
  <2> HIDE DEF d
  <2>4. /\ c \in Call
        /\ c.fn = d.fn /\ c.first = d.first /\ c.ret = d.ret /\ c.hub = d.hub /\ c.at = d.at
        /\ c.stage = d.stage
    BY <2>2 DEF Call
  <2> HIDE DEF c
  <2>5. d = cs[n]
    BY DEF d
  <2>6. LET l == Last(cs) IN
        c.fn = l.fn /\ c.first = l.first /\ c.ret = l.ret /\ c.hub = l.hub /\ c.at = l.at
    BY <2>1, <2>4
  <2> DEFINE e == [cs EXCEPT ![n] = c]
  <2>7. e \in Seq(Call) /\ SameCalls(cs, e) /\ \A k \in 1 .. n : e[k] = IF k = n THEN c ELSE cs[k]
    BY <1>2, <2>4, <2>6, LastTouched
  <2> HIDE DEF e
  <2>8. Spend(cs) = e
    BY <2>3 DEF e
  <2> QED BY <2>4, <2>5, <2>7, <2>8
<1> QED BY <1>1, <1>2

\* A thread enters the trampoline of a hub that is reachable.
LEMMA CallHubIInv ==
    ASSUME IInv, NEW t \in Threads, NEW h \in Hubs, CallHub(t, h)
    PROVE  IInv'
<1> DEFINE w == [mode |-> "trampo", hub |-> h, ret |-> <<Running(t), h>>, at |-> 0]
           cs == Spend(calls[t])  b == IF Inside(t) THEN began[t] ELSE now
<1>1. walk[t] = Idle /\ phase[h] \in {"live", "empty"}
  BY DEF CallHub, MayCall, Reachable
<1>2. /\ calls[t] \in Seq(Call) /\ Stack(t) \in Seq(Frame) /\ Len(Stack(t)) <= FrameMax
      /\ Right(Idle, calls[t], began[t], Stack(t), mem[t])
  BY <1>1, TypedThread
<1>3. /\ walk' = [walk EXCEPT ![t] = w] /\ calls' = [calls EXCEPT ![t] = cs]
      /\ began' = [began EXCEPT ![t] = b]
      /\ UNCHANGED <<now, hubVars, stackVars>>
  <2>1. calls' = [calls EXCEPT ![t] = Spend(@)]
    BY DEF CallHub
  <2>2. began' = [began EXCEPT ![t] = IF Inside(t) THEN @ ELSE now]
    BY DEF CallHub
  <2> QED BY <2>1, <2>2 DEF CallHub
<1>4. Running(t) \in {App} \cup Funcs \cup Origs
  <2>1. CASE calls[t] = <<>>
    BY <2>1 DEF Running
  <2>2. CASE calls[t] # <<>>
    <3>1. Last(calls[t]) \in Call
      BY <1>2, <2>2, FrontFacts
    <3> QED BY <2>2, <3>1 DEF Running, Call
  <2> QED BY <2>1, <2>2
<1>5. w \in Walk /\ w.hub = h /\ w.mode = "trampo" /\ w.ret[2] = h /\ w # Idle
  <2>1. w \in Walk
    BY <1>4 DEF Walk, Site
  <2> QED BY <2>1, Names
<1>6. /\ cs \in Seq(Call) /\ SameCalls(calls[t], cs)
      /\ \A k \in 1 .. Len(calls[t]) : cs[k].stage = calls[t][k].stage
  BY <1>2, SpendSame
<1> HIDE DEF w, cs
<1>7. Right(Idle, cs, began[t], Stack(t), mem[t])
  <2>1. SameFrames(Stack(t), Stack(t))
    BY DEF SameFrames
  <2>2. calls[t] # <<>> => cs[Len(calls[t])].stage = Last(calls[t]).stage
    <3>1. calls[t] # <<>> => Len(calls[t]) \in 1 .. Len(calls[t])
      BY <1>2, EmptySeq
    <3> QED BY <1>6, <3>1 DEF Last
  <2>3. TopTouched(Stack(t), calls[t], Stack(t), cs)
    <3>1. Matches(Stack(t), calls[t])
      BY <1>2 DEF Right
    <3> QED BY <1>2, <1>6, <2>2, <3>1, TopKept
  <2> QED BY <1>2, <1>6, <2>1, <2>3, IdleMode, TouchedRight
<1>a. Entered(w, Stack(t))
  BY <1>5, <1>7, EnteredAs DEF Right
<1>b. Held(b, w.hub)
  BY <1>1, <1>5 DEF Held
<1>8. WalkRight(w, cs, b, Stack(t), mem[t])
  BY <1>1, <1>5, <1>b, Names DEF WalkRight
<1>9. CASE Inside(t)
  <2>1. b = began[t] /\ calls[t] # <<>>
    BY <1>1, <1>9 DEF Inside
  <2>2. InTime(w, cs, b)
    BY <1>2, <2>1 DEF Right, InTime
  <2>3. Right(w, cs, b, Stack(t), mem[t])
    BY <1>7, <1>8, <1>a, <2>1, <2>2 DEF Right
  <2> HIDE DEF b
  <2>4. StepTo(t, w, cs, b, Stack(t))
    BY <1>3, SameStack DEF StepTo, stackVars
  <2> QED BY <1>2, <1>3, <1>5, <1>6, <2>3, <2>4, StepKeeps DEF stackVars
<1>10. CASE ~Inside(t)
  <2>1. b = now /\ calls[t] = <<>>
    BY <1>10 DEF Inside
  <2>2. Stack(t) = <<>>
    BY <1>2, <2>1, MatchNone DEF Right
  <2>3. cs = <<>>
    BY <1>6, <2>1, EmptySeq DEF SameCalls
  <2>4. now \in Nat /\ now <= now + CallMax
    BY TypedThread
  <2>5. InTime(w, cs, b)
    BY <2>1, <2>4 DEF InTime
  <2>6. FramesRight(Stack(t), b) /\ CallsRight(cs, b)
    BY <2>2, <2>3 DEF FramesRight, CallsRight
  <2>7. Right(w, cs, b, Stack(t), mem[t])
    BY <1>7, <1>8, <1>a, <2>5, <2>6 DEF Right
  <2> HIDE DEF b
  <2>8. StepTo(t, w, cs, b, Stack(t))
    BY <1>3, SameStack DEF StepTo, stackVars
  <2> QED BY <1>2, <1>3, <1>5, <1>6, <2>7, <2>8, StepKeeps DEF stackVars
<1> QED BY <1>9, <1>10

\* A thread whose memory changes has an empty stack before and after it.
MemoryStep(t, w, cs, b, m) ==
    /\ walk' = [walk EXCEPT ![t] = w]
    /\ calls' = [calls EXCEPT ![t] = cs]
    /\ began' = [began EXCEPT ![t] = b]
    /\ mem' = [mem EXCEPT ![t] = m]
    /\ used' \subseteq Slots
    /\ m \in {NoStack, t} \cup used'
    /\ frames' \in [Memory -> Seq(Frame)]
    /\ \A x \in Memory : Len(frames'[x]) <= FrameMax
    /\ m # NoStack => frames'[m] = <<>>
    /\ \A u \in Threads : u # t /\ mem[u] # NoStack =>
        /\ mem[u] # m /\ frames'[mem[u]] = frames[mem[u]]
        /\ mem[u] \in used => mem[u] \in used'

\* Such a step keeps the invariant if the thread is right after it.
LEMMA MemoryStepKeeps ==
    ASSUME IInv, NEW t \in Threads, UNCHANGED <<now, hubVars>>,
           NEW w \in Walk \cup {Idle}, NEW cs \in Seq(Call), NEW b, NEW m \in Memory \cup {NoStack},
           NEW s, s = <<>>, MemoryStep(t, w, cs, b, m), Right(w, cs, b, s, m)
    PROVE  IInv'
<1>1. TypeOK /\ began \in [Threads -> Nat] /\ StacksOwned
  BY DEF IInv
<1>2. /\ walk \in [Threads -> Walk \cup {Idle}] /\ calls \in [Threads -> Seq(Call)]
      /\ mem \in [Threads -> Memory \cup {NoStack}]
  BY <1>1 DEF TypeOK
<1>3. /\ walk' \in [Threads -> Walk \cup {Idle}] /\ calls' \in [Threads -> Seq(Call)]
      /\ mem' \in [Threads -> Memory \cup {NoStack}]
  BY <1>2 DEF MemoryStep
<1>4. began' \in [Threads -> Nat]
  <2>1. b \in Nat
    BY DEF Right, InTime
  <2> QED BY <1>1, <2>1 DEF MemoryStep
<1>5. TypeOK'
  BY <1>1, <1>3 DEF TypeOK, hubVars, MemoryStep
<1>6. walk'[t] = w /\ calls'[t] = cs /\ began'[t] = b /\ mem'[t] = m
  BY <1>1, <1>2 DEF MemoryStep
<1>7. Stack(t)' = s
  BY <1>6 DEF Stack, MemoryStep
<1>8. ThreadRight(t)'
  BY <1>6, <1>7 DEF ThreadRight, Right, InTime, WalkRight, FramesRight, CallsRight,
                    FrameRight, CallRight, Held, Unseen, hubVars
<1>9. ASSUME NEW u \in Threads, u # t PROVE ThreadRight(u)'
  <2>1. /\ walk'[u] = walk[u] /\ calls'[u] = calls[u] /\ began'[u] = began[u]
        /\ mem'[u] = mem[u]
    BY <1>1, <1>2, <1>9 DEF MemoryStep
  <2>2. mem[u] # NoStack => frames'[mem[u]] = frames[mem[u]]
    BY <1>9 DEF MemoryStep
  <2> QED BY <2>1, <2>2, OthersRight
<1>10. StacksOwned'
  <2>1. ASSUME NEW u \in Threads PROVE mem'[u] \in {NoStack, u} \cup used'
    <3>1. CASE u = t
      BY <1>6, <3>1 DEF MemoryStep
    <3>2. CASE u # t
      <4>1. mem'[u] = mem[u] /\ mem[u] \in {NoStack, u} \cup used
        BY <1>1, <1>2, <3>2 DEF StacksOwned, MemoryStep
      <4> QED BY <3>2, <4>1 DEF MemoryStep
    <3> QED BY <3>1, <3>2
  <2>2. ASSUME NEW u \in Threads, NEW v \in Threads, u # v, mem'[u] # NoStack
        PROVE  mem'[u] # mem'[v]
    <3>1. \A x \in Threads : x # t => mem'[x] = mem[x]
      BY <1>2 DEF MemoryStep
    <3>2. CASE u # t /\ v # t
      BY <1>1, <2>2, <3>1, <3>2 DEF StacksOwned
    <3>3. CASE u = t
      BY <1>6, <2>2, <3>1, <3>3 DEF MemoryStep
    <3>4. CASE v = t
      BY <1>6, <2>2, <3>1, <3>4 DEF MemoryStep
    <3> QED BY <3>2, <3>3, <3>4
  <2> QED BY <2>1, <2>2 DEF StacksOwned
<1>11. (ListsRight /\ \A h \in Hubs : stamp[h] <= now)'
  BY DEF IInv, ListsRight, hubVars
<1> QED BY <1>4, <1>5, <1>8, <1>9, <1>10, <1>11 DEF IInv

\* sh_hub_push_stack up to its walk, with a new stack or with the old one.
LEMMA PushStackIInv ==
    ASSUME IInv, NEW t \in Threads, PushStack(t)
    PROVE  IInv'
<1> DEFINE w == walk[t]  w2 == [w EXCEPT !.mode = "push", !.at = Len(proxies[w.hub])]
<1>1. w.mode = "trampo" /\ w # Idle /\ UNCHANGED <<now, hubVars, began>>
  BY DEF PushStack, Idle
<1>2. /\ w \in Walk /\ calls[t] \in Seq(Call)
      /\ Right(w, calls[t], began[t], Stack(t), mem[t])
  BY <1>1, TypedThread
<1>3. w.hub \in Hubs
  BY <1>2 DEF Walk
<1>4. Len(proxies[w.hub]) \in Nat
  BY <1>3, TypedThread
<1>5. w2 \in Walk /\ w2.mode = "push" /\ w2.hub = w.hub /\ w2.ret = w.ret
      /\ w2.at = Len(proxies[w.hub])
  BY <1>2, <1>4 DEF Walk
<1>6. ASSUME StartWalk(t) PROVE walk' = [walk EXCEPT ![t] = w2]
  <2>1. walk' = [walk EXCEPT ![t].mode = "push", ![t].at = Len(proxies[w.hub])]
    BY <1>6 DEF StartWalk
  <2>2. walk \in [Threads -> Walk \cup {Idle}]
    BY DEF IInv, TypeOK
  <2> QED BY <2>1, <2>2
<1> HIDE DEF w2
<1>a. Held(began[t], w.hub)
  BY <1>1, <1>2 DEF PushStack, Right, WalkRight
<1>7. CASE ToOrig(t) /\ UNCHANGED stackVars
  BY <1>1, <1>7, <1>a, ToOrigIInv
<1>8. CASE /\ mem[t] # NoStack /\ StartWalk(t) /\ UNCHANGED <<calls, stackVars>>
           /\ ~Recursive(Stack(t), w.hub) \/ Astray(w)
  <2>1. w2.at <= Len(proxies[w2.hub])
    BY <1>4, <1>5
  <2>2. ~Recursive(Stack(t), w2.hub) \/ Astray(w2)
    BY <1>5, <1>8 DEF Astray
  <2> QED BY <1>1, <1>5, <1>6, <1>8, <1>a, <2>1, <2>2, WalkIInv
<1>9. CASE mem[t] = NoStack /\ StackCreate(t) /\ StartWalk(t) /\ UNCHANGED calls
  <2>1. PICK m \in (Slots \ used) \cup (IF Slots \subseteq used THEN {t} ELSE {}) :
          /\ mem' = [mem EXCEPT ![t] = m]
          /\ used' = used \cup ({m} \cap Slots)
          /\ frames' = [frames EXCEPT ![m] = <<>>]
    BY <1>9 DEF StackCreate
  <2>2. m \in Memory /\ m # NoStack /\ (m = t \/ m \in Slots \ used)
    BY <2>1, Names DEF Memory
  <2>3. frames \in [Memory -> Seq(Frame)] /\ \A x \in Memory : Len(frames[x]) <= FrameMax
    BY DEF IInv, TypeOK
  <2>4. frames' \in [Memory -> Seq(Frame)] /\ \A x \in Memory : Len(frames'[x]) <= FrameMax
    <3>1. <<>> \in Seq(Frame) /\ Len(<<>>) <= FrameMax
      OBVIOUS
    <3> QED BY <2>1, <2>3, <3>1
  <2>5. frames'[m] = <<>>
    BY <2>1, <2>2, <2>3
  <2>6. used' \subseteq Slots /\ m \in {NoStack, t} \cup used' /\ used \subseteq used'
    BY <2>1, <2>2 DEF IInv, TypeOK
  <2>7. ASSUME NEW u \in Threads, u # t, mem[u] # NoStack
        PROVE  /\ mem[u] # m /\ frames'[mem[u]] = frames[mem[u]]
               /\ mem[u] \in used => mem[u] \in used'
    <3>1. mem[u] \in {u} \cup used /\ used \subseteq Slots /\ u \notin Slots /\ t \notin Slots
      BY <2>7 DEF IInv, StacksOwned, TypeOK
    <3>2. mem[u] # m
      BY <2>2, <2>7, <3>1
    <3> QED BY <2>1, <2>3, <2>6, <3>2
  <2>8. Stack(t) = <<>>
    BY <1>9, TypedThread
  <2>9. Right(w, calls[t], began[t], <<>>, NoStack)
    BY <1>2, <1>9, <2>8
  <2>10. Right(w2, calls[t], began[t], <<>>, m)
    <3>1. w2 # Idle
      BY <1>5, Names
    <3>2. w2.at <= Len(proxies[w2.hub])
      BY <1>4, <1>5
    <3>3. WalkRight(w2, calls[t], began[t], <<>>, m)
      BY <1>1, <1>5, <1>a, <2>2, <2>9, <3>2 DEF Right, WalkRight
    <3>4. InTime(w2, calls[t], began[t])
      BY <1>1, <2>9 DEF Right, InTime
    <3>5. Entered(w2, <<>>)
      BY EnteredNone
    <3> QED BY <2>9, <3>3, <3>4, <3>5 DEF Right
  <2>11. calls' = [calls EXCEPT ![t] = calls[t]] /\ began' = [began EXCEPT ![t] = began[t]]
    BY <1>1, <1>9, SameWalk, SameBegan
  <2>12. MemoryStep(t, w2, calls[t], began[t], m)
    BY <1>6, <1>9, <2>1, <2>4, <2>5, <2>6, <2>7, <2>11 DEF MemoryStep
  <2>13. Right(w2, calls[t], began[t], Stack(t), m)
    BY <2>8, <2>10
  <2> QED BY <1>1, <1>2, <1>5, <2>2, <2>8, <2>12, <2>13, MemoryStepKeeps
<1> QED BY <1>7, <1>8, <1>9 DEF PushStack

\* A thread exits, maybe inside hooked calls.
LEMMA ThreadExitIInv ==
    ASSUME IInv, NEW t \in Threads, ThreadExit(t)
    PROVE  IInv'
<1>1. /\ mem[t] # NoStack /\ walk[t] = Idle
      /\ mem' = [mem EXCEPT ![t] = NoStack] /\ used' = used \ {mem[t]}
      /\ calls' = [calls EXCEPT ![t] = <<>>] /\ began' = [began EXCEPT ![t] = 0]
      /\ frames' = IF mem[t] = t THEN [frames EXCEPT ![t] = <<>>] ELSE frames
      /\ UNCHANGED <<now, hubVars, walk>>
  BY DEF ThreadExit
<1>2. frames \in [Memory -> Seq(Frame)] /\ \A x \in Memory : Len(frames[x]) <= FrameMax
  BY DEF IInv, TypeOK
<1>3. frames' \in [Memory -> Seq(Frame)] /\ \A x \in Memory : Len(frames'[x]) <= FrameMax
  <2>1. <<>> \in Seq(Frame) /\ Len(<<>>) <= FrameMax
    OBVIOUS
  <2> QED BY <1>1, <1>2, <2>1
<1>4. ASSUME NEW u \in Threads, u # t, mem[u] # NoStack
      PROVE  /\ frames'[mem[u]] = frames[mem[u]] /\ mem[u] # mem[t]
             /\ mem[u] \in used => mem[u] \in used'
  <2>1. mem[u] # mem[t]
    BY <1>4 DEF IInv, StacksOwned
  <2> QED BY <1>1, <1>2, <2>1
<1>5. used' \subseteq Slots
  BY <1>1 DEF IInv, TypeOK
<1>6. walk' = [walk EXCEPT ![t] = Idle]
  BY <1>1, SameWalk
<1>7. <<>> \in Seq(Call) /\ now \in Nat
  BY TypedThread
<1>8. Right(Idle, <<>>, 0, <<>>, NoStack)
  <2>1. InTime(Idle, <<>>, 0)
    BY <1>7 DEF InTime
  <2>2. CallsRight(<<>>, 0) /\ FramesRight(<<>>, 0) /\ InOrder(<<>>)
    BY DEF CallsRight, FramesRight, InOrder
  <2>3. WalkRight(Idle, <<>>, 0, <<>>, NoStack)
    BY DEF WalkRight
  <2> QED BY <2>1, <2>2, <2>3, EnteredNone, MatchEmpty DEF Right
<1>9. MemoryStep(t, Idle, <<>>, 0, NoStack)
  BY <1>1, <1>3, <1>4, <1>5, <1>6 DEF MemoryStep
<1>10. UNCHANGED <<now, hubVars>>
  BY <1>1
<1> QED BY <1>7, <1>8, <1>9, <1>10, MemoryStepKeeps

(***************************************************************************)
(* Steps of a hub                                                            *)
(***************************************************************************)
\* What a thread stands on outlives the steps of the hubs.
HubsHold ==
    \A h \in Hubs, b \in Nat :
        b <= now /\ now <= b + CallMax /\ Held(b, h) =>
            Held(b, h)' /\ Grown(proxies[h], proxies'[h])

LEMMA HubStepRight ==
    ASSUME IInv, UNCHANGED now, HubsHold,
           NEW w \in Walk \cup {Idle}, NEW cs \in Seq(Call), NEW s \in Seq(Frame),
           NEW b \in Nat, NEW m, Right(w, cs, b, s, m),
           w # Idle /\ Unseen(w.hub) => Held(b, w.hub)' \/ Unseen(w.hub)'
    PROVE  Right(w, cs, b, s, m)'
<1>1. /\ w \in Walk \cup {Idle} /\ cs \in Seq(Call) /\ s \in Seq(Frame)
      /\ Right(w, cs, b, s, m) /\ b \in Nat
  OBVIOUS
<1>3. ASSUME NEW h \in Hubs, cs # <<>> \/ w # Idle, Held(b, h)
      PROVE  Held(b, h)' /\ Grown(proxies[h], proxies'[h])
  <2>1. b <= now /\ now <= b + CallMax
    BY <1>1, <1>3 DEF Right, InTime
  <2> QED BY <1>1, <1>3, <2>1 DEF HubsHold
<1>4. \A h \in Hubs : Len(proxies[h]) \in Nat
  BY DEF IInv, TypeOK
<1>5. \A h \in Hubs : Grown(proxies[h], proxies'[h]) => Len(proxies'[h]) \in Nat
  BY DEF Grown
<1>6. InTime(w, cs, b)'
  BY <1>1 DEF Right, InTime
<1>7. WalkRight(w, cs, b, s, m)'
  <2> SUFFICES ASSUME w # Idle PROVE WalkRight(w, cs, b, s, m)'
    BY DEF WalkRight
  <2>1. w \in Walk /\ WalkRight(w, cs, b, s, m)
    BY <1>1 DEF Right
  <2>2. w.hub \in Hubs /\ w.at \in Nat
    BY <2>1 DEF Walk
  <2>5. CASE w.mode = "trampo" /\ Unseen(w.hub)
    <3>1. Held(b, w.hub)' \/ Unseen(w.hub)'
      BY <2>5
    <3>2. w.mode # "prev" /\ w.mode # "found"
      BY <2>5
    <3> QED BY <2>1, <2>5, <3>1, <3>2 DEF WalkRight
  <2>6. Held(b, w.hub) \/ (w.mode = "trampo" /\ Unseen(w.hub))
    BY <2>1 DEF WalkRight
  <2> SUFFICES ASSUME Held(b, w.hub) PROVE WalkRight(w, cs, b, s, m)'
    BY <2>5, <2>6
  <2>3. Held(b, w.hub)' /\ Grown(proxies[w.hub], proxies'[w.hub])
    BY <1>3, <2>1, <2>2
  <2>4. w.at <= Len(proxies[w.hub]) => w.at <= Len(proxies'[w.hub])
    BY <1>4, <1>5, <2>2, <2>3 DEF Grown
  <2> QED BY <2>1, <2>3, <2>4 DEF WalkRight
<1>8. FramesRight(s, b)'
  <2> SUFFICES ASSUME NEW i \in 1 .. Len(s) PROVE FrameRight(s[i], b)'
    BY DEF FramesRight
  <2>1. cs # <<>>
    BY <1>1, MatchNone DEF Right
  <2>2. FrameRight(s[i], b)
    BY <1>1 DEF Right, FramesRight
  <2>3. s[i] \in Frame
    BY <1>1
  <2>4. s[i].hub \in Hubs /\ s[i].top \in Nat
    BY <2>3 DEF Frame
  <2>5. Held(b, s[i].hub)' /\ Grown(proxies[s[i].hub], proxies'[s[i].hub])
    BY <1>3, <2>1, <2>2, <2>4 DEF FrameRight
  <2>6. s[i].top <= Len(proxies'[s[i].hub])
    BY <1>4, <1>5, <2>2, <2>4, <2>5 DEF FrameRight, Grown
  <2> QED BY <2>2, <2>5, <2>6 DEF FrameRight
<1>9. CallsRight(cs, b)'
  <2> SUFFICES ASSUME NEW k \in 1 .. Len(cs) PROVE CallRight(cs[k], b)'
    BY DEF CallsRight
  <2>1. CallRight(cs[k], b)
    BY <1>1 DEF Right, CallsRight
  <2>2. cs[k] \in Call /\ cs # <<>>
    BY <1>1, EmptySeq
  <2>3. cs[k].hub \in Hubs /\ cs[k].at \in Nat
    BY <2>2 DEF Call
  <2>4. CASE cs[k].fn \in Funcs
    <3>1. /\ Held(b, cs[k].hub)
          /\ 0 < cs[k].at /\ cs[k].at <= Len(proxies[cs[k].hub])
          /\ proxies[cs[k].hub][cs[k].at].func = cs[k].fn
      BY <2>1, <2>4 DEF CallRight
    <3>2. Held(b, cs[k].hub)' /\ Grown(proxies[cs[k].hub], proxies'[cs[k].hub])
      BY <1>3, <2>2, <2>3, <3>1
    <3>3. cs[k].at \in 1 .. Len(proxies[cs[k].hub])
      BY <1>4, <2>3, <3>1
    <3>4. cs[k].at <= Len(proxies'[cs[k].hub])
      <4>1. Len(proxies[cs[k].hub]) <= Len(proxies'[cs[k].hub])
        BY <3>2 DEF Grown
      <4>2. Len(proxies[cs[k].hub]) \in Nat /\ Len(proxies'[cs[k].hub]) \in Nat
        BY <1>4, <1>5, <2>3, <3>2
      <4> QED BY <2>3, <3>1, <4>1, <4>2, LeqTrans
    <3>5. proxies'[cs[k].hub][cs[k].at].func = cs[k].fn
      BY <3>1, <3>2, <3>3 DEF Grown
    <3> QED BY <2>1, <3>1, <3>2, <3>4, <3>5 DEF CallRight
  <2>5. CASE cs[k].fn \notin Funcs
    BY <2>1, <2>5 DEF CallRight
  <2> QED BY <2>4, <2>5
<1>10. InOrder(cs) /\ Matches(s, cs) /\ Entered(w, s)
  BY <1>1 DEF Right
<1> QED BY <1>6, <1>7, <1>8, <1>9, <1>10 DEF Right

\* A hub that was not hooked is not forgotten.
UnseenHold == \A h \in Hubs, b \in Nat : Unseen(h) => Held(b, h)' \/ Unseen(h)'

LEMMA HubStepKeeps ==
    ASSUME IInv, UNCHANGED <<now, threadVars>>, HubsHold, UnseenHold, NEW t \in Threads
    PROVE  ThreadRight(t)'
<1>0. PICK w, cs, b, s, m :
          /\ w = walk[t] /\ cs = calls[t] /\ b = began[t] /\ s = Stack(t) /\ m = mem[t]
  OBVIOUS
<1>1. /\ w \in Walk \cup {Idle} /\ cs \in Seq(Call) /\ s \in Seq(Frame)
      /\ Right(w, cs, b, s, m) /\ b \in Nat
  BY <1>0, TypedThread DEF IInv
<1>2. walk'[t] = w /\ calls'[t] = cs /\ began'[t] = b /\ Stack(t)' = s /\ mem'[t] = m
  BY <1>0 DEF threadVars, stackVars, Stack
<1>3. w # Idle => w.hub \in Hubs
  BY <1>1 DEF Walk
<1>4. Right(w, cs, b, s, m)'
  BY <1>1, <1>3, HubStepRight DEF UnseenHold
<1> QED BY <1>2, <1>4 DEF ThreadRight

\* The variables of the hubs after such a step.
HubVarsRight ==
    /\ phase \in [Hubs -> {"new", "made", "live", "empty", "unused", "leaving", "swept",
                           "delayed", "freed", "dropped"}]
    /\ stamp \in [Hubs -> 0 .. TimeMax]
    /\ proxies \in [Hubs -> Seq(Item)]
    /\ owners \in [Hubs -> SUBSET Funcs]
    /\ trampo \in [Hubs -> Trampos \cup {NoTrampo}]
    /\ \A h \in Hubs : stamp[h] <= now
    /\ ListsRight

\* A step of the hubs keeps the invariant if it keeps what threads stand on.
LEMMA HubKeeps ==
    ASSUME IInv, UNCHANGED <<now, threadVars>>, HubVarsRight', HubsHold, UnseenHold
    PROVE  IInv'
<1>1. \A t \in Threads : ThreadRight(t)'
  BY HubStepKeeps
<1>2. TypeOK'
  BY DEF IInv, TypeOK, HubVarsRight, threadVars, stackVars
<1>3. StacksOwned' /\ (began \in [Threads -> Nat])'
  BY DEF IInv, StacksOwned, threadVars, stackVars
<1> QED BY <1>1, <1>2, <1>3 DEF IInv, HubVarsRight

\* The hubs are right under the invariant.
LEMMA HubTyped ==
    ASSUME IInv
    PROVE  HubVarsRight
BY DEF IInv, TypeOK, HubVarsRight

\* A list that stays has grown.
LEMMA GrownSame ==
    ASSUME NEW s \in Seq(Item)
    PROVE  Grown(s, s)
BY DEF Grown

\* The list of one hub grows, and its phase does not make anybody lose it.
LEMMA ListStepKeeps ==
    ASSUME IInv, NEW h \in Hubs, UNCHANGED <<now, stamp, trampo, threadVars>>, HubVarsRight',
           phase[h] = "live", phase'[h] \in {"live", "empty"},
           \A d \in Hubs : d # h => phase'[d] = phase[d] /\ proxies'[d] = proxies[d],
           Grown(proxies[h], proxies'[h])
    PROVE  IInv'
<1>1. ASSUME NEW d \in Hubs, NEW b \in Nat, Held(b, d)
      PROVE  Held(b, d)' /\ Grown(proxies[d], proxies'[d])
  <2>1. CASE d = h
    BY <2>1 DEF Held
  <2>2. CASE d # h
    BY <1>1, <2>2, HubTyped, GrownSame DEF Held, HubVarsRight
  <2> QED BY <2>1, <2>2
<1>2. HubsHold
  BY <1>1 DEF HubsHold
<1>3. UnseenHold
  BY DEF UnseenHold, Unseen
<1> QED BY <1>2, <1>3, HubKeeps

\* sh_hub_add_proxy.
LEMMA AddProxyIInv ==
    ASSUME IInv, NEW h \in Hubs, NEW f \in Funcs, AddProxy(h, f)
    PROVE  IInv'
<1>1. HubVarsRight /\ ListsRight /\ UNCHANGED <<now, stamp, phase, trampo, threadVars>>
  BY HubTyped DEF HubVarsRight, AddProxy
<1>2. UniqueFuncs(proxies[h]) /\ proxies[h] \in Seq(Item) /\ phase[h] = "live"
  BY <1>1 DEF HubVarsRight, ListsRight, AddProxy
<1>3. CASE UNCHANGED <<proxies, owners>>
  <2>1. HubVarsRight'
    BY <1>1, <1>3 DEF HubVarsRight, ListsRight
  <2> QED BY <1>1, <1>2, <1>3, <2>1, GrownSame, ListStepKeeps
<1>4. CASE /\ proxies' = [proxies EXCEPT ![h] = ProxyAdded(@, f)]
           /\ owners' = [owners EXCEPT ![h] = @ \cup {f}]
  <2> DEFINE s == ProxyAdded(proxies[h], f)
  <2>1. Grown(proxies[h], s) /\ UniqueFuncs(s) /\ EnabledIn(s) = EnabledIn(proxies[h]) \cup {f}
    BY <1>2, AddedRight
  <2>2. proxies' = [proxies EXCEPT ![h] = s] /\ s \in Seq(Item)
    BY <1>4, <2>1 DEF Grown
  <2> HIDE DEF s
  <2>3. proxies' \in [Hubs -> Seq(Item)] /\ owners' \in [Hubs -> SUBSET Funcs]
    BY <1>1, <1>4, <2>2 DEF HubVarsRight
  <2>4. /\ proxies'[h] = s /\ owners'[h] = owners[h] \cup {f}
        /\ \A d \in Hubs : d # h => proxies'[d] = proxies[d] /\ owners'[d] = owners[d]
    BY <1>1, <1>4, <2>2 DEF HubVarsRight
  <2>5. ListsRight'
    BY <1>1, <1>2, <2>1, <2>4 DEF ListsRight
  <2>6. HubVarsRight'
    BY <1>1, <2>3, <2>5 DEF HubVarsRight
  <2> QED BY <1>1, <1>2, <2>1, <2>4, <2>6, ListStepKeeps
<1> QED BY <1>3, <1>4 DEF AddProxy

\* sh_hub_delete_proxy.
LEMMA DeleteProxyIInv ==
    ASSUME IInv, NEW h \in Hubs, NEW f \in Funcs, DeleteProxy(h, f)
    PROVE  IInv'
<1>1. HubVarsRight /\ ListsRight /\ UNCHANGED <<now, stamp, trampo, threadVars>>
  BY HubTyped DEF HubVarsRight, DeleteProxy
<1>2. UniqueFuncs(proxies[h]) /\ proxies[h] \in Seq(Item) /\ phase[h] = "live"
      /\ EnabledIn(proxies[h]) = owners[h]
  BY <1>1 DEF HubVarsRight, ListsRight, DeleteProxy
<1> DEFINE s == ProxyDeleted(proxies[h], f)  p == PhaseAfter(h, f)
<1>3. /\ Grown(proxies[h], s) /\ UniqueFuncs(s) /\ EnabledIn(s) = EnabledIn(proxies[h]) \ {f}
      /\ HaveEnabled(proxies[h], f) <=> EnabledIn(proxies[h]) \ {f} # {}
  BY <1>2, DeletedRight
<1>4. /\ proxies' = [proxies EXCEPT ![h] = s] /\ owners' = [owners EXCEPT ![h] = owners[h] \ {f}]
      /\ phase' = [phase EXCEPT ![h] = p]
  BY <1>1 DEF DeleteProxy, HubVarsRight
<1>5. s \in Seq(Item) /\ p \in {"live", "empty"} /\ (p = "live" <=> owners[h] \ {f} # {})
  BY <1>2, <1>3 DEF Grown, PhaseAfter
<1> HIDE DEF s, p
<1>6. /\ proxies' \in [Hubs -> Seq(Item)] /\ owners' \in [Hubs -> SUBSET Funcs]
      /\ phase' \in [Hubs -> {"new", "made", "live", "empty", "unused", "leaving", "swept",
                              "delayed", "freed", "dropped"}]
  BY <1>1, <1>4, <1>5 DEF HubVarsRight
<1>7. /\ proxies'[h] = s /\ owners'[h] = owners[h] \ {f} /\ phase'[h] = p
      /\ \A d \in Hubs : d # h => /\ proxies'[d] = proxies[d] /\ owners'[d] = owners[d]
                                  /\ phase'[d] = phase[d]
  BY <1>1, <1>4 DEF HubVarsRight
<1>8. ListsRight'
  BY <1>1, <1>2, <1>3, <1>5, <1>7 DEF ListsRight
<1>9. HubVarsRight'
  BY <1>1, <1>6, <1>8 DEF HubVarsRight
<1> QED BY <1>1, <1>2, <1>3, <1>5, <1>7, <1>9, ListStepKeeps

\* A step from phase p to phase q of a hub whose list stays.
LEMMA PhaseStepKeeps ==
    ASSUME IInv, NEW h \in Hubs, UNCHANGED <<now, proxies, owners, trampo, threadVars>>,
           NEW p, NEW q, phase[h] = p, phase' = [phase EXCEPT ![h] = q],
           NEW a \in 0 .. TimeMax, stamp' = [stamp EXCEPT ![h] = a], a <= now,
           \/ p = "made" /\ q \in {"live", "unused"}
           \/ p = "empty" /\ q = "leaving" /\ a = now
           \/ p = "swept" /\ q = "delayed" /\ a = stamp[h]
    PROVE  IInv'
<1>1. HubVarsRight /\ ListsRight /\ TypeOK
  BY HubTyped DEF HubVarsRight, IInv
<1>2. /\ phase' \in [Hubs -> {"new", "made", "live", "empty", "unused", "leaving", "swept",
                              "delayed", "freed", "dropped"}]
      /\ stamp' \in [Hubs -> 0 .. TimeMax]
  BY <1>1 DEF HubVarsRight
<1>3. /\ phase'[h] = q /\ stamp'[h] = a
      /\ \A d \in Hubs : d # h => phase'[d] = phase[d] /\ stamp'[d] = stamp[d]
  BY <1>1 DEF HubVarsRight
<1>4. ListsRight'
  BY <1>1, <1>3 DEF ListsRight
<1>5. HubVarsRight'
  BY <1>1, <1>2, <1>3, <1>4 DEF HubVarsRight
<1>6. ASSUME NEW d \in Hubs, NEW b \in Nat, b <= now, Held(b, d)
      PROVE  Held(b, d)' /\ Grown(proxies[d], proxies'[d])
  <2>1. Held(b, d)'
    BY <1>3, <1>6 DEF Held
  <2> QED BY <1>1, <2>1, GrownSame DEF HubVarsRight
<1>7. UnseenHold
  <2> SUFFICES ASSUME NEW d \in Hubs, NEW b \in Nat, Unseen(d) PROVE Held(b, d)' \/ Unseen(d)'
    BY DEF UnseenHold
  <2>1. CASE d = h
    BY <1>3, <2>1 DEF Unseen, Held
  <2>2. CASE d # h
    BY <1>3, <2>2 DEF Unseen
  <2> QED BY <2>1, <2>2
<1>8. HubsHold
  BY <1>6 DEF HubsHold
<1> QED BY <1>1, <1>5, <1>7, <1>8, HubKeeps

\* A walk in a trampoline is led to another hub that was not hooked yet.
LEMMA LedRight ==
    ASSUME NEW w \in Walk, w.mode = "trampo", NEW h \in Hubs, Unseen(h)', NEW cs, NEW b, NEW s,
           NEW m, Right(w, cs, b, s, m)'
    PROVE  LET v == [w EXCEPT !.hub = h] IN v \in Walk /\ Right(v, cs, b, s, m)'
<1> DEFINE v == [w EXCEPT !.hub = h]
<1>1. v \in Walk /\ v.mode = "trampo" /\ v.hub = h /\ v.ret = w.ret
  BY DEF Walk
<1>2. w # Idle
  BY Names
<1> HIDE DEF v
<1>3. WalkRight(v, cs, b, s, m)'
  BY <1>1, <1>2 DEF Right, WalkRight
<1>4. Entered(v, s)
  BY <1>1, EnteredAs DEF Right
<1>5. InTime(v, cs, b)'
  BY <1>2 DEF Right, InTime
<1> QED BY <1>1, <1>3, <1>4, <1>5 DEF Right, v

\* sh_hub_create: a thread that is still in the place of the trampoline may be
\* led to the new hub, which is taken down later than its call began.
LEMMA CreateIInv ==
    ASSUME IInv, NEW h \in Hubs, Create(h)
    PROVE  IInv'
<1>1. HubVarsRight /\ ListsRight /\ TypeOK
  BY HubTyped DEF HubVarsRight, IInv
<1>2. /\ phase[h] = "new" /\ phase' = [phase EXCEPT ![h] = "made"]
      /\ UNCHANGED <<now, stamp, proxies, owners, stackVars, calls, began>>
  BY DEF Create
<1>3. PICK p \in FreeTrampos, led \in SUBSET Threads :
        /\ trampo' = [trampo EXCEPT ![h] = p]
        /\ led \subseteq Within(p)
        /\ walk' = [t \in Threads |-> IF t \in led THEN [walk[t] EXCEPT !.hub = h] ELSE walk[t]]
  BY DEF Create
<1>4. phase'[h] = "made" /\ \A d \in Hubs : d # h => phase'[d] = phase[d]
  BY <1>1, <1>2 DEF HubVarsRight
<1>5. phase' \in [Hubs -> {"new", "made", "live", "empty", "unused", "leaving", "swept",
                           "delayed", "freed", "dropped"}]
  BY <1>1, <1>2 DEF HubVarsRight
<1>6. trampo' \in [Hubs -> Trampos \cup {NoTrampo}]
  <2>1. p \in Trampos
    BY DEF FreeTrampos
  <2> QED BY <1>1, <1>3, <2>1 DEF HubVarsRight
<1>7. ListsRight'
  BY <1>1, <1>2, <1>4 DEF ListsRight
<1>8. HubsHold
  <2> SUFFICES ASSUME NEW d \in Hubs, NEW b \in Nat, Held(b, d)
               PROVE  Held(b, d)' /\ Grown(proxies[d], proxies'[d])
    BY DEF HubsHold
  <2>1. d # h
    BY <1>2 DEF Held
  <2>2. Held(b, d)'
    BY <1>2, <1>4, <2>1 DEF Held
  <2> QED BY <1>1, <1>2, <2>2, GrownSame DEF HubVarsRight
<1>9. \A d \in Hubs : Unseen(d) => Unseen(d)'
  BY <1>2, <1>4 DEF Unseen
<1>10. ASSUME NEW t \in Threads PROVE walk'[t] \in Walk \cup {Idle} /\ ThreadRight(t)'
  <2>1. PICK w, cs, b, s, m :
          /\ w = walk[t] /\ cs = calls[t] /\ b = began[t] /\ s = Stack(t) /\ m = mem[t]
    OBVIOUS
  <2>2. /\ w \in Walk \cup {Idle} /\ cs \in Seq(Call) /\ s \in Seq(Frame)
        /\ Right(w, cs, b, s, m) /\ b \in Nat
    BY <2>1, TypedThread DEF IInv
  <2>3. calls'[t] = cs /\ began'[t] = b /\ Stack(t)' = s /\ mem'[t] = m
    BY <1>2, <2>1 DEF stackVars, Stack
  <2>4. w # Idle => w.hub \in Hubs
    BY <2>2 DEF Walk
  <2>5. Right(w, cs, b, s, m)'
    BY <1>2, <1>8, <1>9, <2>2, <2>4, HubStepRight
  <2>6. CASE t \notin led
    <3>1. walk'[t] = w
      BY <1>3, <2>1, <2>6
    <3> QED BY <2>2, <2>3, <2>5, <3>1 DEF ThreadRight
  <2>7. CASE t \in led
    <3> DEFINE v == [w EXCEPT !.hub = h]
    <3>1. walk'[t] = v /\ w.mode = "trampo"
      BY <1>3, <2>1, <2>7 DEF Within
    <3>2. w \in Walk
      BY <2>2, <3>1 DEF Idle
    <3>3. v \in Walk /\ Right(v, cs, b, s, m)'
      <4>1. Unseen(h)'
        BY <1>4 DEF Unseen
      <4> QED BY <2>5, <3>1, <3>2, <4>1, LedRight
    <3> QED BY <2>3, <3>1, <3>3 DEF ThreadRight
  <2> QED BY <2>6, <2>7
<1>11. walk' \in [Threads -> Walk \cup {Idle}]
  BY <1>3, <1>10
<1>12. TypeOK'
  BY <1>1, <1>2, <1>5, <1>6, <1>11 DEF TypeOK, stackVars
<1>13. StacksOwned' /\ (began \in [Threads -> Nat])' /\ (\A d \in Hubs : stamp[d] <= now)'
  BY <1>2 DEF IInv, StacksOwned, stackVars
<1> QED BY <1>7, <1>10, <1>12, <1>13 DEF IInv

\* The function leads to the hub.
LEMMA HookedIInv ==
    ASSUME IInv, NEW h \in Hubs, Hooked(h)
    PROVE  IInv'
<1>1. stamp[h] \in 0 .. TimeMax /\ stamp[h] <= now /\ stamp = [stamp EXCEPT ![h] = stamp[h]]
  BY DEF IInv, TypeOK
<1> QED BY <1>1, PhaseStepKeeps DEF Hooked

\* The hub is put on the list of delayed hubs.
LEMMA RetireIInv ==
    ASSUME IInv, NEW h \in Hubs, Retire(h)
    PROVE  IInv'
<1>1. stamp[h] \in 0 .. TimeMax /\ stamp[h] <= now /\ stamp = [stamp EXCEPT ![h] = stamp[h]]
  BY DEF IInv, TypeOK
<1> QED BY <1>1, PhaseStepKeeps DEF Retire

\* The function is unhooked, and the time read.
LEMMA BeginDestroyIInv ==
    ASSUME IInv, NEW h \in Hubs, BeginDestroy(h)
    PROVE  IInv'
<1>1. now \in 0 .. TimeMax /\ now <= now /\ TypeOK
  BY DEF IInv, TypeOK
<1>2. stamp' = [stamp EXCEPT ![h] = now] /\ UNCHANGED <<now, proxies, owners, trampo, threadVars>>
  BY DEF BeginDestroy
<1>3. CASE phase[h] = "made"
  <2>1. phase' = [phase EXCEPT ![h] = "unused"]
    BY <1>1, <1>3 DEF BeginDestroy, TypeOK
  <2> QED BY <1>1, <1>2, <1>3, <2>1, PhaseStepKeeps
<1>4. CASE phase[h] = "empty"
  <2>1. phase' = [phase EXCEPT ![h] = "leaving"]
    BY <1>1, <1>4 DEF BeginDestroy, TypeOK
  <2> QED BY <1>1, <1>2, <1>4, <2>1, PhaseStepKeeps
<1> QED BY <1>3, <1>4 DEF BeginDestroy

\* A hub that has rested was unreachable before the oldest call in progress.
LEMMA SweepIInv ==
    ASSUME IInv, NEW h \in Hubs, Sweep(h)
    PROVE  IInv'
<1>1. HubVarsRight /\ ListsRight /\ UNCHANGED <<now, owners, trampo, threadVars>> /\ now \in Nat
  BY HubTyped DEF HubVarsRight, Sweep, IInv, TypeOK
<1>2. \A d \in Hubs : /\ stamp[d] \in 0 .. TimeMax /\ stamp[d] <= now
                      /\ proxies[d] \in Seq(Item) /\ <<>> \in Seq(Item)
  BY <1>1 DEF HubVarsRight
<1>3. /\ phase' = [d \in Hubs |->
            IF d \in FreedBy(h) THEN "freed" ELSE IF d = h THEN PhaseSwept(h) ELSE phase[d]]
      /\ proxies' = [d \in Hubs |-> IF d \in FreedBy(h) THEN <<>> ELSE proxies[d]]
      /\ stamp' = [d \in Hubs |-> IF d \in FreedBy(h) THEN 0 ELSE stamp[d]]
      /\ phase[h] \in {"unused", "leaving"}
  BY DEF Sweep
<1>4. (\A d \in FreedBy(h) : phase[d] = "delayed" /\ d \in Hubs) /\ h \notin FreedBy(h)
  BY <1>3 DEF FreedBy, Delayed
<1>a. /\ PhaseSwept(h) \in {"swept", "dropped"}
      /\ PhaseSwept(h) = "dropped" <=> phase[h] = "unused"
  BY DEF PhaseSwept
<1>5. /\ phase' \in [Hubs -> {"new", "made", "live", "empty", "unused", "leaving", "swept",
                              "delayed", "freed", "dropped"}]
      /\ stamp' \in [Hubs -> 0 .. TimeMax] /\ proxies' \in [Hubs -> Seq(Item)]
  <2>1. phase' \in [Hubs -> {"new", "made", "live", "empty", "unused", "leaving", "swept",
                              "delayed", "freed", "dropped"}]
    BY <1>1, <1>3, <1>a DEF HubVarsRight
  <2>2. 0 \in 0 .. TimeMax
    OBVIOUS
  <2>3. stamp' \in [Hubs -> 0 .. TimeMax]
    BY <1>2, <1>3, <2>2
  <2>4. proxies' \in [Hubs -> Seq(Item)]
    BY <1>2, <1>3
  <2> QED BY <2>1, <2>3, <2>4
<1>6. (\A d \in Hubs : stamp[d] <= now)'
  BY <1>1, <1>2, <1>3
<1>7. UniqueFuncs(<<>>) /\ EnabledIn(<<>>) = {}
  BY DEF UniqueFuncs, EnabledIn
<1>8. ListsRight'
  <2> SUFFICES ASSUME NEW d \in Hubs
               PROVE  /\ UniqueFuncs(proxies'[d])
                      /\ EnabledIn(proxies'[d]) = owners'[d]
                      /\ phase'[d] = "live" /\ proxies'[d] # <<>> => owners'[d] # {}
                      /\ phase'[d] \in {"new", "made", "unused"} => proxies'[d] = <<>>
                      /\ phase'[d] # "live" => owners'[d] = {}
    BY DEF ListsRight
  <2>1. owners'[d] = owners[d]
    BY <1>1
  <2>2. CASE d \in FreedBy(h)
    BY <1>1, <1>3, <1>4, <1>7, <2>1, <2>2 DEF ListsRight
  <2>3. CASE d \notin FreedBy(h)
    BY <1>1, <1>3, <1>a, <2>1, <2>3 DEF ListsRight
  <2> QED BY <2>2, <2>3
<1>9. HubVarsRight'
  BY <1>5, <1>6, <1>8, <1>1 DEF HubVarsRight
<1>10. ASSUME NEW d \in Hubs, NEW b \in Nat, now <= b + CallMax, Held(b, d)
       PROVE  Held(b, d)' /\ Grown(proxies[d], proxies'[d])
  <2>1. d \notin FreedBy(h)
    <3>1. CASE phase[d] # "delayed"
      BY <1>4, <1>10, <3>1 DEF Held
    <3>2. CASE phase[d] = "delayed"
      <4>1. b <= stamp[d]
        BY <1>10, <3>2 DEF Held
      <4>2. ~(stamp[h] - stamp[d] > Delay)
        BY <1>1, <1>2, <1>10, <4>1
      <4> QED BY <3>2, <4>2, <1>3 DEF FreedBy, Rested
    <3> QED BY <3>1, <3>2
  <2>2. proxies'[d] = proxies[d] /\ stamp'[d] = stamp[d]
    BY <1>3, <2>1
  <2>3. phase'[d] = IF d = h THEN PhaseSwept(h) ELSE phase[d]
    BY <1>3, <2>1
  <2>4. Held(b, d)'
    BY <1>3, <1>a, <1>10, <2>2, <2>3 DEF Held
  <2> QED BY <1>2, <2>2, <2>4, GrownSame
<1>11. HubsHold
  BY <1>10 DEF HubsHold
<1>12. UnseenHold
  <2> SUFFICES ASSUME NEW d \in Hubs, Unseen(d) PROVE Unseen(d)'
    BY DEF UnseenHold
  <2>1. d \notin FreedBy(h)
    BY <1>4 DEF Unseen
  <2>2. phase'[d] = IF d = h THEN PhaseSwept(h) ELSE phase[d]
    BY <1>3, <2>1
  <2>3. d = h => phase[h] = "unused"
    BY <1>3 DEF Unseen
  <2> QED BY <1>a, <2>2, <2>3 DEF Unseen
<1> QED BY <1>1, <1>9, <1>11, <1>12, HubKeeps

\* The clock, which no call in progress may outlast.
LEMMA TickIInv ==
    ASSUME IInv, Tick
    PROVE  IInv'
<1>1. now < TimeMax /\ now' = now + 1 /\ UNCHANGED <<hubVars, threadVars>>
  BY DEF Tick
<1>2. now \in 0 .. TimeMax /\ TypeOK
  BY DEF IInv, TypeOK
<1>3. TypeOK' /\ (began \in [Threads -> Nat])' /\ StacksOwned' /\ ListsRight'
  <2>1. now' \in 0 .. TimeMax
    BY <1>1, <1>2
  <2>2. TypeOK'
    BY <1>1, <1>2, <2>1 DEF TypeOK, hubVars, threadVars, stackVars
  <2> QED BY <1>1, <2>2 DEF IInv, StacksOwned, ListsRight, hubVars, threadVars, stackVars
<1>4. (\A h \in Hubs : stamp[h] <= now)'
  <2>1. \A h \in Hubs : stamp[h] \in Nat /\ stamp[h] <= now /\ stamp'[h] = stamp[h]
    BY <1>1 DEF IInv, TypeOK, hubVars
  <2> QED BY <1>1, <1>2, <2>1
<1>5. ASSUME NEW t \in Threads PROVE ThreadRight(t)'
  <2>0. PICK w, cs, b, s, m :
            /\ w = walk[t] /\ cs = calls[t] /\ b = began[t] /\ s = Stack(t) /\ m = mem[t]
    OBVIOUS
  <2>1. Right(w, cs, b, s, m) /\ b \in Nat
    BY <2>0, TypedThread DEF IInv
  <2>2. walk'[t] = w /\ calls'[t] = cs /\ began'[t] = b /\ Stack(t)' = s /\ mem'[t] = m
    BY <1>1, <2>0 DEF threadVars, stackVars, Stack
  <2>3. cs # <<>> \/ w # Idle => now < b + CallMax
    BY <2>0 DEF Tick, Inside
  <2>4. InTime(w, cs, b)'
    BY <1>1, <1>2, <2>1, <2>3 DEF Right, InTime
  <2>5. WalkRight(w, cs, b, s, m)' /\ FramesRight(s, b)' /\ CallsRight(cs, b)'
    BY <1>1, <2>1 DEF Right, WalkRight, FramesRight, CallsRight, FrameRight, CallRight,
       Held, Unseen,
                      hubVars
  <2>6. InOrder(cs) /\ Matches(s, cs) /\ Entered(w, s)
    BY <2>1 DEF Right
  <2>7. Right(w, cs, b, s, m)'
    BY <2>4, <2>5, <2>6 DEF Right
  <2> QED BY <2>2, <2>7 DEF ThreadRight
<1> QED BY <1>3, <1>4, <1>5 DEF IInv

(***************************************************************************)
(* The specification                                                         *)
(***************************************************************************)
LEMMA InitIInv ==
    ASSUME Init
    PROVE  IInv
<1>1. 0 \in 0 .. TimeMax /\ 0 \in Nat /\ now \in Nat /\ 0 <= now
  BY DEF Init
<1>2. \A h \in Hubs : phase[h] = "new" /\ stamp[h] = 0 /\ proxies[h] = <<>> /\ owners[h] = {}
  BY DEF Init
<1>3. \A t \in Threads : /\ mem[t] = NoStack /\ walk[t] = Idle /\ calls[t] = <<>> /\ began[t] = 0
                         /\ Stack(t) = <<>>
  BY DEF Init, Stack
<1>4. TypeOK
  <2>1. frames \in [Memory -> Seq(Frame)] /\ \A m \in Memory : Len(frames[m]) <= FrameMax
    BY DEF Init
  <2>2. phase \in [Hubs -> {"new", "made", "live", "empty", "unused", "leaving", "swept",
                            "delayed", "freed", "dropped"}]
    BY DEF Init
  <2>3. stamp \in [Hubs -> 0 .. TimeMax] /\ now \in 0 .. TimeMax
    BY <1>1 DEF Init
  <2>4. proxies \in [Hubs -> Seq(Item)] /\ owners \in [Hubs -> SUBSET Funcs]
    BY DEF Init
  <2>7. trampo \in [Hubs -> Trampos \cup {NoTrampo}]
    BY DEF Init
  <2>5. mem \in [Threads -> Memory \cup {NoStack}] /\ used \subseteq Slots
    BY DEF Init
  <2>6. walk \in [Threads -> Walk \cup {Idle}] /\ calls \in [Threads -> Seq(Call)]
    BY DEF Init
  <2> QED BY <2>1, <2>2, <2>3, <2>4, <2>5, <2>6, <2>7 DEF TypeOK
<1>5. began \in [Threads -> Nat]
  BY DEF Init
<1>6. StacksOwned
  BY <1>3 DEF StacksOwned
<1>7. ListsRight
  <2>1. UniqueFuncs(<<>>) /\ EnabledIn(<<>>) = {}
    BY DEF UniqueFuncs, EnabledIn
  <2> QED BY <1>2, <2>1 DEF ListsRight
<1>8. ASSUME NEW t \in Threads PROVE ThreadRight(t)
  <2>1. InTime(Idle, <<>>, 0)
    BY <1>1 DEF InTime
  <2>2. CallsRight(<<>>, 0) /\ FramesRight(<<>>, 0) /\ InOrder(<<>>)
    BY DEF CallsRight, FramesRight, InOrder
  <2>3. WalkRight(Idle, <<>>, 0, <<>>, NoStack)
    BY DEF WalkRight
  <2> QED BY <1>3, <2>1, <2>2, <2>3, EnteredNone, MatchEmpty DEF ThreadRight, Right
<1> QED BY <1>1, <1>2, <1>4, <1>5, <1>6, <1>7, <1>8 DEF IInv

\* Every step keeps the invariant.
LEMMA NextIInv ==
    ASSUME IInv, Next
    PROVE  IInv'
<1>1. CASE Tick
  BY <1>1, TickIInv
<1>2. ASSUME NEW h \in Hubs,
             \/ Create(h) \/ Hooked(h) \/ BeginDestroy(h) \/ Sweep(h) \/ Retire(h)
             \/ \E f \in Funcs : AddProxy(h, f) \/ DeleteProxy(h, f)
      PROVE  IInv'
  BY <1>2, CreateIInv, HookedIInv, BeginDestroyIInv, SweepIInv, RetireIInv, AddProxyIInv,
     DeleteProxyIInv
<1>3. ASSUME NEW t \in Threads, Step(t) PROVE IInv'
  BY <1>3, PushStackIInv, PushWalkIInv, PushFrameIInv, AllowReentrantIInv,
     DisallowReentrantIInv,
     GetPrevIInv, PrevWalkIInv, ProxyReturnIInv, OrigReturnIInv DEF Step
<1>4. ASSUME NEW t \in Threads, ThreadExit(t) \/ \E h \in Hubs : CallHub(t, h) PROVE IInv'
  BY <1>4, ThreadExitIInv, CallHubIInv
<1> QED BY <1>1, <1>2, <1>3, <1>4 DEF Next

\* So does a step of something else.
LEMMA StutterIInv ==
    ASSUME IInv, UNCHANGED vars
    PROVE  IInv'
<1>1. UNCHANGED <<now, hubVars, threadVars>>
  BY DEF vars
<1>2. HubVarsRight'
  BY <1>1, HubTyped DEF HubVarsRight, ListsRight, hubVars
<1>3. \A h \in Hubs, b \in Nat : Held(b, h) => Held(b, h)' /\ Grown(proxies[h], proxies'[h])
  BY <1>1, HubTyped, GrownSame DEF HubVarsRight, Held, hubVars
<1>4. HubsHold /\ UnseenHold
  BY <1>1, <1>3 DEF HubsHold, UnseenHold, Unseen, hubVars
<1> QED BY <1>1, <1>2, <1>4, HubKeeps

\* The invariant holds of every run of the hubs.
THEOREM Invariant == Spec => []IInv
<1>1. Init => IInv
  BY InitIInv
<1>2. IInv /\ [Next]_vars => IInv'
  BY NextIInv, StutterIInv
<1> QED BY <1>1, <1>2, PTL DEF Spec

\* Every variable has its type, and no stack overruns its array of frames: the
\* array of sh_hub_stack_t has SH_HUB_STACK_FRAME_MAX of them.
THEOREM HubTypes == Spec => []TypeOK
<1>1. IInv => TypeOK
  BY DEF IInv
<1> QED BY <1>1, Invariant, PTL

\* The enabled proxies are those whose callers have not unhooked them, each with
\* one item, and the function is unhooked as soon as the last of them is gone
\* (sh_hub_add_proxy and sh_hub_delete_proxy).
THEOREM Agreement == Spec => []CallersAgree
<1>1. IInv => CallersAgree
  BY DEF IInv, ListsRight, UniqueFuncs, CallersAgree, OneItemPerFunc
<1> QED BY <1>1, Invariant, PTL

\* The function that sh_hub_get_prev_func gives a proxy stands after it in the
\* list.
THEOREM Order == Spec => []ChainOrder
<1>1. ASSUME IInv PROVE ChainOrder
  <2> SUFFICES ASSUME NEW t \in Threads, NEW i \in DOMAIN calls[t], i > 1, ~calls[t][i].first
               PROVE  calls[t][i].at < calls[t][i - 1].at
    BY DEF ChainOrder
  <2>1. calls[t] \in Seq(Call) /\ InOrder(calls[t])
    BY <1>1, TypedThread DEF Right
  <2>2. i \in 1 .. Len(calls[t])
    BY <2>1
  <2> QED BY <2>1, <2>2 DEF InOrder
<1> QED BY <1>1, Invariant, PTL

\* The match is the one that takes frames and calls in their order.
LEMMA MatchPushedBy ==
    ASSUME IInv, NEW t \in Threads
    PROVE  \E by \in PushedBy(t) : MatchedBy(by, Stack(t), calls[t])
<1> DEFINE s == Stack(t)  cs == calls[t]
<1>1. s \in Seq(Frame) /\ cs \in Seq(Call) /\ Matches(s, cs)
  BY TypedThread DEF Right
<1>2. PICK pos : MatchedBy(pos, s, cs)
  BY <1>1 DEF Matches
<1>3. DOMAIN s = 1 .. Len(s) /\ DOMAIN cs = 1 .. Len(cs)
  BY <1>1
<1>4. Framed(t) = {k \in 1 .. Len(cs) : Pushed(cs[k])}
  BY <1>3 DEF Framed, Pushed
<1>5. pos \in [DOMAIN s -> Framed(t)]
  <2>1. pos \in [1 .. Len(s) -> 1 .. Len(cs)] /\ \A i \in 1 .. Len(s) : Pushed(cs[pos[i]])
    BY <1>2 DEF MatchedBy
  <2> QED BY <1>3, <1>4, <2>1
<1>6. \A i, j \in DOMAIN pos : i < j => pos[i] < pos[j]
  BY <1>2 DEF MatchedBy
<1>7. ASSUME NEW k \in Framed(t) PROVE \E i \in DOMAIN pos : pos[i] = k
  <2>1. k \in 1 .. Len(cs) /\ Pushed(cs[k])
    BY <1>4
  <2>2. PICK i \in 1 .. Len(s) : FrameOf(pos, s, cs, i, k)
    BY <1>2, <2>1 DEF MatchedBy, Pushed
  <2>3. pos[i] = k
    BY <2>1, <2>2 DEF FrameOf, Pushed
  <2> QED BY <1>2, <2>2, <2>3 DEF MatchedBy
<1> QED BY <1>2, <1>5, <1>6, <1>7 DEF PushedBy

\* Every frame on a thread's stack was pushed for a call in progress, and carries
\* its return address: sh_hub_pop_stack and sh_hub_get_prev_func find their own
\* at the top, and nothing is left behind.
THEOREM FramesOfCalls == Spec => []FramesMatchCalls
<1>1. ASSUME IInv PROVE FramesMatchCalls
  <2> SUFFICES ASSUME NEW t \in Threads
               PROVE  \E by \in PushedBy(t) :
                        \A i \in DOMAIN by : Stack(t)[i].ret = calls[t][by[i]].ret
    BY DEF FramesMatchCalls
  <2>1. PICK by \in PushedBy(t) : MatchedBy(by, Stack(t), calls[t])
    BY <1>1, MatchPushedBy
  <2> QED BY <2>1 DEF MatchedBy
<1> QED BY <1>1, Invariant, PTL

\* A function is entered again on a thread only where all its frames below allow
\* it, and they allow it only between sh_hub_allow_reentrant and
\* sh_hub_disallow_reentrant of their own proxy.  Excepted are calls that came by
\* the trampoline of another hub.
THEOREM ReentryAllowed == Spec => []Reentry
<1>1. ASSUME IInv PROVE Reentry
  <2> SUFFICES ASSUME NEW t \in Threads
               PROVE  \E by \in PushedBy(t) : \A i \in DOMAIN by :
                        LET c == calls[t][by[i]] IN
                        /\ Stack(t)[i].allow => c.fn \in Allowing /\ c.stage # "entry"
                        /\ \A j \in DOMAIN by :
                            i < j /\ Stack(t)[i].orig = Stack(t)[j].orig =>
                                Stack(t)[i].allow \/ Astray(Stack(t)[j])
    BY DEF Reentry
  <2>1. PICK by \in PushedBy(t) : MatchedBy(by, Stack(t), calls[t])
    BY <1>1, MatchPushedBy
  <2>2. DOMAIN by = 1 .. Len(Stack(t))
    BY <2>1 DEF MatchedBy
  <2>3. \A i \in DOMAIN by : Stack(t)[i].allow => Asked(calls[t][by[i]])
    BY <2>1, <2>2 DEF MatchedBy
  <2>4. Entered(walk[t], Stack(t))
    BY <1>1, TypedThread DEF Right
  <2> QED BY <2>2, <2>3, <2>4 DEF Asked, Entered
<1> QED BY <1>1, Invariant, PTL

\* No thread is on its way to, on the list of or in a frame of a hub that
\* sh_hub_destroy freed after its delay: the delay is enough for hubs when no call
\* takes longer, though the place of a trampoline is handed out earlier and a
\* thread in it led to another hub (sh_hub.cpp:386).
THEOREM NoStaleUse == Spec => []NoUseAfterFree
<1>1. ASSUME IInv PROVE NoUseAfterFree
  <2>1. ASSUME NEW t \in Threads, walk[t] # Idle PROVE phase[walk[t].hub] # "freed"
    <3>1. Held(began[t], walk[t].hub) \/ Unseen(walk[t].hub)
      BY <1>1, <2>1, TypedThread DEF Right, WalkRight
    <3> QED BY <3>1 DEF Held, Unseen
  <2>2. ASSUME NEW t \in Threads, NEW i \in DOMAIN Stack(t)
        PROVE  phase[Stack(t)[i].hub] # "freed"
    <3>1. Stack(t) \in Seq(Frame) /\ FramesRight(Stack(t), began[t])
      BY <1>1, TypedThread DEF Right
    <3>2. i \in 1 .. Len(Stack(t))
      BY <2>2, <3>1
    <3>3. Held(began[t], Stack(t)[i].hub)
      BY <3>1, <3>2 DEF FramesRight, FrameRight
    <3> QED BY <3>3 DEF Held
  <2> QED BY <2>1, <2>2 DEF NoUseAfterFree
<1> QED BY <1>1, Invariant, PTL

=============================================================================
