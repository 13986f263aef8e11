--------------------------- MODULE MCSharedHook ---------------------------
(***************************************************************************)
(* A small instance of SharedHook: a thread, a function hooked by two        *)
(* proxies of which one is reentrant, and one hooked by one proxy.  Both lie *)
(* in one library with a hole behind its code that has room for one exit,    *)
(* and another behind its data; the second function alone reaches that one   *)
(* and the page of ShTrampo, and is too short for four words.                *)
(***************************************************************************)
EXTENDS SharedHook

CONSTANTS t1, h1, h2, o1, o2, fa, fb, s1, p1, p2

\* Any place does for a trampoline.
PlacesAlike == Permutations(Trampos)

TwoOrigs   == h1 :> o1 @@ h2 :> o2
TwoFuncs   == h1 :> {fa, fb} @@ h2 :> {fb}
TwoTargets == h1 :> 16 @@ h2 :> 28
TwoSizes   == 16 :> 5 @@ 28 :> 2

To(type, a) == [type |-> type, to |-> a]

TwoCodes == 16 :> To("b_cond", 19) @@ 17 :> To("ldr", 40) @@ 18 :> Plain @@ 19 :> To("bl", 28)
            @@ 20 :> Plain @@ 28 :> To("cb", 16) @@ 29 :> Plain

Segments == <<[vaddr |-> 16, memsz |-> 15, filesz |-> 15, exec |-> TRUE],
              [vaddr |-> 40, memsz |-> 10, filesz |-> 2, exec |-> FALSE]>>
OneLibrary == 16 :> Segments @@ 28 :> Segments

\* The words that hooks may touch, and their neighbours.
FewWords ==
    [a \in 16 .. 20 \cup 28 .. 30 \cup 32 .. 43 \cup 52 .. 59 |->
        IF a \in DOMAIN TwoCodes THEN Original(a)
        ELSE IF a \in 32 .. 39 THEN Word("junk", 0) ELSE Zero]

\* Parts of four instructions, at most two of them relative to the pc, which
\* name places inside and outside, and parts of one.
Relative == {To(t, a) : t \in Types \ {"ignored"}, a \in {51, 90}}
FewParts ==
    LET code == {<<i>> : i \in Relative}
                \cup {[k \in 1 .. 4 |-> IF k = m THEN i ELSE IF k = n THEN j ELSE Plain] :
                        m \in 1 .. 3, n \in 2 .. 4, i \in Relative, j \in Relative}
    IN  {[start |-> 50, insts |-> c, buf |-> 1000] : c \in code}

\* The same for arm.  SP is not among the registers: the blocks that push move
\* it.  Nor do both operands hold the pc, nor does a BLX lead into the part: there
\* the code is wrong (see README).
Inst32(type, a, rd, rn, rm) == [type |-> type, to |-> a, rd |-> rd, rn |-> rn, rm |-> rm]
Low == 0 .. 4
Results == Low \cup {A32!Lr, A32!Pc}
FewArmInsts ==
    {Inst32(t, a, 0, 0, 0) : t \in A32!Branches \ {"blx"}, a \in {51, 90}} \cup {Inst32("blx", 90, 0, 0, 0)}
    \cup {Inst32(t, a, rd, 0, 0) : t \in {"adr", "ldr_lit"}, a \in {51, 90}, rd \in Results}
    \cup {Inst32("mov", 0, rd, 0, 0) : rd \in Results}
    \cup {Inst32("alu", 0, rd, A32!Pc, r) : rd \in Results, r \in Low}
    \cup {Inst32("alu", 0, rd, r, A32!Pc) : rd \in Results, r \in Low}
    \cup {Inst32("ldr_reg", 0, rd, A32!Pc, r) : rd \in Low \cup {A32!Pc}, r \in Low}
FewArmParts ==
    LET jump == Inst32("b", 51, 0, 0, 0)
        code == {<<i>> : i \in FewArmInsts} \cup {<<i, jump>> : i \in FewArmInsts}
                \cup {<<jump, i>> : i \in FewArmInsts}
    IN  {[start |-> 50, insts |-> c, buf |-> 1000] : c \in code}

=============================================================================
