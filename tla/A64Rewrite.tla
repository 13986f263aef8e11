---------------------------- MODULE A64Rewrite ----------------------------
(***************************************************************************)
(* Moving the first instructions of an arm64 function to its enter           *)
(* (arch/arm64/sh_a64.cpp, sh_inst_hook_rewrite): each becomes a block of    *)
(* words that does the same from another place.  Addresses count words of    *)
(* four bytes.                                                               *)
(*                                                                           *)
(* The blocks are translated word by word and run on what they touch: the    *)
(* place, X17, the register the instruction loads, and the link register.    *)
(***************************************************************************)
EXTENDS Integers, Sequences

Addressing == {"adr", "adrp"}
Tests      == {"cb", "tb"}                  \* CBZ and CBNZ, TBZ and TBNZ
Branches   == {"b", "bl", "b_cond"} \cup Tests
Literals   == {"prfm", "ldr_simd"}          \* loads that need X17 for the address
Types      == {"ignored", "ldr"} \cup Addressing \cup Branches \cup Literals

\* An instruction: its type, and the address it names if it is relative to
\* the pc.
Inst == [type : Types, to : Int]

Plain == [type |-> "ignored", to |-> 0]

\* sh_a64_get_rewrite_inst_len: how many words its block has.
RewriteLen(type) ==
    CASE type = "ignored" -> 1
      [] type \in {"b", "bl", "ldr"} -> 5
      [] type = "b_cond" \/ type \in Literals -> 7
      [] type \in Addressing -> 4
      [] type \in Tests -> 6

(***************************************************************************)
(* Addresses inside the part that is moved.  moved has the place of the      *)
(* part, its instructions, and the place they are moved to.                  *)
(***************************************************************************)
Part == [start : Int, insts : Seq(Inst), buf : Int]
End(moved) == moved.start + Len(moved.insts)
NeedFix(a, moved) == moved.start <= a /\ a < End(moved)

\* Where the blocks begin: each behind those before it, and the jump back behind
\* them all.
Places(moved) ==
    LET at[n \in 0 .. Len(moved.insts)] ==
            IF n = 0 THEN moved.buf ELSE at[n - 1] + RewriteLen(moved.insts[n].type)
    IN  at

BlockAt(moved, i) == Places(moved)[i - 1]

FixAddr(a, moved) ==
    IF NeedFix(a, moved) THEN BlockAt(moved, a - moved.start + 1) ELSE a

(***************************************************************************)
(* sh_a64_rewrite.  The words of a block: data, jumps by a distance, loads   *)
(* of the 64-bit word at a distance, and instructions on registers.          *)
(***************************************************************************)
Word(op, arg) == [op |-> op, arg |-> arg]

Data(a)    == <<Word("low", a), Word("high", a)>>
LoadX17(n) == Word("ldr_x17", n)
LoadXt(n)  == Word("ldr_xt", n)
Jump(n)    == Word("jump", n)
When(n)    == Word("when", n)        \* the instruction's own condition

RewriteB(inst, moved) ==
    LET a == FixAddr(inst.to, moved)
        go == IF inst.type = "bl" THEN "blr_x17" ELSE "br_x17"
    IN  (IF inst.type = "b_cond" THEN <<When(2), Jump(6)>> ELSE <<>>)
        \o <<LoadX17(2), Jump(3)>> \o Data(a) \o <<Word(go, 0)>>

RewriteTest(inst, moved) ==
    <<When(2), Jump(5), LoadX17(2), Word("br_x17", 0)>> \o Data(FixAddr(inst.to, moved))

\* Mutant: the jump over the address lands in it.
RewriteAdrShort(inst, moved) ==
    IF NeedFix(inst.to, moved) THEN <<>> ELSE <<LoadXt(2), Jump(2)>> \o Data(inst.to)

\* An address inside the moved part cannot be kept: the rewrite fails.
RewriteAdr(inst, moved) ==
    IF NeedFix(inst.to, moved) THEN <<>> ELSE <<LoadXt(2), Jump(3)>> \o Data(inst.to)

\* Data inside the moved part is about to be overwritten: only a prefetch is
\* rewritten.
RewriteLdr(inst, moved) ==
    IF NeedFix(inst.to, moved) /\ inst.type # "prfm" THEN <<>>
    ELSE IF inst.type = "ldr" THEN <<LoadXt(3), Word("ldr", "xt"), Jump(3)>> \o Data(inst.to)
    ELSE <<Word("save_x17", 0), LoadX17(4), Word("ldr", "x17"), Word("restore_x17", 0), Jump(3)>>
         \o Data(FixAddr(inst.to, moved))

Rewrite(inst, moved) ==
    CASE inst.type \in {"b", "bl", "b_cond"} -> RewriteB(inst, moved)
      [] inst.type \in Tests -> RewriteTest(inst, moved)
      [] inst.type \in Addressing -> RewriteAdr(inst, moved)
      [] inst.type = "ldr" \/ inst.type \in Literals -> RewriteLdr(inst, moved)
      [] inst.type = "ignored" -> <<Word("inst", 0)>>

\* sh_inst_hook_rewrite fails if one of the instructions does.
Rewritable(moved) == \A i \in DOMAIN moved.insts : Rewrite(moved.insts[i], moved) # <<>>

(***************************************************************************)
(* What instructions and blocks do.  next is where the thread goes, value    *)
(* what the register gets, link the return address of a call.                *)
(***************************************************************************)
None == [kind |-> "none"]
Address(a) == [kind |-> "address", at |-> a]
Loaded(a) == [kind |-> "loaded", at |-> a]

\* The instruction at pc; holds says whether its condition holds.
Effect(inst, pc, holds) ==
    LET taken == inst.type \in {"b", "bl"} \/ (inst.type \in {"b_cond"} \cup Tests /\ holds)
    IN  [next  |-> Address(IF taken THEN inst.to ELSE pc + 1),
         link  |-> IF inst.type = "bl" THEN Address(pc + 1) ELSE None,
         value |-> IF inst.type \in Addressing THEN Address(inst.to)
                   ELSE IF inst.type = "ldr" \/ inst.type \in Literals THEN Loaded(inst.to) ELSE None,
         x17   |-> "kept"]

\* One word of a block that stands at base.  m has the index of the word, what
\* was loaded and saved, and where the thread went.
RunWord(block, base, holds, m) ==
    LET w == block[m.at + 1]
        literal == block[m.at + 1 + w.arg].arg
        step == [m EXCEPT !.at = @ + 1]
        target == [step EXCEPT !.gone = m.x17]
    IN  CASE w.op = "ldr_x17" -> [step EXCEPT !.x17 = Address(literal)]
          [] w.op = "ldr_xt" -> [step EXCEPT !.value = Address(literal)]
          [] w.op = "jump" -> [m EXCEPT !.at = @ + w.arg]
          [] w.op = "when" -> IF holds THEN [m EXCEPT !.at = @ + w.arg] ELSE step
          [] w.op = "ldr" -> [step EXCEPT !.value = Loaded(IF w.arg = "xt" THEN m.value.at ELSE m.x17.at)]
          [] w.op = "save_x17" -> [step EXCEPT !.saved = m.x17]
          [] w.op = "restore_x17" -> [step EXCEPT !.x17 = m.saved]
          [] w.op = "br_x17" -> target
          [] w.op = "blr_x17" -> [target EXCEPT !.link = Address(base + m.at + 1)]
          [] w.op = "inst" -> step
          [] w.op \in {"low", "high"} -> [step EXCEPT !.gone = [kind |-> "data run as code"]]

\* The block runs until it leaves; no block has more than seven words.
Starting == [at |-> 0, x17 |-> None, saved |-> None, gone |-> None, link |-> None, value |-> None]

After(block, base, holds, m) ==
    IF m.gone # None \/ m.at >= Len(block) THEN m ELSE RunWord(block, base, holds, m)

States(block, base, holds) ==
    LET state[n \in 0 .. 7] ==
            IF n = 0 THEN Starting ELSE After(block, base, holds, state[n - 1])
    IN  state

RunBlock(block, base, holds) ==
    LET end == States(block, base, holds)[7]
    IN  [next  |-> IF end.gone # None THEN end.gone ELSE Address(base + end.at),
         link  |-> end.link,
         value |-> end.value,
         x17   |-> IF end.x17 = None THEN "kept" ELSE "lost"]

\* An address in the part is that of its block in the enter, the one behind the
\* part that of the jump back.
Moved(v, moved) ==
    IF v.kind = "address" /\ moved.start <= v.at /\ v.at <= End(moved)
    THEN Address(BlockAt(moved, v.at - moved.start + 1)) ELSE v

\* Behind the part itself the thread is where the jump back leads.
SamePlace(a, b, moved) == b = Moved(a, moved) \/ (a = Address(End(moved)) /\ b = a)

\* The block is as long as its place, and does the same from there.
SameEffect(i, moved, holds) ==
    LET inst == moved.insts[i]
        e == Effect(inst, moved.start + i - 1, holds)
        r == RunBlock(Rewrite(inst, moved), BlockAt(moved, i), holds)
    IN  /\ Len(Rewrite(inst, moved)) = RewriteLen(inst.type)
        /\ SamePlace(e.next, r.next, moved)
        /\ r.link = Moved(e.link, moved)
        /\ r.value = e.value \/ inst.type = "prfm"
        /\ r.x17 = "kept" \/ (inst.type \in Branches /\ e.next = Address(inst.to))

\* The enter does what the part did.
SameProgram(moved) ==
    Rewritable(moved) => \A i \in DOMAIN moved.insts, holds \in BOOLEAN : SameEffect(i, moved, holds)

=============================================================================
