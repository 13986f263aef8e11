----------------------------- MODULE A32Rewrite -----------------------------
(***************************************************************************)
(* Moving the first instructions of an arm function to its enter             *)
(* (arch/arm/sh_a32.cpp): the counterpart of A64Rewrite for 32 bits.  Here   *)
(* the pc is a register that most instructions can read, and the blocks      *)
(* borrow registers and save them on the stack.  Addresses count words.      *)
(*                                                                           *)
(* The instructions and the words of a block run on 16 registers and a       *)
(* stack, whose values are symbolic.  Flags, shifts and sizes of loads go    *)
(* from the instruction to its block unchanged and are left out.             *)
(***************************************************************************)
EXTENDS Integers, Sequences, FiniteSets

Sp == 13
Lr == 14
Pc == 15
Registers == 0 .. 15

Calls    == {"bl", "blx"}
Branches == {"b", "bx_pc"} \cup Calls
Types    == {"ignored", "alu", "adr", "mov", "ldr_lit", "ldr_reg"} \cup Branches

\* An instruction: the address it names (B, BL, BLX, ADR and literal loads), its
\* destination and its operands, of which ADD, SUB and LDR with a register have
\* one that is the pc.
Inst == [type : Types, to : Int, rd : Registers, rn : Registers, rm : Registers]

Plain == [type |-> "ignored", to |-> 0, rd |-> 0, rn |-> 0, rm |-> 0]

\* sh_a32_get_rewrite_inst_len, in words.
RewriteLen(inst) ==
    CASE inst.type = "ignored" -> 1
      [] inst.type \in {"b", "bx_pc", "adr"} -> 3
      [] inst.type \in Calls -> 4
      [] inst.type = "alu" -> 8
      [] inst.type = "mov" -> IF inst.rd = Pc THEN 3 ELSE 8
      [] inst.type = "ldr_lit" -> IF inst.rd = Pc THEN 9 ELSE 6
      [] inst.type = "ldr_reg" -> IF inst.rd = Pc THEN 9 ELSE 8

(***************************************************************************)
(* Addresses inside the part that is moved, of one word or two.  Covered and *)
(* LosesThumb leave out what the code does not get right: an instruction     *)
(* that uses SP, which its block moves when it pushes, or has the pc as both *)
(* operands; and a BLX into the part, whose bit 0 is set before the address  *)
(* is fixed, so that it is led, as arm code, to the block one further on.    *)
(***************************************************************************)
Covered(inst) ==
    /\ inst.type = "alu" => (inst.rn = Pc /\ inst.rm \notin {Sp, Pc}) \/ (inst.rm = Pc /\ inst.rn \notin {Sp, Pc})
    /\ inst.type = "ldr_reg" => inst.rn = Pc /\ inst.rm \notin {Sp, Pc}
    /\ inst.type \in {"alu", "mov", "ldr_reg"} => inst.rd # Sp

End(moved) == moved.start + Len(moved.insts)
NeedFix(a, moved) == moved.start <= a /\ a < End(moved)
LosesThumb(inst, moved) == inst.type = "blx" /\ NeedFix(inst.to, moved)

Part == {moved \in [start : Int, insts : Seq(Inst), buf : Int] :
            /\ Len(moved.insts) \in 1 .. 2
            /\ \A i \in DOMAIN moved.insts :
                  Covered(moved.insts[i]) /\ ~LosesThumb(moved.insts[i], moved)}

\* Where the blocks begin, each behind those before it.
Places(moved) ==
    LET at[n \in 0 .. Len(moved.insts)] ==
            IF n = 0 THEN moved.buf ELSE at[n - 1] + RewriteLen(moved.insts[n])
    IN  at

BlockAt(moved, i) == Places(moved)[i - 1]

FixAddr(a, moved) ==
    IF NeedFix(a, moved) THEN BlockAt(moved, a - moved.start + 1) ELSE a

\* The values of registers and data: an address, one with bit 0 set (thumb code),
\* what a register or the memory held, a sum or difference of two.
Address(a) == [kind |-> "address", at |-> a]
Thumb(a) == [kind |-> "thumb", at |-> a]
Initial(r) == [kind |-> "register", reg |-> r]
Memory(base, index) == [kind |-> "memory", base |-> base, index |-> index]
Sum(a, b) == [kind |-> "sum", left |-> a, right |-> b]
None == [kind |-> "none"]

\* sh_a32_fix_addr of an address with bit 0 set: the loop passes the block of the
\* word that it lies in, and what it returns has bit 0 clear.
FixThumb(a, moved) ==
    IF NeedFix(a, moved) THEN Address(Places(moved)[a - moved.start + 1]) ELSE Thumb(a)

(***************************************************************************)
(* sh_a32_rewrite.  A word has an operation, its condition, which may be the *)
(* instruction's own, and its operands; distances are in words and count     *)
(* from the pc, two words ahead.                                             *)
(***************************************************************************)
Own    == "own"
Always == "always"

Word(op, cond, rd, rn, rm, n) == [op |-> op, cond |-> cond, rd |-> rd, rn |-> rn, rm |-> rm, n |-> n]

Branch(cond, n) == Word("b", cond, 0, 0, 0, n)
Literal(cond, rd, n) == Word("literal", cond, rd, 0, 0, n)
Data(v) == Word("data", Always, 0, 0, 0, v)
Push(regs) == Word("push", Always, 0, 0, 0, regs)
Pop(regs) == Word("pop", Always, 0, 0, 0, regs)
Store(rd, n) == Word("store", Always, rd, 0, 0, n)
Load(rd, rn) == Word("load", Always, rd, rn, 0, 0)
LoadReg(rd, rn, rm) == Word("load_reg", Always, rd, rn, rm, 0)
Compute(rd, rn, rm) == Word("alu", Always, rd, rn, rm, 0)
Move(rd, rm) == Word("mov", Always, rd, 0, rm, 0)

\* The pc that an instruction of the part reads.
PcOf(moved, i) == moved.start + i - 1 + 2

\* The last register up to top that is not in use.
Unused(top, regs) == CHOOSE r \in 0 .. top : r \notin regs /\ \A q \in r + 1 .. top : q \in regs

RewriteB(inst, pc, moved) ==
    LET cond == IF inst.type = "blx" THEN Always ELSE Own
        to == IF inst.type = "blx" THEN FixThumb(inst.to, moved)
              ELSE Address(FixAddr(IF inst.type = "bx_pc" THEN pc ELSE inst.to, moved))
    IN  (IF inst.type \in Calls THEN <<Word("add_pc", cond, Lr, 0, 0, 2)>> ELSE <<>>)
        \o <<Literal(cond, Pc, 0), Branch(Always, 0), Data(to)>>

RewriteAddOrSub(inst, pc) ==
    LET rx == Unused(3, {inst.rn, inst.rm, inst.rd})
        ry == Unused(4, {inst.rn, inst.rm, inst.rd, rx})
        do(rd) == IF inst.rn = Pc THEN Compute(rd, rx, inst.rm) ELSE Compute(rd, inst.rn, rx)
    IN  <<Branch(Own, 0), Branch(Always, 5)>>
        \o (IF inst.rd = Pc
            THEN <<Push({rx, ry, Pc}), Literal(Always, rx, 2), do(ry), Store(ry, 2), Pop({rx, ry, Pc})>>
            ELSE <<Push({rx}), Literal(Always, rx, 2), do(inst.rd), Pop({rx}), Branch(Always, 0)>>)
        \o <<Data(Address(pc))>>

RewriteAdr(inst, moved) ==
    IF NeedFix(inst.to, moved) THEN <<>>
    ELSE <<Literal(Own, inst.rd, 0), Branch(Always, 0), Data(Address(inst.to))>>

RewriteMov(inst, pc) ==
    LET rx == IF inst.rd = 0 THEN 1 ELSE 0
    IN  IF inst.rd = Pc THEN <<Literal(Own, Pc, 0), Branch(Always, 0), Data(Address(pc))>>
        ELSE <<Branch(Own, 0), Branch(Always, 5), Push({rx}), Literal(Always, rx, 2), Move(inst.rd, rx),
               Pop({rx}), Branch(Always, 0), Data(Address(pc))>>

RewriteLdrLit(inst, moved) ==
    IF NeedFix(inst.to, moved) THEN <<>>
    ELSE IF inst.rd = Pc
    THEN <<Branch(Own, 0), Branch(Always, 6), Push({0, 1}), Literal(Always, 0, 0), Branch(Always, 0),
           Data(Address(inst.to)), Load(0, 0), Store(0, 1), Pop({0, Pc})>>
    ELSE <<Branch(Own, 0), Branch(Always, 3), Literal(Always, inst.rd, 0), Branch(Always, 0),
           Data(Address(inst.to)), Load(inst.rd, inst.rd)>>

RewriteLdrReg(inst, pc) ==
    LET rx == Unused(3, {inst.rd, inst.rd + 1, inst.rm})
        ry == Unused(4, {inst.rd, inst.rd + 1, inst.rm, rx})
    IN  IF inst.rd = Pc
        THEN <<Branch(Own, 0), Branch(Always, 6), Push({rx, ry, Pc}), Literal(Always, rx, 0), Branch(Always, 0),
               Data(Address(pc)), LoadReg(ry, rx, inst.rm), Store(ry, 2), Pop({rx, ry, Pc})>>
        ELSE <<Branch(Own, 0), Branch(Always, 5), Push({rx}), Literal(Always, rx, 0), Branch(Always, 0),
               Data(Address(pc)), LoadReg(inst.rd, rx, inst.rm), Pop({rx})>>

Rewrite(moved, i) ==
    LET inst == moved.insts[i]
        pc == PcOf(moved, i)
    IN  CASE inst.type \in Branches -> RewriteB(inst, pc, moved)
          [] inst.type = "alu" -> RewriteAddOrSub(inst, pc)
          [] inst.type = "adr" -> RewriteAdr(inst, moved)
          [] inst.type = "mov" -> RewriteMov(inst, pc)
          [] inst.type = "ldr_lit" -> RewriteLdrLit(inst, moved)
          [] inst.type = "ldr_reg" -> RewriteLdrReg(inst, pc)
          [] inst.type = "ignored" -> <<Word("inst", Always, 0, 0, 0, 0)>>

Rewritable(moved) == \A i \in DOMAIN moved.insts : Rewrite(moved, i) # <<>>

(***************************************************************************)
(* What instructions and blocks do to the registers.  At the end the pc is   *)
(* where the thread goes on.                                                 *)
(***************************************************************************)
AtStart == [r \in Registers |-> Initial(r)]

\* The instruction of the part.
Effect(moved, i, holds) ==
    LET inst == moved.insts[i]
        own == [AtStart EXCEPT ![Pc] = Address(PcOf(moved, i))]
        plain == [AtStart EXCEPT ![Pc] = Address(moved.start + i)]
        linked == IF inst.type \in Calls THEN [plain EXCEPT ![Lr] = plain[Pc]] ELSE plain
        rd == IF inst.type \in Branches THEN Pc ELSE inst.rd
        value == CASE inst.type \in {"b", "bl", "adr"} -> Address(inst.to)
                   [] inst.type = "blx" -> Thumb(inst.to)
                   [] inst.type \in {"bx_pc", "mov"} -> own[Pc]
                   [] inst.type = "alu" -> Sum(own[inst.rn], own[inst.rm])
                   [] inst.type = "ldr_lit" -> Memory(Address(inst.to), None)
                   [] inst.type = "ldr_reg" -> Memory(own[Pc], own[inst.rm])
        done == inst.type # "ignored" /\ (holds \/ inst.type = "blx")
    IN  IF done THEN [linked EXCEPT ![rd] = value] ELSE plain

\* The state of a block that runs has the index of the word, the registers but
\* for the pc, the words pushed, lowest address first, and where the thread went.
Starting == [at |-> 0, regs |-> AtStart, stack |-> <<>>, gone |-> None]

\* The order of registers in memory.
Ordered(regs) == CHOOSE s \in [1 .. Cardinality(regs) -> regs] : \A j, k \in DOMAIN s : j < k => s[j] < s[k]

Set(m, r, v) == IF r = Pc THEN [m EXCEPT !.gone = v] ELSE [m EXCEPT !.regs[r] = v]

Pushed(m, regs) ==
    LET list == Ordered(regs)
    IN  [m EXCEPT !.stack = [k \in DOMAIN list |-> m.regs[list[k]]] \o @]

Popped(m, regs) ==
    LET list == Ordered(regs)
        word(r) == m.stack[CHOOSE k \in DOMAIN list : list[k] = r]
    IN  [m EXCEPT !.stack = SubSeq(@, Len(list) + 1, Len(@)),
                  !.gone = IF Pc \in regs THEN word(Pc) ELSE @,
                  !.regs = [r \in Registers |-> IF r \in regs \ {Pc} THEN word(r) ELSE m.regs[r]]]

\* A word of a block at base.
RunWord(block, base, holds, m) ==
    LET w == block[m.at + 1]
        pc == m.at + 2
        step == [m EXCEPT !.at = @ + 1]
    IN  IF w.cond = Own /\ ~holds THEN step
        ELSE CASE w.op = "b" -> [m EXCEPT !.at = pc + w.n]
               [] w.op = "literal" -> Set(step, w.rd, block[pc + w.n + 1].n)
               [] w.op = "add_pc" -> Set(step, w.rd, Address(base + pc + w.n))
               [] w.op = "push" -> Pushed(step, w.n)
               [] w.op = "store" -> [step EXCEPT !.stack[w.n + 1] = m.regs[w.rd]]
               [] w.op = "pop" -> Popped(step, w.n)
               [] w.op = "alu" -> Set(step, w.rd, Sum(m.regs[w.rn], m.regs[w.rm]))
               [] w.op = "mov" -> Set(step, w.rd, m.regs[w.rm])
               [] w.op = "load" -> Set(step, w.rd, Memory(m.regs[w.rn], None))
               [] w.op = "load_reg" -> Set(step, w.rd, Memory(m.regs[w.rn], m.regs[w.rm]))
               [] w.op = "inst" -> step
               [] w.op = "data" -> [step EXCEPT !.gone = [kind |-> "data run as code"]]

\* The block runs until it leaves; no block has more than nine words.
After(block, base, holds, m) ==
    IF m.gone # None \/ m.at >= Len(block) THEN m ELSE RunWord(block, base, holds, m)

States(block, base, holds) ==
    LET state[n \in 0 .. 9] ==
            IF n = 0 THEN Starting ELSE After(block, base, holds, state[n - 1])
    IN  state

RunBlock(block, base, holds) ==
    LET end == States(block, base, holds)[9]
    IN  [regs  |-> [end.regs EXCEPT ![Pc] = IF end.gone # None THEN end.gone ELSE Address(base + end.at)],
         stack |-> end.stack]

\* An address in the part is that of its block in the enter.
Moved(v, moved) ==
    IF v.kind = "address" /\ moved.start <= v.at /\ v.at <= End(moved)
    THEN Address(BlockAt(moved, v.at - moved.start + 1)) ELSE v

SameEffect(moved, i, holds) ==
    LET e == Effect(moved, i, holds)
        r == RunBlock(Rewrite(moved, i), BlockAt(moved, i), holds)
        end == Address(End(moved))
    IN  /\ Len(Rewrite(moved, i)) = RewriteLen(moved.insts[i])
        /\ r.stack = <<>>
        /\ r.regs[Pc] = Moved(e[Pc], moved) \/ (e[Pc] = end /\ r.regs[Pc] = end)
        /\ r.regs[Lr] = IF moved.insts[i].type \in Calls THEN Moved(e[Lr], moved) ELSE e[Lr]
        /\ \A q \in Registers \ {Lr, Pc} : r.regs[q] = e[q]

\* The enter does what the part did.
SameProgram(moved) ==
    Rewritable(moved) => \A i \in DOMAIN moved.insts, holds \in BOOLEAN : SameEffect(moved, i, holds)

=============================================================================
