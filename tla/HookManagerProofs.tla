------------------------ MODULE HookManagerProofs ------------------------
(***************************************************************************)
(* Proofs about HookManager, for every number of threads, libraries, entries *)
(* and tasks: its types in either mode; of automatic mode that trampolines   *)
(* lead to the right function, that OK means hooked, that an unhook leaves   *)
(* nothing and that no library is missed; of manual mode that proxies are    *)
(* told an address first, and that an unhook restores what was replaced.     *)
(***************************************************************************)
EXTENDS HookManager, SequenceTheorems, TLAPS

USE HookManagerAssumption, HookManagerNames

(***************************************************************************)
(* The inductive invariant: what holds in either mode.                       *)
(***************************************************************************)
Listed == {"unfinished", "finished", "longterm"}
Left   == {"unlisted", "unhooking", "destroyed", "unmatched"}

\* A task is on the list from its hook call to its unhook.
ListRight == listed = {k \in Tasks : status[k] \in Listed}

\* What a thread has in hand is in the cache, and is in hand only while the
\* thread keeps libraries from being closed.
InHand(t) ==
    /\ job[t].at # "pick" => job[t].pairs = {} /\ job[t].elfs = {} /\ patch[t] = NoPatch
    /\ job[t].op = "none" => job[t].at = "idle"
    /\ job[t].op # "post" => job[t].elfs = {}
    /\ job[t].elfs \subseteq cache
    /\ \A p \in job[t].pairs : p[2] \in cache
    /\ patch[t] # NoPatch =>
        /\ patch[t].elf \in cache
        /\ patch[t].gots # <<>>
        /\ Elements(patch[t].gots) \subseteq Elements(GotsOf[patch[t].elf])

\* Tasks that are being hooked are on the list; one that is being unhooked is not
\* and never gets back.
TasksRight(t) ==
    /\ job[t].op \in {"hook", "unhook"} =>
        /\ \A p \in job[t].pairs : p[1] \in job[t].own
        /\ patch[t] # NoPatch => patch[t].task \in job[t].own
    /\ job[t].op = "hook" => job[t].own \subseteq listed
    /\ job[t].op = "post" =>
        /\ \A p \in job[t].pairs : p[1] \in listed
        /\ patch[t] # NoPatch => patch[t].task \in listed
    /\ job[t].op = "unhook" =>
        /\ \A i, k \in job[t].own : i = k
        /\ \A k \in job[t].own : status[k] \in Left
        /\ Manual /\ job[t].at = "pick" => \A k \in job[t].own : manualOrig[k] \in Value

\* In automatic mode no entry holds a proxy.
NoProxyInGot == ~Manual => \A g \in Gots : got[g] \notin Funcs

Common ==
    /\ TypeOK
    /\ cache \subseteq Linked
    /\ ListRight
    /\ \A t \in Threads : InHand(t) /\ TasksRight(t)
    /\ NoProxyInGot

(***************************************************************************)
(* Manual mode: proxies come into entries, and into what is remembered of    *)
(* them, after their callbacks were told an address.                         *)
(***************************************************************************)
OwnFuncs == \A j, k \in Tasks : j # k => FuncOf[j] # FuncOf[k]

Known(v) == \A k \in Tasks : v = FuncOf[k] => saved[k] # Unset

AllKnown ==
    /\ \A g \in Gots : Known(got[g])
    /\ \A i \in DOMAIN objs : Known(objs[i].orig)
    /\ \A k \in Tasks : Known(manualOrig[k])
    /\ \A t \in Threads : Manual /\ patch[t] # NoPatch /\ job[t].op # "unhook" =>
            saved[patch[t].task] # Unset

(***************************************************************************)
(* Automatic mode                                                            *)
(***************************************************************************)
Automatic == ~Manual /\ ~Bypass

\* Libraries have entries of their own, those opened again too.
Apart == \A d, e \in Elfs : d # e => Elements(GotsOf[d]) \cap Elements(GotsOf[e]) = {}

\* A hook is for one entry, knows its function, and stands in it.
HooksRight ==
    /\ \A g \in Gots : got[g] \in {OrigOf[g]} \cup Nat
    /\ \A g \in Gots : hooks[g] # 0 => objs[hooks[g]].orig = OrigOf[g]

HooksStand ==
    /\ \A g \in Gots : hooks[g] # 0 => got[g] = hooks[g]
    /\ \A g, f \in Gots : hooks[g] # 0 /\ hooks[g] = hooks[f] => g = f

\* Only ELFs that are or were in the cache are hooked, or reported as hooked, to
\* tasks that were once on the list.
Seen(e) == e \in cache \/ life[e] = "gone"

SeenFirst ==
    \A e \in Elfs :
        /\ \A g \in Elements(GotsOf[e]) : hooks[g] # 0 => Seen(e)
        /\ \A k \in Tasks : <<e, "OK">> \in told[k] => Seen(e) /\ status[k] # "new"

\* What was reported, and what is about to be.
ReportsRight ==
    \A k \in listed, e \in Elfs : <<e, "OK">> \in told[k] =>
        \A g \in Elements(GotsOf[e]) : Reaches(g, FuncOf[k])

SoFarRight(t) ==
    patch[t] # NoPatch /\ job[t].op # "unhook" =>
        /\ patch[t].elf \in Callers[patch[t].task]
        /\ patch[t].ok =>
            \A g \in Elements(GotsOf[patch[t].elf]) \ Elements(patch[t].gots) :
                Reaches(g, FuncOf[patch[t].task])

Hooking ==
    /\ Common /\ HooksRight /\ HooksStand
    /\ SeenFirst /\ ReportsRight
    /\ \A t \in Threads : SoFarRight(t)

\* A SINGLE task names one library.
OneCaller == \A k \in Single : \A d, e \in Callers[k] : d = e

\* An unhook has still to visit the entries the task is hooked in.
CallersOnly ==
    \A k \in Tasks, e \in Elfs : \A g \in Elements(GotsOf[e]) :
        FuncOf[k] \in Enabled(g) => e \in Callers[k]

ToVisit(t, k, e, g) ==
    \/ <<k, e>> \in job[t].pairs
    \/ patch[t] # NoPatch /\ patch[t].elf = e /\ g \in Elements(patch[t].gots)

StillToVisit(t) ==
    job[t].op = "unhook" /\ job[t].at = "pick" =>
        \A k \in job[t].own, e \in cache \ bad : \A g \in Elements(GotsOf[e]) :
            FuncOf[k] \in Enabled(g) => ToVisit(t, k, e, g)

NoneLeft ==
    \A k \in Tasks : status[k] = "destroyed" =>
        \A e \in cache \ bad : \A g \in Elements(GotsOf[e]) : FuncOf[k] \notin Enabled(g)

Unhooking == CallersOnly /\ NoneLeft /\ \A t \in Threads : StillToVisit(t)

(***************************************************************************)
(* Entries that are left to do                                               *)
(***************************************************************************)
\* Going on to the rest of the entries.
LEMMA RestOfEntries ==
    ASSUME NEW S, NEW s \in Seq(S), s # <<>>
    PROVE  /\ Head(s) \in S
           /\ Tail(s) \in Seq(S)
           /\ Elements(s) \subseteq {Head(s)} \cup Elements(Tail(s))
           /\ Elements(Tail(s)) \subseteq Elements(s)
           /\ Head(s) \in Elements(s)
           /\ Len(s) = 1 => Elements(s) = {Head(s)}
           /\ Len(s) # 1 => Tail(s) # <<>>
<1>1. Len(s) \in Nat /\ Len(s) # 0 /\ DOMAIN s = 1 .. Len(s)
  BY EmptySeq, LenProperties
<1>2. Head(s) = s[1] /\ Head(s) \in S /\ Tail(s) \in Seq(S)
  BY <1>1, HeadTailProperties, ElementOfSeq
<1>3. /\ Len(Tail(s)) = Len(s) - 1
      /\ DOMAIN Tail(s) = 1 .. Len(s) - 1
      /\ \A i \in 1 .. Len(s) - 1 : Tail(s)[i] = s[i + 1]
  BY <1>1, HeadTailProperties, LenProperties
<1>4. ASSUME NEW x \in Elements(s) PROVE x \in {Head(s)} \cup Elements(Tail(s))
  <2>1. PICK i \in 1 .. Len(s) : x = s[i]
    BY <1>1, <1>4 DEF Elements
  <2>2. CASE i = 1
    BY <1>2, <2>1, <2>2
  <2>3. CASE i # 1
    <3>1. i - 1 \in 1 .. Len(s) - 1 /\ (i - 1) + 1 = i
      BY <1>1, <2>3
    <3>2. Tail(s)[i - 1] = x
      BY <1>3, <2>1, <3>1
    <3> QED BY <1>3, <3>1, <3>2 DEF Elements
  <2> QED BY <2>2, <2>3
<1>5. ASSUME NEW x \in Elements(Tail(s)) PROVE x \in Elements(s)
  <2>1. PICK i \in 1 .. Len(s) - 1 : x = s[i + 1]
    BY <1>3, <1>5 DEF Elements
  <2>2. i + 1 \in 1 .. Len(s)
    BY <1>1, <2>1
  <2> QED BY <1>1, <2>1, <2>2 DEF Elements
<1>6. Head(s) \in Elements(s)
  <2>1. 1 \in 1 .. Len(s)
    BY <1>1
  <2> QED BY <1>1, <1>2, <2>1 DEF Elements
<1>7. ASSUME Len(s) = 1 PROVE Elements(s) = {Head(s)}
  <2>1. \A i \in 1 .. Len(s) : i = 1
    BY <1>7
  <2> QED BY <1>1, <1>2, <1>6, <2>1 DEF Elements
<1>8. ASSUME Len(s) # 1 PROVE Tail(s) # <<>>
  <2>1. Len(Tail(s)) # 0
    BY <1>1, <1>3, <1>8
  <2> QED BY <2>1, EmptySeq
<1> QED BY <1>2, <1>4, <1>5, <1>6, <1>7, <1>8

\* The entries of an ELF.
LEMMA EntriesOf ==
    /\ \A e \in Elfs : GotsOf[e] \in Seq(Gots)
    /\ \A e \in Elfs : Elements(GotsOf[e]) \subseteq Gots
    /\ \A e \in Elfs : GotsOf[e] # <<>> => GotsOf[e][1] \in Gots
<1>1. ASSUME NEW e \in Elfs PROVE GotsOf[e] \in Seq(Gots)
  OBVIOUS
<1>2. ASSUME NEW e \in Elfs, NEW x \in Elements(GotsOf[e]) PROVE x \in Gots
  BY <1>1, ElementOfSeq, LenProperties DEF Elements
<1>3. ASSUME NEW e \in Elfs, GotsOf[e] # <<>> PROVE GotsOf[e][1] \in Gots
  <2>1. Len(GotsOf[e]) \in Nat /\ Len(GotsOf[e]) # 0
    BY <1>1, <1>3, EmptySeq
  <2> QED BY <1>1, <2>1, ElementOfSeq
<1> QED BY <1>1, <1>2, <1>3

(***************************************************************************)
(* One entry of an ELF                                                       *)
(***************************************************************************)
PatchStep(t) ==
    \/ Fault(t) \/ Create(t) \/ CreateFails(t) \/ Join(t)
    \/ Leave(t) \/ LeaveNothing(t)
    \/ Replace(t) \/ ReplaceFails(t) \/ Restore(t)

\* What the entry does to the thread's work, good or not.
LEMMA PatchGoesOn ==
    ASSUME NEW t \in Threads, PatchStep(t)
    PROVE  \E good \in BOOLEAN : Patching(t) /\ After(t, good)
<1>1. CASE Fault(t)
  BY <1>1 DEF Fault, AtEntry
<1>2. CASE Create(t)
  BY <1>2 DEF Create, AtEntry
<1>3. CASE CreateFails(t)
  BY <1>3 DEF CreateFails, AtEntry
<1>4. CASE Join(t)
  <2>1. (Func(t) \notin objs[hooks[Entry(t)]].enabled) \in BOOLEAN
    OBVIOUS
  <2> QED BY <1>4, <2>1 DEF Join, AtEntry
<1>5. CASE Leave(t)
  <2>1. \A r : (r = "done") \in BOOLEAN
    OBVIOUS
  <2> QED BY <1>5, <2>1 DEF Leave, AtEntry
<1>6. CASE LeaveNothing(t)
  BY <1>6 DEF LeaveNothing, AtEntry
<1>7. CASE Replace(t)
  BY <1>7 DEF Replace, AtEntry
<1>8. CASE ReplaceFails(t)
  BY <1>8 DEF ReplaceFails, AtEntry
<1>9. CASE Restore(t)
  <2>1. \A r : (r = "done") \in BOOLEAN
    OBVIOUS
  <2> QED BY <1>9, <2>1 DEF Restore, AtEntry
<1> QED BY <1>1, <1>2, <1>3, <1>4, <1>5, <1>6, <1>7, <1>8, <1>9 DEF PatchStep

\* The variables that belong to the thread's work.
WorkTypes ==
    /\ told \in [Tasks -> SUBSET (Elfs \X {"OK", "failed"})]
    /\ status \in [Tasks -> {"new", "unfinished", "finished", "longterm", "unlisted",
                             "unhooking", "destroyed", "unmatched"}]
    /\ patch \in [Threads -> Patch \cup {NoPatch}]

LEMMA AfterEffect ==
    ASSUME Common, NEW t \in Threads, NEW good \in BOOLEAN, Patching(t), After(t, good)
    PROVE  /\ WorkTypes'
           /\ UNCHANGED <<life, cache, cfi, listed, saved, job>>
           /\ \A u \in Threads : u # t => patch'[u] = patch[u]
           /\ patch[t] \in Patch /\ patch[t].gots # <<>>
           /\ Len(patch[t].gots) = 1 => patch'[t] = NoPatch
           /\ Len(patch[t].gots) # 1 =>
                /\ patch'[t] # NoPatch
                /\ patch'[t].elf = patch[t].elf
                /\ patch'[t].task = patch[t].task
                /\ patch'[t].gots = Tail(patch[t].gots)
                /\ patch'[t].gots # <<>>
                /\ patch'[t].ok = (patch[t].ok /\ good)
           /\ \A k \in Tasks :
                \/ status'[k] = status[k]
                \/ k = patch[t].task /\ job[t].op # "unhook" /\ status'[k] = "finished"
           /\ \A k \in Tasks, e \in Elfs : <<e, "OK">> \in told'[k] =>
                \/ <<e, "OK">> \in told[k]
                \/ /\ job[t].op # "unhook" /\ k = patch[t].task /\ e = patch[t].elf
                   /\ good /\ patch[t].ok /\ Len(patch[t].gots) = 1
<1> DEFINE p == patch[t]
<1>1. p \in Patch /\ p.gots # <<>> /\ p # NoPatch
  BY DEF Common, TypeOK, Patching, InHand
<1>2. /\ Head(p.gots) \in Gots /\ Tail(p.gots) \in Seq(Gots)
      /\ Len(p.gots) # 1 => Tail(p.gots) # <<>>
  BY <1>1, RestOfEntries DEF Patch
<1>3. UNCHANGED <<life, cache, cfi, listed, saved, job>>
  BY DEF After
<1>4. patch' = [patch EXCEPT ![t] =
         IF Len(p.gots) = 1 THEN NoPatch
         ELSE [p EXCEPT !.gots = Tail(@), !.ok = @ /\ good, !.locked = TRUE]]
  BY DEF After
<1>5. patch \in [Threads -> Patch \cup {NoPatch}]
  BY DEF Common, TypeOK
<1>6. /\ patch'[t] = IF Len(p.gots) = 1 THEN NoPatch
                     ELSE [p EXCEPT !.gots = Tail(@), !.ok = @ /\ good, !.locked = TRUE]
      /\ \A u \in Threads : u # t => patch'[u] = patch[u]
      /\ DOMAIN patch' = Threads
  BY <1>4, <1>5
<1>7. ASSUME Len(p.gots) # 1
      PROVE  LET q == patch'[t] IN
             /\ q \in Patch
             /\ q.elf = p.elf /\ q.task = p.task /\ q.gots = Tail(p.gots)
             /\ q.ok = (p.ok /\ good)
  <2> DEFINE ok == p.ok /\ good
  <2>1. patch'[t] = [p EXCEPT !.gots = Tail(@), !.ok = ok, !.locked = TRUE]
    BY <1>6, <1>7
  <2>2. ok \in BOOLEAN
    BY <1>1 DEF Patch
  <2> HIDE DEF p, ok
  <2>3. LET q == patch'[t] IN
        /\ q \in Patch
        /\ q.elf = p.elf /\ q.task = p.task /\ q.gots = Tail(p.gots)
        /\ q.ok = ok
    BY <1>1, <1>2, <2>1, <2>2 DEF Patch
  <2> QED BY <2>3 DEF ok
<1>8. ASSUME Len(p.gots) # 1 PROVE patch'[t] # NoPatch
  <2>1. patch'[t].gots # <<>>
    BY <1>2, <1>7, <1>8
  <2>2. NoPatch.gots = <<>>
    BY DEF NoPatch
  <2> QED BY <2>1, <2>2
<1>9. patch' \in [Threads -> Patch \cup {NoPatch}]
  <2>1. patch' = [u \in Threads |-> patch'[u]]
    BY <1>4, <1>5
  <2>2. \A u \in Threads : patch'[u] \in Patch \cup {NoPatch}
    BY <1>5, <1>6, <1>7
  <2> HIDE DEF p
  <2> QED BY <2>1, <2>2
<1>10. p.task \in Tasks /\ p.elf \in Elfs
  BY <1>1 DEF Patch
<1>11. Reports(p, good) \subseteq {<<p.elf, "failed">>, <<p.elf, "OK">>}
  BY DEF Reports
<1>12. /\ told' \in [Tasks -> SUBSET (Elfs \X {"OK", "failed"})]
       /\ status' \in [Tasks -> {"new", "unfinished", "finished", "longterm", "unlisted",
                                 "unhooking", "destroyed", "unmatched"}]
       /\ \A k \in Tasks :
            \/ status'[k] = status[k]
            \/ k = p.task /\ job[t].op # "unhook" /\ status'[k] = "finished"
       /\ \A k \in Tasks : told'[k] = IF job[t].op # "unhook" /\ k = p.task
                                      THEN told[k] \cup Reports(p, good) ELSE told[k]
  <2>1. /\ told \in [Tasks -> SUBSET (Elfs \X {"OK", "failed"})]
        /\ status \in [Tasks -> {"new", "unfinished", "finished", "longterm", "unlisted",
                                 "unhooking", "destroyed", "unmatched"}]
    BY DEF Common, TypeOK
  <2>2. CASE job[t].op = "unhook"
    <3>1. UNCHANGED <<told, status>>
      BY <2>2 DEF After
    <3> HIDE DEF p
    <3> QED BY <2>1, <2>2, <3>1
  <2>3. CASE job[t].op # "unhook"
    <3>1. /\ told' = [told EXCEPT ![p.task] = @ \cup Reports(p, good)]
          /\ status' = status \/ status' = [status EXCEPT ![p.task] = "finished"]
      BY <2>3 DEF After, Finished
    <3> HIDE DEF p
    <3>2. Reports(p, good) \subseteq Elfs \X {"OK", "failed"}
      BY <1>10, <1>11
    <3> QED BY <1>10, <2>1, <2>3, <3>1, <3>2
  <2> QED BY <2>2, <2>3
<1>13. ASSUME NEW k \in Tasks, NEW e \in Elfs, <<e, "OK">> \in told'[k], <<e, "OK">> \notin told[k]
       PROVE  /\ job[t].op # "unhook" /\ k = p.task /\ e = p.elf
              /\ good /\ p.ok /\ Len(p.gots) = 1
  <2>1. job[t].op # "unhook" /\ k = p.task /\ <<e, "OK">> \in Reports(p, good)
    BY <1>12, <1>13
  <2> QED BY <2>1 DEF Reports
<1> QED BY <1>1, <1>2, <1>3, <1>6, <1>7, <1>8, <1>9, <1>12, <1>13 DEF WorkTypes

\* The entry a thread is at, and the proxy of the task it is at work for.
LEMMA EntryTyped ==
    ASSUME Common, NEW t \in Threads, Patching(t)
    PROVE  /\ Entry(t) \in Gots
           /\ Func(t) \in Funcs
           /\ patch[t].task \in Tasks
           /\ patch[t].elf \in cache
           /\ job[t].at = "pick"
           /\ job[t].op # "none"
           /\ job[t] \in Job
           /\ patch[t] \in Patch
<1>1. patch[t] \in Patch /\ patch[t].gots # <<>> /\ patch[t].elf \in cache
  BY DEF Common, TypeOK, Patching, InHand
<1>2. Head(patch[t].gots) \in Gots
  BY <1>1, RestOfEntries DEF Patch
<1>3. patch[t].task \in Tasks
  BY <1>1 DEF Patch
<1>4. job[t].at = "pick" /\ job[t].op # "none"
  BY DEF Common, Patching, InHand
<1>5. job[t] \in Job
  BY DEF Common, TypeOK
<1> QED BY <1>1, <1>2, <1>3, <1>4, <1>5 DEF Entry, Func

LEMMA HookTyped ==
    ASSUME Common, NEW g \in Gots, hooks[g] # 0
    PROVE  /\ hooks[g] \in 1 .. Len(objs)
           /\ objs[hooks[g]] \in Hook
           /\ objs[hooks[g]].orig \in Origs \cup Nat
           /\ objs[hooks[g]].enabled \subseteq Funcs
<1>1. objs \in Seq(Hook) /\ hooks[g] \in 0 .. Len(objs) /\ Len(objs) \in Nat
  BY DEF Common, TypeOK
<1>2. hooks[g] \in 1 .. Len(objs)
  BY <1>1
<1>3. objs[hooks[g]] \in Hook
  BY <1>1, <1>2, ElementOfSeq
<1> QED BY <1>2, <1>3 DEF Hook

\* The variables of entries, hooks and what tasks remember.
EntryTypes ==
    /\ bad \subseteq Elfs
    /\ got \in [Gots -> Value]
    /\ objs \in Seq(Hook)
    /\ hooks \in [Gots -> 0 .. Len(objs)]
    /\ manualOrig \in [Tasks -> Value \cup {Unset, Invalid}]

\* Writing one more hook into the tree.
LEMMA NewHook ==
    ASSUME Common, NEW g \in Gots, NEW o \in Hook,
           objs' = Append(objs, o),
           hooks' = [hooks EXCEPT ![g] = Len(objs) + 1]
    PROVE  /\ objs' \in Seq(Hook)
           /\ hooks' \in [Gots -> 0 .. Len(objs')]
           /\ Len(objs) + 1 \in Nat
           /\ Len(objs') = Len(objs) + 1
           /\ objs'[Len(objs) + 1] = o
           /\ \A i \in 1 .. Len(objs) : objs'[i] = objs[i]
<1>1. objs \in Seq(Hook) /\ Len(objs) \in Nat /\ hooks \in [Gots -> 0 .. Len(objs)]
  BY DEF Common, TypeOK
<1>2. /\ objs' \in Seq(Hook) /\ Len(objs') = Len(objs) + 1
      /\ objs'[Len(objs) + 1] = o
      /\ \A i \in 1 .. Len(objs) : objs'[i] = objs[i]
  BY <1>1, AppendProperties
<1>3. \A n \in 0 .. Len(objs) : n \in 0 .. Len(objs) + 1
  BY <1>1
<1>4. Len(objs) + 1 \in 0 .. Len(objs) + 1 /\ Len(objs) + 1 \in Nat
  BY <1>1
<1>5. hooks' \in [Gots -> 0 .. Len(objs) + 1]
  BY <1>1, <1>3, <1>4
<1> QED BY <1>2, <1>4, <1>5

\* Changing the functions of a hook.
LEMMA SameHooks ==
    ASSUME Common, NEW h \in 1 .. Len(objs), NEW s \in SUBSET Funcs,
           objs' = [objs EXCEPT ![h].enabled = s]
    PROVE  /\ objs' \in Seq(Hook)
           /\ Len(objs') = Len(objs)
           /\ \A i \in 1 .. Len(objs) : objs'[i].orig = objs[i].orig
           /\ \A i \in 1 .. Len(objs) : objs'[i].enabled = IF i = h THEN s ELSE objs[i].enabled
<1>1. objs \in Seq(Hook) /\ Len(objs) \in Nat /\ \A i \in 1 .. Len(objs) : objs[i] \in Hook
  BY ElementOfSeq DEF Common, TypeOK
<1> DEFINE o == [objs[h] EXCEPT !.enabled = s]
<1>2. objs' = [objs EXCEPT ![h] = o]
  OBVIOUS
<1>3. o \in Hook /\ o.orig = objs[h].orig /\ o.enabled = s
  BY <1>1 DEF Hook
<1> HIDE DEF o
<1>4. /\ objs' \in Seq(Hook) /\ Len(objs') = Len(objs)
      /\ \A i \in 1 .. Len(objs) : objs'[i] = IF i = h THEN o ELSE objs[i]
  <2>1. o \in Hook /\ objs \in Seq(Hook)
    BY <1>1, <1>3
  <2> HIDE <1>2
  <2>2. /\ [objs EXCEPT ![h] = o] \in Seq(Hook)
        /\ Len([objs EXCEPT ![h] = o]) = Len(objs)
        /\ \A i \in 1 .. Len(objs) : [objs EXCEPT ![h] = o][i] = IF i = h THEN o ELSE objs[i]
    BY <2>1, ExceptSeq
  <2> QED BY <1>2, <2>2
<1> QED BY <1>3, <1>4

LEMMA PatchTypes ==
    ASSUME Common, NEW t \in Threads, PatchStep(t)
    PROVE  EntryTypes' /\ NoProxyInGot'
<1> DEFINE g == Entry(t)
<1>1. Patching(t)
  BY PatchGoesOn
<1>2. g \in Gots /\ Func(t) \in Funcs /\ patch[t].task \in Tasks /\ patch[t].elf \in Elfs
  BY <1>1, EntryTyped DEF Patch
<1>3. /\ EntryTypes /\ NoProxyInGot
      /\ got[g] \in Value /\ (~Manual => got[g] \in Origs \cup Nat)
  <2>1. EntryTypes /\ NoProxyInGot
    BY DEF Common, TypeOK, EntryTypes
  <2> QED BY <1>2, <2>1 DEF EntryTypes, NoProxyInGot, Value
<1>4. CASE Fault(t)
  <2>1. UNCHANGED <<got, hooks, objs, manualOrig>> /\ bad' = bad \cup {patch[t].elf}
    BY <1>4 DEF Fault, gotVars
  <2> QED BY <1>2, <1>3, <2>1 DEF EntryTypes, NoProxyInGot
<1>5. CASE Create(t)
  <2> DEFINE o == [orig |-> got[g], enabled |-> {Func(t)}]
  <2>1. /\ ~Manual /\ objs' = Append(objs, o)
        /\ hooks' = [hooks EXCEPT ![g] = Len(objs) + 1]
        /\ got' = [got EXCEPT ![g] = Len(objs) + 1]
        /\ UNCHANGED <<bad, manualOrig>>
    BY <1>5 DEF Create
  <2>2. o \in Hook
    BY <1>2, <1>3, <2>1 DEF Hook
  <2> HIDE DEF o
  <2>3. objs' \in Seq(Hook) /\ hooks' \in [Gots -> 0 .. Len(objs')] /\ Len(objs) + 1 \in Nat
    BY <1>2, <2>1, <2>2, NewHook
  <2>4. got' \in [Gots -> Value]
    BY <1>2, <1>3, <2>1, <2>3 DEF EntryTypes, Value
  <2>5. NoProxyInGot'
    BY <1>2, <1>3, <2>1, <2>3 DEF EntryTypes, NoProxyInGot
  <2> QED BY <1>3, <2>1, <2>3, <2>4, <2>5 DEF EntryTypes
<1>6. CASE CreateFails(t)
  <2>1. UNCHANGED <<bad, got, hooks, objs, manualOrig>>
    BY <1>6 DEF CreateFails, Undone
  <2> QED BY <1>3, <2>1 DEF EntryTypes, NoProxyInGot
<1>7. CASE Join(t)
  <2> DEFINE s == objs[hooks[g]].enabled \cup {Func(t)}
  <2>1. /\ hooks[g] # 0 /\ objs' = [objs EXCEPT ![hooks[g]].enabled = s]
        /\ UNCHANGED <<bad, got, hooks, manualOrig>>
    BY <1>7 DEF Join
  <2>2. hooks[g] \in 1 .. Len(objs) /\ s \in SUBSET Funcs
    BY <1>2, <2>1, HookTyped
  <2> HIDE DEF s
  <2>3. objs' \in Seq(Hook) /\ Len(objs') = Len(objs)
    BY <2>1, <2>2, SameHooks
  <2> QED BY <1>3, <2>1, <2>3 DEF EntryTypes, NoProxyInGot
<1>8. CASE Leave(t)
  <2> DEFINE s == objs[hooks[g]].enabled \ {Func(t)}
  <2>1. /\ ~Manual /\ hooks[g] # 0 /\ objs' = [objs EXCEPT ![hooks[g]].enabled = s]
        /\ got' = got \/ got' = [got EXCEPT ![g] = objs[hooks[g]].orig]
        /\ hooks' = hooks \/ hooks' = [hooks EXCEPT ![g] = 0]
        /\ bad' = bad \/ bad' = bad \cup {patch[t].elf}
        /\ UNCHANGED manualOrig
    BY <1>8 DEF Leave
  <2>2. hooks[g] \in 1 .. Len(objs) /\ s \in SUBSET Funcs /\ objs[hooks[g]].orig \in Origs \cup Nat
    BY <1>2, <2>1, HookTyped
  <2> HIDE DEF s
  <2>3. objs' \in Seq(Hook) /\ Len(objs') = Len(objs)
    BY <2>1, <2>2, SameHooks
  <2>4. hooks' \in [Gots -> 0 .. Len(objs')]
    <3>1. 0 \in 0 .. Len(objs) /\ hooks \in [Gots -> 0 .. Len(objs)]
      BY <1>3, LenProperties DEF EntryTypes
    <3> QED BY <1>2, <2>1, <2>3, <3>1
  <2>5. got' \in [Gots -> Value] /\ NoProxyInGot'
    BY <1>2, <1>3, <2>1, <2>2 DEF EntryTypes, Value, NoProxyInGot
  <2> QED BY <1>2, <1>3, <2>1, <2>3, <2>4, <2>5 DEF EntryTypes
<1>9. CASE LeaveNothing(t)
  <2>1. UNCHANGED <<bad, got, hooks, objs, manualOrig>>
    BY <1>9 DEF LeaveNothing, gotVars
  <2> QED BY <1>3, <2>1 DEF EntryTypes, NoProxyInGot
<1>10. CASE Replace(t)
  <2>1. /\ Manual /\ got' = [got EXCEPT ![g] = Func(t)]
        /\ manualOrig' = [manualOrig EXCEPT ![patch[t].task] = Remembered(patch[t].task, got[g])]
        /\ UNCHANGED <<bad, hooks, objs>>
    BY <1>10 DEF Replace
  <2>2. Remembered(patch[t].task, got[g]) \in Value \cup {Unset, Invalid}
    BY <1>3 DEF Remembered
  <2> QED BY <1>2, <1>3, <2>1, <2>2 DEF EntryTypes, Value, NoProxyInGot
<1>11. CASE ReplaceFails(t)
  <2>1. UNCHANGED <<bad, got, hooks, objs, manualOrig>>
    BY <1>11 DEF ReplaceFails, gotVars
  <2> QED BY <1>3, <2>1 DEF EntryTypes, NoProxyInGot
<1>12. CASE Restore(t)
  <2>1. /\ Manual /\ job[t].op = "unhook"
        /\ got' = got \/ got' = [got EXCEPT ![g] = manualOrig[patch[t].task]]
        /\ UNCHANGED <<bad, hooks, objs, manualOrig>>
    BY <1>12 DEF Restore, AtEntry
  <2>2. manualOrig[patch[t].task] \in Value
    BY <1>1, <2>1, EntryTyped DEF Common, TasksRight, Patching
  <2> QED BY <1>2, <1>3, <2>1, <2>2 DEF EntryTypes, NoProxyInGot
<1> QED BY <1>4, <1>5, <1>6, <1>7, <1>8, <1>9, <1>10, <1>11, <1>12 DEF PatchStep

(***************************************************************************)
(* What holds in either mode                                                 *)
(***************************************************************************)
\* One thread's call goes on.
LEMMA OneJob ==
    ASSUME Common, NEW t \in Threads, NEW j \in Job, job' = [job EXCEPT ![t] = j]
    PROVE  /\ job' \in [Threads -> Job]
           /\ job'[t] = j
           /\ \A u \in Threads : u # t => job'[u] = job[u]
BY DEF Common, TypeOK

\* The fields of a call.
LEMMA JobFields ==
    ASSUME Common, NEW t \in Threads
    PROVE  /\ job[t] \in Job
           /\ job[t].op \in {"none", "hook", "unhook", "post"}
           /\ job[t].at \in {"idle", "begin", "pick"}
           /\ job[t].own \subseteq Tasks
           /\ job[t].elfs \subseteq Elfs
           /\ job[t].pairs \subseteq Tasks \X Elfs
<1>1. job[t] \in Job
  BY DEF Common, TypeOK
<1> QED BY <1>1 DEF Job

\* A thread that does not move keeps what it has in hand.
LEMMA OthersStand ==
    ASSUME Common, NEW u \in Threads, job'[u] = job[u], patch'[u] = patch[u],
           ~Reading(u) \/ cache \subseteq cache',
           job[u].op = "hook" => \A k \in job[u].own : k \in listed => k \in listed',
           OnList(u) => listed \subseteq listed',
           \A k \in Tasks : status[k] \in Left => status'[k] \in Left,
           job[u].op = "unhook" =>
                \A k \in job[u].own : manualOrig[k] \in Value => manualOrig'[k] \in Value
    PROVE  InHand(u)' /\ TasksRight(u)'
<1>1. InHand(u) /\ TasksRight(u)
  BY DEF Common
<1>2. job[u].own \subseteq Tasks
  BY JobFields
<1>3. InHand(u)'
  <2>1. CASE Reading(u)
    BY <1>1, <2>1 DEF InHand, Reading
  <2>2. CASE ~Reading(u)
    BY <1>1, <2>2 DEF InHand, Reading
  <2> QED BY <2>1, <2>2
<1>4. TasksRight(u)'
  <2>1. CASE job[u].op = "hook"
    BY <1>1, <2>1 DEF TasksRight
  <2>2. CASE job[u].op = "unhook"
    BY <1>1, <1>2, <2>2 DEF TasksRight
  <2>3. CASE job[u].op = "post"
    BY <1>1, <2>3 DEF TasksRight, OnList, Patching
  <2>4. CASE job[u].op = "none"
    BY <2>4 DEF TasksRight
  <2> QED BY <2>1, <2>2, <2>3, <2>4, JobFields
<1> QED BY <1>3, <1>4

\* The two kinds of status are apart.
LEMMA KindsApart ==
    ASSUME Common
    PROVE  /\ \A k \in Tasks : status[k] \in Left => k \notin listed
           /\ \A k \in listed : k \in Tasks /\ status[k] \in Listed
BY DEF Common, ListRight, Listed, Left

LEMMA CommonPatchStep ==
    ASSUME Common, NEW t \in Threads, PatchStep(t)
    PROVE  Common'
<1>1. PICK good \in BOOLEAN : Patching(t) /\ After(t, good)
  BY PatchGoesOn
<1>2. EntryTypes' /\ NoProxyInGot'
  BY PatchTypes
<1> DEFINE p == patch[t]
<1>3. /\ WorkTypes'
      /\ UNCHANGED <<life, cache, cfi, listed, saved, job>>
      /\ \A u \in Threads : u # t => patch'[u] = patch[u]
      /\ p \in Patch /\ p.gots # <<>>
      /\ Len(p.gots) = 1 => patch'[t] = NoPatch
      /\ Len(p.gots) # 1 =>
           /\ patch'[t] # NoPatch
           /\ patch'[t].elf = p.elf
           /\ patch'[t].task = p.task
           /\ patch'[t].gots = Tail(p.gots)
           /\ patch'[t].gots # <<>>
      /\ \A k \in Tasks :
           \/ status'[k] = status[k]
           \/ k = p.task /\ job[t].op # "unhook" /\ status'[k] = "finished"
  BY <1>1, AfterEffect
<1>4. TypeOK'
  BY <1>2, <1>3 DEF Common, TypeOK, EntryTypes, WorkTypes
<1>5. job[t].op # "unhook" => p.task \in listed
  BY <1>1, EntryTyped, JobFields DEF Common, TasksRight, Patching
<1>6. /\ \A k \in Tasks : status[k] \in Left => status'[k] \in Left
      /\ \A k \in Tasks : status[k] \in Listed <=> status'[k] \in Listed
  BY <1>3, <1>5, KindsApart DEF Left, Listed
<1>7. ListRight'
  BY <1>3, <1>6 DEF Common, ListRight
<1>8. cache' \subseteq Linked'
  BY <1>3 DEF Common, Linked
<1>9. ASSUME NEW u \in Threads, job[u].op = "unhook", NEW k \in job[u].own
      PROVE  manualOrig'[k] = manualOrig[k]
  <2>1. k \in Tasks /\ k \notin listed
    BY <1>9, KindsApart, JobFields DEF Common, TasksRight
  <2>2. manualOrig' = manualOrig \/ (job[t].op # "unhook" /\ Replace(t))
    BY DEF PatchStep, Fault, Create, CreateFails, Join, Leave, LeaveNothing, Replace, ReplaceFails,
           Restore, AtEntry
  <2>3. CASE Replace(t) /\ job[t].op # "unhook"
    <3>1. manualOrig' = [manualOrig EXCEPT ![p.task] = Remembered(p.task, got[Entry(t)])]
      BY <2>3 DEF Replace
    <3>2. manualOrig \in [Tasks -> Value \cup {Unset, Invalid}] /\ p.task # k
      BY <1>5, <2>1, <2>3 DEF Common, TypeOK
    <3> QED BY <2>1, <3>1, <3>2
  <2> QED BY <2>2, <2>3
<1>10. ASSUME NEW u \in Threads, u # t PROVE InHand(u)' /\ TasksRight(u)'
  BY <1>3, <1>6, <1>9, <1>10, OthersStand
<1>11. InHand(t)'
  <2>1. InHand(t) /\ job[t].at = "pick" /\ job[t].op # "none"
    BY <1>1, EntryTyped DEF Common
  <2>2. p.elf \in cache
    BY <1>1, EntryTyped
  <2>3. Elements(Tail(p.gots)) \subseteq Elements(p.gots)
    BY <1>3, RestOfEntries DEF Patch
  <2>4. Elements(p.gots) \subseteq Elements(GotsOf[p.elf])
    BY <1>1, <2>1 DEF InHand, Patching
  <2> QED BY <1>3, <2>1, <2>2, <2>3, <2>4 DEF InHand
<1>12. TasksRight(t)'
  <2>1. TasksRight(t)
    BY DEF Common
  <2>2. /\ job' = job /\ listed' = listed /\ Patching(t)
        /\ patch'[t] # NoPatch => patch'[t].task = p.task
    BY <1>1, <1>3
  <2>3. CASE job[t].op = "hook"
    BY <2>1, <2>2, <2>3 DEF TasksRight, Patching
  <2>4. CASE job[t].op = "unhook"
    BY <1>6, <1>9, <2>1, <2>2, <2>4, JobFields DEF TasksRight, Patching
  <2>5. CASE job[t].op = "post"
    BY <2>1, <2>2, <2>5 DEF TasksRight, Patching
  <2> QED BY <1>1, <2>3, <2>4, <2>5, EntryTyped, JobFields
<1> QED BY <1>2, <1>4, <1>7, <1>8, <1>10, <1>11, <1>12 DEF Common

\* Opening a library, and the cache following what is linked.
LEMMA CommonLoad ==
    ASSUME Common, NEW t \in Threads, NEW e \in Elfs, Load(t, e)
    PROVE  Common'
<1>1. /\ IsIdle(t) /\ life[e] = "new"
      /\ life' = [life EXCEPT ![e] = "linked"]
      /\ got' = [g \in Gots |-> IF g \in Elements(GotsOf[e]) THEN OrigOf[g] ELSE got[g]]
      /\ job' = [job EXCEPT ![t] = Start("post", {})]
      /\ UNCHANGED <<cache, bad, cfi, hooks, objs, listed, status, manualOrig, saved, told, patch>>
  BY DEF Load, taskVars
<1>2. Start("post", {}) \in Job
  BY DEF Start, Job
<1>3. /\ job' \in [Threads -> Job] /\ job'[t] = Start("post", {})
      /\ \A u \in Threads : u # t => job'[u] = job[u]
  BY <1>1, <1>2, OneJob
<1>4. \A g \in Gots : OrigOf[g] \in Origs /\ OrigOf[g] \notin Funcs
  BY DEF HookManagerNames
<1>5. TypeOK'
  BY <1>1, <1>3, <1>4 DEF Common, TypeOK, Value
<1>6. NoProxyInGot'
  BY <1>1, <1>4 DEF Common, NoProxyInGot
<1>7. cache' \subseteq Linked' /\ ListRight'
  BY <1>1 DEF Common, TypeOK, Linked, ListRight
<1>8. ASSUME NEW u \in Threads, u # t PROVE InHand(u)' /\ TasksRight(u)'
  BY <1>1, <1>3, <1>8, OthersStand
<1>9. InHand(t)' /\ TasksRight(t)'
  <2>1. patch'[t] = NoPatch
    BY <1>1 DEF Common, InHand, IsIdle, NoJob
  <2> QED BY <1>3, <2>1 DEF InHand, TasksRight, Start
<1> QED BY <1>5, <1>6, <1>7, <1>8, <1>9 DEF Common

LEMMA CommonClose ==
    ASSUME Common, NEW t \in Threads, NEW e \in Elfs, Close(t, e)
    PROVE  Common'
<1>1. /\ \A u \in Threads : ~Reading(u)
      /\ life' = [life EXCEPT ![e] = "gone"]
      /\ cache' = Linked \ {e}
      /\ UNCHANGED <<bad, cfi, got, hooks, objs, listed, status, manualOrig, saved, told, job, patch>>
  BY DEF Close, taskVars, gotVars
<1>2. TypeOK' /\ NoProxyInGot' /\ ListRight'
  BY <1>1 DEF Common, TypeOK, NoProxyInGot, ListRight, Linked
<1>3. cache' \subseteq Linked'
  BY <1>1 DEF Common, TypeOK, Linked
<1>4. ASSUME NEW u \in Threads PROVE InHand(u)' /\ TasksRight(u)'
  BY <1>1, OthersStand
<1> QED BY <1>2, <1>3, <1>4 DEF Common

LEMMA CommonRefresh ==
    ASSUME Common, NEW t \in Threads, Refresh(t)
    PROVE  Common'
<1> DEFINE j == [job[t] EXCEPT !.at = "pick", !.elfs = NewElfs]
<1>1. /\ job[t].op = "post" /\ job[t].at = "begin"
      /\ cache' = Linked
      /\ job' = [job EXCEPT ![t].at = "pick", ![t].elfs = NewElfs]
      /\ UNCHANGED <<life, bad, cfi, got, hooks, objs, listed, status, manualOrig, saved, told, patch>>
  BY DEF Refresh, taskVars, gotVars
<1>2. /\ j \in Job /\ j.op = "post" /\ j.at = "pick" /\ j.elfs = NewElfs
      /\ j.pairs = job[t].pairs
  BY <1>1, JobFields DEF Job, NewElfs, Linked
<1>3. job' = [job EXCEPT ![t] = j]
  BY <1>1 DEF Common, TypeOK
<1> HIDE DEF j
<1>4. /\ job' \in [Threads -> Job] /\ job'[t] = j
      /\ \A u \in Threads : u # t => job'[u] = job[u]
  BY <1>2, <1>3, OneJob
<1>5. TypeOK' /\ NoProxyInGot' /\ ListRight' /\ cache' \subseteq Linked'
  BY <1>1, <1>4 DEF Common, TypeOK, NoProxyInGot, ListRight, Linked
<1>6. ASSUME NEW u \in Threads, u # t PROVE InHand(u)' /\ TasksRight(u)'
  <2>1. cache \subseteq cache'
    BY <1>1 DEF Common
  <2> QED BY <1>1, <1>4, <1>6, <2>1, OthersStand
<1>7. InHand(t)' /\ TasksRight(t)'
  <2>1. patch'[t] = NoPatch /\ job'[t].pairs = {}
    BY <1>1, <1>2, <1>4 DEF Common, InHand
  <2> QED BY <1>1, <1>2, <1>4, <2>1 DEF InHand, TasksRight, NewElfs
<1> QED BY <1>5, <1>6, <1>7 DEF Common

\* Calls that hook and unhook.
LEMMA CommonHookCall ==
    ASSUME Common, NEW t \in Threads, NEW k \in Tasks, HookCall(t, k)
    PROVE  Common'
<1> DEFINE s == IF k \in Single THEN "unfinished" ELSE "longterm"
<1>1. /\ IsIdle(t) /\ status[k] = "new"
      /\ listed' = listed \cup {k}
      /\ status' = [status EXCEPT ![k] = s]
      /\ job' = [job EXCEPT ![t] = Start("hook", {k})]
      /\ UNCHANGED <<life, cache, bad, cfi, got, hooks, objs, manualOrig, saved, told, patch>>
  BY DEF HookCall, elfVars, gotVars
<1>2. Start("hook", {k}) \in Job
  BY DEF Start, Job
<1>3. /\ job' \in [Threads -> Job] /\ job'[t] = Start("hook", {k})
      /\ \A u \in Threads : u # t => job'[u] = job[u]
  BY <1>1, <1>2, OneJob
<1>4. TypeOK' /\ NoProxyInGot' /\ cache' \subseteq Linked'
  BY <1>1, <1>3 DEF Common, TypeOK, NoProxyInGot, Linked
<1>5. ListRight' /\ \A i \in Tasks : status[i] \in Left => status'[i] \in Left
  BY <1>1 DEF Common, TypeOK, ListRight, Listed, Left
<1>6. ASSUME NEW u \in Threads, u # t PROVE InHand(u)' /\ TasksRight(u)'
  BY <1>1, <1>3, <1>5, <1>6, OthersStand
<1>7. InHand(t)' /\ TasksRight(t)'
  <2>1. patch'[t] = NoPatch
    BY <1>1 DEF Common, InHand, IsIdle, NoJob
  <2> QED BY <1>1, <1>3, <2>1 DEF InHand, TasksRight, Start
<1> QED BY <1>4, <1>5, <1>6, <1>7 DEF Common

LEMMA CommonUnhookCall ==
    ASSUME Common, NEW t \in Threads, NEW k \in Tasks, UnhookCall(t, k)
    PROVE  Common'
<1>1. /\ IsIdle(t) /\ status[k] \in Listed
      /\ \A u \in Threads : job[u].op = "hook" => k \notin job[u].own
      /\ \A u \in Threads : ~OnList(u)
      /\ listed' = listed \ {k}
      /\ status' = [status EXCEPT ![k] = "unlisted"]
      /\ job' = [job EXCEPT ![t] = Start("unhook", {k})]
      /\ UNCHANGED <<life, cache, bad, cfi, got, hooks, objs, manualOrig, saved, told, patch>>
  BY DEF UnhookCall, elfVars, gotVars, Unlisted, ListFree, Listed
<1>2. Start("unhook", {k}) \in Job
  BY DEF Start, Job
<1>3. /\ job' \in [Threads -> Job] /\ job'[t] = Start("unhook", {k})
      /\ \A u \in Threads : u # t => job'[u] = job[u]
  BY <1>1, <1>2, OneJob
<1>4. TypeOK' /\ NoProxyInGot' /\ cache' \subseteq Linked'
  BY <1>1, <1>3 DEF Common, TypeOK, NoProxyInGot, Linked
<1>5. ListRight' /\ \A i \in Tasks : status[i] \in Left => status'[i] \in Left
  BY <1>1 DEF Common, TypeOK, ListRight, Listed, Left
<1>6. ASSUME NEW u \in Threads, u # t PROVE InHand(u)' /\ TasksRight(u)'
  BY <1>1, <1>3, <1>5, <1>6, OthersStand
<1>7. InHand(t)' /\ TasksRight(t)'
  <2>1. patch'[t] = NoPatch
    BY <1>1 DEF Common, InHand, IsIdle, NoJob
  <2>2. status'[k] \in Left
    BY <1>1 DEF Common, TypeOK, Left
  <2> QED BY <1>1, <1>3, <2>1, <2>2 DEF InHand, TasksRight, Start
<1> QED BY <1>4, <1>5, <1>6, <1>7 DEF Common

\* The ELFs that a call goes through are in the cache.
LEMMA HandledCached ==
    ASSUME Common, NEW k \in Tasks, NEW es \in Handled(k)
    PROVE  es \subseteq cache /\ {k} \X es \subseteq Tasks \X Elfs
           /\ \A p \in {k} \X es : p[1] = k /\ p[2] \in cache
<1>1. es \subseteq cache
  BY DEF Handled
<1>2. cache \subseteq Elfs
  BY DEF Common, TypeOK
<1> QED BY <1>1, <1>2

LEMMA CommonBeginHook ==
    ASSUME Common, NEW t \in Threads, BeginHook(t)
    PROVE  Common'
<1>1. PICK k \in job[t].own :
        IF status[k] = "finished"
        THEN job' = [job EXCEPT ![t] = NoJob]
        ELSE \E es \in Handled(k) : job' = [job EXCEPT ![t].at = "pick", ![t].pairs = {k} \X es]
  BY DEF BeginHook
<1>2. /\ job[t].op = "hook" /\ job[t].at = "begin" /\ k \in Tasks
      /\ UNCHANGED <<life, cache, bad, cfi, got, hooks, objs, listed, status, manualOrig, saved, told,
                     patch>>
  BY JobFields DEF BeginHook, elfVars, gotVars, taskVars
<1>3. PICK j \in Job :
        /\ job' = [job EXCEPT ![t] = j]
        /\ \/ j = NoJob
           \/ /\ j.op = "hook" /\ j.at = "pick" /\ j.own = job[t].own /\ j.elfs = job[t].elfs
              /\ \A p \in j.pairs : p[1] = k /\ p[2] \in cache
  <2>1. CASE status[k] = "finished"
    <3>1. NoJob \in Job
      BY DEF NoJob, Job
    <3> QED BY <1>1, <2>1, <3>1
  <2>2. CASE status[k] # "finished"
    <3>1. PICK es \in Handled(k) : job' = [job EXCEPT ![t].at = "pick", ![t].pairs = {k} \X es]
      BY <1>1, <2>2
    <3> DEFINE ps == {k} \X es
               j == [job[t] EXCEPT !.at = "pick", !.pairs = ps]
    <3>2. ps \subseteq Tasks \X Elfs /\ \A p \in ps : p[1] = k /\ p[2] \in cache
      BY <1>2, HandledCached
    <3>3. job' = [job EXCEPT ![t] = j]
      BY <3>1 DEF Common, TypeOK
    <3> HIDE DEF ps
    <3>4. /\ j \in Job /\ j.op = "hook" /\ j.at = "pick" /\ j.own = job[t].own
          /\ j.elfs = job[t].elfs /\ j.pairs = ps
      BY <1>2, <3>2, JobFields DEF Job
    <3> QED BY <3>2, <3>3, <3>4
  <2> QED BY <2>1, <2>2
<1>4. /\ job' \in [Threads -> Job] /\ job'[t] = j
      /\ \A u \in Threads : u # t => job'[u] = job[u]
  BY <1>3, OneJob
<1>5. TypeOK' /\ NoProxyInGot' /\ ListRight' /\ cache' \subseteq Linked'
  BY <1>2, <1>4 DEF Common, TypeOK, NoProxyInGot, ListRight, Linked
<1>6. ASSUME NEW u \in Threads, u # t PROVE InHand(u)' /\ TasksRight(u)'
  BY <1>2, <1>4, <1>6, OthersStand
<1>7. InHand(t)' /\ TasksRight(t)'
  <2>1. /\ patch'[t] = NoPatch /\ job[t].elfs = {}
        /\ job[t].own \subseteq listed
    BY <1>2 DEF Common, InHand, TasksRight
  <2>2. CASE j = NoJob
    BY <1>4, <2>1, <2>2 DEF InHand, TasksRight, NoJob
  <2>3. CASE j # NoJob
    <3>1. /\ j.op = "hook" /\ j.at = "pick" /\ j.own = job[t].own /\ j.elfs = {}
          /\ \A p \in j.pairs : p[1] = k /\ p[2] \in cache
      BY <1>3, <2>1, <2>3
    <3>2. k \in job[t].own /\ cache' = cache /\ listed' = listed
      BY <1>2
    <3>3. InHand(t)'
      BY <1>4, <2>1, <3>1, <3>2 DEF InHand
    <3>4. TasksRight(t)'
      BY <1>4, <2>1, <3>1, <3>2 DEF TasksRight
    <3> QED BY <3>3, <3>4
  <2> QED BY <2>2, <2>3
<1> QED BY <1>5, <1>6, <1>7 DEF Common

LEMMA CommonBeginUnhook ==
    ASSUME Common, NEW t \in Threads, BeginUnhook(t)
    PROVE  Common'
<1>1. PICK k \in job[t].own :
        IF Manual /\ manualOrig[k] \in {Unset, Invalid}
        THEN /\ status' = [status EXCEPT ![k] =
                    IF manualOrig[k] = Unset THEN "destroyed" ELSE "unmatched"]
             /\ job' = [job EXCEPT ![t] = NoJob]
        ELSE /\ status' = [status EXCEPT ![k] = "unhooking"]
             /\ \E es \in Handled(k) :
                    job' = [job EXCEPT ![t].at = "pick", ![t].pairs = {k} \X es]
  BY DEF BeginUnhook
<1>2. /\ job[t].op = "unhook" /\ job[t].at = "begin" /\ k \in Tasks
      /\ UNCHANGED <<life, cache, bad, cfi, got, hooks, objs, listed, manualOrig, saved, told, patch>>
  BY JobFields DEF BeginUnhook, elfVars, gotVars
<1>3. PICK x \in Left : status' = [status EXCEPT ![k] = x]
  BY <1>1 DEF Left
<1>4. /\ status[k] \in Left
      /\ \A i \in job[t].own : i = k
      /\ \A i \in job[t].own : status[i] \in Left
  BY <1>2 DEF Common, TasksRight
<1>5. PICK j \in Job :
        /\ job' = [job EXCEPT ![t] = j]
        /\ \/ j = NoJob
           \/ /\ j.op = "unhook" /\ j.at = "pick" /\ j.own = job[t].own /\ j.elfs = job[t].elfs
              /\ Manual => manualOrig[k] \in Value
              /\ \A p \in j.pairs : p[1] = k /\ p[2] \in cache
  <2>1. CASE Manual /\ manualOrig[k] \in {Unset, Invalid}
    <3>1. NoJob \in Job
      BY DEF NoJob, Job
    <3> QED BY <1>1, <2>1, <3>1
  <2>2. CASE ~(Manual /\ manualOrig[k] \in {Unset, Invalid})
    <3>1. PICK es \in Handled(k) : job' = [job EXCEPT ![t].at = "pick", ![t].pairs = {k} \X es]
      BY <1>1, <2>2
    <3> DEFINE ps == {k} \X es
               j == [job[t] EXCEPT !.at = "pick", !.pairs = ps]
    <3>2. ps \subseteq Tasks \X Elfs /\ \A p \in ps : p[1] = k /\ p[2] \in cache
      BY <1>2, HandledCached
    <3>3. job' = [job EXCEPT ![t] = j]
      BY <3>1 DEF Common, TypeOK
    <3> HIDE DEF ps
    <3>4. /\ j \in Job /\ j.op = "unhook" /\ j.at = "pick" /\ j.own = job[t].own
          /\ j.elfs = job[t].elfs /\ j.pairs = ps
      BY <1>2, <3>2, JobFields DEF Job
    <3>5. Manual => manualOrig[k] \in Value
      BY <1>2, <2>2 DEF Common, TypeOK
    <3> QED BY <3>2, <3>3, <3>4, <3>5
  <2> QED BY <2>1, <2>2
<1>6. /\ job' \in [Threads -> Job] /\ job'[t] = j
      /\ \A u \in Threads : u # t => job'[u] = job[u]
  BY <1>5, OneJob
<1>7. TypeOK' /\ NoProxyInGot' /\ cache' \subseteq Linked'
  BY <1>2, <1>3, <1>6 DEF Common, TypeOK, NoProxyInGot, Linked, Left
<1>8. /\ ListRight'
      /\ \A i \in Tasks : status[i] \in Left => status'[i] \in Left
  BY <1>2, <1>3, <1>4 DEF Common, TypeOK, ListRight, Listed, Left
<1>9. ASSUME NEW u \in Threads, u # t PROVE InHand(u)' /\ TasksRight(u)'
  BY <1>2, <1>6, <1>8, <1>9, OthersStand
<1>10. InHand(t)' /\ TasksRight(t)'
  <2>1. patch'[t] = NoPatch /\ job[t].elfs = {}
    BY <1>2 DEF Common, InHand
  <2>2. CASE j = NoJob
    BY <1>6, <2>1, <2>2 DEF InHand, TasksRight, NoJob
  <2>3. CASE j # NoJob
    <3>1. /\ j.op = "unhook" /\ j.at = "pick" /\ j.own = job[t].own /\ j.elfs = {}
          /\ Manual => \A i \in j.own : manualOrig[i] \in Value
          /\ \A p \in j.pairs : p[1] = k /\ p[2] \in cache
      BY <1>4, <1>5, <2>1, <2>3
    <3>2. k \in job[t].own /\ cache' = cache /\ manualOrig' = manualOrig
      BY <1>2
    <3>3. InHand(t)'
      BY <1>6, <2>1, <3>1, <3>2 DEF InHand
    <3>4. \A i \in j.own : status'[i] \in Left
      BY <1>4, <1>8, <3>1, JobFields
    <3>5. TasksRight(t)'
      BY <1>4, <1>6, <2>1, <3>1, <3>2, <3>4 DEF TasksRight
    <3> QED BY <3>3, <3>5
  <2> QED BY <2>2, <2>3
<1> QED BY <1>7, <1>8, <1>9, <1>10 DEF Common

LEMMA CommonNextElf ==
    ASSUME Common, NEW t \in Threads, NextElf(t)
    PROVE  Common'
<1>1. PICK e \in job[t].elfs :
        job' = [job EXCEPT ![t].elfs = @ \ {e}, ![t].pairs = listed \X {e}]
  BY DEF NextElf
<1>2. /\ job[t].at = "pick" /\ patch[t] = NoPatch
      /\ UNCHANGED <<life, cache, bad, cfi, got, hooks, objs, listed, status, manualOrig, saved, told,
                     patch>>
  BY DEF NextElf, Patching, elfVars, gotVars, taskVars
<1>3. job[t].op = "post" /\ job[t].elfs \subseteq cache /\ e \in cache
  BY <1>1 DEF Common, InHand
<1> DEFINE es == job[t].elfs \ {e}
           ps == listed \X {e}
           j == [job[t] EXCEPT !.elfs = es, !.pairs = ps]
<1>4. /\ es \subseteq cache /\ cache \subseteq Elfs /\ listed \subseteq Tasks
      /\ ps \subseteq Tasks \X Elfs /\ \A p \in ps : p[1] \in listed /\ p[2] \in cache
  BY <1>3 DEF Common, TypeOK
<1>5. job' = [job EXCEPT ![t] = j]
  BY <1>1 DEF Common, TypeOK
<1> HIDE DEF es, ps
<1>6. /\ j \in Job /\ j.op = "post" /\ j.at = "pick" /\ j.own = job[t].own
      /\ j.elfs = es /\ j.pairs = ps
  BY <1>2, <1>3, <1>4, JobFields DEF Job
<1> HIDE DEF j
<1>7. /\ job' \in [Threads -> Job] /\ job'[t] = j
      /\ \A u \in Threads : u # t => job'[u] = job[u]
  BY <1>5, <1>6, OneJob
<1>8. TypeOK' /\ NoProxyInGot' /\ ListRight' /\ cache' \subseteq Linked'
  BY <1>2, <1>7 DEF Common, TypeOK, NoProxyInGot, ListRight, Linked
<1>9. ASSUME NEW u \in Threads, u # t PROVE InHand(u)' /\ TasksRight(u)'
  BY <1>2, <1>7, <1>9, OthersStand
<1>10. InHand(t)' /\ TasksRight(t)'
  BY <1>2, <1>4, <1>6, <1>7 DEF InHand, TasksRight
<1> QED BY <1>8, <1>9, <1>10 DEF Common

LEMMA CommonFinish ==
    ASSUME Common, NEW t \in Threads, Finish(t)
    PROVE  Common'
<1>1. /\ job[t].at = "pick" /\ patch[t] = NoPatch
      /\ job' = [job EXCEPT ![t] = NoJob]
      /\ status' = [k \in Tasks |-> IF job[t].op = "unhook" /\ k \in job[t].own
                                    THEN "destroyed" ELSE status[k]]
      /\ UNCHANGED <<life, cache, bad, cfi, got, hooks, objs, listed, manualOrig, saved, told, patch>>
  BY DEF Finish, Patching, elfVars, gotVars
<1>2. NoJob \in Job
  BY DEF NoJob, Job
<1>3. /\ job' \in [Threads -> Job] /\ job'[t] = NoJob
      /\ \A u \in Threads : u # t => job'[u] = job[u]
  BY <1>1, <1>2, OneJob
<1>4. TypeOK' /\ NoProxyInGot' /\ cache' \subseteq Linked'
  BY <1>1, <1>3 DEF Common, TypeOK, NoProxyInGot, Linked
<1>5. \A k \in Tasks : \/ status'[k] = status[k]
                       \/ status[k] \in Left /\ status'[k] = "destroyed"
  BY <1>1 DEF Common, TasksRight
<1>6. ListRight' /\ \A i \in Tasks : status[i] \in Left => status'[i] \in Left
  BY <1>1, <1>5 DEF Common, ListRight, Listed, Left
<1>7. ASSUME NEW u \in Threads, u # t PROVE InHand(u)' /\ TasksRight(u)'
  BY <1>1, <1>3, <1>6, <1>7, OthersStand
<1>8. InHand(t)' /\ TasksRight(t)'
  BY <1>1, <1>3 DEF InHand, TasksRight, NoJob
<1> QED BY <1>4, <1>6, <1>7, <1>8 DEF Common

\* One pair less, and maybe entries to patch in its ELF.
LEMMA PairTaken ==
    ASSUME Common, NEW t \in Threads, NEW q \in job[t].pairs,
           job' = [job EXCEPT ![t].pairs = @ \ {q}]
    PROVE  /\ job' \in [Threads -> Job]
           /\ job'[t].op = job[t].op /\ job'[t].at = job[t].at
           /\ job'[t].own = job[t].own /\ job'[t].elfs = job[t].elfs
           /\ job'[t].pairs = job[t].pairs \ {q}
           /\ \A u \in Threads : u # t => job'[u] = job[u]
           /\ q[1] \in Tasks /\ q[2] \in Elfs /\ q[2] \in cache
<1> DEFINE ps == job[t].pairs \ {q}
           j == [job[t] EXCEPT !.pairs = ps]
<1>1. ps \subseteq Tasks \X Elfs /\ q \in Tasks \X Elfs
  <2>1. job[t].pairs \subseteq Tasks \X Elfs
    BY JobFields
  <2> QED BY <2>1, Zenon
<1>2. job' = [job EXCEPT ![t] = j]
  BY DEF Common, TypeOK
<1> HIDE DEF ps
<1>3. /\ j \in Job /\ j.op = job[t].op /\ j.at = job[t].at /\ j.own = job[t].own
      /\ j.elfs = job[t].elfs /\ j.pairs = ps
  <2>1. job[t] \in Job
    BY JobFields
  <2>2. ps \subseteq Tasks \X Elfs
    BY <1>1
  <2> QED BY <2>1, <2>2 DEF Job
<1> HIDE DEF j
<1>4. /\ job' \in [Threads -> Job] /\ job'[t] = j
      /\ \A u \in Threads : u # t => job'[u] = job[u]
  BY <1>2, <1>3, OneJob
<1>5. q[1] \in Tasks /\ q[2] \in Elfs /\ q[2] \in cache
  BY <1>1 DEF Common, InHand
<1> QED BY <1>3, <1>4, <1>5 DEF ps

LEMMA PatchStarted ==
    ASSUME Common, NEW t \in Threads, NEW k \in Tasks, NEW e \in Elfs, GotsOf[e] # <<>>,
           StartPatch(t, k, e)
    PROVE  /\ patch' \in [Threads -> Patch \cup {NoPatch}]
           /\ patch'[t] \in Patch /\ patch'[t] # NoPatch
           /\ patch'[t].task = k /\ patch'[t].elf = e /\ patch'[t].gots = GotsOf[e]
           /\ patch'[t].ok
           /\ \A u \in Threads : u # t => patch'[u] = patch[u]
<1> DEFINE p == [task |-> k, elf |-> e, gots |-> GotsOf[e], ok |-> TRUE, locked |-> FALSE]
<1>1. p \in Patch
  BY EntriesOf DEF Patch
<1>2. p # NoPatch
  <2>1. p.gots # NoPatch.gots
    BY DEF NoPatch
  <2> QED BY <2>1
<1>3. p.task = k /\ p.elf = e /\ p.gots = GotsOf[e] /\ p.ok
  OBVIOUS
<1>4. patch' = [patch EXCEPT ![t] = p]
  BY DEF StartPatch
<1> HIDE DEF p
<1> QED BY <1>1, <1>2, <1>3, <1>4 DEF Common, TypeOK

\* What a task that meets an ELF does to the task, and to the thread's work.
LEMMA Met ==
    ASSUME Common, NEW t \in Threads, NEW k \in Tasks, NEW e \in Elfs,
           patch[t] = NoPatch,
           Refuse(k, e) \/ NoSymbol(k, e) \/ FindGots(t, k, e)
    PROVE  /\ UNCHANGED <<life, cache, bad, cfi, got, hooks, objs, listed, manualOrig>>
           /\ status' \in [Tasks -> {"new", "unfinished", "finished", "longterm", "unlisted",
                                     "unhooking", "destroyed", "unmatched"}]
           /\ \A i \in Tasks : status'[i] = status[i] \/ (i = k /\ status'[i] = "finished")
           /\ saved' \in [Tasks -> Value \cup {Unset}]
           /\ \A i \in Tasks : saved'[i] = saved[i] \/ (i = k /\ saved'[i] \in Value)
           /\ told' \in [Tasks -> SUBSET (Elfs \X {"OK", "failed"})]
           /\ \A i \in Tasks, d \in Elfs : <<d, "OK">> \in told'[i] => <<d, "OK">> \in told[i]
           /\ patch' \in [Threads -> Patch \cup {NoPatch}]
           /\ \A u \in Threads : u # t => patch'[u] = patch[u]
           /\ patch'[t] # NoPatch =>
                /\ e \notin bad
                /\ patch'[t].task = k /\ patch'[t].elf = e
                /\ patch'[t].gots = GotsOf[e] /\ patch'[t].gots # <<>>
                /\ Manual => saved'[k] \in Value
<1>1. /\ status \in [Tasks -> {"new", "unfinished", "finished", "longterm", "unlisted",
                               "unhooking", "destroyed", "unmatched"}]
      /\ saved \in [Tasks -> Value \cup {Unset}]
      /\ told \in [Tasks -> SUBSET (Elfs \X {"OK", "failed"})]
      /\ patch \in [Threads -> Patch \cup {NoPatch}]
      /\ got \in [Gots -> Value]
  BY DEF Common, TypeOK
<1>2. CASE Refuse(k, e) \/ NoSymbol(k, e)
  <2>1. /\ UNCHANGED <<life, cache, bad, cfi, got, hooks, objs, listed, manualOrig, saved, patch>>
        /\ status' = Finished(k) /\ told' = ToldSingle(k, e)
    BY <1>2 DEF Refuse, NoSymbol, elfVars, gotVars
  <2>2. /\ status' \in [Tasks -> {"new", "unfinished", "finished", "longterm", "unlisted",
                                  "unhooking", "destroyed", "unmatched"}]
        /\ \A i \in Tasks : status'[i] = status[i] \/ (i = k /\ status'[i] = "finished")
    BY <1>1, <2>1 DEF Finished
  <2>3. /\ told' \in [Tasks -> SUBSET (Elfs \X {"OK", "failed"})]
        /\ \A i \in Tasks, d \in Elfs : <<d, "OK">> \in told'[i] => <<d, "OK">> \in told[i]
    <3>1. told' = told \/ told' = [told EXCEPT ![k] = @ \cup {<<e, "failed">>}]
      BY <2>1 DEF ToldSingle
    <3> DEFINE w == <<e, "failed">>
    <3>2. w \in Elfs \X {"OK", "failed"} /\ \A d \in Elfs : <<d, "OK">> # w
      OBVIOUS
    <3> HIDE DEF w
    <3>3. \A i \in Tasks : told'[i] = told[i] \/ told'[i] = told[i] \cup {w}
      BY <1>1, <3>1 DEF w
    <3>4. told' \in [Tasks -> SUBSET (Elfs \X {"OK", "failed"})]
      BY <1>1, <3>1, <3>2 DEF w
    <3>5. ASSUME NEW i \in Tasks, NEW d \in Elfs, <<d, "OK">> \in told'[i]
          PROVE  <<d, "OK">> \in told[i]
      <4>1. <<d, "OK">> # w
        BY <3>2
      <4> QED BY <3>3, <3>5, <4>1
    <3> QED BY <3>4, <3>5
  <2> QED BY <1>1, <2>1, <2>2, <2>3
<1>3. CASE FindGots(t, k, e)
  <2>1. /\ UNCHANGED <<life, cache, bad, cfi, got, hooks, objs, listed, status, manualOrig, told>>
        /\ e \notin bad /\ GotsOf[e] # <<>> /\ saved' = Reported(k, e) /\ StartPatch(t, k, e)
    BY <1>3 DEF FindGots, elfVars, gotVars
  <2>2. got[GotsOf[e][1]] \in Value
    BY <1>1, <2>1, EntriesOf
  <2>3. /\ saved' \in [Tasks -> Value \cup {Unset}]
        /\ \A i \in Tasks : saved'[i] = saved[i] \/ (i = k /\ saved'[i] \in Value)
        /\ Manual => saved'[k] \in Value
    BY <1>1, <2>1, <2>2 DEF Reported
  <2>4. /\ patch' \in [Threads -> Patch \cup {NoPatch}]
        /\ patch'[t].task = k /\ patch'[t].elf = e /\ patch'[t].gots = GotsOf[e]
        /\ \A u \in Threads : u # t => patch'[u] = patch[u]
    BY <2>1, PatchStarted
  <2> QED BY <1>1, <2>1, <2>3, <2>4
<1> QED BY <1>2, <1>3

LEMMA CommonVisit ==
    ASSUME Common, NEW t \in Threads, Visit(t)
    PROVE  Common'
<1>1. PICK q \in job[t].pairs :
        /\ job' = [job EXCEPT ![t].pairs = @ \ {q}]
        /\ IF q[2] \in Callers[q[1]] /\ (job[t].op = "post" => status[q[1]] # "finished")
           THEN Refuse(q[1], q[2]) \/ NoSymbol(q[1], q[2]) \/ FindGots(t, q[1], q[2])
           ELSE UNCHANGED <<elfVars, gotVars, taskVars, patch>>
  BY DEF Visit
<1>2. job[t].at = "pick" /\ job[t].op \in {"hook", "post"} /\ patch[t] = NoPatch
  BY DEF Visit, Patching
<1> DEFINE k == q[1]
           e == q[2]
<1>3. /\ job' \in [Threads -> Job]
      /\ job'[t].op = job[t].op /\ job'[t].at = job[t].at
      /\ job'[t].own = job[t].own /\ job'[t].elfs = job[t].elfs
      /\ job'[t].pairs = job[t].pairs \ {q}
      /\ \A u \in Threads : u # t => job'[u] = job[u]
      /\ k \in Tasks /\ e \in Elfs /\ e \in cache
  BY <1>1, PairTaken
<1>4. k \in listed /\ (job[t].op = "hook" => k \in job[t].own)
  BY <1>1, <1>2 DEF Common, TasksRight
<1>5. /\ UNCHANGED <<life, cache, bad, cfi, got, hooks, objs, listed, manualOrig>>
      /\ status' \in [Tasks -> {"new", "unfinished", "finished", "longterm", "unlisted",
                                "unhooking", "destroyed", "unmatched"}]
      /\ \A i \in Tasks : status'[i] = status[i] \/ (i = k /\ status'[i] = "finished")
      /\ saved' \in [Tasks -> Value \cup {Unset}]
      /\ told' \in [Tasks -> SUBSET (Elfs \X {"OK", "failed"})]
      /\ patch' \in [Threads -> Patch \cup {NoPatch}]
      /\ \A u \in Threads : u # t => patch'[u] = patch[u]
      /\ patch'[t] # NoPatch =>
           patch'[t].task = k /\ patch'[t].elf = e /\ patch'[t].gots # <<>> /\ patch'[t].gots = GotsOf[e]
  <2>1. CASE Refuse(k, e) \/ NoSymbol(k, e) \/ FindGots(t, k, e)
    BY <1>2, <1>3, <2>1, Met
  <2>2. CASE UNCHANGED <<elfVars, gotVars, taskVars, patch>>
    BY <1>2, <2>2 DEF Common, TypeOK, elfVars, gotVars, taskVars
  <2> QED BY <1>1, <2>1, <2>2
<1> HIDE DEF k, e
<1>6. TypeOK' /\ NoProxyInGot' /\ cache' \subseteq Linked'
  BY <1>3, <1>5 DEF Common, TypeOK, NoProxyInGot, Linked
<1>7. /\ \A i \in Tasks : status[i] \in Left => status'[i] \in Left
      /\ \A i \in Tasks : status[i] \in Listed <=> status'[i] \in Listed
  BY <1>4, <1>5, KindsApart DEF Left, Listed
<1>8. ListRight'
  BY <1>5, <1>7 DEF Common, ListRight
<1>9. ASSUME NEW u \in Threads, u # t PROVE InHand(u)' /\ TasksRight(u)'
  BY <1>3, <1>5, <1>7, <1>9, OthersStand
<1>10. InHand(t)' /\ TasksRight(t)'
  <2>1. InHand(t) /\ TasksRight(t)
    BY DEF Common
  <2>2. InHand(t)'
    BY <1>2, <1>3, <1>5, <2>1 DEF InHand
  <2>3. TasksRight(t)'
    BY <1>2, <1>3, <1>4, <1>5, <2>1 DEF TasksRight
  <2> QED BY <2>2, <2>3
<1> QED BY <1>6, <1>8, <1>9, <1>10 DEF Common

LEMMA CommonHookCfi ==
    ASSUME Common, NEW t \in Threads, HookCfi(t)
    PROVE  Common'
<1>1. PICK q \in job[t].pairs, r \in {"ok", "failed"} :
        cfi' = [cfi EXCEPT ![q[2]] = r]
  BY DEF HookCfi
<1>2. UNCHANGED <<life, cache, bad, got, hooks, objs, listed, status, manualOrig, saved, told, job, patch>>
  BY DEF HookCfi, gotVars, taskVars
<1>3. TypeOK' /\ NoProxyInGot' /\ cache' \subseteq Linked' /\ ListRight'
  BY <1>1, <1>2 DEF Common, TypeOK, NoProxyInGot, Linked, ListRight
<1>4. ASSUME NEW u \in Threads PROVE InHand(u)' /\ TasksRight(u)'
  BY <1>2, OthersStand
<1> QED BY <1>3, <1>4 DEF Common

LEMMA CommonVisitUnhook ==
    ASSUME Common, NEW t \in Threads, VisitUnhook(t)
    PROVE  Common'
<1>1. PICK q \in job[t].pairs :
        /\ job' = [job EXCEPT ![t].pairs = @ \ {q}]
        /\ IF q[2] \in Callers[q[1]] \ bad /\ GotsOf[q[2]] # <<>>
           THEN StartPatch(t, q[1], q[2])
           ELSE UNCHANGED patch
  BY DEF VisitUnhook
<1>2. /\ job[t].at = "pick" /\ job[t].op = "unhook" /\ patch[t] = NoPatch
      /\ UNCHANGED <<life, cache, bad, cfi, got, hooks, objs, listed, status, manualOrig, saved, told>>
  BY DEF VisitUnhook, Patching, elfVars, gotVars, taskVars
<1> DEFINE k == q[1]
           e == q[2]
<1>3. /\ job' \in [Threads -> Job]
      /\ job'[t].op = job[t].op /\ job'[t].at = job[t].at
      /\ job'[t].own = job[t].own /\ job'[t].elfs = job[t].elfs
      /\ job'[t].pairs = job[t].pairs \ {q}
      /\ \A u \in Threads : u # t => job'[u] = job[u]
      /\ k \in Tasks /\ e \in Elfs /\ e \in cache
  BY <1>1, PairTaken
<1>4. k \in job[t].own
  BY <1>1, <1>2 DEF Common, TasksRight
<1>5. /\ patch' \in [Threads -> Patch \cup {NoPatch}]
      /\ \A u \in Threads : u # t => patch'[u] = patch[u]
      /\ patch'[t] # NoPatch =>
           patch'[t].task = k /\ patch'[t].elf = e /\ patch'[t].gots # <<>> /\ patch'[t].gots = GotsOf[e]
  <2>1. CASE StartPatch(t, k, e) /\ GotsOf[e] # <<>>
    BY <1>3, <2>1, PatchStarted
  <2>2. CASE UNCHANGED patch
    BY <1>2, <2>2 DEF Common, TypeOK
  <2> QED BY <1>1, <2>1, <2>2
<1> HIDE DEF k, e
<1>6. TypeOK' /\ NoProxyInGot' /\ cache' \subseteq Linked' /\ ListRight'
  BY <1>2, <1>3, <1>5 DEF Common, TypeOK, NoProxyInGot, Linked, ListRight
<1>7. ASSUME NEW u \in Threads, u # t PROVE InHand(u)' /\ TasksRight(u)'
  BY <1>2, <1>3, <1>5, <1>7, OthersStand
<1>8. InHand(t)' /\ TasksRight(t)'
  <2>1. InHand(t) /\ TasksRight(t)
    BY DEF Common
  <2>2. InHand(t)'
    BY <1>2, <1>3, <1>5, <2>1 DEF InHand
  <2>3. TasksRight(t)'
    BY <1>2, <1>3, <1>4, <1>5, <2>1 DEF TasksRight
  <2> QED BY <2>2, <2>3
<1> QED BY <1>6, <1>7, <1>8 DEF Common

LEMMA CommonInit == Init => Common
<1> SUFFICES ASSUME Init PROVE Common
  OBVIOUS
<1>1. NoJob \in Job /\ NoJob.op = "none" /\ NoJob.at = "idle" /\ NoJob.elfs = {} /\ NoJob.pairs = {}
  BY DEF NoJob, Job
<1>2. objs = <<>> /\ objs \in Seq(Hook) /\ Len(objs) = 0
  BY EmptySeq DEF Init
<1>3. \A g \in Gots : OrigOf[g] \in Origs /\ OrigOf[g] \notin Funcs
  BY DEF HookManagerNames
<1>4. TypeOK
  BY <1>1, <1>2, <1>3 DEF Init, TypeOK, Value
<1>5. cache \subseteq Linked
  BY DEF Init, Linked
<1>6. ListRight
  BY DEF Init, ListRight, Listed
<1>7. NoProxyInGot
  BY <1>3 DEF Init, NoProxyInGot
<1>8. \A t \in Threads : InHand(t) /\ TasksRight(t)
  BY <1>1 DEF Init, InHand, TasksRight
<1> QED BY <1>4, <1>5, <1>6, <1>7, <1>8 DEF Common

LEMMA CommonNext == Common /\ [Next]_vars => Common'
<1> SUFFICES ASSUME Common, [Next]_vars PROVE Common'
  OBVIOUS
<1>1. CASE UNCHANGED vars
  <2>1. UNCHANGED <<life, cache, bad, cfi, got, hooks, objs, listed, status, manualOrig, saved, told,
                    job, patch>>
    BY <1>1 DEF vars, elfVars, gotVars, taskVars
  <2>2. TypeOK' /\ NoProxyInGot' /\ cache' \subseteq Linked' /\ ListRight'
    BY <2>1 DEF Common, TypeOK, NoProxyInGot, Linked, ListRight
  <2>3. ASSUME NEW u \in Threads PROVE InHand(u)' /\ TasksRight(u)'
    BY <2>1, OthersStand
  <2> QED BY <2>2, <2>3 DEF Common
<1>2. CASE Next
  BY <1>2, CommonLoad, CommonClose, CommonRefresh, CommonHookCall, CommonUnhookCall, CommonBeginHook,
     CommonBeginUnhook, CommonNextElf, CommonFinish, CommonVisit, CommonHookCfi, CommonVisitUnhook,
     CommonPatchStep DEF Next, PatchStep
<1> QED BY <1>1, <1>2

\* Every variable of the manager has its type, in either mode and for every
\* number of threads, libraries, entries and tasks (bh_task_manager.cpp,
\* bh_task.cpp, bh_hook_manager.cpp).
THEOREM Types == Spec => []TypeOK
<1>1. Common => TypeOK
  BY DEF Common
<1> QED BY <1>1, CommonInit, CommonNext, PTL DEF Spec

(***************************************************************************)
(* Manual mode: told first                                                   *)
(***************************************************************************)
\* What the steps that patch nothing do to entries, hooks and tasks.
LEMMA OtherSteps ==
    ASSUME Common, NEW t \in Threads,
           \/ \E e \in Elfs : Close(t, e)
           \/ \E k \in Tasks : HookCall(t, k) \/ UnhookCall(t, k)
           \/ Refresh(t) \/ BeginHook(t) \/ BeginUnhook(t) \/ NextElf(t) \/ Finish(t)
           \/ HookCfi(t) \/ VisitUnhook(t)
    PROVE  /\ UNCHANGED <<bad, got, hooks, objs, manualOrig, saved, told>>
           /\ \A u \in Threads : u # t => patch'[u] = patch[u] /\ job'[u] = job[u]
           /\ patch'[t] # NoPatch => \/ patch'[t] = patch[t] /\ job'[t] = job[t]
                                     \/ job'[t].op = "unhook"
<1>1. CASE \E e \in Elfs : Close(t, e)
  BY <1>1 DEF Close, gotVars, taskVars
<1>2. CASE \E k \in Tasks : HookCall(t, k) \/ UnhookCall(t, k)
  <2>1. /\ UNCHANGED <<bad, got, hooks, objs, manualOrig, saved, told, patch>>
        /\ patch[t] = NoPatch
        /\ \E j : job' = [job EXCEPT ![t] = j]
    <3>1. PICK k \in Tasks : HookCall(t, k) \/ UnhookCall(t, k)
      BY <1>2
    <3>2. IsIdle(t) /\ UNCHANGED <<bad, got, hooks, objs, manualOrig, saved, told, patch>>
      BY <3>1 DEF HookCall, UnhookCall, elfVars, gotVars
    <3>3. patch[t] = NoPatch
      BY <3>2 DEF Common, InHand, IsIdle, NoJob
    <3>4. job' = [job EXCEPT ![t] = Start("hook", {k})] \/ job' = [job EXCEPT ![t] = Start("unhook", {k})]
      BY <3>1 DEF HookCall, UnhookCall
    <3> QED BY <3>2, <3>3, <3>4
  <2> QED BY <2>1 DEF Common, TypeOK
<1>3. CASE Refresh(t) \/ BeginHook(t) \/ BeginUnhook(t) \/ NextElf(t) \/ Finish(t)
  <2>1. /\ UNCHANGED <<bad, got, hooks, objs, manualOrig, saved, told, patch>>
        /\ patch[t] = NoPatch
    BY <1>3 DEF Refresh, BeginHook, BeginUnhook, NextElf, Finish, elfVars, gotVars, taskVars, Common,
                InHand, Patching
  <2>2. \A u \in Threads : u # t => job'[u] = job[u]
    <3>1. job \in [Threads -> Job]
      BY DEF Common, TypeOK
    <3>2. CASE Refresh(t)
      BY <3>1, <3>2 DEF Refresh
    <3>3. CASE BeginHook(t)
      BY <3>1, <3>3 DEF BeginHook
    <3>4. CASE BeginUnhook(t)
      BY <3>1, <3>4 DEF BeginUnhook
    <3>5. CASE NextElf(t)
      BY <3>1, <3>5 DEF NextElf
    <3>6. CASE Finish(t)
      BY <3>1, <3>6 DEF Finish
    <3> QED BY <1>3, <3>2, <3>3, <3>4, <3>5, <3>6
  <2> QED BY <2>1, <2>2
<1>4. CASE HookCfi(t)
  BY <1>4 DEF HookCfi, gotVars, taskVars
<1>5. CASE VisitUnhook(t)
  <2>1. /\ UNCHANGED <<bad, got, hooks, objs, manualOrig, saved, told>> /\ job[t].op = "unhook"
        /\ \E q \in job[t].pairs : job' = [job EXCEPT ![t].pairs = @ \ {q}]
        /\ patch' = patch \/ \E p : patch' = [patch EXCEPT ![t] = p]
    BY <1>5 DEF VisitUnhook, StartPatch, elfVars, gotVars, taskVars
  <2>2. /\ job'[t].op = job[t].op
        /\ \A u \in Threads : u # t => job'[u] = job[u]
    BY <2>1, PairTaken
  <2>3. \A u \in Threads : u # t => patch'[u] = patch[u]
    BY <2>1 DEF Common, TypeOK
  <2> QED BY <2>1, <2>2, <2>3
<1> QED BY <1>1, <1>2, <1>3, <1>4, <1>5

\* Every step is one of a few kinds.
LEMMA KindsOfSteps ==
    ASSUME Common, Next
    PROVE  \E t \in Threads :
             \/ \E e \in Elfs : Load(t, e)
             \/ Visit(t)
             \/ PatchStep(t)
             \/ /\ UNCHANGED <<bad, got, hooks, objs, manualOrig, saved, told>>
                /\ \A u \in Threads : u # t => patch'[u] = patch[u] /\ job'[u] = job[u]
                /\ patch'[t] # NoPatch => \/ patch'[t] = patch[t] /\ job'[t] = job[t]
                                          \/ job'[t].op = "unhook"
<1>1. PICK t \in Threads :
        \/ \E e \in Elfs : Load(t, e) \/ Close(t, e)
        \/ \E k \in Tasks : HookCall(t, k) \/ UnhookCall(t, k)
        \/ Refresh(t) \/ BeginHook(t) \/ BeginUnhook(t) \/ NextElf(t) \/ Finish(t)
        \/ Visit(t) \/ HookCfi(t) \/ VisitUnhook(t)
        \/ PatchStep(t)
  BY DEF Next, PatchStep
<1>2. CASE Visit(t)
  BY <1>2
<1>3. CASE PatchStep(t)
  BY <1>3
<1>4. CASE \E e \in Elfs : Load(t, e)
  BY <1>4
<1>5. CASE \/ \E e \in Elfs : Close(t, e)
           \/ \E k \in Tasks : HookCall(t, k) \/ UnhookCall(t, k)
           \/ Refresh(t) \/ BeginHook(t) \/ BeginUnhook(t) \/ NextElf(t) \/ Finish(t)
           \/ HookCfi(t) \/ VisitUnhook(t)
  BY <1>5, OtherSteps
<1> QED BY <1>1, <1>2, <1>3, <1>4, <1>5

\* A task meets an ELF, or is passed over.
LEMMA Visited ==
    ASSUME Common, NEW t \in Threads, Visit(t)
    PROVE  \E q \in job[t].pairs :
             /\ q[1] \in Tasks /\ q[2] \in Elfs /\ q[2] \in cache
             /\ job' = [job EXCEPT ![t].pairs = @ \ {q}]
             /\ UNCHANGED <<life, cache, bad, cfi, got, hooks, objs, listed, manualOrig>>
             /\ \A i \in Tasks : status'[i] = status[i] \/ (i = q[1] /\ status'[i] = "finished")
             /\ \A i \in Tasks : saved'[i] = saved[i] \/ (i = q[1] /\ saved'[i] \in Value)
             /\ \A i \in Tasks, d \in Elfs : <<d, "OK">> \in told'[i] => <<d, "OK">> \in told[i]
             /\ \A u \in Threads : u # t => patch'[u] = patch[u] /\ job'[u] = job[u]
             /\ job[t].op \in {"hook", "post"} /\ job'[t].op = job[t].op
             /\ patch'[t] # NoPatch =>
                  /\ q[2] \in Callers[q[1]]
                  /\ patch'[t].task = q[1] /\ patch'[t].elf = q[2]
                  /\ patch'[t].gots = GotsOf[q[2]] /\ patch'[t].gots # <<>>
                  /\ Manual => saved'[q[1]] \in Value
<1>1. PICK q \in job[t].pairs :
        /\ job' = [job EXCEPT ![t].pairs = @ \ {q}]
        /\ IF q[2] \in Callers[q[1]] /\ (job[t].op = "post" => status[q[1]] # "finished")
           THEN Refuse(q[1], q[2]) \/ NoSymbol(q[1], q[2]) \/ FindGots(t, q[1], q[2])
           ELSE UNCHANGED <<elfVars, gotVars, taskVars, patch>>
  BY DEF Visit
<1>2. job[t].op \in {"hook", "post"} /\ patch[t] = NoPatch
  BY DEF Visit, Patching
<1>3. /\ job'[t].op = job[t].op
      /\ \A u \in Threads : u # t => job'[u] = job[u]
      /\ q[1] \in Tasks /\ q[2] \in Elfs /\ q[2] \in cache
  BY <1>1, PairTaken
<1> DEFINE Done ==
             /\ UNCHANGED <<life, cache, bad, cfi, got, hooks, objs, listed, manualOrig>>
             /\ \A i \in Tasks : status'[i] = status[i] \/ (i = q[1] /\ status'[i] = "finished")
             /\ \A i \in Tasks : saved'[i] = saved[i] \/ (i = q[1] /\ saved'[i] \in Value)
             /\ \A i \in Tasks, d \in Elfs : <<d, "OK">> \in told'[i] => <<d, "OK">> \in told[i]
             /\ \A u \in Threads : u # t => patch'[u] = patch[u]
             /\ patch'[t] # NoPatch =>
                  /\ q[2] \in Callers[q[1]]
                  /\ patch'[t].task = q[1] /\ patch'[t].elf = q[2]
                  /\ patch'[t].gots = GotsOf[q[2]] /\ patch'[t].gots # <<>>
                  /\ Manual => saved'[q[1]] \in Value
<1>4. Done
  <2>1. CASE /\ q[2] \in Callers[q[1]]
             /\ Refuse(q[1], q[2]) \/ NoSymbol(q[1], q[2]) \/ FindGots(t, q[1], q[2])
    BY <1>2, <1>3, <2>1, Met
  <2>2. CASE UNCHANGED <<elfVars, gotVars, taskVars, patch>>
    BY <1>2, <2>2 DEF elfVars, gotVars, taskVars
  <2> QED BY <1>1, <2>1, <2>2
<1> QED BY <1>1, <1>2, <1>3, <1>4

\* A function that is not a proxy is known.
LEMMA NotProxies ==
    /\ \A v : v \notin Funcs => Known(v)
    /\ \A v \in Origs \cup Nat \cup {Unset, Invalid} : v \notin Funcs
    /\ \A v \in Value : v # Unset
BY DEF Known, Value, HookManagerNames

\* What is known stays known.
LEMMA StaysKnown ==
    ASSUME NEW v, Known(v), \A i \in Tasks : saved'[i] = saved[i] \/ saved'[i] \in Value
    PROVE  Known(v)'
BY NotProxies DEF Known

LEMMA SavedPatchStep ==
    ASSUME Common, OwnFuncs, AllKnown, NEW t \in Threads, PatchStep(t)
    PROVE  AllKnown'
<1> DEFINE g == Entry(t)
           p == patch[t]
<1>1. PICK good \in BOOLEAN : Patching(t) /\ After(t, good)
  BY PatchGoesOn
<1>2. /\ UNCHANGED <<saved, job>>
      /\ \A u \in Threads : u # t => patch'[u] = patch[u]
      /\ patch'[t] # NoPatch => patch'[t].task = p.task
  BY <1>1, AfterEffect
<1>3. g \in Gots /\ Func(t) = FuncOf[p.task] /\ p.task \in Tasks
  BY <1>1, EntryTyped DEF Func
<1>4. Common' /\ got \in [Gots -> Value] /\ manualOrig \in [Tasks -> Value \cup {Unset, Invalid}]
  BY CommonPatchStep DEF Common, TypeOK
<1>5. \A v : Known(v)' <=> Known(v)
  BY <1>2 DEF Known
<1>6. \A f \in Gots : Known(got'[f])
  <2>1. CASE Replace(t)
    <3>1. Known(Func(t))
      <4>1. saved[p.task] # Unset
        BY <1>1, <2>1 DEF Replace, AtEntry, AllKnown, Patching
      <4> QED BY <1>3, <4>1 DEF Known, OwnFuncs
    <3>2. got' = [got EXCEPT ![g] = Func(t)]
      BY <2>1 DEF Replace
    <3> QED BY <1>3, <1>4, <3>1, <3>2 DEF AllKnown
  <2>2. CASE Restore(t)
    <3>1. got' = got \/ got' = [got EXCEPT ![g] = manualOrig[p.task]]
      BY <2>2 DEF Restore
    <3> QED BY <1>3, <1>4, <3>1 DEF AllKnown
  <2>3. CASE ~Manual
    <3>1. \A f \in Gots : got'[f] \notin Funcs
      BY <1>4, <2>3 DEF Common, NoProxyInGot
    <3> QED BY <3>1, NotProxies
  <2>4. CASE Fault(t) \/ ReplaceFails(t)
    BY <2>4 DEF Fault, ReplaceFails, gotVars, AllKnown
  <2> QED BY <2>1, <2>2, <2>3, <2>4 DEF PatchStep, Create, CreateFails, Join, Leave, LeaveNothing
<1>7. \A i \in DOMAIN objs' : Known(objs'[i].orig)
  <2>1. objs' \in Seq(Hook)
    BY <1>4 DEF Common, TypeOK
  <2>2. ASSUME NEW i \in DOMAIN objs' PROVE objs'[i].orig \notin Funcs
    <3>1. objs'[i] \in Hook
      BY <2>1, ElementOfSeq, LenProperties
    <3>2. objs'[i].orig \in Origs \cup Nat
      BY <3>1 DEF Hook
    <3> QED BY <3>2, NotProxies
  <2> QED BY <2>2, NotProxies
<1>8. \A k \in Tasks : Known(manualOrig'[k])
  <2>1. CASE Replace(t)
    <3>1. manualOrig' = [manualOrig EXCEPT ![p.task] = Remembered(p.task, got[g])]
      BY <2>1 DEF Replace
    <3>2. Remembered(p.task, got[g]) \in {got[g], manualOrig[p.task], Invalid}
      BY DEF Remembered
    <3>3. Known(got[g]) /\ Known(manualOrig[p.task]) /\ Known(Invalid)
      BY <1>3, NotProxies DEF AllKnown
    <3> QED BY <1>3, <1>4, <3>1, <3>2, <3>3 DEF AllKnown
  <2>2. CASE manualOrig' = manualOrig
    BY <2>2 DEF AllKnown
  <2> QED BY <2>1, <2>2 DEF PatchStep, Fault, Create, CreateFails, Join, Leave, LeaveNothing,
                            ReplaceFails, Restore
<1>9. \A u \in Threads : Manual /\ patch'[u] # NoPatch /\ job'[u].op # "unhook" =>
          saved'[patch'[u].task] # Unset
  BY <1>1, <1>2 DEF AllKnown, Patching
<1> QED BY <1>5, <1>6, <1>7, <1>8, <1>9 DEF AllKnown

LEMMA SavedNext ==
    ASSUME Common, OwnFuncs, AllKnown, [Next]_vars
    PROVE  AllKnown'
<1>1. CASE UNCHANGED vars
  BY <1>1 DEF vars, elfVars, gotVars, taskVars, AllKnown, Known
<1>2. CASE Next
  <2>1. PICK t \in Threads :
             \/ \E e \in Elfs : Load(t, e)
             \/ Visit(t)
             \/ PatchStep(t)
             \/ /\ UNCHANGED <<bad, got, hooks, objs, manualOrig, saved, told>>
                /\ \A u \in Threads : u # t => patch'[u] = patch[u] /\ job'[u] = job[u]
                /\ patch'[t] # NoPatch => \/ patch'[t] = patch[t] /\ job'[t] = job[t]
                                          \/ job'[t].op = "unhook"
    BY <1>2, KindsOfSteps
  <2>2. CASE \E e \in Elfs : Load(t, e)
    <3>1. PICK e \in Elfs : Load(t, e)
      BY <2>2
    <3>2. /\ \A g \in Gots : got'[g] = got[g] \/ got'[g] = OrigOf[g]
          /\ UNCHANGED <<objs, manualOrig, saved, patch>>
          /\ patch[t] = NoPatch
          /\ \A u \in Threads : u # t => job'[u] = job[u]
      BY <3>1 DEF Load, taskVars, Common, TypeOK, InHand, IsIdle, NoJob
    <3>3. \A g \in Gots : Known(OrigOf[g])
      BY NotProxies
    <3>4. \A g \in Gots : Known(got'[g])
      BY <3>2, <3>3 DEF AllKnown
    <3>5. \A u \in Threads : Manual /\ patch'[u] # NoPatch /\ job'[u].op # "unhook" =>
              saved[patch'[u].task] # Unset
      BY <3>2 DEF AllKnown
    <3>6. /\ \A i \in DOMAIN objs : Known(objs[i].orig)
          /\ \A k \in Tasks : Known(manualOrig[k])
      BY DEF AllKnown
    <3> QED BY <3>2, <3>4, <3>5, <3>6 DEF AllKnown, Known
  <2>3. CASE Visit(t)
    <3>1. PICK q \in job[t].pairs :
            /\ UNCHANGED <<got, objs, manualOrig>>
            /\ \A i \in Tasks : saved'[i] = saved[i] \/ (i = q[1] /\ saved'[i] \in Value)
            /\ \A u \in Threads : u # t => patch'[u] = patch[u] /\ job'[u] = job[u]
            /\ patch'[t] # NoPatch => patch'[t].task = q[1] /\ (Manual => saved'[q[1]] \in Value)
      BY <2>3, Visited
    <3>2. \A v : Known(v) => Known(v)'
      BY <3>1, StaysKnown
    <3>3. ASSUME NEW u \in Threads, Manual, patch'[u] # NoPatch, job'[u].op # "unhook"
          PROVE  saved'[patch'[u].task] # Unset
      <4>1. CASE u = t
        BY <3>1, <3>3, <4>1, NotProxies
      <4>2. CASE u # t
        <5>1. saved[patch[u].task] # Unset /\ patch[u].task \in Tasks
          BY <3>1, <3>3, <4>2, EntryTyped DEF AllKnown, Patching
        <5> QED BY <3>1, <4>2, <5>1, NotProxies
      <4> QED BY <4>1, <4>2
    <3> QED BY <3>1, <3>2, <3>3 DEF AllKnown
  <2>4. CASE PatchStep(t)
    BY <2>4, SavedPatchStep
  <2>5. CASE /\ UNCHANGED <<bad, got, hooks, objs, manualOrig, saved, told>>
             /\ \A u \in Threads : u # t => patch'[u] = patch[u] /\ job'[u] = job[u]
             /\ patch'[t] # NoPatch => \/ patch'[t] = patch[t] /\ job'[t] = job[t]
                                       \/ job'[t].op = "unhook"
    BY <2>5 DEF AllKnown, Known
  <2> QED BY <2>1, <2>2, <2>3, <2>4, <2>5
<1> QED BY <1>1, <1>2

\* In manual mode a proxy can be called only after its callback was told which
\* function to call: bh_hook_manager_hook runs the callback before it patches,
\* and whatever an unhook writes back was read from an entry before that.
THEOREM SavedFirstHolds ==
    ASSUME OwnFuncs
    PROVE  Spec => []SavedFirst
<1>1. Init => AllKnown
  <2> SUFFICES ASSUME Init PROVE AllKnown
    OBVIOUS
  <2>1. \A g \in Gots : got[g] \notin Funcs
    BY NotProxies DEF Init
  <2>2. \A k \in Tasks : manualOrig[k] \notin Funcs
    BY NotProxies DEF Init
  <2>3. DOMAIN objs = {}
    BY DEF Init
  <2>4. \A t \in Threads : patch[t] = NoPatch
    BY DEF Init
  <2> QED BY <2>1, <2>2, <2>3, <2>4, NotProxies DEF AllKnown
<1>2. Common /\ AllKnown /\ [Next]_vars => AllKnown'
  BY SavedNext
<1>3. Common /\ AllKnown => SavedFirst
  <2> SUFFICES ASSUME Common, AllKnown, NEW e \in cache, NEW g \in Elements(GotsOf[e]), NEW k \in Tasks,
                      got[g] = FuncOf[k]
               PROVE  saved[k] # Unset
    BY DEF SavedFirst
  <2>1. g \in Gots
    BY EntriesOf DEF Common, TypeOK
  <2> QED BY <2>1 DEF AllKnown, Known
<1> QED BY <1>1, <1>2, <1>3, CommonInit, CommonNext, PTL DEF Spec

(***************************************************************************)
(* Automatic mode: what is behind a trampoline                               *)
(***************************************************************************)
LEMMA RightPatchStep ==
    ASSUME Automatic, Common, HooksRight, NEW t \in Threads, PatchStep(t)
    PROVE  HooksRight'
<1> DEFINE g == Entry(t)
<1>1. Patching(t)
  BY PatchGoesOn
<1>2. g \in Gots /\ Func(t) \in Funcs
  BY <1>1, EntryTyped
<1>3. /\ got \in [Gots -> Value] /\ objs \in Seq(Hook) /\ hooks \in [Gots -> 0 .. Len(objs)]
      /\ Len(objs) \in Nat /\ ~Manual /\ ~Bypass
  BY DEF Common, TypeOK, Automatic
<1>4. CASE UNCHANGED <<got, hooks, objs>>
  BY <1>4 DEF HooksRight
<1>5. CASE Create(t)
  <2> DEFINE o == [orig |-> got[g], enabled |-> {Func(t)}]
  <2>1. /\ objs' = Append(objs, o)
        /\ hooks' = [hooks EXCEPT ![g] = Len(objs) + 1]
        /\ got' = [got EXCEPT ![g] = Len(objs) + 1]
        /\ Verified(got[g])
    BY <1>5 DEF Create
  <2>2. got[g] = OrigOf[g]
    <3>1. got[g] \in Origs \cup Funcs
      BY <1>3, <2>1 DEF Verified
    <3> QED BY <1>2, <3>1 DEF HooksRight, HookManagerNames
  <2>3. o \in Hook /\ o.orig = OrigOf[g]
    BY <1>2, <2>2 DEF Hook
  <2> HIDE DEF o
  <2>4. /\ objs'[Len(objs) + 1] = o
        /\ \A i \in 1 .. Len(objs) : objs'[i] = objs[i]
    BY <1>2, <2>1, <2>3, NewHook
  <2>5. \A x \in Gots : got'[x] \in {OrigOf[x]} \cup Nat
    BY <1>2, <1>3, <2>1 DEF HooksRight
  <2>6. ASSUME NEW x \in Gots, hooks'[x] # 0 PROVE objs'[hooks'[x]].orig = OrigOf[x]
    <3>1. CASE x = g
      BY <1>2, <1>3, <2>1, <2>3, <2>4, <3>1
    <3>2. CASE x # g
      <4>1. hooks'[x] = hooks[x]
        BY <1>2, <1>3, <2>1, <3>2
      <4>2. hooks[x] \in 1 .. Len(objs)
        BY <2>6, <4>1, HookTyped
      <4> QED BY <2>4, <2>6, <4>1, <4>2 DEF HooksRight
    <3> QED BY <3>1, <3>2
  <2> QED BY <2>5, <2>6 DEF HooksRight
<1>6. CASE Join(t) \/ Leave(t)
  <2>1. PICK s \in SUBSET Funcs :
          /\ hooks[g] # 0
          /\ objs' = [objs EXCEPT ![hooks[g]].enabled = s]
          /\ got' = got \/ got' = [got EXCEPT ![g] = objs[hooks[g]].orig]
          /\ hooks' = hooks \/ hooks' = [hooks EXCEPT ![g] = 0]
    <3>1. CASE Join(t)
      <4>1. /\ hooks[g] # 0 /\ got' = got /\ hooks' = hooks
            /\ objs' = [objs EXCEPT ![hooks[g]].enabled = objs[hooks[g]].enabled \cup {Func(t)}]
        BY <3>1 DEF Join
      <4>2. objs[hooks[g]].enabled \cup {Func(t)} \in SUBSET Funcs
        BY <1>2, <4>1, HookTyped
      <4> QED BY <4>1, <4>2
    <3>2. CASE Leave(t)
      <4>1. /\ hooks[g] # 0
            /\ got' = got \/ got' = [got EXCEPT ![g] = objs[hooks[g]].orig]
            /\ hooks' = hooks \/ hooks' = [hooks EXCEPT ![g] = 0]
            /\ objs' = [objs EXCEPT ![hooks[g]].enabled = objs[hooks[g]].enabled \ {Func(t)}]
        BY <3>2 DEF Leave
      <4>2. objs[hooks[g]].enabled \ {Func(t)} \in SUBSET Funcs
        BY <1>2, <4>1, HookTyped
      <4> QED BY <4>1, <4>2
    <3> QED BY <1>6, <3>1, <3>2
  <2>2. hooks[g] \in 1 .. Len(objs) /\ objs[hooks[g]].orig = OrigOf[g]
    BY <1>2, <2>1, HookTyped DEF HooksRight
  <2>3. \A i \in 1 .. Len(objs) : objs'[i].orig = objs[i].orig
    BY <2>1, <2>2, SameHooks
  <2>4. \A x \in Gots : got'[x] \in {OrigOf[x]} \cup Nat
    BY <1>2, <1>3, <2>1, <2>2 DEF HooksRight
  <2>5. ASSUME NEW x \in Gots, hooks'[x] # 0 PROVE objs'[hooks'[x]].orig = OrigOf[x]
    <3>1. hooks'[x] = hooks[x]
      BY <1>2, <1>3, <2>1, <2>5
    <3>2. hooks[x] \in 1 .. Len(objs)
      BY <2>5, <3>1, HookTyped
    <3> QED BY <2>3, <2>5, <3>1, <3>2 DEF HooksRight
  <2> QED BY <2>4, <2>5 DEF HooksRight
<1> QED BY <1>3, <1>4, <1>5, <1>6 DEF PatchStep, Fault, CreateFails, Undone, LeaveNothing, Replace,
                                      ReplaceFails, Restore, gotVars

LEMMA RightNext ==
    ASSUME Automatic, Common, HooksRight, [Next]_vars
    PROVE  HooksRight'
<1>1. CASE UNCHANGED vars
  BY <1>1 DEF vars, gotVars, HooksRight
<1>2. CASE Next
  <2>1. PICK t \in Threads :
             \/ \E e \in Elfs : Load(t, e)
             \/ Visit(t)
             \/ PatchStep(t)
             \/ UNCHANGED <<got, hooks, objs>>
    BY <1>2, KindsOfSteps
  <2>2. CASE \E e \in Elfs : Load(t, e)
    <3>1. /\ \A g \in Gots : got'[g] = got[g] \/ got'[g] = OrigOf[g]
          /\ UNCHANGED <<hooks, objs>>
      BY <2>2 DEF Load
    <3> QED BY <3>1 DEF HooksRight
  <2>3. CASE Visit(t)
    <3>1. UNCHANGED <<got, hooks, objs>>
      BY <2>3, Visited
    <3> QED BY <3>1 DEF HooksRight
  <2>4. CASE PatchStep(t)
    BY <2>4, RightPatchStep
  <2>5. CASE UNCHANGED <<got, hooks, objs>>
    BY <2>5 DEF HooksRight
  <2> QED BY <2>1, <2>2, <2>3, <2>4, <2>5
<1> QED BY <1>1, <1>2

LEMMA RightInit == Init => HooksRight
BY DEF Init, HooksRight

\* Behind the trampoline of every entry there is the function that the linker
\* put there (bh_hook_manager.cpp): an entry is hooked only while it holds that
\* function, and a restore that failed leaves a trampoline, which nothing verifies.
THEOREM LeadsToOrigHolds ==
    ASSUME Automatic
    PROVE  Spec => []LeadsToOrig
<1>1. Common /\ HooksRight => LeadsToOrig
  <2> SUFFICES ASSUME Common, HooksRight, NEW e \in cache, NEW g \in Elements(GotsOf[e]), hooks[g] # 0
               PROVE  objs[hooks[g]].orig = OrigOf[g]
    BY DEF LeadsToOrig
  <2>1. g \in Gots
    BY EntriesOf DEF Common, TypeOK
  <2> QED BY <2>1 DEF HooksRight
<1>2. Common /\ HooksRight /\ [Next]_vars => HooksRight'
  BY RightNext
<1> QED BY <1>1, <1>2, RightInit, CommonInit, CommonNext, PTL DEF Spec

(***************************************************************************)
(* Automatic mode: OK means hooked                                           *)
(***************************************************************************)
\* What the work on one entry does to the entries, and to who is enabled there.
LEMMA EntryEffect ==
    ASSUME Automatic, Common, HooksRight, HooksStand, NEW t \in Threads, PatchStep(t),
           NEW g \in Gots, g = Entry(t), NEW f \in Funcs, f = Func(t)
    PROVE  /\ HooksStand'
           /\ bad \subseteq bad'
           /\ \A x \in Gots : x # g => hooks'[x] = hooks[x] /\ Enabled(x)' = Enabled(x)
           /\ \A y : y # f => (y \in Enabled(g) <=> y \in Enabled(g)')
           /\ job[t].op = "unhook" => f \notin Enabled(g)' \/ patch[t].elf \in bad'
           /\ job[t].op = "unhook" /\ hooks'[g] # 0 => hooks[g] # 0
           /\ job[t].op # "unhook" /\ f \in Enabled(g) => f \in Enabled(g)'
           /\ job[t].op = "unhook" /\ f \in Enabled(g)' => f \in Enabled(g)
           /\ \E good \in BOOLEAN :
                /\ After(t, good)
                /\ good /\ job[t].op # "unhook" => f \in Enabled(g)'
<1>2. g \in Gots /\ f \in Funcs
  OBVIOUS
<1>3. /\ got \in [Gots -> Value] /\ objs \in Seq(Hook) /\ hooks \in [Gots -> 0 .. Len(objs)]
      /\ Len(objs) \in Nat /\ ~Manual /\ ~Bypass
  BY DEF Common, TypeOK, Automatic
<1>4. ASSUME UNCHANGED <<got, hooks, objs>>, bad \subseteq bad', After(t, FALSE),
             job[t].op = "unhook" => hooks[g] = 0 \/ patch[t].elf \in bad'
      PROVE  /\ HooksStand'
             /\ \A x \in Gots : Enabled(x)' = Enabled(x)
             /\ job[t].op = "unhook" => f \notin Enabled(g)' \/ patch[t].elf \in bad'
  BY <1>2, <1>4 DEF HooksStand, Enabled
<1>5. CASE Fault(t)
  <2>1. /\ UNCHANGED <<got, hooks, objs>> /\ bad \subseteq bad' /\ After(t, FALSE)
        /\ patch[t].elf \in bad'
    BY <1>5 DEF Fault, gotVars
  <2> QED BY <1>2, <1>4, <2>1
<1>6. CASE CreateFails(t)
  <2>1. /\ UNCHANGED <<got, hooks, objs>> /\ bad \subseteq bad' /\ After(t, FALSE)
        /\ job[t].op # "unhook"
    BY <1>6 DEF CreateFails, Undone, AtEntry
  <2> QED BY <1>2, <1>4, <2>1
<1>7. CASE LeaveNothing(t)
  <2>1. /\ UNCHANGED <<got, hooks, objs>> /\ bad \subseteq bad' /\ After(t, FALSE)
        /\ hooks[g] = 0
    BY <1>7 DEF LeaveNothing, gotVars
  <2> QED BY <1>2, <1>4, <2>1
<1>8. CASE Create(t)
  <2> DEFINE n == Len(objs) + 1
             o == [orig |-> got[g], enabled |-> {f}]
  <2>1. /\ objs' = Append(objs, o) /\ hooks' = [hooks EXCEPT ![g] = n]
        /\ got' = [got EXCEPT ![g] = n] /\ bad' = bad
        /\ hooks[g] = 0 /\ Verified(got[g])
        /\ After(t, TRUE) /\ job[t].op # "unhook"
    BY <1>8 DEF Create, AtEntry
  <2>2. o \in Hook /\ o.enabled = {f}
    <3>1. got[g] \in Origs \cup Nat
      BY <1>2, <1>3 DEF HooksRight
    <3> QED BY <1>2, <3>1 DEF Hook
  <2> HIDE DEF o
  <2>3. /\ objs'[n] = o /\ \A i \in 1 .. Len(objs) : objs'[i] = objs[i]
        /\ n \in Nat /\ n # 0
    BY <1>2, <1>3, <2>1, <2>2, NewHook
  <2>4. hooks'[g] = n /\ got'[g] = n /\ Enabled(g)' = {f} /\ Enabled(g) = {}
    BY <1>2, <1>3, <2>1, <2>2, <2>3 DEF Enabled
  <2>5. ASSUME NEW x \in Gots, x # g
        PROVE  hooks'[x] = hooks[x] /\ got'[x] = got[x] /\ Enabled(x)' = Enabled(x)
               /\ (hooks[x] # 0 => hooks[x] # n)
    <3>1. hooks'[x] = hooks[x] /\ got'[x] = got[x]
      BY <1>2, <1>3, <2>1, <2>5
    <3>2. hooks[x] # 0 => hooks[x] \in 1 .. Len(objs)
      BY HookTyped
    <3> QED BY <1>3, <2>3, <3>1, <3>2 DEF Enabled
  <2> HIDE DEF n
  <2>6. HooksStand'
    <3>1. ASSUME NEW x \in Gots, hooks'[x] # 0 PROVE got'[x] = hooks'[x]
      BY <2>4, <2>5, <3>1 DEF HooksStand
    <3>2. ASSUME NEW x \in Gots, NEW y \in Gots, hooks'[x] # 0, hooks'[x] = hooks'[y] PROVE x = y
      <4>1. CASE x = g \/ y = g
        BY <2>3, <2>4, <2>5, <3>2, <4>1
      <4>2. CASE x # g /\ y # g
        BY <2>5, <3>2, <4>2 DEF HooksStand
      <4> QED BY <4>1, <4>2
    <3> QED BY <3>1, <3>2 DEF HooksStand
  <2> QED BY <2>1, <2>4, <2>5, <2>6
<1>9. CASE Join(t)
  <2> DEFINE s == objs[hooks[g]].enabled \cup {f}
  <2>1. /\ hooks[g] # 0 /\ objs' = [objs EXCEPT ![hooks[g]].enabled = s]
        /\ UNCHANGED <<bad, got, hooks>> /\ job[t].op # "unhook"
        /\ After(t, f \notin objs[hooks[g]].enabled)
    BY <1>9 DEF Join, AtEntry
  <2>2. hooks[g] \in 1 .. Len(objs) /\ s \in SUBSET Funcs
    BY <1>2, <2>1, HookTyped
  <2> HIDE DEF s
  <2>3. \A i \in 1 .. Len(objs) : objs'[i].enabled = IF i = hooks[g] THEN s ELSE objs[i].enabled
    BY <2>1, <2>2, SameHooks
  <2>4. Enabled(g)' = s /\ s = Enabled(g) \cup {f}
    BY <2>1, <2>2, <2>3 DEF Enabled, s
  <2>5. ASSUME NEW x \in Gots, x # g PROVE Enabled(x)' = Enabled(x)
    <3>1. hooks[x] # 0 => hooks[x] \in 1 .. Len(objs) /\ hooks[x] # hooks[g]
      BY <1>2, <2>5, HookTyped DEF HooksStand
    <3> QED BY <2>1, <2>3, <3>1 DEF Enabled
  <2>6. HooksStand'
    BY <2>1 DEF HooksStand
  <2>7. PICK good \in BOOLEAN : After(t, good)
    BY PatchGoesOn
  <2>8. f \in Enabled(g)' /\ \A y : y # f => (y \in Enabled(g) <=> y \in Enabled(g)')
    BY <2>4
  <2> HIDE DEF s
  <2> QED BY <2>1, <2>5, <2>6, <2>7, <2>8
<1>10. CASE Leave(t)
  <2> DEFINE s == objs[hooks[g]].enabled \ {f}
  <2>1. /\ hooks[g] # 0 /\ objs' = [objs EXCEPT ![hooks[g]].enabled = s]
        /\ bad \subseteq bad' /\ job[t].op = "unhook"
        /\ \/ hooks' = hooks /\ got' = got
           \/ /\ hooks' = [hooks EXCEPT ![g] = 0] /\ s = {}
              /\ got' = got \/ got' = [got EXCEPT ![g] = objs[hooks[g]].orig]
    BY <1>10 DEF Leave, AtEntry
  <2>2. hooks[g] \in 1 .. Len(objs) /\ s \in SUBSET Funcs
    BY <1>2, <2>1, HookTyped
  <2> HIDE DEF s
  <2>3. \A i \in 1 .. Len(objs) : objs'[i].enabled = IF i = hooks[g] THEN s ELSE objs[i].enabled
    BY <2>1, <2>2, SameHooks
  <2>4. Enabled(g)' = s /\ s = Enabled(g) \ {f}
    <3>1. s = Enabled(g) \ {f}
      BY <2>1 DEF Enabled, s
    <3>2. CASE hooks' = hooks
      BY <2>1, <2>2, <2>3, <3>1, <3>2 DEF Enabled
    <3>3. CASE hooks' = [hooks EXCEPT ![g] = 0] /\ s = {}
      <4>1. hooks'[g] = 0
        BY <1>2, <1>3, <3>3
      <4> QED BY <3>1, <3>3, <4>1 DEF Enabled
    <3> QED BY <2>1, <3>2, <3>3
  <2>5. ASSUME NEW x \in Gots, x # g
        PROVE  hooks'[x] = hooks[x] /\ got'[x] = got[x] /\ Enabled(x)' = Enabled(x)
    <3>1. hooks[x] # 0 => hooks[x] \in 1 .. Len(objs) /\ hooks[x] # hooks[g]
      BY <1>2, <2>5, HookTyped DEF HooksStand
    <3>2. hooks'[x] = hooks[x] /\ got'[x] = got[x]
      BY <1>2, <1>3, <2>1, <2>5
    <3> QED BY <2>3, <3>1, <3>2 DEF Enabled
  <2>6. hooks'[g] # 0 => hooks'[g] = hooks[g] /\ got'[g] = got[g]
    BY <1>2, <1>3, <2>1
  <2>7. HooksStand'
    <3>1. \A x \in Gots : hooks'[x] # 0 => hooks'[x] = hooks[x] /\ got'[x] = got[x]
      BY <2>5, <2>6
    <3> QED BY <3>1 DEF HooksStand
  <2>8. \E good \in BOOLEAN : After(t, good)
    BY PatchGoesOn
  <2> QED BY <2>1, <2>4, <2>5, <2>7, <2>8
<1> QED BY <1>3, <1>5, <1>6, <1>7, <1>8, <1>9, <1>10 DEF PatchStep, Replace, ReplaceFails, Restore

\* What every step does to the cache, the task list and new tasks.
LEMMA ListsGoOn ==
    ASSUME Common, Next
    PROVE  /\ \A e \in Elfs : Seen(e) => Seen(e)'
           /\ \A e \in cache' \ cache : e \in Elfs /\ ~Seen(e)
           /\ \A k \in listed' \ listed : k \in Tasks /\ status[k] = "new"
           /\ \A k \in Tasks : status'[k] = "new" => status[k] = "new"
<1>1. PICK t \in Threads :
        \/ \E e \in Elfs : Load(t, e) \/ Close(t, e)
        \/ \E k \in Tasks : HookCall(t, k) \/ UnhookCall(t, k)
        \/ Refresh(t) \/ BeginHook(t) \/ BeginUnhook(t) \/ NextElf(t) \/ Finish(t)
        \/ Visit(t) \/ HookCfi(t) \/ VisitUnhook(t)
        \/ PatchStep(t)
  BY DEF Next, PatchStep
<1>2. /\ cache \subseteq Linked /\ cache \subseteq Elfs /\ Linked \subseteq Elfs
      /\ life \in [Elfs -> {"new", "linked", "gone"}]
      /\ status \in [Tasks -> {"new", "unfinished", "finished", "longterm", "unlisted",
                               "unhooking", "destroyed", "unmatched"}]
      /\ \A e \in Linked : life[e] = "linked"
  BY DEF Common, TypeOK, Linked
<1>3. CASE UNCHANGED <<life, cache, listed>> /\ \A k \in Tasks : status'[k] = "new" => status[k] = "new"
  BY <1>3 DEF Seen
<1>4. CASE \E e \in Elfs : Load(t, e)
  <2>1. PICK e \in Elfs : Load(t, e)
    BY <1>4
  <2>2. life[e] = "new" /\ life' = [life EXCEPT ![e] = "linked"] /\ UNCHANGED <<cache, listed, status>>
    BY <2>1 DEF Load, taskVars
  <2> QED BY <1>2, <2>2 DEF Seen
<1>5. CASE \E e \in Elfs : Close(t, e)
  <2>1. PICK e \in Elfs : Close(t, e)
    BY <1>5
  <2>2. /\ e \in Linked /\ life' = [life EXCEPT ![e] = "gone"] /\ cache' = Linked \ {e}
        /\ UNCHANGED <<listed, status>>
    BY <2>1 DEF Close, taskVars
  <2>3. \A d \in Elfs : Seen(d) => Seen(d)'
    BY <1>2, <2>2 DEF Seen
  <2>4. \A d \in cache' \ cache : d \in Elfs /\ ~Seen(d)
    BY <1>2, <2>2 DEF Seen
  <2> QED BY <2>2, <2>3, <2>4
<1>6. CASE Refresh(t)
  <2>1. cache' = Linked /\ UNCHANGED <<life, listed, status>>
    BY <1>6 DEF Refresh, taskVars
  <2> QED BY <1>2, <2>1 DEF Seen
<1>7. CASE \E k \in Tasks : HookCall(t, k)
  <2>1. PICK k \in Tasks : HookCall(t, k)
    BY <1>7
  <2>2. /\ status[k] = "new" /\ listed' = listed \cup {k} /\ UNCHANGED <<life, cache>>
        /\ \E s \in {"unfinished", "longterm"} : status' = [status EXCEPT ![k] = s]
    BY <2>1 DEF HookCall, elfVars
  <2> QED BY <1>2, <2>2 DEF Seen
<1>8. CASE \E k \in Tasks : UnhookCall(t, k)
  <2>1. PICK k \in Tasks : UnhookCall(t, k)
    BY <1>8
  <2>2. /\ listed' = listed \ {k} /\ UNCHANGED <<life, cache>>
        /\ status' = [status EXCEPT ![k] = "unlisted"]
    BY <2>1 DEF UnhookCall, Unlisted, elfVars
  <2> QED BY <1>2, <2>2 DEF Seen
<1>9. CASE BeginHook(t) \/ NextElf(t) \/ HookCfi(t) \/ VisitUnhook(t)
  <2>1. UNCHANGED <<life, cache, listed, status>>
    BY <1>9 DEF BeginHook, NextElf, HookCfi, VisitUnhook, elfVars, taskVars
  <2> QED BY <1>3, <2>1
<1>10. CASE BeginUnhook(t)
  <2>1. /\ UNCHANGED <<life, cache, listed>>
        /\ \E k \in Tasks, s \in {"destroyed", "unmatched", "unhooking"} :
              status' = [status EXCEPT ![k] = s]
    BY <1>10, JobFields DEF BeginUnhook, elfVars
  <2> QED BY <1>2, <1>3, <2>1
<1>11. CASE Finish(t)
  <2>1. /\ UNCHANGED <<life, cache, listed>>
        /\ \A k \in Tasks : status'[k] \in {"destroyed", status[k]}
    BY <1>11 DEF Finish, elfVars
  <2> QED BY <1>3, <2>1
<1>12. CASE Visit(t)
  <2>1. /\ UNCHANGED <<life, cache, listed>>
        /\ \A k \in Tasks : status'[k] \in {"finished", status[k]}
    BY <1>12, Visited
  <2> QED BY <1>3, <2>1
<1>13. CASE PatchStep(t)
  <2>1. \E good \in BOOLEAN : Patching(t) /\ After(t, good)
    BY <1>13, PatchGoesOn
  <2>2. /\ UNCHANGED <<life, cache, listed>>
        /\ \A k \in Tasks : status'[k] \in {"finished", status[k]}
    BY <2>1, AfterEffect
  <2> QED BY <1>3, <2>2
<1> QED BY <1>1, <1>4, <1>5, <1>6, <1>7, <1>8, <1>9, <1>10, <1>11, <1>12, <1>13

\* An entry reaches a proxy if and only if the hook it stands in has it enabled.
LEMMA ReachesEnabled ==
    ASSUME Automatic, Common, HooksStand, NEW x \in Gots, NEW k \in Tasks
    PROVE  Reaches(x, FuncOf[k]) <=> FuncOf[k] \in Enabled(x)
<1>1. got[x] # FuncOf[k]
  BY DEF Automatic, Common, NoProxyInGot
<1> QED BY <1>1 DEF Reaches, Enabled, HooksStand

LEMMA EnabledReaches ==
    ASSUME HooksStand', NEW x \in Gots, NEW f, f \in Enabled(x)'
    PROVE  Reaches(x, f)'
BY DEF Reaches, Enabled, HooksStand

\* The task a thread hooks is on the list; no task that it unhooks is.
LEMMA WhoseWork ==
    ASSUME Common, NEW t \in Threads, Patching(t)
    PROVE  /\ patch[t].task \in Tasks
           /\ job[t].op # "unhook" => patch[t].task \in listed
           /\ job[t].op = "unhook" => patch[t].task \notin listed /\ patch[t].task \in job[t].own
<1>1. patch[t].task \in Tasks /\ job[t].op # "none"
  BY EntryTyped
<1> QED BY <1>1, JobFields, KindsApart DEF Common, TasksRight, Patching

LEMMA HookingPatchStep ==
    ASSUME Automatic, Apart, OwnFuncs, Hooking, NEW t \in Threads, PatchStep(t)
    PROVE  Hooking'
<1> DEFINE p == patch[t]
<1>1. Patching(t) /\ Common /\ HooksRight /\ HooksStand
  BY PatchGoesOn DEF Hooking
<1>2. PICK g \in Gots : g = Entry(t)
  BY <1>1, EntryTyped
<1>3. PICK f \in Funcs : f = Func(t)
  BY <1>1, EntryTyped
<1>4. /\ HooksStand'
      /\ \A x \in Gots : x # g => hooks'[x] = hooks[x] /\ Enabled(x)' = Enabled(x)
      /\ \A y : y # f => (y \in Enabled(g) <=> y \in Enabled(g)')
      /\ job[t].op = "unhook" /\ hooks'[g] # 0 => hooks[g] # 0
      /\ job[t].op # "unhook" /\ f \in Enabled(g) => f \in Enabled(g)'
  BY <1>1, <1>2, <1>3, EntryEffect
<1>5. PICK good \in BOOLEAN :
        After(t, good) /\ (good /\ job[t].op # "unhook" => f \in Enabled(g)')
  BY <1>1, <1>2, <1>3, EntryEffect
<1>6. /\ UNCHANGED <<life, cache, listed, job>>
      /\ \A u \in Threads : u # t => patch'[u] = patch[u]
      /\ p \in Patch /\ p.gots # <<>>
      /\ Len(p.gots) = 1 => patch'[t] = NoPatch
      /\ Len(p.gots) # 1 =>
           /\ patch'[t].elf = p.elf
           /\ patch'[t].task = p.task
           /\ patch'[t].gots = Tail(p.gots)
           /\ patch'[t].ok = (p.ok /\ good)
      /\ \A k \in Tasks, e \in Elfs : <<e, "OK">> \in told'[k] =>
           \/ <<e, "OK">> \in told[k]
           \/ /\ job[t].op # "unhook" /\ k = p.task /\ e = p.elf
              /\ good /\ p.ok /\ Len(p.gots) = 1
  BY <1>1, <1>5, AfterEffect
<1>7. /\ Head(p.gots) = g /\ g \in Elements(p.gots)
      /\ Elements(p.gots) \subseteq {g} \cup Elements(Tail(p.gots))
      /\ Len(p.gots) = 1 => Elements(p.gots) = {g}
      /\ Elements(p.gots) \subseteq Elements(GotsOf[p.elf])
      /\ p.elf \in Elfs /\ p.elf \in cache
      /\ p.task \in Tasks /\ f = FuncOf[p.task]
  <2>1. p.gots \in Seq(Gots) /\ p.elf \in Elfs /\ p.task \in Tasks
    BY <1>6 DEF Patch
  <2>2. Elements(p.gots) \subseteq Elements(GotsOf[p.elf]) /\ p.elf \in cache
    BY <1>1 DEF Common, InHand, Patching
  <2>3. Head(p.gots) = g /\ f = FuncOf[p.task]
    BY <1>2, <1>3 DEF Entry, Func
  <2> HIDE DEF p
  <2> QED BY <1>6, <2>1, <2>2, <2>3, RestOfEntries
<1>8. Common' /\ HooksRight'
  BY <1>1, CommonPatchStep, RightPatchStep
<1> HIDE DEF p
<1>9. ASSUME NEW k \in listed, NEW x \in Gots, FuncOf[k] \in Enabled(x)
      PROVE  FuncOf[k] \in Enabled(x)'
  <2>1. k \in Tasks
    BY <1>1 DEF Common, TypeOK
  <2>2. FuncOf[k] = f => k = p.task
    BY <1>7, <2>1 DEF OwnFuncs
  <2>3. k = p.task => job[t].op # "unhook"
    BY <1>1, <1>9, WhoseWork DEF p
  <2> QED BY <1>4, <1>9, <2>2, <2>3
<1>10. \A e \in Elfs : Seen(e)' <=> Seen(e)
  BY <1>6 DEF Seen
<1>11. SeenFirst'
  <2>1. ASSUME NEW e \in Elfs, NEW x \in Elements(GotsOf[e]), hooks'[x] # 0 PROVE Seen(e)'
    <3>1. x \in Gots
      BY EntriesOf
    <3>2. CASE x = g
      <4>1. e = p.elf
        BY <1>7, <2>1, <3>2 DEF Apart
      <4> QED BY <1>6, <1>7, <4>1 DEF Seen
    <3>3. CASE x # g
      BY <1>4, <1>10, <2>1, <3>1, <3>3 DEF Hooking, SeenFirst
    <3> QED BY <3>2, <3>3
  <2>2. ASSUME NEW e \in Elfs, NEW k \in Tasks, <<e, "OK">> \in told'[k]
        PROVE  Seen(e)' /\ status'[k] # "new"
    <3>1. CASE <<e, "OK">> \in told[k]
      <4>1. Seen(e) /\ status[k] # "new"
        BY <3>1 DEF Hooking, SeenFirst
      <4>2. Next
        BY DEF Next, PatchStep
      <4> QED BY <1>1, <1>10, <4>1, <4>2, ListsGoOn
    <3>2. CASE job[t].op # "unhook" /\ k = p.task /\ e = p.elf
      <4>1. k \in listed'
        BY <1>1, <1>6, <3>2, WhoseWork DEF p
      <4>2. status'[k] \in Listed
        BY <1>8, <4>1, KindsApart DEF Common, ListRight
      <4> QED BY <1>6, <1>7, <3>2, <4>2 DEF Seen, Listed
    <3> QED BY <1>6, <2>2, <3>1, <3>2
  <2> QED BY <2>1, <2>2 DEF SeenFirst
<1>12. ReportsRight'
  <2> SUFFICES ASSUME NEW k \in listed', NEW e \in Elfs, <<e, "OK">> \in told'[k],
                      NEW x \in Elements(GotsOf[e])
               PROVE  Reaches(x, FuncOf[k])'
    BY DEF ReportsRight
  <2>1. x \in Gots /\ k \in listed /\ k \in Tasks
    BY <1>1, <1>6, EntriesOf DEF Common, TypeOK
  <2>2. CASE <<e, "OK">> \in told[k]
    <3>1. FuncOf[k] \in Enabled(x)
      BY <1>1, <2>1, <2>2, ReachesEnabled DEF Hooking, ReportsRight
    <3> QED BY <1>4, <1>9, <2>1, <3>1, EnabledReaches
  <2>3. CASE job[t].op # "unhook" /\ k = p.task /\ e = p.elf /\ good /\ p.ok /\ Len(p.gots) = 1
    <3>1. CASE x = g
      <4>1. FuncOf[k] \in Enabled(x)'
        BY <1>5, <1>7, <2>3, <3>1
      <4> QED BY <1>4, <2>1, <4>1, EnabledReaches
    <3>2. CASE x # g
      <4>1. SoFarRight(t)
        BY DEF Hooking
      <4>2. Reaches(x, FuncOf[k])
        BY <1>1, <1>7, <2>3, <3>2, <4>1 DEF SoFarRight, Patching, p
      <4>3. FuncOf[k] \in Enabled(x)
        BY <1>1, <2>1, <4>2, ReachesEnabled
      <4> QED BY <1>4, <1>9, <2>1, <4>3, EnabledReaches
    <3> QED BY <3>1, <3>2
  <2> QED BY <1>6, <2>1, <2>2, <2>3
<1>13. ASSUME NEW u \in Threads PROVE SoFarRight(u)'
  <2> SUFFICES ASSUME patch'[u] # NoPatch, job'[u].op # "unhook"
               PROVE  /\ patch'[u].elf \in Callers[patch'[u].task]
                      /\ patch'[u].ok =>
                          \A x \in Elements(GotsOf[patch'[u].elf]) \ Elements(patch'[u].gots) :
                              x \in Gots /\ FuncOf[patch'[u].task] \in Enabled(x)'
    BY <1>4 DEF SoFarRight, Reaches, Enabled, HooksStand
  <2>1. SoFarRight(u) /\ patch[u] # NoPatch
    BY <1>1, <1>6 DEF Hooking, Patching
  <2>2. /\ patch'[u].elf = patch[u].elf /\ patch'[u].task = patch[u].task
        /\ patch'[u].ok => patch[u].ok
        /\ job'[u] = job[u]
    BY <1>6 DEF p
  <2>3. patch[u].task \in listed /\ patch[u].task \in Tasks /\ patch[u].elf \in Elfs
    BY <1>1, <2>1, <2>2, WhoseWork, EntryTyped DEF Patching, Patch
  <2>4. ASSUME patch'[u].ok, NEW x \in Elements(GotsOf[patch[u].elf]), x \notin Elements(patch'[u].gots)
        PROVE  FuncOf[patch[u].task] \in Enabled(x)'
    <3>1. x \in Gots
      BY <2>3, EntriesOf
    <3>2. CASE x \notin Elements(patch[u].gots)
      <4>1. Reaches(x, FuncOf[patch[u].task])
        BY <2>1, <2>2, <2>4, <3>2 DEF SoFarRight
      <4> QED BY <1>1, <1>9, <2>3, <3>1, <4>1, ReachesEnabled
    <3>3. CASE x \in Elements(patch[u].gots)
      <4>1. u = t /\ Len(p.gots) # 1
        BY <1>6, <2>4, <3>3 DEF p
      <4>2. x = g /\ good
        BY <1>6, <1>7, <2>4, <3>3, <4>1 DEF p
      <4> QED BY <1>5, <1>7, <2>2, <4>1, <4>2 DEF p
    <3> QED BY <3>2, <3>3
  <2>5. patch[u].elf \in Callers[patch[u].task]
    BY <2>1, <2>2 DEF SoFarRight
  <2> QED BY <2>2, <2>3, <2>4, <2>5, EntriesOf
<1> QED BY <1>4, <1>8, <1>11, <1>12, <1>13 DEF Hooking

\* A step that leaves the hooks alone.
LEMMA HookingOtherStep ==
    ASSUME Automatic, Hooking, Next, Common', HooksRight', HooksStand',
           UNCHANGED <<hooks, objs>>,
           \A k \in Tasks, e \in Elfs : <<e, "OK">> \in told'[k] => <<e, "OK">> \in told[k],
           \A u \in Threads : patch'[u] # NoPatch /\ job'[u].op # "unhook" =>
              \/ patch'[u] = patch[u] /\ job[u].op # "unhook"
              \/ patch'[u].elf \in Callers[patch'[u].task] /\ patch'[u].gots = GotsOf[patch'[u].elf]
    PROVE  Hooking'
<1>1. Common /\ HooksRight /\ HooksStand /\ SeenFirst /\ ReportsRight
  BY DEF Hooking
<1>2. \A x \in Gots : Enabled(x)' = Enabled(x)
  BY DEF Enabled
<1>3. SeenFirst'
  <2>1. /\ \A e \in Elfs : Seen(e) => Seen(e)'
        /\ \A k \in Tasks : status'[k] = "new" => status[k] = "new"
    BY <1>1, ListsGoOn
  <2> QED BY <1>1, <2>1 DEF SeenFirst
<1>4. ASSUME NEW x \in Gots, NEW k \in Tasks, Reaches(x, FuncOf[k]) PROVE Reaches(x, FuncOf[k])'
  BY <1>1, <1>2, <1>4, ReachesEnabled, EnabledReaches
<1>5. ReportsRight'
  <2> SUFFICES ASSUME NEW k \in listed', NEW e \in Elfs, <<e, "OK">> \in told'[k],
                      NEW x \in Elements(GotsOf[e])
               PROVE  Reaches(x, FuncOf[k])'
    BY DEF ReportsRight
  <2>1. k \in Tasks /\ x \in Gots
    BY EntriesOf DEF Common, TypeOK
  <2>2. <<e, "OK">> \in told[k]
    BY <2>1
  <2>3. k \in listed
    BY <1>1, <2>1, <2>2, ListsGoOn DEF SeenFirst
  <2> QED BY <1>1, <1>4, <2>1, <2>2, <2>3 DEF ReportsRight
<1>6. ASSUME NEW u \in Threads PROVE SoFarRight(u)'
  <2> SUFFICES ASSUME patch'[u] # NoPatch, job'[u].op # "unhook"
               PROVE  /\ patch'[u].elf \in Callers[patch'[u].task]
                      /\ patch'[u].ok =>
                          \A x \in Elements(GotsOf[patch'[u].elf]) \ Elements(patch'[u].gots) :
                              x \in Gots /\ FuncOf[patch'[u].task] \in Enabled(x)'
    BY DEF SoFarRight, Reaches, Enabled, HooksStand
  <2>1. CASE patch'[u] = patch[u] /\ job[u].op # "unhook"
    <3>1. SoFarRight(u) /\ patch[u] # NoPatch
      BY <2>1 DEF Hooking
    <3>2. patch[u].task \in Tasks /\ patch[u].elf \in Elfs
      BY <1>1, <3>1, EntryTyped DEF Patching, Patch
    <3>3. ASSUME patch[u].ok, NEW x \in Elements(GotsOf[patch[u].elf]) \ Elements(patch[u].gots)
          PROVE  x \in Gots /\ FuncOf[patch[u].task] \in Enabled(x)'
      <4>1. x \in Gots /\ Reaches(x, FuncOf[patch[u].task])
        BY <2>1, <3>1, <3>2, <3>3, EntriesOf DEF SoFarRight
      <4> QED BY <1>1, <1>2, <3>2, <4>1, ReachesEnabled
    <3>4. patch[u].elf \in Callers[patch[u].task]
      BY <2>1, <3>1 DEF SoFarRight
    <3> QED BY <2>1, <3>3, <3>4
  <2>2. CASE patch'[u].elf \in Callers[patch'[u].task] /\ patch'[u].gots = GotsOf[patch'[u].elf]
    BY <2>2
  <2> QED BY <2>1, <2>2
<1> QED BY <1>3, <1>5, <1>6 DEF Hooking

LEMMA HookingNext ==
    ASSUME Automatic, Apart, OwnFuncs, Hooking, [Next]_vars
    PROVE  Hooking'
<1>1. Common /\ HooksRight /\ HooksStand /\ SeenFirst
  BY DEF Hooking
<1>2. Common' /\ HooksRight'
  BY <1>1, CommonNext, RightNext
<1>3. CASE UNCHANGED vars
  <2>1. UNCHANGED <<life, cache, bad, cfi, got, hooks, objs, listed, status, manualOrig, saved, told,
                    job, patch>>
    BY <1>3 DEF vars, elfVars, gotVars, taskVars
  <2>2. HooksStand' /\ SeenFirst'
    BY <1>1, <2>1 DEF HooksStand, SeenFirst, Seen
  <2>3. ReportsRight'
    BY <2>1 DEF Hooking, ReportsRight, Reaches, Enabled
  <2>4. \A t \in Threads : SoFarRight(t)'
    BY <2>1 DEF Hooking, SoFarRight, Reaches, Enabled
  <2> QED BY <1>2, <2>2, <2>3, <2>4 DEF Hooking
<1>4. CASE Next
  <2>1. PICK t \in Threads :
             \/ \E e \in Elfs : Load(t, e)
             \/ Visit(t)
             \/ PatchStep(t)
             \/ /\ UNCHANGED <<bad, got, hooks, objs, manualOrig, saved, told>>
                /\ \A u \in Threads : u # t => patch'[u] = patch[u] /\ job'[u] = job[u]
                /\ patch'[t] # NoPatch => \/ patch'[t] = patch[t] /\ job'[t] = job[t]
                                          \/ job'[t].op = "unhook"
    BY <1>1, <1>4, KindsOfSteps
  <2>2. CASE \E e \in Elfs : Load(t, e)
    <3>1. PICK e \in Elfs : Load(t, e)
      BY <2>2
    <3>2. /\ life[e] = "new" /\ IsIdle(t)
          /\ got' = [x \in Gots |-> IF x \in Elements(GotsOf[e]) THEN OrigOf[x] ELSE got[x]]
          /\ job' = [job EXCEPT ![t] = Start("post", {})]
          /\ UNCHANGED <<hooks, objs, told, patch>>
      BY <3>1 DEF Load, taskVars
    <3>3. ~Seen(e)
      BY <1>1, <3>2 DEF Common, Linked, Seen
    <3>4. \A x \in Elements(GotsOf[e]) : hooks[x] = 0
      BY <1>1, <3>3 DEF SeenFirst
    <3>5. HooksStand'
      BY <1>1, <3>2, <3>4 DEF HooksStand
    <3>6. patch[t] = NoPatch
      BY <1>1, <3>2 DEF Common, InHand, IsIdle, NoJob
    <3>7. \A u \in Threads : u # t => job'[u] = job[u]
      BY <1>1, <3>2 DEF Common, TypeOK
    <3> QED BY <1>2, <1>4, <3>2, <3>5, <3>6, <3>7, HookingOtherStep
  <2>3. CASE Visit(t)
    <3>1. /\ UNCHANGED <<got, hooks, objs>>
          /\ \A k \in Tasks, e \in Elfs : <<e, "OK">> \in told'[k] => <<e, "OK">> \in told[k]
          /\ \A u \in Threads : u # t => patch'[u] = patch[u] /\ job'[u] = job[u]
          /\ patch'[t] # NoPatch =>
               patch'[t].elf \in Callers[patch'[t].task] /\ patch'[t].gots = GotsOf[patch'[t].elf]
      BY <1>1, <2>3, Visited
    <3>2. HooksStand'
      BY <1>1, <3>1 DEF HooksStand
    <3> QED BY <1>2, <1>4, <3>1, <3>2, HookingOtherStep
  <2>4. CASE PatchStep(t)
    BY <2>4, HookingPatchStep
  <2>5. CASE /\ UNCHANGED <<bad, got, hooks, objs, manualOrig, saved, told>>
             /\ \A u \in Threads : u # t => patch'[u] = patch[u] /\ job'[u] = job[u]
             /\ patch'[t] # NoPatch => \/ patch'[t] = patch[t] /\ job'[t] = job[t]
                                       \/ job'[t].op = "unhook"
    <3>1. HooksStand'
      BY <1>1, <2>5 DEF HooksStand
    <3> QED BY <1>2, <1>4, <2>5, <3>1, HookingOtherStep
  <2> QED BY <2>1, <2>2, <2>3, <2>4, <2>5
<1> QED BY <1>3, <1>4

LEMMA HookingInit == Init => Hooking
<1> SUFFICES ASSUME Init PROVE Hooking
  OBVIOUS
<1>1. \A g \in Gots : hooks[g] = 0
  BY DEF Init
<1>2. HooksStand
  BY <1>1 DEF HooksStand
<1>3. SeenFirst
  <2>1. \A e \in Elfs : \A x \in Elements(GotsOf[e]) : hooks[x] = 0
    BY <1>1, EntriesOf
  <2>2. \A k \in Tasks : told[k] = {}
    BY DEF Init
  <2> QED BY <2>1, <2>2 DEF SeenFirst
<1>4. ReportsRight /\ \A t \in Threads : SoFarRight(t)
  BY DEF Init, ReportsRight, SoFarRight
<1> QED BY <1>2, <1>3, <1>4, CommonInit, RightInit DEF Hooking

\* An ELF is reported to a task as hooked only if all its entries lead to the
\* proxy, and they do until the task is unhooked (bh_hook_manager_hook): however
\* the tasks and threads share the entries' hooks, and whatever write fails or
\* traps.  Libraries have entries of their own, and tasks their own functions.
THEOREM OkMeansHookedHolds ==
    ASSUME Automatic, Apart, OwnFuncs
    PROVE  Spec => []OkMeansHooked
<1>1. Hooking => OkMeansHooked
  BY DEF Hooking, Common, TypeOK, ReportsRight, OkMeansHooked
<1>2. Hooking /\ [Next]_vars => Hooking'
  BY HookingNext
<1> QED BY <1>1, <1>2, HookingInit, PTL DEF Spec

(***************************************************************************)
(* Automatic mode: an unhook leaves nothing                                  *)
(***************************************************************************)
\* A thread that goes on with an unhook is at one of its steps.
LEMMA WhoMoves ==
    ASSUME Common, Next, NEW u \in Threads, job'[u].op = "unhook", job'[u].at = "pick"
    PROVE  \/ job'[u] = job[u] /\ patch'[u] = patch[u]
           \/ BeginUnhook(u) \/ VisitUnhook(u) \/ PatchStep(u)
<1>1. PICK t \in Threads :
        \/ \E e \in Elfs : Load(t, e) \/ Close(t, e)
        \/ \E k \in Tasks : HookCall(t, k) \/ UnhookCall(t, k)
        \/ Refresh(t) \/ BeginHook(t) \/ BeginUnhook(t) \/ NextElf(t) \/ Finish(t)
        \/ Visit(t) \/ HookCfi(t) \/ VisitUnhook(t)
        \/ PatchStep(t)
  BY DEF Next, PatchStep
<1>2. job \in [Threads -> Job]
  BY DEF Common, TypeOK
<1>3. CASE u # t
  <2>1. CASE \E e \in Elfs : Load(t, e)
    BY <1>2, <1>3, <2>1 DEF Load
  <2>2. CASE Visit(t)
    BY <1>3, <2>2, Visited
  <2>3. CASE PatchStep(t)
    <3>1. \E good \in BOOLEAN : Patching(t) /\ After(t, good)
      BY <2>3, PatchGoesOn
    <3> QED BY <1>3, <3>1, AfterEffect
  <2>4. CASE \/ \E e \in Elfs : Close(t, e)
             \/ \E k \in Tasks : HookCall(t, k) \/ UnhookCall(t, k)
             \/ Refresh(t) \/ BeginHook(t) \/ BeginUnhook(t) \/ NextElf(t) \/ Finish(t)
             \/ HookCfi(t) \/ VisitUnhook(t)
    BY <1>3, <2>4, OtherSteps
  <2> QED BY <1>1, <2>1, <2>2, <2>3, <2>4
<1>4. CASE u = t
  <2>1. CASE \E e \in Elfs : Load(t, e)
    BY <1>2, <1>4, <2>1 DEF Load, Start
  <2>2. CASE \E e \in Elfs : Close(t, e)
    BY <1>4, <2>2 DEF Close
  <2>3. CASE \E k \in Tasks : HookCall(t, k) \/ UnhookCall(t, k)
    BY <1>2, <1>4, <2>3 DEF HookCall, UnhookCall, Start
  <2>4. CASE Refresh(t)
    <3>1. job[t].op = "post" /\ job' = [job EXCEPT ![t] = [@ EXCEPT !.at = "pick", !.elfs = NewElfs]]
      BY <1>2, <2>4 DEF Refresh
    <3>2. job'[t].op = job[t].op
      BY <1>2, <3>1 DEF Job
    <3> QED BY <1>4, <3>1, <3>2
  <2>5. CASE BeginHook(t)
    <3>1. PICK k \in job[t].own :
            \/ job' = [job EXCEPT ![t] = NoJob]
            \/ \E es \in Handled(k) : job' = [job EXCEPT ![t].at = "pick", ![t].pairs = {k} \X es]
      BY <2>5 DEF BeginHook
    <3>2. job[t].op = "hook" /\ job[t] \in Job
      BY <1>2, <2>5 DEF BeginHook
    <3>3. CASE job' = [job EXCEPT ![t] = NoJob]
      BY <1>2, <1>4, <3>3 DEF NoJob
    <3>4. ASSUME NEW ps, job' = [job EXCEPT ![t].at = "pick", ![t].pairs = ps] PROVE FALSE
      <4>1. job'[t] = [job[t] EXCEPT !.at = "pick", !.pairs = ps]
        BY <1>2, <3>4
      <4>2. job'[t].op = "hook"
        BY <3>2, <4>1 DEF Job
      <4> QED BY <1>4, <4>2
    <3> QED BY <3>1, <3>3, <3>4
  <2>6. CASE NextElf(t)
    <3>1. PICK e \in job[t].elfs :
            job' = [job EXCEPT ![t].elfs = @ \ {e}, ![t].pairs = listed \X {e}]
      BY <2>6 DEF NextElf
    <3>2. job[t].op = "post" /\ job[t] \in Job
      BY <1>2, <3>1 DEF Common, InHand
    <3>3. job'[t] = [job[t] EXCEPT !.elfs = @ \ {e}, !.pairs = listed \X {e}]
      BY <1>2, <3>1
    <3>4. job'[t].op = "post"
      BY <3>2, <3>3 DEF Job
    <3> QED BY <1>4, <3>4
  <2>7. CASE Finish(t)
    BY <1>2, <1>4, <2>7 DEF Finish, NoJob
  <2>8. CASE Visit(t)
    BY <1>4, <2>8, Visited
  <2>9. CASE HookCfi(t)
    BY <1>4, <2>9 DEF HookCfi
  <2> QED BY <1>1, <1>4, <2>1, <2>2, <2>3, <2>4, <2>5, <2>6, <2>7, <2>8, <2>9
<1> QED BY <1>3, <1>4

\* A task is destroyed by the unhook that has nothing left to do, in manual mode
\* from the first if the task remembers nothing.
LEMMA WhoDestroys ==
    ASSUME Common, Next, NEW k \in Tasks, status[k] # "destroyed", status'[k] = "destroyed"
    PROVE  \/ \E t \in Threads : /\ job[t].op = "unhook" /\ job[t].at = "pick" /\ k \in job[t].own
                                 /\ job[t].pairs = {} /\ patch[t] = NoPatch
           \/ /\ Manual /\ manualOrig[k] = Unset
              /\ UNCHANGED <<cache, bad, got, told, manualOrig>>
<1>1. PICK t \in Threads :
        \/ \E e \in Elfs : Load(t, e) \/ Close(t, e)
        \/ \E i \in Tasks : HookCall(t, i) \/ UnhookCall(t, i)
        \/ Refresh(t) \/ BeginHook(t) \/ BeginUnhook(t) \/ NextElf(t) \/ Finish(t)
        \/ Visit(t) \/ HookCfi(t) \/ VisitUnhook(t)
        \/ PatchStep(t)
  BY DEF Next, PatchStep
<1>2. status \in [Tasks -> {"new", "unfinished", "finished", "longterm", "unlisted",
                            "unhooking", "destroyed", "unmatched"}]
  BY DEF Common, TypeOK
<1>3. CASE Finish(t)
  <2>1. /\ job[t].at = "pick" /\ job[t].pairs = {} /\ patch[t] = NoPatch
        /\ job[t].op = "unhook" /\ k \in job[t].own
    BY <1>3 DEF Finish, Patching
  <2> QED BY <2>1
<1>4. CASE \/ \E e \in Elfs : Load(t, e) \/ Close(t, e)
           \/ Refresh(t) \/ BeginHook(t) \/ NextElf(t) \/ HookCfi(t) \/ VisitUnhook(t)
  <2>1. status' = status
    BY <1>4 DEF Load, Close, Refresh, BeginHook, NextElf, HookCfi, VisitUnhook, taskVars
  <2> QED BY <2>1
<1>5. CASE \E i \in Tasks : HookCall(t, i) \/ UnhookCall(t, i)
  <2>1. PICK i \in Tasks : HookCall(t, i) \/ UnhookCall(t, i)
    BY <1>5
  <2>2. \E s \in {"unfinished", "longterm", "unlisted"} : status' = [status EXCEPT ![i] = s]
    BY <2>1 DEF HookCall, UnhookCall
  <2> QED BY <1>2, <2>2
<1>6. CASE BeginUnhook(t)
  <2>1. UNCHANGED <<cache, bad, got, told, manualOrig>>
    BY <1>6 DEF BeginUnhook, elfVars, gotVars
  <2>2. \E i \in Tasks :
          \/ \E s \in {"unhooking", "unmatched"} : status' = [status EXCEPT ![i] = s]
          \/ Manual /\ manualOrig[i] = Unset /\ status' = [status EXCEPT ![i] = "destroyed"]
    BY <1>6, JobFields DEF BeginUnhook
  <2> QED BY <1>2, <2>1, <2>2
<1>7. CASE Visit(t)
  BY <1>7, Visited
<1>8. CASE PatchStep(t)
  <2>1. \E good \in BOOLEAN : Patching(t) /\ After(t, good)
    BY <1>8, PatchGoesOn
  <2> QED BY <2>1, AfterEffect
<1> QED BY <1>1, <1>3, <1>4, <1>5, <1>6, <1>7, <1>8

\* Proxies are enabled only by hook calls of tasks that are on the list.
LEMMA WhoEnables ==
    ASSUME Automatic, OwnFuncs, Hooking, Next, NEW x \in Gots, NEW k \in Tasks,
           FuncOf[k] \in Enabled(x)', FuncOf[k] \notin Enabled(x)
    PROVE  /\ k \in listed /\ listed' = listed
           /\ \E t \in Threads : /\ Patching(t) /\ job[t].op # "unhook"
                                 /\ k = patch[t].task /\ x \in Elements(GotsOf[patch[t].elf])
<1>1. Common /\ HooksRight /\ HooksStand
  BY DEF Hooking
<1>2. PICK t \in Threads :
             \/ \E e \in Elfs : Load(t, e)
             \/ Visit(t)
             \/ PatchStep(t)
             \/ UNCHANGED <<hooks, objs>>
  BY <1>1, KindsOfSteps
<1>3. ~ UNCHANGED <<hooks, objs>>
  BY DEF Enabled
<1>4. PatchStep(t)
  <2>1. ~ \E e \in Elfs : Load(t, e)
    BY <1>3 DEF Load
  <2>2. ~ Visit(t)
    BY <1>1, <1>3, Visited
  <2> QED BY <1>2, <1>3, <2>1, <2>2
<1>5. PICK g \in Gots : g = Entry(t)
  BY <1>1, <1>4, PatchGoesOn, EntryTyped
<1>6. PICK f \in Funcs : f = Func(t)
  BY <1>1, <1>4, PatchGoesOn, EntryTyped
<1>7. /\ \A y \in Gots : y # g => Enabled(y)' = Enabled(y)
      /\ \A y : y # f => (y \in Enabled(g) <=> y \in Enabled(g)')
      /\ job[t].op = "unhook" /\ f \in Enabled(g)' => f \in Enabled(g)
  BY <1>1, <1>4, <1>5, <1>6, EntryEffect
<1>8. x = g /\ FuncOf[k] = f /\ job[t].op # "unhook"
  BY <1>7
<1>9. PICK good \in BOOLEAN : Patching(t) /\ After(t, good)
  BY <1>4, PatchGoesOn
<1>10. patch[t].task \in Tasks /\ patch[t].task \in listed
  BY <1>1, <1>8, <1>9, WhoseWork
<1>11. k = patch[t].task
  BY <1>6, <1>8, <1>10 DEF Func, OwnFuncs
<1>12. x \in Elements(GotsOf[patch[t].elf])
  <2>1. /\ patch[t].gots \in Seq(Gots) /\ patch[t].gots # <<>>
        /\ Elements(patch[t].gots) \subseteq Elements(GotsOf[patch[t].elf])
    BY <1>1, <1>9, EntryTyped DEF Common, InHand, Patching, Patch
  <2>2. Head(patch[t].gots) \in Elements(patch[t].gots)
    BY <2>1, RestOfEntries
  <2> QED BY <1>5, <1>8, <2>1, <2>2 DEF Entry
<1>13. listed' = listed
  BY <1>1, <1>9, AfterEffect
<1> QED BY <1>8, <1>9, <1>10, <1>11, <1>12, <1>13

\* ELFs come into the cache with no entry hooked, and errors stay.
LEMMA WhereEnabled ==
    ASSUME Automatic, Hooking, Next, NEW e \in cache' \ bad', NEW x \in Elements(GotsOf[e]), Enabled(x) # {}
    PROVE  e \in cache \ bad
<1>1. Common /\ HooksRight /\ HooksStand /\ SeenFirst
  BY DEF Hooking
<1>2. e \in cache
  <2>1. hooks[x] # 0
    BY DEF Enabled
  <2>2. e \in Elfs => Seen(e)
    BY <1>1, <2>1 DEF SeenFirst
  <2> QED BY <1>1, <2>2, ListsGoOn
<1>3. bad \subseteq bad'
  <2>1. PICK t \in Threads :
             \/ \E d \in Elfs : Load(t, d)
             \/ Visit(t)
             \/ PatchStep(t)
             \/ UNCHANGED bad
    BY <1>1, KindsOfSteps
  <2>2. CASE \E d \in Elfs : Load(t, d)
    BY <2>2 DEF Load
  <2>3. CASE Visit(t)
    BY <1>1, <2>3, Visited
  <2>4. CASE PatchStep(t)
    <3>1. PICK g \in Gots : g = Entry(t)
      BY <1>1, <2>4, PatchGoesOn, EntryTyped
    <3>2. PICK f \in Funcs : f = Func(t)
      BY <1>1, <2>4, PatchGoesOn, EntryTyped
    <3> QED BY <1>1, <2>4, <3>1, <3>2, EntryEffect
  <2> QED BY <2>1, <2>2, <2>3, <2>4
<1> QED BY <1>2, <1>3

\* What an unhook has still to visit, after a step of anyone.
LEMMA StillToVisitNext ==
    ASSUME Automatic, Apart, OwnFuncs, OneCaller, Hooking, Hooking', Unhooking, Next,
           NEW u \in Threads
    PROVE  StillToVisit(u)'
<1> SUFFICES ASSUME job'[u].op = "unhook", job'[u].at = "pick",
                    NEW k \in job'[u].own, NEW e \in cache' \ bad', NEW x \in Elements(GotsOf[e]),
                    FuncOf[k] \in Enabled(x)'
             PROVE  ToVisit(u, k, e, x)'
  BY DEF StillToVisit
<1>1. Common /\ HooksRight /\ HooksStand /\ Common'
  BY DEF Hooking
<1>2. k \in Tasks /\ e \in Elfs /\ x \in Gots /\ k \notin listed'
  <2>1. job'[u] \in Job /\ cache' \subseteq Elfs
    BY <1>1 DEF Common, TypeOK
  <2>2. k \in Tasks
    BY <2>1 DEF Job
  <2>3. status'[k] \in Left /\ ListRight'
    BY <1>1 DEF Common, TasksRight
  <2> QED BY <2>1, <2>2, <2>3, EntriesOf DEF ListRight, Listed, Left
<1>3. FuncOf[k] \in Enabled(x)
  BY <1>1, <1>2, WhoEnables
<1>4. e \in cache \ bad /\ e \in Callers[k]
  BY <1>2, <1>3, WhereEnabled DEF Unhooking, CallersOnly
<1>5. CASE job'[u] = job[u] /\ patch'[u] = patch[u]
  <2>1. ToVisit(u, k, e, x)
    BY <1>3, <1>4, <1>5 DEF Unhooking, StillToVisit
  <2> QED BY <1>5, <2>1 DEF ToVisit
<1>6. CASE BeginUnhook(u)
  <2>1. PICK i \in job[u].own :
          \E es \in Handled(i) : job' = [job EXCEPT ![u].at = "pick", ![u].pairs = {i} \X es]
    BY <1>6 DEF BeginUnhook, Automatic
  <2>2. PICK es \in Handled(i) : job' = [job EXCEPT ![u].at = "pick", ![u].pairs = {i} \X es]
    BY <2>1
  <2> DEFINE ps == {i} \X es
  <2>3. job'[u] = [job[u] EXCEPT !.at = "pick", !.pairs = ps] /\ job[u] \in Job
    BY <1>1, <2>2 DEF Common, TypeOK
  <2> HIDE DEF ps
  <2>4. job'[u].own = job[u].own /\ job'[u].pairs = ps
    BY <2>3 DEF Job
  <2>5. i = k
    BY <1>1, <1>6, <2>4 DEF Common, TasksRight, BeginUnhook
  <2>6. e \in es
    <3>1. CASE k \notin Single
      BY <1>4, <2>5, <3>1 DEF Handled
    <3>2. CASE k \in Single
      <4>1. PICK d \in cache \cap Callers[k] : es = {d}
        BY <1>4, <2>5, <3>2 DEF Handled
      <4>2. d = e
        BY <1>4, <3>2, <4>1 DEF OneCaller
      <4> QED BY <4>1, <4>2
    <3> QED BY <3>1, <3>2
  <2>7. <<k, e>> \in ps
    BY <2>5, <2>6 DEF ps
  <2> QED BY <2>4, <2>7 DEF ToVisit
<1>7. CASE VisitUnhook(u)
  <2>1. PICK q \in job[u].pairs :
        /\ job' = [job EXCEPT ![u].pairs = @ \ {q}]
        /\ IF q[2] \in Callers[q[1]] \ bad /\ GotsOf[q[2]] # <<>>
           THEN StartPatch(u, q[1], q[2])
           ELSE UNCHANGED patch
    BY <1>7 DEF VisitUnhook
  <2>2. job[u].at = "pick" /\ job[u].op = "unhook" /\ patch[u] = NoPatch
    BY <1>7 DEF VisitUnhook, Patching
  <2>3. /\ job'[u].own = job[u].own /\ job'[u].pairs = job[u].pairs \ {q}
        /\ q[1] \in Tasks /\ q[2] \in Elfs
    BY <1>1, <2>1, PairTaken
  <2>4. <<k, e>> \in job[u].pairs
    <3>1. ToVisit(u, k, e, x)
      BY <1>3, <1>4, <2>2, <2>3 DEF Unhooking, StillToVisit
    <3> QED BY <2>2, <3>1 DEF ToVisit
  <2>5. CASE q = <<k, e>>
    <3>1. GotsOf[e] # <<>>
      <4>1. DOMAIN GotsOf[e] # {}
        BY DEF Elements
      <4> QED BY <4>1
    <3>2. StartPatch(u, k, e)
      BY <1>4, <2>1, <2>5, <3>1
    <3>3. /\ patch'[u] # NoPatch /\ patch'[u].elf = e /\ patch'[u].gots = GotsOf[e]
      BY <1>1, <1>2, <3>1, <3>2, PatchStarted
    <3> QED BY <3>3 DEF ToVisit
  <2>6. CASE q # <<k, e>>
    BY <2>3, <2>4, <2>6 DEF ToVisit
  <2> QED BY <2>5, <2>6
<1>8. CASE PatchStep(u)
  <2>1. PICK g \in Gots : g = Entry(u)
    BY <1>1, <1>8, PatchGoesOn, EntryTyped
  <2>2. PICK f \in Funcs : f = Func(u)
    BY <1>1, <1>8, PatchGoesOn, EntryTyped
  <2>3. PICK good \in BOOLEAN : Patching(u) /\ After(u, good)
    BY <1>8, PatchGoesOn
  <2>4. /\ job' = job /\ patch[u] \in Patch /\ patch[u].gots # <<>>
        /\ Len(patch[u].gots) = 1 => patch'[u] = NoPatch
        /\ Len(patch[u].gots) # 1 =>
             patch'[u] # NoPatch /\ patch'[u].elf = patch[u].elf /\ patch'[u].gots = Tail(patch[u].gots)
    BY <1>1, <2>3, AfterEffect
  <2>5. f \notin Enabled(g)' \/ patch[u].elf \in bad'
    BY <1>1, <1>8, <2>1, <2>2, <2>4, EntryEffect
  <2>6. f = FuncOf[k]
    <3>1. patch[u].task \in job[u].own
      BY <1>1, <2>3, <2>4, WhoseWork
    <3>2. patch[u].task = k
      BY <1>1, <2>4, <3>1 DEF Common, TasksRight
    <3> QED BY <2>2, <3>2 DEF Func
  <2>7. ToVisit(u, k, e, x)
    BY <1>3, <1>4, <2>4 DEF Unhooking, StillToVisit
  <2>8. CASE <<k, e>> \in job[u].pairs
    BY <2>4, <2>8 DEF ToVisit
  <2>9. CASE patch[u].elf = e /\ x \in Elements(patch[u].gots)
    <3>1. x # g
      BY <2>5, <2>6, <2>9
    <3>2. /\ Elements(patch[u].gots) \subseteq {g} \cup Elements(Tail(patch[u].gots))
          /\ Len(patch[u].gots) = 1 => Elements(patch[u].gots) = {g}
      <4>1. patch[u].gots \in Seq(Gots) /\ g = Head(patch[u].gots)
        BY <2>1, <2>4 DEF Patch, Entry
      <4> QED BY <2>4, <4>1, RestOfEntries
    <3>3. patch'[u] # NoPatch /\ patch'[u].elf = e /\ x \in Elements(patch'[u].gots)
      BY <2>4, <2>9, <3>1, <3>2
    <3> QED BY <3>3 DEF ToVisit
  <2> QED BY <2>7, <2>8, <2>9 DEF ToVisit
<1> QED BY <1>1, <1>5, <1>6, <1>7, <1>8, WhoMoves

LEMMA UnhookingNext ==
    ASSUME Automatic, Apart, OwnFuncs, OneCaller, Hooking, Hooking', Unhooking, [Next]_vars
    PROVE  Unhooking'
<1>1. CASE UNCHANGED vars
  <2>1. UNCHANGED <<life, cache, bad, cfi, got, hooks, objs, listed, status, manualOrig, saved, told,
                    job, patch>>
    BY <1>1 DEF vars, elfVars, gotVars, taskVars
  <2>2. CallersOnly' /\ NoneLeft'
    BY <2>1 DEF Unhooking, CallersOnly, NoneLeft, Enabled
  <2>3. \A t \in Threads : StillToVisit(t)'
    BY <2>1 DEF Unhooking, StillToVisit, ToVisit, Enabled
  <2> QED BY <2>2, <2>3 DEF Unhooking
<1>2. CASE Next
  <2>1. CallersOnly'
    <3> SUFFICES ASSUME NEW k \in Tasks, NEW e \in Elfs, NEW x \in Elements(GotsOf[e]),
                        FuncOf[k] \in Enabled(x)'
                 PROVE  e \in Callers[k]
      BY DEF CallersOnly
    <3>1. x \in Gots
      BY EntriesOf
    <3>2. CASE FuncOf[k] \in Enabled(x)
      BY <3>2 DEF Unhooking, CallersOnly
    <3>3. CASE FuncOf[k] \notin Enabled(x)
      <4>1. PICK t \in Threads : /\ Patching(t) /\ job[t].op # "unhook"
                                 /\ k = patch[t].task /\ x \in Elements(GotsOf[patch[t].elf])
        BY <1>2, <3>1, <3>3, WhoEnables
      <4>2. patch[t].elf \in Elfs
        BY <4>1, EntryTyped DEF Hooking, Patch
      <4>3. e = patch[t].elf
        BY <4>1, <4>2 DEF Apart
      <4> QED BY <4>1, <4>3 DEF Hooking, SoFarRight, Patching
    <3> QED BY <3>2, <3>3
  <2>2. NoneLeft'
    <3> SUFFICES ASSUME NEW k \in Tasks, status'[k] = "destroyed", NEW e \in cache' \ bad',
                        NEW x \in Elements(GotsOf[e]), FuncOf[k] \in Enabled(x)'
                 PROVE  FALSE
      BY DEF NoneLeft
    <3>1. Common /\ Common' /\ e \in Elfs /\ x \in Gots
      <4>1. Common /\ Common'
        BY DEF Hooking
      <4>2. cache' \subseteq Elfs
        BY <4>1 DEF Common, TypeOK
      <4> QED BY <4>1, <4>2, EntriesOf
    <3>2. k \notin listed'
      BY <3>1 DEF Common, ListRight, Listed
    <3>3. FuncOf[k] \in Enabled(x)
      BY <1>2, <3>1, <3>2, WhoEnables
    <3>4. e \in cache \ bad
      BY <1>2, <3>3, WhereEnabled
    <3>5. status[k] # "destroyed"
      BY <3>3, <3>4 DEF Unhooking, NoneLeft
    <3>6. PICK t \in Threads : /\ job[t].op = "unhook" /\ job[t].at = "pick" /\ k \in job[t].own
                               /\ job[t].pairs = {} /\ patch[t] = NoPatch
      BY <1>2, <3>1, <3>5, WhoDestroys DEF Automatic
    <3>7. ToVisit(t, k, e, x)
      BY <3>3, <3>4, <3>6 DEF Unhooking, StillToVisit
    <3> QED BY <3>6, <3>7 DEF ToVisit
  <2>3. \A t \in Threads : StillToVisit(t)'
    BY <1>2, StillToVisitNext
  <2> QED BY <2>1, <2>2, <2>3 DEF Unhooking
<1> QED BY <1>1, <1>2

\* When an unhook returns, no entry of a cached library leads to the proxy any
\* more (bh_task_manager_delete, bh_hook_manager_unhook), for libraries opened
\* meanwhile too: their post-dlopen call takes only tasks on the list, and the
\* unhook took the task off the list before it copied the cache.  Tasks have
\* functions of their own, and one of type SINGLE names one library.
THEOREM UnhookCompleteHolds ==
    ASSUME Automatic, Apart, OwnFuncs, OneCaller
    PROVE  Spec => []UnhookComplete
<1>1. Init => Unhooking
  <2> SUFFICES ASSUME Init PROVE Unhooking
    OBVIOUS
  <2>1. \A g \in Gots : Enabled(g) = {}
    BY DEF Init, Enabled
  <2>2. CallersOnly
    BY <2>1, EntriesOf DEF CallersOnly
  <2>3. NoneLeft /\ \A t \in Threads : StillToVisit(t)
    BY DEF Init, NoneLeft, StillToVisit, NoJob
  <2> QED BY <2>2, <2>3 DEF Unhooking
<1>2. Hooking /\ [Next]_vars => Hooking'
  BY HookingNext
<1>3. Hooking /\ Hooking' /\ Unhooking /\ [Next]_vars => Unhooking'
  BY UnhookingNext
<1>4. Hooking /\ Unhooking => UnhookComplete
  <2> SUFFICES ASSUME Hooking, Unhooking, NEW k \in Tasks, status[k] = "destroyed",
                      NEW e \in cache \ bad, NEW g \in Elements(GotsOf[e])
               PROVE  FuncOf[k] \notin Enabled(g) /\ got[g] # FuncOf[k]
    BY DEF UnhookComplete
  <2>1. g \in Gots
    BY EntriesOf DEF Hooking, Common, TypeOK
  <2>2. got[g] # FuncOf[k]
    BY <2>1 DEF Hooking, Common, NoProxyInGot, Automatic
  <2> QED BY <2>2 DEF Unhooking, NoneLeft
<1> QED BY <1>1, <1>2, <1>3, <1>4, HookingInit, PTL DEF Spec

(***************************************************************************)
(* Automatic mode: no ELF is missed                                          *)
(***************************************************************************)
\* One thread opens and closes libraries: a dlclose that refreshes the cache
\* while a dlopen is under way tells no task of the library it finds.
OneLoader == \A t, u \in Loaders : t = u

\* A hook call is for one task, and only loaders come out of a dlopen.
CallsRight ==
    \A t \in Threads :
        /\ job[t].op = "hook" => \A i, k \in job[t].own : i = k
        /\ job[t].op = "post" => t \in Loaders

\* A library is in the cache unless its dlopen has yet to refresh it.
LinkedCached ==
    \A e \in Linked : e \in cache \/ \E t \in Threads : job[t].op = "post" /\ job[t].at = "begin"

\* Tasks of the other types are never finished.
LongTerm == \A k \in Tasks \ Single : status[k] # "finished"

\* The task is done with the ELF: hooked in all of it, or failed.
DoneWith(k, e) ==
    \/ cfi[e] = "failed"
    \/ <<e, "failed">> \in told[k]
    \/ \A g \in Elements(GotsOf[e]) : FuncOf[k] \in Enabled(g)

\* Some thread still has the task and the ELF to do, or does them now.
UnderWay(t, k, e) ==
    \/ job[t].op = "hook" /\ job[t].at = "begin" /\ k \in job[t].own
    \/ job[t].op \in {"hook", "post"} /\ <<k, e>> \in job[t].pairs
    \/ job[t].op = "post" /\ e \in job[t].elfs
    \/ /\ patch[t] # NoPatch /\ job[t].op # "unhook"
       /\ patch[t].task = k /\ patch[t].elf = e
       /\ \A g \in Elements(GotsOf[e]) \ Elements(patch[t].gots) : FuncOf[k] \in Enabled(g)

NoneForgotten ==
    \A k \in listed \ Single : \A e \in (cache \cap Callers[k]) \ bad :
        DoneWith(k, e) \/ \E t \in Threads : UnderWay(t, k, e)

Covering == CallsRight /\ LinkedCached /\ LongTerm /\ NoneForgotten

\* One thread moves, by one of its steps; the others wait.
LEMMA OneMoves ==
    ASSUME Common, Next
    PROVE  \E t \in Threads :
             /\ \A u \in Threads : u # t => job'[u] = job[u] /\ patch'[u] = patch[u]
             /\ \/ \E e \in Elfs : Load(t, e) \/ Close(t, e)
                \/ \E k \in Tasks : HookCall(t, k) \/ UnhookCall(t, k)
                \/ Refresh(t) \/ BeginHook(t) \/ BeginUnhook(t) \/ NextElf(t) \/ Finish(t)
                \/ Visit(t) \/ HookCfi(t) \/ VisitUnhook(t)
                \/ PatchStep(t)
<1>1. PICK t \in Threads :
        \/ \E e \in Elfs : Load(t, e) \/ Close(t, e)
        \/ \E k \in Tasks : HookCall(t, k) \/ UnhookCall(t, k)
        \/ Refresh(t) \/ BeginHook(t) \/ BeginUnhook(t) \/ NextElf(t) \/ Finish(t)
        \/ Visit(t) \/ HookCfi(t) \/ VisitUnhook(t)
        \/ PatchStep(t)
  BY DEF Next, PatchStep
<1>2. job \in [Threads -> Job]
  BY DEF Common, TypeOK
<1>3. ASSUME NEW u \in Threads, u # t PROVE job'[u] = job[u] /\ patch'[u] = patch[u]
  <2>1. CASE \E e \in Elfs : Load(t, e)
    BY <1>2, <1>3, <2>1 DEF Load
  <2>2. CASE Visit(t)
    BY <1>3, <2>2, Visited
  <2>3. CASE PatchStep(t)
    <3>1. \E good \in BOOLEAN : Patching(t) /\ After(t, good)
      BY <2>3, PatchGoesOn
    <3> QED BY <1>3, <3>1, AfterEffect
  <2>4. CASE \/ \E e \in Elfs : Close(t, e)
             \/ \E k \in Tasks : HookCall(t, k) \/ UnhookCall(t, k)
             \/ Refresh(t) \/ BeginHook(t) \/ BeginUnhook(t) \/ NextElf(t) \/ Finish(t)
             \/ HookCfi(t) \/ VisitUnhook(t)
    BY <1>3, <2>4, OtherSteps
  <2> QED BY <1>1, <2>1, <2>2, <2>3, <2>4
<1> QED BY <1>1, <1>3

\* A thread that does nothing has nothing in hand.
LEMMA IdleHands ==
    ASSUME Common, NEW t \in Threads, IsIdle(t)
    PROVE  /\ patch[t] = NoPatch /\ job[t].op = "none" /\ job[t].at = "idle"
           /\ job[t].pairs = {} /\ job[t].elfs = {} /\ job[t].own = {}
BY DEF Common, InHand, IsIdle, NoJob

\* What a task was told is added to.
LEMMA ToldMore ==
    ASSUME Common, NEW i, NEW s, told' = [told EXCEPT ![i] = @ \cup s]
    PROVE  \A k \in Tasks : told[k] \subseteq told'[k]
<1>1. told \in [Tasks -> SUBSET (Elfs \X {"OK", "failed"})]
  BY DEF Common, TypeOK
<1>2. ASSUME NEW k \in Tasks PROVE told[k] \subseteq told'[k]
  <2>1. told'[k] = IF k = i THEN told[k] \cup s ELSE told[k]
    BY <1>1
  <2> QED BY <2>1
<1> QED BY <1>2

\* What became of the entries of a task on the list is not undone, nor are
\* failures.
LEMMA DoneStays ==
    ASSUME Automatic, OwnFuncs, Hooking, Next
    PROVE  /\ bad \subseteq bad'
           /\ \A e \in Elfs : cfi[e] = "failed" => cfi'[e] = "failed"
           /\ \A k \in Tasks : told[k] \subseteq told'[k]
           /\ \A k \in listed, x \in Gots : FuncOf[k] \in Enabled(x) => FuncOf[k] \in Enabled(x)'
           /\ \A k \in Tasks \ Single : status'[k] = "finished" => status[k] = "finished"
<1>1. Common /\ HooksRight /\ HooksStand
  BY DEF Hooking
<1>2. PICK t \in Threads :
        \/ \E e \in Elfs : Load(t, e) \/ Close(t, e)
        \/ \E k \in Tasks : HookCall(t, k) \/ UnhookCall(t, k)
        \/ Refresh(t) \/ BeginHook(t) \/ BeginUnhook(t) \/ NextElf(t) \/ Finish(t)
        \/ Visit(t) \/ HookCfi(t) \/ VisitUnhook(t)
        \/ PatchStep(t)
  BY DEF Next, PatchStep
<1>3. /\ cfi \in [Elfs -> {"no", "ok", "failed"}]
      /\ told \in [Tasks -> SUBSET (Elfs \X {"OK", "failed"})]
      /\ status \in [Tasks -> {"new", "unfinished", "finished", "longterm", "unlisted",
                               "unhooking", "destroyed", "unmatched"}]
      /\ listed \subseteq Tasks
  BY <1>1 DEF Common, TypeOK
<1>4. CASE UNCHANGED <<bad, cfi, told, hooks, objs, status>>
  BY <1>4 DEF Enabled
<1>5. CASE \/ \E e \in Elfs : Load(t, e) \/ Close(t, e)
           \/ Refresh(t) \/ BeginHook(t) \/ NextElf(t) \/ VisitUnhook(t)
  <2>1. UNCHANGED <<bad, cfi, told, hooks, objs, status>>
    BY <1>5 DEF Load, Close, Refresh, BeginHook, NextElf, VisitUnhook, elfVars, gotVars, taskVars
  <2> QED BY <1>4, <2>1
<1>6. ASSUME UNCHANGED <<bad, cfi, told, hooks, objs>>,
             \A k \in Tasks : status'[k] = "finished" => status[k] = "finished"
      PROVE  /\ bad \subseteq bad'
             /\ \A e \in Elfs : cfi[e] = "failed" => cfi'[e] = "failed"
             /\ \A k \in Tasks : told[k] \subseteq told'[k]
             /\ \A k \in listed, x \in Gots : FuncOf[k] \in Enabled(x) => FuncOf[k] \in Enabled(x)'
             /\ \A k \in Tasks \ Single : status'[k] = "finished" => status[k] = "finished"
  BY <1>6 DEF Enabled
<1>7. CASE \E k \in Tasks : HookCall(t, k) \/ UnhookCall(t, k)
  <2>1. PICK k \in Tasks : HookCall(t, k) \/ UnhookCall(t, k)
    BY <1>7
  <2>2. UNCHANGED <<bad, cfi, told, hooks, objs>>
    BY <2>1 DEF HookCall, UnhookCall, elfVars, gotVars
  <2>3. \E s \in {"unfinished", "longterm", "unlisted"} : status' = [status EXCEPT ![k] = s]
    BY <2>1 DEF HookCall, UnhookCall
  <2>4. \A i \in Tasks : status'[i] = "finished" => status[i] = "finished"
    BY <1>3, <2>3
  <2> QED BY <1>6, <2>2, <2>4
<1>8. CASE BeginUnhook(t)
  <2>1. UNCHANGED <<bad, cfi, told, hooks, objs>>
    BY <1>8 DEF BeginUnhook, elfVars, gotVars
  <2>2. \E k \in Tasks, s \in {"destroyed", "unmatched", "unhooking"} :
            status' = [status EXCEPT ![k] = s]
    BY <1>1, <1>8, JobFields DEF BeginUnhook
  <2>3. \A i \in Tasks : status'[i] = "finished" => status[i] = "finished"
    BY <1>3, <2>2
  <2> QED BY <1>6, <2>1, <2>3
<1>9. CASE Finish(t)
  <2>1. UNCHANGED <<bad, cfi, told, hooks, objs>>
    BY <1>9 DEF Finish, elfVars, gotVars
  <2>2. \A i \in Tasks : status'[i] \in {"destroyed", status[i]}
    BY <1>9 DEF Finish
  <2> QED BY <1>6, <2>1, <2>2
<1>10. CASE HookCfi(t)
  <2>1. UNCHANGED <<bad, told, hooks, objs, status>>
    BY <1>10 DEF HookCfi, gotVars, taskVars
  <2>2. \E e \in Elfs : \E r : cfi[e] = "no" /\ cfi' = [cfi EXCEPT ![e] = r]
    <3>1. job[t].pairs \subseteq Tasks \X Elfs
      BY <1>1, JobFields
    <3>2. PICK p \in job[t].pairs, r \in {"ok", "failed"} :
            cfi[p[2]] = "no" /\ cfi' = [cfi EXCEPT ![p[2]] = r]
      BY <1>10 DEF HookCfi
    <3>3. p[2] \in Elfs
      BY <3>1
    <3> QED BY <3>2, <3>3
  <2>3. \A e \in Elfs : cfi[e] = "failed" => cfi'[e] = "failed"
    BY <1>3, <2>2
  <2> QED BY <2>1, <2>3 DEF Enabled
<1>11. CASE Visit(t)
  <2>1. UNCHANGED <<bad, cfi, hooks, objs>>
    BY <1>1, <1>11, Visited
  <2>2. PICK q \in job[t].pairs :
          \/ status' = Finished(q[1]) /\ told' = ToldSingle(q[1], q[2])
          \/ UNCHANGED <<status, told>>
    BY <1>11 DEF Visit, Refuse, NoSymbol, FindGots, taskVars
  <2>3. told' = told \/ told' = [told EXCEPT ![q[1]] = @ \cup {<<q[2], "failed">>}]
    BY <2>2 DEF ToldSingle
  <2>4. \A k \in Tasks : told[k] \subseteq told'[k]
    BY <1>1, <2>3, ToldMore
  <2>5. status' = status \/ (q[1] \in Single /\ status' = [status EXCEPT ![q[1]] = "finished"])
    BY <2>2 DEF Finished
  <2>6. \A k \in Tasks \ Single : status'[k] = status[k]
    BY <1>3, <2>5
  <2> QED BY <2>1, <2>4, <2>6 DEF Enabled
<1>12. CASE PatchStep(t)
  <2>1. PICK g \in Gots : g = Entry(t)
    BY <1>1, <1>12, PatchGoesOn, EntryTyped
  <2>2. PICK f \in Funcs : f = Func(t)
    BY <1>1, <1>12, PatchGoesOn, EntryTyped
  <2>3. PICK good \in BOOLEAN : Patching(t) /\ After(t, good)
    BY <1>12, PatchGoesOn
  <2>4. /\ bad \subseteq bad'
        /\ \A x \in Gots : x # g => Enabled(x)' = Enabled(x)
        /\ \A y : y # f => (y \in Enabled(g) <=> y \in Enabled(g)')
        /\ job[t].op # "unhook" /\ f \in Enabled(g) => f \in Enabled(g)'
    BY <1>1, <1>12, <2>1, <2>2, EntryEffect
  <2>5. ASSUME NEW k \in listed, NEW x \in Gots, FuncOf[k] \in Enabled(x)
        PROVE  FuncOf[k] \in Enabled(x)'
    <3>1. k \in Tasks /\ patch[t].task \in Tasks
      BY <1>1, <1>3, <2>3, EntryTyped
    <3>2. FuncOf[k] = f => k = patch[t].task
      BY <2>2, <3>1 DEF OwnFuncs, Func
    <3>3. k = patch[t].task => job[t].op # "unhook"
      BY <1>1, <2>3, <2>5, WhoseWork
    <3> QED BY <2>4, <2>5, <3>2, <3>3
  <2>6. cfi' = cfi
    BY <2>3 DEF After
  <2>7. /\ told' = told \/ \E s : told' = [told EXCEPT ![patch[t].task] = @ \cup s]
        /\ \/ status' = status
           \/ patch[t].task \in Single /\ status' = [status EXCEPT ![patch[t].task] = "finished"]
    BY <2>3 DEF After, Finished
  <2>8. \A k \in Tasks : told[k] \subseteq told'[k]
    BY <1>1, <2>7, ToldMore
  <2>9. \A k \in Tasks \ Single : status'[k] = status[k]
    BY <1>3, <2>7
  <2> QED BY <2>4, <2>5, <2>6, <2>8, <2>9
<1> QED BY <1>2, <1>5, <1>7, <1>8, <1>9, <1>10, <1>11, <1>12

LEMMA CallsRightNext ==
    ASSUME Common, CallsRight, Next
    PROVE  CallsRight'
<1>1. PICK t \in Threads :
        /\ \A u \in Threads : u # t => job'[u] = job[u] /\ patch'[u] = patch[u]
        /\ \/ \E e \in Elfs : Load(t, e) \/ Close(t, e)
           \/ \E k \in Tasks : HookCall(t, k) \/ UnhookCall(t, k)
           \/ Refresh(t) \/ BeginHook(t) \/ BeginUnhook(t) \/ NextElf(t) \/ Finish(t)
           \/ Visit(t) \/ HookCfi(t) \/ VisitUnhook(t)
           \/ PatchStep(t)
  BY OneMoves
<1>2. job \in [Threads -> Job] /\ job[t] \in Job
  BY DEF Common, TypeOK
<1>3. ASSUME job'[t].op = job[t].op /\ job'[t].own = job[t].own PROVE CallsRight'
  BY <1>1, <1>3 DEF CallsRight
<1>4. CASE \E e \in Elfs : Load(t, e)
  <2>1. t \in Loaders /\ job' = [job EXCEPT ![t] = Start("post", {})]
    BY <1>4 DEF Load
  <2>2. job'[t] = Start("post", {})
    BY <1>2, <2>1
  <2>3. job'[t].op = "post"
    BY <2>2 DEF Start
  <2> QED BY <1>1, <2>1, <2>3 DEF CallsRight
<1>5. CASE \E k \in Tasks : HookCall(t, k) \/ UnhookCall(t, k)
  <2>1. PICK k \in Tasks : HookCall(t, k) \/ UnhookCall(t, k)
    BY <1>5
  <2>2. job'[t] = Start("hook", {k}) \/ job'[t] = Start("unhook", {k})
    BY <1>2, <2>1 DEF HookCall, UnhookCall
  <2>3. job'[t].own = {k} /\ job'[t].op \in {"hook", "unhook"}
    BY <2>2 DEF Start
  <2> QED BY <1>1, <2>3 DEF CallsRight
<1>6. CASE (\E e \in Elfs : Close(t, e)) \/ HookCfi(t) \/ PatchStep(t)
  <2>1. CASE PatchStep(t)
    BY <1>3, <2>1, PatchGoesOn, AfterEffect
  <2> QED BY <1>3, <1>6, <2>1 DEF Close, HookCfi
<1>7. CASE Refresh(t)
  <2>1. job'[t] = [job[t] EXCEPT !.at = "pick", !.elfs = NewElfs]
    BY <1>2, <1>7 DEF Refresh
  <2>2. job'[t].op = job[t].op /\ job'[t].own = job[t].own
    BY <1>2, <2>1 DEF Job
  <2> QED BY <1>3, <2>2
<1>8. ASSUME job'[t] = NoJob PROVE CallsRight'
  BY <1>1, <1>8 DEF CallsRight, NoJob
<1>9. ASSUME NEW ps, job'[t] = [job[t] EXCEPT !.at = "pick", !.pairs = ps] PROVE CallsRight'
  <2>1. job'[t].op = job[t].op /\ job'[t].own = job[t].own
    BY <1>2, <1>9 DEF Job
  <2> QED BY <1>3, <2>1
<1>10. CASE BeginHook(t) \/ BeginUnhook(t)
  <2>1. \/ job' = [job EXCEPT ![t] = NoJob]
        \/ \E k, es : job' = [job EXCEPT ![t].at = "pick", ![t].pairs = {k} \X es]
    BY <1>10 DEF BeginHook, BeginUnhook
  <2>2. job'[t] = NoJob \/ \E ps : job'[t] = [job[t] EXCEPT !.at = "pick", !.pairs = ps]
    BY <1>2, <2>1
  <2> QED BY <1>8, <1>9, <2>2
<1>11. CASE NextElf(t)
  <2>1. PICK e : job' = [job EXCEPT ![t].elfs = @ \ {e}, ![t].pairs = listed \X {e}]
    BY <1>11 DEF NextElf
  <2>2. job'[t] = [job[t] EXCEPT !.elfs = @ \ {e}, !.pairs = listed \X {e}]
    BY <1>2, <2>1
  <2>3. job'[t].op = job[t].op /\ job'[t].own = job[t].own
    BY <1>2, <2>2 DEF Job
  <2> QED BY <1>3, <2>3
<1>12. CASE Finish(t)
  <2>1. job'[t] = NoJob
    BY <1>2, <1>12 DEF Finish
  <2> QED BY <1>8, <2>1
<1>13. CASE Visit(t) \/ VisitUnhook(t)
  <2>1. \E q \in job[t].pairs : job' = [job EXCEPT ![t].pairs = @ \ {q}]
    BY <1>13 DEF Visit, VisitUnhook
  <2> QED BY <1>3, <2>1, PairTaken
<1> QED BY <1>1, <1>4, <1>5, <1>6, <1>7, <1>10, <1>11, <1>12, <1>13

\* A library comes into the cache by the refresh of its dlopen, which keeps it to
\* tell the tasks.
LEMMA LinkedCachedNext ==
    ASSUME OneLoader, Common, CallsRight, LinkedCached, Next
    PROVE  /\ LinkedCached'
           /\ \A e \in cache' \ cache : \E t \in Threads : job'[t].op = "post" /\ e \in job'[t].elfs
<1>1. PICK t \in Threads :
        /\ \A u \in Threads : u # t => job'[u] = job[u] /\ patch'[u] = patch[u]
        /\ \/ \E e \in Elfs : Load(t, e) \/ Close(t, e)
           \/ \E k \in Tasks : HookCall(t, k) \/ UnhookCall(t, k)
           \/ Refresh(t) \/ BeginHook(t) \/ BeginUnhook(t) \/ NextElf(t) \/ Finish(t)
           \/ Visit(t) \/ HookCfi(t) \/ VisitUnhook(t)
           \/ PatchStep(t)
  BY OneMoves
<1>2. job \in [Threads -> Job] /\ job[t] \in Job
  BY DEF Common, TypeOK
<1>3. CASE \E e \in Elfs : Load(t, e)
  <2>1. PICK e \in Elfs : Load(t, e)
    BY <1>3
  <2>2. /\ job' = [job EXCEPT ![t] = Start("post", {})] /\ cache' = cache
        /\ job[t].op = "none"
    BY <2>1, IdleHands DEF Load
  <2>3. job'[t] = Start("post", {})
    BY <1>2, <2>2
  <2>4. job'[t].op = "post" /\ job'[t].at = "begin"
    BY <2>3 DEF Start
  <2> QED BY <2>2, <2>4 DEF LinkedCached
<1>4. CASE \E e \in Elfs : Close(t, e)
  <2>1. PICK e \in Elfs : Close(t, e)
    BY <1>4
  <2>2. /\ t \in Loaders /\ job[t].op = "none" /\ job' = job
        /\ life' = [life EXCEPT ![e] = "gone"] /\ cache' = Linked \ {e}
    BY <2>1, IdleHands DEF Close
  <2>3. Linked \subseteq cache
    <3>1. \A u \in Threads : job[u].op # "post"
      BY <2>2 DEF CallsRight, OneLoader
    <3> QED BY <3>1 DEF LinkedCached
  <2>4. Linked' = Linked \ {e}
    <3>1. life \in [Elfs -> {"new", "linked", "gone"}]
      BY DEF Common, TypeOK
    <3> QED BY <2>2, <3>1 DEF Linked
  <2> QED BY <2>2, <2>3, <2>4 DEF LinkedCached
<1>5. CASE Refresh(t)
  <2>1. /\ job' = [job EXCEPT ![t].at = "pick", ![t].elfs = NewElfs]
        /\ job[t].op = "post" /\ cache' = Linked /\ life' = life
    BY <1>5 DEF Refresh
  <2>2. job'[t] = [job[t] EXCEPT !.at = "pick", !.elfs = NewElfs]
    BY <1>2, <2>1
  <2>3. job'[t].op = "post" /\ job'[t].elfs = NewElfs
    BY <1>2, <2>1, <2>2 DEF Job
  <2>4. Linked' = Linked
    BY <2>1 DEF Linked
  <2> QED BY <2>1, <2>3, <2>4 DEF LinkedCached, NewElfs
<1>6. ASSUME UNCHANGED <<life, cache>>, job[t].op # "post" \/ job[t].at # "begin"
      PROVE  /\ LinkedCached'
             /\ \A e \in cache' \ cache : \E u \in Threads : job'[u].op = "post" /\ e \in job'[u].elfs
  <2>1. Linked' = Linked
    BY <1>6 DEF Linked
  <2>2. \A u \in Threads : job[u].op = "post" /\ job[u].at = "begin" => job'[u] = job[u]
    BY <1>1, <1>6
  <2> QED BY <1>6, <2>1, <2>2 DEF LinkedCached
<1>7. CASE \E k \in Tasks : HookCall(t, k) \/ UnhookCall(t, k)
  <2>1. UNCHANGED <<life, cache>> /\ IsIdle(t)
    BY <1>7 DEF HookCall, UnhookCall, elfVars
  <2> QED BY <1>6, <2>1, IdleHands
<1>8. CASE BeginHook(t) \/ BeginUnhook(t) \/ NextElf(t) \/ Finish(t) \/ Visit(t) \/ HookCfi(t)
           \/ VisitUnhook(t)
  <2>1. UNCHANGED <<life, cache>>
    <3>1. CASE Visit(t)
      BY <3>1, Visited
    <3> QED BY <1>8, <3>1 DEF BeginHook, BeginUnhook, NextElf, Finish, HookCfi, VisitUnhook, elfVars
  <2>2. job[t].op # "post" \/ job[t].at # "begin"
    BY <1>8 DEF BeginHook, BeginUnhook, NextElf, Finish, Visit, HookCfi, VisitUnhook
  <2> QED BY <1>6, <2>1, <2>2
<1>9. CASE PatchStep(t)
  <2>1. PICK good \in BOOLEAN : Patching(t) /\ After(t, good)
    BY <1>9, PatchGoesOn
  <2> QED BY <1>6, <2>1, AfterEffect, EntryTyped
<1> QED BY <1>1, <1>3, <1>4, <1>5, <1>7, <1>8, <1>9

\* What is under way for a task on the list and an ELF goes on, or is done, when the
\* thread moves.
LEMMA UnderWayNext ==
    ASSUME Automatic, OwnFuncs, Hooking, CallsRight, LongTerm, Next,
           NEW k \in listed \ Single, NEW e \in (cache \cap Callers[k]) \ bad', NEW t \in Threads,
           UnderWay(t, k, e)
    PROVE  DoneWith(k, e)' \/ UnderWay(t, k, e)'
<1>1. Common /\ HooksRight /\ HooksStand
  BY DEF Hooking
<1>2. PICK m \in Threads :
        /\ \A u \in Threads : u # m => job'[u] = job[u] /\ patch'[u] = patch[u]
        /\ \/ \E d \in Elfs : Load(m, d) \/ Close(m, d)
           \/ \E i \in Tasks : HookCall(m, i) \/ UnhookCall(m, i)
           \/ Refresh(m) \/ BeginHook(m) \/ BeginUnhook(m) \/ NextElf(m) \/ Finish(m)
           \/ Visit(m) \/ HookCfi(m) \/ VisitUnhook(m)
           \/ PatchStep(m)
  BY <1>1, OneMoves
<1>3. k \in Tasks /\ e \in Elfs /\ \A x \in Elements(GotsOf[e]) : x \in Gots
  BY <1>1, EntriesOf DEF Common, TypeOK
<1>4. /\ bad \subseteq bad' /\ (cfi[e] = "failed" => cfi'[e] = "failed")
      /\ told[k] \subseteq told'[k]
      /\ \A x \in Gots : FuncOf[k] \in Enabled(x) => FuncOf[k] \in Enabled(x)'
      /\ status[k] # "finished"
  BY <1>3, DoneStays DEF LongTerm
<1>5. ASSUME job'[t] = job[t], patch'[t] = patch[t] PROVE UnderWay(t, k, e)'
  BY <1>3, <1>4, <1>5 DEF UnderWay
<1>6. job \in [Threads -> Job] /\ job[t] \in Job
  BY <1>1 DEF Common, TypeOK
<1>7. SUFFICES ASSUME \/ \E d \in Elfs : Load(t, d) \/ Close(t, d)
                      \/ \E i \in Tasks : HookCall(t, i) \/ UnhookCall(t, i)
                      \/ Refresh(t) \/ BeginHook(t) \/ BeginUnhook(t) \/ NextElf(t) \/ Finish(t)
                      \/ Visit(t) \/ HookCfi(t) \/ VisitUnhook(t)
                      \/ PatchStep(t)
               PROVE  DoneWith(k, e)' \/ UnderWay(t, k, e)'
  BY <1>2, <1>5
<1>8. ~IsIdle(t)
  BY <1>1, IdleHands DEF UnderWay
<1>9. job[t].op # "unhook"
  BY DEF UnderWay
<1>10. job[t].at # "pick" => job[t].op = "hook" /\ job[t].at = "begin" /\ k \in job[t].own
  BY <1>1 DEF UnderWay, Common, InHand
<1>11. ~ (\E d \in Elfs : Load(t, d) \/ Close(t, d)) /\ ~ (\E i \in Tasks : HookCall(t, i) \/ UnhookCall(t, i))
  BY <1>8 DEF Load, Close, HookCall, UnhookCall
<1>12. ~ Refresh(t) /\ ~ BeginUnhook(t) /\ ~ VisitUnhook(t)
  BY <1>9, <1>10 DEF Refresh, BeginUnhook, VisitUnhook
<1>13. CASE HookCfi(t)
  BY <1>5, <1>13 DEF HookCfi
<1>14. CASE BeginHook(t)
  <2>1. /\ job[t].op = "hook" /\ job[t].at = "begin" /\ job[t].own = {k}
    BY <1>10, <1>14 DEF BeginHook, CallsRight
  <2>2. \E es \in Handled(k) : job' = [job EXCEPT ![t].at = "pick", ![t].pairs = {k} \X es]
    BY <1>4, <1>14, <2>1 DEF BeginHook
  <2>3. Handled(k) = {cache}
    BY DEF Handled
  <2> DEFINE ps == {k} \X cache
  <2>4. job'[t] = [job[t] EXCEPT !.at = "pick", !.pairs = ps]
    BY <1>6, <2>2, <2>3
  <2>5. <<k, e>> \in ps
    OBVIOUS
  <2> HIDE DEF ps
  <2>6. job'[t].op = "hook" /\ job'[t].pairs = ps
    BY <1>6, <2>1, <2>4 DEF Job
  <2> QED BY <2>5, <2>6 DEF UnderWay
<1>15. CASE NextElf(t)
  <2>1. job[t].at = "pick" /\ job[t].pairs = {} /\ patch[t] = NoPatch
    BY <1>15 DEF NextElf, Patching
  <2>2. job[t].op = "post" /\ e \in job[t].elfs
    BY <2>1 DEF UnderWay
  <2>3. PICK d \in job[t].elfs :
          job' = [job EXCEPT ![t].elfs = @ \ {d}, ![t].pairs = listed \X {d}]
    BY <1>15 DEF NextElf
  <2> DEFINE ps == listed \X {d}
             es == job[t].elfs \ {d}
  <2>4. job'[t] = [job[t] EXCEPT !.elfs = es, !.pairs = ps]
    BY <1>6, <2>3
  <2>5. e \in es \/ <<k, e>> \in ps
    BY <2>2
  <2> HIDE DEF ps, es
  <2>6. job'[t].op = "post" /\ job'[t].pairs = ps /\ job'[t].elfs = es
    BY <1>6, <2>2, <2>4 DEF Job
  <2> QED BY <2>5, <2>6 DEF UnderWay
<1>16. ~ Finish(t)
  BY DEF Finish, UnderWay, Patching
<1>17. CASE Visit(t)
  <2>1. /\ job[t].at = "pick" /\ job[t].op \in {"hook", "post"} /\ patch[t] = NoPatch
    BY <1>17 DEF Visit, Patching
  <2>2. PICK q \in job[t].pairs :
          /\ job' = [job EXCEPT ![t].pairs = @ \ {q}]
          /\ IF q[2] \in Callers[q[1]] /\ (job[t].op = "post" => status[q[1]] # "finished")
             THEN Refuse(q[1], q[2]) \/ NoSymbol(q[1], q[2]) \/ FindGots(t, q[1], q[2])
             ELSE UNCHANGED <<elfVars, gotVars, taskVars, patch>>
    BY <1>17 DEF Visit
  <2>3. /\ job'[t].op = job[t].op /\ job'[t].elfs = job[t].elfs
        /\ job'[t].pairs = job[t].pairs \ {q}
    BY <1>1, <2>2, PairTaken
  <2>4. CASE <<k, e>> \in job[t].pairs /\ q = <<k, e>>
    <3>1. Refuse(k, e) \/ NoSymbol(k, e) \/ FindGots(t, k, e)
      BY <1>4, <2>2, <2>4
    <3>2. CASE Refuse(k, e)
      <4>1. cfi[e] = "failed"
        BY <1>4, <3>2 DEF Refuse
      <4> QED BY <1>4, <4>1 DEF DoneWith
    <3>3. CASE NoSymbol(k, e)
      <4>1. Elements(GotsOf[e]) = {}
        BY <3>3 DEF NoSymbol, Elements
      <4> QED BY <4>1 DEF DoneWith
    <3>4. CASE FindGots(t, k, e)
      <4>1. GotsOf[e] # <<>> /\ StartPatch(t, k, e)
        BY <3>4 DEF FindGots
      <4>2. /\ patch'[t] # NoPatch
            /\ patch'[t].task = k /\ patch'[t].elf = e /\ patch'[t].gots = GotsOf[e]
        BY <1>1, <1>3, <4>1, PatchStarted
      <4> QED BY <2>1, <2>3, <4>2 DEF UnderWay
    <3> QED BY <3>1, <3>2, <3>3, <3>4
  <2>5. CASE ~ (<<k, e>> \in job[t].pairs /\ q = <<k, e>>)
    <3>1. (<<k, e>> \in job[t].pairs) \/ (job[t].op = "post" /\ e \in job[t].elfs)
      BY <2>1 DEF UnderWay
    <3> QED BY <2>1, <2>3, <2>5, <3>1 DEF UnderWay
  <2> QED BY <2>4, <2>5
<1>18. CASE PatchStep(t)
  <2>1. Patching(t)
    BY <1>18, PatchGoesOn
  <2>2. PICK g \in Gots : g = Entry(t)
    BY <1>1, <2>1, EntryTyped
  <2>3. PICK f \in Funcs : f = Func(t)
    BY <1>1, <2>1, EntryTyped
  <2>4. PICK good \in BOOLEAN :
          After(t, good) /\ (good /\ job[t].op # "unhook" => f \in Enabled(g)')
    BY <1>1, <1>18, <2>2, <2>3, EntryEffect
  <2>5. /\ job' = job /\ patch[t] \in Patch /\ patch[t].gots # <<>>
        /\ Len(patch[t].gots) = 1 => patch'[t] = NoPatch
        /\ Len(patch[t].gots) # 1 =>
             /\ patch'[t] # NoPatch
             /\ patch'[t].elf = patch[t].elf /\ patch'[t].task = patch[t].task
             /\ patch'[t].gots = Tail(patch[t].gots)
    BY <1>1, <2>1, <2>4, AfterEffect
  <2>6. CASE \/ job[t].op \in {"hook", "post"} /\ <<k, e>> \in job[t].pairs
             \/ job[t].op = "post" /\ e \in job[t].elfs
    BY <2>5, <2>6 DEF UnderWay
  <2>7. CASE /\ patch[t].task = k /\ patch[t].elf = e
             /\ \A x \in Elements(GotsOf[e]) \ Elements(patch[t].gots) : FuncOf[k] \in Enabled(x)
    <3>1. CASE ~good
      <4>1. /\ told' = [told EXCEPT ![k] = @ \cup Reports(patch[t], good)]
            /\ told \in [Tasks -> SUBSET (Elfs \X {"OK", "failed"})]
        BY <1>1, <1>9, <2>4, <2>7 DEF After, Common, TypeOK
      <4>2. <<e, "failed">> \in Reports(patch[t], good)
        BY <2>7, <3>1 DEF Reports
      <4>3. <<e, "failed">> \in told'[k]
        BY <1>3, <4>1, <4>2
      <4> QED BY <4>3 DEF DoneWith
    <3>2. CASE good
      <4>1. FuncOf[k] \in Enabled(g)'
        BY <1>9, <2>3, <2>4, <2>7, <3>2 DEF Func
      <4>2. /\ Elements(patch[t].gots) \subseteq {g} \cup Elements(Tail(patch[t].gots))
            /\ Len(patch[t].gots) = 1 => Elements(patch[t].gots) = {g}
        <5>1. patch[t].gots \in Seq(Gots) /\ g = Head(patch[t].gots)
          BY <2>2, <2>5 DEF Patch, Entry
        <5> QED BY <2>5, <5>1, RestOfEntries
      <4>3. CASE Len(patch[t].gots) = 1
        <5>1. \A x \in Elements(GotsOf[e]) : FuncOf[k] \in Enabled(x)'
          BY <1>3, <1>4, <2>7, <4>1, <4>2, <4>3
        <5> QED BY <5>1 DEF DoneWith
      <4>4. CASE Len(patch[t].gots) # 1
        <5>1. \A x \in Elements(GotsOf[e]) \ Elements(patch'[t].gots) : FuncOf[k] \in Enabled(x)'
          BY <1>3, <1>4, <2>5, <2>7, <4>1, <4>2, <4>4
        <5> QED BY <1>9, <2>5, <2>7, <4>4, <5>1 DEF UnderWay
      <4> QED BY <4>3, <4>4
    <3> QED BY <3>1, <3>2
  <2>8. job[t].at = "pick"
    BY <1>1, <2>1, EntryTyped
  <2> QED BY <2>6, <2>7, <2>8 DEF UnderWay
<1> QED BY <1>7, <1>11, <1>12, <1>13, <1>14, <1>15, <1>16, <1>17, <1>18

\* A task comes onto the list by its hook call.
LEMMA WhoLists ==
    ASSUME Common, Next, NEW k \in listed' \ listed
    PROVE  \E t \in Threads : job'[t].op = "hook" /\ job'[t].at = "begin" /\ k \in job'[t].own
<1>1. PICK t \in Threads :
        /\ \A u \in Threads : u # t => job'[u] = job[u] /\ patch'[u] = patch[u]
        /\ \/ \E e \in Elfs : Load(t, e) \/ Close(t, e)
           \/ \E i \in Tasks : HookCall(t, i) \/ UnhookCall(t, i)
           \/ Refresh(t) \/ BeginHook(t) \/ BeginUnhook(t) \/ NextElf(t) \/ Finish(t)
           \/ Visit(t) \/ HookCfi(t) \/ VisitUnhook(t)
           \/ PatchStep(t)
  BY OneMoves
<1>2. CASE \E i \in Tasks : HookCall(t, i)
  <2>1. PICK i \in Tasks : HookCall(t, i)
    BY <1>2
  <2>2. i = k /\ job' = [job EXCEPT ![t] = Start("hook", {i})]
    BY <2>1 DEF HookCall
  <2>3. job'[t] = Start("hook", {k})
    BY <2>2 DEF Common, TypeOK
  <2>4. job'[t].op = "hook" /\ job'[t].at = "begin" /\ k \in job'[t].own
    BY <2>3 DEF Start
  <2> QED BY <2>4
<1>3. CASE \/ \E e \in Elfs : Load(t, e) \/ Close(t, e)
           \/ \E i \in Tasks : UnhookCall(t, i)
           \/ Refresh(t) \/ BeginHook(t) \/ BeginUnhook(t) \/ NextElf(t) \/ Finish(t)
           \/ HookCfi(t) \/ VisitUnhook(t)
  BY <1>3 DEF Load, Close, UnhookCall, Unlisted, Refresh, BeginHook, BeginUnhook, NextElf, Finish, HookCfi,
              VisitUnhook, taskVars
<1>4. CASE Visit(t)
  BY <1>4, Visited
<1>5. CASE PatchStep(t)
  BY <1>5, PatchGoesOn, AfterEffect
<1> QED BY <1>1, <1>2, <1>3, <1>4, <1>5

LEMMA CoveringNext ==
    ASSUME Automatic, OwnFuncs, OneLoader, Hooking, Hooking', Covering, [Next]_vars
    PROVE  Covering'
<1>1. CASE UNCHANGED vars
  <2>1. UNCHANGED <<life, cache, bad, cfi, got, hooks, objs, listed, status, manualOrig, saved, told,
                    job, patch>>
    BY <1>1 DEF vars, elfVars, gotVars, taskVars
  <2>2. CallsRight' /\ LinkedCached' /\ LongTerm'
    BY <2>1 DEF Covering, CallsRight, LinkedCached, LongTerm, Linked
  <2>3. NoneForgotten'
    <3>1. \A g \in Gots : Enabled(g)' = Enabled(g)
      BY <2>1 DEF Enabled
    <3>2. ASSUME NEW k, NEW e \in Elfs
          PROVE  /\ DoneWith(k, e)' <=> DoneWith(k, e)
                 /\ \A t \in Threads : UnderWay(t, k, e)' <=> UnderWay(t, k, e)
      <4>1. \A g \in Elements(GotsOf[e]) : g \in Gots
        BY EntriesOf
      <4> QED BY <2>1, <3>1, <4>1 DEF DoneWith, UnderWay
    <3>3. cache \subseteq Elfs /\ NoneForgotten
      BY DEF Hooking, Common, TypeOK, Covering
    <3> QED BY <2>1, <3>2, <3>3 DEF NoneForgotten
  <2> QED BY <2>2, <2>3 DEF Covering
<1>2. CASE Next
  <2>1. Common /\ CallsRight /\ LinkedCached /\ LongTerm /\ NoneForgotten
    BY DEF Hooking, Covering
  <2>2. CallsRight'
    BY <1>2, <2>1, CallsRightNext
  <2>3. /\ LinkedCached'
        /\ \A e \in cache' \ cache : \E t \in Threads : job'[t].op = "post" /\ e \in job'[t].elfs
    BY <1>2, <2>1, LinkedCachedNext
  <2>4. LongTerm'
    BY <1>2, <2>1, DoneStays DEF LongTerm
  <2>5. NoneForgotten'
    <3> SUFFICES ASSUME NEW k \in listed' \ Single, NEW e \in (cache' \cap Callers[k]) \ bad'
                 PROVE  DoneWith(k, e)' \/ \E t \in Threads : UnderWay(t, k, e)'
      BY DEF NoneForgotten
    <3>1. k \in Tasks /\ e \in Elfs
      BY DEF Hooking, Common, TypeOK
    <3>2. CASE k \notin listed
      BY <1>2, <2>1, <3>2, WhoLists DEF UnderWay
    <3>3. CASE e \notin cache
      BY <2>3, <3>3 DEF UnderWay
    <3>4. CASE k \in listed /\ e \in cache
      <4>1. /\ bad \subseteq bad' /\ (cfi[e] = "failed" => cfi'[e] = "failed")
            /\ told[k] \subseteq told'[k]
            /\ \A x \in Gots : FuncOf[k] \in Enabled(x) => FuncOf[k] \in Enabled(x)'
        BY <1>2, <3>1, <3>4, DoneStays
      <4>2. CASE DoneWith(k, e)
        <5>1. \A x \in Elements(GotsOf[e]) : x \in Gots
          BY <3>1, EntriesOf
        <5> QED BY <4>1, <4>2, <5>1 DEF DoneWith
      <4>3. ASSUME NEW t \in Threads, UnderWay(t, k, e)
            PROVE  DoneWith(k, e)' \/ UnderWay(t, k, e)'
        BY <1>2, <2>1, <3>4, <4>3, UnderWayNext
      <4> QED BY <2>1, <3>4, <4>1, <4>2, <4>3 DEF NoneForgotten
    <3> QED BY <3>2, <3>3, <3>4
  <2> QED BY <2>2, <2>3, <2>4, <2>5 DEF Covering
<1> QED BY <1>1, <1>2

\* When no hook or post-dlopen call is under way, a task on the list that is not of
\* type SINGLE is hooked in every cached library it matches, or was told that it is
\* not (bh_task_manager_add, bh_elf_manager_refresh, bh_task_manager_post_new_elf): a
\* hook call that copies the cache too early for a new library is on the list before
\* the library's dlopen takes the tasks from it.  Libraries are opened and closed by
\* one thread, and tasks have functions of their own.
THEOREM NoElfMissedHolds ==
    ASSUME Automatic, Apart, OwnFuncs, OneLoader
    PROVE  Spec => []NoElfMissed
<1>1. Init => Covering
  <2> SUFFICES ASSUME Init PROVE Covering
    OBVIOUS
  <2>1. Linked = Preloaded
    BY DEF Init, Linked
  <2> QED BY <2>1 DEF Init, Covering, CallsRight, LinkedCached, LongTerm, NoneForgotten, NoJob
<1>2. Hooking /\ [Next]_vars => Hooking'
  BY HookingNext
<1>3. Hooking /\ Hooking' /\ Covering /\ [Next]_vars => Covering'
  BY CoveringNext
<1>4. Hooking /\ Covering => NoElfMissed
  <2> SUFFICES ASSUME Hooking, Covering, \A t \in Threads : job[t].op \notin {"hook", "post"},
                      NEW k \in listed \ Single, NEW e \in (cache \cap Callers[k]) \ bad
               PROVE  DoneWith(k, e)
    BY DEF NoElfMissed, DoneWith
  <2>1. ASSUME NEW t \in Threads PROVE ~ UnderWay(t, k, e)
    <3>1. job[t].op = "none" \/ job[t].op = "unhook"
      BY JobFields DEF Hooking
    <3>2. job[t].op = "none" => patch[t] = NoPatch
      BY DEF Hooking, Common, InHand
    <3> QED BY <3>1, <3>2 DEF UnderWay
  <2> QED BY <2>1 DEF Covering, NoneForgotten
<1> QED BY <1>1, <1>2, <1>3, <1>4, HookingInit, PTL DEF Spec

(***************************************************************************)
(* Manual mode: an unhook restores what it replaced                          *)
(***************************************************************************)
\* The entries a task replaces are replaced by no other task.
Alone ==
    \A j, k \in Tasks : j # k => \A d \in Callers[j], e \in Callers[k] :
        Elements(GotsOf[d]) \cap Elements(GotsOf[e]) = {}

\* A write that does not succeed traps.
WrittenOrTrapped == Outcomes \subseteq {"done", "fault"}

\* What the task remembers is right for the entry, or known to be of no use.
Kept(k, g) == manualOrig[k] \in {OrigOf[g], Invalid}

\* A task remembers the functions of all entries of an ELF it was told is hooked.
ToldKept ==
    \A k \in Tasks, e \in Elfs : <<e, "OK">> \in told[k] =>
        /\ e \in Callers[k] /\ Seen(e)
        /\ \A g \in Elements(GotsOf[e]) : Kept(k, g)

\* So far of the ELF at hand, too.
SoFarKept(t) ==
    patch[t] # NoPatch =>
        /\ patch[t].elf \in Callers[patch[t].task]
        /\ job[t].op # "unhook" /\ patch[t].ok =>
            \A g \in Elements(GotsOf[patch[t].elf]) \ Elements(patch[t].gots) : Kept(patch[t].task, g)

\* Until its unhook, a task's entries hold their own functions, or the proxy in
\* place of what is remembered.
ReplacedKept ==
    \A k \in Tasks : status[k] \notin Left => \A e \in Callers[k] : \A g \in Elements(GotsOf[e]) :
        got[g] = OrigOf[g] \/ (got[g] = FuncOf[k] /\ Kept(k, g))

\* An unhook has still to visit the entries that it has not restored.
StillToRestore(t) ==
    job[t].op = "unhook" /\ job[t].at = "pick" =>
        \A k \in job[t].own, e \in cache \ bad : <<e, "OK">> \in told[k] =>
            \A g \in Elements(GotsOf[e]) : got[g] = OrigOf[g] \/ ToVisit(t, k, e, g)

Restoring ==
    /\ ToldKept /\ ReplacedKept /\ Restored
    /\ \A t \in Threads : SoFarKept(t) /\ StillToRestore(t)

\* What the work on one entry does to it, and to what is remembered of it.
LEMMA ManualEffect ==
    ASSUME Manual, WrittenOrTrapped, Common, NEW t \in Threads, PatchStep(t),
           NEW g \in Gots, g = Entry(t), NEW k \in Tasks, k = patch[t].task
    PROVE  \E good \in BOOLEAN :
             /\ After(t, good)
             /\ \/ ~good /\ UNCHANGED <<got, manualOrig>> /\ bad' = bad \cup {patch[t].elf}
                \/ ~good /\ UNCHANGED <<got, manualOrig, bad>> /\ job[t].op # "unhook"
                \/ /\ got' = [got EXCEPT ![g] = FuncOf[k]]
                   /\ manualOrig' = [manualOrig EXCEPT ![k] = Remembered(k, got[g])]
                   /\ UNCHANGED bad /\ job[t].op # "unhook"
                \/ /\ got' = [got EXCEPT ![g] = manualOrig[k]]
                   /\ UNCHANGED <<bad, manualOrig>> /\ job[t].op = "unhook"
<1>1. CASE Fault(t)
  BY <1>1 DEF Fault, gotVars
<1>2. CASE Replace(t)
  <2>1. /\ got' = [got EXCEPT ![g] = FuncOf[k]]
        /\ manualOrig' = [manualOrig EXCEPT ![k] = Remembered(k, got[g])]
        /\ UNCHANGED bad /\ job[t].op # "unhook" /\ After(t, TRUE)
    BY <1>2 DEF Replace, AtEntry, Func
  <2> QED BY <2>1
<1>3. CASE ReplaceFails(t)
  BY <1>3 DEF ReplaceFails, AtEntry, gotVars
<1>4. CASE Restore(t)
  <2>1. PICK r \in Outcomes \ {"fault"} :
          /\ got' = IF r = "done" THEN [got EXCEPT ![g] = manualOrig[k]] ELSE got
          /\ After(t, r = "done")
    BY <1>4 DEF Restore
  <2>2. r = "done"
    BY DEF WrittenOrTrapped
  <2>3. /\ got' = [got EXCEPT ![g] = manualOrig[k]]
        /\ UNCHANGED <<bad, manualOrig>> /\ job[t].op = "unhook" /\ After(t, TRUE)
    BY <1>4, <2>1, <2>2 DEF Restore, AtEntry
  <2> QED BY <2>3
<1> QED BY <1>1, <1>2, <1>3, <1>4 DEF PatchStep, Create, CreateFails, Join, Leave, LeaveNothing

\* The entry a thread is at is one of its ELF.
LEMMA EntryOfElf ==
    ASSUME Common, NEW t \in Threads, Patching(t)
    PROVE  /\ Entry(t) \in Elements(GotsOf[patch[t].elf])
           /\ patch[t].elf \in Elfs /\ patch[t].task \in Tasks
           /\ Elements(patch[t].gots) \subseteq {Entry(t)} \cup Elements(Tail(patch[t].gots))
           /\ Len(patch[t].gots) = 1 => Elements(patch[t].gots) = {Entry(t)}
<1>1. /\ patch[t].gots \in Seq(Gots) /\ patch[t].gots # <<>>
      /\ patch[t].elf \in Elfs /\ patch[t].task \in Tasks
      /\ Elements(patch[t].gots) \subseteq Elements(GotsOf[patch[t].elf])
  BY EntryTyped DEF Common, InHand, Patching, Patch
<1>2. /\ Head(patch[t].gots) \in Elements(patch[t].gots)
      /\ Elements(patch[t].gots) \subseteq {Head(patch[t].gots)} \cup Elements(Tail(patch[t].gots))
      /\ Len(patch[t].gots) = 1 => Elements(patch[t].gots) = {Head(patch[t].gots)}
  BY <1>1, RestOfEntries
<1> QED BY <1>1, <1>2 DEF Entry

\* What is remembered of an entry that held its own function, or the proxy in place of
\* what is remembered.
LEMMA RememberedKept ==
    ASSUME NEW k \in Tasks, NEW g \in Gots,
           got[g] = OrigOf[g] \/ (got[g] = FuncOf[k] /\ Kept(k, g)),
           manualOrig \in [Tasks -> Value \cup {Unset, Invalid}],
           manualOrig' = [manualOrig EXCEPT ![k] = Remembered(k, got[g])]
    PROVE  Kept(k, g)'
<1>1. manualOrig'[k] = Remembered(k, got[g])
  OBVIOUS
<1>2. OrigOf[g] \in Origs /\ FuncOf[k] \in Funcs
  OBVIOUS
<1>3. Unset # OrigOf[g] /\ FuncOf[k] # OrigOf[g] /\ FuncOf[k] # Invalid
  BY <1>2
<1>4. Unset # Invalid
  OBVIOUS
<1>5. CASE got[g] = OrigOf[g]
  BY <1>1, <1>3, <1>5 DEF Kept, Remembered
<1>6. CASE got[g] = FuncOf[k] /\ Kept(k, g)
  BY <1>1, <1>3, <1>4, <1>6 DEF Kept, Remembered
<1> QED BY <1>5, <1>6

\* A task that has left the list does not come back.
LEMMA LeftStays ==
    ASSUME Common, Next
    PROVE  \A k \in Tasks : status[k] \in Left => status'[k] \in Left
<1>1. PICK t \in Threads :
        \/ \E e \in Elfs : Load(t, e) \/ Close(t, e)
        \/ \E k \in Tasks : HookCall(t, k) \/ UnhookCall(t, k)
        \/ Refresh(t) \/ BeginHook(t) \/ BeginUnhook(t) \/ NextElf(t) \/ Finish(t)
        \/ Visit(t) \/ HookCfi(t) \/ VisitUnhook(t)
        \/ PatchStep(t)
  BY DEF Next, PatchStep
<1>2. status \in [Tasks -> {"new", "unfinished", "finished", "longterm", "unlisted",
                            "unhooking", "destroyed", "unmatched"}]
  BY DEF Common, TypeOK
<1>3. CASE \/ \E e \in Elfs : Load(t, e) \/ Close(t, e)
           \/ Refresh(t) \/ BeginHook(t) \/ NextElf(t) \/ HookCfi(t) \/ VisitUnhook(t)
  <2>1. status' = status
    BY <1>3 DEF Load, Close, Refresh, BeginHook, NextElf, HookCfi, VisitUnhook, taskVars
  <2> QED BY <2>1
<1>4. CASE \E i \in Tasks : HookCall(t, i)
  <2>1. PICK i \in Tasks : HookCall(t, i)
    BY <1>4
  <2>2. status[i] = "new" /\ \E s : status' = [status EXCEPT ![i] = s]
    BY <2>1 DEF HookCall
  <2> QED BY <1>2, <2>2 DEF Left
<1>5. CASE (\E i \in Tasks : UnhookCall(t, i)) \/ BeginUnhook(t)
  <2>1. \E i \in Tasks, s \in Left : status' = [status EXCEPT ![i] = s]
    BY <1>5, JobFields DEF UnhookCall, BeginUnhook, Left
  <2> QED BY <1>2, <2>1
<1>6. CASE Finish(t)
  <2>1. \A k \in Tasks : status'[k] \in {"destroyed", status[k]}
    BY <1>6 DEF Finish
  <2> QED BY <2>1 DEF Left
<1>7. CASE Visit(t)
  <2>1. PICK q \in job[t].pairs :
          /\ q[1] \in Tasks /\ job[t].op \in {"hook", "post"}
          /\ \A i \in Tasks : status'[i] = status[i] \/ (i = q[1] /\ status'[i] = "finished")
    BY <1>7, Visited
  <2>2. q[1] \in listed
    BY <2>1 DEF Common, TasksRight
  <2> QED BY <2>1, <2>2, KindsApart
<1>8. CASE PatchStep(t)
  <2>1. PICK good \in BOOLEAN : Patching(t) /\ After(t, good)
    BY <1>8, PatchGoesOn
  <2>2. \A k \in Tasks :
          \/ status'[k] = status[k]
          \/ k = patch[t].task /\ job[t].op # "unhook" /\ status'[k] = "finished"
    BY <2>1, AfterEffect
  <2> QED BY <2>1, <2>2, WhoseWork, KindsApart
<1> QED BY <1>1, <1>3, <1>4, <1>5, <1>6, <1>7, <1>8

\* What a step does to an entry, and to what is remembered.
LEMMA GotSteps ==
    ASSUME Manual, WrittenOrTrapped, Common, ReplacedKept, \A t \in Threads : SoFarKept(t), Next
    PROVE  /\ bad \subseteq bad'
           /\ \A k \in Tasks, x \in Gots : Kept(k, x) => Kept(k, x)'
           /\ \A x \in Gots :
                \/ got'[x] \in {got[x], OrigOf[x]}
                \/ \E t \in Threads, k \in Tasks :
                     /\ Patching(t) /\ k = patch[t].task /\ patch[t].elf \in Callers[k]
                     /\ x \in Elements(GotsOf[patch[t].elf])
                     /\ \/ job[t].op # "unhook" /\ got'[x] = FuncOf[k] /\ Kept(k, x)'
                        \/ job[t].op = "unhook" /\ got'[x] = manualOrig[k]
<1>1. PICK t \in Threads :
             \/ \E e \in Elfs : Load(t, e)
             \/ Visit(t)
             \/ PatchStep(t)
             \/ UNCHANGED <<bad, got, manualOrig>>
  BY KindsOfSteps
<1>2. CASE UNCHANGED <<bad, got, manualOrig>>
  BY <1>2 DEF Kept
<1>3. CASE \E e \in Elfs : Load(t, e)
  <2>1. /\ \A x \in Gots : got'[x] \in {got[x], OrigOf[x]}
        /\ UNCHANGED <<bad, manualOrig>>
    BY <1>3 DEF Load, taskVars
  <2> QED BY <2>1 DEF Kept
<1>4. CASE Visit(t)
  <2>1. UNCHANGED <<bad, got, manualOrig>>
    BY <1>4, Visited
  <2> QED BY <1>2, <2>1
<1>5. CASE PatchStep(t)
  <2>1. Patching(t)
    BY <1>5, PatchGoesOn
  <2>2. PICK g \in Gots : g = Entry(t)
    BY <2>1, EntryTyped
  <2>3. PICK k \in Tasks : k = patch[t].task
    BY <2>1, EntryTyped
  <2>4. /\ g \in Elements(GotsOf[patch[t].elf]) /\ patch[t].elf \in Callers[k]
    BY <2>1, <2>2, <2>3, EntryOfElf DEF SoFarKept, Patching
  <2>5. got \in [Gots -> Value] /\ manualOrig \in [Tasks -> Value \cup {Unset, Invalid}]
    BY DEF Common, TypeOK
  <2>6. \/ UNCHANGED <<got, manualOrig>> /\ bad \subseteq bad'
        \/ /\ got' = [got EXCEPT ![g] = FuncOf[k]]
           /\ manualOrig' = [manualOrig EXCEPT ![k] = Remembered(k, got[g])]
           /\ UNCHANGED bad /\ job[t].op # "unhook"
        \/ /\ got' = [got EXCEPT ![g] = manualOrig[k]]
           /\ UNCHANGED <<bad, manualOrig>> /\ job[t].op = "unhook"
    BY <1>5, <2>2, <2>3, ManualEffect
  <2>7. CASE UNCHANGED <<got, manualOrig>> /\ bad \subseteq bad'
    BY <2>7 DEF Kept
  <2>8. CASE /\ got' = [got EXCEPT ![g] = FuncOf[k]]
             /\ manualOrig' = [manualOrig EXCEPT ![k] = Remembered(k, got[g])]
             /\ UNCHANGED bad /\ job[t].op # "unhook"
    <3>1. status[k] \notin Left
      BY <2>1, <2>3, <2>8, WhoseWork, KindsApart
    <3>2. got[g] = OrigOf[g] \/ (got[g] = FuncOf[k] /\ Kept(k, g))
      BY <2>4, <3>1 DEF ReplacedKept
    <3>3. Kept(k, g)'
      BY <2>5, <2>8, <3>2, RememberedKept
    <3>4. ASSUME NEW i \in Tasks, NEW x \in Gots, Kept(i, x) PROVE Kept(i, x)'
      <4>1. manualOrig'[i] = IF i = k THEN Remembered(k, got[g]) ELSE manualOrig[i]
        BY <2>5, <2>8
      <4>2. OrigOf[x] # Unset /\ Invalid # Unset
        OBVIOUS
      <4> QED BY <3>4, <4>1, <4>2 DEF Kept, Remembered
    <3>5. \A x \in Gots : got'[x] = IF x = g THEN FuncOf[k] ELSE got[x]
      BY <2>5, <2>8
    <3> QED BY <2>1, <2>3, <2>4, <2>8, <3>3, <3>4, <3>5
  <2>9. CASE /\ got' = [got EXCEPT ![g] = manualOrig[k]]
             /\ UNCHANGED <<bad, manualOrig>> /\ job[t].op = "unhook"
    <3>1. \A x \in Gots : got'[x] = IF x = g THEN manualOrig[k] ELSE got[x]
      BY <2>5, <2>9
    <3>2. \A i \in Tasks, x \in Gots : Kept(i, x) => Kept(i, x)'
      BY <2>9 DEF Kept
    <3> QED BY <2>1, <2>3, <2>4, <2>9, <3>1, <3>2
  <2> QED BY <2>6, <2>7, <2>8, <2>9
<1> QED BY <1>1, <1>2, <1>3, <1>4, <1>5

\* A restored entry of a task that has left the list stays as it is.
LEMMA StaysRestored ==
    ASSUME Manual, Alone, WrittenOrTrapped, Common, Restoring, Next,
           NEW k \in Tasks, NEW e \in Elfs, <<e, "OK">> \in told[k], status[k] \in Left,
           NEW x \in Elements(GotsOf[e])
    PROVE  /\ got[x] = OrigOf[x] => got'[x] = OrigOf[x]
           /\ got'[x] # got[x] => got'[x] = OrigOf[x]
<1>1. x \in Gots /\ e \in Callers[k] /\ Kept(k, x)
  BY EntriesOf DEF Restoring, ToldKept
<1>2. \/ got'[x] \in {got[x], OrigOf[x]}
      \/ \E t \in Threads :
           /\ Patching(t) /\ patch[t].elf \in Callers[patch[t].task]
           /\ x \in Elements(GotsOf[patch[t].elf])
           /\ \/ job[t].op # "unhook"
              \/ job[t].op = "unhook" /\ got'[x] = manualOrig[patch[t].task]
  BY <1>1, GotSteps DEF Restoring
<1>3. ASSUME NEW t \in Threads, Patching(t), patch[t].elf \in Callers[patch[t].task],
             x \in Elements(GotsOf[patch[t].elf]),
             \/ job[t].op # "unhook"
             \/ job[t].op = "unhook" /\ got'[x] = manualOrig[patch[t].task]
      PROVE  got'[x] = OrigOf[x]
  <2>1. patch[t].task = k
    BY <1>1, <1>3, EntryTyped DEF Alone
  <2>2. k \notin listed
    BY KindsApart
  <2>3. job[t].op = "unhook" /\ k \in job[t].own /\ job[t].at = "pick"
    BY <1>3, <2>1, <2>2, WhoseWork, EntryTyped
  <2>4. manualOrig[k] \in Value
    BY <2>3 DEF Common, TasksRight
  <2>5. Invalid \notin Value
    BY DEF Value
  <2> QED BY <1>1, <1>3, <2>1, <2>3, <2>4, <2>5 DEF Kept
<1> QED BY <1>2, <1>3

\* What a task is told is right.
LEMMA ToldNext ==
    ASSUME Manual, WrittenOrTrapped, Common, Restoring, Next,
           NEW k \in Tasks, NEW e \in Elfs, <<e, "OK">> \in told'[k], <<e, "OK">> \notin told[k]
    PROVE  /\ k \in listed /\ e \in Callers[k] /\ Seen(e)
           /\ \A x \in Elements(GotsOf[e]) : Kept(k, x)'
<1>1. PICK t \in Threads :
             \/ \E d \in Elfs : Load(t, d)
             \/ Visit(t)
             \/ PatchStep(t)
             \/ UNCHANGED told
  BY KindsOfSteps
<1>2. PatchStep(t)
  <2>1. ~ \E d \in Elfs : Load(t, d)
    BY DEF Load, taskVars
  <2>2. ~ Visit(t)
    BY Visited
  <2> QED BY <1>1, <2>1, <2>2
<1>3. Patching(t)
  BY <1>2, PatchGoesOn
<1>4. PICK g \in Gots : g = Entry(t)
  BY <1>3, EntryTyped
<1>5. PICK i \in Tasks : i = patch[t].task
  BY <1>3, EntryTyped
<1>6. PICK good \in BOOLEAN :
        /\ After(t, good)
        /\ \/ ~good
           \/ /\ got' = [got EXCEPT ![g] = FuncOf[i]]
              /\ manualOrig' = [manualOrig EXCEPT ![i] = Remembered(i, got[g])]
              /\ job[t].op # "unhook"
           \/ job[t].op = "unhook"
  BY <1>2, <1>4, <1>5, ManualEffect
<1>7. /\ job[t].op # "unhook" /\ k = patch[t].task /\ e = patch[t].elf
      /\ good /\ patch[t].ok /\ Len(patch[t].gots) = 1
  BY <1>3, <1>6, AfterEffect
<1>8. k \in listed /\ e \in Callers[k] /\ e \in cache
  BY <1>3, <1>7, WhoseWork, EntryTyped DEF Restoring, SoFarKept, Patching
<1>9. status[k] \notin Left
  BY <1>8, KindsApart
<1>10. g \in Elements(GotsOf[e]) /\ Elements(patch[t].gots) = {g}
  BY <1>3, <1>4, <1>7, EntryOfElf
<1>11. got[g] = OrigOf[g] \/ (got[g] = FuncOf[k] /\ Kept(k, g))
  BY <1>8, <1>9, <1>10 DEF Restoring, ReplacedKept
<1>12. Kept(k, g)'
  <2>1. /\ manualOrig' = [manualOrig EXCEPT ![k] = Remembered(k, got[g])]
        /\ manualOrig \in [Tasks -> Value \cup {Unset, Invalid}]
    BY <1>5, <1>6, <1>7 DEF Common, TypeOK
  <2> QED BY <1>11, <2>1, RememberedKept
<1>13. ASSUME NEW x \in Elements(GotsOf[e]), x # g PROVE Kept(k, x)'
  <2>1. Kept(k, x)
    BY <1>3, <1>7, <1>10, <1>13 DEF Restoring, SoFarKept, Patching
  <2>2. x \in Gots
    BY EntriesOf
  <2> QED BY <2>1, <2>2, GotSteps DEF Restoring
<1> QED BY <1>8, <1>12, <1>13 DEF Seen

LEMMA SoFarKeptNext ==
    ASSUME Manual, WrittenOrTrapped, Common, Restoring, Next, NEW u \in Threads
    PROVE  SoFarKept(u)'
<1>1. PICK t \in Threads :
        /\ \A v \in Threads : v # t => job'[v] = job[v] /\ patch'[v] = patch[v]
        /\ \/ \E e \in Elfs : Load(t, e) \/ Close(t, e)
           \/ \E k \in Tasks : HookCall(t, k) \/ UnhookCall(t, k)
           \/ Refresh(t) \/ BeginHook(t) \/ BeginUnhook(t) \/ NextElf(t) \/ Finish(t)
           \/ Visit(t) \/ HookCfi(t) \/ VisitUnhook(t)
           \/ PatchStep(t)
  BY OneMoves
<1>2. \A k \in Tasks, x \in Gots : Kept(k, x) => Kept(k, x)'
  BY GotSteps DEF Restoring
<1>3. ASSUME patch'[u] = patch[u], job'[u] = job[u] \/ patch[u] = NoPatch PROVE SoFarKept(u)'
  <2> SUFFICES ASSUME patch[u] # NoPatch PROVE SoFarKept(u)'
    BY <1>3 DEF SoFarKept
  <2>1. PICK k \in Tasks, d \in Elfs : k = patch[u].task /\ d = patch[u].elf
    BY EntryTyped DEF Patching, Patch
  <2>2. /\ d \in Callers[k]
        /\ job[u].op # "unhook" /\ patch[u].ok =>
             \A x \in Elements(GotsOf[d]) \ Elements(patch[u].gots) : Kept(k, x)
    BY <2>1 DEF Restoring, SoFarKept
  <2>3. \A x \in Elements(GotsOf[d]) : x \in Gots
    BY EntriesOf
  <2>4. k = patch'[u].task /\ d = patch'[u].elf /\ patch'[u].gots = patch[u].gots
    BY <1>3, <2>1
  <2>5. job'[u].op # "unhook" /\ patch'[u].ok =>
             \A x \in Elements(GotsOf[d]) \ Elements(patch'[u].gots) : Kept(k, x)'
    BY <1>2, <1>3, <2>2, <2>3, <2>4
  <2> QED BY <2>2, <2>4, <2>5 DEF SoFarKept, Kept
<1>4. CASE u # t
  BY <1>1, <1>3, <1>4
<1>5. CASE u = t /\ ~PatchStep(t) /\ ~Visit(t) /\ ~VisitUnhook(t)
  <2>1. CASE \E e \in Elfs : Load(t, e)
    BY <1>3, <1>5, <2>1, IdleHands DEF Load
  <2>2. CASE \E e \in Elfs : Close(t, e)
    BY <1>3, <1>5, <2>2 DEF Close
  <2>3. CASE \E k \in Tasks : HookCall(t, k) \/ UnhookCall(t, k)
    BY <1>3, <1>5, <2>3, IdleHands DEF HookCall, UnhookCall
  <2>4. CASE Refresh(t) \/ BeginHook(t) \/ BeginUnhook(t)
    <3>1. patch[t] = NoPatch /\ patch' = patch
      BY <2>4 DEF Common, InHand, Refresh, BeginHook, BeginUnhook
    <3> QED BY <1>3, <1>5, <3>1
  <2>5. CASE NextElf(t) \/ Finish(t)
    BY <1>3, <1>5, <2>5 DEF NextElf, Finish, Patching
  <2>6. CASE HookCfi(t)
    BY <1>3, <1>5, <2>6 DEF HookCfi
  <2> QED BY <1>1, <1>5, <2>1, <2>2, <2>3, <2>4, <2>5, <2>6
<1>6. CASE u = t /\ Visit(t)
  <2>1. patch'[t] # NoPatch =>
          /\ patch'[t].elf \in Callers[patch'[t].task]
          /\ patch'[t].gots = GotsOf[patch'[t].elf]
    BY <1>6, Visited
  <2> QED BY <1>6, <2>1 DEF SoFarKept
<1>7. CASE u = t /\ VisitUnhook(t)
  <2>1. PICK q \in job[t].pairs :
          /\ job' = [job EXCEPT ![t].pairs = @ \ {q}]
          /\ IF q[2] \in Callers[q[1]] \ bad /\ GotsOf[q[2]] # <<>>
             THEN StartPatch(t, q[1], q[2])
             ELSE UNCHANGED patch
    BY <1>7 DEF VisitUnhook
  <2>2. job[t].op = "unhook" /\ patch[t] = NoPatch
    BY <1>7 DEF VisitUnhook, Patching
  <2>3. job'[t].op = "unhook" /\ q[1] \in Tasks /\ q[2] \in Elfs
    BY <2>1, <2>2, PairTaken
  <2>4. CASE q[2] \in Callers[q[1]] \ bad /\ GotsOf[q[2]] # <<>>
    <3>1. patch'[t].task = q[1] /\ patch'[t].elf = q[2]
      BY <2>1, <2>3, <2>4, PatchStarted
    <3> QED BY <1>7, <2>3, <2>4, <3>1 DEF SoFarKept
  <2>5. CASE ~ (q[2] \in Callers[q[1]] \ bad /\ GotsOf[q[2]] # <<>>)
    BY <1>3, <1>7, <2>1, <2>2, <2>5
  <2> QED BY <2>4, <2>5
<1>8. CASE u = t /\ PatchStep(t)
  <2>1. Patching(t)
    BY <1>8, PatchGoesOn
  <2>2. PICK g \in Gots : g = Entry(t)
    BY <2>1, EntryTyped
  <2>3. PICK k \in Tasks, d \in Elfs : k = patch[t].task /\ d = patch[t].elf
    BY <2>1, EntryOfElf
  <2>4. PICK good \in BOOLEAN :
          /\ After(t, good)
          /\ \/ ~good
             \/ /\ got' = [got EXCEPT ![g] = FuncOf[k]]
                /\ manualOrig' = [manualOrig EXCEPT ![k] = Remembered(k, got[g])]
                /\ job[t].op # "unhook"
             \/ job[t].op = "unhook"
    BY <1>8, <2>2, <2>3, ManualEffect
  <2>5. /\ job' = job
        /\ patch'[t] # NoPatch =>
             /\ patch'[t].elf = d /\ patch'[t].task = k
             /\ patch'[t].gots = Tail(patch[t].gots)
             /\ patch'[t].ok = (patch[t].ok /\ good)
    BY <2>1, <2>3, <2>4, AfterEffect
  <2>6. d \in Callers[k]
    BY <2>1, <2>3 DEF Restoring, SoFarKept, Patching
  <2>7. /\ g \in Elements(GotsOf[d])
        /\ Elements(patch[t].gots) \subseteq {g} \cup Elements(Tail(patch[t].gots))
    BY <2>1, <2>2, <2>3, EntryOfElf
  <2>8. ASSUME job[t].op # "unhook", patch[t].ok, good,
               NEW x \in Elements(GotsOf[d]), x \notin Elements(Tail(patch[t].gots))
        PROVE  Kept(k, x)'
    <3>1. x \in Gots
      BY EntriesOf
    <3>2. CASE x = g
      <4>1. status[k] \notin Left
        BY <2>1, <2>3, <2>8, WhoseWork, KindsApart
      <4>2. got[g] = OrigOf[g] \/ (got[g] = FuncOf[k] /\ Kept(k, g))
        BY <2>6, <2>7, <4>1 DEF Restoring, ReplacedKept
      <4>3. /\ manualOrig' = [manualOrig EXCEPT ![k] = Remembered(k, got[g])]
            /\ manualOrig \in [Tasks -> Value \cup {Unset, Invalid}]
        BY <2>4, <2>8 DEF Common, TypeOK
      <4>4. Kept(k, g)'
        BY <4>2, <4>3, RememberedKept
      <4> QED BY <3>2, <4>4
    <3>3. CASE x # g
      <4>1. Kept(k, x)
        BY <2>1, <2>3, <2>7, <2>8, <3>3 DEF Restoring, SoFarKept, Patching
      <4> QED BY <1>2, <3>1, <4>1
    <3> QED BY <3>2, <3>3
  <2>9. ASSUME patch'[t] # NoPatch PROVE SoFarKept(t)'
    BY <2>5, <2>6, <2>8, <2>9 DEF SoFarKept, Kept
  <2> QED BY <1>8, <2>9 DEF SoFarKept
<1> QED BY <1>1, <1>4, <1>5, <1>6, <1>7, <1>8

LEMMA ReplacedKeptNext ==
    ASSUME Manual, Alone, WrittenOrTrapped, Common, Restoring, Next
    PROVE  ReplacedKept'
<1> SUFFICES ASSUME NEW k \in Tasks, status'[k] \notin Left, NEW e \in Callers[k],
                    NEW x \in Elements(GotsOf[e])
             PROVE  got'[x] = OrigOf[x] \/ (got'[x] = FuncOf[k] /\ Kept(k, x)')
  BY DEF ReplacedKept
<1>1. e \in Elfs /\ x \in Gots
  BY EntriesOf
<1>2. status[k] \notin Left
  BY LeftStays
<1>3. got[x] = OrigOf[x] \/ (got[x] = FuncOf[k] /\ Kept(k, x))
  BY <1>2 DEF Restoring, ReplacedKept
<1>4. Kept(k, x) => Kept(k, x)'
  BY <1>1, GotSteps DEF Restoring
<1>5. CASE got'[x] \in {got[x], OrigOf[x]}
  BY <1>3, <1>4, <1>5
<1>6. ASSUME NEW t \in Threads, NEW i \in Tasks, Patching(t), i = patch[t].task,
             patch[t].elf \in Callers[i], x \in Elements(GotsOf[patch[t].elf]),
             \/ job[t].op # "unhook" /\ got'[x] = FuncOf[i] /\ Kept(i, x)'
             \/ job[t].op = "unhook" /\ got'[x] = manualOrig[i]
      PROVE  got'[x] = FuncOf[k] /\ Kept(k, x)'
  <2>1. i = k
    BY <1>6 DEF Alone
  <2>2. job[t].op # "unhook"
    <3>1. job[t].op = "unhook" => patch[t].task \in job[t].own
      BY <1>6, WhoseWork
    <3> QED BY <1>2, <1>6, <2>1, <3>1 DEF Common, TasksRight
  <2> QED BY <1>6, <2>1, <2>2
<1>7. \/ got'[x] \in {got[x], OrigOf[x]}
      \/ \E t \in Threads, i \in Tasks :
           /\ Patching(t) /\ i = patch[t].task /\ patch[t].elf \in Callers[i]
           /\ x \in Elements(GotsOf[patch[t].elf])
           /\ \/ job[t].op # "unhook" /\ got'[x] = FuncOf[i] /\ Kept(i, x)'
              \/ job[t].op = "unhook" /\ got'[x] = manualOrig[i]
  BY <1>1, GotSteps DEF Restoring
<1> QED BY <1>5, <1>6, <1>7

\* ELFs come into the cache that nobody was told of.
LEMMA WhereTold ==
    ASSUME Manual, WrittenOrTrapped, Common, Restoring, Next,
           NEW k \in Tasks, NEW e \in cache' \ bad', <<e, "OK">> \in told'[k], k \notin listed
    PROVE  e \in cache \ bad /\ <<e, "OK">> \in told[k] /\ e \in Elfs
<1>1. e \in cache => e \in Elfs
  BY DEF Common, TypeOK
<1>2. e \in Elfs
  BY <1>1, ListsGoOn
<1>3. <<e, "OK">> \in told[k]
  BY <1>2, ToldNext
<1>4. Seen(e)
  BY <1>2, <1>3 DEF Restoring, ToldKept
<1>5. bad \subseteq bad'
  BY GotSteps DEF Restoring
<1> QED BY <1>2, <1>3, <1>4, <1>5, ListsGoOn

LEMMA StillToRestoreNext ==
    ASSUME Manual, Alone, OneCaller, WrittenOrTrapped, Common, Common', Restoring, Next,
           NEW u \in Threads
    PROVE  StillToRestore(u)'
<1> SUFFICES ASSUME job'[u].op = "unhook", job'[u].at = "pick",
                    NEW k \in job'[u].own, NEW e \in cache' \ bad', <<e, "OK">> \in told'[k],
                    NEW x \in Elements(GotsOf[e]), got'[x] # OrigOf[x]
             PROVE  ToVisit(u, k, e, x)'
  BY DEF StillToRestore
<1>1. k \in Tasks /\ status'[k] \in Left
  <2>1. job'[u] \in Job
    BY DEF Common, TypeOK
  <2> QED BY <2>1 DEF Job, Common, TasksRight
<1>2. CASE job'[u] = job[u] /\ patch'[u] = patch[u]
  <2>1. status[k] \in Left /\ k \notin listed
    BY <1>2, KindsApart, <1>1 DEF Common, TasksRight
  <2>2. e \in cache \ bad /\ <<e, "OK">> \in told[k] /\ e \in Elfs
    BY <1>1, <2>1, WhereTold
  <2>3. got[x] # OrigOf[x]
    BY <1>1, <2>1, <2>2, StaysRestored
  <2>4. ToVisit(u, k, e, x)
    BY <1>2, <2>2, <2>3 DEF Restoring, StillToRestore
  <2> QED BY <1>2, <2>4 DEF ToVisit
<1>3. CASE BeginUnhook(u)
  <2>1. job[u].op = "unhook"
    BY <1>3 DEF BeginUnhook
  <2>2. PICK i \in job[u].own :
          \/ job' = [job EXCEPT ![u] = NoJob]
          \/ \E es \in Handled(i) : job' = [job EXCEPT ![u].at = "pick", ![u].pairs = {i} \X es]
    BY <1>3 DEF BeginUnhook
  <2>3. job \in [Threads -> Job] /\ job[u] \in Job
    BY DEF Common, TypeOK
  <2>4. job' # [job EXCEPT ![u] = NoJob]
    BY <2>3 DEF NoJob
  <2>5. PICK es \in Handled(i) : job' = [job EXCEPT ![u].at = "pick", ![u].pairs = {i} \X es]
    BY <2>2, <2>4
  <2> DEFINE ps == {i} \X es
  <2>6. job'[u] = [job[u] EXCEPT !.at = "pick", !.pairs = ps]
    BY <2>3, <2>5
  <2> HIDE DEF ps
  <2>7. job'[u].own = job[u].own /\ job'[u].pairs = ps
    BY <2>3, <2>6 DEF Job
  <2>8. i = k /\ status[k] \in Left /\ k \notin listed
    BY <1>1, <2>1, <2>7, KindsApart DEF Common, TasksRight
  <2>9. e \in cache \ bad /\ <<e, "OK">> \in told[k] /\ e \in Elfs
    BY <1>1, <2>8, WhereTold
  <2>10. e \in Callers[k]
    BY <1>1, <2>9 DEF Restoring, ToldKept
  <2>11. e \in es
    <3>1. CASE k \notin Single
      BY <2>8, <2>9, <3>1 DEF Handled
    <3>2. CASE k \in Single
      <4>1. PICK d \in cache \cap Callers[k] : es = {d}
        BY <2>8, <2>9, <2>10, <3>2 DEF Handled
      <4>2. d = e
        BY <2>10, <3>2, <4>1 DEF OneCaller
      <4> QED BY <4>1, <4>2
    <3> QED BY <3>1, <3>2
  <2>12. <<k, e>> \in ps
    BY <2>8, <2>11 DEF ps
  <2> QED BY <2>7, <2>12 DEF ToVisit
<1>4. CASE VisitUnhook(u)
  <2>1. PICK q \in job[u].pairs :
        /\ job' = [job EXCEPT ![u].pairs = @ \ {q}]
        /\ IF q[2] \in Callers[q[1]] \ bad /\ GotsOf[q[2]] # <<>>
           THEN StartPatch(u, q[1], q[2])
           ELSE UNCHANGED patch
    BY <1>4 DEF VisitUnhook
  <2>2. job[u].at = "pick" /\ job[u].op = "unhook" /\ patch[u] = NoPatch
    BY <1>4 DEF VisitUnhook, Patching
  <2>3. /\ job'[u].own = job[u].own /\ job'[u].pairs = job[u].pairs \ {q}
        /\ q[1] \in Tasks /\ q[2] \in Elfs
    BY <2>1, PairTaken
  <2>4. status[k] \in Left /\ k \notin listed
    BY <1>1, <2>2, <2>3, KindsApart DEF Common, TasksRight
  <2>5. e \in cache \ bad /\ <<e, "OK">> \in told[k] /\ e \in Elfs
    BY <1>1, <2>4, WhereTold
  <2>6. got[x] # OrigOf[x] /\ e \in Callers[k]
    BY <1>1, <2>4, <2>5, StaysRestored DEF Restoring, ToldKept
  <2>7. <<k, e>> \in job[u].pairs
    <3>1. ToVisit(u, k, e, x)
      BY <2>2, <2>3, <2>5, <2>6 DEF Restoring, StillToRestore
    <3> QED BY <2>2, <3>1 DEF ToVisit
  <2>8. CASE q = <<k, e>>
    <3>1. GotsOf[e] # <<>>
      <4>1. DOMAIN GotsOf[e] # {}
        BY DEF Elements
      <4> QED BY <4>1
    <3>2. StartPatch(u, k, e)
      BY <2>1, <2>5, <2>6, <2>8, <3>1
    <3>3. /\ patch'[u] # NoPatch /\ patch'[u].elf = e /\ patch'[u].gots = GotsOf[e]
      BY <1>1, <2>5, <3>1, <3>2, PatchStarted
    <3> QED BY <3>3 DEF ToVisit
  <2>9. CASE q # <<k, e>>
    BY <2>3, <2>7, <2>9 DEF ToVisit
  <2> QED BY <2>8, <2>9
<1>5. CASE PatchStep(u)
  <2>1. Patching(u)
    BY <1>5, PatchGoesOn
  <2>2. PICK g \in Gots : g = Entry(u)
    BY <2>1, EntryTyped
  <2>3. PICK i \in Tasks : i = patch[u].task
    BY <2>1, EntryTyped
  <2>4. PICK good \in BOOLEAN :
          /\ After(u, good)
          /\ \/ bad' = bad \cup {patch[u].elf}
             \/ job[u].op # "unhook"
             \/ got' = [got EXCEPT ![g] = manualOrig[i]]
    BY <1>5, <2>2, <2>3, ManualEffect
  <2>5. /\ job' = job /\ patch[u] \in Patch /\ patch[u].gots # <<>>
        /\ Len(patch[u].gots) = 1 => patch'[u] = NoPatch
        /\ Len(patch[u].gots) # 1 =>
             patch'[u] # NoPatch /\ patch'[u].elf = patch[u].elf /\ patch'[u].gots = Tail(patch[u].gots)
    BY <2>1, <2>4, AfterEffect
  <2>6. status[k] \in Left /\ k \notin listed
    BY <1>1, <2>5, KindsApart DEF Common, TasksRight
  <2>7. e \in cache \ bad /\ <<e, "OK">> \in told[k] /\ e \in Elfs
    BY <1>1, <2>6, WhereTold
  <2>8. got[x] # OrigOf[x] /\ Kept(k, x) /\ x \in Gots
    BY <1>1, <2>6, <2>7, StaysRestored, EntriesOf DEF Restoring, ToldKept
  <2>9. ToVisit(u, k, e, x)
    BY <2>5, <2>7, <2>8 DEF Restoring, StillToRestore
  <2>10. CASE <<k, e>> \in job[u].pairs
    BY <2>5, <2>10 DEF ToVisit
  <2>11. CASE patch[u].elf = e /\ x \in Elements(patch[u].gots)
    <3>1. i = k
      <4>1. patch[u].task \in job[u].own
        BY <2>1, <2>5, WhoseWork
      <4> QED BY <2>3, <2>5, <4>1 DEF Common, TasksRight
    <3>2. got' = [got EXCEPT ![g] = manualOrig[k]]
      BY <2>4, <2>5, <2>11, <3>1
    <3>3. x # g
      <4>1. manualOrig[k] \in Value /\ Invalid \notin Value
        BY <2>5 DEF Common, TasksRight, Value
      <4>2. manualOrig[k] = OrigOf[x]
        BY <2>8, <4>1 DEF Kept
      <4>3. got'[g] = manualOrig[k]
        BY <3>2 DEF Common, TypeOK
      <4> QED BY <4>2, <4>3
    <3>4. /\ Elements(patch[u].gots) \subseteq {g} \cup Elements(Tail(patch[u].gots))
          /\ Len(patch[u].gots) = 1 => Elements(patch[u].gots) = {g}
      BY <2>1, <2>2, EntryOfElf
    <3>5. patch'[u] # NoPatch /\ patch'[u].elf = e /\ x \in Elements(patch'[u].gots)
      BY <2>5, <2>11, <3>3, <3>4
    <3> QED BY <3>5 DEF ToVisit
  <2> QED BY <2>9, <2>10, <2>11 DEF ToVisit
<1> QED BY <1>2, <1>3, <1>4, <1>5, WhoMoves

LEMMA RestoredNext ==
    ASSUME Manual, Alone, OneCaller, WrittenOrTrapped, Common, Common', Restoring, Next
    PROVE  Restored'
<1> SUFFICES ASSUME NEW k \in Tasks, status'[k] = "destroyed",
                    NEW e \in cache' \ bad', <<e, "OK">> \in told'[k],
                    NEW x \in Elements(GotsOf[e])
             PROVE  got'[x] = OrigOf[x]
  BY DEF Restored
<1>1. k \notin listed'
  BY KindsApart DEF Common, ListRight, Listed
<1>2. CASE status[k] = "destroyed"
  <2>1. status[k] \in Left /\ k \notin listed
    BY <1>2, KindsApart DEF Left
  <2>2. e \in cache \ bad /\ <<e, "OK">> \in told[k] /\ e \in Elfs
    BY <2>1, WhereTold
  <2>3. got[x] = OrigOf[x]
    BY <1>2, <2>2 DEF Restoring, Restored
  <2> QED BY <2>1, <2>2, <2>3, StaysRestored
<1>3. CASE status[k] # "destroyed"
  <2>1. CASE \E t \in Threads : /\ job[t].op = "unhook" /\ job[t].at = "pick" /\ k \in job[t].own
                                /\ job[t].pairs = {} /\ patch[t] = NoPatch
    <3>1. PICK t \in Threads : /\ job[t].op = "unhook" /\ job[t].at = "pick" /\ k \in job[t].own
                               /\ job[t].pairs = {} /\ patch[t] = NoPatch
      BY <2>1
    <3>2. status[k] \in Left /\ k \notin listed
      BY <3>1, KindsApart DEF Common, TasksRight
    <3>3. e \in cache \ bad /\ <<e, "OK">> \in told[k] /\ e \in Elfs
      BY <3>2, WhereTold
    <3>4. got[x] = OrigOf[x]
      BY <3>1, <3>3 DEF Restoring, StillToRestore, ToVisit
    <3> QED BY <3>2, <3>3, <3>4, StaysRestored
  <2>2. CASE manualOrig[k] = Unset /\ UNCHANGED <<cache, told>>
    <3>1. e \in Elfs /\ <<e, "OK">> \in told[k] /\ x \in Gots
      BY <2>2, EntriesOf DEF Common, TypeOK
    <3>2. Kept(k, x) /\ OrigOf[x] # Unset /\ Invalid # Unset
      BY <3>1 DEF Restoring, ToldKept
    <3> QED BY <2>2, <3>2 DEF Kept
  <2> QED BY <1>3, <2>1, <2>2, WhoDestroys
<1> QED BY <1>2, <1>3

LEMMA RestoringNext ==
    ASSUME Manual, Alone, OneCaller, WrittenOrTrapped, Common, Common', Restoring, [Next]_vars
    PROVE  Restoring'
<1>1. CASE UNCHANGED vars
  <2>1. UNCHANGED <<life, cache, bad, cfi, got, hooks, objs, listed, status, manualOrig, saved, told,
                    job, patch>>
    BY <1>1 DEF vars, elfVars, gotVars, taskVars
  <2>2. ToldKept' /\ ReplacedKept' /\ Restored'
    BY <2>1 DEF Restoring, ToldKept, ReplacedKept, Restored, Seen, Kept
  <2>3. \A t \in Threads : SoFarKept(t)' /\ StillToRestore(t)'
    BY <2>1 DEF Restoring, SoFarKept, StillToRestore, ToVisit, Kept
  <2> QED BY <2>2, <2>3 DEF Restoring
<1>2. CASE Next
  <2>1. ToldKept'
    <3> SUFFICES ASSUME NEW k \in Tasks, NEW e \in Elfs, <<e, "OK">> \in told'[k]
                 PROVE  /\ e \in Callers[k] /\ Seen(e)'
                        /\ \A x \in Elements(GotsOf[e]) : Kept(k, x)'
      BY DEF ToldKept
    <3>1. CASE <<e, "OK">> \in told[k]
      <4>1. /\ e \in Callers[k] /\ Seen(e)
            /\ \A x \in Elements(GotsOf[e]) : Kept(k, x) /\ x \in Gots
        BY <3>1, EntriesOf DEF Restoring, ToldKept
      <4>2. \A x \in Gots : Kept(k, x) => Kept(k, x)'
        BY <1>2, GotSteps DEF Restoring
      <4> QED BY <1>2, <4>1, <4>2, ListsGoOn
    <3>2. CASE <<e, "OK">> \notin told[k]
      BY <1>2, <3>2, ToldNext, ListsGoOn
    <3> QED BY <3>1, <3>2
  <2>2. ReplacedKept' /\ Restored'
    BY <1>2, ReplacedKeptNext, RestoredNext
  <2>3. \A t \in Threads : SoFarKept(t)' /\ StillToRestore(t)'
    BY <1>2, SoFarKeptNext, StillToRestoreNext
  <2> QED BY <2>1, <2>2, <2>3 DEF Restoring
<1> QED BY <1>1, <1>2

\* When an unhook in manual mode returns, every ELF that the task was told is hooked
\* has its own original functions again, unless an entry of it trapped
\* (bh_task_set_manual_orig_func, bh_hook_manager_unhook_single_got): the one function
\* the task remembers is that of every such entry, or the unhook is refused.  The
\* task's entries are replaced by no other task, a task of type SINGLE names one
\* library, and a write that does not succeed traps.
THEOREM RestoredHolds ==
    ASSUME Manual, Alone, OneCaller, WrittenOrTrapped
    PROVE  Spec => []Restored
<1>1. Init => Restoring
  <2> SUFFICES ASSUME Init PROVE Restoring
    OBVIOUS
  <2>1. ToldKept /\ Restored
    BY DEF Init, ToldKept, Restored
  <2>2. ReplacedKept
    BY EntriesOf DEF Init, ReplacedKept
  <2>3. \A t \in Threads : SoFarKept(t) /\ StillToRestore(t)
    BY DEF Init, SoFarKept, StillToRestore, NoJob
  <2> QED BY <2>1, <2>2, <2>3 DEF Restoring
<1>2. Common /\ Common' /\ Restoring /\ [Next]_vars => Restoring'
  BY RestoringNext
<1>3. Restoring => Restored
  BY DEF Restoring
<1> QED BY <1>1, <1>2, <1>3, CommonInit, CommonNext, PTL DEF Spec
=============================================================================
