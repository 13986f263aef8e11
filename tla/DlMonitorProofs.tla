-------------------------- MODULE DlMonitorProofs --------------------------
(***************************************************************************)
(* Proofs about DlMonitor, for every number of threads, libraries and tasks: *)
(* an ELF in hand is not destroyed and stays mapped, but for what was closed *)
(* before the monitor saw to it; the manager keeps no failure that the       *)
(* monitor does not have; and no task misses a library that a hook call or a *)
(* refresh came to know.                                                     *)
(***************************************************************************)
EXTENDS DlMonitor, SequenceTheorems, TLAPS

(***************************************************************************)
(* The functions the monitor hooks, and calls of dlopen within each other    *)
(***************************************************************************)
LEMMA MonitoredRange == Range(Monitored) = {"dlopen", "dlclose"}
BY DEF Range, Monitored

\* The next function to hook is one of them.
LEMMA NextMonitored ==
    ASSUME Unhooked # {}
    PROVE  Monitored[Min(Unhooked)] \in Range(Monitored)
<1>1. Unhooked \subseteq {1, 2}
  BY DEF Unhooked, Monitored
<1>2. \E x \in Unhooked : \A y \in Unhooked : x <= y
  <2>1. CASE 1 \in Unhooked
    <3>1. \A y \in Unhooked : 1 <= y
      BY <1>1
    <3> QED BY <2>1, <3>1
  <2>2. CASE 1 \notin Unhooked
    <3>1. Unhooked = {2}
      BY <1>1, <2>2
    <3> QED BY <3>1
  <2> QED BY <2>1, <2>2
<1>3. Min(Unhooked) \in Unhooked
  BY <1>2 DEF Min
<1>4. \A i \in {1, 2} : Monitored[i] \in {"dlopen", "dlclose"}
  BY DEF Monitored
<1> QED BY <1>1, <1>3, <1>4, MonitoredRange

OpenCalls == [elf : Elfs, proxied : BOOLEAN]

\* Removing the innermost call.
LEMMA FrontCalls ==
    ASSUME NEW s \in Seq(OpenCalls), s # <<>>
    PROVE  /\ Front(s) \in Seq(OpenCalls)
           /\ Len(s) # 1 => Front(s) # <<>>
           /\ Len(s) \in Nat \ {0}
           /\ Last(s) \in OpenCalls
<1>1. Len(s) \in Nat /\ Len(s) # 0
  BY EmptySeq
<1>2. \A i \in 1 .. Len(s) - 1 : s[i] \in OpenCalls
  BY <1>1, ElementOfSeq
<1>3. /\ Front(s) \in Seq(OpenCalls)
      /\ Len(Front(s)) = IF 1 <= Len(s) - 1 THEN (Len(s) - 1) - 1 + 1 ELSE 0
  BY <1>1, <1>2, SubSeqProperties DEF Front
<1>4. ASSUME Len(s) # 1 PROVE Len(Front(s)) # 0
  <2> \A n \in Nat : n # 0 /\ n # 1 => 1 <= n - 1
    OBVIOUS
  <2>1. 1 <= Len(s) - 1
    BY <1>1, <1>4
  <2> QED BY <1>1, <1>3, <2>1
<1>5. Last(s) \in OpenCalls
  BY <1>1, ElementOfSeq DEF Last
<1> QED BY <1>1, <1>3, <1>4, <1>5, EmptySeq

(***************************************************************************)
(* The inductive invariant.  Every variable has its type.                    *)
(***************************************************************************)
Whys == {"hook", "dlopen", "dlclose", "oneshot"}

Shape ==
    /\ held \in [Locks -> Threads \cup {NoOne}]
    /\ readers \subseteq Threads
    /\ mapped \in [Libs -> Nat]
    /\ maps \in [Libs -> Nat]
    /\ cache \in [Libs -> Nat]
    /\ abandoned \subseteq Elfs
    /\ noticed \subseteq Elfs
    /\ dropped \subseteq Elfs
    /\ unseen \subseteq Elfs
    /\ listed \subseteq Tasks
    /\ refused \subseteq listed
    /\ applied \subseteq listed \X Elfs
    /\ hooked \subseteq Range(Monitored)
    /\ initing \in BOOLEAN
    /\ post \in BOOLEAN
    /\ inited \subseteq {"manager", "monitor", "oneshot"}
    /\ ok \subseteq inited \cap {"manager", "monitor"}
    /\ at \in [Threads -> Places]
    /\ why \in [Threads -> Whys]
    /\ task \in [Threads -> Tasks \cup Range(Monitored) \cup {NoOne}]
    /\ call \in [Threads -> Tasks \cup {NoOne}]
    /\ opening \in [Threads -> Seq(OpenCalls)]
    /\ elfs \in [Threads -> SUBSET Elfs]

\* A refresh for a dlopen or a dlclose, from the wait for the lock on.
RefreshFor(t, reasons) == at[t] \in {"read", "refresh", "iterate"} /\ why[t] \in reasons

\* Who holds the linker's mutex is in a dlopen; only a dlopen that is not inside
\* another one refreshes the cache.
InLinker(t) ==
    /\ At(t, "ctor") => held["linker"] = t /\ opening[t] # <<>>
    /\ At(t, "opened") => opening[t] # <<>> /\ (held["linker"] = t <=> Len(opening[t]) # 1)
    /\ held["linker"] = t => at[t] \in {"ctor", "opened"} /\ opening[t] # <<>>
    /\ At(t, "posting") \/ RefreshFor(t, {"dlopen"}) => opening[t] # <<>> /\ Len(opening[t]) = 1

\* A thread that hooks has a task; it hooks for the monitor exactly while it
\* holds the monitor's lock.
HasTask(t) ==
    /\ \/ at[t] \in {"idle", "ctor", "opened", "close", "closing", "posting"}
       \/ RefreshFor(t, {"dlopen", "dlclose"})
       => task[t] = NoOne /\ call[t] = NoOne
    /\ \/ at[t] \in {"hook", "oneshot", "copy", "apply"}
       \/ RefreshFor(t, {"hook", "oneshot"})
       => task[t] # NoOne
    /\ At(t, "manager") => call[t] # NoOne
    /\ task[t] \in Range(Monitored) \cup {call[t]}
    /\ call[t] \in listed \cup {NoOne}
    /\ at[t] \in {"refresh", "iterate"} => why[t] # "hook"
    /\ At(t, "read") => why[t] # "dlclose"
    /\ \/ at[t] \in {"manager", "oneshot", "copy", "apply"}
       \/ at[t] \in {"monitor", "starting", "locked", "monitored"} /\ call[t] # NoOne
       => why[t] \in {"hook", "oneshot"}

\* Who starts the monitor.  It does so for a hook call, under the manager's lock,
\* or for a dlopen callback.
Starts(t) ==
    /\ at[t] \in {"locked", "monitored"} => held["monitor"] = t
    /\ task[t] \in Range(Monitored) => held["monitor"] = t
    /\ held["monitor"] = t =>
        \/ at[t] \in {"locked", "monitored"}
        \/ /\ at[t] \in {"hook", "oneshot", "read", "refresh", "iterate", "copy", "apply"}
           /\ task[t] \in Range(Monitored)
    /\ at[t] \in {"monitor", "starting"} \/ held["monitor"] = t =>
        IF call[t] = NoOne THEN t \in Starters ELSE held["manager"] = t
    /\ held["monitor"] = t /\ ~At(t, "locked") => "monitor" \in inited \ ok

Start == initing <=> held["monitor"] # NoOne

\* Who has ELFs in hand reads; who unmaps a library and refreshes the cache
\* holds the write lock of dlclose.
Gate(t) ==
    /\ \/ at[t] \in {"copy", "apply", "posting"}
       \/ at[t] \in {"refresh", "iterate"} /\ why[t] # "dlclose"
       => t \in readers
    /\ \/ At(t, "closing")
       \/ at[t] \in {"refresh", "iterate"} /\ why[t] = "dlclose"
       => held["dlclose"] = t

GateShut == held["dlclose"] # NoOne => readers = {}

\* A thread closes a library of its own.
Closes(t) ==
    at[t] \in {"close", "closing"} =>
        \E l \in OpenedBy[t], n \in Nat \ {0} : elfs[t] = {<<l, n>>}

\* A library is gone and the refresh of its dlclose has not dealt with its ELF.
Unrefreshed(l) ==
    \E t \in Threads : /\ l \in OpenedBy[t]
                      /\ at[t] \in {"refresh", "iterate"}
                      /\ why[t] = "dlclose"

\* Mappings are numbered upwards.
Counted == \A l \in Libs : mapped[l] <= maps[l] /\ cache[l] <= maps[l]

\* The ELF of a library is of a mapping that was closed unseen.
OutOfDate(l) == <<l, cache[l]>> \in unseen

\* The ELF of a library is of its present mapping, but while it is being closed
\* and after that went unseen.
UpToDate(l) ==
    cache[l] # 0 => cache[l] = mapped[l] \/ OutOfDate(l) \/ (mapped[l] = 0 /\ Unrefreshed(l))

\* What was abandoned is never mapped again.
Gone == \A e \in abandoned : e[2] <= maps[e[1]] /\ e \notin Mapped

IInv ==
    /\ Shape /\ Start /\ GateShut /\ Counted /\ Gone /\ ElfStaysMapped
    /\ \A l \in Libs : UpToDate(l)
    /\ \A t \in Threads : InLinker(t) /\ HasTask(t) /\ Starts(t) /\ Gate(t) /\ Closes(t)

\* A thread that takes a lock.
LEMMA TakeShape ==
    ASSUME Shape, NEW t \in Threads, NEW l \in Locks, Take(t, l)
    PROVE  held' \in [Locks -> Threads \cup {NoOne}]
BY DEF Shape, Take

\* The names of the locks.
LEMMA LockNames == \A l \in {"linker", "elfs", "dlclose", "manager", "monitor", "oneshot"} : l \in Locks
BY DEF Locks

(***************************************************************************)
(* What the steps of a thread do to places and locks                         *)
(***************************************************************************)
LEMMA Goes ==
    ASSUME Shape, NEW t \in Threads, NEW p, Goto(t, p), NEW u \in Threads
    PROVE  at'[u] = IF u = t THEN p ELSE at[u]
BY DEF Shape, Goto

\* Taking a lock.
LEMMA Takes ==
    ASSUME Shape, NEW t, NEW l \in Locks, Take(t, l), NEW m \in Locks
    PROVE  held'[m] = IF m = l THEN t ELSE held[m]
BY DEF Shape, Take

\* Where the answer of the manager sends the thread.
LEMMA AnswerGoes ==
    ASSUME Shape, NEW t \in Threads, NEW good, Answer(t, good), NEW u \in Threads
    PROVE  IF u # t THEN at'[u] = at[u] /\ task'[u] = task[u] /\ call'[u] = call[u]
           ELSE \/ at'[t] = "read" /\ task'[t] = call[t] /\ call'[t] = call[t]
                \/ at'[t] = "idle" /\ task'[t] = NoOne /\ call'[t] = NoOne
<1>1. CASE good
  BY <1>1 DEF Shape, Answer, Goto
<1>2. CASE ~good
  BY <1>2 DEF Shape, Answer, HookOver, Goto
<1> QED BY <1>1, <1>2

\* Where the answer of the monitor sends it.
LEMMA MonitorAnswerGoes ==
    ASSUME Shape, NEW t \in Threads, NEW good, MonitorAnswer(t, good), NEW u \in Threads
    PROVE  IF u # t THEN at'[u] = at[u] /\ task'[u] = task[u] /\ call'[u] = call[u]
           ELSE \/ at'[t] = "read" /\ task'[t] = call[t] /\ call'[t] = call[t] /\ call[t] # NoOne
                \/ at'[t] = "idle" /\ task'[t] = NoOne /\ call'[t] = NoOne
<1>1. CASE call[t] = NoOne
  BY <1>1 DEF Shape, MonitorAnswer, HookOver, Goto
<1>2. CASE call[t] # NoOne
  <2>1. Answer(t, good)
    BY <1>2 DEF MonitorAnswer
  <2> QED BY <1>2, <2>1, AnswerGoes
<1> QED BY <1>1, <1>2

\* The locks that the answer leaves.
LEMMA MonitorAnswerLocks ==
    ASSUME Shape, NEW t \in Threads, NEW good, MonitorAnswer(t, good), NEW m \in Locks
    PROVE  held'[m] = IF m \in {"manager", "monitor"} /\ held[m] = t THEN NoOne ELSE held[m]
BY DEF Shape, MonitorAnswer

\* A dlclose that is over without a refresh.
LEMMA NoRefreshEffect ==
    ASSUME Shape, NEW t \in Threads, NoRefresh(t), NEW u \in Threads, NEW m \in Locks
    PROVE  /\ at[t] = "refresh" /\ why[t] = "dlclose" /\ post = FALSE
           /\ at'[u] = IF u = t THEN "idle" ELSE at[u]
           /\ held'[m] = IF m = "dlclose" THEN NoOne ELSE held[m]
           /\ unseen' = unseen \cup (Cached \ Mapped)
           /\ UNCHANGED <<readers, mapped, maps, cache, abandoned, noticed, dropped, listed, applied,
                         refused, hooked, initing, inited, ok, post, why, task, call, opening, elfs>>
BY DEF Shape, NoRefresh, At, Goto, Release, taskVars, startVars, callVars

\* The steps of the monitor's start that give the monitor's answer, and the others.
LEMMA InitMonitorSplit ==
    ASSUME NEW t, InitMonitor(t)
    PROVE  \/ MonitorAnswer(t, "monitor" \in ok) /\ "monitor" \in inited
           \/ Goto(t, "starting") /\ UNCHANGED <<held, task, call>>
BY DEF InitMonitor

\* The monitor is marked started, or the thread that started it answers.
LEMMA MarkMonitorSplit ==
    ASSUME NEW t, MarkMonitor(t)
    PROVE  \/ MonitorAnswer(t, "monitor" \in ok) /\ "monitor" \in inited
           \/ /\ Goto(t, "monitored") /\ "monitor" \notin inited
              /\ UNCHANGED <<held, task, call>>
BY DEF MarkMonitor

\* The manager answers from its latch, or the thread starts it.
LEMMA InitManagerSplit ==
    ASSUME NEW t, InitManager(t)
    PROVE  \/ Answer(t, "manager" \in ok) /\ UNCHANGED held
           \/ /\ Take(t, "manager") /\ Goto(t, "monitor") /\ Free("manager")
              /\ UNCHANGED <<task, call>>
BY DEF InitManager

\* The one-shot refresh is over, or the thread makes it.
LEMMA OneShotSplit ==
    ASSUME NEW t, OneShot(t)
    PROVE  \/ UNCHANGED <<held, why>>
           \/ Take(t, "oneshot") /\ Free("oneshot") /\ why' = [why EXCEPT ![t] = "oneshot"]
BY DEF OneShot

\* Mapping a library takes the linker's mutex and opens a call.
LEMMA MapLinker ==
    ASSUME Shape, NEW t \in Threads, NEW l \in Libs, Map(t, l), NEW u \in Threads
    PROVE  /\ held'["linker"] = t
           /\ at'[u] = IF u = t THEN "ctor" ELSE at[u]
           /\ u = t => opening'[u] # <<>>
           /\ u # t => opening'[u] = opening[u]
<1>1. Take(t, "linker") /\ Goto(t, "ctor")
  BY DEF Map
<1>2. <<l, maps[l] + 1>> \in Elfs
  BY DEF Shape, Elfs
<1>3. [elf |-> <<l, maps[l] + 1>>, proxied |-> "dlopen" \in hooked] \in OpenCalls
  BY <1>2 DEF OpenCalls
<1>4. Append(opening[t], [elf |-> <<l, maps[l] + 1>>, proxied |-> "dlopen" \in hooked]) # <<>>
  BY <1>3, AppendProperties DEF Shape
<1>5. opening' = [opening EXCEPT ![t] =
          Append(opening[t], [elf |-> <<l, maps[l] + 1>>, proxied |-> "dlopen" \in hooked])]
  BY DEF Map
<1>6. opening \in [Threads -> Seq(OpenCalls)]
  BY DEF Shape
<1>7. (u = t => opening'[u] # <<>>) /\ (u # t => opening'[u] = opening[u])
  BY <1>4, <1>5, <1>6
<1>8. held'["linker"] = t /\ at'[u] = IF u = t THEN "ctor" ELSE at[u]
  BY <1>1, Takes, Goes, LockNames
<1> QED BY <1>7, <1>8

\* ELFs that a step takes in hand are ELFs.
LEMMA ElfsOfLibs ==
    ASSUME Shape
    PROVE  /\ Mapped \subseteq Elfs
           /\ Cached \subseteq Elfs
           /\ NewElfs \subseteq Mapped
<1>1. \A l \in Libs : mapped[l] # 0 => mapped[l] \in Nat \ {0}
  BY DEF Shape
<1>2. \A l \in Libs : cache[l] # 0 => cache[l] \in Nat \ {0}
  BY DEF Shape
<1> QED BY <1>1, <1>2 DEF Mapped, Cached, NewElfs, Elfs, Elf

\* The linker maps a library, in whichever call.
LEMMA MapShape ==
    ASSUME Shape, NEW t \in Threads, NEW l \in Libs, Map(t, l)
    PROVE  Shape'
<1>1. <<l, maps[l] + 1>> \in Elfs /\ maps[l] + 1 \in Nat
  BY DEF Shape, Elfs
<1>2. [elf |-> <<l, maps[l] + 1>>, proxied |-> "dlopen" \in hooked] \in OpenCalls
  BY <1>1 DEF OpenCalls
<1>3. Append(opening[t], [elf |-> <<l, maps[l] + 1>>, proxied |-> "dlopen" \in hooked]) \in Seq(OpenCalls)
  BY <1>2, AppendProperties DEF Shape
<1>4. opening' \in [Threads -> Seq(OpenCalls)]
  BY <1>3 DEF Shape, Map
<1>5. /\ held' \in [Locks -> Threads \cup {NoOne}]
      /\ mapped' \in [Libs -> Nat] /\ maps' \in [Libs -> Nat]
      /\ at' \in [Threads -> Places]
  BY <1>1 DEF Shape, Map, Take, Goto, Places
<1> QED BY <1>4, <1>5 DEF Shape, Map, taskVars, startVars

\* The answer to a hook call.
LEMMA AnswerShape ==
    ASSUME Shape, NEW t \in Threads, NEW good, HasTask(t), call[t] # NoOne, Answer(t, good)
    PROVE  /\ at' \in [Threads -> Places]
           /\ task' \in [Threads -> Tasks \cup Range(Monitored) \cup {NoOne}]
           /\ call' \in [Threads -> Tasks \cup {NoOne}]
           /\ refused' \subseteq listed
<1>1. call[t] \in listed
  BY DEF HasTask
<1>2. CASE good
  BY <1>2 DEF Shape, Answer, Goto, Places
<1>3. CASE ~good
  BY <1>1, <1>3 DEF Shape, Answer, HookOver, Goto, Places
<1> QED BY <1>2, <1>3

\* The monitor's answer, to a hook call or to plt_hook_add_dlopen_callback.
LEMMA MonitorAnswerShape ==
    ASSUME Shape, NEW t \in Threads, NEW good, HasTask(t), MonitorAnswer(t, good)
    PROVE  /\ held' \in [Locks -> Threads \cup {NoOne}]
           /\ at' \in [Threads -> Places]
           /\ task' \in [Threads -> Tasks \cup Range(Monitored) \cup {NoOne}]
           /\ call' \in [Threads -> Tasks \cup {NoOne}]
           /\ refused' \subseteq listed
<1>1. held' \in [Locks -> Threads \cup {NoOne}]
  BY DEF Shape, MonitorAnswer
<1>2. CASE call[t] = NoOne
  BY <1>1, <1>2 DEF Shape, MonitorAnswer, HookOver, Goto, Places
<1>3. CASE call[t] # NoOne
  BY <1>1, <1>3, AnswerShape DEF MonitorAnswer
<1> QED BY <1>2, <1>3

\* A result that is latched keeps the types.
LEMMA LatchedShape ==
    ASSUME Shape, NEW t \in Threads, NEW good, NEW done, done \subseteq {"monitor"}, Latched(t, good, done)
    PROVE  inited' \subseteq {"manager", "monitor", "oneshot"} /\ ok' \subseteq inited' \cap {"manager", "monitor"}
BY DEF Shape, Latched

\* Every step keeps the types.
LEMMA ShapeNext == IInv /\ [Next]_vars => Shape'
<1> SUFFICES ASSUME IInv, [Next]_vars PROVE Shape'
  OBVIOUS
<1> USE DEF IInv
<1>1. ASSUME NEW t \in Threads, NEW l \in Libs, Open(t, l) PROVE Shape'
  BY <1>1, MapShape DEF Open
<1>2. ASSUME NEW t \in Threads, NEW l \in Libs, BeginClose(t, l) PROVE Shape'
  <2>1. Elf(l) \in Elfs
    BY <1>2 DEF Shape, BeginClose, MayClose, Elf, Elfs
  <2> QED BY <1>2, <2>1 DEF Shape, BeginClose, Goto, Places, lockVars, elfVars, taskVars,
             startVars
<1>3. ASSUME NEW t \in Threads, NEW l \in Libs, CloseUnseen(t, l) PROVE Shape'
  BY <1>3, ElfsOfLibs DEF CloseUnseen, MayClose, Unmapped, Shape, lockVars, startVars, callVars
<1>4. ASSUME NEW t \in Threads, NEW k \in Tasks, HookCall(t, k) PROVE Shape'
  BY <1>4 DEF HookCall, Shape, Goto, Places, lockVars, elfVars, startVars
<1>5. ASSUME NEW t \in Threads, AddCallback(t) PROVE Shape'
  BY <1>5 DEF AddCallback, Shape, Goto, Places, lockVars, elfVars, taskVars, startVars,
     callVars
<1>6. ASSUME NEW t \in Threads, NEW l \in Libs, CtorOpen(t, l) PROVE Shape'
  BY <1>6, MapShape DEF CtorOpen
<1>7. ASSUME NEW t \in Threads, LinkerReturn(t) PROVE Shape'
  BY <1>7 DEF LinkerReturn, Shape, Goto, Places, elfVars, taskVars, startVars, callVars
<1>8. ASSUME NEW t \in Threads, AfterOpen(t) PROVE Shape'
  <2>1. opening[t] \in Seq(OpenCalls) /\ opening[t] # <<>>
    BY <1>8 DEF AfterOpen, InLinker, Shape, At
  <2>2. Last(opening[t]).elf \in Elfs /\ Front(opening[t]) \in Seq(OpenCalls)
    BY <2>1, FrontCalls DEF OpenCalls
  <2>3. /\ noticed' \subseteq Elfs
        /\ at' \in [Threads -> Places] /\ why' \in [Threads -> Whys]
    <3>1. noticed' \subseteq Elfs
      BY <1>8, <2>2 DEF Shape, AfterOpen
    <3>2. at' \in [Threads -> Places]
      BY <1>8 DEF Shape, AfterOpen, Outer, Goto, Places
    <3>3. why' \in [Threads -> Whys]
      BY <1>8 DEF Shape, AfterOpen, Whys
    <3> QED BY <3>1, <3>2, <3>3
  <2>4. opening' \in [Threads -> Seq(OpenCalls)]
    BY <1>8, <2>2 DEF Shape, AfterOpen, Popped
  <2> QED BY <1>8, <2>3, <2>4 DEF Shape, AfterOpen, lockVars, taskVars, startVars
<1>9. ASSUME NEW t \in Threads, LockClose(t) PROVE Shape'
  BY <1>9 DEF LockClose, CloseLocks, Shape, Goto, Take, Places, elfVars, taskVars,
     startVars, callVars
<1>10. ASSUME NEW t \in Threads, Unmap(t) PROVE Shape'
  BY <1>10 DEF Unmap, Unmapped, Shape, Goto, Places, Whys, lockVars, startVars
<1>11. ASSUME NEW t \in Threads, Read(t) PROVE Shape'
  BY <1>11 DEF Read, Shape, Goto, Places, elfVars, taskVars, startVars, callVars
<1>12. ASSUME NEW t \in Threads, BeginRefresh(t) PROVE Shape'
  BY <1>12 DEF BeginRefresh, Shape, Goto, Take, Places, elfVars, taskVars, startVars,
     callVars
<1>13. ASSUME NEW t \in Threads, Iterate(t) PROVE Shape'
  <2>1. NewElfs \subseteq Elfs /\ Cached \subseteq Elfs
    BY ElfsOfLibs
  <2>2. cache' \in [Libs -> Nat] /\ held' \in [Locks -> Threads \cup {NoOne}]
    BY <1>13 DEF Shape, Iterate
  <2>3. abandoned' \subseteq Elfs /\ dropped' \subseteq Elfs
    BY <1>13, <2>1 DEF Shape, Iterate
  <2>4. elfs' \in [Threads -> SUBSET Elfs]
    BY <1>13, <2>1 DEF Shape, Iterate
  <2>5. why[t] \in {"dlopen", "dlclose", "oneshot"}
    BY <1>13 DEF Shape, HasTask, Iterate, At, Whys
  <2>6. at' \in [Threads -> Places]
    BY <1>13, <2>5 DEF Shape, Iterate, Goto, Places
  <2> QED BY <1>13, <2>2, <2>3, <2>4, <2>6 DEF Shape, Iterate, taskVars, startVars
<1>14. ASSUME NEW t \in Threads, PostNewElf(t) PROVE Shape'
  <2>1. PICK e \in elfs[t] : /\ applied' = applied \cup listed \X {e}
                           /\ elfs' = [elfs EXCEPT ![t] = @ \ {e}]
    BY <1>14 DEF PostNewElf
  <2>2. e \in Elfs /\ elfs' \in [Threads -> SUBSET Elfs]
    BY <2>1 DEF Shape
  <2>3. applied' \subseteq listed \X Elfs
    BY <2>1, <2>2 DEF Shape
  <2> QED BY <1>14, <2>2, <2>3 DEF Shape, PostNewElf, lockVars, elfVars, startVars
<1>15. ASSUME NEW t \in Threads, PostDone(t) PROVE Shape'
  <2>1. Front(opening[t]) \in Seq(OpenCalls)
    BY <1>15, FrontCalls DEF PostDone, InLinker, Shape, At
  <2>2. /\ opening' \in [Threads -> Seq(OpenCalls)]
        /\ at' \in [Threads -> Places]
        /\ readers' \subseteq Threads
    BY <1>15, <2>1 DEF Shape, PostDone, Popped, Outer, OtherReaders, Goto, Places
  <2> QED BY <1>15, <2>2 DEF Shape, PostDone, elfVars, taskVars, startVars
<1>16. ASSUME NEW t \in Threads, BeginHook(t) PROVE Shape'
  BY <1>16 DEF BeginHook, Shape, Goto, Places, Whys, lockVars, elfVars, taskVars, startVars
<1>17. ASSUME NEW t \in Threads, OneShot(t) PROVE Shape'
  <2>1. at' \in [Threads -> Places]
    BY <1>17 DEF Shape, OneShot, Goto, Places
  <2>2. held' \in [Locks -> Threads \cup {NoOne}] /\ why' \in [Threads -> Whys]
    <3>1. CASE "oneshot" \in inited
      BY <1>17, <3>1 DEF Shape, OneShot
    <3>2. CASE "oneshot" \notin inited
      <4>1. Take(t, "oneshot") /\ why' = [why EXCEPT ![t] = "oneshot"]
        BY <1>17, <3>2 DEF OneShot
      <4> QED BY <4>1, TakeShape, LockNames DEF Shape, Whys
    <3> QED BY <3>1, <3>2
  <2> QED BY <1>17, <2>1, <2>2 DEF Shape, OneShot, elfVars, taskVars, startVars
<1>18. ASSUME NEW t \in Threads, CopyElfs(t) PROVE Shape'
  <2>1. Cached \subseteq Elfs
    BY ElfsOfLibs
  <2> QED BY <1>18, <2>1 DEF Shape, CopyElfs, Goto, Places, lockVars, elfVars, taskVars,
             startVars
<1>19. ASSUME NEW t \in Threads, ApplyTask(t) PROVE Shape'
  <2>1. /\ held' \in [Locks -> Threads \cup {NoOne}]
        /\ inited' \subseteq {"manager", "monitor", "oneshot"}
        /\ ok' \subseteq inited' \cap {"manager", "monitor"}
    <3>1. CASE why[t] = "oneshot"
      <4>1. /\ held' = [held EXCEPT !["oneshot"] = NoOne]
            /\ inited' = inited \cup {"oneshot"} /\ ok' = ok
        BY <1>19, <3>1 DEF ApplyTask, Release
      <4>2. held' \in [Locks -> Threads \cup {NoOne}]
        BY <4>1 DEF Shape
      <4> QED BY <4>1, <4>2 DEF Shape
    <3>2. CASE why[t] # "oneshot"
      BY <1>19, <3>2 DEF Shape, ApplyTask
    <3> QED BY <3>1, <3>2
  <2>2. /\ at' \in [Threads -> Places]
        /\ task' \in [Threads -> Tasks \cup Range(Monitored) \cup {NoOne}]
        /\ call' \in [Threads -> Tasks \cup {NoOne}]
    BY <1>19 DEF Shape, ApplyTask, HookOver, Goto, Places
  <2>3. task[t] \in listed \cup Range(Monitored)
    BY <1>19 DEF Shape, ApplyTask, HasTask, At
  <2>4. hooked' \subseteq Range(Monitored)
    BY <1>19, <2>3 DEF Shape, ApplyTask
  <2>5. {task[t]} \cap Tasks \subseteq listed
    BY <2>3, DlMonitorAssumption
  <2>6. applied' \subseteq listed \X Elfs
    BY <1>19, <2>5 DEF Shape, ApplyTask
  <2> QED BY <1>19, <2>1, <2>2, <2>4, <2>6 DEF Shape, ApplyTask, OtherReaders, elfVars
<1>20. ASSUME NEW t \in Threads, InitManager(t) PROVE Shape'
  <2>1. call[t] # NoOne
    BY <1>20 DEF InitManager, HasTask, At
  <2>2. CASE "manager" \in inited
    <3>1. Answer(t, "manager" \in ok)
      BY <1>20, <2>2 DEF InitManager
    <3> QED BY <1>20, <2>1, <2>2, <3>1, AnswerShape DEF Shape, InitManager, elfVars
  <2>3. CASE "manager" \notin inited
    <3>1. Take(t, "manager") /\ post' = TRUE /\ inited' = inited /\ Goto(t, "monitor")
      BY <1>20, <2>3 DEF InitManager, MarkedBefore
    <3>2. held' \in [Locks -> Threads \cup {NoOne}]
      BY <3>1, TakeShape, LockNames
    <3>3. at' \in [Threads -> Places]
      BY <3>1 DEF Shape, Goto, Places
    <3> QED BY <1>20, <2>3, <3>1, <3>2, <3>3 DEF Shape, InitManager, elfVars
  <2> QED BY <2>2, <2>3
<1>21. ASSUME NEW t \in Threads, InitMonitor(t) PROVE Shape'
  <2>1. CASE "monitor" \in inited
    <3>1. MonitorAnswer(t, "monitor" \in ok) /\ Latched(t, "monitor" \in ok, {})
      BY <1>21, <2>1 DEF InitMonitor
    <3>2. inited' \subseteq {"manager", "monitor", "oneshot"} /\ ok' \subseteq inited' \cap {"manager", "monitor"}
      BY <3>1 DEF Shape, Latched
    <3> QED BY <1>21, <2>1, <3>1, <3>2, MonitorAnswerShape DEF Shape, InitMonitor, elfVars
  <2>2. CASE "monitor" \notin inited
    BY <1>21, <2>2 DEF Shape, InitMonitor, Goto, Places, elfVars
  <2> QED BY <2>1, <2>2
<1>22. ASSUME NEW t \in Threads, MarkMonitor(t) PROVE Shape'
  <2>1. CASE "monitor" \in inited
    <3>1. MonitorAnswer(t, "monitor" \in ok) /\ Latched(t, "monitor" \in ok, {})
      BY <1>22, <2>1 DEF MarkMonitor
    <3>2. inited' \subseteq {"manager", "monitor", "oneshot"} /\ ok' \subseteq inited' \cap {"manager", "monitor"}
      BY <3>1 DEF Shape, Latched
    <3> QED BY <1>22, <2>1, <3>1, <3>2, MonitorAnswerShape DEF Shape, MarkMonitor, elfVars
  <2>2. CASE "monitor" \notin inited
    BY <1>22, <2>2 DEF Shape, MarkMonitor, Goto, Places, elfVars
  <2> QED BY <2>1, <2>2
<1>23. ASSUME NEW t \in Threads, HookNext(t) PROVE Shape'
  <2>1. Monitored[Min(Unhooked)] \in Range(Monitored)
    BY <1>23, NextMonitored DEF HookNext
  <2> QED BY <1>23, <2>1 DEF Shape, HookNext, Goto, Places, lockVars, elfVars, taskVars,
             startVars
<1>24. ASSUME NEW t \in Threads, NEW good \in BOOLEAN, StartDone(t, good) PROVE Shape'
  <2>1. MonitorAnswer(t, good) /\ Latched(t, good, {"monitor"})
    BY <1>24 DEF StartDone
  <2>2. hooked' \subseteq Range(Monitored)
    BY <1>24 DEF Shape, StartDone
  <2> QED BY <1>24, <2>1, <2>2, MonitorAnswerShape, LatchedShape DEF Shape, StartDone,
             elfVars
<1>25. CASE UNCHANGED vars
  BY <1>25 DEF Shape, vars, lockVars, elfVars, taskVars, startVars, callVars
<1>26. ASSUME NEW t \in Threads, LockMonitor(t) PROVE Shape'
  <2>1. Take(t, "monitor") /\ initing' = TRUE /\ Goto(t, "locked")
    BY <1>26 DEF LockMonitor
  <2>2. held' \in [Locks -> Threads \cup {NoOne}]
    BY <2>1, TakeShape, LockNames
  <2>3. at' \in [Threads -> Places]
    BY <2>1 DEF Shape, Goto, Places
  <2> QED BY <1>26, <2>1, <2>2, <2>3 DEF Shape, LockMonitor, elfVars, taskVars, callVars
<1>27. ASSUME NEW t \in Threads, NoRefresh(t) PROVE Shape'
  <2>1. held' \in [Locks -> Threads \cup {NoOne}] /\ at' \in [Threads -> Places]
    BY <1>27 DEF NoRefresh, Release, Goto, Shape, Places
  <2>2. unseen' \subseteq Elfs
    BY <1>27, ElfsOfLibs DEF NoRefresh, Shape
  <2> QED BY <1>27, <2>1, <2>2 DEF NoRefresh, Shape, taskVars, startVars, callVars
<1> QED BY <1>1, <1>2, <1>3, <1>4, <1>5, <1>6, <1>7, <1>8, <1>9, <1>10, <1>11, <1>12, <1>13,
           <1>14, <1>15, <1>16, <1>17, <1>18, <1>19, <1>20, <1>21, <1>22, <1>23, <1>24,
           <1>25, <1>26, <1>27 DEF Next, Begin, Continue, Rest

\* Every step keeps the linker's mutex with a thread in a dlopen.
LEMMA LinkerNext == IInv /\ [Next]_vars => \A u \in Threads : InLinker(u)'
<1> SUFFICES ASSUME IInv, [Next]_vars, NEW u \in Threads PROVE InLinker(u)'
  OBVIOUS
<1> USE DEF IInv
<1>1. ASSUME NEW t \in Threads, NEW l \in Libs, Open(t, l) PROVE InLinker(u)'
  <2>1. Map(t, l) /\ held["linker"] = NoOne
    BY <1>1 DEF Open, Free
  <2>2. UNCHANGED why
    BY <2>1 DEF Map
  <2>3. /\ held'["linker"] = t
        /\ at'[u] = IF u = t THEN "ctor" ELSE at[u]
        /\ u = t => opening'[u] # <<>>
        /\ u # t => opening'[u] = opening[u]
    BY <2>1, MapLinker
  <2> QED BY <2>1, <2>2, <2>3, DlMonitorAssumption DEF InLinker, RefreshFor, At
<1>2. ASSUME NEW t \in Threads, NEW l \in Libs, BeginClose(t, l) PROVE InLinker(u)'
  BY <1>2 DEF BeginClose, MayClose, InLinker, RefreshFor, At, Goto, lockVars
<1>3. ASSUME NEW t \in Threads, NEW l \in Libs, CloseUnseen(t, l) PROVE InLinker(u)'
  BY <1>3 DEF CloseUnseen, MayClose, Unmapped, InLinker, RefreshFor, At, lockVars, callVars
<1>4. ASSUME NEW t \in Threads, NEW k \in Tasks, HookCall(t, k) PROVE InLinker(u)'
  BY <1>4 DEF HookCall, InLinker, RefreshFor, At, Goto, lockVars
<1>5. ASSUME NEW t \in Threads, AddCallback(t) PROVE InLinker(u)'
  BY <1>5 DEF AddCallback, InLinker, RefreshFor, At, Goto, lockVars, callVars
<1>6. ASSUME NEW t \in Threads, NEW l \in Libs, CtorOpen(t, l) PROVE InLinker(u)'
  <2>1. Map(t, l) /\ At(t, "ctor")
    BY <1>6 DEF CtorOpen
  <2>2. held["linker"] = t
    BY <2>1 DEF InLinker
  <2>3. UNCHANGED why
    BY <2>1 DEF Map
  <2>4. /\ held'["linker"] = t
        /\ at'[u] = IF u = t THEN "ctor" ELSE at[u]
        /\ u = t => opening'[u] # <<>>
        /\ u # t => opening'[u] = opening[u]
    BY <2>1, MapLinker
  <2> QED BY <2>2, <2>3, <2>4, DlMonitorAssumption DEF InLinker, RefreshFor, At
<1>7. ASSUME NEW t \in Threads, LinkerReturn(t) PROVE InLinker(u)'
  <2>1. at'[u] = IF u = t THEN "opened" ELSE at[u]
    BY <1>7, Goes DEF LinkerReturn
  <2>2. held["linker"] = t /\ opening[t] # <<>>
    BY <1>7 DEF LinkerReturn, InLinker, At
  <2>3. held'["linker"] = IF Len(opening[t]) = 1 THEN NoOne ELSE t
    BY <1>7, <2>2, LockNames DEF LinkerReturn, Shape
  <2>4. UNCHANGED <<opening, why>>
    BY <1>7 DEF LinkerReturn, callVars
  <2> QED BY <2>1, <2>2, <2>3, <2>4, DlMonitorAssumption DEF InLinker, RefreshFor, At
<1>8. ASSUME NEW t \in Threads, AfterOpen(t) PROVE InLinker(u)'
  <2>1. opening[t] \in Seq(OpenCalls) /\ opening[t] # <<>>
    BY <1>8 DEF AfterOpen, InLinker, Shape, At
  <2>2. Len(opening[t]) # 1 => Front(opening[t]) # <<>>
    BY <2>1, FrontCalls
  <2>3. /\ held["linker"] = t <=> Len(opening[t]) # 1
        /\ UNCHANGED held
    BY <1>8 DEF AfterOpen, InLinker, At, lockVars
  <2>4. u # t => at'[u] = at[u] /\ why'[u] = why[u] /\ opening'[u] = opening[u]
    BY <1>8 DEF AfterOpen, Shape, Goto, Popped
  <2>5. \/ /\ at'[t] = "read" /\ why'[t] = "dlopen" /\ held["linker"] # t
           /\ opening'[t] = opening[t]
        \/ /\ at'[t] = IF Len(opening[t]) = 1 THEN "idle" ELSE "ctor"
           /\ opening'[t] = Front(opening[t])
           /\ why'[t] = why[t]
    BY <1>8 DEF AfterOpen, Shape, Goto, Popped, Outer, InLock
  <2>6. CASE u = t
    BY <2>1, <2>2, <2>3, <2>5, <2>6 DEF InLinker, RefreshFor, At
  <2>7. CASE u # t
    BY <2>3, <2>4, <2>7 DEF InLinker, RefreshFor, At
  <2> QED BY <2>6, <2>7
<1>9. ASSUME NEW t \in Threads, LockClose(t) PROVE InLinker(u)'
  BY <1>9 DEF LockClose, CloseLocks, InLinker, RefreshFor, At, Goto, Take, callVars
<1>10. ASSUME NEW t \in Threads, Unmap(t) PROVE InLinker(u)'
  BY <1>10 DEF Unmap, Unmapped, InLinker, RefreshFor, At, Goto, lockVars, Shape
<1>11. ASSUME NEW t \in Threads, Read(t) PROVE InLinker(u)'
  BY <1>11 DEF Read, InLinker, RefreshFor, At, Goto, callVars
<1>12. ASSUME NEW t \in Threads, BeginRefresh(t) PROVE InLinker(u)'
  BY <1>12 DEF BeginRefresh, InLinker, RefreshFor, At, Goto, Take, callVars
<1>13. ASSUME NEW t \in Threads, Iterate(t) PROVE InLinker(u)'
  <2>1. held'["linker"] = held["linker"]
    BY <1>13, LockNames DEF Iterate, Shape
  <2>2. /\ u # t => at'[u] = at[u]
        /\ at'[t] \in {"posting", "idle", "copy"}
        /\ at'[t] = "posting" => why[t] = "dlopen"
    BY <1>13 DEF Iterate, Goto, Shape, HasTask, Whys, At
  <2>3. UNCHANGED <<why, opening>>
    BY <1>13 DEF Iterate
  <2>4. At(t, "iterate")
    BY <1>13 DEF Iterate
  <2> QED BY <2>1, <2>2, <2>3, <2>4 DEF InLinker, RefreshFor, At
<1>14. ASSUME NEW t \in Threads, PostNewElf(t) PROVE InLinker(u)'
  BY <1>14 DEF PostNewElf, InLinker, RefreshFor, At, lockVars
<1>15. ASSUME NEW t \in Threads, PostDone(t) PROVE InLinker(u)'
  BY <1>15 DEF PostDone, Popped, Outer, OtherReaders, InLinker, RefreshFor, At, Goto, Shape
<1>16. ASSUME NEW t \in Threads, BeginHook(t) PROVE InLinker(u)'
  BY <1>16 DEF BeginHook, InLinker, RefreshFor, At, Goto, lockVars, Shape
<1>17. ASSUME NEW t \in Threads, OneShot(t) PROVE InLinker(u)'
  <2>1. held'["linker"] = held["linker"]
    BY <1>17, OneShotSplit, Takes, LockNames DEF Locks
  <2>2. /\ at'[u] = IF u = t THEN "read" ELSE at[u]
        /\ at[t] = "oneshot" /\ why[t] \in {"hook", "oneshot"}
    BY <1>17, Goes DEF OneShot, HasTask, At
  <2>3. why'[u] = why[u] \/ (u = t /\ why'[u] = "oneshot")
    <3>1. \/ why' = why
          \/ why' = [why EXCEPT ![t] = "oneshot"]
      BY <1>17 DEF OneShot
    <3> QED BY <3>1 DEF Shape
  <2>4. UNCHANGED opening
    BY <1>17 DEF OneShot
  <2> QED BY <2>1, <2>2, <2>3, <2>4 DEF InLinker, RefreshFor, At
<1>18. ASSUME NEW t \in Threads, CopyElfs(t) PROVE InLinker(u)'
  BY <1>18 DEF CopyElfs, InLinker, RefreshFor, At, Goto, lockVars
<1>19. ASSUME NEW t \in Threads, ApplyTask(t) PROVE InLinker(u)'
  BY <1>19 DEF ApplyTask, OtherReaders, HookOver, InLinker, RefreshFor, At, Goto, Release,
     Locks, Shape
<1>20. ASSUME NEW t \in Threads, InitManager(t) PROVE InLinker(u)'
  <2>1. held'["linker"] = held["linker"]
    BY <1>20, InitManagerSplit, Takes, LockNames
  <2>2. /\ at[t] = "manager" /\ why[t] \in {"hook", "oneshot"}
        /\ IF u = t THEN at'[u] \in {"read", "idle", "monitor"} ELSE at'[u] = at[u]
    BY <1>20, InitManagerSplit, AnswerGoes, Goes DEF InitManager, HasTask, At
  <2>3. UNCHANGED <<why, opening>>
    BY <1>20 DEF InitManager
  <2> QED BY <2>1, <2>2, <2>3 DEF InLinker, RefreshFor, At
<1>21. ASSUME NEW t \in Threads, InitMonitor(t) PROVE InLinker(u)'
  <2>1. held'["linker"] = held["linker"]
    BY <1>21, InitMonitorSplit, MonitorAnswerLocks, Takes, LockNames
  <2>2. /\ at[t] = "monitor"
        /\ IF u = t
           THEN \/ at'[u] \in {"idle", "starting", "monitored"}
                \/ at'[u] = "read" /\ call[t] # NoOne
           ELSE at'[u] = at[u]
    BY <1>21, InitMonitorSplit, MonitorAnswerGoes, Goes DEF InitMonitor, At
  <2>3. UNCHANGED <<why, opening>>
    BY <1>21 DEF InitMonitor
  <2>4. call[t] # NoOne => why[t] \in {"hook", "oneshot"}
    BY <2>2 DEF HasTask
  <2> QED BY <2>1, <2>2, <2>3, <2>4 DEF InLinker, RefreshFor, At
<1>22. ASSUME NEW t \in Threads, MarkMonitor(t) PROVE InLinker(u)'
  <2>1. held'["linker"] = held["linker"]
    BY <1>22, MarkMonitorSplit, MonitorAnswerLocks, Takes, LockNames
  <2>2. /\ at[t] = "locked"
        /\ IF u = t
           THEN \/ at'[u] \in {"idle", "starting", "monitored"}
                \/ at'[u] = "read" /\ call[t] # NoOne
           ELSE at'[u] = at[u]
    BY <1>22, MarkMonitorSplit, MonitorAnswerGoes, Goes DEF MarkMonitor, At
  <2>3. UNCHANGED <<why, opening>>
    BY <1>22 DEF MarkMonitor
  <2>4. call[t] # NoOne => why[t] \in {"hook", "oneshot"}
    BY <2>2 DEF HasTask
  <2> QED BY <2>1, <2>2, <2>3, <2>4 DEF InLinker, RefreshFor, At
<1>23. ASSUME NEW t \in Threads, HookNext(t) PROVE InLinker(u)'
  BY <1>23 DEF HookNext, InLinker, RefreshFor, At, Goto, lockVars
<1>24. ASSUME NEW t \in Threads, NEW good \in BOOLEAN, StartDone(t, good) PROVE InLinker(u)'
  <2>1. held'["linker"] = held["linker"]
    BY <1>24, MonitorAnswerLocks, Takes, LockNames DEF StartDone
  <2>2. /\ at[t] = "monitored"
        /\ IF u = t
           THEN \/ at'[u] \in {"idle", "starting", "monitored"}
                \/ at'[u] = "read" /\ call[t] # NoOne
           ELSE at'[u] = at[u]
    BY <1>24, MonitorAnswerGoes, Goes DEF StartDone, At
  <2>3. UNCHANGED <<why, opening>>
    BY <1>24 DEF StartDone
  <2>4. call[t] # NoOne => why[t] \in {"hook", "oneshot"}
    BY <2>2 DEF HasTask
  <2> QED BY <2>1, <2>2, <2>3, <2>4 DEF InLinker, RefreshFor, At
<1>25. CASE UNCHANGED vars
  BY <1>25 DEF InLinker, RefreshFor, At, lockVars, callVars, vars
<1>26. ASSUME NEW t \in Threads, LockMonitor(t) PROVE InLinker(u)'
  <2>1. held'["linker"] = held["linker"]
    BY <1>26, Takes, LockNames DEF LockMonitor
  <2>2. /\ at'[u] = (IF u = t THEN "locked" ELSE at[u]) /\ at[t] = "starting"
        /\ UNCHANGED <<why, opening>>
    BY <1>26, Goes DEF LockMonitor, callVars, At
  <2> QED BY <2>1, <2>2 DEF InLinker, RefreshFor, At
<1>27. ASSUME NEW t \in Threads, NoRefresh(t) PROVE InLinker(u)'
  <2>1. held'["linker"] = held["linker"] /\ at[t] = "refresh" /\ why[t] = "dlclose"
    BY <1>27, NoRefreshEffect, LockNames
  <2>2. at'[u] = (IF u = t THEN "idle" ELSE at[u]) /\ UNCHANGED <<why, opening>>
    BY <1>27, NoRefreshEffect, LockNames
  <2> QED BY <2>1, <2>2 DEF InLinker, RefreshFor, At
<1> QED BY <1>1, <1>2, <1>3, <1>4, <1>5, <1>6, <1>7, <1>8, <1>9, <1>10, <1>11, <1>12, <1>13,
           <1>14, <1>15, <1>16, <1>17, <1>18, <1>19, <1>20, <1>21, <1>22, <1>23, <1>24,
           <1>25, <1>26, <1>27 DEF Next, Begin, Continue, Rest

\* Every step keeps the tasks in hand right.
LEMMA TaskNext == IInv /\ [Next]_vars => \A u \in Threads : HasTask(u)'
<1> SUFFICES ASSUME IInv, [Next]_vars, NEW u \in Threads PROVE HasTask(u)'
  OBVIOUS
<1> USE DEF IInv
<1>1. ASSUME NEW t \in Threads, NEW l \in Libs, Open(t, l) PROVE HasTask(u)'
  BY <1>1 DEF Open, Map, HasTask, RefreshFor, At, Goto, taskVars
<1>2. ASSUME NEW t \in Threads, NEW l \in Libs, BeginClose(t, l) PROVE HasTask(u)'
  BY <1>2 DEF BeginClose, MayClose, HasTask, RefreshFor, At, Goto, taskVars
<1>3. ASSUME NEW t \in Threads, NEW l \in Libs, CloseUnseen(t, l) PROVE HasTask(u)'
  BY <1>3 DEF CloseUnseen, MayClose, Unmapped, HasTask, RefreshFor, At, callVars
<1>4. ASSUME NEW t \in Threads, NEW k \in Tasks, HookCall(t, k) PROVE HasTask(u)'
  <2>1. UNCHANGED why /\ listed' = listed \cup {k}
    BY <1>4 DEF HookCall
  <2>2. u # t => at'[u] = at[u] /\ task'[u] = task[u] /\ call'[u] = call[u]
    BY <1>4 DEF HookCall, Goto, Shape
  <2>3. at'[t] = "hook" /\ task'[t] = k /\ call'[t] = k
    BY <1>4 DEF HookCall, Goto, Shape
  <2>4. CASE u = t
    BY <2>1, <2>3, <2>4, DlMonitorAssumption DEF HasTask, RefreshFor, At
  <2>5. CASE u # t
    BY <2>1, <2>2, <2>5 DEF HasTask, RefreshFor, At
  <2> QED BY <2>4, <2>5
<1>5. ASSUME NEW t \in Threads, AddCallback(t) PROVE HasTask(u)'
  BY <1>5 DEF AddCallback, HasTask, RefreshFor, At, Goto, taskVars, callVars
<1>6. ASSUME NEW t \in Threads, NEW l \in Libs, CtorOpen(t, l) PROVE HasTask(u)'
  BY <1>6 DEF CtorOpen, Map, HasTask, RefreshFor, At, Goto, taskVars
<1>7. ASSUME NEW t \in Threads, LinkerReturn(t) PROVE HasTask(u)'
  BY <1>7 DEF LinkerReturn, HasTask, RefreshFor, At, Goto, taskVars, callVars
<1>8. ASSUME NEW t \in Threads, AfterOpen(t) PROVE HasTask(u)'
  <2>1. UNCHANGED <<task, call, listed>> /\ at[t] = "opened"
    BY <1>8 DEF AfterOpen, At, taskVars
  <2>2. u # t => at'[u] = at[u] /\ why'[u] = why[u]
    BY <1>8 DEF AfterOpen, Goto, Shape
  <2>3. \/ at'[t] = "read" /\ why'[t] = "dlopen"
        \/ at'[t] \in {"idle", "ctor"}
    BY <1>8 DEF AfterOpen, Goto, Outer, Shape
  <2>4. CASE u = t
    BY <2>1, <2>3, <2>4 DEF HasTask, RefreshFor, At
  <2>5. CASE u # t
    BY <2>1, <2>2, <2>5 DEF HasTask, RefreshFor, At
  <2> QED BY <2>4, <2>5
<1>9. ASSUME NEW t \in Threads, LockClose(t) PROVE HasTask(u)'
  BY <1>9 DEF LockClose, CloseLocks, HasTask, RefreshFor, At, Goto, taskVars, callVars
<1>10. ASSUME NEW t \in Threads, Unmap(t) PROVE HasTask(u)'
  BY <1>10 DEF Unmap, Unmapped, HasTask, RefreshFor, At, Goto, Shape
<1>11. ASSUME NEW t \in Threads, Read(t) PROVE HasTask(u)'
  BY <1>11 DEF Read, HasTask, RefreshFor, At, Goto, taskVars, callVars
<1>12. ASSUME NEW t \in Threads, BeginRefresh(t) PROVE HasTask(u)'
  BY <1>12 DEF BeginRefresh, HasTask, RefreshFor, At, Goto, taskVars, callVars
<1>13. ASSUME NEW t \in Threads, Iterate(t) PROVE HasTask(u)'
  <2>1. UNCHANGED <<task, call, listed, why>> /\ at[t] = "iterate"
    BY <1>13 DEF Iterate, At, taskVars
  <2>2. u # t => at'[u] = at[u]
    BY <1>13 DEF Iterate, Goto, Shape
  <2>3. at'[t] = CASE why[t] = "dlopen" -> "posting" [] why[t] = "dlclose" -> "idle"
                   [] why[t] = "oneshot" -> "copy"
    BY <1>13, Goes DEF Iterate
  <2>4. why[t] \in {"dlopen", "dlclose", "oneshot"}
    BY <2>1 DEF HasTask, Shape, Whys
  <2>5. CASE u = t
    BY <2>1, <2>3, <2>4, <2>5 DEF HasTask, RefreshFor, At
  <2>6. CASE u # t
    BY <2>1, <2>2, <2>6 DEF HasTask, RefreshFor, At
  <2> QED BY <2>5, <2>6
<1>14. ASSUME NEW t \in Threads, PostNewElf(t) PROVE HasTask(u)'
  BY <1>14 DEF PostNewElf, HasTask, RefreshFor, At
<1>15. ASSUME NEW t \in Threads, PostDone(t) PROVE HasTask(u)'
  BY <1>15 DEF PostDone, Popped, Outer, OtherReaders, HasTask, RefreshFor, At, Goto,
     taskVars
<1>16. ASSUME NEW t \in Threads, BeginHook(t) PROVE HasTask(u)'
  <2>1. UNCHANGED <<task, call, listed>> /\ at[t] = "hook"
    BY <1>16 DEF BeginHook, At, taskVars
  <2>2. u # t => at'[u] = at[u] /\ why'[u] = why[u]
    BY <1>16 DEF BeginHook, Goto, Shape
  <2>3. /\ at'[t] \in {"manager", "read", "oneshot"} /\ why'[t] = "hook"
        /\ at'[t] = "manager" => ~initing
    BY <1>16 DEF BeginHook, Goto, Shape
  <2>4. task[t] # NoOne /\ (~initing => task[t] = call[t])
    BY <2>1, DlMonitorAssumption DEF HasTask, Starts, Start
  <2>5. CASE u = t
    BY <2>1, <2>3, <2>4, <2>5 DEF HasTask, RefreshFor, At
  <2>6. CASE u # t
    BY <2>1, <2>2, <2>6 DEF HasTask, RefreshFor, At
  <2> QED BY <2>5, <2>6
<1>17. ASSUME NEW t \in Threads, OneShot(t) PROVE HasTask(u)'
  BY <1>17 DEF OneShot, HasTask, RefreshFor, At, Goto, taskVars, Shape
<1>18. ASSUME NEW t \in Threads, CopyElfs(t) PROVE HasTask(u)'
  BY <1>18 DEF CopyElfs, HasTask, RefreshFor, At, Goto, taskVars
<1>19. ASSUME NEW t \in Threads, ApplyTask(t) PROVE HasTask(u)'
  <2>1. UNCHANGED <<why, listed>> /\ at[t] = "apply"
    BY <1>19 DEF ApplyTask, At
  <2>2. u # t => at'[u] = at[u] /\ task'[u] = task[u] /\ call'[u] = call[u]
    BY <1>19 DEF ApplyTask, HookOver, Goto, Shape
  <2>3. \/ at'[t] = "idle" /\ task'[t] = NoOne /\ call'[t] = NoOne
        \/ at'[t] = "monitored" /\ task'[t] = task[t] /\ call'[t] = call[t]
    BY <1>19 DEF ApplyTask, HookOver, Goto, Shape
  <2>4. CASE u = t
    BY <2>1, <2>3, <2>4 DEF HasTask, RefreshFor, At
  <2>5. CASE u # t
    BY <2>1, <2>2, <2>5 DEF HasTask, RefreshFor, At
  <2> QED BY <2>4, <2>5
<1>20. ASSUME NEW t \in Threads, InitManager(t) PROVE HasTask(u)'
  <2>1. UNCHANGED <<why, listed>> /\ at[t] = "manager"
    BY <1>20 DEF InitManager, At
  <2>2. u # t => at'[u] = at[u] /\ task'[u] = task[u] /\ call'[u] = call[u]
    BY <1>20, InitManagerSplit, AnswerGoes, Goes
  <2>3. \/ at'[t] = "read" /\ task'[t] = call[t] /\ call'[t] = call[t]
        \/ at'[t] = "idle" /\ task'[t] = NoOne /\ call'[t] = NoOne
        \/ at'[t] = "monitor" /\ task'[t] = task[t] /\ call'[t] = call[t]
    BY <1>20, InitManagerSplit, AnswerGoes, Goes
  <2>4. CASE u = t
    BY <2>1, <2>3, <2>4 DEF HasTask, RefreshFor, At
  <2>5. CASE u # t
    BY <2>1, <2>2, <2>5 DEF HasTask, RefreshFor, At
  <2> QED BY <2>4, <2>5
<1>21. ASSUME NEW t \in Threads, InitMonitor(t) PROVE HasTask(u)'
  <2>1. UNCHANGED <<why, listed>> /\ at[t] = "monitor"
    BY <1>21 DEF InitMonitor, At
  <2>2. u # t => at'[u] = at[u] /\ task'[u] = task[u] /\ call'[u] = call[u]
    BY <1>21, InitMonitorSplit, MonitorAnswerGoes, Goes
  <2>3. \/ at'[t] = "read" /\ task'[t] = call[t] /\ call'[t] = call[t] /\ call[t] # NoOne
        \/ at'[t] = "idle" /\ task'[t] = NoOne /\ call'[t] = NoOne
        \/ at'[t] = "starting" /\ task'[t] = task[t] /\ call'[t] = call[t]
    BY <1>21, InitMonitorSplit, MonitorAnswerGoes, Goes
  <2>4. CASE u = t
    BY <2>1, <2>3, <2>4 DEF HasTask, RefreshFor, At
  <2>5. CASE u # t
    BY <2>1, <2>2, <2>5 DEF HasTask, RefreshFor, At
  <2> QED BY <2>4, <2>5
<1>22. ASSUME NEW t \in Threads, MarkMonitor(t) PROVE HasTask(u)'
  <2>1. UNCHANGED <<why, listed>> /\ at[t] = "locked"
    BY <1>22 DEF MarkMonitor, At
  <2>2. u # t => at'[u] = at[u] /\ task'[u] = task[u] /\ call'[u] = call[u]
    BY <1>22, MarkMonitorSplit, MonitorAnswerGoes, Goes
  <2>3. \/ at'[t] = "read" /\ task'[t] = call[t] /\ call'[t] = call[t] /\ call[t] # NoOne
        \/ at'[t] = "idle" /\ task'[t] = NoOne /\ call'[t] = NoOne
        \/ at'[t] = "monitored" /\ task'[t] = task[t] /\ call'[t] = call[t]
    BY <1>22, MarkMonitorSplit, MonitorAnswerGoes, Goes
  <2>4. CASE u = t
    BY <2>1, <2>3, <2>4 DEF HasTask, RefreshFor, At
  <2>5. CASE u # t
    BY <2>1, <2>2, <2>5 DEF HasTask, RefreshFor, At
  <2> QED BY <2>4, <2>5
<1>23. ASSUME NEW t \in Threads, HookNext(t) PROVE HasTask(u)'
  <2>1. UNCHANGED <<why, call, listed>> /\ at[t] = "monitored"
    BY <1>23 DEF HookNext, At, taskVars
  <2>2. u # t => at'[u] = at[u] /\ task'[u] = task[u]
    BY <1>23 DEF HookNext, Goto, Shape
  <2>3. at'[t] = "hook" /\ task'[t] \in Range(Monitored)
    BY <1>23, NextMonitored DEF HookNext, Goto, Shape
  <2>4. NoOne \notin Range(Monitored)
    BY DlMonitorAssumption
  <2>5. CASE u = t
    BY <2>1, <2>3, <2>4, <2>5 DEF HasTask, RefreshFor, At
  <2>6. CASE u # t
    BY <2>1, <2>2, <2>6 DEF HasTask, RefreshFor, At
  <2> QED BY <2>5, <2>6
<1>24. ASSUME NEW t \in Threads, NEW good \in BOOLEAN, StartDone(t, good) PROVE HasTask(u)'
  <2>1. UNCHANGED <<why, listed>> /\ at[t] = "monitored"
    BY <1>24 DEF StartDone, At
  <2>2. u # t => at'[u] = at[u] /\ task'[u] = task[u] /\ call'[u] = call[u]
    BY <1>24, MonitorAnswerGoes, Goes DEF StartDone
  <2>3. \/ at'[t] = "read" /\ task'[t] = call[t] /\ call'[t] = call[t] /\ call[t] # NoOne
        \/ at'[t] = "idle" /\ task'[t] = NoOne /\ call'[t] = NoOne
    BY <1>24, MonitorAnswerGoes, Goes DEF StartDone
  <2>4. CASE u = t
    BY <2>1, <2>3, <2>4 DEF HasTask, RefreshFor, At
  <2>5. CASE u # t
    BY <2>1, <2>2, <2>5 DEF HasTask, RefreshFor, At
  <2> QED BY <2>4, <2>5
<1>25. CASE UNCHANGED vars
  BY <1>25 DEF HasTask, RefreshFor, At, taskVars, callVars, vars
<1>26. ASSUME NEW t \in Threads, LockMonitor(t) PROVE HasTask(u)'
  BY <1>26 DEF LockMonitor, HasTask, RefreshFor, At, Goto, taskVars, callVars, Shape
<1>27. ASSUME NEW t \in Threads, NoRefresh(t) PROVE HasTask(u)'
  BY <1>27, NoRefreshEffect, LockNames DEF HasTask, RefreshFor, At
<1> QED BY <1>1, <1>2, <1>3, <1>4, <1>5, <1>6, <1>7, <1>8, <1>9, <1>10, <1>11, <1>12, <1>13,
           <1>14, <1>15, <1>16, <1>17, <1>18, <1>19, <1>20, <1>21, <1>22, <1>23, <1>24,
           <1>25, <1>26, <1>27 DEF Next, Begin, Continue, Rest

\* Nothing about a thread changes.
Stays(u) ==
    /\ at'[u] = at[u] /\ why'[u] = why[u] /\ task'[u] = task[u] /\ call'[u] = call[u]
    /\ elfs'[u] = elfs[u] /\ opening'[u] = opening[u]

\* A step of one thread leaves the others where they are.
LEMMA OthersStay ==
    ASSUME IInv, NEW t \in Threads, Begin(t) \/ Continue(t), NEW u \in Threads \ {t}
    PROVE  Stays(u)
<1> USE DEF IInv
<1>1. ASSUME NEW l \in Libs, Open(t, l) PROVE Stays(u)
  BY <1>1 DEF Open, Map, Goto, Stays
<1>2. ASSUME NEW l \in Libs, BeginClose(t, l) PROVE Stays(u)
  BY <1>2 DEF BeginClose, MayClose, Goto, Stays
<1>3. ASSUME NEW l \in Libs, CloseUnseen(t, l) PROVE Stays(u)
  BY <1>3 DEF CloseUnseen, MayClose, Unmapped, callVars, Stays
<1>4. ASSUME NEW k \in Tasks, HookCall(t, k) PROVE Stays(u)
  BY <1>4 DEF HookCall, Goto, Stays
<1>5. CASE AddCallback(t)
  BY <1>5 DEF AddCallback, Goto, callVars, Stays
<1>6. ASSUME NEW l \in Libs, CtorOpen(t, l) PROVE Stays(u)
  BY <1>6 DEF CtorOpen, Map, Goto, Stays
<1>7. CASE LinkerReturn(t)
  BY <1>7 DEF LinkerReturn, Goto, callVars, Stays
<1>8. CASE AfterOpen(t)
  BY <1>8 DEF AfterOpen, Popped, Outer, InLock, Goto, Shape, Stays
<1>9. CASE LockClose(t)
  BY <1>9 DEF LockClose, CloseLocks, Goto, callVars, Stays
<1>10. CASE Unmap(t)
  BY <1>10 DEF Unmap, Unmapped, Goto, Stays
<1>11. CASE Read(t)
  BY <1>11 DEF Read, Goto, callVars, Stays
<1>12. CASE BeginRefresh(t)
  BY <1>12 DEF BeginRefresh, Goto, callVars, Stays
<1>13. CASE Iterate(t)
  BY <1>13 DEF Iterate, NewElfs, Goto, Stays
<1>14. CASE PostNewElf(t)
  BY <1>14 DEF PostNewElf, Stays
<1>15. CASE PostDone(t)
  BY <1>15 DEF PostDone, Popped, Outer, OtherReaders, Goto, Stays
<1>16. CASE BeginHook(t)
  BY <1>16 DEF BeginHook, Goto, Stays
<1>17. CASE OneShot(t)
  BY <1>17, OneShotSplit, Goes DEF Stays, OneShot, Shape
<1>18. CASE CopyElfs(t)
  BY <1>18 DEF CopyElfs, Goto, Stays
<1>19. CASE ApplyTask(t)
  BY <1>19 DEF ApplyTask, OtherReaders, HookOver, Goto, Shape, Stays
<1>20. CASE InitManager(t)
  BY <1>20, InitManagerSplit, AnswerGoes, Goes DEF Stays, InitManager
<1>21. CASE InitMonitor(t)
  BY <1>21, InitMonitorSplit, MonitorAnswerGoes, Goes DEF Stays, InitMonitor
<1>22. CASE MarkMonitor(t)
  BY <1>22, MarkMonitorSplit, MonitorAnswerGoes, Goes DEF Stays, MarkMonitor
<1>23. CASE HookNext(t)
  BY <1>23 DEF HookNext, Goto, Stays
<1>24. ASSUME NEW good \in BOOLEAN, StartDone(t, good) PROVE Stays(u)
  BY <1>24, MonitorAnswerGoes DEF Stays, StartDone
<1>25. CASE LockMonitor(t)
  BY <1>25 DEF LockMonitor, Goto, callVars, Stays
<1>26. CASE NoRefresh(t)
  BY <1>26, NoRefreshEffect, LockNames DEF Stays
<1> QED BY <1>1, <1>2, <1>3, <1>4, <1>5, <1>6, <1>7, <1>8, <1>9, <1>10, <1>11, <1>12, <1>13,
           <1>14, <1>15, <1>16, <1>17, <1>18, <1>19, <1>20, <1>21, <1>22, <1>23, <1>24, <1>25, <1>26
           DEF Begin, Continue

\* What a step does to the libraries and the cache.
ElfStep(t) ==
    \/ /\ UNCHANGED <<mapped, maps, cache, abandoned, unseen>>
       /\ at[t] \in {"refresh", "iterate"} => at'[t] \in {"refresh", "iterate"} /\ why'[t] = why[t]
    \/ \E l \in Libs : Open(t, l) \/ CtorOpen(t, l) \/ CloseUnseen(t, l)
    \/ Unmap(t) \/ NoRefresh(t) \/ Iterate(t)

\* Every step is one of these.
LEMMA ElfSteps ==
    ASSUME IInv, NEW t \in Threads, Begin(t) \/ Continue(t)
    PROVE  ElfStep(t)
<1> USE DEF IInv
<1>1. ASSUME NEW l \in Libs, Open(t, l) PROVE ElfStep(t)
  BY <1>1 DEF ElfStep
<1>2. ASSUME NEW l \in Libs, BeginClose(t, l) PROVE ElfStep(t)
  BY <1>2 DEF BeginClose, MayClose, At, elfVars, ElfStep
<1>3. ASSUME NEW l \in Libs, CloseUnseen(t, l) PROVE ElfStep(t)
  BY <1>3 DEF ElfStep
<1>4. ASSUME NEW k \in Tasks, HookCall(t, k) PROVE ElfStep(t)
  BY <1>4 DEF HookCall, At, elfVars, ElfStep
<1>5. CASE AddCallback(t)
  BY <1>5 DEF AddCallback, At, elfVars, ElfStep
<1>6. ASSUME NEW l \in Libs, CtorOpen(t, l) PROVE ElfStep(t)
  BY <1>6 DEF ElfStep
<1>7. CASE LinkerReturn(t)
  BY <1>7 DEF LinkerReturn, At, elfVars, ElfStep
<1>8. CASE AfterOpen(t)
  BY <1>8 DEF AfterOpen, Popped, Outer, InLock, At, ElfStep
<1>9. CASE LockClose(t)
  BY <1>9 DEF LockClose, CloseLocks, At, elfVars, ElfStep
<1>10. CASE Unmap(t)
  BY <1>10 DEF ElfStep
<1>11. CASE Read(t)
  BY <1>11 DEF Read, At, elfVars, ElfStep
<1>12. CASE BeginRefresh(t)
  BY <1>12 DEF BeginRefresh, elfVars, Goto, callVars, ElfStep
<1>13. CASE Iterate(t)
  BY <1>13 DEF ElfStep
<1>14. CASE PostNewElf(t)
  BY <1>14 DEF PostNewElf, elfVars, ElfStep
<1>15. CASE PostDone(t)
  BY <1>15 DEF PostDone, Popped, Outer, OtherReaders, At, elfVars, ElfStep
<1>16. CASE BeginHook(t)
  BY <1>16 DEF BeginHook, At, elfVars, ElfStep
<1>17. CASE OneShot(t)
  BY <1>17 DEF OneShot, At, elfVars, ElfStep
<1>18. CASE CopyElfs(t)
  BY <1>18 DEF CopyElfs, At, elfVars, ElfStep
<1>19. CASE ApplyTask(t)
  BY <1>19 DEF ApplyTask, OtherReaders, HookOver, At, elfVars, ElfStep
<1>20. CASE InitManager(t)
  BY <1>20 DEF InitManager, Answer, HookOver, MarkedBefore, At, elfVars, ElfStep
<1>21. CASE InitMonitor(t)
  BY <1>21 DEF InitMonitor, MonitorAnswer, Latched, Answer, HookOver, At, elfVars, ElfStep
<1>22. CASE MarkMonitor(t)
  BY <1>22 DEF MarkMonitor, MonitorAnswer, Latched, Answer, HookOver, At, elfVars, ElfStep
<1>23. CASE HookNext(t)
  BY <1>23 DEF HookNext, At, elfVars, ElfStep
<1>24. ASSUME NEW good \in BOOLEAN, StartDone(t, good) PROVE ElfStep(t)
  BY <1>24 DEF StartDone, MonitorAnswer, Latched, Answer, HookOver, At, elfVars, ElfStep
<1>25. CASE LockMonitor(t)
  BY <1>25 DEF LockMonitor, At, elfVars, ElfStep
<1>26. CASE NoRefresh(t)
  BY <1>26 DEF ElfStep
<1> QED BY <1>1, <1>2, <1>3, <1>4, <1>5, <1>6, <1>7, <1>8, <1>9, <1>10, <1>11, <1>12, <1>13,
           <1>14, <1>15, <1>16, <1>17, <1>18, <1>19, <1>20, <1>21, <1>22, <1>23, <1>24, <1>25, <1>26
           DEF Begin, Continue

\* What a step does to the lock of dlclose.
GateStep(t) ==
    \/ UNCHANGED readers /\ held'["dlclose"] = held["dlclose"]
    \/ LockClose(t) \/ NoRefresh(t) \/ Read(t) \/ Iterate(t)
    \/ readers' = readers \ {t} /\ held'["dlclose"] = held["dlclose"] /\ (PostDone(t) \/ ApplyTask(t))

\* Every step is one of these.
LEMMA GateSteps ==
    ASSUME IInv, NEW t \in Threads, Begin(t) \/ Continue(t)
    PROVE  GateStep(t)
<1> USE DEF IInv
<1>1. ASSUME NEW l \in Libs, Open(t, l) PROVE GateStep(t)
  BY <1>1, Takes, LockNames DEF GateStep, Open, Map
<1>2. ASSUME NEW l \in Libs, BeginClose(t, l) PROVE GateStep(t)
  BY <1>2 DEF BeginClose, MayClose, lockVars, GateStep
<1>3. ASSUME NEW l \in Libs, CloseUnseen(t, l) PROVE GateStep(t)
  BY <1>3 DEF CloseUnseen, MayClose, Unmapped, lockVars, GateStep
<1>4. ASSUME NEW k \in Tasks, HookCall(t, k) PROVE GateStep(t)
  BY <1>4 DEF HookCall, lockVars, GateStep
<1>5. CASE AddCallback(t)
  BY <1>5 DEF AddCallback, lockVars, GateStep
<1>6. ASSUME NEW l \in Libs, CtorOpen(t, l) PROVE GateStep(t)
  BY <1>6, Takes, LockNames DEF GateStep, CtorOpen, Map
<1>7. CASE LinkerReturn(t)
  BY <1>7 DEF LinkerReturn, GateStep
<1>8. CASE AfterOpen(t)
  BY <1>8 DEF AfterOpen, Popped, Outer, InLock, lockVars, GateStep
<1>9. CASE LockClose(t)
  BY <1>9 DEF GateStep
<1>10. CASE Unmap(t)
  BY <1>10 DEF Unmap, Unmapped, lockVars, GateStep
<1>11. CASE Read(t)
  BY <1>11 DEF GateStep
<1>12. CASE BeginRefresh(t)
  BY <1>12 DEF BeginRefresh, Take, GateStep
<1>13. CASE Iterate(t)
  BY <1>13 DEF GateStep
<1>14. CASE PostNewElf(t)
  BY <1>14 DEF PostNewElf, lockVars, GateStep
<1>15. CASE PostDone(t)
  BY <1>15 DEF PostDone, Popped, Outer, OtherReaders, OtherReaders, GateStep
<1>16. CASE BeginHook(t)
  BY <1>16 DEF BeginHook, lockVars, GateStep
<1>17. CASE OneShot(t)
  BY <1>17, OneShotSplit, Takes, LockNames DEF GateStep, OneShot
<1>18. CASE CopyElfs(t)
  BY <1>18 DEF CopyElfs, lockVars, GateStep
<1>19. CASE ApplyTask(t)
  BY <1>19 DEF ApplyTask, OtherReaders, HookOver, Release, Locks, Shape, OtherReaders,
     GateStep
<1>20. CASE InitManager(t)
  BY <1>20, InitManagerSplit, Takes, LockNames DEF GateStep, InitManager
<1>21. CASE InitMonitor(t)
  BY <1>21, InitMonitorSplit, MonitorAnswerLocks, Takes, LockNames DEF GateStep, InitMonitor
<1>22. CASE MarkMonitor(t)
  BY <1>22, MarkMonitorSplit, MonitorAnswerLocks, LockNames DEF GateStep, MarkMonitor
<1>23. CASE HookNext(t)
  BY <1>23 DEF HookNext, lockVars, GateStep
<1>24. ASSUME NEW good \in BOOLEAN, StartDone(t, good) PROVE GateStep(t)
  BY <1>24, MonitorAnswerLocks, LockNames DEF GateStep, StartDone
<1>25. CASE LockMonitor(t)
  BY <1>25, Takes, LockNames DEF GateStep, LockMonitor
<1>26. CASE NoRefresh(t)
  BY <1>26 DEF GateStep
<1> QED BY <1>1, <1>2, <1>3, <1>4, <1>5, <1>6, <1>7, <1>8, <1>9, <1>10, <1>11, <1>12, <1>13,
           <1>14, <1>15, <1>16, <1>17, <1>18, <1>19, <1>20, <1>21, <1>22, <1>23, <1>24, <1>25, <1>26
           DEF Begin, Continue

\* A step keeps it for its own thread.
LEMMA GateStepOwn ==
    ASSUME IInv, NEW t \in Threads, Begin(t) \/ Continue(t)
    PROVE  Gate(t)'
<1> USE DEF IInv
<1>1. ASSUME NEW l \in Libs, Open(t, l) PROVE Gate(t)'
  <2>1. at'[t] = "ctor"
    BY <1>1, MapLinker DEF Open
  <2> QED BY <2>1 DEF Gate, At
<1>2. ASSUME NEW l \in Libs, BeginClose(t, l) PROVE Gate(t)'
  BY <1>2 DEF BeginClose, MayClose, At, Goto, Gate
<1>3. ASSUME NEW l \in Libs, CloseUnseen(t, l) PROVE Gate(t)'
  BY <1>3 DEF CloseUnseen, MayClose, Unmapped, At, Gate
<1>4. ASSUME NEW k \in Tasks, HookCall(t, k) PROVE Gate(t)'
  BY <1>4 DEF HookCall, At, Goto, Gate
<1>5. CASE AddCallback(t)
  BY <1>5 DEF AddCallback, At, Goto, Gate
<1>6. ASSUME NEW l \in Libs, CtorOpen(t, l) PROVE Gate(t)'
  <2>1. at'[t] = "ctor"
    BY <1>6, MapLinker DEF CtorOpen
  <2> QED BY <2>1 DEF Gate, At
<1>7. CASE LinkerReturn(t)
  BY <1>7 DEF LinkerReturn, At, Goto, Gate
<1>8. CASE AfterOpen(t)
  BY <1>8, Goes DEF AfterOpen, Outer, Gate, At
<1>9. CASE LockClose(t)
  <2>1. at'[t] = "closing"
    BY <1>9, Goes DEF LockClose
  <2>2. held'["dlclose"] = t
    BY <1>9, Takes, LockNames DEF LockClose, CloseLocks
  <2> QED BY <2>1, <2>2 DEF Gate, At
<1>10. CASE Unmap(t)
  BY <1>10 DEF Unmap, Unmapped, Goto, Shape, lockVars, Gate
<1>11. CASE Read(t)
  <2>1. at'[t] = (IF why[t] = "hook" THEN "copy" ELSE "refresh") /\ t \in readers' /\ UNCHANGED <<why, held>>
    BY <1>11, Goes DEF Read, callVars
  <2>2. why[t] # "dlclose"
    BY <1>11 DEF Read, HasTask, At
  <2> QED BY <2>1, <2>2 DEF Gate, At
<1>12. CASE BeginRefresh(t)
  <2>1. at'[t] = "iterate" /\ At(t, "refresh") /\ UNCHANGED <<why, readers>>
    BY <1>12, Goes DEF BeginRefresh, callVars
  <2>2. held'["dlclose"] = held["dlclose"]
    BY <1>12, Takes, LockNames DEF BeginRefresh
  <2> QED BY <2>1, <2>2 DEF Gate, At
<1>13. CASE Iterate(t)
  <2>1. at'[t] \in {"posting", "idle", "copy"} /\ UNCHANGED <<why, readers>>
    BY <1>13 DEF Iterate, Goto, Shape, HasTask, Whys, At
  <2>2. at'[t] # "idle" => t \in readers
    BY <1>13 DEF Iterate, Goto, Shape, Gate, At
  <2> QED BY <2>1, <2>2 DEF Gate, At
<1>14. CASE PostNewElf(t)
  BY <1>14 DEF PostNewElf, At, lockVars, Gate
<1>15. CASE PostDone(t)
  BY <1>15, Goes DEF PostDone, Outer, Gate, At
<1>16. CASE BeginHook(t)
  <2>1. at'[t] \in {"manager", "read", "oneshot"}
    BY <1>16, Goes DEF BeginHook
  <2> QED BY <2>1 DEF Gate, At
<1>17. CASE OneShot(t)
  BY <1>17, Goes DEF OneShot, Gate, At
<1>18. CASE CopyElfs(t)
  BY <1>18 DEF CopyElfs, At, Goto, lockVars, Gate
<1>19. CASE ApplyTask(t)
  <2>1. at'[t] \in {"idle", "monitored"}
    BY <1>19, Goes DEF ApplyTask, HookOver
  <2> QED BY <2>1 DEF Gate, At
<1>20. CASE InitManager(t)
  BY <1>20, InitManagerSplit, AnswerGoes, Goes DEF Gate, At
<1>21. CASE InitMonitor(t)
  BY <1>21, InitMonitorSplit, MonitorAnswerGoes, Goes DEF Gate, At
<1>22. CASE MarkMonitor(t)
  BY <1>22, MarkMonitorSplit, MonitorAnswerGoes, Goes DEF Gate, At
<1>23. CASE HookNext(t)
  BY <1>23 DEF HookNext, At, Goto, Gate
<1>24. ASSUME NEW good \in BOOLEAN, StartDone(t, good) PROVE Gate(t)'
  BY <1>24, MonitorAnswerGoes DEF StartDone, Gate, At
<1>25. CASE LockMonitor(t)
  BY <1>25, Goes DEF LockMonitor, Gate, At
<1>26. CASE NoRefresh(t)
  BY <1>26, NoRefreshEffect, LockNames DEF Gate, At
<1> QED BY <1>1, <1>2, <1>3, <1>4, <1>5, <1>6, <1>7, <1>8, <1>9, <1>10, <1>11, <1>12, <1>13,
           <1>14, <1>15, <1>16, <1>17, <1>18, <1>19, <1>20, <1>21, <1>22, <1>23, <1>24, <1>25, <1>26
           DEF Begin, Continue

\* Every step keeps readers and the write lock of dlclose right.
LEMMA GateNext ==
    ASSUME IInv, NEW t \in Threads, Begin(t) \/ Continue(t), NEW u \in Threads
    PROVE  Gate(u)'
<1> USE DEF IInv
<1>1. CASE u = t
  BY <1>1, GateStepOwn
<1>2. CASE u # t
  <2>1. at'[u] = at[u] /\ why'[u] = why[u]
    BY <1>2, OthersStay DEF Stays
  <2>2. u \in readers => u \in readers'
    BY <1>2, GateSteps DEF GateStep, LockClose, NoRefresh, Read, Iterate
  <2>3. ASSUME held["dlclose"] = u PROVE held'["dlclose"] = u
    <3>1. CASE LockClose(t)
      BY <2>3, <3>1, DlMonitorAssumption DEF LockClose, CloseLocks, Free
    <3>2. CASE Iterate(t)
      <4>1. why[t] # "dlclose"
        BY <1>2, <2>3, <3>2 DEF Iterate, Gate, At
      <4> QED BY <2>3, <3>2, <4>1, LockNames DEF Iterate, Shape
    <3>3. CASE Read(t)
      BY <2>3, <3>3 DEF Read
    <3>4. CASE NoRefresh(t)
      <4>1. held["dlclose"] = t
        BY <3>4 DEF NoRefresh, Gate, At
      <4> QED BY <1>2, <2>3, <4>1
    <3> QED BY <2>3, <3>1, <3>2, <3>3, <3>4, GateSteps DEF GateStep
  <2> QED BY <2>1, <2>2, <2>3 DEF Gate, At
<1> QED BY <1>1, <1>2

\* Every step keeps readers out while a library is closed.
LEMMA GateShutNext ==
    ASSUME IInv, NEW t \in Threads, Begin(t) \/ Continue(t)
    PROVE  GateShut'
<1> USE DEF IInv
<1>1. CASE LockClose(t)
  BY <1>1 DEF LockClose, CloseLocks, GateShut
<1>2. CASE Read(t)
  BY <1>2 DEF Read, Free, GateShut
<1>3. CASE Iterate(t)
  BY <1>3, LockNames DEF Iterate, GateShut, Shape
<1>4. CASE NoRefresh(t)
  BY <1>4, NoRefreshEffect, LockNames DEF GateShut
<1> QED BY <1>1, <1>2, <1>3, <1>4, GateSteps DEF GateStep, GateShut

\* A step keeps its own thread closing a library of its own.
LEMMA ClosesOwn ==
    ASSUME IInv, NEW t \in Threads, Begin(t) \/ Continue(t)
    PROVE  Closes(t)'
<1> USE DEF IInv
<1>1. ASSUME NEW l \in Libs, Open(t, l) PROVE Closes(t)'
  <2>1. at'[t] \notin {"close", "closing"}
    BY <1>1, MapLinker DEF Open
  <2> QED BY <2>1 DEF Closes
<1>2. ASSUME NEW l \in Libs, BeginClose(t, l) PROVE Closes(t)'
  <2>1. elfs'[t] = {Elf(l)} /\ l \in OpenedBy[t] /\ mapped[l] \in Nat \ {0}
    BY <1>2 DEF BeginClose, MayClose, Shape
  <2> QED BY <2>1 DEF Closes, Elf
<1>3. ASSUME NEW l \in Libs, CloseUnseen(t, l) PROVE Closes(t)'
  BY <1>3 DEF CloseUnseen, MayClose, Closes, At
<1>4. ASSUME NEW k \in Tasks, HookCall(t, k) PROVE Closes(t)'
  <2>1. at'[t] \notin {"close", "closing"}
    BY <1>4, Goes DEF HookCall
  <2> QED BY <2>1 DEF Closes
<1>5. CASE AddCallback(t)
  <2>1. at'[t] \notin {"close", "closing"}
    BY <1>5, Goes DEF AddCallback
  <2> QED BY <2>1 DEF Closes
<1>6. ASSUME NEW l \in Libs, CtorOpen(t, l) PROVE Closes(t)'
  <2>1. at'[t] \notin {"close", "closing"}
    BY <1>6, MapLinker DEF CtorOpen
  <2> QED BY <2>1 DEF Closes
<1>7. CASE LinkerReturn(t)
  <2>1. at'[t] \notin {"close", "closing"}
    BY <1>7, Goes DEF LinkerReturn
  <2> QED BY <2>1 DEF Closes
<1>8. CASE AfterOpen(t)
  <2>1. at'[t] \notin {"close", "closing"}
    BY <1>8, Goes DEF AfterOpen, Outer
  <2> QED BY <2>1 DEF Closes
<1>9. CASE LockClose(t)
  <2>1. At(t, "close") /\ UNCHANGED elfs
    BY <1>9 DEF LockClose, callVars
  <2> QED BY <2>1 DEF Closes, At
<1>10. CASE Unmap(t)
  <2>1. at'[t] \notin {"close", "closing"}
    BY <1>10, Goes DEF Unmap
  <2> QED BY <2>1 DEF Closes
<1>11. CASE Read(t)
  <2>1. at'[t] \notin {"close", "closing"}
    BY <1>11, Goes DEF Read
  <2> QED BY <2>1 DEF Closes
<1>12. CASE BeginRefresh(t)
  <2>1. at'[t] \notin {"close", "closing"}
    BY <1>12, Goes DEF BeginRefresh
  <2> QED BY <2>1 DEF Closes
<1>13. CASE Iterate(t)
  <2>1. at'[t] \in {"posting", "idle", "copy"}
    BY <1>13 DEF Iterate, Goto, Shape, HasTask, Whys, At
  <2> QED BY <2>1 DEF Closes
<1>14. CASE PostNewElf(t)
  <2>1. at'[t] \notin {"close", "closing"}
    BY <1>14 DEF PostNewElf, At
  <2> QED BY <2>1 DEF Closes
<1>15. CASE PostDone(t)
  <2>1. at'[t] \notin {"close", "closing"}
    BY <1>15, Goes DEF PostDone, Outer
  <2> QED BY <2>1 DEF Closes
<1>16. CASE BeginHook(t)
  <2>1. at'[t] \notin {"close", "closing"}
    BY <1>16, Goes DEF BeginHook
  <2> QED BY <2>1 DEF Closes
<1>17. CASE OneShot(t)
  <2>1. at'[t] \notin {"close", "closing"}
    BY <1>17, Goes DEF OneShot
  <2> QED BY <2>1 DEF Closes
<1>18. CASE CopyElfs(t)
  <2>1. at'[t] \notin {"close", "closing"}
    BY <1>18, Goes DEF CopyElfs
  <2> QED BY <2>1 DEF Closes
<1>19. CASE ApplyTask(t)
  <2>1. at'[t] \notin {"close", "closing"}
    BY <1>19, Goes DEF ApplyTask, HookOver
  <2> QED BY <2>1 DEF Closes
<1>20. CASE InitManager(t)
  <2>1. at'[t] \notin {"close", "closing"}
    BY <1>20, InitManagerSplit, AnswerGoes, Goes DEF InitManager
  <2> QED BY <2>1 DEF Closes
<1>21. CASE InitMonitor(t)
  <2>1. at'[t] \notin {"close", "closing"}
    BY <1>21, InitMonitorSplit, MonitorAnswerGoes, Goes DEF InitMonitor
  <2> QED BY <2>1 DEF Closes
<1>22. CASE MarkMonitor(t)
  <2>1. at'[t] \notin {"close", "closing"}
    BY <1>22, MarkMonitorSplit, MonitorAnswerGoes, Goes DEF MarkMonitor
  <2> QED BY <2>1 DEF Closes
<1>23. CASE HookNext(t)
  <2>1. at'[t] \notin {"close", "closing"}
    BY <1>23, Goes DEF HookNext
  <2> QED BY <2>1 DEF Closes
<1>24. ASSUME NEW good \in BOOLEAN, StartDone(t, good) PROVE Closes(t)'
  <2>1. at'[t] \notin {"close", "closing"}
    BY <1>24, MonitorAnswerGoes DEF StartDone
  <2> QED BY <2>1 DEF Closes
<1>25. CASE LockMonitor(t)
  <2>1. at'[t] \notin {"close", "closing"}
    BY <1>25, Goes DEF LockMonitor
  <2> QED BY <2>1 DEF Closes
<1>26. CASE NoRefresh(t)
  BY <1>26, NoRefreshEffect, LockNames DEF Closes
<1> QED BY <1>1, <1>2, <1>3, <1>4, <1>5, <1>6, <1>7, <1>8, <1>9, <1>10, <1>11, <1>12, <1>13,
           <1>14, <1>15, <1>16, <1>17, <1>18, <1>19, <1>20, <1>21, <1>22, <1>23, <1>24, <1>25, <1>26
           DEF Begin, Continue

\* Every step keeps every thread closing libraries of its own.
LEMMA ClosesNext ==
    ASSUME IInv, NEW t \in Threads, Begin(t) \/ Continue(t), NEW u \in Threads
    PROVE  Closes(u)'
<1>1. CASE u = t
  BY <1>1, ClosesOwn
<1>2. CASE u # t
  BY <1>2, OthersStay DEF IInv, Closes, Stays
<1> QED BY <1>1, <1>2

(***************************************************************************)
(* The cache                                                                 *)
(***************************************************************************)
\* A library that is mapped has no ELF in the cache: whoever closed it last has
\* refreshed the cache, since a thread does one thing at a time, or was not seen
\* to close it.
LEMMA MapFresh ==
    ASSUME IInv, NEW t \in Threads, NEW l \in Libs, Open(t, l) \/ CtorOpen(t, l)
    PROVE  Map(t, l) /\ mapped[l] = 0 /\ (cache[l] = 0 \/ OutOfDate(l))
<1> USE DEF IInv
<1>1. Map(t, l) /\ mapped[l] = 0
  BY DEF Open, CtorOpen, Map
<1>2. ~Unrefreshed(l)
  <2> SUFFICES ASSUME NEW u \in Threads, l \in OpenedBy[u], at[u] \in {"refresh", "iterate"}
               PROVE  FALSE
    BY DEF Unrefreshed
  <2>1. CASE Open(t, l)
    <3>1. l \in OpenedBy[t] /\ at[t] = "idle"
      BY <2>1 DEF Open, At
    <3> QED BY <3>1, DlMonitorAssumption
  <2>2. CASE CtorOpen(t, l)
    <3>1. l \in CtorOpens[Last(opening[t]).elf[1]] /\ at[t] = "ctor"
      BY <2>2 DEF CtorOpen, At
    <3>2. opening[t] \in Seq(OpenCalls) /\ opening[t] # <<>>
      BY <3>1 DEF Shape, InLinker, At
    <3>3. Last(opening[t]).elf[1] \in Libs
      BY <3>2, FrontCalls DEF OpenCalls, Elfs
    <3> QED BY <3>1, <3>3, DlMonitorAssumption
  <2> QED BY <2>1, <2>2
<1>3. cache[l] = 0 \/ OutOfDate(l)
  BY <1>1, <1>2 DEF UpToDate
<1> QED BY <1>1, <1>3

\* Only a refresh ends the time in which a closed library has an ELF.
LEMMA UnrefreshedStays ==
    ASSUME IInv, NEW t \in Threads, Begin(t) \/ Continue(t), ~Iterate(t), ~NoRefresh(t),
           NEW l \in Libs, Unrefreshed(l)
    PROVE  Unrefreshed(l)'
<1> USE DEF IInv
<1>1. PICK u \in Threads : /\ l \in OpenedBy[u]
                          /\ at[u] \in {"refresh", "iterate"}
                          /\ why[u] = "dlclose"
  BY DEF Unrefreshed
<1>2. at'[u] \in {"refresh", "iterate"} /\ why'[u] = "dlclose"
  <2>1. CASE u # t
    BY <1>1, <2>1, OthersStay DEF Stays
  <2>2. CASE u = t
    <3>1. ~Unmap(t) /\ \A m \in Libs : ~Open(t, m) /\ ~CtorOpen(t, m) /\ ~CloseUnseen(t, m)
      BY <1>1, <2>2 DEF Unmap, Open, CtorOpen, CloseUnseen, MayClose, At
    <3> QED BY <1>1, <2>2, <3>1, ElfSteps DEF ElfStep
  <2> QED BY <2>1, <2>2
<1> QED BY <1>1, <1>2 DEF Unrefreshed

\* Mapping a library and unmapping it.
LEMMA MapEffect ==
    ASSUME Shape, NEW t \in Threads, NEW l \in Libs, Map(t, l)
    PROVE  /\ \A m \in Libs : mapped'[m] = IF m = l THEN maps[l] + 1 ELSE mapped[m]
           /\ \A m \in Libs : maps'[m] = IF m = l THEN maps[l] + 1 ELSE maps[m]
           /\ UNCHANGED <<cache, abandoned, unseen>>
BY DEF Shape, Map

\* What unmapping a library changes.
LEMMA UnmapEffect ==
    ASSUME Shape, NEW t \in Threads, NEW l \in Libs, Unmapped(l)
    PROVE  \A m \in Libs : mapped'[m] = IF m = l THEN 0 ELSE mapped[m]
BY DEF Shape, Unmapped

\* The step that unmaps a library, in the proxy: a library of the thread.
LEMMA UnmapOwn ==
    ASSUME IInv, NEW t \in Threads, Unmap(t)
    PROVE  \E l \in Libs : /\ l \in OpenedBy[t]
                          /\ Unmapped(l)
                          /\ at'[t] = "refresh" /\ why'[t] = "dlclose"
                          /\ UNCHANGED <<maps, cache, abandoned, unseen>>
                          /\ held["dlclose"] = t
<1> USE DEF IInv
<1>1. PICK l \in Libs : elfs[t] = {Elf(l)} /\ Unmapped(l)
  BY DEF Unmap
<1>2. PICK m \in OpenedBy[t], n \in Nat \ {0} : elfs[t] = {<<m, n>>}
  BY DEF Closes, Unmap, At
<1>3. l = m
  <2>1. <<l, mapped[l]>> \in {<<m, n>>}
    BY <1>1, <1>2 DEF Elf
  <2> QED BY <2>1
<1>4. at'[t] = "refresh" /\ why'[t] = "dlclose" /\ UNCHANGED <<maps, cache, abandoned, unseen>>
  BY DEF Unmap, Goto, Shape
<1>5. held["dlclose"] = t
  BY DEF Unmap, Gate, At
<1> QED BY <1>1, <1>2, <1>3, <1>4, <1>5

\* Without the proxy the ELF of the library that is closed stays in the cache.
LEMMA CloseUnseenEffect ==
    ASSUME IInv, NEW t \in Threads, NEW l \in Libs, CloseUnseen(t, l)
    PROVE  /\ Unmapped(l) /\ UNCHANGED <<maps, cache, abandoned>>
           /\ unseen' = unseen \cup ({Elf(l)} \cap Cached)
           /\ l \in OpenedBy[t] /\ mapped[l] # 0 /\ at[t] = "idle"
BY DEF CloseUnseen, MayClose, At

\* What the refresh of the cache changes.
LEMMA IterateEffect ==
    ASSUME Shape, NEW t \in Threads, Iterate(t)
    PROVE  /\ UNCHANGED <<mapped, maps, unseen>>
           /\ \A l \in Libs : cache'[l] = IF mapped[l] = 0 THEN 0
                                        ELSE IF cache[l] = 0 THEN mapped[l] ELSE cache[l]
BY DEF Iterate, Shape

\* A library that was closed unseen stays known as such.
LEMMA UnseenGrows ==
    ASSUME IInv, NEW t \in Threads, Begin(t) \/ Continue(t)
    PROVE  unseen \subseteq unseen'
<1> USE DEF IInv
<1>1. ASSUME NEW l \in Libs, Open(t, l) \/ CtorOpen(t, l) PROVE UNCHANGED unseen
  BY <1>1, MapFresh, MapEffect
<1>2. ASSUME NEW l \in Libs, CloseUnseen(t, l) PROVE unseen \subseteq unseen'
  BY <1>2, CloseUnseenEffect
<1>3. CASE Unmap(t)
  BY <1>3, UnmapOwn
<1>4. CASE NoRefresh(t)
  BY <1>4 DEF NoRefresh
<1>5. CASE Iterate(t)
  BY <1>5, IterateEffect
<1> QED BY <1>1, <1>2, <1>3, <1>4, <1>5, ElfSteps DEF ElfStep

\* Mappings stay numbered upwards.
LEMMA CountedNext ==
    ASSUME IInv, NEW t \in Threads, Begin(t) \/ Continue(t)
    PROVE  Counted'
<1> USE DEF IInv
<1>1. ASSUME NEW l \in Libs, Open(t, l) \/ CtorOpen(t, l), NEW m \in Libs
      PROVE  mapped'[m] <= maps'[m] /\ cache'[m] <= maps'[m]
  <2>1. /\ mapped'[m] = IF m = l THEN maps[l] + 1 ELSE mapped[m]
        /\ maps'[m] = IF m = l THEN maps[l] + 1 ELSE maps[m]
        /\ cache'[m] = cache[m]
    BY <1>1, MapFresh, MapEffect
  <2>2. mapped[m] \in Nat /\ maps[m] \in Nat /\ cache[m] \in Nat
    BY DEF Shape
  <2>3. mapped[m] <= maps[m] /\ cache[m] <= maps[m]
    BY DEF Counted
  <2> QED BY <2>1, <2>2, <2>3
<1>2. ASSUME NEW l \in Libs, CloseUnseen(t, l) PROVE Counted'
  BY <1>2, CloseUnseenEffect, UnmapEffect DEF Counted, Shape
<1>3. CASE Unmap(t)
  <2>1. PICK l \in Libs : Unmapped(l) /\ UNCHANGED <<maps, cache>>
    BY <1>3, UnmapOwn
  <2>2. ASSUME NEW m \in Libs PROVE mapped'[m] <= maps'[m] /\ cache'[m] <= maps'[m]
    <3>1. mapped'[m] = IF m = l THEN 0 ELSE mapped[m]
      BY <2>1, UnmapEffect
    <3>2. mapped[m] <= maps[m] /\ cache[m] <= maps[m] /\ maps[m] \in Nat
      BY DEF Counted, Shape
    <3> QED BY <2>1, <3>1, <3>2
  <2> QED BY <2>2 DEF Counted
<1>4. CASE Iterate(t)
  BY <1>4, IterateEffect DEF Counted, Shape
<1>5. ASSUME NEW l \in Libs, Open(t, l) \/ CtorOpen(t, l) PROVE Counted'
  BY <1>1, <1>5 DEF Counted
<1>6. CASE UNCHANGED <<mapped, maps, cache, abandoned>>
  BY <1>6 DEF Counted
<1>7. CASE NoRefresh(t)
  BY <1>7 DEF NoRefresh, Counted
<1> QED BY <1>7, <1>2, <1>3, <1>4, <1>5, <1>6, ElfSteps DEF ElfStep

\* The cache stays up to date.
LEMMA UpToDateNext ==
    ASSUME IInv, NEW t \in Threads, Begin(t) \/ Continue(t), NEW m \in Libs
    PROVE  UpToDate(m)'
<1> USE DEF IInv
<1>1. ASSUME NEW l \in Libs, Open(t, l) \/ CtorOpen(t, l) PROVE UpToDate(m)'
  <2>1. ~Iterate(t) /\ ~NoRefresh(t)
    BY <1>1 DEF Open, CtorOpen, Iterate, NoRefresh, At
  <2>2. CASE m = l
    BY <1>1, <2>2, MapFresh, MapEffect DEF UpToDate, OutOfDate
  <2>3. CASE m # l
    BY <1>1, <2>1, <2>3, MapFresh, MapEffect, UnrefreshedStays DEF UpToDate, OutOfDate
  <2> QED BY <2>2, <2>3
<1>2. ASSUME NEW l \in Libs, CloseUnseen(t, l) PROVE UpToDate(m)'
  <2>1. ~Iterate(t) /\ ~NoRefresh(t)
    BY <1>2, CloseUnseenEffect DEF Iterate, NoRefresh, At
  <2>2. /\ mapped'[m] = IF m = l THEN 0 ELSE mapped[m]
        /\ cache' = cache /\ unseen \subseteq unseen'
    BY <1>2, CloseUnseenEffect, UnmapEffect
  <2>3. CASE m = l
    <3>1. cache[l] = mapped[l] /\ cache[l] # 0 => <<l, cache[l]>> \in unseen'
      BY <1>2, CloseUnseenEffect DEF Elf, Cached
    <3>2. mapped[l] # 0
      BY <1>2, CloseUnseenEffect
    <3> QED BY <2>2, <2>3, <3>1, <3>2 DEF UpToDate, OutOfDate
  <2>4. CASE m # l
    BY <2>1, <2>2, <2>4, UnrefreshedStays DEF UpToDate, OutOfDate
  <2> QED BY <2>3, <2>4
<1>3. CASE Unmap(t)
  <2>1. PICK l \in Libs : /\ l \in OpenedBy[t]
                         /\ Unmapped(l)
                         /\ at'[t] = "refresh" /\ why'[t] = "dlclose"
                         /\ UNCHANGED <<maps, cache, abandoned, unseen>>
    BY <1>3, UnmapOwn
  <2>2. ~Iterate(t) /\ ~NoRefresh(t)
    BY <1>3 DEF Unmap, Iterate, NoRefresh, Goto, Shape, At
  <2>3. CASE m = l
    <3>1. Unrefreshed(l)'
      BY <2>1 DEF Unrefreshed
    <3> QED BY <2>1, <2>3, <3>1, UnmapEffect DEF UpToDate, OutOfDate
  <2>4. CASE m # l
    BY <2>1, <2>2, <2>4, UnmapEffect, UnrefreshedStays DEF UpToDate, OutOfDate
  <2> QED BY <2>3, <2>4
<1>4. CASE Iterate(t)
  BY <1>4, IterateEffect DEF UpToDate, OutOfDate
<1>5. CASE UNCHANGED <<mapped, maps, cache, abandoned, unseen>> /\ ~Iterate(t) /\ ~NoRefresh(t)
  BY <1>5, UnrefreshedStays DEF UpToDate, OutOfDate
<1>6. CASE NoRefresh(t)
  <2>1. UNCHANGED <<mapped, cache>> /\ unseen' = unseen \cup (Cached \ Mapped)
    BY <1>6, NoRefreshEffect, LockNames
  <2>2. ASSUME cache[m] # 0, mapped[m] = 0 PROVE <<m, cache[m]>> \in unseen'
    <3>1. <<m, cache[m]>> \in Cached
      BY <2>2 DEF Cached
    <3>2. <<m, cache[m]>> \notin Mapped
      BY <2>2 DEF Mapped, Elf
    <3> QED BY <2>1, <3>1, <3>2
  <2> QED BY <2>1, <2>2 DEF UpToDate, OutOfDate
<1> QED BY <1>1, <1>2, <1>3, <1>4, <1>5, <1>6, ElfSteps DEF ElfStep

\* What was abandoned stays gone.
LEMMA GoneNext ==
    ASSUME IInv, NEW t \in Threads, Begin(t) \/ Continue(t)
    PROVE  Gone'
<1> USE DEF IInv
<1>1. ASSUME NEW l \in Libs, Open(t, l) \/ CtorOpen(t, l), NEW e \in abandoned'
      PROVE  e[2] <= maps'[e[1]] /\ e \notin Mapped'
  <2>1. e \in abandoned /\ Map(t, l)
    BY <1>1, MapFresh, MapEffect
  <2>2. e[1] \in Libs /\ e[2] \in Nat /\ e = <<e[1], e[2]>>
    BY <2>1 DEF Shape, Elfs
  <2>3. e[2] <= maps[e[1]] /\ e \notin Mapped
    BY <2>1 DEF Gone
  <2>4. e[2] <= maps'[e[1]]
    <3>1. maps'[e[1]] = IF e[1] = l THEN maps[l] + 1 ELSE maps[e[1]]
      BY <2>1, <2>2, MapEffect
    <3>2. maps[e[1]] \in Nat /\ maps[l] \in Nat
      BY <2>2 DEF Shape
    <3> QED BY <2>2, <2>3, <3>1, <3>2
  <2>5. ASSUME e \in Mapped' PROVE FALSE
    <3>1. PICK m \in Libs : mapped'[m] # 0 /\ e = <<m, mapped'[m]>>
      BY <2>5 DEF Mapped, Elf
    <3>2. CASE m = l
      <4>1. e[1] = l /\ e[2] = maps[l] + 1
        BY <2>1, <3>1, <3>2, MapEffect
      <4> QED BY <2>3, <4>1 DEF Shape
    <3>3. CASE m # l
      <4>1. mapped'[m] = mapped[m]
        BY <2>1, <3>3, MapEffect
      <4> QED BY <2>3, <3>1, <4>1 DEF Mapped, Elf
    <3> QED BY <3>2, <3>3
  <2> QED BY <2>4, <2>5
<1>2. ASSUME NEW l \in Libs, Unmapped(l), UNCHANGED <<maps, abandoned>> PROVE Gone'
  <2>1. Mapped' \subseteq Mapped
    BY <1>2, UnmapEffect DEF Mapped, Elf
  <2> QED BY <1>2, <2>1 DEF Gone
<1>3. CASE Iterate(t)
  <2>1. Mapped' = Mapped
    BY <1>3, IterateEffect DEF Mapped, Elf
  <2>2. ASSUME NEW e \in abandoned' PROVE e[2] <= maps[e[1]] /\ e \notin Mapped
    <3>1. CASE e \in abandoned
      BY <3>1 DEF Gone
    <3>2. CASE e \notin abandoned
      <4>1. PICK l \in Libs : e = <<l, cache[l]>> /\ mapped[l] = 0
        BY <1>3, <2>2, <3>2 DEF Iterate, Cached
      <4> QED BY <4>1 DEF Counted, Mapped, Elf
    <3> QED BY <3>1, <3>2
  <2> QED BY <1>3, <2>1, <2>2, IterateEffect DEF Gone
<1>4. CASE UNCHANGED <<mapped, maps, cache, abandoned>>
  BY <1>4 DEF Gone, Mapped, Elf
<1>5. ASSUME NEW l \in Libs, Open(t, l) \/ CtorOpen(t, l) PROVE Gone'
  BY <1>1, <1>5 DEF Gone
<1>6. ASSUME NEW l \in Libs, CloseUnseen(t, l) PROVE Gone'
  BY <1>2, <1>6, CloseUnseenEffect
<1>7. CASE Unmap(t)
  BY <1>2, <1>7, UnmapOwn
<1>8. CASE NoRefresh(t)
  BY <1>8 DEF NoRefresh, Gone, Mapped, Elf
<1> QED BY <1>8, <1>3, <1>4, <1>5, <1>6, <1>7, ElfSteps DEF ElfStep

(***************************************************************************)
(* ELFs in hand                                                              *)
(***************************************************************************)
\* While anyone reads, no dlclose is at work, and the cache is up to date but for
\* what was closed unseen.
LEMMA ReadersKeepOut ==
    ASSUME IInv, NEW t \in Threads, Begin(t) \/ Continue(t), readers # {}
    PROVE  /\ ~Unmap(t)
           /\ Iterate(t) => why[t] # "dlclose"
           /\ Cached \subseteq Mapped \cup unseen
<1> USE DEF IInv
<1>1. held["dlclose"] = NoOne
  BY DEF GateShut
<1>2. \A u \in Threads : held["dlclose"] # u
  BY <1>1, DlMonitorAssumption
<1>3. ~Unmap(t)
  BY <1>2 DEF Unmap, Gate, At
<1>4. Iterate(t) => why[t] # "dlclose"
  BY <1>2 DEF Iterate, Gate, At
<1>5. \A l \in Libs : ~Unrefreshed(l)
  BY <1>2 DEF Unrefreshed, Gate, At
<1>6. Cached \subseteq Mapped \cup unseen
  BY <1>5 DEF UpToDate, OutOfDate, Cached, Mapped, Elf
<1> QED BY <1>3, <1>4, <1>6

\* While anyone reads, a step neither unmaps nor destroys an ELF.
LEMMA ReadersKeepElfs ==
    ASSUME IInv, NEW t \in Threads, Begin(t) \/ Continue(t), readers # {},
           NEW e, e \in Mapped \cup unseen, e \in Cached \cup abandoned
    PROVE  e \in Mapped' \cup unseen' /\ e \in Cached' \cup abandoned'
<1> USE DEF IInv
<1> DEFINE Kept == e \in Mapped' \cup unseen' /\ e \in Cached' \cup abandoned'
<1>1. unseen \subseteq unseen'
  BY UnseenGrows
<1>2. ASSUME NEW l \in Libs, Open(t, l) \/ CtorOpen(t, l) PROVE Kept
  <2>1. UNCHANGED <<cache, abandoned>> /\ \A m \in Libs : mapped[m] # 0 => mapped'[m] = mapped[m]
    BY <1>2, MapFresh, MapEffect
  <2>2. Mapped \subseteq Mapped'
    BY <2>1 DEF Mapped, Elf
  <2>3. Cached' = Cached
    BY <2>1 DEF Cached
  <2> QED BY <1>1, <2>1, <2>2, <2>3
<1>3. ASSUME NEW l \in Libs, CloseUnseen(t, l) PROVE Kept
  <2>1. UNCHANGED <<cache, abandoned>> /\ unseen' = unseen \cup ({Elf(l)} \cap Cached)
    BY <1>3, CloseUnseenEffect
  <2>2. Cached' = Cached
    BY <2>1 DEF Cached
  <2>3. ASSUME e \in Mapped, e # Elf(l) PROVE e \in Mapped'
    <3>1. PICK m \in Libs : mapped[m] # 0 /\ e = <<m, mapped[m]>>
      BY <2>3 DEF Mapped, Elf
    <3>2. mapped'[m] = mapped[m]
      BY <1>3, <2>3, <3>1, CloseUnseenEffect, UnmapEffect DEF Elf
    <3> QED BY <3>1, <3>2 DEF Mapped, Elf
  <2>4. ASSUME e \in Mapped PROVE e \in Cached
    BY <2>4 DEF Gone
  <2> QED BY <2>1, <2>2, <2>3, <2>4
<1>4. ~Unmap(t)
  BY ReadersKeepOut
<1>5. ASSUME Iterate(t) PROVE Kept
  <2>1. why[t] # "dlclose"
    BY <1>5, ReadersKeepOut
  <2>2. abandoned' = abandoned \cup {g \in Cached : mapped[g[1]] = 0}
    BY <1>5, <2>1 DEF Iterate
  <2>3. UNCHANGED mapped
    BY <1>5, IterateEffect
  <2>4. Mapped' = Mapped
    BY <2>3 DEF Mapped, Elf
  <2>5. ASSUME e \in Cached PROVE e \in Cached' \cup abandoned'
    <3>1. PICK m \in Libs : cache[m] # 0 /\ e = <<m, cache[m]>>
      BY <2>5 DEF Cached
    <3>2. CASE mapped[m] = 0
      BY <2>2, <2>5, <3>1, <3>2
    <3>3. CASE mapped[m] # 0
      <4>1. cache'[m] = cache[m]
        BY <1>5, <3>1, <3>3, IterateEffect
      <4> QED BY <3>1, <4>1 DEF Cached
    <3> QED BY <3>2, <3>3
  <2> QED BY <1>1, <2>2, <2>4, <2>5
<1>6. ASSUME UNCHANGED <<mapped, cache, abandoned>> PROVE Kept
  BY <1>1, <1>6 DEF Mapped, Cached, Elf
<1>7. ASSUME NoRefresh(t) PROVE Kept
  BY <1>6, <1>7 DEF NoRefresh
<1> QED BY <1>2, <1>3, <1>4, <1>5, <1>6, <1>7, ElfSteps DEF ElfStep

\* The steps after which a thread has ELFs in hand.
LEMMA InHand ==
    ASSUME IInv, NEW t \in Threads, Begin(t) \/ Continue(t), at'[t] \in {"apply", "posting"}
    PROVE  CopyElfs(t) \/ Iterate(t) \/ PostNewElf(t)
<1> USE DEF IInv
<1>1. ASSUME NEW l \in Libs, Open(t, l) PROVE CopyElfs(t) \/ Iterate(t) \/ PostNewElf(t)
  <2>1. at'[t] \notin {"apply", "posting"}
    BY <1>1, MapLinker DEF Open
  <2> QED BY <2>1
<1>2. ASSUME NEW l \in Libs, BeginClose(t, l) PROVE CopyElfs(t) \/ Iterate(t) \/ PostNewElf(t)
  <2>1. at'[t] \notin {"apply", "posting"}
    BY <1>2, Goes DEF BeginClose
  <2> QED BY <2>1
<1>3. ASSUME NEW l \in Libs, CloseUnseen(t, l) PROVE CopyElfs(t) \/ Iterate(t) \/ PostNewElf(t)
  <2>1. at'[t] \notin {"apply", "posting"}
    BY <1>3 DEF CloseUnseen, MayClose, At
  <2> QED BY <2>1
<1>4. ASSUME NEW k \in Tasks, HookCall(t, k) PROVE CopyElfs(t) \/ Iterate(t) \/ PostNewElf(t)
  <2>1. at'[t] \notin {"apply", "posting"}
    BY <1>4, Goes DEF HookCall
  <2> QED BY <2>1
<1>5. CASE AddCallback(t)
  <2>1. at'[t] \notin {"apply", "posting"}
    BY <1>5, Goes DEF AddCallback
  <2> QED BY <2>1
<1>6. ASSUME NEW l \in Libs, CtorOpen(t, l) PROVE CopyElfs(t) \/ Iterate(t) \/ PostNewElf(t)
  <2>1. at'[t] \notin {"apply", "posting"}
    BY <1>6, MapLinker DEF CtorOpen
  <2> QED BY <2>1
<1>7. CASE LinkerReturn(t)
  <2>1. at'[t] \notin {"apply", "posting"}
    BY <1>7, Goes DEF LinkerReturn
  <2> QED BY <2>1
<1>8. CASE AfterOpen(t)
  <2>1. at'[t] \notin {"apply", "posting"}
    BY <1>8, Goes DEF AfterOpen, Outer
  <2> QED BY <2>1
<1>9. CASE LockClose(t)
  <2>1. at'[t] \notin {"apply", "posting"}
    BY <1>9, Goes DEF LockClose
  <2> QED BY <2>1
<1>10. CASE Unmap(t)
  <2>1. at'[t] \notin {"apply", "posting"}
    BY <1>10, Goes DEF Unmap
  <2> QED BY <2>1
<1>11. CASE Read(t)
  <2>1. at'[t] \notin {"apply", "posting"}
    BY <1>11, Goes DEF Read
  <2> QED BY <2>1
<1>12. CASE BeginRefresh(t)
  <2>1. at'[t] \notin {"apply", "posting"}
    BY <1>12, Goes DEF BeginRefresh
  <2> QED BY <2>1
<1>13. CASE Iterate(t)
  BY <1>13
<1>14. CASE PostNewElf(t)
  BY <1>14
<1>15. CASE PostDone(t)
  <2>1. at'[t] \notin {"apply", "posting"}
    BY <1>15, Goes DEF PostDone, Outer
  <2> QED BY <2>1
<1>16. CASE BeginHook(t)
  <2>1. at'[t] \notin {"apply", "posting"}
    BY <1>16, Goes DEF BeginHook
  <2> QED BY <2>1
<1>17. CASE OneShot(t)
  <2>1. at'[t] \notin {"apply", "posting"}
    BY <1>17, Goes DEF OneShot
  <2> QED BY <2>1
<1>18. CASE CopyElfs(t)
  BY <1>18
<1>19. CASE ApplyTask(t)
  <2>1. at'[t] \notin {"apply", "posting"}
    BY <1>19, Goes DEF ApplyTask, HookOver
  <2> QED BY <2>1
<1>20. CASE InitManager(t)
  <2>1. at'[t] \notin {"apply", "posting"}
    BY <1>20, InitManagerSplit, AnswerGoes, Goes DEF InitManager
  <2> QED BY <2>1
<1>21. CASE InitMonitor(t)
  <2>1. at'[t] \notin {"apply", "posting"}
    BY <1>21, InitMonitorSplit, MonitorAnswerGoes, Goes DEF InitMonitor
  <2> QED BY <2>1
<1>22. CASE MarkMonitor(t)
  <2>1. at'[t] \notin {"apply", "posting"}
    BY <1>22, MarkMonitorSplit, MonitorAnswerGoes, Goes DEF MarkMonitor
  <2> QED BY <2>1
<1>23. CASE HookNext(t)
  <2>1. at'[t] \notin {"apply", "posting"}
    BY <1>23, Goes DEF HookNext
  <2> QED BY <2>1
<1>24. ASSUME NEW good \in BOOLEAN, StartDone(t, good) PROVE CopyElfs(t) \/ Iterate(t) \/ PostNewElf(t)
  <2>1. at'[t] \notin {"apply", "posting"}
    BY <1>24, MonitorAnswerGoes DEF StartDone
  <2> QED BY <2>1
<1>25. CASE LockMonitor(t)
  <2>1. at'[t] \notin {"apply", "posting"}
    BY <1>25, Goes DEF LockMonitor
  <2> QED BY <2>1
<1>26. CASE NoRefresh(t)
  <2>1. at'[t] \notin {"apply", "posting"}
    BY <1>26, NoRefreshEffect, LockNames
  <2> QED BY <2>1
<1> QED BY <1>1, <1>2, <1>3, <1>4, <1>5, <1>6, <1>7, <1>8, <1>9, <1>10, <1>11, <1>12, <1>13,
           <1>14, <1>15, <1>16, <1>17, <1>18, <1>19, <1>20, <1>21, <1>22, <1>23, <1>24, <1>25, <1>26
           DEF Begin, Continue

\* Every step keeps the ELFs in hand mapped, unless they were closed unseen.
LEMMA ElfStaysNext ==
    ASSUME IInv, NEW t \in Threads, Begin(t) \/ Continue(t)
    PROVE  ElfStaysMapped'
<1> SUFFICES ASSUME NEW u \in Threads, at'[u] \in {"apply", "posting"}
             PROVE  elfs'[u] \subseteq Mapped' \cup unseen' /\ elfs'[u] \subseteq Cached' \cup abandoned'
  BY DEF ElfStaysMapped, At
<1> USE DEF IInv
<1>1. CASE u # t
  <2>1. at[u] \in {"apply", "posting"} /\ elfs'[u] = elfs[u]
    BY <1>1, OthersStay DEF Stays
  <2>2. readers # {}
    BY <2>1 DEF Gate, At
  <2>3. \A e \in elfs[u] : e \in Mapped \cup unseen /\ e \in Cached \cup abandoned
    BY <2>1 DEF ElfStaysMapped, At
  <2> QED BY <2>1, <2>2, <2>3, ReadersKeepElfs
<1>2. CASE u = t
  <2>1. CASE CopyElfs(t)
    <3>1. elfs'[t] = Cached /\ UNCHANGED <<mapped, cache, abandoned, unseen>>
      BY <2>1 DEF CopyElfs, Shape, elfVars
    <3>2. readers # {}
      BY <2>1 DEF CopyElfs, Gate, At
    <3>3. Cached \subseteq Mapped \cup unseen
      BY <3>2, ReadersKeepOut
    <3>4. Mapped' = Mapped /\ Cached' = Cached
      BY <3>1 DEF Mapped, Cached, Elf
    <3> QED BY <1>2, <3>1, <3>3, <3>4
  <2>2. CASE Iterate(t)
    <3>1. why[t] = "dlopen"
      BY <1>2, <2>2 DEF Iterate, Goto, Shape, HasTask, Whys, At
    <3>2. elfs'[t] = NewElfs
      BY <2>2, <3>1 DEF Iterate, Shape
    <3>3. NewElfs \subseteq Mapped' /\ NewElfs \subseteq Cached'
      BY <2>2, IterateEffect DEF NewElfs, Mapped, Cached, Elf
    <3> QED BY <1>2, <3>2, <3>3
  <2>3. CASE PostNewElf(t)
    <3>1. elfs'[t] \subseteq elfs[t] /\ UNCHANGED <<mapped, cache, abandoned, unseen>> /\ at[t] = "posting"
      BY <2>3 DEF PostNewElf, Shape, elfVars, At
    <3>2. Mapped' = Mapped /\ Cached' = Cached
      BY <3>1 DEF Mapped, Cached, Elf
    <3> QED BY <1>2, <3>1, <3>2 DEF ElfStaysMapped, At
  <2> QED BY <1>2, <2>1, <2>2, <2>3, InHand
<1> QED BY <1>1, <1>2

(***************************************************************************)
(* The start of the monitor                                                  *)
(***************************************************************************)
MonitorKept ==
    /\ initing' = initing
    /\ held'["monitor"] = held["monitor"]
    /\ held'["manager"] = held["manager"]
    /\ inited \subseteq inited' /\ inited' \subseteq inited \cup {"oneshot"}
    /\ ok' = ok

\* What a step does to the monitor's start.
MonitorStep(t) ==
    MonitorKept \/ InitManager(t) \/ InitMonitor(t) \/ LockMonitor(t) \/ MarkMonitor(t)
    \/ \E good \in BOOLEAN : StartDone(t, good)

\* Every step is one of these.
LEMMA MonitorSteps ==
    ASSUME IInv, NEW t \in Threads, Begin(t) \/ Continue(t)
    PROVE  MonitorStep(t)
<1> USE DEF IInv
<1>1. ASSUME NEW l \in Libs, Open(t, l) PROVE MonitorStep(t)
  BY <1>1, Takes, LockNames DEF MonitorStep, MonitorKept, Open, Map, startVars
<1>2. ASSUME NEW l \in Libs, BeginClose(t, l) PROVE MonitorStep(t)
  BY <1>2 DEF BeginClose, MayClose, lockVars, startVars, MonitorStep, MonitorKept
<1>3. ASSUME NEW l \in Libs, CloseUnseen(t, l) PROVE MonitorStep(t)
  BY <1>3 DEF CloseUnseen, MayClose, Unmapped, lockVars, startVars, MonitorStep, MonitorKept
<1>4. ASSUME NEW k \in Tasks, HookCall(t, k) PROVE MonitorStep(t)
  BY <1>4 DEF HookCall, lockVars, startVars, MonitorStep, MonitorKept
<1>5. CASE AddCallback(t)
  BY <1>5 DEF AddCallback, lockVars, startVars, MonitorStep, MonitorKept
<1>6. ASSUME NEW l \in Libs, CtorOpen(t, l) PROVE MonitorStep(t)
  BY <1>6, Takes, LockNames DEF MonitorStep, MonitorKept, CtorOpen, Map, startVars
<1>7. CASE LinkerReturn(t)
  BY <1>7 DEF LinkerReturn, startVars, MonitorStep, MonitorKept
<1>8. CASE AfterOpen(t)
  BY <1>8 DEF AfterOpen, Popped, Outer, InLock, lockVars, startVars, MonitorStep,
     MonitorKept
<1>9. CASE LockClose(t)
  BY <1>9 DEF LockClose, CloseLocks, startVars, Take, MonitorStep, MonitorKept
<1>10. CASE Unmap(t)
  BY <1>10 DEF Unmap, Unmapped, lockVars, startVars, MonitorStep, MonitorKept
<1>11. CASE Read(t)
  BY <1>11 DEF Read, startVars, MonitorStep, MonitorKept
<1>12. CASE BeginRefresh(t)
  BY <1>12 DEF BeginRefresh, startVars, Take, MonitorStep, MonitorKept
<1>13. CASE Iterate(t)
  BY <1>13 DEF Iterate, NewElfs, startVars, Locks, Shape, MonitorStep, MonitorKept
<1>14. CASE PostNewElf(t)
  BY <1>14 DEF PostNewElf, lockVars, startVars, MonitorStep, MonitorKept
<1>15. CASE PostDone(t)
  BY <1>15 DEF PostDone, Popped, Outer, OtherReaders, startVars, MonitorStep, MonitorKept
<1>16. CASE BeginHook(t)
  BY <1>16 DEF BeginHook, lockVars, startVars, MonitorStep, MonitorKept
<1>17. CASE OneShot(t)
  BY <1>17, OneShotSplit, Takes, LockNames DEF MonitorStep, MonitorKept, OneShot, startVars
<1>18. CASE CopyElfs(t)
  BY <1>18 DEF CopyElfs, lockVars, startVars, MonitorStep, MonitorKept
<1>19. CASE ApplyTask(t)
  <2>1. held'["monitor"] = held["monitor"] /\ held'["manager"] = held["manager"]
    <3>1. held' = [held EXCEPT !["oneshot"] = NoOne] \/ UNCHANGED held
      BY <1>19 DEF ApplyTask, Release
    <3> QED BY <3>1, LockNames DEF Shape
  <2> QED BY <1>19, <2>1 DEF MonitorStep, MonitorKept, ApplyTask
<1>20. CASE InitManager(t)
  BY <1>20 DEF MonitorStep
<1>21. CASE InitMonitor(t)
  BY <1>21 DEF MonitorStep
<1>22. CASE MarkMonitor(t)
  BY <1>22 DEF MonitorStep
<1>23. CASE HookNext(t)
  BY <1>23 DEF HookNext, lockVars, startVars, MonitorStep, MonitorKept
<1>24. ASSUME NEW good \in BOOLEAN, StartDone(t, good) PROVE MonitorStep(t)
  BY <1>24 DEF MonitorStep
<1>25. CASE LockMonitor(t)
  BY <1>25 DEF MonitorStep
<1>26. CASE NoRefresh(t)
  <2>1. held'["monitor"] = held["monitor"] /\ held'["manager"] = held["manager"]
    BY <1>26, NoRefreshEffect, LockNames
  <2>2. UNCHANGED <<initing, inited, ok>>
    BY <1>26 DEF NoRefresh, startVars
  <2> QED BY <2>1, <2>2 DEF MonitorStep, MonitorKept
<1> QED BY <1>1, <1>2, <1>3, <1>4, <1>5, <1>6, <1>7, <1>8, <1>9, <1>10, <1>11, <1>12, <1>13,
           <1>14, <1>15, <1>16, <1>17, <1>18, <1>19, <1>20, <1>21, <1>22, <1>23, <1>24, <1>25, <1>26
           DEF Begin, Continue

\* Every step keeps the start of the monitor and its lock together.
LEMMA StartNext ==
    ASSUME IInv, NEW t \in Threads, Begin(t) \/ Continue(t)
    PROVE  Start'
<1> USE DEF IInv
<1>1. CASE InitManager(t)
  <2>1. held'["monitor"] = held["monitor"] /\ UNCHANGED initing
    BY <1>1, InitManagerSplit, Takes, LockNames DEF InitManager
  <2> QED BY <2>1 DEF Start
<1>2. CASE InitMonitor(t)
  <2>1. CASE "monitor" \in inited
    <3>1. MonitorAnswer(t, "monitor" \in ok) /\ UNCHANGED initing /\ At(t, "monitor")
      BY <1>2, <2>1 DEF InitMonitor
    <3>2. held["monitor"] # t
      BY <3>1 DEF Starts, At
    <3>3. held'["monitor"] = held["monitor"]
      BY <3>1, <3>2, MonitorAnswerLocks, LockNames
    <3> QED BY <3>1, <3>3 DEF Start
  <2>2. CASE "monitor" \notin inited
    BY <1>2, <2>2 DEF InitMonitor, Start
  <2> QED BY <2>1, <2>2
<1>3. CASE MarkMonitor(t)
  <2>1. CASE "monitor" \in inited
    <3>1. MonitorAnswer(t, "monitor" \in ok) /\ initing' = FALSE /\ At(t, "locked")
      BY <1>3, <2>1 DEF MarkMonitor
    <3>2. held["monitor"] = t
      BY <3>1 DEF Starts, At
    <3> QED BY <3>1, <3>2, MonitorAnswerLocks, LockNames DEF Start
  <2>2. CASE "monitor" \notin inited
    BY <1>3, <2>2 DEF MarkMonitor, Start
  <2> QED BY <2>1, <2>2
<1>4. ASSUME NEW good \in BOOLEAN, StartDone(t, good) PROVE Start'
  <2>1. MonitorAnswer(t, good) /\ initing' = FALSE /\ At(t, "monitored")
    BY <1>4 DEF StartDone
  <2>2. held["monitor"] = t
    BY <2>1 DEF Starts, At
  <2> QED BY <2>1, <2>2, MonitorAnswerLocks, LockNames DEF Start
<1>5. CASE MonitorKept
  BY <1>5 DEF MonitorKept, Start
<1>6. CASE LockMonitor(t)
  BY <1>6, Takes, LockNames, DlMonitorAssumption DEF LockMonitor, Start
<1> QED BY <1>1, <1>2, <1>3, <1>4, <1>5, <1>6, MonitorSteps DEF MonitorStep

\* What one thread does to the locks of the start leaves the other's alone.
LEMMA MonitorOthers ==
    ASSUME IInv, NEW t \in Threads, Begin(t) \/ Continue(t), NEW u \in Threads, u # t
    PROVE  /\ held'["monitor"] = u <=> held["monitor"] = u
           /\ held["manager"] = u => held'["manager"] = u
           /\ held["monitor"] = u /\ "monitor" \in inited \ ok => "monitor" \in inited' \ ok'
<1> USE DEF IInv
<1>0. NoOne # u /\ NoOne # t
  BY DlMonitorAssumption
<1>1. CASE InitManager(t)
  <2>1. \/ UNCHANGED held
        \/ Take(t, "manager") /\ held["manager"] = NoOne
    BY <1>1, InitManagerSplit DEF Free
  <2>2. /\ held'["monitor"] = held["monitor"]
        /\ held["manager"] = u => held'["manager"] = u
    BY <1>0, <2>1, Takes, LockNames
  <2> QED BY <1>1, <2>2 DEF InitManager, MarkedBefore
<1>2. CASE InitMonitor(t)
  <2>1. CASE "monitor" \in inited
    <3>1. MonitorAnswer(t, "monitor" \in ok) /\ Latched(t, "monitor" \in ok, {})
      BY <1>2, <2>1 DEF InitMonitor
    <3>2. "monitor" \in inited \ ok => "monitor" \in inited' \ ok'
      BY <3>1 DEF Latched
    <3> QED BY <1>0, <3>1, <3>2, MonitorAnswerLocks, LockNames
  <2>2. CASE "monitor" \notin inited
    BY <1>2, <2>2 DEF InitMonitor
  <2> QED BY <2>1, <2>2
<1>3. CASE MarkMonitor(t)
  <2>1. held["monitor"] = t
    BY <1>3 DEF MarkMonitor, Starts, At
  <2>2. UNCHANGED held \/ MonitorAnswer(t, "monitor" \in ok)
    BY <1>3, MarkMonitorSplit
  <2> QED BY <1>0, <2>1, <2>2, MonitorAnswerLocks, LockNames
<1>4. ASSUME NEW good \in BOOLEAN, StartDone(t, good)
      PROVE  /\ held'["monitor"] = u <=> held["monitor"] = u
             /\ held["manager"] = u => held'["manager"] = u
             /\ held["monitor"] # u
  <2>1. held["monitor"] = t
    BY <1>4 DEF StartDone, Starts, At
  <2>2. MonitorAnswer(t, good)
    BY <1>4 DEF StartDone
  <2> QED BY <1>0, <2>1, <2>2, MonitorAnswerLocks, LockNames
<1>5. CASE MonitorKept
  BY <1>5 DEF MonitorKept
<1>6. CASE LockMonitor(t)
  <2>1. Take(t, "monitor") /\ held["monitor"] = NoOne /\ UNCHANGED <<inited, ok>>
    BY <1>6 DEF LockMonitor, Free
  <2> QED BY <1>0, <2>1, Takes, LockNames
<1> QED BY <1>1, <1>2, <1>3, <1>4, <1>5, <1>6, MonitorSteps DEF MonitorStep

\* A step keeps its own thread right.
LEMMA StartsOwn ==
    ASSUME IInv, NEW t \in Threads, Begin(t) \/ Continue(t)
    PROVE  Starts(t)'
<1> USE DEF IInv
<1>1. ASSUME NEW l \in Libs, Open(t, l) PROVE Starts(t)'
  <2>1. Map(t, l) /\ at[t] \in {"idle", "ctor"}
    BY <1>1 DEF Open, At
  <2>2. UNCHANGED <<task, call, inited, ok>> /\ Take(t, "linker") /\ Goto(t, "ctor")
    BY <2>1 DEF Map, startVars
  <2>3. held'["monitor"] = held["monitor"] /\ at'[t] = "ctor"
    BY <2>2, Takes, Goes, LockNames
  <2> QED BY <2>1, <2>2, <2>3 DEF Starts, At
<1>2. ASSUME NEW l \in Libs, BeginClose(t, l) PROVE Starts(t)'
  <2>1. /\ at[t] = "idle" /\ at'[t] \in {"close"}
        /\ UNCHANGED <<task, call, inited, ok>>
    BY <1>2, Goes DEF BeginClose, startVars, At, MayClose
  <2>2. held'["monitor"] = held["monitor"] /\ held'["manager"] = held["manager"]
    BY <1>2, Takes, LockNames DEF BeginClose, lockVars
  <2> QED BY <2>1, <2>2 DEF Starts, At
<1>3. ASSUME NEW l \in Libs, CloseUnseen(t, l) PROVE Starts(t)'
  BY <1>3 DEF CloseUnseen, MayClose, Unmapped, At, lockVars, callVars, Starts
<1>4. ASSUME NEW k \in Tasks, HookCall(t, k) PROVE Starts(t)'
  <2>1. at[t] = "idle" /\ UNCHANGED held
    BY <1>4 DEF HookCall, lockVars, At
  <2>2. held["monitor"] # t
    BY <2>1 DEF Starts, At
  <2>3. at'[t] = "hook" /\ task'[t] = k
    BY <1>4 DEF HookCall, Goto, Shape
  <2> QED BY <2>1, <2>2, <2>3, DlMonitorAssumption DEF Starts, At
<1>5. CASE AddCallback(t)
  <2>1. /\ held["monitor"] # t /\ UNCHANGED held /\ t \in Starters
        /\ at'[t] = "monitor" /\ task'[t] = NoOne /\ call'[t] = NoOne
    BY <1>5 DEF AddCallback, Starts, HasTask, Goto, Shape, lockVars, callVars, At
  <2> QED BY <2>1, DlMonitorAssumption DEF Starts, At
<1>6. ASSUME NEW l \in Libs, CtorOpen(t, l) PROVE Starts(t)'
  <2>1. Map(t, l) /\ at[t] \in {"idle", "ctor"}
    BY <1>6 DEF CtorOpen, At
  <2>2. UNCHANGED <<task, call, inited, ok>> /\ Take(t, "linker") /\ Goto(t, "ctor")
    BY <2>1 DEF Map, startVars
  <2>3. held'["monitor"] = held["monitor"] /\ at'[t] = "ctor"
    BY <2>2, Takes, Goes, LockNames
  <2> QED BY <2>1, <2>2, <2>3 DEF Starts, At
<1>7. CASE LinkerReturn(t)
  <2>1. /\ held'["monitor"] = held["monitor"] /\ UNCHANGED <<task, call>>
        /\ at[t] = "ctor" /\ at'[t] = "opened"
    BY <1>7, Goes, LockNames DEF LinkerReturn, Shape, callVars, At
  <2> QED BY <2>1 DEF Starts, At
<1>8. CASE AfterOpen(t)
  <2>1. /\ at[t] = "opened" /\ at'[t] \in {"idle", "ctor", "read"}
        /\ UNCHANGED <<task, call, inited, ok>>
    BY <1>8, Goes DEF AfterOpen, startVars, At, Outer
  <2>2. held'["monitor"] = held["monitor"] /\ held'["manager"] = held["manager"]
    BY <1>8, Takes, LockNames DEF AfterOpen, lockVars
  <2>3. task[t] = NoOne /\ NoOne \notin Range(Monitored)
    BY <2>1, DlMonitorAssumption DEF HasTask, At
  <2> QED BY <2>1, <2>2, <2>3 DEF Starts, At
<1>9. CASE LockClose(t)
  <2>1. /\ at[t] = "close" /\ at'[t] \in {"closing"}
        /\ UNCHANGED <<task, call, inited, ok>>
    BY <1>9, Goes DEF LockClose, startVars, callVars, At
  <2>2. held'["monitor"] = held["monitor"] /\ held'["manager"] = held["manager"]
    BY <1>9, Takes, LockNames DEF LockClose, lockVars, CloseLocks
  <2> QED BY <2>1, <2>2 DEF Starts, At
<1>10. CASE Unmap(t)
  BY <1>10 DEF Unmap, Unmapped, At, Goto, lockVars, Starts
<1>11. CASE Read(t)
  BY <1>11 DEF Read, At, Goto, startVars, callVars, Starts
<1>12. CASE BeginRefresh(t)
  BY <1>12 DEF BeginRefresh, At, Goto, Take, startVars, callVars, Starts
<1>13. CASE Iterate(t)
  <2>1. /\ held'["monitor"] = held["monitor"] /\ held'["manager"] = held["manager"]
        /\ UNCHANGED <<task, call, inited, ok>> /\ at[t] = "iterate"
    BY <1>13, LockNames DEF Iterate, Shape, startVars, At
  <2>2. why[t] \in {"dlopen", "dlclose"} => task[t] = NoOne
    BY <2>1 DEF HasTask, RefreshFor
  <2>3. why[t] \in {"dlopen", "dlclose", "oneshot"}
    BY <2>1 DEF HasTask, Whys, Shape
  <2>4. at'[t] = CASE why[t] = "dlopen" -> "posting" [] why[t] = "dlclose" -> "idle"
                   [] why[t] = "oneshot" -> "copy"
    BY <1>13, Goes DEF Iterate
  <2>5. NoOne \notin Range(Monitored)
    BY DlMonitorAssumption
  <2>6. CASE why[t] = "oneshot"
    BY <2>1, <2>4, <2>6 DEF Starts, At
  <2>7. CASE why[t] # "oneshot"
    <3>1. task[t] = NoOne /\ at'[t] \in {"posting", "idle"}
      BY <2>2, <2>3, <2>4, <2>7
    <3> QED BY <2>1, <2>5, <3>1 DEF Starts, At
  <2> QED BY <2>6, <2>7
<1>14. CASE PostNewElf(t)
  BY <1>14 DEF PostNewElf, At, lockVars, Starts
<1>15. CASE PostDone(t)
  <2>1. /\ at[t] = "posting" /\ at'[t] \in {"idle", "ctor"}
        /\ UNCHANGED <<task, call, inited, ok>>
    BY <1>15, Goes DEF PostDone, startVars, At, Outer
  <2>2. held'["monitor"] = held["monitor"] /\ held'["manager"] = held["manager"]
    BY <1>15, Takes, LockNames DEF PostDone, lockVars
  <2> QED BY <2>1, <2>2 DEF Starts, At
<1>16. CASE BeginHook(t)
  <2>1. /\ UNCHANGED <<held, task, call, inited, ok>> /\ at[t] = "hook"
        /\ at'[t] \in {"manager", "read", "oneshot"}
        /\ at'[t] = "manager" => ~initing
    BY <1>16, Goes DEF BeginHook, lockVars, startVars, At
  <2>2. ~initing => held["monitor"] # t
    BY DlMonitorAssumption DEF Start
  <2> QED BY <2>1, <2>2 DEF Starts, At
<1>17. CASE OneShot(t)
  <2>1. /\ held'["monitor"] = held["monitor"] /\ held'["manager"] = held["manager"]
        /\ UNCHANGED <<task, call, inited, ok>> /\ at[t] = "oneshot" /\ at'[t] = "read"
    BY <1>17, OneShotSplit, Takes, Goes, LockNames DEF OneShot, startVars, At
  <2> QED BY <2>1 DEF Starts, At
<1>18. CASE CopyElfs(t)
  BY <1>18 DEF CopyElfs, At, Goto, lockVars, startVars, Starts
<1>19. CASE ApplyTask(t)
  <2>1. held'["monitor"] = held["monitor"] /\ held'["manager"] = held["manager"]
    <3>1. held' = [held EXCEPT !["oneshot"] = NoOne] \/ UNCHANGED held
      BY <1>19 DEF ApplyTask, Release
    <3> QED BY <3>1, LockNames DEF Shape
  <2>2. /\ at[t] = "apply" /\ task[t] # NoOne /\ task[t] \in Tasks \cup Range(Monitored) \cup {NoOne}
        /\ "monitor" \in inited \ ok => "monitor" \in inited' \ ok'
    BY <1>19 DEF ApplyTask, HasTask, Shape, At
  <2>3. CASE task[t] \in Tasks
    <3>1. at'[t] = "idle" /\ task'[t] = NoOne
      BY <1>19, <2>3 DEF ApplyTask, HookOver, Goto, Shape
    <3>2. held["monitor"] # t
      BY <2>2, <2>3, DlMonitorAssumption DEF Starts
    <3> QED BY <2>1, <3>1, <3>2, DlMonitorAssumption DEF Starts, At
  <2>4. CASE task[t] \notin Tasks
    <3>1. at'[t] = "monitored" /\ UNCHANGED <<task, call>>
      BY <1>19, <2>4, Goes DEF ApplyTask
    <3>2. task[t] \in Range(Monitored)
      BY <2>2, <2>4
    <3> QED BY <2>1, <2>2, <3>1, <3>2 DEF Starts, At
  <2> QED BY <2>3, <2>4
<1>20. CASE InitManager(t)
  <2>1. at[t] = "manager" /\ call[t] # NoOne /\ held["monitor"] # t
    BY <1>20 DEF InitManager, HasTask, Starts, At
  <2>2. task[t] \notin Range(Monitored)
    BY <2>1 DEF Starts
  <2>3. call[t] \notin Range(Monitored) /\ NoOne \notin Range(Monitored)
    BY DlMonitorAssumption DEF Shape
  <2>4. CASE Answer(t, "manager" \in ok) /\ UNCHANGED held
    <3>1. at'[t] \in {"read", "idle"} /\ task'[t] \in {call[t], NoOne}
      BY <2>4, AnswerGoes
    <3> QED BY <2>1, <2>3, <2>4, <3>1 DEF Starts, At
  <2>5. CASE Take(t, "manager") /\ Goto(t, "monitor") /\ UNCHANGED <<task, call>>
    <3>1. held'["manager"] = t /\ held'["monitor"] = held["monitor"] /\ at'[t] = "monitor"
      BY <2>5, Takes, Goes, LockNames
    <3> QED BY <2>1, <2>2, <2>5, <3>1 DEF Starts, At
  <2> QED BY <1>20, <2>4, <2>5, InitManagerSplit
<1>21. CASE InitMonitor(t)
  <2>1. at[t] = "monitor"
    BY <1>21 DEF InitMonitor, At
  <2>2. IF call[t] = NoOne THEN t \in Starters ELSE held["manager"] = t
    BY <2>1 DEF Starts, At
  <2>3. call[t] \notin Range(Monitored) /\ NoOne \notin Range(Monitored)
    BY DlMonitorAssumption DEF Shape
  <2>4. CASE MonitorAnswer(t, "monitor" \in ok)
    <3>1. held'["monitor"] # t
      BY <2>4, MonitorAnswerLocks, LockNames, DlMonitorAssumption
    <3>2. at'[t] \in {"read", "idle"} /\ task'[t] \in {call[t], NoOne}
      BY <2>4, MonitorAnswerGoes
    <3> QED BY <2>3, <3>1, <3>2 DEF Starts, At
  <2>5. CASE Goto(t, "starting") /\ UNCHANGED <<held, task, call>>
    BY <2>1, <2>5, Goes DEF Starts, At
  <2> QED BY <1>21, <2>4, <2>5, InitMonitorSplit
<1>22. CASE MarkMonitor(t)
  <2>1. at[t] = "locked" /\ held["monitor"] = t
    BY <1>22 DEF MarkMonitor, Starts, At
  <2>2. IF call[t] = NoOne THEN t \in Starters ELSE held["manager"] = t
    BY <2>1 DEF Starts, At
  <2>3. call[t] \notin Range(Monitored) /\ NoOne \notin Range(Monitored)
    BY DlMonitorAssumption DEF Shape
  <2>4. CASE MonitorAnswer(t, "monitor" \in ok)
    <3>1. held'["monitor"] # t
      BY <2>4, MonitorAnswerLocks, LockNames, DlMonitorAssumption
    <3>2. at'[t] \in {"read", "idle"} /\ task'[t] \in {call[t], NoOne}
      BY <2>4, MonitorAnswerGoes
    <3> QED BY <2>3, <3>1, <3>2 DEF Starts, At
  <2>5. CASE "monitor" \notin inited
    <3>1. /\ at'[t] = "monitored" /\ UNCHANGED <<held, task, call>>
          /\ inited' = inited \cup {"monitor"} /\ ok' = ok
      BY <1>22, <2>5, Goes DEF MarkMonitor
    <3>2. "monitor" \notin ok
      BY <2>5 DEF Shape
    <3> QED BY <2>1, <2>2, <3>1, <3>2 DEF Starts, At
  <2> QED BY <1>22, <2>4, <2>5, MarkMonitorSplit
<1>23. CASE HookNext(t)
  <2>1. /\ UNCHANGED <<held, call, inited, ok>> /\ at[t] = "monitored"
        /\ at'[t] = "hook" /\ task'[t] \in Range(Monitored)
    BY <1>23, NextMonitored DEF HookNext, Goto, Shape, lockVars, startVars, At
  <2> QED BY <2>1 DEF Starts, At
<1>24. ASSUME NEW good \in BOOLEAN, StartDone(t, good) PROVE Starts(t)'
  <2>3. call[t] \notin Range(Monitored) /\ NoOne \notin Range(Monitored)
    BY DlMonitorAssumption DEF Shape
  <2>4. MonitorAnswer(t, good)
    BY <1>24 DEF StartDone
  <2>5. held'["monitor"] # t
    BY <2>4, MonitorAnswerLocks, LockNames, DlMonitorAssumption
  <2>6. at'[t] \in {"read", "idle"} /\ task'[t] \in {call[t], NoOne}
    BY <2>4, MonitorAnswerGoes
  <2> QED BY <2>3, <2>5, <2>6 DEF Starts, At
<1>25. CASE LockMonitor(t)
  <2>1. at[t] = "starting" /\ UNCHANGED <<task, call>>
    BY <1>25 DEF LockMonitor, callVars, At
  <2>2. held'["monitor"] = t /\ held'["manager"] = held["manager"] /\ at'[t] = "locked"
    BY <1>25, Takes, Goes, LockNames DEF LockMonitor
  <2> QED BY <2>1, <2>2 DEF Starts, At
<1>26. CASE NoRefresh(t)
  <2>1. /\ held'["monitor"] = held["monitor"] /\ held'["manager"] = held["manager"]
        /\ at[t] = "refresh" /\ why[t] = "dlclose" /\ at'[t] = "idle"
        /\ UNCHANGED <<task, call, inited, ok>>
    BY <1>26, NoRefreshEffect, LockNames
  <2>2. task[t] = NoOne /\ NoOne \notin Range(Monitored)
    BY <2>1, DlMonitorAssumption DEF HasTask, RefreshFor
  <2> QED BY <2>1, <2>2 DEF Starts, At
<1> QED BY <1>1, <1>2, <1>3, <1>4, <1>5, <1>6, <1>7, <1>8, <1>9, <1>10, <1>11, <1>12, <1>13,
           <1>14, <1>15, <1>16, <1>17, <1>18, <1>19, <1>20, <1>21, <1>22, <1>23, <1>24, <1>25, <1>26
           DEF Begin, Continue

\* Every step keeps those who start the monitor right.
LEMMA StartsNext ==
    ASSUME IInv, NEW t \in Threads, Begin(t) \/ Continue(t), NEW u \in Threads
    PROVE  Starts(u)'
<1>1. CASE u = t
  BY <1>1, StartsOwn
<1>2. CASE u # t
  <2>1. at'[u] = at[u] /\ task'[u] = task[u] /\ call'[u] = call[u]
    BY <1>2, OthersStay DEF Stays
  <2> QED BY <1>2, <2>1, MonitorOthers DEF IInv, Starts, At
<1> QED BY <1>1, <1>2

(***************************************************************************)
(* Theorems                                                                  *)
(***************************************************************************)
LEMMA InitIInv == Init => IInv
<1> SUFFICES ASSUME Init PROVE IInv
  OBVIOUS
<1>1. Shape
  <2>1. \A l \in Libs : mapped[l] \in Nat /\ mapped[l] = maps[l]
    BY DEF Init
  <2>2. <<>> \in Seq(OpenCalls)
    BY EmptySeq
  <2> QED BY <2>1, <2>2 DEF Init, Shape, Places, Whys
<1>2. Start /\ GateShut /\ Gone /\ ElfStaysMapped
  BY LockNames DEF Init, Start, GateShut, Gone, ElfStaysMapped
<1>3. Counted
  BY DEF Init, Counted
<1>4. \A l \in Libs : UpToDate(l)
  BY DEF Init, UpToDate
<1>5. ASSUME NEW t \in Threads PROVE InLinker(t) /\ HasTask(t) /\ Starts(t) /\ Gate(t) /\ Closes(t)
  <2>1. /\ at[t] = "idle" /\ task[t] = NoOne /\ call[t] = NoOne /\ why[t] = "hook"
        /\ \A l \in Locks : held[l] # t
    BY DlMonitorAssumption DEF Init
  <2> QED BY <2>1, LockNames, DlMonitorAssumption DEF InLinker, RefreshFor, HasTask, Starts,
             Gate, Closes, At
<1> QED BY <1>1, <1>2, <1>3, <1>4, <1>5 DEF IInv

\* Every step keeps the invariant.
LEMMA NextIInv == IInv /\ [Next]_vars => IInv'
<1> SUFFICES ASSUME IInv, [Next]_vars PROVE IInv'
  OBVIOUS
<1>1. Shape' /\ \A u \in Threads : InLinker(u)' /\ HasTask(u)'
  BY ShapeNext, LinkerNext, TaskNext
<1>2. ASSUME NEW t \in Threads, Begin(t) \/ Continue(t) PROVE IInv'
  <2>1. Start' /\ GateShut' /\ Counted' /\ Gone' /\ ElfStaysMapped'
    BY <1>2, StartNext, GateShutNext, CountedNext, GoneNext, ElfStaysNext
  <2>2. \A l \in Libs : UpToDate(l)'
    BY <1>2, UpToDateNext
  <2>3. \A u \in Threads : Starts(u)' /\ Gate(u)' /\ Closes(u)'
    BY <1>2, StartsNext, GateNext, ClosesNext
  <2> QED BY <1>1, <2>1, <2>2, <2>3 DEF IInv
<1>3. CASE UNCHANGED vars
  <2>1. /\ UNCHANGED <<held, readers, mapped, maps, cache, abandoned, unseen, listed, initing, inited, ok>>
        /\ UNCHANGED <<at, why, task, call, opening, elfs>>
    BY <1>3 DEF vars, lockVars, elfVars, taskVars, startVars, callVars
  <2>2. Start' /\ GateShut' /\ Counted'
    BY <2>1 DEF IInv, Start, GateShut, Counted
  <2>3. Gone' /\ ElfStaysMapped'
    BY <2>1 DEF IInv, Gone, ElfStaysMapped, Mapped, Cached, Elf, At
  <2>4. \A l \in Libs : UpToDate(l)'
    BY <2>1 DEF IInv, UpToDate, OutOfDate, Unrefreshed
  <2>5. \A u \in Threads : Starts(u)' /\ Gate(u)' /\ Closes(u)'
    BY <2>1 DEF IInv, Starts, Gate, Closes, At
  <2> QED BY <1>1, <2>2, <2>3, <2>4, <2>5 DEF IInv
<1> QED BY <1>2, <1>3 DEF Next, Rest

\* The invariant holds in every state.
THEOREM Invariant == Spec => []IInv
BY InitIInv, NextIInv, PTL DEF Spec

\* The invariant contains the types.
LEMMA IInvTypes == IInv => TypeOK
<1> SUFFICES ASSUME IInv PROVE TypeOK
  OBVIOUS
<1>1. \A t \in Threads : held["linker"] = t => opening[t] # <<>>
  BY DEF IInv, InLinker
<1>2. /\ held["dlclose"] # NoOne => readers = {}
      /\ \A t \in Threads : elfs[t] \subseteq Elfs
  BY DEF IInv, GateShut, Shape
<1> QED BY <1>1, <1>2 DEF IInv, Shape, Whys, TypeOK

\* Every variable keeps its type, the write lock of dlclose keeps readers out,
\* and the linker's mutex is with a thread that is in a dlopen
\* (bh_dl_monitor.cpp, bh_linker.cpp).
THEOREM Types == Spec => []TypeOK
BY Invariant, IInvTypes, PTL

\* No thread hooks or posts an ELF that was destroyed after the thread took it
\* from the cache, and none whose library is unmapped, unless it was closed before
\* the monitor saw to it: with no proxy of dlclose in its place yet, or none to
\* call after it.  What keeps the others is the lock of the proxy of dlclose
\* against those of the refresh and the hook call (bh_dl_monitor.cpp:427-452).
THEOREM ElfStays == Spec => []ElfStaysMapped
<1>1. IInv => ElfStaysMapped
  BY DEF IInv
<1> QED BY <1>1, Invariant, PTL

\* The step in which the manager takes a failure for good.
LEMMA ManagerRightStep ==
    ASSUME IInv, NEW t \in Threads, Begin(t) \/ Continue(t),
           "manager" \in inited' \ ok', "manager" \notin inited
    PROVE  MonitorFailed' \/ \E s \in Starters : held["monitor"] = s /\ call[s] = NoOne
<1> USE DEF IInv
<1>1. ~InitManager(t) /\ ~LockMonitor(t) /\ ~MonitorKept
  BY DEF InitManager, LockMonitor, MarkedBefore, MonitorKept
<1>3. CASE InitMonitor(t)
  <2>1. /\ at[t] = "monitor" /\ "monitor" \in inited /\ UNCHANGED initing
        /\ Latched(t, "monitor" \in ok, {})
    BY <1>3 DEF InitMonitor, At
  <2>2. call[t] # NoOne /\ "monitor" \notin ok /\ ok' = ok /\ inited \subseteq inited'
    BY <2>1 DEF Latched
  <2>3. CASE ~initing
    BY <2>1, <2>2, <2>3 DEF MonitorFailed
  <2>4. CASE initing
    <3>1. PICK u \in Threads : held["monitor"] = u
      BY <2>4, LockNames DEF Start, Shape
    <3>2. u # t
      BY <2>1, <3>1 DEF Starts
    <3>3. held["manager"] = t
      BY <2>1, <2>2 DEF Starts, At
    <3>4. IF call[u] = NoOne THEN u \in Starters ELSE held["manager"] = u
      BY <3>1 DEF Starts
    <3> QED BY <3>1, <3>2, <3>3, <3>4
  <2> QED BY <2>3, <2>4
<1>4. CASE MarkMonitor(t)
  <2>1. "monitor" \in inited /\ initing' = FALSE /\ Latched(t, "monitor" \in ok, {})
    BY <1>4 DEF MarkMonitor
  <2>2. "monitor" \notin ok /\ ok' = ok /\ inited \subseteq inited'
    BY <2>1 DEF Latched
  <2> QED BY <2>1, <2>2 DEF MonitorFailed
<1>5. ASSUME NEW good \in BOOLEAN, StartDone(t, good) PROVE MonitorFailed'
  <2>1. at[t] = "monitored" /\ initing' = FALSE /\ Latched(t, good, {"monitor"})
    BY <1>5 DEF StartDone, At
  <2>2. ok' = ok /\ "monitor" \in inited'
    BY <2>1 DEF Latched
  <2>3. "monitor" \notin ok
    BY <2>1 DEF Starts, At
  <2> QED BY <2>1, <2>2, <2>3 DEF MonitorFailed
<1> QED BY <1>1, <1>3, <1>4, <1>5, MonitorSteps DEF MonitorStep

\* The manager refuses hook calls for good only if the monitor has failed, or if
\* plt_hook_add_dlopen_callback was starting it (bh_task_manager.cpp).
THEOREM ManagerRight == Spec => ManagerAnswersRight
<1>1. ASSUME IInv, [Next]_vars
      PROVE  [ "manager" \in inited' \ ok' /\ "manager" \notin inited =>
                MonitorFailed' \/ \E t \in Starters : held["monitor"] = t /\ call[t] = NoOne ]_vars
  <2>1. ASSUME NEW t \in Threads, Begin(t) \/ Continue(t)
        PROVE  "manager" \in inited' \ ok' /\ "manager" \notin inited =>
                MonitorFailed' \/ \E s \in Starters : held["monitor"] = s /\ call[s] = NoOne
    BY <1>1, <2>1, ManagerRightStep
  <2>2. CASE UNCHANGED vars
    BY <2>2
  <2> QED BY <1>1, <2>1, <2>2 DEF Next, Rest
<1> QED BY <1>1, Invariant, PTL DEF Spec, ManagerAnswersRight

(***************************************************************************)
(* No task misses a library.  A hook call or a refresh that makes an ELF     *)
(* known takes every task on the list to it, but for the one shot, which is  *)
(* over before the first hook call has copied the cache.                     *)
(***************************************************************************)
\* A thread looks into the cache for a task only after the one shot, or makes it.
\* Who asks whether the monitor has started comes from a hook call, and the one
\* shot happens before the last function of the monitor is hooked.
OneShotRight(t) ==
    /\ at[t] \in {"copy", "apply"} \/ RefreshFor(t, {"hook", "oneshot"}) =>
        IF why[t] = "oneshot" THEN held["oneshot"] = t /\ "oneshot" \notin inited
        ELSE "oneshot" \in inited
    /\ \/ at[t] \in {"manager", "oneshot"}
       \/ at[t] \in {"monitor", "starting", "locked"} /\ call[t] # NoOne
       => why[t] = "hook"
    /\ At(t, "monitored") /\ why[t] = "oneshot" /\ call[t] # NoOne => Unhooked # {}

\* The monitor starts after the one shot, and no hook call comes back before it.
OneShotFirst ==
    /\ "manager" \in ok => "monitor" \in ok
    /\ "monitor" \in ok \/ hooked # {} => "oneshot" \in inited
    /\ "oneshot" \notin inited => \A k \in listed \ refused : \E t \in Threads : call[t] = k

\* An ELF is of a mapping there has been.
Numbered(e) == e[2] <= maps[e[1]]

OpenedNumbered(t) == \A i \in 1 .. Len(opening[t]) : Numbered(opening[t][i].elf)

NoticedNumbered == \A e \in noticed : Numbered(e)

\* The hook call of a task is still to come to the ELF.
Ahead(k, e) == \E t \in Threads : call[t] = k /\ (At(t, "apply") /\ task[t] = k => e \in elfs[t])

\* The tasks on the list are still to be taken to the ELF.
Posted(e) == \E t \in Threads : At(t, "posting") /\ e \in elfs[t]

\* The refresh after the dlopen of the ELF is still to come.
Coming(e) == \E t \in Threads : RefreshFor(t, {"dlopen"}) /\ Last(opening[t]).elf = e

NoticedFollowed ==
    \A e \in Mapped \cap noticed : e \in Cached \/ Coming(e) \/ OutOfDate(e[1])

Reached(k, e) == <<k, e>> \in applied \/ Ahead(k, e)

CachedFollowed ==
    \A e \in Mapped \cap Cached : \/ e \in dropped \/ Posted(e)
                                  \/ \A k \in listed \ refused : Reached(k, e)

Following ==
    /\ IInv
    /\ \A t \in Threads : OneShotRight(t) /\ OpenedNumbered(t)
    /\ OneShotFirst /\ NoticedNumbered /\ NoticedFollowed /\ CachedFollowed

\* A step that has to do neither with the one shot nor with hooking the monitor's
\* functions.
Plain ==
    /\ held'["oneshot"] = held["oneshot"]
    /\ "oneshot" \in inited' <=> "oneshot" \in inited
    /\ hooked' = hooked

\* All other steps.
LEMMA PlainSteps ==
    ASSUME IInv, NEW t \in Threads, Begin(t) \/ Continue(t)
    PROVE  Plain \/ OneShot(t) \/ ApplyTask(t) \/ \E good \in BOOLEAN : StartDone(t, good)
<1> USE DEF IInv
<1>1. ASSUME NEW l \in Libs, Open(t, l) PROVE Plain
  BY <1>1, Takes, LockNames DEF Open, Map, startVars, Plain
<1>2. ASSUME NEW l \in Libs, BeginClose(t, l) PROVE Plain
  BY <1>2 DEF BeginClose, lockVars, startVars, Plain
<1>3. ASSUME NEW l \in Libs, CloseUnseen(t, l) PROVE Plain
  BY <1>3 DEF CloseUnseen, lockVars, startVars, Plain
<1>4. ASSUME NEW k \in Tasks, HookCall(t, k) PROVE Plain
  BY <1>4 DEF HookCall, lockVars, startVars, Plain
<1>5. CASE AddCallback(t)
  BY <1>5 DEF AddCallback, lockVars, startVars, Plain
<1>6. ASSUME NEW l \in Libs, CtorOpen(t, l) PROVE Plain
  BY <1>6, Takes, LockNames DEF CtorOpen, Map, startVars, Plain
<1>7. CASE LinkerReturn(t)
  BY <1>7 DEF LinkerReturn, startVars, Plain
<1>8. CASE AfterOpen(t)
  BY <1>8 DEF AfterOpen, lockVars, startVars, Plain
<1>9. CASE LockClose(t)
  BY <1>9, Takes, LockNames DEF LockClose, CloseLocks, startVars, Plain
<1>10. CASE Unmap(t)
  BY <1>10 DEF Unmap, lockVars, startVars, Plain
<1>11. CASE Read(t)
  BY <1>11 DEF Read, startVars, Plain
<1>12. CASE BeginRefresh(t)
  BY <1>12, Takes, LockNames DEF BeginRefresh, startVars, Plain
<1>13. CASE Iterate(t)
  BY <1>13, LockNames DEF Iterate, startVars, Shape, Plain
<1>14. CASE PostNewElf(t)
  BY <1>14 DEF PostNewElf, lockVars, startVars, Plain
<1>15. CASE PostDone(t)
  BY <1>15 DEF PostDone, startVars, Plain
<1>16. CASE BeginHook(t)
  BY <1>16 DEF BeginHook, lockVars, startVars, Plain
<1>17. CASE CopyElfs(t)
  BY <1>17 DEF CopyElfs, lockVars, startVars, Plain
<1>18. CASE InitManager(t)
  <2>1. held'["oneshot"] = held["oneshot"]
    BY <1>18, InitManagerSplit, Takes, LockNames
  <2>2. inited' = inited /\ hooked' = hooked
    BY <1>18 DEF InitManager, MarkedBefore
  <2> QED BY <2>1, <2>2 DEF Plain
<1>19. CASE InitMonitor(t)
  <2>1. held'["oneshot"] = held["oneshot"]
    BY <1>19, InitMonitorSplit, MonitorAnswerLocks, LockNames
  <2>2. inited' \in {inited, inited \cup {"manager"}} /\ hooked' = hooked
    BY <1>19 DEF InitMonitor, Latched
  <2> QED BY <2>1, <2>2 DEF Plain
<1>20. CASE LockMonitor(t)
  BY <1>20, Takes, LockNames DEF LockMonitor, Plain
<1>21. CASE MarkMonitor(t)
  <2>1. held'["oneshot"] = held["oneshot"]
    BY <1>21, MarkMonitorSplit, MonitorAnswerLocks, LockNames
  <2>2. /\ inited' \in {inited, inited \cup {"manager"}, inited \cup {"monitor"}}
        /\ hooked' = hooked
    BY <1>21 DEF MarkMonitor, Latched
  <2> QED BY <2>1, <2>2 DEF Plain
<1>22. CASE HookNext(t)
  BY <1>22 DEF HookNext, lockVars, startVars, Plain
<1>23. CASE NoRefresh(t)
  BY <1>23, NoRefreshEffect, LockNames DEF Plain
<1> QED BY <1>1, <1>2, <1>3, <1>4, <1>5, <1>6, <1>7, <1>8, <1>9, <1>10, <1>11, <1>12, <1>13,
           <1>14, <1>15, <1>16, <1>17, <1>18, <1>19, <1>20, <1>21, <1>22, <1>23 DEF Begin, Continue

\* What the one shot takes, and what the hooking of a task gives back.
LEMMA OneShotEffect ==
    ASSUME IInv, NEW t \in Threads, OneShot(t)
    PROVE  /\ at[t] = "oneshot" /\ at'[t] = "read"
           /\ UNCHANGED <<inited, hooked, ok>>
           /\ \/ "oneshot" \in inited /\ UNCHANGED <<held, why>>
              \/ /\ "oneshot" \notin inited /\ held["oneshot"] = NoOne
                 /\ held'["oneshot"] = t /\ why'[t] = "oneshot"
<1> USE DEF IInv
<1>1. at[t] = "oneshot" /\ at'[t] = "read" /\ UNCHANGED <<inited, hooked, ok>>
  BY Goes DEF OneShot, At, startVars
<1>2. CASE "oneshot" \in inited
  BY <1>1, <1>2 DEF OneShot
<1>3. CASE "oneshot" \notin inited
  <2>1. Take(t, "oneshot") /\ why' = [why EXCEPT ![t] = "oneshot"] /\ held["oneshot"] = NoOne
    BY <1>3 DEF OneShot, Free
  <2>2. held'["oneshot"] = t
    BY <2>1, Takes, LockNames
  <2> QED BY <1>1, <1>3, <2>1, <2>2 DEF Shape
<1> QED BY <1>2, <1>3

\* Applying a task ends the one shot, if this was it.
LEMMA ApplyEffect ==
    ASSUME IInv, NEW t \in Threads, ApplyTask(t)
    PROVE  /\ at[t] = "apply" /\ UNCHANGED <<why, ok, listed, refused>>
           /\ hooked' = hooked \cup ({task[t]} \ Tasks)
           /\ why[t] = "oneshot" => held'["oneshot"] = NoOne /\ inited' = inited \cup {"oneshot"}
           /\ why[t] # "oneshot" => held' = held /\ inited' = inited
           /\ IF task[t] \in Tasks
              THEN at'[t] = "idle" /\ call'[t] = NoOne
              ELSE at'[t] = "monitored" /\ task'[t] = task[t] /\ call'[t] = call[t]
<1> USE DEF IInv
<1>1. at[t] = "apply" /\ UNCHANGED <<why, ok, listed, refused>>
  BY DEF ApplyTask, At
<1>2. hooked' = hooked \cup ({task[t]} \ Tasks)
  BY DEF ApplyTask
<1>3. ASSUME why[t] = "oneshot" PROVE held'["oneshot"] = NoOne /\ inited' = inited \cup {"oneshot"}
  <2>1. held' = [held EXCEPT !["oneshot"] = NoOne] /\ inited' = inited \cup {"oneshot"}
    BY <1>3 DEF ApplyTask, Release
  <2> QED BY <2>1, LockNames DEF Shape
<1>4. why[t] # "oneshot" => held' = held /\ inited' = inited
  BY DEF ApplyTask
<1>5. CASE task[t] \in Tasks
  BY <1>1, <1>2, <1>3, <1>4, <1>5 DEF ApplyTask, HookOver, Goto, Shape
<1>6. CASE task[t] \notin Tasks
  <2>1. at'[t] = "monitored" /\ task'[t] = task[t] /\ call'[t] = call[t]
    BY <1>6, Goes DEF ApplyTask
  <2> QED BY <1>1, <1>2, <1>3, <1>4, <1>6, <2>1
<1> QED BY <1>5, <1>6

\* A hook call goes on only with a good answer.
LEMMA GoodAnswer ==
    ASSUME Shape, NEW t \in Threads, NEW good, MonitorAnswer(t, good) \/ Answer(t, good), at'[t] # "idle"
    PROVE  good /\ at'[t] = "read"
<1>1. CASE Answer(t, good)
  BY <1>1 DEF Shape, Answer, HookOver, Goto
<1>2. CASE MonitorAnswer(t, good)
  <2>1. call[t] # NoOne
    BY <1>2 DEF Shape, MonitorAnswer, HookOver, Goto
  <2>2. Answer(t, good)
    BY <1>2, <2>1 DEF MonitorAnswer
  <2> QED BY <1>1, <2>2
<1> QED BY <1>1, <1>2

\* The places at which a thread has nothing to do with the one shot.
LEMMA Away ==
    ASSUME NEW t, at'[t] \in {"idle", "ctor", "opened", "close", "closing", "posting", "hook"}
    PROVE  OneShotRight(t)'
BY DEF OneShotRight, RefreshFor, At

\* The monitor has two functions to hook.
LEMMA TwoMonitored ==
    ASSUME NEW f, NEW h \in SUBSET {f}
    PROVE  {i \in DOMAIN Monitored : Monitored[i] \notin h} # {}
<1>1. DOMAIN Monitored = {1, 2} /\ Monitored[1] = "dlopen" /\ Monitored[2] = "dlclose"
  BY DEF Monitored
<1>2. CASE f = "dlopen"
  <2>1. 2 \in DOMAIN Monitored /\ Monitored[2] \notin h
    BY <1>1, <1>2
  <2> QED BY <2>1
<1>3. CASE f # "dlopen"
  <2>1. 1 \in DOMAIN Monitored /\ Monitored[1] \notin h
    BY <1>1, <1>3
  <2> QED BY <2>1
<1> QED BY <1>2, <1>3

\* All are hooked only if some are.
LEMMA AllMonitored == Unhooked = {} => hooked # {}
<1>1. hooked = {} => Unhooked # {}
  BY TwoMonitored DEF Unhooked
<1> QED BY <1>1

\* A step keeps its own thread right.
LEMMA OneShotOwn ==
    ASSUME Following, NEW t \in Threads, Begin(t) \/ Continue(t)
    PROVE  OneShotRight(t)'
<1> USE DEF IInv, Following
<1>1. ASSUME NEW l \in Libs, Open(t, l) PROVE OneShotRight(t)'
  <2>1. at'[t] = "ctor"
    BY <1>1, MapLinker DEF Open
  <2> QED BY <2>1, Away
<1>2. ASSUME NEW l \in Libs, BeginClose(t, l) PROVE OneShotRight(t)'
  BY <1>2, Goes, Away DEF BeginClose
<1>3. ASSUME NEW l \in Libs, CloseUnseen(t, l) PROVE OneShotRight(t)'
  BY <1>3, Away DEF CloseUnseen, MayClose, At
<1>4. ASSUME NEW k \in Tasks, HookCall(t, k) PROVE OneShotRight(t)'
  BY <1>4, Goes, Away DEF HookCall
<1>5. CASE AddCallback(t)
  <2>1. at[t] = "idle" /\ at'[t] = "monitor" /\ call'[t] = call[t]
    BY <1>5, Goes DEF AddCallback, At, callVars
  <2>2. call[t] = NoOne
    BY <2>1 DEF HasTask
  <2> QED BY <2>1, <2>2 DEF OneShotRight, RefreshFor, At
<1>6. ASSUME NEW l \in Libs, CtorOpen(t, l) PROVE OneShotRight(t)'
  <2>1. at'[t] = "ctor"
    BY <1>6, MapLinker DEF CtorOpen
  <2> QED BY <2>1, Away
<1>7. CASE LinkerReturn(t)
  BY <1>7, Goes, Away DEF LinkerReturn
<1>8. CASE AfterOpen(t)
  <2>1. (at'[t] = "read" /\ why'[t] = "dlopen") \/ at'[t] \in {"idle", "ctor"}
    BY <1>8 DEF AfterOpen, Goto, Outer, Shape
  <2>2. CASE at'[t] = "read" /\ why'[t] = "dlopen"
    BY <2>2 DEF OneShotRight, RefreshFor, At
  <2> QED BY <2>1, <2>2, Away
<1>9. CASE LockClose(t)
  BY <1>9, Goes, Away DEF LockClose
<1>10. CASE Unmap(t)
  <2>1. at'[t] = "refresh" /\ why'[t] = "dlclose"
    BY <1>10 DEF Unmap, Goto, Shape
  <2> QED BY <2>1 DEF OneShotRight, RefreshFor, At
<1>11. CASE Read(t)
  <2>1. /\ at[t] = "read" /\ at'[t] = (IF why[t] = "hook" THEN "copy" ELSE "refresh")
        /\ UNCHANGED <<why, held, inited>>
    BY <1>11, Goes DEF Read, callVars, startVars, At
  <2>2. OneShotRight(t)
    OBVIOUS
  <2> QED BY <2>1, <2>2 DEF OneShotRight, RefreshFor, At
<1>12. CASE BeginRefresh(t)
  <2>1. /\ at[t] = "refresh" /\ at'[t] = "iterate" /\ UNCHANGED <<why, inited>>
        /\ held'["oneshot"] = held["oneshot"]
    BY <1>12, Goes, Takes, LockNames DEF BeginRefresh, callVars, startVars, At
  <2>2. OneShotRight(t)
    OBVIOUS
  <2> QED BY <2>1, <2>2 DEF OneShotRight, RefreshFor, At
<1>13. CASE Iterate(t)
  <2>1. /\ at[t] = "iterate" /\ UNCHANGED <<why, inited>>
        /\ held'["oneshot"] = held["oneshot"]
    BY <1>13, LockNames DEF Iterate, Shape, startVars, At
  <2>2. at'[t] \in {"posting", "idle"} \/ (at'[t] = "copy" /\ why[t] = "oneshot")
    BY <1>13 DEF Iterate, Goto, Shape, HasTask, Whys, At
  <2>3. OneShotRight(t)
    OBVIOUS
  <2>4. CASE at'[t] = "copy" /\ why[t] = "oneshot"
    BY <2>1, <2>3, <2>4 DEF OneShotRight, RefreshFor, At
  <2> QED BY <2>2, <2>4, Away
<1>14. CASE PostNewElf(t)
  BY <1>14, Away DEF PostNewElf, At
<1>15. CASE PostDone(t)
  BY <1>15, Goes, Away DEF PostDone, Outer
<1>16. CASE BeginHook(t)
  <2>1. /\ why'[t] = "hook" /\ UNCHANGED inited
        /\ at'[t] \in {"manager", "oneshot"} \/ (at'[t] = "read" /\ "oneshot" \in inited)
    BY <1>16 DEF BeginHook, Goto, Shape, startVars
  <2> QED BY <2>1 DEF OneShotRight, RefreshFor, At
<1>17. CASE OneShot(t)
  <2>1. at[t] = "oneshot" => why[t] = "hook"
    BY DEF OneShotRight
  <2> QED BY <1>17, <2>1, OneShotEffect DEF OneShotRight, RefreshFor, At
<1>18. CASE CopyElfs(t)
  <2>1. at[t] = "copy" /\ at'[t] = "apply" /\ UNCHANGED <<why, held, inited>>
    BY <1>18, Goes DEF CopyElfs, lockVars, startVars, At
  <2>2. OneShotRight(t)
    OBVIOUS
  <2> QED BY <2>1, <2>2 DEF OneShotRight, RefreshFor, At
<1>19. CASE ApplyTask(t)
  <2>1. at[t] = "apply" /\ why' = why /\ hooked' \subseteq hooked \cup {task[t]}
    BY <1>19, ApplyEffect
  <2>2. why[t] = "oneshot" => hooked = {}
    BY <2>1 DEF OneShotRight, OneShotFirst
  <2>3. ASSUME why[t] = "oneshot" PROVE Unhooked' # {}
    <3>1. hooked' \subseteq {task[t]}
      BY <2>1, <2>2, <2>3
    <3>2. {i \in DOMAIN Monitored : Monitored[i] \notin hooked'} # {}
      BY <3>1, TwoMonitored
    <3> QED BY <3>2 DEF Unhooked
  <2>4. at'[t] \in {"idle", "monitored"}
    BY <1>19, ApplyEffect
  <2>5. CASE at'[t] = "monitored"
    BY <2>1, <2>3, <2>5 DEF OneShotRight, RefreshFor, At
  <2> QED BY <2>4, <2>5, Away
<1>20. CASE InitManager(t)
  <2>1. at[t] = "manager" /\ UNCHANGED <<why, inited>>
    BY <1>20 DEF InitManager, MarkedBefore, At
  <2>2. why[t] = "hook"
    BY <2>1 DEF OneShotRight
  <2>3. CASE Answer(t, "manager" \in ok) /\ at'[t] # "idle"
    <3>1. "manager" \in ok /\ at'[t] = "read"
      BY <2>3, GoodAnswer
    <3> QED BY <2>1, <2>2, <3>1 DEF OneShotRight, OneShotFirst, RefreshFor, At
  <2>4. CASE Take(t, "manager") /\ Goto(t, "monitor")
    <3>1. at'[t] = "monitor"
      BY <2>4, Goes
    <3> QED BY <2>1, <2>2, <3>1 DEF OneShotRight, RefreshFor, At
  <2> QED BY <1>20, <2>3, <2>4, InitManagerSplit, Away
<1>21. CASE InitMonitor(t)
  <2>1. at[t] = "monitor" /\ UNCHANGED why /\ inited \subseteq inited'
    BY <1>21 DEF InitMonitor, Latched, At
  <2>2. call[t] # NoOne => why[t] = "hook"
    BY <2>1 DEF OneShotRight
  <2>3. CASE MonitorAnswer(t, "monitor" \in ok) /\ at'[t] # "idle"
    <3>1. "monitor" \in ok /\ at'[t] = "read"
      BY <2>3, GoodAnswer
    <3>2. call[t] # NoOne
      BY <2>3, MonitorAnswerGoes
    <3> QED BY <2>1, <2>2, <3>1, <3>2 DEF OneShotRight, OneShotFirst, RefreshFor, At
  <2>4. CASE Goto(t, "starting") /\ UNCHANGED <<held, task, call>>
    BY <2>1, <2>2, <2>4, Goes DEF OneShotRight, RefreshFor, At
  <2> QED BY <1>21, <2>3, <2>4, InitMonitorSplit, Away
<1>22. CASE LockMonitor(t)
  <2>1. at[t] = "starting" /\ at'[t] = "locked" /\ UNCHANGED <<why, call>>
    BY <1>22, Goes DEF LockMonitor, callVars, At
  <2> QED BY <2>1 DEF OneShotRight, RefreshFor, At
<1>23. CASE MarkMonitor(t)
  <2>1. at[t] = "locked" /\ UNCHANGED why /\ inited \subseteq inited'
    BY <1>23 DEF MarkMonitor, Latched, At
  <2>2. call[t] # NoOne => why[t] = "hook"
    BY <2>1 DEF OneShotRight
  <2>3. CASE MonitorAnswer(t, "monitor" \in ok) /\ at'[t] # "idle"
    <3>1. "monitor" \in ok /\ at'[t] = "read"
      BY <2>3, GoodAnswer
    <3>2. call[t] # NoOne
      BY <2>3, MonitorAnswerGoes
    <3> QED BY <2>1, <2>2, <3>1, <3>2 DEF OneShotRight, OneShotFirst, RefreshFor, At
  <2>4. CASE Goto(t, "monitored") /\ UNCHANGED <<held, task, call>>
    BY <2>1, <2>2, <2>4, Goes DEF OneShotRight, RefreshFor, At
  <2> QED BY <1>23, <2>3, <2>4, MarkMonitorSplit, Away
<1>24. CASE HookNext(t)
  BY <1>24, Goes, Away DEF HookNext
<1>25. ASSUME NEW good \in BOOLEAN, StartDone(t, good), at'[t] # "idle" PROVE OneShotRight(t)'
  <2>1. /\ at[t] = "monitored" /\ UNCHANGED why /\ inited \subseteq inited'
        /\ MonitorAnswer(t, good) /\ (good => Unhooked = {})
    BY <1>25 DEF StartDone, Latched, At
  <2>2. good /\ at'[t] = "read" /\ call[t] # NoOne
    BY <1>25, <2>1, GoodAnswer, MonitorAnswerGoes
  <2>3. why[t] = "hook"
    BY <2>1, <2>2 DEF OneShotRight, HasTask, At
  <2>4. "oneshot" \in inited
    BY <2>1, <2>2, AllMonitored DEF OneShotFirst
  <2> QED BY <2>1, <2>2, <2>3, <2>4 DEF OneShotRight, RefreshFor, At
<1>26. ASSUME NEW good \in BOOLEAN, StartDone(t, good) PROVE OneShotRight(t)'
  BY <1>25, <1>26, Away
<1>27. CASE NoRefresh(t)
  <2>1. at'[t] = "idle"
    BY <1>27, NoRefreshEffect, LockNames
  <2> QED BY <2>1, Away
<1> QED BY <1>1, <1>2, <1>3, <1>4, <1>5, <1>6, <1>7, <1>8, <1>9, <1>10, <1>11, <1>12, <1>13,
           <1>14, <1>15, <1>16, <1>17, <1>18, <1>19, <1>20, <1>21, <1>22, <1>23, <1>24,
           <1>26, <1>27 DEF Begin, Continue

\* The end of the start leaves the one shot alone.
LEMMA StartDoneEffect ==
    ASSUME IInv, NEW t \in Threads, NEW good \in BOOLEAN, StartDone(t, good)
    PROVE  /\ held["monitor"] = t
           /\ held'["oneshot"] = held["oneshot"]
           /\ "oneshot" \in inited' <=> "oneshot" \in inited
           /\ hooked' \subseteq hooked
           /\ good => Unhooked = {}
           /\ ok' \subseteq ok \cup {"manager", "monitor"}
           /\ good => "monitor" \in ok'
           /\ ~good => ok' = ok
<1>1. MonitorAnswer(t, good) /\ Latched(t, good, {"monitor"}) /\ At(t, "monitored")
  BY DEF StartDone
<1>2. held["monitor"] = t
  BY <1>1 DEF IInv, Starts, At
<1>3. held'["oneshot"] = held["oneshot"]
  BY <1>1, MonitorAnswerLocks, LockNames DEF IInv
<1> QED BY <1>1, <1>2, <1>3 DEF StartDone, Latched

\* What one thread does to the one shot and the monitor leaves the others right.
LEMMA OneShotOthers ==
    ASSUME Following, NEW t \in Threads, Begin(t) \/ Continue(t), NEW u \in Threads, u # t
    PROVE  OneShotRight(u)'
<1> USE DEF IInv, Following
<1>1. at'[u] = at[u] /\ why'[u] = why[u] /\ call'[u] = call[u]
  BY OthersStay DEF Stays
<1>2. OneShotRight(u) /\ OneShotRight(t) /\ u # NoOne
  BY DlMonitorAssumption
<1>3. /\ "oneshot" \in inited => "oneshot" \in inited'
      /\ held["oneshot"] = u /\ "oneshot" \notin inited =>
            held'["oneshot"] = u /\ "oneshot" \notin inited'
  <2>1. CASE Plain
    BY <2>1 DEF Plain
  <2>2. CASE OneShot(t)
    BY <1>2, <2>2, OneShotEffect
  <2>3. CASE ApplyTask(t)
    <3>1. at[t] = "apply"
      BY <2>3, ApplyEffect
    <3>2. why[t] = "oneshot" => held["oneshot"] = t
      BY <1>2, <3>1 DEF OneShotRight
    <3> QED BY <2>3, <3>2, ApplyEffect
  <2>4. ASSUME NEW good \in BOOLEAN, StartDone(t, good)
        PROVE  held'["oneshot"] = held["oneshot"] /\ ("oneshot" \in inited' <=> "oneshot" \in inited)
    BY <2>4, StartDoneEffect
  <2> QED BY <2>1, <2>2, <2>3, <2>4, PlainSteps
<1>4. at[u] = "monitored" => hooked' = hooked
  <2> SUFFICES ASSUME at[u] = "monitored" PROVE hooked' = hooked
    OBVIOUS
  <2>1. held["monitor"] = u
    BY DEF Starts
  <2>2. CASE ApplyTask(t)
    <3>1. at[t] = "apply"
      BY <2>2, ApplyEffect
    <3>2. task[t] \in Tasks \cup Range(Monitored)
      BY <3>1 DEF HasTask, Shape
    <3>3. task[t] \notin Range(Monitored)
      BY <2>1 DEF Starts
    <3> QED BY <2>2, <3>2, <3>3, ApplyEffect
  <2>3. ~\E good \in BOOLEAN : StartDone(t, good)
    BY <2>1, StartDoneEffect
  <2>4. CASE OneShot(t)
    BY <2>4, OneShotEffect
  <2> QED BY <2>2, <2>3, <2>4, PlainSteps DEF Plain
<1>5. at[u] = "monitored" => Unhooked' = Unhooked
  BY <1>4 DEF Unhooked
<1> QED BY <1>1, <1>2, <1>3, <1>5 DEF OneShotRight, RefreshFor, At

\* Who knows that the monitor has started, and what it has hooked.
LEMMA OneShotFirstOk ==
    ASSUME Following, NEW t \in Threads, Begin(t) \/ Continue(t)
    PROVE  /\ ("manager" \in ok => "monitor" \in ok)'
           /\ ("monitor" \in ok \/ hooked # {} => "oneshot" \in inited)'
<1> USE DEF IInv, Following
<1>1. "oneshot" \in inited => "oneshot" \in inited'
  <2>1. ASSUME NEW good \in BOOLEAN, StartDone(t, good) PROVE "oneshot" \in inited => "oneshot" \in inited'
    BY <2>1, StartDoneEffect
  <2>2. CASE OneShot(t)
    BY <2>2, OneShotEffect
  <2>3. CASE ApplyTask(t)
    BY <2>3, ApplyEffect
  <2> QED BY <2>1, <2>2, <2>3, PlainSteps DEF Plain
<1>2. ("manager" \in ok' => "monitor" \in ok') /\ ("monitor" \in ok' => "oneshot" \in inited')
  <2>1. CASE MonitorKept \/ InitManager(t) \/ LockMonitor(t)
    <3>1. ok' = ok
      BY <2>1 DEF MonitorKept, InitManager, LockMonitor
    <3> QED BY <1>1, <3>1 DEF OneShotFirst
  <2>2. CASE InitMonitor(t) \/ MarkMonitor(t)
    <3>1. ok' = ok \/ ("monitor" \in ok /\ ok' = ok \cup {"manager"})
      BY <2>2 DEF InitMonitor, MarkMonitor, Latched
    <3> QED BY <1>1, <3>1 DEF OneShotFirst
  <2>3. ASSUME NEW good \in BOOLEAN, StartDone(t, good)
        PROVE  ("manager" \in ok' => "monitor" \in ok') /\ ("monitor" \in ok' => "oneshot" \in inited')
    <3>1. good => hooked # {}
      BY <2>3, StartDoneEffect, AllMonitored
    <3>2. CASE good
      BY <1>1, <2>3, <3>1, <3>2, StartDoneEffect DEF OneShotFirst
    <3>3. CASE ~good
      BY <1>1, <2>3, <3>3, StartDoneEffect DEF OneShotFirst
    <3> QED BY <3>2, <3>3
  <2> QED BY <2>1, <2>2, <2>3, MonitorSteps DEF MonitorStep
<1>3. hooked' # {} => "oneshot" \in inited'
  <2>1. CASE Plain
    BY <2>1 DEF Plain, OneShotFirst
  <2>2. CASE OneShot(t)
    BY <2>2, OneShotEffect DEF OneShotFirst
  <2>3. CASE ApplyTask(t)
    <3>1. at[t] = "apply"
      BY <2>3, ApplyEffect
    <3>2. OneShotRight(t)
      OBVIOUS
    <3>3. why[t] = "oneshot" \/ "oneshot" \in inited
      BY <3>1, <3>2 DEF OneShotRight
    <3> QED BY <2>3, <3>3, ApplyEffect
  <2>4. ASSUME NEW good \in BOOLEAN, StartDone(t, good) PROVE hooked' # {} => "oneshot" \in inited'
    BY <2>4, StartDoneEffect DEF OneShotFirst
  <2> QED BY <2>1, <2>2, <2>3, <2>4, PlainSteps
<1> QED BY <1>2, <1>3

\* A step that changes nothing of what tasks and ELFs are to be brought together.
FollowKept(t) ==
    /\ UNCHANGED <<mapped, maps, cache, noticed, dropped, applied>>
    /\ listed' \ refused' \subseteq listed \ refused
    /\ call[t] \in listed' \ refused' => call'[t] = call[t]
    /\ at'[t] # "apply"
    /\ At(t, "posting") => elfs[t] = {}
    /\ RefreshFor(t, {"dlopen"}) => RefreshFor(t, {"dlopen"})' /\ opening'[t] = opening[t]
    /\ opening'[t] = opening[t] \/ (opening[t] # <<>> /\ opening' = Popped(t))

FollowStep(t) ==
    \/ FollowKept(t)
    \/ \E l \in Libs : Open(t, l) \/ CtorOpen(t, l) \/ CloseUnseen(t, l)
    \/ \E k \in Tasks : HookCall(t, k)
    \/ Unmap(t) \/ AfterOpen(t) \/ Iterate(t) \/ PostNewElf(t) \/ CopyElfs(t) \/ ApplyTask(t)

\* An answer takes a hook call back only if it refuses the task.
LEMMA AnswerKeeps ==
    ASSUME IInv, NEW t \in Threads, NEW good, Answer(t, good)
    PROVE  /\ listed \ refused' \subseteq listed \ refused
           /\ call[t] \in listed \ refused' => call'[t] = call[t]
           /\ at'[t] # "apply"
<1>1. CASE good
  BY <1>1 DEF IInv, Shape, Answer, Goto
<1>2. CASE ~good
  BY <1>2 DEF IInv, Shape, Answer, HookOver, Goto
<1> QED BY <1>1, <1>2

\* The same of the monitor's answer.
LEMMA MonitorAnswerKeeps ==
    ASSUME IInv, NEW t \in Threads, NEW good, MonitorAnswer(t, good)
    PROVE  /\ listed \ refused' \subseteq listed \ refused
           /\ call[t] \in listed \ refused' => call'[t] = call[t]
           /\ at'[t] # "apply"
<1>1. CASE call[t] = NoOne
  <2>1. call[t] \notin listed
    BY <1>1, DlMonitorAssumption DEF IInv, Shape
  <2> QED BY <1>1, <2>1 DEF IInv, Shape, MonitorAnswer, HookOver, Goto
<1>2. CASE call[t] # NoOne
  BY <1>2, AnswerKeeps DEF MonitorAnswer
<1> QED BY <1>1, <1>2

\* A step from a place at which no ELF is posted or refreshed for a dlopen.
LEMMA KeptFrom ==
    ASSUME NEW t,
           UNCHANGED <<mapped, maps, cache, noticed, dropped, applied, listed>>,
           listed \ refused' \subseteq listed \ refused,
           call[t] \in listed \ refused' => call'[t] = call[t],
           at'[t] # "apply",
           at[t] \notin {"posting", "read", "refresh", "iterate"},
           opening' = opening
    PROVE  FollowKept(t)
BY DEF FollowKept, RefreshFor, At

\* Every step is one of these.
LEMMA FollowSteps ==
    ASSUME IInv, NEW t \in Threads, Begin(t) \/ Continue(t)
    PROVE  FollowStep(t)
<1> USE DEF IInv
<1>1. ASSUME NEW l \in Libs, BeginClose(t, l) PROVE FollowKept(t)
  BY <1>1, Goes, KeptFrom DEF BeginClose, MayClose, At, elfVars, taskVars
<1>2. ASSUME AddCallback(t) PROVE FollowKept(t)
  BY <1>2, Goes, KeptFrom DEF AddCallback, At, elfVars, taskVars, callVars
<1>3. ASSUME LinkerReturn(t) PROVE FollowKept(t)
  BY <1>3, Goes, KeptFrom DEF LinkerReturn, At, elfVars, taskVars, callVars
<1>4. ASSUME LockClose(t) PROVE FollowKept(t)
  BY <1>4, Goes, KeptFrom DEF LockClose, At, elfVars, taskVars, callVars
<1>5. ASSUME Read(t) PROVE FollowKept(t)
  <2>1. at[t] = "read" /\ at'[t] = IF why[t] = "hook" THEN "copy" ELSE "refresh"
    BY <1>5, Goes DEF Read, At
  <2> QED BY <1>5, <2>1 DEF Read, FollowKept, RefreshFor, At, elfVars, taskVars, callVars
<1>6. ASSUME BeginRefresh(t) PROVE FollowKept(t)
  <2>1. at[t] = "refresh" /\ at'[t] = "iterate"
    BY <1>6, Goes DEF BeginRefresh, At
  <2> QED BY <1>6, <2>1 DEF BeginRefresh, FollowKept, RefreshFor, At, elfVars, taskVars, callVars
<1>7. ASSUME PostDone(t) PROVE FollowKept(t)
  <2>1. at[t] = "posting" /\ at'[t] \in {"idle", "ctor"}
    BY <1>7, Goes DEF PostDone, Outer, At
  <2>2. opening[t] # <<>>
    BY <2>1 DEF InLinker, At
  <2> QED BY <1>7, <2>1, <2>2 DEF PostDone, FollowKept, RefreshFor, At, elfVars, taskVars
<1>8. ASSUME BeginHook(t) PROVE FollowKept(t)
  <2>1. at[t] = "hook" /\ at'[t] # "apply"
    BY <1>8, Goes DEF BeginHook, At
  <2> QED BY <1>8, <2>1, KeptFrom DEF BeginHook, elfVars, taskVars
<1>9. ASSUME OneShot(t) PROVE FollowKept(t)
  BY <1>9, Goes, KeptFrom DEF OneShot, At, elfVars, taskVars
<1>10. ASSUME InitManager(t) PROVE FollowKept(t)
  <2>1. at[t] = "manager" /\ UNCHANGED <<mapped, maps, cache, noticed, dropped, applied, listed, opening>>
    BY <1>10 DEF InitManager, At, elfVars
  <2>2. CASE "manager" \in inited
    <3>1. Answer(t, "manager" \in ok)
      BY <1>10, <2>2 DEF InitManager
    <3> QED BY <2>1, <3>1, AnswerKeeps, KeptFrom
  <2>3. CASE "manager" \notin inited
    <3>1. UNCHANGED <<call, refused>> /\ at'[t] = "monitor"
      BY <1>10, <2>3, Goes DEF InitManager
    <3> QED BY <2>1, <3>1, KeptFrom
  <2> QED BY <2>2, <2>3
<1>11. ASSUME InitMonitor(t) PROVE FollowKept(t)
  <2>1. at[t] = "monitor" /\ UNCHANGED <<mapped, maps, cache, noticed, dropped, applied, listed, opening>>
    BY <1>11 DEF InitMonitor, At, elfVars
  <2>2. CASE "monitor" \in inited
    <3>1. MonitorAnswer(t, "monitor" \in ok)
      BY <1>11, <2>2 DEF InitMonitor
    <3> QED BY <2>1, <3>1, MonitorAnswerKeeps, KeptFrom
  <2>3. CASE "monitor" \notin inited
    <3>1. UNCHANGED <<call, refused>> /\ at'[t] = "starting"
      BY <1>11, <2>3, Goes DEF InitMonitor
    <3> QED BY <2>1, <3>1, KeptFrom
  <2> QED BY <2>2, <2>3
<1>12. ASSUME LockMonitor(t) PROVE FollowKept(t)
  BY <1>12, Goes, KeptFrom DEF LockMonitor, At, elfVars, taskVars, callVars
<1>13. ASSUME MarkMonitor(t) PROVE FollowKept(t)
  <2>1. at[t] = "locked" /\ UNCHANGED <<mapped, maps, cache, noticed, dropped, applied, listed, opening>>
    BY <1>13 DEF MarkMonitor, At, elfVars
  <2>2. CASE "monitor" \in inited
    <3>1. MonitorAnswer(t, "monitor" \in ok)
      BY <1>13, <2>2 DEF MarkMonitor
    <3> QED BY <2>1, <3>1, MonitorAnswerKeeps, KeptFrom
  <2>3. CASE "monitor" \notin inited
    <3>1. UNCHANGED <<call, refused>> /\ at'[t] = "monitored"
      BY <1>13, <2>3, Goes DEF MarkMonitor
    <3> QED BY <2>1, <3>1, KeptFrom
  <2> QED BY <2>2, <2>3
<1>14. ASSUME HookNext(t) PROVE FollowKept(t)
  BY <1>14, Goes, KeptFrom DEF HookNext, At, elfVars, taskVars
<1>15. ASSUME NEW good \in BOOLEAN, StartDone(t, good) PROVE FollowKept(t)
  <2>1. at[t] = "monitored" /\ UNCHANGED <<mapped, maps, cache, noticed, dropped, applied, listed, opening>>
    BY <1>15 DEF StartDone, At, elfVars
  <2>2. MonitorAnswer(t, good)
    BY <1>15 DEF StartDone
  <2> QED BY <2>1, <2>2, MonitorAnswerKeeps, KeptFrom
<1>16. ASSUME NoRefresh(t) PROVE FollowKept(t)
  <2>1. at[t] = "refresh" /\ why[t] = "dlclose" /\ at'[t] = "idle"
    BY <1>16, NoRefreshEffect, LockNames
  <2>2. UNCHANGED <<mapped, maps, cache, noticed, dropped, applied, listed, refused, call, opening>>
    BY <1>16, NoRefreshEffect, LockNames
  <2> QED BY <2>1, <2>2 DEF FollowKept, RefreshFor, At
<1> QED BY <1>1, <1>2, <1>3, <1>4, <1>5, <1>6, <1>7, <1>8, <1>9, <1>10, <1>11, <1>12, <1>13,
           <1>14, <1>15, <1>16 DEF Begin, Continue, FollowStep

\* Leaving the innermost call keeps the numbers of the others right.
LEMMA FrontNumbered ==
    ASSUME NEW s \in Seq(OpenCalls), s # <<>>, \A i \in 1 .. Len(s) : Numbered(s[i].elf)
    PROVE  /\ \A i \in 1 .. Len(Front(s)) : Numbered(Front(s)[i].elf)
           /\ Numbered(Last(s).elf)
<1>1. Len(s) \in Nat \ {0}
  BY FrontCalls
<1>2. \A i \in 1 .. Len(s) - 1 : s[i] \in OpenCalls
  BY <1>1, ElementOfSeq
<1>3. /\ Len(Front(s)) = IF 1 <= Len(s) - 1 THEN (Len(s) - 1) - 1 + 1 ELSE 0
      /\ \A i \in 1 .. ((Len(s) - 1) - 1 + 1) : Front(s)[i] = s[1 + i - 1]
  BY <1>1, <1>2, SubSeqProperties DEF Front
<1>4. ASSUME NEW i \in 1 .. Len(Front(s)) PROVE Front(s)[i] = s[i] /\ i \in 1 .. Len(s)
  <2>1. i \in Nat /\ 1 <= i /\ i <= Len(s) - 1
    BY <1>1, <1>3, <1>4
  <2>2. i \in 1 .. ((Len(s) - 1) - 1 + 1) /\ 1 + i - 1 = i /\ i \in 1 .. Len(s)
    BY <1>1, <2>1
  <2> QED BY <1>3, <2>2
<1>5. Len(s) \in 1 .. Len(s)
  BY <1>1
<1> QED BY <1>4, <1>5 DEF Last

\* A step that maps nothing new.
LEMMA OpenedKept ==
    ASSUME Following, NEW t \in Threads, Begin(t) \/ Continue(t), maps' = maps,
           opening'[t] = opening[t] \/ (opening[t] # <<>> /\ opening' = Popped(t)),
           NEW u \in Threads
    PROVE  OpenedNumbered(u)'
<1> USE DEF IInv, Following
<1>1. CASE opening'[u] = opening[u]
  BY <1>1 DEF OpenedNumbered, Numbered
<1>2. CASE opening'[u] # opening[u]
  <2>1. u = t /\ opening[t] # <<>> /\ opening' = Popped(t)
    BY <1>2, OthersStay DEF Stays
  <2>2. opening[t] \in Seq(OpenCalls)
    BY DEF Shape
  <2>3. opening'[t] = Front(opening[t])
    BY <2>1 DEF Popped, Shape
  <2>4. \A i \in 1 .. Len(Front(opening[t])) : Numbered(Front(opening[t])[i].elf)
    BY <2>1, <2>2, FrontNumbered DEF OpenedNumbered
  <2> QED BY <2>1, <2>3, <2>4 DEF OpenedNumbered, Numbered
<1> QED BY <1>1, <1>2

\* Numbers only grow.
LEMMA NumbersGrow ==
    ASSUME Shape, NEW t \in Threads, NEW l \in Libs, Map(t, l), NEW e \in Elfs, Numbered(e)
    PROVE  Numbered(e)'
<1>1. e[1] \in Libs /\ e[2] \in Nat
  BY DEF Elfs
<1>2. maps'[e[1]] = IF e[1] = l THEN maps[l] + 1 ELSE maps[e[1]]
  BY <1>1, MapEffect
<1>3. maps[e[1]] \in Nat /\ maps[l] \in Nat
  BY <1>1 DEF Shape
<1> QED BY <1>1, <1>2, <1>3 DEF Numbered

\* The call of a dlopen that maps a library.
LEMMA OpenedMap ==
    ASSUME Following, NEW t \in Threads, NEW l \in Libs, Map(t, l), NEW u \in Threads
    PROVE  OpenedNumbered(u)'
<1> USE DEF IInv, Following
<1>1. opening[u] \in Seq(OpenCalls) /\ opening[t] \in Seq(OpenCalls)
  BY DEF Shape
<1>2. \A i \in 1 .. Len(opening[u]) : opening[u][i].elf \in Elfs /\ Numbered(opening[u][i].elf)
  <2>1. \A i \in 1 .. Len(opening[u]) : opening[u][i] \in OpenCalls
    BY <1>1, ElementOfSeq
  <2>2. \A i \in 1 .. Len(opening[u]) : opening[u][i].elf \in Elfs
    BY <2>1 DEF OpenCalls
  <2> QED BY <2>2 DEF OpenedNumbered
<1>3. ASSUME NEW e \in Elfs, Numbered(e) PROVE e[2] <= maps'[e[1]]
  BY <1>3, NumbersGrow DEF Numbered
<1>4. CASE u # t
  <2>1. opening'[u] = opening[u]
    BY <1>4, MapLinker
  <2> QED BY <1>2, <1>3, <2>1 DEF OpenedNumbered, Numbered
<1>5. CASE u = t
  <2> DEFINE c == [elf |-> <<l, maps[l] + 1>>, proxied |-> "dlopen" \in hooked]
  <2>1. opening'[u] = Append(opening[u], c)
    BY <1>5 DEF Map, Shape
  <2>2. c \in OpenCalls /\ c.elf = <<l, maps[l] + 1>>
    BY DEF Shape, Elfs, OpenCalls
  <2>3. maps'[l] = maps[l] + 1 /\ maps[l] \in Nat
    BY MapEffect DEF Shape
  <2> HIDE DEF c
  <2>4. /\ Len(opening'[u]) = Len(opening[u]) + 1
        /\ \A i \in 1 .. Len(opening[u]) : opening'[u][i] = opening[u][i]
        /\ opening'[u][Len(opening[u]) + 1] = c
    BY <1>1, <2>1, <2>2, AppendProperties
  <2>5. Len(opening[u]) \in Nat
    BY <1>1
  <2>6. ASSUME NEW i \in 1 .. Len(opening[u]) + 1
        PROVE  opening'[u][i].elf[2] <= maps'[opening'[u][i].elf[1]]
    <3>1. CASE i \in 1 .. Len(opening[u])
      BY <1>2, <1>3, <2>4, <3>1
    <3>2. CASE i = Len(opening[u]) + 1
      <4>1. opening'[u][i].elf = <<l, maps[l] + 1>>
        BY <2>2, <2>4, <3>2
      <4>2. PICK e : e = opening'[u][i].elf
        OBVIOUS
      <4>3. e[1] = l /\ e[2] = maps[l] + 1
        BY <4>1, <4>2
      <4>4. e[2] <= maps'[e[1]]
        BY <2>3, <4>3
      <4> QED BY <4>2, <4>4
    <3> QED BY <2>5, <3>1, <3>2
  <2> QED BY <2>4, <2>6 DEF OpenedNumbered, Numbered
<1> QED BY <1>4, <1>5

\* Every step keeps the numbers of the mappings in progress.
LEMMA OpenedNext ==
    ASSUME Following, NEW t \in Threads, Begin(t) \/ Continue(t), NEW u \in Threads
    PROVE  OpenedNumbered(u)'
<1> USE DEF IInv, Following
<1>1. ASSUME NEW l \in Libs, Open(t, l) \/ CtorOpen(t, l) PROVE OpenedNumbered(u)'
  BY <1>1, MapFresh, OpenedMap
<1>2. CASE maps' = maps /\ (opening'[t] = opening[t] \/ (opening[t] # <<>> /\ opening' = Popped(t)))
  BY <1>2, OpenedKept
<1>3. CASE FollowKept(t)
  BY <1>2, <1>3 DEF FollowKept
<1>4. ASSUME NEW l \in Libs, CloseUnseen(t, l) PROVE OpenedNumbered(u)'
  BY <1>2, <1>4 DEF CloseUnseen, callVars
<1>5. ASSUME NEW k \in Tasks, HookCall(t, k) PROVE OpenedNumbered(u)'
  BY <1>2, <1>5 DEF HookCall, elfVars
<1>6. CASE Unmap(t)
  BY <1>2, <1>6 DEF Unmap
<1>7. CASE AfterOpen(t)
  <2>1. maps' = maps /\ (opening' = opening \/ opening' = Popped(t)) /\ at[t] = "opened"
    BY <1>7 DEF AfterOpen, At
  <2>2. opening[t] # <<>>
    BY <2>1 DEF InLinker, At
  <2> QED BY <1>2, <2>1, <2>2
<1>8. CASE Iterate(t)
  BY <1>2, <1>8 DEF Iterate
<1>9. CASE PostNewElf(t)
  BY <1>2, <1>9 DEF PostNewElf, elfVars
<1>10. CASE CopyElfs(t)
  BY <1>2, <1>10 DEF CopyElfs, elfVars
<1>11. CASE ApplyTask(t)
  BY <1>2, <1>11 DEF ApplyTask, elfVars
<1> QED BY <1>1, <1>3, <1>4, <1>5, <1>6, <1>7, <1>8, <1>9, <1>10, <1>11, FollowSteps DEF FollowStep

\* When a library is mapped, and when the cache has an ELF of it.
LEMMA Membership ==
    ASSUME NEW e \in Elfs
    PROVE  /\ e \in Mapped <=> mapped[e[1]] = e[2]
           /\ e \in Mapped' <=> mapped'[e[1]] = e[2]
           /\ e \in Cached <=> cache[e[1]] = e[2]
           /\ e \in Cached' <=> cache'[e[1]] = e[2]
<1>1. PICK l \in Libs, n \in Nat \ {0} : e = <<l, n>>
  BY DEF Elfs
<1>2. e[1] = l /\ e[2] = n /\ n # 0
  BY <1>1
<1>3. e \in Mapped <=> mapped[l] = n
  BY <1>1, <1>2 DEF Mapped, Elf
<1>4. e \in Mapped' <=> mapped'[l] = n
  BY <1>1, <1>2 DEF Mapped, Elf
<1>5. e \in Cached <=> cache[l] = n
  BY <1>1, <1>2 DEF Cached
<1>6. e \in Cached' <=> cache'[l] = n
  BY <1>1, <1>2 DEF Cached
<1> QED BY <1>2, <1>3, <1>4, <1>5, <1>6

\* What is mapped anew was never noticed and its ELF is not in the cache.
LEMMA MapFollow ==
    ASSUME Following, NEW t \in Threads, NEW l \in Libs, Open(t, l) \/ CtorOpen(t, l), NEW e \in Elfs
    PROVE  /\ UNCHANGED <<noticed, dropped, applied, listed, refused, call>>
           /\ at[t] \in {"idle", "ctor"} /\ at'[t] = "ctor"
           /\ e \in Cached' <=> e \in Cached
           /\ e \in Mapped' /\ e \notin Mapped => e \notin noticed /\ e \notin Cached
<1> USE DEF IInv, Following
<1>1. Map(t, l) /\ mapped[l] = 0
  BY MapFresh
<1>2. UNCHANGED <<noticed, dropped, applied, listed, refused, call>> /\ at'[t] = "ctor"
  BY <1>1, Goes DEF Map, taskVars
<1>3. at[t] \in {"idle", "ctor"}
  BY DEF Open, CtorOpen, At
<1>4. e \in Cached' <=> e \in Cached
  BY <1>1, Membership, MapEffect
<1>5. ASSUME e \in Mapped', e \notin Mapped PROVE e[1] = l /\ e[2] = maps[l] + 1 /\ maps[l] \in Nat
  <2>1. e[1] \in Libs /\ mapped'[e[1]] = e[2] /\ mapped[e[1]] # e[2]
    BY <1>5, Membership DEF Elfs
  <2>2. mapped'[e[1]] = IF e[1] = l THEN maps[l] + 1 ELSE mapped[e[1]]
    BY <1>1, <2>1, MapEffect
  <2> QED BY <2>1, <2>2 DEF Shape
<1>6. ASSUME e \in Mapped', e \notin Mapped PROVE e \notin noticed /\ e \notin Cached
  <2>1. ~(e[2] <= maps[e[1]])
    BY <1>5, <1>6
  <2>2. cache[e[1]] # e[2]
    BY <1>5, <1>6, <2>1 DEF Counted
  <2> QED BY <2>1, <2>2, Membership DEF NoticedNumbered, Numbered
<1> QED BY <1>2, <1>3, <1>4, <1>6

\* What is unmapped takes nothing of the other libraries away.
LEMMA UnmapFollow ==
    ASSUME Shape, NEW l \in Libs, Unmapped(l), NEW e \in Elfs, e \in Mapped'
    PROVE  /\ e \in Mapped
           /\ e \in dropped => e \in dropped'
           /\ \A k : <<k, e>> \in applied => <<k, e>> \in applied'
           /\ noticed' \subseteq noticed
<1>1. e[1] \in Libs /\ e[2] # 0 /\ mapped'[e[1]] = e[2]
  BY Membership DEF Elfs
<1>2. e[1] # l /\ mapped[e[1]] = e[2]
  BY <1>1 DEF Unmapped, Shape
<1>3. e # Elf(l)
  BY <1>2 DEF Elf
<1>4. \A k : <<k, e>>[2] = e
  OBVIOUS
<1> QED BY <1>2, <1>3, <1>4, Membership DEF Unmapped

\* The refresh finds every library, and puts those that are new into the cache,
\* where an ELF that is out of date is in the way.
LEMMA IterateFollow ==
    ASSUME IInv, NEW t \in Threads, Iterate(t), NEW e \in Elfs, e \in Mapped'
    PROVE  /\ e \in Mapped
           /\ e \in Cached' \/ OutOfDate(e[1])'
           /\ e \in Cached' => e \in Cached \/ e \in NewElfs
<1> USE DEF IInv
<1>1. e[1] \in Libs /\ e[2] # 0 /\ e = <<e[1], e[2]>>
  BY DEF Elfs
<1>2. mapped' = mapped /\ unseen' = unseen
  BY IterateEffect
<1>3. mapped[e[1]] = e[2]
  BY <1>2, Membership
<1>4. CASE cache[e[1]] = 0
  <2>1. e \in NewElfs
    BY <1>1, <1>3, <1>4 DEF NewElfs, Elf
  <2>2. cache'[e[1]] = e[2]
    BY <1>1, <1>3, <1>4, IterateEffect
  <2> QED BY <1>3, <2>1, <2>2, Membership
<1>5. CASE cache[e[1]] # 0
  <2>1. cache'[e[1]] = cache[e[1]]
    BY <1>1, <1>3, <1>5, IterateEffect
  <2>2. cache[e[1]] = e[2] \/ OutOfDate(e[1])
    BY <1>1, <1>3, <1>5 DEF UpToDate
  <2> QED BY <1>2, <1>3, <2>1, <2>2, Membership DEF OutOfDate
<1> QED BY <1>4, <1>5

\* What was noticed is numbered.
LEMMA NoticedNumberedNext ==
    ASSUME Following, NEW t \in Threads, Begin(t) \/ Continue(t)
    PROVE  NoticedNumbered'
<1> USE DEF IInv, Following
<1>1. ASSUME NEW l \in Libs, Open(t, l) \/ CtorOpen(t, l) PROVE NoticedNumbered'
  <2>1. Map(t, l) /\ noticed' = noticed
    BY <1>1, MapFresh DEF Map
  <2>2. ASSUME NEW e \in noticed PROVE e[2] <= maps'[e[1]]
    <3>1. e \in Elfs /\ Numbered(e)
      BY DEF Shape, NoticedNumbered
    <3> QED BY <2>1, <3>1, NumbersGrow DEF Numbered
  <2> QED BY <2>1, <2>2 DEF NoticedNumbered, Numbered
<1>2. CASE noticed' \subseteq noticed /\ maps' = maps
  BY <1>2 DEF NoticedNumbered, Numbered
<1>3. CASE FollowKept(t)
  BY <1>2, <1>3 DEF FollowKept
<1>4. ASSUME NEW l \in Libs, CloseUnseen(t, l) PROVE NoticedNumbered'
  BY <1>2, <1>4 DEF CloseUnseen, Unmapped
<1>5. ASSUME NEW k \in Tasks, HookCall(t, k) PROVE NoticedNumbered'
  BY <1>2, <1>5 DEF HookCall, elfVars
<1>6. CASE Unmap(t)
  BY <1>2, <1>6 DEF Unmap, Unmapped
<1>7. CASE AfterOpen(t)
  <2>1. /\ maps' = maps /\ at[t] = "opened"
        /\ noticed' \subseteq noticed \cup {Last(opening[t]).elf}
    BY <1>7 DEF AfterOpen, At
  <2>2. opening[t] # <<>> /\ opening[t] \in Seq(OpenCalls) /\ OpenedNumbered(t)
    BY <2>1 DEF InLinker, At, Shape
  <2>3. Numbered(Last(opening[t]).elf)
    BY <2>2, FrontNumbered DEF OpenedNumbered
  <2>4. \A f \in noticed' : Numbered(f)
    BY <2>1, <2>3 DEF NoticedNumbered
  <2> QED BY <2>1, <2>4 DEF NoticedNumbered, Numbered
<1>8. CASE Iterate(t)
  BY <1>2, <1>8 DEF Iterate
<1>9. CASE PostNewElf(t)
  BY <1>2, <1>9 DEF PostNewElf, elfVars
<1>10. CASE CopyElfs(t)
  BY <1>2, <1>10 DEF CopyElfs, elfVars
<1>11. CASE ApplyTask(t)
  BY <1>2, <1>11 DEF ApplyTask, elfVars
<1> QED BY <1>1, <1>3, <1>4, <1>5, <1>6, <1>7, <1>8, <1>9, <1>10, <1>11, FollowSteps DEF FollowStep

\* A hook call that is still to come to an ELF stays so, unless the thread that
\* makes it takes a step that loses the ELF.
LEMMA AheadStays ==
    ASSUME IInv, NEW t \in Threads, Begin(t) \/ Continue(t), NEW k, NEW e, Ahead(k, e),
           call[t] = k => call'[t] = k /\ (at'[t] = "apply" /\ task'[t] = k => e \in elfs'[t])
    PROVE  Ahead(k, e)'
<1>1. PICK u \in Threads : call[u] = k /\ (At(u, "apply") /\ task[u] = k => e \in elfs[u])
  BY DEF Ahead
<1>2. CASE u = t
  BY <1>1, <1>2 DEF Ahead, At
<1>3. CASE u # t
  <2>1. Stays(u)
    BY <1>3, OthersStay
  <2> QED BY <1>1, <2>1 DEF Ahead, At, Stays
<1> QED BY <1>2, <1>3

\* The same of an ELF that is still to be posted.
LEMMA PostedStays ==
    ASSUME IInv, NEW t \in Threads, Begin(t) \/ Continue(t), NEW e, Posted(e),
           at[t] = "posting" /\ e \in elfs[t] => at'[t] = "posting" /\ e \in elfs'[t]
    PROVE  Posted(e)'
<1>1. PICK u \in Threads : At(u, "posting") /\ e \in elfs[u]
  BY DEF Posted
<1>2. CASE u = t
  BY <1>1, <1>2 DEF Posted, At
<1>3. CASE u # t
  <2>1. Stays(u)
    BY <1>3, OthersStay
  <2> QED BY <1>1, <2>1 DEF Posted, At, Stays
<1> QED BY <1>2, <1>3

\* The same of an ELF whose refresh is still to come.
LEMMA ComingStays ==
    ASSUME IInv, NEW t \in Threads, Begin(t) \/ Continue(t), NEW e, Coming(e),
           RefreshFor(t, {"dlopen"}) => RefreshFor(t, {"dlopen"})' /\ opening'[t] = opening[t]
    PROVE  Coming(e)'
<1>1. PICK u \in Threads : RefreshFor(u, {"dlopen"}) /\ Last(opening[u]).elf = e
  BY DEF Coming
<1>2. CASE u = t
  BY <1>1, <1>2 DEF Coming, RefreshFor
<1>3. CASE u # t
  <2>1. Stays(u)
    BY <1>3, OthersStay
  <2> QED BY <1>1, <2>1 DEF Coming, RefreshFor, Stays
<1> QED BY <1>2, <1>3

\* Every step keeps the ELFs followed that were noticed.
LEMMA NoticedFollowedNext ==
    ASSUME Following, NEW t \in Threads, Begin(t) \/ Continue(t)
    PROVE  NoticedFollowed'
<1> USE DEF IInv, Following
<1> SUFFICES ASSUME NEW e \in Elfs, e \in Mapped', e \in noticed'
             PROVE  e \in Cached' \/ Coming(e)' \/ OutOfDate(e[1])'
  <2>1. noticed' \subseteq Elfs
    BY ShapeNext DEF Next, Shape
  <2> QED BY <2>1 DEF NoticedFollowed
<1> DEFINE Goal == e \in Cached' \/ Coming(e)' \/ OutOfDate(e[1])'
<1>1. ASSUME e \in Mapped, e \in noticed, cache' = cache,
             RefreshFor(t, {"dlopen"}) => RefreshFor(t, {"dlopen"})' /\ opening'[t] = opening[t]
      PROVE  Goal
  <2>1. CASE e \in Cached
    BY <1>1, <2>1, Membership
  <2>2. CASE Coming(e)
    BY <1>1, <2>2, ComingStays
  <2>3. CASE OutOfDate(e[1])
    BY <1>1, <2>3, UnseenGrows DEF OutOfDate
  <2> QED BY <1>1, <2>1, <2>2, <2>3 DEF NoticedFollowed
<1>2. ASSUME mapped' = mapped PROVE e \in Mapped
  BY <1>2, Membership
<1>3. CASE FollowKept(t)
  BY <1>1, <1>2, <1>3 DEF FollowKept
<1>4. ASSUME NEW l \in Libs, Open(t, l) \/ CtorOpen(t, l) PROVE Goal
  <2>1. noticed' = noticed /\ at[t] \in {"idle", "ctor"}
    BY <1>4, MapFollow
  <2>2. e \in Mapped
    BY <1>4, <2>1, MapFollow
  <2>3. cache' = cache
    BY <1>4, MapFresh DEF Map
  <2> QED BY <1>1, <2>1, <2>2, <2>3 DEF RefreshFor
<1>5. ASSUME NEW l \in Libs, CloseUnseen(t, l) PROVE Goal
  <2>1. Unmapped(l) /\ cache' = cache /\ at[t] = "idle"
    BY <1>5 DEF CloseUnseen, MayClose, At
  <2>2. e \in Mapped /\ e \in noticed
    BY <2>1, UnmapFollow
  <2> QED BY <1>1, <2>1, <2>2 DEF RefreshFor
<1>6. CASE Unmap(t)
  <2>1. PICK l \in Libs : Unmapped(l) /\ cache' = cache /\ at[t] = "closing"
    BY <1>6 DEF Unmap, At
  <2>2. e \in Mapped /\ e \in noticed
    BY <2>1, UnmapFollow
  <2> QED BY <1>1, <2>1, <2>2 DEF RefreshFor
<1>7. ASSUME NEW k \in Tasks, HookCall(t, k) PROVE Goal
  <2>1. UNCHANGED <<mapped, cache, noticed>> /\ at[t] = "idle"
    BY <1>7 DEF HookCall, elfVars, At
  <2> QED BY <1>1, <1>2, <2>1 DEF RefreshFor
<1>8. CASE AfterOpen(t)
  <2>1. UNCHANGED <<mapped, cache>> /\ at[t] = "opened"
    BY <1>8 DEF AfterOpen, At
  <2>2. CASE e \in noticed
    BY <1>1, <1>2, <2>1, <2>2 DEF RefreshFor
  <2>3. CASE e \notin noticed
    <3>1. e = Last(opening[t]).elf /\ opening' = opening /\ at'[t] = "read" /\ why'[t] = "dlopen"
      BY <1>8, <2>3, Goes DEF AfterOpen, Shape
    <3> QED BY <3>1 DEF Coming, RefreshFor
  <2> QED BY <2>2, <2>3
<1>9. CASE Iterate(t)
  BY <1>9, IterateFollow
<1>10. CASE PostNewElf(t)
  <2>1. UNCHANGED <<mapped, cache, noticed>> /\ at[t] = "posting"
    BY <1>10 DEF PostNewElf, elfVars, At
  <2> QED BY <1>1, <1>2, <2>1 DEF RefreshFor
<1>11. CASE CopyElfs(t)
  <2>1. UNCHANGED <<mapped, cache, noticed>> /\ at[t] = "copy"
    BY <1>11 DEF CopyElfs, elfVars, At
  <2> QED BY <1>1, <1>2, <2>1 DEF RefreshFor
<1>12. CASE ApplyTask(t)
  <2>1. UNCHANGED <<mapped, cache, noticed>> /\ at[t] = "apply"
    BY <1>12 DEF ApplyTask, elfVars, At
  <2> QED BY <1>1, <1>2, <2>1 DEF RefreshFor
<1> QED BY <1>3, <1>4, <1>5, <1>6, <1>7, <1>8, <1>9, <1>10, <1>11, <1>12, FollowSteps DEF FollowStep

\* An ELF that is followed stays so if its tasks do.
LEMMA FollowedStays ==
    ASSUME IInv, NEW t \in Threads, Begin(t) \/ Continue(t), NEW e,
           e \in dropped \/ Posted(e) \/ \A k \in listed \ refused : Reached(k, e),
           e \in dropped => e \in dropped',
           \A k : <<k, e>> \in applied => <<k, e>> \in applied',
           listed' \ refused' \subseteq listed \ refused,
           \A k \in listed' \ refused' : call[t] = k => call'[t] = k,
           at'[t] # "apply",
           at[t] = "posting" => elfs[t] = {}
    PROVE  e \in dropped' \/ Posted(e)' \/ \A k \in listed' \ refused' : Reached(k, e)'
<1>1. CASE e \in dropped
  BY <1>1
<1>2. CASE Posted(e)
  BY <1>2, PostedStays
<1>3. ASSUME \A k \in listed \ refused : Reached(k, e), NEW k \in listed' \ refused' PROVE Reached(k, e)'
  <2>1. CASE <<k, e>> \in applied
    BY <2>1 DEF Reached
  <2>2. CASE Ahead(k, e)
    BY <2>2, AheadStays DEF Reached
  <2> QED BY <1>3, <2>1, <2>2 DEF Reached
<1> QED BY <1>1, <1>2, <1>3

\* Applying a task reaches the ELFs in hand.
LEMMA ApplyFollow ==
    ASSUME Following, NEW t \in Threads, ApplyTask(t), NEW k \in listed \ refused, NEW e \in Elfs,
           Reached(k, e)
    PROVE  Reached(k, e)'
<1> USE DEF IInv, Following
<1>1. at[t] = "apply" /\ Continue(t)
  BY ApplyEffect DEF Continue
<1>2. applied' = applied \cup ({task[t]} \cap Tasks) \X elfs[t]
  BY DEF ApplyTask
<1>3. k \in Tasks
  BY DEF Shape
<1>4. CASE <<k, e>> \in applied
  BY <1>2, <1>4 DEF Reached
<1>5. CASE Ahead(k, e)
  <2>1. PICK u \in Threads : call[u] = k /\ (At(u, "apply") /\ task[u] = k => e \in elfs[u])
    BY <1>5 DEF Ahead
  <2>2. CASE u # t
    <3>1. Stays(u)
      BY <1>1, <2>2, OthersStay
    <3> QED BY <2>1, <3>1 DEF Reached, Ahead, Stays, At
  <2>3. CASE u = t /\ task[t] = k
    BY <1>1, <1>2, <1>3, <2>1, <2>3 DEF Reached, At
  <2>4. CASE u = t /\ task[t] # k
    <3>1. task[t] \in Range(Monitored)
      BY <2>1, <2>4 DEF HasTask
    <3>2. task[t] \notin Tasks
      BY <3>1, DlMonitorAssumption
    <3>3. at'[t] = "monitored" /\ call'[t] = k
      BY <2>1, <2>4, <3>2, ApplyEffect
    <3> QED BY <3>3 DEF Reached, Ahead, At
  <2> QED BY <2>2, <2>3, <2>4
<1> QED BY <1>4, <1>5 DEF Reached

\* While the one shot is being made, the hook calls of all tasks are still to come
\* to every ELF.
LEMMA OneShotAhead ==
    ASSUME Following, NEW t \in Threads, Begin(t) \/ Continue(t),
           at[t] = "iterate", why[t] = "oneshot", call'[t] = call[t], at'[t] # "apply",
           NEW k \in listed \ refused, NEW e
    PROVE  Ahead(k, e)'
<1> USE DEF IInv, Following
<1>1. held["oneshot"] = t /\ "oneshot" \notin inited
  <2>1. OneShotRight(t)
    OBVIOUS
  <2> QED BY <2>1 DEF OneShotRight, RefreshFor
<1>2. PICK u \in Threads : call[u] = k
  BY <1>1 DEF OneShotFirst
<1>3. at[u] # "apply"
  <2>1. OneShotRight(u)
    OBVIOUS
  <2> QED BY <1>1, <2>1 DEF OneShotRight
<1>4. Ahead(k, e)
  BY <1>2, <1>3 DEF Ahead, At
<1> QED BY <1>4, AheadStays

\* Every step keeps the ELFs of the cache followed.
LEMMA CachedFollowedNext ==
    ASSUME Following, NEW t \in Threads, Begin(t) \/ Continue(t)
    PROVE  CachedFollowed'
<1> DEFINE Followed(e) == e \in dropped \/ Posted(e) \/ \A k \in listed \ refused : Reached(k, e)
<1> DEFINE Goal(e) == e \in dropped' \/ Posted(e)' \/ \A k \in listed' \ refused' : Reached(k, e)'
<1> USE DEF IInv, Following
<1> SUFFICES ASSUME NEW e \in Elfs, e \in Mapped', e \in Cached'
             PROVE  Goal(e)
  <2>1. mapped' \in [Libs -> Nat]
    BY ShapeNext DEF Next, Shape
  <2>2. \A l \in Libs : mapped'[l] # 0 => mapped'[l] \in Nat \ {0}
    BY <2>1
  <2>3. Mapped' \subseteq Elfs
    BY <2>2 DEF Mapped, Elfs, Elf
  <2> QED BY <2>3 DEF CachedFollowed
<1>1. e \in Mapped /\ e \in Cached => Followed(e)
  BY DEF CachedFollowed
<1>2. ASSUME mapped' = mapped, cache' = cache PROVE e \in Mapped /\ e \in Cached
  BY <1>2, Membership
<1> HIDE DEF Followed, Goal
<1>3. CASE FollowKept(t)
  <2>1. Followed(e)
    BY <1>1, <1>2, <1>3 DEF FollowKept
  <2> QED BY <1>3, <2>1, FollowedStays DEF Followed, Goal, FollowKept, At
<1>4. ASSUME NEW l \in Libs, Open(t, l) \/ CtorOpen(t, l) PROVE Goal(e)
  <2>1. /\ UNCHANGED <<noticed, dropped, applied, listed, refused, call>>
        /\ at[t] \in {"idle", "ctor"} /\ at'[t] = "ctor"
        /\ e \in Cached /\ e \in Mapped
    BY <1>4, MapFollow
  <2>2. Followed(e)
    BY <1>1, <2>1
  <2> QED BY <2>1, <2>2, FollowedStays DEF Followed, Goal
<1>5. ASSUME NEW l \in Libs, CloseUnseen(t, l) PROVE Goal(e)
  <2>1. /\ at[t] = "idle" /\ at'[t] = "idle" /\ Unmapped(l)
        /\ UNCHANGED <<cache, listed, refused, call>>
    BY <1>5, CloseUnseenEffect DEF CloseUnseen, callVars
  <2>2. /\ e \in Mapped /\ e \in Cached
        /\ e \in dropped => e \in dropped'
        /\ \A k : <<k, e>> \in applied => <<k, e>> \in applied'
    BY <2>1, UnmapFollow, Membership
  <2>3. Followed(e)
    BY <1>1, <2>2
  <2> QED BY <2>1, <2>2, <2>3, FollowedStays DEF Followed, Goal
<1>6. CASE Unmap(t)
  <2>1. /\ at[t] = "closing" /\ at'[t] = "refresh"
        /\ UNCHANGED <<cache, listed, refused, call>>
    BY <1>6, Goes DEF Unmap, At
  <2>2. PICK l \in Libs : Unmapped(l)
    BY <1>6 DEF Unmap
  <2>3. /\ e \in Mapped /\ e \in Cached /\ e \in dropped => e \in dropped'
        /\ \A k : <<k, e>> \in applied => <<k, e>> \in applied'
    BY <2>1, <2>2, UnmapFollow, Membership
  <2>4. e \in Mapped /\ e \in Cached
    BY <2>1, <2>2, UnmapFollow, Membership
  <2>5. Followed(e)
    BY <1>1, <2>4
  <2> QED BY <2>1, <2>3, <2>4, <2>5, FollowedStays DEF Followed, Goal
<1>7. ASSUME NEW k \in Tasks, HookCall(t, k) PROVE Goal(e)
  <2>1. /\ at[t] = "idle" /\ at'[t] = "hook"
        /\ UNCHANGED <<mapped, cache, dropped, applied, refused>>
        /\ listed' = listed \cup {k} /\ call'[t] = k /\ k \notin listed
    BY <1>7, Goes DEF HookCall, At, elfVars, Shape
  <2>2. Followed(e) /\ call[t] \notin Tasks
    BY <1>1, <1>2, <2>1, DlMonitorAssumption DEF HasTask
  <2>3. CASE e \in dropped
    BY <2>1, <2>3 DEF Goal
  <2>4. CASE Posted(e)
    <3>1. Posted(e)'
      BY <2>1, <2>4, PostedStays
    <3> QED BY <3>1 DEF Goal
  <2>5. ASSUME \A j \in listed \ refused : Reached(j, e), NEW j \in listed' \ refused' PROVE Reached(j, e)'
    <3>1. CASE j = k
      BY <2>1, <3>1 DEF Reached, Ahead, At
    <3>2. CASE j # k
      <4>1. j \in listed \ refused /\ j \in Tasks /\ call[t] # j
        BY <2>1, <2>2, <3>2 DEF Shape
      <4>2. Ahead(j, e) => Ahead(j, e)'
        BY <4>1, AheadStays
      <4> QED BY <2>1, <2>5, <4>1, <4>2 DEF Reached
    <3> QED BY <3>1, <3>2
  <2> QED BY <2>2, <2>3, <2>4, <2>5 DEF Followed, Goal
<1>8. CASE AfterOpen(t)
  <2>1. /\ UNCHANGED <<mapped, cache, dropped, applied, listed, refused, call>>
        /\ at[t] = "opened" /\ at'[t] \in {"read", "idle", "ctor"}
    BY <1>8 DEF AfterOpen, At, Goto, Outer, Shape, taskVars
  <2>2. Followed(e)
    BY <1>1, <1>2, <2>1
  <2> QED BY <2>1, <2>2, FollowedStays DEF Followed, Goal
<1>9. CASE Iterate(t)
  <2>1. /\ at[t] = "iterate" /\ at'[t] # "apply" /\ dropped \subseteq dropped'
        /\ UNCHANGED <<applied, listed, refused, call>>
    <3>1. at'[t] # "apply"
      BY <1>9 DEF Iterate, Goto, Shape, HasTask, Whys, At
    <3> QED BY <1>9, <3>1 DEF Iterate, At, taskVars
  <2>2. CASE e \in Cached
    <3>1. Followed(e)
      BY <1>1, <1>9, <2>2, IterateFollow
    <3> QED BY <2>1, <3>1, FollowedStays DEF Followed, Goal
  <2>3. CASE e \notin Cached
    <3>1. e \in NewElfs
      BY <1>9, <2>3, IterateFollow
    <3>2. CASE why[t] = "dlclose"
      BY <1>9, <3>1, <3>2 DEF Iterate, Goal
    <3>3. CASE why[t] = "dlopen"
      <4>1. at'[t] = "posting" /\ elfs'[t] = NewElfs
        BY <1>9, <3>3 DEF Iterate, Goto, Shape
      <4> QED BY <3>1, <4>1 DEF Goal, Posted, At
    <3>4. CASE why[t] = "oneshot"
      BY <2>1, <3>4, OneShotAhead DEF Goal, Reached
    <3>5. why[t] \in Whys \ {"hook"}
      BY <2>1 DEF HasTask, Shape
    <3> QED BY <3>2, <3>3, <3>4, <3>5 DEF Whys
  <2> QED BY <2>2, <2>3
<1>10. CASE PostNewElf(t)
  <2>1. UNCHANGED <<mapped, cache, dropped, listed, refused, at, call>> /\ at[t] = "posting"
    BY <1>10 DEF PostNewElf, At, elfVars
  <2>2. PICK f \in elfs[t] : /\ applied' = applied \cup listed \X {f}
                            /\ elfs' = [elfs EXCEPT ![t] = elfs[t] \ {f}]
    BY <1>10 DEF PostNewElf
  <2>3. elfs'[t] = elfs[t] \ {f}
    BY <2>2 DEF Shape
  <2>4. CASE e = f
    BY <2>1, <2>2, <2>4 DEF Goal, Reached
  <2>5. Followed(e)
    BY <1>1, <1>2, <2>1
  <2>6. CASE e # f /\ Posted(e)
    <3>1. Posted(e)'
      BY <2>1, <2>3, <2>6, PostedStays
    <3> QED BY <3>1 DEF Goal
  <2>7. ASSUME \A j \in listed \ refused : Reached(j, e), NEW j \in listed' \ refused' PROVE Reached(j, e)'
    <3>1. Ahead(j, e) => Ahead(j, e)'
      BY <2>1, AheadStays
    <3> QED BY <2>1, <2>2, <2>7, <3>1 DEF Reached
  <2> QED BY <2>1, <2>4, <2>5, <2>6, <2>7 DEF Followed, Goal
<1>11. CASE CopyElfs(t)
  <2>1. /\ UNCHANGED <<mapped, cache, dropped, applied, listed, refused, call>>
        /\ at[t] = "copy" /\ elfs'[t] = Cached
    BY <1>11 DEF CopyElfs, At, elfVars, taskVars, Shape
  <2>2. Followed(e) /\ e \in Cached
    BY <1>1, <1>2, <2>1
  <2>3. CASE Posted(e)
    <3>1. Posted(e)'
      BY <2>1, <2>3, PostedStays
    <3> QED BY <3>1 DEF Goal
  <2>4. ASSUME \A j \in listed \ refused : Reached(j, e), NEW j \in listed' \ refused' PROVE Reached(j, e)'
    <3>1. Ahead(j, e) => Ahead(j, e)'
      BY <2>1, <2>2, AheadStays
    <3> QED BY <2>1, <2>4, <3>1 DEF Reached
  <2> QED BY <2>1, <2>2, <2>3, <2>4 DEF Followed, Goal
<1>12. CASE ApplyTask(t)
  <2>1. UNCHANGED <<mapped, cache, dropped, listed, refused>> /\ at[t] = "apply"
    BY <1>12 DEF ApplyTask, At, elfVars
  <2>2. Followed(e)
    BY <1>1, <1>2, <2>1
  <2>3. CASE Posted(e)
    <3>1. Posted(e)'
      BY <2>1, <2>3, PostedStays
    <3> QED BY <3>1 DEF Goal
  <2>4. ASSUME \A j \in listed \ refused : Reached(j, e), NEW j \in listed' \ refused' PROVE Reached(j, e)'
    BY <1>12, <2>1, <2>4, ApplyFollow
  <2> QED BY <2>1, <2>2, <2>3, <2>4 DEF Followed, Goal
<1> QED BY <1>3, <1>4, <1>5, <1>6, <1>7, <1>8, <1>9, <1>10, <1>11, <1>12, FollowSteps DEF FollowStep

\* Before the one shot is over no hook call comes back, but for those refused.
LEMMA CallsStay ==
    ASSUME Following, NEW t \in Threads, Begin(t) \/ Continue(t), "oneshot" \notin inited',
           NEW k \in listed' \ refused'
    PROVE  \E u \in Threads : call'[u] = k
<1> USE DEF IInv, Following
<1>1. "oneshot" \notin inited
  <2>1. ASSUME NEW good \in BOOLEAN, StartDone(t, good) PROVE "oneshot" \notin inited
    BY <2>1, StartDoneEffect
  <2>2. CASE OneShot(t)
    BY <2>2, OneShotEffect
  <2>3. CASE ApplyTask(t)
    BY <2>3, ApplyEffect
  <2> QED BY <2>1, <2>2, <2>3, PlainSteps DEF Plain
<1>2. ASSUME k \in listed \ refused, call[t] = k => call'[t] = call[t]
      PROVE  \E u \in Threads : call'[u] = k
  <2>1. PICK u \in Threads : call[u] = k
    BY <1>1, <1>2 DEF OneShotFirst
  <2>2. call'[u] = k
    BY <1>2, <2>1, OthersStay DEF Stays
  <2> QED BY <2>2
<1>3. CASE FollowKept(t)
  BY <1>2, <1>3 DEF FollowKept
<1>4. ASSUME NEW l \in Libs, Open(t, l) \/ CtorOpen(t, l) PROVE \E u \in Threads : call'[u] = k
  <2>1. Map(t, l)
    BY <1>4, MapFresh
  <2> QED BY <1>2, <2>1 DEF Map, taskVars
<1>5. ASSUME NEW l \in Libs, CloseUnseen(t, l) PROVE \E u \in Threads : call'[u] = k
  BY <1>2, <1>5 DEF CloseUnseen, callVars
<1>6. ASSUME NEW j \in Tasks, HookCall(t, j) PROVE \E u \in Threads : call'[u] = k
  <2>1. /\ listed' = listed \cup {j} /\ refused' = refused /\ call'[t] = j
        /\ at[t] = "idle"
    BY <1>6 DEF HookCall, Shape, At
  <2>2. CASE k = j
    BY <2>1, <2>2
  <2>3. CASE k # j
    <3>1. k \in listed \ refused /\ k \in Tasks
      BY <2>1, <2>3 DEF Shape
    <3>2. call[t] = NoOne
      BY <2>1 DEF HasTask
    <3> QED BY <1>2, <3>1, <3>2, DlMonitorAssumption
  <2> QED BY <2>2, <2>3
<1>7. CASE Unmap(t)
  BY <1>2, <1>7 DEF Unmap
<1>8. CASE AfterOpen(t)
  BY <1>2, <1>8 DEF AfterOpen, taskVars
<1>9. CASE Iterate(t)
  BY <1>2, <1>9 DEF Iterate, taskVars
<1>10. CASE PostNewElf(t)
  BY <1>2, <1>10 DEF PostNewElf
<1>11. CASE CopyElfs(t)
  BY <1>2, <1>11 DEF CopyElfs, taskVars
<1>12. CASE ApplyTask(t)
  <2>1. at[t] = "apply"
    BY <1>12, ApplyEffect
  <2>2. OneShotRight(t)
    OBVIOUS
  <2>3. why[t] = "oneshot"
    BY <1>1, <2>1, <2>2 DEF OneShotRight
  <2>4. "oneshot" \in inited'
    BY <1>12, <2>3, ApplyEffect
  <2> QED BY <2>4
<1> QED BY <1>3, <1>4, <1>5, <1>6, <1>7, <1>8, <1>9, <1>10, <1>11, <1>12, FollowSteps DEF FollowStep

\* The strengthened invariant holds at the start.
LEMMA InitFollowing == Init => Following
<1> SUFFICES ASSUME Init PROVE Following
  OBVIOUS
<1>1. IInv
  BY InitIInv
<1>2. ASSUME NEW t \in Threads PROVE OneShotRight(t) /\ OpenedNumbered(t)
  <2>1. at[t] = "idle" /\ opening[t] = <<>>
    BY DEF Init
  <2>2. Len(opening[t]) = 0
    BY <2>1
  <2>3. OpenedNumbered(t)
    BY <2>2 DEF OpenedNumbered
  <2> QED BY <2>1, <2>3 DEF OneShotRight, RefreshFor, At
<1>3. OneShotFirst /\ NoticedNumbered /\ NoticedFollowed
  BY DEF Init, OneShotFirst, NoticedNumbered, NoticedFollowed
<1>4. CachedFollowed
  BY DEF Init, CachedFollowed
<1> QED BY <1>1, <1>2, <1>3, <1>4 DEF Following

\* Every step keeps it.
LEMMA NextFollowing == Following /\ [Next]_vars => Following'
<1> SUFFICES ASSUME Following, [Next]_vars PROVE Following'
  OBVIOUS
<1>1. IInv'
  BY NextIInv DEF Following
<1>2. ASSUME NEW t \in Threads, Begin(t) \/ Continue(t) PROVE Following'
  <2>1. \A u \in Threads : OneShotRight(u)' /\ OpenedNumbered(u)'
    BY <1>2, OneShotOwn, OneShotOthers, OpenedNext
  <2>2. OneShotFirst'
    BY <1>2, OneShotFirstOk, CallsStay DEF OneShotFirst
  <2>3. NoticedNumbered' /\ NoticedFollowed' /\ CachedFollowed'
    BY <1>2, NoticedNumberedNext, NoticedFollowedNext, CachedFollowedNext
  <2> QED BY <1>1, <2>1, <2>2, <2>3 DEF Following
<1>3. CASE UNCHANGED vars
  <2>1. /\ UNCHANGED <<held, mapped, maps, cache, unseen, noticed, dropped, listed, applied, refused>>
        /\ UNCHANGED <<hooked, inited, ok, at, why, task, call, opening, elfs>>
    BY <1>3 DEF vars, lockVars, elfVars, taskVars, startVars, callVars
  <2>2. \A u \in Threads : OneShotRight(u)' /\ OpenedNumbered(u)'
    BY <2>1 DEF Following, OneShotRight, OpenedNumbered, Numbered, RefreshFor, At, Unhooked
  <2>3. OneShotFirst' /\ NoticedNumbered'
    BY <2>1 DEF Following, OneShotFirst, NoticedNumbered, Numbered
  <2>4. Mapped' = Mapped /\ Cached' = Cached
    BY <2>1 DEF Mapped, Cached, Elf
  <2>5. \A e : Coming(e)' <=> Coming(e)
    BY <2>1 DEF Coming, RefreshFor
  <2>6. \A e : Posted(e)' <=> Posted(e)
    BY <2>1 DEF Posted, At
  <2>7. \A k, e : Reached(k, e)' <=> Reached(k, e)
    BY <2>1 DEF Reached, Ahead, At
  <2>8. NoticedFollowed'
    BY <2>1, <2>4, <2>5 DEF Following, NoticedFollowed, OutOfDate
  <2>9. CachedFollowed'
    BY <2>1, <2>4, <2>6, <2>7 DEF Following, CachedFollowed
  <2> QED BY <1>1, <2>2, <2>3, <2>8, <2>9 DEF Following
<1> QED BY <1>2, <1>3 DEF Next, Rest

\* With no call under way nothing is still to come.
LEMMA FollowingHooked == Following => AllHooked
<1> SUFFICES ASSUME Following, Quiet, NEW k \in listed \ refused, NEW e \in Mapped, e \in Cached \cup noticed
             PROVE  <<k, e>> \in applied \/ e \in dropped \/ OutOfDate(e[1])
  BY DEF AllHooked, OutOfDate
<1>1. \A t \in Threads : at[t] = "idle" /\ call[t] = NoOne
  BY DEF Following, IInv, Quiet, HasTask, At
<1>2. k # NoOne
  BY DlMonitorAssumption DEF Following, IInv, Shape
<1>3. ~Coming(e) /\ ~Posted(e) /\ ~Ahead(k, e)
  BY <1>1, <1>2 DEF Coming, RefreshFor, Posted, Ahead, At
<1>4. e \in Cached \/ OutOfDate(e[1])
  BY <1>3 DEF Following, NoticedFollowed
<1>5. e \in dropped \/ Reached(k, e) \/ OutOfDate(e[1])
  BY <1>3, <1>4 DEF Following, CachedFollowed
<1> QED BY <1>3, <1>5 DEF Reached

\* With no call under way, every task that was not refused is hooked in every
\* library that has an ELF in the cache or whose dlopen was seen, but for those
\* that the refresh of a dlclose was the first to find, and those opened again
\* while the cache had the ELF of a mapping closed unseen: a hook call puts its
\* task on the list before it copies the cache, and a refresh posts what it finds
\* (bh_core.cpp, bh_task_manager.cpp, bh_elf_manager.cpp, bh_dl_monitor.cpp).
THEOREM NoneMissed == Spec => []AllHooked
BY InitFollowing, NextFollowing, FollowingHooked, PTL DEF Spec

=============================================================================
