----------------------------- MODULE DlMonitor -----------------------------
(***************************************************************************)
(* The DL monitor of plthook and its locks: the proxies of dlopen and        *)
(* dlclose (bh_dl_monitor.cpp), the start of the monitor by the first hook   *)
(* call or dlopen callback (bh_dl_monitor.cpp, bh_task_manager.cpp), the     *)
(* refresh of the ELF cache (bh_elf_manager.cpp) and the linker's mutex      *)
(* (bh_linker.cpp).                                                          *)
(*                                                                           *)
(* What a task does to an ELF is in HookManager; here it is one step.  The   *)
(* cache has an ELF for a pathname and remembers which mapping it describes, *)
(* so that a library opened again is told from the one that was closed.      *)
(***************************************************************************)
EXTENDS Naturals, SequencesExt

CONSTANTS
    Threads,
    Libs,       \* pathnames of libraries
    Preloaded,  \* those mapped at the start, for good
    OpenedBy,   \* thread -> the libraries it opens and closes
    CtorOpens,  \* library -> the libraries its constructor opens
    Tasks,      \* tasks of the users of the library, of type ALL
    Starters,   \* threads that call plt_hook_add_dlopen_callback
    MapMax,     \* bound: library -> how often it is mapped
    MayFail,    \* whether the monitor may run out of memory at its start
    NoOne       \* no thread, and no task

\* The functions of the linker that the monitor hooks, each by a task of its
\* own, in this order.
Monitored == <<"dlopen", "dlclose">>

\* The linker's mutex, the write locks of the cache and of dlclose, and the
\* mutexes of the manager's start, the monitor's start and the one shot.
Locks == {"linker", "elfs", "dlclose", "manager", "monitor", "oneshot"}

Places == {"idle", "ctor", "opened", "close", "closing", "read", "refresh", "iterate",
           "posting", "hook", "oneshot", "copy", "apply", "manager", "monitor",
           "starting", "locked", "monitored"}

\* A library belongs to one thread, and what constructors open stays.
ASSUME DlMonitorAssumption ==
    /\ Preloaded \subseteq Libs
    /\ OpenedBy \in [Threads -> SUBSET (Libs \ Preloaded)]
    /\ \A t, u \in Threads : t # u => OpenedBy[t] \cap OpenedBy[u] = {}
    /\ CtorOpens \in [Libs -> SUBSET Libs]
    /\ \A l \in Libs, t \in Threads : CtorOpens[l] \cap OpenedBy[t] = {}
    /\ Starters \subseteq Threads
    /\ MapMax \in [Libs -> Nat]
    /\ MayFail \in BOOLEAN
    /\ NoOne \notin Threads \cup Tasks \cup Range(Monitored)
    /\ Tasks \cap Range(Monitored) = {}

VARIABLES
    held,       \* lock -> who holds it, for writing if it is a rwlock
    readers,    \* who holds the read lock against dlclose
    mapped,     \* library -> the number of its mapping, 0 if there is none
    maps,       \* library -> how often it was mapped
    cache,      \* library -> the mapping its ELF describes, 0 without an ELF
    abandoned,  \* ELFs taken out of the cache and not destroyed
    noticed,    \* ELFs whose dlopen went through the proxy to its refresh
    dropped,    \* ELFs that the refresh of a dlclose was the first to find
    unseen,     \* ELFs that stayed in the cache when their library was closed
    listed,     \* the task list
    applied,    \* pairs of a task and an ELF it was applied to
    refused,    \* tasks told PLT_HOOK_STATUS_CODE_INITERR_DLMTR
    hooked,     \* the monitored functions that lead to their proxies
    initing,    \* bh_dl_monitor_initing
    inited,     \* what of the manager, the monitor and the one shot was done
    ok,         \* which of the manager and the monitor has its inited_ok
    post,       \* whether post_dlopen and post_dlclose are set
    at,         \* thread -> where it is
    why,        \* thread -> what its refresh is for
    task,       \* thread -> the task it is to hook: of its call, or monitored
    call,       \* thread -> the task of its hook call
    opening,    \* thread -> dlopen calls in progress, outermost first
    elfs        \* thread -> ELFs it has in hand

lockVars == <<held, readers>>
elfVars == <<mapped, maps, cache, abandoned, noticed, dropped, unseen>>
taskVars == <<listed, applied, refused>>
startVars == <<hooked, initing, inited, ok, post>>
callVars == <<why, task, call, opening, elfs>>
vars == <<lockVars, elfVars, taskVars, startVars, at, callVars>>

\* An ELF is a library and the number of the mapping it describes.
Elfs == Libs \X (Nat \ {0})

Elf(l) == <<l, mapped[l]>>
Mapped == {Elf(l) : l \in {m \in Libs : mapped[m] # 0}}
Cached == {<<l, cache[l]>> : l \in {m \in Libs : cache[m] # 0}}

At(t, p) == at[t] = p
Goto(t, p) == at' = [at EXCEPT ![t] = p]
Free(l) == held[l] = NoOne
Take(t, l) == held' = [held EXCEPT ![l] = t]
Release(l) == held' = [held EXCEPT ![l] = NoOne]

(***************************************************************************)
(* dlopen.  Without its proxy only the linker is called.                     *)
(***************************************************************************)
\* Mutant: no thread is ever in the lock.
NeverInLock(t) == FALSE

\* bh_linker_is_in_lock.
InLock(t) == held["linker"] = t

\* The linker takes its mutex, which is recursive, and maps the library.
Map(t, l) ==
    /\ mapped[l] = 0
    /\ maps[l] < MapMax[l]
    /\ maps' = [maps EXCEPT ![l] = @ + 1]
    /\ mapped' = [mapped EXCEPT ![l] = maps[l] + 1]
    /\ Take(t, "linker")
    /\ opening' = [opening EXCEPT ![t] =
            Append(@, [elf |-> <<l, maps[l] + 1>>, proxied |-> "dlopen" \in hooked])]
    /\ Goto(t, "ctor")
    /\ UNCHANGED <<readers, cache, abandoned, noticed, dropped, unseen, taskVars, startVars, why, task,
                   call, elfs>>

Open(t, l) == At(t, "idle") /\ l \in OpenedBy[t] /\ Free("linker") /\ Map(t, l)

\* The constructor opens a library.
CtorOpen(t, l) == At(t, "ctor") /\ l \in CtorOpens[Last(opening[t]).elf[1]] /\ Map(t, l)

\* The linker returns, and gives back its mutex with the outermost call.
LinkerReturn(t) ==
    /\ At(t, "ctor")
    /\ held' = IF Len(opening[t]) = 1 THEN [held EXCEPT !["linker"] = NoOne] ELSE held
    /\ Goto(t, "opened")
    /\ UNCHANGED <<readers, elfVars, taskVars, startVars, callVars>>

\* The call is over; in a constructor the outer one goes on.
Outer(t) == IF Len(opening[t]) = 1 THEN "idle" ELSE "ctor"
Popped(t) == [opening EXCEPT ![t] = Front(@)]

\* The proxy refreshes the cache unless the thread is in the lock.
AfterOpen(t) ==
    LET c == Last(opening[t]) IN
    /\ At(t, "opened")
    /\ IF c.proxied /\ post /\ ~InLock(t)
       THEN /\ Goto(t, "read")
            /\ why' = [why EXCEPT ![t] = "dlopen"]
            /\ noticed' = noticed \cup {c.elf}
            /\ UNCHANGED opening
       ELSE /\ Goto(t, Outer(t))
            /\ opening' = Popped(t)
            /\ UNCHANGED <<why, noticed>>
    /\ UNCHANGED <<lockVars, mapped, maps, cache, abandoned, dropped, unseen, taskVars, startVars, task,
                   call, elfs>>

(***************************************************************************)
(* dlclose                                                                   *)
(***************************************************************************)
\* A library may be closed at any time, before the monitor has started and after
\* it failed to as well.
MayClose(t, l) == At(t, "idle") /\ l \in OpenedBy[t] /\ mapped[l] # 0

\* Mutant: the proxy takes no lock.
CloseLocksNot(t) == UNCHANGED held

\* Mutant: the readers are not waited for.
CloseLocksHasty(t) == Free("dlclose") /\ Take(t, "dlclose")

\* The proxy takes the write lock first.
CloseLocks(t) == Free("dlclose") /\ readers = {} /\ Take(t, "dlclose")

BeginClose(t, l) ==
    /\ MayClose(t, l)
    /\ "dlclose" \in hooked
    /\ elfs' = [elfs EXCEPT ![t] = {Elf(l)}]
    /\ Goto(t, "close")
    /\ UNCHANGED <<lockVars, elfVars, taskVars, startVars, why, task, call, opening>>

LockClose(t) ==
    /\ At(t, "close")
    /\ CloseLocks(t)
    /\ Goto(t, "closing")
    /\ UNCHANGED <<readers, elfVars, taskVars, startVars, callVars>>

\* Whatever was noted of an ELF goes with it.
Unmapped(l) ==
    /\ mapped' = [mapped EXCEPT ![l] = 0]
    /\ noticed' = noticed \ {Elf(l)}
    /\ dropped' = dropped \ {Elf(l)}
    /\ applied' = {p \in applied : p[2] # Elf(l)}

\* The linker unmaps the library.
Unmap(t) ==
    /\ At(t, "closing")
    /\ Free("linker")
    /\ \E l \in Libs : elfs[t] = {Elf(l)} /\ Unmapped(l)
    /\ elfs' = [elfs EXCEPT ![t] = {}]
    /\ why' = [why EXCEPT ![t] = "dlclose"]
    /\ Goto(t, "refresh")
    /\ UNCHANGED <<lockVars, maps, cache, abandoned, unseen, listed, refused, startVars, task, call,
                   opening>>

\* The cache is not refreshed while there is no post_dlclose: a dlopen callback
\* started the monitor.
NoRefresh(t) ==
    /\ At(t, "refresh")
    /\ why[t] = "dlclose" /\ ~post
    /\ unseen' = unseen \cup (Cached \ Mapped)
    /\ Release("dlclose")
    /\ Goto(t, "idle")
    /\ UNCHANGED <<readers, mapped, maps, cache, abandoned, noticed, dropped, taskVars, startVars, callVars>>

\* Without the proxy there is neither a lock nor a refresh.
CloseUnseen(t, l) ==
    /\ MayClose(t, l)
    /\ "dlclose" \notin hooked
    /\ Free("linker")
    /\ Unmapped(l)
    /\ unseen' = unseen \cup ({Elf(l)} \cap Cached)
    /\ UNCHANGED <<lockVars, maps, cache, abandoned, listed, refused, startVars, at, callVars>>

(***************************************************************************)
(* bh_elf_manager_refresh, for a dlopen, a dlclose, or the one shot          *)
(***************************************************************************)
\* bh_dl_monitor_dlclose_rdlock, before a refresh or a hook.
Read(t) ==
    /\ At(t, "read")
    /\ Free("dlclose")
    /\ readers' = readers \cup {t}
    /\ Goto(t, IF why[t] = "hook" THEN "copy" ELSE "refresh")
    /\ UNCHANGED <<held, elfVars, taskVars, startVars, callVars>>

BeginRefresh(t) ==
    /\ At(t, "refresh")
    /\ why[t] = "dlclose" => post
    /\ Free("elfs")
    /\ Take(t, "elfs")
    /\ Goto(t, "iterate")
    /\ UNCHANGED <<readers, elfVars, taskVars, startVars, callVars>>

\* Mutant: the ELFs are not noted as they are put into the cache.
NoNewElfs == {}

\* The ELFs that bh_elf_manager_iterate_cb puts into the cache: it looks them up
\* by pathname.
NewElfs == {Elf(l) : l \in {m \in Libs : mapped[m] # 0 /\ cache[m] = 0}}

\* The linker's list is iterated under its mutex.  ELFs of libraries that are
\* gone are abandoned, and destroyed by a dlclose, which keeps readers out.
Iterate(t) ==
    LET gone == {e \in Cached : mapped[e[1]] = 0} IN
    /\ At(t, "iterate")
    /\ Free("linker") \/ InLock(t)
    /\ cache' = [l \in Libs |-> IF mapped[l] = 0 THEN 0
                                ELSE IF cache[l] = 0 THEN mapped[l] ELSE cache[l]]
    /\ abandoned' = IF why[t] = "dlclose" THEN {} ELSE abandoned \cup gone
    /\ elfs' = [elfs EXCEPT ![t] = IF why[t] = "dlopen" THEN NewElfs ELSE {}]
    /\ dropped' = IF why[t] = "dlclose" THEN dropped \cup NewElfs ELSE dropped
    /\ held' = [l \in DOMAIN held |-> IF l = "elfs" \/ (l = "dlclose" /\ why[t] = "dlclose")
                                      THEN NoOne ELSE held[l]]
    /\ Goto(t, CASE why[t] = "dlopen" -> "posting" [] why[t] = "dlclose" -> "idle"
                 [] why[t] = "oneshot" -> "copy")
    /\ UNCHANGED <<readers, mapped, maps, noticed, unseen, taskVars, startVars, why, task, call, opening>>

\* bh_task_manager_post_new_elf: the tasks on the list go to the next new ELF.
PostNewElf(t) ==
    /\ At(t, "posting")
    /\ \E e \in elfs[t] :
        /\ applied' = applied \cup listed \X {e}
        /\ elfs' = [elfs EXCEPT ![t] = @ \ {e}]
    /\ UNCHANGED <<lockVars, elfVars, listed, refused, startVars, at, why, task, call, opening>>

\* Mutant: the thread stays a reader.
StillReaders(t) == readers

\* bh_dl_monitor_dlclose_unlock by a reader.
OtherReaders(t) == readers \ {t}

PostDone(t) ==
    /\ At(t, "posting")
    /\ elfs[t] = {}
    /\ readers' = OtherReaders(t)
    /\ opening' = Popped(t)
    /\ Goto(t, Outer(t))
    /\ UNCHANGED <<held, elfVars, taskVars, startVars, why, task, call, elfs>>

(***************************************************************************)
(* A hook call                                                               *)
(***************************************************************************)
HookOver(t) ==
    /\ Goto(t, "idle")
    /\ task' = [task EXCEPT ![t] = NoOne]
    /\ call' = [call EXCEPT ![t] = NoOne]

\* bh_core_hook_all: the task goes on the list first.
HookCall(t, k) ==
    /\ At(t, "idle")
    /\ k \notin listed
    /\ listed' = listed \cup {k}
    /\ task' = [task EXCEPT ![t] = k]
    /\ call' = [call EXCEPT ![t] = k]
    /\ Goto(t, "hook")
    /\ UNCHANGED <<lockVars, elfVars, applied, refused, startVars, why, opening, elfs>>

\* bh_task_manager_hook: while the monitor starts, the cache is filled once;
\* otherwise the monitor has to be there.
BeginHook(t) ==
    /\ At(t, "hook")
    /\ why' = [why EXCEPT ![t] = "hook"]
    /\ Goto(t, IF ~initing THEN "manager" ELSE IF "oneshot" \in inited THEN "read" ELSE "oneshot")
    /\ UNCHANGED <<lockVars, elfVars, taskVars, startVars, task, call, opening, elfs>>

\* Under a lock of its own, unless another thread was first.
OneShot(t) ==
    /\ At(t, "oneshot")
    /\ Free("oneshot")
    /\ IF "oneshot" \in inited
       THEN UNCHANGED <<held, why>>
       ELSE Take(t, "oneshot") /\ why' = [why EXCEPT ![t] = "oneshot"]
    /\ Goto(t, "read")
    /\ UNCHANGED <<readers, elfVars, taskVars, startVars, task, call, opening, elfs>>

\* bh_elf_manager_iterate: pointers to all ELFs of the cache are copied.
CopyElfs(t) ==
    /\ At(t, "copy")
    /\ Free("elfs")
    /\ elfs' = [elfs EXCEPT ![t] = Cached]
    /\ Goto(t, "apply")
    /\ UNCHANGED <<lockVars, elfVars, taskVars, startVars, why, task, call, opening>>

\* The task is applied to them; one of the monitor leads its function to the
\* proxy.  Then the call is over, or the monitor has its next function.
ApplyTask(t) ==
    /\ At(t, "apply")
    /\ applied' = applied \cup ({task[t]} \cap Tasks) \X elfs[t]
    /\ hooked' = hooked \cup ({task[t]} \ Tasks)
    /\ elfs' = [elfs EXCEPT ![t] = {}]
    /\ readers' = OtherReaders(t)
    /\ IF why[t] = "oneshot"
       THEN Release("oneshot") /\ inited' = inited \cup {"oneshot"}
       ELSE UNCHANGED <<held, inited>>
    /\ IF task[t] \in Tasks THEN HookOver(t) ELSE Goto(t, "monitored") /\ UNCHANGED <<task, call>>
    /\ UNCHANGED <<elfVars, listed, refused, initing, ok, post, why, opening>>

(***************************************************************************)
(* The start of the monitor                                                  *)
(***************************************************************************)
\* A hook call goes on, or is refused.
Answer(t, good) ==
    IF good
    THEN Goto(t, "read") /\ task' = [task EXCEPT ![t] = call[t]] /\ UNCHANGED <<call, refused>>
    ELSE HookOver(t) /\ refused' = refused \cup {call[t]}

\* Mutant: the manager is marked as inited first, as the monitor is.
MarkedFirst == {"manager"}

MarkedBefore == {}

\* bh_task_manager_init_dl_monitor: a thread that finds it done takes the
\* answer; the first one takes the lock, and sets what to call after dlopen and
\* dlclose.
InitManager(t) ==
    /\ At(t, "manager")
    /\ IF "manager" \in inited
       THEN Answer(t, "manager" \in ok) /\ UNCHANGED <<held, post, inited>>
       ELSE /\ Free("manager")
            /\ Take(t, "manager")
            /\ post' = TRUE
            /\ inited' = inited \cup MarkedBefore
            /\ Goto(t, "monitor")
            /\ UNCHANGED <<task, call, refused>>
    /\ UNCHANGED <<readers, elfVars, listed, applied, hooked, initing, ok, why, opening, elfs>>

\* The monitor's answer goes to the manager, which keeps it and then marks it,
\* or to plt_hook_add_dlopen_callback, which has no use for it.
MonitorAnswer(t, good) ==
    /\ held' = [l \in DOMAIN held |-> IF l \in {"manager", "monitor"} /\ held[l] = t THEN NoOne
                                      ELSE held[l]]
    /\ IF call[t] = NoOne
       THEN HookOver(t) /\ UNCHANGED refused
       ELSE Answer(t, good)

Latched(t, good, done) ==
    /\ inited' = inited \cup done \cup (IF call[t] = NoOne THEN {} ELSE {"manager"})
    /\ ok' = ok \cup (IF good THEN done ELSE {}) \cup (IF good /\ call[t] # NoOne THEN {"manager"} ELSE {})

\* plt_hook_add_dlopen_callback starts the monitor as well.
AddCallback(t) ==
    /\ t \in Starters
    /\ At(t, "idle")
    /\ "monitor" \notin inited
    /\ Goto(t, "monitor")
    /\ UNCHANGED <<lockVars, elfVars, taskVars, startVars, callVars>>

\* bh_dl_monitor_init: whether it was done is read without the lock.
InitMonitor(t) ==
    /\ At(t, "monitor")
    /\ IF "monitor" \in inited
       THEN /\ MonitorAnswer(t, "monitor" \in ok)
            /\ Latched(t, "monitor" \in ok, {})
            /\ UNCHANGED initing
       ELSE Goto(t, "starting") /\ UNCHANGED <<held, initing, inited, ok, task, call, refused>>
    /\ UNCHANGED <<readers, elfVars, listed, applied, hooked, post, why, opening, elfs>>

\* The lock is taken, which another thread may have held until it was done.
LockMonitor(t) ==
    /\ At(t, "starting")
    /\ Free("monitor")
    /\ Take(t, "monitor")
    /\ initing' = TRUE
    /\ Goto(t, "locked")
    /\ UNCHANGED <<readers, elfVars, taskVars, hooked, inited, ok, post, callVars>>

\* The monitor is marked as inited before its work begins.
MarkMonitor(t) ==
    /\ At(t, "locked")
    /\ IF "monitor" \in inited
       THEN /\ MonitorAnswer(t, "monitor" \in ok)
            /\ Latched(t, "monitor" \in ok, {})
            /\ initing' = FALSE
       ELSE /\ inited' = inited \cup {"monitor"}
            /\ Goto(t, "monitored")
            /\ UNCHANGED <<held, initing, ok, task, call, refused>>
    /\ UNCHANGED <<readers, elfVars, listed, applied, hooked, post, why, opening, elfs>>

Unhooked == {i \in DOMAIN Monitored : Monitored[i] \notin hooked}

\* bh_dl_monitor_hook: the next function, by a hook call of its own.
HookNext(t) ==
    /\ At(t, "monitored")
    /\ Unhooked # {}
    /\ task' = [task EXCEPT ![t] = Monitored[Min(Unhooked)]]
    /\ Goto(t, "hook")
    /\ UNCHANGED <<lockVars, elfVars, taskVars, startVars, why, call, opening, elfs>>

\* All are hooked, or there is no memory for a task and they are unhooked.
StartDone(t, good) ==
    /\ At(t, "monitored")
    /\ IF good THEN Unhooked = {} ELSE MayFail /\ Unhooked # {}
    /\ hooked' = IF good THEN hooked ELSE {}
    /\ initing' = FALSE
    /\ MonitorAnswer(t, good)
    /\ Latched(t, good, {"monitor"})
    /\ UNCHANGED <<readers, elfVars, listed, applied, post, why, opening, elfs>>

(***************************************************************************)
(* Specification                                                             *)
(***************************************************************************)
Init ==
    /\ held = [l \in Locks |-> NoOne]
    /\ readers = {}
    /\ mapped = [l \in Libs |-> IF l \in Preloaded THEN 1 ELSE 0]
    /\ maps = mapped
    /\ cache = [l \in Libs |-> 0]
    /\ abandoned = {} /\ noticed = {} /\ dropped = {} /\ unseen = {}
    /\ listed = {} /\ applied = {} /\ refused = {}
    /\ hooked = {} /\ inited = {} /\ ok = {}
    /\ initing = FALSE /\ post = FALSE
    /\ at = [t \in Threads |-> "idle"]
    /\ why = [t \in Threads |-> "hook"]
    /\ task = [t \in Threads |-> NoOne]
    /\ call = [t \in Threads |-> NoOne]
    /\ opening = [t \in Threads |-> <<>>]
    /\ elfs = [t \in Threads |-> {}]

Begin(t) ==
    \/ \E l \in Libs : Open(t, l) \/ BeginClose(t, l) \/ CloseUnseen(t, l)
    \/ \E k \in Tasks : HookCall(t, k)
    \/ AddCallback(t)

Continue(t) ==
    \/ \E l \in Libs : CtorOpen(t, l)
    \/ LinkerReturn(t) \/ AfterOpen(t) \/ LockClose(t) \/ Unmap(t) \/ NoRefresh(t)
    \/ Read(t) \/ BeginRefresh(t) \/ Iterate(t) \/ PostNewElf(t) \/ PostDone(t)
    \/ BeginHook(t) \/ OneShot(t) \/ CopyElfs(t) \/ ApplyTask(t)
    \/ InitManager(t) \/ InitMonitor(t) \/ LockMonitor(t) \/ MarkMonitor(t) \/ HookNext(t)
    \/ \E good \in BOOLEAN : StartDone(t, good)

Quiet == \A t \in Threads : At(t, "idle")

\* The threads need not begin another call.
Rest == Quiet /\ UNCHANGED vars

Next == Rest \/ \E t \in Threads : Begin(t) \/ Continue(t)

\* A thread inside a call goes on when it can.
Spec == Init /\ [][Next]_vars /\ \A t \in Threads : WF_vars(Continue(t))

(***************************************************************************)
(* Properties                                                                *)
(***************************************************************************)
\* Every variable has its type; the write lock of dlclose keeps readers out, and
\* the linker's mutex is held by a thread that is in a dlopen.
TypeOK ==
    /\ held \in [Locks -> Threads \cup {NoOne}]
    /\ readers \subseteq Threads
    /\ held["dlclose"] # NoOne => readers = {}
    /\ \A f \in {mapped, maps, cache} : f \in [Libs -> Nat]
    /\ \A s \in {abandoned, noticed, dropped, unseen} : s \subseteq Elfs
    /\ listed \subseteq Tasks /\ refused \subseteq listed
    /\ applied \subseteq listed \X Elfs
    /\ hooked \subseteq Range(Monitored)
    /\ initing \in BOOLEAN /\ post \in BOOLEAN
    /\ inited \subseteq {"manager", "monitor", "oneshot"}
    /\ ok \subseteq inited \cap {"manager", "monitor"}
    /\ at \in [Threads -> Places]
    /\ why \in [Threads -> {"hook", "dlopen", "dlclose", "oneshot"}]
    /\ task \in [Threads -> Tasks \cup Range(Monitored) \cup {NoOne}]
    /\ call \in [Threads -> Tasks \cup {NoOne}]
    /\ \A t \in Threads : elfs[t] \subseteq Elfs
    /\ \A t \in Threads : held["linker"] = t => opening[t] # <<>>

\* An ELF that a thread has in hand, to hook it or to post it, was not destroyed.
\* It is of a library that is mapped, and not of an earlier mapping, unless the
\* library was closed before the monitor saw to it: dlclose not yet hooked, or
\* its proxy with no post_dlclose to call.
ElfStaysMapped ==
    \A t \in Threads : At(t, "apply") \/ At(t, "posting") =>
        elfs[t] \subseteq Mapped \cup unseen /\ elfs[t] \subseteq Cached \cup abandoned

\* When no call is under way, every task on the list that was not refused is
\* hooked in every ELF of the cache and in every library whose dlopen was seen,
\* but for those that the refresh of a dlclose was the first to find, and those
\* opened again while the cache had the ELF of a mapping closed unseen.
AllHooked ==
    Quiet => \A k \in listed \ refused : \A e \in Mapped \cap (Cached \cup noticed) :
                <<k, e>> \in applied \/ e \in dropped \/ <<e[1], cache[e[1]]>> \in unseen

MonitorFailed == "monitor" \in inited \ ok /\ ~initing

\* The manager keeps a failure for good only if the monitor has failed, or while
\* a dlopen callback is starting it.
ManagerAnswersRight ==
    [][ "manager" \in inited' \ ok' /\ "manager" \notin inited =>
            MonitorFailed' \/ \E t \in Starters : held["monitor"] = t /\ call[t] = NoOne ]_vars

\* Every hook call comes back, and so do dlopen and dlclose.
HookReturns == \A t \in Threads : ~At(t, "idle") ~> At(t, "idle")

=============================================================================
