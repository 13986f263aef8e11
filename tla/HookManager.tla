---------------------------- MODULE HookManager ----------------------------
(***************************************************************************)
(* Hook requests of plthook and the GOT entries they patch: the public calls *)
(* (bh_core.cpp), the task list (bh_task_manager.cpp), the task life cycle   *)
(* (bh_task.cpp), the patching of GOT entries (bh_hook_manager.cpp) and what *)
(* they need of the ELF cache (bh_elf_manager.cpp) and of the dlopen and     *)
(* dlclose proxies (bh_dl_monitor.cpp).                                      *)
(*                                                                           *)
(* One symbol is hooked.  An ELF is one mapping of a library; a library that *)
(* is closed and opened again is another ELF, maybe with GOT entries at the  *)
(* same addresses.  HookChain has the details of a hook's list; here it is   *)
(* the set of its enabled functions.                                         *)
(***************************************************************************)
EXTENDS Naturals, Sequences, FiniteSets

CONSTANTS
    Threads,    \* threads that hook, unhook, open and close
    Loaders,    \* those of them that open and close libraries
    Elfs,
    Preloaded,  \* ELFs mapped and cached at the start
    Gots,       \* addresses of GOT entries
    GotsOf,     \* ELF -> its entries for the symbol, in the order they are found
    Origs,
    OrigOf,     \* GOT entry -> what the linker writes there
    Tasks,
    Single,     \* tasks of type SINGLE; the others are ALL or PARTIAL
    Callers,    \* task -> the ELFs it matches
    Funcs,
    FuncOf,     \* task -> its proxy function
    Exported,   \* proxy functions a library exports, so that dladdr names them
    Manual,     \* PLT_HOOK_MODE_MANUAL
    Bypass,     \* the symbol is a function of the linker
    Outcomes,   \* what may become of writing a GOT entry
    Unset,      \* BH_TASK_ORIG_FUNC_UNSET
    Invalid     \* BH_TASK_ORIG_FUNC_INVALID

ASSUME HookManagerAssumption ==
    /\ Loaders \subseteq Threads
    /\ Preloaded \subseteq Elfs
    /\ GotsOf \in [Elfs -> Seq(Gots)]
    /\ OrigOf \in [Gots -> Origs]
    /\ Single \subseteq Tasks
    /\ Callers \in [Tasks -> SUBSET Elfs]
    /\ FuncOf \in [Tasks -> Funcs]
    /\ Exported \subseteq Funcs
    /\ Manual \in BOOLEAN
    /\ Bypass \in BOOLEAN
    /\ Outcomes \subseteq {"done", "refused", "fault"}

\* Functions, trampolines and the two special addresses are told apart.
ASSUME HookManagerNames ==
    /\ Funcs \cap Origs = {}
    /\ \A v \in Origs \cup Funcs : v \notin Nat
    /\ {Unset, Invalid} \cap (Origs \cup Funcs \cup {0}) = {}
    /\ Unset \notin Nat /\ Invalid \notin Nat
    /\ Unset # Invalid

VARIABLES
    life,       \* ELF -> new, linked or gone: what the linker has mapped
    cache,      \* the ELFs of the ELF manager
    bad,        \* ELFs whose error flag is set
    cfi,        \* ELF -> whether __cfi_slowpath is hooked in it
    got,        \* GOT entry -> an original function, a proxy, or a hook's trampoline
    hooks,      \* GOT entry -> its hook, 0 for none
    objs,       \* the hooks created so far, abandoned ones included
    listed,     \* the task list
    status,     \* task -> its status
    manualOrig, \* task -> manual_orig_func
    saved,      \* task -> the address its hooked callback keeps in manual mode
    told,       \* task -> the <<ELF, result>> pairs its hooked callback was told
    job,        \* thread -> the call it is in
    patch       \* thread -> the GOT entries it is at work on

elfVars == <<life, cache, bad, cfi>>
gotVars == <<got, hooks, objs>>
taskVars == <<listed, status, manualOrig, saved, told>>
vars == <<elfVars, gotVars, taskVars, job, patch>>

Elements(s) == {s[i] : i \in DOMAIN s}
Linked == {e \in Elfs : life[e] = "linked"}

\* A trampoline is named by the number of its hook, the position in objs.
Hook == [orig : Origs \cup Nat, enabled : SUBSET Funcs]
Value == Origs \cup Funcs \cup Nat

\* A call goes through pairs of a task and an ELF; a post-dlopen call takes
\* the pairs of one new ELF after the other.
Job == [op : {"none", "hook", "unhook", "post"}, at : {"idle", "begin", "pick"},
        own : SUBSET Tasks, elfs : SUBSET Elfs, pairs : SUBSET (Tasks \X Elfs)]
NoJob == [op |-> "none", at |-> "idle", own |-> {}, elfs |-> {}, pairs |-> {}]
Start(op, own) == [op |-> op, at |-> "begin", own |-> own, elfs |-> {}, pairs |-> {}]
IsIdle(t) == job[t] = NoJob

\* The entries of one ELF left to do for one task; all of it happens under the
\* hook lock of the ELF.
Patch == [task : Tasks, elf : Elfs, gots : Seq(Gots), ok : BOOLEAN, locked : BOOLEAN]
NoPatch == [gots |-> <<>>]
Patching(t) == patch[t] # NoPatch

\* The read lock against dlclose, held while ELFs of the cache are in use.
Reading(t) == job[t].at = "pick"

\* The read lock of the task list, held while the tasks go to a new ELF;
\* bh_task_manager_add and bh_task_manager_delete need it to be free.
OnList(t) == job[t].op = "post" /\ (job[t].pairs # {} \/ Patching(t))
ListFree == \A t \in Threads : ~OnList(t)

(***************************************************************************)
(* Opening and closing libraries                                             *)
(***************************************************************************)
\* The linker maps the library and fills in its GOT; the proxy of dlopen goes
\* on to refresh the cache.
Load(t, e) ==
    /\ t \in Loaders
    /\ IsIdle(t)
    /\ life[e] = "new"
    /\ \A d \in Linked : Elements(GotsOf[d]) \cap Elements(GotsOf[e]) = {}
    /\ life' = [life EXCEPT ![e] = "linked"]
    /\ got' = [g \in Gots |-> IF g \in Elements(GotsOf[e]) THEN OrigOf[g] ELSE got[g]]
    /\ job' = [job EXCEPT ![t] = Start("post", {})]
    /\ UNCHANGED <<cache, bad, cfi, hooks, objs, taskVars, patch>>

\* Mutant: the ELFs are not noted as they are put into the cache.
NoNewElfs == {}

\* The ELFs that bh_elf_manager_iterate_cb finds for the first time.
NewElfs == Linked \ cache

\* bh_elf_manager_refresh after a dlopen: the cache becomes what is linked,
\* and the ELFs that were not in it are kept for bh_task_manager_post_new_elf.
Refresh(t) ==
    /\ job[t].op = "post"
    /\ job[t].at = "begin"
    /\ cache' = Linked
    /\ job' = [job EXCEPT ![t].at = "pick", ![t].elfs = NewElfs]
    /\ UNCHANGED <<life, bad, cfi, gotVars, taskVars, patch>>

\* The proxy of dlclose holds the write lock from before the library goes until
\* the cache is refreshed, with no callback for ELFs this refresh adds.
Close(t, e) ==
    /\ t \in Loaders
    /\ IsIdle(t)
    /\ e \in Linked \ Preloaded
    /\ \A u \in Threads : ~Reading(u)
    /\ life' = [life EXCEPT ![e] = "gone"]
    /\ cache' = Linked \ {e}
    /\ UNCHANGED <<bad, cfi, gotVars, taskVars, job, patch>>

(***************************************************************************)
(* Public calls                                                              *)
(***************************************************************************)
\* bh_core_hook_single, _partial and _all: the task is on the list before it
\* is tried on the ELFs of the cache.
HookCall(t, k) ==
    /\ IsIdle(t)
    /\ status[k] = "new"
    /\ ListFree
    /\ listed' = listed \cup {k}
    /\ status' = [status EXCEPT ![k] = IF k \in Single THEN "unfinished" ELSE "longterm"]
    /\ job' = [job EXCEPT ![t] = Start("hook", {k})]
    /\ UNCHANGED <<elfVars, gotVars, manualOrig, saved, told, patch>>

\* What bh_task_handle goes through: the one ELF that find_elf returns, if any,
\* or a copy of the whole cache.
Handled(k) ==
    IF k \notin Single THEN {cache}
    ELSE IF cache \cap Callers[k] = {} THEN {{}}
    ELSE {{e} : e \in cache \cap Callers[k]}

\* bh_task_hook does nothing for a task that another thread has finished.
BeginHook(t) ==
    /\ job[t].op = "hook"
    /\ job[t].at = "begin"
    /\ \E k \in job[t].own :
        IF status[k] = "finished"
        THEN job' = [job EXCEPT ![t] = NoJob]
        ELSE \E es \in Handled(k) : job' = [job EXCEPT ![t].at = "pick", ![t].pairs = {k} \X es]
    /\ UNCHANGED <<elfVars, gotVars, taskVars, patch>>

\* Mutant: the task stays on the list.
StillListed(k) == listed

\* The list without the task.
Unlisted(k) == listed \ {k}

\* bh_core_unhook, with the stub that the hook call returned.
UnhookCall(t, k) ==
    /\ IsIdle(t)
    /\ status[k] \in {"unfinished", "finished", "longterm"}
    /\ \A u \in Threads : job[u].op = "hook" => k \notin job[u].own
    /\ ListFree
    /\ listed' = Unlisted(k)
    /\ status' = [status EXCEPT ![k] = "unlisted"]
    /\ job' = [job EXCEPT ![t] = Start("unhook", {k})]
    /\ UNCHANGED <<elfVars, gotVars, manualOrig, saved, told, patch>>

\* bh_task_unhook: in manual mode a task that has patched nothing is done, and
\* one that has replaced different functions cannot be undone.
BeginUnhook(t) ==
    /\ job[t].op = "unhook"
    /\ job[t].at = "begin"
    /\ \E k \in job[t].own :
        IF Manual /\ manualOrig[k] \in {Unset, Invalid}
        THEN /\ status' = [status EXCEPT ![k] =
                    IF manualOrig[k] = Unset THEN "destroyed" ELSE "unmatched"]
             /\ job' = [job EXCEPT ![t] = NoJob]
        ELSE /\ status' = [status EXCEPT ![k] = "unhooking"]
             /\ \E es \in Handled(k) :
                    job' = [job EXCEPT ![t].at = "pick", ![t].pairs = {k} \X es]
    /\ UNCHANGED <<elfVars, gotVars, listed, manualOrig, saved, told, patch>>

\* The next new ELF: bh_task_manager_post_new_elf takes the tasks on the list.
NextElf(t) ==
    /\ job[t].at = "pick"
    /\ job[t].pairs = {}
    /\ ~Patching(t)
    /\ \E e \in job[t].elfs :
        job' = [job EXCEPT ![t].elfs = @ \ {e}, ![t].pairs = listed \X {e}]
    /\ UNCHANGED <<elfVars, gotVars, taskVars, patch>>

\* Nothing is left to do; an unhook frees its task.
Finish(t) ==
    /\ job[t].at = "pick"
    /\ job[t].pairs = {}
    /\ job[t].elfs = {}
    /\ ~Patching(t)
    /\ job' = [job EXCEPT ![t] = NoJob]
    /\ status' = [k \in Tasks |-> IF job[t].op = "unhook" /\ k \in job[t].own
                                  THEN "destroyed" ELSE status[k]]
    /\ UNCHANGED <<elfVars, gotVars, listed, manualOrig, saved, told, patch>>

(***************************************************************************)
(* A task meets an ELF: bh_task_hook_or_unhook and bh_hook_manager_hook      *)
(***************************************************************************)
\* A task of type SINGLE is finished with the first ELF that matches, whatever
\* came of it; it is the only one to be told of an ELF that cannot be hooked.
Finished(k) == IF k \in Single THEN [status EXCEPT ![k] = "finished"] ELSE status
ToldSingle(k, e) == IF k \in Single THEN [told EXCEPT ![k] = @ \cup {<<e, "failed">>}] ELSE told

StartPatch(t, k, e) ==
    patch' = [patch EXCEPT ![t] = [task |-> k, elf |-> e, gots |-> GotsOf[e], ok |-> TRUE,
                                   locked |-> FALSE]]

\* Mutant: the address is reported after the entry has been patched.
ReportedLate(k, e) == saved

\* In manual mode the callback is told the address in the first entry, before
\* anything is patched and outside the hook lock.
Reported(k, e) == IF Manual THEN [saved EXCEPT ![k] = got[GotsOf[e][1]]] ELSE saved

\* The ELF has an error, or its control flow integrity check cannot be hooked.
Refuse(k, e) ==
    /\ e \in bad \/ cfi[e] = "failed"
    /\ status' = Finished(k)
    /\ told' = ToldSingle(k, e)
    /\ UNCHANGED <<elfVars, gotVars, listed, manualOrig, saved, patch>>

\* No entry for the symbol.
NoSymbol(k, e) ==
    /\ e \notin bad /\ cfi[e] = "ok" /\ GotsOf[e] = <<>>
    /\ status' = Finished(k)
    /\ told' = ToldSingle(k, e)
    /\ UNCHANGED <<elfVars, gotVars, listed, manualOrig, saved, patch>>

FindGots(t, k, e) ==
    /\ e \notin bad /\ cfi[e] = "ok" /\ GotsOf[e] # <<>>
    /\ saved' = Reported(k, e)
    /\ StartPatch(t, k, e)
    /\ UNCHANGED <<elfVars, gotVars, listed, status, manualOrig, told>>

\* The next pair of a hook or post-dlopen call.  A task that does not match the
\* ELF, or that another thread has finished, is passed over.
Visit(t) ==
    /\ job[t].at = "pick"
    /\ job[t].op \in {"hook", "post"}
    /\ ~Patching(t)
    /\ \E p \in job[t].pairs :
        LET k == p[1]
            e == p[2]
        IN  /\ job' = [job EXCEPT ![t].pairs = @ \ {p}]
            /\ IF e \in Callers[k] /\ (job[t].op = "post" => status[k] # "finished")
               THEN Refuse(k, e) \/ NoSymbol(k, e) \/ FindGots(t, k, e)
               ELSE UNCHANGED <<elfVars, gotVars, taskVars, patch>>

\* The first task to meet an ELF hooks __cfi_slowpath there, once and for all.
HookCfi(t) ==
    /\ job[t].at = "pick"
    /\ job[t].op \in {"hook", "post"}
    /\ ~Patching(t)
    /\ \E p \in job[t].pairs, r \in {"ok", "failed"} :
        /\ p[2] \in Callers[p[1]] \ bad
        /\ cfi[p[2]] = "no"
        /\ cfi' = [cfi EXCEPT ![p[2]] = r]
    /\ UNCHANGED <<life, cache, bad, gotVars, taskVars, job, patch>>

\* bh_hook_manager_unhook: an ELF with an error has no entries to restore.
VisitUnhook(t) ==
    /\ job[t].at = "pick"
    /\ job[t].op = "unhook"
    /\ ~Patching(t)
    /\ \E p \in job[t].pairs :
        /\ job' = [job EXCEPT ![t].pairs = @ \ {p}]
        /\ IF p[2] \in Callers[p[1]] \ bad /\ GotsOf[p[2]] # <<>>
           THEN StartPatch(t, p[1], p[2])
           ELSE UNCHANGED patch
    /\ UNCHANGED <<elfVars, gotVars, taskVars>>

(***************************************************************************)
(* Patching, one GOT entry at a time, under the hook lock of the ELF         *)
(***************************************************************************)
Entry(t) == Head(patch[t].gots)
Func(t) == FuncOf[patch[t].task]

\* The thread has the hook lock of the ELF, or takes it now.
AtEntry(t, op) ==
    /\ Patching(t)
    /\ (job[t].op = "unhook") = (op = "unhook")
    /\ patch[t].locked \/ \A u \in Threads : Patching(u) /\ patch[u].locked =>
                                             patch[u].elf # patch[t].elf

\* Mutant: the last entry alone decides.
ReportsLast(p, good) ==
    IF ~good THEN {<<p.elf, "failed">>}
    ELSE IF Len(p.gots) = 1 THEN {<<p.elf, "OK">>}
    ELSE {}

\* Each entry that fails is reported, and the ELF at the end if none did.
Reports(p, good) ==
    IF ~good THEN {<<p.elf, "failed">>}
    ELSE IF Len(p.gots) = 1 /\ p.ok THEN {<<p.elf, "OK">>}
    ELSE {}

\* On to the next entry; while it unhooks, a task reports nothing.
After(t, good) ==
    LET p == patch[t]
        last == Len(p.gots) = 1
    IN  /\ patch' = [patch EXCEPT ![t] =
               IF last THEN NoPatch
               ELSE [p EXCEPT !.gots = Tail(@), !.ok = @ /\ good, !.locked = TRUE]]
        /\ IF job[t].op = "unhook"
           THEN UNCHANGED <<told, status>>
           ELSE /\ told' = [told EXCEPT ![p.task] = @ \cup Reports(p, good)]
                /\ status' = IF last THEN Finished(p.task) ELSE status
        /\ UNCHANGED <<life, cache, cfi, listed, saved, job>>

\* Mutant: any value is taken for the original function.
VerifiedAnyhow(v) == TRUE

\* bh_hook_manager_verify_got_value: dladdr knows the value under the symbol's
\* name, or as some exported function; a trampoline it does not know at all.
Verified(v) == v \in Origs \cup Exported \/ (Bypass /\ v \notin Origs \cup Funcs)

\* Reading or writing the entry, or reading the program headers, traps.
Fault(t) ==
    /\ AtEntry(t, "unhook") \/ AtEntry(t, "hook")
    /\ "fault" \in Outcomes
    /\ bad' = bad \cup {patch[t].elf}
    /\ After(t, FALSE)
    /\ UNCHANGED <<gotVars, manualOrig>>

\* The entry is hooked for the first time: a new hook with the one function,
\* whose trampoline goes into the entry.
Create(t) ==
    LET g == Entry(t)
        n == Len(objs) + 1
    IN  /\ AtEntry(t, "hook")
        /\ ~Manual
        /\ hooks[g] = 0
        /\ "done" \in Outcomes
        /\ Verified(got[g])
        /\ objs' = Append(objs, [orig |-> got[g], enabled |-> {Func(t)}])
        /\ hooks' = [hooks EXCEPT ![g] = n]
        /\ got' = [got EXCEPT ![g] = n]
        /\ After(t, TRUE)
        /\ UNCHANGED <<bad, manualOrig>>

\* Mutant: a new hook stays when its entry could not be patched.
UndoneNot(t) ==
    /\ objs' = Append(objs, [orig |-> got[Entry(t)], enabled |-> {Func(t)}])
    /\ hooks' = [hooks EXCEPT ![Entry(t)] = Len(objs) + 1]

\* Mutant: a new hook is in the tree before its trampoline is made.
UndoneDangling(t) == hooks' = [hooks EXCEPT ![Entry(t)] = Len(objs) + 1] /\ UNCHANGED objs

\* Nothing stays of a new hook whose entry could not be patched.
Undone(t) == UNCHANGED <<hooks, objs>>

\* The trampoline cannot be made, or the entry fails its check or cannot be
\* written: the new hook, whose trampoline nobody holds, is abandoned again.
CreateFails(t) ==
    /\ AtEntry(t, "hook")
    /\ ~Manual
    /\ hooks[Entry(t)] = 0
    /\ "refused" \in Outcomes \/ ~Verified(got[Entry(t)])
    /\ Undone(t)
    /\ After(t, FALSE)
    /\ UNCHANGED <<bad, got, manualOrig>>

\* The entry has a hook: its function joins the list, and the entry is left as
\* it is; a function that is there already is refused.
Join(t) ==
    LET h == hooks[Entry(t)]
    IN  /\ AtEntry(t, "hook")
        /\ ~Manual
        /\ h # 0
        /\ objs' = [objs EXCEPT ![h].enabled = @ \cup {Func(t)}]
        /\ After(t, Func(t) \notin objs[h].enabled)
        /\ UNCHANGED <<bad, got, hooks, manualOrig>>

\* The function leaves the hook; a hook left empty is abandoned, and the entry
\* is given back the original function unless that fails.
Leave(t) ==
    LET g == Entry(t)
        h == hooks[g]
        rest == objs[h].enabled \ {Func(t)}
    IN  /\ AtEntry(t, "unhook")
        /\ ~Manual
        /\ h # 0
        /\ objs' = [objs EXCEPT ![h].enabled = rest]
        /\ IF rest # {}
           THEN After(t, TRUE) /\ UNCHANGED <<bad, got, hooks>>
           ELSE /\ hooks' = [hooks EXCEPT ![g] = 0]
                /\ \E r \in Outcomes :
                    /\ got' = IF r = "done" THEN [got EXCEPT ![g] = objs[h].orig] ELSE got
                    /\ bad' = IF r = "fault" THEN bad \cup {patch[t].elf} ELSE bad
                    /\ After(t, r = "done")
        /\ UNCHANGED manualOrig

\* The entry has no hook that the function could leave.
LeaveNothing(t) ==
    /\ AtEntry(t, "unhook")
    /\ ~Manual
    /\ hooks[Entry(t)] = 0
    /\ After(t, FALSE)
    /\ UNCHANGED <<bad, gotVars, manualOrig>>

(***************************************************************************)
(* Manual mode                                                               *)
(***************************************************************************)
\* Mutant: the first function is kept, whatever else the task replaces.
RememberedFirst(k, v) == IF manualOrig[k] = Unset THEN v ELSE manualOrig[k]

\* bh_task_set_manual_orig_func: a second, different function spoils it.
Remembered(k, v) ==
    IF manualOrig[k] = Unset THEN v
    ELSE IF manualOrig[k] = v THEN v ELSE Invalid

\* The entry is overwritten with the proxy, and what was there remembered.
Replace(t) ==
    LET g == Entry(t)
        k == patch[t].task
    IN  /\ AtEntry(t, "hook")
        /\ Manual
        /\ "done" \in Outcomes
        /\ Verified(got[g])
        /\ got' = [got EXCEPT ![g] = Func(t)]
        /\ manualOrig' = [manualOrig EXCEPT ![k] = Remembered(k, got[g])]
        /\ After(t, TRUE)
        /\ UNCHANGED <<bad, hooks, objs>>

ReplaceFails(t) ==
    /\ AtEntry(t, "hook")
    /\ Manual
    /\ "refused" \in Outcomes \/ ~Verified(got[Entry(t)])
    /\ After(t, FALSE)
    /\ UNCHANGED <<bad, gotVars, manualOrig>>

\* The entry is overwritten with what the task remembers, whatever it holds now.
Restore(t) ==
    /\ AtEntry(t, "unhook")
    /\ Manual
    /\ \E r \in Outcomes \ {"fault"} :
        /\ got' = IF r = "done" THEN [got EXCEPT ![Entry(t)] = manualOrig[patch[t].task]] ELSE got
        /\ After(t, r = "done")
    /\ UNCHANGED <<bad, hooks, objs, manualOrig>>

(***************************************************************************)
(* Specification                                                             *)
(***************************************************************************)
Init ==
    /\ life = [e \in Elfs |-> IF e \in Preloaded THEN "linked" ELSE "new"]
    /\ cache = Preloaded
    /\ bad = {}
    /\ cfi = [e \in Elfs |-> "no"]
    /\ got = OrigOf
    /\ hooks = [g \in Gots |-> 0]
    /\ objs = <<>>
    /\ listed = {}
    /\ status = [k \in Tasks |-> "new"]
    /\ manualOrig = [k \in Tasks |-> Unset]
    /\ saved = [k \in Tasks |-> Unset]
    /\ told = [k \in Tasks |-> {}]
    /\ job = [t \in Threads |-> NoJob]
    /\ patch = [t \in Threads |-> NoPatch]

Next == \E t \in Threads :
    \/ \E e \in Elfs : Load(t, e) \/ Close(t, e)
    \/ \E k \in Tasks : HookCall(t, k) \/ UnhookCall(t, k)
    \/ Refresh(t) \/ BeginHook(t) \/ BeginUnhook(t) \/ NextElf(t) \/ Finish(t)
    \/ Visit(t) \/ HookCfi(t) \/ VisitUnhook(t)
    \/ Fault(t) \/ Create(t) \/ CreateFails(t) \/ Join(t)
    \/ Leave(t) \/ LeaveNothing(t)
    \/ Replace(t) \/ ReplaceFails(t) \/ Restore(t)

Spec == Init /\ [][Next]_vars

(***************************************************************************)
(* Properties                                                                *)
(***************************************************************************)
\* Every variable has its type.
TypeOK ==
    /\ life \in [Elfs -> {"new", "linked", "gone"}]
    /\ cache \subseteq Elfs
    /\ bad \subseteq Elfs
    /\ cfi \in [Elfs -> {"no", "ok", "failed"}]
    /\ got \in [Gots -> Value]
    /\ objs \in Seq(Hook)
    /\ hooks \in [Gots -> 0 .. Len(objs)]
    /\ listed \subseteq Tasks
    /\ status \in [Tasks -> {"new", "unfinished", "finished", "longterm", "unlisted",
                             "unhooking", "destroyed", "unmatched"}]
    /\ manualOrig \in [Tasks -> Value \cup {Unset, Invalid}]
    /\ saved \in [Tasks -> Value \cup {Unset}]
    /\ told \in [Tasks -> SUBSET (Elfs \X {"OK", "failed"})]
    /\ job \in [Threads -> Job]
    /\ patch \in [Threads -> Patch \cup {NoPatch}]

Enabled(g) == IF hooks[g] = 0 THEN {} ELSE objs[hooks[g]].enabled

\* A call through the entry reaches the function, alone or in the hook's list.
Reaches(g, func) ==
    \/ got[g] = func
    \/ hooks[g] # 0 /\ got[g] = hooks[g] /\ func \in Enabled(g)

\* An ELF is reported to a task as hooked only if all its entries lead to the
\* proxy, and they do until the task is unhooked ("replace with the trampoline
\* address if we haven't done it yet").
OkMeansHooked ==
    \A k \in listed : \A e \in cache : <<e, "OK">> \in told[k] =>
        \A g \in Elements(GotsOf[e]) : Reaches(g, FuncOf[k])

\* Behind the trampoline of every entry there is the function the linker put
\* there, after restores that failed as well.
LeadsToOrig ==
    \A e \in cache : \A g \in Elements(GotsOf[e]) :
        hooks[g] # 0 => objs[hooks[g]].orig = OrigOf[g]

\* When an unhook returns, no entry leads to the proxy any more, for libraries
\* opened meanwhile too (tasks have functions of their own).
UnhookComplete ==
    \A k \in Tasks : status[k] = "destroyed" =>
        \A e \in cache \ bad : \A g \in Elements(GotsOf[e]) :
            FuncOf[k] \notin Enabled(g) /\ got[g] # FuncOf[k]

\* When no hook or post-dlopen call is under way, a task on the list is hooked in
\* every ELF it matches, or was told that it is not (tasks have functions of
\* their own; ELFs that cannot be hooked at all are not reported to all tasks).
NoElfMissed ==
    (\A t \in Threads : job[t].op \notin {"hook", "post"}) =>
        \A k \in listed \ Single : \A e \in (cache \cap Callers[k]) \ bad :
            \/ cfi[e] = "failed"
            \/ <<e, "failed">> \in told[k]
            \/ \A g \in Elements(GotsOf[e]) : FuncOf[k] \in Enabled(g) \/ got[g] = FuncOf[k]

\* In manual mode a proxy can be called only after its callback was told which
\* function to call ("we need to execute the hooked callback first").
SavedFirst ==
    \A e \in cache : \A g \in Elements(GotsOf[e]), k \in Tasks :
        got[g] = FuncOf[k] => saved[k] # Unset

\* When an unhook in manual mode returns, every ELF that was reported as hooked
\* has its own original functions again, though a task keeps one address for
\* all entries (one task for an entry, and every write succeeds or traps).
Restored ==
    \A k \in Tasks : status[k] = "destroyed" =>
        \A e \in cache \ bad : <<e, "OK">> \in told[k] =>
            \A g \in Elements(GotsOf[e]) : got[g] = OrigOf[g]

\* That function is not the proxy itself ("may call the original function
\* through this address in the proxy function").
NotItself == \A k \in Tasks : saved[k] # FuncOf[k]

=============================================================================
