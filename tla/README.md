# TLA+ models of nativehook

nativehook is an Android demonstration of function hooking. It holds two native
libraries and an application that uses them:

* **plthook** (`src/plthook`, modelled on ByteDance's bhook) redirects the GOT
  entries through which libraries call each other;
* **shadowhook** (`src/shadowhook`, modelled on ByteDance's shadowhook, not
  complete in this repository) rewrites the first instructions of a function.

Both run inside a process they do not control: any thread may call a hooked
function, open or close a library, or be killed inside a hook while other
threads hook and unhook. The repository has no tests of any of this. The
modules here state what must hold, check it with TLC on small instances and
prove the central invariants with TLAPS.

## 1. The system

### Components, state and operations

| Component (source) | State | Operations | What makes it correct |
|---|---|---|---|
| hook chain (`bh_hook.cpp`) | per GOT entry: original function, singly linked list of (function, enabled, task) items, a mutex for writers | add, revive, disable; calls read the list without the mutex | one enabled item per function; a hooked task's proxy stays enabled; an unhooked one never comes back |
| trampoline and call stacks (`bh_trampo.cpp`, `bh_trampo_*.cpp`, macros of `include/plthook.h`) | per thread: a stack of at most 16 frames (list head, original, return address), from a cache of 1024 or mapped | push on entry, get the next proxy, pop on return, TLS destructor | a proxy finds its own frame; no proxy runs twice in a call; recursion goes to the original; stacks are not shared |
| hook manager (`bh_hook_manager.cpp`) | tree of hooks by GOT address, tree of abandoned hooks | verify and write GOT entries, restore them, CFI hook per ELF; automatic and manual mode | what is reported OK is hooked; an unhook leaves nothing; entries lead back to their own original |
| tasks (`bh_task.cpp`, `bh_task_manager.cpp`) | per request: type, status, manual original, callback; the list of tasks under a rwlock | create, add, hook in the cached ELFs, hook in a new ELF, unhook | every listed task meets every ELF; a SINGLE task once |
| ELF manager (`bh_elf_manager.cpp`) | set of known ELFs, abandoned ELFs, ignore list | refresh from the linker's list, iterate over a copy, find | the cache follows the linker's list |
| ELF reader (`bh_elf.cpp`, `bh_sleb128.cpp`, `bh_dl_iterate.cpp`) | parsed dynamic section, error flag, locks | look up imports and exports, protect | every place that refers to a function is found, once; a trap leaves no lock held |
| DL monitor (`bh_dl_monitor.cpp`) | hooks of dlopen and dlclose, callbacks, rwlock against dlclose | proxies refresh the cache and post new ELFs | no library is missed; no ELF is used after dlclose |
| linker access (`bh_linker*.cpp`) | the linker's mutex, a per-thread count | lock, count | no lock cycle with the cache |
| recorder (`bh_recorder.cpp`) | string table and record buffers with limits, an error latch | add, dump | records refer to their strings |
| core (`bh_core.cpp`, `plthook.cpp`) | init status, mode, the managers | init, hook, unhook | init once; nothing before it |
| trampoline memory (`common/sh_trampo.cpp`) | list of executable pages, a flag and a stamp per slot | allocate near an address, free with a delay | slots do not overlap, are in reach and rest before reuse |
| enters, exits (`sh_enter.cpp`, `sh_exit.cpp`) | slots outside, or gaps inside, a library | allocate, free | an exit is in branch range and not shared |
| hub (`sh_hub.cpp`) | per function: proxies, stacks of 127 frames, hubs waiting to be freed | like the hook chain, with a reentrancy flag | as the hook chain; nothing is freed under a running call |
| inline hooks and instruction rewriting (`arch/arm64`, `arch/arm`) | per hooked function: the words it replaced, its exit, its enter | rewrite the first instructions into the enter, write the branch, restore | the function leads to its hub, the enter does what the function did, nothing else changes |
| shadowhook linker, signal guards, utilities, JNI | see `PROJECT.json` | | |

### How they interact

`plt_hook_*` calls (`bh_core.cpp`) create a task, put it on the task list and
apply it to the ELFs of the cache; for each ELF the hook manager finds the GOT
entries, and under the ELF's hook lock adds the proxy to the entry's hook and
writes the hook's trampoline into the entry. The DL monitor's own proxies of
dlopen and dlclose, which are ordinary hooks, refresh the cache; dlopen then
applies every listed task to every new ELF. At run time a call through a
patched entry enters the trampoline, which pushes a frame and jumps to the
first enabled proxy; the proxy asks for the next one, calls it, pops and
returns. shadowhook's hubs, enters and exits take their code memory from one
trampoline memory manager each.

### What is hard

* lists walked without a lock while items are added and flags flipped;
* a frame that must be popped by exactly the call that pushed it, among nested
  calls, recursive calls that push nothing, full stacks and threads that exit;
* a hook call, an unhook and a dlopen on three threads that reach the same GOT
  entry, and a dlclose between the copy of the cache and its use;
* a monitor of dlopen and dlclose that is itself made of hooks, and is started
  by the first hook call while other threads open and close libraries; six locks
  taken in different orders by hook calls, by proxies and by the linker;
* writes of GOT entries that fail half way: what is reported, what is undone,
  what a later hook takes for the original function;
* code memory that a thread may still be executing when it is freed.

`PROJECT.json` lists the hazards one by one with the line where each bites.

## 2. The modules

| Module | Models | Extends / uses |
|---|---|---|
| `HookedCall` | abstract specification: what the caller of a hooked function is promised | |
| `HookChain` | `bh_hook.cpp` and the run-time half of `bh_trampo.cpp` | refines `HookedCall` |
| `HookManager` | `bh_hook_manager.cpp`, `bh_task.cpp`, `bh_task_manager.cpp`, and what they need of `bh_core.cpp`, `bh_elf_manager.cpp`, `bh_dl_monitor.cpp` | |
| `DlMonitor` | `bh_dl_monitor.cpp`, the start in `bh_task_manager.cpp`, the refresh in `bh_elf_manager.cpp`, the linker's mutex | |
| `ElfReader` | the lookups of `bh_elf.cpp` as functions over an ELF | |
| `ElfImages` | what is true of ELFs a static linker makes (external), and what is to be found in them | `ElfReader`, `HookManager` |
| `ShTrampo` | `common/sh_trampo.cpp` and the requests its users make | |
| `ShHub` | `sh_hub.cpp` | |
| `A64Rewrite`, `A32Rewrite` | the rewriting of arm64 and of A32 instructions, with a small semantics to run both sides on | |
| `InlineHook` | `arch/arm64/sh_inst.cpp`, `sh_exit.cpp`, the enters | `A64Rewrite` |
| `SharedHook` | hubs and inline hooks together | `ShHub`, `InlineHook`; instance of `A32Rewrite`; refines `ShHub` |
| `HookChainProofs`, `HookManagerProofs`, `DlMonitorProofs`, `ShTrampoProofs`, `ShHubProofs`, `SharedHookProofs` | theorems | the module of the name, `TLAPS` |
| `RewriteProofs` | the enter does what the function did | `SharedHook`, `TLAPS` |
| `ElfProofs` | the reader finds every place of a function in every ELF | `ElfImages`, `TLAPS` |
| `MCElfImages` | a small static linker, which makes the ELFs of the run `hookmgr` | `ElfImages` |
| `MC*`, the others | small instances for TLC | |

How they fit together. `HookChain` and `HookManager` meet at the hook: `HookManager`
keeps for each hook the set of its enabled functions and cares about which GOT
entry leads to it; `HookChain` keeps the ordered list of items and cares about
calls. `HookManager` and `DlMonitor` meet at the task: in `HookManager` a
dlclose is one step and the monitor is there from the start, so that what a task
does to one ELF can be followed entry by entry; in `DlMonitor` that is one step,
and the locks, the refresh and the start are followed. `ElfReader` gives
`HookManager` its GOT entries: the instance of the run `hookmgr` computes them
from an ELF. `InlineHook` uses the promise of `ShTrampo`, that a slot near the
function is free or there is none.

### HookChain

| TLA+ | code |
|---|---|
| `chain[h]` | `running_list` of a hook, oldest first: the list head is the last element, so that "later in the list" is a smaller index |
| `abandoned` | hooks that `bh_hook_manager_delete_func` moved to `abandoned_hooks` |
| `mem`, `used`, `frames` | the TLS value, `bh_hub_stack_cache_used`, and the frames stored in each piece of stack memory, which outlive the thread |
| `walk` | a thread between two reads of a list it walks without a lock |
| `calls` | the native calls a thread is in: which function, through which trampoline, where it returns to |
| `AddFunc`, `Unhook`, `DeleteFunc` | a task reaches the hook; `bh_core_unhook`; `bh_hook_manager_delete_func` |
| `CallHook`, `PushWalk`, `PushFrame` | `bh_trampo_push_stack`: stack and recursion check, one item per step, the push |
| `GetPrev`, `PrevWalk` | `bh_trampo_get_prev_func`: the search for the own item, then one item per step |
| `ProxyReturn`, `OrigReturn`, `ThreadExit` | `PLT_HOOK_POP_STACK` and return; return of the original; `bh_trampo_stack_destroy` |

A return address is abstracted to the pair of the calling function and the GOT
entry (or `Prev` for the call site of `PLT_HOOK_CALL_PREV`). The search for the
own item in `GetPrev` is one step: functions of items never change, and the
frame's list only grows in front of the frame's head, so that its result does
not depend on when it runs. Proxies follow the documented protocol: each pops
when it returns, whether it called the next function or not. A proxy may exit
its thread, call other hooked functions and recurse.

`KeepsPromise` maps each native call of a thread to its situation in `HookedCall`:
through which hook, in which proxies since the trampoline was entered, and whether
the innermost function is a proxy or the original.

### HookManager

| TLA+ | code |
|---|---|
| `life`, `cache`, `bad`, `cfi` | what the linker has mapped; the tree of ELFs; the error flags; `cfi_hooked` and `cfi_hooked_ok` |
| `got` | the value of each GOT entry: an original, a proxy (manual mode), or the number of a hook, which stands for its trampoline |
| `hooks`, `objs` | the tree of hooks by GOT address; every hook created, so that an entry can still hold the trampoline of an abandoned one |
| `listed`, `status`, `manualOrig` | the task list, `status`, `manual_orig_func` |
| `saved`, `told` | what the user's hooked callback was told: the address of `ORIG_ADDR`, and success or failure for each ELF |
| `job`, `patch` | the call a thread is in, with the pairs of task and ELF left; the entries of one ELF left |
| `Load`, `Refresh`, `NextElf` | the linker maps a library; `bh_elf_manager_refresh`; `bh_task_manager_post_new_elf` |
| `Close` | the dlclose proxy, atomic because it holds the write lock from before the library goes until the cache is refreshed |
| `HookCall`, `BeginHook`, `UnhookCall`, `BeginUnhook`, `Finish` | the public calls |
| `Visit`, `HookCfi`, `VisitUnhook` | one task meets one ELF |
| `Create`, `CreateFails`, `Join`, `Leave`, `LeaveNothing`, `Fault` | one GOT entry in automatic mode |
| `Replace`, `ReplaceFails`, `Restore` | one GOT entry in manual mode |

One symbol is hooked. A library that is closed and opened again is another ELF,
possibly with entries at the same addresses. `Visit` reads the status of the
task and the first GOT entry in one step; the entries themselves are patched in
steps of their own, under the hook lock. A hook whose entry could not be
patched is left out of `objs`, since nothing holds its trampoline. The order
of a task's ELFs, and of the tasks on the list, is left open.

### ShTrampo

`pages` is the list of pages, `busy` and `stamp` the flags and timestamps,
`owned` the slots callers hold with the request each answers (a history
variable), `clock` the time of day. `Reuse`, `NewPage` and `AllocFails` are the
three ways through `sh_trampo_alloc`, `Free` is `sh_trampo_free`. Addresses are
natural numbers up to `MaxAddr`; the distances are cut as the code cuts them.
The time an allocation compares stamps with is an arbitrary value, because
`settimeofday(&now, NULL)` leaves `now` as it was. `Requests` are those of the
callers: hubs and enters ask with a hint of 0, exits with a hint and a size of
8 or 16 bytes, which divides a page (`ReachAssumption`).

### DlMonitor

| TLA+ | code |
|---|---|
| `held`, `readers` | the linker's mutex, `elfs_lock` and the dlclose rwlock by their writers, the mutexes of the two starts and of the one shot; readers of the dlclose rwlock |
| `mapped`, `maps` | the linker's list: which mapping of a pathname is there, and how many there were |
| `cache`, `abandoned` | the tree of ELFs by pathname, with the mapping each describes; the list of abandoned ELFs |
| `listed`, `applied`, `refused` | the task list; which task met which ELF; calls answered with `INITERR_DLMTR` |
| `hooked`, `initing`, `inited`, `ok`, `post` | the monitor's own hooks; `bh_dl_monitor_initing`; the flags `inited`, `inited_ok` of the manager, of the monitor, and of the one shot; `post_dlopen` and `post_dlclose` |
| `noticed`, `dropped`, `unseen` | ghosts: ELFs whose dlopen went through the refresh, those that a refresh of dlclose found first, and those that stayed in the cache when their library was closed |
| `Open`, `CtorOpen`, `LinkerReturn`, `AfterOpen` | dlopen with its constructors under the linker's mutex, then the proxy, which does nothing when the thread is still in the lock |
| `BeginClose`, `LockClose`, `Unmap` | the dlclose proxy: the write lock, the linker, the refresh, or `NoRefresh` while `post_dlclose` is not set; `CloseUnseen` before the proxy is in place, where a close takes no lock: before the start of the monitor, during it, and after it failed |
| `Read`, `BeginRefresh`, `Iterate`, `PostNewElf`, `PostDone` | the read lock, `bh_elf_manager_refresh`, and the listed tasks applied to the new ELFs |
| `HookCall`, `BeginHook`, `OneShot`, `CopyElfs`, `ApplyTask` | `bh_task_manager_hook`: the start, the one-shot refresh, `bh_elf_manager_iterate` over a copy |
| `InitManager`, `AddCallback`, `InitMonitor`, `LockMonitor`, `MarkMonitor`, `HookNext`, `StartDone` | the start of the monitor by a hook call or by `plt_hook_add_dlopen_callback`: `inited` read without the lock, then the lock, then read again; the monitor hooks its functions by hook calls of its own, which come back here while `initing` is set |

Every read of a flag outside a lock is a step of its own, and every wait for a
lock a guard, so that a cycle of waits is a deadlock TLC reports. `Rest` lets the
threads stop only when no call is under way.

### ElfReader

An ELF is a record of symbols, hash tables and relocations. The functions are
those of `bh_elf.cpp`: `FindBySysv`, `FindByGnu` (bloom filter, bucket, chain),
`FindByImports`, `FindByRelocs`, their order in `ImportSymbol` and `ExportSymbol`,
the decoding of packed relocations in `Unpacked`, and the GOT entries found by
name (`ImportSlots`) and by the function they hold (`CalleeSlots`).

`ElfImages` says what the formats promise of an ELF (`IsLibrary`): a symbol's name
occurs once; a bucket of the SYSV table has its first symbol and each symbol the
next; the symbols of the GNU table are grouped by bucket, the last of a bucket is
marked and the filter has two bits of each; no place has two relocations, and jump
slots are relocations of the PLT; the packed stream is the number of relocations, an
offset, and groups whose headers hold what their relocations have in common
(`IsGroup`, `IsStream`). `EveryPlaceFound` compares what the reader finds in the
constant `Libraries` with the places that the relocations name. `MCElfImages` is a
small static linker: it takes functions with the number of their jump slots, GOT
entries and pointers in data, and writes symbols, tables and relocations, packed with
or without common fields. TLC evaluates `LibrariesAssumption`, that what it writes
meets `IsLibrary`.

### ShHub

| TLA+ | code |
|---|---|
| `phase`, `stamp`, `now` | how far a hub is between `sh_hub_create` and its `free`; `destroy_ts`; the clock |
| `proxies`, `owners` | `hub->proxies`, oldest first; what the callers think is hooked (ghost) |
| `trampo` | the place of a hub's trampoline, one of `Trampos`; after the unhook has given it back, the place it had |
| `mem`, `used`, `frames` | the TLS value, `sh_hub_stack_cache_used`, the stacks |
| `walk`, `calls`, `began` | a thread in the trampoline or on a list; its native calls; when the outermost began (ghost) |
| `AddProxy`, `DeleteProxy` | `sh_hub_add_proxy`, `sh_hub_delete_proxy` |
| `Create`, `Hooked`, `BeginDestroy`, `Sweep`, `Retire` | `sh_hub_create`; `sh_inst_hook`; `sh_hub_destroy` in its three parts: the time; the freeing of hubs that have rested, and at once of one that was never hooked; the trampoline given back and the own hub put on the list |
| `CallHub`, `PushStack`, `PushWalk`, `PushFrame` | `sh_hub_push_stack`, one item of the list at a time |
| `AllowReentrant`, `DisallowReentrant` | the flag of the current frame |
| `GetPrev`, `PrevWalk`, `ProxyReturn`, `OrigReturn`, `ThreadExit` | `sh_hub_get_prev_func`, `sh_hub_pop_stack`, the returns, the TLS destructor |

Nothing counts the threads inside a hub; that it is not freed under one of them
rests on the clock alone. `CallMax <= Delay` states the assumption the code makes:
a hooked call, nested ones included, takes no longer than `SH_HUB_DELAY_SEC`.

The trampoline of a hub does not last as long as the hub. `sh_hub_destroy` gives its
place back at the unhook (`sh_hub.cpp:386`), to an allocator that lets it rest for 5
seconds, less than the 10 of the hub, and as `Quarantine` shows for none at all. So
`Create` may take the place of a trampoline that threads are still in: its words are
zeroed (`sh_trampo.cpp:82`), then code and data are written again. A thread in there
goes on with the old hub, if it has read the data before; or is led to the new one,
if it reads them after; or runs into the zeros, which ends the process and is no step
here. A thread led to a hub before its function is hooked waits in the model: going
on it would jump to `orig_address`, which is 0, or use a hub that
is freed when the hook fails (`Unseen`). A thread led astray keeps the return address
it came with (`Astray`).

### A64Rewrite, A32Rewrite

Each type of instruction is translated to the words `sh_a64_rewrite` and
`sh_a32_rewrite` put into the enter. Both the original instruction and its block
run on a small machine (the place, the registers concerned, the link register, on
arm a stack), and `SameProgram` compares: where execution goes on (inside the moved
part at the block of that instruction), what is loaded from where, the return
address of calls, the stack, and on arm64 that X17 is lost only where the code
branches through it. A block must also be as long as `RewriteLen` says, since the
places of those behind it, and the branches into them, are computed from that.

`Part` is what can be moved: on arm64 any instructions, on arm the one or two words
that a hook replaces, without what the code does not get right: some operands
(`Covered`) and a BLX into the part itself (`LosesThumb`), see section 3. `Places`
adds up the lengths, `States` runs a block word by word; both are recursive functions.

### InlineHook

| TLA+ | code |
|---|---|
| `text` | the words of the functions, of the gaps and of the places for exits; an address counts words |
| `slots`, `insts`, `enters` | exits held from the trampoline memory; `sh_inst_t` (length of the backup, exit, where it is); enters held |
| `stuck` | `sh_exit_alloc_in_library` returned from the middle (`sh_exit.cpp:366`) with the lock held |
| `Gaps`, `Room`, `ClearedFirst` | `sh_exit_get_gaps`; the search of a gap; the clearing of a gap, once, with a flag left in it |
| `InlineAssumption`, `LinkerAssumption`, `FunctionAssumption`, `SlotAssumption` | what is taken for granted: each segment has pages of its own and each library a range; functions lie in segments and do not overlap, and each has one object; no word of a library is taken for half of an address; exits of the trampoline memory do not overlap and are in no library (`ShTrampoProofs` proves the former) |
| `ExitAlloc` | outside the library, then inside, gap after gap, where a gap that cannot be written is passed by (`sh_exit.cpp:333`); success whatever the two say |
| `HookWithExit`, `HookWithoutExit`, `HookFails`, `Unhook` | `sh_inst_hook` with its two ways, and `sh_inst_unhook` |

### SharedHook

Puts an inline hook under every hub: `SharedHooked` is `Hooked` and one of the ways
of `sh_inst_hook`; `SharedUnhook` is `BeginDestroy` and `Unhook`; a thread gets to
the hub only if the words at the function lead there. The layers in between
(switch and task) are not in the repository; their lock is taken as given.

## 3. What is checked

| Run | Question | Bounds and why they are enough |
|---|---|---|
| `chain` | Do frames, order, recursion and flags stay right while hooks come and go? | one thread, three GOT entries of which two have one original, two tasks, stacks of two frames, calls nested three deep: a nested call through another GOT entry, a recursive one and one that finds the stack full all occur, with the list changing at every step |
| `chain_promise` | Does every run of the trampoline look like the promised call? | two tasks share a function, a stack of one frame, so that the bypass occurs; `KeepsPromise` maps the native calls of each trampoline entry to one call of `HookedCall`. With four tasks that share one function a proxy is entered twice in a call (the finding on the search by function), which this instance is too small for |
| `chain_threads` | Are stacks kept apart, and does every call return? | two threads and one cached stack, so that slots are recycled, the cache runs out and a mapping is used |
| `chain_shared` | The comment of `get_prev_func` with shared functions: violated | see Findings |
| `shtrampo` | Do slots overlap, get lost, or lie out of reach? | two pages of two slots, a caller without a hint, one reaching backwards and one past the end of the address space; any time from the far past to the future |
| `shtrampo_quarantine` | Does a freed slot rest? Violated | see Findings |
| `hookmgr` | Automatic mode: does OK mean hooked, and unhooked mean gone? Is every GOT entry found? | one preloaded library and one with two entries that is opened and closed, an ALL and a SINGLE task, one thread that hooks and one that also opens and closes, every write done, refused or trapped; `EveryPlaceFound` tries all ELFs of a few functions with either or both hash tables, names that collide, and every combination of common fields of packed relocations |
| `hookmgr_manual` | Manual mode: is the original known in time and restored? | libraries with different originals and one without the symbol; one task for each entry |
| `hookmgr_saved` | The comment on the callback's address: violated | see Findings |
| `hookmgr_reload` | The comment on the trampoline address: violated | see Findings |
| `shared_hook` | Does a hooked function lead to its hub and back, and is no hub freed under a call? | one thread and two functions of one library, so that their gaps and exits are shared: one hooked by two proxies, of which one allows reentrancy, one too short for the jump of four words and out of reach of the first one's gap. Stacks of two frames, calls nested two deep and one more that finds the stack full. A clock of two values with a delay of 0 is enough, since only "later than" matters. Branches of 6 bits reach some places and not others; the memory for exits has one slot; the memory for trampolines has two places, interchangeable (`SYMMETRY`), so that a new hub may take a fresh one or one that a thread is still in; `RelocationSound` tries every type of instruction, and pairs of them that jump into each other |
| `dlmon` | Is there a deadlock, does every call return, is a library missed, is an ELF used after it was destroyed or, where the monitor can see to it, after its library is unmapped? | two threads with a library each, one of them opened twice and with a constructor that opens a third, two tasks, a start of the monitor by a hook call or by a dlopen callback that may fail: two loads race, a close races a hook call, and either start races the other and the closes. Deadlock is checked |

Bounds that are not in the code: `AddMax` (how often one task reaches one hook),
`NestMax` (hooked calls in progress on a thread) and one nested call per
function body in `HookChain`; `ClockMax` and the fixed `PageAddrs` in
`ShTrampo`; in `HookManager` every library is opened at most once; `MapMax` in
`DlMonitor`, and no task is unhooked there; `NestMax` and `TimeMax` in `ShHub`, a
clock that moves only while a hub is on its way out, and each hub object is used
once; `short` in `SharedHook` splits the run in two: where memory is short hooks
fail in every way but no thread calls, otherwise hooks take the first place there
is. `Bypass` is FALSE in every run: the functions of the linker, whose entries pass
verification whatever they hold, are left to a later instance.

Deadlock is checked in `dlmon`. The other instances stop when their bounded calls
are used up.

### Fairness

* `CallReturns` (`HookChain`): weak fairness of the steps of a thread that is inside
  a hooked call. A running thread keeps running, and the code it runs there takes
  no lock. No fairness is assumed for hooking, unhooking, new calls or thread
  exit.
* `HookReturns` (`DlMonitor`): weak fairness of `Continue(t)` for each thread, the
  steps of a call under way, not of beginning another. A thread goes on when the
  lock it waits for is free and stays so; nothing stronger is assumed of the locks,
  and a constructor may but need not open its libraries.

### Findings

* **Search by function** (`chain_shared`, `bh_trampo.cpp:234`). A list may hold
  several items of one function, one for each task, because a function disabled
  by the unhook of one task may be added by another. `get_prev_func` then finds
  the newest item instead of the caller's own and runs part of the chain again.
* **Uninitialised time** (`shtrampo_quarantine`, `sh_trampo.cpp:47`).
  `settimeofday` where `gettimeofday` is meant: the rest period of freed code
  memory depends on what was on the stack.
* **Callback told the proxy** (`hookmgr_saved`, `bh_hook_manager.cpp:457`). In
  manual mode the original is read outside the hook lock; when the hook call
  and a dlopen reach an ELF together, the second callback gets the proxy itself.
* **OK without a patched entry** (`hookmgr_reload`, `bh_hook_manager.cpp:344`).
  The hooks of a closed library stay in the tree. When a library appears at the
  same address, hooks join the stale list and report OK, and the GOT entry is
  never written.

What the properties except, on purpose: `UnhookComplete`, `Restored` and
`NoElfMissed` say nothing of ELFs with the error flag, which the code gives up;
`NoElfMissed` excepts ELFs whose CFI hook failed. `UnhookSticks`,
`HookedStaysEnabled`, `UnhookComplete` and `NoElfMissed` are checked with tasks
that have functions of their own: the chain has no way to tell tasks apart that
share one. `NoElfMissed` is checked with one loading thread: with two, the refresh
of a dlclose can add a library that its dlopen then no longer finds new, and no
task is applied to it. `Restored` is checked with one task for each entry, and
for the ELFs reported as hooked: a manual unhook writes the remembered address
into every entry of the symbol, those of a library that was opened after the
task had left the list included.

What the newer properties except:

* `ReachesHub` says nothing of a function for which no exit was found:
  `sh_exit_alloc` returns 0, success, even when both places fail (`sh_exit.cpp:444`),
  and the function gets a branch to address 0 (`arch/arm64/sh_inst.cpp:109`).
* `AllHooked` excepts the ELFs a dlclose refresh was the first to find
  (`bh_task_manager.cpp:82`): the dlopen of another thread no longer finds them new.
  The one-shot refresh (`:124`) drops new ELFs the same way, and `AllHooked` shows
  that it does no harm.
* `ManagerAnswersRight` excepts a dlopen callback that is starting the monitor: a
  hook call that meets it half way takes its failure for the manager's own, and
  every later hook call is refused although the monitor is there.
* `EveryPlaceFound` excepts (`Unseen`) a function that an ELF exports, in an ELF
  with only a SYSV table, packed relocations and no jump slot for it: the relocations
  searched last (`bh_elf.cpp:546`) are only the unpacked ones. It assumes that a name
  occurs once among the dynamic symbols.
* `ElfStaysMapped` excepts the ELFs in `unseen` from being mapped, not from being
  kept. A dlclose takes the lock and refreshes only through its proxy: one before
  the first hook, during the start of the monitor up to `dlclose` being hooked, or
  after a start that failed does neither (`CloseUnseen`), and one through the proxy
  does not refresh while `post_dlclose` is unset (`NoRefresh`,
  `bh_dl_monitor.cpp:446`: `plt_hook_add_dlopen_callback` starts the monitor before
  the first hook does). If the cache has the ELF it stays there, and hook calls read
  the symbols of a library that is gone. The code has no other defence there than the
  signal guard. `AllHooked` excepts libraries that are opened again over such an ELF.
  A library belongs to one thread; if another opens the same pathname between the
  unmapping and the refresh, the refresh keeps the stale ELF (`bh_elf_manager.cpp:151`).
* `NoUseAfterFree` is about hubs that were hooked: no thread holds the address of one,
  walks its list or has a frame of it once it was freed. It does not say that the words
  of a trampoline stay while a thread is in it (they do not, see `ShHub`), nor that a
  thread led astray never reads a hub whose hook failed and which is freed at once.
* `Reentry` excepts calls that came by the trampoline of another hub: such a thread may
  have looked for a recursive call while the new hub had no original function.
* In `InlineHook`, giving back an exit succeeds when its words are intact; the `mprotect`
  of `sh_exit.cpp:401`, on words that `:333` made writable before, is taken to succeed.
  If it did not, the exit and the enter would stay, as they do when the exit was
  changed. Where a hook fails after no exit was found, `sh_exit_free` reads address 0:
  as built `SH_SIG_TRY` catches nothing (`common/sh_sig.h:16`), the process ends, and the
  model has no step. The same holds of other traps, those of the search
  (`sh_exit.cpp:378`) included.
* `RelocationSound` leaves out A32 instructions that name SP, which the pushes of the
  block move, and ADD or SUB with the pc as both operands
  (`arch/arm/sh_a32.cpp:197-246`): only the first operand is replaced, so that the
  other one reads the pc of the enter. It also leaves out a BLX whose target lies in
  the moved part: bit 0 of the target is set (`sh_a32.cpp:177`) before `sh_a32_fix_addr`
  looks for its block (`:185`, `:146-150`), so that the loop goes one block too far and
  returns an address without bit 0. `FixThumb` has it so: without `LosesThumb` in
  `Part`, TLC refutes the property with a BLX to the second word of a part. Both are errors of the code.

## 4. What is proved

All proofs are checked by TLAPS 1.4.5 with Z3, Zenon and LS4, and use only the
assumptions named in the modules (`HookAssumption`, `NamesAssumption`,
`HookManagerAssumption`, `HookManagerNames`, `SizeAssumption`, `ReachAssumption`,
`DlMonitorAssumption`, `HubAssumption`, `HubNamesAssumption`, `SharedAssumption`,
`InlineAssumption`, `LinkerAssumption`, `FunctionAssumption`, `SlotAssumption`,
`PartsAssumption`, `ElfReaderAssumption`, `LibrariesAssumption`), which
TLC evaluates on every instance, and what a theorem itself assumes of the constants.

`HookChainProofs`, for every number of threads, hooks, tasks, slots and frames:

* `Types`: `Spec => []TypeOK`. Inductive with the invariant that a thread that is
  walking, or is in a proxy, holds stack memory, and that walks and frames stay
  within their lists, which only grow. The part that matters is that no stack
  exceeds `FrameMax`.
* `NoDuplicateProxy`: `Spec => []OneEnabledPerFunc`, for any sharing of functions
  among tasks: reviving an item is only reached when no enabled item has the
  function.
* `StacksApart`: `Spec => []OwnMemory`. `OwnMemory` alone is not inductive: a
  thread could claim a slot that another holds if `used` did not cover it, or
  get the mapping of another. The strengthening says that a slot held by a
  thread is marked used and that any other stack is the thread's own.

and of stacks, calls and unhooks, in the same module:

* `FrameOfTheProxy` (`OwnFrame`), `NoFrameLeft` (`StackBalanced`) and `EnteredOnce`
  (`NoReentry`).
* `CallsGoDown` (`ChainOrder`), `UnhookLasts` (`UnhookSticks`) and `HookLasts`
  (`HookedStaysEnabled`), if tasks have functions of their own (`OwnFunctions`). The
  first is false without it: the run that expects `ChainOrder` violated shows tasks
  that share a function.

The invariant `CInv` adds to the one of these, `IInv`: `ListsRight`, by which an item
has the function of its task, a task whose unhook deletes is off the list, and no
function occurs twice in a list if tasks do not share it; and for each thread
`WalkRight` (a push walk is not recursive, the walk of `get_prev_func` is behind the
innermost proxy), `FramesRight` (no two frames of one function), `CallsRight`,
`InOrder`, and `Matches`, a map from the frames to the calls that pushed them under
which every proxy, the later ones of a chain included, has a frame of its own hook
with no other chain started in between.

and of the promise, in the same module:

* `PromiseKept` (`KeepsPromise`), if tasks have functions of their own: `HookChain`
  implements `HookedCall`. Five lemmas say what a step does to the calls of a thread
  (a hooked call begins, a proxy goes on, a function returns, the thread exits, or the
  calls stay what they were) and to which step of `HookedCall` each maps. The invariant
  `PInv` adds `ChainRight` to `CInv`: the calls of a chain are of one hook and stand ever
  further down its list, from which it follows that no proxy is entered twice. Without
  `OwnFunctions` the refinement fails: four tasks that share one function, on one hook,
  give a run of 14 states in which the search by function starts the chain again.

`HookManagerProofs`, for every number of threads, libraries, entries and tasks:

* `Types` (`TypeOK`), in either mode. Its invariant `Common` says that a task at
  work for a hook call or a new library is on the list and one being unhooked never
  is again (`TasksRight`), that what a thread has in hand is in the cache (`InHand`),
  and that no entry holds a proxy in automatic mode (`NoProxyInGot`).
* `SavedFirstHolds` (`SavedFirst`), if tasks have functions of their own
  (`OwnFuncs`). The invariant `AllKnown` extends it from entries to whatever can
  come to be written into one: what tasks remember, and the work in progress.
* `LeadsToOrigHolds` (`LeadsToOrig`), in automatic mode and for a symbol that is not
  the linker's (`Automatic`): an entry holds its own original function or a
  trampoline (`HooksRight`), and only the former passes the check of a first hook.
* `OkMeansHookedHolds` (`OkMeansHooked`), if besides libraries have entries of their
  own (`Apart`; the run `hookmgr_reload` shows what happens without) and tasks have
  functions of their own. The invariant `Hooking` adds that an entry stands in its
  hook and in no other (`HooksStand`), that nothing is hooked or reported for an ELF
  before it is cached (`SeenFirst`), and that the entries a thread is done with lead
  to the proxy as long as none has failed (`SoFarRight`).
* `UnhookCompleteHolds` (`UnhookComplete`), if besides a task of type SINGLE names
  one library (`OneCaller`), since such a task is taken to one ELF only. The invariant
  `Unhooking` says that whatever entry still leads to the proxy is among those the
  unhook has still to visit (`StillToVisit`); a library opened meanwhile has none,
  because only tasks on the list are taken to it.
* `NoElfMissedHolds` (`NoElfMissed`), in automatic mode, if libraries have entries and
  tasks functions of their own and one thread opens and closes libraries (`OneLoader`,
  see section 3). The invariant `Covering` says for every listed task and cached
  library which of three has happened or will: the task is in its entries, was told
  that it is not, or is still to be taken there, by the hook call that added it or by
  the dlopen that has the library in hand.
* `RestoredHolds` (`Restored`), in manual mode, if the entries a task matches are no
  other task's (`Alone`), a task of type SINGLE names one library (`OneCaller`) and a
  write that does not succeed traps (`WrittenOrTrapped`, which excludes the writes that
  are refused: they leave the proxy in the entry). The invariant `Restoring` relates what
  a task remembers to what it was told: the one function it keeps is that of every
  entry in an ELF reported as hooked, or is marked of no use, and then the unhook is
  refused; and once the unhook has begun, an entry still replaced is among those it
  has yet to visit.

`ShTrampoProofs`, for every page size, slot size, address space and request:

* `Types`, `SlotsNeverOverlap` (`Disjoint`), `FlagsAlwaysMatch` (`FlagsMatch`),
  `AlwaysReached` (`Reached`) and `NoAbort` (`NeverAborts`). The invariant adds
  that pages do not overlap and occur once in the list, that every owned slot is
  a busy slot of a page, and that two owners never hold the same address. The
  lemmas are about the arithmetic: the slot index of an address is the slot it
  came from, slots of a page are apart, and a page accepted by `Usable` has a slot
  that `InRange` accepts; that one needs `ReachAssumption`.

`DlMonitorProofs`, for every number of threads, libraries, constructors and tasks:

* `Types` (`TypeOK`): with it that the write lock of dlclose keeps readers out, and
  that the linker's mutex is with a thread in a dlopen.
* `ElfStays` (`ElfStaysMapped`): no ELF in the hands of a hook call or a refresh was
  destroyed; and none is unmapped or of an earlier mapping, but for those of libraries
  closed before dlclose was hooked or while `post_dlclose` was not set.
* `ManagerRight` (`ManagerAnswersRight`), an action property.
* `NoneMissed` (`AllHooked`): no listed task misses an ELF. The invariant `Following`
  says where the news of an ELF is as long as a task has not met it: the one-shot refresh
  comes before any copy of the cache, and later a library is either in the cache a hook
  call copies after it was listed, or with a dlopen that has yet to read the list.

The invariant `IInv` has these parts. `Shape` is the types. `InLinker` says that the
linker's mutex is with the thread that has dlopen calls in progress, and where such
a thread may be. `HasTask`, `Start` and `Starts` say what a thread at each place of
the start holds, and which flags are set; `ManagerRight` follows from them. For
`ElfStays`: `Gate` and `GateShut` say that a thread with ELFs in hand is a reader or
holds the write lock, and that the two exclude each other; `Closes` follows the one
library a dlclose has in hand; `Counted` and `Gone` relate mappings to their numbers,
so that a mapping that is gone never comes back; `UpToDate` says that an ELF of the
cache describes the present mapping, unless a dlclose is between its unmapping and
its refresh with the write lock held, or the ELF is `OutOfDate`: it stayed when its
library was closed unseen. `ElfStaysMapped` alone is not inductive: what
a thread copies is only as good as the cache.

`ShHubProofs`, for every number of hubs, proxies and threads, any size of stack and
nesting of calls:

* `HubTypes`, `Agreement` (`CallersAgree`), `Order` (`ChainOrder`), `NoStaleUse`
  (`NoUseAfterFree`), `FramesOfCalls` (`FramesMatchCalls`) and `ReentryAllowed`
  (`Reentry`).

`NoStaleUse` is about the hubs; the trampolines' words are not kept under threads, and
`LedRight` is the lemma that a thread led to another hub changes nothing of the rest.

`IInv` has the types, `StacksOwned` (no two threads share a stack), `ListsRight`
(what `CallersAgree` says, by phases), and for each thread: `InTime` (a call that is
under way began at most `CallMax` ago), `WalkRight`, `FramesRight` and `CallsRight`
(every hub a thread uses is `Held`: still reachable, or taken down no earlier than
the thread's outermost call began; or, of a thread in a trampoline that was written
again, `Unseen`: not hooked yet), `InOrder`, and `Matches`, a map from the frames
of a stack to the calls that pushed them, which is what makes a pop take its own
frame. A hub is freed only when more than `Delay` has passed since its stamp; the
stamp of a `Held` hub is at least `began`, and `CallMax <= Delay` closes the argument.

`SharedHookProofs`:

* `Composed`: `SharedSpec => Spec`, the composition implements the hubs; from it
  `SharedNoStaleUse`, `SharedAgreement`, `SharedOrder`, `SharedFrames` and
  `SharedReentry`, the properties of the hubs the run `shared_hook` checks.
* `SharedTypes` (`SharedTypeOK`), `AlwaysReachesHub` (`ReachesHub`), `OrigAlwaysWorks`
  (`OrigWorks`) and `LibraryAlwaysKept` (`LibraryKept`), for every set of libraries,
  functions, gaps and slots, every page size and every width of the branch.

None of the last three is inductive. What is (`HInv`, theorem `InlineInvariant`) says
of every hook in use that its words stand at the function and its backup holds the
library's words, that its exit is whole and in reach, and that the gap around it is
not to be cleared any more (`HooksRight`: without the last part another allocation
could zero the exit); that a hook's address stands nowhere but where the hook put it
(`AddressesOwned`); and that `slots` and `enters` are those of the hooks in use. The
first lemmas show that functions, gaps and slots are apart (`GapsApart`, `GapWords`,
`SlotWords`, `FunctionsApart`), by the rounding of `sh_exit_get_gaps` and
`LinkerAssumption`; `BranchLands` that a distance in reach survives being cut to the
bits of the instruction and extended again; `ExitsApart` that no two exits overlap;
`Allocated` and `ExitWritten` that the search of an exit touches nothing that is
hooked (`Harmless`). The steps are `HookedWithExit`, `HookedWithoutExit`, `HookFailed`
and `Unhooked`. A corollary used on the way: `sh_inst_unhook` always finds its exit as it
left it, so that the branch in which the enter is kept is never taken.

`RewriteProofs`, for every part that can be moved and every place of the enter:

* `SameOnArm64` and `SameOnArm`: `SameProgram`, for arm64 parts of any length and for
  arm parts of one or two words that `Part` allows (covered operands, no BLX into the
  part). The run checks the same for parts of four
  instructions and less; here the registers, the addresses, the distances between the
  blocks and whether the condition holds are arbitrary.
* `Relocated` (`RelocationSound`), from these and `PartsAssumption`.

The argument has the same levels in both halves. `Places` and `States` are recursive
functions, and what such a function is needs induction over its domain. Here the
domain is a range of numbers, and the induction is on a set: the numbers for which
the function has its value, which has 0 and with each number the next, has them all
(`CountUp`, from `LeastOf`, which is well-foundedness of `<` applied to one set). So
`Places` and `States` exist and follow their equations; the blocks of a part that can
be rewritten stand in order, and a branch into the part is led to a block that is
there. Then come the words: one lemma says what each kind of word does to the state
(`DoBlr`, `DoInst32`, ...), others run the words of a block in order (`RunsSeven`,
`RunsNine`; a state that has left, or is at the end, stays), one says what the block of
each type does, and the last compares that with the instruction. On arm, where blocks
borrow registers, `Unused` always finds one that is neither an operand nor the result
(it chooses among one register more than can be in use), registers are pushed in
the order of their numbers and popped in the same, so that each gets its own value
back (`RestoredOne`, `RestoredTwo`), and a result that is the pc goes through the word
of the stack that the pop loads into the pc. The hypotheses are met: TLC evaluates
`PartsAssumption` and `RelocationSound` for the parts of the run `shared_hook`.

`ElfProofs`, for ELFs of any size, with any names, buckets and collisions:

* `Unpacks`: what `Unpacked` makes of a stream is the relocations that were packed.
* `FoundInLibrary`: in every library that meets `IsLibrary`, each place that refers to
  a function is found once by the function's name and once by its address, as many as
  there is room for, and what the ELF exports is found and nothing else.
* `Found` (`EveryPlaceFound`), from it and `LibrariesAssumption`.

The recursive functions of the reader (the walk of a SYSV chain, the decoder, `Picked`)
exist and follow their equations by the same induction on a set as above (`CountUp`). The argument
has three parts. Searches: the walk of a SYSV chain is at the symbol of place `n` after
`n` steps, so it meets the symbol, and a symbol of the name is the only one
(`FindsBySysv`); the GNU search starts at or before the symbol, in the same bucket, and
stops behind it (`FindsByGnu`); each search that finds nothing, or a symbol that is no
import, hands on to the next, and the last one finds the symbol of any relocation that
is not packed (`ImportSymbolIs`). Decoding: after `g` groups the decoder is at the end of
group `g`, its offset is that of the last relocation so far, and what it has put out is
the relocations up to there (`MoreGroups`, from `HeaderIs`, `OwnPartIs` and
`AfterGroupIs`, which read one group by the cases of its flags); every group takes two
numbers or more, so that as many rounds as the stream has numbers are enough. Entries:
the relocations in the order they are read are each read once (`GotRelocsAre`), those
picked keep their order (`PickedAre`), and the entries are the places (`SlotsPicked`).
The exception `Unseen` is the one named in section 3; without it the theorem is false.

Every state invariant and action property of the passing runs is proved. Only
model-checked are the liveness properties `CallReturns` and `HookReturns`, since
liveness is out of the prover's reach. Theorems that assume that tasks
have functions of their own say less than their runs where these share functions
within their bounds (`chain_promise`).

## 5. What is not modelled, and why

plthook

* The start of the library. `bh_core_init` compares (`==`) where it should assign the
  managers (`bh_core.cpp:63`, `:68`, `:73`), and plthook's `bytesig_init` never returns
  0, so that the library as it stands does not start. Every module begins with the
  state the managers' own create functions make, as after a corrected start.
* Recorder: sequential under one lock, and nothing else depends on it.
  `bh_recorder_add_hook` writes the header of a record from indices that are not set
  yet (`bh_recorder.cpp:254`), and `bh_recorder_add_unhook` falls through to its error
  exit (`:318`); a unit test finds both.
* Of the tasks: the callee path (it selects GOT entries by address; `CalleeSlots` covers
  its search), callbacks that hook again. Of the hook manager: the cap of 32 GOT
  entries in an ELF, and running out of memory between a hook and its first function
  (the hook then stays in the tree with no patched entry, with the effect of the
  reload finding).
* Of the ELF manager: the ignore list, and the list link shared by new and abandoned
  ELFs (`bh_elf_manager.cpp:199`), which only bites when a library is unmapped under a
  reader; the lock of dlclose prevents that once dlclose is hooked. Of the ELF reader:
  program headers and `mprotect`; that `dyn_parsed` is set before the parse
  (`bh_elf.cpp:249`), where the lock of the CFI hook, which comes first, keeps other
  threads out.
* Of the DL monitor: dlopen calls that fail, the list of user callbacks, and three
  situations at the edge: a constructor that hooks while another thread refreshes (the
  refresh waits for the linker's mutex with `elfs_lock` held, the constructor for
  `elfs_lock` with the mutex), a dlclose inside a constructor or destructor, which
  takes no lock and does not refresh, and a hook in a destructor, whose read lock
  fails with EDEADLK under the thread's own write lock and is then unlocked.
* Finding the linker's mutex, the CFI patch, the signal guard, utilities, JNI: system
  calls and formats without a protocol of their own.

shadowhook

* Thumb (`sh_t16.cpp`, `sh_t32.cpp`, `sh_txx.cpp` and the thumb part of
  `arch/arm/sh_inst.cpp`): the files call `sh_txx_fix_addr` and `sh_txx_is_addr_need_fix`,
  which nothing defines, so that what is built cannot be told. Read as it is meant,
  `sh_t16_parse_it` clears the first condition it has just set, and
  `sh_txx_fix_address` lacks a return.
* Linker, switch, task and recorder layers: `sh_linker.cpp` depends on files that are
  not in the repository.
* In `InlineHook`: that the 16 bytes of a jump are not written atomically; branches
  from the rest of a function back into its overwritten part; that a SIMD literal load
  stores below SP; that `dli_fbase` is taken for the load bias when gaps are computed; that
  an exit in a gap is zeroed by the unhook with no rest while a thread may be between
  the branch and the exit (exits of trampoline pages rest). As written the arm64
  part does not compile (`target_addr` at `sh_util.cpp:76` in the 64-bit branch); it is
  read as `target`. A function hooked again has another enter, so that recursion
  across two hubs of one function is not recognised by the code; `ShHub` has one
  enter for each hub as the code does.
* `sh_hub_allow_reentrant` works only for the first proxy of a chain, whose frame it is;
  the header promises it for any. `Reentry` states what the code does.
* Signal guard, errno, utilities, JNI and Java: wrappers.

The demo application only calls the public functions.
