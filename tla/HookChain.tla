----------------------------- MODULE HookChain -----------------------------
(***************************************************************************)
(* Automatic mode of plthook at run time: the hook chain of a GOT entry     *)
(* (bh_hook.cpp) and the per-thread call stack its trampoline keeps          *)
(* (bh_trampo.cpp).                                                          *)
(*                                                                           *)
(* A hook owns a list of proxy functions.  A call through the GOT enters     *)
(* the trampoline, which pushes a frame and jumps to the first enabled       *)
(* proxy; a proxy asks for the next one (get_prev_func), calls it, pops the  *)
(* stack and returns.  The lists are walked without a lock while other       *)
(* threads append proxies and flip their enabled flags.                      *)
(***************************************************************************)
EXTENDS Naturals, Sequences, FiniteSets

CONSTANTS
    Threads,    \* threads that call hooked functions
    Hooks,      \* hook objects, one per hooked GOT entry
    Origs,      \* original functions
    Funcs,      \* proxy functions
    Tasks,      \* hook requests
    OrigOf,     \* hook -> the original function its GOT held
    FuncOf,     \* task -> the proxy function it installs
    Targets,    \* task -> the hooks its callers match
    Slots,      \* entries of the static stack cache (BH_TRAMPO_THREAD_MAX)
    FrameMax,   \* BH_TRAMPO_STACK_FRAME_MAX
    AddMax,     \* bound: times one task reaches one hook
    NestMax,    \* bound: hooked calls in progress on a thread
    NoStack     \* a thread whose TLS key holds NULL

App  == "app"   \* code that is neither a proxy nor an original function
Prev == "prev"  \* the call site of PLT_HOOK_CALL_PREV inside a proxy

ASSUME HookAssumption ==
    /\ OrigOf \in [Hooks -> Origs]
    /\ FuncOf \in [Tasks -> Funcs]
    /\ Targets \in [Tasks -> SUBSET Hooks]
    /\ FrameMax \in Nat \ {0}
    /\ AddMax \in Nat
    /\ NestMax \in Nat

ASSUME NamesAssumption ==
    /\ Funcs \cap Origs = {}
    /\ App \notin Funcs \cup Origs
    /\ Prev \notin Hooks
    /\ Slots \cap Threads = {}
    /\ NoStack \notin Slots \cup Threads

VARIABLES
    chain,      \* hook -> items, oldest first: the list head is the last one
    abandoned,  \* hooks moved to abandoned_hooks
    adds,       \* <<task, hook>> -> times bh_hook_add_func was called
    gone,       \* tasks taken off the task list by an unhook
    deleted,    \* task -> hooks its unhook has dealt with
    mem,        \* thread -> the stack its TLS key holds
    used,       \* bh_hub_stack_cache_used
    frames,     \* stack memory -> the frames stored there
    walk,       \* thread -> the list walk it is in
    calls       \* thread -> native calls in progress, innermost last

chainVars == <<chain, abandoned, adds, gone, deleted>>
stackVars == <<mem, used, frames>>
vars == <<chainVars, stackVars, walk, calls>>

Memory == Slots \cup Threads    \* a slot, or the thread's own anonymous mapping
Item   == [func : Funcs, task : Tasks, enabled : BOOLEAN]
Caller == {App} \cup Funcs \cup Origs
Site   == Caller \X (Hooks \cup {Prev})
Frame  == [hook : Hooks, top : Nat, orig : Origs, ret : Site]
Call   == [fn : Funcs \cup Origs, hook : Hooks, ret : Site, first : BOOLEAN,
           at : Nat, stage : {"entry", "after"}, nested : BOOLEAN]

Idle == [mode |-> "idle"]
Walk == [mode : {"push", "found", "prev"}, hook : Hooks, ret : Site, at : Nat]

(***************************************************************************)
(* The chain: bh_hook_add_func and bh_hook_delete_func, each atomic under   *)
(* running_list_lock.                                                        *)
(***************************************************************************)
EnabledItem(h, f) == \E i \in DOMAIN chain[h] : chain[h][i].enabled /\ chain[h][i].func = f
OwnItems(h, k) == {i \in DOMAIN chain[h] : chain[h][i].func = FuncOf[k] /\ chain[h][i].task = k}

\* The first item of the list that the task may re-enable: the newest one.
Newest(S) == CHOOSE i \in S : \A j \in S : j <= i

\* Mutant: a function may be added while an enabled item already has it.
AddedUnchecked(h, k) ==
    IF OwnItems(h, k) # {} THEN [chain[h] EXCEPT ![Newest(OwnItems(h, k))].enabled = TRUE]
    ELSE Append(chain[h], [func |-> FuncOf[k], task |-> k, enabled |-> TRUE])

\* What bh_hook_add_func makes of the list: refuse a repeated function, revive
\* an item of the same task, or insert a new item at the head.
Added(h, k) ==
    IF EnabledItem(h, FuncOf[k]) THEN chain[h]
    ELSE IF OwnItems(h, k) # {}
         THEN [chain[h] EXCEPT ![Newest(OwnItems(h, k))].enabled = TRUE]
         ELSE Append(chain[h], [func |-> FuncOf[k], task |-> k, enabled |-> TRUE])

\* Mutant: an unhook does not take its task off the list before it starts.
EverListed(k) == k \in Tasks

\* The task list reaches the task: bh_task_manager_unhook takes it off first.
Listed(k) == k \notin gone

\* A task on the list reaches the hook: at the hook call itself, and again
\* when a refresh finds the ELF that holds the GOT entry.
AddFunc(k, h) ==
    /\ Listed(k)
    /\ h \in Targets[k] \ abandoned
    /\ adds[k][h] < AddMax
    /\ adds' = [adds EXCEPT ![k][h] = @ + 1]
    /\ \/ chain' = [chain EXCEPT ![h] = Added(h, k)]
       \/ ~EnabledItem(h, FuncOf[k]) /\ OwnItems(h, k) = {} /\ UNCHANGED chain  \* malloc fails
    /\ UNCHANGED <<abandoned, gone, deleted, stackVars, walk, calls>>

\* bh_core_unhook takes the task off the list before it deletes anything.
Unhook(k) ==
    /\ k \notin gone
    /\ gone' = gone \cup {k}
    /\ UNCHANGED <<chain, abandoned, adds, deleted, stackVars, walk, calls>>

\* Mutant: every item is disabled, not only those of f.
DisabledAll(s, f) == [i \in DOMAIN s |-> [s[i] EXCEPT !.enabled = FALSE]]

\* The list with every item of f disabled, whichever task added it.
Disabled(s, f) ==
    [i \in DOMAIN s |-> IF s[i].func = f THEN [s[i] EXCEPT !.enabled = FALSE] ELSE s[i]]

\* Without an enabled item left the hook is moved to abandoned_hooks.
DeleteFunc(k, h) ==
    /\ k \in gone
    /\ h \in Targets[k] \ (abandoned \cup deleted[k])
    /\ LET rest == Disabled(chain[h], FuncOf[k]) IN
       /\ chain' = [chain EXCEPT ![h] = rest]
       /\ abandoned' = IF \E i \in DOMAIN rest : rest[i].enabled
                       THEN abandoned ELSE abandoned \cup {h}
    /\ deleted' = [deleted EXCEPT ![k] = @ \cup {h}]
    /\ UNCHANGED <<adds, gone, stackVars, walk, calls>>

(***************************************************************************)
(* The thread's stack                                                        *)
(***************************************************************************)
Stack(t) == IF mem[t] = NoStack THEN <<>> ELSE frames[mem[t]]
Top(s) == s[Len(s)]

\* Mutant: the slot keeps the frame count of the thread that had it before.
StackCreateStale(t) ==
    \E m \in (Slots \ used) \cup (IF Slots \subseteq used THEN {t} ELSE {}) :
        /\ mem' = [mem EXCEPT ![t] = m]
        /\ used' = used \cup ({m} \cap Slots)
        /\ UNCHANGED frames

\* Mutant: the slot is taken without being claimed.
StackCreateUnclaimed(t) ==
    \E m \in (Slots \ used) \cup (IF Slots \subseteq used THEN {t} ELSE {}) :
        /\ mem' = [mem EXCEPT ![t] = m]
        /\ frames' = [frames EXCEPT ![m] = <<>>]
        /\ UNCHANGED used

\* bh_trampo_stack_create: claim a free slot of the cache, or map fresh memory
\* when there is none; either way the stack starts empty.
StackCreate(t) ==
    \E m \in (Slots \ used) \cup (IF Slots \subseteq used THEN {t} ELSE {}) :
        /\ mem' = [mem EXCEPT ![t] = m]
        /\ used' = used \cup ({m} \cap Slots)
        /\ frames' = [frames EXCEPT ![m] = <<>>]

\* bh_trampo_stack_destroy, the TLS destructor of a thread that exits, which
\* it may do from inside a proxy or an original function.
ThreadExit(t) ==
    /\ mem[t] # NoStack
    /\ walk[t] = Idle
    /\ mem' = [mem EXCEPT ![t] = NoStack]
    /\ used' = used \ {mem[t]}
    /\ calls' = [calls EXCEPT ![t] = <<>>]
    /\ UNCHANGED <<chainVars, frames, walk>>

(***************************************************************************)
(* Calling a hooked function                                                 *)
(***************************************************************************)
NewCall(fn, h, ret, first, at) ==
    [fn |-> fn, hook |-> h, ret |-> ret, first |-> first, at |-> at,
     stage |-> "entry", nested |-> FALSE]
Enter(t, c) == calls' = [calls EXCEPT ![t] = Append(@, c)]
EnterOrig(t, h, ret, first) == Enter(t, NewCall(OrigOf[h], h, ret, first, 0))

\* The calls that came through a trampoline: each starts a chain of its own.
Starts(cs) == {i \in DOMAIN cs : cs[i].first}

Running(t) == IF calls[t] = <<>> THEN App ELSE Top(calls[t]).fn

\* The body of the innermost function, or the application, may call through a
\* hooked GOT entry; a body does so at most once (a bound, as NestMax is).
MayCall(t) ==
    /\ walk[t] = Idle
    /\ Cardinality(Starts(calls[t])) < NestMax
    /\ calls[t] # <<>> => ~Top(calls[t]).nested

Spend(cs) == IF cs = <<>> THEN cs ELSE [cs EXCEPT ![Len(cs)].nested = TRUE]

\* Mutant: recursion is looked for through one GOT entry only.
RecursiveSameHook(s, h) == \E i \in DOMAIN s : s[i].hook = h

\* The function is already being intercepted on this stack, through any GOT.
Recursive(s, h) == \E i \in DOMAIN s : s[i].orig = OrigOf[h]

\* A call through the GOT of h lands in bh_trampo_push_stack.  Without a stack,
\* and on a recursive call, it goes straight to the original function.
CallHook(t, h) ==
    LET ret == <<Running(t), h>>
        bypass == Append(Spend(calls[t]), NewCall(OrigOf[h], h, ret, TRUE, 0))
        start == /\ walk' = [walk EXCEPT ![t] = [mode |-> "push", hook |-> h, ret |-> ret,
                                                 at |-> Len(chain[h])]]
                 /\ calls' = [calls EXCEPT ![t] = Spend(@)]
        toOrig == calls' = [calls EXCEPT ![t] = bypass] /\ UNCHANGED walk
    IN  /\ chain[h] # <<>>
        /\ MayCall(t)
        /\ \/ mem[t] = NoStack /\ StackCreate(t) /\ start
           \/ mem[t] = NoStack /\ Slots \subseteq used /\ UNCHANGED stackVars /\ toOrig  \* mmap fails
           \/ /\ mem[t] # NoStack
              /\ UNCHANGED stackVars
              /\ IF Recursive(Stack(t), h) THEN toOrig ELSE start
        /\ UNCHANGED chainVars

\* Mutant: the walk does not advance past a disabled item.
SameItem(w) == w.at

\* The next older item of the list; 0 is its end.
NextItem(w) == w.at - 1

\* One item of the push walk: read its enabled flag, or fall off the end.
PushWalk(t) ==
    LET w == walk[t]
        end == w.at = 0
    IN  /\ w.mode = "push"
        /\ IF end
           THEN /\ walk' = [walk EXCEPT ![t] = Idle]
                /\ EnterOrig(t, w.hook, w.ret, TRUE)
           ELSE /\ walk' = [walk EXCEPT ![t] =
                       IF chain[w.hook][w.at].enabled THEN [w EXCEPT !.mode = "found"]
                                                      ELSE [w EXCEPT !.at = NextItem(w)]]
                /\ UNCHANGED calls
        /\ UNCHANGED <<chainVars, stackVars>>

\* Mutant: one frame too many.
FullLate(s) == Len(s) > FrameMax

Full(s) == Len(s) >= FrameMax

\* The frame takes the list head of this moment, which may be newer than the
\* one the walk started from.
PushFrame(t) ==
    LET w == walk[t]
        s == Stack(t)
        f == [hook |-> w.hook, top |-> Len(chain[w.hook]), orig |-> OrigOf[w.hook], ret |-> w.ret]
    IN  /\ w.mode = "found"
        /\ walk' = [walk EXCEPT ![t] = Idle]
        /\ IF Full(s)
           THEN EnterOrig(t, w.hook, w.ret, TRUE) /\ UNCHANGED frames
           ELSE /\ frames' = [frames EXCEPT ![mem[t]] = Append(s, f)]
                /\ Enter(t, NewCall(chain[w.hook][w.at].func, w.hook, w.ret, TRUE, w.at))
        /\ UNCHANGED <<chainVars, mem, used>>

(***************************************************************************)
(* Inside a proxy                                                            *)
(***************************************************************************)
InProxy(t) == walk[t] = Idle /\ calls[t] # <<>> /\ Top(calls[t]).fn \in Funcs

\* Mutant: the search starts from the head again.
FromHead(fn, f) == f.top

\* The item after the proxy's own, which is the newest one of its function in
\* the frame's list; a function that is not there has nothing after it.
AfterOwn(fn, f) ==
    LET own == {i \in 1 .. f.top : chain[f.hook][i].func = fn}
    IN  IF own = {} THEN 0 ELSE Newest(own) - 1

\* bh_trampo_get_prev_func searches the top frame, whosever it is.
GetPrev(t) ==
    /\ InProxy(t)
    /\ Top(calls[t]).stage = "entry"
    /\ Stack(t) # <<>>
    /\ LET f == Top(Stack(t))
           fn == Top(calls[t]).fn
       IN  walk' = [walk EXCEPT ![t] = [mode |-> "prev", hook |-> f.hook,
                                        ret |-> <<fn, Prev>>, at |-> AfterOwn(fn, f)]]
    /\ calls' = [calls EXCEPT ![t][Len(calls[t])].stage = "after"]
    /\ UNCHANGED <<chainVars, stackVars>>

\* One item of that walk; the function found is called by the proxy.
PrevWalk(t) ==
    LET w == walk[t] IN
    /\ w.mode = "prev"
    /\ \/ /\ w.at = 0
          /\ walk' = [walk EXCEPT ![t] = Idle]
          /\ Enter(t, NewCall(Top(Stack(t)).orig, w.hook, w.ret, FALSE, 0))
       \/ /\ w.at > 0
          /\ chain[w.hook][w.at].enabled
          /\ walk' = [walk EXCEPT ![t] = Idle]
          /\ Enter(t, NewCall(chain[w.hook][w.at].func, w.hook, w.ret, FALSE, w.at))
       \/ /\ w.at > 0
          /\ ~chain[w.hook][w.at].enabled
          /\ walk' = [walk EXCEPT ![t].at = NextItem(w)]
          /\ UNCHANGED calls
    /\ UNCHANGED <<chainVars, stackVars>>

\* Mutant: whoever pops, pops the frame.
PoppedAlways(s, ret) == IF s # <<>> THEN SubSeq(s, 1, Len(s) - 1) ELSE s

\* bh_trampo_pop_stack pops only for the call the frame was pushed for: the
\* one that returns where the trampoline was called from.
Popped(s, ret) ==
    IF s # <<>> /\ Top(s).ret = ret THEN SubSeq(s, 1, Len(s) - 1) ELSE s

\* A proxy pops the stack and returns, having called the next function or not.
ProxyReturn(t) ==
    /\ InProxy(t)
    /\ frames' = [frames EXCEPT ![mem[t]] = Popped(@, Top(calls[t]).ret)]
    /\ calls' = [calls EXCEPT ![t] = SubSeq(@, 1, Len(@) - 1)]
    /\ UNCHANGED <<chainVars, mem, used, walk>>

OrigReturn(t) ==
    /\ walk[t] = Idle
    /\ calls[t] # <<>>
    /\ Top(calls[t]).fn \in Origs
    /\ calls' = [calls EXCEPT ![t] = SubSeq(@, 1, Len(@) - 1)]
    /\ UNCHANGED <<chainVars, stackVars, walk>>

(***************************************************************************)
(* Specification                                                             *)
(***************************************************************************)
Init ==
    /\ chain = [h \in Hooks |-> <<>>]
    /\ abandoned = {}
    /\ adds = [k \in Tasks |-> [h \in Hooks |-> 0]]
    /\ gone = {}
    /\ deleted = [k \in Tasks |-> {}]
    /\ mem = [t \in Threads |-> NoStack]
    /\ used = {}
    /\ frames = [m \in Memory |-> <<>>]
    /\ walk = [t \in Threads |-> Idle]
    /\ calls = [t \in Threads |-> <<>>]

Step(t) ==
    \/ PushWalk(t)
    \/ PushFrame(t)
    \/ GetPrev(t)
    \/ PrevWalk(t)
    \/ ProxyReturn(t)
    \/ OrigReturn(t)

Next ==
    \/ \E k \in Tasks : Unhook(k) \/ \E h \in Hooks : AddFunc(k, h) \/ DeleteFunc(k, h)
    \/ \E t \in Threads : Step(t) \/ ThreadExit(t) \/ \E h \in Hooks : CallHook(t, h)

Spec == Init /\ [][Next]_vars

\* Every thread that is inside a hooked call keeps running.
FairSpec == Spec /\ \A t \in Threads : WF_vars(Step(t))

(***************************************************************************)
(* Properties                                                                *)
(***************************************************************************)
\* Every variable has its type, and no stack overruns its array of frames.
TypeOK ==
    /\ chain \in [Hooks -> Seq(Item)]
    /\ abandoned \subseteq Hooks
    /\ adds \in [Tasks -> [Hooks -> 0 .. AddMax]]
    /\ gone \subseteq Tasks
    /\ deleted \in [Tasks -> SUBSET Hooks]
    /\ mem \in [Threads -> Memory \cup {NoStack}]
    /\ used \subseteq Slots
    /\ frames \in [Memory -> Seq(Frame)]
    /\ \A m \in Memory : Len(frames[m]) <= FrameMax
    /\ walk \in [Threads -> Walk \cup {Idle}]
    /\ calls \in [Threads -> Seq(Call)]

\* A list never holds two enabled items of one function, though a function may
\* have an item per task and items are revived (bh_hook_add_func).
OneEnabledPerFunc ==
    \A h \in Hooks : \A i, j \in DOMAIN chain[h] :
        chain[h][i].enabled /\ chain[h][j].enabled /\ chain[h][i].func = chain[h][j].func => i = j

\* While a proxy runs, the top frame is the one its call pushed: what
\* get_prev_func and get_return_address read belongs to this call, and neither
\* finds the stack empty, where it aborts.
OwnFrame ==
    \A t \in Threads : InProxy(t) =>
        LET own == calls[t][Newest(Starts(calls[t]))] IN
        /\ Stack(t) # <<>>
        /\ Top(Stack(t)).hook = Top(calls[t]).hook
        /\ Top(Stack(t)).ret = own.ret

\* A thread that has left its last hooked call has no frame left, whatever
\* stack memory it was given and whoever used that memory before.
StackBalanced == \A t \in Threads : calls[t] = <<>> /\ walk[t] = Idle => Stack(t) = <<>>

\* The function a proxy gets from get_prev_func stands after it in the list,
\* for any interleaving with add and delete.
ChainOrder ==
    \A t \in Threads : \A i \in DOMAIN calls[t] :
        i > 1 /\ ~calls[t][i].first => calls[t][i].at < calls[t][i - 1].at

\* A thread inside the proxies of a function does not enter them again when
\* it calls the function recursively, through the same GOT or another one.
NoReentry ==
    \A t \in Threads : \A i, j \in Starts(calls[t]) :
        /\ calls[t][i].fn \in Funcs
        /\ calls[t][j].fn \in Funcs
        /\ OrigOf[calls[t][i].hook] = OrigOf[calls[t][j].hook]
        => i = j

\* Threads never share stack memory, through any reuse of the cache's slots.
OwnMemory ==
    \A t, u \in Threads : mem[t] # NoStack /\ mem[t] = mem[u] => t = u

\* Once an unhook has dealt with a hook, no later hook of its task enables the
\* proxy again, even one that was under way (each task has its own function).
UnhookSticks ==
    \A k \in Tasks, h \in Hooks : h \in deleted[k] => ~EnabledItem(h, FuncOf[k])

\* A task that was hooked and not unhooked keeps its proxy enabled, whatever
\* the other tasks do (each task has its own function).
HookedStaysEnabled ==
    \A k \in Tasks \ gone, h \in Hooks : OwnItems(h, k) # {} => EnabledItem(h, FuncOf[k])

\* Every hooked call comes back: no chain of proxies runs in a circle.
CallReturns == \A t \in Threads : calls[t] # <<>> ~> calls[t] = <<>>

(***************************************************************************)
(* Refinement: the calls since a trampoline was entered are one call of      *)
(* HookedCall.                                                               *)
(***************************************************************************)
\* The calls that led from the trampoline to the i-th one.
ChainTo(cs, i) == {j \in 1 .. i : \A k \in j + 1 .. i : ~cs[k].first}

\* Where the thread is in its hooked call while the i-th call is the innermost.
SituationAt(cs, i) ==
    [hook |-> cs[i].hook,
     proxies |-> {cs[j].fn : j \in ChainTo(cs, i)} \cap Funcs,
     in |-> IF cs[i].fn \in Origs THEN "orig" ELSE "proxy"]

Situations(cs) == [i \in DOMAIN cs |-> SituationAt(cs, i)]

Promise == INSTANCE HookedCall WITH active <- [t \in Threads |-> Situations(calls[t])]

\* Every behaviour of the chains and stacks is one of the promised calls.
KeepsPromise == Promise!Spec

=============================================================================
