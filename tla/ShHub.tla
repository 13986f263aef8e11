------------------------------- MODULE ShHub -------------------------------
(***************************************************************************)
(* The hub of a hooked function in the shared mode of shadowhook             *)
(* (sh_hub.cpp): its list of proxies, the per-thread stack of frames with    *)
(* the reentrancy flag, and the destruction with a delay.                    *)
(*                                                                           *)
(* A hooked function jumps to the trampoline of its hub, which pushes a      *)
(* frame and goes on to the first enabled proxy.  Nothing is counted while   *)
(* a thread is inside: a hub that was taken down is freed by the clock, and  *)
(* the place of its trampoline may be given to another hub even before.      *)
(***************************************************************************)
EXTENDS Integers, SequencesExt

CONSTANTS
    Threads,    \* threads that call hooked functions
    Hubs,       \* hub objects; a function hooked again has another one
    Origs,      \* addresses of original functions (of their enters)
    OrigOf,     \* hub -> the address sh_inst_hook stores in it
    Funcs,      \* proxy functions
    FuncsOf,    \* hub -> the proxy functions its callers hook with
    Allowing,   \* proxies that ask for reentrancy before they call on
    Trampos,    \* places for trampolines (slots of sh_trampo)
    NoTrampo,   \* the hub never had one
    Slots,      \* the static stack cache (SH_HUB_THREAD_MAX entries)
    FrameMax,   \* SH_HUB_STACK_FRAME_MAX
    Delay,      \* SH_HUB_DELAY_SEC
    CallMax,    \* assumed: a hooked call takes no longer than this
    TimeMax,    \* bound of the clock
    NestMax,    \* bound: hooked calls in progress on a thread
    NoStack     \* a thread whose TLS key holds NULL

App  == "app"   \* code that is neither a proxy nor an original function
Prev == "prev"  \* the call site of SHADOWHOOK_CALL_PREV inside a proxy

ASSUME HubAssumption ==
    /\ OrigOf \in [Hubs -> Origs]
    /\ FuncsOf \in [Hubs -> SUBSET Funcs]
    /\ Allowing \subseteq Funcs
    /\ FrameMax \in Nat \ {0}
    /\ {Delay, CallMax, TimeMax, NestMax} \subseteq Nat
    /\ CallMax <= Delay

ASSUME HubNamesAssumption ==
    /\ Funcs \cap Origs = {}
    /\ App \notin Funcs \cup Origs
    /\ Prev \notin Hubs
    /\ Slots \cap Threads = {}
    /\ NoStack \notin Slots \cup Threads

VARIABLES
    now,        \* the time of day in seconds
    phase,      \* hub -> how far its life is
    stamp,      \* hub -> the time its destruction began
    proxies,    \* hub -> its items, oldest first: the list head is the last one
    owners,     \* hub -> functions added and not deleted, as their callers know
    trampo,     \* hub -> the place its trampoline has, or had before it gave it back
    mem,        \* thread -> the stack its TLS key holds
    used,       \* sh_hub_stack_cache_used
    frames,     \* stack memory -> the frames stored there
    walk,       \* thread -> the trampoline or list walk it is in
    calls,      \* thread -> native calls in progress, innermost last
    began       \* thread -> the time its outermost hooked call began

hubVars == <<phase, stamp, proxies, owners, trampo>>
stackVars == <<mem, used, frames>>
threadVars == <<stackVars, walk, calls, began>>
vars == <<now, hubVars, threadVars>>

Memory == Slots \cup Threads
Item   == [func : Funcs, enabled : BOOLEAN]
Site   == ({App} \cup Funcs \cup Origs) \X (Hubs \cup {Prev})
Frame  == [hub : Hubs, top : Nat, orig : Origs, ret : Site, allow : BOOLEAN]
Call   == [fn : Funcs \cup Origs, hub : Hubs, ret : Site, first : BOOLEAN, at : Nat,
           stage : {"entry", "body", "after"}, nested : BOOLEAN]

Idle == [mode |-> "idle"]
Walk == [mode : {"trampo", "push", "found", "prev"}, hub : Hubs, ret : Site, at : Nat]

(***************************************************************************)
(* The list of proxies: each operation is atomic under proxies_lock          *)
(***************************************************************************)
EnabledIn(s) == {s[i].func : i \in {j \in DOMAIN s : s[j].enabled}}
Has(s, f) == \E i \in DOMAIN s : s[i].func = f

\* sh_hub_add_proxy: refuse a repeated function, revive its item, or insert a
\* new one at the head.
ProxyAdded(s, f) ==
    IF Has(s, f) THEN [i \in DOMAIN s |-> IF s[i].func = f THEN [s[i] EXCEPT !.enabled = TRUE] ELSE s[i]]
    ELSE Append(s, [func |-> f, enabled |-> TRUE])

\* The places of the list that sh_hub_delete_proxy gets to: it stops after it
\* has seen both the function and an enabled item.
OtherEnabled(s, f, i) == s[i].enabled /\ s[i].func # f
Visited(s, f) ==
    {i \in DOMAIN s : \/ \A j \in i + 1 .. Len(s) : s[j].func # f
                      \/ \A j \in i + 1 .. Len(s) : ~OtherEnabled(s, f, j)}

\* Mutant: it stops at the first enabled item.
ProxyDeletedEarly(s, f) ==
    [i \in DOMAIN s |->
        IF s[i].func = f /\ \A j \in i + 1 .. Len(s) : ~OtherEnabled(s, f, j)
        THEN [s[i] EXCEPT !.enabled = FALSE] ELSE s[i]]

ProxyDeleted(s, f) ==
    [i \in DOMAIN s |->
        IF s[i].func = f /\ i \in Visited(s, f) THEN [s[i] EXCEPT !.enabled = FALSE] ELSE s[i]]

HaveEnabled(s, f) == \E i \in Visited(s, f) : OtherEnabled(s, f, i)

\* The hook call adds its proxy; the caller knows its own functions.
AddProxy(h, f) ==
    /\ phase[h] = "live"
    /\ f \in FuncsOf[h]
    /\ \/ /\ proxies' = [proxies EXCEPT ![h] = ProxyAdded(@, f)]
          /\ owners' = [owners EXCEPT ![h] = @ \cup {f}]
       \/ ~Has(proxies[h], f) /\ UNCHANGED <<proxies, owners>>   \* malloc fails
    /\ UNCHANGED <<now, phase, stamp, trampo, threadVars>>

\* Without an enabled proxy left the function is to be unhooked.
PhaseAfter(h, f) == IF HaveEnabled(proxies[h], f) THEN phase[h] ELSE "empty"

DeleteProxy(h, f) ==
    /\ phase[h] = "live"
    /\ f \in owners[h]
    /\ proxies' = [proxies EXCEPT ![h] = ProxyDeleted(@, f)]
    /\ owners' = [owners EXCEPT ![h] = @ \ {f}]
    /\ phase' = [phase EXCEPT ![h] = PhaseAfter(h, f)]
    /\ UNCHANGED <<now, stamp, trampo, threadVars>>

(***************************************************************************)
(* Life of a hub                                                             *)
(***************************************************************************)
\* A hub keeps the place of its trampoline until sh_hub_destroy gives it back.
HasTrampo(h) == phase[h] \in {"made", "live", "empty", "unused", "leaving", "swept"}
FreeTrampos == Trampos \ {trampo[h] : h \in {d \in Hubs : HasTrampo(d)}}

\* Threads in the trampoline of a place: sh_hub_push_stack has not begun.
Within(p) == {t \in Threads : walk[t].mode = "trampo" /\ trampo[walk[t].hub] = p}

\* sh_hub_create, which leaves nothing when it has no trampoline or traps.  The
\* place may be one that was given back a moment ago (the rest of ShTrampo is
\* not kept, see Quarantine there).  It is zeroed and written again under the
\* threads that are still in it: one that has not read hub_ptr yet is led to the
\* new hub, one that has goes on with the old one.  Others run into the zeros,
\* which ends the process: no step is theirs.
Create(h) ==
    /\ phase[h] = "new"
    /\ phase' = [phase EXCEPT ![h] = "made"]
    /\ \E p \in FreeTrampos, led \in SUBSET Threads :
        /\ trampo' = [trampo EXCEPT ![h] = p]
        /\ led \subseteq Within(p)
        /\ walk' = [t \in Threads |-> IF t \in led THEN [walk[t] EXCEPT !.hub = h] ELSE walk[t]]
    /\ UNCHANGED <<now, stamp, proxies, owners, stackVars, calls, began>>

\* sh_inst_hook leads the function to the trampoline.
Hooked(h) ==
    /\ phase[h] = "made"
    /\ phase' = [phase EXCEPT ![h] = "live"]
    /\ UNCHANGED <<now, stamp, proxies, owners, trampo, threadVars>>

\* The function jumps to the hub's trampoline.
Reachable(h) == phase[h] \in {"live", "empty"}

\* Its function was not hooked: orig_address is 0, and nobody was to see the hub.
Unseen(h) == phase[h] \in {"made", "unused", "dropped"}

\* sh_inst_unhook, or sh_inst_hook that failed; then sh_hub_destroy reads the
\* time.  Only a hub that was reachable is destroyed with a delay.
BeginDestroy(h) ==
    /\ phase[h] \in {"made", "empty"}
    /\ phase' = [phase EXCEPT ![h] = IF @ = "made" THEN "unused" ELSE "leaving"]
    /\ stamp' = [stamp EXCEPT ![h] = now]
    /\ UNCHANGED <<now, proxies, owners, trampo, threadVars>>

\* Mutant: a hub rests for the delay, its last second not included.
RestedShort(time, h) == time - stamp[h] >= Delay

\* The delayed hub has waited long enough.
Rested(time, h) == time - stamp[h] > Delay

Delayed == {d \in Hubs : phase[d] = "delayed"}

\* sh_hub_destroy first frees the hubs that have rested long enough, by the
\* time read before; a hub destroyed without a delay is freed as well, and gives
\* its place back.
FreedBy(h) == {d \in Delayed : Rested(stamp[h], d)}

PhaseSwept(h) == IF phase[h] = "unused" THEN "dropped" ELSE "swept"

Sweep(h) ==
    /\ phase[h] \in {"unused", "leaving"}
    /\ phase' = [d \in Hubs |->
            IF d \in FreedBy(h) THEN "freed" ELSE IF d = h THEN PhaseSwept(h) ELSE phase[d]]
    /\ proxies' = [d \in Hubs |-> IF d \in FreedBy(h) THEN <<>> ELSE proxies[d]]
    /\ stamp' = [d \in Hubs |-> IF d \in FreedBy(h) THEN 0 ELSE stamp[d]]
    /\ UNCHANGED <<now, owners, trampo, threadVars>>

\* The place of the trampoline is given back, at once and with whoever is in it,
\* and the hub put on the list of delayed hubs.
Retire(h) ==
    /\ phase[h] = "swept"
    /\ phase' = [phase EXCEPT ![h] = "delayed"]
    /\ UNCHANGED <<now, stamp, proxies, owners, trampo, threadVars>>

Inside(t) == calls[t] # <<>> \/ walk[t] # Idle

\* The clock only matters once a hub is on its way out (a bound).
Tick ==
    /\ now < TimeMax
    /\ \E h \in Hubs : phase[h] \in {"leaving", "swept", "delayed"}
    /\ \A t \in Threads : Inside(t) => now < began[t] + CallMax
    /\ now' = now + 1
    /\ UNCHANGED <<hubVars, threadVars>>

(***************************************************************************)
(* The thread's stack                                                        *)
(***************************************************************************)
Stack(t) == IF mem[t] = NoStack THEN <<>> ELSE frames[mem[t]]

\* Mutant: the memory keeps the frames of the thread that had it before.
StackCreateStale(t) ==
    \E m \in (Slots \ used) \cup (IF Slots \subseteq used THEN {t} ELSE {}) :
        /\ mem' = [mem EXCEPT ![t] = m]
        /\ used' = used \cup ({m} \cap Slots)
        /\ UNCHANGED frames

\* sh_hub_stack_create: a free slot of the cache, or memory of its own.
StackCreate(t) ==
    \E m \in (Slots \ used) \cup (IF Slots \subseteq used THEN {t} ELSE {}) :
        /\ mem' = [mem EXCEPT ![t] = m]
        /\ used' = used \cup ({m} \cap Slots)
        /\ frames' = [frames EXCEPT ![m] = <<>>]

\* sh_hub_stack_destroy, when the thread exits, maybe inside hooked calls: memory
\* of its own is unmapped, a slot keeps what is in it.
ThreadExit(t) ==
    /\ mem[t] # NoStack
    /\ walk[t] = Idle
    /\ mem' = [mem EXCEPT ![t] = NoStack]
    /\ used' = used \ {mem[t]}
    /\ calls' = [calls EXCEPT ![t] = <<>>]
    /\ began' = [began EXCEPT ![t] = 0]
    /\ frames' = IF mem[t] = t THEN [frames EXCEPT ![t] = <<>>] ELSE frames
    /\ UNCHANGED <<now, hubVars, walk>>

(***************************************************************************)
(* Calling a hooked function                                                 *)
(***************************************************************************)
Starts(cs) == {i \in DOMAIN cs : cs[i].first}
Running(t) == IF calls[t] = <<>> THEN App ELSE Last(calls[t]).fn

\* A proxy or the application may call a hooked function; a proxy does so at
\* most once and before it calls on, and the calls nest no deeper than NestMax,
\* but for one call of a proxy that finds no room for a frame (bounds).
FindsNoRoom(t) == Len(Stack(t)) = FrameMax /\ Last(calls[t]).fn \in Funcs

MayCall(t) ==
    /\ walk[t] = Idle
    /\ Cardinality(Starts(calls[t])) < NestMax + (IF FindsNoRoom(t) THEN 1 ELSE 0)
    /\ calls[t] # <<>> => ~Last(calls[t]).nested /\ Last(calls[t]).stage # "after"

Spend(cs) == IF cs = <<>> THEN cs ELSE [cs EXCEPT ![Len(cs)].nested = TRUE]

\* The thread is in the trampoline, before sh_hub_push_stack.
CallHub(t, h) ==
    /\ Reachable(h)
    /\ MayCall(t)
    /\ walk' = [walk EXCEPT ![t] = [mode |-> "trampo", hub |-> h, ret |-> <<Running(t), h>>,
                                    at |-> 0]]
    /\ calls' = [calls EXCEPT ![t] = Spend(@)]
    /\ began' = [began EXCEPT ![t] = IF Inside(t) THEN @ ELSE now]
    /\ UNCHANGED <<now, hubVars, stackVars>>

Enter(t, fn, first, at) ==
    calls' = [calls EXCEPT ![t] = Append(@,
        [fn |-> fn, hub |-> walk[t].hub, ret |-> walk[t].ret, first |-> first, at |-> at,
         stage |-> "entry", nested |-> FALSE])]

\* Mutant: the flag is tested the wrong way round.
RecursiveSwapped(s, h) == \E i \in DOMAIN s : s[i].orig = OrigOf[h] /\ s[i].allow

\* A frame of the function that does not allow it to be entered again.
Recursive(s, h) == \E i \in DOMAIN s : s[i].orig = OrigOf[h] /\ ~s[i].allow

StartWalk(t) == walk' = [walk EXCEPT ![t].mode = "push", ![t].at = Len(proxies[walk[t].hub])]
ToOrig(t) == Enter(t, OrigOf[walk[t].hub], TRUE, 0) /\ walk' = [walk EXCEPT ![t] = Idle]

\* A walk or a frame of a hub that another one's trampoline led to (Create).
Astray(x) == x.ret[2] # x.hub

\* sh_hub_push_stack: without a stack, and on a recursive call that is not
\* allowed, the original function is called.  A thread that was led to a new hub
\* gets through only after the hub was hooked, or it jumps to address 0; but it
\* may have looked for a recursive call before, when orig_address was 0.
PushStack(t) ==
    /\ walk[t].mode = "trampo"
    /\ ~Unseen(walk[t].hub)
    /\ \/ mem[t] = NoStack /\ StackCreate(t) /\ StartWalk(t) /\ UNCHANGED calls
       \/ mem[t] = NoStack /\ Slots \subseteq used /\ ToOrig(t) /\ UNCHANGED stackVars  \* mmap fails
       \/ /\ mem[t] # NoStack
          /\ IF Recursive(Stack(t), walk[t].hub) THEN ToOrig(t) ELSE StartWalk(t) /\ UNCHANGED calls
          /\ UNCHANGED stackVars
       \/ mem[t] # NoStack /\ Astray(walk[t]) /\ StartWalk(t) /\ UNCHANGED <<calls, stackVars>>
    /\ UNCHANGED <<now, hubVars, began>>

\* One item of the list: read its enabled flag, or fall off the end.
PushWalk(t) ==
    LET w == walk[t] IN
    /\ w.mode = "push"
    /\ IF w.at = 0 THEN ToOrig(t)
       ELSE /\ walk' = [walk EXCEPT ![t] = IF proxies[w.hub][w.at].enabled
                                           THEN [w EXCEPT !.mode = "found"]
                                           ELSE [w EXCEPT !.at = @ - 1]]
            /\ UNCHANGED calls
    /\ UNCHANGED <<now, hubVars, stackVars, began>>

\* Mutant: one frame too many.
FullLate(s) == Len(s) > FrameMax

Full(s) == Len(s) >= FrameMax

\* The frame takes the list head of this moment; with no room for it the
\* original function is called.
PushFrame(t) ==
    LET w == walk[t]
        f == [hub |-> w.hub, top |-> Len(proxies[w.hub]), orig |-> OrigOf[w.hub], ret |-> w.ret,
              allow |-> FALSE]
    IN  /\ w.mode = "found"
        /\ IF Full(Stack(t))
           THEN ToOrig(t) /\ UNCHANGED frames
           ELSE /\ frames' = [frames EXCEPT ![mem[t]] = Append(@, f)]
                /\ Enter(t, proxies[w.hub][w.at].func, TRUE, w.at)
                /\ walk' = [walk EXCEPT ![t] = Idle]
        /\ UNCHANGED <<now, hubVars, mem, used, began>>

(***************************************************************************)
(* Inside a proxy                                                            *)
(***************************************************************************)
InProxy(t) == walk[t] = Idle /\ calls[t] # <<>> /\ Last(calls[t]).fn \in Funcs

\* sh_hub_get_current_frame: the top frame, if the caller is the proxy it was
\* pushed for.
CurrentFrame(t, ret) == Stack(t) # <<>> /\ Last(Stack(t)).ret = ret

Flagged(t, allow) ==
    IF CurrentFrame(t, Last(calls[t]).ret)
    THEN [frames EXCEPT ![mem[t]][Len(Stack(t))].allow = allow]
    ELSE frames

\* sh_hub_allow_reentrant and sh_hub_disallow_reentrant, called by the proxy
\* before and after the calls of its body.
AllowReentrant(t) ==
    /\ InProxy(t)
    /\ Last(calls[t]).stage = "entry"
    /\ Last(calls[t]).fn \in Allowing
    /\ ~Last(calls[t]).nested
    /\ frames' = Flagged(t, TRUE)
    /\ calls' = [calls EXCEPT ![t][Len(calls[t])].stage = "body"]
    /\ UNCHANGED <<now, hubVars, mem, used, walk, began>>

DisallowReentrant(t) ==
    /\ InProxy(t)
    /\ Last(calls[t]).stage = "body"
    /\ frames' = Flagged(t, FALSE)
    /\ calls' = [calls EXCEPT ![t][Len(calls[t])].stage = "entry", ![t][Len(calls[t])].nested = TRUE]
    /\ UNCHANGED <<now, hubVars, mem, used, walk, began>>

\* Mutant: the walk stops one item too late.
AfterOwnLate(f, fn) ==
    LET own == {i \in 1 .. f.top : proxies[f.hub][i].func = fn}
    IN  IF own = {} THEN 0 ELSE Max(own)

\* The item after the proxy's own in the frame's list.
AfterOwn(f, fn) ==
    LET own == {i \in 1 .. f.top : proxies[f.hub][i].func = fn}
    IN  IF own = {} THEN 0 ELSE Max(own) - 1

\* sh_hub_get_prev_func searches the top frame, whosever it is.
GetPrev(t) ==
    LET c == Last(calls[t])
        f == Last(Stack(t))
    IN  /\ InProxy(t)
        /\ c.stage # "after"
        /\ Stack(t) # <<>>
        /\ walk' = [walk EXCEPT ![t] = [mode |-> "prev", hub |-> f.hub, ret |-> <<c.fn, Prev>>,
                                        at |-> AfterOwn(f, c.fn)]]
        /\ calls' = [calls EXCEPT ![t][Len(calls[t])].stage = "after"]
        /\ UNCHANGED <<now, hubVars, stackVars, began>>

\* One item of that walk; the function found is called by the proxy.
PrevWalk(t) ==
    LET w == walk[t] IN
    /\ w.mode = "prev"
    /\ IF w.at > 0 /\ ~proxies[w.hub][w.at].enabled
       THEN walk' = [walk EXCEPT ![t].at = @ - 1] /\ UNCHANGED calls
       ELSE /\ walk' = [walk EXCEPT ![t] = Idle]
            /\ IF w.at = 0 THEN Enter(t, Last(Stack(t)).orig, FALSE, 0)
               ELSE Enter(t, proxies[w.hub][w.at].func, FALSE, w.at)
    /\ UNCHANGED <<now, hubVars, stackVars, began>>

\* sh_hub_pop_stack pops only for the call the frame was pushed for.
Popped(s, ret) == IF s # <<>> /\ Last(s).ret = ret THEN Front(s) ELSE s

Left(t) == [began EXCEPT ![t] = IF Len(calls[t]) = 1 THEN 0 ELSE @]

ProxyReturn(t) ==
    /\ InProxy(t)
    /\ frames' = [frames EXCEPT ![mem[t]] = Popped(@, Last(calls[t]).ret)]
    /\ calls' = [calls EXCEPT ![t] = Front(@)]
    /\ began' = Left(t)
    /\ UNCHANGED <<now, hubVars, mem, used, walk>>

OrigReturn(t) ==
    /\ walk[t] = Idle
    /\ calls[t] # <<>>
    /\ Last(calls[t]).fn \in Origs
    /\ calls' = [calls EXCEPT ![t] = Front(@)]
    /\ began' = Left(t)
    /\ UNCHANGED <<now, hubVars, stackVars, walk>>

(***************************************************************************)
(* Specification                                                             *)
(***************************************************************************)
Init ==
    /\ now = 0
    /\ phase = [h \in Hubs |-> "new"]
    /\ stamp = [h \in Hubs |-> 0]
    /\ proxies = [h \in Hubs |-> <<>>]
    /\ owners = [h \in Hubs |-> {}]
    /\ trampo = [h \in Hubs |-> NoTrampo]
    /\ mem = [t \in Threads |-> NoStack]
    /\ used \in SUBSET Slots
    /\ frames = [m \in Memory |-> <<>>]
    /\ walk = [t \in Threads |-> Idle]
    /\ calls = [t \in Threads |-> <<>>]
    /\ began = [t \in Threads |-> 0]

Step(t) ==
    \/ PushStack(t) \/ PushWalk(t) \/ PushFrame(t)
    \/ AllowReentrant(t) \/ DisallowReentrant(t)
    \/ GetPrev(t) \/ PrevWalk(t)
    \/ ProxyReturn(t) \/ OrigReturn(t)

Next ==
    \/ Tick
    \/ \E h \in Hubs :
        \/ Create(h) \/ Hooked(h) \/ BeginDestroy(h) \/ Sweep(h) \/ Retire(h)
        \/ \E f \in Funcs : AddProxy(h, f) \/ DeleteProxy(h, f)
    \/ \E t \in Threads : Step(t) \/ ThreadExit(t) \/ \E h \in Hubs : CallHub(t, h)

Spec == Init /\ [][Next]_vars

(***************************************************************************)
(* Properties                                                                *)
(***************************************************************************)
\* Every variable has its type, and no stack overruns its array of frames.
TypeOK ==
    /\ now \in 0 .. TimeMax
    /\ phase \in [Hubs -> {"new", "made", "live", "empty", "unused", "leaving", "swept",
                           "delayed", "freed", "dropped"}]
    /\ stamp \in [Hubs -> 0 .. TimeMax]
    /\ proxies \in [Hubs -> Seq(Item)]
    /\ owners \in [Hubs -> SUBSET Funcs]
    /\ trampo \in [Hubs -> Trampos \cup {NoTrampo}]
    /\ mem \in [Threads -> Memory \cup {NoStack}]
    /\ used \subseteq Slots
    /\ frames \in [Memory -> Seq(Frame)]
    /\ \A m \in Memory : Len(frames[m]) <= FrameMax
    /\ walk \in [Threads -> Walk \cup {Idle}]
    /\ calls \in [Threads -> Seq(Call)]

\* A function has one item in the list of a hub, however often it is hooked and
\* unhooked: sh_hub_delete_proxy and sh_hub_get_prev_func rely on it.
OneItemPerFunc ==
    \A h \in Hubs : \A i, j \in DOMAIN proxies[h] :
        proxies[h][i].func = proxies[h][j].func => i = j

\* The enabled proxies are those whose callers have not unhooked them, each with
\* one item, and the function is unhooked as soon as the last of them is gone,
\* not before.
CallersAgree ==
    /\ OneItemPerFunc
    /\ \A h \in Hubs :
        /\ EnabledIn(proxies[h]) = owners[h]
        /\ phase[h] = "live" /\ proxies[h] # <<>> => owners[h] # {}
        /\ phase[h] \notin {"new", "made", "live"} => owners[h] = {}

\* The calls of a thread that pushed a frame, and which of them pushed which
\* frame: both are taken in their order, and no call is left out.
Framed(t) == {k \in DOMAIN calls[t] : calls[t][k].first /\ calls[t][k].fn \in Funcs}

PushedBy(t) ==
    {by \in [DOMAIN Stack(t) -> Framed(t)] :
        /\ \A i, j \in DOMAIN by : i < j => by[i] < by[j]
        /\ \A k \in Framed(t) : \E i \in DOMAIN by : by[i] = k}

\* The frames on a thread's stack are those of the calls in progress, each with
\* the return address of its own call: every pop and every search of the top
\* frame hits its own, and a thread that is outside has none left.
FramesMatchCalls ==
    \A t \in Threads : \E by \in PushedBy(t) :
        \A i \in DOMAIN by : Stack(t)[i].ret = calls[t][by[i]].ret

\* The proxies of a function are entered a second time on a thread only where
\* every frame of the function below allows it, and a frame allows it only while
\* the proxy it was pushed for is running, has asked for it and has not taken it
\* back.  (But for a call that came by the trampoline of another hub.)
Reentry ==
    \A t \in Threads : \E by \in PushedBy(t) : \A i \in DOMAIN by :
        LET c == calls[t][by[i]] IN
        /\ Stack(t)[i].allow => c.fn \in Allowing /\ c.stage # "entry"
        /\ \A j \in DOMAIN by :
            i < j /\ Stack(t)[i].orig = Stack(t)[j].orig => Stack(t)[i].allow \/ Astray(Stack(t)[j])

\* The function a proxy gets from sh_hub_get_prev_func stands after it in the
\* list, for any interleaving with add and delete.
ChainOrder ==
    \A t \in Threads : \A i \in DOMAIN calls[t] :
        i > 1 /\ ~calls[t][i].first => calls[t][i].at < calls[t][i - 1].at

\* No thread is on its way to, on the list of or in a frame of a hub that was
\* freed after its delay, as long as no hooked call takes longer than the delay;
\* not even a thread that another hub was led to because the place of its
\* trampoline was handed out again.  This is about hubs, not about the code of
\* the trampoline, which is written over under a thread (Create), nor about a hub
\* that was never hooked ("dropped"), which is freed without a delay.
NoUseAfterFree ==
    \A t \in Threads :
        /\ walk[t] # Idle => phase[walk[t].hub] # "freed"
        /\ \A i \in DOMAIN Stack(t) : phase[Stack(t)[i].hub] # "freed"

=============================================================================
