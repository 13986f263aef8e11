---------------------------- MODULE SharedHook ----------------------------
(***************************************************************************)
(* Hooking in the shared mode of shadowhook: the hubs (ShHub) and the inline *)
(* hooks that lead to them (InlineHook).  The code in between, which keeps   *)
(* the hubs by target and holds a lock around every operation, is not in the *)
(* repository; it is modelled from what the two sides need.                  *)
(***************************************************************************)
EXTENDS ShHub, InlineHook

CONSTANTS
    Parts,   \* parts of arm64 functions to try the rewriting on: start, insts, buf
    Parts32  \* the same of arm functions

A32 == INSTANCE A32Rewrite

ASSUME SharedAssumption == Insts = Hubs

ASSUME PartsAssumption == Parts \subseteq Part /\ Parts32 \subseteq A32!Part

VARIABLE
    short   \* bound: memory is short and hooks fail, but no thread calls

sharedVars == <<vars, inlineVars, short>>

\* Otherwise a hook takes the first place there is.
Smooth(h) ==
    /\ insts'[h].len = 1
    /\ insts'[h].inLibrary = (Near(TargetOf[h]) = {})
    /\ ~stuck'

\* sh_inst_hook succeeds, one way or the other.
SharedHooked(h) ==
    /\ Hooked(h)
    /\ HookWithExit(h) \/ HookWithoutExit(h)
    /\ short \/ Smooth(h)

\* It fails, and the hub nobody has seen is destroyed.
SharedHookFails(h) == short /\ phase[h] = "made" /\ BeginDestroy(h) /\ HookFails(h)

\* The last proxy is gone: the function is unhooked, and its hub destroyed.
SharedUnhook(h) == phase[h] = "empty" /\ BeginDestroy(h) /\ Unhook(h)

\* A thread calls the function and gets to the trampoline.
SharedCall(t, h) == ~short /\ LeadsTo(TargetOf[h], h) /\ CallHub(t, h)

\* What leaves the code of the functions alone.
HubStep ==
    \/ Tick
    \/ \E h \in Hubs :
        \/ Create(h) \/ Sweep(h) \/ Retire(h)
        \/ \E f \in Funcs : AddProxy(h, f) \/ DeleteProxy(h, f)
    \/ \E t \in Threads : Step(t) \/ ThreadExit(t)

SharedInit == Init /\ InlineInit /\ short \in BOOLEAN

SharedNext ==
    /\ \/ \E h \in Hubs : SharedHooked(h) \/ SharedHookFails(h) \/ SharedUnhook(h)
       \/ \E t \in Threads, h \in Hubs : SharedCall(t, h) /\ UNCHANGED inlineVars
       \/ HubStep /\ UNCHANGED inlineVars
    /\ UNCHANGED short

SharedSpec == SharedInit /\ [][SharedNext]_sharedVars

(***************************************************************************)
(* Properties                                                                *)
(***************************************************************************)
\* The variables of both sides have their types, and no stack overruns its
\* array of frames.
SharedTypeOK == TypeOK /\ InlineTypeOK

\* The enter does what the first instructions of the function did, for every
\* part that can be rewritten: it goes on at the same place, loads the same,
\* calls with a return address in the enter, leaves the stack as it was, and on
\* arm64 leaves X17 alone except where it branches.  (This says nothing of the
\* state: it is evaluated at the start.)
RelocationSound ==
    SharedInit => /\ \A moved \in Parts : SameProgram(moved)
                  /\ \A moved \in Parts32 : A32!SameProgram(moved)

=============================================================================
