----------------------------- MODULE HookedCall -----------------------------
(***************************************************************************)
(* What a caller of a hooked function is promised in automatic mode.  A      *)
(* hooked call runs proxy functions one inside the other, each at most       *)
(* once, and the original function, if at all, innermost.  A call of a       *)
(* function that the thread is already inside the proxies of reaches the     *)
(* original function directly.  HookChain implements this.                   *)
(*                                                                           *)
(* A thread has a stack of situations, one for each function that runs: the  *)
(* hooked call it belongs to and how far into it the thread is.  To call is  *)
(* to push a situation, to return is to be back in the one before.           *)
(***************************************************************************)
EXTENDS Naturals, Sequences

CONSTANTS Threads, Hooks, Funcs, Origs, OrigOf

VARIABLE active     \* thread -> situations, innermost last

\* Where in a hooked call: through which hook, in which proxies, and whether the
\* innermost function is a proxy or the original function.
Situation == [hook : Hooks, proxies : SUBSET Funcs, in : {"proxy", "orig"}]

Innermost(t) == active[t][Len(active[t])]
Outer(t) == SubSeq(active[t], 1, Len(active[t]) - 1)
Push(t, s) == active' = [active EXCEPT ![t] = Append(@, s)]

\* The thread is inside the proxies of the function that h hooks.
Intercepting(t, h) ==
    \E i \in DOMAIN active[t] :
        active[t][i].proxies # {} /\ OrigOf[active[t][i].hook] = OrigOf[h]

Init == active = [t \in Threads |-> <<>>]

CallProxy(t, h, f) ==
    /\ ~Intercepting(t, h)
    /\ Push(t, [hook |-> h, proxies |-> {f}, in |-> "proxy"])

\* No enabled proxy, a recursive call, or no room for another frame.
CallOrig(t, h) == Push(t, [hook |-> h, proxies |-> {}, in |-> "orig"])

\* The running proxy calls the next one, which the call has not entered yet.
NextProxy(t, f) ==
    /\ active[t] # <<>>
    /\ Innermost(t).in = "proxy"
    /\ f \notin Innermost(t).proxies
    /\ Push(t, [Innermost(t) EXCEPT !.proxies = @ \cup {f}])

NextOrig(t) ==
    /\ active[t] # <<>>
    /\ Innermost(t).in = "proxy"
    /\ Push(t, [Innermost(t) EXCEPT !.in = "orig"])

\* The innermost function returns to the proxy before it, or to the caller.
Return(t) ==
    /\ active[t] # <<>>
    /\ active' = [active EXCEPT ![t] = Outer(t)]

Exit(t) == active' = [active EXCEPT ![t] = <<>>]

Next == \E t \in Threads :
    \/ \E h \in Hooks : CallOrig(t, h) \/ \E f \in Funcs : CallProxy(t, h, f)
    \/ \E f \in Funcs : NextProxy(t, f)
    \/ NextOrig(t) \/ Return(t) \/ Exit(t)

Spec == Init /\ [][Next]_active

=============================================================================
