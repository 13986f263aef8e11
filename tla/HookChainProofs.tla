-------------------------- MODULE HookChainProofs --------------------------
(***************************************************************************)
(* Proofs about HookChain, for every number of threads, hooks, tasks and     *)
(* proxies: its types, the bound on every stack, that a list never holds two *)
(* enabled items of one function, and that threads never share a stack       *)
(* (IInv); then what an unhook and a hook promise of the lists, which frame  *)
(* of a thread's stack belongs to which of its calls, and that HookChain     *)
(* keeps the promise of HookedCall (CInv).                                   *)
(***************************************************************************)
EXTENDS HookChain, WellFoundedInduction, SequenceTheorems, TLAPS

USE HookAssumption, NamesAssumption DEF App, Prev

(***************************************************************************)
(* The inductive invariant                                                   *)
(***************************************************************************)
\* A frame's list is a suffix of the hook's list: lists only grow, at the head.
FramesInChain ==
    \A m \in Memory : \A i \in DOMAIN frames[m] :
        frames[m][i].top <= Len(chain[frames[m][i].hook])

\* A walk stays inside its list, on a stack that exists; a walk in a proxy has
\* the frame it started from.
WalkInChain ==
    \A t \in Threads : walk[t] # Idle =>
        /\ walk[t].at <= Len(chain[walk[t].hook])
        /\ mem[t] # NoStack
        /\ walk[t].mode = "found" => walk[t].at > 0
        /\ walk[t].mode = "prev" => frames[mem[t]] # <<>>

\* A thread's stack is its own mapping or a slot that is marked used.
MemoryClaimed == \A t \in Threads : mem[t] \in {NoStack, t} \cup used

IInv ==
    /\ TypeOK
    /\ OneEnabledPerFunc
    /\ OwnMemory
    /\ MemoryClaimed
    /\ FramesInChain
    /\ WalkInChain

(***************************************************************************)
(* Lemmas about the operators                                                *)
(***************************************************************************)
\* A set of positions that is not empty has a newest one.
LEMMA NewestIsMax ==
    ASSUME NEW n \in Nat, NEW S \in SUBSET (1 .. n), S # {}
    PROVE  /\ Newest(S) \in S
           /\ \A j \in S : j <= Newest(S)
<1> DEFINE T == {n - i : i \in S}
<1>1. T \subseteq Nat /\ T # {}
  <2>1. \A i \in S : n - i \in Nat
    OBVIOUS
  <2>2. PICK i \in S : TRUE
    OBVIOUS
  <2>3. n - i \in T
    OBVIOUS
  <2> QED BY <2>1, <2>3
<1>2. PICK x \in T : \A y \in T : ~(<<y, x>> \in OpToRel(<, Nat))
  <2> HIDE DEF T
  <2> QED BY <1>1, WFMin, NatLessThanWellFounded
<1>3. \A y \in T : ~(y < x)
  BY <1>1, <1>2 DEF OpToRel
<1>4. PICK i \in S : x = n - i
  OBVIOUS
<1>5. \A j \in S : j <= i
  <2> TAKE j \in S
  <2>1. ~(n - j < x)
    BY <1>3
  <2> QED BY <2>1, <1>4
<1> QED BY <1>5 DEF Newest

\* The list of one hook holds at most one enabled item per function.
UniqueEnabled(s) ==
    \A i, j \in DOMAIN s : s[i].enabled /\ s[j].enabled /\ s[i].func = s[j].func => i = j

\* Adding keeps a list a list, never shortens it, and enables no second item
\* of a function.
LEMMA AddedKeeps ==
    ASSUME TypeOK, NEW h \in Hooks, NEW k \in Tasks
    PROVE  /\ Added(h, k) \in Seq(Item)
           /\ Len(Added(h, k)) >= Len(chain[h])
           /\ UniqueEnabled(chain[h]) => UniqueEnabled(Added(h, k))
<1> DEFINE s == chain[h]
           own == OwnItems(h, k)
<1>1. s \in Seq(Item) /\ Len(s) \in Nat /\ DOMAIN s = 1 .. Len(s)
  BY DEF TypeOK
<1>2. FuncOf[k] \in Funcs
  OBVIOUS
<1>3. CASE EnabledItem(h, FuncOf[k])
  BY <1>1, <1>3 DEF Added
<1>4. CASE ~EnabledItem(h, FuncOf[k]) /\ own # {}
  <2> DEFINE n == Newest(own)
  <2>1. own \in SUBSET (1 .. Len(s))
    BY <1>1 DEF OwnItems
  <2>2. n \in own
    <3> HIDE DEF own, s
    <3> QED BY <1>1, <1>4, <2>1, NewestIsMax
  <2>3. n \in 1 .. Len(s) /\ s[n].func = FuncOf[k]
    BY <2>1, <2>2 DEF OwnItems
  <2>4. Added(h, k) = [s EXCEPT ![n].enabled = TRUE]
    BY <1>4 DEF Added
  <2>5. [s[n] EXCEPT !.enabled = TRUE] \in Item
    <3>1. s[n] \in Item
      BY <1>1, <2>3
    <3> HIDE DEF n, s
    <3> QED BY <3>1 DEF Item
  <2>6. Added(h, k) = [s EXCEPT ![n] = [s[n] EXCEPT !.enabled = TRUE]]
    BY <2>4
  <2>7. Added(h, k) \in Seq(Item) /\ Len(Added(h, k)) = Len(s)
    <3> HIDE DEF n, s
    <3> QED BY <1>1, <2>3, <2>5, <2>6, ExceptSeq
  <2>8. \A i \in 1 .. Len(s) : i # n => ~(s[i].enabled /\ s[i].func = FuncOf[k])
    BY <1>1, <1>4 DEF EnabledItem
  <2>9. \A i \in 1 .. Len(s) : /\ Added(h, k)[i].func = s[i].func
                               /\ i # n /\ Added(h, k)[i].enabled => s[i].enabled
    <3> HIDE DEF n
    <3> QED BY <1>1, <2>3, <2>6 DEF Item
  <2>10. UniqueEnabled(s) => UniqueEnabled(Added(h, k))
    <3> HIDE DEF n
    <3>1. DOMAIN Added(h, k) = 1 .. Len(s)
      BY <1>1, <2>7
    <3> SUFFICES ASSUME UniqueEnabled(s), NEW i \in 1 .. Len(s), NEW j \in 1 .. Len(s),
                        Added(h, k)[i].enabled, Added(h, k)[j].enabled,
                        Added(h, k)[i].func = Added(h, k)[j].func
                 PROVE  i = j
      BY <3>1 DEF UniqueEnabled
    <3>2. s[i].func = s[j].func
      BY <2>9
    <3>3. CASE i # n /\ j # n
      BY <1>1, <2>9, <3>2, <3>3 DEF UniqueEnabled
    <3>4. CASE i = n /\ j # n
      BY <2>3, <2>8, <2>9, <3>2, <3>4
    <3>5. CASE i # n /\ j = n
      BY <2>3, <2>8, <2>9, <3>2, <3>5
    <3> QED BY <3>3, <3>4, <3>5
  <2> QED BY <2>7, <2>10, <1>1
<1>5. CASE ~EnabledItem(h, FuncOf[k]) /\ own = {}
  <2> DEFINE new == [func |-> FuncOf[k], task |-> k, enabled |-> TRUE]
  <2>1. Added(h, k) = Append(s, new) /\ new \in Item
    BY <1>5 DEF Added, Item
  <2>2. /\ Append(s, new) \in Seq(Item)
        /\ Len(Append(s, new)) = Len(s) + 1
        /\ \A i \in 1 .. Len(s) : Append(s, new)[i] = s[i]
        /\ Append(s, new)[Len(s) + 1] = new
    <3> HIDE DEF s, new
    <3> QED BY <1>1, <2>1, AppendProperties
  <2>3. \A i \in 1 .. Len(s) : ~(s[i].enabled /\ s[i].func = FuncOf[k])
    BY <1>1, <1>5 DEF EnabledItem
  <2>4. UniqueEnabled(s) => UniqueEnabled(Append(s, new))
    <3> SUFFICES ASSUME UniqueEnabled(s) PROVE UniqueEnabled(Append(s, new))
      OBVIOUS
    <3>1. DOMAIN Append(s, new) = 1 .. Len(s) + 1
      BY <2>2
    <3>2. new.func = FuncOf[k]
      OBVIOUS
    <3> HIDE DEF s, new
    <3> QED BY <1>1, <2>2, <2>3, <3>1, <3>2 DEF UniqueEnabled
  <2> QED BY <1>1, <2>1, <2>2, <2>4
<1> QED BY <1>3, <1>4, <1>5

\* Disabling keeps a list's length and enables nothing.
LEMMA DisabledKeeps ==
    ASSUME NEW s \in Seq(Item), NEW fn \in Funcs
    PROVE  /\ Disabled(s, fn) \in Seq(Item)
           /\ Len(Disabled(s, fn)) = Len(s)
           /\ UniqueEnabled(s) => UniqueEnabled(Disabled(s, fn))
<1>1. s \in [1 .. Len(s) -> Item] /\ Len(s) \in Nat /\ DOMAIN s = 1 .. Len(s)
  OBVIOUS
<1>2. \A i \in 1 .. Len(s) : [s[i] EXCEPT !.enabled = FALSE] \in Item
  <2> TAKE i \in 1 .. Len(s)
  <2>1. s[i] \in Item
    BY <1>1
  <2> QED BY ONLY <2>1 DEF Item
<1>3. Disabled(s, fn) \in [1 .. Len(s) -> Item]
  BY <1>1, <1>2 DEF Disabled
<1>4. Disabled(s, fn) \in Seq(Item) /\ Len(Disabled(s, fn)) = Len(s)
  BY <1>1, <1>3
<1>5. \A i \in 1 .. Len(s) : /\ Disabled(s, fn)[i].func = s[i].func
                             /\ Disabled(s, fn)[i].enabled => s[i].enabled
  BY <1>1 DEF Disabled, Item
<1>6. UniqueEnabled(s) => UniqueEnabled(Disabled(s, fn))
  <2> SUFFICES ASSUME UniqueEnabled(s), NEW i \in 1 .. Len(s), NEW j \in 1 .. Len(s),
                      Disabled(s, fn)[i].enabled, Disabled(s, fn)[j].enabled,
                      Disabled(s, fn)[i].func = Disabled(s, fn)[j].func
               PROVE  i = j
    BY <1>1, <1>4 DEF UniqueEnabled
  <2>1. s[i].enabled /\ s[j].enabled /\ s[i].func = s[j].func
    BY <1>5
  <2> QED BY <1>1, <2>1 DEF UniqueEnabled
<1> QED BY <1>4, <1>6

\* The item after a proxy's own is older than the frame's list head.
LEMMA AfterOwnInChain ==
    ASSUME NEW fn, NEW f \in Frame
    PROVE  AfterOwn(fn, f) \in Nat /\ AfterOwn(fn, f) <= f.top
<1> DEFINE own == {i \in 1 .. f.top : chain[f.hook][i].func = fn}
<1>1. f.top \in Nat
  BY DEF Frame
<1>2. CASE own = {}
  BY <1>1, <1>2 DEF AfterOwn
<1>3. CASE own # {}
  <2>1. Newest(own) \in 1 .. f.top
    <3>1. own \in SUBSET (1 .. f.top)
      OBVIOUS
    <3> HIDE DEF own
    <3> QED BY <1>1, <1>3, <3>1, NewestIsMax
  <2> QED BY <1>1, <1>3, <2>1 DEF AfterOwn
<1> QED BY <1>2, <1>3

(***************************************************************************)
(* Steps                                                                     *)
(***************************************************************************)
LEMMA InitIInv == Init => IInv
  BY DEF Init, IInv, TypeOK, OneEnabledPerFunc, OwnMemory, MemoryClaimed,
         FramesInChain, WalkInChain, Idle, Memory

\* A step on the lists leaves the threads alone, so it is enough that lists
\* stay lists, do not shrink, and keep their enabled items apart.
LEMMA ChainStepIInv ==
    ASSUME IInv, UNCHANGED <<stackVars, walk, calls>>,
           chain' \in [Hooks -> Seq(Item)],
           abandoned' \subseteq Hooks,
           adds' \in [Tasks -> [Hooks -> 0 .. AddMax]],
           gone' \subseteq Tasks,
           deleted' \in [Tasks -> SUBSET Hooks],
           \A h \in Hooks : /\ Len(chain'[h]) >= Len(chain[h])
                            /\ UniqueEnabled(chain[h]) => UniqueEnabled(chain'[h])
    PROVE  IInv'
<1>1. TypeOK'
  BY DEF IInv, TypeOK, stackVars
<1>2. OneEnabledPerFunc'
  BY DEF IInv, OneEnabledPerFunc, UniqueEnabled
<1>3. (OwnMemory /\ MemoryClaimed)'
  BY DEF IInv, OwnMemory, MemoryClaimed, stackVars
<1>4. FramesInChain'
  <2> SUFFICES ASSUME NEW m \in Memory, NEW i \in DOMAIN frames[m]
               PROVE  frames[m][i].top <= Len(chain'[frames[m][i].hook])
    BY DEF FramesInChain, stackVars
  <2>1. frames[m][i] \in Frame
    BY DEF IInv, TypeOK
  <2>2. /\ frames[m][i].hook \in Hooks
        /\ frames[m][i].top \in Nat
        /\ frames[m][i].top <= Len(chain[frames[m][i].hook])
    BY <2>1 DEF Frame, IInv, FramesInChain
  <2> QED BY <2>2 DEF IInv, TypeOK
<1>5. WalkInChain'
  <2> SUFFICES ASSUME NEW t \in Threads, walk[t] # Idle
               PROVE  walk[t].at <= Len(chain'[walk[t].hook])
    BY DEF IInv, WalkInChain, stackVars
  <2>1. walk[t] \in Walk
    BY DEF IInv, TypeOK
  <2>2. /\ walk[t].hook \in Hooks
        /\ walk[t].at \in Nat
        /\ walk[t].at <= Len(chain[walk[t].hook])
    BY <2>1 DEF Walk, IInv, WalkInChain
  <2> QED BY <2>2 DEF IInv, TypeOK
<1> QED BY <1>1, <1>2, <1>3, <1>4, <1>5 DEF IInv

LEMMA AddFuncIInv ==
    ASSUME IInv, NEW k \in Tasks, NEW h \in Hooks, AddFunc(k, h)
    PROVE  IInv'
<1>1. TypeOK
  BY DEF IInv
<1>2. adds' \in [Tasks -> [Hooks -> 0 .. AddMax]]
  BY <1>1 DEF AddFunc, TypeOK
<1>3. CASE chain' = [chain EXCEPT ![h] = Added(h, k)]
  <2>1. chain' \in [Hooks -> Seq(Item)]
    BY <1>1, <1>3, AddedKeeps DEF TypeOK
  <2>2. \A x \in Hooks : /\ Len(chain'[x]) >= Len(chain[x])
                         /\ UniqueEnabled(chain[x]) => UniqueEnabled(chain'[x])
    <3> TAKE x \in Hooks
    <3>1. CASE x = h
      BY <1>1, <1>3, <3>1, AddedKeeps DEF TypeOK
    <3>2. CASE x # h
      BY <1>1, <1>3, <3>2 DEF TypeOK
    <3> QED BY <3>1, <3>2
  <2> QED BY <1>1, <1>2, <2>1, <2>2, ChainStepIInv DEF AddFunc, TypeOK
<1>4. CASE UNCHANGED chain
  BY <1>1, <1>2, <1>4, ChainStepIInv DEF AddFunc, TypeOK
<1> QED BY <1>3, <1>4 DEF AddFunc

LEMMA UnhookIInv ==
    ASSUME IInv, NEW k \in Tasks, Unhook(k)
    PROVE  IInv'
  BY ChainStepIInv DEF Unhook, IInv, TypeOK

LEMMA DeleteFuncIInv ==
    ASSUME IInv, NEW k \in Tasks, NEW h \in Hooks, DeleteFunc(k, h)
    PROVE  IInv'
<1>1. TypeOK /\ FuncOf[k] \in Funcs /\ chain[h] \in Seq(Item)
  BY DEF IInv, TypeOK
<1>2. chain' = [chain EXCEPT ![h] = Disabled(chain[h], FuncOf[k])]
  BY DEF DeleteFunc
<1>3. /\ abandoned' \subseteq Hooks
      /\ deleted' \in [Tasks -> SUBSET Hooks]
  BY <1>1 DEF DeleteFunc, TypeOK
<1>4. chain' \in [Hooks -> Seq(Item)]
  BY <1>1, <1>2, DisabledKeeps DEF TypeOK
<1>5. \A x \in Hooks : /\ Len(chain'[x]) >= Len(chain[x])
                       /\ UniqueEnabled(chain[x]) => UniqueEnabled(chain'[x])
  <2> TAKE x \in Hooks
  <2>1. CASE x = h
    BY <1>1, <1>2, <2>1, DisabledKeeps DEF TypeOK
  <2>2. CASE x # h
    BY <1>1, <1>2, <2>2 DEF TypeOK
  <2> QED BY <2>1, <2>2
<1> QED BY <1>1, <1>3, <1>4, <1>5, ChainStepIInv DEF DeleteFunc, TypeOK

\* The stack of native calls.
LEMMA SeqOps ==
    ASSUME NEW S, NEW s \in Seq(S), s # <<>>
    PROVE  /\ Len(s) \in 1 .. Len(s)
           /\ Len(s) \in Nat \ {0}
           /\ Top(s) \in S
           /\ SubSeq(s, 1, Len(s) - 1) \in Seq(S)
           /\ Len(SubSeq(s, 1, Len(s) - 1)) = Len(s) - 1
           /\ \A i \in 1 .. Len(s) - 1 : SubSeq(s, 1, Len(s) - 1)[i] = s[i]
<1>1. Len(s) \in Nat \ {0}
  BY EmptySeq
<1>2. \A i \in 1 .. Len(s) - 1 : s[i] \in S
  BY <1>1
<1>3. Len(s) - 1 \in Int /\ 1 \in Int
  BY <1>1
<1>4. s[Len(s)] \in S
  BY <1>1
<1>5. /\ SubSeq(s, 1, Len(s) - 1) \in Seq(S)
      /\ Len(SubSeq(s, 1, Len(s) - 1)) = Len(s) - 1
      /\ \A i \in 1 .. Len(s) - 1 : SubSeq(s, 1, Len(s) - 1)[i] = s[i]
  <2> DEFINE n == Len(s) - 1
  <2>1. n \in Nat
    BY <1>1
  <2>2. /\ SubSeq(s, 1, n) \in Seq(S)
        /\ Len(SubSeq(s, 1, n)) = IF 1 <= n THEN n - 1 + 1 ELSE 0
        /\ \A i \in 1 .. n - 1 + 1 : SubSeq(s, 1, n)[i] = s[1 + i - 1]
    <3> HIDE DEF n
    <3> QED BY <1>2, <1>3, <2>1, SubSeqProperties DEF n
  <2>3. n - 1 + 1 = n /\ \A i \in 1 .. n : 1 + i - 1 = i
    BY <2>1
  <2> HIDE DEF n
  <2>4. Len(SubSeq(s, 1, n)) = n /\ \A i \in 1 .. n : SubSeq(s, 1, n)[i] = s[i]
    BY <2>1, <2>2, <2>3
  <2> QED BY <2>2, <2>4 DEF n
<1> QED BY <1>1, <1>4, <1>5 DEF Top

LEMMA NewCallType ==
    ASSUME NEW fn \in Funcs \cup Origs, NEW h \in Hooks, NEW ret \in Site,
           NEW first \in BOOLEAN, NEW at \in Nat
    PROVE  NewCall(fn, h, ret, first, at) \in Call
  BY DEF NewCall, Call

LEMMA SpendType ==
    ASSUME NEW cs \in Seq(Call)
    PROVE  Spend(cs) \in Seq(Call)
<1>1. CASE cs = <<>>
  BY <1>1 DEF Spend
<1>2. CASE cs # <<>>
  <2>1. Len(cs) \in 1 .. Len(cs) /\ cs[Len(cs)] \in Call
    BY <1>2, SeqOps DEF Top
  <2>2. [cs[Len(cs)] EXCEPT !.nested = TRUE] \in Call
    BY <2>1 DEF Call
  <2>3. Spend(cs) = [cs EXCEPT ![Len(cs)] = [cs[Len(cs)] EXCEPT !.nested = TRUE]]
    BY <1>2 DEF Spend
  <2> QED BY <2>1, <2>2, <2>3, ExceptSeq
<1> QED BY <1>1, <1>2

\* What a thread is running may call, and names the place it calls from.
LEMMA RunningType ==
    ASSUME TypeOK, NEW t \in Threads
    PROVE  Running(t) \in Caller
<1>1. calls[t] \in Seq(Call)
  BY DEF TypeOK
<1>2. CASE calls[t] = <<>>
  BY <1>2 DEF Running, Caller
<1>3. CASE calls[t] # <<>>
  <2>1. Top(calls[t]) \in Call
    BY <1>1, <1>3, SeqOps
  <2> QED BY <2>1, <1>3 DEF Running, Caller, Call
<1> QED BY <1>2, <1>3

\* A step of one thread on its own walk and calls keeps the invariant when the
\* new walk and calls are well formed.
LEMMA WalkStepIInv ==
    ASSUME IInv, NEW t \in Threads, UNCHANGED <<chainVars, stackVars>>,
           NEW w \in Walk \cup {Idle}, walk' = [walk EXCEPT ![t] = w],
           NEW cs \in Seq(Call), calls' = [calls EXCEPT ![t] = cs],
           w # Idle => /\ w.at <= Len(chain[w.hook])
                       /\ mem[t] # NoStack
                       /\ w.mode = "found" => w.at > 0
                       /\ w.mode = "prev" => frames[mem[t]] # <<>>
    PROVE  IInv'
<1>1. TypeOK'
  BY DEF IInv, TypeOK, chainVars, stackVars
<1>2. (OneEnabledPerFunc /\ OwnMemory /\ MemoryClaimed /\ FramesInChain)'
  BY DEF IInv, OneEnabledPerFunc, OwnMemory, MemoryClaimed, FramesInChain, chainVars, stackVars
<1>3. WalkInChain'
  <2> SUFFICES ASSUME NEW u \in Threads, walk'[u] # Idle
               PROVE  /\ walk'[u].at <= Len(chain[walk'[u].hook])
                      /\ mem[u] # NoStack
                      /\ walk'[u].mode = "found" => walk'[u].at > 0
                      /\ walk'[u].mode = "prev" => frames[mem[u]] # <<>>
    BY DEF WalkInChain, chainVars, stackVars
  <2>1. CASE u = t
    BY <2>1 DEF IInv, TypeOK
  <2>2. CASE u # t
    BY <2>2 DEF IInv, TypeOK, WalkInChain
  <2> QED BY <2>1, <2>2
<1> QED BY <1>1, <1>2, <1>3 DEF IInv

LEMMA PushWalkIInv ==
    ASSUME IInv, NEW t \in Threads, PushWalk(t)
    PROVE  IInv'
<1> DEFINE w == walk[t]
           more == [w EXCEPT !.at = w.at - 1]
           found == [w EXCEPT !.mode = "found"]
<1>1. TypeOK /\ calls[t] \in Seq(Call) /\ w \in Walk /\ w # Idle /\ w.mode = "push"
  BY DEF IInv, TypeOK, PushWalk, Idle
<1>2. w.at \in Nat /\ w.hook \in Hooks /\ w.ret \in Site /\ w.at <= Len(chain[w.hook]) /\ mem[t] # NoStack
  BY <1>1 DEF Walk, IInv, WalkInChain
<1>3. UNCHANGED <<chainVars, stackVars>>
  BY DEF PushWalk
<1>4. CASE w.at = 0
  <2> DEFINE c == NewCall(OrigOf[w.hook], w.hook, w.ret, TRUE, 0)
  <2>1. c \in Call
    BY <1>2, NewCallType
  <2>2. walk' = [walk EXCEPT ![t] = Idle]
    BY <1>4 DEF PushWalk
  <2>3. calls' = [calls EXCEPT ![t] = Append(calls[t], c)]
    BY <1>1, <1>4 DEF PushWalk, EnterOrig, Enter, TypeOK
  <2>4. Append(calls[t], c) \in Seq(Call)
    BY <1>1, <2>1, AppendProperties
  <2> QED BY <1>3, <2>2, <2>3, <2>4, WalkStepIInv
<1>5. CASE w.at # 0
  <2>1. calls' = [calls EXCEPT ![t] = calls[t]]
    BY <1>1, <1>5 DEF PushWalk, TypeOK
  <2>2. CASE chain[w.hook][w.at].enabled
    <3>1. walk' = [walk EXCEPT ![t] = found]
      BY <1>5, <2>2 DEF PushWalk
    <3>2. found \in Walk /\ found.at = w.at /\ found.hook = w.hook /\ found.mode = "found"
      BY <1>1 DEF Walk
    <3>3. found.at > 0 /\ found.at <= Len(chain[found.hook])
      BY <1>2, <1>5, <3>2
    <3>4. found # Idle
      BY <3>2 DEF Idle
    <3> HIDE DEF found, w
    <3> QED BY <1>1, <1>2, <1>3, <2>1, <3>1, <3>2, <3>3, <3>4, WalkStepIInv
  <2>3. CASE ~chain[w.hook][w.at].enabled
    <3>1. walk' = [walk EXCEPT ![t] = more]
      BY <1>5, <2>3 DEF PushWalk, NextItem
    <3>2. w.at - 1 \in Nat
      BY <1>2, <1>5
    <3>3. more \in Walk /\ more.at = w.at - 1 /\ more.hook = w.hook /\ more.mode = "push"
      BY <1>1, <3>2 DEF Walk
    <3>4. w.at - 1 <= Len(chain[w.hook])
      BY <1>1, <1>2, <3>2 DEF TypeOK
    <3> HIDE DEF more, w
    <3> QED BY <1>1, <1>2, <1>3, <2>1, <3>1, <3>3, <3>4, WalkStepIInv
  <2> QED BY <2>2, <2>3
<1> QED BY <1>4, <1>5

\* The stack of a thread that has one, and its top frame.
LEMMA StackType ==
    ASSUME IInv, NEW t \in Threads, mem[t] # NoStack
    PROVE  /\ mem[t] \in Memory
           /\ Stack(t) = frames[mem[t]]
           /\ Stack(t) \in Seq(Frame)
           /\ Stack(t) # <<>> =>
                /\ Top(Stack(t)) \in Frame
                /\ Top(Stack(t)).top <= Len(chain[Top(Stack(t)).hook])
<1>1. mem[t] \in Memory /\ Stack(t) = frames[mem[t]] /\ Stack(t) \in Seq(Frame)
  BY DEF IInv, TypeOK, Stack
<1>2. ASSUME Stack(t) # <<>>
      PROVE  /\ Top(Stack(t)) \in Frame
             /\ Top(Stack(t)).top <= Len(chain[Top(Stack(t)).hook])
  <2>1. Len(Stack(t)) \in 1 .. Len(Stack(t)) /\ Top(Stack(t)) \in Frame
    BY <1>1, <1>2, SeqOps
  <2>2. Len(frames[mem[t]]) \in DOMAIN frames[mem[t]]
    BY <1>1, <2>1
  <2> QED BY <1>1, <2>1, <2>2 DEF IInv, FramesInChain, Top
<1> QED BY <1>1, <1>2

LEMMA GetPrevIInv ==
    ASSUME IInv, NEW t \in Threads, GetPrev(t)
    PROVE  IInv'
<1> DEFINE cs == calls[t]
           c == [cs[Len(cs)] EXCEPT !.stage = "after"]
           f == Top(Stack(t))
           w == [mode |-> "prev", hook |-> f.hook, ret |-> <<Top(cs).fn, Prev>>,
                 at |-> AfterOwn(Top(cs).fn, f)]
<1>1. TypeOK /\ cs \in Seq(Call) /\ cs # <<>> /\ Top(cs).fn \in Funcs /\ Stack(t) # <<>>
  BY DEF IInv, TypeOK, GetPrev, InProxy
<1>2. mem[t] # NoStack
  BY <1>1 DEF Stack
<1>3. f \in Frame /\ f.top <= Len(chain[f.hook]) /\ Stack(t) = frames[mem[t]]
  BY <1>1, <1>2, StackType
<1>4. f.hook \in Hooks /\ f.top \in Nat /\ Len(chain[f.hook]) \in Nat
  BY <1>1, <1>3 DEF Frame, TypeOK
<1>5. AfterOwn(Top(cs).fn, f) \in Nat /\ AfterOwn(Top(cs).fn, f) <= Len(chain[f.hook])
  <2>1. AfterOwn(Top(cs).fn, f) \in Nat /\ AfterOwn(Top(cs).fn, f) <= f.top
    BY <1>3, AfterOwnInChain
  <2> HIDE DEF f, cs
  <2> QED BY <1>3, <1>4, <2>1
<1>6. w \in Walk /\ w.at <= Len(chain[w.hook]) /\ w.mode = "prev"
  <2>1. <<Top(cs).fn, Prev>> \in Site
    BY <1>1 DEF Site, Caller
  <2> HIDE DEF f, cs
  <2> QED BY <1>4, <1>5, <2>1 DEF Walk
<1>7. walk' = [walk EXCEPT ![t] = w]
  BY DEF GetPrev
<1>8. [cs EXCEPT ![Len(cs)] = c] \in Seq(Call) /\ calls' = [calls EXCEPT ![t] = [cs EXCEPT ![Len(cs)] = c]]
  <2>1. Len(cs) \in 1 .. Len(cs) /\ cs[Len(cs)] \in Call
    BY <1>1, SeqOps DEF Top
  <2>2. c \in Call
    BY <2>1 DEF Call
  <2>3. calls' = [calls EXCEPT ![t] = [cs EXCEPT ![Len(cs)] = c]]
    BY DEF GetPrev
  <2> HIDE DEF cs, c
  <2> QED BY <1>1, <2>1, <2>2, <2>3, ExceptSeq
<1>9. UNCHANGED <<chainVars, stackVars>>
  BY DEF GetPrev
<1>10. frames[mem[t]] # <<>>
  BY <1>1, <1>3
<1> HIDE DEF w, c, cs, f
<1> QED BY <1>2, <1>6, <1>7, <1>8, <1>9, <1>10, WalkStepIInv

LEMMA PrevWalkIInv ==
    ASSUME IInv, NEW t \in Threads, PrevWalk(t)
    PROVE  IInv'
<1> DEFINE w == walk[t]
           f == Top(Stack(t))
           more == [w EXCEPT !.at = w.at - 1]
<1>1. TypeOK /\ calls[t] \in Seq(Call) /\ w \in Walk /\ w # Idle /\ w.mode = "prev"
  BY DEF IInv, TypeOK, PrevWalk, Idle
<1>2. /\ w.at \in Nat /\ w.hook \in Hooks /\ w.ret \in Site
      /\ w.at <= Len(chain[w.hook]) /\ mem[t] # NoStack /\ frames[mem[t]] # <<>>
  BY <1>1 DEF Walk, IInv, WalkInChain
<1>3. UNCHANGED <<chainVars, stackVars>>
  BY DEF PrevWalk
<1>4. f.orig \in Origs
  <2>1. Stack(t) # <<>> /\ f \in Frame
    BY <1>2, StackType
  <2> QED BY <2>1 DEF Frame
<1>5. ASSUME NEW c \in Call, walk' = [walk EXCEPT ![t] = Idle], Enter(t, c)
      PROVE  IInv'
  <2>1. calls' = [calls EXCEPT ![t] = Append(calls[t], c)]
    BY <1>1, <1>5 DEF Enter, TypeOK
  <2>2. Append(calls[t], c) \in Seq(Call)
    BY <1>1, AppendProperties
  <2> QED BY <1>3, <1>5, <2>1, <2>2, WalkStepIInv
<1>6. CASE /\ walk' = [walk EXCEPT ![t] = Idle]
           /\ Enter(t, NewCall(f.orig, w.hook, w.ret, FALSE, 0))
  <2>1. NewCall(f.orig, w.hook, w.ret, FALSE, 0) \in Call
    BY <1>2, <1>4, NewCallType
  <2> QED BY <1>5, <1>6, <2>1
<1>7. CASE /\ w.at > 0
           /\ walk' = [walk EXCEPT ![t] = Idle]
           /\ Enter(t, NewCall(chain[w.hook][w.at].func, w.hook, w.ret, FALSE, w.at))
  <2>1. chain[w.hook] \in Seq(Item) /\ w.at \in 1 .. Len(chain[w.hook])
    BY <1>1, <1>2, <1>7 DEF TypeOK
  <2>2. chain[w.hook][w.at] \in Item
    BY <2>1
  <2>3. chain[w.hook][w.at].func \in Funcs
    BY <2>2 DEF Item
  <2>4. NewCall(chain[w.hook][w.at].func, w.hook, w.ret, FALSE, w.at) \in Call
    BY <1>2, <2>3, NewCallType
  <2> QED BY <1>5, <1>7, <2>4
<1>8. CASE w.at > 0 /\ walk' = [walk EXCEPT ![t] = more] /\ UNCHANGED calls
  <2>1. w.at - 1 \in Nat
    BY <1>2, <1>8
  <2>2. more \in Walk /\ more.at = w.at - 1 /\ more.hook = w.hook /\ more.mode = "prev"
    BY <1>1, <2>1 DEF Walk
  <2>3. w.at - 1 <= Len(chain[w.hook])
    BY <1>1, <1>2, <2>1 DEF TypeOK
  <2>4. calls' = [calls EXCEPT ![t] = calls[t]]
    BY <1>1, <1>8 DEF TypeOK
  <2> HIDE DEF more, w
  <2>5. calls[t] \in Seq(Call) /\ mem[t] # NoStack /\ frames[mem[t]] # <<>>
    BY <1>1, <1>2 DEF TypeOK
  <2>6. more.at <= Len(chain[more.hook]) /\ more.mode # "found" /\ more \in Walk \cup {Idle}
    BY ONLY <2>2, <2>3
  <2>7. more # Idle => /\ more.at <= Len(chain[more.hook])
                       /\ mem[t] # NoStack
                       /\ more.mode = "found" => more.at > 0
                       /\ more.mode = "prev" => frames[mem[t]] # <<>>
    BY ONLY <2>5, <2>6
  <2> QED BY <1>3, <1>8, <2>4, <2>5, <2>6, <2>7, WalkStepIInv
<1>9. walk' = [walk EXCEPT ![t].at = w.at - 1] => walk' = [walk EXCEPT ![t] = more]
  OBVIOUS
<1> QED BY <1>6, <1>7, <1>8, <1>9 DEF PrevWalk, NextItem

LEMMA OrigReturnIInv ==
    ASSUME IInv, NEW t \in Threads, OrigReturn(t)
    PROVE  IInv'
<1> DEFINE cs == SubSeq(calls[t], 1, Len(calls[t]) - 1)
<1>1. TypeOK /\ calls[t] \in Seq(Call) /\ calls[t] # <<>>
  BY DEF IInv, TypeOK, OrigReturn
<1>2. cs \in Seq(Call) /\ calls' = [calls EXCEPT ![t] = cs]
  BY <1>1, SeqOps DEF OrigReturn
<1>3. walk' = [walk EXCEPT ![t] = Idle] /\ UNCHANGED <<chainVars, stackVars>>
  BY <1>1 DEF OrigReturn, TypeOK
<1> QED BY <1>2, <1>3, WalkStepIInv

\* A step of one thread that ends its walk and changes its own stack: no other
\* thread has that stack, so no other walk notices.
LEMMA StackStepIInv ==
    ASSUME IInv, NEW t \in Threads, mem[t] # NoStack,
           UNCHANGED <<chainVars, mem, used>>,
           walk' = [walk EXCEPT ![t] = Idle],
           NEW cs \in Seq(Call), calls' = [calls EXCEPT ![t] = cs],
           NEW s \in Seq(Frame), frames' = [frames EXCEPT ![mem[t]] = s],
           Len(s) <= FrameMax,
           \A i \in DOMAIN s : s[i].top <= Len(chain[s[i].hook])
    PROVE  IInv'
<1>1. TypeOK'
  <2>1. frames' \in [Memory -> Seq(Frame)]
    BY DEF IInv, TypeOK
  <2>2. \A m \in Memory : Len(frames'[m]) <= FrameMax
    BY DEF IInv, TypeOK
  <2> QED BY <2>1, <2>2 DEF IInv, TypeOK, chainVars
<1>2. (OneEnabledPerFunc /\ OwnMemory /\ MemoryClaimed)'
  BY DEF IInv, OneEnabledPerFunc, OwnMemory, MemoryClaimed, chainVars
<1>3. FramesInChain'
  <2> SUFFICES ASSUME NEW m \in Memory, NEW i \in DOMAIN frames'[m]
               PROVE  frames'[m][i].top <= Len(chain[frames'[m][i].hook])
    BY DEF FramesInChain, chainVars
  <2>1. CASE m = mem[t]
    BY <2>1 DEF IInv, TypeOK
  <2>2. CASE m # mem[t]
    BY <2>2 DEF IInv, TypeOK, FramesInChain
  <2> QED BY <2>1, <2>2
<1>4. WalkInChain'
  <2> SUFFICES ASSUME NEW u \in Threads, walk'[u] # Idle
               PROVE  /\ walk'[u].at <= Len(chain[walk'[u].hook])
                      /\ mem[u] # NoStack
                      /\ walk'[u].mode = "found" => walk'[u].at > 0
                      /\ walk'[u].mode = "prev" => frames'[mem[u]] # <<>>
    BY DEF WalkInChain, chainVars
  <2>1. u # t /\ walk'[u] = walk[u]
    BY DEF IInv, TypeOK
  <2>2. mem[u] # NoStack
    BY <2>1 DEF IInv, WalkInChain
  <2>3. mem[u] # mem[t] /\ frames'[mem[u]] = frames[mem[u]]
    BY <2>1, <2>2 DEF IInv, OwnMemory, TypeOK
  <2> QED BY <2>1, <2>2, <2>3 DEF IInv, WalkInChain
<1> QED BY <1>1, <1>2, <1>3, <1>4 DEF IInv

LEMMA PushFrameIInv ==
    ASSUME IInv, NEW t \in Threads, PushFrame(t)
    PROVE  IInv'
<1> DEFINE w == walk[t]
           s == Stack(t)
           f == [hook |-> w.hook, top |-> Len(chain[w.hook]), orig |-> OrigOf[w.hook], ret |-> w.ret]
<1>1. TypeOK /\ calls[t] \in Seq(Call) /\ w \in Walk /\ w # Idle /\ w.mode = "found"
  BY DEF IInv, TypeOK, PushFrame, Idle
<1>2. /\ w.at \in Nat /\ w.hook \in Hooks /\ w.ret \in Site
      /\ w.at <= Len(chain[w.hook]) /\ w.at > 0 /\ mem[t] # NoStack
  BY <1>1 DEF Walk, IInv, WalkInChain
<1>3. /\ mem[t] \in Memory /\ s = frames[mem[t]] /\ s \in Seq(Frame)
      /\ Len(s) <= FrameMax
  BY <1>1, <1>2, StackType DEF TypeOK
<1>4. chain[w.hook] \in Seq(Item) /\ Len(chain[w.hook]) \in Nat
  BY <1>1, <1>2 DEF TypeOK
<1>5. ASSUME NEW c \in Call, Enter(t, c)
      PROVE  /\ Append(calls[t], c) \in Seq(Call)
             /\ calls' = [calls EXCEPT ![t] = Append(calls[t], c)]
  BY <1>1, <1>5, AppendProperties DEF Enter, TypeOK
<1>6. walk' = [walk EXCEPT ![t] = Idle] /\ UNCHANGED <<chainVars, mem, used>>
  BY DEF PushFrame
<1>7. CASE Full(s)
  <2>1. NewCall(OrigOf[w.hook], w.hook, w.ret, TRUE, 0) \in Call
    BY <1>2, NewCallType
  <2>2. Enter(t, NewCall(OrigOf[w.hook], w.hook, w.ret, TRUE, 0)) /\ UNCHANGED frames
    BY <1>7 DEF PushFrame, EnterOrig
  <2> HIDE DEF s, w
  <2> QED BY <1>5, <1>6, <2>1, <2>2, WalkStepIInv DEF stackVars
<1>8. CASE ~Full(s)
  <2> DEFINE c == NewCall(chain[w.hook][w.at].func, w.hook, w.ret, TRUE, w.at)
  <2>1. w.at \in 1 .. Len(chain[w.hook])
    BY <1>2, <1>4
  <2>2. chain[w.hook][w.at] \in Item
    BY <1>4, <2>1
  <2>3. c \in Call
    BY <1>2, <2>2, NewCallType DEF Item
  <2>4. frames' = [frames EXCEPT ![mem[t]] = Append(s, f)] /\ Enter(t, c)
    BY <1>8 DEF PushFrame
  <2>5. f \in Frame /\ f.top = Len(chain[f.hook])
    BY <1>2, <1>4 DEF Frame
  <2>6. /\ Append(s, f) \in Seq(Frame)
        /\ Len(Append(s, f)) = Len(s) + 1
        /\ \A i \in 1 .. Len(s) : Append(s, f)[i] = s[i]
        /\ Append(s, f)[Len(s) + 1] = f
    <3> HIDE DEF f, s
    <3> QED BY <1>3, <2>5, AppendProperties
  <2>7. Len(Append(s, f)) <= FrameMax
    <3> HIDE DEF f, s
    <3> QED BY <1>3, <1>8, <2>6 DEF Full
  <2>8. \A i \in DOMAIN s : s[i].top <= Len(chain[s[i].hook])
    BY <1>3 DEF IInv, FramesInChain
  <2>9. \A i \in DOMAIN Append(s, f) : Append(s, f)[i].top <= Len(chain[Append(s, f)[i].hook])
    <3>1. f.top <= Len(chain[f.hook])
      BY <1>4
    <3>2. DOMAIN Append(s, f) = 1 .. Len(s) + 1 /\ DOMAIN s = 1 .. Len(s) /\ Len(s) \in Nat
      BY <1>3, <2>6
    <3> HIDE DEF f, s
    <3> QED BY <2>6, <2>8, <3>1, <3>2
  <2> HIDE DEF f, s, c, w
  <2> QED BY <1>2, <1>5, <1>6, <2>3, <2>4, <2>6, <2>7, <2>9, StackStepIInv
<1> QED BY <1>7, <1>8

LEMMA ProxyReturnIInv ==
    ASSUME IInv, NEW t \in Threads, ProxyReturn(t)
    PROVE  IInv'
<1> DEFINE cs == SubSeq(calls[t], 1, Len(calls[t]) - 1)
           ret == Top(calls[t]).ret
           s == frames[mem[t]]
<1>1. TypeOK /\ calls[t] \in Seq(Call) /\ calls[t] # <<>> /\ walk[t] = Idle
  BY DEF IInv, TypeOK, ProxyReturn, InProxy
<1>2. cs \in Seq(Call) /\ calls' = [calls EXCEPT ![t] = cs]
  BY <1>1, SeqOps DEF ProxyReturn
<1>3. walk' = [walk EXCEPT ![t] = Idle] /\ UNCHANGED <<chainVars, mem, used>>
  BY <1>1 DEF ProxyReturn, TypeOK
<1>4. frames' = [frames EXCEPT ![mem[t]] = Popped(s, ret)]
  BY DEF ProxyReturn
<1>5. CASE mem[t] = NoStack
  <2>1. frames' = frames
    BY <1>1, <1>4, <1>5 DEF TypeOK, Memory
  <2> QED BY <1>2, <1>3, <2>1, WalkStepIInv DEF stackVars
<1>6. CASE mem[t] # NoStack
  <2>1. s \in Seq(Frame) /\ Len(s) <= FrameMax /\ mem[t] \in Memory
    BY <1>1, <1>6, StackType DEF TypeOK
  <2>2. \A i \in DOMAIN s : s[i].top <= Len(chain[s[i].hook])
    BY <2>1 DEF IInv, FramesInChain
  <2>3. CASE Popped(s, ret) = s
    <3> HIDE DEF s, cs, ret
    <3> QED BY <1>2, <1>3, <1>4, <1>6, <2>1, <2>2, <2>3, StackStepIInv
  <2>4. CASE Popped(s, ret) # s
    <3> DEFINE p == SubSeq(s, 1, Len(s) - 1)
    <3>1. s # <<>> /\ Popped(s, ret) = p
      BY <2>4 DEF Popped
    <3>2. /\ Len(s) \in Nat \ {0} /\ p \in Seq(Frame) /\ Len(p) = Len(s) - 1
          /\ \A i \in 1 .. Len(s) - 1 : p[i] = s[i]
      <4> HIDE DEF s
      <4> QED BY <2>1, <3>1, SeqOps
    <3>3. Len(p) <= FrameMax
      <4> HIDE DEF p, s
      <4> QED BY <2>1, <3>2
    <3>4. \A i \in DOMAIN p : p[i].top <= Len(chain[p[i].hook])
      <4>1. DOMAIN p = 1 .. Len(s) - 1 /\ DOMAIN s = 1 .. Len(s)
        BY <2>1, <3>2
      <4> HIDE DEF p, s
      <4> QED BY <2>2, <3>2, <4>1
    <3> HIDE DEF p, s, cs, ret
    <3> QED BY <1>2, <1>3, <1>4, <1>6, <3>1, <3>2, <3>3, <3>4, StackStepIInv
  <2> QED BY <2>3, <2>4
<1> QED BY <1>5, <1>6

\* A thread that claims a stack: a slot no thread has, or its own mapping.
LEMMA StackCreateIInv ==
    ASSUME IInv, NEW t \in Threads, mem[t] = NoStack, StackCreate(t),
           UNCHANGED chainVars,
           NEW w \in Walk, walk' = [walk EXCEPT ![t] = w],
           w.mode = "push", w.at <= Len(chain[w.hook]),
           NEW cs \in Seq(Call), calls' = [calls EXCEPT ![t] = cs]
    PROVE  IInv'
<1>1. PICK m \in (Slots \ used) \cup {t} :
          /\ mem' = [mem EXCEPT ![t] = m]
          /\ used' = used \cup ({m} \cap Slots)
          /\ frames' = [frames EXCEPT ![m] = <<>>]
  BY DEF StackCreate
<1>2. TypeOK /\ m \in Memory
  BY DEF IInv, Memory
<1>3. <<>> \in Seq(Frame) /\ Len(<<>>) = 0 /\ DOMAIN <<>> = {}
  OBVIOUS
<1>4. TypeOK'
  <2>1. mem' \in [Threads -> Memory \cup {NoStack}] /\ used' \subseteq Slots
    BY <1>1, <1>2 DEF TypeOK
  <2>2. frames' \in [Memory -> Seq(Frame)] /\ \A x \in Memory : Len(frames'[x]) <= FrameMax
    BY <1>1, <1>2, <1>3 DEF TypeOK
  <2>3. walk' \in [Threads -> Walk \cup {Idle}] /\ calls' \in [Threads -> Seq(Call)]
    BY <1>2 DEF TypeOK
  <2> QED BY <1>2, <2>1, <2>2, <2>3 DEF TypeOK, chainVars
<1>5. OneEnabledPerFunc'
  BY DEF IInv, OneEnabledPerFunc, chainVars
<1>6. \A u \in Threads : u # t => mem'[u] = mem[u] /\ mem[u] # m
  <2> TAKE u \in Threads
  <2> SUFFICES ASSUME u # t PROVE mem'[u] = mem[u] /\ mem[u] # m
    OBVIOUS
  <2>1. mem[u] \in {NoStack, u} \cup used /\ used \subseteq Slots
    BY <1>2 DEF IInv, MemoryClaimed, TypeOK
  <2> QED BY <1>1, <1>2, <2>1 DEF TypeOK
<1>7. OwnMemory' /\ MemoryClaimed'
  <2>1. mem'[t] = m /\ m \in {t} \cup used'
    BY <1>1, <1>2 DEF TypeOK
  <2>2. used \subseteq used'
    BY <1>1
  <2> QED BY <1>6, <2>1, <2>2 DEF IInv, OwnMemory, MemoryClaimed
<1>8. FramesInChain'
  <2> SUFFICES ASSUME NEW x \in Memory, NEW i \in DOMAIN frames'[x]
               PROVE  frames'[x][i].top <= Len(chain[frames'[x][i].hook])
    BY DEF FramesInChain, chainVars
  <2>1. x # m /\ frames'[x] = frames[x]
    BY <1>1, <1>2, <1>3 DEF TypeOK
  <2> QED BY <2>1 DEF IInv, FramesInChain
<1>9. WalkInChain'
  <2> SUFFICES ASSUME NEW u \in Threads, walk'[u] # Idle
               PROVE  /\ walk'[u].at <= Len(chain[walk'[u].hook])
                      /\ mem'[u] # NoStack
                      /\ walk'[u].mode = "found" => walk'[u].at > 0
                      /\ walk'[u].mode = "prev" => frames'[mem'[u]] # <<>>
    BY DEF WalkInChain, chainVars
  <2>1. CASE u = t
    BY <1>1, <1>2, <2>1 DEF TypeOK, Memory
  <2>2. CASE u # t
    <3>1. walk'[u] = walk[u] /\ mem'[u] = mem[u] /\ mem[u] # m
      BY <1>2, <1>6, <2>2 DEF TypeOK
    <3>2. mem[u] # NoStack
      BY <3>1 DEF IInv, WalkInChain
    <3>3. frames'[mem[u]] = frames[mem[u]]
      BY <1>1, <1>2, <3>1, <3>2 DEF TypeOK
    <3> QED BY <3>1, <3>2, <3>3 DEF IInv, WalkInChain
  <2> QED BY <2>1, <2>2
<1> QED BY <1>4, <1>5, <1>7, <1>8, <1>9 DEF IInv

LEMMA CallHookIInv ==
    ASSUME IInv, NEW t \in Threads, NEW h \in Hooks, CallHook(t, h)
    PROVE  IInv'
<1> DEFINE ret == <<Running(t), h>>
           c == NewCall(OrigOf[h], h, ret, TRUE, 0)
           bypass == Append(Spend(calls[t]), c)
           w == [mode |-> "push", hook |-> h, ret |-> ret, at |-> Len(chain[h])]
           start == /\ walk' = [walk EXCEPT ![t] = w]
                    /\ calls' = [calls EXCEPT ![t] = Spend(calls[t])]
           toOrig == calls' = [calls EXCEPT ![t] = bypass] /\ UNCHANGED walk
<1>1. TypeOK /\ calls[t] \in Seq(Call) /\ walk[t] = Idle
  BY DEF IInv, TypeOK, CallHook, MayCall
<1>2. Running(t) \in Caller /\ ret \in Site
  BY <1>1, RunningType DEF Site
<1>3. Spend(calls[t]) \in Seq(Call)
  BY <1>1, SpendType
<1>4. bypass \in Seq(Call)
  <2>1. c \in Call
    <3> HIDE DEF ret
    <3> QED BY <1>2, NewCallType
  <2> HIDE DEF c
  <2> QED BY <1>3, <2>1, AppendProperties
<1>5. w \in Walk /\ w.mode = "push" /\ w.at <= Len(chain[w.hook]) /\ w # Idle
  <2>1. Len(chain[h]) \in Nat
    BY <1>1 DEF TypeOK
  <2> HIDE DEF ret
  <2> QED BY <1>2, <2>1 DEF Walk, Idle
<1>6. UNCHANGED chainVars
  BY DEF CallHook
<1>7. ASSUME toOrig, UNCHANGED stackVars
      PROVE  IInv'
  <2>1. walk' = [walk EXCEPT ![t] = Idle]
    BY <1>1, <1>7 DEF TypeOK
  <2>2. calls' = [calls EXCEPT ![t] = bypass]
    BY <1>7
  <2> HIDE DEF bypass
  <2> QED BY <1>4, <1>6, <1>7, <2>1, <2>2, WalkStepIInv
<1>8. CASE mem[t] = NoStack /\ StackCreate(t) /\ start
  <2>1. /\ walk' = [walk EXCEPT ![t] = w]
        /\ calls' = [calls EXCEPT ![t] = Spend(calls[t])]
    BY <1>8
  <2> HIDE DEF w, start
  <2> QED BY <1>3, <1>5, <1>6, <1>8, <2>1, StackCreateIInv
<1>9. CASE mem[t] # NoStack /\ UNCHANGED stackVars /\ start
  <2>1. /\ walk' = [walk EXCEPT ![t] = w]
        /\ calls' = [calls EXCEPT ![t] = Spend(calls[t])]
    BY <1>9
  <2> HIDE DEF w, start
  <2> QED BY <1>3, <1>5, <1>6, <1>9, <2>1, WalkStepIInv
<1>10. \/ mem[t] = NoStack /\ StackCreate(t) /\ start
       \/ UNCHANGED stackVars /\ toOrig
       \/ mem[t] # NoStack /\ UNCHANGED stackVars /\ start
  BY DEF CallHook
<1> HIDE DEF start, toOrig
<1> QED BY <1>7, <1>8, <1>9, <1>10

LEMMA ThreadExitIInv ==
    ASSUME IInv, NEW t \in Threads, ThreadExit(t)
    PROVE  IInv'
<1>1. TypeOK /\ mem[t] # NoStack
  BY DEF IInv, ThreadExit
<1>2. TypeOK'
  BY <1>1 DEF ThreadExit, TypeOK, chainVars
<1>3. (OneEnabledPerFunc /\ FramesInChain)'
  BY DEF ThreadExit, IInv, OneEnabledPerFunc, FramesInChain, chainVars
<1>4. \A u \in Threads : u # t => mem'[u] = mem[u] /\ mem[u] # mem[t]
  BY <1>1 DEF ThreadExit, TypeOK, IInv, OwnMemory
<1>5. mem'[t] = NoStack
  BY <1>1 DEF ThreadExit, TypeOK
<1>6. OwnMemory' /\ MemoryClaimed'
  <2>1. OwnMemory'
    BY <1>4, <1>5 DEF IInv, OwnMemory
  <2>2. MemoryClaimed'
    BY <1>4, <1>5 DEF IInv, MemoryClaimed, ThreadExit
  <2> QED BY <2>1, <2>2
<1>7. WalkInChain'
  BY <1>4, <1>5 DEF ThreadExit, IInv, WalkInChain, chainVars
<1> QED BY <1>2, <1>3, <1>6, <1>7 DEF IInv

LEMMA StutterIInv == IInv /\ UNCHANGED vars => IInv'
  BY DEF vars, chainVars, stackVars, IInv, TypeOK, OneEnabledPerFunc, OwnMemory,
         MemoryClaimed, FramesInChain, WalkInChain

LEMMA NextIInv == IInv /\ [Next]_vars => IInv'
<1> SUFFICES ASSUME IInv, [Next]_vars PROVE IInv'
  OBVIOUS
<1>1. ASSUME NEW k \in Tasks, Unhook(k) PROVE IInv'
  BY <1>1, UnhookIInv
<1>2. ASSUME NEW k \in Tasks, NEW h \in Hooks, AddFunc(k, h) PROVE IInv'
  BY <1>2, AddFuncIInv
<1>3. ASSUME NEW k \in Tasks, NEW h \in Hooks, DeleteFunc(k, h) PROVE IInv'
  BY <1>3, DeleteFuncIInv
<1>4. ASSUME NEW t \in Threads, Step(t) PROVE IInv'
  BY <1>4, PushWalkIInv, PushFrameIInv, GetPrevIInv, PrevWalkIInv, ProxyReturnIInv,
     OrigReturnIInv DEF Step
<1>5. ASSUME NEW t \in Threads, ThreadExit(t) PROVE IInv'
  BY <1>5, ThreadExitIInv
<1>6. ASSUME NEW t \in Threads, NEW h \in Hooks, CallHook(t, h) PROVE IInv'
  BY <1>6, CallHookIInv
<1>7. ASSUME UNCHANGED vars PROVE IInv'
  BY <1>7, StutterIInv
<1> QED BY <1>1, <1>2, <1>3, <1>4, <1>5, <1>6, <1>7 DEF Next

(***************************************************************************)
(* Theorems                                                                  *)
(***************************************************************************)
\* The inductive invariant holds in every reachable state.
LEMMA Inductive == Spec => []IInv
<1> QED BY InitIInv, NextIInv, PTL DEF Spec

\* Every variable keeps its type, and no thread's stack ever holds more frames
\* than its array has room for.
THEOREM Types == Spec => []TypeOK
<1>1. IInv => TypeOK
  BY DEF IInv
<1> QED BY <1>1, Inductive, PTL

\* Whatever tasks add, re-add and delete, in whatever order, a list never holds
\* two enabled items of one function.
THEOREM NoDuplicateProxy == Spec => []OneEnabledPerFunc
<1>1. IInv => OneEnabledPerFunc
  BY DEF IInv
<1> QED BY <1>1, Inductive, PTL

\* However many threads come and go, no two of them push frames on one stack.
THEOREM StacksApart == Spec => []OwnMemory
<1>1. IInv => OwnMemory
  BY DEF IInv
<1> QED BY <1>1, Inductive, PTL

(***************************************************************************)
(* Stacks, calls and unhooks                                                 *)
(*                                                                           *)
(* The invariant CInv adds two things to IInv.  Of the lists it says that    *)
(* every item has the function of its task, and that a task whose unhook has *)
(* begun to delete is off the task list.  Of a thread it says that every     *)
(* running proxy has a frame, the one the first proxy of its chain pushed    *)
(* (Matches): the top frame, which bh_trampo_get_prev_func searches and      *)
(* bh_trampo_pop_stack drops, is then that of the proxy that asks.           *)
(***************************************************************************)

(***************************************************************************)
(* Frames and calls                                                          *)
(***************************************************************************)
\* A call that a frame was pushed for.
Pushed(c) == c.first /\ c.fn \in Funcs

\* The i-th frame is that of the k-th call: no call pushed a frame or started a
\* chain of its own in between.
FrameOf(pos, s, cs, i, k) ==
    /\ pos[i] <= k
    /\ \A j \in 1 .. Len(s) : i < j => k < pos[j]
    /\ s[i].hook = cs[k].hook
    /\ \A j \in 1 .. k : cs[j].first => j <= pos[i]

MatchedBy(pos, s, cs) ==
    /\ pos \in [1 .. Len(s) -> 1 .. Len(cs)]
    /\ \A i, j \in 1 .. Len(s) : i < j => pos[i] < pos[j]
    /\ \A i \in 1 .. Len(s) : Pushed(cs[pos[i]]) /\ cs[pos[i]].ret = s[i].ret
    /\ \A k \in 1 .. Len(cs) : cs[k].fn \in Funcs =>
            \E i \in 1 .. Len(s) : FrameOf(pos, s, cs, i, k)

Matches(s, cs) == \E pos : MatchedBy(pos, s, cs)

\* A sequence without its last element.
Rest(s) == SubSeq(s, 1, Len(s) - 1)

\* A sequence with one more element.
LEMMA AppendFacts ==
    ASSUME NEW S, NEW s \in Seq(S), NEW e \in S
    PROVE  /\ Append(s, e) \in Seq(S)
           /\ Len(s) \in Nat
           /\ Len(Append(s, e)) = Len(s) + 1
           /\ DOMAIN Append(s, e) = 1 .. Len(s) + 1
           /\ \A i \in 1 .. Len(s) : Append(s, e)[i] = s[i]
           /\ Append(s, e)[Len(s) + 1] = e
           /\ Append(s, e) # <<>>
           /\ Top(Append(s, e)) = e
BY DEF Top

\* A sequence without its last element.
LEMMA RestFacts ==
    ASSUME NEW S, NEW s \in Seq(S), s # <<>>
    PROVE  /\ Rest(s) \in Seq(S)
           /\ Len(s) \in Nat \ {0}
           /\ Len(Rest(s)) = Len(s) - 1
           /\ DOMAIN Rest(s) = 1 .. Len(s) - 1
           /\ \A i \in 1 .. Len(s) - 1 : Rest(s)[i] = s[i]
           /\ Top(s) = s[Len(s)]
           /\ Top(s) \in S
<1>1. Len(s) \in Nat \ {0} /\ Len(s) - 1 \in Nat
  BY EmptySeq
<1> DEFINE n == Len(s) - 1
<1>2. /\ SubSeq(s, 1, n) \in Seq(S)
      /\ Len(SubSeq(s, 1, n)) = n
      /\ \A i \in 1 .. n : SubSeq(s, 1, n)[i] = s[i]
  <2>1. 1 \in Int /\ n \in Int /\ \A i \in 1 .. n : s[i] \in S
    BY <1>1
  <2>2. /\ SubSeq(s, 1, n) \in Seq(S)
        /\ Len(SubSeq(s, 1, n)) = IF 1 <= n THEN n - 1 + 1 ELSE 0
        /\ \A i \in 1 .. n - 1 + 1 : SubSeq(s, 1, n)[i] = s[1 + i - 1]
    <3> HIDE DEF n
    <3> QED BY <1>1, <2>1, SubSeqProperties
  <2>3. n - 1 + 1 = n /\ \A i \in 1 .. n : 1 + i - 1 = i
    BY <1>1
  <2>4. n \in Nat
    BY <1>1
  <2> HIDE DEF n
  <2>5. (IF 1 <= n THEN n - 1 + 1 ELSE 0) = n
    BY <2>4
  <2> QED BY <2>2, <2>3, <2>5
<1>3. DOMAIN SubSeq(s, 1, n) = 1 .. n
  BY <1>2
<1> QED BY <1>1, <1>2, <1>3 DEF Rest, Top

\* What is left stands where it stood.
LEMMA RestItems ==
    ASSUME NEW S, NEW s \in Seq(S), s # <<>>
    PROVE  \A i \in 1 .. Len(s) - 1 : Rest(s)[i] = s[i]
BY RestFacts

\* PushFrame: a proxy is called with a frame of its own.
LEMMA MatchPush ==
    ASSUME NEW s \in Seq(Frame), NEW cs \in Seq(Call), Matches(s, cs),
           NEW f \in Frame, NEW c \in Call, Pushed(c), f.ret = c.ret, f.hook = c.hook
    PROVE  Matches(Append(s, f), Append(cs, c))
<1>1. PICK pos : MatchedBy(pos, s, cs)
  BY DEF Matches
<1> DEFINE m == Len(s)  n == Len(cs)  S == Append(s, f)  C == Append(cs, c)
           new == [i \in 1 .. m + 1 |-> IF i = m + 1 THEN n + 1 ELSE pos[i]]
<1>2. m \in Nat /\ n \in Nat /\ Len(S) = m + 1 /\ Len(C) = n + 1
  BY AppendFacts
<1>3. S[m + 1] = f /\ C[n + 1] = c
  BY AppendFacts
<1>4. (\A i \in 1 .. m : S[i] = s[i]) /\ (\A i \in 1 .. n : C[i] = cs[i])
  BY AppendFacts
<1>5. \A i \in 1 .. m : pos[i] \in 1 .. n /\ new[i] = pos[i]
  <2>1. \A i \in 1 .. m : pos[i] \in 1 .. n
    BY <1>1 DEF MatchedBy
  <2>2. \A i \in 1 .. m : i \in 1 .. m + 1 /\ i # m + 1
    BY <1>2
  <2> QED BY <2>1, <2>2
<1> HIDE DEF S, C, m, n
<1>6. new[m + 1] = n + 1 /\ new \in [1 .. m + 1 -> 1 .. n + 1]
  <2>1. m + 1 \in 1 .. m + 1 /\ \A i \in 1 .. m : i # m + 1
    BY <1>2
  <2>2. \A i \in 1 .. m + 1 : i # m + 1 => i \in 1 .. m
    BY <1>2
  <2>3. (1 .. n) \subseteq 1 .. n + 1 /\ n + 1 \in 1 .. n + 1
    BY <1>2
  <2> QED BY <1>5, <2>1, <2>2, <2>3
<1>a. \A i \in 1 .. m + 1 : i \in 1 .. m \/ i = m + 1
  BY <1>2
<1>b. \A i \in 1 .. n + 1 : i \in 1 .. n \/ i = n + 1
  BY <1>2
<1> HIDE DEF new
<1>7. \A i, j \in 1 .. m + 1 : i < j => new[i] < new[j]
  <2> SUFFICES ASSUME NEW i \in 1 .. m + 1, NEW j \in 1 .. m + 1, i < j PROVE new[i] < new[j]
    OBVIOUS
  <2>1. i \in 1 .. m
    BY <1>2
  <2>2. CASE j = m + 1
    <3>1. pos[i] \in 1 .. n /\ new[i] = pos[i]
      BY <1>5, <2>1
    <3> QED BY <1>2, <1>6, <2>2, <3>1
  <2>3. CASE j \in 1 .. m
    <3>1. pos[i] < pos[j]
      BY <1>1, <2>1, <2>3 DEF MatchedBy, m
    <3> QED BY <1>5, <2>1, <2>3, <3>1
  <2> QED BY <1>a, <2>2, <2>3
<1>8. \A i \in 1 .. m + 1 : Pushed(C[new[i]]) /\ C[new[i]].ret = S[i].ret
  <2> TAKE i \in 1 .. m + 1
  <2>1. CASE i = m + 1
    BY <1>3, <1>6, <2>1
  <2>2. CASE i \in 1 .. m
    <3>1. pos[i] \in 1 .. n /\ new[i] = pos[i] /\ S[i] = s[i]
      BY <1>4, <1>5, <2>2
    <3>2. C[pos[i]] = cs[pos[i]]
      BY <1>4, <3>1
    <3> QED BY <1>1, <2>2, <3>1, <3>2 DEF MatchedBy, m
  <2> QED BY <1>a, <2>1, <2>2
<1>9. ASSUME NEW k \in 1 .. n + 1, C[k].fn \in Funcs
      PROVE  \E i \in 1 .. m + 1 : FrameOf(new, S, C, i, k)
  <2>1. CASE k = n + 1
    <3>1. FrameOf(new, S, C, m + 1, k)
      BY <1>2, <1>3, <1>6, <2>1 DEF FrameOf
    <3> QED BY <1>2, <3>1
  <2>2. CASE k \in 1 .. n
    <3>1. PICK i \in 1 .. m : FrameOf(pos, s, cs, i, k)
      BY <1>1, <1>4, <1>9, <2>2 DEF MatchedBy, m, n
    <3>2. ASSUME NEW j \in 1 .. m + 1, i < j PROVE k < new[j]
      <4>1. CASE j = m + 1
        BY <1>2, <1>6, <2>2, <4>1
      <4>2. CASE j \in 1 .. m
        BY <1>5, <3>1, <3>2, <4>2 DEF FrameOf, m
      <4> QED BY <1>a, <4>1, <4>2
    <3>3. /\ i \in 1 .. m + 1 /\ new[i] = pos[i] /\ S[i] = s[i]
          /\ k \in 1 .. n + 1 /\ C[k] = cs[k]
          /\ \A j \in 1 .. k : C[j] = cs[j]
      <4>1. \A j \in 1 .. k : j \in 1 .. n
        BY <1>2, <2>2
      <4> QED BY <1>2, <1>4, <1>5, <2>2, <3>1, <4>1
    <3>4. new[i] <= k /\ S[i].hook = C[k].hook
      BY ONLY <3>1, <3>3 DEF FrameOf
    <3>5. \A j \in 1 .. k : C[j].first => j <= new[i]
      BY ONLY <3>1, <3>3 DEF FrameOf
    <3>6. FrameOf(new, S, C, i, k)
      BY ONLY <1>2, <3>2, <3>4, <3>5 DEF FrameOf
    <3> QED BY <3>3, <3>6
  <2> QED BY <1>b, <2>1, <2>2
<1>10. MatchedBy(new, S, C)
  BY <1>2, <1>6, <1>7, <1>8, <1>9 DEF MatchedBy
<1> QED BY <1>10 DEF Matches, S, C

\* The top frame is that of the innermost call, when a proxy runs there.
LEMMA TopFrame ==
    ASSUME NEW s \in Seq(Frame), NEW cs \in Seq(Call), NEW pos, MatchedBy(pos, s, cs),
           cs # <<>>, Top(cs).fn \in Funcs
    PROVE  /\ Len(s) \in 1 .. Len(s)
           /\ FrameOf(pos, s, cs, Len(s), Len(cs))
<1>1. Len(cs) \in Nat \ {0} /\ Top(cs) = cs[Len(cs)] /\ Len(s) \in Nat
  BY EmptySeq DEF Top
<1>2. PICK i \in 1 .. Len(s) : FrameOf(pos, s, cs, i, Len(cs))
  <2>1. Len(cs) \in 1 .. Len(cs) /\ cs[Len(cs)].fn \in Funcs
    BY <1>1
  <2> QED BY <2>1, Zenon DEF MatchedBy
<1>3. \A j \in 1 .. Len(s) : pos[j] \in 1 .. Len(cs)
  BY DEF MatchedBy
<1>4. Len(s) \in 1 .. Len(s) /\ i \in Nat
  BY <1>1, <1>2
<1>5. ~(i < Len(s))
  <2>1. i < Len(s) => Len(cs) < pos[Len(s)]
    BY <1>2, <1>4 DEF FrameOf
  <2>2. pos[Len(s)] \in 1 .. Len(cs)
    BY <1>3, <1>4
  <2> QED BY <1>1, <2>1, <2>2
<1>6. i = Len(s)
  BY <1>1, <1>2, <1>5
<1> QED BY <1>2, <1>4, <1>6

LEMMA MatchTop ==
    ASSUME NEW s \in Seq(Frame), NEW cs \in Seq(Call), Matches(s, cs),
           cs # <<>>, Top(cs).fn \in Funcs
    PROVE  /\ s # <<>>
           /\ Top(s).hook = Top(cs).hook
           /\ Top(cs).first => Top(s).ret = Top(cs).ret
<1>1. PICK pos : MatchedBy(pos, s, cs)
  BY DEF Matches
<1>2. Len(s) \in 1 .. Len(s) /\ FrameOf(pos, s, cs, Len(s), Len(cs))
  BY <1>1, TopFrame
<1>3. Len(cs) \in Nat \ {0} /\ Len(cs) \in 1 .. Len(cs)
  BY EmptySeq
<1>4. pos[Len(s)] \in 1 .. Len(cs) /\ cs[pos[Len(s)]].ret = s[Len(s)].ret
  BY <1>1, <1>2 DEF MatchedBy
<1>5. Top(cs).first => pos[Len(s)] = Len(cs)
  <2>1. Top(cs).first => Len(cs) <= pos[Len(s)]
    BY <1>2, <1>3 DEF FrameOf, Top
  <2> QED BY <1>3, <1>4, <2>1
<1>6. s # <<>>
  BY <1>2
<1> QED BY <1>2, <1>4, <1>5, <1>6 DEF FrameOf, Top

\* A call without a frame: of the original function, or of a proxy further down
\* the chain of the one that calls it.
LEMMA MatchCall ==
    ASSUME NEW s \in Seq(Frame), NEW cs \in Seq(Call), Matches(s, cs),
           NEW c \in Call, ~Pushed(c),
           c.fn \in Funcs => cs # <<>> /\ Top(cs).fn \in Funcs /\ c.hook = Top(cs).hook
    PROVE  Matches(s, Append(cs, c))
<1>1. PICK pos : MatchedBy(pos, s, cs)
  BY DEF Matches
<1> DEFINE m == Len(s)  n == Len(cs)  C == Append(cs, c)
<1>2. m \in Nat /\ n \in Nat /\ Len(C) = n + 1 /\ C[n + 1] = c
  BY AppendFacts
<1>3. \A i \in 1 .. n : C[i] = cs[i]
  BY AppendFacts
<1>4. \A i \in 1 .. m : pos[i] \in 1 .. n
  BY <1>1 DEF MatchedBy
<1>5. \A i \in 1 .. n + 1 : i \in 1 .. n \/ i = n + 1
  BY <1>2
<1>6. ASSUME c.fn \in Funcs
      PROVE  m \in 1 .. m /\ FrameOf(pos, s, cs, m, n) /\ c.hook = cs[n].hook /\ ~c.first
  <2>1. Len(s) \in 1 .. Len(s) /\ FrameOf(pos, s, cs, Len(s), Len(cs))
    BY <1>1, <1>6, TopFrame
  <2> QED BY <1>6, <2>1 DEF Pushed, Top
<1> HIDE DEF C, m, n
<1>7. pos \in [1 .. m -> 1 .. n + 1]
  BY <1>1, <1>2, <1>4 DEF MatchedBy, m, n
<1>8. ASSUME NEW k \in 1 .. n + 1, C[k].fn \in Funcs
      PROVE  \E i \in 1 .. m : FrameOf(pos, s, C, i, k)
  <2>1. CASE k = n + 1
    <3>1. m \in 1 .. m /\ FrameOf(pos, s, cs, m, n) /\ c.hook = cs[n].hook /\ ~c.first
      BY <1>2, <1>6, <1>8, <2>1
    <3>2. pos[m] \in 1 .. n /\ pos[m] <= k
      BY <1>2, <1>4, <2>1, <3>1
    <3>3. \A j \in 1 .. m : ~(m < j)
      BY <1>2
    <3>4. \A j \in 1 .. k : C[j].first => j <= pos[m]
      <4>1. \A j \in 1 .. n : cs[j].first => j <= pos[m]
        BY <3>1 DEF FrameOf
      <4> QED BY <1>2, <1>3, <1>5, <2>1, <3>1, <4>1
    <3>5. s[m].hook = C[k].hook
      BY <1>2, <2>1, <3>1 DEF FrameOf
    <3>6. FrameOf(pos, s, C, m, k)
      BY <3>2, <3>3, <3>4, <3>5 DEF FrameOf, m
    <3> QED BY <3>1, <3>6
  <2>2. CASE k \in 1 .. n
    <3>1. PICK i \in 1 .. m : FrameOf(pos, s, cs, i, k)
      BY <1>1, <1>3, <1>8, <2>2 DEF MatchedBy, m, n
    <3>2. \A j \in 1 .. k : j \in 1 .. n
      BY <1>2, <2>2
    <3>3. FrameOf(pos, s, C, i, k)
      BY <1>3, <2>2, <3>1, <3>2 DEF FrameOf
    <3> QED BY <3>3
  <2> QED BY <1>5, <2>1, <2>2
<1>9. MatchedBy(pos, s, C)
  BY <1>1, <1>2, <1>3, <1>4, <1>7, <1>8 DEF MatchedBy, m, n
<1> QED BY <1>9 DEF Matches, C

\* The proxy that the top frame was pushed for returns, and its frame goes.
LEMMA MatchPop ==
    ASSUME NEW s \in Seq(Frame), NEW cs \in Seq(Call), Matches(s, cs),
           cs # <<>>, Pushed(Top(cs))
    PROVE  s # <<>> /\ Top(s).ret = Top(cs).ret /\ Matches(Rest(s), Rest(cs))
<1>1. PICK pos : MatchedBy(pos, s, cs)
  BY DEF Matches
<1>2. s # <<>> /\ Top(s).ret = Top(cs).ret
  BY MatchTop DEF Pushed
<1> DEFINE m == Len(s) - 1  n == Len(cs) - 1  S == Rest(s)  C == Rest(cs)
           new == [i \in 1 .. m |-> pos[i]]
<1>3. m \in Nat /\ n \in Nat /\ Len(s) = m + 1 /\ Len(cs) = n + 1
  BY <1>2, RestFacts
<1>4. Len(S) = m /\ Len(C) = n
  BY <1>2, RestFacts
<1>5. (\A i \in 1 .. m : S[i] = s[i]) /\ (\A i \in 1 .. n : C[i] = cs[i])
  <2>1. \A i \in 1 .. Len(s) - 1 : Rest(s)[i] = s[i]
    BY <1>2, RestItems
  <2>2. \A i \in 1 .. Len(cs) - 1 : Rest(cs)[i] = cs[i]
    BY RestItems
  <2> QED BY <2>1, <2>2
<1>6. Pushed(cs[n + 1])
  BY <1>3 DEF Top
<1> HIDE DEF m, n, S, C
<1>7. \A i \in 1 .. m + 1 : pos[i] \in 1 .. n + 1
  BY <1>1, <1>3 DEF MatchedBy
<1>8. \A i, j \in 1 .. m + 1 : i < j => pos[i] < pos[j]
  BY <1>1, <1>3 DEF MatchedBy
<1>9. \A i \in 1 .. m : i \in 1 .. m + 1 /\ i < m + 1 /\ m + 1 \in 1 .. m + 1
  BY <1>3
<1>10. \A i \in 1 .. m : pos[i] \in 1 .. n
  <2> TAKE i \in 1 .. m
  <2>1. pos[i] < pos[m + 1] /\ pos[i] \in 1 .. n + 1 /\ pos[m + 1] \in 1 .. n + 1
    BY <1>7, <1>8, <1>9
  <2> QED BY <1>3, <2>1
<1>11. new \in [1 .. m -> 1 .. n] /\ \A i \in 1 .. m : new[i] = pos[i]
  BY <1>10
<1> HIDE DEF new
<1>12. \A i \in 1 .. m : Pushed(C[new[i]]) /\ C[new[i]].ret = S[i].ret
  <2> TAKE i \in 1 .. m
  <2>1. Pushed(cs[pos[i]]) /\ cs[pos[i]].ret = s[i].ret
    BY <1>1, <1>3, <1>9 DEF MatchedBy
  <2>2. C[new[i]] = cs[pos[i]] /\ S[i] = s[i]
    BY <1>5, <1>10, <1>11
  <2> QED BY <2>1, <2>2
<1>13. ASSUME NEW k \in 1 .. n, C[k].fn \in Funcs
       PROVE  \E i \in 1 .. m : FrameOf(new, S, C, i, k)
  <2>1. k \in 1 .. n + 1 /\ C[k] = cs[k] /\ k < n + 1
    BY <1>3, <1>5
  <2>2. PICK i \in 1 .. m + 1 : FrameOf(pos, s, cs, i, k)
    BY <1>1, <1>3, <1>13, <2>1 DEF MatchedBy
  <2>3. pos[m + 1] = n + 1
    <3>1. FrameOf(pos, s, cs, m + 1, n + 1)
      BY <1>1, <1>3, TopFrame DEF Pushed
    <3>2. n + 1 \in 1 .. n + 1 /\ cs[n + 1].first /\ m + 1 \in 1 .. m + 1
      BY <1>3, <1>6 DEF Pushed
    <3>3. n + 1 <= pos[m + 1] /\ pos[m + 1] \in 1 .. n + 1
      BY <1>7, <3>1, <3>2 DEF FrameOf
    <3> QED BY <1>3, <3>3
  <2>4. i # m + 1
    <3>1. pos[i] <= k
      BY <2>2 DEF FrameOf
    <3>2. ~(n + 1 <= k)
      BY <1>3, <2>1
    <3> QED BY <2>3, <3>1, <3>2
  <2>5. i \in 1 .. m
    BY <1>3, <2>2, <2>4
  <2>6. FrameOf(new, S, C, i, k)
    <3>1. new[i] = pos[i] /\ S[i] = s[i]
      BY <1>5, <1>11, <2>5
    <3>2. new[i] <= k /\ S[i].hook = C[k].hook
      BY <2>1, <2>2, <3>1 DEF FrameOf
    <3>3. \A j \in 1 .. m : i < j => k < new[j]
      BY <1>3, <1>9, <1>11, <2>2 DEF FrameOf
    <3>4. \A j \in 1 .. k : C[j] = cs[j]
      BY <1>3, <1>5
    <3>5. \A j \in 1 .. k : C[j].first => j <= new[i]
      BY <2>2, <3>1, <3>4 DEF FrameOf
    <3> QED BY <1>4, <3>2, <3>3, <3>5 DEF FrameOf
  <2> QED BY <2>5, <2>6
<1>14. \A i, j \in 1 .. m : i < j => new[i] < new[j]
  BY <1>8, <1>9, <1>11
<1>15. MatchedBy(new, S, C)
  BY <1>4, <1>11, <1>12, <1>13, <1>14 DEF MatchedBy
<1> QED BY <1>2, <1>15 DEF Matches, S, C

\* Any other call returns, and no frame goes.
LEMMA MatchReturn ==
    ASSUME NEW s \in Seq(Frame), NEW cs \in Seq(Call), Matches(s, cs),
           cs # <<>>, ~Pushed(Top(cs))
    PROVE  Matches(s, Rest(cs))
<1>1. PICK pos : MatchedBy(pos, s, cs)
  BY DEF Matches
<1> DEFINE m == Len(s)  n == Len(cs) - 1  C == Rest(cs)
<1>3. m \in Nat /\ n \in Nat /\ Len(cs) = n + 1
  BY RestFacts
<1>4. Len(C) = n
  BY RestFacts
<1>5. \A i \in 1 .. n : C[i] = cs[i]
  BY RestFacts
<1>6. ~Pushed(cs[n + 1])
  BY <1>3 DEF Top
<1> HIDE DEF m, n, C
<1>7. \A i \in 1 .. m : pos[i] \in 1 .. n + 1 /\ Pushed(cs[pos[i]])
  BY <1>1, <1>3 DEF MatchedBy, m
<1>8. \A i \in 1 .. m : pos[i] \in 1 .. n
  BY <1>3, <1>6, <1>7
<1>9. pos \in [1 .. m -> 1 .. n]
  BY <1>1, <1>8 DEF MatchedBy, m
<1>10. ASSUME NEW k \in 1 .. n, C[k].fn \in Funcs
       PROVE  \E i \in 1 .. m : FrameOf(pos, s, C, i, k)
  <2>1. k \in 1 .. n + 1 /\ C[k] = cs[k]
    BY <1>3, <1>5
  <2>2. PICK i \in 1 .. m : FrameOf(pos, s, cs, i, k)
    BY <1>1, <1>3, <1>10, <2>1 DEF MatchedBy, m
  <2>3. \A j \in 1 .. k : C[j] = cs[j]
    BY <1>3, <1>5
  <2> QED BY <2>1, <2>2, <2>3 DEF FrameOf
<1>11. MatchedBy(pos, s, C)
  BY <1>1, <1>3, <1>4, <1>5, <1>8, <1>9, <1>10 DEF MatchedBy, m
<1> QED BY <1>11 DEF Matches, C

\* The parts of the calls that stages and the nested flag do not touch.
SameCalls(cs, cs2) ==
    /\ Len(cs2) = Len(cs)
    /\ \A k \in 1 .. Len(cs) :
        /\ cs2[k].fn = cs[k].fn /\ cs2[k].first = cs[k].first
        /\ cs2[k].ret = cs[k].ret /\ cs2[k].hook = cs[k].hook /\ cs2[k].at = cs[k].at

\* The match does not depend on them.
LEMMA MatchSame ==
    ASSUME NEW s, NEW cs \in Seq(Call), NEW cs2, Matches(s, cs), SameCalls(cs, cs2)
    PROVE  Matches(s, cs2)
<1>1. PICK pos : MatchedBy(pos, s, cs)
  BY DEF Matches
<1>2. pos \in [1 .. Len(s) -> 1 .. Len(cs2)]
  BY <1>1 DEF MatchedBy, SameCalls
<1>3. \A i \in 1 .. Len(s) : Pushed(cs2[pos[i]]) /\ cs2[pos[i]].ret = s[i].ret
  BY <1>1 DEF MatchedBy, SameCalls, Pushed
<1>4. ASSUME NEW k \in 1 .. Len(cs2), cs2[k].fn \in Funcs
      PROVE  \E i \in 1 .. Len(s) : FrameOf(pos, s, cs2, i, k)
  <2>1. PICK i \in 1 .. Len(s) : FrameOf(pos, s, cs, i, k)
    BY <1>1, <1>4 DEF MatchedBy, SameCalls
  <2>2. Len(cs) \in Nat /\ k \in 1 .. Len(cs) /\ \A j \in 1 .. k : j \in 1 .. Len(cs)
    BY <1>4 DEF SameCalls
  <2> QED BY <2>1, <2>2 DEF FrameOf, SameCalls
<1>5. MatchedBy(pos, s, cs2)
  BY <1>1, <1>2, <1>3, <1>4 DEF MatchedBy
<1> QED BY <1>5 DEF Matches

(***************************************************************************)
(* The lists                                                                 *)
(***************************************************************************)
\* Every task installs a function of its own.
OwnFunctions == \A k, l \in Tasks : FuncOf[k] = FuncOf[l] => k = l

UniqueFuncs(s) == \A i, j \in DOMAIN s : s[i].func = s[j].func => i = j
TaskFuncs(s) == \A i \in DOMAIN s : s[i].func = FuncOf[s[i].task]
Enables(s, f) == \E i \in DOMAIN s : s[i].enabled /\ s[i].func = f

\* The list has grown, and its older items are those they were.
Grown(s, s2) ==
    /\ Len(s) <= Len(s2)
    /\ \A i \in DOMAIN s : i \in DOMAIN s2 /\ s2[i].func = s[i].func /\ s2[i].task = s[i].task

\* The items of all functions but f are as they were.
OthersStay(s, s2, f) ==
    /\ \A i \in DOMAIN s : s[i].func # f => i \in DOMAIN s2 /\ s2[i] = s[i]
    /\ \A i \in DOMAIN s2 : s2[i].func # f => i \in DOMAIN s /\ s2[i] = s[i]

ListsRight ==
    /\ \A k \in Tasks : deleted[k] # {} => k \in gone
    /\ \A h \in Hooks : TaskFuncs(chain[h])
    /\ OwnFunctions => /\ \A h \in Hooks : UniqueFuncs(chain[h])
                       /\ UnhookSticks
                       /\ HookedStaysEnabled

\* bh_hook_add_func leaves an enabled item of its function, touches no other
\* function's, and gives a task a second item only when another one shares its
\* function.
LEMMA AddedEffect ==
    ASSUME TypeOK, NEW h \in Hooks, NEW k \in Tasks
    PROVE  /\ Grown(chain[h], Added(h, k))
           /\ OthersStay(chain[h], Added(h, k), FuncOf[k])
           /\ Enables(Added(h, k), FuncOf[k])
           /\ TaskFuncs(chain[h]) => TaskFuncs(Added(h, k))
           /\ OwnFunctions /\ TaskFuncs(chain[h]) /\ UniqueFuncs(chain[h])
                => UniqueFuncs(Added(h, k))
<1> DEFINE s == chain[h]
           own == OwnItems(h, k)
<1>1. s \in Seq(Item) /\ Len(s) \in Nat /\ DOMAIN s = 1 .. Len(s)
  BY DEF TypeOK
<1>2. CASE EnabledItem(h, FuncOf[k])
  <2>1. Added(h, k) = s
    BY <1>2 DEF Added
  <2> QED BY <1>1, <1>2, <2>1 DEF Grown, OthersStay, Enables, EnabledItem
<1>3. CASE ~EnabledItem(h, FuncOf[k]) /\ own # {}
  <2> DEFINE n == Newest(own)
  <2>1. own \in SUBSET (1 .. Len(s))
    BY <1>1 DEF OwnItems
  <2>2. n \in own
    <3> HIDE DEF own, s
    <3> QED BY <1>1, <1>3, <2>1, NewestIsMax
  <2>3. n \in DOMAIN s /\ s[n].func = FuncOf[k]
    BY <1>1, <2>1, <2>2 DEF OwnItems
  <2>4. Added(h, k) = [s EXCEPT ![n].enabled = TRUE]
    BY <1>3 DEF Added
  <2> HIDE DEF n
  <2>5. s[n] \in Item
    BY <1>1, <2>3
  <2>6. /\ DOMAIN Added(h, k) = DOMAIN s
        /\ Len(Added(h, k)) = Len(s)
        /\ \A i \in DOMAIN s : i # n => Added(h, k)[i] = s[i]
        /\ Added(h, k)[n] = [s[n] EXCEPT !.enabled = TRUE]
    BY <1>1, <2>3, <2>4
  <2>7. /\ Added(h, k)[n].func = s[n].func
        /\ Added(h, k)[n].task = s[n].task
        /\ Added(h, k)[n].enabled
    BY <2>5, <2>6 DEF Item
  <2> HIDE DEF s
  <2>8. \A i \in DOMAIN s : /\ Added(h, k)[i].func = s[i].func
                            /\ Added(h, k)[i].task = s[i].task
    BY <2>6, <2>7
  <2>9. Grown(s, Added(h, k)) /\ OthersStay(s, Added(h, k), FuncOf[k])
    BY <1>1, <2>3, <2>6, <2>7, <2>8 DEF Grown, OthersStay
  <2>10. Enables(Added(h, k), FuncOf[k])
    BY <2>3, <2>6, <2>7 DEF Enables
  <2> QED BY <2>6, <2>8, <2>9, <2>10 DEF s, TaskFuncs, UniqueFuncs
<1>4. CASE ~EnabledItem(h, FuncOf[k]) /\ own = {}
  <2> DEFINE new == [func |-> FuncOf[k], task |-> k, enabled |-> TRUE]
             S == Append(s, new)
  <2>1. Added(h, k) = S /\ new \in Item
    <3>1. Added(h, k) = S
      BY <1>4 DEF Added
    <3>2. FuncOf[k] \in Funcs
      OBVIOUS
    <3> QED BY <3>1, <3>2 DEF Item
  <2>2. /\ Len(S) = Len(s) + 1
        /\ DOMAIN S = 1 .. Len(s) + 1
        /\ \A i \in 1 .. Len(s) : S[i] = s[i]
        /\ S[Len(s) + 1] = new
    <3> HIDE DEF s, new
    <3> QED BY <1>1, <2>1, AppendFacts
  <2>3. new.func = FuncOf[k] /\ new.task = k /\ new.enabled
    OBVIOUS
  <2>4. \A i \in DOMAIN s : s[i].func = FuncOf[k] => s[i].task # k
    BY <1>4 DEF OwnItems
  <2>5. \A i \in DOMAIN s : s[i].task \in Tasks
    <3>1. \A i \in DOMAIN s : s[i] \in Item
      BY <1>1
    <3> QED BY <3>1 DEF Item
  <2> HIDE DEF s, new, S
  <2>6. /\ \A i \in DOMAIN s : i \in DOMAIN S /\ S[i] = s[i]
        /\ \A i \in DOMAIN S : i \in DOMAIN s \/ i = Len(s) + 1
        /\ Len(s) + 1 \in DOMAIN S
        /\ Len(s) <= Len(S)
    BY <1>1, <2>2
  <2>7. Grown(s, S) /\ OthersStay(s, S, FuncOf[k]) /\ Enables(S, FuncOf[k])
    BY <2>2, <2>3, <2>6 DEF Grown, OthersStay, Enables
  <2>8. TaskFuncs(s) => TaskFuncs(S)
    BY <2>2, <2>3, <2>6 DEF TaskFuncs
  <2>9. OwnFunctions /\ TaskFuncs(s) /\ UniqueFuncs(s) => UniqueFuncs(S)
    <3> SUFFICES ASSUME OwnFunctions, TaskFuncs(s), UniqueFuncs(s) PROVE UniqueFuncs(S)
      OBVIOUS
    <3>1. \A i \in DOMAIN s : s[i].func # FuncOf[k]
      BY <2>4, <2>5 DEF OwnFunctions, TaskFuncs
    <3> QED BY <2>2, <2>3, <2>6, <3>1 DEF UniqueFuncs
  <2> QED BY <2>1, <2>7, <2>8, <2>9 DEF s
<1> QED BY <1>2, <1>3, <1>4

\* bh_hook_delete_func leaves no enabled item of its function, and touches no
\* other function's.
LEMMA DisabledEffect ==
    ASSUME NEW s \in Seq(Item), NEW f \in Funcs
    PROVE  /\ Grown(s, Disabled(s, f))
           /\ OthersStay(s, Disabled(s, f), f)
           /\ ~Enables(Disabled(s, f), f)
           /\ TaskFuncs(s) => TaskFuncs(Disabled(s, f))
           /\ UniqueFuncs(s) => UniqueFuncs(Disabled(s, f))
<1> DEFINE S == Disabled(s, f)
<1>1. Len(s) \in Nat /\ DOMAIN s = 1 .. Len(s) /\ \A i \in DOMAIN s : s[i] \in Item
  OBVIOUS
<1>2. DOMAIN S = DOMAIN s /\ Len(S) = Len(s)
  <2>1. DOMAIN S = DOMAIN s
    BY DEF Disabled
  <2>2. Len(S) = Len(s)
    BY DisabledKeeps
  <2> QED BY <2>1, <2>2
<1>3. \A i \in DOMAIN s :
        S[i] = IF s[i].func = f THEN [s[i] EXCEPT !.enabled = FALSE] ELSE s[i]
  BY DEF Disabled
<1>4. \A i \in DOMAIN s : /\ S[i].func = s[i].func /\ S[i].task = s[i].task
                          /\ s[i].func = f => ~S[i].enabled
                          /\ s[i].func # f => S[i] = s[i]
  BY <1>1, <1>3 DEF Item
<1> HIDE DEF S
<1>5. Grown(s, S) /\ OthersStay(s, S, f) /\ ~Enables(S, f)
  BY <1>1, <1>2, <1>4 DEF Grown, OthersStay, Enables
<1> QED BY <1>2, <1>4, <1>5 DEF TaskFuncs, UniqueFuncs, S

\* A list that did not change.
LEMMA GrownSame == \A s \in Seq(Item) : Grown(s, s)
  BY DEF Grown

LEMMA ListsGrown ==
    ASSUME TypeOK, NEW h \in Hooks, NEW s, Grown(chain[h], s),
           chain' = [chain EXCEPT ![h] = s]
    PROVE  \A x \in Hooks : Grown(chain[x], chain'[x])
<1> TAKE x \in Hooks
<1>1. chain[x] \in Seq(Item) /\ chain'[x] = IF x = h THEN s ELSE chain[x]
  BY DEF TypeOK
<1> QED BY <1>1, GrownSame

LEMMA AddFuncLists ==
    ASSUME IInv, ListsRight, NEW k \in Tasks, NEW h \in Hooks, AddFunc(k, h)
    PROVE  ListsRight' /\ \A x \in Hooks : Grown(chain[x], chain'[x])
<1>1. TypeOK /\ k \notin gone /\ UNCHANGED <<gone, deleted>>
  BY DEF IInv, AddFunc, Listed
<1>2. CASE UNCHANGED chain
  <2>1. ListsRight'
    BY <1>1, <1>2 DEF ListsRight, UnhookSticks, HookedStaysEnabled, EnabledItem, OwnItems
  <2>2. \A x \in Hooks : Grown(chain[x], chain'[x])
    BY <1>1, <1>2, GrownSame DEF TypeOK
  <2> QED BY <2>1, <2>2
<1>3. CASE chain' = [chain EXCEPT ![h] = Added(h, k)]
  <2> DEFINE S == Added(h, k)  f == FuncOf[k]
  <2>1. /\ Grown(chain[h], S) /\ OthersStay(chain[h], S, f) /\ Enables(S, f)
        /\ TaskFuncs(chain[h]) => TaskFuncs(S)
        /\ OwnFunctions /\ TaskFuncs(chain[h]) /\ UniqueFuncs(chain[h]) => UniqueFuncs(S)
    BY <1>1, AddedEffect
  <2>2. chain'[h] = S /\ \A x \in Hooks : x # h => chain'[x] = chain[x]
    BY <1>1, <1>3 DEF TypeOK
  <2>3. \A x \in Hooks : Grown(chain[x], chain'[x])
    BY <1>1, <1>3, <2>1, ListsGrown
  <2> HIDE DEF S
  <2>4. \A x \in Hooks : TaskFuncs(chain'[x])
    BY <2>1, <2>2 DEF ListsRight
  <2>5. ASSUME OwnFunctions
        PROVE  /\ \A x \in Hooks : UniqueFuncs(chain'[x])
               /\ UnhookSticks'
               /\ HookedStaysEnabled'
    <3>1. \A x \in Hooks : UniqueFuncs(chain'[x])
      BY <2>1, <2>2, <2>5 DEF ListsRight
    <3>2. UnhookSticks'
      <4> SUFFICES ASSUME NEW l \in Tasks, NEW x \in Hooks, x \in deleted[l]
                   PROVE  ~Enables(chain'[x], FuncOf[l])
        BY <1>1 DEF UnhookSticks, EnabledItem, Enables
      <4>1. ~Enables(chain[x], FuncOf[l])
        BY <2>5 DEF ListsRight, UnhookSticks, EnabledItem, Enables
      <4>2. FuncOf[l] # f
        BY <1>1, <2>5 DEF ListsRight, OwnFunctions
      <4> QED BY <2>1, <2>2, <4>1, <4>2 DEF OthersStay, Enables
    <3>3. HookedStaysEnabled'
      <4> SUFFICES ASSUME NEW l \in Tasks \ gone, NEW x \in Hooks, OwnItems(x, l)' # {}
                   PROVE  Enables(chain'[x], FuncOf[l])
        BY <1>1 DEF HookedStaysEnabled, EnabledItem, Enables
      <4>1. CASE x # h
        <5>1. OwnItems(x, l) # {}
          BY <2>2, <4>1 DEF OwnItems
        <5>2. Enables(chain[x], FuncOf[l])
          BY <2>5, <5>1 DEF ListsRight, HookedStaysEnabled, EnabledItem, Enables
        <5> QED BY <2>2, <4>1, <5>2
      <4>2. CASE x = h /\ l = k
        BY <2>1, <2>2, <4>2
      <4>3. CASE x = h /\ l # k
        <5>1. FuncOf[l] # f
          BY <2>5, <4>3 DEF OwnFunctions
        <5>2. OwnItems(x, l) # {}
          BY <2>1, <2>2, <4>3, <5>1 DEF OthersStay, OwnItems
        <5>3. Enables(chain[x], FuncOf[l])
          BY <2>5, <5>2 DEF ListsRight, HookedStaysEnabled, EnabledItem, Enables
        <5> QED BY <2>1, <2>2, <4>3, <5>1, <5>3 DEF OthersStay, Enables
      <4> QED BY <4>1, <4>2, <4>3
    <3> QED BY <3>1, <3>2, <3>3
  <2> QED BY <1>1, <2>3, <2>4, <2>5 DEF ListsRight
<1> QED BY <1>2, <1>3 DEF AddFunc

LEMMA UnhookLists ==
    ASSUME IInv, ListsRight, NEW k \in Tasks, Unhook(k)
    PROVE  ListsRight' /\ \A x \in Hooks : Grown(chain[x], chain'[x])
<1>1. UNCHANGED <<chain, deleted>> /\ gone' = gone \cup {k}
  BY DEF Unhook
<1>2. ListsRight'
  BY <1>1 DEF ListsRight, UnhookSticks, HookedStaysEnabled, EnabledItem, OwnItems
<1>3. \A x \in Hooks : Grown(chain[x], chain'[x])
  BY <1>1, GrownSame DEF IInv, TypeOK
<1> QED BY <1>2, <1>3

LEMMA DeleteFuncLists ==
    ASSUME IInv, ListsRight, NEW k \in Tasks, NEW h \in Hooks, DeleteFunc(k, h)
    PROVE  ListsRight' /\ \A x \in Hooks : Grown(chain[x], chain'[x])
<1> DEFINE f == FuncOf[k]  S == Disabled(chain[h], f)
<1>1. /\ TypeOK /\ f \in Funcs /\ chain[h] \in Seq(Item)
      /\ k \in gone /\ UNCHANGED gone
      /\ chain' = [chain EXCEPT ![h] = S]
      /\ deleted' = [deleted EXCEPT ![k] = deleted[k] \cup {h}]
  <2>1. TypeOK /\ chain[h] \in Seq(Item)
    BY DEF IInv, TypeOK
  <2>2. f \in Funcs
    OBVIOUS
  <2> QED BY <2>1, <2>2 DEF DeleteFunc
<1>2. /\ Grown(chain[h], S) /\ OthersStay(chain[h], S, f) /\ ~Enables(S, f)
      /\ TaskFuncs(chain[h]) => TaskFuncs(S)
      /\ UniqueFuncs(chain[h]) => UniqueFuncs(S)
  BY <1>1, DisabledEffect
<1>3. chain'[h] = S /\ \A x \in Hooks : x # h => chain'[x] = chain[x]
  BY <1>1 DEF TypeOK
<1>4. \A x \in Hooks : Grown(chain[x], chain'[x])
  BY <1>1, <1>2, ListsGrown
<1>5. \A l \in Tasks : deleted'[l] = IF l = k THEN deleted[k] \cup {h} ELSE deleted[l]
  BY <1>1 DEF TypeOK
<1> HIDE DEF S
<1>6. \A l \in Tasks : deleted'[l] # {} => l \in gone'
  BY <1>1, <1>5 DEF ListsRight
<1>7. \A x \in Hooks : TaskFuncs(chain'[x])
  BY <1>2, <1>3 DEF ListsRight
<1>8. ASSUME OwnFunctions
      PROVE  /\ \A x \in Hooks : UniqueFuncs(chain'[x])
             /\ UnhookSticks'
             /\ HookedStaysEnabled'
  <2>1. \A x \in Hooks : UniqueFuncs(chain'[x])
    BY <1>2, <1>3, <1>8 DEF ListsRight
  <2>2. UnhookSticks'
    <3> SUFFICES ASSUME NEW l \in Tasks, NEW x \in Hooks, x \in deleted'[l]
                 PROVE  ~Enables(chain'[x], FuncOf[l])
      BY DEF UnhookSticks, EnabledItem, Enables
    <3>1. CASE x = h /\ FuncOf[l] = f
      BY <1>2, <1>3, <3>1
    <3>2. CASE ~(x = h /\ FuncOf[l] = f)
      <4>1. x \in deleted[l]
        BY <1>5, <3>2
      <4>2. ~Enables(chain[x], FuncOf[l])
        BY <1>8, <4>1 DEF ListsRight, UnhookSticks, EnabledItem, Enables
      <4> QED BY <1>2, <1>3, <3>2, <4>2 DEF OthersStay, Enables
    <3> QED BY <3>1, <3>2
  <2>3. HookedStaysEnabled'
    <3> SUFFICES ASSUME NEW l \in Tasks \ gone, NEW x \in Hooks, OwnItems(x, l)' # {}
                 PROVE  Enables(chain'[x], FuncOf[l])
      BY <1>1 DEF HookedStaysEnabled, EnabledItem, Enables
    <3>1. FuncOf[l] # f
      BY <1>1, <1>8 DEF OwnFunctions
    <3>2. OwnItems(x, l) # {}
      BY <1>2, <1>3, <3>1 DEF OthersStay, OwnItems
    <3>3. Enables(chain[x], FuncOf[l])
      BY <1>8, <3>2 DEF ListsRight, HookedStaysEnabled, EnabledItem, Enables
    <3> QED BY <1>2, <1>3, <3>1, <3>3 DEF OthersStay, Enables
  <2> QED BY <2>1, <2>2, <2>3
<1> QED BY <1>4, <1>6, <1>7, <1>8 DEF ListsRight

(***************************************************************************)
(* Threads: what is right of a walk w, the calls cs and the stack s.         *)
(***************************************************************************)
\* A push walk is not recursive, and the walk of get_prev_func is that of the
\* innermost proxy, on whose list it stands behind the proxy.
WalkRight(w, cs, s) ==
    w # Idle =>
        /\ w.mode = "prev" <=> w.ret[2] = Prev
        /\ w.mode # "prev" => ~Recursive(s, w.hook)
        /\ w.mode = "prev" =>
            /\ cs # <<>>
            /\ Top(cs).fn \in Funcs
            /\ Top(cs).hook = w.hook
            /\ OwnFunctions => w.at < Top(cs).at

\* No two frames are those of one function.
FramesRight(s) ==
    /\ \A i \in 1 .. Len(s) : s[i].orig = OrigOf[s[i].hook] /\ s[i].ret[2] # Prev
    /\ \A i, j \in 1 .. Len(s) : s[i].orig = s[j].orig => i = j

\* A call comes through a GOT entry or from a proxy, and a proxy runs as an item
\* of the list it was found on.
CallRight(c) ==
    /\ c.first <=> c.ret[2] # Prev
    /\ c.fn \in Funcs => /\ c.at \in DOMAIN chain[c.hook]
                         /\ chain[c.hook][c.at].func = c.fn

CallsRight(cs) == \A k \in 1 .. Len(cs) : CallRight(cs[k])
InOrder(cs) == \A k \in 1 .. Len(cs) : k > 1 /\ ~cs[k].first => cs[k].at < cs[k - 1].at

Right(w, cs, s) ==
    /\ WalkRight(w, cs, s)
    /\ FramesRight(s)
    /\ CallsRight(cs)
    /\ OwnFunctions => InOrder(cs)
    /\ Matches(s, cs)

ThreadRight(t) == Right(walk[t], calls[t], Stack(t))

CInv ==
    /\ IInv
    /\ ListsRight
    /\ \A t \in Threads : ThreadRight(t)

\* What is right of a thread stays right when the lists grow.
LEMMA GrownRight ==
    ASSUME \A h \in Hooks : Grown(chain[h], chain'[h]),
           NEW w, NEW cs \in Seq(Call), NEW s, Right(w, cs, s)
    PROVE  Right(w, cs, s)'
<1>1. CallsRight(cs)'
  <2> SUFFICES ASSUME NEW k \in 1 .. Len(cs)
               PROVE  /\ cs[k].first <=> cs[k].ret[2] # Prev
                      /\ cs[k].fn \in Funcs => /\ cs[k].at \in DOMAIN chain'[cs[k].hook]
                                               /\ chain'[cs[k].hook][cs[k].at].func = cs[k].fn
    BY DEF CallsRight, CallRight
  <2>1. CallRight(cs[k]) /\ cs[k] \in Call
    BY DEF Right, CallsRight
  <2>2. cs[k].hook \in Hooks
    BY <2>1 DEF Call
  <2> QED BY <2>1, <2>2 DEF CallRight, Grown
<1> QED BY <1>1 DEF Right, WalkRight

\* The types of what a thread has.
LEMMA ThreadTyped ==
    ASSUME CInv, NEW t \in Threads
    PROVE  /\ walk[t] \in Walk \cup {Idle}
           /\ calls[t] \in Seq(Call)
           /\ Stack(t) \in Seq(Frame)
           /\ mem[t] = NoStack => Stack(t) = <<>>
           /\ mem[t] # NoStack => mem[t] \in Memory /\ Stack(t) = frames[mem[t]]
           /\ Right(walk[t], calls[t], Stack(t))
<1>1. walk[t] \in Walk \cup {Idle} /\ calls[t] \in Seq(Call)
  BY DEF CInv, IInv, TypeOK
<1>2. Right(walk[t], calls[t], Stack(t))
  BY DEF CInv, ThreadRight
<1>3. CASE mem[t] = NoStack
  BY <1>1, <1>2, <1>3 DEF Stack
<1>4. CASE mem[t] # NoStack
  BY <1>1, <1>2, <1>4, StackType DEF CInv
<1> QED BY <1>3, <1>4

\* A step of one thread that leaves the lists and the other threads' stacks
\* alone keeps the invariant if the thread is right after it.
LEMMA StepKeeps ==
    ASSUME CInv, IInv', NEW t \in Threads, UNCHANGED chainVars,
           NEW w, walk' = [walk EXCEPT ![t] = w],
           NEW cs, calls' = [calls EXCEPT ![t] = cs],
           NEW s, Stack(t)' = s,
           \A u \in Threads : u # t => Stack(u)' = Stack(u),
           Right(w, cs, s)
    PROVE  CInv'
<1>1. walk \in [Threads -> Walk \cup {Idle}] /\ calls \in [Threads -> Seq(Call)]
  BY DEF CInv, IInv, TypeOK
<1>2. ListsRight'
  BY DEF CInv, ListsRight, UnhookSticks, HookedStaysEnabled, EnabledItem, OwnItems, chainVars
<1>3. \A v, c, x : Right(v, c, x) => Right(v, c, x)'
  BY DEF Right, WalkRight, CallsRight, CallRight, chainVars
<1>4. ThreadRight(t)'
  <2>1. walk'[t] = w /\ calls'[t] = cs
    BY <1>1
  <2>2. Right(w, cs, s)'
    BY <1>3
  <2> QED BY <2>1, <2>2 DEF ThreadRight
<1>5. ASSUME NEW u \in Threads, u # t PROVE ThreadRight(u)'
  <2>1. walk'[u] = walk[u] /\ calls'[u] = calls[u] /\ Stack(u)' = Stack(u)
    BY <1>1, <1>5
  <2>2. PICK v, c, x : v = walk[u] /\ c = calls[u] /\ x = Stack(u)
    OBVIOUS
  <2>3. Right(v, c, x)'
    BY <1>3, <2>2 DEF CInv, ThreadRight
  <2> QED BY <2>1, <2>2, <2>3 DEF ThreadRight
<1> QED BY <1>2, <1>4, <1>5 DEF CInv

\* Nobody's stack moves.
LEMMA SameStacks ==
    ASSUME UNCHANGED stackVars
    PROVE  \A u \in Threads : Stack(u)' = Stack(u)
  BY DEF Stack, stackVars

\* A thread changes its own stack.
LEMMA OwnStack ==
    ASSUME IInv, NEW t \in Threads, mem[t] # NoStack, UNCHANGED mem,
           NEW s, frames' = [frames EXCEPT ![mem[t]] = s]
    PROVE  /\ Stack(t)' = s
           /\ \A u \in Threads : u # t => Stack(u)' = Stack(u)
<1>1. frames \in [Memory -> Seq(Frame)] /\ mem \in [Threads -> Memory \cup {NoStack}]
  BY DEF IInv, TypeOK
<1>2. Stack(t)' = s
  BY <1>1 DEF Stack
<1>3. ASSUME NEW u \in Threads, u # t PROVE Stack(u)' = Stack(u)
  <2>1. CASE mem[u] = NoStack
    BY <2>1 DEF Stack
  <2>2. CASE mem[u] # NoStack
    <3>1. mem[u] # mem[t] /\ mem[u] \in Memory
      BY <1>1, <1>3, <2>2 DEF IInv, OwnMemory
    <3>2. frames'[mem[u]] = frames[mem[u]]
      BY <1>1, <3>1
    <3> QED BY <2>2, <3>2 DEF Stack
  <2> QED BY <2>1, <2>2
<1> QED BY <1>2, <1>3

\* A thread gets a stack nobody else has.
LEMMA NewStack ==
    ASSUME IInv, NEW t \in Threads, mem[t] = NoStack, StackCreate(t)
    PROVE  /\ Stack(t)' = <<>>
           /\ \A u \in Threads : u # t => Stack(u)' = Stack(u)
<1>1. PICK m \in (Slots \ used) \cup {t} :
          /\ mem' = [mem EXCEPT ![t] = m]
          /\ frames' = [frames EXCEPT ![m] = <<>>]
  BY DEF StackCreate
<1>2. /\ frames \in [Memory -> Seq(Frame)] /\ mem \in [Threads -> Memory \cup {NoStack}]
      /\ m \in Memory /\ m # NoStack
  BY DEF IInv, TypeOK, Memory
<1>3. Stack(t)' = <<>>
  BY <1>1, <1>2 DEF Stack
<1>4. ASSUME NEW u \in Threads, u # t PROVE Stack(u)' = Stack(u)
  <2>1. mem'[u] = mem[u]
    BY <1>1, <1>2, <1>4
  <2>2. mem[u] \in {NoStack, u} \cup used /\ used \subseteq Slots
    BY DEF IInv, MemoryClaimed, TypeOK
  <2>3. mem[u] # m
    BY <1>2, <1>4, <2>2
  <2>4. mem[u] # NoStack => mem[u] \in Memory /\ frames'[mem[u]] = frames[mem[u]]
    BY <1>1, <1>2, <2>3
  <2> QED BY <2>1, <2>4 DEF Stack
<1> QED BY <1>3, <1>4

\* A list step grows the lists and leaves the threads alone.
LEMMA ListStepKeeps ==
    ASSUME CInv, IInv', ListsRight', UNCHANGED <<stackVars, walk, calls>>,
           \A h \in Hooks : Grown(chain[h], chain'[h])
    PROVE  CInv'
<1>1. ASSUME NEW t \in Threads PROVE ThreadRight(t)'
  <2>1. Stack(t)' = Stack(t) /\ walk'[t] = walk[t] /\ calls'[t] = calls[t]
    BY SameStacks
  <2>2. PICK v, c, x : v = walk[t] /\ c = calls[t] /\ x = Stack(t)
    OBVIOUS
  <2>3. Right(v, c, x) /\ c \in Seq(Call)
    BY <2>2, ThreadTyped
  <2>4. Right(v, c, x)'
    BY <2>3, GrownRight
  <2> QED BY <2>1, <2>2, <2>4 DEF ThreadRight
<1> QED BY <1>1 DEF CInv

(***************************************************************************)
(* Steps of a thread                                                         *)
(***************************************************************************)
\* A walk ends in a call.
LEMMA CalledRight ==
    ASSUME NEW cs \in Seq(Call), CallsRight(cs), OwnFunctions => InOrder(cs),
           NEW c \in Call, CallRight(c),
           ~c.first => cs # <<>>,
           OwnFunctions /\ ~c.first => c.at < Top(cs).at,
           NEW s, FramesRight(s), Matches(s, Append(cs, c))
    PROVE  Right(Idle, Append(cs, c), s)
<1> DEFINE C == Append(cs, c)  n == Len(cs)
<1>1. /\ n \in Nat /\ Len(C) = n + 1
      /\ \A k \in 1 .. n : C[k] = cs[k]
      /\ C[n + 1] = c
  BY AppendFacts
<1>2. \A k \in 1 .. n + 1 : k \in 1 .. n \/ k = n + 1
  BY <1>1
<1>3. Top(cs) = cs[n]
  BY DEF Top
<1>4. ~c.first => n \in 1 .. n
  BY <1>1, EmptySeq
<1>5. Matches(s, C)
  OBVIOUS
<1> HIDE DEF C
<1>6. CallsRight(C)
  BY <1>1, <1>2 DEF CallsRight
<1>7. ASSUME OwnFunctions PROVE InOrder(C)
  <2> SUFFICES ASSUME NEW k \in 1 .. n + 1, k > 1, ~C[k].first PROVE C[k].at < C[k - 1].at
    BY <1>1 DEF InOrder
  <2>1. CASE k \in 1 .. n
    <3>1. k - 1 \in 1 .. n
      BY <1>1, <2>1
    <3>2. C[k] = cs[k] /\ C[k - 1] = cs[k - 1]
      BY <1>1, <2>1, <3>1
    <3> QED BY <1>7, <2>1, <3>2 DEF InOrder
  <2>2. CASE k = n + 1
    <3>1. k - 1 = n /\ C[k] = c
      BY <1>1, <2>2
    <3>2. C[n] = cs[n] /\ c.at < cs[n].at
      BY <1>1, <1>3, <1>4, <1>7, <3>1
    <3> QED BY <3>1, <3>2
  <2> QED BY <1>2, <2>1, <2>2
<1>8. WalkRight(Idle, C, s)
  BY DEF WalkRight
<1> QED BY <1>5, <1>6, <1>7, <1>8 DEF Right, C

\* The new call itself.
LEMMA NewCallRight ==
    ASSUME TypeOK, NEW fn \in Funcs \cup Origs, NEW h \in Hooks, NEW ret \in Site,
           NEW first \in BOOLEAN, NEW at \in Nat,
           first <=> ret[2] # Prev,
           fn \in Funcs => at \in DOMAIN chain[h] /\ chain[h][at].func = fn
    PROVE  /\ NewCall(fn, h, ret, first, at) \in Call
           /\ CallRight(NewCall(fn, h, ret, first, at))
<1> DEFINE c == NewCall(fn, h, ret, first, at)
<1>1. c \in Call
  BY NewCallType
<1>2. c.fn = fn /\ c.hook = h /\ c.ret = ret /\ c.first = first /\ c.at = at
  BY DEF NewCall
<1> HIDE DEF c
<1>3. CallRight(c)
  BY <1>2 DEF CallRight
<1> QED BY <1>1, <1>3 DEF c

\* The original function of a hook is called without a frame.
LEMMA OrigCalledRight ==
    ASSUME TypeOK, NEW cs \in Seq(Call), NEW s \in Seq(Frame), Right(Idle, cs, s),
           NEW h \in Hooks, NEW ret \in Site, ret[2] # Prev
    PROVE  /\ NewCall(OrigOf[h], h, ret, TRUE, 0) \in Call
           /\ Append(cs, NewCall(OrigOf[h], h, ret, TRUE, 0)) \in Seq(Call)
           /\ Right(Idle, Append(cs, NewCall(OrigOf[h], h, ret, TRUE, 0)), s)
<1> DEFINE c == NewCall(OrigOf[h], h, ret, TRUE, 0)
<1>1. OrigOf[h] \in Origs /\ OrigOf[h] \notin Funcs
  OBVIOUS
<1>2. c \in Call /\ CallRight(c)
  BY <1>1, NewCallRight
<1>3. c.first /\ c.fn \notin Funcs
  BY <1>1 DEF NewCall
<1> HIDE DEF c
<1>4. Matches(s, Append(cs, c))
  BY <1>2, <1>3, MatchCall DEF Right, Pushed
<1>5. Append(cs, c) \in Seq(Call)
  BY <1>2, AppendFacts
<1>6. Right(Idle, Append(cs, c), s)
  BY <1>2, <1>3, <1>4, CalledRight DEF Right
<1> QED BY <1>2, <1>5, <1>6 DEF c

\* Stages and the nested flag do not matter.
LEMMA SameRight ==
    ASSUME NEW w, NEW cs \in Seq(Call), NEW cs2 \in Seq(Call), NEW s,
           Right(w, cs, s), SameCalls(cs, cs2)
    PROVE  Right(Idle, cs2, s)
<1>1. Matches(s, cs2)
  BY MatchSame DEF Right
<1>2. CallsRight(cs2)
  BY DEF Right, CallsRight, CallRight, SameCalls
<1>3. ASSUME OwnFunctions PROVE InOrder(cs2)
  <2> SUFFICES ASSUME NEW k \in 1 .. Len(cs), k > 1, ~cs2[k].first
               PROVE  cs2[k].at < cs2[k - 1].at
    BY DEF InOrder, SameCalls
  <2>1. k - 1 \in 1 .. Len(cs)
    OBVIOUS
  <2>2. cs[k].at < cs[k - 1].at
    BY <1>3 DEF Right, InOrder, SameCalls
  <2> QED BY <2>1, <2>2 DEF SameCalls
<1> QED BY <1>1, <1>2, <1>3 DEF Right, WalkRight

\* A call that changes in a part that does not matter.
LEMMA TouchedSame ==
    ASSUME NEW cs \in Seq(Call), cs # <<>>, NEW c \in Call,
           c.fn = Top(cs).fn, c.first = Top(cs).first, c.ret = Top(cs).ret,
           c.hook = Top(cs).hook, c.at = Top(cs).at
    PROVE  SameCalls(cs, [cs EXCEPT ![Len(cs)] = c]) /\ [cs EXCEPT ![Len(cs)] = c] \in Seq(Call)
<1>1. Len(cs) \in 1 .. Len(cs) /\ Top(cs) = cs[Len(cs)]
  BY SeqOps DEF Top
<1>2. /\ [cs EXCEPT ![Len(cs)] = c] \in Seq(Call)
      /\ Len([cs EXCEPT ![Len(cs)] = c]) = Len(cs)
  BY <1>1, ExceptSeq
<1>3. \A k \in 1 .. Len(cs) : [cs EXCEPT ![Len(cs)] = c][k] = IF k = Len(cs) THEN c ELSE cs[k]
  OBVIOUS
<1> QED BY <1>1, <1>2, <1>3 DEF SameCalls

LEMMA SpendSame ==
    ASSUME NEW cs \in Seq(Call)
    PROVE  Spend(cs) \in Seq(Call) /\ SameCalls(cs, Spend(cs))
<1>1. CASE cs = <<>>
  BY <1>1, SpendType DEF Spend, SameCalls
<1>2. CASE cs # <<>>
  <2> DEFINE c == [cs[Len(cs)] EXCEPT !.nested = TRUE]
  <2>1. cs[Len(cs)] \in Call /\ Top(cs) = cs[Len(cs)]
    BY <1>2, SeqOps DEF Top
  <2>2. /\ c \in Call /\ c.fn = Top(cs).fn /\ c.first = Top(cs).first
        /\ c.ret = Top(cs).ret /\ c.hook = Top(cs).hook /\ c.at = Top(cs).at
    BY <2>1 DEF Call
  <2>3. Spend(cs) = [cs EXCEPT ![Len(cs)] = c]
    BY <1>2 DEF Spend
  <2> HIDE DEF c
  <2> QED BY <1>2, <2>2, <2>3, TouchedSame
<1> QED BY <1>1, <1>2

\* A call through a GOT entry starts a walk, or goes to the original function.
LEMMA CallHookCInv ==
    ASSUME CInv, NEW t \in Threads, NEW h \in Hooks, CallHook(t, h)
    PROVE  CInv'
<1> DEFINE ret == <<Running(t), h>>
           cs == Spend(calls[t])
           c == NewCall(OrigOf[h], h, ret, TRUE, 0)
           bypass == Append(cs, c)
           w == [mode |-> "push", hook |-> h, ret |-> ret, at |-> Len(chain[h])]
           start == /\ walk' = [walk EXCEPT ![t] = w]
                    /\ calls' = [calls EXCEPT ![t] = cs]
           toOrig == calls' = [calls EXCEPT ![t] = bypass] /\ UNCHANGED walk
<1>1. IInv /\ TypeOK /\ IInv' /\ UNCHANGED chainVars
  BY CallHookIInv DEF CInv, IInv, CallHook
<1>2. /\ calls[t] \in Seq(Call) /\ Stack(t) \in Seq(Frame) /\ walk[t] = Idle
      /\ Right(walk[t], calls[t], Stack(t))
      /\ mem[t] = NoStack => Stack(t) = <<>>
  BY ThreadTyped DEF CallHook, MayCall
<1>3. ret \in Site /\ ret[2] = h /\ h # Prev
  BY <1>1, RunningType DEF Site
<1>4. cs \in Seq(Call) /\ Right(Idle, cs, Stack(t))
  BY <1>2, SpendSame, SameRight
<1>5. w.mode = "push" /\ w.hook = h /\ w.ret = ret
  OBVIOUS
<1> HIDE DEF ret, cs, w
<1>6. ASSUME toOrig, UNCHANGED stackVars
      PROVE  CInv'
  <2>1. Right(Idle, bypass, Stack(t))
    BY <1>1, <1>2, <1>3, <1>4, OrigCalledRight
  <2>2. walk' = [walk EXCEPT ![t] = Idle]
    BY <1>1, <1>2, <1>6 DEF TypeOK
  <2>3. calls' = [calls EXCEPT ![t] = bypass]
    BY <1>6
  <2> HIDE DEF bypass
  <2> QED BY <1>1, <1>6, <2>1, <2>2, <2>3, SameStacks, StepKeeps
<1>7. ASSUME ~Recursive(Stack(t), h)
      PROVE  Right(w, cs, Stack(t))
  BY <1>3, <1>4, <1>5, <1>7 DEF Right, WalkRight
<1>8. CASE mem[t] = NoStack /\ StackCreate(t) /\ start
  <2>1. Stack(t) = <<>> /\ ~Recursive(Stack(t), h)
    BY <1>2, <1>8 DEF Recursive
  <2>2. Stack(t)' = Stack(t) /\ \A u \in Threads : u # t => Stack(u)' = Stack(u)
    BY <1>1, <1>8, <2>1, NewStack
  <2>3. Right(w, cs, Stack(t))
    BY <1>7, <2>1
  <2> QED BY <1>1, <1>8, <2>2, <2>3, StepKeeps
<1>9. CASE ~Recursive(Stack(t), h) /\ UNCHANGED stackVars /\ start
  <2>1. Right(w, cs, Stack(t))
    BY <1>7, <1>9
  <2> QED BY <1>1, <1>9, <2>1, SameStacks, StepKeeps
<1>10. \/ mem[t] = NoStack /\ StackCreate(t) /\ start
       \/ UNCHANGED stackVars /\ toOrig
       \/ ~Recursive(Stack(t), h) /\ UNCHANGED stackVars /\ start
  BY DEF CallHook, ret, cs, w
<1> HIDE DEF start, toOrig
<1> QED BY <1>6, <1>8, <1>9, <1>10

LEMMA PushWalkCInv ==
    ASSUME CInv, NEW t \in Threads, PushWalk(t)
    PROVE  CInv'
<1> DEFINE w == walk[t]
           c == NewCall(OrigOf[w.hook], w.hook, w.ret, TRUE, 0)
           more == [w EXCEPT !.at = w.at - 1]
           found == [w EXCEPT !.mode = "found"]
<1>1. IInv' /\ TypeOK /\ UNCHANGED <<chainVars, stackVars>>
  BY PushWalkIInv DEF CInv, IInv, PushWalk
<1>2. w \in Walk /\ w # Idle /\ w.mode = "push"
  <2>1. w \in Walk \cup {Idle} /\ w.mode = "push"
    BY ThreadTyped DEF PushWalk
  <2> QED BY <2>1 DEF Idle
<1>3. calls[t] \in Seq(Call) /\ Stack(t) \in Seq(Frame) /\ Right(w, calls[t], Stack(t))
  BY ThreadTyped
<1>4. w.hook \in Hooks /\ w.ret \in Site /\ w.at \in Nat
  BY <1>2 DEF Walk
<1>5. w.ret[2] # Prev /\ ~Recursive(Stack(t), w.hook)
  BY <1>2, <1>3 DEF Right, WalkRight
<1>6. \A u \in Threads : Stack(u)' = Stack(u)
  BY <1>1, SameStacks
<1>7. CASE w.at = 0
  <2>1. SameCalls(calls[t], calls[t])
    BY DEF SameCalls
  <2>2. Right(Idle, calls[t], Stack(t))
    BY <1>3, <2>1, SameRight
  <2>3. Right(Idle, Append(calls[t], c), Stack(t))
    BY <1>1, <1>3, <1>4, <1>5, <2>2, OrigCalledRight
  <2>4. walk' = [walk EXCEPT ![t] = Idle] /\ calls' = [calls EXCEPT ![t] = Append(calls[t], c)]
    BY <1>7 DEF PushWalk, EnterOrig, Enter
  <2> HIDE DEF c, w
  <2> QED BY <1>1, <1>6, <2>3, <2>4, StepKeeps
<1>8. ASSUME NEW v, v.mode # "prev", v.hook = w.hook, v.ret = w.ret
      PROVE  Right(v, calls[t], Stack(t))
  BY <1>3, <1>5, <1>8 DEF Right, WalkRight
<1>9. ASSUME w.at # 0 PROVE calls' = [calls EXCEPT ![t] = calls[t]]
  BY <1>1, <1>9 DEF PushWalk, TypeOK
<1>10. CASE w.at # 0 /\ chain[w.hook][w.at].enabled
  <2>1. walk' = [walk EXCEPT ![t] = found]
    BY <1>10 DEF PushWalk
  <2>2. found.mode = "found" /\ found.hook = w.hook /\ found.ret = w.ret
    BY <1>2 DEF Walk
  <2> HIDE DEF found, w
  <2>3. Right(found, calls[t], Stack(t))
    BY <1>8, <2>2
  <2> QED BY <1>1, <1>6, <1>9, <1>10, <2>1, <2>3, StepKeeps
<1>11. CASE w.at # 0 /\ ~chain[w.hook][w.at].enabled
  <2>1. walk' = [walk EXCEPT ![t] = more]
    BY <1>11 DEF PushWalk, NextItem
  <2>2. more.mode = "push" /\ more.hook = w.hook /\ more.ret = w.ret
    BY <1>2 DEF Walk
  <2> HIDE DEF more, w
  <2>3. Right(more, calls[t], Stack(t))
    BY <1>8, <2>2
  <2> QED BY <1>1, <1>6, <1>9, <1>11, <2>1, <2>3, StepKeeps
<1> QED BY <1>7, <1>10, <1>11

\* A frame of a function that has none yet.
LEMMA FrameAdded ==
    ASSUME NEW s \in Seq(Frame), FramesRight(s), NEW f \in Frame,
           f.orig = OrigOf[f.hook], f.ret[2] # Prev, ~Recursive(s, f.hook)
    PROVE  FramesRight(Append(s, f))
<1>1. /\ Len(s) \in Nat /\ Len(Append(s, f)) = Len(s) + 1 /\ DOMAIN s = 1 .. Len(s)
      /\ \A i \in 1 .. Len(s) : Append(s, f)[i] = s[i]
      /\ Append(s, f)[Len(s) + 1] = f
  BY AppendFacts
<1>2. \A i \in 1 .. Len(s) + 1 : i \in 1 .. Len(s) \/ i = Len(s) + 1
  BY <1>1
<1>3. \A i \in 1 .. Len(s) : s[i].orig # f.orig
  BY <1>1 DEF Recursive
<1> DEFINE S == Append(s, f)
<1> HIDE DEF S
<1>4. \A i \in 1 .. Len(s) + 1 : S[i].orig = OrigOf[S[i].hook] /\ S[i].ret[2] # Prev
  BY <1>1, <1>2 DEF FramesRight, S
<1>5. ASSUME NEW i \in 1 .. Len(s) + 1, NEW j \in 1 .. Len(s) + 1, S[i].orig = S[j].orig
      PROVE  i = j
  <2>1. CASE i \in 1 .. Len(s) /\ j \in 1 .. Len(s)
    BY <1>1, <1>5, <2>1 DEF FramesRight, S
  <2>2. CASE i = Len(s) + 1 \/ j = Len(s) + 1
    BY <1>1, <1>2, <1>3, <1>5, <2>2 DEF S
  <2> QED BY <1>2, <2>1, <2>2
<1> QED BY <1>1, <1>4, <1>5 DEF FramesRight, S

LEMMA PushFrameCInv ==
    ASSUME CInv, NEW t \in Threads, PushFrame(t)
    PROVE  CInv'
<1> DEFINE w == walk[t]
           s == Stack(t)
           cs == calls[t]
           f == [hook |-> w.hook, top |-> Len(chain[w.hook]), orig |-> OrigOf[w.hook], ret |-> w.ret]
           c == NewCall(OrigOf[w.hook], w.hook, w.ret, TRUE, 0)
           p == NewCall(chain[w.hook][w.at].func, w.hook, w.ret, TRUE, w.at)
<1>1. IInv /\ IInv' /\ TypeOK /\ UNCHANGED <<chainVars, mem, used>>
  BY PushFrameIInv DEF CInv, IInv, PushFrame
<1>2. w \in Walk /\ w # Idle /\ w.mode = "found"
  <2>1. w \in Walk \cup {Idle} /\ w.mode = "found"
    BY ThreadTyped DEF PushFrame
  <2> QED BY <2>1 DEF Idle
<1>3. cs \in Seq(Call) /\ s \in Seq(Frame) /\ Right(w, cs, s)
  BY ThreadTyped
<1>4. /\ w.hook \in Hooks /\ w.ret \in Site /\ w.at \in Nat /\ w.at > 0
      /\ w.at <= Len(chain[w.hook]) /\ mem[t] # NoStack
  BY <1>1, <1>2 DEF Walk, IInv, WalkInChain
<1>5. w.ret[2] # Prev /\ ~Recursive(s, w.hook)
  BY <1>2, <1>3 DEF Right, WalkRight
<1>6. Right(Idle, cs, s)
  <2>1. SameCalls(cs, cs)
    BY DEF SameCalls
  <2> QED BY <1>3, <2>1, SameRight
<1>7. walk' = [walk EXCEPT ![t] = Idle]
  BY DEF PushFrame
<1>8. CASE Full(s)
  <2>1. Right(Idle, Append(cs, c), s)
    BY <1>1, <1>3, <1>4, <1>5, <1>6, OrigCalledRight
  <2>2. calls' = [calls EXCEPT ![t] = Append(cs, c)] /\ UNCHANGED frames
    BY <1>8 DEF PushFrame, EnterOrig, Enter
  <2>3. \A u \in Threads : Stack(u)' = Stack(u)
    BY <1>1, <2>2, SameStacks DEF stackVars
  <2> HIDE DEF c, w, cs
  <2> QED BY <1>1, <1>7, <2>1, <2>2, <2>3, StepKeeps
<1>9. CASE ~Full(s)
  <2>1. calls' = [calls EXCEPT ![t] = Append(cs, p)]
    BY <1>9 DEF PushFrame, Enter
  <2>2. frames' = [frames EXCEPT ![mem[t]] = Append(s, f)]
    BY <1>9 DEF PushFrame
  <2>3. chain[w.hook] \in Seq(Item) /\ w.at \in DOMAIN chain[w.hook]
    BY <1>1, <1>4 DEF TypeOK
  <2>4. chain[w.hook][w.at].func \in Funcs
    <3>1. chain[w.hook][w.at] \in Item
      BY <2>3
    <3> QED BY <3>1 DEF Item
  <2>5. p \in Call /\ CallRight(p)
    <3> HIDE DEF w
    <3> QED BY <1>1, <1>4, <1>5, <2>3, <2>4, NewCallRight
  <2>6. p.fn \in Funcs /\ p.first /\ p.ret = w.ret /\ p.hook = w.hook
    BY <2>4 DEF NewCall
  <2>7. f \in Frame
    <3>1. Len(chain[w.hook]) \in Nat
      BY <2>3
    <3> QED BY <1>4, <3>1 DEF Frame
  <2>8. f.ret = w.ret /\ f.hook = w.hook /\ f.orig = OrigOf[f.hook]
    OBVIOUS
  <2> HIDE DEF f, p, w, s, cs
  <2>9. Matches(Append(s, f), Append(cs, p))
    BY <1>3, <2>5, <2>6, <2>7, <2>8, MatchPush DEF Right, Pushed
  <2>10. FramesRight(Append(s, f))
    BY <1>3, <1>5, <2>7, <2>8, FrameAdded DEF Right
  <2>11. Right(Idle, Append(cs, p), Append(s, f))
    BY <1>3, <2>5, <2>6, <2>9, <2>10, CalledRight DEF Right
  <2>12. /\ Stack(t)' = Append(s, f)
         /\ \A u \in Threads : u # t => Stack(u)' = Stack(u)
    BY <1>1, <1>4, <2>2, OwnStack
  <2> QED BY <1>1, <1>7, <2>1, <2>11, <2>12, StepKeeps
<1> QED BY <1>8, <1>9

\* Where the functions of a list differ, what stands after a proxy's own item in
\* the frame's part of the list stands after the place the proxy was found at.
LEMMA AfterOwnBefore ==
    ASSUME TypeOK, NEW f \in Frame, NEW at \in DOMAIN chain[f.hook],
           UniqueFuncs(chain[f.hook]), f.top <= Len(chain[f.hook])
    PROVE  AfterOwn(chain[f.hook][at].func, f) < at
<1> DEFINE l == chain[f.hook]
           own == {i \in 1 .. f.top : l[i].func = l[at].func}
<1>1. f.hook \in Hooks /\ f.top \in Nat
  BY DEF Frame
<1>2. l \in Seq(Item) /\ Len(l) \in Nat /\ DOMAIN l = 1 .. Len(l) /\ at \in 1 .. Len(l)
  BY <1>1 DEF TypeOK
<1>3. CASE own = {}
  BY <1>2, <1>3 DEF AfterOwn
<1>4. CASE own # {}
  <2>1. own \in SUBSET (1 .. f.top)
    OBVIOUS
  <2>2. Newest(own) \in own
    <3> HIDE DEF own
    <3> QED BY <1>1, <1>4, <2>1, NewestIsMax
  <2>3. \A i \in 1 .. f.top : i \in DOMAIN l
    BY <1>1, <1>2
  <2>4. Newest(own) = at
    <3>1. \A i \in own : i = at
      BY <2>3 DEF UniqueFuncs
    <3> HIDE DEF own
    <3> QED BY <2>2, <3>1
  <2>5. AfterOwn(l[at].func, f) = Newest(own) - 1
    BY <1>4 DEF AfterOwn
  <2>6. at \in Int
    BY <1>2
  <2>7. AfterOwn(l[at].func, f) < at
    <3> HIDE DEF own, l
    <3> QED BY <2>4, <2>5, <2>6
  <2> QED BY <2>7
<1> QED BY <1>3, <1>4

LEMMA GetPrevCInv ==
    ASSUME CInv, NEW t \in Threads, GetPrev(t)
    PROVE  CInv'
<1> DEFINE s == Stack(t)
           cs == calls[t]
           f == Top(s)
           c == [cs[Len(cs)] EXCEPT !.stage = "after"]
           cs2 == [cs EXCEPT ![Len(cs)] = c]
           w == [mode |-> "prev", hook |-> f.hook, ret |-> <<Top(cs).fn, Prev>>,
                 at |-> AfterOwn(Top(cs).fn, f)]
<1>1. IInv /\ IInv' /\ TypeOK /\ UNCHANGED <<chainVars, stackVars>>
  BY GetPrevIInv DEF CInv, IInv, GetPrev
<1>2. /\ cs \in Seq(Call) /\ s \in Seq(Frame) /\ Right(walk[t], cs, s)
      /\ cs # <<>> /\ Top(cs).fn \in Funcs /\ s # <<>> /\ mem[t] # NoStack
  BY ThreadTyped DEF GetPrev, InProxy
<1>3. walk' = [walk EXCEPT ![t] = w] /\ calls' = [calls EXCEPT ![t] = cs2]
  BY DEF GetPrev
<1>4. f \in Frame /\ f.top <= Len(chain[f.hook])
  BY <1>1, <1>2, StackType
<1>5. f.hook = Top(cs).hook
  BY <1>2, MatchTop DEF Right
<1>6. Len(cs) \in 1 .. Len(cs) /\ Top(cs) = cs[Len(cs)] /\ cs[Len(cs)] \in Call
  BY <1>2, SeqOps DEF Top
<1>7. /\ c \in Call /\ c.fn = Top(cs).fn /\ c.first = Top(cs).first /\ c.ret = Top(cs).ret
      /\ c.hook = Top(cs).hook /\ c.at = Top(cs).at
  BY <1>6 DEF Call
<1>8. SameCalls(cs, cs2) /\ cs2 \in Seq(Call)
  <2> HIDE DEF c, cs
  <2> QED BY <1>2, <1>7, TouchedSame
<1>9. Right(Idle, cs2, s)
  <2> HIDE DEF cs2, cs, s
  <2> QED BY <1>2, <1>8, SameRight
<1>10. cs2 # <<>> /\ Top(cs2) = c
  BY <1>6, <1>8 DEF SameCalls, Top
<1>11. /\ w.mode = "prev" /\ w.ret[2] = Prev /\ w.hook = Top(cs).hook
       /\ w.at = AfterOwn(Top(cs).fn, f)
  BY <1>5
<1>12. ASSUME OwnFunctions PROVE w.at < Top(cs).at
  <2>1. CallRight(cs[Len(cs)])
    BY <1>2, <1>6 DEF Right, CallsRight
  <2>2. Top(cs).at \in DOMAIN chain[f.hook] /\ chain[f.hook][Top(cs).at].func = Top(cs).fn
    BY <1>2, <1>5, <1>6, <2>1 DEF CallRight
  <2>3. UniqueFuncs(chain[f.hook])
    BY <1>4, <1>12 DEF CInv, ListsRight, Frame
  <2> HIDE DEF w, f, cs
  <2> QED BY <1>1, <1>4, <1>11, <2>2, <2>3, AfterOwnBefore
<1> HIDE DEF w, cs2, c, cs, s
<1>13. Right(w, cs2, s)
  BY <1>2, <1>7, <1>9, <1>10, <1>11, <1>12 DEF Right, WalkRight
<1>14. \A u \in Threads : Stack(u)' = Stack(u)
  BY <1>1, SameStacks
<1> QED BY <1>1, <1>3, <1>13, <1>14, StepKeeps DEF s

LEMMA PrevWalkCInv ==
    ASSUME CInv, NEW t \in Threads, PrevWalk(t)
    PROVE  CInv'
<1> DEFINE w == walk[t]
           s == Stack(t)
           cs == calls[t]
           more == [w EXCEPT !.at = w.at - 1]
<1>1. IInv /\ IInv' /\ TypeOK /\ UNCHANGED <<chainVars, stackVars>>
  BY PrevWalkIInv DEF CInv, IInv, PrevWalk
<1>2. w \in Walk /\ w # Idle /\ w.mode = "prev"
  <2>1. w \in Walk \cup {Idle} /\ w.mode = "prev"
    BY ThreadTyped DEF PrevWalk
  <2> QED BY <2>1 DEF Idle
<1>3. cs \in Seq(Call) /\ s \in Seq(Frame) /\ Right(w, cs, s)
  BY ThreadTyped
<1>4. /\ w.hook \in Hooks /\ w.ret \in Site /\ w.at \in Nat /\ w.at <= Len(chain[w.hook])
      /\ mem[t] # NoStack /\ s # <<>>
  BY <1>1, <1>2, ThreadTyped DEF Walk, IInv, WalkInChain
<1>5. /\ w.ret[2] = Prev /\ cs # <<>> /\ Top(cs).fn \in Funcs /\ Top(cs).hook = w.hook
      /\ OwnFunctions => w.at < Top(cs).at
  BY <1>2, <1>3 DEF Right, WalkRight
<1>6. Top(s).orig \in Origs
  <2>1. Top(s) \in Frame
    BY <1>3, <1>4, SeqOps
  <2> QED BY <2>1 DEF Frame
<1>7. \A u \in Threads : Stack(u)' = Stack(u)
  BY <1>1, SameStacks
<1>8. ASSUME NEW fn \in Funcs \cup Origs, NEW c, c = NewCall(fn, w.hook, w.ret, FALSE, w.at),
             fn \in Funcs => w.at \in DOMAIN chain[w.hook] /\ chain[w.hook][w.at].func = fn,
             walk' = [walk EXCEPT ![t] = Idle],
             calls' = [calls EXCEPT ![t] = Append(cs, c)]
      PROVE  CInv'
  <2>1. c \in Call /\ CallRight(c)
    <3> HIDE DEF w
    <3> QED BY <1>1, <1>4, <1>5, <1>8, NewCallRight
  <2>2. c.fn = fn /\ c.hook = w.hook /\ ~c.first /\ c.at = w.at
    BY <1>8 DEF NewCall
  <2> HIDE DEF w, s, cs
  <2>3. Matches(s, Append(cs, c))
    BY <1>3, <1>5, <2>1, <2>2, MatchCall DEF Right, Pushed
  <2>4. Right(Idle, Append(cs, c), s)
    BY <1>3, <1>5, <2>1, <2>2, <2>3, CalledRight DEF Right
  <2> QED BY <1>1, <1>7, <1>8, <2>4, StepKeeps DEF s
<1>9. CASE /\ w.at = 0
           /\ walk' = [walk EXCEPT ![t] = Idle]
           /\ Enter(t, NewCall(Top(s).orig, w.hook, w.ret, FALSE, 0))
  <2>1. calls' = [calls EXCEPT ![t] = Append(cs, NewCall(Top(s).orig, w.hook, w.ret, FALSE, w.at))]
    BY <1>9 DEF Enter
  <2>2. Top(s).orig \notin Funcs
    BY <1>6
  <2> HIDE DEF w, s, cs
  <2> QED BY <1>6, <1>8, <1>9, <2>1, <2>2
<1>10. CASE /\ w.at > 0
            /\ walk' = [walk EXCEPT ![t] = Idle]
            /\ Enter(t, NewCall(chain[w.hook][w.at].func, w.hook, w.ret, FALSE, w.at))
  <2>1. chain[w.hook] \in Seq(Item) /\ w.at \in DOMAIN chain[w.hook]
    BY <1>1, <1>4, <1>10 DEF TypeOK
  <2>2. chain[w.hook][w.at] \in Item
    BY <2>1
  <2>3. chain[w.hook][w.at].func \in Funcs
    BY <2>2 DEF Item
  <2>4. calls' = [calls EXCEPT ![t] =
            Append(cs, NewCall(chain[w.hook][w.at].func, w.hook, w.ret, FALSE, w.at))]
    BY <1>10 DEF Enter
  <2> HIDE DEF w, cs
  <2> QED BY <1>8, <1>10, <2>1, <2>3, <2>4
<1>11. CASE w.at > 0 /\ walk' = [walk EXCEPT ![t] = more] /\ UNCHANGED calls
  <2>1. more.mode = "prev" /\ more.hook = w.hook /\ more.ret = w.ret /\ more.at = w.at - 1
    BY <1>2 DEF Walk
  <2>2. calls' = [calls EXCEPT ![t] = cs]
    BY <1>1, <1>11 DEF TypeOK
  <2>3. ASSUME OwnFunctions PROVE w.at - 1 < Top(cs).at
    <3>1. Top(cs).at \in Nat
      <4>1. Top(cs) \in Call
        BY <1>3, <1>5, SeqOps
      <4> QED BY <4>1 DEF Call
    <3> HIDE DEF w, cs
    <3> QED BY <1>4, <1>5, <2>3, <3>1
  <2>4. walk' = [walk EXCEPT ![t] = more]
    BY <1>11
  <2> HIDE DEF more, w, cs, s
  <2>5. Right(more, cs, s)
    BY <1>3, <1>5, <2>1, <2>3 DEF Right, WalkRight
  <2> QED BY <1>1, <1>7, <2>2, <2>4, <2>5, StepKeeps DEF s
<1>12. walk' = [walk EXCEPT ![t].at = w.at - 1] => walk' = [walk EXCEPT ![t] = more]
  OBVIOUS
<1> QED BY <1>9, <1>10, <1>11, <1>12 DEF PrevWalk, NextItem

\* The innermost call returns.
LEMMA ReturnedRight ==
    ASSUME NEW w, NEW cs \in Seq(Call), NEW s, Right(w, cs, s), cs # <<>>,
           NEW s2, FramesRight(s2), Matches(s2, Rest(cs))
    PROVE  Right(Idle, Rest(cs), s2)
<1> DEFINE C == Rest(cs)  n == Len(cs) - 1
<1>1. n \in Nat /\ Len(cs) = n + 1 /\ Len(C) = n /\ \A k \in 1 .. n : C[k] = cs[k]
  <2>1. Len(cs) \in Nat \ {0} /\ Len(Rest(cs)) = Len(cs) - 1
    BY RestFacts
  <2> QED BY <2>1, RestItems
<1> HIDE DEF C, n
<1>2. CallsRight(C)
  BY <1>1 DEF Right, CallsRight
<1>3. ASSUME OwnFunctions PROVE InOrder(C)
  <2> SUFFICES ASSUME NEW k \in 1 .. n, k > 1, ~C[k].first PROVE C[k].at < C[k - 1].at
    BY <1>1 DEF InOrder
  <2>1. k \in 1 .. n + 1 /\ k - 1 \in 1 .. n
    BY <1>1
  <2> QED BY <1>1, <1>3, <2>1 DEF Right, InOrder
<1> QED BY <1>2, <1>3 DEF Right, WalkRight, C

LEMMA ProxyReturnCInv ==
    ASSUME CInv, NEW t \in Threads, ProxyReturn(t)
    PROVE  CInv'
<1> DEFINE s == Stack(t)
           cs == calls[t]
           s2 == Popped(s, Top(cs).ret)
<1>1. IInv /\ IInv' /\ TypeOK /\ UNCHANGED <<chainVars, mem, used, walk>>
  BY ProxyReturnIInv DEF CInv, IInv, ProxyReturn
<1>2. /\ cs \in Seq(Call) /\ s \in Seq(Frame) /\ Right(walk[t], cs, s)
      /\ cs # <<>> /\ Top(cs).fn \in Funcs /\ walk[t] = Idle
  BY ThreadTyped DEF ProxyReturn, InProxy
<1>3. s # <<>> /\ Top(cs).first => Top(s).ret = Top(cs).ret
  BY <1>2, MatchTop DEF Right
<1>4. mem[t] # NoStack /\ s = frames[mem[t]]
  <2>1. s # <<>>
    BY <1>2, MatchTop DEF Right
  <2> QED BY <2>1, ThreadTyped
<1>5. walk' = [walk EXCEPT ![t] = Idle]
  BY <1>1, <1>2 DEF TypeOK
<1>6. /\ calls' = [calls EXCEPT ![t] = Rest(cs)]
      /\ frames' = [frames EXCEPT ![mem[t]] = s2]
  BY <1>4 DEF ProxyReturn, Rest
<1>7. FramesRight(s2) /\ Matches(s2, Rest(cs))
  <2> HIDE DEF s, cs
  <2>1. CASE Top(cs).first
    <3>1. /\ s # <<>> /\ Top(s).ret = Top(cs).ret /\ Matches(Rest(s), Rest(cs))
      BY <1>2, <2>1, MatchPop DEF Right, Pushed
    <3>2. s2 = Rest(s)
      BY <3>1 DEF Popped, Rest
    <3>3. FramesRight(Rest(s))
      <4>1. Len(s) \in Nat \ {0} /\ Len(Rest(s)) = Len(s) - 1
        BY <1>2, <3>1, RestFacts
      <4>2. \A i \in 1 .. Len(s) - 1 : Rest(s)[i] = s[i]
        BY <1>2, <3>1, RestItems
      <4>3. \A i \in 1 .. Len(s) - 1 : i \in 1 .. Len(s)
        BY <4>1
      <4> QED BY <1>2, <4>1, <4>2, <4>3 DEF Right, FramesRight
    <3> QED BY <3>1, <3>2, <3>3
  <2>2. CASE ~Top(cs).first
    <3>1. Matches(s, Rest(cs))
      BY <1>2, <2>2, MatchReturn DEF Right, Pushed
    <3>2. Top(cs).ret[2] = Prev
      <4>1. Len(cs) \in 1 .. Len(cs) /\ Top(cs) = cs[Len(cs)]
        BY <1>2, SeqOps DEF Top
      <4>2. CallRight(Top(cs))
        BY <1>2, <4>1 DEF Right, CallsRight
      <4> QED BY <2>2, <4>2 DEF CallRight
    <3>3. s # <<>> => Top(s).ret[2] # Prev
      <4>1. s # <<>> => Len(s) \in 1 .. Len(s) /\ Top(s) = s[Len(s)]
        BY <1>2, SeqOps DEF Top
      <4> QED BY <1>2, <4>1 DEF Right, FramesRight
    <3>4. s2 = s
      BY <3>2, <3>3 DEF Popped
    <3> QED BY <1>2, <3>1, <3>4 DEF Right
  <2> QED BY <2>1, <2>2
<1> HIDE DEF s2, s, cs
<1>8. Right(Idle, Rest(cs), s2)
  BY <1>2, <1>7, ReturnedRight
<1>9. /\ Stack(t)' = s2
      /\ \A u \in Threads : u # t => Stack(u)' = Stack(u)
  BY <1>1, <1>4, <1>6, OwnStack
<1> QED BY <1>1, <1>5, <1>6, <1>8, <1>9, StepKeeps

LEMMA OrigReturnCInv ==
    ASSUME CInv, NEW t \in Threads, OrigReturn(t)
    PROVE  CInv'
<1> DEFINE s == Stack(t)
           cs == calls[t]
<1>1. IInv' /\ TypeOK /\ UNCHANGED <<chainVars, stackVars, walk>>
  BY OrigReturnIInv DEF CInv, IInv, OrigReturn
<1>2. /\ cs \in Seq(Call) /\ s \in Seq(Frame) /\ Right(walk[t], cs, s)
      /\ cs # <<>> /\ Top(cs).fn \in Origs /\ walk[t] = Idle
  BY ThreadTyped DEF OrigReturn
<1>3. walk' = [walk EXCEPT ![t] = Idle]
  BY <1>1, <1>2 DEF TypeOK
<1>4. calls' = [calls EXCEPT ![t] = Rest(cs)]
  BY DEF OrigReturn, Rest
<1>5. Top(cs).fn \notin Funcs
  BY <1>2
<1>6. \A u \in Threads : Stack(u)' = Stack(u)
  BY <1>1, SameStacks
<1> HIDE DEF cs, s
<1>7. Matches(s, Rest(cs))
  BY <1>2, <1>5, MatchReturn DEF Right, Pushed
<1>8. Right(Idle, Rest(cs), s)
  BY <1>2, <1>7, ReturnedRight DEF Right
<1> QED BY <1>1, <1>3, <1>4, <1>6, <1>8, StepKeeps DEF s

\* A thread without calls and frames.
LEMMA EmptyRight == Right(Idle, <<>>, <<>>)
<1> DEFINE pos == [i \in 1 .. 0 |-> 0]
<1>1. Len(<<>>) = 0 /\ 1 .. 0 = {}
  OBVIOUS
<1>2. pos \in [1 .. 0 -> 1 .. 0]
  BY <1>1
<1> HIDE DEF pos
<1>3. MatchedBy(pos, <<>>, <<>>)
  BY <1>1, <1>2 DEF MatchedBy
<1>4. Matches(<<>>, <<>>)
  BY <1>3 DEF Matches
<1> QED BY <1>1, <1>4 DEF Right, WalkRight, FramesRight, CallsRight, InOrder

LEMMA ThreadExitCInv ==
    ASSUME CInv, NEW t \in Threads, ThreadExit(t)
    PROVE  CInv'
<1>1. /\ IInv /\ IInv' /\ TypeOK /\ UNCHANGED <<chainVars, frames, walk>>
      /\ mem' = [mem EXCEPT ![t] = NoStack]
      /\ calls' = [calls EXCEPT ![t] = <<>>]
      /\ walk[t] = Idle
  BY ThreadExitIInv DEF CInv, IInv, ThreadExit
<1>2. walk' = [walk EXCEPT ![t] = Idle]
  BY <1>1 DEF TypeOK
<1>3. Stack(t)' = <<>> /\ \A u \in Threads : u # t => Stack(u)' = Stack(u)
  BY <1>1 DEF Stack, TypeOK
<1> QED BY <1>1, <1>2, <1>3, EmptyRight, StepKeeps

(***************************************************************************)
(* The invariant of every behaviour                                          *)
(***************************************************************************)
LEMMA InitCInv == Init => CInv
<1> SUFFICES ASSUME Init PROVE CInv
  OBVIOUS
<1>1. ListsRight
  BY DEF Init, ListsRight, TaskFuncs, UniqueFuncs, UnhookSticks, HookedStaysEnabled,
         EnabledItem, OwnItems
<1>2. ASSUME NEW t \in Threads PROVE ThreadRight(t)
  <2>1. walk[t] = Idle /\ calls[t] = <<>> /\ Stack(t) = <<>>
    BY DEF Init, Stack
  <2> QED BY <2>1, EmptyRight DEF ThreadRight
<1> QED BY <1>1, <1>2, InitIInv DEF CInv

LEMMA StutterCInv == CInv /\ UNCHANGED vars => CInv'
<1> SUFFICES ASSUME CInv, UNCHANGED vars PROVE CInv'
  OBVIOUS
<1>1. IInv'
  BY StutterIInv DEF CInv
<1>2. ListsRight'
  BY DEF CInv, ListsRight, UnhookSticks, HookedStaysEnabled, EnabledItem, OwnItems, vars, chainVars
<1>3. \A h \in Hooks : Grown(chain[h], chain'[h])
  BY GrownSame DEF CInv, IInv, TypeOK, vars, chainVars
<1> QED BY <1>1, <1>2, <1>3, ListStepKeeps DEF vars

LEMMA NextCInv == CInv /\ [Next]_vars => CInv'
<1> SUFFICES ASSUME CInv, [Next]_vars PROVE CInv'
  OBVIOUS
<1>1. IInv /\ ListsRight /\ IInv'
  BY NextIInv DEF CInv
<1>2. ASSUME NEW k \in Tasks, Unhook(k) PROVE CInv'
  BY <1>1, <1>2, UnhookLists, ListStepKeeps DEF Unhook
<1>3. ASSUME NEW k \in Tasks, NEW h \in Hooks, AddFunc(k, h) PROVE CInv'
  BY <1>1, <1>3, AddFuncLists, ListStepKeeps DEF AddFunc
<1>4. ASSUME NEW k \in Tasks, NEW h \in Hooks, DeleteFunc(k, h) PROVE CInv'
  BY <1>1, <1>4, DeleteFuncLists, ListStepKeeps DEF DeleteFunc
<1>5. ASSUME NEW t \in Threads, Step(t) PROVE CInv'
  BY <1>5, PushWalkCInv, PushFrameCInv, GetPrevCInv, PrevWalkCInv, ProxyReturnCInv,
     OrigReturnCInv DEF Step
<1>6. ASSUME NEW t \in Threads, ThreadExit(t) PROVE CInv'
  BY <1>6, ThreadExitCInv
<1>7. ASSUME NEW t \in Threads, NEW h \in Hooks, CallHook(t, h) PROVE CInv'
  BY <1>7, CallHookCInv
<1>8. ASSUME UNCHANGED vars PROVE CInv'
  BY <1>8, StutterCInv
<1> QED BY <1>2, <1>3, <1>4, <1>5, <1>6, <1>7, <1>8 DEF Next

LEMMA CallInvariant == Spec => []CInv
<1> QED BY InitCInv, NextCInv, PTL DEF Spec

(***************************************************************************)
(* What the invariant says                                                   *)
(***************************************************************************)
\* The newest start of a chain is the call the top frame was pushed for.
LEMMA OwnFrameInv == CInv => OwnFrame
<1> SUFFICES ASSUME CInv, NEW t \in Threads, InProxy(t)
             PROVE  /\ Stack(t) # <<>>
                    /\ Top(Stack(t)).hook = Top(calls[t]).hook
                    /\ Top(Stack(t)).ret = calls[t][Newest(Starts(calls[t]))].ret
  BY DEF OwnFrame
<1> DEFINE s == Stack(t)
           cs == calls[t]
           S == Starts(cs)
<1>1. /\ cs \in Seq(Call) /\ s \in Seq(Frame) /\ Matches(s, cs)
      /\ cs # <<>> /\ Top(cs).fn \in Funcs
  BY ThreadTyped DEF InProxy, Right
<1> HIDE DEF s, cs
<1>2. s # <<>> /\ Top(s).hook = Top(cs).hook
  BY <1>1, MatchTop
<1>3. PICK pos : MatchedBy(pos, s, cs)
  BY <1>1 DEF Matches
<1> DEFINE m == Len(s)  n == Len(cs)  k == pos[m]
<1>4. m \in 1 .. m /\ FrameOf(pos, s, cs, m, n)
  BY <1>1, <1>3, TopFrame
<1>5. k \in 1 .. n /\ cs[k].first /\ cs[k].ret = s[m].ret
  BY <1>3, <1>4 DEF MatchedBy, Pushed
<1>6. n \in Nat /\ DOMAIN cs = 1 .. n
  BY <1>1
<1> HIDE DEF m, n, k
<1>7. S \in SUBSET (1 .. n) /\ k \in S
  BY <1>5, <1>6 DEF Starts
<1>8. \A j \in S : j <= k
  BY <1>4, <1>6 DEF FrameOf, Starts, k
<1> HIDE DEF S
<1>9. Newest(S) \in S /\ k <= Newest(S) /\ Newest(S) <= k
  BY <1>6, <1>7, <1>8, NewestIsMax
<1>10. Newest(S) = k
  <2>1. \A x \in 1 .. n : x \in Nat
    BY <1>6
  <2>2. Newest(S) \in Nat /\ k \in Nat
    <3>1. Newest(S) \in 1 .. n /\ k \in 1 .. n
      BY <1>7, <1>9 DEF S
    <3> QED BY <2>1, <3>1
  <2> QED BY <1>9, <2>2
<1>11. Top(s).ret = cs[Newest(S)].ret
  BY <1>5, <1>10 DEF Top, m
<1> QED BY <1>2, <1>11 DEF s, cs, S

\* A frame belongs to a call.
LEMMA StackBalancedInv == CInv => StackBalanced
<1> SUFFICES ASSUME CInv, NEW t \in Threads, calls[t] = <<>> PROVE Stack(t) = <<>>
  BY DEF StackBalanced
<1>1. Stack(t) \in Seq(Frame) /\ Matches(Stack(t), <<>>)
  BY ThreadTyped DEF Right
<1>2. PICK pos : MatchedBy(pos, Stack(t), <<>>)
  BY <1>1 DEF Matches
<1>3. \A i \in 1 .. Len(Stack(t)) : pos[i] \in 1 .. 0
  BY <1>2 DEF MatchedBy
<1>4. Len(Stack(t)) = 0
  BY <1>1, <1>3
<1> QED BY <1>1, <1>4

\* Two proxies that start a chain have two frames.
LEMMA NoReentryInv == CInv => NoReentry
<1> SUFFICES ASSUME CInv, NEW t \in Threads, NEW i \in Starts(calls[t]), NEW j \in Starts(calls[t]),
                    calls[t][i].fn \in Funcs, calls[t][j].fn \in Funcs,
                    OrigOf[calls[t][i].hook] = OrigOf[calls[t][j].hook]
             PROVE  i = j
  BY DEF NoReentry
<1> DEFINE s == Stack(t)
           cs == calls[t]
<1>1. cs \in Seq(Call) /\ s \in Seq(Frame) /\ FramesRight(s) /\ Matches(s, cs)
  BY ThreadTyped DEF Right
<1>2. PICK pos : MatchedBy(pos, s, cs)
  BY <1>1 DEF Matches
<1> HIDE DEF s
<1>3. ASSUME NEW k \in Starts(cs), cs[k].fn \in Funcs
      PROVE  \E x \in 1 .. Len(s) : pos[x] = k /\ s[x].orig = OrigOf[cs[k].hook]
  <2>1. k \in 1 .. Len(cs) /\ cs[k].first
    BY <1>1 DEF Starts
  <2> HIDE DEF cs
  <2>2. PICK x \in 1 .. Len(s) : FrameOf(pos, s, cs, x, k)
    BY <1>2, <1>3, <2>1 DEF MatchedBy
  <2>3. pos[x] \in 1 .. Len(cs) /\ k \in 1 .. k
    BY <1>2, <2>1, <2>2 DEF MatchedBy
  <2>4. pos[x] <= k /\ k <= pos[x] /\ s[x].hook = cs[k].hook
    BY <2>1, <2>2, <2>3 DEF FrameOf
  <2>5. pos[x] = k
    BY <2>1, <2>3, <2>4
  <2>6. s[x].orig = OrigOf[cs[k].hook]
    BY <1>1, <2>4 DEF FramesRight
  <2> QED BY <2>5, <2>6
<1>4. PICK x \in 1 .. Len(s) : pos[x] = i /\ s[x].orig = OrigOf[cs[i].hook]
  BY <1>3
<1>5. PICK y \in 1 .. Len(s) : pos[y] = j /\ s[y].orig = OrigOf[cs[j].hook]
  BY <1>3
<1>6. x = y
  BY <1>1, <1>4, <1>5 DEF FramesRight
<1> QED BY <1>4, <1>5, <1>6

LEMMA ChainOrderInv == OwnFunctions /\ CInv => ChainOrder
<1> SUFFICES ASSUME OwnFunctions, CInv, NEW t \in Threads, NEW i \in DOMAIN calls[t],
                    i > 1, ~calls[t][i].first
             PROVE  calls[t][i].at < calls[t][i - 1].at
  BY DEF ChainOrder
<1>1. calls[t] \in Seq(Call) /\ InOrder(calls[t])
  BY ThreadTyped DEF Right
<1>2. i \in 1 .. Len(calls[t])
  BY <1>1
<1> QED BY <1>1, <1>2 DEF InOrder

(***************************************************************************)
(* Theorems                                                                  *)
(***************************************************************************)
\* While a proxy runs, the frame that get_prev_func, get_return_address and
\* pop_stack read is the one pushed for its chain, however the lists change.
THEOREM FrameOfTheProxy == Spec => []OwnFrame
BY CallInvariant, OwnFrameInv, PTL

\* A thread that has left its last hooked call left no frame behind.
THEOREM NoFrameLeft == Spec => []StackBalanced
BY CallInvariant, StackBalancedInv, PTL

\* Whatever GOT entries a recursive call comes through, the proxies of a
\* function are not entered twice.
THEOREM EnteredOnce == Spec => []NoReentry
BY CallInvariant, NoReentryInv, PTL

\* Where every task has a function of its own, a proxy calls on only what stands
\* after it in the list.
THEOREM CallsGoDown ==
    ASSUME OwnFunctions
    PROVE  Spec => []ChainOrder
<1>1. CInv => ChainOrder
  BY ChainOrderInv
<1> QED BY <1>1, CallInvariant, PTL

\* Where every task has a function of its own, no hook enables again what an
\* unhook has disabled.
THEOREM UnhookLasts ==
    ASSUME OwnFunctions
    PROVE  Spec => []UnhookSticks
<1>1. CInv => UnhookSticks
  BY DEF CInv, ListsRight
<1> QED BY <1>1, CallInvariant, PTL

\* Where every task has a function of its own, a task that was not unhooked
\* keeps its proxy enabled.
THEOREM HookLasts ==
    ASSUME OwnFunctions
    PROVE  Spec => []HookedStaysEnabled
<1>1. CInv => HookedStaysEnabled
  BY DEF CInv, ListsRight
<1> QED BY <1>1, CallInvariant, PTL

(***************************************************************************)
(* The promise                                                               *)
(*                                                                           *)
(* HookChain keeps the promise of HookedCall: every step of a trampoline, of *)
(* a proxy and of the lists is a step of the promised calls, or none.        *)
(*                                                                           *)
(* Five kinds of steps touch the calls of a thread.  It starts a hooked call *)
(* (Begins), a proxy goes on down its chain (GoesOn), the innermost function *)
(* returns (Returns), the thread exits (Leaves), and every other step leaves *)
(* the calls what they were, apart from stages and flags (Stays).  That a    *)
(* proxy goes on to a function its chain has not entered needs more than     *)
(* CInv: the calls of a chain are of one hook and stand ever further down    *)
(* its list (ChainRight).                                                    *)
(***************************************************************************)

(***************************************************************************)
(* Situations                                                                *)
(***************************************************************************)
\* The situations of a thread are a sequence, one for each call.
LEMMA SituationsType ==
    ASSUME NEW cs \in Seq(Call)
    PROVE  /\ Situations(cs) \in Seq(Promise!Situation)
           /\ Len(Situations(cs)) = Len(cs)
           /\ \A i \in 1 .. Len(cs) : Situations(cs)[i] = SituationAt(cs, i)
<1>1. ASSUME NEW i \in 1 .. Len(cs) PROVE SituationAt(cs, i) \in Promise!Situation
  <2>1. cs[i] \in Call
    OBVIOUS
  <2>2. cs[i].hook \in Hooks
    BY <2>1 DEF Call
  <2> QED BY <2>2 DEF SituationAt, Promise!Situation
<1>2. Len(cs) \in Nat /\ DOMAIN cs = 1 .. Len(cs)
  OBVIOUS
<1>3. Situations(cs) = [i \in 1 .. Len(cs) |-> SituationAt(cs, i)]
  BY <1>2 DEF Situations
<1> DEFINE n == Len(cs)
<1> HIDE DEF n
<1>4. /\ [i \in 1 .. n |-> SituationAt(cs, i)] \in [1 .. n -> Promise!Situation]
      /\ \A i \in 1 .. n : [j \in 1 .. n |-> SituationAt(cs, j)][i] = SituationAt(cs, i)
  BY <1>1 DEF n
<1>5. \A f \in [1 .. n -> Promise!Situation] : f \in Seq(Promise!Situation) /\ Len(f) = n
  BY <1>2 DEF n
<1> QED BY <1>3, <1>4, <1>5 DEF n

\* Where the thread is depends only on the calls so far.
LEMMA SituationPrefix ==
    ASSUME NEW cs, NEW cs2, NEW i \in Nat,
           \A k \in 1 .. i : cs2[k].fn = cs[k].fn /\ cs2[k].first = cs[k].first
                             /\ cs2[k].hook = cs[k].hook,
           i \in 1 .. i
    PROVE  /\ ChainTo(cs2, i) = ChainTo(cs, i)
           /\ SituationAt(cs2, i) = SituationAt(cs, i)
<1>1. \A j \in 1 .. i : \A k \in j + 1 .. i : k \in 1 .. i
  OBVIOUS
<1>2. ChainTo(cs2, i) = ChainTo(cs, i)
  BY <1>1 DEF ChainTo
<1>3. {cs2[j].fn : j \in ChainTo(cs2, i)} = {cs[j].fn : j \in ChainTo(cs, i)}
  BY <1>2 DEF ChainTo
<1> QED BY <1>2, <1>3 DEF SituationAt

\* The calls of a chain to a call more.
LEMMA ChainAppend ==
    ASSUME NEW cs \in Seq(Call), NEW c \in Call
    PROVE  /\ c.first => ChainTo(Append(cs, c), Len(cs) + 1) = {Len(cs) + 1}
           /\ ~c.first => ChainTo(Append(cs, c), Len(cs) + 1) = ChainTo(cs, Len(cs)) \cup {Len(cs) + 1}
<1> DEFINE n == Len(cs)  C == Append(cs, c)
<1>1. n \in Nat /\ C[n + 1] = c /\ \A i \in 1 .. n : C[i] = cs[i]
  BY AppendFacts
<1> HIDE DEF n, C
<1>3. n + 1 \in ChainTo(C, n + 1)
  <2>1. n + 1 \in 1 .. n + 1 /\ \A k \in n + 1 + 1 .. n + 1 : FALSE
    BY <1>1
  <2> QED BY <2>1 DEF ChainTo
<1>4. \A j \in ChainTo(C, n + 1) : j \in 1 .. n \/ j = n + 1
  BY <1>1 DEF ChainTo
<1>5. ASSUME c.first, NEW j \in 1 .. n PROVE j \notin ChainTo(C, n + 1)
  <2>1. n + 1 \in j + 1 .. n + 1
    BY <1>1
  <2> QED BY <1>1, <1>5, <2>1 DEF ChainTo
<1>6. ASSUME ~c.first, NEW j \in 1 .. n
      PROVE  j \in ChainTo(C, n + 1) <=> j \in ChainTo(cs, n)
  <2>1. \A k \in j + 1 .. n : k \in 1 .. n /\ k \in j + 1 .. n + 1 /\ C[k] = cs[k]
    BY <1>1
  <2>2. \A k \in j + 1 .. n + 1 : k \in j + 1 .. n \/ k = n + 1
    BY <1>1
  <2>3. j \in 1 .. n + 1
    BY <1>1
  <2>4. (\A k \in j + 1 .. n + 1 : ~C[k].first) <=> (\A k \in j + 1 .. n : ~cs[k].first)
    <3>1. ASSUME \A k \in j + 1 .. n + 1 : ~C[k].first, NEW k \in j + 1 .. n
          PROVE  ~cs[k].first
      BY ONLY <2>1, <3>1
    <3>2. ASSUME \A k \in j + 1 .. n : ~cs[k].first, NEW k \in j + 1 .. n + 1
          PROVE  ~C[k].first
      BY ONLY <1>1, <1>6, <2>1, <2>2, <3>2
    <3> QED BY ONLY <3>1, <3>2
  <2> QED BY ONLY <1>6, <2>3, <2>4 DEF ChainTo
<1>7. ChainTo(cs, n) \subseteq 1 .. n
  BY DEF ChainTo
<1>8. CASE c.first
  BY <1>3, <1>4, <1>5, <1>8 DEF n, C
<1>9. CASE ~c.first
  BY <1>3, <1>4, <1>6, <1>7, <1>9 DEF n, C
<1> QED BY <1>8, <1>9

\* The situation of a call that starts a chain.
LEMMA SituationFirst ==
    ASSUME NEW cs \in Seq(Call), NEW c \in Call, c.first
    PROVE  SituationAt(Append(cs, c), Len(cs) + 1) =
              [hook |-> c.hook, proxies |-> {c.fn} \cap Funcs, in |-> IF c.fn \in Origs THEN "orig" ELSE "proxy"]
<1> DEFINE n == Len(cs) + 1  C == Append(cs, c)
<1>1. C[n] = c /\ ChainTo(C, n) = {n}
  <2>1. C[n] = c
    BY AppendFacts
  <2>2. ChainTo(C, n) = {n}
    BY ChainAppend
  <2> QED BY <2>1, <2>2
<1> HIDE DEF n, C
<1>2. {C[j].fn : j \in ChainTo(C, n)} = {c.fn}
  BY <1>1
<1> QED BY <1>1, <1>2 DEF SituationAt, n, C

\* The situation of a call down the chain.
LEMMA SituationNext ==
    ASSUME NEW cs \in Seq(Call), NEW c \in Call, ~c.first
    PROVE  SituationAt(Append(cs, c), Len(cs) + 1) =
              [hook |-> c.hook,
               proxies |-> SituationAt(cs, Len(cs)).proxies \cup ({c.fn} \cap Funcs),
               in |-> IF c.fn \in Origs THEN "orig" ELSE "proxy"]
<1> DEFINE n == Len(cs)  C == Append(cs, c)
<1>1. /\ n \in Nat /\ C[n + 1] = c /\ \A i \in 1 .. n : C[i] = cs[i]
      /\ ChainTo(C, n + 1) = ChainTo(cs, n) \cup {n + 1}
  <2>1. n \in Nat /\ C[n + 1] = c /\ \A i \in 1 .. n : C[i] = cs[i]
    BY AppendFacts
  <2>2. ChainTo(C, n + 1) = ChainTo(cs, n) \cup {n + 1}
    BY ChainAppend
  <2> QED BY <2>1, <2>2
<1> HIDE DEF n, C
<1>2. \A j \in ChainTo(cs, n) : C[j] = cs[j]
  BY <1>1 DEF ChainTo
<1>3. {C[j].fn : j \in ChainTo(C, n + 1)} = {cs[j].fn : j \in ChainTo(cs, n)} \cup {c.fn}
  BY <1>1, <1>2
<1>4. /\ {C[j].fn : j \in ChainTo(C, n + 1)} \cap Funcs
           = ({cs[j].fn : j \in ChainTo(cs, n)} \cap Funcs) \cup ({c.fn} \cap Funcs)
  BY <1>3
<1> QED BY <1>1, <1>4 DEF SituationAt, n, C

\* Two sequences of one length with the same elements.
LEMMA SameSeq ==
    ASSUME NEW S, NEW r \in Seq(S), NEW s \in Seq(S), Len(r) = Len(s),
           \A i \in 1 .. Len(s) : r[i] = s[i]
    PROVE  r = s
OBVIOUS

\* One call more is one situation more.
LEMMA SituationsAppend ==
    ASSUME NEW cs \in Seq(Call), NEW c \in Call
    PROVE  Situations(Append(cs, c)) =
              Append(Situations(cs), SituationAt(Append(cs, c), Len(cs) + 1))
<1> DEFINE n == Len(cs)  C == Append(cs, c)  s == Situations(cs)
           e == SituationAt(C, n + 1)  r == Situations(C)
<1>1. /\ n \in Nat /\ C \in Seq(Call) /\ Len(C) = n + 1 /\ \A i \in 1 .. n : C[i] = cs[i]
  BY AppendFacts
<1>2. /\ s \in Seq(Promise!Situation) /\ Len(s) = n
      /\ \A i \in 1 .. n : s[i] = SituationAt(cs, i)
  BY SituationsType
<1> HIDE DEF n, C, s
<1>3. /\ r \in Seq(Promise!Situation) /\ Len(r) = n + 1
      /\ \A i \in 1 .. n + 1 : r[i] = SituationAt(C, i)
  BY <1>1, SituationsType
<1>4. n + 1 \in 1 .. n + 1
  BY <1>1
<1> HIDE DEF r, e
<1>5. e \in Promise!Situation
  <2>1. r[n + 1] \in Promise!Situation
    BY <1>3, <1>4
  <2> QED BY <1>3, <1>4, <2>1 DEF e
<1>6. /\ Append(s, e) \in Seq(Promise!Situation) /\ Len(Append(s, e)) = n + 1
      /\ \A i \in 1 .. n : Append(s, e)[i] = s[i]
      /\ Append(s, e)[n + 1] = e
  BY <1>2, <1>5, AppendFacts
<1>7. ASSUME NEW i \in 1 .. n PROVE SituationAt(C, i) = SituationAt(cs, i)
  <2>1. i \in Nat /\ i \in 1 .. i /\ \A k \in 1 .. i : k \in 1 .. n
    BY <1>1
  <2>2. \A k \in 1 .. i : C[k] = cs[k]
    BY <1>1, <2>1
  <2> QED BY <2>1, <2>2, SituationPrefix
<1>8. \A i \in 1 .. n + 1 : i \in 1 .. n \/ i = n + 1
  BY <1>1
<1>9. \A i \in 1 .. n + 1 : r[i] = Append(s, e)[i]
  BY <1>2, <1>3, <1>4, <1>6, <1>7, <1>8 DEF e
<1>10. r = Append(s, e)
  BY <1>3, <1>6, <1>9, SameSeq
<1> QED BY <1>10 DEF r, s, e, C, n

\* One call less is one situation less.
LEMMA SituationsRest ==
    ASSUME NEW cs \in Seq(Call), cs # <<>>
    PROVE  /\ Situations(cs) # <<>>
           /\ Situations(Rest(cs)) = Rest(Situations(cs))
<1> DEFINE n == Len(cs) - 1  C == Rest(cs)  s == Situations(cs)  r == Situations(C)
<1>1. n \in Nat /\ C \in Seq(Call) /\ Len(C) = n /\ Len(cs) = n + 1
  <2>1. Len(cs) \in Nat \ {0} /\ Rest(cs) \in Seq(Call) /\ Len(Rest(cs)) = Len(cs) - 1
    BY RestFacts
  <2> QED BY <2>1
<1>a. \A i \in 1 .. n : C[i] = cs[i]
  BY RestItems
<1> HIDE DEF n, C
<1>2. /\ s \in Seq(Promise!Situation) /\ Len(s) = n + 1
      /\ \A i \in 1 .. n + 1 : s[i] = SituationAt(cs, i)
  BY <1>1, SituationsType
<1>3. /\ r \in Seq(Promise!Situation) /\ Len(r) = n
      /\ \A i \in 1 .. n : r[i] = SituationAt(C, i)
  BY <1>1, SituationsType
<1> HIDE DEF r, s
<1>4. s # <<>>
  BY <1>1, <1>2
<1>5. Rest(s) \in Seq(Promise!Situation) /\ Len(Rest(s)) = n
  <2>1. Rest(s) \in Seq(Promise!Situation) /\ Len(Rest(s)) = Len(s) - 1
    BY <1>2, <1>4, RestFacts
  <2> QED BY <1>1, <1>2, <2>1
<1>6. \A i \in 1 .. n : Rest(s)[i] = s[i]
  <2>1. \A i \in 1 .. Len(s) - 1 : Rest(s)[i] = s[i]
    BY <1>2, <1>4, RestItems
  <2>2. Len(s) - 1 = n
    BY <1>1, <1>2
  <2> QED BY <2>1, <2>2
<1>7. ASSUME NEW i \in 1 .. n PROVE r[i] = s[i]
  <2>1. i \in Nat /\ i \in 1 .. i /\ i \in 1 .. n + 1 /\ \A k \in 1 .. i : k \in 1 .. n
    BY <1>1
  <2>2. \A k \in 1 .. i : C[k] = cs[k]
    BY <1>a, <2>1
  <2>3. SituationAt(C, i) = SituationAt(cs, i)
    BY <2>1, <2>2, SituationPrefix
  <2> QED BY <1>2, <1>3, <2>1, <2>3
<1>8. r = Rest(s)
  BY <1>3, <1>5, <1>6, <1>7, SameSeq
<1> QED BY <1>4, <1>8 DEF r, s, C

\* Stages and flags do not matter.
LEMMA SituationsSame ==
    ASSUME NEW cs \in Seq(Call), NEW cs2 \in Seq(Call), SameCalls(cs, cs2)
    PROVE  Situations(cs2) = Situations(cs)
<1>1. Len(cs) \in Nat /\ Len(cs2) = Len(cs)
  BY DEF SameCalls
<1>2. ASSUME NEW i \in 1 .. Len(cs) PROVE SituationAt(cs2, i) = SituationAt(cs, i)
  <2>1. i \in Nat /\ i \in 1 .. i /\ \A k \in 1 .. i : k \in 1 .. Len(cs)
    BY <1>1
  <2>2. \A k \in 1 .. i : cs2[k].fn = cs[k].fn /\ cs2[k].first = cs[k].first
                          /\ cs2[k].hook = cs[k].hook
    BY <2>1 DEF SameCalls
  <2> QED BY ONLY <2>1, <2>2, SituationPrefix
<1> DEFINE r == Situations(cs2)  s == Situations(cs)
<1>3. /\ r \in Seq(Promise!Situation) /\ Len(r) = Len(s) /\ s \in Seq(Promise!Situation)
      /\ \A i \in 1 .. Len(s) : r[i] = SituationAt(cs2, i) /\ s[i] = SituationAt(cs, i)
      /\ Len(s) = Len(cs)
  BY <1>1, SituationsType
<1> HIDE DEF r, s
<1>4. r = s
  BY <1>2, <1>3, SameSeq
<1> QED BY <1>4 DEF r, s

(***************************************************************************)
(* Steps                                                                     *)
(***************************************************************************)
\* A trampoline enters a proxy, of a function that the thread is not inside the
\* proxies of, or an original function.
Begins(t) == \E cs \in Seq(Call), c \in Call :
    /\ SameCalls(calls[t], cs)
    /\ c.first
    /\ c.fn \in Funcs => ~Recursive(Stack(t), c.hook)
    /\ calls' = [calls EXCEPT ![t] = Append(cs, c)]

\* The innermost proxy calls what it found further down its list.
GoesOn(t) == \E c \in Call :
    /\ ~c.first
    /\ calls[t] # <<>>
    /\ Top(calls[t]).fn \in Funcs
    /\ Top(calls[t]).hook = c.hook
    /\ OwnFunctions => c.at < Top(calls[t]).at
    /\ CallRight(c)
    /\ calls' = [calls EXCEPT ![t] = Append(calls[t], c)]

Returns(t) == calls[t] # <<>> /\ calls' = [calls EXCEPT ![t] = Rest(calls[t])]
Leaves(t) == calls' = [calls EXCEPT ![t] = <<>>]
Stays(t) == \E cs \in Seq(Call) : SameCalls(calls[t], cs) /\ calls' = [calls EXCEPT ![t] = cs]

CallStep(t) == Begins(t) \/ GoesOn(t) \/ Returns(t) \/ Leaves(t) \/ Stays(t)

\* An original function begins.
LEMMA BeginsOrig ==
    ASSUME NEW t \in Threads, NEW cs \in Seq(Call), SameCalls(calls[t], cs),
           NEW h \in Hooks, NEW ret \in Site,
           calls' = [calls EXCEPT ![t] = Append(cs, NewCall(OrigOf[h], h, ret, TRUE, 0))]
    PROVE  Begins(t)
<1> DEFINE c == NewCall(OrigOf[h], h, ret, TRUE, 0)
<1>1. c \in Call /\ c.first /\ c.fn \notin Funcs
  <2>1. OrigOf[h] \in Origs /\ OrigOf[h] \notin Funcs
    OBVIOUS
  <2>2. c \in Call
    BY <2>1, NewCallType
  <2> QED BY <2>1, <2>2 DEF NewCall
<1> HIDE DEF c
<1>2. calls' = [calls EXCEPT ![t] = Append(cs, c)]
  BY DEF c
<1> QED BY <1>1, <1>2 DEF Begins

LEMMA CallHookStep ==
    ASSUME CInv, NEW t \in Threads, NEW h \in Hooks, CallHook(t, h)
    PROVE  CallStep(t)
<1>1. TypeOK /\ calls[t] \in Seq(Call)
  BY DEF CInv, IInv, TypeOK
<1>2. Spend(calls[t]) \in Seq(Call) /\ SameCalls(calls[t], Spend(calls[t]))
  BY <1>1, SpendSame
<1>3. <<Running(t), h>> \in Site
  BY <1>1, RunningType DEF Site
<1>4. CASE calls' = [calls EXCEPT ![t] = Spend(@)]
  BY <1>2, <1>4 DEF Stays, CallStep
<1>5. CASE calls' = [calls EXCEPT ![t] =
                       Append(Spend(calls[t]), NewCall(OrigOf[h], h, <<Running(t), h>>, TRUE, 0))]
  BY <1>2, <1>3, <1>5, BeginsOrig DEF CallStep
<1> QED BY <1>4, <1>5 DEF CallHook

LEMMA PushWalkStep ==
    ASSUME CInv, NEW t \in Threads, PushWalk(t)
    PROVE  UNCHANGED calls \/ CallStep(t)
<1>1. calls[t] \in Seq(Call) /\ walk[t] \in Walk
  <2>1. walk[t] \in Walk \cup {Idle} /\ walk[t].mode = "push" /\ calls[t] \in Seq(Call)
    BY ThreadTyped DEF PushWalk
  <2> QED BY <2>1 DEF Idle
<1>2. SameCalls(calls[t], calls[t])
  BY DEF SameCalls
<1>3. walk[t].hook \in Hooks /\ walk[t].ret \in Site
  BY <1>1 DEF Walk
<1> QED BY <1>1, <1>2, <1>3, BeginsOrig DEF PushWalk, EnterOrig, Enter, CallStep

LEMMA PushFrameStep ==
    ASSUME CInv, NEW t \in Threads, PushFrame(t)
    PROVE  CallStep(t)
<1> DEFINE w == walk[t]
           cs == calls[t]
           p == NewCall(chain[w.hook][w.at].func, w.hook, w.ret, TRUE, w.at)
<1>1. cs \in Seq(Call) /\ w \in Walk /\ w # Idle /\ w.mode = "found" /\ TypeOK
  <2>1. w \in Walk \cup {Idle} /\ w.mode = "found" /\ cs \in Seq(Call)
    BY ThreadTyped DEF PushFrame
  <2> QED BY <2>1 DEF Idle, CInv, IInv
<1>2. SameCalls(cs, cs)
  BY DEF SameCalls
<1>3. /\ w.hook \in Hooks /\ w.ret \in Site /\ w.at \in Nat /\ w.at > 0
      /\ w.at <= Len(chain[w.hook])
  BY <1>1 DEF Walk, CInv, IInv, WalkInChain
<1>4. ~Recursive(Stack(t), w.hook)
  <2>1. Right(w, cs, Stack(t))
    BY ThreadTyped
  <2> QED BY <1>1, <2>1 DEF Right, WalkRight
<1>5. CASE Full(Stack(t))
  BY <1>1, <1>2, <1>3, <1>5, BeginsOrig DEF PushFrame, EnterOrig, Enter, CallStep
<1>6. CASE ~Full(Stack(t))
  <2>1. calls' = [calls EXCEPT ![t] = Append(cs, p)]
    BY <1>6 DEF PushFrame, Enter
  <2>2. p \in Call
    <3>1. chain[w.hook] \in Seq(Item) /\ w.at \in DOMAIN chain[w.hook]
      BY <1>1, <1>3 DEF TypeOK
    <3>2. chain[w.hook][w.at] \in Item
      BY <3>1
    <3>3. chain[w.hook][w.at].func \in Funcs
      BY <3>2 DEF Item
    <3> HIDE DEF w
    <3> QED BY <1>3, <3>3, NewCallType
  <2>3. p.first /\ p.hook = w.hook
    BY DEF NewCall
  <2> HIDE DEF p
  <2> QED BY <1>1, <1>2, <1>4, <2>1, <2>2, <2>3 DEF Begins, CallStep
<1> QED BY <1>5, <1>6

LEMMA GetPrevStep ==
    ASSUME CInv, NEW t \in Threads, GetPrev(t)
    PROVE  CallStep(t)
<1> DEFINE cs == calls[t]
           c == [cs[Len(cs)] EXCEPT !.stage = "after"]
<1>1. cs \in Seq(Call) /\ cs # <<>>
  BY ThreadTyped DEF GetPrev, InProxy
<1>2. Top(cs) = cs[Len(cs)] /\ cs[Len(cs)] \in Call
  BY <1>1, SeqOps DEF Top
<1>3. /\ c \in Call /\ c.fn = Top(cs).fn /\ c.first = Top(cs).first
      /\ c.ret = Top(cs).ret /\ c.hook = Top(cs).hook /\ c.at = Top(cs).at
  BY <1>2 DEF Call
<1>4. calls' = [calls EXCEPT ![t] = [cs EXCEPT ![Len(cs)] = c]]
  BY DEF GetPrev
<1> HIDE DEF c
<1>5. SameCalls(cs, [cs EXCEPT ![Len(cs)] = c]) /\ [cs EXCEPT ![Len(cs)] = c] \in Seq(Call)
  BY <1>1, <1>3, TouchedSame
<1> QED BY <1>4, <1>5 DEF Stays, CallStep

LEMMA PrevWalkStep ==
    ASSUME CInv, NEW t \in Threads, PrevWalk(t)
    PROVE  UNCHANGED calls \/ CallStep(t)
<1> DEFINE w == walk[t]
           s == Stack(t)
           cs == calls[t]
<1>1. TypeOK /\ w \in Walk /\ w # Idle /\ w.mode = "prev"
  <2>1. w \in Walk \cup {Idle} /\ w.mode = "prev"
    BY ThreadTyped DEF PrevWalk
  <2> QED BY <2>1 DEF Idle, CInv, IInv
<1>2. cs \in Seq(Call) /\ s \in Seq(Frame) /\ Right(w, cs, s)
  BY ThreadTyped
<1>3. /\ w.hook \in Hooks /\ w.ret \in Site /\ w.at \in Nat /\ w.at <= Len(chain[w.hook])
      /\ mem[t] # NoStack /\ s # <<>>
  BY <1>1, ThreadTyped DEF Walk, CInv, IInv, WalkInChain
<1>4. /\ w.ret[2] = Prev /\ cs # <<>> /\ Top(cs).fn \in Funcs /\ Top(cs).hook = w.hook
      /\ OwnFunctions => w.at < Top(cs).at
  BY <1>1, <1>2 DEF Right, WalkRight
<1>5. ASSUME NEW fn \in Funcs \cup Origs, NEW c, c = NewCall(fn, w.hook, w.ret, FALSE, w.at),
             fn \in Funcs => w.at \in DOMAIN chain[w.hook] /\ chain[w.hook][w.at].func = fn,
             calls' = [calls EXCEPT ![t] = Append(cs, c)]
      PROVE  GoesOn(t)
  <2>1. c \in Call /\ CallRight(c)
    <3> HIDE DEF w
    <3> QED BY <1>1, <1>3, <1>4, <1>5, NewCallRight
  <2>2. c.hook = w.hook /\ ~c.first /\ c.at = w.at
    BY <1>5 DEF NewCall
  <2> HIDE DEF w
  <2> QED BY <1>4, <1>5, <2>1, <2>2 DEF GoesOn
<1>6. CASE w.at = 0 /\ Enter(t, NewCall(Top(s).orig, w.hook, w.ret, FALSE, 0))
  <2>1. Top(s) \in Frame
    BY <1>2, <1>3, SeqOps
  <2>2. Top(s).orig \in Origs /\ Top(s).orig \notin Funcs
    BY <2>1 DEF Frame
  <2>3. calls' = [calls EXCEPT ![t] = Append(cs, NewCall(Top(s).orig, w.hook, w.ret, FALSE, w.at))]
    BY <1>6 DEF Enter
  <2> HIDE DEF w, s, cs
  <2> QED BY <1>5, <2>2, <2>3 DEF CallStep
<1>7. CASE w.at > 0 /\ Enter(t, NewCall(chain[w.hook][w.at].func, w.hook, w.ret, FALSE, w.at))
  <2>1. chain[w.hook] \in Seq(Item) /\ w.at \in DOMAIN chain[w.hook]
    BY <1>1, <1>3, <1>7 DEF TypeOK
  <2>2. chain[w.hook][w.at].func \in Funcs
    <3>1. chain[w.hook][w.at] \in Item
      BY <2>1
    <3> QED BY <3>1 DEF Item
  <2>3. calls' = [calls EXCEPT ![t] =
            Append(cs, NewCall(chain[w.hook][w.at].func, w.hook, w.ret, FALSE, w.at))]
    BY <1>7 DEF Enter
  <2> HIDE DEF w, cs
  <2> QED BY <1>5, <2>1, <2>2, <2>3 DEF CallStep
<1> QED BY <1>6, <1>7 DEF PrevWalk

LEMMA ReturnStep ==
    ASSUME NEW t \in Threads, ProxyReturn(t) \/ OrigReturn(t)
    PROVE  CallStep(t)
BY DEF ProxyReturn, InProxy, OrigReturn, Returns, Rest, CallStep

\* Every step is of one of the kinds, or leaves the calls alone.
LEMMA StepOfCalls ==
    ASSUME CInv, [Next]_vars
    PROVE  UNCHANGED calls \/ \E t \in Threads : CallStep(t)
<1>1. ASSUME NEW t \in Threads, Step(t) PROVE UNCHANGED calls \/ CallStep(t)
  BY <1>1, PushWalkStep, PushFrameStep, GetPrevStep, PrevWalkStep, ReturnStep DEF Step
<1>2. ASSUME NEW t \in Threads, ThreadExit(t) PROVE CallStep(t)
  BY <1>2 DEF ThreadExit, Leaves, CallStep
<1>3. ASSUME NEW t \in Threads, NEW h \in Hooks, CallHook(t, h) PROVE CallStep(t)
  BY <1>3, CallHookStep
<1>4. ASSUME NEW k \in Tasks, NEW h \in Hooks, Unhook(k) \/ AddFunc(k, h) \/ DeleteFunc(k, h)
      PROVE  UNCHANGED calls
  BY <1>4 DEF Unhook, AddFunc, DeleteFunc
<1>5. ASSUME NEW k \in Tasks, Unhook(k) PROVE UNCHANGED calls
  BY <1>5 DEF Unhook
<1> QED BY <1>1, <1>2, <1>3, <1>4, <1>5 DEF Next, vars

(***************************************************************************)
(* What a chain of calls is                                                  *)
(***************************************************************************)
\* The calls of a chain are of one hook and go down its list.
ChainRight(cs) ==
    \A i \in 1 .. Len(cs) : \A j \in ChainTo(cs, i) :
        /\ cs[j].hook = cs[i].hook
        /\ OwnFunctions => cs[i].at <= cs[j].at

PInv ==
    /\ CInv
    /\ \A t \in Threads : ChainRight(calls[t])

LEMMA ChainRightSame ==
    ASSUME NEW cs \in Seq(Call), NEW cs2 \in Seq(Call), SameCalls(cs, cs2), ChainRight(cs)
    PROVE  ChainRight(cs2)
<1> SUFFICES ASSUME NEW i \in 1 .. Len(cs), NEW j \in ChainTo(cs2, i)
             PROVE  /\ cs2[j].hook = cs2[i].hook
                    /\ OwnFunctions => cs2[i].at <= cs2[j].at
  BY DEF ChainRight, SameCalls
<1>1. i \in Nat /\ i \in 1 .. i /\ \A k \in 1 .. i : k \in 1 .. Len(cs)
  OBVIOUS
<1>2. ChainTo(cs2, i) = ChainTo(cs, i)
  BY <1>1, SituationPrefix DEF SameCalls
<1>3. j \in 1 .. i /\ j \in ChainTo(cs, i)
  BY <1>2 DEF ChainTo
<1>4. /\ cs2[i].hook = cs[i].hook /\ cs2[i].at = cs[i].at
      /\ cs2[j].hook = cs[j].hook /\ cs2[j].at = cs[j].at
  BY <1>1, <1>3 DEF SameCalls
<1> QED BY <1>3, <1>4 DEF ChainRight

LEMMA ChainRightAppend ==
    ASSUME NEW cs \in Seq(Call), NEW c \in Call, ChainRight(cs),
           ~c.first => /\ cs # <<>>
                       /\ Top(cs).hook = c.hook
                       /\ OwnFunctions => c.at < Top(cs).at
    PROVE  ChainRight(Append(cs, c))
<1> DEFINE n == Len(cs)  C == Append(cs, c)
<1>1. n \in Nat /\ C[n + 1] = c /\ Len(C) = n + 1 /\ \A i \in 1 .. n : C[i] = cs[i]
  BY AppendFacts
<1>2. /\ c.first => ChainTo(C, n + 1) = {n + 1}
      /\ ~c.first => ChainTo(C, n + 1) = ChainTo(cs, n) \cup {n + 1}
  BY ChainAppend
<1>3. \A i \in 1 .. n : cs[i].at \in Nat
  <2>1. \A i \in 1 .. n : cs[i] \in Call
    OBVIOUS
  <2> QED BY <2>1 DEF Call
<1>4. c.at \in Nat
  BY DEF Call
<1>5. ~c.first => n \in 1 .. n /\ Top(cs) = cs[n]
  BY SeqOps DEF Top
<1> HIDE DEF n, C
<1>6. ASSUME NEW i \in 1 .. n, NEW j \in ChainTo(C, i)
      PROVE  /\ C[j].hook = C[i].hook
             /\ OwnFunctions => C[i].at <= C[j].at
  <2>1. i \in Nat /\ i \in 1 .. i /\ \A k \in 1 .. i : k \in 1 .. n
    BY <1>1
  <2>2. \A k \in 1 .. i : C[k] = cs[k]
    BY <1>1, <2>1
  <2>3. ChainTo(C, i) = ChainTo(cs, i)
    BY <2>1, <2>2, SituationPrefix
  <2>4. j \in 1 .. i
    BY DEF ChainTo
  <2> QED BY <2>1, <2>2, <2>3, <2>4 DEF ChainRight, n
<1>7. ASSUME NEW j \in ChainTo(C, n + 1)
      PROVE  /\ C[j].hook = c.hook
             /\ OwnFunctions => c.at <= C[j].at
  <2>1. CASE j = n + 1
    BY <1>1, <1>4, <2>1
  <2>2. CASE j # n + 1
    <3>1. ~c.first /\ j \in ChainTo(cs, n)
      BY <1>2, <2>2
    <3>2. n \in 1 .. n /\ j \in 1 .. n /\ Top(cs) = cs[n]
      BY <1>5, <3>1 DEF ChainTo
    <3>3. /\ cs[j].hook = cs[n].hook
          /\ OwnFunctions => cs[n].at <= cs[j].at
      BY <3>1, <3>2 DEF ChainRight, n
    <3>4. C[j] = cs[j]
      BY <1>1, <3>2
    <3> QED BY <1>3, <1>4, <3>1, <3>2, <3>3, <3>4
  <2> QED BY <2>1, <2>2
<1>8. \A i \in 1 .. n + 1 : i \in 1 .. n \/ i = n + 1
  BY <1>1
<1>9. ChainRight(C)
  BY <1>1, <1>6, <1>7, <1>8 DEF ChainRight
<1> QED BY <1>9 DEF C

LEMMA ChainRightRest ==
    ASSUME NEW cs \in Seq(Call), cs # <<>>, ChainRight(cs)
    PROVE  ChainRight(Rest(cs))
<1> DEFINE n == Len(cs) - 1  C == Rest(cs)
<1>1. n \in Nat /\ Len(C) = n /\ Len(cs) = n + 1
  <2>1. Len(cs) \in Nat \ {0} /\ Len(Rest(cs)) = Len(cs) - 1
    BY RestFacts
  <2> QED BY <2>1
<1>2. \A i \in 1 .. n : C[i] = cs[i]
  BY RestItems
<1> HIDE DEF n, C
<1>3. ASSUME NEW i \in 1 .. n, NEW j \in ChainTo(C, i)
      PROVE  /\ C[j].hook = C[i].hook
             /\ OwnFunctions => C[i].at <= C[j].at
  <2>1. i \in Nat /\ i \in 1 .. i /\ i \in 1 .. n + 1 /\ \A k \in 1 .. i : k \in 1 .. n
    BY <1>1
  <2>2. \A k \in 1 .. i : C[k] = cs[k]
    BY <1>2, <2>1
  <2>3. ChainTo(C, i) = ChainTo(cs, i)
    BY <2>1, <2>2, SituationPrefix
  <2>4. j \in 1 .. i
    BY DEF ChainTo
  <2> QED BY <1>1, <2>1, <2>2, <2>3, <2>4 DEF ChainRight
<1>4. ChainRight(C)
  BY <1>1, <1>3 DEF ChainRight
<1> QED BY <1>4 DEF C

LEMMA ChainRightEmpty == ChainRight(<<>>)
<1>1. \A i \in 1 .. Len(<<>>) : FALSE
  OBVIOUS
<1> QED BY <1>1 DEF ChainRight

LEMMA InitPInv == Init => PInv
<1> SUFFICES ASSUME Init PROVE PInv
  OBVIOUS
<1>1. \A t \in Threads : calls[t] = <<>>
  BY DEF Init
<1> QED BY <1>1, InitCInv, ChainRightEmpty DEF PInv

LEMMA NextPInv == PInv /\ [Next]_vars => PInv'
<1> SUFFICES ASSUME PInv, [Next]_vars PROVE PInv'
  OBVIOUS
<1>1. CInv /\ CInv'
  BY NextCInv DEF PInv
<1>2. calls \in [Threads -> Seq(Call)] /\ \A t \in Threads : ChainRight(calls[t])
  BY DEF PInv, CInv, IInv, TypeOK
<1>3. ASSUME NEW t \in Threads, NEW cs, calls' = [calls EXCEPT ![t] = cs], ChainRight(cs)
      PROVE  PInv'
  <2>1. \A u \in Threads : calls'[u] = IF u = t THEN cs ELSE calls[u]
    BY <1>2, <1>3
  <2>2. \A u \in Threads : ChainRight(calls'[u])
    BY <1>2, <1>3, <2>1
  <2> QED BY <1>1, <2>2 DEF PInv, ChainRight, ChainTo
<1>4. ASSUME NEW t \in Threads, Begins(t) PROVE PInv'
  <2>1. PICK cs \in Seq(Call), c \in Call :
            /\ SameCalls(calls[t], cs)
            /\ c.first
            /\ calls' = [calls EXCEPT ![t] = Append(cs, c)]
    BY <1>4 DEF Begins
  <2>2. ChainRight(Append(cs, c))
    BY <1>2, <2>1, ChainRightSame, ChainRightAppend
  <2> QED BY <1>3, <2>1, <2>2
<1>5. ASSUME NEW t \in Threads, GoesOn(t) PROVE PInv'
  BY <1>2, <1>3, <1>5, ChainRightAppend DEF GoesOn
<1>6. ASSUME NEW t \in Threads, Returns(t) PROVE PInv'
  BY <1>2, <1>3, <1>6, ChainRightRest DEF Returns
<1>7. ASSUME NEW t \in Threads, Leaves(t) PROVE PInv'
  BY <1>3, <1>7, ChainRightEmpty DEF Leaves
<1>8. ASSUME NEW t \in Threads, Stays(t) PROVE PInv'
  <2>1. PICK cs \in Seq(Call) : SameCalls(calls[t], cs) /\ calls' = [calls EXCEPT ![t] = cs]
    BY <1>8 DEF Stays
  <2>2. ChainRight(cs)
    BY <1>2, <2>1, ChainRightSame
  <2> QED BY <1>3, <2>1, <2>2
<1>9. ASSUME UNCHANGED calls PROVE PInv'
  BY <1>1, <1>2, <1>9 DEF PInv, ChainRight, ChainTo
<1> QED BY <1>1, <1>4, <1>5, <1>6, <1>7, <1>8, <1>9, StepOfCalls DEF CallStep

LEMMA PromiseInvariant == Spec => []PInv
BY InitPInv, NextPInv, PTL DEF Spec

(***************************************************************************)
(* Every step is a promised one                                              *)
(***************************************************************************)
\* The situations of all threads.
Active == [t \in Threads |-> Situations(calls[t])]

\* A thread inside the proxies of a function has a frame of that function.
LEMMA InterceptingIsRecursive ==
    ASSUME PInv, NEW t \in Threads, NEW h \in Hooks, Promise!Intercepting(t, h)
    PROVE  Recursive(Stack(t), h)
<1> DEFINE cs == calls[t]
           s == Stack(t)
<1>1. cs \in Seq(Call) /\ s \in Seq(Frame) /\ FramesRight(s) /\ Matches(s, cs) /\ ChainRight(cs)
  BY ThreadTyped DEF PInv, Right
<1>2. PICK i \in DOMAIN Situations(cs) :
          Situations(cs)[i].proxies # {} /\ OrigOf[Situations(cs)[i].hook] = OrigOf[h]
  BY DEF Promise!Intercepting
<1>3. i \in 1 .. Len(cs) /\ Situations(cs)[i] = SituationAt(cs, i)
  BY <1>1, <1>2 DEF Situations
<1>4. PICK j \in ChainTo(cs, i) : cs[j].fn \in Funcs
  BY <1>2, <1>3 DEF SituationAt
<1>5. cs[j].hook = cs[i].hook /\ OrigOf[cs[i].hook] = OrigOf[h] /\ j \in 1 .. Len(cs)
  <2>1. j \in 1 .. i
    BY <1>4 DEF ChainTo
  <2>2. j \in 1 .. Len(cs)
    BY <1>1, <1>3, <2>1
  <2> QED BY <1>1, <1>2, <1>3, <1>4, <2>2 DEF ChainRight, SituationAt
<1> HIDE DEF cs, s
<1>6. PICK pos : MatchedBy(pos, s, cs)
  BY <1>1 DEF Matches
<1>7. PICK x \in 1 .. Len(s) : FrameOf(pos, s, cs, x, j)
  BY <1>4, <1>5, <1>6 DEF MatchedBy
<1>8. s[x].orig = OrigOf[h] /\ x \in DOMAIN s
  BY <1>1, <1>5, <1>7 DEF FrameOf, FramesRight
<1> QED BY <1>8 DEF Recursive, s

\* A proxy goes on to a function that its chain has not entered.
LEMMA NextIsNew ==
    ASSUME PInv, OwnFunctions, NEW t \in Threads, calls[t] # <<>>,
           NEW c \in Call, c.fn \in Funcs, CallRight(c), c.hook = Top(calls[t]).hook,
           c.at < Top(calls[t]).at
    PROVE  c.fn \notin SituationAt(calls[t], Len(calls[t])).proxies
<1> DEFINE cs == calls[t]
           n == Len(cs)
<1>1. cs \in Seq(Call) /\ CallsRight(cs) /\ ChainRight(cs)
  BY ThreadTyped DEF PInv, Right
<1>2. n \in 1 .. n /\ Top(cs) = cs[n] /\ cs[n] \in Call
  BY <1>1, SeqOps DEF Top
<1> SUFFICES ASSUME NEW j \in ChainTo(cs, n), cs[j].fn = c.fn PROVE FALSE
  BY DEF SituationAt
<1>3. j \in 1 .. n /\ cs[j] \in Call
  <2>1. j \in 1 .. n
    BY DEF ChainTo
  <2> QED BY <1>1, <2>1
<1>4. cs[j].hook = cs[n].hook /\ cs[n].at <= cs[j].at
  BY <1>1, <1>2 DEF ChainRight
<1>5. /\ cs[j].at \in DOMAIN chain[c.hook] /\ chain[c.hook][cs[j].at].func = c.fn
      /\ c.at \in DOMAIN chain[c.hook] /\ chain[c.hook][c.at].func = c.fn
  BY <1>1, <1>2, <1>3, <1>4 DEF CallsRight, CallRight
<1>6. c.hook \in Hooks /\ c.at \in Nat /\ cs[n].at \in Nat /\ cs[j].at \in Nat
  BY <1>2, <1>3 DEF Call
<1>7. cs[j].at = c.at
  BY <1>5, <1>6 DEF PInv, CInv, ListsRight, UniqueFuncs
<1> QED BY <1>2, <1>4, <1>6, <1>7

LEMMA NoSituations == Situations(<<>>) = <<>>
<1>1. <<>> \in Seq(Call)
  OBVIOUS
<1>2. Situations(<<>>) \in Seq(Promise!Situation) /\ Len(Situations(<<>>)) = 0
  BY <1>1, SituationsType
<1> QED BY <1>2

\* What a thread's calls become, its situations become.
LEMMA ActiveStep ==
    ASSUME NEW t \in Threads, calls \in [Threads -> Seq(Call)],
           NEW cs, calls' = [calls EXCEPT ![t] = cs]
    PROVE  /\ Active[t] = Situations(calls[t])
           /\ Active' = [Active EXCEPT ![t] = Situations(cs)]
<1>1. \A u \in Threads : calls'[u] = IF u = t THEN cs ELSE calls[u]
  OBVIOUS
<1>2. \A u \in Threads :
          Situations(calls'[u]) = IF u = t THEN Situations(cs) ELSE Situations(calls[u])
  BY <1>1
<1>3. Active' = [u \in Threads |-> Situations(calls'[u])]
  BY DEF Active, Situations, SituationAt, ChainTo
<1> HIDE DEF Situations
<1> QED BY <1>2, <1>3 DEF Active

\* A call more is one situation pushed.
LEMMA PushStep ==
    ASSUME NEW t \in Threads, calls \in [Threads -> Seq(Call)],
           NEW cs \in Seq(Call), SameCalls(calls[t], cs), NEW c \in Call,
           calls' = [calls EXCEPT ![t] = Append(cs, c)]
    PROVE  Promise!Push(t, SituationAt(Append(cs, c), Len(cs) + 1))
<1>1. calls[t] \in Seq(Call)
  OBVIOUS
<1>2. Situations(cs) = Situations(calls[t])
  BY <1>1, SituationsSame
<1>3. Situations(Append(cs, c)) =
          Append(Situations(calls[t]), SituationAt(Append(cs, c), Len(cs) + 1))
  BY <1>2, SituationsAppend
<1>4. Active' = [Active EXCEPT ![t] = Append(Active[t], SituationAt(Append(cs, c), Len(cs) + 1))]
  BY <1>3, ActiveStep
<1> QED BY <1>4 DEF Promise!Push, Active

LEMMA BeginsPromised ==
    ASSUME PInv, NEW t \in Threads, Begins(t)
    PROVE  Promise!Next
<1>1. calls \in [Threads -> Seq(Call)]
  BY DEF PInv, CInv, IInv, TypeOK
<1>2. PICK cs \in Seq(Call), c \in Call :
          /\ SameCalls(calls[t], cs)
          /\ c.first
          /\ c.fn \in Funcs => ~Recursive(Stack(t), c.hook)
          /\ calls' = [calls EXCEPT ![t] = Append(cs, c)]
  BY DEF Begins
<1>3. Promise!Push(t, [hook |-> c.hook, proxies |-> {c.fn} \cap Funcs, in |-> IF c.fn \in Origs THEN "orig" ELSE "proxy"])
  <2>1. Promise!Push(t, SituationAt(Append(cs, c), Len(cs) + 1))
    BY <1>1, <1>2, PushStep
  <2> QED BY <1>2, <2>1, SituationFirst
<1>4. c.hook \in Hooks /\ c.fn \in Funcs \cup Origs
  BY DEF Call
<1>5. CASE c.fn \in Funcs
  <2>1. {c.fn} \cap Funcs = {c.fn} /\ c.fn \notin Origs
    BY <1>5
  <2>2. ~Promise!Intercepting(t, c.hook)
    BY <1>2, <1>4, <1>5, InterceptingIsRecursive
  <2>3. Promise!CallProxy(t, c.hook, c.fn)
    BY <1>3, <2>1, <2>2 DEF Promise!CallProxy
  <2> QED BY <1>4, <1>5, <2>3 DEF Promise!Next
<1>6. CASE c.fn \in Origs
  <2>1. {c.fn} \cap Funcs = {} /\ c.fn \in Origs
    BY <1>6
  <2>2. Promise!CallOrig(t, c.hook)
    BY <1>3, <2>1 DEF Promise!CallOrig
  <2> QED BY <1>4, <2>2 DEF Promise!Next
<1> QED BY <1>4, <1>5, <1>6

\* A situation with one part changed.
LEMMA SituationChanged ==
    ASSUME NEW s, NEW h, NEW p, NEW w, s = [hook |-> h, proxies |-> p, in |-> w], NEW x
    PROVE  /\ [s EXCEPT !.proxies = x] = [hook |-> h, proxies |-> x, in |-> w]
           /\ [s EXCEPT !.in = x] = [hook |-> h, proxies |-> p, in |-> x]
OBVIOUS

LEMMA GoesOnPromised ==
    ASSUME PInv, OwnFunctions, NEW t \in Threads, GoesOn(t)
    PROVE  Promise!Next
<1> DEFINE cs == calls[t]
           n == Len(cs)
           top == SituationAt(cs, n)
<1>1. calls \in [Threads -> Seq(Call)] /\ cs \in Seq(Call)
  BY DEF PInv, CInv, IInv, TypeOK
<1>2. PICK c \in Call :
          /\ ~c.first
          /\ cs # <<>>
          /\ Top(cs).fn \in Funcs
          /\ Top(cs).hook = c.hook
          /\ c.at < Top(cs).at
          /\ CallRight(c)
          /\ calls' = [calls EXCEPT ![t] = Append(cs, c)]
  BY DEF GoesOn
<1>3. n \in 1 .. n /\ Top(cs) = cs[n]
  BY <1>1, <1>2, SeqOps DEF Top
<1>4. /\ Promise!Innermost(t) = top
      /\ [u \in Threads |-> Situations(calls[u])][t] # <<>>
  <2>1. Len(Situations(cs)) = n /\ Situations(cs)[n] = top /\ Situations(cs) # <<>>
    BY <1>1, <1>2, <1>3, SituationsType, SituationsRest
  <2>2. [u \in Threads |-> Situations(calls[u])][t] = Situations(cs)
    OBVIOUS
  <2> QED BY <2>1, <2>2 DEF Promise!Innermost
<1>5. top = [hook |-> c.hook, proxies |-> top.proxies, in |-> "proxy"]
  <2>1. cs[n].fn \notin Origs /\ cs[n].hook = c.hook
    BY <1>2, <1>3
  <2> QED BY <2>1 DEF SituationAt
<1>a. PICK p : p = top.proxies /\ top = [hook |-> c.hook, proxies |-> p, in |-> "proxy"]
  BY <1>5
<1>7. Promise!Push(t, [hook |-> c.hook, proxies |-> top.proxies \cup ({c.fn} \cap Funcs),
                       in |-> IF c.fn \in Origs THEN "orig" ELSE "proxy"])
  <2>1. SameCalls(cs, cs)
    BY DEF SameCalls
  <2>2. Promise!Push(t, SituationAt(Append(cs, c), n + 1))
    BY <1>1, <1>2, <2>1, PushStep
  <2> QED BY <1>1, <1>2, <2>2, SituationNext
<1>8. c.fn \in Funcs \cup Origs
  BY DEF Call
<1>9. CASE c.fn \in Funcs
  <2>1. c.fn \notin top.proxies
    BY <1>2, <1>9, NextIsNew
  <2> HIDE DEF top
  <2>2. [hook |-> c.hook, proxies |-> top.proxies \cup ({c.fn} \cap Funcs), in |-> IF c.fn \in Origs THEN "orig" ELSE "proxy"]
           = [top EXCEPT !.proxies = @ \cup {c.fn}]
    <3>1. {c.fn} \cap Funcs = {c.fn} /\ c.fn \notin Origs
      BY <1>9
    <3>2. [top EXCEPT !.proxies = top.proxies \cup {c.fn}]
            = [hook |-> c.hook, proxies |-> top.proxies \cup {c.fn}, in |-> "proxy"]
      BY <1>a, SituationChanged
    <3> QED BY <3>1, <3>2
  <2>3. Promise!Push(t, [top EXCEPT !.proxies = @ \cup {c.fn}])
    BY <1>7, <2>2
  <2>4. top.in = "proxy"
    BY <1>5
  <2>5. Promise!NextProxy(t, c.fn)
    BY <1>4, <2>1, <2>3, <2>4 DEF Promise!NextProxy
  <2> QED BY <1>9, <2>5 DEF Promise!Next
<1>10. CASE c.fn \in Origs
  <2> HIDE DEF top
  <2>1. [hook |-> c.hook, proxies |-> top.proxies \cup ({c.fn} \cap Funcs), in |-> IF c.fn \in Origs THEN "orig" ELSE "proxy"]
           = [top EXCEPT !.in = "orig"]
    <3>1. top.proxies \cup ({c.fn} \cap Funcs) = top.proxies /\ c.fn \in Origs
      BY <1>10
    <3>2. [top EXCEPT !.in = "orig"]
            = [hook |-> c.hook, proxies |-> top.proxies, in |-> "orig"]
      BY <1>a, SituationChanged
    <3> QED BY <3>1, <3>2
  <2>2. Promise!Push(t, [top EXCEPT !.in = "orig"])
    BY <1>7, <2>1
  <2>3. top.in = "proxy"
    BY <1>5
  <2>4. Promise!NextOrig(t)
    BY <1>4, <2>2, <2>3 DEF Promise!NextOrig
  <2> QED BY <2>4 DEF Promise!Next
<1> QED BY <1>8, <1>9, <1>10

LEMMA ReturnsPromised ==
    ASSUME PInv, NEW t \in Threads, Returns(t)
    PROVE  Promise!Next
<1>1. calls \in [Threads -> Seq(Call)] /\ calls[t] \in Seq(Call) /\ calls[t] # <<>>
  BY DEF PInv, CInv, IInv, TypeOK, Returns
<1>2. Situations(calls[t]) # <<>> /\ Situations(Rest(calls[t])) = Rest(Situations(calls[t]))
  BY <1>1, SituationsRest
<1>3. Active[t] = Situations(calls[t]) /\ Active' = [Active EXCEPT ![t] = Rest(Active[t])]
  BY <1>1, <1>2, ActiveStep DEF Returns
<1>4. Promise!Return(t)
  BY <1>2, <1>3 DEF Promise!Return, Promise!Outer, Rest, Active
<1> QED BY <1>4 DEF Promise!Next

LEMMA LeavesPromised ==
    ASSUME PInv, NEW t \in Threads, Leaves(t)
    PROVE  Promise!Next
<1>1. calls \in [Threads -> Seq(Call)]
  BY DEF PInv, CInv, IInv, TypeOK
<1>2. Active' = [Active EXCEPT ![t] = <<>>]
  BY <1>1, NoSituations, ActiveStep DEF Leaves
<1>3. Promise!Exit(t)
  BY <1>2 DEF Promise!Exit, Active
<1> QED BY <1>3 DEF Promise!Next

LEMMA StaysPromised ==
    ASSUME PInv, NEW t \in Threads, Stays(t)
    PROVE  Active' = Active
<1>1. calls \in [Threads -> Seq(Call)] /\ calls[t] \in Seq(Call)
  BY DEF PInv, CInv, IInv, TypeOK
<1>2. PICK cs \in Seq(Call) : SameCalls(calls[t], cs) /\ calls' = [calls EXCEPT ![t] = cs]
  BY DEF Stays
<1>3. Situations(cs) = Active[t] /\ Active' = [Active EXCEPT ![t] = Situations(cs)]
  BY <1>1, <1>2, SituationsSame, ActiveStep
<1> QED BY <1>3 DEF Active

LEMMA StepPromised ==
    ASSUME PInv, OwnFunctions, [Next]_vars
    PROVE  Promise!Next \/ Active' = Active
<1>1. CASE UNCHANGED calls
  BY <1>1 DEF Active, Situations, SituationAt, ChainTo
<1> QED BY <1>1, StepOfCalls, BeginsPromised, GoesOnPromised, ReturnsPromised, LeavesPromised,
           StaysPromised DEF CallStep, PInv

LEMMA InitPromised == Init => Promise!Init
<1> SUFFICES ASSUME Init PROVE Promise!Init
  OBVIOUS
<1>1. \A t \in Threads : calls[t] = <<>>
  BY DEF Init
<1> QED BY <1>1, NoSituations DEF Promise!Init

\* Where every task has a function of its own, the calls through the
\* trampolines are what callers of a hooked function are promised: whatever the
\* lists, the stacks and the other threads do, a hooked call runs each proxy at
\* most once and the original function innermost, and none of its proxies is
\* entered again from inside them.
THEOREM PromiseKept ==
    ASSUME OwnFunctions
    PROVE  Spec => KeepsPromise
<1>1. PInv /\ [Next]_vars => [Promise!Next]_([t \in Threads |-> Situations(calls[t])])
  BY StepPromised DEF Active
<1> QED BY <1>1, InitPromised, PromiseInvariant, PTL DEF Spec, KeepsPromise, Promise!Spec

=============================================================================
