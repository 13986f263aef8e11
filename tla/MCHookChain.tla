---------------------------- MODULE MCHookChain ----------------------------
(***************************************************************************)
(* Small instances of HookChain.  In MCHookChain.cfg and                     *)
(* MCHookChainThreads.cfg every task has a function of its own; in           *)
(* MCHookChainPromise.cfg two tasks, and in MCHookChainShared.cfg three,     *)
(* install the same one.                                                     *)
(***************************************************************************)
EXTENDS HookChain, TLC

CONSTANTS t1, t2, h1, h2, h3, o1, o2, o3, fa, fb, a, b, c, d, s1

\* Two GOT entries of one function, and one of another.
ThreeOrigs == h1 :> o1 @@ h2 :> o2 @@ h3 :> o1
TwoOrigs == h1 :> o1 @@ h2 :> o2
OneOrig == h1 :> o1

\* a hooks every GOT entry, b one of them.
OwnFuncs == a :> fa @@ b :> fb
WideTargets == a :> {h1, h2, h3} @@ b :> {h1}
OneTarget == a :> {h1} @@ b :> {h1}

\* a and c install fa, b installs fb.
PairFuncs == a :> fa @@ b :> fb @@ c :> fa
PairTargets == a :> {h1, h2} @@ b :> {h1} @@ c :> {h1}

\* a, c and d install fa, b installs fb, all on one GOT entry.
SharedFuncs == a :> fa @@ b :> fb @@ c :> fa @@ d :> fa
SharedTargets == a :> {h1} @@ b :> {h1} @@ c :> {h1} @@ d :> {h1}

=============================================================================
