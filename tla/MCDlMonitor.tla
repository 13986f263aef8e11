---------------------------- MODULE MCDlMonitor ----------------------------
(***************************************************************************)
(* Two threads.  Each opens and closes a library of its own, and the          *)
(* constructor of one of them opens a third library, which stays.  Two tasks  *)
(* are hooked by whichever thread gets there first, and one thread may add a   *)
(* dlopen callback before them.                                               *)
(***************************************************************************)
EXTENDS DlMonitor, TLC

CONSTANTS t1, t2, libc, la, lb, lc, a, b

TwoOwners == t1 :> {la} @@ t2 :> {lb}
TwoMaps == libc :> 1 @@ la :> 2 @@ lb :> 1 @@ lc :> 1
OneCtor == libc :> {} @@ la :> {lc} @@ lb :> {} @@ lc :> {}

=============================================================================
