---------------------------- MODULE MCShTrampo ----------------------------
(***************************************************************************)
(* A small instance of ShTrampo: pages of two slots of four bytes, a caller  *)
(* that takes any slot, one that reaches backwards and one that reaches past *)
(* the end of the address space.                                             *)
(***************************************************************************)
EXTENDS ShTrampo

FewPages == {16, 28}

\* Any slot; the first slot of the first page; the second slot of the first page and up,
\* with a distance that passes the end of the address space.
ThreeRequests == {[hint |-> 0, low |-> 0, high |-> 0],
                  [hint |-> 14, low |-> 30, high |-> 4],
                  [hint |-> 22, low |-> 4, high |-> 100]}

=============================================================================
