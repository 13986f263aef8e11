--------------------------- MODULE MCHookManager ---------------------------
(***************************************************************************)
(* Small instances of HookManager: library e1 is there from the start, e2    *)
(* is opened later; e3 is used where an instance needs a third one.          *)
(***************************************************************************)
EXTENDS MCElfImages

CONSTANTS c1, l1, e1, e2, e3, g1, g2, g3, o1, o2, a, b, fa, fb

\* The symbol is f.  The first library calls it; the second one, whose
\* relocations are packed, keeps pointers to it.
LibraryOf ==
    e1 :> Image(<<Function("f", "func", TRUE, Uses(1, 0, 0))>>, {"gnu"}, NotPacked, 1000)
    @@ e2 :> Image(<<Function("f", "func", TRUE, Uses(0, 1, 1))>>, {"sysv", "gnu"}, {"info"}, 2000)
GotAt == 1048 :> g1 @@ 2548 :> g2 @@ 2648 :> g3
ApartGots == [e \in {e1, e2} |->
    LET found == ImportSlots(LibraryOf[e].img, "f") IN [i \in DOMAIN found |-> GotAt[found[i]]]]
OneOrig == g1 :> o1 @@ g2 :> o1 @@ g3 :> o1

\* a is for every library, b for the second one.
TwoCallers == a :> {e1, e2} @@ b :> {e2}
TwoFuncs == a :> fa @@ b :> fb

\* The entries of the two libraries hold different functions.
TwoOrigs == g1 :> o1 @@ g2 :> o2 @@ g3 :> o2

\* In manual mode a is alone with its entries; e3 does not use the symbol.
SomeGots == e1 :> <<g1>> @@ e2 :> <<g2, g3>> @@ e3 :> <<>>
AloneCallers == a :> {e1, e2, e3} @@ b :> {e3}

\* e3 is e2 opened again at the same addresses.
ReusedGots == e1 :> <<g1>> @@ e2 :> <<g2>> @@ e3 :> <<g2>>
AllCallers == a :> {e1, e2, e3} @@ b :> {e1, e2, e3}

=============================================================================
