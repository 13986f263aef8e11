------------------------------ MODULE ShTrampo ------------------------------
(***************************************************************************)
(* The trampoline memory manager of shadowhook (common/sh_trampo.cpp).       *)
(* Anonymous executable pages are cut into slots of one size; a caller asks  *)
(* for a slot within reach of a hint, gives it back later, and the slot      *)
(* rests for a delay before it is handed out again, for threads may still be *)
(* running in it.  Each operation is atomic under pages_lock.                *)
(***************************************************************************)
EXTENDS Integers, Sequences

CONSTANTS
    PageSize,   \* SH_TRAMPO_PAGE_SZ
    Size,       \* trampo_size of the manager, after alignment
    Delay,      \* delay_sec of the manager
    MaxAddr,    \* UINTPTR_MAX
    PageAddrs,  \* addresses mmap may return (external)
    Requests,   \* the [hint, low, high] of the callers
    NowValues,  \* what the tv_sec of an unset struct timeval may hold
    Epoch,      \* the clock when the process starts
    ClockMax    \* bound: the clock stops there

Request == [hint : Nat, low : Nat, high : Nat]

ASSUME SizeAssumption ==
    /\ Size \in Nat \ {0}
    /\ PageSize \in Nat
    /\ Size <= PageSize
    /\ Delay \in Nat
    /\ MaxAddr \in Nat
    /\ PageAddrs \subseteq {p \in 1 .. MaxAddr : p + PageSize <= MaxAddr}
    /\ Requests \subseteq {r \in Request : r.hint <= MaxAddr}
    /\ NowValues \subseteq Int
    /\ Epoch \in Nat
    /\ ClockMax \in Nat

\* The exits, which ask with a hint, have slots that divide a page and branches
\* that reach past the next slot; hubs and enters ask with a hint of 0.
ASSUME ReachAssumption ==
    \A r \in Requests : r.hint = 0 \/ (PageSize % Size = 0 /\ Size <= r.high)

VARIABLES
    pages,    \* the page list, its head first
    busy,     \* page -> the slots whose flag is set
    stamp,    \* page -> slot -> when it was freed, 0 at first
    owned,    \* the slots callers hold, each with the request it answers
    clock,    \* the time of day, in seconds
    aborted   \* abort() was called

vars == <<pages, busy, stamp, owned, clock, aborted>>

Slot == {i \in 0 .. PageSize : Size * (i + 1) <= PageSize}
Addr(p, i) == p + Size * i
MinOf(S) == CHOOSE i \in S : \A j \in S : i <= j
Pages == {pages[n] : n \in DOMAIN pages}

(***************************************************************************)
(* Ranges.  Both distances are cut so that the interval around the hint does *)
(* not wrap; a hint of 0 means anywhere.                                     *)
(***************************************************************************)
From(r) == IF r.low > r.hint THEN 0 ELSE r.hint - r.low
To(r) == IF r.high > MaxAddr - r.hint THEN MaxAddr ELSE r.hint + r.high

\* Mutant: the distance above the hint is not looked at.
InRangeLow(a, r) == r.hint = 0 \/ From(r) <= a

InRange(a, r) == r.hint = 0 \/ (From(r) <= a /\ a <= To(r))

\* A page of the list is searched unless it is clearly out of reach.
Near(p, r) == r.hint = 0 \/ (From(r) <= p + PageSize - Size /\ p <= To(r))

\* Mutant: the page mmap returned is used wherever it is.
UsableAnyhow(p, r) == TRUE

\* A new page is kept when its first or a later slot is in reach.
Usable(p, r) == r.hint = 0 \/ (From(r) < p + PageSize - Size /\ p <= To(r))

(***************************************************************************)
(* sh_trampo_alloc                                                           *)
(***************************************************************************)
\* The time the slot has rested, by the clock the allocation believes in.
Rested(p, i, now) == Delay = 0 \/ (stamp[p][i] < now /\ Delay < now - stamp[p][i])

\* Mutant: the flag of the slot is not looked at.
FitsBusy(p, i, r, now) == Rested(p, i, now) /\ InRange(Addr(p, i), r)

Fits(p, i, r, now) == i \notin busy[p] /\ Rested(p, i, now) /\ InRange(Addr(p, i), r)

\* The positions in the list of the pages that have a slot for the request.
Hits(r, now) ==
    {n \in DOMAIN pages : Near(pages[n], r) /\ \E i \in Slot : Fits(pages[n], i, r, now)}

\* The first slot that fits, of the first page that has one.
Reuse(r, now) ==
    /\ Hits(r, now) # {}
    /\ LET p == pages[MinOf(Hits(r, now))]
           i == MinOf({s \in Slot : Fits(p, s, r, now)})
       IN  /\ busy' = [busy EXCEPT ![p] = @ \cup {i}]
           /\ owned' = owned \cup {[at |-> Addr(p, i), for |-> r]}
    /\ UNCHANGED <<pages, stamp, clock, aborted>>

\* What mmap may return: memory that is not in use.
Fresh(p) == \A q \in Pages : p + PageSize <= q \/ q + PageSize <= p

\* Without a slot that fits, a new page is put at the head of the list and its
\* first slot in reach is taken; a page in reach has one, or the program aborts.
NewPage(r, now) ==
    /\ Hits(r, now) = {}
    /\ \E p \in PageAddrs :
        /\ Fresh(p)
        /\ Usable(p, r)
        /\ LET reach == {i \in Slot : InRange(Addr(p, i), r)}
               take == IF reach = {} THEN {} ELSE {MinOf(reach)}
           IN  /\ busy' = [busy EXCEPT ![p] = take]
               /\ owned' = owned \cup {[at |-> Addr(p, i), for |-> r] : i \in take}
               /\ aborted' = (reach = {})
        /\ stamp' = [stamp EXCEPT ![p] = [i \in Slot |-> 0]]
        /\ pages' = <<p>> \o pages
    /\ UNCHANGED clock

\* No page, one out of reach, or no memory for its record: 0 is returned and
\* nothing is kept.
AllocFails(r, now) == Hits(r, now) = {} /\ UNCHANGED vars

\* The allocation takes its time from a struct timeval that settimeofday was
\* given to read, so that it holds whatever was on the stack.
Alloc == \E r \in Requests, now \in NowValues :
    Reuse(r, now) \/ NewPage(r, now) \/ AllocFails(r, now)

(***************************************************************************)
(* sh_trampo_free                                                            *)
(***************************************************************************)
\* Mutant: the slot is counted from the end of the page.
IndexFromEnd(p, a) == (p + PageSize - a) \div Size

\* The slot of its page that an address lies in.
Index(p, a) == (a - p) \div Size

\* Mutant: the end of the rest is written, not its beginning.
FreedAtExpiry == clock + Delay

\* The time written for a freed slot, read just before pages_lock is taken.
FreedAt == clock

Free ==
    \E x \in owned :
        LET p == CHOOSE q \in Pages : q <= x.at /\ x.at < q + PageSize
            i == Index(p, x.at)
        IN  /\ busy' = [busy EXCEPT ![p] = @ \ {i}]
            /\ stamp' = IF Delay > 0 THEN [stamp EXCEPT ![p][i] = FreedAt] ELSE stamp
            /\ owned' = owned \ {x}
            /\ UNCHANGED <<pages, clock, aborted>>

Tick == clock < ClockMax /\ clock' = clock + 1 /\ UNCHANGED <<pages, busy, stamp, owned, aborted>>

(***************************************************************************)
(* Specification                                                             *)
(***************************************************************************)
Init ==
    /\ pages = <<>>
    /\ busy = [p \in PageAddrs |-> {}]
    /\ stamp = [p \in PageAddrs |-> [i \in Slot |-> 0]]
    /\ owned = {}
    /\ clock = Epoch
    /\ aborted = FALSE

Next == ~aborted /\ (Alloc \/ Free \/ Tick)

Spec == Init /\ [][Next]_vars

(***************************************************************************)
(* Properties                                                                *)
(***************************************************************************)
\* Every variable has its type, and no slot was freed in the future.
TypeOK ==
    /\ pages \in Seq(PageAddrs)
    /\ busy \in [PageAddrs -> SUBSET Slot]
    /\ stamp \in [PageAddrs -> [Slot -> 0 .. clock]]
    /\ owned \subseteq [at : Nat, for : Requests]
    /\ clock \in Nat
    /\ aborted \in BOOLEAN

\* The slots that callers hold lie inside mapped pages and do not overlap,
\* however allocations and frees alternate.
Disjoint ==
    /\ \A x \in owned : \E p \in Pages : p <= x.at /\ x.at + Size <= p + PageSize
    /\ \A x, y \in owned : x # y => x.at + Size <= y.at \/ y.at + Size <= x.at

\* A flag is set exactly while a caller holds the slot: no free clears the
\* flag of another slot, and none leaves a slot lost.
FlagsMatch ==
    {x.at : x \in owned} = UNION {{Addr(p, i) : i \in busy[p]} : p \in Pages}

\* Whoever asked for a slot near its code can reach the slot with one branch.
Reached ==
    \A x \in owned : x.for.hint = 0 \/ x.at \in x.for.hint - x.for.low .. x.for.hint + x.for.high

\* The page that was accepted always has a slot in reach.
NeverAborts == ~aborted

\* A slot given back is not handed out again before its delay has passed
\* (the check of the timestamps in sh_trampo_alloc).
Quarantine ==
    [][\A p \in Pages : \A i \in busy'[p] \ busy[p] : Delay < clock - stamp[p][i]]_vars

=============================================================================
