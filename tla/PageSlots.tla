------------------------------ MODULE PageSlots ------------------------------
(* What the browser pool promises its callers, with none of its machinery:   *)
(* at most MaxPages calls hold a page slot, and a slot that was taken is     *)
(* given back, whatever happens to the call, the browser or the tab.  The    *)
(* fan-outs promise the same of the network, with fetches for calls.         *)
EXTENDS Naturals, FiniteSets

CONSTANTS
    Request,        \* the calls that may want a page at the same time
    MaxPages        \* BrowserSettings::max_pages

VARIABLE holders    \* the calls that own a slot now

Init == holders = {}

Take(r) ==
    /\ r \notin holders
    /\ Cardinality(holders) < MaxPages
    /\ holders' = holders \cup {r}

Give(r) ==
    /\ r \in holders
    /\ holders' = holders \ {r}

Next == \E r \in Request : Take(r) \/ Give(r)

(* The safety half, which the proofs show of the pool and of the fan-outs.   *)
Safety == Init /\ [][Next]_holders

(* The whole promise: a slot is never kept for ever, and a call gives it     *)
(* back without help from the other calls.                                   *)
Spec == Safety /\ \A r \in Request : WF_holders(Give(r))
=============================================================================
