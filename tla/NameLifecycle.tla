---------------------------- MODULE NameLifecycle ----------------------------
(***************************************************************************)
(* What the registry promises about a name, without indexes, locks, NFTs   *)
(* and resolvers: a name is free or held by one owner until the end of its *)
(* grace period; it is handed over while active, extended until the grace  *)
(* period ends, given up, and acquired by somebody else only afterwards.   *)
(* Skew is the tolerance between the ledger clock and a caller's.          *)
(***************************************************************************)
EXTENDS Naturals

CONSTANTS Names, Owners, Times, Skew, NONE

VARIABLES clock, holding

Holding == [owner : Owners, expires : Times, ends : Times]

Init ==
    /\ clock = 0
    /\ holding = [n \in Names |-> NONE]

Held(n) == holding[n] # NONE

\* Only the holding of n may change.
Only(n) == holding' = [holding EXCEPT ![n] = holding'[n]] /\ UNCHANGED clock

Pass == clock' = clock + 1 /\ UNCHANGED holding

Acquire(n) ==
    /\ Only(n)
    /\ Held(n) => clock + Skew > holding[n].ends
    /\ holding'[n] \in Holding
    /\ clock <= holding'[n].expires + Skew
    /\ holding'[n].expires <= holding'[n].ends

HandOver(n) ==
    /\ Only(n)
    /\ Held(n)
    /\ clock <= holding[n].expires + Skew
    /\ \E o \in Owners : holding'[n] = [holding[n] EXCEPT !.owner = o]

Extend(n) ==
    /\ Only(n)
    /\ Held(n)
    /\ clock <= holding[n].ends + Skew
    /\ holding'[n] \in Holding
    /\ holding'[n].owner = holding[n].owner
    /\ holding'[n].expires >= holding[n].expires
    /\ holding'[n].ends >= holding[n].ends
    /\ clock <= holding'[n].expires + Skew
    /\ holding'[n].expires <= holding'[n].ends

Release(n) == Only(n) /\ Held(n) /\ holding'[n] = NONE

Next == Pass \/ \E n \in Names : Acquire(n) \/ HandOver(n) \/ Extend(n) \/ Release(n)

Spec == Init /\ [][Next]_<< clock, holding >>

=============================================================================
