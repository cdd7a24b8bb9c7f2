----------------------------- MODULE MCRegistrar -----------------------------
(* Small instances of Registrar for TLC. *)
EXTENDS Registrar, TLC

NoParents == [n \in Names |-> NONE]

\* Short names cost more, long ones less.
Prices == [short |-> 2, middle |-> 1, long |-> 1]
Lengths == [n \in Labels |-> 3]
OnePerWindow == [window |-> 2, max |-> 1]

Symmetry == Permutations(Names) \cup Permutations(Users)

\* No guard reads invoker.
NoInvoker ==
    << clock, storeVars, configVars, nftVars, resolverVars, registrarVars >>

-----------------------------------------------------------------------------
(* Statements of the repository's documents and comments that do not hold. *)

\* The rate limit of the registrar: an address that is not whitelisted holds at
\* most max registrations younger than the window.
RateLimitHolds ==
    \A a \in Addresses \ whitelisted :
        Cardinality({n \in Labels :
            /\ Issued(n)
            /\ registrations[n].owner = a
            /\ registrations[n].registered_at + rate_limit_config.window > clock})
        <= rate_limit_config.max

\* During the grace period "only the current owner may renew": the owner the
\* registry reports can renew through the registrar until the name is claimable.
OwnerCanRenew ==
    \A n \in Labels :
        /\ Registered(n)
        /\ clock <= entries[n].grace_period_ends_at
        /\ locks[n] # NONE => locks[n] < clock
        => ENABLED RegistrarRenew(n, entries[n].owner, 1, fee_due(n, 1), clock)

=============================================================================
