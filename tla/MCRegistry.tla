----------------------------- MODULE MCRegistry -----------------------------
(* Small instances of Registry for TLC. *)
EXTENDS Registry, TLC

\* No name of the instance has a parent in it.
NoParents == [n \in Names |-> NONE]

\* A name, a subdomain of it and a subdomain of that.
NestedNames == {"timmy.xlm", "pay.timmy.xlm", "eu.pay.timmy.xlm"}
NestedParent ==
    [n \in NestedNames |->
        CASE n = "eu.pay.timmy.xlm" -> "pay.timmy.xlm"
          [] n = "pay.timmy.xlm" -> "timmy.xlm"
          [] OTHER -> NONE]

\* Names and accounts are interchangeable where no constant singles one out.
Symmetry == Permutations(Names) \cup Permutations(Users)

\* No guard reads invoker: a run whose properties do not mention it explores
\* the states up to it.
NoInvoker == << clock, storeVars, configVars, nftVars, resolverVars >>

\* Nor does anything but resolve read wildcard, on which no reverse mapping
\* depends.
NoWildcard ==
    << clock, storeVars, configVars, nftVars, forward, reverse, primary, resolver_registry >>

-----------------------------------------------------------------------------
(* Statements of the repository's documents and comments that do not hold. *)

\* The NFT of a name and the name have one owner: "Registry and NFT contract must
\* coordinate ownership updates", and the NFT's transfer says it updates the
\* registry "to keep ownership in sync".
TokenOwnerIsNameOwner ==
    \A n \in Names : Minted(n) /\ Registered(n) => tokens[n].owner = entries[n].owner

\* "If the owners do not match (due to a name being transferred or expiring and
\* being re-claimed by a new user): The Resolver rejects the query": when the
\* registry's owner of a name moves away from the owner of its record, the name
\* stops resolving to that record.
ResolveRejectsDrift ==
    [][\A n \in Names :
        /\ resolver_registry /\ HasRecord(n)
        /\ Registered(n) /\ forward[n].owner = entries[n].owner
        /\ Registered(n)' /\ forward'[n] = forward[n] /\ entries'[n].owner # forward[n].owner
        => (resolve_with_fallback(n))' # n ]_vars

=============================================================================
