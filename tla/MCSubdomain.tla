---------------------------- MODULE MCSubdomain -----------------------------
(* Small instances of Subdomain for TLC. *)
EXTENDS Subdomain, TLC

NoParents == [n \in Names |-> NONE]
BaseNames == {"timmy.xlm"}
SubNames == {"pay.timmy.xlm", "eu.pay.timmy.xlm"}
Bases == [s \in SubNames |-> "timmy.xlm"]
LabelCounts == [s \in SubNames |-> IF s = "pay.timmy.xlm" THEN 1 ELSE 2]

Symmetry == Permutations(Users)

\* No guard reads invoker, and the properties read it only in the state a step
\* leads to: states are explored up to it.
NoInvoker == << clock, storeVars, configVars, nftVars, resolverVars, subdomainVars >>

=============================================================================
