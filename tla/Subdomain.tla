------------------------------ MODULE Subdomain ------------------------------
(***************************************************************************)
(* The subdomain contract (contracts/subdomain/src/lib.rs), composed with  *)
(* the registry it reads parent names from.  A namespace whose parent is   *)
(* no longer active is purged the first time a query meets it; a call that *)
(* fails because of it leaves the namespace as it is, since the host rolls *)
(* the purge back together with the call.                                  *)
(*                                                                         *)
(* created_at, which no code reads, is left out.  The index lists hold no  *)
(* name twice and nothing depends on their order: they are sets.           *)
(***************************************************************************)
EXTENDS Registry

CONSTANTS
    Subs,               \* names of the form label.parent
    ParentOf,           \* their base name
    LabelDepth,         \* number of labels in front of it
    SubdomainAdmins,    \* accounts that may be made the administrator
    Depths,             \* limits the administrator may choose
    DefaultDepth        \* limit before set_max_depth

ParentDomain == [owner : Addresses, controllers : SUBSET Addresses]
SubdomainRecord == [parent : Names, owner : Addresses]

ASSUME SubdomainAssumption ==
    /\ ParentOf \in [Subs -> Names]
    /\ LabelDepth \in [Subs -> Nat]
    /\ SubdomainAdmins \subseteq Addresses
    /\ Depths \cup {DefaultDepth} \subseteq Nat
    /\ NONE \notin ParentDomain \cup SubdomainRecord

VARIABLES
    parents,            \* DataKey::Parent
    subdomains,         \* DataKey::Subdomain
    parent_subdomains,  \* DataKey::ParentSubdomains
    owner_subdomains,   \* DataKey::OwnerSubdomains
    max_depth,          \* DataKey::MaxDepth
    subdomain_registry, \* DataKey::RegistryContract is set (to REGISTRY)
    subdomain_admin     \* DataKey::Admin

namespaceVars == << parents, subdomains, parent_subdomains, owner_subdomains >>
settingVars == << max_depth, subdomain_registry, subdomain_admin >>
subdomainVars == << namespaceVars, settingVars >>
systemVars == << vars, subdomainVars >>

SubdomainTypeOK ==
    /\ parents \in [Names -> ParentDomain \cup {NONE}]
    /\ subdomains \in [Subs -> SubdomainRecord \cup {NONE}]
    /\ parent_subdomains \in [Names -> SUBSET Subs]
    /\ owner_subdomains \in [Addresses -> SUBSET Subs]
    /\ max_depth \in Nat
    /\ subdomain_registry \in BOOLEAN
    /\ subdomain_admin \in SubdomainAdmins \cup {NONE}

SubdomainInit ==
    /\ Init
    /\ parents = [p \in Names |-> NONE]
    /\ subdomains = [s \in Subs |-> NONE]
    /\ parent_subdomains = [p \in Names |-> {}]
    /\ owner_subdomains = [a \in Addresses |-> {}]
    /\ max_depth = DefaultDepth
    /\ subdomain_registry = FALSE
    /\ subdomain_admin = NONE

-----------------------------------------------------------------------------
(* Helpers of the contract. *)

HasParent(p) == parents[p] # NONE
Exists(s) == subdomains[s] # NONE

\* ensure_parent_is_active, without the purge it makes otherwise.
parent_is_active(p) == subdomain_registry => name_state(p, clock) = "Active"

\* get_parent succeeds.
parent_usable(p) == parent_is_active(p) /\ HasParent(p)

controls(p, caller) == caller = parents[p].owner \/ caller \in parents[p].controllers

\* Faulty variant: the records of the subdomains stay.
purge_index_only(p, found, record) ==
    /\ parent_subdomains' = [parent_subdomains EXCEPT ![p] = {}]
    /\ parents' = [parents EXCEPT ![p] = record]
    /\ UNCHANGED << subdomains, owner_subdomains >>

\* purge_parent_namespace, and purge_subdomain_record for the subdomains found
\* otherwise; then the parent's record becomes record.
purge_parent_namespace(p, found, record) ==
    LET gone == {s \in parent_subdomains[p] \cup found : Exists(s)}
    IN  /\ subdomains' = [s \in Subs |-> IF s \in gone THEN NONE ELSE subdomains[s]]
        /\ owner_subdomains' = [a \in Addresses |->
              owner_subdomains[a] \ {s \in gone : subdomains[s].owner = a}]
        /\ parent_subdomains' = [parent_subdomains EXCEPT ![p] = {}]
        /\ parents' = [parents EXCEPT ![p] = record]

\* Faulty variant: the addition precedes the removal.
reindex_owner_subdomain_swapped(old_owner, new_owner, s) ==
    [owner_subdomains EXCEPT ![new_owner] = @ \cup {s}, ![old_owner] = @ \ {s}]

\* remove_owner_subdomain, then add_owner_subdomain.
reindex_owner_subdomain(old_owner, new_owner, s) ==
    [owner_subdomains EXCEPT ![old_owner] = @ \ {s}, ![new_owner] = @ \cup {s}]

\* What every entrypoint leaves alone.
SubdomainCall(caller) ==
    /\ invoker' = caller
    /\ UNCHANGED << clock, storeVars, configVars, nftVars, resolverVars >>

-----------------------------------------------------------------------------
(* Configuration. *)

SubdomainInitialize(a) ==
    /\ SubdomainCall(NONE)
    /\ subdomain_admin = NONE
    /\ subdomain_admin' = a
    /\ max_depth' = DefaultDepth
    /\ UNCHANGED << namespaceVars, subdomain_registry >>

SetRegistryContract ==
    /\ SubdomainCall(subdomain_admin)
    /\ subdomain_admin # NONE
    /\ subdomain_registry' = TRUE
    /\ UNCHANGED << namespaceVars, max_depth, subdomain_admin >>

SetMaxDepth(depth) ==
    /\ SubdomainCall(subdomain_admin)
    /\ subdomain_admin # NONE
    /\ max_depth' = depth
    /\ UNCHANGED << namespaceVars, subdomain_registry, subdomain_admin >>

-----------------------------------------------------------------------------
(* Parents and their controllers. *)

\* With a registry, the owner it reports takes the namespace over from another
\* owner, who loses every subdomain; without one, the first comer has it.
RegisterParent(p, owner) ==
    LET record == [owner |-> owner, controllers |-> {}]
    IN  /\ SubdomainCall(owner)
        /\ IF subdomain_registry
           THEN /\ resolve_ok(p, clock)
                /\ entries[p].owner = owner
                /\ HasParent(p) => parents[p].owner # owner
           ELSE ~HasParent(p)
        /\ IF HasParent(p)
           THEN purge_parent_namespace(p, {}, record)
           ELSE /\ parents' = [parents EXCEPT ![p] = record]
                /\ UNCHANGED << subdomains, parent_subdomains, owner_subdomains >>
        /\ UNCHANGED settingVars

SetControllers(p, caller, controllers) ==
    /\ SubdomainCall(caller)
    /\ parent_usable(p)
    /\ parents[p].owner = caller
    /\ parents' = [parents EXCEPT ![p].controllers = controllers]
    /\ UNCHANGED << subdomains, parent_subdomains, owner_subdomains, settingVars >>

AddController(p, caller, controller) ==
    HasParent(p) /\ SetControllers(p, caller, parents[p].controllers \cup {controller})

RemoveController(p, caller, controller) ==
    HasParent(p) /\ SetControllers(p, caller, parents[p].controllers \ {controller})

-----------------------------------------------------------------------------
(* Subdomains. *)

Create(s, caller, owner) ==
    LET p == ParentOf[s]
    IN  /\ SubdomainCall(caller)
        /\ parent_usable(p)
        /\ controls(p, caller)
        /\ LabelDepth[s] <= max_depth
        /\ ~Exists(s)
        /\ subdomains' = [subdomains EXCEPT ![s] = [parent |-> p, owner |-> owner]]
        /\ parent_subdomains' = [parent_subdomains EXCEPT ![p] = @ \cup {s}]
        /\ owner_subdomains' = [owner_subdomains EXCEPT ![owner] = @ \cup {s}]
        /\ UNCHANGED << parents, settingVars >>

TransferSubdomain(s, caller, new_owner) ==
    /\ SubdomainCall(caller)
    /\ Exists(s)
    /\ parent_is_active(subdomains[s].parent)
    /\ subdomains[s].owner = caller
    /\ subdomains' = [subdomains EXCEPT ![s].owner = new_owner]
    /\ owner_subdomains' = reindex_owner_subdomain(caller, new_owner, s)
    /\ UNCHANGED << parents, parent_subdomains, settingVars >>

\* Faulty variant: anyone may delete a subdomain of an active parent.
may_delete_any(s, caller) == parent_is_active(subdomains[s].parent)

may_delete(s, caller) ==
    /\ parent_is_active(subdomains[s].parent)
    /\ \/ subdomains[s].owner = caller
       \/ HasParent(subdomains[s].parent) /\ controls(subdomains[s].parent, caller)

\* delete and revoke.
Delete(s, caller) ==
    LET p == subdomains[s].parent
        a == subdomains[s].owner
    IN  /\ SubdomainCall(caller)
        /\ Exists(s)
        /\ may_delete(s, caller)
        /\ parent_subdomains' = [parent_subdomains EXCEPT ![p] = @ \ {s}]
        /\ owner_subdomains' = [owner_subdomains EXCEPT ![a] = @ \ {s}]
        /\ subdomains' = [subdomains EXCEPT ![s] = NONE]
        /\ UNCHANGED << parents, settingVars >>

\* parent, subdomains_for_parent: queries that anyone may make, and that write
\* only when they meet a parent that is not active.
QueryParent(p) ==
    /\ SubdomainCall(NONE)
    /\ ~parent_is_active(p)
    /\ purge_parent_namespace(p, {}, NONE)
    /\ UNCHANGED settingVars

\* record, exists.
QueryRecord(s) ==
    /\ SubdomainCall(NONE)
    /\ Exists(s)
    /\ ~parent_is_active(subdomains[s].parent)
    /\ purge_parent_namespace(subdomains[s].parent, {s}, NONE)
    /\ UNCHANGED settingVars

-----------------------------------------------------------------------------
SubdomainNext ==
    \/ \E a \in SubdomainAdmins : SubdomainInitialize(a)
    \/ SetRegistryContract
    \/ \E d \in Depths : SetMaxDepth(d)
    \/ \E p \in Names :
        \/ QueryParent(p)
        \/ \E a \in Users : RegisterParent(p, a)
        \/ \E a, b \in Users : AddController(p, a, b) \/ RemoveController(p, a, b)
    \/ \E s \in Subs :
        \/ QueryRecord(s)
        \/ \E a \in Users : Delete(s, a)
        \/ \E a, b \in Users : Create(s, a, b) \/ TransferSubdomain(s, a, b)

SystemNext ==
    \/ SubdomainNext
    \/ Next /\ UNCHANGED subdomainVars

SystemSpec == SubdomainInit /\ [][SystemNext]_systemVars

-----------------------------------------------------------------------------
(* Safety. *)

\* The listings by parent and by owner hold exactly the subdomains there are,
\* through creations, transfers, deletions, purges and takeovers of a parent; the
\* parent record a subdomain was created under exists as long as it does.
SubdomainIndexExact ==
    /\ \A s \in Subs : Exists(s) => HasParent(subdomains[s].parent)
    /\ \A p \in Names, s \in Subs :
        s \in parent_subdomains[p] <=> Exists(s) /\ subdomains[s].parent = p
    /\ \A a \in Addresses, s \in Subs :
        s \in owner_subdomains[a] <=> Exists(s) /\ subdomains[s].owner = a

\* A namespace starts empty: when the record of a parent goes or gets another
\* owner, in whatever call noticed it, no subdomain of the old one is left.
NamespaceStartsEmpty ==
    [][\A p \in Names :
        /\ HasParent(p)
        /\ parents'[p] # NONE => parents'[p].owner # parents[p].owner
        => \A s \in Subs : ParentOf[s] = p => ~Exists(s)' ]_systemVars

\* While its parent stays active and in the same hands, a subdomain is handed on
\* only by its own owner and disappears only by its owner's or the parent's
\* controllers' authority.
SubdomainConsent ==
    [][\A s \in Subs, p \in Names :
        Exists(s) /\ subdomains[s].parent = p /\ parent_is_active(p) =>
            /\ Exists(s)' /\ subdomains'[s] # subdomains[s] => invoker' = subdomains[s].owner
            /\ ~Exists(s)' =>
                \/ invoker' = subdomains[s].owner
                \/ HasParent(p) /\ controls(p, invoker')
                \/ /\ HasParent(p) /\ HasParent(p)'
                   /\ parents'[p].owner # parents[p].owner
                   /\ Registered(p) /\ parents'[p].owner = entries[p].owner ]_systemVars

=============================================================================
