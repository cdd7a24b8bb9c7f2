------------------------------ MODULE Registry ------------------------------
(***************************************************************************)
(* The entrypoints of the registry contract (contracts/registry/src/lib.rs)*)
(* with the calls they make into the NFT and resolver contracts, composed  *)
(* with the entrypoints of those two contracts.                            *)
(***************************************************************************)
EXTENDS Nft, Resolver

ASSUME RegistryAssumption ==
    /\ NftCandidates \subseteq Addresses \cup {NFT}
    /\ NONE \notin Names

vars == << registryVars, nftVars, resolverVars >>

TypeOK == StoreTypeOK /\ NftTypeOK /\ ResolverTypeOK

Init == StoreInit /\ NftInit /\ ResolverInit

-----------------------------------------------------------------------------
(* Helpers of the contract. *)

\* Faulty variant: a lapsed lock is left in place.
ensure_name_unlocked_keep(n, now_unix) ==
    (locks[n] # NONE => locks[n] < now_unix) /\ UNCHANGED locks

\* Faulty variant: the lock ends one second early.
ensure_name_unlocked_early(n, now_unix) ==
    /\ locks[n] # NONE => locks[n] <= now_unix
    /\ locks' = [locks EXCEPT ![n] = NONE]

\* ensure_name_unlocked: a lock that has lapsed is removed on the way.
ensure_name_unlocked(n, now_unix) ==
    /\ locks[n] # NONE => locks[n] < now_unix
    /\ locks' = [locks EXCEPT ![n] = NONE]

\* Faulty variant: the grace period is not compared with the expiry.
validate_expiry_only(now_unix, expires_at, grace_period_ends_at) ==
    is_active_at(expires_at, now_unix)

validate_lifecycle_timestamps(now_unix, expires_at, grace_period_ends_at) ==
    /\ is_active_at(expires_at, now_unix)
    /\ grace_period_ends_at >= expires_at

\* Faulty variant: any caller will do.
ensure_active_only(n, caller, now_unix) == resolve_ok(n, now_unix)

ensure_owner(n, caller, now_unix) ==
    /\ resolve_ok(n, now_unix)
    /\ entries[n].owner = caller

\* Faulty variant: the addition precedes the removal.
reindex_owner_name_swapped(old_owner, new_owner, n) ==
    [owner_names EXCEPT ![new_owner] = @ \cup {n}, ![old_owner] = @ \ {n}]

\* The owner index after the name moves: remove_owner_name, then add_owner_name.
reindex_owner_name(old_owner, new_owner, n) ==
    [owner_names EXCEPT ![old_owner] = @ \ {n}, ![new_owner] = @ \cup {n}]

\* Faulty variant: the counter overflows its type.
wrapping_inc(c) == c + 1

saturating_inc(c) == IF c < U32Max THEN c + 1 ELSE c

\* get_nft_client: no call without an NFT contract; a call to an address that
\* is not a contract fails the invocation.
with_nft(call) ==
    /\ nft_contract \in {NONE, NFT}
    /\ IF nft_contract = NFT THEN call ELSE UNCHANGED tokenVars

\* What every entrypoint leaves alone.
RegistryCall(caller) ==
    /\ invoker' = caller
    /\ UNCHANGED << clock, nft_admin, nft_registry >>

-----------------------------------------------------------------------------
(* Configuration. *)

Initialize(a) ==
    /\ admin = NONE
    /\ admin' = a
    /\ dispute_admin' = a
    /\ RegistryCall(NONE)
    /\ UNCHANGED << nft_contract, storeVars, tokenVars, resolverVars >>

SetNftContract(c) ==
    /\ admin # NONE
    /\ nft_contract' = c
    /\ RegistryCall(admin)
    /\ UNCHANGED << admin, dispute_admin, storeVars, tokenVars, resolverVars >>

SetDisputeAdmin(a) ==
    /\ admin # NONE
    /\ dispute_admin' = a
    /\ RegistryCall(admin)
    /\ UNCHANGED << admin, nft_contract, storeVars, tokenVars, resolverVars >>

-----------------------------------------------------------------------------
(* Names. *)

\* A name with no entry, or with one past its grace period, is taken over.
Register(n, owner, target_address, metadata_uri, now_unix, expires_at, grace_period_ends_at) ==
    /\ RegistryCall(owner)
    /\ ensure_name_unlocked(n, now_unix)
    /\ validate_lifecycle_timestamps(now_unix, expires_at, grace_period_ends_at)
    /\ Registered(n) =>
        /\ ~is_active_at(entries[n].expires_at, now_unix)
        /\ is_claimable_at(entries[n].grace_period_ends_at, now_unix)
    /\ entries' = [entries EXCEPT ![n] =
          [ owner |-> owner, resolver |-> NONE, target_address |-> target_address,
            metadata_uri |-> metadata_uri, registered_at |-> now_unix,
            expires_at |-> expires_at, grace_period_ends_at |-> grace_period_ends_at,
            transfer_count |-> 0 ]]
    /\ owner_names' = IF Registered(n)
                      THEN reindex_owner_name(entries[n].owner, owner, n)
                      ELSE [owner_names EXCEPT ![owner] = @ \cup {n}]
    /\ with_nft(IF Registered(n)
                THEN burn_then_mint(n, owner, metadata_uri, expires_at)
                ELSE ~nft_registry /\ mint(n, owner, metadata_uri, expires_at))
    /\ UNCHANGED << configVars, resolverVars >>

Transfer(n, caller, new_owner, now_unix) ==
    /\ RegistryCall(caller)
    /\ ensure_name_unlocked(n, now_unix)
    /\ ensure_owner(n, caller, now_unix)
    /\ entries' = [entries EXCEPT ![n].owner = new_owner,
                                  ![n].transfer_count = saturating_inc(@)]
    /\ owner_names' = reindex_owner_name(caller, new_owner, n)
    /\ entries[n].resolver \in {NONE, RESOLVER}
    /\ IF entries[n].resolver = RESOLVER
       THEN clear_reverse_record(n, caller)
       ELSE UNCHANGED resolverVars
    /\ with_nft(sync_owner(n, new_owner))
    /\ UNCHANGED configVars

SetResolver(n, caller, resolver, now_unix) ==
    /\ RegistryCall(caller)
    /\ ensure_name_unlocked(n, now_unix)
    /\ ensure_owner(n, caller, now_unix)
    /\ entries' = [entries EXCEPT ![n].resolver = resolver]
    /\ UNCHANGED << owner_names, configVars, tokenVars, resolverVars >>

SetTargetAddress(n, caller, target_address, now_unix) ==
    /\ RegistryCall(caller)
    /\ ensure_name_unlocked(n, now_unix)
    /\ ensure_owner(n, caller, now_unix)
    /\ entries' = [entries EXCEPT ![n].target_address = target_address]
    /\ UNCHANGED << owner_names, configVars, tokenVars, resolverVars >>

SetMetadata(n, caller, metadata_uri, now_unix) ==
    /\ RegistryCall(caller)
    /\ ensure_name_unlocked(n, now_unix)
    /\ ensure_owner(n, caller, now_unix)
    /\ entries' = [entries EXCEPT ![n].metadata_uri = metadata_uri]
    /\ UNCHANGED << owner_names, configVars, tokenVars, resolverVars >>

(***************************************************************************)
(* Meant for the NFT contract, which calls it with the wrong number of     *)
(* arguments (Nft.tla, hand_over): the only caller that can pass the check *)
(* is an account the administrator wired in place of the NFT contract.     *)
(***************************************************************************)
UpdateOwner(n, caller, new_owner) ==
    /\ RegistryCall(caller)
    /\ caller = nft_contract
    /\ caller \in Addresses
    /\ ensure_name_unlocked(n, clock)
    /\ resolve_ok(n, clock)
    /\ entries' = [entries EXCEPT ![n].owner = new_owner,
                                  ![n].transfer_count = saturating_inc(@)]
    /\ owner_names' = reindex_owner_name(entries[n].owner, new_owner, n)
    /\ UNCHANGED << configVars, tokenVars, resolverVars >>

Renew(n, caller, expires_at, grace_period_ends_at, now_unix) ==
    /\ RegistryCall(caller)
    /\ ensure_name_unlocked(n, now_unix)
    /\ Registered(n)
    /\ ~is_claimable_at(entries[n].grace_period_ends_at, now_unix)
    /\ entries[n].owner = caller
    /\ expires_at >= entries[n].expires_at
    /\ grace_period_ends_at >= entries[n].grace_period_ends_at
    /\ validate_lifecycle_timestamps(now_unix, expires_at, grace_period_ends_at)
    /\ entries' = [entries EXCEPT ![n].expires_at = expires_at,
                                  ![n].grace_period_ends_at = grace_period_ends_at]
    /\ with_nft(sync_expiry(n, expires_at))
    /\ UNCHANGED << owner_names, configVars, resolverVars >>

Burn(n, caller, now_unix) ==
    /\ RegistryCall(caller)
    /\ ensure_name_unlocked(n, now_unix)
    /\ Registered(n)
    /\ \/ entries[n].owner = caller
       \/ is_claimable_at(entries[n].grace_period_ends_at, now_unix)
    /\ owner_names' = [owner_names EXCEPT ![entries[n].owner] = @ \ {n}]
    /\ entries' = [entries EXCEPT ![n] = NONE]
    /\ with_nft(burn(n))
    /\ UNCHANGED << configVars, resolverVars >>

LockName(n, caller, locked_until, now_unix) ==
    /\ RegistryCall(caller)
    /\ caller = dispute_admin
    /\ Registered(n)
    /\ locked_until >= now_unix
    /\ locks' = [locks EXCEPT ![n] = locked_until]
    /\ UNCHANGED << entries, owner_names, configVars, tokenVars, resolverVars >>

UnlockName(n, caller) ==
    /\ RegistryCall(caller)
    /\ caller = dispute_admin
    /\ locks[n] # NONE
    /\ locks' = [locks EXCEPT ![n] = NONE]
    /\ UNCHANGED << entries, owner_names, configVars, tokenVars, resolverVars >>

-----------------------------------------------------------------------------
AdminNext ==
    \/ \E a \in Admins : Initialize(a) \/ SetDisputeAdmin(a)
    \/ \E c \in NftCandidates : SetNftContract(c)
    \/ \E n \in Names, a \in Admins :
        \/ UnlockName(n, a)
        \/ \E t \in Times, now_unix \in CallerTimes : LockName(n, a, t, now_unix)

\* Calls that give a name its term.
IssueNext ==
    \E n \in Names, a \in Users, now_unix \in CallerTimes, e, g \in Times :
        \/ Renew(n, a, e, g, now_unix)
        \/ \E m \in Metadata \cup {NONE} : Register(n, a, NONE, m, now_unix, e, g)

\* Calls on a registered name that do not lengthen its term.
OwnerNext ==
    \/ \E n \in Names, a \in Users, now_unix \in CallerTimes :
        \/ Burn(n, a, now_unix)
        \/ \E b \in Users : Transfer(n, a, b, now_unix)
        \/ \E r \in ResolverIds \cup {NONE} : SetResolver(n, a, r, now_unix)
        \/ \E b \in EntryTargets \cup {NONE} : SetTargetAddress(n, a, b, now_unix)
        \/ \E m \in Metadata \cup {NONE} : SetMetadata(n, a, m, now_unix)
    \/ \E n \in Names, c \in NftCandidates, b \in Users : UpdateOwner(n, c, b)

\* Everything but the calls the registrar stands in front of.
OtherNext ==
    \/ Tick /\ UNCHANGED << nftVars, resolverVars >>
    \/ AdminNext
    \/ OwnerNext
    \/ NftNext /\ UNCHANGED resolverVars
    \/ ResolverNext /\ UNCHANGED nftVars

Next == IssueNext \/ OtherNext

Spec == Init /\ [][Next]_vars

-----------------------------------------------------------------------------
(* Safety. *)

\* The owner index and the entries agree in both directions, through claims,
\* transfers, NFT-driven owner updates and burns: audit_owner_index finds
\* nothing and names_for_owner misses nothing.
OwnerIndexExact ==
    \A a \in Addresses, n \in Names :
        n \in owner_names[a] <=> Registered(n) /\ entries[n].owner = a

\* No lock outlives its entry: a name that is burned or reclaimed does not
\* leave a lock behind that would greet its next owner.
LockHasEntry == \A n \in Names : locks[n] # NONE => Registered(n)

\* No sequence of registrations and renewals leaves an entry that expires
\* before it was registered or becomes claimable before it expires.
TermOrdered ==
    \A n \in Names : Registered(n) =>
        /\ entries[n].registered_at <= entries[n].expires_at
        /\ entries[n].expires_at <= entries[n].grace_period_ends_at

ConsentGiven(n) ==
    /\ Registered(n)
    /\ entries'[n] # entries[n]
    /\ clock + Skew <= entries[n].grace_period_ends_at
    => invoker' \in {entries[n].owner, nft_contract}

\* Until the grace period has ended on every clock a caller may have, an entry
\* changes or disappears only in an invocation its owner authorised, or one of
\* the address wired as the NFT contract.
OwnerConsent == [][\A n \in Names : ConsentGiven(n)]_vars

TermKept(n) ==
    /\ Registered(n) /\ Registered(n)'
    /\ clock + Skew <= entries[n].grace_period_ends_at
    => /\ entries'[n].expires_at >= entries[n].expires_at
       /\ entries'[n].grace_period_ends_at >= entries[n].grace_period_ends_at
       /\ entries'[n].registered_at = entries[n].registered_at

\* Until then its term is never shortened either: expiry and end of grace only
\* move forward, and the registration date stays.
TermNeverShortened == [][\A n \in Names : TermKept(n)]_vars

Frozen(n) ==
    /\ locks[n] # NONE
    /\ clock + Skew <= locks[n]
    => /\ entries'[n] = entries[n]
       /\ locks'[n] # locks[n] => invoker' = dispute_admin

\* A dispute lock that holds on every clock a caller may have freezes the entry
\* against owner, claimants and the NFT contract, and only the dispute admin
\* lifts or replaces it.
LockFreezes == [][\A n \in Names : Frozen(n)]_vars

\* The NFT contract's id list names every token once and no other, and an
\* owner's list holds exactly the tokens of that owner, whichever contract
\* moved, minted or burned them.
NftIndexExact ==
    /\ \A n \in Names : token_ids[n] = (IF Minted(n) THEN 1 ELSE 0)
    /\ \A a \in Addresses, n \in Names :
        n \in owner_tokens[a] <=> Minted(n) /\ tokens[n].owner = a

\* A token stands for its name: both exist or neither does, with one expiry.
Mirrors(n) ==
    /\ Minted(n) <=> Registered(n)
    /\ Minted(n) => tokens[n].expires_at = entries[n].expires_at

\* Once an NFT contract is wired, no call of an owner, a claimant or a token
\* holder separates a token from its name's entry; only an NFT administrator
\* that is an account can.
MirrorKept ==
    [][\A n \in Names :
        /\ nft_contract # NONE
        /\ nft_admin \notin Admins
        /\ Mirrors(n)
        => Mirrors(n)' ]_vars

\* A reverse or primary mapping always points at a name whose forward record
\* holds that very address: no order of record writes, batches, removals,
\* lookups and registry transfers leaves a dangling or crossed mapping.
ReverseSound ==
    \A a \in Addresses : \A n \in {reverse[a], primary[a]} \ {NONE} :
        HasRecord(n) /\ stellar_address(n) = a

\* resolve answers with the record of the nearest of n and its ancestors that
\* has one, looks no further than FallbackDepth labels up, and a switched-off
\* ancestor shadows the ones above it.
FallbackNearest ==
    \A n \in Names :
        LET up == ancestors(n)
            at(i) == up[i] # NONE /\ HasRecord(up[i])
            answer == resolve_with_fallback(n)
        IN  /\ answer # NONE =>
                \E i \in 0 .. FallbackDepth :
                    /\ answer = up[i] /\ at(i)
                    /\ \A j \in 0 .. i - 1 : ~at(j)
                    /\ i > 0 => wildcard[up[i]]
            /\ answer = NONE =>
                \A i \in 0 .. FallbackDepth :
                    at(i) => \E j \in 0 .. i : at(j) /\ j > 0 /\ ~wildcard[up[j]]

-----------------------------------------------------------------------------
(* Refinement. *)

holding ==
    [n \in Names |->
        IF Registered(n)
        THEN [ owner   |-> entries[n].owner,
               expires |-> entries[n].expires_at,
               ends    |-> entries[n].grace_period_ends_at ]
        ELSE NONE]

Lifecycle == INSTANCE NameLifecycle WITH Owners <- Addresses

ASSUME HoldingAssumption == NONE \notin Lifecycle!Holding

\* The registry, with the contracts it calls, implements the lifecycle of a
\* name: whatever the NFT and resolver contracts do in between, every step is
\* an acquisition, a hand-over, an extension, a release or none of these.
LifecycleRefined == Lifecycle!Spec

=============================================================================
