------------------------------ MODULE Resolver ------------------------------
(***************************************************************************)
(* The resolver contract (contracts/resolver/src/lib.rs): forward records, *)
(* the reverse and primary maps from an address to a name, and the         *)
(* wildcard switch.  Ownership is read from the registry across contracts. *)
(*                                                                         *)
(* Left out of a record: updated_at, the values of text records, and the   *)
(* storage TTL extensions.                                                 *)
(***************************************************************************)
EXTENDS RegistryStore, Sequences

CONSTANTS
    Targets,        \* address strings an owner may write into a record
    Chains,         \* chain identifiers of set_address
    STELLAR,        \* DEFAULT_CHAIN
    TextKeys,       \* keys that pass validate_text_record_key
    MaxTextRecords, \* MAX_TEXT_RECORDS
    MaxBatchOps,    \* MAX_BATCH_OPS
    Parent,         \* parent_name: a name without its leftmost label, or NONE
    FallbackDepth   \* fallback_depth_limit

ASSUME ResolverAssumption ==
    /\ Targets \subseteq Addresses
    /\ STELLAR \in Chains
    /\ MaxTextRecords \in Nat
    /\ MaxBatchOps \in Nat
    /\ FallbackDepth \in Nat
    /\ Parent \in [Names -> Names \cup {NONE}]
    /\ NONE \notin Names

VARIABLES
    forward,            \* DataKey::Forward
    reverse,            \* DataKey::Reverse
    primary,            \* DataKey::Primary
    wildcard,           \* DataKey::Wildcard, absent read as true
    resolver_registry   \* DataKey::Registry is set (to REGISTRY)

resolverVars == << forward, reverse, primary, wildcard, resolver_registry >>

ResolutionRecord ==
    [ owner        : Addresses,
      addresses    : [Chains -> Addresses \cup {NONE}],
      text_records : SUBSET TextKeys ]

ASSUME ResolverNoneAssumption == NONE \notin ResolutionRecord

ResolverTypeOK ==
    /\ forward \in [Names -> ResolutionRecord \cup {NONE}]
    /\ reverse \in [Addresses -> Names \cup {NONE}]
    /\ primary \in [Addresses -> Names \cup {NONE}]
    /\ wildcard \in [Names -> BOOLEAN]
    /\ resolver_registry \in BOOLEAN

ResolverInit ==
    /\ forward = [n \in Names |-> NONE]
    /\ reverse = [a \in Addresses |-> NONE]
    /\ primary = [a \in Addresses |-> NONE]
    /\ wildcard = [n \in Names |-> TRUE]
    /\ resolver_registry = FALSE

-----------------------------------------------------------------------------
HasRecord(n) == forward[n] # NONE

stellar_address(n) == forward[n].addresses[STELLAR]

\* With a registry configured, a write is authorised by the owner it reports at
\* now_unix (a name that does not resolve there fails the call); without one,
\* by the owner stored in the record.
assert_owner(n, caller, now_unix) ==
    IF resolver_registry
    THEN resolve_ok(n, now_unix) /\ entries[n].owner = caller
    ELSE forward[n].owner = caller

\* The addresses that new_addrs, written in order over old_addr, replace.
departed(old_addr, new_addrs) ==
    LET chain == << old_addr >> \o new_addrs
    IN  {chain[i] : i \in {j \in 1 .. Len(chain) - 1 : chain[j] # chain[j + 1]}} \ {NONE}

\* Faulty variant: the addresses in between keep the mapping they were given.
remap_reverse_once(n, old_addr, new_addrs) ==
    IF new_addrs = << >>
    THEN UNCHANGED << reverse, primary >>
    ELSE LET gone == departed(old_addr, new_addrs)
             given == {new_addrs[i] : i \in 1 .. Len(new_addrs)}
         IN  /\ reverse' = [a \in Addresses |->
                               IF a \in given THEN n ELSE IF a \in gone THEN NONE ELSE reverse[a]]
             /\ primary' = [a \in Addresses |-> IF a \in gone THEN NONE ELSE primary[a]]

(***************************************************************************)
(* Writing the Stellar address of n one or more times, in the order of     *)
(* new_addrs.  Each write that replaces a different address drops the      *)
(* reverse and primary mapping of the address it replaces, whatever name   *)
(* they held, and then maps the new address back to n.                     *)
(***************************************************************************)
remap_reverse(n, old_addr, new_addrs) ==
    IF new_addrs = << >>
    THEN UNCHANGED << reverse, primary >>
    ELSE LET gone == departed(old_addr, new_addrs)
             last == new_addrs[Len(new_addrs)]
         IN  /\ reverse' = [a \in Addresses |->
                               IF a = last THEN n ELSE IF a \in gone THEN NONE ELSE reverse[a]]
             /\ primary' = [a \in Addresses |-> IF a \in gone THEN NONE ELSE primary[a]]

\* Keys are set in order; a new key is skipped once the limit is reached.
add_text_records(text_records, keys) ==
    text_records \cup
        {keys[i] : i \in {j \in 1 .. Len(keys) :
            Cardinality(text_records \cup {keys[k] : k \in 1 .. j - 1}) < MaxTextRecords}}

\* The mappings of address a that name n are dropped.
drop_mappings(n, a) ==
    /\ reverse' = [reverse EXCEPT ![a] = IF @ = n THEN NONE ELSE @]
    /\ primary' = [primary EXCEPT ![a] = IF @ = n THEN NONE ELSE @]

\* The registry calls this at the end of a transfer.
clear_reverse_record(n, previous_owner) ==
    /\ resolver_registry
    /\ drop_mappings(n, previous_owner)
    /\ UNCHANGED << forward, wildcard, resolver_registry >>

-----------------------------------------------------------------------------
(* Reads. *)

reverse_lookup_matches_current_owner(n, a) ==
    /\ HasRecord(n)
    /\ stellar_address(n) = a
    /\ resolver_registry =>
        /\ resolve_ok(n, clock)
        /\ entries[n].owner = forward[n].owner

reverse_answer(a) ==
    IF primary[a] # NONE /\ reverse_lookup_matches_current_owner(primary[a], a) THEN primary[a]
    ELSE IF reverse[a] # NONE /\ reverse_lookup_matches_current_owner(reverse[a], a) THEN reverse[a]
    ELSE NONE

(***************************************************************************)
(* resolve_with_fallback climbs from n towards its parents, at most        *)
(* FallbackDepth hops, and stops at the first name with a record; the      *)
(* record of an ancestor counts only if its wildcard switch is on.  The    *)
(* registry is not consulted.                                              *)
(***************************************************************************)
\* Faulty variant: one hop too many.
resolve_with_fallback_far(n) ==
    LET climb[hops \in 0 .. FallbackDepth + 1] == [current \in Names |->
            IF HasRecord(current)
            THEN IF current = n \/ wildcard[current] THEN current ELSE NONE
            ELSE IF hops > FallbackDepth \/ Parent[current] = NONE THEN NONE
            ELSE climb[hops + 1][Parent[current]]]
    IN  climb[0][n]

resolve_with_fallback(n) ==
    LET climb[hops \in 0 .. FallbackDepth] == [current \in Names |->
            IF HasRecord(current)
            THEN IF current = n \/ wildcard[current] THEN current ELSE NONE
            ELSE IF hops >= FallbackDepth \/ Parent[current] = NONE THEN NONE
            ELSE climb[hops + 1][Parent[current]]]
    IN  climb[0][n]

\* The i-th ancestor of n, or NONE.
ancestors(n) ==
    LET up[i \in 0 .. FallbackDepth] ==
            IF i = 0 THEN n
            ELSE IF up[i - 1] = NONE THEN NONE ELSE Parent[up[i - 1]]
    IN  up

-----------------------------------------------------------------------------
(* Entrypoints. *)

ResolverCall(caller) ==
    /\ invoker' = caller
    /\ UNCHANGED << clock, storeVars, configVars >>

ResolverInitialize ==
    /\ ~resolver_registry
    /\ resolver_registry' = TRUE
    /\ ResolverCall(NONE)
    /\ UNCHANGED << forward, reverse, primary, wildcard >>

SetRecord(n, owner, address, now_unix) ==
    /\ ResolverCall(owner)
    /\ IF resolver_registry
       THEN resolve_ok(n, now_unix) /\ entries[n].owner = owner
       ELSE HasRecord(n) => forward[n].owner = owner
    /\ LET old == IF HasRecord(n) THEN forward[n].addresses ELSE [c \in Chains |-> NONE]
           txt == IF HasRecord(n) THEN forward[n].text_records ELSE {}
       IN  /\ remap_reverse(n, old[STELLAR], << address >>)
           /\ forward' = [forward EXCEPT ![n] =
                 [ owner |-> owner, addresses |-> [old EXCEPT ![STELLAR] = address],
                   text_records |-> txt ]]
    /\ UNCHANGED << wildcard, resolver_registry >>

SetAddress(n, caller, chain, address, now_unix) ==
    /\ ResolverCall(caller)
    /\ HasRecord(n)
    /\ assert_owner(n, caller, now_unix)
    /\ remap_reverse(n, stellar_address(n), IF chain = STELLAR THEN << address >> ELSE << >>)
    /\ forward' = [forward EXCEPT ![n].addresses[chain] = address]
    /\ UNCHANGED << wildcard, resolver_registry >>

SetTextRecord(n, caller, key, now_unix) ==
    /\ ResolverCall(caller)
    /\ HasRecord(n)
    /\ assert_owner(n, caller, now_unix)
    /\ \/ key \in forward[n].text_records
       \/ Cardinality(forward[n].text_records) < MaxTextRecords
    /\ forward' = [forward EXCEPT ![n].text_records = @ \cup {key}]
    /\ UNCHANGED << reverse, primary, wildcard, resolver_registry >>

\* addrs and keys are the SetAddress and the valid SetText operations of the
\* batch in their order; the two kinds touch different fields of the record.
BatchSet(n, caller, addrs, keys, now_unix) ==
    /\ ResolverCall(caller)
    /\ Len(addrs) + Len(keys) <= MaxBatchOps
    /\ HasRecord(n)
    /\ assert_owner(n, caller, now_unix)
    /\ remap_reverse(n, stellar_address(n), addrs)
    /\ forward' = [forward EXCEPT
          ![n].addresses[STELLAR] = IF addrs = << >> THEN @ ELSE addrs[Len(addrs)],
          ![n].text_records = add_text_records(@, keys)]
    /\ UNCHANGED << wildcard, resolver_registry >>

\* The time given to the registry is the constant 0, at which every entry is
\* active: an expired name passes.
SetPrimaryName(address, caller, n) ==
    /\ ResolverCall(caller)
    /\ HasRecord(n)
    /\ assert_owner(n, caller, 0)
    /\ stellar_address(n) = address
    /\ primary' = [primary EXCEPT ![address] = n]
    /\ UNCHANGED << forward, reverse, wildcard, resolver_registry >>

RemoveRecord(n, caller) ==
    /\ ResolverCall(caller)
    /\ HasRecord(n)
    /\ assert_owner(n, caller, 0)
    /\ LET a == stellar_address(n)
       IN  IF a = NONE
           THEN UNCHANGED << reverse, primary >>
           ELSE /\ reverse' = [reverse EXCEPT ![a] = NONE]
                /\ primary' = [primary EXCEPT ![a] = NONE]
    /\ forward' = [forward EXCEPT ![n] = NONE]
    /\ wildcard' = [wildcard EXCEPT ![n] = TRUE]
    /\ UNCHANGED resolver_registry

ResolverUpdateOwner(n, caller, new_owner) ==
    /\ ResolverCall(caller)
    /\ HasRecord(n)
    /\ assert_owner(n, caller, 0)
    /\ forward' = [forward EXCEPT ![n].owner = new_owner]
    /\ UNCHANGED << reverse, primary, wildcard, resolver_registry >>

\* Checked against the owner stored in the record, not against the registry.
TransferRecordOwner(n, caller, new_owner) ==
    /\ ResolverCall(caller)
    /\ HasRecord(n)
    /\ forward[n].owner = caller
    /\ forward' = [forward EXCEPT ![n].owner = new_owner]
    /\ UNCHANGED << reverse, primary, wildcard, resolver_registry >>

\* The only owner write that does not require the caller's authorisation.
SetWildcardResolution(n, caller, enabled, now_unix) ==
    /\ ResolverCall(NONE)
    /\ HasRecord(n)
    /\ assert_owner(n, caller, now_unix)
    /\ wildcard' = [wildcard EXCEPT ![n] = enabled]
    /\ UNCHANGED << forward, reverse, primary, resolver_registry >>

\* reverse: a lookup that drops the mappings of the address it finds stale.
ReverseLookup(a) ==
    /\ ResolverCall(NONE)
    /\ LET hit == reverse_answer(a)
       IN  /\ primary' = [primary EXCEPT ![a] = IF @ = hit THEN @ ELSE NONE]
           /\ reverse' = [reverse EXCEPT ![a] =
                 IF hit # NONE /\ (primary[a] = hit \/ @ = hit) THEN @ ELSE NONE]
    /\ UNCHANGED << forward, wildcard, resolver_registry >>

Batches(S) == UNION {[1 .. k -> S] : k \in 0 .. MaxBatchOps}

ResolverNext ==
    \/ ResolverInitialize
    \/ \E a \in Addresses : ReverseLookup(a)
    \/ \E n \in Names, caller \in Users, now_unix \in CallerTimes :
        \/ \E a \in Targets : SetRecord(n, caller, a, now_unix)
        \/ \E a \in Targets, c \in Chains : SetAddress(n, caller, c, a, now_unix)
        \/ \E k \in TextKeys : SetTextRecord(n, caller, k, now_unix)
        \/ \E addrs \in Batches(Targets), keys \in Batches(TextKeys) :
              BatchSet(n, caller, addrs, keys, now_unix)
        \/ \E b \in BOOLEAN : SetWildcardResolution(n, caller, b, now_unix)
    \/ \E n \in Names, caller \in Users :
        \/ \E a \in Targets : SetPrimaryName(a, caller, n)
        \/ RemoveRecord(n, caller)
        \/ \E b \in Users : ResolverUpdateOwner(n, caller, b) \/ TransferRecordOwner(n, caller, b)

=============================================================================
