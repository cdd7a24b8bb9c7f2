---------------------------- MODULE RegistryStore ----------------------------
(***************************************************************************)
(* The persistent storage of the registry contract                         *)
(* (contracts/registry/src/lib.rs), the ledger clock, and the read-only    *)
(* entrypoints other contracts call: resolve, name_state.  The NFT and     *)
(* resolver modules read the registry through this module; Registry.tla    *)
(* adds the entrypoints that write it.                                     *)
(*                                                                         *)
(* The Soroban host runs one invocation at a time, and one that traps or   *)
(* returns an Err leaves no write behind.  An invocation is therefore one  *)
(* action, and the conditions under which it would fail are its guard.     *)
(***************************************************************************)
EXTENDS Naturals, FiniteSets

CONSTANTS
    Names,          \* fully qualified names that pass validate_fqdn_soroban
    Users,          \* account addresses
    Admins,         \* accounts that may be made an administrator
    ResolverIds,    \* resolver addresses an owner may store in an entry
    NftCandidates,  \* addresses the admin may wire as the NFT contract
    EntryTargets,   \* target addresses an owner may store in an entry
    Metadata,       \* metadata URIs within MAX_METADATA_URI_LENGTH
    U64Max,         \* largest timestamp
    U32Max,         \* largest transfer counter
    Skew,           \* how far a caller's now_unix may lie from the ledger time
    REGISTRY,       \* address of the registry contract
    NFT,            \* address of the NFT contract
    RESOLVER,       \* address of the resolver contract
    NONE            \* an absent storage key, or Option::None

Addresses == Users \cup Admins

(***************************************************************************)
(* contracts/registry/src/lib.rs, RegistryEntry.  The name is the key,     *)
(* ttl_seconds is a constant of the code.                                  *)
(***************************************************************************)
Times == 0 .. U64Max

RegistryEntry ==
    [ owner                : Addresses,
      resolver             : ResolverIds \cup {NONE},
      target_address       : EntryTargets \cup {NONE},
      metadata_uri         : Metadata \cup {NONE},
      registered_at        : Times,
      expires_at           : Times,
      grace_period_ends_at : Times,
      transfer_count       : 0 .. U32Max ]

ASSUME BoundsAssumption ==
    /\ U64Max \in Nat
    /\ U32Max \in Nat
    /\ Skew \in Nat

\* Contract addresses are not account addresses, and NONE is no value.
ASSUME AddressAssumption ==
    /\ {REGISTRY, NFT, RESOLVER, NONE} \cap Addresses = {}
    /\ NONE \notin ResolverIds \cup NftCandidates \cup EntryTargets \cup Metadata
    /\ NONE \notin Times
    /\ NONE \notin RegistryEntry
    /\ NONE \notin {REGISTRY, NFT, RESOLVER}

VARIABLES
    clock,          \* env.ledger().timestamp()
    invoker,        \* whose authorisation the last invocation required
    entries,        \* DataKey::Entry
    locks,          \* DataKey::Lock: locked_until, or NONE
    owner_names,    \* DataKey::OwnerNames
    admin,          \* DataKey::Admin
    dispute_admin,  \* DataKey::DisputeAdmin
    nft_contract    \* DataKey::NftContract

storeVars == << entries, locks, owner_names >>
configVars == << admin, dispute_admin, nft_contract >>
registryVars == << clock, invoker, storeVars, configVars >>

StoreTypeOK ==
    /\ clock \in Times
    /\ invoker \in Addresses \cup NftCandidates \cup {NONE}
    /\ entries \in [Names -> RegistryEntry \cup {NONE}]
    /\ locks \in [Names -> Times \cup {NONE}]
    /\ owner_names \in [Addresses -> SUBSET Names]
    /\ admin \in Admins \cup {NONE}
    /\ dispute_admin \in Admins \cup {NONE}
    /\ nft_contract \in NftCandidates \cup {NONE}

StoreInit ==
    /\ clock = 0
    /\ invoker = NONE
    /\ entries = [n \in Names |-> NONE]
    /\ locks = [n \in Names |-> NONE]
    /\ owner_names = [a \in Addresses |-> {}]
    /\ admin = NONE
    /\ dispute_admin = NONE
    /\ nft_contract = NONE

(***************************************************************************)
(* Most entrypoints take now_unix from their caller and do not compare it  *)
(* with the ledger time.  A caller's clock is within Skew of the ledger's; *)
(* Skew >= U64Max lets callers pass any time.                              *)
(***************************************************************************)
CallerTimes == {t \in Times : t <= clock + Skew /\ clock <= t + Skew}

-----------------------------------------------------------------------------
(* packages/xlm-ns-common/src/time.rs *)

\* Faulty variant: a name stays active one second too long.
is_active_at_late(expires_at, now_unix) == now_unix <= expires_at + 1

is_active_at(expires_at, now_unix) == now_unix <= expires_at

\* Faulty variant: the last second of the grace period is lost.
is_claimable_at_early(grace_period_ends_at, now_unix) == now_unix >= grace_period_ends_at

is_claimable_at(grace_period_ends_at, now_unix) == now_unix > grace_period_ends_at

(* Reads of the registry. *)

Registered(n) == entries[n] # NONE

\* resolve succeeds, with entries[n], exactly on an active name.
resolve_ok(n, now_unix) ==
    /\ Registered(n)
    /\ is_active_at(entries[n].expires_at, now_unix)

name_state(n, now_unix) ==
    CASE ~Registered(n) -> "Missing"
      [] resolve_ok(n, now_unix) -> "Active"
      [] OTHER -> IF is_claimable_at(entries[n].grace_period_ends_at, now_unix)
                  THEN "Claimable" ELSE "GracePeriod"

\* Ledger time advances on its own.
Tick ==
    /\ clock < U64Max
    /\ clock' = clock + 1
    /\ UNCHANGED << invoker, storeVars, configVars >>

=============================================================================
