-------------------------------- MODULE Nft --------------------------------
(***************************************************************************)
(* The NFT contract (contracts/nft/src/lib.rs): one token per tokenised    *)
(* name, with an approval, a per-owner index, the list of all token ids    *)
(* and a cache of the registry's record.                                   *)
(*                                                                         *)
(* mint, burn, sync_owner and sync_expiry are conjoined by the registry's  *)
(* entrypoints (Registry.tla) when it calls them across contracts, and are *)
(* actions of their own when the NFT administrator is an account.          *)
(*                                                                         *)
(* token_ids is a Vec to which mint appends without looking for the id and *)
(* from which burn removes the first occurrence: it is kept as the number  *)
(* of occurrences of each id.  An owner's token Vec is only extended with  *)
(* an id it does not contain and filtered of every occurrence: it is a set.*)
(***************************************************************************)
EXTENDS RegistryStore

CONSTANTS NftAdmins     \* addresses initialize may be given: REGISTRY, accounts

ASSUME NftAdminAssumption == NftAdmins \subseteq Admins \cup {REGISTRY}

VARIABLES
    tokens,         \* DataKey::Token
    token_ids,      \* DataKey::TokenIds: occurrences of each id
    owner_tokens,   \* DataKey::OwnerTokens
    name_data,      \* DataKey::NameData
    nft_admin,      \* DataKey::Admin
    nft_registry    \* DataKey::Registry is set (to REGISTRY)

tokenVars == << tokens, token_ids, owner_tokens, name_data >>
nftVars == << tokenVars, nft_admin, nft_registry >>

TokenRecord ==
    [ owner        : Addresses,
      approved     : Addresses \cup {NONE},
      metadata_uri : Metadata \cup {NONE},
      expires_at   : Times ]

NameRecord ==
    [ registration_date : Times,
      expiry_date       : Times,
      target_address    : EntryTargets \cup {NONE} ]

ASSUME NftNoneAssumption == NONE \notin TokenRecord /\ NONE \notin NameRecord

NftTypeOK ==
    /\ tokens \in [Names -> TokenRecord \cup {NONE}]
    /\ token_ids \in [Names -> Nat]
    /\ owner_tokens \in [Addresses -> SUBSET Names]
    /\ name_data \in [Names -> NameRecord \cup {NONE}]
    /\ nft_admin \in NftAdmins \cup {NONE}
    /\ nft_registry \in BOOLEAN

NftInit ==
    /\ tokens = [n \in Names |-> NONE]
    /\ token_ids = [n \in Names |-> 0]
    /\ owner_tokens = [a \in Addresses |-> {}]
    /\ name_data = [n \in Names |-> NONE]
    /\ nft_admin = NONE
    /\ nft_registry = FALSE

-----------------------------------------------------------------------------
Minted(n) == tokens[n] # NONE

\* Faulty variant: no early return, and the addition precedes the removal.
reindex_owner_token_swapped(previous_owner, new_owner, n) ==
    [owner_tokens EXCEPT ![new_owner] = @ \cup {n}, ![previous_owner] = @ \ {n}]

\* The owner index after a token changes hands.
reindex_owner_token(previous_owner, new_owner, n) ==
    IF previous_owner = new_owner
    THEN owner_tokens
    ELSE [owner_tokens EXCEPT ![previous_owner] = @ \ {n}, ![new_owner] = @ \cup {n}]

\* The NameRecord read from the registry at the ledger time.
name_record(n) ==
    [ registration_date |-> entries[n].registered_at,
      expiry_date       |-> entries[n].expires_at,
      target_address    |-> entries[n].target_address ]

(***************************************************************************)
(* admin.require_auth() succeeds when the administrator is the registry    *)
(* contract and the registry is the direct caller, or when the             *)
(* administrator is an account that signs the transaction too.             *)
(***************************************************************************)
mint(n, owner, metadata_uri, expires_at) ==
    /\ nft_admin # NONE
    /\ ~Minted(n)
    /\ tokens' = [tokens EXCEPT ![n] =
                    [ owner |-> owner, approved |-> NONE,
                      metadata_uri |-> metadata_uri, expires_at |-> expires_at ]]
    /\ token_ids' = [token_ids EXCEPT ![n] = @ + 1]
    /\ owner_tokens' = [owner_tokens EXCEPT ![owner] = @ \cup {n}]
    /\ IF nft_registry
       THEN resolve_ok(n, clock) /\ name_data' = [name_data EXCEPT ![n] = name_record(n)]
       ELSE UNCHANGED name_data

\* burn leaves name_data behind.
burn(n) ==
    /\ nft_admin # NONE
    /\ Minted(n)
    /\ tokens' = [tokens EXCEPT ![n] = NONE]
    /\ owner_tokens' = [owner_tokens EXCEPT ![tokens[n].owner] = @ \ {n}]
    /\ token_ids' = [token_ids EXCEPT ![n] = IF @ > 0 THEN @ - 1 ELSE 0]
    /\ UNCHANGED name_data

\* burn and mint in one invocation, as the registry's register calls them on a
\* name it reclaims.  The registry is already on the call stack: with the
\* registry address set, mint would call back into it, which the host forbids.
burn_then_mint(n, owner, metadata_uri, expires_at) ==
    /\ nft_admin # NONE
    /\ Minted(n)
    /\ ~nft_registry
    /\ tokens' = [tokens EXCEPT ![n] =
                    [ owner |-> owner, approved |-> NONE,
                      metadata_uri |-> metadata_uri, expires_at |-> expires_at ]]
    /\ token_ids' = [token_ids EXCEPT ![n] = IF @ > 0 THEN @ ELSE 1]
    /\ owner_tokens' = [owner_tokens EXCEPT ![tokens[n].owner] = @ \ {n},
                                            ![owner] = @ \cup {n}]
    /\ UNCHANGED name_data

\* Faulty variant: the token keeps its old expiry.
sync_expiry_forgotten(n, new_expiry) ==
    nft_admin # NONE /\ Minted(n) /\ UNCHANGED tokenVars

sync_expiry(n, new_expiry) ==
    /\ nft_admin # NONE
    /\ Minted(n)
    /\ tokens' = [tokens EXCEPT ![n].expires_at = new_expiry]
    /\ UNCHANGED << token_ids, owner_tokens, name_data >>

\* sync_owner keeps the approval the previous owner gave.
sync_owner(n, new_owner) ==
    /\ nft_admin # NONE
    /\ Minted(n)
    /\ tokens' = [tokens EXCEPT ![n].owner = new_owner]
    /\ owner_tokens' = reindex_owner_token(tokens[n].owner, new_owner, n)
    /\ UNCHANGED << token_ids, name_data >>

-----------------------------------------------------------------------------
(* Entrypoints invoked directly. *)

NftInitialize(a) ==
    /\ nft_admin = NONE
    /\ nft_admin' = a
    /\ invoker' = NONE
    /\ UNCHANGED << clock, storeVars, configVars, tokenVars, nft_registry >>

\* An administrator that is a contract never calls set_registry.
NftSetRegistry ==
    /\ nft_admin \in Admins
    /\ nft_registry' = TRUE
    /\ invoker' = nft_admin
    /\ UNCHANGED << clock, storeVars, configVars, tokenVars, nft_admin >>

NftAdminCall ==
    /\ nft_admin \in Admins
    /\ invoker' = nft_admin
    /\ UNCHANGED << clock, storeVars, configVars, nft_admin, nft_registry >>

AdminMint(n, owner, expires_at) == NftAdminCall /\ mint(n, owner, NONE, expires_at)

AdminBurn(n) == NftAdminCall /\ burn(n)

AdminSyncExpiry(n, new_expiry) == NftAdminCall /\ sync_expiry(n, new_expiry)

AdminSyncOwner(n, new_owner) == NftAdminCall /\ sync_owner(n, new_owner)

(***************************************************************************)
(* approve, approve_clear, transfer and transfer_from compare the caller   *)
(* they are given with the token and require no authorisation of it.       *)
(***************************************************************************)
NftHolderCall ==
    /\ invoker' = NONE
    /\ UNCHANGED << clock, storeVars, configVars, nft_admin, nft_registry >>

Approve(n, caller, approved) ==
    /\ Minted(n)
    /\ tokens[n].owner = caller
    /\ tokens' = [tokens EXCEPT ![n].approved = approved]
    /\ UNCHANGED << token_ids, owner_tokens, name_data >>
    /\ NftHolderCall

ApproveClear(n, caller) ==
    /\ Minted(n)
    /\ tokens[n].owner = caller
    /\ tokens' = [tokens EXCEPT ![n].approved = NONE]
    /\ UNCHANGED << token_ids, owner_tokens, name_data >>
    /\ NftHolderCall

(***************************************************************************)
(* With the registry address set, a transfer ends by invoking the          *)
(* registry's update_owner with two arguments where it takes three: the    *)
(* host rejects the call and the whole transfer is rolled back.  Only with *)
(* the address unset does a transfer succeed, and the registry is then not *)
(* told.                                                                   *)
(***************************************************************************)
hand_over(n, new_owner) ==
    /\ ~nft_registry
    /\ tokens' = [tokens EXCEPT ![n].owner = new_owner, ![n].approved = NONE]
    /\ owner_tokens' = reindex_owner_token(tokens[n].owner, new_owner, n)
    /\ UNCHANGED << token_ids, name_data >>
    /\ NftHolderCall

NftTransfer(n, caller, new_owner) ==
    /\ Minted(n)
    /\ tokens[n].owner = caller \/ tokens[n].approved = caller
    /\ hand_over(n, new_owner)

NftTransferFrom(n, spender, owner, recipient) ==
    /\ Minted(n)
    /\ tokens[n].owner = owner
    /\ tokens[n].approved = spender
    /\ hand_over(n, recipient)

RefreshNameData(n) ==
    /\ nft_registry
    /\ Minted(n)
    /\ resolve_ok(n, clock)
    /\ name_data' = [name_data EXCEPT ![n] = name_record(n)]
    /\ UNCHANGED << tokens, token_ids, owner_tokens >>
    /\ NftHolderCall

NftNext ==
    \/ \E a \in NftAdmins : NftInitialize(a)
    \/ NftSetRegistry
    \/ \E n \in Names :
        \/ AdminBurn(n)
        \/ RefreshNameData(n)
        \/ \E t \in Times : AdminSyncExpiry(n, t)
        \/ \E a \in Users :
            \/ AdminSyncOwner(n, a)
            \/ ApproveClear(n, a)
            \/ \E t \in Times : AdminMint(n, a, t)
            \/ \E b \in Users : Approve(n, a, b) \/ NftTransfer(n, a, b)
            \/ \E b, c \in Users : NftTransferFrom(n, a, b, c)

=============================================================================
