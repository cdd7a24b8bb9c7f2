--------------------------- MODULE RegistryProofs ---------------------------
(* Theorems about Registry.tla, for every value of its constants. *)
EXTENDS Registry, TLAPS

\* No entrypoint of the NFT contract writes the registry.
LEMMA NftKeepsRegistry ==
    ASSUME NftNext
    PROVE  UNCHANGED << clock, storeVars, configVars >>
<1>1. CASE \E a \in NftAdmins : NftInitialize(a)
  BY <1>1 DEF NftInitialize
<1>2. CASE NftSetRegistry
  BY <1>2 DEF NftSetRegistry
<1>3. ASSUME NEW n \in Names,
             \/ AdminBurn(n)
             \/ RefreshNameData(n)
             \/ \E t \in Times : AdminSyncExpiry(n, t)
      PROVE  UNCHANGED << clock, storeVars, configVars >>
  BY <1>3 DEF AdminBurn, RefreshNameData, AdminSyncExpiry, NftAdminCall, NftHolderCall
<1>4. ASSUME NEW n \in Names, NEW a \in Users,
             \/ AdminSyncOwner(n, a)
             \/ ApproveClear(n, a)
             \/ \E t \in Times : AdminMint(n, a, t)
      PROVE  UNCHANGED << clock, storeVars, configVars >>
  BY <1>4 DEF AdminSyncOwner, ApproveClear, AdminMint, NftAdminCall, NftHolderCall
<1>5. ASSUME NEW n \in Names, NEW a \in Users,
             \/ \E b \in Users : Approve(n, a, b) \/ NftTransfer(n, a, b)
             \/ \E b, c \in Users : NftTransferFrom(n, a, b, c)
      PROVE  UNCHANGED << clock, storeVars, configVars >>
  BY <1>5 DEF Approve, NftTransfer, NftTransferFrom, hand_over, NftHolderCall
<1> QED
  BY <1>1, <1>2, <1>3, <1>4, <1>5 DEF NftNext

\* Neither does one of the resolver contract.
LEMMA ResolverKeepsRegistry ==
    ASSUME ResolverNext
    PROVE  UNCHANGED << clock, storeVars, configVars >>
<1>1. CASE ResolverInitialize
  BY <1>1 DEF ResolverInitialize, ResolverCall
<1>2. CASE \E a \in Addresses : ReverseLookup(a)
  BY <1>2 DEF ReverseLookup, ResolverCall
<1>3. ASSUME NEW n \in Names, NEW caller \in Users, NEW now_unix \in CallerTimes,
             \/ \E a \in Targets : SetRecord(n, caller, a, now_unix)
             \/ \E a \in Targets, c \in Chains : SetAddress(n, caller, c, a, now_unix)
             \/ \E k \in TextKeys : SetTextRecord(n, caller, k, now_unix)
             \/ \E addrs \in Batches(Targets), keys \in Batches(TextKeys) :
                   BatchSet(n, caller, addrs, keys, now_unix)
             \/ \E b \in BOOLEAN : SetWildcardResolution(n, caller, b, now_unix)
      PROVE  UNCHANGED << clock, storeVars, configVars >>
  <2>1. ResolverCall(caller) \/ ResolverCall(NONE)
    BY <1>3 DEF SetRecord, SetAddress, SetTextRecord, BatchSet, SetWildcardResolution
  <2> QED
    BY <2>1 DEF ResolverCall
<1>4. ASSUME NEW n \in Names, NEW caller \in Users,
             \/ \E a \in Targets : SetPrimaryName(a, caller, n)
             \/ RemoveRecord(n, caller)
             \/ \E b \in Users : \/ ResolverUpdateOwner(n, caller, b)
                                  \/ TransferRecordOwner(n, caller, b)
      PROVE  UNCHANGED << clock, storeVars, configVars >>
  <2>1. ResolverCall(caller)
    BY <1>4 DEF SetPrimaryName, RemoveRecord, ResolverUpdateOwner, TransferRecordOwner
  <2> QED
    BY <2>1 DEF ResolverCall
<1> QED
  BY <1>1, <1>2, <1>3, <1>4 DEF ResolverNext

(***************************************************************************)
(* Which calls write the registry's storage.  Everything else the three    *)
(* contracts do (ticks, configuration, tokens, resolver records) leaves    *)
(* entries, locks and owner index alone.                                   *)
(***************************************************************************)
StoreWrite ==
    \/ \E n \in Names, a \in Users, now_unix \in CallerTimes, e, g \in Times :
        \/ Renew(n, a, e, g, now_unix)
        \/ \E m \in Metadata \cup {NONE} : Register(n, a, NONE, m, now_unix, e, g)
    \/ \E n \in Names, a \in Users, now_unix \in CallerTimes :
        \/ Burn(n, a, now_unix)
        \/ \E b \in Users : Transfer(n, a, b, now_unix)
        \/ \E r \in ResolverIds \cup {NONE} : SetResolver(n, a, r, now_unix)
        \/ \E b \in EntryTargets \cup {NONE} : SetTargetAddress(n, a, b, now_unix)
        \/ \E m \in Metadata \cup {NONE} : SetMetadata(n, a, m, now_unix)
    \/ \E n \in Names, c \in NftCandidates, b \in Users : UpdateOwner(n, c, b)
    \/ \E n \in Names, a \in Admins :
        \/ UnlockName(n, a)
        \/ \E t \in Times, now_unix \in CallerTimes : LockName(n, a, t, now_unix)

Configure ==
    \/ \E a \in Admins : Initialize(a) \/ SetDisputeAdmin(a)
    \/ \E c \in NftCandidates : SetNftContract(c)

\* The five kinds of step.
LEMMA StepKinds ==
    ASSUME Next
    PROVE  \/ StoreWrite
           \/ Configure
           \/ Tick /\ UNCHANGED << nftVars, resolverVars >>
           \/ NftNext /\ UNCHANGED resolverVars
           \/ ResolverNext /\ UNCHANGED nftVars
<1>1. IssueNext => StoreWrite
  BY DEF IssueNext, StoreWrite
<1>2. OwnerNext => StoreWrite
  BY DEF OwnerNext, StoreWrite
<1>3. AdminNext => StoreWrite \/ Configure
  BY DEF AdminNext, StoreWrite, Configure
<1> QED
  BY <1>1, <1>2, <1>3 DEF Next, OtherNext

\* A step of the system writes the registry's storage in one of these calls, or
\* leaves it as it is.
LEMMA OnlyStoreWrites ==
    ASSUME Next
    PROVE  StoreWrite \/ UNCHANGED << entries, locks, owner_names >>
<1>1. Tick => UNCHANGED << entries, locks, owner_names >>
  BY DEF Tick, storeVars
<1>2. Configure => UNCHANGED << entries, locks, owner_names >>
  BY DEF Configure, Initialize, SetDisputeAdmin, SetNftContract, storeVars
<1>3. NftNext => UNCHANGED << entries, locks, owner_names >>
  BY NftKeepsRegistry DEF storeVars
<1>4. ResolverNext => UNCHANGED << entries, locks, owner_names >>
  BY ResolverKeepsRegistry DEF storeVars
<1> QED
  BY <1>1, <1>2, <1>3, <1>4, StepKinds

-----------------------------------------------------------------------------
(* Type correctness. *)

\* An index that moves a name keeps its type.
LEMMA ReindexType ==
    ASSUME owner_names \in [Addresses -> SUBSET Names],
           NEW a \in Addresses, NEW b \in Addresses, NEW n \in Names
    PROVE  reindex_owner_name(a, b, n) \in [Addresses -> SUBSET Names]
BY DEF reindex_owner_name

\* Every write of the registry's storage keeps its type.
LEMMA StoreWriteType ==
    ASSUME StoreTypeOK, StoreWrite
    PROVE  /\ entries' \in [Names -> RegistryEntry \cup {NONE}]
           /\ locks' \in [Names -> Times \cup {NONE}]
           /\ owner_names' \in [Addresses -> SUBSET Names]
<1> USE BoundsAssumption, AddressAssumption DEF StoreTypeOK
<1> DEFINE Typed == /\ entries' \in [Names -> RegistryEntry \cup {NONE}]
                    /\ locks' \in [Names -> Times \cup {NONE}]
                    /\ owner_names' \in [Addresses -> SUBSET Names]
<1>a. \A n \in Names : Registered(n) => entries[n] \in RegistryEntry
  BY DEF Registered
<1>b. Users \subseteq Addresses /\ Admins \subseteq Addresses
  BY DEF Addresses
<1>c. \A n \in Names : \A t : ensure_name_unlocked(n, t) => locks' \in [Names -> Times \cup {NONE}]
  BY DEF ensure_name_unlocked
<1>d. CallerTimes \subseteq Times
  BY DEF CallerTimes
<1>e. \A n \in Names : \A a, t : ensure_owner(n, a, t) => entries[n] \in RegistryEntry
  BY <1>a DEF ensure_owner, resolve_ok
<1>f. \A c \in 0 .. U32Max : saturating_inc(c) \in 0 .. U32Max
  BY DEF saturating_inc
<1>1. ASSUME NEW n \in Names, NEW a \in Users, NEW now_unix \in CallerTimes,
             NEW e \in Times, NEW g \in Times, Renew(n, a, e, g, now_unix)
      PROVE  Typed
  <2>1. entries[n] \in RegistryEntry
    BY <1>1, <1>a DEF Renew
  <2>2. [entries[n] EXCEPT !.expires_at = e, !.grace_period_ends_at = g] \in RegistryEntry
    BY <2>1 DEF RegistryEntry
  <2>3. entries' = [entries EXCEPT ![n] =
                      [entries[n] EXCEPT !.expires_at = e, !.grace_period_ends_at = g]]
    BY <1>1 DEF Renew
  <2> QED
    BY <1>1, <1>c, <2>2, <2>3 DEF Renew
<1>2. ASSUME NEW n \in Names, NEW a \in Users, NEW now_unix \in CallerTimes,
             NEW e \in Times, NEW g \in Times, NEW m \in Metadata \cup {NONE},
             Register(n, a, NONE, m, now_unix, e, g)
      PROVE  Typed
  <2>1. entries' \in [Names -> RegistryEntry \cup {NONE}]
    BY <1>2, <1>b, <1>d DEF Register, RegistryEntry
  <2>2. owner_names' \in [Addresses -> SUBSET Names]
    <3>1. CASE Registered(n)
      <4>1. entries[n].owner \in Addresses /\ a \in Addresses
        BY <3>1, <1>a, <1>b DEF RegistryEntry
      <4> QED
        BY <1>2, <3>1, <4>1, ReindexType DEF Register
    <3>2. CASE ~Registered(n)
      BY <1>2, <3>2, <1>b DEF Register
    <3> QED
      BY <3>1, <3>2
  <2> QED
    BY <1>2, <1>c, <2>1, <2>2 DEF Register
<1>3. ASSUME NEW n \in Names, NEW a \in Users, NEW now_unix \in CallerTimes,
             Burn(n, a, now_unix)
      PROVE  Typed
  BY <1>3, <1>a, <1>c DEF Burn, RegistryEntry
<1>4. ASSUME NEW n \in Names, NEW a \in Users, NEW b \in Users, NEW now_unix \in CallerTimes,
             Transfer(n, a, b, now_unix)
      PROVE  Typed
  <2>1. entries' \in [Names -> RegistryEntry \cup {NONE}]
    <3> DEFINE c == saturating_inc(entries[n].transfer_count)
    <3>1. entries[n] \in RegistryEntry
      BY <1>4, <1>e DEF Transfer
    <3>2. c \in 0 .. U32Max
      BY <3>1, <1>f DEF RegistryEntry
    <3>3. [entries[n] EXCEPT !.owner = b, !.transfer_count = c] \in RegistryEntry
      BY <1>b, <3>1, <3>2 DEF RegistryEntry
    <3>4. entries' = [entries EXCEPT ![n] =
                        [entries[n] EXCEPT !.owner = b, !.transfer_count = c]]
      BY <1>4 DEF Transfer
    <3> QED
      BY <3>3, <3>4
  <2>2. owner_names' \in [Addresses -> SUBSET Names]
    BY <1>4, <1>b, ReindexType DEF Transfer
  <2> QED
    BY <1>4, <1>c, <2>1, <2>2 DEF Transfer
<1>5. ASSUME NEW n \in Names, NEW a \in Users, NEW r \in ResolverIds \cup {NONE},
             NEW now_unix \in CallerTimes, SetResolver(n, a, r, now_unix)
      PROVE  Typed
  BY <1>5, <1>c, <1>e DEF SetResolver, RegistryEntry
<1>6. ASSUME NEW n \in Names, NEW a \in Users, NEW b \in EntryTargets \cup {NONE},
             NEW now_unix \in CallerTimes, SetTargetAddress(n, a, b, now_unix)
      PROVE  Typed
  BY <1>6, <1>c, <1>e DEF SetTargetAddress, RegistryEntry
<1>7. ASSUME NEW n \in Names, NEW a \in Users, NEW m \in Metadata \cup {NONE},
             NEW now_unix \in CallerTimes, SetMetadata(n, a, m, now_unix)
      PROVE  Typed
  BY <1>7, <1>c, <1>e DEF SetMetadata, RegistryEntry
<1>8. ASSUME NEW n \in Names, NEW c \in NftCandidates, NEW b \in Users, UpdateOwner(n, c, b)
      PROVE  Typed
  <2>1. entries[n] \in RegistryEntry
    BY <1>8, <1>a DEF UpdateOwner, resolve_ok
  <2>2. entries' \in [Names -> RegistryEntry \cup {NONE}]
    BY <1>8, <1>b, <1>f, <2>1 DEF UpdateOwner, RegistryEntry
  <2>3. owner_names' \in [Addresses -> SUBSET Names]
    <3>1. entries[n].owner \in Addresses /\ b \in Addresses
      BY <2>1, <1>b DEF RegistryEntry
    <3> QED
      BY <1>8, <3>1, ReindexType DEF UpdateOwner
  <2> QED
    BY <1>8, <1>c, <2>2, <2>3 DEF UpdateOwner
<1>9. ASSUME NEW n \in Names, NEW a \in Admins, UnlockName(n, a)
      PROVE  Typed
  BY <1>9 DEF UnlockName
<1>10. ASSUME NEW n \in Names, NEW a \in Admins, NEW t \in Times,
              NEW now_unix \in CallerTimes, LockName(n, a, t, now_unix)
       PROVE  Typed
  BY <1>10 DEF LockName
<1> QED
  BY <1>1, <1>2, <1>3, <1>4, <1>5, <1>6, <1>7, <1>8, <1>9, <1>10 DEF StoreWrite

\* The calls into the NFT contract keep the type of its storage, whoever makes them.
LEMMA TokenCallType ==
    ASSUME StoreTypeOK, NftTypeOK,
           NEW n \in Names, NEW a \in Addresses, NEW m \in Metadata \cup {NONE}, NEW t \in Times,
           \/ mint(n, a, m, t)
           \/ burn(n)
           \/ burn_then_mint(n, a, m, t)
           \/ sync_expiry(n, t)
           \/ sync_owner(n, a)
    PROVE  /\ tokens' \in [Names -> TokenRecord \cup {NONE}]
           /\ token_ids' \in [Names -> Nat]
           /\ owner_tokens' \in [Addresses -> SUBSET Names]
           /\ name_data' \in [Names -> NameRecord \cup {NONE}]
<1> USE BoundsAssumption, AddressAssumption DEF NftTypeOK
<1> DEFINE Typed == /\ tokens' \in [Names -> TokenRecord \cup {NONE}]
                    /\ token_ids' \in [Names -> Nat]
                    /\ owner_tokens' \in [Addresses -> SUBSET Names]
                    /\ name_data' \in [Names -> NameRecord \cup {NONE}]
<1>a. Minted(n) => tokens[n] \in TokenRecord /\ tokens[n].owner \in Addresses
  BY DEF Minted, TokenRecord
<1>1. CASE mint(n, a, m, t)
  <2>1. CASE nft_registry
    <3>1. entries[n] \in RegistryEntry
      BY <1>1, <2>1 DEF mint, resolve_ok, Registered, StoreTypeOK
    <3>2. name_record(n) \in NameRecord
      BY <3>1 DEF name_record, NameRecord, RegistryEntry
    <3> QED
      BY <1>1, <2>1, <3>2 DEF mint, TokenRecord
  <2>2. CASE ~nft_registry
    BY <1>1, <2>2 DEF mint, TokenRecord
  <2> QED
    BY <2>1, <2>2
<1>2. CASE burn(n)
  BY <1>2, <1>a DEF burn
<1>3. CASE burn_then_mint(n, a, m, t)
  BY <1>3, <1>a DEF burn_then_mint, TokenRecord
<1>4. CASE sync_expiry(n, t)
  BY <1>4, <1>a DEF sync_expiry, TokenRecord
<1>5. CASE sync_owner(n, a)
  BY <1>5, <1>a DEF sync_owner, reindex_owner_token, TokenRecord
<1> QED
  BY <1>1, <1>2, <1>3, <1>4, <1>5

\* The registry's calls change tokens through the NFT contract's entrypoints only.
LEMMA WithNft ==
    ASSUME StoreWrite
    PROVE  /\ UNCHANGED << clock, configVars, nft_admin, nft_registry >>
           /\ \/ UNCHANGED tokenVars
              \/ /\ nft_contract = NFT
                 /\ \E n \in Names, a \in Users, m \in Metadata \cup {NONE}, t \in Times :
                        \/ ~nft_registry /\ mint(n, a, m, t)
                        \/ burn(n)
                        \/ burn_then_mint(n, a, m, t)
                        \/ sync_expiry(n, t)
                        \/ sync_owner(n, a)
<1> DEFINE Kept == UNCHANGED << clock, configVars, nft_admin, nft_registry >>
           Called == nft_contract = NFT /\
                     \E n \in Names, a \in Users, m \in Metadata \cup {NONE}, t \in Times :
                        \/ ~nft_registry /\ mint(n, a, m, t)
                        \/ burn(n)
                        \/ burn_then_mint(n, a, m, t)
                        \/ sync_expiry(n, t)
                        \/ sync_owner(n, a)
<1>1. ASSUME NEW n \in Names, NEW a \in Users, NEW now_unix \in CallerTimes,
             NEW e \in Times, NEW g \in Times, Renew(n, a, e, g, now_unix)
      PROVE  Kept /\ (UNCHANGED tokenVars \/ Called)
  BY <1>1 DEF Renew, RegistryCall, with_nft
<1>2. ASSUME NEW n \in Names, NEW a \in Users, NEW now_unix \in CallerTimes,
             NEW e \in Times, NEW g \in Times, NEW m \in Metadata \cup {NONE},
             Register(n, a, NONE, m, now_unix, e, g)
      PROVE  Kept /\ (UNCHANGED tokenVars \/ Called)
  BY <1>2 DEF Register, RegistryCall, with_nft
<1>3. ASSUME NEW n \in Names, NEW a \in Users, NEW now_unix \in CallerTimes,
             Burn(n, a, now_unix)
      PROVE  Kept /\ (UNCHANGED tokenVars \/ Called)
  <2>1. now_unix \in Times
    BY DEF CallerTimes
  <2> QED
    BY <1>3, <2>1 DEF Burn, RegistryCall, with_nft
<1>4. ASSUME NEW n \in Names, NEW a \in Users, NEW b \in Users, NEW now_unix \in CallerTimes,
             Transfer(n, a, b, now_unix)
      PROVE  Kept /\ (UNCHANGED tokenVars \/ Called)
  <2>1. now_unix \in Times
    BY DEF CallerTimes
  <2> QED
    BY <1>4, <2>1 DEF Transfer, RegistryCall, with_nft
<1>5. ASSUME NEW n \in Names, NEW a, NEW x, NEW now_unix \in CallerTimes,
             \/ SetResolver(n, a, x, now_unix)
             \/ SetTargetAddress(n, a, x, now_unix)
             \/ SetMetadata(n, a, x, now_unix)
             \/ UpdateOwner(n, a, x)
             \/ UnlockName(n, a)
             \/ LockName(n, a, x, now_unix)
      PROVE  Kept /\ UNCHANGED tokenVars
  BY <1>5 DEF SetResolver, SetTargetAddress, SetMetadata, UpdateOwner, UnlockName, LockName,
     RegistryCall
<1>6. ASSUME NEW n \in Names, NEW a, NEW x, UpdateOwner(n, a, x) \/ UnlockName(n, a)
      PROVE  Kept /\ UNCHANGED tokenVars
  BY <1>6 DEF UpdateOwner, UnlockName, RegistryCall
<1> QED
  BY <1>1, <1>2, <1>3, <1>4, <1>5, <1>6 DEF StoreWrite

\* Every entrypoint of the NFT contract keeps the type of its storage.
LEMMA NftNextType ==
    ASSUME StoreTypeOK, NftTypeOK, NftNext
    PROVE  NftTypeOK' /\ invoker' \in Addresses \cup {NONE}
<1> USE AddressAssumption
<1>a. Users \subseteq Addresses /\ Admins \subseteq Addresses
  BY DEF Addresses
<1>b. \A n \in Names : Minted(n) => tokens[n] \in TokenRecord /\ tokens[n].owner \in Addresses
  BY DEF NftTypeOK, Minted, TokenRecord
<1>c. ASSUME NftAdminCall PROVE nft_admin' = nft_admin /\ nft_registry' = nft_registry
                                /\ invoker' \in Addresses
  BY <1>a, <1>c DEF NftAdminCall
<1>d. ASSUME NftHolderCall PROVE nft_admin' = nft_admin /\ nft_registry' = nft_registry
                                 /\ invoker' = NONE
  BY <1>d DEF NftHolderCall
<1>1. CASE \E a \in NftAdmins : NftInitialize(a)
  BY <1>1 DEF NftInitialize, NftTypeOK, tokenVars
<1>2. CASE NftSetRegistry
  BY <1>2, <1>a DEF NftSetRegistry, NftTypeOK, tokenVars
<1>3. ASSUME NEW n \in Names, NEW a \in Users, NEW t \in Times,
             AdminSyncOwner(n, a) \/ AdminMint(n, a, t)
      PROVE  NftTypeOK' /\ invoker' \in Addresses
  <2>1. NftAdminCall /\ (mint(n, a, NONE, t) \/ sync_owner(n, a))
    BY <1>3 DEF AdminSyncOwner, AdminMint
  <2>2. a \in Addresses /\ NONE \in Metadata \cup {NONE}
    BY <1>a
  <2> QED
    BY <1>c, <2>1, <2>2, TokenCallType DEF NftTypeOK
<1>4. ASSUME NEW n \in Names, RefreshNameData(n)
      PROVE  NftTypeOK' /\ invoker' = NONE
  <2>1. entries[n] \in RegistryEntry
    BY <1>4 DEF RefreshNameData, resolve_ok, Registered, StoreTypeOK
  <2>2. name_record(n) \in NameRecord
    BY <2>1 DEF name_record, NameRecord, RegistryEntry
  <2> QED
    BY <1>4, <1>d, <2>2 DEF RefreshNameData, NftTypeOK
<1>5. ASSUME NEW n \in Names, NEW a \in Users, NEW b \in Users, Approve(n, a, b) \/ ApproveClear(n, a)
      PROVE  NftTypeOK' /\ invoker' = NONE
  <2>1. tokens[n] \in TokenRecord
    BY <1>5, <1>b DEF Approve, ApproveClear
  <2>2. \A x \in Addresses \cup {NONE} : [tokens[n] EXCEPT !.approved = x] \in TokenRecord
    BY <2>1 DEF TokenRecord
  <2>3. tokens' \in [Names -> TokenRecord \cup {NONE}]
    BY <1>5, <1>a, <2>2 DEF Approve, ApproveClear, NftTypeOK
  <2> QED
    BY <1>5, <1>d, <2>3 DEF Approve, ApproveClear, NftTypeOK
<1>6. ASSUME NEW n \in Names, NEW b \in Users, Minted(n), hand_over(n, b)
      PROVE  NftTypeOK' /\ invoker' = NONE
  <2>1. [tokens[n] EXCEPT !.owner = b, !.approved = NONE] \in TokenRecord
    BY <1>6, <1>a, <1>b DEF TokenRecord
  <2>2. tokens' = [tokens EXCEPT ![n] = [tokens[n] EXCEPT !.owner = b, !.approved = NONE]]
    BY <1>6 DEF hand_over
  <2>3. tokens' \in [Names -> TokenRecord \cup {NONE}]
    BY <2>1, <2>2 DEF NftTypeOK
  <2>4. owner_tokens' \in [Addresses -> SUBSET Names]
    BY <1>6, <1>a, <1>b DEF hand_over, reindex_owner_token, NftTypeOK
  <2> QED
    BY <1>6, <1>d, <2>3, <2>4 DEF hand_over, NftTypeOK
<1>7. ASSUME NEW n \in Names, NEW a \in Users, NEW b \in Users, NEW c \in Users,
             NftTransfer(n, a, b) \/ NftTransferFrom(n, a, b, c)
      PROVE  NftTypeOK' /\ invoker' = NONE
  BY <1>6, <1>7 DEF NftTransfer, NftTransferFrom
<1>8. ASSUME NEW n \in Names, \/ AdminBurn(n)
                              \/ \E t \in Times : AdminSyncExpiry(n, t)
      PROVE  NftTypeOK' /\ invoker' \in Addresses
  <2>1. ASSUME NEW t \in Times PROVE ~AdminSyncExpiry(n, t) \/ (NftTypeOK' /\ invoker' \in Addresses)
    <3>1. SUFFICES ASSUME AdminSyncExpiry(n, t) PROVE NftTypeOK' /\ invoker' \in Addresses
      OBVIOUS
    <3>2. NftAdminCall /\ sync_expiry(n, t) /\ Minted(n)
      BY <3>1 DEF AdminSyncExpiry, sync_expiry
    <3>3. tokens[n].owner \in Addresses /\ NONE \in Metadata \cup {NONE}
      BY <3>2, <1>b
    <3> QED
      BY <1>c, <3>2, <3>3, TokenCallType DEF NftTypeOK
  <2>2. ASSUME AdminBurn(n) PROVE NftTypeOK' /\ invoker' \in Addresses
    BY <1>b, <1>c, <2>2 DEF AdminBurn, burn, NftTypeOK
  <2> QED
    BY <1>8, <2>1, <2>2
<1>9. 0 \in Times
  BY BoundsAssumption DEF Times
<1> QED
  BY <1>1, <1>2, <1>3, <1>4, <1>5, <1>7, <1>8, <1>9 DEF NftNext

\* The mappings keep their type when the address of a name is rewritten.
LEMMA RemapType ==
    ASSUME ResolverTypeOK, NEW n \in Names, NEW old, NEW addrs, remap_reverse(n, old, addrs)
    PROVE  /\ reverse' \in [Addresses -> Names \cup {NONE}]
           /\ primary' \in [Addresses -> Names \cup {NONE}]
BY DEF ResolverTypeOK, remap_reverse

\* What a batch of operations contributes.
LEMMA BatchFacts ==
    ASSUME NEW S, NEW b \in Batches(S)
    PROVE  /\ Len(b) \in Nat
           /\ \A i \in 1 .. Len(b) : b[i] \in S
           /\ b # << >> => Len(b) \in 1 .. Len(b)
<1>1. PICK k \in 0 .. MaxBatchOps : b \in [1 .. k -> S]
  BY DEF Batches
<1>2. b \in Seq(S) /\ Len(b) = k
  BY <1>1, ResolverAssumption
<1> QED
  BY <1>1, <1>2

\* Every entrypoint of the resolver contract keeps the type of its storage.
LEMMA ResolverNextType ==
    ASSUME StoreTypeOK, ResolverTypeOK, ResolverNext
    PROVE  ResolverTypeOK' /\ invoker' \in Addresses \cup {NONE}
<1> USE AddressAssumption, ResolverAssumption
<1>a. Users \subseteq Addresses /\ Targets \subseteq Addresses
  BY DEF Addresses
<1>b. \A n \in Names : HasRecord(n) =>
        /\ forward[n] \in ResolutionRecord
        /\ forward[n].addresses \in [Chains -> Addresses \cup {NONE}]
        /\ forward[n].text_records \in SUBSET TextKeys
  BY DEF ResolverTypeOK, HasRecord, ResolutionRecord
<1>c. \A a : ResolverCall(a) => invoker' = a
  BY DEF ResolverCall
<1>1. CASE ResolverInitialize
  BY <1>1, <1>c DEF ResolverInitialize, ResolverTypeOK
<1>2. ASSUME NEW a \in Addresses, ReverseLookup(a)
      PROVE  ResolverTypeOK' /\ invoker' = NONE
  BY <1>2, <1>c DEF ReverseLookup, ResolverTypeOK
<1>3. ASSUME NEW n \in Names, NEW caller \in Users, NEW a \in Targets, NEW now_unix,
             SetRecord(n, caller, a, now_unix)
      PROVE  ResolverTypeOK' /\ invoker' = caller
  <2> DEFINE old == IF HasRecord(n) THEN forward[n].addresses ELSE [c \in Chains |-> NONE]
             txt == IF HasRecord(n) THEN forward[n].text_records ELSE {}
             rec == [ owner |-> caller, addresses |-> [old EXCEPT ![STELLAR] = a],
                      text_records |-> txt ]
  <2>1. old \in [Chains -> Addresses \cup {NONE}] /\ txt \in SUBSET TextKeys
    BY <1>b
  <2>2. [old EXCEPT ![STELLAR] = a] \in [Chains -> Addresses \cup {NONE}]
    BY <1>a, <2>1
  <2>3. rec \in ResolutionRecord
    BY <1>a, <2>1, <2>2 DEF ResolutionRecord
  <2>4. forward' = [forward EXCEPT ![n] = rec] /\ remap_reverse(n, old[STELLAR], << a >>)
    BY <1>3 DEF SetRecord
  <2>5. forward' \in [Names -> ResolutionRecord \cup {NONE}]
    BY <2>3, <2>4 DEF ResolverTypeOK
  <2>6. UNCHANGED << wildcard, resolver_registry >> /\ invoker' = caller
    BY <1>3, <1>c DEF SetRecord
  <2> QED
    BY <2>4, <2>5, <2>6, RemapType DEF ResolverTypeOK
<1>4. ASSUME NEW n \in Names, NEW caller \in Users, NEW a \in Targets, NEW c \in Chains, NEW now_unix,
             SetAddress(n, caller, c, a, now_unix)
      PROVE  ResolverTypeOK' /\ invoker' = caller
  <2>1. HasRecord(n)
    BY <1>4 DEF SetAddress
  <2>2. [forward[n].addresses EXCEPT ![c] = a] \in [Chains -> Addresses \cup {NONE}]
    BY <1>a, <1>b, <2>1
  <2>3. [forward[n] EXCEPT !.addresses = [forward[n].addresses EXCEPT ![c] = a]] \in ResolutionRecord
    BY <1>b, <2>1, <2>2 DEF ResolutionRecord
  <2>4. forward' = [forward EXCEPT ![n] =
                      [forward[n] EXCEPT !.addresses = [forward[n].addresses EXCEPT ![c] = a]]]
    BY <1>4 DEF SetAddress
  <2>5. forward' \in [Names -> ResolutionRecord \cup {NONE}]
    BY <2>3, <2>4 DEF ResolverTypeOK
  <2>6. \E addrs : remap_reverse(n, stellar_address(n), addrs)
    BY <1>4 DEF SetAddress
  <2>7. UNCHANGED << wildcard, resolver_registry >> /\ invoker' = caller
    BY <1>4, <1>c DEF SetAddress
  <2> QED
    BY <2>5, <2>6, <2>7, RemapType DEF ResolverTypeOK
<1>5. ASSUME NEW n \in Names, NEW caller \in Users, NEW key \in TextKeys, NEW now_unix,
             SetTextRecord(n, caller, key, now_unix)
      PROVE  ResolverTypeOK' /\ invoker' = caller
  BY <1>5, <1>b, <1>c DEF SetTextRecord, ResolverTypeOK, ResolutionRecord
<1>6. ASSUME NEW n \in Names, NEW caller \in Users, NEW now_unix,
             NEW addrs \in Batches(Targets), NEW keys \in Batches(TextKeys),
             BatchSet(n, caller, addrs, keys, now_unix)
      PROVE  ResolverTypeOK' /\ invoker' = caller
  <2> DEFINE last == IF addrs = << >> THEN forward[n].addresses[STELLAR] ELSE addrs[Len(addrs)]
             ads  == [forward[n].addresses EXCEPT ![STELLAR] = last]
             txt  == add_text_records(forward[n].text_records, keys)
  <2>1. HasRecord(n)
    BY <1>6 DEF BatchSet
  <2>2. last \in Addresses \cup {NONE}
    BY <1>a, <1>b, <2>1, BatchFacts
  <2>3. ads \in [Chains -> Addresses \cup {NONE}]
    BY <1>b, <2>1, <2>2
  <2>4. txt \in SUBSET TextKeys
    <3>1. \A j \in 1 .. Len(keys) : keys[j] \in TextKeys
      BY BatchFacts
    <3>2. forward[n].text_records \subseteq TextKeys
      BY <1>b, <2>1
    <3> HIDE DEF txt
    <3>3. txt = add_text_records(forward[n].text_records, keys)
      BY DEF txt
    <3>4. \A x \in txt : x \in forward[n].text_records \/ \E j \in 1 .. Len(keys) : x = keys[j]
      BY <3>3, Zenon DEF add_text_records
    <3> QED
      BY <3>1, <3>2, <3>4
  <2>5. [forward[n] EXCEPT !.addresses = ads, !.text_records = txt] \in ResolutionRecord
    BY <1>b, <2>1, <2>3, <2>4 DEF ResolutionRecord
  <2>6. forward' = [forward EXCEPT ![n] =
                      [forward[n] EXCEPT !.addresses = ads, !.text_records = txt]]
    BY <1>6 DEF BatchSet
  <2>7. forward' \in [Names -> ResolutionRecord \cup {NONE}]
    BY <2>5, <2>6 DEF ResolverTypeOK
  <2>8. remap_reverse(n, stellar_address(n), addrs)
        /\ UNCHANGED << wildcard, resolver_registry >> /\ invoker' = caller
    BY <1>6, <1>c DEF BatchSet
  <2> QED
    BY <2>7, <2>8, RemapType DEF ResolverTypeOK
<1>7. ASSUME NEW n \in Names, NEW caller \in Users, NEW b \in BOOLEAN, NEW now_unix,
             SetWildcardResolution(n, caller, b, now_unix)
      PROVE  ResolverTypeOK' /\ invoker' = NONE
  BY <1>7, <1>c DEF SetWildcardResolution, ResolverTypeOK
<1>8. ASSUME NEW n \in Names, NEW caller \in Users, NEW a \in Targets, SetPrimaryName(a, caller, n)
      PROVE  ResolverTypeOK' /\ invoker' = caller
  BY <1>8, <1>c DEF SetPrimaryName, ResolverTypeOK
<1>9. ASSUME NEW n \in Names, NEW caller \in Users, RemoveRecord(n, caller)
      PROVE  ResolverTypeOK' /\ invoker' = caller
  BY <1>9, <1>c DEF RemoveRecord, ResolverTypeOK
<1>10. ASSUME NEW n \in Names, NEW caller \in Users, NEW b \in Users,
              ResolverUpdateOwner(n, caller, b) \/ TransferRecordOwner(n, caller, b)
       PROVE  ResolverTypeOK' /\ invoker' = caller
  BY <1>10, <1>a, <1>b, <1>c DEF ResolverUpdateOwner, TransferRecordOwner, ResolverTypeOK, ResolutionRecord
<1> QED
  BY <1>1, <1>2, <1>3, <1>4, <1>5, <1>6, <1>7, <1>8, <1>9, <1>10, <1>a DEF ResolverNext

\* The registry's calls change the resolver by dropping mappings only, and are
\* made by an account or by the address wired as the NFT contract.
LEMMA WithResolver ==
    ASSUME StoreWrite
    PROVE  /\ invoker' \in Addresses \cup NftCandidates
           /\ \/ UNCHANGED resolverVars
              \/ \E n \in Names, a \in Users : clear_reverse_record(n, a)
<1> DEFINE Done == /\ invoker' \in Addresses \cup NftCandidates
                   /\ \/ UNCHANGED resolverVars
                      \/ \E n \in Names, a \in Users : clear_reverse_record(n, a)
<1>a. Users \subseteq Addresses /\ Admins \subseteq Addresses
  BY DEF Addresses
<1>1. ASSUME NEW n \in Names, NEW a \in Users, NEW now_unix \in CallerTimes,
             \/ \E e, g \in Times : \/ Renew(n, a, e, g, now_unix)
                                  \/ \E m : Register(n, a, NONE, m, now_unix, e, g)
             \/ Burn(n, a, now_unix)
             \/ \E b : Transfer(n, a, b, now_unix)
             \/ \E b : SetResolver(n, a, b, now_unix)
             \/ \E b : SetTargetAddress(n, a, b, now_unix)
             \/ \E b : SetMetadata(n, a, b, now_unix)
      PROVE  Done
  <2>1. invoker' = a
    BY <1>1 DEF Renew, Register, Burn, Transfer, SetResolver, SetTargetAddress, SetMetadata,
       RegistryCall
  <2>2. ASSUME NEW b, Transfer(n, a, b, now_unix)
        PROVE  UNCHANGED resolverVars \/ clear_reverse_record(n, a)
    BY <2>2 DEF Transfer
  <2>3. UNCHANGED resolverVars \/ clear_reverse_record(n, a)
    BY <1>1, <2>2 DEF Renew, Register, Burn, SetResolver, SetTargetAddress, SetMetadata
  <2> QED
    BY <1>a, <2>1, <2>3
<1>2. ASSUME NEW n \in Names, NEW c \in NftCandidates, NEW b, UpdateOwner(n, c, b)
      PROVE  Done
  BY <1>2 DEF UpdateOwner, RegistryCall
<1>3. ASSUME NEW n \in Names, NEW a \in Admins,
             UnlockName(n, a) \/ \E t, now_unix : LockName(n, a, t, now_unix)
      PROVE  Done
  BY <1>3, <1>a DEF UnlockName, LockName, RegistryCall
<1> QED
  BY <1>1, <1>2, <1>3 DEF StoreWrite

\* Every step keeps the type invariant.
LEMMA NextType ==
    ASSUME TypeOK, Next
    PROVE  TypeOK'
<1> USE DEF TypeOK
<1>a. Users \subseteq Addresses /\ Admins \subseteq Addresses
  BY DEF Addresses
<1>1. CASE StoreWrite
  <2>1. StoreTypeOK'
    BY <1>1, StoreWriteType, WithNft, WithResolver DEF StoreTypeOK, configVars
  <2>2. NftTypeOK'
    <3>1. CASE UNCHANGED tokenVars
      BY <1>1, <3>1, WithNft DEF NftTypeOK, tokenVars
    <3>2. ASSUME NEW n \in Names, NEW a \in Users, NEW m \in Metadata \cup {NONE}, NEW t \in Times,
                 mint(n, a, m, t) \/ burn(n) \/ burn_then_mint(n, a, m, t)
                 \/ sync_expiry(n, t) \/ sync_owner(n, a)
          PROVE  NftTypeOK'
      BY <1>1, <1>a, <3>2, TokenCallType, WithNft DEF NftTypeOK
    <3> QED
      BY <1>1, <3>1, <3>2, WithNft
  <2>3. ResolverTypeOK'
    <3>1. CASE UNCHANGED resolverVars
      BY <3>1 DEF resolverVars, ResolverTypeOK
    <3>2. ASSUME NEW n \in Names, NEW a \in Users, clear_reverse_record(n, a)
          PROVE  ResolverTypeOK'
      BY <1>a, <3>2 DEF clear_reverse_record, drop_mappings, ResolverTypeOK
    <3> QED
      BY <1>1, <3>1, <3>2, WithResolver
  <2> QED
    BY <2>1, <2>2, <2>3
<1>2. CASE Tick /\ UNCHANGED << nftVars, resolverVars >>
  BY <1>2, BoundsAssumption
     DEF Tick, StoreTypeOK, NftTypeOK, ResolverTypeOK, nftVars, tokenVars, resolverVars,
         storeVars, configVars, Times
<1>3. CASE Configure
  BY <1>3, <1>a DEF Configure, Initialize, SetDisputeAdmin, SetNftContract, RegistryCall, StoreTypeOK, NftTypeOK,
     ResolverTypeOK, tokenVars, resolverVars, storeVars
<1>4. CASE NftNext /\ UNCHANGED resolverVars
  <2>1. StoreTypeOK'
    BY <1>4, NftNextType, NftKeepsRegistry DEF StoreTypeOK, storeVars, configVars
  <2> QED
    BY <1>4, <2>1, NftNextType DEF ResolverTypeOK, resolverVars
<1>5. CASE ResolverNext /\ UNCHANGED nftVars
  <2>1. StoreTypeOK'
    BY <1>5, ResolverNextType, ResolverKeepsRegistry DEF StoreTypeOK, storeVars, configVars
  <2> QED
    BY <1>5, <2>1, ResolverNextType DEF NftTypeOK, nftVars, tokenVars
<1> QED
  BY <1>1, <1>2, <1>3, <1>4, <1>5, StepKinds

\* The storage the three contracts are deployed with has its type.
LEMMA InitType ==
    ASSUME Init
    PROVE  TypeOK
<1>1. StoreTypeOK
  BY BoundsAssumption DEF Init, StoreInit, StoreTypeOK, Times
<1>2. NftTypeOK
  BY DEF Init, NftInit, NftTypeOK
<1>3. ResolverTypeOK
  <2>1. wildcard \in [Names -> BOOLEAN] /\ resolver_registry \in BOOLEAN
    BY Zenon DEF Init, ResolverInit
  <2> QED
    BY <2>1 DEF Init, ResolverInit, ResolverTypeOK
<1> QED
  BY <1>1, <1>2, <1>3 DEF TypeOK

\* A step that changes none of it keeps the type.
LEMMA StutterType ==
    ASSUME TypeOK, UNCHANGED vars
    PROVE  TypeOK'
BY DEF vars, TypeOK, StoreTypeOK, NftTypeOK, ResolverTypeOK, registryVars, storeVars,
       configVars, nftVars, tokenVars, resolverVars

\* Every storage cell of the three contracts keeps its type: in particular the
\* transfer counter stays within its width, and no time leaves the range of u64.
THEOREM TypeCorrect == Spec => []TypeOK
<1>1. Init => TypeOK
  BY InitType
<1>2. TypeOK /\ [Next]_vars => TypeOK'
  BY NextType, StutterType
<1> QED
  BY <1>1, <1>2, PTL DEF Spec

-----------------------------------------------------------------------------
(***************************************************************************)
(* What a call that writes the registry's storage does to the name it is   *)
(* about.  The proofs below argue about these six effects instead of the   *)
(* eleven calls that have them.                                            *)
(***************************************************************************)
OthersKept(n) ==
    \A m \in Names \ {n} : entries'[m] = entries[m] /\ locks'[m] = locks[m]

Unlocked(n, now_unix) ==
    /\ locks[n] # NONE => locks[n] < now_unix
    /\ locks'[n] = NONE

SameTerm(n) ==
    /\ entries'[n].registered_at = entries[n].registered_at
    /\ entries'[n].expires_at = entries[n].expires_at
    /\ entries'[n].grace_period_ends_at = entries[n].grace_period_ends_at

\* register
TakenOver(n, now_unix) ==
    /\ Unlocked(n, now_unix)
    /\ Registered(n) => is_claimable_at(entries[n].grace_period_ends_at, now_unix)
    /\ entries'[n] \in RegistryEntry
    /\ entries'[n].registered_at = now_unix
    /\ validate_lifecycle_timestamps(now_unix, entries'[n].expires_at,
                                     entries'[n].grace_period_ends_at)
    /\ owner_names' = IF Registered(n)
                      THEN reindex_owner_name(entries[n].owner, entries'[n].owner, n)
                      ELSE [owner_names EXCEPT ![entries'[n].owner] = @ \cup {n}]
    /\ invoker' = entries'[n].owner

\* set_resolver, set_target_address, set_metadata
Edited(n, now_unix) ==
    /\ Unlocked(n, now_unix)
    /\ resolve_ok(n, now_unix)
    /\ entries'[n] \in RegistryEntry
    /\ SameTerm(n)
    /\ entries'[n].owner = entries[n].owner
    /\ UNCHANGED owner_names
    /\ invoker' = entries[n].owner

\* transfer, update_owner
Moved(n, now_unix) ==
    /\ Unlocked(n, now_unix)
    /\ resolve_ok(n, now_unix)
    /\ entries'[n] \in RegistryEntry
    /\ SameTerm(n)
    /\ owner_names' = reindex_owner_name(entries[n].owner, entries'[n].owner, n)
    /\ invoker' \in {entries[n].owner, nft_contract}

\* renew
Prolonged(n, now_unix) ==
    /\ Unlocked(n, now_unix)
    /\ Registered(n)
    /\ ~is_claimable_at(entries[n].grace_period_ends_at, now_unix)
    /\ entries'[n] \in RegistryEntry
    /\ entries'[n].owner = entries[n].owner
    /\ entries'[n].registered_at = entries[n].registered_at
    /\ entries'[n].expires_at >= entries[n].expires_at
    /\ entries'[n].grace_period_ends_at >= entries[n].grace_period_ends_at
    /\ validate_lifecycle_timestamps(now_unix, entries'[n].expires_at,
                                     entries'[n].grace_period_ends_at)
    /\ UNCHANGED owner_names
    /\ invoker' = entries[n].owner

\* burn
GivenUp(n, now_unix) ==
    /\ Unlocked(n, now_unix)
    /\ Registered(n)
    /\ \/ invoker' = entries[n].owner
       \/ is_claimable_at(entries[n].grace_period_ends_at, now_unix)
    /\ entries'[n] = NONE
    /\ owner_names' = [owner_names EXCEPT ![entries[n].owner] = @ \ {n}]

\* lock_name, unlock_name
LockChanged(n) ==
    /\ UNCHANGED << entries, owner_names >>
    /\ Registered(n) \/ locks'[n] = NONE
    /\ invoker' = dispute_admin

\* Every write has one of the six effects on one name.
LEMMA WriteEffect ==
    ASSUME StoreTypeOK, StoreWrite
    PROVE  \E n \in Names, t \in CallerTimes :
              /\ OthersKept(n)
              /\ \/ TakenOver(n, t) \/ Edited(n, t) \/ Moved(n, t) \/ Prolonged(n, t)
                 \/ GivenUp(n, t) \/ LockChanged(n)
<1> USE AddressAssumption, BoundsAssumption
<1> DEFINE Effect(n, t) ==
              /\ OthersKept(n)
              /\ \/ TakenOver(n, t) \/ Edited(n, t) \/ Moved(n, t) \/ Prolonged(n, t)
                 \/ GivenUp(n, t) \/ LockChanged(n)
<1>a. Users \subseteq Addresses
  BY DEF Addresses
<1>b. \A n \in Names : Registered(n) => entries[n] \in RegistryEntry
  BY DEF Registered, StoreTypeOK
<1>c. clock \in CallerTimes
  BY DEF StoreTypeOK, CallerTimes, Times
<1>d. entries' \in [Names -> RegistryEntry \cup {NONE}]
  BY StoreWriteType
<1>e. \A n \in Names : \A t : ensure_name_unlocked(n, t) =>
        Unlocked(n, t) /\ \A m \in Names \ {n} : locks'[m] = locks[m]
  BY DEF ensure_name_unlocked, Unlocked, StoreTypeOK
<1>f. ASSUME NEW n \in Names, NEW entry, entries' = [entries EXCEPT ![n] = entry]
      PROVE  entries'[n] = entry /\ \A m \in Names \ {n} : entries'[m] = entries[m]
  BY <1>f DEF StoreTypeOK
<1>1. ASSUME NEW n \in Names, NEW a \in Users, NEW t \in CallerTimes,
             NEW e \in Times, NEW g \in Times, Renew(n, a, e, g, t)
      PROVE  Effect(n, t)
  <2>1. entries[n] \in RegistryEntry
    BY <1>1, <1>b DEF Renew
  <2>2. entries' = [entries EXCEPT ![n] =
                      [entries[n] EXCEPT !.expires_at = e, !.grace_period_ends_at = g]]
    BY <1>1 DEF Renew
  <2>3. entries'[n] = [entries[n] EXCEPT !.expires_at = e, !.grace_period_ends_at = g]
    BY <2>2, <1>f
  <2>4. /\ entries'[n].owner = entries[n].owner
        /\ entries'[n].registered_at = entries[n].registered_at
        /\ entries'[n].expires_at = e
        /\ entries'[n].grace_period_ends_at = g
        /\ entries'[n] \in RegistryEntry
    BY <2>1, <2>3 DEF RegistryEntry
  <2>5. OthersKept(n) /\ Unlocked(n, t)
    BY <1>1, <1>e, <1>f, <2>2 DEF Renew, OthersKept
  <2>6. Prolonged(n, t)
    BY <1>1, <2>4, <2>5 DEF Renew, RegistryCall, Prolonged
  <2> QED
    BY <2>5, <2>6
<1>2. ASSUME NEW n \in Names, NEW a \in Users, NEW t \in CallerTimes,
             NEW e \in Times, NEW g \in Times, NEW m \in Metadata \cup {NONE},
             Register(n, a, NONE, m, t, e, g)
      PROVE  Effect(n, t)
  <2> DEFINE entry == [ owner |-> a, resolver |-> NONE, target_address |-> NONE,
                        metadata_uri |-> m, registered_at |-> t, expires_at |-> e,
                        grace_period_ends_at |-> g, transfer_count |-> 0 ]
  <2>1. entries' = [entries EXCEPT ![n] = entry]
    BY <1>2 DEF Register
  <2>2. entries'[n] = entry
    BY <2>1, <1>f
  <2>3. /\ entries'[n].owner = a
        /\ entries'[n].registered_at = t
        /\ entries'[n].expires_at = e
        /\ entries'[n].grace_period_ends_at = g
    BY <2>2
  <2>4. entries'[n] \in RegistryEntry
    BY <1>a, <2>2 DEF RegistryEntry, CallerTimes
  <2>5. OthersKept(n) /\ Unlocked(n, t)
    BY <1>2, <1>e, <1>f, <2>1 DEF Register, OthersKept
  <2>6. TakenOver(n, t)
    BY <1>2, <2>3, <2>4, <2>5 DEF Register, RegistryCall, TakenOver
  <2> QED
    BY <2>5, <2>6
<1>3. ASSUME NEW n \in Names, NEW a \in Users, NEW t \in CallerTimes, Burn(n, a, t)
      PROVE  Effect(n, t)
  <2>1. entries'[n] = NONE /\ OthersKept(n) /\ Unlocked(n, t)
    BY <1>3, <1>e, <1>f DEF Burn, OthersKept
  <2> QED
    BY <1>3, <2>1 DEF Burn, RegistryCall, GivenUp
<1>4. ASSUME NEW n \in Names, NEW b \in Users, NEW t \in CallerTimes,
             resolve_ok(n, t), ensure_name_unlocked(n, t),
             entries' = [entries EXCEPT ![n].owner = b, ![n].transfer_count = saturating_inc(@)],
             owner_names' = reindex_owner_name(entries[n].owner, b, n),
             invoker' \in {entries[n].owner, nft_contract}
      PROVE  Effect(n, t)
  <2> DEFINE count == saturating_inc(entries[n].transfer_count)
  <2>1. entries[n] \in RegistryEntry
    BY <1>4, <1>b DEF resolve_ok
  <2>2. count \in 0 .. U32Max
    BY <2>1 DEF RegistryEntry, saturating_inc
  <2>3. entries' = [entries EXCEPT ![n] =
                      [entries[n] EXCEPT !.owner = b, !.transfer_count = count]]
    BY <1>4
  <2> HIDE DEF count
  <2>4. entries'[n] = [entries[n] EXCEPT !.owner = b, !.transfer_count = count]
    BY <2>3, <1>f
  <2>5. SameTerm(n) /\ entries'[n].owner = b
    BY <2>1, <2>4 DEF RegistryEntry, SameTerm
  <2>6. entries'[n] \in RegistryEntry
    BY <1>a, <2>1, <2>2, <2>4 DEF RegistryEntry
  <2>7. OthersKept(n) /\ Unlocked(n, t)
    BY <1>4, <1>e, <1>f, <2>3 DEF OthersKept
  <2>8. Moved(n, t)
    BY <1>4, <2>5, <2>6, <2>7 DEF Moved
  <2> QED
    BY <2>7, <2>8
<1>5. ASSUME NEW n \in Names, NEW a \in Users, NEW b \in Users, NEW t \in CallerTimes,
             Transfer(n, a, b, t)
      PROVE  Effect(n, t)
  BY <1>4, <1>5 DEF Transfer, ensure_owner, RegistryCall
<1>6. ASSUME NEW n \in Names, NEW c \in NftCandidates, NEW b \in Users, UpdateOwner(n, c, b)
      PROVE  Effect(n, clock)
  BY <1>4, <1>6, <1>c DEF UpdateOwner, RegistryCall
<1>7. ASSUME NEW n \in Names, NEW a \in Users, NEW t \in CallerTimes, NEW entry \in RegistryEntry,
             ensure_name_unlocked(n, t), ensure_owner(n, a, t), RegistryCall(a),
             UNCHANGED owner_names, entries' = [entries EXCEPT ![n] = entry],
             entry.owner = entries[n].owner,
             entry.registered_at = entries[n].registered_at,
             entry.expires_at = entries[n].expires_at,
             entry.grace_period_ends_at = entries[n].grace_period_ends_at
      PROVE  Effect(n, t)
  <2>1. OthersKept(n) /\ Unlocked(n, t) /\ entries'[n] = entry
    BY <1>7, <1>e, <1>f DEF OthersKept
  <2>2. SameTerm(n)
    BY <1>7, <2>1 DEF SameTerm
  <2>3. Edited(n, t)
    BY <1>7, <2>1, <2>2 DEF Edited, ensure_owner, RegistryCall
  <2> QED
    BY <2>1, <2>3
<1>8. ASSUME NEW n \in Names, NEW a \in Users, NEW t \in CallerTimes,
             ensure_owner(n, a, t)
      PROVE  entries[n] \in RegistryEntry
  BY <1>8, <1>b DEF ensure_owner, resolve_ok
<1>9. ASSUME NEW n \in Names, NEW a \in Users, NEW t \in CallerTimes,
             NEW r \in ResolverIds \cup {NONE}, SetResolver(n, a, r, t)
      PROVE  Effect(n, t)
  <2> DEFINE entry == [entries[n] EXCEPT !.resolver = r]
  <2>1. entries[n] \in RegistryEntry
    BY <1>8, <1>9 DEF SetResolver
  <2>2. /\ entry \in RegistryEntry
        /\ entry.owner = entries[n].owner
        /\ entry.registered_at = entries[n].registered_at
        /\ entry.expires_at = entries[n].expires_at
        /\ entry.grace_period_ends_at = entries[n].grace_period_ends_at
    BY <2>1 DEF RegistryEntry
  <2>3. entries' = [entries EXCEPT ![n] = entry]
    BY <1>9 DEF SetResolver
  <2> HIDE DEF entry
  <2> QED
    BY <1>7, <1>9, <2>2, <2>3 DEF SetResolver
<1>10. ASSUME NEW n \in Names, NEW a \in Users, NEW t \in CallerTimes,
              NEW b \in EntryTargets \cup {NONE}, SetTargetAddress(n, a, b, t)
       PROVE  Effect(n, t)
  <2> DEFINE entry == [entries[n] EXCEPT !.target_address = b]
  <2>1. entries[n] \in RegistryEntry
    BY <1>8, <1>10 DEF SetTargetAddress
  <2>2. /\ entry \in RegistryEntry
        /\ entry.owner = entries[n].owner
        /\ entry.registered_at = entries[n].registered_at
        /\ entry.expires_at = entries[n].expires_at
        /\ entry.grace_period_ends_at = entries[n].grace_period_ends_at
    BY <2>1 DEF RegistryEntry
  <2>3. entries' = [entries EXCEPT ![n] = entry]
    BY <1>10 DEF SetTargetAddress
  <2> HIDE DEF entry
  <2> QED
    BY <1>7, <1>10, <2>2, <2>3 DEF SetTargetAddress
<1>11. ASSUME NEW n \in Names, NEW a \in Users, NEW t \in CallerTimes,
              NEW m \in Metadata \cup {NONE}, SetMetadata(n, a, m, t)
       PROVE  Effect(n, t)
  <2> DEFINE entry == [entries[n] EXCEPT !.metadata_uri = m]
  <2>1. entries[n] \in RegistryEntry
    BY <1>8, <1>11 DEF SetMetadata
  <2>2. /\ entry \in RegistryEntry
        /\ entry.owner = entries[n].owner
        /\ entry.registered_at = entries[n].registered_at
        /\ entry.expires_at = entries[n].expires_at
        /\ entry.grace_period_ends_at = entries[n].grace_period_ends_at
    BY <2>1 DEF RegistryEntry
  <2>3. entries' = [entries EXCEPT ![n] = entry]
    BY <1>11 DEF SetMetadata
  <2> HIDE DEF entry
  <2> QED
    BY <1>7, <1>11, <2>2, <2>3 DEF SetMetadata
<1>12. ASSUME NEW n \in Names, NEW a \in Admins, UnlockName(n, a)
       PROVE  Effect(n, clock)
  <2>1. OthersKept(n) /\ LockChanged(n)
    BY <1>12 DEF UnlockName, RegistryCall, OthersKept, LockChanged, StoreTypeOK
  <2> QED
    BY <2>1
<1>13. ASSUME NEW n \in Names, NEW a \in Admins, NEW u \in Times, NEW t \in CallerTimes,
              LockName(n, a, u, t)
       PROVE  Effect(n, t)
  <2>1. OthersKept(n) /\ LockChanged(n)
    BY <1>13 DEF LockName, RegistryCall, OthersKept, LockChanged, StoreTypeOK
  <2> QED
    BY <2>1
<1> HIDE DEF Effect
<1>14. \E n \in Names, t \in CallerTimes : Effect(n, t)
  BY <1>1, <1>2, <1>3, <1>5, <1>6, <1>9, <1>10, <1>11, <1>12, <1>13, <1>c DEF StoreWrite
<1> QED
  BY <1>14 DEF Effect

-----------------------------------------------------------------------------
(* Invariants; each is inductive once the types are known. *)

\* The index reindex_owner_name returns, read one name and one owner at a time.
LEMMA ReindexReads ==
    ASSUME owner_names \in [Addresses -> SUBSET Names],
           NEW old \in Addresses, NEW new \in Addresses, NEW n \in Names,
           NEW a \in Addresses, NEW m \in Names
    PROVE  m \in reindex_owner_name(old, new, n)[a] <=>
             IF m = n THEN a = new \/ (a # old /\ n \in owner_names[a])
                      ELSE m \in owner_names[a]
BY DEF reindex_owner_name

\* Every call that moves a name moves it in the index too.
LEMMA OwnerIndexStep ==
    ASSUME StoreTypeOK, OwnerIndexExact, Next
    PROVE  OwnerIndexExact'
<1> USE AddressAssumption
<1>1. CASE UNCHANGED << entries, locks, owner_names >>
  BY <1>1 DEF OwnerIndexExact, Registered
<1>2. CASE StoreWrite
  <2> SUFFICES ASSUME NEW a \in Addresses, NEW m \in Names
               PROVE  m \in owner_names'[a] <=> Registered(m)' /\ entries'[m].owner = a
    BY DEF OwnerIndexExact
  <2>1. PICK n \in Names, t \in CallerTimes :
              /\ OthersKept(n)
              /\ \/ TakenOver(n, t) \/ Edited(n, t) \/ Moved(n, t) \/ Prolonged(n, t)
                 \/ GivenUp(n, t) \/ LockChanged(n)
    BY <1>2, WriteEffect
  <2>2. m # n => (Registered(m)' <=> Registered(m)) /\ entries'[m] = entries[m]
    BY <2>1 DEF OthersKept, Registered
  <2>3. m \in owner_names[a] <=> Registered(m) /\ entries[m].owner = a
    BY DEF OwnerIndexExact
  <2>4. n \in owner_names[a] <=> Registered(n) /\ entries[n].owner = a
    BY DEF OwnerIndexExact
  <2>5. Registered(n) => entries[n].owner \in Addresses
    BY DEF StoreTypeOK, Registered, RegistryEntry
  <2>6. owner_names \in [Addresses -> SUBSET Names]
    BY DEF StoreTypeOK
  <2>7. entries'[n] \in RegistryEntry => Registered(n)' /\ entries'[n].owner \in Addresses
    BY DEF Registered, RegistryEntry
  <2>8. ASSUME Registered(n), entries'[n] \in RegistryEntry,
               owner_names' = reindex_owner_name(entries[n].owner, entries'[n].owner, n)
        PROVE  m \in owner_names'[a] <=> Registered(m)' /\ entries'[m].owner = a
    <3>1. m \in owner_names'[a] <=>
            IF m = n THEN a = entries'[n].owner \/ (a # entries[n].owner /\ n \in owner_names[a])
                     ELSE m \in owner_names[a]
      BY <2>5, <2>6, <2>7, <2>8, ReindexReads
    <3> QED
      BY <2>2, <2>3, <2>4, <2>7, <2>8, <3>1
  <2>9. CASE TakenOver(n, t)
    <3>1. CASE Registered(n)
      BY <2>8, <2>9, <3>1 DEF TakenOver
    <3>2. CASE ~Registered(n)
      BY <2>2, <2>3, <2>4, <2>6, <2>7, <2>9, <3>2 DEF TakenOver
    <3> QED
      BY <3>1, <3>2
  <2>10. CASE Moved(n, t)
    BY <2>8, <2>10 DEF Moved, resolve_ok
  <2>11. CASE Edited(n, t) \/ Prolonged(n, t)
    <3>1. Registered(n) /\ Registered(n)' /\ entries'[n].owner = entries[n].owner
          /\ UNCHANGED owner_names
      BY <2>7, <2>11 DEF Edited, Prolonged, resolve_ok
    <3> QED
      BY <2>2, <2>3, <3>1
  <2>12. CASE GivenUp(n, t)
    BY <2>2, <2>3, <2>4, <2>5, <2>6, <2>12 DEF GivenUp, Registered
  <2>13. CASE LockChanged(n)
    BY <2>3, <2>13 DEF LockChanged, Registered
  <2> QED
    BY <2>1, <2>9, <2>10, <2>11, <2>12, <2>13
<1> QED
  BY <1>1, <1>2, OnlyStoreWrites

\* names_for_owner and the entries never disagree: whatever sequence of claims,
\* transfers, owner updates and burns, an owner's list holds exactly the names
\* whose entry names that owner.
THEOREM OwnerIndexIsExact == Spec => []OwnerIndexExact
<1>1. Init => OwnerIndexExact
  BY DEF Init, StoreInit, OwnerIndexExact, Registered
<1>2. TypeOK /\ OwnerIndexExact /\ [Next]_vars => OwnerIndexExact'
  <2>1. CASE UNCHANGED vars
    BY <2>1 DEF vars, registryVars, storeVars, OwnerIndexExact, Registered
  <2> QED
    BY <2>1, OwnerIndexStep DEF TypeOK
<1> QED
  BY <1>1, <1>2, TypeCorrect, PTL DEF Spec

\* Every call that removes an entry removes its lock.
LEMMA LockStep ==
    ASSUME StoreTypeOK, LockHasEntry, Next
    PROVE  LockHasEntry'
<1>1. CASE UNCHANGED << entries, locks, owner_names >>
  BY <1>1 DEF LockHasEntry, Registered
<1>2. CASE StoreWrite
  <2>1. PICK n \in Names, t \in CallerTimes :
              /\ OthersKept(n)
              /\ \/ TakenOver(n, t) \/ Edited(n, t) \/ Moved(n, t) \/ Prolonged(n, t)
                 \/ GivenUp(n, t) \/ LockChanged(n)
    BY <1>2, WriteEffect
  <2>2. locks'[n] # NONE => Registered(n)'
    BY <2>1 DEF TakenOver, Edited, Moved, Prolonged, GivenUp, LockChanged, Unlocked, Registered
  <2>3. \A m \in Names \ {n} : locks'[m] # NONE => Registered(m)'
    BY <2>1 DEF OthersKept, LockHasEntry, Registered
  <2> QED
    BY <2>2, <2>3 DEF LockHasEntry
<1> QED
  BY <1>1, <1>2, OnlyStoreWrites

\* A dispute lock never outlives the entry it was put on: burn and register
\* remove it on the way.
THEOREM LocksHaveEntries == Spec => []LockHasEntry
<1>1. Init => LockHasEntry
  BY DEF Init, StoreInit, LockHasEntry
<1>2. TypeOK /\ LockHasEntry /\ [Next]_vars => LockHasEntry'
  <2>1. CASE UNCHANGED vars
    BY <2>1 DEF vars, registryVars, storeVars, LockHasEntry, Registered
  <2> QED
    BY <2>1, LockStep DEF TypeOK
<1> QED
  BY <1>1, <1>2, TypeCorrect, PTL DEF Spec

\* Every call that writes a term writes it in order.
LEMMA TermStep ==
    ASSUME StoreTypeOK, TermOrdered, Next
    PROVE  TermOrdered'
<1> USE AddressAssumption, BoundsAssumption
<1>1. CASE UNCHANGED << entries, locks, owner_names >>
  BY <1>1 DEF TermOrdered, Registered
<1>2. CASE StoreWrite
  <2>1. PICK n \in Names, t \in CallerTimes :
              /\ OthersKept(n)
              /\ \/ TakenOver(n, t) \/ Edited(n, t) \/ Moved(n, t) \/ Prolonged(n, t)
                 \/ GivenUp(n, t) \/ LockChanged(n)
    BY <1>2, WriteEffect
  <2> DEFINE Ordered == /\ entries'[n].registered_at <= entries'[n].expires_at
                        /\ entries'[n].expires_at <= entries'[n].grace_period_ends_at
  <2>2. Registered(n) =>
          /\ entries[n].registered_at \in Nat
          /\ entries[n].expires_at \in Nat
          /\ entries[n].grace_period_ends_at \in Nat
          /\ entries[n].registered_at <= entries[n].expires_at
          /\ entries[n].expires_at <= entries[n].grace_period_ends_at
    BY DEF StoreTypeOK, Registered, RegistryEntry, TermOrdered, Times
  <2>3. entries'[n] \in RegistryEntry =>
          /\ entries'[n].registered_at \in Nat
          /\ entries'[n].expires_at \in Nat
          /\ entries'[n].grace_period_ends_at \in Nat
    BY DEF RegistryEntry, Times
  <2>4. ASSUME TakenOver(n, t) PROVE Registered(n)' => Ordered
    BY <2>3, <2>4 DEF TakenOver, validate_lifecycle_timestamps, is_active_at
  <2>5. ASSUME Edited(n, t) \/ Moved(n, t) PROVE Registered(n)' => Ordered
    BY <2>2, <2>5 DEF Edited, Moved, SameTerm, resolve_ok
  <2>6. ASSUME Prolonged(n, t) PROVE Registered(n)' => Ordered
    BY <2>2, <2>3, <2>6 DEF Prolonged, validate_lifecycle_timestamps
  <2>7. ASSUME GivenUp(n, t) PROVE Registered(n)' => Ordered
    BY <2>7 DEF GivenUp, Registered
  <2>8. ASSUME LockChanged(n) PROVE Registered(n)' => Ordered
    BY <2>2, <2>8 DEF LockChanged, Registered
  <2>9. Registered(n)' => Ordered
    BY <2>1, <2>4, <2>5, <2>6, <2>7, <2>8
  <2>10. \A m \in Names \ {n} : Registered(m)' =>
            /\ entries'[m].registered_at <= entries'[m].expires_at
            /\ entries'[m].expires_at <= entries'[m].grace_period_ends_at
    BY <2>1 DEF OthersKept, TermOrdered, Registered
  <2> QED
    BY <2>9, <2>10 DEF TermOrdered
<1> QED
  BY <1>1, <1>2, OnlyStoreWrites

\* No sequence of registrations and renewals produces an entry whose three dates
\* are out of order.
THEOREM TermsAreOrdered == Spec => []TermOrdered
<1>1. Init => TermOrdered
  BY DEF Init, StoreInit, TermOrdered, Registered
<1>2. TypeOK /\ TermOrdered /\ [Next]_vars => TermOrdered'
  <2>1. CASE UNCHANGED vars
    BY <2>1 DEF vars, registryVars, storeVars, TermOrdered, Registered
  <2> QED
    BY <2>1, TermStep DEF TypeOK
<1> QED
  BY <1>1, <1>2, TypeCorrect, PTL DEF Spec

-----------------------------------------------------------------------------
(* Action properties. *)

\* A caller's clock is ahead of the ledger's by at most Skew.
LEMMA CallerTimeBound ==
    ASSUME StoreTypeOK, NEW t \in CallerTimes
    PROVE  t \in Nat /\ t <= clock + Skew /\ clock <= t + Skew /\ clock \in Nat
BY BoundsAssumption DEF StoreTypeOK, CallerTimes, Times

\* What a write does to a name that cannot have become claimable on any clock.
LEMMA WriteBeforeClaimable ==
    ASSUME StoreTypeOK, StoreWrite, NEW n \in Names, Registered(n),
           clock + Skew <= entries[n].grace_period_ends_at
    PROVE  ConsentGiven(n) /\ TermKept(n)
<1> USE AddressAssumption, BoundsAssumption
<1>1. PICK m \in Names, t \in CallerTimes :
            /\ OthersKept(m)
            /\ \/ TakenOver(m, t) \/ Edited(m, t) \/ Moved(m, t) \/ Prolonged(m, t)
               \/ GivenUp(m, t) \/ LockChanged(m)
  BY WriteEffect
<1>2. /\ entries[n].registered_at \in Nat
      /\ entries[n].expires_at \in Nat
      /\ entries[n].grace_period_ends_at \in Nat
  BY DEF StoreTypeOK, Registered, RegistryEntry, Times
<1>3. CASE entries'[n] = entries[n]
  BY <1>2, <1>3 DEF ConsentGiven, TermKept
<1>4. CASE entries'[n] # entries[n]
  <2>1. m = n
    BY <1>1, <1>4 DEF OthersKept
  <2>2. ~is_claimable_at(entries[n].grace_period_ends_at, t)
    BY <1>2, CallerTimeBound DEF is_claimable_at
  <2>3. ~TakenOver(n, t) /\ ~LockChanged(n)
    BY <1>4, <2>2 DEF TakenOver, LockChanged
  <2>4. ConsentGiven(n)
    BY <1>1, <2>1, <2>2, <2>3 DEF ConsentGiven, Edited, Moved, Prolonged, GivenUp
  <2>5. CASE Edited(n, t) \/ Moved(n, t)
    BY <1>2, <2>4, <2>5 DEF Edited, Moved, SameTerm, TermKept
  <2>6. CASE Prolonged(n, t)
    BY <2>4, <2>6 DEF Prolonged, TermKept
  <2>7. CASE GivenUp(n, t)
    BY <2>4, <2>7 DEF GivenUp, TermKept, Registered
  <2> QED
    BY <1>1, <2>1, <2>3, <2>5, <2>6, <2>7
<1> QED
  BY <1>3, <1>4

\* An entry that keeps its value needs no consent and keeps its term.
LEMMA SameEntry ==
    ASSUME StoreTypeOK, NEW n \in Names, entries'[n] = entries[n]
    PROVE  ConsentGiven(n) /\ TermKept(n)
<1>1. Registered(n) => /\ entries[n].expires_at \in Nat
                       /\ entries[n].grace_period_ends_at \in Nat
  BY BoundsAssumption DEF StoreTypeOK, Registered, RegistryEntry, Times
<1> QED
  BY <1>1 DEF ConsentGiven, TermKept

\* No step takes a name from its owner, or shortens its term, without consent.
LEMMA TermProtected ==
    ASSUME StoreTypeOK, [Next]_vars, NEW n \in Names
    PROVE  ConsentGiven(n) /\ TermKept(n)
<1>1. CASE UNCHANGED entries
  BY <1>1, SameEntry
<1>2. CASE StoreWrite
  <2>1. CASE Registered(n) /\ clock + Skew <= entries[n].grace_period_ends_at
    BY <1>2, <2>1, WriteBeforeClaimable
  <2>2. CASE ~(Registered(n) /\ clock + Skew <= entries[n].grace_period_ends_at)
    BY <2>2 DEF ConsentGiven, TermKept
  <2> QED
    BY <2>1, <2>2
<1>3. CASE UNCHANGED vars
  BY <1>1, <1>3 DEF vars, registryVars, storeVars
<1> QED
  BY <1>1, <1>2, <1>3, OnlyStoreWrites

\* Nobody but the owner, or the address wired as the NFT contract, changes or
\* removes an entry before its grace period has ended on every caller's clock.
THEOREM OwnerConsents == Spec => OwnerConsent
<1>1. TypeOK /\ [Next]_vars => [\A n \in Names : ConsentGiven(n)]_vars
  BY TermProtected DEF TypeOK
<1> QED
  BY <1>1, TypeCorrect, PTL DEF Spec, OwnerConsent

\* Until then expiry and end of grace never move back and the registration date
\* stays.
THEOREM TermsNeverShortened == Spec => TermNeverShortened
<1>1. TypeOK /\ [Next]_vars => [\A n \in Names : TermKept(n)]_vars
  BY TermProtected DEF TypeOK
<1> QED
  BY <1>1, TypeCorrect, PTL DEF Spec, TermNeverShortened

\* No step touches an entry whose lock is in force.
LEMMA LockHolds ==
    ASSUME StoreTypeOK, [Next]_vars, NEW n \in Names
    PROVE  Frozen(n)
<1> USE AddressAssumption, BoundsAssumption
<1>1. CASE UNCHANGED << entries, locks >>
  BY <1>1 DEF Frozen
<1>2. CASE StoreWrite
  <2> SUFFICES ASSUME locks[n] # NONE, clock + Skew <= locks[n]
               PROVE  /\ entries'[n] = entries[n]
                      /\ locks'[n] # locks[n] => invoker' = dispute_admin
    BY DEF Frozen
  <2>1. PICK m \in Names, t \in CallerTimes :
            /\ OthersKept(m)
            /\ \/ TakenOver(m, t) \/ Edited(m, t) \/ Moved(m, t) \/ Prolonged(m, t)
               \/ GivenUp(m, t) \/ LockChanged(m)
    BY <1>2, WriteEffect
  <2>2. CASE m # n
    BY <2>1, <2>2 DEF OthersKept
  <2>3. CASE m = n
    <3>1. locks[n] \in Nat
      BY DEF StoreTypeOK, Times
    <3>2. ~Unlocked(n, t)
      BY <3>1, CallerTimeBound DEF Unlocked
    <3>3. LockChanged(n)
      BY <2>1, <2>3, <3>2 DEF TakenOver, Edited, Moved, Prolonged, GivenUp
    <3> QED
      BY <3>3 DEF LockChanged
  <2> QED
    BY <2>2, <2>3
<1>3. CASE UNCHANGED vars
  BY <1>1, <1>3 DEF vars, registryVars, storeVars
<1> QED
  BY <1>1, <1>2, <1>3, OnlyStoreWrites

\* A dispute lock that holds on every caller's clock freezes the entry for
\* everyone, and only the dispute admin lifts or replaces it.
THEOREM LocksFreeze == Spec => LockFreezes
<1>1. TypeOK /\ [Next]_vars => [\A n \in Names : Frozen(n)]_vars
  BY LockHolds DEF TypeOK
<1> QED
  BY <1>1, TypeCorrect, PTL DEF Spec, LockFreezes

-----------------------------------------------------------------------------
(* The registry implements NameLifecycle, for every value of the constants. *)

\* The abstract holding of a name, for each of its two kinds of value.
LEMMA HoldingReads ==
    ASSUME NEW n \in Names, Registered(n) => entries[n] \in RegistryEntry
    PROVE  /\ ~Registered(n) => holding[n] = NONE
           /\ Registered(n) =>
                /\ holding[n] # NONE
                /\ holding[n] \in Lifecycle!Holding
                /\ holding[n].owner = entries[n].owner
                /\ holding[n].expires = entries[n].expires_at
                /\ holding[n].ends = entries[n].grace_period_ends_at
<1>1. CASE ~Registered(n)
  BY <1>1 DEF holding
<1>2. CASE Registered(n)
  <2>1. holding[n] = [ owner |-> entries[n].owner, expires |-> entries[n].expires_at,
                       ends |-> entries[n].grace_period_ends_at ]
    BY <1>2 DEF holding
  <2>2. holding[n] \in Lifecycle!Holding
    BY <1>2, <2>1 DEF Lifecycle!Holding, RegistryEntry
  <2> QED
    BY <1>2, <2>1, <2>2, HoldingAssumption
<1> QED
  BY <1>1, <1>2

\* The same in the next state.
LEMMA HoldingReadsNext ==
    ASSUME NEW n \in Names, Registered(n)' => entries'[n] \in RegistryEntry
    PROVE  /\ ~Registered(n)' => holding'[n] = NONE
           /\ Registered(n)' =>
                /\ holding'[n] # NONE
                /\ holding'[n] \in Lifecycle!Holding
                /\ holding'[n].owner = entries'[n].owner
                /\ holding'[n].expires = entries'[n].expires_at
                /\ holding'[n].ends = entries'[n].grace_period_ends_at
<1>1. CASE ~Registered(n)'
  BY <1>1 DEF holding
<1>2. CASE Registered(n)'
  <2>1. holding'[n] = [ owner |-> entries'[n].owner, expires |-> entries'[n].expires_at,
                        ends |-> entries'[n].grace_period_ends_at ]
    BY <1>2 DEF holding
  <2>2. holding'[n] \in Lifecycle!Holding
    BY <1>2, <2>1 DEF Lifecycle!Holding, RegistryEntry
  <2> QED
    BY <1>2, <2>1, <2>2, HoldingAssumption
<1> QED
  BY <1>1, <1>2

\* A write about n changes no other holding.
LEMMA OnlyHolding ==
    ASSUME NEW n \in Names, OthersKept(n)
    PROVE  holding' = [holding EXCEPT ![n] = holding'[n]]
<1>1. \A m \in Names \ {n} : holding'[m] = holding[m]
  BY DEF OthersKept, holding, Registered
<1>2. holding = [m \in Names |-> holding[m]] /\ holding' = [m \in Names |-> holding'[m]]
  BY DEF holding
<1> QED
  BY <1>1, <1>2

\* Two holdings with the same owner and dates are the same holding.
LEMMA HoldingExtensional ==
    ASSUME NEW h \in Lifecycle!Holding, NEW k \in Lifecycle!Holding,
           h.owner = k.owner, h.expires = k.expires, h.ends = k.ends
    PROVE  h = k
BY DEF Lifecycle!Holding

\* Every call that writes an entry is a step of the lifecycle or leaves it alone.
LEMMA WriteRefines ==
    ASSUME StoreTypeOK, StoreWrite
    PROVE  [Lifecycle!Next]_<< clock, holding >>
<1> USE AddressAssumption, BoundsAssumption
<1>1. PICK n \in Names, t \in CallerTimes :
            /\ OthersKept(n)
            /\ \/ TakenOver(n, t) \/ Edited(n, t) \/ Moved(n, t) \/ Prolonged(n, t)
               \/ GivenUp(n, t) \/ LockChanged(n)
  BY WriteEffect
<1>2. UNCHANGED clock
  BY WithNft
<1>3. Lifecycle!Only(n)
  BY <1>1, <1>2, OnlyHolding DEF Lifecycle!Only
<1>4. t \in Nat /\ t <= clock + Skew /\ clock <= t + Skew /\ clock \in Nat
  BY CallerTimeBound
<1>5. Registered(n) => entries[n] \in RegistryEntry
  BY DEF StoreTypeOK, Registered
<1>6. Registered(n) => /\ entries[n].expires_at \in Nat
                       /\ entries[n].grace_period_ends_at \in Nat
  BY <1>5 DEF RegistryEntry, Times
<1>7. entries'[n] \in RegistryEntry =>
        /\ Registered(n)'
        /\ entries'[n].expires_at \in Nat
        /\ entries'[n].grace_period_ends_at \in Nat
        /\ entries'[n].owner \in Addresses
  BY DEF RegistryEntry, Registered, Times
<1>8. Lifecycle!Held(n) <=> Registered(n)
  BY <1>5, HoldingReads DEF Lifecycle!Held
<1>9. CASE TakenOver(n, t)
  <2>1. entries'[n] \in RegistryEntry
    BY <1>9 DEF TakenOver
  <2>2. Lifecycle!Held(n) => clock + Skew > holding[n].ends
    BY <1>4, <1>5, <1>6, <1>8, <1>9, HoldingReads DEF TakenOver, is_claimable_at
  <2>3. /\ holding'[n] \in Lifecycle!Holding
        /\ clock <= holding'[n].expires + Skew
        /\ holding'[n].expires <= holding'[n].ends
    BY <1>4, <1>7, <1>9, <2>1, HoldingReadsNext
       DEF TakenOver, validate_lifecycle_timestamps, is_active_at
  <2>4. Lifecycle!Acquire(n)
    BY <1>3, <2>2, <2>3 DEF Lifecycle!Acquire
  <2> QED
    BY <2>4 DEF Lifecycle!Next
<1>10. CASE Edited(n, t) \/ Moved(n, t)
  <2>1. entries'[n] \in RegistryEntry /\ Registered(n) /\ Registered(n)'
    BY <1>7, <1>10 DEF Edited, Moved, resolve_ok
  <2>2. clock <= holding[n].expires + Skew
    BY <1>4, <1>5, <1>6, <1>10, <2>1, HoldingReads DEF Edited, Moved, resolve_ok, is_active_at
  <2>3. /\ holding[n] \in Lifecycle!Holding
        /\ holding'[n] \in Lifecycle!Holding
        /\ holding'[n].owner \in Addresses
        /\ holding'[n].expires = holding[n].expires
        /\ holding'[n].ends = holding[n].ends
    BY <1>5, <1>7, <1>10, <2>1, HoldingReads, HoldingReadsNext DEF Edited, Moved, SameTerm
  <2> DEFINE h == [holding[n] EXCEPT !.owner = holding'[n].owner]
  <2>4. /\ h \in Lifecycle!Holding
        /\ h.owner = holding'[n].owner
        /\ h.expires = holding[n].expires
        /\ h.ends = holding[n].ends
    BY <2>3 DEF Lifecycle!Holding
  <2>5. holding'[n] = h
    <3> HIDE DEF h
    <3> QED
      BY <2>3, <2>4, HoldingExtensional
  <2>6. Lifecycle!HandOver(n)
    BY <1>3, <1>8, <2>1, <2>2, <2>3, <2>5 DEF Lifecycle!HandOver
  <2> QED
    BY <2>6 DEF Lifecycle!Next
<1>11. CASE Prolonged(n, t)
  <2>1. entries'[n] \in RegistryEntry /\ Registered(n) /\ Registered(n)'
    BY <1>7, <1>11 DEF Prolonged
  <2>2. clock <= holding[n].ends + Skew
    BY <1>4, <1>5, <1>6, <1>11, <2>1, HoldingReads DEF Prolonged, is_claimable_at
  <2>3. /\ holding'[n] \in Lifecycle!Holding
        /\ holding'[n].owner = holding[n].owner
        /\ holding'[n].expires >= holding[n].expires
        /\ holding'[n].ends >= holding[n].ends
    BY <1>5, <1>7, <1>11, <2>1, HoldingReads, HoldingReadsNext DEF Prolonged
  <2>4. /\ clock <= holding'[n].expires + Skew
        /\ holding'[n].expires <= holding'[n].ends
    BY <1>4, <1>7, <1>11, <2>1, HoldingReadsNext
       DEF Prolonged, validate_lifecycle_timestamps, is_active_at
  <2>5. Lifecycle!Extend(n)
    BY <1>3, <1>8, <2>1, <2>2, <2>3, <2>4 DEF Lifecycle!Extend
  <2> QED
    BY <2>5 DEF Lifecycle!Next
<1>12. CASE GivenUp(n, t)
  <2>1. Registered(n) /\ ~Registered(n)'
    BY <1>12 DEF GivenUp, Registered
  <2>2. holding'[n] = NONE
    BY <2>1, HoldingReadsNext
  <2>3. Lifecycle!Release(n)
    BY <1>3, <1>8, <2>1, <2>2 DEF Lifecycle!Release
  <2> QED
    BY <2>3 DEF Lifecycle!Next
<1>13. CASE LockChanged(n)
  <2>1. UNCHANGED holding
    BY <1>13 DEF LockChanged, holding, Registered
  <2> QED
    BY <1>2, <2>1
<1> QED
  BY <1>1, <1>9, <1>10, <1>11, <1>12, <1>13

\* So is every step of the system.
LEMMA StepRefines ==
    ASSUME TypeOK, [Next]_vars
    PROVE  [Lifecycle!Next]_<< clock, holding >>
<1>1. ASSUME UNCHANGED << clock, entries >> PROVE UNCHANGED << clock, holding >>
  BY <1>1 DEF holding, Registered
<1>2. CASE StoreWrite
  BY <1>2, WriteRefines DEF TypeOK
<1>3. CASE Tick
  <2>1. clock' = clock + 1 /\ UNCHANGED entries
    BY <1>3 DEF Tick, storeVars
  <2>2. UNCHANGED holding
    BY <2>1 DEF holding, Registered
  <2> QED
    BY <2>1, <2>2 DEF Lifecycle!Next, Lifecycle!Pass
<1>4. CASE Configure
  BY <1>1, <1>4 DEF Configure, Initialize, SetDisputeAdmin, SetNftContract, RegistryCall, storeVars
<1>5. CASE NftNext
  BY <1>1, <1>5, NftKeepsRegistry DEF storeVars
<1>6. CASE ResolverNext
  BY <1>1, <1>6, ResolverKeepsRegistry DEF storeVars
<1>7. CASE UNCHANGED vars
  BY <1>1, <1>7 DEF vars, registryVars, storeVars
<1> QED
  BY <1>2, <1>3, <1>4, <1>5, <1>6, <1>7, StepKinds

\* The registry, called by anyone and calling the NFT and resolver contracts,
\* implements the abstract lifecycle of a name: each of its steps is an
\* acquisition, a hand-over, an extension, a release, a tick or no step at all.
THEOREM RegistryImplementsLifecycle == Spec => LifecycleRefined
<1>1. Init => Lifecycle!Init
  BY DEF Init, StoreInit, Lifecycle!Init, holding, Registered
<1>2. TypeOK /\ [Next]_vars => [Lifecycle!Next]_<< clock, holding >>
  BY StepRefines
<1> QED
  BY <1>1, <1>2, TypeCorrect, PTL DEF Spec, LifecycleRefined, Lifecycle!Spec

=============================================================================
