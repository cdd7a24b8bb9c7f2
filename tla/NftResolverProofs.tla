------------------------- MODULE NftResolverProofs -------------------------
(* What the NFT contract and the resolver contract promise, composed with the *)
(* registry that calls them, for every value of the constants.               *)
EXTENDS RegistryProofs, SumProofs

-----------------------------------------------------------------------------
(* The NFT contract. *)

(***************************************************************************)
(* What a call into the NFT contract does to the token of one name.  The   *)
(* proofs below argue about these effects instead of the calls that have   *)
(* them.                                                                   *)
(***************************************************************************)
OtherTokensKept(n) ==
    \A m \in Names \ {n} : tokens'[m] = tokens[m] /\ token_ids'[m] = token_ids[m]

\* mint
TokenIssued(n) ==
    /\ ~Minted(n)
    /\ tokens'[n] \in TokenRecord
    /\ token_ids'[n] = token_ids[n] + 1
    /\ owner_tokens' = [owner_tokens EXCEPT ![tokens'[n].owner] = @ \cup {n}]

\* burn
TokenBurned(n) ==
    /\ Minted(n)
    /\ tokens'[n] = NONE
    /\ token_ids'[n] = (IF token_ids[n] > 0 THEN token_ids[n] - 1 ELSE 0)
    /\ owner_tokens' = [owner_tokens EXCEPT ![tokens[n].owner] = @ \ {n}]

\* burn and mint, in one invocation of the registry
TokenReissued(n) ==
    /\ Minted(n)
    /\ tokens'[n] \in TokenRecord
    /\ token_ids'[n] = (IF token_ids[n] > 0 THEN token_ids[n] ELSE 1)
    /\ owner_tokens' = [owner_tokens EXCEPT ![tokens[n].owner] = @ \ {n},
                                            ![tokens'[n].owner] = @ \cup {n}]

\* sync_owner, sync_expiry, approve, transfer, refresh_name_data
TokenChanged(n) ==
    /\ Minted(n)
    /\ tokens'[n] \in TokenRecord
    /\ token_ids'[n] = token_ids[n]
    /\ owner_tokens' = reindex_owner_token(tokens[n].owner, tokens'[n].owner, n)

TokenEffect(n) ==
    /\ OtherTokensKept(n)
    /\ TokenIssued(n) \/ TokenBurned(n) \/ TokenReissued(n) \/ TokenChanged(n)

\* The five calls the registry and an administrator make have such an effect.
LEMMA TokenCallEffect ==
    ASSUME StoreTypeOK, NftTypeOK,
           NEW n \in Names, NEW a \in Addresses, NEW m \in Metadata \cup {NONE}, NEW t \in Times,
           \/ mint(n, a, m, t)
           \/ burn(n)
           \/ burn_then_mint(n, a, m, t)
           \/ sync_expiry(n, t)
           \/ sync_owner(n, a)
    PROVE  TokenEffect(n)
<1> USE DEF NftTypeOK
<1>a. Minted(n) => tokens[n] \in TokenRecord /\ tokens[n].owner \in Addresses
  BY DEF Minted, TokenRecord
<1>b. ASSUME NEW rec, tokens' = [tokens EXCEPT ![n] = rec]
      PROVE  tokens'[n] = rec /\ \A k \in Names \ {n} : tokens'[k] = tokens[k]
  BY <1>b
<1>1. CASE mint(n, a, m, t)
  <2> DEFINE rec == [ owner |-> a, approved |-> NONE, metadata_uri |-> m, expires_at |-> t ]
  <2>1. rec \in TokenRecord /\ rec.owner = a
    BY DEF TokenRecord
  <2>2. tokens'[n] = rec
    BY <1>1, <1>b DEF mint
  <2>3. TokenIssued(n)
    BY <1>1, <2>1, <2>2 DEF mint, TokenIssued
  <2>4. OtherTokensKept(n)
    BY <1>1, <1>b DEF mint, OtherTokensKept
  <2> QED
    BY <2>3, <2>4 DEF TokenEffect
<1>2. CASE burn(n)
  BY <1>2, <1>b DEF burn, TokenBurned, OtherTokensKept, TokenEffect
<1>3. CASE burn_then_mint(n, a, m, t)
  <2> DEFINE rec == [ owner |-> a, approved |-> NONE, metadata_uri |-> m, expires_at |-> t ]
  <2>1. rec \in TokenRecord /\ rec.owner = a
    BY DEF TokenRecord
  <2>2. tokens'[n] = rec
    BY <1>3, <1>b DEF burn_then_mint
  <2>3. TokenReissued(n)
    BY <1>3, <2>1, <2>2 DEF burn_then_mint, TokenReissued
  <2>4. OtherTokensKept(n)
    BY <1>3, <1>b DEF burn_then_mint, OtherTokensKept
  <2> QED
    BY <2>3, <2>4 DEF TokenEffect
<1>4. CASE sync_expiry(n, t)
  <2> DEFINE rec == [tokens[n] EXCEPT !.expires_at = t]
  <2>1. Minted(n)
    BY <1>4 DEF sync_expiry
  <2>2. rec \in TokenRecord /\ rec.owner = tokens[n].owner
    BY <1>a, <2>1 DEF TokenRecord
  <2>3. tokens' = [tokens EXCEPT ![n] = rec]
    BY <1>4 DEF sync_expiry
  <2> HIDE DEF rec
  <2>4. tokens'[n] = rec /\ \A k \in Names \ {n} : tokens'[k] = tokens[k]
    BY <1>b, <2>3
  <2>5. TokenChanged(n)
    BY <1>4, <2>1, <2>2, <2>4 DEF sync_expiry, TokenChanged, reindex_owner_token
  <2>6. OtherTokensKept(n)
    BY <1>4, <2>4 DEF sync_expiry, OtherTokensKept
  <2> QED
    BY <2>5, <2>6 DEF TokenEffect
<1>5. CASE sync_owner(n, a)
  <2> DEFINE rec == [tokens[n] EXCEPT !.owner = a]
  <2>1. Minted(n)
    BY <1>5 DEF sync_owner
  <2>2. rec \in TokenRecord /\ rec.owner = a
    BY <1>a, <2>1 DEF TokenRecord
  <2>3. tokens' = [tokens EXCEPT ![n] = rec]
    BY <1>5 DEF sync_owner
  <2> HIDE DEF rec
  <2>4. tokens'[n] = rec /\ \A k \in Names \ {n} : tokens'[k] = tokens[k]
    BY <1>b, <2>3
  <2>5. TokenChanged(n)
    BY <1>5, <2>1, <2>2, <2>4 DEF sync_owner, TokenChanged
  <2>6. OtherTokensKept(n)
    BY <1>5, <2>4 DEF sync_owner, OtherTokensKept
  <2> QED
    BY <2>5, <2>6 DEF TokenEffect
<1> QED
  BY <1>1, <1>2, <1>3, <1>4, <1>5


\* Every other entrypoint of the NFT contract changes one token or none.
LEMMA NftCallEffect ==
    ASSUME StoreTypeOK, NftTypeOK, NftNext
    PROVE  \/ UNCHANGED << tokens, token_ids, owner_tokens >>
           \/ \E n \in Names : TokenEffect(n)
<1> DEFINE Done == \/ UNCHANGED << tokens, token_ids, owner_tokens >>
                   \/ \E n \in Names : TokenEffect(n)
<1>a. Users \subseteq Addresses
  BY DEF Addresses
<1>b. \A n \in Names : Minted(n) =>
        /\ tokens[n] \in TokenRecord
        /\ tokens[n].owner \in Addresses
        /\ tokens[n].expires_at \in Times
  BY DEF NftTypeOK, Minted, TokenRecord
<1>c. ASSUME NEW n \in Names, NEW rec \in TokenRecord, Minted(n),
             tokens' = [tokens EXCEPT ![n] = rec],
             UNCHANGED token_ids,
             owner_tokens' = reindex_owner_token(tokens[n].owner, rec.owner, n)
      PROVE  TokenEffect(n)
  <2>1. tokens'[n] = rec /\ \A k \in Names \ {n} : tokens'[k] = tokens[k]
    BY <1>c DEF NftTypeOK
  <2>2. TokenChanged(n) /\ OtherTokensKept(n)
    BY <1>c, <2>1 DEF TokenChanged, OtherTokensKept
  <2> QED
    BY <2>2 DEF TokenEffect
<1>1. CASE \/ \E a \in NftAdmins : NftInitialize(a)
           \/ NftSetRegistry
           \/ \E n \in Names : RefreshNameData(n)
  BY <1>1 DEF NftInitialize, NftSetRegistry, RefreshNameData, tokenVars
<1>2. ASSUME NEW n \in Names, NEW a \in Users, NEW t \in Times,
             AdminMint(n, a, t) \/ AdminSyncOwner(n, a)
      PROVE  Done
  BY <1>2, <1>a, TokenCallEffect DEF AdminMint, AdminSyncOwner
<1>3. ASSUME NEW n \in Names, NEW t \in Times, AdminBurn(n) \/ AdminSyncExpiry(n, t)
      PROVE  Done
  <2>1. burn(n) \/ sync_expiry(n, t)
    BY <1>3 DEF AdminBurn, AdminSyncExpiry
  <2>2. tokens[n].owner \in Addresses /\ NONE \in Metadata \cup {NONE}
    BY <1>b, <2>1 DEF burn, sync_expiry
  <2> QED
    BY <2>1, <2>2, TokenCallEffect
<1>4. ASSUME NEW n \in Names, NEW a \in Users, NEW b \in Users, Approve(n, a, b) \/ ApproveClear(n, a)
      PROVE  Done
  <2>1. PICK x \in Addresses \cup {NONE} : tokens' = [tokens EXCEPT ![n].approved = x]
    BY <1>4, <1>a DEF Approve, ApproveClear
  <2> DEFINE rec == [tokens[n] EXCEPT !.approved = x]
  <2>2. Minted(n) /\ UNCHANGED << token_ids, owner_tokens >>
    BY <1>4 DEF Approve, ApproveClear
  <2>3. rec \in TokenRecord /\ rec.owner = tokens[n].owner
    BY <1>b, <2>2 DEF TokenRecord
  <2>4. tokens' = [tokens EXCEPT ![n] = rec]
    BY <2>1
  <2> HIDE DEF rec
  <2> QED
    BY <1>c, <2>2, <2>3, <2>4 DEF reindex_owner_token
<1>5. ASSUME NEW n \in Names, NEW b \in Users, Minted(n), hand_over(n, b)
      PROVE  Done
  <2> DEFINE rec == [tokens[n] EXCEPT !.owner = b, !.approved = NONE]
  <2>1. rec \in TokenRecord /\ rec.owner = b
    BY <1>5, <1>a, <1>b DEF TokenRecord
  <2>2. tokens' = [tokens EXCEPT ![n] = rec]
    BY <1>5 DEF hand_over
  <2> HIDE DEF rec
  <2> QED
    BY <1>5, <1>c, <2>1, <2>2 DEF hand_over
<1>6. ASSUME NEW n \in Names, NEW a \in Users, NEW b \in Users, NEW c \in Users,
             NftTransfer(n, a, b) \/ NftTransferFrom(n, a, b, c)
      PROVE  Done
  BY <1>5, <1>6 DEF NftTransfer, NftTransferFrom
<1>7. 0 \in Times
  BY BoundsAssumption DEF Times
<1> HIDE DEF Done
<1>8. Done
  BY <1>1, <1>2, <1>3, <1>4, <1>6, <1>7 DEF NftNext, Done
<1> QED
  BY <1>8 DEF Done

\* Whichever contract a step of the system goes through, it has one of the four
\* effects on one token, or leaves the tokens and their index as they are.
LEMMA TokenStep ==
    ASSUME TypeOK, Next
    PROVE  \/ UNCHANGED << tokens, token_ids, owner_tokens >>
           \/ \E n \in Names : TokenEffect(n)
<1> USE DEF TypeOK
<1>1. CASE StoreWrite
  <2>1. CASE UNCHANGED tokenVars
    BY <2>1 DEF tokenVars
  <2>2. ASSUME NEW n \in Names, NEW a \in Users, NEW m \in Metadata \cup {NONE}, NEW t \in Times,
               mint(n, a, m, t) \/ burn(n) \/ burn_then_mint(n, a, m, t)
               \/ sync_expiry(n, t) \/ sync_owner(n, a)
        PROVE  TokenEffect(n)
    <3>1. a \in Addresses
      BY DEF Addresses
    <3> QED
      BY <2>2, <3>1, TokenCallEffect
  <2> QED
    BY <1>1, <2>1, <2>2, WithNft
<1>2. CASE Configure
  BY <1>2 DEF Configure, Initialize, SetDisputeAdmin, SetNftContract, tokenVars
<1>3. CASE Tick /\ UNCHANGED << nftVars, resolverVars >>
  BY <1>3 DEF nftVars, tokenVars
<1>4. CASE NftNext /\ UNCHANGED resolverVars
  BY <1>4, NftCallEffect
<1>5. CASE ResolverNext /\ UNCHANGED nftVars
  BY <1>5 DEF nftVars, tokenVars
<1> QED
  BY <1>1, <1>2, <1>3, <1>4, <1>5, StepKinds

\* No call takes the index away from the tokens.
LEMMA NftIndexStep ==
    ASSUME TypeOK, NftIndexExact, Next
    PROVE  NftIndexExact'
<1> USE AddressAssumption, NftNoneAssumption
<1>1. CASE UNCHANGED << tokens, token_ids, owner_tokens >>
  BY <1>1 DEF NftIndexExact, Minted
<1>2. ASSUME NEW n \in Names, TokenEffect(n)
      PROVE  NftIndexExact'
  <2>a. /\ owner_tokens \in [Addresses -> SUBSET Names]
        /\ token_ids \in [Names -> Nat]
        /\ \A k \in Names : Minted(k) => tokens[k] \in TokenRecord /\ tokens[k].owner \in Addresses
    BY DEF TypeOK, NftTypeOK, Minted, TokenRecord
  <2>b. tokens'[n] \in TokenRecord => Minted(n)' /\ tokens'[n].owner \in Addresses
    BY DEF Minted, TokenRecord
  <2>c. \A k \in Names \ {n} : /\ tokens'[k] = tokens[k]
                               /\ token_ids'[k] = token_ids[k]
                               /\ Minted(k)' <=> Minted(k)
    BY <1>2 DEF TokenEffect, OtherTokensKept, Minted
  <2>1. \A k \in Names : token_ids'[k] = (IF Minted(k)' THEN 1 ELSE 0)
    <3>1. token_ids[n] = IF Minted(n) THEN 1 ELSE 0
      BY DEF NftIndexExact
    <3>2. token_ids'[n] = IF Minted(n)' THEN 1 ELSE 0
      BY <1>2, <2>b, <3>1
         DEF TokenEffect, TokenIssued, TokenBurned, TokenReissued, TokenChanged, Minted
    <3> QED
      BY <2>c, <3>2 DEF NftIndexExact
  <2>2. ASSUME NEW a \in Addresses, NEW k \in Names
        PROVE  k \in owner_tokens'[a] <=> Minted(k)' /\ tokens'[k].owner = a
    <3>1. k \in owner_tokens[a] <=> Minted(k) /\ tokens[k].owner = a
      BY DEF NftIndexExact
    <3>2. CASE TokenIssued(n)
      BY <2>a, <2>b, <2>c, <3>1, <3>2 DEF TokenIssued
    <3>3. CASE TokenBurned(n)
      BY <2>a, <2>c, <3>1, <3>3 DEF TokenBurned, Minted
    <3>4. CASE TokenReissued(n)
      BY <2>a, <2>b, <2>c, <3>1, <3>4 DEF TokenReissued
    <3>5. CASE TokenChanged(n)
      BY <2>a, <2>b, <2>c, <3>1, <3>5 DEF TokenChanged, reindex_owner_token
    <3> QED
      BY <1>2, <3>2, <3>3, <3>4, <3>5 DEF TokenEffect
  <2> QED
    BY <2>1, <2>2 DEF NftIndexExact
<1> QED
  BY <1>1, <1>2, TokenStep

\* The token index of the NFT contract is exact: the list of ids names every
\* token once and no other, an owner's list exactly the owner's tokens, however
\* the registry, an administrator and the token holders interleave their calls.
THEOREM NftIndexIsExact == Spec => []NftIndexExact
<1>1. Init => NftIndexExact
  BY DEF Init, NftInit, NftIndexExact, Minted
<1>2. TypeOK /\ NftIndexExact /\ [Next]_vars => NftIndexExact'
  <2>1. CASE UNCHANGED vars
    BY <2>1 DEF vars, nftVars, tokenVars, NftIndexExact, Minted
  <2> QED
    BY <2>1, NftIndexStep
<1> QED
  BY <1>1, <1>2, TypeCorrect, PTL DEF Spec

-----------------------------------------------------------------------------
(* The token of a name and the name's entry. *)

\* A step that keeps the existence and the expiry of both.
SidesKept(n) ==
    /\ (Minted(n)' <=> Minted(n)) /\ (Registered(n)' <=> Registered(n))
    /\ Minted(n) => tokens'[n].expires_at = tokens[n].expires_at
    /\ Registered(n) => entries'[n].expires_at = entries[n].expires_at

\* A call that keeps both sides keeps the mirror.
LEMMA SidesKeptMirror ==
    ASSUME NEW n, Mirrors(n), SidesKept(n)
    PROVE  Mirrors(n)'
BY DEF Mirrors, SidesKept

\* The calls that give a name its term or take it away do to the token what
\* they do to the entry.
LEMMA IssueMirrors ==
    ASSUME TypeOK, nft_contract = NFT,
           NEW k \in Names, NEW a \in Users, NEW now_unix \in CallerTimes,
           NEW e \in Times, NEW g \in Times, NEW m \in Metadata \cup {NONE},
           \/ Register(k, a, NONE, m, now_unix, e, g)
           \/ Renew(k, a, e, g, now_unix)
           \/ Burn(k, a, now_unix)
    PROVE  Mirrors(k)' /\ \A n \in Names \ {k} : SidesKept(n)
<1> USE AddressAssumption, NftNoneAssumption
<1>a. /\ entries \in [Names -> RegistryEntry \cup {NONE}]
      /\ tokens \in [Names -> TokenRecord \cup {NONE}]
  BY DEF TypeOK, StoreTypeOK, NftTypeOK
<1>b. ASSUME NEW ent, entries' = [entries EXCEPT ![k] = ent],
             NEW tok, tokens' = [tokens EXCEPT ![k] = tok]
      PROVE  /\ entries'[k] = ent /\ tokens'[k] = tok
             /\ \A n \in Names \ {k} : SidesKept(n)
  BY <1>a, <1>b DEF SidesKept, Minted, Registered
<1>1. CASE Register(k, a, NONE, m, now_unix, e, g)
  <2> DEFINE tok == [ owner |-> a, approved |-> NONE, metadata_uri |-> m, expires_at |-> e ]
             ent == [ owner |-> a, resolver |-> NONE, target_address |-> NONE,
                      metadata_uri |-> m, registered_at |-> now_unix,
                      expires_at |-> e, grace_period_ends_at |-> g, transfer_count |-> 0 ]
  <2>1. tokens' = [tokens EXCEPT ![k] = tok]
    BY <1>1 DEF Register, with_nft, mint, burn_then_mint
  <2>2. entries' = [entries EXCEPT ![k] = ent]
    BY <1>1 DEF Register
  <2>3. tok \in TokenRecord /\ tok.expires_at = e /\ ent.expires_at = e
    BY DEF TokenRecord, Addresses
  <2>4. ent \in RegistryEntry
    BY BoundsAssumption DEF RegistryEntry, Addresses, CallerTimes
  <2> HIDE DEF tok, ent
  <2>5. Mirrors(k)'
    BY <1>b, <2>1, <2>2, <2>3, <2>4 DEF Mirrors, Minted, Registered
  <2> QED
    BY <1>b, <2>1, <2>2, <2>5
<1>2. CASE Renew(k, a, e, g, now_unix)
  <2> DEFINE tok == [tokens[k] EXCEPT !.expires_at = e]
             ent == [entries[k] EXCEPT !.expires_at = e, !.grace_period_ends_at = g]
  <2>1. Minted(k) /\ tokens' = [tokens EXCEPT ![k] = tok]
    BY <1>2 DEF Renew, with_nft, sync_expiry
  <2>2. Registered(k) /\ entries' = [entries EXCEPT ![k] = ent]
    BY <1>2 DEF Renew
  <2>3. tok \in TokenRecord /\ tok.expires_at = e
    BY <1>a, <2>1 DEF TokenRecord, Minted
  <2>4. ent \in RegistryEntry /\ ent.expires_at = e
    BY <1>a, <2>2 DEF RegistryEntry, Registered
  <2> HIDE DEF tok, ent
  <2>5. Mirrors(k)'
    BY <1>b, <2>1, <2>2, <2>3, <2>4 DEF Mirrors, Minted, Registered
  <2> QED
    BY <1>b, <2>1, <2>2, <2>5
<1>3. CASE Burn(k, a, now_unix)
  <2>1. tokens' = [tokens EXCEPT ![k] = NONE] /\ entries' = [entries EXCEPT ![k] = NONE]
    BY <1>3 DEF Burn, with_nft, burn
  <2>2. Mirrors(k)'
    BY <1>b, <2>1 DEF Mirrors, Minted, Registered
  <2> QED
    BY <1>b, <2>1, <2>2
<1> QED
  BY <1>1, <1>2, <1>3

\* Every other write of the registry's storage keeps both sides of every name.
LEMMA OtherWritesKeepSides ==
    ASSUME TypeOK, nft_contract # NONE, NEW k \in Names, NEW a \in Users,
           NEW now_unix \in CallerTimes,
           \/ \E b \in Users : Transfer(k, a, b, now_unix)
           \/ \E r \in ResolverIds \cup {NONE} : SetResolver(k, a, r, now_unix)
           \/ \E b \in EntryTargets \cup {NONE} : SetTargetAddress(k, a, b, now_unix)
           \/ \E m \in Metadata \cup {NONE} : SetMetadata(k, a, m, now_unix)
           \/ \E c \in NftCandidates, b \in Users : UpdateOwner(k, c, b)
           \/ \E c \in Admins : \/ UnlockName(k, c)
                                \/ \E t \in Times : LockName(k, c, t, now_unix)
    PROVE  \A n \in Names : SidesKept(n)
<1> USE AddressAssumption, NftNoneAssumption
<1>a. /\ entries \in [Names -> RegistryEntry \cup {NONE}]
      /\ tokens \in [Names -> TokenRecord \cup {NONE}]
  BY DEF TypeOK, StoreTypeOK, NftTypeOK
<1>b. Registered(k) => entries[k] \in RegistryEntry
  BY <1>a DEF Registered
<1>c. Minted(k) => tokens[k] \in TokenRecord
  BY <1>a DEF Minted
<1>d. ASSUME NEW ent \in RegistryEntry, Registered(k), ent.expires_at = entries[k].expires_at,
             entries' = [entries EXCEPT ![k] = ent], UNCHANGED tokenVars
      PROVE  \A n \in Names : SidesKept(n)
  BY <1>a, <1>d DEF SidesKept, Minted, Registered, tokenVars
<1>f. Registered(k) => saturating_inc(entries[k].transfer_count) \in 0 .. U32Max
  BY <1>b, BoundsAssumption DEF RegistryEntry, saturating_inc
<1>1. ASSUME NEW b \in Users, Transfer(k, a, b, now_unix)
      PROVE  \A n \in Names : SidesKept(n)
  <2> DEFINE ent == [entries[k] EXCEPT !.owner = b, !.transfer_count = saturating_inc(@)]
             tok == [tokens[k] EXCEPT !.owner = b]
  <2>1. Registered(k) /\ entries' = [entries EXCEPT ![k] = ent]
    BY <1>1 DEF Transfer, ensure_owner, resolve_ok
  <2>2. nft_contract = NFT /\ Minted(k) /\ tokens' = [tokens EXCEPT ![k] = tok]
    BY <1>1 DEF Transfer, with_nft, sync_owner
  <2>3. ent.expires_at = entries[k].expires_at /\ ent \in RegistryEntry
    BY <1>b, <1>f, <2>1 DEF RegistryEntry, Addresses
  <2>4. tok.expires_at = tokens[k].expires_at /\ tok \in TokenRecord
    BY <1>c, <2>2 DEF TokenRecord, Addresses
  <2> HIDE DEF ent, tok
  <2> QED
    BY <1>a, <2>1, <2>2, <2>3, <2>4 DEF SidesKept, Minted, Registered
<1>2. ASSUME NEW r \in ResolverIds \cup {NONE}, SetResolver(k, a, r, now_unix)
      PROVE  \A n \in Names : SidesKept(n)
  <2> DEFINE ent == [entries[k] EXCEPT !.resolver = r]
  <2>1. Registered(k) /\ entries' = [entries EXCEPT ![k] = ent] /\ UNCHANGED tokenVars
    BY <1>2 DEF SetResolver, ensure_owner, resolve_ok
  <2>2. ent.expires_at = entries[k].expires_at /\ ent \in RegistryEntry
    BY <1>b, <2>1 DEF RegistryEntry
  <2> HIDE DEF ent
  <2> QED
    BY <1>d, <2>1, <2>2
<1>3. ASSUME NEW b \in EntryTargets \cup {NONE}, SetTargetAddress(k, a, b, now_unix)
      PROVE  \A n \in Names : SidesKept(n)
  <2> DEFINE ent == [entries[k] EXCEPT !.target_address = b]
  <2>1. Registered(k) /\ entries' = [entries EXCEPT ![k] = ent] /\ UNCHANGED tokenVars
    BY <1>3 DEF SetTargetAddress, ensure_owner, resolve_ok
  <2>2. ent.expires_at = entries[k].expires_at /\ ent \in RegistryEntry
    BY <1>b, <2>1 DEF RegistryEntry
  <2> HIDE DEF ent
  <2> QED
    BY <1>d, <2>1, <2>2
<1>4. ASSUME NEW m \in Metadata \cup {NONE}, SetMetadata(k, a, m, now_unix)
      PROVE  \A n \in Names : SidesKept(n)
  <2> DEFINE ent == [entries[k] EXCEPT !.metadata_uri = m]
  <2>1. Registered(k) /\ entries' = [entries EXCEPT ![k] = ent] /\ UNCHANGED tokenVars
    BY <1>4 DEF SetMetadata, ensure_owner, resolve_ok
  <2>2. ent.expires_at = entries[k].expires_at /\ ent \in RegistryEntry
    BY <1>b, <2>1 DEF RegistryEntry
  <2> HIDE DEF ent
  <2> QED
    BY <1>d, <2>1, <2>2
<1>5. ASSUME NEW c \in NftCandidates, NEW b \in Users, UpdateOwner(k, c, b)
      PROVE  \A n \in Names : SidesKept(n)
  <2> DEFINE ent == [entries[k] EXCEPT !.owner = b, !.transfer_count = saturating_inc(@)]
  <2>1. Registered(k) /\ entries' = [entries EXCEPT ![k] = ent] /\ UNCHANGED tokenVars
    BY <1>5 DEF UpdateOwner, resolve_ok
  <2>2. ent.expires_at = entries[k].expires_at /\ ent \in RegistryEntry
    BY <1>b, <1>f, <2>1 DEF RegistryEntry, Addresses
  <2> HIDE DEF ent
  <2> QED
    BY <1>d, <2>1, <2>2
<1>6. ASSUME NEW c \in Admins, \/ UnlockName(k, c)
                               \/ \E t \in Times : LockName(k, c, t, now_unix)
      PROVE  \A n \in Names : SidesKept(n)
  BY <1>6 DEF UnlockName, LockName, SidesKept, Minted, Registered, tokenVars
<1> QED
  BY <1>1, <1>2, <1>3, <1>4, <1>5, <1>6

\* What the NFT contract does on its own keeps both sides, unless an account
\* administers it.
LEMMA HolderCallsKeepSides ==
    ASSUME TypeOK, NftNext, nft_admin \notin Admins
    PROVE  \A n \in Names : SidesKept(n)
<1>a. tokens \in [Names -> TokenRecord \cup {NONE}] /\ UNCHANGED entries
  BY NftKeepsRegistry DEF TypeOK, NftTypeOK, storeVars
<1>b. ASSUME NEW k \in Names, Minted(k), NEW tok \in TokenRecord,
             tok.expires_at = tokens[k].expires_at, tokens' = [tokens EXCEPT ![k] = tok]
      PROVE  \A n \in Names : SidesKept(n)
  BY <1>a, <1>b, NftNoneAssumption DEF SidesKept, Minted, Registered
<1>c. ASSUME UNCHANGED tokens
      PROVE  \A n \in Names : SidesKept(n)
  BY <1>a, <1>c DEF SidesKept, Minted, Registered
<1>d. \A k \in Names : Minted(k) => tokens[k] \in TokenRecord
  BY <1>a DEF Minted
<1>e. Users \subseteq Addresses
  BY DEF Addresses
<1>1. CASE \/ \E a \in NftAdmins : NftInitialize(a)
           \/ \E n \in Names : RefreshNameData(n)
  BY <1>1, <1>c DEF NftInitialize, RefreshNameData, tokenVars
<1>2. ~NftSetRegistry /\ ~NftAdminCall
  BY DEF NftSetRegistry, NftAdminCall
<1>3. ASSUME NEW k \in Names, NEW a \in Users, NEW b \in Users, Approve(k, a, b) \/ ApproveClear(k, a)
      PROVE  \A n \in Names : SidesKept(n)
  <2>1. PICK x \in Addresses \cup {NONE} : tokens' = [tokens EXCEPT ![k].approved = x]
    BY <1>3, <1>e DEF Approve, ApproveClear
  <2> DEFINE tok == [tokens[k] EXCEPT !.approved = x]
  <2>2. Minted(k) /\ tokens' = [tokens EXCEPT ![k] = tok]
    BY <1>3, <2>1 DEF Approve, ApproveClear
  <2>3. tok \in TokenRecord /\ tok.expires_at = tokens[k].expires_at
    BY <1>d, <2>2 DEF TokenRecord
  <2> HIDE DEF tok
  <2> QED
    BY <1>b, <2>2, <2>3
<1>4. ASSUME NEW k \in Names, NEW b \in Users, Minted(k), hand_over(k, b)
      PROVE  \A n \in Names : SidesKept(n)
  <2> DEFINE tok == [tokens[k] EXCEPT !.owner = b, !.approved = NONE]
  <2>1. tokens' = [tokens EXCEPT ![k] = tok]
    BY <1>4 DEF hand_over
  <2>2. tok \in TokenRecord /\ tok.expires_at = tokens[k].expires_at
    BY <1>4, <1>d, <1>e DEF TokenRecord
  <2> HIDE DEF tok
  <2> QED
    BY <1>4, <1>b, <2>1, <2>2
<1>5. ASSUME NEW k \in Names, NEW a \in Users, NEW b \in Users, NEW c \in Users,
             NftTransfer(k, a, b) \/ NftTransferFrom(k, a, b, c)
      PROVE  \A n \in Names : SidesKept(n)
  BY <1>4, <1>5 DEF NftTransfer, NftTransferFrom
<1> QED
  BY <1>1, <1>2, <1>3, <1>5
     DEF NftNext, AdminBurn, AdminSyncExpiry, AdminSyncOwner, AdminMint

\* With the NFT contract wired and no account to administer it, no call breaks
\* a mirror.
LEMMA MirrorStep ==
    ASSUME TypeOK, [Next]_vars, NEW n \in Names,
           nft_contract # NONE, nft_admin \notin Admins, Mirrors(n)
    PROVE  Mirrors(n)'
<1>a. ASSUME UNCHANGED << entries, tokens >> PROVE SidesKept(n)
  BY <1>a DEF SidesKept, Minted, Registered
<1>1. CASE StoreWrite
  <2>1. ASSUME NEW k \in Names, NEW a \in Users, NEW now_unix \in CallerTimes,
               NEW e \in Times, NEW g \in Times, NEW m \in Metadata \cup {NONE},
               \/ Register(k, a, NONE, m, now_unix, e, g)
               \/ Renew(k, a, e, g, now_unix)
               \/ Burn(k, a, now_unix)
        PROVE  Mirrors(n)'
    <3>1. nft_contract = NFT
      BY <2>1 DEF Register, Renew, Burn, with_nft
    <3>2. Mirrors(k)' /\ \A i \in Names \ {k} : SidesKept(i)
      BY <2>1, <3>1, IssueMirrors
    <3> QED
      BY <3>2, SidesKeptMirror
  <2>2. ASSUME NEW k \in Names, NEW a \in Users, NEW now_unix \in CallerTimes,
               \/ \E b \in Users : Transfer(k, a, b, now_unix)
               \/ \E r \in ResolverIds \cup {NONE} : SetResolver(k, a, r, now_unix)
               \/ \E b \in EntryTargets \cup {NONE} : SetTargetAddress(k, a, b, now_unix)
               \/ \E m \in Metadata \cup {NONE} : SetMetadata(k, a, m, now_unix)
        PROVE  Mirrors(n)'
    BY <2>2, OtherWritesKeepSides, SidesKeptMirror
  <2>3. ASSUME NEW k \in Names, NEW c \in NftCandidates, NEW b \in Users, UpdateOwner(k, c, b)
        PROVE  Mirrors(n)'
    <3>1. clock \in CallerTimes
      BY BoundsAssumption DEF TypeOK, StoreTypeOK, CallerTimes, Times
    <3> QED
      BY <2>3, <3>1, OtherWritesKeepSides, SidesKeptMirror
  <2>4. ASSUME NEW k \in Names, NEW c \in Admins,
               \/ UnlockName(k, c)
               \/ \E t \in Times, now_unix \in CallerTimes : LockName(k, c, t, now_unix)
        PROVE  Mirrors(n)'
    BY <2>4, <1>a, SidesKeptMirror DEF UnlockName, LockName, tokenVars
  <2>5. 0 \in Times /\ NONE \in Metadata \cup {NONE}
    BY BoundsAssumption DEF Times
  <2> QED
    BY <1>1, <2>1, <2>2, <2>3, <2>4, <2>5 DEF StoreWrite
<1>2. CASE Configure
  BY <1>2, <1>a, SidesKeptMirror
     DEF Configure, Initialize, SetDisputeAdmin, SetNftContract, storeVars, tokenVars
<1>3. CASE Tick /\ UNCHANGED << nftVars, resolverVars >>
  BY <1>3, <1>a, SidesKeptMirror DEF Tick, storeVars, nftVars, tokenVars
<1>4. CASE NftNext
  BY <1>4, HolderCallsKeepSides, SidesKeptMirror
<1>5. CASE ResolverNext /\ UNCHANGED nftVars
  BY <1>5, <1>a, ResolverKeepsRegistry, SidesKeptMirror DEF storeVars, nftVars, tokenVars
<1>6. CASE UNCHANGED vars
  BY <1>6, <1>a, SidesKeptMirror DEF vars, registryVars, storeVars, nftVars, tokenVars
<1> QED
  BY <1>1, <1>2, <1>3, <1>4, <1>5, <1>6, StepKinds

\* Once an NFT contract is wired and no account administers it, a token and the
\* entry of its name are created, prolonged and destroyed together.
THEOREM MirrorsKept == Spec => MirrorKept
<1> DEFINE Kept == \A n \in Names :
                /\ nft_contract # NONE
                /\ nft_admin \notin Admins
                /\ Mirrors(n)
                => Mirrors(n)'
<1>1. TypeOK /\ [Next]_vars => [Kept]_vars
  BY MirrorStep
<1> QED
  BY <1>1, TypeCorrect, PTL DEF Spec, MirrorKept

-----------------------------------------------------------------------------
(* The resolver contract. *)

\* Addresses written one after the other over an address replace it, unless
\* the last of them is that address again.
LEMMA OldAddressDeparts ==
    ASSUME NEW S, NEW addrs \in Seq(S), addrs # << >>,
           NEW old, old # NONE, old # addrs[Len(addrs)]
    PROVE  old \in departed(old, addrs)
<1> DEFINE chain == << old >> \o addrs
           T == {j \in 1 .. Len(chain) : chain[j] # old}
<1>1. /\ Len(addrs) \in Nat /\ Len(addrs) >= 1
      /\ Len(chain) = Len(addrs) + 1
      /\ chain[1] = old
      /\ chain[Len(addrs) + 1] = addrs[Len(addrs)]
  OBVIOUS
<1> HIDE DEF chain
<1>2. T # {} /\ T \in SUBSET Nat
  BY <1>1
<1>3. PICK x \in T : \A y \in T : x <= y
  BY <1>2, LeastElement
<1>4. x \in 2 .. Len(chain) /\ chain[x] # old
  BY <1>1, <1>3
<1>5. x - 1 \in 1 .. Len(chain) - 1 /\ x - 1 \notin T /\ (x - 1) + 1 = x
  BY <1>1, <1>3, <1>4
<1>6. chain[x - 1] = old
  BY <1>1, <1>5
<1>7. x - 1 \in {j \in 1 .. Len(chain) - 1 : chain[j] # chain[j + 1]}
  BY <1>4, <1>5, <1>6
<1>8. departed(old, addrs) =
        {chain[i] : i \in {j \in 1 .. Len(chain) - 1 : chain[j] # chain[j + 1]}} \ {NONE}
  BY DEF departed, chain
<1> QED
  BY <1>6, <1>7, <1>8

\* A batch is a sequence.
LEMMA BatchIsSeq ==
    ASSUME NEW S, NEW b \in Batches(S)
    PROVE  b \in Seq(S)
<1>1. PICK k \in 0 .. MaxBatchOps : b \in [1 .. k -> S]
  BY DEF Batches
<1> QED
  BY <1>1, ResolverAssumption

\* Mappings that are only dropped stay sound while no address moves.
LEMMA DropsAreSound ==
    ASSUME ResolverTypeOK, ReverseSound,
           \A a \in Addresses : reverse'[a] \in {reverse[a], NONE} /\ primary'[a] \in {primary[a], NONE},
           \A m \in Names : HasRecord(m) =>
               HasRecord(m)' /\ forward'[m].addresses[STELLAR] = forward[m].addresses[STELLAR]
    PROVE  ReverseSound'
<1>1. \A a \in Addresses : reverse[a] \in Names \cup {NONE} /\ primary[a] \in Names \cup {NONE}
  BY DEF ResolverTypeOK
<1> QED
  BY <1>1 DEF ReverseSound, stellar_address

\* Writing addresses over the one a record holds, and mapping the last of them
\* back, leaves no mapping at an address the record no longer holds.
LEMMA RemapIsSound ==
    ASSUME ResolverTypeOK, ReverseSound, NEW n \in Names,
           NEW addrs \in Seq(Addresses), addrs # << >>,
           NEW old, old = (IF HasRecord(n) THEN stellar_address(n) ELSE NONE),
           remap_reverse(n, old, addrs),
           HasRecord(n)', forward'[n].addresses[STELLAR] = addrs[Len(addrs)],
           \A m \in Names \ {n} : forward'[m] = forward[m]
    PROVE  ReverseSound'
<1> DEFINE last == addrs[Len(addrs)]
           gone == departed(old, addrs)
<1>a. \A a \in Addresses : reverse[a] \in Names \cup {NONE} /\ primary[a] \in Names \cup {NONE}
  BY DEF ResolverTypeOK
<1>b. /\ reverse' = [a \in Addresses |->
                        IF a = last THEN n ELSE IF a \in gone THEN NONE ELSE reverse[a]]
      /\ primary' = [a \in Addresses |-> IF a \in gone THEN NONE ELSE primary[a]]
  BY DEF remap_reverse
<1>c. old # NONE /\ old # last => old \in gone
  BY OldAddressDeparts
<1> HIDE DEF last, gone
<1> SUFFICES ASSUME NEW a \in Addresses, NEW m, m \in {reverse'[a], primary'[a]}, m # NONE
             PROVE  HasRecord(m)' /\ forward'[m].addresses[STELLAR] = a
  BY DEF ReverseSound, stellar_address
<1>1. CASE a = last /\ m = n
  BY <1>1 DEF last
<1>2. CASE ~(a = last /\ m = n)
  <2>1. a \notin gone \/ a = last
    BY <1>b, <1>2
  <2>2. m \in {reverse[a], primary[a]} /\ m \in Names
    BY <1>a, <1>b, <1>2
  <2>3. HasRecord(m) /\ stellar_address(m) = a
    BY <2>2 DEF ReverseSound
  <2>4. m # n
    <3> SUFFICES ASSUME m = n PROVE FALSE
      OBVIOUS
    <3>1. old = a /\ a # NONE
      BY <2>3, AddressAssumption
    <3> QED
      BY <1>2, <1>c, <2>1, <3>1
  <2> QED
    BY <2>2, <2>3, <2>4 DEF HasRecord, stellar_address
<1> QED
  BY <1>1, <1>2

\* Every entrypoint of the resolver contract keeps the mappings sound.
LEMMA ResolverKeepsSound ==
    ASSUME TypeOK, ReverseSound, ResolverNext
    PROVE  ReverseSound'
<1> USE AddressAssumption, ResolverAssumption, ResolverNoneAssumption
<1>a. /\ Users \subseteq Addresses /\ Targets \subseteq Addresses
      /\ ResolverTypeOK
      /\ forward \in [Names -> ResolutionRecord \cup {NONE}]
      /\ reverse \in [Addresses -> Names \cup {NONE}]
      /\ primary \in [Addresses -> Names \cup {NONE}]
  BY DEF TypeOK, ResolverTypeOK, Addresses
<1>b. \A n \in Names : HasRecord(n) =>
        /\ forward[n] \in ResolutionRecord
        /\ forward[n].addresses \in [Chains -> Addresses \cup {NONE}]
  BY <1>a DEF HasRecord, ResolutionRecord
<1>c. ASSUME NEW n \in Names, NEW rec \in ResolutionRecord, HasRecord(n),
             forward' = [forward EXCEPT ![n] = rec],
             rec.addresses[STELLAR] = forward[n].addresses[STELLAR]
      PROVE  \A m \in Names : HasRecord(m) =>
               HasRecord(m)' /\ forward'[m].addresses[STELLAR] = forward[m].addresses[STELLAR]
  BY <1>a, <1>c DEF HasRecord
<1>1. CASE ResolverInitialize
  BY <1>1, <1>a, DropsAreSound DEF ResolverInitialize, HasRecord
<1>2. CASE \E a \in Addresses : ReverseLookup(a)
  BY <1>2, <1>a, DropsAreSound DEF ReverseLookup, HasRecord
<1>3. ASSUME NEW n \in Names, NEW caller \in Users, NEW now_unix \in CallerTimes,
             NEW a \in Targets, SetRecord(n, caller, a, now_unix)
      PROVE  ReverseSound'
  <2> DEFINE old == IF HasRecord(n) THEN forward[n].addresses ELSE [c \in Chains |-> NONE]
             txt == IF HasRecord(n) THEN forward[n].text_records ELSE {}
             rec == [ owner |-> caller, addresses |-> [old EXCEPT ![STELLAR] = a],
                      text_records |-> txt ]
  <2>1. remap_reverse(n, old[STELLAR], << a >>) /\ forward' = [forward EXCEPT ![n] = rec]
    BY <1>3 DEF SetRecord
  <2>2. /\ old \in [Chains -> Addresses \cup {NONE}]
        /\ old[STELLAR] = IF HasRecord(n) THEN stellar_address(n) ELSE NONE
    BY <1>b DEF stellar_address
  <2>3. rec \in ResolutionRecord /\ rec.addresses[STELLAR] = a
    BY <1>a, <1>b, <2>2 DEF ResolutionRecord
  <2>4. << a >> \in Seq(Addresses) /\ << a >> # << >> /\ << a >>[Len(<< a >>)] = a
    BY <1>a
  <2> HIDE DEF rec, old
  <2>5. /\ forward'[n] = rec /\ HasRecord(n)'
        /\ \A m \in Names \ {n} : forward'[m] = forward[m]
    BY <1>a, <2>1, <2>3 DEF HasRecord
  <2> QED
    BY <1>a, <2>1, <2>2, <2>3, <2>4, <2>5, RemapIsSound
<1>4. ASSUME NEW n \in Names, NEW caller \in Users, NEW now_unix \in CallerTimes,
             NEW a \in Targets, NEW c \in Chains, SetAddress(n, caller, c, a, now_unix)
      PROVE  ReverseSound'
  <2> DEFINE rec == [forward[n] EXCEPT !.addresses[c] = a]
  <2>1. HasRecord(n) /\ forward' = [forward EXCEPT ![n] = rec]
    BY <1>4 DEF SetAddress
  <2>2. /\ rec \in ResolutionRecord
        /\ rec.addresses = [forward[n].addresses EXCEPT ![c] = a]
    BY <1>a, <1>b, <2>1 DEF ResolutionRecord
  <2>3. rec.addresses[STELLAR] = IF c = STELLAR THEN a ELSE forward[n].addresses[STELLAR]
    BY <1>b, <2>1, <2>2
  <2> HIDE DEF rec
  <2>4. CASE c = STELLAR
    <3>1. << a >> \in Seq(Addresses) /\ << a >> # << >> /\ << a >>[Len(<< a >>)] = a
      BY <1>a
    <3>2. remap_reverse(n, stellar_address(n), << a >>)
      BY <1>4, <2>4 DEF SetAddress
    <3>3. /\ forward'[n] = rec /\ HasRecord(n)'
          /\ \A m \in Names \ {n} : forward'[m] = forward[m]
      BY <1>a, <2>1, <2>2 DEF HasRecord
    <3> QED
      BY <1>a, <2>1, <2>3, <2>4, <3>1, <3>2, <3>3, RemapIsSound
  <2>5. CASE c # STELLAR
    <3>1. UNCHANGED << reverse, primary >>
      BY <1>4, <2>5 DEF SetAddress, remap_reverse
    <3> QED
      BY <1>a, <1>c, <2>1, <2>2, <2>3, <2>5, <3>1, DropsAreSound
  <2> QED
    BY <2>4, <2>5
<1>5. ASSUME NEW n \in Names, NEW caller \in Users, NEW now_unix \in CallerTimes,
             NEW addrs \in Batches(Targets), NEW keys \in Batches(TextKeys),
             BatchSet(n, caller, addrs, keys, now_unix)
      PROVE  ReverseSound'
  <2> DEFINE last == addrs[Len(addrs)]
             new == IF addrs = << >> THEN stellar_address(n) ELSE last
             rec == [forward[n] EXCEPT
                        !.addresses[STELLAR] = new,
                        !.text_records = add_text_records(@, keys)]
  <2>1. /\ HasRecord(n)
        /\ remap_reverse(n, stellar_address(n), addrs)
        /\ forward' = [forward EXCEPT ![n] = rec]
    BY <1>5 DEF BatchSet, stellar_address
  <2>2. addrs \in Seq(Addresses) /\ (addrs # << >> => last \in Addresses)
    BY <1>a, BatchIsSeq
  <2>3. new \in Addresses \cup {NONE}
    BY <1>b, <2>1, <2>2 DEF stellar_address
  <2>4. \A i \in 1 .. Len(keys) : keys[i] \in TextKeys
    BY BatchFacts
  <2>5. add_text_records(forward[n].text_records, keys) \in SUBSET TextKeys
    <3> DEFINE txt == add_text_records(forward[n].text_records, keys)
    <3>1. forward[n].text_records \subseteq TextKeys
      BY <1>b, <2>1 DEF ResolutionRecord
    <3>2. \A x \in txt : x \in forward[n].text_records \/ \E j \in 1 .. Len(keys) : x = keys[j]
      BY Zenon DEF add_text_records
    <3> QED
      BY <2>4, <3>1, <3>2
  <2> HIDE DEF new
  <2>6. /\ rec \in ResolutionRecord
        /\ rec.addresses[STELLAR] = new
    BY <1>b, <2>1, <2>3, <2>5 DEF ResolutionRecord
  <2> HIDE DEF rec
  <2>7. CASE addrs = << >>
    <3>1. UNCHANGED << reverse, primary >> /\ new = forward[n].addresses[STELLAR]
      BY <2>1, <2>7 DEF remap_reverse, new, stellar_address
    <3> QED
      BY <1>a, <1>c, <2>1, <2>6, <3>1, DropsAreSound
  <2>8. CASE addrs # << >>
    <3>1. new = last
      BY <2>8 DEF new
    <3>2. /\ forward'[n] = rec /\ HasRecord(n)'
          /\ \A m \in Names \ {n} : forward'[m] = forward[m]
      BY <1>a, <2>1, <2>6 DEF HasRecord
    <3> QED
      BY <1>a, <2>1, <2>2, <2>6, <2>8, <3>1, <3>2, RemapIsSound
  <2> QED
    BY <2>7, <2>8
<1>6. ASSUME NEW n \in Names, NEW caller \in Users, NEW now_unix \in CallerTimes,
             \/ \E k \in TextKeys : SetTextRecord(n, caller, k, now_unix)
             \/ \E b \in BOOLEAN : SetWildcardResolution(n, caller, b, now_unix)
      PROVE  ReverseSound'
  <2>1. CASE \E b \in BOOLEAN : SetWildcardResolution(n, caller, b, now_unix)
    BY <2>1, <1>a, DropsAreSound DEF SetWildcardResolution, HasRecord
  <2>2. ASSUME NEW k \in TextKeys, SetTextRecord(n, caller, k, now_unix)
        PROVE  ReverseSound'
    <3> DEFINE rec == [forward[n] EXCEPT !.text_records = @ \cup {k}]
    <3>1. HasRecord(n) /\ forward' = [forward EXCEPT ![n] = rec] /\ UNCHANGED << reverse, primary >>
      BY <2>2 DEF SetTextRecord
    <3>2. rec \in ResolutionRecord /\ rec.addresses = forward[n].addresses
      BY <1>b, <3>1 DEF ResolutionRecord
    <3> HIDE DEF rec
    <3> QED
      BY <1>a, <1>c, <3>1, <3>2, DropsAreSound
  <2> QED
    BY <1>6, <2>1, <2>2
<1>7. ASSUME NEW n \in Names, NEW caller \in Users, NEW a \in Targets, SetPrimaryName(a, caller, n)
      PROVE  ReverseSound'
  <2>1. /\ HasRecord(n) /\ stellar_address(n) = a
        /\ primary' = [primary EXCEPT ![a] = n]
        /\ UNCHANGED << forward, reverse >>
    BY <1>7 DEF SetPrimaryName
  <2> QED
    BY <1>a, <2>1 DEF ReverseSound, HasRecord, stellar_address
<1>8. ASSUME NEW n \in Names, NEW caller \in Users, RemoveRecord(n, caller)
      PROVE  ReverseSound'
  <2> DEFINE at == stellar_address(n)
  <2>1. /\ HasRecord(n) /\ forward' = [forward EXCEPT ![n] = NONE]
        /\ IF at = NONE
           THEN UNCHANGED << reverse, primary >>
           ELSE /\ reverse' = [reverse EXCEPT ![at] = NONE]
                /\ primary' = [primary EXCEPT ![at] = NONE]
    BY <1>8 DEF RemoveRecord
  <2>2. at \in Addresses \cup {NONE}
    BY <1>b, <2>1 DEF stellar_address
  <2> SUFFICES ASSUME NEW a \in Addresses, NEW m, m \in {reverse'[a], primary'[a]}, m # NONE
               PROVE  HasRecord(m)' /\ forward'[m].addresses[STELLAR] = a
    BY DEF ReverseSound, stellar_address
  <2>3. a # at /\ m \in {reverse[a], primary[a]} /\ m \in Names
    BY <1>a, <2>1, <2>2
  <2>4. HasRecord(m) /\ stellar_address(m) = a
    BY <2>3 DEF ReverseSound
  <2>5. m # n
    BY <2>3, <2>4
  <2> QED
    BY <1>a, <2>1, <2>3, <2>4, <2>5 DEF HasRecord, stellar_address
<1>9. ASSUME NEW n \in Names, NEW caller \in Users, NEW b \in Users,
             ResolverUpdateOwner(n, caller, b) \/ TransferRecordOwner(n, caller, b)
      PROVE  ReverseSound'
  <2> DEFINE rec == [forward[n] EXCEPT !.owner = b]
  <2>1. HasRecord(n) /\ forward' = [forward EXCEPT ![n] = rec] /\ UNCHANGED << reverse, primary >>
    BY <1>9 DEF ResolverUpdateOwner, TransferRecordOwner
  <2>2. rec \in ResolutionRecord /\ rec.addresses = forward[n].addresses
    BY <1>a, <1>b, <2>1 DEF ResolutionRecord
  <2> HIDE DEF rec
  <2> QED
    BY <1>a, <1>c, <2>1, <2>2, DropsAreSound
<1> QED
  BY <1>1, <1>2, <1>3, <1>4, <1>5, <1>6, <1>7, <1>8, <1>9 DEF ResolverNext

\* A reverse or primary mapping always points at a name whose forward record
\* holds that very address: no order of record writes, batches, removals,
\* lookups and registry transfers leaves a dangling or crossed mapping.
THEOREM ReverseIsSound == Spec => []ReverseSound
<1>1. Init => ReverseSound
  BY DEF Init, ResolverInit, ReverseSound
<1>2. TypeOK /\ ReverseSound /\ [Next]_vars => ReverseSound'
  <2> SUFFICES ASSUME TypeOK, ReverseSound, [Next]_vars
               PROVE  ReverseSound'
    OBVIOUS
  <2>1. CASE UNCHANGED resolverVars
    BY <2>1 DEF resolverVars, ReverseSound, HasRecord, stellar_address
  <2>2. CASE StoreWrite
    <3>1. ASSUME NEW n \in Names, NEW a \in Users, clear_reverse_record(n, a)
          PROVE  ReverseSound'
      BY <3>1, DropsAreSound DEF clear_reverse_record, drop_mappings, TypeOK, ResolverTypeOK, HasRecord
    <3> QED
      BY <2>1, <2>2, <3>1, WithResolver
  <2>3. CASE ResolverNext
    BY <2>3, ResolverKeepsSound
  <2>4. CASE \/ Configure
             \/ Tick /\ UNCHANGED << nftVars, resolverVars >>
             \/ NftNext /\ UNCHANGED resolverVars
    BY <2>1, <2>4 DEF Configure, Initialize, SetDisputeAdmin, SetNftContract
  <2>5. CASE UNCHANGED vars
    BY <2>1, <2>5 DEF vars
  <2> QED
    BY <2>2, <2>3, <2>4, <2>5, StepKinds
<1> QED
  BY <1>1, <1>2, TypeCorrect, PTL DEF Spec

-----------------------------------------------------------------------------
(* Resolving with the records of ancestors. *)

\* One turn of the loop of resolve_with_fallback, at a name that many hops up.
Look(n, further, hops, current) ==
    IF HasRecord(current)
    THEN IF current = n \/ wildcard[current] THEN current ELSE NONE
    ELSE IF hops >= FallbackDepth \/ Parent[current] = NONE THEN NONE
    ELSE further[hops + 1][Parent[current]]

\* The loop of resolve_with_fallback is defined: its turns determine the answer.
LEMMA ClimbTurns ==
    ASSUME NEW n \in Names
    PROVE  \E climb : /\ resolve_with_fallback(n) = climb[0][n]
                      /\ \A hops \in 0 .. FallbackDepth, c \in Names :
                            climb[hops][c] = Look(n, climb, hops, c)
<1> DEFINE Turn(f, hops) == [c \in Names |-> Look(n, f, hops, c)]
           Turns(f, first) == f = [hops \in first .. FallbackDepth |-> Turn(f, hops)]
           T == {k \in 0 .. FallbackDepth : ~ \E f : Turns(f, FallbackDepth - k)}
           D == FallbackDepth
<1>1. D \in Nat
  BY ResolverAssumption
<1>2. T = {}
  <2> SUFFICES ASSUME T # {} PROVE FALSE
    OBVIOUS
  <2>1. PICK k \in T : \A m \in T : k <= m
    <3>1. T \in SUBSET Nat
      BY <1>1
    <3> HIDE DEF T
    <3> QED
      BY <3>1, LeastElement
  <2>2. k \in 0 .. D
    OBVIOUS
  <2>3. CASE k = 0
    <3> DEFINE f == [hops \in D .. D |-> Turn({}, hops)]
    <3>1. \A g, h : Turn(g, D) = Turn(h, D)
      BY <1>1 DEF Look
    <3>2. \A hops \in D .. D : Turn({}, hops) = Turn(f, hops)
      BY <1>1, <3>1
    <3> HIDE DEF Turn
    <3>3. Turns(f, D - 0)
      BY <1>1, <3>2
    <3> QED
      BY <2>1, <2>3, <3>3
  <2>4. CASE k # 0
    <3>1. k - 1 \in 0 .. D /\ k - 1 \notin T /\ D - (k - 1) = (D - k) + 1 /\ D - k \in 0 .. D - 1
      <4>1. k - 1 \in 0 .. D /\ ~(k <= k - 1) /\ D - (k - 1) = (D - k) + 1 /\ D - k \in 0 .. D - 1
        BY <1>1, <2>2, <2>4
      <4> HIDE DEF T
      <4> QED
        BY <2>1, <4>1
    <3>2. PICK h : Turns(h, (D - k) + 1)
      BY <3>1
    <3> DEFINE f == [hops \in D - k .. D |-> Turn(h, hops)]
    <3>3. \A hops \in (D - k) + 1 .. D : h[hops] = Turn(h, hops) /\ f[hops] = Turn(h, hops)
      <4> HIDE DEF Turn
      <4> QED
        BY <1>1, <2>2, <3>2
    <3>4. \A hops \in D - k .. D : Turn(h, hops) = Turn(f, hops)
      <4> SUFFICES ASSUME NEW hops \in D - k .. D, NEW c \in Names
                   PROVE  Look(n, h, hops, c) = Look(n, f, hops, c)
        BY Zenon
      <4>1. CASE hops >= D
        BY <4>1 DEF Look
      <4>2. CASE ~(hops >= D)
        <5>1. hops + 1 \in (D - k) + 1 .. D
          BY <1>1, <2>2, <4>2
        <5>2. h[hops + 1] = f[hops + 1]
          BY <3>3, <5>1
        <5> QED
          BY <5>2 DEF Look
      <4> QED
        BY <4>1, <4>2
    <3> HIDE DEF Turn
    <3>5. Turns(f, D - k)
      BY <3>4
    <3> QED
      BY <2>1, <3>5
  <2> QED
    BY <2>3, <2>4
<1> DEFINE climb == CHOOSE f : Turns(f, 0)
<1>3. Turns(climb, 0)
  <2>1. D \in 0 .. D /\ D - D = 0
    BY <1>1
  <2>2. D \notin T
    <3> HIDE DEF T
    <3> QED
      BY <1>2
  <2> HIDE DEF Turns
  <2>3. \E f : Turns(f, D - D)
    BY <2>1, <2>2
  <2> QED
    BY <2>1, <2>3
<1>4. resolve_with_fallback(n) = climb[0][n]
  BY DEF resolve_with_fallback, Look
<1> HIDE DEF climb
<1>5. \A hops \in 0 .. FallbackDepth : climb[hops] = Turn(climb, hops)
  <2> HIDE DEF Turn
  <2> QED
    BY <1>3
<1>6. \A hops \in 0 .. FallbackDepth, c \in Names : climb[hops][c] = Look(n, climb, hops, c)
  BY <1>5
<1> QED
  BY <1>4, <1>6

\* So are the ancestors of a name, each a name until there is none.
LEMMA AncestorTurns ==
    ASSUME NEW n \in Names
    PROVE  /\ ancestors(n)[0] = n
           /\ \A i \in 1 .. FallbackDepth :
                 ancestors(n)[i] = IF ancestors(n)[i - 1] = NONE THEN NONE ELSE Parent[ancestors(n)[i - 1]]
           /\ \A i \in 0 .. FallbackDepth : ancestors(n)[i] \in Names \cup {NONE}
<1> DEFINE Up(g, i) == IF i = 0 THEN n ELSE IF g[i - 1] = NONE THEN NONE ELSE Parent[g[i - 1]]
           Turns(g, k) == g = [i \in 0 .. k |-> Up(g, i)]
           T == {k \in Nat : ~ \E g : Turns(g, k)}
<1>1. FallbackDepth \in Nat
  BY ResolverAssumption
<1>2. T = {}
  <2> SUFFICES ASSUME T # {} PROVE FALSE
    OBVIOUS
  <2>1. PICK k \in T : \A m \in T : k <= m
    BY LeastElement
  <2>2. CASE k = 0
    <3> DEFINE g == [i \in 0 .. 0 |-> n]
    <3>1. Turns(g, 0)
      OBVIOUS
    <3> QED
      BY <2>1, <2>2, <3>1
  <2>3. CASE k # 0
    <3>1. k - 1 \in Nat /\ k - 1 \notin T
      BY <2>1, <2>3
    <3>2. PICK h : Turns(h, k - 1)
      BY <3>1
    <3> DEFINE g == [i \in 0 .. k |-> IF i = k THEN Up(h, k) ELSE h[i]]
    <3>3. \A i \in 0 .. k - 1 : g[i] = h[i]
      BY <3>1
    <3>4. \A i \in 0 .. k - 1 : h[i] = Up(h, i)
      BY <3>2
    <3>5. \A i \in 0 .. k : g[i] = Up(g, i)
      <4> SUFFICES ASSUME NEW i \in 0 .. k PROVE g[i] = Up(g, i)
        OBVIOUS
      <4>1. CASE i = k
        BY <2>1, <2>3, <3>1, <3>3, <4>1
      <4>2. CASE i = 0
        BY <2>1, <2>3, <3>1, <3>3, <3>4, <4>2
      <4>3. CASE i \in 1 .. k - 1
        <5>1. i - 1 \in 0 .. k - 1
          BY <3>1, <4>3
        <5> QED
          BY <3>1, <3>3, <3>4, <4>3, <5>1
      <4> QED
        BY <2>1, <4>1, <4>2, <4>3
    <3>6. Turns(g, k)
      BY <3>5
    <3> QED
      BY <2>1, <3>6
  <2> QED
    BY <2>2, <2>3
<1> DEFINE up == CHOOSE g : Turns(g, FallbackDepth)
<1>3. Turns(up, FallbackDepth)
  <2>1. \E g : Turns(g, FallbackDepth)
    BY <1>1, <1>2
  <2> HIDE DEF Turns
  <2> QED
    BY <2>1
<1>4. ancestors(n) = up
  BY DEF ancestors
<1> HIDE DEF up
<1>5. \A i \in 0 .. FallbackDepth : up[i] = Up(up, i)
  BY <1>3
<1> DEFINE Bad == {i \in 0 .. FallbackDepth : up[i] \notin Names \cup {NONE}}
<1>6. Bad = {}
  <2> SUFFICES ASSUME Bad # {} PROVE FALSE
    OBVIOUS
  <2>1. PICK i \in Bad : \A j \in Bad : i <= j
    <3>1. Bad \in SUBSET Nat
      BY <1>1
    <3> HIDE DEF Bad
    <3> QED
      BY <3>1, LeastElement
  <2>2. i # 0
    BY <1>1, <1>5, <2>1
  <2>3. i - 1 \in 0 .. FallbackDepth /\ up[i - 1] \in Names \cup {NONE}
    <3>1. i - 1 \in 0 .. FallbackDepth /\ ~(i <= i - 1)
      BY <1>1, <2>2
    <3>2. i - 1 \notin Bad
      <4> HIDE DEF Bad
      <4> QED
        BY <2>1, <3>1
    <3> QED
      BY <3>1, <3>2
  <2> QED
    BY <1>5, <2>2, <2>3, ResolverAssumption
<1>7. up[0] = n /\ \A i \in 1 .. FallbackDepth : up[i] = Up(up, i)
  BY <1>1, <1>5
<1> QED
  BY <1>1, <1>4, <1>6, <1>7

\* Where the ancestors end, there are none further up.
LEMMA AncestorsEnd ==
    ASSUME NEW n \in Names, NEW h \in 0 .. FallbackDepth, ancestors(n)[h] = NONE
    PROVE  \A i \in h .. FallbackDepth : ancestors(n)[i] = NONE
<1> DEFINE up == ancestors(n)
           Bad == {i \in h .. FallbackDepth : up[i] # NONE}
<1>1. FallbackDepth \in Nat /\ Bad \in SUBSET Nat
  BY ResolverAssumption
<1>2. \A i \in 1 .. FallbackDepth : up[i - 1] = NONE => up[i] = NONE
  BY AncestorTurns
<1>3. up[h] = NONE
  OBVIOUS
<1> HIDE DEF up
<1>4. ASSUME Bad # {} PROVE FALSE
  <2>1. PICK i \in Bad : \A j \in Bad : i <= j
    <3> HIDE DEF Bad
    <3> QED
      BY <1>1, <1>4, LeastElement
  <2>2. i # h /\ i \in h .. FallbackDepth /\ up[i] # NONE
    BY <1>3, <2>1
  <2>3. i - 1 \in h .. FallbackDepth /\ ~(i <= i - 1) /\ i \in 1 .. FallbackDepth
    BY <1>1, <2>2
  <2>4. i - 1 \notin Bad
    <3> HIDE DEF Bad
    <3> QED
      BY <2>1, <2>3
  <2>5. up[i - 1] = NONE
    BY <2>3, <2>4
  <2> QED
    BY <1>2, <2>2, <2>3, <2>5
<1> QED
  BY <1>4 DEF up

\* An answer that is right when given h labels above n: the nearest record, or
\* none because there is none or a switched-off one is nearer.
Nearest(n, answer) ==
    LET up == ancestors(n)
        at(i) == up[i] # NONE /\ HasRecord(up[i])
    IN  /\ answer # NONE =>
            \E i \in 0 .. FallbackDepth :
                /\ answer = up[i] /\ at(i)
                /\ \A j \in 0 .. i - 1 : ~at(j)
                /\ i > 0 => wildcard[up[i]]
        /\ answer = NONE =>
            \A i \in 0 .. FallbackDepth :
                at(i) => \E j \in 0 .. i : at(j) /\ j > 0 /\ ~wildcard[up[j]]

\* By induction from the last ancestor that may be asked down to the name itself.
LEMMA NearestIsFound ==
    ASSUME NEW n \in Names
    PROVE  Nearest(n, resolve_with_fallback(n))
<1>1. PICK climb : /\ resolve_with_fallback(n) = climb[0][n]
                   /\ \A hops \in 0 .. FallbackDepth, c \in Names :
                         climb[hops][c] = Look(n, climb, hops, c)
  BY ClimbTurns
<1> DEFINE D == FallbackDepth
           up == ancestors(n)
           at(i) == up[i] # NONE /\ HasRecord(up[i])
           Right(h) == up[h] # NONE /\ (\A j \in 0 .. h - 1 : ~at(j)) => Nearest(n, climb[h][up[h]])
           Bad == {k \in 0 .. D : ~Right(D - k)}
<1>2. D \in Nat
  BY ResolverAssumption
<1>3. /\ up[0] = n
      /\ \A i \in 1 .. D : up[i] = IF up[i - 1] = NONE THEN NONE ELSE Parent[up[i - 1]]
      /\ \A i \in 0 .. D : up[i] \in Names \cup {NONE}
      /\ n # NONE
  BY AncestorTurns, ResolverAssumption
<1>4. \A h \in 0 .. D : up[h] = NONE => \A i \in h .. D : up[i] = NONE
  BY AncestorsEnd
<1> HIDE DEF up
<1>5. ASSUME NEW h \in 0 .. D, h < D => Right(h + 1), up[h] # NONE, \A j \in 0 .. h - 1 : ~at(j)
      PROVE  Nearest(n, climb[h][up[h]])
  <2> DEFINE c == up[h]
  <2>1. c \in Names /\ climb[h][c] = Look(n, climb, h, c)
    BY <1>1, <1>3, <1>5
  <2>2. CASE HasRecord(c)
    <3>1. at(h)
      BY <1>5, <2>2
    <3>2. c = n <=> h = 0
      <4>1. CASE h > 0
        <5>1. 0 \in 0 .. h - 1
          BY <1>2, <4>1
        <5>2. ~HasRecord(n)
          BY <1>3, <1>5, <5>1
        <5> QED
          BY <2>2, <4>1, <5>2
      <4> QED
        BY <1>2, <1>3, <4>1
    <3>3. CASE h = 0 \/ wildcard[c]
      <4>1. climb[h][c] = c
        BY <2>1, <2>2, <3>2, <3>3 DEF Look
      <4>2. h > 0 => wildcard[up[h]]
        BY <3>3
      <4> QED
        BY <1>5, <3>1, <4>1, <4>2 DEF Nearest, up
    <3>4. CASE ~(h = 0 \/ wildcard[c])
      <4>1. climb[h][c] = NONE
        BY <2>1, <2>2, <3>2, <3>4 DEF Look
      <4>2. ASSUME NEW i \in 0 .. D, at(i)
            PROVE  \E j \in 0 .. i : at(j) /\ j > 0 /\ ~wildcard[up[j]]
        <5>1. h \in 0 .. i /\ h > 0
          BY <1>2, <1>5, <3>4, <4>2
        <5> QED
          BY <3>1, <3>4, <5>1
      <4> QED
        BY <4>1, <4>2 DEF Nearest, up
    <3> QED
      BY <3>3, <3>4
  <2>3. CASE ~HasRecord(c)
    <3>1. \A j \in 0 .. h : ~at(j)
      BY <1>2, <1>5, <2>3
    <3>2. CASE h < D /\ Parent[c] # NONE
      <4>1. h + 1 \in 1 .. D /\ (h + 1) - 1 = h /\ 0 .. (h + 1) - 1 = 0 .. h
        BY <1>2, <3>2
      <4>2. up[h + 1] = Parent[c]
        BY <1>3, <1>5, <4>1
      <4>3. climb[h][c] = climb[h + 1][up[h + 1]]
        BY <1>2, <2>1, <2>3, <3>2, <4>2 DEF Look
      <4> QED
        BY <1>5, <3>1, <3>2, <4>1, <4>2, <4>3
    <3>3. CASE ~(h < D /\ Parent[c] # NONE)
      <4>1. climb[h][c] = NONE
        BY <1>2, <2>1, <2>3, <3>3 DEF Look
      <4>2. ASSUME NEW i \in 0 .. D, i > h PROVE up[i] = NONE
        <5>1. h + 1 \in 1 .. D /\ (h + 1) - 1 = h /\ h < D /\ i \in h + 1 .. D
          BY <1>2, <4>2
        <5>2. up[h + 1] = NONE
          BY <1>3, <1>5, <3>3, <5>1
        <5> QED
          BY <1>4, <5>1, <5>2
      <4>3. \A i \in 0 .. D : ~at(i)
        BY <1>2, <3>1, <4>2
      <4> QED
        BY <4>1, <4>3 DEF Nearest, up
    <3> QED
      BY <3>2, <3>3
  <2> QED
    BY <2>2, <2>3
<1>6. Bad = {}
  <2> SUFFICES ASSUME Bad # {} PROVE FALSE
    OBVIOUS
  <2> HIDE DEF Right
  <2>1. PICK k \in Bad : \A m \in Bad : k <= m
    <3>1. Bad \in SUBSET Nat
      BY <1>2
    <3> HIDE DEF Bad
    <3> QED
      BY <3>1, LeastElement
  <2>2. k \in 0 .. D /\ ~Right(D - k)
    OBVIOUS
  <2>3. D - k < D => Right((D - k) + 1)
    <3> SUFFICES ASSUME D - k < D PROVE Right((D - k) + 1)
      OBVIOUS
    <3>1. k - 1 \in 0 .. D /\ ~(k <= k - 1) /\ D - (k - 1) = (D - k) + 1
      BY <1>2, <2>2
    <3>2. k - 1 \notin Bad
      <4> HIDE DEF Bad
      <4> QED
        BY <2>1, <3>1
    <3>3. Right(D - (k - 1))
      BY <3>1, <3>2
    <3> QED
      BY <3>1, <3>3
  <2>4. D - k \in 0 .. D
    BY <1>2, <2>2
  <2>5. Right(D - k)
    BY <1>5, <2>3, <2>4 DEF Right
  <2> QED
    BY <2>2, <2>5
<1>7. Right(0)
  <2>1. D \in 0 .. D /\ D - D = 0 /\ D \notin Bad
    BY <1>2, <1>6
  <2> HIDE DEF Right
  <2>2. Right(D - D)
    BY <2>1
  <2> QED
    BY <2>1, <2>2
<1>8. 0 .. 0 - 1 = {}
  OBVIOUS
<1> QED
  BY <1>1, <1>3, <1>7, <1>8

\* resolve answers with the record of the nearest of n and its ancestors that
\* has one, looks no further than FallbackDepth labels up, and a switched-off
\* ancestor shadows the ones above it.
THEOREM FallbackIsNearest == Spec => []FallbackNearest
<1>1. FallbackNearest
  BY NearestIsFound, Zenon DEF FallbackNearest, Nearest
<1> QED
  BY <1>1, PTL

=============================================================================
