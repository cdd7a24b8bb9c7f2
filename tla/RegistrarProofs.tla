--------------------------- MODULE RegistrarProofs ---------------------------
(* The registrar in front of the registry, for every value of the constants. *)
EXTENDS Registrar, RegistryProofs, SumProofs

-----------------------------------------------------------------------------
(* Arithmetic. *)

\* A saturating operation stays within the limit and is monotone.
LEMMA SaturateFacts ==
    ASSUME NEW limit \in Nat, NEW x \in Nat, NEW y \in Nat
    PROVE  /\ saturate(x, limit) \in 0 .. limit
           /\ x <= y => saturate(x, limit) <= saturate(y, limit)
           /\ x <= limit => saturate(x, limit) >= x
           /\ saturate(x, limit) <= x
           /\ saturate(x, limit) = x \/ saturate(x, limit) = limit
BY DEF saturate

\* A fee is an amount, and more years never cost less.
LEMMA FeeFacts ==
    ASSUME NEW n \in Labels, NEW years \in Nat, years >= 1
    PROVE  /\ fee_due(n, years) \in 0 .. AmountMax
           /\ fee_due(n, 1) \in 0 .. AmountMax
           /\ fee_due(n, years) >= fee_due(n, 1)
<1> DEFINE p == price_for_label_length(LabelLength[n])
<1>1. p \in Nat
  BY RegistrarAssumption DEF price_for_label_length
<1>2. AmountMax \in Nat
  BY RegistrarAssumption
<1> HIDE DEF p
<1>3. p * years \in Nat /\ p * 1 \in Nat /\ p * years >= p * 1
  BY <1>1
<1> QED
  BY <1>2, <1>3, SaturateFacts DEF fee_due, p

\* The expiry computed from a time is a time, at least a year ahead or the last
\* time there is.
LEMMA ExpiryFacts ==
    ASSUME NEW base \in Times, NEW years \in 1 .. MaxYears
    PROVE  /\ expiry_from_now(base, years) \in Times
           /\ expiry_from_now(base, years) >= base
           /\ \/ expiry_from_now(base, years) = U64Max
              \/ expiry_from_now(base, years) >= base + YearSeconds
<1>1. YearSeconds \in Nat /\ years \in Nat /\ years >= 1 /\ base \in Nat /\ base <= U64Max
      /\ U64Max \in Nat
  BY RegistrarAssumption, BoundsAssumption DEF Times
<1>2. YearSeconds * years \in Nat /\ YearSeconds * years >= YearSeconds
  BY <1>1
<1> QED
  BY <1>1, <1>2 DEF expiry_from_now, saturate, Times

\* A grace period ends at a time no earlier than the expiry.
LEMMA GraceFacts ==
    ASSUME NEW expiry \in Times, grace_period_seconds \in MinGrace .. MaxGrace
    PROVE  /\ compute_grace_period_ends_at(expiry) \in Times
           /\ compute_grace_period_ends_at(expiry) >= expiry
           /\ compute_grace_period_ends_at(expiry) <= saturate(expiry + MaxGrace, U64Max)
BY RegistrarAssumption, BoundsAssumption DEF compute_grace_period_ends_at, saturate, Times

-----------------------------------------------------------------------------
(* The steps of the gated system: a call of a registrant, which passes through *)
(* to register or renew, a call of governance, which no other contract        *)
(* notices, or a step of the other contracts.                                 *)

\* A step that is none of the registrar's leaves a name its term or removes it.
LEMMA OthersKeepTerms ==
    ASSUME StoreTypeOK, OtherNext, NEW n \in Names, Registered(n)'
    PROVE  Registered(n) /\ SameTerm(n)
<1>a. entries \in [Names -> RegistryEntry \cup {NONE}]
  BY DEF StoreTypeOK
<1>b. ASSUME UNCHANGED entries
      PROVE  Registered(n) /\ SameTerm(n)
  BY <1>b DEF Registered, SameTerm
<1>c. ASSUME NEW k \in Names, Registered(k), NEW ent,
             entries' = [entries EXCEPT ![k] = ent],
             ent.registered_at = entries[k].registered_at,
             ent.expires_at = entries[k].expires_at,
             ent.grace_period_ends_at = entries[k].grace_period_ends_at
      PROVE  Registered(n) /\ SameTerm(n)
  BY <1>a, <1>c DEF Registered, SameTerm
<1>d. \A k \in Names : Registered(k) => entries[k] \in RegistryEntry
  BY <1>a DEF Registered
<1>1. CASE Tick \/ AdminNext \/ NftNext \/ ResolverNext
  <2>1. AdminNext => UNCHANGED entries
    BY DEF AdminNext, Initialize, SetDisputeAdmin, SetNftContract, UnlockName, LockName, storeVars
  <2> QED
    BY <1>1, <1>b, <2>1, NftKeepsRegistry, ResolverKeepsRegistry DEF Tick, storeVars
<1>2. ASSUME NEW k \in Names, NEW a \in Users, NEW now_unix \in CallerTimes, Burn(k, a, now_unix)
      PROVE  Registered(n) /\ SameTerm(n)
  BY <1>2, <1>a DEF Burn, Registered, SameTerm
<1>3. ASSUME NEW k \in Names, NEW a \in Users, NEW b \in Users, NEW now_unix,
             Transfer(k, a, b, now_unix) \/ UpdateOwner(k, nft_contract, b)
      PROVE  Registered(n) /\ SameTerm(n)
  <2> DEFINE count == saturating_inc(entries[k].transfer_count)
             ent == [entries[k] EXCEPT !.owner = b, !.transfer_count = count]
  <2>1. Registered(k) /\ entries' = [entries EXCEPT ![k] = ent]
    BY <1>3 DEF Transfer, UpdateOwner, ensure_owner, resolve_ok
  <2> HIDE DEF count
  <2>2. /\ ent.registered_at = entries[k].registered_at
        /\ ent.expires_at = entries[k].expires_at
        /\ ent.grace_period_ends_at = entries[k].grace_period_ends_at
    BY <1>d, <2>1 DEF RegistryEntry
  <2> HIDE DEF ent
  <2> QED
    BY <1>c, <2>1, <2>2
<1>4. ASSUME NEW k \in Names, NEW a \in Users, NEW now_unix, NEW r, SetResolver(k, a, r, now_unix)
      PROVE  Registered(n) /\ SameTerm(n)
  <2> DEFINE ent == [entries[k] EXCEPT !.resolver = r]
  <2>1. Registered(k) /\ entries' = [entries EXCEPT ![k] = ent]
    BY <1>4 DEF SetResolver, ensure_owner, resolve_ok
  <2>2. /\ ent.registered_at = entries[k].registered_at
        /\ ent.expires_at = entries[k].expires_at
        /\ ent.grace_period_ends_at = entries[k].grace_period_ends_at
    BY <1>d, <2>1 DEF RegistryEntry
  <2> HIDE DEF ent
  <2> QED
    BY <1>c, <2>1, <2>2
<1>5. ASSUME NEW k \in Names, NEW a \in Users, NEW now_unix, NEW b, SetTargetAddress(k, a, b, now_unix)
      PROVE  Registered(n) /\ SameTerm(n)
  <2> DEFINE ent == [entries[k] EXCEPT !.target_address = b]
  <2>1. Registered(k) /\ entries' = [entries EXCEPT ![k] = ent]
    BY <1>5 DEF SetTargetAddress, ensure_owner, resolve_ok
  <2>2. /\ ent.registered_at = entries[k].registered_at
        /\ ent.expires_at = entries[k].expires_at
        /\ ent.grace_period_ends_at = entries[k].grace_period_ends_at
    BY <1>d, <2>1 DEF RegistryEntry
  <2> HIDE DEF ent
  <2> QED
    BY <1>c, <2>1, <2>2
<1>6. ASSUME NEW k \in Names, NEW a \in Users, NEW now_unix, NEW m, SetMetadata(k, a, m, now_unix)
      PROVE  Registered(n) /\ SameTerm(n)
  <2> DEFINE ent == [entries[k] EXCEPT !.metadata_uri = m]
  <2>1. Registered(k) /\ entries' = [entries EXCEPT ![k] = ent]
    BY <1>6 DEF SetMetadata, ensure_owner, resolve_ok
  <2>2. /\ ent.registered_at = entries[k].registered_at
        /\ ent.expires_at = entries[k].expires_at
        /\ ent.grace_period_ends_at = entries[k].grace_period_ends_at
    BY <1>d, <2>1 DEF RegistryEntry
  <2> HIDE DEF ent
  <2> QED
    BY <1>c, <2>1, <2>2
<1>7. CASE OwnerNext
  <2>1. ASSUME NEW k \in Names, NEW c, NEW b \in Users, UpdateOwner(k, c, b)
        PROVE  Registered(n) /\ SameTerm(n)
    <3>1. c = nft_contract
      BY <2>1 DEF UpdateOwner
    <3> QED
      BY <2>1, <3>1, <1>3
  <2> QED
    BY <1>2, <1>3, <1>4, <1>5, <1>6, <1>7, <2>1 DEF OwnerNext
<1> QED
  BY <1>1, <1>7 DEF OtherNext

\* What renew and extend_during_grace have in common: an issued record, a paid
\* fee and an expiry that is a time.
LEMMA Extension ==
    ASSUME StoreTypeOK, RegistrarTypeOK, NEW n \in Labels, NEW a \in Users,
           NEW years \in 1 .. MaxYears, NEW now_unix \in CallerTimes, NEW payment \in Payments,
           \/ RegistrarRenew(n, a, years, payment, now_unix)
           \/ ExtendDuringGrace(n, a, years, payment, now_unix)
    PROVE  /\ Issued(n)
           /\ payment \in Nat
           /\ payment >= fee_due(n, 1)
           /\ \E expiry \in Times : extend_registration(n, a, expiry, payment, now_unix)
<1>1. Issued(n) /\ payment >= fee_due(n, years)
  BY DEF RegistrarRenew, ExtendDuringGrace
<1>2. payment \in Nat /\ years \in Nat /\ years >= 1
  BY RegistrarAssumption
<1>3. payment >= fee_due(n, 1)
  BY <1>1, <1>2, FeeFacts, RegistrarAssumption
<1>4. now_unix \in Times /\ renewal_base(n, now_unix) \in Times
  BY <1>1 DEF RegistrarTypeOK, Issued, RegistrationRecord, renewal_base, CallerTimes
<1> QED
  BY <1>1, <1>2, <1>3, <1>4, ExpiryFacts DEF RegistrarRenew, ExtendDuringGrace

-----------------------------------------------------------------------------
(* Type correctness. *)

\* A registration writes one record and passes through to the registry.
LEMMA RegisterStep ==
    ASSUME StoreTypeOK, RegistrarTypeOK, NEW n \in Labels, NEW a \in Users,
           NEW years \in 1 .. MaxYears, NEW now_unix \in CallerTimes, NEW payment \in Payments,
           RegistrarRegister(n, a, years, payment, now_unix)
    PROVE  Next /\ RegistrarTypeOK'
<1> DEFINE fee     == fee_due(n, years)
           expiry  == expiry_from_now(now_unix, years)
           ends_at == compute_grace_period_ends_at(expiry)
           rec     == [ owner |-> a, registered_at |-> now_unix, expires_at |-> expiry,
                        grace_period_ends_at |-> ends_at, fee_paid |-> fee,
                        renewed_at |-> now_unix ]
           key     == window_key(a, now_unix)
<1>1. /\ registrations' = [registrations EXCEPT ![n] = rec]
      /\ windows' = [windows EXCEPT ![key] = saturate(windows[key] + 1, AmountMax)]
      /\ treasury' = saturate(treasury + fee, AmountMax)
      /\ registration_count' = saturate(registration_count + 1, AmountMax)
      /\ Register(n, a, NONE, NONE, now_unix, expiry, ends_at)
      /\ UNCHANGED << renewal_count, policyVars, registrar_admin >>
  BY DEF RegistrarRegister
<1>2. /\ now_unix \in Times /\ years \in Nat /\ years >= 1 /\ AmountMax \in Nat
      /\ n \in Names /\ a \in Addresses
  BY RegistrarAssumption DEF CallerTimes, Addresses
<1>3. expiry \in Times /\ ends_at \in Times /\ fee \in 0 .. AmountMax
  BY <1>2, ExpiryFacts, GraceFacts, FeeFacts DEF RegistrarTypeOK
<1>4. key \in Addresses \X Times
  <2>1. rate_limit_config.window \in Nat
    BY DEF RegistrarTypeOK, RateLimitConfig
  <2> QED
    BY <1>2, <2>1, BoundsAssumption DEF window_key, Times
<1> HIDE DEF fee, expiry, ends_at, key
<1>5. rec \in RegistrationRecord
  BY <1>2, <1>3 DEF RegistrationRecord
<1> HIDE DEF rec
<1>6. Next
  BY <1>1, <1>2, <1>3 DEF Next, IssueNext
<1>7. saturate(treasury + fee, AmountMax) \in 0 .. AmountMax
  BY <1>2, <1>3, SaturateFacts DEF RegistrarTypeOK
<1>8. saturate(registration_count + 1, AmountMax) \in 0 .. AmountMax
  BY <1>2, SaturateFacts DEF RegistrarTypeOK
<1>9. saturate(windows[key] + 1, AmountMax) \in 0 .. AmountMax
  <2>1. windows[key] \in 0 .. AmountMax
    BY <1>4, Zenon DEF RegistrarTypeOK
  <2> QED
    BY <1>2, <2>1, SaturateFacts
<1>10. registrations' \in [Labels -> RegistrationRecord \cup {NONE}]
  BY <1>1, <1>5 DEF RegistrarTypeOK
<1>11. windows' \in [Addresses \X Times -> 0 .. AmountMax]
  BY <1>1, <1>4, <1>9 DEF RegistrarTypeOK
<1> QED
  BY <1>1, <1>6, <1>7, <1>8, <1>10, <1>11 DEF RegistrarTypeOK, policyVars

\* So does an extension.
LEMMA ExtendStep ==
    ASSUME StoreTypeOK, RegistrarTypeOK, NEW n \in Labels, Issued(n), NEW a \in Users,
           NEW now_unix \in CallerTimes, NEW payment \in Nat, NEW expiry \in Times,
           extend_registration(n, a, expiry, payment, now_unix)
    PROVE  Next /\ RegistrarTypeOK'
<1> DEFINE ends_at == compute_grace_period_ends_at(expiry)
           paid    == saturate(registrations[n].fee_paid + payment, AmountMax)
           rec     == [registrations[n] EXCEPT !.expires_at = expiry,
                                               !.grace_period_ends_at = ends_at,
                                               !.renewed_at = now_unix,
                                               !.fee_paid = paid]
<1>1. /\ registrations' = [registrations EXCEPT ![n] = rec]
      /\ treasury' = saturate(treasury + payment, AmountMax)
      /\ renewal_count' = saturate(renewal_count + 1, AmountMax)
      /\ Renew(n, a, expiry, ends_at, now_unix)
      /\ UNCHANGED << windows, registration_count, policyVars, registrar_admin >>
  BY DEF extend_registration
<1>2. now_unix \in Times /\ AmountMax \in Nat /\ n \in Names
  BY RegistrarAssumption DEF CallerTimes
<1>3. registrations[n] \in RegistrationRecord
  BY DEF RegistrarTypeOK, Issued
<1>4. ends_at \in Times
  BY GraceFacts DEF RegistrarTypeOK
<1>5. paid \in 0 .. AmountMax
  BY <1>2, <1>3, SaturateFacts DEF RegistrationRecord
<1> HIDE DEF ends_at, paid
<1>6. rec \in RegistrationRecord
  BY <1>2, <1>3, <1>4, <1>5 DEF RegistrationRecord
<1> HIDE DEF rec
<1>7. Next
  BY <1>1, <1>2, <1>4 DEF Next, IssueNext
<1>8. saturate(treasury + payment, AmountMax) \in 0 .. AmountMax
  BY <1>2, SaturateFacts DEF RegistrarTypeOK
<1>9. saturate(renewal_count + 1, AmountMax) \in 0 .. AmountMax
  BY <1>2, SaturateFacts DEF RegistrarTypeOK
<1> QED
  BY <1>1, <1>6, <1>7, <1>8, <1>9 DEF RegistrarTypeOK, policyVars

\* Governance keeps its policy within the declared bounds.
LEMMA GovernanceStep ==
    ASSUME RegistrarTypeOK, GovernanceNext
    PROVE  RegistrarTypeOK' /\ invoker' \in Addresses \cup {NONE} /\ UNCHANGED accountVars
<1> USE RegistrarAssumption
<1>1. ASSUME NEW a \in RegistrarAdmins, RegistrarInitialize(a)
      PROVE  RegistrarTypeOK' /\ invoker' = NONE /\ UNCHANGED accountVars
  BY <1>1 DEF RegistrarInitialize, RegistrarTypeOK, accountVars, policyVars
<1>2. ASSUME NEW labels \in SUBSET Labels, ReserveLabels(labels)
      PROVE  RegistrarTypeOK' /\ invoker' \in Addresses /\ UNCHANGED accountVars
  BY <1>2 DEF ReserveLabels, GovernanceCall, RegistrarTypeOK, accountVars
<1>3. ASSUME NEW w \in RateWindows, NEW m \in RateLimits, SetRateLimitConfig(w, m)
      PROVE  RegistrarTypeOK' /\ invoker' \in Addresses /\ UNCHANGED accountVars
  <2>1. [window |-> w, max |-> m] \in RateLimitConfig
    BY DEF RateLimitConfig
  <2> QED
    BY <1>3, <2>1 DEF SetRateLimitConfig, GovernanceCall, RegistrarTypeOK, accountVars
<1>4. ASSUME NEW seconds \in Times, SetGracePeriod(seconds)
      PROVE  RegistrarTypeOK' /\ invoker' \in Addresses /\ UNCHANGED accountVars
  BY <1>4 DEF SetGracePeriod, GovernanceCall, RegistrarTypeOK, accountVars
<1>5. ASSUME NEW a \in Whitelistable, WhitelistAddress(a) \/ RemoveWhitelistAddress(a)
      PROVE  RegistrarTypeOK' /\ invoker' \in Addresses /\ UNCHANGED accountVars
  BY <1>5 DEF WhitelistAddress, RemoveWhitelistAddress, GovernanceCall, RegistrarTypeOK, accountVars
<1> QED
  BY <1>1, <1>2, <1>3, <1>4, <1>5 DEF GovernanceNext

\* Both contracts keep their types through every call.
LEMMA GatedType ==
    ASSUME TypeOK, RegistrarTypeOK, GatedNext
    PROVE  TypeOK' /\ RegistrarTypeOK'
<1>1. CASE RegistrantNext
  <2>1. ASSUME NEW n \in Labels, NEW a \in Users, NEW years \in 1 .. MaxYears,
               NEW now_unix \in CallerTimes, NEW payment \in Payments,
               \/ RegistrarRegister(n, a, years, payment, now_unix)
               \/ RegistrarRenew(n, a, years, payment, now_unix)
               \/ ExtendDuringGrace(n, a, years, payment, now_unix)
        PROVE  Next /\ RegistrarTypeOK'
    BY <2>1, RegisterStep, Extension, ExtendStep DEF TypeOK
  <2> QED
    BY <1>1, <2>1, NextType DEF RegistrantNext
<1>2. CASE GovernanceNext /\ UNCHANGED << clock, storeVars, configVars, nftVars, resolverVars >>
  <2>1. RegistrarTypeOK' /\ invoker' \in Addresses \cup {NONE}
    BY <1>2, GovernanceStep
  <2>2. StoreTypeOK'
    BY <1>2, <2>1 DEF TypeOK, StoreTypeOK, storeVars, configVars
  <2>3. NftTypeOK'
    BY <1>2 DEF TypeOK, NftTypeOK, nftVars, tokenVars
  <2>4. ResolverTypeOK'
    BY <1>2 DEF TypeOK, ResolverTypeOK, resolverVars
  <2> QED
    BY <2>1, <2>2, <2>3, <2>4 DEF TypeOK
<1>3. CASE OtherNext /\ UNCHANGED registrarVars
  <2>1. TypeOK'
    BY <1>3, NextType DEF Next
  <2> QED
    BY <1>3, <2>1 DEF RegistrarTypeOK, registrarVars, accountVars, policyVars
<1> QED
  BY <1>1, <1>2, <1>3 DEF GatedNext

\* The registrar's storage keeps its type: no fee, counter, window, expiry or
\* grace period leaves its range, whatever governance and registrants do.
THEOREM RegistrarTypeCorrect == GatedSpec => [](TypeOK /\ RegistrarTypeOK)
<1>1. RegistrarInit => TypeOK /\ RegistrarTypeOK
  <2> SUFFICES ASSUME RegistrarInit
               PROVE  TypeOK /\ RegistrarTypeOK
    OBVIOUS
  <2>1. TypeOK
    BY InitType DEF RegistrarInit
  <2>2. RegistrarTypeOK
    BY RegistrarAssumption DEF RegistrarInit, RegistrarTypeOK
  <2> QED
    BY <2>1, <2>2
<1>2. TypeOK /\ RegistrarTypeOK /\ [GatedNext]_allVars => (TypeOK /\ RegistrarTypeOK)'
  <2> SUFFICES ASSUME TypeOK, RegistrarTypeOK, UNCHANGED allVars
               PROVE  (TypeOK /\ RegistrarTypeOK)'
    BY GatedType
  <2>1. TypeOK'
    BY StutterType DEF allVars
  <2>2. RegistrarTypeOK'
    BY DEF allVars, registrarVars, accountVars, policyVars, RegistrarTypeOK
  <2> QED
    BY <2>1, <2>2
<1> QED
  BY <1>1, <1>2, PTL DEF GatedSpec

-----------------------------------------------------------------------------
(* One term in two contracts. *)

(***************************************************************************)
(* What an accepted call of a registrant does to the name it is about: the *)
(* record and the entry receive one term, and the term is paid for.        *)
(***************************************************************************)
Paid(n) == treasury' >= saturate(treasury + fee_due(n, 1), AmountMax)

\* The fee on record grows by no more than the treasury takes in, and a record
\* that starts anew is counted.
Banked(n) ==
    /\ registrations'[n] \in RegistrationRecord
    /\ \E paid \in Nat :
          /\ treasury' = saturate(treasury + paid, AmountMax)
          /\ \/ /\ registrations'[n].fee_paid <= paid
                /\ registration_count' = saturate(registration_count + 1, AmountMax)
             \/ /\ Issued(n)
                /\ registrations'[n].fee_paid <= registrations[n].fee_paid + paid
                /\ UNCHANGED registration_count

TermWritten(n, registered_at, expiry, ends_at) ==
    /\ registrations'[n] # NONE
    /\ registrations'[n].registered_at = registered_at
    /\ registrations'[n].expires_at = expiry
    /\ registrations'[n].grace_period_ends_at = ends_at
    /\ Registered(n)'
    /\ entries'[n].expires_at = expiry
    /\ entries'[n].grace_period_ends_at = ends_at
    /\ \A m \in Labels \ {n} : registrations'[m] = registrations[m] /\ entries'[m] = entries[m]

\* A call of a registrant is paid for and booked, writes one term to the record and to the
\* entry of one name, and leaves the other names alone.
LEMMA RegistrantEffect ==
    ASSUME TypeOK, RegistrarTypeOK, RegistrantNext
    PROVE  \E n \in Labels, expiry \in Times, ends_at \in Times, r \in Times :
              /\ Paid(n) /\ Banked(n)
              /\ TermWritten(n, r, expiry, ends_at)
              /\ ends_at <= saturate(expiry + MaxGrace, U64Max)
              /\ \/ entries'[n].registered_at = r
                 \/ /\ Registered(n) /\ Issued(n)
                    /\ entries'[n].registered_at = entries[n].registered_at
                    /\ r = registrations[n].registered_at
<1> USE AddressAssumption, RegistrationNoneAssumption
<1> DEFINE Effect(n, r, expiry, ends_at) ==
              /\ Paid(n) /\ Banked(n)
              /\ TermWritten(n, r, expiry, ends_at)
              /\ ends_at <= saturate(expiry + MaxGrace, U64Max)
              /\ \/ entries'[n].registered_at = r
                 \/ /\ Registered(n) /\ Issued(n)
                    /\ entries'[n].registered_at = entries[n].registered_at
                    /\ r = registrations[n].registered_at
<1>a. /\ registrations \in [Labels -> RegistrationRecord \cup {NONE}]
      /\ entries \in [Names -> RegistryEntry \cup {NONE}]
      /\ treasury \in Nat /\ AmountMax \in Nat /\ Labels \subseteq Names
      /\ grace_period_seconds \in MinGrace .. MaxGrace
  BY RegistrarAssumption DEF TypeOK, StoreTypeOK, RegistrarTypeOK
<1>b. ASSUME NEW n \in Labels, NEW rec \in RegistrationRecord, NEW ent \in RegistryEntry,
             registrations' = [registrations EXCEPT ![n] = rec],
             entries' = [entries EXCEPT ![n] = ent],
             rec.expires_at = ent.expires_at,
             rec.grace_period_ends_at = ent.grace_period_ends_at
      PROVE  /\ TermWritten(n, rec.registered_at, rec.expires_at, rec.grace_period_ends_at)
             /\ entries'[n] = ent
  BY <1>a, <1>b DEF TermWritten, Registered
<1>1. ASSUME NEW n \in Labels, NEW a \in Users, NEW years \in 1 .. MaxYears,
             NEW now_unix \in CallerTimes, NEW payment \in Payments,
             RegistrarRegister(n, a, years, payment, now_unix)
      PROVE  \E r, expiry, ends_at \in Times : Effect(n, r, expiry, ends_at)
  <2> DEFINE fee     == fee_due(n, years)
             expiry  == expiry_from_now(now_unix, years)
             ends_at == compute_grace_period_ends_at(expiry)
             rec     == [ owner |-> a, registered_at |-> now_unix, expires_at |-> expiry,
                          grace_period_ends_at |-> ends_at, fee_paid |-> fee,
                          renewed_at |-> now_unix ]
             ent     == [ owner |-> a, resolver |-> NONE, target_address |-> NONE,
                          metadata_uri |-> NONE, registered_at |-> now_unix,
                          expires_at |-> expiry, grace_period_ends_at |-> ends_at,
                          transfer_count |-> 0 ]
  <2>1. /\ registrations' = [registrations EXCEPT ![n] = rec]
        /\ treasury' = saturate(treasury + fee, AmountMax)
        /\ entries' = [entries EXCEPT ![n] = ent]
    BY <1>1 DEF RegistrarRegister, Register
  <2>2. now_unix \in Times /\ years \in Nat /\ years >= 1 /\ a \in Addresses
    BY RegistrarAssumption DEF CallerTimes, Addresses
  <2>3. expiry \in Times /\ ends_at \in Times /\ ends_at <= saturate(expiry + MaxGrace, U64Max)
    BY <1>a, <2>2, ExpiryFacts, GraceFacts
  <2>4. fee \in 0 .. AmountMax /\ fee_due(n, 1) \in 0 .. AmountMax /\ fee >= fee_due(n, 1)
    BY <2>2, FeeFacts
  <2> HIDE DEF fee, expiry, ends_at
  <2>5. rec \in RegistrationRecord
    BY <2>2, <2>3, <2>4 DEF RegistrationRecord
  <2>6. ent \in RegistryEntry
    BY <2>2, <2>3, BoundsAssumption DEF RegistryEntry
  <2>7. /\ rec.registered_at = now_unix /\ ent.registered_at = now_unix
        /\ rec.expires_at = expiry /\ ent.expires_at = expiry
        /\ rec.grace_period_ends_at = ends_at /\ ent.grace_period_ends_at = ends_at
    OBVIOUS
  <2>8. Paid(n)
    BY <1>a, <2>1, <2>4, SaturateFacts DEF Paid
  <2>10. rec.fee_paid = fee /\ fee \in Nat /\ registration_count' = saturate(registration_count + 1, AmountMax)
    BY <1>1, <2>4 DEF RegistrarRegister
  <2> HIDE DEF rec, ent
  <2>11. Banked(n)
    <3>1. registrations'[n] = rec
      BY <1>a, <2>1
    <3>2. rec.fee_paid <= fee
      BY <2>10
    <3> QED
      BY <2>1, <2>5, <2>10, <3>1, <3>2 DEF Banked
  <2>9. TermWritten(n, now_unix, expiry, ends_at) /\ entries'[n] = ent
    BY <1>b, <2>1, <2>5, <2>6, <2>7
  <2> QED
    BY <2>2, <2>3, <2>7, <2>8, <2>9, <2>11
<1>2. ASSUME NEW n \in Labels, NEW a \in Users, NEW years \in 1 .. MaxYears,
             NEW now_unix \in CallerTimes, NEW payment \in Payments,
             \/ RegistrarRenew(n, a, years, payment, now_unix)
             \/ ExtendDuringGrace(n, a, years, payment, now_unix)
      PROVE  \E r, expiry, ends_at \in Times : Effect(n, r, expiry, ends_at)
  <2>1. PICK expiry \in Times : extend_registration(n, a, expiry, payment, now_unix)
    BY <1>2, Extension DEF TypeOK
  <2>2. Issued(n) /\ payment \in Nat /\ payment >= fee_due(n, 1) /\ fee_due(n, 1) \in 0 .. AmountMax
    BY <1>2, Extension, FeeFacts DEF TypeOK
  <2> DEFINE ends_at == compute_grace_period_ends_at(expiry)
             paid    == saturate(registrations[n].fee_paid + payment, AmountMax)
             rec     == [registrations[n] EXCEPT !.expires_at = expiry,
                                                 !.grace_period_ends_at = ends_at,
                                                 !.renewed_at = now_unix,
                                                 !.fee_paid = paid]
             ent     == [entries[n] EXCEPT !.expires_at = expiry, !.grace_period_ends_at = ends_at]
  <2>3. /\ registrations' = [registrations EXCEPT ![n] = rec]
        /\ treasury' = saturate(treasury + payment, AmountMax)
        /\ entries' = [entries EXCEPT ![n] = ent]
        /\ Registered(n)
    BY <2>1 DEF extend_registration, Renew
  <2>4. /\ registrations[n] \in RegistrationRecord
        /\ entries[n] \in RegistryEntry
        /\ now_unix \in Times
    BY <1>a, <2>2, <2>3 DEF Issued, Registered, CallerTimes
  <2>5. ends_at \in Times /\ ends_at <= saturate(expiry + MaxGrace, U64Max)
    BY <1>a, GraceFacts
  <2>6. paid \in 0 .. AmountMax
    BY <1>a, <2>2, <2>4, SaturateFacts DEF RegistrationRecord
  <2> HIDE DEF ends_at, paid
  <2>7. /\ rec \in RegistrationRecord
        /\ rec.registered_at = registrations[n].registered_at
        /\ rec.expires_at = expiry /\ rec.grace_period_ends_at = ends_at
    BY <2>4, <2>5, <2>6 DEF RegistrationRecord
  <2>8. /\ ent \in RegistryEntry
        /\ ent.registered_at = entries[n].registered_at
        /\ ent.expires_at = expiry /\ ent.grace_period_ends_at = ends_at
    BY <2>4, <2>5 DEF RegistryEntry
  <2>9. Paid(n)
    BY <1>a, <2>2, <2>3, SaturateFacts DEF Paid
  <2>12. /\ rec.fee_paid <= registrations[n].fee_paid + payment
         /\ UNCHANGED registration_count
    <3>1. registrations[n].fee_paid \in Nat /\ rec.fee_paid = paid
      BY <1>a, <2>4 DEF RegistrationRecord
    <3> QED
      BY <1>a, <2>1, <2>2, <3>1, SaturateFacts DEF extend_registration, paid
  <2> HIDE DEF rec, ent
  <2>13. Banked(n)
    <3>1. registrations'[n] = rec
      BY <1>a, <2>3
    <3> QED
      BY <2>2, <2>3, <2>7, <2>12, <3>1 DEF Banked
  <2>10. /\ TermWritten(n, registrations[n].registered_at, expiry, ends_at)
         /\ entries'[n] = ent
    BY <1>b, <2>3, <2>7, <2>8
  <2>11. registrations[n].registered_at \in Times
    BY <2>4 DEF RegistrationRecord
  <2> QED
    BY <2>2, <2>3, <2>5, <2>8, <2>9, <2>10, <2>11, <2>13
<1>3. \E n \in Labels : \E r, expiry, ends_at \in Times : Effect(n, r, expiry, ends_at)
  BY <1>1, <1>2, Zenon DEF RegistrantNext
<1> QED
  BY <1>3

\* A step that is not a registrant's adds no term to a name and touches no
\* record and no payment.
LEMMA OtherStepEffect ==
    ASSUME TypeOK, RegistrarTypeOK, [GatedNext]_allVars, ~RegistrantNext
    PROVE  /\ UNCHANGED << registrations, treasury, registration_count >>
           /\ \A n \in Names : Registered(n)' => Registered(n) /\ SameTerm(n)
<1>1. CASE UNCHANGED allVars
  BY <1>1 DEF allVars, vars, registryVars, storeVars, registrarVars, accountVars, Registered, SameTerm
<1>2. CASE GovernanceNext /\ UNCHANGED << clock, storeVars, configVars, nftVars, resolverVars >>
  BY <1>2, GovernanceStep DEF storeVars, accountVars, Registered, SameTerm
<1>3. CASE OtherNext /\ UNCHANGED registrarVars
  BY <1>3, OthersKeepTerms DEF TypeOK, registrarVars, accountVars
<1> QED
  BY <1>1, <1>2, <1>3 DEF GatedNext

\* The two contracts keep one term for a name: an entry of the registry has a
\* registration record with the same registration date, expiry and end of
\* grace, through transfers, burns, reclaims, locks and grace-period changes.
THEOREM RecordsMirrorEntries == GatedSpec => []RecordMirrorsEntry
<1>1. RegistrarInit => RecordMirrorsEntry
  BY RegistrarAssumption DEF RegistrarInit, Init, StoreInit, RecordMirrorsEntry, Registered
<1>2. TypeOK /\ RegistrarTypeOK /\ RecordMirrorsEntry /\ [GatedNext]_allVars => RecordMirrorsEntry'
  <2> SUFFICES ASSUME TypeOK, RegistrarTypeOK, RecordMirrorsEntry, [GatedNext]_allVars,
                      NEW m \in Labels, Registered(m)'
               PROVE  /\ registrations'[m] # NONE
                      /\ registrations'[m].registered_at = entries'[m].registered_at
                      /\ registrations'[m].expires_at = entries'[m].expires_at
                      /\ registrations'[m].grace_period_ends_at = entries'[m].grace_period_ends_at
    BY DEF RecordMirrorsEntry, Issued
  <2>1. Registered(m) =>
          /\ registrations[m] # NONE
          /\ registrations[m].registered_at = entries[m].registered_at
          /\ registrations[m].expires_at = entries[m].expires_at
          /\ registrations[m].grace_period_ends_at = entries[m].grace_period_ends_at
    BY DEF RecordMirrorsEntry, Issued
  <2>2. CASE RegistrantNext
    BY <2>1, <2>2, RegistrantEffect DEF TermWritten, Registered
  <2>3. CASE ~RegistrantNext
    BY <2>1, <2>3, OtherStepEffect, RegistrarAssumption DEF SameTerm
  <2> QED
    BY <2>2, <2>3
<1> QED
  BY <1>1, <1>2, RegistrarTypeCorrect, PTL DEF GatedSpec

\* No record was given a longer grace period than governance may ever set.
GraceBounded ==
    \A n \in Labels : Issued(n) =>
        registrations[n].grace_period_ends_at <=
            saturate(registrations[n].expires_at + MaxGrace, U64Max)

\* It holds although governance changes the period between registrations.
LEMMA GraceIsBounded == GatedSpec => []GraceBounded
<1>1. RegistrarInit => GraceBounded
  BY DEF RegistrarInit, GraceBounded, Issued
<1>2. TypeOK /\ RegistrarTypeOK /\ GraceBounded /\ [GatedNext]_allVars => GraceBounded'
  <2> SUFFICES ASSUME TypeOK, RegistrarTypeOK, GraceBounded, [GatedNext]_allVars,
                      NEW m \in Labels, registrations'[m] # NONE
               PROVE  registrations'[m].grace_period_ends_at <=
                          saturate(registrations'[m].expires_at + MaxGrace, U64Max)
    BY DEF GraceBounded, Issued, saturate
  <2>1. registrations[m] # NONE =>
          registrations[m].grace_period_ends_at <= saturate(registrations[m].expires_at + MaxGrace, U64Max)
    BY DEF GraceBounded, Issued
  <2>2. CASE RegistrantNext
    BY <2>1, <2>2, RegistrantEffect DEF TermWritten
  <2>3. CASE ~RegistrantNext
    BY <2>1, <2>3, OtherStepEffect
  <2> QED
    BY <2>2, <2>3
<1> QED
  BY <1>1, <1>2, RegistrarTypeCorrect, PTL DEF GatedSpec

\* A renewal the registrar accepts is never refused by the registry for its
\* timestamps: a year outlasts the longest grace period, so the new term covers
\* the old grace period even if governance has shortened it since.
THEOREM RenewalsFit == GatedSpec => []RenewalFits
<1>1. TypeOK /\ RegistrarTypeOK /\ RecordMirrorsEntry /\ GraceBounded => RenewalFits
  <2> SUFFICES ASSUME TypeOK, RegistrarTypeOK, RecordMirrorsEntry, GraceBounded,
                      NEW n \in Labels, NEW years \in 1 .. MaxYears, NEW now_unix \in CallerTimes,
                      Registered(n)
               PROVE  LET expiry == expiry_from_now(renewal_base(n, now_unix), years)
                          ends_at == compute_grace_period_ends_at(expiry)
                      IN  /\ expiry >= entries[n].expires_at
                          /\ ends_at >= entries[n].grace_period_ends_at
                          /\ validate_lifecycle_timestamps(now_unix, expiry, ends_at)
    BY DEF RenewalFits
  <2> DEFINE base == renewal_base(n, now_unix)
             expiry == expiry_from_now(base, years)
             ends_at == compute_grace_period_ends_at(expiry)
             e == entries[n].expires_at
             g == entries[n].grace_period_ends_at
  <2>1. /\ registrations[n].expires_at = e
        /\ g <= saturate(e + MaxGrace, U64Max)
    BY DEF RecordMirrorsEntry, GraceBounded
  <2>2. e \in Times /\ g \in Times /\ now_unix \in Times
    BY RegistrarAssumption DEF TypeOK, StoreTypeOK, Registered, RegistryEntry, CallerTimes
  <2>3. base \in Times /\ base >= e /\ base >= now_unix
    BY <2>1, <2>2, BoundsAssumption DEF renewal_base, Times
  <2> HIDE DEF base, e, g
  <2>4. /\ expiry \in Times /\ expiry >= base
        /\ expiry = U64Max \/ expiry >= base + YearSeconds
    BY <2>3, ExpiryFacts
  <2> HIDE DEF expiry
  <2>5. ends_at \in Times /\ ends_at >= expiry
    BY <2>4, GraceFacts DEF RegistrarTypeOK
  <2> HIDE DEF ends_at
  <2>6. YearSeconds \in Nat /\ MaxGrace \in Nat /\ MaxGrace <= YearSeconds /\ U64Max \in Nat
    BY RegistrarAssumption, GraceAssumption, BoundsAssumption
  <2>7. expiry >= e
    BY <2>2, <2>3, <2>4, <2>6 DEF Times
  <2>8. ends_at >= g
    BY <2>1, <2>2, <2>3, <2>4, <2>5, <2>6 DEF Times, saturate
  <2>9. now_unix <= expiry
    BY <2>2, <2>3, <2>4, <2>6 DEF Times
  <2> QED
    BY <2>5, <2>7, <2>8, <2>9
       DEF validate_lifecycle_timestamps, is_active_at, expiry, ends_at, base, e, g
<1> QED
  BY <1>1, RegistrarTypeCorrect, RecordsMirrorEntries, GraceIsBounded, PTL

\* Nobody gets term for free: when a name is issued or its expiry moves forward,
\* the treasury has taken in at least one year's fee for it.
THEOREM TermsArePaid == GatedSpec => TermIsPaid
<1> DEFINE Charged == \A n \in Labels :
                        /\ Registered(n)'
                        /\ Registered(n) => entries'[n].expires_at > entries[n].expires_at
                        => treasury' >= saturate(treasury + fee_due(n, 1), AmountMax)
<1>1. TypeOK /\ RegistrarTypeOK /\ [GatedNext]_allVars => [Charged]_allVars
  <2> SUFFICES ASSUME TypeOK, RegistrarTypeOK, [GatedNext]_allVars, NEW n \in Labels,
                      Registered(n)',
                      Registered(n) => entries'[n].expires_at > entries[n].expires_at
               PROVE  Paid(n)
    BY DEF Paid
  <2>1. Registered(n) => entries[n].expires_at \in Nat
    BY RegistrarAssumption DEF TypeOK, StoreTypeOK, Registered, RegistryEntry, Times
  <2>2. CASE RegistrantNext
    <3>1. PICK m \in Labels, expiry \in Times, ends_at \in Times, r \in Times :
              Paid(m) /\ TermWritten(m, r, expiry, ends_at)
      BY <2>2, RegistrantEffect
    <3>2. n = m
      BY <2>1, <3>1 DEF TermWritten, Registered
    <3> QED
      BY <3>1, <3>2
  <2>3. CASE ~RegistrantNext
    <3>1. Registered(n) /\ SameTerm(n)
      BY <2>3, OtherStepEffect, RegistrarAssumption
    <3> QED
      BY <2>1, <3>1 DEF SameTerm
  <2> QED
    BY <2>2, <2>3
<1> QED
  BY <1>1, RegistrarTypeCorrect, PTL DEF GatedSpec, TermIsPaid

-----------------------------------------------------------------------------
(* The treasury and the records. *)

Live == {n \in Labels : Issued(n)}

\* Only finitely many names can have been issued, so that there is a sum.
AccountInv == IsFiniteSet(Live) /\ AccountingCovers

\* Such a call keeps what the treasury covers.
LEMMA BankedStep ==
    ASSUME RegistrarTypeOK, AccountInv, NEW n \in Labels, Banked(n),
           \A m \in Labels \ {n} : registrations'[m] = registrations[m]
    PROVE  AccountInv'
<1> USE RegistrationNoneAssumption
<1>1. PICK paid \in Nat :
          /\ treasury' = saturate(treasury + paid, AmountMax)
          /\ \/ /\ registrations'[n].fee_paid <= paid
                /\ registration_count' = saturate(registration_count + 1, AmountMax)
             \/ /\ Issued(n)
                /\ registrations'[n].fee_paid <= registrations[n].fee_paid + paid
                /\ UNCHANGED registration_count
  BY DEF Banked
<1> DEFINE f == [m \in Live |-> registrations[m].fee_paid]
           g == [m \in Live' |-> registrations'[m].fee_paid]
           sum == SumFunctionOnSet(f, Live)
           sum1 == SumFunctionOnSet(g, Live')
<1>2. Live' = Live \cup {n} /\ IsFiniteSet(Live)
  BY DEF Live, Issued, Banked, AccountInv
<1>3. /\ IsFiniteSet(Live') /\ Cardinality(Live) \in Nat /\ Cardinality(Live') \in Nat
      /\ Cardinality(Live') <= Cardinality(Live) + 1
      /\ n \in Live => Live' = Live
  <2> DEFINE S == Live
             T == S \cup {n}
  <2>1. IsFiniteSet(S) /\ Live' = T
    BY <1>2
  <2> HIDE DEF S
  <2>2. IsFiniteSet(T) /\ Cardinality(T) = (IF n \in S THEN Cardinality(S) ELSE Cardinality(S) + 1)
    BY <2>1, FS_AddElement
  <2>3. Cardinality(S) \in Nat /\ Cardinality(T) \in Nat
    BY <2>1, <2>2, FS_CardinalityType
  <2>4. Cardinality(T) <= Cardinality(S) + 1 /\ (n \in S => T = S)
    BY <2>2, <2>3
  <2> HIDE DEF T
  <2>5. /\ IsFiniteSet(T) /\ Cardinality(S) \in Nat /\ Cardinality(T) \in Nat
        /\ Cardinality(T) <= Cardinality(S) + 1
        /\ n \in S => T = S
    BY <2>2, <2>3, <2>4
  <2> QED
    BY <2>1, <2>5 DEF S
<1>4. /\ \A m \in Live : f[m] \in Nat
      /\ \A m \in Live' : g[m] \in Nat
      /\ \A m \in Live \ {n} : g[m] = f[m]
      /\ g[n] = registrations'[n].fee_paid
      /\ n \in Live => f[n] = registrations[n].fee_paid
  <2>1. AmountMax \in Nat
    BY RegistrarAssumption
  <2>2. \A m \in Live : f[m] = registrations[m].fee_paid /\ f[m] \in Nat
    BY <2>1 DEF Live, Issued, RegistrarTypeOK, RegistrationRecord
  <2>3. g[n] = registrations'[n].fee_paid /\ g[n] \in Nat
    BY <1>2, <2>1 DEF Banked, RegistrationRecord
  <2>4. \A m \in Live \ {n} : g[m] = f[m]
    BY <1>2 DEF Live
  <2> QED
    BY <1>2, <2>2, <2>3, <2>4
<1> HIDE DEF f, g
<1>5. sum \in Nat /\ sum1 \in Nat
  BY <1>2, <1>3, <1>4, SumNat
<1>6. sum1 <= sum + paid
  <2>1. CASE n \in Live
    <3>1. Live' = Live
      BY <1>3, <2>1
    <3>2. sum1 + f[n] = sum + g[n]
      <4>1. SumFunctionOnSet(g, Live) + f[n] = SumFunctionOnSet(f, Live) + g[n]
        BY <1>2, <1>4, <2>1, <3>1, SumUpdate
      <4> QED
        BY <3>1, <4>1
    <3>3. g[n] <= f[n] + paid /\ f[n] \in Nat /\ g[n] \in Nat
      BY <1>1, <1>2, <1>4, <2>1
    <3> HIDE DEF sum, sum1
    <3> QED
      BY <1>5, <3>2, <3>3
  <2>2. CASE n \notin Live
    <3>1. SumFunctionOnSet(g, Live \cup {n}) = SumFunctionOnSet(f, Live) + g[n]
      <4>1. g[n] \in Nat /\ \A m \in Live : f[m] \in Nat /\ g[m] = f[m]
        BY <1>2, <1>4, <2>2
      <4> QED
        BY <1>2, <2>2, <4>1, SumAdd
    <3>2. sum1 = sum + g[n]
      BY <1>2, <3>1
    <3>3. g[n] <= paid /\ g[n] \in Nat
      BY <1>1, <1>2, <1>4, <2>2 DEF Live
    <3> HIDE DEF sum, sum1
    <3> QED
      BY <1>5, <3>2, <3>3
  <2> QED
    BY <2>1, <2>2
<1>7. treasury \in Nat /\ registration_count \in Nat /\ AmountMax \in Nat
  BY RegistrarAssumption DEF RegistrarTypeOK
<1>8. treasury >= saturate(sum, AmountMax) /\ registration_count >= saturate(Cardinality(Live), AmountMax)
  BY DEF AccountInv, AccountingCovers, Live, f
<1> HIDE DEF sum, sum1
<1>9. treasury' >= saturate(sum1, AmountMax)
  BY <1>1, <1>5, <1>6, <1>7, <1>8 DEF saturate
<1>10. registration_count' >= saturate(Cardinality(Live'), AmountMax)
  <2>1. CASE registration_count' = saturate(registration_count + 1, AmountMax)
    BY <1>3, <1>7, <1>8, <2>1 DEF saturate
  <2>2. CASE Issued(n) /\ UNCHANGED registration_count
    BY <1>3, <1>8, <2>2 DEF Live
  <2> QED
    BY <1>1, <2>1, <2>2
<1>11. AccountingCovers'
  BY <1>9, <1>10 DEF AccountingCovers, Live, Issued, saturate, sum1, g
<1> QED
  BY <1>3, <1>11 DEF AccountInv

\* The treasury has taken in what the live registration records say was paid,
\* and as many registrations were counted as there are records, unless the
\* counters have reached their limit.
THEOREM TreasuryCoversRecords == GatedSpec => []AccountingCovers
<1>1. RegistrarInit => AccountInv
  <2> SUFFICES ASSUME RegistrarInit PROVE AccountInv
    OBVIOUS
  <2>1. Live = {}
    BY DEF RegistrarInit, Live, Issued
  <2>2. IsFiniteSet(Live) /\ Cardinality(Live) = 0
    BY <2>1, FS_EmptySet
  <2>3. SumFunctionOnSet([n \in Live |-> registrations[n].fee_paid], Live) = 0
    BY <2>1, SumEmpty
  <2> QED
    BY <2>2, <2>3, RegistrarAssumption DEF RegistrarInit, AccountInv, AccountingCovers, Live, saturate
<1>2. TypeOK /\ RegistrarTypeOK /\ AccountInv /\ [GatedNext]_allVars => AccountInv'
  <2> SUFFICES ASSUME TypeOK, RegistrarTypeOK, AccountInv, [GatedNext]_allVars PROVE AccountInv'
    OBVIOUS
  <2>1. CASE RegistrantNext
    BY <2>1, RegistrantEffect, BankedStep DEF TermWritten
  <2>2. CASE ~RegistrantNext
    <3>1. UNCHANGED << registrations, treasury, registration_count >>
      BY <2>2, OtherStepEffect
    <3> QED
      BY <3>1 DEF AccountInv, AccountingCovers, Live, Issued, saturate
  <2> QED
    BY <2>1, <2>2
<1>3. AccountInv => AccountingCovers
  BY DEF AccountInv
<1> QED
  BY <1>1, <1>2, <1>3, RegistrarTypeCorrect, PTL DEF GatedSpec

=============================================================================
