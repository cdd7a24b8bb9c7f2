------------------------------ MODULE Registrar ------------------------------
(***************************************************************************)
(* The registrar contract (contracts/registrar/src/lib.rs): prices, rate   *)
(* limit, reservations and fee accounting in front of the registry's       *)
(* register and renew.  A label is identified with the name                *)
(* build_xlm_name makes of it.                                             *)
(***************************************************************************)
EXTENDS Registry, Functions

CONSTANTS
    RegistrarAdmins,    \* accounts that may administer the registrar
    Labels,             \* names that are a valid label followed by .xlm
    LabelLength,        \* their length
    TierPrice,          \* annual fee of the tiers "short", "middle", "long"
    MaxYears,           \* MAX_REGISTRATION_YEARS
    YearSeconds,        \* YEAR_SECONDS
    MinGrace,           \* MIN_GRACE_PERIOD_SECONDS
    MaxGrace,           \* MAX_GRACE_PERIOD_SECONDS
    DefaultGrace,       \* DEFAULT_GRACE_PERIOD_SECONDS
    RateWindows,        \* window sizes governance may choose
    RateLimits,         \* limits governance may choose
    DefaultRate,        \* [window, max]: DEFAULT_RATE_LIMIT_*
    Payments,           \* prices a registrant may offer
    Whitelistable,      \* addresses governance may whitelist
    AmountMax           \* largest amount or counter

RateLimitConfig == [window : Nat, max : Nat]

ASSUME RegistrarAssumption ==
    /\ RegistrarAdmins \subseteq Addresses
    /\ Labels \subseteq Names
    /\ Whitelistable \subseteq Addresses
    /\ LabelLength \in [Labels -> Nat]
    /\ TierPrice \in [{"short", "middle", "long"} -> Nat]
    /\ {MaxYears, YearSeconds, MinGrace, MaxGrace, AmountMax} \subseteq Nat
    /\ RateWindows \cup RateLimits \cup Payments \subseteq Nat
    /\ DefaultGrace \in MinGrace .. MaxGrace
    /\ DefaultRate \in RateLimitConfig

\* The longest grace period governance may set is at most a year.
ASSUME GraceAssumption == MaxGrace <= YearSeconds

VARIABLES
    registrations,      \* DataKey::Registration
    reserved,           \* DataKey::Reserved
    treasury,           \* DataKey::Treasury
    registration_count, \* DataKey::RegistrationCount
    renewal_count,      \* DataKey::RenewalCount
    rate_limit_config,  \* DataKey::RateLimitConfig
    grace_period_seconds, \* DataKey::GracePeriodSeconds
    whitelisted,        \* DataKey::WhitelistedAddress
    windows,            \* DataKey::RegistrationWindow
    registrar_admin     \* DataKey::Admin, set together with DataKey::Registry

accountVars == << registrations, treasury, registration_count, renewal_count, windows >>
policyVars == << reserved, rate_limit_config, grace_period_seconds, whitelisted >>
registrarVars == << accountVars, policyVars, registrar_admin >>
allVars == << vars, registrarVars >>

RegistrationRecord ==
    [ owner                : Addresses,
      registered_at        : Times,
      expires_at           : Times,
      grace_period_ends_at : Times,
      fee_paid             : 0 .. AmountMax,
      renewed_at           : Times ]

ASSUME RegistrationNoneAssumption == NONE \notin RegistrationRecord

RegistrarTypeOK ==
    /\ registrations \in [Labels -> RegistrationRecord \cup {NONE}]
    /\ reserved \subseteq Labels
    /\ treasury \in 0 .. AmountMax
    /\ registration_count \in 0 .. AmountMax
    /\ renewal_count \in 0 .. AmountMax
    /\ rate_limit_config \in RateLimitConfig
    /\ grace_period_seconds \in MinGrace .. MaxGrace
    /\ whitelisted \subseteq Addresses
    /\ windows \in [Addresses \X Times -> 0 .. AmountMax]
    /\ registrar_admin \in RegistrarAdmins \cup {NONE}

RegistrarInit ==
    /\ Init
    /\ registrations = [n \in Labels |-> NONE]
    /\ reserved = {}
    /\ treasury = 0
    /\ registration_count = 0
    /\ renewal_count = 0
    /\ rate_limit_config = DefaultRate
    /\ grace_period_seconds = DefaultGrace
    /\ whitelisted = {}
    /\ windows = [k \in Addresses \X Times |-> 0]
    /\ registrar_admin = NONE

-----------------------------------------------------------------------------
(* Arithmetic. *)

saturate(x, limit) == IF x > limit THEN limit ELSE x

price_for_label_length(length) ==
    TierPrice[IF length <= 3 THEN "short" ELSE IF length <= 6 THEN "middle" ELSE "long"]

fee_due(n, years) == saturate(price_for_label_length(LabelLength[n]) * years, AmountMax)

expiry_from_now(now_unix, years) == saturate(now_unix + YearSeconds * years, U64Max)

compute_grace_period_ends_at(expiry_unix) ==
    saturate(expiry_unix + grace_period_seconds, U64Max)

\* Renewal extends from the later of the current expiry and now.
renewal_base(n, now_unix) ==
    IF registrations[n].expires_at > now_unix THEN registrations[n].expires_at ELSE now_unix

\* The counter a registration at now_unix is checked against and added to.
window_key(address, now_unix) ==
    << address, IF now_unix > rate_limit_config.window
                THEN now_unix - rate_limit_config.window ELSE 0 >>

check_rate_limit(address, now_unix) ==
    \/ address \in whitelisted
    \/ windows[window_key(address, now_unix)] < rate_limit_config.max

Issued(n) == registrations[n] # NONE

-----------------------------------------------------------------------------
(* Entrypoints of registrants. *)

RegistrarRegister(n, owner, years, max_price, now_unix) ==
    LET fee     == fee_due(n, years)
        expiry  == expiry_from_now(now_unix, years)
        ends_at == compute_grace_period_ends_at(expiry)
    IN  /\ registrar_admin # NONE
        /\ years \in 1 .. MaxYears
        /\ n \notin reserved
        /\ check_rate_limit(owner, now_unix)
        /\ max_price >= fee
        /\ Issued(n) => now_unix > registrations[n].grace_period_ends_at
        /\ registrations' = [registrations EXCEPT ![n] =
              [ owner |-> owner, registered_at |-> now_unix, expires_at |-> expiry,
                grace_period_ends_at |-> ends_at, fee_paid |-> fee,
                renewed_at |-> now_unix ]]
        /\ windows' = [windows EXCEPT ![window_key(owner, now_unix)] = saturate(@ + 1, AmountMax)]
        /\ treasury' = saturate(treasury + fee, AmountMax)
        /\ registration_count' = saturate(registration_count + 1, AmountMax)
        /\ Register(n, owner, NONE, NONE, now_unix, expiry, ends_at)
        /\ UNCHANGED << renewal_count, policyVars, registrar_admin >>

\* Faulty variant: the record keeps its old end of grace.
extend_registration_same_grace(n, caller, expiry, payment_stroops, now_unix) ==
    /\ registrations' = [registrations EXCEPT
          ![n].expires_at = expiry,
          ![n].renewed_at = now_unix,
          ![n].fee_paid = saturate(@ + payment_stroops, AmountMax)]
    /\ treasury' = saturate(treasury + payment_stroops, AmountMax)
    /\ renewal_count' = saturate(renewal_count + 1, AmountMax)
    /\ Renew(n, caller, expiry, compute_grace_period_ends_at(expiry), now_unix)
    /\ UNCHANGED << windows, registration_count, policyVars, registrar_admin >>

\* Faulty variant: the payment does not reach the treasury.
extend_registration_unbooked(n, caller, expiry, payment_stroops, now_unix) ==
    LET ends_at == compute_grace_period_ends_at(expiry)
    IN  /\ registrations' = [registrations EXCEPT
              ![n].expires_at = expiry,
              ![n].grace_period_ends_at = ends_at,
              ![n].renewed_at = now_unix,
              ![n].fee_paid = saturate(@ + payment_stroops, AmountMax)]
        /\ renewal_count' = saturate(renewal_count + 1, AmountMax)
        /\ Renew(n, caller, expiry, ends_at, now_unix)
        /\ UNCHANGED << treasury, windows, registration_count, policyVars, registrar_admin >>

\* What renew and extend_during_grace have in common, from the new expiry on.
extend_registration(n, caller, expiry, payment_stroops, now_unix) ==
    LET ends_at == compute_grace_period_ends_at(expiry)
    IN  /\ registrations' = [registrations EXCEPT
              ![n].expires_at = expiry,
              ![n].grace_period_ends_at = ends_at,
              ![n].renewed_at = now_unix,
              ![n].fee_paid = saturate(@ + payment_stroops, AmountMax)]
        /\ treasury' = saturate(treasury + payment_stroops, AmountMax)
        /\ renewal_count' = saturate(renewal_count + 1, AmountMax)
        /\ Renew(n, caller, expiry, ends_at, now_unix)
        /\ UNCHANGED << windows, registration_count, policyVars, registrar_admin >>

\* Faulty variant: the payment is not compared with the fee.
RegistrarRenew_unpaid(n, caller, years, payment_stroops, now_unix) ==
    /\ registrar_admin # NONE
    /\ years \in 1 .. MaxYears
    /\ Issued(n)
    /\ registrations[n].owner = caller
    /\ now_unix <= registrations[n].grace_period_ends_at
    /\ extend_registration(n, caller, expiry_from_now(renewal_base(n, now_unix), years),
                           payment_stroops, now_unix)

RegistrarRenew(n, caller, years, payment_stroops, now_unix) ==
    /\ registrar_admin # NONE
    /\ years \in 1 .. MaxYears
    /\ Issued(n)
    /\ registrations[n].owner = caller
    /\ now_unix <= registrations[n].grace_period_ends_at
    /\ payment_stroops >= fee_due(n, years)
    /\ extend_registration(n, caller, expiry_from_now(renewal_base(n, now_unix), years),
                           payment_stroops, now_unix)

ExtendDuringGrace(n, caller, years, payment_stroops, now_unix) ==
    /\ registrar_admin # NONE
    /\ years \in 1 .. MaxYears
    /\ Issued(n)
    /\ registrations[n].owner = caller
    /\ now_unix > registrations[n].expires_at
    /\ now_unix <= registrations[n].grace_period_ends_at
    /\ payment_stroops >= fee_due(n, years)
    /\ extend_registration(n, caller, expiry_from_now(now_unix, years),
                           payment_stroops, now_unix)

-----------------------------------------------------------------------------
(* Entrypoints of governance. *)

RegistrarInitialize(a) ==
    /\ registrar_admin = NONE
    /\ registrar_admin' = a
    /\ invoker' = NONE
    /\ UNCHANGED << accountVars, policyVars >>

GovernanceCall ==
    /\ registrar_admin # NONE
    /\ invoker' = registrar_admin
    /\ UNCHANGED << accountVars, registrar_admin >>

\* reserve_label and load_reserved_manifest: labels already reserved are skipped.
ReserveLabels(labels) ==
    /\ GovernanceCall
    /\ reserved' = reserved \cup labels
    /\ UNCHANGED << rate_limit_config, grace_period_seconds, whitelisted >>

SetRateLimitConfig(window, max) ==
    /\ GovernanceCall
    /\ rate_limit_config' = [window |-> window, max |-> max]
    /\ UNCHANGED << reserved, grace_period_seconds, whitelisted >>

\* Faulty variant: any grace period is accepted.
SetGracePeriod_unchecked(seconds) ==
    /\ GovernanceCall
    /\ grace_period_seconds' = seconds
    /\ UNCHANGED << reserved, rate_limit_config, whitelisted >>

SetGracePeriod(seconds) ==
    /\ GovernanceCall
    /\ seconds \in MinGrace .. MaxGrace
    /\ grace_period_seconds' = seconds
    /\ UNCHANGED << reserved, rate_limit_config, whitelisted >>

WhitelistAddress(a) ==
    /\ GovernanceCall
    /\ whitelisted' = whitelisted \cup {a}
    /\ UNCHANGED << reserved, rate_limit_config, grace_period_seconds >>

RemoveWhitelistAddress(a) ==
    /\ GovernanceCall
    /\ whitelisted' = whitelisted \ {a}
    /\ UNCHANGED << reserved, rate_limit_config, grace_period_seconds >>

GovernanceNext ==
    \/ \E a \in RegistrarAdmins : RegistrarInitialize(a)
    \/ \E labels \in SUBSET Labels : ReserveLabels(labels)
    \/ \E w \in RateWindows, m \in RateLimits : SetRateLimitConfig(w, m)
    \/ \E s \in Times : SetGracePeriod(s)
    \/ \E a \in Whitelistable : WhitelistAddress(a) \/ RemoveWhitelistAddress(a)

RegistrantNext ==
    \E n \in Labels, a \in Users, years \in 1 .. MaxYears, now_unix \in CallerTimes :
        \E payment \in Payments :
            \/ RegistrarRegister(n, a, years, payment, now_unix)
            \/ RegistrarRenew(n, a, years, payment, now_unix)
            \/ ExtendDuringGrace(n, a, years, payment, now_unix)

-----------------------------------------------------------------------------
(***************************************************************************)
(* Names get their term through the registrar only, the way clients issue  *)
(* them; the registry itself also accepts register and renew from an owner *)
(* directly, and what is said below does not hold of such names.           *)
(***************************************************************************)
GatedNext ==
    \/ RegistrantNext
    \/ GovernanceNext /\ UNCHANGED << clock, storeVars, configVars, nftVars, resolverVars >>
    \/ OtherNext /\ UNCHANGED registrarVars

GatedSpec == RegistrarInit /\ [][GatedNext]_allVars

-----------------------------------------------------------------------------
(* Safety. *)

\* The two contracts keep one term for a name: an entry of the registry has a
\* registration record with the same registration date, expiry and end of
\* grace, through transfers, burns, reclaims, locks and grace-period changes.
RecordMirrorsEntry ==
    \A n \in Labels : Registered(n) =>
        /\ Issued(n)
        /\ registrations[n].registered_at = entries[n].registered_at
        /\ registrations[n].expires_at = entries[n].expires_at
        /\ registrations[n].grace_period_ends_at = entries[n].grace_period_ends_at

\* A renewal the registrar accepts is never refused by the registry for its
\* timestamps, even if governance has shortened the grace period since the last
\* one and at the upper end of the time range.
RenewalFits ==
    \A n \in Labels, years \in 1 .. MaxYears, now_unix \in CallerTimes :
        Registered(n) /\ now_unix <= registrations[n].grace_period_ends_at =>
            LET expiry == expiry_from_now(renewal_base(n, now_unix), years)
                ends_at == compute_grace_period_ends_at(expiry)
            IN  /\ expiry >= entries[n].expires_at
                /\ ends_at >= entries[n].grace_period_ends_at
                /\ validate_lifecycle_timestamps(now_unix, expiry, ends_at)

\* Nobody gets term for free: when a name is issued or its expiry moves forward,
\* the treasury has taken in at least one year's fee for it.
TermIsPaid ==
    [][\A n \in Labels :
        /\ Registered(n)'
        /\ Registered(n) => entries'[n].expires_at > entries[n].expires_at
        => treasury' >= saturate(treasury + fee_due(n, 1), AmountMax) ]_allVars

\* The treasury has taken in what the live registration records say was paid,
\* and as many registrations were counted as there are records, unless the
\* counters have reached their limit.
AccountingCovers ==
    LET live == {n \in Labels : Issued(n)}
    IN  /\ treasury >= saturate(
                SumFunctionOnSet([n \in live |-> registrations[n].fee_paid], live), AmountMax)
        /\ registration_count >= saturate(Cardinality(live), AmountMax)

=============================================================================
