# A verification project for XLM Name Service

TLA+ models of the Soroban contracts of XLM Name Service and of the programs
around them (the Rust SDK with its ledger ingestion, the command line client, the
health monitor), TLC configurations that check them on small instances, and
TLAPS proofs about every one of these parts, for any number of names, accounts,
bidders, chains or retries and for any clock skew. Paths are relative to `src/`;
`registry lib.rs:241` stands for `contracts/registry/src/lib.rs` line 241, and
likewise for the other contracts.

## 1. Inventory

| Component | State it keeps | Operations | Talks to |
|---|---|---|---|
| registry (`contracts/registry`) | entries, owner index, dispute locks, admin, dispute admin, NFT address | register, transfer, set_resolver / set_target_address / set_metadata, update_owner, renew, burn, lock_name, unlock_name, configuration, queries | calls NFT (mint, burn, sync_owner, sync_expiry) and the resolver (clear_reverse_record) |
| NFT (`contracts/nft`) | tokens with approval and cached name data, per-owner lists, id list, admin, registry address | mint, burn, transfer, transfer_from, approve, sync_owner, sync_expiry, refresh_name_data | calls registry.update_owner, reads name_state |
| resolver (`contracts/resolver`) | forward records, reverse and primary maps, wildcard flags, registry and subdomain addresses | set_record, set_address, text records, batches, set_primary_name, remove_record, update_owner, transfer, clear_reverse_record, reverse, resolve with wildcard fallback | reads the registry owner, the depth of the subdomain contract |
| registrar (`contracts/registrar`) | registration records, reserved labels, treasury and counters, rate-limit configuration and counters, whitelist, grace period | register, renew, extend_during_grace, governance setters, queries | calls registry.register and registry.renew |
| auction (`contracts/auction`) | auctions with their bids, settlements, discovery index, admin | create, place_bid, settle, listings | asset contracts (`transfer`) |
| subdomain (`contracts/subdomain`) | parents with controllers, subdomain records, two indices, depth limit | register_parent, controllers, create, transfer, delete, queries that purge | reads registry.resolve |
| bridge (`contracts/bridge`) | supported chains, their listing, routes | add / remove chain, build route, query | nothing |
| common (`packages/xlm-ns-common`) | none | time predicates, expiry and price arithmetic, name validation | used by every contract |
| ledger ingestion (`packages/xlm-ns-sdk/src/ingestion.rs`) | active source, last ledger, restart failures, retry time, the stellar-core child | start, next_ledger, restart, fall back, retry of the primary | stellar-core process, RPC fallback |
| SDK client (`packages/xlm-ns-sdk`) | the contract ids, URL and passphrase it was built with; per call, what it has heard from the server | 19 queries, 17 writes; checks of arguments, ids and network, retries, polling of the final status; decoding of contract errors | RPC server |
| CLI (`cli`) | configuration file; per run, ids, policy, the steps of the handler | 20 commands with 42 handlers; the advice an error reaches the user as | SDK, terminal, files |
| watchlist (`cli/src/commands/watch.rs`) | a JSON file shared by all processes of a user | add, remove, list, check | file system |
| monitor (`packages/xlm-ns-monitor`) | history of snapshots, in memory and in a file | probe, evaluate thresholds, alert, save; restart | SDK, webhooks, file system |

What is hard about it:

- **Cross-contract calls with shared ownership.** One transfer touches the
  registry, its index, the NFT contract, its index and the resolver's two maps.
  The host makes an invocation atomic and rolls back an `Err` or a trap, so the
  question is never "what if it stops half way" but "what if one of the
  contracts is not wired, or its copy of the owner is old".
- **Clocks.** Most entrypoints take `now_unix` from the caller. Two callers may
  see the same name active and claimable in one ledger. Expiry and grace end
  are inclusive, renewals, claims, locks and bids meet at them.
- **Copies.** The registrar keeps a term of its own, the resolver an owner, the
  NFT contract an expiry, the subdomain contract a parent owner, the bridge an
  endpoint. Each may be old when it is used.
- **Indices** that are kept beside the records by many operations.
- **Shared balance.** All auctions in one asset hold their bids in one balance.
- **A supervisor** of an operating-system process with restarts, a backoff and
  a second source, between whose awaits anything may happen.
- **A server that is slow, down or on another network**, asked in several places
  of one call, each with retries of its own.
- **Errors that travel.** A number thrown by a contract crosses the SDK, or the
  text of a failed simulation, and tables in four places, before it is advice.
- **Files without locks** that `fs::write` truncates before it writes, used by
  processes that are killed, and metrics that are computed from earlier ones.

The list of hazards, each at its line and with the properties that would catch
it going wrong, is in `PROJECT.json`.

What makes each part correct: *registry*, nobody but the owner changes a name
before its grace period is over, terms only grow, locks freeze, the index is
exact. *NFT*, a token and its name live and die together, the lists are exact.
*Resolver*, reverse and primary answers agree with forward records, the nearest
record answers. *Registrar*, its record and the registry's entry agree, every
year is paid, a renewal it accepts is not refused below. *Auction*, second
price, money conserved, no bid stuck, nothing after settlement. *Subdomain*, no
subdomain without its parent, none of a former owner's left to the next.
*Bridge*, every route leads where its chain does now. *Ingestion*, the next ledger
follows the last number a source has given, none is passed over, every call returns, the primary is tried again.
*SDK*, no transaction on another network, no final status taken back, bounded
retries. *CLI*, the exit status is true, no id is found missing behind the policy,
the advice fits the error, every run ends, a portfolio is complete. *Watchlist*,
what was reported as done stays in the list unless a stale list is saved over it,
and only a write that was cut off or overlapped another damages the file.
*Monitor*, reported registrations never go back across restarts, unless a write was
cut off.

## 2. Modules and how they correspond to the code

An **invocation is one action**: the conditions under which the code returns an
`Err` or traps are its guard, and the writes of every contract it calls are
conjoined to it. This is what the host guarantees. Re-entry into a contract on
the call stack is forbidden by the host: it makes a call fail, so it is a guard
too (`register` traps when NFT and registry are wired to each other, since
`mint` reads back; `~nft_registry` in `Register`).

Authorisation (`require_auth`) is the parameter `caller`; the variable `invoker`
records it for the properties and no guard reads it. `now_unix` ranges over
`CallerTimes`, the times within `Skew` of the ledger clock.

| Module | Models | State and actions |
|---|---|---|
| `RegistryStore` | the registry's storage, ledger clock, time predicates, `resolve`, `name_state` | the variables others read; `Tick` |
| `Nft` | NFT contract | `mint`, `burn`, `sync_owner`, `sync_expiry` as operators that the registry's actions conjoin, and the entrypoints as actions |
| `Resolver` | resolver contract | forward, reverse, primary and wildcard maps; a batch is a fold over its operations; `resolve_with_fallback` |
| `Registry` | registry contract, composed with the three above | one action per entrypoint, `Spec` is the whole composition |
| `NameLifecycle` | what a name's life promises, abstractly | Acquire, HandOver, Extend, Release, Pass |
| `Registrar` | registrar contract over `Registry` | `GatedSpec`: terms are given through the registrar |
| `Auction` | auction contract and, externally, asset balances | create, bid, settle with all refunds and payments, listings |
| `Subdomain` | subdomain contract over `Registry` | `SystemSpec`: namespace and registry together |
| `Bridge` | bridge contract | chains, listing, routes |
| `Ingestion` | `CaptiveCoreIngestor` with both sources | one action per end of an await, process exits and passing time as environment |
| `LedgerStream` | what the ingestion promises its caller, abstractly | Call, BringNumbered, BringUnnumbered |
| `ErrorCodes` | the codes each contract throws, the decoder of the SDK, the three tables of the CLI | operators only |
| `SdkClient` | `XlmNsClient` and a server | `call` is the method under way and the steps it has left, `rpc` what was heard; one action per kind of step |
| `Cli` | a run of `xlm-ns`, over `SdkClient` | `cli` is the run: configuration and policy in `Start`, then one action per kind of handler step; `InSdk` for the SDK's own |
| `Portfolio` | the loop over pages of an owner's names | fetch, time out and halve, reach the limit |
| `Watchlist` | the watchlist file and its processes | load, open (truncate), write, the failure of each, kill, repair |
| `Monitor` | the daemon and its history file | poll, open, write, the failure of either, stop, restart |
| `RegistryProofs` | proofs about `Registry`: types, safety, refinement of `NameLifecycle` | |
| `NftResolverProofs` | proofs about the NFT contract and the resolver within `Registry` | |
| `RegistrarProofs`, `SubdomainProofs`, `AuctionProofs` | proofs about these contracts | |
| `ProgramProofs` | proofs about `Ingestion`, `Bridge`, `Watchlist`, `Monitor`, `Portfolio`, `SdkClient` | |
| `CliProofs` | proofs about `Cli`, the error tables, and the programs put together in `MCStandalone` | |
| `SumProofs` | lemmas about sums over finite sets and least elements, used by four of the others | |
| `MCRegistry`, `MCRegistrar`, `MCAuction`, `MCSubdomain`, `MCStandalone` | instances, symmetry, views | |

Composition: `RegistryStore` is extended by `Nft` and `Resolver`; `Registry`
extends both and adds the writes; `Registrar` and `Subdomain` extend `Registry`.
`Cli` extends `SdkClient`, which extends `ErrorCodes`: a handler's step that calls the
SDK hands over to the client and gets its result back. `Auction`, `Bridge`,
`Ingestion`, `Portfolio`, `Watchlist` and `Monitor` share no state with the others in the
code. `MCStandalone` puts all of them but `Auction` side by side in one
specification: its variable `part` picks at the start which of them runs, and
the others stand still. Each of them also has a specification of its own
(`IngestionSpec`, `BridgeSpec`, `WatchSpec`, `MonitorSpec`, `PortfolioSpec`, `SdkSpec`) with the same
actions, which the proofs about these parts are about: a step of another part leaves its variables
alone, and so is one of its stuttering steps. The command line has no
specification but the one of `MCStandalone`, and the proofs about it are about that. (`Bridge` calls its absent value `NO_VALUE`, `Ingestion`
its own `NONE`, so that both can be there.) `Ingestion` instantiates `LedgerStream`,
and `Registry` instantiates `NameLifecycle` with the mapping
`holding` (the owner, expiry and end of grace of an entry).

Definitions called *Faulty variant* in the modules state a plausible mistake in
the operation they precede; no specification uses them. They are there to show
that each property notices a mistake (`PROJECT.json`, `mutants`).

Choices of abstraction:

- Strings are model values. Names that fail validation are never stored and so
  are not in `Names`. A label and the name `build_xlm_name` makes of it are one.
- `token_ids` is a Vec to which mint appends without looking and from which burn
  removes one occurrence: it is kept as the number of occurrences. Vecs that
  are filtered or tested before an append are sets.
- Widths: `U64Max` and `U32Max` stand for the limits of the integer types, so
  that saturating arithmetic is met in small instances; `AmountMax` for that of
  the registrar's sums.
- `FallbackDepth` is the limit `fallback_depth_limit` computes; it comes from
  the subdomain contract's `max_depth` if one is set.
- Text records keep keys and not values. `updated_at`, `placed_at`,
  `settled_at`, `created_at` are read by no code and left out, as are events,
  storage TTLs and the `upgrade` entrypoints.
- The auction contract's re-entrancy flag is left out: the host forbids what it
  guards against, and an invocation that fails resets it.
- A loop of the code is a fold, or, where proofs follow its turns, a recursive
  function: `ranking` in `settle_vickrey`, `scanned` in `filter_index`, `remaining` in `remove_supported_chain`, `climb` in
  `resolve_with_fallback`. Sums over contracts' records are `SumFunctionOnSet`.
- A method of the SDK and a handler of the CLI are *lists of steps*, translated
  from the order of the calls in their bodies. Steps with the same effect (all
  checks of arguments, say) are one. Bodies that call other methods contain
  their lists.
- Contract queries and submissions are placeholders in this SDK: they succeed
  whenever a client can be made from the URL. What they answer is left out, but
  for whether a name is known. The two places that talk to a server for real,
  the check of the network and the polling of the final status, may hear any
  answer, error or nothing.
- An error text is the phrase `classify_text` looks for and the number after it.
- In a run of the CLI one contract's id is set in its own way (flag,
  environment, network section, default section, absent or malformed in any of
  them); the others are all set or all missing.
- In the watchlist all names have one length, so that the size of the file is
  the length of the list. A write replaces what the file holds from its start.
- A command may fail to open the file, and a write may end early, because the disk is
  full or the process is killed: then nothing of it, or as much of the text as does
  not parse, is in the file. What the user owes to the watchlist (`owed`) is read from
  the file whenever a command starts while no other runs; `raced` and `disturbed` say
  whether, since then, a list was saved that had been loaded before another save began,
  and whether a write was cut off or overlapped another.
- The ingestion supervisor takes its sources at their word: it stores the number an
  answer carries (`ingestion.rs:237`, `288`) without comparing it with the one it asked
  for. A test has it accept ledger 99 when it starts from 88 (`ingestion.rs:936`), and
  an answer without a number leaves the last one as it is. In the model process and
  fallback give any number or none. The one assumption is that a running process goes
  on with the ledger after the one it last gave. After the largest sequence number the
  same ledger is asked for again, as `saturating_add` has it.
- The answers of `resolve` and `reverse_resolve` are placeholders that always hold an
  address and a name, so that the errors of resolve.rs:50 and reverse.rs:40 are steps of
  the handlers that no run takes; nor does one find the health check degraded
  (healthcheck.rs:116), as `get_registration` never returns a transport error here and an
  empty passphrase is refused before.
- A monitor's probe works for its whole life or never: in this SDK it depends on
  the configuration only. A rate is a pair of numbers.

## 3. Runs

Two workers need between a second and two minutes for each run.

| Run | Question | Instance |
|---|---|---|
| `registry_core` | Every safety property of registry and NFT contract, and the refinement of `NameLifecycle` | one name, two users, an administrator who may be wired in place of the NFT contract or administer tokens, times 0..2, skew 1 |
| `registry_resolver` | `ReverseSound` | two names, two users with their addresses, two chains, batches of up to two operations, fixed time |
| `registry_records` | `FallbackNearest` | three nested names |
| `registrar_fees` | term and money agree between registrar and registry | one label, two users of which one may be whitelisted, a fee of 2 and payments from 1 to 3, times 0..5, sums saturating at 4 |
| `auction_auctions` | second price, escrow, finality, paging | two lots in one asset, two bidders, two bids a lot, three windows of which one is empty, skew 1 |
| `subdomain_namespace` | namespaces across changes of the parent | one parent, a subdomain and one below it, two users, times 0..2 |
| `standalone` | every property of SDK client, CLI, portfolio, watchlist, monitor, ingestion and bridge | see below |
| `registry_nftowner` (violation) | the token's owner is the name's owner | see section 6 |
| `registry_resolveowner` (violation) | resolving rejects a record whose owner is not the registry's | see section 6 |
| `registrar_renewer` (violation) | the owner can renew in grace | see section 6 |
| `registrar_ratelimit` (violation) | at most `max` registrations in a window | see section 6 |
| `monitor_recovery` (violation) | the failure alert ends once probes succeed again | see section 6 |

What the passing runs show:

- `OwnerConsent`, `TermNeverShortened`, `LockFreezes`: an entry is its owner's
  until the grace period has ended *on every clock a caller may have*; that is
  the strongest statement that is true of an interface that takes the time from
  its callers. One name is enough for them: no action relates two names.
- `LockHasEntry`, `OwnerIndexExact`, `NftIndexExact`, `TermOrdered`: the state
  around an entry follows it through every path, including those of an account
  wired as the NFT contract.
- `MirrorKept` says what keeps token and name together and what does not: it is
  a step property because the administrator may wire an NFT contract after names
  were registered, and those have no token.
- `ReverseSound` needs two names and two addresses, since a mapping crosses when
  one name leaves an address another one has taken; batches of two operations
  are the smallest in which the first write is undone by the second.
- `RecordMirrorsEntry`, `RenewalFits`, `TermIsPaid`, `AccountingCovers`: the times
  reach the upper limit, so a saturated expiry is among the states.
- `FundsAccounted` and `EscrowRecoverable`: two lots in one asset share the
  balance; ties, a second bid by the winner and a reserve above the second bid
  occur.
- `NamespaceStartsEmpty`, `SubdomainConsent`, `SubdomainIndexExact`: the parent
  expires, is burned, is claimed by the other user and registered as a parent
  again.
- `StreamRefined`: through every interleaving of exits, timeouts, undecodable frames,
  failing starts and fetches, and with sources that give any number or none, the
  caller gets what `LedgerStream` promises: the ledger a call brings was due, that is,
  it follows the last number given or ledgers brought without one. It does not say
  that a source gives the number it was asked for, which the code does not check.
  `PrimaryRetried` and the third part of `CallsEnd` are its liveness.
- `NeverOnWrongNetwork`, `FinalStatusKept`: with every sequence of answers and errors a
  server may give, one that lags behind itself included, for every method.
- `RetriesBounded`: questions to the server in one call of the SDK, and starts of
  the process in one call of `next_ledger`.
- `MissingIdOnlyRegistry`, `AdviceRight`, `ExitStatusTrue`: every command, with every id
  missing, malformed or set at any level, with or without `--dry-run`, a terminal,
  a signer profile. The policy (main.rs:1267) and the handlers are written in
  different files; the property says what the policy does not catch: the
  registry id, which several handlers need although their command does not
  require it. `AdviceRight` also runs through all error numbers of all
  contracts, decoded by the SDK and found in a text.
- `PortfolioExact` compares the loop with a slice of the list; `WatchlistSound` lets two
  processes interleave, fail and be killed before, between and after opening and
  writing, and compares the whole list with what all commands have reported;
  `ReportsGrow` lets the daemon die and its saves fail anywhere. It says nothing to a
  restart after a write that was cut off, as the code takes such a file for an empty
  history.
- `CallsEnd`: a run of the CLI, the portfolio loop and `next_ledger` all end.

`standalone` has `MaxRetries` 2, so a question is asked up to three times; bulk files
with a bad record between two good ones; two processes and two names for the
watchlist, as two are enough to collide and to leave a shorter list behind;
histories of six snapshots, one more than the rate looks back on (seven in
`monitor_recovery`, so that one failure and six successes fit), with the
registrations reported from 2 on and the storage alarm above 5; up to four names
and page sizes, page numbers and limits from 0 to 4; ledgers 0..2 with two
restart attempts; three chains with two endpoints.

**Bounds.** Times end at `U64Max`; the clock stops there (`Tick`), so a run covers
a finite prefix of the ledger's life. Two or three instants suffice to be before,
at and after an end that is inclusive, and with a skew of 1 to have two callers
on both sides of it. `MaxBids`, `Horizon`, `LastLedger` and `Payments` bound bids,
auction time, ledgers and what is offered; `MaxBatchOps`, `MaxTextRecords`,
`MaxPageSize`, `MaxYears` are limits of the code with small values. With `U32Max`
0 the transfer counter is at its limit at once, which is where its increment
could go wrong.

**Reductions.** Symmetry permutes names, users, lots or bidders only in runs
that check no liveness and whose constants single none of them out. `NoInvoker`
leaves `invoker` out of the fingerprint: no guard reads it, and the properties
that mention it read it only in the successor state of a step, which TLC checks
for every step it generates. `NoWildcard` leaves out the wildcard flags in a run
whose property does not depend on them; no other variable does either.
`CHECK_DEADLOCK FALSE` is given for the auctions only: when all lots are settled
and the time of the instance is over, nothing is left to do. In the other models
some call is always accepted.

**Fairness** is assumed for programs, never for users' calls of contracts.
*Ingestion*: what is awaited ends, since reads carry the heartbeat timeout
(`ingestion.rs:233`), sleeps are finite and starting, archiving and fetching are
taken to return; and time passes, so that the backoff ends. Weak fairness
suffices for both, as a pending await stays pending. The caller keeps calling
`next_ledger`, strongly fair because each call disables the next one until it
returns. *CLI*: the program goes on with its next step, a request to the server
ends, with an answer or a failure, and a user who is asked answers; weak fairness
of `HandlerStep \/ InSdk`, one of which is enabled as long as a run has not ended.
*Portfolio*: a page arrives or times out, weak fairness of `FetchStep`. Nothing is
assumed of starting commands, of the watchlist or of the monitor, for which no
liveness is claimed. `HasBackoff` is TRUE: with a
`restart_backoff` of zero a process that starts and dies at once keeps
`next_ledger` in its loop, between `retry` and `check`, for ever; nothing in the
repository says that a backoff of zero is meant to work. Contract calls are made by users at will: no fairness is justified
there, and no liveness is claimed.

## 4. Proofs

The theorems hold for every value of the constants that satisfies the named
assumptions of the modules:

- *contracts* (`BoundsAssumption`, `AddressAssumption`, `NftAdminAssumption`, `NftNoneAssumption`,
  `ResolverAssumption`, `ResolverNoneAssumption`, `RegistryAssumption`, `HoldingAssumption`): limits
  are naturals, the contract addresses are distinct from each other, from
  accounts and from `NONE`, administrators and candidates are addresses, a name's
  parent is a name or `NONE`, and `NONE` is no record;
- *registrar* (`RegistrarAssumption`, `GraceAssumption`, `RegistrationNoneAssumption`): labels are
  names, prices and limits naturals, and the longest grace period is at most a year;
- *auction* (`AuctionAssumption`, `EntryAssumption`), *subdomain* (`SubdomainAssumption`): the
  contract is not an account, amounts are naturals, a page has room for at least
  one name (`MAX_PAGE_SIZE` is 100), every subdomain has a base
  name and a depth;
- *programs* (`BridgeAssumption`, `IngestionAssumption`, `MonitorAssumption`, `PortfolioAssumption`,
  `RetryAssumption`): limits are naturals, absent values are not values.

| Theorem | States |
|---|---|
| **Registry** | |
| `TypeCorrect` | `Spec => []TypeOK` |
| `OwnerIndexIsExact`, `LocksHaveEntries`, `TermsAreOrdered` | `Spec => []OwnerIndexExact`, `[]LockHasEntry`, `[]TermOrdered` |
| `OwnerConsents`, `TermsNeverShortened`, `LocksFreeze` | `Spec => OwnerConsent`, `TermNeverShortened`, `LockFreezes` |
| `RegistryImplementsLifecycle` | `Spec => LifecycleRefined` |
| **NFT contract and resolver** | |
| `NftIndexIsExact`, `MirrorsKept` | `Spec => []NftIndexExact`, `MirrorKept` |
| `ReverseIsSound`, `FallbackIsNearest` | `Spec => []ReverseSound`, `[]FallbackNearest` |
| **Registrar** | |
| `RegistrarTypeCorrect` | `GatedSpec => [](TypeOK /\ RegistrarTypeOK)` |
| `RecordsMirrorEntries`, `RenewalsFit` | `GatedSpec => []RecordMirrorsEntry`, `[]RenewalFits` |
| `TermsArePaid`, `TreasuryCoversRecords` | `GatedSpec => TermIsPaid`, `[]AccountingCovers` |
| **Subdomain** | |
| `NamespacesCorrect`, `SubdomainIndexIsExact` | `SystemSpec => []NamespaceInv`, `[]SubdomainIndexExact` |
| `NamespacesStartEmpty`, `SubdomainsConsent` | `SystemSpec => NamespaceStartsEmpty`, `SubdomainConsent` |
| **Auction** | |
| `AuctionTypeCorrect`, `SettlementsAreFair` | `AuctionSpec => []AuctionTypeOK`, `[]SettlementFair` |
| `RecordsAreFinal` | `AuctionSpec => RecordFinal` |
| `FundsAreAccounted`, `EscrowsAreCovered` | `AuctionSpec => []FundsAccounted`, `[]EscrowCovers` |
| `PagesAreComplete` | `AuctionSpec => []PagesComplete` |
| **Bridge** | |
| `RoutesAreCurrent` | `BridgeSpec => []RoutesCurrent` |
| **Ingestion** | |
| `IngestionTypeCorrect` | `IngestionSpec => []IngestionTypeOK` |
| `StartsAreBounded` | `HasBackoff /\ IngestionSpec => []StartsBounded` |
| `IngestionImplementsStream` | `IngestionSpec => StreamRefined` |
| **SDK client** | |
| `NeverWritesToWrongNetwork`, `RequestsAreBounded` | `SdkSpec => []NeverOnWrongNetwork`, `[]RequestsBounded` |
| `FinalStatusIsKept` | `SdkSpec => FinalStatusKept` |
| **Watchlist, monitor, portfolio** | |
| `WatchlistIsSound` | `WatchSpec => []WatchlistSound` |
| `ReportsNeverGoBack` | `MonitorSpec => ReportsGrow` |
| `PortfoliosAreExact` | `PortfolioSpec => []PortfolioExact` |
| **Command line, and the programs together** | |
| `MissingIdIsRegistry`, `AdviceIsRight`, `ExitStatusIsTrue` | `Spec => []MissingIdOnlyRegistry`, `[]AdviceRight`, `[]ExitStatusTrue`, with the `Spec` of `MCStandalone` |
| `RetriesAreBounded`, `ProgramTypesHold` | `HasBackoff /\ Spec => []RetriesBounded`, `Spec => []ProgramTypeOK` |

### Registry

`RegistryProofs` first separates the three contracts: NFT and resolver
steps leave the registry's variables alone (`NftKeepsRegistry`,
`ResolverKeepsRegistry`), so `StepKinds` splits every step of the system into a write
of the registry's store or none. Type correctness is proved contract by contract
(`StoreWriteType`, `NftNextType`, `ResolverNextType`), with `WithNft` and `WithResolver` for
the part of another contract that a registry call carries along. Types are the
inductive invariant the rest needs: the safety properties compare times, and
arithmetic says nothing of values that may not be numbers.

The second half of the module reduces the eleven calls that write the store to six *effects*
on one name (`WriteEffect`): `TakenOver`, `Edited`, `Moved`, `Prolonged`, `GivenUp`,
`LockChanged`. Each property is then a case analysis over six effects:
`OwnerIndexExact`, `LockHasEntry` and `TermOrdered` are inductive given `TypeOK`
(`OwnerIndexStep`, `LockStep`, `TermStep`). For the action properties the key fact is
`CallerTimeBound`: a caller's time exceeds the clock by at most `Skew`, therefore a
name whose grace ends no earlier than `clock + Skew` is claimable for nobody
(`WriteBeforeClaimable`), and a lock until then has lapsed for nobody (`LockHolds`).
The refinement uses the same effects: each, read through `holding`, is a step
of `NameLifecycle` or a stutter (`WriteRefines`), other steps leave `holding` as it
is, and `TypeOK` and `TermOrdered` are the invariants it needs.

### NFT contract and resolver

Whichever contract a call enters by, what it does to the tokens is one of four
effects on one token (`TokenIssued`, `TokenBurned`, `TokenReissued`, `TokenChanged`) or none
(`TokenStep`); `NftIndexExact` is inductive under each. `MirrorKept` splits the calls by what
they do to *both* sides of a name: registering, renewing and burning write the
same to token and entry (`IssueMirrors`), every other call keeps existence and expiry
of both (`OtherWritesKeepSides`, `HolderCallsKeepSides`). That nobody but the registry may
mint or burn is needed for the latter, and is the property's own condition.

For `ReverseSound` the point is a batch, which may write several addresses over the
one a record had. `OldAddressDeparts` takes the least position of the batch from which
the old address is no longer there (`LeastElement`) and shows that the mapping was removed at that
write; `RemapIsSound` adds the mapping of the last address written.
`FallbackNearest` is about a loop with an early exit. `ClimbTurns` and `AncestorTurns`
show that the two recursive functions are defined and unfold; `NearestIsFound` is an
induction from the last ancestor that may be asked *down* to the name itself,
over `Nearest`: given what the loop answers from one hop further up, it answers
right from here.

### Registrar

A call of a registrant is paid for, writes one term to the record and to the
entry of one name and leaves the others alone (`RegistrantEffect`); any other step gives
no term and touches no record and no payment (`OtherStepEffect`). `RecordMirrorsEntry` and
`TermIsPaid` follow. `RenewalFits` is not inductive: governance may shorten the grace
period after a record got a longer one. The strengthening `GraceBounded` says that no
record's grace period exceeds the longest that may ever be set, and a renewal
of a year outlasts that (`GraceAssumption`). `AccountingCovers` is a sum over the issued
records. Its invariant `AccountInv` adds that they are finitely many, although `Labels`
may be infinite, and the step (`BankedStep`) that the record written grows by no more than the
treasury takes in (`Banked`), with saturation being monotone (`SaturateFacts`).

### Subdomain

Every entrypoint either changes one subdomain, or the controllers of one
parent, or empties one namespace for a `Cause`: a takeover, or a query of a parent
that is not active (`CallEffect`). That a purge leaves nothing needs the listing by
parent to be exact (`PurgeEffect`), so the listing is part of the inductive
invariant `NamespaceInv`, with `ParentFixed`: a subdomain is recorded under its own base,
without which a purge of one parent could take from another.

### Auction

`settle_vickrey` is one pass over the bids. `RankingTurns` shows that the recursive
function is defined, and `RankedTurn` that each turn keeps the loop's invariant `Ranked`:
the earliest of the highest bids, and the highest of the others (zero at
first). From it `VickreyIsSecondPrice` is the definition `SettlementFair` compares with.
`SumProofs` builds sums over finite sets from nothing but their definition:
`SubsetInduction` on subsets of a finite set, existence and uniqueness of the recursion, then
`SumRemove` (order does not matter) and the forms the steps need (`SumAdd`, `SumDrop`,
`SumUpdate`, `SumPlus`). `FundsAccounted` is proved asset by asset (`AssetAccounted`): a bid moves
its amount from a balance to a stake and to escrow, a settlement takes the stakes of
one auction out of escrow and gives price and refunds to those they are due to
(`SettlementPays`, `SettleKeepsFunds`). `EscrowsAreCovered` is a consequence: the balance
covers all transfers of any auction still to be settled, so that none traps for the sake of another in
the same asset. It is the part of `EscrowRecoverable` that does not speak of `ENABLED`.
`PagesComplete` says of the pages of a listing which names are on them and in what
order. `ScanPlaces` follows the loop of `filter_index` for all offsets at once: there is
one increasing list of the places of the names kept, and each page is the part of
it its offset and size say (`LookKeeps`: also when the loop has broken off). That such
parts, one after the other, miss nothing and repeat nothing is `PagesListed`.

### Programs

*Bridge*: `RemainingIsRight` follows the turns of the loop in `remove_supported_chain`; the
invariant adds types and the agreement of listing, chains and routes.
*Ingestion*: `StartsCounted` says at each await how many starts a call may have
made: every start but the first is paid for by a failure that is counted. It
needs a backoff (`HasBackoff`), see fairness above. `StreamInv` says that a call that
has not returned has brought nothing, and that a process that is the source is past the
last number only by ledgers it has brought without one (`Ahead`); the fallback's
ledger is due at any time (`NextIsDue`). Every step then brings a ledger that is
due or leaves the stream alone (`HandingOverKeepsStream`, `QuietKeepsStream`, `StreamStep`). The
numbers the sources give are not restricted.
*Watchlist*: `WritesApart`, that without a disturbance at most one process is between
truncating and writing; `ListsDistinct`, that no list names a name twice; and `ListsOwed`,
that without a race and a disturbance the file lists what is owed, and a process that
writes, or may still write without a race, will leave what is owed then. The last
is what makes a reported change of any process last: the property alone says
nothing of the lists that have been loaded and not yet been saved.
*Monitor*: `Remembered` says that a daemon that has polled holds what it reported last in
its newest snapshot, and `Kept` that, unless a write was cut off, neither the daemon nor
one started now from the file goes on from less than was written out last.
*Portfolio*: `Fetching` says that all names before the cursor are listed, although the
page size changes on the way; `SlicesJoin` adds a page to them.
*SDK*: `MethodsPollLast` and `MethodsWaitThrice` are facts about the step lists of all 36
methods: after a submission there is only polling, and there are at most three
waits. `StepEndings` lists the ways a step may end. `WrongNetworkEnds` then says that an
answer from another network is the last thing a call hears; `StatusEarned` that a
final status is the server's and that only polls are left behind it;
`RequestsCounted` that each wait that is over has cost at most `MaxRetries + 1` requests,
the one under way as many as it has attempts behind it.

### Command line

A handler is a list of steps, so what is needed of all 42 of them is one
statement about lists, `Fits`: a step that asks for an id asks for one that the
policy of its command requires (`FitsStep`); each method it calls needs no
contract's id but the registry's and those the handler hands on to its client
(`MethodsLookFor`, `Own`); and after a call that may write there are only calls whose errors
do not end the run. `HandlersFit` reads it off the lists, the bulk command's for any number
of records. `Fits` is inherited by the rest of a list (`FitsTail`).

What a call of the SDK may come to is said once, for every kind of step:
it goes on or ends with one of a few results (`StepVerdict`). From the step lists of the
methods (`LookupsOnlyLook`) it follows that a call that has submitted its
transaction cannot fail any more, and that one that asks for no network never
reports the wrong one (`CallVerdict`, `InSdkKeeps`).

`ExitStatusTrue` is not inductive: it says nothing of a run that goes on. `CliInv`
adds `Running`, what is true of the handler's rest and of the client's ids,
`Harmed`, that behind a transaction only harmless ends are left, and `Waiting`, that
the call under way is the one of the step and what results it may
bring. Each kind of handler step keeps it (`LocalKeeps`, `CallSdkKeeps`, `InSdkKeeps`,
`ResumeKeeps`, `StartKeeps`). `AdviceFits` goes through the same steps, with
`AdviceAgrees` for the four tables: number by number for a contract's error, decoded by the
SDK or found in a text.

`PartsInv` puts client and command line together for whichever part runs; an
application's clients are those of `SomeClients`, about which the lemmas
`MadeClients` and `FreshClient` say what the client's invariant needs. Steps
of the other parts leave both alone (`PartsKeep`), and the ingestion's theorems
carry over because `Spec` implies `IngestionSpec` (`IngestionAlone`).

### Only model-checked

- Liveness under fairness (`CallsEnd`, `PrimaryRetried`) and the `ENABLED` of `EscrowRecoverable`
  are out of TLAPS's reach.
- Every other property of the passing runs is proved; those of the violation runs
  are false.

## 5. What is not modelled

- `upgrade` of every contract: it replaces the code the model is about.
- Events, storage TTL, message texts, price tables beyond three tiers.
- Direct `register` and `renew` calls on the registry in the registrar's run: the
  properties of `Registrar` are about names issued through it. A name taken
  directly from the registry has no record there. (Such calls are part of
  `Registry` and all its properties.)
- Name validation and parsing (`packages/xlm-ns-common`), planned as a module.
- In the SDK: `blocking.rs`, which runs the same methods on a runtime of its own,
  the fields of `types.rs`, the length of the delays between retries, and
  `transport_error`, which sorts errors of a library.
- In the CLI: output and export formats, signing keys, the completion scripts,
  the contents of the migration's state files, wording.
- The monitor's `Status` command, which prints the last snapshot, and the webhooks
  alerts are sent to, whose failures are ignored.
- The Python SDK, which has the contracts' interface but shares no code.
- `ingestion.rs` in socket mode: a process whose socket cannot be reached is
  dropped without being killed (`ingestion.rs:515`). Command lines, TOML and archive
  directories are I/O.
- Factory and test packages, dashboards, scripts, and the files under the
  contracts' `src/` that no `mod` declaration reaches.

## 6. Disagreements between code and documents

Each of the five has a run whose counterexample shows it.

- `registry_nftowner`: the NFT contract's comment in `transfer` (nft lib.rs:291) says
  that it keeps ownership in sync with the registry. When no registry address is
  set the call is skipped and the name stays with its old owner; when one is, the
  call has too few arguments and fails the transfer.
- `registry_resolveowner`: the resolver (resolver lib.rs:788) answers with a record
  whose owner is no longer the registry's; `docs/diagrams/resolution.md:37` says that
  it "rejects the query or marks the records invalid".
- `registrar_renewer`: after a transfer the registrar's own record still names the old
  owner (registrar lib.rs:480), and the new owner cannot renew through it.
- `registrar_ratelimit`: the counter of the rate limit is keyed by the second of the
  call (registrar lib.rs:937), so registrations a second apart are counted apart.
- `monitor_recovery`: the monitor's success rate is "based on recent operations"
  (metrics.rs:80), but a snapshot stores the average (metrics.rs:91) and the
  next ones count it as a failure unless that average was above 90 % (metrics.rs:88).
  After one failed probe no later rate gets there, and the failure alert stays on.

Seen while modelling, without a run:

- Names registered before an NFT contract was wired cannot be reclaimed while it
  is: `burn` of a token that does not exist fails the call (registry lib.rs:253), against
  "claimable after grace" (registry lib.rs:76).
- A transfer in the registry clears the reverse mapping but leaves the forward
  record's owner (registry lib.rs:345), where README.md:210 has the record follow.
- A label whose registry entry was burned remains registered in the registrar
  until its term is over (registrar lib.rs:405), against
  `docs/diagrams/lifecycle.md:42`.
- `docs/security/pentest-checklist.md:65` has only the registrar modify a name in
  its grace period or claimable; the registry accepts `renew` from the owner and
  `register` from anyone (registry lib.rs:458).
- An unsold name cannot be auctioned again (auction lib.rs:174), and a late bid
  does not extend an auction (auction lib.rs:288), against lines 29 and 30 of
  `contracts/subdomain/src/threat-model.md`.
- Line 8 of that file has the parent's owner authorise subdomains; subdomain
  lib.rs:264 asks the owner stored when the parent was registered, who after a
  transfer is the former one. `SubdomainConsent` accepts that owner, as the code
  does, and so does not rule this out.
- The watchlist has no lock: of two commands at the same time, both of which report
  success, one may undo what the other did (watch.rs:62). `WatchlistSound` allows for it.
- `active_auctions` cuts the index off (auction lib.rs:218) before it filters it
  (auction lib.rs:223), so a long list of settled auctions hides open ones.
- `--dry-run`, "Simulate the transaction without submitting it" (main.rs:44), is
  passed on by none of register, renew, transfer, text set, auction, subdomain
  and bridge, whose transactions are submitted; it does switch the policy off,
  and `quote` then panics without a registrar id (quote.rs:18).
- `network.rs:38` asks for the network check "at the start of any method that signs
  or submits a write transaction"; `set_text_records`, `mint_nft`, `approve_nft`,
  `transfer_nft` and `load_reserved_manifest` do without.
- A submission whose polled status is Failed is reported as SUCCESS with exit
  status 0, and a bulk command whose records all failed exits with 0.
- resolve, renew, interactive register, availability and `watch check` need the
  registry's id, which the policy does not require of them.
- `config init` writes placeholder ids that fail validation, so that the next
  command cannot load the configuration.
- `availability` calls the 30 days *before* expiry the grace period and any expired
  name claimable (quote.rs:160), against README.md:177; `watch check` assumes a grace
  of 90 days (watch.rs:79), where the registrar's default is 30.
- The comment at healthcheck.rs:29 has the call reach the network, which it does
  not in this SDK.
- `portfolio --page` multiplies the page number by the first page size, so halved
  pages after a timeout would not cover the list (`PortfolioExact` excludes it).
- The monitor's storage metric grows by one with each poll and ends in a false
  alarm; the alerts for a spike and for no registrations cannot fire; a history
  that cannot be read, as after a save that was cut off, is silently replaced by an
  empty one, and the counts start again from the bottom (metrics.rs:31).

## 7. Plan

Done in this order, the most shared state first: registry with NFT contract and
resolver, the abstract lifecycle, registrar, auction, subdomain, bridge,
ingestion; type correctness, the registry's safety properties, the refinement;
then the error tables, the SDK client, the CLI over it, portfolio, watchlist,
monitor, and the abstract ledger stream.

Then the proofs: NFT contract and resolver, registrar, subdomains, auction with
the theory of sums, bridge, ingestion, watchlist, monitor, portfolio, SDK client,
and the command line over it.

Left for the model: name validation and parsing as pure operators against a
reference definition; the approval that `sync_owner` leaves behind and the cached
name data of the NFT contract; socket mode of the ingestion with its orphaned
process; an abstract escrow that `Auction` implements.

## 8. Running it

    tlc -workers 2 -config MCRegistry_core.cfg MCRegistry
    tlapm RegistryProofs.tla      # likewise the other *Proofs modules

    tlc -workers 2 -config MCStandalone_standalone.cfg MCStandalone

A configuration belongs to the module whose name it begins with.
