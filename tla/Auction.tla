------------------------------- MODULE Auction -------------------------------
(***************************************************************************)
(* The auction contract (contracts/auction/src/lib.rs): second-price       *)
(* auctions of premium names whose bids are held in escrow by the contract *)
(* until somebody settles the auction.  The asset contracts are external:  *)
(* a transfer moves a balance and traps when it is not covered.            *)
(*                                                                         *)
(* An invocation is one action; one that fails leaves no write behind.     *)
(* placed_at and settled_at, which no code reads, are left out.            *)
(***************************************************************************)
EXTENDS Naturals, Sequences, SequencesExt, FiniteSetsExt

CONSTANTS
    Lots,           \* names that pass validate_fqdn_soroban
    Bidders,        \* accounts that bid
    Treasuries,     \* accounts the proceeds may go to
    Assets,         \* token contracts an auction may be held in
    AuctionAdmins,  \* accounts that may be made the administrator
    Amounts,        \* amounts a bidder may offer
    Reserves,       \* reserve prices
    Windows,        \* pairs <<starts_at, ends_at>>
    Funds,          \* what every bidder owns of every asset at first
    MaxBids,        \* bound on the bids of one auction
    Horizon,        \* last ledger time of the instance
    Skew,           \* how far a caller's now_unix may lie from the ledger time
    MaxPageSize,    \* MAX_PAGE_SIZE
    AUCTION,        \* address of the contract
    NONE

Accounts == Bidders \cup Treasuries

ASSUME AuctionAssumption ==
    /\ AUCTION \notin Accounts
    /\ NONE \notin Accounts \cup AuctionAdmins
    /\ Amounts \cup Reserves \subseteq Nat
    /\ Windows \subseteq (0 .. Horizon) \X (0 .. Horizon)
    /\ {Funds, MaxBids, Horizon, Skew} \subseteq Nat
    /\ MaxPageSize \in Nat \ {0}

VARIABLES
    clock,          \* ledger time
    auctions,       \* DataKey::Auction
    settlements,    \* DataKey::Settlement
    auction_names,  \* DataKey::AuctionNames
    auction_admin,  \* DataKey::Admin
    balance         \* of every account and of the contract, by asset

auctionVars == << clock, auctions, settlements, auction_names, auction_admin, balance >>

Bid == [bidder : Bidders, amount : Amounts \ {0}]

AuctionRecord ==
    [ reserve_price : Reserves,
      starts_at     : 0 .. Horizon,
      ends_at       : 0 .. Horizon,
      bids          : BoundedSeq(Bid, MaxBids),
      asset         : Assets,
      treasury      : Treasuries ]

Settlement ==
    [ winner         : Bidders \cup {NONE},
      clearing_price : Reserves \cup Amounts \cup {0},
      winning_bid    : Amounts,
      sold           : BOOLEAN ]

\* An entry that is absent differs from every entry.
ASSUME EntryAssumption == NONE \notin Bid /\ NONE \notin AuctionRecord /\ NONE \notin Settlement

Created(l) == auctions[l] # NONE
Settled(l) == settlements[l] # NONE

\* Every auction is in the discovery index once, and only auctions are settled.
AuctionTypeOK ==
    /\ clock \in 0 .. Horizon
    /\ auctions \in [Lots -> AuctionRecord \cup {NONE}]
    /\ settlements \in [Lots -> Settlement \cup {NONE}]
    /\ IsInjective(auction_names)
    /\ Range(auction_names) = {l \in Lots : Created(l)}
    /\ auction_admin \in AuctionAdmins \cup {NONE}
    /\ balance \in [Assets -> [Accounts \cup {AUCTION} -> Nat]]

AuctionInit ==
    /\ clock = 0
    /\ auctions = [l \in Lots |-> NONE]
    /\ settlements = [l \in Lots |-> NONE]
    /\ auction_names = <<>>
    /\ auction_admin = NONE
    /\ balance = [a \in Assets |-> [p \in Accounts \cup {AUCTION} |->
                    IF p \in Bidders THEN Funds ELSE 0]]

CallerTimes == {t \in 0 .. Horizon : t <= clock + Skew /\ clock <= t + Skew}

is_time_window_open(now_unix, starts_at, ends_at) ==
    starts_at <= now_unix /\ now_unix <= ends_at

-----------------------------------------------------------------------------
(* The result of an auction. *)

\* Faulty variant: a bid below the highest never becomes the second highest.
rank_bid_highest_only(rank, bid) ==
    IF rank.highest = NONE \/ bid.amount > rank.highest.amount
    THEN [ highest |-> bid,
           second_highest |-> IF rank.highest = NONE THEN 0 ELSE rank.highest.amount ]
    ELSE rank

\* One turn of the loop of settle_vickrey.
rank_bid(rank, bid) ==
    IF rank.highest = NONE \/ bid.amount > rank.highest.amount
    THEN [ highest |-> bid,
           second_highest |-> IF rank.highest = NONE THEN 0 ELSE rank.highest.amount ]
    ELSE [ rank EXCEPT !.second_highest = IF bid.amount > @ THEN bid.amount ELSE @ ]

\* The ranking after each number of turns.
ranking(bids) ==
    LET rank[i \in 0 .. Len(bids)] ==
            IF i = 0 THEN [highest |-> NONE, second_highest |-> 0]
            ELSE rank_bid(rank[i - 1], bids[i])
    IN  rank

settle_vickrey(auction) ==
    LET rank == ranking(auction.bids)[Len(auction.bids)]
        sold == rank.highest.amount >= auction.reserve_price
    IN  [ winner         |-> IF sold THEN rank.highest.bidder ELSE NONE,
          clearing_price |-> IF ~sold THEN 0
                             ELSE IF rank.second_highest > auction.reserve_price
                                  THEN rank.second_highest ELSE auction.reserve_price,
          winning_bid    |-> rank.highest.amount,
          sold           |-> sold ]

\* Faulty variant: every bid of the winner with the winning amount pays.
pays_clearing_price_again(bids, result, i) ==
    /\ result.sold
    /\ bids[i].bidder = result.winner
    /\ bids[i].amount = result.winning_bid

\* The first bid of the winner with the winning amount pays the clearing price.
pays_clearing_price(bids, result, i) ==
    /\ result.sold
    /\ bids[i].bidder = result.winner
    /\ bids[i].amount = result.winning_bid
    /\ \A j \in 1 .. i - 1 :
        ~(bids[j].bidder = result.winner /\ bids[j].amount = result.winning_bid)

\* Faulty variant: the winner is not charged.
refund_gross(bids, result, i) == bids[i].amount

\* What the contract transfers on account of bid i: to its bidder, to the treasury.
refund(bids, result, i) ==
    IF ~pays_clearing_price(bids, result, i) THEN bids[i].amount
    ELSE IF bids[i].amount > result.clearing_price
         THEN bids[i].amount - result.clearing_price ELSE 0

proceeds(bids, result, i) ==
    IF pays_clearing_price(bids, result, i) THEN result.clearing_price ELSE 0

total(amount, S) == SumFunctionOnSet(amount, S)

-----------------------------------------------------------------------------
(* Entrypoints. *)

Initialize(a) ==
    /\ auction_admin = NONE
    /\ auction_admin' = a
    /\ UNCHANGED << clock, auctions, settlements, auction_names, balance >>

\* Faulty variant: a settled auction may be replaced by a new one.
never_auctioned_unsettled(l) == Created(l) => Settled(l)

\* One auction per name, ever.
never_auctioned(l) == ~Created(l)

CreateAuction(l, asset, treasury, reserve_price, starts_at, ends_at) ==
    /\ auction_admin # NONE
    /\ never_auctioned(l)
    /\ auctions' = [auctions EXCEPT ![l] =
          [ reserve_price |-> reserve_price, starts_at |-> starts_at, ends_at |-> ends_at,
            bids |-> <<>>, asset |-> asset, treasury |-> treasury ]]
    /\ auction_names' = Append(auction_names, l)
    /\ UNCHANGED << clock, settlements, auction_admin, balance >>

\* token.transfer of a bid into escrow.
escrow(asset, bidder, amount) ==
    /\ balance[asset][bidder] >= amount
    /\ balance' = [balance EXCEPT ![asset][bidder] = @ - amount,
                                  ![asset][AUCTION] = @ + amount]

\* Faulty variant: settled auctions still take bids.
accepts_bids_late(l, now_unix) ==
    /\ Created(l)
    /\ is_time_window_open(now_unix, auctions[l].starts_at, auctions[l].ends_at)

accepts_bids(l, now_unix) ==
    /\ Created(l)
    /\ ~Settled(l)
    /\ is_time_window_open(now_unix, auctions[l].starts_at, auctions[l].ends_at)

\* MaxBids bounds the instance; the code has no limit.
PlaceBid(l, bidder, amount, now_unix) ==
    /\ amount > 0
    /\ accepts_bids(l, now_unix)
    /\ Len(auctions[l].bids) < MaxBids
    /\ escrow(auctions[l].asset, bidder, amount)
    /\ auctions' = [auctions EXCEPT ![l].bids =
                        Append(@, [bidder |-> bidder, amount |-> amount])]
    /\ UNCHANGED << clock, settlements, auction_names, auction_admin >>

\* An auction without bids is left as it is.  The transfers come bid by bid out
\* of the contract's balance, which must cover all of them.
Settle(l, now_unix) ==
    LET bids    == auctions[l].bids
        result  == settle_vickrey(auctions[l])
        asset   == auctions[l].asset
        refunds == [i \in DOMAIN bids |-> refund(bids, result, i)]
        due(p)  == total(refunds, {i \in DOMAIN bids : bids[i].bidder = p})
        income  == total([i \in DOMAIN bids |-> proceeds(bids, result, i)], DOMAIN bids)
        out     == total(refunds, DOMAIN bids) + income
    IN  /\ Created(l)
        /\ ~Settled(l)
        /\ now_unix >= auctions[l].ends_at
        /\ bids # <<>>
        /\ balance[asset][AUCTION] >= out
        /\ settlements' = [settlements EXCEPT ![l] = result]
        /\ balance' = [balance EXCEPT ![asset] =
              [p \in Accounts \cup {AUCTION} |->
                  IF p = AUCTION THEN @[p] - out
                  ELSE @[p] + due(p) + (IF p = auctions[l].treasury THEN income ELSE 0)]]
        /\ UNCHANGED << clock, auctions, auction_names, auction_admin >>

AdvanceClock ==
    /\ clock < Horizon
    /\ clock' = clock + 1
    /\ UNCHANGED << auctions, settlements, auction_names, auction_admin, balance >>

AuctionNext ==
    \/ AdvanceClock
    \/ \E a \in AuctionAdmins : Initialize(a)
    \/ \E l \in Lots, now_unix \in CallerTimes :
        \/ Settle(l, now_unix)
        \/ \E b \in Bidders, amount \in Amounts : PlaceBid(l, b, amount, now_unix)
    \/ \E l \in Lots, a \in Assets, t \in Treasuries, r \in Reserves, w \in Windows :
        CreateAuction(l, a, t, r, w[1], w[2])

AuctionSpec == AuctionInit /\ [][AuctionNext]_auctionVars

-----------------------------------------------------------------------------
(* Listings. *)

is_open(l, now_unix) ==
    /\ ~Settled(l)
    /\ is_time_window_open(now_unix, auctions[l].starts_at, auctions[l].ends_at)

\* list_auctions: offset counts from 0.
slice_index(offset, limit) ==
    SubSeq(auction_names, offset + 1,
           Min({offset + Min({limit, MaxPageSize}), Len(auction_names)}))

\* Faulty variant: names that are not kept count towards the offset.
look_at_all(page, l, offset, capped, kept) ==
    IF page.full THEN page
    ELSE LET emitted == IF l \in kept /\ page.matched >= offset /\ Len(page.emitted) < capped
                        THEN Append(page.emitted, l) ELSE page.emitted
         IN  [ matched |-> page.matched + 1, emitted |-> emitted, full |-> Len(emitted) >= capped ]

\* One turn of the loop of filter_index, which breaks when the page is full.
look_at(page, l, offset, capped, kept) ==
    IF page.full \/ l \notin kept THEN page
    ELSE LET emitted == IF page.matched >= offset /\ Len(page.emitted) < capped
                        THEN Append(page.emitted, l) ELSE page.emitted
         IN  [ matched |-> page.matched + 1, emitted |-> emitted, full |-> Len(emitted) >= capped ]

\* The page after each number of turns.
scanned(offset, capped, kept) ==
    LET page[i \in 0 .. Len(auction_names)] ==
            IF i = 0 THEN [matched |-> 0, emitted |-> <<>>, full |-> FALSE]
            ELSE look_at(page[i - 1], auction_names[i], offset, capped, kept)
    IN  page

\* list_active_auctions, list_settled_auctions: one pass that counts the names
\* kept.
filter_index(offset, limit, kept) ==
    scanned(offset, Min({limit, MaxPageSize}), kept)[Len(auction_names)].emitted

-----------------------------------------------------------------------------
(* Safety. *)

\* What some bidders bid in an auction.
escrowed(l, bidders) ==
    LET bids == auctions[l].bids
    IN  total([i \in DOMAIN bids |-> bids[i].amount],
              {i \in DOMAIN bids : bids[i].bidder \in bidders})

LotsIn(a) == {l \in Lots : Created(l) /\ auctions[l].asset = a}
OpenIn(a) == {l \in LotsIn(a) : ~Settled(l)}
ClosedIn(a) == {l \in LotsIn(a) : Settled(l)}

\* Money is neither lost nor made: what an account has is what it had, less its
\* bids in auctions not settled yet, less the clearing prices of what it won,
\* plus the clearing prices paid to it; the contract holds the unsettled bids,
\* although auctions in one asset share its balance.
FundsAccounted ==
    \A a \in Assets :
        LET pending(bidders) == total([l \in Lots |-> escrowed(l, bidders)], OpenIn(a))
            price(S)         == total([l \in Lots |-> settlements[l].clearing_price], S)
        IN  /\ balance[a][AUCTION] = pending(Bidders)
            /\ \A p \in Accounts :
                  balance[a][p] + pending({p})
                      + price({l \in ClosedIn(a) : settlements[l].winner = p})
                = (IF p \in Bidders THEN Funds ELSE 0)
                      + price({l \in ClosedIn(a) : auctions[l].treasury = p})

\* The settlement is that of a second-price auction with a reserve: the earliest
\* of the highest bids wins and pays the second highest of the bids or the
\* reserve, whichever is higher, and nothing is sold below the reserve.
SettlementFair ==
    \A l \in {l \in Lots : Settled(l)} :
        LET bids   == auctions[l].bids
            top    == CHOOSE i \in DOMAIN bids :
                        \A j \in DOMAIN bids : \/ bids[j].amount < bids[i].amount
                                               \/ bids[j].amount = bids[i].amount /\ i <= j
            others == {bids[j].amount : j \in DOMAIN bids \ {top}}
            price  == Max(others \cup {auctions[l].reserve_price})
        IN  settlements[l] =
              IF bids[top].amount < auctions[l].reserve_price
              THEN [ winner |-> NONE, clearing_price |-> 0,
                     winning_bid |-> bids[top].amount, sold |-> FALSE ]
              ELSE [ winner |-> bids[top].bidder, clearing_price |-> price,
                     winning_bid |-> bids[top].amount, sold |-> TRUE ]

\* The record of an auction is final: bids are only ever appended, none arrives
\* after settlement even when bidder and settler disagree about the time, and a
\* settlement is never replaced.
RecordFinal ==
    [][\A l \in Lots : Created(l) =>
        /\ IsPrefix(auctions[l].bids, auctions'[l].bids)
        /\ Settled(l) => settlements'[l] = settlements[l] /\ auctions'[l] = auctions[l]
      ]_auctionVars

\* No bid is stuck: an auction with bids whose time is over can be settled, by
\* anyone and whatever the other auctions in its asset did.
EscrowRecoverable ==
    \A l \in Lots :
        /\ Created(l) /\ ~Settled(l)
        /\ auctions[l].bids # <<>>
        /\ clock >= auctions[l].ends_at
        => ENABLED Settle(l, clock)

\* The names on the pages are those that belong there, and what comes earlier on
\* a page or on an earlier one was created earlier.
PagesList(pages, kept) ==
    /\ UNION {Range(pages[k]) : k \in DOMAIN pages} = kept
    /\ \A k, m \in DOMAIN pages : \A i \in DOMAIN pages[k], j \in DOMAIN pages[m] :
          k < m \/ (k = m /\ i < j) =>
              \E p, q \in DOMAIN auction_names :
                  p < q /\ auction_names[p] = pages[k][i] /\ auction_names[q] = pages[m][j]

\* Paging through a listing yields every name that belongs in it, once and in
\* creation order, at any page size, the ones above the limit included.
PagesComplete ==
    \A limit \in 1 .. MaxPageSize + 1, now_unix \in CallerTimes :
        LET open      == {l \in Lots : Created(l) /\ is_open(l, now_unix)}
            settled   == {l \in Lots : Settled(l)}
            turns     == 1 .. Len(auction_names) + 1
            offset(k) == Min({limit, MaxPageSize}) * (k - 1)
        IN  /\ PagesList([k \in turns |-> slice_index(offset(k), limit)], {l \in Lots : Created(l)})
            /\ \A kept \in {open, settled} :
                  PagesList([k \in turns |-> filter_index(offset(k), limit, kept)], kept)

=============================================================================
