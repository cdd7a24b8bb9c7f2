---------------------------- MODULE AuctionProofs ----------------------------
(* The auctions, for every value of the constants. *)
EXTENDS Auction, SumProofs

-----------------------------------------------------------------------------
(* The second-price rule. *)

NoRank == [highest |-> NONE, second_highest |-> 0]

\* The loop of settle_vickrey is defined: its turns determine the ranking.
LEMMA RankingTurns ==
    ASSUME NEW bids, Len(bids) \in Nat
    PROVE  /\ ranking(bids)[0] = NoRank
           /\ \A i \in 1 .. Len(bids) : ranking(bids)[i] = rank_bid(ranking(bids)[i - 1], bids[i])
<1> DEFINE Turns(g, n) == g = [i \in 0 .. n |->
                IF i = 0 THEN NoRank ELSE rank_bid(g[i - 1], bids[i])]
           T == {n \in Nat : ~ \E g : Turns(g, n)}
<1>1. T = {}
  <2> SUFFICES ASSUME T # {} PROVE FALSE
    OBVIOUS
  <2>1. PICK n \in T : \A m \in T : n <= m
    BY LeastElement
  <2>2. CASE n = 0
    <3> DEFINE g == [i \in 0 .. 0 |-> NoRank]
    <3>1. Turns(g, 0)
      OBVIOUS
    <3> QED
      BY <2>1, <2>2, <3>1
  <2>3. CASE n # 0
    <3>1. n - 1 \in Nat /\ n - 1 \notin T
      BY <2>1, <2>3
    <3>2. PICK h : Turns(h, n - 1)
      BY <3>1
    <3> DEFINE g == [i \in 0 .. n |-> IF i = n THEN rank_bid(h[n - 1], bids[n]) ELSE h[i]]
    <3>3. \A i \in 0 .. n - 1 : g[i] = h[i]
      BY <3>1
    <3>4. \A i \in 0 .. n - 1 : h[i] = IF i = 0 THEN NoRank ELSE rank_bid(h[i - 1], bids[i])
      BY <3>2
    <3>5. \A i \in 0 .. n : g[i] = IF i = 0 THEN NoRank ELSE rank_bid(g[i - 1], bids[i])
      <4> SUFFICES ASSUME NEW i \in 0 .. n
                   PROVE  g[i] = IF i = 0 THEN NoRank ELSE rank_bid(g[i - 1], bids[i])
        OBVIOUS
      <4>1. CASE i = n
        BY <2>1, <2>3, <3>1, <3>3, <4>1
      <4>2. CASE i = 0
        BY <2>1, <2>3, <3>1, <3>3, <3>4, <4>2
      <4>3. CASE i \in 1 .. n - 1
        <5>1. i - 1 \in 0 .. n - 1
          BY <3>1, <4>3
        <5> QED
          BY <3>1, <3>3, <3>4, <4>3, <5>1
      <4> QED
        BY <2>1, <4>1, <4>2, <4>3
    <3>6. Turns(g, n)
      BY <3>5
    <3> QED
      BY <2>1, <3>6
  <2> QED
    BY <2>2, <2>3
<1>2. \E g : Turns(g, Len(bids))
  BY <1>1
<1>3. ranking(bids) = CHOOSE g : Turns(g, Len(bids))
  BY DEF ranking, NoRank
<1>4. Turns(ranking(bids), Len(bids))
  BY <1>2, <1>3
<1> QED
  BY <1>4

(***************************************************************************)
(* After i turns: t is the earliest of the highest of the first i bids, and *)
(* second is the highest of the others.                                    *)
(***************************************************************************)
EarliestHighest(bids, i, t) ==
    /\ t \in 1 .. i
    /\ \A j \in 1 .. i :
        \/ bids[j].amount < bids[t].amount
        \/ bids[j].amount = bids[t].amount /\ t <= j

HighestOther(bids, i, t, second) ==
    /\ second \in Nat
    /\ \A j \in (1 .. i) \ {t} : bids[j].amount <= second
    /\ second = 0 \/ \E j \in (1 .. i) \ {t} : second = bids[j].amount

Ranked(bids, i) ==
    LET rank == ranking(bids)[i]
    IN  \E t \in 1 .. i :
            /\ EarliestHighest(bids, i, t)
            /\ rank.highest = bids[t]
            /\ HighestOther(bids, i, t, rank.second_highest)
            /\ rank = [highest |-> bids[t], second_highest |-> rank.second_highest]

\* The fields of a bid.
LEMMA BidFields ==
    \A b \in Bid : b.bidder \in Bidders /\ b.amount \in Nat /\ b.amount > 0 /\ b.amount \in Amounts
  BY AuctionAssumption DEF Bid

\* One more turn keeps the ranking right.
LEMMA RankedTurn ==
    ASSUME NEW bids \in Seq(Bid), NEW i \in 1 .. Len(bids), i > 1 => Ranked(bids, i - 1)
    PROVE  Ranked(bids, i)
<1>a. \A j \in 1 .. Len(bids) : bids[j] \in Bid /\ bids[j].amount \in Nat /\ bids[j] # NONE
  <2>1. \A b \in Bid : b.amount \in Nat
    BY BidFields
  <2>2. NONE \notin Bid
    BY EntryAssumption
  <2> QED
    BY <2>1, <2>2
<1>b. Len(bids) \in Nat
  OBVIOUS
<1>c. ranking(bids)[i] = rank_bid(ranking(bids)[i - 1], bids[i])
  BY <1>b, RankingTurns
<1>1. CASE i = 1
  <2>1. ranking(bids)[0] = NoRank
    BY <1>b, RankingTurns
  <2>2. ranking(bids)[1] = [highest |-> bids[1], second_highest |-> 0]
    BY <1>1, <1>c, <2>1 DEF rank_bid, NoRank
  <2>3. EarliestHighest(bids, 1, 1) /\ HighestOther(bids, 1, 1, 0)
    BY <1>a, <1>1 DEF EarliestHighest, HighestOther
  <2> QED
    BY <1>1, <2>2, <2>3 DEF Ranked
<1>2. CASE i > 1
  <2> DEFINE old == ranking(bids)[i - 1]
             bid == bids[i]
  <2>1. PICK t \in 1 .. i - 1 :
            /\ EarliestHighest(bids, i - 1, t)
            /\ old.highest = bids[t]
            /\ HighestOther(bids, i - 1, t, old.second_highest)
            /\ old = [highest |-> bids[t], second_highest |-> old.second_highest]
    BY <1>2 DEF Ranked
  <2>2. t \in 1 .. Len(bids) /\ bids[t].amount \in Nat /\ bids[t] # NONE /\ bid.amount \in Nat
    BY <1>a, <2>1
  <2>3. old.second_highest \in Nat
    BY <2>1 DEF HighestOther
  <2>4. CASE bid.amount > bids[t].amount
    <3>1. ranking(bids)[i] = [highest |-> bid, second_highest |-> bids[t].amount]
      BY <1>c, <2>1, <2>2, <2>4 DEF rank_bid
    <3>2. EarliestHighest(bids, i, i)
      BY <1>a, <2>1, <2>2, <2>4 DEF EarliestHighest
    <3>3. HighestOther(bids, i, i, bids[t].amount)
      <4>1. \A j \in (1 .. i) \ {i} : bids[j].amount <= bids[t].amount
        BY <1>a, <2>1, <2>2 DEF EarliestHighest
      <4>2. t \in (1 .. i) \ {i}
        BY <2>1
      <4> QED
        BY <2>2, <4>1, <4>2 DEF HighestOther
    <3> QED
      BY <3>1, <3>2, <3>3 DEF Ranked
  <2>5. CASE ~(bid.amount > bids[t].amount)
    <3> DEFINE second == IF bid.amount > old.second_highest THEN bid.amount ELSE old.second_highest
    <3>1. ranking(bids)[i] = [highest |-> bids[t], second_highest |-> second]
      BY <1>c, <2>1, <2>2, <2>5 DEF rank_bid
    <3>2. EarliestHighest(bids, i, t)
      BY <1>a, <2>1, <2>2, <2>5 DEF EarliestHighest
    <3>3. HighestOther(bids, i, t, second)
      <4>1. second \in Nat /\ second >= bid.amount /\ second >= old.second_highest
        BY <2>2, <2>3
      <4>2. \A j \in (1 .. i) \ {t} : j = i \/ j \in (1 .. i - 1) \ {t}
        OBVIOUS
      <4>3. \A j \in (1 .. i) \ {t} : bids[j].amount <= second
        BY <1>a, <2>1, <2>3, <4>1, <4>2 DEF HighestOther
      <4>4. second = bid.amount \/ second = old.second_highest
        OBVIOUS
      <4>5. second = 0 \/ \E j \in (1 .. i) \ {t} : second = bids[j].amount
        <5>1. i \in (1 .. i) \ {t} /\ (1 .. i - 1) \ {t} \subseteq (1 .. i) \ {t}
          BY <2>1
        <5> QED
          BY <2>1, <4>4, <5>1 DEF HighestOther
      <4> QED
        BY <4>1, <4>3, <4>5 DEF HighestOther
    <3> QED
      BY <2>1, <3>1, <3>2, <3>3 DEF Ranked
  <2> QED
    BY <2>4, <2>5
<1> QED
  BY <1>1, <1>2

\* The loop ranks every sequence of bids that is not empty.
LEMMA RankingIsRight ==
    ASSUME NEW bids \in Seq(Bid), bids # << >>
    PROVE  Ranked(bids, Len(bids))
<1> DEFINE T == {i \in Nat : i \in 1 .. Len(bids) /\ ~Ranked(bids, i)}
<1>1. T = {}
  <2> SUFFICES ASSUME T # {} PROVE FALSE
    OBVIOUS
  <2>1. PICK i \in T : \A j \in T : i <= j
    BY LeastElement
  <2>2. i > 1 => Ranked(bids, i - 1)
    BY <2>1
  <2> QED
    BY <2>1, <2>2, RankedTurn
<1>2. Len(bids) \in 1 .. Len(bids)
  OBVIOUS
<1> QED
  BY <1>1, <1>2

\* What a second-price auction with a reserve yields: the settlement that
\* SettlementFair demands.
second_price(auction) ==
    LET bids   == auction.bids
        top    == CHOOSE i \in DOMAIN bids :
                    \A j \in DOMAIN bids :
                        \/ bids[j].amount < bids[i].amount
                        \/ bids[j].amount = bids[i].amount /\ i <= j
        others == {bids[j].amount : j \in DOMAIN bids \ {top}}
        price  == Max(others \cup {auction.reserve_price})
    IN  IF bids[top].amount < auction.reserve_price
        THEN [ winner |-> NONE, clearing_price |-> 0,
               winning_bid |-> bids[top].amount, sold |-> FALSE ]
        ELSE [ winner |-> bids[top].bidder, clearing_price |-> price,
               winning_bid |-> bids[top].amount, sold |-> TRUE ]

\* settle_vickrey computes it.
LEMMA VickreyIsSecondPrice ==
    ASSUME NEW auction, auction.bids \in Seq(Bid), auction.bids # << >>,
           auction.reserve_price \in Nat
    PROVE  settle_vickrey(auction) = second_price(auction)
<1> DEFINE bids == auction.bids
           reserve == auction.reserve_price
           n == Len(bids)
           rank == ranking(bids)[n]
           top == CHOOSE i \in DOMAIN bids :
                    \A j \in DOMAIN bids :
                        \/ bids[j].amount < bids[i].amount
                        \/ bids[j].amount = bids[i].amount /\ i <= j
           others == {bids[j].amount : j \in DOMAIN bids \ {top}}
           second == rank.second_highest
<1>1. n \in Nat /\ DOMAIN bids = 1 .. n
  OBVIOUS
<1>2. \A j \in 1 .. n : bids[j].amount \in Nat
  BY <1>1, BidFields
<1>3. PICK t \in 1 .. n : /\ EarliestHighest(bids, n, t)
                         /\ rank.highest = bids[t]
                         /\ HighestOther(bids, n, t, second)
  BY RankingIsRight DEF Ranked
<1>4. top = t
  <2> DEFINE Top(i) ==
                \A j \in DOMAIN bids :
                    \/ bids[j].amount < bids[i].amount
                    \/ bids[j].amount = bids[i].amount /\ i <= j
  <2>1. t \in DOMAIN bids /\ Top(t)
    BY <1>1, <1>3 DEF EarliestHighest
  <2>2. ASSUME NEW i \in DOMAIN bids, Top(i)
        PROVE  i = t
    <3>1. \/ bids[t].amount < bids[i].amount
          \/ bids[t].amount = bids[i].amount /\ i <= t
      BY <2>1, <2>2
    <3>2. \/ bids[i].amount < bids[t].amount
          \/ bids[i].amount = bids[t].amount /\ t <= i
      BY <2>1, <2>2
    <3>3. bids[i].amount \in Nat /\ bids[t].amount \in Nat /\ i \in Nat /\ t \in Nat
      BY <1>1, <1>2, <2>2
    <3> QED
      BY <3>1, <3>2, <3>3
  <2> QED
    BY <2>1, <2>2
<1> DEFINE Other == {bids[j].amount : j \in (1 .. n) \ {t}}
<1>5. others = Other
  BY <1>1, <1>4
<1>6. Max(Other \cup {reserve}) = IF second > reserve THEN second ELSE reserve
  <2>1. \A x \in Other : x \in Nat /\ x <= second
    BY <1>2, <1>3 DEF HighestOther
  <2>2. second \in Nat /\ (second = 0 \/ second \in Other)
    BY <1>3 DEF HighestOther
  <2> DEFINE m == IF second > reserve THEN second ELSE reserve
  <2>3. m \in Other \cup {reserve} /\ \A y \in Other \cup {reserve} : m >= y
    <3> HIDE DEF Other, second, reserve
    <3>1. reserve \in Nat
      BY DEF reserve
    <3>2. CASE second > reserve
      BY <2>1, <2>2, <3>1, <3>2
    <3>3. CASE ~(second > reserve)
      BY <2>1, <2>2, <3>1, <3>3
    <3> QED
      BY <3>2, <3>3
  <2>4. \A x \in Other \cup {reserve} :
            (\A y \in Other \cup {reserve} : x >= y) => x = m
    <3> SUFFICES ASSUME NEW x \in Other \cup {reserve}, \A y \in Other \cup {reserve} : x >= y
                 PROVE  x = m
      OBVIOUS
    <3>1. x >= m /\ m >= x
      BY <2>3
    <3>2. x \in Nat /\ m \in Nat
      BY <2>1, <2>2
    <3> HIDE DEF m
    <3> QED
      BY <3>1, <3>2
  <2> QED
    BY <2>3, <2>4 DEF Max
<1>7. rank.highest.amount = bids[t].amount /\ rank.highest.bidder = bids[t].bidder
  BY <1>3
<1>8. settle_vickrey(auction) =
        [ winner         |-> IF bids[t].amount >= reserve THEN bids[t].bidder ELSE NONE,
          clearing_price |-> IF ~(bids[t].amount >= reserve) THEN 0
                             ELSE IF second > reserve THEN second ELSE reserve,
          winning_bid    |-> bids[t].amount,
          sold           |-> bids[t].amount >= reserve ]
  BY <1>7 DEF settle_vickrey
<1>9. second_price(auction) =
        IF bids[t].amount < reserve
        THEN [ winner |-> NONE, clearing_price |-> 0,
               winning_bid |-> bids[t].amount, sold |-> FALSE ]
        ELSE [ winner |-> bids[t].bidder,
               clearing_price |-> IF second > reserve THEN second ELSE reserve,
               winning_bid |-> bids[t].amount, sold |-> TRUE ]
  BY <1>4, <1>5, <1>6 DEF second_price
<1>10. (bids[t].amount >= reserve) = ~(bids[t].amount < reserve)
  BY <1>2, <1>3
<1>11. CASE bids[t].amount < reserve
  BY <1>8, <1>9, <1>10, <1>11
<1>12. CASE ~(bids[t].amount < reserve)
  BY <1>8, <1>9, <1>10, <1>12
<1> QED
  BY <1>11, <1>12

\* What the settlement promises: it is a settlement, a sale is at most at the
\* winning bid, which the winner made, and without a sale there is no winner and no price.
LEMMA VickreyBounds ==
    ASSUME NEW auction, auction.bids \in Seq(Bid), auction.bids # << >>,
           auction.reserve_price \in Reserves
    PROVE  LET result == settle_vickrey(auction)
               bids   == auction.bids
           IN  /\ result \in Settlement
               /\ result.clearing_price \in Nat
               /\ result.sold => /\ result.clearing_price <= result.winning_bid
                                 /\ \E t \in DOMAIN bids : /\ bids[t].bidder = result.winner
                                                          /\ bids[t].amount = result.winning_bid
               /\ ~result.sold => result.winner = NONE /\ result.clearing_price = 0
<1> DEFINE bids == auction.bids
           reserve == auction.reserve_price
           n == Len(bids)
           rank == ranking(bids)[n]
           second == rank.second_highest
           result == settle_vickrey(auction)
<1>1. n \in Nat /\ DOMAIN bids = 1 .. n
  OBVIOUS
<1>2. PICK t \in 1 .. n : /\ EarliestHighest(bids, n, t)
                         /\ rank.highest = bids[t]
                         /\ HighestOther(bids, n, t, second)
  BY RankingIsRight DEF Ranked
<1>3. \A j \in 1 .. n : /\ bids[j].bidder \in Bidders
                         /\ bids[j].amount \in Nat
                         /\ bids[j].amount \in Amounts
  BY <1>1, BidFields
<1>4. second \in Nat /\ second \in Amounts \cup {0} /\ second <= bids[t].amount
  BY <1>2, <1>3 DEF HighestOther, EarliestHighest
<1>5. reserve \in Nat
  BY AuctionAssumption
<1> DEFINE sold == bids[t].amount >= reserve
<1>6. result =
        [ winner         |-> IF sold THEN bids[t].bidder ELSE NONE,
          clearing_price |-> IF ~sold THEN 0
                             ELSE IF second > reserve THEN second ELSE reserve,
          winning_bid    |-> bids[t].amount,
          sold           |-> sold ]
  BY <1>2 DEF settle_vickrey
<1> HIDE DEF result, rank, second, bids, n
<1>7. CASE sold
  <2>1. result = [ winner         |-> bids[t].bidder,
                   clearing_price |-> IF second > reserve THEN second ELSE reserve,
                   winning_bid    |-> bids[t].amount,
                   sold           |-> TRUE ]
    BY <1>6, <1>7
  <2>2. (IF second > reserve THEN second ELSE reserve) \in Nat
    BY <1>4, <1>5
  <2>3. (IF second > reserve THEN second ELSE reserve) \in Reserves \cup Amounts \cup {0}
    BY <1>4 DEF reserve
  <2>4. (IF second > reserve THEN second ELSE reserve) <= bids[t].amount
    BY <1>3, <1>4, <1>5, <1>7
  <2>5. result \in Settlement
    BY <1>3, <2>1, <2>3 DEF Settlement
  <2> QED
    BY <1>1, <2>1, <2>2, <2>4, <2>5 DEF result, bids
<1>8. CASE ~sold
  <2>1. sold = FALSE
    BY <1>8
  <2>2. result = [ winner |-> NONE, clearing_price |-> 0,
                   winning_bid |-> bids[t].amount, sold |-> FALSE ]
    <3> HIDE DEF sold
    <3> QED
      BY <1>6, <2>1
  <2>3. result \in Settlement
    BY <1>3, <2>2 DEF Settlement
  <2> QED
    BY <2>2, <2>3 DEF result, bids
<1> QED
  BY <1>7, <1>8

-----------------------------------------------------------------------------
(* The transfers. *)

\* The amounts of bids, what each refunds and what each pays, as Settle adds them up.
amounts_of(bids) == [i \in DOMAIN bids |-> bids[i].amount]
refunds_of(bids, result) == [i \in DOMAIN bids |-> refund(bids, result, i)]
proceeds_of(bids, result) == [i \in DOMAIN bids |-> proceeds(bids, result, i)]
bids_of(bids, p) == {i \in DOMAIN bids : bids[i].bidder = p}

\* The price is paid out of one bid if the name is sold, and out of none otherwise.
LEMMA OneBidPays ==
    ASSUME NEW auction, auction.bids \in Seq(Bid), auction.bids # << >>,
           auction.reserve_price \in Reserves
    PROVE  LET result == settle_vickrey(auction)
               bids   == auction.bids
           IN  \/ /\ result.sold
                  /\ \E t \in DOMAIN bids :
                        /\ pays_clearing_price(bids, result, t)
                        /\ \A i \in DOMAIN bids \ {t} : ~pays_clearing_price(bids, result, i)
                        /\ bids[t].bidder = result.winner
               \/ /\ ~result.sold
                  /\ \A i \in DOMAIN bids : ~pays_clearing_price(bids, result, i)
<1> DEFINE result == settle_vickrey(auction)
           bids   == auction.bids
           Winning(i) == bids[i].bidder = result.winner /\ bids[i].amount = result.winning_bid
           T == {i \in DOMAIN bids : Winning(i)}
<1>1. DOMAIN bids = 1 .. Len(bids) /\ Len(bids) \in Nat
  OBVIOUS
<1>2. \A i : pays_clearing_price(bids, result, i) <=>
                result.sold /\ Winning(i) /\ \A j \in 1 .. i - 1 : ~Winning(j)
  BY DEF pays_clearing_price
<1>3. CASE ~result.sold
  BY <1>2, <1>3
<1>4. CASE result.sold
  <2>1. T # {} /\ T \subseteq Nat
    BY <1>1, <1>4, VickreyBounds
  <2>2. PICK t \in T : \A i \in T : t <= i
    BY <2>1, LeastElement
  <2>3. t \in DOMAIN bids /\ Winning(t) /\ \A j \in 1 .. t - 1 : ~Winning(j)
    BY <1>1, <2>2
  <2>4. \A i \in DOMAIN bids \ {t} : Winning(i) => t \in 1 .. i - 1
    BY <1>1, <2>2
  <2> HIDE DEF Winning, T, result, bids
  <2>5. pays_clearing_price(bids, result, t)
    BY <1>2, <1>4, <2>3
  <2>6. \A i \in DOMAIN bids \ {t} : ~pays_clearing_price(bids, result, i)
    BY <1>2, <2>3, <2>4
  <2>7. bids[t].bidder = result.winner
    BY <2>3 DEF Winning
  <2> QED
    BY <1>4, <2>3, <2>5, <2>6, <2>7 DEF result, bids
<1> QED
  BY <1>3, <1>4

\* Every bid is refunded but for what it pays.
LEMMA RefundsAndProceeds ==
    ASSUME NEW auction, auction.bids \in Seq(Bid), auction.bids # << >>,
           auction.reserve_price \in Reserves
    PROVE  LET result == settle_vickrey(auction)
               bids   == auction.bids
           IN  \A i \in DOMAIN bids :
                    /\ amounts_of(bids)[i] \in Nat
                    /\ refunds_of(bids, result)[i] \in Nat
                    /\ proceeds_of(bids, result)[i] \in Nat
                    /\ amounts_of(bids)[i] = refunds_of(bids, result)[i] + proceeds_of(bids, result)[i]
<1> DEFINE result == settle_vickrey(auction)
           bids   == auction.bids
           price  == result.clearing_price
<1> SUFFICES ASSUME NEW i \in DOMAIN bids
             PROVE  /\ bids[i].amount \in Nat
                    /\ refund(bids, result, i) \in Nat
                    /\ proceeds(bids, result, i) \in Nat
                    /\ bids[i].amount = refund(bids, result, i) + proceeds(bids, result, i)
  BY DEF amounts_of, refunds_of, proceeds_of
<1>1. bids[i].amount \in Nat
  BY BidFields
<1>2. price \in Nat
  BY VickreyBounds
<1>3. CASE pays_clearing_price(bids, result, i)
  <2>1. price <= bids[i].amount
    BY <1>3, VickreyBounds DEF pays_clearing_price
  <2> HIDE DEF result, bids
  <2> QED
    BY <1>1, <1>2, <1>3, <2>1 DEF refund, proceeds, price
<1>4. CASE ~pays_clearing_price(bids, result, i)
  BY <1>1, <1>4 DEF refund, proceeds
<1> QED
  BY <1>3, <1>4

\* What a bidder pays: the price if it is the winner.
paid(result, p) == IF result.winner = p THEN result.clearing_price ELSE 0

\* The transfers of a settlement, over all bids and over those of each account.
LEMMA SettlementPays ==
    ASSUME NEW auction, auction.bids \in Seq(Bid), auction.bids # << >>,
           auction.reserve_price \in Reserves
    PROVE  LET result == settle_vickrey(auction)
               bids   == auction.bids
               price  == result.clearing_price
           IN  /\ total(proceeds_of(bids, result), DOMAIN bids) = price
               /\ total(amounts_of(bids), DOMAIN bids)
                    = total(refunds_of(bids, result), DOMAIN bids) + price
               /\ total(refunds_of(bids, result), DOMAIN bids) \in Nat
               /\ \A p \in Accounts :
                    /\ total(refunds_of(bids, result), bids_of(bids, p)) \in Nat
                    /\ total(amounts_of(bids), bids_of(bids, p))
                         = total(refunds_of(bids, result), bids_of(bids, p)) + paid(result, p)
<1> DEFINE result == settle_vickrey(auction)
           bids   == auction.bids
           price  == result.clearing_price
           A == amounts_of(bids)
           R == refunds_of(bids, result)
           P == proceeds_of(bids, result)
           D == DOMAIN bids
<1>1. IsFiniteSet(D) /\ \A T \in SUBSET D : IsFiniteSet(T)
  <2>1. D = 1 .. Len(bids) /\ Len(bids) \in Nat
    OBVIOUS
  <2>2. IsFiniteSet(D)
    <3> HIDE DEF D, bids
    <3> QED
      BY <2>1, FS_Interval
  <2> QED
    BY <2>2, FS_Subset
<1>2. \A i \in D : A[i] \in Nat /\ R[i] \in Nat /\ P[i] \in Nat /\ A[i] = R[i] + P[i]
  BY RefundsAndProceeds
<1>3. \A T \in SUBSET D : /\ SumFunctionOnSet(A, T) = SumFunctionOnSet(R, T) + SumFunctionOnSet(P, T)
                          /\ SumFunctionOnSet(R, T) \in Nat
  <2> HIDE DEF A, R, P, D
  <2> QED
    BY <1>1, <1>2, SumPlus, SumNat
<1>4. price \in Nat /\ (~result.sold => result.winner = NONE /\ price = 0)
  BY VickreyBounds
<1>5. \A i \in D : P[i] = IF pays_clearing_price(bids, result, i) THEN price ELSE 0
  BY DEF proceeds_of, proceeds
<1>6. SumFunctionOnSet(P, D) = price /\ \A p \in Accounts :
            SumFunctionOnSet(P, bids_of(bids, p)) = paid(result, p)
  <2>1. \A p : bids_of(bids, p) \in SUBSET D
    BY DEF bids_of
  <2>2. CASE ~result.sold
    <3>1. \A i \in D : P[i] = 0
      BY <1>4, <1>5, <2>2
    <3>2. \A T \in SUBSET D : SumFunctionOnSet(P, T) = 0
      <4> HIDE DEF P, D
      <4> QED
        BY <1>1, <3>1, SumZero
    <3>3. \A p \in Accounts : paid(result, p) = 0
      BY <1>4, <2>2, AuctionAssumption DEF paid
    <3> QED
      BY <1>4, <2>1, <2>2, <3>2, <3>3
  <2>3. CASE result.sold
    <3>1. PICK t \in D : /\ pays_clearing_price(bids, result, t)
                         /\ \A i \in D \ {t} : ~pays_clearing_price(bids, result, i)
                         /\ bids[t].bidder = result.winner
      BY <2>3, OneBidPays
    <3>2. P[t] = price /\ \A i \in D \ {t} : P[i] = 0
      BY <1>5, <3>1
    <3>3. \A T \in SUBSET D : t \in T => SumFunctionOnSet(P, T) = price
      <4>1. P[t] \in Nat
        BY <1>4, <3>2
      <4> HIDE DEF P, D
      <4> SUFFICES ASSUME NEW T \in SUBSET D, t \in T
                   PROVE  SumFunctionOnSet(P, T) = P[t]
        BY <3>2
      <4>2. IsFiniteSet(T) /\ \A i \in T \ {t} : P[i] = 0
        BY <1>1, <3>2
      <4> QED
        BY <4>1, <4>2, SumOnly
    <3>4. \A T \in SUBSET D : t \notin T => SumFunctionOnSet(P, T) = 0
      <4> HIDE DEF P, D
      <4> QED
        BY <1>1, <3>2, SumZero
    <3>5. \A p : t \in bids_of(bids, p) <=> result.winner = p
      BY <3>1 DEF bids_of
    <3> QED
      BY <2>1, <3>3, <3>4, <3>5 DEF paid
  <2> QED
    BY <2>2, <2>3
<1>7. \A p : bids_of(bids, p) \in SUBSET D
  BY DEF bids_of
<1> HIDE DEF A, R, P, D, price, result, bids
<1>8. SumFunctionOnSet(A, D) = SumFunctionOnSet(R, D) + price
  BY <1>3, <1>6
<1>9. \A p \in Accounts :
        /\ SumFunctionOnSet(R, bids_of(bids, p)) \in Nat
        /\ SumFunctionOnSet(A, bids_of(bids, p))
                = SumFunctionOnSet(R, bids_of(bids, p)) + paid(result, p)
  BY <1>3, <1>6, <1>7
<1> QED
  BY <1>3, <1>6, <1>8, <1>9 DEF A, R, P, D, price, result, bids, total

-----------------------------------------------------------------------------
(* The records. *)

\* A bounded sequence of bids is a sequence of bids of bounded length.
LEMMA BoundedBids ==
    /\ \A s \in BoundedSeq(Bid, MaxBids) : s \in Seq(Bid) /\ Len(s) <= MaxBids
    /\ \A s \in Seq(Bid) : Len(s) <= MaxBids => s \in BoundedSeq(Bid, MaxBids)
  BY AuctionAssumption DEF BoundedSeq, SeqOf

\* A settlement is that of the bids in the record, of which there is at least one.
SettledRight ==
    \A l \in Lots : Settled(l) =>
        /\ Created(l)
        /\ auctions[l].bids # << >>
        /\ settlements[l] = settle_vickrey(auctions[l])

\* The names listed are finitely many.
ListedType ==
    /\ auction_names \in Seq(Lots)
    /\ IsFiniteSet({l \in Lots : Created(l)})

AuctionInv == AuctionTypeOK /\ SettledRight /\ ListedType

\* An auction that exists has a record of the right form.
LEMMA RecordFields ==
    ASSUME AuctionInv, NEW l \in Lots, Created(l)
    PROVE  /\ auctions[l] \in AuctionRecord
           /\ auctions[l].bids \in Seq(Bid)
           /\ Len(auctions[l].bids) <= MaxBids
           /\ auctions[l].reserve_price \in Reserves
           /\ auctions[l].asset \in Assets
           /\ auctions[l].treasury \in Treasuries
<1>1. auctions[l] \in AuctionRecord
  BY DEF AuctionInv, AuctionTypeOK, Created
<1>2. /\ auctions[l].bids \in BoundedSeq(Bid, MaxBids)
      /\ auctions[l].reserve_price \in Reserves
      /\ auctions[l].asset \in Assets
      /\ auctions[l].treasury \in Treasuries
  BY <1>1 DEF AuctionRecord
<1> QED
  BY <1>1, <1>2, BoundedBids

\* What Settle does: the settlement of the bids is recorded, the contract loses all
\* of them, and every account gets its refunds, the treasury the price.
LEMMA SettleEffect ==
    ASSUME AuctionInv, NEW l \in Lots, NEW now_unix, Settle(l, now_unix)
    PROVE  LET bids   == auctions[l].bids
               result == settle_vickrey(auctions[l])
               asset  == auctions[l].asset
               all    == total(amounts_of(bids), DOMAIN bids)
           IN  /\ Created(l) /\ ~Settled(l) /\ bids # << >>
               /\ result \in Settlement
               /\ settlements' = [settlements EXCEPT ![l] = result]
               /\ all \in Nat /\ balance[asset][AUCTION] >= all
               /\ balance' = [balance EXCEPT ![asset] =
                    [p \in Accounts \cup {AUCTION} |->
                        IF p = AUCTION THEN balance[asset][p] - all
                        ELSE balance[asset][p]
                                + total(refunds_of(bids, result), bids_of(bids, p))
                                + (IF p = auctions[l].treasury THEN result.clearing_price ELSE 0)]]
               /\ UNCHANGED << clock, auctions, auction_names, auction_admin >>
<1> DEFINE bids   == auctions[l].bids
           result == settle_vickrey(auctions[l])
           asset  == auctions[l].asset
           price  == result.clearing_price
           all    == total(amounts_of(bids), DOMAIN bids)
           out    == total(refunds_of(bids, result), DOMAIN bids)
                        + total(proceeds_of(bids, result), DOMAIN bids)
<1>1. Created(l) /\ ~Settled(l) /\ bids # << >>
  BY DEF Settle
<1>2. bids \in Seq(Bid) /\ auctions[l].reserve_price \in Reserves /\ asset \in Assets
  BY <1>1, RecordFields
<1>3. result \in Settlement /\ price \in Nat
  BY <1>1, <1>2, VickreyBounds
<1>4. /\ total(proceeds_of(bids, result), DOMAIN bids) = price
      /\ all = total(refunds_of(bids, result), DOMAIN bids) + price
      /\ total(refunds_of(bids, result), DOMAIN bids) \in Nat
  BY <1>1, <1>2, SettlementPays
<1>5. out = all /\ all \in Nat
  BY <1>3, <1>4
<1>6. /\ settlements' = [settlements EXCEPT ![l] = result]
      /\ balance[asset][AUCTION] >= out
      /\ UNCHANGED << clock, auctions, auction_names, auction_admin >>
  BY DEF Settle, refunds_of, proceeds_of
<1>7. balance' = [balance EXCEPT ![asset] =
        [p \in Accounts \cup {AUCTION} |->
            IF p = AUCTION THEN balance[asset][p] - out
            ELSE balance[asset][p]
                    + total(refunds_of(bids, result), bids_of(bids, p))
                    + (IF p = auctions[l].treasury
                       THEN total(proceeds_of(bids, result), DOMAIN bids) ELSE 0)]]
  BY <1>2 DEF Settle, refunds_of, proceeds_of, bids_of, AuctionInv, AuctionTypeOK
<1> QED
  BY <1>1, <1>3, <1>4, <1>5, <1>6, <1>7

\* There is nothing at first.
LEMMA AuctionStarts == AuctionInit => AuctionInv
<1> SUFFICES ASSUME AuctionInit PROVE AuctionInv
  OBVIOUS
<1>1. \A l \in Lots : ~Created(l) /\ ~Settled(l)
  BY DEF AuctionInit, Created, Settled
<1>2. auction_names = << >> /\ auction_names \in Seq(Lots)
  BY DEF AuctionInit
<1>3. IsInjective(auction_names) /\ Range(auction_names) = {l \in Lots : Created(l)}
  BY <1>1, <1>2 DEF IsInjective, Range
<1>4. balance \in [Assets -> [Accounts \cup {AUCTION} -> Nat]]
  BY AuctionAssumption DEF AuctionInit
<1>5. clock \in 0 .. Horizon
  BY AuctionAssumption DEF AuctionInit
<1>6. AuctionTypeOK
  BY <1>3, <1>4, <1>5 DEF AuctionInit, AuctionTypeOK
<1>7. {l \in Lots : Created(l)} = {}
  BY <1>1
<1> QED
  BY <1>1, <1>2, <1>6, <1>7, FS_EmptySet DEF AuctionInv, SettledRight, ListedType

\* A new auction has no bids and is not settled; its name joins the index.
LEMMA CreateKeepsInv ==
    ASSUME AuctionInv, NEW l \in Lots, NEW a \in Assets, NEW t \in Treasuries,
           NEW r \in Reserves, NEW w \in Windows, CreateAuction(l, a, t, r, w[1], w[2])
    PROVE  /\ AuctionInv'
           /\ ~Created(l) /\ ~Settled(l)
           /\ auctions'[l] \in AuctionRecord /\ auctions'[l].bids = << >> /\ auctions'[l].asset = a
           /\ \A m \in Lots \ {l} : auctions'[m] = auctions[m]
<1> DEFINE new == [ reserve_price |-> r, starts_at |-> w[1], ends_at |-> w[2],
                    bids |-> << >>, asset |-> a, treasury |-> t ]
<1>1. ~Created(l) /\ ~Settled(l)
  BY DEF CreateAuction, never_auctioned, AuctionInv, SettledRight
<1>2. auctions' = [auctions EXCEPT ![l] = new]
  BY DEF CreateAuction
<1>3. new \in AuctionRecord
  <2>1. << >> \in BoundedSeq(Bid, MaxBids)
    <3>1. << >> \in Seq(Bid) /\ Len(<< >>) = 0
      OBVIOUS
    <3>2. 0 <= MaxBids
      BY AuctionAssumption
    <3> QED
      BY <3>1, <3>2, BoundedBids
  <2>2. w[1] \in 0 .. Horizon /\ w[2] \in 0 .. Horizon
    BY AuctionAssumption
  <2> QED
    BY <2>1, <2>2 DEF AuctionRecord
<1>4. auctions \in [Lots -> AuctionRecord \cup {NONE}]
  BY DEF AuctionInv, AuctionTypeOK
<1>5. /\ auctions' \in [Lots -> AuctionRecord \cup {NONE}]
      /\ auctions'[l] = new
      /\ \A m \in Lots \ {l} : auctions'[m] = auctions[m]
  <2> HIDE DEF new
  <2> QED
    BY <1>2, <1>3, <1>4
<1>6. Created(l)' /\ \A m \in Lots \ {l} : Created(m)' <=> Created(m)
  <2>1. new # NONE
    BY <1>3, EntryAssumption
  <2> QED
    BY <1>5, <2>1 DEF Created
<1>7. /\ settlements' = settlements /\ balance' = balance /\ clock' = clock
      /\ auction_admin' = auction_admin /\ auction_names' = Append(auction_names, l)
  BY DEF CreateAuction
<1>8. \A m \in Lots : Settled(m)' <=> Settled(m)
  BY <1>7 DEF Settled
<1>9. {m \in Lots : Created(m)'} = {m \in Lots : Created(m)} \cup {l}
  BY <1>6
<1>10. IsFiniteSet({m \in Lots : Created(m)})'
  BY <1>9, FS_AddElement DEF AuctionInv, ListedType
<1>11. /\ auction_names' \in Seq(Lots)
       /\ IsInjective(auction_names')
       /\ Range(auction_names') = {m \in Lots : Created(m)'}
  <2>1. /\ auction_names \in Seq(Lots) /\ IsInjective(auction_names)
        /\ Range(auction_names) = {m \in Lots : Created(m)}
    BY DEF AuctionInv, AuctionTypeOK, ListedType
  <2>2. \A i \in DOMAIN auction_names : auction_names[i] # l
    BY <1>1, <2>1 DEF Range
  <2> DEFINE n == Len(auction_names)
  <2>3. /\ auction_names' \in Seq(Lots) /\ n \in Nat /\ DOMAIN auction_names = 1 .. n
        /\ DOMAIN auction_names' = 1 .. n + 1 /\ auction_names'[n + 1] = l
        /\ \A i \in 1 .. n : auction_names'[i] = auction_names[i]
    BY <1>7, <2>1
  <2>4. IsInjective(auction_names')
    <3> HIDE DEF n
    <3> QED
      BY <2>1, <2>2, <2>3 DEF IsInjective
  <2>5. Range(auction_names') = Range(auction_names) \cup {l}
    <3> HIDE DEF n
    <3> QED
      BY <2>3 DEF Range
  <2> QED
    BY <1>9, <2>1, <2>3, <2>4, <2>5
<1>12. AuctionTypeOK'
  BY <1>5, <1>7, <1>11 DEF AuctionInv, AuctionTypeOK
<1>13. SettledRight'
  <2>1. \A m \in Lots : Settled(m)' => m # l /\ Settled(m)
    BY <1>1, <1>8
  <2> QED
    BY <1>5, <1>6, <1>7, <2>1 DEF AuctionInv, SettledRight
<1> QED
  BY <1>1, <1>3, <1>5, <1>10, <1>11, <1>12, <1>13 DEF AuctionInv, ListedType

bid_of(b, amount) == [bidder |-> b, amount |-> amount]

\* A bid is appended to the record of its auction and moved into escrow.
LEMMA BidKeepsInv ==
    ASSUME AuctionInv, NEW l \in Lots, NEW b \in Bidders, NEW amount \in Amounts, NEW now_unix,
           PlaceBid(l, b, amount, now_unix)
    PROVE  /\ AuctionInv'
           /\ Created(l) /\ ~Settled(l) /\ amount \in Nat /\ bid_of(b, amount) \in Bid
           /\ auctions'[l].bids = Append(auctions[l].bids, bid_of(b, amount))
           /\ auctions'[l].asset = auctions[l].asset
           /\ \A m \in Lots \ {l} : auctions'[m] = auctions[m]
           /\ settlements' = settlements
<1> DEFINE bid   == [bidder |-> b, amount |-> amount]
           asset == auctions[l].asset
           new   == [auctions[l] EXCEPT !.bids = Append(auctions[l].bids, bid)]
<1>1. Created(l) /\ ~Settled(l) /\ amount > 0 /\ Len(auctions[l].bids) < MaxBids
  BY DEF PlaceBid, accepts_bids
<1>2. amount \in Nat /\ bid \in Bid
  BY <1>1, AuctionAssumption DEF Bid
<1>3. /\ auctions[l] \in AuctionRecord
      /\ auctions[l].bids \in Seq(Bid)
      /\ asset \in Assets
  BY <1>1, RecordFields
<1>4. new \in AuctionRecord
  <2>1. Append(auctions[l].bids, bid) \in BoundedSeq(Bid, MaxBids)
    <3>1. Append(auctions[l].bids, bid) \in Seq(Bid)
      BY <1>2, <1>3
    <3>2. Len(Append(auctions[l].bids, bid)) <= MaxBids
      <4>1. MaxBids \in Nat
        BY AuctionAssumption
      <4> QED
        BY <1>1, <1>3, <4>1
    <3> QED
      BY <3>1, <3>2, BoundedBids
  <2> QED
    BY <1>3, <2>1 DEF AuctionRecord
<1>5. auctions \in [Lots -> AuctionRecord \cup {NONE}]
  BY DEF AuctionInv, AuctionTypeOK
<1>6. auctions' = [auctions EXCEPT ![l] = new]
  BY <1>5 DEF PlaceBid
<1>7. /\ auctions' \in [Lots -> AuctionRecord \cup {NONE}]
      /\ auctions'[l] = new
      /\ \A m \in Lots \ {l} : auctions'[m] = auctions[m]
  <2> HIDE DEF new
  <2> QED
    BY <1>4, <1>5, <1>6
<1>8. /\ settlements' = settlements /\ clock' = clock /\ auction_names' = auction_names
      /\ auction_admin' = auction_admin
      /\ balance[asset][b] >= amount
      /\ balance' = [balance EXCEPT ![asset][b] = @ - amount, ![asset][AUCTION] = @ + amount]
  BY DEF PlaceBid, escrow
<1>9. \A m \in Lots : (Created(m)' <=> Created(m)) /\ (Settled(m)' <=> Settled(m))
  <2>1. new # NONE
    BY <1>4, EntryAssumption
  <2> QED
    BY <1>1, <1>7, <1>8, <2>1 DEF Created, Settled
<1>10. {m \in Lots : Created(m)'} = {m \in Lots : Created(m)}
  BY <1>9
<1>11. balance' \in [Assets -> [Accounts \cup {AUCTION} -> Nat]]
  <2>1. balance \in [Assets -> [Accounts \cup {AUCTION} -> Nat]]
    BY DEF AuctionInv, AuctionTypeOK
  <2>2. b \in Accounts /\ b # AUCTION
    BY AuctionAssumption DEF Accounts
  <2> DEFINE taken == [balance EXCEPT ![asset][b] = @ - amount]
  <2>3. taken \in [Assets -> [Accounts \cup {AUCTION} -> Nat]]
    <3>1. balance[asset][b] - amount \in Nat
      BY <1>2, <1>3, <1>8, <2>1, <2>2
    <3> QED
      BY <2>1, <2>2, <3>1
  <2>4. balance' = [taken EXCEPT ![asset][AUCTION] = @ + amount]
    <3> HIDE DEF asset
    <3> QED
      BY <1>3, <1>8, <2>1, <2>2
  <2> HIDE DEF taken, asset
  <2>5. taken[asset][AUCTION] + amount \in Nat
    BY <1>2, <1>3, <2>3
  <2> QED
    BY <1>3, <2>3, <2>4, <2>5
<1>12. AuctionTypeOK'
  BY <1>7, <1>8, <1>10, <1>11 DEF AuctionInv, AuctionTypeOK
<1>13. SettledRight'
  <2>1. \A m \in Lots : Settled(m)' => m # l /\ Settled(m)
    BY <1>1, <1>9
  <2> QED
    BY <1>7, <1>8, <1>9, <2>1 DEF AuctionInv, SettledRight
<1>14. ListedType'
  BY <1>8, <1>10 DEF AuctionInv, ListedType
<1>15. new.bids = Append(auctions[l].bids, bid) /\ new.asset = auctions[l].asset
  <2> HIDE DEF bid
  <2> QED
    BY <1>3 DEF AuctionRecord
<1> QED
  BY <1>1, <1>2, <1>7, <1>8, <1>12, <1>13, <1>14, <1>15 DEF AuctionInv, bid_of

\* A settlement is recorded for its auction alone.
LEMMA SettleKeepsInv ==
    ASSUME AuctionInv, NEW l \in Lots, NEW now_unix, Settle(l, now_unix)
    PROVE  /\ AuctionInv'
           /\ settlements'[l] = settle_vickrey(auctions[l])
           /\ \A m \in Lots \ {l} : settlements'[m] = settlements[m]
           /\ \A m \in Lots : Settled(m)' <=> m = l \/ Settled(m)
<1> DEFINE bids   == auctions[l].bids
           result == settle_vickrey(auctions[l])
           asset  == auctions[l].asset
           all    == total(amounts_of(bids), DOMAIN bids)
           credit(p) == total(refunds_of(bids, result), bids_of(bids, p))
           income(p) == IF p = auctions[l].treasury THEN result.clearing_price ELSE 0
           new == [p \in Accounts \cup {AUCTION} |->
                        IF p = AUCTION THEN balance[asset][p] - all
                        ELSE balance[asset][p] + credit(p) + income(p)]
<1>1. /\ Created(l) /\ ~Settled(l) /\ bids # << >>
      /\ result \in Settlement
      /\ settlements' = [settlements EXCEPT ![l] = result]
      /\ all \in Nat /\ balance[asset][AUCTION] >= all
      /\ balance' = [balance EXCEPT ![asset] = new]
      /\ UNCHANGED << clock, auctions, auction_names, auction_admin >>
  BY SettleEffect
<1>2. bids \in Seq(Bid) /\ auctions[l].reserve_price \in Reserves /\ asset \in Assets
  BY <1>1, RecordFields
<1>3. result.clearing_price \in Nat
  BY <1>1, <1>2, VickreyBounds
<1>4. \A p \in Accounts : credit(p) \in Nat
  BY <1>1, <1>2, SettlementPays
<1>5. balance \in [Assets -> [Accounts \cup {AUCTION} -> Nat]]
  BY DEF AuctionInv, AuctionTypeOK
<1>6. settlements \in [Lots -> Settlement \cup {NONE}]
  BY DEF AuctionInv, AuctionTypeOK
<1>7. \A p : income(p) \in Nat
  BY <1>3
<1> HIDE DEF result, all, credit, income, bids, asset
<1>8. new \in [Accounts \cup {AUCTION} -> Nat]
  BY <1>1, <1>2, <1>4, <1>5, <1>7
<1>9. balance' \in [Assets -> [Accounts \cup {AUCTION} -> Nat]]
  <2> HIDE DEF new
  <2> QED
    BY <1>1, <1>5, <1>8
<1>10. /\ settlements' \in [Lots -> Settlement \cup {NONE}]
       /\ settlements'[l] = result
       /\ \A m \in Lots \ {l} : settlements'[m] = settlements[m]
  BY <1>1, <1>6
<1>11. \A m \in Lots : (Created(m)' <=> Created(m)) /\ (Settled(m)' <=> m = l \/ Settled(m))
  <2>1. result # NONE
    BY <1>1, EntryAssumption
  <2> QED
    BY <1>1, <1>10, <2>1 DEF Created, Settled
<1>12. {m \in Lots : Created(m)'} = {m \in Lots : Created(m)}
  BY <1>11
<1>13. AuctionTypeOK'
  BY <1>1, <1>9, <1>10, <1>12 DEF AuctionInv, AuctionTypeOK
<1>14. SettledRight'
  BY <1>1, <1>10, <1>11 DEF AuctionInv, SettledRight, result, bids
<1>15. ListedType'
  BY <1>1, <1>12 DEF AuctionInv, ListedType
<1> QED
  BY <1>10, <1>11, <1>13, <1>14, <1>15 DEF AuctionInv, result

\* No call and no passage of time breaks the invariant.
LEMMA AuctionStep == AuctionInv /\ [AuctionNext]_auctionVars => AuctionInv'
<1> SUFFICES ASSUME AuctionInv, [AuctionNext]_auctionVars PROVE AuctionInv'
  OBVIOUS
<1>1. CASE UNCHANGED << auctions, settlements, auction_names, balance >>
           /\ clock' \in 0 .. Horizon /\ auction_admin' \in AuctionAdmins \cup {NONE}
  <2>1. {l \in Lots : Created(l)'} = {l \in Lots : Created(l)}
    BY <1>1 DEF Created
  <2>2. AuctionTypeOK'
    BY <1>1, <2>1 DEF AuctionInv, AuctionTypeOK
  <2>3. SettledRight'
    BY <1>1 DEF AuctionInv, SettledRight, Created, Settled
  <2> QED
    BY <1>1, <2>1, <2>2, <2>3 DEF AuctionInv, ListedType
<1>2. CASE AdvanceClock
  <2>1. clock' \in 0 .. Horizon
    BY <1>2, AuctionAssumption DEF AdvanceClock, AuctionInv, AuctionTypeOK
  <2> QED
    BY <1>1, <1>2, <2>1 DEF AdvanceClock, AuctionInv, AuctionTypeOK
<1>3. ASSUME NEW a \in AuctionAdmins, Initialize(a) PROVE AuctionInv'
  BY <1>1, <1>3 DEF Initialize, AuctionInv, AuctionTypeOK
<1>4. ASSUME NEW l \in Lots, NEW now_unix, Settle(l, now_unix) PROVE AuctionInv'
  BY <1>4, SettleKeepsInv
<1>5. ASSUME NEW l \in Lots, NEW b \in Bidders, NEW amount \in Amounts, NEW now_unix,
             PlaceBid(l, b, amount, now_unix)
      PROVE  AuctionInv'
  BY <1>5, BidKeepsInv
<1>6. ASSUME NEW l \in Lots, NEW a \in Assets, NEW t \in Treasuries, NEW r \in Reserves,
             NEW w \in Windows, CreateAuction(l, a, t, r, w[1], w[2])
      PROVE  AuctionInv'
  BY <1>6, CreateKeepsInv
<1>7. CASE UNCHANGED auctionVars
  BY <1>1, <1>7 DEF auctionVars, AuctionInv, AuctionTypeOK
<1> QED
  BY <1>2, <1>3, <1>4, <1>5, <1>6, <1>7 DEF AuctionNext

\* The invariant holds throughout.
LEMMA AuctionInvariant == AuctionSpec => []AuctionInv
  BY AuctionStarts, AuctionStep, PTL DEF AuctionSpec

\* Balances never fall below zero, and the discovery index lists every auction once.
THEOREM AuctionTypeCorrect == AuctionSpec => []AuctionTypeOK
  BY AuctionInvariant, PTL DEF AuctionInv

\* Every settlement ever recorded is that of a second-price auction with a reserve,
\* whatever the number of bids, their amounts and their order.
THEOREM SettlementsAreFair == AuctionSpec => []SettlementFair
<1>1. AuctionInv => SettlementFair
  <2> SUFFICES ASSUME AuctionInv, NEW l \in {l \in Lots : Settled(l)}
               PROVE  settlements[l] = second_price(auctions[l])
    BY DEF SettlementFair, second_price
  <2>1. Created(l) /\ auctions[l].bids # << >> /\ settlements[l] = settle_vickrey(auctions[l])
    BY DEF AuctionInv, SettledRight
  <2>2. auctions[l].bids \in Seq(Bid) /\ auctions[l].reserve_price \in Nat
    BY <2>1, RecordFields, AuctionAssumption
  <2> QED
    BY <2>1, <2>2, VickreyIsSecondPrice
<1> QED
  BY <1>1, AuctionInvariant, PTL

\* A sequence is a prefix of itself and of itself with one element more.
LEMMA PrefixFacts ==
    ASSUME NEW s \in Seq(Bid), NEW e \in Bid
    PROVE  IsPrefix(s, s) /\ IsPrefix(s, Append(s, e))
  BY DEF IsPrefix

\* Bids are only ever appended, no step touches a settled auction, and no
\* settlement is replaced.
THEOREM RecordsAreFinal == AuctionSpec => RecordFinal
<1>1. ASSUME AuctionInv, [AuctionNext]_auctionVars, NEW l \in Lots, Created(l)
      PROVE  /\ IsPrefix(auctions[l].bids, auctions'[l].bids)
             /\ Settled(l) => settlements'[l] = settlements[l] /\ auctions'[l] = auctions[l]
  <2>1. auctions[l].bids \in Seq(Bid)
    BY <1>1, RecordFields
  <2>2. IsPrefix(auctions[l].bids, auctions[l].bids)
    BY <2>1 DEF IsPrefix
  <2>3. CASE UNCHANGED << auctions, settlements >>
    BY <2>2, <2>3
  <2>4. ASSUME NEW m \in Lots, NEW now_unix, Settle(m, now_unix)
        PROVE  /\ auctions'[l] = auctions[l]
               /\ Settled(l) => settlements'[l] = settlements[l]
    <3>1. ~Settled(m) /\ auctions' = auctions
      BY <2>4 DEF Settle
    <3>2. \A k \in Lots \ {m} : settlements'[k] = settlements[k]
      BY <1>1, <2>4, SettleKeepsInv
    <3> QED
      BY <3>1, <3>2
  <2>5. ASSUME NEW m \in Lots, NEW b \in Bidders, NEW amount \in Amounts, NEW now_unix,
               PlaceBid(m, b, amount, now_unix)
        PROVE  /\ IsPrefix(auctions[l].bids, auctions'[l].bids)
               /\ settlements' = settlements
               /\ Settled(l) => auctions'[l] = auctions[l]
    <3>1. /\ ~Settled(m) /\ bid_of(b, amount) \in Bid
          /\ auctions'[m].bids = Append(auctions[m].bids, bid_of(b, amount))
          /\ \A k \in Lots \ {m} : auctions'[k] = auctions[k]
          /\ settlements' = settlements
      BY <1>1, <2>5, BidKeepsInv
    <3>2. CASE l # m
      BY <2>2, <3>1, <3>2
    <3>3. CASE l = m
      BY <2>1, <3>1, <3>3, PrefixFacts
    <3> QED
      BY <3>2, <3>3
  <2>6. ASSUME NEW m \in Lots, NEW a \in Assets, NEW t \in Treasuries, NEW r \in Reserves,
               NEW w \in Windows, CreateAuction(m, a, t, r, w[1], w[2])
        PROVE  auctions'[l] = auctions[l] /\ settlements' = settlements
    <3>1. ~Created(m) /\ \A k \in Lots \ {m} : auctions'[k] = auctions[k]
      BY <1>1, <2>6, CreateKeepsInv
    <3>2. settlements' = settlements
      BY <2>6 DEF CreateAuction
    <3> QED
      BY <1>1, <3>1, <3>2
  <2> QED
    BY <1>1, <2>2, <2>3, <2>4, <2>5, <2>6 DEF AuctionNext, AdvanceClock, Initialize, auctionVars
<1>2. AuctionInv /\ [AuctionNext]_auctionVars =>
        [\A l \in Lots : Created(l) =>
            /\ IsPrefix(auctions[l].bids, auctions'[l].bids)
            /\ Settled(l) => settlements'[l] = settlements[l] /\ auctions'[l] = auctions[l]
          ]_auctionVars
  BY <1>1
<1> QED
  BY <1>2, AuctionInvariant, PTL DEF AuctionSpec, RecordFinal

-----------------------------------------------------------------------------
(* The money. *)

\* What some bidders bid, out of a list of bids; and the sums of FundsAccounted
\* over given records and settlements.
staked(bids, bidders) == total(amounts_of(bids), {i \in DOMAIN bids : bids[i].bidder \in bidders})
stakes(records, bidders) == [l \in Lots |-> staked(records[l].bids, bidders)]
prices(results) == [l \in Lots |-> results[l].clearing_price]
Won(a, p) == {l \in ClosedIn(a) : settlements[l].winner = p}
Earned(a, p) == {l \in ClosedIn(a) : auctions[l].treasury = p}
Owned(p) == IF p \in Bidders THEN Funds ELSE 0

\* FundsAccounted in these terms.
LEMMA FundsForm ==
    FundsAccounted <=>
        \A a \in Assets :
            /\ balance[a][AUCTION] = total(stakes(auctions, Bidders), OpenIn(a))
            /\ \A p \in Accounts :
                  balance[a][p] + total(stakes(auctions, {p}), OpenIn(a))
                        + total(prices(settlements), Won(a, p))
                    = Owned(p) + total(prices(settlements), Earned(a, p))
  BY DEF FundsAccounted, stakes, prices, staked, amounts_of, escrowed, Won, Earned, Owned

\* A stake is a natural; one bid more adds its amount to those of its bidder.
LEMMA StakeFacts ==
    ASSUME NEW bids \in Seq(Bid), NEW bidders
    PROVE  /\ staked(bids, bidders) \in Nat
           /\ bids = << >> => staked(bids, bidders) = 0
           /\ \A bid \in Bid : staked(Append(bids, bid), bidders)
                    = staked(bids, bidders) + (IF bid.bidder \in bidders THEN bid.amount ELSE 0)
<1> DEFINE n == Len(bids)
           S == {i \in DOMAIN bids : bids[i].bidder \in bidders}
           f == amounts_of(bids)
<1>1. n \in Nat /\ DOMAIN bids = 1 .. n
  OBVIOUS
<1>2. IsFiniteSet(S)
  <2>1. S \in SUBSET (1 .. n) /\ IsFiniteSet(1 .. n)
    BY <1>1, FS_Interval
  <2> QED
    BY <2>1, FS_Subset
<1>3. \A i \in S : f[i] \in Nat
  BY BidFields DEF amounts_of
<1>4. SumFunctionOnSet(f, S) \in Nat
  <2> HIDE DEF f, S
  <2> QED
    BY <1>2, <1>3, SumNat
<1>5. bids = << >> => SumFunctionOnSet(f, S) = 0
  <2>1. bids = << >> => S = {}
    OBVIOUS
  <2> QED
    BY <2>1, SumEmpty
<1>6. ASSUME NEW bid \in Bid
      PROVE  staked(Append(bids, bid), bidders)
                = SumFunctionOnSet(f, S) + (IF bid.bidder \in bidders THEN bid.amount ELSE 0)
  <2> DEFINE more == Append(bids, bid)
             S2 == {i \in DOMAIN more : more[i].bidder \in bidders}
             g == amounts_of(more)
  <2>1. /\ DOMAIN more = 1 .. n + 1 /\ more[n + 1] = bid
        /\ \A i \in 1 .. n : more[i] = bids[i]
    BY <1>1
  <2>2. \A i \in S : g[i] = f[i]
    BY <1>1, <2>1 DEF amounts_of
  <2>3. g[n + 1] = bid.amount /\ bid.amount \in Nat /\ n + 1 \notin S
    BY <1>1, <2>1, BidFields DEF amounts_of
  <2>4. CASE bid.bidder \in bidders
    <3>1. S2 = S \cup {n + 1}
      <4> HIDE DEF more
      <4> QED
        BY <1>1, <2>1, <2>4
    <3>2. SumFunctionOnSet(g, S \cup {n + 1}) = SumFunctionOnSet(f, S) + g[n + 1]
      <4> DEFINE k == n + 1
      <4>1. k \notin S /\ g[k] \in Nat /\ \A i \in S : f[i] \in Nat /\ g[i] = f[i]
        BY <1>3, <2>2, <2>3
      <4> HIDE DEF f, g, S, k
      <4>2. SumFunctionOnSet(g, S \cup {k}) = SumFunctionOnSet(f, S) + g[k]
        BY <1>2, <4>1, SumAdd
      <4> QED
        BY <4>2 DEF k
    <3> QED
      BY <2>3, <2>4, <3>1, <3>2 DEF staked, total
  <2>5. CASE bid.bidder \notin bidders
    <3>1. S2 = S
      <4> HIDE DEF more
      <4> QED
        BY <1>1, <2>1, <2>5
    <3>2. SumFunctionOnSet(g, S) = SumFunctionOnSet(f, S)
      <4> HIDE DEF f, g, S, n
      <4> QED
        BY <1>2, <2>2, SumSame
    <3>3. staked(more, bidders) = SumFunctionOnSet(g, S2)
      BY DEF staked, total
    <3>4. \A x \in Nat : x + 0 = x
      OBVIOUS
    <3> QED
      BY <1>4, <2>5, <3>1, <3>2, <3>3, <3>4
  <2> QED
    BY <2>4, <2>5
<1> QED
  BY <1>4, <1>5, <1>6 DEF staked, total

\* The sums are over finitely many naturals.
LEMMA FundsFinite ==
    ASSUME AuctionInv, NEW a \in Assets
    PROVE  /\ \A S \in SUBSET LotsIn(a) : IsFiniteSet(S)
           /\ OpenIn(a) \in SUBSET LotsIn(a)
           /\ \A p : Won(a, p) \in SUBSET LotsIn(a) /\ Earned(a, p) \in SUBSET LotsIn(a)
           /\ \A l \in LotsIn(a) : \A bidders : stakes(auctions, bidders)[l] \in Nat
           /\ \A l \in ClosedIn(a) : prices(settlements)[l] \in Nat
<1>1. \A S \in SUBSET LotsIn(a) : IsFiniteSet(S)
  <2>1. LotsIn(a) \in SUBSET {l \in Lots : Created(l)}
    BY DEF LotsIn
  <2> QED
    BY <2>1, FS_Subset DEF AuctionInv, ListedType
<1>2. /\ OpenIn(a) \in SUBSET LotsIn(a)
      /\ \A p : Won(a, p) \in SUBSET LotsIn(a) /\ Earned(a, p) \in SUBSET LotsIn(a)
  BY DEF OpenIn, ClosedIn, Won, Earned
<1>3. ASSUME NEW bidders, NEW l \in LotsIn(a) PROVE stakes(auctions, bidders)[l] \in Nat
  <2>1. l \in Lots /\ Created(l)
    BY DEF LotsIn
  <2>2. staked(auctions[l].bids, bidders) \in Nat
    BY <2>1, RecordFields, StakeFacts
  <2> QED
    BY <2>1, <2>2 DEF stakes
<1>4. ASSUME NEW l \in ClosedIn(a) PROVE prices(settlements)[l] \in Nat
  <2>1. l \in Lots /\ Settled(l)
    BY DEF ClosedIn, LotsIn
  <2>2. settlements[l] \in Settlement
    BY <2>1 DEF AuctionInv, AuctionTypeOK, Settled
  <2>3. settlements[l].clearing_price \in Nat
    BY <2>2, AuctionAssumption DEF Settlement
  <2> QED
    BY <2>1, <2>3 DEF prices, AuctionInv, AuctionTypeOK
<1> QED
  BY <1>1, <1>2, <1>3, <1>4

\* Sums whose lots and values stay the same stay the same.
LEMMA SameStakes ==
    ASSUME NEW S \in SUBSET Lots, IsFiniteSet(S), NEW old, NEW new, NEW bidders,
           \A l \in S : new[l].bids = old[l].bids
    PROVE  total(stakes(new, bidders), S) = total(stakes(old, bidders), S)
<1> DEFINE f == stakes(new, bidders)
           g == stakes(old, bidders)
<1>1. \A l \in S : f[l] = g[l]
  BY DEF stakes
<1> HIDE DEF f, g
<1>2. SumFunctionOnSet(f, S) = SumFunctionOnSet(g, S)
  BY <1>1, SumSame
<1> QED
  BY <1>2 DEF total, f, g

\* The money in one asset is accounted for.
AssetAccounted(a) ==
    /\ balance[a][AUCTION] = total(stakes(auctions, Bidders), OpenIn(a))
    /\ \A p \in Accounts :
          balance[a][p] + total(stakes(auctions, {p}), OpenIn(a))
                + total(prices(settlements), Won(a, p))
            = Owned(p) + total(prices(settlements), Earned(a, p))

\* An auction without bids changes no sum.
LEMMA CreateKeepsFunds ==
    ASSUME AuctionInv, NEW l \in Lots, NEW a \in Assets, NEW t \in Treasuries,
           NEW r \in Reserves, NEW w \in Windows, CreateAuction(l, a, t, r, w[1], w[2]),
           NEW x \in Assets, AssetAccounted(x)
    PROVE  AssetAccounted(x)'
<1>1. /\ ~Created(l) /\ ~Settled(l)
      /\ auctions'[l] # NONE /\ auctions'[l].bids = << >> /\ auctions'[l].asset = a
      /\ \A m \in Lots \ {l} : auctions'[m] = auctions[m]
  BY CreateKeepsInv, EntryAssumption
<1>2. settlements' = settlements /\ balance' = balance
  BY DEF CreateAuction
<1>3. OpenIn(x)' = OpenIn(x) \cup (IF x = a THEN {l} ELSE {})
  BY <1>1, <1>2 DEF OpenIn, LotsIn, Created, Settled
<1>4. ClosedIn(x)' = ClosedIn(x) /\ l \notin ClosedIn(x) /\ l \notin OpenIn(x)
  BY <1>1, <1>2 DEF ClosedIn, OpenIn, LotsIn, Created, Settled
<1>5. \A p : Won(x, p)' = Won(x, p) /\ Earned(x, p)' = Earned(x, p)
  BY <1>1, <1>2, <1>4 DEF Won, Earned, ClosedIn, LotsIn
<1>6. ASSUME NEW bidders
      PROVE  total(stakes(auctions', bidders), OpenIn(x)') = total(stakes(auctions, bidders), OpenIn(x))
  <2> DEFINE f == stakes(auctions, bidders)
             g == stakes(auctions', bidders)
             S == OpenIn(x)
  <2>1. S \in SUBSET Lots /\ IsFiniteSet(S) /\ \A m \in S : f[m] \in Nat
    <3>1. LotsIn(x) \in SUBSET Lots
      BY DEF LotsIn
    <3> HIDE DEF f
    <3>2. OpenIn(x) \in SUBSET LotsIn(x) /\ IsFiniteSet(OpenIn(x))
      BY FundsFinite
    <3>3. \A m \in LotsIn(x) : f[m] \in Nat
      BY FundsFinite DEF f
    <3> QED
      BY <3>1, <3>2, <3>3
  <2>2. \A m \in S : g[m] = f[m]
    BY <1>1, <1>4, <2>1 DEF stakes
  <2>3. g[l] = 0
    <3>1. << >> \in Seq(Bid)
      OBVIOUS
    <3> QED
      BY <1>1, <3>1, StakeFacts DEF stakes
  <2>4. l \notin S
    BY <1>4
  <2> HIDE DEF f, g, S
  <2>5. SumFunctionOnSet(f, S) \in Nat /\ SumFunctionOnSet(g, S) = SumFunctionOnSet(f, S)
    BY <2>1, <2>2, SumNat, SumSame
  <2>6. SumFunctionOnSet(g, S \cup {l}) = SumFunctionOnSet(f, S)
    <3>1. SumFunctionOnSet(g, S \cup {l}) = SumFunctionOnSet(f, S) + g[l]
      <4>1. g[l] \in Nat
        BY <2>3
      <4>2. \A m \in S : f[m] \in Nat /\ g[m] = f[m]
        BY <2>1, <2>2
      <4> QED
        BY <2>1, <2>4, <4>1, <4>2, SumAdd
    <3> QED
      BY <2>3, <2>5, <3>1
  <2>7. OpenIn(x)' = S \cup {l} \/ OpenIn(x)' = S
    BY <1>3 DEF S
  <2> QED
    BY <2>5, <2>6, <2>7 DEF f, g, S, total
<1> QED
  BY <1>2, <1>5, <1>6 DEF AssetAccounted

\* A bid moves its amount from the bidder's balance to its stake, and from no
\* stake to the contract's balance.
LEMMA BidKeepsFunds ==
    ASSUME AuctionInv, NEW l \in Lots, NEW b \in Bidders, NEW amount \in Amounts, NEW now_unix,
           PlaceBid(l, b, amount, now_unix), NEW x \in Assets, AssetAccounted(x)
    PROVE  AssetAccounted(x)'
<1> DEFINE asset == auctions[l].asset
           S == OpenIn(x)
           bid == bid_of(b, amount)
<1>1. /\ Created(l) /\ ~Settled(l) /\ amount \in Nat /\ bid \in Bid
      /\ auctions'[l].bids = Append(auctions[l].bids, bid)
      /\ auctions'[l].asset = asset
      /\ \A m \in Lots \ {l} : auctions'[m] = auctions[m]
      /\ settlements' = settlements
      /\ AuctionInv'
  BY BidKeepsInv
<1>2. auctions[l].bids \in Seq(Bid) /\ asset \in Assets
  BY <1>1, RecordFields
<1>3. /\ balance[asset][b] >= amount
      /\ balance' = [balance EXCEPT ![asset][b] = @ - amount, ![asset][AUCTION] = @ + amount]
  BY DEF PlaceBid, escrow
<1>4. balance \in [Assets -> [Accounts \cup {AUCTION} -> Nat]]
  BY DEF AuctionInv, AuctionTypeOK
<1>5. b \in Accounts /\ AUCTION \notin Accounts
  BY AuctionAssumption DEF Accounts
<1>6. Created(l)'
  BY <1>1 DEF PlaceBid, Created, AuctionInv, AuctionTypeOK
<1>7. \A m \in Lots : (Created(m)' <=> Created(m)) /\ (Settled(m)' <=> Settled(m))
  BY <1>1, <1>6 DEF Created, Settled
<1>8. LotsIn(x)' = LotsIn(x)
  BY <1>1, <1>7 DEF LotsIn
<1>9. OpenIn(x)' = S /\ ClosedIn(x)' = ClosedIn(x) /\ l \notin ClosedIn(x)
  BY <1>1, <1>7, <1>8 DEF OpenIn, ClosedIn, LotsIn
<1>10. \A p : Won(x, p)' = Won(x, p) /\ Earned(x, p)' = Earned(x, p)
  BY <1>1, <1>9 DEF Won, Earned, ClosedIn, LotsIn
<1>11. l \in S <=> x = asset
  BY <1>1 DEF OpenIn, LotsIn
<1>12. ASSUME NEW bidders
       PROVE  /\ total(stakes(auctions, bidders), S) \in Nat
              /\ total(stakes(auctions', bidders), S) = total(stakes(auctions, bidders), S)
                    + (IF x = asset /\ b \in bidders THEN amount ELSE 0)
  <2> DEFINE f == stakes(auctions, bidders)
             g == stakes(auctions', bidders)
             k == IF b \in bidders THEN amount ELSE 0
  <2>1. S \in SUBSET Lots /\ IsFiniteSet(S) /\ S \in SUBSET LotsIn(x)
    <3>1. LotsIn(x) \in SUBSET Lots
      BY DEF LotsIn
    <3>2. OpenIn(x) \in SUBSET LotsIn(x) /\ IsFiniteSet(OpenIn(x))
      BY FundsFinite
    <3> QED
      BY <3>1, <3>2
  <2>2. \A m \in S : f[m] \in Nat
    <3>1. \A m \in LotsIn(x) : f[m] \in Nat
      BY FundsFinite
    <3> QED
      BY <2>1, <3>1
  <2>3. \A m \in S \ {l} : g[m] = f[m]
    BY <1>1, <2>1 DEF stakes
  <2>4. f[l] \in Nat /\ g[l] = f[l] + k
    <3>1. bid.bidder = b /\ bid.amount = amount
      BY DEF bid_of
    <3>2. staked(auctions[l].bids, bidders) \in Nat
      BY <1>2, StakeFacts
    <3>3. staked(Append(auctions[l].bids, bid), bidders) = staked(auctions[l].bids, bidders) + k
      <4> HIDE DEF bid
      <4> QED
        BY <1>1, <1>2, <3>1, StakeFacts
    <3> QED
      BY <1>1, <3>2, <3>3 DEF stakes
  <2>5. k \in Nat
    BY <1>1
  <2>6. SumFunctionOnSet(f, S) \in Nat
    <3> HIDE DEF f, S
    <3> QED
      BY <2>1, <2>2, SumNat
  <2>7. CASE x = asset
    <3>1. l \in S
      BY <1>11, <2>7
    <3>2. \A m \in S : f[m] \in Nat /\ g[m] \in Nat
      <4> HIDE DEF f, g, k, S
      <4>1. g[l] \in Nat
        BY <2>4, <2>5
      <4> QED
        BY <2>2, <2>3, <4>1
    <3>3. SumFunctionOnSet(g, S) + f[l] = SumFunctionOnSet(f, S) + g[l]
      <4> HIDE DEF f, g, k, S
      <4> QED
        BY <2>1, <2>3, <3>1, <3>2, SumUpdate
    <3>4. SumFunctionOnSet(g, S) \in Nat
      <4> HIDE DEF f, g, k, S
      <4> QED
        BY <2>1, <3>2, SumNat
    <3>5. SumFunctionOnSet(g, S) = SumFunctionOnSet(f, S) + k
      <4> HIDE DEF f, g, k, S
      <4> QED
        BY <2>4, <2>5, <2>6, <3>3, <3>4
    <3> QED
      BY <2>6, <2>7, <3>5 DEF total
  <2>8. CASE x # asset
    <3>1. \A m \in S : g[m] = f[m]
      BY <1>11, <2>3, <2>8
    <3>2. SumFunctionOnSet(g, S) = SumFunctionOnSet(f, S)
      <4> HIDE DEF f, g, S
      <4> QED
        BY <2>1, <3>1, SumSame
    <3>3. \A n \in Nat : n + 0 = n
      OBVIOUS
    <3> QED
      BY <2>6, <2>8, <3>2, <3>3 DEF total
  <2> QED
    BY <2>7, <2>8
<1>13. CASE x # asset
  <2>1. balance'[x] = balance[x]
    BY <1>2, <1>3, <1>4, <1>13
  <2>2. \A bidders : total(stakes(auctions', bidders), S) = total(stakes(auctions, bidders), S)
    <3>1. \A n \in Nat : n + 0 = n
      OBVIOUS
    <3> QED
      BY <1>12, <1>13, <3>1
  <2> QED
    BY <1>1, <1>9, <1>10, <2>1, <2>2 DEF AssetAccounted
<1>14. CASE x = asset
  <2>1. /\ balance'[x][AUCTION] = balance[x][AUCTION] + amount
        /\ balance'[x][b] = balance[x][b] - amount
        /\ \A p \in Accounts \ {b} : balance'[x][p] = balance[x][p]
    <3> HIDE DEF asset
    <3> QED
      BY <1>1, <1>2, <1>3, <1>4, <1>5, <1>14
  <2>2. total(stakes(auctions', Bidders), S) = total(stakes(auctions, Bidders), S) + amount
    BY <1>12, <1>14
  <2>3. balance'[x][AUCTION] = total(stakes(auctions', Bidders), OpenIn(x)')
    BY <1>9, <2>1, <2>2 DEF AssetAccounted
  <2>4. ASSUME NEW p \in Accounts
        PROVE  balance'[x][p] + total(stakes(auctions', {p}), S) + total(prices(settlements), Won(x, p))
                 = Owned(p) + total(prices(settlements), Earned(x, p))
    <3>1. balance[x][p] + total(stakes(auctions, {p}), S) + total(prices(settlements), Won(x, p))
            = Owned(p) + total(prices(settlements), Earned(x, p))
      BY DEF AssetAccounted
    <3>2. balance'[x][p] + total(stakes(auctions', {p}), S)
            = balance[x][p] + total(stakes(auctions, {p}), S)
      <4>1. balance[x][p] \in Nat /\ total(stakes(auctions, {p}), S) \in Nat
        BY <1>4, <1>12
      <4>2. CASE p = b
        <5>1. total(stakes(auctions', {p}), S) = total(stakes(auctions, {p}), S) + amount
          BY <1>12, <1>14, <4>2
        <5> QED
          BY <1>1, <2>1, <4>1, <4>2, <5>1
      <4>3. CASE p # b
        <5>1. total(stakes(auctions', {p}), S) = total(stakes(auctions, {p}), S) + 0
          BY <1>12, <4>3
        <5> QED
          BY <2>1, <4>1, <4>3, <5>1
      <4> QED
        BY <4>2, <4>3
    <3> QED
      BY <3>1, <3>2
  <2> QED
    BY <1>1, <1>9, <1>10, <2>3, <2>4 DEF AssetAccounted
<1> QED
  BY <1>13, <1>14

\* The stakes in one auction: all of them are the bidders', one account's those of its bids.
LEMMA StakesOf ==
    ASSUME NEW bids \in Seq(Bid)
    PROVE  /\ staked(bids, Bidders) = total(amounts_of(bids), DOMAIN bids)
           /\ \A p : staked(bids, {p}) = total(amounts_of(bids), bids_of(bids, p))
<1>1. {i \in DOMAIN bids : bids[i].bidder \in Bidders} = DOMAIN bids
  <2>1. \A i \in DOMAIN bids : bids[i] \in Bid
    OBVIOUS
  <2>2. \A i \in DOMAIN bids : bids[i].bidder \in Bidders
    BY <2>1, BidFields
  <2> QED
    BY <2>2
<1>2. \A p : {i \in DOMAIN bids : bids[i].bidder \in {p}} = bids_of(bids, p)
  BY DEF bids_of
<1> QED
  BY <1>1, <1>2 DEF staked

\* A settlement takes the stakes in its auction out of escrow: the price becomes
\* the treasury's and the winner's due, the rest returns to its bidders.
LEMMA SettleKeepsFunds ==
    ASSUME AuctionInv, NEW l \in Lots, NEW now_unix, Settle(l, now_unix),
           NEW x \in Assets, AssetAccounted(x)
    PROVE  AssetAccounted(x)'
<1> DEFINE bids   == auctions[l].bids
           result == settle_vickrey(auctions[l])
           asset  == auctions[l].asset
           price  == result.clearing_price
           all    == total(amounts_of(bids), DOMAIN bids)
           credit(p) == total(refunds_of(bids, result), bids_of(bids, p))
           income(p) == IF p = auctions[l].treasury THEN price ELSE 0
           S == OpenIn(x)
<1>1. /\ Created(l) /\ ~Settled(l) /\ bids # << >>
      /\ all \in Nat /\ balance[asset][AUCTION] >= all
      /\ balance' = [balance EXCEPT ![asset] =
            [p \in Accounts \cup {AUCTION} |->
                IF p = AUCTION THEN balance[asset][p] - all
                ELSE balance[asset][p] + credit(p) + income(p)]]
      /\ auctions' = auctions
  BY SettleEffect
<1>2. bids \in Seq(Bid) /\ auctions[l].reserve_price \in Reserves /\ asset \in Assets
  BY <1>1, RecordFields
<1>3. /\ settlements'[l] = result
      /\ \A m \in Lots \ {l} : settlements'[m] = settlements[m]
      /\ \A m \in Lots : Settled(m)' <=> m = l \/ Settled(m)
  BY SettleKeepsInv
<1>4. balance \in [Assets -> [Accounts \cup {AUCTION} -> Nat]] /\ AUCTION \notin Accounts
  BY AuctionAssumption DEF AuctionInv, AuctionTypeOK
<1>5. price \in Nat /\ \A p \in Accounts :
            /\ credit(p) \in Nat
            /\ staked(bids, {p}) = credit(p) + paid(result, p)
  BY <1>1, <1>2, VickreyBounds, SettlementPays, StakesOf
<1>6. staked(bids, Bidders) = all
  BY <1>2, StakesOf
<1>7. LotsIn(x)' = LotsIn(x) /\ LotsIn(x) \in SUBSET Lots
  BY <1>1 DEF LotsIn, Created
<1>8. l \in S <=> x = asset
  BY <1>1 DEF OpenIn, LotsIn
<1>9. /\ OpenIn(x)' = S \ {l} /\ l \notin ClosedIn(x)
      /\ ClosedIn(x)' = ClosedIn(x) \cup (IF x = asset THEN {l} ELSE {})
  BY <1>1, <1>3, <1>7 DEF OpenIn, ClosedIn, LotsIn
<1>10. S \in SUBSET LotsIn(x) /\ IsFiniteSet(S)
  BY FundsFinite
<1>11. \A m \in ClosedIn(x) : m \in Lots \ {l} /\ settlements'[m] = settlements[m]
  BY <1>3, <1>9 DEF ClosedIn, LotsIn
<1>12. \A p : /\ l \notin Won(x, p) /\ l \notin Earned(x, p)
              /\ Won(x, p)' = Won(x, p) \cup (IF x = asset /\ result.winner = p THEN {l} ELSE {})
              /\ Earned(x, p)' = Earned(x, p)
                    \cup (IF x = asset /\ auctions[l].treasury = p THEN {l} ELSE {})
  <2> HIDE DEF result, asset
  <2>1. \A p : l \notin Won(x, p) /\ l \notin Earned(x, p)
    BY <1>9 DEF Won, Earned
  <2>2. \A p : Won(x, p)' = {m \in ClosedIn(x)' : settlements'[m].winner = p}
    BY DEF Won
  <2>3. \A p : Earned(x, p)' = {m \in ClosedIn(x)' : auctions[m].treasury = p}
    BY <1>1 DEF Earned
  <2>4. CASE x = asset
    BY <1>3, <1>9, <1>11, <2>1, <2>2, <2>3, <2>4 DEF Won, Earned
  <2>5. CASE x # asset
    BY <1>9, <1>11, <2>1, <2>2, <2>3, <2>5 DEF Won, Earned
  <2> QED
    BY <2>4, <2>5
\* The sums of the prices.
<1>13. ASSUME NEW T \in SUBSET ClosedIn(x)
       PROVE  /\ total(prices(settlements), T) \in Nat
              /\ total(prices(settlements'), T) = total(prices(settlements), T)
              /\ total(prices(settlements'), T \cup {l}) = total(prices(settlements), T) + price
  <2> DEFINE f == prices(settlements)
             g == prices(settlements')
  <2>1. IsFiniteSet(T) /\ l \notin T /\ T \in SUBSET Lots
    <3>1. T \in SUBSET LotsIn(x)
      BY DEF ClosedIn
    <3>2. IsFiniteSet(T)
      BY <3>1, FundsFinite
    <3> QED
      BY <1>7, <1>9, <3>1, <3>2
  <2>2. \A m \in T : f[m] \in Nat
    BY FundsFinite
  <2>3. \A m \in T : g[m] = f[m]
    <3>1. settlements \in [Lots -> Settlement \cup {NONE}] /\ settlements' \in [Lots -> Settlement \cup {NONE}]
      BY SettleKeepsInv DEF AuctionInv, AuctionTypeOK
    <3> QED
      BY <1>11, <2>1, <3>1 DEF prices
  <2>4. g[l] = price
    <3>1. settlements' \in [Lots -> Settlement \cup {NONE}]
      BY SettleKeepsInv DEF AuctionInv, AuctionTypeOK
    <3> QED
      BY <1>3, <3>1 DEF prices
  <2>5. g[l] \in Nat /\ \A m \in T : f[m] \in Nat /\ g[m] = f[m]
    BY <1>5, <2>2, <2>3, <2>4
  <2> HIDE DEF f, g, price
  <2>6. /\ SumFunctionOnSet(f, T) \in Nat
        /\ SumFunctionOnSet(g, T) = SumFunctionOnSet(f, T)
    BY <2>1, <2>5, SumNat, SumSame
  <2>7. SumFunctionOnSet(g, T \cup {l}) = SumFunctionOnSet(f, T) + g[l]
    BY <2>1, <2>5, SumAdd
  <2> QED
    BY <2>4, <2>6, <2>7 DEF total, f, g
<1>14. \A p : Won(x, p) \in SUBSET ClosedIn(x) /\ Earned(x, p) \in SUBSET ClosedIn(x)
  BY DEF Won, Earned
\* The sums of the stakes.
<1>15. ASSUME NEW bidders
       PROVE  /\ total(stakes(auctions, bidders), S \ {l}) \in Nat
              /\ x = asset => total(stakes(auctions, bidders), S)
                                = total(stakes(auctions, bidders), S \ {l}) + staked(bids, bidders)
  <2> DEFINE f == stakes(auctions, bidders)
  <2>1. \A m \in S : f[m] \in Nat
    BY <1>10, FundsFinite
  <2>2. f[l] = staked(bids, bidders)
    BY DEF stakes
  <2>3. IsFiniteSet(S \ {l})
    BY <1>10, FS_Subset
  <2> HIDE DEF f, S, bids, asset
  <2>4. SumFunctionOnSet(f, S \ {l}) \in Nat
    BY <2>1, <2>3, SumNat
  <2>5. l \in S => SumFunctionOnSet(f, S) = SumFunctionOnSet(f, S \ {l}) + f[l]
    BY <1>10, <2>1, SumDrop
  <2> QED
    BY <1>8, <2>2, <2>4, <2>5 DEF total, f
<1> HIDE DEF bids, result, all, credit, price
<1>16. CASE x # asset
  <2>1. balance'[x] = balance[x]
    BY <1>1, <1>2, <1>4, <1>16
  <2>2. OpenIn(x)' = S
    BY <1>8, <1>9, <1>16
  <2>3. \A p : Won(x, p)' = Won(x, p) /\ Earned(x, p)' = Earned(x, p)
    BY <1>12, <1>16
  <2>4. \A p : /\ total(prices(settlements'), Won(x, p)) = total(prices(settlements), Won(x, p))
               /\ total(prices(settlements'), Earned(x, p)) = total(prices(settlements), Earned(x, p))
    BY <1>13, <1>14
  <2> QED
    BY <1>1, <2>1, <2>2, <2>3, <2>4 DEF AssetAccounted
<1>17. CASE x = asset
  <2>1. /\ balance'[x][AUCTION] = balance[x][AUCTION] - all
        /\ \A p \in Accounts : balance'[x][p] = balance[x][p] + credit(p) + income(p)
    <3> HIDE DEF asset, income
    <3> QED
      BY <1>1, <1>2, <1>4, <1>17
  <2>2. balance'[x][AUCTION] = total(stakes(auctions, Bidders), S \ {l})
    <3>1. balance[x][AUCTION] = total(stakes(auctions, Bidders), S)
      BY DEF AssetAccounted
    <3>2. total(stakes(auctions, Bidders), S) = total(stakes(auctions, Bidders), S \ {l}) + all
      BY <1>6, <1>15, <1>17
    <3>3. total(stakes(auctions, Bidders), S \ {l}) \in Nat /\ all \in Nat
      BY <1>1, <1>15
    <3>4. \A m, n \in Nat : (m + n) - n = m
      OBVIOUS
    <3> QED
      BY <2>1, <3>1, <3>2, <3>3, <3>4
  <2>3. ASSUME NEW p \in Accounts
        PROVE  balance'[x][p] + total(stakes(auctions, {p}), S \ {l}) + total(prices(settlements'), Won(x, p)')
                 = Owned(p) + total(prices(settlements'), Earned(x, p)')
    <3> DEFINE won    == total(prices(settlements), Won(x, p))
               earned == total(prices(settlements), Earned(x, p))
               open   == total(stakes(auctions, {p}), S \ {l})
    <3>1. balance[x][p] + total(stakes(auctions, {p}), S) + won = Owned(p) + earned
      BY DEF AssetAccounted
    <3>2. total(stakes(auctions, {p}), S) = open + staked(bids, {p})
      BY <1>15, <1>17
    <3>3. total(prices(settlements'), Won(x, p)') = won + paid(result, p)
      <4>1. won \in Nat
        BY <1>13, <1>14
      <4>2. CASE result.winner = p
        <5>1. Won(x, p)' = Won(x, p) \cup {l}
          BY <1>12, <1>17, <4>2
        <5> QED
          BY <1>13, <1>14, <4>2, <5>1 DEF paid, price
      <4>3. CASE result.winner # p
        <5>1. Won(x, p)' = Won(x, p)
          BY <1>12, <4>3
        <5>2. total(prices(settlements'), Won(x, p)) = won
          BY <1>13, <1>14
        <5> QED
          BY <4>1, <4>3, <5>1, <5>2 DEF paid
      <4> QED
        BY <4>2, <4>3
    <3>4. total(prices(settlements'), Earned(x, p)') = earned + income(p)
      <4>1. earned \in Nat
        BY <1>13, <1>14
      <4>2. CASE auctions[l].treasury = p
        <5>1. Earned(x, p)' = Earned(x, p) \cup {l}
          BY <1>12, <1>17, <4>2
        <5> QED
          BY <1>13, <1>14, <4>2, <5>1
      <4>3. CASE auctions[l].treasury # p
        <5>1. Earned(x, p)' = Earned(x, p)
          BY <1>12, <4>3
        <5>2. total(prices(settlements'), Earned(x, p)) = earned
          BY <1>13, <1>14
        <5> QED
          BY <4>1, <4>3, <5>1, <5>2
      <4> QED
        BY <4>2, <4>3
    <3>5. /\ balance[x][p] \in Nat /\ credit(p) \in Nat /\ open \in Nat
          /\ won \in Nat /\ earned \in Nat
      BY <1>4, <1>5, <1>13, <1>14, <1>15
    <3>6. income(p) \in Nat /\ paid(result, p) \in Nat /\ Owned(p) \in Nat
      BY <1>5, AuctionAssumption DEF paid, Owned, price
    <3>7. staked(bids, {p}) = credit(p) + paid(result, p)
      BY <1>5
    <3>8. balance'[x][p] = balance[x][p] + credit(p) + income(p)
      BY <2>1
    <3> HIDE DEF won, earned, open, income
    <3>9. balance'[x][p] + open + (won + paid(result, p)) = Owned(p) + (earned + income(p))
      BY <3>1, <3>2, <3>5, <3>6, <3>7, <3>8
    <3> QED
      BY <3>3, <3>4, <3>9 DEF open
  <2> QED
    BY <1>1, <1>9, <2>2, <2>3 DEF AssetAccounted
<1> QED
  BY <1>16, <1>17

\* Before the first auction everybody owns what it came with.
LEMMA FundsStart == AuctionInit => \A a \in Assets : AssetAccounted(a)
<1> SUFFICES ASSUME AuctionInit, NEW a \in Assets PROVE AssetAccounted(a)
  OBVIOUS
<1>1. LotsIn(a) = {}
  BY DEF AuctionInit, LotsIn, Created
<1>2. OpenIn(a) = {} /\ \A p : Won(a, p) = {} /\ Earned(a, p) = {}
  BY <1>1 DEF OpenIn, ClosedIn, Won, Earned
<1>3. \A f : total(f, {}) = 0
  BY SumEmpty DEF total
<1>4. balance[a][AUCTION] = 0 /\ \A p \in Accounts : balance[a][p] = Owned(p)
  BY AuctionAssumption DEF AuctionInit, Owned, Accounts
<1>5. \A p : Owned(p) \in Nat
  BY AuctionAssumption DEF Owned
<1>6. total(stakes(auctions, Bidders), OpenIn(a)) = 0
  BY <1>2, <1>3
<1>7. \A p : /\ total(stakes(auctions, {p}), OpenIn(a)) = 0
             /\ total(prices(settlements), Won(a, p)) = 0
             /\ total(prices(settlements), Earned(a, p)) = 0
  BY <1>2, <1>3
<1>8. \A n \in Nat : n + 0 + 0 = n + 0
  OBVIOUS
<1> QED
  BY <1>4, <1>5, <1>6, <1>7, <1>8 DEF AssetAccounted

\* No call loses or makes money.
LEMMA FundsStep ==
    AuctionInv /\ (\A a \in Assets : AssetAccounted(a)) /\ [AuctionNext]_auctionVars
        => \A a \in Assets : AssetAccounted(a)'
<1> SUFFICES ASSUME AuctionInv, [AuctionNext]_auctionVars, NEW x \in Assets, AssetAccounted(x)
             PROVE  AssetAccounted(x)'
  OBVIOUS
<1>1. CASE UNCHANGED << auctions, settlements, balance >>
  BY <1>1 DEF AssetAccounted, OpenIn, ClosedIn, LotsIn, Won, Earned, Created, Settled
<1>2. ASSUME NEW l \in Lots, NEW now_unix, Settle(l, now_unix) PROVE AssetAccounted(x)'
  BY <1>2, SettleKeepsFunds
<1>3. ASSUME NEW l \in Lots, NEW b \in Bidders, NEW amount \in Amounts, NEW now_unix,
             PlaceBid(l, b, amount, now_unix)
      PROVE  AssetAccounted(x)'
  BY <1>3, BidKeepsFunds
<1>4. ASSUME NEW l \in Lots, NEW a \in Assets, NEW t \in Treasuries, NEW r \in Reserves,
             NEW w \in Windows, CreateAuction(l, a, t, r, w[1], w[2])
      PROVE  AssetAccounted(x)'
  BY <1>4, CreateKeepsFunds
<1> QED
  BY <1>1, <1>2, <1>3, <1>4 DEF AuctionNext, AdvanceClock, Initialize, auctionVars

\* Both invariants together.
LEMMA FundsInvariant == AuctionSpec => [](AuctionInv /\ \A a \in Assets : AssetAccounted(a))
<1> DEFINE Inv == AuctionInv /\ \A a \in Assets : AssetAccounted(a)
<1>1. AuctionInit => Inv
  BY AuctionStarts, FundsStart
<1>2. Inv /\ [AuctionNext]_auctionVars => Inv'
  BY AuctionStep, FundsStep
<1> QED
  BY <1>1, <1>2, PTL DEF AuctionSpec

\* Every token is where the bids and settlements say: the contract holds the bids
\* not settled yet, and every account what it had, less its stakes and the prices
\* of what it won, plus the prices due to it.
THEOREM FundsAreAccounted == AuctionSpec => []FundsAccounted
<1>1. (\A a \in Assets : AssetAccounted(a)) => FundsAccounted
  BY FundsForm DEF AssetAccounted
<1> QED
  BY <1>1, FundsInvariant, PTL

\* What settling an auction transfers out of the contract.
transfers_of(l) ==
    LET bids   == auctions[l].bids
        result == settle_vickrey(auctions[l])
    IN  total(refunds_of(bids, result), DOMAIN bids) + total(proceeds_of(bids, result), DOMAIN bids)

EscrowCovers ==
    \A l \in Lots :
        Created(l) /\ ~Settled(l) /\ auctions[l].bids # << >>
            => balance[auctions[l].asset][AUCTION] >= transfers_of(l)

\* The contract's balance covers the transfers of every auction still to be settled,
\* whichever auctions in the same asset were settled before it: no settlement traps.
THEOREM EscrowsAreCovered == AuctionSpec => []EscrowCovers
<1>1. ASSUME AuctionInv, \A a \in Assets : AssetAccounted(a), NEW l \in Lots,
             Created(l), ~Settled(l), auctions[l].bids # << >>
      PROVE  balance[auctions[l].asset][AUCTION] >= transfers_of(l)
  <2> DEFINE bids  == auctions[l].bids
             asset == auctions[l].asset
             S == OpenIn(asset)
             f == stakes(auctions, Bidders)
  <2>1. bids \in Seq(Bid) /\ auctions[l].reserve_price \in Reserves /\ asset \in Assets
    BY <1>1, RecordFields
  <2>2. balance[asset][AUCTION] = SumFunctionOnSet(f, S)
    BY <1>1, <2>1 DEF AssetAccounted, total
  <2>3. l \in S /\ IsFiniteSet(S) /\ S \in SUBSET LotsIn(asset)
    BY <1>1, <2>1, FundsFinite DEF OpenIn, LotsIn
  <2>4. \A m \in S : f[m] \in Nat
    BY <1>1, <2>1, <2>3, FundsFinite
  <2>5. f[l] = transfers_of(l)
    <3>1. f[l] = total(amounts_of(bids), DOMAIN bids)
      BY <2>1, StakesOf DEF stakes
    <3> QED
      BY <1>1, <2>1, <3>1, SettlementPays DEF transfers_of
  <2> HIDE DEF f, S, bids
  <2>6. SumFunctionOnSet(f, S) = SumFunctionOnSet(f, S \ {l}) + f[l] /\ SumFunctionOnSet(f, S \ {l}) \in Nat
    BY <2>3, <2>4, SumDrop
  <2> QED
    BY <2>2, <2>3, <2>4, <2>5, <2>6
<1>2. AuctionInv /\ (\A a \in Assets : AssetAccounted(a)) => EscrowCovers
  BY <1>1 DEF EscrowCovers
<1> QED
  BY <1>2, FundsInvariant, PTL


-----------------------------------------------------------------------------
(* The listings. *)

LEMMA SmallerOf ==
    ASSUME NEW a \in Nat, NEW b \in Nat
    PROVE  Min({a, b}) = IF a <= b THEN a ELSE b
<1> DEFINE m == IF a <= b THEN a ELSE b
<1>1. m \in {a, b} /\ \A y \in {a, b} : m <= y
  OBVIOUS
<1>2. \A x \in {a, b} : (\A y \in {a, b} : x <= y) => x = m
  BY <1>1
<1> QED
  BY <1>1, <1>2 DEF Min

NoPage == [matched |-> 0, emitted |-> << >>, full |-> FALSE]

\* The loop of filter_index is defined: its turns determine the page.
LEMMA ScanTurns ==
    ASSUME NEW offset, NEW capped, NEW kept, Len(auction_names) \in Nat
    PROVE  /\ scanned(offset, capped, kept)[0] = NoPage
           /\ \A i \in 1 .. Len(auction_names) :
                scanned(offset, capped, kept)[i]
                    = look_at(scanned(offset, capped, kept)[i - 1], auction_names[i], offset, capped, kept)
<1> DEFINE Turn(page, i) == look_at(page, auction_names[i], offset, capped, kept)
           Turns(g, n) == g = [i \in 0 .. n |-> IF i = 0 THEN NoPage ELSE Turn(g[i - 1], i)]
           T == {n \in Nat : ~ \E g : Turns(g, n)}
<1>0. scanned(offset, capped, kept) = CHOOSE g : Turns(g, Len(auction_names))
  BY DEF scanned, NoPage
<1> HIDE DEF Turn
<1>1. T = {}
  <2> SUFFICES ASSUME T # {} PROVE FALSE
    OBVIOUS
  <2>1. PICK n \in T : \A m \in T : n <= m
    BY LeastElement
  <2>2. CASE n = 0
    <3> DEFINE g == [i \in 0 .. 0 |-> NoPage]
    <3>1. Turns(g, 0)
      OBVIOUS
    <3> QED
      BY <2>1, <2>2, <3>1
  <2>3. CASE n # 0
    <3>1. n - 1 \in Nat /\ n - 1 \notin T
      <4>1. n \in Nat
        BY <2>1
      <4> HIDE DEF T
      <4> QED
        BY <2>1, <2>3, <4>1
    <3>2. PICK h : Turns(h, n - 1)
      BY <3>1
    <3> DEFINE g == [i \in 0 .. n |-> IF i = n THEN Turn(h[n - 1], n) ELSE h[i]]
    <3>3. \A i \in 0 .. n - 1 : g[i] = h[i]
      BY <3>1
    <3>4. \A i \in 0 .. n - 1 : h[i] = IF i = 0 THEN NoPage ELSE Turn(h[i - 1], i)
      BY <3>2
    <3>5. \A i \in 0 .. n : g[i] = IF i = 0 THEN NoPage ELSE Turn(g[i - 1], i)
      <4> SUFFICES ASSUME NEW i \in 0 .. n
                   PROVE  g[i] = IF i = 0 THEN NoPage ELSE Turn(g[i - 1], i)
        OBVIOUS
      <4>1. CASE i = n
        BY <2>1, <2>3, <3>1, <3>3, <4>1
      <4>2. CASE i = 0
        BY <2>1, <2>3, <3>1, <3>3, <3>4, <4>2
      <4>3. CASE i \in 1 .. n - 1
        <5>1. i - 1 \in 0 .. n - 1
          BY <3>1, <4>3
        <5> QED
          BY <3>1, <3>3, <3>4, <4>3, <5>1
      <4> QED
        BY <2>1, <4>1, <4>2, <4>3
    <3>6. Turns(g, n)
      BY <3>5
    <3> QED
      BY <2>1, <3>6
  <2> QED
    BY <2>2, <2>3
<1>2. Turns(scanned(offset, capped, kept), Len(auction_names))
  BY <1>0, <1>1
<1> QED
  BY <1>2 DEF Turn

\* pos lists the places, up to i, of the names kept, in order.
Places(pos, i, kept) ==
    /\ pos \in Seq(1 .. i)
    /\ \A g, h \in 1 .. Len(pos) : g < h => pos[g] < pos[h]
    /\ \A p \in 1 .. i : auction_names[p] \in kept => \E g \in 1 .. Len(pos) : pos[g] = p
    /\ \A g \in 1 .. Len(pos) : auction_names[pos[g]] \in kept

\* The page that begins behind offset names of a listing, with capped names on it if
\* there are as many.
Size(length, offset, capped) ==
    IF length <= offset THEN 0 ELSE IF length - offset <= capped THEN length - offset ELSE capped

IsPage(page, pos, offset, capped) ==
    /\ page \in Seq(Lots)
    /\ Len(page) = Size(Len(pos), offset, capped)
    /\ \A g \in 1 .. Len(page) : page[g] = auction_names[pos[offset + g]]

\* Where the loop is after i names of which pos are kept.
Scanned(page, pos, offset, capped) ==
    /\ IsPage(page.emitted, pos, offset, capped)
    /\ page.full <=> Len(pos) >= offset + capped
    /\ ~page.full => page.matched = Len(pos)

\* One name more among the kept ones.
LEMMA PlaceAdded ==
    ASSUME NEW i \in Nat, i > 0, NEW kept, NEW pos, Places(pos, i - 1, kept), auction_names[i] \in kept
    PROVE  Places(Append(pos, i), i, kept)
<1> DEFINE n == Len(pos)
           new == Append(pos, i)
<1>1. n \in Nat /\ pos \in Seq(1 .. i - 1) /\ \A g \in 1 .. n : pos[g] \in 1 .. i - 1
  BY DEF Places
<1>2. pos \in Seq(1 .. i)
  <2>1. pos = [g \in 1 .. n |-> pos[g]] /\ \A g \in 1 .. n : pos[g] \in 1 .. i
    BY <1>1
  <2> QED
    BY <1>1, <2>1
<1>3. /\ new \in Seq(1 .. i) /\ Len(new) = n + 1 /\ new[n + 1] = i
      /\ \A g \in 1 .. n : new[g] = pos[g]
  BY <1>1, <1>2
<1> HIDE DEF n, new
<1>4. ASSUME NEW g \in 1 .. n + 1, NEW h \in 1 .. n + 1, g < h PROVE new[g] < new[h]
  <2>1. g \in 1 .. n
    BY <1>1, <1>4
  <2>2. CASE h \in 1 .. n
    BY <1>3, <1>4, <2>1, <2>2 DEF Places, n
  <2>3. CASE h = n + 1
    BY <1>1, <1>3, <2>1, <2>3
  <2> QED
    BY <1>1, <2>2, <2>3
<1>5. ASSUME NEW p \in 1 .. i, auction_names[p] \in kept PROVE \E g \in 1 .. n + 1 : new[g] = p
  <2>1. CASE p = i
    BY <1>1, <1>3, <2>1
  <2>2. CASE p \in 1 .. i - 1
    <3>1. PICK g \in 1 .. n : pos[g] = p
      BY <1>5, <2>2 DEF Places, n
    <3> QED
      BY <1>1, <1>3, <3>1
  <2> QED
    BY <2>1, <2>2
<1>6. ASSUME NEW g \in 1 .. n + 1 PROVE auction_names[new[g]] \in kept
  <2>1. CASE g \in 1 .. n
    BY <1>3, <2>1 DEF Places, n
  <2>2. CASE g = n + 1
    BY <1>3, <2>2
  <2> QED
    BY <1>1, <2>1, <2>2
<1> QED
  BY <1>3, <1>4, <1>5, <1>6 DEF Places, new

\* A name that is not kept is passed over.
LEMMA PlacePassed ==
    ASSUME NEW i \in Nat, i > 0, NEW kept, NEW pos, Places(pos, i - 1, kept), auction_names[i] \notin kept
    PROVE  Places(pos, i, kept)
<1>1. pos \in Seq(1 .. i - 1) /\ Len(pos) \in Nat /\ \A g \in 1 .. Len(pos) : pos[g] \in 1 .. i - 1
  BY DEF Places
<1>2. pos \in Seq(1 .. i)
  <2>1. pos = [g \in 1 .. Len(pos) |-> pos[g]] /\ \A g \in 1 .. Len(pos) : pos[g] \in 1 .. i
    BY <1>1
  <2> QED
    BY <1>1, <2>1
<1>3. \A p \in 1 .. i : auction_names[p] \in kept => p \in 1 .. i - 1
  OBVIOUS
<1> QED
  BY <1>1, <1>2, <1>3 DEF Places

LEMMA SizeFacts ==
    ASSUME NEW n \in Nat, NEW offset \in Nat, NEW capped \in Nat, capped > 0
    PROVE  /\ n >= offset + capped => Size(n, offset, capped) = capped /\ Size(n + 1, offset, capped) = capped
           /\ n < offset + capped /\ n >= offset =>
                Size(n, offset, capped) = n - offset /\ Size(n + 1, offset, capped) = n + 1 - offset
           /\ n < offset => Size(n, offset, capped) = 0 /\ Size(n + 1, offset, capped) = 0
           /\ n < offset + capped => Size(n, offset, capped) < capped
  BY DEF Size

LEMMA Appended ==
    ASSUME NEW S, NEW s \in Seq(S), NEW x \in S
    PROVE  /\ Append(s, x) \in Seq(S) /\ Len(Append(s, x)) = Len(s) + 1 /\ Append(s, x)[Len(s) + 1] = x
           /\ \A g \in 1 .. Len(s) : Append(s, x)[g] = s[g]
  OBVIOUS

\* What a turn does to the page.
LEMMA LookKeeps ==
    ASSUME auction_names \in Seq(Lots), NEW i \in 1 .. Len(auction_names), NEW kept,
           NEW offset \in Nat, NEW capped \in Nat, capped > 0,
           NEW pos, Places(pos, i - 1, kept), NEW page, Scanned(page, pos, offset, capped)
    PROVE  LET after == look_at(page, auction_names[i], offset, capped, kept)
           IN  /\ auction_names[i] \notin kept => Scanned(after, pos, offset, capped)
               /\ auction_names[i] \in kept => Scanned(after, Append(pos, i), offset, capped)
<1> DEFINE l     == auction_names[i]
           after == look_at(page, l, offset, capped, kept)
           new   == Append(pos, i)
           n     == Len(pos)
<1>1. /\ n \in Nat /\ new \in Seq(1 .. i) /\ Len(new) = n + 1 /\ new[n + 1] = i
      /\ \A g \in 1 .. n : new[g] = pos[g]
  <2>1. pos \in Seq(1 .. i - 1) /\ \A g \in 1 .. n : pos[g] \in 1 .. i
    BY DEF Places
  <2>2. pos \in Seq(1 .. i)
    <3>1. pos = [g \in 1 .. n |-> pos[g]] /\ n \in Nat
      BY <2>1
    <3> QED
      BY <2>1, <3>1
  <2> QED
    BY <2>1, <2>2
<1>2. l \in Lots
  OBVIOUS
<1>3. /\ page.emitted \in Seq(Lots) /\ Len(page.emitted) = Size(n, offset, capped)
      /\ \A g \in 1 .. Len(page.emitted) : page.emitted[g] = auction_names[pos[offset + g]]
      /\ page.full <=> n >= offset + capped
      /\ ~page.full => page.matched = n
  BY DEF Scanned, IsPage
<1>4. l \notin kept => after = page
  BY DEF look_at
<1> HIDE DEF new, n
<1>5. ASSUME l \in kept, page.full PROVE Scanned(after, new, offset, capped)
  <2>1. after = page /\ n >= offset + capped
    BY <1>3, <1>5 DEF look_at
  <2>2. Size(n + 1, offset, capped) = capped /\ Size(n, offset, capped) = capped
    BY <1>1, <2>1, SizeFacts
  <2>3. \A g \in 1 .. capped : offset + g \in 1 .. n
    BY <1>1, <2>1
  <2>4. \A g \in 1 .. Len(page.emitted) : page.emitted[g] = auction_names[new[offset + g]]
    BY <1>1, <1>3, <2>2, <2>3
  <2> QED
    BY <1>1, <1>3, <1>5, <2>1, <2>2, <2>4 DEF Scanned, IsPage
<1>6. ASSUME l \in kept, ~page.full PROVE Scanned(after, new, offset, capped)
  <2>1. n < offset + capped /\ page.matched = n
    BY <1>1, <1>3, <1>6
  <2>2. Len(page.emitted) < capped
    BY <1>1, <1>3, <2>1, SizeFacts
  <2> DEFINE emitted == IF n >= offset THEN Append(page.emitted, l) ELSE page.emitted
  <2>3. after = [matched |-> n + 1, emitted |-> emitted, full |-> Len(emitted) >= capped]
    BY <1>6, <2>1, <2>2, Zenon DEF look_at
  <2>a. /\ after.matched = n + 1 /\ after.emitted = emitted /\ after.full = (Len(emitted) >= capped)
    BY <2>3
  <2>b. (n >= offset => emitted = Append(page.emitted, l)) /\ (n < offset => emitted = page.emitted)
    BY <1>1
  <2> HIDE DEF after, emitted, l
  <2>4. CASE n >= offset
    <3>1. Len(page.emitted) = n - offset /\ Size(n + 1, offset, capped) = n + 1 - offset
      BY <1>1, <1>3, <2>1, <2>4, SizeFacts
    <3>2. /\ emitted \in Seq(Lots) /\ Len(emitted) = n - offset + 1 /\ emitted[n - offset + 1] = l
          /\ \A g \in 1 .. n - offset : emitted[g] = page.emitted[g]
      <4>1. page.emitted \in Seq(Lots) /\ emitted = Append(page.emitted, l)
        BY <1>3, <2>b, <2>4
      <4> DEFINE s == page.emitted
      <4>2. s \in Seq(Lots) /\ l \in Lots
        BY <1>2, <4>1
      <4> HIDE DEF s
      <4>3. /\ Append(s, l) \in Seq(Lots) /\ Len(Append(s, l)) = Len(s) + 1 /\ Append(s, l)[Len(s) + 1] = l
            /\ \A g \in 1 .. Len(s) : Append(s, l)[g] = s[g]
        BY <4>2, Appended
      <4> QED
        BY <3>1, <4>1, <4>3 DEF s
    <3>3. ASSUME NEW g \in 1 .. Len(emitted) PROVE emitted[g] = auction_names[new[offset + g]]
      <4>1. CASE g = n + 1 - offset
        <5>1. emitted[g] = l /\ offset + g = n + 1
          BY <1>1, <2>4, <3>2, <4>1
        <5> QED
          BY <1>1, <5>1 DEF l
      <4>2. CASE g # n + 1 - offset
        <5>1. g \in 1 .. Len(page.emitted) /\ offset + g \in 1 .. n
          BY <1>1, <2>4, <3>1, <3>2, <4>2
        <5>2. emitted[g] = page.emitted[g]
          BY <3>1, <3>2, <5>1
        <5> QED
          BY <1>1, <1>3, <5>1, <5>2
      <4> QED
        BY <4>1, <4>2
    <3>4. (Len(emitted) >= capped) <=> n + 1 >= offset + capped
      BY <1>1, <3>2
    <3>5. IsPage(emitted, new, offset, capped)
      BY <1>1, <3>1, <3>2, <3>3 DEF IsPage
    <3> QED
      BY <1>1, <2>3, <2>a, <3>4, <3>5 DEF Scanned
  <2>5. CASE n < offset
    <3>1. Len(page.emitted) = 0 /\ Size(n + 1, offset, capped) = 0 /\ ~(n + 1 >= offset + capped)
      <4>1. Size(n, offset, capped) = 0 /\ Size(n + 1, offset, capped) = 0
        BY <1>1, <2>5 DEF Size
      <4>2. ~(n + 1 >= offset + capped)
        BY <1>1, <2>5
      <4>3. Len(page.emitted) = Size(n, offset, capped)
        BY <1>3
      <4> QED
        BY <4>1, <4>2, <4>3
    <3>2. emitted = page.emitted
      BY <2>b, <2>5
    <3>3. IsPage(emitted, new, offset, capped)
      BY <1>1, <1>3, <3>1, <3>2 DEF IsPage
    <3>4. ~(Len(emitted) >= capped)
      BY <3>1, <3>2
    <3> QED
      BY <1>1, <2>a, <3>1, <3>3, <3>4 DEF Scanned
  <2> QED
    BY <1>1, <2>4, <2>5
<1>7. l \notin kept => Scanned(after, pos, offset, capped)
  BY <1>4
<1> QED
  BY <1>5, <1>6, <1>7 DEF new

\* At the end of the loop: the places of the names kept are the same for every page.
LEMMA ScanPlaces ==
    ASSUME auction_names \in Seq(Lots), NEW kept
    PROVE  \E pos :
              /\ Places(pos, Len(auction_names), kept)
              /\ \A offset \in Nat, capped \in Nat \ {0} :
                    Scanned(scanned(offset, capped, kept)[Len(auction_names)], pos, offset, capped)
<1> DEFINE n == Len(auction_names)
           Placed(i, pos) ==
              /\ Places(pos, i, kept)
              /\ \A offset \in Nat, capped \in Nat \ {0} :
                    Scanned(scanned(offset, capped, kept)[i], pos, offset, capped)
           T == {i \in Nat : i \in 0 .. n /\ ~ \E pos : Placed(i, pos)}
<1>1. n \in Nat
  OBVIOUS
<1>2. Placed(0, << >>)
  <2>1. Places(<< >>, 0, kept)
    BY DEF Places
  <2>2. ASSUME NEW offset \in Nat, NEW capped \in Nat \ {0}
        PROVE  Scanned(scanned(offset, capped, kept)[0], << >>, offset, capped)
    <3>1. scanned(offset, capped, kept)[0] = NoPage
      BY ScanTurns
    <3>2. Scanned(NoPage, << >>, offset, capped)
      BY DEF Scanned, IsPage, NoPage, Size
    <3> QED
      BY <3>1, <3>2
  <2> QED
    BY <2>1, <2>2
<1>3. ASSUME NEW i \in 1 .. n, NEW pos, Placed(i - 1, pos) PROVE \E new : Placed(i, new)
  <2>1. \A offset \in Nat, capped \in Nat \ {0} :
            scanned(offset, capped, kept)[i]
                = look_at(scanned(offset, capped, kept)[i - 1], auction_names[i], offset, capped, kept)
    BY ScanTurns
  <2>2. CASE auction_names[i] \in kept
    <3>1. Places(Append(pos, i), i, kept)
      BY <1>3, <2>2, PlaceAdded
    <3>2. ASSUME NEW offset \in Nat, NEW capped \in Nat \ {0}
          PROVE  Scanned(scanned(offset, capped, kept)[i], Append(pos, i), offset, capped)
      <4> DEFINE page == scanned(offset, capped, kept)[i - 1]
      <4>1. Places(pos, i - 1, kept) /\ Scanned(page, pos, offset, capped) /\ capped \in Nat /\ capped > 0
        BY <1>3
      <4> HIDE DEF page
      <4>2. Scanned(look_at(page, auction_names[i], offset, capped, kept), Append(pos, i), offset, capped)
        BY <2>2, <4>1, LookKeeps
      <4> QED
        BY <2>1, <4>2 DEF page
    <3> QED
      BY <3>1, <3>2
  <2>3. CASE auction_names[i] \notin kept
    <3>1. Places(pos, i, kept)
      BY <1>3, <2>3, PlacePassed
    <3>2. ASSUME NEW offset \in Nat, NEW capped \in Nat \ {0}
          PROVE  Scanned(scanned(offset, capped, kept)[i], pos, offset, capped)
      <4> DEFINE page == scanned(offset, capped, kept)[i - 1]
      <4>1. Places(pos, i - 1, kept) /\ Scanned(page, pos, offset, capped) /\ capped \in Nat /\ capped > 0
        BY <1>3
      <4> HIDE DEF page
      <4>2. Scanned(look_at(page, auction_names[i], offset, capped, kept), pos, offset, capped)
        BY <2>3, <4>1, LookKeeps
      <4> QED
        BY <2>1, <4>2 DEF page
    <3> QED
      BY <3>1, <3>2
  <2> QED
    BY <2>2, <2>3
<1> HIDE DEF Placed, n
<1>4. T = {}
  <2> SUFFICES ASSUME T # {} PROVE FALSE
    OBVIOUS
  <2>1. PICK i \in T : \A j \in T : i <= j
    BY LeastElement
  <2>2. i # 0
    BY <1>2, <2>1
  <2>3. i - 1 \in 0 .. n /\ i - 1 \in Nat /\ i \in 1 .. n
    BY <1>1, <2>1, <2>2
  <2>4. i - 1 \notin T
    <3>1. i \in Nat
      BY <2>1
    <3> HIDE DEF T
    <3> QED
      BY <2>1, <3>1
  <2>5. PICK pos : Placed(i - 1, pos)
    BY <2>3, <2>4
  <2> QED
    BY <1>3, <2>1, <2>3, <2>5
<1>5. n \in 0 .. n /\ n \in Nat
  BY <1>1
<1> QED
  BY <1>4, <1>5 DEF Placed, n

\* The names listed up to the g-th are at least g.
LEMMA PlacesBound ==
    ASSUME NEW n \in Nat, NEW kept, NEW pos, Places(pos, n, kept)
    PROVE  Len(pos) \in Nat /\ Len(pos) <= n
<1> DEFINE T == {g \in Nat : g \in 1 .. Len(pos) /\ pos[g] < g}
<1>1. Len(pos) \in Nat /\ \A g \in 1 .. Len(pos) : pos[g] \in 1 .. n
  BY DEF Places
<1>2. T = {}
  <2> SUFFICES ASSUME T # {} PROVE FALSE
    OBVIOUS
  <2>1. PICK g \in T : \A h \in T : g <= h
    BY LeastElement
  <2>2. g \in 1 .. Len(pos) /\ pos[g] < g /\ pos[g] \in 1 .. n
    BY <1>1, <2>1
  <2>3. g - 1 \in 1 .. Len(pos)
    BY <1>1, <2>2
  <2>4. pos[g - 1] < pos[g] /\ pos[g - 1] \in 1 .. n
    BY <1>1, <2>2, <2>3 DEF Places
  <2>5. g - 1 \in T
    BY <1>1, <2>2, <2>3, <2>4
  <2> HIDE DEF T
  <2> QED
    BY <2>1, <2>2, <2>5
<1>3. CASE Len(pos) > 0
  <2>1. Len(pos) \in 1 .. Len(pos)
    BY <1>1, <1>3
  <2>2. ~(pos[Len(pos)] < Len(pos))
    BY <1>1, <1>2, <2>1
  <2> QED
    BY <1>1, <2>1, <2>2
<1> QED
  BY <1>1, <1>3


\* Pages of one size, taken in turn, show every name kept, in the order of creation.
LEMMA PagesListed ==
    ASSUME auction_names \in Seq(Lots), NEW kept, kept \subseteq Range(auction_names),
           NEW pos, Places(pos, Len(auction_names), kept),
           NEW size \in Nat, size > 0, NEW pages, DOMAIN pages = 1 .. Len(auction_names) + 1,
           \A k \in 1 .. Len(auction_names) + 1 : IsPage(pages[k], pos, size * (k - 1), size)
    PROVE  PagesList(pages, kept)
<1> DEFINE n == Len(auction_names)
           m == Len(pos)
           Before(k) == size * (k - 1)
<1>1. /\ n \in Nat /\ m \in Nat /\ m <= n
      /\ \A g \in 1 .. m : pos[g] \in 1 .. n /\ auction_names[pos[g]] \in kept
      /\ \A g, h \in 1 .. m : g < h => pos[g] < pos[h]
      /\ \A p \in 1 .. n : auction_names[p] \in kept => \E g \in 1 .. m : pos[g] = p
  <2>1. n \in Nat
    OBVIOUS
  <2>2. m \in Nat /\ m <= n
    BY <2>1, PlacesBound
  <2> QED
    BY <2>1, <2>2 DEF Places
<1>2. /\ \A k \in 1 .. n + 1 : Before(k) \in Nat
      /\ Before(1) = 0
      /\ \A k \in 1 .. n : Before(k + 1) = Before(k) + size
  BY <1>1
<1>3. \A k \in 1 .. n + 1 : Before(k) >= k - 1
  <2> SUFFICES ASSUME NEW k \in 1 .. n + 1 PROVE Before(k) >= k - 1
    OBVIOUS
  <2> DEFINE a == size - 1
             b == k - 1
  <2>1. a \in Nat /\ b \in Nat /\ size = a + 1
    BY <1>1
  <2>2. b = k - 1
    OBVIOUS
  <2> HIDE DEF a, b
  <2>3. a * b \in Nat /\ (a + 1) * b = a * b + b
    BY <2>1
  <2> QED
    BY <2>1, <2>2, <2>3
<1>4. \A j, k \in 1 .. n + 1 : j < k => Before(j) + size <= Before(k)
  <2> SUFFICES ASSUME NEW j \in 1 .. n + 1, NEW k \in 1 .. n + 1, j < k PROVE Before(j) + size <= Before(k)
    OBVIOUS
  <2> DEFINE d == (k - 1) - j
  <2>1. d \in Nat /\ j \in Nat /\ k - 1 = j + d
    BY <1>1
  <2> HIDE DEF d
  <2>2. size * (j + d) = size * j + size * d
    BY <2>1
  <2>3. size * d \in Nat
    BY <2>1
  <2>4. size * j = size * (j - 1) + size
    BY <2>1
  <2>5. size * j \in Nat /\ size * (j - 1) \in Int
    BY <2>1
  <2> QED
    BY <2>1, <2>2, <2>3, <2>4, <2>5
<1>5. \A k \in 1 .. n + 1 :
         /\ Len(pages[k]) = Size(m, Before(k), size)
         /\ DOMAIN pages[k] = 1 .. Len(pages[k])
         /\ \A i \in 1 .. Len(pages[k]) : pages[k][i] = auction_names[pos[Before(k) + i]]
  BY DEF IsPage
<1> HIDE DEF n, m, Before
<1>6. \A k \in 1 .. n + 1 : \A i \in DOMAIN pages[k] :
         /\ i \in Nat /\ i >= 1 /\ i <= size
         /\ Before(k) + i \in 1 .. m
         /\ pages[k][i] = auction_names[pos[Before(k) + i]]
  <2> SUFFICES ASSUME NEW k \in 1 .. n + 1, NEW i \in 1 .. Len(pages[k])
               PROVE  i \in Nat /\ i >= 1 /\ i <= size /\ Before(k) + i \in 1 .. m
    BY <1>5
  <2>1. Before(k) \in Nat /\ Len(pages[k]) = Size(m, Before(k), size)
    BY <1>2, <1>5
  <2> QED
    BY <1>1, <2>1 DEF Size
<1>7. ASSUME NEW g \in 1 .. m
      PROVE  \E k \in 1 .. n + 1 : \E i \in DOMAIN pages[k] : pages[k][i] = auction_names[pos[g]]
  <2> DEFINE T == {k \in Nat : k \in 1 .. n + 1 /\ Before(k) < g}
             U == {k \in Nat : k \in 1 .. n + 1 /\ g <= Before(k)}
  <2>1. PICK k \in 1 .. n : Before(k) < g /\ g <= Before(k + 1)
    <3>1. n + 1 \in U
      <4>1. n + 1 \in 1 .. n + 1 /\ n + 1 \in Nat
        BY <1>1
      <4>2. Before(n + 1) \in Nat /\ Before(n + 1) >= (n + 1) - 1
        BY <1>2, <1>3, <4>1
      <4> QED
        BY <1>1, <4>1, <4>2
    <3>2. PICK u \in U : \A v \in U : u <= v
      BY <3>1, LeastElement
    <3>3. u \in 1 .. n + 1 /\ g <= Before(u) /\ u # 1
      BY <1>1, <1>2, <3>2
    <3>4. u - 1 \in 1 .. n /\ u - 1 \notin U
      <4>1. u \in Nat
        BY <3>2
      <4>2. u - 1 \in 1 .. n
        BY <1>1, <3>3
      <4> HIDE DEF U
      <4> QED
        BY <3>2, <4>1, <4>2
    <3>5. u - 1 \in 1 .. n + 1 /\ u - 1 \in Nat /\ Before(u - 1) \in Nat
      BY <1>1, <1>2, <3>4
    <3>6. Before(u - 1) < g
      BY <3>4, <3>5
    <3>7. (u - 1) + 1 = u
      BY <3>3
    <3> QED
      BY <3>3, <3>4, <3>6, <3>7
  <2>2. k \in 1 .. n + 1 /\ Before(k) \in Nat /\ Before(k + 1) = Before(k) + size
    BY <1>1, <1>2, <2>1
  <2>3. Len(pages[k]) = Size(m, Before(k), size)
    BY <1>5, <2>2
  <2>4. g - Before(k) \in 1 .. Len(pages[k])
    BY <1>1, <2>1, <2>2, <2>3 DEF Size
  <2>5. Before(k) + (g - Before(k)) = g
    BY <1>1, <2>2
  <2>6. g - Before(k) \in DOMAIN pages[k]
    BY <1>5, <2>2, <2>4
  <2>7. pages[k][g - Before(k)] = auction_names[pos[g]]
    BY <1>5, <2>2, <2>4, <2>5
  <2> QED
    BY <2>2, <2>6, <2>7
<1>8. UNION {Range(pages[k]) : k \in DOMAIN pages} = kept
  <2>1. ASSUME NEW k \in DOMAIN pages, NEW i \in DOMAIN pages[k] PROVE pages[k][i] \in kept
    <3>1. k \in 1 .. n + 1
      BY DEF n
    <3> QED
      BY <1>1, <1>6, <3>1
  <2>2. ASSUME NEW l \in kept PROVE \E k \in DOMAIN pages : l \in Range(pages[k])
    <3>1. PICK p \in 1 .. n : auction_names[p] = l
      BY DEF Range, n
    <3>2. PICK g \in 1 .. m : pos[g] = p
      BY <1>1, <3>1
    <3>3. PICK k \in 1 .. n + 1 : \E i \in DOMAIN pages[k] : pages[k][i] = l
      BY <1>7, <3>1, <3>2
    <3> QED
      BY <3>3 DEF Range, n
  <2> QED
    BY <2>1, <2>2 DEF Range
<1>9. ASSUME NEW k \in DOMAIN pages, NEW q \in DOMAIN pages, NEW i \in DOMAIN pages[k], NEW j \in DOMAIN pages[q],
             k < q \/ (k = q /\ i < j)
      PROVE  \E a, b \in DOMAIN auction_names :
                a < b /\ auction_names[a] = pages[k][i] /\ auction_names[b] = pages[q][j]
  <2> DEFINE g == Before(k) + i
             h == Before(q) + j
  <2>1. k \in 1 .. n + 1 /\ q \in 1 .. n + 1
    BY DEF n
  <2>2. /\ i \in Nat /\ i <= size /\ j \in Nat /\ j >= 1
        /\ g \in 1 .. m /\ h \in 1 .. m
        /\ pages[k][i] = auction_names[pos[g]] /\ pages[q][j] = auction_names[pos[h]]
    BY <1>6, <2>1
  <2>3. Before(k) \in Nat /\ Before(q) \in Nat
    BY <1>2, <2>1
  <2>4. g < h
    <3>1. CASE k < q
      <4>1. Before(k) + size <= Before(q)
        BY <1>4, <2>1, <3>1
      <4> QED
        BY <2>2, <2>3, <4>1
    <3>2. CASE k = q /\ i < j
      BY <2>2, <2>3, <3>2
    <3> QED
      BY <1>9, <3>1, <3>2
  <2> HIDE DEF g, h
  <2>5. pos[g] < pos[h] /\ pos[g] \in 1 .. n /\ pos[h] \in 1 .. n
    BY <1>1, <2>2, <2>4
  <2>6. pos[g] \in DOMAIN auction_names /\ pos[h] \in DOMAIN auction_names
    BY <2>5 DEF n
  <2> QED
    BY <2>2, <2>5, <2>6
<1> QED
  BY <1>8, <1>9 DEF PagesList

\* A slice of the index is a page of the listing of all names.
LEMMA SliceIsPage ==
    ASSUME auction_names \in Seq(Lots), NEW offset \in Nat, NEW limit \in Nat,
           NEW pos, pos = [g \in 1 .. Len(auction_names) |-> g]
    PROVE  /\ Places(pos, Len(auction_names), Range(auction_names))
           /\ IsPage(slice_index(offset, limit), pos, offset, Min({limit, MaxPageSize}))
<1> DEFINE n == Len(auction_names)
           c == Min({limit, MaxPageSize})
           end == Min({offset + c, n})
           page == slice_index(offset, limit)
<1>1. n \in Nat /\ c \in Nat
  BY AuctionAssumption, SmallerOf
<1> HIDE DEF c
<1>2. end = IF offset + c <= n THEN offset + c ELSE n
  <2>1. offset + c \in Nat
    BY <1>1
  <2> QED
    BY <1>1, <2>1, SmallerOf
<1>3. pos \in Seq(1 .. n) /\ Len(pos) = n /\ \A g \in 1 .. n : pos[g] = g
  BY <1>1
<1>4. Places(pos, n, Range(auction_names))
  BY <1>1, <1>3 DEF Places, Range
<1>5. page = SubSeq(auction_names, offset + 1, end)
  BY DEF slice_index, c
<1> HIDE DEF page, end
<1>6. end \in Nat /\ end <= n
  BY <1>1, <1>2
<1>7. page \in Seq(Lots) /\ Len(page) = IF offset + 1 <= end THEN end - offset ELSE 0
  BY <1>1, <1>5, <1>6
<1>8. \A g \in 1 .. Len(page) : page[g] = auction_names[offset + g]
  BY <1>1, <1>5, <1>6, <1>7
<1>9. Len(page) = Size(n, offset, c)
  BY <1>1, <1>2, <1>7 DEF Size
<1>10. \A g \in 1 .. Len(page) : offset + g \in 1 .. n
  BY <1>1, <1>6, <1>7
<1> QED
  BY <1>3, <1>4, <1>7, <1>8, <1>9, <1>10 DEF IsPage, page, c

\* Nothing that belongs in a listing is missing from its pages or on them twice,
\* whichever names are settled or open, at any page size.
THEOREM PagesAreComplete == AuctionSpec => []PagesComplete
<1>1. ASSUME AuctionInv PROVE PagesComplete
  <2>1. /\ auction_names \in Seq(Lots) /\ Len(auction_names) \in Nat
        /\ Range(auction_names) = {l \in Lots : Created(l)}
    BY <1>1 DEF AuctionInv, AuctionTypeOK, ListedType
  <2> SUFFICES ASSUME NEW limit \in 1 .. MaxPageSize + 1, NEW now_unix \in CallerTimes
               PROVE  LET open      == {l \in Lots : Created(l) /\ is_open(l, now_unix)}
                          settled   == {l \in Lots : Settled(l)}
                          turns     == 1 .. Len(auction_names) + 1
                          offset(k) == Min({limit, MaxPageSize}) * (k - 1)
                      IN  /\ PagesList([k \in turns |-> slice_index(offset(k), limit)], {l \in Lots : Created(l)})
                          /\ \A kept \in {open, settled} :
                                PagesList([k \in turns |-> filter_index(offset(k), limit, kept)], kept)
    BY DEF PagesComplete
  <2> DEFINE open      == {l \in Lots : Created(l) /\ is_open(l, now_unix)}
             settled   == {l \in Lots : Settled(l)}
             turns     == 1 .. Len(auction_names) + 1
             c         == Min({limit, MaxPageSize})
             offset(k) == c * (k - 1)
  <2>2. limit \in Nat /\ c \in Nat \ {0} /\ c \in Nat /\ c > 0
    BY AuctionAssumption, SmallerOf
  <2>3. c = Min({limit, MaxPageSize})
    OBVIOUS
  <2> HIDE DEF c
  <2>4. \A k \in turns : offset(k) \in Nat
    BY <2>1, <2>2
  <2>5. PagesList([k \in turns |-> slice_index(offset(k), limit)], {l \in Lots : Created(l)})
    <3> DEFINE pages == [k \in turns |-> slice_index(offset(k), limit)]
               pos   == [g \in 1 .. Len(auction_names) |-> g]
    <3>1. Places(pos, Len(auction_names), Range(auction_names))
      BY <2>1, <2>2, SliceIsPage
    <3>2. \A k \in turns : IsPage(pages[k], pos, offset(k), c)
      BY <2>1, <2>2, <2>3, <2>4, SliceIsPage
    <3>3. DOMAIN pages = turns
      OBVIOUS
    <3> HIDE DEF pages, pos
    <3>4. PagesList(pages, Range(auction_names))
      BY <2>1, <2>2, <3>1, <3>2, <3>3, PagesListed
    <3> QED
      BY <2>1, <3>4 DEF pages
  <2>6. ASSUME NEW kept, kept \subseteq Range(auction_names)
        PROVE  PagesList([k \in turns |-> filter_index(offset(k), limit, kept)], kept)
    <3> DEFINE pages == [k \in turns |-> filter_index(offset(k), limit, kept)]
    <3>1. PICK pos :
             /\ Places(pos, Len(auction_names), kept)
             /\ \A o \in Nat, d \in Nat \ {0} :
                    Scanned(scanned(o, d, kept)[Len(auction_names)], pos, o, d)
      BY <2>1, ScanPlaces
    <3>2. \A k \in turns : IsPage(pages[k], pos, offset(k), c)
      BY <2>2, <2>3, <2>4, <3>1 DEF filter_index, Scanned
    <3>3. DOMAIN pages = turns
      OBVIOUS
    <3> HIDE DEF pages
    <3>4. PagesList(pages, kept)
      BY <2>1, <2>2, <2>6, <3>1, <3>2, <3>3, PagesListed
    <3> QED
      BY <3>4 DEF pages
  <2>7. open \subseteq Range(auction_names) /\ settled \subseteq Range(auction_names)
    BY <1>1, <2>1 DEF AuctionInv, SettledRight
  <2> QED
    BY <2>3, <2>5, <2>6, <2>7
<1> QED
  BY <1>1, AuctionInvariant, PTL

=============================================================================
