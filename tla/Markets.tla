------------------------------- MODULE Markets -------------------------------
(***************************************************************************)
(* Two markets that share no state.  A call that fails reverts, so it is   *)
(* no action.                                                              *)
(*                                                                         *)
(* The exchange of contracts/hybrid_amm_lob: a limit order book in front   *)
(* of a constant-product pool, over one balance of each token.  A swap     *)
(* fills orders first, best price and oldest order first, and takes the    *)
(* rest from the pool.  Orders and reserves are paid from the same         *)
(* balances, so an order that is settled or refunded for more than was     *)
(* deposited for it is paid by the pool.  The balances held by the         *)
(* contract are kept apart from what its books say (`held').               *)
(*                                                                         *)
(* The English and the Dutch auction (contracts/english_auction,           *)
(* contracts/dutch_auction) the factory deploys for the same token: their  *)
(* addresses depend on the kind of auction, so one item can have both, and *)
(* its owner may hand it to either, before or after it was sold.  A        *)
(* transfer fails when its sender lacks the item or the money.             *)
(***************************************************************************)
EXTENDS Integers, Sequences, SequencesExt, FiniteSetsExt

(* The order book.                                                         *)

CONSTANTS User,
          BPS, PRICE_SCALE,
          lp_fee_bps, maker_fee_bps,
          Prices,        \* the limit prices used
          MaxAmount,     \* bound on the amounts of a call
          MaxReserve,    \* bound on the balances
          MaxOrders      \* bound on the orders placed

VARIABLES pool,     \* reserves, total shares and the next order id
          lp,       \* shares by user
          bids, asks,
          held      \* external: the contract's balance of each token

bookVars == <<pool, lp, bids, asks, held>>

Amounts == 1..MaxAmount

BookInit ==
    /\ pool = [a |-> 0, b |-> 0, shares |-> 0, next |-> 1]
    /\ lp = [u \in User |-> 0]
    /\ bids = << >> /\ asks = << >>
    /\ held = [a |-> 0, b |-> 0]

-----------------------------------------------------------------------------
(* Liquidity. *)

\* The Newton iteration of the code ends at the integer square root.
sqrt(x) == Max({r \in 0..x : r * r <= x})

SharesFor(x, y) ==
    IF pool.shares = 0 THEN sqrt(x * y)
    ELSE Min({(x * pool.shares) \div pool.a, (y * pool.shares) \div pool.b})

deposit(u, x, y) ==
    /\ pool.shares > 0 => pool.a > 0 /\ pool.b > 0
    /\ held.a + x <= MaxReserve /\ held.b + y <= MaxReserve
    /\ LET s == SharesFor(x, y)
       IN  /\ lp' = [lp EXCEPT ![u] = @ + s]
           /\ pool' = [pool EXCEPT !.a = @ + x, !.b = @ + y, !.shares = @ + s]
    /\ held' = [a |-> held.a + x, b |-> held.b + y]
    /\ UNCHANGED <<bids, asks>>

withdraw(u, s) ==
    LET x == (s * pool.a) \div pool.shares
        y == (s * pool.b) \div pool.shares
    IN  /\ s \in 1..lp[u]
        /\ x <= held.a /\ y <= held.b
        /\ lp' = [lp EXCEPT ![u] = @ - s]
        /\ pool' = [pool EXCEPT !.a = @ - x, !.b = @ - y, !.shares = @ - s]
        /\ held' = [a |-> held.a - x, b |-> held.b - y]
        /\ UNCHANGED <<bids, asks>>

-----------------------------------------------------------------------------
(* Orders. *)

Cost(amount, price) == (amount * price) \div PRICE_SCALE

\* Behind every order of the same or a better price.
insert_bid(o) ==
    InsertAt(bids, 1 + Cardinality({k \in DOMAIN bids : bids[k].price >= o.price}), o)
insert_ask(o) ==
    InsertAt(asks, 1 + Cardinality({k \in DOMAIN asks : asks[k].price <= o.price}), o)

place_order(u, is_bid, price, amount) ==
    LET o == [id |-> pool.next, maker |-> u, price |-> price, amount |-> amount]
    IN  /\ pool.next <= MaxOrders
        /\ pool' = [pool EXCEPT !.next = @ + 1]
        /\ IF is_bid
           THEN /\ held.b + Cost(amount, price) <= MaxReserve
                /\ held' = [held EXCEPT !.b = @ + Cost(amount, price)]
                /\ bids' = insert_bid(o)
                /\ UNCHANGED asks
           ELSE /\ held.a + amount <= MaxReserve
                /\ held' = [held EXCEPT !.a = @ + amount]
                /\ asks' = insert_ask(o)
                /\ UNCHANGED bids
        /\ UNCHANGED lp

cancel_bid(i) ==
    LET refund == Cost(bids[i].amount, bids[i].price)
    IN  /\ refund <= held.b
        /\ held' = [held EXCEPT !.b = @ - refund]
        /\ bids' = RemoveAt(bids, i)
        /\ UNCHANGED <<pool, lp, asks>>

cancel_ask(i) ==
    /\ held' = [held EXCEPT !.a = @ - asks[i].amount]
    /\ asks' = RemoveAt(asks, i)
    /\ UNCHANGED <<pool, lp, bids>>

-----------------------------------------------------------------------------
(* A swap walks the book, and asks the pool for what is left. *)

Kept(book, o) == IF o.amount = 0 THEN book ELSE Append(book, o)

FillAsk(acc, o) ==
    LET fill == Min({acc.left, o.amount})
        base == Cost(fill, o.price)
        cost == base + (base * maker_fee_bps) \div BPS
    IN  [left |-> acc.left - fill, in |-> acc.in + cost,
         book |-> Kept(acc.book, [o EXCEPT !.amount = @ - fill])]

FillBid(acc, o) ==
    LET fill_b == Min({acc.left, Cost(o.amount, o.price)})
        fill_a == (fill_b * PRICE_SCALE) \div o.price
    IN  [left |-> acc.left - fill_b, in |-> acc.in + fill_a,
         book |-> Kept(acc.book, [o EXCEPT !.amount = @ - fill_a])]

Start(out) == [left |-> out, in |-> 0, book |-> << >>]

AmmIn(reserve_in, reserve_out, out) ==
    IF out = 0 THEN 0
    ELSE (reserve_in * out * BPS) \div ((reserve_out - out) * (BPS - lp_fee_bps)) + 1

\* The makers and the book's share of the taker are paid before the taker pays.
swap_buy_a(out) ==
    LET f   == FoldLeft(FillAsk, Start(out), asks)
        amm == AmmIn(pool.b, pool.a, f.left)
    IN  /\ f.left > 0 => f.left < pool.a
        /\ out <= held.a /\ f.in <= held.b
        /\ held.b + amm <= MaxReserve
        /\ asks' = f.book
        /\ pool' = [pool EXCEPT !.a = @ - f.left, !.b = @ + amm]
        /\ held' = [a |-> held.a - out, b |-> held.b + amm]
        /\ UNCHANGED <<lp, bids>>

swap_buy_b(out) ==
    LET f   == FoldLeft(FillBid, Start(out), bids)
        amm == AmmIn(pool.a, pool.b, f.left)
    IN  /\ f.left > 0 => f.left < pool.b
        /\ out <= held.b /\ f.in <= held.a
        /\ held.a + amm <= MaxReserve
        /\ bids' = f.book
        /\ pool' = [pool EXCEPT !.a = @ + amm, !.b = @ - f.left]
        /\ held' = [a |-> held.a + amm, b |-> held.b - out]
        /\ UNCHANGED <<lp, asks>>

BookNext ==
    \/ \E u \in User : \/ \E x, y \in Amounts : deposit(u, x, y)
                       \/ \E s \in Amounts : withdraw(u, s)
                       \/ \E b \in BOOLEAN, p \in Prices, x \in Amounts : place_order(u, b, p, x)
    \/ \E i \in DOMAIN bids : cancel_bid(i)
    \/ \E i \in DOMAIN asks : cancel_ask(i)
    \/ \E out \in Amounts : swap_buy_a(out) \/ swap_buy_b(out)

BookSpec == BookInit /\ [][BookNext]_bookVars

-----------------------------------------------------------------------------
Total(book) == FoldLeft(LAMBDA n, o : n + o.amount, 0, book)

Ordered(book, Better(_, _)) ==
    \A i, j \in DOMAIN book : i < j =>
        \/ Better(book[i].price, book[j].price)
        \/ book[i].price = book[j].price /\ book[i].id < book[j].id

(* The side of the book that sells token A is covered: the contract holds   *)
(* the pool's reserve and every open ask in full, the pool's shares add up, *)
(* and after any sequence of partial fills and cancellations both sides are *)
(* still in the order in which swap has to fill them.                       *)
BookInOrder ==
    /\ held.a = pool.a + Total(asks)
    /\ pool.shares = MapThenSumSet(LAMBDA u : lp[u], User)
    /\ Ordered(bids, >) /\ Ordered(asks, <)

----------------------------------------------------------------------------
(* The auctions.                                                           *)

CONSTANTS Bidder,
          starting_price, reserve_price,    \* English auction
          start_price, end_price,           \* Dutch auction
          duration_ledgers,
          Purse,                            \* what each bidder starts with
          MaxLedger

VARIABLES ledger,
          highest_bid, highest_bidder,
          sold,
          item,          \* who holds the item
          money,         \* balances of the payment token
          payments       \* history: what the seller was paid, and by whom

auctionVars == <<ledger, highest_bid, highest_bidder, sold, item, money, payments>>

Seller == "seller"
English == "english"
Dutch == "dutch"
NoBidder == "nobody"

initialize_english == highest_bid = 0 /\ highest_bidder = NoBidder
initialize_dutch == sold = FALSE

\* The factory deploys and initializes both, here in one ledger.
AuctionInit ==
    /\ ledger = 0
    /\ initialize_english /\ initialize_dutch
    /\ item = Seller
    /\ money = [p \in Bidder \cup {Seller, English, Dutch} |-> IF p \in Bidder THEN Purse ELSE 0]
    /\ payments = {}

Ended == ledger >= duration_ledgers

\* Moving amount from one account to another; both may be the same.
Moved(m, from, to, amount) ==
    LET debited == [m EXCEPT ![from] = @ - amount]
    IN  [debited EXCEPT ![to] = @ + amount]

\* The owner of the item hands it to an auction.
give(owner, auction) ==
    /\ item = owner /\ item' = auction
    /\ UNCHANGED <<ledger, highest_bid, highest_bidder, sold, money, payments>>

\* The bid comes in before the one it replaces goes back.
bid(b, amount) ==
    /\ ~Ended
    /\ amount >= starting_price /\ amount > highest_bid
    /\ money[b] >= amount
    /\ money' = LET taken == Moved(money, b, English, amount)
                IN  IF highest_bid > 0 THEN Moved(taken, English, highest_bidder, highest_bid)
                    ELSE taken
    /\ highest_bidder' = b /\ highest_bid' = amount
    /\ UNCHANGED <<ledger, sold, item, payments>>

\* Nothing records that the auction was settled: a second call is stopped by
\* the transfers, when the item or the money has left.
end_auction ==
    /\ Ended
    /\ item = English /\ money[English] >= highest_bid
    /\ IF highest_bid >= reserve_price
       THEN /\ highest_bidder # NoBidder
            /\ item' = highest_bidder
            /\ money' = Moved(money, English, Seller, highest_bid)
            /\ payments' = payments \cup {<<English, highest_bidder, highest_bid>>}
       ELSE /\ item' = Seller
            /\ money' = IF highest_bid > 0
                        THEN Moved(money, English, highest_bidder, highest_bid) ELSE money
            /\ UNCHANGED payments
    /\ UNCHANGED <<ledger, highest_bid, highest_bidder, sold>>

\* Division of i128 truncates, and the drop is not negative when the price
\* falls over time.
get_current_price ==
    IF Ended THEN end_price
    ELSE start_price - ((start_price - end_price) * ledger) \div duration_ledgers

buy(b) ==
    /\ ~sold
    /\ item = Dutch /\ money[b] >= get_current_price
    /\ item' = b
    /\ money' = Moved(Moved(money, b, Dutch, get_current_price), Dutch, Seller, get_current_price)
    /\ payments' = payments \cup {<<Dutch, b, get_current_price>>}
    /\ sold' = TRUE
    /\ UNCHANGED <<ledger, highest_bid, highest_bidder>>

reclaim ==
    /\ Ended /\ ~sold
    /\ item = Dutch /\ item' = Seller
    /\ sold' = TRUE
    /\ UNCHANGED <<ledger, highest_bid, highest_bidder, money, payments>>

Close ==
    /\ ledger < MaxLedger /\ ledger' = ledger + 1
    /\ UNCHANGED <<highest_bid, highest_bidder, sold, item, money, payments>>

AuctionNext ==
    \/ \E owner \in Bidder \cup {Seller}, auction \in {English, Dutch} : give(owner, auction)
    \/ \E b \in Bidder : buy(b) \/ \E amount \in 1 .. Purse : bid(b, amount)
    \/ end_auction \/ reclaim \/ Close

AuctionSpec == AuctionInit /\ [][AuctionNext]_auctionVars

Spent(b) == MapThenSumSet(LAMBDA p : p[3], {p \in payments : p[2] = b})

(* Whoever bids, in whatever order the two auctions are ended, bought from, *)
(* reclaimed and handed the item again: each auction pays the seller at     *)
(* most once, the Dutch one keeps no money, the English one holds the       *)
(* highest bid or, once settled, nothing, and a bidder has all their money  *)
(* but what they paid the seller and the highest bid held from them.        *)
BiddersWhole ==
    /\ \A p, q \in payments : p[1] = q[1] => p = q
    /\ money[Dutch] = 0
    /\ money[English] \in {0, highest_bid}
    /\ money[Seller] = MapThenSumSet(LAMBDA p : p[3], payments)
    /\ \A b \in Bidder :
         money[b] + Spent(b) + (IF b = highest_bidder THEN money[English] ELSE 0) = Purse
=============================================================================
