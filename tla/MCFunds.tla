------------------------------ MODULE MCFunds -------------------------------
(***************************************************************************)
(* Small instances of the contracts that hold money.  They share no state, *)
(* so a behaviour exercises one of them and leaves the others where they   *)
(* start: a property of one contract reads only that contract's variables. *)
(***************************************************************************)
EXTENDS Vault4626, Sequences, TLC

VARIABLES
    contract,                           \* the one this behaviour exercises
    tAdmins, tThreshold, tPaused, tAdmin, tBalance, tAllowance, uri, uriTtl, tLedger,
    minted,                             \* token
    user, totalStaked, staked, kPaused, kLedger, reference,     \* staking
    deposited, lFee, borrowPaused, active, record, lBalance, loan,          \* flash loans
    debts, stable, books, dHeld, price, dLedger, interest, absorbed,        \* debt positions
    reserves, totalShares, fee, pBalance, pStaked, pTotal,      \* liquidity pool
    cover, claim, reserve, cLedger, funded,                     \* insurance
    pool, lp, bids, asks, oHeld,        \* order book
    fees, rate, assets, fNow, charged,  \* fee engine
    total, chains, position, bridge,    \* cross-chain yield
    latest, version, opt_in, adapter,   \* vault migration
    targets, policy, volume,            \* strategy rotation
    at, inRange, growth, tick, bitmap, positions, taken, paid,  \* concentrated liquidity
    aLedger, highest_bid, highest_bidder, sold, item, money, payments       \* auctions

coinVars == <<tAdmins, tThreshold, tPaused, tAdmin, tBalance, tAllowance, uri, uriTtl, tLedger,
              minted>>
stakeVars == <<user, totalStaked, staked, kPaused, kLedger, reference>>
loansVars == <<deposited, lFee, borrowPaused, active, record, lBalance, loan>>
debtVars == <<debts, stable, books, dHeld, price, dLedger, interest, absorbed>>
ammVars == <<reserves, totalShares, fee, pBalance, pStaked, pTotal>>
coverVars == <<cover, claim, reserve, cLedger, funded>>
bookVars == <<pool, lp, bids, asks, oHeld>>
feeVars == <<fees, rate, assets, fNow, charged>>
remoteVars == <<total, chains, position, bridge>>
migrationVars == <<latest, version, opt_in, adapter>>
rotateVars == <<targets, policy, volume>>
rangeVars == <<at, inRange, growth, tick, bitmap, positions, taken, paid>>
auctionVars == <<aLedger, highest_bid, highest_bidder, sold, item, money, payments>>
allVars ==
    <<contract, vars, coinVars, stakeVars, loansVars, debtVars, ammVars, coverVars,
      bookVars, feeVars, remoteVars, migrationVars, rotateVars, rangeVars, auctionVars>>

MCFactor == [k \in 0..4 |-> IF k = 0 THEN 3 ELSE 2]

Coin ==
    INSTANCE Token WITH Address <- Account, Operation <- {"TRANSFER", "BURN", "MINT", "METADATA"},
        MaxAdmins <- 2, MaxSupply <- 1, MaxTtl <- 1, MaxLedger <- 2, NoAdmin <- "-",
        admins <- tAdmins, threshold <- tThreshold, paused <- tPaused, admin <- tAdmin,
        balance <- tBalance, allowance <- tAllowance, ledger <- tLedger

Stake ==
    INSTANCE Staking WITH User <- Account, Factor <- MCFactor, StartBlock <- 1, MaxStake <- 2,
        MaxLedger <- 4, held <- staked, paused <- kPaused, ledger <- kLedger

Debt ==
    INSTANCE Cdp WITH User <- Account, BPS <- 2, PriceScale <- 1, LedgersPerYear <- 1,
        MinRatio <- 3, Incentive <- 1, BaseRate <- 1, Slope1 <- 1, Slope2 <- 1, Optimal <- 1,
        Prices <- {1, 2}, MaxCollateral <- 2, MaxAmount <- 2, MaxLedger <- 1,
        position <- debts, total <- books, held <- dHeld, ledger <- dLedger

Amm ==
    INSTANCE Pool WITH User <- Account, BPS <- 4, Fees <- {0, 1}, MaxDeposit <- 3,
        MaxReserve <- 6, reserve <- reserves, balance <- pBalance, staked <- pStaked,
        totalStaked <- pTotal

Market ==
    INSTANCE Markets WITH User <- {"u"}, BPS <- 4, PRICE_SCALE <- 1, lp_fee_bps <- 1,
        maker_fee_bps <- 1, Prices <- {1, 2}, MaxAmount <- 2, MaxReserve <- 3, MaxOrders <- 3,
        Bidder <- Account, starting_price <- 1, reserve_price <- 2, start_price <- 3,
        end_price <- 1, duration_ledgers <- 2, Purse <- 3, MaxLedger <- 3,
        held <- oHeld, ledger <- aLedger

Services ==
    INSTANCE VaultServices WITH Vault <- {"v"}, BPS <- 2, Rates <- {1}, MaxAssets <- 3,
        MaxTime <- 1, Owner <- Account, Legacy <- 1, MaxVersion <- 3, MaxPosition <- 1,
        Insured <- {"v", "w"}, Premium <- 1, Epoch <- 1, MaxAmount <- 2, MaxReserve <- 2,
        MaxLedger <- 2, Receiver <- {"r"}, MaxFee <- 1, MaxBalance <- 5,
        state <- fees, now <- fNow, policy <- cover, ledger <- cLedger,
        feeBps <- lFee, balance <- lBalance

Strategies ==
    INSTANCE StrategyOrchestration WITH Strategies <- 3, BPS <- 3, MaxVolume <- 1,
        Chain <- {"c", "d"}, Caps <- [c \in {"c", "d"} |-> 2], Totals <- {2, 4},
        MAX_CHAINS <- 2, MaxReturning <- 2

\* Ranges that share an end, overlap, and lie in two words of the bitmap.
Ranged ==
    INSTANCE ConcentratedAmm WITH Owner <- {"o"}, Ranges <- {<<0, 4>>, <<4, 8>>, <<2, 10>>},
        tick_spacing <- 2, WordBits <- 4, Q64 <- 2, Modulus <- 16, StepFees <- {0, 1},
        MaxLiquidity <- 1, MaxTaken <- 1, current_tick <- at, liquidity <- inRange,
        fee_growth <- growth

-----------------------------------------------------------------------------

Contracts ==
    {"vault", "coin", "stake", "loans", "debt", "amm", "cover", "book", "fee", "remote",
     "migration", "rotate", "range", "auction"}

\* A contract that is not exercised starts with the first of its settings.
MCInit ==
    /\ contract \in Contracts
    /\ Init /\ Coin!Init /\ Stake!Init /\ Services!LoanInit /\ Debt!Init /\ Amm!Init
    /\ Services!InsuranceInit /\ Services!FeeInit /\ Services!MigrationInit
    /\ Market!BookInit /\ Strategies!YieldInit /\ Strategies!RotationInit
    /\ Ranged!Init /\ Market!AuctionInit
    /\ contract = "debt" \/ price = 1
    /\ contract = "amm" \/ fee = 0
    /\ contract = "range" \/ at = 0
    /\ contract = "migration" \/ adapter = [v \in 1..3 |-> [a \in Account |-> 0]]

MCNext ==
    /\ UNCHANGED contract
    /\ IF contract = "vault" THEN Next ELSE UNCHANGED vars
    /\ IF contract = "coin" THEN Coin!Next ELSE UNCHANGED coinVars
    /\ IF contract = "stake" THEN Stake!Next ELSE UNCHANGED stakeVars
    /\ IF contract = "loans" THEN Services!LoanNext ELSE UNCHANGED loansVars
    /\ IF contract = "debt" THEN Debt!Next ELSE UNCHANGED debtVars
    /\ IF contract = "amm" THEN Amm!Next ELSE UNCHANGED ammVars
    /\ IF contract = "cover" THEN Services!InsuranceNext ELSE UNCHANGED coverVars
    /\ IF contract = "book" THEN Market!BookNext ELSE UNCHANGED bookVars
    /\ IF contract = "fee" THEN Services!FeeNext ELSE UNCHANGED feeVars
    /\ IF contract = "remote" THEN Strategies!YieldNext ELSE UNCHANGED remoteVars
    /\ IF contract = "migration" THEN Services!MigrationNext ELSE UNCHANGED migrationVars
    /\ IF contract = "rotate" THEN Strategies!RotationNext ELSE UNCHANGED rotateVars
    /\ IF contract = "range" THEN Ranged!Next ELSE UNCHANGED rangeVars
    /\ IF contract = "auction" THEN Market!AuctionNext ELSE UNCHANGED auctionVars

MCSpec == MCInit /\ [][MCNext]_allVars

\* Accounts differ in their names only.
Symmetry == Permutations(Account)

-----------------------------------------------------------------------------

\* Every contract's totals are the sum of its entries, and its tokens cover
\* them.
BooksBalance ==
    /\ SharesAccount
    /\ Coin!SupplyAccounts
    /\ Stake!PrincipalCovered
    /\ Services!DepositsCovered
    /\ Debt!CdpBooksBalance
    /\ Amm!PoolShares
    /\ Services!ReserveAccounts
    /\ Strategies!PositionsMatchBridge
    /\ Ranged!ActiveLiquidity /\ Ranged!FeesCovered
    /\ Market!BiddersWhole

\* No step takes value from those who take no part in it (leaving the vault,
\* trading with the pool, moving to another version), and none moves a paused
\* token.
ValueKept ==
    /\ LeavingRoundsForVault /\ Amm!ShareValueNeverFalls /\ Services!PositionKept
    /\ Coin!PauseStopsMoney

\* What is computed lazily is what computing it all along would give.
AccrualExact == Stake!LazyAccrualExact /\ Services!GainChargedOnce

\* Orders and rotations are served best first.
BestFirst == Market!BookInOrder /\ Strategies!LargestDriftsFirst
=============================================================================
