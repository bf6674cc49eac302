------------------------------ MODULE UserServices ------------------------------
(***************************************************************************)
(* The services that users call for themselves: wallets, the records of    *)
(* transactions, the payment limits, the gateway, copy trading, the        *)
(* commissions of affiliates, alerts and teams, the market data that are   *)
(* kept for them: books, cached series and consensus prices, and the       *)
(* control of their strategies.  They share no state, each is called on    *)
(* its own: a behaviour exercises one.                                     *)
(***************************************************************************)
EXTENDS Integers

CONSTANTS
    Holders, Members,             \* users: of wallets, and of the other parts
    Amounts, MaxBookings,
    Ids, MaxCompletions,
    Flows, Kyc,                   \* Kyc: levels, days and limits by their names
    Requests, Deposits, Seconds,
    Traders, Balances, Copying,   \* Copying: the limits of a follower and of the model
    Invited, Commission, Payouts, \* Commission: levels and the least payout
    LastAlert, Definitions, Watch, \* Watch: prices and bounds of the alerts
    Names, Regimes, Suitable, Builds, Controllers, Feed, \* of the control of the strategies
    Crew, Depth, Stored, Feeds    \* of a team, a book, a cache and the quotes, by their names

VARIABLES
    part,     \* the part the behaviour exercises
    wallet, initial, history,
    txns, reversedBy, completions,
    today, limits, failures, inFlight, bookedToday, bookedMonth,
    second, payments, receipts, answered,
    following, balance, openTrades, closedPnl, start, subscriptions, followersCount,
    status, level, totals, referrals, payouts,
    now, alerts, lastPrice, notified, closest,
    members, invitations, joined,
    book, snapshots, feed, dropped,
    series, present, tick, appending, lastBar, hits, misses, sent, whole, clean, removed,
    gets, crossed,
    latest, consensus,
    strategies, active, started, regime, control, torn, unswept, unstopped

Purse == INSTANCE Wallets WITH Users <- Holders
Ledger == INSTANCE Transactions
Allowed == INSTANCE PaymentLimits WITH
    Callers <- Flows, Levels <- Kyc.levels, DaysOfMonth <- Kyc.month, DaysWorth <- Kyc.worth,
    LastDay <- Kyc.last, FailureLimit <- Kyc.failures
Till == INSTANCE Gateway WITH Users <- Members, Amounts <- Deposits
Copies == INSTANCE CopyTrading WITH
    Followers <- Members, MaxConcurrent <- Copying.trades, Drawdown <- Copying.drawdown,
    WorstLoss <- Copying.loss, BestGain <- Copying.gain, Ceiling <- Copying.ceiling,
    MaxSubscriptions <- Copying.subscriptions
Partners == INSTANCE Affiliates WITH
    Affiliates <- Members, Users <- Invited, Levels <- Commission.levels,
    MinPayout <- Commission.payout
Bells == INSTANCE Alerts WITH
    Prices <- Watch.prices, Threshold <- Watch.threshold, LastMinute <- Watch.minutes,
    MaxTriggers <- Watch.triggers
Group == INSTANCE Teams WITH
    Users <- Crew.users, Owner <- Crew.owner, Invitations <- Crew.invitations,
    MaxMembers <- Crew.members
Market == INSTANCE DepthOfMarket WITH
    Ranks <- Depth.ranks, Volumes <- Depth.volumes, MaxLevels <- Depth.levels,
    HistorySize <- Depth.snapshots, history <- snapshots
Cache == INSTANCE MarketCache WITH
    Appenders <- Stored.appenders, MaxSize <- Stored.size, MaxBars <- Stored.bars,
    MaxGets <- Stored.gets
Price == INSTANCE PriceConsensus WITH
    Sources <- Feeds.sources, Quotes <- Feeds.quotes, Threshold <- Feeds.threshold,
    Second <- Feeds.second
Control == INSTANCE MasterControl WITH running <- started

ASSUME ServicesConstants ==
    /\ Purse!WalletConstants /\ Ledger!TransactionConstants /\ Copies!CopyConstants
    /\ Group!TeamConstants /\ Market!DepthConstants /\ Allowed!LimitConstants
    /\ Till!GatewayConstants /\ Bells!AlertConstants /\ Cache!CacheConstants
    /\ Partners!AffiliateConstants /\ Price!PriceConstants
    /\ Control!ControlConstants

Parts == {"purse", "ledger", "limits", "till", "copies", "partners", "bells", "group",
          "market", "cache", "price", "control"}

purseVars == <<wallet, initial, history>>
ledgerVars == <<txns, reversedBy, completions>>
allowedVars == <<today, limits, failures, inFlight, bookedToday, bookedMonth>>
tillVars == <<second, payments, receipts, answered>>
copyVars == <<following, balance, openTrades, closedPnl, start, subscriptions, followersCount>>
partnerVars == <<status, level, totals, referrals, payouts>>
alertVars == <<now, alerts, lastPrice, notified, closest>>
groupVars == <<members, invitations, joined>>
marketVars == <<book, snapshots, feed, dropped>>
storedVars ==
    <<series, present, tick, appending, lastBar, hits, misses, sent, whole, clean, removed, gets, crossed>>
quoteVars == <<latest, consensus>>
controlVars == <<strategies, active, started, regime, control, torn, unswept, unstopped>>
serviceVars == <<part, purseVars, ledgerVars, allowedVars, tillVars, copyVars, partnerVars,
                alertVars, groupVars, marketVars, storedVars, quoteVars, controlVars>>

-----------------------------------------------------------------------------
ServicesInit ==
    /\ part \in Parts
    /\ Purse!Init /\ Ledger!Init /\ Allowed!Init /\ Till!Init /\ Copies!Init /\ Partners!Init
    /\ Bells!Init /\ Group!Init /\ Market!Init /\ Cache!Init /\ Price!Init
    /\ Control!Init

(* A step of the part that is exercised; the state of the others stays.    *)
Only(name) ==
    /\ part = name /\ UNCHANGED part
    /\ IF name = "purse" THEN TRUE ELSE UNCHANGED purseVars
    /\ IF name = "ledger" THEN TRUE ELSE UNCHANGED ledgerVars
    /\ IF name = "limits" THEN TRUE ELSE UNCHANGED allowedVars
    /\ IF name = "till" THEN TRUE ELSE UNCHANGED tillVars
    /\ IF name = "copies" THEN TRUE ELSE UNCHANGED copyVars
    /\ IF name = "partners" THEN TRUE ELSE UNCHANGED partnerVars
    /\ IF name = "bells" THEN TRUE ELSE UNCHANGED alertVars
    /\ IF name = "group" THEN TRUE ELSE UNCHANGED groupVars
    /\ IF name = "market" THEN TRUE ELSE UNCHANGED marketVars
    /\ IF name = "cache" THEN TRUE ELSE UNCHANGED storedVars
    /\ IF name = "price" THEN TRUE ELSE UNCHANGED quoteVars
    /\ IF name = "control" THEN TRUE ELSE UNCHANGED controlVars

ServicesNext ==
    \/ Only("purse") /\ Purse!Next
    \/ Only("ledger") /\ Ledger!Next
    \/ Only("limits") /\ Allowed!Next
    \/ Only("till") /\ Till!Next
    \/ Only("copies") /\ Copies!Next
    \/ Only("partners") /\ Partners!Next
    \/ Only("bells") /\ Bells!Next
    \/ Only("group") /\ Group!Next
    \/ Only("market") /\ Market!Next
    \/ Only("cache") /\ Cache!Next
    \/ Only("price") /\ Price!Next
    \/ Only("control") /\ Control!Next

ServicesSpec == ServicesInit /\ [][ServicesNext]_serviceVars

-----------------------------------------------------------------------------
(* The parts of these are stated where their modules are. *)

\* Wallets, Affiliates: no transfer makes or loses money, no commission is paid
\* twice or forgotten.
MoneyIsAccounted == Purse!MoneyIsConserved /\ Partners!CommissionsAreAccounted
\* Transactions: each reversal is backed by a completion of its own.
ReversalsAreBacked == Ledger!ReversalsAreBacked
\* PaymentLimits, Gateway: a day and a month are kept within what flows in between
\* carry, and a request alone in its second finds its own payment.
PaymentsHold == Allowed!PaymentsWithinLimits /\ Till!ReceiptsLeadHome
\* CopyTrading: a follower's loss is bounded by the drawdown and the open trades.
FollowerLossBounded == Copies!FollowerLossBounded
\* Alerts: an alert keeps its cooldown and its number of triggers.
AlertsKeepTheirPace == Bells!AlertsKeepTheirPace
\* Teams: the creator stays a member, the others came by invitations of their own.
MembersWereInvited == Group!MembersWereInvited
\* DepthOfMarket: the book is what the feed told, sorted and within its depth.
LadderIsTrue == Market!LadderIsTrue
\* MarketCache: a cached series is what was stored, cut by appends, and requests count once.
SeriesIsRecent == Cache!SeriesIsRecent
\* PriceConsensus: a price of several sources is fresh and lies within their quotes.
PricesAreShared == Price!PricesAreShared
\* MasterControl: what runs is in the list that the kill switch goes through.
ControlReachesAll == Control!ControlReachesAll
=============================================================================
