------------------------------ MODULE CopyTrading ------------------------------
(***************************************************************************)
(* CopyTradingEngine of social/copy_trading.py: every signal of a trader   *)
(* opens a trade for each follower who has room and has not lost too much. *)
(* The trades of a follower differ only in their result, which is known    *)
(* when they close: open trades are counted, results are integers.         *)
(***************************************************************************)
EXTENDS Integers

CONSTANTS
    Followers,
    Traders,
    Balances,        \* balances followers subscribe with
    MaxConcurrent,   \* max_concurrent_trades
    Drawdown,        \* max_account_drawdown as a divisor: 5 for 20 %
    WorstLoss, BestGain,  \* bounds of the model on the result of one trade
    Ceiling,         \* bound of the model on balances
    MaxSubscriptions \* bound of the model on subscriptions of one follower

None == "none"

CopyConstants ==
    /\ None \notin Traders /\ Balances \subseteq Nat \ {0}
    /\ {MaxConcurrent, Drawdown} \subseteq Nat \ {0}
    /\ {WorstLoss, BestGain, Ceiling, MaxSubscriptions} \subseteq Nat

VARIABLES
    following,      \* followers: the trader of each
    balance,        \* account_balance
    openTrades,     \* active_trades: how many
    closedPnl,      \* trade_history: the sum of the results, kept for ever
    start,          \* ghost: the balance of the subscription
    subscriptions,  \* ghost: how often a follower subscribed
    followersCount  \* followers_count of the traders

copyVars == <<following, balance, openTrades, closedPnl, start, subscriptions, followersCount>>

Init ==
    /\ following = [f \in Followers |-> None]
    /\ balance = [f \in Followers |-> 0]
    /\ openTrades = [f \in Followers |-> 0]
    /\ closedPnl = [f \in Followers |-> 0]
    /\ start = [f \in Followers |-> 0]
    /\ subscriptions = [f \in Followers |-> 0]
    /\ followersCount = [t \in Traders |-> 0]

-----------------------------------------------------------------------------
(* subscribe_follower: the trades open at the time drop out of sight, the  *)
(* history stays.                                                          *)
Subscribe(f, t, amount) ==
    /\ subscriptions[f] < MaxSubscriptions
    /\ following' = [following EXCEPT ![f] = t]
    /\ balance' = [balance EXCEPT ![f] = amount]
    /\ start' = [start EXCEPT ![f] = amount]
    /\ openTrades' = [openTrades EXCEPT ![f] = 0]
    /\ subscriptions' = [subscriptions EXCEPT ![f] = @ + 1]
    /\ followersCount' = [followersCount EXCEPT ![t] = @ + 1]
    /\ UNCHANGED closedPnl

(* _calculate_current_drawdown takes the balance before all closed trades  *)
(* for the peak.                                                           *)
Peak(f) == balance[f] - closedPnl[f]
DrawnDown(f) == Peak(f) > 0 /\ Drawdown * (Peak(f) - balance[f]) >= Peak(f)

CanAccept_Drawdown(f) == ~DrawnDown(f)

CanAccept(f) == openTrades[f] < MaxConcurrent /\ ~DrawnDown(f)

(* publish_signal and _broadcast_signal. *)
PublishSignal(t) ==
    /\ openTrades' = [f \in Followers |->
         IF following[f] = t /\ CanAccept(f) THEN openTrades[f] + 1 ELSE openTrades[f]]
    /\ UNCHANGED <<following, balance, closedPnl, start, subscriptions, followersCount>>

CloseTrade(f, pnl) ==
    /\ openTrades[f] > 0 /\ balance[f] + pnl <= Ceiling
    /\ openTrades' = [openTrades EXCEPT ![f] = @ - 1]
    /\ closedPnl' = [closedPnl EXCEPT ![f] = @ + pnl]
    /\ balance' = [balance EXCEPT ![f] = @ + pnl]
    /\ UNCHANGED <<following, start, subscriptions, followersCount>>

Next ==
    \/ \E f \in Followers, t \in Traders, b \in Balances : Subscribe(f, t, b)
    \/ \E t \in Traders : PublishSignal(t)
    \/ \E f \in Followers, pnl \in (-WorstLoss)..BestGain : CloseTrade(f, pnl)

Spec == Init /\ [][Next]_copyVars

-----------------------------------------------------------------------------
TypeOK ==
    /\ following \in [Followers -> Traders \cup {None}]
    /\ balance \in [Followers -> Int] /\ closedPnl \in [Followers -> Int]
    /\ openTrades \in [Followers -> 0..MaxConcurrent]
    /\ start \in [Followers -> Balances \cup {0}]
    /\ subscriptions \in [Followers -> 0..MaxSubscriptions]
    /\ followersCount \in [Traders -> Nat]

AtRisk(f) == start[f] - balance[f] + WorstLoss * openTrades[f]

(* A follower who subscribed once loses at most the drawdown allowed and   *)
(* what the trades open at that moment can still lose.                     *)
FollowerLossBounded ==
    \A f \in Followers : subscriptions[f] = 1 =>
        Drawdown * AtRisk(f) <= start[f] + Drawdown * WorstLoss * MaxConcurrent

(* With a second subscription neither holds: earlier results stay in the   *)
(* history, and a follower is counted again.                               *)
EveryFollowerLossBounded ==
    \A f \in Followers : Drawdown * AtRisk(f) <= start[f] + Drawdown * WorstLoss * MaxConcurrent

-----------------------------------------------------------------------------
(***************************************************************************)
(* What a follower of CopyTrading can lose, for any number of followers    *)
(* and traders and any limits.  The invariant adds that the balance of a   *)
(* follower who subscribed once is his first balance and the results since *)
(* then: only so is the peak, which the drawdown is measured from, the     *)
(* balance he began with.                                                  *)
(***************************************************************************)
Follower(f) ==
    /\ openTrades[f] \in 0..MaxConcurrent
    /\ subscriptions[f] = 0 => following[f] = None /\ openTrades[f] = 0 /\ closedPnl[f] = 0
    /\ subscriptions[f] = 1 => start[f] \in Balances /\ balance[f] = start[f] + closedPnl[f]

Books ==
    /\ following \in [Followers -> Traders \cup {None}]
    /\ balance \in [Followers -> Int] /\ closedPnl \in [Followers -> Int]
    /\ openTrades \in [Followers -> Int] /\ start \in [Followers -> Int]
    /\ subscriptions \in [Followers -> Nat]
    /\ \A f \in Followers : Follower(f)

Bounded(f) ==
    subscriptions[f] = 1 =>
        Drawdown * AtRisk(f) <= start[f] + Drawdown * WorstLoss * MaxConcurrent

IInv == Books /\ \A f \in Followers : Bounded(f)
=============================================================================
