------------------------------- MODULE RiskDesk --------------------------------
(***************************************************************************)
(* RiskManager of risk/manager.py with callers that ask can_open_position  *)
(* (or validate_trade, which decides alike), open the position at a broker *)
(* and then call register_position; results come in with close_position.   *)
(* Sizes are one unit, within max_position_size.                           *)
(***************************************************************************)
EXTENDS Integers, FiniteSets

CONSTANTS
    Traders,         \* threads that open positions
    Positions,       \* ids of positions
    MaxPositions,    \* max_open_positions
    InitialBalance,
    MaxDailyLoss,    \* max_daily_loss, percent
    MaxDrawdown,     \* max_drawdown, percent
    WorstLoss,       \* results of a position lie between its loss
    BestGain,        \* and this
    Ceiling          \* bound of the model on the balance

RiskConstants ==
    /\ IsFiniteSet(Traders) /\ IsFiniteSet(Positions)
    /\ MaxPositions \in Nat \ {0} /\ InitialBalance \in Nat \ {0}
    /\ MaxDailyLoss \in Nat \ {0} /\ MaxDrawdown \in Nat \ {0}
    /\ WorstLoss \in Nat \ {0} /\ BestGain \in Nat /\ Ceiling \in Nat

VARIABLES
    openPositions,   \* open_positions, by id
    balanceNow, peakBalance, dailyPnl, totalPnl,
    approved         \* traders that were told to go ahead and have not registered

riskVars == <<openPositions, balanceNow, peakBalance, dailyPnl, totalPnl, approved>>

Init ==
    /\ openPositions = {} /\ approved = {}
    /\ balanceNow = InitialBalance /\ peakBalance = InitialBalance
    /\ dailyPnl = 0 /\ totalPnl = 0

-----------------------------------------------------------------------------
DailyLossReached == dailyPnl < 0 /\ -dailyPnl * 100 >= MaxDailyLoss * balanceNow

(* _calculate_drawdown against the limit *)
DrawdownReached_OfTheDay == -dailyPnl * 100 >= MaxDrawdown * peakBalance

DrawdownReached == (peakBalance - balanceNow) * 100 >= MaxDrawdown * peakBalance

CanOpen ==
    /\ Cardinality(openPositions) < MaxPositions
    /\ ~DailyLossReached /\ ~DrawdownReached

(* can_open_position, validate_trade *)
CanOpenPosition(t) ==
    /\ t \notin approved /\ CanOpen
    /\ approved' = approved \cup {t}
    /\ UNCHANGED <<openPositions, balanceNow, peakBalance, dailyPnl, totalPnl>>

RegisterPosition(t) ==
    /\ t \in approved
    /\ \E p \in Positions \ openPositions : openPositions' = openPositions \cup {p}
    /\ approved' = approved \ {t}
    /\ UNCHANGED <<balanceNow, peakBalance, dailyPnl, totalPnl>>

PeakAfter(b) == IF b > peakBalance THEN b ELSE peakBalance

ClosePosition(p, pnl) ==
    /\ p \in openPositions /\ balanceNow + pnl \in 1..Ceiling
    /\ openPositions' = openPositions \ {p}
    /\ balanceNow' = balanceNow + pnl
    /\ peakBalance' = PeakAfter(balanceNow + pnl)
    /\ dailyPnl' = dailyPnl + pnl
    /\ totalPnl' = totalPnl + pnl
    /\ UNCHANGED <<approved>>

ResetDailyPnl ==
    /\ dailyPnl # 0 /\ dailyPnl' = 0
    /\ UNCHANGED <<openPositions, balanceNow, peakBalance, totalPnl, approved>>

Next ==
    \/ \E t \in Traders : CanOpenPosition(t) \/ RegisterPosition(t)
    \/ \E p \in openPositions, pnl \in (-WorstLoss)..BestGain : ClosePosition(p, pnl)
    \/ ResetDailyPnl

Spec == Init /\ [][Next]_riskVars

-----------------------------------------------------------------------------
TypeOK ==
    /\ openPositions \subseteq Positions /\ approved \subseteq Traders
    /\ balanceNow \in 1..Ceiling /\ peakBalance \in balanceNow..Ceiling
    /\ dailyPnl \in Int /\ totalPnl = balanceNow - InitialBalance

AtRisk == Cardinality(openPositions) + Cardinality(approved)
Excess == MaxPositions + Cardinality(Traders) - 1

(* Traders who are approved together open more positions than allowed, by  *)
(* no more than the others. A day's loss, and the fall from the highest    *)
(* balance, therefore pass their limits by what those positions lose and   *)
(* no more, through any order of approvals, results and new days.          *)
LossesBounded ==
    /\ AtRisk <= Excess
    /\ 100 * (WorstLoss * AtRisk - dailyPnl)
         <= MaxDailyLoss * peakBalance + 100 * WorstLoss * Excess
    /\ 100 * (WorstLoss * AtRisk + peakBalance - balanceNow)
         <= MaxDrawdown * peakBalance + 100 * WorstLoss * Excess

-----------------------------------------------------------------------------
(***************************************************************************)
(* What the risk manager of RiskDesk can lose, for any limits and any      *)
(* number of traders and positions.  LossesBounded is inductive once the   *)
(* balance is known to be positive and at most its peak: an approval is    *)
(* given only below the limits, when at most Excess positions are at risk, *)
(* and a result takes off the risk what it adds to the loss.               *)
(***************************************************************************)
Books ==
    /\ openPositions \subseteq Positions /\ approved \subseteq Traders
    /\ balanceNow \in Nat \ {0} /\ peakBalance \in Nat /\ balanceNow <= peakBalance
    /\ dailyPnl \in Int

IInv == Books /\ LossesBounded
=============================================================================
