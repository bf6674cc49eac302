------------------------- MODULE TradingDeskProofs -------------------------
(***************************************************************************)
(* Proofs about the parts of the trading desk: the throttler, the risk     *)
(* manager, the backtest engine, the asynchronous engine, the OMS of src/, *)
(* the order router, the arbitrage executor, the paper broker, the books,  *)
(* self-trade prevention and the FIA controls.  Each part has an inductive *)
(* invariant of its own, IInv of its module or defined here; a step of the *)
(* desk is a step of the part that is exercised and leaves the others      *)
(* alone.                                                                  *)
(***************************************************************************)
EXTENDS TradingDesk, Sequences, SumTheorems

-----------------------------------------------------------------------------
\* The order throttler.

(* Subsets of finite sets are finite and no larger. *)
LEMMA Smaller ==
    ASSUME NEW S, NEW T, IsFiniteSet(T), S \subseteq T
    PROVE  /\ IsFiniteSet(S)
           /\ Cardinality(S) \in Nat /\ Cardinality(T) \in Nat
           /\ Cardinality(S) <= Cardinality(T)
  BY FS_Subset, FS_CardinalityType

(* One element more adds at most one. *)
LEMMA OneMore ==
    ASSUME NEW S, IsFiniteSet(S), NEW x
    PROVE  /\ IsFiniteSet(S \cup {x})
           /\ Cardinality(S) \in Nat /\ Cardinality(S \cup {x}) \in Nat
           /\ Cardinality(S \cup {x}) <= Cardinality(S) + 1
  BY FS_AddElement, FS_CardinalityType

(* The sets that are counted are finite. *)
LEMMA CountsAreFinite ==
    ASSUME TypeOK
    PROVE  /\ IsFiniteSet(orders) /\ IsFiniteSet(SecondWindow \cap orders)
           /\ IsFiniteSet(cleared) /\ IsFiniteSet(SecondWindow)
           /\ IsFiniteSet(MinuteWindow)
           /\ Cardinality(orders) \in Nat
           /\ Cardinality(SecondWindow \cap orders) \in Nat
           /\ Cardinality(cleared) \in Nat
           /\ Cardinality(cleared) <= Cardinality(Callers)
           /\ Cardinality(Callers) \in Nat
  <1>1. MinuteWindow \subseteq Messages /\ SecondWindow \subseteq Messages
    BY DEF MinuteWindow, SecondWindow
  <1>2. orders \subseteq Messages /\ SecondWindow \cap orders \subseteq Messages
    BY <1>1 DEF TypeOK
  <1>3. cleared \subseteq Callers
    BY DEF TypeOK
  <1>. QED
    BY <1>1, <1>2, <1>3, Smaller, ThrottlerAssumption DEF ThrottlerAssumption

\* An idle throttler has cleared nobody.
LEMMA ThrottlerStarts == ASSUME Init PROVE IInv
  <1>1. TypeOK
    BY ThrottlerAssumption DEF Init, TypeOK, MinuteWindow, ThrottlerAssumption
  <1>2. SecondWindow \cap orders = {} /\ orders = {} /\ cleared = {}
    BY DEF Init
  <1>3. Cardinality({}) = 0
    BY FS_EmptySet
  <1>4. Cardinality(Callers) \in Nat
    BY FS_CardinalityType, ThrottlerAssumption DEF ThrottlerAssumption
  <1>. QED
    BY <1>1, <1>2, <1>3, <1>4, ThrottlerAssumption
    DEF IInv, ClearedCount, ThrottlerAssumption

\* A check clears a caller only while the windows have room for it.
LEMMA CanSendKeeps == ASSUME IInv, NEW c \in Callers, CanSend(c) PROVE IInv'
  <1>1. TypeOK /\ ClearedCount
    BY DEF IInv
  <1>2. SecondWindow' = SecondWindow /\ MinuteWindow' = MinuteWindow /\ orders' = orders
    BY DEF CanSend, SecondWindow, MinuteWindow
  <1>3. TypeOK'
    BY <1>1, <1>2, ThrottlerAssumption DEF CanSend, TypeOK, ThrottlerAssumption
  <1>4. CASE cleared' = cleared
    BY <1>1, <1>2, <1>3, <1>4 DEF IInv, ClearedCount
  <1>5. CASE ~SecondFull /\ ~MinuteFull /\ cleared' = cleared \cup {c}
    <2>1. Cardinality(SecondWindow \cap orders) <= Cardinality(SecondWindow)
      BY <1>1, CountsAreFinite, Smaller
    <2>2. Cardinality(SecondWindow) \in Nat /\ Cardinality(MinuteWindow) \in Nat
      BY <1>1, CountsAreFinite, FS_CardinalityType
    <2>3. Cardinality(orders) <= Cardinality(MinuteWindow)
      BY <1>1, CountsAreFinite, Smaller DEF TypeOK
    <2>4. Cardinality(SecondWindow) < SecondLimit /\ Cardinality(MinuteWindow) < MinuteLimit
      BY <1>5, <2>2, ThrottlerAssumption DEF SecondFull, MinuteFull, ThrottlerAssumption
    <2>5. /\ Cardinality(cleared') <= Cardinality(Callers)
          /\ Cardinality(cleared') \in Nat
      BY <1>3, Smaller, ThrottlerAssumption DEF TypeOK, ThrottlerAssumption
    <2>6. Cardinality(Callers) \in Nat
      BY <1>1, CountsAreFinite
    <2>7. /\ Cardinality(SecondWindow \cap orders) \in Nat
          /\ Cardinality(orders) \in Nat
      BY <1>1, CountsAreFinite
    <2>8. ClearedCount'
      BY <1>2, <2>1, <2>2, <2>3, <2>4, <2>5, <2>6, <2>7, ThrottlerAssumption
      DEF ClearedCount, ThrottlerAssumption
    <2>. QED
      BY <1>3, <2>8 DEF IInv
  <1>. QED
    BY <1>4, <1>5 DEF CanSend

\* An order that is recorded takes the place its caller was cleared for.
LEMMA RecordOrderKeeps == ASSUME IInv, NEW c \in Callers, RecordOrder(c) PROVE IInv'
  <1>1. TypeOK /\ ClearedCount
    BY DEF IInv
  <1>2. PICK m \in Messages \ MinuteWindow :
          age' = [age EXCEPT ![m] = 0] /\ orders' = orders \cup {m}
    BY DEF RecordOrder
  <1>3. /\ MinuteWindow' = MinuteWindow \cup {m}
        /\ SecondWindow' = SecondWindow \cup {m}
    BY <1>1, <1>2, ThrottlerAssumption
    DEF TypeOK, MinuteWindow, SecondWindow, ThrottlerAssumption
  <1>4. TypeOK'
    BY <1>1, <1>2, <1>3, ThrottlerAssumption DEF RecordOrder, TypeOK, ThrottlerAssumption
  <1>5. SecondWindow' \cap orders' = (SecondWindow \cap orders) \cup {m}
    <2>1. m \notin SecondWindow /\ m \notin orders
      BY <1>1, <1>2, ThrottlerAssumption
      DEF TypeOK, MinuteWindow, SecondWindow, ThrottlerAssumption
    <2>. QED
      BY <1>2, <1>3, <2>1
  <1>6. Cardinality(cleared') = Cardinality(cleared) - 1
    BY <1>1, CountsAreFinite, FS_RemoveElement DEF RecordOrder
  <1>7. /\ Cardinality(SecondWindow' \cap orders') \in Nat
        /\ Cardinality(SecondWindow' \cap orders') <= Cardinality(SecondWindow \cap orders) + 1
        /\ Cardinality(orders') \in Nat
        /\ Cardinality(orders') <= Cardinality(orders) + 1
    BY <1>1, <1>2, <1>5, CountsAreFinite, OneMore
  <1>8. ClearedCount'
    BY <1>1, <1>6, <1>7, CountsAreFinite, ThrottlerAssumption DEF ClearedCount, ThrottlerAssumption
  <1>. QED
    BY <1>4, <1>8 DEF IInv

\* A modification is no order: only the callers may be cleared for fewer.
LEMMA RecordModifyKeeps == ASSUME IInv, RecordModify PROVE IInv'
  <1>1. TypeOK /\ ClearedCount
    BY DEF IInv
  <1>2. PICK m \in Messages \ MinuteWindow :
          age' = [age EXCEPT ![m] = 0] /\ orders' = orders \ {m}
    BY DEF RecordModify
  <1>3. m \notin orders /\ orders' = orders /\ cleared' = cleared
    BY <1>1, <1>2 DEF TypeOK, RecordModify
  <1>4. /\ MinuteWindow' = MinuteWindow \cup {m}
        /\ SecondWindow' = SecondWindow \cup {m}
    BY <1>1, <1>2, ThrottlerAssumption
    DEF TypeOK, MinuteWindow, SecondWindow, ThrottlerAssumption
  <1>5. TypeOK'
    BY <1>1, <1>2, <1>3, <1>4, ThrottlerAssumption
    DEF RecordModify, TypeOK, ThrottlerAssumption
  <1>6. SecondWindow' \cap orders' = SecondWindow \cap orders
    BY <1>3, <1>4
  <1>. QED
    BY <1>1, <1>3, <1>5, <1>6 DEF IInv, ClearedCount

\* Time only takes messages out of the windows.
LEMMA TickKeeps == ASSUME IInv, Tick PROVE IInv'
  <1>1. TypeOK /\ ClearedCount
    BY DEF IInv
  <1>2. SecondWindow' \subseteq SecondWindow
    BY <1>1, ThrottlerAssumption DEF Tick, TypeOK, SecondWindow, ThrottlerAssumption
  <1>3. orders' \subseteq orders /\ cleared' = cleared
    BY DEF Tick
  <1>4. TypeOK'
    BY <1>1, ThrottlerAssumption DEF Tick, TypeOK, MinuteWindow, ThrottlerAssumption
  <1>5. /\ Cardinality(SecondWindow' \cap orders') <= Cardinality(SecondWindow \cap orders)
        /\ Cardinality(orders') <= Cardinality(orders)
        /\ Cardinality(SecondWindow' \cap orders') \in Nat /\ Cardinality(orders') \in Nat
    BY <1>1, <1>2, <1>3, CountsAreFinite, Smaller
  <1>6. ClearedCount'
    BY <1>1, <1>3, <1>5, CountsAreFinite, ThrottlerAssumption DEF ClearedCount, ThrottlerAssumption
  <1>. QED
    BY <1>4, <1>6 DEF IInv

(* However the checks and the records of any number of callers interleave, *)
(* a window of the throttler holds fewer orders than its limit and the     *)
(* callers together.                                                       *)
THEOREM OrdersAreBounded == DeskSpec => []RateBounded
  <1>1. DeskInit => IInv
    BY ThrottlerStarts DEF DeskInit
  <1>2. IInv /\ [DeskNext]_deskVars => IInv'
    <2> SUFFICES ASSUME IInv, [DeskNext]_deskVars PROVE IInv'
      OBVIOUS
    <2>1. CASE Next
      BY <2>1, CanSendKeeps, RecordOrderKeeps, RecordModifyKeeps, TickKeeps DEF Next
    <2>2. CASE UNCHANGED throttlerVars
      BY <2>2 DEF IInv, TypeOK, ClearedCount, MinuteWindow, SecondWindow, throttlerVars
    <2> QED
      BY <2>1, <2>2 DEF DeskNext, Only, deskVars
  <1>3. IInv => RateBounded
    BY CountsAreFinite, ThrottlerAssumption
    DEF IInv, ClearedCount, RateBounded, ThrottlerAssumption
  <1> QED
    BY <1>1, <1>2, <1>3, PTL DEF DeskSpec

-----------------------------------------------------------------------------
\* The risk manager.

\* The risk manager's sets are counted like all others.
LEMMA SameCount ==
    \A S : /\ Risk!IsFiniteSet(S) <=> IsFiniteSet(S)
           /\ Risk!Cardinality(S) = Cardinality(S)
<1>1. \A S : Risk!IsFiniteSet(S) <=> IsFiniteSet(S)
  BY Zenon DEF Risk!IsFiniteSet, IsFiniteSet
<1>2. \A S : Risk!Cardinality(S) = Cardinality(S)
  BY Zenon DEF Risk!Cardinality, Cardinality
<1> QED
  BY <1>1, <1>2

\* Open positions and approvals are finitely many, and so are the two bounds on them.
LEMMA CountsAreNatural ==
    ASSUME Risk!RiskConstants, Risk!Books
    PROVE  /\ IsFiniteSet(openPositions) /\ IsFiniteSet(approved)
           /\ Cardinality(openPositions) \in Nat /\ Cardinality(approved) \in Nat
           /\ Cardinality(approved) <= Cardinality(Traders)
           /\ Cardinality(Traders) \in Nat
           /\ Risk!AtRisk \in Nat /\ Risk!Excess \in Int
<1>1. IsFiniteSet(openPositions) /\ IsFiniteSet(approved)
  BY FS_Subset, SameCount DEF Risk!RiskConstants, Risk!Books
<1>2. Cardinality(approved) <= Cardinality(Traders)
  BY FS_Subset, SameCount DEF Risk!RiskConstants, Risk!Books
<1>3. /\ Cardinality(openPositions) \in Nat /\ Cardinality(approved) \in Nat
      /\ Cardinality(Traders) \in Nat
  BY <1>1, FS_CardinalityType, SameCount DEF Risk!RiskConstants
<1> QED
  BY <1>1, <1>2, <1>3, SameCount DEF Risk!AtRisk, Risk!Excess, Risk!RiskConstants

\* What fewer positions can lose is less.
LEMMA LossGrows ==
    ASSUME NEW a \in Int, NEW b \in Int, a <= b, NEW w \in Nat
    PROVE  w * a \in Int /\ w * b \in Int /\ w * a <= w * b
  OBVIOUS

\* What a limit allows is a natural number, and grows with the peak.
LEMMA LimitGrows ==
    ASSUME NEW percent \in Nat, NEW a \in Nat, NEW b \in Nat, a <= b
    PROVE  percent * a \in Nat /\ percent * b \in Nat /\ percent * a <= percent * b
  OBVIOUS

\* One position less at risk is one loss less at risk.
LEMMA LossOfOne ==
    ASSUME NEW a \in Int, NEW w \in Nat
    PROVE  w * (a - 1) = w * a - w
  OBVIOUS

\* A limit is passed by what the positions at risk lose and no more.
LEMMA LimitAndRisk ==
    ASSUME NEW risk \in Int, NEW all \in Int, risk <= all,
           NEW loss \in Int, NEW limit \in Int, 100 * loss <= limit
    PROVE  100 * (risk + loss) <= limit + 100 * all
  OBVIOUS

(* What was lost and what is at risk stay within the limits and what all may lose. *)
Fits(risk, all, lost, fallen, top) ==
    /\ 100 * (risk + lost) <= Limits.dailyLoss * top + 100 * all
    /\ 100 * (risk + fallen) <= Limits.drawdown * top + 100 * all

\* They say the same.
LEMMA LossesFit ==
    ASSUME Risk!RiskConstants, Risk!Books, Risk!Excess \in Int, Risk!AtRisk \in Int
    PROVE  Risk!LossesBounded <=>
             /\ Risk!AtRisk <= Risk!Excess
             /\ Fits(Limits.loss * Risk!AtRisk, Limits.loss * Risk!Excess, -dailyPnl,
                     peakBalance - balanceNow, peakBalance)
<1>1. 100 * Limits.loss * Risk!Excess = 100 * (Limits.loss * Risk!Excess)
  BY DEF Risk!RiskConstants
<1>2. /\ Limits.loss * Risk!AtRisk \in Int /\ Limits.loss * Risk!Excess \in Int
      /\ Limits.dailyLoss * peakBalance \in Int /\ Limits.drawdown * peakBalance \in Int
  BY DEF Risk!RiskConstants, Risk!Books
<1>3. /\ Limits.loss * Risk!AtRisk - dailyPnl = Limits.loss * Risk!AtRisk + (-dailyPnl)
      /\ Limits.loss * Risk!AtRisk + peakBalance - balanceNow
           = Limits.loss * Risk!AtRisk + (peakBalance - balanceNow)
  BY <1>2 DEF Risk!Books
<1> QED
  BY <1>1, <1>3 DEF Risk!LossesBounded, Fits
\* Nothing is lost when the day begins.
LEMMA RiskStarts ==
    ASSUME Risk!RiskConstants, Risk!Init
    PROVE  Risk!IInv
<1>1. Risk!Books
  BY DEF Risk!Init, Risk!Books, Risk!RiskConstants
<1>2. Cardinality({}) = 0
  BY FS_EmptySet
<1>3. Risk!AtRisk = 0
  BY <1>2, SameCount DEF Risk!AtRisk, Risk!Init
<1>4. Risk!Excess \in Nat
  BY FS_CardinalityType, SameCount DEF Risk!Excess, Risk!RiskConstants
<1>5. Limits.loss * Risk!Excess \in Nat /\ Limits.dailyLoss * peakBalance \in Nat
      /\ Limits.drawdown * peakBalance \in Nat /\ Limits.loss * 0 = 0
  BY <1>4 DEF Risk!RiskConstants, Risk!Init
<1>6. Risk!LossesBounded
  BY <1>3, <1>4, <1>5 DEF Risk!LossesBounded, Risk!Init, Risk!RiskConstants
<1> QED
  BY <1>1, <1>6 DEF Risk!IInv

\* An approval is given only while neither limit is reached.
LEMMA ApprovalKeeps ==
    ASSUME Risk!RiskConstants, Risk!IInv, NEW t \in Traders, Risk!CanOpenPosition(t)
    PROVE  Risk!IInv'
<1>1. Risk!Books /\ Risk!Books'
  BY DEF Risk!Books, Risk!CanOpenPosition, Risk!IInv
<1>2. Cardinality(approved') = Cardinality(approved) + 1
  BY <1>1, CountsAreNatural, FS_AddElement DEF Risk!CanOpenPosition
<1>3. Cardinality(approved') <= Cardinality(Traders)
  BY <1>1, FS_Subset, SameCount DEF Risk!Books, Risk!RiskConstants
<1>4. Risk!AtRisk' = Risk!AtRisk + 1 /\ Risk!AtRisk' \in Int /\ Risk!Excess \in Int
  BY <1>1, <1>2, CountsAreNatural, SameCount DEF Risk!AtRisk, Risk!CanOpenPosition
<1>5. Risk!AtRisk' <= Risk!Excess
  <2>1. Cardinality(openPositions) <= Limits.positions - 1
    BY <1>1, CountsAreNatural, SameCount DEF Risk!CanOpenPosition, Risk!CanOpen, Risk!RiskConstants
  <2>2. Risk!AtRisk' = Cardinality(openPositions) + Cardinality(approved')
    BY SameCount DEF Risk!AtRisk, Risk!CanOpenPosition
  <2>3. Cardinality(approved') \in Nat
    BY <1>1, <1>2, CountsAreNatural
  <2> QED
    BY <1>1, <1>3, <2>1, <2>2, <2>3, CountsAreNatural, SameCount DEF Risk!Excess, Risk!RiskConstants
<1>6. Limits.loss * Risk!AtRisk' <= Limits.loss * Risk!Excess
      /\ Limits.loss * Risk!AtRisk' \in Int /\ Limits.loss * Risk!Excess \in Int
  BY <1>4, <1>5, LossGrows DEF Risk!RiskConstants
<1>7. Limits.dailyLoss * peakBalance \in Nat /\ Limits.drawdown * peakBalance \in Nat
  BY <1>1 DEF Risk!RiskConstants, Risk!Books
<1>8. 100 * (-dailyPnl) <= Limits.dailyLoss * peakBalance
  <2>1. Limits.dailyLoss * balanceNow <= Limits.dailyLoss * peakBalance
        /\ Limits.dailyLoss * balanceNow \in Int
    BY <1>1, LossGrows DEF Risk!RiskConstants, Risk!Books
  <2> QED
    BY <1>1, <1>7, <2>1, SameCount DEF Risk!CanOpenPosition, Risk!CanOpen, Risk!DailyLossReached, Risk!Books
<1>9. 100 * (peakBalance - balanceNow) <= Limits.drawdown * peakBalance
  BY <1>1, <1>7, SameCount DEF Risk!CanOpenPosition, Risk!CanOpen, Risk!DrawdownReached, Risk!Books
<1>10. Fits(Limits.loss * Risk!AtRisk', Limits.loss * Risk!Excess, -dailyPnl, peakBalance - balanceNow, peakBalance)
  <2>1. 100 * (Limits.loss * Risk!AtRisk' + (-dailyPnl)) <= Limits.dailyLoss * peakBalance + 100 * (Limits.loss * Risk!Excess)
    BY <1>1, <1>6, <1>7, <1>8, LimitAndRisk DEF Risk!Books
  <2>2. 100 * (Limits.loss * Risk!AtRisk' + (peakBalance - balanceNow))
          <= Limits.drawdown * peakBalance + 100 * (Limits.loss * Risk!Excess)
    BY <1>1, <1>6, <1>7, <1>9, LimitAndRisk DEF Risk!Books
  <2> QED
    BY <2>1, <2>2 DEF Fits
<1>11. UNCHANGED <<balanceNow, peakBalance, dailyPnl>> /\ Risk!Excess' = Risk!Excess
  BY SameCount DEF Risk!CanOpenPosition, Risk!Excess
<1> QED
  <2>1. Risk!LossesBounded'
    BY <1>1, <1>4, <1>5, <1>10, <1>11 DEF Risk!LossesBounded, Fits, Risk!Books, Risk!RiskConstants
  <2> QED
    BY <1>1, <2>1 DEF Risk!IInv

\* An approval becomes a position: as many are at risk as before.
LEMMA RegistrationKeeps ==
    ASSUME Risk!RiskConstants, Risk!IInv, NEW t \in Traders, Risk!RegisterPosition(t)
    PROVE  Risk!IInv'
<1>1. Risk!Books /\ Risk!Books'
  BY DEF Risk!Books, Risk!RegisterPosition, Risk!IInv
<1>2. PICK p \in Positions \ openPositions : openPositions' = openPositions \cup {p}
  BY DEF Risk!RegisterPosition
<1>3. Cardinality(openPositions') = Cardinality(openPositions) + 1
  BY <1>1, <1>2, CountsAreNatural, FS_AddElement
<1>4. Cardinality(approved') = Cardinality(approved) - 1
  BY <1>1, CountsAreNatural, FS_RemoveElement DEF Risk!RegisterPosition
<1>5. Risk!AtRisk' = Risk!AtRisk
  BY <1>1, <1>3, <1>4, CountsAreNatural, SameCount DEF Risk!AtRisk
<1>6. UNCHANGED <<balanceNow, peakBalance, dailyPnl>> /\ Risk!Excess' = Risk!Excess
  BY SameCount DEF Risk!RegisterPosition, Risk!Excess
<1>7. Risk!LossesBounded'
  BY <1>5, <1>6 DEF Risk!LossesBounded, Risk!IInv
<1> QED
  BY <1>1, <1>7 DEF Risk!IInv

\* A result takes one position off the risk and adds no more than its loss.
LEMMA ResultKeeps ==
    ASSUME Risk!RiskConstants, Risk!IInv, NEW p \in openPositions,
           NEW pnl \in (-Limits.loss)..Limits.gain, Risk!ClosePosition(p, pnl)
    PROVE  Risk!IInv'
<1>1. pnl \in Int /\ -Limits.loss <= pnl /\ Limits.loss \in Nat
  BY DEF Risk!RiskConstants
<1>2. Risk!Books /\ balanceNow' = balanceNow + pnl /\ dailyPnl' = dailyPnl + pnl
  BY DEF Risk!ClosePosition, Risk!IInv
<1>3. /\ peakBalance' \in Int /\ peakBalance <= peakBalance'
      /\ peakBalance' = balanceNow' \/ peakBalance' = peakBalance
      /\ balanceNow' <= peakBalance'
  BY <1>1, <1>2 DEF Risk!ClosePosition, Risk!PeakAfter, Risk!Books
<1>4. Risk!Books'
  BY <1>1, <1>2, <1>3 DEF Risk!Books, Risk!ClosePosition
<1>5. Cardinality(openPositions') = Cardinality(openPositions) - 1
  BY <1>2, CountsAreNatural, FS_RemoveElement DEF Risk!ClosePosition
<1>6. Risk!AtRisk' = Risk!AtRisk - 1 /\ Risk!AtRisk \in Int /\ Risk!Excess \in Int
  BY <1>2, <1>5, CountsAreNatural, SameCount DEF Risk!AtRisk, Risk!ClosePosition
<1>7. Limits.loss * Risk!AtRisk' = Limits.loss * Risk!AtRisk - Limits.loss
      /\ Limits.loss * Risk!AtRisk \in Int /\ Limits.loss * Risk!Excess \in Int
  BY <1>1, <1>6, LossOfOne DEF Risk!RiskConstants
<1>8. Risk!AtRisk <= Risk!Excess /\ Fits(Limits.loss * Risk!AtRisk, Limits.loss * Risk!Excess, -dailyPnl,
                               peakBalance - balanceNow, peakBalance)
  BY <1>2, <1>6, LossesFit DEF Risk!IInv
<1>9. Risk!AtRisk' <= Risk!Excess /\ Limits.loss * Risk!AtRisk' <= Limits.loss * Risk!Excess
  <2>1. Risk!AtRisk' <= Risk!Excess
    BY <1>6, <1>8
  <2> QED
    BY <2>1, <1>1, <1>6, LossGrows
<1>10. /\ Limits.dailyLoss * peakBalance \in Int /\ Limits.dailyLoss * peakBalance' \in Nat
       /\ Limits.dailyLoss * peakBalance <= Limits.dailyLoss * peakBalance'
       /\ Limits.drawdown * peakBalance \in Int /\ Limits.drawdown * peakBalance' \in Nat
  <2>1. peakBalance \in Nat /\ peakBalance' \in Nat /\ peakBalance <= peakBalance'
    BY <1>2, <1>3, <1>4 DEF Risk!Books
  <2>2. Limits.dailyLoss \in Nat /\ Limits.drawdown \in Nat
    BY DEF Risk!RiskConstants
  <2>3. /\ Limits.dailyLoss * peakBalance \in Nat /\ Limits.dailyLoss * peakBalance' \in Nat
        /\ Limits.dailyLoss * peakBalance <= Limits.dailyLoss * peakBalance'
    BY ONLY <2>1, <2>2, LimitGrows
  <2>4. Limits.drawdown * peakBalance \in Nat /\ Limits.drawdown * peakBalance' \in Nat
    BY ONLY <2>1, <2>2, LimitGrows
  <2> QED
    BY <2>3, <2>4
<1>11. 100 * (Limits.loss * Risk!AtRisk' + (-dailyPnl)')
         <= Limits.dailyLoss * peakBalance' + 100 * (Limits.loss * Risk!Excess)
  <2> DEFINE risk == Limits.loss * Risk!AtRisk
             all == Limits.loss * Risk!Excess
             before == Limits.dailyLoss * peakBalance
             after == Limits.dailyLoss * peakBalance'
  <2>1. 100 * (risk + (-dailyPnl)) <= before + 100 * all
    BY <1>8 DEF Fits
  <2>2. risk \in Int /\ all \in Int /\ before \in Int /\ after \in Int /\ before <= after
        /\ dailyPnl \in Int
    BY <1>2, <1>7, <1>10 DEF Risk!Books
  <2>3. Limits.loss * Risk!AtRisk' = risk - Limits.loss
    BY <1>7
  <2> HIDE DEF risk, all, before, after
  <2>4. 100 * (risk - Limits.loss + -(dailyPnl + pnl)) <= after + 100 * all
    BY <1>1, <2>1, <2>2
  <2> QED
    BY <1>2, <2>3, <2>4 DEF after, all
<1>12. 100 * (Limits.loss * Risk!AtRisk' + (peakBalance' - balanceNow'))
         <= Limits.drawdown * peakBalance' + 100 * (Limits.loss * Risk!Excess)
  <2>1. CASE peakBalance' = balanceNow'
    BY <2>1, <1>1, <1>3, <1>4, <1>6, <1>7, <1>9, <1>10, LimitAndRisk DEF Risk!Books
  <2>2. CASE peakBalance' = peakBalance
    <3> DEFINE risk == Limits.loss * Risk!AtRisk
               all == Limits.loss * Risk!Excess
               limit == Limits.drawdown * peakBalance
    <3>1. 100 * (risk + (peakBalance - balanceNow)) <= limit + 100 * all
      BY <1>8 DEF Fits
    <3>2. risk \in Int /\ all \in Int /\ limit \in Int /\ peakBalance \in Int /\ balanceNow \in Int
      BY <1>2, <1>7, <1>10 DEF Risk!Books
    <3>3. Limits.loss * Risk!AtRisk' = risk - Limits.loss
      BY <1>7
    <3> HIDE DEF risk, all, limit
    <3>4. 100 * (risk - Limits.loss + (peakBalance - (balanceNow + pnl))) <= limit + 100 * all
      BY <1>1, <3>1, <3>2
    <3> QED
      BY <1>2, <2>2, <3>3, <3>4 DEF limit, all
  <2> QED
    BY <1>3, <2>1, <2>2
<1>13. Risk!LossesBounded'
  <2>1. Risk!Excess' = Risk!Excess
    BY SameCount DEF Risk!Excess
  <2>2. 100 * Limits.loss * Risk!Excess = 100 * (Limits.loss * Risk!Excess)
    BY <1>6 DEF Risk!RiskConstants
  <2>3. Limits.loss * Risk!AtRisk' \in Int
    BY <1>7, <1>1
  <2>4. 100 * (Limits.loss * Risk!AtRisk' - dailyPnl') <= Limits.dailyLoss * peakBalance' + 100 * Limits.loss * Risk!Excess
    BY <1>4, <1>11, <2>2, <2>3 DEF Risk!Books
  <2>5. 100 * (Limits.loss * Risk!AtRisk' + peakBalance' - balanceNow')
          <= Limits.drawdown * peakBalance' + 100 * Limits.loss * Risk!Excess
    BY <1>4, <1>12, <2>2, <2>3 DEF Risk!Books
  <2> QED
    BY <1>9, <2>1, <2>4, <2>5 DEF Risk!LossesBounded
<1> QED
  BY <1>4, <1>13 DEF Risk!IInv

\* A new day forgets the losses of the last, not the positions at risk.
LEMMA NewDayKeeps ==
    ASSUME Risk!RiskConstants, Risk!IInv, Risk!ResetDailyPnl
    PROVE  Risk!IInv'
<1>1. Risk!Books /\ Risk!Books' /\ dailyPnl' = 0 /\ UNCHANGED <<balanceNow, peakBalance>>
      /\ Risk!AtRisk' = Risk!AtRisk /\ Risk!Excess' = Risk!Excess
  BY SameCount DEF Risk!Books, Risk!ResetDailyPnl, Risk!IInv, Risk!AtRisk, Risk!Excess
<1>2. Risk!AtRisk \in Int /\ Risk!Excess \in Int /\ Risk!AtRisk <= Risk!Excess
  BY <1>1, CountsAreNatural DEF Risk!IInv, Risk!LossesBounded
<1>3. /\ Limits.loss * Risk!AtRisk <= Limits.loss * Risk!Excess
      /\ Limits.loss * Risk!AtRisk \in Int /\ Limits.loss * Risk!Excess \in Int
      /\ Limits.dailyLoss * peakBalance \in Nat
  BY <1>1, <1>2, LossGrows DEF Risk!RiskConstants, Risk!Books
<1>4. 100 * (Limits.loss * Risk!AtRisk + 0) <= Limits.dailyLoss * peakBalance + 100 * (Limits.loss * Risk!Excess)
  BY <1>3, LimitAndRisk
<1>5. 100 * Limits.loss * Risk!Excess = 100 * (Limits.loss * Risk!Excess)
  BY <1>2 DEF Risk!RiskConstants
<1>6. 100 * (Limits.loss * Risk!AtRisk - 0) <= Limits.dailyLoss * peakBalance + 100 * Limits.loss * Risk!Excess
  BY <1>3, <1>4, <1>5
<1>7. Risk!LossesBounded'
  BY <1>1, <1>6 DEF Risk!LossesBounded, Risk!IInv
<1> QED
  BY <1>1, <1>7 DEF Risk!IInv

-----------------------------------------------------------------------------
\* The backtest engine.

\* What the risk manager of the backtest knows is of its kind from the start.
LEMMA BacktestStarts ==
    ASSUME Back!BacktestConstants, Back!Init
    PROVE  Back!TypeOK /\ Back!DrawdownHalts
<1>1. Back!TypeOK
  <2>1. halted \in BOOLEAN
    BY Zenon DEF Back!Init
  <2>2. haltLevel = 0 /\ testPnl = 0 /\ results = 0 /\ capital = Test.capital
        /\ current = Test.capital /\ peakCapital = Test.capital /\ Test.capital \in Int
    BY DEF Back!Init, Back!BacktestConstants
  <2>3. 0 \in 0..2
    OBVIOUS
  <2> QED
    BY <2>1, <2>2, <2>3 DEF Back!TypeOK
<1>2. \A tenths \in Nat : ~Back!DrawdownOver(current, peakCapital, tenths)
  <2> SUFFICES ASSUME NEW tenths \in Nat
               PROVE  ~(100 * (peakCapital - current)
                          > Test.drawdown * tenths * peakCapital)
    BY DEF Back!DrawdownOver
  <2>1. peakCapital = Test.capital /\ current = Test.capital
    BY DEF Back!Init
  <2>2. Test.drawdown * tenths \in Nat
    BY DEF Back!BacktestConstants
  <2>3. Test.drawdown * tenths * Test.capital \in Nat
    BY <2>2 DEF Back!BacktestConstants
  <2> QED
    BY <2>1, <2>3 DEF Back!BacktestConstants
<1> QED
  BY <1>1, <1>2 DEF Back!Init, Back!DrawdownHalts, Back!BacktestConstants

\* The check of the drawdown leaves the halt and the switch as its limits demand.
LEMMA CheckHalts ==
    ASSUME Back!TypeOK, NEW now \in Int, NEW top \in Int, Back!CheckIntradayRisk(now, top)
    PROVE  /\ current' \in Int /\ peakCapital' \in Int
           /\ haltLevel' \in 0..2 /\ halted' \in BOOLEAN
           /\ Back!DrawdownOver(current', peakCapital', 8) => haltLevel' = 2
           /\ Back!DrawdownOver(current', peakCapital', 10) => halted'
<1>1. current' = now /\ peakCapital' = top
  BY DEF Back!CheckIntradayRisk
<1>2. /\ halted' \in BOOLEAN
      /\ Back!DrawdownOver(now, top, 10) => halted'
  BY Zenon DEF Back!CheckIntradayRisk, Back!DrawdownOver
<1>3. /\ haltLevel' \in 0..2
      /\ Back!DrawdownOver(now, top, 8) => haltLevel' = 2
  <2>1. haltLevel' \in {2, 1, haltLevel} /\ (Back!DrawdownOver(now, top, 8) => haltLevel' = 2)
    BY Zenon DEF Back!CheckIntradayRisk
  <2>2. haltLevel \in 0..2 /\ 1 \in 0..2 /\ 2 \in 0..2
    BY DEF Back!TypeOK
  <2> QED
    BY <2>1, <2>2
<1> QED
  BY <1>1, <1>2, <1>3

\* Neither an admission nor an opening moves the capital the limits are about.
LEMMA AdmissionHalts ==
    ASSUME Back!TypeOK, Back!DrawdownHalts, NEW o, NEW size, Back!SubmitOrder(o, size)
    PROVE  (Back!TypeOK /\ Back!DrawdownHalts)'
<1>1. UNCHANGED <<capital, current, peakCapital, testPnl, results>>
  BY DEF Back!SubmitOrder
<1>2. (halted' = TRUE /\ haltLevel' = 2) \/ UNCHANGED <<haltLevel, halted>>
  BY DEF Back!SubmitOrder
<1>3. halted' \in BOOLEAN /\ (Back!DrawdownOver(current, peakCapital, 10) => halted')
  BY <1>2, Zenon DEF Back!TypeOK, Back!DrawdownHalts
<1>4. haltLevel' \in 0..2 /\ (Back!DrawdownOver(current, peakCapital, 8) => haltLevel' = 2)
  <2>1. 2 \in 0..2
    OBVIOUS
  <2> QED
    BY <1>2, <2>1 DEF Back!TypeOK, Back!DrawdownHalts
<1> QED
  BY <1>1, <1>3, <1>4 DEF Back!TypeOK, Back!DrawdownHalts, Back!DrawdownOver

\* A tick never leaves a drawdown beyond its limit without a halt.
LEMMA TickHalts ==
    ASSUME Back!BacktestConstants, Back!TypeOK, Back!DrawdownHalts,
           NEW gain \in Test.gains, Back!ProcessTick(gain)
    PROVE  (Back!TypeOK /\ Back!DrawdownHalts)'
<1>1. gain \in Int /\ capital + gain \in Int /\ peakCapital \in Int
  BY DEF Back!BacktestConstants, Back!TypeOK
<1>2. Back!CheckIntradayRisk(capital + gain, peakCapital)
  BY DEF Back!ProcessTick
<1>3. /\ current' \in Int /\ peakCapital' \in Int
      /\ haltLevel' \in 0..2 /\ halted' \in BOOLEAN
      /\ Back!DrawdownOver(current', peakCapital', 8) => haltLevel' = 2
      /\ Back!DrawdownOver(current', peakCapital', 10) => halted'
  BY <1>1, <1>2, CheckHalts
<1>4. UNCHANGED <<capital, testPnl, results>>
  BY DEF Back!ProcessTick
<1> QED
  BY <1>3, <1>4 DEF Back!TypeOK, Back!DrawdownHalts, Back!DrawdownOver

\* Nor does an execution, whose commission is a loss.
LEMMA ExecutionHalts ==
    ASSUME Back!BacktestConstants, Back!TypeOK, Back!DrawdownHalts,
           NEW o, NEW size, NEW result \in Test.results, Back!ExecuteOrder(o, size, result)
    PROVE  (Back!TypeOK /\ Back!DrawdownHalts)'
<1>1. CASE Back!ExecuteOpening(o, size)
  BY <1>1 DEF Back!ExecuteOpening, Back!riskVars, Back!TypeOK, Back!DrawdownHalts,
              Back!DrawdownOver
<1>2. CASE Back!ExecuteClosing(o, size, result)
  <2> DEFINE now == current + result
             top == IF now > peakCapital THEN now ELSE peakCapital
  <2>1. result \in Int /\ now \in Int /\ top \in Int
    BY DEF Back!BacktestConstants, Back!TypeOK
  <2>2. Back!CheckIntradayRisk(now, top) /\ testPnl' = testPnl + result
        /\ capital' = capital + result /\ results' = results + result
    BY <1>2 DEF Back!ExecuteClosing, Back!UpdateCapital
  <2> HIDE DEF now, top
  <2>3. /\ current' \in Int /\ peakCapital' \in Int
        /\ haltLevel' \in 0..2 /\ halted' \in BOOLEAN
        /\ Back!DrawdownOver(current', peakCapital', 8) => haltLevel' = 2
        /\ Back!DrawdownOver(current', peakCapital', 10) => halted'
    BY <2>1, <2>2, CheckHalts
  <2>4. capital' = Test.capital + results' /\ testPnl' = results'
        /\ capital' \in Int /\ results' \in Int /\ testPnl' \in Int
    BY <2>1, <2>2 DEF Back!TypeOK, Back!DrawdownHalts, Back!BacktestConstants
  <2> QED
    BY <2>3, <2>4 DEF Back!TypeOK, Back!DrawdownHalts, Back!DrawdownOver
<1> QED
  BY <1>1, <1>2 DEF Back!ExecuteOrder

(* Whatever the limits: a trader's day's loss and fall from the peak pass   *)
(* their limits by no more than what the positions approved together can   *)
(* still lose; and beyond the limits of its drawdown the backtest is halted *)
(* or killed, with no result lost or booked twice.                         *)
THEOREM LossesAreBounded == DeskSpec => []LossesBounded
<1> DEFINE Halts == Back!TypeOK /\ Back!DrawdownHalts
<1>0. Risk!RiskConstants /\ Back!BacktestConstants
  BY DeskConstants
<1>1. DeskInit => Risk!IInv /\ Halts
  BY <1>0, RiskStarts, BacktestStarts DEF DeskInit
<1>2. Risk!IInv /\ [DeskNext]_deskVars => Risk!IInv'
  <2> SUFFICES ASSUME Risk!IInv, [DeskNext]_deskVars PROVE Risk!IInv'
    OBVIOUS
  <2>1. CASE Risk!Next
    BY <1>0, <2>1, ApprovalKeeps, RegistrationKeeps, ResultKeeps, NewDayKeeps DEF Risk!Next
  <2>2. CASE UNCHANGED riskVars
    BY <2>2 DEF riskVars, Risk!IInv, Risk!Books, Risk!LossesBounded, Risk!AtRisk, Risk!Excess
  <2> QED
    BY <2>1, <2>2 DEF DeskNext, Only, deskVars
<1>3. Halts /\ [DeskNext]_deskVars => Halts'
  <2> SUFFICES ASSUME Halts, [DeskNext]_deskVars PROVE Halts'
    OBVIOUS
  <2>1. CASE Back!Next
    BY <1>0, <2>1, TickHalts, AdmissionHalts, ExecutionHalts DEF Back!Next
  <2>2. CASE UNCHANGED testVars
    BY <2>2 DEF testVars, Back!TypeOK, Back!DrawdownHalts, Back!DrawdownOver
  <2> QED
    BY <2>1, <2>2 DEF DeskNext, Only, deskVars
<1>4. Risk!IInv /\ Halts => LossesBounded
  BY DEF LossesBounded, Risk!IInv
<1> HIDE DEF Halts
<1> QED
  BY <1>1, <1>2, <1>3, <1>4, PTL DEF DeskSpec

-----------------------------------------------------------------------------
\* The asynchronous engine.

\* No order of an idle engine is rejected.
LEMMA EngineStarts == ASSUME Engine!Init PROVE Engine!IInv
<1>1. shutdown \in BOOLEAN /\ backup \in BOOLEAN
  BY Zenon DEF Engine!Init
<1>2. 0 \in 0..2
  OBVIOUS
<1> QED
  BY <1>1, <1>2 DEF Engine!Init, Engine!IInv, Engine!TypeOK, Engine!RejectedTookNothing,
                    Engine!Quantity

\* A step of the engine for one order keeps what holds of it: while submit_order has the
\* lock its own fills wait, and the delayed fill comes to an order that took nothing.
LEMMA EngineKeeps ==
    ASSUME Engine!IInv, Engine!Next
    PROVE  Engine!IInv'
<1> USE DEF Engine!IInv, Engine!TypeOK, Engine!RejectedTookNothing, Engine!Quantity
<1>1. ASSUME NEW o \in Orders, Engine!Submit(o)
      PROVE  Engine!IInv'
  BY <1>1 DEF Engine!Submit, Engine!Returned, Engine!LockAdmits
<1>2. ASSUME NEW o \in Orders, Engine!NoMarket(o)
      PROVE  Engine!IInv'
  BY <1>2 DEF Engine!NoMarket, Engine!AtVenue, Engine!Returned
<1>3. ASSUME NEW o \in Orders, Engine!Rest(o)
      PROVE  Engine!IInv'
  BY <1>3 DEF Engine!Rest, Engine!AtVenue, Engine!Returned
<1>4. ASSUME NEW o \in Orders, Engine!ApplySimulated(o)
      PROVE  Engine!IInv'
  <2>1. lock[o] = "submit" /\ submit[o] \in {"primary", "backup"}
    BY <1>4 DEF Engine!ApplySimulated, Engine!AtVenue
  <2> QED
    BY <1>4, <2>1 DEF Engine!ApplySimulated, Engine!LockAdmits
<1>5. ASSUME NEW o \in Orders, Engine!Timeout(o)
      PROVE  Engine!IInv'
  BY <1>5 DEF Engine!Timeout, Engine!Returned
<1>6. ASSUME NEW o \in Orders, Engine!Apply(o, 2), delayed[o] \in {"sleeping", "waiting"},
             delayed' = [delayed EXCEPT ![o] = "over"],
             UNCHANGED <<backup, lock, submit, confirmed, shutdown>>
      PROVE  Engine!IInv'
  BY <1>6 DEF Engine!Apply, Engine!FilledStatus
<1>7. ASSUME NEW o \in Orders, Engine!WakeDelayed(o)
      PROVE  Engine!IInv'
  BY <1>6, <1>7 DEF Engine!WakeDelayed
<1>8. ASSUME NEW o \in Orders, Engine!ApplyDelayed(o)
      PROVE  Engine!IInv'
  BY <1>6, <1>8 DEF Engine!ApplyDelayed
<1>9. ASSUME NEW o \in Orders, Engine!AskCancel(o)
      PROVE  Engine!IInv'
  BY <1>9 DEF Engine!AskCancel, Engine!LockAdmits
<1>10. ASSUME NEW o \in Orders, Engine!ConfirmCancel(o)
       PROVE  Engine!IInv'
  BY <1>10 DEF Engine!ConfirmCancel
<1>11. ASSUME NEW o \in Orders, Engine!Modify(o)
       PROVE  Engine!IInv'
  BY <1>11 DEF Engine!Modify, Engine!LockAdmits
<1>12. ASSUME Engine!Shutdown
       PROVE  Engine!IInv'
  BY <1>12 DEF Engine!Shutdown
<1> QED
  BY <1>1, <1>2, <1>3, <1>4, <1>5, <1>7, <1>8, <1>9, <1>10, <1>11, <1>12
  DEF Engine!Next, Engine!SubmitSteps

-----------------------------------------------------------------------------
\* The OMS of src/.

\* Nothing is placed, taken or filled before a loop runs.
LEMMA OmsStarts == ASSUME Oms!OmsConstants, Oms!Init PROVE Oms!IInv
<1>1. queue = <<>> /\ queue \in Seq(Orders) /\ DOMAIN queue = {}
  BY DEF Oms!Init
<1>2. running \in BOOLEAN /\ connecting \in BOOLEAN
  BY Zenon DEF Oms!Init
<1>3. Oms!TypeOK
  BY <1>1, <1>2 DEF Oms!Init, Oms!TypeOK
<1>4. Oms!PlacedByOne /\ \A l \in Loops : Oms!LoopInv(l)
  BY DEF Oms!Init, Oms!PlacedByOne, Oms!LoopInv
<1> QED
  BY <1>1, <1>3, <1>4 DEF Oms!IInv, Oms!Init

\* A loop takes an order that no loop has had and that has no fill.
LEMMA TakeKeeps ==
    ASSUME Oms!OmsConstants, Oms!IInv, NEW l \in Loops, Oms!Take(l)
    PROVE  Oms!IInv'
<1> DEFINE o == Head(queue)
<1>1. Oms!TypeOK /\ Oms!PlacedByOne
  BY DEF Oms!IInv
<1>2. /\ o \in Orders /\ o = queue[1] /\ Len(queue) \in Nat \ {0}
      /\ Tail(queue) \in Seq(Orders) /\ Len(Tail(queue)) = Len(queue) - 1
      /\ \A i \in 1..(Len(queue) - 1) : Tail(queue)[i] = queue[i + 1]
  BY <1>1 DEF Oms!Take, Oms!TypeOK
<1>3. /\ taken' = [taken EXCEPT ![l] = o] /\ queue' = Tail(queue) /\ known' = known \cup {o}
      /\ loop' = [loop EXCEPT ![l] = "placing"]
      /\ UNCHANGED <<running, connecting, orderStatus, placed, brokerFills, fills>>
  BY DEF Oms!Take, Oms!Removed, Oms!Goes
<1> HIDE DEF o
<1>4. o \notin known /\ o \notin placed /\ o \notin brokerFills /\ fills[o] = 0 /\ o # Oms!None
  BY <1>1, <1>2 DEF Oms!IInv, Oms!TypeOK, Oms!PlacedByOne, Oms!OmsConstants
<1>5. Oms!TypeOK'
  BY <1>1, <1>2, <1>3 DEF Oms!TypeOK
<1>6. Oms!PlacedByOne'
  <2>1. \A k \in Loops : taken[k] # o
    BY <1>1, <1>4 DEF Oms!IInv, Oms!LoopInv
  <2> QED
    BY <1>1, <1>3, <2>1 DEF Oms!PlacedByOne, Oms!TypeOK
<1>7. /\ \A i \in DOMAIN queue' : queue'[i] \notin known'
      /\ \A i, j \in DOMAIN queue' : queue'[i] = queue'[j] => i = j
  <2>1. /\ \A i \in DOMAIN queue : queue[i] \notin known
        /\ \A i, j \in DOMAIN queue : queue[i] = queue[j] => i = j
        /\ DOMAIN queue = 1..Len(queue) /\ DOMAIN queue' = 1..(Len(queue) - 1)
    BY <1>1, <1>2, <1>3 DEF Oms!IInv, Oms!TypeOK
  <2>2. ASSUME NEW i \in 1..(Len(queue) - 1)
        PROVE  queue'[i] = queue[i + 1] /\ i + 1 \in 1..Len(queue) /\ 1 \in 1..Len(queue)
    BY <1>2, <1>3
  <2> QED
    BY <1>2, <1>3, <2>1, <2>2
<1>8. \A k \in Loops : Oms!LoopInv(k)'
  BY <1>1, <1>3, <1>4 DEF Oms!IInv, Oms!LoopInv, Oms!TypeOK
<1>9. \A p \in Orders : orderStatus'[p] = "FILLED" => p \in brokerFills'
  BY <1>3 DEF Oms!IInv
<1> QED
  BY <1>5, <1>6, <1>7, <1>8, <1>9 DEF Oms!IInv

\* An order that is submitted is nowhere yet.
LEMMA SubmissionKeeps ==
    ASSUME Oms!IInv, NEW o \in Orders, Oms!SubmitOrder(o)
    PROVE  Oms!IInv'
<1>1. Oms!TypeOK /\ queue \in Seq(Orders)
  BY DEF Oms!IInv, Oms!TypeOK
<1>2. /\ queue' = Append(queue, o) /\ queue' \in Seq(Orders) /\ Len(queue) \in Nat
      /\ DOMAIN queue = 1..Len(queue) /\ DOMAIN queue' = 1..(Len(queue) + 1)
      /\ \A i \in DOMAIN queue : queue'[i] = queue[i]
      /\ queue'[Len(queue) + 1] = o
  BY <1>1 DEF Oms!SubmitOrder
<1>3. o \notin known /\ \A i \in DOMAIN queue : queue[i] # o
  BY DEF Oms!SubmitOrder, Oms!Submitted
<1>4. UNCHANGED <<running, connecting, loop, taken, known, orderStatus, placed, brokerFills, fills>>
  BY DEF Oms!SubmitOrder
<1>5. \A i \in DOMAIN queue' : i \in DOMAIN queue \/ i = Len(queue) + 1
  BY <1>2
<1>6. /\ \A i \in DOMAIN queue' : queue'[i] \notin known'
      /\ \A i, j \in DOMAIN queue' : queue'[i] = queue'[j] => i = j
  BY <1>2, <1>3, <1>4, <1>5 DEF Oms!IInv
<1>7. Oms!TypeOK' /\ Oms!PlacedByOne' /\ \A l \in Loops : Oms!LoopInv(l)'
  BY <1>1, <1>2, <1>4 DEF Oms!IInv, Oms!TypeOK, Oms!PlacedByOne, Oms!LoopInv
<1> QED
  BY <1>4, <1>6, <1>7 DEF Oms!IInv

\* The loop that has an order places it and books its fill, once each.
LEMMA LoopKeeps ==
    ASSUME Oms!OmsConstants, Oms!IInv, NEW l \in Loops,
           Oms!Placed(l) \/ Oms!PlacementFails(l) \/ Oms!HandleFill(l)
    PROVE  Oms!IInv'
<1> DEFINE o == taken[l]
<1>1. Oms!TypeOK /\ Oms!PlacedByOne /\ Oms!LoopInv(l)
  BY DEF Oms!IInv
<1>2. /\ o \in Orders /\ o # Oms!None /\ o \in known /\ fills[o] = 0
      /\ \A k \in Loops \ {l} : taken[k] # o
  BY <1>1 DEF Oms!Placed, Oms!PlacementFails, Oms!HandleFill, Oms!LoopInv, Oms!TypeOK,
              Oms!PlacedByOne
<1>3. CASE Oms!Placed(l)
  <2>1. Oms!TypeOK' /\ Oms!PlacedByOne'
    BY <1>1, <1>2, <1>3 DEF Oms!Placed, Oms!Goes, Oms!TypeOK, Oms!PlacedByOne
  <2>2. \A k \in Loops : Oms!LoopInv(k)'
    BY <1>1, <1>2, <1>3 DEF Oms!IInv, Oms!Placed, Oms!Goes, Oms!TypeOK, Oms!LoopInv
  <2>3. \A p \in Orders : orderStatus'[p] = "FILLED" => p \in brokerFills'
    BY <1>1, <1>2, <1>3 DEF Oms!IInv, Oms!Placed, Oms!TypeOK
  <2> QED
    BY <1>3, <2>1, <2>2, <2>3 DEF Oms!IInv, Oms!Placed
<1>4. CASE Oms!PlacementFails(l)
  <2>1. Oms!TypeOK' /\ Oms!PlacedByOne'
    BY <1>1, <1>2, <1>4 DEF Oms!PlacementFails, Oms!Goes, Oms!TypeOK, Oms!PlacedByOne
  <2>2. \A k \in Loops : Oms!LoopInv(k)'
    BY <1>1, <1>2, <1>4 DEF Oms!IInv, Oms!PlacementFails, Oms!Goes, Oms!TypeOK, Oms!LoopInv
  <2>3. \A p \in Orders : orderStatus'[p] = "FILLED" => p \in brokerFills'
    BY <1>1, <1>2, <1>4 DEF Oms!IInv, Oms!PlacementFails, Oms!TypeOK
  <2> QED
    BY <1>4, <2>1, <2>2, <2>3 DEF Oms!IInv, Oms!PlacementFails
<1>5. CASE Oms!HandleFill(l)
  <2>1. \/ fills' = fills
        \/ o \in brokerFills /\ fills' = [fills EXCEPT ![o] = @ + 1]
    BY <1>1, <1>2, <1>5 DEF Oms!IInv, Oms!HandleFill, Oms!StatusRead
  <2>2. /\ taken' = [taken EXCEPT ![l] = Oms!None] /\ loop' = [loop EXCEPT ![l] = "head"]
        /\ UNCHANGED <<running, connecting, queue, known, orderStatus, placed, brokerFills>>
    BY <1>5 DEF Oms!HandleFill, Oms!Goes
  <2>3. Oms!TypeOK' /\ Oms!PlacedByOne'
    <3>1. fills' \in [Orders -> Nat]
      BY <1>1, <1>2, <2>1 DEF Oms!TypeOK
    <3>2. \A p \in Orders : fills'[p] <= IF p \in brokerFills' THEN 1 ELSE 0
      <4>1. \A p \in Orders : fills[p] \in Nat /\ fills[p] <= IF p \in brokerFills THEN 1 ELSE 0
        BY <1>1 DEF Oms!TypeOK, Oms!PlacedByOne
      <4>2. CASE fills' = fills
        BY <2>2, <4>1, <4>2
      <4>3. CASE o \in brokerFills /\ fills' = [fills EXCEPT ![o] = @ + 1]
        <5>1. fills'[o] = 1 /\ \A p \in Orders \ {o} : fills'[p] = fills[p]
          BY <1>1, <1>2, <4>3 DEF Oms!TypeOK
        <5> HIDE DEF o
        <5> QED
          BY <2>2, <4>1, <4>3, <5>1
      <4> QED
        BY <2>1, <4>2, <4>3
    <3>3. \A k, j \in Loops : k # j /\ taken'[k] # Oms!None => taken'[k] # taken'[j]
      BY <1>1, <2>2 DEF Oms!TypeOK, Oms!PlacedByOne
    <3> QED
      BY <1>1, <2>2, <3>1, <3>2, <3>3 DEF Oms!TypeOK, Oms!PlacedByOne
  <2>4. \A k \in Loops : Oms!LoopInv(k)'
    BY <1>1, <1>2, <2>1, <2>2 DEF Oms!IInv, Oms!TypeOK, Oms!LoopInv
  <2> QED
    BY <2>2, <2>3, <2>4 DEF Oms!IInv
<1> QED
  BY <1>3, <1>4, <1>5

\* Nothing else moves an order: starts, stops, waits, and cancellations of known orders.
LEMMA OmsStepKeeps ==
    ASSUME Oms!OmsConstants, Oms!IInv, Oms!Next
    PROVE  Oms!IInv'
<1>1. ASSUME NEW o \in Orders, Oms!Cancel(o)
      PROVE  Oms!IInv'
  BY <1>1 DEF Oms!Cancel, Oms!IInv, Oms!TypeOK, Oms!PlacedByOne, Oms!LoopInv
<1>2. CASE Oms!Start \/ Oms!Connected \/ Oms!Stop
  BY <1>2 DEF Oms!Start, Oms!Connected, Oms!Stop, Oms!Elsewhere, Oms!IInv, Oms!TypeOK,
              Oms!PlacedByOne, Oms!LoopInv
<1>3. ASSUME NEW l \in Loops, Oms!LoopHead(l) \/ Oms!TimesOut(l)
      PROVE  Oms!IInv'
  BY <1>3 DEF Oms!LoopHead, Oms!TimesOut, Oms!Goes, Oms!Elsewhere, Oms!IInv, Oms!TypeOK,
              Oms!PlacedByOne, Oms!LoopInv
<1> QED
  BY <1>1, <1>2, <1>3, SubmissionKeeps, TakeKeeps, LoopKeeps DEF Oms!Next, Oms!Step

(* In every interleaving of the coroutines, and of the loops that a        *)
(* restart leaves running: an order that is reported rejected took no fill, *)
(* one loop places an order, and the books have at most the broker's fill. *)
THEOREM FillsAreAlwaysBookedOnce == DeskSpec => []FillsAreBookedOnce
<1>0. Oms!OmsConstants
  BY DeskConstants
<1>1. DeskInit => Engine!IInv
  BY EngineStarts DEF DeskInit
<1>2. DeskInit => Oms!IInv
  BY <1>0, OmsStarts DEF DeskInit
<1>3. Engine!IInv /\ [DeskNext]_deskVars => Engine!IInv'
  <2> SUFFICES ASSUME Engine!IInv, [DeskNext]_deskVars PROVE Engine!IInv'
    OBVIOUS
  <2>1. CASE UNCHANGED engineVars
    BY <2>1 DEF engineVars, Engine!IInv, Engine!TypeOK, Engine!RejectedTookNothing
  <2> QED
    BY <2>1, EngineKeeps DEF DeskNext, Only, deskVars
<1>4. Oms!IInv /\ [DeskNext]_deskVars => Oms!IInv'
  <2> SUFFICES ASSUME Oms!IInv, [DeskNext]_deskVars PROVE Oms!IInv'
    OBVIOUS
  <2>1. CASE UNCHANGED omsVars
    BY <2>1 DEF omsVars, Oms!IInv, Oms!TypeOK, Oms!PlacedByOne, Oms!LoopInv
  <2> QED
    BY <1>0, <2>1, OmsStepKeeps DEF DeskNext, Only, deskVars
<1>5. Engine!IInv /\ Oms!IInv => FillsAreBookedOnce
  BY DEF FillsAreBookedOnce, Engine!IInv, Oms!IInv
<1> QED
  BY <1>1, <1>2, <1>3, <1>4, <1>5, PTL DEF DeskSpec

-----------------------------------------------------------------------------
\* The order router.

\* The router's sets are counted like all others.
LEMMA SameRouterCount ==
    \A S : /\ Router!IsFiniteSet(S) <=> IsFiniteSet(S)
           /\ Router!Cardinality(S) = Cardinality(S)
<1>1. \A S : Router!IsFiniteSet(S) <=> IsFiniteSet(S)
  BY Zenon DEF Router!IsFiniteSet, IsFiniteSet
<1>2. \A S : Router!Cardinality(S) = Cardinality(S)
  BY Zenon DEF Router!Cardinality, Cardinality
<1> QED
  BY <1>1, <1>2

\* The first request goes to the best broker; the others are left to be tried.
LEMMA FirstRequest ==
    ASSUME NEW size \in Nat \ {0}, NEW ranks \in Seq(Brokers),
           Len(ranks) = Router!AtMostThree(size),
           \A i, j \in DOMAIN ranks : ranks[i] = ranks[j] => i = j
    PROVE  /\ <<Router!Request(Head(ranks))>> \in Seq(Router!Requests)
           /\ Tail(ranks) \in Seq(Brokers)
           /\ Router!Contained("placing", size, Tail(ranks), <<Router!Request(Head(ranks))>>)
<1> DEFINE asked == <<Router!Request(Head(ranks))>>
           rest == Tail(ranks)
<1>1. Len(ranks) \in 1..3 /\ Head(ranks) \in Brokers /\ Head(ranks) = ranks[1]
      /\ rest \in Seq(Brokers) /\ Len(rest) = Len(ranks) - 1
      /\ \A i \in 1..Len(rest) : rest[i] = ranks[i + 1]
  <2>1. Len(ranks) \in 1..3
    BY DEF Router!AtMostThree
  <2>2. ranks # <<>>
    BY <2>1
  <2> QED
    BY <2>1, <2>2
<1>2. asked \in Seq(Router!Requests) /\ Len(asked) = 1 /\ asked[1].broker = ranks[1]
      /\ asked[1].venue = "sent" /\ asked[1].outcome = "waits" /\ asked # <<>>
  BY <1>1 DEF Router!Request, Router!Requests
<1> HIDE DEF asked, rest
<1>3. DOMAIN asked = {1} /\ DOMAIN rest = 1..Len(rest) /\ DOMAIN ranks = 1..Len(ranks)
  BY <1>1, <1>2
<1>4. ASSUME NEW i \in DOMAIN rest
      PROVE  rest[i] = ranks[i + 1] /\ i + 1 \in DOMAIN ranks /\ 1 \in DOMAIN ranks /\ i + 1 # 1
  BY <1>1, <1>3
<1>5. \A i, j \in DOMAIN rest : rest[i] = rest[j] => i = j
  <2> SUFFICES ASSUME NEW i \in DOMAIN rest, NEW j \in DOMAIN rest, rest[i] = rest[j]
               PROVE  i = j
    OBVIOUS
  <2>1. i + 1 = j + 1
    BY <1>4
  <2> QED
    BY <1>3, <2>1
<1>6. \A i \in DOMAIN asked, j \in DOMAIN rest : asked[i].broker # rest[j]
  BY <1>2, <1>3, <1>4
<1>7. Len(asked) + Len(rest) = Router!AtMostThree(size)
  BY <1>1, <1>2
<1>8. Router!Contained("placing", size, rest, asked)
  BY <1>2, <1>3, <1>5, <1>6, <1>7 DEF Router!Contained, Router!AskedOnce
<1> QED
  BY <1>1, <1>2, <1>8 DEF asked, rest

\* The requests when the last has ended so, and when the venue of one has done this.
Ended(asked, outcome) == [asked EXCEPT ![Len(asked)] = [@ EXCEPT !.outcome = outcome]]
Moved(asked, i, does) == [asked EXCEPT ![i] = [@ EXCEPT !.venue = does]]

\* The end of the last request is about no other.
LEMMA LastRequest ==
    ASSUME NEW asked \in Seq(Router!Requests), asked # <<>>,
           NEW outcome \in {"answered", "refused", "abandoned"}
    PROVE  /\ Len(asked) \in Nat \ {0} /\ DOMAIN asked = 1..Len(asked)
           /\ Ended(asked, outcome) \in Seq(Router!Requests) /\ Ended(asked, outcome) # <<>>
           /\ Len(Ended(asked, outcome)) = Len(asked)
           /\ DOMAIN Ended(asked, outcome) = 1..Len(asked)
           /\ Ended(asked, outcome)[Len(asked)].outcome = outcome
           /\ \A i \in 1..Len(asked) :
                /\ Ended(asked, outcome)[i].broker = asked[i].broker
                /\ Ended(asked, outcome)[i].venue = asked[i].venue
                /\ i # Len(asked) => Ended(asked, outcome)[i].outcome = asked[i].outcome
<1> DEFINE n == Len(asked)
<1>1. n \in Nat \ {0} /\ DOMAIN asked = 1..n /\ n \in 1..n
  OBVIOUS
<1>2. \A i \in 1..n : asked[i] \in Router!Requests
  BY <1>1
<1>3. [asked[n] EXCEPT !.outcome = outcome] \in Router!Requests
  BY <1>1, <1>2 DEF Router!Requests
<1>4. /\ Ended(asked, outcome) \in Seq(Router!Requests) /\ Ended(asked, outcome) # <<>>
      /\ Len(Ended(asked, outcome)) = n /\ DOMAIN Ended(asked, outcome) = 1..n
  BY <1>1, <1>2, <1>3 DEF Ended
<1>5. /\ Ended(asked, outcome)[n] = [asked[n] EXCEPT !.outcome = outcome]
      /\ \A i \in 1..n : i # n => Ended(asked, outcome)[i] = asked[i]
  BY <1>1 DEF Ended
<1> HIDE DEF n
<1> QED
  BY <1>1, <1>2, <1>4, <1>5 DEF Router!Requests, n

\* Which brokers were asked is all that AskedOnce is about.
LEMMA SameBrokers ==
    ASSUME NEW rest, NEW asked, NEW after, DOMAIN after = DOMAIN asked,
           \A i \in DOMAIN asked : after[i].broker = asked[i].broker
    PROVE  Router!AskedOnce(rest, asked) <=> Router!AskedOnce(rest, after)
  BY DEF Router!AskedOnce

\* An answer ends what was asked for.
LEMMA AnswerEnds ==
    ASSUME NEW size \in Nat, NEW rest \in Seq(Brokers), NEW asked \in Seq(Router!Requests),
           Router!Contained("placing", size, rest, asked), asked[Len(asked)].venue # "sent"
    PROVE  /\ Ended(asked, "answered") \in Seq(Router!Requests)
           /\ Router!Contained("answered", size, rest, Ended(asked, "answered"))
<1> DEFINE n == Len(asked)
           after == Ended(asked, "answered")
<1>1. asked # <<>> /\ Router!Contained("placing", size, rest, asked) /\ asked[n].venue # "sent"
  BY DEF Router!Contained
<1>2. /\ n \in Nat \ {0} /\ DOMAIN asked = 1..n /\ n \in 1..n
      /\ after \in Seq(Router!Requests) /\ Len(after) = n /\ DOMAIN after = 1..n
      /\ after # <<>> /\ after[n].outcome = "answered"
      /\ \A i \in 1..n : /\ after[i].broker = asked[i].broker
                         /\ after[i].venue = asked[i].venue
                         /\ i # n => after[i].outcome = asked[i].outcome
  BY <1>1, LastRequest
<1> HIDE DEF after
<1>3. Router!AskedOnce(rest, after)
  BY ONLY <1>1, <1>2, SameBrokers DEF Router!Contained
<1> HIDE DEF n
<1>4. Router!Contained("answered", size, rest, after)
  BY ONLY <1>1, <1>2, <1>3 DEF Router!Contained, n
<1> QED
  BY <1>2, <1>4 DEF after

\* A request that failed is the end when no broker is left.
LEMMA FailureEnds ==
    ASSUME NEW size \in Nat, NEW asked \in Seq(Router!Requests),
           Router!Contained("placing", size, <<>>, asked),
           NEW outcome \in {"refused", "abandoned"},
           outcome = "refused" => asked[Len(asked)].venue = "refused"
    PROVE  /\ Ended(asked, outcome) \in Seq(Router!Requests)
           /\ Router!Contained("failed", size, <<>>, Ended(asked, outcome))
<1> DEFINE n == Len(asked)
           after == Ended(asked, outcome)
<1>1. /\ asked # <<>> /\ Router!Contained("placing", size, <<>>, asked)
      /\ outcome \in {"refused", "abandoned"}
      /\ outcome = "refused" => asked[n].venue = "refused"
  BY DEF Router!Contained
<1>2. /\ n \in Nat \ {0} /\ DOMAIN asked = 1..n /\ n \in 1..n
      /\ after \in Seq(Router!Requests) /\ Len(after) = n /\ DOMAIN after = 1..n
      /\ after # <<>> /\ after[n].outcome = outcome
      /\ \A i \in 1..n : /\ after[i].broker = asked[i].broker
                         /\ after[i].venue = asked[i].venue
                         /\ i # n => after[i].outcome = asked[i].outcome
  BY <1>1, LastRequest
<1> HIDE DEF after
<1>3. Router!AskedOnce(<<>>, after)
  BY ONLY <1>1, <1>2, SameBrokers DEF Router!Contained
<1> HIDE DEF n
<1>4. Router!Contained("failed", size, <<>>, after)
  BY ONLY <1>1, <1>2, <1>3 DEF Router!Contained, n
<1> QED
  BY <1>2, <1>4 DEF after

\* One element more at the end of a sequence.
LEMMA Appended ==
    ASSUME NEW S, NEW s \in Seq(S), NEW x \in S
    PROVE  /\ Append(s, x) \in Seq(S) /\ Len(Append(s, x)) = Len(s) + 1 /\ Append(s, x) # <<>>
           /\ DOMAIN Append(s, x) = 1..(Len(s) + 1) /\ Append(s, x)[Len(s) + 1] = x
           /\ \A i \in 1..Len(s) : Append(s, x)[i] = s[i]
  OBVIOUS

\* Otherwise the next broker is asked, which was not asked before.
LEMMA NextRequest ==
    ASSUME NEW size \in Nat, NEW rest \in Seq(Brokers), rest # <<>>,
           NEW asked \in Seq(Router!Requests), Router!Contained("placing", size, rest, asked),
           NEW outcome \in {"refused", "abandoned"},
           outcome = "refused" => asked[Len(asked)].venue = "refused"
    PROVE  LET more == Append(Ended(asked, outcome), Router!Request(Head(rest)))
           IN  /\ more \in Seq(Router!Requests) /\ Tail(rest) \in Seq(Brokers)
               /\ Router!Contained("placing", size, Tail(rest), more)
<1> DEFINE n == Len(asked)
           m == Len(rest)
           after == Ended(asked, outcome)
           new == Router!Request(Head(rest))
           more == Append(after, new)
           left == Tail(rest)
<1>1. asked # <<>> /\ Head(rest) \in Brokers /\ Head(rest) = rest[1]
      /\ m \in Nat \ {0} /\ DOMAIN rest = 1..m
      /\ left \in Seq(Brokers) /\ Len(left) = m - 1 /\ DOMAIN left = 1..(m - 1)
      /\ \A i \in 1..(m - 1) : left[i] = rest[i + 1]
  BY DEF Router!Contained
<1>2. /\ n \in Nat \ {0} /\ DOMAIN asked = 1..n
      /\ after \in Seq(Router!Requests) /\ Len(after) = n /\ DOMAIN after = 1..n
      /\ after # <<>> /\ after[n].outcome = outcome
      /\ \A i \in 1..n : /\ after[i].broker = asked[i].broker
                         /\ after[i].venue = asked[i].venue
                         /\ i # n => after[i].outcome = asked[i].outcome
  BY <1>1, LastRequest
<1>3. new \in Router!Requests /\ new.broker = rest[1] /\ new.outcome = "waits"
  BY <1>1 DEF Router!Request, Router!Requests
<1> HIDE DEF after, new, left
<1>4. /\ more \in Seq(Router!Requests) /\ Len(more) = n + 1 /\ more # <<>>
      /\ DOMAIN more = 1..(n + 1) /\ more[n + 1] = new
      /\ \A i \in 1..n : more[i] = after[i]
  <2>1. after \in Seq(Router!Requests) /\ new \in Router!Requests /\ Len(after) = n
    BY ONLY <1>2, <1>3
  <2>2. /\ more \in Seq(Router!Requests) /\ Len(more) = Len(after) + 1 /\ more # <<>>
        /\ DOMAIN more = 1..(Len(after) + 1) /\ more[Len(after) + 1] = new
        /\ \A i \in 1..Len(after) : more[i] = after[i]
    BY ONLY <2>1, Appended
  <2> HIDE DEF more, n
  <2> QED
    BY ONLY <2>1, <2>2
<1>5. /\ \A i, j \in 1..n : asked[i].broker = asked[j].broker => i = j
      /\ \A i, j \in 1..m : rest[i] = rest[j] => i = j
      /\ \A i \in 1..n, j \in 1..m : asked[i].broker # rest[j]
      /\ \A i \in 1..n : asked[i].outcome = "refused" => asked[i].venue = "refused"
      /\ \A i \in 1..n : i < n => asked[i].outcome \in {"refused", "abandoned"}
      /\ n + m = Router!AtMostThree(size)
  <2>1. Router!Contained("placing", size, rest, asked)
    OBVIOUS
  <2> QED
    BY ONLY <1>1, <1>2, <2>1 DEF Router!Contained, Router!AskedOnce
<1>6. outcome = "refused" => asked[n].venue = "refused"
  OBVIOUS
<1> HIDE DEF more, n, m
<1>7. /\ \A i \in 1..n : /\ more[i].broker = asked[i].broker
                         /\ more[i].venue = asked[i].venue
                         /\ i # n => more[i].outcome = asked[i].outcome
      /\ more[n].outcome = outcome
      /\ more[n + 1].broker = rest[1] /\ more[n + 1].outcome = "waits"
  <2>1. n \in 1..n
    BY ONLY <1>2
  <2> QED
    BY ONLY <1>2, <1>3, <1>4, <2>1
<1>8. /\ \A i, j \in 1..(m - 1) : left[i] = left[j] => i = j
      /\ \A i \in 1..(n + 1), j \in 1..(m - 1) : more[i].broker # left[j]
      /\ \A i, j \in 1..(n + 1) : more[i].broker = more[j].broker => i = j
      /\ \A i \in 1..(n + 1) : more[i].outcome = "refused" => more[i].venue = "refused"
      /\ \A i \in 1..(n + 1) : i < n + 1 => more[i].outcome \in {"refused", "abandoned"}
  <2>1. /\ 1 \in 1..m /\ n \in 1..n /\ n \in Nat /\ m \in Nat
        /\ \A i \in 1..(n + 1) : i \in 1..n \/ i = n + 1
        /\ \A j \in 1..(m - 1) : j + 1 \in 1..m /\ j + 1 # 1 /\ left[j] = rest[j + 1]
    BY ONLY <1>1, <1>2
  <2>2. \A i, j \in 1..(m - 1) : left[i] = left[j] => i = j
    <3> SUFFICES ASSUME NEW i \in 1..(m - 1), NEW j \in 1..(m - 1), left[i] = left[j]
                 PROVE  i = j
      OBVIOUS
    <3>1. i \in Int /\ j \in Int /\ i + 1 = j + 1
      BY ONLY <1>5, <2>1, i \in 1..(m - 1), j \in 1..(m - 1), left[i] = left[j]
    <3> QED
      BY ONLY <3>1
  <2>3. \A i \in 1..(n + 1), j \in 1..(m - 1) : more[i].broker # left[j]
    BY ONLY <1>5, <1>7, <2>1
  <2>4. \A i, j \in 1..(n + 1) : more[i].broker = more[j].broker => i = j
    BY ONLY <1>5, <1>7, <2>1
  <2>5. \A i \in 1..(n + 1) : more[i].outcome = "refused" => more[i].venue = "refused"
    BY ONLY <1>5, <1>6, <1>7, <2>1
  <2>6. \A i \in 1..(n + 1) : i < n + 1 => more[i].outcome \in {"refused", "abandoned"}
    <3>1. outcome \in {"refused", "abandoned"}
      OBVIOUS
    <3>2. \A i \in 1..n : i = n \/ i < n
      BY ONLY <2>1
    <3> QED
      BY ONLY <1>5, <1>7, <2>1, <3>1, <3>2
  <2> QED
    BY ONLY <2>2, <2>3, <2>4, <2>5, <2>6
<1>9. (n + 1) + (m - 1) = Router!AtMostThree(size)
  BY ONLY <1>1, <1>2, <1>5
<1>10. Router!Contained("placing", size, left, more)
  BY ONLY <1>1, <1>4, <1>7, <1>8, <1>9 DEF Router!Contained, Router!AskedOnce
<1> QED
  BY <1>1, <1>4, <1>10 DEF after, new, more, left, n

\* However late a venue acts, what it refused or took was only sent before.
LEMMA LateVenue ==
    ASSUME NEW at, NEW size \in Nat, NEW rest \in Seq(Brokers), NEW asked \in Seq(Router!Requests),
           Router!Contained(at, size, rest, asked),
           NEW i \in DOMAIN asked, asked[i].venue = "sent", NEW does \in {"taken", "refused"}
    PROVE  /\ Moved(asked, i, does) \in Seq(Router!Requests)
           /\ Router!Contained(at, size, rest, Moved(asked, i, does))
<1> DEFINE n == Len(asked)
           after == Moved(asked, i, does)
<1>1. /\ n \in Nat /\ DOMAIN asked = 1..n
      /\ after \in Seq(Router!Requests) /\ Len(after) = n /\ DOMAIN after = 1..n
      /\ asked # <<>> /\ after # <<>> /\ after[i].venue = does
      /\ \A j \in 1..n : /\ after[j].broker = asked[j].broker
                         /\ after[j].outcome = asked[j].outcome
                         /\ j # i => after[j].venue = asked[j].venue
  <2>1. n \in Nat /\ DOMAIN asked = 1..n /\ i \in 1..n /\ asked # <<>>
    OBVIOUS
  <2>2. \A j \in 1..n : asked[j] \in Router!Requests
    BY <2>1
  <2>3. [asked[i] EXCEPT !.venue = does] \in Router!Requests
    BY <2>1, <2>2 DEF Router!Requests
  <2>4. after \in Seq(Router!Requests) /\ Len(after) = n /\ DOMAIN after = 1..n
        /\ after # <<>>
    BY <2>1, <2>2, <2>3 DEF Moved
  <2>5. /\ after[i] = [asked[i] EXCEPT !.venue = does]
        /\ \A j \in 1..n : j # i => after[j] = asked[j]
    BY <2>1 DEF Moved
  <2> HIDE DEF after, n
  <2> QED
    BY <2>1, <2>2, <2>4, <2>5 DEF Router!Requests
<1> HIDE DEF after
<1>2. n \in 1..n /\ Router!Contained(at, size, rest, asked) /\ i \in 1..n
      /\ asked[i].venue = "sent" /\ does \in {"taken", "refused"}
  BY <1>1
<1>3. Router!AskedOnce(rest, after)
  BY ONLY <1>1, <1>2, SameBrokers DEF Router!Contained
<1>4. Router!Contained(at, size, rest, after)
  BY ONLY <1>1, <1>2, <1>3 DEF Router!Contained
<1> QED
  BY <1>1, <1>4 DEF after

\* The invariant of the other orders is about their own state.
LEMMA OtherOrders ==
    ASSUME Router!IInv, Router!TypeOK', NEW o \in Routed, registered' = registered,
           \A p \in Routed \ {o} : /\ place'[p] = place[p] /\ asking'[p].size = asking[p].size
                                   /\ plan'[p] = plan[p] /\ requests'[p] = requests[p],
           Router!Contained(place'[o], asking'[o].size, plan'[o], requests'[o])
    PROVE  Router!IInv'
<1>1. \A p \in Routed : Router!Contained(place'[p], asking'[p].size, plan'[p], requests'[p])
  BY DEF Router!IInv
<1> QED
  BY <1>1 DEF Router!IInv

\* An order is routed among the brokers there are, or fails when there is none.
LEMMA RouteKeeps ==
    ASSUME Router!IInv, NEW o \in Routed, Router!Route(o)
    PROVE  Router!IInv'
<1>1. Router!TypeOK /\ Router!Contained(place[o], asking[o].size, plan[o], requests[o])
      /\ place[o] = "new" /\ UNCHANGED <<registered, plan, requests>>
  BY DEF Router!IInv, Router!Route
<1>2. CASE registered = {}
  <2>1. place' = [place EXCEPT ![o] = "failed"] /\ asking' = asking
    BY <1>2 DEF Router!Route
  <2>2. Router!Contained("failed", asking[o].size, plan[o], requests[o])
    BY ONLY <1>1 DEF Router!Contained
  <2> QED
    BY <1>1, <2>1, <2>2, OtherOrders DEF Router!TypeOK
<1>3. CASE registered # {}
  <2> DEFINE size == Router!Cardinality(registered)
  <2>1. size \in Nat /\ size > 0
    BY <1>3, SameRouterCount, FS_CardinalityType, FS_EmptySet DEF Router!IInv
  <2>2. place' = [place EXCEPT ![o] = "pinging"]
        /\ asking' = [asking EXCEPT ![o] = [asked |-> 1, size |-> size]]
    BY <1>3 DEF Router!Route
  <2> HIDE DEF size
  <2>3. Router!Contained("pinging", size, plan[o], requests[o])
    BY ONLY <1>1, <2>1 DEF Router!Contained
  <2> QED
    BY <1>1, <2>1, <2>2, <2>3, OtherOrders DEF Router!TypeOK
<1> QED
  BY <1>2, <1>3

\* The brokers that answered are ranked; the first of the ranks is asked.
LEMMA PingKeeps ==
    ASSUME Router!IInv, NEW o \in Routed, Router!PingEnds(o)
    PROVE  Router!IInv'
<1>1. Router!TypeOK /\ Router!Contained("pinging", asking[o].size, plan[o], requests[o])
      /\ place[o] = "pinging" /\ registered' = registered
  BY DEF Router!IInv, Router!PingEnds
<1>2. requests[o] = <<>> /\ asking[o].size \in Nat \ {0}
  BY <1>1 DEF Router!Contained, Router!TypeOK
<1>3. CASE place' = [place EXCEPT ![o] = "failed"] /\ UNCHANGED <<asking, plan, requests>>
  <2>1. Router!Contained("failed", asking[o].size, plan[o], requests[o])
    BY ONLY <1>1 DEF Router!Contained
  <2> QED
    BY <1>1, <1>3, <2>1, OtherOrders DEF Router!TypeOK
<1>4. CASE asking' = [asking EXCEPT ![o].asked = @ + 1] /\ UNCHANGED <<place, plan, requests>>
  BY <1>1, <1>4, OtherOrders DEF Router!TypeOK
<1>5. ASSUME Router!Cardinality(registered) = asking[o].size, asking' = asking,
             NEW ranks \in Router!Ranks, Router!Sends(o, ranks)
      PROVE  Router!IInv'
  <2> DEFINE size == asking[o].size
             k == Router!AtMostThree(size)
  <2>1. k \in 1..3
    BY <1>2 DEF Router!AtMostThree
  <2>2. ranks \in [1..k -> Brokers] /\ \A i, j \in DOMAIN ranks : ranks[i] = ranks[j] => i = j
    BY <1>1, <1>5 DEF Router!Ranks, Router!IsInjective, Router!TypeOK
  <2> HIDE DEF k
  <2>3. ranks \in Seq(Brokers) /\ Len(ranks) = k
    BY <2>1, <2>2
  <2>4. /\ <<Router!Request(Head(ranks))>> \in Seq(Router!Requests)
        /\ Tail(ranks) \in Seq(Brokers)
        /\ Router!Contained("placing", size, Tail(ranks), <<Router!Request(Head(ranks))>>)
    BY <1>2, <2>2, <2>3, FirstRequest DEF k
  <2>5. /\ requests' = [requests EXCEPT ![o] = <<Router!Request(Head(ranks))>>]
        /\ plan' = [plan EXCEPT ![o] = Tail(ranks)]
        /\ place' = [place EXCEPT ![o] = "placing"]
    <3>1. Append(<<>>, Router!Request(Head(ranks))) = <<Router!Request(Head(ranks))>>
      OBVIOUS
    <3> QED
      BY <1>2, <1>5, <3>1 DEF Router!Sends
  <2>6. Router!TypeOK'
    BY <1>1, <1>5, <2>4, <2>5 DEF Router!TypeOK
  <2>7. /\ place'[o] = "placing" /\ plan'[o] = Tail(ranks)
        /\ requests'[o] = <<Router!Request(Head(ranks))>> /\ asking'[o].size = size
        /\ \A p \in Routed \ {o} : /\ place'[p] = place[p] /\ asking'[p].size = asking[p].size
                                   /\ plan'[p] = plan[p] /\ requests'[p] = requests[p]
    BY <1>1, <1>5, <2>5 DEF Router!TypeOK
  <2> HIDE DEF size
  <2> QED
    BY <1>1, <2>4, <2>6, <2>7, OtherOrders
<1> QED
  BY <1>3, <1>4, <1>5 DEF Router!PingEnds

\* The answer or the failure of the request that is awaited, and a late venue.
LEMMA AnswerKeeps ==
    ASSUME Router!IInv, NEW o \in Routed, Router!Answered(o) \/ Router!RequestFails(o)
    PROVE  Router!IInv'
<1> DEFINE asked == requests[o]
           size == asking[o].size
<1>1. /\ Router!TypeOK /\ Router!Contained("placing", size, plan[o], asked)
      /\ size \in Nat /\ plan[o] \in Seq(Brokers) /\ asked \in Seq(Router!Requests)
      /\ UNCHANGED <<registered, asking>> /\ place[o] = "placing"
  BY DEF Router!IInv, Router!TypeOK, Router!Answered, Router!RequestFails
<1>2. ASSUME NEW outcome
      PROVE  Router!Outcome(o, outcome) = [requests EXCEPT ![o] = Ended(asked, outcome)]
  BY <1>1 DEF Router!Outcome, Ended, Router!TypeOK
<1>3. CASE Router!Answered(o)
  <2>1. /\ requests' = [requests EXCEPT ![o] = Ended(asked, "answered")]
        /\ place' = [place EXCEPT ![o] = "answered"] /\ plan' = plan
        /\ asked[Len(asked)].venue # "sent"
    BY <1>2, <1>3 DEF Router!Answered, Router!Current
  <2>2. /\ Ended(asked, "answered") \in Seq(Router!Requests)
        /\ Router!Contained("answered", size, plan[o], Ended(asked, "answered"))
    BY <1>1, <2>1, AnswerEnds
  <2>3. Router!TypeOK'
    BY <1>1, <2>1, <2>2 DEF Router!TypeOK
  <2>4. /\ place'[o] = "answered" /\ plan'[o] = plan[o] /\ requests'[o] = Ended(asked, "answered")
        /\ \A p \in Routed \ {o} : /\ place'[p] = place[p] /\ plan'[p] = plan[p]
                                   /\ requests'[p] = requests[p]
    BY <1>1, <2>1 DEF Router!TypeOK
  <2> HIDE DEF asked
  <2> QED
    BY <1>1, <2>2, <2>3, <2>4, OtherOrders
<1>4. CASE Router!RequestFails(o)
  <2> DEFINE outcome == IF asked[Len(asked)].venue = "refused" THEN "refused" ELSE "abandoned"
             failed == Ended(asked, outcome)
  <2>1. outcome \in {"refused", "abandoned"}
        /\ (outcome = "refused" => asked[Len(asked)].venue = "refused")
    OBVIOUS
  <2>2. Router!Outcome(o, outcome) = [requests EXCEPT ![o] = failed]
    BY <1>2
  <2>3. \/ /\ plan[o] = <<>> /\ requests' = Router!Outcome(o, outcome)
           /\ place' = [place EXCEPT ![o] = "failed"] /\ plan' = plan
        \/ /\ plan[o] # <<>> /\ place' = place
           /\ requests' = [Router!Outcome(o, outcome) EXCEPT
                             ![o] = Append(@, Router!Request(Head(plan[o])))]
           /\ plan' = [plan EXCEPT ![o] = Tail(plan[o])]
    BY <1>4 DEF Router!RequestFails, Router!Remaining, Router!Current
  <2> HIDE DEF outcome
  <2>4. CASE plan[o] = <<>>
    <3>1. /\ failed \in Seq(Router!Requests)
          /\ Router!Contained("failed", size, <<>>, failed)
      BY <1>1, <2>1, <2>4, FailureEnds
    <3>2. requests' = [requests EXCEPT ![o] = failed]
          /\ place' = [place EXCEPT ![o] = "failed"] /\ plan' = plan
      BY <2>2, <2>3, <2>4
    <3> HIDE DEF failed
    <3>3. Router!TypeOK'
      BY <1>1, <3>1, <3>2 DEF Router!TypeOK
    <3>4. /\ place'[o] = "failed" /\ plan'[o] = <<>> /\ requests'[o] = failed
          /\ \A p \in Routed \ {o} : /\ place'[p] = place[p] /\ plan'[p] = plan[p]
                                     /\ requests'[p] = requests[p]
      BY <1>1, <2>4, <3>2 DEF Router!TypeOK
    <3> QED
      BY <1>1, <3>1, <3>3, <3>4, OtherOrders
  <2>5. CASE plan[o] # <<>>
    <3> DEFINE more == Append(failed, Router!Request(Head(plan[o])))
               left == Tail(plan[o])
    <3>1. /\ more \in Seq(Router!Requests) /\ left \in Seq(Brokers)
          /\ Router!Contained("placing", size, left, more)
      BY <1>1, <2>1, <2>5, NextRequest
    <3>2. requests' = [requests EXCEPT ![o] = more]
          /\ place' = place /\ plan' = [plan EXCEPT ![o] = left]
      BY <1>1, <2>2, <2>3, <2>5 DEF Router!TypeOK
    <3> HIDE DEF more, left
    <3>3. Router!TypeOK'
      BY <1>1, <3>1, <3>2 DEF Router!TypeOK
    <3>4. /\ place'[o] = "placing" /\ plan'[o] = left /\ requests'[o] = more
          /\ \A p \in Routed \ {o} : /\ place'[p] = place[p] /\ plan'[p] = plan[p]
                                     /\ requests'[p] = requests[p]
      BY <1>1, <3>2 DEF Router!TypeOK
    <3> QED
      BY <1>1, <3>1, <3>3, <3>4, OtherOrders
  <2> QED
    BY <2>4, <2>5
<1> QED
  BY <1>3, <1>4

\* A venue that acts, late perhaps, is the LateVenue of one order.
LEMMA LateVenueKeeps ==
    ASSUME Router!IInv, NEW o \in Routed, NEW i \in DOMAIN requests[o],
           NEW does \in {"taken", "refused"}, Router!VenueActs(o, i, does)
    PROVE  Router!IInv'
<1> DEFINE asked == requests[o]
<1>1. /\ Router!TypeOK /\ Router!Contained(place[o], asking[o].size, plan[o], asked)
      /\ asking[o].size \in Nat /\ plan[o] \in Seq(Brokers) /\ asked \in Seq(Router!Requests)
      /\ UNCHANGED <<registered, place, asking, plan>>
  BY DEF Router!IInv, Router!TypeOK, Router!VenueActs
<1>2. requests' = [requests EXCEPT ![o] = Moved(asked, i, does)]
  BY <1>1 DEF Router!VenueActs, Moved, Router!TypeOK
<1>3. /\ Moved(asked, i, does) \in Seq(Router!Requests)
      /\ Router!Contained(place[o], asking[o].size, plan[o], Moved(asked, i, does))
  BY <1>1, LateVenue DEF Router!VenueActs
<1>4. Router!TypeOK'
  BY <1>1, <1>2, <1>3 DEF Router!TypeOK
<1>5. requests'[o] = Moved(asked, i, does)
      /\ \A p \in Routed \ {o} : requests'[p] = requests[p]
  BY <1>1, <1>2 DEF Router!TypeOK
<1> HIDE DEF asked
<1> QED
  BY <1>1, <1>3, <1>4, <1>5, OtherOrders

\* Another broker changes no order that is under way.
LEMMA BrokerKeeps ==
    ASSUME Router!IInv, NEW b \in Brokers, Router!AddBroker(b)
    PROVE  Router!IInv'
<1>1. Router!IsFiniteSet(registered')
  BY SameRouterCount, FS_AddElement DEF Router!IInv, Router!AddBroker
<1>2. Router!TypeOK'
  BY DEF Router!IInv, Router!AddBroker, Router!TypeOK
<1> QED
  BY <1>1, <1>2 DEF Router!IInv, Router!AddBroker

\* No order is under way at first.
LEMMA RouterStarts == ASSUME Router!Init PROVE Router!IInv
<1>1. Router!IsFiniteSet(registered)
  BY SameRouterCount, FS_EmptySet DEF Router!Init
<1>2. /\ <<>> \in Seq(Router!Requests) /\ <<>> \in Seq(Brokers)
      /\ Router!Contained("new", 0, <<>>, <<>>)
  BY DEF Router!Contained, Router!AskedOnce
<1>3. Router!TypeOK
  BY <1>2 DEF Router!Init, Router!TypeOK
<1> QED
  BY <1>1, <1>2, <1>3 DEF Router!Init, Router!IInv

-----------------------------------------------------------------------------
\* The arbitrage executor.

\* What the invariant says of one execution follows from its own state.
LEMMA OthersStay ==
    ASSUME NEW e, Arb!Execution(e), phase'[e] = phase[e], hedge'[e] = hedge[e],
           order'[e] = order[e], request'[e] = request[e], venueOf'[e] = venueOf[e],
           exposure'[e] = exposure[e], e \in success' <=> e \in success
    PROVE  Arb!Execution(e)'
  BY DEF Arb!Execution, Arb!Hedged, Arb!Matched

\* Executions that are what their states say are flat or within their bound.
LEMMA FlatWithinBounds ==
    ASSUME Arb!IInv
    PROVE  Arb!ExecutionsStayFlat
<1>1. ASSUME NEW e \in Executions
      PROVE  exposure[e] \in (-2)..2
  <2>1. CASE exposure[e] = Arb!Net(order[e])
    BY <2>1 DEF Arb!Net
  <2>2. CASE Arb!Hedged(e)
    BY <2>2 DEF Arb!Hedged, Arb!Net, Arb!Signed, Arb!HedgeSize, Arb!Legs
  <2> QED
    BY <2>1, <2>2 DEF Arb!IInv, Arb!Execution
<1>2. ASSUME NEW e \in success
      PROVE  exposure[e] = 0 /\ venueOf[e]["buy"] # venueOf[e]["sell"]
  <2>1. e \in Executions /\ Arb!Execution(e)
    BY DEF Arb!IInv, Arb!TypeOK
  <2>2. phase[e] = "done" /\ order[e]["buy"] = "filled" /\ order[e]["sell"] = "filled"
        /\ exposure[e] = Arb!Net(order[e])
    BY <2>1 DEF Arb!Execution, Arb!Matched, Arb!Legs
  <2> QED
    BY <2>1, <2>2 DEF Arb!Execution, Arb!Net
<1> QED
  BY <1>1, <1>2 DEF Arb!ExecutionsStayFlat

\* A profit is made between two venues: a venue asks more than it bids.
LEMMA DetectKeeps ==
    ASSUME Arb!ArbitrageConstants, Arb!IInv, NEW e \in Executions, NEW buy \in Venues, NEW sell \in Venues,
           Arb!Detect(e, buy, sell)
    PROVE  Arb!IInv'
<1>1. Arb!TypeOK /\ Arb!TypeOK'
  BY DEF Arb!IInv, Arb!TypeOK, Arb!Detect, Arb!Legs
<1>2. buy # sell
  <2>1. priceCache[buy] \in Quotes /\ priceCache[sell] \in Quotes
    BY <1>1 DEF Arb!Detect, Arb!BestBid, Arb!BestAsk, Arb!Cached, Arb!TypeOK
  <2>2. /\ priceCache[buy].bid < priceCache[buy].ask
        /\ priceCache[buy].bid \in Nat /\ priceCache[buy].ask \in Nat
        /\ priceCache[sell].bid \in Nat
    BY <2>1 DEF Arb!ArbitrageConstants
  <2>3. priceCache[sell].bid - priceCache[buy].ask > 0
    BY <2>2 DEF Arb!Detect, Arb!ArbitrageConstants
  <2> QED
    BY <2>2, <2>3
<1>3. Arb!Execution(e)'
  <2>1. /\ phase'[e] = "waiting" /\ venueOf'[e]["buy"] = buy /\ venueOf'[e]["sell"] = sell
        /\ \A l \in Arb!Legs : request'[e][l] = "sent"
    BY <1>1 DEF Arb!Detect, Arb!TypeOK, Arb!Legs
  <2>2. Arb!Execution(e) /\ phase[e] = "new" /\ UNCHANGED <<order, hedge, exposure, success>>
    BY DEF Arb!Detect, Arb!IInv
  <2>3. exposure[e] = Arb!Net(order[e]) /\ e \notin success
    BY <2>2 DEF Arb!Execution
  <2> QED
    BY <1>2, <2>1, <2>2, <2>3 DEF Arb!Execution
<1>4. \A f \in Executions \ {e} : Arb!Execution(f)'
  BY <1>1, OthersStay DEF Arb!IInv, Arb!Detect, Arb!TypeOK
<1> QED
  BY <1>1, <1>3, <1>4 DEF Arb!IInv

\* A fill changes the exposure as it changes the orders.
LEMMA FillKeeps ==
    ASSUME Arb!IInv, NEW e \in Executions, NEW l \in Arb!Legs, order[e][l] # "filled", Arb!Fill(e, l),
           UNCHANGED <<priceCache, phase, venueOf, request, hedge, success>>
    PROVE  Arb!IInv'
<1>1. Arb!TypeOK /\ Arb!Execution(e)
  BY DEF Arb!IInv
<1>2. order'[e][l] = "filled" /\ order'[e] \in [Arb!Legs -> {"none", "resting", "filled"}]
      /\ \A k \in Arb!Legs \ {l} : order'[e][k] = order[e][k]
  BY <1>1 DEF Arb!Fill, Arb!TypeOK
<1>3. exposure'[e] = exposure[e] + Arb!Signed(l, 2) /\ exposure[e] \in Int
  BY <1>1 DEF Arb!Fill, Arb!TypeOK
<1>4. Arb!TypeOK'
  BY <1>1 DEF Arb!TypeOK, Arb!Fill, Arb!Signed
<1>5. Arb!Net(order'[e]) = Arb!Net(order[e]) + Arb!Signed(l, 2) /\ Arb!Net(order[e]) \in Int
  BY <1>2 DEF Arb!Net, Arb!Signed, Arb!Legs
<1>6. exposure[e] = Arb!Net(order[e]) => exposure'[e] = Arb!Net(order'[e])
  BY <1>3, <1>5
<1>7. Arb!Hedged(e) => Arb!Hedged(e)'
  <2> SUFFICES ASSUME Arb!Hedged(e) PROVE Arb!Hedged(e)'
    OBVIOUS
  <2>1. order'[e][hedge[e]] = "filled"
    BY <1>2 DEF Arb!Hedged
  <2>2. exposure'[e] = Arb!Net(order'[e]) - Arb!Signed(hedge[e], Arb!HedgeSize)
    BY <1>3, <1>5 DEF Arb!Hedged, Arb!Signed, Arb!HedgeSize
  <2> QED
    BY <2>1, <2>2 DEF Arb!Hedged
<1>8. Arb!Execution(e)'
  <2>1. \A k \in Arb!Legs : order[e][k] = "filled" => order'[e][k] = "filled"
    BY <1>2
  <2> QED
    BY <1>1, <1>6, <1>7, <2>1 DEF Arb!Execution, Arb!Matched
<1>9. \A f \in Executions \ {e} : Arb!Execution(f)'
  BY <1>1, OthersStay DEF Arb!IInv, Arb!Fill, Arb!TypeOK
<1> QED
  BY <1>4, <1>8, <1>9 DEF Arb!IInv

\* A venue fills a leg or lets it rest, and changes no other.
LEMMA VenueKeeps ==
    ASSUME Arb!IInv, NEW e \in Executions, NEW l \in Arb!Legs, Arb!VenueTakes(e, l) \/ Arb!RestingFills(e, l)
    PROVE  Arb!IInv'
<1>1. CASE Arb!Fill(e, l)
  BY <1>1, FillKeeps DEF Arb!VenueTakes, Arb!RestingFills
<1>2. CASE order' = [order EXCEPT ![e][l] = "resting"] /\ UNCHANGED exposure
           /\ order[e][l] = "none"
           /\ UNCHANGED <<priceCache, phase, venueOf, request, hedge, success>>
  <2>1. Arb!TypeOK /\ Arb!TypeOK'
    BY <1>2 DEF Arb!IInv, Arb!TypeOK
  <2>2. /\ order'[e][l] = "resting" /\ \A k \in Arb!Legs \ {l} : order'[e][k] = order[e][k]
        /\ \A f \in Executions \ {e} : order'[f] = order[f]
    BY <1>2, <2>1 DEF Arb!TypeOK
  <2>3. Arb!Net(order'[e]) = Arb!Net(order[e])
    BY <1>2, <2>2 DEF Arb!Net, Arb!Legs
  <2>4. \A k \in Arb!Legs : order[e][k] = "filled" <=> order'[e][k] = "filled"
    BY <1>2, <2>2
  <2>5. Arb!Execution(e)'
    BY <1>2, <2>3, <2>4 DEF Arb!IInv, Arb!Execution, Arb!Hedged, Arb!Matched
  <2>6. \A f \in Executions \ {e} : Arb!Execution(f)'
    BY <1>2, <2>2, OthersStay DEF Arb!IInv
  <2> QED
    BY <2>1, <2>5, <2>6 DEF Arb!IInv
<1> QED
  BY <1>1, <1>2 DEF Arb!VenueTakes, Arb!RestingFills

\* An answer says no more than the venue knows; without one nothing counts as filled.
LEMMA RequestKeeps ==
    ASSUME Arb!IInv, NEW e \in Executions, NEW l \in Arb!Legs, Arb!Answers(e, l) \/ Arb!RequestFails(e, l)
    PROVE  Arb!IInv'
<1>1. PICK a \in {order[e][l], "resting", "failed"} : request' = [request EXCEPT ![e][l] = a]
  BY DEF Arb!Answers, Arb!RequestFails
<1>2. /\ request[e][l] = "sent" /\ (order[e][l] # "none" \/ a = "failed")
      /\ UNCHANGED <<priceCache, phase, venueOf, order, hedge, exposure, success>>
  <2>1. CASE Arb!Answers(e, l)
    BY <2>1 DEF Arb!Answers
  <2>2. CASE Arb!RequestFails(e, l)
    <3>1. request'[e][l] = "failed" /\ request'[e][l] = a
      BY <1>1, <2>2 DEF Arb!RequestFails, Arb!IInv, Arb!TypeOK
    <3> QED
      BY <2>2, <3>1 DEF Arb!RequestFails
  <2> QED
    BY <2>1, <2>2
<1>3. Arb!TypeOK /\ Arb!TypeOK'
  BY <1>1, <1>2 DEF Arb!IInv, Arb!TypeOK
<1>4. /\ request'[e][l] = a /\ \A k \in Arb!Legs \ {l} : request'[e][k] = request[e][k]
      /\ \A f \in Executions \ {e} : request'[f] = request[f]
  BY <1>1, <1>3 DEF Arb!TypeOK
<1>5. Arb!Execution(e)'
  <2>1. e \notin success
    BY <1>2 DEF Arb!IInv, Arb!Execution, Arb!Matched
  <2> QED
    BY <1>2, <1>4, <2>1 DEF Arb!IInv, Arb!Execution, Arb!Hedged
<1>6. \A f \in Executions \ {e} : Arb!Execution(f)'
  BY <1>2, <1>4, OthersStay DEF Arb!IInv
<1> QED
  BY <1>3, <1>5, <1>6 DEF Arb!IInv

\* A wait that ends cancels what is still sent; what was filled stays filled.
LEMMA WaitKeeps ==
    ASSUME Arb!IInv, NEW e \in Executions, Arb!WaitEnds(e)
    PROVE  Arb!IInv'
<1>1. Arb!TypeOK /\ Arb!TypeOK' /\ Arb!Execution(e)
  BY DEF Arb!IInv, Arb!TypeOK, Arb!WaitEnds
<1>2. /\ phase[e] = "waiting" /\ phase'[e] = "deciding"
      /\ \A l \in Arb!Legs : request'[e][l] = "filled" <=> request[e][l] = "filled"
      /\ \A f \in Executions \ {e} : phase'[f] = phase[f] /\ request'[f] = request[f]
      /\ UNCHANGED <<venueOf, order, hedge, exposure, success>>
  BY <1>1 DEF Arb!WaitEnds, Arb!TypeOK
<1>3. Arb!Execution(e)'
  BY <1>1, <1>2 DEF Arb!Execution
<1>4. \A f \in Executions \ {e} : Arb!Execution(f)'
  BY <1>2, OthersStay DEF Arb!IInv
<1> QED
  BY <1>1, <1>3, <1>4 DEF Arb!IInv

\* What is reported as executed has both legs; what is hedged has the leg it hedges.
LEMMA DecisionKeeps ==
    ASSUME Arb!IInv, NEW e \in Executions, Arb!Decide(e)
    PROVE  Arb!IInv'
<1>1. Arb!TypeOK /\ Arb!Execution(e) /\ phase[e] = "deciding" /\ exposure[e] = Arb!Net(order[e])
      /\ UNCHANGED <<priceCache, venueOf, request, order, exposure>>
  BY DEF Arb!IInv, Arb!Decide, Arb!Execution
<1>2. Arb!TypeOK'
  <2>1. hedge' \in [Executions -> Arb!Legs \cup {"none"}]
    BY <1>1 DEF Arb!TypeOK, Arb!Decide
  <2>2. phase' \in [Executions -> {"new", "waiting", "deciding", "hedging", "done", "failed"}]
    BY <1>1 DEF Arb!TypeOK, Arb!Decide
  <2>3. success' \subseteq Executions
    BY <1>1 DEF Arb!TypeOK, Arb!Decide
  <2> QED
    BY <1>1, <2>1, <2>2, <2>3 DEF Arb!TypeOK
<1>3. \A f \in Executions \ {e} :
        phase'[f] = phase[f] /\ hedge'[f] = hedge[f] /\ (f \in success' <=> f \in success)
  BY <1>1 DEF Arb!Decide, Arb!TypeOK
<1>4. Arb!Execution(e)'
  <2>1. CASE phase'[e] = "hedging"
    <3>1. PICK l \in Arb!Legs : Arb!FilledAlone(e, l) /\ hedge' = [hedge EXCEPT ![e] = l]
      BY <1>1, <2>1 DEF Arb!Decide, Arb!TypeOK
    <3>2. hedge'[e] = l /\ order[e][l] = "filled"
      BY <1>1, <3>1 DEF Arb!FilledAlone, Arb!Execution, Arb!TypeOK
    <3>3. e \notin success'
      BY <1>1, <2>1 DEF Arb!Decide, Arb!TypeOK, Arb!Execution
    <3> QED
      BY <1>1, <2>1, <3>2, <3>3 DEF Arb!Execution
  <2>2. CASE phase'[e] # "hedging"
    <3>1. phase'[e] \in {"done", "failed"} /\ (e \in success' => phase'[e] = "done" /\ Arb!Matched(e))
      BY <1>1, <2>2 DEF Arb!Decide, Arb!TypeOK, Arb!Execution
    <3> QED
      BY <1>1, <3>1 DEF Arb!Execution, Arb!Matched
  <2> QED
    BY <2>1, <2>2
<1>5. \A f \in Executions \ {e} : Arb!Execution(f)'
  BY <1>1, <1>3, OthersStay DEF Arb!IInv
<1> QED
  BY <1>2, <1>4, <1>5 DEF Arb!IInv

\* The hedge closes what one leg left open.
LEMMA HedgeKeeps ==
    ASSUME Arb!IInv, NEW e \in Executions, Arb!EmergencyHedge(e)
    PROVE  Arb!IInv'
<1>1. Arb!TypeOK /\ Arb!Execution(e) /\ phase[e] = "hedging" /\ exposure[e] = Arb!Net(order[e])
      /\ hedge[e] \in Arb!Legs /\ order[e][hedge[e]] = "filled" /\ e \notin success
      /\ UNCHANGED <<priceCache, venueOf, request, order, hedge, success>>
  BY DEF Arb!IInv, Arb!EmergencyHedge, Arb!Execution
<1>2. Arb!TypeOK'
  <2>1. \A l \in Arb!Legs : Arb!Signed(l, Arb!HedgeSize) \in Int
    BY DEF Arb!Signed, Arb!HedgeSize
  <2>2. exposure' \in [Executions -> Int]
    BY <1>1, <2>1 DEF Arb!TypeOK, Arb!EmergencyHedge
  <2>3. phase' \in [Executions -> {"new", "waiting", "deciding", "hedging", "done", "failed"}]
    BY <1>1 DEF Arb!TypeOK, Arb!EmergencyHedge
  <2> QED
    BY <1>1, <2>2, <2>3 DEF Arb!TypeOK
<1>3. Arb!Execution(e)'
  <2>1. CASE phase'[e] = "done"
    <3>1. exposure'[e] = Arb!Net(order[e]) - Arb!Signed(hedge[e], Arb!HedgeSize)
      BY <1>1, <2>1 DEF Arb!EmergencyHedge, Arb!TypeOK
    <3>2. Arb!Hedged(e)'
      BY <1>1, <2>1, <3>1 DEF Arb!Hedged
    <3> QED
      BY <1>1, <2>1, <3>2 DEF Arb!Execution
  <2>2. CASE phase'[e] # "done"
    <3>1. phase'[e] = "failed" /\ exposure'[e] = exposure[e]
      BY <1>1, <2>2 DEF Arb!EmergencyHedge, Arb!TypeOK
    <3> QED
      BY <1>1, <3>1 DEF Arb!Execution
  <2> QED
    BY <2>1, <2>2
<1>4. \A f \in Executions \ {e} : Arb!Execution(f)'
  BY <1>1, OthersStay DEF Arb!IInv, Arb!EmergencyHedge, Arb!TypeOK
<1> QED
  BY <1>2, <1>3, <1>4 DEF Arb!IInv

\* Prices are about no execution.
LEMMA PriceKeeps ==
    ASSUME Arb!ArbitrageConstants, Arb!IInv, NEW v \in Venues, Arb!FetchPrice(v)
    PROVE  Arb!IInv'
<1>1. Arb!TypeOK'
  BY DEF Arb!IInv, Arb!TypeOK, Arb!FetchPrice
<1>2. \A e \in Executions : Arb!Execution(e)'
  BY OthersStay DEF Arb!IInv, Arb!FetchPrice
<1> QED
  BY <1>1, <1>2 DEF Arb!IInv

-----------------------------------------------------------------------------
\* What is executed.

\* Brokers that differ from request to request are as many as the requests.
LEMMA BrokersCounted ==
    ASSUME NEW asked \in Seq(Router!Requests),
           \A i, j \in DOMAIN asked : asked[i].broker = asked[j].broker => i = j
    PROVE  Cardinality({asked[i].broker : i \in DOMAIN asked}) = Len(asked)
<1> DEFINE n == Len(asked)
           tried == {asked[i].broker : i \in DOMAIN asked}
           broker == [i \in 1..n |-> asked[i].broker]
<1>1. n \in Nat /\ DOMAIN asked = 1..n
  OBVIOUS
<1>2. IsFiniteSet(1..n) /\ Cardinality(1..n) = n
  BY <1>1, FS_Interval
<1> HIDE DEF n
<1>3. broker \in Injection(1..n, tried) /\ broker \in Surjection(1..n, tried)
  BY <1>1 DEF Injection, Surjection, IsInjective
<1> HIDE DEF broker, tried
<1>4. Cardinality(tried) = Cardinality(1..n)
  BY <1>2, <1>3, FS_Surjection
<1> QED
  BY <1>2, <1>4 DEF tried, n

\* Only the last request may stand without having been given up.
LEMMA ContainedOrder ==
    ASSUME Router!IInv
    PROVE  Router!OrdersAreContained
<1> SUFFICES ASSUME NEW o \in Routed
             PROVE  LET asked == requests[o]
                        tried == {asked[i].broker : i \in DOMAIN asked}
                        standing == {i \in DOMAIN asked : asked[i].venue = "taken"}
                    IN  /\ Len(asked) = Cardinality(tried) /\ Cardinality(tried) <= 3
                        /\ Cardinality(standing \ Router!With(o, {"abandoned"})) <= 1
                        /\ place[o] = "answered" =>
                             Router!With(o, {"answered"}) = {Len(asked)}
                             /\ Router!Current(o).venue # "sent"
                        /\ place[o] = "failed" /\ asked # <<>> =>
                             /\ Router!With(o, {"refused", "abandoned"}) = DOMAIN asked
                             /\ Len(asked) = Router!AtMostThree(asking[o].size)
  BY SameRouterCount DEF Router!OrdersAreContained
<1> DEFINE asked == requests[o]
           n == Len(asked)
           tried == {asked[i].broker : i \in DOMAIN asked}
           standing == {i \in DOMAIN asked : asked[i].venue = "taken"}
<1>1. /\ asked \in Seq(Router!Requests) /\ asking[o].size \in Nat /\ plan[o] \in Seq(Brokers)
      /\ Router!Contained(place[o], asking[o].size, plan[o], asked)
      /\ n \in Nat /\ DOMAIN asked = 1..n /\ Len(plan[o]) \in Nat
      /\ asked = <<>> <=> n = 0
      /\ plan[o] = <<>> => Len(plan[o]) = 0
      /\ \A i \in 1..n : asked[i].outcome \in {"waits", "answered", "refused", "abandoned"}
  <2>1. asked \in Seq(Router!Requests)
    BY DEF Router!IInv, Router!TypeOK
  <2>2. asking[o].size \in Nat
    BY DEF Router!IInv, Router!TypeOK
  <2>3. plan[o] \in Seq(Brokers)
    BY DEF Router!IInv, Router!TypeOK
  <2>4. Router!Contained(place[o], asking[o].size, plan[o], asked)
    BY DEF Router!IInv
  <2>5. n \in Nat /\ DOMAIN asked = 1..n /\ (asked = <<>> <=> n = 0)
    BY ONLY <2>1
  <2>6. Len(plan[o]) \in Nat /\ (plan[o] = <<>> => Len(plan[o]) = 0)
    BY ONLY <2>3
  <2>7. ASSUME NEW i \in 1..n
        PROVE  asked[i].outcome \in {"waits", "answered", "refused", "abandoned"}
    <3>1. asked[i] \in Router!Requests
      BY ONLY <2>1, i \in 1..n
    <3> QED
      BY ONLY <3>1 DEF Router!Requests
  <2> HIDE DEF asked, n
  <2> QED
    BY <2>1, <2>2, <2>3, <2>4, <2>5, <2>6, <2>7
<1>2. Cardinality(tried) = n
  BY <1>1, BrokersCounted DEF Router!Contained, Router!AskedOnce
<1>3. n <= 3
  <2>1. CASE n = 0
    BY ONLY <2>1
  <2>2. CASE n # 0
    <3>1. n + Len(plan[o]) = Router!AtMostThree(asking[o].size)
      BY ONLY <1>1, <2>2 DEF Router!Contained
    <3>2. n \in Nat /\ Len(plan[o]) \in Nat /\ asking[o].size \in Nat
      BY ONLY <1>1
    <3> HIDE DEF n
    <3> QED
      BY ONLY <3>1, <3>2 DEF Router!AtMostThree
  <2> QED
    BY ONLY <2>1, <2>2
<1> HIDE DEF n
<1>4. Cardinality(standing \ Router!With(o, {"abandoned"})) <= 1
  <2> DEFINE S == standing \ Router!With(o, {"abandoned"})
  <2>1. S \subseteq {n}
    <3> SUFFICES ASSUME NEW i \in 1..n, i # n, asked[i].venue = "taken"
                 PROVE  asked[i].outcome = "abandoned"
      BY <1>1 DEF Router!With
    <3>1. i < n
      BY <1>1
    <3> QED
      BY <1>1, <3>1 DEF Router!Contained, n
  <2> HIDE DEF S
  <2>2. IsFiniteSet({n}) /\ Cardinality({n}) = 1
    BY FS_Singleton
  <2>3. Cardinality(S) <= Cardinality({n})
    BY <2>1, <2>2, FS_Subset
  <2> QED
    BY <2>2, <2>3 DEF S
<1>5. ASSUME place[o] = "answered"
      PROVE  Router!With(o, {"answered"}) = {n} /\ Router!Current(o).venue # "sent"
  <2>1. /\ n \in 1..n /\ asked[n].outcome = "answered" /\ asked[n].venue # "sent"
        /\ \A i \in 1..n : i < n => asked[i].outcome \in {"refused", "abandoned"}
    BY <1>1, <1>5 DEF Router!Contained, n
  <2>2. \A i \in 1..n : i = n \/ i < n
    BY <1>1
  <2>3. Router!With(o, {"answered"}) = {n}
    BY <1>1, <2>1, <2>2 DEF Router!With
  <2> QED
    BY <2>1, <2>3 DEF Router!Current, n
<1>6. ASSUME place[o] = "failed", asked # <<>>
      PROVE  /\ Router!With(o, {"refused", "abandoned"}) = DOMAIN asked
             /\ n = Router!AtMostThree(asking[o].size)
  <2>1. /\ asked[n].outcome \in {"refused", "abandoned"} /\ plan[o] = <<>>
        /\ \A i \in 1..n : i < n => asked[i].outcome \in {"refused", "abandoned"}
        /\ n + Len(plan[o]) = Router!AtMostThree(asking[o].size)
    BY <1>1, <1>6 DEF Router!Contained, n
  <2>2. \A i \in 1..n : i = n \/ i < n
    BY <1>1
  <2>3. Router!With(o, {"refused", "abandoned"}) = DOMAIN asked
    BY <1>1, <2>1, <2>2 DEF Router!With
  <2> QED
    BY <1>1, <2>1, <2>3
<1> HIDE DEF asked, tried
<1> QED
  BY <1>1, <1>2, <1>3, <1>4, <1>5, <1>6 DEF n, asked, tried

(* For any venues, quotes and brokers: what an arbitrage executed leaves   *)
(* no position beyond its bound, and an order that is tried at broker after *)
(* broker stands once and where its requests were given up.                *)
THEOREM ExecutionsAreAlwaysContained == DeskSpec => []ExecutionsAreContained
<1>0. Arb!ArbitrageConstants
  BY DeskConstants
<1>1. DeskInit => Arb!IInv
  BY DEF DeskInit, Arb!Init, Arb!IInv, Arb!TypeOK, Arb!Execution, Arb!Net, Arb!Legs
<1>2. DeskInit => Router!IInv
  BY RouterStarts DEF DeskInit
<1>3. Arb!IInv /\ [DeskNext]_deskVars => Arb!IInv'
  <2> SUFFICES ASSUME Arb!IInv, [DeskNext]_deskVars PROVE Arb!IInv'
    OBVIOUS
  <2>1. CASE Arb!Next
    BY <1>0, <2>1, PriceKeeps, DetectKeeps, VenueKeeps, RequestKeeps, WaitKeeps, DecisionKeeps,
       HedgeKeeps DEF Arb!Next
  <2>2. CASE UNCHANGED arbVars
    BY <2>2, OthersStay DEF arbVars, Arb!IInv, Arb!TypeOK
  <2> QED
    BY <2>1, <2>2 DEF DeskNext, Only, deskVars
<1>4. Router!IInv /\ [DeskNext]_deskVars => Router!IInv'
  <2> SUFFICES ASSUME Router!IInv, [DeskNext]_deskVars PROVE Router!IInv'
    OBVIOUS
  <2>1. CASE Router!Next
    BY <2>1, BrokerKeeps, RouteKeeps, PingKeeps, AnswerKeeps, LateVenueKeeps DEF Router!Next
  <2>2. CASE UNCHANGED routerVars
    BY <2>2 DEF routerVars, Router!IInv, Router!TypeOK
  <2> QED
    BY <2>1, <2>2 DEF DeskNext, Only, deskVars
<1>5. Arb!IInv /\ Router!IInv => ExecutionsAreContained
  BY FlatWithinBounds, ContainedOrder DEF ExecutionsAreContained
<1> QED
  BY <1>1, <1>2, <1>3, <1>4, <1>5, PTL DEF DeskSpec

-----------------------------------------------------------------------------
\* The paper broker.

\* The broker's sums are sums over finite sets.
LEMMA PaperSums ==
    /\ \A S : Paper!IsFiniteSet(S) <=> IsFiniteSet(S)
    /\ \A f, S : Paper!SumFunctionOnSet(f, S) = SumFunctionOnSet(f, S)
<1>1. \A S : Paper!IsFiniteSet(S) <=> IsFiniteSet(S)
  BY Zenon DEF Paper!IsFiniteSet, IsFiniteSet
<1>2. \A f, S : Paper!SumFunctionOnSet(f, S) = SumFunctionOnSet(f, S)
  BY Zenon DEF Paper!SumFunctionOnSet, Paper!FoldFunctionOnSet, Paper!MapThenFoldSet,
     SumFunctionOnSet, FoldFunctionOnSet, MapThenFoldSet
<1> QED
  BY <1>1, <1>2

(* Of each symbol: the result that is not booked yet, and what its trades are worth. *)
Unbooked == [s \in Symbols |-> Paper!Result(s)]
Real == [s \in Symbols |-> traded[s].money + traded[s].units * price[s]]
OneSided == \A s \in Symbols : traded[s].oneSided

PaperTypes ==
    /\ price \in [Symbols -> Int] /\ balance \in Int
    /\ position \in [Symbols -> [direction : {1, 0, -1}, units : Nat, cost : Int]]
    /\ traded \in [Symbols -> [money : Int, units : Int, oneSided : BOOLEAN]]

\* What is held is what was really traded, on the side of the position.
Held(s) ==
    /\ position[s].direction = 0 <=> position[s].units = 0
    /\ position[s].units = 0 => position[s].cost = 0
    /\ traded[s].units = position[s].direction * position[s].units

(* Until an order goes against a position: balance and results are worth the trades. *)
PaperIInv ==
    /\ PaperTypes
    /\ OneSided =>
         /\ \A s \in Symbols : Held(s)
         /\ balance + SumFunctionOnSet(Unbooked, Symbols) = SumFunctionOnSet(Real, Symbols)

\* The broker's sums are sums of integers.
LEMMA PaperInts ==
    ASSUME Paper!PaperConstants, PaperTypes
    PROVE  /\ IsFiniteSet(Symbols)
           /\ \A s \in Symbols : Unbooked[s] \in Int /\ Real[s] \in Int
           /\ SumFunctionOnSet(Unbooked, Symbols) \in Int
           /\ SumFunctionOnSet(Real, Symbols) \in Int
<1>1. IsFiniteSet(Symbols)
  <2>1. Paper!IsFiniteSet(Symbols)
    BY DEF Paper!PaperConstants
  <2> QED
    BY <2>1, PaperSums
<1>2. ASSUME NEW s \in Symbols PROVE Unbooked[s] \in Int /\ Real[s] \in Int
  <2>1. /\ price[s] \in Int /\ position[s].direction \in Int /\ position[s].units \in Int
        /\ position[s].cost \in Int /\ traded[s].money \in Int /\ traded[s].units \in Int
    BY DEF PaperTypes
  <2>2. Paper!Result(s) \in Int
    BY <2>1 DEF Paper!Result
  <2>3. traded[s].money + traded[s].units * price[s] \in Int
    BY <2>1
  <2> QED
    BY <2>2, <2>3 DEF Unbooked, Real
<1>3. SumFunctionOnSet(Unbooked, Symbols) \in Int /\ SumFunctionOnSet(Real, Symbols) \in Int
  BY <1>1, <1>2, SumInt
<1> QED
  BY <1>1, <1>2, <1>3

\* Nothing is held and nothing was traded when the broker begins.
LEMMA PaperStarts == ASSUME Paper!PaperConstants, Paper!Init PROVE PaperIInv
<1>1. /\ price \in [Symbols -> PaperPrices] /\ balance = 0
      /\ position = [s \in Symbols |-> [direction |-> 0, units |-> 0, cost |-> 0]]
      /\ traded = [s \in Symbols |-> [money |-> 0, units |-> 0, oneSided |-> TRUE]]
  BY DEF Paper!Init, Paper!Flat
<1>2. PaperTypes
  <2>1. PaperPrices \subseteq Int
    BY DEF Paper!PaperConstants
  <2>2. price \in [Symbols -> Int]
    BY <1>1, <2>1
  <2> QED
    BY <1>1, <2>2 DEF PaperTypes
<1>3. \A s \in Symbols : Held(s)
  BY <1>1 DEF Held
<1>4. \A s \in Symbols : Unbooked[s] = 0 /\ Real[s] = 0
  <2> SUFFICES ASSUME NEW s \in Symbols PROVE Unbooked[s] = 0 /\ Real[s] = 0
    OBVIOUS
  <2>1. /\ price[s] \in Int /\ position[s].direction = 0 /\ position[s].units = 0
        /\ position[s].cost = 0 /\ traded[s].money = 0 /\ traded[s].units = 0
    BY <1>1, <1>2 DEF PaperTypes
  <2> QED
    BY <2>1 DEF Unbooked, Real, Paper!Result
<1>5. SumFunctionOnSet(Unbooked, Symbols) = SumFunctionOnSet(Real, Symbols)
  <2>1. \A s \in Symbols : Unbooked[s] \in Int /\ Unbooked[s] = Real[s]
    BY <1>4
  <2> QED
    BY <1>2, <2>1, PaperInts, SumSame
<1>6. SumFunctionOnSet(Real, Symbols) \in Int
  BY <1>2, PaperInts
<1> QED
  BY <1>1, <1>2, <1>3, <1>5, <1>6 DEF PaperIInv

\* A step that changes one symbol, and the balance by what it books: it keeps the account
\* when what it changes the symbol's open result and its balance by is what it changes the
\* worth of what was traded by.
LEMMA OneSymbol ==
    ASSUME Paper!PaperConstants, PaperIInv, PaperTypes', OneSided' => OneSided, NEW s \in Symbols,
           \A r \in Symbols \ {s} : /\ price'[r] = price[r] /\ position'[r] = position[r]
                                    /\ traded'[r] = traded[r],
           OneSided' => Held(s)',
           OneSided' => (balance' - balance) + (Unbooked'[s] - Unbooked[s]) = Real'[s] - Real[s]
    PROVE  PaperIInv'
<1> SUFFICES ASSUME OneSided'
             PROVE  /\ \A r \in Symbols : Held(r)'
                    /\ balance' + SumFunctionOnSet(Unbooked', Symbols) = SumFunctionOnSet(Real', Symbols)
  BY DEF PaperIInv
<1>1. /\ PaperTypes /\ \A r \in Symbols : Held(r)
      /\ balance + SumFunctionOnSet(Unbooked, Symbols) = SumFunctionOnSet(Real, Symbols)
  BY DEF PaperIInv
<1>2. /\ IsFiniteSet(Symbols)
      /\ \A r \in Symbols : Unbooked[r] \in Int /\ Real[r] \in Int
      /\ SumFunctionOnSet(Unbooked, Symbols) \in Int /\ SumFunctionOnSet(Real, Symbols) \in Int
  BY <1>1, PaperInts
<1>3. \A r \in Symbols : Unbooked'[r] \in Int /\ Real'[r] \in Int
  <2> SUFFICES ASSUME NEW r \in Symbols PROVE Unbooked'[r] \in Int /\ Real'[r] \in Int
    OBVIOUS
  <2>1. /\ price'[r] \in Int /\ position'[r].direction \in Int /\ position'[r].units \in Int
        /\ position'[r].cost \in Int /\ traded'[r].money \in Int /\ traded'[r].units \in Int
    BY DEF PaperTypes
  <2>2. Paper!Result(r)' \in Int
    BY <2>1 DEF Paper!Result
  <2>3. traded'[r].money + traded'[r].units * price'[r] \in Int
    BY <2>1
  <2> QED
    BY <2>2, <2>3 DEF Unbooked, Real
<1>4. \A r \in Symbols \ {s} : Unbooked'[r] = Unbooked[r] /\ Real'[r] = Real[r]
  BY DEF Unbooked, Real, Paper!Result
<1>5. \A r \in Symbols : Held(r)'
  BY <1>1 DEF Held
<1>6. SumFunctionOnSet(Unbooked', Symbols) =
        SumFunctionOnSet(Unbooked, Symbols) + (Unbooked'[s] - Unbooked[s])
  BY <1>2, <1>3, <1>4, SumChanges
<1>7. SumFunctionOnSet(Real', Symbols) = SumFunctionOnSet(Real, Symbols) + (Real'[s] - Real[s])
  BY <1>2, <1>3, <1>4, SumChanges
<1>8. balance \in Int /\ balance' \in Int
  BY <1>1 DEF PaperTypes
<1>9. Unbooked[s] \in Int /\ Real[s] \in Int /\ Unbooked'[s] \in Int /\ Real'[s] \in Int
  BY <1>2, <1>3
<1>10. (balance' - balance) + (Unbooked'[s] - Unbooked[s]) = Real'[s] - Real[s]
  OBVIOUS
<1>11. balance' + SumFunctionOnSet(Unbooked', Symbols) = SumFunctionOnSet(Real', Symbols)
  BY ONLY <1>1, <1>2, <1>6, <1>7, <1>8, <1>9, <1>10
<1> QED
  BY <1>5, <1>11

\* A market order trades at the price its position is booked at.
LEMMA MarketOrderKeeps ==
    ASSUME Paper!PaperConstants, PaperIInv, NEW o \in ManyOrders, NEW s \in Symbols,
           NEW side \in Paper!Sides, NEW n \in 1..MaxUnits, Paper!PlaceMarket(o, s, side, n)
    PROVE  PaperIInv'
<1> DEFINE p == position[s]
           t == traded[s]
           d == IF p.units = 0 THEN side ELSE p.direction
           at == price[s]
           p2 == [direction |-> d, units |-> p.units + n, cost |-> p.cost + n * at]
           t2 == [money |-> t.money - side * n * at, units |-> t.units + side * n,
                  oneSided |-> t.oneSided /\ p.direction # -side]
<1>1. /\ position' = [position EXCEPT ![s] = p2] /\ traded' = [traded EXCEPT ![s] = t2]
      /\ price' = price /\ balance' = balance
  BY DEF Paper!PlaceMarket, Paper!UpdatePosition, Paper!CostAfter
<1>2. /\ PaperTypes /\ side \in {1, -1} /\ n \in Nat /\ n > 0
      /\ price \in [Symbols -> Int] /\ balance \in Int
      /\ position \in [Symbols -> [direction : {1, 0, -1}, units : Nat, cost : Int]]
      /\ traded \in [Symbols -> [money : Int, units : Int, oneSided : BOOLEAN]]
  BY DEF PaperIInv, PaperTypes, Paper!Sides, Paper!PaperConstants
<1>3. /\ p.direction \in {1, 0, -1} /\ p.units \in Nat /\ p.cost \in Int /\ at \in Int
      /\ t.money \in Int /\ t.units \in Int /\ t.oneSided \in BOOLEAN
  BY <1>2
<1>4. n * at \in Int /\ side * n \in Int /\ side * n * at \in Int
  BY <1>2, <1>3
<1>5. p2 \in [direction : {1, 0, -1}, units : Nat, cost : Int]
      /\ t2 \in [money : Int, units : Int, oneSided : BOOLEAN]
  <2> HIDE DEF p, t, at
  <2> QED
    BY <1>2, <1>3, <1>4
<1>6. /\ p2.direction = d /\ p2.units = p.units + n /\ p2.cost = p.cost + n * at
      /\ t2.money = t.money - side * n * at /\ t2.units = t.units + side * n
      /\ t2.oneSided = (t.oneSided /\ p.direction # -side)
  OBVIOUS
<1> HIDE DEF p2, t2
<1>7. PaperTypes'
  BY <1>1, <1>2, <1>5 DEF PaperTypes
<1>8. /\ position'[s] = p2 /\ traded'[s] = t2
      /\ \A r \in Symbols \ {s} : /\ price'[r] = price[r] /\ position'[r] = position[r]
                                  /\ traded'[r] = traded[r]
  BY <1>1, <1>2
<1>9. OneSided' => OneSided /\ p.direction # -side
  BY <1>6, <1>8 DEF OneSided
<1>10. ASSUME OneSided'
       PROVE  /\ Held(s)'
              /\ (balance' - balance) + (Unbooked'[s] - Unbooked[s]) = Real'[s] - Real[s]
  <2>1. Held(s)
    BY <1>9, <1>10 DEF PaperIInv
  <2>2. /\ p.direction = 0 <=> p.units = 0
        /\ p.units = 0 => p.cost = 0
        /\ t.units = p.direction * p.units
    BY <2>1 DEF Held
  <2> HIDE DEF p, t, at
  <2>3. d = side /\ t.units = side * p.units
    BY <1>2, <1>3, <1>9, <1>10, <2>2
  <2>4. side * (p.units + n) = side * p.units + side * n
    BY <1>2, <1>3
  <2>5. Held(s)'
    <3>1. p2.direction # 0 /\ p2.units # 0 /\ t2.units = p2.direction * p2.units
      BY <1>2, <1>3, <1>6, <2>3, <2>4
    <3> QED
      BY <1>8, <3>1 DEF Held
  <2>6. Unbooked[s] = side * (p.units * at - p.cost)
    <3>1. Unbooked[s] = p.direction * (p.units * at - p.cost)
      BY DEF Unbooked, Paper!Result, p, at
    <3>2. CASE p.units = 0
      <4>1. p.units * at - p.cost = 0
        BY <1>3, <2>2, <3>2
      <4> QED
        BY <1>2, <1>3, <3>1, <4>1
    <3>3. CASE p.units # 0
      BY <2>3, <3>1, <3>3
    <3> QED
      BY <3>2, <3>3
  <2>7. Unbooked'[s] = side * ((p.units + n) * at - (p.cost + n * at))
    BY <1>1, <1>6, <1>8, <2>3 DEF Unbooked, Paper!Result, at
  <2>8. (p.units + n) * at - (p.cost + n * at) = p.units * at - p.cost
    BY <1>2, <1>3
  <2>9. Real[s] = t.money + t.units * at
    BY DEF Real, t, at
  <2>10. Real'[s] = t.money - side * n * at + (t.units + side * n) * at
    BY <1>1, <1>6, <1>8 DEF Real, at
  <2>11. (t.units + side * n) * at = t.units * at + side * n * at
    BY <1>2, <1>3, <1>4
  <2>12. t.units * at \in Int
    BY <1>3
  <2>13. Real'[s] = Real[s]
    <3> DEFINE x == side * n * at
               y == t.units * at
    <3>1. x \in Int /\ y \in Int /\ Real[s] = t.money + y /\ Real'[s] = t.money - x + (y + x)
      BY <1>4, <2>9, <2>10, <2>11, <2>12
    <3> HIDE DEF x, y
    <3> QED
      BY ONLY <1>3, <3>1
  <2>14. Unbooked'[s] = Unbooked[s]
    BY <2>6, <2>7, <2>8
  <2>15. Unbooked[s] \in Int /\ Real[s] \in Int
    BY <1>2, PaperInts
  <2> QED
    BY <1>1, <1>2, <2>5, <2>13, <2>14, <2>15
<1> QED
  BY <1>7, <1>8, <1>9, <1>10, OneSymbol

\* A position is closed at what it is worth; so is what was really held.
LEMMA CloseKeeps ==
    ASSUME Paper!PaperConstants, PaperIInv, NEW s \in Symbols, Paper!ClosePosition(s)
    PROVE  PaperIInv'
<1> DEFINE p == position[s]
           t == traded[s]
           at == price[s]
           t2 == [money |-> t.money + t.units * at, units |-> 0, oneSided |-> t.oneSided]
<1>1. /\ position' = [position EXCEPT ![s] = Paper!Flat] /\ traded' = [traded EXCEPT ![s] = t2]
      /\ price' = price /\ balance' = balance + Paper!Result(s)
  BY DEF Paper!ClosePosition
<1>2. /\ PaperTypes
      /\ price \in [Symbols -> Int] /\ balance \in Int
      /\ position \in [Symbols -> [direction : {1, 0, -1}, units : Nat, cost : Int]]
      /\ traded \in [Symbols -> [money : Int, units : Int, oneSided : BOOLEAN]]
  BY DEF PaperIInv, PaperTypes
<1>3. /\ t \in [money : Int, units : Int, oneSided : BOOLEAN] /\ at \in Int /\ t.units * at \in Int
  BY <1>2
<1>4. t2 \in [money : Int, units : Int, oneSided : BOOLEAN]
      /\ t2.money = t.money + t.units * at /\ t2.units = 0 /\ t2.oneSided = t.oneSided
  <2> HIDE DEF t, at
  <2> QED
    BY <1>3
<1> HIDE DEF t2
<1>5. Unbooked[s] \in Int /\ Real[s] \in Int /\ Paper!Result(s) = Unbooked[s]
  BY <1>2, PaperInts DEF Unbooked
<1>6. /\ position'[s] = Paper!Flat /\ traded'[s] = t2
      /\ \A r \in Symbols \ {s} : /\ price'[r] = price[r] /\ position'[r] = position[r]
                                  /\ traded'[r] = traded[r]
  BY <1>1, <1>2
<1>7. Paper!Flat.direction = 0 /\ Paper!Flat.units = 0 /\ Paper!Flat.cost = 0
      /\ Paper!Flat \in [direction : {1, 0, -1}, units : Nat, cost : Int]
  BY DEF Paper!Flat
<1>8. PaperTypes'
  BY <1>1, <1>2, <1>4, <1>5, <1>7 DEF PaperTypes
<1>9. OneSided' => OneSided
  BY <1>4, <1>6 DEF OneSided
<1>10. Held(s)'
  <2>1. 0 = 0 * 0
    OBVIOUS
  <2> QED
    BY <1>4, <1>6, <1>7, <2>1 DEF Held
<1>11. Unbooked'[s] = 0
  <2>1. Unbooked'[s] = 0 * (0 * at - 0)
    BY <1>1, <1>6, <1>7 DEF Unbooked, Paper!Result
  <2> QED
    BY <1>3, <2>1
<1>12. Real'[s] = Real[s]
  <2>1. Real'[s] = t.money + t.units * at + 0 * at
    BY <1>1, <1>4, <1>6 DEF Real
  <2>2. Real[s] = t.money + t.units * at
    BY DEF Real
  <2> QED
    BY <1>3, <2>1, <2>2
<1>13. (balance' - balance) + (Unbooked'[s] - Unbooked[s]) = Real'[s] - Real[s]
  BY <1>1, <1>2, <1>5, <1>11, <1>12
<1> QED
  BY <1>6, <1>8, <1>9, <1>10, <1>13, OneSymbol

\* A price moves the open result and the worth of what was traded alike.
LEMMA MarketPriceKeeps ==
    ASSUME Paper!PaperConstants, PaperIInv, NEW s \in Symbols, Paper!UpdateMarketPrice(s)
    PROVE  PaperIInv'
<1>1. PICK new \in PaperPrices : price' = [price EXCEPT ![s] = new]
  BY DEF Paper!UpdateMarketPrice
<1>2. new \in Int /\ position' = position /\ traded' = traded /\ balance' = balance
  BY DEF Paper!UpdateMarketPrice, Paper!PaperConstants
<1>3. /\ PaperTypes
      /\ price \in [Symbols -> Int] /\ balance \in Int
      /\ position \in [Symbols -> [direction : {1, 0, -1}, units : Nat, cost : Int]]
      /\ traded \in [Symbols -> [money : Int, units : Int, oneSided : BOOLEAN]]
  BY DEF PaperIInv, PaperTypes
<1>4. /\ price'[s] = new
      /\ \A r \in Symbols \ {s} : /\ price'[r] = price[r] /\ position'[r] = position[r]
                                  /\ traded'[r] = traded[r]
  BY <1>1, <1>2, <1>3
<1>5. PaperTypes'
  BY <1>1, <1>2, <1>3 DEF PaperTypes
<1>6. OneSided' => OneSided
  BY <1>2 DEF OneSided
<1>7. ASSUME OneSided'
      PROVE  /\ Held(s)'
             /\ (balance' - balance) + (Unbooked'[s] - Unbooked[s]) = Real'[s] - Real[s]
  <2>1. Held(s)
    BY <1>6, <1>7 DEF PaperIInv
  <2> DEFINE d == position[s].direction
             u == position[s].units
             c == position[s].cost
             m == traded[s].money
             at == price[s]
  <2>2. /\ d \in Int /\ u \in Int /\ c \in Int /\ m \in Int /\ at \in Int
    BY <1>3
  <2>3. traded[s].units = d * u
    BY <2>1 DEF Held
  <2>4. /\ Unbooked[s] = d * (u * at - c) /\ Unbooked'[s] = d * (u * new - c)
        /\ Real[s] = m + (d * u) * at /\ Real'[s] = m + (d * u) * new
    BY <1>2, <1>4, <2>3 DEF Unbooked, Real, Paper!Result
  <2> HIDE DEF d, u, c, m, at
  <2>5. /\ d * (u * at - c) = (d * u) * at - d * c
        /\ d * (u * new - c) = (d * u) * new - d * c
    BY <1>2, <2>2
  <2>6. (d * u) * at \in Int /\ (d * u) * new \in Int /\ d * c \in Int
    BY <1>2, <2>2
  <2> DEFINE x == (d * u) * at
             y == (d * u) * new
             z == d * c
  <2>7. /\ x \in Int /\ y \in Int /\ z \in Int /\ m \in Int
        /\ Unbooked[s] = x - z /\ Unbooked'[s] = y - z /\ Real[s] = m + x /\ Real'[s] = m + y
    BY <2>2, <2>4, <2>5, <2>6
  <2> HIDE DEF x, y, z
  <2>8. Unbooked'[s] - Unbooked[s] = Real'[s] - Real[s] /\ Unbooked'[s] - Unbooked[s] \in Int
    BY ONLY <2>7
  <2>9. balance' - balance = 0
    BY <1>2, <1>3
  <2>10. Held(s)'
    BY <1>2, <2>1 DEF Held
  <2> QED
    BY <2>8, <2>9, <2>10
<1> QED
  BY <1>4, <1>5, <1>6, <1>7, OneSymbol

\* No step of the broker parts its equity from what was traded.
LEMMA PaperStep ==
    ASSUME Paper!PaperConstants, PaperIInv, Paper!Next
    PROVE  PaperIInv'
<1>1. ASSUME NEW o \in ManyOrders, Paper!PlaceResting(o) \/ Paper!CancelOrder(o)
      PROVE  PaperIInv'
  <2>1. UNCHANGED <<price, position, balance, traded>>
    BY <1>1 DEF Paper!PlaceResting, Paper!CancelOrder
  <2> QED
    BY <2>1 DEF PaperIInv, PaperTypes, OneSided, Held, Unbooked, Real, Paper!Result
<1> QED
  BY <1>1, MarketOrderKeeps, CloseKeeps, MarketPriceKeeps DEF Paper!Next

-----------------------------------------------------------------------------
\* The books of the portfolio.

\* The books' sums are sums over finite sets.
LEMMA BooksSums ==
    /\ \A S : Books!IsFiniteSet(S) <=> IsFiniteSet(S)
    /\ \A f, S : Books!SumFunctionOnSet(f, S) = SumFunctionOnSet(f, S)
<1>1. \A S : Books!IsFiniteSet(S) <=> IsFiniteSet(S)
  BY Zenon DEF Books!IsFiniteSet, IsFiniteSet
<1>2. \A f, S : Books!SumFunctionOnSet(f, S) = SumFunctionOnSet(f, S)
  BY Zenon DEF Books!SumFunctionOnSet, Books!FoldFunctionOnSet, Books!MapThenFoldSet,
     SumFunctionOnSet, FoldFunctionOnSet, MapThenFoldSet
<1> QED
  BY <1>1, <1>2

\* A division that leaves no remainder is exact.
LEMMA ExactDivision ==
    ASSUME NEW c \in Int, NEW d \in Nat \ {0}, c % d = 0
    PROVE  c \div d \in Int /\ d * (c \div d) = c
  OBVIOUS

\* Bringing a position to n more units at a price brings what it costs there.
LEMMA CostOfMore ==
    ASSUME NEW q \in Int, NEW n \in Int, NEW avg \in Int, NEW p \in Int, NEW new \in Int,
           \/ n > 0 /\ q >= 0
           \/ n < 0 /\ q <= 0,
           Books!Abs(q + n) * new = Books!Abs(q) * avg + Books!Abs(n) * p
    PROVE  (q + n) * new = q * avg + n * p
<1>1. CASE n > 0 /\ q >= 0
  BY <1>1 DEF Books!Abs
<1>2. CASE n < 0 /\ q <= 0
  <2>1. Books!Abs(q + n) = -(q + n) /\ Books!Abs(q) = -q /\ Books!Abs(n) = -n
    BY <1>2 DEF Books!Abs
  <2>2. (-(q + n)) * new = -((q + n) * new) /\ (-q) * avg = -(q * avg) /\ (-n) * p = -(n * p)
    OBVIOUS
  <2>3. (q + n) * new \in Int /\ q * avg \in Int /\ n * p \in Int
    OBVIOUS
  <2> QED
    BY <2>1, <2>2, <2>3
<1> QED
  BY <1>1, <1>2

(* What the position of each symbol cost. *)
Costs == [s \in Symbols |-> quantity[s] * avgEntry[s]]

(* The books' balance is inductive as it stands. *)
BooksIInv ==
    /\ quantity \in [Symbols -> Int] /\ avgEntry \in [Symbols -> Int]
    /\ market \in [Symbols -> Int]
    /\ unrealized \in [Symbols -> Int] /\ realized \in [Symbols -> Int] /\ cash \in Int
    /\ Books!BooksBalance

\* Books in which nothing was booked balance.
LEMMA BooksStart == ASSUME Books!PortfolioConstants, Books!Init PROVE BooksIInv
<1>1. /\ quantity = [s \in Symbols |-> 0] /\ avgEntry = [s \in Symbols |-> 0]
      /\ market = [s \in Symbols |-> 0] /\ unrealized = [s \in Symbols |-> 0]
      /\ realized = [s \in Symbols |-> 0] /\ cash = 0
  BY DEF Books!Init, Books!Zeros
<1>2. \A s \in Symbols : realized[s] \in Int /\ realized[s] = Costs[s]
  BY <1>1 DEF Costs
<1>3. IsFiniteSet(Symbols)
  <2>1. Books!IsFiniteSet(Symbols)
    BY DEF Books!PortfolioConstants
  <2> QED
    BY <2>1, BooksSums
<1>4. SumFunctionOnSet(realized, Symbols) = SumFunctionOnSet(Costs, Symbols)
  BY <1>2, <1>3, SumSame
<1>5. SumFunctionOnSet(Costs, Symbols) \in Int
  <2>1. \A s \in Symbols : Costs[s] \in Int
    BY <1>2
  <2> QED
    BY <1>3, <2>1, SumInt
<1>6. Books!Total(realized) = cash + Books!Total(Costs)
  <2>1. \A f : Books!Total(f) = SumFunctionOnSet(f, Symbols)
    BY BooksSums DEF Books!Total
  <2> HIDE DEF Costs
  <2> QED
    BY <1>1, <1>4, <1>5, <2>1
<1>7. Books!BooksBalance
  BY <1>1, <1>6 DEF Books!BooksBalance, Costs
<1> QED
  BY <1>1, <1>7 DEF BooksIInv

\* A trade of n units at a price: what the position costs and what it has realised
\* changes by the money that is paid.
LEMMA TradeBalances ==
    ASSUME BooksIInv, NEW s \in Symbols, NEW n \in Int, n # 0, NEW p \in Int,
           Books!AddTrade(s, n, p)
    PROVE  /\ avgEntry' \in [Symbols -> Int] /\ quantity' \in [Symbols -> Int]
           /\ realized' \in [Symbols -> Int] /\ unrealized' \in [Symbols -> Int]
           /\ \A r \in Symbols \ {s} :
                /\ quantity'[r] = quantity[r] /\ avgEntry'[r] = avgEntry[r]
                /\ realized'[r] = realized[r] /\ unrealized'[r] = unrealized[r]
           /\ realized'[s] - realized[s] = quantity'[s] * avgEntry'[s] - quantity[s] * avgEntry[s] - n * p
           /\ quantity'[s] # 0 => unrealized'[s] = quantity'[s] * (p - avgEntry'[s])
<1> DEFINE old == quantity[s]
           a == avgEntry[s]
           q == old + n
           cost == Books!Abs(old) * a + Books!Abs(n) * p
           ext == Books!Extends(s, n)
           avg == IF ext THEN cost \div Books!Abs(q) ELSE IF q = 0 THEN 0 ELSE a
           res == IF ext THEN realized[s] ELSE realized[s] - n * (p - a)
<1>1. /\ quantity \in [Symbols -> Int] /\ avgEntry \in [Symbols -> Int]
      /\ unrealized \in [Symbols -> Int] /\ realized \in [Symbols -> Int]
  BY DEF BooksIInv
<1>2. old \in Int /\ a \in Int /\ q \in Int /\ realized[s] \in Int /\ unrealized[s] \in Int
  BY <1>1
<1>3. ext <=> (n > 0 /\ old >= 0) \/ (n < 0 /\ old <= 0)
  BY <1>2 DEF Books!Extends
<1>4. /\ ext => cost % Books!Abs(q) = 0
      /\ quantity' = [quantity EXCEPT ![s] = q]
      /\ avgEntry' = [avgEntry EXCEPT ![s] = avg]
      /\ realized' = [realized EXCEPT ![s] = res]
      /\ unrealized' = [unrealized EXCEPT ![s] = Books!Unrealized(q, avg, p, unrealized[s])]
  BY DEF Books!AddTrade
<1> HIDE DEF old, a, ext
<1>5. /\ avg \in Int /\ res \in Int
      /\ res - realized[s] = q * avg - old * a - n * p
  <2>1. CASE ext
    <3>1. cost \in Int /\ Books!Abs(q) \in Nat \ {0}
      BY <1>2, <1>3, <2>1 DEF Books!Abs
    <3>2. cost \div Books!Abs(q) \in Int /\ Books!Abs(q) * (cost \div Books!Abs(q)) = cost
      <4> HIDE DEF cost
      <4> QED
        BY <1>4, <2>1, <3>1, ExactDivision
    <3>3. avg \in Int /\ Books!Abs(q) * avg = cost
      BY <2>1, <3>2
    <3>4. q * avg = old * a + n * p
      <4> HIDE DEF avg
      <4> QED
        BY <1>2, <1>3, <2>1, <3>3, CostOfMore
    <3>5. res = realized[s] /\ old * a \in Int /\ n * p \in Int
      BY <1>2, <2>1
    <3>6. res - realized[s] = 0 /\ res \in Int
      BY <1>2, <3>5
    <3> HIDE DEF avg, res, q
    <3>7. (old * a + n * p) - old * a - n * p = 0
      BY <3>5
    <3> QED
      BY <3>3, <3>4, <3>6, <3>7
  <2>2. CASE ~ext
    <3>1. avg \in Int /\ q * avg = q * a
      BY <1>2, <2>2
    <3>2. res = realized[s] - n * (p - a)
      BY <2>2
    <3>3. n * (p - a) = n * p - n * a /\ q * a = old * a + n * a
      BY <1>2
    <3>4. n * p \in Int /\ n * a \in Int /\ old * a \in Int
      BY <1>2
    <3> DEFINE np == n * p
               na == n * a
               oa == old * a
    <3> HIDE DEF avg, res, q
    <3>5. /\ q * avg = oa + na /\ res = realized[s] - (np - na)
          /\ np \in Int /\ na \in Int /\ oa \in Int /\ realized[s] \in Int
      BY <1>2, <3>1, <3>2, <3>3, <3>4
    <3> HIDE DEF np, na, oa
    <3>6. res \in Int /\ res - realized[s] = q * avg - oa - np
      BY ONLY <3>5
    <3> QED
      BY <3>1, <3>6 DEF np, oa
  <2> QED
    BY <2>1, <2>2
<1> HIDE DEF avg, res, q
<1>6. /\ Books!Unrealized(q, avg, p, unrealized[s]) \in Int
      /\ q # 0 => Books!Unrealized(q, avg, p, unrealized[s]) = q * (p - avg)
  <2>1. q * (p - avg) \in Int
    BY <1>2, <1>5
  <2> QED
    BY <1>2, <2>1 DEF Books!Unrealized
<1>7. /\ quantity'[s] = q /\ avgEntry'[s] = avg /\ realized'[s] = res
      /\ unrealized'[s] = Books!Unrealized(q, avg, p, unrealized[s])
  BY <1>1, <1>4
<1>8. \A r \in Symbols \ {s} :
        /\ quantity'[r] = quantity[r] /\ avgEntry'[r] = avgEntry[r]
        /\ realized'[r] = realized[r] /\ unrealized'[r] = unrealized[r]
  BY <1>1, <1>4
<1>9. /\ avgEntry' \in [Symbols -> Int] /\ quantity' \in [Symbols -> Int]
      /\ realized' \in [Symbols -> Int] /\ unrealized' \in [Symbols -> Int]
  <2> DEFINE unr == Books!Unrealized(q, avg, p, unrealized[s])
  <2>1. unr \in Int
    BY <1>6
  <2>2. unrealized' = [unrealized EXCEPT ![s] = unr]
    BY <1>4
  <2> HIDE DEF unr
  <2> QED
    BY <1>1, <1>2, <1>4, <1>5, <2>1, <2>2
<1> QED
  BY <1>5, <1>6, <1>7, <1>8, <1>9 DEF old, a

\* A fill may enlarge a position, reduce it, or turn it into its opposite.
LEMMA FillBalances ==
    ASSUME Books!PortfolioConstants, BooksIInv, NEW s \in Symbols, NEW p \in BookPrices,
           NEW n \in Int, n # 0, Books!ProcessFill(s, n, p)
    PROVE  BooksIInv'
<1>1. IsFiniteSet(Symbols) /\ p \in Int
  <2>1. Books!IsFiniteSet(Symbols) /\ p \in Int
    BY DEF Books!PortfolioConstants
  <2> QED
    BY <2>1, BooksSums
<1>2. Books!AddTrade(s, n, p) /\ cash' = cash - n * p
  BY DEF Books!ProcessFill
<1>3. market' = [market EXCEPT ![s] = p]
  BY <1>2 DEF Books!AddTrade
<1>4. /\ avgEntry' \in [Symbols -> Int] /\ quantity' \in [Symbols -> Int]
      /\ realized' \in [Symbols -> Int] /\ unrealized' \in [Symbols -> Int]
      /\ \A r \in Symbols \ {s} :
           /\ quantity'[r] = quantity[r] /\ avgEntry'[r] = avgEntry[r]
           /\ realized'[r] = realized[r] /\ unrealized'[r] = unrealized[r]
      /\ realized'[s] - realized[s] = quantity'[s] * avgEntry'[s] - quantity[s] * avgEntry[s] - n * p
      /\ quantity'[s] # 0 => unrealized'[s] = quantity'[s] * (p - avgEntry'[s])
  BY <1>1, <1>2, TradeBalances
<1>5. /\ quantity \in [Symbols -> Int] /\ avgEntry \in [Symbols -> Int]
      /\ market \in [Symbols -> Int] /\ realized \in [Symbols -> Int] /\ cash \in Int
      /\ Books!Total(realized) = cash + Books!Total(Costs)
      /\ \A r \in Symbols : quantity[r] # 0 => unrealized[r] = quantity[r] * (market[r] - avgEntry[r])
  BY DEF BooksIInv, Books!BooksBalance, Costs
<1>6. /\ \A r \in Symbols : /\ realized[r] \in Int /\ realized'[r] \in Int
                            /\ Costs[r] \in Int /\ Costs'[r] \in Int
      /\ \A r \in Symbols \ {s} : Costs'[r] = Costs[r]
      /\ Costs[s] = quantity[s] * avgEntry[s] /\ Costs'[s] = quantity'[s] * avgEntry'[s]
  BY <1>4, <1>5 DEF Costs
<1> HIDE DEF Costs
<1>7. SumFunctionOnSet(realized', Symbols) =
        SumFunctionOnSet(realized, Symbols) + (realized'[s] - realized[s])
  BY <1>1, <1>4, <1>6, SumChanges
<1>8. SumFunctionOnSet(Costs', Symbols) = SumFunctionOnSet(Costs, Symbols) + (Costs'[s] - Costs[s])
  BY <1>1, <1>6, SumChanges
<1>9. SumFunctionOnSet(realized, Symbols) \in Int /\ SumFunctionOnSet(Costs, Symbols) \in Int
  BY <1>1, <1>6, SumInt
<1>10. \A f : Books!Total(f) = SumFunctionOnSet(f, Symbols)
  BY BooksSums DEF Books!Total
<1>11. /\ cash' \in Int
       /\ SumFunctionOnSet(realized', Symbols) = cash' + SumFunctionOnSet(Costs', Symbols)
  <2> DEFINE np == n * p
  <2>1. np \in Int
    BY <1>1
  <2>2. /\ realized'[s] - realized[s] = Costs'[s] - Costs[s] - np /\ cash' = cash - np
        /\ SumFunctionOnSet(realized, Symbols) = cash + SumFunctionOnSet(Costs, Symbols)
    BY <1>2, <1>4, <1>5, <1>6, <1>10
  <2>3. Costs'[s] \in Int /\ Costs[s] \in Int /\ cash \in Int
    BY <1>5, <1>6
  <2> HIDE DEF np
  <2> QED
    BY ONLY <1>7, <1>8, <1>9, <2>1, <2>2, <2>3
<1>12. Books!Total(realized') = cash' + Books!Total(Costs')
  BY <1>10, <1>11
<1>13. \A r \in Symbols : quantity'[r] # 0 => unrealized'[r] = quantity'[r] * (market'[r] - avgEntry'[r])
  <2>1. market'[s] = p /\ \A r \in Symbols \ {s} : market'[r] = market[r]
    BY <1>3, <1>5
  <2> QED
    BY <1>4, <1>5, <2>1
<1>14. market' \in [Symbols -> Int]
  BY <1>1, <1>3, <1>5
<1>15. Books!BooksBalance'
  BY <1>12, <1>13 DEF Books!BooksBalance, Books!Total, Costs
<1> QED
  BY <1>4, <1>11, <1>14, <1>15 DEF BooksIInv

\* A price changes the unrealised result of its symbol and nothing else.
LEMMA PriceBalances ==
    ASSUME Books!PortfolioConstants, BooksIInv, NEW s \in Symbols, NEW p \in BookPrices,
           Books!UpdatePrice(s, p)
    PROVE  BooksIInv'
<1>1. p \in Int
  BY DEF Books!PortfolioConstants
<1>2. /\ market' = [market EXCEPT ![s] = p]
      /\ unrealized' = [unrealized EXCEPT
           ![s] = Books!Unrealized(quantity[s], avgEntry[s], p, unrealized[s])]
      /\ UNCHANGED <<quantity, avgEntry, realized, cash>>
  BY DEF Books!UpdatePrice
<1>3. /\ quantity \in [Symbols -> Int] /\ avgEntry \in [Symbols -> Int]
      /\ market \in [Symbols -> Int] /\ realized \in [Symbols -> Int] /\ cash \in Int
      /\ unrealized \in [Symbols -> Int]
      /\ Books!BooksBalance
  BY DEF BooksIInv
<1> DEFINE unr == Books!Unrealized(quantity[s], avgEntry[s], p, unrealized[s])
<1>4. /\ unr \in Int
      /\ quantity[s] # 0 => unr = quantity[s] * (p - avgEntry[s])
  BY <1>1, <1>3 DEF Books!Unrealized
<1>5. unrealized' = [unrealized EXCEPT ![s] = unr]
  BY <1>2
<1> HIDE DEF unr
<1>6. /\ market'[s] = p /\ unrealized'[s] = unr
      /\ \A r \in Symbols \ {s} : market'[r] = market[r] /\ unrealized'[r] = unrealized[r]
  BY <1>2, <1>3, <1>5
<1>7. market' \in [Symbols -> Int] /\ unrealized' \in [Symbols -> Int]
  BY <1>1, <1>2, <1>3, <1>4, <1>5
<1>8. Books!BooksBalance'
  BY <1>2, <1>3, <1>4, <1>6 DEF Books!BooksBalance, Books!Total
<1> QED
  BY <1>2, <1>3, <1>7, <1>8 DEF BooksIInv

\* No step unbalances the books.
LEMMA BooksStep ==
    ASSUME Books!PortfolioConstants, BooksIInv, Books!Next
    PROVE  BooksIInv'
<1>1. ASSUME NEW s \in Symbols, NEW p \in BookPrices,
             NEW n \in ((-2 * MaxUnits)..(2 * MaxUnits)) \ {0}, Books!ProcessFill(s, n, p)
      PROVE  BooksIInv'
  <2>1. n \in Int /\ n # 0
    OBVIOUS
  <2> QED
    BY <1>1, <2>1, FillBalances
<1> QED
  BY <1>1, PriceBalances DEF Books!Next

(* For any symbols and prices: the equity of the paper broker is what the  *)
(* trades are worth as long as no order went against a position, and the   *)
(* realised results of the books are the cash with the cost of what is     *)
(* held, each unrealised result that of the last price.                    *)
THEOREM AccountsAlwaysBalance == DeskSpec => []AccountsBalance
<1>0. Paper!PaperConstants /\ Books!PortfolioConstants
  BY DeskConstants
<1>1. DeskInit => PaperIInv /\ BooksIInv
  BY <1>0, PaperStarts, BooksStart DEF DeskInit
<1>2. PaperIInv /\ [DeskNext]_deskVars => PaperIInv'
  <2> SUFFICES ASSUME PaperIInv, [DeskNext]_deskVars PROVE PaperIInv'
    OBVIOUS
  <2>1. CASE Paper!Next
    BY <1>0, <2>1, PaperStep
  <2>2. CASE UNCHANGED paperVars
    BY <2>2 DEF paperVars, PaperIInv, PaperTypes, OneSided, Held, Unbooked, Real, Paper!Result
  <2> QED
    BY <2>1, <2>2 DEF DeskNext, Only, deskVars
<1>3. BooksIInv /\ [DeskNext]_deskVars => BooksIInv'
  <2> SUFFICES ASSUME BooksIInv, [DeskNext]_deskVars PROVE BooksIInv'
    OBVIOUS
  <2>1. CASE Books!Next
    BY <1>0, <2>1, BooksStep
  <2>2. CASE UNCHANGED bookVars
    BY <2>2 DEF bookVars, BooksIInv, Books!BooksBalance, Books!Total
  <2> QED
    BY <2>1, <2>2 DEF DeskNext, Only, deskVars
<1>4. PaperIInv => Paper!EquityIsWorth
  BY PaperSums DEF PaperIInv, OneSided, Unbooked, Real, Paper!EquityIsWorth, Paper!Equity, Paper!Worth
<1>5. PaperIInv /\ BooksIInv => AccountsBalance
  BY <1>4 DEF BooksIInv, AccountsBalance
<1> QED
  BY <1>1, <1>2, <1>3, <1>5, PTL DEF DeskSpec

-----------------------------------------------------------------------------
\* Self-trade prevention.

Rejects == action \in {"cancel_new", "cancel_both"}

(* Where a crossing order is rejected: of the orders that rest and the one *)
(* that is let in none crosses another of its entity.                      *)
StpIInv ==
    Rejects =>
        /\ resting \in Seq(Stp!OrderRecords)
        /\ entering = <<>> \/ \E o \in Stp!OrderRecords : entering = <<o>>
        /\ \A i, j \in DOMAIN resting : ~Stp!SelfCrosses(resting[i], resting[j])
        /\ entering # <<>> => answer.kind \in {Stp!None, action}
        /\ entering # <<>> /\ answer.kind = Stp!None =>
             \A i \in DOMAIN resting : ~Stp!SelfCrosses(entering[1], resting[i])

\* Who crosses whom does not depend on who came first, and nobody crosses himself.
LEMMA CrossingIsMutual ==
    ASSUME NEW a \in Stp!OrderRecords, NEW b \in Stp!OrderRecords
    PROVE  /\ Stp!SelfCrosses(a, b) <=> Stp!SelfCrosses(b, a)
           /\ ~Stp!SelfCrosses(a, a)
<1>1. a.buys \in BOOLEAN /\ b.buys \in BOOLEAN /\ a.price \in PriceLevels /\ b.price \in PriceLevels
  BY DEF Stp!OrderRecords
<1>2. a.price \in Nat /\ b.price \in Nat
  BY <1>1, DeskConstants DEF Stp!SelfTradeConstants
<1>3. Stp!SameEntity(a, b) <=> Stp!SameEntity(b, a)
  BY DEF Stp!SameEntity
<1>4. Stp!Crosses(a, b) <=> Stp!Crosses(b, a)
  BY <1>1, <1>2 DEF Stp!Crosses
<1>5. ~Stp!Crosses(a, a)
  BY <1>1 DEF Stp!Crosses
<1> QED
  BY <1>3, <1>4, <1>5 DEF Stp!SelfCrosses

\* The elements of a sequence that is put together are those of its parts.
LEMMA Joined ==
    ASSUME NEW R, NEW before \in Seq(R), NEW after \in Seq(R)
    PROVE  /\ before \o after \in Seq(R)
           /\ DOMAIN (before \o after) = 1..(Len(before) + Len(after))
           /\ \A i \in 1..(Len(before) + Len(after)) :
                (before \o after)[i] =
                    IF i <= Len(before) THEN before[i] ELSE after[i - Len(before)]
<1>1. before \o after \in Seq(R) /\ Len(before \o after) = Len(before) + Len(after)
  OBVIOUS
<1>2. DOMAIN (before \o after) = 1..(Len(before) + Len(after))
  BY <1>1
<1>3. \A i \in 1..(Len(before) + Len(after)) :
        (before \o after)[i] = IF i <= Len(before) THEN before[i] ELSE after[i - Len(before)]
  OBVIOUS
<1> QED
  BY <1>1, <1>2, <1>3

\* What is left when an order is removed was there before.
LEMMA RemovedWasThere ==
    ASSUME resting \in Seq(Stp!OrderRecords), NEW id
    PROVE  /\ Stp!Removed(id) \in Seq(Stp!OrderRecords)
           /\ \A i \in DOMAIN Stp!Removed(id) :
                \E j \in DOMAIN resting : Stp!Removed(id)[i] = resting[j]
<1>1. CASE Stp!Places(id) = {}
  BY <1>1 DEF Stp!Removed
<1>2. CASE Stp!Places(id) # {}
  <2> DEFINE k == Stp!Place(id)
             before == SubSeq(resting, 1, k - 1)
             after == SubSeq(resting, k + 1, Len(resting))
  <2>1. k \in 1..Len(resting)
    BY <1>2 DEF Stp!Place, Stp!Places
  <2>2. Stp!Removed(id) = before \o after
    BY <1>2 DEF Stp!Removed, Stp!Without
  <2> HIDE DEF k
  <2>3. /\ before \in Seq(Stp!OrderRecords) /\ Len(before) = k - 1
        /\ \A i \in 1..(k - 1) : before[i] = resting[i]
    BY <2>1
  <2>4. /\ after \in Seq(Stp!OrderRecords) /\ Len(after) = Len(resting) - k
        /\ \A i \in 1..(Len(resting) - k) : after[i] = resting[i + k]
    BY <2>1
  <2> HIDE DEF before, after
  <2> DEFINE both == before \o after
  <2>5. /\ both \in Seq(Stp!OrderRecords) /\ DOMAIN both = 1..(Len(before) + Len(after))
        /\ \A i \in 1..(Len(before) + Len(after)) :
             both[i] = IF i <= Len(before) THEN before[i] ELSE after[i - Len(before)]
    BY ONLY <2>3, <2>4, Joined
  <2> HIDE DEF both
  <2>6. Len(resting) \in Nat /\ DOMAIN resting = 1..Len(resting)
    OBVIOUS
  <2>7. ASSUME NEW i \in DOMAIN both
        PROVE  \E j \in DOMAIN resting : both[i] = resting[j]
    <3>1. CASE i <= Len(before)
      <4>1. i \in 1..(k - 1) /\ i \in 1..Len(resting)
        BY <2>1, <2>3, <2>5, <2>6, <3>1
      <4> QED
        BY <2>3, <2>5, <2>6, <3>1, <4>1
    <3>2. CASE ~(i <= Len(before))
      <4>1. i - Len(before) \in 1..(Len(resting) - k)
        BY <2>1, <2>3, <2>4, <2>5, <2>6, <3>2
      <4>2. both[i] = after[i - Len(before)]
        BY <2>5, <3>2
      <4>3. after[i - Len(before)] = resting[i - Len(before) + k]
        BY <2>4, <4>1
      <4>4. i - Len(before) + k \in 1..Len(resting)
        BY <2>1, <2>6, <4>1
      <4> QED
        BY <2>6, <4>2, <4>3, <4>4
    <3> QED
      BY <3>1, <3>2
  <2> QED
    BY <2>2, <2>5, <2>7 DEF both
<1> QED
  BY <1>1, <1>2

\* An empty book has no orders that cross.
LEMMA StpStarts == ASSUME Stp!Init PROVE StpIInv
  BY DEF Stp!Init, StpIInv

\* A check that answers nothing has found no order that crosses.
LEMMA CheckKeepsApart ==
    ASSUME StpIInv, NEW o \in Stp!OrderRecords, Stp!CheckSelfTrade(o)
    PROVE  StpIInv'
<1> SUFFICES ASSUME Rejects PROVE StpIInv'
  BY DEF StpIInv, Rejects, Stp!CheckSelfTrade
<1>1. resting' = resting /\ action' = action /\ level' = level /\ entering' = <<o>>
  BY DEF Stp!CheckSelfTrade
<1>2. \A a, b : Stp!SelfCrosses(a, b)' <=> Stp!SelfCrosses(a, b)
  BY <1>1 DEF Stp!SelfCrosses, Stp!SameEntity, Stp!Crosses
<1>3. answer'.kind \in {Stp!None, action}
  BY DEF Stp!CheckSelfTrade, Stp!NoAnswer
<1>4. answer'.kind = Stp!None => \A i \in DOMAIN resting : ~Stp!SelfCrosses(o, resting[i])
  BY DEF Stp!CheckSelfTrade, Stp!None, Rejects
<1>5. entering'[1] = o
  BY <1>1
<1> QED
  BY <1>1, <1>2, <1>3, <1>4, <1>5 DEF StpIInv, Rejects

\* An order that joins the book crosses none of those that rest there.
LEMMA JoiningKeepsApart ==
    ASSUME NEW o \in Stp!OrderRecords, resting \in Seq(Stp!OrderRecords),
           \A i, j \in DOMAIN resting : ~Stp!SelfCrosses(resting[i], resting[j]),
           \A i \in DOMAIN resting : ~Stp!SelfCrosses(o, resting[i])
    PROVE  /\ resting \o <<o>> \in Seq(Stp!OrderRecords)
           /\ \A i, j \in DOMAIN (resting \o <<o>>) :
                ~Stp!SelfCrosses((resting \o <<o>>)[i], (resting \o <<o>>)[j])
<1> DEFINE joined == resting \o <<o>>
<1>1. /\ joined \in Seq(Stp!OrderRecords) /\ Len(joined) = Len(resting) + 1
      /\ \A i \in 1..Len(resting) : joined[i] = resting[i]
      /\ joined[Len(resting) + 1] = o
  OBVIOUS
<1>2. /\ DOMAIN joined = 1..(Len(resting) + 1) /\ DOMAIN resting = 1..Len(resting)
      /\ Len(resting) \in Nat
  BY <1>1
<1>3. \A i \in DOMAIN resting : resting[i] \in Stp!OrderRecords
  OBVIOUS
<1> HIDE DEF joined
<1>4. ASSUME NEW i \in DOMAIN joined, NEW j \in DOMAIN joined
      PROVE  ~Stp!SelfCrosses(joined[i], joined[j])
  <2>1. \A k \in DOMAIN joined : k \in DOMAIN resting \/ k = Len(resting) + 1
    BY <1>2
  <2>2. CASE i \in DOMAIN resting /\ j \in DOMAIN resting
    BY <1>1, <1>2, <2>2
  <2>3. CASE i \in DOMAIN resting /\ j = Len(resting) + 1
    BY <1>1, <1>2, <1>3, <2>3, CrossingIsMutual
  <2>4. CASE i = Len(resting) + 1 /\ j \in DOMAIN resting
    BY <1>1, <1>2, <2>4
  <2>5. CASE i = Len(resting) + 1 /\ j = Len(resting) + 1
    BY <1>1, <2>5, CrossingIsMutual
  <2> QED
    BY <1>4, <2>1, <2>2, <2>3, <2>4, <2>5
<1> QED
  BY <1>1, <1>4 DEF joined

\* Following an answer lets only such orders join.
LEMMA FollowKeepsApart ==
    ASSUME StpIInv, Stp!Follow
    PROVE  StpIInv'
<1> SUFFICES ASSUME Rejects PROVE StpIInv'
  BY DEF StpIInv, Rejects, Stp!Follow
<1>1. action' = action /\ level' = level /\ entering' = <<>> /\ entering # <<>>
  BY DEF Stp!Follow
<1>2. \A a, b : Stp!SelfCrosses(a, b)' <=> Stp!SelfCrosses(a, b)
  BY <1>1 DEF Stp!SelfCrosses, Stp!SameEntity, Stp!Crosses
<1>3. PICK o \in Stp!OrderRecords : entering = <<o>>
  BY <1>1 DEF StpIInv
<1>4. resting \in Seq(Stp!OrderRecords)
      /\ \A i, j \in DOMAIN resting : ~Stp!SelfCrosses(resting[i], resting[j])
  BY DEF StpIInv
<1>5. /\ resting' \in Seq(Stp!OrderRecords)
      /\ \A i, j \in DOMAIN resting' : ~Stp!SelfCrosses(resting'[i], resting'[j])
  <2>1. CASE answer.kind = Stp!None
    <3>1. resting' = resting \o <<o>>
      BY <1>3, <2>1 DEF Stp!Follow, Stp!None
    <3>2. \A i \in DOMAIN resting : ~Stp!SelfCrosses(o, resting[i])
      BY <1>1, <1>3, <2>1 DEF StpIInv
    <3> QED
      BY <1>4, <3>1, <3>2, JoiningKeepsApart
  <2>2. CASE answer.kind = "cancel_new"
    BY <1>4, <2>2 DEF Stp!Follow, Stp!None
  <2>3. CASE answer.kind = "cancel_both"
    <3>1. resting' = Stp!Removed(answer.id)
      BY <2>3 DEF Stp!Follow, Stp!None
    <3> QED
      BY <1>4, <3>1, RemovedWasThere
  <2> QED
    BY <1>1, <2>1, <2>2, <2>3 DEF StpIInv, Rejects
<1> QED
  BY <1>1, <1>2, <1>5 DEF StpIInv, Rejects

\* An order that leaves makes no others cross.
LEMMA LeavingKeepsApart ==
    ASSUME StpIInv, Stp!RestingLeaves
    PROVE  StpIInv'
<1> SUFFICES ASSUME Rejects PROVE StpIInv'
  BY DEF StpIInv, Rejects, Stp!RestingLeaves
<1>1. UNCHANGED <<level, action, entering, answer>>
  BY DEF Stp!RestingLeaves
<1>2. \A a, b : Stp!SelfCrosses(a, b)' <=> Stp!SelfCrosses(a, b)
  BY <1>1 DEF Stp!SelfCrosses, Stp!SameEntity, Stp!Crosses
<1>3. PICK i \in DOMAIN resting : resting' = Stp!Removed(resting[i].id)
  BY DEF Stp!RestingLeaves
<1>4. /\ resting' \in Seq(Stp!OrderRecords)
      /\ \A k \in DOMAIN resting' : \E j \in DOMAIN resting : resting'[k] = resting[j]
  BY <1>3, RemovedWasThere DEF StpIInv
<1> QED
  BY <1>1, <1>2, <1>4 DEF StpIInv, Rejects

\* No step lets two orders of one entity cross where crossing orders are rejected.
LEMMA StpStep ==
    ASSUME StpIInv, Stp!Next
    PROVE  StpIInv'
  BY CheckKeepsApart, FollowKeepsApart, LeavingKeepsApart DEF Stp!Next

\* Then no pair of resting orders is one entity's own.
LEMMA OwnOrdersAreApart == ASSUME StpIInv PROVE Stp!OwnOrdersApart
<1> SUFFICES ASSUME Rejects, NEW i \in DOMAIN resting, NEW j \in DOMAIN resting,
                    resting[i].buys, ~resting[j].buys, resting[i].price >= resting[j].price,
                    Stp!SameEntity(resting[i], resting[j])
             PROVE  FALSE
  BY DEF Stp!OwnOrdersApart, Stp!OwnPairs, Rejects
<1>1. ~Stp!SelfCrosses(resting[i], resting[j])
  BY DEF StpIInv
<1> QED
  BY <1>1 DEF Stp!SelfCrosses, Stp!Crosses

-----------------------------------------------------------------------------
\* The controls before a trade.

\* The controls' sums are sums over finite sets.
LEMMA ControlsSums ==
    \A f, S : Controls!SumFunctionOnSet(f, S) = SumFunctionOnSet(f, S)
BY Zenon DEF Controls!SumFunctionOnSet, Controls!FoldFunctionOnSet, Controls!MapThenFoldSet,
   SumFunctionOnSet, FoldFunctionOnSet, MapThenFoldSet

Ages == 0..Fia.window

\* What passed in the last n + 1 ticks, and what the window counts of it.
Passed(n) == SumFunctionOnSet(passes, 0..n)
CountedMessages == IF messages > Fia.messages THEN Fia.messages ELSE messages

ControlsTypes ==
    /\ booked \in [Fia.symbols -> Int] /\ admitted \in [Fia.symbols -> Int]
    /\ leaked \in [Fia.symbols -> Int]
    /\ messages \in 0..(Fia.messages + 1) /\ windowAge \in 0..(Fia.window + 1)
    /\ passes \in [Ages -> Nat]

\* What passed since the window began is counted by it, what passed before is within the
\* limit of the window before; a window that is over has counted all there is.
Throttled ==
    /\ windowAge <= Fia.window =>
         /\ Passed(windowAge) <= CountedMessages
         /\ Passed(Fia.window) <= Fia.messages + CountedMessages
    /\ windowAge > Fia.window => Passed(Fia.window) <= Fia.messages /\ passes[0] = 0

(* What is booked is what was admitted and what leaked, and within the limit. *)
ControlsIInv ==
    /\ ControlsTypes
    /\ \A s \in Fia.symbols :
         /\ booked[s] = admitted[s] + leaked[s]
         /\ Controls!Abs(booked[s]) <= Fia.position
    /\ Throttled

\* The ages up to n are finitely many; what passed at them is a natural number.
LEMMA PassesAreInts ==
    ASSUME Controls!FiaConstants, ControlsTypes
    PROVE  /\ Fia.window \in Nat \ {0} /\ Fia.messages \in Nat \ {0}
           /\ \A n \in 0..Fia.window : /\ IsFiniteSet(0..n)
                                       /\ \A a \in 0..n : passes[a] \in Nat
                                       /\ Passed(n) \in Int
<1>1. Fia.window \in Nat \ {0} /\ Fia.messages \in Nat \ {0}
  BY DEF Controls!FiaConstants
<1>2. ASSUME NEW n \in 0..Fia.window
      PROVE  IsFiniteSet(0..n) /\ (\A a \in 0..n : passes[a] \in Nat) /\ Passed(n) \in Int
  <2>1. n \in Int /\ 0 \in Int
    BY <1>1
  <2>2. IsFiniteSet(0..n)
    BY <2>1, FS_Interval
  <2>3. \A a \in 0..n : passes[a] \in Nat
    BY <1>1 DEF ControlsTypes, Ages
  <2>4. \A a \in 0..n : passes[a] \in Int
    BY <2>3
  <2>5. Passed(n) \in Int
    BY <2>2, <2>4, SumInt DEF Passed
  <2> QED
    BY <2>2, <2>3, <2>5
<1> QED
  BY <1>1, <1>2

\* Nothing is booked and nothing has passed when the controls begin.
LEMMA ControlsStart == ASSUME Controls!FiaConstants, Controls!Init PROVE ControlsIInv
<1>1. Fia.window \in Nat \ {0} /\ Fia.messages \in Nat \ {0} /\ Fia.position \in Nat
  BY DEF Controls!FiaConstants
<1>2. /\ booked = [s \in Fia.symbols |-> 0] /\ admitted = [s \in Fia.symbols |-> 0]
      /\ leaked = [s \in Fia.symbols |-> 0] /\ messages = 0 /\ windowAge = 0
      /\ passes = [a \in Ages |-> 0]
  BY DEF Controls!Init, Controls!Zeros, Ages
<1>3. ControlsTypes
  BY <1>1, <1>2 DEF ControlsTypes
<1>4. \A n \in 0..Fia.window : Passed(n) = 0
  <2> SUFFICES ASSUME NEW n \in 0..Fia.window PROVE Passed(n) = 0
    OBVIOUS
  <2>1. IsFiniteSet(0..n)
    BY <1>3, PassesAreInts
  <2>2. \A a \in 0..n : passes[a] = 0
    BY <1>1, <1>2 DEF Ages
  <2> QED
    BY <2>1, <2>2, SumZeros DEF Passed
<1>5. Throttled
  <2>1. 0 \in 0..Fia.window /\ Fia.window \in 0..Fia.window
    BY <1>1
  <2> QED
    BY <1>1, <1>2, <1>4, <2>1 DEF Throttled, CountedMessages
<1>6. \A s \in Fia.symbols : booked[s] = admitted[s] + leaked[s] /\ Controls!Abs(booked[s]) <= Fia.position
  BY <1>1, <1>2 DEF Controls!Abs
<1> QED
  BY <1>3, <1>5, <1>6 DEF ControlsIInv

\* An order is booked in the position, admitted or leaked, alike.
LEMMA BookingKeeps ==
    ASSUME Controls!FiaConstants, ControlsTypes, NEW s \in Fia.symbols, NEW size \in Int,
           NEW ok \in BOOLEAN, Controls!ValidateOrder(s, size, ok),
           \A r \in Fia.symbols : /\ booked[r] = admitted[r] + leaked[r]
                                  /\ Controls!Abs(booked[r]) <= Fia.position
    PROVE  /\ booked' \in [Fia.symbols -> Int] /\ admitted' \in [Fia.symbols -> Int]
           /\ leaked' \in [Fia.symbols -> Int]
           /\ \A r \in Fia.symbols : /\ booked'[r] = admitted'[r] + leaked'[r]
                                     /\ Controls!Abs(booked'[r]) <= Fia.position
<1> DEFINE fits == Controls!PositionFits(s, size)
           passed == ok /\ fits /\ Controls!Abs(size) <= Fia.order
                       /\ Controls!MessageCount <= Fia.messages
           b == IF fits THEN size ELSE 0
           a == IF passed THEN size ELSE 0
           l == IF fits /\ ~passed THEN size ELSE 0
<1>1. /\ booked \in [Fia.symbols -> Int] /\ admitted \in [Fia.symbols -> Int]
      /\ leaked \in [Fia.symbols -> Int]
  BY DEF ControlsTypes
<1>2. /\ booked' = [booked EXCEPT ![s] = booked[s] + b]
      /\ admitted' = [admitted EXCEPT ![s] = admitted[s] + a]
      /\ leaked' = [leaked EXCEPT ![s] = leaked[s] + l]
  BY DEF Controls!ValidateOrder
<1>3. b \in Int /\ a \in Int /\ l \in Int /\ b = a + l
  <2>1. passed => fits
    OBVIOUS
  <2> HIDE DEF fits, passed
  <2> QED
    BY <2>1
<1>4. Controls!Abs(booked[s] + b) <= Fia.position
  BY <1>1 DEF Controls!PositionFits
<1> HIDE DEF b, a, l
<1>5. /\ booked'[s] = booked[s] + b /\ admitted'[s] = admitted[s] + a /\ leaked'[s] = leaked[s] + l
      /\ \A r \in Fia.symbols \ {s} : /\ booked'[r] = booked[r] /\ admitted'[r] = admitted[r]
                                      /\ leaked'[r] = leaked[r]
  BY <1>1, <1>2
<1>6. booked'[s] = admitted'[s] + leaked'[s]
  BY <1>1, <1>3, <1>5
<1> QED
  BY <1>1, <1>2, <1>3, <1>4, <1>5, <1>6

\* An order that passes is counted in a window that had room for it.
LEMMA ThrottleKeeps ==
    ASSUME Controls!FiaConstants, ControlsTypes, Throttled, NEW s \in Fia.symbols, NEW size \in Int,
           NEW ok \in BOOLEAN, Controls!ValidateOrder(s, size, ok)
    PROVE  /\ messages' \in 0..(Fia.messages + 1) /\ windowAge' \in 0..(Fia.window + 1)
           /\ passes' \in [Ages -> Nat] /\ Throttled'
<1> DEFINE fits == Controls!PositionFits(s, size)
           passed == ok /\ fits /\ Controls!Abs(size) <= Fia.order
                       /\ Controls!MessageCount <= Fia.messages
           n == IF passed THEN 1 ELSE 0
           M == Fia.messages
           W == Fia.window
<1>1. /\ W \in Nat \ {0} /\ M \in Nat \ {0}
      /\ \A i \in 0..W : /\ IsFiniteSet(0..i)
                         /\ \A a \in 0..i : passes[a] \in Nat
                         /\ Passed(i) \in Int
  BY PassesAreInts
<1>2. /\ messages \in 0..(M + 1) /\ windowAge \in 0..(W + 1) /\ passes \in [Ages -> Nat]
  BY DEF ControlsTypes
<1>3. /\ Controls!CountMessage
      /\ passes' = IF passed THEN [passes EXCEPT ![0] = passes[0] + 1] ELSE passes
  BY DEF Controls!ValidateOrder
<1>4. passed => Controls!MessageCount <= M
  OBVIOUS
<1> HIDE DEF passed
<1>5. 0 \in Ages /\ passes[0] \in Nat
  BY <1>1, <1>2 DEF Ages
<1>6. /\ n \in {0, 1} /\ passes'[0] = passes[0] + n
      /\ \A a \in Ages \ {0} : passes'[a] = passes[a]
      /\ passes' \in [Ages -> Nat]
  BY <1>2, <1>3, <1>5
<1> HIDE DEF n
<1>7. ASSUME NEW i \in 0..W PROVE Passed(i)' = Passed(i) + n
  <2>1. /\ IsFiniteSet(0..i) /\ 0 \in 0..i /\ \A a \in 0..i : a \in Ages
    BY <1>1 DEF Ages
  <2>2. /\ \A a \in 0..i : passes[a] \in Int /\ passes'[a] \in Int
        /\ \A a \in (0..i) \ {0} : passes'[a] = passes[a]
    BY <1>2, <1>6, <2>1
  <2>3. SumFunctionOnSet(passes', 0..i) = SumFunctionOnSet(passes, 0..i) + (passes'[0] - passes[0])
    BY <2>1, <2>2, SumChanges
  <2>4. passes'[0] - passes[0] = n
    BY <1>5, <1>6
  <2> QED
    BY <2>3, <2>4 DEF Passed
<1>8. windowAge <= W => windowAge \in 0..W
  BY <1>1, <1>2
<1>9. CASE windowAge > W
  <2>1. /\ Passed(W) <= M /\ passes[0] = 0
    BY <1>9 DEF Throttled
  <2>2. messages' = 1 /\ windowAge' = 0
    BY <1>1, <1>3, <1>9 DEF Controls!CountMessage, Controls!MessageCount, Controls!WindowOver
  <2>3. Passed(0) = 0
    <3>1. 0..0 = {0} /\ IsFiniteSet({0}) /\ passes[0] \in Int
      BY <1>5, FS_Singleton
    <3>2. SumFunctionOnSet(passes, {0}) = 0
      BY <2>1, <3>1, SumZeros
    <3> QED
      BY <3>1, <3>2 DEF Passed
  <2>4. 0 \in 0..W /\ W \in 0..W
    BY <1>1
  <2>5. Passed(0)' = n /\ Passed(W)' = Passed(W) + n /\ Passed(W) \in Int
    BY <1>1, <1>6, <1>7, <2>3, <2>4
  <2>6. CountedMessages' = 1
    BY <1>1, <2>2 DEF CountedMessages
  <2>7. Throttled'
    BY <1>1, <1>6, <2>1, <2>2, <2>5, <2>6 DEF Throttled
  <2> QED
    BY <1>1, <1>6, <2>2, <2>7
<1>10. CASE windowAge <= W
  <2>1. /\ Passed(windowAge) <= CountedMessages /\ Passed(W) <= M + CountedMessages
    BY <1>10 DEF Throttled
  <2>2. windowAge' = windowAge /\ Controls!MessageCount = messages + 1
        /\ messages' = IF messages + 1 > M THEN M + 1 ELSE messages + 1
    BY <1>1, <1>2, <1>3, <1>10 DEF Controls!CountMessage, Controls!MessageCount, Controls!WindowOver
  <2>3. CountedMessages' = (IF messages + 1 > M THEN M ELSE messages + 1)
        /\ CountedMessages = (IF messages > M THEN M ELSE messages)
    BY <1>1, <1>2, <2>2 DEF CountedMessages
  <2>4. CountedMessages + n <= CountedMessages' /\ CountedMessages \in Int /\ CountedMessages' \in Int
    BY <1>1, <1>2, <1>4, <2>2, <2>3 DEF n
  <2>5. W \in 0..W
    BY <1>1
  <2>6. /\ Passed(windowAge)' = Passed(windowAge) + n /\ Passed(windowAge) \in Int
        /\ Passed(W)' = Passed(W) + n /\ Passed(W) \in Int
    <3>1. \A i \in 0..W : SumFunctionOnSet(passes', 0..i) = SumFunctionOnSet(passes, 0..i) + n
      BY <1>7 DEF Passed
    <3> QED
      BY <1>1, <1>8, <1>10, <2>2, <2>5, <3>1 DEF Passed
  <2>7. Passed(windowAge)' <= CountedMessages' /\ Passed(W)' <= M + CountedMessages'
    <3> DEFINE x == Passed(windowAge)'
               y == Passed(W)'
               c == CountedMessages'
    <3>1. x = Passed(windowAge) + n /\ y = Passed(W) + n /\ CountedMessages + n <= c /\ c \in Int
      BY <2>4, <2>6
    <3> HIDE DEF x, y, c
    <3>2. n \in Int /\ M \in Int
      BY <1>1, <1>6
    <3>3. /\ Passed(windowAge) <= CountedMessages /\ Passed(W) <= M + CountedMessages
          /\ Passed(windowAge) \in Int /\ Passed(W) \in Int /\ CountedMessages \in Int
      BY <2>1, <2>4, <2>6
    <3> HIDE DEF M
    <3>4. x <= c
      BY ONLY <3>1, <3>2, <3>3
    <3>5. y <= M + c
      BY ONLY <3>1, <3>2, <3>3
    <3> QED
      BY <3>4, <3>5 DEF x, y, c
  <2>8. messages' \in 0..(M + 1)
    BY <1>1, <1>2, <2>2
  <2>9. Throttled'
    BY <1>1, <1>2, <1>10, <2>2, <2>7 DEF Throttled
  <2> QED
    BY <1>2, <1>6, <2>2, <2>8, <2>9
<1> QED
  BY <1>1, <1>2, <1>9, <1>10

\* A tick makes what passed a tick older, and forgets what is older than the window.
LEMMA ControlsTick ==
    ASSUME Controls!FiaConstants, ControlsTypes, Throttled, Controls!Tick
    PROVE  /\ windowAge' \in 0..(Fia.window + 1) /\ passes' \in [Ages -> Nat] /\ Throttled'
<1> DEFINE W == Fia.window
           M == Fia.messages
<1>1. /\ W \in Nat \ {0} /\ M \in Nat \ {0}
      /\ \A i \in 0..W : /\ IsFiniteSet(0..i)
                         /\ \A a \in 0..i : passes[a] \in Nat
                         /\ Passed(i) \in Int
  BY PassesAreInts
<1>2. /\ messages \in 0..(M + 1) /\ windowAge \in 0..(W + 1) /\ passes \in [Ages -> Nat]
  BY DEF ControlsTypes
<1>3. /\ windowAge' = (IF windowAge > W THEN windowAge ELSE windowAge + 1)
      /\ passes' = [a \in Ages |-> IF a = 0 THEN 0 ELSE passes[a - 1]]
      /\ messages' = messages
  BY DEF Controls!Tick, Controls!WindowOver, Ages
<1>4. /\ passes'[0] = 0
      /\ \A a \in 0..(W - 1) : passes[a] \in Nat /\ passes'[a + 1] = passes[a]
  <2>1. 0 \in Ages
    BY <1>1 DEF Ages
  <2>2. \A a \in 0..(W - 1) : /\ a \in Ages /\ a + 1 \in Ages /\ a + 1 # 0 /\ (a + 1) - 1 = a
    BY <1>1 DEF Ages
  <2> QED
    BY <1>2, <1>3, <2>1, <2>2
<1>5. passes' \in [Ages -> Nat]
  <2>1. \A a \in Ages : a # 0 => a - 1 \in Ages
    BY <1>1 DEF Ages
  <2> QED
    BY <1>2, <1>3, <2>1
<1>6. ASSUME NEW i \in 0..(W - 1) PROVE SumFunctionOnSet(passes', 0..(i + 1)) = Passed(i)
  <2> DEFINE A == 1..(i + 1)
             n == i + 1
  <2>1. n \in Nat /\ n - 1 = i /\ 0..n = A \cup {0} /\ 0 \notin A /\ 1 \in Int /\ n \in Int
    BY <1>1
  <2>2. IsFiniteSet(A)
    BY <2>1, FS_Interval
  <2>3. \A a \in 0..(n - 1) : passes[a] \in Int /\ passes'[a + 1] = passes[a]
    BY <1>1, <1>4, <2>1
  <2>4. SumFunctionOnSet(passes', 1..n) = SumFunctionOnSet(passes, 0..(n - 1))
    <3> HIDE DEF n
    <3> QED
      BY <2>1, <2>3, SumShifts
  <2>5. SumFunctionOnSet(passes', A) = Passed(i)
    BY <2>1, <2>4 DEF Passed
  <2>6. \A a \in A \cup {0} : passes'[a] \in Int
    <3>1. \A a \in A \cup {0} : a \in Ages
      BY <1>1 DEF Ages
    <3> QED
      BY <1>5, <3>1
  <2>7. Passed(i) \in Int
    BY <1>1
  <2> HIDE DEF A
  <2>8. SumFunctionOnSet(passes', A \cup {0}) = passes'[0] + SumFunctionOnSet(passes', A)
    BY <2>1, <2>2, <2>6, SumAdds
  <2>9. SumFunctionOnSet(passes', 0..n) = 0 + Passed(i)
    BY <1>4, <2>1, <2>5, <2>8
  <2> QED
    BY <2>7, <2>9
<1>7. /\ SumFunctionOnSet(passes', 0..W) <= Passed(W) /\ SumFunctionOnSet(passes', 0..W) \in Int
  <2> DEFINE i == W - 1
             A == 0..i
  <2>1. i \in 0..(W - 1) /\ i + 1 = W /\ i \in 0..W /\ 0..W = A \cup {W} /\ W \notin A /\ W \in 0..W
    BY <1>1
  <2>2. SumFunctionOnSet(passes', 0..W) = Passed(i)
    BY <1>6, <2>1
  <2>3. IsFiniteSet(A) /\ Passed(i) \in Int /\ Passed(i) = SumFunctionOnSet(passes, A)
    BY <1>1, <2>1 DEF Passed
  <2>4. passes[W] \in Nat /\ \A a \in A : passes[a] \in Int /\ passes[a] = passes[a]
    BY <1>1, <2>1
  <2> HIDE DEF A
  <2>5. SumFunctionOnSet(passes, A \cup {W}) = SumFunctionOnSet(passes, A) + passes[W]
    BY <2>1, <2>3, <2>4, SumGains
  <2>6. Passed(W) = Passed(i) + passes[W]
    BY <2>1, <2>3, <2>5 DEF Passed
  <2> QED
    BY <2>2, <2>3, <2>4, <2>6
<1>8. W \in 0..W /\ Passed(W) \in Int
  BY <1>1
<1>9. CountedMessages' = CountedMessages /\ CountedMessages \in Int /\ CountedMessages <= M
  BY <1>1, <1>2, <1>3 DEF CountedMessages
<1>10. CASE windowAge > W
  <2>1. Passed(W) <= M /\ windowAge' = windowAge
    BY <1>3, <1>10 DEF Throttled
  <2>2. Passed(W)' <= M
    BY <1>1, <1>7, <1>8, <2>1 DEF Passed
  <2>3. Throttled'
    BY <1>1, <1>2, <1>4, <1>10, <2>1, <2>2 DEF Throttled
  <2> QED
    BY <1>2, <1>5, <2>1, <2>3
<1>11. CASE windowAge = W
  <2>1. windowAge' = W + 1
    BY <1>1, <1>3, <1>11
  <2>2. Passed(W) <= M
    BY <1>1, <1>8, <1>9, <1>11 DEF Throttled
  <2>3. Passed(W)' <= M
    BY <1>1, <1>7, <1>8, <2>2 DEF Passed
  <2>4. Throttled'
    BY <1>1, <1>4, <2>1, <2>3 DEF Throttled
  <2> QED
    BY <1>1, <1>5, <2>1, <2>4
<1>12. CASE windowAge < W
  <2>1. windowAge' = windowAge + 1 /\ windowAge \in 0..(W - 1) /\ windowAge' <= W
    BY <1>1, <1>2, <1>3, <1>12
  <2>2. Passed(windowAge) <= CountedMessages /\ Passed(W) <= M + CountedMessages
    BY <1>1, <1>2, <1>12 DEF Throttled
  <2>3. Passed(windowAge)' <= CountedMessages'
    <3>1. SumFunctionOnSet(passes', 0..(windowAge + 1)) = Passed(windowAge)
      BY <1>6, <2>1
    <3> QED
      BY <1>9, <2>1, <2>2, <3>1 DEF Passed
  <2>4. Passed(W)' <= M + CountedMessages'
    BY <1>1, <1>7, <1>8, <1>9, <2>2 DEF Passed
  <2>5. Throttled'
    BY <1>1, <1>2, <2>1, <2>3, <2>4 DEF Throttled
  <2> QED
    BY <1>1, <1>2, <1>5, <2>1, <2>5
<1> QED
  BY <1>1, <1>2, <1>10, <1>11, <1>12

\* No step breaks the limits of the controls.
LEMMA ControlsStep ==
    ASSUME Controls!FiaConstants, ControlsIInv, Controls!Next
    PROVE  ControlsIInv'
<1>1. /\ ControlsTypes /\ Throttled
      /\ \A s \in Fia.symbols : /\ booked[s] = admitted[s] + leaked[s]
                                /\ Controls!Abs(booked[s]) <= Fia.position
  BY DEF ControlsIInv
<1>2. ASSUME NEW s \in Fia.symbols, NEW n \in 1..(Fia.order + 1), NEW side \in {1, -1},
             NEW ok \in BOOLEAN, Controls!ValidateOrder(s, side * n, ok)
      PROVE  ControlsIInv'
  <2> DEFINE size == side * n
  <2>1. size \in Int
    BY DEF Controls!FiaConstants
  <2>2. Controls!ValidateOrder(s, size, ok)
    BY <1>2
  <2> HIDE DEF size
  <2>3. /\ booked' \in [Fia.symbols -> Int] /\ admitted' \in [Fia.symbols -> Int]
        /\ leaked' \in [Fia.symbols -> Int]
        /\ \A r \in Fia.symbols : /\ booked'[r] = admitted'[r] + leaked'[r]
                                  /\ Controls!Abs(booked'[r]) <= Fia.position
    BY <1>1, <2>1, <2>2, BookingKeeps
  <2>4. /\ messages' \in 0..(Fia.messages + 1) /\ windowAge' \in 0..(Fia.window + 1)
        /\ passes' \in [Ages -> Nat] /\ Throttled'
    BY <1>1, <2>1, <2>2, ThrottleKeeps
  <2> QED
    BY <2>3, <2>4 DEF ControlsIInv, ControlsTypes, Controls!Abs
<1>3. CASE Controls!ValidateKilled
  <2>1. UNCHANGED <<booked, messages, windowAge, admitted, leaked, passes>>
    BY <1>3 DEF Controls!ValidateKilled
  <2> QED
    BY <2>1 DEF ControlsIInv, ControlsTypes, Throttled, Passed, CountedMessages
<1>4. CASE Controls!Tick
  <2>1. windowAge' \in 0..(Fia.window + 1) /\ passes' \in [Ages -> Nat] /\ Throttled'
    BY <1>1, <1>4, ControlsTick
  <2>2. UNCHANGED <<messages, booked, admitted, leaked>>
    BY <1>4 DEF Controls!Tick
  <2> QED
    BY <1>1, <2>1, <2>2 DEF ControlsIInv, ControlsTypes
<1> QED
  BY <1>2, <1>3, <1>4 DEF Controls!Next

\* Within one window and what is left of the one before no more than twice the limit passes.
LEMMA ControlsAdmit ==
    ASSUME Controls!FiaConstants, ControlsIInv
    PROVE  Controls!AdmittedWithinBookings
<1>1. /\ ControlsTypes /\ Throttled
      /\ \A s \in Fia.symbols : /\ booked[s] = admitted[s] + leaked[s]
                                /\ Controls!Abs(booked[s]) <= Fia.position
  BY DEF ControlsIInv
<1>2. /\ Fia.window \in Nat \ {0} /\ Fia.messages \in Nat \ {0} /\ Passed(Fia.window) \in Int
  <2>1. Fia.window \in 0..Fia.window
    BY DEF Controls!FiaConstants
  <2> QED
    BY <1>1, <2>1, PassesAreInts
<1>3. messages \in 0..(Fia.messages + 1) /\ windowAge \in 0..(Fia.window + 1)
  BY <1>1 DEF ControlsTypes
<1>4. CountedMessages \in Int /\ CountedMessages <= Fia.messages
  BY <1>2, <1>3 DEF CountedMessages
<1>5. Passed(Fia.window) <= 2 * Fia.messages
  BY <1>1, <1>2, <1>3, <1>4 DEF Throttled
<1> QED
  BY <1>1, <1>5, ControlsSums DEF Controls!AdmittedWithinBookings, Passed

(* For any orders, limits and windows: no two resting orders of one owner  *)
(* cross where a crossing order is rejected, what was admitted stays       *)
(* within the position limit with what is booked, and of the messages no   *)
(* more than two windows' worth pass in one.                               *)
THEOREM ControlsAlwaysHold == DeskSpec => []ControlsHold
<1>0. Controls!FiaConstants
  BY DeskConstants
<1>1. DeskInit => StpIInv /\ ControlsIInv
  BY <1>0, StpStarts, ControlsStart DEF DeskInit
<1>2. StpIInv /\ [DeskNext]_deskVars => StpIInv'
  <2> SUFFICES ASSUME StpIInv, [DeskNext]_deskVars PROVE StpIInv'
    OBVIOUS
  <2>1. CASE Stp!Next
    BY <2>1, StpStep
  <2>2. CASE UNCHANGED stpVars
    BY <2>2 DEF stpVars, StpIInv, Rejects, Stp!SelfCrosses, Stp!SameEntity, Stp!Crosses
  <2> QED
    BY <2>1, <2>2 DEF DeskNext, Only, deskVars
<1>3. ControlsIInv /\ [DeskNext]_deskVars => ControlsIInv'
  <2> SUFFICES ASSUME ControlsIInv, [DeskNext]_deskVars PROVE ControlsIInv'
    OBVIOUS
  <2>1. CASE Controls!Next
    BY <1>0, <2>1, ControlsStep
  <2>2. CASE UNCHANGED fiaVars
    BY <2>2 DEF fiaVars, ControlsIInv, ControlsTypes, Throttled, Passed, CountedMessages
  <2> QED
    BY <2>1, <2>2 DEF DeskNext, Only, deskVars
<1>4. StpIInv /\ ControlsIInv => ControlsHold
  BY <1>0, OwnOrdersAreApart, ControlsAdmit DEF ControlsHold
<1> QED
  BY <1>1, <1>2, <1>3, <1>4, PTL DEF DeskSpec
=============================================================================
