------------------------ MODULE UserServicesProofs -------------------------
(***************************************************************************)
(* Proofs about the services that users call: copy trading, the records of *)
(* transactions, teams, alerts, the payment limits with the gateway, the   *)
(* market data cache, the wallets, the affiliates, the depth of market,    *)
(* the consensus prices and the control of the strategies.  Each part has an inductive invariant of its own, *)
(* IInv of its module or defined here; a step of the services is a step of *)
(* the part that is exercised and leaves the others alone.                 *)
(***************************************************************************)
EXTENDS UserServices, SumTheorems, SequenceTheorems

-----------------------------------------------------------------------------
\* Copy trading.

\* A product grows with its second factor.
LEMMA ProductGrows ==
    ASSUME NEW a \in Int, NEW b \in Int, a <= b, NEW w \in Nat
    PROVE  w * a \in Int /\ w * b \in Int /\ w * a <= w * b
  OBVIOUS

\* Products of natural numbers are natural numbers.
LEMMA ProductOfNats ==
    ASSUME NEW a \in Nat, NEW b \in Nat
    PROVE  a * b \in Nat
  OBVIOUS

\* A product of a sum is the sum of the products.
LEMMA Distributes ==
    ASSUME NEW d \in Int, NEW a \in Int, NEW b \in Int
    PROVE  d * (a + b) = d * a + d * b
  OBVIOUS

\* Products may be grouped.
LEMMA Associates ==
    ASSUME NEW d \in Int, NEW a \in Int, NEW b \in Int
    PROVE  d * (a * b) = d * a * b
  OBVIOUS

\* One trade more, when the drawdown is not reached, stays within the bound.
LEMMA OneTradeMore ==
    ASSUME NEW d \in Nat, NEW w \in Nat, NEW m \in Nat, NEW n \in Nat, n <= m,
           NEW s \in Int, NEW lost \in Int, d * lost <= s
    PROVE  d * (lost + w * n) <= s + d * w * m
<1>1. d * w \in Nat /\ w * n \in Int
  BY ProductOfNats
<1>2. d * w * n <= d * w * m /\ d * w * n \in Int /\ d * w * m \in Int
  BY <1>1, ProductGrows
<1>3. d * (lost + w * n) = d * lost + d * (w * n)
  BY <1>1, Distributes
<1>4. d * (w * n) = d * w * n
  BY Associates
<1>5. d * lost \in Int
  OBVIOUS
<1> QED
  BY ONLY <1>2, <1>3, <1>4, <1>5, d * lost <= s, s \in Int
\* Nothing is copied and nothing is lost when the service begins.
LEMMA CopiesStart ==
    ASSUME Copies!CopyConstants, Copies!Init
    PROVE  Copies!IInv
  BY DEF Copies!CopyConstants, Copies!Init, Copies!IInv, Copies!Books, Copies!Follower,
     Copies!Bounded

\* A subscription begins with its balance and no trades.
LEMMA SubscriptionKeeps ==
    ASSUME Copies!CopyConstants, Copies!IInv, NEW f \in Members, NEW t \in Traders,
           NEW amount \in Balances,
           Copies!Subscribe(f, t, amount)
    PROVE  Copies!IInv'
<1>1. Copies!Books /\ amount \in Nat /\ amount \in Int /\ Copying.trades \in Nat
  BY DEF Copies!IInv, Copies!CopyConstants
<1>2. \A g \in Members \ {f} :
        /\ following'[g] = following[g] /\ balance'[g] = balance[g] /\ start'[g] = start[g]
        /\ openTrades'[g] = openTrades[g] /\ closedPnl'[g] = closedPnl[g]
        /\ subscriptions'[g] = subscriptions[g]
  BY <1>1 DEF Copies!Subscribe, Copies!Books
<1>3. /\ following'[f] = t /\ balance'[f] = amount /\ start'[f] = amount /\ openTrades'[f] = 0
      /\ closedPnl'[f] = closedPnl[f] /\ subscriptions'[f] = subscriptions[f] + 1
  BY <1>1 DEF Copies!Subscribe, Copies!Books
<1>4. Copies!Follower(f)'
  <2>1. subscriptions[f] \in Nat /\ closedPnl[f] \in Int
    BY <1>1 DEF Copies!Books
  <2>2. subscriptions[f] = 0 => closedPnl[f] = 0
    BY <1>1 DEF Copies!Books, Copies!Follower
  <2> QED
    BY <1>1, <1>3, <2>1, <2>2 DEF Copies!Follower
<1>5. \A g \in Members : Copies!Follower(g)'
  BY <1>1, <1>2, <1>4 DEF Copies!Books, Copies!Follower
<1>6. Copies!Books'
  BY <1>1, <1>5 DEF Copies!Books, Copies!Subscribe
<1>7. Copies!Bounded(f)'
  <2>1. Copies!AtRisk(f)' = 0
    <3>1. Copying.loss * 0 = 0
      BY DEF Copies!CopyConstants
    <3> QED
      BY <1>1, <1>3, <3>1 DEF Copies!AtRisk
  <2>2. Copying.drawdown * 0 = 0 /\ Copying.drawdown * Copying.loss \in Nat
    BY ProductOfNats DEF Copies!CopyConstants
  <2>3. Copying.drawdown * Copying.loss * Copying.trades \in Nat
    BY <1>1, <2>2, ProductOfNats
  <2> QED
    BY <1>1, <1>3, <2>1, <2>2, <2>3 DEF Copies!Bounded
<1>8. \A g \in Members : Copies!Bounded(g)'
  BY <1>2, <1>7 DEF Copies!IInv, Copies!Bounded, Copies!AtRisk
<1> QED
  BY <1>6, <1>8 DEF Copies!IInv

\* A trade is copied only while the follower has room and the drawdown is not reached.
LEMMA SignalKeeps ==
    ASSUME Copies!CopyConstants, Copies!IInv, NEW t \in Traders, Copies!PublishSignal(t)
    PROVE  Copies!IInv'
<1>1. Copies!Books /\ Copying.trades \in Nat /\ Copying.drawdown \in Nat /\ Copying.loss \in Nat
  BY DEF Copies!IInv, Copies!CopyConstants
<1>2. UNCHANGED <<following, balance, closedPnl, start, subscriptions>>
  BY DEF Copies!PublishSignal
<1>3. \A f \in Members :
        openTrades'[f] = IF following[f] = t /\ Copies!CanAccept(f) THEN openTrades[f] + 1 ELSE openTrades[f]
  BY DEF Copies!PublishSignal
<1>4. ASSUME NEW f \in Members PROVE Copies!Follower(f)'
  <2>1. Copies!Follower(f) /\ openTrades[f] \in Int
    BY <1>1 DEF Copies!Books
  <2>2. CASE following[f] = t /\ Copies!CanAccept(f)
    <3>1. openTrades'[f] \in 0..Copying.trades
      BY <1>1, <1>3, <2>1, <2>2 DEF Copies!CanAccept, Copies!Follower
    <3>2. subscriptions[f] # 0
      BY <2>1, <2>2 DEF Copies!Follower, Copies!CopyConstants
    <3> QED
      BY <1>2, <2>1, <3>1, <3>2 DEF Copies!Follower
  <2>3. CASE ~(following[f] = t /\ Copies!CanAccept(f))
    BY <1>2, <1>3, <2>1, <2>3 DEF Copies!Follower
  <2> QED
    BY <2>2, <2>3
<1>5. Copies!Books'
  <2>1. openTrades' \in [Members -> Int]
    BY <1>1 DEF Copies!PublishSignal, Copies!Books
  <2> QED
    BY <1>1, <1>2, <1>4, <2>1 DEF Copies!Books
<1>6. ASSUME NEW f \in Members PROVE Copies!Bounded(f)'
  <2>1. CASE following[f] = t /\ Copies!CanAccept(f)
    <3> SUFFICES ASSUME subscriptions[f] = 1
                 PROVE  Copying.drawdown * Copies!AtRisk(f)' <= start[f] + Copying.drawdown * Copying.loss * Copying.trades
      BY <1>2 DEF Copies!Bounded
    <3> DEFINE lost == start[f] - balance[f]
    <3>1. /\ start[f] \in Nat \ {0} /\ start[f] \in Int /\ balance[f] \in Int
          /\ closedPnl[f] \in Int
          /\ balance[f] = start[f] + closedPnl[f] /\ openTrades[f] \in Nat
      BY <1>1 DEF Copies!Books, Copies!Follower, Copies!CopyConstants
    <3>2. Copies!Peak(f) = start[f]
      BY <3>1 DEF Copies!Peak
    <3>3. Copying.drawdown * lost \in Int
      BY <1>1, <3>1
    <3>4. Copying.drawdown * lost <= start[f]
      BY <2>1, <3>1, <3>2, <3>3 DEF Copies!CanAccept, Copies!DrawnDown
    <3>5. openTrades'[f] \in Nat /\ openTrades'[f] <= Copying.trades
      BY <1>1, <1>3, <2>1, <3>1 DEF Copies!CanAccept
    <3>6. Copies!AtRisk(f)' = lost + Copying.loss * openTrades'[f]
      BY <1>2 DEF Copies!AtRisk
    <3>7. lost \in Int
      BY <3>1
    <3> HIDE DEF lost
    <3> QED
      BY <1>1, <3>1, <3>4, <3>5, <3>6, <3>7, OneTradeMore
  <2>2. CASE ~(following[f] = t /\ Copies!CanAccept(f))
    BY <1>2, <1>3, <2>2 DEF Copies!IInv, Copies!Bounded, Copies!AtRisk
  <2> QED
    BY <2>1, <2>2
<1> QED
  BY <1>5, <1>6 DEF Copies!IInv

\* A trade that closes was at risk with its whole loss.
LEMMA ResultKeeps ==
    ASSUME Copies!CopyConstants, Copies!IInv, NEW f \in Members,
           NEW pnl \in (-Copying.loss)..Copying.gain,
           Copies!CloseTrade(f, pnl)
    PROVE  Copies!IInv'
<1>1. /\ Copies!Books /\ Copying.trades \in Nat /\ Copying.drawdown \in Nat
      /\ Copying.loss \in Nat
      /\ pnl \in Int /\ -Copying.loss <= pnl
  BY DEF Copies!IInv, Copies!CopyConstants
<1>2. UNCHANGED <<following, start, subscriptions>>
  BY DEF Copies!CloseTrade
<1>3. \A g \in Members \ {f} :
        balance'[g] = balance[g] /\ openTrades'[g] = openTrades[g] /\ closedPnl'[g] = closedPnl[g]
  BY <1>1 DEF Copies!CloseTrade, Copies!Books
<1>4. /\ balance'[f] = balance[f] + pnl /\ openTrades'[f] = openTrades[f] - 1
      /\ closedPnl'[f] = closedPnl[f] + pnl /\ openTrades[f] > 0
  BY <1>1 DEF Copies!CloseTrade, Copies!Books
<1>5. /\ balance[f] \in Int /\ openTrades[f] \in Int /\ closedPnl[f] \in Int /\ start[f] \in Int
      /\ Copies!Follower(f)
  BY <1>1 DEF Copies!Books
<1>6. Copies!Follower(f)'
  <2>1. openTrades'[f] \in 0..Copying.trades /\ subscriptions[f] # 0
    BY <1>1, <1>4, <1>5 DEF Copies!Follower
  <2>2. subscriptions[f] = 1 => start[f] \in Balances /\ balance'[f] = start[f] + closedPnl'[f]
    BY <1>1, <1>4, <1>5 DEF Copies!Follower
  <2> QED
    BY <1>2, <2>1, <2>2 DEF Copies!Follower
<1>7. \A g \in Members : Copies!Follower(g)'
  BY <1>1, <1>2, <1>3, <1>6 DEF Copies!Books, Copies!Follower
<1>8. Copies!Books'
  BY <1>1, <1>2, <1>7 DEF Copies!Books, Copies!CloseTrade
<1>9. Copying.drawdown * Copies!AtRisk(f)' <= Copying.drawdown * Copies!AtRisk(f)
      /\ Copying.drawdown * Copies!AtRisk(f)' \in Int
      /\ Copying.drawdown * Copies!AtRisk(f) \in Int
  <2>1. Copying.loss * openTrades[f] \in Int
    BY <1>1, <1>5
  <2>2. Copying.loss * (openTrades[f] - 1) = Copying.loss * openTrades[f] - Copying.loss
    BY <1>1, <1>5
  <2>3. Copies!AtRisk(f)' = start[f] - (balance[f] + pnl) + (Copying.loss * openTrades[f] - Copying.loss)
    BY <1>2, <1>4, <2>2 DEF Copies!AtRisk
  <2>4. Copies!AtRisk(f)' \in Int /\ Copies!AtRisk(f) \in Int /\ Copies!AtRisk(f)' <= Copies!AtRisk(f)
    BY <1>1, <1>5, <2>1, <2>3 DEF Copies!AtRisk
  <2> QED
    BY <1>1, <2>4, ProductGrows
<1>10. Copies!Bounded(f)'
  <2>1. Copying.drawdown * Copying.loss * Copying.trades \in Int
    BY <1>1, ProductOfNats
  <2>2. Copies!Bounded(f)
    BY DEF Copies!IInv
  <2> QED
    BY <1>2, <1>5, <1>9, <2>1, <2>2 DEF Copies!Bounded
<1>11. \A g \in Members : Copies!Bounded(g)'
  BY <1>2, <1>3, <1>10 DEF Copies!IInv, Copies!Bounded, Copies!AtRisk
<1> QED
  BY <1>8, <1>11 DEF Copies!IInv

\* Whatever the limits: a follower who subscribed once loses at most the drawdown that
\* was allowed and what the trades open at that moment can still lose.
THEOREM FollowersLossIsBounded == ServicesSpec => []FollowerLossBounded
<1>0. Copies!CopyConstants
  BY ServicesConstants
<1>1. ServicesInit => Copies!IInv
  BY <1>0, CopiesStart DEF ServicesInit
<1>2. Copies!IInv /\ [ServicesNext]_serviceVars => Copies!IInv'
  <2> SUFFICES ASSUME Copies!IInv, [ServicesNext]_serviceVars PROVE Copies!IInv'
    OBVIOUS
  <2>1. CASE Copies!Next
    BY <1>0, <2>1, SubscriptionKeeps, SignalKeeps, ResultKeeps DEF Copies!Next
  <2>2. CASE UNCHANGED copyVars
    BY <2>2 DEF copyVars, Copies!IInv, Copies!Books, Copies!Follower, Copies!Bounded,
       Copies!AtRisk
  <2> QED
    BY <2>1, <2>2 DEF ServicesNext, Only, serviceVars
<1>3. Copies!IInv => FollowerLossBounded
  BY DEF Copies!IInv, Copies!Bounded, Copies!FollowerLossBounded, FollowerLossBounded
<1> QED
  BY <1>1, <1>2, <1>3, PTL DEF ServicesSpec

-----------------------------------------------------------------------------
\* The records of transactions.

\* The ledger's sets are counted like all others.
LEMMA SameLedgerCount ==
    \A S : /\ Ledger!IsFiniteSet(S) <=> IsFiniteSet(S)
           /\ Ledger!Cardinality(S) = Cardinality(S)
<1>1. \A S : Ledger!IsFiniteSet(S) <=> IsFiniteSet(S)
  BY Zenon DEF Ledger!IsFiniteSet, IsFiniteSet
<1>2. \A S : Ledger!Cardinality(S) = Cardinality(S)
  BY Zenon DEF Ledger!Cardinality, Cardinality
<1> QED
  BY <1>1, <1>2


\* The reversals of a transaction are finitely many.
LEMMA ReversalsAreFinite ==
    ASSUME Ledger!TransactionConstants, NEW t \in Ids
    PROVE  IsFiniteSet(Ledger!Reversals(t)) /\ Cardinality(Ledger!Reversals(t)) \in Nat
<1>1. Ledger!Reversals(t) \subseteq Ids /\ IsFiniteSet(Ids)
  BY SameLedgerCount DEF Ledger!Reversals, Ledger!TransactionConstants
<1> QED
  BY <1>1, FS_Subset, FS_CardinalityType

\* A step that leaves originals and types of recorded transactions alone, and completes
\* only what it counts, keeps the invariant.
LEMMA StatusChanged ==
    ASSUME Ledger!TransactionConstants, Ledger!IInv, Ledger!Books', UNCHANGED reversedBy,
           \A t \in Ids : /\ txns'[t].original = txns[t].original
                          /\ reversedBy[t] # Ledger!None => txns'[t].type = txns[t].type
                          /\ txns[t].original # Ledger!None => txns'[t].type = txns[t].type,
           \A t \in Ids : \/ completions'[t] = completions[t] /\ txns'[t].status # "COMPLETED"
                          \/ completions'[t] = completions[t] /\ txns[t].status = "COMPLETED"
                          \/ completions'[t] = completions[t] + 1 /\ txns[t].status # "COMPLETED"
    PROVE  Ledger!IInv'
<1>1. ASSUME NEW t \in Ids
      PROVE  Cardinality(Ledger!Reversals(t))' + (IF txns'[t].status = "COMPLETED" THEN 1 ELSE 0)
               <= completions'[t]
  <2>1. Ledger!Reversals(t)' = Ledger!Reversals(t)
    BY DEF Ledger!Reversals
  <2>2. Cardinality(Ledger!Reversals(t)) \in Nat /\ completions[t] \in Nat
    BY ReversalsAreFinite DEF Ledger!IInv, Ledger!Books
  <2>3. Cardinality(Ledger!Reversals(t)) + (IF txns[t].status = "COMPLETED" THEN 1 ELSE 0) <= completions[t]
    BY SameLedgerCount DEF Ledger!IInv, Ledger!ReversalsAreBacked
  <2> QED
    BY <2>1, <2>2, <2>3
<1>2. ASSUME NEW t \in Ids, reversedBy'[t] # Ledger!None
      PROVE  /\ txns'[reversedBy'[t]].original = t
             /\ txns'[reversedBy'[t]].type = Ledger!ReversalType(txns'[t].type)
  <2>1. reversedBy[t] \in Ids /\ reversedBy'[t] = reversedBy[t]
    BY <1>2 DEF Ledger!IInv, Ledger!Books
  <2>2. txns[reversedBy[t]].original = t /\ t # Ledger!None
        /\ txns[reversedBy[t]].type = Ledger!ReversalType(txns[t].type)
    BY <1>2, <2>1 DEF Ledger!IInv, Ledger!ReversalsAreBacked, Ledger!TransactionConstants
  <2> QED
    BY <1>2, <2>1, <2>2 DEF Ledger!ReversalType
<1> QED
  BY <1>1, <1>2, SameLedgerCount DEF Ledger!IInv, Ledger!ReversalsAreBacked

\* A transaction that is recorded reverses nothing and is reversed by nothing.
LEMMA RecordingKeeps ==
    ASSUME Ledger!TransactionConstants, Ledger!IInv, NEW t \in Ids, NEW type \in Ledger!Types,
           Ledger!RecordTransaction(t, type)
    PROVE  Ledger!IInv'
<1>1. Ledger!Books /\ txns[t].original = Ledger!None /\ reversedBy[t] = Ledger!None
  BY DEF Ledger!IInv, Ledger!Books, Ledger!RecordTransaction
<1>2. Ledger!Books'
  BY <1>1 DEF Ledger!Books, Ledger!RecordTransaction, Ledger!Recorded, Ledger!Statuses
<1> QED
  BY <1>1, <1>2, StatusChanged DEF Ledger!RecordTransaction, Ledger!Books

\* A status that is set takes no completion away.
LEMMA UpdateKeeps ==
    ASSUME Ledger!TransactionConstants, Ledger!IInv, NEW t \in Ids,
           NEW other \in Ledger!Statuses,
           Ledger!UpdateTransactionStatus(t, other)
    PROVE  Ledger!IInv'
<1>1. Ledger!Books /\ Ledger!None \notin Ledger!Statuses
  BY DEF Ledger!IInv, Ledger!Statuses, Ledger!None
<1>2. Ledger!Books'
  BY <1>1 DEF Ledger!Books, Ledger!UpdateTransactionStatus, Ledger!Recorded
<1> QED
  BY <1>1, <1>2, StatusChanged DEF Ledger!UpdateTransactionStatus, Ledger!Books

\* Only what never completed is cancelled.
LEMMA CancellationKeeps ==
    ASSUME Ledger!TransactionConstants, Ledger!IInv, NEW t \in Ids, Ledger!CancelTransaction(t)
    PROVE  Ledger!IInv'
<1>1. Ledger!Books /\ Ledger!None \notin Ledger!Statuses
  BY DEF Ledger!IInv, Ledger!Statuses, Ledger!None
<1>2. Ledger!Books'
  BY <1>1 DEF Ledger!Books, Ledger!CancelTransaction, Ledger!Recorded, Ledger!Statuses,
     Ledger!None
<1> QED
  BY <1>1, <1>2, StatusChanged DEF Ledger!CancelTransaction, Ledger!Books

\* A reversal takes the place of the completion it reverses.
LEMMA ReversalKeeps ==
    ASSUME Ledger!TransactionConstants, Ledger!IInv, NEW t \in Ids, NEW r \in Ids,
           Ledger!ReverseTransaction(t, r)
    PROVE  Ledger!IInv'
<1>1. /\ Ledger!Books /\ t # r /\ txns[t].status = "COMPLETED" /\ txns[r].original = Ledger!None
      /\ reversedBy[r] = Ledger!None
  BY DEF Ledger!IInv, Ledger!Books, Ledger!ReverseTransaction, Ledger!Reversible,
     Ledger!Recorded, Ledger!None
<1>2. /\ txns'[r] = [type |-> Ledger!ReversalType(txns[t].type), status |-> "PENDING", original |-> t]
      /\ txns'[t] = [txns[t] EXCEPT !.status = "REVERSED"]
      /\ \A u \in Ids \ {t, r} : txns'[u] = txns[u]
      /\ reversedBy'[t] = r /\ \A u \in Ids \ {t} : reversedBy'[u] = reversedBy[u]
      /\ UNCHANGED completions
  BY <1>1 DEF Ledger!ReverseTransaction, Ledger!Books
<1>3. Ledger!Books'
  <2>1. Ledger!ReversalType(txns[t].type) \in Ledger!Types
    BY DEF Ledger!ReversalType, Ledger!Types
  <2>2. txns' \in [Ids -> [type : Ledger!Types \cup {Ledger!None}, status : Ledger!Statuses \cup {Ledger!None},
                          original : Ids \cup {Ledger!None}]]
    BY <1>1, <2>1 DEF Ledger!Books, Ledger!ReverseTransaction, Ledger!Statuses
  <2> QED
    BY <1>1, <1>2, <2>2 DEF Ledger!Books, Ledger!ReverseTransaction, Ledger!Recorded, Ledger!None
<1>4. ASSUME NEW u \in Ids
      PROVE  Cardinality(Ledger!Reversals(u))' + (IF txns'[u].status = "COMPLETED" THEN 1 ELSE 0)
               <= completions'[u]
  <2>1. /\ Cardinality(Ledger!Reversals(u)) \in Nat /\ IsFiniteSet(Ledger!Reversals(u))
        /\ completions[u] \in Nat
        /\ Cardinality(Ledger!Reversals(u)) + (IF txns[u].status = "COMPLETED" THEN 1 ELSE 0) <= completions[u]
    BY ReversalsAreFinite, SameLedgerCount DEF Ledger!IInv, Ledger!Books,
       Ledger!ReversalsAreBacked
  <2>2. CASE u = t
    <3>1. Ledger!Reversals(t)' = Ledger!Reversals(t) \cup {r} /\ r \notin Ledger!Reversals(t)
      <4>1. \A q \in Ids : txns'[q].original = IF q = r THEN t ELSE txns[q].original
        BY <1>1, <1>2 DEF Ledger!Books
      <4>2. t # Ledger!None
        BY DEF Ledger!TransactionConstants
      <4> QED
        BY <1>1, <4>1, <4>2, Zenon DEF Ledger!Reversals
    <3>2. Cardinality(Ledger!Reversals(t))' = Cardinality(Ledger!Reversals(t)) + 1
      BY <2>1, <2>2, <3>1, FS_AddElement
    <3> QED
      BY <1>1, <1>2, <2>1, <2>2, <3>2 DEF Ledger!Books
  <2>3. CASE u # t
    <3>1. Ledger!Reversals(u)' = Ledger!Reversals(u)
      BY <1>1, <1>2, <2>3 DEF Ledger!Reversals, Ledger!TransactionConstants, Ledger!Books
    <3>2. txns'[u].status = "COMPLETED" => txns[u].status = "COMPLETED"
      BY <1>2, <2>3
    <3> QED
      BY <1>2, <2>1, <3>1, <3>2
  <2> QED
    BY <2>2, <2>3
<1>5. ASSUME NEW u \in Ids, reversedBy'[u] # Ledger!None
      PROVE  /\ txns'[reversedBy'[u]].original = u
             /\ txns'[reversedBy'[u]].type = Ledger!ReversalType(txns'[u].type)
  <2>1. CASE u = t
    BY <1>1, <1>2, <2>1 DEF Ledger!Books
  <2>2. CASE u # t
    <3>1. /\ reversedBy'[u] = reversedBy[u] /\ reversedBy[u] \in Ids
          /\ txns[reversedBy[u]].original = u
          /\ txns[reversedBy[u]].type = Ledger!ReversalType(txns[u].type)
      BY <1>1, <1>2, <1>5, <2>2 DEF Ledger!IInv, Ledger!Books, Ledger!ReversalsAreBacked
    <3>2. reversedBy[u] # r /\ u # r
      BY <1>1, <1>2, <1>5, <3>1 DEF Ledger!TransactionConstants
    <3>3. /\ txns'[reversedBy[u]].original = txns[reversedBy[u]].original
          /\ txns'[reversedBy[u]].type = txns[reversedBy[u]].type /\ txns'[u] = txns[u]
      BY <1>1, <1>2, <2>2, <3>1, <3>2 DEF Ledger!Books
    <3> QED
      BY <3>1, <3>3
  <2> QED
    BY <2>1, <2>2
<1> QED
  BY <1>3, <1>4, <1>5, SameLedgerCount DEF Ledger!IInv, Ledger!ReversalsAreBacked

\* For any ids and any order of late and repeated confirmations: no reversal without a
\* completion of its own.
THEOREM ReversalsAreAlwaysBacked == ServicesSpec => []ReversalsAreBacked
<1>0. Ledger!TransactionConstants
  BY ServicesConstants
<1>1. ServicesInit => Ledger!IInv
  <2> SUFFICES ASSUME Ledger!Init PROVE Ledger!IInv
    BY DEF ServicesInit
  <2>1. \A t \in Ids : Ledger!Reversals(t) = {}
    BY <1>0 DEF Ledger!Init, Ledger!Reversals, Ledger!NoTxn, Ledger!TransactionConstants
  <2> QED
    BY <2>1, SameLedgerCount, FS_EmptySet DEF Ledger!Init, Ledger!IInv, Ledger!Books,
       Ledger!ReversalsAreBacked, Ledger!Recorded, Ledger!NoTxn, Ledger!None
<1>2. Ledger!IInv /\ [ServicesNext]_serviceVars => Ledger!IInv'
  <2> SUFFICES ASSUME Ledger!IInv, [ServicesNext]_serviceVars PROVE Ledger!IInv'
    OBVIOUS
  <2>1. CASE Ledger!Next
    BY <1>0, <2>1, RecordingKeeps, UpdateKeeps, CancellationKeeps, ReversalKeeps DEF Ledger!Next
  <2>2. CASE UNCHANGED ledgerVars
    BY <2>2 DEF ledgerVars, Ledger!IInv, Ledger!Books, Ledger!ReversalsAreBacked,
       Ledger!Recorded, Ledger!Reversals
  <2> QED
    BY <2>1, <2>2 DEF ServicesNext, Only, serviceVars
<1>3. Ledger!IInv => ReversalsAreBacked
  BY DEF Ledger!IInv, ReversalsAreBacked
<1> QED
  BY <1>1, <1>2, <1>3, PTL DEF ServicesSpec

-----------------------------------------------------------------------------
\* Teams.

\* Nobody is invited without a role, and who is invited is not yet a member by it.
LEMMA InviteKeeps ==
    ASSUME Group!IInv, NEW i \in Crew.invitations, NEW role \in Group!Roles,
           NEW by \in Crew.users,
           Group!InviteMember(i, role, by)
    PROVE  Group!IInv'
<1>1. Group!TypeOK'
  BY DEF Group!IInv, Group!TypeOK, Group!InviteMember
<1>2. Group!MembersWereInvited'
  BY DEF Group!IInv, Group!TypeOK, Group!MembersWereInvited, Group!InviteMember, Group!Member,
         Group!None
<1> QED
  BY <1>1, <1>2 DEF Group!IInv, Group!TypeOK, Group!InviteMember, Group!Roles, Group!None

\* An invitation that expires was accepted by nobody.
LEMMA ExpiryKeeps ==
    ASSUME Group!IInv, NEW i \in Crew.invitations, Group!Expire(i)
    PROVE  Group!IInv'
<1>1. Group!TypeOK'
  BY DEF Group!IInv, Group!TypeOK, Group!Expire
<1>2. Group!MembersWereInvited'
  BY DEF Group!IInv, Group!TypeOK, Group!MembersWereInvited, Group!Expire, Group!Member
<1> QED
  BY <1>1, <1>2 DEF Group!IInv, Group!TypeOK, Group!Expire

\* Who accepts becomes a member by an invitation that brought in nobody before.
LEMMA AcceptanceKeeps ==
    ASSUME Group!TeamConstants, Group!IInv, NEW i \in Crew.invitations, NEW u \in Crew.users,
           Group!AcceptInvitation(i, u)
    PROVE  Group!IInv'
<1>1. /\ Group!TypeOK /\ invitations[i].status = "open" /\ invitations[i].role \in Group!Roles
      /\ joined[i] = Group!None /\ u # Group!None
  BY DEF Group!IInv, Group!TypeOK, Group!MembersWereInvited, Group!AcceptInvitation,
         Group!TeamConstants
<1>2. /\ members' = [members EXCEPT ![u] = invitations[i].role]
      /\ joined' = [joined EXCEPT ![i] = u]
      /\ invitations' = [invitations EXCEPT ![i].status = "accepted"]
  BY DEF Group!AcceptInvitation, Group!Accepted
<1>3. Group!TypeOK'
  BY <1>1, <1>2 DEF Group!TypeOK
<1>4. Crew.owner \in Group!Member'
  <2>1. \A v \in Crew.users : members'[v] = IF v = u THEN invitations[i].role ELSE members[v]
    BY <1>1, <1>2 DEF Group!TypeOK
  <2> QED
    BY <1>1, <2>1 DEF Group!IInv, Group!MembersWereInvited, Group!Member, Group!Roles, Group!None
<1>5. ASSUME NEW v \in Group!Member' \ {Crew.owner}
      PROVE  \E k \in Crew.invitations : joined'[k] = v
  <2>1. v \in Crew.users
    BY DEF Group!Member
  <2>2. CASE v = u
    BY <1>1, <1>2, <2>2 DEF Group!TypeOK
  <2>3. CASE v # u
    <3>1. v \in Group!Member
      BY <1>1, <1>2, <2>1, <2>3 DEF Group!Member, Group!TypeOK
    <3>2. PICK k \in Crew.invitations : joined[k] = v
      BY <3>1 DEF Group!IInv, Group!MembersWereInvited
    <3>3. k # i
      BY <1>1, <3>1, <3>2, <2>1 DEF Group!TeamConstants
    <3> QED
      BY <1>1, <1>2, <3>2, <3>3 DEF Group!TypeOK
  <2> QED
    BY <2>2, <2>3
<1>6. \A k \in Crew.invitations : joined'[k] # Group!None <=> invitations'[k].status = "accepted"
  BY <1>1, <1>2 DEF Group!IInv, Group!TypeOK, Group!MembersWereInvited
<1>7. \A k \in Crew.invitations : invitations'[k].status = "open" => invitations'[k].role # Group!None
  BY <1>1, <1>2 DEF Group!IInv, Group!TypeOK
<1> QED
  BY <1>3, <1>4, <1>5, <1>6, <1>7 DEF Group!IInv, Group!MembersWereInvited

\* Neither a removal nor a change of role is about the owner or makes a member.
LEMMA MemberKeeps ==
    ASSUME Group!IInv, NEW u \in Crew.users, NEW role \in Group!Roles \cup {Group!None},
           u # Crew.owner, u \in Group!Member, members' = [members EXCEPT ![u] = role],
           UNCHANGED <<invitations, joined>>
    PROVE  Group!IInv'
<1>1. Group!TypeOK'
  BY DEF Group!IInv, Group!TypeOK
<1>2. Group!Member' \subseteq Group!Member /\ (Crew.owner \in Group!Member => Crew.owner \in Group!Member')
  BY DEF Group!IInv, Group!TypeOK, Group!Member
<1> QED
  BY <1>1, <1>2 DEF Group!IInv, Group!MembersWereInvited

\* Through any sequence of invitations, removals and changes of roles the creator of a team
\* stays a member and everyone else came by an invitation of his own, for any users and limit.
THEOREM MembersWereAlwaysInvited == ServicesSpec => []MembersWereInvited
<1>0. Group!TeamConstants
  BY ServicesConstants
<1>1. ServicesInit => Group!IInv
  BY <1>0 DEF ServicesInit, Group!Init, Group!IInv, Group!TypeOK, Group!MembersWereInvited,
              Group!Member, Group!Roles, Group!None, Group!TeamConstants
<1>2. Group!IInv /\ [ServicesNext]_serviceVars => Group!IInv'
  <2> SUFFICES ASSUME Group!IInv, [ServicesNext]_serviceVars PROVE Group!IInv'
    OBVIOUS
  <2>1. CASE Group!Next
    <3>1. ASSUME NEW u \in Crew.users, NEW by \in Crew.users, Group!RemoveMember(u, by)
          PROVE  Group!IInv'
      BY <3>1, MemberKeeps DEF Group!RemoveMember
    <3>2. ASSUME NEW u \in Crew.users, NEW role \in Group!Roles, NEW by \in Crew.users,
                 Group!ChangeRole(u, role, by)
          PROVE  Group!IInv'
      BY <3>2, MemberKeeps DEF Group!ChangeRole
    <3> QED
      BY <1>0, <2>1, <3>1, <3>2, InviteKeeps, ExpiryKeeps, AcceptanceKeeps DEF Group!Next
  <2>2. CASE UNCHANGED groupVars
    BY <2>2 DEF groupVars, Group!IInv, Group!TypeOK, Group!MembersWereInvited, Group!Member
  <2> QED
    BY <2>1, <2>2 DEF ServicesNext, Only, serviceVars
<1>3. Group!IInv => MembersWereInvited
  BY DEF Group!IInv, MembersWereInvited
<1> QED
  BY <1>1, <1>2, <1>3, PTL DEF ServicesSpec

-----------------------------------------------------------------------------
\* Alerts.

\* The invariant is about each alert on its own; that all fit says that this one does.
LEMMA OneAlert ==
    ASSUME Bells!IInv, Bells!TypeOK', now <= now', NEW a \in Bells!Alerts,
           alerts'[a].def = alerts[a].def, alerts'[a].count = alerts[a].count,
           alerts'[a].lastAt = alerts[a].lastAt,
           alerts'[a].status = "none" => alerts[a].status = "none" /\ alerts'[a] = alerts[a],
           notified'[a] = notified[a], closest'[a] = closest[a]
    PROVE  /\ closest'[a] # Bells!Never => closest'[a] >= alerts'[a].def.cooldown
           /\ alerts'[a].def.max > 0 => alerts'[a].count <= alerts'[a].def.max
           /\ notified'[a] <= alerts'[a].count
           /\ alerts'[a].lastAt # Bells!Never => alerts'[a].lastAt <= now'
           /\ alerts'[a].status = "none" =>
                alerts'[a] = Bells!NoAlert /\ notified'[a] = 0 /\ closest'[a] = Bells!Never
<1>1. now \in Int /\ now' \in Int /\ alerts[a].lastAt \in Int
  BY DEF Bells!IInv, Bells!TypeOK, Bells!Never, Bells!NoAlert
<1> QED
  BY <1>1 DEF Bells!IInv, Bells!AlertsKeepTheirPace

\* Types of an alert.
LEMMA AlertTypes ==
    ASSUME Bells!AlertConstants, Bells!TypeOK, NEW a \in Bells!Alerts
    PROVE  /\ now \in Nat /\ now <= Watch.minutes /\ Bells!Never \in Nat /\ now < Bells!Never
           /\ alerts[a].count \in Nat /\ alerts[a].lastAt \in Nat /\ notified[a] \in Nat
           /\ closest[a] \in 0..Bells!Never
           /\ alerts[a].def.cooldown \in Nat /\ alerts[a].def.max \in Nat
<1>1. now \in Nat /\ now <= Watch.minutes /\ Bells!Never \in Nat /\ now < Bells!Never
  BY DEF Bells!AlertConstants, Bells!TypeOK, Bells!Never
<1>2. alerts[a].count \in Nat /\ alerts[a].lastAt \in Nat /\ notified[a] \in Nat
      /\ closest[a] \in 0..Bells!Never /\ alerts[a].def \in Definitions \cup {Bells!NoAlert.def}
  BY DEF Bells!TypeOK
<1>3. Bells!NoAlert.def.cooldown = 0 /\ Bells!NoAlert.def.max = 0
  BY DEF Bells!NoAlert
<1>4. \A d \in Definitions : d.cooldown \in Nat /\ d.max \in Nat
  BY DEF Bells!AlertConstants
<1>5. alerts[a].def.cooldown \in Nat /\ alerts[a].def.max \in Nat
  BY <1>2, <1>3, <1>4
<1> QED
  BY <1>1, <1>2, <1>5

\* An alert that is created has not been triggered.
LEMMA CreationKeeps ==
    ASSUME Bells!AlertConstants, Bells!IInv, NEW a \in Bells!Alerts, NEW def \in Definitions,
           Bells!CreateAlert(a, def)
    PROVE  Bells!IInv'
<1>1. Bells!TypeOK /\ alerts[a] = Bells!NoAlert /\ notified[a] = 0 /\ closest[a] = Bells!Never
      /\ UNCHANGED <<now, notified, closest>>
  BY DEF Bells!IInv, Bells!CreateAlert
<1>2. /\ alerts'[a].def = def /\ alerts'[a].status = "active" /\ alerts'[a].count = 0
      /\ alerts'[a].lastAt = Bells!Never
      /\ \A b \in Bells!Alerts \ {a} : alerts'[b] = alerts[b]
  BY <1>1 DEF Bells!CreateAlert, Bells!TypeOK, Bells!NoAlert
<1>3. Bells!TypeOK'
  <2>1. now \in Nat /\ def.expires \in Nat /\ Bells!Never \in Nat /\ Bells!Never \in 0..Bells!Never
        /\ 0 \in 0..Watch.triggers
    BY <1>1 DEF Bells!TypeOK, Bells!AlertConstants, Bells!Never
  <2>2. (IF def.expires = 0 THEN Bells!Never ELSE now + def.expires) \in Nat
    BY <2>1
  <2> QED
    BY <1>1, <2>1, <2>2 DEF Bells!TypeOK, Bells!CreateAlert, Bells!NoAlert
<1>4. \A b \in Bells!Alerts :
        /\ closest[b] # Bells!Never => closest[b] >= alerts'[b].def.cooldown
        /\ alerts'[b].def.max > 0 => alerts'[b].count <= alerts'[b].def.max
        /\ notified[b] <= alerts'[b].count
        /\ alerts'[b].lastAt # Bells!Never => alerts'[b].lastAt <= now
        /\ alerts'[b].status = "none" =>
             alerts'[b] = Bells!NoAlert /\ notified[b] = 0 /\ closest[b] = Bells!Never
  <2>1. alerts'[a].def.max \in Nat
    BY <1>2 DEF Bells!AlertConstants
  <2> QED
    BY <1>1, <1>2, <2>1 DEF Bells!IInv, Bells!AlertsKeepTheirPace
<1>5. ASSUME \A b \in Bells!Alerts : alerts'[b].def.fits
      PROVE  \A b \in Bells!Alerts : notified[b] = alerts'[b].count
  <2>1. \A b \in Bells!Alerts : alerts[b].def.fits
    BY <1>1, <1>2, <1>5 DEF Bells!NoAlert
  <2> QED
    BY <1>1, <1>2, <2>1 DEF Bells!IInv, Bells!AlertsKeepTheirPace
<1> QED
  BY <1>1, <1>3, <1>4, <1>5 DEF Bells!IInv, Bells!AlertsKeepTheirPace

\* Pauses, resumptions and deletions trigger nothing.
LEMMA StatusKeeps ==
    ASSUME Bells!AlertConstants, Bells!IInv, NEW a \in Bells!Alerts,
           NEW other \in {"paused", "active", "deleted"}, Bells!SetStatus(a, other)
    PROVE  Bells!IInv'
<1>1. Bells!TypeOK /\ UNCHANGED <<now, lastPrice, notified, closest>>
      /\ alerts' = [alerts EXCEPT ![a].status = other]
  BY DEF Bells!IInv, Bells!SetStatus
<1>2. Bells!TypeOK'
  BY <1>1 DEF Bells!TypeOK
<1>3. \A b \in Bells!Alerts :
        /\ alerts'[b].def = alerts[b].def /\ alerts'[b].count = alerts[b].count
        /\ alerts'[b].lastAt = alerts[b].lastAt
        /\ alerts'[b].status = "none" => alerts[b].status = "none" /\ alerts'[b] = alerts[b]
  BY <1>1 DEF Bells!TypeOK
<1>4. now <= now'
  BY <1>1 DEF Bells!TypeOK
<1> QED
  BY <1>1, <1>2, <1>3, <1>4, OneAlert DEF Bells!IInv, Bells!AlertsKeepTheirPace

\* A minute more is a minute more since every trigger.
LEMMA MinuteKeeps ==
    ASSUME Bells!AlertConstants, Bells!IInv, Bells!Minute
    PROVE  Bells!IInv'
<1>1. Bells!TypeOK' /\ now <= now' /\ UNCHANGED <<alerts, lastPrice, notified, closest>>
  BY DEF Bells!IInv, Bells!TypeOK, Bells!Minute, Bells!AlertConstants
<1> QED
  BY <1>1, OneAlert DEF Bells!IInv, Bells!AlertsKeepTheirPace

\* A check triggers what is active and not in its cooldown, and notifies all of it or nothing.
LEMMA CheckKeeps ==
    ASSUME Bells!AlertConstants, Bells!IInv, NEW price \in Watch.prices, Bells!CheckAlerts(price)
    PROVE  Bells!IInv'
<1> DEFINE breaks == {a \in Bells!Alerts : Bells!Fires(a, price) /\ ~alerts[a].def.fits}
           reached == {a \in Bells!Alerts : Bells!Looked(a) /\ \A b \in breaks : a <= b}
           fired == {a \in reached : Bells!Fires(a, price)}
           told == IF breaks = {} THEN fired ELSE {}
<1>1. Bells!TypeOK /\ UNCHANGED now
  BY DEF Bells!IInv, Bells!CheckAlerts
<1>2. /\ \A a \in fired : alerts[a].count < Watch.triggers
      /\ alerts' = [a \in Bells!Alerts |->
           IF a \notin reached THEN alerts[a]
           ELSE [alerts[a] EXCEPT
                   !.previous = alerts[a].last, !.last = price,
                   !.lastAt = IF a \in fired THEN now ELSE @,
                   !.count = IF a \in fired THEN @ + 1 ELSE @]]
      /\ notified' = [a \in Bells!Alerts |-> IF a \in told THEN notified[a] + 1 ELSE notified[a]]
      /\ closest' = [a \in Bells!Alerts |->
           IF a \in fired /\ alerts[a].lastAt # Bells!Never /\ now - alerts[a].lastAt < closest[a]
           THEN now - alerts[a].lastAt ELSE closest[a]]
  BY DEF Bells!CheckAlerts
<1>3. /\ fired \subseteq reached /\ reached \subseteq Bells!Alerts /\ told \subseteq fired
      /\ \A a \in fired : Bells!Looked(a)
      /\ (\A a \in Bells!Alerts : alerts[a].def.fits) => told = fired
  OBVIOUS
<1> HIDE DEF breaks, reached, fired, told
<1>4. \A a \in Bells!Alerts :
        /\ alerts'[a].def = alerts[a].def /\ alerts'[a].status = alerts[a].status
        /\ a \notin fired => /\ alerts'[a].count = alerts[a].count
                             /\ alerts'[a].lastAt = alerts[a].lastAt
                             /\ notified'[a] = notified[a] /\ closest'[a] = closest[a]
        /\ a \in fired => alerts'[a].count = alerts[a].count + 1 /\ alerts'[a].lastAt = now
        /\ notified'[a] = IF a \in told THEN notified[a] + 1 ELSE notified[a]
        /\ a \notin reached => alerts'[a] = alerts[a]
  BY <1>1, <1>2, <1>3 DEF Bells!TypeOK
<1>5. \A a \in fired :
        /\ alerts[a].status = "active"
        /\ alerts[a].def.max > 0 => alerts[a].count < alerts[a].def.max
        /\ alerts[a].lastAt # Bells!Never => ~(now < alerts[a].lastAt + alerts[a].def.cooldown)
  BY <1>3 DEF Bells!Looked, Bells!IsActive, Bells!InCooldown
<1>6. Bells!TypeOK'
  <2>1. /\ now \in 0..Watch.minutes /\ now \in 0..Bells!Never /\ Watch.triggers \in Nat
    BY <1>1 DEF Bells!TypeOK, Bells!AlertConstants, Bells!Never
  <2>2. ASSUME NEW a \in Bells!Alerts
        PROVE  alerts'[a] \in [def : Definitions \cup {Bells!NoAlert.def},
                    status : {"none", "active", "paused", "deleted"}, expiresAt : Nat,
                    last : Watch.prices \cup {Bells!NoPrice},
                    previous : Watch.prices \cup {Bells!NoPrice},
                    count : 0..Watch.triggers, lastAt : 0..Bells!Never]
    <3>1. a \in fired => alerts[a].count + 1 \in 0..Watch.triggers
      <4>1. \A b \in fired : alerts[b].count < Watch.triggers
        BY <1>2
      <4>2. alerts[a].count \in Nat /\ (a \in fired => alerts[a].count < Watch.triggers)
        BY <1>1, <4>1, AlertTypes
      <4>3. Watch.triggers \in Nat
        BY <2>1
      <4> QED
        BY ONLY <4>2, <4>3
    <3> QED
      BY <1>1, <1>2, <2>1, <3>1 DEF Bells!TypeOK
  <2>3. alerts' \in [Bells!Alerts ->
         [def : Definitions \cup {Bells!NoAlert.def},
          status : {"none", "active", "paused", "deleted"}, expiresAt : Nat,
          last : Watch.prices \cup {Bells!NoPrice}, previous : Watch.prices \cup {Bells!NoPrice},
          count : 0..Watch.triggers, lastAt : 0..Bells!Never]]
    BY <1>2, <2>2
  <2>4. notified' \in [Bells!Alerts -> Nat]
    <3>1. \A a \in Bells!Alerts : notified[a] \in Nat /\ notified[a] + 1 \in Nat
      BY <1>1, AlertTypes
    <3> QED
      BY <1>2, <3>1
  <2>5. closest' \in [Bells!Alerts -> 0..Bells!Never]
    <3>1. ASSUME NEW a \in fired, alerts[a].lastAt # Bells!Never, now - alerts[a].lastAt < closest[a]
          PROVE  now - alerts[a].lastAt \in 0..Bells!Never
      <4>1. a \in Bells!Alerts
        BY <1>3
      <4>2. alerts[a].lastAt <= now
        BY <3>1, <4>1 DEF Bells!IInv
      <4> QED
        BY <1>1, <3>1, <4>1, <4>2, AlertTypes
    <3> QED
      BY <1>1, <1>2, <3>1 DEF Bells!TypeOK
  <2> QED
    BY <1>1, <2>3, <2>4, <2>5 DEF Bells!TypeOK
<1>7. ASSUME NEW a \in Bells!Alerts
      PROVE  /\ closest'[a] # Bells!Never => closest'[a] >= alerts'[a].def.cooldown
             /\ alerts'[a].def.max > 0 => alerts'[a].count <= alerts'[a].def.max
             /\ notified'[a] <= alerts'[a].count
             /\ alerts'[a].lastAt # Bells!Never => alerts'[a].lastAt <= now'
             /\ alerts'[a].status = "none" =>
                  alerts'[a] = Bells!NoAlert /\ notified'[a] = 0 /\ closest'[a] = Bells!Never
  <2>1. CASE a \notin fired
    <3>1. alerts[a].status = "none" => a \notin reached
      <4>1. a \in reached => Bells!Looked(a)
        BY DEF reached
      <4> QED
        BY <4>1 DEF Bells!Looked, Bells!IsActive
    <3>2. now <= now'
      BY <1>1 DEF Bells!TypeOK
    <3> QED
      BY <1>4, <1>6, <2>1, <3>1, <3>2, OneAlert
  <2>2. CASE a \in fired
    <3>1. /\ closest[a] # Bells!Never => closest[a] >= alerts[a].def.cooldown
          /\ notified[a] <= alerts[a].count
      BY DEF Bells!IInv, Bells!AlertsKeepTheirPace
    <3>2. /\ now \in Nat /\ now < Bells!Never /\ alerts[a].count \in Nat /\ notified[a] \in Nat
          /\ alerts[a].lastAt \in Nat /\ alerts[a].def.cooldown \in Nat
          /\ alerts[a].def.max \in Nat
          /\ closest[a] \in Int
      BY <1>1, AlertTypes
    <3>3. closest'[a] # Bells!Never => closest'[a] >= alerts'[a].def.cooldown
      <4>1. CASE alerts[a].lastAt # Bells!Never /\ now - alerts[a].lastAt < closest[a]
        <5>1. closest'[a] = now - alerts[a].lastAt
          BY <1>2, <2>2, <4>1
        <5> QED
          BY <1>4, <1>5, <2>2, <3>2, <4>1, <5>1
      <4>2. CASE ~(alerts[a].lastAt # Bells!Never /\ now - alerts[a].lastAt < closest[a])
        <5>1. closest'[a] = closest[a]
          BY <1>2, <4>2
        <5> QED
          BY <1>4, <3>1, <5>1
      <4> QED
        BY <4>1, <4>2
    <3>4. notified'[a] <= alerts'[a].count
      BY <1>4, <2>2, <3>1, <3>2
    <3> QED
      BY <1>1, <1>4, <1>5, <2>2, <3>2, <3>3, <3>4
  <2> QED
    BY <2>1, <2>2
<1>8. ASSUME \A a \in Bells!Alerts : alerts'[a].def.fits
      PROVE  \A a \in Bells!Alerts : notified'[a] = alerts'[a].count
  <2>1. \A a \in Bells!Alerts : alerts[a].def.fits
    BY <1>4, <1>8
  <2>2. \A a \in Bells!Alerts : notified[a] = alerts[a].count
    BY <2>1 DEF Bells!IInv, Bells!AlertsKeepTheirPace
  <2> QED
    BY <1>3, <1>4, <2>1, <2>2
<1> QED
  BY <1>6, <1>7, <1>8 DEF Bells!IInv, Bells!AlertsKeepTheirPace

\* However alerts are paused, resumed and checked and whatever checks break off: an alert
\* keeps its cooldown and its number of triggers, and a trigger is notified at most once.
THEOREM AlertsAlwaysKeepTheirPace == ServicesSpec => []AlertsKeepTheirPace
<1>0. Bells!AlertConstants
  BY ServicesConstants
<1>1. ServicesInit => Bells!IInv
  <2> SUFFICES ASSUME Bells!Init PROVE Bells!IInv
    BY DEF ServicesInit
  <2>1. Bells!Never \in Nat /\ Bells!Never \in 0..Bells!Never /\ 0 \in 0..Watch.triggers
        /\ 0 \in 0..Watch.minutes
    BY <1>0 DEF Bells!AlertConstants, Bells!Never
  <2>2. Bells!TypeOK
    BY <2>1 DEF Bells!Init, Bells!TypeOK, Bells!NoAlert
  <2> QED
    BY <2>2 DEF Bells!Init, Bells!IInv, Bells!AlertsKeepTheirPace, Bells!NoAlert
<1>2. Bells!IInv /\ [ServicesNext]_serviceVars => Bells!IInv'
  <2> SUFFICES ASSUME Bells!IInv, [ServicesNext]_serviceVars PROVE Bells!IInv'
    OBVIOUS
  <2>1. CASE Bells!Next
    BY <1>0, <2>1, CreationKeeps, StatusKeeps, MinuteKeeps, CheckKeeps
    DEF Bells!Next, Bells!PauseAlert, Bells!ResumeAlert, Bells!DeleteAlert
  <2>2. CASE UNCHANGED alertVars
    BY <2>2 DEF alertVars, Bells!IInv, Bells!TypeOK, Bells!AlertsKeepTheirPace
  <2> QED
    BY <2>1, <2>2 DEF ServicesNext, Only, serviceVars
<1>3. Bells!IInv => AlertsKeepTheirPace
  BY DEF Bells!IInv, AlertsKeepTheirPace
<1> QED
  BY <1>1, <1>2, <1>3, PTL DEF ServicesSpec

-----------------------------------------------------------------------------
\* The payment limits and the gateway.

\* Flows are counted like all others.
LEMMA SameFlowCount ==
    \A S : /\ Allowed!IsFiniteSet(S) <=> IsFiniteSet(S)
           /\ Allowed!Cardinality(S) = Cardinality(S)
<1>1. \A S : Allowed!IsFiniteSet(S) <=> IsFiniteSet(S)
  BY Zenon DEF Allowed!IsFiniteSet, IsFiniteSet
<1>2. \A S : Allowed!Cardinality(S) = Cardinality(S)
  BY Zenon DEF Allowed!Cardinality, Cardinality
<1> QED
  BY <1>1, <1>2

\* The largest amount, and what all flows may carry.
LEMMA LargestAmount ==
    ASSUME Allowed!LimitConstants
    PROVE  /\ Allowed!Largest \in Nat /\ Allowed!Lost \in Nat
           /\ \A a \in Amounts \cup {0} : a \in Nat /\ a <= Allowed!Largest
           /\ Allowed!Largest <= Allowed!Lost
<1>1. PICK a \in Amounts : \A b \in Amounts : b <= a
  BY DEF Allowed!LimitConstants
<1>2. Allowed!Largest \in Amounts /\ \A b \in Amounts : b <= Allowed!Largest
  BY <1>1 DEF Allowed!Largest
<1>3. Allowed!Largest \in Nat
  BY <1>2 DEF Allowed!LimitConstants
<1>4. \A b \in Amounts \cup {0} : b \in Nat /\ b <= Allowed!Largest
  BY <1>2, <1>3 DEF Allowed!LimitConstants
<1>5. Cardinality(Flows) \in Nat \ {0}
  BY SameFlowCount, FS_CardinalityType, FS_EmptySet DEF Allowed!LimitConstants
<1>6. Allowed!Lost = Cardinality(Flows) * Allowed!Largest
  BY SameFlowCount DEF Allowed!Lost
<1>7. \A n \in Nat \ {0}, w \in Nat : n * w \in Nat /\ w <= n * w
  <2>1. \A n \in Nat, w \in Nat : n * w \in Nat
    OBVIOUS
  <2>2. ASSUME NEW n \in Nat \ {0}, NEW w \in Nat
        PROVE  w <= n * w
    <3>1. n * w = (n - 1) * w + w
      OBVIOUS
    <3>2. (n - 1) * w \in Nat
      BY <2>1
    <3> QED
      BY <3>1, <3>2
  <2> QED
    BY <2>1, <2>2
<1> QED
  BY <1>3, <1>4, <1>5, <1>6, <1>7

\* What flows may carry at most grows by the largest amount with each.
LEMMA FlowsCarry ==
    ASSUME Allowed!LimitConstants, NEW S, S \subseteq Flows
    PROVE  /\ Allowed!AtMost(S) \in Nat /\ Allowed!AtMost(S) <= Allowed!Lost
           /\ \A c \in S : Allowed!AtMost(S) = Allowed!AtMost(S \ {c}) + Allowed!Largest
           /\ \A c \in Flows \ S : Allowed!AtMost(S) <= Allowed!Lost - Allowed!Largest
<1> DEFINE L == Allowed!Largest
<1>1. L \in Nat /\ Allowed!Lost = Cardinality(Flows) * L
  BY LargestAmount, SameFlowCount DEF Allowed!Lost
<1>2. IsFiniteSet(S) /\ Cardinality(S) \in Nat /\ Cardinality(Flows) \in Nat /\ IsFiniteSet(Flows)
      /\ Cardinality(S) <= Cardinality(Flows)
  BY SameFlowCount, FS_Subset, FS_CardinalityType DEF Allowed!LimitConstants
<1>3. \A T : Allowed!AtMost(T) = Cardinality(T) * L
  BY SameFlowCount DEF Allowed!AtMost
<1> HIDE DEF L
<1>4. ASSUME NEW m \in Nat, NEW n \in Nat, m <= n
      PROVE  m * L \in Nat /\ m * L <= n * L
  BY <1>1, <1>4
<1>5. ASSUME NEW n \in Nat
      PROVE  (n + 1) * L = n * L + L
  BY <1>1, <1>5
<1>6. ASSUME NEW c \in S
      PROVE  Allowed!AtMost(S) = Allowed!AtMost(S \ {c}) + L
  <2>1. Cardinality(S \ {c}) = Cardinality(S) - 1 /\ Cardinality(S \ {c}) \in Nat
    BY <1>2, FS_RemoveElement, FS_CardinalityType
  <2>2. Cardinality(S) = Cardinality(S \ {c}) + 1
    BY <1>2, <2>1
  <2> QED
    BY <1>3, <1>5, <2>1, <2>2
<1>7. ASSUME NEW c \in Flows \ S
      PROVE  Allowed!AtMost(S) <= Allowed!Lost - L
  <2>1. IsFiniteSet(S \cup {c}) /\ Cardinality(S \cup {c}) = Cardinality(S) + 1
        /\ Cardinality(S \cup {c}) <= Cardinality(Flows)
    BY <1>2, FS_AddElement, FS_Subset
  <2>2. (Cardinality(S) + 1) * L <= Cardinality(Flows) * L
    BY <1>2, <1>4, <2>1
  <2>3. (Cardinality(S) + 1) * L = Cardinality(S) * L + L
    BY <1>2, <1>5
  <2>4. Cardinality(S) * L \in Nat /\ Cardinality(Flows) * L \in Nat
    BY <1>2, <1>4
  <2> QED
    BY <1>1, <1>3, <2>2, <2>3, <2>4
<1> QED
  BY <1>1, <1>2, <1>3, <1>4, <1>6, <1>7 DEF L

\* A flow that ends is no longer busy, the others are.
LEMMA FlowEnds ==
    ASSUME NEW flights \in [Flows -> Nat], NEW c \in Flows, flights[c] > 0
    PROVE  LET after == [flights EXCEPT ![c] = 0]
           IN  /\ Allowed!Busy(after) = Allowed!Busy(flights) \ {c}
               /\ c \in Allowed!Busy(flights)
               /\ \A d \in Allowed!Busy(after) : after[d] = flights[d]
  BY DEF Allowed!Busy

\* A flow that begins is busy if it carries anything.
LEMMA FlowBegins ==
    ASSUME NEW flights \in [Flows -> Nat], NEW c \in Flows, flights[c] = 0, NEW a \in Nat
    PROVE  LET after == [flights EXCEPT ![c] = a]
           IN  /\ Allowed!Busy(after) = Allowed!Busy(flights) \cup (IF a > 0 THEN {c} ELSE {})
               /\ c \notin Allowed!Busy(flights)
               /\ after[c] = a
  BY DEF Allowed!Busy

\* What is recorded was covered when it was validated; a flow that fails records nothing.
LEMMA EndIsCovered ==
    ASSUME Allowed!LimitConstants, NEW flights \in [Flows -> Amounts \cup {0}], NEW c \in Flows,
           flights[c] > 0, NEW booked \in Nat, NEW limit \in Nat,
           Allowed!Covered(flights, booked, limit), NEW paid \in {0, flights[c]}
    PROVE  Allowed!Covered([flights EXCEPT ![c] = 0], booked + paid, limit)
<1> DEFINE after == [flights EXCEPT ![c] = 0]
           busy == Allowed!Busy(flights)
           bound == limit + 2 * Allowed!Lost - Allowed!Largest
           L == Allowed!Largest
<1>1. flights \in [Flows -> Nat] /\ L \in Nat /\ Allowed!Lost \in Nat /\ bound \in Int
      /\ \A d \in Flows : flights[d] \in Nat /\ flights[d] <= L
  BY LargestAmount
<1>2. Allowed!Busy(after) = busy \ {c} /\ c \in busy /\ busy \subseteq Flows
      /\ \A d \in busy \ {c} : after[d] = flights[d]
  BY <1>1, FlowEnds DEF Allowed!Busy
<1>3. /\ Allowed!AtMost(busy) \in Nat /\ Allowed!AtMost(busy \ {c}) \in Nat
      /\ Allowed!AtMost(busy) = Allowed!AtMost(busy \ {c}) + L
  BY <1>2, FlowsCarry
<1>4. paid \in Nat /\ paid <= flights[c] /\ paid <= L /\ booked \in Nat
  BY <1>1
<1>5. \/ booked + Allowed!AtMost(busy) <= bound
      \/ \E d \in busy : booked + flights[d] + Allowed!AtMost(busy \ {d}) <= bound
  BY DEF Allowed!Covered
<1> HIDE DEF after, busy, bound, L
<1>6. CASE booked + Allowed!AtMost(busy) <= bound
  <2>1. booked + paid + Allowed!AtMost(busy \ {c}) <= bound
    BY <1>1, <1>3, <1>4, <1>6
  <2> QED
    BY <1>2, <2>1 DEF Allowed!Covered, after, bound, L
<1>7. ASSUME NEW d \in busy, booked + flights[d] + Allowed!AtMost(busy \ {d}) <= bound
      PROVE  Allowed!Covered(after, booked + paid, limit)
  <2>1. CASE d = c
    <3>1. booked + paid + Allowed!AtMost(busy \ {c}) <= bound
      <4>1. flights[c] \in Nat
        BY <1>1
      <4> QED
        BY <1>1, <1>3, <1>4, <1>7, <2>1, <4>1
    <3> QED
      BY <1>2, <3>1 DEF Allowed!Covered, after, bound, L
  <2>2. CASE d # c
    <3>1. /\ Allowed!AtMost(busy \ {d}) = Allowed!AtMost((busy \ {d}) \ {c}) + L
          /\ Allowed!AtMost((busy \ {d}) \ {c}) \in Nat
      BY <1>2, <2>2, FlowsCarry DEF L
    <3>2. (busy \ {d}) \ {c} = (busy \ {c}) \ {d} /\ d \in busy \ {c} /\ after[d] = flights[d]
          /\ flights[d] \in Nat
      BY <1>1, <1>2, <2>2
    <3>3. booked + paid + after[d] + Allowed!AtMost((busy \ {c}) \ {d}) <= bound
      BY <1>1, <1>4, <1>7, <3>1, <3>2
    <3> QED
      BY <1>2, <3>2, <3>3 DEF Allowed!Covered, after, bound, L
  <2> QED
    BY <2>1, <2>2
<1> QED
  BY <1>5, <1>6, <1>7 DEF after

\* A payment that begins takes its id over from whoever had it in the same second.
LEMMA BeginKeeps ==
    ASSUME Till!GatewayConstants, Till!IInv, NEW r \in Requests, NEW u \in Members,
           NEW a \in Deposits, NEW kind \in Till!Kinds, NEW begun \in {"INITIATED", "PENDING"},
           Till!Begin(r, u, a, kind, begun)
    PROVE  Till!IInv'
<1> DEFINE id == <<kind, second>>
           payment == [user |-> u, amount |-> a, net |-> a - Till!Fee, status |-> begun]
           receipt == [user |-> u, amount |-> a, kind |-> kind, at |-> second, id |-> id]
<1>1. /\ Till!TypeOK /\ answered \in [Till!PaymentIds -> Till!Answers \cup {Till!None}]
      /\ receipts[r].id = Till!NoId /\ UNCHANGED second
      /\ payments' = [payments EXCEPT ![id] = payment]
      /\ receipts' = [receipts EXCEPT ![r] = receipt]
      /\ answered' = [answered EXCEPT ![id] = Till!None]
  BY DEF Till!IInv, Till!Begin, Till!PaymentId
<1>2. /\ second \in 1..Seconds /\ id \in Till!PaymentIds /\ a \in Nat /\ a - Till!Fee \in Int
      /\ second \in 0..Seconds /\ id # Till!NoId
  <2>1. second \in 1..Seconds /\ a \in Nat /\ Till!Fee \in Int
    BY <1>1 DEF Till!TypeOK, Till!GatewayConstants, Till!Fee
  <2> QED
    BY <2>1 DEF Till!PaymentIds, Till!NoId, Till!None, Till!GatewayConstants
<1> HIDE DEF id
<1>3. Till!TypeOK' /\ answered' \in [Till!PaymentIds -> Till!Answers \cup {Till!None}]
  <2>1. payment \in [user : Members \cup {Till!None}, amount : Nat, net : Int,
                     status : Till!Answers \cup {"INITIATED", "PENDING", Till!None}]
    BY <1>2
  <2>2. receipt \in [user : Members \cup {Till!None}, amount : Nat, kind : Till!Kinds \cup {Till!None},
                     at : 0..Seconds, id : Till!PaymentIds \cup {Till!NoId}]
    BY <1>2
  <2> HIDE DEF payment, receipt
  <2> QED
    BY <1>1, <1>2, <2>1, <2>2 DEF Till!TypeOK
<1>4. /\ receipts'[r] = receipt /\ payments'[id] = payment /\ answered'[id] = Till!None
      /\ \A q \in Requests \ {r} : receipts'[q] = receipts[q]
      /\ \A i \in Till!PaymentIds \ {id} : payments'[i] = payments[i] /\ answered'[i] = answered[i]
  BY <1>1, <1>2 DEF Till!TypeOK
<1>5. \A q \in Requests : Till!Given(q)' =>
        receipts'[q].id \in Till!PaymentIds /\ receipts'[q].id = <<receipts'[q].kind, receipts'[q].at>>
  <2>1. \A q \in Requests : receipts[q].id \in Till!PaymentIds \cup {Till!NoId}
    BY <1>1 DEF Till!TypeOK
  <2> QED
    BY <1>2, <1>4, <2>1 DEF Till!IInv, Till!Given, id
<1>6. ASSUME NEW q \in Requests, Till!Given(q)'
      PROVE  /\ \E w \in Requests : /\ receipts'[w].id = receipts'[q].id
                                    /\ Till!Found(q)'.user = receipts'[w].user
                                    /\ Till!Found(q)'.amount = receipts'[w].amount
             /\ answered'[receipts'[q].id] # Till!None =>
                  Till!Found(q)'.status = answered'[receipts'[q].id]
  <2>1. CASE receipts'[q].id = id
    BY <1>4, <2>1 DEF Till!Found
  <2>2. CASE receipts'[q].id # id
    <3>1. q # r /\ receipts'[q] = receipts[q] /\ Till!Given(q) /\ receipts[q].id \in Till!PaymentIds \ {id}
      BY <1>4, <1>5, <1>6, <2>2 DEF Till!Given
    <3>2. Till!Found(q)' = Till!Found(q) /\ answered'[receipts'[q].id] = answered[receipts[q].id]
      BY <1>4, <3>1 DEF Till!Found
    <3>3. PICK w \in Requests : /\ receipts[w].id = receipts[q].id
                                /\ Till!Found(q).user = receipts[w].user
                                /\ Till!Found(q).amount = receipts[w].amount
      BY <3>1 DEF Till!IInv, Till!ReceiptsLeadHome
    <3>4. w # r
      BY <1>1, <3>1, <3>3 DEF Till!Given
    <3>5. receipts'[w] = receipts[w]
      BY <1>4, <3>4
    <3>6. answered[receipts[q].id] # Till!None => Till!Found(q).status = answered[receipts[q].id]
      BY <3>1 DEF Till!IInv, Till!ReceiptsLeadHome
    <3> QED
      BY <3>1, <3>2, <3>3, <3>5, <3>6
  <2> QED
    BY <2>1, <2>2
<1>7. ASSUME NEW q \in Requests, Till!Given(q)', Till!Alone(q)'
      PROVE  Till!Found(q)'.user = receipts'[q].user /\ Till!Found(q)'.amount = receipts'[q].amount
  <2>1. PICK w \in Requests : /\ receipts'[w].id = receipts'[q].id
                              /\ Till!Found(q)'.user = receipts'[w].user
                              /\ Till!Found(q)'.amount = receipts'[w].amount
    BY <1>6, <1>7
  <2>2. Till!Given(w)'
    BY <1>7, <2>1 DEF Till!Given
  <2>3. w = q
    BY <1>5, <1>7, <2>1, <2>2 DEF Till!Alone
  <2> QED
    BY <2>1, <2>3
<1> QED
  BY <1>3, <1>5, <1>6, <1>7 DEF Till!IInv, Till!ReceiptsLeadHome

\* An answer changes the begun found under an id and nothing else.
LEMMA ConfirmationKeeps ==
    ASSUME Till!IInv, NEW i \in Till!PaymentIds, NEW answer \in Till!Answers,
           Till!ConfirmPayment(i, answer)
    PROVE  Till!IInv'
<1>1. /\ Till!TypeOK /\ answered \in [Till!PaymentIds -> Till!Answers \cup {Till!None}]
      /\ payments' = [payments EXCEPT ![i].status = answer]
      /\ answered' = [answered EXCEPT ![i] = answer] /\ UNCHANGED <<second, receipts>>
  BY DEF Till!IInv, Till!ConfirmPayment
<1>2. Till!TypeOK' /\ answered' \in [Till!PaymentIds -> Till!Answers \cup {Till!None}]
  BY <1>1 DEF Till!TypeOK
<1>3. \A k \in Till!PaymentIds :
        /\ payments'[k].user = payments[k].user /\ payments'[k].amount = payments[k].amount
        /\ IF k = i THEN payments'[k].status = answer /\ answered'[k] = answer
           ELSE payments'[k].status = payments[k].status /\ answered'[k] = answered[k]
  BY <1>1 DEF Till!TypeOK
<1>4. \A r \in Requests : Till!Given(r) => receipts[r].id \in Till!PaymentIds
  BY <1>1 DEF Till!TypeOK, Till!Given
<1> QED
  BY <1>1, <1>2, <1>3, <1>4
  DEF Till!IInv, Till!ReceiptsLeadHome, Till!Given, Till!Alone, Till!Found

\* What was validated last is within the limit, whatever a check has forgotten before.
LEMMA BeginIsCovered ==
    ASSUME Allowed!LimitConstants, NEW flights \in [Flows -> Amounts \cup {0}], NEW c \in Flows,
           flights[c] = 0, NEW booked \in Nat, NEW counted \in Nat, NEW limit \in Nat,
           NEW a \in Amounts, a > 0, booked <= counted + Allowed!Lost, counted + a <= limit
    PROVE  Allowed!Covered([flights EXCEPT ![c] = a], booked, limit)
<1> DEFINE after == [flights EXCEPT ![c] = a]
           busy == Allowed!Busy(flights)
           L == Allowed!Largest
<1>1. flights \in [Flows -> Nat] /\ L \in Nat /\ Allowed!Lost \in Nat /\ a \in Nat
  BY LargestAmount
<1>2. Allowed!Busy(after) = busy \cup {c} /\ c \notin busy /\ busy \subseteq Flows /\ after[c] = a
  BY <1>1, FlowBegins DEF Allowed!Busy
<1>3. Allowed!AtMost(busy) \in Nat /\ Allowed!AtMost(busy) <= Allowed!Lost - L
  BY <1>2, FlowsCarry
<1> HIDE DEF after, busy, L
<1>4. booked + a + Allowed!AtMost(busy) <= limit + 2 * Allowed!Lost - L
  BY <1>1, <1>3
<1>5. Allowed!Busy(after) \ {c} = busy /\ c \in Allowed!Busy(after)
  BY <1>2
<1> QED
  BY <1>2, <1>4, <1>5 DEF Allowed!Covered, L, after

\* When nothing is recorded yet, flows that are under way are covered.
LEMMA NothingRecorded ==
    ASSUME Allowed!LimitConstants, NEW flights \in [Flows -> Amounts \cup {0}], NEW limit \in Nat,
           NEW counted \in Nat, NEW checked
    PROVE  Allowed!Covered(flights, 0, limit) /\ Allowed!Forgotten(flights, 0, counted, checked)
<1>1. Allowed!Busy(flights) \subseteq Flows
  BY DEF Allowed!Busy
<1>2. /\ Allowed!AtMost(Allowed!Busy(flights)) \in Nat /\ Allowed!Lost \in Nat
      /\ Allowed!AtMost(Allowed!Busy(flights)) <= Allowed!Lost
      /\ Allowed!Largest \in Nat /\ Allowed!Largest <= Allowed!Lost
  BY <1>1, FlowsCarry, LargestAmount
<1> QED
  BY <1>2 DEF Allowed!Covered, Allowed!Forgotten

\* What is recorded is counted, or was under way before the first check.
LEMMA EndIsCounted ==
    ASSUME Allowed!LimitConstants, NEW flights \in [Flows -> Amounts \cup {0}], NEW c \in Flows,
           flights[c] > 0, NEW booked \in Nat, NEW counted \in Nat, NEW paid \in {0, flights[c]}
    PROVE  /\ booked <= counted + Allowed!Lost => booked + paid <= counted + paid + Allowed!Lost
           /\ booked + Allowed!AtMost(Allowed!Busy(flights)) <= Allowed!Lost =>
                booked + paid + Allowed!AtMost(Allowed!Busy([flights EXCEPT ![c] = 0])) <= Allowed!Lost
<1> DEFINE after == [flights EXCEPT ![c] = 0]
           busy == Allowed!Busy(flights)
           L == Allowed!Largest
<1>1. flights \in [Flows -> Nat] /\ L \in Nat /\ Allowed!Lost \in Nat
      /\ paid \in Nat /\ paid <= L
  BY LargestAmount
<1>2. Allowed!Busy(after) = busy \ {c} /\ c \in busy /\ busy \subseteq Flows
  BY <1>1, FlowEnds DEF Allowed!Busy
<1>3. /\ Allowed!AtMost(busy) \in Nat /\ Allowed!AtMost(busy \ {c}) \in Nat
      /\ Allowed!AtMost(busy) = Allowed!AtMost(busy \ {c}) + L
  BY <1>2, FlowsCarry
<1> HIDE DEF after, busy, L
<1>4. booked <= counted + Allowed!Lost => booked + paid <= counted + paid + Allowed!Lost
  BY <1>1
<1>5. booked + Allowed!AtMost(busy) <= Allowed!Lost =>
        booked + paid + Allowed!AtMost(Allowed!Busy(after)) <= Allowed!Lost
  BY <1>1, <1>2, <1>3
<1> QED
  BY <1>4, <1>5 DEF after, busy

\* Limits are natural numbers, and so is all that is counted.
LEMMA LimitTypes ==
    ASSUME Allowed!LimitConstants, Allowed!TypeOK
    PROVE  /\ limits.level \in Nat /\ limits.daily \in Nat /\ limits.monthly \in Nat
           /\ bookedToday \in Nat /\ bookedMonth \in Nat
           /\ \A l \in Kyc.levels : Allowed!DailyLimit(l) \in Nat /\ Allowed!MonthlyLimit(l) \in Nat
           /\ Allowed!DailyLimit(limits.level) \in Nat
           /\ Allowed!MonthlyLimit(limits.level) \in Nat
<1>1. limits.level \in Kyc.levels /\ limits.daily \in Nat /\ limits.monthly \in Nat
      /\ bookedToday \in Nat /\ bookedMonth \in Nat
  BY DEF Allowed!TypeOK
<1>2. \A l \in Kyc.levels : l \in Nat /\ 2 * l \in Nat
  BY DEF Allowed!LimitConstants
<1>3. \A m \in Nat, n \in Nat : m * n \in Nat
  OBVIOUS
<1>4. Kyc.worth \in Nat
  BY DEF Allowed!LimitConstants
<1> QED
  BY <1>1, <1>2, <1>3, <1>4 DEF Allowed!DailyLimit, Allowed!MonthlyLimit

\* Another level begins with nothing used; what is under way is covered by twice all flows.
LEMMA LevelKeeps ==
    ASSUME Allowed!LimitConstants, Allowed!IInv, NEW chosen \in Kyc.levels,
           Allowed!SetKycLevel(chosen)
    PROVE  Allowed!IInv'
<1>1. /\ Allowed!TypeOK /\ UNCHANGED <<today, failures, inFlight>> /\ bookedToday' = 0
      /\ bookedMonth' = 0
      /\ limits' = [level |-> chosen, daily |-> 0, monthly |-> 0, lastReset |-> today]
  BY DEF Allowed!IInv, Allowed!SetKycLevel, Allowed!Fresh
<1>2. Allowed!TypeOK'
  BY <1>1 DEF Allowed!TypeOK
<1>3. inFlight \in [Flows -> Amounts \cup {0}]
  BY <1>1 DEF Allowed!TypeOK
<1>4. Allowed!DailyLimit(chosen) \in Nat /\ Allowed!MonthlyLimit(chosen) \in Nat
  BY <1>1, LimitTypes
<1>5. /\ Allowed!Covered(inFlight, 0, Allowed!DailyLimit(chosen))
      /\ Allowed!Covered(inFlight, 0, Allowed!MonthlyLimit(chosen))
      /\ \A checked : Allowed!Forgotten(inFlight, 0, 0, checked)
  BY <1>3, <1>4, NothingRecorded
<1> QED
  BY <1>1, <1>2, <1>5 DEF Allowed!IInv

\* A check resets what is counted, and admits what fits the limits then.
LEMMA ValidationKeeps ==
    ASSUME Allowed!LimitConstants, Allowed!IInv, NEW c \in Flows, NEW a \in Amounts,
           Allowed!ValidateTransaction(c, a)
    PROVE  Allowed!IInv'
<1>1. /\ Allowed!TypeOK /\ inFlight[c] = 0 /\ limits' = Allowed!ResetIfNeeded
      /\ UNCHANGED <<today, failures, bookedToday, bookedMonth>>
  BY DEF Allowed!IInv, Allowed!ValidateTransaction
<1>2. /\ inFlight \in [Flows -> Amounts \cup {0}] /\ today \in 0..Kyc.last
      /\ bookedToday \in Nat /\ bookedMonth \in Nat
      /\ limits \in [level : Kyc.levels, daily : Nat, monthly : Nat, lastReset : 0..Kyc.last]
  BY <1>1 DEF Allowed!TypeOK
<1>3. /\ limits'.level = limits.level /\ limits'.lastReset = today
      /\ limits'.daily = IF limits.lastReset # today THEN 0 ELSE limits.daily
      /\ limits'.monthly = IF Allowed!Month(limits.lastReset) # Allowed!Month(today) THEN 0
                           ELSE limits.monthly
      /\ limits' \in [level : Kyc.levels, daily : Nat, monthly : Nat, lastReset : 0..Kyc.last]
  BY <1>1, <1>2 DEF Allowed!ResetIfNeeded
<1>4. Allowed!AtMost(Allowed!Busy(inFlight)) \in Nat /\ Allowed!Lost \in Nat
  <2>1. Allowed!Busy(inFlight) \subseteq Flows
    BY DEF Allowed!Busy
  <2> QED
    BY <2>1, FlowsCarry, LargestAmount
<1>5. bookedToday <= limits'.daily + Allowed!Lost
  <2>1. IF limits.lastReset = today THEN bookedToday <= limits.daily + Allowed!Lost
        ELSE bookedToday + Allowed!AtMost(Allowed!Busy(inFlight)) <= Allowed!Lost
    BY DEF Allowed!IInv, Allowed!Forgotten
  <2> QED
    BY <1>2, <1>3, <1>4, <2>1
<1>6. bookedMonth <= limits'.monthly + Allowed!Lost
  <2>1. IF Allowed!Month(limits.lastReset) = Allowed!Month(today)
        THEN bookedMonth <= limits.monthly + Allowed!Lost
        ELSE bookedMonth + Allowed!AtMost(Allowed!Busy(inFlight)) <= Allowed!Lost
    BY DEF Allowed!IInv, Allowed!Forgotten
  <2> QED
    BY <1>2, <1>3, <1>4, <2>1
<1>7. /\ Allowed!Covered(inFlight, bookedToday, Allowed!DailyLimit(limits.level))
      /\ Allowed!Covered(inFlight, bookedMonth, Allowed!MonthlyLimit(limits.level))
  BY DEF Allowed!IInv
<1>8. inFlight' \in [Flows -> Amounts \cup {0}]
      /\ Allowed!Covered(inFlight', bookedToday, Allowed!DailyLimit(limits.level))
      /\ Allowed!Covered(inFlight', bookedMonth, Allowed!MonthlyLimit(limits.level))
  <2>1. CASE inFlight' = inFlight
    BY <1>2, <1>7, <2>1
  <2>2. CASE inFlight' = [inFlight EXCEPT ![c] = a] /\ Allowed!WithinLimits(a, limits') /\ a > 0
    <3>1. /\ limits'.daily + a <= Allowed!DailyLimit(limits.level)
          /\ limits'.monthly + a <= Allowed!MonthlyLimit(limits.level)
      BY <1>3, <2>2 DEF Allowed!WithinLimits
    <3>2. /\ limits'.daily \in Nat /\ limits'.monthly \in Nat
          /\ Allowed!DailyLimit(limits.level) \in Nat
          /\ Allowed!MonthlyLimit(limits.level) \in Nat
      BY <1>1, <1>3, LimitTypes
    <3>3. Allowed!Covered(inFlight', bookedToday, Allowed!DailyLimit(limits.level))
      BY <1>1, <1>2, <1>5, <2>2, <3>1, <3>2, BeginIsCovered
    <3>4. Allowed!Covered(inFlight', bookedMonth, Allowed!MonthlyLimit(limits.level))
      BY <1>1, <1>2, <1>6, <2>2, <3>1, <3>2, BeginIsCovered
    <3> QED
      BY <1>2, <2>2, <3>3, <3>4
  <2>3. \/ inFlight' = inFlight
        \/ inFlight' = [inFlight EXCEPT ![c] = a] /\ Allowed!WithinLimits(a, limits')
    BY <1>1 DEF Allowed!ValidateTransaction
  <2>4. a \in Nat /\ (a = 0 => [inFlight EXCEPT ![c] = a] = inFlight)
    BY <1>1, <1>2, LargestAmount
  <2> QED
    BY <2>1, <2>2, <2>3, <2>4
<1>9. Allowed!TypeOK'
  BY <1>1, <1>2, <1>3, <1>8 DEF Allowed!TypeOK
<1> QED
  BY <1>1, <1>3, <1>5, <1>6, <1>8, <1>9 DEF Allowed!IInv, Allowed!Forgotten

\* What is recorded is counted by the limits as well, whenever the day began.
LEMMA RecordingOfLimitsKeeps ==
    ASSUME Allowed!LimitConstants, Allowed!IInv, NEW c \in Flows,
           Allowed!RecordTransaction(c)
    PROVE  Allowed!IInv'
<1> DEFINE x == inFlight[c]
<1>1. /\ Allowed!TypeOK /\ x > 0 /\ UNCHANGED <<today, failures>>
      /\ limits' = [limits EXCEPT !.daily = limits.daily + x, !.monthly = limits.monthly + x]
      /\ bookedToday' = bookedToday + x /\ bookedMonth' = bookedMonth + x
      /\ inFlight' = [inFlight EXCEPT ![c] = 0]
  BY DEF Allowed!IInv, Allowed!RecordTransaction
<1>2. /\ inFlight \in [Flows -> Amounts \cup {0}] /\ x \in Nat
      /\ limits \in [level : Kyc.levels, daily : Nat, monthly : Nat, lastReset : 0..Kyc.last]
  BY <1>1, LargestAmount DEF Allowed!TypeOK
<1> HIDE DEF x
<1>3. /\ limits'.level = limits.level /\ limits'.lastReset = limits.lastReset
      /\ limits'.daily = limits.daily + x /\ limits'.monthly = limits.monthly + x
      /\ limits' \in [level : Kyc.levels, daily : Nat, monthly : Nat, lastReset : 0..Kyc.last]
  <2>1. limits.daily + x \in Nat /\ limits.monthly + x \in Nat
    BY <1>2
  <2> QED
    BY ONLY <1>1, <1>2, <2>1
<1>4. Allowed!TypeOK'
  BY <1>1, <1>2, <1>3 DEF Allowed!TypeOK
<1>5. /\ bookedToday \in Nat /\ bookedMonth \in Nat /\ limits.daily \in Nat
      /\ limits.monthly \in Nat
      /\ Allowed!DailyLimit(limits.level) \in Nat /\ Allowed!MonthlyLimit(limits.level) \in Nat
  BY <1>1, LimitTypes
<1>6. /\ Allowed!Covered(inFlight', bookedToday', Allowed!DailyLimit(limits.level))
      /\ Allowed!Covered(inFlight', bookedMonth', Allowed!MonthlyLimit(limits.level))
  BY <1>1, <1>2, <1>5, EndIsCovered DEF Allowed!IInv, x
<1>7. /\ Allowed!Forgotten(inFlight', bookedToday', limits'.daily, limits.lastReset = today)
      /\ Allowed!Forgotten(inFlight', bookedMonth', limits'.monthly,
                           Allowed!Month(limits.lastReset) = Allowed!Month(today))
  BY <1>1, <1>2, <1>3, <1>5, EndIsCounted DEF Allowed!IInv, Allowed!Forgotten, x
<1> QED
  BY <1>1, <1>3, <1>4, <1>6, <1>7 DEF Allowed!IInv

\* A payment that fails records nothing.
LEMMA FailedPaymentKeeps ==
    ASSUME Allowed!LimitConstants, Allowed!IInv, NEW c \in Flows, Allowed!PaymentFails(c)
    PROVE  Allowed!IInv'
<1>1. /\ Allowed!TypeOK /\ inFlight[c] > 0 /\ inFlight' = [inFlight EXCEPT ![c] = 0]
      /\ UNCHANGED <<today, limits, failures, bookedToday, bookedMonth>>
  BY DEF Allowed!IInv, Allowed!PaymentFails
<1>2. inFlight \in [Flows -> Amounts \cup {0}] /\ Allowed!TypeOK'
  BY <1>1 DEF Allowed!TypeOK
<1>3. /\ bookedToday \in Nat /\ bookedMonth \in Nat /\ limits.daily \in Nat
      /\ limits.monthly \in Nat
      /\ Allowed!DailyLimit(limits.level) \in Nat /\ Allowed!MonthlyLimit(limits.level) \in Nat
      /\ bookedToday + 0 = bookedToday /\ bookedMonth + 0 = bookedMonth
      /\ limits.daily + 0 = limits.daily /\ limits.monthly + 0 = limits.monthly
  BY <1>1, LimitTypes
<1>4. /\ Allowed!Covered(inFlight', bookedToday + 0, Allowed!DailyLimit(limits.level))
      /\ Allowed!Covered(inFlight', bookedMonth + 0, Allowed!MonthlyLimit(limits.level))
  BY <1>1, <1>2, <1>3, EndIsCovered DEF Allowed!IInv
<1>5. /\ Allowed!Forgotten(inFlight', bookedToday + 0, limits.daily + 0, limits.lastReset = today)
      /\ Allowed!Forgotten(inFlight', bookedMonth + 0, limits.monthly + 0,
                           Allowed!Month(limits.lastReset) = Allowed!Month(today))
  BY <1>1, <1>2, <1>3, EndIsCounted DEF Allowed!IInv, Allowed!Forgotten
<1> QED
  BY <1>1, <1>2, <1>3, <1>4, <1>5 DEF Allowed!IInv

\* A day begins with nothing recorded; a month goes on or begins with nothing as well.
LEMMA MidnightKeeps ==
    ASSUME Allowed!LimitConstants, Allowed!IInv, Allowed!Midnight
    PROVE  Allowed!IInv'
<1>1. /\ Allowed!TypeOK /\ today' = today + 1 /\ today < Kyc.last /\ bookedToday' = 0
      /\ bookedMonth' = IF Allowed!Month(today + 1) = Allowed!Month(today) THEN bookedMonth ELSE 0
      /\ UNCHANGED <<limits, failures, inFlight>>
  BY DEF Allowed!IInv, Allowed!Midnight
<1>2. inFlight \in [Flows -> Amounts \cup {0}]
  BY <1>1 DEF Allowed!TypeOK
<1>3. Allowed!TypeOK'
  BY <1>1 DEF Allowed!TypeOK, Allowed!LimitConstants
<1>4. /\ limits.daily \in Nat /\ limits.monthly \in Nat
      /\ Allowed!DailyLimit(limits.level) \in Nat /\ Allowed!MonthlyLimit(limits.level) \in Nat
  BY <1>1, LimitTypes
<1>5. /\ Allowed!Covered(inFlight, 0, Allowed!DailyLimit(limits.level))
      /\ Allowed!Covered(inFlight, 0, Allowed!MonthlyLimit(limits.level))
      /\ \A checked : /\ Allowed!Forgotten(inFlight, 0, limits.daily, checked)
                      /\ Allowed!Forgotten(inFlight, 0, limits.monthly, checked)
  BY <1>2, <1>4, NothingRecorded
<1>6. /\ Allowed!Covered(inFlight, bookedMonth', Allowed!MonthlyLimit(limits.level))
      /\ Allowed!Forgotten(inFlight, bookedMonth', limits.monthly,
                           Allowed!Month(limits.lastReset) = Allowed!Month(today + 1))
  <2>1. CASE Allowed!Month(today + 1) = Allowed!Month(today)
    BY <1>1, <2>1 DEF Allowed!IInv
  <2>2. CASE Allowed!Month(today + 1) # Allowed!Month(today)
    BY <1>1, <1>5, <2>2
  <2> QED
    BY <2>1, <2>2
<1> QED
  BY <1>1, <1>3, <1>5, <1>6 DEF Allowed!IInv

\* Failed codes hold payments back and change nothing of them.
LEMMA FailuresKeep ==
    ASSUME Allowed!LimitConstants, Allowed!IInv, Allowed!VerifyFails \/ Allowed!HourPasses
    PROVE  Allowed!IInv'
<1>1. UNCHANGED <<today, limits, inFlight, bookedToday, bookedMonth>>
  BY DEF Allowed!VerifyFails, Allowed!HourPasses
<1>2. failures' \in 0..(Kyc.failures + 1)
  BY DEF Allowed!IInv, Allowed!TypeOK, Allowed!VerifyFails, Allowed!HourPasses,
     Allowed!LimitConstants
<1> QED
  BY <1>1, <1>2 DEF Allowed!IInv, Allowed!TypeOK

\* Nothing is recorded and nothing under way at first.
LEMMA LimitsStart ==
    ASSUME Allowed!LimitConstants, Allowed!Init
    PROVE  Allowed!IInv
<1>1. Allowed!Lowest \in Kyc.levels
  <2>1. PICK l \in Kyc.levels : \A m \in Kyc.levels : l <= m
    BY DEF Allowed!LimitConstants
  <2> QED
    BY <2>1 DEF Allowed!Lowest
<1>2. Allowed!TypeOK
  BY <1>1 DEF Allowed!Init, Allowed!TypeOK, Allowed!LimitConstants
<1>3. inFlight \in [Flows -> Amounts \cup {0}]
  BY <1>2 DEF Allowed!TypeOK
<1>4. Allowed!DailyLimit(limits.level) \in Nat /\ Allowed!MonthlyLimit(limits.level) \in Nat
      /\ limits.daily \in Nat /\ limits.monthly \in Nat
  BY <1>2, LimitTypes
<1>5. bookedToday = 0 /\ bookedMonth = 0
  BY DEF Allowed!Init
<1> QED
  BY <1>2, <1>3, <1>4, <1>5, NothingRecorded DEF Allowed!IInv

\* What is covered is within the limit and all that the flows may carry twice but once.
LEMMA CoveredIsWithin ==
    ASSUME Allowed!LimitConstants, NEW flights \in [Flows -> Amounts \cup {0}],
           NEW booked \in Nat,
           NEW limit \in Nat, Allowed!Covered(flights, booked, limit)
    PROVE  booked <= limit + 2 * Allowed!Lost - Allowed!Largest
<1>1. Allowed!Busy(flights) \subseteq Flows /\ Allowed!Lost \in Nat /\ Allowed!Largest \in Nat
      /\ \A d \in Allowed!Busy(flights) : flights[d] \in Nat
  BY LargestAmount DEF Allowed!Busy
<1>2. /\ Allowed!AtMost(Allowed!Busy(flights)) \in Nat
      /\ \A d \in Allowed!Busy(flights) : Allowed!AtMost(Allowed!Busy(flights) \ {d}) \in Nat
  <2>1. \A d : Allowed!Busy(flights) \ {d} \subseteq Flows
    BY <1>1
  <2> QED
    BY <1>1, <2>1, FlowsCarry
<1>3. CASE booked + Allowed!AtMost(Allowed!Busy(flights)) <= limit + 2 * Allowed!Lost - Allowed!Largest
  BY <1>1, <1>2, <1>3
<1>4. ASSUME NEW d \in Allowed!Busy(flights),
             booked + flights[d] + Allowed!AtMost(Allowed!Busy(flights) \ {d})
               <= limit + 2 * Allowed!Lost - Allowed!Largest
      PROVE  booked <= limit + 2 * Allowed!Lost - Allowed!Largest
  <2>1. flights[d] \in Nat /\ Allowed!AtMost(Allowed!Busy(flights) \ {d}) \in Nat
    BY <1>1, <1>2
  <2> QED
    BY <1>1, <1>4, <2>1
<1> QED
  BY <1>3, <1>4 DEF Allowed!Covered

(* For any flows, levels and amounts: however validations and records       *)
(* interleave, a day and a month are kept within what the flows carry, and  *)
(* a receipt of a request alone in its second leads to its own payment.     *)
THEOREM PaymentsAlwaysHold == ServicesSpec => []PaymentsHold
<1>0. Allowed!LimitConstants /\ Till!GatewayConstants
  BY ServicesConstants
<1>1. ServicesInit => Allowed!IInv
  BY <1>0, LimitsStart DEF ServicesInit
<1>2. ServicesInit => Till!IInv
  <2> SUFFICES ASSUME Till!Init PROVE Till!IInv
    BY DEF ServicesInit
  <2>1. 1 \in 1..Seconds /\ 0 \in 0..Seconds
    BY <1>0 DEF Till!GatewayConstants
  <2> QED
    BY <2>1 DEF Till!Init, Till!IInv, Till!TypeOK, Till!ReceiptsLeadHome, Till!Given,
                Till!NoPayment, Till!NoReceipt
<1>3. Allowed!IInv /\ [ServicesNext]_serviceVars => Allowed!IInv'
  <2> SUFFICES ASSUME Allowed!IInv, [ServicesNext]_serviceVars PROVE Allowed!IInv'
    OBVIOUS
  <2>1. CASE Allowed!Next
    BY <1>0, <2>1, LevelKeeps, ValidationKeeps, RecordingOfLimitsKeeps, FailedPaymentKeeps,
       MidnightKeeps, FailuresKeep DEF Allowed!Next
  <2>2. CASE UNCHANGED allowedVars
    BY <2>2 DEF allowedVars, Allowed!IInv, Allowed!TypeOK
  <2> QED
    BY <2>1, <2>2 DEF ServicesNext, Only, serviceVars
<1>4. Till!IInv /\ [ServicesNext]_serviceVars => Till!IInv'
  <2> SUFFICES ASSUME Till!IInv, [ServicesNext]_serviceVars PROVE Till!IInv'
    OBVIOUS
  <2>1. CASE Till!Next
    <3>1. ASSUME NEW r \in Requests, NEW u \in Members, NEW a \in Deposits,
                 Till!InitiateDeposit(r, u, a) \/ Till!ProcessWithdrawal(r, u, a)
          PROVE  Till!IInv'
      BY <1>0, <3>1, BeginKeeps DEF Till!InitiateDeposit, Till!ProcessWithdrawal, Till!Kinds
    <3>2. ASSUME Till!Tick
          PROVE  Till!IInv'
      BY <1>0, <3>2 DEF Till!Tick, Till!IInv, Till!TypeOK, Till!ReceiptsLeadHome, Till!Given,
                        Till!Alone, Till!Found, Till!GatewayConstants
    <3> QED
      BY <2>1, <3>1, <3>2, ConfirmationKeeps DEF Till!Next
  <2>2. CASE UNCHANGED tillVars
    BY <2>2 DEF tillVars, Till!IInv, Till!TypeOK, Till!ReceiptsLeadHome, Till!Given, Till!Alone,
                Till!Found
  <2> QED
    BY <2>1, <2>2 DEF ServicesNext, Only, serviceVars
<1>5. Allowed!IInv /\ Till!IInv => PaymentsHold
  <2> SUFFICES ASSUME Allowed!IInv, Till!IInv PROVE PaymentsHold
    OBVIOUS
  <2>1. inFlight \in [Flows -> Amounts \cup {0}]
    BY DEF Allowed!IInv, Allowed!TypeOK
  <2>2. /\ bookedToday \in Nat /\ bookedMonth \in Nat
        /\ Allowed!DailyLimit(limits.level) \in Nat /\ Allowed!MonthlyLimit(limits.level) \in Nat
    BY <1>0, LimitTypes DEF Allowed!IInv
  <2>3. Allowed!PaymentsWithinLimits
    BY <1>0, <2>1, <2>2, CoveredIsWithin DEF Allowed!IInv, Allowed!PaymentsWithinLimits
  <2> QED
    BY <2>3 DEF Till!IInv, PaymentsHold
<1> QED
  BY <1>1, <1>2, <1>3, <1>4, <1>5, PTL DEF ServicesSpec

-----------------------------------------------------------------------------
\* The market data cache.

\* The last bars of a list: the whole list, or as many of its end as are kept.
LEMMA LastBars ==
    ASSUME Cache!CacheConstants, NEW S, NEW s \in Seq(S)
    PROVE  /\ Cache!LastOf(s) \in Seq(S)
           /\ Len(Cache!LastOf(s)) = (IF Len(s) < Stored.size THEN Len(s) ELSE Stored.size)
           /\ \A i \in 1..Len(Cache!LastOf(s)) :
                /\ Len(s) - Len(Cache!LastOf(s)) + i \in 1..Len(s)
                /\ Cache!LastOf(s)[i] = s[Len(s) - Len(Cache!LastOf(s)) + i]
<1> DEFINE n == Len(s)
           size == Stored.size
           first == IF n < size THEN 1 ELSE n - size + 1
<1>1. n \in Nat /\ size \in Nat \ {0} /\ first \in Nat \ {0} /\ \A i \in 1..n : s[i] \in S
  BY DEF Cache!CacheConstants
<1>2. Cache!Max({1, n - size + 1}) = first
  <2>1. first \in {1, n - size + 1} /\ \A y \in {1, n - size + 1} : first >= y
    BY <1>1
  <2>2. \A x \in {1, n - size + 1} : (\A y \in {1, n - size + 1} : x >= y) => x = first
    BY <1>1, <2>1
  <2> QED
    BY <2>1, <2>2 DEF Cache!Max
<1>3. Cache!LastOf(s) = SubSeq(s, first, n)
  BY <1>2 DEF Cache!LastOf
<1> HIDE DEF n, size
<1>4. /\ SubSeq(s, first, n) \in Seq(S)
      /\ Len(SubSeq(s, first, n)) = (IF first <= n THEN n - first + 1 ELSE 0)
      /\ \A i \in 1 .. n - first + 1 : SubSeq(s, first, n)[i] = s[first + i - 1]
  <2>1. \A i \in first..n : s[i] \in S
    BY <1>1
  <2> HIDE DEF first
  <2> QED
    BY <1>1, <2>1, SubSeqProperties
<1>5. Len(SubSeq(s, first, n)) = IF n < size THEN n ELSE size
  BY <1>1, <1>4
<1>6. \A i \in 1..Len(SubSeq(s, first, n)) :
        /\ i \in 1 .. n - first + 1 /\ first + i - 1 = n - Len(SubSeq(s, first, n)) + i
        /\ first + i - 1 \in 1..n
  BY <1>1, <1>5
<1> HIDE DEF first
<1> QED
  BY <1>3, <1>4, <1>5, <1>6 DEF n, size

\* A bar stored after the last ones leaves what a bar after all of them leaves.
LEMMA LastOfLast ==
    ASSUME Cache!CacheConstants, NEW S, NEW s \in Seq(S), NEW x \in S
    PROVE  Cache!LastOf(Append(Cache!LastOf(s), x)) = Cache!LastOf(Append(s, x))
<1> DEFINE n == Len(s)
           size == Stored.size
           k == Len(Cache!LastOf(s))
           left == Cache!LastOf(Append(Cache!LastOf(s), x))
           right == Cache!LastOf(Append(s, x))
           m == (IF n + 1 < size THEN n + 1 ELSE size)
<1>1. n \in Nat /\ size \in Nat \ {0}
  BY DEF Cache!CacheConstants
<1>2. /\ Cache!LastOf(s) \in Seq(S) /\ k = (IF n < size THEN n ELSE size)
      /\ \A i \in 1..k : n - k + i \in 1..n /\ Cache!LastOf(s)[i] = s[n - k + i]
  BY LastBars
<1>3. /\ Append(s, x) \in Seq(S) /\ Len(Append(s, x)) = n + 1 /\ Append(s, x)[n + 1] = x
      /\ \A i \in 1..n : Append(s, x)[i] = s[i]
  BY AppendProperties
<1> DEFINE last == Append(Cache!LastOf(s), x)
<1>4. /\ last \in Seq(S) /\ Len(last) = k + 1 /\ last[k + 1] = x
      /\ \A i \in 1..k : last[i] = Cache!LastOf(s)[i]
  BY <1>2, AppendProperties
<1>0. \A t \in Seq(S) :
        /\ Cache!LastOf(t) \in Seq(S)
        /\ Len(Cache!LastOf(t)) = (IF Len(t) < size THEN Len(t) ELSE size)
        /\ \A i \in 1..Len(Cache!LastOf(t)) :
             Cache!LastOf(t)[i] = t[Len(t) - Len(Cache!LastOf(t)) + i]
  BY ONLY Cache!CacheConstants, LastBars
<1> DEFINE all == Append(s, x)
<1> HIDE DEF n, size, k, last, all
<1> HIDE DEF m
<1>5. /\ right \in Seq(S)
      /\ Len(right) = (IF Len(all) < size THEN Len(all) ELSE size)
      /\ \A i \in 1..Len(right) : right[i] = all[Len(all) - Len(right) + i]
  <2>1. all \in Seq(S) /\ right = Cache!LastOf(all)
    BY <1>3 DEF all
  <2> HIDE DEF right
  <2> QED
    BY ONLY <1>0, <2>1
<1>6. /\ left \in Seq(S)
      /\ Len(left) = (IF Len(last) < size THEN Len(last) ELSE size)
      /\ \A i \in 1..Len(left) : left[i] = last[Len(last) - Len(left) + i]
  <2>1. last \in Seq(S) /\ left = Cache!LastOf(last)
    BY <1>4 DEF last
  <2> HIDE DEF left
  <2> QED
    BY ONLY <1>0, <2>1
<1>11. Len(last) = k + 1 /\ Len(all) = n + 1
  BY <1>3, <1>4 DEF last, all
<1> HIDE DEF left, right
<1>7. Len(left) = m /\ Len(right) = m
  BY <1>1, <1>2, <1>5, <1>6, <1>11 DEF m
<1>10. n \in Nat /\ k \in Nat /\ m \in Nat /\ m <= k + 1 /\ m <= n + 1
  BY <1>1, <1>2 DEF m
<1>8. ASSUME NEW i \in 1..m
      PROVE  left[i] = right[i]
  <2>1. left[i] = last[k + 1 - m + i]
    <3>1. left[i] = last[Len(last) - Len(left) + i]
      BY ONLY <1>6, <1>7, i \in 1..m
    <3>2. Len(last) - Len(left) + i = k + 1 - m + i
      BY ONLY <1>7, <1>10, <1>11, i \in 1..m
    <3> QED
      BY <3>1, <3>2, Zenon
  <2>4. right[i] = all[n + 1 - m + i]
    <3>1. right[i] = all[Len(all) - Len(right) + i]
      BY ONLY <1>5, <1>7, i \in 1..m
    <3>2. Len(all) - Len(right) + i = n + 1 - m + i
      BY ONLY <1>7, <1>10, <1>11, i \in 1..m
    <3> QED
      BY <3>1, <3>2, Zenon
  <2>2. CASE i = m
    <3>1. k + 1 - m + i = k + 1 /\ n + 1 - m + i = n + 1
      BY <1>1, <1>2, <1>10, <2>2
    <3> QED
      BY <1>3, <1>4, <2>1, <2>4, <3>1 DEF all
  <2>3. CASE i < m
    <3>1. k + 1 - m + i \in 1..k /\ n - k + (k + 1 - m + i) = n + 1 - m + i
          /\ n + 1 - m + i \in 1..n
      BY <1>1, <1>2, <1>10, <2>3
    <3>2. last[k + 1 - m + i] = s[n + 1 - m + i]
      BY <1>2, <1>4, <3>1
    <3>3. all[n + 1 - m + i] = s[n + 1 - m + i]
      BY <1>3, <3>1 DEF all
    <3> QED
      BY <2>1, <2>4, <3>2, <3>3
  <2> QED
    BY <1>10, <2>2, <2>3
<1>9. left = right
  BY <1>5, <1>6, <1>7, <1>8, SeqEqual
<1> QED
  BY <1>9 DEF left, right, last

\* The last of a list that holds no bar twice hold none twice.
LEMMA LastOfStored ==
    ASSUME Cache!CacheConstants, NEW S, NEW s \in Seq(S),
           \A i, j \in 1..Len(s) : s[i] = s[j] => i = j
    PROVE  /\ \A i, j \in 1..Len(Cache!LastOf(s)) : Cache!LastOf(s)[i] = Cache!LastOf(s)[j] => i = j
           /\ \A i \in 1..Len(Cache!LastOf(s)) : \E j \in 1..Len(s) : Cache!LastOf(s)[i] = s[j]
<1> DEFINE n == Len(s)
           k == Len(Cache!LastOf(s))
<1>1. n \in Nat /\ k \in Nat
      /\ \A i \in 1..k : n - k + i \in 1..n /\ Cache!LastOf(s)[i] = s[n - k + i]
  BY LastBars, LenProperties
<1> HIDE DEF n, k
<1>2. ASSUME NEW i \in 1..k, NEW j \in 1..k, Cache!LastOf(s)[i] = Cache!LastOf(s)[j]
      PROVE  i = j
  <2>1. n - k + i = n - k + j
    BY <1>1, <1>2 DEF n
  <2> QED
    BY <1>1, <2>1
<1> QED
  BY <1>1, <1>2 DEF n, k

\* A list holds no bar twice, said of its places.
LEMMA OnceInList ==
    ASSUME NEW S, NEW s \in Seq(S)
    PROVE  Cache!IsInjective(s) <=> \A i, j \in 1..Len(s) : s[i] = s[j] => i = j
<1>1. DOMAIN s = 1..Len(s)
  OBVIOUS
<1> QED
  BY <1>1, Zenon DEF Cache!IsInjective

\* The places and elements of a list.
LEMMA ListPlaces ==
    ASSUME NEW S, NEW s \in Seq(S)
    PROVE  DOMAIN s = 1..Len(s) /\ \A i \in DOMAIN s : s[i] \in S
OBVIOUS

\* The cache starts with no series, no append and no request.
LEMMA CacheStarts == ASSUME Cache!CacheConstants, Cache!Init PROVE Cache!IInv
<1>0. Cache!LastOf(<<>>) = <<>>
  <2>1. <<>> \in Seq(Nat) /\ Len(<<>>) = 0
    OBVIOUS
  <2>2. Cache!LastOf(<<>>) \in Seq(Nat) /\ Len(Cache!LastOf(<<>>)) = 0
    <3> DEFINE none == <<>>
    <3>0. 0 < Stored.size
      BY DEF Cache!CacheConstants
    <3>1. none \in Seq(Nat) /\ Len(none) = 0
      BY <2>1
    <3> HIDE DEF none
    <3>2. Cache!LastOf(none) \in Seq(Nat) /\ Len(Cache!LastOf(none)) = 0
      BY <3>0, <3>1, LastBars
    <3> QED
      BY <3>2 DEF none
  <2> QED
    BY ONLY <2>2, EmptySeq
<1> USE DEF Cache!Init, Cache!CacheConstants, Cache!Idle
<1>1. Cache!TypeOK
  <2>1. <<>> \in Seq(1..Stored.bars) /\ 0 \in 0..Stored.bars
    OBVIOUS
  <2>2. appending \in [Stored.appenders -> [bar : 0..Stored.bars, read : Seq(1..Stored.bars)]]
    BY <2>1
  <2>3. series \in Seq(1..Stored.bars) /\ sent \in Seq(1..Stored.bars) /\ lastBar \in 0..Stored.bars
    BY <2>1
  <2>4. present \in BOOLEAN /\ whole \in BOOLEAN /\ clean \in BOOLEAN
    BY Zenon
  <2>5. /\ removed \subseteq 1..Stored.bars
        /\ tick \in {"none", "one", "list"} /\ {hits, misses, gets, crossed} \subseteq Nat
    OBVIOUS
  <2> QED
    BY ONLY <2>2, <2>3, <2>4, <2>5 DEF Cache!TypeOK
<1>2. /\ Cache!IsInjective(<<>>)
      /\ \A bars : bars = <<>> => Cache!Orderly(bars)
  BY DEF Cache!IsInjective, Cache!Orderly
<1> QED
  BY <1>0, <1>1, <1>2 DEF Cache!IInv, Cache!SeriesIsRecent

\* Requests and ticks leave the series and the appends as they are.
LEMMA CacheCounts ==
    ASSUME Cache!CacheConstants, Cache!IInv,
           \/ UNCHANGED storedVars
           \/ \E kind \in {"none", "one", "list"} : Cache!CacheTick(kind)
           \/ Cache!GetOhlcv \/ Cache!GetFails \/ Cache!ResetStatistics
           \/ \E kind \in {"one", "list"} : Cache!GetTick(kind)
    PROVE  Cache!IInv'
<1>1. UNCHANGED <<series, present, appending, lastBar, sent, whole, clean, removed>>
  BY DEF storedVars, Cache!CacheTick, Cache!GetOhlcv, Cache!GetFails, Cache!ResetStatistics,
         Cache!GetTick, Cache!seriesVars
<1> DEFINE Counted == /\ tick' \in {"none", "one", "list"}
                      /\ {hits', misses', gets', crossed'} \subseteq Nat
                      /\ hits' + misses' = gets' + crossed'
<1>2. Counted
  <2>0. /\ tick \in {"none", "one", "list"} /\ {hits, misses, gets, crossed} \subseteq Nat
        /\ hits + misses = gets + crossed
    BY DEF Cache!IInv, Cache!TypeOK, Cache!SeriesIsRecent
  <2>1. CASE UNCHANGED storedVars
    BY <2>0, <2>1 DEF storedVars
  <2>2. CASE \E kind \in {"none", "one", "list"} : Cache!CacheTick(kind)
    BY <2>0, <2>2 DEF Cache!CacheTick
  <2>3. CASE Cache!GetOhlcv
    BY <2>0, <2>3 DEF Cache!GetOhlcv
  <2>4. CASE Cache!GetFails
    BY <2>0, <2>4 DEF Cache!GetFails
  <2>5. CASE Cache!ResetStatistics
    BY <2>0, <2>5 DEF Cache!ResetStatistics
  <2>6. CASE \E kind \in {"one", "list"} : Cache!GetTick(kind)
    <3>1. PICK kind \in {"one", "list"} : Cache!GetTick(kind)
      BY <2>6
    <3>2. CASE tick = "none"
      BY <2>0, <3>1, <3>2 DEF Cache!GetTick
    <3>3. CASE tick = kind
      BY <2>0, <3>1, <3>3 DEF Cache!GetTick
    <3>4. CASE tick # "none" /\ tick # kind
      BY <2>0, <3>1, <3>4 DEF Cache!GetTick
    <3> QED
      BY <3>2, <3>3, <3>4
  <2> QED
    BY <2>1, <2>2, <2>3, <2>4, <2>5, <2>6
<1>3. Cache!TypeOK' /\ Cache!SeriesIsRecent'
  BY <1>1, <1>2 DEF Cache!IInv, Cache!TypeOK, Cache!SeriesIsRecent
<1> QED
  BY <1>1, <1>3 DEF Cache!IInv, Cache!Orderly

\* append_ohlcv hands in a bar that no list has and reads one that is stored.
LEMMA CacheReads ==
    ASSUME Cache!CacheConstants, Cache!IInv, NEW a \in Stored.appenders, Cache!ReadForAppend(a)
    PROVE  Cache!IInv'
<1> DEFINE bar == lastBar + 1
<1>0. /\ Cache!TypeOK /\ Cache!SeriesIsRecent /\ Cache!Orderly(series) /\ lastBar \in Nat
      /\ bar \in 1..Stored.bars /\ lastBar' = bar
      /\ appending' = [appending EXCEPT ![a] = [bar |-> bar, read |-> series]]
      /\ UNCHANGED <<series, present, sent, whole, clean, removed, tick, hits, misses, gets, crossed>>
  BY DEF Cache!IInv, Cache!TypeOK, Cache!ReadForAppend, Cache!countVars, Cache!CacheConstants
<1>1. /\ appending'[a] = [bar |-> bar, read |-> series]
      /\ \A b \in Stored.appenders \ {a} : appending'[b] = appending[b]
      /\ \A b \in Stored.appenders : appending[b].bar \in 0..lastBar
  BY <1>0 DEF Cache!IInv, Cache!TypeOK
<1>2. Cache!TypeOK'
  <2>1. [bar |-> bar, read |-> series] \in [bar : 0..Stored.bars, read : Seq(1..Stored.bars)]
    BY <1>0 DEF Cache!TypeOK
  <2> HIDE DEF bar
  <2>2. appending' \in [Stored.appenders -> [bar : 0..Stored.bars, read : Seq(1..Stored.bars)]]
    BY <1>0, <2>1 DEF Cache!TypeOK
  <2>3. lastBar' \in 0..Stored.bars
    BY <1>0
  <2> QED
    BY <1>0, <2>2, <2>3 DEF Cache!TypeOK
<1>3. Cache!SeriesIsRecent'
  BY <1>0 DEF Cache!SeriesIsRecent
<1> DEFINE Kept(bars) == /\ Cache!IsInjective(bars)
                         /\ \A i \in DOMAIN bars :
                              /\ bars[i] <= lastBar'
                              /\ \A b \in Stored.appenders : bars[i] # appending'[b].bar
<1>4. ASSUME NEW bars \in Seq(1..Stored.bars), Cache!Orderly(bars)
      PROVE  Kept(bars)
  <2>0. \A i \in DOMAIN bars : bars[i] \in 1..Stored.bars
    BY ListPlaces
  <2>1. \A i \in DOMAIN bars : bars[i] <= lastBar /\ bars[i] # bar /\ bars[i] <= bar
    BY <1>0, <1>4, <2>0 DEF Cache!Orderly
  <2>2. \A i \in DOMAIN bars : \A b \in Stored.appenders : bars[i] # appending'[b].bar
    BY <1>1, <1>4, <2>1 DEF Cache!Orderly
  <2> QED
    BY <1>0, <1>4, <2>1, <2>2 DEF Cache!Orderly
<1> HIDE DEF Kept
<1> QED
  <2>1. Kept(series)
    BY <1>0, <1>4 DEF Cache!TypeOK
  <2>2. \A b \in Stored.appenders : Kept(appending[b].read)
    BY <1>0, <1>4 DEF Cache!IInv, Cache!TypeOK
  <2>3. \A b \in Stored.appenders : Kept(appending'[b].read)
    BY <1>1, <2>1, <2>2
  <2>4. Cache!Orderly(series)' /\ \A b \in Stored.appenders : Cache!Orderly(appending[b].read)'
    BY <1>0, <2>1, <2>3 DEF Cache!Orderly, Kept
  <2> QED
    BY <1>0, <1>1, <1>2, <1>3, <2>4 DEF Cache!IInv, Cache!Idle

\* An append that fails stores nothing.
LEMMA CacheAppendFails ==
    ASSUME Cache!CacheConstants, Cache!IInv, NEW a \in Stored.appenders, Cache!AppendFails(a)
    PROVE  Cache!IInv'
<1>0. /\ Cache!TypeOK /\ Cache!SeriesIsRecent /\ Cache!Orderly(series)
      /\ appending' = [appending EXCEPT ![a] = Cache!Idle]
      /\ UNCHANGED <<series, present, sent, whole, clean, removed, lastBar, tick, hits, misses, gets, crossed>>
  BY DEF Cache!IInv, Cache!AppendFails, Cache!countVars
<1>1. Cache!Idle \in [bar : 0..Stored.bars, read : Seq(1..Stored.bars)]
      /\ Cache!Idle.bar = 0 /\ Cache!Idle.read = <<>>
  BY DEF Cache!Idle, Cache!CacheConstants
<1> DEFINE empty == <<>>
<1>2. Cache!IsInjective(empty) /\ DOMAIN empty = {}
  BY DEF Cache!IsInjective
<1> HIDE DEF empty
<1>3. /\ appending' \in [Stored.appenders -> [bar : 0..Stored.bars, read : Seq(1..Stored.bars)]]
      /\ appending'[a] = Cache!Idle
      /\ \A b \in Stored.appenders \ {a} : appending'[b] = appending[b]
  BY <1>0, <1>1 DEF Cache!TypeOK
<1>4. Cache!TypeOK' /\ Cache!SeriesIsRecent'
  BY <1>0, <1>3 DEF Cache!TypeOK, Cache!SeriesIsRecent
<1>5. /\ series \in Seq(1..Stored.bars)
      /\ \A b \in Stored.appenders : appending[b].read \in Seq(1..Stored.bars)
  BY <1>0 DEF Cache!TypeOK
<1>6. ASSUME NEW bars \in Seq(1..Stored.bars), Cache!Orderly(bars)
      PROVE  \A i \in DOMAIN bars : \A b \in Stored.appenders : bars[i] # appending'[b].bar
  <2>1. \A i \in DOMAIN bars : bars[i] \in 1..Stored.bars
    BY ListPlaces
  <2> SUFFICES ASSUME NEW i \in DOMAIN bars, NEW b \in Stored.appenders
               PROVE  bars[i] # appending'[b].bar
    OBVIOUS
  <2>2. bars[i] # appending[b].bar /\ bars[i] # 0
    BY <1>6, <2>1 DEF Cache!Orderly
  <2>3. appending'[b].bar = 0 \/ appending'[b].bar = appending[b].bar
    BY <1>1, <1>3
  <2> QED
    BY <2>2, <2>3
<1>7. Cache!Orderly(series)'
  BY <1>0, <1>5, <1>6 DEF Cache!Orderly
<1>8. ASSUME NEW b \in Stored.appenders
      PROVE  Cache!Orderly(appending[b].read)'
  <2>1. CASE b = a
    BY <1>1, <1>2, <1>3, <2>1 DEF Cache!Orderly, empty
  <2>2. CASE b # a
    <3>1. appending'[b].read = appending[b].read /\ Cache!Orderly(appending[b].read)
      BY <1>3, <2>2 DEF Cache!IInv
    <3> QED
      BY <1>0, <1>5, <1>6, <3>1 DEF Cache!Orderly
  <2> QED
    BY <2>1, <2>2
<1> QED
  BY <1>0, <1>1, <1>3, <1>4, <1>7, <1>8 DEF Cache!IInv, Cache!TypeOK

\* A bar after a list that does not have it.
LEMMA AppendedOnce ==
    ASSUME NEW S, NEW s \in Seq(S), NEW x \in S,
           Cache!IsInjective(s), \A i \in DOMAIN s : s[i] # x
    PROVE  /\ Append(s, x) \in Seq(S)
           /\ Cache!IsInjective(Append(s, x))
           /\ \A i \in 1..Len(Append(s, x)) :
                Append(s, x)[i] = x \/ \E j \in DOMAIN s : Append(s, x)[i] = s[j]
<1> DEFINE t == Append(s, x)
           n == Len(s)
<1>1. /\ t \in Seq(S) /\ Len(t) = n + 1 /\ t[n + 1] = x /\ \A i \in 1..n : t[i] = s[i]
      /\ n \in Nat /\ DOMAIN s = 1..n /\ \A i, j \in 1..n : s[i] = s[j] => i = j
  BY AppendProperties, OnceInList, ListPlaces, LenProperties
<1> HIDE DEF t, n
<1>2. \A i \in 1..Len(t) : i = n + 1 \/ i \in 1..n
  BY <1>1
<1>3. \A i, j \in 1..Len(t) : t[i] = t[j] => i = j
  BY <1>1, <1>2
<1>4. Cache!IsInjective(t)
  BY <1>1, <1>3, OnceInList
<1>5. \A i \in 1..Len(t) : t[i] = x \/ \E j \in DOMAIN s : t[i] = s[j]
  BY <1>1, <1>2
<1> QED
  BY <1>1, <1>4, <1>5 DEF t

\* The list that is written back has the bar after those that were read, and is
\* the latest of what was stored if those were.
LEMMA CacheWrites ==
    ASSUME Cache!CacheConstants, Cache!IInv, NEW a \in Stored.appenders, Cache!WriteAppended(a)
    PROVE  Cache!IInv'
<1> DEFINE bar == appending[a].bar
           read == appending[a].read
           written == Append(read, bar)
           Bars == 1..Stored.bars
<1>0. /\ Cache!TypeOK /\ Cache!SeriesIsRecent /\ Cache!Orderly(read)
      /\ appending[a] # Cache!Idle
      /\ appending' = [appending EXCEPT ![a] = Cache!Idle]
      /\ series' = Cache!LastOf(written) /\ present' = TRUE
      /\ sent' = Append(sent, bar) /\ whole' = FALSE
      /\ clean' = (clean /\ read = series)
      /\ UNCHANGED <<removed, lastBar, tick, hits, misses, gets, crossed>>
  BY DEF Cache!IInv, Cache!WriteAppended, Cache!WriteBack, Cache!countVars
<1>1. /\ read \in Seq(Bars) /\ bar \in Bars /\ bar <= lastBar /\ sent \in Seq(Bars)
      /\ \A i \in DOMAIN read : read[i] # bar
      /\ \A b \in Stored.appenders \ {a} : appending[b].bar # bar
  BY <1>0 DEF Cache!IInv, Cache!TypeOK, Cache!Orderly
<1>2. /\ Cache!Idle \in [bar : 0..Stored.bars, read : Seq(Bars)]
      /\ Cache!Idle.bar = 0 /\ Cache!Idle.read = <<>>
  BY DEF Cache!Idle, Cache!CacheConstants
<1>3. /\ appending' \in [Stored.appenders -> [bar : 0..Stored.bars, read : Seq(Bars)]]
      /\ appending'[a] = Cache!Idle
      /\ \A b \in Stored.appenders \ {a} : appending'[b] = appending[b]
  BY <1>0, <1>2 DEF Cache!TypeOK
<1> HIDE DEF bar, read, written, Bars
<1>4. /\ written \in Seq(Bars) /\ Cache!IsInjective(written)
      /\ \A i \in 1..Len(written) : written[i] = bar \/ \E j \in DOMAIN read : written[i] = read[j]
  BY <1>0, <1>1, AppendedOnce DEF written, Cache!Orderly
<1>5. /\ series' \in Seq(Bars) /\ Len(series') <= Stored.size
      /\ \A i \in 1..Len(series') : \E j \in 1..Len(written) : series'[i] = written[j]
      /\ Cache!IsInjective(series')
  <2>1. /\ Cache!LastOf(written) \in Seq(Bars)
        /\ Len(Cache!LastOf(written)) =
             (IF Len(written) < Stored.size THEN Len(written) ELSE Stored.size)
    BY <1>4, LastBars
  <2>2. \A i, j \in 1..Len(written) : written[i] = written[j] => i = j
    BY <1>4, OnceInList
  <2>3. /\ \A i, j \in 1..Len(Cache!LastOf(written)) :
             Cache!LastOf(written)[i] = Cache!LastOf(written)[j] => i = j
        /\ \A i \in 1..Len(Cache!LastOf(written)) :
             \E j \in 1..Len(written) : Cache!LastOf(written)[i] = written[j]
    BY <1>4, <2>2, LastOfStored
  <2>4. Cache!IsInjective(Cache!LastOf(written))
    BY <2>1, <2>3, OnceInList
  <2>5. Len(Cache!LastOf(written)) <= Stored.size
    BY <1>4, <2>1, LenProperties DEF Cache!CacheConstants
  <2> QED
    BY <1>0, <2>1, <2>3, <2>4, <2>5
<1>6. \A i \in DOMAIN series' : series'[i] = bar \/ \E j \in DOMAIN read : series'[i] = read[j]
  BY <1>4, <1>5, ListPlaces
<1>7. clean' => series' = Cache!LastOf(sent')
  <2> SUFFICES ASSUME clean'
               PROVE  series' = Cache!LastOf(sent')
    OBVIOUS
  <2>1. clean /\ read = series
    BY <1>0
  <2>2. read = IF whole THEN sent ELSE Cache!LastOf(sent)
    BY <1>0, <2>1 DEF Cache!SeriesIsRecent
  <2>3. Cache!LastOf(Append(Cache!LastOf(sent), bar)) = Cache!LastOf(Append(sent, bar))
    BY <1>1, LastOfLast
  <2>4. Cache!LastOf(Append(read, bar)) = Cache!LastOf(Append(sent, bar))
    BY <2>2, <2>3
  <2> QED
    BY <1>0, <2>4 DEF written
<1>8. Cache!TypeOK' /\ Cache!SeriesIsRecent'
  <2>1. sent' \in Seq(Bars)
    BY <1>0, <1>1, AppendProperties
  <2>2. clean' \in BOOLEAN
    BY <1>0
  <2> QED
    BY <1>0, <1>3, <1>5, <1>7, <2>1, <2>2 DEF Cache!TypeOK, Cache!SeriesIsRecent, Bars
<1>9. ASSUME NEW bars \in Seq(Bars), Cache!Orderly(bars), NEW i \in DOMAIN bars,
             NEW b \in Stored.appenders
      PROVE  bars[i] <= lastBar /\ bars[i] # appending'[b].bar
  <2>0. bars[i] \in Bars
    BY ListPlaces
  <2>1. bars[i] # appending[b].bar /\ bars[i] # 0 /\ bars[i] <= lastBar
    BY <1>9, <2>0 DEF Cache!Orderly, Bars
  <2>2. appending'[b].bar = 0 \/ appending'[b].bar = appending[b].bar
    BY <1>2, <1>3
  <2> QED
    BY <2>1, <2>2
<1>10. Cache!Orderly(series)'
  <2>1. ASSUME NEW i \in DOMAIN series'
        PROVE  /\ series'[i] <= lastBar
               /\ \A b \in Stored.appenders : series'[i] # appending'[b].bar
    <3>1. CASE series'[i] = bar
      <4>1. bar # 0
        BY <1>1 DEF Bars
      <4> QED
        BY <1>1, <1>2, <1>3, <3>1, <4>1
    <3>2. CASE \E j \in DOMAIN read : series'[i] = read[j]
      BY <1>0, <1>1, <1>9, <3>2, a \in Stored.appenders
    <3> QED
      BY <1>6, <3>1, <3>2
  <2> QED
    BY <1>0, <1>5, <2>1 DEF Cache!Orderly
<1>11. ASSUME NEW b \in Stored.appenders
       PROVE  Cache!Orderly(appending[b].read)'
  <2>1. CASE b = a
    <3> DEFINE empty == <<>>
    <3>1. Cache!IsInjective(empty) /\ DOMAIN empty = {}
      BY DEF Cache!IsInjective
    <3> QED
      BY <1>2, <1>3, <2>1, <3>1 DEF Cache!Orderly
  <2>2. CASE b # a
    <3>1. /\ appending'[b].read = appending[b].read /\ Cache!Orderly(appending[b].read)
          /\ appending[b].read \in Seq(Bars)
      BY <1>0, <1>3, <2>2 DEF Cache!IInv, Cache!TypeOK, Bars
    <3> QED
      BY <1>0, <1>9, <3>1 DEF Cache!Orderly
  <2> QED
    BY <2>1, <2>2
<1>12. ASSUME NEW b \in Stored.appenders
       PROVE  /\ appending'[b].bar <= lastBar' /\ (appending'[b].bar = 0 => appending'[b] = Cache!Idle)
              /\ \A d \in Stored.appenders \ {b} :
                   appending'[b].bar = appending'[d].bar => appending'[b] = Cache!Idle
  <2>1. CASE b = a
    <3>1. lastBar \in Nat /\ lastBar' = lastBar
      BY <1>0 DEF Cache!TypeOK
    <3> QED
      BY <1>2, <1>3, <2>1, <3>1
  <2>2. CASE b # a
    <3>1. /\ appending[b].bar <= lastBar /\ (appending[b].bar = 0 => appending[b] = Cache!Idle)
          /\ \A d \in Stored.appenders \ {b} :
               appending[b].bar = appending[d].bar => appending[b] = Cache!Idle
      BY DEF Cache!IInv
    <3>2. appending'[b] = appending[b] /\ lastBar' = lastBar
      BY <1>0, <1>3, <2>2
    <3>3. ASSUME NEW d \in Stored.appenders \ {b}, appending'[b].bar = appending'[d].bar
          PROVE  appending'[b] = Cache!Idle
      <4>1. CASE d = a
        BY <1>2, <1>3, <3>1, <3>2, <3>3, <4>1
      <4>2. CASE d # a
        <5>1. appending'[d] = appending[d]
          BY <1>3, <4>2
        <5> QED
          BY <3>1, <3>2, <3>3, <5>1
      <4> QED
        BY <4>1, <4>2
    <3> QED
      BY <3>1, <3>2, <3>3
  <2> QED
    BY <2>1, <2>2
<1> QED
  BY <1>8, <1>10, <1>11, <1>12 DEF Cache!IInv

\* A list of bars that were not handed in before.
LEMMA NewBars ==
    ASSUME NEW m \in Nat, NEW k \in Nat, NEW top \in Nat, m + k <= top
    PROVE  LET new == [i \in 1..k |-> m + i]
           IN  /\ new \in Seq(1..top) /\ Cache!IsInjective(new)
               /\ \A i \in DOMAIN new : new[i] > m /\ new[i] <= m + k
<1> DEFINE new == [i \in 1..k |-> m + i]
<1>1. new \in Seq(1..top) /\ DOMAIN new = 1..k
  <2>1. \A i \in 1..k : m + i \in 1..top
    OBVIOUS
  <2> QED
    BY <2>1
<1>2. \A i \in 1..k : new[i] = m + i
  OBVIOUS
<1> HIDE DEF new
<1>3. \A i, j \in 1..k : new[i] = new[j] => i = j
  BY <1>2
<1> QED
  BY <1>1, <1>2, <1>3 DEF Cache!IsInjective, new

\* cache_ohlcv stores a list of the caller's over whatever was there.
LEMMA CacheReplaces ==
    ASSUME Cache!CacheConstants, Cache!IInv, NEW k \in 0..Stored.bars, Cache!CacheOhlcv(k)
    PROVE  Cache!IInv'
<1> DEFINE top == lastBar + k
           Bars == 1..Stored.bars
           new == [i \in 1..k |-> lastBar + i]
<1>0. /\ Cache!TypeOK /\ Cache!SeriesIsRecent /\ lastBar \in Nat /\ k \in Nat
      /\ Stored.bars \in Nat /\ top <= Stored.bars
      /\ lastBar' = top /\ series' = new /\ sent' = new
      /\ present' = TRUE /\ whole' = TRUE /\ clean' = TRUE
      /\ UNCHANGED <<appending, removed, tick, hits, misses, gets, crossed>>
  BY DEF Cache!IInv, Cache!TypeOK, Cache!CacheOhlcv, Cache!countVars, Cache!CacheConstants
<1>1. /\ new \in Seq(Bars) /\ Cache!IsInjective(new)
      /\ \A i \in DOMAIN new : new[i] > lastBar /\ new[i] <= top
  BY <1>0, NewBars
<1>2. top >= lastBar /\ top \in Nat
  BY <1>0
<1>3. lastBar' \in 0..Stored.bars
  BY <1>0
<1> HIDE DEF new, top
<1>4. Cache!TypeOK' /\ Cache!SeriesIsRecent'
  BY <1>0, <1>1, <1>3 DEF Cache!TypeOK, Cache!SeriesIsRecent
<1>8. \A i \in DOMAIN new : new[i] \in Nat
  <2>1. \A i \in DOMAIN new : new[i] \in Bars
    BY <1>1, ListPlaces
  <2> QED
    BY <1>0, <2>1
<1>5. Cache!Orderly(series)'
  <2>1. \A b \in Stored.appenders : appending[b].bar \in Nat /\ appending[b].bar <= lastBar
    BY <1>0 DEF Cache!IInv, Cache!TypeOK
  <2>2. \A i \in DOMAIN new : \A b \in Stored.appenders : new[i] # appending[b].bar
    BY <1>0, <1>1, <1>8, <2>1
  <2> QED
    BY <1>0, <1>1, <2>2 DEF Cache!Orderly
<1>6. ASSUME NEW b \in Stored.appenders
      PROVE  Cache!Orderly(appending[b].read)'
  <2> DEFINE read == appending[b].read
  <2>1. read \in Seq(Bars) /\ Cache!Orderly(read)
    BY <1>0 DEF Cache!IInv, Cache!TypeOK
  <2> HIDE DEF read
  <2>2. \A i \in DOMAIN read : read[i] \in Bars
    BY <2>1, ListPlaces
  <2>3. \A i \in DOMAIN read : read[i] <= top
    BY <1>0, <1>2, <2>1, <2>2 DEF Cache!Orderly
  <2> QED
    BY <1>0, <2>1, <2>3 DEF Cache!Orderly, read
<1>7. \A b \in Stored.appenders : appending[b].bar \in Nat /\ appending[b].bar <= top
  BY <1>0, <1>2 DEF Cache!IInv, Cache!TypeOK
<1> QED
  BY <1>0, <1>4, <1>5, <1>6, <1>7 DEF Cache!IInv, Cache!TypeOK

\* The key goes, and with it what it held.
LEMMA CacheForgets ==
    ASSUME Cache!CacheConstants, Cache!IInv, NEW ticksToo \in BOOLEAN, Cache!RemoveKeys(ticksToo)
    PROVE  Cache!IInv'
<1> DEFINE none == <<>>
<1>0. /\ Cache!TypeOK /\ Cache!SeriesIsRecent
      /\ series' = none /\ sent' = none
      /\ present' = FALSE /\ whole' = FALSE /\ clean' = TRUE
      /\ removed' = removed \cup Cache!ToSet(series)
      /\ tick' = (IF ticksToo THEN "none" ELSE tick)
      /\ UNCHANGED <<appending, lastBar, hits, misses, gets, crossed>>
  BY DEF Cache!IInv, Cache!RemoveKeys
<1>1. /\ none \in Seq(1..Stored.bars) /\ Len(none) = 0 /\ DOMAIN none = {}
      /\ Cache!IsInjective(none)
  BY DEF Cache!IsInjective
<1> HIDE DEF none
<1>2. Cache!LastOf(none) = none
  <2>1. /\ Cache!LastOf(none) \in Seq(1..Stored.bars)
        /\ Len(Cache!LastOf(none)) = (IF 0 < Stored.size THEN 0 ELSE Stored.size)
    BY <1>1, LastBars
  <2>2. Len(Cache!LastOf(none)) = 0
    BY <2>1 DEF Cache!CacheConstants
  <2> QED
    BY <1>1, <2>1, <2>2, EmptySeq
<1>3. removed' \subseteq 1..Stored.bars
  <2>1. series \in Seq(1..Stored.bars) /\ removed \subseteq 1..Stored.bars
    BY <1>0 DEF Cache!TypeOK
  <2>2. Cache!ToSet(series) \subseteq 1..Stored.bars
    BY <2>1, ListPlaces DEF Cache!ToSet
  <2> QED
    BY <1>0, <2>1, <2>2
<1>4. tick' \in {"none", "one", "list"}
  BY <1>0 DEF Cache!TypeOK
<1>5. Cache!TypeOK' /\ Cache!SeriesIsRecent'
  <2>1. Cache!TypeOK'
    BY <1>0, <1>1, <1>3, <1>4 DEF Cache!TypeOK
  <2>2. Cache!SeriesIsRecent'
    BY <1>0, <1>1, <1>2 DEF Cache!SeriesIsRecent, Cache!TypeOK, Cache!CacheConstants
  <2> QED
    BY <2>1, <2>2
<1>6. Cache!Orderly(series)' /\ \A b \in Stored.appenders : Cache!Orderly(appending[b].read)'
  BY <1>0, <1>1 DEF Cache!IInv, Cache!Orderly
<1> QED
  BY <1>0, <1>5, <1>6 DEF Cache!IInv

\* However appends, removals and failures interleave, a cached series holds no bar
\* twice that was handed in once and, once an append wrote it, no more than its size;
\* unless an append found it changed under it, it is what was stored, the latest of it
\* after an append; every request is counted once (or twice when it met the other kind
\* of tick entry).
THEOREM SeriesIsAlwaysRecent == ServicesSpec => []SeriesIsRecent
<1>0. Cache!CacheConstants
  BY ServicesConstants
<1>1. ServicesInit => Cache!IInv
  BY <1>0, CacheStarts DEF ServicesInit
<1>2. Cache!IInv /\ [ServicesNext]_serviceVars => Cache!IInv'
  <2> SUFFICES ASSUME Cache!IInv, [ServicesNext]_serviceVars
               PROVE  Cache!IInv'
    OBVIOUS
  <2>1. CASE Cache!Next
    BY <1>0, <2>1, CacheReads, CacheWrites, CacheAppendFails, CacheReplaces, CacheForgets,
       CacheCounts DEF Cache!Next
  <2>2. CASE UNCHANGED storedVars
    BY <1>0, <2>2, CacheCounts
  <2> QED
    BY <2>1, <2>2 DEF ServicesNext, Only, serviceVars
<1>3. Cache!IInv => SeriesIsRecent
  BY DEF Cache!IInv, SeriesIsRecent
<1> QED
  BY <1>1, <1>2, <1>3, PTL DEF ServicesSpec

-----------------------------------------------------------------------------
\* Wallets.

\* The sums of the wallets are sums over finite sets.
LEMMA PurseSums ==
    ASSUME NEW f, NEW S
    PROVE  Purse!SumFunctionOnSet(f, S) = SumFunctionOnSet(f, S)
BY Zenon DEF Purse!SumFunctionOnSet, Purse!FoldFunctionOnSet, Purse!MapThenFoldSet,
   SumFunctionOnSet, FoldFunctionOnSet, MapThenFoldSet

PurseBooks ==
    [wallet : [status : {"none", "active", "frozen"}, balance : [Purse!WalletTypes -> Nat]],
     history : Seq(Purse!Bookings)]

\* The balances of the books are those of its history, whose transfers come to moved.
Stands(b, opening, moved) ==
    /\ b.wallet.status = "none" => b.history = <<>>
    /\ \A w \in Purse!WalletTypes :
         b.wallet.balance[w] = (IF w = "subscription" THEN opening ELSE 0)
                                 + Purse!Sum(b.history, Purse!On(w, b.history))
    /\ Purse!Sum(b.history, Purse!Moves(b.history)) = moved

PurseIInv ==
    /\ initial \in [Holders -> Nat]
    /\ wallet \in [Holders -> [status : {"none", "active", "frozen"},
                               balance : [Purse!WalletTypes -> Nat]]]
    /\ history \in [Holders -> Seq(Purse!Bookings)]
    /\ \A u \in Holders : Stands(Purse!Books(u), initial[u], 0)

\* The places of a history are finitely many, and their amounts are integers.
LEMMA Places ==
    ASSUME NEW h \in Seq(Purse!Bookings), NEW S \in SUBSET (DOMAIN h)
    PROVE  /\ IsFiniteSet(S)
           /\ \A i \in S : h[i].amount \in Int
           /\ Purse!Sum(h, S) \in Int
<1> DEFINE f == [i \in DOMAIN h |-> h[i].amount]
<1>1. IsFiniteSet(S)
  <2>1. Len(h) \in Nat /\ DOMAIN h = 1..Len(h)
    OBVIOUS
  <2>2. IsFiniteSet(1..Len(h))
    BY <2>1, FS_Interval
  <2> QED
    BY <2>1, <2>2, FS_Subset
<1>2. \A i \in S : h[i].amount \in Int
  <2>1. \A i \in DOMAIN h : h[i] \in Purse!Bookings
    OBVIOUS
  <2> QED
    BY <2>1 DEF Purse!Bookings
<1>3. \A i \in S : f[i] \in Int
  BY <1>2
<1>4. Purse!Sum(h, S) = SumFunctionOnSet(f, S)
  BY PurseSums DEF Purse!Sum
<1> HIDE DEF f
<1>5. SumFunctionOnSet(f, S) \in Int
  BY <1>1, <1>3, SumInt
<1> QED
  BY <1>1, <1>2, <1>4, <1>5

\* What a booking adds to a sum: nothing, or its amount when its place counts.
LEMMA BookingAdds ==
    ASSUME NEW h \in Seq(Purse!Bookings), NEW e \in Purse!Bookings,
           NEW S \in SUBSET (DOMAIN h)
    PROVE  /\ Purse!Sum(Append(h, e), S) = Purse!Sum(h, S)
           /\ Purse!Sum(Append(h, e), S \cup {Len(h) + 1}) = Purse!Sum(h, S) + e.amount
<1> DEFINE g == Append(h, e)
           f == [i \in DOMAIN h |-> h[i].amount]
           k == [i \in DOMAIN g |-> g[i].amount]
           x == Len(h) + 1
<1>1. IsFiniteSet(S) /\ \A i \in S : h[i].amount \in Int
  BY Places
<1>2. /\ Len(h) \in Nat /\ DOMAIN h = 1..Len(h) /\ DOMAIN g = 1..(Len(h) + 1)
      /\ g[Len(h) + 1] = e /\ \A i \in 1..Len(h) : g[i] = h[i]
  OBVIOUS
<1>3. e.amount \in Int
  BY DEF Purse!Bookings
<1>4. x \notin S /\ x \in DOMAIN g
  BY <1>2
<1>5. Purse!Sum(h, S) = SumFunctionOnSet(f, S)
  BY PurseSums DEF Purse!Sum
<1>6. /\ Purse!Sum(g, S) = SumFunctionOnSet(k, S)
      /\ Purse!Sum(g, S \cup {x}) = SumFunctionOnSet(k, S \cup {x})
  BY PurseSums DEF Purse!Sum
<1>7. /\ k[x] = e.amount
      /\ \A i \in S : f[i] \in Int /\ k[i] = f[i]
  <2> HIDE DEF g
  <2>1. \A i \in S : i \in DOMAIN g /\ i \in DOMAIN h /\ g[i] = h[i]
    BY <1>2
  <2> QED
    BY <1>1, <1>2, <1>4, <2>1
<1> HIDE DEF f, k, x
<1>8. SumFunctionOnSet(k, S \cup {x}) = SumFunctionOnSet(f, S) + k[x]
  BY <1>1, <1>3, <1>4, <1>7, SumGains
<1>9. SumFunctionOnSet(f, S) = SumFunctionOnSet(k, S)
  BY <1>1, <1>7, SumSame
<1> QED
  BY <1>5, <1>6, <1>7, <1>8, <1>9 DEF x

\* A booking moves its balance and its history alike.
LEMMA BookingStands ==
    ASSUME NEW b \in PurseBooks, NEW w \in Purse!WalletTypes, NEW n \in Int,
           NEW type \in {"deposit", "withdrawal", "transfer", "reversal"},
           NEW opening \in Nat, NEW moved \in Int, Stands(b, opening, moved),
           b.wallet.status # "none", b.wallet.balance[w] + n >= 0
    PROVE  LET after == Purse!Booked(b, w, n, type) IN
           /\ after \in PurseBooks
           /\ after.wallet.status = b.wallet.status
           /\ after.wallet.balance[w] = b.wallet.balance[w] + n
           /\ \A v \in Purse!WalletTypes \ {w} : after.wallet.balance[v] = b.wallet.balance[v]
           /\ Stands(after, opening, IF type \in {"transfer", "reversal"} THEN moved + n ELSE moved)
<1> DEFINE after == Purse!Booked(b, w, n, type)
           h == b.history
           e == [wallet |-> w, type |-> type, amount |-> n]
           g == Append(h, e)
           x == Len(h) + 1
<1>1. h \in Seq(Purse!Bookings) /\ e \in Purse!Bookings /\ b.wallet.balance \in [Purse!WalletTypes -> Nat]
  BY DEF PurseBooks, Purse!Bookings
<1>2. after.history = g
  BY DEF Purse!Booked
<1>3. /\ after.wallet.status = b.wallet.status
      /\ after.wallet.balance = [b.wallet.balance EXCEPT ![w] = @ + n]
  BY DEF PurseBooks, Purse!Booked
<1>4. after.wallet.balance[w] = b.wallet.balance[w] + n
  BY <1>1, <1>3
<1>5. \A v \in Purse!WalletTypes \ {w} : after.wallet.balance[v] = b.wallet.balance[v]
  BY <1>1, <1>3
<1>6. b.wallet.balance[w] + n \in Nat
  BY <1>1
<1>7. after \in PurseBooks
  <2>1. g \in Seq(Purse!Bookings)
    BY <1>1
  <2>2. [b.wallet.balance EXCEPT ![w] = @ + n] \in [Purse!WalletTypes -> Nat]
    BY <1>1, <1>6
  <2>3. after = [wallet |-> [b.wallet EXCEPT !.balance[w] = @ + n], history |-> g]
    BY DEF Purse!Booked
  <2>4. [b.wallet EXCEPT !.balance[w] = @ + n]
          \in [status : {"none", "active", "frozen"}, balance : [Purse!WalletTypes -> Nat]]
    BY <2>2 DEF PurseBooks
  <2> HIDE DEF after, g
  <2> QED
    BY <2>1, <2>3, <2>4 DEF PurseBooks
<1>8. /\ Len(h) \in Nat /\ DOMAIN h = 1..Len(h) /\ DOMAIN g = 1..(Len(h) + 1)
      /\ g[Len(h) + 1] = e /\ \A i \in 1..Len(h) : g[i] = h[i]
  BY <1>1
<1>9. /\ Purse!On(w, g) = Purse!On(w, h) \cup {x}
      /\ \A v \in Purse!WalletTypes \ {w} : Purse!On(v, g) = Purse!On(v, h)
      /\ Purse!Moves(g) = IF type \in {"transfer", "reversal"} THEN Purse!Moves(h) \cup {x}
                          ELSE Purse!Moves(h)
  <2>1. e.wallet = w /\ e.type = type
    OBVIOUS
  <2> HIDE DEF g, e
  <2> QED
    BY <1>8, <2>1 DEF Purse!On, Purse!Moves
<1>10. /\ \A v \in Purse!WalletTypes : Purse!On(v, h) \in SUBSET (DOMAIN h)
       /\ Purse!Moves(h) \in SUBSET (DOMAIN h)
  BY DEF Purse!On, Purse!Moves
<1>11. e.amount = n
  OBVIOUS
<1> HIDE DEF after, g, e, x
<1>12. \A S \in SUBSET (DOMAIN h) :
         /\ Purse!Sum(g, S) = Purse!Sum(h, S)
         /\ Purse!Sum(g, S \cup {x}) = Purse!Sum(h, S) + n
         /\ Purse!Sum(h, S) \in Int
  BY <1>1, <1>11, BookingAdds, Places DEF g, x
<1>13. /\ \A v \in Purse!WalletTypes :
            b.wallet.balance[v] = (IF v = "subscription" THEN opening ELSE 0)
                                    + Purse!Sum(h, Purse!On(v, h))
       /\ Purse!Sum(h, Purse!Moves(h)) = moved
  BY DEF Stands
<1> HIDE DEF h
<1>14. after.wallet.balance[w] = (IF w = "subscription" THEN opening ELSE 0)
                                    + Purse!Sum(g, Purse!On(w, g))
  <2> DEFINE d == IF w = "subscription" THEN opening ELSE 0
             old == Purse!Sum(h, Purse!On(w, h))
  <2>1. d \in Int
    OBVIOUS
  <2>2. old \in Int /\ Purse!Sum(g, Purse!On(w, g)) = old + n
    BY <1>9, <1>10, <1>12
  <2>3. b.wallet.balance[w] = d + old
    BY <1>13
  <2> HIDE DEF d, old
  <2>4. after.wallet.balance[w] = d + Purse!Sum(g, Purse!On(w, g))
    BY <1>4, <2>1, <2>2, <2>3
  <2> QED
    BY <2>4 DEF d
<1>15. \A v \in Purse!WalletTypes \ {w} :
         after.wallet.balance[v] = (IF v = "subscription" THEN opening ELSE 0)
                                     + Purse!Sum(g, Purse!On(v, g))
  BY <1>5, <1>9, <1>10, <1>12, <1>13
<1>16. Purse!Sum(g, Purse!Moves(g)) =
         IF type \in {"transfer", "reversal"} THEN moved + n ELSE moved
  BY <1>9, <1>10, <1>12, <1>13
<1>17. Stands(after, opening, IF type \in {"transfer", "reversal"} THEN moved + n ELSE moved)
  BY <1>2, <1>3, <1>14, <1>15, <1>16 DEF Stands
<1> QED
  BY <1>3, <1>4, <1>5, <1>7, <1>17 DEF after

\* A credit finds or creates the wallet, and books what it is granted.
LEMMA CreditStands ==
    ASSUME NEW b \in PurseBooks, NEW w, NEW n \in Nat,
           NEW type \in {"deposit", "transfer", "reversal"},
           NEW opening \in Nat, NEW moved \in Int, Stands(b, opening, moved)
    PROVE  LET after == Purse!Credited(b, w, n, type) IN
           /\ after \in PurseBooks
           /\ Stands(after, opening, IF Purse!CreditGranted(b, w) /\ type # "deposit"
                                     THEN moved + n ELSE moved)
<1> DEFINE c == Purse!WithWallet(b)
<1>1. /\ c \in PurseBooks /\ c.wallet.status # "none"
      /\ c.wallet.balance = b.wallet.balance /\ c.history = b.history
  <2>1. CASE b.wallet.status # "none"
    BY <2>1 DEF Purse!WithWallet, Purse!Exists
  <2>2. CASE b.wallet.status = "none"
    <3>1. c = [b EXCEPT !.wallet.status = "active"]
      BY <2>2 DEF Purse!WithWallet, Purse!Exists
    <3> HIDE DEF c
    <3> QED
      BY <3>1 DEF PurseBooks
  <2> QED
    BY <2>1, <2>2
<1> HIDE DEF c
<1>2. Stands(c, opening, moved)
  BY <1>1 DEF Stands
<1>3. CASE Purse!CreditGranted(b, w)
  <2>1. w \in Purse!WalletTypes
    BY <1>3 DEF Purse!CreditGranted
  <2>2. Purse!Credited(b, w, n, type) = Purse!Booked(c, w, n, type)
    BY <1>3 DEF Purse!Credited, c
  <2>3. c.wallet.balance[w] \in Nat
    BY <1>1, <2>1 DEF PurseBooks
  <2>4. c.wallet.balance[w] + n >= 0 /\ n \in Int
    BY <2>3
  <2>5. type \in {"deposit", "withdrawal", "transfer", "reversal"}
    OBVIOUS
  <2>6. /\ Purse!Booked(c, w, n, type) \in PurseBooks
        /\ Stands(Purse!Booked(c, w, n, type), opening,
                  IF type \in {"transfer", "reversal"} THEN moved + n ELSE moved)
    BY <1>1, <1>2, <2>1, <2>4, <2>5, BookingStands
  <2> QED
    BY <1>3, <2>2, <2>6
<1>4. CASE ~Purse!CreditGranted(b, w)
  BY <1>1, <1>2, <1>4 DEF Purse!Credited, c
<1> QED
  BY <1>3, <1>4

\* A debit is booked only when the balance carries it.
LEMMA DebitStands ==
    ASSUME NEW b \in PurseBooks, NEW w, NEW n \in Nat, NEW type \in {"withdrawal", "transfer"},
           NEW opening \in Nat, NEW moved \in Int, Stands(b, opening, moved)
    PROVE  LET after == Purse!Debited(b, w, n, type) IN
           /\ after \in PurseBooks
           /\ Stands(after, opening, IF Purse!DebitGranted(b, w, n) /\ type = "transfer"
                                     THEN moved - n ELSE moved)
           /\ after.wallet.status = b.wallet.status
<1>1. CASE Purse!DebitGranted(b, w, n)
  <2>1. w \in Purse!WalletTypes /\ b.wallet.status # "none" /\ b.wallet.balance[w] >= n
    BY <1>1 DEF Purse!DebitGranted, Purse!Active
  <2>2. Purse!Debited(b, w, n, type) = Purse!Booked(b, w, -n, type)
    BY <1>1 DEF Purse!Debited
  <2>3. b.wallet.balance[w] \in Nat
    BY <2>1 DEF PurseBooks
  <2>4. b.wallet.balance[w] + (-n) >= 0 /\ -n \in Int /\ moved + (-n) = moved - n
    BY <2>1, <2>3
  <2>5. type \in {"deposit", "withdrawal", "transfer", "reversal"}
    OBVIOUS
  <2>6. /\ Purse!Booked(b, w, -n, type) \in PurseBooks
        /\ Purse!Booked(b, w, -n, type).wallet.status = b.wallet.status
        /\ Stands(Purse!Booked(b, w, -n, type), opening,
                  IF type \in {"transfer", "reversal"} THEN moved + (-n) ELSE moved)
    BY <2>1, <2>4, <2>5, BookingStands
  <2> QED
    BY <1>1, <2>2, <2>4, <2>6
<1>2. CASE ~Purse!DebitGranted(b, w, n)
  BY <1>2 DEF Purse!Debited
<1> QED
  BY <1>1, <1>2

\* A transfer books a debit and a credit of the same amount, or a debit that it undoes.
LEMMA TransferStands ==
    ASSUME NEW b \in PurseBooks, NEW from, NEW to, NEW n \in Nat,
           NEW opening \in Nat, Stands(b, opening, 0)
    PROVE  LET after == Purse!Transferred(b, from, to, n) IN
           after \in PurseBooks /\ Stands(after, opening, 0)
<1> DEFINE taken == Purse!Debited(b, from, n, "transfer")
<1>1. CASE ~Purse!DebitGranted(b, from, n)
  BY <1>1 DEF Purse!Transferred
<1>2. CASE Purse!DebitGranted(b, from, n)
  <2>1. 0 \in Int /\ 0 - n = -n /\ -n \in Int /\ (-n) + n = 0
    OBVIOUS
  <2>2. /\ taken \in PurseBooks /\ Stands(taken, opening, -n)
        /\ taken.wallet.status = b.wallet.status
    BY <1>2, <2>1, DebitStands
  <2>3. from \in Purse!WalletTypes /\ taken.wallet.status = "active"
    BY <1>2, <2>2 DEF Purse!DebitGranted, Purse!Active
  <2>4. /\ Purse!Transferred(b, from, to, n) =
             IF Purse!CreditGranted(taken, to) THEN Purse!Credited(taken, to, n, "transfer")
             ELSE Purse!Credited(taken, from, n, "reversal")
    BY <1>2 DEF Purse!Transferred, Purse!RolledBack
  <2> HIDE DEF taken
  <2>5. Purse!CreditGranted(taken, from)
    BY <2>3 DEF Purse!CreditGranted, Purse!WithWallet, Purse!Exists, Purse!Active
  <2>6. CASE Purse!CreditGranted(taken, to)
    <3>1. /\ Purse!Credited(taken, to, n, "transfer") \in PurseBooks
          /\ Stands(Purse!Credited(taken, to, n, "transfer"), opening, (-n) + n)
      BY <2>1, <2>2, <2>6, CreditStands
    <3> QED
      BY <2>1, <2>4, <2>6, <3>1
  <2>7. CASE ~Purse!CreditGranted(taken, to)
    <3>1. /\ Purse!Credited(taken, from, n, "reversal") \in PurseBooks
          /\ Stands(Purse!Credited(taken, from, n, "reversal"), opening, (-n) + n)
      BY <2>1, <2>2, <2>5, CreditStands
    <3> QED
      BY <2>1, <2>4, <2>7, <3>1
  <2> QED
    BY <2>6, <2>7
<1> QED
  BY <1>1, <1>2

\* The books of one user may be replaced by others that stand.
LEMMA BooksAreSet ==
    ASSUME PurseIInv, NEW u \in Holders, NEW b \in PurseBooks, Stands(b, initial[u], 0),
           Purse!Sets(u, b)
    PROVE  PurseIInv'
<1>1. /\ wallet' = [wallet EXCEPT ![u] = b.wallet] /\ history' = [history EXCEPT ![u] = b.history]
      /\ initial' = initial
  BY DEF Purse!Sets
<1>2. /\ b.wallet \in [status : {"none", "active", "frozen"}, balance : [Purse!WalletTypes -> Nat]]
      /\ b.history \in Seq(Purse!Bookings)
  BY DEF PurseBooks
<1>3. /\ wallet \in [Holders -> [status : {"none", "active", "frozen"},
                                 balance : [Purse!WalletTypes -> Nat]]]
      /\ history \in [Holders -> Seq(Purse!Bookings)] /\ initial \in [Holders -> Nat]
      /\ \A v \in Holders : Stands(Purse!Books(v), initial[v], 0)
  BY DEF PurseIInv
<1>4. /\ wallet'[u] = b.wallet /\ history'[u] = b.history
      /\ \A v \in Holders \ {u} : wallet'[v] = wallet[v] /\ history'[v] = history[v]
  BY <1>1, <1>3
<1>5. Stands(Purse!Books(u)', initial[u], 0)
  BY <1>4 DEF Purse!Books, Stands
<1>6. \A v \in Holders \ {u} : Stands(Purse!Books(v)', initial[v], 0)
  BY <1>3, <1>4 DEF Purse!Books
<1>7. /\ wallet' \in [Holders -> [status : {"none", "active", "frozen"},
                                  balance : [Purse!WalletTypes -> Nat]]]
      /\ history' \in [Holders -> Seq(Purse!Bookings)]
  BY <1>1, <1>2, <1>3
<1>8. \A v \in Holders : Stands(Purse!Books(v)', initial'[v], 0)
  BY <1>1, <1>5, <1>6
<1> QED
  BY <1>1, <1>3, <1>7, <1>8 DEF PurseIInv, Stands, Purse!Books

\* The books of a user, as they are.
LEMMA BooksOf ==
    ASSUME PurseIInv, NEW u \in Holders
    PROVE  /\ Purse!Books(u) \in PurseBooks /\ initial[u] \in Nat
           /\ Stands(Purse!Books(u), initial[u], 0)
BY DEF PurseIInv, PurseBooks, Purse!Books

\* No history adds up to nothing.
LEMMA NothingBooked ==
    ASSUME NEW opening \in Nat, NEW s \in {"none", "active"}, NEW bal \in [Purse!WalletTypes -> Nat],
           bal["subscription"] = opening, bal["commission"] = 0
    PROVE  Stands([wallet |-> [status |-> s, balance |-> bal], history |-> <<>>], opening, 0)
<1> DEFINE h == <<>>
<1>1. DOMAIN h = {}
  OBVIOUS
<1>2. \A w \in Purse!WalletTypes : Purse!On(w, h) = {}
  BY <1>1 DEF Purse!On
<1>3. Purse!Moves(h) = {}
  BY <1>1 DEF Purse!Moves
<1>4. Purse!Sum(h, {}) = 0
  BY SumEmpty, PurseSums DEF Purse!Sum
<1> HIDE DEF h
<1>5. \A w \in Purse!WalletTypes : Purse!Sum(h, Purse!On(w, h)) = 0
  BY <1>2, <1>4
<1>6. \A w \in Purse!WalletTypes :
        bal[w] = (IF w = "subscription" THEN opening ELSE 0) + Purse!Sum(h, Purse!On(w, h))
  BY <1>5 DEF Purse!WalletTypes
<1> QED
  BY <1>3, <1>4, <1>6 DEF Stands, h

\* Wallets that were not opened stand.
LEMMA PurseStarts == ASSUME Purse!Init PROVE PurseIInv
<1>1. /\ wallet = [u \in Holders |-> [status |-> "none", balance |-> [w \in Purse!WalletTypes |-> 0]]]
      /\ initial = [u \in Holders |-> 0] /\ history = [u \in Holders |-> <<>>]
  BY DEF Purse!Init
<1>2. ASSUME NEW u \in Holders PROVE Stands(Purse!Books(u), initial[u], 0)
  <2> DEFINE bal == [w \in Purse!WalletTypes |-> 0]
  <2>1. bal \in [Purse!WalletTypes -> Nat] /\ bal["subscription"] = 0 /\ bal["commission"] = 0
    BY DEF Purse!WalletTypes
  <2>2. Purse!Books(u) = [wallet |-> [status |-> "none", balance |-> bal], history |-> <<>>]
    BY <1>1 DEF Purse!Books
  <2>3. initial[u] = 0
    BY <1>1
  <2> HIDE DEF bal
  <2>4. Stands([wallet |-> [status |-> "none", balance |-> bal], history |-> <<>>], 0, 0)
    BY <2>1, NothingBooked
  <2> QED
    BY <2>2, <2>3, <2>4
<1>3. <<>> \in Seq(Purse!Bookings)
  OBVIOUS
<1>4. /\ wallet \in [Holders -> [status : {"none", "active", "frozen"},
                                 balance : [Purse!WalletTypes -> Nat]]]
      /\ history \in [Holders -> Seq(Purse!Bookings)] /\ initial \in [Holders -> Nat]
  BY <1>1, <1>3
<1> QED
  BY <1>2, <1>4 DEF PurseIInv

\* A wallet that did not exist has no history: its balance is what it is opened with.
LEMMA OpeningKeeps ==
    ASSUME Purse!WalletConstants, PurseIInv, NEW u \in Holders, Purse!CreateWallet(u)
    PROVE  PurseIInv'
<1>1. PICK n \in Amounts \cup {0} :
        /\ wallet' = [wallet EXCEPT ![u].status = "active", ![u].balance["subscription"] = n]
        /\ initial' = [initial EXCEPT ![u] = n]
  BY DEF Purse!CreateWallet
<1>2. n \in Nat /\ history' = history /\ wallet[u].status = "none"
  BY DEF Purse!CreateWallet, Purse!WalletConstants
<1>3. /\ wallet \in [Holders -> [status : {"none", "active", "frozen"},
                                 balance : [Purse!WalletTypes -> Nat]]]
      /\ history \in [Holders -> Seq(Purse!Bookings)] /\ initial \in [Holders -> Nat]
      /\ \A v \in Holders : Stands(Purse!Books(v), initial[v], 0)
  BY DEF PurseIInv
<1>4. \A v \in Holders \ {u} : wallet'[v] = wallet[v] /\ initial'[v] = initial[v]
  BY <1>1, <1>3
<1>5. \A v \in Holders \ {u} : Stands(Purse!Books(v)', initial'[v], 0)
  BY <1>2, <1>3, <1>4 DEF Purse!Books
<1>6. history[u] = <<>>
  BY <1>2, <1>3 DEF Stands, Purse!Books
<1> DEFINE bal == [wallet[u].balance EXCEPT !["subscription"] = n]
<1>7. "subscription" \in Purse!WalletTypes /\ "commission" \in Purse!WalletTypes
  BY DEF Purse!WalletTypes
<1>8. wallet[u].balance \in [Purse!WalletTypes -> Nat]
  BY <1>3
<1>9. wallet'[u] = [status |-> "active", balance |-> bal] /\ initial'[u] = n
  BY <1>1, <1>3
<1>10. wallet[u].balance["commission"] = 0
  <2>1. Purse!Sum(history[u], Purse!On("commission", history[u])) = 0
    <3>1. Purse!On("commission", history[u]) = {}
      BY <1>6 DEF Purse!On
    <3> QED
      BY <3>1, SumEmpty, PurseSums DEF Purse!Sum
  <2>2. wallet[u].balance["commission"] =
          0 + Purse!Sum(history[u], Purse!On("commission", history[u]))
    BY <1>3, <1>7 DEF Stands, Purse!Books
  <2> QED
    BY <2>1, <2>2
<1>11. bal \in [Purse!WalletTypes -> Nat] /\ bal["subscription"] = n /\ bal["commission"] = 0
  BY <1>2, <1>7, <1>8, <1>10
<1> HIDE DEF bal
<1>12. Stands([wallet |-> [status |-> "active", balance |-> bal], history |-> <<>>], n, 0)
  BY <1>2, <1>11, NothingBooked
<1>13. Purse!Books(u)' = [wallet |-> [status |-> "active", balance |-> bal], history |-> <<>>]
  BY <1>2, <1>6, <1>9 DEF Purse!Books
<1>14. Stands(Purse!Books(u)', initial'[u], 0)
  BY <1>9, <1>12, <1>13
<1>15. wallet' \in [Holders -> [status : {"none", "active", "frozen"},
                                balance : [Purse!WalletTypes -> Nat]]]
  <2>1. wallet' = [wallet EXCEPT ![u] = wallet'[u]]
    BY <1>1, <1>3
  <2>2. wallet'[u] \in [status : {"none", "active", "frozen"}, balance : [Purse!WalletTypes -> Nat]]
    BY <1>9, <1>11
  <2> QED
    BY <1>3, <2>1, <2>2
<1>16. initial' \in [Holders -> Nat]
  BY <1>1, <1>2, <1>3
<1> QED
  BY <1>2, <1>3, <1>5, <1>14, <1>15, <1>16 DEF PurseIInv, Stands, Purse!Books

\* Freezing moves no money.
LEMMA FreezingKeeps ==
    ASSUME PurseIInv, NEW u \in Holders, NEW s \in {"active", "frozen"}, Purse!SetStatus(u, s)
    PROVE  PurseIInv'
<1>1. /\ wallet[u].status # "none" /\ wallet' = [wallet EXCEPT ![u].status = s]
      /\ initial' = initial /\ history' = history
  BY DEF Purse!SetStatus
<1>2. /\ wallet \in [Holders -> [status : {"none", "active", "frozen"},
                                 balance : [Purse!WalletTypes -> Nat]]]
      /\ history \in [Holders -> Seq(Purse!Bookings)] /\ initial \in [Holders -> Nat]
      /\ \A v \in Holders : Stands(Purse!Books(v), initial[v], 0)
  BY DEF PurseIInv
<1>3. wallet'[u].balance = wallet[u].balance /\ wallet'[u].status = s
  BY <1>1, <1>2
<1>4. \A v \in Holders \ {u} : wallet'[v] = wallet[v]
  BY <1>1, <1>2
<1>5. wallet' \in [Holders -> [status : {"none", "active", "frozen"},
                               balance : [Purse!WalletTypes -> Nat]]]
  BY <1>1, <1>2
<1>6. Stands(Purse!Books(u)', initial[u], 0)
  BY <1>1, <1>2, <1>3 DEF Stands, Purse!Books
<1>7. \A v \in Holders \ {u} : Stands(Purse!Books(v)', initial[v], 0)
  BY <1>1, <1>2, <1>4 DEF Purse!Books
<1> QED
  <2>1. \A v \in Holders : Stands(Purse!Books(v)', initial[v], 0)
    BY <1>6, <1>7
  <2>2. \A v \in Holders : Stands(Purse!Books(v), initial[v], 0)'
    BY <1>1, <2>1 DEF Stands, Purse!Books
  <2> QED
    BY <1>1, <1>2, <1>5, <2>2 DEF PurseIInv

\* No step of the wallets parts a balance from its history.
LEMMA PurseStep ==
    ASSUME Purse!WalletConstants, PurseIInv, Purse!Next
    PROVE  PurseIInv'
<1>1. PICK u \in Holders :
        \/ Purse!CreateWallet(u) \/ Purse!FreezeWallet(u) \/ Purse!UnfreezeWallet(u)
        \/ \E n \in Amounts, w \in Purse!WalletTypes \cup {"other"} :
             Purse!CreditWallet(u, w, n) \/ Purse!DebitWallet(u, w, n)
        \/ \E n \in Amounts, from, to \in Purse!WalletTypes \cup {"other"} :
             Purse!Transfer(u, from, to, n)
  BY DEF Purse!Next
<1> DEFINE b == Purse!Books(u)
<1>2. b \in PurseBooks /\ initial[u] \in Nat /\ Stands(b, initial[u], 0)
  BY BooksOf
<1>3. \A n \in Amounts : n \in Nat
  BY DEF Purse!WalletConstants
<1>4. CASE Purse!CreateWallet(u)
  BY <1>4, OpeningKeeps
<1>5. CASE Purse!FreezeWallet(u) \/ Purse!UnfreezeWallet(u)
  BY <1>5, FreezingKeeps DEF Purse!FreezeWallet, Purse!UnfreezeWallet
<1>6. ASSUME NEW n \in Amounts, NEW w, Purse!CreditWallet(u, w, n)
      PROVE  PurseIInv'
  <2> DEFINE c == Purse!Credited(b, w, n, "deposit")
  <2>1. c \in PurseBooks /\ Stands(c, initial[u], 0)
    BY <1>2, <1>3, CreditStands
  <2>2. Purse!Sets(u, c)
    BY <1>6 DEF Purse!CreditWallet
  <2> HIDE DEF b, c
  <2> QED
    BY <2>1, <2>2, BooksAreSet
<1>7. ASSUME NEW n \in Amounts, NEW w, Purse!DebitWallet(u, w, n)
      PROVE  PurseIInv'
  <2> DEFINE c == Purse!Debited(b, w, n, "withdrawal")
  <2>1. c \in PurseBooks /\ Stands(c, initial[u], 0)
    BY <1>2, <1>3, DebitStands
  <2>2. Purse!Sets(u, c)
    BY <1>7 DEF Purse!DebitWallet
  <2> HIDE DEF b, c
  <2> QED
    BY <2>1, <2>2, BooksAreSet
<1>8. ASSUME NEW n \in Amounts, NEW from, NEW to, Purse!Transfer(u, from, to, n)
      PROVE  PurseIInv'
  <2> DEFINE c == Purse!Transferred(b, from, to, n)
  <2>1. c \in PurseBooks /\ Stands(c, initial[u], 0)
    BY <1>2, <1>3, TransferStands
  <2>2. Purse!Sets(u, c)
    BY <1>8 DEF Purse!Transfer
  <2> HIDE DEF b, c
  <2> QED
    BY <2>1, <2>2, BooksAreSet
<1> QED
  BY <1>1, <1>4, <1>5, <1>6, <1>7, <1>8

-----------------------------------------------------------------------------
\* Affiliates.

\* The affiliates' sets are counted, and their sums taken, like all others.
LEMMA PartnersCount ==
    /\ \A S : Partners!IsFiniteSet(S) <=> IsFiniteSet(S)
    /\ \A S : Partners!Cardinality(S) = Cardinality(S)
    /\ \A f, S : Partners!SumFunctionOnSet(f, S) = SumFunctionOnSet(f, S)
<1>1. \A S : Partners!IsFiniteSet(S) <=> IsFiniteSet(S)
  BY Zenon DEF Partners!IsFiniteSet, IsFiniteSet
<1>2. \A S : Partners!Cardinality(S) = Cardinality(S)
  BY Zenon DEF Partners!Cardinality, Cardinality
<1>3. \A f, S : Partners!SumFunctionOnSet(f, S) = SumFunctionOnSet(f, S)
  BY Zenon DEF Partners!SumFunctionOnSet, Partners!FoldFunctionOnSet, Partners!MapThenFoldSet,
     SumFunctionOnSet, FoldFunctionOnSet, MapThenFoldSet
<1> QED
  BY <1>1, <1>2, <1>3

Converted(a) == Partners!ReferralsOf(a, {"converted"})
Counted(a) == Partners!ReferralsOf(a, {"converted", "paid"})
PayoutsTo(a) == {p \in Payouts : payouts[p].to = a /\ payouts[p].status \in Partners!PayoutStates}
Due == [u \in Invited |-> referrals[u].commission]
Worth == [u \in Invited |-> referrals[u].amount]
PaidOut == [p \in Payouts |-> payouts[p].amount]

\* CommissionsAreAccounted, of one affiliate.
Accounted(a) ==
    /\ totals[a].commissions = SumFunctionOnSet(Due, Converted(a))
                                 + SumFunctionOnSet(PaidOut, PayoutsTo(a))
    /\ totals[a].referrals = Cardinality(Counted(a))
    /\ totals[a].revenue = SumFunctionOnSet(Worth, Counted(a))
    /\ \A l \in 1..level[a] : /\ totals[a].referrals >= Commission.levels[l].referrals
                              /\ totals[a].revenue >= Commission.levels[l].revenue

PartnersIInv == Partners!TypeOK /\ \A a \in Members : Accounted(a)

\* What is owed and paid are sums over the commissions.
LEMMA AccountsAreCommissions ==
    (\A a \in Members : Accounted(a)) <=> Partners!CommissionsAreAccounted
<1>1. \A a : /\ Partners!Pending(a) = SumFunctionOnSet(Due, Converted(a))
             /\ Partners!PaidTo(a, Partners!PayoutStates) = SumFunctionOnSet(PaidOut, PayoutsTo(a))
             /\ Partners!SumFunctionOnSet([u \in Invited |-> referrals[u].amount], Counted(a)) =
                  SumFunctionOnSet(Worth, Counted(a))
             /\ Partners!Cardinality(Counted(a)) = Cardinality(Counted(a))
  BY PartnersCount DEF Partners!Pending, Partners!PaidTo, Due, Worth, PaidOut, Converted, Counted,
     PayoutsTo
<1> QED
  BY <1>1 DEF Accounted, Partners!CommissionsAreAccounted, Counted

\* What is summed are finitely many natural numbers.
LEMMA AffiliateSets ==
    ASSUME Partners!AffiliateConstants, Partners!TypeOK, NEW a
    PROVE  /\ Converted(a) \subseteq Invited /\ IsFiniteSet(Converted(a))
           /\ Counted(a) \subseteq Invited /\ IsFiniteSet(Counted(a))
           /\ PayoutsTo(a) \subseteq Payouts /\ IsFiniteSet(PayoutsTo(a))
           /\ \A u \in Invited : Due[u] \in Int /\ Worth[u] \in Int
           /\ \A p \in Payouts : PaidOut[p] \in Int
<1>1. Converted(a) \subseteq Invited /\ Counted(a) \subseteq Invited /\ PayoutsTo(a) \subseteq Payouts
  BY DEF Converted, Counted, PayoutsTo, Partners!ReferralsOf
<1>2. IsFiniteSet(Invited) /\ IsFiniteSet(Payouts)
  BY PartnersCount DEF Partners!AffiliateConstants
<1>3. \A u \in Invited : referrals[u].amount \in Nat /\ referrals[u].commission \in Nat
  BY DEF Partners!TypeOK, Partners!NoReferral
<1>4. \A p \in Payouts : payouts[p].amount \in Nat
  BY DEF Partners!TypeOK, Partners!NoPayout
<1> QED
  BY <1>1, <1>2, <1>3, <1>4, FS_Subset DEF Due, Worth, PaidOut

\* An account that is left alone stays accounted.
LEMMA SameAccount ==
    ASSUME Partners!AffiliateConstants, Partners!TypeOK, NEW a \in Members, Accounted(a),
           totals'[a] = totals[a], level'[a] = level[a],
           Converted(a)' = Converted(a), Counted(a)' = Counted(a), PayoutsTo(a)' = PayoutsTo(a),
           \A u \in Counted(a) : /\ referrals'[u].amount = referrals[u].amount
                                 /\ referrals'[u].commission = referrals[u].commission,
           \A p \in PayoutsTo(a) : payouts'[p].amount = payouts[p].amount
    PROVE  Accounted(a)'
<1>1. /\ Converted(a) \subseteq Invited /\ IsFiniteSet(Converted(a))
      /\ Counted(a) \subseteq Invited /\ IsFiniteSet(Counted(a))
      /\ PayoutsTo(a) \subseteq Payouts /\ IsFiniteSet(PayoutsTo(a))
      /\ \A u \in Invited : Due[u] \in Int /\ Worth[u] \in Int
      /\ \A p \in Payouts : PaidOut[p] \in Int
  BY AffiliateSets
<1>2. Converted(a) \subseteq Counted(a)
  BY DEF Converted, Counted, Partners!ReferralsOf
<1>3. \A u \in Counted(a) : Due[u] = Due'[u] /\ Worth[u] = Worth'[u]
  BY <1>1 DEF Due, Worth
<1>4. \A p \in PayoutsTo(a) : PaidOut[p] = PaidOut'[p]
  BY <1>1 DEF PaidOut
<1>5. SumFunctionOnSet(Due, Converted(a)) = SumFunctionOnSet(Due', Converted(a))
  <2>1. \A u \in Converted(a) : Due[u] \in Int /\ Due[u] = Due'[u]
    BY <1>1, <1>2, <1>3
  <2> QED
    BY <1>1, <2>1, SumSame
<1>6. SumFunctionOnSet(Worth, Counted(a)) = SumFunctionOnSet(Worth', Counted(a))
  <2>1. \A u \in Counted(a) : Worth[u] \in Int /\ Worth[u] = Worth'[u]
    BY <1>1, <1>3
  <2> QED
    BY <1>1, <2>1, SumSame
<1>7. SumFunctionOnSet(PaidOut, PayoutsTo(a)) = SumFunctionOnSet(PaidOut', PayoutsTo(a))
  <2>1. \A p \in PayoutsTo(a) : PaidOut[p] \in Int /\ PaidOut[p] = PaidOut'[p]
    BY <1>1, <1>4
  <2> QED
    BY <1>1, <2>1, SumSame
<1> QED
  BY <1>5, <1>6, <1>7 DEF Accounted

\* A level that is reached leaves no level below it that is not.
LEMMA LevelIsReached ==
    ASSUME Partners!AffiliateConstants, Partners!TypeOK, NEW a \in Members, Accounted(a),
           NEW sums \in [referrals : Nat, revenue : Nat, commissions : Nat],
           sums.referrals >= totals[a].referrals, sums.revenue >= totals[a].revenue
    PROVE  LET m == Partners!Reached(a, sums) IN
           /\ m \in 1..Len(Commission.levels)
           /\ \A l \in 1..m : /\ sums.referrals >= Commission.levels[l].referrals
                              /\ sums.revenue >= Commission.levels[l].revenue
<1> DEFINE L == Commission.levels
           m == Partners!Reached(a, sums)
           above == {l \in (level[a] + 1)..Len(L) :
                       sums.referrals >= L[l].referrals /\ sums.revenue >= L[l].revenue}
<1>1. /\ L \in Seq([rate : Nat, referrals : Nat, revenue : Nat]) /\ Len(L) \in Nat
      /\ \A l \in 1..Len(L) : \A k \in 1..l :
           L[k].referrals <= L[l].referrals /\ L[k].revenue <= L[l].revenue
  BY DEF Partners!AffiliateConstants
<1>2. \A l \in 1..Len(L) : L[l].referrals \in Nat /\ L[l].revenue \in Nat
  <2> DEFINE R == [rate : Nat, referrals : Nat, revenue : Nat]
  <2>0. L \in Seq(R)
    BY <1>1
  <2> HIDE DEF L, R
  <2>1. \A l \in 1..Len(L) : L[l] \in R
    BY ONLY <2>0
  <2> USE DEF R
  <2> QED
    BY <2>1
<1>3. /\ level[a] \in 1..Len(L) /\ totals[a].referrals \in Nat /\ totals[a].revenue \in Nat
      /\ sums.referrals \in Nat /\ sums.revenue \in Nat
  BY DEF Partners!TypeOK
<1>4. \A l \in 1..level[a] : totals[a].referrals >= L[l].referrals /\ totals[a].revenue >= L[l].revenue
  BY DEF Accounted
<1>5. m = IF above = {} THEN level[a] ELSE Partners!Min(above)
  BY DEF Partners!Reached
<1> HIDE DEF m, L
<1>6. CASE above = {}
  <2>1. m = level[a]
    BY <1>5, <1>6
  <2>2. \A l \in 1..m : l \in 1..Len(L)
    BY <1>1, <1>3, <2>1
  <2>3. \A l \in 1..m : sums.referrals >= L[l].referrals /\ sums.revenue >= L[l].revenue
    BY <1>2, <1>3, <1>4, <2>1, <2>2
  <2> QED
    BY <1>3, <2>1, <2>3 DEF m, L
<1>7. CASE above # {}
  <2>1. above \in SUBSET Nat
    BY <1>1, <1>3
  <2>2. \E n \in above : \A k \in above : n <= k
    BY <1>7, <2>1, LeastNatural
  <2>3. m \in above
    BY <1>5, <1>7, <2>2 DEF Partners!Min
  <2>4. m \in (level[a] + 1)..Len(L) /\ sums.referrals >= L[m].referrals /\ sums.revenue >= L[m].revenue
    BY <2>3
  <2>5. m \in 1..Len(L)
    BY <1>1, <1>3, <2>4
  <2>6. \A l \in 1..m : l \in 1..Len(L)
    BY <1>1, <2>5
  <2>7. \A l \in 1..m : L[l].referrals <= L[m].referrals /\ L[l].revenue <= L[m].revenue
    BY <1>1, <2>5
  <2>8. \A l \in 1..m : sums.referrals >= L[l].referrals /\ sums.revenue >= L[l].revenue
    BY <1>2, <1>3, <2>4, <2>5, <2>6, <2>7
  <2> QED
    BY <2>5, <2>8 DEF m, L
<1> QED
  BY <1>6, <1>7

\* Before any conversion nothing is owed.
LEMMA PartnersStart ==
    ASSUME Partners!AffiliateConstants, Partners!Init
    PROVE  PartnersIInv
<1>1. 1 \in 1..Len(Commission.levels)
  BY DEF Partners!AffiliateConstants
<1>2. Partners!TypeOK
  BY <1>1 DEF Partners!Init, Partners!TypeOK
<1>3. ASSUME NEW a \in Members PROVE Accounted(a)
  <2>1. Converted(a) = {} /\ Counted(a) = {}
    BY DEF Converted, Counted, Partners!ReferralsOf, Partners!Init, Partners!NoReferral
  <2>2. PayoutsTo(a) = {}
    BY DEF PayoutsTo, Partners!Init, Partners!NoPayout, Partners!PayoutStates
  <2>3. SumFunctionOnSet(Due, {}) = 0 /\ SumFunctionOnSet(Worth, {}) = 0
        /\ SumFunctionOnSet(PaidOut, {}) = 0 /\ Cardinality({}) = 0
    BY SumEmpty, FS_EmptySet
  <2>4. totals[a] = [referrals |-> 0, revenue |-> 0, commissions |-> 0] /\ level[a] = 1
    BY DEF Partners!Init
  <2>5. Commission.levels[1].referrals = 0 /\ Commission.levels[1].revenue = 0
    BY DEF Partners!AffiliateConstants
  <2>6. \A l \in 1..level[a] : l = 1
    BY <2>4
  <2> QED
    BY <2>1, <2>2, <2>3, <2>4, <2>5, <2>6 DEF Accounted
<1> QED
  BY <1>2, <1>3 DEF PartnersIInv

\* Approvals and suspensions owe nobody anything.
LEMMA AffiliateKeeps ==
    ASSUME Partners!AffiliateConstants, PartnersIInv, UNCHANGED <<level, totals, referrals, payouts>>,
           status' \in [Members -> {"none", "pending", "active", "suspended"}]
    PROVE  PartnersIInv'
<1>1. Partners!TypeOK'
  BY DEF PartnersIInv, Partners!TypeOK
<1>2. ASSUME NEW a \in Members PROVE Accounted(a)'
  BY DEF PartnersIInv, Accounted, Converted, Counted, PayoutsTo, Due, Worth, PaidOut,
     Partners!ReferralsOf
<1> QED
  BY <1>1, <1>2 DEF PartnersIInv

\* A referral that comes or expires is not counted.
LEMMA ReferralKeeps ==
    ASSUME Partners!AffiliateConstants, PartnersIInv, NEW u \in Invited, NEW r,
           r \in [by : Members, status : {"pending", "expired"}, amount : Nat, commission : Nat],
           referrals[u].status \notin {"converted", "paid"},
           referrals' = [referrals EXCEPT ![u] = r],
           UNCHANGED <<status, level, totals, payouts>>
    PROVE  PartnersIInv'
<1>1. /\ Partners!TypeOK
      /\ referrals \in [Invited -> {Partners!NoReferral} \cup
            [by : Members, status : {"pending", "expired", "converted", "paid"},
             amount : Nat, commission : Nat]]
  BY DEF PartnersIInv, Partners!TypeOK
<1>2. referrals'[u] = r /\ \A v \in Invited \ {u} : referrals'[v] = referrals[v]
  BY <1>1
<1>3. Partners!TypeOK'
  BY <1>1 DEF Partners!TypeOK
<1>4. ASSUME NEW a \in Members PROVE Accounted(a)'
  <2>1. Converted(a)' = Converted(a) /\ Counted(a)' = Counted(a)
    BY <1>2 DEF Converted, Counted, Partners!ReferralsOf
  <2>2. PayoutsTo(a)' = PayoutsTo(a)
    BY DEF PayoutsTo
  <2>3. \A v \in Counted(a) : referrals'[v] = referrals[v]
    BY <1>2 DEF Counted, Partners!ReferralsOf
  <2>4. Accounted(a) /\ payouts' = payouts /\ totals' = totals /\ level' = level
    BY DEF PartnersIInv
  <2> QED
    BY <1>1, <2>1, <2>2, <2>3, <2>4, SameAccount
<1> QED
  BY <1>3, <1>4 DEF PartnersIInv

\* Settling a payout takes it from nobody.
LEMMA SettlementKeeps ==
    ASSUME Partners!AffiliateConstants, PartnersIInv, NEW p \in Payouts,
           NEW new \in {"processing", "completed", "failed"}, Partners!SettlePayout(p, new)
    PROVE  PartnersIInv'
<1>1. /\ Partners!TypeOK
      /\ payouts \in [Payouts -> {Partners!NoPayout} \cup
            [to : Members, amount : Nat, status : Partners!PayoutStates]]
  BY DEF PartnersIInv, Partners!TypeOK
<1>2. /\ payouts[p] # Partners!NoPayout /\ payouts' = [payouts EXCEPT ![p].status = new]
      /\ UNCHANGED <<status, level, totals, referrals>>
  BY DEF Partners!SettlePayout
<1>3. payouts[p] \in [to : Members, amount : Nat, status : Partners!PayoutStates]
  BY <1>1, <1>2
<1>4. payouts'[p] = [payouts[p] EXCEPT !.status = new]
      /\ \A q \in Payouts \ {p} : payouts'[q] = payouts[q]
  BY <1>1, <1>2
<1>5. payouts'[p] \in [to : Members, amount : Nat, status : Partners!PayoutStates]
      /\ payouts'[p].to = payouts[p].to /\ payouts'[p].amount = payouts[p].amount
  BY <1>3, <1>4 DEF Partners!PayoutStates
<1>6. Partners!TypeOK'
  BY <1>1, <1>2, <1>5 DEF Partners!TypeOK
<1>7. ASSUME NEW a \in Members PROVE Accounted(a)'
  <2>1. Converted(a)' = Converted(a) /\ Counted(a)' = Counted(a)
    BY <1>2 DEF Converted, Counted, Partners!ReferralsOf
  <2>2. payouts[p].status \in Partners!PayoutStates /\ payouts'[p].status \in Partners!PayoutStates
    BY <1>3, <1>5
  <2>3. PayoutsTo(a)' = PayoutsTo(a)
    BY <1>4, <1>5, <2>2 DEF PayoutsTo
  <2>4. \A q \in PayoutsTo(a) : payouts'[q].amount = payouts[q].amount
    BY <1>4, <1>5 DEF PayoutsTo
  <2>5. Accounted(a)
    BY DEF PartnersIInv
  <2> QED
    BY <1>1, <1>2, <2>1, <2>3, <2>4, <2>5, SameAccount
<1> QED
  BY <1>6, <1>7 DEF PartnersIInv

\* A conversion adds its commission to what is owed, its amount to the revenue and one to
\* the referrals, for the affiliate whose referral it is.
LEMMA ConversionKeeps ==
    ASSUME Partners!AffiliateConstants, PartnersIInv, NEW u \in Invited, NEW amount \in Amounts,
           NEW a \in Members, a = referrals[u].by, Partners!ConvertReferral(u, amount)
    PROVE  PartnersIInv'
<1> DEFINE commission == amount * Commission.levels[level[a]].rate
           sums == [referrals |-> totals[a].referrals + 1,
                    revenue |-> totals[a].revenue + amount,
                    commissions |-> totals[a].commissions + commission]
           r == [referrals[u] EXCEPT !.status = "converted", !.amount = amount,
                                     !.commission = commission]
           Converts == [by : Members, status : {"pending", "expired", "converted", "paid"},
                        amount : Nat, commission : Nat]
<1>1. Partners!TypeOK /\ \A b \in Members : Accounted(b)
  BY DEF PartnersIInv
<1>2. referrals[u].status = "pending"
  BY DEF Partners!ConvertReferral
<1>3. /\ referrals' = [referrals EXCEPT ![u] = r] /\ totals' = [totals EXCEPT ![a] = sums]
      /\ level' = [level EXCEPT ![a] = Partners!Reached(a, sums)]
      /\ status' = status /\ payouts' = payouts
  BY DEF Partners!ConvertReferral
<1>4. referrals \in [Invited -> {Partners!NoReferral} \cup Converts]
  BY <1>1 DEF Partners!TypeOK
<1>5. referrals[u] \in Converts
  BY <1>2, <1>4 DEF Partners!NoReferral
<1>6. amount \in Nat /\ commission \in Nat
  <2>1. level[a] \in 1..Len(Commission.levels)
    BY <1>1, <1>5 DEF Partners!TypeOK
  <2>2. amount \in Nat
    BY DEF Partners!AffiliateConstants
  <2> DEFINE R == [rate : Nat, referrals : Nat, revenue : Nat]
             L == Commission.levels
             l == level[a]
  <2>3. L \in Seq(R)
    BY DEF Partners!AffiliateConstants
  <2>4. l \in 1..Len(L)
    BY <2>1
  <2> HIDE DEF R, L, l
  <2>5. L[l] \in R
    BY ONLY <2>3, <2>4
  <2>6. L[l].rate \in Nat
    BY <2>5 DEF R
  <2>7. amount * L[l].rate \in Nat
    BY ONLY <2>2, <2>6
  <2> QED
    BY <2>2, <2>7 DEF L, l
<1>7. r \in Converts /\ r.by = a /\ r.status = "converted" /\ r.amount = amount
      /\ r.commission = commission
  <2> HIDE DEF commission
  <2> QED
    BY <1>5, <1>6
<1>8. sums \in [referrals : Nat, revenue : Nat, commissions : Nat]
      /\ totals[a] \in [referrals : Nat, revenue : Nat, commissions : Nat]
  <2>1. totals[a] \in [referrals : Nat, revenue : Nat, commissions : Nat]
    BY <1>1, <1>5 DEF Partners!TypeOK
  <2> HIDE DEF commission
  <2> QED
    BY <1>6, <2>1
<1> DEFINE m == Partners!Reached(a, sums)
<1>9. /\ m \in 1..Len(Commission.levels)
      /\ \A l \in 1..m : /\ sums.referrals >= Commission.levels[l].referrals
                         /\ sums.revenue >= Commission.levels[l].revenue
  <2>1. sums.referrals >= totals[a].referrals /\ sums.revenue >= totals[a].revenue
    <3> HIDE DEF commission
    <3> QED
      BY <1>6, <1>8
  <2> HIDE DEF sums
  <2> QED
    BY <1>1, <1>5, <1>8, <2>1, LevelIsReached
<1>10. /\ sums.referrals = totals[a].referrals + 1 /\ sums.revenue = totals[a].revenue + amount
       /\ sums.commissions = totals[a].commissions + commission
  OBVIOUS
<1> HIDE DEF commission, sums, r, m
<1>11. referrals'[u] = r /\ \A v \in Invited \ {u} : referrals'[v] = referrals[v]
  BY <1>3, <1>4
<1>12. /\ totals'[a] = sums /\ level'[a] = m
       /\ \A b \in Members \ {a} : totals'[b] = totals[b] /\ level'[b] = level[b]
  BY <1>1, <1>3, <1>5 DEF Partners!TypeOK, m
<1>13. Partners!TypeOK'
  <2>1. referrals' \in [Invited -> {Partners!NoReferral} \cup Converts]
    BY <1>3, <1>4, <1>7
  <2>2. totals' \in [Members -> [referrals : Nat, revenue : Nat, commissions : Nat]]
    BY <1>1, <1>3, <1>8 DEF Partners!TypeOK
  <2>3. level' \in [Members -> 1..Len(Commission.levels)]
    BY <1>1, <1>3, <1>9 DEF Partners!TypeOK, m
  <2> QED
    BY <1>1, <1>3, <2>1, <2>2, <2>3 DEF Partners!TypeOK
<1>14. \A b \in Members : PayoutsTo(b)' = PayoutsTo(b) /\ PaidOut' = PaidOut
  BY <1>3 DEF PayoutsTo, PaidOut
<1>15. ASSUME NEW b \in Members \ {a} PROVE Accounted(b)'
  <2>1. Converted(b)' = Converted(b) /\ Counted(b)' = Counted(b)
    BY <1>2, <1>7, <1>11 DEF Converted, Counted, Partners!ReferralsOf
  <2>2. \A v \in Counted(b) : referrals'[v] = referrals[v]
    BY <1>2, <1>11 DEF Counted, Partners!ReferralsOf
  <2> QED
    BY <1>1, <1>3, <1>12, <1>14, <2>1, <2>2, SameAccount
<1>16. Accounted(a)'
  <2>1. /\ Converted(a)' = Converted(a) \cup {u} /\ u \notin Converted(a)
        /\ Counted(a)' = Counted(a) \cup {u} /\ u \notin Counted(a)
    BY <1>2, <1>7, <1>11 DEF Converted, Counted, Partners!ReferralsOf
  <2>2. /\ Converted(a) \subseteq Invited /\ IsFiniteSet(Converted(a))
        /\ Counted(a) \subseteq Invited /\ IsFiniteSet(Counted(a))
        /\ PayoutsTo(a) \subseteq Payouts /\ IsFiniteSet(PayoutsTo(a))
        /\ \A v \in Invited : Due[v] \in Int /\ Worth[v] \in Int
        /\ \A p \in Payouts : PaidOut[p] \in Int
    BY <1>1, AffiliateSets
  <2>3. /\ Due'[u] = commission /\ Worth'[u] = amount
        /\ \A v \in Invited \ {u} : Due'[v] = Due[v] /\ Worth'[v] = Worth[v]
    BY <1>7, <1>11 DEF Due, Worth
  <2>4. SumFunctionOnSet(Due', Converted(a) \cup {u}) =
          SumFunctionOnSet(Due, Converted(a)) + commission
    <3>1. \A v \in Converted(a) : Due[v] \in Int /\ Due'[v] = Due[v]
      BY <2>1, <2>2, <2>3
    <3>2. Due'[u] \in Int
      BY <1>6, <2>3
    <3>3. SumFunctionOnSet(Due', Converted(a) \cup {u}) =
            SumFunctionOnSet(Due, Converted(a)) + Due'[u]
      BY <2>1, <2>2, <3>1, <3>2, SumGains
    <3> QED
      BY <2>3, <3>3
  <2>5. SumFunctionOnSet(Worth', Counted(a) \cup {u}) =
          SumFunctionOnSet(Worth, Counted(a)) + amount
    <3>1. \A v \in Counted(a) : Worth[v] \in Int /\ Worth'[v] = Worth[v]
      BY <2>1, <2>2, <2>3
    <3>2. Worth'[u] \in Int
      BY <1>6, <2>3
    <3>3. SumFunctionOnSet(Worth', Counted(a) \cup {u}) =
            SumFunctionOnSet(Worth, Counted(a)) + Worth'[u]
      BY <2>1, <2>2, <3>1, <3>2, SumGains
    <3> QED
      BY <2>3, <3>3
  <2>6. Cardinality(Counted(a) \cup {u}) = Cardinality(Counted(a)) + 1
    BY <2>1, <2>2, FS_AddElement
  <2>7. /\ SumFunctionOnSet(Due, Converted(a)) \in Int
        /\ SumFunctionOnSet(PaidOut, PayoutsTo(a)) \in Int
    <3>1. /\ \A v \in Converted(a) : Due[v] \in Int
          /\ \A p \in PayoutsTo(a) : PaidOut[p] \in Int
      BY <2>2
    <3> QED
      BY <2>2, <3>1, SumInt
  <2>8. /\ totals[a].commissions = SumFunctionOnSet(Due, Converted(a))
                                     + SumFunctionOnSet(PaidOut, PayoutsTo(a))
        /\ totals[a].referrals = Cardinality(Counted(a))
        /\ totals[a].revenue = SumFunctionOnSet(Worth, Counted(a))
    BY <1>1, <1>5 DEF Accounted
  <2>9. sums.commissions = SumFunctionOnSet(Due', Converted(a) \cup {u})
                             + SumFunctionOnSet(PaidOut, PayoutsTo(a))
    BY <1>6, <1>10, <2>4, <2>7, <2>8
  <2>10. /\ sums.referrals = Cardinality(Counted(a) \cup {u})
         /\ sums.revenue = SumFunctionOnSet(Worth', Counted(a) \cup {u})
    BY <1>10, <2>5, <2>6, <2>8
  <2>11. \A l \in 1..level'[a] : /\ sums.referrals >= Commission.levels[l].referrals
                                 /\ sums.revenue >= Commission.levels[l].revenue
    BY <1>9, <1>12
  <2>12. /\ SumFunctionOnSet(Due, Converted(a))' = SumFunctionOnSet(Due', Converted(a) \cup {u})
         /\ SumFunctionOnSet(PaidOut, PayoutsTo(a))' = SumFunctionOnSet(PaidOut, PayoutsTo(a))
    BY <1>5, <1>14, <2>1
  <2> QED
    BY <1>5, <1>12, <1>14, <2>1, <2>9, <2>10, <2>11 DEF Accounted
<1> QED
  BY <1>13, <1>15, <1>16 DEF PartnersIInv

\* A payout is made out for all that is owed, and nothing of it is owed any more.
LEMMA PayoutKeeps ==
    ASSUME Partners!AffiliateConstants, PartnersIInv, NEW a \in Members, NEW p \in Payouts,
           Partners!RequestPayout(a, p)
    PROVE  PartnersIInv'
<1> DEFINE owed == SumFunctionOnSet(Due, Converted(a))
           made == [to |-> a, amount |-> owed, status |-> "pending"]
<1>1. Partners!TypeOK /\ \A b \in Members : Accounted(b)
  BY DEF PartnersIInv
<1>2. Partners!Pending(a) = owed
  BY PartnersCount DEF Partners!Pending, Due, Converted
<1>3. /\ payouts[p] = Partners!NoPayout /\ payouts' = [payouts EXCEPT ![p] = made]
      /\ owed >= Commission.payout /\ status' = status /\ level' = level /\ totals' = totals
  BY <1>2 DEF Partners!RequestPayout
<1>4. referrals' = [u \in Invited |-> IF u \in Converted(a)
                                      THEN [referrals[u] EXCEPT !.status = "paid"]
                                      ELSE referrals[u]]
  BY DEF Partners!RequestPayout, Partners!Marked, Converted
<1>5. /\ Converted(a) \subseteq Invited /\ IsFiniteSet(Converted(a))
      /\ PayoutsTo(a) \subseteq Payouts /\ IsFiniteSet(PayoutsTo(a))
      /\ \A u \in Invited : Due[u] \in Int /\ Worth[u] \in Int
      /\ \A q \in Payouts : PaidOut[q] \in Int
  BY <1>1, AffiliateSets
<1>6. owed \in Int
  <2>1. \A u \in Converted(a) : Due[u] \in Int
    BY <1>5
  <2> QED
    BY <1>5, <2>1, SumInt
<1>7. owed \in Nat
  BY <1>3, <1>6 DEF Partners!AffiliateConstants
<1>8. made \in [to : Members, amount : Nat, status : Partners!PayoutStates]
      /\ made.to = a /\ made.amount = owed /\ made.status = "pending"
  <2> HIDE DEF owed
  <2> QED
    BY <1>7 DEF Partners!PayoutStates
<1> HIDE DEF made
<1>9. \A u \in Converted(a) : referrals[u].by = a /\ referrals[u].status = "converted"
  BY DEF Converted, Partners!ReferralsOf
<1> DEFINE Converts == [by : Members, status : {"pending", "expired", "converted", "paid"},
                        amount : Nat, commission : Nat]
<1>10. referrals \in [Invited -> {Partners!NoReferral} \cup Converts]
  BY <1>1 DEF Partners!TypeOK
<1>11. \A u \in Converted(a) : referrals[u] \in Converts
  BY <1>5, <1>9, <1>10 DEF Partners!NoReferral
<1>12. /\ \A u \in Converted(a) : referrals'[u] = [referrals[u] EXCEPT !.status = "paid"]
       /\ \A u \in Invited \ Converted(a) : referrals'[u] = referrals[u]
  BY <1>4, <1>5
<1>13. \A u \in Converted(a) :
         /\ referrals'[u] \in Converts /\ referrals'[u].by = a /\ referrals'[u].status = "paid"
         /\ referrals'[u].amount = referrals[u].amount
         /\ referrals'[u].commission = referrals[u].commission
  <2> SUFFICES ASSUME NEW u \in Converted(a)
               PROVE  /\ referrals'[u] \in Converts /\ referrals'[u].by = a
                      /\ referrals'[u].status = "paid"
                      /\ referrals'[u].amount = referrals[u].amount
                      /\ referrals'[u].commission = referrals[u].commission
    OBVIOUS
  <2> DEFINE r == referrals[u]
             k == referrals'[u]
  <2>1. r \in Converts /\ r.by = a /\ k = [r EXCEPT !.status = "paid"]
    BY <1>9, <1>11, <1>12
  <2> HIDE DEF r, k
  <2>2. k \in Converts /\ k.by = a /\ k.status = "paid" /\ k.amount = r.amount
        /\ k.commission = r.commission
    BY ONLY <2>1
  <2> QED
    BY <2>2 DEF r, k
<1>14. referrals' \in [Invited -> {Partners!NoReferral} \cup Converts]
  <2>1. \A u \in Invited : referrals'[u] \in {Partners!NoReferral} \cup Converts
    BY <1>10, <1>12, <1>13
  <2>2. DOMAIN referrals' = Invited /\ referrals' = [u \in Invited |-> referrals'[u]]
    BY <1>4
  <2> HIDE DEF Converts
  <2> QED
    BY <2>1, <2>2
<1>15. payouts'[p] = made /\ \A q \in Payouts \ {p} : payouts'[q] = payouts[q]
  BY <1>1, <1>3 DEF Partners!TypeOK
<1>16. Partners!TypeOK'
  <2>1. payouts' \in [Payouts -> {Partners!NoPayout} \cup
                        [to : Members, amount : Nat, status : Partners!PayoutStates]]
    BY <1>1, <1>3, <1>8 DEF Partners!TypeOK
  <2> QED
    BY <1>1, <1>3, <1>14, <2>1 DEF Partners!TypeOK
<1>17. ASSUME NEW b \in Members \ {a} PROVE Accounted(b)'
  <2>1. \A u \in Converted(a) : referrals[u].by # b /\ referrals'[u].by # b
    BY <1>9, <1>13
  <2>2. Converted(b)' = Converted(b) /\ Counted(b)' = Counted(b)
    BY <1>12, <2>1 DEF Converted, Counted, Partners!ReferralsOf
  <2>3. \A u \in Counted(b) : referrals'[u] = referrals[u]
    BY <1>12, <2>1 DEF Counted, Partners!ReferralsOf
  <2>4. payouts[p].to # b
    BY <1>3 DEF Partners!NoPayout, Partners!AffiliateConstants
  <2>5. PayoutsTo(b)' = PayoutsTo(b)
    BY <1>8, <1>15, <2>4 DEF PayoutsTo
  <2>6. \A q \in PayoutsTo(b) : payouts'[q].amount = payouts[q].amount
    BY <1>15, <2>4 DEF PayoutsTo
  <2> QED
    BY <1>1, <1>3, <2>2, <2>3, <2>5, <2>6, SameAccount
<1>18. Accounted(a)'
  <2>1. Converted(a)' = {}
    <3>1. \A u \in Invited : ~(referrals'[u].by = a /\ referrals'[u].status = "converted")
      BY <1>12, <1>13 DEF Converted, Partners!ReferralsOf
    <3> QED
      BY <3>1 DEF Converted, Partners!ReferralsOf
  <2>2. Counted(a)' = Counted(a)
    <3>1. \A u \in Invited : (referrals'[u].by = a /\ referrals'[u].status \in {"converted", "paid"})
                               <=> (referrals[u].by = a /\ referrals[u].status \in {"converted", "paid"})
      BY <1>9, <1>12, <1>13
    <3> QED
      BY <3>1 DEF Counted, Partners!ReferralsOf
  <2>3. payouts[p].to # a
    BY <1>3 DEF Partners!NoPayout, Partners!AffiliateConstants
  <2>4. PayoutsTo(a)' = PayoutsTo(a) \cup {p} /\ p \notin PayoutsTo(a)
    BY <1>8, <1>15, <2>3 DEF PayoutsTo, Partners!PayoutStates
  <2>5. SumFunctionOnSet(PaidOut', PayoutsTo(a) \cup {p}) =
          SumFunctionOnSet(PaidOut, PayoutsTo(a)) + owed
    <3>1. \A q \in PayoutsTo(a) : PaidOut[q] \in Int /\ PaidOut'[q] = PaidOut[q]
      BY <1>5, <1>15, <2>4 DEF PaidOut
    <3>2. PaidOut'[p] = owed
      BY <1>8, <1>15 DEF PaidOut
    <3>3. SumFunctionOnSet(PaidOut', PayoutsTo(a) \cup {p}) =
            SumFunctionOnSet(PaidOut, PayoutsTo(a)) + PaidOut'[p]
      BY <1>5, <1>6, <2>4, <3>1, <3>2, SumGains
    <3> QED
      BY <3>2, <3>3
  <2>6. Counted(a) \subseteq Invited /\ IsFiniteSet(Counted(a))
    BY <1>1, AffiliateSets
  <2>7. SumFunctionOnSet(Worth', Counted(a)) = SumFunctionOnSet(Worth, Counted(a))
    <3>1. \A u \in Counted(a) : Worth[u] \in Int /\ Worth[u] = Worth'[u]
      BY <1>5, <1>12, <1>13, <2>6 DEF Worth
    <3> QED
      BY <2>6, <3>1, SumSame
  <2>8. SumFunctionOnSet(PaidOut, PayoutsTo(a)) \in Int
    <3>1. \A q \in PayoutsTo(a) : PaidOut[q] \in Int
      BY <1>5
    <3> QED
      BY <1>5, <3>1, SumInt
  <2>9. Accounted(a)
    BY <1>1
  <2>10. SumFunctionOnSet(Due', {}) = 0
    BY SumEmpty
  <2>11. totals[a].commissions = 0 + SumFunctionOnSet(PaidOut', PayoutsTo(a) \cup {p})
    BY <1>6, <2>5, <2>8, <2>9 DEF Accounted
  <2> QED
    BY <1>3, <2>1, <2>2, <2>4, <2>7, <2>9, <2>10, <2>11 DEF Accounted
<1> QED
  BY <1>16, <1>17, <1>18 DEF PartnersIInv

\* No step of the affiliates parts what they are owed from what was sold.
LEMMA PartnersStep ==
    ASSUME Partners!AffiliateConstants, PartnersIInv, Partners!Next
    PROVE  PartnersIInv'
<1>1. /\ status \in [Members -> {"none", "pending", "active", "suspended"}]
      /\ referrals \in [Invited -> {Partners!NoReferral} \cup
            [by : Members, status : {"pending", "expired", "converted", "paid"},
             amount : Nat, commission : Nat]]
  BY DEF PartnersIInv, Partners!TypeOK
<1>2. ASSUME NEW a \in Members, Partners!CreateAffiliate(a) PROVE PartnersIInv'
  <2>1. status' = [status EXCEPT ![a] = "pending"] /\ UNCHANGED <<level, totals, referrals, payouts>>
    BY <1>2 DEF Partners!CreateAffiliate
  <2> QED
    BY <1>1, <2>1, AffiliateKeeps
<1>3. ASSUME NEW a \in Members, NEW new \in {"active", "suspended"}, Partners!SetStatus(a, new)
      PROVE  PartnersIInv'
  <2>1. status' = [status EXCEPT ![a] = new] /\ UNCHANGED <<level, totals, referrals, payouts>>
    BY <1>3 DEF Partners!SetStatus
  <2> QED
    BY <1>1, <2>1, AffiliateKeeps
<1>4. ASSUME NEW a \in Members, NEW u \in Invited, Partners!CreateReferral(a, u)
      PROVE  PartnersIInv'
  <2> DEFINE r == [Partners!NoReferral EXCEPT !.by = a, !.status = "pending"]
  <2>1. /\ referrals[u] = Partners!NoReferral /\ referrals' = [referrals EXCEPT ![u] = r]
        /\ UNCHANGED <<status, level, totals, payouts>>
    BY <1>4 DEF Partners!CreateReferral
  <2>2. r \in [by : Members, status : {"pending", "expired"}, amount : Nat, commission : Nat]
    BY DEF Partners!NoReferral
  <2>3. referrals[u].status \notin {"converted", "paid"}
    BY <2>1 DEF Partners!NoReferral
  <2> HIDE DEF r
  <2> QED
    BY <2>1, <2>2, <2>3, ReferralKeeps
<1>5. ASSUME NEW u \in Invited, Partners!ReferralExpires(u)
      PROVE  PartnersIInv'
  <2> DEFINE r == [referrals[u] EXCEPT !.status = "expired"]
  <2>1. /\ referrals[u].status = "pending" /\ referrals' = [referrals EXCEPT ![u] = r]
        /\ UNCHANGED <<status, level, totals, payouts>>
    BY <1>5 DEF Partners!ReferralExpires
  <2>2. r \in [by : Members, status : {"pending", "expired"}, amount : Nat, commission : Nat]
    BY <1>1, <2>1 DEF Partners!NoReferral
  <2> HIDE DEF r
  <2> QED
    BY <2>1, <2>2, ReferralKeeps
<1>6. ASSUME NEW u \in Invited, NEW amount \in Amounts, Partners!ConvertReferral(u, amount)
      PROVE  PartnersIInv'
  <2>1. referrals[u].status = "pending"
    BY <1>6 DEF Partners!ConvertReferral
  <2>2. referrals[u].by \in Members
    BY <1>1, <2>1 DEF Partners!NoReferral
  <2> QED
    BY <1>6, <2>2, ConversionKeeps
<1> QED
  BY <1>2, <1>3, <1>4, <1>5, <1>6, PayoutKeeps, SettlementKeeps DEF Partners!Next

\* However credits, debits, transfers that are refused half way and freezes follow each
\* other, a balance is what its wallet started with and what its history books, and what
\* transfers moved comes to nothing; however levels, conversions and payouts follow each
\* other, an affiliate has earned what is owed and what was made out, no commission twice.
THEOREM MoneyIsAlwaysAccounted == ServicesSpec => []MoneyIsAccounted
<1>0. Purse!WalletConstants /\ Partners!AffiliateConstants
  BY ServicesConstants
<1>1. ServicesInit => PurseIInv /\ PartnersIInv
  BY <1>0, PurseStarts, PartnersStart DEF ServicesInit
<1>2. PurseIInv /\ [ServicesNext]_serviceVars => PurseIInv'
  <2> SUFFICES ASSUME PurseIInv, [ServicesNext]_serviceVars
               PROVE  PurseIInv'
    OBVIOUS
  <2>1. CASE Purse!Next
    BY <1>0, <2>1, PurseStep
  <2>2. CASE UNCHANGED purseVars
    BY <2>2 DEF purseVars, PurseIInv, Stands, Purse!Books
  <2> QED
    BY <2>1, <2>2 DEF ServicesNext, Only, serviceVars
<1>3. PartnersIInv /\ [ServicesNext]_serviceVars => PartnersIInv'
  <2> SUFFICES ASSUME PartnersIInv, [ServicesNext]_serviceVars
               PROVE  PartnersIInv'
    OBVIOUS
  <2>1. CASE Partners!Next
    BY <1>0, <2>1, PartnersStep
  <2>2. CASE UNCHANGED partnerVars
    <3>1. /\ UNCHANGED <<level, totals, referrals, payouts>>
          /\ status' \in [Members -> {"none", "pending", "active", "suspended"}]
      BY <2>2 DEF partnerVars, PartnersIInv, Partners!TypeOK
    <3> QED
      BY <1>0, <3>1, AffiliateKeeps
  <2> QED
    BY <2>1, <2>2 DEF ServicesNext, Only, serviceVars
<1>4. PurseIInv => Purse!MoneyIsConserved
  BY DEF PurseIInv, Stands, Purse!Books, Purse!MoneyIsConserved
<1>5. PartnersIInv => Partners!CommissionsAreAccounted
  BY AccountsAreCommissions DEF PartnersIInv
<1>6. PurseIInv /\ PartnersIInv => MoneyIsAccounted
  BY <1>4, <1>5 DEF MoneyIsAccounted
<1> QED
  BY <1>1, <1>2, <1>3, <1>6, PTL DEF ServicesSpec
-----------------------------------------------------------------------------
\* Finite sets in the order of values.

(* All of S in an order in which its weights do not fall. *)
InOrder(s, S, weight) ==
    /\ s \in Bijection(1..Cardinality(S), S)
    /\ \A i, j \in 1..Cardinality(S) : i < j => weight[s[i]] <= weight[s[j]]

\* Of finitely many values one is the highest.
LEMMA HighestValue ==
    ASSUME NEW S, IsFiniteSet(S), S # {}, NEW weight, \A x \in S : weight[x] \in Int
    PROVE  \E x \in S : \A y \in S : weight[y] <= weight[x]
<1> DEFINE Highest(T) == \E x \in T : \A y \in T : weight[y] <= weight[x]
           B == {T \in SUBSET S : T # {} /\ ~Highest(T)}
<1> SUFFICES ASSUME B # {} PROVE FALSE
  OBVIOUS
<1>2. PICK T \in B : \A x \in T : T \ {x} \notin B
  <2>1. B \in SUBSET (SUBSET S)
    OBVIOUS
  <2> HIDE DEF B
  <2> QED
    BY <2>1, SmallestSubset
<1>3. PICK x \in T : TRUE
  BY <1>2
<1>4. CASE T \ {x} = {}
  <2>1. \A y \in T : weight[y] <= weight[x]
    BY <1>2, <1>3, <1>4
  <2> QED
    BY <1>2, <1>3, <2>1
<1>5. CASE T \ {x} # {}
  <2>1. PICK z \in T \ {x} : \A y \in T \ {x} : weight[y] <= weight[z]
    BY <1>2, <1>3, <1>5
  <2>2. weight[x] \in Int /\ weight[z] \in Int /\ \A y \in T : weight[y] \in Int
    BY <1>2, <1>3, <2>1
  <2>3. CASE weight[x] <= weight[z]
    <3>1. z \in T /\ \A y \in T : weight[y] <= weight[z]
      BY <2>1, <2>3
    <3> QED
      BY <1>2, <3>1
  <2>4. CASE weight[z] < weight[x]
    <3>1. \A y \in T : weight[y] <= weight[x]
      BY <2>1, <2>2, <2>4
    <3> QED
      BY <1>2, <1>3, <3>1
  <2> QED
    BY <2>2, <2>3, <2>4
<1> QED
  BY <1>4, <1>5

\* Finitely many things can be put in the order of their values.
LEMMA ValuesCanBeOrdered ==
    ASSUME NEW S, IsFiniteSet(S), NEW weight, \A x \in S : weight[x] \in Int
    PROVE  \E s : InOrder(s, S, weight)
<1> DEFINE Ordered(T) == \E s : InOrder(s, T, weight)
           B == {T \in SUBSET S : ~Ordered(T)}
<1> SUFFICES ASSUME B # {} PROVE FALSE
  OBVIOUS
<1>1. PICK T \in B : \A x \in T : T \ {x} \notin B
  <2>1. B \in SUBSET (SUBSET S)
    OBVIOUS
  <2> HIDE DEF B
  <2> QED
    BY <2>1, SmallestSubset
<1>2. T \in SUBSET S /\ ~Ordered(T) /\ \A x \in T : Ordered(T \ {x})
  BY <1>1
<1> HIDE DEF B
<1>3. IsFiniteSet(T) /\ Cardinality(T) \in Nat /\ \A x \in T : weight[x] \in Int
  <2>1. IsFiniteSet(T)
    BY <1>2, FS_Subset
  <2> QED
    BY <1>2, <2>1, FS_CardinalityType
<1>4. T # {}
  <2> SUFFICES ASSUME T = {} PROVE FALSE
    OBVIOUS
  <2>1. Cardinality(T) = 0 /\ 1..0 = {}
    BY FS_EmptySet
  <2>2. <<>> \in [1..0 -> T]
    BY <2>1
  <2>3. InOrder(<<>>, T, weight)
    BY <2>1, <2>2 DEF InOrder, Bijection, Injection, Surjection, IsInjective
  <2> QED
    BY <1>2, <2>3
<1>5. PICK x \in T : \A y \in T : weight[y] <= weight[x]
  BY <1>3, <1>4, HighestValue
<1> DEFINE n == Cardinality(T \ {x})
<1>6. n \in Nat /\ Cardinality(T) = n + 1
  <2>1. Cardinality(T \ {x}) = Cardinality(T) - 1 /\ IsFiniteSet(T \ {x})
    BY <1>3, <1>5, FS_RemoveElement
  <2>2. n \in Nat
    BY <2>1, FS_CardinalityType
  <2> QED
    BY <1>3, <2>1, <2>2
<1>7. PICK t : InOrder(t, T \ {x}, weight)
  BY <1>2, <1>5
<1>8. /\ t \in [1..n -> T \ {x}] /\ \A i, j \in 1..n : t[i] = t[j] => i = j
      /\ \A y \in T \ {x} : \E i \in 1..n : t[i] = y
      /\ \A i, j \in 1..n : i < j => weight[t[i]] <= weight[t[j]]
  BY <1>7 DEF InOrder, Bijection, Injection, Surjection, IsInjective
<1> HIDE DEF n
<1> DEFINE s == [i \in 1..(n + 1) |-> IF i = n + 1 THEN x ELSE t[i]]
<1>9. s \in [1..(n + 1) -> T] /\ s[n + 1] = x
  BY <1>5, <1>6, <1>8
<1>10. \A i \in 1..n : i \in 1..(n + 1) /\ i # n + 1 /\ s[i] = t[i] /\ s[i] \in T \ {x}
  BY <1>6, <1>8
<1>11. \A i \in 1..(n + 1) : i = n + 1 \/ i \in 1..n
  BY <1>6
<1> HIDE DEF s
<1>12. \A i, j \in 1..(n + 1) : s[i] = s[j] => i = j
  BY <1>8, <1>9, <1>10, <1>11
<1>13. \A y \in T : \E i \in 1..(n + 1) : s[i] = y
  <2> SUFFICES ASSUME NEW y \in T PROVE \E i \in 1..(n + 1) : s[i] = y
    OBVIOUS
  <2>1. CASE y = x
    <3>1. n + 1 \in 1..(n + 1)
      BY <1>6
    <3> QED
      BY <1>9, <2>1, <3>1
  <2>2. CASE y # x
    BY <1>8, <1>10, <2>2
  <2> QED
    BY <2>1, <2>2
<1>14. \A i, j \in 1..(n + 1) : i < j => weight[s[i]] <= weight[s[j]]
  <2> SUFFICES ASSUME NEW i \in 1..(n + 1), NEW j \in 1..(n + 1), i < j
               PROVE  weight[s[i]] <= weight[s[j]]
    OBVIOUS
  <2>1. i \in 1..n
    BY <1>6
  <2>2. CASE j = n + 1
    BY <1>5, <1>9, <1>10, <2>1, <2>2
  <2>3. CASE j \in 1..n
    BY <1>8, <1>10, <2>1, <2>3
  <2> QED
    BY <1>11, <2>2, <2>3
<1>15. InOrder(s, T, weight)
  BY <1>6, <1>9, <1>12, <1>13, <1>14 DEF InOrder, Bijection, Injection, Surjection, IsInjective
<1> QED
  BY <1>2, <1>15

-----------------------------------------------------------------------------
\* Depth of market.

\* The counts of the depth of market are those of finite sets.
LEMMA MarketCounts ==
    /\ \A S : Market!IsFiniteSet(S) <=> IsFiniteSet(S)
    /\ \A S : Market!Cardinality(S) = Cardinality(S)
<1>1. \A S : Market!IsFiniteSet(S) <=> IsFiniteSet(S)
  BY Zenon DEF Market!IsFiniteSet, IsFiniteSet
<1>2. \A S : Market!Cardinality(S) = Cardinality(S)
  BY Zenon DEF Market!Cardinality, Cardinality
<1> QED
  BY <1>1, <1>2

(* Finitely many levels of which no two have one price. *)
OnePriceEach(S) ==
    /\ IsFiniteSet(S)
    /\ \A l \in S : l.price \in Nat
    /\ \A k, l \in S : k.price = l.price => k = l

(* All of the levels, the best first. *)
Orders(s, S) ==
    /\ s \in [1..Cardinality(S) -> S] /\ Market!Sorted(s)
    /\ \A l \in S : \E i \in 1..Cardinality(S) : s[i] = l

\* Levels can be put in order.
LEMMA OrderExists ==
    ASSUME NEW S, OnePriceEach(S)
    PROVE  \E s \in [1..Cardinality(S) -> S] : Market!Sorted(s)
<1> DEFINE n == Cardinality(S)
           price == [l \in S |-> l.price]
<1>1. IsFiniteSet(S) /\ \A l \in S : price[l] = l.price /\ l.price \in Nat
  BY DEF OnePriceEach
<1>2. PICK s : InOrder(s, S, price)
  <2>1. \A l \in S : price[l] \in Int
    BY <1>1
  <2> HIDE DEF price
  <2> QED
    BY <1>1, <2>1, ValuesCanBeOrdered
<1> HIDE DEF n, price
<1>3. /\ s \in [1..n -> S] /\ \A i, j \in 1..n : s[i] = s[j] => i = j
      /\ \A i, j \in 1..n : i < j => price[s[i]] <= price[s[j]]
  BY <1>2 DEF InOrder, Bijection, Injection, IsInjective, n
<1>4. \A i, j \in 1..n : i < j => s[i].price < s[j].price
  <2> SUFFICES ASSUME NEW i \in 1..n, NEW j \in 1..n, i < j PROVE s[i].price < s[j].price
    OBVIOUS
  <2>1. s[i] \in S /\ s[j] \in S /\ s[i] # s[j]
    BY <1>3
  <2>2. s[i].price # s[j].price
    BY <2>1 DEF OnePriceEach
  <2> QED
    BY <1>1, <1>3, <2>1, <2>2
<1> QED
  BY <1>3, <1>4 DEF Market!Sorted, n

\* What is sorted by price holds nothing twice: as many as all are all.
LEMMA SortedHasAll ==
    ASSUME NEW S, OnePriceEach(S), NEW s \in [1..Cardinality(S) -> S], Market!Sorted(s)
    PROVE  Orders(s, S)
<1> DEFINE n == Cardinality(S)
<1>1. n \in Nat /\ IsFiniteSet(S) /\ \A l \in S : l.price \in Nat
  BY FS_CardinalityType DEF OnePriceEach
<1>2. IsFiniteSet(1..n) /\ Cardinality(1..n) = n
  BY <1>1, FS_Interval
<1>3. \A i, j \in 1..n : s[i] = s[j] => i = j
  <2> SUFFICES ASSUME NEW i \in 1..n, NEW j \in 1..n, i < j PROVE s[i] # s[j]
    BY <1>1
  <2>1. s[i].price < s[j].price /\ s[i].price \in Nat
    BY <1>1 DEF Market!Sorted
  <2> QED
    BY <2>1
<1>4. s \in Injection(1..n, S)
  BY <1>3 DEF Injection, IsInjective
<1> HIDE DEF n
<1>5. s \in Surjection(1..n, S)
  BY <1>1, <1>2, <1>4, FS_Injection DEF n
<1>6. \A l \in S : \E i \in 1..n : s[i] = l
  BY <1>5 DEF Surjection
<1> QED
  BY <1>6 DEF Orders, n

\* So BestFirst puts all levels in order.
LEMMA BestFirstOrders ==
    ASSUME NEW S, OnePriceEach(S)
    PROVE  Orders(Market!BestFirst(S), S)
<1>1. \E s \in [1..Cardinality(S) -> S] : Market!Sorted(s)
  BY OrderExists
<1>2. Market!BestFirst(S) = CHOOSE s \in [1..Cardinality(S) -> S] : Market!Sorted(s)
  BY MarketCounts DEF Market!BestFirst
<1>3. /\ Market!BestFirst(S) \in [1..Cardinality(S) -> S]
      /\ Market!Sorted(Market!BestFirst(S))
  BY <1>1, <1>2
<1> QED
  BY <1>3, SortedHasAll

\* There is one order of levels.
LEMMA OneOrder ==
    ASSUME NEW S, OnePriceEach(S), NEW s, NEW t, Orders(s, S), Orders(t, S)
    PROVE  s = t
<1> DEFINE n == Cardinality(S)
           T == {i \in 1..n : s[i] # t[i]}
<1>1. n \in Nat /\ \A l \in S : l.price \in Nat
  BY FS_CardinalityType DEF OnePriceEach
<1>2. /\ s \in [1..n -> S] /\ t \in [1..n -> S] /\ Market!Sorted(s) /\ Market!Sorted(t)
      /\ \A l \in S : (\E i \in 1..n : s[i] = l) /\ (\E i \in 1..n : t[i] = l)
  BY DEF Orders
<1> HIDE DEF n
<1> SUFFICES ASSUME T # {} PROVE FALSE
  <2>1. ASSUME T = {} PROVE s = t
    <3>1. \A i \in 1..n : s[i] = t[i]
      BY <2>1
    <3>2. s = [i \in 1..n |-> s[i]] /\ t = [i \in 1..n |-> t[i]]
      BY <1>2
    <3> QED
      BY <3>1, <3>2
  <2> QED
    BY <2>1
<1>3. PICK i \in T : \A j \in T : i <= j
  <2>1. T \in SUBSET Nat
    OBVIOUS
  <2> HIDE DEF T
  <2> QED
    BY <2>1, LeastNatural
<1>4. i \in 1..n /\ s[i] \in S /\ t[i] \in S /\ s[i] # t[i]
  BY <1>2, <1>3
<1>5. s[i].price # t[i].price /\ s[i].price \in Nat /\ t[i].price \in Nat
  BY <1>4 DEF OnePriceEach
<1>6. \A j \in 1..n : j < i => s[j] = t[j]
  BY <1>3
<1>7. /\ \A j, k \in 1..n : j < k => s[j].price < s[k].price
      /\ \A j, k \in 1..n : j < k => t[j].price < t[k].price
  BY <1>2 DEF Market!Sorted
<1>8. CASE s[i].price < t[i].price
  <2>1. PICK j \in 1..n : t[j] = s[i]
    BY <1>2, <1>4
  <2>2. CASE j < i
    <3>1. s[j] = s[i]
      BY <1>6, <2>1, <2>2
    <3>2. s[j].price < s[i].price
      BY <1>4, <1>7, <2>2
    <3> QED
      BY <1>5, <3>1, <3>2
  <2>3. CASE i < j
    <3>1. t[i].price < t[j].price
      BY <1>4, <1>7, <2>3
    <3> QED
      BY <1>5, <1>8, <2>1, <3>1
  <2> QED
    BY <1>4, <2>1, <2>2, <2>3
<1>9. CASE t[i].price < s[i].price
  <2>1. PICK j \in 1..n : s[j] = t[i]
    BY <1>2, <1>4
  <2>2. CASE j < i
    <3>1. t[j] = t[i]
      BY <1>6, <2>1, <2>2
    <3>2. t[j].price < t[i].price
      BY <1>4, <1>7, <2>2
    <3> QED
      BY <1>5, <3>1, <3>2
  <2>3. CASE i < j
    <3>1. s[i].price < s[j].price
      BY <1>4, <1>7, <2>3
    <3> QED
      BY <1>5, <1>9, <2>1, <3>1
  <2> QED
    BY <1>4, <2>1, <2>2, <2>3
<1> QED
  BY <1>5, <1>8, <1>9

\* A book that is sorted is the order of its levels, of which it has one for each place.
LEMMA BookOrders ==
    ASSUME NEW s \in Seq(Market!Level), Market!DepthConstants, Market!Sorted(s)
    PROVE  LET S == {s[i] : i \in DOMAIN s}
           IN  OnePriceEach(S) /\ Cardinality(S) = Len(s) /\ Orders(s, S)
<1> DEFINE n == Len(s)
           S == {s[i] : i \in DOMAIN s}
<1>1. n \in Nat /\ DOMAIN s = 1..n /\ s \in [1..n -> S]
  OBVIOUS
<1>2. \A i \in 1..n : s[i] \in Market!Level /\ s[i].price \in Nat
  <2>1. \A l \in Market!Level : l.price \in Nat
    BY DEF Market!Level, Market!DepthConstants
  <2> QED
    BY <1>1, <2>1
<1>3. \A i, j \in 1..n : s[i].price = s[j].price => i = j
  <2>1. ASSUME NEW i \in 1..n, NEW j \in 1..n, i < j PROVE s[i].price # s[j].price
    <3>1. s[i].price < s[j].price
      BY <1>1, <2>1 DEF Market!Sorted
    <3>2. s[i].price \in Nat /\ s[j].price \in Nat
      BY <1>2
    <3> QED
      BY <3>1, <3>2
  <2>2. \A i, j \in 1..n : i = j \/ i < j \/ j < i
    BY <1>1
  <2> QED
    BY <2>1, <2>2
<1>4. s \in Injection(1..n, S) /\ s \in Surjection(1..n, S)
  BY <1>1, <1>3 DEF Injection, IsInjective, Surjection
<1>5. IsFiniteSet(1..n) /\ Cardinality(1..n) = n
  BY <1>1, FS_Interval
<1> HIDE DEF n, S
<1>6. IsFiniteSet(S) /\ Cardinality(S) = n
  BY <1>4, <1>5, FS_Surjection
<1>7. OnePriceEach(S)
  BY <1>1, <1>2, <1>3, <1>6 DEF OnePriceEach, S
<1>8. Orders(s, S)
  BY <1>1, <1>6 DEF Orders, S
<1> QED
  BY <1>6, <1>7, <1>8 DEF n, S

\* The levels of a side have one price each.
LEMMA ToldIsOnePriceEach ==
    ASSUME Market!DepthConstants, NEW volume
    PROVE  OnePriceEach(Market!Told(volume))
<1> DEFINE S == Market!Told(volume)
           f == [l \in S |-> l.price]
<1>1. \A l \in S : l \in Market!Level /\ l.price \in Depth.ranks /\ l.price \in Nat
  BY DEF Market!Told, Market!Level, Market!DepthConstants
<1>2. \A k, l \in S : k.price = l.price => k = l
  BY DEF Market!Told, Market!Level
<1>3. f \in Injection(S, Depth.ranks)
  BY <1>1, <1>2 DEF Injection, IsInjective
<1>4. IsFiniteSet(Depth.ranks)
  BY MarketCounts DEF Market!DepthConstants
<1>5. IsFiniteSet(S)
  BY <1>3, <1>4, FS_Injection
<1> QED
  BY <1>1, <1>2, <1>5 DEF OnePriceEach

\* What is cut at the depth begins like what was cut.
LEMMA CappedBegins ==
    ASSUME Market!DepthConstants, NEW s \in Seq(Market!Level)
    PROVE  LET c == Market!Capped(s)
           IN  /\ c \in Seq(Market!Level) /\ Len(c) <= Depth.levels
               /\ DOMAIN c \subseteq DOMAIN s
               /\ \A i \in DOMAIN c : c[i] = s[i]
               /\ Len(s) <= Depth.levels => c = s
               /\ Len(s) > Depth.levels => Len(c) = Depth.levels
<1>1. Depth.levels \in Nat \ {0} /\ Len(s) \in Nat /\ DOMAIN s = 1..Len(s)
  BY DEF Market!DepthConstants
<1>2. CASE Len(s) > Depth.levels
  <2>1. Market!Capped(s) = SubSeq(s, 1, Depth.levels)
    BY <1>2 DEF Market!Capped
  <2>2. LET c == SubSeq(s, 1, Depth.levels)
        IN  /\ c \in Seq(Market!Level) /\ Len(c) = Depth.levels /\ DOMAIN c = 1..Depth.levels
            /\ \A i \in 1..Depth.levels : c[i] = s[i]
    BY <1>1, <1>2
  <2> QED
    BY <1>1, <1>2, <2>1, <2>2
<1>3. CASE ~(Len(s) > Depth.levels)
  BY <1>1, <1>3 DEF Market!Capped
<1> QED
  BY <1>2, <1>3

(* The book is what is stated of it, and is the last of the snapshots. *)
MarketIInv ==
    /\ book \in Seq(Market!Level) /\ feed \in [Depth.ranks -> {0} \cup Depth.volumes]
    /\ snapshots \in Seq(Seq(Market!Level)) /\ dropped \in BOOLEAN
    /\ LadderIsTrue

\* A snapshot is the feed's, up to the depth that is kept.
LEMMA SnapshotIsTrue ==
    ASSUME Market!DepthConstants, MarketIInv,
           NEW volume \in [Depth.ranks -> {0} \cup Depth.volumes], Market!UpdateOrderBook(volume)
    PROVE  MarketIInv'
<1> DEFINE S == Market!Told(volume)
           L == Market!Ladder(volume)
<1>1. /\ book' = Market!Capped(L) /\ feed' = volume /\ dropped' = (Len(L) > Depth.levels)
      /\ snapshots' = LET all == Append(snapshots, book')
                      IN  IF Len(all) > Depth.snapshots THEN Tail(all) ELSE all
  BY DEF Market!UpdateOrderBook
<1>2. OnePriceEach(S) /\ S \subseteq Market!Level /\ \A l \in S : volume[l.price] = l.size
  BY ToldIsOnePriceEach DEF Market!Told
<1>3. Orders(L, S)
  BY <1>2, BestFirstOrders DEF Market!Ladder
<1>4. Cardinality(S) \in Nat
  BY <1>2, FS_CardinalityType DEF OnePriceEach
<1>5. /\ L \in Seq(Market!Level) /\ Market!Sorted(L)
      /\ \A i \in DOMAIN L : L[i] \in S
  BY <1>2, <1>3, <1>4 DEF Orders
<1> HIDE DEF S, L
<1>6. /\ book' \in Seq(Market!Level) /\ Len(book') <= Depth.levels
      /\ DOMAIN book' \subseteq DOMAIN L
      /\ \A i \in DOMAIN book' : book'[i] = L[i]
      /\ ~dropped' => book' = L
  <2>1. Depth.levels \in Nat /\ Len(L) \in Nat
    BY <1>5 DEF Market!DepthConstants
  <2>2. LET c == Market!Capped(L)
        IN  /\ c \in Seq(Market!Level) /\ Len(c) <= Depth.levels
            /\ DOMAIN c \subseteq DOMAIN L
            /\ \A i \in DOMAIN c : c[i] = L[i]
            /\ Len(L) <= Depth.levels => c = L
    BY <1>5, CappedBegins
  <2>3. ~dropped' => Len(L) <= Depth.levels
    <3>1. ~dropped' => ~(Len(L) > Depth.levels)
      BY <1>1, Zenon
    <3> QED
      BY <2>1, <3>1
  <2> QED
    BY <1>1, <2>2, <2>3
<1>7. Market!Sorted(book')
  <2>1. DOMAIN book' \subseteq Nat
    BY <1>6
  <2> QED
    BY <1>5, <1>6 DEF Market!Sorted
<1>8. \A i \in DOMAIN book' : feed'[book'[i].price] = book'[i].size
  BY <1>1, <1>2, <1>5, <1>6
<1>9. /\ snapshots' \in Seq(Seq(Market!Level))
      /\ snapshots' # <<>> => snapshots'[Len(snapshots')] = book'
  <2> DEFINE all == Append(snapshots, book')
  <2>1. /\ all \in Seq(Seq(Market!Level)) /\ Len(all) \in Nat \ {0} /\ all[Len(all)] = book'
    BY <1>6 DEF MarketIInv
  <2>2. CASE Len(all) > Depth.snapshots
    <3>1. snapshots' = Tail(all) /\ Depth.snapshots \in Nat \ {0}
      BY <1>1, <2>2 DEF Market!DepthConstants
    <3> HIDE DEF all
    <3>2. Len(all) > 1
      BY <2>1, <2>2, <3>1
    <3>3. /\ Tail(all) \in Seq(Seq(Market!Level)) /\ Len(Tail(all)) = Len(all) - 1
          /\ Tail(all)[Len(all) - 1] = all[Len(all)]
      BY <2>1, <3>2
    <3> QED
      BY <2>1, <3>1, <3>3
  <2>3. CASE ~(Len(all) > Depth.snapshots)
    BY <1>1, <2>1, <2>3
  <2> QED
    BY <2>2, <2>3
<1>10. ~dropped' => book' = Market!Ladder(feed')
  BY <1>1, <1>6 DEF L
<1>11. LadderIsTrue'
  BY <1>6, <1>7, <1>8, <1>9, <1>10
  DEF LadderIsTrue, Market!LadderIsTrue, Market!Ladder, Market!Told, Market!BestFirst, Market!Sorted
<1> QED
  BY <1>1, <1>6, <1>9, <1>11 DEF MarketIInv

\* What a change of one level leaves of what the feed has told.
LEMMA ToldChanges ==
    ASSUME Market!DepthConstants, NEW volume \in [Depth.ranks -> {0} \cup Depth.volumes],
           NEW r \in Depth.ranks, NEW size \in {0} \cup Depth.volumes
    PROVE  Market!Told([volume EXCEPT ![r] = size])
             = {l \in Market!Told(volume) : l.price # r}
                 \cup (IF size = 0 THEN {} ELSE {[price |-> r, size |-> size]})
<1> DEFINE after == [volume EXCEPT ![r] = size]
           others == {l \in Market!Told(volume) : l.price # r}
           new == [price |-> r, size |-> size]
<1>1. after[r] = size /\ \A p \in Depth.ranks \ {r} : after[p] = volume[p]
  OBVIOUS
<1>2. \A l \in Market!Level : l.price \in Depth.ranks /\ l.size \in Depth.volumes
        /\ l = [price |-> l.price, size |-> l.size]
  BY DEF Market!Level
<1>3. 0 \notin Depth.volumes
  BY DEF Market!DepthConstants
<1>4. size # 0 => new \in Market!Level /\ new.price = r /\ new.size = size
  BY DEF Market!Level
<1> HIDE DEF after, new
<1>5. \A l \in Market!Level : l.price = r /\ l.size = size => l = new
  BY <1>2 DEF new
<1>6. \A l \in Market!Told(after) : IF l.price = r THEN size # 0 /\ l = new ELSE l \in others
  BY <1>1, <1>2, <1>3, <1>5 DEF Market!Told
<1>7. \A l \in others : l \in Market!Told(after)
  BY <1>1, <1>2 DEF Market!Told
<1>8. size # 0 => new \in Market!Told(after)
  BY <1>1, <1>4 DEF Market!Told
<1>9. Market!Told(after) = others \cup (IF size = 0 THEN {} ELSE {new})
  BY <1>6, <1>7, <1>8
<1> QED
  BY <1>9 DEF after, new

\* A book that is in order is the ladder of the volumes whose levels it has.
LEMMA BookIsLadder ==
    ASSUME Market!DepthConstants, NEW s \in Seq(Market!Level), Market!Sorted(s), NEW volume
    PROVE  s = Market!Ladder(volume) <=> {s[i] : i \in DOMAIN s} = Market!Told(volume)
<1> DEFINE S == {s[i] : i \in DOMAIN s}
           T == Market!Told(volume)
<1>1. OnePriceEach(S) /\ Orders(s, S)
  BY BookOrders
<1>2. OnePriceEach(T) /\ Orders(Market!Ladder(volume), T)
  BY ToldIsOnePriceEach, BestFirstOrders DEF Market!Ladder
<1>3. ASSUME s = Market!Ladder(volume) PROVE S = T
  <2>1. s \in [1..Cardinality(T) -> T] /\ \A l \in T : \E i \in 1..Cardinality(T) : s[i] = l
    BY <1>2, <1>3 DEF Orders
  <2> HIDE DEF T
  <2> QED
    BY <2>1
<1> HIDE DEF S, T
<1>4. S = T => s = Market!Ladder(volume)
  BY <1>1, <1>2, OneOrder
<1> QED
  BY <1>3, <1>4 DEF S, T

\* What is left when a place is taken out of a sequence.
LEMMA OnePlaceLess ==
    ASSUME NEW R, NEW s \in Seq(R), NEW k \in 1..Len(s)
    PROVE  LET w == SubSeq(s, 1, k - 1) \o SubSeq(s, k + 1, Len(s))
           IN  /\ w \in Seq(R) /\ Len(w) = Len(s) - 1 /\ DOMAIN w = 1..(Len(s) - 1)
               /\ \A i \in 1..(Len(s) - 1) : w[i] = IF i < k THEN s[i] ELSE s[i + 1]
<1> DEFINE before == SubSeq(s, 1, k - 1)
           after == SubSeq(s, k + 1, Len(s))
           w == before \o after
<1>1. Len(s) \in Nat /\ k \in Nat /\ 1 <= k /\ k <= Len(s)
  OBVIOUS
<1>2. before \in Seq(R) /\ Len(before) = k - 1 /\ \A i \in 1..(k - 1) : before[i] = s[i]
  BY <1>1
<1>3. /\ after \in Seq(R) /\ Len(after) = Len(s) - k
      /\ \A i \in 1..(Len(s) - k) : after[i] = s[i + k]
  BY <1>1
<1> HIDE DEF before, after
<1> HIDE DEF w
<1>4. w \in Seq(R) /\ Len(w) = Len(before) + Len(after)
  <2>1. before \in Seq(R) /\ after \in Seq(R)
    BY <1>2, <1>3
  <2>2. before \o after \in Seq(R)
    BY ONLY <2>1
  <2>3. Len(before \o after) = Len(before) + Len(after)
    BY ONLY <2>1
  <2> QED
    BY <2>2, <2>3 DEF w
<1>5. \A i \in 1..(Len(before) + Len(after)) :
        w[i] = IF i <= Len(before) THEN before[i] ELSE after[i - Len(before)]
  <2>1. before \in Seq(R) /\ after \in Seq(R)
    BY <1>2, <1>3
  <2>2. \A i \in 1..(Len(before) + Len(after)) :
          (before \o after)[i] = IF i <= Len(before) THEN before[i] ELSE after[i - Len(before)]
    BY ONLY <2>1
  <2> QED
    BY <2>2 DEF w
<1>6. Len(w) = Len(s) - 1 /\ DOMAIN w = 1..(Len(s) - 1)
  <2>1. Len(w) = Len(s) - 1
    BY <1>1, <1>2, <1>3, <1>4
  <2> QED
    BY <1>4, <2>1
<1>7. ASSUME NEW i \in 1..(Len(s) - 1)
      PROVE  w[i] = IF i < k THEN s[i] ELSE s[i + 1]
  <2>1. i \in 1..(Len(before) + Len(after)) /\ i \in Int
    BY ONLY <1>1, <1>2, <1>3, i \in 1..(Len(s) - 1)
  <2>2. CASE i < k
    <3>1. i \in 1..(k - 1) /\ i <= Len(before)
      BY ONLY <1>1, <1>2, <2>1, <2>2, i \in 1..(Len(s) - 1)
    <3> QED
      BY <1>2, <1>5, <2>1, <2>2, <3>1
  <2>3. CASE ~(i < k)
    <3>1. /\ ~(i <= Len(before)) /\ i - Len(before) \in 1..(Len(s) - k)
          /\ i - Len(before) + k = i + 1
      BY ONLY <1>1, <1>2, <2>1, <2>3, i \in 1..(Len(s) - 1)
    <3>2. w[i] = after[i - Len(before)]
      BY <1>5, <2>1, <3>1
    <3> QED
      BY <1>3, <2>3, <3>1, <3>2
  <2> QED
    BY <2>2, <2>3
<1> QED
  BY <1>4, <1>6, <1>7 DEF w, before, after

\* A change of one level of the book, in its place or a new one.
LEMMA LevelIsTrue ==
    ASSUME Market!DepthConstants, MarketIInv, NEW r \in Depth.ranks,
           NEW size \in {0} \cup Depth.volumes, Market!UpdateLevel(r, size)
    PROVE  MarketIInv'
<1> DEFINE S == {book[i] : i \in DOMAIN book}
           new == [price |-> r, size |-> size]
           others == {l \in S : l.price # r}
           found == \E i \in DOMAIN book : book[i].price = r
<1>1. /\ snapshots # <<>> /\ feed' = [feed EXCEPT ![r] = size]
      /\ snapshots' = [snapshots EXCEPT ![Len(snapshots)] = book']
      /\ book' = IF found THEN Market!Changed(r, size)
                 ELSE IF size > 0 THEN Market!Inserted(r, size) ELSE book
      /\ dropped' = (dropped \/ (size > 0 /\ Len(book) = Depth.levels /\ Len(book') = Depth.levels
                                  /\ \A i \in DOMAIN book : book[i].price # r))
  BY DEF Market!UpdateLevel, Market!InHistory
<1>2. /\ book \in Seq(Market!Level) /\ Market!Sorted(book) /\ Len(book) <= Depth.levels
      /\ \A i \in DOMAIN book : feed[book[i].price] = book[i].size
      /\ ~dropped => book = Market!Ladder(feed)
      /\ feed \in [Depth.ranks -> {0} \cup Depth.volumes]
      /\ snapshots \in Seq(Seq(Market!Level)) /\ dropped \in BOOLEAN
  BY <1>1 DEF MarketIInv, LadderIsTrue, Market!LadderIsTrue
<1>3. /\ Len(book) \in Nat /\ DOMAIN book = 1..Len(book) /\ Depth.levels \in Nat \ {0}
      /\ size \in Nat /\ r \in Nat
      /\ \A i \in DOMAIN book : book[i] \in Market!Level /\ book[i].price \in Depth.ranks
           /\ book[i].price \in Nat
  <2>1. \A l \in Market!Level : l.price \in Depth.ranks /\ l.price \in Nat
    BY DEF Market!Level, Market!DepthConstants
  <2>2. /\ Len(book) \in Nat /\ DOMAIN book = 1..Len(book)
        /\ \A i \in DOMAIN book : book[i] \in Market!Level
    BY <1>2
  <2> QED
    BY <2>1, <2>2 DEF Market!DepthConstants
<1>4. /\ feed'[r] = size /\ feed' \in [Depth.ranks -> {0} \cup Depth.volumes]
      /\ \A p \in Depth.ranks \ {r} : feed'[p] = feed[p]
  BY <1>1, <1>2
<1>5. ~dropped => S = Market!Told(feed)
  BY <1>2, BookIsLadder
<1>6. ~dropped => Market!Told(feed') = IF size = 0 THEN others ELSE others \cup {new}
  <2>1. Market!Told([feed EXCEPT ![r] = size])
          = {l \in Market!Told(feed) : l.price # r}
              \cup (IF size = 0 THEN {} ELSE {[price |-> r, size |-> size]})
    <3>1. feed \in [Depth.ranks -> {0} \cup Depth.volumes]
      BY <1>2
    <3> HIDE DEF S, new, others, found
    <3> QED
      BY <3>1, ToldChanges
  <2>2. ~dropped => {l \in Market!Told(feed) : l.price # r} = others
    BY <1>5
  <2> HIDE DEF others
  <2> QED
    BY <1>1, <2>1, <2>2
<1>7. ~dropped' => ~dropped
  BY <1>1, <1>2, Zenon
<1>8. SUFFICES
        /\ book' \in Seq(Market!Level) /\ Len(book') <= Depth.levels /\ Market!Sorted(book')
        /\ \A i \in DOMAIN book' : feed'[book'[i].price] = book'[i].size
        /\ ~dropped' => {book'[i] : i \in DOMAIN book'}
                         = IF size = 0 THEN others ELSE others \cup {new}
  <2>1. ~dropped' => book' = Market!Ladder(feed')
    BY <1>6, <1>7, <1>8, BookIsLadder
  <2>2. /\ snapshots' \in Seq(Seq(Market!Level)) /\ snapshots'[Len(snapshots')] = book'
    BY <1>1, <1>2, <1>8
  <2>3. LadderIsTrue'
    BY <1>8, <2>1, <2>2
    DEF LadderIsTrue, Market!LadderIsTrue, Market!Ladder, Market!Told, Market!BestFirst, Market!Sorted
  <2>4. dropped' \in BOOLEAN
    BY <1>1, Zenon
  <2> QED
    BY <1>4, <1>8, <2>2, <2>3, <2>4 DEF MarketIInv
<1> HIDE DEF S
<1>9. \A i, j \in DOMAIN book : i < j => book[i].price < book[j].price
  BY <1>2 DEF Market!Sorted
<1>10. ASSUME found
       PROVE  /\ Market!Place(r) \in DOMAIN book /\ book[Market!Place(r)].price = r
              /\ \A i \in DOMAIN book : i # Market!Place(r) => book[i].price # r
  <2>1. Market!Place(r) \in DOMAIN book /\ book[Market!Place(r)].price = r
    BY <1>10 DEF Market!Place
  <2>2. ASSUME NEW i \in DOMAIN book, i # Market!Place(r) PROVE book[i].price # r
    BY <1>3, <1>9, <2>1, <2>2
  <2> QED
    BY <2>1, <2>2
<1>11. CASE found /\ size = 0
  <2> DEFINE k == Market!Place(r)
  <2>1. /\ k \in 1..Len(book) /\ book[k].price = r
        /\ \A i \in 1..Len(book) : i # k => book[i].price # r
    BY <1>3, <1>10, <1>11
  <2>2. book' = SubSeq(book, 1, k - 1) \o SubSeq(book, k + 1, Len(book))
    BY <1>1, <1>11 DEF Market!Changed, Market!Without
  <2> HIDE DEF k
  <2>3. /\ book' \in Seq(Market!Level) /\ DOMAIN book' = 1..(Len(book) - 1)
        /\ Len(book') = Len(book) - 1
        /\ \A i \in 1..(Len(book) - 1) : book'[i] = IF i < k THEN book[i] ELSE book[i + 1]
    BY <1>2, <2>1, <2>2, OnePlaceLess
  <2>4. \A i \in DOMAIN book' :
          \E j \in DOMAIN book : j # k /\ book'[i] = book[j]
    <3> SUFFICES ASSUME NEW i \in 1..(Len(book) - 1)
                 PROVE  \E j \in 1..Len(book) : j # k /\ book'[i] = book[j]
      BY <1>3, <2>3
    <3>1. CASE i < k
      BY <1>3, <2>1, <2>3, <3>1
    <3>2. CASE ~(i < k)
      <4>1. i + 1 \in 1..Len(book) /\ i + 1 # k /\ book'[i] = book[i + 1]
        BY <1>3, <2>1, <2>3, <3>2
      <4> QED
        BY <4>1
    <3> QED
      BY <3>1, <3>2
  <2>5. \A j \in DOMAIN book : j # k => \E i \in DOMAIN book' : book'[i] = book[j]
    <3> SUFFICES ASSUME NEW j \in 1..Len(book), j # k
                 PROVE  \E i \in 1..(Len(book) - 1) : book'[i] = book[j]
      BY <1>3, <2>3
    <3>1. CASE j < k
      <4>1. j \in 1..(Len(book) - 1)
        BY <1>3, <2>1, <3>1
      <4> QED
        BY <2>3, <3>1, <4>1
    <3>2. CASE ~(j < k)
      <4>1. j - 1 \in 1..(Len(book) - 1) /\ ~(j - 1 < k) /\ (j - 1) + 1 = j
        BY <1>3, <2>1, <3>2
      <4> QED
        BY <2>3, <4>1
    <3> QED
      BY <3>1, <3>2
  <2>6. Market!Sorted(book')
    <3> SUFFICES ASSUME NEW i \in 1..(Len(book) - 1), NEW j \in 1..(Len(book) - 1), i < j
                 PROVE  book'[i].price < book'[j].price
      BY <2>3 DEF Market!Sorted
    <3>1. \A a, b \in 1..Len(book) : a < b => book[a].price < book[b].price
      BY <1>3, <1>9
    <3>2. i \in 1..Len(book) /\ j \in 1..Len(book) /\ i + 1 \in 1..Len(book)
          /\ j + 1 \in 1..Len(book) /\ i < j + 1 /\ i + 1 < j + 1
      BY <1>3
    <3>3. book'[i] = (IF i < k THEN book[i] ELSE book[i + 1])
          /\ book'[j] = (IF j < k THEN book[j] ELSE book[j + 1])
      BY <2>3
    <3>4. ~(i < k) => ~(j < k)
      BY <1>3, <2>1
    <3> QED
      BY <3>1, <3>2, <3>3, <3>4
  <2>7. \A i \in DOMAIN book' : feed'[book'[i].price] = book'[i].size
    BY <1>2, <1>3, <1>4, <2>1, <2>4
  <2>8. {book'[i] : i \in DOMAIN book'} = others
    BY <1>3, <2>1, <2>4, <2>5 DEF S
  <2> QED
    BY <1>2, <1>3, <1>11, <2>3, <2>6, <2>7, <2>8
<1>12. CASE found /\ size # 0
  <2> DEFINE k == Market!Place(r)
  <2>1. /\ k \in DOMAIN book /\ book[k].price = r
        /\ \A i \in DOMAIN book : i # k => book[i].price # r
    BY <1>10, <1>12
  <2>2. book' = [book EXCEPT ![k].size = size]
    BY <1>1, <1>12 DEF Market!Changed
  <2> HIDE DEF k
  <2>3. new \in Market!Level
    BY <1>12 DEF Market!Level
  <2>4. book[k] = [price |-> r, size |-> book[k].size]
    BY <1>3, <2>1 DEF Market!Level
  <2>5. book' = [book EXCEPT ![k] = new]
    <3>1. [book[k] EXCEPT !.size = size] = [price |-> r, size |-> size]
      BY <2>4
    <3>2. book' = [book EXCEPT ![k] = [book[k] EXCEPT !.size = size]]
      BY <2>2
    <3> QED
      BY <3>1, <3>2
  <2> HIDE DEF new
  <2>6. /\ book' \in Seq(Market!Level) /\ Len(book') = Len(book) /\ DOMAIN book' = DOMAIN book
        /\ book'[k] = new /\ \A i \in DOMAIN book : i # k => book'[i] = book[i]
    BY <1>2, <2>1, <2>3, <2>5
  <2>7. new.price = r /\ new.size = size
    BY DEF new
  <2>8. \A i \in DOMAIN book : book'[i].price = book[i].price
    BY <2>1, <2>6, <2>7
  <2>9. Market!Sorted(book')
    BY <1>9, <2>6, <2>8 DEF Market!Sorted
  <2>10. \A i \in DOMAIN book' : feed'[book'[i].price] = book'[i].size
    BY <1>2, <1>3, <1>4, <2>1, <2>6, <2>7
  <2>11. {book'[i] : i \in DOMAIN book'} = others \cup {new}
    BY <2>1, <2>6 DEF S
  <2> QED
    BY <1>2, <1>12, <2>6, <2>9, <2>10, <2>11
<1>13. CASE ~found /\ size = 0
  <2>1. book' = book
    BY <1>1, <1>13
  <2>2. \A i \in DOMAIN book : feed'[book[i].price] = book[i].size
    BY <1>2, <1>3, <1>4, <1>13
  <2>3. S = others
    BY <1>13 DEF S
  <2>4. {book[i] : i \in DOMAIN book} = S
    BY DEF S
  <2> QED
    BY <1>2, <1>13, <2>1, <2>2, <2>3, <2>4
<1>14. CASE ~found /\ size > 0
  <2> DEFINE all == Market!BestFirst(S \cup {new})
             n == Len(book)
  <2>1. book' = Market!Capped(all)
    BY <1>1, <1>14 DEF Market!Inserted, S
  <2>2. new \in Market!Level /\ new.price = r /\ new.size = size
    BY <1>3, <1>14 DEF Market!Level
  <2>3. OnePriceEach(S) /\ Cardinality(S) = n /\ S \subseteq Market!Level
    <3>1. LET T == {book[i] : i \in DOMAIN book}
          IN  OnePriceEach(T) /\ Cardinality(T) = Len(book) /\ Orders(book, T)
      BY <1>2, BookOrders
    <3>2. S \subseteq Market!Level
      BY <1>3 DEF S
    <3> QED
      BY <3>1, <3>2 DEF S
  <2>4. \A l \in S : l.price # r /\ feed[l.price] = l.size /\ l.price \in Depth.ranks
    BY <1>2, <1>3, <1>14 DEF S
  <2>5. S = others
    BY <2>4
  <2>6. OnePriceEach(S \cup {new}) /\ Cardinality(S \cup {new}) = n + 1
    <3>1. new \notin S
      BY <2>2, <2>4
    <3>2. IsFiniteSet(S \cup {new}) /\ Cardinality(S \cup {new}) = Cardinality(S) + 1
      BY <2>3, <3>1, FS_AddElement DEF OnePriceEach
    <3> HIDE DEF new
    <3>3. OnePriceEach(S \cup {new})
      BY <1>3, <2>2, <2>3, <2>4, <3>2 DEF OnePriceEach
    <3> QED
      BY <2>3, <3>2, <3>3
  <2> HIDE DEF new
  <2>7. Orders(all, S \cup {new})
    BY <2>6, BestFirstOrders
  <2> HIDE DEF all
  <2>8. /\ all \in Seq(Market!Level) /\ Len(all) = n + 1 /\ DOMAIN all = 1..(n + 1)
        /\ Market!Sorted(all) /\ \A i \in 1..(n + 1) : all[i] \in S \cup {new}
        /\ \A l \in S \cup {new} : \E i \in 1..(n + 1) : all[i] = l
    <3> DEFINE T == S \cup {new}
    <3>1. T \subseteq Market!Level
      BY <2>2, <2>3
    <3> HIDE DEF T
    <3>2. /\ all \in [1..(n + 1) -> T] /\ Market!Sorted(all)
          /\ \A l \in T : \E i \in 1..(n + 1) : all[i] = l
      BY <2>6, <2>7 DEF Orders, T
    <3>3. all \in Seq(T) /\ Len(all) = n + 1 /\ DOMAIN all = 1..(n + 1)
      BY <1>3, <3>2
    <3>4. \A i \in 1..(n + 1) : all[i] \in T
      BY <3>2
    <3>5. all \in Seq(Market!Level)
      BY <3>1, <3>3
    <3> QED
      BY <3>2, <3>3, <3>4, <3>5 DEF T
  <2>9. LET c == Market!Capped(all)
        IN  /\ c \in Seq(Market!Level) /\ Len(c) <= Depth.levels
            /\ DOMAIN c \subseteq DOMAIN all
            /\ \A i \in DOMAIN c : c[i] = all[i]
            /\ Len(all) <= Depth.levels => c = all
            /\ Len(all) > Depth.levels => Len(c) = Depth.levels
    BY <2>8, CappedBegins
  <2>10. Market!Sorted(book')
    BY <2>1, <2>8, <2>9 DEF Market!Sorted
  <2>11. \A l \in S \cup {new} : feed'[l.price] = l.size
    BY <1>4, <2>2, <2>4
  <2>12. \A i \in DOMAIN book' : feed'[book'[i].price] = book'[i].size
    BY <2>1, <2>8, <2>9, <2>11
  <2>13. ~dropped' => Len(all) <= Depth.levels
    <3>1. ~dropped' => ~(Len(book) = Depth.levels /\ Len(book') = Depth.levels)
      <4>1. ASSUME ~dropped', Len(book) = Depth.levels, Len(book') = Depth.levels PROVE FALSE
        <5>1. size > 0 /\ \A i \in DOMAIN book : book[i].price # r
          BY <1>14
        <5> QED
          BY <1>1, <4>1, <5>1, Zenon
      <4> QED
        BY <4>1
    <3>2. Len(book) = Depth.levels => Len(book') = Depth.levels
      BY <1>3, <2>1, <2>8, <2>9
    <3> QED
      BY <1>2, <1>3, <2>8, <3>1, <3>2
  <2>14. ~dropped' => {book'[i] : i \in DOMAIN book'} = others \cup {new}
    <3>1. ~dropped' => book' = all
      BY <2>1, <2>9, <2>13
    <3>2. {all[i] : i \in DOMAIN all} = S \cup {new}
      BY <2>8
    <3> QED
      BY <2>5, <3>1, <3>2
  <2> QED
    BY <1>14, <2>1, <2>9, <2>10, <2>12, <2>14
<1> QED
  BY <1>3, <1>11, <1>12, <1>13, <1>14

\* A book of the empty feed is empty.
LEMMA MarketStarts ==
    ASSUME Market!DepthConstants, Market!Init
    PROVE  MarketIInv
<1>1. book = <<>> /\ snapshots = <<>> /\ feed = [r \in Depth.ranks |-> 0] /\ dropped = FALSE
  BY DEF Market!Init, Market!Empty
<1>2. LadderIsTrue
  BY <1>1 DEF LadderIsTrue, Market!LadderIsTrue
<1>3. book \in Seq(Market!Level) /\ snapshots \in Seq(Seq(Market!Level))
  BY <1>1
<1> QED
  BY <1>1, <1>2, <1>3 DEF MarketIInv

\* No message of the feed makes the book untrue.
LEMMA MarketStep ==
    ASSUME Market!DepthConstants, MarketIInv, Market!Next
    PROVE  MarketIInv'
<1>1. ASSUME Market!ClearSymbol PROVE MarketIInv'
  <2>1. book' = <<>> /\ snapshots' = <<>> /\ feed' = [r \in Depth.ranks |-> 0] /\ dropped' = FALSE
    BY <1>1 DEF Market!ClearSymbol, Market!Empty
  <2>2. LadderIsTrue'
    BY <2>1 DEF LadderIsTrue, Market!LadderIsTrue
  <2>3. book' \in Seq(Market!Level) /\ snapshots' \in Seq(Seq(Market!Level))
    BY <2>1
  <2> QED
    BY <2>1, <2>2, <2>3 DEF MarketIInv
<1> QED
  BY <1>1, SnapshotIsTrue, LevelIsTrue DEF Market!Next

\* However snapshots and changes of single levels follow each other, a book has its
\* levels in order and no more than the depth, each with the volume the feed told last,
\* and none is missing unless one had to be left out since the last snapshot.
THEOREM LadderIsAlwaysTrue == ServicesSpec => []LadderIsTrue
<1>0. Market!DepthConstants
  BY ServicesConstants
<1>1. ServicesInit => MarketIInv
  BY <1>0, MarketStarts DEF ServicesInit
<1>2. MarketIInv /\ [ServicesNext]_serviceVars => MarketIInv'
  <2> SUFFICES ASSUME MarketIInv, [ServicesNext]_serviceVars
               PROVE  MarketIInv'
    OBVIOUS
  <2>1. CASE Market!Next
    BY <1>0, <2>1, MarketStep
  <2>2. CASE UNCHANGED marketVars
    <3>1. UNCHANGED <<book, snapshots, feed, dropped>>
      BY <2>2 DEF marketVars
    <3>2. LadderIsTrue'
      BY <3>1 DEF MarketIInv, LadderIsTrue, Market!LadderIsTrue, Market!Ladder, Market!Told,
                  Market!BestFirst, Market!Sorted
    <3> QED
      BY <3>1, <3>2 DEF MarketIInv
  <2> QED
    BY <2>1, <2>2 DEF ServicesNext, Only, serviceVars
<1>3. MarketIInv => LadderIsTrue
  BY DEF MarketIInv
<1> QED
  BY <1>1, <1>2, <1>3, PTL DEF ServicesSpec

-----------------------------------------------------------------------------
\* Consensus prices.

\* The counts and bijections of the consensus are those of finite sets.
LEMMA PriceCounts ==
    /\ \A S : Price!IsFiniteSet(S) <=> IsFiniteSet(S)
    /\ \A S : Price!Cardinality(S) = Cardinality(S)
    /\ \A S, T : Price!Bijection(S, T) = Bijection(S, T)
<1>1. \A S : Price!IsFiniteSet(S) <=> IsFiniteSet(S)
  BY Zenon DEF Price!IsFiniteSet, IsFiniteSet
<1>2. \A S : Price!Cardinality(S) = Cardinality(S)
  BY Zenon DEF Price!Cardinality, Cardinality
<1>3. \A f : Price!IsInjective(f) <=> IsInjective(f)
  BY Zenon DEF Price!IsInjective, IsInjective
<1>4. \A S, T : Price!Bijection(S, T) = Bijection(S, T)
  BY <1>3 DEF Price!Bijection, Bijection, Price!Injection, Injection, Price!Surjection, Surjection
<1> QED
  BY <1>1, <1>2, <1>4

\* Where the fences are for the values next to the quartiles, by the number of values.
LEMMA Fences ==
    ASSUME NEW a \in Int, NEW b \in Int, NEW c \in Int, NEW d \in Int, NEW e \in Int,
           a <= b, b <= c, c <= d, d <= e, NEW low, NEW high
    PROVE  /\ low = 4 * a /\ high = 4 * c
                => Price!Within(a, low, high) /\ Price!Within(b, low, high) /\ Price!Within(c, low, high)
           /\ low = 4 * a + (b - a) /\ high = 4 * c + 3 * (d - c)
                => Price!Within(a, low, high) /\ Price!Within(b, low, high) /\ Price!Within(c, low, high)
           /\ low = 4 * a + 2 * (b - a) /\ high = 4 * b + 2 * (c - b)
                => Price!Within(a, low, high) /\ Price!Within(b, low, high) /\ Price!Within(c, low, high)
           /\ low = 4 * a + 2 * (b - a) /\ high = 4 * d + 2 * (e - d)
                => Price!Within(b, low, high) /\ Price!Within(c, low, high) /\ Price!Within(d, low, high)
           /\ low = 4 * a + 3 * (b - a) /\ high = 4 * d + (e - d)
                => Price!Within(b, low, high) /\ Price!Within(c, low, high) /\ Price!Within(d, low, high)
           /\ low = 4 * a + 3 * (b - a) /\ high = 4 * c + (d - c)
                => /\ Price!Within(b, low, high) /\ Price!Within(c, low, high)
                   /\ Price!Within(a, low, high) \/ Price!Within(d, low, high)
  BY DEF Price!Within

\* Of three values and more, in order, three lie within one and a half times the range
\* between the quartiles.
LEMMA ThreeAreWithin ==
    ASSUME NEW n \in Nat, n >= 3, NEW m \in Seq(Int), Len(m) = n,
           \A i, j \in 1..n : i < j => m[i] <= m[j]
    PROVE  \E i, j, k \in 1..n : /\ i < j /\ j < k
             /\ \A x \in {i, j, k} : Price!Within(m[x], Price!Quartile(m, 1), Price!Quartile(m, 3))
<1> DEFINE k == (n - 1) \div 4
           r == (n - 1) % 4
           low == Price!Quartile(m, 1)
           high == Price!Quartile(m, 3)
<1>1. k \in Nat /\ r \in 0..3 /\ n = 4 * k + r + 1
  OBVIOUS
<1>2. \A i \in 1..n : m[i] \in Int
  OBVIOUS
<1>3. low = 4 * m[k + 1] + (IF r = 0 THEN 0 ELSE r * (m[k + 2] - m[k + 1]))
  BY <1>1 DEF Price!Quartile
<1>4. /\ r = 0 => high = 4 * m[3 * k + 1]
      /\ r = 1 => high = 4 * m[3 * k + 1] + 3 * (m[3 * k + 2] - m[3 * k + 1])
      /\ r = 2 => high = 4 * m[3 * k + 2] + 2 * (m[3 * k + 3] - m[3 * k + 2])
      /\ r = 3 => high = 4 * m[3 * k + 3] + (m[3 * k + 4] - m[3 * k + 3])
  <2> DEFINE q == (3 * (n - 1)) \div 4
             rest == (3 * (n - 1)) % 4
  <2>1. /\ r = 0 => q = 3 * k /\ rest = 0
        /\ r = 1 => q = 3 * k /\ rest = 3
        /\ r = 2 => q = 3 * k + 1 /\ rest = 2
        /\ r = 3 => q = 3 * k + 2 /\ rest = 1
    BY <1>1
  <2>2. high = 4 * m[q + 1] + (IF rest = 0 THEN 0 ELSE rest * (m[q + 2] - m[q + 1]))
    BY DEF Price!Quartile
  <2> HIDE DEF k, r, high, q, rest
  <2>3. /\ 3 * k + 1 + 1 = 3 * k + 2 /\ 3 * k + 1 + 2 = 3 * k + 3
        /\ 3 * k + 2 + 1 = 3 * k + 3 /\ 3 * k + 2 + 2 = 3 * k + 4
    BY <1>1
  <2>4. CASE r = 0
    <3>1. 3 * k + 1 \in 1..n
      BY <1>1, <2>4
    <3> QED
      BY <1>2, <2>1, <2>2, <2>4, <3>1
  <2>5. CASE r = 1
    BY <2>1, <2>2, <2>5
  <2>6. CASE r = 2
    BY <2>1, <2>2, <2>3, <2>6
  <2>7. CASE r = 3
    <3>1. high = 4 * m[3 * k + 3] + 1 * (m[3 * k + 4] - m[3 * k + 3])
      BY <2>1, <2>2, <2>3, <2>7
    <3>2. 3 * k + 3 \in 1..n /\ 3 * k + 4 \in 1..n
      BY <1>1, <2>7
    <3> QED
      BY <1>2, <2>7, <3>1, <3>2
  <2> QED
    BY <1>1, <2>4, <2>5, <2>6, <2>7
<1> DEFINE In(x) == Price!Within(m[x], low, high)
<1> HIDE DEF k, r, low, high
<1>5. SUFFICES \E a, b, c \in 1..n : a < b /\ b < c /\ In(a) /\ In(b) /\ In(c)
  BY <1>5 DEF low, high
<1>6. \A x : In(x) <=> Price!Within(m[x], low, high)
  OBVIOUS
<1> HIDE DEF In
<1>7. \A i, j \in 1..n : i <= j => m[i] <= m[j]
  BY <1>2
<1>8. CASE r = 0
  <2>1. /\ k + 1 \in 1..n /\ k + 2 \in 1..n /\ 3 * k + 1 \in 1..n
        /\ k + 1 < k + 2 /\ k + 2 < 3 * k + 1
    BY <1>1, <1>8
  <2>2. m[k + 1] <= m[k + 2] /\ m[k + 2] <= m[3 * k + 1]
    BY <1>7, <2>1
  <2>3. low = 4 * m[k + 1] /\ high = 4 * m[3 * k + 1]
    BY <1>2, <1>3, <1>4, <1>8, <2>1
  <2>4. In(k + 1) /\ In(k + 2) /\ In(3 * k + 1)
    <3>1. /\ m[k + 1] \in Int
          /\ m[k + 2] \in Int
          /\ m[3 * k + 1] \in Int
      BY <1>2, <2>1
    <3>3. m[3 * k + 1] <= m[3 * k + 1]
      BY ONLY <3>1
    <3>2. /\ Price!Within(m[k + 1], low, high)
          /\ Price!Within(m[k + 2], low, high)
          /\ Price!Within(m[3 * k + 1], low, high)
      BY ONLY <2>2, <2>3, <3>1, <3>3, Fences
    <3> QED
      BY <1>6, <3>2
  <2> QED
    BY <2>1, <2>4
<1>9. CASE r = 1
  <2>1. /\ k + 1 \in 1..n /\ k + 2 \in 1..n /\ 3 * k + 1 \in 1..n /\ 3 * k + 2 \in 1..n
        /\ k + 1 < k + 2 /\ k + 2 < 3 * k + 1 /\ 3 * k + 1 < 3 * k + 2
    BY <1>1, <1>9
  <2>2. m[k + 1] <= m[k + 2] /\ m[k + 2] <= m[3 * k + 1] /\ m[3 * k + 1] <= m[3 * k + 2]
    BY <1>7, <2>1
  <2>3. /\ low = 4 * m[k + 1] + (m[k + 2] - m[k + 1])
        /\ high = 4 * m[3 * k + 1] + 3 * (m[3 * k + 2] - m[3 * k + 1])
    BY <1>2, <1>3, <1>4, <1>9, <2>1
  <2>4. In(k + 1) /\ In(k + 2) /\ In(3 * k + 1)
    <3>1. /\ m[k + 1] \in Int
          /\ m[k + 2] \in Int
          /\ m[3 * k + 1] \in Int
          /\ m[3 * k + 2] \in Int
      BY <1>2, <2>1
    <3>3. m[3 * k + 2] <= m[3 * k + 2]
      BY ONLY <3>1
    <3>2. /\ Price!Within(m[k + 1], low, high)
          /\ Price!Within(m[k + 2], low, high)
          /\ Price!Within(m[3 * k + 1], low, high)
      BY ONLY <2>2, <2>3, <3>1, <3>3, Fences
    <3> QED
      BY <1>6, <3>2
  <2> QED
    BY <2>1, <2>4
<1>10. CASE r = 2 /\ k >= 1
  <2>1. /\ k + 1 \in 1..n /\ k + 2 \in 1..n /\ k + 3 \in 1..n /\ 3 * k + 2 \in 1..n
        /\ 3 * k + 3 \in 1..n /\ k + 2 < k + 3 /\ k + 3 < 3 * k + 2 + 1 /\ k + 1 < k + 2
    BY <1>1, <1>10
  <2>2. /\ m[k + 1] <= m[k + 2] /\ m[k + 2] <= m[k + 3] /\ m[k + 3] <= m[3 * k + 2]
        /\ m[3 * k + 2] <= m[3 * k + 3]
    BY <1>7, <2>1, <1>1
  <2>3. /\ low = 4 * m[k + 1] + 2 * (m[k + 2] - m[k + 1])
        /\ high = 4 * m[3 * k + 2] + 2 * (m[3 * k + 3] - m[3 * k + 2])
    BY <1>2, <1>3, <1>4, <1>10, <2>1
  <2>4. In(k + 2) /\ In(k + 3) /\ In(3 * k + 2)
    <3>1. /\ m[k + 1] \in Int
          /\ m[k + 2] \in Int
          /\ m[k + 3] \in Int
          /\ m[3 * k + 2] \in Int
          /\ m[3 * k + 3] \in Int
      BY <1>2, <2>1
    <3>2. /\ Price!Within(m[k + 2], low, high)
          /\ Price!Within(m[k + 3], low, high)
          /\ Price!Within(m[3 * k + 2], low, high)
      BY ONLY <2>2, <2>3, <3>1, Fences
    <3> QED
      BY <1>6, <3>2
  <2>5. k + 3 < 3 * k + 2
    BY <1>1, <1>10
  <2> QED
    BY <2>1, <2>4, <2>5
<1>11. CASE r = 2 /\ k = 0
  <2>1. n = 3 /\ 1 \in 1..n /\ 2 \in 1..n /\ 3 \in 1..n
    BY <1>1, <1>11
  <2>2. m[1] <= m[2] /\ m[2] <= m[3]
    BY <1>7, <2>1
  <2>3. low = 4 * m[1] + 2 * (m[2] - m[1]) /\ high = 4 * m[2] + 2 * (m[3] - m[2])
    BY <1>2, <1>3, <1>4, <1>11, <2>1
  <2>4. In(1) /\ In(2) /\ In(3)
    <3>1. /\ m[1] \in Int
          /\ m[2] \in Int
          /\ m[3] \in Int
      BY <1>2, <2>1
    <3>3. m[3] <= m[3]
      BY ONLY <3>1
    <3>2. /\ Price!Within(m[1], low, high)
          /\ Price!Within(m[2], low, high)
          /\ Price!Within(m[3], low, high)
      BY ONLY <2>2, <2>3, <3>1, <3>3, Fences
    <3> QED
      BY <1>6, <3>2
  <2> QED
    BY <2>1, <2>4
<1>12. CASE r = 3 /\ k >= 1
  <2>1. /\ k + 1 \in 1..n /\ k + 2 \in 1..n /\ k + 3 \in 1..n /\ 3 * k + 3 \in 1..n
        /\ 3 * k + 4 \in 1..n /\ k + 2 < k + 3 /\ k + 3 < 3 * k + 3 /\ k + 1 < k + 2
    BY <1>1, <1>12
  <2>2. /\ m[k + 1] <= m[k + 2] /\ m[k + 2] <= m[k + 3] /\ m[k + 3] <= m[3 * k + 3]
        /\ m[3 * k + 3] <= m[3 * k + 4]
    BY <1>7, <2>1, <1>1
  <2>3. /\ low = 4 * m[k + 1] + 3 * (m[k + 2] - m[k + 1])
        /\ high = 4 * m[3 * k + 3] + (m[3 * k + 4] - m[3 * k + 3])
    BY <1>2, <1>3, <1>4, <1>12, <2>1
  <2>4. In(k + 2) /\ In(k + 3) /\ In(3 * k + 3)
    <3>1. /\ m[k + 1] \in Int
          /\ m[k + 2] \in Int
          /\ m[k + 3] \in Int
          /\ m[3 * k + 3] \in Int
          /\ m[3 * k + 4] \in Int
      BY <1>2, <2>1
    <3>2. /\ Price!Within(m[k + 2], low, high)
          /\ Price!Within(m[k + 3], low, high)
          /\ Price!Within(m[3 * k + 3], low, high)
      BY ONLY <2>2, <2>3, <3>1, Fences
    <3> QED
      BY <1>6, <3>2
  <2> QED
    BY <2>1, <2>4
<1>13. CASE r = 3 /\ k = 0
  <2>1. n = 4 /\ 1 \in 1..n /\ 2 \in 1..n /\ 3 \in 1..n /\ 4 \in 1..n
    BY <1>1, <1>13
  <2>2. m[1] <= m[2] /\ m[2] <= m[3] /\ m[3] <= m[4]
    BY <1>7, <2>1
  <2>3. low = 4 * m[1] + 3 * (m[2] - m[1]) /\ high = 4 * m[3] + (m[4] - m[3])
    BY <1>2, <1>3, <1>4, <1>13, <2>1
  <2>4. In(2) /\ In(3) /\ (In(1) \/ In(4))
    <3>1. m[1] \in Int /\ m[2] \in Int /\ m[3] \in Int /\ m[4] \in Int
      BY <1>2, <2>1
    <3>3. m[4] <= m[4]
      BY ONLY <3>1
    <3>2. /\ Price!Within(m[2], low, high) /\ Price!Within(m[3], low, high)
          /\ Price!Within(m[1], low, high) \/ Price!Within(m[4], low, high)
      BY ONLY <2>2, <2>3, <3>1, <3>3, Fences
    <3> QED
      BY <1>6, <3>2
  <2>5. CASE In(1)
    BY <2>1, <2>4, <2>5
  <2>6. CASE In(4)
    BY <2>1, <2>4, <2>6
  <2> QED
    BY <2>4, <2>5, <2>6
<1> QED
  BY <1>1, <1>8, <1>9, <1>10, <1>11, <1>12, <1>13

(* The quotes that are kept are quotes, no older than it is told apart. *)
PriceIInv == latest \in [Feeds.sources -> [bid : Nat, ask : Nat, age : 0..Feeds.second]]

\* The sources are put in the order of their mid prices.
LEMMA SourcesInOrder ==
    ASSUME NEW S, IsFiniteSet(S), NEW ticks, \A s \in S : Price!Mid(ticks[s]) \in Int
    PROVE  InOrder(Price!ByMid(ticks, S), S, [s \in S |-> Price!Mid(ticks[s])])
<1> DEFINE mid == [s \in S |-> Price!Mid(ticks[s])]
           n == Cardinality(S)
           Good(order) == \A i, j \in DOMAIN order :
                            i < j => Price!Mid(ticks[order[i]]) <= Price!Mid(ticks[order[j]])
<1>1. PICK order : InOrder(order, S, mid)
  BY ValuesCanBeOrdered
<1>2. \A o \in Bijection(1..n, S) : DOMAIN o = 1..n /\ \A i \in 1..n : mid[o[i]] = Price!Mid(ticks[o[i]])
  BY DEF Bijection, Injection
<1>3. \A o \in Bijection(1..n, S) : Good(o) <=> InOrder(o, S, mid)
  BY <1>2 DEF InOrder
<1>4. Price!ByMid(ticks, S) = CHOOSE o \in Bijection(1..n, S) : Good(o)
  BY PriceCounts DEF Price!ByMid
<1>5. order \in Bijection(1..n, S)
  BY <1>1 DEF InOrder
<1> HIDE DEF Good, mid, n
<1>6. Price!ByMid(ticks, S) \in Bijection(1..n, S) /\ Good(Price!ByMid(ticks, S))
  BY <1>1, <1>3, <1>4, <1>5
<1> QED
  BY <1>3, <1>6 DEF mid

\* No more are taken for outliers than leaves three, or all of fewer.
LEMMA ThreeAreAccepted ==
    ASSUME NEW fresh, IsFiniteSet(fresh), NEW ticks,
           \A s \in fresh : Price!Mid(ticks[s]) \in Int
    PROVE  LET accepted == Price!Accepted(ticks, fresh)
           IN  /\ accepted \subseteq fresh
               /\ \/ accepted = fresh
                  \/ \E a, b, c \in accepted : a # b /\ b # c /\ a # c
<1> DEFINE n == Cardinality(fresh)
           order == Price!ByMid(ticks, fresh)
           m == [i \in DOMAIN order |-> Price!Mid(ticks[order[i]])]
           low == Price!Quartile(m, 1)
           high == Price!Quartile(m, 3)
           accepted == Price!Accepted(ticks, fresh)
<1>1. n \in Nat
  BY FS_CardinalityType
<1>2. accepted = IF n < 3 THEN fresh
                 ELSE {s \in fresh : Price!Within(Price!Mid(ticks[s]), low, high)}
  BY PriceCounts DEF Price!Accepted
<1>3. InOrder(order, fresh, [s \in fresh |-> Price!Mid(ticks[s])])
  BY SourcesInOrder
<1> HIDE DEF order, n
<1>4. /\ order \in [1..n -> fresh] /\ DOMAIN order = 1..n
      /\ \A i, j \in 1..n : order[i] = order[j] => i = j
      /\ \A i, j \in 1..n : i < j => Price!Mid(ticks[order[i]]) <= Price!Mid(ticks[order[j]])
  BY <1>3 DEF InOrder, Bijection, Injection, IsInjective, n
<1>5. m = [i \in 1..n |-> Price!Mid(ticks[order[i]])]
  BY <1>4
<1>6. \A i \in 1..n : order[i] \in fresh /\ m[i] = Price!Mid(ticks[order[i]]) /\ m[i] \in Int
  BY <1>4, <1>5
<1> HIDE DEF m
<1>7. m \in Seq(Int) /\ Len(m) = n
  BY <1>1, <1>5, <1>6
<1>8. \A i, j \in 1..n : i < j => m[i] <= m[j]
  BY <1>4, <1>6
<1> HIDE DEF low, high, accepted
<1>9. CASE n < 3
  BY <1>2, <1>9 DEF accepted
<1>10. CASE ~(n < 3)
  <2>1. n >= 3
    BY <1>1, <1>10
  <2>2. PICK i \in 1..n, j \in 1..n, k \in 1..n : /\ i < j /\ j < k
             /\ \A x \in {i, j, k} : Price!Within(m[x], low, high)
    BY <1>1, <1>7, <1>8, <2>1, ThreeAreWithin DEF low, high
  <2>3. order[i] \in accepted /\ order[j] \in accepted /\ order[k] \in accepted
    BY <1>2, <1>6, <1>10, <2>2
  <2>4. order[i] # order[j] /\ order[j] # order[k] /\ order[i] # order[k]
    BY <1>1, <1>4, <2>2
  <2>5. accepted \subseteq fresh
    BY <1>2, <1>10
  <2> QED
    BY <2>3, <2>4, <2>5 DEF accepted
<1> QED
  BY <1>9, <1>10

\* Three different things are three at least.
LEMMA ThreeCount ==
    ASSUME NEW S, IsFiniteSet(S), NEW a \in S, NEW b \in S, NEW c \in S, a # b, b # c, a # c
    PROVE  Cardinality(S) >= 3
<1>1. /\ IsFiniteSet({}) /\ Cardinality({}) = 0
  BY FS_EmptySet
<1>2. IsFiniteSet({a}) /\ Cardinality({a}) = 1
  BY FS_Singleton
<1>3. IsFiniteSet({a, b}) /\ Cardinality({a, b}) = 2
  <2>1. {a, b} = {a} \cup {b} /\ b \notin {a}
    OBVIOUS
  <2>2. IsFiniteSet({a} \cup {b}) /\ Cardinality({a} \cup {b}) = 1 + 1
    BY <1>2, <2>1, FS_AddElement
  <2> QED
    BY <2>1, <2>2
<1>4. IsFiniteSet({a, b, c}) /\ Cardinality({a, b, c}) = 3
  <2>1. {a, b, c} = {a, b} \cup {c} /\ c \notin {a, b}
    OBVIOUS
  <2>2. IsFiniteSet({a, b} \cup {c}) /\ Cardinality({a, b} \cup {c}) = 2 + 1
    BY <1>3, <2>1, FS_AddElement
  <2> QED
    BY <2>1, <2>2
<1>5. Cardinality({a, b, c}) <= Cardinality(S)
  <2>1. {a, b, c} \subseteq S
    OBVIOUS
  <2> QED
    BY <2>1, FS_Subset
<1> QED
  BY <1>4, <1>5

\* Of finitely many values one is the best bid, one the best ask.
LEMMA BestQuote ==
    ASSUME NEW S, IsFiniteSet(S), S # {}, NEW ticks,
           \A s \in S : ticks[s].bid \in Int /\ ticks[s].ask \in Int
    PROVE  /\ \A s \in S : ticks[s].bid <= Price!BestBid(ticks, S)
           /\ \A s \in S : Price!BestAsk(ticks, S) <= ticks[s].ask
           /\ Price!BestBid(ticks, S) \in Int /\ Price!BestAsk(ticks, S) \in Int
<1> DEFINE bid == [s \in S |-> ticks[s].bid]
           ask == [s \in S |-> -ticks[s].ask]
           Bids == {ticks[s].bid : s \in S}
           Asks == {ticks[s].ask : s \in S}
<1>1. PICK x \in S : \A y \in S : bid[y] <= bid[x]
  BY HighestValue
<1>2. PICK z \in S : \A y \in S : ask[y] <= ask[z]
  <2>1. \A s \in S : ask[s] \in Int
    OBVIOUS
  <2> HIDE DEF ask
  <2> QED
    BY <2>1, HighestValue
<1>3. ticks[x].bid \in Bids /\ \A v \in Bids : ticks[x].bid >= v
  BY <1>1
<1>4. ticks[z].ask \in Asks /\ \A v \in Asks : ticks[z].ask =< v
  <2>1. \A y \in S : ticks[z].ask <= ticks[y].ask
    BY <1>2
  <2> QED
    BY <2>1
<1>5. Price!BestBid(ticks, S) = CHOOSE v \in Bids : \A w \in Bids : v >= w
  BY DEF Price!BestBid, Price!Max
<1>6. Price!BestAsk(ticks, S) = CHOOSE v \in Asks : \A w \in Asks : v =< w
  BY DEF Price!BestAsk, Price!Min
<1>7. Price!BestBid(ticks, S) \in Bids /\ \A w \in Bids : Price!BestBid(ticks, S) >= w
  BY <1>3, <1>5
<1>8. Price!BestAsk(ticks, S) \in Asks /\ \A w \in Asks : Price!BestAsk(ticks, S) =< w
  BY <1>4, <1>6
<1> QED
  BY <1>7, <1>8

\* A price that is formed of several sources lies within the quotes of those it accepts.
LEMMA FormedIsShared ==
    ASSUME Price!PriceConstants,
           NEW ticks \in [Feeds.sources -> [bid : Nat, ask : Nat, age : 0..Feeds.second]],
           NEW price \in Price!Formed(ticks), price.source = "several"
    PROVE  LET fresh == Price!Fresh(ticks)
               within == {s \in fresh : /\ ticks[s].bid <= price.bid
                                        /\ price.ask <= ticks[s].ask}
           IN  /\ price.bid < price.ask /\ price.age < Feeds.second
               /\ Price!Cardinality(within) >= Price!Min({3, Price!Cardinality(fresh)})
<1> DEFINE fresh == Price!Fresh(ticks)
           accepted == Price!Accepted(ticks, fresh)
           within == {s \in fresh : ticks[s].bid <= price.bid /\ price.ask <= ticks[s].ask}
<1>1. IsFiniteSet(fresh) /\ fresh \subseteq Feeds.sources
  <2>1. fresh \subseteq Feeds.sources
    BY DEF Price!Fresh, Price!Known
  <2>2. IsFiniteSet(Feeds.sources)
    BY PriceCounts DEF Price!PriceConstants
  <2> QED
    BY <2>1, <2>2, FS_Subset
<1>2. \A s \in Feeds.sources : ticks[s].bid \in Nat /\ ticks[s].ask \in Nat /\ ticks[s].age \in Int
                               /\ Price!Mid(ticks[s]) \in Int
  BY DEF Price!Mid, Price!PriceConstants
<1>3. \A s \in fresh : ticks[s].age < Feeds.second
  BY DEF Price!Fresh
<1>4. PICK t \in accepted :
        /\ ~(Price!BestBid(ticks, accepted) >= Price!BestAsk(ticks, accepted))
        /\ price = [bid |-> Price!BestBid(ticks, accepted), ask |-> Price!BestAsk(ticks, accepted),
                    age |-> ticks[t].age, source |-> "several"]
  <2> HIDE DEF accepted, fresh
  <2>1. price \in IF Price!Cardinality(Price!Known(ticks)) = 1
        THEN {[bid |-> ticks[s].bid, ask |-> ticks[s].ask, age |-> ticks[s].age, source |-> "one"] :
                s \in Price!Known(ticks)}
        ELSE IF \/ 100 * Price!Cardinality(fresh) < Feeds.threshold * Price!Cardinality(Price!Known(ticks))
                \/ Price!BestBid(ticks, accepted) >= Price!BestAsk(ticks, accepted)
        THEN {}
        ELSE {[bid |-> Price!BestBid(ticks, accepted), ask |-> Price!BestAsk(ticks, accepted),
               age |-> ticks[s].age, source |-> "several"] : s \in accepted}
    BY DEF Price!Formed, accepted, fresh
  <2>2. price.source # "one"
    OBVIOUS
  <2>3. Price!Cardinality(Price!Known(ticks)) # 1
    BY <2>1, <2>2
  <2>4. /\ ~(Price!BestBid(ticks, accepted) >= Price!BestAsk(ticks, accepted))
        /\ price \in {[bid |-> Price!BestBid(ticks, accepted),
                      ask |-> Price!BestAsk(ticks, accepted),
                      age |-> ticks[s].age, source |-> "several"] : s \in accepted}
    BY <2>1, <2>3
  <2> QED
    BY <2>4
<1> HIDE DEF fresh
<1>5. /\ accepted \subseteq fresh
      /\ \/ accepted = fresh
         \/ \E a, b, c \in accepted : a # b /\ b # c /\ a # c
  BY <1>1, <1>2, ThreeAreAccepted
<1> HIDE DEF accepted
<1>6. IsFiniteSet(accepted) /\ accepted # {} /\ accepted \subseteq Feeds.sources
  BY <1>1, <1>4, <1>5, FS_Subset
<1>7. /\ \A s \in accepted : ticks[s].bid <= price.bid /\ price.ask <= ticks[s].ask
      /\ price.bid \in Int /\ price.ask \in Int /\ price.age = ticks[t].age
      /\ price.bid = Price!BestBid(ticks, accepted) /\ price.ask = Price!BestAsk(ticks, accepted)
  <2>1. \A s \in accepted : ticks[s].bid \in Int /\ ticks[s].ask \in Int
    BY <1>2, <1>6
  <2>2. /\ \A s \in accepted : ticks[s].bid <= Price!BestBid(ticks, accepted)
        /\ \A s \in accepted : Price!BestAsk(ticks, accepted) <= ticks[s].ask
        /\ Price!BestBid(ticks, accepted) \in Int /\ Price!BestAsk(ticks, accepted) \in Int
    BY <1>6, <2>1, BestQuote
  <2> QED
    BY <1>4, <2>2
<1>8. price.bid < price.ask /\ price.age < Feeds.second
  BY <1>3, <1>4, <1>5, <1>7
<1>9. accepted \subseteq within
  BY <1>5, <1>7
<1>10. IsFiniteSet(within) /\ within \subseteq fresh
  <2>1. within \subseteq fresh
    OBVIOUS
  <2> QED
    BY <1>1, <2>1, FS_Subset
<1> HIDE DEF within
<1>11. Cardinality(within) \in Nat /\ Cardinality(fresh) \in Nat
  BY <1>1, <1>10, FS_CardinalityType
<1>12. Cardinality(within) = Cardinality(fresh) \/ Cardinality(within) >= 3
  <2>1. CASE accepted = fresh
    <3>1. within = fresh
      BY <1>9, <1>10, <2>1
    <3> QED
      BY <3>1
  <2>2. CASE \E a, b, c \in accepted : a # b /\ b # c /\ a # c
    <3>1. PICK a, b, c \in within : a # b /\ b # c /\ a # c
      BY <1>9, <2>2
    <3> QED
      BY <1>10, <3>1, ThreeCount
  <2> QED
    BY <1>5, <2>1, <2>2
<1>13. Price!Min({3, Cardinality(fresh)}) \in {3, Cardinality(fresh)}
       /\ Price!Min({3, Cardinality(fresh)}) <= 3
       /\ Price!Min({3, Cardinality(fresh)}) <= Cardinality(fresh)
  <2> DEFINE T == {3, Cardinality(fresh)}
  <2>1. \E x \in T : \A y \in T : x =< y
    <3>1. CASE 3 <= Cardinality(fresh)
      BY <1>11, <3>1
    <3>2. CASE ~(3 <= Cardinality(fresh))
      BY <1>11, <3>2
    <3> QED
      BY <3>1, <3>2
  <2>2. Price!Min(T) = CHOOSE x \in T : \A y \in T : x =< y
    BY DEF Price!Min
  <2>3. Price!Min(T) \in T /\ \A y \in T : Price!Min(T) =< y
    <3> HIDE DEF T
    <3> QED
      BY <2>1, <2>2
  <2> QED
    BY <2>3
<1>14. Cardinality(within) >= Price!Min({3, Cardinality(fresh)})
  BY <1>11, <1>12, <1>13
<1>15. Price!Cardinality(within) >= Price!Min({3, Price!Cardinality(fresh)})
  BY <1>14, PriceCounts
<1> QED
  BY <1>8, <1>15 DEF fresh, within

\* Quotes stay quotes.
LEMMA PriceStep ==
    ASSUME Price!PriceConstants, PriceIInv, Price!Next
    PROVE  PriceIInv'
<1>1. Feeds.second \in Nat /\ Feeds.quotes \subseteq [bid : Nat, ask : Nat]
  BY DEF Price!PriceConstants
<1>2. ASSUME NEW s \in Feeds.sources, NEW quote \in Feeds.quotes, NEW age \in 0..Feeds.second,
             Price!ProcessTick(s, quote, age)
      PROVE  PriceIInv'
  <2>1. latest' = [latest EXCEPT ![s] = [bid |-> quote.bid, ask |-> quote.ask, age |-> age]]
    BY <1>2 DEF Price!ProcessTick
  <2>2. [bid |-> quote.bid, ask |-> quote.ask, age |-> age] \in
          [bid : Nat, ask : Nat, age : 0..Feeds.second]
    BY <1>1
  <2> QED
    BY <2>1, <2>2 DEF PriceIInv
<1>3. ASSUME Price!Tick PROVE PriceIInv'
  <2>1. latest' = [s \in Feeds.sources |->
          IF s \in Price!Fresh(latest) THEN [latest[s] EXCEPT !.age = @ + 1] ELSE latest[s]]
    BY <1>3 DEF Price!Tick
  <2>2. ASSUME NEW s \in Feeds.sources, s \in Price!Fresh(latest)
        PROVE  [latest[s] EXCEPT !.age = @ + 1] \in [bid : Nat, ask : Nat, age : 0..Feeds.second]
    <3>1. latest[s].age < Feeds.second
      BY <2>2 DEF Price!Fresh
    <3>2. latest[s] \in [bid : Nat, ask : Nat, age : 0..Feeds.second]
      BY DEF PriceIInv
    <3>3. latest[s].age + 1 \in 0..Feeds.second
      BY <1>1, <3>1, <3>2
    <3> QED
      BY <3>2, <3>3
  <2> QED
    BY <2>1, <2>2 DEF PriceIInv
<1> QED
  BY <1>2, <1>3 DEF Price!Next

\* However old, silent or apart the sources are, a price that is formed of several of
\* them is fresh, makes a quote and lies within the quotes of three of the fresh ones, or
\* of all of fewer.
THEOREM PricesAreAlwaysShared == ServicesSpec => PricesAreShared
<1>0. Price!PriceConstants
  BY ServicesConstants
<1> DEFINE Shared ==
      consensus' # consensus /\ consensus'.source = "several" =>
         LET fresh == Price!Fresh(latest')
             within == {s \in fresh : /\ latest'[s].bid <= consensus'.bid
                                      /\ consensus'.ask <= latest'[s].ask}
         IN  /\ consensus'.bid < consensus'.ask /\ consensus'.age < Feeds.second
             /\ Price!Cardinality(within) >= Price!Min({3, Price!Cardinality(fresh)})
<1>1. ServicesInit => PriceIInv
  BY <1>0 DEF ServicesInit, Price!Init, Price!NoQuote, PriceIInv, Price!PriceConstants
<1>2. PriceIInv /\ [ServicesNext]_serviceVars => PriceIInv'
  <2> SUFFICES ASSUME PriceIInv, [ServicesNext]_serviceVars
               PROVE  PriceIInv'
    OBVIOUS
  <2>1. CASE Price!Next
    BY <1>0, <2>1, PriceStep
  <2>2. CASE UNCHANGED quoteVars
    BY <2>2 DEF quoteVars, PriceIInv
  <2> QED
    BY <2>1, <2>2 DEF ServicesNext, Only, serviceVars
<1>3. PriceIInv /\ PriceIInv' /\ [ServicesNext]_serviceVars => [Shared]_<<latest, consensus>>
  <2> SUFFICES ASSUME PriceIInv', [ServicesNext]_serviceVars, consensus' # consensus,
                      consensus'.source = "several"
               PROVE  Shared
    BY Zenon
  <2>1. Price!Next
    BY DEF ServicesNext, Only, serviceVars, quoteVars
  <2>2. consensus' \in Price!Formed(latest')
    BY <2>1 DEF Price!Next, Price!ProcessTick, Price!Tick
  <2>3. latest' \in [Feeds.sources -> [bid : Nat, ask : Nat, age : 0..Feeds.second]]
    BY DEF PriceIInv
  <2> QED
    BY <1>0, <2>2, <2>3, FormedIsShared
<1> QED
  BY <1>1, <1>2, <1>3, PTL DEF ServicesSpec, PricesAreShared, Price!PricesAreShared, Price!priceVars

-----------------------------------------------------------------------------
(* The master control of the strategies.                                   *)

\* What the constants of the control are assumed to be.
LEMMA ControlsSaid ==
    /\ Names # {} /\ Feed \in Controllers /\ Control!Unknown \notin Regimes
    /\ Builds \subseteq Names \X {"enhanced", "adapted"}
BY ServicesConstants DEF Control!ControlConstants

\* A call that changes: the others do not, and what it becomes is a call.
LEMMA OneCallChanges ==
    ASSUME Control!TypeOK, NEW t \in Controllers, NEW c \in Control!CallRecords,
           control' = [control EXCEPT ![t] = c]
    PROVE  /\ control' \in [Controllers -> Control!CallRecords] /\ control'[t] = c
           /\ \A u \in Controllers \ {t} : control'[u] = control[u]
BY DEF Control!TypeOK

LEMMA ControlCalls ==
    /\ Control!Idle \in Control!CallRecords /\ Control!ByHand \in Control!CallRecords
    /\ Control!Idle.does = "nothing" /\ Control!Idle.at = "walk"
    /\ Control!ByHand.does = "by hand" /\ Control!ByHand.at = "walk"
    /\ ~Control!Idle.grown
<1>1. (CHOOSE n \in Names : TRUE) \in Names
  BY ControlsSaid
<1> QED
  BY <1>1 DEF Control!Idle, Control!ByHand, Control!CallRecords

\* A call that is not between a flag and the list of a name, and stays so or leaves a
\* torn name, leaves what is known of the list.
LEMMA CallsStayApart ==
    ASSUME Control!TypeOK, Control!ListedOnce, Control!CallsKnow,
           NEW t \in Controllers, NEW c \in Control!CallRecords,
           control' = [control EXCEPT ![t] = c], c.at \in {"walk", "on", "off"},
           torn \subseteq torn', Control!Mid(t) => control[t].name \in torn',
           active' = active, started' \subseteq started
    PROVE  Control!ListedOnce' /\ Control!CallsKnow'
<1>1. control'[t] = c /\ \A u \in Controllers \ {t} : control'[u] = control[u]
  BY OneCallChanges
<1>2. /\ ~Control!Mid(t)'
      /\ \A u \in Controllers \ {t} : /\ Control!Mid(u)' = Control!Mid(u)
                                      /\ Control!Activating(u)' = Control!Activating(u)
  BY <1>1 DEF Control!Mid, Control!Activating
<1>3. \A n \in Names \ torn' : \A u \in Controllers :
        Control!Activating(u) /\ control[u].name = n =>
          Control!Activating(u)' /\ control'[u].name = n
  BY <1>1, <1>2 DEF Control!Mid
<1>4. Control!ListedOnce'
  BY <1>3 DEF Control!ListedOnce
<1>5. Control!CallsKnow'
  BY <1>1, <1>2 DEF Control!CallsKnow, Control!MetAt
<1> QED
  BY <1>4, <1>5

\* What a stop and a change of regime leave to visit, of a call that is broken off.
LEMMA BreaksOffKeeps ==
    ASSUME Control!IInv, NEW t \in Controllers, Control!BreaksOff(t)
    PROVE  Control!IInv'
<1> USE DEF Control!IInv
<1>0. /\ control' = [control EXCEPT ![t] = Control!Idle]
      /\ UNCHANGED <<strategies, active, started, regime>>
      /\ torn \subseteq torn' /\ (Control!Mid(t) => control[t].name \in torn')
  BY DEF Control!BreaksOff
<1>1. /\ control' \in [Controllers -> Control!CallRecords] /\ control'[t] = Control!Idle
      /\ \A u \in Controllers \ {t} : control'[u] = control[u]
  BY <1>0, ControlCalls, OneCallChanges
<1>2. Control!TypeOK'
  BY <1>0, <1>1, ControlCalls DEF Control!TypeOK, Control!Registered
<1>3. Control!ListedOnce' /\ Control!CallsKnow'
  BY <1>0, ControlCalls, CallsStayApart
<1>4. Control!StopLeaves'
  <2>1. CASE control[t].does = "stop"
    BY <1>0, <2>1 DEF Control!BreaksOff, Control!StopLeaves
  <2>2. CASE control[t].does # "stop"
    <3>1. /\ unstopped' = unstopped
          /\ \A u \in Controllers : control[u].does = "stop" => control'[u] = control[u]
      BY <1>1, <2>2 DEF Control!BreaksOff
    <3> QED
      BY <1>0, <3>1 DEF Control!StopLeaves, Control!Stopping
  <2> QED
    BY <2>1, <2>2
<1>5. Control!RunningSuits' /\ Control!SweepLeaves'
  <2>1. CASE control[t].does = "regime"
    <3>1. t = Feed /\ unswept' = started
      BY <2>1 DEF Control!TypeOK, Control!BreaksOff
    <3> QED
      BY <1>0, <1>1, <3>1, ControlCalls DEF Control!RunningSuits, Control!SweepLeaves
  <2>2. CASE control[t].does # "regime"
    <3>1. /\ unswept' = unswept
          /\ control'[Feed].does = "regime" <=> control[Feed].does = "regime"
          /\ control[Feed].does = "regime" => control'[Feed] = control[Feed]
      BY <1>1, <2>2, ControlCalls, ControlsSaid DEF Control!BreaksOff
    <3> QED
      BY <1>0, <3>1 DEF Control!RunningSuits, Control!SweepLeaves, Control!Suited
  <2> QED
    BY <2>1, <2>2
<1> QED
  BY <1>2, <1>3, <1>4, <1>5

\* A call that reaches the list of n after its flag is alone there, unless n is torn.
LEMMA CallsMeetOrNot ==
    ASSUME Control!TypeOK, Control!CallsKnow, NEW t \in Controllers, NEW n \in Names,
           NEW r \in Control!CallRecords, NEW at \in {"listing", "unlisting"},
           ~Control!Mid(t), Control!GoesTo(t, r, n, at), active' = active,
           started' \subseteq started \cup {n}, n \in started' => at = "listing"
    PROVE  /\ control' \in [Controllers -> Control!CallRecords] /\ torn \subseteq torn'
           /\ control'[t] = [r EXCEPT !.name = n, !.at = at]
           /\ \A u \in Controllers \ {t} : control'[u] = control[u]
           /\ Control!CallsKnow'
<1> DEFINE c == [r EXCEPT !.name = n, !.at = at]
<1>1. c \in Control!CallRecords /\ c.name = n /\ c.at = at
  BY DEF Control!CallRecords
<1>2. control' = [control EXCEPT ![t] = c] /\ torn \subseteq torn'
      /\ (Control!MetAt(t, n) => n \in torn')
  BY DEF Control!GoesTo
<1> HIDE DEF c
<1>3. /\ control' \in [Controllers -> Control!CallRecords] /\ control'[t] = c
      /\ \A u \in Controllers \ {t} : control'[u] = control[u]
  BY <1>1, <1>2, OneCallChanges
<1>4. \A u \in Controllers \ {t} : Control!Mid(u)' <=> Control!Mid(u)
  BY <1>3 DEF Control!Mid, Control!Activating
<1>4a. \A u \in Controllers \ {t} : Control!Activating(u)' <=> Control!Activating(u)
  BY <1>3 DEF Control!Activating
<1>5. ASSUME NEW m \in Names \ torn', NEW u \in Controllers, Control!Mid(u)', control'[u].name = m
      PROVE  /\ ~Control!MetAt(u, m)' /\ (m \in started' => Control!Activating(u)')
             /\ control'[u].at = "appending" => active'[m] = 0
             /\ control'[u].at = "removing" => active'[m] = 1
  <2>1. CASE u = t
    <3>1. m = n /\ control'[t].at = at /\ ~Control!MetAt(t, n)
      BY <1>1, <1>2, <1>3, <1>5, <2>1
    <3>2. ~Control!MetAt(u, m)'
      BY <1>3, <1>4, <2>1, <3>1 DEF Control!MetAt
    <3> QED
      BY <2>1, <3>1, <3>2 DEF Control!Activating
  <2>2. CASE u # t
    <3>1. m \notin torn /\ Control!Mid(u) /\ control[u].name = m /\ m # n
      BY <1>2, <1>3, <1>4, <1>5, <2>2 DEF Control!MetAt
    <3> QED
      BY <1>1, <1>3, <1>4, <1>4a, <2>2, <3>1 DEF Control!CallsKnow, Control!MetAt
  <2> QED
    BY <2>1, <2>2
<1>6. Control!CallsKnow'
  BY <1>5 DEF Control!CallsKnow
<1> QED
  BY <1>2, <1>3, <1>6 DEF c

\* The activation of a strategy, by hand or by the walk of a change of regime.
LEMMA SwitchOnKeeps ==
    ASSUME Control!IInv, NEW t \in Controllers, NEW n \in Names,
           NEW r \in Control!CallRecords, Control!SwitchOn(t, r, n), ~Control!Mid(t),
           \/ r.does = "by hand" /\ control[t] = Control!Idle
           \/ /\ r = control[t] /\ t = Feed /\ r.does = "regime" /\ r.at = "on"
              /\ n \in Control!Suited
    PROVE  Control!IInv'
<1>1. CASE Control!BreaksOff(t)
  BY <1>1, BreaksOffKeeps
<1>2. CASE ~Control!BreaksOff(t)
  <2> USE DEF Control!IInv
  <2>1. /\ started' = started \cup {n} /\ unstopped' = unstopped \cup {n}
        /\ unswept' = (IF r.does = "by hand" THEN unswept \cup {n} ELSE unswept)
        /\ UNCHANGED <<strategies, active, regime>> /\ Control!GoesTo(t, r, n, "listing")
    BY <1>2 DEF Control!SwitchOn
  <2>2. /\ control' \in [Controllers -> Control!CallRecords] /\ torn \subseteq torn'
        /\ control'[t] = [r EXCEPT !.name = n, !.at = "listing"]
        /\ \A u \in Controllers \ {t} : control'[u] = control[u]
        /\ Control!CallsKnow'
    BY <2>1, CallsMeetOrNot
  <2>3. /\ control'[t].name = n /\ control'[t].at = "listing" /\ control'[t].does = r.does
        /\ control'[t].todo = r.todo
    BY <2>2 DEF Control!CallRecords
  <2>4. Control!TypeOK'
    <3>1. /\ strategies' \in [Names -> {"none", "enhanced", "adapted"}] /\ active' \in [Names -> Nat]
          /\ started' \subseteq Control!Registered'
      BY <1>2, <2>1 DEF Control!TypeOK, Control!Registered, Control!SwitchOn
    <3>2. ASSUME NEW u \in Controllers
          PROVE  /\ control'[u].does = "regime" => u = Feed
                 /\ control'[u].at \in {"on", "off"} => control'[u].does = "regime"
                 /\ control'[u].does = "nothing" => control'[u].at = "walk"
      <4>1. CASE u = t
        BY <2>3, <4>1
      <4>2. CASE u # t
        BY <2>2, <4>2 DEF Control!TypeOK
      <4> QED
        BY <4>1, <4>2
    <3> QED
      BY <2>2, <3>1, <3>2 DEF Control!TypeOK
  <2>5. Control!ListedOnce'
    <3>1. \A u \in Controllers :
            Control!Activating(u) => Control!Activating(u)' /\ control'[u].name = control[u].name
      BY <2>2 DEF Control!Mid, Control!Activating
    <3>2. Control!Activating(t)' /\ control'[t].name = n
      BY <2>3 DEF Control!Activating
    <3>3. ASSUME NEW m \in Names \ torn'
          PROVE  /\ active'[m] <= 1
                 /\ m \in started' /\ active'[m] = 0 =>
                       \E u \in Controllers : Control!Activating(u)' /\ control'[u].name = m
      <4>1. m \notin torn /\ active'[m] = active[m] /\ (m \in started' => m = n \/ m \in started)
        BY <2>1, <2>2
      <4> QED
        BY <3>1, <3>2, <4>1 DEF Control!ListedOnce
    <3> QED
      BY <3>3 DEF Control!ListedOnce
  <2>6. Control!StopLeaves'
    <3>1. \A u \in Controllers : Control!Stopping(u) => control'[u] = control[u]
      BY <2>2, ControlCalls DEF Control!Stopping
    <3> QED
      BY <2>1, <2>2, <3>1 DEF Control!StopLeaves, Control!Stopping
  <2>7. Control!RunningSuits' /\ Control!SweepLeaves'
    <3>1. CASE r.does = "by hand" /\ control[t] = Control!Idle
      <4>1. /\ control'[Feed].does = "regime" => control'[Feed] = control[Feed]
            /\ control[Feed].does = "regime" <=> control'[Feed].does = "regime"
        <5>1. control[t].does # "regime" /\ r.does # "regime"
          BY <3>1, ControlCalls
        <5>2. CASE Feed = t
          BY <2>3, <5>1, <5>2
        <5>3. CASE Feed # t
          BY <2>2, <5>3, ControlsSaid
        <5> QED
          BY <5>2, <5>3
      <4> QED
        BY <2>1, <3>1, <4>1 DEF Control!RunningSuits, Control!SweepLeaves, Control!Suited
    <3>2. CASE /\ r = control[t] /\ t = Feed /\ r.does = "regime" /\ r.at = "on"
               /\ n \in Control!Suited
      <4>1. /\ control'[Feed].does = "regime" /\ control'[Feed].at = "listing"
            /\ control'[Feed].todo = control[Feed].todo
        BY <2>3, <3>2
      <4> QED
        BY <2>1, <3>2, <4>1 DEF Control!RunningSuits, Control!SweepLeaves, Control!Suited
    <3> QED
      BY <3>1, <3>2
  <2> QED
    BY <2>2, <2>4, <2>5, <2>6, <2>7
<1> QED
  BY <1>1, <1>2

\* The deactivation of a strategy: by hand, by the walk of a change of regime or by
\* the walk of a stop.
LEMMA SwitchOffKeeps ==
    ASSUME Control!IInv, NEW t \in Controllers, NEW n \in Names,
           NEW r \in Control!CallRecords, Control!SwitchOff(t, r, n), ~Control!Mid(t),
           \/ r.does = "by hand" /\ control[t] = Control!Idle
           \/ /\ r = control[t] /\ t = Feed /\ r.does = "regime" /\ r.at = "off"
              /\ r.name = n
           \/ /\ r.does = "stop" /\ control[t].does = "stop"
              /\ \A m \in Names \ {n} : r.todo[m] = control[t].todo[m]
    PROVE  Control!IInv'
<1>1. CASE Control!BreaksOff(t)
  BY <1>1, BreaksOffKeeps
<1>2. CASE ~Control!BreaksOff(t)
  <2> USE DEF Control!IInv
  <2>1. /\ started' = started \ {n} /\ unstopped' = unstopped \ {n} /\ unswept' = unswept \ {n}
        /\ UNCHANGED <<strategies, active, regime>> /\ Control!GoesTo(t, r, n, "unlisting")
    BY <1>2 DEF Control!SwitchOff, Control!StopsRunning
  <2>2. /\ control' \in [Controllers -> Control!CallRecords] /\ torn \subseteq torn'
        /\ control'[t] = [r EXCEPT !.name = n, !.at = "unlisting"]
        /\ \A u \in Controllers \ {t} : control'[u] = control[u]
        /\ Control!CallsKnow'
    BY <2>1, CallsMeetOrNot
  <2>3. /\ control'[t].name = n /\ control'[t].at = "unlisting" /\ control'[t].does = r.does
        /\ control'[t].todo = r.todo
    BY <2>2 DEF Control!CallRecords
  <2>4. Control!TypeOK'
    <3>1. /\ strategies' \in [Names -> {"none", "enhanced", "adapted"}] /\ active' \in [Names -> Nat]
          /\ started' \subseteq Control!Registered'
      BY <1>2, <2>1 DEF Control!TypeOK, Control!Registered, Control!SwitchOn
    <3>2. ASSUME NEW u \in Controllers
          PROVE  /\ control'[u].does = "regime" => u = Feed
                 /\ control'[u].at \in {"on", "off"} => control'[u].does = "regime"
                 /\ control'[u].does = "nothing" => control'[u].at = "walk"
      <4>1. CASE u = t
        BY <2>3, <4>1
      <4>2. CASE u # t
        BY <2>2, <4>2 DEF Control!TypeOK
      <4> QED
        BY <4>1, <4>2
    <3> QED
      BY <2>2, <3>1, <3>2 DEF Control!TypeOK
  <2>5. Control!ListedOnce'
    <3>1. \A u \in Controllers :
            Control!Activating(u) => Control!Activating(u)' /\ control'[u].name = control[u].name
      BY <2>2 DEF Control!Mid, Control!Activating
    <3> QED
      BY <2>1, <2>2, <3>1 DEF Control!ListedOnce
  <2>6. Control!StopLeaves'
    <3>1. \A u \in Controllers : Control!Stopping(u) =>
            /\ Control!Stopping(u)'
            /\ \A m \in Names \ {n} : control'[u].todo[m] = control[u].todo[m]
      <4> SUFFICES ASSUME NEW u \in Controllers, Control!Stopping(u)
                   PROVE  /\ Control!Stopping(u)'
                          /\ \A m \in Names \ {n} : control'[u].todo[m] = control[u].todo[m]
        OBVIOUS
      <4>1. CASE u = t
        <5>1. r.does = "stop" /\ \A m \in Names \ {n} : r.todo[m] = control[t].todo[m]
          BY <4>1, ControlCalls DEF Control!Stopping
        <5> QED
          BY <2>3, <4>1, <5>1 DEF Control!Stopping
      <4>2. CASE u # t
        BY <2>2, <4>2 DEF Control!Stopping
      <4> QED
        BY <4>1, <4>2
    <3>2. ASSUME NEW m \in started'
          PROVE  \/ m \in unstopped' \/ m \in torn'
                 \/ m \in Names /\ \E u \in Controllers : Control!Stopping(u)' /\ control'[u].todo[m] > 0
      <4>1. m \in started /\ m # n /\ m \in Names
        BY <2>1 DEF Control!TypeOK, Control!Registered
      <4>2. \/ m \in unstopped \cup torn
            \/ \E u \in Controllers : Control!Stopping(u) /\ control[u].todo[m] > 0
        BY <4>1 DEF Control!StopLeaves
      <4> QED
        BY <2>1, <2>2, <3>1, <4>1, <4>2
    <3> QED
      BY <3>2 DEF Control!StopLeaves
  <2>7. Control!RunningSuits' /\ Control!SweepLeaves'
    <3>1. CASE r.does # "regime"
      <4>1. /\ control'[Feed].does = "regime" => control'[Feed] = control[Feed]
            /\ control[Feed].does = "regime" <=> control'[Feed].does = "regime"
        <5>1. control[t].does # "regime"
          BY <3>1, ControlCalls
        <5>2. CASE Feed = t
          BY <2>3, <3>1, <5>1, <5>2
        <5>3. CASE Feed # t
          BY <2>2, <5>3, ControlsSaid
        <5> QED
          BY <5>2, <5>3
      <4> QED
        BY <2>1, <3>1, <4>1 DEF Control!RunningSuits, Control!SweepLeaves, Control!Suited
    <3>2. CASE r.does = "regime"
      <4>1. /\ control[Feed].does = "regime" /\ control[Feed].at = "off" /\ control[Feed].name = n
            /\ control'[Feed].does = "regime" /\ control'[Feed].at = "unlisting"
            /\ control'[Feed].todo = control[Feed].todo
        BY <2>3, <3>2
      <4> QED
        BY <2>1, <4>1 DEF Control!RunningSuits, Control!SweepLeaves, Control!Suited
    <3> QED
      BY <3>1, <3>2
  <2> QED
    BY <2>2, <2>4, <2>5, <2>6, <2>7
<1> QED
  BY <1>1, <1>2

\* A call that goes back to its walk, or ends, once the list holds its name if and
\* only if it should.
LEMMA ProceedKeeps ==
    ASSUME Control!IInv, NEW t \in Controllers, Control!Mid(t), Control!Proceed(t),
           UNCHANGED <<strategies, started, regime, torn, unswept, unstopped>>,
           active' \in [Names -> Nat],
           \A m \in Names : m # control[t].name => active'[m] = active[m],
           control[t].name \notin torn =>
              /\ active'[control[t].name] <= 1
              /\ control[t].name \in started => active'[control[t].name] = 1
    PROVE  Control!IInv'
<1> USE DEF Control!IInv
<1> DEFINE n == control[t].name
           c == IF control[t].does = "by hand" THEN Control!Idle
                ELSE [control[t] EXCEPT !.at = "walk", !.name = Control!Idle.name]
<1>1. control[t] \in Control!CallRecords /\ n \in Names
  BY DEF Control!TypeOK, Control!CallRecords
<1>2. /\ c \in Control!CallRecords /\ c.at = "walk"
      /\ control[t].does = "by hand" => c.does = "nothing"
      /\ control[t].does # "by hand" => c.does = control[t].does /\ c.todo = control[t].todo
                                        /\ c.grown = control[t].grown
  BY <1>1, ControlCalls DEF Control!CallRecords
<1>3. control' = [control EXCEPT ![t] = c]
  BY DEF Control!Proceed
<1> HIDE DEF c
<1>4. /\ control' \in [Controllers -> Control!CallRecords] /\ control'[t] = c
      /\ \A u \in Controllers \ {t} : control'[u] = control[u]
  BY <1>2, <1>3, OneCallChanges
<1>5. /\ ~Control!Mid(t)'
      /\ \A u \in Controllers \ {t} : /\ Control!Mid(u)' = Control!Mid(u)
                                      /\ Control!Activating(u)' = Control!Activating(u)
  BY <1>2, <1>4 DEF Control!Mid, Control!Activating
<1>6. Control!TypeOK'
  <2>1. ASSUME NEW u \in Controllers
        PROVE  /\ control'[u].does = "regime" => u = Feed
               /\ control'[u].at \in {"on", "off"} => control'[u].does = "regime"
               /\ control'[u].does = "nothing" => control'[u].at = "walk"
    BY <1>2, <1>4 DEF Control!TypeOK
  <2> QED
    BY <1>4, <2>1 DEF Control!TypeOK, Control!Registered
<1>7. Control!ListedOnce'
  <2>1. ASSUME NEW m \in Names \ torn'
        PROVE  /\ active'[m] <= 1
               /\ m \in started' /\ active'[m] = 0 =>
                     \E u \in Controllers : Control!Activating(u)' /\ control'[u].name = m
    <3>1. CASE m = n
      BY <2>1, <3>1
    <3>2. CASE m # n
      BY <1>4, <1>5, <2>1, <3>2 DEF Control!ListedOnce
    <3> QED
      BY <3>1, <3>2
  <2> QED
    BY <2>1 DEF Control!ListedOnce
<1>8. Control!CallsKnow'
  <2>1. ASSUME NEW m \in Names \ torn', NEW u \in Controllers, Control!Mid(u)', control'[u].name = m
        PROVE  /\ ~Control!MetAt(u, m)' /\ (m \in started' => Control!Activating(u)')
               /\ control'[u].at = "appending" => active'[m] = 0
               /\ control'[u].at = "removing" => active'[m] = 1
    <3>1. u # t /\ Control!Mid(u) /\ control[u].name = m /\ control'[u] = control[u]
      BY <1>4, <1>5, <2>1
    <3>2. ~Control!MetAt(u, m) /\ m # n
      BY <2>1, <3>1 DEF Control!CallsKnow, Control!MetAt
    <3> QED
      BY <1>4, <1>5, <2>1, <3>1, <3>2 DEF Control!CallsKnow, Control!MetAt
  <2> QED
    BY <2>1 DEF Control!CallsKnow
<1>9. Control!StopLeaves'
  <2>1. \A u \in Controllers : Control!Stopping(u) =>
          Control!Stopping(u)' /\ control'[u].todo = control[u].todo
    BY <1>2, <1>4 DEF Control!Stopping
  <2> QED
    BY <2>1 DEF Control!StopLeaves
<1>10. Control!RunningSuits' /\ Control!SweepLeaves'
  <2>1. /\ control'[Feed].does = "regime" <=> control[Feed].does = "regime"
        /\ control'[Feed].does = "regime" => /\ control'[Feed].todo = control[Feed].todo
                                             /\ \/ control'[Feed] = control[Feed]
                                                \/ /\ control'[Feed].at = "walk"
                                                   /\ control[Feed].at # "off"
    BY <1>2, <1>4, ControlsSaid DEF Control!Mid, Control!Activating
  <2> QED
    BY <2>1 DEF Control!RunningSuits, Control!SweepLeaves, Control!Suited
<1> QED
  BY <1>6, <1>7, <1>8, <1>9, <1>10

\* A walk between two names: what it becomes leaves as much to visit.
LEMMA WalkKeeps ==
    ASSUME Control!IInv, NEW t \in Controllers, ~Control!Mid(t), NEW c \in Control!CallRecords,
           control' = [control EXCEPT ![t] = c], c.at \in {"walk", "on", "off"},
           UNCHANGED <<strategies, active, started, torn, unstopped>>, regime' \in Regimes \cup {regime},
           c.does = "regime" => t = Feed, c.at \in {"on", "off"} => c.does = "regime",
           c.does = "nothing" => c.at = "walk",
           Control!Stopping(t) =>
              \A n \in started : control[t].todo[n] > 0 => Control!Stopping(t)' /\ c.todo[n] > 0,
           Control!RunningSuits', Control!SweepLeaves'
    PROVE  Control!IInv'
<1> USE DEF Control!IInv
<1>1. /\ control' \in [Controllers -> Control!CallRecords] /\ control'[t] = c
      /\ \A u \in Controllers \ {t} : control'[u] = control[u]
  BY OneCallChanges
<1>2. Control!TypeOK'
  <2>1. ASSUME NEW u \in Controllers
        PROVE  /\ control'[u].does = "regime" => u = Feed
               /\ control'[u].at \in {"on", "off"} => control'[u].does = "regime"
               /\ control'[u].does = "nothing" => control'[u].at = "walk"
    <3>1. CASE u = t
      BY <1>1, <3>1
    <3>2. CASE u # t
      BY <1>1, <3>2 DEF Control!TypeOK
    <3> QED
      BY <3>1, <3>2
  <2> QED
    BY <1>1, <2>1 DEF Control!TypeOK, Control!Registered
<1>3. Control!ListedOnce' /\ Control!CallsKnow'
  BY CallsStayApart
<1>4. Control!StopLeaves'
  <2>1. ASSUME NEW n \in started', n \notin unstopped' \cup torn'
        PROVE  n \in Names /\ \E u \in Controllers : Control!Stopping(u)' /\ control'[u].todo[n] > 0
    <3>1. n \in Names /\ n \in started
      BY <2>1 DEF Control!TypeOK, Control!Registered
    <3>2. PICK u \in Controllers : Control!Stopping(u) /\ control[u].todo[n] > 0
      BY <2>1 DEF Control!StopLeaves
    <3>3. Control!Stopping(u)' /\ control'[u].todo[n] > 0
      BY <1>1, <3>1, <3>2 DEF Control!Stopping
    <3> QED
      BY <3>1, <3>3
  <2> QED
    BY <2>1 DEF Control!StopLeaves
<1> QED
  BY <1>2, <1>3, <1>4

\* A call that read the list, and goes on to change it.
LEMMA ReadsTheList ==
    ASSUME Control!IInv, NEW t \in Controllers, Control!Mid(t),
           NEW at \in {"appending", "removing"}, control' = [control EXCEPT ![t].at = at],
           UNCHANGED <<strategies, active, started, regime, torn, unswept, unstopped>>,
           at = "appending" => Control!Activating(t) /\ active[control[t].name] = 0,
           at = "removing" => ~Control!Activating(t) /\ active[control[t].name] > 0
    PROVE  Control!IInv'
<1> USE DEF Control!IInv
<1> DEFINE c == [control[t] EXCEPT !.at = at]
<1>1. /\ c \in Control!CallRecords /\ c.at = at /\ c.name = control[t].name /\ c.todo = control[t].todo
      /\ c.does = control[t].does
  BY DEF Control!TypeOK, Control!CallRecords
<1>2. control' = [control EXCEPT ![t] = c]
  BY DEF Control!TypeOK
<1> HIDE DEF c
<1>3. /\ control' \in [Controllers -> Control!CallRecords] /\ control'[t] = c
      /\ \A u \in Controllers \ {t} : control'[u] = control[u]
  BY <1>1, <1>2, OneCallChanges
<1>4. \A u \in Controllers : /\ Control!Mid(u)' <=> Control!Mid(u)
                             /\ Control!Activating(u)' <=> Control!Activating(u)
                             /\ control'[u].name = control[u].name
                             /\ control'[u].todo = control[u].todo
                             /\ control'[u].does = control[u].does
  BY <1>1, <1>3 DEF Control!Mid, Control!Activating
<1>5. Control!TypeOK'
  <2>1. ASSUME NEW u \in Controllers
        PROVE  /\ control'[u].does = "regime" => u = Feed
               /\ control'[u].at \in {"on", "off"} => control'[u].does = "regime"
               /\ control'[u].does = "nothing" => control'[u].at = "walk"
    BY <1>1, <1>3 DEF Control!TypeOK, Control!Mid, Control!Activating
  <2> QED
    BY <1>3, <2>1 DEF Control!TypeOK, Control!Registered
<1>6. Control!ListedOnce'
  BY <1>4 DEF Control!ListedOnce
<1>7. Control!CallsKnow'
  <2>1. ASSUME NEW m \in Names \ torn', NEW u \in Controllers, Control!Mid(u)', control'[u].name = m
        PROVE  /\ ~Control!MetAt(u, m)' /\ (m \in started' => Control!Activating(u)')
               /\ control'[u].at = "appending" => active'[m] = 0
               /\ control'[u].at = "removing" => active'[m] = 1
    <3>1. ~Control!MetAt(u, m)' /\ (m \in started' => Control!Activating(u)')
      BY <1>4, <2>1 DEF Control!CallsKnow, Control!MetAt
    <3>2. active[m] \in Nat /\ active[m] <= 1
      BY <2>1 DEF Control!TypeOK, Control!ListedOnce
    <3>3. CASE u = t
      BY <1>1, <1>3, <2>1, <3>1, <3>2, <3>3
    <3>4. CASE u # t
      BY <1>3, <1>4, <2>1, <3>1, <3>4 DEF Control!CallsKnow
    <3> QED
      BY <3>3, <3>4
  <2> QED
    BY <2>1 DEF Control!CallsKnow
<1>8. Control!StopLeaves'
  BY <1>4 DEF Control!StopLeaves, Control!Stopping
<1>9. Control!RunningSuits' /\ Control!SweepLeaves'
  <2>1. /\ control'[Feed].does = control[Feed].does /\ control'[Feed].todo = control[Feed].todo
        /\ control'[Feed] = control[Feed]
           \/ (control[Feed].at # "off" /\ control'[Feed].at \notin {"on", "off"})
    BY <1>1, <1>3, <1>4, ControlsSaid
    DEF Control!Mid, Control!Activating
  <2> QED
    BY <2>1 DEF Control!RunningSuits, Control!SweepLeaves, Control!Suited
<1> QED
  BY <1>5, <1>6, <1>7, <1>8, <1>9

\* The list after a name was appended or removed.
LEMMA ListChanges ==
    ASSUME Control!IInv, NEW t \in Controllers, Control!Append(t) \/ Control!Remove(t)
    PROVE  Control!IInv'
<1> DEFINE n == control[t].name
<1>1. /\ n \in Names /\ active \in [Names -> Nat] /\ Control!Mid(t)
  BY DEF Control!IInv, Control!TypeOK, Control!CallRecords, Control!Append, Control!Remove,
     Control!Mid, Control!Activating
<1>2. n \notin torn => /\ (n \in started => Control!Activating(t))
                       /\ control[t].at = "appending" => active[n] = 0
                       /\ control[t].at = "removing" => active[n] = 1
  BY <1>1 DEF Control!IInv, Control!CallsKnow
<1>3. CASE Control!Append(t)
  <2>1. active' = [active EXCEPT ![n] = @ + 1] /\ control[t].at = "appending"
    BY <1>3 DEF Control!Append
  <2>2. active' \in [Names -> Nat] /\ active'[n] = active[n] + 1
        /\ \A m \in Names : m # n => active'[m] = active[m]
    BY <1>1, <2>1
  <2> QED
    BY <1>1, <1>2, <1>3, <2>1, <2>2, ProceedKeeps DEF Control!Append, Control!shown
<1>4. CASE Control!Remove(t) /\ active[n] > 0
  <2>1. active' = [active EXCEPT ![n] = @ - 1] /\ control[t].at = "removing"
    BY <1>4 DEF Control!Remove
  <2>2. active' \in [Names -> Nat] /\ active'[n] = active[n] - 1
        /\ \A m \in Names : m # n => active'[m] = active[m]
    BY <1>1, <1>4, <2>1
  <2>3. n \notin torn => active'[n] <= 1 /\ n \notin started
    BY <1>2, <2>1, <2>2 DEF Control!Activating
  <2> QED
    BY <1>1, <1>4, <2>2, <2>3, ProceedKeeps DEF Control!Remove, Control!shown
<1>5. CASE Control!Remove(t) /\ active[n] = 0
  BY <1>5, BreaksOffKeeps DEF Control!Remove
<1> QED
  BY <1>1, <1>3, <1>4, <1>5

\* A walk that takes one of the names it has to visit.
LEMMA OneLessToVisit ==
    ASSUME NEW r \in Control!CallRecords, NEW n \in Names, r.todo[n] > 0
    PROVE  LET v == Control!Visited(r, n) IN
           /\ v \in Control!CallRecords /\ v.does = r.does /\ v.at = r.at
           /\ \A m \in Names \ {n} : v.todo[m] = r.todo[m]
<1> DEFINE f == [r.todo EXCEPT ![n] = @ - 1]
<1>1. r.todo \in [Names -> Nat] /\ r.todo[n] \in Nat
  BY DEF Control!CallRecords
<1>2. f \in [Names -> Nat] /\ \A m \in Names \ {n} : f[m] = r.todo[m]
  BY <1>1
<1>3. Control!Visited(r, n) = [r EXCEPT !.todo = f]
  BY DEF Control!Visited, Control!CallRecords
<1> HIDE DEF f
<1> QED
  BY <1>2, <1>3 DEF Control!CallRecords

\* The steps of a price update that changes the regime.
LEMMA RegimeKeeps ==
    ASSUME Control!IInv,
           \/ \E new \in Regimes : Control!RegimeChanges(new)
           \/ \E n \in Names : Control!CheckSuitable(n)
           \/ Control!ActOnCheck \/ Control!RegimeEnds
    PROVE  Control!IInv'
<1> DEFINE r == control[Feed]
<1>0. /\ Feed \in Controllers /\ r \in Control!CallRecords /\ Control!TypeOK
      /\ Control!RunningSuits /\ Control!SweepLeaves /\ active \in [Names -> Nat]
  BY ControlsSaid DEF Control!IInv, Control!TypeOK
<1>1. ASSUME NEW new \in Regimes, Control!RegimeChanges(new)
      PROVE  Control!IInv'
  <2> DEFINE c == [Control!Idle EXCEPT !.does = "regime",
                     !.todo = [n \in Names |-> IF n \in Control!Registered THEN 1 ELSE 0]]
  <2>1. /\ c \in Control!CallRecords /\ c.does = "regime" /\ c.at = "walk"
        /\ \A n \in Control!Registered : n \in Control!InList(c.todo)
    <3> DEFINE f == [n \in Names |-> IF n \in Control!Registered THEN 1 ELSE 0]
    <3>1. f \in [Names -> Nat] /\ \A n \in Control!Registered : n \in Control!InList(f)
      BY DEF Control!InList, Control!Registered
    <3> HIDE DEF f
    <3>2. c = [Control!Idle EXCEPT !.does = "regime", !.todo = f]
      BY DEF f
    <3> QED
      BY <3>1, <3>2, ControlCalls DEF Control!CallRecords
  <2>2. /\ control' = [control EXCEPT ![Feed] = c] /\ r = Control!Idle /\ regime' = new
        /\ UNCHANGED <<strategies, active, started, torn, unstopped>>
    BY <1>1 DEF Control!RegimeChanges
  <2> HIDE DEF c
  <2>3. control'[Feed] = c /\ ~Control!Mid(Feed) /\ ~Control!Stopping(Feed)
    BY <1>0, <2>1, <2>2, OneCallChanges, ControlCalls
    DEF Control!Mid, Control!Activating, Control!Stopping
  <2>4. started \subseteq Control!InList(c.todo)
    BY <1>0, <2>1 DEF Control!TypeOK
  <2>5. new # Control!Unknown
    BY ControlsSaid
  <2>6. Control!RunningSuits' /\ Control!SweepLeaves'
    BY <2>1, <2>2, <2>3, <2>4, <2>5 DEF Control!RunningSuits, Control!SweepLeaves, Control!InList
  <2> QED
    BY <1>0, <2>1, <2>2, <2>3, <2>6, WalkKeeps
<1>2. ASSUME NEW n \in Names, Control!CheckSuitable(n), ~Control!BreaksOff(Feed)
      PROVE  Control!IInv'
  <2> DEFINE v == Control!Visited(r, n)
             c == IF (n \in started) <=> (n \in Suitable[regime]) THEN v
                  ELSE [v EXCEPT !.name = n, !.at = IF n \in started THEN "off" ELSE "on"]
  <2>1. /\ r.does = "regime" /\ r.at = "walk" /\ r.todo[n] > 0
        /\ control' = [control EXCEPT ![Feed] = c]
        /\ UNCHANGED <<strategies, active, started, regime, torn, unswept, unstopped>>
    BY <1>2 DEF Control!CheckSuitable, Control!shown
  <2>2. /\ v \in Control!CallRecords /\ v.does = "regime" /\ v.at = "walk"
        /\ \A m \in Names \ {n} : v.todo[m] = r.todo[m]
    BY <1>0, <2>1, OneLessToVisit
  <2>3. /\ c \in Control!CallRecords /\ c.does = "regime" /\ c.todo = v.todo
        /\ c.at \in {"walk", "on", "off"}
        /\ c.at # "walk" => c.name = n
        /\ c.at = "off" <=> n \in started \ Suitable[regime]
        /\ c.at = "on" => n \in Suitable[regime]
    BY <2>2 DEF Control!CallRecords
  <2> HIDE DEF c, v
  <2>4. control'[Feed] = c /\ ~Control!Mid(Feed) /\ ~Control!Stopping(Feed)
    BY <1>0, <2>1, <2>3, OneCallChanges DEF Control!Mid, Control!Activating, Control!Stopping
  <2>5. Control!SweepLeaves'
    <3>1. /\ started \subseteq Control!Suited \cup unswept \cup Control!InList(r.todo)
          /\ regime # Control!Unknown /\ Control!Suited = Suitable[regime]
      BY <1>0, <2>1 DEF Control!SweepLeaves, Control!Suited
    <3>2. Control!InList(r.todo) \subseteq Control!InList(v.todo) \cup {n}
      BY <2>2 DEF Control!InList
    <3>3. started \subseteq Control!Suited \cup unswept \cup Control!InList(v.todo)
                            \cup (IF c.at = "off" THEN {c.name} ELSE {})
      BY <2>3, <3>1, <3>2
    <3> QED
      BY <2>1, <2>3, <2>4, <3>1, <3>3 DEF Control!SweepLeaves, Control!Suited, Control!InList
  <2>6. Control!RunningSuits'
    BY <2>3, <2>4 DEF Control!RunningSuits
  <2> QED
    BY <1>0, <2>1, <2>3, <2>4, <2>5, <2>6, WalkKeeps
<1>3. ASSUME Control!ActOnCheck
      PROVE  Control!IInv'
  <2>1. r.name \in Names /\ r.does = "regime" /\ ~Control!Mid(Feed)
    BY <1>0, <1>3 DEF Control!ActOnCheck, Control!TypeOK, Control!CallRecords, Control!Mid,
       Control!Activating
  <2>2. r.at = "on" => r.name \in Control!Suited
    BY <1>0, <2>1 DEF Control!SweepLeaves
  <2> QED
    BY <1>0, <1>3, <2>1, <2>2, SwitchOnKeeps, SwitchOffKeeps DEF Control!ActOnCheck
<1>4. ASSUME Control!RegimeEnds, ~Control!BreaksOff(Feed)
      PROVE  Control!IInv'
  <2>1. /\ r.does = "regime" /\ r.at = "walk" /\ Control!InList(r.todo) = {}
        /\ control' = [control EXCEPT ![Feed] = Control!Idle]
        /\ UNCHANGED <<strategies, active, started, regime, torn, unswept, unstopped>>
    BY <1>4 DEF Control!RegimeEnds, Control!shown
  <2>2. control'[Feed] = Control!Idle /\ ~Control!Mid(Feed) /\ ~Control!Stopping(Feed)
    BY <1>0, <2>1, OneCallChanges, ControlCalls
    DEF Control!Mid, Control!Activating, Control!Stopping
  <2>3. Control!RunningSuits' /\ Control!SweepLeaves'
    BY <1>0, <2>1, <2>2, ControlCalls DEF Control!RunningSuits, Control!SweepLeaves, Control!Suited
  <2> QED
    BY <1>0, <2>1, <2>2, <2>3, ControlCalls, WalkKeeps
<1> QED
  BY <1>0, <1>1, <1>2, <1>3, <1>4, BreaksOffKeeps

\* The steps of a stop, or of the kill switch.
LEMMA StopKeeps ==
    ASSUME Control!IInv, NEW t \in Controllers,
           Control!TriggerKillSwitch(t) \/ Control!StopEnds(t) \/ \E n \in Names : Control!StopNext(t, n)
    PROVE  Control!IInv'
<1>0. /\ control[t] \in Control!CallRecords /\ Control!TypeOK /\ active \in [Names -> Nat]
  BY DEF Control!IInv, Control!TypeOK
<1>1. ASSUME Control!TriggerKillSwitch(t)
      PROVE  Control!IInv'
  <2> DEFINE c == [Control!Idle EXCEPT !.does = "stop", !.todo = active]
  <2>1. c \in Control!CallRecords /\ c.does = "stop" /\ c.at = "walk" /\ c.todo = active
    BY <1>0, ControlCalls DEF Control!CallRecords
  <2>2. /\ control' = [control EXCEPT ![t] = c] /\ control[t] = Control!Idle
        /\ UNCHANGED <<strategies, active, started, regime, torn, unswept>>
        /\ unstopped' = {n \in started : \E u \in Controllers :
                           Control!Activating(u) /\ control[u].name = n}
    BY <1>1 DEF Control!TriggerKillSwitch, Control!CopyOf
  <2> HIDE DEF c
  <2>3. /\ control' \in [Controllers -> Control!CallRecords] /\ control'[t] = c
        /\ \A u \in Controllers \ {t} : control'[u] = control[u]
        /\ ~Control!Mid(t)
    BY <1>0, <2>1, <2>2, OneCallChanges, ControlCalls DEF Control!Mid, Control!Activating
  <2>4. Control!TypeOK'
    <3>1. ASSUME NEW u \in Controllers
          PROVE  /\ control'[u].does = "regime" => u = Feed
                 /\ control'[u].at \in {"on", "off"} => control'[u].does = "regime"
                 /\ control'[u].does = "nothing" => control'[u].at = "walk"
      <4>1. CASE u = t
        BY <2>1, <2>3, <4>1
      <4>2. CASE u # t
        BY <1>0, <2>3, <4>2 DEF Control!TypeOK
      <4> QED
        BY <4>1, <4>2
    <3> QED
      BY <1>0, <2>2, <2>3, <3>1 DEF Control!TypeOK, Control!Registered
  <2>5. Control!ListedOnce' /\ Control!CallsKnow'
    BY <2>1, <2>2, <2>3, CallsStayApart DEF Control!IInv
  <2>6. Control!StopLeaves'
    <3>1. ASSUME NEW n \in started, n \notin torn, n \notin unstopped'
          PROVE  n \in Names /\ active[n] > 0
      BY <1>0, <2>2, <3>1 DEF Control!IInv, Control!TypeOK, Control!Registered, Control!ListedOnce
    <3>2. Control!Stopping(t)' /\ control'[t].todo = active
      BY <2>1, <2>3 DEF Control!Stopping
    <3> QED
      BY <2>2, <3>1, <3>2 DEF Control!StopLeaves
  <2>7. Control!RunningSuits' /\ Control!SweepLeaves'
    <3>1. /\ control'[Feed].does = "regime" <=> control[Feed].does = "regime"
          /\ control'[Feed].does = "regime" => control'[Feed] = control[Feed]
      BY <2>1, <2>2, <2>3, ControlCalls, ControlsSaid
    <3> QED
      BY <2>2, <3>1 DEF Control!IInv, Control!RunningSuits, Control!SweepLeaves, Control!Suited
  <2> QED
    BY <2>4, <2>5, <2>6, <2>7 DEF Control!IInv
<1>2. ASSUME Control!StopEnds(t)
      PROVE  Control!IInv'
  <2>1. /\ control[t].does = "stop" /\ control[t].at = "walk" /\ Control!InList(control[t].todo) = {}
        /\ control' = [control EXCEPT ![t] = Control!Idle]
        /\ UNCHANGED <<strategies, active, started, regime, torn, unswept, unstopped>>
    BY <1>2 DEF Control!StopEnds, Control!shown
  <2>2. /\ control'[t] = Control!Idle /\ ~Control!Mid(t)
        /\ \A u \in Controllers \ {t} : control'[u] = control[u]
        /\ \A n \in Names : ~(control[t].todo[n] > 0)
    BY <1>0, <2>1, OneCallChanges, ControlCalls
    DEF Control!Mid, Control!Activating, Control!InList
  <2>3. Control!RunningSuits' /\ Control!SweepLeaves'
    <3>1. /\ control'[Feed].does = "regime" <=> control[Feed].does = "regime"
          /\ control'[Feed].does = "regime" => control'[Feed] = control[Feed]
      BY <2>1, <2>2, ControlCalls, ControlsSaid
    <3> QED
      BY <2>1, <3>1 DEF Control!IInv, Control!RunningSuits, Control!SweepLeaves, Control!Suited
  <2>4. started \subseteq Names
    BY <1>0 DEF Control!TypeOK, Control!Registered
  <2> QED
    BY <2>1, <2>2, <2>3, <2>4, ControlCalls, WalkKeeps
<1>3. ASSUME NEW n \in Names, Control!StopNext(t, n)
      PROVE  Control!IInv'
  <2> DEFINE v == Control!Visited(control[t], n)
  <2>1. /\ control[t].does = "stop" /\ control[t].at = "walk" /\ control[t].todo[n] > 0
        /\ Control!SwitchOff(t, v, n)
    BY <1>3 DEF Control!StopNext
  <2>2. /\ v \in Control!CallRecords /\ v.does = "stop"
        /\ \A m \in Names \ {n} : v.todo[m] = control[t].todo[m]
    BY <1>0, <2>1, OneLessToVisit
  <2>3. ~Control!Mid(t)
    BY <2>1 DEF Control!Mid, Control!Activating
  <2> HIDE DEF v
  <2> QED
    BY <2>1, <2>2, <2>3, SwitchOffKeeps
<1> QED
  BY <1>1, <1>2, <1>3

\* Registrations, calls by hand, changes of regime, stops and interruptions, step by
\* step in any order, keep the list and the flags together.
LEMMA ControlStepKeeps ==
    ASSUME Control!IInv, [Control!Next]_controlVars
    PROVE  Control!IInv'
<1>0. Control!TypeOK /\ active \in [Names -> Nat] /\ Feed \in Controllers
  BY ControlsSaid DEF Control!IInv, Control!TypeOK
<1>1. CASE UNCHANGED controlVars
  BY <1>1 DEF controlVars, Control!IInv, Control!TypeOK, Control!Registered, Control!ListedOnce,
     Control!RunningSuits, Control!Suited, Control!CallsKnow, Control!StopLeaves,
     Control!SweepLeaves, Control!Mid, Control!Activating, Control!MetAt, Control!Stopping
<1>2. ASSUME NEW k \in Builds, Control!RegisterStrategy(k[1], k[2])
      PROVE  Control!IInv'
  <2> USE DEF Control!IInv
  <2>1. k[1] \in Names /\ k[2] \in {"enhanced", "adapted"}
    BY ControlsSaid
  <2>2. /\ strategies' = [strategies EXCEPT ![k[1]] = k[2]] /\ started' = started \ {k[1]}
        /\ unswept' = unswept \ {k[1]} /\ unstopped' = unstopped \ {k[1]}
        /\ UNCHANGED <<active, regime, torn>>
    BY <1>2 DEF Control!RegisterStrategy, Control!StopsRunning
  <2>3. ASSUME NEW u \in Controllers
        PROVE  /\ control'[u] \in Control!CallRecords
               /\ control'[u].does = control[u].does /\ control'[u].at = control[u].at
               /\ control'[u].name = control[u].name /\ control'[u].todo = control[u].todo
    BY <1>0, <1>2 DEF Control!RegisterStrategy, Control!TypeOK, Control!CallRecords
  <2>4. control' \in [Controllers -> Control!CallRecords]
    <3>1. control' = [u \in Controllers |-> control'[u]]
      BY <1>2 DEF Control!RegisterStrategy
    <3> QED
      BY <2>3, <3>1
  <2>5. Control!TypeOK'
    BY <2>1, <2>2, <2>3, <2>4 DEF Control!TypeOK, Control!Registered
  <2>6. \A u \in Controllers : /\ Control!Mid(u)' <=> Control!Mid(u)
                               /\ Control!Activating(u)' <=> Control!Activating(u)
                               /\ Control!Stopping(u)' <=> Control!Stopping(u)
    BY <2>3 DEF Control!Mid, Control!Activating, Control!Stopping
  <2>7. Control!ListedOnce' /\ Control!CallsKnow'
    BY <2>2, <2>3, <2>6 DEF Control!ListedOnce, Control!CallsKnow, Control!MetAt
  <2>8. Control!StopLeaves'
    BY <2>2, <2>3, <2>6 DEF Control!StopLeaves
  <2>9. Control!RunningSuits' /\ Control!SweepLeaves'
    BY <1>0, <2>2, <2>3 DEF Control!RunningSuits, Control!SweepLeaves, Control!Suited
  <2> QED
    BY <2>5, <2>7, <2>8, <2>9
<1>3. ASSUME NEW t \in Controllers, NEW n \in Names,
             Control!ActivateStrategy(t, n) \/ Control!DeactivateStrategy(t, n)
      PROVE  Control!IInv'
  <2>1. control[t] = Control!Idle /\ ~Control!Mid(t)
    BY <1>3, ControlCalls
    DEF Control!ActivateStrategy, Control!DeactivateStrategy, Control!Mid, Control!Activating
  <2> QED
    BY <1>3, <2>1, ControlCalls, SwitchOnKeeps, SwitchOffKeeps
    DEF Control!ActivateStrategy, Control!DeactivateStrategy
<1>4. ASSUME NEW t \in Controllers, Control!ListOrNot(t) \/ Control!UnlistOrNot(t)
      PROVE  Control!IInv'
  <2> DEFINE n == control[t].name
  <2>1. /\ Control!Mid(t) /\ n \in Names /\ active[n] \in Nat
        /\ UNCHANGED <<strategies, active, started, regime, torn, unswept, unstopped>>
    BY <1>0, <1>4 DEF Control!ListOrNot, Control!UnlistOrNot, Control!Mid, Control!Activating,
       Control!TypeOK, Control!CallRecords, Control!shown
  <2>2. n \notin torn => active[n] <= 1 /\ (n \in started => Control!Activating(t))
    BY <2>1 DEF Control!IInv, Control!ListedOnce, Control!CallsKnow
  <2>3. CASE Control!ListOrNot(t) /\ active[n] > 0
    BY <1>0, <2>1, <2>2, <2>3, ProceedKeeps DEF Control!ListOrNot
  <2>4. CASE Control!ListOrNot(t) /\ active[n] = 0
    BY <2>1, <2>4, ReadsTheList DEF Control!ListOrNot, Control!Activating
  <2>5. CASE Control!UnlistOrNot(t) /\ active[n] = 0
    <3>1. ~Control!Activating(t) /\ Control!Proceed(t)
      BY <2>5 DEF Control!UnlistOrNot, Control!Activating
    <3> QED
      BY <1>0, <2>1, <2>2, <2>5, <3>1, ProceedKeeps
  <2>6. CASE Control!UnlistOrNot(t) /\ active[n] > 0
    BY <2>1, <2>6, ReadsTheList DEF Control!UnlistOrNot, Control!Activating
  <2> QED
    BY <1>4, <2>1, <2>3, <2>4, <2>5, <2>6
<1>5. ASSUME Control!Interrupted
      PROVE  Control!IInv'
  BY <1>0, <1>5, BreaksOffKeeps DEF Control!Interrupted
<1> QED
  BY <1>1, <1>2, <1>3, <1>4, <1>5, ListChanges, RegimeKeeps, StopKeeps
  DEF Control!Next, Control!ThreadNext

\* Every strategy that runs is in the list that the kill switch and the stop go
\* through, once, unless calls met at it or one was broken off there; what runs after
\* a stop was activated since or left by one that broke off, and what runs after the
\* walk of a change of regime suits it, was started by hand or left by a broken walk.
THEOREM ControlAlwaysReachesAll == ServicesSpec => []ControlReachesAll
<1>1. ServicesInit => Control!IInv
  <2> SUFFICES ASSUME Control!Init
               PROVE  Control!IInv
    BY DEF ServicesInit
  <2>1. /\ strategies = [n \in Names |-> "none"] /\ active = [n \in Names |-> 0] /\ started = {}
        /\ control = [t \in Controllers |-> Control!Idle] /\ Feed \in Controllers
    BY ControlsSaid DEF Control!Init
  <2>2. Control!TypeOK
    BY <2>1, ControlCalls DEF Control!TypeOK
  <2>3. \A t \in Controllers : ~Control!Mid(t) /\ control[t].does = "nothing"
    BY <2>1, ControlCalls DEF Control!Mid, Control!Activating
  <2> QED
    BY <2>1, <2>2, <2>3 DEF Control!IInv, Control!ListedOnce, Control!RunningSuits, Control!CallsKnow,
       Control!StopLeaves, Control!SweepLeaves
<1>2. Control!IInv /\ [ServicesNext]_serviceVars => Control!IInv'
  <2> SUFFICES ASSUME Control!IInv, [ServicesNext]_serviceVars
               PROVE  Control!IInv'
    OBVIOUS
  <2>1. [Control!Next]_controlVars
    BY DEF ServicesNext, Only, serviceVars
  <2> QED
    BY <2>1, ControlStepKeeps
<1>3. Control!IInv => ControlReachesAll
  BY DEF Control!IInv, ControlReachesAll, Control!ControlReachesAll, Control!StopsReachAll,
     Control!StopLeaves
<1> QED
  BY <1>1, <1>2, <1>3, PTL DEF ServicesSpec
=============================================================================
