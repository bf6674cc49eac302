-------------------------- MODULE AdvancedOrdersProofs --------------------------
EXTENDS AdvancedOrders, FiniteSetTheorems, TLAPS

-----------------------------------------------------------------------------
(* What the fill of an order does to the table.                            *)

(* An order belongs to one group, and to which kind its part tells.        *)
LEMMA OrdersHaveOwners ==
    ASSUME NEW o \in Ids
    PROVE  /\ o = <<Owner(o), Part(o)>>
           /\ \/ Owner(o) \in Ocos /\ Part(o) \in {"limit", "stop"}
              \/ Owner(o) \in Brackets /\ Part(o) \in {"entry", "sl", "tp"}
              \/ Owner(o) \in Plains /\ Part(o) = "order"
BY DEF Ids, Owner, Part

(* The other leg of a pair is the other order of the same pair, and its    *)
(* other leg is the one begun with.                                        *)
LEMMA LegsAreTwo ==
    ASSUME NEW o \in Ids, Owner(o) \in Ocos
    PROVE  /\ OtherLeg(o) \in Ids /\ OtherLeg(o) # o
           /\ Owner(OtherLeg(o)) = Owner(o)
           /\ OtherLeg(OtherLeg(o)) = o
<1>1. o = <<Owner(o), Part(o)>> /\ Part(o) \in {"limit", "stop"}
  BY OrdersHaveOwners, GroupsAssumption
<1>2. OtherLeg(o) = IF Part(o) = "limit" THEN <<Owner(o), "stop">> ELSE <<Owner(o), "limit">>
  BY DEF OtherLeg
<1> QED BY <1>1, <1>2 DEF Ids, OtherLeg, Owner, Part

(* A fill gives a status to the filled order, to those it cancels and to   *)
(* those it opens, all of one group, and leaves every other order alone.   *)
LEMMA FillStatuses ==
    ASSUME TypeOK, NEW o \in Ids, NEW quantity \in 1..Quantity
    PROVE  /\ StatusAfter(o, quantity) \in [Ids -> OrderStatus]
           /\ StatusAfter(o, quantity)[o] \in {"filled", "partially_filled"}
           /\ \A x \in Ids : Owner(x) # Owner(o) => StatusAfter(o, quantity)[x] = status[x]
           /\ Owner(o) \in Ocos => StatusAfter(o, quantity)[OtherLeg(o)] = "cancelled"
           /\ Owner(o) \in Brackets => \A x \in Ids :
                StatusAfter(o, quantity)[x] = "open" /\ status[x] # "open" => Part(o) = "entry"
<1> DEFINE after == StatusAfter(o, quantity)
<1>1. CancelsByFill(o) \subseteq {x : x \in {<<Owner(o), "limit">>, <<Owner(o), "stop">>,
                                           <<Owner(o), "sl">>, <<Owner(o), "tp">>}}
  BY OrdersHaveOwners, GroupsAssumption DEF CancelsByFill, OtherLeg
<1>2. OpensByFill(o) \subseteq {<<Owner(o), "sl">>, <<Owner(o), "tp">>}
  BY DEF OpensByFill
<1>3. /\ after = [x \in Ids |-> after[x]]
      /\ after[o] = IF Completes(o, quantity) THEN "filled" ELSE "partially_filled"
      /\ \A x \in Ids \ {o} :
            after[x] = IF x \in CancelsByFill(o) THEN "cancelled"
                       ELSE IF x \in OpensByFill(o) THEN "open" ELSE status[x]
  <2>1. after = [x \in Ids |-> after[x]]
    BY DEF StatusAfter
  <2>2. after[o] = IF Completes(o, quantity) THEN "filled" ELSE "partially_filled"
    BY DEF StatusAfter
  <2>3. ASSUME NEW x \in Ids, x # o
        PROVE  after[x] = IF x \in CancelsByFill(o) THEN "cancelled"
                          ELSE IF x \in OpensByFill(o) THEN "open" ELSE status[x]
    BY <2>3 DEF StatusAfter
  <2> QED BY <2>1, <2>2, <2>3
<1>4. after \in [Ids -> OrderStatus]
  <2>1. \A x \in Ids : after[x] \in OrderStatus
    BY <1>3 DEF TypeOK, OrderStatus
  <2> QED BY <1>3, <2>1
<1>5. ASSUME NEW x \in Ids, Owner(x) # Owner(o) PROVE after[x] = status[x]
  <2>1. x # o /\ x \notin CancelsByFill(o) /\ x \notin OpensByFill(o)
    BY <1>1, <1>2, <1>5 DEF Owner
  <2> QED BY <1>3, <2>1
<1>6. Owner(o) \in Ocos => after[OtherLeg(o)] = "cancelled"
  <2>1. Owner(o) \in Ocos => OtherLeg(o) \in Ids \ {o} /\ OtherLeg(o) \in CancelsByFill(o)
    BY LegsAreTwo DEF CancelsByFill
  <2> QED BY <1>3, <2>1
<1>7. ASSUME NEW x \in Ids, after[x] = "open", status[x] # "open" PROVE Part(o) = "entry"
  <2>1. x \in OpensByFill(o)
    BY <1>3, <1>7
  <2> QED BY <2>1 DEF OpensByFill
<1> QED BY <1>3, <1>4, <1>5, <1>6, <1>7

(* What a fill records of its pair and of its bracket, and of no other.    *)
LEMMA FillRecords ==
    ASSUME TypeOK, NEW o \in Ids
    PROVE  /\ OcoAfter(o) \in [Ocos -> [status : {"pending", "filled"},
                              triggered : Ids \cup {NoOrder}, cancelled : Ids \cup {NoOrder}]]
           /\ \A g \in Ocos : OcoAfter(o)[g] =
                IF g = Owner(o) THEN [status |-> "filled", triggered |-> o, cancelled |-> OtherLeg(o)]
                ELSE oco[g]
           /\ BracketAfter(o) \in [Brackets -> [status : {"pending", "filled"},
                                               positionFilled : BOOLEAN]]
           /\ \A b \in Brackets : bracket[b].positionFilled => BracketAfter(o)[b].positionFilled
           /\ Part(o) = "entry" => BracketAfter(o)[Owner(o)].positionFilled
<1>1. Owner(o) \in Ocos => OtherLeg(o) \in Ids
  BY LegsAreTwo
<1>2. Part(o) = "entry" => Owner(o) \in Brackets
  BY OrdersHaveOwners
<1>3. /\ OcoAfter(o) \in [Ocos -> [status : {"pending", "filled"},
                         triggered : Ids \cup {NoOrder}, cancelled : Ids \cup {NoOrder}]]
      /\ \A g \in Ocos : OcoAfter(o)[g] =
           IF g = Owner(o) THEN [status |-> "filled", triggered |-> o, cancelled |-> OtherLeg(o)]
           ELSE oco[g]
  BY <1>1 DEF TypeOK, OcoAfter
<1>4. BracketAfter(o) \in [Brackets -> [status : {"pending", "filled"},
                                        positionFilled : BOOLEAN]]
  BY DEF TypeOK, BracketAfter
<1>5. \A b \in Brackets : bracket[b].positionFilled => BracketAfter(o)[b].positionFilled
  BY DEF TypeOK, BracketAfter
<1>6. Part(o) = "entry" => BracketAfter(o)[Owner(o)].positionFilled
  BY <1>2 DEF TypeOK, BracketAfter
<1> QED BY <1>3, <1>4, <1>5, <1>6

-----------------------------------------------------------------------------
(* The pairs and the brackets.                                             *)

(* A fill keeps the types, and the legs of every group as they must be.    *)
LEMMA FillKeepsLegs ==
    ASSUME LegsInv, NEW o \in Ids, NEW quantity \in 1..Quantity, HandleOrderFill(o, quantity)
    PROVE  LegsInv'
<1> USE QuantityAssumption, MaxFilledAssumption
<1> DEFINE g == Owner(o)
<1>0. TypeOK /\ LegsAreSafe /\ TriggeredIsOwn
  BY DEF LegsInv
<1>1. /\ status' = StatusAfter(o, quantity) /\ oco' = OcoAfter(o) /\ bracket' = BracketAfter(o)
      /\ filled' = [filled EXCEPT ![o] = @ + quantity] /\ known' = known
      /\ filled[o] + quantity <= MaxFilled
  BY DEF HandleOrderFill
<1>2. filled' \in [Ids -> 0..MaxFilled]
  <2>1. filled \in [Ids -> 0..MaxFilled]
    BY <1>0 DEF TypeOK
  <2> QED BY <1>1, <2>1
<1>3. stats' \in [filled : Nat, cancelled : 0..MaxCancels, completed : Nat]
  <2>1. stats \in [filled : Nat, cancelled : 0..MaxCancels, completed : Nat]
    BY <1>0 DEF TypeOK
  <2>2. FilledCount(o, quantity) \in Nat
    BY <2>1 DEF FilledCount
  <2>3. stats' = [filled |-> FilledCount(o, quantity), cancelled |-> stats.cancelled,
                  completed |-> IF Part(o) \in {"sl", "tp"} THEN stats.completed + 1
                                ELSE stats.completed]
    BY <2>1 DEF HandleOrderFill
  <2> QED BY <2>1, <2>2, <2>3
<1>4. TypeOK'
  <2>1. repeated' \in Nat
    BY <1>0 DEF HandleOrderFill, TypeOK
  <2> QED BY <1>0, <1>1, <1>2, <1>3, <2>1, FillStatuses, FillRecords DEF TypeOK
<1>5. ASSUME NEW h \in Ocos, oco'[h].status = "filled"
      PROVE  /\ oco'[h].triggered \in {h} \X {"limit", "stop"}
             /\ oco'[h].cancelled = OtherLeg(oco'[h].triggered)
             /\ status'[oco'[h].triggered] \in {"filled", "partially_filled"}
             /\ status'[oco'[h].cancelled] = "cancelled"
  <2>1. CASE h = g
    <3>1. oco'[h] = [status |-> "filled", triggered |-> o, cancelled |-> OtherLeg(o)]
      BY <1>0, <1>1, <2>1, FillRecords
    <3>2. o \in {h} \X {"limit", "stop"}
      BY <2>1, OrdersHaveOwners, GroupsAssumption
    <3> QED BY <1>0, <1>1, <2>1, <3>1, <3>2, FillStatuses
  <2>2. CASE h # g
    <3>1. oco'[h] = oco[h]
      BY <1>0, <1>1, <2>2, FillRecords
    <3>2. /\ oco[h].triggered \in {h} \X {"limit", "stop"}
          /\ oco[h].cancelled = OtherLeg(oco[h].triggered)
          /\ status[oco[h].triggered] \in {"filled", "partially_filled"}
          /\ status[oco[h].cancelled] = "cancelled"
      BY <1>0, <1>5, <3>1 DEF LegsAreSafe, TriggeredIsOwn
    <3>3. oco[h].triggered \in Ids /\ Owner(oco[h].triggered) = h
      BY <3>2 DEF Ids, Owner
    <3>4. oco[h].cancelled \in Ids /\ Owner(oco[h].cancelled) = h
      BY <3>2, <3>3, LegsAreTwo
    <3>5. /\ status'[oco[h].triggered] = status[oco[h].triggered]
          /\ status'[oco[h].cancelled] = status[oco[h].cancelled]
      BY <1>0, <1>1, <2>2, <3>3, <3>4, FillStatuses
    <3> QED BY <3>1, <3>2, <3>5
  <2> QED BY <2>1, <2>2
<1>6. ASSUME NEW h \in Ocos, oco'[h].status # "filled", NEW x \in {h} \X {"limit", "stop"}
      PROVE  filled'[x] = 0
  <2>0. oco'[h] = IF h = g THEN [status |-> "filled", triggered |-> o, cancelled |-> OtherLeg(o)]
                  ELSE oco[h]
    BY <1>0, <1>1, FillRecords
  <2>1. h # g /\ oco'[h] = oco[h]
    BY <1>6, <2>0
  <2>2. filled[x] = 0
    BY <1>0, <1>6, <2>1 DEF LegsAreSafe
  <2>3. x # o /\ x \in Ids
    BY <2>1 DEF Owner, Ids
  <2> QED BY <1>0, <1>1, <2>2, <2>3 DEF TypeOK
<1>7. ASSUME NEW b \in Brackets, NEW part \in {"sl", "tp"}, status'[<<b, part>>] = "open"
      PROVE  bracket'[b].positionFilled /\ filled'[<<b, "entry">>] > 0
  <2>1. <<b, part>> \in Ids /\ Owner(<<b, part>>) = b /\ <<b, "entry">> \in Ids
    BY DEF Ids, Owner
  <2>2. filled'[<<b, "entry">>] >= filled[<<b, "entry">>]
    <3>1. filled \in [Ids -> Nat]
      BY <1>0 DEF TypeOK
    <3> QED BY <1>1, <2>1, <3>1
  <2>3. CASE status[<<b, part>>] = "open"
    <3>1. bracket[b].positionFilled /\ filled[<<b, "entry">>] > 0
      BY <1>0, <2>3 DEF LegsAreSafe
    <3>2. filled[<<b, "entry">>] \in Nat /\ filled'[<<b, "entry">>] \in Nat
      BY <1>0, <1>2, <2>1 DEF TypeOK
    <3>3. bracket'[b].positionFilled
      BY <1>0, <1>1, <3>1, FillRecords
    <3> QED BY <2>2, <3>1, <3>2, <3>3
  <2>4. CASE status[<<b, part>>] # "open"
    <3>1. g = b
      BY <1>0, <1>1, <1>7, <2>1, <2>4, FillStatuses
    <3>2. Part(o) = "entry"
      BY <1>0, <1>1, <1>7, <2>1, <2>4, <3>1, FillStatuses
    <3>3. o = <<b, "entry">>
      BY <3>1, <3>2, OrdersHaveOwners
    <3>4. filled'[o] = filled[o] + quantity /\ filled[o] \in Nat
      BY <1>0, <1>1 DEF TypeOK
    <3>5. bracket'[b].positionFilled
      BY <1>0, <1>1, <3>1, <3>2, FillRecords
    <3> QED BY <3>3, <3>4, <3>5
  <2> QED BY <2>3, <2>4
<1>8. LegsAreSafe'
  <2>1. \A h \in Ocos :
          IF oco'[h].status = "filled"
          THEN /\ oco'[h].cancelled = OtherLeg(oco'[h].triggered)
               /\ status'[oco'[h].triggered] \in {"filled", "partially_filled"}
               /\ status'[oco'[h].cancelled] = "cancelled"
          ELSE \A x \in {h} \X {"limit", "stop"} : filled'[x] = 0
    BY <1>5, <1>6
  <2>2. \A b \in Brackets : \A part \in {"sl", "tp"} :
          status'[<<b, part>>] = "open" => bracket'[b].positionFilled /\ filled'[<<b, "entry">>] > 0
    BY <1>7
  <2> QED BY <2>1, <2>2 DEF LegsAreSafe, OtherLeg, Owner, Part
<1>9. TriggeredIsOwn'
  BY <1>5 DEF TriggeredIsOwn
<1> QED BY <1>4, <1>8, <1>9 DEF LegsInv

(* A request to cancel takes an order that is pending or open, neither of  *)
(* which the legs of a filled pair are.                                    *)
LEMMA CancelKeepsLegs ==
    ASSUME LegsInv, stats.cancelled < MaxCancels, NEW o \in Ids, CancelOrder(o)
    PROVE  LegsInv'
<1> USE QuantityAssumption, CancelsAssumption, MaxFilledAssumption
<1>0. TypeOK /\ LegsAreSafe /\ TriggeredIsOwn
  BY DEF LegsInv
<1>1. /\ status' = [status EXCEPT ![o] = "cancelled"] /\ status[o] \in {"pending", "open"}
      /\ stats' = [stats EXCEPT !.cancelled = @ + 1]
      /\ UNCHANGED <<known, filled, oco, bracket, repeated>>
  BY DEF CancelOrder, Cancellable
<1>2. TypeOK'
  BY <1>0, <1>1 DEF TypeOK, OrderStatus
<1>3. \A x \in Ids : status'[x] = IF x = o THEN "cancelled" ELSE status[x]
  BY <1>0, <1>1 DEF TypeOK
<1>4. ASSUME NEW h \in Ocos, oco[h].status = "filled"
      PROVE  /\ status'[oco[h].triggered] = status[oco[h].triggered]
             /\ status'[oco[h].cancelled] = "cancelled"
  <2>1. /\ oco[h].triggered \in {h} \X {"limit", "stop"}
        /\ oco[h].cancelled = OtherLeg(oco[h].triggered)
        /\ status[oco[h].triggered] \in {"filled", "partially_filled"}
        /\ status[oco[h].cancelled] = "cancelled"
    BY <1>0, <1>4 DEF LegsAreSafe, TriggeredIsOwn
  <2>2. oco[h].triggered \in Ids /\ Owner(oco[h].triggered) = h
    BY <2>1 DEF Ids, Owner
  <2>3. oco[h].cancelled \in Ids
    BY <2>1, <2>2, LegsAreTwo
  <2> QED BY <1>1, <1>3, <2>1, <2>2, <2>3
<1>5. ASSUME NEW b \in Brackets, NEW part \in {"sl", "tp"}, status'[<<b, part>>] = "open"
      PROVE  status[<<b, part>>] = "open"
  BY <1>3, <1>5 DEF Ids
<1>6. LegsAreSafe'
  <2>1. \A h \in Ocos :
          IF oco[h].status = "filled"
          THEN /\ oco[h].cancelled = OtherLeg(oco[h].triggered)
               /\ status'[oco[h].triggered] \in {"filled", "partially_filled"}
               /\ status'[oco[h].cancelled] = "cancelled"
          ELSE \A x \in {h} \X {"limit", "stop"} : filled[x] = 0
    BY <1>0, <1>4 DEF LegsAreSafe
  <2>2. \A b \in Brackets : \A part \in {"sl", "tp"} :
          status'[<<b, part>>] = "open" => bracket[b].positionFilled /\ filled[<<b, "entry">>] > 0
    BY <1>0, <1>5 DEF LegsAreSafe
  <2> QED BY <1>1, <2>1, <2>2 DEF LegsAreSafe, OtherLeg, Owner, Part
<1>7. TriggeredIsOwn'
  BY <1>0, <1>1 DEF TriggeredIsOwn
<1> QED BY <1>2, <1>6, <1>7 DEF LegsInv

(* Every behaviour of the manager keeps the legs of its pairs and brackets *)
(* as they must be.                                                        *)
LEMMA LegsInvHolds == ManagerSpec => []LegsInv
<1> USE QuantityAssumption, CancelsAssumption, MaxFilledAssumption
<1>1. ManagerInit => LegsInv
  BY DEF ManagerInit, Init, LegsInv, TypeOK, LegsAreSafe, TriggeredIsOwn, OrderStatus, Ids
<1>2. LegsInv /\ [ManagerNext]_managerVars => LegsInv'
  <2> SUFFICES ASSUME LegsInv, [ManagerNext]_managerVars
               PROVE  LegsInv'
    OBVIOUS
  <2>1. ASSUME NEW g \in Ocos \cup Brackets \cup Plains, Create(g) PROVE LegsInv'
    BY <2>1 DEF LegsInv, Create, TypeOK, LegsAreSafe, TriggeredIsOwn, OtherLeg, Owner, Part
  <2>2. ASSUME NEW o \in Ids, NEW quantity \in 1..Quantity, HandleOrderFill(o, quantity)
        PROVE  LegsInv'
    BY <2>2, FillKeepsLegs
  <2>3. ASSUME stats.cancelled < MaxCancels, NEW o \in Ids, CancelOrder(o) PROVE LegsInv'
    BY <2>3, CancelKeepsLegs
  <2>4. CASE UNCHANGED vars
    BY <2>4 DEF LegsInv, vars, TypeOK, LegsAreSafe, TriggeredIsOwn, OtherLeg, Owner, Part
  <2> QED BY <2>1, <2>2, <2>3, <2>4 DEF ManagerNext, Next, managerVars
<1> QED BY <1>1, <1>2, PTL DEF ManagerSpec

(* Whatever fills and cancellations come, in whatever order: a pair that   *)
(* took a fill has one leg that lives and one that is CANCELLED and knows  *)
(* which, and no exit works before its entry took a fill.                  *)
THEOREM LegsStaySafe == ManagerSpec => []LegsAreSafe
<1>1. LegsInv => LegsAreSafe
  BY DEF LegsInv
<1> QED BY <1>1, LegsInvHolds, PTL

-----------------------------------------------------------------------------
(* The counter of filled orders.                                           *)

(* Only a table of finitely many orders is ever counted.                   *)
LEMMA IdsAreFinite == IsFiniteSet(Ids)
<1>1. IsFiniteSet({"limit", "stop"}) /\ IsFiniteSet({"entry", "sl", "tp"}) /\ IsFiniteSet({"order"})
  <2>1. IsFiniteSet({"order"}) /\ IsFiniteSet({"limit"}) /\ IsFiniteSet({"sl"})
    BY FS_Singleton
  <2>2. IsFiniteSet({"limit"} \cup {"stop"}) /\ IsFiniteSet({"sl"} \cup {"tp"})
    BY <2>1, FS_AddElement
  <2>3. IsFiniteSet(({"sl"} \cup {"tp"}) \cup {"entry"})
    BY <2>2, FS_AddElement
  <2>4. /\ {"limit", "stop"} = {"limit"} \cup {"stop"}
        /\ {"entry", "sl", "tp"} = ({"sl"} \cup {"tp"}) \cup {"entry"}
    OBVIOUS
  <2> QED BY <2>1, <2>2, <2>3, <2>4
<1>2. /\ IsFiniteSet(Ocos \X {"limit", "stop"}) /\ IsFiniteSet(Brackets \X {"entry", "sl", "tp"})
      /\ IsFiniteSet(Plains \X {"order"})
  BY <1>1, GroupsAssumption, FS_Product
<1> QED BY <1>2, FS_Union DEF Ids

(* A report completes an order, repeats one that was complete before, or   *)
(* leaves it in part; the counter moves with the first two.                *)
LEMMA FillIsCounted ==
    ASSUME TypeOK, FilledAreCounted, NEW o \in Ids, NEW quantity \in 1..Quantity,
           HandleOrderFill(o, quantity)
    PROVE  FilledAreCounted'
<1> USE QuantityAssumption, MaxFilledAssumption
<1> DEFINE Full == {x \in Ids : filled[x] >= Quantity}
<1>1. IsFiniteSet(Full) /\ Cardinality(Full) \in Nat
  BY IdsAreFinite, FS_Subset, FS_CardinalityType
<1>2. /\ filled \in [Ids -> 0..MaxFilled]
      /\ filled' = [filled EXCEPT ![o] = @ + quantity]
      /\ repeated \in Nat /\ repeated' = IF filled[o] >= Quantity THEN repeated + 1 ELSE repeated
      /\ stats.filled \in Nat /\ stats' = [stats EXCEPT !.filled = FilledCount(o, quantity),
            !.completed = IF Part(o) \in {"sl", "tp"} THEN @ + 1 ELSE @]
  BY DEF TypeOK, HandleOrderFill
<1>3. stats'.filled = IF Completes(o, quantity) THEN stats.filled + 1 ELSE stats.filled
  BY <1>2 DEF TypeOK, FilledCount
<1>4. stats.filled = Cardinality(Full) + repeated
  BY DEF FilledAreCounted
<1>5. stats'.filled = Cardinality(Full') + repeated' => FilledAreCounted'
  BY DEF FilledAreCounted
<1> HIDE DEF Full
<1>6. CASE filled[o] >= Quantity
  <2>1. Full' = Full
    BY <1>2, <1>6 DEF Full
  <2>2. Completes(o, quantity) /\ repeated' = repeated + 1
    BY <1>2, <1>6 DEF Completes
  <2>3. stats'.filled = Cardinality(Full') + repeated'
    BY <1>1, <1>2, <1>3, <1>4, <2>1, <2>2
  <2> QED BY <1>5, <2>3
<1>7. CASE ~(filled[o] >= Quantity) /\ Completes(o, quantity)
  <2>1. Full' = Full \cup {o} /\ o \notin Full
    BY <1>2, <1>7 DEF Completes, Full
  <2>2. Cardinality(Full \cup {o}) = Cardinality(Full) + 1
    BY <1>1, <2>1, FS_AddElement
  <2>3. repeated' = repeated
    BY <1>2, <1>7
  <2>4. stats'.filled = Cardinality(Full') + repeated'
    BY <1>1, <1>2, <1>3, <1>4, <1>7, <2>1, <2>2, <2>3
  <2> QED BY <1>5, <2>4
<1>8. CASE ~(filled[o] >= Quantity) /\ ~Completes(o, quantity)
  <2>1. Full' = Full /\ repeated' = repeated
    BY <1>2, <1>8 DEF Completes, Full
  <2>2. stats'.filled = Cardinality(Full') + repeated'
    BY <1>3, <1>4, <1>8, <2>1
  <2> QED BY <1>5, <2>2
<1> QED BY <1>6, <1>7, <1>8

(* The manager's counter of filled orders is the number of orders whose    *)
(* fills reached their quantity, in however many parts and whatever was    *)
(* cancelled meanwhile, and of the reports that came after that.           *)
THEOREM FilledOrdersAreCounted == ManagerSpec => []FilledAreCounted
<1> USE QuantityAssumption, MaxFilledAssumption
<1>1. ManagerInit => FilledAreCounted
  <2> SUFFICES ASSUME ManagerInit PROVE FilledAreCounted
    OBVIOUS
  <2>1. {x \in Ids : filled[x] >= Quantity} = {} /\ repeated = 0 /\ stats.filled = 0
    BY DEF ManagerInit, Init
  <2> QED BY <2>1, FS_EmptySet DEF ManagerInit, Init, FilledAreCounted
<1>2. LegsInv /\ FilledAreCounted /\ [ManagerNext]_managerVars => FilledAreCounted'
  <2> SUFFICES ASSUME LegsInv, FilledAreCounted, [ManagerNext]_managerVars
               PROVE  FilledAreCounted'
    OBVIOUS
  <2>1. ASSUME NEW g \in Ocos \cup Brackets \cup Plains, Create(g) PROVE FilledAreCounted'
    BY <2>1 DEF Create, FilledAreCounted
  <2>2. ASSUME NEW o \in Ids, NEW quantity \in 1..Quantity, HandleOrderFill(o, quantity)
        PROVE  FilledAreCounted'
    BY <2>2, FillIsCounted DEF LegsInv
  <2>3. ASSUME NEW o \in Ids, CancelOrder(o) PROVE FilledAreCounted'
    <3>1. filled' = filled /\ repeated' = repeated /\ stats'.filled = stats.filled
      BY <2>3 DEF CancelOrder, LegsInv, TypeOK
    <3> QED BY <3>1 DEF FilledAreCounted
  <2>4. CASE UNCHANGED vars
    BY <2>4 DEF vars, FilledAreCounted
  <2> QED BY <2>1, <2>2, <2>3, <2>4 DEF ManagerNext, Next, managerVars
<1> QED BY <1>1, <1>2, LegsInvHolds, PTL DEF ManagerSpec

-----------------------------------------------------------------------------
(* The trailing stops.                                                     *)

(* Every price of the market is below the one a BUY stop begins with.      *)
LEMMA InfiniteIsAbove ==
    /\ Infinite \in Nat
    /\ \A price \in Prices : price \in Nat \ {0} /\ price < Infinite
<1> DEFINE top == CHOOSE p \in Prices : \A q \in Prices : q <= p
<1>1. top \in Prices /\ \A q \in Prices : q <= top
  BY PricesAssumption
<1>2. Infinite = 1 + top
  BY DEF Infinite
<1> HIDE DEF top
<1> QED BY <1>1, <1>2, PricesAssumption

(* A new stop has heard no price and stands at no price.                   *)
LEMMA CreateKeepsTrails ==
    ASSUME TrailInv, NEW s \in Stops, NEW side \in Sides, NEW trail \in Trails,
           NEW activation \in Prices \cup {Unset},
           CreateTrailingStop(s, side, trail, activation)
    PROVE  TrailInv'
<1> DEFINE new == NewStop(side, trail, activation)
<1>1. /\ s \notin stops /\ stops' = stops \cup {s}
      /\ stop' = [stop EXCEPT ![s] = new] /\ heard' = heard
  BY DEF CreateTrailingStop
<1>2. new = [side |-> side, trail |-> trail, activation |-> activation, stop |-> Unset,
             best |-> IF side = "SELL" THEN 0 ELSE Infinite]
  BY DEF NewStop
<1>3. TrailingTypeOK
  BY DEF TrailInv
<1>4. TrailingTypeOK'
  BY <1>1, <1>2, <1>3 DEF TrailingTypeOK, Unset
<1>5. heard[s] = {}
  BY <1>1 DEF TrailInv
<1>6. stop'[s] = new /\ \A t \in Stops \ {s} : stop'[t] = stop[t]
  BY <1>1, <1>3 DEF TrailingTypeOK
<1>7. BestOf(new, {})
  BY <1>2 DEF BestOf
<1>8. \A t \in Stops : /\ t \notin stops' => heard'[t] = {}
                      /\ BestOf(stop'[t], heard'[t])
  BY <1>1, <1>5, <1>6, <1>7 DEF TrailInv
<1> QED BY <1>4, <1>8 DEF TrailInv

(* A price that counts and is better becomes the best and drags the stop;  *)
(* the first that counts is always better, and any other leaves both.      *)
LEMMA UpdateKeepsBest ==
    ASSUME NEW r \in [side : Sides, trail : Nat, activation : Nat, best : Nat, stop : Int],
           NEW prices \in SUBSET Prices, BestOf(r, prices), NEW price \in Prices
    PROVE  BestOf(Trailed(r, price), prices \cup {price})
<1> USE DEF Unset
<1> DEFINE counts == Activated(r, price)
           moved == counts /\ Better(r, price)
           counted == {p \in prices : Activated(r, p)}
           new == Trailed(r, price)
           now == {p \in prices \cup {price} : Activated(new, p)}
<1>1. IF counted = {}
      THEN r.stop = 0 /\ r.best = (IF r.side = "SELL" THEN 0 ELSE Infinite)
      ELSE /\ r.best \in counted /\ r.stop = StopAt(r, r.best)
           /\ \A q \in counted : IF r.side = "SELL" THEN q <= r.best ELSE q >= r.best
  BY DEF BestOf
<1>0. new = IF moved THEN [r EXCEPT !.best = price, !.stop = StopAt(r, price)] ELSE r
  BY DEF Trailed
<1> HIDE DEF new
<1>2. new.side = r.side /\ new.trail = r.trail /\ new.activation = r.activation
  BY <1>0
<1>3. now = IF counts THEN counted \cup {price} ELSE counted
  BY <1>2 DEF Activated
<1>4. price \in Nat \ {0} /\ price < Infinite /\ \A q \in counted : q \in Nat
  BY InfiniteIsAbove
<1>5. IF now = {}
      THEN new.stop = 0 /\ new.best = (IF new.side = "SELL" THEN 0 ELSE Infinite)
      ELSE /\ new.best \in now /\ new.stop = StopAt(new, new.best)
           /\ \A q \in now : IF new.side = "SELL" THEN q <= new.best ELSE q >= new.best
  <2>1. CASE moved
    <3>1. new.best = price /\ new.stop = StopAt(new, price)
      BY <1>0, <1>2, <2>1 DEF StopAt
    <3>2. \A q \in counted : IF r.side = "SELL" THEN q <= price ELSE q >= price
      BY <1>1, <1>4, <2>1 DEF Better
    <3> QED BY <1>2, <1>3, <1>4, <2>1, <3>1, <3>2
  <2>2. CASE counts /\ ~Better(r, price)
    <3>1. counted # {}
      BY <1>1, <1>4, <2>2, InfiniteIsAbove DEF Better
    <3>2. IF r.side = "SELL" THEN price <= r.best ELSE price >= r.best
      BY <1>4, <2>2 DEF Better
    <3> QED BY <1>0, <1>1, <1>3, <2>2, <3>1, <3>2
  <2>3. CASE ~counts
    BY <1>0, <1>1, <1>3, <2>3
  <2> QED BY <2>1, <2>2, <2>3
<1>6. BestOf(new, prices \cup {price})
  BY <1>5 DEF BestOf
<1> QED BY <1>6 DEF new

(* update_trailing_stop keeps what every stop knows of its best price.     *)
LEMMA UpdateKeepsTrails ==
    ASSUME TrailInv, NEW s \in Stops, NEW price \in Prices,
           UpdateTrailingStop(s, price)
    PROVE  TrailInv'
<1> DEFINE r == stop[s]
           new == Trailed(r, price)
<1>1. /\ s \in stops /\ stops' = stops /\ heard' = [heard EXCEPT ![s] = @ \cup {price}]
      /\ stop' = [stop EXCEPT ![s] = new]
  BY DEF UpdateTrailingStop
<1>2. TrailingTypeOK
  BY DEF TrailInv
<1>3. r \in [side : Sides, trail : Nat, activation : Nat, best : Nat, stop : Int]
  <2>1. /\ Trails \cup {1} \subseteq Nat /\ Prices \cup {Unset} \subseteq Nat
        /\ Prices \cup {0, Infinite} \subseteq Nat
    BY InfiniteIsAbove, TrailsAssumption DEF Unset
  <2>2. r \in [side : Sides, trail : Trails \cup {1}, activation : Prices \cup {Unset},
              best : Prices \cup {0, Infinite}, stop : Int]
    BY <1>2 DEF TrailingTypeOK
  <2> QED BY <2>1, <2>2
<1>4. StopAt(r, price) \in Int
  BY <1>3, PricesAssumption DEF StopAt
<1>5. /\ stop'[s] = new /\ heard'[s] = heard[s] \cup {price}
      /\ \A t \in Stops \ {s} : stop'[t] = stop[t] /\ heard'[t] = heard[t]
  BY <1>1, <1>2 DEF TrailingTypeOK
<1>6. TrailingTypeOK'
  <2>1. new \in [side : Sides, trail : Trails \cup {1}, activation : Prices \cup {Unset},
                best : Prices \cup {0, Infinite}, stop : Int]
    BY <1>2, <1>4 DEF TrailingTypeOK, Trailed
  <2>2. heard' \in [Stops -> SUBSET Prices]
    BY <1>1, <1>2 DEF TrailingTypeOK
  <2> QED BY <1>1, <1>2, <2>1, <2>2 DEF TrailingTypeOK
<1>7. BestOf(stop'[s], heard'[s])
  <2>1. heard[s] \in SUBSET Prices /\ BestOf(r, heard[s])
    BY <1>2 DEF TrailInv, TrailingTypeOK
  <2> QED BY <1>3, <1>5, <2>1, UpdateKeepsBest
<1>8. \A t \in Stops : /\ t \notin stops' => heard'[t] = {}
                      /\ BestOf(stop'[t], heard'[t])
  BY <1>1, <1>5, <1>7 DEF TrailInv
<1> QED BY <1>6, <1>8 DEF TrailInv

(* A stop trails, by its amount and in its direction, the best of the      *)
(* prices update_trailing_stop was called with on its activated side,      *)
(* whatever the rest of the manager does between the calls.                *)
THEOREM StopsTrailTheBest == ManagerSpec => []TrailsTheBestPrice
<1>1. ManagerInit => TrailInv
  BY InfiniteIsAbove DEF ManagerInit, TrailingInit, TrailInv, TrailingTypeOK,
     BestOf, NewStop, Sides, Unset
<1>2. TrailInv /\ [ManagerNext]_managerVars => TrailInv'
  <2> SUFFICES ASSUME TrailInv, [ManagerNext]_managerVars
               PROVE  TrailInv'
    OBVIOUS
  <2>1. CASE TrailingNext
    <3>1. PICK s \in Stops :
            \/ \E side \in Sides, trail \in Trails, activation \in Prices \cup {Unset} :
                   CreateTrailingStop(s, side, trail, activation)
            \/ \E price \in Prices : UpdateTrailingStop(s, price)
      BY <2>1 DEF TrailingNext
    <3> QED BY <3>1, CreateKeepsTrails, UpdateKeepsTrails
  <2>2. CASE UNCHANGED trailingVars
    BY <2>2 DEF trailingVars, TrailInv, TrailingTypeOK
  <2> QED BY <2>1, <2>2 DEF ManagerNext, managerVars
<1>3. TrailInv => TrailsTheBestPrice
  <2> SUFFICES ASSUME TrailInv, NEW s \in stops
               PROVE  LET r == stop[s]
                          counted == {p \in heard[s] : Activated(r, p)}
                      IN  IF counted = {} THEN r.stop = Unset
                          ELSE \E p \in counted :
                                 /\ r.stop = IF r.side = "SELL" THEN p - r.trail ELSE p + r.trail
                                 /\ \A q \in counted : IF r.side = "SELL" THEN q <= p ELSE q >= p
    BY DEF TrailsTheBestPrice
  <2>1. BestOf(stop[s], heard[s])
    BY DEF TrailInv, TrailingTypeOK
  <2> QED BY <2>1 DEF BestOf, StopAt
<1> QED BY <1>1, <1>2, <1>3, PTL DEF ManagerSpec
=============================================================================
