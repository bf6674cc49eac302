-------------------------------- MODULE Gateway --------------------------------
(***************************************************************************)
(* PaymentGateway of payments/payment_gateway.py: deposits and withdrawals *)
(* under ids that are the kind and the second they began in, and the       *)
(* answers of providers, which may come late, twice or with any status.    *)
(* Amounts are in whole units, the fee a payment method asks one of them.  *)
(***************************************************************************)
EXTENDS Integers

CONSTANTS
    Requests,   \* requests of users, each made once
    Users,
    Amounts,
    Seconds     \* bound of the model: the seconds it looks at

Kinds == {"PAY", "WD"}
Answers == {"PROCESSING", "CONFIRMED", "FAILED", "EXPIRED"}
None == "none"
NoId == <<None, 0>>
Fee == 1

VARIABLES
    second,     \* the clock that payment ids are made of
    payments,   \* payments: id -> user, amount, net amount, status
    receipts,   \* ghost: what each request was, and the id it was given
    answered    \* ghost: the last answer given for an id

gatewayVars == <<second, payments, receipts, answered>>

GatewayConstants == Amounts \subseteq Nat /\ Seconds \in Nat \ {0}

PaymentIds == Kinds \X (1..Seconds)
NoPayment == [user |-> None, amount |-> 0, net |-> 0, status |-> None]
NoReceipt == [user |-> None, amount |-> 0, kind |-> None, at |-> 0, id |-> NoId]

Init ==
    /\ second = 1
    /\ payments = [i \in PaymentIds |-> NoPayment]
    /\ receipts = [r \in Requests |-> NoReceipt]
    /\ answered = [i \in PaymentIds |-> None]

-----------------------------------------------------------------------------
PaymentId_OneKind(kind) == <<"PAY", second>>

PaymentId(kind) == <<kind, second>>

(* Whatever is found under the id is replaced. *)
Begin(r, user, amount, kind, status) ==
    /\ receipts[r].id = NoId
    /\ payments' = [payments EXCEPT ![PaymentId(kind)] =
         [user |-> user, amount |-> amount, net |-> amount - Fee, status |-> status]]
    /\ receipts' = [receipts EXCEPT ![r] = [user |-> user, amount |-> amount, kind |-> kind, at |-> second,
                                          id |-> PaymentId(kind)]]
    /\ answered' = [answered EXCEPT ![PaymentId(kind)] = None]
    /\ UNCHANGED second

InitiateDeposit(r, user, amount) == Begin(r, user, amount, "PAY", "INITIATED")
ProcessWithdrawal(r, user, amount) == Begin(r, user, amount, "WD", "PENDING")

(* confirm_payment asks nothing of the status before. *)
ConfirmPayment(i, status) ==
    /\ payments[i] # NoPayment
    /\ payments' = [payments EXCEPT ![i].status = status]
    /\ answered' = [answered EXCEPT ![i] = status]
    /\ UNCHANGED <<second, receipts>>

Tick ==
    /\ second < Seconds
    /\ second' = second + 1
    /\ UNCHANGED <<payments, receipts, answered>>

Next ==
    \/ \E r \in Requests, u \in Users, a \in Amounts :
         InitiateDeposit(r, u, a) \/ ProcessWithdrawal(r, u, a)
    \/ \E i \in PaymentIds, s \in Answers : ConfirmPayment(i, s)
    \/ Tick

Spec == Init /\ [][Next]_gatewayVars

-----------------------------------------------------------------------------
TypeOK ==
    /\ second \in 1..Seconds
    /\ payments \in [PaymentIds -> [user : Users \cup {None}, amount : Nat, net : Int,
                             status : Answers \cup {"INITIATED", "PENDING", None}]]
    /\ receipts \in [Requests -> [user : Users \cup {None}, amount : Nat, kind : Kinds \cup {None},
                              at : 0..Seconds, id : PaymentIds \cup {NoId}]]

Given(r) == receipts[r].id # NoId
Alone(r) == \A q \in Requests \ {r} :
    receipts[q].kind # receipts[r].kind \/ receipts[q].at # receipts[r].at
Found(r) == payments[receipts[r].id]

(* Whoever was alone with his kind of payment in its second finds his own  *)
(* payment under his id, with the last status given for that id; nobody    *)
(* finds a payment that was never asked for.                               *)
ReceiptsLeadHome ==
    \A r \in Requests : Given(r) =>
        /\ \E q \in Requests : /\ receipts[q].id = receipts[r].id
                               /\ Found(r).user = receipts[q].user
                               /\ Found(r).amount = receipts[q].amount
        /\ Alone(r) => /\ Found(r).user = receipts[r].user
                       /\ Found(r).amount = receipts[r].amount
        /\ answered[receipts[r].id] # None => Found(r).status = answered[receipts[r].id]

(* Inductive: an id is the kind of a request and the second it came in. *)
IInv ==
    /\ TypeOK /\ answered \in [PaymentIds -> Answers \cup {None}]
    /\ \A r \in Requests : Given(r) => receipts[r].id = <<receipts[r].kind, receipts[r].at>>
    /\ ReceiptsLeadHome

(* What ids of a second's resolution cannot give. *)
EveryReceiptLeadsHome == \A r \in Requests : Given(r) => Found(r).user = receipts[r].user
=============================================================================
