-------------------------------- MODULE Wallets --------------------------------
(***************************************************************************)
(* WalletManager of payments/wallet.py: two balances per user, a history   *)
(* of bookings, freezing. A transfer is a debit and a credit, and a second *)
(* credit to undo the debit when the first credit is refused.              *)
(***************************************************************************)
EXTENDS Integers, Sequences, Functions

CONSTANTS
    Users,
    Amounts,
    MaxBookings   \* bound of the model on the history of a user

WalletConstants == Amounts \subseteq Nat \ {0} /\ MaxBookings \in Nat

WalletTypes == {"subscription", "commission"}

VARIABLES
    wallet,    \* _wallets: balances and status; status "none" without a wallet
    initial,   \* the initial_balance a wallet was created with
    history    \* _transaction_history

walletVars == <<wallet, initial, history>>

Init ==
    /\ wallet = [u \in Users |->
         [status |-> "none", balance |-> [w \in WalletTypes |-> 0]]]
    /\ initial = [u \in Users |-> 0]
    /\ history = [u \in Users |-> <<>>]

Room(u, n) == Len(history[u]) + n <= MaxBookings

-----------------------------------------------------------------------------
(* What a refused or granted booking makes of the books of a user. The     *)
(* books are a record of the wallet and its history.                       *)
Books(u) == [wallet |-> wallet[u], history |-> history[u]]

Exists(b) == b.wallet.status # "none"
Active(b) == b.wallet.status = "active"

Booked(b, w, n, type) ==
    [wallet |-> [b.wallet EXCEPT !.balance[w] = @ + n],
     history |-> Append(b.history, [wallet |-> w, type |-> type, amount |-> n])]

(* credit_wallet: creates the wallet it does not find, and refuses an      *)
(* unknown wallet type.                                                    *)
WithWallet(b) == IF Exists(b) THEN b ELSE [b EXCEPT !.wallet.status = "active"]

CreditGranted(b, w) == Active(WithWallet(b)) /\ w \in WalletTypes
Credited(b, w, n, type) ==
    IF CreditGranted(b, w) THEN Booked(WithWallet(b), w, n, type) ELSE WithWallet(b)

(* debit_wallet *)
DebitGranted(b, w, n) == Active(b) /\ w \in WalletTypes /\ b.wallet.balance[w] >= n

Debited(b, w, n, type) == IF DebitGranted(b, w, n) THEN Booked(b, w, -n, type) ELSE b

(* transfer_between_wallets *)
RolledBack_Not(b, from, n) == b

RolledBack(b, from, n) == Credited(b, from, n, "reversal")

Transferred(b, from, to, n) ==
    LET taken == Debited(b, from, n, "transfer")
    IN  IF ~DebitGranted(b, from, n) THEN b
        ELSE IF CreditGranted(taken, to) THEN Credited(taken, to, n, "transfer")
        ELSE RolledBack(taken, from, n)

-----------------------------------------------------------------------------
Sets(u, b) ==
    /\ wallet' = [wallet EXCEPT ![u] = b.wallet]
    /\ history' = [history EXCEPT ![u] = b.history]
    /\ UNCHANGED initial

CreateWallet(u) ==
    /\ wallet[u].status = "none"
    /\ \E n \in Amounts \cup {0} :
        /\ wallet' = [wallet EXCEPT ![u].status = "active", ![u].balance["subscription"] = n]
        /\ initial' = [initial EXCEPT ![u] = n]
    /\ UNCHANGED history

CreditWallet(u, w, n) == Room(u, 1) /\ Sets(u, Credited(Books(u), w, n, "deposit"))

DebitWallet(u, w, n) == Room(u, 1) /\ Sets(u, Debited(Books(u), w, n, "withdrawal"))

(* The destination is whatever the caller gives, "other" for an unknown.   *)
Transfer(u, from, to, n) ==
    from # to /\ Room(u, 2) /\ Sets(u, Transferred(Books(u), from, to, n))

SetStatus(u, s) ==
    /\ wallet[u].status # "none"
    /\ wallet' = [wallet EXCEPT ![u].status = s]
    /\ UNCHANGED <<initial, history>>

FreezeWallet(u) == SetStatus(u, "frozen")
UnfreezeWallet(u) == SetStatus(u, "active")

Next ==
    \E u \in Users :
        \/ CreateWallet(u) \/ FreezeWallet(u) \/ UnfreezeWallet(u)
        \/ \E n \in Amounts, w \in WalletTypes \cup {"other"} :
             CreditWallet(u, w, n) \/ DebitWallet(u, w, n)
        \/ \E n \in Amounts, from, to \in WalletTypes \cup {"other"} : Transfer(u, from, to, n)

Spec == Init /\ [][Next]_walletVars

-----------------------------------------------------------------------------
Bookings == [wallet : WalletTypes, type : {"deposit", "withdrawal", "transfer", "reversal"},
             amount : Int]

TypeOK ==
    /\ wallet \in [Users -> [status : {"none", "active", "frozen"}, balance : [WalletTypes -> Nat]]]
    /\ initial \in [Users -> Nat]
    /\ history \in [Users -> Seq(Bookings)]

(* The sum of the amounts of the bookings at some places of a history. *)
Sum(bookings, places) == SumFunctionOnSet([i \in DOMAIN bookings |-> bookings[i].amount], places)

On(w, bookings) == {i \in DOMAIN bookings : bookings[i].wallet = w}
Moves(bookings) == {i \in DOMAIN bookings : bookings[i].type \in {"transfer", "reversal"}}

(* Each balance is what its wallet started with and the bookings of its    *)
(* history, and transfers, those that were refused half way included, have *)
(* moved money but neither made nor lost any.                              *)
MoneyIsConserved ==
    \A u \in Users :
        /\ \A w \in WalletTypes :
             wallet[u].balance[w] = (IF w = "subscription" THEN initial[u] ELSE 0)
                                      + Sum(history[u], On(w, history[u]))
        /\ Sum(history[u], Moves(history[u])) = 0
=============================================================================
