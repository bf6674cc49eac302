----------------------------- MODULE Transactions ------------------------------
(***************************************************************************)
(* TransactionManager of payments/transaction_manager.py under the calls   *)
(* of webhooks and operators, repeated and late ones among them: a status  *)
(* is set whatever the one before, only a cancellation asks for PENDING    *)
(* and a reversal for COMPLETED.                                           *)
(***************************************************************************)
EXTENDS Integers, FiniteSets

CONSTANTS
    Ids,            \* ids of transactions, those of reversals included
    MaxCompletions  \* bound of the model on confirmations of one transaction

None == "none"

TransactionConstants == None \notin Ids /\ IsFiniteSet(Ids) /\ MaxCompletions \in Nat \ {0}
(* payment, commission and transfer are treated alike: one stands for them. *)
Types == {"deposit", "withdrawal", "payment", "refund"}
Statuses == {"PENDING", "PROCESSING", "COMPLETED", "FAILED", "CANCELLED", "REVERSED"}

VARIABLES
    txns,        \* transactions: type, status, the transaction it reverses
    reversedBy,  \* metadata['reversed_by']
    completions  \* ghost: how often a transaction became COMPLETED

txnVars == <<txns, reversedBy, completions>>

NoTxn == [type |-> None, status |-> None, original |-> None]

Init ==
    /\ txns = [t \in Ids |-> NoTxn]
    /\ reversedBy = [t \in Ids |-> None]
    /\ completions = [t \in Ids |-> 0]

Recorded(t) == txns[t].status # None
Reversals(t) == {r \in Ids : txns[r].original = t}

-----------------------------------------------------------------------------
RecordTransaction(t, type) ==
    /\ ~Recorded(t)
    /\ txns' = [txns EXCEPT ![t] = [type |-> type, status |-> "PENDING", original |-> None]]
    /\ UNCHANGED <<reversedBy, completions>>

(* With complete_transaction and fail_transaction. *)
UpdateTransactionStatus(t, status) ==
    /\ Recorded(t) /\ completions[t] < MaxCompletions
    /\ txns' = [txns EXCEPT ![t].status = status]
    /\ completions' = IF status # "COMPLETED" \/ txns[t].status = "COMPLETED" THEN completions
                      ELSE [completions EXCEPT ![t] = @ + 1]
    /\ UNCHANGED reversedBy

CancelTransaction(t) ==
    /\ txns[t].status = "PENDING"
    /\ txns' = [txns EXCEPT ![t].status = "CANCELLED"]
    /\ UNCHANGED <<reversedBy, completions>>

ReversalType(type) ==
    CASE type = "deposit" -> "withdrawal"
      [] type = "withdrawal" -> "deposit"
      [] OTHER -> "refund"

Reversible_Twice(t) == txns[t].status \in {"COMPLETED", "REVERSED"}

Reversible(t) == txns[t].status = "COMPLETED"

(* reverse_transaction: a new transaction that is PENDING itself. *)
ReverseTransaction(t, r) ==
    /\ Reversible(t) /\ ~Recorded(r)
    /\ txns' = [txns EXCEPT
         ![t].status = "REVERSED",
         ![r] = [type |-> ReversalType(txns[t].type), status |-> "PENDING", original |-> t]]
    /\ reversedBy' = [reversedBy EXCEPT ![t] = r]
    /\ UNCHANGED completions

Next ==
    \E t \in Ids :
        \/ \E type \in Types : RecordTransaction(t, type)
        \/ \E status \in Statuses : UpdateTransactionStatus(t, status)
        \/ CancelTransaction(t)
        \/ \E r \in Ids : ReverseTransaction(t, r)

Spec == Init /\ [][Next]_txnVars

-----------------------------------------------------------------------------
TypeOK ==
    /\ txns \in [Ids -> [type : Types, status : Statuses, original : Ids \cup {None}] \cup {NoTxn}]
    /\ reversedBy \in [Ids -> Ids \cup {None}]
    /\ completions \in [Ids -> 0..MaxCompletions]

(* Late and repeated confirmations may complete a transaction again, and   *)
(* then it can be reversed again; but each reversal was paid for by a      *)
(* completion of its own, one that is still completed by one more, and the *)
(* reversal found in a transaction runs against it.                        *)
ReversalsAreBacked ==
    \A t \in Ids :
        /\ Cardinality(Reversals(t)) + (IF txns[t].status = "COMPLETED" THEN 1 ELSE 0)
             <= completions[t]
        /\ reversedBy[t] # None => /\ txns[reversedBy[t]].original = t
                                   /\ txns[reversedBy[t]].type = ReversalType(txns[t].type)

(* What the code does not do: reverse a transaction once. *)
ReversedOnce == \A t \in Ids : Cardinality(Reversals(t)) <= 1

-----------------------------------------------------------------------------
(* ReversalsAreBacked for any transactions: it is inductive together with  *)
(* the types and the fact that an id not yet recorded has no reversal and  *)
(* reverses nothing.                                                       *)
Books ==
    /\ txns \in [Ids -> [type : Types \cup {None}, status : Statuses \cup {None},
                         original : Ids \cup {None}]]
    /\ reversedBy \in [Ids -> Ids \cup {None}]
    /\ completions \in [Ids -> Nat]
    /\ \A t \in Ids : ~Recorded(t) => txns[t].original = None /\ reversedBy[t] = None

IInv == Books /\ ReversalsAreBacked
=============================================================================
