------------------------------ MODULE Affiliates -------------------------------
(***************************************************************************)
(* AffiliateManager of monetization/affiliate.py: affiliates who are       *)
(* approved and suspended, the referrals of users that expire or convert,  *)
(* the levels that raise the rate, and the payouts of the commissions of   *)
(* converted referrals.  A user has at most one referral, for ever: an     *)
(* affiliate who asks again is given the one that exists.                  *)
(***************************************************************************)
EXTENDS Integers, Sequences, FiniteSets, FiniteSetsExt, Functions

CONSTANTS
    Affiliates,    \* affiliates, by the user each of them is
    Users,         \* referred users
    Amounts,       \* amounts of a subscription
    Levels,        \* sequence of records: rate, referrals, revenue
    MinPayout,     \* MIN_PAYOUT
    Payouts        \* ids of payouts

Nobody == "nobody"

(* AFFILIATE_COMMISSION_RATES and LEVEL_REQUIREMENTS: the first level asks *)
(* for nothing, and each asks for no less than those below it.             *)
AffiliateConstants ==
    /\ IsFiniteSet(Users) /\ IsFiniteSet(Payouts) /\ Nobody \notin Affiliates
    /\ Amounts \subseteq Nat /\ MinPayout \in Nat
    /\ Levels \in Seq([rate : Nat, referrals : Nat, revenue : Nat]) /\ Len(Levels) > 0
    /\ Levels[1].referrals = 0 /\ Levels[1].revenue = 0
    /\ \A l \in 1..Len(Levels) : \A k \in 1..l :
         /\ Levels[k].referrals <= Levels[l].referrals
         /\ Levels[k].revenue <= Levels[l].revenue

VARIABLES
    status,     \* Affiliate.status
    level,      \* Affiliate.level
    totals,     \* Affiliate.total_referrals, total_revenue, total_commissions
    referrals,  \* the referral of a user
    payouts     \* _payouts

affiliateVars == <<status, level, totals, referrals, payouts>>

NoReferral == [by |-> Nobody, status |-> "none", amount |-> 0, commission |-> 0]
NoPayout == [to |-> Nobody, amount |-> 0, status |-> "none"]

Init ==
    /\ status = [a \in Affiliates |-> "none"]
    /\ level = [a \in Affiliates |-> 1]
    /\ totals = [a \in Affiliates |-> [referrals |-> 0, revenue |-> 0, commissions |-> 0]]
    /\ referrals = [u \in Users |-> NoReferral]
    /\ payouts = [p \in Payouts |-> NoPayout]

ReferralsOf(a, states) == {u \in Users : referrals[u].by = a /\ referrals[u].status \in states}

-----------------------------------------------------------------------------
(* create_affiliate, approve_affiliate, suspend_affiliate: an affiliate is *)
(* approved, suspended and approved again, in any state.                   *)
CreateAffiliate(a) ==
    /\ status[a] = "none"
    /\ status' = [status EXCEPT ![a] = "pending"]
    /\ UNCHANGED <<level, totals, referrals, payouts>>

SetStatus(a, new) ==
    /\ status[a] # "none"
    /\ status' = [status EXCEPT ![a] = new]
    /\ UNCHANGED <<level, totals, referrals, payouts>>

CreateReferral(a, u) ==
    /\ status[a] = "active"
    /\ referrals[u] = NoReferral
    /\ referrals' = [referrals EXCEPT ![u] = [NoReferral EXCEPT !.by = a, !.status = "pending"]]
    /\ UNCHANGED <<status, level, totals, payouts>>

(* Ninety days pass: is_expired holds.  The code leaves the stored status  *)
(* "pending" and tests the date with it; here both are one status.         *)
ReferralExpires(u) ==
    /\ referrals[u].status = "pending"
    /\ referrals' = [referrals EXCEPT ![u].status = "expired"]
    /\ UNCHANGED <<status, level, totals, payouts>>

(* check_level_upgrade: the first level above that the totals reach. *)
Reached(a, sums) ==
    LET above == {l \in (level[a] + 1)..Len(Levels) :
                    /\ sums.referrals >= Levels[l].referrals
                    /\ sums.revenue >= Levels[l].revenue}
    IN  IF above = {} THEN level[a] ELSE Min(above)

(* The commission is at the rate of before the upgrade. *)
ConvertReferral(u, amount) ==
    LET a == referrals[u].by
        commission == amount * Levels[level[a]].rate
        sums == [referrals |-> totals[a].referrals + 1,
                 revenue |-> totals[a].revenue + amount,
                 commissions |-> totals[a].commissions + commission]
    IN
    /\ referrals[u].status = "pending"
    /\ status[a] = "active"
    /\ referrals' = [referrals EXCEPT
         ![u] = [@ EXCEPT !.status = "converted", !.amount = amount, !.commission = commission]]
    /\ totals' = [totals EXCEPT ![a] = sums]
    /\ level' = [level EXCEPT ![a] = Reached(a, sums)]
    /\ UNCHANGED <<status, payouts>>

-----------------------------------------------------------------------------
(* _calculate_pending_commission *)
Pending(a) ==
    SumFunctionOnSet([u \in Users |-> referrals[u].commission], ReferralsOf(a, {"converted"}))

(* mark_paid, for every converted referral of the affiliate. *)
Marked(a) ==
    [u \in Users |-> IF u \in ReferralsOf(a, {"converted"})
                     THEN [referrals[u] EXCEPT !.status = "paid"] ELSE referrals[u]]

RequestPayout(a, p) ==
    /\ status[a] = "active"
    /\ Pending(a) >= MinPayout
    /\ payouts[p] = NoPayout
    /\ payouts' = [payouts EXCEPT ![p] = [to |-> a, amount |-> Pending(a), status |-> "pending"]]
    /\ referrals' = Marked(a)
    /\ UNCHANGED <<status, level, totals>>

(* process_payout, complete_payout and fail_payout ask for no status. *)
SettlePayout(p, new) ==
    /\ payouts[p] # NoPayout
    /\ payouts' = [payouts EXCEPT ![p].status = new]
    /\ UNCHANGED <<status, level, totals, referrals>>

Next ==
    \/ \E a \in Affiliates :
         \/ CreateAffiliate(a)
         \/ \E new \in {"active", "suspended"} : SetStatus(a, new)
         \/ \E u \in Users : CreateReferral(a, u)
         \/ \E p \in Payouts : RequestPayout(a, p)
    \/ \E u \in Users :
         \/ ReferralExpires(u)
         \/ \E amount \in Amounts : ConvertReferral(u, amount)
    \/ \E p \in Payouts, new \in {"processing", "completed", "failed"} : SettlePayout(p, new)

Spec == Init /\ [][Next]_affiliateVars

-----------------------------------------------------------------------------
PayoutStates == {"pending", "processing", "completed", "failed"}

TypeOK ==
    /\ status \in [Affiliates -> {"none", "pending", "active", "suspended"}]
    /\ level \in [Affiliates -> 1..Len(Levels)]
    /\ totals \in [Affiliates -> [referrals : Nat, revenue : Nat, commissions : Nat]]
    /\ referrals \in [Users -> {NoReferral} \cup
         [by : Affiliates, status : {"pending", "expired", "converted", "paid"},
          amount : Nat, commission : Nat]]
    /\ payouts \in [Payouts -> {NoPayout} \cup
                      [to : Affiliates, amount : Nat, status : PayoutStates]]

PaidTo(a, states) ==
    SumFunctionOnSet([p \in Payouts |-> payouts[p].amount],
                     {p \in Payouts : payouts[p].to = a /\ payouts[p].status \in states})

(* Over suspensions, changes of the level and payouts in any order: what   *)
(* an affiliate has earned is what its converted referrals wait for and    *)
(* what payouts were made out for, so that no commission is paid twice or  *)
(* forgotten; its totals are those of its referrals, and it has the level  *)
(* that they reach.                                                        *)
CommissionsAreAccounted ==
    \A a \in Affiliates :
        LET counted == ReferralsOf(a, {"converted", "paid"}) IN
        /\ totals[a].commissions = Pending(a) + PaidTo(a, PayoutStates)
        /\ totals[a].referrals = Cardinality(counted)
        /\ totals[a].revenue = SumFunctionOnSet([u \in Users |-> referrals[u].amount], counted)
        /\ \A l \in 1..level[a] : /\ totals[a].referrals >= Levels[l].referrals
                                  /\ totals[a].revenue >= Levels[l].revenue

(* What the code does not do: owe a commission still when its payout       *)
(* failed.                                                                 *)
FailedStaysOwed ==
    \A a \in Affiliates :
        totals[a].commissions = Pending(a) + PaidTo(a, {"pending", "processing", "completed"})
=============================================================================
