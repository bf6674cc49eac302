----------------------------- MODULE Subscriptions -----------------------------
(***************************************************************************)
(* The managers of monetization/ that api/monetization.py ties together:   *)
(* subscriptions, the access codes and payments (each with its invoice)    *)
(* that start them, and the licence validator's cache.  Every handler runs *)
(* to its end before the next; what is hard is the order they come in.     *)
(* The clock advances between the handlers, and within the activation of a *)
(* code, which reads it three times.                                       *)
(*                                                                         *)
(* A tick is five minutes.  Of the tiers two are told apart: the free one, *)
(* and one that is paid for and has the feature users are asked about.     *)
(***************************************************************************)
EXTENDS Integers, TLAPS
LOCAL INSTANCE TLC

CONSTANTS
    Users,
    Subs,        \* subscription ids, a new one for each subscription
    Codes,       \* access codes
    Payments,    \* ids of payments, and of their invoices
    Durations,   \* how long a subscription or a code may last
    Day,         \* ticks of a day
    Horizon      \* ticks the model lasts

Free == "free"
Paid == "paid"
CONSTANT None    \* no id

ASSUME IdsAssumption == None \notin Users \cup Subs \cup Codes \cup Payments
ASSUME TimeAssumption == Durations \subseteq Nat /\ Day \in Nat \ {0} /\ Horizon \in Nat

VARIABLES
    now,      \* the clock
    sub,      \* Subscription, by id
    current,  \* _user_subscriptions
    code,     \* AccessCode, by code
    payment,  \* Payment and Invoice, by id
    cache     \* _validation_cache, for the feature users ask about

vars == <<now, sub, current, code, payment, cache>>

NoSub == [user |-> None, tier |-> Free, status |-> "none", end |-> 0, code |-> None]
NoCode == [tier |-> Free, status |-> "none", duration |-> 0, expires |-> 0, user |-> None, sub |-> None]
NoPayment == [status |-> "none", invoice |-> "none", sub |-> None, code |-> None]
NoEntry == [cached |-> FALSE, hasAccess |-> FALSE, at |-> 0]

Init ==
    /\ now = 0
    /\ sub = [s \in Subs |-> NoSub] /\ current = [u \in Users |-> None]
    /\ code = [c \in Codes |-> NoCode]
    /\ payment = [p \in Payments |-> NoPayment]
    /\ cache = [u \in Users |-> NoEntry]

-----------------------------------------------------------------------------
(* Subscriptions.  (start_date is never in the future: it is left out.)    *)

Known(s) == sub[s].status # "none"
IsExpired(s) == now > sub[s].end
IsActive(s) == sub[s].status = "active" /\ ~IsExpired(s)

(* A new subscription becomes the user's current one, whatever the other.  *)
Create(s, u, tier, status, end, c) ==
    /\ ~Known(s)
    /\ sub' = [sub EXCEPT ![s] = [user |-> u, tier |-> tier, status |-> status,
                                  end |-> end, code |-> c]]
    /\ current' = [current EXCEPT ![u] = s]

Subscribe(u, s, tier, duration) ==
    /\ Create(s, u, tier, IF tier = Free THEN "active" ELSE "pending", now + duration, None)
    /\ UNCHANGED <<now, code, payment, cache>>

SetStatus(s, status) ==
    /\ Known(s)
    /\ sub' = [sub EXCEPT ![s].status = status]
    /\ UNCHANGED <<now, current, code, payment, cache>>

CancelSubscription(s) == SetStatus(s, "cancelled")
Suspend(s) == SetStatus(s, "suspended")

(* activate_subscription needs the code the subscription was made with.    *)
ActivateSubscription(s) == sub[s].code # None /\ SetStatus(s, "active")

Renew(s, duration) ==
    /\ Known(s)
    /\ sub' = [sub EXCEPT ![s].status = "active", ![s].end = now + duration]
    /\ UNCHANGED <<now, current, code, payment, cache>>

Reactivate(s) ==
    IF IsExpired(s) THEN \E duration \in Durations : Renew(s, duration) ELSE SetStatus(s, "active")

(* upgrade_subscription and downgrade_subscription along the tiers' order. *)
ChangeTier(s) ==
    /\ Known(s)
    /\ sub' = [sub EXCEPT ![s].tier = IF @ = Free THEN Paid ELSE Free]
    /\ UNCHANGED <<now, current, code, payment, cache>>

-----------------------------------------------------------------------------
(* Access codes                                                            *)

NewCode(c, tier, duration) ==
    /\ code[c].status = "none"
    /\ code' = [code EXCEPT ![c] = [NoCode EXCEPT !.tier = tier, !.status = "active",
                                    !.duration = duration, !.expires = now + duration]]

(* Codes that are given away, in batches or alone.                         *)
GenerateCode(c, tier, duration) ==
    /\ NewCode(c, tier, duration)
    /\ UNCHANGED <<now, sub, current, payment, cache>>

(* is_valid marks a code it finds too old; validate_access_code then asks  *)
(* for a method the class does not have, and the request fails.            *)
CodeExpires(c) ==
    /\ code[c].status = "active" /\ now > code[c].expires
    /\ code' = [code EXCEPT ![c].status = "expired"]
    /\ UNCHANGED <<now, sub, current, payment, cache>>

(* (A name with an underscore is a fault that a change of the code could   *)
(* bring into the definition after it.)                                    *)
CodeIsValid_UnlessRevoked(c, at) == code[c].status \in {"active", "used"} /\ at <= code[c].expires

CodeIsValid(c, at) == code[c].status = "active" /\ at <= code[c].expires

(* AccessCode.activate checks again: a code it finds too old is marked and *)
(* names nobody.                                                           *)
Used(c, u, s, at) ==
    IF CodeIsValid(c, at) THEN [code[c] EXCEPT !.status = "used", !.user = u, !.sub = s]
    ELSE [code[c] EXCEPT !.status = "expired"]

(* The API's activate_code: a valid code makes an active subscription and  *)
(* is used, unless it expires meanwhile, which nobody asks about.          *)
ActivateCode(u, c, s) ==
    /\ CodeIsValid(c, now)
    /\ \E created \in {now, now + 1} : \E activated \in {created, now + 1} :
         /\ activated <= Horizon /\ now' = activated
         /\ Create(s, u, code[c].tier, "active", created + code[c].duration, c)
         /\ code' = [code EXCEPT ![c] = Used(c, u, s, activated)]
    /\ UNCHANGED <<payment, cache>>

RevokeCode(c) ==
    /\ code[c].status # "none"
    /\ code' = [code EXCEPT ![c].status = "revoked"]
    /\ UNCHANGED <<now, sub, current, payment, cache>>

-----------------------------------------------------------------------------
(* Payments                                                                *)

CreatePayment_Draft(p, s, c, duration) ==
    /\ Known(s) /\ payment[p].status = "none"
    /\ NewCode(c, sub[s].tier, duration)
    /\ payment' = [payment EXCEPT ![p] = [status |-> "pending", invoice |-> "draft",
                                          sub |-> s, code |-> c]]
    /\ UNCHANGED <<now, sub, current, cache>>

(* create_payment: a code, an invoice that shows it, and the payment.      *)
CreatePayment(p, s, c, duration) ==
    /\ Known(s) /\ payment[p].status = "none"
    /\ NewCode(c, sub[s].tier, duration)
    /\ payment' = [payment EXCEPT ![p] = [status |-> "pending", invoice |-> "pending",
                                          sub |-> s, code |-> c]]
    /\ UNCHANGED <<now, sub, current, cache>>

ProcessPayment_KeepsInvoice(p) ==
    /\ payment[p].status # "none"
    /\ payment' = [payment EXCEPT ![p].status = "succeeded",
                                  ![p].invoice = IF @ = "pending" THEN "paid" ELSE @]
    /\ sub' = [sub EXCEPT ![payment[p].sub].status = "active"]
    /\ UNCHANGED <<now, current, code, cache>>

(* process_payment asks for no status of payment, invoice or subscription. *)
ProcessPayment(p) ==
    /\ payment[p].status # "none"
    /\ payment' = [payment EXCEPT ![p].status = "succeeded", ![p].invoice = "paid"]
    /\ sub' = [sub EXCEPT ![payment[p].sub].status = "active"]
    /\ UNCHANGED <<now, current, code, cache>>

RefundPayment(p) ==
    /\ payment[p].status = "succeeded"
    /\ payment' = [payment EXCEPT ![p].status = "refunded", ![p].invoice = "refunded"]
    /\ UNCHANGED <<now, sub, current, code, cache>>

CancelInvoice(p) ==
    /\ payment[p].status # "none"
    /\ payment' = [payment EXCEPT ![p].invoice = "cancelled"]
    /\ UNCHANGED <<now, sub, current, code, cache>>

-----------------------------------------------------------------------------
(* The licence validator                                                   *)

HasAccess(u) == current[u] # None /\ IsActive(current[u]) /\ sub[current[u]].tier = Paid

(* timedelta.seconds leaves the days of the age out.  (A fresh entry is    *)
(* answered from and changes nothing.)                                     *)
IsFresh(entry) == entry.cached /\ (now - entry.at) % Day = 0

HasFeatureAccess(u) ==
    /\ ~IsFresh(cache[u])
    /\ cache' = [cache EXCEPT ![u] = [cached |-> TRUE, hasAccess |-> HasAccess(u), at |-> now]]
    /\ UNCHANGED <<now, sub, current, code, payment>>

ClearCache(u) ==
    /\ cache' = [cache EXCEPT ![u] = NoEntry]
    /\ UNCHANGED <<now, sub, current, code, payment>>

Tick ==
    /\ now < Horizon
    /\ now' = now + 1
    /\ UNCHANGED <<sub, current, code, payment, cache>>

-----------------------------------------------------------------------------
SubscriptionOperation(s) ==
    \/ CancelSubscription(s) \/ Suspend(s) \/ Reactivate(s)
    \/ ActivateSubscription(s) \/ ChangeTier(s)
    \/ \E duration \in Durations : Renew(s, duration)

Start(s) ==
    \E u \in Users :
        \/ \E tier \in {Free, Paid}, duration \in Durations : Subscribe(u, s, tier, duration)
        \/ \E c \in Codes : ActivateCode(u, c, s)

CodeOperation(c) ==
    \/ CodeExpires(c) \/ RevokeCode(c)
    \/ \E tier \in {Free, Paid}, duration \in Durations : GenerateCode(c, tier, duration)

PaymentOperation(p) ==
    \/ \E s \in Subs, c \in Codes, duration \in Durations : CreatePayment(p, s, c, duration)
    \/ ProcessPayment(p) \/ RefundPayment(p) \/ CancelInvoice(p)

Next ==
    \/ \E s \in Subs : Start(s) \/ SubscriptionOperation(s)
    \/ \E c \in Codes : CodeOperation(c)
    \/ \E p \in Payments : PaymentOperation(p)
    \/ \E u \in Users : HasFeatureAccess(u) \/ ClearCache(u)
    \/ Tick

Spec == Init /\ [][Next]_vars

-----------------------------------------------------------------------------
Tiers == {Free, Paid}

SubType == [user : Users \cup {None}, tier : Tiers, end : Int, code : Codes \cup {None},
            status : {"none", "pending", "active", "cancelled", "suspended"}]
CodeType == [tier : Tiers, status : {"none", "active", "used", "expired", "revoked"},
             duration : Int, expires : Int, user : Users \cup {None}, sub : Subs \cup {None}]
PaymentType == [status : {"none", "pending", "succeeded", "refunded"},
                invoice : {"none", "pending", "paid", "refunded", "cancelled"},
                sub : Subs \cup {None}, code : Codes \cup {None}]

TypeOK ==
    /\ now \in 0..Horizon
    /\ sub \in [Subs -> SubType]
    /\ current \in [Users -> Subs \cup {None}]
    /\ code \in [Codes -> CodeType]
    /\ payment \in [Payments -> PaymentType]
    /\ cache \in [Users -> [cached : BOOLEAN, hasAccess : BOOLEAN, at : Int]]

(* An access code starts one subscription and no other, even when it is    *)
(* revoked later.  It names that subscription and its user, unless it      *)
(* expired in the midst of the activation; and then it cannot be used      *)
(* again either.                                                           *)
UsedBy(c, s) ==
    \/ /\ code[c].sub = s /\ code[c].user = sub[s].user
       /\ code[c].status \in {"used", "revoked"}
    \/ /\ code[c].sub = None
       /\ code[c].status \in {"expired", "revoked"}

OneSubscriptionPerCode ==
    /\ \A s, t \in Subs : sub[s].code # None /\ sub[s].code = sub[t].code => s = t
    /\ \A s \in Subs : sub[s].code # None => UsedBy(sub[s].code, s)
    /\ \A c \in Codes : code[c].sub # None =>
         sub[code[c].sub].code = c /\ UsedBy(c, code[c].sub)

(* A payment and its invoice tell the same story, however often either is  *)
(* processed, refunded or cancelled.                                       *)
InvoiceMatchesPayment ==
    \A p \in Payments :
        \/ payment[p].invoice = "cancelled"
        \/ <<payment[p].status, payment[p].invoice>> \in
             {<<"none", "none">>, <<"pending", "pending">>, <<"succeeded", "paid">>, <<"refunded", "refunded">>}

\* Users and subscription ids are interchangeable.
Symmetry == Permutations(Users) \cup Permutations(Subs)

-----------------------------------------------------------------------------
(* What the code's comments say and the code does not do. *)

(* "Mark code as used": the code of a subscription is used. *)
StartedCodeIsUsed ==
    \A s \in Subs : sub[s].code # None => code[sub[s].code].sub = s

(* "Get active subscription for a user": a user with an active             *)
(* subscription gets that one.                                             *)
ActiveIsCurrent ==
    \A s \in Subs : IsActive(s) => IsActive(current[sub[s].user])

(* "Renew subscription": no paid time is lost.                             *)
RenewalKeepsPaidTime ==
    [][\A s \in Subs : IsActive(s) /\ Known(s)' => sub'[s].end >= sub[s].end]_vars

(* "5 minutes": what the cache answers is no older.                        *)
CacheIsRecent == \A u \in Users : IsFresh(cache[u]) => cache[u].at = now

(* "sent to users upon payment confirmation": no code is used before.      *)
CodeWasPaid ==
    \A p \in Payments : payment[p].status = "pending" => code[payment[p].code].status # "used"
-----------------------------------------------------------------------------
(***************************************************************************)
(* Proofs, for every set of users and ids and for any durations.  The two  *)
(* invariants are inductive with the types and with the codes of unknown   *)
(* subscriptions, which have none; an active code is in no subscription,   *)
(* which is why a new code or an activation meets no other with the code.  *)
(***************************************************************************)
UnknownHaveNoCode == \A s \in Subs : ~Known(s) => sub[s].code = None

IInv == TypeOK /\ OneSubscriptionPerCode /\ InvoiceMatchesPayment /\ UnknownHaveNoCode

-----------------------------------------------------------------------------
\* Users and codes of the subscriptions and the codes themselves are all that the
\* invariant on codes speaks of.
LEMMA SameCodes ==
    ASSUME TypeOK, OneSubscriptionPerCode, UNCHANGED code,
           \A t \in Subs : sub'[t].user = sub[t].user /\ sub'[t].code = sub[t].code
    PROVE  OneSubscriptionPerCode'
<1>1. \A c \in Codes : code[c].sub \in Subs \cup {None}
  BY DEF TypeOK, CodeType
<1> QED
  BY <1>1 DEF OneSubscriptionPerCode, UsedBy

\* A status, tier or end that is set, of one subscription, leaves the invariant alone.
LEMMA SubscriptionChanged ==
    ASSUME IInv, NEW s \in Subs, NEW new \in SubType,
           new.user = sub[s].user, new.code = sub[s].code, new.status # "none",
           sub' = [sub EXCEPT ![s] = new],
           UNCHANGED <<now, current, code, payment, cache>>
    PROVE  IInv'
<1>1. /\ sub' \in [Subs -> SubType]
      /\ \A t \in Subs : sub'[t].user = sub[t].user /\ sub'[t].code = sub[t].code
      /\ \A t \in Subs : Known(t) => Known(t)'
  BY DEF IInv, TypeOK, Known
<1>2. TypeOK'
  BY <1>1 DEF IInv, TypeOK
<1>3. OneSubscriptionPerCode'
  BY <1>1, SameCodes DEF IInv
<1>4. UnknownHaveNoCode'
  BY <1>1 DEF IInv, UnknownHaveNoCode
<1> QED
  BY <1>2, <1>3, <1>4 DEF IInv, InvoiceMatchesPayment

\* Setting a subscription's status keeps the invariant.
LEMMA StatusChanged ==
    ASSUME IInv, NEW s \in Subs,
           NEW status \in {"pending", "active", "cancelled", "suspended"}, SetStatus(s, status)
    PROVE  IInv'
<1> DEFINE new == [sub[s] EXCEPT !.status = status]
<1>1. /\ new \in SubType /\ new.user = sub[s].user /\ new.code = sub[s].code
      /\ new.status # "none"
  BY DEF IInv, TypeOK, SubType
<1>2. sub' = [sub EXCEPT ![s] = new]
  BY DEF SetStatus
<1> QED
  BY <1>1, <1>2, SubscriptionChanged DEF SetStatus

\* A renewal keeps the invariant.
LEMMA Renewed ==
    ASSUME IInv, NEW s \in Subs, NEW duration \in Durations, Renew(s, duration)
    PROVE  IInv'
<1> DEFINE new == [sub[s] EXCEPT !.status = "active", !.end = now + duration]
<1>1. now + duration \in Int
  BY TimeAssumption DEF IInv, TypeOK
<1>2. /\ new \in SubType /\ new.user = sub[s].user /\ new.code = sub[s].code
      /\ new.status # "none"
  BY <1>1 DEF IInv, TypeOK, SubType
<1>3. sub' = [sub EXCEPT ![s] = new]
  BY DEF Renew
<1> QED
  BY <1>2, <1>3, SubscriptionChanged DEF Renew

-----------------------------------------------------------------------------
\* What a new subscription looks like.
LEMMA Created ==
    ASSUME TypeOK, NEW s \in Subs, NEW u \in Users, NEW tier \in Tiers,
           NEW status \in {"pending", "active"}, NEW end \in Int,
           NEW c \in Codes \cup {None}, Create(s, u, tier, status, end, c)
    PROVE  /\ sub' \in [Subs -> SubType] /\ ~Known(s) /\ Known(s)'
           /\ current' \in [Users -> Subs \cup {None}]
           /\ sub'[s].user = u /\ sub'[s].code = c
           /\ \A t \in Subs \ {s} : sub'[t] = sub[t]
<1> DEFINE new == [user |-> u, tier |-> tier, status |-> status, end |-> end, code |-> c]
<1>1. new.status # "none"
  OBVIOUS
<1>2. new \in SubType
  BY DEF SubType
<1>3. sub' = [sub EXCEPT ![s] = new] /\ ~Known(s)
  BY DEF Create
<1> HIDE DEF new
<1>4. sub' \in [Subs -> SubType] /\ sub'[s] = new /\ \A t \in Subs \ {s} : sub'[t] = sub[t]
  BY <1>2, <1>3 DEF TypeOK
<1>5. current' \in [Users -> Subs \cup {None}]
  BY DEF Create, TypeOK
<1> QED
  BY <1>1, <1>3, <1>4, <1>5 DEF new, Known

\* A subscription for payment carries no code.
LEMMA SubscribeStep ==
    ASSUME IInv, NEW s \in Subs, NEW u \in Users, NEW tier \in Tiers,
           NEW duration \in Durations, Subscribe(u, s, tier, duration)
    PROVE  IInv'
<1>1. now + duration \in Int
  BY TimeAssumption DEF IInv, TypeOK
<1>2. PICK status \in {"pending", "active"} : Create(s, u, tier, status, now + duration, None)
  BY DEF Subscribe
<1>3. /\ sub' \in [Subs -> SubType] /\ current' \in [Users -> Subs \cup {None}]
      /\ sub'[s].code = None /\ ~Known(s) /\ Known(s)'
      /\ \A t \in Subs \ {s} : sub'[t] = sub[t]
  BY <1>1, <1>2, Created DEF IInv
<1>4. TypeOK'
  BY <1>3 DEF Subscribe, IInv, TypeOK
<1>5. sub[s].code = None
  BY <1>3 DEF IInv, UnknownHaveNoCode
<1>6. \A c \in Codes : code[c].sub # s
  BY <1>5, IdsAssumption DEF IInv, OneSubscriptionPerCode
<1>7. OneSubscriptionPerCode'
  <2>1. UNCHANGED code /\ \A c \in Codes : code[c].sub \in Subs \cup {None}
    BY DEF Subscribe, IInv, TypeOK, CodeType
  <2>2. \A t \in Subs : sub[t].code \in Codes \cup {None}
    BY DEF IInv, TypeOK, SubType
  <2> QED
    BY <1>3, <1>5, <1>6, <2>1, <2>2 DEF IInv, OneSubscriptionPerCode, UsedBy
<1>8. UnknownHaveNoCode'
  BY <1>3 DEF IInv, UnknownHaveNoCode, Known
<1> QED
  BY <1>4, <1>7, <1>8 DEF Subscribe, IInv, InvoiceMatchesPayment

\* An active code is in no subscription and names none.
LEMMA ActiveCode ==
    ASSUME TypeOK, OneSubscriptionPerCode, NEW c \in Codes, code[c].status \in {"none", "active"}
    PROVE  code[c].sub = None /\ \A t \in Subs : sub[t].code # c
<1>1. code[c].sub \in Subs \cup {None} /\ c # None
  BY IdsAssumption DEF TypeOK, CodeType
<1> QED
  BY <1>1 DEF OneSubscriptionPerCode, UsedBy

\* An activation makes the only subscription with the code, which is used or expired then.
LEMMA ActivateStep ==
    ASSUME IInv, NEW s \in Subs, NEW u \in Users, NEW c \in Codes, ActivateCode(u, c, s)
    PROVE  IInv'
<1>1. code[c] \in CodeType /\ now \in Nat /\ Horizon \in Nat
  BY TimeAssumption DEF IInv, TypeOK
<1>2. PICK created \in {now, now + 1}, activated \in {now, now + 1} :
        /\ activated <= Horizon /\ now' = activated
        /\ Create(s, u, code[c].tier, "active", created + code[c].duration, c)
        /\ code' = [code EXCEPT ![c] = Used(c, u, s, activated)]
  BY DEF ActivateCode
<1>3. code[c].tier \in Tiers /\ created + code[c].duration \in Int /\ now' \in 0..Horizon
  BY <1>1, <1>2 DEF CodeType
<1>4. /\ sub' \in [Subs -> SubType] /\ current' \in [Users -> Subs \cup {None}]
      /\ sub'[s].user = u /\ sub'[s].code = c /\ ~Known(s) /\ Known(s)'
      /\ \A t \in Subs \ {s} : sub'[t] = sub[t]
  BY <1>2, <1>3, Created DEF IInv
<1> DEFINE new == Used(c, u, s, activated)
<1>5. /\ code[c].status = "active" /\ UNCHANGED <<payment, cache>>
      /\ code[c].sub = None /\ \A t \in Subs : sub[t].code # c
  BY ActiveCode DEF ActivateCode, CodeIsValid, IInv
<1>6. /\ new \in CodeType
      /\ \/ new.status = "used" /\ new.user = u /\ new.sub = s
         \/ new.status = "expired" /\ new.sub = None
  BY <1>1, <1>5 DEF Used, CodeType
<1> HIDE DEF new
<1>7. /\ code' \in [Codes -> CodeType] /\ code'[c] = new
      /\ \A d \in Codes \ {c} : code'[d] = code[d]
  BY <1>2, <1>6 DEF IInv, TypeOK, new
<1>8. TypeOK'
  BY <1>3, <1>4, <1>5, <1>7 DEF IInv, TypeOK
<1>9. c # None /\ s # None /\ sub[s].code = None
  BY <1>4, IdsAssumption DEF IInv, UnknownHaveNoCode
<1>10. /\ \A d \in Codes : code[d].sub \in Subs \cup {None} /\ code[d].sub # s
       /\ \A t \in Subs : sub[t].code \in Codes \cup {None}
  <2>1. /\ \A d \in Codes : code[d].sub \in Subs \cup {None}
        /\ \A t \in Subs : sub[t].code \in Codes \cup {None}
    BY DEF IInv, TypeOK, CodeType, SubType
  <2>2. \A d \in Codes : code[d].sub # s
    BY <1>9, IdsAssumption DEF IInv, OneSubscriptionPerCode
  <2> QED
    BY <2>1, <2>2
<1>11. OneSubscriptionPerCode'
  <2>1. UsedBy(c, s)'
    BY <1>4, <1>6, <1>7 DEF UsedBy
  <2>2. ASSUME NEW t \in Subs, t # s, sub'[t].code # None
        PROVE  sub'[t].code # c /\ UsedBy(sub[t].code, t)' /\ sub'[t].code = sub[t].code
    <3>1. sub'[t] = sub[t] /\ sub[t].code # c /\ sub[t].code \in Codes
      BY <1>4, <1>5, <1>10, <2>2
    <3>2. UsedBy(sub[t].code, t) /\ code'[sub[t].code] = code[sub[t].code]
      BY <1>7, <2>2, <3>1 DEF IInv, OneSubscriptionPerCode
    <3> QED
      BY <3>1, <3>2 DEF UsedBy
  <2>3. \A t, r \in Subs : sub'[t].code # None /\ sub'[t].code = sub'[r].code => t = r
    BY <1>4, <2>2 DEF IInv, OneSubscriptionPerCode
  <2>4. \A t \in Subs : sub'[t].code # None => UsedBy(sub[t].code, t)'
    <3> SUFFICES ASSUME NEW t \in Subs, sub'[t].code # None
                 PROVE  UsedBy(sub[t].code, t)'
      OBVIOUS
    <3>1. CASE t = s
      BY <1>4, <2>1, <3>1 DEF UsedBy
    <3>2. CASE t # s
      BY <2>2, <3>2 DEF UsedBy
    <3> QED
      BY <3>1, <3>2
  <2>5. ASSUME NEW d \in Codes, code'[d].sub # None
        PROVE  d = c \/ (sub'[code'[d].sub].code = d /\ UsedBy(d, code[d].sub)')
    <3>1. CASE d # c
      <4>1. code'[d] = code[d] /\ code[d].sub \in Subs \ {s}
        BY <1>7, <1>10, <2>5, <3>1
      <4>2. sub'[code[d].sub] = sub[code[d].sub]
        BY <1>4, <4>1
      <4> QED
        BY <2>5, <4>1, <4>2 DEF IInv, OneSubscriptionPerCode, UsedBy
    <3> QED
      BY <3>1
  <2>6. code'[c].sub # None => code'[c].sub = s
    BY <1>6, <1>7
  <2>7. \A d \in Codes : code'[d].sub # None =>
          d = c \/ (sub'[code'[d].sub].code = d /\ UsedBy(d, code[d].sub)')
    BY <2>5
  <2>8. \A d \in Codes : code'[d].sub # None =>
          sub'[code'[d].sub].code = d /\ UsedBy(d, code[d].sub)'
    BY <1>4, <1>7, <2>1, <2>6, <2>7 DEF UsedBy
  <2> QED
    BY <2>3, <2>4, <2>8 DEF OneSubscriptionPerCode, UsedBy
<1>12. UnknownHaveNoCode'
  BY <1>4 DEF IInv, UnknownHaveNoCode, Known
<1> QED
  BY <1>5, <1>8, <1>11, <1>12 DEF IInv, InvoiceMatchesPayment

-----------------------------------------------------------------------------
\* A new code keeps the types and the use of the codes.
LEMMA CodeMade ==
    ASSUME TypeOK, OneSubscriptionPerCode, NEW c \in Codes, NEW tier \in Tiers,
           NEW duration \in Durations, NewCode(c, tier, duration), UNCHANGED sub
    PROVE  code' \in [Codes -> CodeType] /\ OneSubscriptionPerCode'
<1> DEFINE new == [NoCode EXCEPT !.tier = tier, !.status = "active",
                                 !.duration = duration, !.expires = now + duration]
<1>1. duration \in Int /\ now + duration \in Int
  BY TimeAssumption DEF TypeOK
<1>2. new \in CodeType /\ new.sub = None
  BY <1>1 DEF NoCode, CodeType, Tiers
<1>3. code' = [code EXCEPT ![c] = new]
  BY DEF NewCode
<1> HIDE DEF new
<1>4. /\ code' \in [Codes -> CodeType] /\ code'[c] = new
      /\ \A d \in Codes \ {c} : code'[d] = code[d]
  BY <1>2, <1>3 DEF TypeOK
<1>5. \A t \in Subs : sub[t].code # c /\ sub[t].code \in Codes \cup {None}
  BY ActiveCode DEF NewCode, TypeOK, SubType
<1>6. OneSubscriptionPerCode'
  BY <1>2, <1>4, <1>5, IdsAssumption DEF OneSubscriptionPerCode, UsedBy
<1> QED
  BY <1>4, <1>6

\* A code whose status alone is set, to revoked or when it is unused, keeps the invariant.
LEMMA CodeEnds ==
    ASSUME IInv, NEW c \in Codes, NEW status \in {"expired", "revoked"},
           status = "revoked" \/ code[c].status = "active",
           code' = [code EXCEPT ![c].status = status],
           UNCHANGED <<now, sub, current, payment, cache>>
    PROVE  IInv'
<1> DEFINE new == [code[c] EXCEPT !.status = status]
<1>1. new \in CodeType /\ new.status = status /\ new.user = code[c].user /\ new.sub = code[c].sub
  BY DEF IInv, TypeOK, CodeType
<1>2. code' = [code EXCEPT ![c] = new]
  OBVIOUS
<1> HIDE DEF new
<1>3. /\ code' \in [Codes -> CodeType] /\ code'[c] = new
      /\ \A d \in Codes \ {c} : code'[d] = code[d]
  BY <1>1, <1>2 DEF IInv, TypeOK
<1>4. TypeOK'
  BY <1>3 DEF IInv, TypeOK
<1>5. \A d \in Codes : code'[d].user = code[d].user /\ code'[d].sub = code[d].sub
  BY <1>1, <1>3
<1>6. \/ status = "revoked"
      \/ code[c].sub = None /\ \A t \in Subs : sub[t].code # c
  BY ActiveCode DEF IInv
<1>7. /\ \A t \in Subs : sub[t].code \in Codes \cup {None}
      /\ \A d \in Codes : code[d].sub \in Subs \cup {None}
  BY DEF IInv, TypeOK, SubType, CodeType
<1>8. \A d \in Codes, t \in Subs :
        UsedBy(d, t) /\ (d = c => status = "revoked") => UsedBy(d, t)'
  BY <1>1, <1>3, <1>5 DEF UsedBy
<1>9. OneSubscriptionPerCode'
  <2>1. \A t \in Subs : sub[t].code # None => UsedBy(sub[t].code, t)'
    BY <1>6, <1>7, <1>8 DEF IInv, OneSubscriptionPerCode
  <2>2. \A d \in Codes : code[d].sub # None =>
          sub[code[d].sub].code = d /\ UsedBy(d, code[d].sub)'
    BY <1>6, <1>7, <1>8 DEF IInv, OneSubscriptionPerCode
  <2> QED
    BY <1>5, <2>1, <2>2 DEF IInv, OneSubscriptionPerCode, UsedBy
<1> QED
  BY <1>4, <1>9 DEF IInv, InvoiceMatchesPayment, UnknownHaveNoCode, Known

-----------------------------------------------------------------------------
\* The statuses a payment and its invoice may have together.
Agree(status, invoice) ==
    \/ invoice = "cancelled"
    \/ <<status, invoice>> \in
        {<<"none", "none">>, <<"pending", "pending">>, <<"succeeded", "paid">>, <<"refunded", "refunded">>}

\* A payment that is replaced by one that agrees with its invoice keeps types and agreement.
LEMMA PaymentChanged ==
    ASSUME TypeOK, InvoiceMatchesPayment, NEW p \in Payments, NEW new \in PaymentType,
           Agree(new.status, new.invoice), payment' = [payment EXCEPT ![p] = new]
    PROVE  payment' \in [Payments -> PaymentType] /\ InvoiceMatchesPayment'
<1>1. /\ payment' \in [Payments -> PaymentType] /\ payment'[p] = new
      /\ \A q \in Payments \ {p} : payment'[q] = payment[q]
  BY DEF TypeOK
<1> QED
  BY <1>1 DEF InvoiceMatchesPayment, Agree

\* Creating a payment with its code and invoice keeps the invariant.
LEMMA CreatePaymentStep ==
    ASSUME IInv, NEW p \in Payments, NEW s \in Subs, NEW c \in Codes,
           NEW duration \in Durations, CreatePayment(p, s, c, duration)
    PROVE  IInv'
<1> DEFINE new == [status |-> "pending", invoice |-> "pending", sub |-> s, code |-> c]
<1>1. new \in PaymentType /\ Agree(new.status, new.invoice)
  BY DEF PaymentType, Agree
<1>2. payment' = [payment EXCEPT ![p] = new] /\ UNCHANGED <<now, sub, current, cache>>
  BY DEF CreatePayment
<1> HIDE DEF new
<1>3. payment' \in [Payments -> PaymentType] /\ InvoiceMatchesPayment'
  BY <1>1, <1>2, PaymentChanged DEF IInv
<1>4. sub[s].tier \in Tiers /\ NewCode(c, sub[s].tier, duration)
  BY DEF CreatePayment, IInv, TypeOK, SubType
<1>5. code' \in [Codes -> CodeType] /\ OneSubscriptionPerCode'
  BY <1>2, <1>4, CodeMade DEF IInv
<1> QED
  BY <1>2, <1>3, <1>5 DEF IInv, TypeOK, UnknownHaveNoCode, Known

\* Processing, refunding and cancelling keep the invariant.
LEMMA PaymentSteps ==
    ASSUME IInv, NEW p \in Payments, ProcessPayment(p) \/ RefundPayment(p) \/ CancelInvoice(p)
    PROVE  IInv'
<1>0. payment[p] \in PaymentType
  BY DEF IInv, TypeOK
<1>1. PICK new \in PaymentType :
        Agree(new.status, new.invoice) /\ payment' = [payment EXCEPT ![p] = new]
  <2>1. CASE ProcessPayment(p)
    <3> DEFINE n == [payment[p] EXCEPT !.status = "succeeded", !.invoice = "paid"]
    <3>1. n \in PaymentType /\ Agree(n.status, n.invoice)
      BY <1>0 DEF PaymentType, Agree
    <3> QED
      BY <2>1, <3>1 DEF ProcessPayment
  <2>2. CASE RefundPayment(p)
    <3> DEFINE n == [payment[p] EXCEPT !.status = "refunded", !.invoice = "refunded"]
    <3>1. n \in PaymentType /\ Agree(n.status, n.invoice)
      BY <1>0 DEF PaymentType, Agree
    <3> QED
      BY <2>2, <3>1 DEF RefundPayment
  <2>3. CASE CancelInvoice(p)
    <3> DEFINE n == [payment[p] EXCEPT !.invoice = "cancelled"]
    <3>1. n \in PaymentType /\ Agree(n.status, n.invoice)
      BY <1>0 DEF PaymentType, Agree
    <3> QED
      BY <2>3, <3>1 DEF CancelInvoice
  <2> QED
    BY <2>1, <2>2, <2>3
<1>2. payment' \in [Payments -> PaymentType] /\ InvoiceMatchesPayment'
  BY <1>1, PaymentChanged DEF IInv
<1>3. /\ sub' \in [Subs -> SubType]
      /\ \A t \in Subs : sub'[t].user = sub[t].user /\ sub'[t].code = sub[t].code
      /\ \A t \in Subs : Known(t) => Known(t)'
  <2>1. CASE ProcessPayment(p)
    <3> DEFINE s == payment[p].sub
    <3>1. sub' = [sub EXCEPT ![s].status = "active"]
      BY <2>1 DEF ProcessPayment
    <3> HIDE DEF s
    <3>2. \A t \in Subs : sub[t] \in SubType
      BY DEF IInv, TypeOK
    <3> QED
      BY <3>1, <3>2 DEF IInv, TypeOK, SubType, Known
  <2>2. CASE RefundPayment(p) \/ CancelInvoice(p)
    BY <2>2 DEF RefundPayment, CancelInvoice, IInv, TypeOK, Known
  <2> QED
    BY <2>1, <2>2
<1>4. UNCHANGED <<now, current, code, cache>>
  BY DEF ProcessPayment, RefundPayment, CancelInvoice
<1>5. TypeOK'
  BY <1>2, <1>3, <1>4 DEF IInv, TypeOK
<1>6. OneSubscriptionPerCode'
  BY <1>3, <1>4, SameCodes DEF IInv
<1> QED
  BY <1>2, <1>3, <1>5, <1>6 DEF IInv, UnknownHaveNoCode

-----------------------------------------------------------------------------
\* The licence cache and the clock are no part of what the invariant relates.
LEMMA CacheAndClock ==
    ASSUME IInv, Tick \/ \E u \in Users : HasFeatureAccess(u) \/ ClearCache(u)
    PROVE  IInv'
<1>1. UNCHANGED <<sub, current, code, payment>>
  BY DEF Tick, HasFeatureAccess, ClearCache
<1>2. now' \in 0..Horizon
  BY TimeAssumption DEF Tick, HasFeatureAccess, ClearCache, IInv, TypeOK
<1>3. cache' \in [Users -> [cached : BOOLEAN, hasAccess : BOOLEAN, at : Int]]
  <2> DEFINE Entry == [cached : BOOLEAN, hasAccess : BOOLEAN, at : Int]
  <2>1. now \in Int /\ cache \in [Users -> Entry]
    BY TimeAssumption DEF IInv, TypeOK
  <2>2. \A u \in Users : HasAccess(u) \in BOOLEAN
    BY Zenon DEF HasAccess
  <2>3. \A u \in Users, e \in Entry : [cache EXCEPT ![u] = e] \in [Users -> Entry]
    BY <2>1, Zenon
  <2>4. ASSUME NEW u \in Users, HasFeatureAccess(u) PROVE cache' \in [Users -> Entry]
    <3>1. [cached |-> TRUE, hasAccess |-> HasAccess(u), at |-> now] \in Entry
      BY <2>1, <2>2, Zenon
    <3> QED
      BY <2>3, <2>4, <3>1, Zenon DEF HasFeatureAccess
  <2>5. ASSUME NEW u \in Users, ClearCache(u) PROVE cache' \in [Users -> Entry]
    <3>1. NoEntry \in Entry
      BY DEF NoEntry
    <3> QED
      BY <2>3, <2>5, <3>1, Zenon DEF ClearCache
  <2>6. CASE Tick
    BY <2>1, <2>6 DEF Tick
  <2> QED
    BY <2>4, <2>5, <2>6
<1>4. TypeOK'
  BY <1>1, <1>2, <1>3 DEF IInv, TypeOK
<1>5. OneSubscriptionPerCode'
  BY <1>1, SameCodes DEF IInv
<1> QED
  BY <1>1, <1>4, <1>5 DEF IInv, InvoiceMatchesPayment, UnknownHaveNoCode, Known

\* The invariant holds initially.
LEMMA InitIInv == Init => IInv
BY IdsAssumption, TimeAssumption
   DEF Init, IInv, TypeOK, OneSubscriptionPerCode, InvoiceMatchesPayment, UnknownHaveNoCode,
       NoSub, NoCode, NoPayment, NoEntry, SubType, CodeType, PaymentType, Tiers

\* Every step keeps it.
LEMMA StepIInv == IInv /\ [Next]_vars => IInv'
<1> SUFFICES ASSUME IInv, [Next]_vars PROVE IInv'
  OBVIOUS
<1>1. ASSUME NEW s \in Subs, Start(s) PROVE IInv'
  BY <1>1, SubscribeStep, ActivateStep DEF Start, Tiers
<1>2. ASSUME NEW s \in Subs, SubscriptionOperation(s) PROVE IInv'
  <2>1. CASE \E duration \in Durations : Renew(s, duration)
    BY <2>1, Renewed
  <2>2. CASE ChangeTier(s)
    <3> DEFINE new == [sub[s] EXCEPT !.tier = IF @ = Free THEN Paid ELSE Free]
    <3>1. /\ new \in SubType /\ new.user = sub[s].user /\ new.code = sub[s].code
          /\ new.status # "none"
      BY <2>2 DEF IInv, TypeOK, SubType, Tiers, ChangeTier, Known
    <3> QED
      BY <2>2, <3>1, SubscriptionChanged DEF ChangeTier
  <2>3. CASE CancelSubscription(s) \/ Suspend(s) \/ ActivateSubscription(s)
    BY <2>3, StatusChanged DEF CancelSubscription, Suspend, ActivateSubscription
  <2>4. CASE Reactivate(s)
    BY <2>4, StatusChanged, Renewed DEF Reactivate
  <2> QED
    BY <1>2, <2>1, <2>2, <2>3, <2>4 DEF SubscriptionOperation
<1>3. ASSUME NEW c \in Codes, CodeOperation(c) PROVE IInv'
  <2>1. CASE CodeExpires(c)
    BY <2>1, CodeEnds DEF CodeExpires
  <2>2. CASE RevokeCode(c)
    BY <2>2, CodeEnds DEF RevokeCode
  <2>3. CASE \E tier \in {Free, Paid}, duration \in Durations : GenerateCode(c, tier, duration)
    <3>1. code' \in [Codes -> CodeType] /\ OneSubscriptionPerCode'
      BY <2>3, CodeMade DEF GenerateCode, IInv, Tiers
    <3>2. UNCHANGED <<now, sub, current, payment, cache>>
      BY <2>3 DEF GenerateCode
    <3> QED
      BY <3>1, <3>2 DEF IInv, TypeOK, InvoiceMatchesPayment, UnknownHaveNoCode, Known
  <2> QED
    BY <1>3, <2>1, <2>2, <2>3 DEF CodeOperation
<1>4. ASSUME NEW p \in Payments, PaymentOperation(p) PROVE IInv'
  BY <1>4, CreatePaymentStep, PaymentSteps DEF PaymentOperation
<1>5. CASE UNCHANGED vars
  <2>1. UNCHANGED <<now, sub, current, code, payment, cache>>
    BY <1>5 DEF vars
  <2>2. OneSubscriptionPerCode'
    BY <2>1, SameCodes DEF IInv
  <2> QED
    BY <2>1, <2>2 DEF IInv, TypeOK, InvoiceMatchesPayment, UnknownHaveNoCode, Known
<1> QED
  BY <1>1, <1>2, <1>3, <1>4, <1>5, CacheAndClock DEF Next

-----------------------------------------------------------------------------
\* The inductive invariant holds in every reachable state.
THEOREM SubscriptionsInvariance == Spec => []IInv
BY InitIInv, StepIInv, PTL DEF Spec

\* The managers' tables keep their types.
THEOREM SubscriptionTypes == Spec => []TypeOK
<1>1. IInv => TypeOK
  BY DEF IInv
<1> QED
  BY <1>1, SubscriptionsInvariance, PTL

\* In whatever order requests come, and even if it expires in the midst of its own
\* activation, a code starts one subscription, of the user it names, and no other.
THEOREM CodesStartOneSubscription == Spec => []OneSubscriptionPerCode
<1>1. IInv => OneSubscriptionPerCode
  BY DEF IInv
<1> QED
  BY <1>1, SubscriptionsInvariance, PTL

\* However often they are processed, payments and invoices agree.
THEOREM InvoicesMatchPayments == Spec => []InvoiceMatchesPayment
<1>1. IInv => InvoiceMatchesPayment
  BY DEF IInv
<1> QED
  BY <1>1, SubscriptionsInvariance, PTL
=============================================================================
