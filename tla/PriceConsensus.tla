---------------------------- MODULE PriceConsensus ----------------------------
(***************************************************************************)
(* ConsensusAggregator of enhanced_realtime_engine.py for one symbol: the  *)
(* latest quote of each source, and the price that is formed of them at    *)
(* each tick.  The scores of the sources, which depend on latencies and    *)
(* health, decide whose timestamp the price bears: any fresh source can    *)
(* come out in the middle; equal scores end the forming with an error,     *)
(* since quotes cannot be compared.  Without a Redis URL, the default, a   *)
(* tick is processed in one step.                                          *)
(***************************************************************************)
EXTENDS Integers, Sequences, FiniteSetsExt

CONSTANTS
    Sources,
    Quotes,         \* records: bid, ask
    Threshold,      \* consensus_threshold in percent
    Second          \* the age at which a quote is stale; older is not told apart

VARIABLES
    latest,         \* latest_ticks: quote and age of each source
    consensus       \* consensus_prices: bid, ask, age when formed, of one source or of several

priceVars == <<latest, consensus>>

PriceConstants ==
    /\ IsFiniteSet(Sources) /\ Quotes \subseteq [bid : Nat, ask : Nat]
    /\ Threshold \in Nat /\ Second \in Nat

NoQuote == [bid |-> 0, ask |-> 0, age |-> 0]
NoPrice == [bid |-> 0, ask |-> 0, age |-> 0, source |-> "none"]

Init == latest = [s \in Sources |-> NoQuote] /\ consensus = NoPrice

-----------------------------------------------------------------------------
(* latest_ticks is given as a parameter: the price is formed of the ticks  *)
(* with the new one among them.                                            *)
Known(ticks) == {s \in Sources : ticks[s] # NoQuote}

Fresh_AnyAge(ticks) == Known(ticks)
Fresh(ticks) == {s \in Known(ticks) : ticks[s].age < Second}

Mid(quote) == quote.bid + quote.ask     \* twice the mid price

(* Four times the lower (q = 1) and the upper (q = 3) quartile, between    *)
(* the two values nearest to it.                                           *)
Quartile(values, q) ==
    LET at == q * (Len(values) - 1)
        i == at \div 4
        rest == at % 4
    IN  4 * values[i + 1] + (IF rest = 0 THEN 0 ELSE rest * (values[i + 2] - values[i + 1]))

(* Sources by their mid prices, which may be equal.                        *)
ByMid(ticks, sources) ==
    CHOOSE order \in Bijection(1..Cardinality(sources), sources) :
        \A i, j \in DOMAIN order : i < j => Mid(ticks[order[i]]) <= Mid(ticks[order[j]])

(* A mid price within the quartiles and one and a half times their range.  *)
Within(mid, low, high) ==
    2 * low - 3 * (high - low) <= 8 * mid /\ 8 * mid <= 2 * high + 3 * (high - low)

(* Of three sources and more, those that are no outliers.                  *)
Accepted(ticks, fresh) ==
    LET order == ByMid(ticks, fresh)
        mids == [i \in DOMAIN order |-> Mid(ticks[order[i]])]
    IN  IF Cardinality(fresh) < 3 THEN fresh
        ELSE {s \in fresh : Within(Mid(ticks[s]), Quartile(mids, 1), Quartile(mids, 3))}

BestBid_Lowest(ticks, accepted) == Min({ticks[s].bid : s \in accepted})
BestBid(ticks, accepted) == Max({ticks[s].bid : s \in accepted})
BestAsk(ticks, accepted) == Min({ticks[s].ask : s \in accepted})

(* The prices _form_consensus may return: none when too few of the sources *)
(* are fresh, when two scores are equal, or when the best bid and ask do   *)
(* not make a quote, which the constructor of MarketTick refuses.          *)
Formed(ticks) ==
    LET known == Known(ticks)
        fresh == Fresh(ticks)
        accepted == Accepted(ticks, fresh)
    IN  IF Cardinality(known) = 1
        THEN {[bid |-> ticks[s].bid, ask |-> ticks[s].ask, age |-> ticks[s].age, source |-> "one"] :
                s \in known}
        ELSE IF \/ 100 * Cardinality(fresh) < Threshold * Cardinality(known)
                \/ BestBid(ticks, accepted) >= BestAsk(ticks, accepted)
        THEN {}
        ELSE {[bid |-> BestBid(ticks, accepted), ask |-> BestAsk(ticks, accepted),
               age |-> ticks[s].age, source |-> "several"] : s \in accepted}

(* _process_tick: a tick of any age arrives.                               *)
ProcessTick(s, quote, age) ==
    /\ latest' = [latest EXCEPT ![s] = [bid |-> quote.bid, ask |-> quote.ask, age |-> age]]
    /\ \/ consensus' \in Formed(latest')
       \/ Formed(latest') = {} /\ UNCHANGED consensus
       \/ Cardinality(Fresh(latest')) > 1 /\ UNCHANGED consensus   \* equal scores

(* Time passes for all quotes that are kept.                               *)
Tick ==
    /\ \E s \in Known(latest) : latest[s].age < Second
    /\ latest' = [s \in Sources |->
         IF s \in Fresh(latest) THEN [latest[s] EXCEPT !.age = @ + 1] ELSE latest[s]]
    /\ UNCHANGED consensus

Next ==
    \/ \E s \in Sources, quote \in Quotes, age \in 0..Second : ProcessTick(s, quote, age)
    \/ Tick

Spec == Init /\ [][Next]_priceVars

-----------------------------------------------------------------------------
TypeOK ==
    /\ latest \in [Sources -> [bid : Nat, ask : Nat, age : 0..Second]]
    /\ consensus \in [bid : Nat, ask : Nat, age : 0..Second,
                      source : {"none", "one", "several"}]

(* A price formed of several sources is of this second, and lies within    *)
(* the quotes of all fresh sources, of which three at least if there are   *)
(* more: no source moves it to where the others would not trade.           *)
PricesAreShared ==
    [][consensus' # consensus /\ consensus'.source = "several" =>
         LET fresh == Fresh(latest')
             within == {s \in fresh : /\ latest'[s].bid <= consensus'.bid
                                      /\ consensus'.ask <= latest'[s].ask}
         IN  /\ consensus'.bid < consensus'.ask /\ consensus'.age < Second
             /\ Cardinality(within) >= Min({3, Cardinality(fresh)})]_priceVars

-----------------------------------------------------------------------------
(* "Byzantine fault-tolerant consensus pricing" says the docstring.        *)

(* One of three sources that is silent for a second ends it: two are less  *)
(* than 67 percent of three.                                               *)
SilentSourceIsTolerated ==
    /\ Cardinality(Fresh(latest)) >= 2
    /\ BestBid(latest, Fresh(latest)) < BestAsk(latest, Fresh(latest))
    => Formed(latest) # {}

(* So does one whose quote does not overlap the others': of three sources  *)
(* none is ever taken for an outlier.                                      *)
DissentIsOutvoted ==
    \A d \in Fresh(latest) :
        LET others == Fresh(latest) \ {d}
        IN  /\ Known(latest) = Fresh(latest) /\ Cardinality(others) >= 2
            /\ BestBid(latest, others) < BestAsk(latest, others)
            => Formed(latest) # {}
=============================================================================
