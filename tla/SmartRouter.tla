------------------------------ MODULE SmartRouter ------------------------------
(***************************************************************************)
(* SmartOrderRouter of brokers/smart_router.py: execute_with_fallback asks *)
(* every broker for a ping, ranks them and sends the order to the best,    *)
(* then to two others as long as a request fails or is given up after five *)
(* seconds.  A request that was given up may still reach its venue, and    *)
(* what a venue took may be answered with an error.  Latencies, fills and  *)
(* costs decide the ranks: any order of the brokers can come out.          *)
(***************************************************************************)
EXTENDS Integers, Sequences, FiniteSets, Functions

CONSTANTS
    Routed,     \* orders to be routed
    Brokers

VARIABLES
    registered, \* brokers
    place,      \* where execute_with_fallback is
    asking,     \* brokers pinged so far, the one awaited included, and how many there were
    plan,       \* the brokers still to be tried
    requests    \* of each order: broker, what the venue did, what the router made of it

routerVars == <<registered, place, asking, plan, requests>>

Request(b) == [broker |-> b, venue |-> "sent", outcome |-> "waits"]

Init ==
    /\ registered = {}
    /\ place = [o \in Routed |-> "new"]
    /\ asking = [o \in Routed |-> [asked |-> 0, size |-> 0]]
    /\ plan = [o \in Routed |-> <<>>]
    /\ requests = [o \in Routed |-> <<>>]

AddBroker(b) ==
    /\ b \notin registered
    /\ registered' = registered \cup {b}
    /\ UNCHANGED <<place, asking, plan, requests>>

-----------------------------------------------------------------------------
(* Without any broker there is no best one.                                *)
Route(o) ==
    /\ place[o] = "new"
    /\ IF registered = {}
       THEN /\ place' = [place EXCEPT ![o] = "failed"]
            /\ UNCHANGED asking
       ELSE /\ place' = [place EXCEPT ![o] = "pinging"]
            /\ asking' = [asking EXCEPT ![o] = [asked |-> 1, size |-> Cardinality(registered)]]
    /\ UNCHANGED <<registered, plan, requests>>

(* The best broker and two alternatives. *)
AtMostThree(n) == IF n < 3 THEN n ELSE 3

Ranks == {r \in [1..AtMostThree(Cardinality(registered)) -> registered] : IsInjective(r)}

(* The request goes to the first broker of the ranks.                      *)
Sends(o, ranks) ==
    /\ requests' = [requests EXCEPT ![o] = Append(@, Request(Head(ranks)))]
    /\ plan' = [plan EXCEPT ![o] = Tail(ranks)]
    /\ place' = [place EXCEPT ![o] = "placing"]

(* A ping is answered or fails; it has no timeout.  The loop over the      *)
(* brokers ends with an error when one was added meanwhile.                *)
PingEnds(o) ==
    /\ place[o] = "pinging"
    /\ \/ /\ Cardinality(registered) # asking[o].size
          /\ place' = [place EXCEPT ![o] = "failed"]
          /\ UNCHANGED <<asking, plan, requests>>
       \/ /\ Cardinality(registered) = asking[o].size
          /\ asking[o].asked < asking[o].size
          /\ asking' = [asking EXCEPT ![o].asked = @ + 1]
          /\ UNCHANGED <<place, plan, requests>>
       \/ /\ Cardinality(registered) = asking[o].size
          /\ asking[o].asked = asking[o].size
          /\ \E ranks \in Ranks : Sends(o, ranks)
          /\ UNCHANGED asking
    /\ UNCHANGED registered

(* A venue takes a request or refuses it, late perhaps.                    *)
VenueActs(o, i, does) ==
    /\ requests[o][i].venue = "sent"
    /\ requests' = [requests EXCEPT ![o][i].venue = does]
    /\ UNCHANGED <<registered, place, asking, plan>>

Current(o) == requests[o][Len(requests[o])]
Outcome(o, outcome) == [requests EXCEPT ![o][Len(requests[o])].outcome = outcome]

(* The venue's answer, a refusal too unless it is an error, is the result. *)
Answered(o) ==
    /\ place[o] = "placing" /\ Current(o).venue # "sent"
    /\ requests' = Outcome(o, "answered")
    /\ place' = [place EXCEPT ![o] = "answered"]
    /\ UNCHANGED <<registered, asking, plan>>

Remaining(o) == plan[o]

(* An error, after five seconds at the latest, with or without an effect:  *)
(* the next broker is tried.                                               *)
RequestFails(o) ==
    /\ place[o] = "placing"
    /\ LET failed == Outcome(o, IF Current(o).venue = "refused" THEN "refused" ELSE "abandoned")
       IN  IF Remaining(o) = <<>>
           THEN /\ requests' = failed
                /\ place' = [place EXCEPT ![o] = "failed"]
                /\ UNCHANGED plan
           ELSE /\ requests' = [failed EXCEPT ![o] = Append(@, Request(Head(Remaining(o))))]
                /\ plan' = [plan EXCEPT ![o] = Tail(Remaining(o))]
                /\ UNCHANGED place
    /\ UNCHANGED <<registered, asking>>

Next ==
    \/ \E b \in Brokers : AddBroker(b)
    \/ \E o \in Routed : Route(o) \/ PingEnds(o) \/ Answered(o) \/ RequestFails(o)
    \/ \E o \in Routed : \E i \in DOMAIN requests[o], does \in {"taken", "refused"} :
           VenueActs(o, i, does)

(* A request ends after its timeout at the latest; nothing ends a ping.    *)
Fairness == \A o \in Routed : WF_routerVars(Answered(o) \/ RequestFails(o))

Spec == Init /\ [][Next]_routerVars /\ Fairness

-----------------------------------------------------------------------------
Requests ==
    [broker : Brokers, venue : {"sent", "taken", "refused"},
     outcome : {"waits", "answered", "refused", "abandoned"}]

TypeOK ==
    /\ registered \subseteq Brokers
    /\ place \in [Routed -> {"new", "pinging", "placing", "answered", "failed"}]
    /\ asking \in [Routed -> [asked : Nat, size : Nat]]
    /\ plan \in [Routed -> Seq(Brokers)]
    /\ requests \in [Routed -> Seq(Requests)]

With(o, outcomes) == {i \in DOMAIN requests[o] : requests[o][i].outcome \in outcomes}

(* However late venues act, an order is asked of three at most and of none *)
(* twice, stands at no more of them than one and one for each request that *)
(* was given up, and fails only when every one of them failed.             *)
OrdersAreContained ==
    \A o \in Routed :
        LET tried == {requests[o][i].broker : i \in DOMAIN requests[o]}
            standing == {i \in DOMAIN requests[o] : requests[o][i].venue = "taken"}
        IN  /\ Len(requests[o]) = Cardinality(tried) /\ Cardinality(tried) <= 3
            /\ Cardinality(standing \ With(o, {"abandoned"})) <= 1
            /\ place[o] = "answered" =>
                 With(o, {"answered"}) = {Len(requests[o])} /\ Current(o).venue # "sent"
            /\ place[o] = "failed" /\ requests[o] # <<>> =>
                 /\ With(o, {"refused", "abandoned"}) = DOMAIN requests[o]
                 /\ Len(requests[o]) = AtMostThree(asking[o].size)

(* Inductive, of an order with these requests and brokers still to be      *)
(* tried: no broker is in either twice or in both, every request but the   *)
(* last has failed, and one that counts as refused was refused.            *)
AskedOnce(toTry, asked) ==
    /\ \A i, j \in DOMAIN asked : asked[i].broker = asked[j].broker => i = j
    /\ \A i, j \in DOMAIN toTry : toTry[i] = toTry[j] => i = j
    /\ \A i \in DOMAIN asked, j \in DOMAIN toTry : asked[i].broker # toTry[j]

Contained(at, size, toTry, asked) ==
    /\ AskedOnce(toTry, asked)
    /\ \A i \in DOMAIN asked : asked[i].outcome = "refused" => asked[i].venue = "refused"
    /\ \A i \in DOMAIN asked : i < Len(asked) => asked[i].outcome \in {"refused", "abandoned"}
    /\ asked # <<>> => Len(asked) + Len(toTry) = AtMostThree(size)
    /\ at = "new" => asked = <<>>
    /\ at = "pinging" => asked = <<>> /\ size > 0
    /\ at = "placing" => asked # <<>> /\ asked[Len(asked)].outcome = "waits"
    /\ at = "answered" =>
         /\ asked # <<>> /\ asked[Len(asked)].outcome = "answered"
         /\ asked[Len(asked)].venue # "sent"
    /\ at = "failed" /\ asked # <<>> =>
         /\ asked[Len(asked)].outcome \in {"refused", "abandoned"}
         /\ toTry = <<>>

IInv ==
    /\ TypeOK /\ IsFiniteSet(registered)
    /\ \A o \in Routed : Contained(place[o], asking[o].size, plan[o], requests[o])

(* An order that was sent comes to its end.                                *)
PlacingEnds == \A o \in Routed : place[o] = "placing" ~> place[o] \in {"answered", "failed"}

-----------------------------------------------------------------------------
(* "Ensures execution even if primary broker fails" says the docstring.    *)

(* The order stands at two venues when a request that was given up arrives. *)
StandsOnce ==
    \A o \in Routed :
        Cardinality({i \in DOMAIN requests[o] : requests[o][i].venue = "taken"}) <= 1

(* A refusal that is no error is not tried elsewhere.                      *)
RefusedGoesOn ==
    \A o \in Routed : place[o] = "answered" /\ Current(o).venue = "refused" => plan[o] = <<>>

(* A broker that does not answer its ping holds up every order.            *)
RoutingEnds == \A o \in Routed : place[o] = "pinging" ~> place[o] # "pinging"

(* An order fails before any request when a broker is added.               *)
FailedWasTried ==
    \A o \in Routed : place[o] = "failed" /\ asking[o].size > 0 => requests[o] # <<>>
=============================================================================
