---------------------------- MODULE MC_UserServices ----------------------------
(* UserServices for TLC: the instances of its parts. *)
EXTENDS UserServices

CONSTANTS u1, u2, u3, n1, n2, n3, q1, q2, q3, q4, w1, w2, h1, h2

\* Months of three days, of which the limit allows two.
MCKyc == [levels |-> {1, 2}, month |-> 3, worth |-> 2, last |-> 5, failures |-> 0]

\* A follower may lose a fifth, and 2 in each of two trades.
MCCopying ==
    [trades |-> 2, drawdown |-> 5, loss |-> 2, gain |-> 1, ceiling |-> 12, subscriptions |-> 2]

\* The second level is reached by one referral with a revenue of 2.
MCCommission ==
    [levels |-> <<[rate |-> 1, referrals |-> 0, revenue |-> 0],
                  [rate |-> 2, referrals |-> 1, revenue |-> 2]>>,
     payout |-> 2]

\* A crossing, a level whose template does not fit, and two conditions together.
MCDefinitions ==
    {[conditions |-> {"cross_above"}, all |-> TRUE, max |-> 0, cooldown |-> 1, expires |-> 0,
      fits |-> TRUE],
     [conditions |-> {"above"}, all |-> TRUE, max |-> 1, cooldown |-> 0, expires |-> 0,
      fits |-> FALSE],
     [conditions |-> {"change", "below"}, all |-> FALSE, max |-> 2, cooldown |-> 2, expires |-> 2,
      fits |-> TRUE]}

MCWatch == [prices |-> {1, 2}, threshold |-> 1, minutes |-> 2, triggers |-> 3]

\* A team of two at most, for which three users have invitations.
MCCrew ==
    [users |-> {u1, u2, u3}, owner |-> u1, invitations |-> {n1, n2, n3}, members |-> 2]

\* Four prices for two levels: two can be left out and come back.
MCDepth == [ranks |-> 1..4, volumes |-> {1, 2}, levels |-> 2, snapshots |-> 2]

\* Two bars are kept of four, which two appenders may write at once.
MCStored == [appenders |-> {w1, w2}, size |-> 2, bars |-> 4, gets |-> 2]

\* Quotes that overlap, and one apart; of four sources one can be an outlier.
MCFeeds ==
    [sources |-> {q1, q2, q3, q4}, threshold |-> 67, second |-> 1,
     quotes |-> {[bid |-> 1, ask |-> 4], [bid |-> 2, ask |-> 3], [bid |-> 6, ask |-> 9]}]

\* A strategy of each regime, the second registered as one of the old kind too.
MCSuitable == [trending |-> {"trend"}, ranging |-> {"reversion"}]
MCBuilds == {<<"trend", "enhanced">>, <<"reversion", "enhanced">>, <<"reversion", "adapted">>}
=============================================================================
