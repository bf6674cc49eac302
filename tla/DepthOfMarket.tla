---------------------------- MODULE DepthOfMarket -----------------------------
(***************************************************************************)
(* One symbol's book in DepthOfMarketService of data/depth_of_market.py: a *)
(* feed sends snapshots and changes of single levels, the service keeps    *)
(* the best max_levels of each side and the snapshots it was sent.  Bids   *)
(* and asks are kept by the same code, one from the highest price down,    *)
(* the other from the lowest up: a side is modelled with prices counted    *)
(* from its best.  Every method holds the lock.                            *)
(***************************************************************************)
EXTENDS Integers, Sequences, FiniteSets

CONSTANTS
    Ranks,          \* prices of a side, 1 the best there may be
    Volumes,
    MaxLevels,      \* max_levels
    HistorySize     \* history_size

VARIABLES
    book,           \* levels of the side as the service has them
    history,        \* the snapshots in _history; the newest is the book itself, none: no symbol
    feed,           \* ghost: what the feed has told of the side, a volume for each price
    dropped         \* ghost: a level was left out since the snapshot

depthVars == <<book, history, feed, dropped>>

DepthConstants ==
    /\ MaxLevels \in Nat \ {0} /\ HistorySize \in Nat \ {0}
    /\ Ranks \subseteq Nat /\ IsFiniteSet(Ranks) /\ Volumes \subseteq Nat \ {0}

Level == [price : Ranks, size : Volumes]
Empty == [r \in Ranks |-> 0]

(* Levels with the best first; no two of them have one price. *)
Sorted(levels) ==
    \A i, j \in DOMAIN levels : i < j => levels[i].price < levels[j].price

BestFirst(levels) == CHOOSE s \in [1..Cardinality(levels) -> levels] : Sorted(s)

(* The levels of a side. *)
Told(volume) == {l \in Level : volume[l.price] = l.size}

Ladder(volume) == BestFirst(Told(volume))

Init == book = <<>> /\ history = <<>> /\ feed = Empty /\ dropped = FALSE

(* The book that is in the history is the one that changes. *)
InHistory(levels) == [history EXCEPT ![Len(history)] = levels]

Capped(levels) == IF Len(levels) > MaxLevels THEN SubSeq(levels, 1, MaxLevels) ELSE levels

(* A snapshot: the levels of a side as the venue orders them, best first.   *)
UpdateOrderBook(volume) ==
    /\ book' = Capped(Ladder(volume))
    /\ history' = LET all == Append(history, book')
                  IN  IF Len(all) > HistorySize THEN Tail(all) ELSE all
    /\ feed' = volume
    /\ dropped' = (Len(Ladder(volume)) > MaxLevels)

Place(r) == CHOOSE i \in DOMAIN book : book[i].price = r

Without(i) == SubSeq(book, 1, i - 1) \o SubSeq(book, i + 1, Len(book))

(* A level whose price is in the book is changed, or taken out.            *)
Changed(r, size) ==
    IF size = 0 THEN Without(Place(r)) ELSE [book EXCEPT ![Place(r)].size = size]

Inserted_AtTheEnd(r, size) == Capped(Append(book, [price |-> r, size |-> size]))

(* Any other is put in its place, and the last level of too many goes.     *)
Inserted(r, size) ==
    Capped(BestFirst({book[i] : i \in DOMAIN book} \cup {[price |-> r, size |-> size]}))

UpdateLevel(r, size) ==
    /\ history # <<>>
    /\ book' = IF \E i \in DOMAIN book : book[i].price = r THEN Changed(r, size)
               ELSE IF size > 0 THEN Inserted(r, size)
               ELSE book
    /\ history' = InHistory(book')
    /\ feed' = [feed EXCEPT ![r] = size]
    /\ dropped' = (dropped \/ (size > 0 /\ Len(book) = MaxLevels /\ Len(book') = MaxLevels
                               /\ \A i \in DOMAIN book : book[i].price # r))

ClearSymbol == book' = <<>> /\ history' = <<>> /\ feed' = Empty /\ dropped' = FALSE

Next ==
    \/ \E volume \in [Ranks -> {0} \cup Volumes] : UpdateOrderBook(volume)
    \/ \E r \in Ranks, size \in {0} \cup Volumes : UpdateLevel(r, size)
    \/ ClearSymbol

Spec == Init /\ [][Next]_depthVars

-----------------------------------------------------------------------------
TypeOK ==
    /\ book \in Seq(Level) /\ feed \in [Ranks -> {0} \cup Volumes]
    /\ history \in Seq(Seq(Level)) /\ dropped \in BOOLEAN

(* After any changes the levels are sorted and no more than allowed, each  *)
(* is one the feed has told, with its present volume, and as long as none  *)
(* had to be left out none is missing: the best price is the feed's.       *)
LadderIsTrue ==
    history # <<>> =>
        /\ Len(book) <= MaxLevels
        /\ \A i \in DOMAIN book : feed[book[i].price] = book[i].size
        /\ Sorted(book)
        /\ ~dropped => book = Ladder(feed)
        /\ history[Len(history)] = book

-----------------------------------------------------------------------------
(* What the docstrings promise and the code does not do. *)

(* "Get the best bid and ask": a level that was left out is not found      *)
(* again when those before it are gone.                                    *)
BestIsTheFeeds ==
    history # <<>> /\ Ladder(feed) # <<>> => book # <<>> /\ book[1] = Ladder(feed)[1]

(* "Historical order book snapshots": a snapshot is what was received.     *)
SnapshotsStay ==
    [][\A i \in DOMAIN history : Len(history') = Len(history) => history'[i] = history[i]]_depthVars
=============================================================================
