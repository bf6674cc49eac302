----------------------------- MODULE MarketCache ------------------------------
(***************************************************************************)
(* MarketDataCache of cache/market_data_cache.py, for one symbol and one   *)
(* timeframe: a series of bars under one key of a Redis server and, under  *)
(* another, the last tick or a list of ticks.  Several threads or          *)
(* processes append bars, each by reading the list and writing it back;    *)
(* keys expire or are invalidated at any time, and requests to the server  *)
(* may fail.  Bars are numbered in the order in which they are handed in:  *)
(* what a caller hands in again is another bar.                            *)
(***************************************************************************)
EXTENDS Integers, Sequences, FiniteSetsExt, SequencesExt

CONSTANTS
    Appenders,
    MaxSize,        \* max_size of append_ohlcv
    MaxBars,        \* bound of the model on bars
    MaxGets         \* bound of the model on requests that are counted

CacheConstants == MaxSize \in Nat \ {0} /\ {MaxBars, MaxGets} \subseteq Nat

VARIABLES
    series,         \* the list under the symbol's key
    present,        \* the key exists
    tick,           \* what is under the tick key: none, one tick or a list
    appending,      \* what an appender read, and its bar
    lastBar,        \* bars handed in so far
    hits, misses,   \* total_hits, total_misses
    sent,           \* ghost: bars stored since the key was written as a whole or removed
    whole,          \* ghost: the key is as cache_ohlcv wrote it
    clean,          \* ghost: no append since then found the key changed under it
    removed,        \* ghost: the bars of a series that was removed
    gets, crossed   \* ghost: requests, and those that met the other kind of tick entry

cacheVars ==
    <<series, present, tick, appending, lastBar, hits, misses, sent, whole, clean, removed, gets, crossed>>

seriesVars == <<series, present, appending, lastBar, sent, whole, clean, removed>>
countVars == <<tick, hits, misses, gets, crossed>>

Idle == [bar |-> 0, read |-> <<>>]
LastOf(s) == SubSeq(s, Max({1, Len(s) - MaxSize + 1}), Len(s))

Init ==
    /\ series = <<>> /\ present = FALSE
    /\ sent = <<>> /\ whole = FALSE /\ clean = TRUE /\ removed = {}
    /\ appending = [a \in Appenders |-> Idle] /\ lastBar = 0
    /\ tick = "none" /\ hits = 0 /\ misses = 0 /\ gets = 0 /\ crossed = 0

-----------------------------------------------------------------------------
(* append_ohlcv up to its answer from the server.                          *)
ReadForAppend(a) ==
    /\ appending[a] = Idle /\ lastBar < MaxBars
    /\ lastBar' = lastBar + 1
    /\ appending' = [appending EXCEPT ![a] = [bar |-> lastBar', read |-> series]]
    /\ UNCHANGED <<series, present, sent, whole, clean, removed, countVars>>

(* The list as it was read, with the bar, is written back.                 *)
WriteBack_Uncut(a) == Append(appending[a].read, appending[a].bar)
WriteBack(a) == LastOf(Append(appending[a].read, appending[a].bar))

WriteAppended(a) ==
    /\ appending[a] # Idle
    /\ series' = WriteBack(a) /\ present' = TRUE /\ whole' = FALSE
    /\ sent' = Append(sent, appending[a].bar)
    /\ clean' = (clean /\ appending[a].read = series)
    /\ appending' = [appending EXCEPT ![a] = Idle]
    /\ UNCHANGED <<lastBar, removed, countVars>>

(* An exception of the client before anything is stored.                   *)
AppendFails(a) ==
    /\ appending[a] # Idle
    /\ appending' = [appending EXCEPT ![a] = Idle]
    /\ UNCHANGED <<series, present, lastBar, sent, whole, clean, removed, countVars>>

(* cache_ohlcv writes a list of the caller's over whatever is there: of    *)
(* any length, empty or beyond max_size, for it cuts nothing.              *)
CacheOhlcv(n) ==
    /\ lastBar + n <= MaxBars
    /\ lastBar' = lastBar + n
    /\ series' = [i \in 1..n |-> lastBar + i] /\ present' = TRUE
    /\ sent' = series' /\ whole' = TRUE /\ clean' = TRUE
    /\ UNCHANGED <<appending, removed, countVars>>

(* The key goes: its time is over, or invalidate_ohlcv deletes it;         *)
(* invalidate_symbol and clear_all delete the ticks as well.               *)
RemoveKeys(ticksToo) ==
    /\ series' = <<>> /\ present' = FALSE
    /\ sent' = <<>> /\ whole' = FALSE /\ clean' = TRUE
    /\ removed' = removed \cup ToSet(series)
    /\ tick' = IF ticksToo THEN "none" ELSE tick
    /\ UNCHANGED <<appending, lastBar, hits, misses, gets, crossed>>

(* cache_tick, cache_ticks; none: the key expires or invalidate_tick is called. *)
CacheTick(kind) ==
    /\ tick' = kind
    /\ UNCHANGED <<seriesVars, hits, misses, gets, crossed>>

(* get_ohlcv: a hit if the key exists, else a miss; so is an error.        *)
GetOhlcv ==
    /\ gets < MaxGets /\ gets' = gets + 1
    /\ hits' = IF present THEN hits + 1 ELSE hits
    /\ misses' = IF present THEN misses ELSE misses + 1
    /\ UNCHANGED <<seriesVars, tick, crossed>>

(* get_tick, get_ticks: an entry of the other kind is counted when it is   *)
(* found and again when it cannot be read.                                 *)
GetTick(kind) ==
    /\ gets < MaxGets /\ gets' = gets + 1
    /\ hits' = IF tick = "none" THEN hits ELSE hits + 1
    /\ misses' = IF tick = kind THEN misses ELSE misses + 1
    /\ crossed' = IF tick \in {"none", kind} THEN crossed ELSE crossed + 1
    /\ UNCHANGED <<seriesVars, tick>>

GetFails ==
    /\ gets < MaxGets /\ gets' = gets + 1
    /\ misses' = misses + 1
    /\ UNCHANGED <<seriesVars, tick, hits, crossed>>

ResetStatistics ==
    /\ hits' = 0 /\ misses' = 0 /\ gets' = 0 /\ crossed' = 0
    /\ UNCHANGED <<seriesVars, tick>>

Next ==
    \/ \E a \in Appenders : ReadForAppend(a) \/ WriteAppended(a) \/ AppendFails(a)
    \/ \E n \in 0..MaxBars : CacheOhlcv(n)
    \/ \E ticksToo \in BOOLEAN : RemoveKeys(ticksToo)
    \/ \E kind \in {"none", "one", "list"} : CacheTick(kind)
    \/ GetOhlcv \/ GetFails \/ ResetStatistics
    \/ \E kind \in {"one", "list"} : GetTick(kind)

Spec == Init /\ [][Next]_cacheVars

-----------------------------------------------------------------------------
TypeOK ==
    /\ series \in Seq(1..MaxBars) /\ sent \in Seq(1..MaxBars) /\ removed \subseteq 1..MaxBars
    /\ appending \in [Appenders -> [bar : 0..MaxBars, read : Seq(1..MaxBars)]]
    /\ lastBar \in 0..MaxBars /\ present \in BOOLEAN /\ whole \in BOOLEAN /\ clean \in BOOLEAN
    /\ tick \in {"none", "one", "list"} /\ {hits, misses, gets, crossed} \subseteq Nat

(* However appends, removals and failures interleave, a series holds no    *)
(* bar twice that was handed in once, and once an append wrote it no more  *)
(* than its size; unless an append found it changed under it, it is what   *)
(* was stored, the latest of it after an append; and every request is      *)
(* counted once, but twice where it met the other kind of tick entry.      *)
SeriesIsRecent ==
    /\ IsInjective(series)
    /\ whole \/ Len(series) <= MaxSize
    /\ clean => series = IF whole THEN sent ELSE LastOf(sent)
    /\ hits + misses = gets + crossed

(* Inductive: a list that is stored or was read has bars that were handed  *)
(* in, none of them twice and none that is still to be appended.           *)
Orderly(bars) ==
    /\ IsInjective(bars)
    /\ \A i \in DOMAIN bars : /\ bars[i] <= lastBar
                               /\ \A a \in Appenders : bars[i] # appending[a].bar

IInv ==
    /\ TypeOK /\ SeriesIsRecent
    /\ Orderly(series) /\ \A a \in Appenders : Orderly(appending[a].read)
    /\ \A a \in Appenders :
         /\ appending[a].bar <= lastBar
         /\ appending[a].bar = 0 => appending[a] = Idle
         /\ \A b \in Appenders \ {a} : appending[a].bar = appending[b].bar => appending[a] = Idle

-----------------------------------------------------------------------------
(* What the docstrings promise and the code does not do. *)

(* "Append OHLCV data to existing cache": one of two appends that overlap  *)
(* is lost.                                                                *)
AppendsAreKept == series = LastOf(sent)

(* "Invalidate OHLCV cache": an append under way writes the old bars back. *)
InvalidatedIsGone == ToSet(series) \cap removed = {}

(* "Total hits", "total misses": a request is one or the other.            *)
EachRequestCountsOnce == hits + misses = gets
=============================================================================
