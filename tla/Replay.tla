-------------------------------- MODULE Replay ---------------------------------
(***************************************************************************)
(* ChartReplayEngine of replay/__init__.py: sessions played by threads of  *)
(* their own, one stop flag and one cache of bars for all of them.  Dates  *)
(* are the numbers of bars, with or without a time zone; the sessions are  *)
(* of one symbol and timeframe.  Two errors end a thread where it stands,  *)
(* with the state of its session as it is.  Practice orders are left out.  *)
(***************************************************************************)
EXTENDS Integers

CONSTANTS
    Sessions,   \* numbered as they are created; bound of the model
    Threads,    \* numbered as they are started; bound of the model
    Requests,   \* of sessions: the first and the last date, the zone of either
    Paced       \* bound of the model: the sessions whose speed is set

None == "none"
NoOne == 0
Zones == {"naive", "aware"}

ReplayConstants ==
    /\ \A r \in Requests : /\ r.range[1] \in Nat /\ r.range[2] \in Nat
                           /\ r.zones[1] \in Zones /\ r.zones[2] \in Zones
    /\ Sessions \subseteq Nat \ {NoOne} /\ Threads \subseteq Nat

VARIABLES
    sessions,   \* sessions: request, current_date and its zone, state, speed
    bars,       \* data_cache: the range whose bars were generated first, their zone
    stopFlag,   \* _stop_flag
    starting,   \* the session whose play() is under way
    threads     \* the replay threads: session, where it stands, next bar

replayVars == <<sessions, bars, stopFlag, starting, threads>>

NoRequest == [range |-> <<0, 0>>, zones |-> <<None, None>>]
NoBars == [range |-> <<0, 0>>, zone |-> None]
NoSession == [of |-> NoRequest, date |-> 0, zone |-> None, state |-> None, speed |-> "running"]

(* Where an error ended a thread. *)
Errors == {"zones differ", "divided by 0"}

NoThread == [of |-> NoOne, at |-> "unborn", next |-> 0]

Init ==
    /\ sessions = [s \in Sessions |-> NoSession]
    /\ bars = NoBars
    /\ stopFlag = FALSE
    /\ starting = NoOne
    /\ threads = [t \in Threads |-> NoThread]

Created(s) == sessions[s].state # None
Playing(t) == threads[t].at \in {"loop", "show", "pause"}
Alive(t) == Playing(t) \/ threads[t].at \in {"born", "end"}
CallsFree == starting = NoOne

-----------------------------------------------------------------------------
(* create_session and _load_data: bars are generated for the first range   *)
(* of a symbol and serve the later ones.  A range with one zone at either  *)
(* end cannot be generated: the error leaves the session, but no bars.     *)
CreateSession(s, request) ==
    /\ CallsFree /\ \A r \in Sessions : Created(r) <=> r < s
    /\ sessions' = [sessions EXCEPT ![s] =
         [of |-> request, date |-> request.range[1], zone |-> request.zones[1],
          state |-> "idle", speed |-> "running"]]
    /\ bars' = IF bars # NoBars \/ request.zones[1] # request.zones[2] THEN bars
               ELSE [range |-> request.range, zone |-> request.zones[1]]
    /\ UNCHANGED <<stopFlag, starting, threads>>

(* play: the state first, which threads of before may still overwrite. *)
Play(s) ==
    /\ CallsFree /\ Created(s) /\ sessions[s].state # "finished"
    /\ \E t \in Threads : threads[t].at = "unborn"
    /\ sessions' = [sessions EXCEPT ![s].state = "playing"]
    /\ starting' = s
    /\ UNCHANGED <<bars, stopFlag, threads>>

StartThread(t) ==
    /\ ~CallsFree /\ \A u \in Threads : threads[u].at = "unborn" <=> u >= t
    /\ stopFlag' = FALSE
    /\ threads' = [threads EXCEPT ![t] = [of |-> starting, at |-> "born", next |-> 0]]
    /\ starting' = NoOne
    /\ UNCHANGED <<sessions, bars>>

(* pause and stop set the flag that every thread reads. *)
Halt(s, state) ==
    /\ CallsFree /\ Created(s)
    /\ sessions' = [sessions EXCEPT ![s].state = state]
    /\ stopFlag' = TRUE
    /\ UNCHANGED <<bars, starting, threads>>

Pause(s) == Halt(s, "paused")
Stop(s) == Halt(s, "finished")

(* set_speed: all that matters is whether the speed is PAUSED. *)
SetSpeed(s, speed) ==
    /\ CallsFree /\ Created(s) /\ s \in Paced
    /\ sessions' = [sessions EXCEPT ![s].speed = speed]
    /\ UNCHANGED <<bars, stopFlag, starting, threads>>

(* seek compares the date with both ends of the session.                   *)
Seek(s, date) ==
    /\ CallsFree /\ Created(s)
    /\ LET of == sessions[s].of IN
        /\ of.zones[1] = of.zones[2]
        /\ of.range[1] <= date /\ date <= of.range[2]
        /\ sessions' = [sessions EXCEPT ![s].date = date, ![s].zone = of.zones[1]]
    /\ UNCHANGED <<bars, stopFlag, starting, threads>>

-----------------------------------------------------------------------------
(* _replay_loop: a thread takes the bars that there are...                 *)
Begin(t) ==
    /\ threads[t].at = "born"
    /\ threads' = [threads EXCEPT ![t].at = IF bars = NoBars THEN "end" ELSE "loop",
                                  ![t].next = bars.range[1]]
    /\ UNCHANGED <<sessions, bars, stopFlag, starting>>

AtHead_StaysAtBar(thread) ==
    IF thread.next > bars.range[2] \/ stopFlag THEN [thread EXCEPT !.at = "end"]
    ELSE IF sessions[thread.of].zone # bars.zone THEN [thread EXCEPT !.at = "zones differ"]
    ELSE IF thread.next < sessions[thread.of].date THEN thread
    ELSE [thread EXCEPT !.at = "show"]

(* ... and reads the stop flag and the date of the session before a bar,   *)
(* which cannot be compared when only one of them has a time zone...       *)
AtHead(thread) ==
    IF thread.next > bars.range[2] \/ stopFlag THEN [thread EXCEPT !.at = "end"]
    ELSE IF sessions[thread.of].zone # bars.zone THEN [thread EXCEPT !.at = "zones differ"]
    ELSE IF thread.next < sessions[thread.of].date THEN [thread EXCEPT !.next = @ + 1]
    ELSE [thread EXCEPT !.at = "show"]

LoopHead(t) ==
    /\ threads[t].at = "loop"
    /\ threads' = [threads EXCEPT ![t] = AtHead(threads[t])]
    /\ UNCHANGED <<sessions, bars, stopFlag, starting>>

(* ... then shows the bar; a speed that is PAUSED spares the pause...      *)
ShowBar(t) ==
    /\ threads[t].at = "show"
    /\ LET s == threads[t].of IN
        /\ sessions' = [sessions EXCEPT ![s].date = threads[t].next, ![s].zone = bars.zone]
        /\ threads' = [threads EXCEPT ![t].next = @ + 1,
                        ![t].at = IF sessions[s].speed = "PAUSED" THEN "loop" ELSE "pause"]
    /\ UNCHANGED <<bars, stopFlag, starting>>

(* ... which divides by the speed, that may be PAUSED, or 0, by now.       *)
Rest(t) ==
    /\ threads[t].at = "pause"
    /\ threads' = [threads EXCEPT ![t].at =
         IF sessions[threads[t].of].speed = "PAUSED" THEN "divided by 0" ELSE "loop"]
    /\ UNCHANGED <<sessions, bars, stopFlag, starting>>

AtLoopEnd_StateKept(state) == state

(* Whatever ended the loop, a pause among it. *)
AtLoopEnd(state) == "finished"

LoopEnds(t) ==
    /\ threads[t].at = "end"
    /\ sessions' = [sessions EXCEPT ![threads[t].of].state = AtLoopEnd(@)]
    /\ threads' = [threads EXCEPT ![t].at = "done"]
    /\ UNCHANGED <<bars, stopFlag, starting>>

ThreadSteps(t) ==
    StartThread(t) \/ Begin(t) \/ LoopHead(t) \/ ShowBar(t) \/ Rest(t) \/ LoopEnds(t)

Speeds == {"running", "PAUSED"}

Next ==
    \/ \E s \in Sessions : \/ \E r \in Requests : CreateSession(s, r)
                           \/ Play(s) \/ Pause(s) \/ Stop(s)
                           \/ \E speed \in Speeds : SetSpeed(s, speed)
                           \/ \E d \in bars.range[1]..bars.range[2] : Seek(s, d)
    \/ \E t \in Threads : ThreadSteps(t)

Fairness == \A t \in Threads : WF_replayVars(ThreadSteps(t))

Spec == Init /\ [][Next]_replayVars /\ Fairness

-----------------------------------------------------------------------------
States == {None, "idle", "playing", "paused", "finished"}
Stands == {"unborn", "born", "loop", "show", "pause", "end", "done"} \cup Errors

TypeOK ==
    /\ sessions \in [Sessions -> [of : Requests \cup {NoRequest}, date : Int,
                                  zone : Zones \cup {None}, state : States, speed : Speeds]]
    /\ threads \in [Threads -> [of : Sessions \cup {NoOne}, next : Int, at : Stands]]
    /\ bars \in [range : {r.range : r \in Requests} \cup {NoBars.range},
                 zone : Zones \cup {None}]
    /\ stopFlag \in BOOLEAN
    /\ starting \in Sessions \cup {NoOne}

Died(s) == \E t \in Threads : threads[t].of = s /\ threads[t].at \in Errors
ZonesMix(s) == sessions[s].of.zones[1] # bars.zone

(* Threads of several plays of a session, and pauses of other sessions,    *)
(* end in any order: a session is never left playing without a thread that *)
(* plays it or is about to be started, unless one of its threads died: of  *)
(* a speed that became PAUSED after it was read, or of dates, when only    *)
(* those of the bars or of the session have a time zone.                   *)
PlayingIsPlayed ==
    /\ \A s \in Sessions : sessions[s].state = "playing" =>
         \/ starting = s
         \/ \E t \in Threads : threads[t].of = s /\ Alive(t)
         \/ Died(s)
    /\ \A t \in Threads : threads[t].at = "zones differ" => ZonesMix(threads[t].of)

(* Inductive: a thread that was started plays a session that was created,  *)
(* with bars that were generated and stay; what killed it is still to be   *)
(* seen, since a date has the zone of its session's start or of the bars.  *)
ThreadSound(t) ==
    LET s == threads[t].of IN
    /\ s = NoOne <=> threads[t].at = "unborn"
    /\ s # NoOne => Created(s)
    /\ Playing(t) \/ threads[t].at \in Errors => bars # NoBars
    /\ threads[t].at = "zones differ" => ZonesMix(s)

DateSound(s) ==
    Created(s) => \/ sessions[s].zone = sessions[s].of.zones[1]
                  \/ bars # NoBars /\ sessions[s].zone = bars.zone

IInv ==
    /\ TypeOK /\ PlayingIsPlayed
    /\ \A t \in Threads : ThreadSound(t)
    /\ \A s \in Sessions : DateSound(s)
    /\ starting # NoOne => Created(starting)

(* Every play ends, in the end of its bars, in a stop or with a thread     *)
(* that died.                                                              *)
PlayingEnds ==
    \A s \in Sessions : sessions[s].state = "playing" ~> sessions[s].state # "playing" \/ Died(s)

(* What the code does not do: end every play with the state it should have,*)
(* end a pause only when the session is played or stopped, and keep to the *)
(* range of the session.                                                   *)
NoThreadDies == \A s \in Sessions : ~Died(s)
PausedStays ==
    [][\A s \in Sessions : sessions[s].state = "paused" /\ sessions'[s].state # "paused"
         => threads' = threads]_replayVars
DateWithinRange == \A s \in Sessions : Created(s) =>
    sessions[s].date \in sessions[s].of.range[1]..sessions[s].of.range[2]
=============================================================================
