------------------------------ MODULE WebSockets -------------------------------
(***************************************************************************)
(* WebSocketManager of api/websocket_server.py: connections, their         *)
(* channels, and broadcasts that walk over the live set of connections or  *)
(* subscribers while they await each send.  A walk notices a set that      *)
(* changed its size, by an exception that ends it; one that changed its    *)
(* members only may miss the new ones.  Connection ids are never used      *)
(* twice; a channel without subscribers is absent.                         *)
(***************************************************************************)
EXTENDS Integers, FiniteSets

CONSTANTS
    Clients, Channels, Casts,
    MaxSubscriptions

SocketConstants == MaxSubscriptions \in Nat

Everyone == "everyone"
Idle == "idle"
Nobody == "nobody"

VARIABLES
    connections,     \* _connections: those registered now
    former,          \* ids that were unregistered
    channels,        \* _channels: subscribers of a channel
    subscriptions,   \* subscriptions of a connection's ConnectionInfo
    activeChannels,  \* _stats['active_channels']
    replying,        \* connections whose subscription is being confirmed
    casts,           \* the broadcasts under way
    heartbeat        \* heartbeat_loop: its broadcast, "sleeping" or "dead"

socketVars == <<connections, former, channels, subscriptions, activeChannels, replying, casts,
                heartbeat>>

NoCast == [over |-> Idle, start |-> {}, seen |-> {}, wanted |-> {}, to |-> Nobody,
           dropped |-> FALSE, broken |-> FALSE, missed |-> {}]

Init ==
    /\ connections = {} /\ former = {}
    /\ channels = [ch \in Channels |-> {}]
    /\ subscriptions = [c \in Clients |-> {}]
    /\ activeChannels = 0
    /\ replying = {}
    /\ casts = [b \in Casts |-> NoCast]
    /\ heartbeat = "sleeping"

-----------------------------------------------------------------------------
(* _unsubscribe_internal for pairs of a connection and a channel: a channel *)
(* left by its last subscriber is deleted.                                  *)
Deleted == {ch \in Channels : channels[ch] # {} /\ channels'[ch] = {}}

Unsubscribed_CountKept(pairs) ==
    /\ channels' = [ch \in Channels |-> {c \in channels[ch] : <<c, ch>> \notin pairs}]
    /\ subscriptions' = [c \in Clients |-> {ch \in subscriptions[c] : <<c, ch>> \notin pairs}]
    /\ UNCHANGED activeChannels

Unsubscribed(pairs) ==
    /\ channels' = [ch \in Channels |-> {c \in channels[ch] : <<c, ch>> \notin pairs}]
    /\ subscriptions' = [c \in Clients |-> {ch \in subscriptions[c] : <<c, ch>> \notin pairs}]
    /\ activeChannels' = activeChannels - Cardinality(Deleted)

(* What still walks over the set of a deleted channel finds it empty. *)
Walks == [b \in Casts |-> [casts[b] EXCEPT !.dropped = @ \/ casts[b].over \in Deleted]]

Unregistered_StaysInChannels(gone) ==
    /\ connections' = connections \ gone
    /\ former' = former \cup (gone \cap connections)
    /\ subscriptions' = [c \in Clients |-> IF c \in gone THEN {} ELSE subscriptions[c]]
    /\ UNCHANGED <<channels, activeChannels>>

(* unregister_connection, for those that are still registered. *)
Unregistered(gone) ==
    /\ connections' = connections \ gone
    /\ former' = former \cup (gone \cap connections)
    /\ Unsubscribed(UNION {{c} \X subscriptions[c] : c \in gone \cap connections})

-----------------------------------------------------------------------------
RegisterConnection(c) ==
    /\ c \notin connections \cup former
    /\ connections' = connections \cup {c}
    /\ UNCHANGED <<former, channels, subscriptions, activeChannels, replying, casts, heartbeat>>

(* The client goes away while its endpoint waits for a message. *)
Disconnect(c) ==
    /\ c \in connections \ replying
    /\ Unregistered({c}) /\ casts' = Walks
    /\ UNCHANGED <<replying, heartbeat>>

(* subscribe up to the confirmation. *)
Subscribe(c, ch) ==
    /\ c \in connections \ replying
    /\ Cardinality(subscriptions[c]) < MaxSubscriptions
    /\ activeChannels' = IF channels[ch] = {} THEN activeChannels + 1 ELSE activeChannels
    /\ channels' = [channels EXCEPT ![ch] = @ \cup {c}]
    /\ subscriptions' = [subscriptions EXCEPT ![c] = @ \cup {ch}]
    /\ replying' = replying \cup {c}
    /\ UNCHANGED <<connections, former, casts, heartbeat>>

Unsubscribe(c, ch) ==
    /\ c \in connections \ replying
    /\ c \in channels[ch]
    /\ Unsubscribed({<<c, ch>>}) /\ casts' = Walks
    /\ replying' = replying \cup {c}
    /\ UNCHANGED <<connections, former, heartbeat>>

Replied(c) ==
    /\ c \in replying
    /\ replying' = replying \ {c}
    /\ UNCHANGED <<connections, former, channels, subscriptions, activeChannels, casts, heartbeat>>

ReplyFails(c) ==
    /\ c \in replying
    /\ Unregistered({c}) /\ casts' = Walks
    /\ replying' = replying \ {c}
    /\ UNCHANGED heartbeat

-----------------------------------------------------------------------------
(* How a walk goes on, after the changes of the step: to a member not yet  *)
(* seen, to its end, or to the exception "changed size during iteration".  *)
(* Of members that took the place of others some may be missed.            *)
Members(walk) ==
    IF walk.over = Everyone THEN connections'
    ELSE IF walk.dropped THEN {} ELSE channels'[walk.over]

Onward(walk) ==
    LET ahead == (Members(walk) \ walk.seen) \cap walk.wanted
        missed == ahead \cap walk.start
    IN  IF Cardinality(Members(walk)) # Cardinality(walk.start)
        THEN {[NoCast EXCEPT !.broken = TRUE, !.missed = missed]}
        ELSE {[walk EXCEPT !.seen = @ \cup {c}, !.to = c] : c \in ahead}
             \cup (IF missed = {} THEN {NoCast} ELSE {})

GoesOn(b, walk, beating) ==
    \E next \in Onward(walk) :
        /\ casts' = [Walks EXCEPT ![b] = next]
        /\ heartbeat' = IF ~beating THEN heartbeat
                        ELSE IF next.broken THEN "dead"
                        ELSE IF next.over = Idle THEN "sleeping" ELSE b

Starts(b, over, members, wanted, beating) ==
    /\ casts[b].over = Idle
    /\ GoesOn(b, [NoCast EXCEPT !.over = over, !.start = members, !.wanted = wanted], beating)

(* broadcast, with the excluded ones; send_to_user for a user's connection. *)
Broadcast(b, ch, exclude) ==
    /\ channels[ch] # {}
    /\ UNCHANGED <<connections, former, channels, subscriptions, activeChannels, replying>>
    /\ Starts(b, ch, channels[ch], Clients \ exclude, FALSE)

SendToUser(b, c) ==
    /\ UNCHANGED <<connections, former, channels, subscriptions, activeChannels, replying>>
    /\ Starts(b, Everyone, connections, {c}, FALSE)

(* heartbeat_loop: the silent ones are unregistered before the others are  *)
(* sent a heartbeat, by broadcast_to_all.                                  *)
Heartbeat(b, silent) ==
    /\ heartbeat = "sleeping"
    /\ silent \subseteq connections
    /\ Unregistered(silent)
    /\ UNCHANGED replying
    /\ Starts(b, Everyone, connections', Clients, TRUE)

(* _send_to_connection returns: the client is served, or its connection    *)
(* fails and is unregistered, in the middle of the walk.                   *)
Sent(b) ==
    /\ casts[b].to # Nobody
    /\ UNCHANGED <<connections, former, channels, subscriptions, activeChannels, replying>>
    /\ GoesOn(b, [casts[b] EXCEPT !.to = Nobody], heartbeat = b)

SendFails(b) ==
    /\ casts[b].to # Nobody
    /\ Unregistered({casts[b].to})
    /\ UNCHANGED replying
    /\ GoesOn(b, [casts[b] EXCEPT !.to = Nobody, !.dropped = @ \/ casts[b].over \in Deleted],
              heartbeat = b)

Next ==
    \/ \E c \in Clients :
         \/ RegisterConnection(c) \/ Disconnect(c) \/ Replied(c) \/ ReplyFails(c)
         \/ \E ch \in Channels : Subscribe(c, ch) \/ Unsubscribe(c, ch)
    \/ \E b \in Casts :
         \/ \E ch \in Channels, exclude \in {{}} \cup {{c} : c \in Clients} :
              Broadcast(b, ch, exclude)
         \/ \E c \in Clients : SendToUser(b, c)
         \/ \E silent \in SUBSET Clients : Heartbeat(b, silent)
         \/ Sent(b) \/ SendFails(b)

Spec == Init /\ [][Next]_socketVars

-----------------------------------------------------------------------------
(* Whatever goes away in the middle of a broadcast, a subscription or a    *)
(* heartbeat: the two indexes of the subscriptions agree, hold only those  *)
(* registered and at most the permitted number, and the count of active    *)
(* channels is theirs.                                                     *)
SubscriptionsAgree ==
    /\ \A c \in Clients, ch \in Channels : c \in channels[ch] <=> ch \in subscriptions[c]
    /\ \A ch \in Channels : channels[ch] \subseteq connections
    /\ \A c \in Clients : Cardinality(subscriptions[c]) <= MaxSubscriptions
    /\ activeChannels = Cardinality({ch \in Channels : channels[ch] # {}})

(* Inductive: as it stands, of finite indexes.                             *)
IInv ==
    /\ SubscriptionsAgree
    /\ connections \subseteq Clients
    /\ channels \in [Channels -> SUBSET Clients]
    /\ subscriptions \in [Clients -> SUBSET Channels]
    /\ \A c \in Clients : IsFiniteSet(subscriptions[c])
    /\ IsFiniteSet({ch \in Channels : channels[ch] # {}})

(* api/websocket_server.py:324, "Broadcast a message to all subscribers of *)
(* a channel": no broadcast ends before it came to those it found.           *)
BroadcastsReachAll == \A b \in Casts : casts[b].missed = {}
=============================================================================
