------------------------------ MODULE EventBus ------------------------------
(***************************************************************************)
(* The events of the daemon: daemon/events/events.go over                  *)
(* pkg/pubsub/publisher.go.  Log stores an event among the last eventsLimit*)
(* ones under the lock of Events and publishes it after the unlock, to     *)
(* every subscriber at once and under the read lock of the publisher;      *)
(* Subscribe takes what is stored and its channel in one critical section. *)
(***************************************************************************)
EXTENDS Integers, Sequences, FiniteSets

CONSTANTS EvSubs, EvLoggers,
          eventsLimit, bufferSize,
          EvLoads                 \* [logs, subs]

ASSUME EvAssumption == eventsLimit \in Nat \ {0} /\ bufferSize \in Nat

VARIABLES evLoad,
          events,       \* Events.events
          elog,         \* logger -> [at, ev, todo]: the subscribers not served yet
          esub,         \* subscriber -> [at, buffered, chan, got, late]
          subscribers,  \* Publisher.subscribers
          seq,          \* number of events logged
          egone         \* an event went to a channel that was closed

evVars == <<evLoad, events, elog, esub, subscribers, seq, egone>>

Publishing == \E l \in EvLoggers : elog[l].at = "send"

\* Log up to the unlock: the oldest event makes room.
LogEvent(l) ==
    /\ elog[l].at = "idle" /\ seq < evLoad.logs
    /\ seq' = seq + 1
    /\ events' = Append(IF Len(events) = eventsLimit THEN Tail(events) ELSE events, seq + 1)
    /\ elog' = [elog EXCEPT ![l] = [at |-> "publish", ev |-> seq + 1, todo |-> {}]]
    /\ UNCHANGED <<evLoad, esub, subscribers, egone>>

\* Publish: RLock, and a goroutine for each subscriber ...
PublishEvent(l) ==
    /\ elog[l].at = "publish"
    /\ elog' = [elog EXCEPT ![l] = [@ EXCEPT !.at = "send", !.todo = subscribers]]
    /\ UNCHANGED <<evLoad, events, esub, subscribers, seq, egone>>

\* ... which puts the event into the channel; in 100 ms, or not at all ...
SendTopic(l, s) ==
    /\ elog[l].at = "send" /\ s \in elog[l].todo
    /\ elog' = [elog EXCEPT ![l].todo = @ \ {s}]
    /\ IF esub[s].at = "closed"
       THEN egone' = TRUE /\ UNCHANGED esub
       ELSE /\ UNCHANGED egone
            /\ esub' = IF Len(esub[s].chan) < bufferSize
                        THEN [esub EXCEPT ![s].chan = Append(@, elog[l].ev)]
                        ELSE [esub EXCEPT ![s].late = @ \cup {elog[l].ev}]
    /\ UNCHANGED <<evLoad, events, subscribers, seq>>

\* ... and when all are done the read lock is released.
Published(l) ==
    /\ elog[l].at = "send" /\ elog[l].todo = {}
    /\ elog' = [elog EXCEPT ![l].at = "idle"]
    /\ UNCHANGED <<evLoad, events, esub, subscribers, seq, egone>>

\* Fault: what is stored is read before the subscription.
Subscribe_Apart(s) ==
    /\ s \in evLoad.subs
    /\ \/ /\ esub[s].at = "off"
          /\ esub' = [esub EXCEPT ![s] = [@ EXCEPT !.at = "on", !.buffered = events]]
          /\ UNCHANGED subscribers
       \/ /\ esub[s].at = "on" /\ s \notin subscribers /\ ~Publishing
          /\ subscribers' = subscribers \cup {s} /\ UNCHANGED esub
    /\ UNCHANGED <<evLoad, events, elog, seq, egone>>

\* SubscribeTopic, for a client that asks for everything that is stored; the
\* lock of the publisher has to wait for those that publish.
Subscribe(s) ==
    /\ esub[s].at = "off" /\ s \in evLoad.subs /\ ~Publishing
    /\ esub' = [esub EXCEPT ![s] = [@ EXCEPT !.at = "on", !.buffered = events]]
    /\ subscribers' = subscribers \cup {s}
    /\ UNCHANGED <<evLoad, events, elog, seq, egone>>

ReceiveEvent(s) ==
    /\ esub[s].at = "on" /\ esub[s].chan # <<>>
    /\ esub' = [esub EXCEPT ![s].got = @ \cup {Head(esub[s].chan)}, ![s].chan = Tail(@)]
    /\ UNCHANGED <<evLoad, events, elog, subscribers, seq, egone>>

Evict(s) ==
    /\ esub[s].at = "on" /\ ~Publishing
    /\ esub' = [esub EXCEPT ![s].at = "closed"]
    /\ subscribers' = subscribers \ {s}
    /\ UNCHANGED <<evLoad, events, elog, seq, egone>>

EvInit ==
    /\ evLoad \in EvLoads
    /\ events = <<>> /\ seq = 0 /\ subscribers = {} /\ egone = FALSE
    /\ elog = [l \in EvLoggers |-> [at |-> "idle", ev |-> 0, todo |-> {}]]
    /\ esub = [s \in EvSubs |-> [at |-> "off", buffered |-> <<>>, chan |-> <<>>, got |-> {}, late |-> {}]]

EvNext ==
    \/ \E l \in EvLoggers : LogEvent(l) \/ PublishEvent(l) \/ Published(l) \/ \E s \in EvSubs : SendTopic(l, s)
    \/ \E s \in EvSubs : Subscribe(s) \/ ReceiveEvent(s) \/ Evict(s)
EvSpec == EvInit /\ [][EvNext]_evVars

-----------------------------------------------------------------------------
(* Properties.                                                             *)

InSeq(q) == {q[i] : i \in DOMAIN q}

\* Every event that was stored when the client subscribed, or was logged since,
\* has reached it once its publication is over, from the store or through the
\* channel, unless the client was too slow for it; and none is sent on the
\* channel of a client that is gone, where Go would panic.
NoEventMissed ==
    /\ ~egone
    /\ \A s \in EvSubs : esub[s].at = "on" =>
         \A e \in 1..seq :
            \/ \E l \in EvLoggers : elog[l].at # "idle" /\ elog[l].ev = e
            \/ e \in InSeq(esub[s].buffered) \cup InSeq(esub[s].chan) \cup esub[s].got \cup esub[s].late
            \/ \E b \in InSeq(esub[s].buffered) : e < b
=============================================================================
