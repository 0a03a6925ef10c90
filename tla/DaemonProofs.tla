---------------------------- MODULE DaemonProofs ----------------------------
(***************************************************************************)
(* What the daemon keeps for its clients, proved.  First the event bus,    *)
(* for any number of loggers and subscribers; then the inductive invariant *)
(* of the volume store and the daemon's use of it, and the proof that the  *)
(* steps of the store keep it.                                             *)
(***************************************************************************)
EXTENDS EventBus, ContainerVolumes, TLAPS

\* More time for a leaf than by default, and a second attempt, for slow machines.
USE SMTT(30), Z3T(30), ZenonT(30)

\* The types of the events, of those who log them and of the subscribers.
LogState == [at : {"idle", "publish", "send"}, ev : Nat, todo : SUBSET EvSubs]
SubState == [at : {"off", "on", "closed"}, buffered : Seq(Nat), chan : Seq(Nat),
             got : SUBSET Nat, late : SUBSET Nat]
EvTypeOK ==
  /\ events \in Seq(Nat) /\ seq \in Nat /\ subscribers \in SUBSET EvSubs
  /\ elog \in [EvLoggers -> LogState]
  /\ esub \in [EvSubs -> SubState]

\* The store holds the last events, without a gap.
LastStored ==
  /\ seq # 0 => events # <<>>
  /\ \A i \in 1..Len(events) : events[i] = seq - Len(events) + i

\* What has reached a subscriber, and what the store no longer had when it came.
Has(s) == InSeq(esub[s].buffered) \cup InSeq(esub[s].chan) \cup esub[s].got \cup esub[s].late
Knows(s, e) == e \in Has(s) \/ \E b \in InSeq(esub[s].buffered) : e < b

\* The inductive invariant: the subscribers do not change while somebody publishes,
\* and each of them is still to be served or has the event.
EvInv ==
  /\ EvTypeOK /\ LastStored /\ ~egone
  /\ \A s \in EvSubs : s \in subscribers <=> esub[s].at = "on"
  /\ \A l \in EvLoggers : elog[l].at = "send" =>
       /\ elog[l].todo \subseteq subscribers
       /\ \A s \in subscribers : s \in elog[l].todo \/ elog[l].ev \in Has(s)
  /\ \A s \in subscribers : \A e \in 1..seq :
       (\E l \in EvLoggers : elog[l].at # "idle" /\ elog[l].ev = e) \/ Knows(s, e)
-----------------------------------------------------------------------------
\* The members of a sequence that is appended to or whose head is taken.
LEMMA MembersOf ==
  ASSUME NEW q \in Seq(Nat)
  PROVE  /\ \A e \in Nat : InSeq(Append(q, e)) = InSeq(q) \cup {e}
         /\ q # <<>> => InSeq(q) \subseteq {Head(q)} \cup InSeq(Tail(q))
         /\ q # <<>> => Head(q) \in Nat /\ Tail(q) \in Seq(Nat)
<1>1. ASSUME NEW e \in Nat PROVE InSeq(Append(q, e)) = InSeq(q) \cup {e}
  <2> DEFINE r == Append(q, e)
  <2>1. /\ Len(q) \in Nat /\ DOMAIN q = 1..Len(q) /\ DOMAIN r = 1..(Len(q) + 1)
        /\ r[Len(q) + 1] = e /\ \A i \in 1..Len(q) : r[i] = q[i]
    OBVIOUS
  <2> HIDE DEF r
  <2>2. \A i \in 1..(Len(q) + 1) : i \in 1..Len(q) \/ i = Len(q) + 1
    BY <2>1
  <2>3. Len(q) + 1 \in 1..(Len(q) + 1) /\ \A i \in 1..Len(q) : i \in 1..(Len(q) + 1)
    BY <2>1
  <2>4. InSeq(r) = InSeq(q) \cup {e}
    BY <2>1, <2>2, <2>3, Zenon DEF InSeq
  <2> QED
    BY <2>4 DEF r
<1>2. ASSUME q # <<>> PROVE InSeq(q) \subseteq {Head(q)} \cup InSeq(Tail(q))
  <2> SUFFICES ASSUME NEW i \in DOMAIN q PROVE q[i] = Head(q) \/ q[i] \in InSeq(Tail(q))
    BY Zenon DEF InSeq
  <2>1. i = 1 \/ i - 1 \in 1..Len(Tail(q))
    BY <1>2
  <2>2. CASE i = 1
    BY <2>2
  <2>3. CASE i - 1 \in 1..Len(Tail(q))
    <3>1. i - 1 \in DOMAIN Tail(q) /\ Tail(q)[i - 1] = q[i]
      BY <1>2, <2>3
    <3> QED
      BY <3>1, Zenon DEF InSeq
  <2> QED
    BY <2>1, <2>2, <2>3
<1>3. q # <<>> => Head(q) \in Nat /\ Tail(q) \in Seq(Nat)
  OBVIOUS
<1> QED
  BY <1>1, <1>2, <1>3

\* An event is stored; the oldest one makes room.
LEMMA LogEventInv == ASSUME EvInv, NEW l \in EvLoggers, LogEvent(l) PROVE EvInv'
<1>0. EvTypeOK
  BY DEF EvInv
<1> DEFINE kept == IF Len(events) = eventsLimit THEN Tail(events) ELSE events
<1>1. /\ elog[l].at = "idle" /\ seq' = seq + 1 /\ events' = Append(kept, seq + 1)
      /\ elog' = [elog EXCEPT ![l] = [at |-> "publish", ev |-> seq + 1, todo |-> {}]]
      /\ UNCHANGED <<esub, subscribers, egone>>
  BY DEF LogEvent
<1>2. /\ kept \in Seq(Nat) /\ Len(kept) \in Nat
      /\ \A i \in 1..Len(kept) : kept[i] = seq - Len(kept) + i
  <2>1. CASE Len(events) = eventsLimit
    <3>1. /\ events # <<>> /\ Tail(events) \in Seq(Nat) /\ Len(Tail(events)) = Len(events) - 1
          /\ Len(events) \in Nat /\ seq \in Nat
          /\ \A i \in 1..Len(Tail(events)) : Tail(events)[i] = events[i + 1] /\ i + 1 \in 1..Len(events)
      BY <1>0, <2>1, EvAssumption DEF EvTypeOK
    <3>2. \A i \in 1..Len(Tail(events)) : Tail(events)[i] = seq - Len(events) + (i + 1)
      BY <3>1, Zenon DEF EvInv, LastStored
    <3>3. ASSUME NEW i \in 1..Len(Tail(events))
          PROVE  Tail(events)[i] = seq - Len(Tail(events)) + i
      <4>1. seq - Len(events) + (i + 1) = seq - (Len(events) - 1) + i
        BY <3>1
      <4> QED
        BY <3>1, <3>2, <4>1
    <3> QED
      BY <2>1, <3>1, <3>3
  <2>2. CASE Len(events) # eventsLimit
    <3>1. kept = events /\ events \in Seq(Nat) /\ Len(events) \in Nat
      BY <1>0, <2>2 DEF EvTypeOK
    <3>2. \A i \in 1..Len(events) : events[i] = seq - Len(events) + i
      BY DEF EvInv, LastStored
    <3> HIDE DEF kept
    <3> QED
      BY <3>1, <3>2
  <2> QED
    BY <2>1, <2>2, Zenon
<1> HIDE DEF kept
<1>3. EvTypeOK'
  <2>1. seq + 1 \in Nat
    BY <1>0 DEF EvTypeOK
  <2>2. [at |-> "publish", ev |-> seq + 1, todo |-> {}] \in LogState
    BY <2>1 DEF LogState
  <2>3. events' \in Seq(Nat)
    BY <1>1, <1>2, <2>1
  <2> QED
    BY <1>0, <1>1, <2>1, <2>2, <2>3, Zenon DEF EvTypeOK
<1>4. LastStored'
  <2>1. /\ events' # <<>> /\ Len(events') = Len(kept) + 1 /\ events'[Len(kept) + 1] = seq + 1
        /\ \A i \in 1..Len(kept) : events'[i] = kept[i]
    BY <1>1, <1>2
  <2>2. seq \in Nat
    BY <1>0 DEF EvTypeOK
  <2>3. ASSUME NEW i \in 1..(Len(kept) + 1)
        PROVE  events'[i] = (seq + 1) - (Len(kept) + 1) + i
    <3>1. CASE i \in 1..Len(kept)
      <4>1. events'[i] = seq - Len(kept) + i
        BY <1>2, <2>1, <3>1
      <4>2. seq - Len(kept) + i = (seq + 1) - (Len(kept) + 1) + i
        BY <1>2, <2>2
      <4> QED
        BY <4>1, <4>2
    <3>2. CASE i = Len(kept) + 1
      <4>1. (seq + 1) - (Len(kept) + 1) + (Len(kept) + 1) = seq + 1
        BY <1>2, <2>2
      <4> QED
        BY <2>1, <3>2, <4>1
    <3> QED
      BY <1>2, <3>1, <3>2
  <2> QED
    BY <1>1, <2>1, <2>3, Zenon DEF LastStored
<1>5. /\ elog'[l].at = "publish" /\ elog'[l].ev = seq + 1
      /\ \A k \in EvLoggers : k # l => elog'[k] = elog[k]
  BY <1>0, <1>1 DEF EvTypeOK
<1>6. \A s \in EvSubs : Has(s)' = Has(s) /\ \A e : Knows(s, e)' <=> Knows(s, e)
  <2>1. esub' = esub
    BY <1>1
  <2> QED
    BY <2>1, Zenon DEF Has, Knows
<1>7. \A e \in 1..(seq + 1) : e \in 1..seq \/ e = seq + 1
  BY <1>0 DEF EvTypeOK
<1>8. ASSUME NEW s \in subscribers', NEW e \in 1..seq'
      PROVE  (\E k \in EvLoggers : elog'[k].at # "idle" /\ elog'[k].ev = e) \/ Knows(s, e)'
  <2>1. CASE e = seq + 1
    BY <1>5, <2>1
  <2>2. CASE e \in 1..seq
    BY <1>0, <1>1, <1>5, <1>6, <2>2 DEF EvInv, EvTypeOK
  <2> QED
    BY <1>1, <1>7, <2>1, <2>2, Zenon
<1>9. \A k \in EvLoggers : elog'[k].at = "send" => k # l
  BY <1>5
<1> QED
  BY <1>0, <1>1, <1>3, <1>4, <1>5, <1>6, <1>8, <1>9 DEF EvInv, EvTypeOK

\* An event is on its way to every subscriber there is.
LEMMA PublishInv ==
  ASSUME EvInv, NEW l \in EvLoggers, PublishEvent(l) \/ Published(l) PROVE EvInv'
<1>0. EvTypeOK
  BY DEF EvInv
<1> DEFINE new == IF elog[l].at = "publish" THEN [elog[l] EXCEPT !.at = "send", !.todo = subscribers]
                  ELSE [elog[l] EXCEPT !.at = "idle"]
<1>1. /\ UNCHANGED <<events, esub, subscribers, seq, egone>>
      /\ elog' = [elog EXCEPT ![l] = new]
      /\ elog[l].at = "publish" \/ (elog[l].at = "send" /\ elog[l].todo = {})
  BY DEF PublishEvent, Published
<1>2. /\ new \in LogState /\ new.ev = elog[l].ev
      /\ \/ elog[l].at = "publish" /\ new.at = "send" /\ new.todo = subscribers
         \/ elog[l].at = "send" /\ elog[l].todo = {} /\ new.at = "idle"
  BY <1>0, <1>1, Zenon DEF EvTypeOK, LogState
<1> HIDE DEF new
<1>3. elog'[l] = new /\ \A k \in EvLoggers : k # l => elog'[k] = elog[k]
  BY <1>0, <1>1 DEF EvTypeOK
<1>4. EvTypeOK' /\ LastStored'
  BY <1>0, <1>1, <1>2, Zenon DEF EvInv, EvTypeOK, LastStored
<1>5. \A s \in EvSubs : Has(s)' = Has(s) /\ \A e : Knows(s, e)' <=> Knows(s, e)
  <2>1. esub' = esub
    BY <1>1
  <2> QED
    BY <2>1, Zenon DEF Has, Knows
<1>6. ASSUME NEW k \in EvLoggers, elog'[k].at = "send"
      PROVE  /\ elog'[k].todo \subseteq subscribers'
             /\ \A s \in subscribers' : s \in elog'[k].todo \/ elog'[k].ev \in Has(s)'
  <2>1. CASE k = l
    BY <1>1, <1>2, <1>3, <1>6, <2>1, Zenon
  <2>2. CASE k # l
    BY <1>0, <1>1, <1>3, <1>5, <1>6, <2>2 DEF EvInv, EvTypeOK
  <2> QED
    BY <2>1, <2>2, Zenon
<1>7. ASSUME NEW s \in subscribers', NEW e \in 1..seq'
      PROVE  (\E k \in EvLoggers : elog'[k].at # "idle" /\ elog'[k].ev = e) \/ Knows(s, e)'
  <2>1. s \in subscribers /\ s \in EvSubs /\ e \in 1..seq
    BY <1>0, <1>1, <1>7 DEF EvTypeOK
  <2>2. CASE Knows(s, e)
    BY <1>5, <2>1, <2>2
  <2>3. CASE elog[l].at = "send" /\ elog[l].todo = {} /\ elog[l].ev = e
    <3>1. e \in Has(s)
      BY <2>1, <2>3, Zenon DEF EvInv
    <3> QED
      BY <1>5, <2>1, <3>1, Zenon DEF Knows
  <2>4. CASE elog[l].at = "publish" /\ elog[l].ev = e
    BY <1>2, <1>3, <2>4, Zenon
  <2>5. ASSUME NEW k \in EvLoggers, k # l, elog[k].at # "idle", elog[k].ev = e
        PROVE  elog'[k].at # "idle" /\ elog'[k].ev = e
    BY <1>3, <2>5
  <2> QED
    BY <1>1, <2>1, <2>2, <2>3, <2>4, <2>5, Zenon DEF EvInv
<1> QED
  BY <1>1, <1>4, <1>6, <1>7, Zenon DEF EvInv

\* The event reaches one of the subscribers, which is not gone.
LEMMA SendTopicInv ==
  ASSUME EvInv, NEW l \in EvLoggers, NEW s \in EvSubs, SendTopic(l, s) PROVE EvInv'
<1>0. EvTypeOK
  BY DEF EvInv
<1> DEFINE e0 == elog[l].ev
           new == IF Len(esub[s].chan) < bufferSize
                  THEN [esub[s] EXCEPT !.chan = Append(@, elog[l].ev)]
                  ELSE [esub[s] EXCEPT !.late = @ \cup {elog[l].ev}]
           sending == [elog[l] EXCEPT !.todo = @ \ {s}]
<1>1. elog[l].at = "send" /\ s \in elog[l].todo /\ s \in subscribers /\ esub[s].at = "on"
  BY Zenon DEF EvInv, SendTopic
<1>2. /\ elog' = [elog EXCEPT ![l] = sending]
      /\ UNCHANGED <<egone, events, subscribers, seq>>
      /\ esub' = [esub EXCEPT ![s] = new]
  <2>1. esub[s].at # "closed"
    BY <1>1
  <2>2. elog' = [elog EXCEPT ![l] = sending] /\ UNCHANGED <<events, subscribers, seq>>
    BY Zenon DEF SendTopic
  <2>3. UNCHANGED egone /\ esub' = [esub EXCEPT ![s] = new]
    BY <2>1, Zenon DEF SendTopic
  <2> QED
    BY <2>2, <2>3, Zenon
<1>3. elog[l] \in LogState /\ esub[s] \in SubState
  BY <1>0 DEF EvTypeOK
<1>4. /\ sending \in LogState /\ sending.at = "send" /\ sending.ev = e0
      /\ sending.todo = elog[l].todo \ {s}
  BY <1>1, <1>3, Zenon DEF LogState
<1>5. e0 \in Nat /\ esub[s].chan \in Seq(Nat) /\ Append(esub[s].chan, e0) \in Seq(Nat)
  BY <1>3 DEF LogState, SubState
<1>6. /\ new \in SubState /\ new.at = "on" /\ new.buffered = esub[s].buffered
      /\ new.got = esub[s].got
      /\ \/ new.chan = Append(esub[s].chan, e0) /\ new.late = esub[s].late
         \/ new.chan = esub[s].chan /\ new.late = esub[s].late \cup {e0}
  <2>1. CASE Len(esub[s].chan) < bufferSize
    BY <1>1, <1>3, <1>5, <2>1, Zenon DEF SubState
  <2>2. CASE ~(Len(esub[s].chan) < bufferSize)
    BY <1>1, <1>3, <1>5, <2>2, Zenon DEF SubState
  <2> QED
    BY <2>1, <2>2, Zenon
<1> HIDE DEF new, sending, e0
<1>7. /\ elog'[l] = sending /\ \A k \in EvLoggers : k # l => elog'[k] = elog[k]
      /\ esub'[s] = new /\ \A t \in EvSubs : t # s => esub'[t] = esub[t]
  BY <1>0, <1>2 DEF EvTypeOK
<1>8. Has(s) \subseteq Has(s)' /\ e0 \in Has(s)'
  <2>1. InSeq(Append(esub[s].chan, e0)) = InSeq(esub[s].chan) \cup {e0}
    BY <1>5, MembersOf
  <2>2. Has(s)' = InSeq(new.buffered) \cup InSeq(new.chan) \cup new.got \cup new.late
    BY <1>7, Zenon DEF Has
  <2> QED
    BY <1>6, <2>1, <2>2, Zenon DEF Has
<1>9. \A t \in EvSubs : t # s => Has(t)' = Has(t) /\ esub'[t].buffered = esub[t].buffered
  BY <1>7, Zenon DEF Has
<1>10. \A t \in EvSubs : \A e : Knows(t, e) => Knows(t, e)'
  BY <1>6, <1>7, <1>8, <1>9, Zenon DEF Knows
<1>11. EvTypeOK' /\ LastStored'
  BY <1>0, <1>2, <1>4, <1>6, Zenon DEF EvInv, EvTypeOK, LastStored
<1>12. ASSUME NEW k \in EvLoggers, elog'[k].at = "send"
       PROVE  /\ elog'[k].todo \subseteq subscribers'
              /\ \A t \in subscribers' : t \in elog'[k].todo \/ elog'[k].ev \in Has(t)'
  <2>1. /\ elog[k].at = "send" /\ elog'[k].ev = elog[k].ev /\ elog'[k].todo \subseteq elog[k].todo
        /\ \A t \in EvSubs : t \in elog[k].todo => t \in elog'[k].todo \/ (k = l /\ t = s)
    BY <1>1, <1>4, <1>7, <1>12, Zenon DEF e0
  <2>2. \A t \in subscribers' : t \in EvSubs /\ t \in subscribers
    BY <1>0, <1>2 DEF EvTypeOK
  <2>3. \A t \in EvSubs : Has(t) \subseteq Has(t)'
    BY <1>8, <1>9
  <2>4. /\ elog[k].todo \subseteq subscribers
        /\ \A t \in subscribers : t \in elog[k].todo \/ elog[k].ev \in Has(t)
    BY <2>1, Zenon DEF EvInv
  <2>5. k = l => elog'[k].ev = e0
    BY <2>1 DEF e0
  <2> QED
    BY <1>2, <1>8, <2>1, <2>2, <2>3, <2>4, <2>5, Zenon
<1>13. ASSUME NEW t \in subscribers', NEW e \in 1..seq'
       PROVE  (\E k \in EvLoggers : elog'[k].at # "idle" /\ elog'[k].ev = e) \/ Knows(t, e)'
  <2>1. t \in subscribers /\ t \in EvSubs /\ e \in 1..seq
    BY <1>0, <1>2, <1>13 DEF EvTypeOK
  <2>2. \A k \in EvLoggers : elog[k].at # "idle" => elog'[k].at # "idle" /\ elog'[k].ev = elog[k].ev
    BY <1>4, <1>7, Zenon DEF e0
  <2> QED
    BY <1>10, <2>1, <2>2 DEF EvInv
<1>14. \A t \in EvSubs : t \in subscribers' <=> esub'[t].at = "on"
  BY <1>1, <1>2, <1>6, <1>7 DEF EvInv
<1> QED
  BY <1>2, <1>11, <1>12, <1>13, <1>14, Zenon DEF EvInv

\* A client subscribes, and takes what is stored, while nobody publishes.
LEMMA SubscribeInv == ASSUME EvInv, NEW s \in EvSubs, Subscribe(s) PROVE EvInv'
<1>0. EvTypeOK /\ LastStored
  BY DEF EvInv
<1> DEFINE new == [esub[s] EXCEPT !.at = "on", !.buffered = events]
<1>1. /\ UNCHANGED <<egone, events, elog, seq>> /\ subscribers' = subscribers \cup {s}
      /\ esub' = [esub EXCEPT ![s] = new] /\ \A l \in EvLoggers : elog[l].at # "send"
  BY DEF Subscribe, Publishing
<1>2. new \in SubState /\ new.at = "on" /\ new.buffered = events
  <2>1. esub[s] \in SubState /\ events \in Seq(Nat)
    BY <1>0 DEF EvTypeOK
  <2> QED
    BY <2>1, Zenon DEF SubState
<1> HIDE DEF new
<1>3. esub'[s] = new /\ \A t \in EvSubs : t # s => esub'[t] = esub[t]
  BY <1>0, <1>1 DEF EvTypeOK
<1>4. EvTypeOK' /\ LastStored'
  <2>1. esub' \in [EvSubs -> SubState] /\ subscribers' \in SUBSET EvSubs
    BY <1>0, <1>1, <1>2 DEF EvTypeOK
  <2> QED
    BY <1>0, <1>1, <2>1, Zenon DEF EvTypeOK, LastStored
<1>5. ASSUME NEW e \in 1..seq PROVE Knows(s, e)'
  <2>1. /\ seq \in Nat /\ Len(events) \in Nat /\ DOMAIN events = 1..Len(events)
        /\ Len(events) \in 1..Len(events) /\ events[Len(events)] = seq
    <3>1. seq \in Nat /\ seq # 0 /\ events \in Seq(Nat)
      BY <1>0, <1>5 DEF EvTypeOK
    <3>2. events # <<>>
      BY <1>0, <3>1 DEF LastStored
    <3>3. Len(events) \in Nat /\ Len(events) \in 1..Len(events) /\ DOMAIN events = 1..Len(events)
      BY <3>1, <3>2
    <3>4. events[Len(events)] = seq - Len(events) + Len(events)
      BY <1>0, <3>3 DEF LastStored
    <3> QED
      BY <3>1, <3>3, <3>4
  <2>2. seq \in InSeq(events)
    BY <2>1, Zenon DEF InSeq
  <2>3. e = seq \/ e < seq
    BY <1>5, <2>1
  <2>4. seq \in InSeq(esub'[s].buffered)
    BY <1>2, <1>3, <2>2
  <2> QED
    BY <2>3, <2>4, Zenon DEF Knows, Has
<1>6. \A t \in EvSubs : \A e : t # s => (Knows(t, e)' <=> Knows(t, e))
  BY <1>3, Zenon DEF Knows, Has
<1>7. ASSUME NEW t \in subscribers', NEW e \in 1..seq'
      PROVE  (\E k \in EvLoggers : elog'[k].at # "idle" /\ elog'[k].ev = e) \/ Knows(t, e)'
  <2>1. e \in 1..seq /\ (t = s \/ t \in subscribers) /\ t \in EvSubs
    BY <1>0, <1>1, <1>7 DEF EvTypeOK
  <2> QED
    BY <1>1, <1>5, <1>6, <2>1, Zenon DEF EvInv
<1>8. \A t \in EvSubs : t \in subscribers' <=> esub'[t].at = "on"
  BY <1>1, <1>2, <1>3, Zenon DEF EvInv
<1>9. \A l \in EvLoggers : elog'[l].at # "send"
  BY <1>1
<1> QED
  BY <1>1, <1>4, <1>7, <1>8, <1>9, Zenon DEF EvInv

\* A subscriber takes an event from its channel.
LEMMA ReceiveEventInv == ASSUME EvInv, NEW s \in EvSubs, ReceiveEvent(s) PROVE EvInv'
<1>0. EvTypeOK
  BY DEF EvInv
<1> DEFINE new == [esub[s] EXCEPT !.got = @ \cup {Head(esub[s].chan)}, !.chan = Tail(@)]
<1>1. /\ UNCHANGED <<egone, events, elog, seq, subscribers>> /\ esub[s].at = "on"
      /\ esub' = [esub EXCEPT ![s] = new] /\ esub[s].chan # <<>>
  BY Zenon DEF ReceiveEvent
<1>2. esub[s] \in SubState /\ esub[s].chan \in Seq(Nat)
  BY <1>0 DEF EvTypeOK, SubState
<1>3. Head(esub[s].chan) \in Nat /\ Tail(esub[s].chan) \in Seq(Nat)
  BY <1>1, <1>2, MembersOf, Zenon
<1>4. /\ new \in SubState /\ new.at = "on" /\ new.buffered = esub[s].buffered
      /\ new.got = esub[s].got \cup {Head(esub[s].chan)} /\ new.late = esub[s].late
      /\ new.chan = Tail(esub[s].chan)
  BY <1>1, <1>2, <1>3, Zenon DEF SubState
<1> HIDE DEF new
<1>5. esub'[s] = new /\ \A t \in EvSubs : t # s => esub'[t] = esub[t]
  BY <1>0, <1>1 DEF EvTypeOK
<1>6. EvTypeOK' /\ LastStored'
  <2>1. esub' \in [EvSubs -> SubState]
    BY <1>0, <1>1, <1>4, Zenon DEF EvTypeOK
  <2> QED
    BY <1>0, <1>1, <2>1, Zenon DEF EvInv, EvTypeOK, LastStored
<1>7. \A t \in EvSubs : Has(t) \subseteq Has(t)' /\ esub'[t].buffered = esub[t].buffered
  <2>1. InSeq(esub[s].chan) \subseteq {Head(esub[s].chan)} \cup InSeq(Tail(esub[s].chan))
    BY <1>1, <1>2, MembersOf, Zenon
  <2>2. Has(s)' = InSeq(new.buffered) \cup InSeq(new.chan) \cup new.got \cup new.late
    BY <1>5, Zenon DEF Has
  <2>3. Has(s) \subseteq Has(s)' /\ esub'[s].buffered = esub[s].buffered
    BY <1>4, <1>5, <2>1, <2>2, Zenon DEF Has
  <2>4. \A t \in EvSubs : t # s => Has(t)' = Has(t) /\ esub'[t].buffered = esub[t].buffered
    BY <1>5, Zenon DEF Has
  <2> QED
    BY <2>3, <2>4
<1>8. \A t \in EvSubs : \A e : Knows(t, e) => Knows(t, e)'
  BY <1>7 DEF Knows
<1>9. ASSUME NEW l \in EvLoggers, elog'[l].at = "send"
      PROVE  /\ elog'[l].todo \subseteq subscribers'
             /\ \A t \in subscribers' : t \in elog'[l].todo \/ elog'[l].ev \in Has(t)'
  BY <1>0, <1>1, <1>7, <1>9, Zenon DEF EvInv, EvTypeOK
<1>10. ASSUME NEW t \in subscribers', NEW e \in 1..seq'
       PROVE  (\E k \in EvLoggers : elog'[k].at # "idle" /\ elog'[k].ev = e) \/ Knows(t, e)'
  BY <1>0, <1>1, <1>8, <1>10, Zenon DEF EvInv, EvTypeOK
<1>11. \A t \in EvSubs : t \in subscribers' <=> esub'[t].at = "on"
  BY <1>1, <1>4, <1>5 DEF EvInv
<1> QED
  BY <1>1, <1>6, <1>9, <1>10, <1>11, Zenon DEF EvInv

\* A client goes while nobody publishes: its channel is in no publication.
LEMMA EvictInv == ASSUME EvInv, NEW s \in EvSubs, Evict(s) PROVE EvInv'
<1>0. EvTypeOK /\ LastStored
  BY DEF EvInv
<1> DEFINE new == [esub[s] EXCEPT !.at = "closed"]
<1>1. /\ UNCHANGED <<egone, events, elog, seq>> /\ subscribers' = subscribers \ {s}
      /\ esub' = [esub EXCEPT ![s] = new] /\ \A l \in EvLoggers : elog[l].at # "send"
  BY DEF Evict, Publishing
<1>2. new \in SubState /\ new.at = "closed"
  <2>1. esub[s] \in SubState
    BY <1>0 DEF EvTypeOK
  <2> QED
    BY <2>1, Zenon DEF SubState
<1> HIDE DEF new
<1>3. esub'[s] = new /\ \A t \in EvSubs : t # s => esub'[t] = esub[t]
  BY <1>0, <1>1 DEF EvTypeOK
<1>4. EvTypeOK' /\ LastStored'
  <2>1. esub' \in [EvSubs -> SubState] /\ subscribers' \in SUBSET EvSubs
    BY <1>0, <1>1, <1>2 DEF EvTypeOK
  <2> QED
    BY <1>0, <1>1, <2>1, Zenon DEF EvTypeOK, LastStored
<1>5. \A t \in EvSubs : \A e : t # s => (Knows(t, e)' <=> Knows(t, e))
  BY <1>3, Zenon DEF Knows, Has
<1>6. ASSUME NEW t \in subscribers', NEW e \in 1..seq'
      PROVE  (\E k \in EvLoggers : elog'[k].at # "idle" /\ elog'[k].ev = e) \/ Knows(t, e)'
  <2>1. e \in 1..seq /\ t # s /\ t \in subscribers /\ t \in EvSubs
    BY <1>0, <1>1, <1>6 DEF EvTypeOK
  <2> QED
    BY <1>1, <1>5, <2>1, Zenon DEF EvInv
<1>7. \A t \in EvSubs : t \in subscribers' <=> esub'[t].at = "on"
  BY <1>1, <1>2, <1>3, Zenon DEF EvInv
<1>8. \A l \in EvLoggers : elog'[l].at # "send"
  BY <1>1
<1> QED
  BY <1>1, <1>4, <1>6, <1>7, <1>8, Zenon DEF EvInv

\* The inductive invariant of the events of the daemon.
THEOREM SpecEvInv == EvSpec => []EvInv
<1>1. EvInit => EvInv
  <2> SUFFICES ASSUME EvInit PROVE EvInv
    OBVIOUS
  <2>1. EvTypeOK
    <3>1. [at |-> "idle", ev |-> 0, todo |-> {}] \in LogState
      BY DEF LogState
    <3>2. [at |-> "off", buffered |-> <<>>, chan |-> <<>>, got |-> {}, late |-> {}] \in SubState
      BY DEF SubState
    <3> QED
      BY <3>1, <3>2 DEF EvInit, EvTypeOK
  <2>2. LastStored
    BY DEF EvInit, LastStored
  <2>3. ~egone
    BY Zenon DEF EvInit
  <2> QED
    BY <2>1, <2>2, <2>3, Zenon DEF EvInit, EvInv
<1>2. EvInv /\ [EvNext]_evVars => EvInv'
  <2> SUFFICES ASSUME EvInv, [EvNext]_evVars PROVE EvInv'
    OBVIOUS
  <2>1. CASE UNCHANGED evVars
    BY <2>1, Zenon DEF evVars, EvInv, EvTypeOK, LastStored, Has, Knows
  <2>2. CASE EvNext
    BY <2>2, LogEventInv, PublishInv, SendTopicInv, SubscribeInv, ReceiveEventInv, EvictInv, Zenon
    DEF EvNext
  <2> QED
    BY <2>1, <2>2
<1> QED
  BY <1>1, <1>2, PTL DEF EvSpec

\* Whatever the clients and those who log do: an event of which the publication is
\* over has reached every client that is subscribed, from the store or through its
\* channel, or it was too slow for it; and no event goes to a closed channel.
THEOREM SubscribersMissNothing == EvSpec => []NoEventMissed
<1>1. EvInv => NoEventMissed
  <2> SUFFICES ASSUME EvInv PROVE NoEventMissed
    OBVIOUS
  <2>1. ASSUME NEW s \in EvSubs, esub[s].at = "on", NEW e \in 1..seq
        PROVE  \/ \E l \in EvLoggers : elog[l].at # "idle" /\ elog[l].ev = e
               \/ Knows(s, e)
    BY <2>1 DEF EvInv
  <2>2. ~egone
    BY DEF EvInv
  <2> QED
    BY <2>1, <2>2, Zenon DEF NoEventMissed, Knows, Has
<1> QED
  BY SpecEvInv, <1>1, PTL
-----------------------------------------------------------------------------
Ops == {"create", "get", "getref", "remove", "deref"}
\* Where a process is in a call, under the lock of the name.
Locked == Ops \cup {"driver", "save", "set", "unlink", "purge"}
Calls == [op : Ops, name : Names, driver : Drivers \cup {Nil}]
Getting == {"create", "create anonymous", "start", "restore"}
Removing == {"rm", "rm -v"}
Jobs == Getting \cup Removing \cup {"none", "volume create", "volume rm", "start config"}

\* The types of the variables.
VolTypeOK ==
  /\ lock \in [Names -> Procs \cup {Nil}]
  /\ names \in [Names -> Drivers \cup {Nil}]
  /\ refs \in [Names -> SUBSET Containers]
  /\ vols \in SUBSET (Drivers \X Names)
  /\ up \in SUBSET Drivers
  /\ pc \in [Procs -> Locked \cup {"idle", "call", "done"}]
  /\ call \in [Procs -> Calls \cup {NoCall}]
  /\ got \in [Procs -> Drivers \cup {Nil}]
  /\ job \in [Procs -> Jobs]
  /\ mount \in [Containers -> Mounts \cup {Nil}]
  /\ made \in [Containers -> Mounts \cup {Nil}]
  /\ booting \in SUBSET Containers
  /\ load \in Loads

\* A call that is past its start has the lock of its name.  What it is about to store is
\* a volume that exists, and what it removes has no references.
CallOK(p) ==
  /\ pc[p] # "idle" => call[p] \in Calls
  /\ pc[p] \in Ops => call[p].op = pc[p]
  /\ pc[p] \in {"driver", "save"} => call[p].op = "create"
  /\ pc[p] = "set" => call[p].op \in {"create", "get", "getref"}
  /\ pc[p] \in {"unlink", "purge"} => call[p].op = "remove"
  /\ pc[p] \in Locked => lock[call[p].name] = p
  /\ pc[p] \in {"save", "set"} => got[p] # Nil /\ <<got[p], call[p].name>> \in vols
  /\ pc[p] \in {"unlink", "purge"} => refs[call[p].name] = {}

\* The volume stored under a name exists, or is being removed.
NamedOK(n) ==
  names[n] # Nil => \/ <<names[n], n>> \in vols
                    \/ \E p \in Procs : pc[p] = "purge" /\ call[p].name = n

\* What the request for a container has made so far, and that its result exists as long as
\* the store knows the reference.
JobOK(c) ==
  /\ job[c] = "none" <=> pc[c] = "idle"
  /\ job[c] \notin {"volume create", "volume rm"}
  /\ job[c] \in {"create", "create anonymous"} =>
       /\ mount[c] = Nil /\ made[c] # Nil /\ made[c].name = call[c].name
       /\ call[c].op \in {"create", "getref"}
  /\ job[c] \in {"start", "restore"} =>
       /\ mount[c] # Nil /\ mount[c].volume = Nil /\ mount[c].name = call[c].name
       /\ mount[c].driver = call[c].driver /\ call[c].op = "getref"
  /\ job[c] \in Removing => mount[c] = Nil /\ made[c] # Nil /\ call[c].op \in {"deref", "remove"}
  /\ job[c] = "start config" => call[c].op = "deref"
  /\ pc[c] = "done" /\ job[c] \in Getting /\ got[c] # Nil /\ c \in refs[call[c].name] =>
       <<got[c], call[c].name>> \in vols

\* The volume of the mount point of a container that the store refers to exists.
MountOK(c) ==
  mount[c] # Nil /\ mount[c].volume # Nil /\ c \in refs[mount[c].name] =>
    <<mount[c].volume, mount[c].name>> \in vols

\* While the daemon starts, nothing else happens.
BootOK ==
  /\ \A c \in booting : mount[c] # Nil /\ mount[c].volume = Nil
  /\ booting # {} => \A p \in Procs : pc[p] = "idle" \/ (p \in booting /\ job[p] = "restore")
  /\ \A c \in Containers : job[c] = "restore" => c \in booting

\* A lookup for a mount point ends with its volume, or without one when the container has
\* had no reference since its automatic restart failed.
FindsOK(c) ==
  job[c] \in {"start", "restore"} /\ pc[c] \in {"set", "done"} =>
    got[c] = mount[c].driver \/ (got[c] = Nil /\ c \in missed)

\* The references of a container, when nothing that loses them is used: every mount point
\* has its volume, and a reference from the end of the call that sets it, but for those of
\* containers whose automatic restart failed.
PlainOK(c) ==
  /\ c \in missed => mount[c] # Nil /\ mount[c].volume = Nil
  /\ mount[c] # Nil /\ c \notin missed =>
       /\ <<mount[c].driver, mount[c].name>> \in vols
       /\ IF mount[c].volume = Nil THEN c \in booting ELSE c \in refs[mount[c].name]
  /\ job[c] # "start config" /\ (job[c] = "start" => c \in missed)
  /\ FindsOK(c)
  /\ job[c] \in Getting /\ pc[c] = "done" /\ got[c] # Nil => c \in refs[call[c].name]
  /\ \A n \in Names : c \in refs[n] =>
       \/ pc[c] = "idle" /\ mount[c] # Nil /\ mount[c].name = n /\ mount[c].volume # Nil
       \/ job[c] \in Getting /\ pc[c] = "done" /\ got[c] # Nil /\ call[c].name = n
       \/ /\ job[c] \in Removing /\ pc[c] \in {"call", "deref"}
          /\ call[c].op = "deref" /\ call[c].name = n

\* The inductive invariant of the volume store and of the daemon's use of it.
VolInv ==
  /\ VolTypeOK /\ BootOK
  /\ \A p \in Procs : CallOK(p)
  /\ \A n \in Names : NamedOK(n)
  /\ \A c \in Containers : JobOK(c) /\ MountOK(c)
  /\ Plain => up = Drivers /\ \A c \in Containers : PlainOK(c)

-----------------------------------------------------------------------------
\* What a step of the store for p leaves alone: all that belongs to other names and, but
\* for a volume without references, to other processes.
StoreFrame(p) ==
  /\ UNCHANGED <<up, call, load, job, mount, made, booting, missed>>
  /\ \A q \in Procs : q # p => pc'[q] = pc[q] /\ got'[q] = got[q]
  /\ pc[p] \in Locked \/ (pc[p] = "call" /\ lock[call[p].name] = Nil)
  /\ pc'[p] \in Locked \cup {"done"}
  /\ \A n \in Names : n # call[p].name => lock'[n] = lock[n] /\ names'[n] = names[n] /\ refs'[n] = refs[n]
  /\ \A n \in Names : \A d : d # p => (d \in refs'[n] <=> d \in refs[n])
  /\ \A d, n : <<d, n>> \in vols => <<d, n>> \in vols' \/ (pc[p] = "unlink" /\ n = call[p].name)

\* A process on its way through the store is not waiting for the restart to be over, and
\* the name it has the lock of is no other process's.
LEMMA OwnName ==
  ASSUME VolInv, NEW p \in Procs, NEW q \in Procs, q # p, pc[q] \in Locked,
         pc[p] \in Locked \/ (pc[p] = "call" /\ lock[call[p].name] = Nil)
  PROVE  call[q].name \in Names /\ call[q].name # call[p].name
<1>1. CallOK(p) /\ CallOK(q)
  BY DEF VolInv
<1>2. Nil \notin Procs /\ "idle" \notin Locked
  BY VolumeAssumption, Zenon DEF Procs, Locked, Ops
<1>3. call[q] \in Calls
  BY <1>1, <1>2, Zenon DEF CallOK
<1>4. lock[call[q].name] = q /\ (lock[call[p].name] = p \/ lock[call[p].name] = Nil)
  BY <1>1, Zenon DEF CallOK
<1> QED
  BY <1>2, <1>3, <1>4 DEF Calls

\* A removal under way means that the daemon serves requests.
LEMMA ServesRequests ==
  ASSUME VolInv, NEW p \in Procs, pc[p] = "unlink"
  PROVE  booting = {} /\ refs[call[p].name] = {}
<1>1. call[p].op = "remove" /\ refs[call[p].name] = {}
  <2>1. CallOK(p)
    BY Zenon DEF VolInv
  <2> QED
    BY <2>1, Zenon DEF CallOK
<1>2. p \in booting /\ job[p] = "restore" => call[p].op = "getref"
  BY Zenon DEF VolInv, VolTypeOK, JobOK
<1> QED
  BY <1>1, <1>2 DEF VolInv, BootOK

\* The step of one process in the store keeps what is said of the others.
LEMMA StoreOthers ==
  ASSUME VolInv, NEW p \in Procs, StoreFrame(p)
  PROVE  /\ BootOK'
         /\ \A q \in Procs : q # p => CallOK(q)'
         /\ \A n \in Names : n # call[p].name => NamedOK(n)'
         /\ \A c \in Containers : c # p => JobOK(c)' /\ MountOK(c)' /\ (Plain => PlainOK(c)')
<1>1. BootOK'
  <2>1. booting # {} => p \in booting /\ job[p] = "restore"
    BY DEF VolInv, BootOK, StoreFrame, Locked, Ops
  <2> QED
    BY <2>1, Zenon DEF VolInv, BootOK, StoreFrame
<1>2. ASSUME NEW q \in Procs, q # p PROVE CallOK(q)'
  <2>1. CallOK(q) /\ pc'[q] = pc[q] /\ got'[q] = got[q] /\ call'[q] = call[q]
    BY <1>2, Zenon DEF VolInv, StoreFrame
  <2>2. CASE pc[q] \notin Locked
    BY <2>1, <2>2 DEF CallOK, Locked, Ops
  <2>3. CASE pc[q] \in Locked
    <3>1. call[q].name \in Names /\ call[q].name # call[p].name
      BY <1>2, <2>3, OwnName, Zenon DEF StoreFrame
    <3>2. /\ lock'[call[q].name] = lock[call[q].name] /\ refs'[call[q].name] = refs[call[q].name]
          /\ \A d : <<d, call[q].name>> \in vols => <<d, call[q].name>> \in vols'
      BY <3>1, Zenon DEF StoreFrame
    <3> QED
      BY <2>1, <3>2, Zenon DEF CallOK
  <2> QED
    BY <2>2, <2>3
<1>3. ASSUME NEW n \in Names, n # call[p].name PROVE NamedOK(n)'
  <2>1. NamedOK(n) /\ names'[n] = names[n]
    BY <1>3, Zenon DEF VolInv, StoreFrame
  <2>2. \A q \in Procs : pc[q] = "purge" /\ call[q].name = n => pc'[q] = "purge" /\ call'[q].name = n
    BY <1>3, Zenon DEF StoreFrame
  <2>3. \A d : <<d, n>> \in vols => <<d, n>> \in vols'
    BY <1>3, Zenon DEF StoreFrame
  <2> QED
    BY <2>1, <2>2, <2>3, Zenon DEF NamedOK
<1>4. ASSUME NEW c \in Containers, c # p PROVE JobOK(c)' /\ MountOK(c)' /\ (Plain => PlainOK(c)')
  <2>1. /\ JobOK(c) /\ MountOK(c) /\ (Plain => PlainOK(c)) /\ c \in Procs
        /\ pc'[c] = pc[c] /\ got'[c] = got[c]
        /\ UNCHANGED <<call, job, mount, made, booting, missed>>
    BY <1>4, Zenon DEF VolInv, StoreFrame, Procs
  <2>2. \A n \in Names : c \in refs'[n] <=> c \in refs[n]
    BY <1>4, Zenon DEF StoreFrame
  <2>3. \A d, n : n \in Names /\ <<d, n>> \in vols /\ c \in refs[n] => <<d, n>> \in vols'
    <3>1. pc[p] = "unlink" => refs[call[p].name] = {}
      BY ServesRequests, Zenon
    <3> QED
      BY <3>1 DEF StoreFrame
  <2>4. mount[c] # Nil => mount[c].name \in Names
    BY DEF VolInv, VolTypeOK, Mounts
  <2>5. pc[c] = "done" => call[c].name \in Names
    <3>1. pc[c] # "idle" => call[c] \in Calls
      BY <2>1, Zenon DEF VolInv, CallOK
    <3> QED
      BY <3>1 DEF Calls
  <2>6. JobOK(c)'
    BY <2>1, <2>2, <2>3, <2>5, Zenon DEF JobOK
  <2>7. MountOK(c)'
    BY <2>1, <2>2, <2>3, <2>4, Zenon DEF MountOK
  <2>8. ASSUME Plain PROVE PlainOK(c)'
    <3>1. mount[c] # Nil /\ c \notin missed => <<mount[c].driver, mount[c].name>> \in vols'
      BY <2>1, <2>3, <2>4, <2>8, ServesRequests, Zenon DEF PlainOK, StoreFrame
    <3>2. FindsOK(c)'
      BY <2>1, <2>8, Zenon DEF PlainOK, FindsOK
    <3> QED
      BY <2>1, <2>2, <2>4, <2>5, <2>8, <3>1, <3>2, Zenon DEF PlainOK
  <2> QED
    BY <2>6, <2>7, <2>8
<1> QED
  BY <1>1, <1>2, <1>3, <1>4

\* The assignments of a step of the store.
StoreShape(p) ==
  /\ UNCHANGED <<up, call, load, job, mount, made, booting, missed>>
  /\ pc[p] \in Locked \/ (pc[p] = "call" /\ lock[call[p].name] = Nil)
  /\ \E w \in Locked \cup {"done"} : pc' = [pc EXCEPT ![p] = w]
  /\ got' = got \/ \E d \in Drivers \cup {Nil} : got' = [got EXCEPT ![p] = d]
  /\ lock' = lock \/ \E q \in {p, Nil} : lock' = [lock EXCEPT ![call[p].name] = q]
  /\ names' = names \/ \E d \in Drivers \cup {Nil} : names' = [names EXCEPT ![call[p].name] = d]
  /\ \/ refs' = refs
     \/ \E S \in SUBSET Containers : /\ refs' = [refs EXCEPT ![call[p].name] = S]
                                     /\ \A d : d # p => (d \in S <=> d \in refs[call[p].name])
  /\ vols' \in SUBSET (Drivers \X Names)
  /\ \A d, n : <<d, n>> \in vols => <<d, n>> \in vols' \/ (pc[p] = "unlink" /\ n = call[p].name)

LEMMA ShapeFrame ==
  ASSUME VolInv, NEW p \in Procs, StoreShape(p)
  PROVE  VolTypeOK' /\ StoreFrame(p)
<1>1. VolTypeOK
  BY DEF VolInv
<1>2. /\ pc' \in [Procs -> Locked \cup {"idle", "call", "done"}] /\ pc'[p] \in Locked \cup {"done"}
      /\ \A q \in Procs : q # p => pc'[q] = pc[q]
  <2>1. pc \in [Procs -> Locked \cup {"idle", "call", "done"}]
    BY <1>1, Zenon DEF VolTypeOK
  <2>2. PICK w \in Locked \cup {"done"} : pc' = [pc EXCEPT ![p] = w]
    BY Zenon DEF StoreShape
  <2> QED
    BY <2>1, <2>2
<1>3. got' \in [Procs -> Drivers \cup {Nil}] /\ \A q \in Procs : q # p => got'[q] = got[q]
  <2>1. got \in [Procs -> Drivers \cup {Nil}]
    BY <1>1, Zenon DEF VolTypeOK
  <2>2. got' = got \/ \E d \in Drivers \cup {Nil} : got' = [got EXCEPT ![p] = d]
    BY Zenon DEF StoreShape
  <2> QED
    BY <2>1, <2>2
<1>4. /\ lock' \in [Names -> Procs \cup {Nil}]
      /\ \A n \in Names : n # call[p].name => lock'[n] = lock[n]
  <2>1. lock \in [Names -> Procs \cup {Nil}]
    BY <1>1, Zenon DEF VolTypeOK
  <2>2. lock' = lock \/ \E q \in {p, Nil} : lock' = [lock EXCEPT ![call[p].name] = q]
    BY Zenon DEF StoreShape
  <2> QED
    BY <2>1, <2>2
<1>5. /\ names' \in [Names -> Drivers \cup {Nil}]
      /\ \A n \in Names : n # call[p].name => names'[n] = names[n]
  <2>1. names \in [Names -> Drivers \cup {Nil}]
    BY <1>1, Zenon DEF VolTypeOK
  <2>2. names' = names \/ \E d \in Drivers \cup {Nil} : names' = [names EXCEPT ![call[p].name] = d]
    BY Zenon DEF StoreShape
  <2> QED
    BY <2>1, <2>2
<1>6. /\ refs' \in [Names -> SUBSET Containers]
      /\ \A n \in Names : n # call[p].name => refs'[n] = refs[n]
      /\ \A n \in Names : \A d : d # p => (d \in refs'[n] <=> d \in refs[n])
  <2>1. refs \in [Names -> SUBSET Containers]
    BY <1>1, Zenon DEF VolTypeOK
  <2>2. CASE refs' = refs
    BY <2>1, <2>2
  <2>3. CASE \E S \in SUBSET Containers : /\ refs' = [refs EXCEPT ![call[p].name] = S]
                                          /\ \A d : d # p => (d \in S <=> d \in refs[call[p].name])
    BY <2>1, <2>3, Zenon
  <2> QED
    BY <2>2, <2>3, Zenon DEF StoreShape
<1>7. VolTypeOK'
  BY <1>1, <1>2, <1>3, <1>4, <1>5, <1>6, Zenon DEF VolTypeOK, StoreShape
<1> QED
  BY <1>2, <1>3, <1>4, <1>5, <1>6, <1>7, Zenon DEF StoreShape, StoreFrame

\* With the step's own process, that makes the whole invariant.
LEMMA StoreInv ==
  ASSUME VolInv, NEW p \in Procs, StoreShape(p), CallOK(p)',
         \A n \in Names : n = call[p].name => NamedOK(n)',
         p \in Containers => JobOK(p)' /\ MountOK(p)' /\ (Plain => PlainOK(p)')
  PROVE  VolInv'
<1>1. VolTypeOK' /\ StoreFrame(p)
  BY ShapeFrame, Zenon
<1>2. /\ BootOK'
      /\ \A q \in Procs : q # p => CallOK(q)'
      /\ \A n \in Names : n # call[p].name => NamedOK(n)'
      /\ \A c \in Containers : c # p => JobOK(c)' /\ MountOK(c)' /\ (Plain => PlainOK(c)')
  BY <1>1, StoreOthers, Zenon
<1>3. (Plain <=> Plain') /\ (Plain => up' = Drivers)
  <2>1. up' = up /\ load' = load
    BY <1>1, Zenon DEF StoreFrame
  <2>2. Plain => up = Drivers
    BY Zenon DEF VolInv
  <2>3. Plain <=> Plain'
    BY <2>1 DEF Plain
  <2> QED
    BY <2>1, <2>2, <2>3, Zenon
<1>4. \A q \in Procs : CallOK(q)'
  BY <1>2, Zenon
<1>5. \A n \in Names : NamedOK(n)'
  BY <1>2, Zenon
<1>6. \A c \in Containers : JobOK(c)' /\ MountOK(c)' /\ (Plain => PlainOK(c)')
  BY <1>2, Zenon
<1> QED
  BY <1>1, <1>2, <1>3, <1>4, <1>5, <1>6, Zenon DEF VolInv
-----------------------------------------------------------------------------
\* A step that only looks at the store, or adds a volume: it ends the call without a
\* volume, or goes on.
Quiet(p) ==
  /\ UNCHANGED <<up, call, load, job, mount, made, booting, missed, names, refs>>
  /\ pc[p] \in Locked \ {"purge", "deref"} \/ (pc[p] = "call" /\ lock[call[p].name] = Nil)
  /\ \E w \in Locked \cup {"done"} : pc' = [pc EXCEPT ![p] = w]
  /\ got' = got \/ \E d \in Drivers \cup {Nil} : got' = [got EXCEPT ![p] = d]
  /\ lock' = lock \/ \E q \in {p, Nil} : lock' = [lock EXCEPT ![call[p].name] = q]
  /\ vols' \in SUBSET (Drivers \X Names) /\ vols \subseteq vols'
  /\ pc[p] = "call" => pc'[p] = call[p].op
  /\ pc'[p] = "done" => got'[p] = Nil

LEMMA QuietInv ==
  ASSUME VolInv, NEW p \in Procs, Quiet(p), CallOK(p)',
         Plain /\ p \in Containers => FindsOK(p)'
  PROVE  StoreShape(p) /\ VolInv'
<1>1. StoreShape(p)
  BY Zenon DEF Quiet, StoreShape
<1>2. /\ pc'[p] \in Locked \cup {"done"} /\ pc[p] \notin {"idle", "done", "purge", "deref"}
      /\ UNCHANGED <<call, job, mount, made, booting, missed, names, refs>>
      /\ pc'[p] = "done" => got'[p] = Nil
      /\ pc[p] = "call" => pc'[p] = call[p].op
      /\ \A d, n : <<d, n>> \in vols => <<d, n>> \in vols'
  <2>1. VolTypeOK' /\ StoreFrame(p)
    BY <1>1, ShapeFrame, Zenon
  <2>2. pc'[p] \in Locked \cup {"done"}
    BY <2>1, Zenon DEF StoreFrame
  <2>3. pc[p] \notin {"idle", "done", "purge", "deref"}
    BY DEF Quiet, Locked, Ops
  <2> QED
    BY <2>2, <2>3, Zenon DEF Quiet
<1>3. ASSUME NEW n \in Names PROVE NamedOK(n)'
  <2>2. NamedOK(n)
    BY Zenon DEF VolInv
  <2>3. \A q \in Procs : q # p => pc'[q] = pc[q]
    BY <1>1, ShapeFrame, Zenon DEF StoreFrame
  <2>4. \A q \in Procs : pc[q] = "purge" => pc'[q] = "purge"
    BY <1>2, <2>3
  <2> QED
    BY <1>2, <2>2, <2>4, Zenon DEF NamedOK
<1>4. ASSUME p \in Containers PROVE JobOK(p)' /\ MountOK(p)' /\ (Plain => PlainOK(p)')
  <2>1. JobOK(p) /\ MountOK(p) /\ (Plain => PlainOK(p))
    BY <1>4, Zenon DEF VolInv
  <2>2. pc'[p] # "idle" /\ (pc'[p] \in {"call", "deref"} \/ call[p].op # "deref" \/ pc[p] # "call")
    BY <1>2 DEF Locked, Ops
  <2>3. JobOK(p)'
    BY <1>2, <2>1, <2>2, Zenon DEF JobOK
  <2>4. MountOK(p)'
    BY <1>2, <2>1, Zenon DEF MountOK
  <2>5. ASSUME Plain PROVE PlainOK(p)'
    <3>1. ASSUME NEW n \in Names, p \in refs[n]
          PROVE  /\ job[p] \in Removing /\ pc'[p] \in {"call", "deref"}
                 /\ call[p].op = "deref" /\ call[p].name = n
      <4>1. /\ job[p] \in Removing /\ pc[p] \in {"call", "deref"}
            /\ call[p].op = "deref" /\ call[p].name = n
        BY <1>2, <2>1, <2>5, <3>1, Zenon DEF PlainOK
      <4> QED
        BY <1>2, <4>1
    <3>2. \A n \in Names : p \in refs'[n] =>
                 /\ job'[p] \in Removing /\ pc'[p] \in {"call", "deref"}
                 /\ call'[p].op = "deref" /\ call'[p].name = n
      BY <1>2, <3>1, Zenon
    <3>3. job[p] \in Getting /\ pc'[p] = "done" /\ got'[p] # Nil => p \in refs'[call[p].name]
      BY <1>2, Zenon
    <3> QED
      BY <1>2, <1>4, <2>1, <2>5, <3>2, <3>3, Zenon DEF PlainOK
  <2> QED
    BY <2>3, <2>4, <2>5
<1> QED
  BY <1>1, <1>3, <1>4, StoreInv, Zenon

\* What a process in a call knows.
LEMMA InCall ==
  ASSUME VolInv, NEW p \in Procs, pc[p] \in Locked \cup {"call", "done"}
  PROVE  /\ call[p] \in Calls /\ call[p].name \in Names /\ call[p].driver \in Drivers \cup {Nil}
         /\ call[p].op \in Ops
         /\ pc[p] \in Locked => lock[call[p].name] = p
         /\ pc[p] \in Ops => call[p].op = pc[p]
         /\ pc[p] \in {"driver", "save"} => call[p].op = "create"
         /\ pc[p] = "set" => /\ call[p].op \in {"create", "get", "getref"}
                             /\ got[p] # Nil /\ <<got[p], call[p].name>> \in vols
         /\ pc[p] \in {"unlink", "purge"} => call[p].op = "remove" /\ refs[call[p].name] = {}
<1>1. CallOK(p)
  BY Zenon DEF VolInv
<1>2. pc[p] # "idle"
  BY DEF Locked, Ops
<1>3. /\ call[p] \in Calls /\ (pc[p] \in Locked => lock[call[p].name] = p)
      /\ pc[p] \in Ops => call[p].op = pc[p]
      /\ pc[p] \in {"driver", "save"} => call[p].op = "create"
      /\ pc[p] = "set" => /\ call[p].op \in {"create", "get", "getref"}
                          /\ got[p] # Nil /\ <<got[p], call[p].name>> \in vols
      /\ pc[p] \in {"unlink", "purge"} => call[p].op = "remove" /\ refs[call[p].name] = {}
  BY <1>1, <1>2, Zenon DEF CallOK
<1>4. call[p].name \in Names /\ call[p].driver \in Drivers \cup {Nil} /\ call[p].op \in Ops
  BY <1>3 DEF Calls
<1> QED
  BY <1>3, <1>4, Zenon

\* The lock of the name.
LEMMA LockInv ==
  ASSUME VolInv, NEW p \in Procs, Lock(p), UNCHANGED cvars
  PROVE  StoreShape(p) /\ VolInv'
<1>1. call[p] \in Calls /\ call[p].name \in Names /\ call[p].op \in Ops /\ pc[p] = "call"
  BY InCall, Zenon DEF Lock
<1>2. pc \in [Procs -> Locked \cup {"idle", "call", "done"}] /\ lock \in [Names -> Procs \cup {Nil}]
      /\ vols \in SUBSET (Drivers \X Names)
  BY Zenon DEF VolInv, VolTypeOK
<1>3. /\ pc' = [pc EXCEPT ![p] = call[p].op] /\ lock' = [lock EXCEPT ![call[p].name] = p]
      /\ UNCHANGED <<names, refs, vols, up, call, got, load, job, mount, made, booting, missed>>
      /\ lock[call[p].name] = Nil
  BY Zenon DEF Lock, Goto, cvars
<1>4. pc'[p] = call[p].op /\ lock'[call[p].name] = p
  BY <1>1, <1>2, <1>3
<1>5. Quiet(p)
  <2>1. call[p].op \in Locked \cup {"done"} /\ call[p].op # "done"
    BY <1>1 DEF Locked, Ops
  <2> QED
    BY <1>1, <1>2, <1>3, <1>4, <2>1, Zenon DEF Quiet
<1>6. CallOK(p)'
  BY <1>1, <1>3, <1>4 DEF CallOK, Ops
<1>7. FindsOK(p)'
  BY <1>1, <1>4 DEF Ops, FindsOK
<1> QED
  BY <1>5, <1>6, <1>7, QuietInv, Zenon

\* A step that looks at the store under the lock: on with volume d, or back without one.
Looks(p, w, d) ==
  /\ UNCHANGED <<up, call, load, job, mount, made, booting, missed, names, refs>>
  /\ vols' \in SUBSET (Drivers \X Names) /\ vols \subseteq vols'
  /\ \/ /\ pc' = [pc EXCEPT ![p] = w] /\ lock' = lock
        /\ got' = [got EXCEPT ![p] = d] /\ <<d, call[p].name>> \in vols'
     \/ /\ pc' = [pc EXCEPT ![p] = "done"] /\ lock' = [lock EXCEPT ![call[p].name] = Nil]
        /\ got' = [got EXCEPT ![p] = Nil]

LEMMA LooksInv ==
  ASSUME VolInv, NEW p \in Procs, NEW w \in {"set", "save"}, NEW d \in Drivers, Looks(p, w, d),
         pc[p] \in {"create", "driver", "save", "get", "getref"},
         w = "save" => call[p].op = "create",
         Plain /\ p \in Containers => FindsOK(p)'
  PROVE  StoreShape(p) /\ VolInv'
<1>1. call[p] \in Calls /\ lock[call[p].name] = p
  BY InCall, Zenon DEF Locked, Ops
<1>2. pc \in [Procs -> Locked \cup {"idle", "call", "done"}] /\ got \in [Procs -> Drivers \cup {Nil}]
  BY Zenon DEF VolInv, VolTypeOK
<1>3. CallOK(p)
  BY DEF VolInv
<1>4. Nil \notin Drivers
  BY VolumeAssumption, Zenon
<1>5. call[p].op \in {"create", "get", "getref"}
  BY <1>3 DEF CallOK, Ops
<1>6. \/ pc'[p] = w /\ lock' = lock /\ got'[p] = d /\ <<d, call[p].name>> \in vols'
      \/ pc'[p] = "done" /\ got'[p] = Nil
  BY <1>2 DEF Looks
<1>7. Quiet(p)
  <2>1. /\ pc[p] \in Locked \ {"purge", "deref"} /\ pc[p] # "call" /\ w \in Locked \cup {"done"}
        /\ "done" \in Locked \cup {"done"} /\ w # "done"
    BY DEF Locked, Ops
  <2> QED
    BY <1>6, <2>1, Zenon DEF Looks, Quiet
<1>8. CallOK(p)'
  <2>1. call' = call /\ w \notin Locked \ {"set", "save"}
    BY Zenon DEF Looks
  <2>2. CASE pc'[p] = "done"
    BY <1>1, <2>1, <2>2 DEF CallOK, Locked, Ops
  <2>3. CASE pc'[p] = w /\ lock' = lock /\ got'[p] = d /\ <<d, call[p].name>> \in vols'
    BY <1>1, <1>4, <1>5, <2>1, <2>3 DEF CallOK, Locked, Ops
  <2> QED
    BY <1>6, <2>2, <2>3
<1> QED
  BY <1>7, <1>8, QuietInv, Zenon

\* What a call finds under the name it has the lock of exists.
LEMMA StoredExists ==
  ASSUME VolInv, NEW p \in Procs, pc[p] \in Locked \ {"purge"}
  PROVE  /\ names[call[p].name] # Nil =>
              names[call[p].name] \in Drivers /\ <<names[call[p].name], call[p].name>> \in vols
         /\ \A e \in Found(call[p].name) : e \in Drivers /\ <<e, call[p].name>> \in vols
<1>1. call[p].name \in Names
  BY InCall, Zenon
<1>2. ~ \E q \in Procs : pc[q] = "purge" /\ call[q].name = call[p].name
  BY OwnName DEF Locked
<1>3. names[call[p].name] # Nil =>
              names[call[p].name] \in Drivers /\ <<names[call[p].name], call[p].name>> \in vols
  BY <1>1, <1>2 DEF VolInv, NamedOK, VolTypeOK
<1>4. up \subseteq Drivers
  BY DEF VolInv, VolTypeOK
<1> QED
  BY <1>3, <1>4 DEF Found

\* The mount point of a container is only looked up.
LEMMA NotLookingUp ==
  ASSUME VolInv, NEW p \in Containers, pc[p] \in {"create", "driver", "save", "get"}
  PROVE  job[p] \notin {"start", "restore"}
<1>1. CallOK(p) /\ JobOK(p)
  BY Zenon DEF VolInv, Procs
<1>2. call[p].op # "getref"
  BY <1>1 DEF CallOK, Ops
<1> QED
  BY <1>1, <1>2, Zenon DEF JobOK

\* create, up to the use of a driver.
LEMMA CreateNamedInv ==
  ASSUME VolInv, NEW p \in Procs, CreateNamed(p), UNCHANGED cvars
  PROVE  StoreShape(p) /\ VolInv'
<1>1. /\ pc[p] = "create" /\ UNCHANGED <<up, call, load, job, mount, made, booting, missed, names, refs, vols>>
  BY Zenon DEF CreateNamed, cvars, store
<1>2. /\ vols' \in SUBSET (Drivers \X Names) /\ vols \subseteq vols'
      /\ pc \in [Procs -> Locked \cup {"idle", "call", "done"}]
  BY <1>1, Zenon DEF VolInv, VolTypeOK
<1>3. Local \in Drivers /\ "create" \in Locked \ {"purge", "deref"} /\ "create" # "call"
      /\ "driver" \in Locked \cup {"done"} /\ "driver" # "done"
  BY VolumeAssumption, Zenon DEF Locked, Ops
<1>4. p \in Containers => FindsOK(p)'
  BY <1>1, NotLookingUp, Zenon DEF FindsOK
<1>5. /\ names[call[p].name] # Nil =>
           names[call[p].name] \in Drivers /\ <<names[call[p].name], call[p].name>> \in vols
      /\ \A e \in Found(call[p].name) : e \in Drivers /\ <<e, call[p].name>> \in vols
  BY <1>1, <1>3, StoredExists, Zenon
<1>6. CASE Return(p, Nil)
  <2>1. Looks(p, "set", Local)
    BY <1>1, <1>2, <1>6, Zenon DEF Looks, Return, Goto, Free, Gives
  <2> QED
    BY <1>1, <1>3, <1>4, <2>1, LooksInv, Zenon
<1>7. CASE /\ names[call[p].name] # Nil /\ UNCHANGED lock
           /\ Goto(p, "set") /\ Gives(p, names[call[p].name])
  <2>1. Looks(p, "set", names[call[p].name])
    BY <1>1, <1>2, <1>5, <1>7, Zenon DEF Looks, Goto, Gives
  <2> QED
    BY <1>1, <1>4, <1>5, <1>7, <2>1, LooksInv, Zenon
<1>8. CASE (\E e \in Found(call[p].name) : Gives(p, e)) /\ Goto(p, "set") /\ UNCHANGED lock
  <2>1. PICK e \in Found(call[p].name) : Gives(p, e)
    BY <1>8
  <2>2. Looks(p, "set", e)
    BY <1>1, <1>2, <1>5, <1>8, <2>1, Zenon DEF Looks, Goto, Gives
  <2> QED
    BY <1>1, <1>4, <1>5, <2>2, LooksInv, Zenon
<1>9. CASE Goto(p, "driver") /\ UNCHANGED <<lock, got>>
  <2>1. pc' = [pc EXCEPT ![p] = "driver"] /\ pc'[p] = "driver"
    BY <1>2, <1>9 DEF Goto
  <2>2. Quiet(p)
    BY <1>1, <1>2, <1>3, <1>9, <2>1, Zenon DEF Quiet
  <2>3. call[p] \in Calls /\ lock[call[p].name] = p /\ call[p].op = "create"
    BY <1>1, InCall, Zenon DEF Locked, Ops
  <2>4. CallOK(p)'
    BY <1>1, <1>9, <2>1, <2>3 DEF CallOK, Ops
  <2> QED
    BY <1>4, <2>2, <2>4, QuietInv, Zenon
<1> QED
  BY <1>6, <1>7, <1>8, <1>9, Zenon DEF CreateNamed

\* create: the driver's part.
LEMMA CreateDriverInv ==
  ASSUME VolInv, NEW p \in Procs, CreateDriver(p), UNCHANGED cvars
  PROVE  StoreShape(p) /\ VolInv'
<1> DEFINE d == IF call[p].driver = NoDriver THEN Local ELSE call[p].driver
<1>1. /\ pc[p] = "driver" /\ UNCHANGED <<up, call, load, job, mount, made, booting, missed, names, refs>>
  BY Zenon DEF CreateDriver, cvars, store
<1>2. vols \in SUBSET (Drivers \X Names)
  BY <1>1, Zenon DEF VolInv, VolTypeOK
<1>3. call[p].name \in Names /\ call[p].driver \in Drivers \cup {Nil} /\ call[p].op = "create"
  BY <1>1, InCall, Zenon DEF Locked, Ops
<1>4. p \in Containers => FindsOK(p)'
  BY <1>1, NotLookingUp, Zenon DEF FindsOK
<1>5. d \in Drivers
  BY <1>3, VolumeAssumption, Zenon DEF NoDriver
<1>6. \/ Return(p, Nil) /\ vols' = vols
      \/ /\ <<d, call[p].name>> \in vols /\ vols' = vols
         /\ Goto(p, "set") /\ Gives(p, d) /\ lock' = lock
      \/ /\ vols' = vols \cup {<<d, call[p].name>>}
         /\ Goto(p, "save") /\ Gives(p, d) /\ lock' = lock
  BY Zenon DEF CreateDriver
<1> HIDE DEF d
<1>7. vols' \in SUBSET (Drivers \X Names) /\ vols \subseteq vols'
  BY <1>2, <1>3, <1>5, <1>6
<1>8. CASE Return(p, Nil)
  <2>1. Looks(p, "set", d)
    BY <1>1, <1>7, <1>8, Zenon DEF Looks, Return, Goto, Free, Gives
  <2> QED
    BY <1>1, <1>4, <1>5, <2>1, LooksInv, Zenon
<1>9. CASE /\ <<d, call[p].name>> \in vols
           /\ Goto(p, "set") /\ Gives(p, d) /\ lock' = lock
  <2>1. Looks(p, "set", d)
    BY <1>1, <1>7, <1>9, Zenon DEF Looks, Goto, Gives
  <2> QED
    BY <1>1, <1>4, <1>5, <2>1, LooksInv, Zenon
<1>10. CASE /\ vols' = vols \cup {<<d, call[p].name>>}
            /\ Goto(p, "save") /\ Gives(p, d) /\ lock' = lock
  <2>1. Looks(p, "save", d)
    BY <1>1, <1>7, <1>10, Zenon DEF Looks, Goto, Gives
  <2> QED
    BY <1>1, <1>3, <1>4, <1>5, <2>1, LooksInv, Zenon
<1> QED
  BY <1>6, <1>8, <1>9, <1>10

\* create: the metadata.
LEMMA CreateSaveInv ==
  ASSUME VolInv, NEW p \in Procs, CreateSave(p), UNCHANGED cvars
  PROVE  StoreShape(p) /\ VolInv'
<1>1. /\ pc[p] = "save" /\ UNCHANGED <<up, call, load, job, mount, made, booting, missed, names, refs, vols>>
  BY Zenon DEF CreateSave, cvars, store
<1>2. /\ vols' \in SUBSET (Drivers \X Names) /\ vols \subseteq vols'
      /\ got \in [Procs -> Drivers \cup {Nil}]
  BY <1>1, Zenon DEF VolInv, VolTypeOK
<1>3. p \in Containers => FindsOK(p)'
  BY <1>1, NotLookingUp, Zenon DEF FindsOK
<1>4. got[p] \in Drivers /\ <<got[p], call[p].name>> \in vols
  BY <1>1, <1>2 DEF VolInv, CallOK
<1>5. got = [got EXCEPT ![p] = got[p]]
  BY <1>2
<1>6. Looks(p, "set", got[p])
  BY <1>1, <1>2, <1>4, <1>5, Zenon DEF CreateSave, Looks, Return, Goto, Free, Gives
<1> QED
  BY <1>1, <1>3, <1>4, <1>6, LooksInv, Zenon

\* GetWithRef, which finds the volume of a mount point while every driver is there.
LEMMA GetWithRefInv ==
  ASSUME VolInv, NEW p \in Procs, GetWithRef(p), UNCHANGED cvars
  PROVE  StoreShape(p) /\ VolInv'
<1> DEFINE d == call[p].driver
           n == call[p].name
<1>1. /\ pc[p] = "getref" /\ UNCHANGED <<up, call, load, job, mount, made, booting, missed, names, refs, vols>>
  BY Zenon DEF GetWithRef, cvars, store
<1>2. /\ vols \in SUBSET (Drivers \X Names) /\ Local \in Drivers
      /\ pc \in [Procs -> Locked \cup {"idle", "call", "done"}] /\ got \in [Procs -> Drivers \cup {Nil}]
  BY VolumeAssumption, Zenon DEF VolInv, VolTypeOK
<1>3. vols' \in SUBSET (Drivers \X Names) /\ vols \subseteq vols'
  BY <1>1, <1>2, Zenon
<1>4. IF <<d, n>> \in vols /\ d \in up
      THEN Goto(p, "set") /\ Gives(p, d) /\ lock' = lock
      ELSE Return(p, Nil)
  BY DEF GetWithRef
<1>5. ASSUME Plain, p \in Containers, job[p] \in {"start", "restore"}
      PROVE  mount[p].driver = d /\ (p \notin missed => <<d, n>> \in vols /\ d \in up)
  <2>1. JobOK(p) /\ PlainOK(p) /\ BootOK /\ up = Drivers
    BY <1>5, Zenon DEF VolInv
  <2>2. mount[p] # Nil /\ mount[p].name = n /\ mount[p].driver = d
    BY <1>5, <2>1, ZenonT(30) DEF JobOK
  <2>3. mount[p].driver \in Drivers
    BY <1>5, <2>2 DEF VolInv, VolTypeOK, Mounts
  <2> QED
    BY <2>1, <2>2, <2>3, Zenon DEF PlainOK
<1> HIDE DEF d, n
<1>6. CASE <<d, n>> \in vols /\ d \in up
  <2>1. d \in Drivers /\ d # Nil
    BY <1>2, <1>6, VolumeAssumption, Zenon
  <2>2. Looks(p, "set", d)
    BY <1>1, <1>3, <1>4, <1>6, Zenon DEF Looks, Goto, Gives, n
  <2>3. pc'[p] = "set" /\ got'[p] = d
    BY <1>2, <1>4, <1>6 DEF Goto, Gives
  <2>4. Plain /\ p \in Containers => FindsOK(p)'
    BY <1>1, <1>5, <2>3, Zenon DEF FindsOK
  <2> QED
    BY <1>1, <2>1, <2>2, <2>4, LooksInv, Zenon
<1>7. CASE ~(<<d, n>> \in vols /\ d \in up)
  <2>1. Return(p, Nil)
    BY <1>4, <1>7
  <2>2. Looks(p, "set", Local)
    BY <1>1, <1>3, <2>1, Zenon DEF Looks, Return, Goto, Free, Gives
  <2>3. got'[p] = Nil
    BY <1>2, <2>1 DEF Return, Gives
  <2>4. Plain /\ p \in Containers => FindsOK(p)'
    BY <1>1, <1>5, <1>7, <2>3, Zenon DEF FindsOK
  <2> QED
    BY <1>1, <1>2, <2>2, <2>4, LooksInv, Zenon
<1> QED
  BY <1>6, <1>7

\* Get and getVolume.
LEMMA GetInv ==
  ASSUME VolInv, NEW p \in Procs, Get(p), UNCHANGED cvars
  PROVE  StoreShape(p) /\ VolInv'
<1>1. /\ pc[p] = "get" /\ UNCHANGED <<up, call, load, job, mount, made, booting, missed, names, refs, vols>>
  BY Zenon DEF Get, cvars, store
<1>2. vols' \in SUBSET (Drivers \X Names) /\ vols \subseteq vols'
  BY <1>1, Zenon DEF VolInv, VolTypeOK
<1>3. Local \in Drivers /\ "get" \in Locked \ {"purge"}
  BY VolumeAssumption, Zenon DEF Locked, Ops
<1>4. p \in Containers => FindsOK(p)'
  BY <1>1, NotLookingUp, Zenon DEF FindsOK
<1>5. \A e \in Found(call[p].name) : e \in Drivers /\ <<e, call[p].name>> \in vols
  BY <1>1, <1>3, StoredExists, Zenon
<1>6. CASE Return(p, Nil)
  <2>1. Looks(p, "set", Local)
    BY <1>1, <1>2, <1>6, Zenon DEF Looks, Return, Goto, Free, Gives
  <2> QED
    BY <1>1, <1>3, <1>4, <2>1, LooksInv, Zenon
<1>7. CASE \E d \in Found(call[p].name) : Goto(p, "set") /\ Gives(p, d) /\ UNCHANGED lock
  <2>1. PICK d \in Found(call[p].name) : Goto(p, "set") /\ Gives(p, d) /\ UNCHANGED lock
    BY <1>7
  <2>2. Looks(p, "set", d)
    BY <1>1, <1>2, <1>5, <2>1, Zenon DEF Looks, Goto, Gives
  <2> QED
    BY <1>1, <1>4, <1>5, <2>2, LooksInv, Zenon
<1> QED
  BY <1>6, <1>7, Zenon DEF Get

\* A step of Remove that ends the call without a volume, or goes on.
LEMMA RemoveGivesUp ==
  ASSUME VolInv, NEW p \in Procs, pc[p] \in {"remove", "unlink"}, UNCHANGED cvars, Return(p, Nil),
         UNCHANGED <<names, refs, vols, up, call, load>>
  PROVE  StoreShape(p) /\ VolInv'
<1>1. /\ UNCHANGED <<job, mount, made, booting, missed>> /\ pc' = [pc EXCEPT ![p] = "done"]
      /\ lock' = [lock EXCEPT ![call[p].name] = Nil] /\ got' = [got EXCEPT ![p] = Nil]
  BY Zenon DEF cvars, Return, Goto, Free, Gives
<1>2. /\ vols' \in SUBSET (Drivers \X Names) /\ vols \subseteq vols'
      /\ pc \in [Procs -> Locked \cup {"idle", "call", "done"}] /\ got \in [Procs -> Drivers \cup {Nil}]
  BY Zenon DEF VolInv, VolTypeOK
<1>3. pc[p] \in Locked \ {"purge", "deref"} /\ pc[p] # "call" /\ "done" \in Locked \cup {"done"}
  BY DEF Locked, Ops
<1>4. pc'[p] = "done" /\ got'[p] = Nil
  BY <1>1, <1>2
<1>5. Quiet(p)
  BY <1>1, <1>2, <1>3, <1>4, Zenon DEF Quiet
<1>6. call[p] \in Calls /\ call[p].op = "remove"
  BY <1>3, InCall, Zenon DEF Locked, Ops
<1>7. CallOK(p)'
  BY <1>4, <1>6 DEF CallOK, Locked, Ops
<1>8. p \in Containers => FindsOK(p)'
  BY <1>1, <1>6, Zenon DEF VolInv, JobOK, FindsOK
<1> QED
  BY <1>5, <1>7, <1>8, QuietInv, Zenon

\* Remove: the check of the references.
LEMMA RemoveCheckInv ==
  ASSUME VolInv, NEW p \in Procs, RemoveCheck(p), UNCHANGED cvars
  PROVE  StoreShape(p) /\ VolInv'
<1>1. /\ pc[p] = "remove" /\ UNCHANGED <<up, call, load, job, mount, made, booting, missed, names, refs, vols>>
  BY Zenon DEF RemoveCheck, RemoveCheckRefs, cvars, store
<1>2. CASE Return(p, Nil)
  BY <1>1, <1>2, RemoveGivesUp, Zenon
<1>3. CASE refs[call[p].name] = {} /\ Goto(p, "unlink") /\ UNCHANGED <<lock, got>>
  <2>1. /\ vols' \in SUBSET (Drivers \X Names) /\ vols \subseteq vols'
        /\ pc \in [Procs -> Locked \cup {"idle", "call", "done"}]
    BY <1>1, Zenon DEF VolInv, VolTypeOK
  <2>2. pc' = [pc EXCEPT ![p] = "unlink"] /\ pc'[p] = "unlink"
    BY <1>3, <2>1 DEF Goto
  <2>3. "remove" \in Locked \ {"purge", "deref"} /\ "unlink" \in Locked \cup {"done"}
    BY DEF Locked, Ops
  <2>4. Quiet(p)
    BY <1>1, <1>3, <2>1, <2>2, <2>3, Zenon DEF Quiet
  <2>5. call[p] \in Calls /\ lock[call[p].name] = p /\ call[p].op = "remove"
    BY <1>1, InCall, Zenon DEF Locked, Ops
  <2>6. CallOK(p)'
    BY <1>1, <1>3, <2>2, <2>5 DEF CallOK, Ops
  <2>7. FindsOK(p)'
    BY <2>2 DEF FindsOK
  <2> QED
    BY <2>4, <2>6, <2>7, QuietInv, Zenon
<1> QED
  BY <1>2, <1>3, Zenon DEF RemoveCheck, RemoveCheckRefs

\* The request of a container tells the calls it makes.
LEMMA JobOfCall ==
  ASSUME VolInv, NEW p \in Containers, pc[p] # "idle"
  PROVE  /\ call[p].op \in {"create", "get", "getref"} => job[p] \in Getting
         /\ call[p].op = "remove" => job[p] \in Removing
         /\ call[p].op = "deref" => job[p] \in Removing \cup {"start config"}
<1>1. JobOK(p) /\ p \in Procs
  BY DEF VolInv, Procs
<1>2. job[p] \in Jobs
  BY <1>1, Zenon DEF VolInv, VolTypeOK
<1>3. /\ job[p] \notin {"none", "volume create", "volume rm"}
      /\ job[p] \in {"create", "create anonymous"} => call[p].op \in {"create", "getref"}
      /\ job[p] \in {"start", "restore"} => call[p].op = "getref"
      /\ job[p] \in Removing => call[p].op \in {"deref", "remove"}
      /\ job[p] = "start config" => call[p].op = "deref"
  BY <1>1, Zenon DEF JobOK
<1> QED
  BY <1>2, <1>3, Zenon DEF Getting, Removing, Jobs

\* The driver removes a volume without references.
LEMMA RemoveDriverInv ==
  ASSUME VolInv, NEW p \in Procs, RemoveDriver(p), UNCHANGED cvars
  PROVE  StoreShape(p) /\ VolInv'
<1>1. pc[p] = "unlink" /\ UNCHANGED <<up, call, load, job, mount, made, booting, missed, names, refs>>
  BY Zenon DEF RemoveDriver, cvars, store
<1>2. CASE Return(p, Nil) /\ UNCHANGED vols
  BY <1>1, <1>2, RemoveGivesUp, Zenon
<1>3. CASE /\ vols' = vols \ {<<call[p].driver, call[p].name>>}
           /\ Goto(p, "purge") /\ UNCHANGED <<lock, got>>
  <2>1. /\ vols \in SUBSET (Drivers \X Names)
        /\ pc \in [Procs -> Locked \cup {"idle", "call", "done"}]
    BY <1>1, Zenon DEF VolInv, VolTypeOK
  <2>2. pc' = [pc EXCEPT ![p] = "purge"] /\ pc'[p] = "purge"
    BY <1>3, <2>1 DEF Goto
  <2>3. /\ call[p] \in Calls /\ lock[call[p].name] = p /\ call[p].op = "remove"
        /\ call[p].name \in Names /\ refs[call[p].name] = {}
    BY <1>1, InCall, Zenon DEF Locked, Ops
  <2>4. StoreShape(p)
    <3>1. "unlink" \in Locked /\ "purge" \in Locked \cup {"done"}
      BY DEF Locked
    <3>2. vols' \in SUBSET (Drivers \X Names)
      BY <1>3, <2>1
    <3>3. \A e, n : <<e, n>> \in vols => <<e, n>> \in vols' \/ n = call[p].name
      BY <1>3
    <3> QED
      BY <1>1, <1>3, <2>2, <3>1, <3>2, <3>3, Zenon DEF StoreShape
  <2>5. CallOK(p)'
    BY <1>1, <1>3, <2>2, <2>3 DEF CallOK, Ops
  <2>6. \A n \in Names : n = call[p].name => NamedOK(n)'
    BY <1>1, <2>2 DEF NamedOK
  <2>7. ASSUME p \in Containers PROVE JobOK(p)' /\ MountOK(p)' /\ (Plain => PlainOK(p)')
    <3>1. JobOK(p) /\ (Plain => PlainOK(p)) /\ job[p] \in Removing
      BY <1>1, <2>3, <2>7, JobOfCall, Zenon DEF VolInv
    <3>2. mount[p] = Nil
      BY <3>1, Zenon DEF JobOK
    <3>3. \A n \in Names : Plain => p \notin refs[n]
      BY <1>1, <2>3, <3>1, Zenon DEF PlainOK
    <3>4. pc[p] # "idle" /\ pc'[p] \notin {"idle", "done", "set"}
      BY <1>1, <2>2
    <3>5. JobOK(p)'
      BY <1>1, <3>1, <3>4, Zenon DEF JobOK
    <3> QED
      BY <1>1, <3>1, <3>2, <3>3, <3>4, <3>5, Zenon DEF MountOK, PlainOK, FindsOK
  <2> QED
    BY <2>4, <2>5, <2>6, <2>7, StoreInv, Zenon
<1> QED
  BY <1>2, <1>3, Zenon DEF RemoveDriver

\* setNamed, with the reference of the container.
LEMMA SetNamedInv ==
  ASSUME VolInv, NEW p \in Procs, SetNamed(p), UNCHANGED cvars
  PROVE  StoreShape(p) /\ VolInv'
<1> DEFINE n == call[p].name
           S == refs[n] \cup ({p} \cap Containers)
<1>1. /\ pc[p] = "set" /\ UNCHANGED <<up, call, load, job, mount, made, booting, missed, vols>>
      /\ pc' = [pc EXCEPT ![p] = "done"] /\ got' = [got EXCEPT ![p] = got[p]]
      /\ lock' = [lock EXCEPT ![n] = Nil] /\ names' = [names EXCEPT ![n] = got[p]]
  BY Zenon DEF SetNamed, cvars, Return, Goto, Free, Gives
<1>2. refs' = [refs EXCEPT ![n] = S]
  BY DEF SetNamed
<1>3. /\ vols \in SUBSET (Drivers \X Names) /\ refs \in [Names -> SUBSET Containers]
      /\ names \in [Names -> Drivers \cup {Nil}]
      /\ pc \in [Procs -> Locked \cup {"idle", "call", "done"}] /\ got \in [Procs -> Drivers \cup {Nil}]
  BY <1>1, Zenon DEF VolInv, VolTypeOK
<1>4. /\ call[p] \in Calls /\ n \in Names /\ call[p].op \in {"create", "get", "getref"}
      /\ got[p] # Nil /\ <<got[p], n>> \in vols
  BY <1>1, InCall DEF Locked, Ops
<1>5. /\ S \in SUBSET Containers /\ \A d : d # p => (d \in S <=> d \in refs[n])
      /\ p \in Containers => p \in S
  BY <1>3, <1>4
<1> HIDE DEF S
<1>6. /\ pc'[p] = "done" /\ got'[p] = got[p] /\ names'[n] = got[p] /\ refs'[n] = S
      /\ \A m \in Names : m # n => refs'[m] = refs[m]
  BY <1>1, <1>2, <1>3, <1>4
<1>7. StoreShape(p)
  <2>1. "set" \in Locked /\ "done" \in Locked \cup {"done"} /\ got[p] \in Drivers \cup {Nil}
    BY <1>3 DEF Locked
  <2> QED
    BY <1>1, <1>2, <1>3, <1>5, <2>1, Zenon DEF StoreShape
<1>8. CallOK(p)'
  BY <1>1, <1>4, <1>6 DEF CallOK, Locked, Ops
<1>9. \A m \in Names : m = call[p].name => NamedOK(m)'
  BY <1>1, <1>4, <1>6 DEF NamedOK
<1>10. ASSUME p \in Containers PROVE JobOK(p)' /\ MountOK(p)' /\ (Plain => PlainOK(p)')
  <2>1. JobOK(p) /\ MountOK(p) /\ (Plain => PlainOK(p)) /\ job[p] \in Getting
    BY <1>1, <1>4, <1>10, JobOfCall, Zenon DEF VolInv
  <2>2. mount[p] # Nil => mount[p].volume = Nil
    BY <2>1, Zenon DEF JobOK, Getting
  <2>3. pc[p] # "idle" /\ pc'[p] # "idle"
    BY <1>1, <1>6
  <2>4. JobOK(p)'
    <3>1. <<got'[p], call'[p].name>> \in vols' /\ UNCHANGED <<call, job, mount, made>>
      BY <1>1, <1>4, <1>6
    <3> QED
      BY <2>1, <2>3, <3>1, Zenon DEF JobOK
  <2>5. MountOK(p)'
    BY <1>1, <2>2, Zenon DEF MountOK
  <2>6. ASSUME Plain PROVE PlainOK(p)'
    <3>1. \A m \in Names : p \notin refs[m]
      BY <1>1, <2>1, <2>6, Zenon DEF PlainOK
    <3>2. \A m \in Names : p \in refs'[m] => m = n
      BY <1>6, <3>1, Zenon
    <3>3. p \in refs'[n]
      BY <1>5, <1>6, <1>10, Zenon
    <3>4. FindsOK(p)'
      BY <1>1, <1>6, <2>1, <2>6, Zenon DEF PlainOK, FindsOK
    <3> QED
      BY <1>1, <1>4, <1>6, <2>1, <2>2, <2>6, <3>2, <3>3, <3>4, Zenon DEF PlainOK
  <2> QED
    BY <2>4, <2>5, <2>6
<1> QED
  BY <1>7, <1>8, <1>9, <1>10, StoreInv, Zenon

\* Remove: purge.
LEMMA PurgeInv ==
  ASSUME VolInv, NEW p \in Procs, Purge(p), UNCHANGED cvars
  PROVE  StoreShape(p) /\ VolInv'
<1> DEFINE n == call[p].name
<1>1. /\ pc[p] = "purge" /\ UNCHANGED <<up, call, load, job, mount, made, booting, missed, vols>>
      /\ pc' = [pc EXCEPT ![p] = "done"] /\ got' = [got EXCEPT ![p] = call[p].driver]
      /\ lock' = [lock EXCEPT ![n] = Nil] /\ names' = [names EXCEPT ![n] = Nil]
      /\ refs' = [refs EXCEPT ![n] = {}]
  BY Zenon DEF Purge, cvars, Return, Goto, Free, Gives
<1>2. /\ vols \in SUBSET (Drivers \X Names) /\ refs \in [Names -> SUBSET Containers]
      /\ names \in [Names -> Drivers \cup {Nil}]
      /\ pc \in [Procs -> Locked \cup {"idle", "call", "done"}] /\ got \in [Procs -> Drivers \cup {Nil}]
  BY <1>1, Zenon DEF VolInv, VolTypeOK
<1>3. /\ call[p] \in Calls /\ n \in Names /\ call[p].op = "remove" /\ refs[n] = {}
      /\ call[p].driver \in Drivers \cup {Nil}
  BY <1>1, InCall, Zenon DEF Locked, Ops
<1>4. pc'[p] = "done" /\ names'[n] = Nil /\ refs' = refs
  BY <1>1, <1>2, <1>3
<1>5. StoreShape(p)
  <2>1. "purge" \in Locked /\ "done" \in Locked \cup {"done"} /\ Nil \in Drivers \cup {Nil}
    BY <1>3 DEF Locked
  <2> QED
    BY <1>1, <1>2, <1>3, <1>4, <2>1, Zenon DEF StoreShape
<1>6. CallOK(p)'
  BY <1>1, <1>3, <1>4 DEF CallOK, Locked, Ops
<1>7. \A m \in Names : m = call[p].name => NamedOK(m)'
  BY <1>1, <1>4 DEF NamedOK
<1>8. ASSUME p \in Containers PROVE JobOK(p)' /\ MountOK(p)' /\ (Plain => PlainOK(p)')
  <2>1. JobOK(p) /\ MountOK(p) /\ (Plain => PlainOK(p)) /\ job[p] \in Removing
    BY <1>1, <1>3, <1>8, JobOfCall, Zenon DEF VolInv
  <2>2. /\ mount[p] = Nil /\ job[p] \notin Getting
        /\ UNCHANGED <<call, job, mount, made, booting, missed>>
    BY <1>1, <2>1, Zenon DEF JobOK, Getting, Removing
  <2>3. pc[p] # "idle" /\ pc'[p] # "idle"
    BY <1>1, <1>4
  <2>4. JobOK(p)'
    BY <2>1, <2>2, <2>3, Zenon DEF JobOK
  <2>5. ASSUME Plain PROVE PlainOK(p)'
    <3>1. \A m \in Names : p \notin refs[m]
      BY <1>1, <2>1, <2>5, Zenon DEF PlainOK
    <3>2. job[p] \notin {"start", "start config", "restore"}
      BY <2>1, Zenon DEF Removing
    <3> QED
      BY <1>4, <2>1, <2>2, <2>5, <3>1, <3>2, Zenon DEF PlainOK, FindsOK
  <2> QED
    BY <2>2, <2>4, <2>5, Zenon DEF MountOK
<1> QED
  BY <1>5, <1>6, <1>7, <1>8, StoreInv, Zenon

\* Dereference.
LEMMA DereferenceInv ==
  ASSUME VolInv, NEW p \in Procs, Dereference(p), UNCHANGED cvars
  PROVE  StoreShape(p) /\ VolInv'
<1> DEFINE n == call[p].name
           S == refs[n] \ {p}
<1>1. /\ pc[p] = "deref" /\ UNCHANGED <<up, call, load, job, mount, made, booting, missed, vols, names>>
      /\ pc' = [pc EXCEPT ![p] = "done"] /\ got' = [got EXCEPT ![p] = call[p].driver]
      /\ lock' = [lock EXCEPT ![n] = Nil]
  BY Zenon DEF Dereference, cvars, Return, Goto, Free, Gives
<1>2. refs' = [refs EXCEPT ![n] = S]
  BY DEF Dereference
<1>3. /\ vols \in SUBSET (Drivers \X Names) /\ refs \in [Names -> SUBSET Containers]
      /\ pc \in [Procs -> Locked \cup {"idle", "call", "done"}]
  BY <1>1, Zenon DEF VolInv, VolTypeOK
<1>4. /\ call[p] \in Calls /\ n \in Names /\ call[p].op = "deref"
      /\ call[p].driver \in Drivers \cup {Nil}
  BY <1>1, InCall, Zenon DEF Locked, Ops
<1>5. S \in SUBSET Containers /\ \A d : d # p => (d \in S <=> d \in refs[n])
  BY <1>3, <1>4
<1>6. /\ pc'[p] = "done" /\ p \notin refs'[n]
      /\ \A m \in Names : m # n => refs'[m] = refs[m]
  BY <1>1, <1>2, <1>3, <1>4
<1> HIDE DEF S
<1>7. StoreShape(p)
  <2>1. "deref" \in Locked /\ "done" \in Locked \cup {"done"}
    BY DEF Locked, Ops
  <2> QED
    BY <1>1, <1>2, <1>3, <1>4, <1>5, <2>1, Zenon DEF StoreShape
<1>8. CallOK(p)'
  BY <1>1, <1>4, <1>6 DEF CallOK, Locked, Ops
<1>9. \A m \in Names : m = call[p].name => NamedOK(m)'
  <2>1. ASSUME NEW q \in Procs, pc[q] = "purge", call[q].name = n PROVE FALSE
    BY <1>1, <2>1, OwnName DEF Locked, Ops
  <2>2. NamedOK(n)
    BY <1>4, Zenon DEF VolInv
  <2> QED
    BY <1>1, <2>1, <2>2 DEF NamedOK
<1>10. ASSUME p \in Containers PROVE JobOK(p)' /\ MountOK(p)' /\ (Plain => PlainOK(p)')
  <2>1. /\ JobOK(p) /\ MountOK(p) /\ (Plain => PlainOK(p))
        /\ job[p] \in Removing \cup {"start config"}
    BY <1>1, <1>4, <1>10, JobOfCall, Zenon DEF VolInv
  <2>2. /\ job[p] \notin Getting /\ UNCHANGED <<call, job, mount, made, booting, missed, vols>>
    BY <1>1, <2>1, Zenon DEF Getting, Removing
  <2>3. pc[p] # "idle" /\ pc'[p] # "idle"
    BY <1>1, <1>6
  <2>4. \A m \in Names : p \in refs'[m] => p \in refs[m] /\ m # n
    BY <1>6, Zenon
  <2>5. JobOK(p)'
    BY <2>1, <2>2, <2>3, ZenonT(30) DEF JobOK
  <2>6. mount[p] # Nil => mount[p].name \in Names
    BY <1>10 DEF VolInv, VolTypeOK, Mounts
  <2>7. MountOK(p)'
    BY <2>1, <2>2, <2>4, <2>6, Zenon DEF MountOK
  <2>8. ASSUME Plain PROVE PlainOK(p)'
    <3>1. job[p] \in Removing /\ mount[p] = Nil
      BY <2>1, <2>8, Zenon DEF PlainOK, JobOK
    <3>2. \A m \in Names : p \in refs[m] => m = n
      BY <1>1, <2>1, <2>2, <2>8, Zenon DEF PlainOK
    <3>3. job[p] \notin {"start", "start config", "restore"}
      BY <3>1, Zenon DEF Removing
    <3> QED
      BY <2>1, <2>2, <2>4, <2>8, <3>1, <3>2, <3>3, Zenon DEF PlainOK, FindsOK
  <2> QED
    BY <2>5, <2>7, <2>8
<1> QED
  BY <1>7, <1>8, <1>9, <1>10, StoreInv, Zenon

\* Every step of a call of the store.
LEMMA StoreStepInv ==
  ASSUME VolInv, NEW p \in Procs, StoreStep(p), UNCHANGED cvars
  PROVE  StoreShape(p) /\ VolInv'
BY LockInv, CreateNamedInv, CreateDriverInv, CreateSaveInv, GetWithRefInv, GetInv, SetNamedInv,
   RemoveCheckInv, RemoveDriverInv, PurgeInv, DereferenceInv, Zenon DEF StoreStep
=============================================================================
