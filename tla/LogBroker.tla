------------------------------ MODULE LogBroker ------------------------------
(***************************************************************************)
(* The dashboard's log broker (dashboard_logs.py): threads emit events     *)
(* into a bounded backlog and hand them to the event loop, which puts them *)
(* into the bounded queue of every subscribed stream.  Streams reconnect   *)
(* with the id of the last event they saw.                                 *)
(*                                                                         *)
(* logging.Handler serialises emit(); the state lock covers only the part  *)
(* that numbers the event and reads the subscribers, so an emitting thread *)
(* has two steps.  Callbacks scheduled on the loop run in order.           *)
(***************************************************************************)
EXTENDS Integers, Sequences, FiniteSets, SequencesExt

CONSTANTS
  Viewers,         \* dashboards, each with at most one stream
  Backlog,         \* capacity
  ClientQueue,     \* client_queue_size
  MaxSubscribers,
  MaxEvents,       \* bound: events that are emitted
  MaxStreams       \* bound: streams that are opened

ASSUME BrokerAssumption ==
  /\ Backlog \in Nat \ {0} /\ ClientQueue \in Nat \ {0} /\ MaxSubscribers \in Nat \ {0}
  /\ MaxEvents \in Nat /\ MaxStreams \in Nat

VARIABLES
  nextEvent,    \* _next_event_id
  events,       \* _events
  emitting,     \* the event in emit(), and the subscribers read with it
  callbacks,    \* _offer calls scheduled on the loop
  subscribers,  \* _subscribers
  queue,        \* the queue of every stream opened so far
  stream,       \* the stream of each viewer, 0 if none
  sending,      \* viewers whose stream is writing an event to the socket
  lastSeen,     \* Last-Event-ID of each viewer
  cut           \* history: streams that lost events to a bound

brokerVars == <<nextEvent, events, emitting, callbacks, subscribers, queue, stream,
                sending, lastSeen, cut>>

Idle == [id |-> 0, to |-> {}]
LastOf(s, n) == IF Len(s) <= n THEN s ELSE SubSeq(s, Len(s) - n + 1, Len(s))

BrokerInit ==
  /\ nextEvent = 1 /\ events = << >> /\ emitting = Idle /\ callbacks = << >>
  /\ subscribers = {} /\ queue = << >> /\ cut = {}
  /\ stream = [v \in Viewers |-> 0] /\ sending = {} /\ lastSeen = [v \in Viewers |-> 0]

BrokerTypeOK ==
  /\ nextEvent \in 1..(MaxEvents + 1) /\ Len(events) <= Backlog
  /\ subscribers \subseteq 1..Len(queue) /\ Cardinality(subscribers) <= MaxSubscribers
  /\ \A s \in 1..Len(queue) : Len(queue[s]) <= ClientQueue
  /\ \A v \in Viewers : stream[v] \in 0..Len(queue)

-----------------------------------------------------------------------------
EmitRecord ==
  /\ emitting = Idle /\ nextEvent <= MaxEvents
  /\ nextEvent' = nextEvent + 1
  /\ events' = LastOf(Append(events, nextEvent), Backlog)
  /\ emitting' = [id |-> nextEvent, to |-> subscribers]
  /\ UNCHANGED <<callbacks, subscribers, queue, stream, sending, lastSeen, cut>>

\* Mutant: the subscribers are read after the lock is left.
RecipientsNow == subscribers

Recipients == emitting.to

\* One call for each recipient, in the order in which they subscribed.
EmitSchedule ==
  /\ emitting # Idle
  /\ \E to \in SetToSeqs(Recipients) :
       /\ \A i, j \in DOMAIN to : i < j => to[i] < to[j]
       /\ callbacks' = callbacks \o [i \in DOMAIN to |-> [to |-> to[i], id |-> emitting.id]]
  /\ emitting' = Idle
  /\ UNCHANGED <<nextEvent, events, subscribers, queue, stream, sending, lastSeen, cut>>

\* _offer: a full queue loses its oldest event.
Offered(q, e) == Append(IF Len(q) = ClientQueue THEN Tail(q) ELSE q, e)

Offer ==
  /\ callbacks # << >>
  /\ LET c == Head(callbacks)
     IN /\ queue' = [queue EXCEPT ![c.to] = Offered(@, c.id)]
        /\ cut' = IF Len(queue[c.to]) = ClientQueue THEN cut \cup {c.to} ELSE cut
  /\ callbacks' = Tail(callbacks)
  /\ UNCHANGED <<nextEvent, events, emitting, subscribers, stream, sending, lastSeen>>

-----------------------------------------------------------------------------
\* subscribe(): the backlog behind the last event seen, as far as it fits.  The
\* backlog is in order, so what is behind an event is its end from some place on.
Subscribe(v) ==
  \E seen \in 0..Len(events) :
    LET missed == SubSeq(events, seen + 1, Len(events))
    IN /\ \A i \in DOMAIN events : events[i] > lastSeen[v] <=> i > seen
       /\ stream[v] = 0 /\ Len(queue) < MaxStreams
       /\ Cardinality(subscribers) < MaxSubscribers
       /\ queue' = Append(queue, LastOf(missed, ClientQueue))
       /\ subscribers' = subscribers \cup {Len(queue) + 1}
       /\ stream' = [stream EXCEPT ![v] = Len(queue) + 1]
       /\ cut' = IF Len(missed) > ClientQueue \/ nextEvent - 1 - lastSeen[v] > Len(missed)
                   THEN cut \cup {Len(queue) + 1} ELSE cut
       /\ UNCHANGED <<nextEvent, events, emitting, callbacks, sending, lastSeen>>

Deliver(v) ==
  /\ stream[v] # 0 /\ v \notin sending /\ queue[stream[v]] # << >>
  /\ queue' = [queue EXCEPT ![stream[v]] = Tail(@)]
  /\ lastSeen' = [lastSeen EXCEPT ![v] = Head(queue[stream[v]])]
  /\ sending' = sending \cup {v}
  /\ UNCHANGED <<nextEvent, events, emitting, callbacks, subscribers, stream, cut>>

Sent(v) ==
  /\ v \in sending /\ sending' = sending \ {v}
  /\ UNCHANGED <<nextEvent, events, emitting, callbacks, subscribers, queue, stream, lastSeen, cut>>

\* The viewer goes away while the stream waits for an event: __anext__ is
\* cancelled and releases the subscription.
DisconnectWaiting(v) ==
  /\ stream[v] # 0 /\ v \notin sending
  /\ subscribers' = subscribers \ {stream[v]}
  /\ stream' = [stream EXCEPT ![v] = 0]
  /\ UNCHANGED <<nextEvent, events, emitting, callbacks, queue, sending, lastSeen, cut>>

\* The viewer goes away while the response writes an event: the cancellation
\* is raised in send(), outside the iterator, and nobody calls aclose().
DisconnectSending(v) ==
  /\ v \in sending
  /\ sending' = sending \ {v}
  /\ stream' = [stream EXCEPT ![v] = 0]
  /\ UNCHANGED <<nextEvent, events, emitting, callbacks, subscribers, queue, lastSeen, cut>>

\* close(), at the end of the application
CloseBroker ==
  /\ subscribers # {} /\ subscribers' = {}
  /\ cut' = cut \cup subscribers
  /\ UNCHANGED <<nextEvent, events, emitting, callbacks, queue, stream, sending, lastSeen>>

BrokerNext ==
  \/ EmitRecord \/ EmitSchedule \/ Offer \/ CloseBroker
  \/ \E v \in Viewers :
       Subscribe(v) \/ Deliver(v) \/ Sent(v) \/ DisconnectWaiting(v) \/ DisconnectSending(v)

BrokerSpec == BrokerInit /\ [][BrokerNext]_brokerVars

-----------------------------------------------------------------------------
\* What is on its way to a stream: its queue, the callbacks and the event that
\* an emitter is still handing over.
CallbacksTo(s) == {i \in 1..Len(callbacks) : callbacks[i].to = s}
Coming(s) ==
  {queue[s][i] : i \in 1..Len(queue[s])} \cup {callbacks[i].id : i \in CallbacksTo(s)}
  \cup (IF s \in emitting.to THEN {emitting.id} ELSE {})

\* In the queue, behind it and at last in emit(), each event is newer than all
\* that come before it.
ComingInOrder(s) ==
  /\ \A i, j \in 1..Len(queue[s]) : i < j => queue[s][i] < queue[s][j]
  /\ \A i \in 1..Len(queue[s]), j \in CallbacksTo(s) : queue[s][i] < callbacks[j].id
  /\ \A i, j \in CallbacksTo(s) : i < j => callbacks[i].id < callbacks[j].id
  /\ s \in emitting.to => /\ \A i \in 1..Len(queue[s]) : queue[s][i] < emitting.id
                          /\ \A i \in CallbacksTo(s) : callbacks[i].id < emitting.id

\* Every viewer gets each event once and in order, also across reconnects and
\* while threads emit; an event is only skipped when a bound was hit, and
\* then the newest ones survive (emit, _offer, subscribe).
NoEventLostOrRepeated ==
  \A v \in Viewers :
    LET s == stream[v]
    IN s \in subscribers =>
         /\ ComingInOrder(s)
         /\ \A e \in Coming(s) : e > lastSeen[v]
         /\ Coming(s) # {} => nextEvent - 1 \in Coming(s) /\ \A e \in Coming(s) : e < nextEvent
         /\ s \notin cut => Coming(s) = (lastSeen[v] + 1)..(nextEvent - 1)

=============================================================================
