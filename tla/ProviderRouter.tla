--------------------------- MODULE ProviderRouter ---------------------------
(***************************************************************************)
(* ProviderRouter (providers/router.py) for the requests of one symbol and *)
(* one capability: callers with the same arguments share one flight, a     *)
(* flight walks the provider chain, and every provider of the chain has a  *)
(* circuit.  Requests with different arguments (two history ranges) fly    *)
(* side by side and share the circuits.                                    *)
(*                                                                         *)
(* Between two awaits a coroutine runs alone: the end of one provider call *)
(* and the choice of the next provider are one step.  Time is counted in   *)
(* units of 30 seconds, the network retry interval; a call may be under    *)
(* way while units pass, as calls without a routing timeout are.           *)
(***************************************************************************)
EXTENDS Integers, Sequences, FiniteSets, SequencesExt, FiniteSetsExt

CONSTANTS
  Providers,
  Chain,         \* the route: a sequence of distinct providers
  Keys,          \* arguments of the requests
  Clients,       \* tasks that call the router
  Threshold,     \* failure_threshold
  HalfOpenAfter, \* half_open_after_seconds, in time units
  MaxBackoff,    \* max_backoff_seconds
  NetworkRetry,  \* network_retry_seconds
  MaxFlights,    \* bound: flights that are ever started
  LastTime       \* bound: time units that pass

ASSUME RouterAssumption ==
  /\ Chain \in Seq(Providers) /\ Len(Chain) > 0 /\ IsInjective(Chain)
  /\ HalfOpenAfter \in Nat \ {0} /\ MaxBackoff \in Nat \ {0} /\ NetworkRetry \in 1..MaxBackoff
  /\ Threshold \in Nat \ {0} /\ MaxFlights \in Nat /\ LastTime \in Nat \ {0}

VARIABLES
  now,       \* the monotonic clock
  circuit,   \* _circuits: one per provider
  flights,   \* _flights: the flight of each key, 0 if none
  started,   \* number of flights started
  flight,    \* the flights: key, state, position in the chain, ...
  cleanup,   \* flights whose _cleanup_flight task has not run yet
  client,    \* the flight each client waits for, 0 if none
  closed     \* close() was called

routerVars == <<now, circuit, flights, started, flight, cleanup, client, closed>>

Ids == 1..MaxFlights
Closed == [fails |-> 0, opens |-> 0, until |-> 0, probing |-> FALSE]

States == {"new", "calling", "ok", "failed", "cancelled"}
Done(i) == flight[i].state \in {"ok", "failed", "cancelled"}
Running(i) == i \in DOMAIN flight /\ ~Done(i)

RouterTypeOK ==
  /\ now \in 1..LastTime
  /\ circuit \in [Providers -> [fails : Nat, opens : Nat, until : 0..(LastTime + MaxBackoff), probing : BOOLEAN]]
  /\ flights \in [Keys -> 0..started]
  /\ started \in 0..MaxFlights
  /\ flight \in [1..started -> [key : Keys, state : States, at : 0..Len(Chain),
                                partial : BOOLEAN, probe : BOOLEAN]]
  /\ cleanup \subseteq 1..started
  /\ client \in [Clients -> 0..started]
  /\ closed \in BOOLEAN

-----------------------------------------------------------------------------
(* Circuits.                                                               *)

\* _allow_call without its side effect.
Allows(c) == c.until <= 0 \/ (now >= c.until /\ ~c.probing)

\* The circuit after _allow_call has returned True: an open one is probed.
Admitted(c) == [c EXCEPT !.probing = @ \/ c.until > 0]

Min2(a, b) == IF a < b THEN a ELSE b

\* _record_failure: an open circuit, or one with enough failures, opens again.
Failed(c, network) ==
  LET f == [c EXCEPT !.probing = FALSE, !.fails = @ + 1]
      delay == IF network THEN NetworkRetry ELSE Min2(MaxBackoff, HalfOpenAfter * 2^(c.opens))
  IN IF f.fails < Threshold /\ c.until <= 0
       THEN f
       ELSE [f EXCEPT !.opens = @ + 1, !.until = now + delay]

\* Mutant: a provider that cannot serve the instrument keeps its probe.
KeptProbing(c) == c

\* UnsupportedInstrument and ProviderBusy end a probe without a verdict.
Unjudged(c) == [c EXCEPT !.probing = FALSE]

-----------------------------------------------------------------------------
(* Flights.                                                                *)

\* Position of the first provider from position j on that may be called, or
\* the end of the chain.
NextCallable(circuits, j) ==
  LET ok == {i \in j..Len(Chain) : Allows(circuits[Chain[i]])}
  IN IF ok = {} THEN Len(Chain) + 1 ELSE Min(ok)

\* Of a flight that has ended only the outcome matters.
Ended(f, state) == [key |-> f.key, state |-> state, at |-> 0,
                    partial |-> FALSE, probe |-> FALSE]

\* Mutant: a chain that is exhausted is walked again.
ContinueAgain(i, circuits, j, partial) ==
  LET at == NextCallable(circuits, j)
      ended == at > Len(Chain)
  IN /\ circuit' = IF ended THEN circuits
                   ELSE [circuits EXCEPT ![Chain[at]] = Admitted(@)]
     /\ flight' = [flight EXCEPT ![i] =
          IF ended THEN Ended(@, "new")
          ELSE [@ EXCEPT !.at = at, !.partial = partial, !.state = "calling",
                         !.probe = circuits[Chain[at]].until > 0]]
     /\ UNCHANGED cleanup

\* Flight i, with the circuits as they now are, goes on at position j.
Continue(i, circuits, j, partial) ==
  LET at == NextCallable(circuits, j)
      ended == at > Len(Chain)
  IN /\ circuit' = IF ended THEN circuits
                   ELSE [circuits EXCEPT ![Chain[at]] = Admitted(@)]
     /\ flight' = [flight EXCEPT ![i] =
          IF ended THEN Ended(@, IF partial THEN "ok" ELSE "failed")
          ELSE [@ EXCEPT !.at = at, !.partial = partial, !.state = "calling",
                         !.probe = circuits[Chain[at]].until > 0]]
     /\ cleanup' = IF ended THEN cleanup \cup {i} ELSE cleanup

\* Flight i ends here.
Finish(i, circuits, state) ==
  /\ circuit' = circuits
  /\ flight' = [flight EXCEPT ![i] = Ended(@, state)]
  /\ cleanup' = cleanup \cup {i}

Calling(i) == i \in DOMAIN flight /\ flight[i].state = "calling"
Provider(i) == Chain[flight[i].at]
Circuits(i, c) == [circuit EXCEPT ![Provider(i)] = c]
Elsewhere == <<now, flights, started, client, closed>>

FlightStarts(i) ==
  /\ i \in DOMAIN flight /\ flight[i].state = "new"
  /\ Continue(i, circuit, 1, FALSE)
  /\ UNCHANGED Elsewhere

\* A result that answers the request.
CallSucceeds(i) ==
  /\ Calling(i)
  /\ Finish(i, Circuits(i, Closed), "ok")
  /\ UNCHANGED Elsewhere

\* No data, or a history that does not reach back far enough.
CallIncomplete(i) ==
  /\ Calling(i)
  /\ \E some \in BOOLEAN :
       Continue(i, Circuits(i, Closed), flight[i].at + 1, flight[i].partial \/ some)
  /\ UNCHANGED Elsewhere

\* Timeouts and transport errors are network failures, all others are not.
CallFails(i) ==
  /\ Calling(i)
  /\ \E network \in BOOLEAN :
       Continue(i, Circuits(i, Failed(circuit[Provider(i)], network)),
                flight[i].at + 1, flight[i].partial)
  /\ UNCHANGED Elsewhere

CallUnsupported(i) ==
  /\ Calling(i)
  /\ Continue(i, Circuits(i, Unjudged(circuit[Provider(i)])),
              flight[i].at + 1, flight[i].partial)
  /\ UNCHANGED Elsewhere

\* Local pacing: the rest of the chain is spared.
CallBusy(i) ==
  /\ Calling(i)
  /\ Finish(i, Circuits(i, Unjudged(circuit[Provider(i)])),
            IF flight[i].partial THEN "ok" ELSE "failed")
  /\ UNCHANGED Elsewhere

-----------------------------------------------------------------------------
(* Clients.                                                                *)

\* _execute: join the flight of the key, or start one.
Ask(c, k) ==
  /\ client[c] = 0 /\ ~closed
  /\ IF flights[k] # 0
       THEN /\ client' = [client EXCEPT ![c] = flights[k]]
            /\ UNCHANGED <<flights, started, flight>>
       ELSE /\ started < MaxFlights
            /\ started' = started + 1
            /\ flight' = Append(flight, [key |-> k, state |-> "new", at |-> 0,
                                         partial |-> FALSE, probe |-> FALSE])
            /\ flights' = [flights EXCEPT ![k] = started']
            /\ client' = [client EXCEPT ![c] = started']
  /\ UNCHANGED <<now, circuit, cleanup, closed>>

\* Mutant: whatever flight the key has is forgotten.
ForgetAny(i) == [flights EXCEPT ![flight[i].key] = 0]

\* "if self._flights.get(key) is task: pop".
Forget(i) == IF flights[flight[i].key] = i
               THEN [flights EXCEPT ![flight[i].key] = 0] ELSE flights

\* The client gets the outcome of its flight, or its own cancellation.
Answered(c) ==
  /\ client[c] # 0 /\ Done(client[c])
  /\ flights' = Forget(client[c])
  /\ client' = [client EXCEPT ![c] = 0]
  /\ UNCHANGED <<now, circuit, started, flight, cleanup, closed>>

CancelClient(c) ==
  /\ client[c] # 0 /\ ~Done(client[c])
  /\ client' = [client EXCEPT ![c] = 0]
  /\ UNCHANGED <<now, circuit, flights, started, flight, cleanup, closed>>

CleanUp(i) ==
  /\ i \in cleanup
  /\ flights' = Forget(i) /\ cleanup' = cleanup \ {i}
  /\ UNCHANGED <<now, circuit, started, flight, client, closed>>

\* close(): every flight in the map is cancelled and gathered.
Close ==
  /\ ~closed /\ closed' = TRUE
  /\ LET dying == {i \in Range(flights) : i # 0 /\ ~Done(i)}
     IN /\ flight' = [i \in DOMAIN flight |->
                        IF i \in dying THEN Ended(flight[i], "cancelled")
                        ELSE flight[i]]
        /\ cleanup' = cleanup \cup dying
  /\ flights' = [k \in Keys |-> 0]
  /\ UNCHANGED <<now, circuit, started, client>>

Tick ==
  /\ now < LastTime /\ now' = now + 1
  /\ UNCHANGED <<circuit, flights, started, flight, cleanup, client, closed>>

-----------------------------------------------------------------------------
RouterInit ==
  /\ now = 1
  /\ circuit = [p \in Providers |-> Closed]
  /\ flights = [k \in Keys |-> 0]
  /\ started = 0 /\ flight = <<>> /\ cleanup = {}
  /\ client = [c \in Clients |-> 0]
  /\ closed = FALSE

CallEnds(i) == CallSucceeds(i) \/ CallIncomplete(i) \/ CallFails(i)
                 \/ CallUnsupported(i) \/ CallBusy(i)

RouterNext ==
  \/ \E c \in Clients : \/ \E k \in Keys : Ask(c, k)
                        \/ Answered(c) \/ CancelClient(c)
  \/ \E i \in Ids : FlightStarts(i) \/ CallEnds(i) \/ CleanUp(i)
  \/ Close \/ Tick

\* Calls end, by asyncio.timeout if by nothing else; the loop runs what is ready.
RouterFairness ==
  /\ \A i \in Ids : WF_routerVars(FlightStarts(i)) /\ WF_routerVars(CallEnds(i))
  /\ \A c \in Clients : WF_routerVars(Answered(c))

RouterSpec == RouterInit /\ [][RouterNext]_routerVars /\ RouterFairness

-----------------------------------------------------------------------------
(* Properties.                                                             *)

\* router.py:488-495: a circuit that is marked as being probed refuses every
\* call, so while the router is in use the mark must belong to a call that
\* is still under way; otherwise the provider would be locked out for good.
ProbeIsUnderWay ==
  ~closed => \A p \in Providers : circuit[p].probing =>
                \E i \in DOMAIN flight : Calling(i) /\ Provider(i) = p /\ flight[i].probe

\* router.py:55: "Concurrent identical calls share one task."  Every flight
\* that runs is the one its key leads to: no second flight of the key can be
\* started, and close() reaches it.
RunningIsShared == \A i \in DOMAIN flight : Running(i) => flights[flight[i].key] = i

\* router.py:55-56: a circuit is open exactly when as many calls in a row have
\* failed as the threshold says, with calls of several flights interleaved.
OpenAfterThreshold ==
  \A p \in Providers : circuit[p].until > 0 <=> circuit[p].fails >= Threshold

\* router.py:215-227: every client gets an answer, also one that joins a flight
\* that has already ended, and when the router is closed.
ClientAnswered == \A c \in Clients : client[c] # 0 ~> client[c] = 0

\* _CircuitState of router.py, with calls of several flights interleaved: a
\* circuit opens at the threshold and not before, and a probe that is under way
\* is never only a mark.
CircuitsSound == ProbeIsUnderWay /\ OpenAfterThreshold
=============================================================================
