------------------------------- MODULE WarmUp -------------------------------
(***************************************************************************)
(* The shadow warm-up of an activation (InstrumentCatalogRuntime._warm):   *)
(* one task per changed instrument, a semaphore, one pacer per rate-gated  *)
(* provider, and the total deadline that _warm_execution_plan computes     *)
(* beforehand.                                                             *)
(*                                                                         *)
(* A task runs before time passes whenever it can, as on an event loop     *)
(* that is not overloaded.  Times are whole units; the plan's divisions    *)
(* round up as its final ceil does.                                        *)
(***************************************************************************)
EXTENDS Integers, Sequences, FiniteSetsExt

CONSTANTS
  Workloads,     \* what may change: sequences of instruments, in warm-up order
  Gap,           \* Gap[p]: seconds between requests to p, 0 where p has no gate
  Timeout,       \* Timeout[p]: routing_timeout_seconds
  BaseSlots, MaxSlots, PerSlot, \* _WARM_CONCURRENCY, _MAX_WARM_CONCURRENCY, 64
  ConfiguredTimeout, DefaultTimeout, Margin

ASSUME WarmAssumption ==
  /\ DOMAIN Gap = DOMAIN Timeout /\ {BaseSlots, MaxSlots, PerSlot} \subseteq Nat \ {0}
  /\ \A p \in DOMAIN Gap : Gap[p] \in Nat /\ Timeout[p] \in Nat \ {0}
  /\ {ConfiguredTimeout, DefaultTimeout, Margin} \subseteq Nat

VARIABLES
  work,      \* the changed instruments
  wNow,
  task,      \* one per instrument
  nextAt,    \* _next_at of each pacer
  got,       \* what each instrument has obtained
  lastCall,  \* when each provider was last called as a primary
  outcome    \* how the warm-up ended, and the error it reports

warmVars == <<work, wNow, task, nextAt, got, lastCall, outcome>>

Gated == DOMAIN Gap
Queued == [pc |-> "queued", op |-> 1, until |-> 0]
Running == [is |-> "running"]
Larger(a, b) == IF a > b THEN a ELSE b
CeilDiv(a, b) == (a + b - 1) \div b

\* _warm_capabilities: an annualised yield is computed from the dividend.
Capabilities(d) ==
  <<"quote">>
  \o (IF d.dividend \/ d.yield = "annualized" THEN <<"dividend">> ELSE <<>>)
  \o (IF d.yield = "metric" THEN <<"yield">> ELSE <<>>)

ChainOf(d, op) == d.chain[Capabilities(d)[op]]

ASSUME WorkloadAssumption ==
  \A w \in Workloads : \A i \in DOMAIN w :
    /\ w[i].dividend \in BOOLEAN /\ w[i].yield \in {"none", "annualized", "metric"}
    /\ \A op \in DOMAIN Capabilities(w[i]) : ChainOf(w[i], op) \in Seq(Gated)

(***************************************************************************)
(* _warm_execution_plan                                                    *)
(***************************************************************************)
Slots(w) == LET wanted == Larger(BaseSlots, CeilDiv(Larger(1, Len(w)), PerSlot))
            IN IF wanted < MaxSlots THEN wanted ELSE MaxSlots

\* Every provider of every chain: <<instrument, operation, place in the chain>>.
Attempts(w) ==
  UNION {UNION {{<<i, op, k>> : k \in DOMAIN ChainOf(w[i], op)} : op \in DOMAIN Capabilities(w[i])}
          : i \in DOMAIN w}
ProviderOf(w, a) == ChainOf(w[a[1]], a[2])[a[3]]

RateFloorsOnce(w) == \* mutant: a gated provider counts once, however often it is asked
  {Gap[p] : p \in Gated} \cup {0}

RateFloors(w) ==
  {Gap[p] * Cardinality({a \in Attempts(w) : ProviderOf(w, a) = p}) : p \in Gated} \cup {0}

EffectiveTimeout(w) ==
  LET timeouts == {Timeout[ProviderOf(w, a)] : a \in Attempts(w)} \cup {DefaultTimeout}
      routing == CeilDiv(MapThenSumSet(LAMBDA a : Timeout[ProviderOf(w, a)], Attempts(w)), Slots(w))
      tail == Max(timeouts) + Margin
  IN Max({ConfiguredTimeout, routing + tail, Max(RateFloors(w)) + tail})

(***************************************************************************)
(* The tasks                                                               *)
(***************************************************************************)
WarmInit ==
  /\ work \in Workloads
  /\ wNow = 0
  /\ task = [i \in DOMAIN work |-> Queued]
  /\ nextAt = [p \in Gated |-> 0]
  /\ got = [i \in DOMAIN work |-> {}]
  /\ lastCall = [p \in Gated |-> {}]
  /\ outcome = Running

Holding == {i \in DOMAIN work : task[i].pc \in {"pacing", "calling"}}
Waiting == {i \in DOMAIN work : task[i].pc = "queued"}

\* The semaphore wakes its waiters in the order they came.
MayEnter(i) == i \in Waiting /\ Cardinality(Holding) < Slots(work) /\ \A j \in Waiting : i <= j

CallFor(chain) == wNow + MapThenSumSet(LAMBDA k : Timeout[chain[k]], DOMAIN chain)

Scheduled(p) == Larger(wNow, nextAt[p])

\* _WarmRatePacer.acquire books the next instant before it sleeps.
Booked(p) == Scheduled(p) + Gap[p]

\* pace and the start of the request, for operation op of instrument i.
Operate(i, op) ==
  LET chain == ChainOf(work[i], op)
      p == chain[1]
  IN /\ task' = [task EXCEPT ![i] =
                   IF Gap[p] = 0 THEN [pc |-> "calling", op |-> op, until |-> CallFor(chain)]
                                 ELSE [pc |-> "pacing", op |-> op, until |-> Scheduled(p)]]
     /\ nextAt' = IF Gap[p] = 0 THEN nextAt ELSE [nextAt EXCEPT ![p] = Booked(p)]
     /\ UNCHANGED lastCall

\* An instrument without a route for what it needs, a provider chain that
\* failed, or an answer that _validate_quote, _validate_dividend or
\* _validate_yield refuses: the task group cancels the others.
Fails(i, op) ==
  /\ task' = [j \in DOMAIN work |->
                [task[j] EXCEPT !.pc = IF j = i THEN "failed"
                                       ELSE IF @ = "done" THEN @ ELSE "cancelled"]]
  /\ outcome' = [is |-> "failed", symbol |-> i, capability |-> Capabilities(work[i])[op]]
  /\ UNCHANGED <<nextAt, lastCall>>

Begin(i, op) ==
  \/ ChainOf(work[i], op) # <<>> /\ Operate(i, op) /\ UNCHANGED outcome
  \/ ChainOf(work[i], op) = <<>> /\ Fails(i, op)

Enter(i) ==
  /\ outcome = Running /\ MayEnter(i) /\ Begin(i, 1)
  /\ UNCHANGED <<work, wNow, got>>

Called(i) ==
  LET chain == ChainOf(work[i], task[i].op)
  IN /\ outcome = Running /\ task[i].pc = "pacing" /\ wNow >= task[i].until
     /\ task' = [task EXCEPT ![i] = [@ EXCEPT !.pc = "calling", !.until = CallFor(chain)]]
     /\ lastCall' = [lastCall EXCEPT ![chain[1]] = @ \cup {wNow}]
     /\ UNCHANGED <<work, wNow, nextAt, got, outcome>>

\* An answer that passes its validation: the next operation, or the result.
Answered(i) ==
  LET op == task[i].op
      last == op = Len(Capabilities(work[i]))
  IN /\ outcome = Running /\ task[i].pc = "calling"
     /\ got' = [got EXCEPT ![i] = @ \cup {Capabilities(work[i])[op]}]
     /\ \/ ~ last /\ Begin(i, op + 1)
        \/ /\ last
           /\ task' = [task EXCEPT ![i].pc = "done"]
           /\ outcome' = IF \A j \in DOMAIN work : j = i \/ task[j].pc = "done"
                         THEN [is |-> "complete"] ELSE Running
           /\ UNCHANGED <<nextAt, lastCall>>
     /\ UNCHANGED <<work, wNow>>

AttemptRefused(i) ==
  /\ outcome = Running /\ task[i].pc = "calling" /\ Fails(i, task[i].op)
  /\ UNCHANGED <<work, wNow, got>>

\* Nothing is ready, so the loop sleeps.
Idle ==
  /\ \A i \in DOMAIN work : ~ MayEnter(i)
  /\ \A i \in DOMAIN work : task[i].pc \in {"pacing", "calling"} => wNow < task[i].until

Sleep ==
  /\ outcome = Running /\ Idle /\ wNow < EffectiveTimeout(work)
  /\ wNow' = wNow + 1
  /\ UNCHANGED <<work, task, nextAt, got, lastCall, outcome>>

\* asyncio.timeout cancels every task.
Expire ==
  /\ outcome = Running /\ wNow >= EffectiveTimeout(work)
  /\ task' = [j \in DOMAIN work |-> [task[j] EXCEPT !.pc = IF @ = "done" THEN @ ELSE "cancelled"]]
  /\ outcome' = [is |-> "timeout"]
  /\ UNCHANGED <<work, wNow, nextAt, got, lastCall>>

WarmNext ==
  \/ \E i \in DOMAIN work : Enter(i) \/ Called(i) \/ Answered(i) \/ AttemptRefused(i)
  \/ Sleep \/ Expire

WarmSpec == WarmInit /\ [][WarmNext]_warmVars

(***************************************************************************)
(* Properties.                                                             *)
(***************************************************************************)

\* The pacers keep a rate-gated provider's requests apart however the tasks
\* interleave: two of them are never closer than its gap (_WarmRatePacer).
RateGateKept ==
  \A p \in Gated : \A a, b \in lastCall[p] : a # b => (a - b >= Gap[p] \/ b - a >= Gap[p])

\* A warm-up that succeeded holds everything get_quote later insists on: a yield
\* of either kind comes with what it is computed from (WarmedInstrument).
CompleteIsServable ==
  outcome.is = "complete" =>
    \A i \in DOMAIN work :
      /\ "quote" \in got[i]
      /\ (work[i].yield = "annualized" \/ work[i].dividend) => "dividend" \in got[i]
      /\ work[i].yield = "metric" => "yield" \in got[i]

\* One operation and one provider for each instrument, and one gate at most.
OneGate(w) ==
  /\ \A i \in DOMAIN w : Len(Capabilities(w[i])) = 1 /\ Len(ChainOf(w[i], 1)) = 1
  /\ \A i, j \in DOMAIN w :
       LET p == ChainOf(w[i], 1)[1]
           q == ChainOf(w[j], 1)[1]
       IN (Gap[p] > 0 /\ Gap[q] > 0) => p = q

\* A warm-up of one-provider routes behind at most one rate gate cannot run out
\* of time while every request keeps to its own timeout: the deadline of
\* _warm_execution_plan covers waiting for slots and pacing together.
PlainWarmUpFits == outcome.is = "timeout" => ~OneGate(work)

\* A warm-up (_warm) keeps its providers' rates, is long enough where nothing is
\* wrong, and leaves out nothing that is needed later.
WarmUpSound == RateGateKept /\ CompleteIsServable /\ PlainWarmUpFits
=============================================================================
