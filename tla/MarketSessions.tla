--------------------------- MODULE MarketSessions ---------------------------
(***************************************************************************)
(* The market calendars of market.py and the freshness rules built on      *)
(* them: what QuickPriceService reports of a quote as the clock runs, and  *)
(* which quote the activation's warm-up accepts.                           *)
(*                                                                         *)
(* Time is counted in half hours of UTC from a Monday 00:00 in New York,   *)
(* the coarsest grid that has every session boundary on it (9:30, 16:00    *)
(* and 17:00).  The offset of New York changes once, at Switch.            *)
(***************************************************************************)
EXTENDS Integers

CONSTANTS
  Calendars,     \* of {"us_equity", "fx_24x5", "always_open"}
  Before, After, \* half hours from UTC to New York, before and after the switch
  Switch,        \* the instant the clocks change
  StaleAfter,    \* stale_after_seconds, in half hours
  ConfirmFor,    \* how long an observed market status counts
  Arrivals,      \* instants at which a quote may arrive
  Ages,          \* ages of an arriving quote, -1 when it is dated ahead
  LastHalfHour   \* bound of the clock

ASSUME SessionAssumption ==
  /\ StaleAfter \in Nat /\ ConfirmFor \in Nat /\ LastHalfHour \in Nat
  /\ Arrivals \subseteq 0..LastHalfHour /\ Ages \subseteq Int

VARIABLES
  clock,
  calendar,      \* market_calendar of the instrument
  held,          \* the quote of the snapshot: as_of, market_status, market_status_as_of
  wasStale       \* the instrument was reported stale since this quote arrived

sessionVars == <<clock, calendar, held, wasStale>>

Never == -1000
None == [asOf |-> Never, status |-> "unknown", statusAt |-> Never]

Day == 48

\* Wall-clock half hours in New York since a Monday 00:00, and back.
Local(t) == t + (IF t < Switch THEN Before ELSE After)
Utc(w) == IF w - Before < Switch THEN w - Before ELSE w - After
Weekday(w) == (w \div Day) % 7
Slot(w) == w % Day
Midnight(w) == w - Slot(w)

\* The clocks of New York change by one hour, on a Sunday at 2:00.
ASSUME ClockAssumption ==
  /\ {Before, After, Switch} \subseteq Int /\ After - Before \in {-2, 2}
  /\ Weekday(Switch + Before) = 6 /\ Slot(Switch + Before) = 4
  /\ Calendars \subseteq {"us_equity", "fx_24x5", "always_open"}

(***************************************************************************)
(* market.py                                                               *)
(***************************************************************************)
EquityOpen == 19
EquityClose == 32
FxClose == 34

ScheduledMarketStatus(c, t) ==
  LET w == Local(t)
      fxOpen == \/ Weekday(w) = 6 /\ Slot(w) >= FxClose
                \/ Weekday(w) \in 0..3
                \/ Weekday(w) = 4 /\ Slot(w) < FxClose
      open == CASE c = "us_equity" -> Weekday(w) < 5 /\ Slot(w) \in EquityOpen..(EquityClose - 1)
                [] c = "fx_24x5" -> fxOpen
                [] OTHER -> TRUE
  IN IF open THEN "open" ELSE "closed"

\* The first candidate of the week walk that is not in the future.
CloseCandidates(c, t) ==
  LET w == Local(t)
      at == IF c = "us_equity" THEN EquityClose ELSE FxClose
      days == IF c = "us_equity" THEN 0..4 ELSE {4}
  IN {x \in {Midnight(w) - Day * back + at : back \in 0..7} : Weekday(x) \in days /\ x <= w}

MostRecentScheduledClose(c, t) ==
  LET found == CloseCandidates(c, t)
  IN IF c = "always_open" \/ found = {} THEN Never
     ELSE Utc(CHOOSE x \in found : \A y \in found : y <= x)

NextOpenCandidates(t) ==
  LET w == Local(t)
  IN {x \in {Midnight(w) + Day * ahead + EquityOpen : ahead \in 0..7} : Weekday(x) < 5 /\ x > w}

UntilNextUsEquityOpen(t) ==
  LET found == NextOpenCandidates(t)
  IN Utc(CHOOSE x \in found : \A y \in found : x <= y) - t

(***************************************************************************)
(* QuickPriceService._effective_market_status and ._quality                *)
(***************************************************************************)
StatusCurrent(q, t) == q.statusAt # Never /\ t - q.statusAt \in 0..ConfirmFor

EffectiveMarketStatus(q, c, t) ==
  IF StatusCurrent(q, t) /\ q.status # "unknown" THEN q.status ELSE ScheduledMarketStatus(c, t)

MeasuredFromLater(c, t) == \* mutant: the allowance is counted twice
  LET close == MostRecentScheduledClose(c, t) IN IF close = Never THEN t ELSE close - StaleAfter

\* A quote is measured against the clock while its market is open and against
\* the last close while the schedule alone says that it is closed.
MeasuredFrom(c, t) ==
  LET close == MostRecentScheduledClose(c, t) IN IF close = Never THEN t ELSE close

Stale(q, c, t) ==
  LET confirmed == q.status = "closed" /\ StatusCurrent(q, t)
      closed == EffectiveMarketStatus(q, c, t) = "closed"
  IN ~ confirmed /\ q.asOf < (IF closed THEN MeasuredFrom(c, t) ELSE t) - StaleAfter

(***************************************************************************)
(* InstrumentCatalogRuntime._validate_quote                                *)
(***************************************************************************)

FitForActivation(q, c, t) ==
  /\ q.asOf <= t
  /\ \/ t - q.asOf <= StaleAfter
     \/ ScheduledMarketStatus(c, t) = "closed"
     \/ c # "always_open" /\ q.status = "closed" /\ StatusCurrent(q, t)

(***************************************************************************)
(* A quote arrives, and the clock runs.                                    *)
(***************************************************************************)
SessionInit ==
  /\ clock = 0 /\ calendar \in Calendars /\ held = None /\ wasStale = FALSE

Statuses(t) == {<<"unknown", Never>>} \cup {<<s, t>> : s \in {"open", "closed"}}

Arrive ==
  /\ clock \in Arrivals
  /\ \E age \in Ages, s \in Statuses(clock) :
       LET q == [asOf |-> clock - age, status |-> s[1], statusAt |-> s[2]]
       IN /\ q.asOf >= held.asOf
          /\ held' = q
          /\ wasStale' = Stale(q, calendar, clock)
  /\ UNCHANGED <<clock, calendar>>

Pass ==
  /\ clock < LastHalfHour
  /\ clock' = clock + 1
  /\ wasStale' = (held # None /\ (wasStale \/ Stale(held, calendar, clock + 1)))
  /\ UNCHANGED <<calendar, held>>

SessionNext == Arrive \/ Pass

SessionSpec == SessionInit /\ [][SessionNext]_sessionVars

(***************************************************************************)
(* Properties.                                                             *)
(***************************************************************************)

\* most_recent_scheduled_close (market.py) finds the start of the closed
\* interval the clock is in, across weekends and across the change of the
\* clocks: the market was open just before it and has been closed since.
CloseBeginsInterval ==
  LET close == MostRecentScheduledClose(calendar, clock)
  IN (ScheduledMarketStatus(calendar, clock) = "closed" /\ close >= 0) =>
       /\ ScheduledMarketStatus(calendar, close - 1) = "open"
       /\ \A t \in close..clock : ScheduledMarketStatus(calendar, t) = "closed"

\* seconds_until_next_us_equity_open (market.py) is the time to the next opening:
\* the market opens then, and opens at no instant before.
OpensWhenPromised ==
  LET next == clock + UntilNextUsEquityOpen(clock)
      opens(t) == /\ ScheduledMarketStatus("us_equity", t) = "open"
                  /\ ScheduledMarketStatus("us_equity", t - 1) = "closed"
  IN /\ next > clock /\ opens(next)
     /\ \A t \in (clock + 1)..(next - 1) : ~ opens(t)

\* A quote once reported stale is not reported fresh again until another one
\* arrives: closing and opening of the market never rejuvenate it (_quality).
\* Quotes whose exchange clock said "open" are left out: outside the schedule
\* such a quote ages by the clock until the observation lapses, and by the last
\* close from then on.
StaleIsFinal ==
  (wasStale /\ held.status # "open") => Stale(held, calendar, clock)

\* The warm-up and the service judge one quote alike: what _validate_quote
\* accepts and _quality still calls stale, the schedule says is closed.
AcceptedStaleOnlyClosed ==
  (held # None /\ FitForActivation(held, calendar, clock) /\ Stale(held, calendar, clock))
    => ScheduledMarketStatus(calendar, clock) = "closed"

\* The calendars (market.py) are exact, and what the service and the warm-up
\* make of them (_quality, _validate_quote) neither rejuvenates a quote nor
\* accepts an old one in an open market.
SessionsSound == CloseBeginsInterval /\ OpensWhenPromised /\ StaleIsFinal /\ AcceptedStaleOnlyClosed
=============================================================================
