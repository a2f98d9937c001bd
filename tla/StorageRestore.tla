---------------------------- MODULE StorageRestore ----------------------------
(***************************************************************************)
(* What SQLite keeps and what a start or a catalog activation reads back   *)
(* (storage/database.py): the writer commits batches, the retention        *)
(* cleanup deletes rows, and a reader restores the rows of its symbols in  *)
(* batches while both go on.  A row is its key and the fields the queries  *)
(* select and order by; prices are left out.                               *)
(***************************************************************************)
EXTENDS Integers, Sequences, FiniteSets, FiniteSetsExt

CONSTANTS
  StoredSymbols,   \* a sequence: restored one after the other, one per batch
  Retention,       \* ["minute", "aggregate", "daily" -> time units kept]
  LastDay,         \* bound: time units
  MaxCommits       \* bound: transactions of the writer

ASSUME StoredAssumption ==
  /\ LastDay \in Nat /\ MaxCommits \in Nat
  /\ StoredSymbols \in Seq({StoredSymbols[i] : i \in DOMAIN StoredSymbols})
  /\ Retention \in [{"minute", "aggregate", "daily"} -> Nat]

VARIABLES
  day,        \* the clock
  rows,       \* the committed rows
  commits,    \* transactions so far
  pending,    \* a cleanup in the queue: the clock when it was asked for, -1 if none
  reader      \* the restoration under way or ended

storedVars == <<day, rows, commits, pending, reader>>

Tables == {"minute", "aggregate", "daily"}
Names == {StoredSymbols[i] : i \in DOMAIN StoredSymbols}

Price(table, s, at) == [is |-> "price", table |-> table, symbol |-> s, at |-> at]
Dividend(s, date, regular, n) == [is |-> "dividend", symbol |-> s, date |-> date, regular |-> regular, stored |-> n]
Yield(s, asOf, n) == [is |-> "yield", symbol |-> s, asOf |-> asOf, stored |-> n]

Of(set, kind, s) == {r \in set : r.is = kind /\ r.symbol = s}

(***************************************************************************)
(* Which rows count                                                        *)
(***************************************************************************)
\* ROW_NUMBER() = 1: a regular dividend before a special one, then the later
\* ex-date, then the later write; a yield by its write first.
OutranksDividend(r, q) ==
  \/ r.regular /\ ~q.regular
  \/ r.regular = q.regular /\ (r.date > q.date \/ (r.date = q.date /\ r.stored >= q.stored))

OutranksYield(r, q) == r.stored > q.stored \/ (r.stored = q.stored /\ r.asOf >= q.asOf)

BestDividends(set, s) == {r \in Of(set, "dividend", s) : \A q \in Of(set, "dividend", s) : OutranksDividend(r, q)}
BestYields(set, s) == {r \in Of(set, "yield", s) : \A q \in Of(set, "yield", s) : OutranksYield(r, q)}

Retained(set, s, now) == {r \in Of(set, "price", s) : r.at >= now - Retention[r.table]}

\* restore and restore_history_into, for one batch of symbols.
Restorable(set, s, now) == Retained(set, s, now) \cup BestDividends(set, s) \cup BestYields(set, s)

(***************************************************************************)
(* The writer                                                              *)
(***************************************************************************)
\* Upserts: a row replaces the one with its key; the amount in the key of a
\* dividend tells a special one from a regular one of the same date.
SameKey(r, q) ==
  /\ r.is = q.is /\ r.symbol = q.symbol
  /\ CASE r.is = "price" -> r.table = q.table /\ r.at = q.at
       [] r.is = "dividend" -> r.date = q.date /\ r.regular = q.regular
       [] OTHER -> r.asOf = q.asOf

Upserted(set, new) == {r \in set : ~\E q \in new : SameKey(r, q)} \cup new

\* One transaction: a batch of prices covers every symbol, metadata comes
\* singly and may be dated earlier than what is stored.
Commit(new) ==
  /\ commits < MaxCommits
  /\ rows' = Upserted(rows, new) /\ commits' = commits + 1
  /\ UNCHANGED <<day, pending, reader>>

CommitPrices(table) == Commit({Price(table, s, day) : s \in Names})
CommitDividend(s, date, regular) == Commit({Dividend(s, date, regular, commits + 1)})
CommitYield(s, asOf) == Commit({Yield(s, asOf, commits + 1)})

\* cleanup(): the limits are computed when it is asked for, the command waits
\* in the queue.
AskCleanup ==
  /\ pending = -1 /\ pending' = day
  /\ UNCHANGED <<day, rows, commits, reader>>

ExpiredNewestWins(set, asked) == \* mutant: only the newest dividend is kept
  {r \in set :
     CASE r.is = "price" -> r.at < asked - Retention[r.table]
       [] r.is = "dividend" -> \E q \in Of(set, "dividend", r.symbol) : q.date > r.date
       [] OTHER -> r \notin BestYields(set, r.symbol)}

Expired(set, asked) ==
  {r \in set :
     CASE r.is = "price" -> r.at < asked - Retention[r.table]
       [] r.is = "dividend" -> r \notin BestDividends(set, r.symbol)
       [] OTHER -> r \notin BestYields(set, r.symbol)}

RunCleanup ==
  /\ pending # -1 /\ pending' = -1
  /\ rows' = rows \ Expired(rows, pending)
  /\ UNCHANGED <<day, commits, reader>>

(***************************************************************************)
(* The reader                                                              *)
(***************************************************************************)
NoReader == [state |-> "none"]

\* BEGIN on a WAL connection pins what is committed.
RestoreBegin ==
  /\ reader = NoReader
  /\ reader' = [state |-> "reading", pinned |-> rows, at |-> day, next |-> 1, image |-> {}]
  /\ UNCHANGED <<day, rows, commits, pending>>

VisibleNow == rows \* mutant: every query sees the latest commit

Visible == reader.pinned

RestoreBatch ==
  /\ reader.state = "reading" /\ reader.next <= Len(StoredSymbols)
  /\ reader' = [reader EXCEPT !.next = @ + 1,
                  !.image = @ \cup Restorable(Visible, StoredSymbols[reader.next], reader.at)]
  /\ UNCHANGED <<day, rows, commits, pending>>

RestoreEnd ==
  /\ reader.state = "reading" /\ reader.next > Len(StoredSymbols)
  /\ reader' = [state |-> "restored", image |-> reader.image, at |-> reader.at]
  /\ UNCHANGED <<day, rows, commits, pending>>

RestoreForgotten ==
  /\ reader.state = "restored" /\ reader' = NoReader
  /\ UNCHANGED <<day, rows, commits, pending>>

NewDay ==
  /\ day < LastDay /\ day' = day + 1
  /\ UNCHANGED <<rows, commits, pending, reader>>

-----------------------------------------------------------------------------
StoredInit == day = 0 /\ rows = {} /\ commits = 0 /\ pending = -1 /\ reader = NoReader

StoredNext ==
  \/ \E table \in Tables : CommitPrices(table)
  \/ \E s \in Names, d \in 0..day : CommitYield(s, d) \/ \E regular \in BOOLEAN : CommitDividend(s, d, regular)
  \/ AskCleanup \/ RunCleanup
  \/ RestoreBegin \/ RestoreBatch \/ RestoreEnd \/ RestoreForgotten
  \/ NewDay

StoredSpec == StoredInit /\ [][StoredNext]_storedVars

(***************************************************************************)
(* Properties                                                              *)
(***************************************************************************)
\* database.py:1277-1279: "Otherwise a writer commit between batches could
\* produce a mixed restoration image".  A price batch is restored for every
\* symbol or for none, whatever is committed or deleted meanwhile.
RestoredTogether ==
  reader.state = "restored" =>
    \A s \in Names, t \in Names : \A r \in Of(reader.image, "price", s) :
       Price(r.table, t, r.at) \in reader.image

\* database.py:563-586: the cleanup removes only what a restoration would not
\* read back, now or later, though its limits were computed before it ran and
\* the ranking of the rows may have changed since.
CleanupHarmless ==
  [][pending # -1 /\ pending' = -1 =>
       \A s \in Names : Restorable(rows', s, day) = Restorable(rows, s, day)]_storedVars
=============================================================================
