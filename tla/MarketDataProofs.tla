--------------------------- MODULE MarketDataProofs ---------------------------
(***************************************************************************)
(* Proofs about the market data: what the service tells of a symbol        *)
(* (MarketState) and what a restoration reads (StorageRestore), for every  *)
(* set of symbols, sequence of catalogs, retention, and number of          *)
(* generations, transactions and crashes.                                  *)
(***************************************************************************)
EXTENDS MarketState, StorageRestore, FiniteSetTheorems, SequenceTheorems, TLAPS

-----------------------------------------------------------------------------
(* Rows.                                                                   *)

Prices == [is : {"price"}, table : Tables, symbol : Names, at : Nat]
Dividends == [is : {"dividend"}, symbol : Names, date : Nat, regular : BOOLEAN, stored : Nat]
YieldRows == [is : {"yield"}, symbol : Names, asOf : Nat, stored : Nat]
Rows == Prices \cup Dividends \cup YieldRows

(* A batch of prices is there for every symbol or for none. *)
Together(set) ==
  \A r \in set : r.is = "price" => \A t \in Names : Price(r.table, t, r.at) \in set

(* What a restoration has read of its first symbols. *)
ReadOf(set, k, now) == UNION {Restorable(set, StoredSymbols[i], now) : i \in 1..k}

(* The restoration under way has read whole symbols of one snapshot, in    *)
(* which no batch is torn.                                                 *)
ReaderInv ==
  \/ reader = NoReader
  \/ /\ reader \in [state : {"reading"}, pinned : SUBSET Rows, at : Nat,
                    next : 1..(Len(StoredSymbols) + 1), image : SUBSET Rows]
     /\ Together(reader.pinned)
     /\ reader.image = ReadOf(reader.pinned, reader.next - 1, reader.at)
  \/ /\ reader \in [state : {"restored"}, image : SUBSET Rows, at : Nat]
     /\ Together(reader.image)

StoredInv ==
  /\ day \in Nat /\ commits \in Nat /\ rows \in SUBSET Rows
  /\ pending \in Int /\ -1 <= pending /\ pending <= day
  /\ Together(rows)
  /\ ReaderInv

\* The symbols are the elements of a sequence, the tables three.
LEMMA SymbolFacts ==
  /\ Len(StoredSymbols) \in Nat /\ DOMAIN StoredSymbols = 1..Len(StoredSymbols)
  /\ \A i \in 1..Len(StoredSymbols) : StoredSymbols[i] \in Names
  /\ \A s \in Names : \E i \in 1..Len(StoredSymbols) : StoredSymbols[i] = s
  /\ \A t \in Tables : Retention[t] \in Nat
BY StoredAssumption DEF Names, Tables

\* A row of each kind, by its fields.
LEMMA RowFacts ==
  ASSUME NEW r \in Rows
  PROVE  /\ r.is = "price" => r \in Prices /\ r = Price(r.table, r.symbol, r.at)
         /\ r.is = "dividend" => r \in Dividends
         /\ r.is = "yield" => r \in YieldRows
         /\ r.is \in {"price", "dividend", "yield"} /\ r.symbol \in Names
BY DEF Rows, Prices, Dividends, YieldRows, Price

LEMMA PriceFacts ==
  ASSUME NEW table \in Tables, NEW t \in Names, NEW at \in Nat
  PROVE  LET r == Price(table, t, at)
         IN  r \in Rows /\ r.is = "price" /\ r.table = table /\ r.symbol = t /\ r.at = at
BY DEF Rows, Prices, Price

-----------------------------------------------------------------------------
(* Transactions.                                                           *)

\* An upsert of whole batches, or of rows that are not prices, tears none.
LEMMA UpsertKeeps ==
  ASSUME NEW set \in SUBSET Rows, NEW new \in SUBSET Rows, Together(set), Together(new)
  PROVE  Upserted(set, new) \in SUBSET Rows /\ Together(Upserted(set, new))
<1>1. Upserted(set, new) \in SUBSET Rows
  BY DEF Upserted
<1>2. ASSUME NEW r \in Upserted(set, new), r.is = "price", NEW t \in Names
      PROVE  Price(r.table, t, r.at) \in Upserted(set, new)
  <2>1. r \in Rows /\ r \in Prices
    BY <1>1, <1>2, RowFacts
  <2>2. CASE r \in new
    BY <2>2, <1>2 DEF Together, Upserted
  <2>3. CASE r \in set
    <3> DEFINE p == Price(r.table, t, r.at)
    <3>1. p \in set /\ p \in Rows /\ p.is = "price" /\ p.symbol = t /\ p.table = r.table /\ p.at = r.at
      BY <2>1, <2>3, <1>2, PriceFacts DEF Together, Prices
    <3>2. CASE \E q \in new : SameKey(p, q)
      <4>1. PICK q \in new : SameKey(p, q)
        BY <3>2
      <4>2. q \in Rows /\ q.is = "price" /\ q.table = r.table /\ q.at = r.at
        BY <4>1, <3>1 DEF SameKey
      <4> QED BY <4>2 DEF Together, Upserted
    <3>3. CASE ~\E q \in new : SameKey(p, q)
      BY <3>1, <3>3 DEF Upserted
    <3> QED BY <3>2, <3>3
  <2> QED BY <2>2, <2>3 DEF Upserted
<1> QED BY <1>1, <1>2 DEF Together

\* The cleanup deletes prices by table and time alone.
LEMMA CleanupKeeps ==
  ASSUME NEW set \in SUBSET Rows, NEW asked \in Int, Together(set)
  PROVE  Together(set \ Expired(set, asked))
<1>1. SUFFICES ASSUME NEW r \in set \ Expired(set, asked), r.is = "price", NEW t \in Names
               PROVE  Price(r.table, t, r.at) \in set \ Expired(set, asked)
  BY DEF Together
<1> DEFINE p == Price(r.table, t, r.at)
<1>2. r \in Prices
  BY <1>1, RowFacts
<1>3. p \in set /\ p.is = "price" /\ p.table = r.table /\ p.at = r.at
  BY <1>1, <1>2, PriceFacts DEF Together, Prices
<1>4. ~(r.at < asked - Retention[r.table])
  BY <1>1 DEF Expired
<1>5. p \notin Expired(set, asked)
  BY <1>3, <1>4 DEF Expired
<1> QED BY <1>3, <1>5

\* What a restoration reads of one symbol comes out of the rows.
LEMMA RestorableFacts ==
  ASSUME NEW set \in SUBSET Rows, NEW s, NEW now \in Int
  PROVE  /\ Restorable(set, s, now) \in SUBSET set
         /\ \A r \in Restorable(set, s, now) : r.is = "price" => r.symbol = s /\ r.at >= now - Retention[r.table]
         /\ \A r \in set : r.is = "price" /\ r.symbol = s /\ r.at >= now - Retention[r.table]
              => r \in Restorable(set, s, now)
BY DEF Restorable, Retained, BestDividends, BestYields, Of

\* The image of all symbols of a snapshot has every batch of it or none.
LEMMA ImageTogether ==
  ASSUME NEW set \in SUBSET Rows, NEW now \in Int, Together(set)
  PROVE  Together(ReadOf(set, Len(StoredSymbols), now))
<1> DEFINE n == Len(StoredSymbols)
<1>1. SUFFICES ASSUME NEW r \in ReadOf(set, n, now), r.is = "price", NEW t \in Names
               PROVE  Price(r.table, t, r.at) \in ReadOf(set, n, now)
  BY DEF Together
<1>2. PICK i \in 1..n : r \in Restorable(set, StoredSymbols[i], now)
  BY <1>1 DEF ReadOf
<1>3. r \in set /\ r.at >= now - Retention[r.table]
  BY <1>1, <1>2, RestorableFacts
<1>4. r \in Prices
  BY <1>1, <1>3, RowFacts
<1> DEFINE p == Price(r.table, t, r.at)
<1>5. p \in set /\ p.is = "price" /\ p.symbol = t /\ p.table = r.table /\ p.at = r.at
  BY <1>1, <1>3, <1>4, PriceFacts DEF Together, Prices
<1>6. PICK j \in 1..n : StoredSymbols[j] = t
  BY SymbolFacts
<1>7. p \in Restorable(set, StoredSymbols[j], now)
  BY <1>3, <1>5, <1>6, RestorableFacts
<1> QED BY <1>7 DEF ReadOf

-----------------------------------------------------------------------------
LEMMA StoredInitInv ==
  ASSUME StoredInit PROVE StoredInv
BY DEF StoredInit, StoredInv, ReaderInv, Together

LEMMA CommitKeeps ==
  ASSUME StoredInv, NEW new \in SUBSET Rows, Together(new), Commit(new)
  PROVE  StoredInv'
<1>1. rows' \in SUBSET Rows /\ Together(rows')
  BY UpsertKeeps DEF StoredInv, Commit
<1> QED BY <1>1 DEF StoredInv, Commit, ReaderInv, Together

LEMMA StoredNextInv ==
  ASSUME StoredInv, [StoredNext]_storedVars PROVE StoredInv'
<1> USE DEF StoredInv
<1>1. ASSUME NEW table \in Tables, CommitPrices(table) PROVE StoredInv'
  <2> DEFINE new == {Price(table, s, day) : s \in Names}
  <2>1. new \in SUBSET Rows
    BY PriceFacts
  <2>2. Together(new)
    BY PriceFacts DEF Together
  <2> QED BY <1>1, <2>1, <2>2, CommitKeeps DEF CommitPrices
<1>2. ASSUME NEW s \in Names, NEW d \in 0..day, CommitYield(s, d) PROVE StoredInv'
  <2> DEFINE new == {Yield(s, d, commits + 1)}
  <2>1. new \in SUBSET Rows /\ Together(new)
    BY DEF Rows, YieldRows, Yield, Together
  <2> QED BY <1>2, <2>1, CommitKeeps DEF CommitYield
<1>3. ASSUME NEW s \in Names, NEW d \in 0..day, NEW regular \in BOOLEAN, CommitDividend(s, d, regular)
      PROVE  StoredInv'
  <2> DEFINE new == {Dividend(s, d, regular, commits + 1)}
  <2>1. new \in SUBSET Rows /\ Together(new)
    BY DEF Rows, Dividends, Dividend, Together
  <2> QED BY <1>3, <2>1, CommitKeeps DEF CommitDividend
<1>4. CASE AskCleanup
  BY <1>4 DEF AskCleanup, ReaderInv
<1>5. CASE RunCleanup
  <2>1. rows' \in SUBSET Rows /\ Together(rows')
    BY <1>5, CleanupKeeps DEF RunCleanup
  <2> QED BY <1>5, <2>1 DEF RunCleanup, ReaderInv
<1>6. CASE RestoreBegin
  <2>1. ReadOf(rows, 0, day) = {}
    BY DEF ReadOf
  <2>2. ReaderInv'
    BY <1>6, <2>1, SymbolFacts DEF RestoreBegin, ReaderInv
  <2> QED BY <1>6, <2>2 DEF RestoreBegin
<1>7. CASE RestoreBatch
  <2> DEFINE k == reader.next
             more == Restorable(reader.pinned, StoredSymbols[k], reader.at)
  <2>1. /\ reader \in [state : {"reading"}, pinned : SUBSET Rows, at : Nat,
                       next : 1..(Len(StoredSymbols) + 1), image : SUBSET Rows]
        /\ Together(reader.pinned) /\ reader.image = ReadOf(reader.pinned, k - 1, reader.at)
    BY <1>7 DEF RestoreBatch, ReaderInv, NoReader
  <2>2. k \in 1..Len(StoredSymbols) /\ k + 1 \in 1..(Len(StoredSymbols) + 1)
    BY <1>7, <2>1, SymbolFacts DEF RestoreBatch
  <2>3. more \in SUBSET Rows
    BY <2>1, RestorableFacts
  <2>4. ReadOf(reader.pinned, k, reader.at) = reader.image \cup more
    <3>1. 1..k = (1..(k - 1)) \cup {k}
      BY <2>2
    <3> QED BY <2>1, <3>1 DEF ReadOf
  <2>5. reader' = [reader EXCEPT !.next = @ + 1, !.image = @ \cup more]
    BY <1>7 DEF RestoreBatch, Visible
  <2>6. ReaderInv'
    <3>1. reader' \in [state : {"reading"}, pinned : SUBSET Rows, at : Nat,
                       next : 1..(Len(StoredSymbols) + 1), image : SUBSET Rows]
          /\ reader'.next = k + 1 /\ reader'.image = reader.image \cup more
          /\ reader'.pinned = reader.pinned /\ reader'.at = reader.at
      BY <2>1, <2>2, <2>3, <2>5
    <3>2. (k + 1) - 1 = k
      BY <2>2
    <3> QED BY <2>1, <2>4, <3>1, <3>2 DEF ReaderInv
  <2> QED BY <1>7, <2>6 DEF RestoreBatch
<1>8. CASE RestoreEnd
  <2>1. /\ reader \in [state : {"reading"}, pinned : SUBSET Rows, at : Nat,
                       next : 1..(Len(StoredSymbols) + 1), image : SUBSET Rows]
        /\ Together(reader.pinned) /\ reader.image = ReadOf(reader.pinned, reader.next - 1, reader.at)
    BY <1>8 DEF RestoreEnd, ReaderInv, NoReader
  <2>2. reader.next - 1 = Len(StoredSymbols)
    BY <1>8, <2>1, SymbolFacts DEF RestoreEnd
  <2>3. Together(reader.image)
    BY <2>1, <2>2, ImageTogether
  <2>4. ReaderInv'
    BY <1>8, <2>1, <2>3 DEF RestoreEnd, ReaderInv
  <2> QED BY <1>8, <2>4 DEF RestoreEnd
<1>9. CASE RestoreForgotten
  BY <1>9 DEF RestoreForgotten, ReaderInv
<1>10. CASE NewDay
  BY <1>10 DEF NewDay, ReaderInv
<1>11. CASE UNCHANGED storedVars
  BY <1>11 DEF storedVars, ReaderInv
<1> QED BY <1>1, <1>2, <1>3, <1>4, <1>5, <1>6, <1>7, <1>8, <1>9, <1>10, <1>11 DEF StoredNext

THEOREM StoredInvariant == StoredSpec => []StoredInv
<1>1. StoredInit => StoredInv
  BY StoredInitInv
<1>2. StoredInv /\ [StoredNext]_storedVars => StoredInv'
  BY StoredNextInv
<1> QED BY <1>1, <1>2, PTL DEF StoredSpec

(* A price batch is restored for every symbol or for none, however many    *)
(* batches the restoration reads and whatever is committed or deleted      *)
(* between them (database.py, restore_sync).                               *)
THEOREM RestorationIsWhole == StoredSpec => []RestoredTogether
<1>1. StoredInv => RestoredTogether
  <2>1. SUFFICES ASSUME StoredInv, reader.state = "restored", NEW s \in Names, NEW t \in Names,
                        NEW r \in Of(reader.image, "price", s)
                 PROVE  Price(r.table, t, r.at) \in reader.image
    BY DEF RestoredTogether
  <2>2. Together(reader.image)
    BY <2>1 DEF StoredInv, ReaderInv, NoReader
  <2> QED BY <2>1, <2>2 DEF Together, Of
<1> QED BY <1>1, StoredInvariant, PTL

\* The rows that the cleanup leaves are restored as before: a price that it
\* deletes is past its retention, and the best row of a symbol stays.
LEMMA CleanupChangesNothing ==
  ASSUME NEW set \in SUBSET Rows, NEW asked \in Int, NEW now \in Int, asked <= now, NEW s \in Names
  PROVE  Restorable(set \ Expired(set, asked), s, now) = Restorable(set, s, now)
<1> DEFINE kept == set \ Expired(set, asked)
<1>1. Retained(kept, s, now) = Retained(set, s, now)
  <2>1. ASSUME NEW r \in Retained(set, s, now) PROVE r \notin Expired(set, asked)
    <3>1. r \in set /\ r.is = "price" /\ r.at >= now - Retention[r.table]
      BY DEF Retained, Of
    <3>2. r \in Prices
      BY <3>1, RowFacts
    <3>3. ~(r.at < asked - Retention[r.table])
      BY <3>1, <3>2, SymbolFacts DEF Prices
    <3> QED BY <3>1, <3>3 DEF Expired
  <2> QED BY <2>1 DEF Retained, Of
<1>2. BestDividends(kept, s) = BestDividends(set, s)
  <2>1. ASSUME NEW r \in BestDividends(set, s) PROVE r \in BestDividends(kept, s)
    <3>1. r \in set /\ r.is = "dividend" /\ r.symbol = s
      BY DEF BestDividends, Of
    <3>2. r \notin Expired(set, asked)
      BY <3>1 DEF Expired
    <3> QED BY <3>1, <3>2 DEF BestDividends, Of
  <2>2. ASSUME NEW r \in BestDividends(kept, s) PROVE r \in BestDividends(set, s)
    <3>1. r \in set /\ r \notin Expired(set, asked) /\ r.is = "dividend" /\ r.symbol = s
      BY DEF BestDividends, Of
    <3> QED BY <3>1 DEF Expired
  <2> QED BY <2>1, <2>2
<1>3. BestYields(kept, s) = BestYields(set, s)
  <2>1. ASSUME NEW r \in BestYields(set, s) PROVE r \in BestYields(kept, s)
    <3>1. r \in set /\ r.is = "yield" /\ r.symbol = s
      BY DEF BestYields, Of
    <3>2. r \notin Expired(set, asked)
      BY <3>1 DEF Expired
    <3> QED BY <3>1, <3>2 DEF BestYields, Of
  <2>2. ASSUME NEW r \in BestYields(kept, s) PROVE r \in BestYields(set, s)
    <3>1. r \in set /\ r \notin Expired(set, asked) /\ r.is = "yield" /\ r.symbol = s
      BY DEF BestYields, Of
    <3> QED BY <3>1 DEF Expired
  <2> QED BY <2>1, <2>2
<1> QED BY <1>1, <1>2, <1>3 DEF Restorable

(* The cleanup removes only what a restoration would not read back, though *)
(* its limits are older than the rows it meets (database.py, cleanup).     *)
THEOREM CleanupIsHarmless == StoredSpec => CleanupHarmless
<1> DEFINE Harmless == pending # -1 /\ pending' = -1 =>
             \A s \in Names : Restorable(rows', s, day) = Restorable(rows, s, day)
<1>1. StoredInv /\ [StoredNext]_storedVars => [Harmless]_storedVars
  <2>1. SUFFICES ASSUME StoredInv, StoredNext, pending # -1, pending' = -1, NEW s \in Names
                 PROVE  Restorable(rows', s, day) = Restorable(rows, s, day)
    OBVIOUS
  <2>2. RunCleanup
    BY <2>1 DEF StoredNext, CommitPrices, CommitYield, CommitDividend, Commit, AskCleanup,
                RestoreBegin, RestoreBatch, RestoreEnd, RestoreForgotten, NewDay
  <2>3. rows' = rows \ Expired(rows, pending)
    BY <2>2 DEF RunCleanup
  <2>4. rows \in SUBSET Rows /\ pending \in Int /\ day \in Int /\ pending <= day
    BY <2>1 DEF StoredInv
  <2> QED BY <2>3, <2>4, CleanupChangesNothing
<1>2. StoredSpec => [][Harmless]_storedVars
  BY <1>1, StoredInvariant, PTL DEF StoredSpec
<1> QED BY <1>2 DEF CleanupHarmless

-----------------------------------------------------------------------------
(***************************************************************************)
(* What the service tells of a symbol.                                     *)
(***************************************************************************)
GenRows == [cat : DOMAIN Catalog, data : [MSyms -> Entries]]

(* The price shown is the last quote, and the snapshot is the one of that  *)
(* quote unless it is newer.                                               *)
EntryOK(e) ==
  /\ e.wire.quote = e.last
  /\ e.last = None => e.wire = NoSnap /\ e.snap = NoSnap /\ ~e.complete
  /\ e.last # None => /\ e.snap.quote.asOf >= e.last.asOf
                      /\ e.snap.quote.asOf = e.last.asOf => e.snap = e.wire

MarkOK(e, cat, s) == e.last # None => e.complete = Complete(cat, s, e.wire)
DefOK(e, cat, s) == crashes = 0 /\ e.last # None => e.last.def = Catalog[cat][s]

(* A row or a queued write as new as t. *)
Covered(d, q, s, t) ==
  \/ d.quote[s].asOf >= t
  \/ \E i \in 1..Len(q) : q[i].kind = "quote" /\ q[i].sym = s /\ q[i].value.asOf >= t

(* Which generation is current in each phase of an activation. *)
PhaseInv ==
  act # Idle =>
    /\ act.gen \in 1..issued /\ act.prev \in 1..issued /\ act.gen # act.prev
    /\ act.pc \in {"cloned", "ready"} => cur = act.prev
    /\ act.pc = "cloned" => DOMAIN act.warmed = {}
    /\ act.pc = "switched" => cur = act.gen /\ gens[cur].cat = act.cat
    /\ act.pc \in {"ready", "switched"} => DOMAIN act.warmed \subseteq Listed(act.cat)

GensInv ==
  \A g \in GenIds, s \in MSyms :
    LET e == gens[g].data[s]
    IN  EntryOK(e) /\ (s \in Listed(gens[g].cat) => MarkOK(e, gens[g].cat, s) /\ DefOK(e, gens[g].cat, s))

(* The state that an activation prepares: sound for the symbols that stay  *)
(* as they are, and for all once the changed ones are warm.                *)
Settled(s) == s \in Listed(act.cat) /\ (act.pc = "cloned" => s \notin Changed)

ActInv ==
  /\ act # Idle => \A s \in MSyms : EntryOK(act.data[s])
  /\ act.pc \in {"cloned", "ready"} =>
       \A s \in MSyms : Settled(s) => MarkOK(act.data[s], act.cat, s) /\ DefOK(act.data[s], act.cat, s)
  /\ act.pc = "ready" => \A s \in DOMAIN act.warmed : act.data[s].last # None
  /\ act.pc = "switched" => \A s \in DOMAIN act.warmed : gens[cur].data[s].last # None

(* Every snapshot is stored or queued, but for the warm ones of an         *)
(* activation, which are queued when it ends.                              *)
DurableInv ==
  /\ \A g \in GenIds, s \in MSyms :
       s \in Listed(gens[g].cat) =>
         \/ Covered(db, wq, s, gens[g].data[s].snap.quote.asOf)
         \/ act.pc = "switched" /\ g = cur /\ s \in DOMAIN act.warmed
  /\ act.pc \in {"cloned", "ready"} =>
       \A s \in MSyms : Settled(s) /\ s \notin DOMAIN act.warmed =>
         Covered(db, wq, s, act.data[s].snap.quote.asOf)

MarketInv == MarketTypeOK /\ PhaseInv /\ GensInv /\ ActInv /\ DurableInv

-----------------------------------------------------------------------------
(* Values.                                                                 *)

LEMMA CatalogFacts ==
  /\ 1 \in DOMAIN Catalog
  /\ \A cat \in DOMAIN Catalog : Catalog[cat] \in [MSyms -> Nat]
BY MarketAssumption

LEMMA QuoteFacts ==
  /\ None.asOf = -1 /\ None \notin Quotes
  /\ \A q \in Quotes \cup {None} : /\ q.asOf \in Int /\ q.asOf >= -1
                                   /\ q # None => q \in Quotes /\ q.asOf \in Nat
BY MarketAssumption DEF None, Quotes, Times

LEMMA YieldFacts ==
  /\ NoYield.asOf = -1 /\ NoYield \notin Yields
  /\ \A y \in Yields \cup {NoYield} : /\ y.asOf \in Int
                                      /\ y # NoYield => y \in Yields
BY MarketAssumption DEF NoYield, Yields, Times

LEMMA SnapFacts ==
  /\ NoSnap \in Snaps /\ NoSnap.quote = None
  /\ \A x \in Snaps : x.quote \in Quotes \cup {None}
  /\ \A e \in Entries : /\ e.last \in Quotes \cup {None} /\ e.snap \in Snaps /\ e.wire \in Snaps
                        /\ e.div \in Times \cup {-1} /\ e.yld \in Yields \cup {NoYield}
                        /\ e.failed \in BOOLEAN /\ e.complete \in BOOLEAN
BY DEF NoSnap, Snaps, Entries

LEMMA BlankFacts ==
  /\ BlankEntry \in Entries /\ Blank \in [MSyms -> Entries]
  /\ BlankEntry.last = None /\ BlankEntry.snap = NoSnap /\ EntryOK(BlankEntry)
  /\ BlankEntry.yld = NoYield
<1>1. BlankEntry \in Entries
  BY SnapFacts DEF BlankEntry, Entries
<1>2. EntryOK(BlankEntry)
  BY SnapFacts DEF BlankEntry, EntryOK
<1> QED BY <1>1, <1>2 DEF BlankEntry, Blank

-----------------------------------------------------------------------------
(* _rebuild, for one symbol.                                               *)

LEMMA RebuiltFacts ==
  ASSUME NEW e \in Entries, NEW cat \in DOMAIN Catalog, NEW s \in MSyms
  PROVE  LET r == Rebuilt(e, cat, s)
         IN  /\ r \in Entries /\ r.last = e.last /\ r.yld = e.yld
             /\ e.last = None => r = e
             /\ e.last # None => /\ EntryOK(r) /\ MarkOK(r, cat, s)
                                 /\ r.snap.quote.asOf = e.last.asOf \/ r.snap = e.snap
<1> DEFINE x == [quote |-> e.last,
                 div |-> IF WantsDividend(cat, s) THEN e.div ELSE -1,
                 yld |-> IF WantsYield(cat, s) THEN e.yld ELSE NoYield]
           r == Rebuilt(e, cat, s)
<1>1. x \in Snaps /\ x.quote = e.last
  BY SnapFacts DEF Snaps
<1>2. CASE e.last = None
  BY <1>2 DEF Rebuilt
<1>3. CASE e.last # None
  <2>1. r = [e EXCEPT !.snap = Published(e.snap, x), !.wire = x, !.complete = Marked(cat, s, x)]
    BY <1>3 DEF Rebuilt
  <2> HIDE DEF x
  <2>2. Published(e.snap, x) \in Snaps /\ Marked(cat, s, x) \in BOOLEAN
    BY <1>1, SnapFacts DEF Published, Marked, Complete
  <2> DEFINE p == Published(e.snap, x)
             m == Marked(cat, s, x)
  <2>3. /\ r \in Entries /\ r.last = e.last /\ r.yld = e.yld
        /\ r.snap = p /\ r.wire = x /\ r.complete = m
    <3> HIDE DEF p, m
    <3>1. r = [e EXCEPT !.snap = p, !.wire = x, !.complete = m]
      BY <2>1 DEF p, m
    <3>2. p \in Snaps /\ m \in BOOLEAN
      BY <2>2 DEF p, m
    <3> HIDE DEF r
    <3> QED BY <3>1, <3>2, <1>1 DEF Entries
  <2>4. e.last \in Quotes /\ e.last.asOf \in Nat /\ e.snap.quote.asOf \in Int
    BY <1>3, SnapFacts, QuoteFacts
  <2>5. p.quote.asOf >= e.last.asOf /\ (p.quote.asOf = e.last.asOf => p = x)
    BY <1>1, <2>4 DEF Published
  <2>6. p.quote.asOf = e.last.asOf \/ p = e.snap
    BY <1>1 DEF Published
  <2> HIDE DEF p, r
  <2>7. EntryOK(r)
    BY <1>1, <1>3, <2>3, <2>5 DEF EntryOK
  <2>8. MarkOK(r, cat, s)
    BY <2>3 DEF MarkOK, Marked
  <2> QED BY <2>3, <2>6, <2>7, <2>8, <1>3 DEF r
<1> QED BY <1>2, <1>3

\* After a publication the entry is sound again, whatever was replaced in it.
LEMMA RebuiltSound ==
  ASSUME NEW old \in Entries, EntryOK(old), NEW e \in Entries, NEW cat \in DOMAIN Catalog, NEW s \in MSyms,
         \/ e.last # None
         \/ e.last = old.last /\ e.snap = old.snap /\ e.wire = old.wire /\ e.complete = old.complete
  PROVE  EntryOK(Rebuilt(e, cat, s)) /\ MarkOK(Rebuilt(e, cat, s), cat, s)
<1>1. CASE e.last # None
  BY <1>1, RebuiltFacts
<1>2. CASE e.last = None
  <2>1. Rebuilt(e, cat, s) = e
    BY <1>2, RebuiltFacts
  <2> QED BY <1>2, <2>1 DEF EntryOK, MarkOK
<1> QED BY <1>1, <1>2

-----------------------------------------------------------------------------
(* Rows and the queue.                                                     *)

DbRows == [quote : [MSyms -> Quotes \cup {None}], div : [MSyms -> Times \cup {-1}],
           yld : [MSyms -> Yields \cup {NoYield}]]

LEMMA StoredFacts ==
  ASSUME NEW d \in DbRows, NEW w \in Writes
  PROVE  /\ Stored(d, w) \in DbRows
         /\ \A s \in MSyms : Stored(d, w).quote[s].asOf >= d.quote[s].asOf
         /\ w.kind = "quote" => Stored(d, w).quote[w.sym].asOf >= w.value.asOf
<1> USE DEF DbRows
<1>1. CASE w \in [kind : {"quote"}, sym : MSyms, value : Quotes]
  <2> DEFINE v == IF w.value.asOf >= d.quote[w.sym].asOf THEN w.value ELSE d.quote[w.sym]
             f == [d.quote EXCEPT ![w.sym] = v]
  <2>1. w.kind = "quote" /\ w.sym \in MSyms /\ w.value \in Quotes
    BY <1>1
  <2>2. Stored(d, w) = [d EXCEPT !.quote = f]
    BY <2>1 DEF Stored
  <2>3. v \in Quotes \cup {None} /\ v.asOf >= w.value.asOf /\ v.asOf >= d.quote[w.sym].asOf
    BY <2>1, QuoteFacts
  <2> HIDE DEF v
  <2>4. f \in [MSyms -> Quotes \cup {None}] /\ f[w.sym] = v /\ \A s \in MSyms : s # w.sym => f[s] = d.quote[s]
    BY <2>1, <2>3
  <2> HIDE DEF f
  <2>5. Stored(d, w) \in DbRows /\ Stored(d, w).quote = f
    BY <2>2, <2>4
  <2>6. \A s \in MSyms : f[s].asOf >= d.quote[s].asOf
    BY <2>3, <2>4, QuoteFacts
  <2> QED BY <2>1, <2>3, <2>4, <2>5, <2>6
<1>2. CASE w \in [kind : {"div"}, sym : MSyms, value : Times]
  <2> DEFINE f == [d.div EXCEPT ![w.sym] = IF w.value >= d.div[w.sym] THEN w.value ELSE d.div[w.sym]]
  <2>1. w.kind = "div" /\ w.sym \in MSyms /\ w.value \in Times
    BY <1>2
  <2>2. Stored(d, w) = [d EXCEPT !.div = f]
    BY <2>1 DEF Stored
  <2>3. f \in [MSyms -> Times \cup {-1}]
    BY <2>1
  <2> HIDE DEF f
  <2>4. Stored(d, w) \in DbRows /\ Stored(d, w).quote = d.quote
    BY <2>2, <2>3
  <2> QED BY <2>1, <2>4, QuoteFacts
<1>3. CASE w \in [kind : {"yld"}, sym : MSyms, value : Yields]
  <2> DEFINE f == [d.yld EXCEPT ![w.sym] = w.value]
  <2>1. w.kind = "yld" /\ w.sym \in MSyms /\ w.value \in Yields
    BY <1>3
  <2>2. Stored(d, w) = [d EXCEPT !.yld = f]
    BY <2>1 DEF Stored
  <2>3. f \in [MSyms -> Yields \cup {NoYield}]
    BY <2>1
  <2> HIDE DEF f
  <2>4. Stored(d, w) \in DbRows /\ Stored(d, w).quote = d.quote
    BY <2>2, <2>3
  <2> QED BY <2>1, <2>4, QuoteFacts
<1> QED BY <1>1, <1>2, <1>3 DEF Writes

\* What is covered stays so when the writer commits the oldest record.
LEMMA CommitCovers ==
  ASSUME MarketTypeOK, WriterCommits, NEW s \in MSyms, NEW t \in Int, Covered(db, wq, s, t)
  PROVE  Covered(db', wq', s, t)
<1>1. /\ wq \in Seq(Writes) /\ wq # << >> /\ Head(wq) \in Writes /\ db' = Stored(db, Head(wq)) /\ wq' = Tail(wq)
      /\ Len(wq) \in Nat /\ Len(Tail(wq)) = Len(wq) - 1 /\ Head(wq) = wq[1]
      /\ \A i \in 1..Len(Tail(wq)) : Tail(wq)[i] = wq[i + 1]
  BY HeadTailProperties DEF MarketTypeOK, WriterCommits
<1>a. db \in DbRows
  BY DEF MarketTypeOK, DbRows
<1>2. /\ db' \in DbRows /\ db'.quote[s].asOf >= db.quote[s].asOf
      /\ Head(wq).kind = "quote" => db'.quote[Head(wq).sym].asOf >= Head(wq).value.asOf
  BY <1>1, <1>a, StoredFacts
<1>3. db.quote[s].asOf \in Int /\ db'.quote[s].asOf \in Int
  BY <1>a, <1>2, QuoteFacts DEF DbRows
<1>4. CASE db.quote[s].asOf >= t
  BY <1>2, <1>3, <1>4 DEF Covered
<1>5. ASSUME NEW i \in 1..Len(wq), wq[i].kind = "quote", wq[i].sym = s, wq[i].value.asOf >= t
      PROVE  Covered(db', wq', s, t)
  <2>1. CASE i = 1
    <3>1. wq[1] \in Writes /\ wq[1].value.asOf \in Int
      BY <1>1, <1>5, <2>1, QuoteFacts DEF Writes
    <3> QED BY <1>1, <1>2, <1>3, <1>5, <2>1, <3>1 DEF Covered
  <2>2. CASE i # 1
    <3>1. i - 1 \in 1..Len(wq') /\ wq'[i - 1] = wq[i]
      BY <1>1, <2>2
    <3> QED BY <1>5, <3>1 DEF Covered
  <2> QED BY <2>1, <2>2
<1> QED BY <1>4, <1>5 DEF Covered

\* What is covered stays so behind more writes, which cover what they hold.
LEMMA PersistCovers ==
  ASSUME MarketTypeOK, NEW writes \in Seq(Writes), Persist(writes), db' = db
  PROVE  /\ wq' \in Seq(Writes) /\ Len(wq') <= MQueue
         /\ \A s \in MSyms, t \in Int : Covered(db, wq, s, t) => Covered(db', wq', s, t)
         /\ \A s \in MSyms, t \in Int :
              (\E i \in 1..Len(writes) : writes[i].kind = "quote" /\ writes[i].sym = s /\ writes[i].value.asOf >= t)
              => Covered(db', wq', s, t)
<1>1. /\ wq' = wq \o writes /\ wq \in Seq(Writes) /\ wq' \in Seq(Writes)
      /\ Len(wq') = Len(wq) + Len(writes) /\ Len(wq) \in Nat /\ Len(writes) \in Nat
      /\ \A i \in 1..(Len(wq) + Len(writes)) : wq'[i] = IF i <= Len(wq) THEN wq[i] ELSE writes[i - Len(wq)]
      /\ Len(wq') <= MQueue
  BY ConcatProperties DEF MarketTypeOK, Persist
<1>2. ASSUME NEW i \in 1..Len(wq) PROVE i \in 1..Len(wq') /\ wq'[i] = wq[i]
  BY <1>1
<1>3. ASSUME NEW i \in 1..Len(writes) PROVE i + Len(wq) \in 1..Len(wq') /\ wq'[i + Len(wq)] = writes[i]
  BY <1>1
<1>4. ASSUME NEW s \in MSyms, NEW t \in Int, Covered(db, wq, s, t) PROVE Covered(db', wq', s, t)
  BY <1>2, <1>4 DEF Covered
<1>5. ASSUME NEW s \in MSyms, NEW t \in Int, NEW i \in 1..Len(writes), writes[i].kind = "quote",
             writes[i].sym = s, writes[i].value.asOf >= t
      PROVE  Covered(db', wq', s, t)
  BY <1>3, <1>5 DEF Covered
<1> QED BY <1>1, <1>4, <1>5
-----------------------------------------------------------------------------
(* Steps.                                                                  *)

LEMMA TypeFacts ==
  ASSUME MarketTypeOK
  PROVE  /\ gens \in [GenIds -> GenRows] /\ cur \in GenIds /\ issued \in GenIds /\ GenIds \subseteq Nat
         /\ \A g \in GenIds : gens[g].cat \in DOMAIN Catalog /\ gens[g].data \in [MSyms -> Entries]
         /\ \A g \in GenIds, s \in MSyms : gens[g].data[s] \in Entries
         /\ db \in DbRows /\ wq \in Seq(Writes)
         /\ \A s \in MSyms : db.quote[s] \in Quotes \cup {None} /\ db.quote[s].asOf >= -1
<1>1. gens \in [GenIds -> GenRows] /\ db \in DbRows /\ wq \in Seq(Writes)
  BY DEF MarketTypeOK, GenRows, DbRows
<1>2. cur \in GenIds /\ issued \in GenIds /\ GenIds \subseteq Nat
  BY MarketAssumption DEF MarketTypeOK, GenIds
<1>3. \A g \in GenIds : gens[g].cat \in DOMAIN Catalog /\ gens[g].data \in [MSyms -> Entries]
  BY <1>1 DEF GenRows
<1>4. \A s \in MSyms : db.quote[s] \in Quotes \cup {None} /\ db.quote[s].asOf >= -1
  BY <1>1, QuoteFacts DEF DbRows
<1> QED BY <1>1, <1>2, <1>3, <1>4

\* An activation under way is a record with these fields.
LEMMA ActFacts ==
  ASSUME MarketTypeOK
  PROVE  /\ Idle.pc = "idle"
         /\ act = Idle \/ act.pc \in {"cloned", "ready", "switched"}
         /\ act # Idle => /\ act.gen \in GenIds /\ act.prev \in GenIds /\ act.cat \in DOMAIN Catalog
                          /\ act.data \in [MSyms -> Entries]
                          /\ act.warmed \in [DOMAIN act.warmed -> Incomes] /\ DOMAIN act.warmed \in SUBSET MSyms
BY DEF MarketTypeOK, Idle

\* Completeness and soundness of an entry depend on the symbol's definition.
LEMMA SameDefinition ==
  ASSUME NEW c, NEW d, NEW s, NEW e, Catalog[c][s] = Catalog[d][s]
  PROVE  MarkOK(e, c, s) = MarkOK(e, d, s) /\ DefOK(e, c, s) = DefOK(e, d, s)
BY DEF MarkOK, DefOK, Complete, WantsYield, WantsDividend

LEMMA CoversNothing ==
  ASSUME NEW d \in DbRows, NEW q, NEW s \in MSyms PROVE Covered(d, q, s, NoSnap.quote.asOf)
BY QuoteFacts DEF Covered, DbRows, NoSnap

\* Replacing one entry of the current generation.
LEMMA EntryReplaced ==
  ASSUME MarketTypeOK, NEW s \in MSyms, NEW r \in Entries, gens' = [gens EXCEPT ![cur].data[s] = r]
  PROVE  /\ gens' \in [GenIds -> GenRows]
         /\ \A g \in GenIds : gens'[g].cat = gens[g].cat
         /\ gens'[cur].data[s] = r
         /\ \A g \in GenIds, x \in MSyms : ~(g = cur /\ x = s) => gens'[g].data[x] = gens[g].data[x]
<1> DEFINE f == [gens[cur].data EXCEPT ![s] = r]
           row == [gens[cur] EXCEPT !.data = f]
<1>1. gens \in [GenIds -> GenRows] /\ cur \in GenIds /\ gens[cur] \in GenRows
  BY TypeFacts
<1>2. f \in [MSyms -> Entries] /\ f[s] = r /\ \A x \in MSyms \ {s} : f[x] = gens[cur].data[x]
  BY <1>1 DEF GenRows
<1>3. gens' = [gens EXCEPT ![cur] = row]
  OBVIOUS
<1> HIDE DEF f
<1>4. row \in GenRows /\ row.cat = gens[cur].cat /\ row.data = f
  BY <1>1, <1>2 DEF GenRows
<1> HIDE DEF row
<1>5. gens' \in [GenIds -> GenRows] /\ gens'[cur] = row /\ \A g \in GenIds \ {cur} : gens'[g] = gens[g]
  BY <1>1, <1>3, <1>4
<1> QED BY <1>2, <1>4, <1>5

\* A step of the current generation that leaves one entry sound, and its
\* snapshot stored, queued or as it was, keeps the invariant.
LEMMA EntryStep ==
  ASSUME MarketInv, NEW s \in MSyms, s \in Listed(gens[cur].cat), NEW r \in Entries,
         gens' = [gens EXCEPT ![cur].data[s] = r],
         UNCHANGED <<mNow, cur, issued, act, db, crashes>>,
         wq' \in Seq(Writes), Len(wq') <= MQueue,
         EntryOK(r), MarkOK(r, gens[cur].cat, s), DefOK(r, gens[cur].cat, s),
         gens[cur].data[s].last # None => r.last # None,
         \A x \in MSyms, t \in Int : Covered(db, wq, x, t) => Covered(db', wq', x, t),
         r.snap = gens[cur].data[s].snap \/ Covered(db', wq', s, r.snap.quote.asOf)
  PROVE  MarketInv'
<1>0. MarketTypeOK /\ PhaseInv /\ GensInv /\ ActInv /\ DurableInv
  BY DEF MarketInv
<1>1. /\ gens' \in [GenIds -> GenRows]
      /\ \A g \in GenIds : gens'[g].cat = gens[g].cat
      /\ gens'[cur].data[s] = r
      /\ \A g \in GenIds, x \in MSyms : ~(g = cur /\ x = s) => gens'[g].data[x] = gens[g].data[x]
  BY <1>0, EntryReplaced
<1>2. cur \in GenIds /\ cur' = cur /\ act' = act /\ db' = db /\ crashes' = crashes
  BY <1>0, TypeFacts
<1>3. MarketTypeOK'
  BY <1>0, <1>1, <1>2 DEF MarketTypeOK, GenRows
<1>4. PhaseInv'
  BY <1>0, <1>1, <1>2 DEF PhaseInv
<1>5. GensInv'
  <2> SUFFICES ASSUME NEW g \in GenIds, NEW x \in MSyms
               PROVE  (/\ EntryOK(gens[g].data[x])
                       /\ x \in Listed(gens[g].cat) => /\ MarkOK(gens[g].data[x], gens[g].cat, x)
                                                       /\ DefOK(gens[g].data[x], gens[g].cat, x))'
    BY DEF GensInv
  <2>1. CASE g = cur /\ x = s
    BY <1>1, <1>2, <2>1 DEF DefOK
  <2>2. CASE ~(g = cur /\ x = s)
    BY <1>0, <1>1, <1>2, <2>2 DEF GensInv, DefOK
  <2> QED BY <2>1, <2>2
<1>6. ActInv'
  <2>1. Changed' = Changed
    BY <1>1, <1>2 DEF Changed
  <2>2. \A x \in MSyms : Settled(x)' = Settled(x)
    BY <1>2, <2>1 DEF Settled
  <2>3. act.pc = "switched" => \A x \in DOMAIN act.warmed : gens'[cur].data[x].last # None
    <3> SUFFICES ASSUME act.pc = "switched", NEW x \in DOMAIN act.warmed PROVE gens'[cur].data[x].last # None
      OBVIOUS
    <3>1. x \in MSyms /\ gens[cur].data[x].last # None
      BY <1>0, ActFacts DEF ActInv
    <3> QED BY <1>1, <1>2, <3>1
  <2> QED BY <1>0, <1>2, <2>2, <2>3 DEF ActInv, DefOK
<1>7. DurableInv'
  <2>1. Changed' = Changed
    BY <1>1, <1>2 DEF Changed
  <2>2. \A x \in MSyms : Settled(x)' = Settled(x)
    BY <1>2, <2>1 DEF Settled
  <2>3. \A g \in GenIds, x \in MSyms : gens[g].data[x].snap.quote.asOf \in Int
    BY <1>0, TypeFacts, SnapFacts, QuoteFacts
  <2>4. ASSUME NEW g \in GenIds, NEW x \in MSyms, x \in Listed(gens'[g].cat)
        PROVE  \/ Covered(db', wq', x, gens'[g].data[x].snap.quote.asOf)
               \/ act'.pc = "switched" /\ g = cur' /\ x \in DOMAIN act'.warmed
    <3>1. \/ Covered(db, wq, x, gens[g].data[x].snap.quote.asOf)
          \/ act.pc = "switched" /\ g = cur /\ x \in DOMAIN act.warmed
      BY <1>0, <1>1, <2>4 DEF DurableInv
    <3>2. \/ gens'[g].data[x].snap = gens[g].data[x].snap
          \/ Covered(db', wq', x, gens'[g].data[x].snap.quote.asOf)
      BY <1>1
    <3> QED BY <1>2, <2>3, <3>1, <3>2
  <2>5. ASSUME act.pc \in {"cloned", "ready"}, NEW x \in MSyms, Settled(x), x \notin DOMAIN act.warmed
        PROVE  Covered(db', wq', x, act.data[x].snap.quote.asOf)
    <3>1. act.data[x].snap.quote.asOf \in Int
      BY <1>0, <2>5, ActFacts, SnapFacts, QuoteFacts
    <3> QED BY <1>0, <2>5, <3>1 DEF DurableInv
  <2> QED BY <1>2, <2>2, <2>4, <2>5 DEF DurableInv
<1> QED BY <1>3, <1>4, <1>5, <1>6, <1>7 DEF MarketInv
\* A publication for a listed symbol that keeps its last quote, or replaces it
\* by one of its definition.
LEMMA PublishStep ==
  ASSUME MarketInv, NEW s \in MSyms, s \in Listed(gens[cur].cat), NEW e \in Entries, NEW income \in Seq(Writes),
         Publish(s, e, income),
         e.snap = gens[cur].data[s].snap, e.wire = gens[cur].data[s].wire,
         e.complete = gens[cur].data[s].complete,
         e.last = gens[cur].data[s].last \/ (e.last \in Quotes /\ e.last.def = Catalog[gens[cur].cat][s])
  PROVE  MarketInv'
<1> DEFINE old == gens[cur].data[s]
           cat == gens[cur].cat
           r == Rebuilt(e, cat, s)
           writes == (IF e.last = None THEN << >> ELSE <<WriteQuote(s, e.last)>>) \o income
<1>0. MarketTypeOK /\ PhaseInv /\ GensInv /\ ActInv /\ DurableInv
  BY DEF MarketInv
<1>1. cur \in GenIds /\ cat \in DOMAIN Catalog /\ old \in Entries /\ EntryOK(old) /\ MarkOK(old, cat, s)
      /\ DefOK(old, cat, s)
  BY <1>0, TypeFacts DEF GensInv
<1>2. /\ r \in Entries /\ r.last = e.last
      /\ e.last = None => r = e
      /\ e.last # None => r.snap.quote.asOf = e.last.asOf \/ r.snap = e.snap
  BY <1>1, RebuiltFacts
<1>3. EntryOK(r) /\ MarkOK(r, cat, s)
  <2>1. e.last # None \/ e.last = old.last
    BY QuoteFacts
  <2> QED BY <1>1, <2>1, RebuiltSound
<1>4. DefOK(r, cat, s)
  BY <1>1, <1>2 DEF DefOK
<1>5. old.last # None => r.last # None
  BY <1>2, QuoteFacts
<1>6. writes \in Seq(Writes) /\ (e.last # None => 1 \in 1..Len(writes) /\ writes[1] = WriteQuote(s, e.last))
  <2>1. CASE e.last = None
    BY <2>1, ConcatProperties
  <2>2. CASE e.last # None
    <3>1. e.last \in Quotes
      BY <2>2, SnapFacts, QuoteFacts
    <3>2. WriteQuote(s, e.last) \in Writes
      BY <3>1 DEF WriteQuote, Writes
    <3>3. <<WriteQuote(s, e.last)>> \in Seq(Writes) /\ Len(<<WriteQuote(s, e.last)>>) = 1
      BY <3>2
    <3> QED BY <2>2, <3>2, <3>3, ConcatProperties
  <2> QED BY <2>1, <2>2
<1>7. /\ Persist(writes) /\ gens' = [gens EXCEPT ![cur].data[s] = r]
      /\ UNCHANGED <<mNow, cur, issued, act, db, crashes>>
  BY DEF Publish
<1> HIDE DEF writes, r
<1>8. /\ wq' \in Seq(Writes) /\ Len(wq') <= MQueue
      /\ \A x \in MSyms, t \in Int : Covered(db, wq, x, t) => Covered(db', wq', x, t)
      /\ \A x \in MSyms, t \in Int :
           (\E i \in 1..Len(writes) : writes[i].kind = "quote" /\ writes[i].sym = x /\ writes[i].value.asOf >= t)
           => Covered(db', wq', x, t)
  BY <1>0, <1>6, <1>7, PersistCovers
<1>9. r.snap = old.snap \/ Covered(db', wq', s, r.snap.quote.asOf)
  <2>1. CASE e.last = None
    BY <1>2, <2>1
  <2>2. CASE e.last # None /\ r.snap.quote.asOf = e.last.asOf
    <3>1. e.last.asOf \in Int
      BY SnapFacts, QuoteFacts
    <3>2. writes[1].kind = "quote" /\ writes[1].sym = s /\ writes[1].value = e.last
      BY <1>6, <2>2 DEF WriteQuote
    <3>3. Covered(db', wq', s, e.last.asOf)
      BY <1>6, <1>8, <2>2, <3>1, <3>2
    <3> QED BY <2>2, <3>3
  <2> QED BY <1>2, <2>1, <2>2
<1> QED BY <1>2, <1>3, <1>4, <1>5, <1>7, <1>8, <1>9, EntryStep

LEMMA PublishQuoteKeeps ==
  ASSUME MarketInv, NEW s \in MSyms, NEW g \in GenIds, NEW t \in Times, PublishQuote(s, g, t)
  PROVE  MarketInv'
<1> DEFINE old == gens[cur].data[s]
           q == [asOf |-> t, def |-> DefOf(g, s)]
           e == [old EXCEPT !.last = q, !.failed = FALSE]
<1>1. MarketTypeOK /\ old \in Entries /\ gens[cur].cat \in DOMAIN Catalog
  BY TypeFacts DEF MarketInv
<1>2. g = cur /\ DefOf(g, s) = Catalog[gens[cur].cat][s] /\ DefOf(g, s) # 0 /\ Publish(s, e, << >>)
  BY DEF PublishQuote, Context, DefOf
<1>3. s \in Listed(gens[cur].cat)
  BY <1>2 DEF Listed
<1>4. q \in Quotes /\ q.def = Catalog[gens[cur].cat][s]
  BY <1>1, <1>2, CatalogFacts DEF Quotes
<1> HIDE DEF q
<1>5. e \in Entries /\ e.last = q /\ e.snap = old.snap /\ e.wire = old.wire /\ e.complete = old.complete
  BY <1>1, <1>4 DEF Entries
<1> HIDE DEF e
<1>6. << >> \in Seq(Writes)
  OBVIOUS
<1> QED BY <1>2, <1>3, <1>4, <1>5, <1>6, PublishStep

LEMMA PublishDividendKeeps ==
  ASSUME MarketInv, NEW s \in MSyms, NEW g \in GenIds, NEW ex \in Times, PublishDividend(s, g, ex)
  PROVE  MarketInv'
<1> DEFINE old == gens[cur].data[s]
           e == [old EXCEPT !.div = ex]
           income == <<WriteDividend(s, ex)>>
<1>1. MarketTypeOK /\ old \in Entries /\ gens[cur].cat \in DOMAIN Catalog
  BY TypeFacts DEF MarketInv
<1>2. WantsDividend(gens[cur].cat, s) /\ Publish(s, e, income)
  BY DEF PublishDividend
<1>3. s \in Listed(gens[cur].cat)
  BY <1>2, MarketAssumption DEF Listed, WantsDividend
<1>4. e \in Entries /\ e.last = old.last /\ e.snap = old.snap /\ e.wire = old.wire /\ e.complete = old.complete
  BY <1>1 DEF Entries
<1>5. income \in Seq(Writes)
  BY DEF WriteDividend, Writes
<1> HIDE DEF e, income
<1> QED BY <1>2, <1>3, <1>4, <1>5, PublishStep

LEMMA PublishYieldKeeps ==
  ASSUME MarketInv, NEW s \in MSyms, NEW g \in GenIds, NEW y \in Yields, PublishYield(s, g, y)
  PROVE  MarketInv'
<1> DEFINE old == gens[cur].data[s]
           e == [old EXCEPT !.yld = y]
           income == <<WriteYield(s, y)>>
<1>1. MarketTypeOK /\ old \in Entries /\ gens[cur].cat \in DOMAIN Catalog
  BY TypeFacts DEF MarketInv
<1>2. WantsYield(gens[cur].cat, s) /\ Publish(s, e, income)
  BY DEF PublishYield
<1>3. s \in Listed(gens[cur].cat)
  BY <1>2, MarketAssumption DEF Listed, WantsYield
<1>4. e \in Entries /\ e.last = old.last /\ e.snap = old.snap /\ e.wire = old.wire /\ e.complete = old.complete
  BY <1>1 DEF Entries
<1>5. income \in Seq(Writes)
  BY DEF WriteYield, Writes
<1> HIDE DEF e, income
<1> QED BY <1>2, <1>3, <1>4, <1>5, PublishStep

LEMMA MarkSourceFailedKeeps ==
  ASSUME MarketInv, NEW s \in MSyms, NEW g \in GenIds, MarkSourceFailed(s, g)
  PROVE  MarketInv'
<1> DEFINE old == gens[cur].data[s]
           r == [old EXCEPT !.failed = TRUE]
<1>0. MarketTypeOK /\ PhaseInv /\ GensInv /\ ActInv /\ DurableInv
  BY DEF MarketInv
<1>1. old \in Entries /\ cur \in GenIds
  BY <1>0, TypeFacts
<1>2. s \in Listed(gens[cur].cat)
  BY DEF MarkSourceFailed, Listed, DefOf
<1>3. EntryOK(old) /\ MarkOK(old, gens[cur].cat, s) /\ DefOK(old, gens[cur].cat, s)
  BY <1>0, <1>1, <1>2 DEF GensInv
<1>4. gens' = [gens EXCEPT ![cur].data[s] = r] /\ UNCHANGED <<mNow, cur, issued, act, wq, db, crashes>>
  BY DEF MarkSourceFailed
<1>5. r \in Entries /\ r.last = old.last /\ r.snap = old.snap /\ r.wire = old.wire /\ r.complete = old.complete
  BY <1>1 DEF Entries
<1> HIDE DEF r
<1>6. EntryOK(r) /\ MarkOK(r, gens[cur].cat, s) /\ DefOK(r, gens[cur].cat, s)
  BY <1>3, <1>5 DEF EntryOK, MarkOK, DefOK
<1>7. wq' \in Seq(Writes) /\ Len(wq') <= MQueue
  BY <1>0, <1>4 DEF MarketTypeOK
<1>8. \A x \in MSyms, t \in Int : Covered(db, wq, x, t) => Covered(db', wq', x, t)
  BY <1>4
<1> QED BY <1>2, <1>4, <1>5, <1>6, <1>7, <1>8, EntryStep

LEMMA WriterCommitsKeeps ==
  ASSUME MarketInv, WriterCommits PROVE MarketInv'
<1>0. MarketTypeOK /\ PhaseInv /\ GensInv /\ ActInv /\ DurableInv
  BY DEF MarketInv
<1>1. UNCHANGED <<mNow, cur, issued, gens, act, crashes>> /\ wq # << >>
  BY DEF WriterCommits
<1>2. MarketTypeOK'
  <2>1. Head(wq) \in Writes /\ Tail(wq) \in Seq(Writes) /\ Len(Tail(wq)) <= MQueue
    BY <1>0, <1>1, MarketAssumption, HeadTailProperties DEF MarketTypeOK
  <2>2. db' \in DbRows
    BY <1>0, <2>1, TypeFacts, StoredFacts DEF WriterCommits
  <2> QED BY <1>0, <1>1, <2>1, <2>2 DEF MarketTypeOK, DbRows, WriterCommits
<1>3. PhaseInv' /\ GensInv' /\ ActInv'
  BY <1>0, <1>1 DEF PhaseInv, GensInv, ActInv, Settled, Changed, DefOK
<1>4. DurableInv'
  <2>1. \A s \in MSyms : Settled(s)' = Settled(s)
    BY <1>1 DEF Settled, Changed
  <2>2. \A g \in GenIds, s \in MSyms : gens[g].data[s].snap.quote.asOf \in Int
    BY <1>0, TypeFacts, SnapFacts, QuoteFacts
  <2>3. act # Idle => \A s \in MSyms : act.data[s].snap.quote.asOf \in Int
    BY <1>0, ActFacts, SnapFacts, QuoteFacts
  <2>4. \A s \in MSyms, t \in Int : Covered(db, wq, s, t) => Covered(db', wq', s, t)
    BY <1>0, CommitCovers
  <2>5. act.pc \in {"cloned", "ready"} => act # Idle
    BY <1>0, ActFacts
  <2> HIDE DEF Covered
  <2> QED BY <1>0, <1>1, <2>1, <2>2, <2>3, <2>4, <2>5 DEF DurableInv
<1> QED BY <1>2, <1>3, <1>4 DEF MarketInv

LEMMA MTickKeeps ==
  ASSUME MarketInv, MTick \/ UNCHANGED marketVars PROVE MarketInv'
<1>1. UNCHANGED <<cur, issued, gens, act, wq, db, crashes>> /\ mNow' \in Times
  BY MarketAssumption DEF MTick, marketVars, MarketInv, MarketTypeOK, Times
<1>2. MarketTypeOK'
  BY <1>1 DEF MarketInv, MarketTypeOK
<1>3. PhaseInv' /\ GensInv' /\ ActInv' /\ DurableInv'
  BY <1>1 DEF MarketInv, PhaseInv, GensInv, ActInv, DurableInv, Settled, Changed, DefOK, Covered
<1> QED BY <1>2, <1>3 DEF MarketInv
-----------------------------------------------------------------------------
(* Activation.                                                             *)

LEMMA CloneStateKeeps ==
  ASSUME MarketInv, NEW cat \in DOMAIN Catalog, CloneState(cat) PROVE MarketInv'
<1>0. MarketTypeOK /\ PhaseInv /\ GensInv /\ ActInv /\ DurableInv
  BY DEF MarketInv
<1>1. /\ UNCHANGED <<mNow, cur, gens, wq, db, crashes>> /\ act = Idle /\ issued < MGens /\ issued' = issued + 1
      /\ act' = [pc |-> "cloned", gen |-> issued + 1, cat |-> cat, data |-> gens[cur].data,
                 warmed |-> << >>, prev |-> cur]
  BY DEF CloneState
<1>2. /\ act'.pc = "cloned" /\ act'.gen = issued + 1 /\ act'.cat = cat /\ act'.data = gens[cur].data
      /\ DOMAIN act'.warmed = {} /\ act'.prev = cur /\ act' # Idle
  BY <1>1 DEF Idle
<1>3. /\ issued \in Nat /\ issued' \in GenIds /\ cur \in 1..issued /\ cur \in GenIds /\ act.pc = "idle"
      /\ \A s \in MSyms : gens[cur].data[s] \in Entries
  BY <1>0, <1>1, MarketAssumption, TypeFacts, ActFacts DEF MarketTypeOK, GenIds
<1>4. MarketTypeOK'
  <2>1. << >> \in UNION {[S -> Incomes] : S \in SUBSET MSyms}
    <3>1. << >> \in [{} -> Incomes]
      OBVIOUS
    <3> QED BY <3>1
  <2>2. act' \in [pc : {"cloned", "ready", "switched"}, gen : GenIds, prev : GenIds, cat : DOMAIN Catalog,
                  data : [MSyms -> Entries], warmed : UNION {[S -> Incomes] : S \in SUBSET MSyms}]
    BY <1>0, <1>1, <1>3, <2>1, TypeFacts
  <2>3. cur' \in 1..issued'
    BY <1>1, <1>3
  <2> QED BY <1>0, <1>1, <1>3, <2>2, <2>3 DEF MarketTypeOK
<1>5. PhaseInv'
  BY <1>1, <1>2, <1>3 DEF PhaseInv
<1>6. GensInv'
  BY <1>0, <1>1 DEF GensInv, DefOK
<1>7. ASSUME NEW s \in MSyms, Settled(s)'
      PROVE  s \in Listed(gens[cur].cat) /\ Catalog[cat][s] = Catalog[gens[cur].cat][s]
  BY <1>1, <1>2, <1>7 DEF Settled, Changed, Listed
<1>8. ActInv'
  <2>1. \A s \in MSyms : EntryOK(gens[cur].data[s])
    BY <1>0, <1>3 DEF GensInv
  <2>2. ASSUME NEW s \in MSyms, Settled(s)'
        PROVE  MarkOK(act'.data[s], act'.cat, s) /\ DefOK(act.data[s], act.cat, s)'
    <3>1. MarkOK(gens[cur].data[s], gens[cur].cat, s) /\ DefOK(gens[cur].data[s], gens[cur].cat, s)
      BY <1>0, <1>3, <1>7, <2>2 DEF GensInv
    <3>2. MarkOK(gens[cur].data[s], cat, s) /\ DefOK(gens[cur].data[s], cat, s)
      BY <1>7, <2>2, <3>1, SameDefinition
    <3> QED BY <1>1, <1>2, <3>2 DEF DefOK
  <2> QED BY <1>2, <2>1, <2>2 DEF ActInv
<1>9. DurableInv'
  <2>1. \A g \in GenIds, s \in MSyms : s \in Listed(gens[g].cat) => Covered(db, wq, s, gens[g].data[s].snap.quote.asOf)
    BY <1>0, <1>3 DEF DurableInv
  <2> QED BY <1>1, <1>2, <1>3, <1>7, <2>1 DEF DurableInv
<1> QED BY <1>4, <1>5, <1>6, <1>8, <1>9 DEF MarketInv

\* One instrument of the warm-up.
LEMMA WarmedFacts ==
  ASSUME NEW e \in Entries, NEW cat \in DOMAIN Catalog, NEW s \in MSyms, NEW item \in WarmItems
  PROVE  LET r == Warmed(e, cat, s, item)
         IN  r \in Entries /\ r.last # None /\ EntryOK(r) /\ MarkOK(r, cat, s) /\ DefOK(r, cat, s)
<1> DEFINE d == IF WantsDividend(cat, s) THEN item.div ELSE e.div
           y == IF WantsYield(cat, s) THEN item.yld ELSE e.yld
           q == [asOf |-> item.asOf, def |-> Catalog[cat][s]]
           x == [e EXCEPT !.div = d, !.yld = y, !.last = q, !.failed = FALSE]
           r == Rebuilt(x, cat, s)
<1>1. d \in Times \cup {-1} /\ y \in Yields \cup {NoYield}
  BY SnapFacts DEF WarmItems
<1>2. q \in Quotes /\ q.def = Catalog[cat][s] /\ q # None
  <2>1. q \in Quotes /\ q.def = Catalog[cat][s]
    BY CatalogFacts DEF WarmItems, Quotes
  <2> QED BY <2>1, QuoteFacts
<1>3. Warmed(e, cat, s, item) = r
  BY DEF Warmed
<1> HIDE DEF d, y, q
<1>4. x \in Entries /\ x.last = q
  BY <1>1, <1>2 DEF Entries
<1> HIDE DEF x
<1>5. r \in Entries /\ r.last = q /\ EntryOK(r) /\ MarkOK(r, cat, s)
  BY <1>2, <1>4, RebuiltFacts
<1> QED BY <1>2, <1>3, <1>5 DEF DefOK

LEMMA RestoredCandidateFacts ==
  ASSUME MarketTypeOK, NEW e \in Entries, NEW s \in MSyms
  PROVE  RestoredCandidate(e, s) \in Entries /\ (s \notin Added => RestoredCandidate(e, s) = e)
<1> DEFINE q == IF db.quote[s].asOf > e.last.asOf THEN db.quote[s] ELSE e.last
           d == IF db.div[s] > e.div THEN db.div[s] ELSE e.div
           y == IF db.yld[s].asOf > e.yld.asOf THEN db.yld[s] ELSE e.yld
<1>1. q \in Quotes \cup {None} /\ d \in Times \cup {-1} /\ y \in Yields \cup {NoYield}
  BY TypeFacts, SnapFacts DEF DbRows
<1>2. RestoredCandidate(e, s) = IF s \notin Added THEN e ELSE [e EXCEPT !.last = q, !.div = d, !.yld = y]
  BY DEF RestoredCandidate
<1> HIDE DEF q, d, y
<1> QED BY <1>1, <1>2 DEF Entries

LEMMA InstallWarmedKeeps ==
  ASSUME MarketInv, act.pc = "cloned", NEW items \in [Changed -> WarmItems], InstallWarmed(items) PROVE MarketInv'
<1> DEFINE base(s) == RestoredCandidate(act.data[s], s)
           data == [s \in MSyms |-> IF s \in Changed THEN Warmed(base(s), act.cat, s, items[s]) ELSE base(s)]
           warmed == [s \in Changed |-> IncomeOf(act.cat, s, items[s])]
<1>0. MarketTypeOK /\ PhaseInv /\ GensInv /\ ActInv /\ DurableInv
  BY DEF MarketInv
<1>1. UNCHANGED <<mNow, cur, issued, gens, wq, db, crashes>>
      /\ act' = [act EXCEPT !.pc = "ready", !.data = data, !.warmed = warmed]
  BY DEF InstallWarmed
<1>2. /\ act # Idle /\ act.cat \in DOMAIN Catalog /\ act.data \in [MSyms -> Entries] /\ cur \in GenIds
      /\ act \in [pc : {"cloned", "ready", "switched"}, gen : GenIds, prev : GenIds, cat : DOMAIN Catalog,
                  data : [MSyms -> Entries], warmed : UNION {[S -> Incomes] : S \in SUBSET MSyms}]
  BY <1>0, ActFacts, TypeFacts DEF MarketTypeOK, Idle
<1>3. Changed \subseteq MSyms /\ Changed \subseteq Listed(act.cat) /\ Added \subseteq Changed
  BY DEF Changed, Added, Listed
<1>4. ASSUME NEW s \in MSyms PROVE base(s) \in Entries /\ (s \notin Changed => base(s) = act.data[s])
  BY <1>0, <1>2, <1>3, RestoredCandidateFacts
<1>5. ASSUME NEW s \in Changed
      PROVE  /\ data[s] \in Entries /\ data[s].last # None /\ EntryOK(data[s])
             /\ MarkOK(data[s], act.cat, s) /\ DefOK(data[s], act.cat, s)
  <2>1. s \in MSyms /\ items[s] \in WarmItems /\ data[s] = Warmed(base(s), act.cat, s, items[s]) /\ base(s) \in Entries
    BY <1>3, <1>4
  <2> QED BY <1>2, <2>1, WarmedFacts
<1>6. ASSUME NEW s \in MSyms, s \notin Changed PROVE data[s] = act.data[s]
  BY <1>4, <1>6
<1>7. data \in [MSyms -> Entries]
  BY <1>2, <1>5, <1>6
<1>8. warmed \in [Changed -> Incomes]
  <2>1. ASSUME NEW s \in Changed PROVE IncomeOf(act.cat, s, items[s]) \in Incomes
    <3>1. items[s] \in WarmItems
      OBVIOUS
    <3> QED BY <3>1 DEF IncomeOf, Incomes, WarmItems
  <2> QED BY <2>1
<1> HIDE DEF data, warmed
<1>9. /\ act'.pc = "ready" /\ act'.data = data /\ act'.warmed = warmed /\ act'.cat = act.cat
      /\ act'.gen = act.gen /\ act'.prev = act.prev /\ DOMAIN act'.warmed = Changed
  BY <1>1, <1>2, <1>8
<1>10. MarketTypeOK'
  <2>1. warmed \in UNION {[S -> Incomes] : S \in SUBSET MSyms}
    BY <1>3, <1>8
  <2>2. act' \in [pc : {"cloned", "ready", "switched"}, gen : GenIds, prev : GenIds, cat : DOMAIN Catalog,
                  data : [MSyms -> Entries], warmed : UNION {[S -> Incomes] : S \in SUBSET MSyms}]
    BY <1>1, <1>2, <1>7, <2>1
  <2> QED BY <1>0, <1>1, <2>2 DEF MarketTypeOK
<1>11. act' # Idle
  BY <1>9 DEF Idle
<1>12. PhaseInv'
  BY <1>0, <1>1, <1>2, <1>3, <1>9 DEF PhaseInv
<1>13. GensInv'
  BY <1>0, <1>1 DEF GensInv, DefOK
<1>14. ActInv'
  <2>1. ASSUME NEW s \in MSyms PROVE EntryOK(data[s])
    BY <1>0, <1>2, <1>5, <1>6 DEF ActInv
  <2>2. ASSUME NEW s \in MSyms, s \in Listed(act.cat) PROVE MarkOK(data[s], act.cat, s) /\ DefOK(data[s], act.cat, s)
    <3>1. CASE s \in Changed
      BY <1>5, <3>1
    <3>2. CASE s \notin Changed
      BY <1>0, <1>6, <2>2, <3>2 DEF ActInv, Settled
    <3> QED BY <3>1, <3>2
  <2>3. \A s \in MSyms : Settled(s)' => s \in Listed(act.cat)
    BY <1>9 DEF Settled
  <2> QED BY <1>1, <1>5, <1>9, <2>1, <2>2, <2>3 DEF ActInv, DefOK
<1>15. DurableInv'
  <2>1. \A g \in GenIds, s \in MSyms : s \in Listed(gens[g].cat) => Covered(db, wq, s, gens[g].data[s].snap.quote.asOf)
    BY <1>0 DEF DurableInv
  <2>2. ASSUME NEW s \in MSyms, Settled(s)', s \notin Changed PROVE Covered(db, wq, s, data[s].snap.quote.asOf)
    <3>1. Settled(s) /\ s \notin DOMAIN act.warmed
      BY <1>0, <1>2, <1>9, <2>2 DEF Settled, PhaseInv
    <3> QED BY <1>0, <1>6, <2>2, <3>1 DEF DurableInv
  <2> QED BY <1>1, <1>9, <2>1, <2>2 DEF DurableInv
<1> QED BY <1>10, <1>12, <1>13, <1>14, <1>15 DEF MarketInv
LEMMA SwitchGenerationKeeps ==
  ASSUME MarketInv, SwitchGeneration PROVE MarketInv'
<1> DEFINE row == [cat |-> act.cat, data |-> act.data]
<1>0. MarketTypeOK /\ PhaseInv /\ GensInv /\ ActInv /\ DurableInv
  BY DEF MarketInv
<1>1. /\ act.pc = "ready" /\ gens' = [gens EXCEPT ![act.gen] = row] /\ cur' = act.gen
      /\ act' = [act EXCEPT !.pc = "switched"] /\ UNCHANGED <<mNow, issued, wq, db, crashes>>
  BY DEF SwitchGeneration
<1>2. /\ act # Idle /\ act.cat \in DOMAIN Catalog /\ act.data \in [MSyms -> Entries]
      /\ act.gen \in GenIds /\ act.gen \in 1..issued
      /\ act \in [pc : {"cloned", "ready", "switched"}, gen : GenIds, prev : GenIds, cat : DOMAIN Catalog,
                  data : [MSyms -> Entries], warmed : UNION {[S -> Incomes] : S \in SUBSET MSyms}]
  BY <1>0, <1>1, ActFacts DEF MarketTypeOK, PhaseInv, Idle
<1>3. /\ act'.pc = "switched" /\ act'.gen = act.gen /\ act'.prev = act.prev /\ act'.cat = act.cat
      /\ act'.data = act.data /\ act'.warmed = act.warmed
      /\ act' \in [pc : {"cloned", "ready", "switched"}, gen : GenIds, prev : GenIds, cat : DOMAIN Catalog,
                   data : [MSyms -> Entries], warmed : UNION {[S -> Incomes] : S \in SUBSET MSyms}]
  BY <1>1, <1>2
<1>4. row \in GenRows /\ row.cat = act.cat /\ row.data = act.data
  BY <1>2 DEF GenRows
<1> HIDE DEF row
<1>5. gens' \in [GenIds -> GenRows] /\ gens'[act.gen] = row /\ \A g \in GenIds \ {act.gen} : gens'[g] = gens[g]
  BY <1>0, <1>1, <1>2, <1>4, TypeFacts
<1>6. MarketTypeOK'
  BY <1>0, <1>1, <1>2, <1>3, <1>5 DEF MarketTypeOK, GenRows
<1>7. PhaseInv'
  BY <1>0, <1>1, <1>2, <1>3, <1>4, <1>5 DEF PhaseInv
<1>8. \A s \in MSyms : s \in Listed(act.cat) => Settled(s)
  BY <1>1 DEF Settled
<1>9. GensInv'
  <2> SUFFICES ASSUME NEW g \in GenIds, NEW s \in MSyms
               PROVE  (/\ EntryOK(gens[g].data[s])
                       /\ s \in Listed(gens[g].cat) => /\ MarkOK(gens[g].data[s], gens[g].cat, s)
                                                       /\ DefOK(gens[g].data[s], gens[g].cat, s))'
    BY DEF GensInv
  <2>1. CASE g = act.gen
    BY <1>0, <1>1, <1>2, <1>4, <1>5, <1>8, <2>1 DEF ActInv, DefOK
  <2>2. CASE g # act.gen
    BY <1>0, <1>1, <1>5, <2>2 DEF GensInv, DefOK
  <2> QED BY <2>1, <2>2
<1>10. ActInv'
  BY <1>0, <1>1, <1>2, <1>3, <1>4, <1>5 DEF ActInv
<1>11. DurableInv'
  <2>1. \A g \in GenIds, s \in MSyms : s \in Listed(gens[g].cat) => Covered(db, wq, s, gens[g].data[s].snap.quote.asOf)
    BY <1>0, <1>1 DEF DurableInv
  <2>2. \A s \in MSyms : s \in Listed(act.cat) /\ s \notin DOMAIN act.warmed
          => Covered(db, wq, s, act.data[s].snap.quote.asOf)
    BY <1>0, <1>1, <1>8 DEF DurableInv
  <2>3. ASSUME NEW g \in GenIds, NEW s \in MSyms, s \in Listed(gens'[g].cat)
        PROVE  \/ Covered(db', wq', s, gens'[g].data[s].snap.quote.asOf)
               \/ act'.pc = "switched" /\ g = cur' /\ s \in DOMAIN act'.warmed
    <3>1. CASE g = act.gen
      BY <1>1, <1>3, <1>4, <1>5, <2>2, <2>3, <3>1
    <3>2. CASE g # act.gen
      BY <1>1, <1>5, <2>1, <2>3, <3>2
    <3> QED BY <3>1, <3>2
  <2> QED BY <1>3, <2>3 DEF DurableInv
<1> QED BY <1>6, <1>7, <1>9, <1>10, <1>11 DEF MarketInv

\* Blanking a generation that is not the current one.
LEMMA AbandonActivationKeeps ==
  ASSUME MarketInv, AbandonActivation PROVE MarketInv'
<1> DEFINE row == [gens[act.gen] EXCEPT !.data = Blank]
<1>0. MarketTypeOK /\ PhaseInv /\ GensInv /\ ActInv /\ DurableInv
  BY DEF MarketInv
<1>1. /\ act # Idle /\ act' = Idle /\ cur' = act.prev /\ gens' = [gens EXCEPT ![act.gen] = row]
      /\ UNCHANGED <<mNow, issued, wq, db, crashes>>
  BY DEF AbandonActivation
<1>2. /\ act.gen \in GenIds /\ act.prev \in 1..issued
      /\ act.pc = "switched" => cur = act.gen
  BY <1>0, <1>1, ActFacts DEF PhaseInv
<1>3. row \in GenRows /\ row.cat = gens[act.gen].cat /\ row.data = Blank
  BY <1>0, <1>2, BlankFacts, TypeFacts DEF GenRows
<1> HIDE DEF row
<1>4. gens' \in [GenIds -> GenRows] /\ gens'[act.gen] = row /\ \A g \in GenIds \ {act.gen} : gens'[g] = gens[g]
  BY <1>0, <1>1, <1>2, <1>3, TypeFacts
<1>5. \A s \in MSyms : row.data[s] = BlankEntry
  BY <1>3 DEF Blank
<1>6. MarketTypeOK'
  BY <1>0, <1>1, <1>2, <1>4 DEF MarketTypeOK, GenRows
<1>7. PhaseInv' /\ ActInv'
  BY <1>0, <1>1, ActFacts DEF PhaseInv, ActInv
<1>8. GensInv'
  <2> SUFFICES ASSUME NEW g \in GenIds, NEW s \in MSyms
               PROVE  (/\ EntryOK(gens[g].data[s])
                       /\ s \in Listed(gens[g].cat) => /\ MarkOK(gens[g].data[s], gens[g].cat, s)
                                                       /\ DefOK(gens[g].data[s], gens[g].cat, s))'
    BY DEF GensInv
  <2>1. CASE g = act.gen
    BY <1>4, <1>5, <2>1, BlankFacts DEF MarkOK, DefOK
  <2>2. CASE g # act.gen
    BY <1>0, <1>1, <1>4, <2>2 DEF GensInv, DefOK
  <2> QED BY <2>1, <2>2
<1>9. DurableInv'
  <2>1. ASSUME NEW g \in GenIds, NEW s \in MSyms, s \in Listed(gens'[g].cat)
        PROVE  Covered(db', wq', s, gens'[g].data[s].snap.quote.asOf)
    <3>1. CASE g = act.gen
      BY <1>0, <1>1, <1>4, <1>5, <3>1, BlankFacts, TypeFacts, CoversNothing
    <3>2. CASE g # act.gen
      <4>1. gens'[g] = gens[g] /\ s \in Listed(gens[g].cat) /\ ~(act.pc = "switched" /\ g = cur)
        BY <1>2, <1>4, <2>1, <3>2
      <4> QED BY <1>0, <1>1, <4>1 DEF DurableInv
    <3> QED BY <3>1, <3>2
  <2>2. act'.pc = "idle"
    BY <1>0, <1>1, ActFacts
  <2> QED BY <2>1, <2>2 DEF DurableInv
<1> QED BY <1>6, <1>7, <1>8, <1>9 DEF MarketInv

LEMMA MarketRestartKeeps ==
  ASSUME MarketInv, MarketRestart PROVE MarketInv'
<1> DEFINE cat == gens[cur].cat
           new == issued + 1
           row == [cat |-> cat, data |-> Restored(cat)]
<1>0. MarketTypeOK /\ PhaseInv /\ GensInv /\ ActInv /\ DurableInv
  BY DEF MarketInv
<1>1. /\ crashes < MCrashes /\ issued < MGens /\ crashes' = crashes + 1 /\ issued' = new /\ cur' = new
      /\ gens' = [g \in GenIds |-> IF g = new THEN row ELSE [gens[g] EXCEPT !.data = Blank]]
      /\ act' = Idle /\ wq' = << >> /\ UNCHANGED <<mNow, db>>
  BY DEF MarketRestart
<1>2. cat \in DOMAIN Catalog /\ db \in DbRows
  BY <1>0, TypeFacts
<1>3. /\ issued \in Nat /\ new \in GenIds /\ new \in 1..new /\ crashes' \in 0..MCrashes /\ crashes' # 0
  BY <1>0, <1>1, MarketAssumption DEF MarketTypeOK, GenIds
<1>4. ASSUME NEW s \in MSyms
      PROVE  LET r == Restored(cat)[s]
             IN  /\ r \in Entries /\ EntryOK(r) /\ (s \in Listed(cat) => MarkOK(r, cat, s))
                 /\ Covered(db, << >>, s, r.snap.quote.asOf)
  <2> DEFINE e == [BlankEntry EXCEPT !.div = db.div[s], !.yld = db.yld[s], !.last = db.quote[s]]
             r == Rebuilt(e, cat, s)
  <2>1. CASE s \notin Listed(cat)
    <3>1. Restored(cat)[s] = BlankEntry
      BY <2>1 DEF Restored
    <3> QED BY <1>2, <2>1, <3>1, BlankFacts, CoversNothing
  <2>2. CASE s \in Listed(cat)
    <3>1. db.div[s] \in Times \cup {-1} /\ db.yld[s] \in Yields \cup {NoYield} /\ db.quote[s] \in Quotes \cup {None}
      BY <1>2 DEF DbRows
    <3>2. /\ e \in Entries /\ e.last = db.quote[s] /\ e.snap = BlankEntry.snap /\ e.wire = BlankEntry.wire
          /\ e.complete = BlankEntry.complete
      <4> HIDE DEF BlankEntry
      <4> QED BY <3>1, BlankFacts DEF Entries
    <3>3. Restored(cat)[s] = r
      BY <2>2 DEF Restored
    <3> HIDE DEF e
    <3>4. EntryOK(r) /\ MarkOK(r, cat, s)
      BY <1>2, <3>2, BlankFacts, RebuiltSound
    <3>5. r.snap.quote.asOf = db.quote[s].asOf \/ r.snap = NoSnap
      BY <1>2, <3>2, BlankFacts, RebuiltFacts
    <3>6. r \in Entries
      BY <1>2, <3>2, RebuiltFacts
    <3> HIDE DEF r
    <3>7. CASE r.snap = NoSnap
      BY <1>2, <3>3, <3>4, <3>6, <3>7, CoversNothing
    <3>8. CASE r.snap.quote.asOf = db.quote[s].asOf
      <4>1. db.quote[s].asOf \in Int
        BY <3>1, QuoteFacts
      <4>2. Covered(db, << >>, s, r.snap.quote.asOf)
        BY <3>8, <4>1 DEF Covered
      <4> QED BY <3>3, <3>4, <3>6, <4>2
    <3> QED BY <3>5, <3>7, <3>8
  <2> QED BY <2>1, <2>2
<1>5. row \in GenRows /\ row.cat = cat /\ row.data = Restored(cat)
  <2>1. Restored(cat) \in [MSyms -> Entries]
    <3>1. Restored(cat) = [s \in MSyms |-> Restored(cat)[s]]
      BY DEF Restored
    <3> QED BY <1>4, <3>1
  <2> QED BY <1>2, <2>1 DEF GenRows
<1> HIDE DEF row
<1>6. ASSUME NEW g \in GenIds, g # new
      PROVE  gens'[g] \in GenRows /\ gens'[g].cat = gens[g].cat /\ \A s \in MSyms : gens'[g].data[s] = BlankEntry
  <2>1. gens[g] \in GenRows /\ gens'[g] = [gens[g] EXCEPT !.data = Blank]
    BY <1>0, <1>1, <1>6, TypeFacts
  <2> QED BY <2>1, BlankFacts DEF GenRows, Blank
<1>7. gens'[new] = row /\ gens' \in [GenIds -> GenRows]
  <2>1. gens'[new] = row
    BY <1>1, <1>3
  <2>2. gens' = [g \in GenIds |-> gens'[g]]
    BY <1>1
  <2> QED BY <1>5, <1>6, <2>1, <2>2
<1>8. MarketTypeOK'
  <2>1. << >> \in Seq(Writes) /\ Len(<< >>) <= MQueue
    BY MarketAssumption
  <2> QED BY <1>0, <1>1, <1>3, <1>7, <2>1 DEF MarketTypeOK, GenRows
<1>9. PhaseInv' /\ ActInv'
  BY <1>0, <1>1, ActFacts DEF PhaseInv, ActInv
<1>10. GensInv'
  <2> SUFFICES ASSUME NEW g \in GenIds, NEW s \in MSyms
               PROVE  (/\ EntryOK(gens[g].data[s])
                       /\ s \in Listed(gens[g].cat) => /\ MarkOK(gens[g].data[s], gens[g].cat, s)
                                                       /\ DefOK(gens[g].data[s], gens[g].cat, s))'
    BY DEF GensInv
  <2>1. CASE g = new
    BY <1>3, <1>4, <1>5, <1>7, <2>1 DEF DefOK
  <2>2. CASE g # new
    BY <1>3, <1>6, <2>2, BlankFacts DEF MarkOK, DefOK
  <2> QED BY <2>1, <2>2
<1>11. DurableInv'
  <2>1. ASSUME NEW g \in GenIds, NEW s \in MSyms
        PROVE  Covered(db', wq', s, gens'[g].data[s].snap.quote.asOf)
    <3>1. CASE g = new
      BY <1>1, <1>4, <1>5, <1>7, <3>1
    <3>2. CASE g # new
      BY <1>1, <1>2, <1>6, <3>2, BlankFacts, CoversNothing
    <3> QED BY <3>1, <3>2
  <2>2. act'.pc = "idle"
    BY <1>0, <1>1, ActFacts
  <2> QED BY <2>1, <2>2 DEF DurableInv
<1> QED BY <1>8, <1>9, <1>10, <1>11 DEF MarketInv
-----------------------------------------------------------------------------
(* The records of a warm-up.                                               *)

LEMMA FiniteImage ==
  ASSUME NEW S, IsFiniteSet(S), NEW f, DOMAIN f = S
  PROVE  IsFiniteSet({f[x] : x \in S})
<1> DEFINE T == {f[x] : x \in S}
           h == [x \in S |-> f[x]]
<1>1. h \in Surjection(S, T)
  BY DEF Surjection
<1> QED BY <1>1, FS_Surjection

\* A sequence of all the elements of a finite set has each of them.
LEMMA SeqHasEvery ==
  ASSUME NEW S, IsFiniteSet(S), NEW q \in SetToSeqs(S)
  PROVE  q \in Seq(S) /\ \A x \in S : \E i \in 1..Len(q) : q[i] = x
<1> DEFINE n == Cardinality(S)
           D == 1..n
<1>1. n \in Nat
  BY FS_CardinalityType
<1>2. q \in [D -> S] /\ \A i, j \in D : i # j => q[i] # q[j]
  BY DEF SetToSeqs
<1>3. q \in Seq(S) /\ Len(q) = n
  BY <1>1, <1>2
<1>4. q \in Injection(D, S)
  BY <1>2 DEF Injection, IsInjective
<1>5. Cardinality(D) = n
  BY <1>1, FS_Interval
<1>6. q \in Surjection(D, S)
  BY <1>4, <1>5, FS_Injection
<1> QED BY <1>3, <1>6 DEF Surjection

\* Every warm instrument has a finite number of records, one of which is the
\* snapshot that the state has by now.
LEMMA WarmRecordsFacts ==
  ASSUME MarketInv, act.pc = "switched", NEW data \in [MSyms -> Entries],
         \A s \in DOMAIN act.warmed : data[s] = gens[cur].data[s]
  PROVE  /\ IsFiniteSet(WarmRecords(data)) /\ WarmRecords(data) \subseteq Writes
         /\ \A s \in DOMAIN act.warmed : WriteQuote(s, data[s].snap.quote) \in WarmRecords(data)
<1> DEFINE warm == DOMAIN act.warmed
           withDiv == {x \in warm : act.warmed[x].div # -1}
           withYld == {x \in warm : act.warmed[x].yld # NoYield}
           fd == [s \in withDiv |-> WriteDividend(s, act.warmed[s].div)]
           fy == [s \in withYld |-> WriteYield(s, act.warmed[s].yld)]
           fq == [s \in warm |-> WriteQuote(s, data[s].snap.quote)]
<1>1. MarketTypeOK /\ GensInv /\ ActInv /\ act # Idle /\ cur \in GenIds
  BY TypeFacts DEF MarketInv, Idle
<1>2. act.warmed \in [warm -> Incomes] /\ warm \in SUBSET MSyms
  BY <1>1, ActFacts
<1>3. IsFiniteSet(warm) /\ IsFiniteSet(withDiv) /\ IsFiniteSet(withYld)
  BY <1>2, MarketAssumption, FS_Subset
<1>4. WarmRecords(data) = {fd[s] : s \in withDiv} \cup {fy[s] : s \in withYld} \cup {fq[s] : s \in warm}
  BY DEF WarmRecords
<1>5. ASSUME NEW s \in warm PROVE data[s].snap.quote \in Quotes
  <2>1. s \in MSyms /\ data[s] \in Entries /\ EntryOK(data[s]) /\ data[s].last # None
    BY <1>1, <1>2 DEF GensInv, ActInv
  <2>2. data[s].last.asOf \in Nat /\ data[s].snap.quote \in Quotes \cup {None}
    BY <2>1, SnapFacts, QuoteFacts
  <2>3. data[s].snap.quote # None
    BY <2>1, <2>2, QuoteFacts DEF EntryOK
  <2> QED BY <2>2, <2>3
<1>6. \A s \in warm : fq[s] \in Writes
  BY <1>2, <1>5 DEF WriteQuote, Writes
<1>7. \A s \in withDiv : fd[s] \in Writes
  <2>1. ASSUME NEW s \in withDiv PROVE act.warmed[s].div \in Times /\ s \in MSyms
    BY <1>2 DEF Incomes
  <2> QED BY <2>1 DEF WriteDividend, Writes
<1>8. \A s \in withYld : fy[s] \in Writes
  <2>1. ASSUME NEW s \in withYld PROVE act.warmed[s].yld \in Yields /\ s \in MSyms
    BY <1>2 DEF Incomes
  <2> QED BY <2>1 DEF WriteYield, Writes
<1>9. /\ IsFiniteSet({fd[s] : s \in withDiv}) /\ IsFiniteSet({fy[s] : s \in withYld})
      /\ IsFiniteSet({fq[s] : s \in warm})
  <2>1. DOMAIN fd = withDiv /\ DOMAIN fy = withYld /\ DOMAIN fq = warm
    OBVIOUS
  <2> HIDE DEF fd, fy, fq, withDiv, withYld
  <2> QED BY <1>3, <2>1, FiniteImage
<1>10. IsFiniteSet(WarmRecords(data))
  <2> DEFINE A == {fd[s] : s \in withDiv}
             B == {fy[s] : s \in withYld}
             C == {fq[s] : s \in warm}
  <2>1. IsFiniteSet(A) /\ IsFiniteSet(B) /\ IsFiniteSet(C) /\ WarmRecords(data) = (A \cup B) \cup C
    BY <1>4, <1>9
  <2> HIDE DEF A, B, C
  <2>2. IsFiniteSet(A \cup B)
    BY <2>1, FS_Union
  <2> QED BY <2>1, <2>2, FS_Union
<1>11. WarmRecords(data) \subseteq Writes
  <2> HIDE DEF fd, fy, fq, withDiv, withYld
  <2> QED BY <1>4, <1>6, <1>7, <1>8
<1>12. \A s \in warm : WriteQuote(s, data[s].snap.quote) \in WarmRecords(data)
  BY DEF WarmRecords
<1> QED BY <1>10, <1>11, <1>12

LEMMA FinishActivationKeeps ==
  ASSUME MarketInv, FinishActivation PROVE MarketInv'
<1> DEFINE data == KeptSymbols(gens[cur].data, Listed(act.cat))
           row == [gens[cur] EXCEPT !.data = data]
           past == [gens[act.prev] EXCEPT !.data = Blank]
<1>0. MarketTypeOK /\ PhaseInv /\ GensInv /\ ActInv /\ DurableInv
  BY DEF MarketInv
<1>1. /\ act.pc = "switched" /\ act' = Idle /\ UNCHANGED <<mNow, cur, issued, db, crashes>>
      /\ gens' = [gens EXCEPT ![cur].data = data, ![act.prev].data = Blank]
  BY DEF FinishActivation
<1>2. PICK writes \in WarmWrites(data) : Persist(writes)
  BY DEF FinishActivation
<1>3. /\ act # Idle /\ cur \in GenIds /\ act.prev \in GenIds /\ act.prev # cur /\ gens[cur].cat = act.cat
      /\ DOMAIN act.warmed \subseteq Listed(act.cat) /\ DOMAIN act.warmed \subseteq MSyms
      /\ gens[cur] \in GenRows /\ gens[act.prev] \in GenRows /\ gens \in [GenIds -> GenRows]
  BY <1>0, <1>1, ActFacts, TypeFacts DEF PhaseInv, Idle
<1>4. \A s \in MSyms : /\ s \in Listed(act.cat) => data[s] = gens[cur].data[s]
                       /\ s \notin Listed(act.cat) => data[s] = BlankEntry
  BY DEF KeptSymbols
<1>5. data \in [MSyms -> Entries]
  <2>1. data = [s \in MSyms |-> data[s]]
    BY DEF KeptSymbols
  <2> HIDE DEF data
  <2> QED BY <1>0, <1>3, <1>4, <2>1, BlankFacts, TypeFacts
<1> HIDE DEF data
<1>6. row \in GenRows /\ row.cat = act.cat /\ row.data = data /\ past \in GenRows
      /\ past.cat = gens[act.prev].cat /\ \A s \in MSyms : past.data[s] = BlankEntry
  BY <1>3, <1>5, BlankFacts DEF GenRows, Blank
<1>7. /\ gens'[cur] = row /\ gens'[act.prev] = past
      /\ \A g \in GenIds \ {cur, act.prev} : gens'[g] = gens[g]
      /\ gens' \in [GenIds -> GenRows]
  <2>1. gens' = [gens EXCEPT ![cur] = row, ![act.prev] = past]
    BY <1>1, <1>3
  <2> HIDE DEF row, past
  <2> QED BY <1>3, <1>6, <2>1
<1> HIDE DEF row, past
<1>8. /\ IsFiniteSet(WarmRecords(data)) /\ WarmRecords(data) \subseteq Writes
      /\ \A s \in DOMAIN act.warmed : WriteQuote(s, data[s].snap.quote) \in WarmRecords(data)
  BY <1>1, <1>3, <1>4, <1>5, WarmRecordsFacts
<1>9. writes \in SetToSeqs(WarmRecords(data))
  BY <1>2 DEF WarmWrites
<1>10. writes \in Seq(Writes) /\ \A x \in WarmRecords(data) : \E i \in 1..Len(writes) : writes[i] = x
  <2>1. writes \in Seq(WarmRecords(data)) /\ \A x \in WarmRecords(data) : \E i \in 1..Len(writes) : writes[i] = x
    BY <1>8, <1>9, SeqHasEvery
  <2> QED BY <1>8, <2>1
<1>11. /\ wq' \in Seq(Writes) /\ Len(wq') <= MQueue
       /\ \A s \in MSyms, t \in Int : Covered(db, wq, s, t) => Covered(db', wq', s, t)
       /\ \A s \in MSyms, t \in Int :
            (\E i \in 1..Len(writes) : writes[i].kind = "quote" /\ writes[i].sym = s /\ writes[i].value.asOf >= t)
            => Covered(db', wq', s, t)
  BY <1>0, <1>1, <1>2, <1>10, PersistCovers
<1>12. MarketTypeOK'
  BY <1>0, <1>1, <1>7, <1>11 DEF MarketTypeOK, GenRows
<1>13. PhaseInv' /\ ActInv'
  BY <1>0, <1>1, ActFacts DEF PhaseInv, ActInv
<1>14. GensInv'
  <2> SUFFICES ASSUME NEW g \in GenIds, NEW s \in MSyms
               PROVE  (/\ EntryOK(gens[g].data[s])
                       /\ s \in Listed(gens[g].cat) => /\ MarkOK(gens[g].data[s], gens[g].cat, s)
                                                       /\ DefOK(gens[g].data[s], gens[g].cat, s))'
    BY DEF GensInv
  <2>1. CASE g = cur
    <3>1. CASE s \in Listed(act.cat)
      BY <1>0, <1>1, <1>3, <1>4, <1>6, <1>7, <2>1, <3>1 DEF GensInv, DefOK
    <3>2. CASE s \notin Listed(act.cat)
      BY <1>4, <1>6, <1>7, <2>1, <3>2, BlankFacts
    <3> QED BY <3>1, <3>2
  <2>2. CASE g = act.prev
    BY <1>6, <1>7, <2>2, BlankFacts DEF MarkOK, DefOK
  <2>3. CASE g \notin {cur, act.prev}
    BY <1>0, <1>1, <1>7, <2>3 DEF GensInv, DefOK
  <2> QED BY <2>1, <2>2, <2>3
<1>15. DurableInv'
  <2>1. ASSUME NEW g \in GenIds, NEW s \in MSyms, s \in Listed(gens'[g].cat)
        PROVE  Covered(db', wq', s, gens'[g].data[s].snap.quote.asOf)
    <3>1. gens[g].data[s].snap.quote.asOf \in Int
      BY <1>0, TypeFacts, SnapFacts, QuoteFacts
    <3>2. CASE g = cur
      <4>1. s \in Listed(act.cat) /\ gens'[g].data[s] = gens[g].data[s] /\ data[s] = gens[g].data[s]
        BY <1>4, <1>6, <1>7, <2>1, <3>2
      <4>2. CASE s \in DOMAIN act.warmed
        <5>1. PICK i \in 1..Len(writes) : writes[i] = WriteQuote(s, data[s].snap.quote)
          BY <1>8, <1>10, <4>2
        <5>2. writes[i].kind = "quote" /\ writes[i].sym = s /\ writes[i].value.asOf >= data[s].snap.quote.asOf
          BY <3>1, <4>1, <5>1 DEF WriteQuote
        <5> QED BY <1>11, <3>1, <4>1, <5>1, <5>2
      <4>3. CASE s \notin DOMAIN act.warmed
        <5>1. Covered(db, wq, s, gens[g].data[s].snap.quote.asOf)
          BY <1>0, <1>3, <3>2, <4>1, <4>3 DEF DurableInv
        <5> QED BY <1>11, <3>1, <4>1, <5>1
      <4> QED BY <4>2, <4>3
    <3>3. CASE g = act.prev
      BY <1>0, <1>1, <1>6, <1>7, <3>3, BlankFacts, TypeFacts, CoversNothing
    <3>4. CASE g \notin {cur, act.prev}
      <4>1. gens'[g] = gens[g] /\ Covered(db, wq, s, gens[g].data[s].snap.quote.asOf)
        BY <1>0, <1>7, <2>1, <3>4 DEF DurableInv
      <4> QED BY <1>11, <3>1, <4>1
    <3> QED BY <3>2, <3>3, <3>4
  <2>2. act'.pc = "idle"
    BY <1>0, <1>1, ActFacts
  <2> QED BY <2>1, <2>2 DEF DurableInv
<1> QED BY <1>12, <1>13, <1>14, <1>15 DEF MarketInv
-----------------------------------------------------------------------------
LEMMA MarketInitInv ==
  ASSUME MarketInit PROVE MarketInv
<1> DEFINE row == [cat |-> 1, data |-> Blank]
<1>1. /\ mNow = 0 /\ cur = 1 /\ issued = 1 /\ act = Idle /\ wq = << >> /\ db = EmptyDb /\ crashes = 0
      /\ gens = [g \in GenIds |-> row]
  BY DEF MarketInit
<1>2. row \in GenRows /\ row.cat = 1 /\ \A s \in MSyms : row.data[s] = BlankEntry
  BY CatalogFacts, BlankFacts DEF GenRows, Blank
<1> HIDE DEF row
<1>3. EmptyDb \in DbRows
  BY DEF EmptyDb, DbRows
<1>4. MarketTypeOK
  <2>1. 0 \in Times /\ 1 \in GenIds /\ 1 \in 1..1 /\ 0 \in 0..MCrashes
    BY MarketAssumption DEF Times, GenIds
  <2>2. << >> \in Seq(Writes) /\ Len(<< >>) <= MQueue
    BY MarketAssumption
  <2> QED BY <1>1, <1>2, <1>3, <2>1, <2>2 DEF MarketTypeOK, GenRows, DbRows
<1>5. act.pc = "idle" /\ act = Idle
  BY <1>1, <1>4, ActFacts
<1>6. PhaseInv /\ ActInv
  BY <1>5 DEF PhaseInv, ActInv
<1>7. GensInv
  BY <1>1, <1>2, BlankFacts DEF GensInv, MarkOK, DefOK
<1>8. DurableInv
  BY <1>1, <1>2, <1>3, <1>5, BlankFacts, CoversNothing DEF DurableInv
<1> QED BY <1>4, <1>6, <1>7, <1>8 DEF MarketInv

LEMMA MarketNextInv ==
  ASSUME MarketInv, [MarketNext]_marketVars PROVE MarketInv'
BY WriterCommitsKeeps, PublishQuoteKeeps, PublishDividendKeeps, PublishYieldKeeps, MarkSourceFailedKeeps,
   CloneStateKeeps, InstallWarmedKeeps, SwitchGenerationKeeps, FinishActivationKeeps, AbandonActivationKeeps,
   MarketRestartKeeps, MTickKeeps DEF MarketNext

\* The inductive invariant: every entry is sound in every generation and in
\* the state an activation prepares, and every snapshot is stored or queued.
THEOREM MarketInvariant == MarketSpec => []MarketInv
<1>1. MarketInit => MarketInv
  BY MarketInitInv
<1>2. MarketInv /\ [MarketNext]_marketVars => MarketInv'
  BY MarketNextInv
<1> QED BY <1>1, <1>2, PTL DEF MarketSpec

\* The generations, the activation, the queue and the rows keep their types.
THEOREM MarketTypes == MarketSpec => []MarketTypeOK
<1>1. MarketInv => MarketTypeOK
  BY DEF MarketInv
<1> QED BY <1>1, MarketInvariant, PTL

\* A sound entry that is not behind answers with one snapshot.
LEMMA EntryAnswers ==
  ASSUME NEW e \in Entries, EntryOK(e)
  PROVE  /\ e.last.asOf < e.snap.quote.asOf \/ e.wire = e.snap
         /\ e.snap = NoSnap <=> e.last = None
         /\ e.wire # NoSnap => e.last # None
<1>1. e.last.asOf \in Int /\ e.snap.quote.asOf \in Int /\ (e.last # None => e.last.asOf \in Nat)
  BY SnapFacts, QuoteFacts
<1>2. NoSnap.quote.asOf = -1
  BY SnapFacts, QuoteFacts
<1> QED BY <1>1, <1>2 DEF EntryOK

(* What a client is told of a symbol is one observation, made under the    *)
(* present definition, and no restart takes it back: across publications,  *)
(* activations that end or are abandoned, and crashes (service.py).        *)
THEOREM TruthfulAnswers == MarketSpec => []AnswersTruthful
<1>1. ASSUME MarketInv PROVE AnswersTruthful
  <2>0. MarketTypeOK /\ GensInv /\ DurableInv /\ cur \in GenIds
    BY <1>1, TypeFacts DEF MarketInv
  <2>1. ASSUME NEW s \in MSyms PROVE gens[cur].data[s] \in Entries /\ EntryOK(gens[cur].data[s])
    BY <2>0, TypeFacts DEF GensInv
  <2>2. AnswersAgree
    BY <2>1, EntryAnswers DEF AnswersAgree, Behind, EntryOK
  <2>3. QuoteOfItsDefinition
    <3> SUFFICES ASSUME crashes = 0, NEW s \in MSyms, s \in Listed(gens[cur].cat), gens[cur].data[s].wire # NoSnap
                 PROVE  gens[cur].data[s].wire.quote.def = DefOf(cur, s)
      BY DEF QuoteOfItsDefinition, Listed
    <3>1. DefOK(gens[cur].data[s], gens[cur].cat, s)
      BY <2>0 DEF GensInv
    <3>2. gens[cur].data[s].last # None
      BY <2>1, EntryAnswers
    <3> QED BY <2>1, <3>1, <3>2 DEF DefOK, DefOf, EntryOK
  <2>4. DurableCoversAnswers
    <3> SUFFICES ASSUME wq = << >>, act = Idle, NEW s \in MSyms, s \in Listed(gens[cur].cat)
                 PROVE  db.quote[s].asOf >= gens[cur].data[s].snap.quote.asOf
      BY DEF DurableCoversAnswers, Listed
    <3>1. act.pc = "idle"
      BY <2>0, ActFacts
    <3>2. Covered(db, wq, s, gens[cur].data[s].snap.quote.asOf)
      BY <2>0, <3>1 DEF DurableInv
    <3> QED BY <3>2 DEF Covered
  <2> QED BY <2>2, <2>3, <2>4 DEF AnswersTruthful
<1> QED BY <1>1, MarketInvariant, PTL

(* The service is ready exactly when the API serves its whole catalog,     *)
(* unless a warm quote was older than the one it replaced.                 *)
THEOREM ReadyIsServed == MarketSpec => []ReadyMeansServed
<1>1. ASSUME MarketInv PROVE ReadyMeansServed
  <2> DEFINE cat == gens[cur].cat
             all == Listed(cat)
             whole == QuotesAnswer(cur, all)
  <2>0. MarketTypeOK /\ GensInv /\ cur \in GenIds
    BY <1>1, TypeFacts DEF MarketInv
  <2> SUFFICES ASSUME \A s \in all : ~Behind(s)
               PROVE  /\ Ready(cur) <=> MissingPrices(cur) \cup IncompleteMetadata(cur) = {}
                      /\ Ready(cur) => whole.status = 200 /\ whole.errors = {}
    BY DEF ReadyMeansServed
  <2>1. ASSUME NEW s \in all PROVE gens[cur].data[s].complete <=> Serves(cur, s)
    <3> DEFINE e == gens[cur].data[s]
    <3>1. s \in MSyms /\ e \in Entries /\ EntryOK(e) /\ MarkOK(e, cat, s)
      BY <2>0, TypeFacts DEF GensInv, Listed
    <3>2. e.wire = e.snap /\ (e.snap = NoSnap <=> e.last = None)
      BY <3>1, EntryAnswers DEF Behind
    <3>3. CASE e.last = None
      BY <3>1, <3>2, <3>3, SnapFacts DEF EntryOK, Serves
    <3>4. CASE e.last # None
      BY <3>1, <3>2, <3>4 DEF MarkOK, Serves
    <3> QED BY <3>3, <3>4
  <2>2. DashboardShows(cur) \subseteq all /\ {s \in all : Serves(cur, s)} \subseteq DashboardShows(cur)
    BY DEF DashboardShows, Serves
  <2>3. whole.data = {s \in all : Serves(cur, s)} /\ whole.errors = all \ whole.data
    BY DEF QuotesAnswer
  <2>4. MissingPrices(cur) \cup IncompleteMetadata(cur) = all \ {s \in all : Serves(cur, s)}
    BY <2>2, <2>3 DEF MissingPrices, IncompleteMetadata
  <2>5. Ready(cur) <=> \A s \in all : Serves(cur, s)
    BY <2>1 DEF Ready
  <2>6. ASSUME Ready(cur) PROVE whole.status = 200
    <3>1. {s \in all \cap all : Serves(cur, s)} = all
      BY <2>5, <2>6
    <3> QED BY <3>1 DEF QuotesAnswer
  <2> QED BY <2>3, <2>4, <2>5, <2>6
<1> QED BY <1>1, MarketInvariant, PTL
-----------------------------------------------------------------------------
(* While a generation is current.                                          *)

\* What a publication may do to its symbol.
NoWorse(s) ==
  /\ gens'[cur].data[s].last.asOf >= gens[cur].data[s].last.asOf
  /\ YieldDegradesLate(s)

\* An entry that keeps its quote and its yield is no worse.
LEMMA SameIsNoWorse ==
  ASSUME MarketTypeOK, NEW s \in MSyms, gens'[cur].data[s].last = gens[cur].data[s].last,
         gens'[cur].data[s].yld = gens[cur].data[s].yld
  PROVE  NoWorse(s)
<1>1. gens[cur].data[s] \in Entries
  BY TypeFacts
<1>2. gens[cur].data[s].last.asOf \in Int /\ gens[cur].data[s].yld \in Yields \cup {NoYield}
  BY <1>1, SnapFacts, QuoteFacts
<1>3. gens[cur].data[s].yld # NoYield => SourceRank(gens[cur].data[s].yld) \in Nat
  BY <1>2, MarketAssumption DEF SourceRank, Yields
<1> QED BY <1>2, <1>3 DEF NoWorse, YieldDegradesLate

\* A publication replaces the quote or the yield of one symbol as given.
LEMMA PublishedEntry ==
  ASSUME MarketTypeOK, NEW s \in MSyms, NEW e \in Entries, NEW income, Publish(s, e, income)
  PROVE  /\ gens'[cur].data[s].last = e.last /\ gens'[cur].data[s].yld = e.yld
         /\ \A x \in MSyms \ {s} : gens'[cur].data[x] = gens[cur].data[x]
<1> DEFINE r == Rebuilt(e, gens[cur].cat, s)
<1>1. cur \in GenIds /\ gens[cur].cat \in DOMAIN Catalog
  BY TypeFacts
<1>2. r \in Entries /\ r.last = e.last /\ r.yld = e.yld
  BY <1>1, RebuiltFacts
<1>3. gens' = [gens EXCEPT ![cur].data[s] = r]
  BY DEF Publish
<1> HIDE DEF r
<1> QED BY <1>1, <1>2, <1>3, EntryReplaced, ZenonT(60)

LEMMA PublishedNoWorse ==
  ASSUME MarketInv, NEW s \in MSyms, NEW x \in MSyms,
         \/ \E g \in GenIds, t \in Times : PublishQuote(s, g, t)
         \/ \E g \in GenIds, t \in Times : PublishDividend(s, g, t)
         \/ \E g \in GenIds, y \in Yields : PublishYield(s, g, y)
  PROVE  NoWorse(x)
<1> DEFINE old == gens[cur].data[s]
<1>0. MarketTypeOK /\ old \in Entries /\ cur \in GenIds /\ gens[cur].cat \in DOMAIN Catalog
  BY TypeFacts DEF MarketInv
<1>1. old.last \in Quotes \cup {None} /\ old.last.asOf \in Int /\ old.yld \in Yields \cup {NoYield}
  BY <1>0, SnapFacts, QuoteFacts
<1>2. ASSUME NEW e \in Entries, NEW income, Publish(s, e, income),
             e.last.asOf >= old.last.asOf,
             old.yld # NoYield /\ e.yld # NoYield /\ SourceRank(e.yld) > SourceRank(old.yld)
               => mNow - old.yld.asOf > YieldTtl
      PROVE  NoWorse(x)
  <2>1. /\ gens'[cur].data[s].last = e.last /\ gens'[cur].data[s].yld = e.yld
        /\ \A z \in MSyms \ {s} : gens'[cur].data[z] = gens[cur].data[z]
    BY <1>0, <1>2, PublishedEntry
  <2>2. CASE x = s
    BY <1>2, <2>1, <2>2 DEF NoWorse, YieldDegradesLate
  <2>3. CASE x # s
    BY <1>0, <2>1, <2>3, SameIsNoWorse
  <2> QED BY <2>2, <2>3
<1>3. old.yld # NoYield => ~(SourceRank(old.yld) > SourceRank(old.yld))
  BY <1>1, MarketAssumption DEF SourceRank, Yields
<1>4. ASSUME NEW g \in GenIds, NEW t \in Times, PublishQuote(s, g, t) PROVE NoWorse(x)
  <2> DEFINE q == [asOf |-> t, def |-> DefOf(g, s)]
             e == [old EXCEPT !.last = q, !.failed = FALSE]
  <2>1. g = cur /\ t >= old.last.asOf /\ Publish(s, e, << >>)
    BY <1>4 DEF PublishQuote, Context, QuoteAccepted
  <2>2. q \in Quotes /\ q.asOf = t
    BY <1>0, <2>1, CatalogFacts DEF Quotes, DefOf
  <2> HIDE DEF q
  <2>3. e \in Entries /\ e.last = q /\ e.yld = old.yld
    BY <1>0, <2>2 DEF Entries
  <2> HIDE DEF e
  <2> QED BY <1>2, <1>3, <2>1, <2>2, <2>3
<1>5. ASSUME NEW g \in GenIds, NEW t \in Times, PublishDividend(s, g, t) PROVE NoWorse(x)
  <2> DEFINE e == [old EXCEPT !.div = t]
  <2>1. Publish(s, e, <<WriteDividend(s, t)>>)
    BY <1>5 DEF PublishDividend
  <2>2. e \in Entries /\ e.last = old.last /\ e.yld = old.yld
    BY <1>0 DEF Entries
  <2> HIDE DEF e
  <2> QED BY <1>1, <1>2, <1>3, <2>1, <2>2
<1>6. ASSUME NEW g \in GenIds, NEW y \in Yields, PublishYield(s, g, y) PROVE NoWorse(x)
  <2> DEFINE e == [old EXCEPT !.yld = y]
  <2>1. Publish(s, e, <<WriteYield(s, y)>>) /\ YieldAccepted(old.yld, y)
    BY <1>6 DEF PublishYield
  <2>2. e \in Entries /\ e.last = old.last /\ e.yld = y
    BY <1>0 DEF Entries
  <2> HIDE DEF e
  <2> QED BY <1>1, <1>2, <2>1, <2>2 DEF YieldAccepted
<1> QED BY <1>4, <1>5, <1>6

\* A step that changes no entry of the current generation, except that it
\* forgets symbols that are not listed.
LEMMA KeptNoWorse ==
  ASSUME MarketTypeOK, NEW s \in MSyms,
         \/ gens'[cur].data[s].last = gens[cur].data[s].last /\ gens'[cur].data[s].yld = gens[cur].data[s].yld
         \/ s \notin Listed(gens[cur].cat) /\ gens'[cur].data[s] = BlankEntry
  PROVE  (s \in Listed(gens[cur].cat) => NoWorse(s)) /\ YieldDegradesLate(s)
<1>1. CASE gens'[cur].data[s].last = gens[cur].data[s].last /\ gens'[cur].data[s].yld = gens[cur].data[s].yld
  BY <1>1, SameIsNoWorse DEF NoWorse
<1>2. CASE s \notin Listed(gens[cur].cat) /\ gens'[cur].data[s] = BlankEntry
  BY <1>2, BlankFacts DEF YieldDegradesLate
<1> QED BY <1>1, <1>2

LEMMA OtherStepsKeep ==
  ASSUME MarketInv, cur' = cur, NEW s \in MSyms,
         \/ WriterCommits \/ (\E x \in MSyms, g \in GenIds : MarkSourceFailed(x, g))
         \/ (\E cat \in DOMAIN Catalog : CloneState(cat)) \/ (\E items \in [Changed -> WarmItems] : InstallWarmed(items))
         \/ SwitchGeneration \/ FinishActivation \/ AbandonActivation \/ MarketRestart \/ MTick
  PROVE  \/ gens'[cur].data[s].last = gens[cur].data[s].last /\ gens'[cur].data[s].yld = gens[cur].data[s].yld
         \/ s \notin Listed(gens[cur].cat) /\ gens'[cur].data[s] = BlankEntry
<1>0. MarketTypeOK /\ PhaseInv /\ cur \in GenIds /\ issued \in GenIds /\ gens[cur] \in GenRows
      /\ gens \in [GenIds -> GenRows]
  BY TypeFacts DEF MarketInv
<1>1. CASE UNCHANGED gens
  BY <1>1
<1>2. ASSUME NEW x \in MSyms, NEW g \in GenIds, MarkSourceFailed(x, g)
      PROVE  gens'[cur].data[s].last = gens[cur].data[s].last /\ gens'[cur].data[s].yld = gens[cur].data[s].yld
  <2> DEFINE r == [gens[cur].data[x] EXCEPT !.failed = TRUE]
  <2>1. gens' = [gens EXCEPT ![cur].data[x] = r]
    BY <1>2 DEF MarkSourceFailed
  <2>2. r \in Entries /\ r.last = gens[cur].data[x].last /\ r.yld = gens[cur].data[x].yld
    <3>1. gens[cur].data[x] \in Entries
      BY <1>0, TypeFacts
    <3> QED BY <3>1 DEF Entries
  <2> HIDE DEF r
  <2>3. /\ gens'[cur].data[x] = r
        /\ \A g1 \in GenIds, x1 \in MSyms : ~(g1 = cur /\ x1 = x) => gens'[g1].data[x1] = gens[g1].data[x1]
    BY <1>0, <2>1, <2>2, EntryReplaced
  <2> QED BY <1>0, <2>2, <2>3
<1>3. CASE SwitchGeneration
  <2>1. act # Idle /\ act.pc = "ready" /\ cur' = act.gen
    BY <1>0, <1>3, ActFacts DEF SwitchGeneration
  <2>2. cur = act.prev /\ act.gen # act.prev
    BY <1>0, <2>1 DEF PhaseInv
  <2> QED BY <2>1, <2>2
<1>4. CASE FinishActivation
  <2> DEFINE data == KeptSymbols(gens[cur].data, Listed(act.cat))
  <2>1. act # Idle /\ act.pc = "switched" /\ gens' = [gens EXCEPT ![cur].data = data, ![act.prev].data = Blank]
    BY <1>0, <1>4, ActFacts DEF FinishActivation
  <2>2. act.prev # cur /\ gens[cur].cat = act.cat
    BY <1>0, <2>1 DEF PhaseInv
  <2>3. data[s] = IF s \in Listed(act.cat) THEN gens[cur].data[s] ELSE BlankEntry
    BY DEF KeptSymbols
  <2> HIDE DEF data
  <2>4. gens'[cur].data = data
    <3> DEFINE row == [gens[cur] EXCEPT !.data = data]
               past == [gens[act.prev] EXCEPT !.data = Blank]
    <3>1. gens' = [gens EXCEPT ![cur] = row, ![act.prev] = past]
      BY <2>1, <2>2
    <3>2. row.data = data
      BY <1>0 DEF GenRows
    <3> HIDE DEF row, past
    <3>3. gens'[cur] = row
      BY <1>0, <2>2, <3>1
    <3> QED BY <3>2, <3>3
  <2> QED BY <2>2, <2>3, <2>4
<1>5. CASE AbandonActivation
  <2>1. act # Idle /\ cur' = act.prev /\ gens' = [gens EXCEPT ![act.gen].data = Blank]
    BY <1>5 DEF AbandonActivation
  <2>2. act.gen # cur
    BY <1>0, <2>1 DEF PhaseInv
  <2>3. gens'[cur] = gens[cur]
    BY <1>0, <2>1, <2>2
  <2> QED BY <2>3
<1>6. CASE MarketRestart
  BY <1>0, <1>6, MarketAssumption DEF MarketRestart, MarketTypeOK, GenIds
<1> QED BY <1>1, <1>2, <1>3, <1>4, <1>5, <1>6 DEF WriterCommits, CloneState, InstallWarmed, MTick

(* While a generation is current, no quote goes back in time and no yield  *)
(* of a better source is replaced before it is stale (service.py,          *)
(* publish_quote and publish_yield).                                       *)
THEOREM AnswersOnlyImprove == MarketSpec => AnswersNeverWorsen
<1> DEFINE Step == cur' = cur => \A s \in MSyms : /\ s \in Listed(gens[cur].cat) => QuoteMovesForward(s)
                                                  /\ YieldDegradesLate(s)
<1>1. MarketInv /\ MarketInv' /\ [MarketNext]_marketVars => [Step]_marketVars
  <2>1. SUFFICES ASSUME MarketInv, MarketInv', MarketNext, cur' = cur, NEW s \in MSyms
                 PROVE  (s \in Listed(gens[cur].cat) => QuoteMovesForward(s)) /\ YieldDegradesLate(s)
    OBVIOUS
  <2>2. MarketTypeOK /\ cur \in GenIds
    BY <2>1, TypeFacts DEF MarketInv
  <2>3. gens[cur].data[s].wire.quote = gens[cur].data[s].last
    BY <2>1, <2>2 DEF MarketInv, GensInv, EntryOK
  <2>4. gens'[cur].data[s].wire.quote = gens'[cur].data[s].last
    BY <2>1, <2>2 DEF MarketInv, GensInv, EntryOK
  <2>5. NoWorse(s) => QuoteMovesForward(s) /\ YieldDegradesLate(s)
    BY <2>3, <2>4 DEF NoWorse, QuoteMovesForward
  <2>6. CASE \E x \in MSyms, g \in GenIds, t \in Times : PublishQuote(x, g, t)
    BY <2>1, <2>5, <2>6, PublishedNoWorse
  <2>7. CASE \E x \in MSyms, g \in GenIds, t \in Times : PublishDividend(x, g, t)
    BY <2>1, <2>5, <2>7, PublishedNoWorse
  <2>8. CASE \E x \in MSyms, g \in GenIds, y \in Yields : PublishYield(x, g, y)
    BY <2>1, <2>5, <2>8, PublishedNoWorse
  <2>9. CASE \/ WriterCommits \/ (\E x \in MSyms, g \in GenIds : MarkSourceFailed(x, g))
             \/ (\E cat \in DOMAIN Catalog : CloneState(cat))
             \/ (\E items \in [Changed -> WarmItems] : InstallWarmed(items))
             \/ SwitchGeneration \/ FinishActivation \/ AbandonActivation \/ MarketRestart \/ MTick
    BY <2>1, <2>2, <2>5, <2>9, OtherStepsKeep, KeptNoWorse
  <2> QED BY <2>1, <2>6, <2>7, <2>8, <2>9 DEF MarketNext
<1>2. MarketSpec => [][Step]_marketVars
  BY <1>1, MarketInvariant, PTL DEF MarketSpec
<1> QED BY <1>2 DEF AnswersNeverWorsen
===============================================================================
