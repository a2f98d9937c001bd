----------------------------- MODULE MarketState -----------------------------
(***************************************************************************)
(* The market data of service.py: what collectors publish, what is kept    *)
(* per runtime generation, how an activation clones, warms and switches    *)
(* that state, what is written to SQLite and what a restart reads back.    *)
(*                                                                         *)
(* Publications and requests run on the event loop, so each is one step;   *)
(* the activation awaits between its phases.  A quote is its time and the  *)
(* definition it was fetched under; prices, history rings and aggregates   *)
(* are left to the HistoryCache module.                                    *)
(***************************************************************************)
EXTENDS Integers, Sequences, FiniteSets, SequencesExt

CONSTANTS
  MSyms,
  Catalog,            \* the instrument definitions of each catalog: 0 is "not listed"
  YieldDefs,          \* <<symbol, definition>> with a provider yield strategy
  DividendDefs,       \* <<symbol, definition>> with a dividend strategy
  Sources, RankOf,    \* yield sources and their semantic rank, 0 is best
  YieldTtl,           \* stale_after_seconds of a yield
  MTime, MGens, MCrashes, MQueue  \* bounds: ticks, generations, crashes, queued writes

ASSUME MarketAssumption ==
  /\ MTime \in Nat /\ MGens \in Nat \ {0} /\ MCrashes \in Nat /\ MQueue \in Nat /\ YieldTtl \in Nat
  /\ IsFiniteSet(MSyms) /\ Catalog \in Seq([MSyms -> Nat]) /\ Catalog # << >>
  /\ \A d \in YieldDefs \cup DividendDefs : d[2] # 0
  /\ \A src \in Sources : RankOf[src] \in Nat

VARIABLES
  mNow,
  cur,      \* the generation requests capture
  issued,   \* generation ids given out
  gens,     \* the registry and data of each generation
  act,      \* the activation under way
  wq,       \* records queued for SQLite
  db,       \* what SQLite restores
  crashes

marketVars == <<mNow, cur, issued, gens, act, wq, db, crashes>>

Times == 0..MTime
GenIds == 1..MGens
None == [asOf |-> -1, def |-> 0]
NoYield == [asOf |-> -1, src |-> "none"]
NoSnap == [quote |-> None, div |-> -1, yld |-> NoYield]
Quotes == [asOf : Times, def : Nat]
Yields == [asOf : Times, src : Sources]

Incomes == [div : Times \cup {-1}, yld : Yields \cup {NoYield}]
Snaps == [quote : Quotes \cup {None}, div : Times \cup {-1}, yld : Yields \cup {NoYield}]
Entries == [last : Quotes \cup {None}, snap : Snaps, wire : Snaps, div : Times \cup {-1},
            yld : Yields \cup {NoYield}, failed : BOOLEAN, complete : BOOLEAN]
Writes == [kind : {"quote"}, sym : MSyms, value : Quotes] \cup [kind : {"div"}, sym : MSyms, value : Times]
          \cup [kind : {"yld"}, sym : MSyms, value : Yields]

\* _RuntimeDataState, symbol by symbol; failed and complete tell whether the
\* symbol is in source_failures and in complete_symbols.
BlankEntry == [last |-> None, snap |-> NoSnap, wire |-> NoSnap, div |-> -1, yld |-> NoYield,
               failed |-> FALSE, complete |-> FALSE]
Blank == [s \in MSyms |-> BlankEntry]

EmptyDb == [quote |-> [s \in MSyms |-> None], div |-> [s \in MSyms |-> -1], yld |-> [s \in MSyms |-> NoYield]]
Idle == [pc |-> "idle"]

MarketInit ==
  /\ mNow = 0 /\ cur = 1 /\ issued = 1
  /\ gens = [g \in GenIds |-> [cat |-> 1, data |-> Blank]]
  /\ act = Idle /\ wq = << >> /\ db = EmptyDb /\ crashes = 0

DefOf(g, s) == Catalog[gens[g].cat][s]
Listed(cat) == {s \in MSyms : Catalog[cat][s] # 0}
WantsYield(cat, s) == <<s, Catalog[cat][s]>> \in YieldDefs
WantsDividend(cat, s) == <<s, Catalog[cat][s]>> \in DividendDefs

\* The strategies of the definition decide which income fields are mandatory.
Complete(cat, s, snapshot) ==
  /\ WantsYield(cat, s) => snapshot.yld # NoYield
  /\ WantsDividend(cat, s) => snapshot.div # -1

\* Mutant: a price alone makes a symbol complete.
MarkedByPrice(cat, s, snapshot) == TRUE

Marked(cat, s, snapshot) == Complete(cat, s, snapshot)

\* SnapshotStore.publish drops a snapshot older than the one it has.
Published(current, snapshot) == IF snapshot.quote.asOf < current.quote.asOf THEN current ELSE snapshot

\* _rebuild: the snapshot store, the wire cache and the completeness mark.
Rebuilt(e, cat, s) ==
  LET snapshot == [quote |-> e.last,
                   div |-> IF WantsDividend(cat, s) THEN e.div ELSE -1,
                   yld |-> IF WantsYield(cat, s) THEN e.yld ELSE NoYield]
  IN  IF e.last = None THEN e
      ELSE [e EXCEPT !.snap = Published(@, snapshot), !.wire = snapshot,
                     !.complete = Marked(cat, s, snapshot)]

(***************************************************************************)
(* Persistence: the writer applies the queue in order                      *)
(***************************************************************************)
WriteQuote(s, q) == [kind |-> "quote", sym |-> s, value |-> q]
WriteDividend(s, ex) == [kind |-> "div", sym |-> s, value |-> ex]
WriteYield(s, y) == [kind |-> "yld", sym |-> s, value |-> y]

\* Mutant: an older snapshot overwrites the row.
StoredLast(d, w) ==
  CASE w.kind = "quote" -> [d EXCEPT !.quote[w.sym] = w.value]
    [] w.kind = "div" -> [d EXCEPT !.div[w.sym] = IF w.value >= @ THEN w.value ELSE @]
    [] w.kind = "yld" -> [d EXCEPT !.yld[w.sym] = w.value]

\* What restore_sync would read after the write: the newest snapshot, the
\* regular dividend with the latest ex-date, the yield row written last.
Stored(d, w) ==
  CASE w.kind = "quote" -> [d EXCEPT !.quote[w.sym] = IF w.value.asOf >= @.asOf THEN w.value ELSE @]
    [] w.kind = "div" -> [d EXCEPT !.div[w.sym] = IF w.value >= @ THEN w.value ELSE @]
    [] w.kind = "yld" -> [d EXCEPT !.yld[w.sym] = w.value]

Persist(writes) == Len(wq) + Len(writes) <= MQueue /\ wq' = wq \o writes

WriterCommits ==
  /\ wq # << >>
  /\ db' = Stored(db, Head(wq)) /\ wq' = Tail(wq)
  /\ UNCHANGED <<mNow, cur, issued, gens, act, crashes>>

(***************************************************************************)
(* Publications of a collector that was given generation g                 *)
(***************************************************************************)

\* _publication_context and the second check under the lock.
Context(g) == g = cur

\* The rebuilt snapshot is queued before the income record it includes.
Publish(s, e, income) ==
  /\ gens' = [gens EXCEPT ![cur].data[s] = Rebuilt(e, gens[cur].cat, s)]
  /\ Persist((IF e.last = None THEN << >> ELSE <<WriteQuote(s, e.last)>>) \o income)
  /\ UNCHANGED <<mNow, cur, issued, act, db, crashes>>

QuoteAccepted(e, t) == t >= e.last.asOf

PublishQuote(s, g, t) ==
  LET e == gens[cur].data[s]
      q == [asOf |-> t, def |-> DefOf(g, s)]
  IN  /\ g <= issued /\ Context(g) /\ DefOf(cur, s) # 0 /\ t <= mNow
      /\ QuoteAccepted(e, t)
      /\ Publish(s, [e EXCEPT !.last = q, !.failed = FALSE], << >>)

\* Only regular cash dividends, and none with an earlier ex-date.
PublishDividend(s, g, ex) ==
  LET e == gens[cur].data[s]
  IN  /\ g <= issued /\ Context(g) /\ WantsDividend(gens[cur].cat, s)
      /\ ex >= e.div
      /\ Publish(s, [e EXCEPT !.div = ex], <<WriteDividend(s, ex)>>)

SourceRank(y) == RankOf[y.src]

\* Mutant: a worse source replaces a better one at once.
YieldAcceptedByAge(current, y) == y.asOf >= current.asOf

\* A source of the same rank needs a newer observation; a worse source must
\* wait until the current observation is stale; a better one is taken.
YieldAccepted(current, y) ==
  current # NoYield =>
    /\ SourceRank(y) = SourceRank(current) => y.asOf >= current.asOf
    /\ SourceRank(y) > SourceRank(current) => mNow - current.asOf > YieldTtl

PublishYield(s, g, y) ==
  LET e == gens[cur].data[s]
  IN  /\ g <= issued /\ Context(g) /\ WantsYield(gens[cur].cat, s) /\ y.asOf <= mNow
      /\ YieldAccepted(e.yld, y)
      /\ Publish(s, [e EXCEPT !.yld = y], <<WriteYield(s, y)>>)

MarkSourceFailed(s, g) ==
  /\ g <= issued /\ Context(g) /\ DefOf(cur, s) # 0
  /\ gens' = [gens EXCEPT ![cur].data[s].failed = TRUE]
  /\ UNCHANGED <<mNow, cur, issued, act, wq, db, crashes>>

(***************************************************************************)
(* Activation of another catalog                                           *)
(***************************************************************************)
Changed == {s \in Listed(act.cat) : Catalog[act.cat][s] # Catalog[gens[cur].cat][s]}
Added == {s \in Listed(act.cat) : Catalog[gens[cur].cat][s] = 0}

\* _prepare_runtime_state begins with a clone; what is published to the
\* current generation from here on is not in it.
CloneState(cat) ==
  /\ act = Idle /\ cat # gens[cur].cat /\ issued < MGens
  /\ issued' = issued + 1
  /\ act' = [pc |-> "cloned", gen |-> issued + 1, cat |-> cat, data |-> gens[cur].data,
           warmed |-> << >>, prev |-> cur]
  /\ UNCHANGED <<mNow, cur, gens, wq, db, crashes>>

\* _restore_retained_candidate_state: stored values of the added symbols.
RestoredCandidate(e, s) ==
  IF s \notin Added THEN e
  ELSE [e EXCEPT !.last = IF db.quote[s].asOf > @.asOf THEN db.quote[s] ELSE @,
                 !.div = IF db.div[s] > @ THEN db.div[s] ELSE @,
                 !.yld = IF db.yld[s].asOf > @.asOf THEN db.yld[s] ELSE @]

IncomeOf(cat, s, item) ==
  [div |-> IF WantsDividend(cat, s) THEN item.div ELSE -1, yld |-> IF WantsYield(cat, s) THEN item.yld ELSE NoYield]

\* One warm item: its quote, and the income its definition makes mandatory.
\* Nothing compares the quote with the one it replaces.
Warmed(e, cat, s, item) ==
  Rebuilt([e EXCEPT !.div = IF WantsDividend(cat, s) THEN item.div ELSE @,
                    !.yld = IF WantsYield(cat, s) THEN item.yld ELSE @,
                    !.last = [asOf |-> item.asOf, def |-> Catalog[cat][s]],
                    !.failed = FALSE],
          cat, s)

\* _install_warmed_instruments, after the restore: no await in between.
InstallWarmed(items) ==
  LET base(s) == RestoredCandidate(act.data[s], s)
  IN  /\ act.pc = "cloned"
      /\ \A s \in Changed : items[s].asOf <= mNow /\ items[s].yld.asOf <= mNow
      /\ act' = [act EXCEPT
                   !.pc = "ready",
                   !.data = [s \in MSyms |-> IF s \in Changed THEN Warmed(base(s), act.cat, s, items[s]) ELSE base(s)],
                   !.warmed = [s \in Changed |-> IncomeOf(act.cat, s, items[s])]]
      /\ UNCHANGED <<mNow, cur, issued, gens, wq, db, crashes>>

\* _activate_runtime_generation: one pointer, registry and data together.
SwitchGeneration ==
  /\ act.pc = "ready"
  /\ gens' = [gens EXCEPT ![act.gen] = [cat |-> act.cat, data |-> act.data]]
  /\ cur' = act.gen
  /\ act' = [act EXCEPT !.pc = "switched"]
  /\ UNCHANGED <<mNow, issued, wq, db, crashes>>

\* _RuntimeDataState.retain_symbols.
KeptSymbols(data, kept) == [s \in MSyms |-> IF s \in kept THEN data[s] ELSE BlankEntry]

\* _persist_warmed_instruments: the income of the warm item, then the snapshot
\* of the state as it is by now.  The instruments may come in any order.
WarmRecords(data) ==
  LET warm == DOMAIN act.warmed
  IN  {WriteDividend(s, act.warmed[s].div) : s \in {x \in warm : act.warmed[x].div # -1}}
      \cup {WriteYield(s, act.warmed[s].yld) : s \in {x \in warm : act.warmed[x].yld # NoYield}}
      \cup {WriteQuote(s, data[s].snap.quote) : s \in warm}

Turn(w) == CASE w.kind = "div" -> 1 [] w.kind = "yld" -> 2 [] w.kind = "quote" -> 3

WarmWrites(data) ==
  {q \in SetToSeqs(WarmRecords(data)) :
     \A i, j \in DOMAIN q : q[i].sym = q[j].sym /\ Turn(q[i]) < Turn(q[j]) => i < j}

\* The retired generation is forgotten once no request holds it.
FinishActivation ==
  LET data == KeptSymbols(gens[cur].data, Listed(act.cat))
  IN  /\ act.pc = "switched"
      /\ gens' = [gens EXCEPT ![cur].data = data, ![act.prev].data = Blank]
      /\ \E writes \in WarmWrites(data) : Persist(writes)
      /\ act' = Idle
      /\ UNCHANGED <<mNow, cur, issued, db, crashes>>

\* Any failure before the commit: the previous generation is current again.
AbandonActivation ==
  /\ act # Idle
  /\ cur' = act.prev /\ act' = Idle
  /\ gens' = [gens EXCEPT ![act.gen].data = Blank]
  /\ UNCHANGED <<mNow, issued, wq, db, crashes>>

(***************************************************************************)
(* Restart and time                                                        *)
(***************************************************************************)
\* _apply_restored_state: income first, then the quotes, which rebuild.
Restored(cat) ==
  [s \in MSyms |->
     IF s \in Listed(cat)
     THEN Rebuilt([BlankEntry EXCEPT !.div = db.div[s], !.yld = db.yld[s], !.last = db.quote[s]], cat, s)
     ELSE BlankEntry]

\* The process dies with its queue and starts again from the catalog file,
\* which a switched activation has already replaced.
MarketRestart ==
  /\ crashes < MCrashes /\ issued < MGens
  /\ crashes' = crashes + 1
  /\ issued' = issued + 1 /\ cur' = issued + 1
  /\ gens' = [g \in GenIds |-> IF g = issued + 1 THEN [cat |-> gens[cur].cat, data |-> Restored(gens[cur].cat)]
                              ELSE [gens[g] EXCEPT !.data = Blank]]
  /\ act' = Idle /\ wq' = << >>
  /\ UNCHANGED <<mNow, db>>

MTick ==
  /\ mNow < MTime /\ mNow' = mNow + 1
  /\ UNCHANGED <<cur, issued, gens, act, wq, db, crashes>>

WarmItems == [asOf : Times, div : Times, yld : Yields]

MarketNext ==
  \/ WriterCommits
  \/ \E s \in MSyms, g \in GenIds, t \in Times : PublishQuote(s, g, t)
  \/ \E s \in MSyms, g \in GenIds, t \in Times : PublishDividend(s, g, t)
  \/ \E s \in MSyms, g \in GenIds, y \in Yields : PublishYield(s, g, y)
  \/ \E s \in MSyms, g \in GenIds : MarkSourceFailed(s, g)
  \/ \E cat \in DOMAIN Catalog : CloneState(cat)
  \/ act.pc = "cloned" /\ \E items \in [Changed -> WarmItems] : InstallWarmed(items)
  \/ SwitchGeneration \/ FinishActivation \/ AbandonActivation
  \/ MarketRestart \/ MTick

MarketSpec == MarketInit /\ [][MarketNext]_marketVars

(***************************************************************************)
(* Requests                                                                *)
(***************************************************************************)
\* get_quote with complete metadata: the price of the wire cache.
Serves(g, s) ==
  LET snapshot == gens[g].data[s].snap
  IN  snapshot # NoSnap /\ Complete(gens[g].cat, s, snapshot)

\* GET /v1/quotes: a symbol either has data or an error of its own.
QuotesAnswer(g, requested) ==
  LET known == requested \cap Listed(gens[g].cat)
      data == {s \in known : Serves(g, s)}
  IN  [data |-> data, errors |-> requested \ data,
       status |-> IF data # {} \/ requested = {} THEN 200 ELSE IF known # {} THEN 503 ELSE 400]

\* The dashboard also shows a price whose income metadata is missing.
DashboardShows(g) == {s \in Listed(gens[g].cat) : gens[g].data[s].snap # NoSnap}

\* is_ready, as far as market data decides it.
Ready(g) == \A s \in Listed(gens[g].cat) : gens[g].data[s].complete

\* readiness(): the symbols without a price, and with one that is incomplete.
MissingPrices(g) == Listed(gens[g].cat) \ DashboardShows(g)
IncompleteMetadata(g) == DashboardShows(g) \ QuotesAnswer(g, Listed(gens[g].cat)).data

(***************************************************************************)
(* Properties                                                              *)
(***************************************************************************)
\* Type invariant of the generations, the activation, the queue and the rows.
MarketTypeOK ==
  /\ mNow \in Times /\ issued \in GenIds /\ cur \in 1..issued /\ crashes \in 0..MCrashes
  /\ gens \in [GenIds -> [cat : DOMAIN Catalog, data : [MSyms -> Entries]]]
  /\ act \in {Idle} \cup [pc : {"cloned", "ready", "switched"}, gen : GenIds, prev : GenIds, cat : DOMAIN Catalog,
                          data : [MSyms -> Entries], warmed : UNION {[S -> Incomes] : S \in SUBSET MSyms}]
  /\ wq \in Seq(Writes) /\ Len(wq) <= MQueue
  /\ db \in [quote : [MSyms -> Quotes \cup {None}], div : [MSyms -> Times \cup {-1}],
             yld : [MSyms -> Yields \cup {NoYield}]]

\* A warm quote may be older than the quote it replaces.  The snapshot store
\* then keeps the old snapshot, and price and age are told apart until a quote
\* arrives that is as new as the one the store has.
Behind(s) == gens[cur].data[s].last.asOf < gens[cur].data[s].snap.quote.asOf

\* Everything that answers for one symbol tells of one observation: the price
\* comes from the wire cache, its age from the snapshot, and the next quote is
\* compared with the last one.  Holds across publications of quotes and
\* income, activations, abandoned activations and restarts.
AnswersAgree ==
  \A s \in MSyms :
    LET e == gens[cur].data[s]
    IN  /\ e.wire.quote = e.last
        /\ Behind(s) \/ e.wire = e.snap

\* The cheap readiness mark and the answers of the API agree as soon as no
\* symbol is behind: ready exactly when nothing is listed as missing or
\* incomplete, and then the whole catalog is served without an error.
ReadyMeansServed ==
  LET whole == QuotesAnswer(cur, Listed(gens[cur].cat))
  IN  (\A s \in Listed(gens[cur].cat) : ~Behind(s)) =>
        /\ Ready(cur) <=> MissingPrices(cur) \cup IncompleteMetadata(cur) = {}
        /\ Ready(cur) => whole.status = 200 /\ whole.errors = {}

\* README.md:567-569: "They therefore observe the complete old catalog or the
\* complete new catalog, never a partially activated mix."  The snapshot, which
\* decides age and completeness, is of the definition the price is of.
NeverAMix ==
  crashes = 0 => \A s \in Listed(gens[cur].cat) :
    gens[cur].data[s].snap.quote.def = gens[cur].data[s].wire.quote.def

\* In the process that fetched it, a quote is never served under another
\* definition of its symbol.  (SQLite keeps quotes by symbol alone, so after
\* a restart one may be, until the next quote arrives.)
QuoteOfItsDefinition ==
  crashes = 0 => \A s \in Listed(gens[cur].cat) :
    gens[cur].data[s].wire # NoSnap => gens[cur].data[s].wire.quote.def = DefOf(cur, s)

QuoteMovesForward(s) == gens'[cur].data[s].wire.quote.asOf >= gens[cur].data[s].wire.quote.asOf
YieldDegradesLate(s) ==
  LET old == gens[cur].data[s].yld
      new == gens'[cur].data[s].yld
  IN old # NoYield /\ new # NoYield /\ SourceRank(new) > SourceRank(old) => mNow - old.asOf > YieldTtl

\* While a generation is current no symbol's answer gets worse (service.py,
\* publish_quote, publish_yield): its quote never goes back in time, and a yield
\* of a better source stays until it is stale.
AnswersNeverWorsen ==
  [][cur' = cur => \A s \in MSyms :
       /\ s \in Listed(gens[cur].cat) => QuoteMovesForward(s)
       /\ YieldDegradesLate(s)]_marketVars

\* Once the writer has caught up, a restart loses no quote that a client has
\* been shown.
DurableCoversAnswers ==
  wq = << >> /\ act = Idle =>
    \A s \in Listed(gens[cur].cat) : db.quote[s].asOf >= gens[cur].data[s].snap.quote.asOf

\* What a client is told of a symbol (service.py) is one observation, made
\* under the present definition, and no restart takes it back.
AnswersTruthful == AnswersAgree /\ QuoteOfItsDefinition /\ DurableCoversAnswers
==============================================================================
