--------------------------- MODULE MetadataCollector ---------------------------
(***************************************************************************)
(* The metadata loop of collectors.py: batches of due symbols shared by    *)
(* four workers, and the delay until the next refresh.  Runs apart from    *)
(* the history loop and shares no state with it.                           *)
(***************************************************************************)
EXTENDS Integers, FiniteSets

CONSTANTS
  YSyms, YCatalogs,            \* symbols, and the sets of them a catalog lists
  MetadataPoll, MetadataRetry, \* metadata_poll_seconds, metadata_retry_seconds
  MetadataWorkers,
  YTime, YHandoffs             \* bounds: clock, handoffs

ASSUME MetadataAssumption ==
  /\ MetadataPoll \in Nat \ {0} /\ MetadataRetry \in Nat \ {0} /\ MetadataWorkers \in Nat \ {0}
  /\ YTime \in Nat /\ YCatalogs \subseteq SUBSET YSyms

VARIABLES
  yNow, yListed, yHandoffs,
  meta,     \* due times, what is left of the batch, symbols the workers hold
  degraded  \* symbols whose last refresh failed or brought a proxy

metadataVars == <<yNow, yListed, yHandoffs, meta, degraded>>

MetadataInit ==
  /\ yNow = 0 /\ yHandoffs = 0 /\ yListed \in YCatalogs
  /\ meta = [due |-> [s \in YSyms |-> 0], todo |-> {}, busy |-> {}]
  /\ degraded = {}

MetadataDue == {s \in yListed : meta.due[s] <= yNow}

StartMetadata ==
  /\ meta.todo = {} /\ meta.busy = {} /\ MetadataDue # {}
  /\ meta' = [meta EXCEPT !.todo = MetadataDue]
  /\ UNCHANGED <<yNow, yListed, yHandoffs, degraded>>

MetadataTakes(s) ==
  /\ s \in meta.todo /\ Cardinality(meta.busy) < MetadataWorkers
  /\ meta' = [meta EXCEPT !.todo = @ \ {s}, !.busy = @ \cup {s}]
  /\ UNCHANGED <<yNow, yListed, yHandoffs, degraded>>

\* _refresh_metadata: a failed request, a proxy or a fallback yield.
RetryEarly(dividend, yield) == dividend = "failed" \/ yield \in {"failed", "proxy"}

MetadataDone(s, dividend, yield) ==
  /\ s \in meta.busy
  /\ meta' = [meta EXCEPT
       !.busy = @ \ {s},
       !.due[s] = yNow + (IF RetryEarly(dividend, yield) THEN MetadataRetry ELSE MetadataPoll)]
  /\ degraded' = IF dividend = "failed" \/ yield \in {"failed", "proxy"} THEN degraded \cup {s} ELSE degraded \ {s}
  /\ UNCHANGED <<yNow, yListed, yHandoffs>>

\* A handoff cancels the loop; kept has the symbols whose income strategies
\* and routes are the same in both catalogs.
MetadataHandoff(new, kept) ==
  /\ yHandoffs < YHandoffs /\ new # yListed /\ kept \subseteq new \cap yListed
  /\ yHandoffs' = yHandoffs + 1 /\ yListed' = new
  /\ meta' = [due |-> [s \in YSyms |-> IF s \in kept THEN meta.due[s] ELSE 0], todo |-> {}, busy |-> {}]
  /\ UNCHANGED <<yNow, degraded>>

YTick ==
  /\ yNow < YTime /\ yNow' = yNow + 1
  /\ UNCHANGED <<yListed, yHandoffs, meta, degraded>>

MetadataNext ==
  \/ StartMetadata
  \/ \E s \in YSyms : MetadataTakes(s)
  \/ \E s \in YSyms, dividend \in {"ok", "failed"}, yield \in {"ok", "proxy", "failed"} :
       MetadataDone(s, dividend, yield)
  \/ \E new \in YCatalogs : \E kept \in SUBSET new : MetadataHandoff(new, kept)
  \/ YTick

(***************************************************************************)
(* Properties                                                              *)
(***************************************************************************)
\* A listed symbol whose dividend or yield failed, or whose yield is a proxy
\* or a fallback, is due again after the short delay at the latest, and no
\* symbol waits in two places of the batch; a batch that a handoff cut short
\* leaves its symbols due (_refresh_metadata, _metadata_loop).
DegradedRetriedEarly ==
  /\ meta.todo \cap meta.busy = {}
  /\ \A s \in degraded \cap yListed : meta.due[s] <= yNow + MetadataRetry
=============================================================================
