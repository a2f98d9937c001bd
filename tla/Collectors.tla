---------------------------- MODULE Collectors ----------------------------
(***************************************************************************)
(* The three loops of MarketDataCoordinator (collectors.py) side by side:  *)
(* quotes and streams, history, metadata.  They share the event loop and   *)
(* the handoff that cancels them, and no data.                             *)
(***************************************************************************)
EXTENDS QuoteCollector, HistoryCollector, MetadataCollector

loopsVars == <<collectorVars, loopVars, metadataVars>>

CollectorsInit == CollectorInit /\ LoopInit /\ MetadataInit

CollectorsNext ==
  \/ CollectorNext /\ UNCHANGED <<loopVars, metadataVars>>
  \/ LoopNext /\ UNCHANGED <<collectorVars, metadataVars>>
  \/ MetadataNext /\ UNCHANGED <<collectorVars, loopVars>>

CollectorsSpec == CollectorsInit /\ [][CollectorsNext]_loopsVars

\* What failed upstream is asked for again soon, in the history loop and in the
\* metadata loop, through retry-only cycles and handoffs (collectors.py).
RetriedSoon == FailureRetriedSoon /\ DegradedRetriedEarly
=============================================================================
