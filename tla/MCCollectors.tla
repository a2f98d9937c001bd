---------------------------- MODULE MCCollectors ----------------------------
(***************************************************************************)
(* Model-checking instance of the collectors.  Their loops share only the  *)
(* handoff that cancels them, so each behaviour exercises one of them.     *)
(***************************************************************************)
EXTENDS Collectors, TLC

CONSTANTS a, b, p, r, h1, h2, r1

VARIABLE part

Quoted(poll, stale, head, equity) == [poll |-> poll, stale |-> stale, head |-> head, equity |-> equity]

\* The second catalog redefines a, keeps its stream, and adds b.
MCQuoteCatalogs ==
  <<a :> Quoted(1, 2, p, TRUE) @@ b :> Absent,
    a :> Quoted(1, 1, p, FALSE) @@ b :> Quoted(2, 1, r, FALSE)>>
MCTwoSymbols == {a, b}
MCMinimumPoll == p :> 1 @@ r :> 2
MCClosedPoll == p :> 2 @@ r :> 3
MCFloor == p :> 0 @@ r :> 1
MCTwoHubs == {h1, h2}
MCOneRegular == {r1}
MCLoopCatalogs == {{h1, h2, r1}, {h1}}
MCMetadataCatalogs == {{a, b}, {a}}

allVars == <<part, loopsVars>>

\* The parts that a behaviour leaves alone begin in one state only.
Init ==
  /\ part \in {"quotes", "history", "metadata"}
  /\ CollectorsInit
  /\ part # "history" => listed = {h1} /\ \A s \in Symbols : bars[s] = "none"
  /\ part # "metadata" => yListed = {a}

QuotePart    == part = "quotes" /\ CollectorNext /\ UNCHANGED <<part, loopVars, metadataVars>>
HistoryPart  == part = "history" /\ LoopNext /\ UNCHANGED <<part, collectorVars, metadataVars>>
MetadataPart == part = "metadata" /\ MetadataNext /\ UNCHANGED <<part, collectorVars, loopVars>>

Next == QuotePart \/ HistoryPart \/ MetadataPart

Spec == Init /\ [][Next]_allVars
=============================================================================
