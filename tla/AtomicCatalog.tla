--------------------------- MODULE AtomicCatalog ---------------------------
(***************************************************************************)
(* What hot activation promises (README.md, "Managed instrument catalog";  *)
(* docs/instrument-catalog.md, "Activation"): the service always serves    *)
(* one complete generation, a switch has two possible ends, the old        *)
(* generation and the new one, and a restart at any moment serves one of   *)
(* these two.                                                              *)
(***************************************************************************)
CONSTANT Gens

VARIABLES current,   \* the generation requests are served from
          durable,   \* the generation a restart would serve
          undo       \* the generation an abandoned switch returns to

TypeOK == current \in Gens /\ durable \in Gens /\ undo \in Gens

Init == current \in Gens /\ durable = current /\ undo = current

(* A switch starts: what is served now is what failure must bring back. *)
Begin == undo' = current /\ UNCHANGED <<current, durable>>

(* The target is made durable while the old generation is served. *)
Persist(g) == current = undo /\ durable' = g /\ UNCHANGED <<current, undo>>

Publish == current' = durable /\ UNCHANGED <<durable, undo>>

Retract == current' = undo /\ UNCHANGED <<durable, undo>>

(* The durable target is withdrawn once it is no longer served. *)
Withdraw == current = undo /\ durable' = undo /\ UNCHANGED <<current, undo>>

Restart == current' = durable /\ undo' = durable /\ UNCHANGED durable

Next ==
    \/ Begin \/ Publish \/ Retract \/ Withdraw \/ Restart
    \/ \E g \in Gens : Persist(g)

Spec == Init /\ [][Next]_<<current, durable, undo>>
=============================================================================
