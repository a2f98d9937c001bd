--------------------------- MODULE MCClientAccess ---------------------------
(***************************************************************************)
(* Model-checking instance of four small components that share no state:   *)
(* client keys, request limits, the log broker and the TTL cache.  Each    *)
(* behaviour exercises one of them and leaves the others as they began, so *)
(* the state space is the sum of theirs and not the product.               *)
(***************************************************************************)
EXTENDS ApiKeys, RequestLimiter, LogBroker, TtlCache

CONSTANTS d1, d2, a1, a2, v1, v2, c1, c2, c3

VARIABLE part

MCTwoDigests == {d1, d2}
MCTwoAdmins == {a1, a2}
MCTwoViewers == {v1, v2}
MCThreeCallers == {c1, c2, c3}
MCThreeIdentities == {d1, d2, c1}

allVars == <<part, keyVars, limiterVars, brokerVars, ttlVars>>

Init ==
  /\ part \in {"keys", "limiter", "broker", "ttl"}
  /\ KeysInit /\ LimiterInit /\ BrokerInit /\ TtlInit

KeysPart    == part = "keys" /\ KeysNext /\ UNCHANGED <<part, limiterVars, brokerVars, ttlVars>>
LimiterPart == part = "limiter" /\ LimiterNext /\ UNCHANGED <<part, keyVars, brokerVars, ttlVars>>
BrokerPart  == part = "broker" /\ BrokerNext /\ UNCHANGED <<part, keyVars, limiterVars, ttlVars>>
TtlPart     == part = "ttl" /\ TtlNext /\ UNCHANGED <<part, keyVars, limiterVars, brokerVars>>

Next == KeysPart \/ LimiterPart \/ BrokerPart \/ TtlPart

Spec == Init /\ [][Next]_allVars
=============================================================================
