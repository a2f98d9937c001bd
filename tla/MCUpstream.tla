----------------------------- MODULE MCUpstream -----------------------------
(***************************************************************************)
(* Model-checking instance of the calls to upstream services: the ledger   *)
(* that grants their credits and the router that chooses the provider.     *)
(* The two share no state.  Each behaviour exercises one of them and       *)
(* leaves the other as it began, at rest, so that the fairness of both     *)
(* holds of it.                                                            *)
(***************************************************************************)
EXTENDS QuotaLedger, ProviderRouter

CONSTANTS p1, p2, k1, k2, c1, c2

VARIABLE part

MCTwoProviders == {p1, p2}
MCTwoChain == <<p1, p2>>
MCTwoKeys == {k1, k2}
MCClients == {c1, c2}

allVars == <<part, quotaVars, routerVars>>

\* The part that a behaviour leaves alone begins in one state only.
Init ==
  /\ part \in {"quota", "router"}
  /\ QuotaInit /\ RouterInit
  /\ part = "router" => \A l \in Limits : limit <= l

QuotaPart  == part = "quota" /\ QuotaNext /\ UNCHANGED <<part, routerVars>>
RouterPart == part = "router" /\ RouterNext /\ UNCHANGED <<part, quotaVars>>

Next == QuotaPart \/ RouterPart

Spec == Init /\ [][Next]_allVars /\ QuotaFairness /\ RouterFairness
=============================================================================
