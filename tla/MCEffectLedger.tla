---------------------------- MODULE MCEffectLedger ----------------------------
(***************************************************************************)
(* EffectLedger for TLC.  Two chain effects, which draw on "gas", and one  *)
(* payment, which draws on "x402", of two runs.  The first authorization   *)
(* grants only the payment and ends sooner; the second grants every action *)
(* but not the payment's bucket, and its budgets hold one effect at a time.*)
(***************************************************************************)
EXTENDS EffectLedger, TLC

CONSTANTS a1, a2, e1, e2, p1, c1, c2, t1, gas, x402

TwoAuthorizations == {a1, a2}
TwoRuns == {c1, c2}
GasAndPayment == {gas, x402}
ThreeEffects == {e1, e2, p1}
Payments == {p1}
AllTemplates == {t1}

\* The chain effects are alike, and so are the runs.
Alike == Permutations({e1, e2}) \cup Permutations(TwoRuns)

MCLifetime == [a \in Authorizations |-> IF a = a1 THEN 1 ELSE 9]
MCTemplateOf == [c \in Commands |-> t1]
MCGrantedActions == [a \in Authorizations |-> IF a = a1 THEN Payments ELSE Effects]
MCGrantedTemplates == [a \in Authorizations |-> Templates]
MCGrantedBuckets == [a \in Authorizations |-> IF a = a1 THEN Buckets ELSE {gas}]
MCPerAction == [a \in Authorizations |-> [b \in Buckets |->
    IF a = a1 /\ b = gas THEN 0 ELSE 1]]
MCPerRun == [a \in Authorizations |-> [b \in Buckets |-> IF a = a1 THEN 2 ELSE 1]]
MCRolling == MCPerRun
=============================================================================
