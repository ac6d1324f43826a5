------------------------------ MODULE EffectOnce ------------------------------
(***************************************************************************)
(* What the effect ledger promises to whoever holds a wallet: for each     *)
(* effect the network is shown one transaction at most, ever.              *)
(***************************************************************************)
CONSTANTS Effects, Transactions

VARIABLE shown       \* effect -> transactions the network has been shown

Init == shown = [e \in Effects |-> {}]

Show(e, t) ==
    /\ shown[e] = {}
    /\ shown' = [shown EXCEPT ![e] = {t}]

Next == \E e \in Effects, t \in Transactions : Show(e, t)

Spec == Init /\ [][Next]_shown
=============================================================================
