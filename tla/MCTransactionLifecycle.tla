------------------------ MODULE MCTransactionLifecycle ------------------------
(***************************************************************************)
(* TransactionLifecycle for TLC: one authorization and run, two workers.   *)
(* Transactions of an effect differ in nonce and gas, so that an attempt   *)
(* can replace, follow or lose to another one.  The gas price varies at    *)
(* nonce 0 only, where it decides a replacement.                           *)
(***************************************************************************)
EXTENDS TransactionLifecycle, TLC

CONSTANTS a1, e1, e2, c1, t1, gas, w1, w2

MCAuthorizations == {a1}
MCEffects == {e1, e2}
MCCommands == {c1}
MCBuckets == {gas}
MCTemplates == {t1}
MCWorkers == {w1, w2}
MCHashes == {h \in [effect : Effects, nonce : 0..MaxNonce, gas : Amounts] :
                h.gas = 2 => h.nonce = 0}
MCLifetime == [a \in Authorizations |-> 2]
MCTemplateOf == [c \in Commands |-> t1]
MCGrantedActions == [a \in Authorizations |-> Effects]
MCGrantedTemplates == [a \in Authorizations |-> Templates]
MCGrantedBuckets == [a \in Authorizations |-> Buckets]
MCPerAction == [a \in Authorizations |-> [b \in Buckets |-> 2]]
MCPerRun == [a \in Authorizations |-> [b \in Buckets |-> 3]]
MCRolling == [a \in Authorizations |-> [b \in Buckets |-> 3]]

Alike == Permutations(MCWorkers) \cup Permutations(MCEffects)
=============================================================================
