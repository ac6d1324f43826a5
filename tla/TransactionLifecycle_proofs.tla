--------------------- MODULE TransactionLifecycle_proofs ---------------------
(***************************************************************************)
(* Proofs about TransactionLifecycle, for any number of workers, effects   *)
(* and transactions: nothing is sent that is not on record, an effect      *)
(* reaches the chain once, and the lifecycle implements EffectOnce.        *)
(*                                                                         *)
(* The argument is that a hash, once on record, never changes              *)
(* (EffectsAdvance), and that a worker past signing holds the hash on      *)
(* record; the invariant RecordInv says both of every worker and of the    *)
(* network.                                                                *)
(***************************************************************************)
EXTENDS TransactionLifecycle, EffectLedger_proofs

OnRecord(t) == effect[t.effect].hash = t

\* A hash belongs to the effect it is stored under.
HashNamesEffect ==
    \A e \in Effects : effect[e].hash # None => effect[e].hash.effect = e

\* A worker that may broadcast, or has, holds what is on record.
WorkersHoldRecord ==
    \A w \in Workers :
        worker[w].pc \in {"broadcast", "submitted", "receipt"}
        => OnRecord(worker[w].tx)

SentOnRecord == \A t \in sent : OnRecord(t)

ChainFromSent == pool \subseteq sent /\ mined \subseteq sent

\* The account's nonce is past that of every reconciled transaction: it was
\* mined, or something else with its nonce was.
MinedIsPast == \A t \in mined : t.nonce < nonce

ReconciledIsPast ==
    \A e \in Effects \ PaymentEffects :
        effect[e].state = "reconciled" => effect[e].hash.nonce < nonce

RecordInv ==
    /\ TypeInv
    /\ LifecycleTypeOK
    /\ HashOnlyWhenPrepared
    /\ HashNamesEffect
    /\ WorkersHoldRecord
    /\ SentOnRecord
    /\ ChainFromSent
    /\ MinedIsPast
    /\ ReconciledIsPast

LEMMA HashFields ==
    ASSUME NEW t \in Hashes
    PROVE  /\ t.effect \in Effects \ PaymentEffects
           /\ t.effect \in Effects
           /\ t.gas \in Amounts \ {0}
           /\ t.nonce \in Nat
           /\ t # None
BY LifecycleAssumption, LedgerAssumption

LEMMA ReservationIsRequest ==
    ASSUME NEW t \in Hashes, NEW a \in Authorizations, NEW c \in Commands,
           NEW fp \in Fingerprints, NEW began \in {s \in 0..now : now - s <= MaxLag}
    PROVE  Reservation(t, a, c, fp, began) \in Requests
<1> DEFINE u == [b \in Buckets |-> IF b = Gas THEN t.gas ELSE 0]
<1>1. u \in [Buckets -> Amounts]
  BY HashFields, LifecycleAssumption
<1>2. u # NoLines
  <2>1. u[Gas] = t.gas /\ NoLines[Gas] = 0
    BY LifecycleAssumption DEF NoLines
  <2> QED
    BY <2>1, HashFields
<1> QED
  BY <1>1, <1>2, HashFields DEF Reservation, Requests

----------------------------------------------------------------------------
\* Each worker step is a step of the ledger, or none.

LEMMA WorkerStepsLedger ==
    ASSUME LifecycleTypeOK, NEW w \in Workers, WorkerNext(w)
    PROVE  [Next]_vars
<1>t. /\ worker[w].tx \in Hashes \cup {None}
      /\ worker[w].pc # "idle" => worker[w].tx \in Hashes
  BY DEF LifecycleTypeOK
<1>1. CASE BeforeSign(w)
  <2>t. worker[w].tx \in Hashes
    BY <1>1, <1>t DEF BeforeSign, At
  <2>1. PICK a \in Authorizations, c \in Commands, fp \in Fingerprints,
             began \in {t \in 0..now : now - t <= MaxLag} :
          \/ Reserve(Reservation(worker[w].tx, a, c, fp, began))
          \/ UNCHANGED vars
    BY <1>1 DEF BeforeSign
  <2>2. Reservation(worker[w].tx, a, c, fp, began) \in Requests
    BY <2>t, ReservationIsRequest
  <2> QED
    BY <2>1, <2>2 DEF Next, LedgerNext
<1>2. CASE SignAndPersist(w)
  <2>t. worker[w].tx \in Hashes
    BY <1>2, <1>t DEF SignAndPersist, At
  <2> QED
    BY <1>2, <2>t, HashFields DEF SignAndPersist, Next, LedgerNext
<1>3. CASE Submitted(w)
  <2>t. worker[w].tx \in Hashes
    BY <1>3, <1>t DEF Submitted, At
  <2> QED
    BY <1>3, <2>t, HashFields DEF Submitted, Next, LedgerNext
<1>4. CASE Reconciled(w)
  <2>t. worker[w].tx \in Hashes
    BY <1>4, <1>t DEF Reconciled, At
  <2> QED
    BY <1>4, <2>t, HashFields DEF Reconciled, Next, LedgerNext
<1>5. CASE \/ PrepareRequest(w) \/ Lookup(w) \/ BroadcastKnown(w)
           \/ BroadcastThrows(w) \/ Crash(w)
  BY <1>5 DEF PrepareRequest, Lookup, BroadcastKnown, BroadcastThrows, Crash
<1> QED
  BY <1>1, <1>2, <1>3, <1>4, <1>5 DEF WorkerNext

LEMMA StepsLedger ==
    ASSUME LifecycleTypeOK, [LifecycleNext]_lifecycleVars
    PROVE  [Next]_vars
<1>1. ASSUME NEW w \in Workers, WorkerNext(w) PROVE [Next]_vars
  BY <1>1, WorkerStepsLedger
<1>2. CASE Mine \/ Evict
  BY <1>2 DEF Mine, Evict
<1>3. CASE EnvironmentNext
  BY <1>3 DEF EnvironmentNext, Next, LedgerNext
<1>4. CASE UNCHANGED lifecycleVars
  BY <1>4 DEF lifecycleVars
<1> QED
  BY <1>1, <1>2, <1>3, <1>4 DEF LifecycleNext

\* What is on record stays on record.
LEMMA RecordIsStable ==
    ASSUME TypeInv, HashOnlyWhenPrepared, [Next]_vars,
           NEW t \in Hashes, OnRecord(t)
    PROVE  OnRecord(t)'
<1>1. RowAdvances(effect[t.effect], effect'[t.effect])
  BY AdvanceStep, HashFields DEF AllAdvance
<1> QED
  BY <1>1, HashFields DEF RowAdvances, OnRecord

----------------------------------------------------------------------------
\* How a lifecycle step may write the ledger.

RowWrites ==
    \/ UNCHANGED effect
    \/ \E r \in Requests : Reserve(r)
    \/ \E t \in Hashes : Prepare(t.effect, t)
    \/ \E t \in Hashes : MarkSubmitted(t.effect, t)
    \/ \E t \in Hashes, u \in [Buckets -> Nat] :
          t.nonce < nonce /\ OnRecord(t) /\ Reconcile(t.effect, u)
    \/ \E e \in Effects \ PaymentEffects : Release(e)

LEMMA LifecycleWrites ==
    ASSUME RecordInv, [LifecycleNext]_lifecycleVars
    PROVE  RowWrites
<1>t. LifecycleTypeOK /\ LedgerTypeOK /\ WorkersHoldRecord
  BY DEF RecordInv, TypeInv
<1>w. ASSUME NEW w \in Workers, worker[w].pc # "idle"
      PROVE  worker[w].tx \in Hashes
  BY <1>t, <1>w DEF LifecycleTypeOK
<1> USE DEF RowWrites
<1>1. ASSUME NEW w \in Workers, BeforeSign(w) PROVE RowWrites
  <2>t. worker[w].tx \in Hashes
    BY <1>1, <1>w DEF BeforeSign, At
  <2>1. PICK a \in Authorizations, c \in Commands, fp \in Fingerprints,
             began \in {t \in 0..now : now - t <= MaxLag} :
          \/ Reserve(Reservation(worker[w].tx, a, c, fp, began))
          \/ UNCHANGED vars
    BY <1>1 DEF BeforeSign
  <2>2. Reservation(worker[w].tx, a, c, fp, began) \in Requests
    BY <2>t, ReservationIsRequest
  <2> QED
    BY <2>1, <2>2 DEF vars, ledgerVars
<1>2. ASSUME NEW w \in Workers, SignAndPersist(w) PROVE RowWrites
  <2>t. worker[w].tx \in Hashes
    BY <1>2, <1>w DEF SignAndPersist, At
  <2> QED
    BY <1>2, <2>t DEF SignAndPersist, vars, ledgerVars
<1>3. ASSUME NEW w \in Workers, Submitted(w) PROVE RowWrites
  <2>t. worker[w].tx \in Hashes
    BY <1>3, <1>w DEF Submitted, At
  <2> QED
    BY <1>3, <2>t DEF Submitted, vars, ledgerVars
<1>4. ASSUME NEW w \in Workers, Reconciled(w) PROVE RowWrites
  <2>t. worker[w].tx \in Hashes /\ OnRecord(worker[w].tx)
    BY <1>4, <1>w, <1>t DEF Reconciled, At, WorkersHoldRecord
  <2>1. PICK u \in Receipts(worker[w].tx.effect) :
          /\ worker[w].tx.nonce < nonce
          /\ Reconcile(worker[w].tx.effect, u)
    BY <1>4 DEF Reconciled, RecordInv, MinedIsPast
  <2>2. u \in [Buckets -> Nat]
    BY <1>t, <2>t, HashFields, ReceiptsAreCharges
  <2> QED
    BY <2>t, <2>1, <2>2
<1>5. ASSUME NEW w \in Workers,
             \/ PrepareRequest(w) \/ Lookup(w) \/ BroadcastKnown(w)
             \/ BroadcastThrows(w) \/ Crash(w)
      PROVE  RowWrites
  BY <1>5 DEF PrepareRequest, Lookup, BroadcastKnown, BroadcastThrows, Crash,
     vars, ledgerVars
<1>6. CASE Mine \/ Evict
  BY <1>6 DEF Mine, Evict, vars, ledgerVars
<1>7. CASE EnvironmentNext
  BY <1>7 DEF EnvironmentNext, LinkExecution, ledgerVars
<1>8. CASE UNCHANGED lifecycleVars
  BY <1>8 DEF lifecycleVars, vars, ledgerVars
<1> QED
  BY <1>1, <1>2, <1>3, <1>4, <1>5, <1>6, <1>7, <1>8
     DEF LifecycleNext, WorkerNext

\* A new hash names the effect it is stored under, and a newly reconciled
\* effect has a nonce that is taken.
LEMMA WritesKeepRecords ==
    ASSUME RecordInv, RowWrites, nonce \in Nat, nonce' \in Nat, nonce <= nonce'
    PROVE  HashNamesEffect' /\ ReconciledIsPast'
<1>t. effect \in [Effects -> EffectRow]
  BY DEF RecordInv, TypeInv, LedgerTypeOK
<1>h. HashNamesEffect /\ ReconciledIsPast /\ HashOnlyWhenPrepared
  BY DEF RecordInv
<1>p. \A e \in Effects \ PaymentEffects :
        effect[e].state = "reconciled" => effect[e].hash.nonce < nonce'
  <2>1. ASSUME NEW e \in Effects \ PaymentEffects, effect[e].state = "reconciled"
        PROVE  effect[e].hash.nonce \in Nat /\ effect[e].hash.nonce < nonce
    <3>1. effect[e].hash \in Hashes
      BY <1>h, <1>t, <2>1 DEF HashOnlyWhenPrepared, EffectRow
    <3> QED
      BY <3>1, <1>h, <2>1, HashFields DEF ReconciledIsPast
  <2> QED
    BY <2>1
<1> USE DEF HashNamesEffect, ReconciledIsPast
<1>1. CASE UNCHANGED effect
  BY <1>1, <1>h, <1>p
<1>2. ASSUME NEW r \in Requests, Reserve(r)
      PROVE  HashNamesEffect' /\ ReconciledIsPast'
  <2>1. effect' = [effect EXCEPT ![r.effect] = NewRow(r)] /\ r.effect \in Effects
    BY <1>2, ReserveWrites DEF Requests
  <2> QED
    BY <1>h, <1>p, <1>t, <2>1 DEF NewRow
<1>3. ASSUME NEW t \in Hashes, Prepare(t.effect, t)
      PROVE  HashNamesEffect' /\ ReconciledIsPast'
  BY <1>3, <1>h, <1>p, <1>t, HashFields DEF Prepare, EffectRow
<1>4. ASSUME NEW t \in Hashes, MarkSubmitted(t.effect, t)
      PROVE  HashNamesEffect' /\ ReconciledIsPast'
  BY <1>4, <1>h, <1>p, <1>t, HashFields DEF MarkSubmitted, EffectRow
<1>5. ASSUME NEW t \in Hashes, NEW u \in [Buckets -> Nat], t.nonce < nonce,
             OnRecord(t), Reconcile(t.effect, u)
      PROVE  HashNamesEffect' /\ ReconciledIsPast'
  <2>1. t.effect \in Effects
    BY <1>5, HashFields
  <2>2. effect' = [effect EXCEPT ![t.effect] =
            [effect[t.effect] EXCEPT !.state = "reconciled", !.charged = u]]
    BY <1>5, <1>t, <2>1 DEF Reconcile
  <2>3. \A e \in Effects : effect'[e].hash = effect[e].hash
    BY <1>t, <2>1, <2>2 DEF EffectRow
  <2>4. \A e \in Effects : e # t.effect => effect'[e] = effect[e]
    BY <1>t, <2>1, <2>2
  <2>5. t.nonce < nonce'
    BY <1>5, HashFields
  <2> QED
    BY <1>5, <1>h, <1>p, <2>1, <2>3, <2>4, <2>5 DEF OnRecord
<1>6. ASSUME NEW e \in Effects \ PaymentEffects, Release(e)
      PROVE  HashNamesEffect' /\ ReconciledIsPast'
  BY <1>6, <1>h, <1>p, <1>t DEF Release, EffectRow
<1> QED
  BY <1>1, <1>2, <1>3, <1>4, <1>5, <1>6 DEF RowWrites

----------------------------------------------------------------------------
\* What a lifecycle step does to the network: it is shown nothing, or the
\* transaction a worker at "broadcast" holds.

ShownStep ==
    \/ sent' = sent
    \/ \E w \in Workers :
          worker[w].pc = "broadcast" /\ sent' = sent \cup {worker[w].tx}

LEMMA NetworkStep ==
    ASSUME LifecycleTypeOK, ChainFromSent, [LifecycleNext]_lifecycleVars
    PROVE  ShownStep /\ mined \subseteq mined' /\ ChainFromSent'
<1> USE DEF ShownStep, ChainFromSent
<1>1. ASSUME NEW w \in Workers, BroadcastKnown(w) \/ BroadcastThrows(w)
      PROVE  ShownStep /\ mined \subseteq mined' /\ ChainFromSent'
  BY <1>1 DEF BroadcastKnown, BroadcastThrows, Accept, At, chainVars
<1>2. ASSUME NEW w \in Workers,
             \/ PrepareRequest(w) \/ BeforeSign(w) \/ Lookup(w)
             \/ SignAndPersist(w) \/ Submitted(w) \/ Reconciled(w) \/ Crash(w)
      PROVE  ShownStep /\ mined \subseteq mined' /\ ChainFromSent'
  BY <1>2 DEF PrepareRequest, BeforeSign, Lookup, SignAndPersist, Submitted,
     Reconciled, Crash, chainVars
<1>3. CASE Mine \/ Evict
  BY <1>3 DEF Mine, Evict
<1>4. CASE EnvironmentNext \/ UNCHANGED lifecycleVars
  BY <1>4 DEF EnvironmentNext, lifecycleVars, chainVars
<1> QED
  BY <1>1, <1>2, <1>3, <1>4 DEF LifecycleNext, WorkerNext

\* Nonces are taken in order, and for good.
LEMMA NonceStep ==
    ASSUME LifecycleTypeOK, MinedIsPast, [LifecycleNext]_lifecycleVars
    PROVE  /\ nonce \in Nat /\ nonce' \in Nat /\ nonce <= nonce'
           /\ MinedIsPast'
           /\ \A t \in mined' \ mined : t.nonce = nonce
<1>t. nonce \in Nat /\ mined \subseteq Hashes
  BY LifecycleAssumption DEF LifecycleTypeOK
<1>1. CASE Mine
  <2>1. PICK t \in pool : t.nonce = nonce /\ mined' = mined \cup {t}
    BY <1>1 DEF Mine
  <2>2. nonce' = nonce + 1
    BY <1>1 DEF Mine
  <2>3. \A u \in mined : u.nonce \in Nat
    BY <1>t, HashFields
  <2> QED
    BY <1>t, <2>1, <2>2, <2>3 DEF MinedIsPast
<1>2. CASE UNCHANGED <<nonce, mined>>
  BY <1>t, <1>2 DEF MinedIsPast
<1>3. ASSUME NEW w \in Workers, WorkerNext(w) PROVE UNCHANGED <<nonce, mined>>
  BY <1>3 DEF WorkerNext, PrepareRequest, BeforeSign, Lookup, SignAndPersist,
     BroadcastKnown, BroadcastThrows, Accept, Submitted, Reconciled, Crash,
     chainVars
<1>4. CASE Evict \/ EnvironmentNext \/ UNCHANGED lifecycleVars
  BY <1>2, <1>4 DEF Evict, EnvironmentNext, lifecycleVars, chainVars
<1> QED
  BY <1>1, <1>2, <1>3, <1>4 DEF LifecycleNext

\* Where a worker's step leaves it: stopped, or holding a transaction which,
\* from broadcasting on, is on record.
Moves(w) ==
    \/ Stop(w)
    \/ \E s \in Steps \ {"idle"}, t \in Hashes :
          /\ Goto(w, s, t)
          /\ s \in {"broadcast", "submitted", "receipt"} => OnRecord(t)'

LEMMA WorkerMoves ==
    ASSUME RecordInv, NEW w \in Workers, WorkerNext(w)
    PROVE  Moves(w)
<1>i. /\ TypeInv /\ LifecycleTypeOK /\ LedgerTypeOK /\ HashOnlyWhenPrepared
      /\ HashNamesEffect /\ WorkersHoldRecord
  BY DEF RecordInv, TypeInv
<1>e. effect \in [Effects -> EffectRow]
  BY <1>i DEF LedgerTypeOK
<1>p. PICK t : t = worker[w].tx
  OBVIOUS
<1>t. worker[w].pc # "idle" => t \in Hashes /\ t.effect \in Effects
  BY <1>i, <1>p, HashFields DEF LifecycleTypeOK
<1>n. [Next]_vars
  BY <1>i, WorkerStepsLedger
<1>k. worker[w].pc \in {"broadcast", "submitted", "receipt"}
      => t \in Hashes /\ OnRecord(t) /\ OnRecord(t)'
  BY <1>i, <1>p, <1>t, <1>n, RecordIsStable DEF WorkersHoldRecord
<1>1. CASE PrepareRequest(w)
  BY <1>1 DEF PrepareRequest, Moves, Steps
<1>2. CASE BeforeSign(w)
  <2>1. Stop(w) \/ Goto(w, "sign", t) \/ Goto(w, "lookup", t)
    BY <1>2, <1>p DEF BeforeSign
  <2>2. t \in Hashes
    BY <1>2, <1>t DEF BeforeSign, At
  <2> QED
    BY <2>1, <2>2 DEF Moves, Steps
<1>3. CASE Lookup(w)
  <2>0. PICK h : h = effect[t.effect].hash
    OBVIOUS
  <2>1. \/ Stop(w)
        \/ h # None /\ (Goto(w, "submitted", h) \/ Goto(w, "broadcast", h))
    BY <1>3, <1>p, <2>0 DEF Lookup
  <2>2. t.effect \in Effects /\ UNCHANGED effect
    BY <1>3, <1>t DEF Lookup, At, vars, ledgerVars
  <2>3. h # None => h \in Hashes /\ h.effect = t.effect
    BY <1>e, <1>i, <2>0, <2>2 DEF EffectRow, HashNamesEffect
  <2>4. h # None => OnRecord(h)
    BY <2>0, <2>3 DEF OnRecord
  <2>5. h # None => OnRecord(h)'
    BY <2>2, <2>3, <2>4 DEF OnRecord
  <2> QED
    BY <2>1, <2>3, <2>5 DEF Moves, Steps
<1>4. CASE SignAndPersist(w)
  <2>1. Stop(w) \/ (Goto(w, "broadcast", t) /\ Prepare(t.effect, t))
    BY <1>4, <1>p DEF SignAndPersist
  <2>2. t \in Hashes /\ t.effect \in Effects
    BY <1>4, <1>t DEF SignAndPersist, At
  <2>3. ASSUME Prepare(t.effect, t) PROVE OnRecord(t)'
    <3>1. effect' = [effect EXCEPT ![t.effect].state = "prepared",
                                   ![t.effect].hash = t]
      BY <2>3 DEF Prepare
    <3>2. effect'[t.effect].hash = t
      BY <3>1, <2>2, <1>e DEF EffectRow
    <3> QED
      BY <3>2 DEF OnRecord
  <2> QED
    BY <2>1, <2>2, <2>3 DEF Moves, Steps
<1>5. CASE BroadcastKnown(w)
  <2>1. Goto(w, "submitted", t) /\ worker[w].pc = "broadcast"
    BY <1>5, <1>p DEF BroadcastKnown, At
  <2> QED
    BY <2>1, <1>k DEF Moves, Steps
<1>6. CASE Submitted(w)
  <2>1. Stop(w) \/ Goto(w, "receipt", t)
    BY <1>6, <1>p DEF Submitted
  <2>2. worker[w].pc = "submitted"
    BY <1>6 DEF Submitted, At
  <2> QED
    BY <2>1, <2>2, <1>k DEF Moves, Steps
<1>7. CASE BroadcastThrows(w) \/ Reconciled(w) \/ Crash(w)
  BY <1>7 DEF BroadcastThrows, Reconciled, Crash, Moves
<1> QED
  BY <1>1, <1>2, <1>3, <1>4, <1>5, <1>6, <1>7 DEF WorkerNext

LEMMA WorkersStep ==
    ASSUME RecordInv, [LifecycleNext]_lifecycleVars
    PROVE  /\ worker' \in [Workers -> [pc : {"idle"}, tx : {None}]
                               \cup [pc : Steps \ {"idle"}, tx : Hashes]]
           /\ WorkersHoldRecord'
<1> DEFINE Memory == [pc : {"idle"}, tx : {None}]
                       \cup [pc : Steps \ {"idle"}, tx : Hashes]
<1>i. /\ TypeInv /\ LifecycleTypeOK /\ HashOnlyWhenPrepared /\ WorkersHoldRecord
      /\ worker \in [Workers -> Memory]
  BY DEF RecordInv, LifecycleTypeOK
<1>k. ASSUME NEW v \in Workers, NEW t, t = worker[v].tx,
             worker[v].pc \in {"broadcast", "submitted", "receipt"}
      PROVE  effect'[t.effect].hash = t
  <2>1. t \in Hashes /\ OnRecord(t) /\ [Next]_vars
    BY <1>i, <1>k, StepsLedger DEF WorkersHoldRecord
  <2>2. OnRecord(t)'
    BY <1>i, <2>1, RecordIsStable
  <2> QED
    BY <2>2 DEF OnRecord
<1>c. ASSUME NEW v \in Workers,
             worker'[v] = worker[v] \/ worker'[v].pc = "idle"
      PROVE  worker'[v].pc \in {"broadcast", "submitted", "receipt"}
             => effect'[worker'[v].tx.effect].hash = worker'[v].tx
  BY <1>c, <1>k
<1>1. ASSUME NEW w \in Workers, WorkerNext(w)
      PROVE  worker' \in [Workers -> Memory] /\ WorkersHoldRecord'
  <2>m. Moves(w)
    BY <1>1, WorkerMoves
  <2>1. CASE Stop(w)
    BY <2>1, <1>i, <1>c DEF Stop, Goto, WorkersHoldRecord, OnRecord
  <2>2. ASSUME NEW s \in Steps \ {"idle"}, NEW t \in Hashes, Goto(w, s, t),
               s \in {"broadcast", "submitted", "receipt"} => OnRecord(t)'
        PROVE  worker' \in [Workers -> Memory] /\ WorkersHoldRecord'
    <3>1. worker' \in [Workers -> Memory]
      BY <2>2, <1>i DEF Goto
    <3>2. /\ worker'[w] = [pc |-> s, tx |-> t]
          /\ \A v \in Workers \ {w} : worker'[v] = worker[v]
      BY <2>2, <1>i DEF Goto
    <3>3. s \in {"broadcast", "submitted", "receipt"}
            => effect'[t.effect].hash = t
      BY <2>2 DEF OnRecord
    <3> QED
      BY <3>1, <3>2, <3>3, <1>c DEF WorkersHoldRecord, OnRecord
  <2> QED
    BY <2>m, <2>1, <2>2 DEF Moves
<1>2. CASE UNCHANGED worker
  BY <1>2, <1>i, <1>c DEF WorkersHoldRecord, OnRecord
<1> QED
  BY <1>1, <1>2 DEF LifecycleNext, Mine, Evict, EnvironmentNext, lifecycleVars

LEMMA ChainType ==
    ASSUME LifecycleTypeOK, [LifecycleNext]_lifecycleVars
    PROVE  /\ nonce' \in 0..(MaxNonce + 1)
           /\ pool' \subseteq Hashes
           /\ mined' \subseteq Hashes
           /\ sent' \subseteq Hashes
<1>0. /\ nonce \in 0..(MaxNonce + 1) /\ MaxNonce \in Nat
      /\ pool \subseteq Hashes /\ mined \subseteq Hashes /\ sent \subseteq Hashes
  BY LifecycleAssumption DEF LifecycleTypeOK
<1>1. ASSUME NEW w \in Workers, BroadcastKnown(w) \/ BroadcastThrows(w)
      PROVE  /\ UNCHANGED <<nonce, mined>>
             /\ pool' \subseteq Hashes
             /\ sent' \subseteq Hashes
  <2>1. worker[w].tx \in Hashes
    BY <1>1 DEF LifecycleTypeOK, BroadcastKnown, BroadcastThrows, At
  <2> QED
    BY <1>0, <1>1, <2>1
       DEF BroadcastKnown, BroadcastThrows, Accept, chainVars
<1>2. ASSUME NEW w \in Workers, WorkerNext(w),
             ~ BroadcastKnown(w), ~ BroadcastThrows(w)
      PROVE  UNCHANGED chainVars
  BY <1>2 DEF WorkerNext, PrepareRequest, BeforeSign, Lookup, SignAndPersist,
     Submitted, Reconciled, Crash
<1>3. CASE Mine
  BY <1>0, <1>3 DEF Mine
<1>4. CASE Evict
  BY <1>0, <1>4 DEF Evict
<1>5. CASE UNCHANGED chainVars
  BY <1>0, <1>5 DEF chainVars
<1> QED
  BY <1>0, <1>1, <1>2, <1>3, <1>4, <1>5
     DEF LifecycleNext, EnvironmentNext, lifecycleVars

\* What the network is shown next is on record too.
LEMMA SentStep ==
    ASSUME RecordInv, [LifecycleNext]_lifecycleVars
    PROVE  SentOnRecord'
<1>i. /\ TypeInv /\ LifecycleTypeOK /\ HashOnlyWhenPrepared
      /\ WorkersHoldRecord /\ SentOnRecord /\ ChainFromSent
  BY DEF RecordInv
<1>1. ASSUME NEW t \in sent' PROVE t \in Hashes /\ OnRecord(t)
  BY <1>i, <1>1, NetworkStep
     DEF ShownStep, LifecycleTypeOK, WorkersHoldRecord, SentOnRecord
<1>2. ASSUME NEW t \in sent' PROVE OnRecord(t)'
  <2>1. PICK u : u = t
    OBVIOUS
  <2>2. u \in Hashes /\ OnRecord(u)
    BY <1>1, <2>1
  <2>3. OnRecord(u)'
    BY <1>i, <2>2, StepsLedger, RecordIsStable
  <2> QED
    BY <2>1, <2>3
<1> QED
  BY <1>2 DEF SentOnRecord

----------------------------------------------------------------------------
\* The inductive invariant.

LEMMA RecordInit == LifecycleInit => RecordInv
<1> SUFFICES ASSUME LifecycleInit PROVE RecordInv
  OBVIOUS
<1>1. TypeInv
  BY InitType DEF LifecycleInit
<1>2. LifecycleTypeOK
  BY LifecycleAssumption DEF LifecycleInit, LifecycleTypeOK
<1>3. HashOnlyWhenPrepared /\ HashNamesEffect /\ ReconciledIsPast
  BY DEF LifecycleInit, Init, LedgerInit, HashOnlyWhenPrepared,
     HashNamesEffect, ReconciledIsPast
<1>4. WorkersHoldRecord /\ SentOnRecord /\ ChainFromSent /\ MinedIsPast
  BY DEF LifecycleInit, WorkersHoldRecord, SentOnRecord, ChainFromSent,
     MinedIsPast
<1> QED
  BY <1>1, <1>2, <1>3, <1>4 DEF RecordInv

LEMMA RecordStep == RecordInv /\ [LifecycleNext]_lifecycleVars => RecordInv'
<1> SUFFICES ASSUME RecordInv, [LifecycleNext]_lifecycleVars PROVE RecordInv'
  OBVIOUS
<1>i. /\ TypeInv /\ LifecycleTypeOK /\ HashOnlyWhenPrepared /\ ChainFromSent
      /\ MinedIsPast
  BY DEF RecordInv
<1>1. TypeInv' /\ HashOnlyWhenPrepared'
  BY <1>i, StepsLedger, NextType, HashStep
<1>2. LifecycleTypeOK' /\ WorkersHoldRecord'
  BY <1>i, WorkersStep, ChainType DEF LifecycleTypeOK
<1>3. ChainFromSent' /\ MinedIsPast'
  BY <1>i, NetworkStep, NonceStep
<1>4. HashNamesEffect' /\ ReconciledIsPast'
  BY <1>i, NonceStep, LifecycleWrites, WritesKeepRecords
<1>5. SentOnRecord'
  BY SentStep
<1> QED
  BY <1>1, <1>2, <1>3, <1>4, <1>5 DEF RecordInv

LEMMA RecordHolds == LifecycleSpec => []RecordInv
BY RecordInit, RecordStep, PTL DEF LifecycleSpec

----------------------------------------------------------------------------
\* Every reachable state of workers and network is well typed.
THEOREM LifecycleTypeCorrect == LifecycleSpec => []LifecycleTypeOK
<1>1. RecordInv => LifecycleTypeOK
  BY DEF RecordInv
<1> QED
  BY <1>1, RecordHolds, PTL

\* Nothing is sent that is not on record and counted (wallet.ts:207-224,
\* effect-accounting:159-199).
THEOREM SentStaysOnRecord == LifecycleSpec => []SentIsOnRecord
<1>1. RecordInv => SentIsOnRecord
  <2> SUFFICES ASSUME RecordInv, NEW t \in sent
               PROVE  /\ effect[t.effect].hash = t
                      /\ effect[t.effect].state
                           \in {"prepared", "submitted", "reconciled"}
    BY DEF SentIsOnRecord
  <2>1. t \in Hashes /\ OnRecord(t) /\ HashOnlyWhenPrepared
    BY DEF RecordInv, LifecycleTypeOK, SentOnRecord
  <2>2. t # None /\ t.effect \in Effects
    BY <2>1, HashFields
  <2> QED
    BY <2>1, <2>2 DEF OnRecord, HashOnlyWhenPrepared
<1> QED
  BY <1>1, RecordHolds, PTL

\* No interleaving of workers, restarts and replays mines two transactions of
\* one effect (wallet.ts:182-224, 267:472).
THEOREM EffectsMinedOnce == LifecycleSpec => []MinedOnce
<1>1. RecordInv => MinedOnce
  BY DEF RecordInv, MinedOnce, ChainFromSent, SentOnRecord, OnRecord
<1> QED
  BY <1>1, RecordHolds, PTL

\* What a reconciled effect did on the chain is final: its transaction is in a
\* block already, or its nonce went to another one and it never will be
\* (wallet.ts:234-244, effect-accounting:210-229).
THEOREM ReconciledStaysSettled == LifecycleSpec => ReconciledIsSettled
<1> DEFINE Settled ==
      \A e \in Effects \ PaymentEffects :
        effect[e].state = "reconciled"
        => (effect[e].hash \in mined' <=> effect[e].hash \in mined)
<1>1. RecordInv /\ [LifecycleNext]_lifecycleVars => [Settled]_lifecycleVars
  <2> SUFFICES ASSUME RecordInv, [LifecycleNext]_lifecycleVars,
                      NEW e \in Effects \ PaymentEffects,
                      effect[e].state = "reconciled"
               PROVE  effect[e].hash \in mined' <=> effect[e].hash \in mined
    OBVIOUS
  <2>1. /\ LifecycleTypeOK /\ ChainFromSent /\ MinedIsPast /\ ReconciledIsPast
        /\ HashOnlyWhenPrepared /\ effect \in [Effects -> EffectRow]
    BY DEF RecordInv, TypeInv, LedgerTypeOK
  <2>2. effect[e].hash \in Hashes
    BY <2>1 DEF HashOnlyWhenPrepared, EffectRow
  <2>3. effect[e].hash.nonce < nonce /\ effect[e].hash.nonce \in Nat
    BY <2>1, <2>2, HashFields DEF ReconciledIsPast
  <2>4. mined \subseteq mined' /\ \A t \in mined' \ mined : t.nonce = nonce
    BY <2>1, NetworkStep, NonceStep
  <2> QED
    BY <2>3, <2>4
<1> QED
  BY <1>1, RecordHolds, PTL DEF LifecycleSpec, ReconciledIsSettled

----------------------------------------------------------------------------
\* Refinement of EffectOnce.

LEMMA OnceInit == LifecycleInit => Once!Init
BY DEF LifecycleInit, Once!Init

LEMMA OnceStep ==
    ASSUME RecordInv, [LifecycleNext]_lifecycleVars
    PROVE  \/ Once!Next
           \/ UNCHANGED [e \in Effects |-> {t \in sent : t.effect = e}]
<1>i. LifecycleTypeOK /\ ChainFromSent /\ SentOnRecord /\ WorkersHoldRecord
  BY DEF RecordInv
<1>1. CASE sent' = sent
  BY <1>1
<1>2. ASSUME NEW w \in Workers, NEW t, t = worker[w].tx,
             worker[w].pc = "broadcast", sent' = sent \cup {t}, t \notin sent
      PROVE  Once!Next
  <2>1. t \in Hashes /\ OnRecord(t)
    BY <1>2, <1>i DEF LifecycleTypeOK, WorkersHoldRecord
  <2>2. t.effect \in Effects
    BY <2>1, HashFields
  <2>3. \A u \in sent : u.effect # t.effect
    BY <1>i, <1>2, <2>1 DEF SentOnRecord, OnRecord
  <2>4. Once!Show(t.effect, t)
    BY <1>2, <2>2, <2>3 DEF Once!Show
  <2> QED
    BY <2>1, <2>2, <2>4 DEF Once!Next
<1>3. ShownStep
  BY <1>i, NetworkStep
<1>4. ASSUME NEW w \in Workers, worker[w].pc = "broadcast",
             sent' = sent \cup {worker[w].tx}
      PROVE  Once!Next \/ sent' = sent
  BY <1>2, <1>4
<1> QED
  BY <1>1, <1>3, <1>4 DEF ShownStep

\* The lifecycle implements EffectOnce: whatever the workers and the network
\* do, the network is shown at most one transaction of an effect.
THEOREM LifecycleImplementsOnce == LifecycleSpec => ImplementsEffectOnce
<1>1. RecordInv /\ [LifecycleNext]_lifecycleVars
      => [Once!Next]_([e \in Effects |-> {t \in sent : t.effect = e}])
  BY OnceStep
<1> QED
  BY <1>1, OnceInit, RecordHolds, PTL
     DEF LifecycleSpec, ImplementsEffectOnce, Once!Spec
=============================================================================
