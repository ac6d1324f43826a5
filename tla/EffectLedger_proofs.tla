------------------------- MODULE EffectLedger_proofs -------------------------
(***************************************************************************)
(* Proofs about EffectLedger, for any effects, budgets and policies: its   *)
(* type invariant, what a stored hash and a usage line say, that effects   *)
(* only move forward, that an ended grant reserves nothing, and that the   *)
(* run budget and the rolling budget hold.                                 *)
(***************************************************************************)
EXTENDS EffectLedger, HeadlessAccess_proofs, FiniteSetTheorems

TypeInv == AccessTypeOK /\ LedgerTypeOK

\* A step of the ledger changes only the row of the effect it is about, and
\* grants and the clock not at all.
LEMMA LedgerFrame ==
    LedgerNext => UNCHANGED accessVars
BY DEF LedgerNext, Reserve, Prepare, MarkSubmitted, Reconcile, Release,
   SettlePayment, LinkExecution, accessVars

LEMMA ReceiptsAreCharges ==
    ASSUME LedgerTypeOK, NEW e \in Effects, NEW u \in Receipts(e)
    PROVE  /\ u \in [Buckets -> Nat]
           /\ effect[e].state = "reconciled" => u = effect[e].charged
<1>1. effect[e].charged \in [Buckets -> Nat]
  BY DEF LedgerTypeOK, EffectRow
<1>2. Actuals \subseteq Nat
  BY LedgerAssumption
<1>3. CASE u = effect[e].charged
  BY <1>1, <1>3
<1>4. ASSUME NEW b \in Buckets, NEW n \in Actuals,
             effect[e].state # "reconciled",
             u = [effect[e].charged EXCEPT ![b] = n]
      PROVE  u \in [Buckets -> Nat]
  BY <1>1, <1>2, <1>4
<1> QED
  BY <1>3, <1>4 DEF Receipts

\* What reserve_agent_effect writes.
NewRow(r) ==
    [state |-> "reserved", fingerprint |-> r.fingerprint,
     authorization |-> r.authorization, command |-> r.command,
     reserved |-> r.usage, charged |-> r.usage,
     createdAt |-> r.began, hash |-> None]

LEMMA NewRowType ==
    ASSUME AccessTypeOK, NEW r \in Requests
    PROVE  NewRow(r) \in EffectRow
<1>1. r.usage \in [Buckets -> Nat]
  BY LedgerAssumption DEF Requests
<1>2. r.began \in Nat
  BY DEF Requests
<1> QED
  BY <1>1, <1>2 DEF Requests, NewRow, EffectRow, EffectState

LEMMA ReserveWrites ==
    ASSUME NEW r \in Requests, Reserve(r)
    PROVE  effect' = [effect EXCEPT ![r.effect] = NewRow(r)]
BY DEF Reserve, NewRow

----------------------------------------------------------------------------
\* Type correctness.

LEMMA InitType == Init => TypeInv
<1>1. LedgerInit => LedgerTypeOK
  BY DEF LedgerInit, LedgerTypeOK, EffectRow, EffectState, NoLines
<1> QED
  BY <1>1, AccessInitType DEF Init, TypeInv

LEMMA RowType ==
    ASSUME LedgerTypeOK, NEW e \in Effects
    PROVE  effect[e] \in EffectRow
BY DEF LedgerTypeOK

LEMMA RowUpdateType ==
    ASSUME LedgerTypeOK, NEW e \in Effects, NEW row \in EffectRow,
           effect' = [effect EXCEPT ![e] = row], linked' = linked
    PROVE  LedgerTypeOK'
BY DEF LedgerTypeOK

LEMMA LedgerNextType == TypeInv /\ LedgerNext => LedgerTypeOK'
<1> SUFFICES ASSUME TypeInv, LedgerNext PROVE LedgerTypeOK'
  OBVIOUS
<1> USE DEF TypeInv, LedgerTypeOK
<1>1. ASSUME NEW r \in Requests, Reserve(r) PROVE LedgerTypeOK'
  <2>1. r.effect \in Effects
    BY DEF Requests
  <2>2. NewRow(r) \in EffectRow
    BY NewRowType
  <2> QED
    BY <1>1, <2>1, <2>2, ReserveWrites DEF Reserve
<1>2. ASSUME NEW e \in Effects, NEW h \in Hashes, Prepare(e, h)
      PROVE  LedgerTypeOK'
  <2> DEFINE row == [effect[e] EXCEPT !.state = "prepared", !.hash = h]
  <2>1. row \in EffectRow
    BY <1>2, RowType DEF Prepare, EffectRow, EffectState
  <2>2. effect' = [effect EXCEPT ![e] = row] /\ linked' = linked
    BY <1>2, RowType DEF Prepare
  <2> QED
    BY <2>1, <2>2, RowUpdateType
<1>3. ASSUME NEW e \in Effects, NEW h \in Hashes, MarkSubmitted(e, h)
      PROVE  LedgerTypeOK'
  <2> DEFINE row == [effect[e] EXCEPT !.state = "submitted"]
  <2>1. row \in EffectRow
    BY <1>3, RowType DEF MarkSubmitted, EffectRow, EffectState
  <2>2. effect' = [effect EXCEPT ![e] = row] /\ linked' = linked
    BY <1>3, RowType DEF MarkSubmitted
  <2> QED
    BY <2>1, <2>2, RowUpdateType
<1>4. ASSUME NEW e \in Effects, NEW u \in Receipts(e), Reconcile(e, u)
      PROVE  LedgerTypeOK'
  <2> DEFINE row == [effect[e] EXCEPT !.state = "reconciled", !.charged = u]
  <2>u. u \in [Buckets -> Nat]
    BY ReceiptsAreCharges
  <2>1. row \in EffectRow
    BY <1>4, <2>u, RowType DEF Reconcile, EffectRow, EffectState
  <2>2. effect' = [effect EXCEPT ![e] = row] /\ linked' = linked
    BY <1>4, RowType DEF Reconcile
  <2> QED
    BY <2>1, <2>2, RowUpdateType
<1>5. ASSUME NEW e \in Effects, Release(e)
      PROVE  LedgerTypeOK'
  <2> DEFINE row == [effect[e] EXCEPT !.state = "released"]
  <2>1. row \in EffectRow
    BY <1>5, RowType DEF Release, EffectRow, EffectState
  <2>2. effect' = [effect EXCEPT ![e] = row] /\ linked' = linked
    BY <1>5, RowType DEF Release
  <2> QED
    BY <2>1, <2>2, RowUpdateType
<1>6. ASSUME NEW e \in Effects, NEW s \in BOOLEAN, SettlePayment(e, s)
      PROVE  LedgerTypeOK'
  <2> DEFINE row == [effect[e] EXCEPT !.state = IF s THEN "reconciled" ELSE "released"]
  <2>1. row \in EffectRow
    BY <1>6, RowType DEF SettlePayment, EffectRow, EffectState
  <2>2. effect' = [effect EXCEPT ![e] = row] /\ linked' = linked
    BY <1>6, RowType DEF SettlePayment
  <2> QED
    BY <2>1, <2>2, RowUpdateType
<1>7. ASSUME NEW c \in Commands, LinkExecution(c) PROVE LedgerTypeOK'
  BY <1>7 DEF LinkExecution
<1> QED
  BY <1>1, <1>2, <1>3, <1>4, <1>5, <1>6, <1>7, LedgerAssumption DEF LedgerNext

LEMMA NextType == TypeInv /\ [Next]_vars => TypeInv'
<1> SUFFICES ASSUME TypeInv, [Next]_vars PROVE TypeInv'
  OBVIOUS
<1>1. CASE LedgerNext
  BY <1>1, LedgerFrame, LedgerNextType, AccessStutterType DEF TypeInv
<1>2. CASE AccessNext /\ UNCHANGED ledgerVars
  BY <1>2, AccessNextType DEF TypeInv, ledgerVars, LedgerTypeOK
<1>3. CASE UNCHANGED vars
  BY <1>3, AccessStutterType DEF TypeInv, vars, ledgerVars, LedgerTypeOK
<1> QED
  BY <1>1, <1>2, <1>3 DEF Next

\* Every reachable state of the ledger and its grants is well typed.
THEOREM TypeCorrect == Spec => [](AccessTypeOK /\ LedgerTypeOK)
<1> QED
  BY InitType, NextType, PTL DEF Spec, TypeInv

----------------------------------------------------------------------------
\* Hashes on record.

LEMMA HashStep ==
    TypeInv /\ HashOnlyWhenPrepared /\ [Next]_vars => HashOnlyWhenPrepared'
<1> SUFFICES ASSUME TypeInv, HashOnlyWhenPrepared, [Next]_vars
             PROVE  HashOnlyWhenPrepared'
  OBVIOUS
<1> USE DEF HashOnlyWhenPrepared
<1>t. effect \in [Effects -> EffectRow]
  BY DEF TypeInv, LedgerTypeOK
<1>n. None \notin Hashes
  BY LedgerAssumption
<1>1. ASSUME NEW r \in Requests, Reserve(r) PROVE HashOnlyWhenPrepared'
  <2>1. r.effect \in Effects
    BY DEF Requests
  <2>2. effect' = [effect EXCEPT ![r.effect] = NewRow(r)]
    BY <1>1, ReserveWrites
  <2> QED
    BY <1>t, <2>1, <2>2 DEF NewRow
<1>2. ASSUME NEW e \in Effects \ PaymentEffects, NEW h \in Hashes,
             Prepare(e, h) \/ MarkSubmitted(e, h)
      PROVE  HashOnlyWhenPrepared'
  <2>1. CASE Prepare(e, h)
    BY <2>1, <1>t, <1>n DEF Prepare, EffectRow
  <2>2. CASE MarkSubmitted(e, h)
    BY <2>2, <1>t, <1>n DEF MarkSubmitted, EffectRow
  <2> QED
    BY <1>2, <2>1, <2>2
<1>3. ASSUME NEW e \in Effects \ PaymentEffects, NEW u \in Receipts(e),
             Reconcile(e, u)
      PROVE  HashOnlyWhenPrepared'
  BY <1>3, <1>t DEF Reconcile, EffectRow
<1>4. ASSUME NEW e \in Effects \ PaymentEffects, Release(e)
      PROVE  HashOnlyWhenPrepared'
  BY <1>4, <1>t DEF Release, EffectRow
<1>5. ASSUME NEW e \in PaymentEffects, NEW s \in BOOLEAN, SettlePayment(e, s)
      PROVE  HashOnlyWhenPrepared'
  BY <1>5, <1>t, LedgerAssumption DEF SettlePayment, EffectRow
<1>6. CASE UNCHANGED effect
  BY <1>6
<1>7. ASSUME NEW c \in Commands, LinkExecution(c) PROVE HashOnlyWhenPrepared'
  BY <1>7 DEF LinkExecution
<1>8. CASE LedgerNext
  BY <1>8, <1>1, <1>2, <1>3, <1>4, <1>5, <1>7 DEF LedgerNext
<1> QED
  BY <1>6, <1>8 DEF Next, vars, ledgerVars

\* A stored hash marks exactly the chain effects past their reservation; what
\* was released, or paid off chain, has none (267:472, 267:554, 268:350).
THEOREM HashOnRecord == Spec => []HashOnlyWhenPrepared
<1>1. Init => HashOnlyWhenPrepared
  BY DEF Init, LedgerInit, HashOnlyWhenPrepared
<1> QED
  BY <1>1, InitType, NextType, HashStep, PTL DEF Spec

----------------------------------------------------------------------------
\* What the lines on record were checked against.

RowWithinPolicy(e, row) ==
    LET a == row.authorization
    IN  /\ a \in Authorizations
        /\ e \in GrantedActions[a]
        /\ \A b \in Buckets : row.reserved[b] > 0 =>
                /\ b \in GrantedBuckets[a]
                /\ row.reserved[b] <= PerAction[a][b]

\* No later write touches what LinesWithinPolicy reads, and none but Reserve
\* makes a row present.
KeepsTerms(old, new) ==
    /\ old.state # "absent"
    /\ new.authorization = old.authorization
    /\ new.reserved = old.reserved

LEMMA InsertedIsGranted ==
    ASSUME NEW r \in Requests, ReserveOutcome(r) = "inserted"
    PROVE  /\ r.effect \in GrantedActions[r.authorization]
           /\ Lines(r) \subseteq GrantedBuckets[r.authorization]
           /\ WithinBudgets(r)
           /\ effect[r.effect].state = "absent"
           /\ agentStatus = "ready"
           /\ LiveAt(r.authorization, r.began)
BY DEF ReserveOutcome

LEMMA LaterWritesKeepTerms ==
    ASSUME TypeInv, NEW e \in Effects,
           \/ \E h \in Hashes : Prepare(e, h) \/ MarkSubmitted(e, h)
           \/ \E u \in Receipts(e) : Reconcile(e, u)
           \/ Release(e)
           \/ \E s \in BOOLEAN : SettlePayment(e, s)
    PROVE  /\ KeepsTerms(effect[e], effect'[e])
           /\ \A d \in Effects : d # e => effect'[d] = effect[d]
<1>t. effect \in [Effects -> EffectRow]
  BY DEF TypeInv, LedgerTypeOK
<1> USE DEF KeepsTerms
<1>1. ASSUME NEW h \in Hashes, Prepare(e, h) \/ MarkSubmitted(e, h)
      PROVE  /\ KeepsTerms(effect[e], effect'[e])
             /\ \A d \in Effects : d # e => effect'[d] = effect[d]
  BY <1>1, <1>t DEF Prepare, MarkSubmitted, EffectRow
<1>2. ASSUME NEW u \in Receipts(e), Reconcile(e, u)
      PROVE  /\ KeepsTerms(effect[e], effect'[e])
             /\ \A d \in Effects : d # e => effect'[d] = effect[d]
  BY <1>2, <1>t DEF Reconcile, EffectRow
<1>3. ASSUME Release(e) \/ \E s \in BOOLEAN : SettlePayment(e, s)
      PROVE  /\ KeepsTerms(effect[e], effect'[e])
             /\ \A d \in Effects : d # e => effect'[d] = effect[d]
  BY <1>3, <1>t DEF Release, SettlePayment, EffectRow
<1> QED
  BY <1>1, <1>2, <1>3

LEMMA PolicyStep ==
    TypeInv /\ LinesWithinPolicy /\ [Next]_vars => LinesWithinPolicy'
<1> SUFFICES ASSUME TypeInv, LinesWithinPolicy, [Next]_vars
             PROVE  LinesWithinPolicy'
  OBVIOUS
<1>t. effect \in [Effects -> EffectRow]
  BY DEF TypeInv, LedgerTypeOK
<1>p. \A e \in Effects :
        effect[e].state # "absent" => RowWithinPolicy(e, effect[e])
  BY DEF LinesWithinPolicy, RowWithinPolicy
<1> SUFFICES \A e \in Effects :
        effect'[e].state # "absent" => RowWithinPolicy(e, effect'[e])
  BY DEF LinesWithinPolicy, RowWithinPolicy
<1>1. ASSUME NEW r \in Requests, Reserve(r), NEW e \in Effects,
             effect'[e].state # "absent"
      PROVE  RowWithinPolicy(e, effect'[e])
  <2>1. effect' = [effect EXCEPT ![r.effect] = NewRow(r)]
    BY <1>1, ReserveWrites
  <2>2. CASE e # r.effect
    BY <1>p, <1>t, <1>1, <2>1, <2>2 DEF Requests
  <2>3. CASE e = r.effect
    <3>1. effect'[e] = NewRow(r)
      BY <1>t, <2>1, <2>3
    <3>2. r.authorization \in Authorizations /\ r.usage \in [Buckets -> Amounts]
      BY DEF Requests
    <3>3. \A b \in Buckets : r.usage[b] > 0 =>
            /\ b \in GrantedBuckets[r.authorization]
            /\ r.usage[b] <= PerAction[r.authorization][b]
      BY <1>1, InsertedIsGranted DEF Reserve, Lines, WithinBudgets
    <3>4. e \in GrantedActions[r.authorization]
      BY <1>1, <2>3, InsertedIsGranted DEF Reserve
    <3> QED
      BY <3>1, <3>2, <3>3, <3>4 DEF NewRow, RowWithinPolicy
  <2> QED
    BY <2>2, <2>3
<1>2. ASSUME NEW f \in Effects, NEW e \in Effects,
             KeepsTerms(effect[f], effect'[f]),
             \A d \in Effects : d # f => effect'[d] = effect[d],
             effect'[e].state # "absent"
      PROVE  RowWithinPolicy(e, effect'[e])
  <2>1. CASE e = f
    BY <1>p, <1>2, <2>1 DEF KeepsTerms, RowWithinPolicy
  <2>2. CASE e # f
    BY <1>p, <1>2, <2>2
  <2> QED
    BY <2>1, <2>2
<1>3. CASE UNCHANGED effect
  BY <1>p, <1>3
<1>4. CASE LedgerNext
  <2>1. CASE \E r \in Requests : Reserve(r)
    BY <1>1, <2>1
  <2>2. CASE \E c \in Commands : LinkExecution(c)
    BY <1>3, <2>2 DEF LinkExecution
  <2>3. CASE ~ (\E r \in Requests : Reserve(r))
             /\ ~ (\E c \in Commands : LinkExecution(c))
    <3>1. PICK f \in Effects :
            \/ \E h \in Hashes : Prepare(f, h) \/ MarkSubmitted(f, h)
            \/ \E u \in Receipts(f) : Reconcile(f, u)
            \/ Release(f)
            \/ \E s \in BOOLEAN : SettlePayment(f, s)
      BY <1>4, <2>3, LedgerAssumption DEF LedgerNext
    <3>2. /\ KeepsTerms(effect[f], effect'[f])
          /\ \A d \in Effects : d # f => effect'[d] = effect[d]
      BY <3>1, LaterWritesKeepTerms
    <3> QED
      BY <1>2, <3>2
  <2> QED
    BY <2>1, <2>2, <2>3
<1> QED
  BY <1>3, <1>4 DEF Next, vars, ledgerVars

\* Every usage line on record was granted by the authorization it names, for
\* an action that authorization lists and within its per-action limit
\* (271:75-189).
THEOREM PolicyHolds == Spec => []LinesWithinPolicy
<1>1. Init => LinesWithinPolicy
  BY DEF Init, LedgerInit, LinesWithinPolicy
<1> QED
  BY <1>1, InitType, NextType, PolicyStep, PTL DEF Spec

----------------------------------------------------------------------------
\* Effects only move forward.

RowAdvances(old, new) ==
    /\ Progress(old.state) <= Progress(new.state)
    /\ old.state \in {"reconciled", "released"} => new.state = old.state
    /\ old.state # "absent" =>
         /\ new.fingerprint = old.fingerprint
         /\ new.authorization = old.authorization
         /\ new.command = old.command
         /\ new.reserved = old.reserved
    /\ old.hash # None => new.hash = old.hash

AllAdvance == \A e \in Effects : RowAdvances(effect[e], effect'[e])

LEMMA SameRowAdvances ==
    ASSUME NEW row \in EffectRow PROVE RowAdvances(row, row)
BY DEF RowAdvances, Progress, EffectRow, EffectState

LEMMA AdvanceStep ==
    TypeInv /\ HashOnlyWhenPrepared /\ [Next]_vars => AllAdvance
<1> SUFFICES ASSUME TypeInv, HashOnlyWhenPrepared, [Next]_vars
             PROVE  AllAdvance
  OBVIOUS
<1>t. effect \in [Effects -> EffectRow]
  BY DEF TypeInv, LedgerTypeOK
<1>s. \A e \in Effects : RowAdvances(effect[e], effect[e])
  BY <1>t, SameRowAdvances
<1>h. \A e \in Effects :
        effect[e].state \in {"absent", "reserved"} => effect[e].hash = None
  BY DEF HashOnlyWhenPrepared
<1> USE DEF AllAdvance
<1>1. ASSUME NEW r \in Requests, Reserve(r) PROVE AllAdvance
  <2>1. /\ effect' = [effect EXCEPT ![r.effect] = NewRow(r)]
        /\ effect[r.effect].state = "absent"
        /\ r.effect \in Effects
    BY <1>1, ReserveWrites, InsertedIsGranted DEF Reserve, Requests
  <2>2. RowAdvances(effect[r.effect], NewRow(r))
    BY <2>1, <1>h DEF RowAdvances, NewRow, Progress
  <2> QED
    BY <1>t, <1>s, <2>1, <2>2
<1>2. ASSUME NEW e \in Effects, NEW h \in Hashes, Prepare(e, h)
      PROVE  AllAdvance
  <2>1. RowAdvances(effect[e], effect'[e])
    BY <1>2, <1>t, <1>h DEF Prepare, RowAdvances, Progress, EffectRow
  <2> QED
    BY <1>2, <1>t, <1>s, <2>1 DEF Prepare
<1>3. ASSUME NEW e \in Effects, NEW h \in Hashes, MarkSubmitted(e, h)
      PROVE  AllAdvance
  <2>1. RowAdvances(effect[e], effect'[e])
    BY <1>3, <1>t DEF MarkSubmitted, RowAdvances, Progress, EffectRow
  <2> QED
    BY <1>3, <1>t, <1>s, <2>1 DEF MarkSubmitted
<1>4. ASSUME NEW e \in Effects, NEW u \in Receipts(e), Reconcile(e, u)
      PROVE  AllAdvance
  <2>1. RowAdvances(effect[e], effect'[e])
    BY <1>4, <1>t DEF Reconcile, RowAdvances, Progress, EffectRow
  <2> QED
    BY <1>4, <1>t, <1>s, <2>1 DEF Reconcile
<1>5. ASSUME NEW e \in Effects, Release(e) PROVE AllAdvance
  <2>1. RowAdvances(effect[e], effect'[e])
    BY <1>5, <1>t DEF Release, RowAdvances, Progress, EffectRow
  <2> QED
    BY <1>5, <1>t, <1>s, <2>1 DEF Release
<1>6. ASSUME NEW e \in Effects, NEW s \in BOOLEAN, SettlePayment(e, s)
      PROVE  AllAdvance
  <2>1. RowAdvances(effect[e], effect'[e])
    BY <1>6, <1>t DEF SettlePayment, RowAdvances, Progress, EffectRow
  <2> QED
    BY <1>6, <1>t, <1>s, <2>1 DEF SettlePayment
<1>7. CASE UNCHANGED effect
  BY <1>7, <1>s
<1>8. ASSUME NEW c \in Commands, LinkExecution(c) PROVE AllAdvance
  BY <1>7, <1>8 DEF LinkExecution
<1>9. CASE LedgerNext
  BY <1>9, <1>1, <1>2, <1>3, <1>4, <1>5, <1>6, <1>8, LedgerAssumption
     DEF LedgerNext
<1> QED
  BY <1>7, <1>9 DEF Next, vars, ledgerVars

\* No late, repeated or reordered call of the ledger's functions takes an
\* effect back, reopens it, or changes what it was reserved for or the hash it
\* was prepared with (267:472-570, 268:350, 271:40-50).
THEOREM EffectsAdvance == Spec => EffectsOnlyAdvance
<1>1. TypeInv /\ HashOnlyWhenPrepared /\ [Next]_vars => [AllAdvance]_vars
  BY AdvanceStep
<1>2. Init => HashOnlyWhenPrepared
  BY DEF Init, LedgerInit, HashOnlyWhenPrepared
<1> QED
  BY <1>1, <1>2, InitType, NextType, HashStep, PTL
     DEF Spec, EffectsOnlyAdvance, AllAdvance, RowAdvances

----------------------------------------------------------------------------
\* Ended grants.

EndedReservesNothing ==
    \A a \in Authorizations :
        \/ authorization[a].status \in {"superseded", "revoked", "expired"}
        \/ agentStatus = "revoked"
        => {e \in Effects : effect'[e].authorization = a}
             \subseteq {e \in Effects : effect[e].authorization = a}

LEMMA EndedStep == TypeInv /\ [Next]_vars => EndedReservesNothing
<1> SUFFICES ASSUME TypeInv, [Next]_vars PROVE EndedReservesNothing
  OBVIOUS
<1>t. effect \in [Effects -> EffectRow]
  BY DEF TypeInv, LedgerTypeOK
<1> USE DEF EndedReservesNothing
<1>1. ASSUME NEW r \in Requests, Reserve(r) PROVE EndedReservesNothing
  <2>1. /\ effect' = [effect EXCEPT ![r.effect] = NewRow(r)]
        /\ agentStatus = "ready"
        /\ authorization[r.authorization].status = "active"
        /\ r.effect \in Effects
    BY <1>1, ReserveWrites, InsertedIsGranted DEF Reserve, LiveAt, Requests
  <2>2. ASSUME NEW e \in Effects, e # r.effect PROVE effect'[e] = effect[e]
    BY <1>t, <2>1, <2>2
  <2>3. effect'[r.effect].authorization = r.authorization
    BY <1>t, <2>1 DEF NewRow
  <2> QED
    BY <2>1, <2>2, <2>3
<1>2. ASSUME NEW f \in Effects, KeepsTerms(effect[f], effect'[f]),
             \A d \in Effects : d # f => effect'[d] = effect[d]
      PROVE  EndedReservesNothing
  BY <1>2 DEF KeepsTerms
<1>3. CASE UNCHANGED effect
  BY <1>3
<1>4. CASE LedgerNext
  <2>1. CASE \E r \in Requests : Reserve(r)
    BY <1>1, <2>1
  <2>2. CASE \E c \in Commands : LinkExecution(c)
    BY <1>3, <2>2 DEF LinkExecution
  <2>3. CASE ~ (\E r \in Requests : Reserve(r))
             /\ ~ (\E c \in Commands : LinkExecution(c))
    <3>1. PICK f \in Effects :
            \/ \E h \in Hashes : Prepare(f, h) \/ MarkSubmitted(f, h)
            \/ \E u \in Receipts(f) : Reconcile(f, u)
            \/ Release(f)
            \/ \E s \in BOOLEAN : SettlePayment(f, s)
      BY <1>4, <2>3, LedgerAssumption DEF LedgerNext
    <3>2. /\ KeepsTerms(effect[f], effect'[f])
          /\ \A d \in Effects : d # f => effect'[d] = effect[d]
      BY <3>1, LaterWritesKeepTerms
    <3> QED
      BY <1>2, <3>2
  <2> QED
    BY <2>1, <2>2, <2>3
<1> QED
  BY <1>3, <1>4 DEF Next, vars, ledgerVars

\* From the moment an authorization or the agent is ended, nothing more is
\* reserved under it (271:52-72).
THEOREM EndedGrantIsInert == Spec => EndedGrantReservesNothing
<1>1. TypeInv /\ [Next]_vars => [EndedReservesNothing]_vars
  BY EndedStep
<1> QED
  BY <1>1, InitType, NextType, PTL
     DEF Spec, EndedGrantReservesNothing, EndedReservesNothing
----------------------------------------------------------------------------
\* Budgets.  A total on record may lose its newest effect to a release, and the
\* limits are those of the effects that remain; so the invariants speak of every
\* part of what a budget counts, which a release cannot add to.  They count what
\* the reservations cover: a receipt can raise a charge, but not that, because
\* until then the effect is charged all it reserved.

OfOneRun(S) == \A d, e \in S : effect[d].command = effect[e].command

InOneWindow(S) ==
    \A d, e \in S : effect[d].createdAt <= effect[e].createdAt + Day

WithinSome(S, b, Limit) ==
    \E a \in GrantorsOf(S) : Total(Covered(b), S) <= Limit[a][b]

FiniteUnits == \A b \in Buckets : IsFiniteSet(Units(Charges(b), Counted(b)))

\* The states before a receipt: an effect is then charged what it reserved.
Unsettled == {"reserved", "prepared", "submitted"}

ReservedInFull ==
    \A e \in Effects :
        effect[e].state \in Unsettled => effect[e].charged = effect[e].reserved

RunTotals ==
    \A b \in Buckets, S \in SUBSET Effects :
        S \subseteq Counted(b) /\ S # {} /\ OfOneRun(S) => WithinSome(S, b, PerRun)

WindowTotals ==
    \A b \in Buckets, S \in SUBSET Effects :
        S \subseteq Counted(b) /\ S # {} /\ InOneWindow(S)
            => WithinSome(S, b, Rolling)

BudgetInv == ReservedInFull /\ FiniteUnits /\ RunTotals /\ WindowTotals

\* Part of what is counted is finite, and charged no more than the whole.
LEMMA PartOfTotal ==
    ASSUME NEW amount, NEW T, IsFiniteSet(Units(amount, T)), NEW S \in SUBSET T
    PROVE  /\ IsFiniteSet(Units(amount, S))
           /\ Total(amount, S) <= Total(amount, T)
           /\ Total(amount, S) \in Nat
<1>1. Units(amount, S) \in SUBSET Units(amount, T)
  BY DEF Units
<1> QED
  BY <1>1, FS_Subset, FS_CardinalityType DEF Total

\* What reservations cover is part of what is charged.
LEMMA CoveredIsPart ==
    ASSUME TypeInv, NEW b \in Buckets, FiniteUnits, NEW S \in SUBSET Counted(b)
    PROVE  /\ IsFiniteSet(Units(Covered(b), S))
           /\ Total(Covered(b), S) <= Total(Charges(b), S)
           /\ Total(Covered(b), S) \in Nat
           /\ Total(Charges(b), S) \in Nat
<1>1. IsFiniteSet(Units(Charges(b), S)) /\ Total(Charges(b), S) \in Nat
  BY PartOfTotal DEF FiniteUnits
<1>2. Units(Covered(b), S) \in SUBSET Units(Charges(b), S)
  <2>1. ASSUME NEW e \in S PROVE 1..Covered(b)[e] \subseteq 1..Charges(b)[e]
    <3>1. e \in Effects
      BY DEF Counted
    <3>2. effect[e].charged[b] \in Nat /\ effect[e].reserved[b] \in Nat
      BY <3>1 DEF TypeInv, LedgerTypeOK, EffectRow
    <3> QED
      BY <3>1, <3>2 DEF Covered, Charges
  <2> QED
    BY <2>1 DEF Units
<1> QED
  BY <1>1, <1>2, FS_Subset, FS_CardinalityType DEF Total

\* The units of one row.
LEMMA UnitsOfOne ==
    ASSUME NEW e, NEW n \in Nat
    PROVE  /\ IsFiniteSet({e} \X (1..n))
           /\ Cardinality({e} \X (1..n)) = n
<1>1. IsFiniteSet({e}) /\ Cardinality({e}) = 1
  BY FS_Singleton
<1>2. IsFiniteSet(1..n) /\ Cardinality(1..n) = n
  BY FS_Interval
<1>3. /\ IsFiniteSet({e} \X (1..n))
      /\ Cardinality({e} \X (1..n)) = Cardinality({e}) * Cardinality(1..n)
  <2> DEFINE One == {e}
             Many == 1..n
  <2>1. IsFiniteSet(One) /\ IsFiniteSet(Many)
    BY <1>1, <1>2
  <2> HIDE DEF One, Many
  <2>2. /\ IsFiniteSet(One \X Many)
        /\ Cardinality(One \X Many) = Cardinality(One) * Cardinality(Many)
    BY <2>1, FS_Product
  <2> QED
    BY <2>2 DEF One, Many
<1> QED
  BY <1>1, <1>2, <1>3

\* What a reservation covers of its row's charge.
CoveredBy(row, b) ==
    IF row.charged[b] <= row.reserved[b] THEN row.charged[b] ELSE row.reserved[b]

\* What no write but Reserve does: count a row, cover more of its charge, or
\* touch what groups it with others.
KeepsLine(b, old, new) ==
    /\ new.state \notin {"absent", "released"}
         => old.state \notin {"absent", "released"}
    /\ new.authorization = old.authorization
    /\ new.command = old.command
    /\ new.createdAt = old.createdAt
    /\ new.reserved[b] = old.reserved[b]
    /\ CoveredBy(new, b) \in Nat
    /\ CoveredBy(new, b) <= CoveredBy(old, b)

\* Effects whose lines a step keeps were counted before it, in the same groups,
\* and their reservations cover no more.
LEMMA KeptTotals ==
    ASSUME TypeInv, NEW b \in Buckets, FiniteUnits, NEW S \in SUBSET Effects,
           \A e \in S : KeepsLine(b, effect[e], effect'[e]),
           S \subseteq Counted(b)'
    PROVE  /\ S \subseteq Counted(b)
           /\ GrantorsOf(S)' = GrantorsOf(S)
           /\ OfOneRun(S)' => OfOneRun(S)
           /\ InOneWindow(S)' => InOneWindow(S)
           /\ Total(Covered(b), S)' <= Total(Covered(b), S)
           /\ Total(Covered(b), S)' \in Nat
<1>1. S \subseteq Counted(b)
  BY DEF Counted, KeepsLine
<1>2. GrantorsOf(S)' = GrantorsOf(S)
  BY DEF GrantorsOf, KeepsLine
<1>3. OfOneRun(S)' => OfOneRun(S)
  BY DEF OfOneRun, KeepsLine
<1>4. InOneWindow(S)' => InOneWindow(S)
  BY DEF InOneWindow, KeepsLine
<1>5. IsFiniteSet(Units(Covered(b), S))
  BY <1>1, CoveredIsPart
<1>6. Units(Covered(b), S)' \in SUBSET Units(Covered(b), S)
  <2>1. ASSUME NEW e \in S
        PROVE  1..Covered(b)'[e] \subseteq 1..Covered(b)[e]
    <3>1. /\ Covered(b)[e] = CoveredBy(effect[e], b)
          /\ Covered(b)'[e] = CoveredBy(effect'[e], b)
      BY DEF Covered, CoveredBy
    <3>2. effect[e].charged[b] \in Nat /\ effect[e].reserved[b] \in Nat
      BY DEF TypeInv, LedgerTypeOK, EffectRow
    <3>3. CoveredBy(effect[e], b) \in Nat
      BY <3>2 DEF CoveredBy
    <3> QED
      BY <3>1, <3>3 DEF KeepsLine
  <2> QED
    BY <2>1 DEF Units
<1>7. /\ IsFiniteSet(Units(Covered(b), S)')
      /\ Cardinality(Units(Covered(b), S)') <= Cardinality(Units(Covered(b), S))
  BY <1>5, <1>6, FS_Subset
<1>8. Cardinality(Units(Covered(b), S)') \in Nat
  BY <1>7, FS_CardinalityType
<1> QED
  BY <1>1, <1>2, <1>3, <1>4, <1>7, <1>8 DEF Total

\* A limit that held before such a step holds after it.
LEMMA KeptWithin ==
    ASSUME TypeInv, NEW b \in Buckets, FiniteUnits, NEW S \in SUBSET Effects,
           \A e \in S : KeepsLine(b, effect[e], effect'[e]),
           S \subseteq Counted(b)', S # {},
           NEW Limit \in [Authorizations -> [Buckets -> Nat]],
           GrantorsOf(S) \subseteq Authorizations,
           WithinSome(S, b, Limit)
    PROVE  \E a \in GrantorsOf(S)' : Total(Covered(b), S)' <= Limit[a][b]
<1>1. PICK a \in GrantorsOf(S) : Total(Covered(b), S) <= Limit[a][b]
  BY DEF WithinSome
<1>2. /\ GrantorsOf(S)' = GrantorsOf(S)
      /\ Total(Covered(b), S)' <= Total(Covered(b), S)
      /\ Total(Covered(b), S)' \in Nat
      /\ S \subseteq Counted(b)
  BY KeptTotals
<1>3. Total(Covered(b), S) \in Nat
  BY <1>2, CoveredIsPart
<1>4. Limit[a][b] \in Nat
  BY <1>1
<1> QED
  BY <1>1, <1>2, <1>3, <1>4

LEMMA SameLineIsKept ==
    ASSUME NEW b \in Buckets, NEW row \in EffectRow
    PROVE  KeepsLine(b, row, row)
<1>1. row.charged[b] \in Nat /\ row.reserved[b] \in Nat
  BY DEF EffectRow
<1> QED
  BY <1>1 DEF KeepsLine, CoveredBy

LEMMA LaterWritesKeepLines ==
    ASSUME TypeInv, ReservedInFull, NEW b \in Buckets, NEW f \in Effects,
           \/ \E h \in Hashes : Prepare(f, h) \/ MarkSubmitted(f, h)
           \/ \E u \in Receipts(f) : Reconcile(f, u)
           \/ Release(f)
           \/ \E s \in BOOLEAN : SettlePayment(f, s)
    PROVE  \A e \in Effects : KeepsLine(b, effect[e], effect'[e])
<1> DEFINE old == effect[f]
<1>t. effect \in [Effects -> EffectRow]
  BY DEF TypeInv, LedgerTypeOK
<1>o. /\ old \in EffectRow
      /\ old.charged \in [Buckets -> Nat]
      /\ old.reserved \in [Buckets -> Nat]
      /\ old.charged[b] \in Nat /\ old.reserved[b] \in Nat
  BY <1>t DEF EffectRow
<1>s. \A e \in Effects : KeepsLine(b, effect[e], effect[e])
  BY <1>t, SameLineIsKept
<1>1. ASSUME NEW row, effect' = [effect EXCEPT ![f] = row], KeepsLine(b, old, row)
      PROVE  \A e \in Effects : KeepsLine(b, effect[e], effect'[e])
  BY <1>t, <1>s, <1>1
<1>2. ASSUME NEW h \in Hashes, Prepare(f, h)
      PROVE  \A e \in Effects : KeepsLine(b, effect[e], effect'[e])
  <2>1. KeepsLine(b, old, [old EXCEPT !.state = "prepared", !.hash = h])
    BY <1>2, <1>o DEF Prepare, EffectRow, KeepsLine, CoveredBy
  <2>2. effect' = [effect EXCEPT ![f] = [old EXCEPT !.state = "prepared", !.hash = h]]
    BY <1>2, <1>t DEF Prepare
  <2> QED
    BY <1>1, <2>1, <2>2
<1>3. ASSUME NEW h \in Hashes, MarkSubmitted(f, h)
      PROVE  \A e \in Effects : KeepsLine(b, effect[e], effect'[e])
  <2>1. KeepsLine(b, old, [old EXCEPT !.state = "submitted"])
    BY <1>3, <1>o DEF MarkSubmitted, EffectRow, KeepsLine, CoveredBy
  <2>2. effect' = [effect EXCEPT ![f] = [old EXCEPT !.state = "submitted"]]
    BY <1>3, <1>t DEF MarkSubmitted
  <2> QED
    BY <1>1, <2>1, <2>2
<1>4. ASSUME NEW u \in Receipts(f), Reconcile(f, u)
      PROVE  \A e \in Effects : KeepsLine(b, effect[e], effect'[e])
  <2>0. /\ u[b] \in Nat
        /\ old.state = "reconciled" => u = old.charged
        /\ old.state \in {"prepared", "submitted"} => old.charged = old.reserved
    BY ReceiptsAreCharges DEF TypeInv, ReservedInFull, Unsettled
  <2>1. CoveredBy([old EXCEPT !.state = "reconciled", !.charged = u], b)
          \in 0..CoveredBy(old, b)
    BY <1>4, <1>o, <2>0 DEF Reconcile, EffectRow, CoveredBy
  <2>2. KeepsLine(b, old, [old EXCEPT !.state = "reconciled", !.charged = u])
    <3>1. CoveredBy(old, b) \in Nat
      BY <1>o DEF CoveredBy
    <3> QED
      BY <1>4, <1>o, <2>1, <3>1 DEF Reconcile, EffectRow, KeepsLine
  <2>3. effect' = [effect EXCEPT ![f] =
                    [old EXCEPT !.state = "reconciled", !.charged = u]]
    BY <1>4, <1>t DEF Reconcile
  <2> QED
    BY <1>1, <2>2, <2>3
<1>5. ASSUME Release(f) \/ \E s \in BOOLEAN : SettlePayment(f, s)
      PROVE  \A e \in Effects : KeepsLine(b, effect[e], effect'[e])
  <2>1. PICK s \in {"reconciled", "released"} :
            effect' = [effect EXCEPT ![f] = [old EXCEPT !.state = s]]
    BY <1>5, <1>t DEF Release, SettlePayment
  <2>2. KeepsLine(b, old, [old EXCEPT !.state = s])
    BY <1>5, <1>o DEF Release, SettlePayment, EffectRow, KeepsLine, CoveredBy
  <2> QED
    BY <1>1, <2>1, <2>2
<1> QED
  BY <1>2, <1>3, <1>4, <1>5

\* A step either keeps the lines of a set of effects, or inserts one of them.
LEMMA PartStep ==
    ASSUME TypeInv, ReservedInFull, [Next]_vars, NEW b \in Buckets,
           NEW S \in SUBSET Effects
    PROVE  \/ \A e \in S : KeepsLine(b, effect[e], effect'[e])
           \/ \E r \in Requests : Reserve(r) /\ r.effect \in S
<1>t. effect \in [Effects -> EffectRow]
  BY DEF TypeInv, LedgerTypeOK
<1>s. \A e \in Effects : KeepsLine(b, effect[e], effect[e])
  BY <1>t, SameLineIsKept
<1>1. ASSUME NEW r \in Requests, Reserve(r), r.effect \notin S
      PROVE  \A e \in S : KeepsLine(b, effect[e], effect'[e])
  BY <1>t, <1>s, <1>1, ReserveWrites DEF Requests
<1>2. CASE UNCHANGED effect
  BY <1>s, <1>2
<1>3. CASE LedgerNext
  <2>1. CASE \E r \in Requests : Reserve(r)
    BY <1>1, <2>1
  <2>2. CASE \E c \in Commands : LinkExecution(c)
    BY <1>2, <2>2 DEF LinkExecution
  <2>3. CASE ~ (\E r \in Requests : Reserve(r))
             /\ ~ (\E c \in Commands : LinkExecution(c))
    <3>1. PICK f \in Effects :
            \/ \E h \in Hashes : Prepare(f, h) \/ MarkSubmitted(f, h)
            \/ \E u \in Receipts(f) : Reconcile(f, u)
            \/ Release(f)
            \/ \E s \in BOOLEAN : SettlePayment(f, s)
      BY <1>3, <2>3, LedgerAssumption DEF LedgerNext
    <3> QED
      BY <3>1, LaterWritesKeepLines
  <2> QED
    BY <2>1, <2>2, <2>3
<1> QED
  BY <1>2, <1>3 DEF Next, vars, ledgerVars

\* An insertion adds to what was covered the amount it was checked for.
LEMMA InsertedTotals ==
    ASSUME TypeInv, FiniteUnits, NEW b \in Buckets, NEW r \in Requests,
           Reserve(r), NEW S \in SUBSET Effects, r.effect \in S,
           S \subseteq Counted(b)'
    PROVE  LET T == S \ {r.effect}
           IN  /\ T \subseteq Counted(b)
               /\ \A e \in T : effect'[e] = effect[e]
               /\ effect'[r.effect] = NewRow(r)
               /\ b \in Lines(r)
               /\ Total(Covered(b), S)' \in Nat
               /\ Total(Covered(b), S)' <= Total(Covered(b), T) + r.usage[b]
<1> DEFINE T == S \ {r.effect}
           Own == {r.effect} \X (1..r.usage[b])
           Rest == Units(Covered(b), T)
<1>t. effect \in [Effects -> EffectRow]
  BY DEF TypeInv, LedgerTypeOK
<1>1. effect'[r.effect] = NewRow(r)
  BY <1>t, ReserveWrites
<1>2. \A e \in T : effect'[e] = effect[e]
  BY <1>t, ReserveWrites
<1>3. T \subseteq Counted(b)
  BY <1>2 DEF Counted
<1>4. r.usage[b] \in Nat
  BY LedgerAssumption DEF Requests
<1>5. b \in Lines(r)
  BY <1>1 DEF Counted, Lines, NewRow
<1>6. Units(Covered(b), S)' \in SUBSET (Rest \cup Own)
  <2>1. Covered(b)'[r.effect] = r.usage[b]
    BY <1>1, <1>4 DEF Covered, NewRow
  <2>2. \A e \in T : Covered(b)'[e] = Covered(b)[e]
    BY <1>2 DEF Covered
  <2> QED
    BY <2>1, <2>2 DEF Units
<1>7. IsFiniteSet(Rest)
  BY <1>3, CoveredIsPart
<1>8. IsFiniteSet(Own) /\ Cardinality(Own) = r.usage[b]
  BY <1>4, UnitsOfOne
<1>9. /\ Cardinality(Units(Covered(b), S)') \in Nat
      /\ Cardinality(Units(Covered(b), S)') <= Cardinality(Rest) + Cardinality(Own)
  <2> HIDE DEF T, Own, Rest
  <2>1. /\ IsFiniteSet(Rest \cup Own)
        /\ Cardinality(Rest \cup Own)
             = Cardinality(Rest) + Cardinality(Own) - Cardinality(Rest \cap Own)
    BY <1>7, <1>8, FS_Union
  <2>2. IsFiniteSet(Rest \cap Own)
    BY <1>8, FS_Subset
  <2>3. /\ Cardinality(Rest \cap Own) \in Nat
        /\ Cardinality(Rest) \in Nat
        /\ Cardinality(Own) \in Nat
        /\ Cardinality(Rest \cup Own) \in Nat
    BY <1>7, <1>8, <2>1, <2>2, FS_CardinalityType
  <2>4. /\ IsFiniteSet(Units(Covered(b), S)')
        /\ Cardinality(Units(Covered(b), S)') <= Cardinality(Rest \cup Own)
    BY <1>6, <2>1, FS_Subset
  <2>5. Cardinality(Units(Covered(b), S)') \in Nat
    BY <2>4, FS_CardinalityType
  <2> QED
    BY <2>1, <2>3, <2>4, <2>5
<1> QED
  BY <1>1, <1>2, <1>3, <1>5, <1>8, <1>9 DEF Total
\* Grantors are authorizations: LinesWithinPolicy says so of what is counted.
LEMMA GrantorsType ==
    ASSUME LinesWithinPolicy, NEW b \in Buckets, NEW S \in SUBSET Counted(b)
    PROVE  GrantorsOf(S) \subseteq Authorizations
BY DEF LinesWithinPolicy, Counted, GrantorsOf

\* What a write of row f keeps: the other rows, and of its own the amounts while
\* it stays unsettled; where it becomes so it is charged all it reserves.
WritesOnly(f) ==
    /\ \A e \in Effects \ {f} : effect'[e] = effect[e]
    /\ effect'[f].state \in Unsettled =>
         \/ effect'[f].charged = effect'[f].reserved
         \/ /\ effect[f].state \in Unsettled
            /\ effect'[f].charged = effect[f].charged
            /\ effect'[f].reserved = effect[f].reserved

LEMMA OneRowWritten ==
    ASSUME TypeInv, [Next]_vars
    PROVE  effect' = effect \/ \E f \in Effects : WritesOnly(f)
<1>t. effect \in [Effects -> EffectRow]
  BY DEF TypeInv, LedgerTypeOK
<1>1. ASSUME NEW r \in Requests, Reserve(r) PROVE \E f \in Effects : WritesOnly(f)
  <2>1. /\ effect' = [effect EXCEPT ![r.effect] = NewRow(r)]
        /\ effect[r.effect].state = "absent"
        /\ r.effect \in Effects
    BY <1>1, ReserveWrites, InsertedIsGranted DEF Reserve, Requests
  <2>2. WritesOnly(r.effect)
    BY <1>t, <2>1 DEF NewRow, WritesOnly, Unsettled
  <2> QED
    BY <2>1, <2>2
<1>2. ASSUME NEW f \in Effects,
             \/ \E h \in Hashes : Prepare(f, h) \/ MarkSubmitted(f, h)
             \/ \E u \in Receipts(f) : Reconcile(f, u)
             \/ Release(f)
             \/ \E s \in BOOLEAN : SettlePayment(f, s)
      PROVE  WritesOnly(f)
  <2>1. CASE \E h \in Hashes : Prepare(f, h) \/ MarkSubmitted(f, h)
    BY <2>1, <1>t DEF Prepare, MarkSubmitted, EffectRow, WritesOnly, Unsettled
  <2>2. CASE \E u \in Receipts(f) : Reconcile(f, u)
    BY <2>2, <1>t DEF Reconcile, EffectRow, WritesOnly, Unsettled
  <2>3. CASE Release(f) \/ \E s \in BOOLEAN : SettlePayment(f, s)
    BY <2>3, <1>t DEF Release, SettlePayment, EffectRow, WritesOnly,
       Unsettled
  <2> QED
    BY <1>2, <2>1, <2>2, <2>3
<1>3. CASE LedgerNext
  BY <1>3, <1>1, <1>2, LedgerAssumption DEF LedgerNext, LinkExecution
<1> QED
  BY <1>3 DEF Next, vars, ledgerVars

LEMMA FullStep == TypeInv /\ ReservedInFull /\ [Next]_vars => ReservedInFull'
BY OneRowWritten DEF ReservedInFull, WritesOnly, Unsettled

LEMMA FiniteStep == TypeInv /\ FiniteUnits /\ [Next]_vars => FiniteUnits'
<1> SUFFICES ASSUME TypeInv, FiniteUnits, [Next]_vars, NEW b \in Buckets
             PROVE  IsFiniteSet(Units(Charges(b), Counted(b))')
  BY DEF FiniteUnits
<1>f. IsFiniteSet(Units(Charges(b), Counted(b)))
  BY DEF FiniteUnits
<1>1. CASE effect' = effect
  BY <1>f, <1>1 DEF Units, Charges, Counted
<1>2. ASSUME NEW f \in Effects, \A e \in Effects \ {f} : effect'[e] = effect[e]
      PROVE  IsFiniteSet(Units(Charges(b), Counted(b))')
  <2> DEFINE Own == {f} \X (1..effect'[f].charged[b])
             Rest == Units(Charges(b), Counted(b))
  <2>1. effect'[f].charged[b] \in Nat
    <3>1. TypeInv'
      BY NextType
    <3> QED
      BY <3>1 DEF TypeInv, LedgerTypeOK, EffectRow
  <2>2. IsFiniteSet(Own)
    BY <2>1, UnitsOfOne
  <2>3. Units(Charges(b), Counted(b))' \in SUBSET (Rest \cup Own)
    BY <1>2 DEF Units, Charges, Counted
  <2>4. IsFiniteSet(Rest \cup Own)
    <3> HIDE DEF Rest, Own
    <3> QED
      BY <1>f, <2>2, FS_Union DEF Rest
  <2> QED
    BY <2>3, <2>4, FS_Subset
<1> QED
  BY <1>1, <1>2, OneRowWritten DEF WritesOnly

\* An effect inserted into a run: the other effects of the run were summed.
LEMMA RunTotalsStep ==
    TypeInv /\ LinesWithinPolicy /\ BudgetInv /\ [Next]_vars => RunTotals'
<1> SUFFICES ASSUME TypeInv, LinesWithinPolicy, BudgetInv, [Next]_vars,
                    NEW b \in Buckets, NEW S \in SUBSET Effects,
                    S \subseteq Counted(b)', S # {}, OfOneRun(S)'
             PROVE  \E a \in GrantorsOf(S)' : Total(Covered(b), S)' <= PerRun[a][b]
  BY DEF RunTotals, WithinSome
<1>1. CASE \A e \in S : KeepsLine(b, effect[e], effect'[e])
  <2>1. S \subseteq Counted(b) /\ OfOneRun(S)
    BY <1>1, KeptTotals DEF BudgetInv
  <2>2. WithinSome(S, b, PerRun)
    BY <2>1 DEF BudgetInv, RunTotals
  <2>3. GrantorsOf(S) \subseteq Authorizations
    BY <2>1, GrantorsType
  <2>4. PerRun \in [Authorizations -> [Buckets -> Nat]]
    BY LedgerAssumption
  <2> QED
    BY <1>1, <2>2, <2>3, <2>4, KeptWithin DEF BudgetInv
<1>2. ASSUME NEW r \in Requests, Reserve(r), r.effect \in S
      PROVE  \E a \in GrantorsOf(S)' : Total(Covered(b), S)' <= PerRun[a][b]
  <2> DEFINE T == S \ {r.effect}
             All == {e \in Counted(b) : effect[e].command = r.command}
  <2>1. /\ T \subseteq Counted(b)
        /\ \A e \in T : effect'[e] = effect[e]
        /\ effect'[r.effect] = NewRow(r)
        /\ b \in Lines(r)
        /\ Total(Covered(b), S)' \in Nat
        /\ Total(Covered(b), S)' <= Total(Covered(b), T) + r.usage[b]
    BY <1>2, InsertedTotals DEF BudgetInv
  <2>2. T \in SUBSET All
    BY <1>2, <2>1 DEF OfOneRun, NewRow
  <2>3. /\ Total(Covered(b), T) <= RunUsed(r.command, b)
        /\ Total(Covered(b), T) \in Nat
        /\ RunUsed(r.command, b) \in Nat
    <3>1. IsFiniteSet(Units(Charges(b), All)) /\ Total(Charges(b), All) \in Nat
      BY PartOfTotal DEF BudgetInv, FiniteUnits
    <3>2. Total(Charges(b), T) <= Total(Charges(b), All)
      BY <2>2, <3>1, PartOfTotal
    <3>3. /\ Total(Covered(b), T) <= Total(Charges(b), T)
          /\ Total(Covered(b), T) \in Nat /\ Total(Charges(b), T) \in Nat
      BY <2>1, CoveredIsPart DEF BudgetInv
    <3> QED
      BY <3>1, <3>2, <3>3 DEF RunUsed
  <2>4. RunUsed(r.command, b) + r.usage[b] <= PerRun[r.authorization][b]
    BY <1>2, <2>1, InsertedIsGranted DEF Reserve, WithinBudgets
  <2>5. r.authorization \in GrantorsOf(S)'
    BY <1>2, <2>1 DEF GrantorsOf, NewRow
  <2>6. r.usage[b] \in Nat /\ PerRun[r.authorization][b] \in Nat
    <3>1. r.usage[b] \in Nat /\ r.authorization \in Authorizations
      BY LedgerAssumption DEF Requests
    <3>2. PerRun \in [Authorizations -> [Buckets -> Nat]]
      BY LedgerAssumption
    <3> QED
      BY <3>1, <3>2
  <2>7. Total(Covered(b), S)' <= PerRun[r.authorization][b]
    BY <2>1, <2>3, <2>4, <2>6
  <2> QED
    BY <2>5, <2>7
<1> QED
  BY <1>1, <1>2, PartStep DEF BudgetInv

\* An effect inserted into a window: the others in it began no more than a day
\* before, and were summed.
LEMMA WindowTotalsStep ==
    TypeInv /\ LinesWithinPolicy /\ BudgetInv /\ [Next]_vars => WindowTotals'
<1> SUFFICES ASSUME TypeInv, LinesWithinPolicy, BudgetInv, [Next]_vars,
                    NEW b \in Buckets, NEW S \in SUBSET Effects,
                    S \subseteq Counted(b)', S # {}, InOneWindow(S)'
             PROVE  \E a \in GrantorsOf(S)' : Total(Covered(b), S)' <= Rolling[a][b]
  BY DEF WindowTotals, WithinSome
<1>1. CASE \A e \in S : KeepsLine(b, effect[e], effect'[e])
  <2>1. S \subseteq Counted(b) /\ InOneWindow(S)
    BY <1>1, KeptTotals DEF BudgetInv
  <2>2. WithinSome(S, b, Rolling)
    BY <2>1 DEF BudgetInv, WindowTotals
  <2>3. GrantorsOf(S) \subseteq Authorizations
    BY <2>1, GrantorsType
  <2>4. Rolling \in [Authorizations -> [Buckets -> Nat]]
    BY LedgerAssumption
  <2> QED
    BY <1>1, <2>2, <2>3, <2>4, KeptWithin DEF BudgetInv
<1>2. ASSUME NEW r \in Requests, Reserve(r), r.effect \in S
      PROVE  \E a \in GrantorsOf(S)' : Total(Covered(b), S)' <= Rolling[a][b]
  <2> DEFINE T == S \ {r.effect}
             All == {e \in Counted(b) : effect[e].createdAt >= r.began - Day}
  <2>1. /\ T \subseteq Counted(b)
        /\ \A e \in T : effect'[e] = effect[e]
        /\ effect'[r.effect] = NewRow(r)
        /\ b \in Lines(r)
        /\ Total(Covered(b), S)' \in Nat
        /\ Total(Covered(b), S)' <= Total(Covered(b), T) + r.usage[b]
    BY <1>2, InsertedTotals DEF BudgetInv
  <2>2. T \in SUBSET All
    <3>1. ASSUME NEW e \in T PROVE effect[e].createdAt >= r.began - Day
      <4>1. r.began <= effect[e].createdAt + Day
        BY <1>2, <2>1 DEF InOneWindow, NewRow
      <4>2. r.began \in Nat /\ effect[e].createdAt \in Nat /\ Day \in Nat
        BY LedgerAssumption DEF TypeInv, LedgerTypeOK, EffectRow, Requests
      <4> QED
        BY <4>1, <4>2
    <3> QED
      BY <2>1, <3>1
  <2>3. /\ Total(Covered(b), T) <= WindowUsed(r.began, b)
        /\ Total(Covered(b), T) \in Nat
        /\ WindowUsed(r.began, b) \in Nat
    <3>1. IsFiniteSet(Units(Charges(b), All)) /\ Total(Charges(b), All) \in Nat
      BY PartOfTotal DEF BudgetInv, FiniteUnits
    <3>2. Total(Charges(b), T) <= Total(Charges(b), All)
      BY <2>2, <3>1, PartOfTotal
    <3>3. /\ Total(Covered(b), T) <= Total(Charges(b), T)
          /\ Total(Covered(b), T) \in Nat /\ Total(Charges(b), T) \in Nat
      BY <2>1, CoveredIsPart DEF BudgetInv
    <3> QED
      BY <3>1, <3>2, <3>3 DEF WindowUsed
  <2>4. WindowUsed(r.began, b) + r.usage[b] <= Rolling[r.authorization][b]
    BY <1>2, <2>1, InsertedIsGranted DEF Reserve, WithinBudgets
  <2>5. r.authorization \in GrantorsOf(S)'
    BY <1>2, <2>1 DEF GrantorsOf, NewRow
  <2>6. r.usage[b] \in Nat /\ Rolling[r.authorization][b] \in Nat
    <3>1. r.usage[b] \in Nat /\ r.authorization \in Authorizations
      BY LedgerAssumption DEF Requests
    <3>2. Rolling \in [Authorizations -> [Buckets -> Nat]]
      BY LedgerAssumption
    <3> QED
      BY <3>1, <3>2
  <2>7. Total(Covered(b), S)' <= Rolling[r.authorization][b]
    BY <2>1, <2>3, <2>4, <2>6
  <2> QED
    BY <2>5, <2>7
<1> QED
  BY <1>1, <1>2, PartStep DEF BudgetInv

LEMMA BudgetInit == Init => BudgetInv
<1> SUFFICES ASSUME Init PROVE BudgetInv
  OBVIOUS
<1>1. \A b \in Buckets : Counted(b) = {}
  BY DEF Init, LedgerInit, Counted
<1>2. \A b \in Buckets : Units(Charges(b), Counted(b)) = {}
  BY <1>1 DEF Units
<1>3. ReservedInFull
  BY DEF Init, LedgerInit, ReservedInFull, Unsettled
<1> QED
  BY <1>1, <1>2, <1>3, FS_EmptySet
     DEF BudgetInv, FiniteUnits, RunTotals, WindowTotals

LEMMA BudgetStep ==
    TypeInv /\ LinesWithinPolicy /\ BudgetInv /\ [Next]_vars => BudgetInv'
BY FullStep, FiniteStep, RunTotalsStep, WindowTotalsStep DEF BudgetInv

\* The invariants give the budgets: a run's counted effects are one run, and
\* those created within a day of one instant are in one window.
LEMMA BudgetsHold ==
    TypeInv /\ BudgetInv => RunBudgetHolds /\ RollingBudgetHolds
<1> SUFFICES ASSUME TypeInv, BudgetInv PROVE RunBudgetHolds /\ RollingBudgetHolds
  OBVIOUS
<1>c. \A b \in Buckets : Counted(b) \subseteq Effects
  BY DEF Counted
<1>1. ASSUME NEW c \in Commands, NEW b \in Buckets
      PROVE  LET S == {e \in Counted(b) : effect[e].command = c}
             IN  S # {} => \E a \in GrantorsOf(S) : Total(Covered(b), S) <= PerRun[a][b]
  <2> DEFINE S == {e \in Counted(b) : effect[e].command = c}
  <2>1. S \in SUBSET Effects /\ S \subseteq Counted(b) /\ OfOneRun(S)
    BY <1>c DEF OfOneRun
  <2> QED
    BY <2>1 DEF BudgetInv, RunTotals, WithinSome
<1>2. ASSUME NEW t \in 0..now, NEW b \in Buckets
      PROVE  LET S == {e \in Counted(b) : effect[e].createdAt \in (t - Day)..t}
             IN  S # {} => \E a \in GrantorsOf(S) : Total(Covered(b), S) <= Rolling[a][b]
  <2> DEFINE S == {e \in Counted(b) : effect[e].createdAt \in (t - Day)..t}
  <2>1. Day \in Nat /\ t \in Int
    BY LedgerAssumption
  <2>2. \A e \in Effects : effect[e].createdAt \in Nat
    BY DEF TypeInv, LedgerTypeOK, EffectRow
  <2>3. S \in SUBSET Effects /\ S \subseteq Counted(b)
    BY <1>c
  <2>4. InOneWindow(S)
    BY <2>1, <2>2, <2>3 DEF InOneWindow
  <2> QED
    BY <2>3, <2>4 DEF BudgetInv, WindowTotals, WithinSome
<1> QED
  BY <1>1, <1>2 DEF RunBudgetHolds, RollingBudgetHolds

\* A receipt may take more than was reserved, so a run can be charged beyond its
\* limit; but what the reservations of its unreleased effects cover of the
\* charges stays within the per-run limit of an authorization that granted one
\* of them, in whatever order reservations, receipts and releases come
\* (271:156-189).
THEOREM RunBudgetKept == Spec => []RunBudgetHolds
<1>1. Init => LinesWithinPolicy
  BY DEF Init, LedgerInit, LinesWithinPolicy
<1> QED
  BY <1>1, InitType, NextType, PolicyStep, BudgetInit, BudgetStep, BudgetsHold,
     PTL DEF Spec

\* The same of the effects created within any one day and the rolling limit,
\* however long a reservation waited for its lock (271:166-189): a window is
\* charged beyond its limit only by what receipts took beyond reservations.
THEOREM RollingBudgetKept == Spec => []RollingBudgetHolds
<1>1. Init => LinesWithinPolicy
  BY DEF Init, LedgerInit, LinesWithinPolicy
<1> QED
  BY <1>1, InitType, NextType, PolicyStep, BudgetInit, BudgetStep, BudgetsHold,
     PTL DEF Spec
=============================================================================
