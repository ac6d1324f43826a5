------------------------- MODULE TransactionLifecycle -------------------------
(***************************************************************************)
(* Sending one ledger-tracked transaction: AgentWallet.sendTransaction     *)
(* (packages/agent-runner/src/wallet.ts) driving the headless              *)
(* TransactionLifecycle (reference/app-integration/effect-accounting) over *)
(* the effect ledger, by workers that run concurrently and may stop        *)
(* between any two calls, against an account on the chain.                 *)
(*                                                                         *)
(* A transaction is a record of the effect it carries out, its nonce and   *)
(* its gas maximum; the record stands for the hash, which is a function of *)
(* the signed content.                                                     *)
(***************************************************************************)
EXTENDS EffectLedger

CONSTANTS
    Workers,          \* processes able to sign for the agent
    MaxNonce,         \* bound on the account nonce
    Gas               \* the bucket of the gas line

ASSUME LifecycleAssumption ==
    /\ MaxNonce \in Nat
    /\ Gas \in Buckets
    /\ Hashes \subseteq [effect : Effects \ PaymentEffects,
                         nonce : 0..MaxNonce, gas : Amounts \ {0}]
    /\ \A b \in Buckets \ {Gas} : 0 \in Amounts   \* a bucket without a line

VARIABLES
    worker,           \* worker -> program counter and transaction in memory
    nonce,            \* transactions of the account that are mined
    pool,             \* transactions waiting in the mempool
    mined,            \* transactions in blocks
    sent              \* every transaction the network was ever shown

chainVars == <<nonce, pool, mined, sent>>
lifecycleVars == <<vars, worker, chainVars>>

Steps == {"idle", "beforeSign", "lookup", "sign", "broadcast", "submitted",
          "receipt"}

LifecycleTypeOK ==
    /\ worker \in [Workers -> [pc : {"idle"}, tx : {None}]
                            \cup [pc : Steps \ {"idle"}, tx : Hashes]]
    /\ nonce \in 0..(MaxNonce + 1)
    /\ pool \subseteq Hashes
    /\ mined \subseteq Hashes
    /\ sent \subseteq Hashes

LifecycleInit ==
    /\ Init
    /\ worker = [w \in Workers |-> [pc |-> "idle", tx |-> None]]
    /\ nonce = 0
    /\ pool = {}
    /\ mined = {}
    /\ sent = {}

At(w, step) == worker[w].pc = step

Goto(w, step, t) == worker' = [worker EXCEPT ![w] = [pc |-> step, tx |-> t]]

\* The call throws; nothing the worker held survives.
Stop(w) == Goto(w, "idle", None)

\* getTransactionCount at the pending block.
PendingNonce ==
    CHOOSE n \in nonce..(MaxNonce + 1) :
        /\ \A t \in pool : t.nonce # n
        /\ \A m \in nonce..(n - 1) : \E t \in pool : t.nonce = m

\* What beforeSign passes to reserve_agent_effect: a gas line of gas times
\* maxFeePerGas.
Reservation(t, a, c, fp, began) ==
    [effect |-> t.effect, authorization |-> a, command |-> c,
     fingerprint |-> fp, began |-> began,
     usage |-> [b \in Buckets |-> IF b = Gas THEN t.gas ELSE 0]]

----------------------------------------------------------------------------
\* prepareTransactionRequest: nonce and fees are read from the chain now, and
\* may differ from those of an earlier attempt at the same effect.
PrepareRequest(w) ==
    /\ At(w, "idle")
    /\ \E t \in Hashes :
        /\ t.nonce = PendingNonce
        /\ Goto(w, "beforeSign", t)
    /\ UNCHANGED <<vars, chainVars>>

\* beforeSign: a fresh or still unsigned reservation is signed for, a replay
\* of one that got further is looked up, any refusal throws.
BeforeSign(w) ==
    /\ At(w, "beforeSign")
    /\ \E a \in Authorizations, c \in Commands, fp \in Fingerprints,
          began \in {t \in 0..now : now - t <= MaxLag} :
        LET t == worker[w].tx
            r == Reservation(t, a, c, fp, began)
            outcome == ReserveOutcome(r)
        IN  \/ /\ outcome = "inserted"
               /\ Reserve(r)
               /\ Goto(w, "sign", t)
            \/ /\ outcome = "replayed"
               /\ Goto(w, IF effect[t.effect].state = "reserved"
                          THEN "sign" ELSE "lookup", t)
               /\ UNCHANGED vars
            \/ /\ outcome \notin {"inserted", "replayed"}
               /\ Stop(w)
               /\ UNCHANGED vars
    /\ UNCHANGED chainVars

\* Slips: a row without a hash is broadcast; a prepared effect is signed anew.
LookupUnchecked(w) ==
    /\ At(w, "lookup")
    /\ LET row == effect[worker[w].tx.effect]
       IN  Goto(w, "broadcast", row.hash)
    /\ UNCHANGED <<vars, chainVars>>

LookupOwn(w) ==
    /\ At(w, "lookup")
    /\ LET row == effect[worker[w].tx.effect]
       IN  IF row.hash = None THEN Stop(w)
           ELSE Goto(w, "broadcast", worker[w].tx)
    /\ UNCHANGED <<vars, chainVars>>

\* The second query of a replay.  A row without a hash (a released one) throws
\* EFFECT_REPLAY_UNAVAILABLE; a reconciled row has lost its signed bytes, so
\* only its hash is reported; otherwise the stored bytes are sent again.
Lookup(w) ==
    /\ At(w, "lookup")
    /\ LET row == effect[worker[w].tx.effect]
       IN  IF row.hash = None THEN Stop(w)
           ELSE Goto(w, IF row.state = "reconciled" THEN "submitted"
                        ELSE "broadcast", row.hash)
    /\ UNCHANGED <<vars, chainVars>>

\* A slip: the answer of prepare_agent_effect is not looked at.
SignWhateverPersisted(w) ==
    /\ At(w, "sign")
    /\ LET t == worker[w].tx
       IN  /\ IF effect[t.effect].state = "reserved"
              THEN Prepare(t.effect, t) ELSE UNCHANGED vars
           /\ Goto(w, "broadcast", t)
    /\ UNCHANGED chainVars

\* Sign and persistSigned.  When another attempt prepared the effect first the
\* function returns false and EFFECT_PREPARE_CONFLICT is thrown.
SignAndPersist(w) ==
    /\ At(w, "sign")
    /\ LET t == worker[w].tx
       IN  IF effect[t.effect].state = "reserved"
           THEN Prepare(t.effect, t) /\ Goto(w, "broadcast", t)
           ELSE Stop(w) /\ UNCHANGED vars
    /\ UNCHANGED chainVars

\* The network takes a transaction whose nonce is free, or one that outbids
\* the waiting transaction of the same nonce.
Acceptable(t) ==
    /\ t.nonce >= nonce
    /\ \A u \in pool : u.nonce = t.nonce => u.gas < t.gas

Accept(t) ==
    /\ pool' = {u \in pool : u.nonce # t.nonce} \cup {t}
    /\ sent' = sent \cup {t}
    /\ UNCHANGED <<nonce, mined>>

\* broadcastSigned: accepted, or refused because the network already has it.
BroadcastKnown(w) ==
    /\ At(w, "broadcast")
    /\ LET t == worker[w].tx
       IN  /\ \/ Acceptable(t) /\ Accept(t)
              \/ t \in pool \cup mined /\ UNCHANGED chainVars
           /\ Goto(w, "submitted", t)
    /\ UNCHANGED vars

\* broadcastSigned throws: the transaction was not taken, or it was and both
\* the answer and the lookup that follows got lost.
BroadcastThrows(w) ==
    /\ At(w, "broadcast")
    /\ LET t == worker[w].tx
       IN  \/ Acceptable(t) /\ Accept(t)
           \/ t \notin pool \cup mined /\ UNCHANGED chainVars
    /\ Stop(w)
    /\ UNCHANGED vars

\* lifecycle.submitted; a row that is already reconciled is refused with
\* EFFECT_SUBMIT_CONFLICT.
Submitted(w) ==
    /\ At(w, "submitted")
    /\ LET t == worker[w].tx
       IN  IF effect[t.effect].state \in {"prepared", "submitted"}
              /\ effect[t.effect].hash = t
           THEN MarkSubmitted(t.effect, t) /\ Goto(w, "receipt", t)
           ELSE Stop(w) /\ UNCHANGED vars
    /\ UNCHANGED chainVars

\* A slip: the receipt is not waited for.
ReconciledUnmined(w) ==
    /\ At(w, "receipt")
    /\ LET t == worker[w].tx
       IN  \E actual \in Receipts(t.effect) : Reconcile(t.effect, actual)
    /\ Stop(w)
    /\ UNCHANGED chainVars

\* waitForReceipt, then lifecycle.reconciled with the cost of the receipt.  The
\* receipt is that of the transaction mined at this nonce, a replacement's too:
\* viem reports it for the hash it replaced, and no caller compares the two.
Reconciled(w) ==
    /\ At(w, "receipt")
    /\ LET t == worker[w].tx
       IN  \E u \in mined, actual \in Receipts(t.effect) :
            /\ u.nonce = t.nonce
            /\ actual[Gas] <= u.gas
            /\ Reconcile(t.effect, actual)
    /\ Stop(w)
    /\ UNCHANGED chainVars

\* The process dies, or a call before or after its effect throws.
Crash(w) ==
    /\ ~ At(w, "idle")
    /\ Stop(w)
    /\ UNCHANGED <<vars, chainVars>>

Mine ==
    /\ nonce <= MaxNonce
    /\ \E t \in pool :
        /\ t.nonce = nonce
        /\ mined' = mined \cup {t}
        /\ pool' = {u \in pool : u.nonce # t.nonce}
    /\ nonce' = nonce + 1
    /\ UNCHANGED <<vars, worker, sent>>

\* A node may forget a waiting transaction.
Evict ==
    /\ \E t \in pool : pool' = pool \ {t}
    /\ UNCHANGED <<vars, worker, nonce, mined, sent>>

WorkerNext(w) ==
    \/ PrepareRequest(w) \/ BeforeSign(w) \/ Lookup(w) \/ SignAndPersist(w)
    \/ BroadcastKnown(w) \/ BroadcastThrows(w)
    \/ Submitted(w) \/ Reconciled(w) \/ Crash(w)

\* The rest of the service: grants, links and releases.
EnvironmentNext ==
    /\ \/ AccessNext /\ UNCHANGED ledgerVars
       \/ \E c \in Commands : LinkExecution(c)
       \/ \E e \in Effects \ PaymentEffects : Release(e)
    /\ UNCHANGED <<worker, chainVars>>

LifecycleNext ==
    \/ \E w \in Workers : WorkerNext(w)
    \/ Mine
    \/ Evict
    \/ EnvironmentNext

LifecycleSpec == LifecycleInit /\ [][LifecycleNext]_lifecycleVars

----------------------------------------------------------------------------
\* Everything the network was ever shown is the transaction on record for its
\* effect, which is counted in the budgets: nothing is sent that a restarted
\* worker could not find, and no reservation whose transaction may be out is
\* released (wallet.ts:207-224, effect-accounting:159-199).
SentIsOnRecord ==
    \A t \in sent :
        /\ effect[t.effect].hash = t
        /\ effect[t.effect].state \in {"prepared", "submitted", "reconciled"}

\* Two workers, restarts and replays together never put two transactions of
\* one effect on the chain, although each attempt prepares its own nonce and
\* fees (wallet.ts:182-224, 267:472).
MinedOnce ==
    \A t, u \in mined : t.effect = u.effect => t = u

\* An effect may be reconciled by the receipt of the transaction that replaced
\* its own (wallet.ts:234-244, run.ts:935-942), so that it need not have been
\* carried out at all; but once it is reconciled, whether its transaction is in
\* a block never changes: what the receipt gave back to the budget cannot be
\* spent a second time by a transaction that lands later.
ReconciledIsSettled ==
    [][\A e \in Effects \ PaymentEffects :
        effect[e].state = "reconciled"
        => (effect[e].hash \in mined' <=> effect[e].hash \in mined)]_lifecycleVars

\* The lifecycle implements EffectOnce: what the network has been shown of an
\* effect only ever goes from nothing to one transaction.
Once == INSTANCE EffectOnce WITH
    Transactions <- Hashes,
    shown <- [e \in Effects |-> {t \in sent : t.effect = e}]

ImplementsEffectOnce == Once!Spec
=============================================================================
