----------------------------- MODULE EffectLedger -----------------------------
(***************************************************************************)
(* The effect ledger of one agent: agent_effect_reservations and           *)
(* agent_effect_usage_lines under reserve_agent_effect (migration 271),    *)
(* prepare, mark_submitted, reconcile and release (267) and                *)
(* settle_agent_nonchain_effect (268).  It decides, from live state, which *)
(* effects of a headless run may spend what, and records how far each got. *)
(*                                                                         *)
(* An element of Effects stands for one key (idempotency_key, action_id):  *)
(* the table has a unique index on it.  Every function is one transaction  *)
(* and reservations of an agent are serialised by an advisory lock, so     *)
(* each is one action here; now() is the start of the transaction, so a    *)
(* reservation that waited for the lock carries an older time.             *)
(***************************************************************************)
EXTENDS HeadlessAccess, FiniteSets

CONSTANTS
    Effects,          \* (idempotency_key, action_id) keys
    PaymentEffects,   \* those whose action is x402.payment
    Fingerprints,     \* candidate_fingerprint values
    Commands,         \* headless agent_commands rows
    TemplateOf,       \* command -> template of its requested run
    Buckets,          \* (category, asset, token) a usage line is counted in
    Amounts,          \* raw amounts a caller asks for
    Actuals,          \* raw amounts a receipt shows
    Hashes,           \* transaction hashes
    GrantedActions,   \* authorization -> effects whose action the policy lists
    GrantedTemplates, \* authorization -> templates of the policy ([] is all)
    GrantedBuckets,   \* authorization -> buckets the policy has limits for
    PerAction, PerRun, Rolling,   \* authorization -> bucket -> limit
    Day,              \* the rolling window, interval '24 hours'
    MaxLag            \* longest wait for the advisory lock

ASSUME LedgerAssumption ==
    /\ PaymentEffects \subseteq Effects
    /\ Amounts \subseteq Nat
    /\ Actuals \subseteq Nat
    /\ TemplateOf \in [Commands -> Templates]
    /\ GrantedActions \in [Authorizations -> SUBSET Effects]
    /\ GrantedTemplates \in [Authorizations -> SUBSET Templates]
    /\ GrantedBuckets \in [Authorizations -> SUBSET Buckets]
    /\ PerAction \in [Authorizations -> [Buckets -> Nat]]
    /\ PerRun \in [Authorizations -> [Buckets -> Nat]]
    /\ Rolling \in [Authorizations -> [Buckets -> Nat]]
    /\ Day \in Nat
    /\ MaxLag \in Nat
    /\ None \notin Fingerprints \cup Commands \cup Hashes

VARIABLES
    linked,           \* commands linked to their execution
    effect            \* key -> reservation row with its usage lines

ledgerVars == <<linked, effect>>
vars == <<accessVars, ledgerVars>>

EffectState ==
    {"absent", "reserved", "prepared", "submitted", "reconciled", "released"}

\* reserved[b] is the raw amount of the usage line in b, 0 where there is none;
\* charged[b] is COALESCE(actual_raw, reserved_raw) of the line in b.
EffectRow ==
    [state : EffectState,
     fingerprint : Fingerprints \cup {None},
     authorization : Authorizations \cup {None},
     command : Commands \cup {None},
     reserved : [Buckets -> Nat],
     charged : [Buckets -> Nat],
     createdAt : Nat,
     hash : Hashes \cup {None}]

NoLines == [b \in Buckets |-> 0]

LedgerTypeOK ==
    /\ linked \in SUBSET Commands
    /\ effect \in [Effects -> EffectRow]

LedgerInit ==
    /\ linked = {}
    /\ effect = [e \in Effects |->
            [state |-> "absent", fingerprint |-> None, authorization |-> None,
             command |-> None, reserved |-> NoLines, charged |-> NoLines,
             createdAt |-> 0, hash |-> None]]

----------------------------------------------------------------------------
\* Effects with a line that counts against budgets in b: those not released.
Counted(b) ==
    {e \in Effects : /\ effect[e].state \notin {"absent", "released"}
                     /\ effect[e].reserved[b] > 0}

\* SUM over the effects S of an amount of each: its units, a pair for each.
Units(amount, S) == UNION {{e} \X (1..amount[e]) : e \in S}
Total(amount, S) == Cardinality(Units(amount, S))

\* COALESCE(actual_raw, reserved_raw) of the lines in b.
Charges(b) == [e \in Effects |-> effect[e].charged[b]]

\* Slips: a run's finished effects are forgotten; the window leaves out its
\* first instant.
RunUsedUnfinished(c, b) ==
    Total(Charges(b), {e \in Counted(b) : /\ effect[e].command = c
                                          /\ effect[e].state # "reconciled"})

WindowUsedOpen(t, b) ==
    Total(Charges(b), {e \in Counted(b) : effect[e].createdAt > t - Day})

RunUsed(c, b) ==
    Total(Charges(b), {e \in Counted(b) : effect[e].command = c})

WindowUsed(t, b) ==
    Total(Charges(b), {e \in Counted(b) : effect[e].createdAt >= t - Day})

\* What a caller of reserve_agent_effect passes, and when its transaction began.
Requests ==
    [effect : Effects, authorization : Authorizations, command : Commands,
     fingerprint : Fingerprints,
     usage : [Buckets -> Amounts] \ {NoLines},
     began : {t \in 0..now : now - t <= MaxLag}]

\* The command is linked to its execution and its template is both in the
\* policy and still permitted to the agent.
RunAuthorized(r) ==
    /\ r.command \in linked
    /\ TemplateOf[r.command] \in GrantedTemplates[r.authorization] \cap permitted

Lines(r) == {b \in Buckets : r.usage[b] > 0}

\* A slip: only the running totals are checked.
WithinTotals(r) ==
    \A b \in Lines(r) :
        /\ RunUsed(r.command, b) + r.usage[b] <= PerRun[r.authorization][b]
        /\ WindowUsed(r.began, b) + r.usage[b] <= Rolling[r.authorization][b]

\* The three limits, per usage line.
WithinBudgets(r) ==
    \A b \in Lines(r) :
        /\ r.usage[b] <= PerAction[r.authorization][b]
        /\ RunUsed(r.command, b) + r.usage[b] <= PerRun[r.authorization][b]
        /\ WindowUsed(r.began, b) + r.usage[b] <= Rolling[r.authorization][b]

\* A slip: the authorization's state is trusted from when the run was admitted.
ReserveOutcomeUnread(r) ==
    IF effect[r.effect].state # "absent"
    THEN IF effect[r.effect].fingerprint # r.fingerprint THEN "conflict"
         ELSE "replayed"
    ELSE IF agentStatus # "ready" THEN "agent_unavailable"
    ELSE IF authorization[r.authorization].status \in {"absent", "draft"}
            \/ ~ RunAuthorized(r)
    THEN "authorization_unavailable"
    ELSE IF r.effect \notin GrantedActions[r.authorization] THEN "action_denied"
    ELSE IF ~ (Lines(r) \subseteq GrantedBuckets[r.authorization])
    THEN "category_denied"
    ELSE IF ~ WithinBudgets(r) THEN "budget_exceeded"
    ELSE "inserted"

\* The answer of reserve_agent_effect, in the order of its returns.  A key that
\* exists is answered before anything about the agent is read.
ReserveOutcome(r) ==
    IF effect[r.effect].state # "absent"
    THEN IF effect[r.effect].fingerprint # r.fingerprint THEN "conflict"
         ELSE "replayed"
    ELSE IF agentStatus # "ready" THEN "agent_unavailable"
    ELSE IF ~ LiveAt(r.authorization, r.began) \/ ~ RunAuthorized(r)
    THEN "authorization_unavailable"
    ELSE IF r.effect \notin GrantedActions[r.authorization] THEN "action_denied"
    ELSE IF ~ (Lines(r) \subseteq GrantedBuckets[r.authorization])
    THEN "category_denied"
    ELSE IF ~ WithinBudgets(r) THEN "budget_exceeded"
    ELSE "inserted"

\* reserve_agent_effect; every other outcome leaves the ledger as it was.
Reserve(r) ==
    /\ ReserveOutcome(r) = "inserted"
    /\ effect' = [effect EXCEPT ![r.effect] =
            [state |-> "reserved", fingerprint |-> r.fingerprint,
             authorization |-> r.authorization, command |-> r.command,
             reserved |-> r.usage, charged |-> r.usage,
             createdAt |-> r.began, hash |-> None]]
    /\ UNCHANGED <<accessVars, linked>>

\* prepare_agent_effect: the signed transaction and its hash are stored, once.
Prepare(e, h) ==
    /\ effect[e].state = "reserved"
    /\ effect' = [effect EXCEPT ![e].state = "prepared", ![e].hash = h]
    /\ UNCHANGED <<accessVars, linked>>

\* A slip: the hash alone is compared.
MarkSubmittedAnyState(e, h) ==
    /\ effect[e].hash = h
    /\ effect' = [effect EXCEPT ![e].state = "submitted"]
    /\ UNCHANGED <<accessVars, linked>>

\* mark_agent_effect_submitted.
MarkSubmitted(e, h) ==
    /\ effect[e].state \in {"prepared", "submitted"}
    /\ effect[e].hash = h
    /\ effect' = [effect EXCEPT ![e].state = "submitted"]
    /\ UNCHANGED <<accessVars, linked>>

\* reconcile_agent_effect: where the caller sent an actual amount (the gas line,
\* or none) it replaces what was charged so far.
Reconcile(e, actual) ==
    /\ effect[e].state \in {"prepared", "submitted", "reconciled"}
    /\ effect' = [effect EXCEPT
            ![e].state = "reconciled",
            ![e].charged = actual]
    /\ UNCHANGED <<accessVars, linked>>

\* Charges a receipt can leave: an actual amount replaces that of a line, if the
\* effect has it, and need not stay within what was reserved.  A hash read twice
\* has the same receipt.
Receipts(e) ==
    {effect[e].charged} \cup
    {[effect[e].charged EXCEPT ![b] = n] :
        b \in {x \in Buckets : /\ effect[e].state # "reconciled"
                               /\ effect[e].reserved[x] > 0},
        n \in Actuals}

\* release_agent_effect.
Release(e) ==
    /\ effect[e].state = "reserved"
    /\ effect' = [effect EXCEPT ![e].state = "released"]
    /\ UNCHANGED <<accessVars, linked>>

\* A slip: the outcome's own name is stored as the state.
SettlePaymentOutcome(e, settled) ==
    /\ e \in PaymentEffects
    /\ effect[e].state = "reserved"
    /\ effect' = [effect EXCEPT ![e].state =
                    IF settled THEN "settled" ELSE "failed"]
    /\ UNCHANGED <<accessVars, linked>>

\* settle_agent_nonchain_effect: a payment that was made, or was refused, goes
\* from reserved straight to its end.  charged already equals reserved.
SettlePayment(e, settled) ==
    /\ e \in PaymentEffects
    /\ effect[e].state = "reserved"
    /\ effect' = [effect EXCEPT ![e].state =
                    IF settled THEN "reconciled" ELSE "released"]
    /\ UNCHANGED <<accessVars, linked>>

\* link_agent_command_execution.
LinkExecution(c) ==
    /\ c \notin linked
    /\ linked' = linked \cup {c}
    /\ UNCHANGED <<accessVars, effect>>

LedgerNext ==
    \/ \E r \in Requests : Reserve(r)
    \/ \E e \in Effects \ PaymentEffects :
        \/ \E h \in Hashes : Prepare(e, h) \/ MarkSubmitted(e, h)
        \/ \E actual \in Receipts(e) : Reconcile(e, actual)
        \/ Release(e)
    \/ \E e \in PaymentEffects, settled \in BOOLEAN : SettlePayment(e, settled)
    \/ \E c \in Commands : LinkExecution(c)

Init == AccessInit /\ LedgerInit

Next ==
    \/ LedgerNext
    \/ AccessNext /\ UNCHANGED ledgerVars

Spec == Init /\ [][Next]_vars
----------------------------------------------------------------------------
\* Authorizations that granted some counted line of bucket b in the set S.
GrantorsOf(S) == {effect[e].authorization : e \in S}

\* What the lines in b are charged, as far as their reservations cover it.
Covered(b) ==
    [e \in Effects |->
        IF effect[e].charged[b] <= effect[e].reserved[b]
        THEN effect[e].charged[b] ELSE effect[e].reserved[b]]

\* A receipt may show more than was reserved (267:534, and 271:45 replays a
\* reservation for whatever gas is signed next), so the charges of a run do pass
\* its limit, but by no more than that: the part of the charges that the
\* reservations of its unreleased effects cover stays within the per-run limit.
\* The three readings of a budget, the insertion and the receipts and releases
\* of other effects interleave (271:120-189).  Where the run outlived its
\* authorization the largest limit among those used counts.
RunBudgetHolds ==
    \A c \in Commands, b \in Buckets :
        LET S == {e \in Counted(b) : effect[e].command = c}
        IN  S # {} => \E a \in GrantorsOf(S) :
                Total(Covered(b), S) <= PerRun[a][b]

\* The same in every window of one day, wherever it starts: what the effects
\* created in it are charged passes the rolling limit by no more than their
\* receipts took beyond their reservations, although a reservation looks back
\* only from its own start time and may have waited for the lock (271:166-189).
RollingBudgetHolds ==
    \A t \in 0..now, b \in Buckets :
        LET S == {e \in Counted(b) : effect[e].createdAt \in (t - Day)..t}
        IN  S # {} => \E a \in GrantorsOf(S) :
                Total(Covered(b), S) <= Rolling[a][b]

\* A transaction hash is on record exactly while a chain effect is past its
\* reservation; a released reservation and a payment never carry one, so
\* nothing released can be sent from the stored bytes (267:472, 267:554).
HashOnlyWhenPrepared ==
    \A e \in Effects :
        effect[e].hash # None <=>
            /\ e \notin PaymentEffects
            /\ effect[e].state \in {"prepared", "submitted", "reconciled"}

\* Every line on record is one its authorization granted, for an action it
\* granted, within the per-action limit, whatever replays and renewals came
\* between (271:110-189).
LinesWithinPolicy ==
    \A e \in Effects :
        effect[e].state # "absent" =>
            LET a == effect[e].authorization
            IN  /\ a \in Authorizations
                /\ e \in GrantedActions[a]
                /\ \A b \in Buckets : effect[e].reserved[b] > 0 =>
                        /\ b \in GrantedBuckets[a]
                        /\ effect[e].reserved[b] <= PerAction[a][b]

\* How far an effect got; both ends share the last rank.
Progress(s) ==
    CASE s = "absent" -> 0
      [] s = "reserved" -> 1
      [] s = "prepared" -> 2
      [] s = "submitted" -> 3
      [] s \in {"reconciled", "released"} -> 4

\* An effect only moves forward, both its ends are final, and what it was
\* reserved for and the hash it was prepared with never change: a replayed or
\* late call of any of the six functions cannot reopen or rebind it (267:472
\* to 267:570, 268:350, 271:40-50).
EffectsOnlyAdvance ==
    [][\A e \in Effects :
        /\ Progress(effect[e].state) <= Progress(effect'[e].state)
        /\ effect[e].state \in {"reconciled", "released"}
             => effect'[e].state = effect[e].state
        /\ effect[e].state # "absent" =>
             /\ effect'[e].fingerprint = effect[e].fingerprint
             /\ effect'[e].authorization = effect[e].authorization
             /\ effect'[e].command = effect[e].command
             /\ effect'[e].reserved = effect[e].reserved
        /\ effect[e].hash # None => effect'[e].hash = effect[e].hash]_vars

\* Once an authorization was superseded, revoked or expired, or the agent was
\* revoked, no later step adds an effect under it, however the reservation
\* and the revocation interleave (271:52-72).
EndedGrantReservesNothing ==
    [][\A a \in Authorizations :
        \/ authorization[a].status \in {"superseded", "revoked", "expired"}
        \/ agentStatus = "revoked"
        => {e \in Effects : effect'[e].authorization = a}
             \subseteq {e \in Effects : effect[e].authorization = a}]_vars
=============================================================================
