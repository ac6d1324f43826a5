# A TLA+ model of the Prove-to-Earn agent

This directory holds specifications of the agent subsystem of this repository:
who may act for an owner, what may be spent, how a transaction is sent, how a
quest run survives its workers, and how a paid request is answered once. TLC
checks them on small instances; TLAPS proves the most important of the
properties for every value of the constants.

Migrations are cited as `NNN:line`, short for
`reference/migrations/NNN_*.sql`; `effect-accounting` is
`reference/app-integration/effect-accounting.ts.reference`. Files of
`packages/agent-runner/src` and `packages/agent-gateway/src` are cited by their
names.

## 1. The system

An owner registers a hosted agent. Work for the agent arrives as *commands* (from
the chat or from a headless client), becomes an *execution* of one quest *run*,
and is carried out by a *worker*, which signs transactions with the agent's wallet
and calls the *gateway* over HTTP, paying for some calls by x402. All durable
state is in Postgres, behind SQL functions; the chain is the other place where
something irreversible happens.

```
owner ──sign──> HeadlessAccess ──live grant──> EffectLedger <──reserve/prepare/...── wallet
  │                                                                                    │
  └─decision──> command ──links──> execution row <──lease, checkpoint── worker ────────┤
                                                                          │            v
                                                     paid, idempotent requests       chain
                                                                          v
                                                        gateway ── quest engine (private)
```

| component | state | operations | what is hard | what makes it correct |
|---|---|---|---|---|
| Headless access (`auth/headless-authorization.ts`, 266, 268, 269) | authorizations, credentials, rotation challenges, template permissions | draft, activate, expire, rotate, revoke (two kinds), revoke the agent, edit permissions | functions under different advisory locks; a signed request sent twice; expiry between check and use | one live grant and credential; one credential per signature; what ended stays ended; revocation reaches credentials |
| Effect ledger (267, 268, 270, 271) | reservations with their usage lines, links of commands to executions | reserve, prepare, mark submitted, reconcile, release, settle a payment, link | concurrent reservations; replays; a grant that ends in the middle; `now()` of a transaction that waited for a lock | lines within the signed policy; run and rolling budgets, passed only by what receipts show; effects only advance; an ended grant is inert |
| Accounted transactions (`wallet.ts`, effect-accounting) | what a process holds between two calls; mempool and chain | prepare, reserve, sign and persist, broadcast, mark, receipt | crash between any two calls; the replay prepares its own nonce and fees; eviction, replacement | nothing is sent that is not on record; an effect is mined once; reconciled means settled |
| Run worker (`worker.ts`, `run.ts`, `candidates.ts`, `planner.ts`) | execution row with lease, version and journal; the worker's copy of them | acquire, read, recheck, settle, plan, prepare, send, record, receipt, close, finalize, checkpoint, give up; the owner's answers | zombie workers; checkpoints whose answer is lost; crash before or after a send; retries | no second transaction; everything sent is in the journal, and stays; a completed run has its key; delegated choices |
| Paid request (`paid-fetch.ts`, `session.ts`, `route-factory.ts`, `db/idempotency.ts`, `payments/*`) | request row with state, hash, token, lease and answer; payment reservations | call, quote, pay, peek, acquire, handle, mark, settle, complete, expire | overlapping callers of one key, lapsing leases, crash between effect and settlement | one answer; no charge without effect, no effect unpaid; charges behind reservations; eventually settled |
| Commands and decisions (`control/service.ts`, `routes/executions/owner.ts`, 260, 263, 268, 270, the Inngest job) | command row with status, version, pending decision; the execution it is linked to; events; each delivery's copy of the row | start, answer, select, cancel, link, run a cycle, continue, fail | CAS on a version from three sides; deliveries that overlap; an authorization asked for anew on each replay; steps that are run again; an event lost after the row was written; deduplicated events | a final command stays final; command and execution name each other; a question can be answered; what is under way ends or asks |
| World registration (`routes/agents/world.ts`, `vendor/agent-world/*`, 260) | attempts, AgentBook, the relay; the agent's world status, human and lifecycle version | session, skip, complete, claim, relay, submit, reconcile, confirm, fail, lapse | two tabs; a proof relayed twice; an answer of the relay that is lost; a late write over a newer status | one open attempt, relayed once; verified means registered; a registration that landed is recognised |
| Agent lifecycle (`routes/agents/provision.ts`, `manage.ts`, `db/agents.ts`, 260, 269) | agent row: status, wallet, policy, permissions, lifecycle version | create, provision, retry, attach the wallet, edit policy and permissions, revoke | read, await, write by version; a helper that reads the version anew after a conflict | a revoked agent stays so; no edit is undone by an overlapping one |
| Sessions and tokens (`auth/session.ts`, `actor-auth.ts`, `headless-session.ts`, `routes/session/*`, `routes/oauth/token.ts`) | single-use nonces; tokens, which are held by the callers | issue a nonce, log in, exchange a credential, resolve the caller of a request | token outliving its grant; the rows of one request read by several queries; a signed login sent twice | nobody is served who was cut off when the request arrived; one session per nonce |
| x402 discounts, AgentKit storage, rate limiters (`payments/*`, `vendor/*limiter.ts`) | counters and nonces in Redis | one atomic script each | failure of Redis; a use taken for a call that is then not charged | fail closed; no discount charged that was not counted |
| Routes over the quest engine (`routes/quests`, `tasks`, `reports`) | none; the engine is private | start, complete, claim, publish | replays under stable keys | covered from the caller's side |
| Candidates, planner, actions, approvals, balances | none durable | observe, select, encode | observation goes stale | covered where it decides who acts |
| Narration, history, MCP server, chat store, configuration, command line, contracts, subgraph, Uniswap and vendor mathematics | logs, tables of constants, pure functions | | | not modelled: I/O, formatting, pure arithmetic |

`PROJECT.json` lists each of these with its sources and its status.

## 2. Modules

| module | what it models | instance for TLC |
|---|---|---|
| `HeadlessAccess` | the grants of one agent | |
| `AgentRequests` | EXTENDS it with sessions, access tokens and the reads of each request | `MCHeadlessAccess` |
| `EffectLedger` | EXTENDS `HeadlessAccess` with the ledger, so that a reservation and a revocation interleave in one state machine | `MCEffectLedger` |
| `TransactionLifecycle` | EXTENDS that with workers, mempool and chain | `MCTransactionLifecycle` |
| `EffectOnce` | the abstract promise: the network is shown at most one transaction of an effect | refined by `TransactionLifecycle` |
| `CommandLifecycle` | commands, the execution they are linked to, the events and the job between them | `MCCommandLifecycle` |
| `RunWorker` | one run, its workers, its journal, the owner | `MCRunWorker` |
| `PaidRequest` | one idempotency key, client and gateway | `MCPaidRequest` |
| `AgentLifecycle` | the agent's row: provisioning, settings, revocation and World registration | `MCAgentLifecycle` |

`HeadlessAccess`, `AgentRequests`, `EffectLedger`, `TransactionLifecycle`, `AgentLifecycle`,
`CommandLifecycle`, `RunWorker` and `PaidRequest` each have a module `*_proofs` beside them with the theorems about them.

Operators under a comment that begins "A slip" are deliberately wrong variants of
the definition that follows them. They are not part of any specification; each
property is known to notice one of them (`PROJECT.json`, "mutants"), so that
none holds for want of a way to fail.

### HeadlessAccess

One agent: every function takes the agent's id and touches no other's rows. An
action is an SQL function, or the handler around it; `PROJECT.json` gives the
lines of each. Each SQL function is one transaction at READ COMMITTED. Functions
that hold one advisory lock exclude each other, not the functions that hold
another, so rotation is two steps, `RotateCheck` (its reads, 268:31-59) and
`RotateCommit` (its writes), with `RotateRollback` for a transaction that fails.
Signatures are abstracted to their effect: a challenge is consumed once. Time is
a counter, `Tick`; `expires_at > now()` is compared where the code compares it.

### AgentRequests

A login (`routes/session/create.ts`) loads its nonce, consumes it and issues a session
token; an exchange (`routes/oauth/token.ts`) reads the credential, then the authorization, and
issues an access token; a call arrives with a token and reads the rows that token
stands for, in the order of `resolveAgentActor` and `resolveHeadlessActor`. Each awaited query is
an action (`LoadChallenge`, `ConsumeChallenge`, `IssueSession`, `FindCredential`, `FindAuthorization`,
`IssueAccessToken`, `Read`), and every action of `HeadlessAccess` may come between two of them.
Queries made by one `Promise.all` (`unread`) come in any order. A call remembers in
`arrivedLive` whether all its token stands for was live when it arrived; the code
keeps no such thing, and no guard reads it.

### EffectLedger

`effect` maps an effect (an idempotency key with its action) to its row. The six
functions are actions; `ReserveOutcome` gives `reserve_agent_effect`'s answer in the
order of its returns, and only "inserted" writes. Transactions that waited for the
lock compare with the `now()` at which they began: a request has a time `began`
that may lag behind the clock by `MaxLag`. Usage lines are a function from
buckets (category, asset and token) to amounts, and 0 means no line. That a
client sends one line per bucket (effect-accounting:117-134) is assumed; so are
lines of nonzero amounts: a zero line takes part in nothing that is stated.
The principal lines of a swap are buckets like any other. A sum of charges is the number of units charged, a
pair of an effect and a number for each (`Units`, `Total`).

A receipt may show anything (`Receipts`, over the constant `Actuals`): `reconcile_agent_effect` stores the
actual amount it is given (267:534-544), and a replayed reservation is answered without comparing its lines
(271:41-46), so that what is signed then may have a higher gas than was reserved. The charges of a run, or of a
day, can therefore pass the limit. `RunBudgetHolds` and `RollingBudgetHolds` say how far: each charge counts as
far as its own reservation covers it (`Covered`), and these parts stay within the limit. What passes it
is no more than what receipts showed beyond their reservations.

### TransactionLifecycle

A worker's program counter follows `sendTransaction` (wallet.ts:182-224): prepare,
`beforeSign` (reserve, then look up what is on record), sign and persist,
broadcast, `submitted`, receipt and `reconciled`. A transaction is the record
`[effect, nonce, gas]` and stands for its hash. Every call may throw or be the
last the process makes (`Crash`). The mempool refuses a nonce that was mined and
a replacement that does not pay more, forgets what it likes (`Evict`), and the
chain mines in nonce order (`Mine`). Signing and persisting are one step
(`SignAndPersist`): what is signed and not persisted is in memory only, and is lost
with it.

The receipt need not be the effect's own. `waitForTransactionReceipt` answers with that of whatever was mined
in the transaction's place (wallet.ts:235), and its hash is compared with nothing (run.ts:935-942): `Reconciled` takes
the receipt of any mined transaction of the nonce, and its charge is any up to that transaction's gas, whatever
the line reserved. So `reconciled` does not mean that the effect happened. What it does mean is
`ReconciledIsSettled`: the nonce is spent, and whether the effect's transaction is mined never changes again, so
that the stored bytes may be erased. The chain does not reorganise, and one confirmation is final.

### CommandLifecycle

One agent. The job's concurrency limit (`limit: 1` for an agent) is one of steps that execute, not of
deliveries: while one delivery waits between two steps, another may begin. So `jobs` is a set of deliveries, each with its
own copy of the rows, and their steps interleave in any order. A row of
`agent_commands` and a row of `agent_run_executions` each carry a version; each SQL function that writes
them is one action. A caller's function and the event it sends afterwards are two
(`outbox`, then `Send` or `LoseSend`), as in `service.ts:211` and `owner.ts:80`. The job's `step.run` blocks
(`agentExecutionFunction` of the Inngest job) are one action each: `ResolveContinuation`, `Load`, `Refuse`,
`FailUnauthorized`, `Discover`, `Admit`, `Start`, `Cycle`, `Read`, `Link`, `Finish`. Between them the job
trusts its copy of the row and writes by comparing status and version (`Holds`,
`updateCommand`). What stands outside the blocks is run anew before each of them, from the results that are kept
of the blocks before: so is `loadActiveAuthorization`, and each later action has `~Denied(j)` in its guard
(`Proceeds`). A delivery that is denied expects the row as it was *loaded* (`loaded`, not `seen`), so after its own
first transition that failure is stale, and the command is left as it is. `StepLost` is a step whose commit was not heard: run again, it takes its own write
for somebody else's. `JobFails` and `OnFailure` are the job's end after its retries, `CycleLost` and
`CycleUnsaved` a worker's cycle whose outcome, or whose last checkpoint, is lost. An event's id is the
record of what it is about and a repeated id is dropped (`Accept`).

A cycle of the worker is one action with the outcomes `RunWorker` allows (`CycleResults`). `cut` remembers
which commands a fault separated from their events, and `overtaken` those whose execution another delivery
moved after theirs had counted on its version, for the two properties that cannot hold of those. No guard reads either. Left out: chat replies, the arithmetic of the admission, and the choice of a candidate by a
headless client, which no run ever offers (`run_choice`).

### RunWorker

The program counter follows one cycle of `AgentWorker.runOnce` around `runDailyQuest`:
`Acquire`, `ReadRun` (carried journal, settlement of what is confirmed), `StopUnsure`
(a send whose hash is unknown), `Recheck` (receipts of the journal's hashes),
`Settle`, `Plan`, `Prepare` (journal entry before the send), `Send`, `Submitted` (hash
into the journal), `Receipt`, `Close` (ask for the key), `Finish` (classify and
checkpoint), `Finalize`, `GiveUp`, and `Crash` at any step. A run that cannot be taken
from the list of today's is left (`LeaveRun`), one whose preflight finds a blocker stops
before it is entered (`PreflightBlockers` in `Plan`), and one that is close to its end
gives an unpaid reward up and is finalized (`FinalizeEarly`). `Answer` is the owner's
`resolve_agent_command_run_decision`. The journal of the next worker is the saved one, or after
the owner's "retry" what `Heard` leaves of it: each kept entry at the place that counts
the kept ones up to it, which is what a filter does.

The functions that lease and checkpoint an execution are not in the repository.
They are modelled from their callers (`worker.ts`, `vendor/quests/agent-execution.ts`):
a checkpoint is saved when token and version are the row's; its answer can be
lost; and a lease may lapse under a slow holder at any step, so another worker
may always acquire. Nothing stated depends on how long a lease lasts.

Left out: approvals and funding swaps, which are journalled the same way; tasks without
an executable action beside tasks that have one (a run with no action at all is left);
the search for candidates and the language model's choice (any choice is
allowed); the arithmetic of leases. `lastError` keeps only the codes something
later depends on (`KeptCodes`). The engine's answers to settlement and claims are
modelled as the worker sees them: done, refused, unreachable, or replayed from
the cached row of a handler that threw.

### PaidRequest

One idempotency key. A caller's program counter runs through `AgentSession.call`,
`paidFetch`, the route factory's outer and inner part and back; the gateway's
steps go on when the client is gone (`Lost`). `Peek` is the read outside the
paywall and the paywall; `Acquire` the lease inside it; `Handle` any outcome of a
handler (done, refused, failing for now, throwing with or without its effect);
`Mark` the fenced update; `Settle` x402's settlement after an answer below 400, which is made, or not, or
made with its answer lost (`doubtful`), for which the client is told 402 as well and releases its reservation (`paid-fetch.ts:363-377`, `409`);
`Complete` the last mark. The three functions `peek_`, `acquire_` and
`update_agent_request` are not in the repository either; they are modelled from
`db/idempotency.ts`, and where the callers leave open what a replay of a leased row is
given, both answers are allowed. An answer keeps the execution it came from, so
that two answers of two executions differ. Free and free-trial routes take the
path of a route without price.

A payment has two phases, the reduced price and the full one. `Discounted` is the client's
arithmetic and `Recoverable` the gateway's hook (`payments/x402.ts`), over the constants `FullPrice` and
`DiscountPercent`. A discount takes one use of the human's allowance before anything is settled
(`TryIncrementUsage`, `agentkit-storage.ts:36-60`), and a store that does not answer may have taken it. The
allowance a key starts with is any up to `DiscountUses`: what other requests of the human used is
gone, and 0 is also a gateway on which AgentKit could not be wired. The nonce of the identity header is the AgentKit
library's and is not modelled.

### AgentLifecycle

One agent row and its `agent_world_registrations`. A request of the owner (a "tab") is a
process with one step per await: it reads the row and its `lifecycle_version`, then writes by
comparing the version. The version itself is not in the model: `fresh` is the set of requests whose version is
still the row's, and each write empties it, which is all a comparison can tell.
`SetWorldState` with `ReloadVersion` is `callWithAgentLifecycleVersion`, which reads the version again after a
conflict and tries once more. Actions by route: `CreateAgent`, `ProvisionRead`, `ProvisionReset`,
`SendProvision`, `UndoProvision` (provision.ts); `PatchRead`, `PolicyWrite`, `PermissionsRead`, `PermissionsWrite`,
`RevokeRead`, `RevokeWrite` (manage.ts); `SkipRead`, `SessionRead`, `SessionLookup`, `SessionNonce`, `SessionStart`,
`CompleteRead`, `CompleteCheck`, `Claim`, `Relay`, `Submit`, `ReloadForSubmit`, `Notify`, `Resend`, `AskAgain`,
`Fail` (world.ts). The jobs are `AttachWallet` and `Confirm`; `Lapse` is an attempt's deadline and `Lands` the
registration's transaction on the chain. A request may die at any step (`RequestDies`) and each call to
AgentBook, the relay or the queue may fail.

## 3. Runs

| run | question | instance | distinct states |
|---|---|---|---|
| `headless_access` | one live grant and credential; one credential per signature; no ended grant revived; nobody served who was cut off; one session per nonce | 2 authorizations and credentials, 1 challenge, 1 nonce with 2 logins, 1 exchange, 1 call; clock to 2 | 3.28 million |
| `access_race` | does a revocation end the credential? **No** | 2 challenges, clock to 3, no requests | |
| `effect_ledger` | lines within policy; run and rolling budgets, passed only by receipts; effects only advance, ended grants inert | 2 chain effects and a payment, 2 runs, 2 authorizations of different policy, lag 1, receipts up to twice a line, clock to 2 | 1.39 million |
| `transaction_lifecycle` | sent is on record, mined once, reconciled is settled, refines `EffectOnce` | 2 workers, 2 effects, 2 nonces, 2 gas prices | 860 thousand |
| `command_lifecycle` | final stays final; the links agree; a question can be answered; under way ends or asks | 2 commands, 1 run, 1 continuation; 2 answers, or 1 with a fault or with an overlapping delivery, or a revocation while deliveries overlap | 1.66 million |
| `run_worker` | one live send, journal before send, hashes kept, completed has its key | 2 workers, 1 task, 2 sends, 1 answer | 2.85 million |
| `run_choice` | does a delegated client choose before funds are used? **No**, for two reasons | the same, delegated | |
| `run_completion` | is a completed run's key real? **No** | as `run_worker` | |
| `paid_request` | one answer, paid for an effect, charges behind reservations unless reported as failed, eventually settled | 2 callers, 2 bodies, 2 faults, up to 1 discount | 883 thousand |
| `paid_charges` | is one effect charged once? **No** | the same | |
| `claim_recovery` | is a claim recovered by claiming again? **No** | 1 caller whose body changes, 1 fault | |
| `agent_lifecycle` | one open attempt, relayed once; verified is registered; no edit, human or revocation undone; a registration that landed is recognised | 2 requests at a time, 2 attempts, budgets below | 755 thousand |

The bounds and why they do:

- *Two of each actor.* Every property is about what one actor does while, or
  after, another did; the second worker also stands for each later one, since an idle
  worker keeps nothing. `MaxSends = 2` lets a second transaction happen, which is what
  `OneLiveSend` rules out; `MaxAnswers = 1` gives the owner one permission to redo and
  shows that it permits exactly one. Two commands on one run let the second meet
  the link of the first.
- *Clock.* In `headless_access` drafts, challenges, tokens and the first authorization end
  within the clock's two steps and the nonce after one. In `effect_ledger` the rolling window is
  `Day = 1`, so a line can be inside, at the edge of, and outside the window, and a
  reservation may be one step late.
- *Two policies.* In `effect_ledger` the first authorization grants the payment only and
  the second every action but not the payment's bucket; each refusal (authorization, action,
  bucket, amount) is reached. A budget of 1 (2 for the payment) is passed by the second
  effect of amount 1 when it is added without care. `Actuals = {0, 2}` has a receipt below and one above a line of 1. A conflict of fingerprints writes nothing and needs no second one.
- *Time in `transaction_lifecycle`* stands still (`MaxTime = 0`): expiry in the middle of a
  transaction is the subject of `effect_ledger`, where the same actions run with
  a clock; revocation stays possible. The gas price varies at nonce 0 only, where a
  replacement is decided by it. The proofs below have neither bound.
- *Budgets.* `AgentLifecycle` and `CommandLifecycle` start with one of several budgets for what is not
  the normal course (`MCBudgets`): settings changes, skips and revocations, failing calls, deaths, attempts; answers,
  faults, revocations, overlapping deliveries. Each mix lets one hazard meet another. All of them at once would be a much larger
  instance, and a mix that is not listed (a fault with a revocation of a command's authorization, or an answer with one, say) is
  covered by the proofs only, which are about any budget. `overlaps` counts the deliveries that begin while another is
  under way, so one of them gives two at a time, the second possibly of another command.
- *`MaxFaults = 2`* in `PaidRequest` counts lost calls, crashes, refused payments, throwing handlers and lost
  marks alike. Two suffice for a fault and another one in its recovery. With
  no bound nothing could be promised about progress. `DiscountUses = 1`: one caller gets the discount, another, or the
  same one in a later call, finds it used up.
- *`MaxCycles = 1`* stands for `MAX_EXECUTION_CONTINUATIONS`: one continuation and then the end.
- *Symmetry* is used on workers, effects, runs, credentials and logins, in runs without liveness whose
  properties treat them alike.
- `CHECK_DEADLOCK FALSE` where the bounds on time, sends, answers or budgets end the behaviour,
  and where an agent that is revoked, a command that ended or a run that completed really has nothing left to do.
  `PaidRequest` checks for deadlock: a client can always call again.

Fairness is assumed for three liveness properties.

- `KeptRetryingSettles` (`FairPaidSpec`): clients keep calling and a call is carried on
  unless a fault ends it, and the lease of a holder that is gone lapses. The worker
  justifies the first, since it puts a run with a retryable failure back for another
  attempt without limit; the lease's 300 seconds (`idempotency.ts:116`) justify the second.
- `LandedIsRecognised` (`FairAgentSpec`): a request that was received is served (weak fairness of
  `Serve`), and the owner of an agent that is ready asks for verification again and again (strong
  fairness of `SessionRead`, because a request that conflicts has to be made anew). Nothing is assumed
  of the queue, the jobs or the chain: the property says that asking is enough.
- `DecidedOrDone` (`CommandFairness`): Inngest delivers what it accepted, runs a step of some delivery as long as
  there is one that can be run, and calls `onFailure`; a sender that does not die sends. Nobody has to ask, answer
  or cancel. That is less than a promise to each delivery, and enough, since each takes finitely many steps.

Losses, crashes and faults are never fair. Nothing of liveness is claimed of the other
modules: a dropped transaction may stay dropped.

## 4. What the violated runs show

Each is a statement the repository makes and the code does not keep.

- `run_choice`: "The external client must choose one current candidate before funds are used"
  (`run.ts:883`). The choice is not offered: a delegated run blocked with `EXTERNAL_DECISION_REQUIRED` is
  classified as retryable, so its decision frame is dropped (`run.ts:881`, `worker.ts:121-153`, `590-620`).
  And it is not waited for: where the first observation has no candidate, the planner is run
  without a selection and may act on a candidate that appeared since (`run.ts:878-916`), outside the ledger.
- `run_completion`: a handler that threw leaves a failed row without a body, which replays as
  `{ok: true, data: null}`; a run is then reported completed without a key (`route-factory.ts:89-97`, `235`).
- `access_race`: rotation and revocation hold different locks, and a rotation that
  passed its check commits an active credential after the revocation (268:31, 266:290).
- `paid_charges`: the lease is cleared when the effect is committed, before x402 settles; two
  calls of one key in that interval are both charged (`route-factory.ts:256-265`).
- `claim_recovery`: the claim's key is stable and its body is signed anew each time, so once
  a row exists that did not end well every later claim is a conflict (`run.ts:1499`).

`PaidForEffect` and `ChargesAreReserved` say what does hold of payments: a charge always has its
effect on record, and a client with reservations is charged once per phase, with its reservation unless it was told
that the settlement failed.
`CompletedHasKey` says that a throwing handler is the only way to a completion
without a key.

## 5. Proofs

All theorems are about the specifications above, for any number of
authorizations, credentials, effects, workers, nonces, amounts, requests, attempts, commands, runs, tasks,
callers and prices, with any clock, any budget and any number of faults. They assume the named `ASSUME`s of the modules and nothing
else: types of the constants, that `None` is none of the identifiers, that a hash
belongs to a chain effect and has positive gas, and that there are finitely many workers and
callers (`IsFiniteSet`), of which some are counted.

- `HeadlessAccess_proofs`. `AccessTypeCorrect`; `OneGrantAtATime` (`SingleGrant`), inductive with the type
  invariant: only `Activate` and `RotateCommit` make something active, and each ends what was active in the same
  step; `EndedGrantsAreFinal` (`EndedGrantsStayEnded`), an action property from the type invariant.
  `OneMintPerChallenge` (`OneCredentialPerSignature`) needs `MintInv`: a rotation that passed its check holds an open
  challenge, and the challenge that minted a credential is consumed.
- `AgentRequests_proofs`. `RequestsTypeCorrect`. `OneSession` (`OneSessionPerNonce`): a nonce a login has spent is
  consumed, and a login past its first query has one (`LoginInv`). `RevocationIsFelt` (`ServedWasLive`): what a token stands
  for only goes down, for a revoked agent, an ended authorization and a revoked credential stay so
  (`GrantsNeverRise`), so a request that arrived too late always has one row left to read that
  refuses it (`LateReadsDown`, in `CallInv`), in whichever order it reads them.
- `EffectLedger_proofs`. `TypeCorrect`, `HashOnRecord`, `PolicyHolds`, `EffectsAdvance`, `EndedGrantIsInert`. Two lemmas carry them:
  what a reservation inserts satisfies the policy (`InsertedIsGranted`), and every
  later write keeps the row's terms (`LaterWritesKeepTerms`).
  `RunBudgetKept` and `RollingBudgetKept` (`RunBudgetHolds`, `RollingBudgetHolds`) are not inductive as they stand: a release may
  take away the effect whose authorization had the larger limit, and what remains must be within the limits of those that
  remain. The strengthening speaks of every part of what a budget counts, which a release cannot add to:

  `BudgetInv == ReservedInFull /\ FiniteUnits /\ RunTotals /\ WindowTotals`

  Of each set of counted effects of one run, and each whose creation times lie within a day of one another, the covered part
  of the charges is no more than some limit of its own grantors. Every step keeps the lines of such a set or inserts one of its
  effects (`PartStep`). Kept lines cover no more than before (`KeptTotals`): until its receipt an effect is
  charged what it reserved (`ReservedInFull`), which no covered part exceeds whatever the receipt shows. An insertion adds its amount to effects
  that the sums it was checked against had counted, and those sums are of charges, of which the covered parts are parts
  (`CoveredIsPart`, `InsertedTotals`). The lag of the lock does not matter, because the window
  has no upper end. A sum is the number of units charged (`Total`, a cardinality), so its laws are those of finite
  sets. That the units on record are finitely many is part of the invariant, not an assumption on `Effects`.
- `TransactionLifecycle_proofs`. `MinedOnce` is not inductive: nothing in it says
  where a mined transaction came from. The strengthening is

  `RecordInv == TypeInv /\ LifecycleTypeOK /\ HashOnlyWhenPrepared /\ HashNamesEffect /\ WorkersHoldRecord /\ SentOnRecord /\ ChainFromSent /\ MinedIsPast /\ ReconciledIsPast`

  A worker past `sign` holds exactly the transaction on record for its effect
  (`WorkersHoldRecord`), because `prepare_agent_effect` accepts one hash and a replay takes the
  stored one; so whatever is sent is on record (`SentOnRecord`), and since a hash on record
  never changes (`RecordIsStable`) and pool and chain hold only what was sent
  (`ChainFromSent`), two mined transactions of an effect are both *the* one on record.
  From it follow `LifecycleTypeCorrect`, `SentStaysOnRecord`, `EffectsMinedOnce`, and
  `LifecycleImplementsOnce`: under the mapping that takes `shown[e]` to the transactions of `e` ever sent, each step is a
  `Show` or a stutter. `ReconciledStaysSettled` (`ReconciledIsSettled`) is an action property: the nonce of a reconciled
  transaction is behind the account's (`ReconciledIsPast`), because something with that nonce was mined (`MinedIsPast`),
  and the chain mines only at the account's nonce.
- `AgentLifecycle_proofs`. `AgentTypeCorrect`. `RevocationIsFinal` and `HumanStays`: every write of the row has
  the guard that keeps them (`EveryWriteSettles`). `EditsKept` (`EditsAreKept`) from `SeenIsCurrent`: while a request
  that is about to write the policy still has the row's version, it has seen the row's
  settings; a write empties `fresh` and a request that reads the version anew has no
  policy to write. `OneOpen` (`OneOpenAttempt`): an attempt is opened only when all others are closed in the same step
  (`AttemptMoves`). `RelayOnce` (`RelayedOnce`) from `RelayInv`: a request at the relay holds an attempt that is claimed, was not relayed
  and is nobody else's. `VerifiedRegistered` (`VerifiedIsRegistered`) from `VerifiedInv`: a request that is about to set
  "verified" has seen AgentBook's entry, which does not go away.
- `CommandLifecycle_proofs`. `CommandTypeCorrect`, `LinksAlwaysAgree` (`LinksAgree`), `FinalIsFinal` (`FinalStaysFinal`), `QuestionStaysOpen` (`QuestionIsOpen`). The invariant of the first three is

  `CommandInv == CommandTypeOK /\ EventsNamed /\ Addressed /\ JobsKnow /\ JobsCopy /\ Selecting /\ LinksAgree`

  `JobsCopy` relates the copy of each delivery to the row: the row's version is at least the copy's, and when they are equal the
  row has the run the copy has. With it a transition that passes the comparison of status
  and version writes an active row and moves no linked command to another run. `RowMoves` says what one
  step may do to a row, and `LinksKept` that an execution keeps the command it got; the two together carry `LinksAgree`.

  `QuestionIsOpen` needs more, because the cycle that asks, the link, the read of the execution and the question on the
  command are steps of their own: `AskInv == CommandInv /\ JobsLink /\ FoundAsks /\ QuestionIsOpen`. A delivery that saw its
  command linked works on a linked one (`JobsLink`), and one that is about to put the question it has read works on a
  command whose execution still asks, as long as the row is at the status and version it knows (`FoundAsks`). An execution goes on asking
  unless its own command is answered with it, which moves the command's version, or the commands
  on its run are cut off (`QuestionsKept`); and nobody but a delivery that holds the row writes such a question (`RowMoves`). All of it is said of each delivery
  there is, and `JobMoves` of what any step does to each of them, so that their number does not matter.
- `RunWorker_proofs`. `RunTypeCorrect`; `NoTaskIsSentTwice` (`OneLiveSend`), `EverySendIsJournaled` (`SentIsJournaled`),
  `HashesAreKept` (`JournalKeepsHashes`), `CompletionHasItsKey` (`CompletedHasKey`). The invariant is

  `RunInv == RunTypeOK /\ RowOK /\ MemoriesOK /\ ReportsOK /\ CompletedHasKey`

  Its centre is a count. `Owed[t]` is the number of the task's transactions that are out or landed and of workers about to
  send one, less those the owner waived. A journal *accounts for* it when at least as many of its entries stand
  for a transaction that may be out: entries still "broadcasting", and those with a hash that has not reverted. Every journal that can become the row's
  accounts for it and keeps each live hash of the saved one (`Keeps`): the saved journal as the next worker takes it
  up, and both copies of a worker whose version is the row's. Of a worker that lost the lease
  nothing is asked, for its checkpoint is refused. `Prepare` adds an entry only to a journal with none that counts, so `Owed` was not above 0 and becomes at most 1, which
  is `OneLiveSend`; the entry is saved before the send, which is `SentIsJournaled`; and "retry"
  drops from the journal (`Heard`) exactly the entries that `Answer` adds to `waived`.
- `PaidRequest_proofs`. `PaidTypeCorrect`; `AnswersAlwaysAgree` (`AnswersAgree`), `EffectsArePaidFor` (`PaidForEffect`),
  `ChargesAlwaysReserved` (`ChargesAreReserved`), and two that no run states: `ExecutionsAreBounded`, that the handler is executed
  at most once and once more for each fault, and `RecordedAnswersStay`, an action property: an answer on record is
  never replaced. The invariant is

  `PaidInv == RequestTypeOK /\ RowOK /\ CallsOK /\ PaymentsOK /\ DiscountsCounted /\ ExecutionsCounted /\` the three properties.

  A call in the handler whose token is the row's holds an open request with its own body (`HoldsOpen`), so that what it writes is
  the answer to that body; a call on its way out with a 200 carries what the row has (`CallOK`). Beyond the paywall of a
  priced route each call has a payment (`PaymentOK`), and a reserved phase is in the hands of one call (`PhaseOK`), because a
  reservation is made once; it is released after a charge only where the phase is `doubtful`. The discounts charged and those still to be charged are at most those counted
  (`DiscountsCounted`). The bound on executions counts those made, those under way and, where the
  request is free to be taken up, the next one (`ExecutionsCounted`).

Every safety invariant and action property of a passing run has a theorem. Only model-checked: the three liveness
properties, since liveness under fairness and ENABLED are beyond this prover, and the runs that expect a violation.

## 6. Not modelled

- *Registration of self-hosted agents* (`routes/register/create.ts`, `grant.ts`): rows of their own without a version, written by one call each.
- *Candidates, planner, admission, approvals, balances, actions*: what they decide is a free choice in `RunWorker!Plan` and
  `CommandLifecycle!Admit`. The sums of the admission and the encoding of calls are data no property tells apart.
- *A headless client's choice of a candidate*: no execution is ever given an `action_selection` (run `run_choice`),
  so the function that resolves it always answers stale.
- *The CDP wallet*: the same steps as the local wallet around a provider's call.
- *The nonces of AgentKit, rate limiters, the limit of challenges*: one atomic script each over Redis; they refuse or let pass. The counted discounts are in `PaidRequest`.
- *The switches of the environment* (`headlessAgentAuthEnabled` and its like): constant while the gateway runs; switched off, the routes answer NOT_FOUND.
- *The quest engine and the lease, checkpoint and request functions* are not in the repository; `RunWorker` and `PaidRequest` model them from their callers.
- *Narration, history, MCP server, chat text, configuration, command line, contracts, subgraph and Uniswap helpers*: I/O, formatting, tables and pure arithmetic.

What the code does and no property promises away:

- *Limits that receipts pass.* The run and rolling limits hold of what was reserved for, not of what was charged (see
  EffectLedger above).
- *Commands left running.* Besides those a fault cut off (`cut`), a command stays queued or running with nothing under way
  in two cases, which `DecidedOrDone` excepts as `Stranded`: its authorization was revoked after a delivery had set it
  running, so that the failure that follows is stale; or another delivery on its run moved the execution after this one
  read its version (`overtaken`), so that the continuation it sends is stale. Neither takes a fault, and without either
  exception TLC finds `DecidedOrDone` violated. The command blocks new ones of the agent; only a headless client
  whose agent has a live authorization can cancel it, and a chat command has no such call.
- *Registrations that never land and reservations whose payment is not known* stay as they are; the code has nothing that closes them.

## 7. Plan

1. `RunWorker` with approvals (the transaction index of a retried step), and TLC on two tasks, which the proofs
   already cover.
2. The vendor mathematics as operators against a reference definition.

Hazards that wait for these are in `PROJECT.json` with a note.
