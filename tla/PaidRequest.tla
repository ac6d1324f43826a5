------------------------------ MODULE PaidRequest ------------------------------
(***************************************************************************)
(* One idempotency key: AgentSession.call and paidFetch on the client      *)
(* (packages/agent-runner/src/paid-fetch.ts, session.ts), createAgentRoute *)
(* and the request ledger on the gateway (packages/agent-gateway/src/      *)
(* route-factory.ts, db/idempotency.ts), and the x402 settlement around    *)
(* the handler.                                                            *)
(*                                                                         *)
(* A caller is a process that calls with the key, again and again; callers *)
(* overlap when a worker is replaced while its call is still being served. *)
(* The handler's side of a call goes on when the client has stopped        *)
(* waiting for it.  The three functions of the ledger are not in the       *)
(* repository; they are modelled from idempotency.ts: rows are keyed by    *)
(* the idempotency key, an update is made when the attempt token is the    *)
(* row's.  A token is named after the caller it was given to.              *)
(***************************************************************************)
EXTENDS Integers, FiniteSets

CONSTANTS
    Callers,
    Contents,          \* request hashes calls with the key may have
    Bodies,            \* which of them each caller sends, where it keeps to one
    Rebuilt,           \* a call's body is built anew, and differs each time
    FullPrice,         \* the route's price, in raw units of USDC
    DiscountPercent,   \* AGENTKIT_DISCOUNT_PERCENT
    DiscountUses,      \* AGENTKIT_DISCOUNT_USES, per human and endpoint
    MaxFaults,         \* bound on everything that goes wrong
    None

ASSUME PaidAssumption ==
    /\ IsFiniteSet(Callers)
    /\ None \notin Callers \cup Contents
    /\ Bodies \subseteq [Callers -> Contents]
    /\ Rebuilt \in BOOLEAN
    /\ FullPrice \in Nat \ {0}
    /\ DiscountPercent \in 1..99
    /\ DiscountUses \in Nat
    /\ MaxFaults \in Nat

VARIABLES
    row,               \* the agent_requests row of the key
    caller,            \* caller -> where its call is, and what it holds
    reservation,       \* payment phase -> the x402 effect of the key
    charged,           \* payment phase -> settlements, counted up to two
    doubtful,          \* phases settled with an answer that says they were not
    uses,              \* discounts counted for this key's calls
    effects,           \* handler executions that had their effect
    executions,        \* handler executions
    delivered,         \* final answers clients were given
    faults,            \* what has gone wrong so far
    kind               \* the route and the clients, fixed from the start

paidVars == <<row, caller, reservation, charged, doubtful, uses, effects,
              executions, delivered, faults, kind>>

Phases == {"discount", "full"}
Runs == 0..(MaxFaults + 1)

\* An answer: HTTP status, the envelope's ok, and the execution whose result it
\* carries.  A row without a body reads as ok (cachedResponse).
Answer == [status : {0, 200, 402, 409, 422, 500, 503}, ok : BOOLEAN, run : Runs]
NoBody == [status |-> 0, ok |-> TRUE, run |-> 0]
Failing(status) == [status |-> status, ok |-> FALSE, run |-> 0]
Success(run) == [status |-> 200, ok |-> TRUE, run |-> run]

\* What is left of the human's discounts when the key is first used: AgentKit is
\* wired with a finite number of them, or it could not be wired and the hook that
\* recovers a discounted payment is missing.
Allowances == 0..DiscountUses

\* A route with a price or without; on a priced one the client accounts for its
\* payments (paymentLifecycle) or does not.
Kinds == {k \in [priced : BOOLEAN, accounted : BOOLEAN, body : Bodies,
                allowance : Allowances] :
            /\ k.accounted => k.priced
            /\ k.allowance > 0 => k.priced}

States == {"absent", "in_flight", "effect_committed", "completed", "failed"}

\* Steps of a call; those of Serving run in the gateway.
Serving == {"peek", "acquire", "handle", "mark", "settle", "complete"}
Steps == {"idle", "quoted", "reply"} \cup Serving

\* The agent_requests row of the key, and a call with it: the client's side and,
\* while the gateway serves it, the gateway's.
Request == [state : States, content : Contents \cup {None},
            token : Callers \cup {None}, leased : BOOLEAN, answer : Answer]
Call == [pc : Steps, content : Contents \cup {None}, waiting : BOOLEAN,
         phase : Phases \cup {"none"}, tried : BOOLEAN, answer : Answer]

Idle == [pc |-> "idle", content |-> None, waiting |-> FALSE, phase |-> "none",
         tried |-> FALSE, answer |-> NoBody]

RequestTypeOK ==
    /\ row \in Request
    /\ caller \in [Callers -> Call]
    /\ reservation \in [Phases -> {"none", "reserved", "settled", "released"}]
    /\ charged \in [Phases -> 0..2]
    /\ doubtful \subseteq Phases
    /\ uses \in 0..kind.allowance
    /\ effects \subseteq Runs
    /\ executions \in Runs
    /\ delivered \subseteq [content : Contents, answer : Answer]
    /\ faults \in 0..MaxFaults
    /\ kind \in Kinds
    /\ row.state = "absent" <=> row.token = None
    /\ row.state \in {"effect_committed", "completed"} => row.answer.status = 200

PaidInit ==
    /\ row = [state |-> "absent", content |-> None, token |-> None,
              leased |-> FALSE, answer |-> NoBody]
    /\ caller = [c \in Callers |-> Idle]
    /\ reservation = [p \in Phases |-> "none"]
    /\ charged = [p \in Phases |-> 0]
    /\ doubtful = {}
    /\ uses = 0
    /\ effects = {}
    /\ executions = 0
    /\ delivered = {}
    /\ faults = 0
    /\ kind \in Kinds

At(c, step) == caller[c].pc = step

Goto(c, step) == caller' = [caller EXCEPT ![c].pc = step]

AnswerWith(c, answer) ==
    caller' = [caller EXCEPT ![c].pc = "reply", ![c].answer = answer]

Fault == faults < MaxFaults /\ faults' = faults + 1

clientVars == <<reservation, delivered>>
chargeVars == <<charged, doubtful>>
handlerVars == <<uses, effects, executions>>

----------------------------------------------------------------------------
\* The client.

\* A call with the key.  The reward claim signs an attestation whose deadline
\* is read from the clock, so that its body is never the one on record.
Start(c) ==
    /\ At(c, "idle")
    /\ \E content \in Contents :
        /\ IF Rebuilt THEN content # row.content ELSE content = kind.body[c]
        /\ caller' = [caller EXCEPT ![c] =
              [Idle EXCEPT !.pc = "peek", !.content = content, !.waiting = TRUE]]
    /\ UNCHANGED <<row, chargeVars, handlerVars, clientVars, faults, kind>>

\* reservePayment and recordPaymentResult: a client that accounts for its
\* payments writes what became of a phase's.
Recorded(phase, state) ==
    reservation' = IF kind.accounted /\ phase # "none"
                   THEN [reservation EXCEPT ![phase] = state]
                   ELSE reservation

\* applyDiscount: the client computes the reduced price by the server's
\* arithmetic, and does without where nothing is left to pay or nothing saved.
Discounted == (FullPrice * (100 - DiscountPercent)) \div 100
Affordable(phase) ==
    phase = "discount" => 0 < Discounted /\ Discounted < FullPrice

\* paidFetch got a quote: one phase at a time is reserved and signed for.  A
\* reservation of an earlier attempt is not used again
\* (X402_PAYMENT_REPLAY_BLOCKED).
Pay(c, phase) ==
    /\ At(c, "quoted")
    /\ caller[c].tried => phase = "full"
    /\ Affordable(phase)
    /\ kind.accounted => reservation[phase] = "none"
    /\ Recorded(phase, "reserved")
    /\ caller' = [caller EXCEPT ![c].pc = "peek", ![c].phase = phase]
    /\ UNCHANGED <<row, chargeVars, handlerVars, delivered, faults, kind>>

\* The call ends before a payment is signed for: blocked by a reservation, or
\* over a budget.
Decline(c) ==
    /\ At(c, "quoted")
    /\ \/ /\ kind.accounted
          /\ \E p \in Phases : /\ reservation[p] # "none"
                               /\ caller[c].tried => p = "full"
          /\ UNCHANGED faults
       \/ Fault
    /\ caller' = [caller EXCEPT ![c] = Idle]
    /\ UNCHANGED <<row, chargeVars, handlerVars, clientVars, kind>>

\* The payment cannot be signed: its reservation is released, and after the
\* discounted one the full price is tried.
SignFails(c, phase) ==
    /\ At(c, "quoted")
    /\ caller[c].tried => phase = "full"
    /\ Affordable(phase)
    /\ kind.accounted => reservation[phase] = "none"
    /\ Fault
    /\ Recorded(phase, "released")
    /\ caller' = [caller EXCEPT ![c] =
            IF phase = "full" THEN Idle ELSE [caller[c] EXCEPT !.tried = TRUE]]
    /\ UNCHANGED <<row, chargeVars, handlerVars, delivered, kind>>

\* The first fetch was answered 402: paidFetch reads the quote.
Quoted(m) == m.phase = "none" /\ m.answer.status = 402

\* The client has the answer.  A 402 to a payment releases its reservation,
\* any other answer counts it as spent.  After a refused discount the route is
\* asked again without payment.
Receive(c) ==
    /\ At(c, "reply")
    /\ caller[c].waiting
    /\ LET m == caller[c]
           again == m.phase = "discount" /\ m.answer.status = 402
       IN  /\ Recorded(m.phase,
                   IF m.answer.status = 402 THEN "released" ELSE "settled")
           /\ caller' = [caller EXCEPT ![c] =
                IF Quoted(m) THEN [m EXCEPT !.pc = "quoted", !.answer = NoBody]
                ELSE IF again
                THEN [m EXCEPT !.pc = "peek", !.phase = "none",
                               !.tried = TRUE, !.answer = NoBody]
                ELSE Idle]
           /\ delivered' =
                IF m.answer.status \notin {200, 422} THEN delivered
                ELSE delivered \cup {[content |-> m.content, answer |-> m.answer]}
    /\ UNCHANGED <<row, chargeVars, handlerVars, faults, kind>>

\* The client stops waiting; the gateway goes on with what it was serving.
Abandon(c) ==
    caller' = [caller EXCEPT ![c] = IF caller[c].pc \in Serving
                                    THEN [caller[c] EXCEPT !.waiting = FALSE]
                                    ELSE Idle]

\* A slip: a payment whose answer never came is taken for not made.
LostReleased(c) ==
    /\ caller[c].waiting
    /\ Fault
    /\ reservation' = IF caller[c].phase # "none" /\ kind.accounted
                      THEN [reservation EXCEPT ![caller[c].phase] = "released"]
                      ELSE reservation
    /\ Abandon(c)
    /\ UNCHANGED <<row, chargeVars, handlerVars, delivered, kind>>

\* The client dies, its fetch throws, or the result cannot be recorded: what was
\* reserved stays reserved.  The gateway goes on with the call.
Lost(c) ==
    /\ caller[c].waiting
    /\ Fault
    /\ Abandon(c)
    /\ UNCHANGED <<row, chargeVars, handlerVars, clientVars, kind>>

\* Nobody is waiting for the answer.
Drop(c) ==
    /\ At(c, "reply")
    /\ ~ caller[c].waiting
    /\ caller' = [caller EXCEPT ![c] = Idle]
    /\ UNCHANGED <<row, chargeVars, handlerVars, clientVars, faults, kind>>

----------------------------------------------------------------------------
\* The gateway.

\* verifiedDiscountHook: a short payment is recovered when it is worth the
\* reduced price at least and not the full one.
Recoverable(amount) ==
    /\ (FullPrice * (100 - DiscountPercent)) \div 100 <= amount
    /\ amount < FullPrice

\* tryIncrementUsage: the limit is checked and the use counted in one script.
TryIncrementUsage == uses < kind.allowance /\ uses' = uses + 1

\* The paywall verifies the payment of a call; a discounted one also takes a use
\* of the human's allowance, which is lost when the store does not answer.
Verify(c) ==
    LET phase == caller[c].phase
    IN  \/ /\ \/ ~ kind.priced
              \/ phase = "full"
           /\ Goto(c, "acquire")
           /\ UNCHANGED <<uses, faults>>
        \/ /\ phase = "discount"
           /\ Recoverable(Discounted)
           /\ TryIncrementUsage
           /\ Goto(c, "acquire")
           /\ UNCHANGED faults
        \/ /\ \/ kind.priced /\ phase = "none"
              \/ phase = "discount" /\ uses = kind.allowance
           /\ AnswerWith(c, Failing(402))
           /\ UNCHANGED <<uses, faults>>
        \/ /\ phase # "none"
           /\ Fault
           /\ AnswerWith(c, Failing(402))
           /\ \/ UNCHANGED uses
              \/ phase = "discount" /\ TryIncrementUsage

\* peekRequest, outside the paywall, then the paywall itself: another body is
\* refused, a settled request answered as it was, a call without a payment
\* quoted, and a payment verified or refused.
Peek(c) ==
    /\ At(c, "peek")
    /\ LET m == caller[c]
           known == row.state # "absent"
           settled == row.state \in {"completed", "failed"}
       IN  \/ /\ known /\ row.content # m.content
              /\ AnswerWith(c, Failing(409))
              /\ UNCHANGED <<uses, faults>>
           \/ /\ settled /\ row.content = m.content
              /\ AnswerWith(c, row.answer)
              /\ UNCHANGED <<uses, faults>>
           \/ /\ known => ~ settled /\ row.content = m.content
              /\ Verify(c)
    /\ UNCHANGED <<row, chargeVars, effects, executions, clientVars, kind>>

\* What an answered handler is followed by: only answers below 400 settle.
AfterHandler(answer) ==
    IF answer.status = 200
    THEN IF kind.priced THEN "settle" ELSE "complete"
    ELSE "reply"

Hold(c, state) ==
    row' = [row EXCEPT !.state = state, !.content = caller[c].content,
                       !.token = c, !.leased = TRUE]

\* A slip: the lease of a holder that died is respected for ever.
AcquireOnce(c) ==
    /\ At(c, "acquire")
    /\ IF row.state = "absent"
       THEN Hold(c, "in_flight") /\ Goto(c, "handle")
       ELSE AnswerWith(c, Failing(409)) /\ UNCHANGED row
    /\ UNCHANGED <<chargeVars, handlerVars, clientVars, faults, kind>>

\* acquireRequest.  A replay may be refused the token of a row that is leased
\* or final; the call is then told to retry.
Acquire(c) ==
    /\ At(c, "acquire")
    /\ LET m == caller[c]
           replay == [m EXCEPT !.pc = AfterHandler(row.answer),
                               !.answer = row.answer]
       IN  \/ /\ row.state # "absent" /\ row.content # m.content
              /\ AnswerWith(c, Failing(409))
              /\ UNCHANGED row
           \/ /\ row.state = "in_flight" /\ row.content = m.content /\ row.leased
              /\ AnswerWith(c, Failing(409))
              /\ UNCHANGED row
           \/ /\ \/ row.state = "absent"
                 \/ row.state = "in_flight" /\ row.content = m.content /\ ~ row.leased
              /\ Hold(c, "in_flight")
              /\ Goto(c, "handle")
           \/ /\ row.state = "effect_committed" /\ row.content = m.content
              /\ \/ /\ ~ row.leased
                    /\ Hold(c, "effect_committed")
                    /\ caller' = [caller EXCEPT ![c] = replay]
                 \/ /\ row.leased
                    /\ AnswerWith(c, Failing(503))
                    /\ UNCHANGED row
           \/ /\ row.state \in {"completed", "failed"} /\ row.content = m.content
              /\ \/ /\ row' = [row EXCEPT !.token = c]
                    /\ caller' = [caller EXCEPT ![c] = replay]
                 \/ /\ AnswerWith(c, Failing(503))
                    /\ UNCHANGED row
    /\ UNCHANGED <<chargeVars, handlerVars, clientVars, faults, kind>>

\* The route's handler: done, refused, failing for now, or throwing with its
\* effect done or not.
Handle(c) ==
    /\ At(c, "handle")
    /\ LET run == executions + 1
           finish(answer) == caller' = [caller EXCEPT ![c].pc = "mark",
                                                      ![c].answer = answer]
       IN  /\ executions' = run
           /\ \/ effects' = effects \cup {run} /\ finish(Success(run))
                 /\ UNCHANGED faults
              \/ finish(Failing(422)) /\ UNCHANGED <<effects, faults>>
              \/ finish(Failing(503)) /\ Fault /\ UNCHANGED effects
              \/ finish(Failing(500)) /\ Fault
                 /\ effects' \in {effects, effects \cup {run}}
    /\ UNCHANGED <<row, chargeVars, uses, clientVars, kind>>

\* The row its holder writes and lets go of.
Written(state, answer) ==
    [row EXCEPT !.state = state, !.leased = FALSE, !.answer = answer]

\* A slip: every answer is recorded as committed.
OutcomeCommitted(answer) == Written("effect_committed", answer)

\* The state a handler's answer leaves its request in.  500 stands for a throw,
\* which stores no body.
Outcome(answer) ==
    CASE answer.status = 200 -> Written("effect_committed", answer)
      [] answer.status = 503 -> Written("in_flight", answer)
      [] answer.status = 422 -> Written("failed", answer)
      [] answer.status = 500 -> Written("failed", [row.answer EXCEPT !.status = 500])

\* A slip: the token is not compared.
MarkUnfenced(c) ==
    /\ At(c, "mark")
    /\ row' = Outcome(caller[c].answer)
    /\ Goto(c, AfterHandler(caller[c].answer))
    /\ UNCHANGED <<chargeVars, handlerVars, clientVars, faults, kind>>

\* markState after the handler: made by the holder of the token, else the call
\* is told that its lease was lost.  The answer to a throw does not depend on it.
Mark(c) ==
    /\ At(c, "mark")
    /\ LET answer == caller[c].answer
       IN  \/ /\ row.token = c
              /\ row' = Outcome(answer)
              /\ Goto(c, AfterHandler(answer))
              /\ UNCHANGED faults
           \/ /\ IF row.token = c THEN Fault ELSE UNCHANGED faults
              /\ AnswerWith(c, IF answer.status = 500 THEN answer ELSE Failing(409))
              /\ UNCHANGED row
    /\ UNCHANGED <<chargeVars, handlerVars, clientVars, kind>>

\* The facilitator moves the payment; settlements are counted up to two.
Charge(phase) ==
    charged' = [charged EXCEPT ![phase] = IF @ < 2 THEN @ + 1 ELSE 2]

\* A slip: the request is completed though the settlement failed.
SettleRegardless(c) ==
    /\ At(c, "settle")
    /\ Charge(caller[c].phase) \/ UNCHANGED charged
    /\ Goto(c, "complete")
    /\ UNCHANGED <<row, doubtful, handlerVars, clientVars, faults, kind>>

\* Settlement by withX402: the payment is made, or it is not and the body is
\* withheld, or it is made but the facilitator's answer is lost, for which the
\* body is withheld as well.
Settle(c) ==
    /\ At(c, "settle")
    /\ LET phase == caller[c].phase
       IN  \/ /\ Charge(phase)
              /\ Goto(c, "complete")
              /\ UNCHANGED <<doubtful, faults>>
           \/ /\ Fault
              /\ AnswerWith(c, Failing(402))
              /\ \/ UNCHANGED chargeVars
                 \/ Charge(phase) /\ doubtful' = doubtful \cup {phase}
    /\ UNCHANGED <<row, handlerVars, clientVars, kind>>

\* The request is completed; the answer goes out whether or not that was
\* recorded.
Complete(c) ==
    /\ At(c, "complete")
    /\ \/ /\ row.token = c
          /\ row' = [row EXCEPT !.state = "completed", !.leased = FALSE]
          /\ UNCHANGED faults
       \/ /\ IF row.token = c THEN Fault ELSE UNCHANGED faults
          /\ UNCHANGED row
    /\ Goto(c, "reply")
    /\ UNCHANGED <<chargeVars, handlerVars, clientVars, kind>>

\* The gateway's process dies in the middle of a call; a waiting client's fetch
\* throws.
GatewayCrash(c) ==
    /\ caller[c].pc \in Serving
    /\ Fault
    /\ caller' = [caller EXCEPT ![c] = Idle]
    /\ UNCHANGED <<row, chargeVars, handlerVars, clientVars, kind>>

\* The lease lapses: as time passes once its holder is gone, and as a fault
\* while the holder is merely slow.
HolderGone ==
    row.token # None => caller[row.token].pc \notin Serving \ {"peek", "acquire"}

Expire ==
    /\ row.leased
    /\ row' = [row EXCEPT !.leased = FALSE]
    /\ IF HolderGone THEN UNCHANGED faults ELSE Fault
    /\ UNCHANGED <<caller, chargeVars, handlerVars, clientVars, kind>>

Progress(c) ==
    \/ Start(c) \/ Decline(c) \/ Receive(c) \/ Drop(c)
    \/ \E phase \in Phases : Pay(c, phase) \/ SignFails(c, phase)
    \/ Peek(c) \/ Acquire(c) \/ Handle(c) \/ Mark(c) \/ Settle(c) \/ Complete(c)

PaidNext ==
    \/ \E c \in Callers : Progress(c) \/ Lost(c) \/ GatewayCrash(c)
    \/ Expire

PaidSpec == PaidInit /\ [][PaidNext]_paidVars

\* Clients keep calling and calls are carried on; leases of dead holders lapse.
FairPaidSpec ==
    /\ PaidSpec
    /\ \A c \in Callers : WF_paidVars(Progress(c))
    /\ WF_paidVars(Expire /\ HolderGone)

----------------------------------------------------------------------------
\* Every 200 a client was ever given is the answer on record for its own
\* request, whoever executed the handler, how often, and whoever's lease ran out
\* (route-factory.ts:247-275, idempotency.ts:176-219).
AnswersAgree ==
    \A d \in delivered : d.answer.status = 200 =>
        /\ row.state \in {"effect_committed", "completed"}
        /\ row.content = d.content
        /\ row.answer = d.answer
        /\ d.answer.run \in effects

\* Nothing is charged for an effect that is not on record, nor a request of a
\* priced route completed or answered without its charge
\* (route-factory.ts:394-415); and nothing at the reduced price beyond the
\* discounts counted for the human (agentkit-storage.ts:36-60).
PaidForEffect ==
    LET paid == \E p \in Phases : charged[p] > 0
    IN  /\ paid => row.state \in {"effect_committed", "completed"}
        /\ kind.priced /\ row.state = "completed" => paid
        /\ kind.priced /\ (\E d \in delivered : d.answer.status = 200) => paid
        /\ charged["discount"] <= uses

\* A client that accounts for its payments has a reservation, counted in its
\* budgets, behind every charge, and is charged once per reservation, even when
\* it died while the gateway went on (paid-fetch.ts:206-236).  The one charge it
\* may have let go of is one it was told was not made (paid-fetch.ts:363-377).
ChargesAreReserved ==
    kind.accounted => \A p \in Phases :
        charged[p] > 0 =>
            /\ charged[p] = 1
            /\ \/ reservation[p] \in {"reserved", "settled"}
               \/ reservation[p] = "released" /\ p \in doubtful

\* A client without reservations that keeps calling gets its request settled
\* after whatever crashes, lapsed leases and failed settlements
\* (idempotency.ts:199-202).
KeptRetryingSettles ==
    ~ kind.accounted => <>(row.state \in {"completed", "failed"})

\* "charging twice for one effect is the failure this whole ledger exists to
\* prevent" (route-factory.ts:364-365).
ChargedOnce == charged["discount"] + charged["full"] <= 1

\* A claim that failed is recovered by claiming again: "Claiming is idempotent
\* and needs no transaction, so the reward is recovered without redoing the
\* work" (run.ts:696-697).  It is paid, or answered for good.
ClaimIsRecovered ==
    kind.priced /\ ~ kind.accounted => <>(effects # {} \/ delivered # {})
=============================================================================
