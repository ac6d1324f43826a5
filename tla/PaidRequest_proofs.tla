-------------------------- MODULE PaidRequest_proofs --------------------------
(***************************************************************************)
(* Proofs about PaidRequest, for any number of calls, request bodies and   *)
(* faults and every price, discount and allowance: what the answers, the   *)
(* charges and the reservations of one idempotency key have to do with     *)
(* each other.                                                             *)
(***************************************************************************)
EXTENDS PaidRequest, FiniteSetTheorems, TLAPS

----------------------------------------------------------------------------
\* The inductive invariant.

Committed == row.state \in {"effect_committed", "completed"}

Paid == \E p \in Phases : charged[p] > 0

\* The row of the key: it answers with what a handler did.
RowOK ==
    /\ row.state # "absent" => row.content \in Contents
    /\ row.answer.status # 402
    /\ row.state = "failed" => row.answer.status \in {422, 500}
    /\ Committed => row.answer.run \in effects

\* Whoever holds the token in the handler holds a request that is still open,
\* and its own.
HoldsOpen(c) ==
    caller[c].pc \in {"handle", "mark"} /\ row.token = c =>
        row.state = "in_flight" /\ row.content = caller[c].content

\* A call that goes out with a result.
Served(c) ==
    caller[c].pc \in {"settle", "complete", "reply"} /\ caller[c].answer.status = 200

\* What a call is known to hold by the step it is at.
CallOK(c) ==
    LET m == caller[c]
    IN  /\ m.pc # "idle" => m.content \in Contents
        /\ m.pc \in {"idle", "quoted"} => m.phase = "none"
        /\ m.pc = "mark" => m.answer.status \in {200, 422, 500, 503}
        /\ m.pc = "mark" /\ m.answer.status = 200 => m.answer.run \in effects
        /\ m.pc \in {"settle", "complete"} => m.answer.status = 200
        /\ Served(c) => Committed /\ row.content = m.content /\ row.answer = m.answer

\* Beyond the paywall of a priced route a call has a payment, and its answer goes
\* out paid; without a price there is neither.
PaymentOK(c) ==
    LET m == caller[c]
    IN  /\ kind.priced /\ m.pc \in {"acquire", "handle", "mark", "settle"}
               => m.phase \in Phases
        /\ kind.priced /\ Served(c) /\ m.pc # "settle" => Paid
        /\ ~ kind.priced => /\ m.phase = "none"
                            /\ m.pc \notin {"quoted", "settle"}
                            /\ m.pc = "reply" => m.answer.status # 402

\* Until its settlement, and when that was refused and not made all the same,
\* nothing was charged.
Unsettled(c) ==
    \/ caller[c].pc \notin {"complete", "reply"}
    \/ /\ caller[c].pc = "reply" /\ caller[c].answer.status = 402
       /\ caller[c].phase \notin doubtful

\* A call of an accounted client is alone with its payment.
PhaseOK(c) ==
    kind.accounted /\ caller[c].phase \in Phases =>
        /\ reservation[caller[c].phase] = "reserved"
        /\ \A d \in Callers : caller[d].phase = caller[c].phase => d = c
        /\ Unsettled(c) => charged[caller[c].phase] = 0

\* Calls whose discount has been counted and not been charged yet.
Spends(c) ==
    /\ caller[c].phase = "discount"
    /\ caller[c].pc \in {"acquire", "handle", "mark", "settle"}
Spending == {c \in Callers : Spends(c)}

DiscountsCounted == charged["discount"] + Cardinality(Spending) <= uses

\* Executions that have begun, and whether another one may: the handler is free,
\* or held by nobody who will give it up by an answer of its own.
Handles(c) == caller[c].pc = "handle"
Handling == {c \in Callers : Handles(c)}

Attended ==
    /\ row.leased
    /\ \/ caller[row.token].pc = "handle"
       \/ caller[row.token].pc = "mark" /\ caller[row.token].answer.status # 503
Free == row.state = "absent" \/ (row.state = "in_flight" /\ ~ Attended)

ExecutionsCounted ==
    executions + Cardinality(Handling) + (IF Free THEN 1 ELSE 0) <= faults + 1

CallsOK == \A c \in Callers : HoldsOpen(c) /\ CallOK(c)
PaymentsOK == \A c \in Callers : PaymentOK(c) /\ PhaseOK(c)

PaidInv ==
    /\ RequestTypeOK /\ RowOK /\ CallsOK /\ PaymentsOK
    /\ DiscountsCounted /\ ExecutionsCounted
    /\ AnswersAgree /\ PaidForEffect /\ ChargesAreReserved

----------------------------------------------------------------------------
\* What the steps have in common.

\* Of the calls only c's changes.
Moves(c) ==
    /\ caller' \in [Callers -> Call]
    /\ \A d \in Callers \ {c} : caller'[d] = caller[d]

LEMMA CallBecomes ==
    ASSUME caller \in [Callers -> Call], NEW c \in Callers, NEW m \in Call,
           caller' = [caller EXCEPT ![c] = m]
    PROVE  Moves(c) /\ caller'[c] = m
BY DEF Moves

LEMMA GotoCall ==
    ASSUME caller \in [Callers -> Call], NEW c \in Callers, NEW step \in Steps,
           Goto(c, step)
    PROVE  /\ Moves(c)
           /\ caller'[c].pc = step
           /\ caller'[c].content = caller[c].content
           /\ caller'[c].phase = caller[c].phase
           /\ caller'[c].answer = caller[c].answer
           /\ caller'[c].waiting = caller[c].waiting
BY DEF Goto, Moves, Call

LEMMA AnsweredCall ==
    ASSUME caller \in [Callers -> Call], NEW c \in Callers, NEW a \in Answer,
           AnswerWith(c, a)
    PROVE  /\ Moves(c)
           /\ caller'[c].pc = "reply"
           /\ caller'[c].content = caller[c].content
           /\ caller'[c].phase = caller[c].phase
           /\ caller'[c].answer = a
BY DEF AnswerWith, Moves, Call, Steps

LEMMA Counted ==
    ASSUME NEW S \in SUBSET Callers, NEW T \in SUBSET Callers, NEW c \in Callers,
           \A d \in Callers \ {c} : d \in S <=> d \in T
    PROVE  /\ Cardinality(S) \in Nat
           /\ Cardinality(T) \in Nat
           /\ Cardinality(T) = Cardinality(S) + (IF c \in T THEN 1 ELSE 0)
                                              - (IF c \in S THEN 1 ELSE 0)
<1>1. IsFiniteSet(S) /\ IsFiniteSet(T)
  BY PaidAssumption, FS_Subset DEF PaidAssumption
<1>2. Cardinality(S) \in Nat /\ Cardinality(T) \in Nat
  BY <1>1, FS_CardinalityType
<1>3. CASE c \in S <=> c \in T
  <2>1. S = T
    BY <1>3
  <2> QED
    BY <1>2, <1>3, <2>1
<1>4. CASE c \in S /\ c \notin T
  <2>1. T = S \ {c}
    BY <1>4
  <2>2. Cardinality(T) = Cardinality(S) - 1
    BY <1>1, <1>4, <2>1, FS_RemoveElement
  <2> QED
    BY <1>2, <1>4, <2>2
<1>5. CASE c \notin S /\ c \in T
  <2>1. T = S \cup {c}
    BY <1>5
  <2>2. Cardinality(T) = Cardinality(S) + 1
    BY <1>1, <1>5, <2>1, FS_AddElement
  <2> QED
    BY <1>2, <1>5, <2>2
<1> QED
  BY <1>3, <1>4, <1>5

LEMMA CountsMove ==
    ASSUME NEW c \in Callers, Moves(c)
    PROVE  /\ Cardinality(Spending) \in Nat
           /\ Cardinality(Spending') \in Nat
           /\ Cardinality(Spending') =
                Cardinality(Spending) + (IF Spends(c)' THEN 1 ELSE 0)
                                      - (IF Spends(c) THEN 1 ELSE 0)
           /\ Cardinality(Handling) \in Nat
           /\ Cardinality(Handling') \in Nat
           /\ Cardinality(Handling') =
                Cardinality(Handling) + (IF Handles(c)' THEN 1 ELSE 0)
                                      - (IF Handles(c) THEN 1 ELSE 0)
<1>1. /\ Spending \in SUBSET Callers /\ Spending' \in SUBSET Callers
      /\ \A d \in Callers \ {c} : d \in Spending <=> d \in Spending'
      /\ c \in Spending <=> Spends(c)
      /\ c \in Spending' <=> Spends(c)'
  BY DEF Moves, Spending, Spends
<1>2. /\ Handling \in SUBSET Callers /\ Handling' \in SUBSET Callers
      /\ \A d \in Callers \ {c} : d \in Handling <=> d \in Handling'
      /\ c \in Handling <=> Handles(c)
      /\ c \in Handling' <=> Handles(c)'
  BY DEF Moves, Handling, Handles
<1>3. /\ Cardinality(Spending) \in Nat
      /\ Cardinality(Spending') \in Nat
      /\ Cardinality(Spending') =
           Cardinality(Spending) + (IF c \in Spending' THEN 1 ELSE 0)
                                 - (IF c \in Spending THEN 1 ELSE 0)
  BY <1>1, Counted
<1>4. /\ Cardinality(Handling) \in Nat
      /\ Cardinality(Handling') \in Nat
      /\ Cardinality(Handling') =
           Cardinality(Handling) + (IF c \in Handling' THEN 1 ELSE 0)
                                 - (IF c \in Handling THEN 1 ELSE 0)
  BY <1>2, Counted
<1> HIDE DEF Spending, Handling, Spends, Handles
<1> QED
  BY <1>1, <1>2, <1>3, <1>4

\* The records calls are built from.
LEMMA CallFields ==
    /\ Idle \in Call
    /\ Idle.pc = "idle" /\ Idle.phase = "none" /\ Idle.answer.status = 0
    /\ NoBody \in Answer
    /\ \A run \in Runs : Success(run) \in Answer
    /\ \A s \in {402, 409, 422, 500, 503} : Failing(s) \in Answer
<1>1. 0 \in Runs
  BY PaidAssumption DEF PaidAssumption, Runs
<1> QED
  BY <1>1 DEF Idle, Call, NoBody, Answer, Success, Failing, Steps, Serving

----------------------------------------------------------------------------
\* The steps that leave the row, what is charged and the executions alone.

LEMMA QuietStep ==
    ASSUME PaidInv, NEW c \in Callers, Moves(c),
           UNCHANGED <<row, charged, doubtful, effects, executions, kind>>,
           uses' \in uses..kind.allowance,
           faults' \in faults..MaxFaults,
           caller'[c].pc \in {"handle", "mark"} =>
                /\ caller'[c].pc = caller[c].pc
                /\ caller'[c].answer = caller[c].answer
                /\ caller'[c].content = caller[c].content,
           Spends(c)' => Spends(c) \/ uses' = uses + 1,
           caller[c].pc \in {"handle", "mark"} /\ caller'[c].pc # caller[c].pc
                => faults' = faults + 1 \/ row.token # c,
           CallOK(c)'
    PROVE  RowOK' /\ CallsOK' /\ DiscountsCounted' /\ ExecutionsCounted'
           /\ executions' \in Runs
<1> USE DEF PaidInv
<1>1. RowOK'
  BY DEF RowOK, Committed
<1>2. CallsOK'
  <2> SUFFICES ASSUME NEW d \in Callers PROVE HoldsOpen(d)' /\ CallOK(d)'
    BY DEF CallsOK
  <2>1. HoldsOpen(d) /\ CallOK(d)
    BY DEF CallsOK
  <2>2. HoldsOpen(c)
    BY DEF CallsOK
  <2>3. CASE d = c
    BY <2>2, <2>3 DEF HoldsOpen
  <2>4. CASE d # c
    BY <2>1, <2>4 DEF HoldsOpen, CallOK, Moves, Served, Committed
  <2> QED
    BY <2>3, <2>4
<1>3. DiscountsCounted'
  <2>1. charged["discount"] \in Nat /\ uses \in Nat /\ uses' \in Nat
    BY DEF RequestTypeOK, Phases
  <2>2. charged'["discount"] = charged["discount"]
    OBVIOUS
  <2>3. uses' >= uses
    BY <2>1
  <2> QED
    BY <2>1, <2>2, <2>3, CountsMove DEF DiscountsCounted
<1>4. ExecutionsCounted'
  <2>1. executions \in Nat /\ faults \in Nat /\ faults' \in Nat /\ faults' >= faults
    BY PaidAssumption DEF PaidAssumption, RequestTypeOK, Runs
  <2>2. Handles(c)' => Handles(c)
    BY DEF Handles
  <2>3. ~ Free /\ Free' => faults' = faults + 1
    <3> SUFFICES ASSUME ~ Free, Free' PROVE faults' = faults + 1
      OBVIOUS
    <3>1. row.state = "in_flight" /\ Attended /\ ~ Attended'
      BY DEF Free
    <3>2. row.token \in Callers
      BY <3>1, PaidAssumption DEF RequestTypeOK, Request, States
    <3>3. row.token = c
      BY <3>1, <3>2 DEF Attended, Moves
    <3> QED
      BY <3>1, <3>3 DEF Attended
  <2>4. executions' = executions
    OBVIOUS
  <2> HIDE DEF Free, Handles
  <2> QED
    BY <2>1, <2>2, <2>3, <2>4, CountsMove DEF ExecutionsCounted
<1>5. executions' \in Runs
  BY DEF RequestTypeOK
<1> QED
  BY <1>1, <1>2, <1>3, <1>4, <1>5

\* The same for the payments: c's call keeps its payment, gives it up or takes a
\* fresh one, and no other call's reservation is touched.
LEMMA QuietPayments ==
    ASSUME PaidInv, NEW c \in Callers, Moves(c),
           UNCHANGED <<charged, doubtful, kind>>,
           PaymentOK(c)',
           caller'[c].phase \in Phases /\ kind.accounted =>
                /\ reservation'[caller'[c].phase] = "reserved"
                /\ \/ caller'[c].phase = caller[c].phase
                   \/ reservation[caller'[c].phase] = "none"
                /\ Unsettled(c)' => charged[caller'[c].phase] = 0,
           \A p \in Phases : kind.accounted =>
                \/ reservation'[p] = reservation[p]
                \/ p = caller[c].phase
                \/ reservation[p] = "none"
    PROVE  PaymentsOK'
<1> SUFFICES ASSUME NEW d \in Callers PROVE PaymentOK(d)' /\ PhaseOK(d)'
  BY DEF PaymentsOK
<1>1. \A e \in Callers : PaymentOK(e) /\ PhaseOK(e)
  BY DEF PaidInv, PaymentsOK
<1>2. CASE d = c
  <2>1. ASSUME kind.accounted, caller'[c].phase \in Phases
        PROVE  PhaseOK(c)'
    <3>1. ASSUME NEW e \in Callers \ {c} PROVE caller'[e].phase # caller'[c].phase
      <4>1. caller'[e] = caller[e]
        BY DEF Moves
      <4>2. caller[e].phase \in Phases => reservation[caller[e].phase] = "reserved"
        BY <1>1, <2>1 DEF PhaseOK
      <4>3. CASE caller'[c].phase = caller[c].phase
        BY <1>1, <2>1, <4>1, <4>3 DEF PhaseOK
      <4>4. CASE reservation[caller'[c].phase] = "none"
        BY <2>1, <4>1, <4>2, <4>4
      <4> QED
        BY <2>1, <4>3, <4>4
    <3> QED
      BY <2>1, <3>1 DEF PhaseOK
  <2> QED
    BY <1>2, <2>1 DEF PhaseOK
<1>3. CASE d # c
  <2>1. caller'[d] = caller[d]
    BY <1>3 DEF Moves
  <2>2. PaymentOK(d)'
    BY <1>1, <2>1 DEF PaymentOK, Served, Paid
  <2>3. PhaseOK(d)'
    <3> SUFFICES ASSUME kind.accounted, caller[d].phase \in Phases
                 PROVE  PhaseOK(d)'
      BY <2>1 DEF PhaseOK
    <3>1. /\ reservation[caller[d].phase] = "reserved"
          /\ caller[c].phase # caller[d].phase
          /\ Unsettled(d) => charged[caller[d].phase] = 0
          /\ \A e \in Callers : caller[e].phase = caller[d].phase => e = d
      BY <1>1, <1>3 DEF PhaseOK
    <3>2. reservation'[caller[d].phase] = "reserved"
      BY <3>1
    <3>3. caller'[c].phase # caller[d].phase
      BY <3>1
    <3>4. \A e \in Callers : caller'[e].phase = caller[d].phase => e = d
      BY <3>1, <3>3 DEF Moves
    <3> QED
      BY <2>1, <3>1, <3>2, <3>4 DEF PhaseOK, Unsettled
  <2> QED
    BY <2>2, <2>3
<1> QED
  BY <1>2, <1>3

\* What was delivered is not disturbed by a step that leaves it and the row alone.
LEMMA QuietAnswers ==
    ASSUME PaidInv, UNCHANGED <<row, charged, doubtful, effects, delivered, kind>>,
           uses' \in uses..kind.allowance
    PROVE  AnswersAgree' /\ PaidForEffect'
<1>1. charged["discount"] \in Nat /\ uses \in Nat
  BY DEF PaidInv, RequestTypeOK, Phases
<1> QED
  BY <1>1 DEF PaidInv, AnswersAgree, PaidForEffect

\* Reservations that are taken, or given up for nothing.
LEMMA QuietCharges ==
    ASSUME PaidInv, UNCHANGED <<charged, doubtful, kind>>,
           \A p \in Phases : kind.accounted =>
                \/ reservation'[p] = reservation[p]
                \/ charged[p] = 0
                \/ reservation'[p] = "settled"
                \/ reservation'[p] = "released" /\ p \in doubtful
    PROVE  ChargesAreReserved'
BY DEF PaidInv, ChargesAreReserved

LEMMA Types ==
    ASSUME PaidInv
    PROVE  /\ caller \in [Callers -> Call]
           /\ row \in Request
           /\ reservation \in [Phases -> {"none", "reserved", "settled", "released"}]
           /\ charged \in [Phases -> 0..2]
           /\ doubtful \subseteq Phases
           /\ effects \subseteq Runs
           /\ executions \in Runs
           /\ delivered \subseteq [content : Contents, answer : Answer]
           /\ faults \in Nat /\ faults \in faults..MaxFaults
           /\ Fault => faults' = faults + 1 /\ faults' \in faults..MaxFaults
           /\ uses \in Nat /\ uses \in uses..kind.allowance
           /\ kind \in Kinds /\ kind.allowance \in Nat
           /\ kind.accounted => kind.priced
BY PaidAssumption DEF PaidInv, PaidAssumption, RequestTypeOK, Kinds, Fault, Allowances

\* A step of c that takes at most a fresh reservation, and gives no answer out.
LEMMA QuietKeeps ==
    ASSUME PaidInv, NEW c \in Callers, Moves(c),
           UNCHANGED <<row, charged, doubtful, effects, executions, delivered, kind>>,
           uses' \in uses..kind.allowance,
           faults' \in faults..MaxFaults,
           reservation' \in [Phases -> {"none", "reserved", "settled", "released"}],
           \A p \in Phases : reservation'[p] = reservation[p] \/ reservation[p] = "none",
           caller'[c].pc \in {"handle", "mark"} =>
                /\ caller'[c].pc = caller[c].pc
                /\ caller'[c].answer = caller[c].answer
                /\ caller'[c].content = caller[c].content,
           Spends(c)' => Spends(c) \/ uses' = uses + 1,
           caller[c].pc \in {"handle", "mark"} /\ caller'[c].pc # caller[c].pc
                => faults' = faults + 1 \/ row.token # c,
           CallOK(c)' /\ PaymentOK(c)',
           caller'[c].phase \in Phases /\ kind.accounted =>
                /\ reservation'[caller'[c].phase] = "reserved"
                /\ \/ caller'[c].phase = caller[c].phase
                   \/ reservation[caller'[c].phase] = "none"
                /\ Unsettled(c)' => charged[caller'[c].phase] = 0
    PROVE  PaidInv'
<1>1. RowOK' /\ CallsOK' /\ DiscountsCounted' /\ ExecutionsCounted'
  BY QuietStep
<1>2. PaymentsOK'
  BY QuietPayments
<1>3. AnswersAgree' /\ PaidForEffect'
  BY QuietAnswers
<1>4. ChargesAreReserved'
  <2>1. \A p \in Phases : kind.accounted =>
            \/ reservation'[p] = reservation[p]
            \/ charged[p] = 0
    BY Types DEF PaidInv, ChargesAreReserved
  <2> QED
    BY <2>1, QuietCharges
<1>5. RequestTypeOK'
  <2>1. faults' \in 0..MaxFaults /\ uses' \in 0..kind.allowance
    BY Types
  <2>2. caller' \in [Callers -> Call]
    BY DEF Moves
  <2> QED
    BY <2>1, <2>2 DEF PaidInv, RequestTypeOK
<1> QED
  BY <1>1, <1>2, <1>3, <1>4, <1>5 DEF PaidInv

\* A call that ends where it is: its payment, if it has one, stays reserved.
LEMMA IdleKeeps ==
    ASSUME PaidInv, NEW c \in Callers,
           caller' = [caller EXCEPT ![c] = Idle],
           UNCHANGED <<row, charged, doubtful, uses, effects, executions, delivered, kind>>,
           reservation' \in [Phases -> {"none", "reserved", "settled", "released"}],
           \A p \in Phases : reservation'[p] = reservation[p] \/ reservation[p] = "none",
           faults' \in faults..MaxFaults,
           caller[c].pc \in {"handle", "mark"} => faults' = faults + 1
    PROVE  PaidInv'
<1>1. PICK m \in Call : m = Idle
  BY CallFields
<1>2. caller' = [caller EXCEPT ![c] = m]
  BY <1>1, Zenon
<1>3. Moves(c) /\ caller'[c] = m
  BY <1>2, Types, CallBecomes
<1>4. m.pc = "idle" /\ m.phase = "none"
  BY <1>1, CallFields
<1>5. CallOK(c)' /\ PaymentOK(c)' /\ ~ Spends(c)'
  BY <1>3, <1>4 DEF CallOK, PaymentOK, Served, Spends
<1> QED
  BY <1>3, <1>4, <1>5, QuietKeeps, Types DEF Phases

LEMMA StartKeeps ==
    ASSUME PaidInv, NEW c \in Callers, Start(c)
    PROVE  PaidInv'
<1>1. PICK content \in Contents :
        caller' = [caller EXCEPT ![c] =
              [Idle EXCEPT !.pc = "peek", !.content = content, !.waiting = TRUE]]
  BY DEF Start
<1>2. PICK m \in Call : m = [Idle EXCEPT !.pc = "peek", !.content = content, !.waiting = TRUE]
  <2>1. NoBody \in Answer
    BY CallFields
  <2> QED
    BY <2>1 DEF Idle, Call, Steps, Serving
<1>3. m.pc = "peek" /\ m.content = content /\ m.phase = "none"
  BY <1>2 DEF Idle
<1>4. caller' = [caller EXCEPT ![c] = m]
  BY <1>1, <1>2, Zenon
<1>5. Moves(c) /\ caller'[c] = m
  BY <1>4, Types, CallBecomes
<1>6. UNCHANGED <<row, charged, doubtful, uses, effects, executions, delivered, kind,
                  reservation, faults>>
  BY DEF Start, handlerVars, clientVars, chargeVars
<1>7. caller[c].pc = "idle"
  BY DEF Start, At
<1>8. CallOK(c)' /\ PaymentOK(c)' /\ ~ Spends(c)'
  BY <1>3, <1>5, <1>6 DEF CallOK, PaymentOK, Served, Spends
<1> QED
  BY <1>3, <1>5, <1>6, <1>7, <1>8, QuietKeeps, Types DEF Phases

LEMMA DeclineKeeps ==
    ASSUME PaidInv, NEW c \in Callers, Decline(c)
    PROVE  PaidInv'
<1>1. /\ caller' = [caller EXCEPT ![c] = Idle]
      /\ UNCHANGED <<row, charged, doubtful, uses, effects, executions, delivered, kind,
                     reservation>>
      /\ faults' = faults \/ Fault
      /\ caller[c].pc = "quoted"
  BY DEF Decline, At, handlerVars, clientVars, chargeVars
<1> QED
  BY <1>1, IdleKeeps, Types

LEMMA DropKeeps ==
    ASSUME PaidInv, NEW c \in Callers, Drop(c)
    PROVE  PaidInv'
<1>1. /\ caller' = [caller EXCEPT ![c] = Idle]
      /\ UNCHANGED <<row, charged, doubtful, uses, effects, executions, delivered, kind,
                     reservation, faults>>
      /\ caller[c].pc = "reply"
  BY DEF Drop, At, handlerVars, clientVars, chargeVars
<1> QED
  BY <1>1, IdleKeeps, Types

LEMMA GatewayCrashKeeps ==
    ASSUME PaidInv, NEW c \in Callers, GatewayCrash(c)
    PROVE  PaidInv'
<1>1. /\ caller' = [caller EXCEPT ![c] = Idle]
      /\ UNCHANGED <<row, charged, doubtful, uses, effects, executions, delivered, kind,
                     reservation>>
      /\ Fault
  BY DEF GatewayCrash, handlerVars, clientVars, chargeVars
<1> QED
  BY <1>1, IdleKeeps, Types

\* Giving up the wait changes nothing in the gateway.
LEMMA LostKeeps ==
    ASSUME PaidInv, NEW c \in Callers, Lost(c)
    PROVE  PaidInv'
<1>1. /\ UNCHANGED <<row, charged, doubtful, uses, effects, executions, delivered, kind,
                     reservation>>
      /\ Fault
  BY DEF Lost, handlerVars, clientVars, chargeVars
<1>2. CASE caller[c].pc \in Serving
  <2>1. caller' = [caller EXCEPT ![c] = [caller[c] EXCEPT !.waiting = FALSE]]
    BY <1>2 DEF Lost, Abandon
  <2>2. PICK old \in Call : old = caller[c]
    BY Types
  <2>3. PICK m \in Call : m = [old EXCEPT !.waiting = FALSE]
    BY DEF Call
  <2>4. /\ m.pc = old.pc /\ m.phase = old.phase /\ m.answer = old.answer
        /\ m.content = old.content
    BY <2>3 DEF Call
  <2>5. caller' = [caller EXCEPT ![c] = m]
    BY <2>1, <2>2, <2>3, Zenon
  <2>6. Moves(c) /\ caller'[c] = m
    BY <2>5, Types, CallBecomes
  <2>7. CallOK(c) /\ PaymentOK(c) /\ PhaseOK(c)
    BY DEF PaidInv, CallsOK, PaymentsOK
  <2>8. CallOK(c)' /\ PaymentOK(c)' /\ PhaseOK(c)' /\ (Spends(c)' <=> Spends(c))
    <3>1. CallOK(c)'
      BY <1>1, <2>2, <2>4, <2>6, <2>7 DEF CallOK, Served, Committed
    <3>2. PaymentOK(c)'
      BY <1>1, <2>2, <2>4, <2>6, <2>7 DEF PaymentOK, Served, Paid
    <3>3. Spends(c)' <=> Spends(c)
      BY <2>2, <2>4, <2>6 DEF Spends
    <3>4. PhaseOK(c)'
      BY <1>1, <2>2, <2>4, <2>6, <2>7 DEF PhaseOK, Unsettled, Moves
    <3> QED
      BY <3>1, <3>2, <3>3, <3>4
  <2> QED
    BY <1>1, <2>2, <2>4, <2>6, <2>8, QuietKeeps, Types DEF PhaseOK
<1>3. CASE caller[c].pc \notin Serving
  <2>1. caller' = [caller EXCEPT ![c] = Idle]
    BY <1>3 DEF Lost, Abandon
  <2> QED
    BY <1>1, <2>1, IdleKeeps, Types
<1> QED
  BY <1>2, <1>3

\* reservePayment writes one phase, when the client accounts for its payments.
LEMMA RecordedPhase ==
    ASSUME PaidInv, NEW phase \in Phases \cup {"none"},
           NEW state \in {"reserved", "settled", "released"},
           Recorded(phase, state)
    PROVE  /\ reservation' \in [Phases -> {"none", "reserved", "settled", "released"}]
           /\ \A p \in Phases : p # phase => reservation'[p] = reservation[p]
           /\ ~ kind.accounted => reservation' = reservation
           /\ kind.accounted /\ phase \in Phases => reservation'[phase] = state
BY Types DEF Recorded, Phases

LEMMA PayKeeps ==
    ASSUME PaidInv, NEW c \in Callers, NEW phase \in Phases, Pay(c, phase)
    PROVE  PaidInv'
<1>1. /\ caller' = [caller EXCEPT ![c].pc = "peek", ![c].phase = phase]
      /\ UNCHANGED <<row, charged, doubtful, uses, effects, executions, delivered,
                     kind, faults>>
      /\ caller[c].pc = "quoted"
      /\ kind.accounted => reservation[phase] = "none"
      /\ Recorded(phase, "reserved")
  BY DEF Pay, At, handlerVars, chargeVars
<1>2. /\ Moves(c) /\ caller'[c].pc = "peek" /\ caller'[c].phase = phase
      /\ caller'[c].content = caller[c].content
  <2>1. PICK old \in Call : old = caller[c]
    BY Types
  <2> DEFINE m == [old EXCEPT !.pc = "peek", !.phase = phase]
  <2>2. m \in Call /\ m.pc = "peek" /\ m.phase = phase /\ m.content = old.content
    BY DEF Call, Steps, Serving
  <2>3. caller' = [caller EXCEPT ![c] = m]
    BY <1>1, <2>1
  <2> HIDE DEF m
  <2> QED
    BY <2>1, <2>2, <2>3, Types, CallBecomes
<1>3. CallOK(c) /\ PaymentOK(c)
  BY DEF PaidInv, CallsOK, PaymentsOK
<1>4. CallOK(c)' /\ PaymentOK(c)' /\ ~ Spends(c)'
  <2>1. CallOK(c)'
    BY <1>1, <1>2, <1>3 DEF CallOK, Served
  <2>2. PaymentOK(c)'
    BY <1>1, <1>2, <1>3 DEF PaymentOK, Served
  <2> QED
    BY <1>2, <2>1, <2>2 DEF Spends
<1>5. kind.accounted => charged[phase] = 0
  BY <1>1, Types DEF PaidInv, ChargesAreReserved
<1>6. /\ reservation' \in [Phases -> {"none", "reserved", "settled", "released"}]
      /\ \A p \in Phases : reservation'[p] = reservation[p] \/ reservation[p] = "none"
      /\ kind.accounted => reservation'[phase] = "reserved"
  BY <1>1, RecordedPhase, Types
<1> QED
  BY <1>1, <1>2, <1>4, <1>5, <1>6, QuietKeeps, Types

LEMMA SignFailsKeeps ==
    ASSUME PaidInv, NEW c \in Callers, NEW phase \in Phases, SignFails(c, phase)
    PROVE  PaidInv'
<1>1. /\ caller' = [caller EXCEPT ![c] =
                IF phase = "full" THEN Idle ELSE [caller[c] EXCEPT !.tried = TRUE]]
      /\ UNCHANGED <<row, charged, doubtful, uses, effects, executions, delivered, kind>>
      /\ caller[c].pc = "quoted"
      /\ kind.accounted => reservation[phase] = "none"
      /\ Recorded(phase, "released")
      /\ Fault
  BY DEF SignFails, At, handlerVars, chargeVars
<1>2. /\ reservation' \in [Phases -> {"none", "reserved", "settled", "released"}]
      /\ \A p \in Phases : reservation'[p] = reservation[p] \/ reservation[p] = "none"
  BY <1>1, RecordedPhase, Types
<1>3. CASE phase = "full"
  <2>1. caller' = [caller EXCEPT ![c] = Idle]
    BY <1>1, <1>3
  <2> QED
    BY <1>1, <1>2, <2>1, IdleKeeps, Types
<1>4. CASE phase # "full"
  <2>1. caller' = [caller EXCEPT ![c] = [caller[c] EXCEPT !.tried = TRUE]]
    BY <1>1, <1>4
  <2>2. PICK old \in Call : old = caller[c]
    BY Types
  <2>3. PICK m \in Call : m = [old EXCEPT !.tried = TRUE]
    BY DEF Call
  <2>4. m.pc = old.pc /\ m.phase = old.phase /\ m.content = old.content
    BY <2>3 DEF Call
  <2>5. caller' = [caller EXCEPT ![c] = m]
    BY <2>1, <2>2, <2>3, Zenon
  <2>6. Moves(c) /\ caller'[c] = m
    BY <2>5, Types, CallBecomes
  <2>7. CallOK(c) /\ PaymentOK(c)
    BY DEF PaidInv, CallsOK, PaymentsOK
  <2>8. CallOK(c)' /\ PaymentOK(c)' /\ ~ Spends(c)' /\ m.phase = "none"
    <3>1. CallOK(c)'
      BY <1>1, <2>2, <2>4, <2>6, <2>7 DEF CallOK, Served
    <3>2. PaymentOK(c)'
      BY <1>1, <2>2, <2>4, <2>6, <2>7 DEF PaymentOK, Served
    <3>3. m.phase = "none"
      BY <1>1, <2>2, <2>4, <2>7 DEF CallOK
    <3> QED
      BY <2>6, <3>1, <3>2, <3>3 DEF Spends
  <2> QED
    BY <1>1, <1>2, <2>2, <2>4, <2>6, <2>8, QuietKeeps, Types DEF Phases
<1> QED
  BY <1>3, <1>4

\* The gateway answers and leaves the rest alone: with what is on record for the
\* call, or with a failure that a paid call is not refused its payment by.
LEMMA AnsweredKeeps ==
    ASSUME PaidInv, NEW c \in Callers, NEW a \in Answer, AnswerWith(c, a),
           UNCHANGED <<row, charged, doubtful, effects, executions, delivered, kind,
                       reservation>>,
           uses' \in uses..kind.allowance,
           faults' \in faults..MaxFaults,
           caller[c].pc \in Serving,
           caller[c].pc \in {"handle", "mark"} => faults' = faults + 1 \/ row.token # c,
           a.status = 402 => kind.priced /\ Unsettled(c),
           a.status = 200 => /\ row.state \in {"effect_committed", "completed"}
                             /\ row.content = caller[c].content
                             /\ row.answer = a
                             /\ kind.priced => Paid
    PROVE  PaidInv'
<1>1. /\ Moves(c) /\ caller'[c].pc = "reply" /\ caller'[c].answer = a
      /\ caller'[c].content = caller[c].content
      /\ caller'[c].phase = caller[c].phase
  BY Types, AnsweredCall
<1>2. CallOK(c) /\ PaymentOK(c) /\ PhaseOK(c)
  BY DEF PaidInv, CallsOK, PaymentsOK
<1>3. CallOK(c)'
  BY <1>1, <1>2 DEF CallOK, Served, Committed, Serving
<1>4. PaymentOK(c)'
  BY <1>1, <1>2 DEF PaymentOK, Served, Paid
<1>5. ~ Spends(c)'
  BY <1>1 DEF Spends
<1>6. ASSUME caller'[c].phase \in Phases, kind.accounted
      PROVE  /\ reservation'[caller'[c].phase] = "reserved"
             /\ Unsettled(c)' => charged[caller'[c].phase] = 0
  BY <1>1, <1>2, <1>6 DEF PhaseOK, Unsettled
<1> QED
  BY <1>1, <1>3, <1>4, <1>5, <1>6, QuietKeeps, Types

\* verifiedDiscountHook and the paywall: a payment is let through, with a use of
\* the allowance counted for a discounted one, or refused.
LEMMA VerifyKeeps ==
    ASSUME PaidInv, NEW c \in Callers, caller[c].pc = "peek", Verify(c),
           UNCHANGED <<row, charged, doubtful, effects, executions, delivered, kind,
                       reservation>>
    PROVE  PaidInv'
<1>1. CallOK(c) /\ PaymentOK(c) /\ PhaseOK(c)
  BY DEF PaidInv, CallsOK, PaymentsOK
<1>2. caller[c].phase \in Phases \cup {"none"}
  BY Types DEF Call
<1>3. uses' \in uses..kind.allowance /\ faults' \in faults..MaxFaults
  BY Types DEF Verify, TryIncrementUsage, Goto, AnswerWith
<1>4. CASE Goto(c, "acquire") /\ (kind.priced => caller[c].phase \in Phases)
             /\ (caller[c].phase = "discount" /\ kind.priced => uses' = uses + 1)
  <2>1. /\ Moves(c) /\ caller'[c].pc = "acquire"
        /\ caller'[c].content = caller[c].content
        /\ caller'[c].phase = caller[c].phase
    BY <1>4, Types, GotoCall DEF Steps, Serving
  <2>2. CallOK(c)'
    BY <1>1, <2>1 DEF CallOK, Served
  <2>3. PaymentOK(c)'
    BY <1>1, <1>4, <2>1 DEF PaymentOK, Served
  <2>4. Spends(c)' => uses' = uses + 1
    BY <1>1, <1>4, <2>1 DEF Spends, PaymentOK
  <2>5. ASSUME caller'[c].phase \in Phases, kind.accounted
        PROVE  /\ reservation'[caller'[c].phase] = "reserved"
               /\ charged[caller'[c].phase] = 0
    BY <1>1, <2>1, <2>5 DEF PhaseOK, Unsettled
  <2> QED
    BY <1>3, <2>1, <2>2, <2>3, <2>4, <2>5, QuietKeeps, Types
<1>5. CASE AnswerWith(c, Failing(402)) /\ kind.priced
  <2>1. PICK a \in Answer : a = Failing(402)
    BY CallFields
  <2>2. AnswerWith(c, a) /\ a.status = 402
    BY <1>5, <2>1 DEF Failing
  <2> QED
    BY <1>3, <1>5, <2>2, AnsweredKeeps DEF Unsettled, Serving
<1> QED
  BY <1>1, <1>2, <1>4, <1>5 DEF Verify, TryIncrementUsage, PaymentOK, Phases

LEMMA PeekKeeps ==
    ASSUME PaidInv, NEW c \in Callers, Peek(c)
    PROVE  PaidInv'
<1>1. /\ UNCHANGED <<row, charged, doubtful, effects, executions, delivered, kind,
                     reservation>>
      /\ caller[c].pc = "peek"
  BY DEF Peek, At, clientVars, chargeVars
<1>2. CASE AnswerWith(c, Failing(409)) /\ UNCHANGED <<uses, faults>>
  <2>1. PICK a \in Answer : a = Failing(409)
    BY CallFields
  <2>2. AnswerWith(c, a) /\ a.status = 409
    BY <1>2, <2>1 DEF Failing
  <2> QED
    BY <1>1, <1>2, <2>2, AnsweredKeeps, Types DEF Serving
<1>3. CASE /\ AnswerWith(c, row.answer) /\ UNCHANGED <<uses, faults>>
           /\ row.state \in {"completed", "failed"}
           /\ row.content = caller[c].content
  <2>1. PICK a \in Answer : a = row.answer
    BY Types DEF Request
  <2>2. a.status # 402 /\ (a.status = 200 => row.state = "completed")
    BY <1>3, <2>1 DEF PaidInv, RowOK
  <2>3. kind.priced /\ row.state = "completed" => Paid
    BY DEF PaidInv, PaidForEffect, Paid
  <2>4. AnswerWith(c, a)
    BY <1>3, <2>1
  <2> QED
    BY <1>1, <1>3, <2>1, <2>2, <2>3, <2>4, AnsweredKeeps, Types DEF Serving
<1>4. CASE Verify(c)
  BY <1>1, <1>4, VerifyKeeps
<1> QED
  BY <1>1, <1>2, <1>3, <1>4 DEF Peek

\* The client reads its answer: the call ends, goes on to pay, or starts again
\* without the discount.
LEMMA ReceivedCall ==
    ASSUME PaidInv, NEW c \in Callers, Receive(c)
    PROVE  /\ Moves(c)
           /\ caller'[c].phase = "none"
           /\ caller'[c].pc \in {"idle", "quoted", "peek"}
           /\ caller'[c].pc # "idle" => caller'[c].content = caller[c].content
           /\ caller'[c].pc = "quoted" => caller[c].answer.status = 402
<1>1. PICK old \in Call : old = caller[c]
  BY Types
<1>2. NoBody \in Answer /\ {"quoted", "peek"} \subseteq Steps
  BY CallFields DEF Steps, Serving
<1>3. PICK quoted \in Call : quoted = [old EXCEPT !.pc = "quoted", !.answer = NoBody]
  BY <1>2 DEF Call
<1>4. PICK again \in Call : again = [old EXCEPT !.pc = "peek", !.phase = "none",
                                                !.tried = TRUE, !.answer = NoBody]
  BY <1>2 DEF Call
<1>5. PICK idle \in Call : idle = Idle
  BY CallFields
<1>6. /\ quoted.pc = "quoted" /\ quoted.phase = old.phase /\ quoted.content = old.content
      /\ again.pc = "peek" /\ again.phase = "none" /\ again.content = old.content
      /\ idle.pc = "idle" /\ idle.phase = "none"
  BY <1>3, <1>4, <1>5, CallFields DEF Call
<1>7. caller' = [caller EXCEPT ![c] =
            IF Quoted(old) THEN quoted
            ELSE IF old.phase = "discount" /\ old.answer.status = 402 THEN again
            ELSE idle]
  BY <1>1, <1>3, <1>4, <1>5, Zenon DEF Receive
<1>8. CASE Quoted(old)
  <2>1. caller' = [caller EXCEPT ![c] = quoted]
    BY <1>7, <1>8
  <2>2. Moves(c) /\ caller'[c] = quoted
    BY <2>1, Types, CallBecomes
  <2> QED
    BY <1>1, <1>6, <1>8, <2>2 DEF Quoted
<1>9. CASE ~ Quoted(old) /\ old.phase = "discount" /\ old.answer.status = 402
  <2>1. caller' = [caller EXCEPT ![c] = again]
    BY <1>7, <1>9
  <2>2. Moves(c) /\ caller'[c] = again
    BY <2>1, Types, CallBecomes
  <2> QED
    BY <1>1, <1>6, <2>2
<1>10. CASE ~ Quoted(old) /\ ~ (old.phase = "discount" /\ old.answer.status = 402)
  <2>1. caller' = [caller EXCEPT ![c] = idle]
    BY <1>7, <1>10
  <2>2. Moves(c) /\ caller'[c] = idle
    BY <2>1, Types, CallBecomes
  <2> QED
    BY <1>6, <2>2
<1> QED
  BY <1>8, <1>9, <1>10

LEMMA ReceiveKeeps ==
    ASSUME PaidInv, NEW c \in Callers, Receive(c)
    PROVE  PaidInv'
<1>1. /\ UNCHANGED <<row, charged, doubtful, uses, effects, executions, kind, faults>>
      /\ caller[c].pc = "reply"
      /\ Recorded(caller[c].phase,
            IF caller[c].answer.status = 402 THEN "released" ELSE "settled")
      /\ delivered' =
            IF caller[c].answer.status \notin {200, 422} THEN delivered
            ELSE delivered \cup {[content |-> caller[c].content,
                                  answer |-> caller[c].answer]}
  BY DEF Receive, At, handlerVars, chargeVars
<1>2. /\ Moves(c)
      /\ caller'[c].phase = "none"
      /\ caller'[c].pc \in {"idle", "quoted", "peek"}
      /\ caller'[c].pc # "idle" => caller'[c].content = caller[c].content
      /\ caller'[c].pc = "quoted" => caller[c].answer.status = 402
  BY ReceivedCall
<1>3. CallOK(c) /\ PaymentOK(c) /\ PhaseOK(c)
  BY DEF PaidInv, CallsOK, PaymentsOK
<1>4. CallOK(c)'
  BY <1>1, <1>2, <1>3 DEF CallOK, Served
<1>5. PaymentOK(c)'
  BY <1>1, <1>2, <1>3 DEF PaymentOK, Served
<1>6. ~ Spends(c)'
  BY <1>2 DEF Spends
<1>7. RowOK' /\ CallsOK' /\ DiscountsCounted' /\ ExecutionsCounted'
  BY <1>1, <1>2, <1>4, <1>6, QuietStep, Types
<1>8. caller[c].phase \in Phases \cup {"none"} /\ caller[c].answer \in Answer
  BY Types DEF Call
<1>9. /\ reservation' \in [Phases -> {"none", "reserved", "settled", "released"}]
      /\ \A p \in Phases : p # caller[c].phase => reservation'[p] = reservation[p]
      /\ ~ kind.accounted => reservation' = reservation
      /\ kind.accounted /\ caller[c].phase \in Phases =>
            reservation'[caller[c].phase] =
                IF caller[c].answer.status = 402 THEN "released" ELSE "settled"
  BY <1>1, <1>8, RecordedPhase
<1>10. PaymentsOK'
  BY <1>1, <1>2, <1>5, <1>9, QuietPayments DEF Phases
<1>11. ChargesAreReserved'
  <2>1. kind.accounted /\ caller[c].phase \in Phases /\ caller[c].answer.status = 402
            => charged[caller[c].phase] = 0 \/ caller[c].phase \in doubtful
    BY <1>1, <1>3 DEF PhaseOK, Unsettled
  <2>2. \A p \in Phases : kind.accounted =>
            \/ reservation'[p] = reservation[p]
            \/ charged[p] = 0
            \/ reservation'[p] = "settled"
            \/ reservation'[p] = "released" /\ p \in doubtful
    BY <1>9, <2>1
  <2> QED
    BY <1>1, <2>2, QuietCharges
<1>12. caller[c].answer.status = 200 =>
            /\ Committed /\ row.content = caller[c].content
            /\ row.answer = caller[c].answer
            /\ row.answer.run \in effects
            /\ kind.priced => Paid
  BY <1>1, <1>3 DEF CallOK, PaymentOK, Served, PaidInv, RowOK
<1>13. AnswersAgree'
  <2> SUFFICES ASSUME NEW d \in delivered', d.answer.status = 200
               PROVE  /\ row.state \in {"effect_committed", "completed"}
                      /\ row.content = d.content
                      /\ row.answer = d.answer
                      /\ d.answer.run \in effects
    BY <1>1 DEF AnswersAgree
  <2>1. CASE d \in delivered
    BY <2>1 DEF PaidInv, AnswersAgree
  <2>2. CASE d \notin delivered
    <3>1. d.content = caller[c].content /\ d.answer = caller[c].answer
      BY <1>1, <2>2
    <3> QED
      BY <1>12, <3>1 DEF Committed
  <2> QED
    BY <2>1, <2>2
<1>14. PaidForEffect'
  <2>1. PaidForEffect
    BY DEF PaidInv
  <2>2. kind.priced /\ (\E d \in delivered' : d.answer.status = 200) => Paid
    <3> SUFFICES ASSUME kind.priced, NEW d \in delivered', d.answer.status = 200
                 PROVE  Paid
      OBVIOUS
    <3>1. CASE d \in delivered
      BY <2>1, <3>1 DEF PaidForEffect, Paid
    <3>2. CASE d \notin delivered
      <4>1. d.answer = caller[c].answer
        BY <1>1, <3>2
      <4> QED
        BY <1>12, <4>1
    <3> QED
      BY <3>1, <3>2
  <2> QED
    BY <1>1, <2>1, <2>2 DEF PaidForEffect, Paid
<1>15. RequestTypeOK'
  <2>1. delivered' \subseteq [content : Contents, answer : Answer]
    <3>1. caller[c].content \in Contents
      BY <1>1, <1>3 DEF CallOK
    <3>2. delivered \subseteq [content : Contents, answer : Answer]
      BY Types
    <3> QED
      BY <1>1, <1>8, <3>1, <3>2
  <2>2. caller' \in [Callers -> Call]
    BY <1>2 DEF Moves
  <2> QED
    BY <1>1, <1>9, <2>1, <2>2 DEF PaidInv, RequestTypeOK
<1> QED
  BY <1>7, <1>10, <1>11, <1>13, <1>14, <1>15 DEF PaidInv

----------------------------------------------------------------------------
\* The steps of the gateway that write the row.

\* The lease of an open request is given to a call, which goes to the handler.
LEMMA HoldKeeps ==
    ASSUME PaidInv, NEW c \in Callers,
           caller[c].pc = "acquire",
           \/ row.state = "absent"
           \/ row.state = "in_flight" /\ ~ row.leased,
           Hold(c, "in_flight"), Goto(c, "handle"),
           UNCHANGED <<charged, doubtful, uses, effects, executions, delivered, kind,
                       reservation, faults>>
    PROVE  PaidInv'
<1>1. /\ Moves(c) /\ caller'[c].pc = "handle"
      /\ caller'[c].content = caller[c].content
      /\ caller'[c].phase = caller[c].phase
  BY Types, GotoCall DEF Steps, Serving
<1>2. /\ row' \in Request /\ row'.state = "in_flight" /\ row'.token = c /\ row'.leased
      /\ row'.content = caller[c].content /\ row'.answer = row.answer
  <2>1. caller[c].content \in Contents \cup {None}
    BY Types DEF Call
  <2> QED
    BY <2>1, Types DEF Hold, Request, States
<1>3. CallOK(c) /\ PaymentOK(c) /\ PhaseOK(c)
  BY DEF PaidInv, CallsOK, PaymentsOK
<1>4. ~ Committed
  BY DEF Committed
<1>5. RowOK'
  BY <1>2, <1>3 DEF PaidInv, RowOK, CallOK, Committed
<1>6. CallsOK'
  <2> SUFFICES ASSUME NEW d \in Callers PROVE HoldsOpen(d)' /\ CallOK(d)'
    BY DEF CallsOK
  <2>1. CASE d = c
    BY <1>1, <1>2, <1>3, <2>1 DEF HoldsOpen, CallOK, Served
  <2>2. CASE d # c
    <3>1. CallOK(d) /\ caller'[d] = caller[d]
      BY <1>1, <2>2 DEF PaidInv, CallsOK, Moves
    <3> QED
      BY <1>2, <1>4, <2>2, <3>1 DEF HoldsOpen, CallOK, Served
  <2> QED
    BY <2>1, <2>2
<1>7. PaymentsOK'
  <2>1. PaymentOK(c)'
    BY <1>1, <1>3 DEF PaymentOK, Served
  <2>2. caller'[c].phase \in Phases /\ kind.accounted =>
            /\ reservation'[caller'[c].phase] = "reserved"
            /\ charged[caller'[c].phase] = 0
    BY <1>1, <1>3 DEF PhaseOK, Unsettled
  <2> QED
    BY <1>1, <2>1, <2>2, QuietPayments
<1>8. DiscountsCounted'
  <2>1. Spends(c)' <=> Spends(c)
    BY <1>1 DEF Spends
  <2> HIDE DEF Spends
  <2> QED
    BY <1>1, <2>1, CountsMove, Types DEF PaidInv, DiscountsCounted, Phases
<1>9. ExecutionsCounted'
  <2>1. Free /\ ~ Free' /\ ~ Handles(c) /\ Handles(c)'
    BY <1>1, <1>2 DEF Free, Attended, Handles
  <2>2. executions \in Nat /\ faults \in Nat
    BY Types, PaidAssumption DEF PaidAssumption, Runs
  <2> QED
    BY <1>1, <2>1, <2>2, CountsMove DEF PaidInv, ExecutionsCounted
<1>10. AnswersAgree' /\ PaidForEffect' /\ ChargesAreReserved'
  BY <1>2, <1>4 DEF PaidInv, AnswersAgree, PaidForEffect, ChargesAreReserved, Committed
<1>11. RequestTypeOK'
  <2>1. row'.state # "absent" /\ row'.token # None
    BY <1>2, PaidAssumption DEF PaidAssumption
  <2>2. row'.state \notin {"effect_committed", "completed"}
    BY <1>2
  <2> QED
    BY <1>1, <1>2, <2>1, <2>2 DEF PaidInv, RequestTypeOK, Moves
<1> QED
  BY <1>5, <1>6, <1>7, <1>8, <1>9, <1>10, <1>11 DEF PaidInv

\* A call goes on with an answer, by what kind of answer it is.
LEMMA ReplayedCall ==
    ASSUME PaidInv, NEW c \in Callers, NEW a \in Answer,
           caller' = [caller EXCEPT ![c] =
                [caller[c] EXCEPT !.pc = AfterHandler(a), !.answer = a]]
    PROVE  /\ Moves(c)
           /\ caller'[c].pc = AfterHandler(a)
           /\ caller'[c].answer = a
           /\ caller'[c].phase = caller[c].phase
           /\ caller'[c].content = caller[c].content
<1>1. PICK old \in Call : old = caller[c]
  BY Types
<1>2. PICK step \in {"settle", "complete", "reply"} : step = AfterHandler(a)
  BY DEF AfterHandler
<1>3. PICK m \in Call : m = [old EXCEPT !.pc = step, !.answer = a]
  BY DEF Call, Steps, Serving
<1>4. m.pc = step /\ m.answer = a /\ m.phase = old.phase /\ m.content = old.content
  BY <1>3 DEF Call
<1>5. caller' = [caller EXCEPT ![c] = m]
  BY <1>1, <1>2, <1>3, Zenon
<1>6. Moves(c) /\ caller'[c] = m
  BY <1>5, Types, CallBecomes
<1> QED
  BY <1>1, <1>2, <1>4, <1>6

\* A call is given the token of a request that is final or has its effect, and the
\* answer on record.
LEMMA ReplayKeeps ==
    ASSUME PaidInv, NEW c \in Callers,
           caller[c].pc = "acquire",
           row.state \in {"effect_committed", "completed", "failed"},
           row.content = caller[c].content,
           row' \in Request, row'.token = c, row'.state = row.state,
           row'.content = row.content, row'.answer = row.answer,
           Moves(c),
           caller'[c].pc = AfterHandler(row.answer),
           caller'[c].answer = row.answer,
           caller'[c].phase = caller[c].phase,
           caller'[c].content = caller[c].content,
           UNCHANGED <<charged, doubtful, uses, effects, executions, delivered, kind,
                       reservation, faults>>
    PROVE  PaidInv'
<1>1. CallOK(c) /\ PaymentOK(c) /\ PhaseOK(c)
  BY DEF PaidInv, CallsOK, PaymentsOK
<1>2. /\ row.answer.status # 402
      /\ row.answer.status = 200 => Committed
  BY DEF PaidInv, RowOK, Committed
<1>3. \/ /\ caller'[c].pc = "settle" /\ row.answer.status = 200 /\ kind.priced
      \/ /\ caller'[c].pc = "complete" /\ row.answer.status = 200 /\ ~ kind.priced
      \/ /\ caller'[c].pc = "reply" /\ row.answer.status # 200
  BY DEF AfterHandler
<1>4. Committed' <=> Committed
  BY DEF Committed
<1>5. RowOK'
  BY <1>4 DEF PaidInv, RowOK
<1>6. CallsOK'
  <2> SUFFICES ASSUME NEW d \in Callers PROVE HoldsOpen(d)' /\ CallOK(d)'
    BY DEF CallsOK
  <2>1. CASE d = c
    BY <1>1, <1>2, <1>3, <1>4, <2>1 DEF HoldsOpen, CallOK, Served
  <2>2. CASE d # c
    <3>1. CallOK(d) /\ caller'[d] = caller[d]
      BY <2>2 DEF PaidInv, CallsOK, Moves
    <3> QED
      BY <1>4, <2>2, <3>1 DEF HoldsOpen, CallOK, Served
  <2> QED
    BY <2>1, <2>2
<1>7. PaymentsOK'
  <2>1. PaymentOK(c)'
    BY <1>3, <1>1, <1>2 DEF PaymentOK, Served
  <2>2. caller'[c].phase \in Phases /\ kind.accounted =>
            /\ reservation'[caller'[c].phase] = "reserved"
            /\ charged[caller'[c].phase] = 0
    BY <1>1 DEF PhaseOK, Unsettled
  <2> QED
    BY <2>1, <2>2, QuietPayments
<1>8. DiscountsCounted'
  <2>1. Spends(c)' => Spends(c)
    BY DEF Spends
  <2> HIDE DEF Spends
  <2> QED
    BY <2>1, CountsMove, Types DEF PaidInv, DiscountsCounted, Phases
<1>9. ExecutionsCounted'
  <2>1. ~ Free /\ ~ Free' /\ ~ Handles(c) /\ ~ Handles(c)'
    BY <1>3 DEF Free, Handles
  <2>2. executions \in Nat /\ faults \in Nat
    BY Types, PaidAssumption DEF PaidAssumption, Runs
  <2> QED
    BY <2>1, <2>2, CountsMove DEF PaidInv, ExecutionsCounted
<1>10. AnswersAgree' /\ PaidForEffect' /\ ChargesAreReserved'
  BY DEF PaidInv, AnswersAgree, PaidForEffect, ChargesAreReserved
<1>11. RequestTypeOK'
  <2>1. row'.state # "absent" /\ row'.token # None
    BY PaidAssumption DEF PaidAssumption
  <2> QED
    BY <2>1 DEF PaidInv, RequestTypeOK, Moves
<1> QED
  BY <1>5, <1>6, <1>7, <1>8, <1>9, <1>10, <1>11 DEF PaidInv

LEMMA AcquireKeeps ==
    ASSUME PaidInv, NEW c \in Callers, Acquire(c)
    PROVE  PaidInv'
<1>1. /\ UNCHANGED <<charged, doubtful, uses, effects, executions, delivered, kind,
                     reservation, faults>>
      /\ caller[c].pc = "acquire"
  BY DEF Acquire, At, handlerVars, clientVars, chargeVars
<1>2. row.answer \in Answer /\ caller[c].content \in Contents \cup {None}
  BY Types DEF Request, Call
<1>3. CASE \E status \in {409, 503} : AnswerWith(c, Failing(status)) /\ UNCHANGED row
  <2>1. PICK status \in {409, 503} : AnswerWith(c, Failing(status)) /\ UNCHANGED row
    BY <1>3
  <2>2. PICK a \in Answer : a = Failing(status)
    BY CallFields
  <2>3. AnswerWith(c, a) /\ a.status \in {409, 503}
    BY <2>1, <2>2 DEF Failing
  <2> QED
    BY <1>1, <2>1, <2>3, AnsweredKeeps, Types DEF Serving
<1>4. CASE /\ \/ row.state = "absent"
              \/ row.state = "in_flight" /\ ~ row.leased
           /\ Hold(c, "in_flight") /\ Goto(c, "handle")
  BY <1>1, <1>4, HoldKeeps
<1>5. CASE /\ row.state \in {"effect_committed", "completed", "failed"}
           /\ row.content = caller[c].content
           /\ \/ row.state = "effect_committed" /\ Hold(c, "effect_committed")
              \/ row' = [row EXCEPT !.token = c]
           /\ caller' = [caller EXCEPT ![c] =
                [caller[c] EXCEPT !.pc = AfterHandler(row.answer),
                                  !.answer = row.answer]]
  <2>1. /\ row' \in Request /\ row'.token = c /\ row'.state = row.state
        /\ row'.content = row.content /\ row'.answer = row.answer
    <3>1. CASE row.state = "effect_committed" /\ Hold(c, "effect_committed")
      <4>1. row.state \in States
        BY Types DEF Request
      <4> QED
        BY <1>2, <1>5, <3>1, <4>1, Types DEF Hold, Request
    <3>2. CASE row' = [row EXCEPT !.token = c]
      BY <3>2, Types DEF Request
    <3> QED
      BY <1>5, <3>1, <3>2
  <2>2. PICK a \in Answer : a = row.answer
    BY <1>2
  <2>3. caller' = [caller EXCEPT ![c] =
                [caller[c] EXCEPT !.pc = AfterHandler(a), !.answer = a]]
    BY <1>5, <2>2
  <2>4. /\ Moves(c)
        /\ caller'[c].pc = AfterHandler(a)
        /\ caller'[c].answer = a
        /\ caller'[c].phase = caller[c].phase
        /\ caller'[c].content = caller[c].content
    BY <2>3, ReplayedCall
  <2> QED
    BY <1>1, <1>5, <2>1, <2>2, <2>4, ReplayKeeps
<1> QED
  BY <1>3, <1>4, <1>5 DEF Acquire

\* What a handler does, by its answer.
LEMMA MarkedCall ==
    ASSUME caller \in [Callers -> Call], NEW c \in Callers, NEW a \in Answer,
           caller' = [caller EXCEPT ![c].pc = "mark", ![c].answer = a]
    PROVE  /\ Moves(c) /\ caller'[c].pc = "mark"
           /\ caller'[c].content = caller[c].content
           /\ caller'[c].phase = caller[c].phase
           /\ caller'[c].answer = a
BY DEF Moves, Call, Steps, Serving

LEMMA HandledCall ==
    ASSUME PaidInv, NEW c \in Callers, Handle(c), executions + 1 \in Runs
    PROVE  /\ Moves(c) /\ caller'[c].pc = "mark"
           /\ caller'[c].content = caller[c].content
           /\ caller'[c].phase = caller[c].phase
           /\ caller'[c].answer.status \in {200, 422, 500, 503}
           /\ caller'[c].answer.status = 200 => caller'[c].answer.run \in effects'
           /\ caller'[c].answer.status = 503 => faults' = faults + 1
           /\ effects \subseteq effects' /\ effects' \subseteq Runs
           /\ faults' \in faults..MaxFaults
<1> DEFINE Ends(a) == caller' = [caller EXCEPT ![c].pc = "mark", ![c].answer = a]
<1>1. PICK run \in Runs : run = executions + 1
  OBVIOUS
<1>2. \/ effects' = effects \cup {run} /\ faults' = faults /\ Ends(Success(run))
      \/ effects' = effects /\ faults' = faults /\ Ends(Failing(422))
      \/ effects' = effects /\ Fault /\ Ends(Failing(503))
      \/ effects' \in {effects, effects \cup {run}} /\ Fault /\ Ends(Failing(500))
  BY <1>1 DEF Handle
<1>3. ASSUME NEW a \in Answer, Ends(a)
      PROVE  /\ Moves(c) /\ caller'[c].pc = "mark"
             /\ caller'[c].content = caller[c].content
             /\ caller'[c].phase = caller[c].phase
             /\ caller'[c].answer = a
  BY <1>3, MarkedCall, Types
<1> HIDE DEF Ends
<1>4. CASE effects' = effects \cup {run} /\ faults' = faults /\ Ends(Success(run))
  <2>1. PICK a \in Answer : a = Success(run)
    BY CallFields
  <2>2. a.status = 200 /\ a.run = run
    BY <2>1 DEF Success
  <2> QED
    BY <1>3, <1>4, <2>1, <2>2, Types
<1>5. CASE /\ effects' \in {effects, effects \cup {run}}
           /\ \E s \in {422, 500, 503} :
                /\ Ends(Failing(s))
                /\ IF s = 422 THEN faults' = faults ELSE Fault
  <2>1. PICK s \in {422, 500, 503} :
            Ends(Failing(s)) /\ (IF s = 422 THEN faults' = faults ELSE Fault)
    BY <1>5
  <2>2. PICK a \in Answer : a = Failing(s)
    BY CallFields
  <2>3. a.status = s
    BY <2>2 DEF Failing
  <2> QED
    BY <1>3, <1>5, <2>1, <2>2, <2>3, Types
<1> QED
  BY <1>2, <1>4, <1>5

LEMMA HandleKeeps ==
    ASSUME PaidInv, NEW c \in Callers, Handle(c)
    PROVE  PaidInv'
<1>1. /\ UNCHANGED <<row, charged, doubtful, uses, delivered, kind, reservation>>
      /\ caller[c].pc = "handle"
      /\ executions' = executions + 1
  BY DEF Handle, At, clientVars, chargeVars
<1>2. executions \in Nat /\ faults \in Nat /\ faults <= MaxFaults /\ MaxFaults \in Nat
  BY Types, PaidAssumption DEF PaidAssumption, Runs
<1>3. executions + 1 \in Runs
  <2>1. c \in Handling /\ IsFiniteSet(Handling)
    BY <1>1, FS_Subset, PaidAssumption DEF PaidAssumption, Handling, Handles
  <2>2. Cardinality(Handling) \in Nat /\ Cardinality(Handling) # 0
    BY <2>1, FS_CardinalityType, FS_EmptySet
  <2>3. executions + Cardinality(Handling) <= faults + 1
    BY <1>2, <2>2 DEF PaidInv, ExecutionsCounted
  <2> QED
    BY <1>2, <2>2, <2>3 DEF Runs
<1>4. /\ Moves(c) /\ caller'[c].pc = "mark"
      /\ caller'[c].content = caller[c].content
      /\ caller'[c].phase = caller[c].phase
      /\ caller'[c].answer.status \in {200, 422, 500, 503}
      /\ caller'[c].answer.status = 200 => caller'[c].answer.run \in effects'
      /\ caller'[c].answer.status = 503 => faults' = faults + 1
      /\ effects \subseteq effects' /\ effects' \subseteq Runs
      /\ faults' \in faults..MaxFaults
  BY <1>3, HandledCall
<1>5. HoldsOpen(c) /\ CallOK(c) /\ PaymentOK(c) /\ PhaseOK(c)
  BY DEF PaidInv, CallsOK, PaymentsOK
<1>6. RowOK'
  BY <1>1, <1>4 DEF PaidInv, RowOK, Committed
<1>7. CallsOK'
  <2> SUFFICES ASSUME NEW d \in Callers PROVE HoldsOpen(d)' /\ CallOK(d)'
    BY DEF CallsOK
  <2>1. CASE d = c
    BY <1>1, <1>4, <1>5, <2>1 DEF HoldsOpen, CallOK, Served
  <2>2. CASE d # c
    <3>1. HoldsOpen(d) /\ CallOK(d) /\ caller'[d] = caller[d]
      BY <1>4, <2>2 DEF PaidInv, CallsOK, Moves
    <3> QED
      BY <1>1, <1>4, <3>1 DEF HoldsOpen, CallOK, Served, Committed
  <2> QED
    BY <2>1, <2>2
<1>8. PaymentsOK'
  <2>1. PaymentOK(c)'
    BY <1>1, <1>4, <1>5 DEF PaymentOK, Served
  <2>2. caller'[c].phase \in Phases /\ kind.accounted =>
            /\ reservation'[caller'[c].phase] = "reserved"
            /\ charged[caller'[c].phase] = 0
    BY <1>1, <1>4, <1>5 DEF PhaseOK, Unsettled
  <2> QED
    BY <1>1, <1>4, <2>1, <2>2, QuietPayments
<1>9. DiscountsCounted'
  <2>1. Spends(c)' <=> Spends(c)
    BY <1>1, <1>4 DEF Spends
  <2> HIDE DEF Spends
  <2> QED
    BY <1>1, <1>4, <2>1, CountsMove, Types DEF PaidInv, DiscountsCounted, Phases
<1>10. ExecutionsCounted'
  <2>1. Handles(c) /\ ~ Handles(c)'
    BY <1>1, <1>4 DEF Handles
  <2>2. Free' => Free \/ faults' = faults + 1
    <3> SUFFICES ASSUME ~ Free, Free' PROVE faults' = faults + 1
      OBVIOUS
    <3>1. row.state = "in_flight" /\ Attended /\ ~ Attended'
      BY <1>1 DEF Free
    <3>2. row.token \in Callers
      BY <3>1, PaidAssumption DEF PaidInv, RequestTypeOK, Request, States
    <3>3. row.token = c
      BY <1>1, <1>4, <3>1, <3>2 DEF Attended, Moves
    <3> QED
      BY <1>1, <1>4, <3>1, <3>3 DEF Attended
  <2>3. faults' \in Nat /\ faults' >= faults
    BY <1>2, <1>4
  <2> HIDE DEF Free, Handles
  <2> QED
    BY <1>1, <1>2, <1>4, <2>1, <2>2, <2>3, CountsMove DEF PaidInv, ExecutionsCounted
<1>11. AnswersAgree' /\ PaidForEffect' /\ ChargesAreReserved'
  BY <1>1, <1>4 DEF PaidInv, AnswersAgree, PaidForEffect, ChargesAreReserved
<1>12. RequestTypeOK'
  <2>1. faults' \in 0..MaxFaults
    BY <1>2, <1>4
  <2> QED
    BY <1>1, <1>3, <1>4, <2>1 DEF PaidInv, RequestTypeOK, Moves
<1> QED
  BY <1>6, <1>7, <1>8, <1>9, <1>10, <1>11, <1>12 DEF PaidInv

\* The row a handler's answer leaves to its holder.
LEMMA WrittenRow ==
    ASSUME row \in Request, NEW s \in States, NEW b \in Answer
    PROVE  /\ Written(s, b) \in Request
           /\ Written(s, b).token = row.token
           /\ Written(s, b).content = row.content
           /\ ~ Written(s, b).leased
           /\ Written(s, b).state = s
           /\ Written(s, b).answer = b
BY DEF Request, Written

LEMMA OutcomeRow ==
    ASSUME row \in Request, NEW a \in Answer, a.status \in {200, 422, 500, 503}
    PROVE  /\ Outcome(a) \in Request
           /\ Outcome(a).token = row.token
           /\ Outcome(a).content = row.content
           /\ ~ Outcome(a).leased
           /\ a.status = 200 => /\ Outcome(a).state = "effect_committed"
                                /\ Outcome(a).answer = a
           /\ a.status = 503 => Outcome(a).state = "in_flight"
           /\ a.status \in {422, 500} => Outcome(a).state = "failed"
           /\ Outcome(a).answer.status = a.status
<1>1. PICK old \in Answer : old = row.answer
  BY DEF Request
<1>2. [old EXCEPT !.status = 500] \in Answer /\ [old EXCEPT !.status = 500].status = 500
  BY DEF Answer
<1>3. PICK b \in Answer : b = [old EXCEPT !.status = 500]
  BY <1>2
<1>4. b.status = 500
  BY <1>2, <1>3
<1>5. Outcome(a) = CASE a.status = 200 -> Written("effect_committed", a)
                     [] a.status = 503 -> Written("in_flight", a)
                     [] a.status = 422 -> Written("failed", a)
                     [] a.status = 500 -> Written("failed", b)
  BY <1>1, <1>3, Zenon DEF Outcome
<1>6. {"effect_committed", "in_flight", "failed"} \subseteq States
  BY DEF States
<1>7. CASE a.status = 200
  <2>1. Outcome(a) = Written("effect_committed", a)
    BY <1>5, <1>7
  <2> QED
    BY <1>6, <1>7, <2>1, WrittenRow
<1>8. CASE a.status = 503
  <2>1. Outcome(a) = Written("in_flight", a)
    BY <1>5, <1>8
  <2> QED
    BY <1>6, <1>8, <2>1, WrittenRow
<1>9. CASE a.status = 422
  <2>1. Outcome(a) = Written("failed", a)
    BY <1>5, <1>9
  <2> QED
    BY <1>6, <1>9, <2>1, WrittenRow
<1>10. CASE a.status = 500
  <2>1. Outcome(a) = Written("failed", b)
    BY <1>5, <1>10
  <2> QED
    BY <1>4, <1>6, <1>10, <2>1, WrittenRow
<1> QED
  BY <1>7, <1>8, <1>9, <1>10

\* The holder of the token records what its handler answered.
LEMMA OutcomeKeeps ==
    ASSUME PaidInv, NEW c \in Callers,
           caller[c].pc = "mark", row.token = c,
           row' = Outcome(caller[c].answer),
           Goto(c, AfterHandler(caller[c].answer)),
           UNCHANGED <<charged, doubtful, uses, effects, executions, delivered, kind,
                       reservation, faults>>
    PROVE  PaidInv'
<1>1. HoldsOpen(c) /\ CallOK(c) /\ PaymentOK(c) /\ PhaseOK(c)
  BY DEF PaidInv, CallsOK, PaymentsOK
<1>2. row.state = "in_flight" /\ row.content = caller[c].content /\ ~ Committed
  BY <1>1 DEF HoldsOpen, Committed
<1>3. PICK a \in Answer : a = caller[c].answer
  BY Types DEF Call
<1>4. a.status \in {200, 422, 500, 503} /\ (a.status = 200 => a.run \in effects)
  BY <1>1, <1>3 DEF CallOK
<1>5. /\ row' \in Request /\ row'.token = c /\ row'.content = row.content
      /\ ~ row'.leased
      /\ a.status = 200 => row'.state = "effect_committed" /\ row'.answer = a
      /\ a.status = 503 => row'.state = "in_flight"
      /\ a.status \in {422, 500} => row'.state = "failed"
      /\ row'.answer.status = a.status
  <2>1. row' = Outcome(a)
    BY <1>3
  <2> QED
    BY <1>4, <2>1, OutcomeRow, Types
<1>6. PICK step \in {"settle", "complete", "reply"} : step = AfterHandler(a)
  BY DEF AfterHandler
<1>7. \/ step = "settle" /\ a.status = 200 /\ kind.priced
      \/ step = "complete" /\ a.status = 200 /\ ~ kind.priced
      \/ step = "reply" /\ a.status # 200
  BY <1>6 DEF AfterHandler
<1>8. /\ Moves(c) /\ caller'[c].pc = step
      /\ caller'[c].content = caller[c].content
      /\ caller'[c].phase = caller[c].phase
      /\ caller'[c].answer = a
  <2>1. Goto(c, step) /\ step \in Steps
    BY <1>3, <1>6 DEF Steps, Serving
  <2> QED
    BY <1>3, <2>1, GotoCall, Types
<1>9. RowOK'
  BY <1>1, <1>2, <1>4, <1>5 DEF RowOK, Committed, CallOK
<1>10. CallsOK'
  <2> SUFFICES ASSUME NEW d \in Callers PROVE HoldsOpen(d)' /\ CallOK(d)'
    BY DEF CallsOK
  <2>1. CASE d = c
    BY <1>1, <1>2, <1>4, <1>5, <1>7, <1>8, <2>1 DEF HoldsOpen, CallOK, Served, Committed
  <2>2. CASE d # c
    <3>1. CallOK(d) /\ caller'[d] = caller[d]
      BY <1>8, <2>2 DEF PaidInv, CallsOK, Moves
    <3> QED
      BY <1>2, <1>5, <2>2, <3>1 DEF HoldsOpen, CallOK, Served
  <2> QED
    BY <2>1, <2>2
<1>11. PaymentsOK'
  <2>1. PaymentOK(c)'
    BY <1>1, <1>4, <1>7, <1>8 DEF PaymentOK, Served
  <2>2. caller'[c].phase \in Phases /\ kind.accounted =>
            /\ reservation'[caller'[c].phase] = "reserved"
            /\ charged[caller'[c].phase] = 0
    BY <1>1, <1>8 DEF PhaseOK, Unsettled
  <2> QED
    BY <1>8, <2>1, <2>2, QuietPayments
<1>12. DiscountsCounted'
  <2>1. Spends(c)' => Spends(c)
    BY <1>8 DEF Spends
  <2> HIDE DEF Spends
  <2> QED
    BY <1>8, <2>1, CountsMove, Types DEF PaidInv, DiscountsCounted, Phases
<1>13. ExecutionsCounted'
  <2>1. ~ Handles(c) /\ ~ Handles(c)'
    BY <1>7, <1>8 DEF Handles
  <2>2. Free' => Free
    BY <1>2, <1>3, <1>4, <1>5 DEF Free, Attended
  <2>3. executions \in Nat /\ faults \in Nat
    BY Types, PaidAssumption DEF PaidAssumption, Runs
  <2> HIDE DEF Free, Handles
  <2> QED
    BY <1>8, <2>1, <2>2, <2>3, CountsMove DEF PaidInv, ExecutionsCounted
<1>14. AnswersAgree' /\ PaidForEffect' /\ ChargesAreReserved'
  BY <1>2, <1>4, <1>5 DEF PaidInv, AnswersAgree, PaidForEffect, ChargesAreReserved, Committed
<1>15. RequestTypeOK'
  <2>1. row'.state # "absent" /\ row'.token # None
    BY <1>4, <1>5, PaidAssumption DEF PaidAssumption
  <2>2. row'.state \in {"effect_committed", "completed"} => row'.answer.status = 200
    BY <1>4, <1>5
  <2> QED
    BY <1>5, <1>8, <2>1, <2>2 DEF PaidInv, RequestTypeOK, Moves
<1> QED
  BY <1>9, <1>10, <1>11, <1>12, <1>13, <1>14, <1>15 DEF PaidInv

LEMMA MarkKeeps ==
    ASSUME PaidInv, NEW c \in Callers, Mark(c)
    PROVE  PaidInv'
<1>1. /\ UNCHANGED <<charged, doubtful, uses, effects, executions, delivered, kind,
                     reservation>>
      /\ caller[c].pc = "mark"
  BY DEF Mark, At, handlerVars, clientVars, chargeVars
<1>2. CASE /\ row.token = c /\ row' = Outcome(caller[c].answer)
           /\ Goto(c, AfterHandler(caller[c].answer)) /\ UNCHANGED faults
  BY <1>1, <1>2, OutcomeKeeps
<1>3. CASE /\ IF row.token = c THEN Fault ELSE UNCHANGED faults
           /\ AnswerWith(c, IF caller[c].answer.status = 500 THEN caller[c].answer
                            ELSE Failing(409))
           /\ UNCHANGED row
  <2>1. caller[c].answer \in Answer /\ Failing(409) \in Answer
    BY Types, CallFields DEF Call
  <2>2. PICK a \in Answer : a = IF caller[c].answer.status = 500 THEN caller[c].answer
                                ELSE Failing(409)
    BY <2>1
  <2>3. a.status \in {409, 500}
    BY <2>2 DEF Failing
  <2>4. AnswerWith(c, a)
    BY <1>3, <2>2
  <2> QED
    BY <1>1, <1>3, <2>3, <2>4, AnsweredKeeps, Types DEF Serving
<1> QED
  BY <1>2, <1>3 DEF Mark

\* The settlement is made, whatever is said of it: the call's payment is charged,
\* and only that one.
LEMMA ChargedKeeps ==
    ASSUME PaidInv, NEW c \in Callers,
           caller[c].pc = "settle",
           Charge(caller[c].phase),
           Moves(c),
           caller'[c].content = caller[c].content,
           caller'[c].phase = caller[c].phase,
           \/ /\ caller'[c].pc = "complete"
              /\ caller'[c].answer = caller[c].answer
              /\ doubtful' = doubtful
           \/ /\ caller'[c].pc = "reply"
              /\ caller'[c].answer.status = 402
              /\ doubtful' = doubtful \cup {caller[c].phase},
           faults' \in faults..MaxFaults,
           UNCHANGED <<row, uses, effects, executions, delivered, kind, reservation>>
    PROVE  PaidInv'
<1>1. CallOK(c) /\ PaymentOK(c) /\ PhaseOK(c)
  BY DEF PaidInv, CallsOK, PaymentsOK
<1>2. /\ kind.priced /\ caller[c].phase \in Phases
      /\ Committed /\ row.content = caller[c].content
      /\ row.answer = caller[c].answer /\ caller[c].answer.status = 200
  BY <1>1 DEF CallOK, PaymentOK, Served
<1>3. /\ caller'[c].pc \in {"complete", "reply"}
      /\ doubtful \subseteq doubtful' /\ doubtful' \subseteq Phases
      /\ ~ Unsettled(c)'
  BY <1>2, Types DEF Unsettled
<1>4. PICK phase \in Phases : phase = caller[c].phase
  BY <1>2
<1>5. /\ charged' \in [Phases -> 0..2]
      /\ \A p \in Phases : p # phase => charged'[p] = charged[p]
      /\ charged'[phase] \in Nat /\ charged[phase] \in Nat
      /\ charged'[phase] > 0 /\ charged'[phase] <= charged[phase] + 1
      /\ charged[phase] = 0 => charged'[phase] = 1
  <2>1. charged \in [Phases -> 0..2]
    BY Types
  <2>2. PICK k \in 0..2 : k = IF charged[phase] < 2 THEN charged[phase] + 1 ELSE 2
    BY <2>1
  <2>3. charged' = [charged EXCEPT ![phase] = k]
    BY <1>4, <2>2 DEF Charge
  <2>4. /\ charged' \in [Phases -> 0..2] /\ charged'[phase] = k
        /\ \A p \in Phases : p # phase => charged'[p] = charged[p]
    BY <2>1, <2>3
  <2> QED
    BY <2>1, <2>2, <2>4
<1>6. Paid'
  BY <1>5 DEF Paid
<1>7. RowOK'
  BY DEF PaidInv, RowOK, Committed
<1>8. CallsOK'
  <2> SUFFICES ASSUME NEW d \in Callers PROVE HoldsOpen(d)' /\ CallOK(d)'
    BY DEF CallsOK
  <2>1. CASE d = c
    BY <1>1, <1>2, <1>3, <2>1 DEF HoldsOpen, CallOK, Served, Committed
  <2>2. CASE d # c
    <3>1. HoldsOpen(d) /\ CallOK(d) /\ caller'[d] = caller[d]
      BY <1>3, <2>2 DEF PaidInv, CallsOK, Moves
    <3> QED
      BY <3>1 DEF HoldsOpen, CallOK, Served, Committed
  <2> QED
    BY <2>1, <2>2
<1>9. PaymentsOK'
  <2> SUFFICES ASSUME NEW d \in Callers PROVE PaymentOK(d)' /\ PhaseOK(d)'
    BY DEF PaymentsOK
  <2>1. \A e \in Callers : PaymentOK(e) /\ PhaseOK(e)
    BY DEF PaidInv, PaymentsOK
  <2>2. \A e \in Callers : caller'[e].phase = caller[e].phase
    BY <1>3 DEF Moves
  <2>3. PaymentOK(d)'
    <3>1. CASE d = c
      BY <1>2, <1>3, <1>6, <3>1 DEF PaymentOK, Served
    <3>2. CASE d # c
      <4>1. caller'[d] = caller[d]
        BY <1>3, <3>2 DEF Moves
      <4> QED
        BY <1>6, <2>1, <4>1 DEF PaymentOK, Served
    <3> QED
      BY <3>1, <3>2
  <2>4. PhaseOK(d)'
    <3> SUFFICES ASSUME kind.accounted, caller[d].phase \in Phases
                 PROVE  PhaseOK(d)'
      BY <2>2 DEF PhaseOK
    <3>1. /\ reservation[caller[d].phase] = "reserved"
          /\ \A e \in Callers : caller[e].phase = caller[d].phase => e = d
          /\ Unsettled(d) => charged[caller[d].phase] = 0
      BY <2>1 DEF PhaseOK
    <3>2. Unsettled(d)' => charged'[caller[d].phase] = 0
      <4>1. CASE d = c
        BY <1>3, <4>1
      <4>2. CASE d # c
        <5>1. caller'[d] = caller[d] /\ caller[d].phase # phase
          BY <1>3, <1>4, <3>1, <4>2 DEF Moves
        <5> QED
          BY <1>5, <3>1, <5>1 DEF Unsettled
      <4> QED
        BY <4>1, <4>2
    <3> QED
      BY <2>2, <3>1, <3>2 DEF PhaseOK
  <2> QED
    BY <2>3, <2>4
<1>10. DiscountsCounted'
  <2>1. ~ Spends(c)' /\ (Spends(c) <=> phase = "discount")
    BY <1>3, <1>4 DEF Spends
  <2>2. charged["discount"] \in Nat /\ charged'["discount"] \in Nat
    BY <1>5, Types DEF Phases
  <2>3. phase # "discount" => charged'["discount"] = charged["discount"]
    BY <1>5 DEF Phases
  <2> HIDE DEF Spends
  <2> QED
    BY <1>3, <1>5, <2>1, <2>2, <2>3, CountsMove, Types DEF PaidInv, DiscountsCounted
<1>11. ExecutionsCounted'
  <2>1. ~ Handles(c) /\ ~ Handles(c)'
    BY <1>3 DEF Handles
  <2>2. ~ Free /\ ~ Free'
    BY <1>2 DEF Free, Committed
  <2>3. executions \in Nat /\ faults \in Nat /\ faults' \in Nat /\ faults' >= faults
    BY Types, PaidAssumption DEF PaidAssumption, Runs
  <2> HIDE DEF Free, Handles
  <2> QED
    BY <1>3, <2>1, <2>2, <2>3, CountsMove DEF PaidInv, ExecutionsCounted
<1>12. AnswersAgree'
  BY DEF PaidInv, AnswersAgree
<1>13. PaidForEffect'
  <2>1. charged'["discount"] <= uses'
    <3>1. Cardinality(Spending') \in Nat
      BY <1>3, CountsMove
    <3>2. charged'["discount"] \in Nat /\ uses \in Nat
      BY <1>5, Types DEF Phases
    <3> QED
      BY <1>10, <3>1, <3>2 DEF DiscountsCounted
  <2> QED
    BY <1>2, <1>6, <2>1 DEF PaidForEffect, Paid, Committed
<1>14. ChargesAreReserved'
  <2> SUFFICES ASSUME kind.accounted, NEW p \in Phases, charged'[p] > 0
               PROVE  /\ charged'[p] = 1
                      /\ \/ reservation[p] \in {"reserved", "settled"}
                         \/ reservation[p] = "released" /\ p \in doubtful'
    BY DEF ChargesAreReserved
  <2>1. CASE p = phase
    <3>1. reservation[phase] = "reserved" /\ charged[phase] = 0
      BY <1>1, <1>4 DEF PhaseOK, Unsettled
    <3> QED
      BY <1>5, <2>1, <3>1
  <2>2. CASE p # phase
    BY <1>3, <1>5, <2>2 DEF PaidInv, ChargesAreReserved
  <2> QED
    BY <2>1, <2>2
<1>15. RequestTypeOK'
  <2>1. faults' \in 0..MaxFaults
    BY Types
  <2> QED
    BY <1>3, <1>5, <2>1 DEF PaidInv, RequestTypeOK, Moves
<1> QED
  BY <1>7, <1>8, <1>9, <1>10, <1>11, <1>12, <1>13, <1>14, <1>15 DEF PaidInv

LEMMA SettleKeeps ==
    ASSUME PaidInv, NEW c \in Callers, Settle(c)
    PROVE  PaidInv'
<1>1. /\ UNCHANGED <<row, uses, effects, executions, delivered, kind, reservation>>
      /\ caller[c].pc = "settle"
  BY DEF Settle, At, handlerVars, clientVars, chargeVars
<1>2. CASE Charge(caller[c].phase) /\ Goto(c, "complete") /\ UNCHANGED <<doubtful, faults>>
  <2>1. /\ Moves(c) /\ caller'[c].pc = "complete"
        /\ caller'[c].content = caller[c].content
        /\ caller'[c].phase = caller[c].phase
        /\ caller'[c].answer = caller[c].answer
    BY <1>2, Types, GotoCall DEF Steps, Serving
  <2> QED
    BY <1>1, <1>2, <2>1, ChargedKeeps, Types
<1>3. CASE /\ Fault /\ AnswerWith(c, Failing(402))
           /\ \/ UNCHANGED chargeVars
              \/ Charge(caller[c].phase) /\ doubtful' = doubtful \cup {caller[c].phase}
  <2>1. PICK a \in Answer : a = Failing(402)
    BY CallFields
  <2>2. AnswerWith(c, a) /\ a.status = 402
    BY <1>3, <2>1 DEF Failing
  <2>3. CASE UNCHANGED <<charged, doubtful>>
    <3>1. kind.priced
      BY <1>1 DEF PaidInv, PaymentsOK, PaymentOK
    <3> QED
      BY <1>1, <1>3, <2>2, <2>3, <3>1, AnsweredKeeps, Types DEF Serving, Unsettled
  <2>4. CASE Charge(caller[c].phase) /\ doubtful' = doubtful \cup {caller[c].phase}
    <3>1. /\ Moves(c) /\ caller'[c].pc = "reply" /\ caller'[c].answer = a
          /\ caller'[c].content = caller[c].content
          /\ caller'[c].phase = caller[c].phase
      BY <2>2, Types, AnsweredCall
    <3> QED
      BY <1>1, <1>3, <2>2, <2>4, <3>1, ChargedKeeps, Types
  <2> QED
    BY <1>3, <2>3, <2>4 DEF chargeVars
<1> QED
  BY <1>2, <1>3 DEF Settle

LEMMA CompleteKeeps ==
    ASSUME PaidInv, NEW c \in Callers, Complete(c)
    PROVE  PaidInv'
<1>1. /\ UNCHANGED <<charged, doubtful, uses, effects, executions, delivered, kind,
                     reservation>>
      /\ caller[c].pc = "complete"
      /\ faults' \in faults..MaxFaults
      /\ Goto(c, "reply")
  BY Types DEF Complete, At, handlerVars, clientVars, chargeVars
<1>2. CallOK(c) /\ PaymentOK(c) /\ PhaseOK(c)
  BY DEF PaidInv, CallsOK, PaymentsOK
<1>3. /\ Committed /\ row.content = caller[c].content
      /\ row.answer = caller[c].answer /\ caller[c].answer.status = 200
      /\ kind.priced => Paid
  BY <1>1, <1>2 DEF CallOK, PaymentOK, Served
<1>4. /\ Moves(c) /\ caller'[c].pc = "reply"
      /\ caller'[c].content = caller[c].content
      /\ caller'[c].phase = caller[c].phase
      /\ caller'[c].answer = caller[c].answer
  BY <1>1, Types, GotoCall DEF Steps
<1>5. /\ row' \in Request /\ row'.content = row.content /\ row'.answer = row.answer
      /\ row'.token = row.token
      /\ \/ row' = row
         \/ row'.state = "completed" /\ row'.token = c
  BY Types DEF Complete, Request, States
<1>6. Committed' /\ row'.state # "failed"
  BY <1>3, <1>5 DEF Committed
<1>7. RowOK'
  BY <1>1, <1>3, <1>5, <1>6 DEF PaidInv, RowOK, Committed
<1>8. CallsOK'
  <2> SUFFICES ASSUME NEW d \in Callers PROVE HoldsOpen(d)' /\ CallOK(d)'
    BY DEF CallsOK
  <2>1. CASE d = c
    BY <1>1, <1>2, <1>3, <1>4, <1>5, <1>6, <2>1 DEF HoldsOpen, CallOK, Served
  <2>2. CASE d # c
    <3>1. HoldsOpen(d) /\ CallOK(d) /\ caller'[d] = caller[d]
      BY <1>4, <2>2 DEF PaidInv, CallsOK, Moves
    <3> QED
      BY <1>1, <1>5, <1>6, <2>2, <3>1 DEF HoldsOpen, CallOK, Served
  <2> QED
    BY <2>1, <2>2
<1>9. PaymentsOK'
  <2>1. PaymentOK(c)'
    BY <1>1, <1>2, <1>3, <1>4 DEF PaymentOK, Served, Paid
  <2>2. caller'[c].phase \in Phases /\ kind.accounted =>
            /\ reservation'[caller'[c].phase] = "reserved"
            /\ ~ Unsettled(c)'
    BY <1>1, <1>2, <1>3, <1>4 DEF PhaseOK, Unsettled
  <2> QED
    BY <1>1, <1>4, <2>1, <2>2, QuietPayments
<1>10. DiscountsCounted'
  <2>1. ~ Spends(c)' /\ ~ Spends(c)
    BY <1>1, <1>4 DEF Spends
  <2> HIDE DEF Spends
  <2> QED
    BY <1>1, <1>4, <2>1, CountsMove, Types DEF PaidInv, DiscountsCounted, Phases
<1>11. ExecutionsCounted'
  <2>1. ~ Handles(c) /\ ~ Handles(c)'
    BY <1>1, <1>4 DEF Handles
  <2>2. ~ Free /\ ~ Free'
    BY <1>3, <1>6 DEF Free, Committed
  <2>3. executions \in Nat /\ faults \in Nat /\ faults' \in Nat /\ faults' >= faults
    BY <1>1, Types, PaidAssumption DEF PaidAssumption, Runs
  <2> HIDE DEF Free, Handles
  <2> QED
    BY <1>1, <1>4, <2>1, <2>2, <2>3, CountsMove DEF PaidInv, ExecutionsCounted
<1>12. AnswersAgree'
  BY <1>1, <1>5, <1>6 DEF PaidInv, AnswersAgree, Committed
<1>13. PaidForEffect' /\ ChargesAreReserved'
  BY <1>1, <1>3, <1>6 DEF PaidInv, PaidForEffect, ChargesAreReserved, Paid, Committed
<1>14. RequestTypeOK'
  <2>1. faults' \in 0..MaxFaults
    BY <1>1, Types
  <2>2. row'.state # "absent" /\ row'.token # None /\ row'.answer.status = 200
    BY <1>3, <1>5, <1>6 DEF PaidInv, RequestTypeOK, Committed
  <2> QED
    BY <1>1, <1>4, <1>5, <2>1, <2>2 DEF PaidInv, RequestTypeOK, Moves
<1> QED
  BY <1>7, <1>8, <1>9, <1>10, <1>11, <1>12, <1>13, <1>14 DEF PaidInv

\* A lease lapses.
LEMMA ExpireKeeps ==
    ASSUME PaidInv, Expire
    PROVE  PaidInv'
<1>1. /\ UNCHANGED <<caller, charged, doubtful, uses, effects, executions, delivered, kind,
                     reservation>>
      /\ row.leased
      /\ faults' \in faults..MaxFaults
      /\ HolderGone \/ faults' = faults + 1
  BY Types DEF Expire, handlerVars, clientVars, chargeVars
<1>2. /\ row' \in Request /\ row'.state = row.state /\ row'.content = row.content
      /\ row'.token = row.token /\ row'.answer = row.answer /\ ~ row'.leased
  BY Types DEF Expire, Request
<1>3. RowOK' /\ CallsOK' /\ PaymentsOK'
  BY <1>1, <1>2 DEF PaidInv, RowOK, CallsOK, PaymentsOK, HoldsOpen, CallOK, PaymentOK,
                    PhaseOK, Served, Unsettled, Committed, Paid
<1>4. DiscountsCounted'
  <2>1. Spending' = Spending
    BY <1>1 DEF Spending, Spends
  <2> QED
    BY <1>1, <2>1 DEF PaidInv, DiscountsCounted
<1>5. ExecutionsCounted'
  <2>1. Handling' = Handling /\ Cardinality(Handling) \in Nat
    <3>1. IsFiniteSet(Handling)
      BY FS_Subset, PaidAssumption DEF PaidAssumption, Handling
    <3> QED
      BY <1>1, <3>1, FS_CardinalityType DEF Handling, Handles
  <2>2. Free' => Free \/ faults' = faults + 1
    <3> SUFFICES ASSUME Free', ~ Free, HolderGone PROVE FALSE
      BY <1>1
    <3>1. row.state = "in_flight" /\ Attended
      BY <1>2 DEF Free
    <3>2. row.token # None
      BY <3>1 DEF PaidInv, RequestTypeOK
    <3> QED
      BY <3>1, <3>2 DEF Attended, HolderGone, Serving
  <2>3. executions \in Nat /\ faults \in Nat /\ faults' \in Nat /\ faults' >= faults
    BY <1>1, Types, PaidAssumption DEF PaidAssumption, Runs
  <2> HIDE DEF Free
  <2> QED
    BY <1>1, <2>1, <2>2, <2>3 DEF PaidInv, ExecutionsCounted
<1>6. AnswersAgree' /\ PaidForEffect' /\ ChargesAreReserved'
  BY <1>1, <1>2 DEF PaidInv, AnswersAgree, PaidForEffect, ChargesAreReserved
<1>7. RequestTypeOK'
  <2>1. faults' \in 0..MaxFaults
    BY <1>1, Types
  <2> QED
    BY <1>1, <1>2, <2>1 DEF PaidInv, RequestTypeOK
<1> QED
  BY <1>3, <1>4, <1>5, <1>6, <1>7 DEF PaidInv

LEMMA PaidInitInv == PaidInit => PaidInv
<1> SUFFICES ASSUME PaidInit PROVE PaidInv
  OBVIOUS
<1>1. PICK idle \in Call : idle = Idle
  BY CallFields
<1>2. idle.pc = "idle" /\ idle.phase = "none"
  BY <1>1, CallFields
<1>3. caller = [c \in Callers |-> idle]
  BY <1>1 DEF PaidInit
<1>4. /\ row \in Request /\ row.state = "absent" /\ row.token = None
      /\ row.answer.status = 0
  <2>1. NoBody \in Answer /\ NoBody.status = 0
    BY CallFields DEF NoBody
  <2> QED
    BY <2>1 DEF PaidInit, Request, States
<1>5. /\ reservation = [p \in Phases |-> "none"] /\ charged = [p \in Phases |-> 0]
      /\ doubtful = {} /\ uses = 0 /\ effects = {} /\ executions = 0 /\ delivered = {}
      /\ faults = 0
      /\ kind \in Kinds /\ kind.allowance \in Nat
  BY PaidAssumption DEF PaidInit, Kinds, Allowances, PaidAssumption
<1>6. Cardinality(Spending) = 0 /\ Cardinality(Handling) = 0
  <2>1. Spending = {} /\ Handling = {}
    BY <1>2, <1>3 DEF Spending, Spends, Handling, Handles
  <2> QED
    BY <2>1, FS_EmptySet
<1>7. RequestTypeOK
  <2>1. 0 \in Runs /\ 0 \in 0..MaxFaults
    BY PaidAssumption DEF PaidAssumption, Runs
  <2> QED
    BY <1>3, <1>4, <1>5, <2>1 DEF RequestTypeOK
<1>8. RowOK
  BY <1>4 DEF RowOK, Committed
<1>9. CallsOK /\ PaymentsOK
  BY <1>2, <1>3 DEF CallsOK, PaymentsOK, HoldsOpen, CallOK, PaymentOK, PhaseOK, Served,
                    Phases
<1>10. DiscountsCounted
  BY <1>5, <1>6 DEF DiscountsCounted, Phases
<1>11. ExecutionsCounted
  BY <1>4, <1>5, <1>6 DEF ExecutionsCounted, Free
<1>12. AnswersAgree /\ PaidForEffect /\ ChargesAreReserved
  BY <1>4, <1>5 DEF AnswersAgree, PaidForEffect, ChargesAreReserved, Phases
<1> QED
  BY <1>7, <1>8, <1>9, <1>10, <1>11, <1>12 DEF PaidInv

LEMMA PaidStepInv == PaidInv /\ [PaidNext]_paidVars => PaidInv'
<1> SUFFICES ASSUME PaidInv, [PaidNext]_paidVars PROVE PaidInv'
  OBVIOUS
<1>1. ASSUME NEW c \in Callers, Progress(c) PROVE PaidInv'
  <2>1. CASE Start(c)
    BY <2>1, StartKeeps
  <2>2. CASE Decline(c)
    BY <2>2, DeclineKeeps
  <2>3. CASE Receive(c)
    BY <2>3, ReceiveKeeps
  <2>4. CASE Drop(c)
    BY <2>4, DropKeeps
  <2>5. ASSUME NEW phase \in Phases, Pay(c, phase) PROVE PaidInv'
    BY <2>5, PayKeeps
  <2>6. ASSUME NEW phase \in Phases, SignFails(c, phase) PROVE PaidInv'
    BY <2>6, SignFailsKeeps
  <2>7. CASE Peek(c)
    BY <2>7, PeekKeeps
  <2>8. CASE Acquire(c)
    BY <2>8, AcquireKeeps
  <2>9. CASE Handle(c)
    BY <2>9, HandleKeeps
  <2>10. CASE Mark(c)
    BY <2>10, MarkKeeps
  <2>11. CASE Settle(c)
    BY <2>11, SettleKeeps
  <2>12. CASE Complete(c)
    BY <2>12, CompleteKeeps
  <2> QED
    BY <1>1, <2>1, <2>2, <2>3, <2>4, <2>5, <2>6, <2>7, <2>8, <2>9, <2>10, <2>11, <2>12
       DEF Progress
<1>2. ASSUME NEW c \in Callers, Lost(c) PROVE PaidInv'
  BY <1>2, LostKeeps
<1>3. ASSUME NEW c \in Callers, GatewayCrash(c) PROVE PaidInv'
  BY <1>3, GatewayCrashKeeps
<1>4. CASE Expire
  BY <1>4, ExpireKeeps
<1>5. CASE UNCHANGED paidVars
  <2>1. UNCHANGED <<row, caller, reservation, charged, doubtful, uses, effects, executions,
                    delivered, faults, kind>>
    BY <1>5 DEF paidVars
  <2>2. Spending' = Spending /\ Handling' = Handling
    BY <2>1 DEF Spending, Spends, Handling, Handles
  <2>3. RequestTypeOK' /\ RowOK' /\ CallsOK' /\ PaymentsOK'
    BY <2>1 DEF PaidInv, RequestTypeOK, RowOK, CallsOK, PaymentsOK, HoldsOpen, CallOK,
                PaymentOK, PhaseOK, Served, Unsettled, Committed, Paid
  <2>4. DiscountsCounted' /\ ExecutionsCounted'
    BY <2>1, <2>2 DEF PaidInv, DiscountsCounted, ExecutionsCounted, Free, Attended
  <2>5. AnswersAgree' /\ PaidForEffect' /\ ChargesAreReserved'
    BY <2>1 DEF PaidInv, AnswersAgree, PaidForEffect, ChargesAreReserved
  <2> QED
    BY <2>3, <2>4, <2>5 DEF PaidInv
<1> QED
  BY <1>1, <1>2, <1>3, <1>4, <1>5 DEF PaidNext

LEMMA PaidAlways == PaidSpec => []PaidInv
<1>1. PaidInit => PaidInv
  BY PaidInitInv
<1>2. PaidInv /\ [PaidNext]_paidVars => PaidInv'
  BY PaidStepInv
<1> QED
  BY <1>1, <1>2, PTL DEF PaidSpec

----------------------------------------------------------------------------
\* Type correctness: the row, the calls, the payments and the counts.
THEOREM PaidTypeCorrect == PaidSpec => []RequestTypeOK
<1>1. PaidInv => RequestTypeOK
  BY DEF PaidInv
<1> QED
  BY <1>1, PaidAlways, PTL

\* The handler is executed at most once, and once more for each thing that goes
\* wrong: a call that is served in order is executed once however many callers
\* there are and however often they call (route-factory.ts:277-330).
THEOREM ExecutionsAreBounded == PaidSpec => [](executions <= faults + 1)
<1>1. PaidInv => executions <= faults + 1
  <2> SUFFICES ASSUME PaidInv PROVE executions <= faults + 1
    OBVIOUS
  <2>1. Cardinality(Handling) \in Nat
    BY FS_Subset, FS_CardinalityType, PaidAssumption DEF PaidAssumption, Handling
  <2>2. executions \in Nat /\ faults \in Nat
    BY Types, PaidAssumption DEF PaidAssumption, Runs
  <2> QED
    BY <2>1, <2>2 DEF PaidInv, ExecutionsCounted
<1> QED
  BY <1>1, PaidAlways, PTL

\* Every 200 a client was ever given is the answer on record for its own request
\* (route-factory.ts:247-275, idempotency.ts:176-219).
THEOREM AnswersAlwaysAgree == PaidSpec => []AnswersAgree
<1>1. PaidInv => AnswersAgree
  BY DEF PaidInv
<1> QED
  BY <1>1, PaidAlways, PTL

\* Nothing is charged for an effect that is not on record, nor a priced request
\* completed or answered without its charge, nor a discount charged that was not
\* counted (route-factory.ts:394-415, agentkit-storage.ts:36-60).
THEOREM EffectsArePaidFor == PaidSpec => []PaidForEffect
<1>1. PaidInv => PaidForEffect
  BY DEF PaidInv
<1> QED
  BY <1>1, PaidAlways, PTL

\* An accounted client has a reservation behind every charge, but for one it was
\* told was not made, and is charged once per reservation (paid-fetch.ts:206-236,
\* 363-377).
THEOREM ChargesAlwaysReserved == PaidSpec => []ChargesAreReserved
<1>1. PaidInv => ChargesAreReserved
  BY DEF PaidInv
<1> QED
  BY <1>1, PaidAlways, PTL

\* An answer on record is never replaced: a request that has its effect can only be
\* completed, and one that is completed or failed stays so (idempotency.ts:176-219).
RecordKept ==
    row.state \in {"effect_committed", "completed", "failed"} =>
        /\ row'.content = row.content
        /\ row'.answer = row.answer
        /\ \/ row'.state = row.state
           \/ row.state = "effect_committed" /\ row'.state = "completed"

LEMMA StepKeepsRecord == PaidInv /\ [PaidNext]_paidVars => RecordKept
<1> SUFFICES ASSUME PaidInv, [PaidNext]_paidVars PROVE RecordKept
  OBVIOUS
<1>1. CASE UNCHANGED row
  BY <1>1 DEF RecordKept
<1>2. ASSUME NEW c \in Callers, Acquire(c) PROVE RecordKept
  BY <1>2, Types DEF Acquire, Hold, Request, RecordKept
<1>3. ASSUME NEW c \in Callers, Mark(c) PROVE RecordKept
  <2>1. row.token = c => row.state = "in_flight"
    BY <1>3 DEF Mark, At, PaidInv, CallsOK, HoldsOpen
  <2> QED
    BY <1>3, <2>1 DEF Mark, RecordKept
<1>4. ASSUME NEW c \in Callers, Complete(c) PROVE RecordKept
  <2>1. Committed
    BY <1>4 DEF Complete, At, PaidInv, CallsOK, CallOK, Served
  <2> QED
    BY <1>4, <2>1, Types DEF Complete, Committed, Request, RecordKept
<1>5. CASE Expire
  BY <1>5, Types DEF Expire, Request, RecordKept
<1>6. ASSUME NEW c \in Callers, Progress(c)
      PROVE  UNCHANGED row \/ Acquire(c) \/ Mark(c) \/ Complete(c)
  BY <1>6 DEF Progress, Start, Decline, Receive, Drop, Pay, SignFails, Peek, Handle,
              Settle
<1>7. UNCHANGED paidVars => UNCHANGED row
  BY DEF paidVars
<1> QED
  BY <1>1, <1>2, <1>3, <1>4, <1>5, <1>6, <1>7 DEF PaidNext, Lost, GatewayCrash

\* No gateway, whether its lease lapsed or not, and no later call replaces an
\* answer on record (idempotency.ts:176-219).
THEOREM RecordedAnswersStay == PaidSpec => [][RecordKept]_paidVars
<1>1. PaidInv /\ [PaidNext]_paidVars => [RecordKept]_paidVars
  BY StepKeepsRecord
<1> QED
  BY <1>1, PaidAlways, PTL DEF PaidSpec
=============================================================================
