------------------------------- MODULE RunWorker -------------------------------
(***************************************************************************)
(* One quest run carried out by workers under a lease: AgentWorker.runOnce *)
(* (packages/agent-runner/src/worker.ts) around runDailyQuest (run.ts),    *)
(* the journal of transactions they keep in the execution's checkpoint,    *)
(* and the owner's answers to decisions (resolve_agent_command_run_        *)
(* decision, migration 260).                                               *)
(*                                                                         *)
(* The lease and checkpoint functions of the database are not in the       *)
(* repository; they are modelled from their callers: a checkpoint is saved *)
(* when the attempt token and the version are those of the row.  A lease   *)
(* may lapse whenever its holder is slow, so acquiring is always possible; *)
(* nothing below depends on how long it lasts.  The version is kept as     *)
(* "does this worker know the row's current one".                          *)
(*                                                                         *)
(* A worker executes one candidate per cycle (maxStateChanges is 1), and a *)
(* candidate here is the task's own transaction: approvals and funding     *)
(* swaps, which the journal holds as well, are left out, and so is the     *)
(* selection a delegated client sends back, because no run ever offers one *)
(* (ClientChoosesFirst).                                                   *)
(***************************************************************************)
EXTENDS Integers, Sequences, SequencesExt, FiniteSets

CONSTANTS
    Workers,
    Tasks,
    Authorities,       \* values of decisionAuthority a run may have
    ImmediateRetries,  \* length of IMMEDIATE_RETRY_MS
    MaxSends,          \* bound on transactions ever sent
    MaxAnswers,        \* bound on the owner's answers
    None

ASSUME RunAssumption ==
    /\ IsFiniteSet(Workers)
    /\ Authorities \subseteq {"platform_chat", "delegated_client"}
    /\ ImmediateRetries \in Nat
    /\ MaxSends \in Nat
    /\ MaxAnswers \in Nat
    /\ None \notin Workers \cup Tasks

VARIABLES
    execution,         \* the agent_run_executions row
    worker,            \* worker -> what its process holds in memory
    chain,             \* transactions sent, in order: task and status
    completed,         \* tasks the server counts as done
    claimed,           \* tasks whose reward was paid
    keyGranted,        \* the completion key was granted
    keyThrew,          \* the gateway's handler threw when asked for the key
    answers,           \* answers the owner gave
    waived             \* task -> unsure transactions the owner allowed to redo

runVars == <<execution, worker, chain, completed, claimed, keyGranted,
             keyThrew, answers, waived>>
keyVars == <<keyGranted, keyThrew>>
serverVars == <<completed, claimed, keyVars>>
ownerVars == <<answers, waived>>

\* Codes a report can be blocked with, by the class classifyFailure gives them.
RetryableCodes == {"GATEWAY_UNREACHABLE", "STALE_CANDIDATE", "TX_REVERTED", "RUN_THREW",
                   "INTERNAL_ERROR", "EXTERNAL_DECISION_REQUIRED", "UNKNOWN"}
TimeCodes == {"TX_CONFIRMATION_PENDING"}
OwnerCodes == {"OWNER_TRANSACTION_RECONCILIATION_REQUIRED",
               "OWNER_REWARD_DECISION_REQUIRED", "INSUFFICIENT_FUNDS"}
FatalCodes == {"INVALID_RESPONSE", "UNSUPPORTED_CHAIN", "RUN_NOT_FOUND",
               "NOTHING_EXECUTABLE"}
Codes == RetryableCodes \cup TimeCodes \cup OwnerCodes \cup FatalCodes
            \cup {"CYCLE_BOUND_REACHED", "NONE"}

\* Of lastError, the codes something depends on later: the first decides what
\* the owner may answer.
KeptCodes == {"OWNER_REWARD_DECISION_REQUIRED", "EXTERNAL_DECISION_REQUIRED"}

\* What a failed call to the gateway reports.  A body that is not the
\* gateway's, as a proxy sends with a 5xx, becomes INVALID_RESPONSE.
CallFailures == {"GATEWAY_UNREACHABLE", "INVALID_RESPONSE"}

\* Why no run is taken from the list of today's: it was not read, the run is not
\* in it or has no tasks (which is reported without a code), or there is no
\* action for any of them.
Untaken == CallFailures \cup {"RUN_NOT_FOUND", "UNKNOWN", "NOTHING_EXECUTABLE"}

\* What the preflight finds, before the run is entered, that only the owner can
\* change or nobody can.
PreflightBlockers == {"INSUFFICIENT_FUNDS", "UNSUPPORTED_CHAIN"}

Entry == [task : Tasks, status : {"broadcasting", "submitted", "confirmed",
                                  "reverted"}, tx : 0..MaxSends]

\* authority is fixed when the command is created: the worker's option
\* decisionAuthority.
ExecutionRow ==
    [authority : Authorities,
     status : {"planning", "running", "waiting_retry", "decision_required",
               "completed", "failed"},
     holder : Workers \cup {None},
     timeline : Seq(Entry),
     resolution : {"none", "retry", "finalize"},
     question : {"none", "owner", "action_selection"},
     error : KeptCodes \cup {"NONE"}]

Steps == {"idle", "read", "recheck", "settle", "plan", "prepare", "send",
          "submitted", "receipt", "unsure", "close", "finalize", "finish",
          "threw"}

WorkerMemory ==
    [pc : Steps,
     current : BOOLEAN,               \* the version it holds is the row's
     base : Seq(Entry),               \* carried.actionTimeline
     timeline : Seq(Entry),           \* the attempt's own copy
     settled : SUBSET Tasks,
     unpaid : SUBSET Tasks,           \* claims that were not acknowledged
     task : Tasks \cup {None},
     attempt : 0..ImmediateRetries,
     code : Codes]

RunTypeOK ==
    /\ execution \in ExecutionRow
    /\ worker \in [Workers -> WorkerMemory]
    /\ chain \in Seq([task : Tasks, status : {"pending", "success", "reverted"}])
    /\ Len(chain) <= MaxSends
    /\ claimed \subseteq completed
    /\ completed \subseteq Tasks
    /\ keyGranted \in BOOLEAN
    /\ keyThrew \in BOOLEAN
    /\ answers \in 0..MaxAnswers
    /\ waived \in [Tasks -> Nat]

Idle == [pc |-> "idle", current |-> FALSE, base |-> <<>>, timeline |-> <<>>,
         settled |-> {}, unpaid |-> {}, task |-> None, attempt |-> 0, code |-> "NONE"]

RunInit ==
    /\ execution \in [authority : Authorities, status : {"planning"},
                      holder : {None}, timeline : {<<>>}, resolution : {"none"},
                      question : {"none"}, error : {"NONE"}]
    /\ worker = [w \in Workers |-> Idle]
    /\ chain = <<>>
    /\ completed = {}
    /\ claimed = {}
    /\ keyGranted = FALSE
    /\ keyThrew = FALSE
    /\ answers = 0
    /\ waived = [t \in Tasks |-> 0]

At(w, step) == worker[w].pc = step

Become(w, memory) == worker' = [worker EXCEPT ![w] = memory]

HasHash(entry) == entry.tx # 0

----------------------------------------------------------------------------
\* Checkpoints.

\* A slip: the row is updated by its id alone.
CanSaveUnfenced(w) == execution.holder # None

CanSave(w) == execution.holder = w /\ worker[w].current

\* A saved row; every other worker's version is stale from now on, and the
\* writer's own is when it never hears of it.
Save(w, row, memory) ==
    /\ CanSave(w)
    /\ execution' = row
    /\ worker' = [v \in Workers |->
            IF v = w THEN memory ELSE [worker[v] EXCEPT !.current = FALSE]]

\* The attempt throws: run again at once from what is carried, or give up.
Thrown(w, base) ==
    LET m == [Idle EXCEPT !.current = worker[w].current, !.base = base]
    IN  IF worker[w].attempt < ImmediateRetries
        THEN [m EXCEPT !.pc = "read", !.attempt = worker[w].attempt + 1,
                       !.timeline = base]
        ELSE [m EXCEPT !.pc = "threw"]

\* onProgress with the given timeline; kept is what is carried on when the
\* checkpoint throws, refused, lost on its way there or on its way back.
Progress(w, timeline, next, kept) ==
    LET row == [execution EXCEPT
                  !.status = "running", !.timeline = timeline,
                  !.resolution = "none", !.question = "none", !.error = "NONE"]
        saved == [worker[w] EXCEPT !.timeline = timeline, !.base = timeline,
                                   !.pc = next.pc, !.code = next.code,
                                   !.task = next.task]
    IN  \/ Save(w, row, saved)
        \/ Save(w, row, [Thrown(w, kept) EXCEPT !.current = FALSE])
        \/ Become(w, Thrown(w, kept)) /\ UNCHANGED execution

Then(step, task) == [pc |-> step, code |-> "NONE", task |-> task]
Blocked(code) == [pc |-> "finish", code |-> code, task |-> None]
Ended(code) == [pc |-> "close", code |-> code, task |-> None]

\* retainKnownHash: a hash that could not be saved is carried in memory.
KnownHashKept(w, timeline) ==
    IF timeline # <<>> /\ HasHash(Last(timeline)) THEN timeline
    ELSE worker[w].base

Release(w, status, timeline, question, error) ==
    LET row == [execution EXCEPT
                  !.status = status, !.holder = None, !.timeline = timeline,
                  !.resolution = "none", !.question = question,
                  !.error = IF error \in KeptCodes THEN error ELSE "NONE"]
    IN  \/ Save(w, row, Idle)
        \/ Become(w, Idle) /\ UNCHANGED execution

----------------------------------------------------------------------------
\* runOnce, from the lease to the journal it starts from.  After "retry" the
\* entries whose transaction was never heard of are dropped: the filter, with
\* each kept entry at the place that counts those up to it.
Heard(timeline) ==
    LET kept == {i \in DOMAIN timeline :
                    timeline[i].status # "broadcasting" \/ HasHash(timeline[i])}
        place(i) == Cardinality({j \in kept : j <= i})
    IN  [n \in 1..Cardinality(kept) |-> timeline[CHOOSE i \in kept : place(i) = n]]

Acquire(w) ==
    /\ At(w, "idle")
    /\ execution.status \in {"planning", "running", "waiting_retry"}
    /\ execution' = [execution EXCEPT !.holder = w]
    /\ LET carried == IF execution.resolution = "retry"
                      THEN Heard(execution.timeline) ELSE execution.timeline
           m == [Idle EXCEPT
                   !.pc = IF execution.resolution = "finalize"
                          THEN "finalize" ELSE "read",
                   !.current = TRUE, !.base = carried, !.timeline = carried]
       IN  worker' = [v \in Workers |->
               IF v = w THEN m ELSE [worker[v] EXCEPT !.current = FALSE]]
    /\ UNCHANGED <<chain, serverVars, ownerVars>>

\* The run is not taken up.
LeaveRun(w) ==
    /\ At(w, "read")
    /\ \E c \in Untaken :
            Become(w, [worker[w] EXCEPT !.pc = "finish", !.code = c])
    /\ UNCHANGED <<execution, chain, serverVars, ownerVars>>

\* The run was found: what does the server count as done?
\* Rewards left unclaimed by an earlier attempt are claimed now; where the claim
\* fails it may still have been paid.
ReadRun(w) ==
    /\ At(w, "read")
    /\ \/ \E failed \in SUBSET (completed \ claimed) :
          /\ \E unseen \in SUBSET failed :
                claimed' = (completed \ failed) \cup unseen
          /\ Become(w, [worker[w] EXCEPT !.pc = "recheck",
                         !.settled = completed, !.unpaid = failed])
       \/ /\ \E c \in CallFailures :
               Become(w, [worker[w] EXCEPT !.pc = "finish", !.code = c])
          /\ UNCHANGED claimed
    /\ UNCHANGED <<execution, chain, completed, keyVars, ownerVars>>

\* A transaction that may or may not have been sent stops the run.
Unheard(w) ==
    \E i \in DOMAIN worker[w].timeline :
        LET e == worker[w].timeline[i]
        IN  e.status = "broadcasting" /\ e.task \notin worker[w].settled

StopUnsure(w) ==
    /\ \E stop \in {Blocked("OWNER_TRANSACTION_RECONCILIATION_REQUIRED"),
                    Ended("OWNER_TRANSACTION_RECONCILIATION_REQUIRED")} :
        /\ \/ At(w, "recheck") /\ Unheard(w) /\ stop.pc = "finish"
           \/ At(w, "unsure") /\ stop.pc = "close"
        /\ Progress(w, worker[w].timeline, stop,
                    KnownHashKept(w, worker[w].timeline))
    /\ UNCHANGED <<chain, serverVars, ownerVars>>

\* The loop over the journal: each hash is looked up on the chain, in order.
\* Entries of settled tasks are looked up too; that changes nothing and they
\* are passed over here.
Open(w) ==
    {i \in DOMAIN worker[w].timeline :
        /\ worker[w].timeline[i].status \in {"submitted", "confirmed"}
        /\ worker[w].timeline[i].task \notin worker[w].settled}

\* A slip: a receipt that is not there yet counts as a failed transaction.
RecheckImpatient(w) ==
    /\ At(w, "recheck")
    /\ ~ Unheard(w)
    /\ Open(w) # {}
    /\ LET timeline == worker[w].timeline
           i == CHOOSE k \in Open(w) : \A j \in Open(w) : k <= j
           marked(s) == [timeline EXCEPT ![i].status = s]
       IN  IF chain[timeline[i].tx].status = "success"
           THEN Progress(w, marked("confirmed"),
                         Then("settle", timeline[i].task), marked("confirmed"))
           ELSE Progress(w, marked("reverted"), Then("recheck", None),
                         marked("reverted"))
    /\ UNCHANGED <<chain, serverVars, ownerVars>>

Recheck(w) ==
    /\ At(w, "recheck")
    /\ ~ Unheard(w)
    /\ Open(w) # {}
    /\ LET timeline == worker[w].timeline
           i == CHOOSE k \in Open(w) : \A j \in Open(w) : k <= j
           marked(s) == [timeline EXCEPT ![i].status = s]
       IN  \/ /\ chain[timeline[i].tx].status = "pending"
              /\ Progress(w, timeline, Blocked("TX_CONFIRMATION_PENDING"),
                          KnownHashKept(w, timeline))
           \/ /\ chain[timeline[i].tx].status = "reverted"
              /\ Progress(w, marked("reverted"), Then("recheck", None),
                          marked("reverted"))
           \/ /\ chain[timeline[i].tx].status = "success"
              /\ Progress(w, marked("confirmed"),
                          Then("settle", timeline[i].task),
                          marked("confirmed"))
    /\ UNCHANGED <<chain, serverVars, ownerVars>>

\* settleQuestTask: the task is completed and its reward claimed, or the
\* completion fails, whether or not the server had already recorded it.  After
\* a planned action the cycle ends either way; after the journal only a success
\* goes on.  A transaction from the journal may have been submitted before, with
\* the handler throwing: its request is then answered ok and nothing recorded
\* (KeyAnswers).  Which ones threw is not kept.
Settle(w) ==
    /\ At(w, "settle")
    /\ LET m == worker[w]
           planned == m.code = "CYCLE_BOUND_REACHED"
           done == [m EXCEPT !.pc = IF planned THEN "close" ELSE "recheck",
                             !.settled = m.settled \cup {m.task}]
       IN  \/ /\ completed' = completed \cup {m.task}
              /\ \/ /\ claimed' = claimed \cup {m.task}
                    /\ Become(w, done)
                 \/ /\ claimed' \in {claimed, claimed \cup {m.task}}
                    /\ Become(w, [done EXCEPT !.unpaid = m.unpaid \cup {m.task}])
           \/ /\ ~ planned
              /\ Become(w, done)
              /\ UNCHANGED <<completed, claimed>>
           \/ /\ completed' \in {completed, completed \cup {m.task}}
              /\ \/ planned /\ Become(w, [m EXCEPT !.pc = "close"])
                 \/ /\ ~ planned
                    /\ \E c \in CallFailures :
                        Become(w, [m EXCEPT !.pc = "finish", !.code = c])
              /\ UNCHANGED claimed
    /\ UNCHANGED <<execution, chain, keyVars, ownerVars>>

\* planAndExecute observes anew and runs one candidate of an open task, or none:
\* nothing chosen, or the choice does not pass its revalidation.
PlannerResults(m, left) ==
    {[m EXCEPT !.pc = "prepare", !.task = t] : t \in left}
    \cup {[m EXCEPT !.pc = "close", !.code = "STALE_CANDIDATE"]}

\* After the journal: what is left is preflighted and the run is entered, either
\* of which may stop it.  A delegated run asks its client when it has a candidate
\* to offer.  Where it has none, as in every other run, the planner takes over: it
\* observes anew and picks a task, whose revalidation may still refuse.
Plan(w) ==
    /\ At(w, "recheck")
    /\ ~ Unheard(w)
    /\ Open(w) = {}
    /\ LET m == worker[w]
           left == Tasks \ m.settled
           stop(c) == [m EXCEPT !.pc = "finish", !.code = c]
       IN  \/ \E c \in CallFailures \cup PreflightBlockers :
                Become(w, stop(c))
           \/ left = {} /\ Become(w, [m EXCEPT !.pc = "close"])
           \/ /\ left # {} /\ execution.authority = "delegated_client"
              /\ Become(w, stop("EXTERNAL_DECISION_REQUIRED"))
           \/ left # {} /\ \E p \in PlannerResults(m, left) : Become(w, p)
    /\ UNCHANGED <<execution, chain, serverVars, ownerVars>>

\* A slip: a checkpoint that fails does not stop the transaction.
PrepareBestEffort(w) ==
    /\ At(w, "prepare")
    /\ LET m == worker[w]
           entry == [task |-> m.task, status |-> "broadcasting", tx |-> 0]
       IN  \/ Progress(w, Append(m.timeline, entry), Then("send", m.task), m.base)
           \/ /\ Become(w, [m EXCEPT !.pc = "send",
                                      !.timeline = Append(@, entry)])
              /\ UNCHANGED execution
    /\ UNCHANGED <<chain, serverVars, ownerVars>>

\* onTransactionPrepared: the intent is durable before anything is sent.
Prepare(w) ==
    /\ At(w, "prepare")
    /\ LET m == worker[w]
           entry == [task |-> m.task, status |-> "broadcasting", tx |-> 0]
       IN  Progress(w, Append(m.timeline, entry), Then("send", m.task), m.base)
    /\ UNCHANGED <<chain, serverVars, ownerVars>>

\* wallet.sendTransaction answers a hash, or throws with the transaction sent or
\* not; then the entry keeps saying broadcasting.
Send(w) ==
    /\ At(w, "send")
    /\ LET m == worker[w]
           sent == Append(chain, [task |-> m.task, status |-> "pending"])
           number(n) == [m.timeline EXCEPT ![Len(m.timeline)] =
                [task |-> m.task, status |-> "submitted", tx |-> n]]
       IN  \/ /\ Len(chain) < MaxSends
              /\ chain' = sent
              /\ \/ Become(w, [m EXCEPT !.pc = "submitted",
                                        !.timeline = number(Len(sent))])
                 \/ Become(w, [m EXCEPT !.pc = "unsure"])
           \/ Become(w, [m EXCEPT !.pc = "unsure"]) /\ UNCHANGED chain
    /\ UNCHANGED <<execution, serverVars, ownerVars>>

\* onTransactionSubmitted.
Submitted(w) ==
    /\ At(w, "submitted")
    /\ LET m == worker[w]
       IN  Progress(w, m.timeline, Then("receipt", m.task),
                    KnownHashKept(w, m.timeline))
    /\ UNCHANGED <<chain, serverVars, ownerVars>>

\* waitForReceipt and the checkpoint of its result.  A receipt that does not
\* come in time leaves the entry submitted; a reverted one loses its hash.
Receipt(w) ==
    /\ At(w, "receipt")
    /\ LET m == worker[w]
           last == Len(m.timeline)
           found == chain[m.timeline[last].tx].status
           confirmed == [m.timeline EXCEPT ![last].status = "confirmed"]
           reverted == [m.timeline EXCEPT ![last].status = "reverted",
                                          ![last].tx = 0]
       IN  \/ Progress(w, m.timeline, Ended("CYCLE_BOUND_REACHED"),
                       KnownHashKept(w, m.timeline))
           \/ /\ found = "success"
              /\ Progress(w, confirmed,
                          [Then("settle", m.task) EXCEPT
                                !.code = "CYCLE_BOUND_REACHED"],
                          KnownHashKept(w, confirmed))
           \/ /\ found = "reverted"
              /\ Progress(w, reverted, Ended("TX_REVERTED"),
                          KnownHashKept(w, reverted))
    /\ UNCHANGED <<chain, serverVars, ownerVars>>

\* What asking for the completion key can lead to; able says that every task is
\* done.  A handler that throws leaves its request failed with no body, and the
\* gateway answers every later use of the key finish:<run> from that row: ok,
\* without running the handler again (route-factory.ts:89-97, 229-245).  Thrown
\* after the key was granted it is one more answer that got lost.
KeyAnswers(able) ==
    {a \in [granted : BOOLEAN, threw : BOOLEAN,
            code : {"NONE", "INTERNAL_ERROR"} \cup CallFailures] :
        IF keyThrew
        THEN a.threw /\ a.granted = keyGranted /\ a.code # "INTERNAL_ERROR"
        ELSE /\ keyGranted => a.granted
             /\ a.granted => able \/ keyGranted
             /\ a.code = "NONE" => a.granted
             /\ a.code = "INTERNAL_ERROR" => a.granted \/ a.threw
             /\ a.threw => ~ a.granted}

\* The end of a report: rewards still unpaid, tasks left for whatever reason the
\* planner stopped, or everything done and the completion key asked for.
Close(w) ==
    /\ At(w, "close")
    /\ LET m == worker[w]
           stop(c) == [m EXCEPT !.pc = "finish", !.code = c]
       IN  \/ /\ m.unpaid # {}
              /\ Become(w, stop("OWNER_REWARD_DECISION_REQUIRED"))
              /\ UNCHANGED keyVars
           \/ /\ m.unpaid = {} /\ m.settled # Tasks
              /\ Become(w, stop(m.code))
              /\ UNCHANGED keyVars
           \/ /\ m.unpaid = {} /\ m.settled = Tasks
              /\ \E a \in KeyAnswers(completed = Tasks) :
                    /\ Become(w, stop(a.code))
                    /\ keyGranted' = a.granted
                    /\ keyThrew' = a.threw
    /\ UNCHANGED <<execution, chain, completed, claimed, ownerVars>>

\* The status a class of failure leads to.  CYCLE_BOUND_REACHED continues.
StatusFor(code) ==
    CASE code = "NONE" -> "completed"
      [] code \in OwnerCodes -> "decision_required"
      [] code \in FatalCodes -> "failed"
      [] OTHER -> "waiting_retry"

\* The checkpoint of a report.
Finish(w) ==
    /\ At(w, "finish")
    /\ LET m == worker[w]
           status == StatusFor(m.code)
       IN  Release(w, status, m.timeline,
                   IF status = "decision_required" THEN "owner" ELSE "none",
                   m.code)
    /\ UNCHANGED <<chain, serverVars, ownerVars>>

\* finalizeBeforeDeadline: close to the run's end an unpaid reward is given up
\* and the run finalized instead.
FinalizeEarly(w) ==
    /\ At(w, "finish")
    /\ worker[w].code = "OWNER_REWARD_DECISION_REQUIRED"
    /\ Become(w, [worker[w] EXCEPT !.pc = "finalize", !.base = worker[w].timeline])
    /\ UNCHANGED <<execution, chain, serverVars, ownerVars>>

\* A slip: the answer to the request for the key is not looked at.
FinalizeRegardless(w) ==
    /\ At(w, "finalize")
    /\ \E a \in KeyAnswers(completed = Tasks) :
          /\ keyGranted' = a.granted
          /\ keyThrew' = a.threw
          /\ Release(w, "completed", worker[w].base, "none", "NONE")
    /\ UNCHANGED <<chain, completed, claimed, ownerVars>>

\* finalize: the key is asked for with whatever the run has.
Finalize(w) ==
    /\ At(w, "finalize")
    /\ \E a \in KeyAnswers(completed = Tasks) :
          /\ keyGranted' = a.granted
          /\ keyThrew' = a.threw
          /\ Release(w, IF a.code = "NONE" THEN "completed" ELSE "failed",
                     worker[w].base, "none", a.code)
    /\ UNCHANGED <<chain, completed, claimed, ownerVars>>

GiveUp(w) ==
    /\ At(w, "threw")
    /\ Release(w, "waiting_retry", worker[w].base, "none", "RUN_THREW")
    /\ UNCHANGED <<chain, serverVars, ownerVars>>

Crash(w) ==
    /\ ~ At(w, "idle")
    /\ Become(w, Idle)
    /\ UNCHANGED <<execution, chain, serverVars, ownerVars>>

\* A slip: the run takes the status of its command.
AnswerAsCommand(resolution) ==
    /\ answers < MaxAnswers
    /\ execution.status = "decision_required"
    /\ execution' = [execution EXCEPT !.question = "none",
          !.status = IF resolution = "cancel" THEN "cancelled" ELSE "waiting_retry"]
    /\ answers' = answers + 1
    /\ UNCHANGED <<worker, chain, serverVars, waived>>

\* resolve_agent_command_run_decision.
Answer(resolution) ==
    /\ answers < MaxAnswers
    /\ execution.status = "decision_required"
    /\ execution.question = "owner"
    /\ resolution \in {"retry",
          IF execution.error = "OWNER_REWARD_DECISION_REQUIRED"
          THEN "finalize" ELSE "cancel"}
    /\ execution' = [execution EXCEPT
          !.status = IF resolution = "cancel" THEN "failed" ELSE "waiting_retry",
          !.question = "none",
          !.resolution = IF resolution = "cancel" THEN "none" ELSE resolution]
    /\ worker' = [v \in Workers |-> [worker[v] EXCEPT !.current = FALSE]]
    /\ answers' = answers + 1
    /\ waived' = [t \in Tasks |-> waived[t] +
          IF resolution # "retry" THEN 0
          ELSE Cardinality({i \in DOMAIN execution.timeline :
                  /\ execution.timeline[i].task = t
                  /\ execution.timeline[i].status = "broadcasting"})]
    /\ UNCHANGED <<chain, serverVars>>

Mine ==
    /\ \E i \in DOMAIN chain, s \in {"success", "reverted"} :
        /\ chain[i].status = "pending"
        /\ chain' = [chain EXCEPT ![i].status = s]
    /\ UNCHANGED <<execution, worker, serverVars, ownerVars>>

CycleNext(w) ==
    \/ Acquire(w) \/ LeaveRun(w) \/ ReadRun(w) \/ StopUnsure(w) \/ Recheck(w) \/ Settle(w)
    \/ Plan(w) \/ Prepare(w) \/ Send(w) \/ Submitted(w) \/ Receipt(w)
    \/ Close(w) \/ Finish(w) \/ FinalizeEarly(w) \/ Finalize(w) \/ GiveUp(w) \/ Crash(w)

RunNext ==
    \/ \E w \in Workers : CycleNext(w)
    \/ \E resolution \in {"retry", "finalize", "cancel"} : Answer(resolution)
    \/ Mine

RunSpec == RunInit /\ [][RunNext]_runVars

----------------------------------------------------------------------------
\* A task never has two transactions that are out or landed, whatever workers
\* crash, lose their lease, or save without hearing of it, except for those the
\* owner was asked about and let the run redo (run.ts:722-740, 969-992,
\* worker.ts:436-458).
OneLiveSend ==
    \A t \in Tasks :
        Cardinality({i \in DOMAIN chain :
            chain[i].task = t /\ chain[i].status # "reverted"}) <= 1 + waived[t]

\* Everything sent is in the durable journal, by its hash or as broadcasting,
\* so that whoever takes the run over knows of it (run.ts:969-992).
SentIsJournaled ==
    answers = 0 =>
        \A i \in DOMAIN chain : chain[i].status # "reverted" =>
            \E e \in Range(execution.timeline) :
                /\ e.task = chain[i].task
                /\ e.status = "broadcasting" \/ e.tx = i

\* A hash that reached the journal stays there until its transaction is known
\* to have reverted: no stale worker writes over it (worker.ts:271-315).
JournalKeepsHashes ==
    [][\A e \in Range(execution.timeline) :
        HasHash(e) /\ chain[e.tx].status # "reverted"
        => \E f \in Range(execution'.timeline) : f.tx = e.tx]_runVars

\* A run is only reported completed with its key granted, unless the gateway
\* threw when it was asked for: a lost answer, a worker taken over in between
\* and an owner's finalize included (run.ts:1205-1246, worker.ts:704-739).
CompletedHasKey == execution.status = "completed" => keyGranted \/ keyThrew

\* A run reported completed has its key: a request whose handler threw is to
\* stay retryable (route-factory.order.test.ts, "keeps a 5xx retryable instead
\* of caching it as terminally failed"), and here it is cached as a success.
CompletionIsReal == execution.status = "completed" => keyGranted

\* Where the client decides, the worker does not use funds on its own: "The
\* external client must choose one current candidate before funds are used"
\* (run.ts:883).
NeverActsAlone ==
    execution.authority = "delegated_client" => chain = <<>>

\* A delegated run that must be given a choice offers one to its client, as the
\* action_selection the worker writes for it (worker.ts:586-606); the control
\* service looks for nothing else (service.ts:272-286).
ChoiceIsOffered ==
    execution.error = "EXTERNAL_DECISION_REQUIRED"
        => execution.question = "action_selection"

\* Both halves of "The external client must choose one current candidate before
\* funds are used" (run.ts:883): it is asked, and nothing is sent before.
ClientChoosesFirst == ChoiceIsOffered /\ NeverActsAlone
=============================================================================
