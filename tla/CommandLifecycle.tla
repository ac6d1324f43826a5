--------------------------- MODULE CommandLifecycle ---------------------------
(***************************************************************************)
(* One command of an agent from the request that creates it to its end: the*)
(* agent_commands row, the execution row of its quest run, the events that *)
(* carry the work, the job that consumes them one bounded cycle at a time, *)
(* and the clients and the owner who start, answer and cancel.             *)
(*                                                                         *)
(* One agent is modelled.  The concurrency limit of the job allows one step*)
(* of the agent at a time, and not one delivery: the steps of deliveries   *)
(* that overlap interleave.  Each SQL function is one action.  A caller's  *)
(* RPC and the event it sends afterwards are two, and the caller may die in*)
(* between.  The job's step.run blocks are one action each: a step that    *)
(* failed is run again, and a step whose commit was not heard is too.  A   *)
(* compare-and-set that is repeated finds its own write and takes it for   *)
(* somebody else's.  What stands outside the blocks is run anew before each*)
(* of them, from what the blocks before it returned.                       *)
(*                                                                         *)
(* Versions that a caller sends are compared with the row and a mismatch   *)
(* changes nothing, so callers act on what they see.  "go" stands for      *)
(* proceed, retry and finalize.  Chat replies, the admission's arithmetic  *)
(* and what a cycle does on the chain are abstracted; RunWorker has them.  *)
(* No execution is ever given an action_selection (the run_choice run), so *)
(* resolve_headless_agent_candidate always answers stale and is left out.  *)
(***************************************************************************)
EXTENDS Naturals

CONSTANTS
    Commands,         \* ids of agent_commands rows
    Runs,             \* ids of daily_quest_runs; one execution row each
    MaxCycles,        \* MAX_EXECUTION_CONTINUATIONS
    Budgets,          \* bound: answers, faults, revocations and overlapping
                      \* deliveries there are
    None              \* SQL NULL

\* The kinds of pending_decision: "run" is the one copied from the execution,
\* "answered" stands for admission_proceed and admission_retry.
Questions == {"selection", "admission", "run", "interrupted", "answered"}

Budget == [answers : Nat, faults : Nat, revocations : Nat, overlaps : Nat]

ASSUME CommandAssumption ==
    /\ MaxCycles \in Nat
    /\ Budgets \subseteq Budget
    /\ None \notin Commands \cup Runs \cup Questions

VARIABLES
    ready,            \* the agent is ready and has its execution wallet
    authorized,       \* its headless authorization is live
    command,          \* command id -> row
    execution,        \* run id -> row of agent_run_executions
    events,           \* events not yet delivered
    sent,             \* ids of all events sent: a repeated id is dropped
    jobs,             \* deliveries under way: progress, and what they remember
    outbox,           \* events whose sender has not sent them yet
    failures,         \* events the job gave up on, for onFailure
    asked,            \* owner answers on their way to an unlinked execution
    budget,           \* what is left of the budget this behaviour started with
    cut,              \* commands that a fault separated from their events
    overtaken         \* commands whose execution another delivery moved

commandVars == <<ready, authorized, command, execution, events, sent, jobs,
                 outbox, failures, asked, budget, cut, overtaken>>

Final == {"completed", "failed", "cancelled"}
Working == {"queued", "running"}
Active == Working \cup {"decision_required"}

CommandRow ==
    [status : {"absent"} \cup Active \cup Final, version : Nat,
     controller : {"chat", "headless"}, run : Runs \cup {None},
     linked : BOOLEAN, pending : Questions \cup {None}]

\* status "waiting" stands for planning, running, waiting_retry, finalizing.
ExecutionRow ==
    [status : {"absent", "waiting", "decision_required", "completed", "failed"},
     version : Nat, command : Commands \cup {None}]

\* An event is its id: who sends it, the row and version it is about, and the
\* continuation counter.
Event ==
    [by : {"start", "select", "client", "owner", "retry", "continue"},
     command : Commands \cup {None}, run : Runs \cup {None},
     version : Nat, cycle : Nat]

Requested(by, c, v, n) ==
    [by |-> by, command |-> c, run |-> None, version |-> v, cycle |-> n]
Continue(by, r, v, n) ==
    [by |-> by, command |-> None, run |-> r, version |-> v, cycle |-> n]

\* What a transition expects a command's row to be at.
Seen == [status : Working, version : Nat]

\* A delivery and where it is.  loaded is what load-agent-command returned and
\* seen what the row was at after the delivery's last transition; found is the
\* execution row as load-cycle-execution read it.
JobRecord ==
    [at : {"resolve", "load", "refuse", "discover", "admit", "start", "cycle",
           "read", "link", "finish"},
     event : Event, command : Commands \cup {None}, loaded : Seen \cup {None},
     seen : Seen \cup {None}, run : Runs \cup {None}, linked : BOOLEAN,
     found : ExecutionRow \cup {None},
     outcome : {"ran", "terminal", "decision_required", "fatal", "again", None}]

Begun(e) ==
    [at |-> IF e.command = None THEN "resolve" ELSE "load", event |-> e,
     command |-> e.command, loaded |-> None, seen |-> None, run |-> None,
     linked |-> FALSE, found |-> None, outcome |-> None]

CommandTypeOK ==
    /\ ready \in BOOLEAN
    /\ authorized \in BOOLEAN
    /\ command \in [Commands -> CommandRow]
    /\ execution \in [Runs -> ExecutionRow]
    /\ events \subseteq sent
    /\ sent \subseteq Event
    /\ jobs \subseteq JobRecord
    /\ outbox \subseteq Event
    /\ failures \subseteq sent
    /\ asked \subseteq [run : Runs, version : Nat]
    /\ budget \in Budget
    /\ cut \subseteq Commands
    /\ overtaken \subseteq Commands

CommandInit ==
    /\ ready = TRUE
    /\ authorized = TRUE
    /\ command = [c \in Commands |->
            [status |-> "absent", version |-> 0, controller |-> "chat",
             run |-> None, linked |-> FALSE, pending |-> None]]
    /\ execution = [r \in Runs |->
            [status |-> "absent", version |-> 0, command |-> None]]
    /\ events = {}
    /\ sent = {}
    /\ jobs = {}
    /\ outbox = {}
    /\ failures = {}
    /\ asked = {}
    /\ budget \in Budgets
    /\ cut = {}
    /\ overtaken = {}

\* inngest.send: an id that was seen before is dropped.
Accept(e) ==
    /\ events' = IF e \in sent THEN events ELSE events \cup {e}
    /\ sent' = sent \cup {e}

\* The command an event is for, as far as the rows know it.
CommandOf(e) ==
    IF e.command # None THEN e.command ELSE execution[e.run].command

Fault ==
    /\ budget.faults > 0
    /\ budget' = [budget EXCEPT !.faults = @ - 1]

\* A fault that separates a command from the events that would carry it on.
Cut(c) ==
    /\ Fault
    /\ cut' = cut \cup {c}

----------------------------------------------------------------------------
\* Starting a command.

\* uq_agent_commands_active, and the checks that answer busy or suppressed.
NoneActive == \A c \in Commands : command[c].status \notin Active

\* gen_random_uuid: which of the unused ids it is makes no difference.
Fresh(c) ==
    /\ command[c].status = "absent"
    /\ c = CHOOSE d \in Commands : command[d].status = "absent"

NewRow(controller, r) ==
    [status |-> "queued", version |-> 0, controller |-> controller,
     run |-> r, linked |-> FALSE, pending |-> None]

\* startHeadlessRun: create_headless_agent_command inserts the row.  A request
\* id that is sent again is answered with the row, and sends no event.
StartHeadless(c, r) ==
    /\ Fresh(c)
    /\ ready /\ authorized /\ NoneActive
    /\ command' = [command EXCEPT ![c] = NewRow("headless", r)]
    /\ outbox' = outbox \cup {Requested("start", c, 0, 0)}
    /\ UNCHANGED <<ready, authorized, execution, events, sent, jobs, failures,
                    asked, budget, cut, overtaken>>

\* recordOwnerTurn: create_agent_chat_turn, which names no run.
StartChat(c) ==
    /\ Fresh(c)
    /\ ready /\ NoneActive
    /\ command' = [command EXCEPT ![c] = NewRow("chat", None)]
    /\ outbox' = outbox \cup {Requested("start", c, 0, 0)}
    /\ UNCHANGED <<ready, authorized, execution, events, sent, jobs, failures,
                    asked, budget, cut, overtaken>>

\* The sender goes on to inngest.send.
Send(e) ==
    /\ e \in outbox
    /\ outbox' = outbox \ {e}
    /\ Accept(e)
    /\ UNCHANGED <<ready, authorized, command, execution, jobs, failures,
                    asked, budget, cut, overtaken>>

\* The sender dies, or inngest.send throws, after the row was written.
LoseSend(e) ==
    /\ e \in outbox
    /\ outbox' = outbox \ {e}
    /\ Cut(CommandOf(e))
    /\ UNCHANGED <<ready, authorized, command, execution, events, sent, jobs,
                    failures, asked, overtaken>>

----------------------------------------------------------------------------
\* Answering and cancelling.

\* A headless caller needs a live authorization and a headless command.
May(by, c) ==
    by = "client" => authorized /\ command[c].controller = "headless"

Answer ==
    /\ budget.answers > 0
    /\ budget' = [budget EXCEPT !.answers = @ - 1]

\* A command's row written anew, its version counted.
Rewritten(c, status, pending, r) ==
    [command EXCEPT ![c].status = status, ![c].pending = pending, ![c].run = r,
                    ![c].version = @ + 1]

\* resolve_agent_command_selection.
SelectQuest(c, r) ==
    /\ Answer
    /\ command[c].status = "decision_required"
    /\ command[c].pending = "selection"
    /\ command' = Rewritten(c, "queued", None, r)
    /\ outbox' = outbox \cup {Requested("select", c, command[c].version + 1, 0)}
    /\ UNCHANGED <<ready, authorized, execution, events, sent, jobs, failures,
                    asked, cut, overtaken>>

\* resolve_headless_agent_admission_decision, by the client, and
\* resolve_agent_command_admission_decision, by the owner, which asks for no
\* controller.  The row keeps that it was answered.
ResolveAdmission(by, c, resolution) ==
    /\ Answer
    /\ May(by, c)
    /\ command[c].status = "decision_required"
    /\ command[c].pending = "admission"
    /\ ~command[c].linked
    /\ command' = IF resolution = "cancel"
                  THEN Rewritten(c, "cancelled", None, command[c].run)
                  ELSE Rewritten(c, "queued", "answered", command[c].run)
    /\ outbox' = IF resolution = "cancel" THEN outbox
                 ELSE outbox \cup {Requested(by, c, command[c].version + 1, 0)}
    /\ UNCHANGED <<ready, authorized, execution, events, sent, jobs, failures,
                    asked, cut, overtaken>>

\* The owner sends the same answer again (owner.ts): the row says it is
\* replayed, and the event goes out all the same, under the owner's id.
RepeatAdmission(c) ==
    /\ Answer
    /\ command[c].status = "queued"
    /\ command[c].pending = "answered"
    /\ ~command[c].linked
    /\ outbox' = outbox \cup {Requested("owner", c, command[c].version, 0)}
    /\ UNCHANGED <<ready, authorized, command, execution, events, sent, jobs,
                    failures, asked, cut, overtaken>>

\* resolve_agent_command_run_decision, under resolve_headless_agent_run_decision
\* for a client: both rows move together.
ResolveRun(by, c, resolution) ==
    LET r == command[c].run IN
    /\ Answer
    /\ May(by, c)
    /\ command[c].status = "decision_required"
    /\ command[c].linked
    /\ execution[r].status = "decision_required"
    /\ execution[r].command = c
    /\ execution' = [execution EXCEPT ![r].version = @ + 1,
            ![r].status = IF resolution = "cancel" THEN "failed" ELSE "waiting"]
    /\ command' = Rewritten(c,
            IF resolution = "cancel" THEN "cancelled" ELSE "running", None, r)
    /\ outbox' = IF resolution = "cancel" THEN outbox
                 ELSE outbox \cup {Continue(by, r, execution[r].version + 1, 0)}
    /\ UNCHANGED <<ready, authorized, events, sent, jobs, failures, asked, cut,
                    overtaken>>

\* resolveOwnerAgentDecision reads that no command is linked to the execution...
OwnerReadsUnlinked(r) ==
    /\ Answer
    /\ execution[r].status = "decision_required"
    /\ execution[r].command = None
    /\ asked' = asked \cup {[run |-> r, version |-> execution[r].version]}
    /\ UNCHANGED <<ready, authorized, command, execution, events, sent, jobs,
                    outbox, failures, cut, overtaken>>

\* ... and calls resolve_agent_run_decision, which looks at the version alone: a
\* command that was linked in between is not told, and no event is sent.
ResolveUnlinked(r, resolution) ==
    LET answer == [run |-> r, version |-> execution[r].version] IN
    /\ answer \in asked
    /\ asked' = asked \ {answer}
    /\ execution[r].status = "decision_required"
    /\ execution' = [execution EXCEPT ![r].version = @ + 1,
            ![r].status = IF resolution = "cancel" THEN "failed" ELSE "waiting"]
    /\ cut' = cut \cup {c \in Commands :
                            command[c].run = r /\ command[c].status \in Active}
    /\ UNCHANGED <<ready, authorized, command, events, sent, jobs, outbox,
                    failures, budget, overtaken>>

\* cancelHeadlessRun: any command that is not final, and never its execution.
CancelHeadless(c) ==
    /\ May("client", c)
    /\ command[c].status \in Active
    /\ command' = Rewritten(c, "cancelled", None, command[c].run)
    /\ UNCHANGED <<ready, authorized, execution, events, sent, jobs, outbox,
                    failures, asked, budget, cut, overtaken>>

Revocation ==
    /\ budget.revocations > 0
    /\ budget' = [budget EXCEPT !.revocations = @ - 1]

\* The owner revokes the agent, or its authorization.
RevokeReady ==
    /\ Revocation
    /\ ready
    /\ ready' = FALSE
    /\ UNCHANGED <<authorized, command, execution, events, sent, jobs, outbox,
                    failures, asked, cut, overtaken>>

RevokeAuthorization ==
    /\ Revocation
    /\ authorized
    /\ authorized' = FALSE
    /\ UNCHANGED <<ready, command, execution, events, sent, jobs, outbox,
                    failures, asked, cut, overtaken>>

----------------------------------------------------------------------------
\* The job: deliveries for the agent, their steps one at a time.

Overlap ==
    /\ budget.overlaps > 0
    /\ budget' = [budget EXCEPT !.overlaps = @ - 1]

Deliver(e) ==
    /\ e \in events
    /\ events' = events \ {e}
    /\ \/ jobs = {} /\ UNCHANGED budget
       \/ jobs # {} /\ Overlap
    /\ jobs' = jobs \cup {Begun(e)}
    /\ UNCHANGED <<ready, authorized, command, execution, sent, outbox,
                    failures, asked, cut, overtaken>>

\* A delivery goes on from j, or ends where there is nothing next.
Becomes(j, next) == jobs' = (jobs \ {j}) \cup next
Ends(j) == Becomes(j, {})

\* What only the delivery's own memory changes in.
Remember(j, next) ==
    /\ Becomes(j, next)
    /\ UNCHANGED <<ready, authorized, command, execution, events, sent,
                    outbox, failures, asked, budget, cut, overtaken>>

\* What a transition of the command leaves alone.
TransitionOnly ==
    UNCHANGED <<ready, authorized, execution, events, sent, outbox, failures,
                 asked, budget, cut, overtaken>>

\* resolve-continuation-command: an event about an older version is stale.
ResolveContinuation(j) ==
    LET row == execution[j.event.run] IN
    /\ j.at = "resolve"
    /\ Remember(j, IF row.command = None \/ row.version # j.event.version
                   THEN {}
                   ELSE {[j EXCEPT !.at = "load", !.command = row.command]})

\* Where the work on a command begins, as far as the job has seen its row.
StartAt(status) == IF status = "running" THEN "cycle" ELSE "start"
WorkAt(row) ==
    IF row.run = None THEN "discover"
    ELSE IF row.linked THEN StartAt(row.status) ELSE "admit"

\* A slip: a command that waits for an answer is taken up as well.
NotFinal(row) == row.status \notin Final

Loadable(row) == row.status \in Working

\* load-agent-command reads the agent and the command: from here on the job
\* trusts this copy of both.
Load(j) ==
    LET row == command[j.command]
        seen == [status |-> row.status, version |-> row.version]
    IN  /\ j.at = "load"
        /\ Remember(j, IF ~Loadable(row) THEN {}
                       ELSE {[j EXCEPT !.loaded = seen, !.seen = seen,
                                !.run = row.run, !.linked = row.linked,
                                !.at = IF ready THEN WorkAt(row) ELSE "refuse"]})

\* A slip for the mutants: the row is found by its id alone.
HoldsById(c, seen) == TRUE

\* updateCommand: the row is still at the status and version the job knows.
Holds(c, seen) ==
    /\ command[c].status = seen.status
    /\ command[c].version = seen.version

\* A transition after which the delivery ends, whether it wrote or was stale.
EndsWith(j, status, pending) ==
    /\ command' = IF Holds(j.command, j.seen)
                  THEN Rewritten(j.command, status, pending, j.run)
                  ELSE command
    /\ Ends(j)
    /\ TransitionOnly

\* A transition to running, after which the delivery goes on.
GoesOn(j, r, at) ==
    /\ IF Holds(j.command, j.seen)
       THEN /\ command' = Rewritten(j.command, "running", None, r)
            /\ Becomes(j, {[j EXCEPT !.at = at, !.run = r, !.seen =
                   [status |-> "running", version |-> j.seen.version + 1]]})
       ELSE /\ Ends(j)
            /\ UNCHANGED command
    /\ TransitionOnly

\* The agent was not ready, or had lost its wallet, when it was loaded.
Refuse(j) ==
    /\ j.at = "refuse"
    /\ EndsWith(j, "failed", None)

\* loadActiveAuthorization stands outside the steps: it is asked before each of
\* them whether a headless command may still run.
Denied(j) == command[j.command].controller = "headless" /\ ~authorized
Beyond == {"discover", "admit", "start", "cycle", "read", "link", "finish"}
Proceeds(j, step) == j.at = step /\ ~Denied(j)

\* It may not: the transition expects the row as it was loaded, and is stale once
\* the delivery has written it.
FailUnauthorized(j) ==
    /\ j.at \in Beyond
    /\ Denied(j)
    /\ command' = IF Holds(j.command, j.loaded)
                  THEN Rewritten(j.command, "failed", None, command[j.command].run)
                  ELSE command
    /\ Ends(j)
    /\ TransitionOnly

\* listExecutableQuests: what the permissions, the engine and the task types
\* leave is nothing, several runs or one.
Executable == {"none", "several"} \cup Runs

\* discover-eligible-runs, for a command that names no run.
Discover(j) ==
    /\ Proceeds(j, "discover")
    /\ \E eligible \in Executable :
        CASE eligible = "none" -> EndsWith(j, "completed", None)
          [] eligible = "several" -> EndsWith(j, "decision_required", "selection")
          [] OTHER -> GoesOn(j, eligible, "admit")

\* check-quest-admission: only a run that was never begun is assessed.
Admit(j) ==
    /\ Proceeds(j, "admit")
    /\ \/ Remember(j, {[j EXCEPT !.at = StartAt(j.seen.status)]})
       \/ /\ execution[j.run].status = "absent"
          /\ EndsWith(j, "decision_required", "admission")

Start(j) ==
    /\ Proceeds(j, "start")
    /\ GoesOn(j, j.run, "cycle")

\* One worker.runOnce: what the row and the outcome may be afterwards.  A row
\* that is busy, backed off or waits for its owner is left as it is; one whose
\* claim or report failed for good may be told to come again.
CycleResults(row) ==
    CASE row.status \in {"completed", "failed"} -> {<<row, "terminal">>}
      [] row.status = "decision_required" -> {<<row, "again">>}
      [] OTHER ->
            LET Saved(status) == [row EXCEPT !.status = status,
                                             !.version = @ + 1] IN
            {<<row, "again">>,
             <<Saved("waiting"), "again">>,
             <<Saved("decision_required"), "decision_required">>,
             <<Saved("completed"), "ran">>,
             <<Saved("failed"), "fatal">>,
             <<Saved("failed"), "again">>}
            \cup IF row.status = "absent" THEN {<<row, "fatal">>} ELSE {}

\* Commands at work on j's run that j does not carry on itself, or that another
\* delivery carries on from a version it read before.
Others(j) ==
    {c \in Commands :
        /\ command[c].status \in Working
        /\ command[c].run = j.run
        /\ c = j.command =>
              \/ ~Holds(c, j.seen)
              \/ \E k \in jobs \ {j} : k.command = c /\ k.found # None}

\* The cycle's checkpoint: whoever counts on the version before is overtaken.
Checkpoint(j, row) ==
    /\ execution' = [execution EXCEPT ![j.run] = row]
    /\ overtaken' = IF row = execution[j.run] THEN overtaken
                    ELSE overtaken \cup Others(j)

Cycle(j) ==
    /\ Proceeds(j, "cycle")
    /\ \E result \in CycleResults(execution[j.run]) :
        /\ Checkpoint(j, result[1])
        /\ Becomes(j, {[j EXCEPT !.at = "read", !.outcome = result[2]]})
    /\ UNCHANGED <<ready, authorized, command, events, sent, outbox, failures,
                    asked, budget, cut>>

\* load-cycle-execution.  A command that was not linked when it was loaded is
\* linked to what is found.
Read(j) ==
    LET row == execution[j.run] IN
    /\ Proceeds(j, "read")
    /\ Remember(j, {[j EXCEPT !.found = row,
            !.at = IF row.status = "absent" \/ j.linked THEN "finish" ELSE "link"]})

\* A slip: the link is taken over from an earlier command.
MayLinkAnew(j) == Holds(j.command, j.seen)

\* link-command-execution: an execution keeps the first command it gets.
MayLink(j) ==
    /\ execution[j.run].command \in {None, j.command}
    /\ Holds(j.command, j.seen)

\* A slip: only the command is written.
ExecutionsAsTheyWere(j) == execution

\* The two rows of a link.
LinkedCommands(j) ==
    [command EXCEPT ![j.command].linked = TRUE,
        ![j.command].status = "running", ![j.command].version = @ + 1]
LinkedExecutions(j) == [execution EXCEPT ![j.run].command = j.command]

Link(j) ==
    /\ Proceeds(j, "link")
    /\ IF MayLink(j)
       THEN /\ command' = LinkedCommands(j)
            /\ execution' = LinkedExecutions(j)
            /\ Becomes(j, {[j EXCEPT !.at = "finish", !.seen =
                   [status |-> "running", version |-> j.seen.version + 1]]})
       ELSE /\ Ends(j)
            /\ UNCHANGED <<command, execution>>
    /\ UNCHANGED <<ready, authorized, events, sent, outbox, failures, asked,
                    budget, cut, overtaken>>

\* A slip: the counter is not carried, so both versions alone make the id.
ContinuationUncounted(j, n) ==
    IF j.found.status = "absent"
    THEN Requested("retry", j.command, j.seen.version, 0)
    ELSE Continue("continue", j.run, j.found.version, 0)

\* continuationEvent: the counter is in the id, for a cycle that makes no
\* progress leaves both versions as they were.
Continuation(j, n) ==
    IF j.found.status = "absent"
    THEN Requested("retry", j.command, j.seen.version, n)
    ELSE Continue("continue", j.run, j.found.version, n)

\* How the delivery ends once the cycle is known.
Finish(j) ==
    /\ Proceeds(j, "finish")
    /\ CASE j.outcome \in {"ran", "terminal"} ->
              EndsWith(j, IF j.outcome = "ran" \/ j.found.status = "completed"
                          THEN "completed" ELSE "failed", None)
         [] j.outcome = "decision_required" ->
              EndsWith(j, "decision_required",
                  IF j.found.status = "decision_required" THEN "run" ELSE None)
         [] j.outcome = "fatal" -> EndsWith(j, "failed", None)
         [] j.outcome = "again" /\ j.event.cycle >= MaxCycles ->
              EndsWith(j, "failed", None)
         [] OTHER ->
              /\ Accept(Continuation(j, j.event.cycle + 1))
              /\ Ends(j)
              /\ UNCHANGED <<ready, authorized, command, execution, outbox,
                              failures, asked, budget, cut, overtaken>>

JobStep(j) ==
    \/ ResolveContinuation(j) \/ Load(j) \/ Refuse(j) \/ FailUnauthorized(j)
    \/ Discover(j) \/ Admit(j) \/ Start(j) \/ Cycle(j) \/ Read(j) \/ Link(j)
    \/ Finish(j)

----------------------------------------------------------------------------
\* Faults of the job.

\* A step throws until its retries are used up, and the delivery is given up.
JobFails(j) ==
    /\ Fault
    /\ failures' = failures \cup {j.event}
    /\ Ends(j)
    /\ UNCHANGED <<ready, authorized, command, execution, events, sent,
                    outbox, asked, cut, overtaken>>

\* onFailure, which runs beside the deliveries: the command goes back to its
\* owner with a question no RPC answers, unless the execution has one.
OnFailure(e) ==
    LET c == CommandOf(e) IN
    /\ e \in failures
    /\ failures' = failures \ {e}
    /\ command' = IF c # None /\ command[c].status \in Working
                  THEN Rewritten(c, "decision_required", "interrupted",
                                 command[c].run)
                  ELSE command
    /\ UNCHANGED <<ready, authorized, execution, events, sent, jobs, outbox,
                    asked, budget, cut, overtaken>>

\* A transition or a link was committed and its answer lost: run again, it
\* finds a version that is not the one it expects, and calls itself stale.
StepLost(j) ==
    /\ j.at \in {"discover", "start", "link"}
    /\ ~Denied(j)
    /\ Holds(j.command, j.seen)
    /\ \/ \E r \in Runs : j.at = "discover"
            /\ command' = Rewritten(j.command, "running", None, r)
            /\ UNCHANGED execution
       \/ /\ j.at = "start"
          /\ command' = Rewritten(j.command, "running", None, j.run)
          /\ UNCHANGED execution
       \/ /\ j.at = "link"
          /\ MayLink(j)
          /\ command' = LinkedCommands(j)
          /\ execution' = LinkedExecutions(j)
    /\ Cut(j.command)
    /\ Ends(j)
    /\ UNCHANGED <<ready, authorized, events, sent, outbox, failures, asked,
                    overtaken>>

\* The cycle was run and its outcome lost: the step is run again on the row the
\* first one left.
CycleLost(j) ==
    /\ Proceeds(j, "cycle")
    /\ \E result \in CycleResults(execution[j.run]) : Checkpoint(j, result[1])
    /\ Cut(j.command)
    /\ UNCHANGED <<ready, authorized, command, events, sent, jobs, outbox,
                    failures, asked>>

\* The worker lost its lease: the last checkpoint is refused, and the outcome
\* is reported as if it had been saved (runOnce does not read the answer).
CycleUnsaved(j) ==
    /\ Proceeds(j, "cycle")
    /\ execution[j.run].status = "waiting"
    /\ \E result \in CycleResults(execution[j.run]) :
        Becomes(j, {[j EXCEPT !.at = "read", !.outcome = result[2]]})
    /\ Cut(j.command)
    /\ UNCHANGED <<ready, authorized, command, execution, events, sent,
                    outbox, failures, asked, overtaken>>

CommandNext ==
    \/ \E c \in Commands :
        \/ \E r \in Runs : StartHeadless(c, r) \/ SelectQuest(c, r)
        \/ StartChat(c) \/ RepeatAdmission(c) \/ CancelHeadless(c)
        \/ \E by \in {"client", "owner"}, resolution \in {"go", "cancel"} :
                ResolveAdmission(by, c, resolution) \/ ResolveRun(by, c, resolution)
    \/ \E r \in Runs :
        \/ OwnerReadsUnlinked(r)
        \/ \E resolution \in {"go", "cancel"} : ResolveUnlinked(r, resolution)
    \/ \E e \in outbox : Send(e) \/ LoseSend(e)
    \/ RevokeReady \/ RevokeAuthorization
    \/ \E e \in events : Deliver(e)
    \/ \E e \in failures : OnFailure(e)
    \/ \E j \in jobs :
        \/ JobStep(j) \/ JobFails(j)
        \/ StepLost(j) \/ CycleLost(j) \/ CycleUnsaved(j)

\* Inngest delivers what it accepted, runs the steps and calls onFailure; a
\* sender that does not die sends.  Nobody has to ask, answer or cancel.
CommandFairness ==
    /\ WF_commandVars(\E e \in outbox : Send(e))
    /\ WF_commandVars(\E e \in events : Deliver(e))
    /\ WF_commandVars(\E e \in failures : OnFailure(e))
    /\ WF_commandVars(\E j \in jobs : JobStep(j))

CommandSpec == CommandInit /\ [][CommandNext]_commandVars /\ CommandFairness

----------------------------------------------------------------------------
\* Properties.

\* A command that is completed, failed or cancelled is never touched again: a
\* cancel or a failure that lands while the job holds an older copy of the row
\* is not overwritten by the transitions that follow (updateCommand, link).
FinalStaysFinal ==
    [][\A c \in Commands :
        command[c].status \in Final => command'[c] = command[c]]_commandVars

\* The two rows name each other: the run of a command that is linked has an
\* execution that is linked to that command, also after later commands on the
\* same run (link_agent_command_execution).
LinksAgree ==
    \A c \in Commands : command[c].linked =>
        command[c].run # None /\ execution[command[c].run].command = c

\* A command that waits for the answer to its run's question can be answered:
\* the execution still asks, and is the command's (resolve_agent_command_run_
\* decision finds both rows) - unless a fault or an owner came in between.
QuestionIsOpen ==
    \A c \in Commands \ cut :
        command[c].status = "decision_required" /\ command[c].pending = "run" =>
            /\ command[c].linked
            /\ execution[command[c].run].status = "decision_required"
            /\ execution[command[c].run].command = c

\* A command that is queued or running comes to an end or to a question, unless
\* a fault cut it off from its events, another delivery moved its execution under
\* it, its authorization was revoked once it ran, or the run it is about belongs
\* to an earlier command, in which case no delivery can finish it.
Stranded(c) ==
    \/ c \in cut \cup overtaken
    \/ /\ command[c].status = "running"
       /\ command[c].controller = "headless"
       /\ ~authorized
    \/ /\ command[c].run # None
       /\ execution[command[c].run].command \in Commands \ {c}

DecidedOrDone ==
    \A c \in Commands :
        command[c].status \in Working ~>
            command[c].status \notin Working \/ Stranded(c)
============================================================================
