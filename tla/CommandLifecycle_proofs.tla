----------------------- MODULE CommandLifecycle_proofs -----------------------
(***************************************************************************)
(* Proofs about CommandLifecycle, for any number of commands, runs, cycles,*)
(* faults and deliveries at a time: its type invariant, that a command that*)
(* ended is never written again, that a command and the execution it is    *)
(* linked to name each other, and that a command which waits for the answer*)
(* to its run's question can be answered.                                  *)
(***************************************************************************)
EXTENDS CommandLifecycle, TLAPS

----------------------------------------------------------------------------
\* Type correctness.

\* An event that names no command names the run it continues.
EventsNamed == \A e \in sent \cup outbox : e.command = None => e.run \in Runs

\* What a delivery has found out by the step it is at.
Knows(j) ==
    /\ j.event \in sent
    /\ j.at = "resolve" => j.event.command = None
    /\ j.at # "resolve" => j.command \in Commands
    /\ j.at \notin {"resolve", "load"} => j.loaded \in Seen /\ j.seen \in Seen
    /\ j.at \in {"admit", "start", "cycle", "read", "link", "finish"} => j.run \in Runs
    /\ j.at = "discover" => j.run = None
    /\ j.at \in {"link", "finish"} => j.found \in ExecutionRow

JobsKnow == \A j \in jobs : Knows(j)

LEMMA CommandInitType == CommandInit => CommandTypeOK /\ EventsNamed /\ JobsKnow
BY CommandAssumption
   DEF CommandInit, CommandTypeOK, EventsNamed, JobsKnow, CommandRow,
       ExecutionRow, Active, Working, Final, Questions

\* A row that is written, and the others.
LEMMA RewrittenRow ==
    ASSUME command \in [Commands -> CommandRow], NEW c \in Commands,
           NEW status \in Active \cup Final, NEW pending \in Questions \cup {None},
           NEW r \in Runs \cup {None}
    PROVE  LET rows == Rewritten(c, status, pending, r) IN
           /\ rows \in [Commands -> CommandRow]
           /\ \A d \in Commands \ {c} : rows[d] = command[d]
           /\ rows[c].status = status
           /\ rows[c].pending = pending
           /\ rows[c].run = r
           /\ rows[c].linked = command[c].linked
           /\ rows[c].version = command[c].version + 1
<1>1. PICK old \in CommandRow : old = command[c]
  OBVIOUS
<1>2. PICK v \in Nat : v = old.version + 1
  BY DEF CommandRow
<1> DEFINE row == [old EXCEPT !.status = status, !.pending = pending, !.run = r,
                              !.version = v]
<1>3. row \in CommandRow
  BY DEF CommandRow
<1>4. /\ row.status = status /\ row.pending = pending /\ row.run = r
      /\ row.linked = old.linked /\ row.version = v
  BY DEF CommandRow
<1>5. Rewritten(c, status, pending, r) = [command EXCEPT ![c] = row]
  BY <1>1, <1>2 DEF Rewritten
<1> HIDE DEF row
<1> QED
  BY <1>1, <1>2, <1>3, <1>4, <1>5

LEMMA LinkedRow ==
    ASSUME command \in [Commands -> CommandRow], NEW j, j.command \in Commands
    PROVE  /\ LinkedCommands(j) \in [Commands -> CommandRow]
           /\ \A c \in Commands \ {j.command} : LinkedCommands(j)[c] = command[c]
           /\ LinkedCommands(j)[j.command].status = "running"
           /\ LinkedCommands(j)[j.command].linked
           /\ LinkedCommands(j)[j.command].run = command[j.command].run
           /\ LinkedCommands(j)[j.command].pending = command[j.command].pending
           /\ LinkedCommands(j)[j.command].version = command[j.command].version + 1
<1>1. PICK old \in CommandRow : old = command[j.command]
  OBVIOUS
<1>2. PICK v \in Nat : v = old.version + 1
  BY DEF CommandRow
<1> DEFINE row == [old EXCEPT !.linked = TRUE, !.status = "running", !.version = v]
<1>3. row \in CommandRow
  BY DEF CommandRow, Active, Working
<1>4. /\ row.status = "running" /\ row.linked /\ row.run = old.run
      /\ row.pending = old.pending /\ row.version = v
  BY DEF CommandRow
<1>5. LinkedCommands(j) = [command EXCEPT ![j.command] = row]
  BY <1>1, <1>2 DEF LinkedCommands
<1> HIDE DEF row
<1> QED
  BY <1>1, <1>2, <1>3, <1>4, <1>5

----------------------------------------------------------------------------
\* What a step does to a row.

\* The copy a delivery has of the row it works on is not ahead of the row, and
\* agrees on the run as long as it is of the same version.
Copies(j) ==
    j.at \notin {"resolve", "load"} =>
        /\ command[j.command].status # "absent"
        /\ j.seen.version <= command[j.command].version
        /\ j.seen.version = command[j.command].version
              => command[j.command].run = j.run

JobsCopy == \A j \in jobs : Copies(j)

\* A command that asks which run is meant has none yet.
Selecting ==
    \A c \in Commands : command[c].pending = "selection" =>
        command[c].status = "decision_required" /\ command[c].run = None

\* An event that is still to be sent says which command it is for.
Addressed == \A e \in outbox : e.command = None => execution[e.run].command # None

CommandInv ==
    /\ CommandTypeOK
    /\ EventsNamed
    /\ Addressed
    /\ JobsKnow
    /\ JobsCopy
    /\ Selecting
    /\ LinksAgree

\* A delivery is about to ask the question of the run.
Asked(c) ==
    \E j \in jobs :
        /\ j.at = "finish" /\ j.command = c /\ Holds(c, j.seen)
        /\ j.found.status = "decision_required"

\* A row is created unlinked; one that ended is not written; a link that is
\* made is made on both rows and stays; only a delivery asks a run's question.
RowMoves ==
    \A c \in Commands :
        \/ command'[c] = command[c]
        \/ /\ command[c].status = "absent" /\ command'[c].status = "queued"
           /\ ~command'[c].linked /\ command'[c].pending = None
        \/ /\ command[c].status \in Active /\ command'[c].status # "absent"
           /\ command'[c].version = command[c].version + 1
           /\ \/ command'[c].linked = command[c].linked
                 /\ command'[c].run = command[c].run
              \/ ~command[c].linked /\ ~command'[c].linked
              \/ /\ command'[c].status = "running"
                 /\ command'[c].linked /\ command'[c].run # None
                 /\ execution'[command'[c].run].command = c
           /\ command'[c].pending = "selection" =>
                 command'[c].status = "decision_required" /\ command'[c].run = None
           /\ command'[c].status = "decision_required" /\ command'[c].pending = "run"
                 => Asked(c)

LinksKept ==
    \A r \in Runs : execution[r].command # None
                        => execution'[r].command = execution[r].command

RowsTyped == command' \in [Commands -> CommandRow]

\* A command is asked which run is meant when it has none, and by a
\* delivery alone what the run asks.
MayAsk(c, status, pending, r) ==
    /\ pending = "selection" => status = "decision_required" /\ r = None
    /\ status = "decision_required" /\ pending = "run" => Asked(c)

LEMMA Written ==
    ASSUME command \in [Commands -> CommandRow], NEW c \in Commands,
           NEW status \in Active \cup Final, NEW pending \in Questions \cup {None},
           NEW r \in Runs \cup {None},
           command' = Rewritten(c, status, pending, r)
    PROVE  /\ command' \in [Commands -> CommandRow]
           /\ \A d \in Commands \ {c} : command'[d] = command[d]
           /\ command'[c].status = status /\ command'[c].pending = pending
           /\ command'[c].run = r /\ command'[c].linked = command[c].linked
           /\ command'[c].version = command[c].version + 1
BY RewrittenRow

LEMMA Writing ==
    ASSUME CommandInv, NEW c \in Commands, command[c].status \in Active,
           NEW status \in Active \cup Final, NEW pending \in Questions \cup {None},
           NEW r \in Runs \cup {None},
           command' = Rewritten(c, status, pending, r),
           r = command[c].run \/ ~command[c].linked,
           MayAsk(c, status, pending, r)
    PROVE  RowsTyped /\ RowMoves
<1>1. command \in [Commands -> CommandRow]
  BY DEF CommandInv, CommandTypeOK
<1>2. status # "absent"
  BY DEF Active, Working, Final
<1>3. /\ command' \in [Commands -> CommandRow]
      /\ \A d \in Commands \ {c} : command'[d] = command[d]
      /\ command'[c].status = status /\ command'[c].pending = pending
      /\ command'[c].run = r /\ command'[c].linked = command[c].linked
      /\ command'[c].version = command[c].version + 1
  BY <1>1, Written
<1>4. \/ command'[c].linked = command[c].linked /\ command'[c].run = command[c].run
      \/ ~command[c].linked /\ ~command'[c].linked
  BY <1>3
<1> QED
  BY <1>2, <1>3, <1>4 DEF RowsTyped, RowMoves, MayAsk

LEMMA Creating ==
    ASSUME CommandInv, NEW c \in Commands, command[c].status = "absent",
           NEW controller \in {"chat", "headless"}, NEW r \in Runs \cup {None},
           command' = [command EXCEPT ![c] = NewRow(controller, r)]
    PROVE  RowsTyped /\ RowMoves
<1>1. command \in [Commands -> CommandRow]
  BY DEF CommandInv, CommandTypeOK
<1>2. NewRow(controller, r) \in CommandRow
  BY DEF NewRow, CommandRow, Active, Working
<1> QED
  BY <1>1, <1>2 DEF RowsTyped, RowMoves, NewRow

LEMMA HoldingJob ==
    ASSUME CommandInv, NEW j \in jobs, j.at \notin {"resolve", "load"}
    PROVE  /\ j.command \in Commands
           /\ j.run \in Runs \cup {None}
           /\ j.seen.status \in Working /\ j.loaded.status \in Working
           /\ j.seen.version \in Nat
           /\ Holds(j.command, j.seen) => /\ command[j.command].status \in Active
                                          /\ command[j.command].run = j.run
           /\ Holds(j.command, j.loaded) => command[j.command].status \in Active
<1>1. /\ j \in JobRecord /\ Knows(j) /\ Copies(j)
  BY DEF CommandInv, CommandTypeOK, JobsKnow, JobsCopy
<1>2. j.run \in Runs \cup {None}
  BY <1>1 DEF JobRecord
<1>3. /\ j.command \in Commands /\ j.seen \in Seen /\ j.loaded \in Seen
  BY <1>1 DEF Knows
<1> QED
  BY <1>1, <1>2, <1>3 DEF Copies, Seen, Holds, Active

LEMMA Ending ==
    ASSUME CommandInv, NEW j \in jobs, j.at \notin {"resolve", "load"},
           NEW status \in Active \cup Final, NEW pending \in Questions \cup {None},
           pending = "selection" => status = "decision_required" /\ j.run = None,
           status = "decision_required" /\ pending = "run"
              => j.at = "finish" /\ j.found.status = "decision_required",
           EndsWith(j, status, pending)
    PROVE  RowsTyped /\ RowMoves
<1>1. CASE Holds(j.command, j.seen)
  <2>1. command' = Rewritten(j.command, status, pending, j.run)
    BY <1>1 DEF EndsWith
  <2>2. MayAsk(j.command, status, pending, j.run)
    BY <1>1 DEF Asked, MayAsk
  <2> QED
    BY <1>1, <2>1, <2>2, HoldingJob, Writing
<1>2. CASE ~Holds(j.command, j.seen)
  BY <1>2 DEF EndsWith, CommandInv, CommandTypeOK, RowsTyped, RowMoves
<1> QED
  BY <1>1, <1>2

LEMMA GoingOn ==
    ASSUME CommandInv, NEW j \in jobs, j.at \notin {"resolve", "load"},
           NEW r \in Runs, r = j.run \/ j.run = None,
           command' = IF Holds(j.command, j.seen)
                      THEN Rewritten(j.command, "running", None, r) ELSE command
    PROVE  RowsTyped /\ RowMoves
<1>1. CASE Holds(j.command, j.seen)
  <2>1. r = command[j.command].run \/ ~command[j.command].linked
    BY <1>1, HoldingJob DEF CommandInv, LinksAgree
  <2>2. "running" \in Active \cup Final /\ None # "selection"
    BY CommandAssumption DEF Active, Working, Questions
  <2> QED
    BY <1>1, <2>1, <2>2, HoldingJob, Writing DEF MayAsk
<1>2. CASE ~Holds(j.command, j.seen)
  BY <1>2 DEF CommandInv, CommandTypeOK, RowsTyped, RowMoves
<1> QED
  BY <1>1, <1>2

LEMMA Linking ==
    ASSUME CommandInv, NEW j \in jobs, j.at = "link", MayLink(j),
           command' = LinkedCommands(j), execution' = LinkedExecutions(j)
    PROVE  RowsTyped /\ RowMoves /\ LinksKept
<1>t. command \in [Commands -> CommandRow] /\ execution \in [Runs -> ExecutionRow]
  BY DEF CommandInv, CommandTypeOK
<1>1. /\ j.command \in Commands /\ j.run \in Runs /\ j.run # None
      /\ command[j.command].run = j.run
      /\ command[j.command].status \in Active
      /\ command[j.command].pending # "selection"
  <2>1. /\ j.command \in Commands /\ j.run \in Runs /\ j.run # None
        /\ command[j.command].run = j.run
        /\ command[j.command].status = j.seen.status
        /\ j.seen.status \in Working
    BY HoldingJob, CommandAssumption DEF CommandInv, JobsKnow, Knows, MayLink, Holds
  <2> QED
    BY <2>1 DEF CommandInv, Selecting, Active, Working
<1>2. /\ execution'[j.run].command = j.command
      /\ \A r \in Runs \ {j.run} : execution'[r] = execution[r]
  BY <1>t, <1>1 DEF LinkedExecutions, ExecutionRow
<1>3. LinksKept
  BY <1>1, <1>2 DEF LinksKept, MayLink
<1>4. RowsTyped
  BY <1>t, <1>1, LinkedRow DEF RowsTyped
<1>5. RowMoves
  BY <1>t, <1>1, <1>2, LinkedRow DEF RowMoves
<1> QED
  BY <1>3, <1>4, <1>5

LEMMA Statuses ==
    /\ {"queued", "running", "decision_required", "completed", "failed",
        "cancelled"} = Active \cup Final
    /\ {"selection", "admission", "run", "interrupted", "answered", None}
          = Questions \cup {None}
    /\ None \notin Questions
BY CommandAssumption DEF Active, Working, Final, Questions

LEMMA Rows == CommandInv /\ CommandNext => RowsTyped /\ RowMoves
<1> SUFFICES ASSUME CommandInv, CommandNext PROVE RowsTyped /\ RowMoves
  OBVIOUS
<1>t. /\ command \in [Commands -> CommandRow]
      /\ \A c \in Commands : command[c].run \in Runs \cup {None}
  BY DEF CommandInv, CommandTypeOK, CommandRow
<1>s. /\ {"queued", "running", "decision_required"} = Active
      /\ {"queued", "running", "decision_required", "completed", "failed",
          "cancelled"} = Active \cup Final
      /\ {"selection", "admission", "run", "interrupted", "answered", None}
            = Questions \cup {None}
      /\ None # "selection"
  BY Statuses DEF Active, Working, Questions
<1>1. CASE UNCHANGED command
  BY <1>t, <1>1 DEF RowsTyped, RowMoves
<1>2. ASSUME NEW c \in Commands, NEW r \in Runs, StartHeadless(c, r)
      PROVE  RowsTyped /\ RowMoves
  BY <1>2, Creating DEF StartHeadless, Fresh
<1>3. ASSUME NEW c \in Commands, StartChat(c) PROVE RowsTyped /\ RowMoves
  BY <1>3, Creating DEF StartChat, Fresh
<1>4. ASSUME NEW c \in Commands, NEW r \in Runs, SelectQuest(c, r)
      PROVE  RowsTyped /\ RowMoves
  <2>1. command[c].run = None /\ ~command[c].linked
    BY <1>4 DEF SelectQuest, CommandInv, Selecting, LinksAgree
  <2> QED
    BY <1>4, <1>s, <2>1, Writing DEF SelectQuest, MayAsk
<1>5. ASSUME NEW c \in Commands, NEW by \in {"client", "owner"},
             NEW resolution \in {"go", "cancel"}, ResolveAdmission(by, c, resolution)
      PROVE  RowsTyped /\ RowMoves
  <2>1. CASE resolution = "cancel"
    BY <1>5, <1>s, <1>t, <2>1, Writing DEF ResolveAdmission, MayAsk
  <2>2. CASE resolution # "cancel"
    BY <1>5, <1>s, <1>t, <2>2, Writing DEF ResolveAdmission, MayAsk
  <2> QED
    BY <2>1, <2>2
<1>6. ASSUME NEW c \in Commands, NEW by \in {"client", "owner"},
             NEW resolution \in {"go", "cancel"}, ResolveRun(by, c, resolution)
      PROVE  RowsTyped /\ RowMoves
  <2>1. PICK status \in {"cancelled", "running"} :
            command' = Rewritten(c, status, None, command[c].run)
    BY <1>6 DEF ResolveRun
  <2>2. status \in Active \cup Final /\ status # "decision_required"
    BY <1>s
  <2>3. command[c].status \in Active
    BY <1>6, <1>s DEF ResolveRun
  <2> QED
    BY <1>s, <1>t, <2>1, <2>2, <2>3, Writing DEF MayAsk
<1>7. ASSUME NEW c \in Commands, CancelHeadless(c) PROVE RowsTyped /\ RowMoves
  BY <1>7, <1>s, <1>t, Writing DEF CancelHeadless, MayAsk
<1>8. ASSUME NEW e \in failures, OnFailure(e) PROVE RowsTyped /\ RowMoves
  <2>1. CASE CommandOf(e) # None /\ command[CommandOf(e)].status \in Working
    <3>1. CommandOf(e) \in Commands
      <4>1. /\ e \in sent /\ e \in Event
            /\ e.command = None => e.run \in Runs
        BY <1>8 DEF CommandInv, CommandTypeOK, EventsNamed
      <4> QED
        BY <2>1, <4>1
           DEF CommandOf, Event, CommandInv, CommandTypeOK, ExecutionRow
    <3> QED
      BY <1>8, <1>s, <1>t, <2>1, <3>1, Writing DEF OnFailure, Active, MayAsk
  <2>2. CASE ~(CommandOf(e) # None /\ command[CommandOf(e)].status \in Working)
    BY <1>1, <1>8, <2>2 DEF OnFailure
  <2> QED
    BY <2>1, <2>2
<1>9. ASSUME NEW j \in jobs, Refuse(j) PROVE RowsTyped /\ RowMoves
  BY <1>9, <1>s, Ending DEF Refuse
<1>10. ASSUME NEW j \in jobs, FailUnauthorized(j) PROVE RowsTyped /\ RowMoves
  <2>1. CASE Holds(j.command, j.loaded)
    <3>1. j.command \in Commands /\ command[j.command].status \in Active
      BY <1>10, <2>1, HoldingJob DEF FailUnauthorized, Beyond
    <3>2. command' = Rewritten(j.command, "failed", None, command[j.command].run)
      BY <1>10, <2>1 DEF FailUnauthorized
    <3>3. /\ "failed" \in Active \cup Final /\ None \in Questions \cup {None}
          /\ command[j.command].run \in Runs \cup {None}
      BY <1>s, <1>t, <3>1
    <3>4. MayAsk(j.command, "failed", None, command[j.command].run)
      BY <1>s DEF MayAsk
    <3> QED
      BY <3>1, <3>2, <3>3, <3>4, Writing
  <2> QED
    BY <1>1, <1>10, <2>1 DEF FailUnauthorized
<1>11. ASSUME NEW j \in jobs, Discover(j) PROVE RowsTyped /\ RowMoves
  <2>1. PICK eligible \in Executable :
          CASE eligible = "none" -> EndsWith(j, "completed", None)
            [] eligible = "several" -> EndsWith(j, "decision_required", "selection")
            [] OTHER -> GoesOn(j, eligible, "admit")
    BY <1>11 DEF Discover
  <2>2. j.at = "discover" /\ j.run = None
    BY <1>11 DEF Discover, Proceeds, CommandInv, JobsKnow, Knows
  <2>3. CASE eligible = "none"
    BY <1>s, <2>1, <2>2, <2>3, Ending
  <2>4. CASE eligible = "several"
    BY <1>s, <2>1, <2>2, <2>4, Ending
  <2>5. CASE eligible \in Runs /\ GoesOn(j, eligible, "admit")
    <3>1. command' = IF Holds(j.command, j.seen)
                     THEN Rewritten(j.command, "running", None, eligible) ELSE command
      BY <2>5 DEF GoesOn
    <3> QED
      BY <2>2, <2>5, <3>1, GoingOn
  <2> QED
    BY <2>1, <2>3, <2>4, <2>5 DEF Executable
<1>12. ASSUME NEW j \in jobs, Admit(j) PROVE RowsTyped /\ RowMoves
  BY <1>1, <1>12, <1>s, Ending DEF Admit, Proceeds, Remember
<1>13. ASSUME NEW j \in jobs, Start(j) PROVE RowsTyped /\ RowMoves
  <2>1. j.at = "start" /\ j.run \in Runs
    BY <1>13 DEF Start, Proceeds, CommandInv, JobsKnow, Knows
  <2>2. command' = IF Holds(j.command, j.seen)
                   THEN Rewritten(j.command, "running", None, j.run) ELSE command
    BY <1>13 DEF Start, GoesOn
  <2> QED
    BY <2>1, <2>2, GoingOn
<1>14. ASSUME NEW j \in jobs, Link(j) PROVE RowsTyped /\ RowMoves
  BY <1>1, <1>14, Linking DEF Link, Proceeds
<1>15. ASSUME NEW j \in jobs, Finish(j) PROVE RowsTyped /\ RowMoves
  <2>1. j.at = "finish" /\ j.at \notin {"resolve", "load"}
    BY <1>15 DEF Finish, Proceeds
  <2>2. ASSUME NEW status \in {"completed", "failed"}, EndsWith(j, status, None)
        PROVE  RowsTyped /\ RowMoves
    BY <1>s, <2>1, <2>2, Ending
  <2>3. ASSUME EndsWith(j, "decision_required",
                   IF j.found.status = "decision_required" THEN "run" ELSE None)
        PROVE  RowsTyped /\ RowMoves
    <3>1. CASE j.found.status = "decision_required"
      BY <1>s, <2>1, <2>3, <3>1, Ending
    <3>2. CASE j.found.status # "decision_required"
      BY <1>s, <2>1, <2>3, <3>2, Ending, CommandAssumption DEF Questions
    <3> QED
      BY <3>1, <3>2
  <2> QED
    BY <1>1, <1>15, <2>2, <2>3 DEF Finish
<1>16. ASSUME NEW j \in jobs, StepLost(j) PROVE RowsTyped /\ RowMoves
  <2>h. Holds(j.command, j.seen)
    BY <1>16 DEF StepLost
  <2>1. ASSUME NEW r \in Runs, j.at = "discover",
               command' = Rewritten(j.command, "running", None, r)
        PROVE  RowsTyped /\ RowMoves
    BY <2>h, <2>1, GoingOn DEF CommandInv, JobsKnow, Knows
  <2>2. CASE /\ j.at = "start"
             /\ command' = Rewritten(j.command, "running", None, j.run)
    BY <2>h, <2>2, GoingOn DEF CommandInv, JobsKnow, Knows
  <2>3. CASE /\ j.at = "link" /\ MayLink(j)
             /\ command' = LinkedCommands(j) /\ execution' = LinkedExecutions(j)
    BY <2>3, Linking
  <2> QED
    BY <1>16, <2>1, <2>2, <2>3 DEF StepLost
<1>17. CASE \/ \E c \in Commands : RepeatAdmission(c)
            \/ \E r \in Runs :
                  \/ OwnerReadsUnlinked(r)
                  \/ \E resolution \in {"go", "cancel"} : ResolveUnlinked(r, resolution)
            \/ \E e \in outbox : Send(e) \/ LoseSend(e)
            \/ RevokeReady \/ RevokeAuthorization
            \/ \E e \in events : Deliver(e)
            \/ \E j \in jobs :
                  \/ ResolveContinuation(j) \/ Load(j) \/ Cycle(j) \/ Read(j)
                  \/ JobFails(j) \/ CycleLost(j) \/ CycleUnsaved(j)
  BY <1>1, <1>17
     DEF RepeatAdmission, OwnerReadsUnlinked, ResolveUnlinked, Send, LoseSend,
         RevokeReady, RevokeAuthorization, Deliver, ResolveContinuation, Load,
         Cycle, Read, JobFails, CycleLost, CycleUnsaved, Remember
<1> QED
  BY <1>2, <1>3, <1>4, <1>5, <1>6, <1>7, <1>8, <1>9, <1>10, <1>11, <1>12, <1>13,
     <1>14, <1>15, <1>16, <1>17
     DEF CommandNext, JobStep

----------------------------------------------------------------------------
\* The execution rows.

LEMMA Cycling ==
    ASSUME NEW row \in ExecutionRow, NEW result \in CycleResults(row)
    PROVE  /\ result[1] \in ExecutionRow
           /\ result[1].command = row.command
           /\ result[2] \in {"ran", "terminal", "decision_required", "fatal", "again"}
<1>1. PICK v \in Nat : v = row.version + 1
  BY DEF ExecutionRow
<1> DEFINE Saved(status) == [row EXCEPT !.status = status, !.version = v]
<1>2. ASSUME NEW status \in {"waiting", "decision_required", "completed", "failed"}
      PROVE  Saved(status) \in ExecutionRow /\ Saved(status).command = row.command
  BY DEF ExecutionRow
<1>3. result \in {<<row, "terminal">>, <<row, "again">>, <<row, "fatal">>,
                  <<Saved("waiting"), "again">>,
                  <<Saved("decision_required"), "decision_required">>,
                  <<Saved("completed"), "ran">>, <<Saved("failed"), "fatal">>,
                  <<Saved("failed"), "again">>}
  BY <1>1 DEF CycleResults
<1> HIDE DEF Saved
<1> QED
  BY <1>2, <1>3

ExecutionsTyped == execution' \in [Runs -> ExecutionRow]

LEMMA Answering ==
    ASSUME CommandInv, NEW r \in Runs, NEW status \in {"failed", "waiting"},
           execution' = [execution EXCEPT ![r].version = @ + 1, ![r].status = status]
    PROVE  ExecutionsTyped /\ LinksKept
<1>t. execution \in [Runs -> ExecutionRow]
  BY DEF CommandInv, CommandTypeOK
<1>1. PICK old \in ExecutionRow : old = execution[r]
  BY <1>t
<1>2. PICK v \in Nat : v = old.version + 1
  BY DEF ExecutionRow
<1> DEFINE row == [old EXCEPT !.version = v, !.status = status]
<1>3. row \in ExecutionRow /\ row.command = old.command
  BY DEF ExecutionRow
<1>4. execution' = [execution EXCEPT ![r] = row]
  BY <1>1, <1>2
<1> HIDE DEF row
<1> QED
  BY <1>t, <1>1, <1>3, <1>4 DEF ExecutionsTyped, LinksKept

LEMMA Executions == CommandInv /\ CommandNext => ExecutionsTyped /\ LinksKept
<1> SUFFICES ASSUME CommandInv, CommandNext PROVE ExecutionsTyped /\ LinksKept
  OBVIOUS
<1>t. execution \in [Runs -> ExecutionRow]
  BY DEF CommandInv, CommandTypeOK
<1>1. CASE UNCHANGED execution
  BY <1>t, <1>1 DEF ExecutionsTyped, LinksKept
<1>2. ASSUME NEW c \in Commands, NEW by \in {"client", "owner"},
             NEW resolution \in {"go", "cancel"}, ResolveRun(by, c, resolution)
      PROVE  ExecutionsTyped /\ LinksKept
  <2>1. command[c].run \in Runs
    BY <1>2 DEF ResolveRun, CommandInv, LinksAgree, CommandTypeOK, CommandRow
  <2> QED
    BY <1>2, <2>1, Answering DEF ResolveRun
<1>3. ASSUME NEW r \in Runs, NEW resolution \in {"go", "cancel"},
             ResolveUnlinked(r, resolution)
      PROVE  ExecutionsTyped /\ LinksKept
  BY <1>3, Answering DEF ResolveUnlinked
<1>4. ASSUME NEW j \in jobs, Cycle(j) \/ CycleLost(j)
      PROVE  ExecutionsTyped /\ LinksKept
  <2>1. j.run \in Runs
    BY <1>4 DEF Cycle, CycleLost, Proceeds, CommandInv, JobsKnow, Knows
  <2>2. PICK result \in CycleResults(execution[j.run]) :
            execution' = [execution EXCEPT ![j.run] = result[1]]
    BY <1>4 DEF Cycle, CycleLost, Checkpoint
  <2>3. /\ result[1] \in ExecutionRow
        /\ result[1].command = execution[j.run].command
    BY <1>t, <2>1, <2>2, Cycling
  <2> QED
    BY <1>t, <2>1, <2>2, <2>3 DEF ExecutionsTyped, LinksKept
<1>5. ASSUME NEW j \in jobs, j.at = "link", MayLink(j), execution' = LinkedExecutions(j)
      PROVE  ExecutionsTyped /\ LinksKept
  <2>1. j.run \in Runs /\ j.command \in Commands
    BY <1>5 DEF CommandInv, JobsKnow, Knows
  <2> QED
    BY <1>t, <1>5, <2>1
       DEF LinkedExecutions, ExecutionRow, ExecutionsTyped, LinksKept, MayLink
<1>6. ASSUME NEW j \in jobs, Link(j) PROVE ExecutionsTyped /\ LinksKept
  BY <1>1, <1>5, <1>6 DEF Link, Proceeds
<1>7. ASSUME NEW j \in jobs, StepLost(j) PROVE ExecutionsTyped /\ LinksKept
  BY <1>1, <1>5, <1>7 DEF StepLost
<1>8. ASSUME NEW c \in Commands,
             \/ \E r \in Runs : StartHeadless(c, r) \/ SelectQuest(c, r)
             \/ StartChat(c) \/ RepeatAdmission(c) \/ CancelHeadless(c)
             \/ \E by \in {"client", "owner"}, resolution \in {"go", "cancel"} :
                     ResolveAdmission(by, c, resolution)
      PROVE  ExecutionsTyped /\ LinksKept
  BY <1>1, <1>8
     DEF StartHeadless, SelectQuest, StartChat, RepeatAdmission, CancelHeadless,
         ResolveAdmission
<1>9. CASE \/ \E r \in Runs : OwnerReadsUnlinked(r)
           \/ \E e \in outbox : Send(e) \/ LoseSend(e)
           \/ RevokeReady \/ RevokeAuthorization
           \/ \E e \in events : Deliver(e)
           \/ \E e \in failures : OnFailure(e)
           \/ \E j \in jobs : JobFails(j) \/ CycleUnsaved(j)
  BY <1>1, <1>9
     DEF OwnerReadsUnlinked, Send, LoseSend, RevokeReady, RevokeAuthorization,
         Deliver, OnFailure, JobFails, CycleUnsaved
<1>10. ASSUME NEW j \in jobs,
              \/ ResolveContinuation(j) \/ Load(j) \/ Refuse(j)
              \/ FailUnauthorized(j) \/ Discover(j) \/ Admit(j) \/ Start(j)
              \/ Read(j) \/ Finish(j)
       PROVE  UNCHANGED execution
  BY <1>10
     DEF ResolveContinuation, Load, Refuse, FailUnauthorized, Discover, Admit,
         Start, Read, Finish, Remember, TransitionOnly, EndsWith, GoesOn
<1> QED
  BY <1>1, <1>2, <1>3, <1>4, <1>6, <1>7, <1>8, <1>9, <1>10
     DEF CommandNext, JobStep

----------------------------------------------------------------------------
\* The events.

EventsTyped ==
    /\ events' \subseteq sent' /\ failures' \subseteq sent'
    /\ sent \subseteq sent' /\ sent' \subseteq Event
    /\ outbox' \subseteq Event
    /\ EventsNamed'

Named(e) == e \in Event /\ (e.command = None => e.run \in Runs)

LEMMA EventTypes ==
    ASSUME NEW v \in Nat, NEW n \in Nat
    PROVE  /\ \A c \in Commands, by \in {"start", "select", "client", "owner", "retry"} :
                  Named(Requested(by, c, v, n))
           /\ \A r \in Runs, by \in {"client", "owner", "continue"} :
                  Named(Continue(by, r, v, n))
BY CommandAssumption DEF Named, Requested, Continue, Event

LEMMA Dispatching ==
    ASSUME CommandInv, NEW e, Named(e),
           \/ Accept(e) /\ UNCHANGED outbox
           \/ outbox' = outbox \cup {e} /\ UNCHANGED <<events, sent>>,
           UNCHANGED failures
    PROVE  EventsTyped
BY DEF Accept, Named, CommandInv, CommandTypeOK, EventsNamed, EventsTyped

LEMMA Events == CommandInv /\ CommandNext => EventsTyped
<1> SUFFICES ASSUME CommandInv, CommandNext PROVE EventsTyped
  OBVIOUS
<1>t. /\ command \in [Commands -> CommandRow] /\ execution \in [Runs -> ExecutionRow]
      /\ \A c \in Commands : command[c].version \in Nat
                                /\ command[c].version + 1 \in Nat
      /\ \A r \in Runs : execution[r].version + 1 \in Nat
      /\ jobs \subseteq JobRecord /\ 0 \in Nat
  BY DEF CommandInv, CommandTypeOK, CommandRow, ExecutionRow
<1>1. ASSUME events' \subseteq events, UNCHANGED sent, outbox' \subseteq outbox,
             failures' \subseteq failures
             \/ \E j \in jobs : failures' = failures \cup {j.event}
      PROVE  EventsTyped
  BY <1>1 DEF CommandInv, CommandTypeOK, EventsNamed, JobsKnow, Knows, EventsTyped
<1>2. ASSUME NEW c \in Commands,
             \/ \E r \in Runs : StartHeadless(c, r) \/ SelectQuest(c, r)
             \/ StartChat(c) \/ RepeatAdmission(c)
      PROVE  EventsTyped
  <2>1. PICK e : Named(e) /\ outbox' = outbox \cup {e}
    BY <1>t, <1>2, EventTypes
       DEF StartHeadless, SelectQuest, StartChat, RepeatAdmission
  <2> QED
    BY <1>2, <2>1, Dispatching
       DEF StartHeadless, SelectQuest, StartChat, RepeatAdmission
<1>3. ASSUME NEW c \in Commands, NEW by \in {"client", "owner"},
             NEW resolution \in {"go", "cancel"}, ResolveAdmission(by, c, resolution)
      PROVE  EventsTyped
  <2> DEFINE e == Requested(by, c, command[c].version + 1, 0)
  <2>1. Named(e)
    BY <1>t, EventTypes
  <2> QED
    BY <1>1, <1>3, <2>1, Dispatching DEF ResolveAdmission
<1>4. ASSUME NEW c \in Commands, NEW by \in {"client", "owner"},
             NEW resolution \in {"go", "cancel"}, ResolveRun(by, c, resolution)
      PROVE  EventsTyped
  <2> DEFINE e == Continue(by, command[c].run, execution[command[c].run].version + 1, 0)
  <2>1. command[c].run \in Runs
    BY <1>4 DEF ResolveRun, CommandInv, LinksAgree, CommandTypeOK, CommandRow
  <2>2. Named(e)
    BY <1>t, <2>1, EventTypes
  <2> QED
    BY <1>1, <1>4, <2>2, Dispatching DEF ResolveRun
<1>5. ASSUME NEW e \in outbox, Send(e) PROVE EventsTyped
  BY <1>5 DEF Send, Accept, CommandInv, CommandTypeOK, EventsNamed, EventsTyped
<1>6. ASSUME NEW j \in jobs, Finish(j) PROVE EventsTyped
  <2>1. CASE UNCHANGED <<events, sent, outbox, failures>>
    BY <1>1, <2>1
  <2>2. CASE Accept(Continuation(j, j.event.cycle + 1)) /\ UNCHANGED <<outbox, failures>>
    <3>1. /\ j.command \in Commands /\ j.run \in Runs /\ j.seen \in Seen
          /\ j.found \in ExecutionRow /\ j.event \in Event
      BY <1>6 DEF Finish, Proceeds, CommandInv, CommandTypeOK, JobsKnow, Knows
    <3>2. /\ j.seen.version \in Nat /\ j.found.version \in Nat
          /\ j.event.cycle + 1 \in Nat
      BY <3>1 DEF Seen, ExecutionRow, Event
    <3>3. Named(Continuation(j, j.event.cycle + 1))
      BY <3>1, <3>2, EventTypes DEF Continuation
    <3> QED
      BY <2>2, <3>3, Dispatching
  <2> QED
    BY <1>6, <2>1, <2>2 DEF Finish, EndsWith, TransitionOnly
<1>7. ASSUME NEW j \in jobs,
             \/ ResolveContinuation(j) \/ Load(j) \/ Refuse(j)
             \/ FailUnauthorized(j) \/ Discover(j) \/ Admit(j) \/ Start(j)
             \/ Cycle(j) \/ Read(j) \/ Link(j)
             \/ JobFails(j) \/ StepLost(j) \/ CycleLost(j) \/ CycleUnsaved(j)
      PROVE  EventsTyped
  BY <1>1, <1>7
     DEF ResolveContinuation, Load, Refuse, FailUnauthorized, Discover, Admit,
         Start, Cycle, Read, Link, JobFails, StepLost, CycleLost, CycleUnsaved,
         Remember, TransitionOnly, EndsWith, GoesOn
<1>8. CASE \/ \E c \in Commands : CancelHeadless(c)
           \/ \E r \in Runs :
                 \/ OwnerReadsUnlinked(r)
                 \/ \E resolution \in {"go", "cancel"} : ResolveUnlinked(r, resolution)
           \/ \E e \in outbox : LoseSend(e)
           \/ RevokeReady \/ RevokeAuthorization
           \/ \E e \in events : Deliver(e)
           \/ \E e \in failures : OnFailure(e)
  BY <1>1, <1>8
     DEF CancelHeadless, OwnerReadsUnlinked, ResolveUnlinked, LoseSend,
         RevokeReady, RevokeAuthorization, Deliver, OnFailure
<1> QED
  BY <1>2, <1>3, <1>4, <1>5, <1>6, <1>7, <1>8 DEF CommandNext, JobStep

LEMMA Addressing == CommandInv /\ CommandNext => Addressed'
<1> SUFFICES ASSUME CommandInv, CommandNext, NEW e \in outbox', e.command = None
             PROVE  execution'[e.run].command # None
  BY DEF Addressed
<1>1. e \in outbox \/ (e.run \in Runs /\ execution[e.run].command # None)
  <2>1. CASE UNCHANGED outbox
    BY <2>1
  <2>2. ASSUME NEW c \in Commands,
               \/ \E r \in Runs : StartHeadless(c, r) \/ SelectQuest(c, r)
               \/ StartChat(c) \/ RepeatAdmission(c)
               \/ \E by \in {"client", "owner"}, resolution \in {"go", "cancel"} :
                       ResolveAdmission(by, c, resolution)
        PROVE  e \in outbox
    BY <2>2, CommandAssumption
       DEF StartHeadless, SelectQuest, StartChat, RepeatAdmission,
           ResolveAdmission, Requested
  <2>3. ASSUME NEW c \in Commands, NEW by \in {"client", "owner"},
               NEW resolution \in {"go", "cancel"}, ResolveRun(by, c, resolution)
        PROVE  e \in outbox \/ (e.run \in Runs /\ execution[e.run].command # None)
    <3>1. command[c].run \in Runs
      BY <2>3 DEF ResolveRun, CommandInv, LinksAgree, CommandTypeOK, CommandRow
    <3> QED
      BY <2>3, <3>1, CommandAssumption DEF ResolveRun, Continue
  <2>4. CASE \E d \in outbox : Send(d) \/ LoseSend(d)
    BY <2>4 DEF Send, LoseSend
  <2>5. CASE \/ \E c \in Commands : CancelHeadless(c)
             \/ \E r \in Runs :
                   \/ OwnerReadsUnlinked(r)
                   \/ \E resolution \in {"go", "cancel"} :
                          ResolveUnlinked(r, resolution)
             \/ RevokeReady \/ RevokeAuthorization
             \/ \E d \in events : Deliver(d)
             \/ \E d \in failures : OnFailure(d)
    BY <2>1, <2>5
       DEF CancelHeadless, OwnerReadsUnlinked, ResolveUnlinked, RevokeReady,
           RevokeAuthorization, Deliver, OnFailure
  <2>6. ASSUME NEW j \in jobs,
               \/ JobStep(j) \/ JobFails(j)
               \/ StepLost(j) \/ CycleLost(j) \/ CycleUnsaved(j)
        PROVE  UNCHANGED outbox
    BY <2>6
       DEF JobStep, ResolveContinuation, Load, Refuse, FailUnauthorized, Discover,
           Admit, Start, Cycle, Read, Link, Finish, Remember, TransitionOnly,
           EndsWith, GoesOn, JobFails, StepLost, CycleLost, CycleUnsaved
  <2> QED
    BY <2>1, <2>2, <2>3, <2>4, <2>5, <2>6 DEF CommandNext
<1>2. e \in outbox => e.run \in Runs /\ execution[e.run].command # None
  BY DEF CommandInv, EventsNamed, Addressed
<1> QED
  BY <1>1, <1>2, Executions DEF LinksKept

----------------------------------------------------------------------------
\* What is not a row, an event or a delivery.

LEMMA Surroundings ==
    CommandInv /\ CommandNext =>
        /\ ready' \in BOOLEAN /\ authorized' \in BOOLEAN
        /\ asked' \subseteq [run : Runs, version : Nat]
        /\ budget' \in Budget
        /\ cut' \subseteq Commands /\ overtaken' \subseteq Commands
<1> SUFFICES ASSUME CommandInv, CommandNext
             PROVE  /\ ready' \in BOOLEAN /\ authorized' \in BOOLEAN
                    /\ asked' \subseteq [run : Runs, version : Nat]
                    /\ budget' \in Budget
                    /\ cut' \subseteq Commands /\ overtaken' \subseteq Commands
  OBVIOUS
<1> DEFINE Fine == /\ ready' \in BOOLEAN /\ authorized' \in BOOLEAN
                   /\ asked' \subseteq [run : Runs, version : Nat]
                   /\ budget' \in Budget
                   /\ cut' \subseteq Commands /\ overtaken' \subseteq Commands
<1>t. /\ ready \in BOOLEAN /\ authorized \in BOOLEAN
      /\ asked \subseteq [run : Runs, version : Nat]
      /\ budget \in Budget
      /\ cut \subseteq Commands /\ overtaken \subseteq Commands
      /\ execution \in [Runs -> ExecutionRow]
  BY DEF CommandInv, CommandTypeOK
<1>b. Answer \/ Fault \/ Revocation \/ Overlap => budget' \in Budget
  BY <1>t DEF Answer, Fault, Revocation, Overlap, Budget
<1>c. \A c : Cut(c) => budget' \in Budget /\ cut' = cut \cup {c}
  BY <1>b DEF Cut
<1>1. ASSUME NEW c \in Commands,
             \/ \E r \in Runs : StartHeadless(c, r) \/ SelectQuest(c, r)
             \/ StartChat(c) \/ RepeatAdmission(c) \/ CancelHeadless(c)
             \/ \E by \in {"client", "owner"}, resolution \in {"go", "cancel"} :
                     ResolveAdmission(by, c, resolution) \/ ResolveRun(by, c, resolution)
      PROVE  Fine
  BY <1>1, <1>t, <1>b
     DEF StartHeadless, SelectQuest, StartChat, RepeatAdmission, CancelHeadless,
         ResolveAdmission, ResolveRun
<1>2. ASSUME NEW r \in Runs,
             \/ OwnerReadsUnlinked(r)
             \/ \E resolution \in {"go", "cancel"} : ResolveUnlinked(r, resolution)
      PROVE  Fine
  <2>1. execution[r].version \in Nat
    BY <1>t DEF ExecutionRow
  <2> QED
    BY <1>2, <1>t, <1>b, <2>1 DEF OwnerReadsUnlinked, ResolveUnlinked
<1>3. ASSUME NEW e \in outbox, LoseSend(e) PROVE Fine
  <2>1. CommandOf(e) \in Commands
    BY <1>t DEF CommandInv, CommandTypeOK, EventsNamed, Addressed, CommandOf, Event,
                ExecutionRow
  <2> QED
    BY <1>3, <1>t, <1>c, <2>1 DEF LoseSend
<1>4. CASE \/ \E e \in outbox : Send(e)
           \/ RevokeReady \/ RevokeAuthorization
           \/ \E e \in events : Deliver(e)
           \/ \E e \in failures : OnFailure(e)
           \/ \E j \in jobs : JobFails(j)
  BY <1>4, <1>t, <1>b
     DEF Send, RevokeReady, RevokeAuthorization, Deliver, OnFailure, JobFails
<1>5. ASSUME NEW j \in jobs, NEW row, Checkpoint(j, row)
      PROVE  overtaken' \subseteq Commands
  BY <1>5, <1>t DEF Checkpoint, Others
<1>6. ASSUME NEW j \in jobs, StepLost(j) \/ CycleLost(j) \/ CycleUnsaved(j) PROVE Fine
  <2>1. j.command \in Commands
    BY <1>6 DEF StepLost, CycleLost, CycleUnsaved, Proceeds, CommandInv, JobsKnow,
                Knows
  <2>2. Cut(j.command) /\ UNCHANGED <<ready, authorized, asked>>
    BY <1>6 DEF StepLost, CycleLost, CycleUnsaved
  <2>3. overtaken' \subseteq Commands
    BY <1>6, <1>t, <1>5 DEF StepLost, CycleLost, CycleUnsaved
  <2> QED
    BY <1>t, <1>c, <2>1, <2>2, <2>3
<1>7. ASSUME NEW j \in jobs, JobStep(j) PROVE Fine
  <2>1. CASE Cycle(j)
    BY <2>1, <1>t, <1>5 DEF Cycle
  <2>2. CASE ~Cycle(j)
    BY <1>7, <2>2, <1>t
       DEF JobStep, ResolveContinuation, Load, Refuse, FailUnauthorized, Discover,
           Admit, Start, Read, Link, Finish, Remember, TransitionOnly, EndsWith,
           GoesOn
  <2> QED
    BY <2>1, <2>2
<1> QED
  BY <1>1, <1>2, <1>3, <1>4, <1>6, <1>7 DEF CommandNext

----------------------------------------------------------------------------
\* The deliveries.

\* What a delivery is like after a step.
Fits(k) == k \in JobRecord /\ Knows(k)' /\ Copies(k)'

JobsTyped == \A k \in jobs' : Fits(k)

\* A step of somebody else: the row may run ahead of the delivery's copy.
LEMMA NotTheJob ==
    ASSUME CommandInv, RowMoves, EventsTyped, NEW k \in jobs PROVE Fits(k)
<1>1. Knows(k)' /\ k \in JobRecord
  BY DEF CommandInv, CommandTypeOK, JobsKnow, Knows, EventsTyped
<1>2. ASSUME k.at \notin {"resolve", "load"}
      PROVE  /\ command'[k.command].status # "absent"
             /\ k.seen.version <= command'[k.command].version
             /\ k.seen.version = command'[k.command].version
                   => command'[k.command].run = k.run
  <2>1. /\ k.command \in Commands /\ k.seen.version \in Nat
        /\ command[k.command].version \in Nat
        /\ command[k.command].status # "absent"
        /\ k.seen.version <= command[k.command].version
        /\ k.seen.version = command[k.command].version
              => command[k.command].run = k.run
    BY <1>2, HoldingJob DEF CommandInv, CommandTypeOK, CommandRow, JobsCopy, Copies
  <2> QED
    BY <2>1 DEF RowMoves
<1> QED
  BY <1>1, <1>2 DEF Fits, Copies

\* A delivery goes on as another, and the rest as they were.
LEMMA Succeeding ==
    ASSUME CommandInv, RowMoves, EventsTyped,
           \A k \in jobs' : k \in jobs \/ Fits(k)
    PROVE  JobsTyped
BY NotTheJob DEF JobsTyped

\* A delivery that keeps its copy of a row that is not written.
LEMMA Keeping ==
    ASSUME CommandInv, NEW j \in jobs, NEW k \in JobRecord,
           j.at \notin {"resolve", "load"},
           k.at \in {"admit", "start", "cycle", "read", "link", "finish"},
           k.event = j.event, k.command = j.command, k.loaded = j.loaded,
           k.seen = j.seen, k.run = j.run, k.run \in Runs,
           k.at \in {"link", "finish"} => k.found \in ExecutionRow,
           sent' = sent, command' = command
    PROVE  Fits(k)
BY DEF CommandInv, JobsKnow, JobsCopy, Knows, Copies, Fits

\* A delivery that goes on with a row it has written.
LEMMA WithItsWrite ==
    ASSUME CommandInv, sent' = sent, NEW j \in jobs, NEW k \in JobRecord,
           j.at \notin {"resolve", "load"}, Holds(j.command, j.seen),
           k.at \in {"admit", "cycle", "finish"},
           k.event = j.event, k.command = j.command, k.loaded = j.loaded,
           k.seen \in Seen, k.seen.version = j.seen.version + 1,
           command'[j.command].status = "running",
           command'[j.command].version = command[j.command].version + 1,
           command'[j.command].run = k.run, k.run \in Runs,
           k.at = "finish" => k.found \in ExecutionRow
    PROVE  Fits(k)
<1>1. Knows(k)'
  BY DEF CommandInv, JobsKnow, Knows
<1>2. /\ j.seen.version \in Nat /\ j.seen.version = command[j.command].version
  BY HoldingJob DEF Holds
<1>3. Copies(k)'
  BY <1>2 DEF Copies
<1> QED
  BY <1>1, <1>3 DEF Fits

LEMMA GoingOnJob ==
    ASSUME CommandInv, RowMoves, EventsTyped, NEW j \in jobs,
           j.at \in {"discover", "start"}, NEW r \in Runs,
           NEW at \in {"admit", "cycle"}, GoesOn(j, r, at)
    PROVE  JobsTyped
<1>1. CASE Holds(j.command, j.seen)
  <2> DEFINE seen == [status |-> "running", version |-> j.seen.version + 1]
             k == [j EXCEPT !.at = at, !.run = r, !.seen = seen]
  <2>1. /\ command \in [Commands -> CommandRow] /\ j.command \in Commands
        /\ "running" \in Active \cup Final /\ j \in JobRecord
        /\ j.seen.version \in Nat
    BY HoldingJob DEF CommandInv, CommandTypeOK, Active, Working
  <2>2. /\ command'[j.command].status = "running"
        /\ command'[j.command].version = command[j.command].version + 1
        /\ command'[j.command].run = r
    <3>1. command' = Rewritten(j.command, "running", None, r)
      BY <1>1 DEF GoesOn
    <3>2. PICK status \in Active \cup Final : status = "running"
      BY <2>1
    <3>3. PICK pending \in Questions \cup {None} : pending = None
      OBVIOUS
    <3>4. command' = Rewritten(j.command, status, pending, r) /\ r \in Runs \cup {None}
      BY <3>1, <3>2, <3>3
    <3> QED
      BY <2>1, <3>2, <3>4, RewrittenRow
  <2>3. seen \in Seen /\ seen.version = j.seen.version + 1
    BY <2>1 DEF Seen, Working
  <2> HIDE DEF seen
  <2>4. /\ k \in JobRecord /\ k.at = at /\ k.event = j.event /\ k.run = r
        /\ k.command = j.command /\ k.loaded = j.loaded /\ k.seen = seen
    BY <2>1, <2>3 DEF JobRecord
  <2>5. jobs' = (jobs \ {j}) \cup {k} /\ sent' = sent
    BY <1>1 DEF GoesOn, Becomes, TransitionOnly, seen
  <2> HIDE DEF k
  <2>6. Fits(k)
    BY <1>1, <2>2, <2>3, <2>4, <2>5, WithItsWrite
  <2> QED
    BY <2>5, <2>6, Succeeding
<1>2. CASE ~Holds(j.command, j.seen)
  BY <1>2, Succeeding DEF GoesOn, Ends, Becomes
<1> QED
  BY <1>1, <1>2

LEMMA Jobs == CommandInv /\ CommandNext => JobsTyped
<1> SUFFICES ASSUME CommandInv, CommandNext PROVE JobsTyped
  OBVIOUS
<1>t. /\ command \in [Commands -> CommandRow] /\ execution \in [Runs -> ExecutionRow]
      /\ jobs \subseteq JobRecord
      /\ RowMoves /\ EventsTyped /\ ExecutionsTyped
  BY Rows, Events, Executions DEF CommandInv, CommandTypeOK
<1>0. jobs' \subseteq jobs => JobsTyped
  BY <1>t, Succeeding
<1>i. \A j : Ends(j) => jobs' \subseteq jobs
  BY DEF Ends, Becomes
<1>n. ASSUME NEW j, NEW k, Becomes(j, {k}), Fits(k) PROVE JobsTyped
  BY <1>t, <1>n, Succeeding DEF Becomes
<1>1. ASSUME NEW c \in Commands,
             \/ \E r \in Runs : StartHeadless(c, r) \/ SelectQuest(c, r)
             \/ StartChat(c) \/ RepeatAdmission(c) \/ CancelHeadless(c)
             \/ \E by \in {"client", "owner"}, resolution \in {"go", "cancel"} :
                     ResolveAdmission(by, c, resolution) \/ ResolveRun(by, c, resolution)
      PROVE  JobsTyped
  BY <1>0, <1>1
     DEF StartHeadless, SelectQuest, StartChat, RepeatAdmission, CancelHeadless,
         ResolveAdmission, ResolveRun
<1>2. CASE \/ \E r \in Runs :
                 \/ OwnerReadsUnlinked(r)
                 \/ \E resolution \in {"go", "cancel"} : ResolveUnlinked(r, resolution)
           \/ \E e \in outbox : Send(e) \/ LoseSend(e)
           \/ RevokeReady \/ RevokeAuthorization
           \/ \E e \in failures : OnFailure(e)
           \/ \E j \in jobs : CycleLost(j)
  BY <1>0, <1>2
     DEF OwnerReadsUnlinked, ResolveUnlinked, Send, LoseSend, RevokeReady,
         RevokeAuthorization, OnFailure, CycleLost
<1>3. ASSUME NEW j \in jobs,
             \/ JobFails(j) \/ StepLost(j) \/ Refuse(j) \/ FailUnauthorized(j)
             \/ Finish(j)
      PROVE  JobsTyped
  BY <1>0, <1>i, <1>3
     DEF JobFails, StepLost, Refuse, FailUnauthorized, Finish, EndsWith
<1>4. ASSUME NEW e \in events, Deliver(e) PROVE JobsTyped
  <2>1. e \in sent /\ e \in Event /\ e \in sent'
    BY <1>t DEF CommandInv, CommandTypeOK, EventsTyped
  <2>2. /\ Begun(e).at = IF e.command = None THEN "resolve" ELSE "load"
        /\ Begun(e).event = e /\ Begun(e).command = e.command
        /\ Begun(e) \in JobRecord
    BY <2>1 DEF Begun, JobRecord, Event
  <2>3. Fits(Begun(e))
    BY <2>1, <2>2 DEF Fits, Knows, Copies, Event
  <2> QED
    BY <1>t, <1>4, <2>3, Succeeding DEF Deliver
<1>5. ASSUME NEW j \in jobs, ResolveContinuation(j) PROVE JobsTyped
  <2>1. PICK row : row = execution[j.event.run]
    OBVIOUS
  <2>2. CASE Becomes(j, {})
    BY <1>0, <1>i, <2>2 DEF Ends
  <2>3. CASE /\ row.command # None
             /\ Becomes(j, {[j EXCEPT !.at = "load", !.command = row.command]})
    <3>1. /\ j.event \in sent /\ j.event.run \in Runs /\ j \in JobRecord
          /\ j.event \in sent'
      BY <1>5, <1>t
         DEF ResolveContinuation, CommandInv, JobsKnow, Knows, EventsNamed, EventsTyped
    <3>2. row.command \in Commands
      BY <1>t, <2>1, <2>3, <3>1 DEF ExecutionRow
    <3>3. PICK k : k = [j EXCEPT !.at = "load", !.command = row.command]
      OBVIOUS
    <3>4. /\ k \in JobRecord /\ k.at = "load"
          /\ k.event = j.event /\ k.command = row.command
      BY <3>1, <3>2, <3>3 DEF JobRecord
    <3>5. Fits(k)
      BY <3>1, <3>2, <3>4 DEF Fits, Knows, Copies
    <3> QED
      BY <1>n, <2>3, <3>3, <3>5
  <2> QED
    BY <1>5, <2>1, <2>2, <2>3 DEF ResolveContinuation, Remember
<1>6. ASSUME NEW j \in jobs, Load(j) PROVE JobsTyped
  <2>1. PICK row : row = command[j.command]
    OBVIOUS
  <2>2. PICK at : at = IF ready THEN WorkAt(row) ELSE "refuse"
    OBVIOUS
  <2> DEFINE seen == [status |-> row.status, version |-> row.version]
             k == [j EXCEPT !.loaded = seen, !.seen = seen, !.run = row.run,
                            !.linked = row.linked, !.at = at]
  <2>3. CASE Becomes(j, {})
    BY <1>0, <1>i, <2>3 DEF Ends
  <2>4. CASE Loadable(row) /\ Becomes(j, {k})
    <3>1. /\ j.at = "load" /\ j.command \in Commands /\ j.event \in sent
          /\ command' = command /\ sent' = sent /\ j \in JobRecord
      BY <1>6, <1>t DEF Load, Remember, CommandInv, JobsKnow, Knows
    <3>2. row \in CommandRow /\ row.status \in Working
      BY <1>t, <2>1, <2>4, <3>1 DEF Loadable
    <3>3. /\ at \in {"refuse", "discover", "admit", "start", "cycle"}
          /\ at \in {"admit", "start", "cycle"} => row.run # None
          /\ at = "discover" => row.run = None
      BY <2>2 DEF WorkAt, StartAt
    <3>4. row.run \in Runs \cup {None} /\ row.version \in Nat /\ row.linked \in BOOLEAN
      BY <3>2 DEF CommandRow
    <3>5. seen \in Seen /\ seen.version = row.version
      BY <3>2, <3>4 DEF Seen
    <3> HIDE DEF seen
    <3>6. /\ k \in JobRecord /\ k.at = at /\ k.event = j.event
          /\ k.command = j.command /\ k.seen = seen /\ k.loaded = seen
          /\ k.run = row.run
      BY <3>1, <3>3, <3>4, <3>5 DEF JobRecord
    <3> HIDE DEF k
    <3>7. Knows(k)'
      BY <3>1, <3>3, <3>4, <3>5, <3>6 DEF Knows
    <3>8. Copies(k)'
      BY <2>1, <3>1, <3>2, <3>4, <3>5, <3>6 DEF Copies, Working
    <3> QED
      BY <1>n, <2>4, <3>6, <3>7, <3>8 DEF Fits
  <2> QED
    BY <1>6, <2>1, <2>2, <2>3, <2>4 DEF Load, Remember
<1>7. ASSUME NEW j \in jobs, Discover(j) PROVE JobsTyped
  <2>1. j.at = "discover"
    BY <1>7 DEF Discover, Proceeds
  <2>2. PICK eligible \in Executable :
            Ends(j) \/ (eligible \in Runs /\ GoesOn(j, eligible, "admit"))
    BY <1>7 DEF Discover, EndsWith, Executable
  <2> QED
    BY <1>0, <1>i, <1>t, <2>1, <2>2, GoingOnJob
<1>8. ASSUME NEW j \in jobs, Admit(j) PROVE JobsTyped
  <2>1. j.at = "admit" /\ j.run \in Runs /\ j \in JobRecord
    BY <1>8, <1>t DEF Admit, Proceeds, CommandInv, JobsKnow, Knows
  <2>2. PICK at \in {"start", "cycle"} : at = StartAt(j.seen.status)
    BY DEF StartAt
  <2>3. CASE Remember(j, {[j EXCEPT !.at = at]})
    <3> DEFINE k == [j EXCEPT !.at = at]
    <3>1. /\ k \in JobRecord /\ k.at = at /\ k.event = j.event
          /\ k.command = j.command /\ k.loaded = j.loaded /\ k.seen = j.seen
          /\ k.run = j.run
      BY <2>1 DEF JobRecord
    <3>2. Becomes(j, {k}) /\ sent' = sent /\ command' = command
      BY <2>3 DEF Remember
    <3> HIDE DEF k
    <3>3. Fits(k)
      BY <2>1, <3>1, <3>2, Keeping
    <3> QED
      BY <1>n, <3>2, <3>3
  <2> QED
    BY <1>0, <1>8, <1>i, <2>2, <2>3 DEF Admit, EndsWith
<1>9. ASSUME NEW j \in jobs, Start(j) PROVE JobsTyped
  BY <1>9, <1>t, GoingOnJob DEF Start, Proceeds, CommandInv, JobsKnow, Knows
<1>10. ASSUME NEW j \in jobs, Cycle(j) \/ CycleUnsaved(j) PROVE JobsTyped
  <2>1. j.at = "cycle" /\ j.run \in Runs /\ j \in JobRecord
    BY <1>10, <1>t DEF Cycle, CycleUnsaved, Proceeds, CommandInv, JobsKnow, Knows
  <2>2. PICK result \in CycleResults(execution[j.run]) :
            Becomes(j, {[j EXCEPT !.at = "read", !.outcome = result[2]]})
    BY <1>10 DEF Cycle, CycleUnsaved
  <2> DEFINE k == [j EXCEPT !.at = "read", !.outcome = result[2]]
  <2>3. result[2] \in {"ran", "terminal", "decision_required", "fatal", "again"}
    BY <1>t, <2>1, <2>2, Cycling
  <2>4. /\ k \in JobRecord /\ k.at = "read"
        /\ k.event = j.event /\ k.command = j.command
        /\ k.loaded = j.loaded /\ k.seen = j.seen /\ k.run = j.run
    BY <2>1, <2>3 DEF JobRecord
  <2>5. Becomes(j, {k}) /\ command' = command /\ sent' = sent
    BY <1>10, <2>2 DEF Cycle, CycleUnsaved
  <2> HIDE DEF k
  <2>6. Fits(k)
    BY <2>1, <2>4, <2>5, Keeping
  <2> QED
    BY <1>n, <2>5, <2>6
<1>11. ASSUME NEW j \in jobs, Read(j) PROVE JobsTyped
  <2>1. /\ j.at = "read" /\ j.run \in Runs /\ j \in JobRecord
        /\ execution[j.run] \in ExecutionRow
    BY <1>11, <1>t DEF Read, Proceeds, CommandInv, JobsKnow, Knows
  <2>2. PICK row \in ExecutionRow : row = execution[j.run]
    BY <2>1
  <2>3. PICK at \in {"link", "finish"} :
            Remember(j, {[j EXCEPT !.found = row, !.at = at]})
    BY <1>11, <2>2 DEF Read
  <2> DEFINE k == [j EXCEPT !.found = row, !.at = at]
  <2>4. /\ k \in JobRecord /\ k.at = at
        /\ k.event = j.event /\ k.command = j.command
        /\ k.loaded = j.loaded /\ k.seen = j.seen /\ k.run = j.run
        /\ k.found = row
    BY <2>1 DEF JobRecord
  <2>5. Becomes(j, {k}) /\ command' = command /\ sent' = sent
    BY <2>3 DEF Remember
  <2> HIDE DEF k
  <2>6. Fits(k)
    BY <2>1, <2>4, <2>5, Keeping
  <2> QED
    BY <1>n, <2>5, <2>6
<1>12. ASSUME NEW j \in jobs, Link(j) PROVE JobsTyped
  <2>1. /\ j.at = "link" /\ j.run \in Runs /\ j.command \in Commands
        /\ j.found \in ExecutionRow /\ j \in JobRecord
        /\ sent' = sent /\ j.seen.version \in Nat
    BY <1>12, <1>t, HoldingJob DEF Link, Proceeds, CommandInv, JobsKnow, Knows
  <2> DEFINE seen == [status |-> "running", version |-> j.seen.version + 1]
             k == [j EXCEPT !.at = "finish", !.seen = seen]
  <2>2. CASE MayLink(j) /\ command' = LinkedCommands(j) /\ Becomes(j, {k})
    <3>1. /\ command'[j.command].status = "running"
          /\ command'[j.command].version = command[j.command].version + 1
          /\ command'[j.command].run = j.run /\ Holds(j.command, j.seen)
      BY <1>t, <2>1, <2>2, LinkedRow, HoldingJob DEF MayLink
    <3>2. seen \in Seen /\ seen.version = j.seen.version + 1
      BY <2>1 DEF Seen, Working
    <3> HIDE DEF seen
    <3>3. /\ k \in JobRecord /\ k.at = "finish" /\ k.event = j.event
          /\ k.command = j.command /\ k.loaded = j.loaded /\ k.seen = seen
          /\ k.run = j.run /\ k.found = j.found
      BY <2>1, <3>2 DEF JobRecord
    <3> HIDE DEF k
    <3>4. Fits(k)
      BY <2>1, <3>1, <3>2, <3>3, WithItsWrite
    <3> QED
      BY <1>n, <2>2, <3>4
  <2> QED
    BY <1>0, <1>12, <1>i, <2>2 DEF Link
<1> QED
  BY <1>1, <1>2, <1>3, <1>4, <1>5, <1>6, <1>7, <1>8, <1>9, <1>10, <1>11, <1>12
     DEF CommandNext, JobStep

----------------------------------------------------------------------------
\* The invariant.

LEMMA CommandInvInit == CommandInit => CommandInv
<1>1. CommandInit => JobsCopy /\ Selecting /\ Addressed /\ LinksAgree
  BY CommandAssumption
     DEF CommandInit, JobsCopy, Selecting, Addressed, LinksAgree, Questions
<1> QED
  BY <1>1, CommandInitType DEF CommandInv

LEMMA CommandInvStep == CommandInv /\ [CommandNext]_commandVars => CommandInv'
<1>1. ASSUME CommandInv, CommandNext PROVE CommandInv'
  <2>1. /\ RowsTyped /\ RowMoves /\ LinksKept /\ ExecutionsTyped
        /\ EventsTyped /\ Addressed' /\ JobsTyped
    BY <1>1, Rows, Executions, Events, Addressing, Jobs
  <2>2. CommandTypeOK' /\ EventsNamed' /\ JobsKnow' /\ JobsCopy'
    <3>1. jobs' \subseteq JobRecord /\ JobsKnow' /\ JobsCopy'
      BY <2>1 DEF JobsTyped, Fits, JobsKnow, JobsCopy
    <3> QED
      BY <1>1, <2>1, <3>1, Surroundings
         DEF CommandTypeOK, RowsTyped, ExecutionsTyped, EventsTyped, EventsNamed
  <2>3. Selecting'
    BY <1>1, <2>1, CommandAssumption
       DEF CommandInv, Selecting, RowMoves, Questions
  <2>4. LinksAgree'
    <3> SUFFICES ASSUME NEW c \in Commands, command'[c].linked
                 PROVE  /\ command'[c].run # None
                        /\ execution'[command'[c].run].command = c
      BY DEF LinksAgree
    <3>1. CASE command[c].linked /\ command'[c].run = command[c].run
      <4>1. /\ command[c].run # None /\ command[c].run \in Runs
            /\ execution[command[c].run].command = c /\ c # None
        BY <1>1, <3>1, CommandAssumption
           DEF CommandInv, LinksAgree, CommandTypeOK, CommandRow
      <4> QED
        BY <2>1, <3>1, <4>1 DEF LinksKept
    <3> QED
      BY <2>1, <3>1 DEF RowMoves
  <2> QED
    BY <2>1, <2>2, <2>3, <2>4 DEF CommandInv
<1>2. ASSUME CommandInv, UNCHANGED commandVars PROVE CommandInv'
  BY <1>2
     DEF commandVars, CommandInv, CommandTypeOK, EventsNamed, Addressed, JobsKnow,
         Knows, JobsCopy, Copies, Selecting, LinksAgree
<1> QED
  BY <1>1, <1>2

LEMMA CommandInvariant == CommandSpec => []CommandInv
BY CommandInvInit, CommandInvStep, PTL DEF CommandSpec

----------------------------------------------------------------------------
\* The question of a run.

\* A delivery that saw its command linked works on a linked command.
Linked(j) ==
    j.at \notin {"resolve", "load"} /\ j.linked => command[j.command].linked

\* The delivery that has read the question of the execution, as long as its
\* command is the one it knows and nothing cut it off.
Asking(j) ==
    /\ j.at \in {"link", "finish"} /\ Holds(j.command, j.seen)
    /\ j.found.status = "decision_required"
    /\ j.command \notin cut

\* About to put the question, its command is linked and the execution still
\* asks.  About to link, the execution still asks or is another command's, which
\* was answered with it.
Meets(j) ==
    Asking(j) =>
        \/ execution[j.run].status = "decision_required"
           /\ (j.at = "finish" => command[j.command].linked)
        \/ j.at = "link" /\ execution[j.run].command \notin {None, j.command}

JobsLink == \A j \in jobs : Linked(j)
FoundAsks == \A j \in jobs : Meets(j)

AskInv == CommandInv /\ JobsLink /\ FoundAsks /\ QuestionIsOpen

\* What a step may do to an execution that asks its owner: it goes on asking,
\* unless its own command is answered with it, or the commands that work on
\* that run are cut off.
QuestionsKept ==
    \A r \in Runs :
        execution[r].status = "decision_required" =>
            \/ execution'[r].status = "decision_required"
            \/ LET d == execution[r].command IN
               /\ d \in Commands /\ command[d].status = "decision_required"
               /\ command'[d].status # "decision_required"
            \/ \A c \in Commands :
                  command[c].run = r /\ command[c].status \in Active => c \in cut'

LEMMA CutsStay == CommandNext => cut \subseteq cut'
<1>1. CASE UNCHANGED cut
  BY <1>1
<1>2. CASE \/ \E r \in Runs, resolution \in {"go", "cancel"} :
                   ResolveUnlinked(r, resolution)
           \/ \E e \in outbox : LoseSend(e)
           \/ \E j \in jobs : StepLost(j) \/ CycleLost(j) \/ CycleUnsaved(j)
  BY <1>2 DEF ResolveUnlinked, LoseSend, StepLost, CycleLost, CycleUnsaved, Cut
<1>3. ASSUME NEW c \in Commands,
             \/ \E r \in Runs : StartHeadless(c, r) \/ SelectQuest(c, r)
             \/ StartChat(c) \/ RepeatAdmission(c) \/ CancelHeadless(c)
             \/ \E by \in {"client", "owner"}, resolution \in {"go", "cancel"} :
                     ResolveAdmission(by, c, resolution) \/ ResolveRun(by, c, resolution)
      PROVE  UNCHANGED cut
  BY <1>3
     DEF StartHeadless, SelectQuest, StartChat, RepeatAdmission, CancelHeadless,
         ResolveAdmission, ResolveRun
<1>4. CASE \/ \E r \in Runs : OwnerReadsUnlinked(r)
           \/ \E e \in outbox : Send(e)
           \/ RevokeReady \/ RevokeAuthorization
           \/ \E e \in events : Deliver(e)
           \/ \E e \in failures : OnFailure(e)
           \/ \E j \in jobs : JobFails(j)
  BY <1>1, <1>4
     DEF OwnerReadsUnlinked, Send, RevokeReady, RevokeAuthorization, Deliver,
         OnFailure, JobFails
<1>5. ASSUME NEW j \in jobs, JobStep(j) PROVE UNCHANGED cut
  BY <1>5
     DEF JobStep, ResolveContinuation, Load, Refuse, FailUnauthorized, Discover,
         Admit, Start, Cycle, Read, Link, Finish, Remember, TransitionOnly,
         EndsWith, GoesOn
<1> QED
  BY <1>1, <1>2, <1>3, <1>4, <1>5 DEF CommandNext

LEMMA Questioning == CommandInv /\ CommandNext => QuestionsKept
<1> SUFFICES ASSUME CommandInv, CommandNext PROVE QuestionsKept
  OBVIOUS
<1>t. execution \in [Runs -> ExecutionRow] /\ command \in [Commands -> CommandRow]
  BY DEF CommandInv, CommandTypeOK
<1>1. CASE UNCHANGED execution
  BY <1>1 DEF QuestionsKept
<1>2. ASSUME NEW c \in Commands, NEW by \in {"client", "owner"},
             NEW resolution \in {"go", "cancel"}, ResolveRun(by, c, resolution)
      PROVE  QuestionsKept
  <2>1. command[c].run \in Runs /\ execution[command[c].run].command = c
    BY <1>2 DEF ResolveRun, CommandInv, LinksAgree, CommandTypeOK, CommandRow
  <2>2. \A r \in Runs \ {command[c].run} : execution'[r] = execution[r]
    BY <1>2, <1>t, <2>1 DEF ResolveRun
  <2>3. command[c].status = "decision_required"
    BY <1>2 DEF ResolveRun
  <2>4. command'[c].status # "decision_required"
    <3>1. PICK status \in {"cancelled", "running"} :
              command' = Rewritten(c, status, None, command[c].run)
      BY <1>2 DEF ResolveRun
    <3>2. status \in Active \cup Final /\ None \in Questions \cup {None}
      BY Statuses
    <3> DEFINE rows == Rewritten(c, status, None, command[c].run)
    <3>3. rows[c].status = status
      BY <1>t, <2>1, <3>2, RewrittenRow
    <3> HIDE DEF rows
    <3> QED
      BY <3>1, <3>3 DEF rows
  <2> QED
    BY <2>1, <2>2, <2>3, <2>4 DEF QuestionsKept
<1>3. ASSUME NEW r \in Runs, NEW resolution \in {"go", "cancel"},
             ResolveUnlinked(r, resolution)
      PROVE  QuestionsKept
  <2>1. \A s \in Runs \ {r} : execution'[s] = execution[s]
    BY <1>3, <1>t DEF ResolveUnlinked
  <2>2. \A c \in Commands :
            command[c].run = r /\ command[c].status \in Active => c \in cut'
    BY <1>3 DEF ResolveUnlinked
  <2> QED
    BY <2>1, <2>2 DEF QuestionsKept
<1>4. ASSUME NEW j \in jobs, Cycle(j) \/ CycleLost(j) PROVE QuestionsKept
  <2>1. j.run \in Runs
    BY <1>4 DEF Cycle, CycleLost, Proceeds, CommandInv, JobsKnow, Knows
  <2>2. PICK result \in CycleResults(execution[j.run]) :
            execution' = [execution EXCEPT ![j.run] = result[1]]
    BY <1>4 DEF Cycle, CycleLost, Checkpoint
  <2>3. execution[j.run].status = "decision_required"
            => result[1] = execution[j.run]
    BY <2>2 DEF CycleResults
  <2> QED
    BY <1>t, <2>1, <2>2, <2>3 DEF QuestionsKept
<1>5. ASSUME NEW j \in jobs, j.at = "link", execution' = LinkedExecutions(j)
      PROVE  QuestionsKept
  <2>1. j.run \in Runs
    BY <1>5 DEF CommandInv, JobsKnow, Knows
  <2>2. \A r \in Runs : execution'[r].status = execution[r].status
    BY <1>t, <1>5, <2>1 DEF LinkedExecutions, ExecutionRow
  <2> QED
    BY <2>2 DEF QuestionsKept
<1>6. ASSUME NEW j \in jobs, Link(j) PROVE QuestionsKept
  BY <1>1, <1>5, <1>6 DEF Link, Proceeds
<1>7. ASSUME NEW j \in jobs, StepLost(j) PROVE QuestionsKept
  BY <1>1, <1>5, <1>7 DEF StepLost
<1>8. ASSUME NEW c \in Commands,
             \/ \E r \in Runs : StartHeadless(c, r) \/ SelectQuest(c, r)
             \/ StartChat(c) \/ RepeatAdmission(c) \/ CancelHeadless(c)
             \/ \E by \in {"client", "owner"}, resolution \in {"go", "cancel"} :
                     ResolveAdmission(by, c, resolution)
      PROVE  QuestionsKept
  BY <1>1, <1>8
     DEF StartHeadless, SelectQuest, StartChat, RepeatAdmission, CancelHeadless,
         ResolveAdmission
<1>9. CASE \/ \E r \in Runs : OwnerReadsUnlinked(r)
           \/ \E e \in outbox : Send(e) \/ LoseSend(e)
           \/ RevokeReady \/ RevokeAuthorization
           \/ \E e \in events : Deliver(e)
           \/ \E e \in failures : OnFailure(e)
           \/ \E j \in jobs : JobFails(j) \/ CycleUnsaved(j)
  BY <1>1, <1>9
     DEF OwnerReadsUnlinked, Send, LoseSend, RevokeReady, RevokeAuthorization,
         Deliver, OnFailure, JobFails, CycleUnsaved
<1>10. ASSUME NEW j \in jobs,
              \/ ResolveContinuation(j) \/ Load(j) \/ Refuse(j)
              \/ FailUnauthorized(j) \/ Discover(j) \/ Admit(j) \/ Start(j)
              \/ Read(j) \/ Finish(j)
       PROVE  UNCHANGED execution
  BY <1>10
     DEF ResolveContinuation, Load, Refuse, FailUnauthorized, Discover, Admit,
         Start, Read, Finish, Remember, TransitionOnly, EndsWith, GoesOn
<1> QED
  BY <1>1, <1>2, <1>3, <1>4, <1>6, <1>7, <1>8, <1>9, <1>10
     DEF CommandNext, JobStep

\* How a delivery k comes from a delivery j that has loaded its command: it
\* reads the execution, it has linked what it read, or it is not that far yet.
ReadBy(j, k) ==
    /\ UNCHANGED <<command, execution>>
    /\ k.found = execution[j.run]
    /\ k.at = "finish" => k.found.status # "decision_required" \/ k.linked
LinkedBy(j, k) ==
    /\ j.at = "link" /\ MayLink(j) /\ k.at = "finish"
    /\ k.found = j.found
    /\ command' = LinkedCommands(j)
    /\ execution' = LinkedExecutions(j)
ComesFrom(j, k) ==
    /\ j.at \notin {"resolve", "load"}
    /\ k.command = j.command /\ k.linked = j.linked
    /\ k.at \in {"link", "finish"} =>
          /\ k.run = j.run /\ j.run \in Runs
          /\ ReadBy(j, k) \/ LinkedBy(j, k)

\* Or it has just loaded its command, or has not yet.
NewlyLoaded(k) ==
    \/ k.at \in {"resolve", "load"}
    \/ /\ k.at \notin {"link", "finish"} /\ UNCHANGED command
       /\ k.linked = command[k.command].linked

JobMoves ==
    \A k \in jobs' : k \in jobs \/ NewlyLoaded(k) \/ \E j \in jobs : ComesFrom(j, k)

LEMMA Moving == CommandInv /\ CommandNext => JobMoves
<1> SUFFICES ASSUME CommandInv, CommandNext PROVE JobMoves
  OBVIOUS
<1>t. /\ jobs \subseteq JobRecord
      /\ command \in [Commands -> CommandRow]
      /\ execution \in [Runs -> ExecutionRow]
  BY DEF CommandInv, CommandTypeOK
<1>0. jobs' \subseteq jobs => JobMoves
  BY DEF JobMoves
<1>i. \A j : Ends(j) => jobs' \subseteq jobs
  BY DEF Ends, Becomes
<1>n. ASSUME NEW j \in jobs, NEW k, Becomes(j, {k}), NewlyLoaded(k) \/ ComesFrom(j, k)
      PROVE  JobMoves
  BY <1>n DEF Becomes, JobMoves
<1>e. ASSUME NEW j \in jobs, NEW k, Becomes(j, {k}),
             j.at \notin {"resolve", "load"}, k.at \notin {"link", "finish"},
             k.command = j.command, k.linked = j.linked
      PROVE  JobMoves
  BY <1>e, <1>n DEF ComesFrom
<1>1. ASSUME NEW c \in Commands,
             \/ \E r \in Runs : StartHeadless(c, r) \/ SelectQuest(c, r)
             \/ StartChat(c) \/ RepeatAdmission(c) \/ CancelHeadless(c)
             \/ \E by \in {"client", "owner"}, resolution \in {"go", "cancel"} :
                     ResolveAdmission(by, c, resolution) \/ ResolveRun(by, c, resolution)
      PROVE  JobMoves
  BY <1>0, <1>1
     DEF StartHeadless, SelectQuest, StartChat, RepeatAdmission, CancelHeadless,
         ResolveAdmission, ResolveRun
<1>2. CASE \/ \E r \in Runs :
                 \/ OwnerReadsUnlinked(r)
                 \/ \E resolution \in {"go", "cancel"} : ResolveUnlinked(r, resolution)
           \/ \E e \in outbox : Send(e) \/ LoseSend(e)
           \/ RevokeReady \/ RevokeAuthorization
           \/ \E e \in failures : OnFailure(e)
           \/ \E j \in jobs : CycleLost(j)
  BY <1>0, <1>2
     DEF OwnerReadsUnlinked, ResolveUnlinked, Send, LoseSend, RevokeReady,
         RevokeAuthorization, OnFailure, CycleLost
<1>3. ASSUME NEW j \in jobs,
             \/ JobFails(j) \/ StepLost(j) \/ Refuse(j) \/ FailUnauthorized(j)
             \/ Finish(j)
      PROVE  JobMoves
  BY <1>0, <1>i, <1>3
     DEF JobFails, StepLost, Refuse, FailUnauthorized, Finish, EndsWith
<1>4. ASSUME NEW e \in events, Deliver(e) PROVE JobMoves
  BY <1>4 DEF Deliver, Begun, JobMoves, NewlyLoaded
<1>5. ASSUME NEW j \in jobs, ResolveContinuation(j) PROVE JobMoves
  <2>1. PICK c : Becomes(j, {}) \/ Becomes(j, {[j EXCEPT !.at = "load", !.command = c]})
    BY <1>5 DEF ResolveContinuation, Remember
  <2>2. [j EXCEPT !.at = "load", !.command = c].at = "load"
    BY <1>t DEF JobRecord
  <2> QED
    BY <1>0, <1>i, <1>n, <2>1, <2>2 DEF Ends, NewlyLoaded
<1>6. ASSUME NEW j \in jobs, Load(j) PROVE JobMoves
  <2>1. PICK row : row = command[j.command]
    OBVIOUS
  <2>2. PICK at : at = IF ready THEN WorkAt(row) ELSE "refuse"
    OBVIOUS
  <2> DEFINE seen == [status |-> row.status, version |-> row.version]
             k == [j EXCEPT !.loaded = seen, !.seen = seen, !.run = row.run,
                            !.linked = row.linked, !.at = at]
  <2>3. at \notin {"link", "finish"}
    BY <2>2 DEF WorkAt, StartAt
  <2>4. (Becomes(j, {}) \/ Becomes(j, {k})) /\ UNCHANGED command
    BY <1>6, <2>1, <2>2 DEF Load, Remember
  <2> HIDE DEF seen
  <2>5. k.at = at /\ k.command = j.command /\ k.linked = row.linked
    BY <1>t DEF JobRecord
  <2> HIDE DEF k
  <2> QED
    BY <1>0, <1>i, <1>n, <2>1, <2>3, <2>4, <2>5 DEF Ends, NewlyLoaded
<1>7. ASSUME NEW j \in jobs, j.at \in {"discover", "start"}, NEW r \in Runs,
             NEW at \in {"admit", "cycle"}, GoesOn(j, r, at)
      PROVE  JobMoves
  <2> DEFINE seen == [status |-> "running", version |-> j.seen.version + 1]
             k == [j EXCEPT !.at = at, !.run = r, !.seen = seen]
  <2>1. Ends(j) \/ Becomes(j, {k})
    BY <1>7 DEF GoesOn
  <2> HIDE DEF seen
  <2>2. k.at = at /\ k.command = j.command /\ k.linked = j.linked
    BY <1>t DEF JobRecord
  <2> HIDE DEF k
  <2> QED
    BY <1>0, <1>e, <1>i, <1>7, <2>1, <2>2
<1>8. ASSUME NEW j \in jobs, Discover(j) PROVE JobMoves
  <2>1. PICK eligible \in Executable :
            Ends(j) \/ (eligible \in Runs /\ GoesOn(j, eligible, "admit"))
    BY <1>8 DEF Discover, EndsWith, Executable
  <2> QED
    BY <1>0, <1>7, <1>8, <1>i, <2>1 DEF Discover, Proceeds
<1>9. ASSUME NEW j \in jobs, Admit(j) PROVE JobMoves
  <2>1. PICK at \in {"start", "cycle"} : at = StartAt(j.seen.status)
    BY DEF StartAt
  <2> DEFINE k == [j EXCEPT !.at = at]
  <2>2. Ends(j) \/ Becomes(j, {k})
    BY <1>9, <2>1 DEF Admit, Remember, EndsWith
  <2>3. k.at = at /\ k.command = j.command /\ k.linked = j.linked
    BY <1>t DEF JobRecord
  <2> HIDE DEF k
  <2>4. j.at = "admit"
    BY <1>9 DEF Admit, Proceeds
  <2> QED
    BY <1>0, <1>e, <1>i, <2>2, <2>3, <2>4
<1>10. ASSUME NEW j \in jobs, Start(j) PROVE JobMoves
  BY <1>7, <1>10 DEF Start, Proceeds, CommandInv, JobsKnow, Knows
<1>11. ASSUME NEW j \in jobs, Cycle(j) \/ CycleUnsaved(j) PROVE JobMoves
  <2>1. PICK outcome : Becomes(j, {[j EXCEPT !.at = "read", !.outcome = outcome]})
    BY <1>11 DEF Cycle, CycleUnsaved
  <2> DEFINE k == [j EXCEPT !.at = "read", !.outcome = outcome]
  <2>2. k.at = "read" /\ k.command = j.command /\ k.linked = j.linked
    BY <1>t DEF JobRecord
  <2> HIDE DEF k
  <2>3. j.at = "cycle"
    BY <1>11 DEF Cycle, CycleUnsaved, Proceeds
  <2> QED
    BY <1>e, <2>1, <2>2, <2>3 DEF k
<1>12. ASSUME NEW j \in jobs, Read(j) PROVE JobMoves
  <2>1. j.at = "read" /\ j.run \in Runs
    BY <1>12 DEF Read, Proceeds, CommandInv, JobsKnow, Knows
  <2>2. PICK row : row = execution[j.run]
    OBVIOUS
  <2>3. PICK at : at = IF row.status = "absent" \/ j.linked THEN "finish" ELSE "link"
    OBVIOUS
  <2> DEFINE k == [j EXCEPT !.found = row, !.at = at]
  <2>4. Becomes(j, {k}) /\ UNCHANGED <<command, execution>>
    BY <1>12, <2>2, <2>3 DEF Read, Remember
  <2>5. /\ k.at = at /\ k.command = j.command /\ k.linked = j.linked
        /\ k.run = j.run /\ k.found = row
    BY <1>t DEF JobRecord
  <2> HIDE DEF k
  <2>6. ComesFrom(j, k)
    BY <2>1, <2>2, <2>3, <2>4, <2>5 DEF ComesFrom, ReadBy
  <2> QED
    BY <1>n, <2>4, <2>6
<1>13. ASSUME NEW j \in jobs, Link(j) PROVE JobMoves
  <2>1. j.at = "link" /\ j.run \in Runs
    BY <1>13 DEF Link, Proceeds, CommandInv, JobsKnow, Knows
  <2> DEFINE seen == [status |-> "running", version |-> j.seen.version + 1]
             k == [j EXCEPT !.at = "finish", !.seen = seen]
  <2>2. CASE /\ MayLink(j) /\ Becomes(j, {k})
             /\ command' = LinkedCommands(j) /\ execution' = LinkedExecutions(j)
    <3> HIDE DEF seen
    <3>1. /\ k.at = "finish" /\ k.command = j.command /\ k.linked = j.linked
          /\ k.run = j.run /\ k.found = j.found
      BY <1>t DEF JobRecord
    <3> HIDE DEF k
    <3>2. ComesFrom(j, k)
      BY <2>1, <2>2, <3>1 DEF ComesFrom, LinkedBy
    <3> QED
      BY <1>n, <2>2, <3>2
  <2> QED
    BY <1>0, <1>13, <1>i, <2>2 DEF Link
<1> QED
  BY <1>1, <1>2, <1>3, <1>4, <1>5, <1>6, <1>8, <1>9, <1>10, <1>11, <1>12, <1>13
     DEF CommandNext, JobStep

LEMMA AskInvInit == CommandInit => AskInv
<1>1. CommandInit => JobsLink /\ FoundAsks /\ QuestionIsOpen
  BY CommandAssumption
     DEF CommandInit, JobsLink, FoundAsks, QuestionIsOpen
<1> QED
  BY <1>1, CommandInvInit DEF AskInv

LEMMA AskInvStep == AskInv /\ [CommandNext]_commandVars => AskInv'
<1>1. ASSUME AskInv, CommandNext PROVE AskInv'
  <2> USE <1>1
  <2>1. /\ CommandInv /\ CommandInv' /\ RowMoves /\ LinksKept /\ QuestionsKept
        /\ JobMoves /\ cut \subseteq cut'
    BY CommandInvStep, Rows, Executions, Questioning, Moving, CutsStay DEF AskInv
  <2>t. /\ command \in [Commands -> CommandRow] /\ jobs \subseteq JobRecord
        /\ execution \in [Runs -> ExecutionRow]
        /\ \A c \in Commands : command[c].version \in Nat
    BY <2>1 DEF CommandInv, CommandTypeOK, CommandRow
  <2>2. ASSUME NEW k \in jobs' PROVE Linked(k)'
    <3> SUFFICES ASSUME k.at \notin {"resolve", "load"}, k.linked
                 PROVE  command'[k.command].linked
      BY DEF Linked
    <3>1. ASSUME NEW j \in jobs, j.at \notin {"resolve", "load"},
                 k.command = j.command, k.linked = j.linked
          PROVE  command'[k.command].linked
      <4>1. /\ command[j.command].linked /\ j.command \in Commands
            /\ command[j.command].status # "absent"
        BY <2>1, <3>1
           DEF AskInv, JobsLink, Linked, CommandInv, JobsKnow, Knows, JobsCopy, Copies
      <4> QED
        BY <2>1, <3>1, <4>1 DEF RowMoves
    <3>2. CASE UNCHANGED command /\ k.linked = command[k.command].linked
      BY <3>2
    <3> QED
      BY <2>1, <3>1, <3>2 DEF JobMoves, NewlyLoaded, ComesFrom
  <2>3. ASSUME NEW k \in jobs' PROVE Meets(k)'
    <3> DEFINE c == k.command
    <3> SUFFICES ASSUME Asking(k)'
                 PROVE  \/ /\ execution'[k.run].status = "decision_required"
                           /\ k.at = "finish" => command'[c].linked
                        \/ /\ k.at = "link"
                           /\ execution'[k.run].command \notin {None, c}
      BY DEF Meets
    <3>1. /\ k.at \in {"link", "finish"} /\ Holds(c, k.seen)'
          /\ k.found.status = "decision_required" /\ c \notin cut'
      BY DEF Asking
    <3>2. c \in Commands /\ c \notin cut /\ k.run \in Runs /\ c # None
      BY <2>1, <3>1, CommandAssumption DEF CommandInv, JobsKnow, Knows
    <3>3. CASE k \in jobs
      <4>1. /\ command[c].status # "absent" /\ k.seen.version <= command[c].version
            /\ k.seen.version \in Nat /\ command[c].version \in Nat
        BY <2>1, <2>t, <3>1, <3>2, <3>3, HoldingJob DEF CommandInv, JobsCopy, Copies
      <4>2. command'[c] = command[c]
        BY <2>1, <3>1, <3>2, <4>1 DEF RowMoves, Holds
      <4>3. /\ Holds(c, k.seen) /\ command[c].run = k.run
            /\ command[c].status \in Active
            /\ command[c].status # "decision_required"
        BY <2>1, <3>1, <3>3, <4>2, HoldingJob DEF Holds, Working
      <4>4. \/ /\ execution[k.run].status = "decision_required"
               /\ k.at = "finish" => command[c].linked
            \/ k.at = "link" /\ execution[k.run].command \notin {None, c}
        BY <3>1, <3>2, <3>3, <4>3 DEF AskInv, FoundAsks, Meets, Asking
      <4>5. CASE execution[k.run].command \notin {None, c}
        <5>1. k.at = "link"
          BY <2>1, <3>1, <3>2, <4>3, <4>4, <4>5 DEF CommandInv, LinksAgree
        <5>2. execution'[k.run].command = execution[k.run].command
          BY <2>1, <3>2, <4>5 DEF LinksKept
        <5> QED
          BY <4>5, <5>1, <5>2
      <4>6. CASE execution[k.run].command \in {None, c}
        <5>1. /\ execution[k.run].status = "decision_required"
              /\ k.at = "finish" => command[c].linked
          BY <4>4, <4>6
        <5>2. ~ \A d \in Commands : command[d].run = k.run
                    /\ command[d].status \in Active => d \in cut'
          BY <3>1, <3>2, <4>3
        <5>3. execution[k.run].command \in Commands
                => command[execution[k.run].command].status # "decision_required"
          BY <4>3, <4>6, CommandAssumption
        <5>4. execution'[k.run].status = "decision_required"
          BY <2>1, <3>2, <5>1, <5>2, <5>3 DEF QuestionsKept
        <5> QED
          BY <4>2, <5>1, <5>4
      <4> QED
        BY <4>5, <4>6
    <3>4. ASSUME NEW j \in jobs, ComesFrom(j, k)
          PROVE  /\ execution'[k.run].status = "decision_required"
                 /\ k.at = "finish" => command'[c].linked
      <4>1. /\ j.at \notin {"resolve", "load"} /\ j.command = c
            /\ k.linked = j.linked /\ k.run = j.run
            /\ ReadBy(j, k) \/ LinkedBy(j, k)
        BY <3>1, <3>4 DEF ComesFrom
      <4>2. CASE ReadBy(j, k)
        BY <2>2, <3>1, <4>1, <4>2 DEF ReadBy, Linked
      <4>3. CASE LinkedBy(j, k)
        <5>1. /\ Holds(c, j.seen) /\ j.found.status = "decision_required"
              /\ execution[j.run].command \in {None, c}
          BY <3>1, <4>1, <4>3 DEF LinkedBy, MayLink
        <5>2. execution[j.run].status = "decision_required"
          BY <3>2, <4>1, <4>3, <5>1 DEF LinkedBy, AskInv, FoundAsks, Meets, Asking
        <5>3. execution'[j.run].status = execution[j.run].status
          BY <2>t, <3>2, <4>1, <4>3 DEF LinkedBy, LinkedExecutions, ExecutionRow
        <5>4. command'[c].linked
          BY <2>t, <3>2, <4>1, <4>3, LinkedRow DEF LinkedBy
        <5> QED
          BY <4>1, <5>2, <5>3, <5>4
      <4> QED
        BY <4>1, <4>2, <4>3
    <3> QED
      BY <2>1, <3>1, <3>3, <3>4 DEF JobMoves, NewlyLoaded
  <2>4. QuestionIsOpen'
    <3> SUFFICES ASSUME NEW c \in Commands \ cut',
                        command'[c].status = "decision_required",
                        command'[c].pending = "run"
                 PROVE  /\ command'[c].linked
                        /\ execution'[command'[c].run].status = "decision_required"
      BY <2>1 DEF QuestionIsOpen, CommandInv, LinksAgree
    <3>1. c \in Commands /\ c \notin cut /\ c \notin cut'
      BY <2>1
    <3>2. CASE command'[c] = command[c]
      <4>1. /\ command[c].linked
            /\ execution[command[c].run].status = "decision_required"
            /\ execution[command[c].run].command = c
            /\ command[c].status = "decision_required"
        BY <3>1, <3>2 DEF AskInv, QuestionIsOpen
      <4>2. command[c].run \in Runs
        BY <2>t, <2>1, <3>1, <4>1 DEF CommandInv, LinksAgree, CommandRow
      <4>3. execution'[command[c].run].status = "decision_required"
        BY <2>1, <3>1, <3>2, <4>1, <4>2 DEF QuestionsKept, Active
      <4> QED
        BY <3>2, <4>1, <4>3
    <3>3. CASE command'[c] # command[c]
      <4>1. Asked(c) /\ command[c].status \in Active
        BY <2>1, <3>1, <3>3, CommandAssumption DEF RowMoves
      <4>j. PICK j \in jobs :
              /\ j.at = "finish" /\ j.command = c /\ Holds(c, j.seen)
              /\ j.found.status = "decision_required"
        BY <4>1 DEF Asked
      <4>2. /\ command[c].run = j.run /\ j.run \in Runs
            /\ command[c].linked
            /\ execution[j.run].status = "decision_required"
        BY <2>1, <3>1, <4>j, HoldingJob
           DEF AskInv, FoundAsks, Meets, Asking, CommandInv, JobsKnow, Knows
      <4>3. /\ execution[j.run].command = c
            /\ command[c].status # "decision_required"
        BY <2>1, <3>1, <4>j, <4>2, HoldingJob
           DEF CommandInv, LinksAgree, Holds, Working
      <4>4. execution'[j.run].status = "decision_required"
        BY <2>1, <3>1, <4>1, <4>2, <4>3 DEF QuestionsKept
      <4>5. command'[c].linked /\ command'[c].run = j.run
        BY <2>1, <3>1, <3>3, <4>1, <4>2 DEF RowMoves
      <4> QED
        BY <4>4, <4>5
    <3> QED
      BY <3>2, <3>3
  <2> QED
    BY <2>1, <2>2, <2>3, <2>4 DEF AskInv, JobsLink, FoundAsks
<1>2. ASSUME AskInv, UNCHANGED commandVars PROVE AskInv'
  BY <1>2, CommandInvStep
     DEF commandVars, AskInv, JobsLink, Linked, FoundAsks, Meets, Asking,
         QuestionIsOpen, Holds
<1> QED
  BY <1>1, <1>2

----------------------------------------------------------------------------
\* The theorems.

\* Every row, event and memory of a delivery has the shape the code gives it,
\* whatever is answered, lost, repeated and interleaved (agent_commands and
\* agent_run_executions, agent-execution.ts).
THEOREM CommandTypeCorrect == CommandSpec => []CommandTypeOK
<1>1. CommandInv => CommandTypeOK
  BY DEF CommandInv
<1> QED
  BY <1>1, CommandInvariant, PTL

\* A command that is linked and the execution of its run name each other, for
\* any number of commands that are started on the same run and any interleaving
\* of their links with answers and cancels (link_agent_command_execution).
THEOREM LinksAlwaysAgree == CommandSpec => []LinksAgree
<1>1. CommandInv => LinksAgree
  BY DEF CommandInv
<1> QED
  BY <1>1, CommandInvariant, PTL

\* A command that waits for the answer to its run's question can be answered,
\* as long as no fault and no owner came in between: a delivery reads the
\* execution, links the command and puts the question in separate steps, and
\* answers, cancels, other commands of the run and other deliveries go on
\* meanwhile (Finish after link-command-execution,
\* resolve_agent_command_run_decision).
THEOREM QuestionStaysOpen == CommandSpec => []QuestionIsOpen
<1>1. AskInv => QuestionIsOpen
  BY DEF AskInv
<1> QED
  BY <1>1, AskInvInit, AskInvStep, PTL DEF CommandSpec

\* A command that ended is never written again, although any number of deliveries
\* still work on it and trust copies of the row, and a step of one may be run
\* twice (updateCommand's comparison of the status and the version).
THEOREM FinalIsFinal == CommandSpec => FinalStaysFinal
<1>1. CommandInv /\ [CommandNext]_commandVars
        => [\A c \in Commands :
              command[c].status \in Final => command'[c] = command[c]]_commandVars
  <2>1. ASSUME CommandInv, CommandNext, NEW c \in Commands,
               command[c].status \in Final
        PROVE  command'[c] = command[c]
    <3>1. RowMoves
      BY <2>1, Rows
    <3> QED
      BY <2>1, <3>1 DEF RowMoves, Final, Active, Working
  <2> QED
    BY <2>1
<1> QED
  BY <1>1, CommandInvariant, PTL DEF CommandSpec, FinalStaysFinal
=============================================================================
