----------------------------- MODULE SandboxJob -----------------------------
(***************************************************************************)
(* The life of a pull-request job: the propose_pr tool of the agent, the   *)
(* sandbox_jobs row, the Fargate sandbox, the daemon thread that polls the *)
(* row, the heartbeat (ping.py and the runtime's own task set) and the     *)
(* audit and spend records written when the job ends.                      *)
(*                                                                         *)
(* All jobs of one agent process are modelled together: they share the     *)
(* heartbeat and die together when the process does.                       *)
(***************************************************************************)
EXTENDS Naturals, FiniteSets

CONSTANTS
  Task,        \* the task ids the tools mint, one run of a tool each
  Threshold,   \* Threshold[t]: heartbeat_busy_threshold when t is registered
  Cost,        \* Cost[t]: cents the sandbox's agent loop spends on t
  Resends,     \* how often boto3 sends a request again at most
  Faults,      \* the kinds of fault that may happen
  MaxFaults    \* how many faults may happen in one behaviour (model bound)

FaultKinds ==
  { "ddb",       \* a DynamoDB call fails and has no effect
    "again",     \* an increment takes effect each time it is sent, its answers lost
    "lost_ack",  \* a call takes effect, but its caller sees an error
    "ecs",       \* ecs.run_task refuses to launch
    "sdk",       \* app.add_async_task raises
    "thread",    \* threading.Thread.start raises
    "crash",     \* the agent process dies
    "kill",      \* Fargate stops the container
    "net" }      \* an HTTP call to the bridge is lost

ASSUME SandboxAssumption ==
  /\ IsFiniteSet(Task)
  /\ Threshold \in [Task -> Nat \ {0}]
  /\ Cost \in [Task -> Nat]
  /\ Resends \in Nat
  /\ Faults \subseteq FaultKinds
  /\ MaxFaults \in Nat

VARIABLES
  tool,      \* where the tool call that minted the id is
  reply,     \* what the tool call told the model
  row,       \* the sandbox_jobs row
  inflight,  \* ping._inflight_tasks; _register_async_task and every release
             \* keep the runtime's own set of async tasks in step with it
  poll,      \* where the daemon thread of the job is
  verdict,   \* the daemon's final_status
  sandbox,   \* where the container is in entrypoint.main
  outcome,   \* the container's final_status
  prOpen,    \* the pull request exists on GitHub
  spent,     \* cents the container's agent loop has spent
  charged,   \* cents the daemon has charged to the tenant
  audit,     \* the propose_pr audit rows of the job, by their status
  callback,  \* the container's POST to /internal/sandbox_complete
  nfaults,   \* how many faults there were so far
  happened   \* and of which kinds

agentVars   == <<tool, reply, inflight, poll, verdict, charged, audit>>
sandboxVars == <<sandbox, outcome, prOpen, spent, callback>>
faultVars   == <<nfaults, happened>>
vars        == <<agentVars, row, sandboxVars, faultVars>>

Verdicts == {"success", "error", "orphaned"}
Terminal == {"success", "error"}

ToolStates == {"idle", "recorded", "registered", "regfail", "launchfail",
               "launched", "returned", "dead"}
Replies    == {"none", "refused", "not_opened", "queued", "raised", "background"}
PollLive   == {"sleeping", "polling", "expired", "auditing", "clearing"}
PollStates == PollLive \cup {"none", "done", "dead"}
Working    == {"boot", "claimed", "cloning", "editing", "costing", "pushing",
               "opening", "closing", "calling"}
SandboxStates == Working \cup {"none", "exited", "dead"}
RowStatus  == Verdicts \cup {"none", "pending", "running"}
Row        == [status : RowStatus, pr : BOOLEAN, cost : Nat]

TypeOK ==
  /\ tool \in [Task -> ToolStates]
  /\ reply \in [Task -> Replies]
  /\ row \in [Task -> Row]
  /\ inflight \subseteq Task
  /\ poll \in [Task -> PollStates]
  /\ verdict \in [Task -> Verdicts \cup {"none"}]
  /\ sandbox \in [Task -> SandboxStates]
  /\ outcome \in [Task -> Terminal \cup {"none"}]
  /\ prOpen \in [Task -> BOOLEAN]
  /\ spent \in [Task -> Nat]
  /\ charged \in [Task -> Nat]
  /\ audit \in [Task -> SUBSET (Verdicts \cup {"launched"})]
  /\ callback \in [Task -> {"none", "sent", "lost"}]
  /\ nfaults \in 0 .. MaxFaults
  /\ happened \subseteq Faults

Init ==
  /\ tool = [t \in Task |-> "idle"]
  /\ reply = [t \in Task |-> "none"]
  /\ row = [t \in Task |-> [status |-> "none", pr |-> FALSE, cost |-> 0]]
  /\ inflight = {}
  /\ poll = [t \in Task |-> "none"]
  /\ verdict = [t \in Task |-> "none"]
  /\ sandbox = [t \in Task |-> "none"]
  /\ outcome = [t \in Task |-> "none"]
  /\ prOpen = [t \in Task |-> FALSE]
  /\ spent = [t \in Task |-> 0]
  /\ charged = [t \in Task |-> 0]
  /\ audit = [t \in Task |-> {}]
  /\ callback = [t \in Task |-> "none"]
  /\ nfaults = 0
  /\ happened = {}

(***************************************************************************)
(* Faults.  A step either goes well or spends one fault of the budget.     *)
(***************************************************************************)
Fault(kind) ==
  /\ kind \in Faults
  /\ nfaults < MaxFaults
  /\ nfaults' = nfaults + 1
  /\ happened' = happened \cup {kind}

NoFault == UNCHANGED faultVars

\* An UpdateItem or PutItem on the row: written, written but reported as an
\* error, or not written.  `seen' is what the caller concludes.
RowWrite(t, new, seen) ==
  \/ row' = [row EXCEPT ![t] = new] /\ seen = "ok" /\ NoFault
  \/ row' = [row EXCEPT ![t] = new] /\ seen = "error" /\ Fault("lost_ack")
  \/ UNCHANGED row /\ seen = "error" /\ Fault("ddb")

\* The same for callers that log a failed write and carry on.
RowWriteLogged(t, new) == \E seen \in {"ok", "error"} : RowWrite(t, new, seen)

WithStatus(t, s) == [row[t] EXCEPT !.status = s]

Register(t)   == inflight' = inflight \cup {t}
Unregister(t) == inflight' = inflight \ {t}

Return(t, r) ==
  /\ tool' = [tool EXCEPT ![t] = "returned"]
  /\ reply' = [reply EXCEPT ![t] = r]

-----------------------------------------------------------------------------
(***************************************************************************)
(* propose_pr, one action per external call.                               *)
(***************************************************************************)

\* The request passed the checks and the coordinates are cached: put the row.
RecordJob(t) ==
  /\ tool[t] = "idle"
  /\ \/ /\ RowWrite(t, WithStatus(t, "pending"), "ok")
        /\ tool' = [tool EXCEPT ![t] = "recorded"]
        /\ UNCHANGED reply
     \/ /\ RowWrite(t, WithStatus(t, "pending"), "error")
        /\ Return(t, "refused")
  /\ UNCHANGED <<inflight, poll, verdict, charged, audit, sandboxVars>>

\* Mutant: no rollback of the heartbeat when the runtime refuses the task.
RegisterJob_NoRollback(t) ==
  /\ tool[t] = "recorded"
  /\ Register(t)
  /\ \/ tool' = [tool EXCEPT ![t] = "registered"] /\ NoFault
     \/ tool' = [tool EXCEPT ![t] = "regfail"] /\ Fault("sdk")
  /\ UNCHANGED <<reply, row, poll, verdict, charged, audit, sandboxVars>>

\* _register_async_task: heartbeat first, then the runtime; if the runtime
\* raises, both are rolled back before the exception leaves the helper.
RegisterJob(t) ==
  /\ tool[t] = "recorded"
  /\ \/ /\ Register(t)
        /\ tool' = [tool EXCEPT ![t] = "registered"]
        /\ NoFault
     \/ /\ Unregister(t)
        /\ tool' = [tool EXCEPT ![t] = "regfail"]
        /\ Fault("sdk")
  /\ UNCHANGED <<reply, row, poll, verdict, charged, audit, sandboxVars>>

FailRegistration(t) ==
  /\ tool[t] = "regfail"
  /\ RowWriteLogged(t, WithStatus(t, "error"))
  /\ Return(t, "refused")
  /\ UNCHANGED <<inflight, poll, verdict, charged, audit, sandboxVars>>

\* ecs.run_task and _validate_run_task_response.  The error path is also
\* taken when the task was started and only the answer was lost or unusable.
LaunchSandbox(t) ==
  /\ tool[t] = "registered"
  /\ \/ /\ sandbox' = [sandbox EXCEPT ![t] = "boot"]
        /\ \/ tool' = [tool EXCEPT ![t] = "launched"] /\ NoFault
           \/ tool' = [tool EXCEPT ![t] = "launchfail"] /\ Fault("lost_ack")
     \/ /\ tool' = [tool EXCEPT ![t] = "launchfail"]
        /\ Fault("ecs")
        /\ UNCHANGED sandbox
  /\ UNCHANGED <<reply, row, inflight, poll, verdict, charged, audit,
                 outcome, prOpen, spent, callback>>

\* Mutant: a failed launch leaves the row as it is.
FailLaunch_RowLeft(t) ==
  /\ tool[t] = "launchfail"
  /\ Unregister(t)
  /\ Return(t, "not_opened")
  /\ UNCHANGED <<row, poll, verdict, charged, audit, sandboxVars, faultVars>>

FailLaunch(t) ==
  /\ tool[t] = "launchfail"
  /\ RowWriteLogged(t, WithStatus(t, "error"))
  /\ Unregister(t)
  /\ Return(t, "not_opened")
  /\ UNCHANGED <<poll, verdict, charged, audit, sandboxVars>>

\* The launched audit row (dropped if its write fails), then the thread.
StartPoller(t) ==
  /\ tool[t] = "launched"
  /\ \/ /\ poll' = [poll EXCEPT ![t] = "polling"]
        /\ Return(t, "queued")
        /\ \/ audit' = [audit EXCEPT ![t] = @ \cup {"launched"}] /\ NoFault
           \/ UNCHANGED audit /\ Fault("ddb")
     \/ /\ audit' = [audit EXCEPT ![t] = @ \cup {"launched"}]
        /\ Return(t, "raised")
        /\ Fault("thread")
        /\ UNCHANGED poll
  /\ UNCHANGED <<row, inflight, verdict, charged, sandboxVars>>

-----------------------------------------------------------------------------
(***************************************************************************)
(* start_background_task: the other tool that uses the heartbeat.          *)
(***************************************************************************)
StartBackground(t) ==
  /\ tool[t] = "idle"
  /\ \/ /\ Register(t)
        /\ poll' = [poll EXCEPT ![t] = "sleeping"]
        /\ Return(t, "background")
        /\ NoFault
     \/ Unregister(t) /\ Return(t, "raised") /\ Fault("sdk") /\ UNCHANGED poll
     \/ Register(t) /\ Return(t, "raised") /\ Fault("thread") /\ UNCHANGED poll
  /\ UNCHANGED <<row, verdict, charged, audit, sandboxVars>>

EndBackground(t) ==
  /\ poll[t] = "sleeping"
  /\ Unregister(t)
  /\ poll' = [poll EXCEPT ![t] = "done"]
  /\ UNCHANGED <<tool, reply, verdict, charged, audit, row, sandboxVars, faultVars>>

-----------------------------------------------------------------------------
(***************************************************************************)
(* _poll_sandbox_completion.                                               *)
(***************************************************************************)

\* The increment of the tenant's counter, as often as it took effect.
Charge(t, times) == charged' = [charged EXCEPT ![t] = @ + times * row[t].cost]

\* A poll before the deadline that finds a terminal row: charge what the row
\* says the sandbox cost and leave the loop.  The tracker drops a failed write,
\* and boto3 sends the increment again while its answer is lost.
\* Polls that find nothing, or an older row, or fail, change nothing.
PollTerminal(t) ==
  /\ poll[t] = "polling"
  /\ row[t].status \in Terminal
  /\ verdict' = [verdict EXCEPT ![t] = row[t].status]
  /\ \/ Charge(t, 1) /\ NoFault
     \/ row[t].cost > 0 /\ UNCHANGED charged /\ Fault("ddb")
     \/ row[t].cost > 0 /\ (\E n \in 1 .. Resends : Charge(t, 1 + n)) /\ Fault("again")
  /\ poll' = [poll EXCEPT ![t] = "auditing"]
  /\ UNCHANGED <<tool, reply, inflight, audit, row, sandboxVars>>

\* Mutant: the heartbeat is released as soon as the deadline passes.
PollDeadline_ReleaseFirst(t) ==
  /\ poll[t] = "polling"
  /\ verdict' = [verdict EXCEPT ![t] = "orphaned"]
  /\ poll' = [poll EXCEPT ![t] = "expired"]
  /\ Unregister(t)
  /\ UNCHANGED <<tool, reply, charged, audit, row, sandboxVars, faultVars>>

\* The deadline passes.  The loop ends without another look at the row.
PollDeadline(t) ==
  /\ poll[t] = "polling"
  /\ verdict' = [verdict EXCEPT ![t] = "orphaned"]
  /\ poll' = [poll EXCEPT ![t] = "expired"]
  /\ UNCHANGED <<tool, reply, inflight, charged, audit, row,
                 sandboxVars, faultVars>>

\* Mutant: the orphan branch charges what the row says so far.
MarkOrphaned_Charging(t) ==
  /\ poll[t] = "expired"
  /\ RowWriteLogged(t, WithStatus(t, "orphaned"))
  /\ charged' = [charged EXCEPT ![t] = @ + row[t].cost]
  /\ poll' = [poll EXCEPT ![t] = "auditing"]
  /\ UNCHANGED <<tool, reply, inflight, verdict, audit, sandboxVars>>

\* Mutant: the orphan branch puts a new row instead of updating the status.
MarkOrphaned_PutsRow(t) ==
  /\ poll[t] = "expired"
  /\ RowWriteLogged(t, [status |-> "orphaned", pr |-> FALSE, cost |-> row[t].cost])
  /\ poll' = [poll EXCEPT ![t] = "auditing"]
  /\ UNCHANGED <<tool, reply, inflight, verdict, charged, audit, sandboxVars>>

MarkOrphaned(t) ==
  /\ poll[t] = "expired"
  /\ RowWriteLogged(t, WithStatus(t, "orphaned"))
  /\ poll' = [poll EXCEPT ![t] = "auditing"]
  /\ UNCHANGED <<tool, reply, inflight, verdict, charged, audit, sandboxVars>>

\* The finally block: the completed audit row, then the heartbeat.
AuditCompletion(t) ==
  /\ poll[t] = "auditing"
  /\ \/ audit' = [audit EXCEPT ![t] = @ \cup {verdict[t]}] /\ NoFault
     \/ UNCHANGED audit /\ Fault("ddb")
  /\ poll' = [poll EXCEPT ![t] = "clearing"]
  /\ UNCHANGED <<tool, reply, inflight, verdict, charged, row, sandboxVars>>

ClearHeartbeat(t) ==
  /\ poll[t] = "clearing"
  /\ Unregister(t)
  /\ poll' = [poll EXCEPT ![t] = "done"]
  /\ UNCHANGED <<tool, reply, verdict, charged, audit, row, sandboxVars, faultVars>>

-----------------------------------------------------------------------------
(***************************************************************************)
(* The heartbeat and the process that carries it.                          *)
(***************************************************************************)

\* Mutant: the threshold is exceeded, not reached.
Busy_Above == \E t \in inflight : Cardinality(inflight) > Threshold[t]

\* custom_ping reports HEALTHY_BUSY.
Busy == \E t \in inflight : Cardinality(inflight) >= Threshold[t]

\* Everything of the agent that is not in DynamoDB is gone.
ProcessGone ==
  /\ inflight' = {}
  /\ tool' = [t \in Task |-> IF tool[t] \in {"idle", "returned"}
                             THEN tool[t] ELSE "dead"]
  /\ poll' = [t \in Task |-> IF poll[t] \in PollLive THEN "dead" ELSE poll[t]]
  /\ UNCHANGED <<reply, verdict, charged, audit, row, sandboxVars>>

AgentCrash == Fault("crash") /\ ProcessGone

\* The runtime stops a session that has no call in progress and whose pings
\* say HEALTHY.  (Stopping one with no thread left changes nothing.)
IdleShutdown ==
  /\ ~Busy
  /\ \A t \in Task : tool[t] \in {"idle", "returned", "dead"}
  /\ \E t \in Task : poll[t] \in PollLive
  /\ ProcessGone
  /\ NoFault

-----------------------------------------------------------------------------
(***************************************************************************)
(* The sandbox container, entrypoint.main.  A step whose POST to           *)
(* /internal/sandbox_progress follows it is taken with the POST;           *)
(* ProgressTracker models what the POST does.                              *)
(***************************************************************************)
Goto(t, s) == sandbox' = [sandbox EXCEPT ![t] = s]

\* The single error boundary: record the failure, skip to the closing writes.
GiveUp(t) ==
  /\ Goto(t, "closing")
  /\ outcome' = [outcome EXCEPT ![t] = "error"]

\* get_job; when it fails the container exits at once.
ReadJob(t) ==
  /\ sandbox[t] = "boot"
  /\ \/ Goto(t, "claimed") /\ NoFault
     \/ Goto(t, "exited") /\ Fault("ddb")
  /\ UNCHANGED <<agentVars, row, outcome, prOpen, spent, callback>>

MarkRunning(t) ==
  /\ sandbox[t] = "claimed"
  /\ RowWriteLogged(t, WithStatus(t, "running"))
  /\ Goto(t, "cloning")
  /\ UNCHANGED <<agentVars, outcome, prOpen, spent, callback>>

CloneRepo(t) ==
  /\ sandbox[t] = "cloning"
  /\ \/ Goto(t, "editing") /\ UNCHANGED outcome
     \/ GiveUp(t)
  /\ UNCHANGED <<agentVars, row, prOpen, spent, callback, faultVars>>

\* The agent loop turns API and tool errors into its result.  It raises only
\* before its first API call (no client, no key), with nothing spent.
RunAgentLoop(t) ==
  /\ sandbox[t] = "editing"
  /\ \/ /\ Goto(t, "costing")
        /\ spent' = [spent EXCEPT ![t] = Cost[t]]
        /\ UNCHANGED outcome
     \/ GiveUp(t) /\ UNCHANGED spent
  /\ UNCHANGED <<agentVars, row, prOpen, callback, faultVars>>

\* Mutant: the cost is written only when there are changes to push.
WriteCost_IfChanged(t) ==
  /\ sandbox[t] = "costing"
  /\ \/ /\ RowWriteLogged(t, [row[t] EXCEPT !.cost = spent[t]])
        /\ Goto(t, "pushing")
        /\ UNCHANGED outcome
     \/ GiveUp(t) /\ UNCHANGED <<row, faultVars>>
  /\ UNCHANGED <<agentVars, prOpen, spent, callback>>

\* The cost is written whatever the loop's result; no changes is a failure.
WriteCost(t) ==
  /\ sandbox[t] = "costing"
  /\ RowWriteLogged(t, [row[t] EXCEPT !.cost = spent[t]])
  /\ \/ Goto(t, "pushing") /\ UNCHANGED outcome
     \/ GiveUp(t)
  /\ UNCHANGED <<agentVars, prOpen, spent, callback>>

PushBranch(t) ==
  /\ sandbox[t] = "pushing"
  /\ \/ Goto(t, "opening") /\ UNCHANGED outcome
     \/ GiveUp(t)
  /\ UNCHANGED <<agentVars, row, prOpen, spent, callback, faultVars>>

OpenPullRequest(t) ==
  /\ sandbox[t] = "opening"
  /\ \/ /\ Goto(t, "closing")
        /\ prOpen' = [prOpen EXCEPT ![t] = TRUE]
        /\ outcome' = [outcome EXCEPT ![t] = "success"]
        /\ NoFault
     \/ GiveUp(t) /\ UNCHANGED prOpen /\ NoFault
     \/ GiveUp(t) /\ prOpen' = [prOpen EXCEPT ![t] = TRUE] /\ Fault("lost_ack")
  /\ UNCHANGED <<agentVars, row, spent, callback>>

WriteOutcome(t) ==
  /\ sandbox[t] = "closing"
  /\ RowWriteLogged(t, [row[t] EXCEPT !.status = outcome[t],
                                      !.pr = @ \/ outcome[t] = "success"])
  /\ Goto(t, "calling")
  /\ UNCHANGED <<agentVars, outcome, prOpen, spent, callback>>

PostCallback(t) ==
  /\ sandbox[t] = "calling"
  /\ \/ callback' = [callback EXCEPT ![t] = "sent"] /\ NoFault
     \/ callback' = [callback EXCEPT ![t] = "lost"] /\ Fault("net")
  /\ Goto(t, "exited")
  /\ UNCHANGED <<agentVars, row, outcome, prOpen, spent>>

\* Fargate stops the container, or never gets it to run.
ContainerStopped(t) ==
  /\ sandbox[t] \in Working
  /\ Fault("kill")
  /\ Goto(t, "dead")
  /\ UNCHANGED <<agentVars, row, outcome, prOpen, spent, callback>>

-----------------------------------------------------------------------------
\* What propose_pr does once the row is written.
ToolStep(t) ==
  \/ RegisterJob(t)
  \/ FailRegistration(t)
  \/ LaunchSandbox(t)
  \/ FailLaunch(t)
  \/ StartPoller(t)

PollStep(t) ==
  \/ EndBackground(t)
  \/ PollTerminal(t)
  \/ PollDeadline(t)
  \/ MarkOrphaned(t)
  \/ AuditCompletion(t)
  \/ ClearHeartbeat(t)

SandboxStep(t) ==
  \/ ReadJob(t)
  \/ MarkRunning(t)
  \/ CloneRepo(t)
  \/ RunAgentLoop(t)
  \/ WriteCost(t)
  \/ PushBranch(t)
  \/ OpenPullRequest(t)
  \/ WriteOutcome(t)
  \/ PostCallback(t)

Next ==
  \/ \E t \in Task : \/ RecordJob(t)
                     \/ StartBackground(t)
                     \/ ToolStep(t)
                     \/ PollStep(t)
                     \/ SandboxStep(t)
                     \/ ContainerStopped(t)
  \/ AgentCrash
  \/ IdleShutdown

Spec == Init /\ [][Next]_vars

-----------------------------------------------------------------------------
(***************************************************************************)
(* Properties.                                                             *)
(***************************************************************************)

\* Somebody alive will clear the heartbeat of t: the tool call that has not
\* handed it over yet, or the daemon thread.
Owned(t) ==
  \/ tool[t] \in {"registered", "launched", "launchfail"}
  \/ poll[t] \in PollLive

\* The heartbeat counts a job exactly while somebody owns it: a leaked entry
\* pins the container for ever, a missing one lets it be stopped under a
\* running poller.  (The one leak the code has, a thread that cannot be
\* started after registration, shows as reply "raised".)
HeartbeatOwned ==
  /\ \A t \in Task : Owned(t) => t \in inflight
  /\ \A t \in inflight : Owned(t) \/ reply[t] = "raised"

\* An idle shutdown never takes the daemon of a job registered with the default
\* threshold of 1, whatever the thresholds of the jobs around it: only a crash
\* of the process leaves such a job without its poller.
IdleShutdownSafe ==
  "crash" \notin happened
    => \A t \in Task : Threshold[t] = 1 => poll[t] # "dead"

\* A user told "refused" has no container working behind his back, and the
\* user told "queued" has one that was started.
ReplyMatchesLaunch ==
  \A t \in Task : /\ reply[t] = "refused" => sandbox[t] = "none"
                  /\ reply[t] = "queued" => sandbox[t] # "none"

\* A success, in the row, in the audit trail or in the callback, has a pull
\* request behind it, and so has a link on the row.
SuccessBacked ==
  \A t \in Task :
    /\ "success" \in {row[t].status, verdict[t], outcome[t]} \cup audit[t]
         => prOpen[t]
    /\ row[t].pr => prOpen[t]

\* As long as DynamoDB answered, the row of a container that ended in success has
\* the link, whatever verdict the poller or the tool wrote over its status.
LinkKept ==
  "ddb" \notin happened =>
    \A t \in Task :
      outcome[t] = "success" /\ sandbox[t] \in {"calling", "exited"} => row[t].pr

\* Whoever reads a success finds a pull request, and a pull request the container
\* reported is found from the row even if the row says orphaned or error.
SuccessHasPR == SuccessBacked /\ LinkKept

\* The tenant is charged nothing or what the sandbox spent; only if an increment
\* was sent again is it more, and then once more for every time it was.  And it is
\* charged only for a job whose poller saw it end.
Billed(t) ==
  \/ charged[t] \in {0, spent[t]}
  \/ "again" \in happened /\ \E n \in 1 .. Resends : charged[t] = (1 + n) * spent[t]

ChargeBacked ==
  \A t \in Task : Billed(t) /\ (charged[t] > 0 => verdict[t] \in Terminal)

\* All that was spent is charged, and only a re-sent increment makes it more.
Paid(t) ==
  /\ charged[t] >= spent[t]
  /\ "again" \notin happened => charged[t] = spent[t]

\* As long as DynamoDB took what it was sent, a job whose poller saw it end is
\* charged all that its agent loop spent, and no more unless an increment was sent
\* again: the cost is on the row before the terminal status is.
SpendCharged ==
  "ddb" \notin happened =>
    \A t \in Task : verdict[t] \in Terminal => Paid(t)

\* As long as DynamoDB answered, a queued job that stopped counting as busy has both
\* audit rows, unless the process died: nothing shuts down in between.
AuditBeforeRelease ==
  "ddb" \notin happened =>
    \A t \in Task :
      reply[t] = "queued" /\ t \notin inflight /\ poll[t] # "dead"
        => audit[t] = {"launched", verdict[t]}

\* As long as DynamoDB answered, a job whose container came to its end, or was
\* never started although its launch failed, has a verdict on its row, although
\* tool, poller and container all write it with no order between them.
RowSettled ==
  "ddb" \notin happened =>
    \A t \in Task :
      sandbox[t] = "exited" \/ (reply[t] = "not_opened" /\ sandbox[t] = "none")
        => row[t].status \in Verdicts

\* The contract of JobContract: a job is tracked while it counts as busy, and
\* its result and bill show once it no longer does.
Stage(t) ==
  IF t \in inflight THEN "tracked"
  ELSE IF tool[t] \in {"idle", "recorded"} THEN "new" ELSE "closed"

Contract == INSTANCE JobContract WITH
  Job    <- Task,
  Price  <- Cost,
  Repeat <- Resends,
  stage  <- [t \in Task |-> Stage(t)],
  result <- [t \in Task |-> IF t \in inflight THEN "none" ELSE verdict[t]],
  bill   <- [t \in Task |-> IF t \in inflight THEN 0 ELSE charged[t]],
  doubt  <- "again" \in happened

\* The jobs of the agent implement the contract.
ImplementsContract == Contract!CSpec
=============================================================================
