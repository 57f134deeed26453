---------------------------- MODULE SandboxSystem ----------------------------
(***************************************************************************)
(* One pull-request job with its progress tracker: SandboxJob and          *)
(* ProgressTracker joined where entrypoint.main posts to the bridge.  The  *)
(* container takes no step while it waits for an answer.                   *)
(***************************************************************************)
EXTENDS Naturals, FiniteSets

CONSTANTS
  job,                        \* the job
  Ceiling,                    \* its heartbeat threshold
  Spend,                      \* what its agent loop spends
  Resends,                    \* how often boto3 sends a request again at most
  JobFaults, MaxJobFaults,    \* faults of the agent, the row and the container
  LinkFaults, MaxLinkFaults   \* faults of the bridge and of Slack

VARIABLES
  tool, reply, row, inflight, poll, verdict, sandbox, outcome, prOpen, spent,
  charged, audit, callback, jfaults, jhappened,
  at, told, waiting, phase, seen, ts, past, thread, lfaults, lhappened

jvars == <<tool, reply, row, inflight, poll, verdict, sandbox, outcome, prOpen,
           spent, charged, audit, callback, jfaults, jhappened>>
lvars == <<at, told, waiting, phase, seen, ts, past, thread, lfaults, lhappened>>
svars == <<jvars, lvars>>

J == INSTANCE SandboxJob WITH
  Task <- {job}, Threshold <- [t \in {job} |-> Ceiling], Cost <- [t \in {job} |-> Spend],
  Faults <- JobFaults, MaxFaults <- MaxJobFaults, nfaults <- jfaults,
  happened <- jhappened

L == INSTANCE ProgressTracker WITH
  Faults <- LinkFaults, MaxFaults <- MaxLinkFaults, outcome <- told, nfaults <- lfaults,
  happened <- lhappened

ASSUME SystemAssumption ==
  /\ Ceiling \in Nat \ {0} /\ Spend \in Nat /\ Resends \in Nat
  /\ JobFaults \subseteq J!FaultKinds /\ MaxJobFaults \in Nat
  /\ LinkFaults \subseteq L!TrackerFaults /\ MaxLinkFaults \in Nat

SystemInit == J!Init /\ L!TrackerInit

-----------------------------------------------------------------------------
\* The milestone the container reports when it goes from one phase to another,
\* 0 if that step posts nothing.
Milestone(from, to) ==
  CASE from = "claimed"                   -> 1
    [] from = "cloning" /\ to = "editing" -> 2
    [] from = "costing" /\ to = "pushing" -> 4
    [] from = "pushing" /\ to = "opening" -> 5
    [] OTHER                              -> 0

\* A step of entrypoint.main and the progress post that ends it.
Work ==
  /\ waiting = 0
  /\ \/ J!ReadJob(job) \/ J!MarkRunning(job) \/ J!CloneRepo(job) \/ J!RunAgentLoop(job)
     \/ J!WriteCost(job) \/ J!PushBranch(job) \/ J!WriteOutcome(job)
  /\ LET k == Milestone(sandbox[job], sandbox'[job]) IN
       IF k = 0 THEN UNCHANGED lvars ELSE L!Send(k) /\ UNCHANGED told

\* The pull request is open; the post "opening_pr" follows if the container knows.
Open ==
  /\ waiting = 0
  /\ J!OpenPullRequest(job)
  /\ IF outcome'[job] = "success" THEN L!Send(6) /\ UNCHANGED told ELSE UNCHANGED lvars

\* Mutant: the container goes on to push after its first edit.
FirstEdit_Pushes ==
  /\ waiting = 0
  /\ sandbox[job] = "editing"
  /\ at = 2
  /\ L!Send(3)
  /\ UNCHANGED told
  /\ sandbox' = [sandbox EXCEPT ![job] = "pushing"]
  /\ UNCHANGED <<tool, reply, row, inflight, poll, verdict, outcome, prOpen,
                 spent, charged, audit, callback, jfaults, jhappened>>

\* The agent loop's first edit of a file.
FirstEdit ==
  /\ waiting = 0
  /\ sandbox[job] = "editing"
  /\ at = 2
  /\ L!Send(3)
  /\ UNCHANGED told
  /\ UNCHANGED jvars

\* Mutant: the callback goes out before the terminal write.
Report_BeforeWrite ==
  /\ waiting = 0
  /\ sandbox[job] = "closing"
  /\ at # L!Final
  /\ told' = outcome[job]
  /\ L!Send(L!Final)
  /\ UNCHANGED jvars

\* Mutant: only errors are called back.
Report_ErrorsOnly ==
  /\ waiting = 0
  /\ J!PostCallback(job)
  /\ IF outcome[job] = "success" THEN UNCHANGED lvars
     ELSE told' = outcome[job] /\ L!Send(L!Final)

\* The callback carries the container's outcome.
Report ==
  /\ waiting = 0
  /\ J!PostCallback(job)
  /\ told' = outcome[job]
  /\ L!Send(L!Final)

ContainerStep == Work \/ Open \/ FirstEdit \/ Report

AgentStep ==
  /\ \/ J!RecordJob(job) \/ J!ToolStep(job) \/ J!AgentCrash \/ J!IdleShutdown
  /\ UNCHANGED lvars

\* Mutant: the daemon waits for the callback, not for the row.
DaemonStep_WaitsForCallback ==
  J!PollStep(job) /\ callback[job] = "sent" /\ UNCHANGED lvars

DaemonStep == J!PollStep(job) /\ UNCHANGED lvars

HandlerStep(k) == L!Handle(k) /\ UNCHANGED jvars

TimeoutStep == L!GiveUpWaiting /\ UNCHANGED jvars

KillStep == J!ContainerStopped(job) /\ UNCHANGED lvars

SystemNext ==
  \/ ContainerStep
  \/ AgentStep
  \/ DaemonStep
  \/ TimeoutStep
  \/ KillStep
  \/ \E k \in L!Post : HandlerStep(k)

SystemSpec == SystemInit /\ [][SystemNext]_svars

\* Processes and handlers that run go on; nobody has to ask for the job.
SystemFairSpec ==
  /\ SystemSpec
  /\ WF_svars(J!ToolStep(job) /\ UNCHANGED lvars)
  /\ WF_svars(DaemonStep)
  /\ WF_svars(ContainerStep)
  /\ \A k \in L!Post : WF_svars(HandlerStep(k))

-----------------------------------------------------------------------------
(***************************************************************************)
(* Properties.                                                             *)
(***************************************************************************)

\* The whole is made of its parts: the job alone behaves as SandboxJob says and
\* the tracker alone as ProgressTracker says, so what was shown of each holds here.
PartsBehave == J!Spec /\ L!TrackerSpec

\* The Slack thread shows the end of a job.
ShownInThread == \E m \in L!Post : thread[m] = L!Final

\* A thread that shows a success has a pull request behind it and, as long as the
\* row can be written and the agent has not given the launch up, a row that
\* ended before the user could read of it.
ThreadSuccessIsReal ==
  ShownInThread /\ told = "success"
    => /\ prOpen[job]
       /\ ("ddb" \notin jhappened /\ reply[job] # "not_opened")
            => row[job].status \in {"success", "orphaned"}

\* Once a pull request is open, its thread comes to show that the job ended,
\* unless the container was stopped, the callback was lost or a call of the bridge
\* or of Slack failed: however late the answers are, and however old the row that
\* a handler reads.
OpenPRIsShown ==
  (prOpen[job] /\ callback[job] = "none")
    ~> \/ ShownInThread
       \/ jhappened \cap {"kill", "net"} # {}
       \/ ~ (lhappened \subseteq {"timeout", "stale"})

\* Unless DynamoDB failed or Fargate stopped the container, the row of a
\* recorded job settles for good, although tool, poller and container all
\* write it with no order between them, or the agent died before handing the
\* job over.
RowSettles ==
  (tool[job] = "recorded")
    ~> [](\/ row[job].status \in J!Verdicts
          \/ tool[job] = "dead"
          \/ jhappened \cap {"ddb", "kill"} # {})

\* Nothing the bridge, Slack or the container do keeps the agent busy.
BridgeCannotPin == (job \in inflight) ~> (job \notin inflight \/ reply[job] = "raised")
=============================================================================
