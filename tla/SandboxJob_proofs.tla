-------------------------- MODULE SandboxJob_proofs --------------------------
(***************************************************************************)
(* Theorems about SandboxJob, for every set of tasks, thresholds, costs,   *)
(* kinds and numbers of faults.                                            *)
(***************************************************************************)
EXTENDS SandboxJob, FiniteSetTheorems, TLAPS

FaultsTyped == nfaults \in 0 .. MaxFaults /\ happened \subseteq Faults

\* A step that may fault keeps the record of faults well formed.
LEMMA FaultType ==
  ASSUME TypeOK,
         NoFault \/ \E kind \in FaultKinds : Fault(kind)
  PROVE  FaultsTyped'
BY SandboxAssumption DEF TypeOK, NoFault, Fault, faultVars, FaultsTyped

\* Whatever becomes of a write, the row is a row and the faults are counted.
LEMMA RowWriteType ==
  ASSUME TypeOK, NEW t \in Task, NEW new \in Row, NEW seen,
         RowWrite(t, new, seen)
  PROVE  /\ row' \in [Task -> Row]
         /\ FaultsTyped'
BY SandboxAssumption DEF TypeOK, RowWrite, NoFault, Fault, faultVars, FaultsTyped, Row

\* The rows the code writes are rows.
LEMMA WithStatusType ==
  ASSUME TypeOK, NEW t \in Task, NEW s \in RowStatus
  PROVE  WithStatus(t, s) \in Row
BY DEF TypeOK, WithStatus, Row

-----------------------------------------------------------------------------
\* What the end of a job's loop charges: the row's cost, not at all if the update
\* failed, several times if it was sent again.
LEMMA ChargeEffect ==
  ASSUME TypeOK, NEW t \in Task, PollTerminal(t)
  PROVE  \E n \in Nat :
           /\ n * row[t].cost \in Nat /\ row[t].cost \in Nat
           /\ charged' = [charged EXCEPT ![t] = @ + n * row[t].cost]
           /\ n = 0 => "ddb" \in happened'
           /\ n > 1 => "again" \in happened' /\ n - 1 \in 1 .. Resends
<1>1. row[t].cost \in Nat /\ charged[t] \in Nat /\ charged \in [Task -> Nat]
  BY DEF TypeOK, Row
<1>2. \A n \in Nat : n * row[t].cost \in Nat
  BY <1>1
<1>3. CASE Charge(t, 1) /\ NoFault
  <2> WITNESS 1 \in Nat
  <2> QED
    BY <1>1, <1>2, <1>3 DEF Charge
<1>4. CASE UNCHANGED charged /\ Fault("ddb")
  <2>1. charged' = [charged EXCEPT ![t] = @ + 0 * row[t].cost]
    BY <1>1, <1>4
  <2>2. "ddb" \in happened' /\ ~(0 > 1)
    BY <1>4 DEF Fault
  <2> WITNESS 0 \in Nat
  <2> QED
    BY <1>1, <1>2, <2>1, <2>2
<1>5. CASE (\E n \in 1 .. Resends : Charge(t, 1 + n)) /\ Fault("again")
  <2>1. PICK n \in 1 .. Resends : Charge(t, 1 + n)
    BY <1>5
  <2>2. 1 + n \in Nat /\ (1 + n) - 1 \in 1 .. Resends /\ 1 + n # 0
    BY <2>1, SandboxAssumption
  <2>3. charged' = [charged EXCEPT ![t] = @ + (1 + n) * row[t].cost]
    BY <2>1 DEF Charge
  <2>4. "again" \in happened'
    BY <1>5 DEF Fault
  <2> WITNESS 1 + n \in Nat
  <2> QED
    BY <1>1, <1>2, <2>2, <2>3, <2>4
<1> QED
  BY <1>3, <1>4, <1>5 DEF PollTerminal

\* TypeOK alone is not inductive: an audit row must have a known status, so the
\* daemon must have a verdict from the moment it leaves its loop.
VerdictKnown ==
  \A t \in Task : poll[t] \in {"expired", "auditing", "clearing"}
                  => verdict[t] \in Verdicts

TInv == TypeOK /\ VerdictKnown

LEMMA TypeStep == TInv /\ [Next]_vars => TInv'
<1> SUFFICES ASSUME TInv, [Next]_vars PROVE TInv'
  OBVIOUS
<1> USE SandboxAssumption
<1> USE DEF TInv, VerdictKnown, ToolStates, Replies, PollStates, PollLive, SandboxStates, Working,
            RowStatus, Verdicts, Terminal, agentVars, sandboxVars, faultVars, FaultsTyped
<1>1. ASSUME NEW t \in Task, RecordJob(t) PROVE TInv'
  <2>1. WithStatus(t, "pending") \in Row
    BY WithStatusType
  <2>2. row' \in [Task -> Row] /\ FaultsTyped'
    BY <1>1, <2>1, RowWriteType DEF RecordJob
  <2> QED
    BY <1>1, <2>2 DEF RecordJob, Return, Register, Unregister, Goto, TypeOK
<1>2. ASSUME NEW t \in Task, RegisterJob(t) PROVE TInv'
  BY <1>2 DEF RegisterJob, NoFault, Fault, faultVars, Return, Register, Unregister, GiveUp, Goto, TypeOK
<1>3. ASSUME NEW t \in Task, FailRegistration(t) PROVE TInv'
  <2>1. WithStatus(t, "error") \in Row
    BY WithStatusType
  <2>2. row' \in [Task -> Row] /\ FaultsTyped'
    BY <1>3, <2>1, RowWriteType DEF RowWriteLogged, FailRegistration
  <2> QED
    BY <1>3, <2>2 DEF FailRegistration, Return, Register, Unregister, Goto, TypeOK
<1>4. ASSUME NEW t \in Task, LaunchSandbox(t) PROVE TInv'
  BY <1>4 DEF LaunchSandbox, NoFault, Fault, faultVars, Return, Register, Unregister, GiveUp, Goto, TypeOK
<1>5. ASSUME NEW t \in Task, FailLaunch(t) PROVE TInv'
  <2>1. WithStatus(t, "error") \in Row
    BY WithStatusType
  <2>2. row' \in [Task -> Row] /\ FaultsTyped'
    BY <1>5, <2>1, RowWriteType DEF RowWriteLogged, FailLaunch
  <2> QED
    BY <1>5, <2>2 DEF FailLaunch, Return, Register, Unregister, Goto, TypeOK
<1>6. ASSUME NEW t \in Task, StartPoller(t) PROVE TInv'
  BY <1>6 DEF StartPoller, NoFault, Fault, faultVars, Return, Register, Unregister, GiveUp, Goto, TypeOK
<1>7. ASSUME NEW t \in Task, StartBackground(t) PROVE TInv'
  BY <1>7 DEF StartBackground, NoFault, Fault, faultVars, Return, Register, Unregister, GiveUp, Goto, TypeOK
<1>8. ASSUME NEW t \in Task, EndBackground(t) PROVE TInv'
  BY <1>8 DEF EndBackground, NoFault, Fault, faultVars, Return, Register, Unregister, GiveUp, Goto, TypeOK
<1>9. ASSUME NEW t \in Task, PollTerminal(t) PROVE TInv'
  <2>1. row[t].status \in RowStatus
    BY DEF TypeOK, Row
  <2>2. charged' \in [Task -> Nat]
    BY <1>9, ChargeEffect DEF TypeOK
  <2>3. FaultsTyped'
    BY <1>9 DEF PollTerminal, NoFault, Fault, TypeOK
  <2>4. /\ UNCHANGED <<tool, reply, inflight, audit, row, sandbox, outcome, prOpen, spent, callback>>
        /\ poll[t] = "polling" /\ row[t].status \in Terminal
        /\ poll' = [poll EXCEPT ![t] = "auditing"]
        /\ verdict' = [verdict EXCEPT ![t] = row[t].status]
    BY <1>9 DEF PollTerminal
  <2> QED
    BY <2>1, <2>2, <2>3, <2>4 DEF TypeOK
<1>10. ASSUME NEW t \in Task, PollDeadline(t) PROVE TInv'
  BY <1>10 DEF PollDeadline, NoFault, Fault, faultVars, Return, Register, Unregister, GiveUp, Goto, TypeOK
<1>11. ASSUME NEW t \in Task, MarkOrphaned(t) PROVE TInv'
  <2>1. WithStatus(t, "orphaned") \in Row
    BY WithStatusType
  <2>2. row' \in [Task -> Row] /\ FaultsTyped'
    BY <1>11, <2>1, RowWriteType DEF RowWriteLogged, MarkOrphaned
  <2>3. poll[t] = "expired" /\ poll' = [poll EXCEPT ![t] = "auditing"]
    BY <1>11 DEF MarkOrphaned
  <2>4. UNCHANGED <<tool, reply, inflight, verdict, charged, audit, sandboxVars>>
    BY <1>11 DEF MarkOrphaned
  <2>5. poll' \in [Task -> PollStates]
    BY <2>3 DEF TypeOK
  <2>6. TypeOK'
    BY <2>2, <2>4, <2>5 DEF TypeOK
  <2>7. VerdictKnown'
    BY <2>3, <2>4 DEF TypeOK
  <2> QED BY <2>6, <2>7
<1>12. ASSUME NEW t \in Task, AuditCompletion(t) PROVE TInv'
  BY <1>12 DEF AuditCompletion, NoFault, Fault, faultVars, Return, Register, Unregister, GiveUp, Goto, TypeOK
<1>13. ASSUME NEW t \in Task, ClearHeartbeat(t) PROVE TInv'
  BY <1>13 DEF ClearHeartbeat, NoFault, Fault, faultVars, Return, Register, Unregister, GiveUp, Goto, TypeOK
<1>14. ASSUME NEW t \in Task, ReadJob(t) PROVE TInv'
  BY <1>14 DEF ReadJob, NoFault, Fault, faultVars, Return, Register, Unregister, GiveUp, Goto, TypeOK
<1>15. ASSUME NEW t \in Task, MarkRunning(t) PROVE TInv'
  <2>1. WithStatus(t, "running") \in Row
    BY WithStatusType
  <2>2. row' \in [Task -> Row] /\ FaultsTyped'
    BY <1>15, <2>1, RowWriteType DEF RowWriteLogged, MarkRunning
  <2> QED
    BY <1>15, <2>2 DEF MarkRunning, Return, Register, Unregister, Goto, TypeOK
<1>16. ASSUME NEW t \in Task, CloneRepo(t) PROVE TInv'
  BY <1>16 DEF CloneRepo, NoFault, Fault, faultVars, Return, Register, Unregister, GiveUp, Goto, TypeOK
<1>17. ASSUME NEW t \in Task, RunAgentLoop(t) PROVE TInv'
  BY <1>17 DEF RunAgentLoop, NoFault, Fault, faultVars, Return, Register, Unregister, GiveUp, Goto, TypeOK
<1>18. ASSUME NEW t \in Task, WriteCost(t) PROVE TInv'
  <2>1. [row[t] EXCEPT !.cost = spent[t]] \in Row
    <3>1. row[t] \in Row /\ spent[t] \in Nat
      BY DEF TypeOK
    <3> QED
      BY <3>1 DEF Row
  <2>2. row' \in [Task -> Row] /\ FaultsTyped'
    BY <1>18, <2>1, RowWriteType DEF WriteCost, RowWriteLogged
  <2> QED
    BY <1>18, <2>2 DEF WriteCost, GiveUp, Goto, TypeOK
<1>19. ASSUME NEW t \in Task, PushBranch(t) PROVE TInv'
  BY <1>19 DEF PushBranch, NoFault, Fault, faultVars, Return, Register, Unregister, GiveUp, Goto, TypeOK
<1>20. ASSUME NEW t \in Task, OpenPullRequest(t) PROVE TInv'
  <2>1. prOpen' \in [Task -> BOOLEAN]
    BY <1>20 DEF OpenPullRequest, TypeOK
  <2>2. FaultsTyped'
    BY <1>20 DEF OpenPullRequest, NoFault, Fault, faultVars, TypeOK
  <2> QED
    BY <1>20, <2>1, <2>2 DEF OpenPullRequest, GiveUp, Goto, TypeOK
<1>21. ASSUME NEW t \in Task, WriteOutcome(t) PROVE TInv'
  <2>1. [row[t] EXCEPT !.status = outcome[t], !.pr = @ \/ outcome[t] = "success"] \in Row
    <3>1. row[t] \in Row /\ outcome[t] \in RowStatus
      BY DEF TypeOK
    <3> DEFINE pr == row[t].pr \/ outcome[t] = "success"
    <3>2. pr \in BOOLEAN
      OBVIOUS
    <3> HIDE DEF pr
    <3>3. [row[t] EXCEPT !.status = outcome[t], !.pr = pr] \in Row
      BY <3>1, <3>2 DEF Row
    <3> QED
      BY <3>3 DEF pr
  <2>2. row' \in [Task -> Row] /\ FaultsTyped'
    BY <1>21, <2>1, RowWriteType DEF WriteOutcome, RowWriteLogged
  <2> QED
    BY <1>21, <2>2 DEF WriteOutcome, GiveUp, Goto, TypeOK
<1>22. ASSUME NEW t \in Task, PostCallback(t) PROVE TInv'
  BY <1>22 DEF PostCallback, NoFault, Fault, faultVars, Return, Register, Unregister, GiveUp, Goto, TypeOK
<1>23. ASSUME NEW t \in Task, ContainerStopped(t) PROVE TInv'
  BY <1>23 DEF ContainerStopped, NoFault, Fault, faultVars, Return, Register, Unregister, GiveUp, Goto, TypeOK
<1>24. ASSUME ProcessGone, FaultsTyped' PROVE TInv'
  BY <1>24 DEF ProcessGone, TypeOK
<1>25. CASE AgentCrash
  BY <1>25, <1>24 DEF AgentCrash, Fault, TypeOK
<1>26. CASE IdleShutdown
  BY <1>26, <1>24 DEF IdleShutdown, NoFault, TypeOK
<1>27. CASE UNCHANGED vars
  BY <1>27 DEF vars, TypeOK
<1> QED
  BY <1>1, <1>2, <1>3, <1>4, <1>5, <1>6, <1>7, <1>8, <1>9, <1>10, <1>11, <1>12, <1>13, <1>14, <1>15, <1>16, <1>17, <1>18, <1>19, <1>20, <1>21, <1>22, <1>23, <1>25, <1>26, <1>27 DEF Next, ToolStep, PollStep, SandboxStep

LEMMA TypeInit == Init => TInv
BY SandboxAssumption DEF Init, TInv, TypeOK, VerdictKnown, Row, ToolStates, Replies,
                         PollStates, RowStatus, SandboxStates

\* The specification keeps its types, for every value of the constants.
THEOREM TypeCorrect == Spec => []TypeOK
<1>1. TInv => TypeOK
  BY DEF TInv
<1> QED
  BY <1>1, TypeInit, TypeStep, PTL DEF Spec

-----------------------------------------------------------------------------
(***************************************************************************)
(* The heartbeat.  That every owner is counted and every count has an      *)
(* owner is preserved because a job has a daemon, or an answer for the     *)
(* model, only once its tool call is over.                                 *)
(***************************************************************************)
HandedOver ==
  \A t \in Task : poll[t] # "none" \/ reply[t] # "none" => tool[t] = "returned"

HInv == TypeOK /\ HandedOver /\ HeartbeatOwned

LEMMA HeartbeatInit == Init => HandedOver /\ HeartbeatOwned
BY DEF Init, HandedOver, HeartbeatOwned, Owned, PollLive

LEMMA HeartbeatStep == HInv /\ [Next]_vars => HandedOver' /\ HeartbeatOwned'
<1> SUFFICES ASSUME HInv, [Next]_vars PROVE HandedOver' /\ HeartbeatOwned'
  OBVIOUS
<1> USE DEF HInv, TypeOK, HandedOver, HeartbeatOwned, Owned, PollLive
<1> DEFINE Goal == HandedOver' /\ HeartbeatOwned'
<1>0. ASSUME UNCHANGED <<tool, reply, inflight, poll>> PROVE Goal
  BY <1>0
<1>1. ASSUME NEW t \in Task, RecordJob(t) PROVE Goal
  BY <1>1 DEF RecordJob, Return, Register, Unregister
<1>2. ASSUME NEW t \in Task, RegisterJob(t) PROVE Goal
  BY <1>2 DEF RegisterJob, Return, Register, Unregister
<1>3. ASSUME NEW t \in Task, FailRegistration(t) PROVE Goal
  BY <1>3 DEF FailRegistration, Return, Register, Unregister
<1>4. ASSUME NEW t \in Task, LaunchSandbox(t) PROVE Goal
  BY <1>4 DEF LaunchSandbox, Return, Register, Unregister
<1>5. ASSUME NEW t \in Task, FailLaunch(t) PROVE Goal
  BY <1>5 DEF FailLaunch, Return, Register, Unregister
<1>6. ASSUME NEW t \in Task, StartPoller(t) PROVE Goal
  BY <1>6 DEF StartPoller, Return, Register, Unregister
<1>7. ASSUME NEW t \in Task, StartBackground(t) PROVE Goal
  BY <1>7 DEF StartBackground, Return, Register, Unregister
<1>8. ASSUME NEW t \in Task, EndBackground(t) PROVE Goal
  BY <1>8 DEF EndBackground, Return, Register, Unregister
<1>9. ASSUME NEW t \in Task, PollTerminal(t) PROVE Goal
  BY <1>9 DEF PollTerminal, Return, Register, Unregister
<1>10. ASSUME NEW t \in Task, PollDeadline(t) PROVE Goal
  BY <1>10 DEF PollDeadline, Return, Register, Unregister
<1>11. ASSUME NEW t \in Task, MarkOrphaned(t) PROVE Goal
  BY <1>11 DEF MarkOrphaned, Return, Register, Unregister
<1>12. ASSUME NEW t \in Task, AuditCompletion(t) PROVE Goal
  BY <1>12 DEF AuditCompletion, Return, Register, Unregister
<1>13. ASSUME NEW t \in Task, ClearHeartbeat(t) PROVE Goal
  BY <1>13 DEF ClearHeartbeat, Return, Register, Unregister
<1>14. ASSUME NEW t \in Task, SandboxStep(t) \/ ContainerStopped(t) PROVE Goal
  BY <1>0, <1>14 DEF SandboxStep, ContainerStopped, ReadJob, MarkRunning, CloneRepo,
     RunAgentLoop, WriteCost, PushBranch, OpenPullRequest, WriteOutcome, PostCallback,
     agentVars
<1>15. ASSUME ProcessGone PROVE Goal
  BY <1>15 DEF ProcessGone
<1> QED
  BY <1>0, <1>1, <1>2, <1>3, <1>4, <1>5, <1>6, <1>7, <1>8, <1>9, <1>10, <1>11, <1>12,
     <1>13, <1>14, <1>15
  DEF Next, ToolStep, PollStep, AgentCrash, IdleShutdown, vars, agentVars

LEMMA HeartbeatInvariant == Spec => []HInv
<1>1. TypeOK /\ HandedOver /\ HeartbeatOwned <=> HInv
  BY DEF HInv
<1> QED
  BY <1>1, HeartbeatInit, HeartbeatStep, TypeCorrect, PTL DEF Spec

\* Every job that counts as busy has somebody alive who will release it, and
\* every owner is counted (register_task, complete_task and their callers).
THEOREM HeartbeatIsOwned == Spec => []HeartbeatOwned
<1>1. HInv => HeartbeatOwned
  BY DEF HInv
<1> QED
  BY <1>1, HeartbeatInvariant, PTL

-----------------------------------------------------------------------------
(***************************************************************************)
(* Idle shutdown.                                                          *)
(***************************************************************************)

\* One job with the default threshold is enough to report HEALTHY_BUSY.
LEMMA OneJobIsBusy ==
  ASSUME inflight \subseteq Task, NEW t \in inflight, Threshold[t] = 1
  PROVE  Busy
<1>1. IsFiniteSet(inflight)
  BY SandboxAssumption, FS_Subset
<1>2. Cardinality(inflight) \in Nat /\ Cardinality(inflight) # 0
  BY <1>1, FS_CardinalityType, FS_EmptySet
<1>3. Cardinality(inflight) >= Threshold[t]
  BY <1>2
<1> QED
  BY <1>3 DEF Busy

\* The record of faults only grows.
LEMMA FaultsRemembered ==
  ASSUME [Next]_vars
  PROVE  happened \subseteq happened'
<1> USE DEF NoFault, Fault, faultVars, RowWriteLogged, RowWrite
<1>1. ASSUME NEW t \in Task, ToolStep(t) \/ RecordJob(t) \/ StartBackground(t)
      PROVE  happened \subseteq happened'
  BY <1>1 DEF ToolStep, RecordJob, StartBackground, RegisterJob, FailRegistration,
     LaunchSandbox, FailLaunch, StartPoller
<1>2. ASSUME NEW t \in Task, PollStep(t) PROVE happened \subseteq happened'
  BY <1>2 DEF PollStep, EndBackground, PollTerminal, PollDeadline, MarkOrphaned,
     AuditCompletion, ClearHeartbeat
<1>3. ASSUME NEW t \in Task, SandboxStep(t) \/ ContainerStopped(t)
      PROVE  happened \subseteq happened'
  BY <1>3 DEF SandboxStep, ContainerStopped, ReadJob, MarkRunning, CloneRepo,
     RunAgentLoop, WriteCost, PushBranch, OpenPullRequest, WriteOutcome, PostCallback
<1> QED
  BY <1>1, <1>2, <1>3 DEF Next, AgentCrash, IdleShutdown, vars

LEMMA IdleShutdownStep ==
  HInv /\ IdleShutdownSafe /\ [Next]_vars => IdleShutdownSafe'
<1> SUFFICES ASSUME HInv, IdleShutdownSafe, [Next]_vars, "crash" \notin happened',
                    NEW t \in Task, Threshold[t] = 1
             PROVE  poll'[t] # "dead"
  BY DEF IdleShutdownSafe
<1> USE DEF HInv, TypeOK, IdleShutdownSafe
<1>1. poll[t] # "dead"
  BY FaultsRemembered
<1>2. CASE IdleShutdown
  <2>1. t \notin inflight
    BY <1>2, OneJobIsBusy DEF IdleShutdown
  <2>2. poll[t] \notin PollLive
    BY <2>1 DEF HeartbeatOwned, Owned
  <2> QED
    BY <1>1, <1>2, <2>2 DEF IdleShutdown, ProcessGone
<1>3. CASE AgentCrash
  BY <1>3 DEF AgentCrash, Fault
<1>4. ASSUME NEW u \in Task, ToolStep(u) \/ RecordJob(u) \/ StartBackground(u)
      PROVE  poll'[t] # "dead"
  BY <1>1, <1>4 DEF ToolStep, RecordJob, StartBackground, RegisterJob,
     FailRegistration, LaunchSandbox, FailLaunch, StartPoller
<1>5. ASSUME NEW u \in Task, PollStep(u) PROVE poll'[t] # "dead"
  BY <1>1, <1>5 DEF PollStep, EndBackground, PollTerminal, PollDeadline, MarkOrphaned,
     AuditCompletion, ClearHeartbeat
<1>6. ASSUME NEW u \in Task, SandboxStep(u) \/ ContainerStopped(u)
      PROVE  poll'[t] # "dead"
  BY <1>1, <1>6 DEF SandboxStep, ContainerStopped, ReadJob, MarkRunning, CloneRepo,
     RunAgentLoop, WriteCost, PushBranch, OpenPullRequest, WriteOutcome, PostCallback,
     agentVars
<1> QED
  BY <1>1, <1>2, <1>3, <1>4, <1>5, <1>6 DEF Next, vars, agentVars

\* No idle shutdown stops the daemon of a job with the default threshold,
\* whatever the other jobs and their thresholds (custom_ping).
THEOREM IdleShutdownIsSafe == Spec => []IdleShutdownSafe
<1>1. Init => IdleShutdownSafe
  BY DEF Init, IdleShutdownSafe
<1> QED
  BY <1>1, HeartbeatInvariant, IdleShutdownStep, PTL DEF Spec

-----------------------------------------------------------------------------
(***************************************************************************)
(* Success.                                                                *)
(***************************************************************************)
LEMMA RowWriteEffect ==
  ASSUME TypeOK, NEW t \in Task, NEW new, NEW seen, RowWrite(t, new, seen)
  PROVE  /\ \A u \in Task : u # t => row'[u] = row[u]
         /\ row'[t] \in {row[t], new}
BY DEF RowWrite, TypeOK

LEMMA WithStatusEffect ==
  ASSUME TypeOK, NEW t \in Task, NEW s
  PROVE  /\ WithStatus(t, s).status = s
         /\ WithStatus(t, s).pr = row[t].pr
         /\ WithStatus(t, s).cost = row[t].cost
BY DEF WithStatus, TypeOK, Row

LEMMA SuccessStep == TypeOK /\ SuccessBacked /\ [Next]_vars => SuccessBacked'
<1> SUFFICES ASSUME TypeOK, SuccessBacked, [Next]_vars PROVE SuccessBacked'
  OBVIOUS
<1> USE DEF SuccessBacked
<1>0. ASSUME UNCHANGED <<row, verdict, outcome, audit, prOpen>> PROVE SuccessBacked'
  BY <1>0
\* Writes of a status that is not a success.
<1>1. ASSUME NEW t \in Task, NEW s \in {"pending", "error", "running", "orphaned"},
             NEW seen, RowWrite(t, WithStatus(t, s), seen),
             UNCHANGED <<verdict, outcome, audit, prOpen>>
      PROVE  SuccessBacked'
  BY <1>1, RowWriteEffect, WithStatusEffect
<1>2. ASSUME NEW t \in Task,
             RecordJob(t) \/ FailRegistration(t) \/ FailLaunch(t) \/ MarkOrphaned(t) \/ MarkRunning(t)
      PROVE  SuccessBacked'
  BY <1>1, <1>2 DEF RecordJob, FailRegistration, FailLaunch, MarkOrphaned, MarkRunning,
     RowWriteLogged, sandboxVars, agentVars
<1>3. ASSUME NEW t \in Task,
             \/ RegisterJob(t) \/ LaunchSandbox(t) \/ StartBackground(t)
             \/ EndBackground(t) \/ ClearHeartbeat(t) \/ ReadJob(t) \/ PostCallback(t)
             \/ ContainerStopped(t)
      PROVE  SuccessBacked'
  BY <1>0, <1>3 DEF RegisterJob, LaunchSandbox, StartBackground, EndBackground,
     ClearHeartbeat, ReadJob, PostCallback, ContainerStopped, sandboxVars, agentVars
<1>4. ASSUME NEW t \in Task, StartPoller(t) PROVE SuccessBacked'
  BY <1>4 DEF StartPoller, sandboxVars, TypeOK
<1>5. ASSUME NEW t \in Task, PollTerminal(t) PROVE SuccessBacked'
  BY <1>5 DEF PollTerminal, sandboxVars, TypeOK
<1>6. ASSUME NEW t \in Task, PollDeadline(t) PROVE SuccessBacked'
  BY <1>6 DEF PollDeadline, sandboxVars, TypeOK
<1>7. ASSUME NEW t \in Task, AuditCompletion(t) PROVE SuccessBacked'
  BY <1>7 DEF AuditCompletion, sandboxVars, TypeOK
<1>8. ASSUME NEW t \in Task, CloneRepo(t) \/ RunAgentLoop(t) \/ PushBranch(t) PROVE SuccessBacked'
  BY <1>8 DEF CloneRepo, RunAgentLoop, PushBranch, GiveUp, Goto, agentVars, TypeOK
<1>9. ASSUME NEW t \in Task, WriteCost(t) PROVE SuccessBacked'
  <2>1. PICK seen \in {"ok", "error"} : RowWrite(t, [row[t] EXCEPT !.cost = spent[t]], seen)
    BY <1>9 DEF WriteCost, RowWriteLogged
  <2>2. row'[t].status = row[t].status /\ row'[t].pr = row[t].pr
    BY <2>1, RowWriteEffect DEF TypeOK, Row
  <2>3. \A u \in Task : u # t => row'[u] = row[u]
    BY <2>1, RowWriteEffect
  <2>4. outcome' = outcome \/ outcome' = [outcome EXCEPT ![t] = "error"]
    BY <1>9 DEF WriteCost, GiveUp
  <2> QED
    BY <1>9, <2>2, <2>3, <2>4 DEF WriteCost, agentVars, TypeOK
<1>10. ASSUME NEW t \in Task, OpenPullRequest(t) PROVE SuccessBacked'
  BY <1>10 DEF OpenPullRequest, GiveUp, Goto, agentVars, TypeOK
<1>11. ASSUME NEW t \in Task, WriteOutcome(t) PROVE SuccessBacked'
  <2> DEFINE new == [row[t] EXCEPT !.status = outcome[t], !.pr = @ \/ outcome[t] = "success"]
  <2>1. PICK seen \in {"ok", "error"} : RowWrite(t, new, seen)
    BY <1>11 DEF WriteOutcome, RowWriteLogged
  <2>2. new.status = outcome[t] /\ (new.pr <=> row[t].pr \/ outcome[t] = "success")
    BY DEF TypeOK, Row
  <2> HIDE DEF new
  <2>3. /\ \A u \in Task : u # t => row'[u] = row[u]
        /\ row'[t] \in {row[t], new}
    BY <2>1, RowWriteEffect
  <2> QED
    BY <1>11, <2>2, <2>3 DEF WriteOutcome, agentVars
<1>12. ASSUME ProcessGone PROVE SuccessBacked'
  BY <1>0, <1>12 DEF ProcessGone, sandboxVars
<1> QED
  BY <1>0, <1>2, <1>3, <1>4, <1>5, <1>6, <1>7, <1>8, <1>9, <1>10, <1>11, <1>12
  DEF Next, ToolStep, PollStep, SandboxStep, AgentCrash, IdleShutdown, vars, agentVars, sandboxVars

LEMMA SuccessInvariant == Spec => []SuccessBacked
<1>1. Init => SuccessBacked
  BY DEF Init, SuccessBacked
<1> QED
  BY <1>1, SuccessStep, TypeCorrect, PTL DEF Spec

-----------------------------------------------------------------------------
(***************************************************************************)
(* Launch.                                                                 *)
(***************************************************************************)
LaunchedByTool ==
  \A t \in Task :
    /\ tool[t] \in {"idle", "recorded", "regfail", "registered"} => sandbox[t] = "none"
    /\ tool[t] = "launched" => sandbox[t] # "none"

LInv == TypeOK /\ HandedOver /\ LaunchedByTool /\ ReplyMatchesLaunch

LEMMA LaunchStep == LInv /\ HInv /\ [Next]_vars => LaunchedByTool' /\ ReplyMatchesLaunch'
<1> DEFINE I == LaunchedByTool /\ ReplyMatchesLaunch
<1> SUFFICES ASSUME LInv, HInv, [Next]_vars PROVE I'
  OBVIOUS
<1> USE DEF LInv, TypeOK, HandedOver, LaunchedByTool, ReplyMatchesLaunch
<1>0. ASSUME UNCHANGED <<tool, reply>>,
             \A u \in Task : sandbox'[u] = sandbox[u] \/ (sandbox[u] # "none" /\ sandbox'[u] # "none")
      PROVE  I'
  BY <1>0
<1>1. ASSUME NEW t \in Task, RecordJob(t) PROVE I'
  BY <1>1 DEF RecordJob, Return, sandboxVars
<1>2. ASSUME NEW t \in Task, RegisterJob(t) PROVE I'
  BY <1>2 DEF RegisterJob, sandboxVars
<1>3. ASSUME NEW t \in Task, FailRegistration(t) PROVE I'
  BY <1>3 DEF FailRegistration, Return, sandboxVars
<1>4. ASSUME NEW t \in Task, LaunchSandbox(t) PROVE I'
  BY <1>4 DEF LaunchSandbox
<1>5. ASSUME NEW t \in Task, FailLaunch(t) PROVE I'
  BY <1>5 DEF FailLaunch, Return, sandboxVars
<1>6. ASSUME NEW t \in Task, StartPoller(t) PROVE I'
  BY <1>6 DEF StartPoller, Return, sandboxVars
<1>7. ASSUME NEW t \in Task, StartBackground(t) PROVE I'
  BY <1>7 DEF StartBackground, Return, sandboxVars
<1>8. ASSUME NEW t \in Task, PollStep(t) PROVE I'
  BY <1>0, <1>8 DEF PollStep, EndBackground, PollTerminal, PollDeadline, MarkOrphaned,
     AuditCompletion, ClearHeartbeat, sandboxVars
<1>9. ASSUME NEW t \in Task, SandboxStep(t) \/ ContainerStopped(t) PROVE I'
  <2>1. UNCHANGED <<tool, reply>>
    BY <1>9 DEF SandboxStep, ContainerStopped, ReadJob, MarkRunning, CloneRepo, RunAgentLoop,
       WriteCost, PushBranch, OpenPullRequest, WriteOutcome, PostCallback, agentVars
  <2>2. sandbox[t] # "none"
    BY <1>9 DEF SandboxStep, ContainerStopped, ReadJob, MarkRunning, CloneRepo, RunAgentLoop,
       WriteCost, PushBranch, OpenPullRequest, WriteOutcome, PostCallback, Working
  <2>3. \E x \in SandboxStates \ {"none"} : sandbox' = [sandbox EXCEPT ![t] = x]
    BY <1>9 DEF SandboxStep, ContainerStopped, ReadJob, MarkRunning, CloneRepo, RunAgentLoop,
       WriteCost, PushBranch, OpenPullRequest, WriteOutcome, PostCallback, GiveUp, Goto,
       SandboxStates, Working
  <2> QED
    BY <1>0, <2>1, <2>2, <2>3
<1>10. ASSUME ProcessGone PROVE I'
  BY <1>10 DEF ProcessGone, sandboxVars
<1> QED
  BY <1>0, <1>1, <1>2, <1>3, <1>4, <1>5, <1>6, <1>7, <1>8, <1>9, <1>10
  DEF Next, ToolStep, AgentCrash, IdleShutdown, vars, agentVars, sandboxVars

LEMMA LaunchInvariant == Spec => []LInv
<1>1. Init => LaunchedByTool /\ ReplyMatchesLaunch
  BY DEF Init, LaunchedByTool, ReplyMatchesLaunch
<1>2. TypeOK /\ HandedOver /\ LaunchedByTool /\ ReplyMatchesLaunch <=> LInv
  BY DEF LInv
<1>3. HInv => TypeOK /\ HandedOver
  BY DEF HInv
<1> QED
  BY <1>1, <1>2, <1>3, HeartbeatInvariant, LaunchStep, PTL DEF Spec

\* A refused job has no container, a queued one has (propose_pr).
THEOREM RepliesMatchLaunch == Spec => []ReplyMatchesLaunch
<1>1. LInv => ReplyMatchesLaunch
  BY DEF LInv
<1> QED
  BY <1>1, LaunchInvariant, PTL

-----------------------------------------------------------------------------
(***************************************************************************)
(* Spend.  What is charged is what the row says, and the row says nothing  *)
(* or all of it; the container cannot spend any more once its row ends.    *)
(***************************************************************************)
Early == {"none", "boot", "claimed", "cloning", "editing"}
Late  == {"calling", "exited", "dead"}

ChargedLate ==
  \A t \in Task : poll[t] \in {"none", "sleeping", "polling"}
                  => charged[t] = 0 /\ verdict[t] = "none"

NothingSpentYet ==
  \A t \in Task : sandbox[t] \in Early
                  => spent[t] = 0 /\ row[t].cost = 0 /\ charged[t] = 0

RowCostIsSpent == \A t \in Task : row[t].cost \in {0, spent[t]}

BillInv == LInv /\ ChargedLate /\ NothingSpentYet /\ RowCostIsSpent /\ ChargeBacked

\* What a write of a status leaves of the row.
LEMMA StatusWriteEffect ==
  ASSUME TypeOK, NEW t \in Task, NEW s, RowWriteLogged(t, WithStatus(t, s))
  PROVE  \A u \in Task : row'[u].cost = row[u].cost
BY RowWriteEffect, WithStatusEffect DEF RowWriteLogged

\* A bill stays fair as long as neither it nor what was spent changes.
LEMMA BilledKept ==
  ASSUME NEW t \in Task, Billed(t), [Next]_vars,
         charged'[t] = charged[t], spent'[t] = spent[t]
  PROVE  Billed(t)'
<1>1. happened \subseteq happened'
  BY FaultsRemembered
<1> QED
  BY <1>1 DEF Billed

LEMMA BillStep == BillInv /\ [Next]_vars => ChargedLate' /\ NothingSpentYet' /\ RowCostIsSpent' /\ ChargeBacked'
<1> DEFINE I == ChargedLate /\ NothingSpentYet /\ RowCostIsSpent /\ ChargeBacked
<1> SUFFICES ASSUME BillInv, [Next]_vars PROVE I'
  OBVIOUS
<1> USE DEF BillInv, LInv, HandedOver, LaunchedByTool, ChargedLate, NothingSpentYet, RowCostIsSpent, ChargeBacked, Early
<1>b. ASSUME NEW u \in Task, charged'[u] = charged[u], spent'[u] = spent[u] PROVE Billed(u)'
  BY <1>b, BilledKept
<1>0. ASSUME UNCHANGED <<poll, charged, verdict, spent>>,
             \A u \in Task : row'[u].cost = row[u].cost,
             \A u \in Task : sandbox'[u] = sandbox[u] \/ sandbox'[u] \notin Early \/ sandbox[u] \in Early
      PROVE  I'
  BY <1>0, <1>b
<1>1. ASSUME NEW t \in Task, RecordJob(t) PROVE I'
  <2>1. RowWriteLogged(t, WithStatus(t, "pending"))
    BY <1>1 DEF RecordJob, RowWriteLogged
  <2> QED
    BY <1>0, <1>1, <2>1, StatusWriteEffect DEF RecordJob, sandboxVars
<1>2. ASSUME NEW t \in Task, FailRegistration(t) \/ FailLaunch(t) \/ MarkRunning(t) PROVE I'
  <2>1. \A u \in Task : row'[u].cost = row[u].cost
    BY <1>2, StatusWriteEffect DEF FailRegistration, FailLaunch, MarkRunning
  <2> QED
    BY <1>0, <1>2, <2>1 DEF FailRegistration, FailLaunch, MarkRunning, Goto, sandboxVars,
       agentVars, TypeOK
<1>3. ASSUME NEW t \in Task,
             \/ RegisterJob(t) \/ LaunchSandbox(t) \/ ReadJob(t) \/ PostCallback(t)
             \/ PushBranch(t) \/ CloneRepo(t) \/ OpenPullRequest(t) \/ ContainerStopped(t)
      PROVE  I'
  <2>1. \A u \in Task : sandbox'[u] = sandbox[u] \/ sandbox'[u] \notin Early \/ sandbox[u] \in Early
    BY <1>3 DEF RegisterJob, LaunchSandbox, ReadJob, PostCallback, PushBranch, CloneRepo,
       OpenPullRequest, ContainerStopped, GiveUp, Goto, sandboxVars, TypeOK
  <2>2. UNCHANGED <<poll, charged, verdict, spent, row>>
    BY <1>3 DEF RegisterJob, LaunchSandbox, ReadJob, PostCallback, PushBranch, CloneRepo,
       OpenPullRequest, ContainerStopped, sandboxVars, agentVars
  <2> QED
    BY <1>0, <2>1, <2>2
<1>4. ASSUME NEW t \in Task,
             StartPoller(t) \/ StartBackground(t) \/ EndBackground(t) \/ AuditCompletion(t) \/ ClearHeartbeat(t)
      PROVE  I'
  <2>1. UNCHANGED <<row, charged, verdict, spent, sandbox>>
    BY <1>4 DEF StartPoller, StartBackground, EndBackground, AuditCompletion, ClearHeartbeat, sandboxVars
  <2>2. \A u \in Task : poll'[u] = poll[u] \/ poll[u] \in {"none", "sleeping", "polling"}
                        \/ poll'[u] \in {"clearing", "done"}
    BY <1>4 DEF StartPoller, StartBackground, EndBackground, AuditCompletion, ClearHeartbeat, TypeOK
  <2> QED
    BY <1>b, <2>1, <2>2
<1>5. ASSUME NEW t \in Task, PollTerminal(t) PROVE I'
  <2>1. /\ charged[t] = 0 /\ charged \in [Task -> Nat]
        /\ UNCHANGED <<row, spent, sandbox>>
        /\ poll'[t] = "auditing" /\ verdict'[t] \in Terminal
        /\ \A u \in Task \ {t} : poll'[u] = poll[u] /\ verdict'[u] = verdict[u]
    BY <1>5 DEF PollTerminal, sandboxVars, TypeOK
  <2>2. PICK n \in Nat :
           /\ n * row[t].cost \in Nat /\ row[t].cost \in Nat
           /\ charged' = [charged EXCEPT ![t] = @ + n * row[t].cost]
           /\ n > 1 => "again" \in happened' /\ n - 1 \in 1 .. Resends
    BY <1>5, ChargeEffect
  <2>3. charged'[t] = n * row[t].cost /\ \A u \in Task \ {t} : charged'[u] = charged[u]
    BY <2>1, <2>2
  <2>4. Billed(t)'
    <3>1. CASE row[t].cost = 0 \/ n = 0
      BY <2>1, <2>2, <2>3, <3>1 DEF Billed
    <3>2. CASE row[t].cost = spent[t] /\ n = 1
      BY <2>1, <2>2, <2>3, <3>2 DEF Billed
    <3>3. CASE row[t].cost = spent[t] /\ n > 1
      <4>1. "again" \in happened' /\ n - 1 \in 1 .. Resends /\ n = 1 + (n - 1)
        BY <2>2, <3>3
      <4>2. charged'[t] = (1 + (n - 1)) * spent'[t]
        BY <2>1, <2>3, <3>3, <4>1
      <4> QED
        BY <4>1, <4>2 DEF Billed
    <3> QED
      BY <2>2, <3>1, <3>2, <3>3
  <2>5. \A u \in Task : Billed(u)'
    BY <1>b, <2>1, <2>3, <2>4
  <2>6. sandbox[t] \in Early => charged'[t] = 0
    BY <2>2, <2>3
  <2> QED
    BY <2>1, <2>3, <2>5, <2>6
<1>6. ASSUME NEW t \in Task, PollDeadline(t) PROVE I'
  BY <1>6, <1>b DEF PollDeadline, sandboxVars, TypeOK
<1>7. ASSUME NEW t \in Task, MarkOrphaned(t) PROVE I'
  <2>1. \A u \in Task : row'[u].cost = row[u].cost
    BY <1>7, StatusWriteEffect DEF MarkOrphaned
  <2> QED
    BY <1>7, <1>b, <2>1 DEF MarkOrphaned, sandboxVars, TypeOK
<1>8. ASSUME NEW t \in Task, RunAgentLoop(t) PROVE I'
  <2>1. charged[t] = 0 /\ charged' = charged /\ \A u \in Task \ {t} : spent'[u] = spent[u]
    BY <1>8 DEF RunAgentLoop, agentVars, TypeOK
  <2>2. Billed(t)'
    BY <2>1 DEF Billed
  <2>3. \A u \in Task : Billed(u)'
    BY <1>b, <2>1, <2>2
  <2> QED
    BY <1>8, <2>3, SandboxAssumption DEF RunAgentLoop, GiveUp, Goto, agentVars, TypeOK
<1>9. ASSUME NEW t \in Task, WriteCost(t) PROVE I'
  <2>1. PICK seen \in {"ok", "error"} : RowWrite(t, [row[t] EXCEPT !.cost = spent[t]], seen)
    BY <1>9 DEF WriteCost, RowWriteLogged
  <2>2. /\ \A u \in Task : u # t => row'[u] = row[u]
        /\ row'[t].cost \in {row[t].cost, spent[t]}
    BY <2>1, RowWriteEffect DEF TypeOK, Row
  <2> QED
    BY <1>9, <1>b, <2>2 DEF WriteCost, GiveUp, Goto, agentVars, TypeOK
<1>10. ASSUME NEW t \in Task, WriteOutcome(t) PROVE I'
  <2> DEFINE new == [row[t] EXCEPT !.status = outcome[t], !.pr = @ \/ outcome[t] = "success"]
  <2>1. PICK seen \in {"ok", "error"} : RowWrite(t, new, seen)
    BY <1>10 DEF WriteOutcome, RowWriteLogged
  <2>2. new.cost = row[t].cost
    BY DEF TypeOK, Row
  <2> HIDE DEF new
  <2>3. \A u \in Task : row'[u].cost = row[u].cost
    BY <2>1, <2>2, RowWriteEffect
  <2> QED
    BY <1>0, <1>10, <2>3 DEF WriteOutcome, Goto, agentVars, TypeOK
<1>11. ASSUME ProcessGone PROVE I'
  BY <1>11, <1>b DEF ProcessGone, sandboxVars
<1> QED
  BY <1>0, <1>1, <1>2, <1>3, <1>4, <1>5, <1>6, <1>7, <1>8, <1>9, <1>10, <1>11
  DEF Next, ToolStep, PollStep, SandboxStep, AgentCrash, IdleShutdown, vars, agentVars, sandboxVars

LEMMA BillInit == Init => ChargedLate /\ NothingSpentYet /\ RowCostIsSpent /\ ChargeBacked
BY DEF Init, ChargedLate, NothingSpentYet, RowCostIsSpent, ChargeBacked, Billed

LEMMA BillInvariant == Spec => []BillInv
<1>1. LInv /\ ChargedLate /\ NothingSpentYet /\ RowCostIsSpent /\ ChargeBacked <=> BillInv
  BY DEF BillInv
<1> QED
  BY <1>1, BillInit, BillStep, LaunchInvariant, PTL DEF Spec

\* A job is charged nothing or what its agent loop spent, or that amount again for
\* every time boto3 re-sent the increment, and only if its poller saw it end
\* (_poll_sandbox_completion, record_spend).
THEOREM ChargesAreBacked == Spec => []ChargeBacked
<1>1. BillInv => ChargeBacked
  BY DEF BillInv
<1> QED
  BY <1>1, BillInvariant, PTL

-----------------------------------------------------------------------------
(***************************************************************************)
(* Refinement of JobContract.                                              *)
(***************************************************************************)

\* The daemon knows nothing of a job it does not have yet, and the most a
\* container spends is the job's price.
SpentWithinCost == \A t \in Task : spent[t] \in {0, Cost[t]}

LEMMA SpentInvariant == Spec => []SpentWithinCost
<1>1. Init => SpentWithinCost
  BY DEF Init, SpentWithinCost
<1>2. TypeOK /\ SpentWithinCost /\ [Next]_vars => SpentWithinCost'
  <2> SUFFICES ASSUME TypeOK, SpentWithinCost, [Next]_vars PROVE SpentWithinCost'
    OBVIOUS
  <2>1. ASSUME UNCHANGED spent PROVE SpentWithinCost'
    BY <2>1 DEF SpentWithinCost
  <2>2. ASSUME NEW t \in Task, RunAgentLoop(t) PROVE SpentWithinCost'
    BY <2>2 DEF RunAgentLoop, SpentWithinCost, TypeOK
  <2> QED
    BY <2>1, <2>2 DEF Next, ToolStep, PollStep, SandboxStep, RecordJob, RegisterJob,
       FailRegistration, LaunchSandbox, FailLaunch, StartPoller, StartBackground, EndBackground,
       PollTerminal, PollDeadline, MarkOrphaned, AuditCompletion, ClearHeartbeat, ReadJob,
       MarkRunning, CloneRepo, WriteCost, PushBranch, OpenPullRequest, WriteOutcome,
       PostCallback, ContainerStopped, AgentCrash, IdleShutdown, ProcessGone, sandboxVars, vars
<1> QED
  BY <1>1, <1>2, TypeCorrect, PTL DEF Spec

Result(t) == IF t \in inflight THEN "none" ELSE verdict[t]
Bill(t)   == IF t \in inflight THEN 0 ELSE charged[t]

CInv == HInv /\ BillInv /\ SpentWithinCost

\* A product grows with its factors.
LEMMA ProductGrows ==
  ASSUME NEW m \in Nat, NEW n \in Nat, NEW c \in Nat, m <= n
  PROVE  m * c \in Nat /\ n * c \in Nat /\ m * c <= n * c
<1>1. PICK d \in Nat : n = m + d
  <2> WITNESS n - m \in Nat
  <2> QED
    OBVIOUS
<1>2. n * c = m * c + d * c
  BY <1>1
<1>3. m * c \in Nat /\ d * c \in Nat
  OBVIOUS
<1> QED
  BY <1>2, <1>3

\* The facts the mapping needs of a job, from all the invariants.
LEMMA ContractFacts ==
  ASSUME CInv, NEW t \in Task
  PROVE  /\ verdict[t] \in Contract!Results
         /\ charged[t] \in Nat /\ Cost[t] \in Nat
         /\ Contract!Most(t) \in Nat /\ charged[t] <= Contract!Most(t)
         /\ Contract!FairBill(verdict[t], charged[t])
         /\ tool[t] # "returned" => charged[t] = 0 /\ verdict[t] = "none" /\ reply[t] = "none"
         /\ poll[t] \in PollLive => t \in inflight /\ tool[t] = "returned"
         /\ tool[t] \in {"registered", "launched", "launchfail"} => t \in inflight
         /\ tool[t] \in {"idle", "recorded", "regfail", "dead"} => t \notin inflight
<1> USE SandboxAssumption DEF CInv, HInv, BillInv, LInv, TypeOK
<1>1. verdict[t] \in Contract!Results /\ charged[t] \in Nat /\ Cost[t] \in Nat
  BY DEF Contract!Results, Contract!Billable, Verdicts
<1>2. Contract!Most(t) \in Nat /\ charged[t] <= Contract!Most(t)
  <2>1. Resends \in Nat /\ spent[t] \in {0, Cost[t]} /\ Billed(t)
    BY DEF ChargeBacked, SpentWithinCost
  <2>2. Cost[t] <= (1 + Resends) * Cost[t] /\ (1 + Resends) * Cost[t] \in Nat
    <3>1. 1 + Resends \in Nat /\ 1 <= 1 + Resends
      BY <2>1
    <3>2. 1 * Cost[t] = Cost[t]
      BY <1>1
    <3> QED
      BY <1>1, <3>1, <3>2, ProductGrows
  <2>3. CASE charged[t] \in {0, spent[t]}
    BY <1>1, <2>1, <2>2, <2>3 DEF Contract!Most
  <2>4. CASE "again" \in happened /\ \E n \in 1 .. Resends : charged[t] = (1 + n) * spent[t]
    <3>1. PICK n \in 1 .. Resends : charged[t] = (1 + n) * spent[t]
      BY <2>4
    <3>2. 1 + n \in Nat /\ 1 + Resends \in Nat /\ 1 + n <= 1 + Resends
      BY <2>1, <3>1
    <3>3. (1 + n) * Cost[t] <= (1 + Resends) * Cost[t]
      BY <1>1, <3>2, ProductGrows
    <3>4. charged[t] <= (1 + Resends) * Cost[t]
      <4>1. CASE spent[t] = 0
        BY <1>1, <2>2, <3>1, <3>2, <4>1
      <4>2. CASE spent[t] = Cost[t]
        BY <3>1, <3>3, <4>2
      <4> QED
        BY <2>1, <4>1, <4>2
    <3> QED
      BY <2>2, <2>4, <3>4 DEF Contract!Most
  <2> QED
    BY <2>1, <2>3, <2>4 DEF Billed
<1>3. Contract!FairBill(verdict[t], charged[t])
  BY DEF ChargeBacked, Contract!FairBill, Contract!Billable, Terminal
<1>4. tool[t] # "returned" => charged[t] = 0 /\ verdict[t] = "none" /\ reply[t] = "none"
  BY DEF HandedOver, ChargedLate
<1>5. poll[t] \in PollLive => t \in inflight /\ tool[t] = "returned"
  BY DEF HeartbeatOwned, Owned, HandedOver, PollLive
<1>6. tool[t] \in {"registered", "launched", "launchfail"} => t \in inflight
  BY DEF HeartbeatOwned, Owned
<1>7. tool[t] \in {"idle", "recorded", "regfail", "dead"} => t \notin inflight
  BY DEF HeartbeatOwned, Owned, HandedOver, PollLive
<1> QED
  BY <1>1, <1>2, <1>3, <1>4, <1>5, <1>6, <1>7

\* What the contract sees of job t.
Seen(t) == <<Stage(t), Result(t), Bill(t)>>

\* A job the contract sees move as it allows, while it sees no other move.
Moves(t) ==
  \/ Seen(t)' = Seen(t)
  \/ /\ Stage(t) = "new" /\ Stage(t)' \in {"tracked", "closed"}
     /\ Result(t)' = Result(t) /\ Bill(t)' = Bill(t)
  \/ /\ Stage(t) = "tracked" /\ Stage(t)' = "closed"
     /\ Result(t)' \in Contract!Results /\ Bill(t)' \in 0 .. Contract!Most(t)
     /\ Contract!FairBill(Result(t)', Bill(t)')

\* No increment was sent again just now.
SameDoubt == "again" \in happened' <=> "again" \in happened

\* Only the increment of a job's end is sent again with an effect.
LEMMA OnlyPollerResends ==
  ASSUME [Next]_vars, \A t \in Task : ~PollTerminal(t)
  PROVE  SameDoubt
<1> USE DEF SameDoubt, NoFault, Fault, faultVars, RowWriteLogged, RowWrite
<1>1. ASSUME NEW t \in Task, ToolStep(t) \/ RecordJob(t) \/ StartBackground(t)
      PROVE  SameDoubt
  BY <1>1 DEF ToolStep, RecordJob, StartBackground, RegisterJob, FailRegistration,
     LaunchSandbox, FailLaunch, StartPoller
<1>2. ASSUME NEW t \in Task, PollStep(t) PROVE SameDoubt
  BY <1>2 DEF PollStep, EndBackground, PollDeadline, MarkOrphaned, AuditCompletion, ClearHeartbeat
<1>3. ASSUME NEW t \in Task, SandboxStep(t) \/ ContainerStopped(t)
      PROVE  SameDoubt
  BY <1>3 DEF SandboxStep, ContainerStopped, ReadJob, MarkRunning, CloneRepo,
     RunAgentLoop, WriteCost, PushBranch, OpenPullRequest, WriteOutcome, PostCallback
<1> QED
  BY <1>1, <1>2, <1>3 DEF Next, AgentCrash, IdleShutdown, vars

LEMMA MoveIsContractStep ==
  ASSUME NEW t \in Task, Moves(t), SameDoubt,
         \A u \in Task \ {t} : Seen(u)' = Seen(u)
  PROVE  [Contract!CNext]_(Contract!cvars)
<1> DEFINE stage  == [u \in Task |-> Stage(u)]
           result == [u \in Task |-> Result(u)]
           bill   == [u \in Task |-> Bill(u)]
<1>1. \A u \in Task \ {t} : /\ Stage(u)' = Stage(u)
                            /\ Result(u)' = Result(u)
                            /\ Bill(u)' = Bill(u)
  BY DEF Seen
<1>2. CASE Seen(t)' = Seen(t)
  <2>1. \A u \in Task : Stage(u)' = Stage(u) /\ Result(u)' = Result(u) /\ Bill(u)' = Bill(u)
    BY <1>1, <1>2 DEF Seen
  <2>2. stage' = stage /\ result' = result /\ bill' = bill
    BY <2>1
  <2> QED
    BY <2>2 DEF Contract!cvars, Result, Bill, SameDoubt
<1>3. CASE /\ Stage(t) = "new" /\ Stage(t)' \in {"tracked", "closed"}
           /\ Result(t)' = Result(t) /\ Bill(t)' = Bill(t)
  <2>1. stage' = [stage EXCEPT ![t] = Stage(t)']
    BY <1>1
  <2>2. result' = result /\ bill' = bill
    BY <1>1, <1>3
  <2>3. stage[t] = "new"
    BY <1>3
  <2>4. ("again" \in happened)' = ("again" \in happened)
    BY DEF SameDoubt
  <2>5. Stage(t)' = "tracked" => Contract!Accept(t)
    BY <2>1, <2>2, <2>3, <2>4 DEF Contract!Accept, Result, Bill
  <2>6. Stage(t)' = "closed" => Contract!Refuse(t)
    BY <2>1, <2>2, <2>3, <2>4 DEF Contract!Refuse, Result, Bill
  <2> QED
    BY <1>3, <2>5, <2>6 DEF Contract!CNext
<1>4. CASE /\ Stage(t) = "tracked" /\ Stage(t)' = "closed"
           /\ Result(t)' \in Contract!Results /\ Bill(t)' \in 0 .. Contract!Most(t)
           /\ Contract!FairBill(Result(t)', Bill(t)')
  <2>1. /\ stage' = [stage EXCEPT ![t] = "closed"]
        /\ result' = [result EXCEPT ![t] = Result(t)']
        /\ bill' = [bill EXCEPT ![t] = Bill(t)']
    BY <1>1, <1>4
  <2>2. stage[t] = "tracked"
    BY <1>4
  <2>3. ("again" \in happened)' = ("again" \in happened)
    BY DEF SameDoubt
  <2>4. Contract!Close(t)
    BY <1>4, <2>1, <2>2, <2>3 DEF Contract!Close, Result, Bill
  <2> QED
    BY <2>4 DEF Contract!CNext
<1> QED
  BY <1>2, <1>3, <1>4 DEF Moves

\* Steps of one job that change nothing of the others.
OnlyJob(t) ==
  \A u \in Task \ {t} :
    /\ tool'[u] = tool[u] /\ verdict'[u] = verdict[u] /\ charged'[u] = charged[u]
    /\ u \in inflight' <=> u \in inflight

LEMMA OnlyJobSeen ==
  ASSUME NEW t \in Task, OnlyJob(t)
  PROVE  \A u \in Task \ {t} : Seen(u)' = Seen(u)
BY DEF OnlyJob, Seen, Stage, Result, Bill

LEMMA ContractStep == CInv /\ CInv' /\ [Next]_vars => [Contract!CNext]_(Contract!cvars)
<1> SUFFICES ASSUME CInv, CInv', [Next]_vars PROVE [Contract!CNext]_(Contract!cvars)
  OBVIOUS
<1>0. TypeOK
  BY DEF CInv, HInv
<1> DEFINE Goal == [Contract!CNext]_(Contract!cvars)
<1> USE DEF Seen, Stage, Result, Bill
<1>d. (\A t \in Task : ~PollTerminal(t)) => SameDoubt
  BY OnlyPollerResends
<1>1. ASSUME UNCHANGED <<tool, inflight, verdict, charged>>, SameDoubt PROVE Goal
  BY <1>1 DEF Contract!cvars, SameDoubt
<1>2. ASSUME NEW t \in Task, Moves(t), OnlyJob(t), SameDoubt PROVE Goal
  BY <1>2, OnlyJobSeen, MoveIsContractStep
\* Taking a job on, or not.
<1>3. ASSUME NEW t \in Task, RecordJob(t) \/ RegisterJob(t) \/ StartBackground(t), SameDoubt PROVE Goal
  <2>1. OnlyJob(t)
    BY <1>0, <1>3 DEF RecordJob, RegisterJob, StartBackground, Register, Unregister, Return,
       OnlyJob, TypeOK
  <2>2. tool[t] \in {"idle", "recorded"} /\ t \notin inflight
    BY <1>3, ContractFacts DEF RecordJob, RegisterJob, StartBackground
  <2>3. Stage(t) = "new"
    BY <2>2
  <2>4. tool'[t] \in {"recorded", "registered", "regfail", "returned"}
    BY <1>0, <1>3 DEF RecordJob, RegisterJob, StartBackground, Return, TypeOK
  <2>5. tool'[t] = "recorded" => t \notin inflight'
    BY <1>0, <1>3, <2>2 DEF RecordJob, RegisterJob, StartBackground, Return, TypeOK
  <2>6. verdict' = verdict /\ charged' = charged /\ verdict[t] = "none" /\ charged[t] = 0
    BY <1>3, <2>2, ContractFacts DEF RecordJob, RegisterJob, StartBackground
  <2>7. Moves(t)
    BY <2>2, <2>3, <2>4, <2>5, <2>6 DEF Moves
  <2> QED
    BY <1>2, <1>3, <2>1, <2>7
\* Steps of the tool that the contract does not see.
<1>4. ASSUME NEW t \in Task, FailRegistration(t) \/ LaunchSandbox(t) \/ StartPoller(t), SameDoubt PROVE Goal
  <2>1. OnlyJob(t)
    BY <1>0, <1>4 DEF FailRegistration, LaunchSandbox, StartPoller, Return, OnlyJob, TypeOK
  <2>2. /\ tool'[t] \in {"returned", "launched", "launchfail"}
        /\ tool[t] \in {"regfail", "registered", "launched"}
        /\ UNCHANGED <<inflight, verdict, charged>>
    BY <1>0, <1>4 DEF FailRegistration, LaunchSandbox, StartPoller, Return, TypeOK
  <2>3. Seen(t)' = Seen(t)
    BY <2>2
  <2> QED
    BY <1>2, <1>4, <2>1, <2>3 DEF Moves
\* Releases.
<1>5. ASSUME NEW t \in Task, FailLaunch(t) \/ EndBackground(t) \/ ClearHeartbeat(t), SameDoubt PROVE Goal
  <2>1. OnlyJob(t)
    BY <1>0, <1>5 DEF FailLaunch, EndBackground, ClearHeartbeat, Unregister, Return, OnlyJob, TypeOK
  <2>2. t \in inflight /\ t \notin inflight' /\ verdict' = verdict /\ charged' = charged
    BY <1>5, ContractFacts DEF FailLaunch, EndBackground, ClearHeartbeat, Unregister, PollLive
  <2>3. tool'[t] = "returned"
    BY <1>0, <1>5, ContractFacts DEF FailLaunch, EndBackground, ClearHeartbeat, Return, PollLive, TypeOK
  <2>4. Stage(t) = "tracked" /\ Stage(t)' = "closed"
    BY <2>2, <2>3
  <2>5. Result(t)' = verdict[t] /\ Bill(t)' = charged[t]
    BY <2>2
  <2>6. Moves(t)
    BY <2>4, <2>5, ContractFacts DEF Moves
  <2> QED
    BY <1>2, <1>5, <2>1, <2>6
\* What the daemon finds out shows only once the job is released.
<1>6. ASSUME NEW t \in Task,
             PollTerminal(t) \/ PollDeadline(t) \/ MarkOrphaned(t) \/ AuditCompletion(t)
      PROVE  Goal
  <2>1. OnlyJob(t)
    <3>1. \A u \in Task \ {t} : charged'[u] = charged[u]
      <4>1. CASE PollTerminal(t)
        BY <1>0, <4>1, ChargeEffect DEF TypeOK
      <4> QED
        BY <1>6, <4>1 DEF PollDeadline, MarkOrphaned, AuditCompletion
    <3> QED
      BY <1>0, <1>6, <3>1 DEF PollTerminal, PollDeadline, MarkOrphaned, AuditCompletion, OnlyJob, TypeOK
  <2>2. t \in inflight /\ UNCHANGED <<inflight, tool>>
    BY <1>6, ContractFacts DEF PollTerminal, PollDeadline, MarkOrphaned, AuditCompletion, PollLive
  <2>3. Seen(t)' = Seen(t)
    BY <2>2
  <2>4. CASE SameDoubt
    BY <1>2, <2>1, <2>3, <2>4 DEF Moves
  <2>5. CASE ~SameDoubt
    <3>1. "again" \in happened'
      BY <2>5, FaultsRemembered DEF SameDoubt
    <3>2. \A u \in Task : Stage(u)' = Stage(u) /\ Result(u)' = Result(u) /\ Bill(u)' = Bill(u)
      <4> HIDE DEF Stage, Result, Bill
      <4> QED
        BY <2>1, <2>3, OnlyJobSeen
    <3>3. Contract!LoseAnswer
      <4> HIDE DEF Stage, Result, Bill
      <4>1. /\ [u \in Task |-> Stage(u)]' = [u \in Task |-> Stage(u)]
            /\ [u \in Task |-> Result(u)]' = [u \in Task |-> Result(u)]
            /\ [u \in Task |-> Bill(u)]' = [u \in Task |-> Bill(u)]
        BY <3>2
      <4> QED
        BY <3>1, <4>1 DEF Contract!LoseAnswer, Result, Bill
    <3> QED
      BY <3>3 DEF Contract!CNext
  <2> QED
    BY <2>4, <2>5
<1>7. ASSUME NEW t \in Task, SandboxStep(t) \/ ContainerStopped(t), SameDoubt PROVE Goal
  BY <1>1, <1>7 DEF SandboxStep, ContainerStopped, ReadJob, MarkRunning, CloneRepo,
     RunAgentLoop, WriteCost, PushBranch, OpenPullRequest, WriteOutcome, PostCallback, agentVars
\* The end of the process closes every tracked job.
<1>8. ASSUME ProcessGone, SameDoubt PROVE Goal
  <2> DEFINE stage  == [u \in Task |-> Stage(u)]
             result == [u \in Task |-> Result(u)]
             bill   == [u \in Task |-> Bill(u)]
  <2>1. ASSUME NEW u \in Task
        PROVE  /\ Stage(u)' \in {"new", "closed"}
               /\ Stage(u) = "tracked" => Stage(u)' = "closed"
               /\ Stage(u) # "tracked" => Stage(u)' \in {Stage(u), "closed"}
    <3>1. u \in inflight => tool[u] \notin {"idle", "recorded"}
      BY ContractFacts
    <3> QED
      BY <1>8, <3>1 DEF ProcessGone
  <2>2. \A u \in Task : Result(u)' = verdict[u] /\ Bill(u)' = charged[u]
    BY <1>8 DEF ProcessGone
  <2>3. \A u \in Task : Stage(u) # "tracked" => Result(u)' = Result(u) /\ Bill(u)' = Bill(u)
    BY <2>2
  <2>4. \A u \in Task : /\ Result(u)' \in Contract!Results /\ Bill(u)' \in Nat
                       /\ Bill(u)' <= Contract!Most(u) /\ Contract!FairBill(Result(u)', Bill(u)')
    BY <2>2, ContractFacts
  <2>5. /\ stage' \in [Task -> {"new", "closed"}]
        /\ result' \in [Task -> Contract!Results]
        /\ bill' \in [Task -> Nat]
    <3> HIDE DEF Stage, Result, Bill
    <3>1. stage' \in [Task -> {"new", "closed"}]
      BY <2>1
    <3>2. result' \in [Task -> Contract!Results]
      BY <2>4
    <3>3. bill' \in [Task -> Nat]
      BY <2>4
    <3> QED
      BY <3>1, <3>2, <3>3
  <2>6. ASSUME NEW u \in Task
        PROVE  \/ /\ stage[u] = "tracked" /\ stage'[u] = "closed"
                  /\ bill'[u] <= Contract!Most(u) /\ Contract!FairBill(result'[u], bill'[u])
               \/ /\ stage[u] # "tracked" /\ stage'[u] \in {stage[u], "closed"}
                  /\ result'[u] = result[u] /\ bill'[u] = bill[u]
    <3> HIDE DEF Stage, Result, Bill
    <3> QED
      BY <2>1, <2>3, <2>4
  <2>7. Contract!Die
    BY <1>8, <2>5, <2>6 DEF Contract!Die, SameDoubt
  <2> QED
    BY <2>7 DEF Contract!CNext
<1>9. CASE \E t \in Task : PollTerminal(t)
  BY <1>6, <1>9
<1>10. CASE SameDoubt
  BY <1>1, <1>3, <1>4, <1>5, <1>6, <1>7, <1>8, <1>10
  DEF Next, ToolStep, PollStep, AgentCrash, IdleShutdown, vars, agentVars
<1> QED
  BY <1>d, <1>9, <1>10

\* The jobs of the agent implement JobContract: each is taken on and released
\* at most once, with its result and its bill fixed by then (propose_pr,
\* start_background_task, _poll_sandbox_completion, ping.py).
THEOREM JobsImplementContract == Spec => ImplementsContract
<1>1. Init => Contract!CInit
  BY DEF Init, Contract!CInit, Stage
<1>2. Spec => []CInv
  <2>1. HInv /\ BillInv /\ SpentWithinCost <=> CInv
    BY DEF CInv
  <2> QED
    BY <2>1, HeartbeatInvariant, BillInvariant, SpentInvariant, PTL
<1> QED
  BY <1>1, <1>2, ContractStep, PTL DEF Spec, ImplementsContract, Contract!CSpec

-----------------------------------------------------------------------------
(***************************************************************************)
(* Charged in full, while DynamoDB answers.  The cost is on the row before *)
(* the container writes its outcome, and nobody else ends a row whose job  *)
(* has a poller.                                                           *)
(***************************************************************************)
PaidUp ==
  "ddb" \notin happened =>
    \A t \in Task :
      /\ sandbox[t] \in {"pushing", "opening", "closing", "calling", "exited"} => row[t].cost = spent[t]
      /\ tool[t] \in {"idle", "recorded", "registered"} => row[t].status \notin Terminal
      /\ (tool[t] = "launched" \/ poll[t] = "polling") /\ row[t].status \in Terminal
           => sandbox[t] \in Late /\ row[t].cost = spent[t]
      /\ verdict[t] \in Terminal => sandbox[t] \in Late /\ Paid(t)

\* Without a fault of DynamoDB, what is written is on the row.
LEMMA WriteTakesEffect ==
  ASSUME NEW t \in Task, NEW new, RowWriteLogged(t, new), "ddb" \notin happened'
  PROVE  row' = [row EXCEPT ![t] = new]
BY DEF RowWriteLogged, RowWrite, Fault

LEMMA StatusTakesEffect ==
  ASSUME TypeOK, NEW t \in Task, NEW s, RowWriteLogged(t, WithStatus(t, s)), "ddb" \notin happened'
  PROVE  /\ row'[t].status = s /\ row'[t].cost = row[t].cost /\ row'[t].pr = row[t].pr
         /\ \A u \in Task \ {t} : row'[u] = row[u]
<1>1. row' = [row EXCEPT ![t] = WithStatus(t, s)]
  BY WriteTakesEffect
<1> QED
  BY <1>1 DEF TypeOK, Row, WithStatus

\* A job that was charged all of it stays so.
LEMMA PaidKept ==
  ASSUME NEW t \in Task, Paid(t), [Next]_vars, charged'[t] = charged[t], spent'[t] = spent[t]
  PROVE  Paid(t)'
<1>1. happened \subseteq happened'
  BY FaultsRemembered
<1> QED
  BY <1>1 DEF Paid

LEMMA PaidStep == BillInv /\ PaidUp /\ [Next]_vars => PaidUp'
<1> SUFFICES ASSUME BillInv, PaidUp, [Next]_vars, "ddb" \notin happened' PROVE PaidUp'
  BY DEF PaidUp
<1>a. "ddb" \notin happened
  BY FaultsRemembered
<1> USE <1>a DEF BillInv, LInv, HandedOver, LaunchedByTool, ChargedLate, NothingSpentYet, Early, Late,
                 Terminal, PaidUp
<1>p. ASSUME NEW u \in Task, Paid(u), charged'[u] = charged[u], spent'[u] = spent[u] PROVE Paid(u)'
  BY <1>p, PaidKept
<1>0. ASSUME UNCHANGED <<row, poll, charged, verdict, spent, tool>>,
             \A u \in Task :
               \/ sandbox'[u] \in {sandbox[u], "dead"}
               \/ /\ sandbox'[u] \in {"pushing", "opening", "closing", "exited"}
                  /\ row[u].cost = spent[u] /\ sandbox[u] \notin {"exited", "dead"}
                  /\ sandbox[u] = "calling" => sandbox'[u] = "exited"
               \/ sandbox'[u] \in Early \cup {"costing"} /\ sandbox[u] \notin Late
      PROVE  PaidUp'
  BY <1>0, <1>p
<1>1. ASSUME NEW t \in Task, RecordJob(t) PROVE PaidUp'
  <2>1. RowWriteLogged(t, WithStatus(t, "pending"))
    BY <1>1 DEF RecordJob, RowWriteLogged
  <2>2. /\ row'[t].status = "pending" /\ row'[t].cost = row[t].cost
        /\ \A u \in Task \ {t} : row'[u] = row[u]
    BY <2>1, StatusTakesEffect
  <2> QED
    BY <1>p, <1>1, <2>2 DEF RecordJob, Return, sandboxVars, TypeOK
<1>2. ASSUME NEW t \in Task, FailRegistration(t) \/ FailLaunch(t) PROVE PaidUp'
  <2>1. /\ row'[t].status = "error" /\ row'[t].cost = row[t].cost
        /\ \A u \in Task \ {t} : row'[u] = row[u]
    BY <1>2, StatusTakesEffect DEF FailRegistration, FailLaunch
  <2>2. poll[t] = "none" /\ tool'[t] = "returned"
    BY <1>2 DEF FailRegistration, FailLaunch, Return, TypeOK
  <2> QED
    BY <1>p, <1>2, <2>1, <2>2 DEF FailRegistration, FailLaunch, Return, sandboxVars, TypeOK
<1>3. ASSUME NEW t \in Task, MarkRunning(t) PROVE PaidUp'
  <2>1. /\ row'[t].status = "running" /\ row'[t].cost = row[t].cost
        /\ \A u \in Task \ {t} : row'[u] = row[u]
    BY <1>3, StatusTakesEffect DEF MarkRunning
  <2> QED
    BY <1>p, <1>3, <2>1 DEF MarkRunning, Goto, agentVars, TypeOK
<1>4. ASSUME NEW t \in Task, MarkOrphaned(t) PROVE PaidUp'
  <2>1. /\ row'[t].status = "orphaned" /\ row'[t].cost = row[t].cost
        /\ \A u \in Task \ {t} : row'[u] = row[u]
    BY <1>4, StatusTakesEffect DEF MarkOrphaned
  <2> QED
    BY <1>p, <1>4, <2>1 DEF MarkOrphaned, sandboxVars, TypeOK
<1>5. ASSUME NEW t \in Task, RegisterJob(t) \/ LaunchSandbox(t) PROVE PaidUp'
  BY <1>p, <1>5 DEF RegisterJob, LaunchSandbox, sandboxVars, TypeOK
<1>6. ASSUME NEW t \in Task,
             StartPoller(t) \/ StartBackground(t) \/ EndBackground(t) \/ AuditCompletion(t) \/ ClearHeartbeat(t)
      PROVE  PaidUp'
  <2>1. UNCHANGED <<row, charged, verdict, spent, sandbox>>
    BY <1>6 DEF StartPoller, StartBackground, EndBackground, AuditCompletion, ClearHeartbeat, sandboxVars
  <2>2. \A u \in Task : /\ tool'[u] \in {tool[u], "returned"}
                        /\ poll'[u] = "polling" => poll[u] = "polling" \/ tool[u] = "launched"
    BY <1>6 DEF StartPoller, StartBackground, EndBackground, AuditCompletion, ClearHeartbeat, Return, TypeOK
  <2> QED
    BY <1>p, <2>1, <2>2
<1>7. ASSUME NEW t \in Task, PollTerminal(t) PROVE PaidUp'
  <2>1. /\ row[t].cost \in Nat /\ charged[t] = 0
        /\ sandbox[t] \in Late /\ row[t].cost = spent[t]
    BY <1>7 DEF PollTerminal, TypeOK, Row
  <2>2. PICK n \in Nat :
           /\ n * row[t].cost \in Nat
           /\ charged' = [charged EXCEPT ![t] = @ + n * row[t].cost]
           /\ n = 0 => "ddb" \in happened'
           /\ n > 1 => "again" \in happened'
    BY <1>7, ChargeEffect
  <2>3. charged'[t] = n * spent[t] /\ \A u \in Task \ {t} : charged'[u] = charged[u]
    BY <2>1, <2>2 DEF TypeOK
  <2>4. Paid(t)'
    <3>1. 1 <= n /\ 1 * spent[t] = spent[t] /\ spent[t] \in Nat
      BY <2>1, <2>2
    <3>2. charged'[t] >= spent[t]
      BY <2>3, <3>1, ProductGrows
    <3>3. spent' = spent
      BY <1>7 DEF PollTerminal, sandboxVars
    <3>4. "again" \notin happened' => charged'[t] = spent[t]
      BY <2>2, <2>3, <3>1
    <3> QED
      BY <3>2, <3>3, <3>4 DEF Paid
  <2>5. \A u \in Task \ {t} : Paid(u) => Paid(u)'
    BY <1>p, <1>7, <2>3 DEF PollTerminal, sandboxVars
  <2> QED
    BY <1>7, <2>1, <2>4, <2>5 DEF PollTerminal, sandboxVars, TypeOK
<1>8. ASSUME NEW t \in Task, PollDeadline(t) PROVE PaidUp'
  BY <1>8, <1>p DEF PollDeadline, sandboxVars, TypeOK
<1>9. ASSUME NEW t \in Task,
             \/ ReadJob(t) \/ CloneRepo(t) \/ PushBranch(t) \/ OpenPullRequest(t)
             \/ PostCallback(t) \/ ContainerStopped(t)
      PROVE  PaidUp'
  <2>1. UNCHANGED <<row, poll, charged, verdict, spent, tool>>
    BY <1>9 DEF ReadJob, CloneRepo, PushBranch, OpenPullRequest, PostCallback, ContainerStopped, agentVars
  <2>2. \A u \in Task \ {t} : sandbox'[u] = sandbox[u]
    BY <1>9 DEF ReadJob, CloneRepo, PushBranch, OpenPullRequest, PostCallback, ContainerStopped,
       GiveUp, Goto, TypeOK
  <2>3. CASE ReadJob(t)
    BY <1>0, <2>1, <2>2, <2>3 DEF ReadJob, Goto, Fault, TypeOK
  <2>4. CASE CloneRepo(t)
    BY <1>0, <2>1, <2>2, <2>4 DEF CloneRepo, GiveUp, Goto, TypeOK
  <2>5. CASE PushBranch(t)
    BY <1>0, <2>1, <2>2, <2>5 DEF PushBranch, GiveUp, Goto, TypeOK
  <2>6. CASE OpenPullRequest(t)
    BY <1>0, <2>1, <2>2, <2>6 DEF OpenPullRequest, GiveUp, Goto, TypeOK
  <2>7. CASE PostCallback(t)
    BY <1>0, <2>1, <2>2, <2>7 DEF PostCallback, Goto, TypeOK
  <2>8. CASE ContainerStopped(t)
    BY <1>0, <2>1, <2>2, <2>8 DEF ContainerStopped, Goto, TypeOK
  <2> QED
    BY <1>9, <2>3, <2>4, <2>5, <2>6, <2>7, <2>8
<1>10. ASSUME NEW t \in Task, RunAgentLoop(t) PROVE PaidUp'
  <2>1. /\ UNCHANGED <<row, poll, charged, verdict, tool>>
        /\ \A u \in Task \ {t} : sandbox'[u] = sandbox[u] /\ spent'[u] = spent[u]
        /\ sandbox[t] = "editing"
        /\ sandbox'[t] = "costing" \/ (sandbox'[t] = "closing" /\ spent'[t] = spent[t])
    BY <1>10 DEF RunAgentLoop, GiveUp, Goto, agentVars, TypeOK
  <2> QED
    BY <1>p, <2>1
<1>11. ASSUME NEW t \in Task, WriteCost(t) PROVE PaidUp'
  <2>1. row' = [row EXCEPT ![t] = [row[t] EXCEPT !.cost = spent[t]]]
    BY <1>11, WriteTakesEffect DEF WriteCost
  <2>2. /\ row'[t].cost = spent[t] /\ row'[t].status = row[t].status
        /\ \A u \in Task \ {t} : row'[u] = row[u]
    BY <2>1 DEF TypeOK, Row
  <2>3. sandbox[t] = "costing" /\ sandbox'[t] \in {"pushing", "closing"}
    BY <1>11 DEF WriteCost, GiveUp, Goto, TypeOK
  <2>4. \A u \in Task \ {t} : sandbox'[u] = sandbox[u]
    BY <1>11 DEF WriteCost, GiveUp, Goto, TypeOK
  <2>5. UNCHANGED <<poll, charged, verdict, spent, tool>>
    BY <1>11 DEF WriteCost, agentVars
  <2> QED
    BY <1>p, <2>2, <2>3, <2>4, <2>5
<1>12. ASSUME NEW t \in Task, WriteOutcome(t) PROVE PaidUp'
  <2>1. row' = [row EXCEPT ![t] = [row[t] EXCEPT !.status = outcome[t],
                                                 !.pr = @ \/ outcome[t] = "success"]]
    BY <1>12, WriteTakesEffect DEF WriteOutcome
  <2>2. row'[t].cost = row[t].cost /\ \A u \in Task \ {t} : row'[u] = row[u]
    BY <2>1 DEF TypeOK, Row
  <2>3. sandbox[t] = "closing" /\ sandbox'[t] = "calling"
    BY <1>12 DEF WriteOutcome, Goto, TypeOK
  <2>4. \A u \in Task \ {t} : sandbox'[u] = sandbox[u]
    BY <1>12 DEF WriteOutcome, Goto, TypeOK
  <2>5. UNCHANGED <<poll, charged, verdict, spent, tool>>
    BY <1>12 DEF WriteOutcome, agentVars
  <2> QED
    BY <1>p, <2>2, <2>3, <2>4, <2>5
<1>13. ASSUME ProcessGone PROVE PaidUp'
  BY <1>p, <1>13 DEF ProcessGone, sandboxVars, PollLive
<1>14. CASE UNCHANGED vars
  BY <1>0, <1>14 DEF vars, agentVars, sandboxVars
<1> QED
  BY <1>1, <1>2, <1>3, <1>4, <1>5, <1>6, <1>7, <1>8, <1>9, <1>10, <1>11, <1>12, <1>13, <1>14
  DEF Next, ToolStep, PollStep, SandboxStep, AgentCrash, IdleShutdown

\* As long as DynamoDB takes what it is sent, a job whose poller saw it end is
\* charged all that its agent loop spent, and no more unless an increment was sent
\* again (_poll_sandbox_completion; the order of entrypoint.main).
THEOREM SpendIsCharged == Spec => []SpendCharged
<1>1. Init => PaidUp
  BY DEF Init, PaidUp, Terminal
<1>2. PaidUp => SpendCharged
  BY DEF PaidUp, SpendCharged
<1> QED
  BY <1>1, <1>2, BillInvariant, PaidStep, PTL DEF Spec

-----------------------------------------------------------------------------
(***************************************************************************)
(* Audited before released.                                                *)
(***************************************************************************)

\* What the audit trail of a job holds, by where its tool call and daemon are.
AuditTrail ==
  "ddb" \notin happened =>
    \A t \in Task :
      /\ tool[t] # "returned" => audit[t] = {}
      /\ reply[t] = "queued" => poll[t] # "none"
      /\ reply[t] = "queued" /\ poll[t] \in {"polling", "expired", "auditing"} => audit[t] = {"launched"}
      /\ reply[t] = "queued" /\ poll[t] \in {"clearing", "done"} => audit[t] = {"launched", verdict[t]}
      /\ poll[t] = "sleeping" => reply[t] = "background"

LEMMA AuditStep == HInv /\ AuditTrail /\ [Next]_vars => AuditTrail'
<1> SUFFICES ASSUME HInv, AuditTrail, [Next]_vars, "ddb" \notin happened' PROVE AuditTrail'
  BY DEF AuditTrail
<1>a. "ddb" \notin happened
  BY FaultsRemembered
<1> USE <1>a DEF HInv, HandedOver, AuditTrail
<1>0. ASSUME UNCHANGED <<reply, poll, verdict, audit>>,
             \A u \in Task : tool[u] = "returned" => tool'[u] = "returned"
      PROVE  AuditTrail'
  BY <1>0
<1>1. ASSUME NEW t \in Task, RecordJob(t) PROVE AuditTrail'
  BY <1>1 DEF RecordJob, Return, TypeOK
<1>2. ASSUME NEW t \in Task, RegisterJob(t) \/ LaunchSandbox(t) PROVE AuditTrail'
  BY <1>0, <1>2 DEF RegisterJob, LaunchSandbox, TypeOK
<1>3. ASSUME NEW t \in Task, FailRegistration(t) \/ FailLaunch(t) PROVE AuditTrail'
  BY <1>3 DEF FailRegistration, FailLaunch, Return, TypeOK
<1>4. ASSUME NEW t \in Task, StartPoller(t) PROVE AuditTrail'
  <2>1. audit[t] = {} /\ reply[t] = "none" /\ poll[t] = "none"
    BY <1>4 DEF StartPoller
  <2>2. \/ poll' = [poll EXCEPT ![t] = "polling"] /\ Return(t, "queued")
             /\ audit' = [audit EXCEPT ![t] = @ \cup {"launched"}]
        \/ UNCHANGED poll /\ Return(t, "raised")
    BY <1>4 DEF StartPoller, Fault
  <2>3. UNCHANGED verdict /\ tool'[t] = "returned"
    BY <1>4 DEF StartPoller, Return, TypeOK
  <2>4. \A u \in Task \ {t} : /\ audit'[u] = audit[u] /\ poll'[u] = poll[u]
                             /\ reply'[u] = reply[u] /\ tool'[u] = tool[u]
    BY <1>4 DEF StartPoller, Return, TypeOK
  <2>5. CASE poll' = [poll EXCEPT ![t] = "polling"] /\ Return(t, "queued")
               /\ audit' = [audit EXCEPT ![t] = @ \cup {"launched"}]
    <3>1. audit'[t] = {"launched"} /\ poll'[t] = "polling"
      BY <2>1, <2>5 DEF TypeOK
    <3> QED
      BY <2>3, <2>4, <3>1
  <2>6. CASE UNCHANGED poll /\ Return(t, "raised")
    <3>1. reply'[t] = "raised" /\ poll'[t] = "none"
      BY <2>1, <2>6 DEF Return, TypeOK
    <3> QED
      BY <2>3, <2>4, <3>1
  <2> QED
    BY <2>2, <2>5, <2>6
<1>5. ASSUME NEW t \in Task, StartBackground(t) PROVE AuditTrail'
  <2>1. /\ reply'[t] \in {"background", "raised"} /\ tool'[t] = "returned"
        /\ UNCHANGED <<audit, verdict>>
        /\ poll'[t] = "none" \/ reply'[t] = "background"
    BY <1>5 DEF StartBackground, Return, TypeOK
  <2>2. \A u \in Task \ {t} : poll'[u] = poll[u] /\ reply'[u] = reply[u] /\ tool'[u] = tool[u]
    BY <1>5 DEF StartBackground, Return, TypeOK
  <2> QED
    BY <2>1, <2>2
<1>6. ASSUME NEW t \in Task, EndBackground(t) PROVE AuditTrail'
  BY <1>6 DEF EndBackground, TypeOK
<1>7. ASSUME NEW t \in Task, PollTerminal(t) \/ PollDeadline(t) \/ MarkOrphaned(t) PROVE AuditTrail'
  BY <1>7 DEF PollTerminal, PollDeadline, MarkOrphaned, TypeOK
<1>8. ASSUME NEW t \in Task, AuditCompletion(t) PROVE AuditTrail'
  <2>1. audit' = [audit EXCEPT ![t] = @ \cup {verdict[t]}]
    BY <1>8 DEF AuditCompletion, Fault
  <2>2. reply[t] = "queued" => audit'[t] = {"launched", verdict[t]}
    BY <1>8, <2>1 DEF AuditCompletion, TypeOK
  <2>3. \A u \in Task \ {t} : audit'[u] = audit[u] /\ poll'[u] = poll[u]
    BY <1>8, <2>1 DEF AuditCompletion, TypeOK
  <2>4. /\ poll'[t] = "clearing" /\ poll[t] = "auditing"
        /\ UNCHANGED <<tool, reply, verdict>>
    BY <1>8 DEF AuditCompletion, TypeOK
  <2> QED
    BY <2>2, <2>3, <2>4
<1>9. ASSUME NEW t \in Task, ClearHeartbeat(t) PROVE AuditTrail'
  BY <1>9 DEF ClearHeartbeat, TypeOK
<1>10. ASSUME NEW t \in Task, SandboxStep(t) \/ ContainerStopped(t) PROVE AuditTrail'
  <2>1. UNCHANGED agentVars
    BY <1>10 DEF SandboxStep, ContainerStopped, ReadJob, MarkRunning, CloneRepo, RunAgentLoop,
       WriteCost, PushBranch, OpenPullRequest, WriteOutcome, PostCallback
  <2> QED
    BY <1>0, <2>1 DEF agentVars
<1>11. ASSUME ProcessGone PROVE AuditTrail'
  BY <1>11 DEF ProcessGone, PollLive, TypeOK
<1>12. CASE UNCHANGED vars
  BY <1>0, <1>12 DEF vars, agentVars
<1> QED
  BY <1>1, <1>2, <1>3, <1>4, <1>5, <1>6, <1>7, <1>8, <1>9, <1>10, <1>11, <1>12
  DEF Next, ToolStep, PollStep, AgentCrash, IdleShutdown

\* As long as DynamoDB answers, a queued job that no longer counts as busy has both
\* of its audit rows, unless the process died (the finally block of the poller).
THEOREM AuditedBeforeRelease == Spec => []AuditBeforeRelease
<1>1. Init => AuditTrail
  BY DEF Init, AuditTrail
<1>2. HInv /\ AuditTrail => AuditBeforeRelease
  <2> SUFFICES ASSUME HInv, AuditTrail, "ddb" \notin happened, NEW t \in Task,
                      reply[t] = "queued", t \notin inflight, poll[t] # "dead"
               PROVE  audit[t] = {"launched", verdict[t]}
    BY DEF AuditBeforeRelease
  <2>1. poll[t] \notin PollLive
    BY DEF HInv, HeartbeatOwned, Owned
  <2>2. poll[t] = "done"
    BY <2>1 DEF HInv, TypeOK, PollStates, AuditTrail
  <2> QED
    BY <2>2 DEF AuditTrail
<1> QED
  BY <1>1, <1>2, HeartbeatInvariant, AuditStep, PTL DEF Spec
-----------------------------------------------------------------------------
(***************************************************************************)
(* The row of a job whose container is over.                               *)
(***************************************************************************)
Closed(t) ==
  \/ sandbox[t] \in {"calling", "exited"}
  \/ reply[t] = "not_opened" /\ sandbox[t] = "none"

\* A container that is about to close has an outcome.  What it writes before its
\* callback is on the row, unless the poller gave the job up or the tool told the
\* user that nothing was opened; and these write verdicts, too.
RowKept ==
  /\ \A t \in Task : sandbox[t] = "closing" => outcome[t] \in Terminal
  /\ "ddb" \notin happened =>
       \A t \in Task :
         /\ Closed(t) => row[t].status \in Verdicts
         /\ outcome[t] = "success" /\ sandbox[t] \in {"calling", "exited"}
              => /\ row[t].pr
                 /\ row[t].status \in {"success", "orphaned"} \/ reply[t] = "not_opened"

LEMMA OutcomeStep ==
  ASSUME TypeOK, RowKept, [Next]_vars
  PROVE  \A t \in Task : sandbox'[t] = "closing" => outcome'[t] \in Terminal
<1> USE DEF TypeOK, RowKept, Terminal
<1>0. ASSUME UNCHANGED outcome,
             \A u \in Task : sandbox'[u] = "closing" => sandbox[u] = "closing"
      PROVE  \A u \in Task : sandbox'[u] = "closing" => outcome'[u] \in Terminal
  BY <1>0
<1>1. ASSUME NEW t \in Task, SandboxStep(t) \/ ContainerStopped(t)
      PROVE  \A u \in Task : sandbox'[u] = "closing" => outcome'[u] \in Terminal
  <2>1. \A u \in Task \ {t} : sandbox'[u] = sandbox[u] /\ outcome'[u] = outcome[u]
    BY <1>1 DEF SandboxStep, ContainerStopped, ReadJob, MarkRunning, CloneRepo, RunAgentLoop,
       WriteCost, PushBranch, OpenPullRequest, WriteOutcome, PostCallback, GiveUp, Goto
  <2>2. sandbox'[t] = "closing" => outcome'[t] \in Terminal
    BY <1>1 DEF SandboxStep, ContainerStopped, ReadJob, MarkRunning, CloneRepo, RunAgentLoop,
       WriteCost, PushBranch, OpenPullRequest, WriteOutcome, PostCallback, GiveUp, Goto
  <2> QED
    BY <2>1, <2>2
<1>2. ASSUME NEW t \in Task, LaunchSandbox(t)
      PROVE  \A u \in Task : sandbox'[u] = "closing" => outcome'[u] \in Terminal
  BY <1>0, <1>2 DEF LaunchSandbox
<1>3. ASSUME UNCHANGED sandboxVars
      PROVE  \A u \in Task : sandbox'[u] = "closing" => outcome'[u] \in Terminal
  BY <1>0, <1>3 DEF sandboxVars
<1>4. ASSUME NEW t \in Task, RecordJob(t) \/ StartBackground(t) \/ PollStep(t) \/ RegisterJob(t)
             \/ FailRegistration(t) \/ FailLaunch(t) \/ StartPoller(t)
      PROVE  UNCHANGED sandboxVars
  BY <1>4 DEF RecordJob, StartBackground, PollStep, RegisterJob, FailRegistration, FailLaunch,
     StartPoller, EndBackground, PollTerminal, PollDeadline, MarkOrphaned, AuditCompletion,
     ClearHeartbeat
<1> QED
  BY <1>1, <1>2, <1>3, <1>4 DEF Next, ToolStep, AgentCrash, IdleShutdown, ProcessGone, vars

LEMMA RowStep == LInv /\ RowKept /\ [Next]_vars => RowKept'
<1> DEFINE Kept == \A t \in Task :
         /\ Closed(t) => row[t].status \in Verdicts
         /\ outcome[t] = "success" /\ sandbox[t] \in {"calling", "exited"}
              => /\ row[t].pr
                 /\ row[t].status \in {"success", "orphaned"} \/ reply[t] = "not_opened"
<1> SUFFICES ASSUME LInv, RowKept, [Next]_vars, "ddb" \notin happened' PROVE Kept'
  BY OutcomeStep DEF RowKept, LInv
<1>a. "ddb" \notin happened
  BY FaultsRemembered
<1>b. Kept
  BY <1>a DEF RowKept
<1> USE <1>b DEF LInv, Closed, Verdicts, Terminal
<1>t. TypeOK
  OBVIOUS
<1>r. row \in [Task -> Row] /\ reply \in [Task -> Replies] /\ tool \in [Task -> ToolStates]
      /\ sandbox \in [Task -> SandboxStates] /\ outcome \in [Task -> Terminal \cup {"none"}]
  BY <1>t DEF TypeOK
<1>0. ASSUME UNCHANGED <<row, reply, sandbox, outcome>> PROVE Kept'
  BY <1>0
<1>1. ASSUME NEW t \in Task, RecordJob(t) PROVE Kept'
  <2>1. sandbox[t] = "none"
    BY <1>1 DEF RecordJob, LaunchedByTool
  <2>2. \A u \in Task : u # t => row'[u] = row[u] /\ reply'[u] = reply[u]
    BY <1>1, <1>t, <1>r, RowWriteEffect DEF RecordJob, Return
  <2>3. reply'[t] # "not_opened"
    BY <1>1, <1>r DEF RecordJob, Return, HandedOver
  <2> QED
    BY <2>1, <2>2, <2>3, <1>1 DEF RecordJob, sandboxVars
<1>2. ASSUME NEW t \in Task, FailRegistration(t) PROVE Kept'
  <2>1. sandbox[t] = "none"
    BY <1>2 DEF FailRegistration, LaunchedByTool
  <2>2. \A u \in Task : u # t => row'[u] = row[u] /\ reply'[u] = reply[u]
    BY <1>2, <1>t, <1>r, RowWriteEffect DEF FailRegistration, Return, RowWriteLogged
  <2>3. reply'[t] # "not_opened"
    BY <1>2, <1>r DEF FailRegistration, Return
  <2> QED
    BY <2>1, <2>2, <2>3, <1>2 DEF FailRegistration, sandboxVars
<1>3. ASSUME NEW t \in Task, FailLaunch(t) PROVE Kept'
  <2>1. reply'[t] = "not_opened" /\ row'[t].status = "error" /\ row'[t].pr = row[t].pr
    BY <1>3, <1>t, <1>r, StatusTakesEffect DEF FailLaunch, Return
  <2>2. \A u \in Task : u # t => row'[u] = row[u] /\ reply'[u] = reply[u]
    BY <1>3, <1>t, <1>r, RowWriteEffect DEF FailLaunch, Return, RowWriteLogged
  <2> QED
    BY <2>1, <2>2, <1>3 DEF FailLaunch, sandboxVars
<1>4. ASSUME NEW t \in Task, MarkOrphaned(t) PROVE Kept'
  <2>1. /\ row'[t].status = "orphaned" /\ row'[t].pr = row[t].pr
        /\ \A u \in Task \ {t} : row'[u] = row[u]
    BY <1>4, <1>t, StatusTakesEffect DEF MarkOrphaned
  <2> QED
    BY <2>1, <1>4 DEF MarkOrphaned, sandboxVars
<1>5. ASSUME NEW t \in Task, RegisterJob(t) \/ LaunchSandbox(t) \/ StartPoller(t) \/ StartBackground(t)
      PROVE Kept'
  <2>1. UNCHANGED <<row, outcome>>
    BY <1>5 DEF RegisterJob, LaunchSandbox, StartPoller, StartBackground, sandboxVars
  <2>2. \A u \in Task : sandbox'[u] = sandbox[u] \/ sandbox'[u] = "boot"
    BY <1>5, <1>r DEF RegisterJob, LaunchSandbox, StartPoller, StartBackground, sandboxVars
  <2>3. \A u \in Task : reply'[u] = reply[u] \/ (tool[u] # "returned" /\ reply'[u] # "not_opened")
    BY <1>5, <1>r DEF RegisterJob, LaunchSandbox, StartPoller, StartBackground, Return
  <2>4. \A u \in Task : reply[u] = "not_opened" => tool[u] = "returned"
    BY DEF HandedOver
  <2> QED
    BY <2>1, <2>2, <2>3, <2>4
<1>6. ASSUME NEW t \in Task, PollStep(t), ~MarkOrphaned(t) PROVE Kept'
  BY <1>0, <1>6 DEF PollStep, EndBackground, PollTerminal, PollDeadline, AuditCompletion,
                    ClearHeartbeat, sandboxVars
<1>7. ASSUME NEW t \in Task, SandboxStep(t) \/ ContainerStopped(t), sandbox'[t] \notin {"calling", "exited"}
      PROVE Kept'
  <2>1. reply' = reply
    BY <1>7 DEF SandboxStep, ContainerStopped, ReadJob, MarkRunning, CloneRepo, RunAgentLoop,
       WriteCost, PushBranch, OpenPullRequest, WriteOutcome, PostCallback, agentVars
  <2>2. \A u \in Task \ {t} : sandbox'[u] = sandbox[u] /\ outcome'[u] = outcome[u]
    BY <1>7, <1>r DEF SandboxStep, ContainerStopped, ReadJob, MarkRunning, CloneRepo, RunAgentLoop,
       WriteCost, PushBranch, OpenPullRequest, WriteOutcome, PostCallback, GiveUp, Goto
  <2>3. \A u \in Task \ {t} : row'[u] = row[u]
    BY <1>7, <1>t, RowWriteEffect DEF SandboxStep, ContainerStopped, ReadJob, MarkRunning,
       CloneRepo, RunAgentLoop, WriteCost, PushBranch, OpenPullRequest, WriteOutcome, PostCallback,
       RowWriteLogged
  <2>4. sandbox'[t] # "none"
    BY <1>7, <1>r DEF SandboxStep, ContainerStopped, ReadJob, MarkRunning, CloneRepo, RunAgentLoop,
       WriteCost, PushBranch, OpenPullRequest, WriteOutcome, PostCallback, GiveUp, Goto
  <2> QED
    BY <1>7, <2>1, <2>2, <2>3, <2>4
<1>8. ASSUME NEW t \in Task, ReadJob(t), sandbox'[t] = "exited" PROVE Kept'
  <2>1. "ddb" \in happened'
    BY <1>8, <1>r DEF ReadJob, Goto, Fault
  <2> QED
    BY <2>1
<1>9. ASSUME NEW t \in Task, WriteOutcome(t) PROVE Kept'
  <2> DEFINE new == [row[t] EXCEPT !.status = outcome[t], !.pr = @ \/ outcome[t] = "success"]
  <2>1. row' = [row EXCEPT ![t] = new]
    BY <1>9, WriteTakesEffect DEF WriteOutcome
  <2>2. row[t] \in Row /\ new.status = outcome[t] /\ (outcome[t] = "success" => new.pr)
    BY <1>r DEF Row
  <2>3. /\ row'[t].status = outcome[t] /\ (outcome[t] = "success" => row'[t].pr)
        /\ \A u \in Task \ {t} : row'[u] = row[u]
    BY <2>1, <2>2, <1>r
  <2>4. UNCHANGED <<reply, outcome>> /\ \A u \in Task \ {t} : sandbox'[u] = sandbox[u]
    BY <1>9, <1>r DEF WriteOutcome, Goto, agentVars
  <2>5. outcome[t] \in Terminal
    BY <1>9 DEF WriteOutcome, RowKept
  <2> QED
    BY <2>3, <2>4, <2>5
<1>10. ASSUME NEW t \in Task, PostCallback(t) PROVE Kept'
  BY <1>10, <1>r DEF PostCallback, Goto, agentVars
<1>11. ASSUME ProcessGone PROVE Kept'
  BY <1>0, <1>11 DEF ProcessGone, sandboxVars
<1>12. ASSUME NEW t \in Task, SandboxStep(t) \/ ContainerStopped(t) PROVE Kept'
  <2>1. sandbox'[t] \in {"calling", "exited"} => ReadJob(t) \/ WriteOutcome(t) \/ PostCallback(t)
    BY <1>12, <1>r DEF SandboxStep, ContainerStopped, MarkRunning, CloneRepo, RunAgentLoop,
       WriteCost, PushBranch, OpenPullRequest, GiveUp, Goto
  <2>2. ReadJob(t) => sandbox'[t] # "calling"
    BY <1>r DEF ReadJob, Goto
  <2> QED
    BY <1>7, <1>8, <1>9, <1>10, <1>12, <2>1, <2>2
<1> QED
  BY <1>0, <1>1, <1>2, <1>3, <1>4, <1>5, <1>6, <1>11, <1>12
  DEF Next, ToolStep, AgentCrash, IdleShutdown, vars, agentVars, sandboxVars

LEMMA RowInvariant == Spec => []RowKept
<1>1. Init => RowKept
  BY DEF Init, RowKept, Closed
<1> QED
  BY <1>1, RowStep, LaunchInvariant, PTL DEF Spec

\* Tool, poller and container all write a job's row with no order between them;
\* once the container is over (entrypoint.main), or was never started although the
\* tool said so (propose_pr), the row has a verdict as long as DynamoDB answered.
THEOREM RowIsSettled == Spec => []RowSettled
<1>1. RowKept => RowSettled
  BY DEF RowKept, RowSettled, Closed
<1> QED
  BY <1>1, RowInvariant, PTL

\* Wherever a success is recorded there is a pull request, under every fault, and as
\* long as DynamoDB answered the row of a container that ended in success has its
\* link, whatever was written over its status (entrypoint.main,
\* _poll_sandbox_completion, propose_pr).
THEOREM SuccessIsReal == Spec => []SuccessHasPR
<1>1. RowKept => LinkKept
  BY DEF RowKept, LinkKept
<1>2. SuccessBacked /\ LinkKept => SuccessHasPR
  BY DEF SuccessHasPR
<1> QED
  BY <1>1, <1>2, SuccessInvariant, RowInvariant, PTL
=============================================================================
