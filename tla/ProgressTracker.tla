--------------------------- MODULE ProgressTracker ---------------------------
(***************************************************************************)
(* The bridge's progress tracker of one job (sandbox_progress.py,          *)
(* sandbox_callback.py): the container posts its milestones and its        *)
(* result, one request after the other, and each request's handler reads   *)
(* the job row, calls Slack and saves the timestamp of the message.        *)
(*                                                                         *)
(* A post is named by its place in the container's program, so a message   *)
(* of the thread is named by the post whose handler posted it, and what it *)
(* shows by the post shown last.                                           *)
(***************************************************************************)
EXTENDS Naturals, FiniteSets

CONSTANTS
  Faults,      \* the kinds of fault that may happen
  MaxFaults    \* how many may happen in one behaviour (model bound)

TrackerFaults ==
  { "net",        \* a post does not reach the bridge
    "timeout",    \* the container gives up on a post after 10 seconds
    "ddb",        \* a read or write of the row fails
    "stale",      \* an eventually consistent read misses a save
    "slack",      \* Slack refuses a call
    "slack_ack" } \* Slack does what is asked, its answer is lost

ASSUME TrackerAssumption == Faults \subseteq TrackerFaults /\ MaxFaults \in Nat

\* 1 started, 2 cloning, 3 editing (the agent loop's first edit), 4 editing,
\* 5 pushing, 6 opening_pr; the last post is the result.
Final    == 7
Progress == 1 .. 6
Post     == Progress \cup {Final}

VARIABLES
  at,        \* the last post of the container, 0 before the first
  outcome,   \* the result the container posts
  waiting,   \* the post the container waits for, 0 if none
  phase,     \* where the handler of a post is
  seen,      \* the tracker_message_ts a handler read, 0 if the row had none
  ts,        \* the tracker_message_ts of the row
  past,      \* what it was before, which a read may still find
  thread,    \* thread[k]: what message k of the Slack thread shows, 0 if none
  nfaults,   \* how many faults there were so far
  happened   \* and of which kinds

faultVars == <<nfaults, happened>>
tvars == <<at, outcome, waiting, phase, seen, ts, past, thread, faultVars>>

Phases == {"unsent", "posted", "calling", "falling", "saving", "done", "lost"}
Over   == {"done", "lost"}

TrackerTypeOK ==
  /\ at \in 0 .. Final
  /\ outcome \in {"none", "success", "error"}
  /\ waiting \in 0 .. Final
  /\ phase \in [Post -> Phases]
  /\ seen \in [Post -> 0 .. 6]
  /\ ts \in 0 .. 6
  /\ past \subseteq 0 .. 6
  /\ thread \in [Post -> 0 .. Final]
  /\ nfaults \in 0 .. MaxFaults
  /\ happened \subseteq Faults

TrackerInit ==
  /\ at = 0
  /\ outcome = "none"
  /\ waiting = 0
  /\ phase = [k \in Post |-> "unsent"]
  /\ seen = [k \in Post |-> 0]
  /\ ts = 0
  /\ past = {}
  /\ thread = [k \in Post |-> 0]
  /\ nfaults = 0
  /\ happened = {}

Fault(kind) ==
  /\ kind \in Faults
  /\ nfaults < MaxFaults
  /\ nfaults' = nfaults + 1
  /\ happened' = happened \cup {kind}

-----------------------------------------------------------------------------
(***************************************************************************)
(* The container's side.                                                   *)
(***************************************************************************)

\* Mutant: the container does not wait for the answer.
Send_NoWait(k) ==
  /\ at' = k
  /\ \/ phase' = [phase EXCEPT ![k] = "posted"] /\ UNCHANGED faultVars
     \/ phase' = [phase EXCEPT ![k] = "lost"] /\ Fault("net")
  /\ UNCHANGED <<waiting, seen, ts, past, thread>>

\* The container sends post k and waits, or finds the bridge unreachable.
Send(k) ==
  /\ waiting = 0
  /\ at' = k
  /\ \/ /\ phase' = [phase EXCEPT ![k] = "posted"]
        /\ waiting' = k
        /\ UNCHANGED faultVars
     \/ /\ phase' = [phase EXCEPT ![k] = "lost"]
        /\ UNCHANGED waiting
        /\ Fault("net")
  /\ UNCHANGED <<seen, ts, past, thread>>

\* The milestones that may follow: the agent loop need not edit a file.
NextSteps == IF at = 2 THEN {3, 4} ELSE {at + 1} \cap Progress

PostProgress ==
  /\ at < Final
  /\ \E k \in NextSteps : Send(k)
  /\ UNCHANGED outcome

\* The result: a success after the last milestone, an error before it.
PostResult ==
  /\ at \in Progress
  /\ outcome' = IF at = 6 THEN "success" ELSE "error"
  /\ Send(Final)

GiveUpWaiting ==
  /\ waiting # 0
  /\ Fault("timeout")
  /\ waiting' = 0
  /\ UNCHANGED <<at, outcome, phase, seen, ts, past, thread>>

-----------------------------------------------------------------------------
(***************************************************************************)
(* The handlers: handle_sandbox_progress for the milestones,               *)
(* handle_sandbox_complete for the result.  Between the steps of one, the  *)
(* event loop runs the others.                                             *)
(***************************************************************************)

\* Handler k is at p; the container hears of it when it is over.
Enter(k, p) ==
  /\ phase' = [phase EXCEPT ![k] = p]
  /\ waiting' = IF p \in Over /\ waiting = k THEN 0 ELSE waiting

\* The row and the bot token are read, and the call to Slack goes out.  The read
\* of the row is eventually consistent.
ReadRow(k) ==
  /\ phase[k] = "posted"
  /\ \/ /\ seen' = [seen EXCEPT ![k] = ts]
        /\ Enter(k, "calling")
        /\ UNCHANGED faultVars
     \/ /\ \E old \in past : seen' = [seen EXCEPT ![k] = old]
        /\ Enter(k, "calling")
        /\ Fault("stale")
     \/ Enter(k, "lost") /\ UNCHANGED seen /\ Fault("ddb")
  /\ UNCHANGED <<at, outcome, ts, past, thread>>

Show(m, k) == thread' = [thread EXCEPT ![m] = k]

\* chat.update of the tracker the row named, chat.postMessage if it named none.
Target(k) == IF seen[k] = 0 THEN k ELSE seen[k]

\* Mutant: no plain text when the tracker cannot be updated.
AfterCall_NoFallback(k, ok) ==
  IF ok /\ k # Final /\ seen[k] = 0 THEN "saving" ELSE "done"

\* Only a new tracker is saved; a result that could not be shown on the
\* tracker is posted as plain text.
AfterCall(k, ok) ==
  IF ok /\ k # Final /\ seen[k] = 0 THEN "saving"
  ELSE IF ~ok /\ k = Final /\ seen[k] # 0 THEN "falling" ELSE "done"

CallSlack(k) ==
  /\ phase[k] = "calling"
  /\ \/ Show(Target(k), k) /\ Enter(k, AfterCall(k, TRUE)) /\ UNCHANGED faultVars
     \/ Show(Target(k), k) /\ Enter(k, AfterCall(k, FALSE)) /\ Fault("slack_ack")
     \/ UNCHANGED thread /\ Enter(k, AfterCall(k, FALSE)) /\ Fault("slack")
  /\ UNCHANGED <<at, outcome, seen, ts, past>>

\* Mutant: the timestamp of the new tracker is not saved.
SaveTs_Dropped(k) ==
  /\ phase[k] = "saving"
  /\ Enter(k, "done")
  /\ UNCHANGED <<at, outcome, seen, thread, ts, past, faultVars>>

SaveTs(k) ==
  /\ phase[k] = "saving"
  /\ Enter(k, "done")
  /\ \/ ts' = k /\ past' = past \cup {ts} /\ UNCHANGED faultVars
     \/ UNCHANGED <<ts, past>> /\ Fault("ddb")
  /\ UNCHANGED <<at, outcome, seen, thread>>

FallBack ==
  /\ phase[Final] = "falling"
  /\ Enter(Final, "done")
  /\ \/ Show(Final, Final) /\ UNCHANGED faultVars
     \/ UNCHANGED thread /\ Fault("slack")
  /\ UNCHANGED <<at, outcome, seen, ts, past>>

-----------------------------------------------------------------------------
Handle(k) == ReadRow(k) \/ CallSlack(k) \/ SaveTs(k) \/ (k = Final /\ FallBack)

TrackerNext ==
  \/ PostProgress
  \/ PostResult
  \/ GiveUpWaiting
  \/ \E k \in Post : Handle(k)

TrackerSpec == TrackerInit /\ [][TrackerNext]_tvars

-----------------------------------------------------------------------------
(***************************************************************************)
(* Properties.                                                             *)
(***************************************************************************)
Trackers == {k \in Progress : thread[k] # 0}

\* Whatever goes wrong, an extra tracker costs a fault of its own, be it a call that
\* fails or a read that misses the timestamp just saved: nothing makes every later
\* milestone post a message.  Lost posts and refused calls never make one: that
\* takes a container that gave up on a post, a row that could not be read or
\* written or was read too early, or a lost answer of Slack.
TrackersBounded ==
  Cardinality(Trackers) <= IF happened \subseteq {"net", "slack"} THEN 1 ELSE 1 + nfaults

\* As long as the container waits for its answers, no message of the thread
\* ever shows less than it did, whichever calls fail.
NoStepBack ==
  [][ "timeout" \notin happened => \A m \in Post : thread'[m] >= thread[m] ]_tvars

\* A result whose handler found a tracker reaches the thread, on the tracker or
\* as plain text, and stays, unless more than one thing went wrong or a handler
\* the container gave up on is still at work.
ResultShown ==
  (phase[Final] = "done" /\ seen[Final] # 0 /\ nfaults <= 1 /\ "timeout" \notin happened)
    => \E m \in Post : thread[m] = Final
=============================================================================
