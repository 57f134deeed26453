--------------------------- MODULE SlackDelivery ---------------------------
(***************************************************************************)
(* One Slack event on its way through the bridge: the webhook with its     *)
(* deduplication (main.py, dedup.py), the background task that invokes the *)
(* agent (async_dispatcher.py, client.py) and the streamed reply           *)
(* (adapters/slack.py), with Slack's redeliveries and the agent at its two *)
(* ends.  Delivery k may have a background task of its own; the uvicorn    *)
(* workers that run them share nothing but the table of processed events.  *)
(*                                                                         *)
(* The agent's answer is the units 1, 2, ... length; a unit is the text of *)
(* one release of the tick loop.                                           *)
(***************************************************************************)
EXTENDS Naturals, Sequences, FiniteSets

CONSTANTS
  MaxLength,   \* the longest answer
  MaxDelivery, \* Slack's first delivery and its retries
  CatchUp,     \* CATCHUP_THRESHOLD, in units
  Burst,       \* MAX_CHARS, in units
  Faults,      \* the kinds of fault that may happen
  MaxFaults    \* how many may happen in one behaviour (model bound)

DeliveryFaults ==
  { "net",         \* a delivery does not reach the bridge
    "slow",        \* Slack does not hear the answer within three seconds
    "dedup",       \* PutItem of the event fails, or its answer is lost
    "dedup_again", \* its answer is lost and boto3 sends it again
    "lookup",      \* the workspace mapping or the bot policy cannot be read
    "token",       \* the bot token cannot be read
    "agent",       \* the agent fails: its stream ends with an error frame
    "conn",        \* the invocation fails or its connection breaks
    "slack",       \* Slack refuses a call
    "slack_ack",   \* Slack does what is asked, its answer is lost
    "crash" }      \* a worker process dies

ASSUME DeliveryAssumption ==
  /\ MaxLength \in Nat /\ MaxFaults \in Nat /\ CatchUp \in Nat
  /\ MaxDelivery \in Nat \ {0} /\ Burst \in Nat \ {0}
  /\ Faults \subseteq DeliveryFaults

VARIABLES
  wanted,    \* the workspace is known and the bot policy lets the event in
  length,    \* how long the agent's answer is
  slack,     \* what Slack knows of each delivery
  marked,    \* the event's row in processed_events
  pc,        \* where each delivery's handler, then its background task, is
  runs,      \* how often the task invoked the agent
  run,       \* the streamed invocation
  said,      \* how much of its answer it has sent
  queue,     \* what came from the agent and the tick loop has not taken
  pending,   \* what the tick loop has not released
  sending,   \* the releases the sender has not taken
  sender,    \* the sender task
  message,   \* the streamed message in the thread and the ts the task has
  posts,     \* the plain messages in the thread
  nfaults,   \* how many faults there were so far
  happened   \* and of which kinds

intakeVars == <<slack, marked>>
agentVars  == <<runs, run, said>>
flowVars   == <<pending, sending, sender>>
threadVars == <<message, posts>>
faultVars  == <<nfaults, happened>>
dvars == <<wanted, length, intakeVars, pc, agentVars, queue, flowVars, threadVars, faultVars>>

Delivery == 1 .. MaxDelivery
End      == 0                \* the None at the end of the agent's queue
Stop     == <<>>             \* the None at the end of the send queue
UpTo(n)  == [i \in 1 .. n |-> i]

Stages == {"off", "dedup", "resolve", "open", "stream", "drain", "wait", "clean",
           "invoke", "reply", "excuse", "over", "dead"}

DeliveryTypeOK ==
  /\ wanted \in BOOLEAN
  /\ length \in 0 .. MaxLength
  /\ slack \in [Delivery -> {"unsent", "waiting", "acked", "failed"}]
  /\ marked \in BOOLEAN
  /\ pc \in [Delivery -> Stages]
  /\ runs \in [Delivery -> 0 .. 2]
  /\ run \in [Delivery -> {"none", "running", "ended", "broken"}]
  /\ said \in [Delivery -> 0 .. length]
  /\ queue \in [Delivery -> Seq(0 .. length)]
  /\ pending \in [Delivery -> Seq(1 .. length)]
  /\ sending \in [Delivery -> Seq(Seq(1 .. length))]
  /\ sender \in [Delivery -> {"off", "on", "done", "failed"}]
  /\ message \in [Delivery -> [state : {"none", "open", "final"}, ts : BOOLEAN,
                               text : Seq(1 .. length)]]
  /\ posts \in [Delivery -> SUBSET {"empty", "answer", "error"}]
  /\ nfaults \in 0 .. MaxFaults
  /\ happened \subseteq Faults

DeliveryInit ==
  /\ wanted \in BOOLEAN
  /\ length \in 0 .. MaxLength
  /\ slack = [k \in Delivery |-> "unsent"]
  /\ marked = FALSE
  /\ pc = [k \in Delivery |-> "off"]
  /\ runs = [k \in Delivery |-> 0]
  /\ run = [k \in Delivery |-> "none"]
  /\ said = [k \in Delivery |-> 0]
  /\ queue = [k \in Delivery |-> <<>>]
  /\ pending = [k \in Delivery |-> <<>>]
  /\ sending = [k \in Delivery |-> <<>>]
  /\ sender = [k \in Delivery |-> "off"]
  /\ message = [k \in Delivery |-> [state |-> "none", ts |-> FALSE, text |-> <<>>]]
  /\ posts = [k \in Delivery |-> {}]
  /\ nfaults = 0
  /\ happened = {}

Fault(kind) ==
  /\ kind \in Faults
  /\ nfaults < MaxFaults
  /\ nfaults' = nfaults + 1
  /\ happened' = happened \cup {kind}

NoFault == UNCHANGED faultVars

Goto(k, p) == pc' = [pc EXCEPT ![k] = p]

-----------------------------------------------------------------------------
(***************************************************************************)
(* The webhook.                                                            *)
(***************************************************************************)

\* Slack sends the event, and again when it got no 200 in time.
Deliver(k) ==
  /\ slack[k] = "unsent"
  /\ k > 1 => slack[k - 1] = "failed"
  /\ \/ slack' = [slack EXCEPT ![k] = "waiting"] /\ Goto(k, "dedup") /\ NoFault
     \/ slack' = [slack EXCEPT ![k] = "failed"] /\ UNCHANGED pc /\ Fault("net")
  /\ UNCHANGED <<wanted, length, marked, agentVars, queue, flowVars, threadVars>>

StopWaiting(k) ==
  /\ slack[k] = "waiting"
  /\ Fault("slow")
  /\ slack' = [slack EXCEPT ![k] = "failed"]
  /\ UNCHANGED <<wanted, length, marked, pc, agentVars, queue, flowVars, threadVars>>

\* The handler answers; what it leaves to a background task starts after that.
Respond(k, status, next) ==
  /\ slack' = [slack EXCEPT ![k] = IF @ = "waiting" THEN status ELSE @]
  /\ Goto(k, next)

\* Mutant: the memory of one process (InMemoryDedup) is used by two workers.
CheckDuplicate_InMemory(k) ==
  /\ pc[k] = "dedup"
  /\ \/ marked' \in {marked, TRUE} /\ Goto(k, "resolve") /\ UNCHANGED slack
     \/ marked /\ UNCHANGED marked /\ Respond(k, "acked", "over")
  /\ NoFault
  /\ UNCHANGED <<wanted, length, agentVars, queue, flowVars, threadVars>>

\* Mutant: an event is dropped when the table does not answer (fail closed).
CheckDuplicate_Closed(k) ==
  /\ pc[k] = "dedup"
  /\ \/ ~marked /\ marked' = TRUE /\ Goto(k, "resolve") /\ UNCHANGED slack /\ NoFault
     \/ marked /\ UNCHANGED marked /\ Respond(k, "acked", "over") /\ NoFault
     \/ UNCHANGED marked /\ Respond(k, "acked", "over") /\ Fault("dedup")
  /\ UNCHANGED <<wanted, length, agentVars, queue, flowVars, threadVars>>

\* is_duplicate: the event is marked as seen before anything is done for it.
CheckDuplicate(k) ==
  /\ pc[k] = "dedup"
  /\ \/ ~marked /\ marked' = TRUE /\ Goto(k, "resolve") /\ UNCHANGED slack /\ NoFault
     \/ marked /\ UNCHANGED marked /\ Respond(k, "acked", "over") /\ NoFault
     \/ /\ Fault("dedup")
        /\ marked' \in {marked, TRUE}
        /\ Goto(k, "resolve")
        /\ UNCHANGED slack
     \/ /\ Fault("dedup_again")
        /\ marked' = TRUE
        /\ Respond(k, "acked", "over")
  /\ UNCHANGED <<wanted, length, agentVars, queue, flowVars, threadVars>>

\* The tenant and the bot policy: an event that is not wanted is acknowledged
\* and dropped, one that cannot be decided upon is answered with a 500.
Admit(k) ==
  /\ pc[k] = "resolve"
  /\ \/ Respond(k, "acked", IF wanted THEN "open" ELSE "over") /\ NoFault
     \/ Respond(k, "failed", "over") /\ Fault("lookup")
  /\ UNCHANGED <<wanted, length, marked, agentVars, queue, flowVars, threadVars>>

-----------------------------------------------------------------------------
(***************************************************************************)
(* The agent, read by a thread and then by the producer task.  It goes on  *)
(* when the reply has failed.                                              *)
(***************************************************************************)
AgentSays(k) ==
  /\ run[k] = "running" /\ pc[k] \notin {"over", "dead"}
  /\ said[k] < length
  /\ said' = [said EXCEPT ![k] = @ + 1]
  /\ queue' = [queue EXCEPT ![k] = Append(@, said'[k])]
  /\ UNCHANGED <<wanted, length, intakeVars, pc, runs, run, flowVars, threadVars, faultVars>>

\* An error frame carries no text: _parse_sse_frame drops it, and to the bridge
\* the answer is complete.  A broken connection raises.
AgentEnds(k) ==
  /\ run[k] = "running" /\ pc[k] \notin {"over", "dead"}
  /\ \/ said[k] = length /\ run' = [run EXCEPT ![k] = "ended"] /\ NoFault
     \/ said[k] < length /\ run' = [run EXCEPT ![k] = "ended"] /\ Fault("agent")
     \/ run' = [run EXCEPT ![k] = "broken"] /\ Fault("conn")
  /\ queue' = [queue EXCEPT ![k] = Append(@, End)]
  /\ UNCHANGED <<wanted, length, intakeVars, pc, runs, said, flowVars, threadVars>>

-----------------------------------------------------------------------------
(***************************************************************************)
(* stream_reply: the tick loop takes what the agent said and releases it   *)
(* piece by piece to the sender task, which alone calls Slack.             *)
(***************************************************************************)

\* Without a bot token nothing is invoked yet.
OpenStream(k) ==
  /\ pc[k] = "open"
  /\ \/ /\ Goto(k, "stream")
        /\ runs' = [runs EXCEPT ![k] = 1]
        /\ run' = [run EXCEPT ![k] = "running"]
        /\ sender' = [sender EXCEPT ![k] = "on"]
        /\ NoFault
     \/ Goto(k, "invoke") /\ UNCHANGED <<runs, run, sender>> /\ Fault("token")
  /\ UNCHANGED <<wanted, length, intakeVars, said, queue, pending, sending, threadVars>>

\* _pick_release: one unit, more of them when the loop lags behind.
PickRelease(text) ==
  IF Len(text) <= CatchUp THEN 1 ELSE IF Burst < Len(text) THEN Burst ELSE Len(text)

Release(k, text) ==
  LET n == PickRelease(text)
  IN  /\ text # <<>>
      /\ sending' = [sending EXCEPT ![k] = Append(@, SubSeq(text, 1, n))]
      /\ pending' = [pending EXCEPT ![k] = SubSeq(text, n + 1, Len(text))]

Hold(k, text) ==
  /\ pending' = [pending EXCEPT ![k] = text]
  /\ UNCHANGED sending

\* One round of the loop: all that is queued is taken, and a piece released
\* unless the last release was too recent; the round that saw the end does not
\* wait.
Tick(k) ==
  LET done == queue[k] # <<>> /\ queue[k][Len(queue[k])] = End
      text == pending[k] \o SubSeq(queue[k], 1, Len(queue[k]) - (IF done THEN 1 ELSE 0))
  IN  /\ pc[k] = "stream" /\ sender[k] # "failed"
      /\ queue[k] # <<>> \/ pending[k] # <<>>
      /\ queue' = [queue EXCEPT ![k] = <<>>]
      /\ Release(k, text) \/ ((text = <<>> \/ ~done) /\ Hold(k, text))
      /\ Goto(k, IF done THEN "drain" ELSE "stream")
      /\ UNCHANGED <<wanted, length, intakeVars, agentVars, sender, threadVars, faultVars>>

\* The loop ends early when the sender has failed.
Bail(k) ==
  /\ pc[k] = "stream" /\ sender[k] = "failed"
  /\ Goto(k, "drain")
  /\ UNCHANGED <<wanted, length, intakeVars, agentVars, queue, flowVars, threadVars, faultVars>>

\* The rest goes out without delay, and then the end mark.
Drain(k) ==
  /\ pc[k] = "drain"
  /\ \/ Release(k, pending[k]) /\ UNCHANGED pc
     \/ /\ pending[k] = <<>>
        /\ sending' = [sending EXCEPT ![k] = Append(@, Stop)]
        /\ Goto(k, "wait")
        /\ UNCHANGED pending
  /\ UNCHANGED <<wanted, length, intakeVars, agentVars, queue, sender, threadVars, faultVars>>

Shown(k, piece, known) ==
  message' = [message EXCEPT ![k] =
                [state |-> "open", ts |-> @.ts \/ known, text |-> @.text \o piece]]

\* _flush_to_slack: startStream for the first piece, appendStream for the others.
\* A failed call ends the sender.
Send(k) ==
  /\ sender[k] = "on" /\ sending[k] # <<>> /\ pc[k] # "dead"
  /\ sending' = [sending EXCEPT ![k] = Tail(@)]
  /\ LET piece == Head(sending[k])
         Ends(how) == sender' = [sender EXCEPT ![k] = how]
     IN  \/ piece = Stop /\ Ends("done") /\ UNCHANGED message /\ NoFault
         \/ /\ piece # Stop
            /\ \/ Shown(k, piece, TRUE) /\ UNCHANGED sender /\ NoFault
               \/ Shown(k, piece, FALSE) /\ Ends("failed") /\ Fault("slack_ack")
               \/ UNCHANGED message /\ Ends("failed") /\ Fault("slack")
  /\ UNCHANGED <<wanted, length, intakeVars, pc, agentVars, queue, pending, posts>>

-----------------------------------------------------------------------------
(***************************************************************************)
(* The end of stream_reply, and dispatch_async after it.                   *)
(***************************************************************************)

\* The sender's error, then the producer's.
Surface(k) ==
  /\ pc[k] = "wait"
  /\ sender[k] = "failed" \/ (sender[k] = "done" /\ run[k] = "broken")
  /\ Goto(k, "clean")
  /\ UNCHANGED <<wanted, length, intakeVars, agentVars, queue, flowVars, threadVars, faultVars>>

\* A call of Slack that does `effect' and goes on at p, or at q when it fails.
CallSlack(k, effect, none, p, q) ==
  \/ effect /\ Goto(k, p) /\ NoFault
  \/ effect /\ Goto(k, q) /\ Fault("slack_ack")
  \/ none /\ Goto(k, q) /\ Fault("slack")

Finalize(k) ==
  message' = [message EXCEPT ![k].state = "final"] /\ UNCHANGED posts

PostPlain(k, what) ==
  posts' = [posts EXCEPT ![k] = @ \cup {what}] /\ UNCHANGED message

\* Mutant: the stream is stopped without waiting for the sender.
Conclude_NoWait(k) ==
  /\ pc[k] = "wait" /\ run[k] = "ended"
  /\ CallSlack(k, IF message[k].ts THEN Finalize(k) ELSE PostPlain(k, "empty"),
               UNCHANGED threadVars, "over", "clean")
  /\ UNCHANGED <<wanted, length, intakeVars, agentVars, queue, flowVars>>

\* stopStream, or a plain message when there was no text at all.
Conclude(k) ==
  /\ pc[k] = "wait" /\ sender[k] = "done" /\ run[k] = "ended"
  /\ CallSlack(k, IF message[k].ts THEN Finalize(k) ELSE PostPlain(k, "empty"),
               UNCHANGED threadVars, "over", "clean")
  /\ UNCHANGED <<wanted, length, intakeVars, agentVars, queue, flowVars>>

\* Mutant: the stream is left as it is.
CleanUp_Skipped(k) ==
  /\ pc[k] = "clean"
  /\ Goto(k, "invoke")
  /\ UNCHANGED <<wanted, length, intakeVars, agentVars, queue, flowVars, threadVars, faultVars>>

\* The stream is stopped as well as it can be, and the error raised again.
CleanUp(k) ==
  /\ pc[k] = "clean"
  /\ IF message[k].ts
       THEN CallSlack(k, Finalize(k), UNCHANGED threadVars, "invoke", "invoke")
       ELSE Goto(k, "invoke") /\ UNCHANGED threadVars /\ NoFault
  /\ UNCHANGED <<wanted, length, intakeVars, agentVars, queue, flowVars>>

\* The buffered path invokes the agent anew.  An agent that fails is not heard of:
\* there is less of its answer, or nothing, which Slack does not take (see Post).
Invoke(k) ==
  /\ pc[k] = "invoke"
  /\ runs' = [runs EXCEPT ![k] = @ + 1]
  /\ \/ Goto(k, "reply") /\ (NoFault \/ Fault("agent"))
     \/ Goto(k, "excuse") /\ (Fault("conn") \/ Fault("agent"))
  /\ UNCHANGED <<wanted, length, intakeVars, run, said, queue, flowVars, threadVars>>

\* Adapter.reply: without a token (the cache is cleared by every installation) it
\* drops the text; Slack refuses one that is empty (no_text), which only the
\* streamed reply looks for.
Post(k, what, empty, p, q) ==
  /\ \/ ~empty /\ CallSlack(k, PostPlain(k, what), UNCHANGED threadVars, p, q)
     \/ empty /\ Goto(k, q) /\ UNCHANGED threadVars /\ NoFault
     \/ Goto(k, "over") /\ UNCHANGED threadVars /\ Fault("token")
  /\ UNCHANGED <<wanted, length, intakeVars, agentVars, queue, flowVars>>

Reply(k)  == pc[k] = "reply"  /\ Post(k, "answer", length = 0, "over", "excuse")
Excuse(k) == pc[k] = "excuse" /\ Post(k, "error", FALSE, "over", "over")

\* A worker dies with the requests and tasks it runs.
WorkerCrash ==
  LET active == {k \in Delivery : pc[k] \notin {"off", "over", "dead"}}
  IN  \E K \in SUBSET active \ {{}} :
        /\ Fault("crash")
        /\ pc' = [k \in Delivery |-> IF k \in K THEN "dead" ELSE pc[k]]
        /\ slack' = [k \in Delivery |-> IF k \in K /\ slack[k] = "waiting"
                                          THEN "failed" ELSE slack[k]]
        /\ UNCHANGED <<wanted, length, marked, agentVars, queue, flowVars, threadVars>>

-----------------------------------------------------------------------------
Handler(k) == CheckDuplicate(k) \/ Admit(k)
Loop(k)    == OpenStream(k) \/ Tick(k) \/ Bail(k) \/ Drain(k)
Finish(k)  == Surface(k) \/ Conclude(k) \/ CleanUp(k) \/ Invoke(k) \/ Reply(k) \/ Excuse(k)
Agent(k)   == AgentSays(k) \/ AgentEnds(k)

DeliveryNext ==
  \/ \E k \in Delivery : Deliver(k) \/ StopWaiting(k) \/ Handler(k)
  \/ \E k \in Delivery : Agent(k) \/ Loop(k) \/ Send(k) \/ Finish(k)
  \/ WorkerCrash

DeliverySpec == DeliveryInit /\ [][DeliveryNext]_dvars

\* Slack sends the event and retries; tasks of a live process and the agent go on.
DeliveryFairSpec ==
  /\ DeliverySpec
  /\ \A k \in Delivery :
       /\ WF_dvars(Deliver(k))
       /\ WF_dvars(Handler(k) \/ Loop(k) \/ Finish(k))
       /\ WF_dvars(Agent(k))
       /\ WF_dvars(Send(k))

-----------------------------------------------------------------------------
(***************************************************************************)
(* Properties.                                                             *)
(***************************************************************************)

\* What a streamed message shows is the beginning of what the agent said, in its
\* order; when the reply ends without a second run, it is all of it.
StreamFaithful ==
  \A k \in Delivery :
    /\ message[k].text = UpTo(Len(message[k].text))
    /\ Len(message[k].text) <= said[k]
    /\ (pc[k] = "over" /\ runs[k] = 1 /\ run[k] = "ended" /\ posts[k] = {})
         => message[k].state = "final" /\ message[k].text = UpTo(said[k])

AllRuns == UNION {{<<k, i>> : i \in 1 .. runs[k]} : k \in Delivery}

\* Redeliveries, slow handlers, crashes and failed lookups never run the agent
\* twice for one event: a second run needs a failing table of events, or a
\* reply that failed and is made again.
RetriesNeverRunTwice ==
  happened \cap {"dedup", "conn", "slack", "slack_ack"} = {} => Cardinality(AllRuns) <= 1

\* A task that ends leaves a message streaming only when Slack refused a call (the
\* clean-up's stopStream) and something else had failed before, the stream or the
\* connection to the agent, or when an answer of Slack was lost, with which the
\* timestamp of the stream may be.
StreamsClosed ==
  \A k \in Delivery :
    (pc[k] = "over" /\ message[k].state = "open")
      => (nfaults > 1 /\ "slack" \in happened) \/ "slack_ack" \in happened

\* A single fault is never shown to the user, for the buffered path makes up for
\* it, when the agent has something to say: an empty answer that is made again is
\* refused by Slack, and the user told of an error.
SingleFaultMasked ==
  (nfaults <= 1 /\ length > 0) => \A k \in Delivery : "error" \notin posts[k]

Told(k) ==
  posts[k] # {} \/ (pc[k] = "over" /\ runs[k] = 1 /\ message[k].state = "final")

\* An event that is wanted and reached the bridge is never left with nobody at
\* work on it and no answer, whatever single thing fails, but for the three that
\* lose it (see Answered): duplicates are dropped only for a delivery that goes on.
NeverDropped ==
  (/\ wanted /\ nfaults <= 1 /\ happened \cap {"crash", "lookup", "dedup_again"} = {}
   /\ \E k \in Delivery : pc[k] # "off"
   /\ \A k \in Delivery : pc[k] \in {"off", "over"})
    => \E k \in Delivery : Told(k)

\* An event that is wanted is answered whatever single thing fails, but for the
\* three that lose it: a crash, a failed lookup after it was marked, and a mark
\* that was sent twice.
Answered ==
  (wanted /\ slack[1] # "unsent")
    ~> (\/ \E k \in Delivery : Told(k)
        \/ nfaults > 1 \/ happened \cap {"crash", "lookup", "dedup_again"} # {})
=============================================================================
