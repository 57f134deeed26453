-------------------------- MODULE SlackThread_proofs --------------------------
(***************************************************************************)
(* What reaches the user's thread: the reply to an event (SlackDelivery)   *)
(* and the end of a job (SandboxSystem).                                   *)
(*                                                                         *)
(* However often Slack delivers an event, and wherever a handler fails,    *)
(* the agent is run for it once, as long as the table of processed events  *)
(* answers and the reply succeeds.  A job and its tracker behave together  *)
(* as each does alone, so a success the thread shows is one.               *)
(***************************************************************************)
EXTENDS SlackDelivery, SandboxSystem, FiniteSetTheorems, TLAPS

Working == {"resolve", "open", "stream", "drain", "wait", "clean", "invoke", "reply", "excuse"}

\* A delivery that passed the deduplication, or ran the agent.
Taken(k) == pc[k] \in Working \/ runs[k] > 0

\* Types, and how often the agent was run at each stage.
Shape ==
  /\ slack \in [Delivery -> {"unsent", "waiting", "acked", "failed"}]
  /\ marked \in BOOLEAN
  /\ pc \in [Delivery -> Stages]
  /\ runs \in [Delivery -> 0 .. 2]
  /\ run \in [Delivery -> {"none", "running", "ended", "broken"}]
  /\ sender \in [Delivery -> {"off", "on", "done", "failed"}]
  /\ \A k \in Delivery :
       /\ slack[k] = "unsent" => pc[k] = "off"
       /\ pc[k] \in {"off", "dedup", "resolve", "open"} => runs[k] = 0 /\ run[k] = "none"
       /\ pc[k] \in {"stream", "drain", "wait", "clean"} => runs[k] = 1
       /\ pc[k] = "invoke" => runs[k] <= 1

\* Whoever is past the deduplication has marked the event, and is alone.
Once ==
  "dedup" \notin happened =>
    /\ \A k \in Delivery : Taken(k) => marked
    /\ \A j, k \in Delivery : Taken(j) /\ Taken(k) => j = k

\* While calls of Slack and of the agent succeed, no task turns to the buffered
\* path after a stream.
Smooth ==
  happened \cap {"conn", "slack", "slack_ack"} = {} =>
    \A k \in Delivery :
      /\ run[k] # "broken" /\ sender[k] # "failed" /\ pc[k] # "clean"
      /\ pc[k] = "invoke" => runs[k] = 0
      /\ runs[k] <= 1

DeliveryInv == Shape /\ Once /\ Smooth

-----------------------------------------------------------------------------
LEMMA DeliveryInit_Inv == DeliveryInit => DeliveryInv
<1> SUFFICES ASSUME DeliveryInit PROVE DeliveryInv
  OBVIOUS
<1>1. marked \in BOOLEAN
  BY Zenon DEF DeliveryInit
<1>2. Shape
  BY <1>1 DEF DeliveryInit, Shape, Stages
<1>3. \A k \in Delivery : ~ Taken(k)
  BY DEF DeliveryInit, Taken, Working
<1>4. Smooth
  BY DEF DeliveryInit, Smooth
<1> QED
  BY <1>2, <1>3, <1>4 DEF DeliveryInv, Once

\* The webhook.
LEMMA Webhook_Inv ==
  ASSUME DeliveryInv, NEW k \in Delivery,
         Deliver(k) \/ StopWaiting(k) \/ Handler(k)
  PROVE  DeliveryInv'
<1> USE DEF DeliveryInv, Shape, Once, Smooth, Taken, Working, Stages, Goto, Fault, NoFault,
            agentVars, flowVars, faultVars, Respond
<1>1. CASE Deliver(k)
  BY <1>1 DEF Deliver
<1>2. CASE StopWaiting(k)
  BY <1>2 DEF StopWaiting
<1>3. CASE CheckDuplicate(k)
  <2>1. pc[k] = "dedup" /\ UNCHANGED <<runs, run, sender>>
    BY <1>3, Zenon DEF CheckDuplicate
  <2>2. \/ pc' = [pc EXCEPT ![k] = "resolve"] /\ UNCHANGED slack
        \/ /\ pc' = [pc EXCEPT ![k] = "over"]
           /\ slack' = [slack EXCEPT ![k] = IF @ = "waiting" THEN "acked" ELSE @]
    BY <1>3, Zenon DEF CheckDuplicate
  <2>3. \A kind : kind \in happened => kind \in happened'
    BY <1>3, Zenon DEF CheckDuplicate
  <2>4. marked' \in BOOLEAN
    BY <1>3, Zenon DEF CheckDuplicate
  <2>5. Shape'
    BY <2>1, <2>2, <2>4
  <2>6. Smooth'
    BY <2>1, <2>2, <2>3
  <2>7. ASSUME "dedup" \notin happened' PROVE marked' = TRUE
    BY <1>3, <2>7, Zenon DEF CheckDuplicate
  <2>8. ASSUME "dedup" \notin happened', pc'[k] = "resolve"
        PROVE  \A j \in Delivery : ~ Taken(j)
    <3>1. ~ marked
      BY <1>3, <2>8 DEF CheckDuplicate
    <3> QED
      BY <2>3, <2>8, <3>1, Zenon
  <2>9. Once'
    BY <2>1, <2>2, <2>3, <2>7, <2>8
  <2> QED
    BY <2>5, <2>6, <2>9
<1>4. CASE Admit(k)
  BY <1>4 DEF Admit
<1> QED
  BY <1>1, <1>2, <1>3, <1>4 DEF Handler

\* The agent and the streamed reply.
LEMMA Stream_Inv ==
  ASSUME DeliveryInv, NEW k \in Delivery, Agent(k) \/ Loop(k) \/ Send(k)
  PROVE  DeliveryInv'
<1> USE DEF DeliveryInv, Shape, Once, Smooth, Taken, Working, Stages, Goto, Fault, NoFault,
            agentVars, intakeVars, flowVars, faultVars
<1>1. CASE AgentSays(k)
  BY <1>1 DEF AgentSays
<1>2. CASE AgentEnds(k)
  <2>1. PICK r \in {"ended", "broken"} :
          /\ run' = [run EXCEPT ![k] = r]
          /\ r = "broken" => "conn" \in happened'
    BY <1>2, Zenon DEF AgentEnds
  <2>2. UNCHANGED <<slack, marked, pc, runs, sender>> /\ run[k] = "running"
    BY <1>2 DEF AgentEnds
  <2>3. \A kind : kind \in happened => kind \in happened'
    BY <1>2, Zenon DEF AgentEnds
  <2> QED
    BY <2>1, <2>2, <2>3
<1>3. CASE OpenStream(k)
  BY <1>3 DEF OpenStream
<1>4. CASE Tick(k)
  BY <1>4 DEF Tick
<1>5. CASE Bail(k)
  BY <1>5 DEF Bail
<1>6. CASE Drain(k)
  BY <1>6 DEF Drain
<1>7. CASE Send(k)
  BY <1>7 DEF Send
<1> QED
  BY <1>1, <1>2, <1>3, <1>4, <1>5, <1>6, <1>7 DEF Agent, Loop

\* The end of the reply.
LEMMA Finish_Inv ==
  ASSUME DeliveryInv, NEW k \in Delivery, Finish(k)
  PROVE  DeliveryInv'
<1> USE DEF DeliveryInv, Shape, Once, Smooth, Taken, Working, Stages, Goto, Fault, NoFault,
            agentVars, intakeVars, flowVars, faultVars
<1>1. CASE Surface(k)
  BY <1>1 DEF Surface
<1>2. CASE Conclude(k)
  BY <1>2 DEF Conclude, CallSlack
<1>3. CASE CleanUp(k)
  BY <1>3 DEF CleanUp, CallSlack
<1>4. CASE Invoke(k)
  BY <1>4 DEF Invoke
<1>5. CASE Reply(k)
  BY <1>5 DEF Reply, Post, CallSlack
<1>6. CASE Excuse(k)
  BY <1>6 DEF Excuse, Post, CallSlack
<1> QED
  BY <1>1, <1>2, <1>3, <1>4, <1>5, <1>6 DEF Finish

LEMMA Crash_Inv == DeliveryInv /\ WorkerCrash => DeliveryInv'
  BY DEF DeliveryInv, Shape, Once, Smooth, Taken, Working, Stages, Fault, WorkerCrash,
         agentVars, flowVars

LEMMA DeliveryStep_Inv == DeliveryInv /\ [DeliveryNext]_dvars => DeliveryInv'
<1> SUFFICES ASSUME DeliveryInv, [DeliveryNext]_dvars PROVE DeliveryInv'
  OBVIOUS
<1>1. CASE UNCHANGED dvars
  BY <1>1 DEF DeliveryInv, Shape, Once, Smooth, Taken, dvars, intakeVars, agentVars,
              flowVars, faultVars
<1>2. ASSUME NEW k \in Delivery, Deliver(k) \/ StopWaiting(k) \/ Handler(k)
      PROVE  DeliveryInv'
  BY <1>2, Webhook_Inv
<1>3. ASSUME NEW k \in Delivery, Agent(k) \/ Loop(k) \/ Send(k) \/ Finish(k)
      PROVE  DeliveryInv'
  BY <1>3, Stream_Inv, Finish_Inv
<1> QED
  BY <1>1, <1>2, <1>3, Crash_Inv DEF DeliveryNext

LEMMA DeliveryInvariant == DeliverySpec => []DeliveryInv
  BY DeliveryInit_Inv, DeliveryStep_Inv, PTL DEF DeliverySpec

-----------------------------------------------------------------------------
(***************************************************************************)
(* Types.  Shape has those of the control; the others are the event, the   *)
(* faults and plain messages, and the text on its way to the thread.       *)
(***************************************************************************)
PlainTyped ==
  /\ wanted \in BOOLEAN
  /\ length \in 0 .. MaxLength
  /\ posts \in [Delivery -> SUBSET {"empty", "answer", "error"}]
  /\ nfaults \in 0 .. MaxFaults
  /\ happened \subseteq Faults

Streamed == [state : {"none", "open", "final"}, ts : BOOLEAN, text : Seq(1 .. length)]

\* The end of the agent's stream is the last thing in its queue.
TextTyped ==
  /\ said \in [Delivery -> 0 .. length]
  /\ queue \in [Delivery -> Seq(0 .. length)]
  /\ pending \in [Delivery -> Seq(1 .. length)]
  /\ sending \in [Delivery -> Seq(Seq(1 .. length))]
  /\ message \in [Delivery -> Streamed]
  /\ \A k \in Delivery :
       /\ \A i \in 1 .. Len(queue[k]) :
            queue[k][i] = End => i = Len(queue[k]) /\ run[k] # "running"
       /\ run[k] = "none" => queue[k] = <<>>

Typed == PlainTyped /\ TextTyped

LEMMA DeliveryInit_Typed == DeliveryInit => Typed
<1> SUFFICES ASSUME DeliveryInit PROVE Typed
  OBVIOUS
<1>1. wanted \in BOOLEAN
  BY Zenon DEF DeliveryInit
<1>2. [state |-> "none", ts |-> FALSE, text |-> <<>>] \in Streamed
  BY DEF Streamed
<1>3. TextTyped
  BY <1>2, DeliveryAssumption DEF DeliveryInit, TextTyped
<1>4. PlainTyped
  BY <1>1, DeliveryAssumption DEF DeliveryInit, PlainTyped
<1> QED
  BY <1>3, <1>4 DEF Typed

LEMMA FaultTyped ==
  ASSUME PlainTyped, NEW kind, Fault(kind)
  PROVE  nfaults' \in 0 .. MaxFaults /\ happened' \subseteq Faults
  BY DeliveryAssumption DEF PlainTyped, Fault

LEMMA Webhook_Typed ==
  ASSUME DeliveryInv, Typed, NEW k \in Delivery, Deliver(k) \/ StopWaiting(k) \/ Handler(k)
  PROVE  Typed'
<1> USE DEF Typed
<1>1. CASE Deliver(k)
  <2>1. PlainTyped'
    BY <1>1, FaultTyped DEF Deliver, PlainTyped, NoFault, faultVars, threadVars
  <2>2. TextTyped'
    BY <1>1 DEF Deliver, TextTyped, agentVars, flowVars, threadVars, Streamed
  <2> QED
    BY <2>1, <2>2
<1>2. CASE StopWaiting(k)
  <2>1. PlainTyped'
    BY <1>2, FaultTyped DEF StopWaiting, PlainTyped, NoFault, faultVars, threadVars
  <2>2. TextTyped'
    BY <1>2 DEF StopWaiting, TextTyped, agentVars, flowVars, threadVars, Streamed
  <2> QED
    BY <2>1, <2>2
<1>3. CASE CheckDuplicate(k)
  <2>1. PlainTyped'
    BY <1>3, FaultTyped DEF CheckDuplicate, PlainTyped, NoFault, faultVars, threadVars
  <2>2. TextTyped'
    BY <1>3 DEF CheckDuplicate, TextTyped, agentVars, flowVars, threadVars, Streamed
  <2> QED
    BY <2>1, <2>2
<1>4. CASE Admit(k)
  <2>1. PlainTyped'
    BY <1>4, FaultTyped DEF Admit, PlainTyped, NoFault, faultVars, threadVars
  <2>2. TextTyped'
    BY <1>4 DEF Admit, TextTyped, agentVars, flowVars, threadVars, Streamed
  <2> QED
    BY <2>1, <2>2
<1> QED
  BY <1>1, <1>2, <1>3, <1>4 DEF Handler

\* An action that leaves the text alone, or finalizes the message.
LEMMA TextKept ==
  ASSUME TextTyped, NEW k \in Delivery,
         UNCHANGED <<length, run, said, queue, pending, sending>>,
         \/ UNCHANGED message
         \/ message' = [message EXCEPT ![k].state = "final"]
  PROVE  TextTyped'
<1>1. message' \in [Delivery -> Streamed]
  BY DEF TextTyped, Streamed
<1> QED
  BY <1>1 DEF TextTyped, Streamed

\* An action that changes the queue of delivery k, or what follows it.
LEMMA TextMoves ==
  ASSUME TextTyped, NEW k \in Delivery, UNCHANGED length,
         NEW n \in 0 .. length, NEW q \in Seq(0 .. length), NEW p \in Seq(1 .. length),
         NEW s \in Seq(Seq(1 .. length)), NEW m \in Streamed, NEW r,
         said' = [said EXCEPT ![k] = n], queue' = [queue EXCEPT ![k] = q],
         pending' = [pending EXCEPT ![k] = p], sending' = [sending EXCEPT ![k] = s],
         message' = [message EXCEPT ![k] = m], run' = [run EXCEPT ![k] = r],
         run \in [Delivery -> {"none", "running", "ended", "broken"}],
         \A i \in 1 .. Len(q) : q[i] = End => i = Len(q) /\ r # "running",
         r = "none" => q = <<>>
  PROVE  TextTyped'
<1>1. Streamed' = Streamed
  BY DEF Streamed
<1> QED
  BY <1>1 DEF TextTyped

LEMMA Stream_Plain ==
  ASSUME PlainTyped, NEW k \in Delivery, Agent(k) \/ Loop(k) \/ Send(k)
  PROVE  PlainTyped'
<1> USE FaultTyped DEF PlainTyped, NoFault, faultVars, threadVars
<1>1. CASE AgentSays(k)
  BY <1>1 DEF AgentSays
<1>2. CASE AgentEnds(k)
  BY <1>2 DEF AgentEnds
<1>3. CASE OpenStream(k)
  BY <1>3 DEF OpenStream
<1>4. CASE Tick(k)
  BY <1>4 DEF Tick
<1>5. CASE Bail(k)
  BY <1>5 DEF Bail
<1>6. CASE Drain(k)
  BY <1>6 DEF Drain
<1>7. CASE Send(k)
  BY <1>7 DEF Send, Shown
<1> QED
  BY <1>1, <1>2, <1>3, <1>4, <1>5, <1>6, <1>7 DEF Agent, Loop

\* What a release does to a text.
LEMMA ReleaseTyped ==
  ASSUME NEW S, NEW t \in Seq(S), t # <<>>
  PROVE  /\ PickRelease(t) \in 1 .. Len(t)
         /\ SubSeq(t, 1, PickRelease(t)) \in Seq(S)
         /\ SubSeq(t, PickRelease(t) + 1, Len(t)) \in Seq(S)
<1>1. PickRelease(t) \in 1 .. Len(t)
  BY DeliveryAssumption DEF PickRelease
<1> QED
  BY <1>1

LEMMA AppendTyped ==
  ASSUME NEW S, NEW s \in Seq(S), NEW x \in S
  PROVE  Append(s, x) \in Seq(S)
  OBVIOUS

LEMMA ReleasePieces ==
  ASSUME TextTyped, NEW k \in Delivery, NEW t \in Seq(1 .. length), Release(k, t)
  PROVE  \E p \in Seq(1 .. length), s \in Seq(Seq(1 .. length)) :
           pending' = [pending EXCEPT ![k] = p] /\ sending' = [sending EXCEPT ![k] = s]
<1> DEFINE n == PickRelease(t)
<1>1. /\ SubSeq(t, 1, n) \in Seq(1 .. length)
      /\ SubSeq(t, n + 1, Len(t)) \in Seq(1 .. length)
  BY ReleaseTyped DEF Release
<1>2. Append(sending[k], SubSeq(t, 1, n)) \in Seq(Seq(1 .. length))
  BY <1>1, AppendTyped DEF TextTyped
<1>3. /\ sending' = [sending EXCEPT ![k] = Append(sending[k], SubSeq(t, 1, n))]
      /\ pending' = [pending EXCEPT ![k] = SubSeq(t, n + 1, Len(t))]
  BY Zenon DEF Release
<1> QED
  BY <1>1, <1>2, <1>3

LEMMA Stream_Text ==
  ASSUME DeliveryInv, TextTyped, length \in Nat,
         NEW k \in Delivery, Agent(k) \/ Loop(k) \/ Send(k)
  PROVE  TextTyped'
<1> USE DEF agentVars, flowVars, threadVars
<1>1. CASE AgentSays(k)
  <2>1. said[k] + 1 \in 0 .. length /\ said[k] + 1 # End
    BY <1>1 DEF AgentSays, TextTyped, End
  <2> DEFINE q == Append(queue[k], said[k] + 1)
  <2>2. q \in Seq(0 .. length) /\ Len(q) = Len(queue[k]) + 1
    BY <2>1 DEF TextTyped
  <2>3. \A i \in 1 .. Len(q) : q[i] # End
    <3>1. queue[k] \in Seq(0 .. length) /\ run[k] = "running"
      BY <1>1 DEF AgentSays, TextTyped
    <3>2. \A i \in 1 .. Len(queue[k]) : queue[k][i] # End
      BY <3>1 DEF TextTyped
    <3>3. ASSUME NEW i \in 1 .. Len(q) PROVE q[i] # End
      <4>1. CASE i = Len(queue[k]) + 1
        BY <2>1, <3>1, <4>1
      <4>2. CASE i \in 1 .. Len(queue[k])
        BY <3>1, <3>2, <4>2
      <4> QED
        BY <2>2, <4>1, <4>2
    <3> QED
      BY <3>3
  <2>4. queue' = [queue EXCEPT ![k] = q] /\ said' = [said EXCEPT ![k] = said[k] + 1]
    BY <1>1 DEF AgentSays, TextTyped
  <2>5. UNCHANGED <<length, run, pending, sending, message>>
    BY <1>1 DEF AgentSays
  <2>6. run[k] # "none"
    BY <1>1 DEF AgentSays
  <2> HIDE DEF q
  <2> QED
    BY <2>1, <2>2, <2>3, <2>4, <2>5, <2>6 DEF TextTyped, Streamed, DeliveryInv, Shape
<1>2. CASE AgentEnds(k)
  <2> DEFINE q == Append(queue[k], End)
  <2>1. q \in Seq(0 .. length) /\ Len(q) = Len(queue[k]) + 1
    BY DEF TextTyped, End
  <2>2. \A i \in 1 .. Len(q) : q[i] = End => i = Len(q)
    <3>1. queue[k] \in Seq(0 .. length) /\ run[k] = "running"
      BY <1>2 DEF AgentEnds, TextTyped
    <3>2. \A i \in 1 .. Len(queue[k]) : queue[k][i] # End
      BY <3>1 DEF TextTyped
    <3>3. \A i \in 1 .. Len(queue[k]) : q[i] = queue[k][i]
      BY <3>1
    <3>4. ASSUME NEW i \in 1 .. Len(q), i # Len(q) PROVE i \in 1 .. Len(queue[k])
      BY <2>1, <3>1, <3>4
    <3> HIDE DEF q
    <3> QED
      BY <3>2, <3>3, <3>4
  <2>3. PICK r \in {"ended", "broken"} : run' = [run EXCEPT ![k] = r]
    BY <1>2, Zenon DEF AgentEnds
  <2>4. queue' = [queue EXCEPT ![k] = q] /\ UNCHANGED <<length, said, pending, sending, message>>
    BY <1>2 DEF AgentEnds, TextTyped
  <2> HIDE DEF q
  <2> QED
    BY <2>1, <2>2, <2>3, <2>4 DEF TextTyped, Streamed, DeliveryInv, Shape
<1>3. CASE OpenStream(k)
  <2>1. queue[k] = <<>>
    BY <1>3 DEF OpenStream, TextTyped, DeliveryInv, Shape
  <2>2. UNCHANGED <<length, said, queue, pending, sending, message>>
    BY <1>3 DEF OpenStream
  <2>3. UNCHANGED run \/ run' = [run EXCEPT ![k] = "running"]
    BY <1>3 DEF OpenStream
  <2> QED
    BY <2>1, <2>2, <2>3 DEF TextTyped, Streamed, DeliveryInv, Shape
<1>4. CASE Tick(k)
  <2> DEFINE done == queue[k] # <<>> /\ queue[k][Len(queue[k])] = End
             n    == Len(queue[k]) - (IF done THEN 1 ELSE 0)
             text == pending[k] \o SubSeq(queue[k], 1, n)
  <2>1. n \in 0 .. Len(queue[k]) /\ \A i \in 1 .. n : queue[k][i] \in 1 .. length
    BY DEF TextTyped, End
  <2>2. SubSeq(queue[k], 1, n) \in Seq(1 .. length)
    BY <2>1 DEF TextTyped
  <2>3. text \in Seq(1 .. length)
    BY <2>2 DEF TextTyped
  <2> HIDE DEF text
  <2>4. PICK p \in Seq(1 .. length), s \in Seq(Seq(1 .. length)) :
          pending' = [pending EXCEPT ![k] = p] /\ sending' = [sending EXCEPT ![k] = s]
    <3>1. CASE Release(k, text)
      BY <2>3, <3>1, ReleasePieces
    <3>2. CASE Hold(k, text)
      BY <2>3, <3>2 DEF Hold, TextTyped
    <3> QED
      BY <1>4, <3>1, <3>2 DEF Tick, text
  <2>5. queue' = [queue EXCEPT ![k] = <<>>] /\ UNCHANGED <<length, said, run, message>>
    BY <1>4 DEF Tick, agentVars, threadVars
  <2>6. queue' \in [Delivery -> Seq(0 .. length)]
    BY <2>5 DEF TextTyped
  <2>7. /\ pending' \in [Delivery -> Seq(1 .. length)]
        /\ sending' \in [Delivery -> Seq(Seq(1 .. length))]
    BY <2>4 DEF TextTyped
  <2>8. \A j \in Delivery : queue'[j] = queue[j] \/ queue'[j] = <<>>
    BY <2>5 DEF TextTyped
  <2>9. said' \in [Delivery -> 0 .. length'] /\ message' \in [Delivery -> Streamed']
    BY <2>5 DEF TextTyped, Streamed
  <2>10. ASSUME NEW j \in Delivery
         PROVE  /\ \A i \in 1 .. Len(queue'[j]) :
                     queue'[j][i] = End => i = Len(queue'[j]) /\ run'[j] # "running"
                /\ run'[j] = "none" => queue'[j] = <<>>
    <3>1. CASE queue'[j] = queue[j]
      BY <2>5, <3>1 DEF TextTyped
    <3>2. CASE queue'[j] = <<>>
      BY <3>2
    <3> QED
      BY <2>8, <3>1, <3>2
  <2> QED
    BY <2>5, <2>6, <2>7, <2>9, <2>10 DEF TextTyped
<1>5. CASE Bail(k)
  BY <1>5, TextKept DEF Bail
<1>6. CASE Drain(k)
  <2>1. PICK p \in Seq(1 .. length), s \in Seq(Seq(1 .. length)) :
          pending' = [pending EXCEPT ![k] = p] /\ sending' = [sending EXCEPT ![k] = s]
    <3>1. CASE Release(k, pending[k])
      <4>1. pending[k] \in Seq(1 .. length)
        BY DEF TextTyped
      <4> QED
        BY <3>1, <4>1, ReleasePieces
    <3>2. CASE UNCHANGED pending /\ sending' = [sending EXCEPT ![k] = Append(@, Stop)]
      <4>1. Stop \in Seq(1 .. length)
        BY DEF Stop
      <4>2. Append(sending[k], Stop) \in Seq(Seq(1 .. length))
        BY <4>1, AppendTyped DEF TextTyped
      <4>3. pending[k] \in Seq(1 .. length) /\ pending' = [pending EXCEPT ![k] = pending[k]]
        BY <3>2 DEF TextTyped
      <4> QED
        BY <3>2, <4>2, <4>3
    <3> QED
      BY <1>6, <3>1, <3>2 DEF Drain
  <2> QED
    BY <1>6, <2>1 DEF Drain, TextTyped, Streamed
<1>7. CASE Send(k)
  <2>1. Head(sending[k]) \in Seq(1 .. length) /\ Tail(sending[k]) \in Seq(Seq(1 .. length))
    BY <1>7 DEF Send, TextTyped
  <2>2. ASSUME NEW b \in BOOLEAN, Shown(k, Head(sending[k]), b)
        PROVE  message' \in [Delivery -> Streamed]
    BY <2>1, <2>2 DEF Shown, TextTyped, Streamed
  <2>3. message' \in [Delivery -> Streamed]
    BY <1>7, <2>2 DEF Send, TextTyped
  <2> QED
    BY <1>7, <2>1, <2>3 DEF Send, TextTyped, Streamed
<1> QED
  BY <1>1, <1>2, <1>3, <1>4, <1>5, <1>6, <1>7 DEF Agent, Loop

LEMMA Finish_Typed ==
  ASSUME Typed, NEW k \in Delivery, Finish(k)
  PROVE  Typed'
<1> USE FaultTyped DEF NoFault, Finalize, PostPlain
<1>1. UNCHANGED <<length, run, said, queue, pending, sending>>
  BY DEF Finish, Surface, Conclude, CleanUp, Invoke, Reply, Excuse, Post, agentVars, flowVars
<1>2. UNCHANGED message \/ message' = [message EXCEPT ![k].state = "final"]
  BY DEF Finish, Surface, Conclude, CleanUp, Invoke, Reply, Excuse, Post, CallSlack, threadVars
<1>3. TextTyped'
  BY <1>1, <1>2, TextKept DEF Typed
<1>4. PlainTyped'
  <2> USE DEF Typed, PlainTyped, faultVars, threadVars
  <2>1. CASE Surface(k)
    BY <2>1 DEF Surface
  <2>2. CASE Conclude(k)
    BY <2>2 DEF Conclude, CallSlack
  <2>3. CASE CleanUp(k)
    BY <2>3 DEF CleanUp, CallSlack
  <2>4. CASE Invoke(k)
    BY <2>4 DEF Invoke
  <2>5. CASE Reply(k)
    BY <2>5 DEF Reply, Post, CallSlack
  <2>6. CASE Excuse(k)
    BY <2>6 DEF Excuse, Post, CallSlack
  <2> QED
    BY <2>1, <2>2, <2>3, <2>4, <2>5, <2>6 DEF Finish
<1> QED
  BY <1>3, <1>4 DEF Typed

LEMMA Crash_Typed == Typed /\ WorkerCrash => Typed'
  BY FaultTyped DEF Typed, PlainTyped, TextTyped, Streamed, WorkerCrash,
         agentVars, flowVars, threadVars

LEMMA Step_Typed == DeliveryInv /\ Typed /\ [DeliveryNext]_dvars => Typed'
<1> SUFFICES ASSUME DeliveryInv, Typed, [DeliveryNext]_dvars PROVE Typed'
  OBVIOUS
<1>1. CASE UNCHANGED dvars
  BY <1>1 DEF Typed, PlainTyped, TextTyped, Streamed, dvars, agentVars, flowVars,
              threadVars, faultVars
<1>2. ASSUME NEW k \in Delivery, Deliver(k) \/ StopWaiting(k) \/ Handler(k)
      PROVE  Typed'
  BY <1>2, Webhook_Typed
<1>3. ASSUME NEW k \in Delivery, Agent(k) \/ Loop(k) \/ Send(k)
      PROVE  Typed'
  <2>1. length \in Nat
    BY DeliveryAssumption DEF Typed, PlainTyped
  <2> QED
    BY <1>3, <2>1, Stream_Plain, Stream_Text DEF Typed
<1>4. ASSUME NEW k \in Delivery, Finish(k) PROVE Typed'
  BY <1>4, Finish_Typed
<1> QED
  BY <1>1, <1>2, <1>3, <1>4, Crash_Typed DEF DeliveryNext

LEMMA TypedInvariant == DeliverySpec => []Typed
  BY DeliveryInit_Typed, Step_Typed, DeliveryInvariant, PTL DEF DeliverySpec

\* Every variable of the model stays within its type: the tick loop's releases
\* are pieces of the answer, and an invocation is made at most twice
\* (adapters/slack.py, async_dispatcher.py).
THEOREM DeliveryTyped == DeliverySpec => []DeliveryTypeOK
<1>1. DeliveryInv /\ Typed => DeliveryTypeOK
  BY DEF DeliveryInv, Shape, Typed, PlainTyped, TextTyped, Streamed, DeliveryTypeOK
<1> QED
  BY <1>1, TypedInvariant, DeliveryInvariant, PTL

-----------------------------------------------------------------------------
(***************************************************************************)
(* How a stream is closed, and what a user sees of a failure.  A task is   *)
(* at the clean-up or on the buffered path because something failed; it    *)
(* knows its stream unless an answer of Slack was lost, and leaves it open *)
(* only when stopStream fails too; it apologizes only when the buffered    *)
(* path fails as well, or has nothing to say.                              *)
(***************************************************************************)
Closing ==
  \A k \in Delivery :
    /\ sender[k] = "on" => pc[k] \in {"stream", "drain", "wait", "dead"}
    /\ pc[k] \in {"off", "dedup", "resolve", "open"} => message[k].state = "none"
    /\ sender[k] = "failed" \/ run[k] = "broken" \/ pc[k] \in {"clean", "invoke", "reply"}
         => nfaults > 0
    /\ pc[k] = "excuse" \/ "error" \in posts[k]
         => nfaults > 0 /\ (length > 0 => nfaults > 1)
    /\ "slack_ack" \notin happened =>
         /\ message[k].state = "open" => message[k].ts
         /\ pc[k] \in {"invoke", "reply", "excuse", "over"} /\ message[k].state = "open"
              => nfaults > 1 /\ "slack" \in happened

\* What the steps below are about: the variables Closing speaks of.
ClosingTyped ==
  /\ \A k \in Delivery : slack[k] = "unsent" => pc[k] = "off"
  /\ nfaults \in Nat /\ length \in Nat
  /\ message \in [Delivery -> Streamed]
  /\ posts \in [Delivery -> SUBSET {"empty", "answer", "error"}]
  /\ pc \in [Delivery -> Stages]
  /\ run \in [Delivery -> {"none", "running", "ended", "broken"}]
  /\ sender \in [Delivery -> {"off", "on", "done", "failed"}]

LEMMA ClosingTypes == DeliveryInv /\ Typed => ClosingTyped
  BY DeliveryAssumption DEF DeliveryInv, Shape, Typed, PlainTyped, TextTyped, ClosingTyped

LEMMA DeliveryInit_Closing == DeliveryInit => Closing
  BY DEF DeliveryInit, Closing

LEMMA Webhook_Closing ==
  ASSUME ClosingTyped, Closing, NEW k \in Delivery,
         Deliver(k) \/ StopWaiting(k) \/ Handler(k)
  PROVE  Closing'
<1>1. /\ UNCHANGED <<length, sender, run, message, posts>>
      /\ nfaults' \in {nfaults, nfaults + 1}
      /\ \A kind : kind \in happened => kind \in happened'
  BY DEF Deliver, StopWaiting, Handler, CheckDuplicate, Admit, NoFault, Fault, faultVars,
         agentVars, flowVars, threadVars
<1>2. UNCHANGED pc \/ \E p \in Stages \ {"clean", "off"} :
                          /\ pc' = [pc EXCEPT ![k] = p]
                          /\ pc[k] \in {"off", "dedup", "resolve"}
                          /\ p \in {"dedup", "resolve", "open", "over"}
  <2> USE DEF Goto, Respond, Stages
  <2>1. CASE Deliver(k) \/ StopWaiting(k)
    BY <2>1 DEF Deliver, StopWaiting, ClosingTyped
  <2>2. CASE CheckDuplicate(k)
    <3>1. pc[k] = "dedup"
      BY <2>2 DEF CheckDuplicate
    <3>2. pc' = [pc EXCEPT ![k] = "resolve"] \/ pc' = [pc EXCEPT ![k] = "over"]
      BY <2>2, Zenon DEF CheckDuplicate
    <3> QED
      BY <3>1, <3>2
  <2>3. CASE Admit(k)
    BY <2>3 DEF Admit
  <2> QED
    BY <2>1, <2>2, <2>3 DEF Handler
<1> QED
  BY <1>1, <1>2 DEF Closing, ClosingTyped, Stages

LEMMA Stream_Closing ==
  ASSUME ClosingTyped, Closing, NEW k \in Delivery, Agent(k) \/ Loop(k) \/ Send(k)
  PROVE  Closing'
<1> USE DEF Closing, ClosingTyped, Stages, Goto, Fault, NoFault, agentVars, flowVars,
            threadVars, faultVars
<1>1. CASE AgentSays(k)
  BY <1>1 DEF AgentSays
<1>2. CASE AgentEnds(k)
  <2>1. UNCHANGED <<length, pc, sender, message, posts>>
    BY <1>2 DEF AgentEnds
  <2>2. \/ run' = [run EXCEPT ![k] = "ended"] /\ nfaults' \in {nfaults, nfaults + 1}
        \/ run' = [run EXCEPT ![k] = "broken"] /\ nfaults' = nfaults + 1
    <3>1. CASE run' = [run EXCEPT ![k] = "broken"] /\ Fault("conn")
      BY <3>1
    <3>2. CASE run' = [run EXCEPT ![k] = "ended"] /\ (NoFault \/ Fault("agent"))
      BY <3>2
    <3> QED
      BY <1>2, <3>1, <3>2, Zenon DEF AgentEnds
  <2>3. \A kind : kind \in happened => kind \in happened'
    BY <1>2, Zenon DEF AgentEnds
  <2> QED
    BY <2>1, <2>2, <2>3
<1>3. CASE OpenStream(k)
  BY <1>3 DEF OpenStream
<1>4. CASE Tick(k)
  BY <1>4 DEF Tick
<1>5. CASE Bail(k)
  BY <1>5 DEF Bail
<1>6. CASE Drain(k)
  BY <1>6 DEF Drain
<1>7. CASE Send(k)
  <2>1. pc[k] \in {"stream", "drain", "wait"} /\ UNCHANGED <<length, pc, run, posts>>
    BY <1>7 DEF Send
  <2>2. /\ nfaults' \in {nfaults, nfaults + 1}
        /\ \A kind : kind \in happened => kind \in happened'
    BY <1>7 DEF Send
  <2>3. \/ UNCHANGED sender
        \/ sender' = [sender EXCEPT ![k] = "done"]
        \/ sender' = [sender EXCEPT ![k] = "failed"] /\ nfaults' = nfaults + 1
    BY <1>7 DEF Send
  <2>4. \/ UNCHANGED message
        \/ \E text : message' = [message EXCEPT ![k] = [state |-> "open", ts |-> TRUE, text |-> text]]
        \/ /\ "slack_ack" \in happened'
           /\ \E b, text : message' = [message EXCEPT ![k] = [state |-> "open", ts |-> b, text |-> text]]
    BY <1>7 DEF Send, Shown, Streamed
  <2> QED
    BY <2>1, <2>2, <2>3, <2>4
<1> QED
  BY <1>1, <1>2, <1>3, <1>4, <1>5, <1>6, <1>7 DEF Agent, Loop

LEMMA Finish_Closing ==
  ASSUME ClosingTyped, Closing, NEW k \in Delivery, Finish(k)
  PROVE  Closing'
<1> USE DEF Closing, ClosingTyped, Stages, Goto, Fault, NoFault, agentVars, flowVars,
            threadVars, faultVars, CallSlack, Finalize, PostPlain, Streamed
<1>1. CASE Surface(k)
  BY <1>1 DEF Surface
<1>2. CASE Conclude(k)
  BY <1>2 DEF Conclude
<1>3. CASE CleanUp(k)
  BY <1>3 DEF CleanUp
<1>4. CASE Invoke(k)
  BY <1>4 DEF Invoke
<1>5. CASE Reply(k)
  BY <1>5 DEF Reply, Post
<1>6. CASE Excuse(k)
  BY <1>6 DEF Excuse, Post
<1> QED
  BY <1>1, <1>2, <1>3, <1>4, <1>5, <1>6 DEF Finish

LEMMA Crash_Closing == ClosingTyped /\ Closing /\ WorkerCrash => Closing'
  BY DEF ClosingTyped, Closing, Stages, WorkerCrash, Fault, agentVars, flowVars, threadVars

LEMMA Step_Closing == ClosingTyped /\ Closing /\ [DeliveryNext]_dvars => Closing'
<1> SUFFICES ASSUME ClosingTyped, Closing, [DeliveryNext]_dvars PROVE Closing'
  OBVIOUS
<1>1. CASE UNCHANGED dvars
  BY <1>1 DEF Closing, dvars, agentVars, flowVars, threadVars, faultVars
<1>2. ASSUME NEW k \in Delivery, Deliver(k) \/ StopWaiting(k) \/ Handler(k)
      PROVE  Closing'
  BY <1>2, Webhook_Closing
<1>3. ASSUME NEW k \in Delivery, Agent(k) \/ Loop(k) \/ Send(k) \/ Finish(k)
      PROVE  Closing'
  BY <1>3, Stream_Closing, Finish_Closing
<1> QED
  BY <1>1, <1>2, <1>3, Crash_Closing DEF DeliveryNext

LEMMA ClosingInvariant == DeliverySpec => []Closing
  BY TypedInvariant, DeliveryInvariant, ClosingTypes, DeliveryInit_Closing, Step_Closing, PTL
     DEF DeliverySpec

\* A task that ends leaves a message streaming only when Slack refused a call and
\* something else failed too, which may be the connection to the agent, or when an
\* answer of Slack was lost (adapters/slack.py, the except branch of stream_reply).
THEOREM StreamsAreClosed == DeliverySpec => []StreamsClosed
<1>1. Closing => StreamsClosed
  BY DEF Closing, StreamsClosed
<1> QED
  BY <1>1, ClosingInvariant, PTL

\* Whatever single thing fails, the user is not told of an error when the agent has
\* anything to say: a stream that fails is answered by the buffered path, and a
\* buffered path that is taken stands for a fault already (async_dispatcher.py).
THEOREM FaultMasked == DeliverySpec => []SingleFaultMasked
<1>1. ClosingTyped /\ Closing => SingleFaultMasked
  BY DEF ClosingTyped, Closing, SingleFaultMasked
<1> QED
  BY <1>1, TypedInvariant, DeliveryInvariant, ClosingTypes, ClosingInvariant, PTL

-----------------------------------------------------------------------------
\* Redeliveries, slow handlers, crashes and failed lookups never run the agent
\* twice for one event (dedup.py, main.py), however many there are.
THEOREM RunOnce == DeliverySpec => []RetriesNeverRunTwice
<1>1. DeliveryInv => RetriesNeverRunTwice
  <2> SUFFICES ASSUME DeliveryInv, happened \cap {"dedup", "conn", "slack", "slack_ack"} = {}
               PROVE  Cardinality(AllRuns) <= 1
    BY Zenon DEF RetriesNeverRunTwice
  <2>1. \A k \in Delivery : runs[k] \in {0, 1}
    BY DEF DeliveryInv, Shape, Smooth
  <2>2. \A j, k \in Delivery : runs[j] = 1 /\ runs[k] = 1 => j = k
    BY DEF DeliveryInv, Once, Taken
  <2>3. AllRuns = {<<k, 1>> : k \in {j \in Delivery : runs[j] = 1}}
    BY <2>1 DEF AllRuns
  <2>4. CASE \E k \in Delivery : runs[k] = 1
    <3>1. PICK k \in Delivery : runs[k] = 1
      BY <2>4
    <3>2. AllRuns = {<<k, 1>>}
      BY <2>2, <2>3, <3>1
    <3>3. Cardinality({<<k, 1>>}) = 1
      BY FS_Singleton, Zenon
    <3> QED
      BY <3>2, <3>3
  <2>5. CASE ~ \E k \in Delivery : runs[k] = 1
    <3>1. AllRuns = {}
      BY <2>3, <2>5
    <3> QED
      BY <3>1, FS_EmptySet
  <2> QED
    BY <2>4, <2>5
<1> QED
  BY <1>1, DeliveryInvariant, PTL

-----------------------------------------------------------------------------
(***************************************************************************)
(* No event is left to nobody.  While nothing but one fault that leaves    *)
(* the event alone has happened, somebody is at work on an event that was  *)
(* marked or that a delivery is over with, or it is answered.              *)
(***************************************************************************)
Mild == wanted /\ nfaults <= 1 /\ happened \cap {"crash", "lookup", "dedup_again"} = {}

Pursued(k) == pc[k] \in Working \/ Told(k)

NotLeft == Mild => ((marked \/ \E k \in Delivery : pc[k] = "over") => \E k \in Delivery : Pursued(k))

\* A delivery's step takes nobody's work away but to answer, and marks or ends
\* only what is pursued.
Pursues(k) ==
  /\ \A j \in Delivery : Pursued(j) => Pursued(j)'
  /\ \A j \in Delivery : pc'[j] = "over" => pc[j] = "over" \/ j = k
  /\ (marked' \/ pc'[k] = "over") => marked \/ pc[k] = "over" \/ Pursued(k)'

LEMMA Webhook_Pursues ==
  ASSUME DeliveryInv, ClosingTyped, Closing, Mild', NEW k \in Delivery,
         Deliver(k) \/ StopWaiting(k) \/ Handler(k)
  PROVE  Pursues(k)
<1> USE DEF Pursues, Pursued, Told, Working, Goto, Respond, agentVars, threadVars, intakeVars
<1>t. pc \in [Delivery -> Stages]
  BY DEF ClosingTyped
<1>1. CASE Deliver(k)
  BY <1>1, <1>t DEF Deliver, ClosingTyped
<1>2. CASE StopWaiting(k)
  BY <1>2, <1>t DEF StopWaiting
<1>3. CASE CheckDuplicate(k)
  <2>1. pc[k] = "dedup" /\ UNCHANGED <<runs, message, posts>>
    BY <1>3, Zenon DEF CheckDuplicate
  <2>2. \/ pc' = [pc EXCEPT ![k] = "resolve"]
        \/ pc' = [pc EXCEPT ![k] = "over"] /\ marked
        \/ "dedup_again" \in happened'
    BY <1>3, Zenon DEF CheckDuplicate, Fault
  <2>3. "dedup_again" \notin happened'
    BY DEF Mild
  <2> QED
    BY <1>t, <2>1, <2>2, <2>3
<1>4. CASE Admit(k)
  <2>1. pc[k] = "resolve" /\ UNCHANGED <<wanted, marked, runs, message, posts>>
    BY <1>4 DEF Admit
  <2>2. "lookup" \notin happened' /\ wanted
    BY <2>1 DEF Mild
  <2>3. pc' = [pc EXCEPT ![k] = "open"]
    BY <1>4, <2>2 DEF Admit, Fault
  <2> QED
    BY <1>t, <2>1, <2>3
<1> QED
  BY <1>1, <1>2, <1>3, <1>4 DEF Handler

LEMMA Stream_Pursues ==
  ASSUME DeliveryInv, ClosingTyped, Closing, Mild', NEW k \in Delivery,
         Agent(k) \/ Loop(k) \/ Send(k)
  PROVE  Pursues(k)
<1> USE DEF Pursues, Pursued, Told, Working, Goto, agentVars, threadVars, intakeVars
<1>t. pc \in [Delivery -> Stages] /\ runs \in [Delivery -> 0 .. 2]
  BY DEF ClosingTyped, DeliveryInv, Shape
<1>1. CASE Agent(k)
  <2>1. UNCHANGED <<marked, pc, runs, message, posts>>
    BY <1>1 DEF Agent, AgentSays, AgentEnds
  <2> QED
    BY <2>1
<1>2. CASE OpenStream(k)
  <2>1. pc[k] = "open" /\ UNCHANGED <<marked, message, posts>>
    BY <1>2 DEF OpenStream
  <2>2. pc' = [pc EXCEPT ![k] = "stream"] \/ pc' = [pc EXCEPT ![k] = "invoke"]
    BY <1>2 DEF OpenStream
  <2>3. UNCHANGED runs \/ runs' = [runs EXCEPT ![k] = 1]
    BY <1>2 DEF OpenStream
  <2> QED
    BY <1>t, <2>1, <2>2, <2>3
<1>3. CASE Tick(k) \/ Bail(k) \/ Drain(k)
  <2>1. pc[k] \in {"stream", "drain"} /\ UNCHANGED <<marked, runs, message, posts>>
    BY <1>3 DEF Tick, Bail, Drain
  <2>2. \E p \in {"stream", "drain", "wait"} : pc' = [pc EXCEPT ![k] = p]
    BY <1>3, <1>t, <2>1 DEF Tick, Bail, Drain
  <2> QED
    BY <1>t, <2>1, <2>2
<1>4. CASE Send(k)
  <2>1. pc[k] \in {"stream", "drain", "wait"} /\ UNCHANGED <<marked, pc, runs, posts>>
    BY <1>4 DEF Send, Closing
  <2>2. \A j \in Delivery \ {k} : message'[j] = message[j]
    BY <1>4 DEF Send, Shown, ClosingTyped
  <2> QED
    BY <2>1, <2>2
<1> QED
  BY <1>1, <1>2, <1>3, <1>4 DEF Loop

LEMMA Finish_Pursues ==
  ASSUME DeliveryInv, ClosingTyped, Closing, Mild', NEW k \in Delivery, Finish(k)
  PROVE  Pursues(k)
<1> USE DEF Pursues, Pursued, Told, Working, Goto, agentVars, threadVars, intakeVars
<1>t. /\ pc \in [Delivery -> Stages] /\ runs \in [Delivery -> 0 .. 2]
      /\ message \in [Delivery -> Streamed]
      /\ posts \in [Delivery -> SUBSET {"empty", "answer", "error"}]
  BY DEF ClosingTyped, DeliveryInv, Shape
<1>1. CASE Surface(k)
  BY <1>1, <1>t DEF Surface
<1>2. CASE Conclude(k)
  <2>1. pc[k] = "wait" /\ runs[k] = 1 /\ UNCHANGED <<marked, runs>>
    BY <1>2 DEF Conclude, DeliveryInv, Shape
  <2>2. \/ pc' = [pc EXCEPT ![k] = "clean"]
        \/ /\ pc' = [pc EXCEPT ![k] = "over"]
           /\ IF message[k].ts THEN Finalize(k) ELSE PostPlain(k, "empty")
    BY <1>2, Zenon DEF Conclude, CallSlack
  <2>3. \/ UNCHANGED <<message, posts>>
        \/ Finalize(k)
        \/ PostPlain(k, "empty")
    BY <1>2, Zenon DEF Conclude, CallSlack
  <2>4. \A j \in Delivery \ {k} : message'[j] = message[j] /\ posts'[j] = posts[j]
    BY <1>t, <2>3 DEF Finalize, PostPlain
  <2>5. pc'[k] = "over" => message'[k].state = "final" \/ posts'[k] # {}
    <3>1. Finalize(k) => message'[k].state = "final"
      BY <1>t DEF Finalize, Streamed
    <3>2. PostPlain(k, "empty") => posts'[k] # {}
      BY <1>t DEF PostPlain
    <3> QED
      BY <1>t, <2>2, <3>1, <3>2
  <2>6. \A j \in Delivery \ {k} : pc'[j] = pc[j]
    BY <1>t, <2>2
  <2>7. pc'[k] \in {"clean", "over"}
    BY <1>t, <2>2
  <2> QED
    BY <2>1, <2>4, <2>5, <2>6, <2>7
<1>3. CASE CleanUp(k)
  <2>1. pc[k] = "clean" /\ UNCHANGED <<marked, runs, posts>>
    BY <1>3 DEF CleanUp, CallSlack, Finalize
  <2>2. pc' = [pc EXCEPT ![k] = "invoke"]
    BY <1>3 DEF CleanUp, CallSlack
  <2>3. \A j \in Delivery \ {k} : message'[j] = message[j]
    BY <1>3, <1>t DEF CleanUp, CallSlack, Finalize
  <2> QED
    BY <1>t, <2>1, <2>2, <2>3
<1>4. CASE Invoke(k)
  BY <1>4, <1>t DEF Invoke
<1>5. CASE Reply(k)
  <2>1. pc[k] = "reply" /\ UNCHANGED <<marked, runs, wanted>>
    BY <1>5 DEF Reply, Post
  <2>2. nfaults > 0
    BY <2>1 DEF Closing
  <2>3. ~ Fault("token") /\ ~ Fault("slack") /\ ~ Fault("slack_ack")
    BY <2>2 DEF Mild, Fault, ClosingTyped
  <2>4. CASE length = 0
    <3>1. pc' = [pc EXCEPT ![k] = "excuse"] /\ UNCHANGED threadVars
      BY <1>5, <2>3, <2>4 DEF Reply, Post
    <3> QED
      BY <1>t, <2>1, <3>1
  <2>5. CASE length # 0
    <3>1. pc' = [pc EXCEPT ![k] = "over"] /\ PostPlain(k, "answer")
      BY <1>5, <2>3, <2>5 DEF Reply, Post, CallSlack
    <3>2. message' = message /\ posts' = [posts EXCEPT ![k] = @ \cup {"answer"}]
      BY <3>1 DEF PostPlain
    <3> QED
      BY <1>t, <2>1, <3>1, <3>2
  <2> QED
    BY <2>4, <2>5
<1>6. CASE Excuse(k)
  <2>1. pc[k] = "excuse" /\ UNCHANGED <<marked, runs, wanted>>
    BY <1>6 DEF Excuse, Post
  <2>2. nfaults > 0
    BY <2>1 DEF Closing
  <2>3. ~ Fault("token") /\ ~ Fault("slack") /\ ~ Fault("slack_ack")
    BY <2>2 DEF Mild, Fault, ClosingTyped
  <2>4. pc' = [pc EXCEPT ![k] = "over"] /\ PostPlain(k, "error")
    BY <1>6, <2>3 DEF Excuse, Post, CallSlack
  <2>5. message' = message /\ posts' = [posts EXCEPT ![k] = @ \cup {"error"}]
    BY <2>4 DEF PostPlain
  <2> QED
    BY <1>t, <2>1, <2>4, <2>5
<1> QED
  BY <1>1, <1>2, <1>3, <1>4, <1>5, <1>6 DEF Finish

\* No step takes a fault back.
LEMMA Mildly ==
  ASSUME ClosingTyped, [DeliveryNext]_dvars, Mild'
  PROVE  Mild
<1> DEFINE Grown == /\ nfaults' \in {nfaults, nfaults + 1}
                    /\ \A kind : kind \in happened => kind \in happened'
<1>1. NoFault \/ (\E kind : Fault(kind)) => Grown
  BY DEF NoFault, Fault, faultVars
<1>2. ASSUME NEW k \in Delivery, Deliver(k) \/ StopWaiting(k) \/ Handler(k)
      PROVE  wanted' = wanted /\ (NoFault \/ \E kind : Fault(kind))
  BY <1>2, Zenon DEF Deliver, StopWaiting, Handler, CheckDuplicate, Admit
<1>3. ASSUME NEW k \in Delivery, Agent(k) \/ Loop(k) \/ Send(k)
      PROVE  wanted' = wanted /\ (NoFault \/ \E kind : Fault(kind))
  BY <1>3 DEF Agent, AgentSays, AgentEnds, Loop, OpenStream, Tick, Bail, Drain, Send, NoFault
<1>4. ASSUME NEW k \in Delivery, Finish(k)
      PROVE  wanted' = wanted /\ (NoFault \/ \E kind : Fault(kind))
  BY <1>4 DEF Finish, Surface, Conclude, CleanUp, Invoke, Reply, Excuse, Post, CallSlack, NoFault
<1>5. WorkerCrash => wanted' = wanted /\ (NoFault \/ \E kind : Fault(kind))
  BY DEF WorkerCrash
<1>6. UNCHANGED dvars => wanted' = wanted /\ NoFault
  BY DEF dvars, NoFault, faultVars
<1>7. wanted' = wanted /\ Grown
  BY <1>1, <1>2, <1>3, <1>4, <1>5, <1>6 DEF DeliveryNext
<1>8. nfaults' <= 1 /\ nfaults \in Nat /\ \A kind \in {"crash", "lookup", "dedup_again"} : kind \notin happened'
  BY DEF Mild, ClosingTyped
<1>9. nfaults <= 1
  BY <1>7, <1>8
<1>10. wanted
  BY <1>7 DEF Mild
<1> QED
  BY <1>7, <1>8, <1>9, <1>10 DEF Mild

LEMMA Step_NotLeft ==
  DeliveryInv /\ ClosingTyped /\ Closing /\ ClosingTyped' /\ NotLeft /\ [DeliveryNext]_dvars => NotLeft'
<1> SUFFICES ASSUME DeliveryInv, ClosingTyped, Closing, ClosingTyped', NotLeft, [DeliveryNext]_dvars, Mild',
                    (marked \/ \E k \in Delivery : pc[k] = "over")'
             PROVE  (\E k \in Delivery : Pursued(k))'
  BY DEF NotLeft
<1>1. Mild
  BY Mildly
<1>2. (marked \/ \E k \in Delivery : pc[k] = "over") => \E k \in Delivery : Pursued(k)
  BY <1>1 DEF NotLeft
<1>3. ASSUME NEW k \in Delivery, Pursues(k)
      PROVE  (\E j \in Delivery : Pursued(j))'
  <2>1. CASE Pursued(k)'
    BY <2>1
  <2>2. CASE ~ Pursued(k)'
    <3>1. marked' \/ pc'[k] = "over" => marked \/ pc[k] = "over"
      BY <1>3, <2>2 DEF Pursues
    <3>2. marked \/ \E j \in Delivery : pc[j] = "over"
      BY <1>3, <3>1 DEF Pursues
    <3>3. PICK j \in Delivery : Pursued(j)
      BY <1>2, <3>2
    <3>4. Pursued(j)'
      BY <1>3, <3>3 DEF Pursues
    <3> QED
      BY <3>4
  <2> QED
    BY <2>1, <2>2
<1>4. CASE UNCHANGED dvars
  BY <1>2, <1>4 DEF dvars, intakeVars, agentVars, threadVars, Pursued, Told
<1>5. ~ WorkerCrash
  BY DEF WorkerCrash, Fault, Mild
<1> QED
  BY <1>3, <1>4, <1>5, Webhook_Pursues, Stream_Pursues, Finish_Pursues DEF DeliveryNext

\* A wanted event that reached the bridge is never left with nobody at work on it
\* and no answer, for any number of deliveries (dedup.py, async_dispatcher.py),
\* unless two things failed, or one of the three that lose it.
THEOREM NobodyDrops == DeliverySpec => []NeverDropped
<1>1. DeliveryInit => NotLeft
  BY DEF DeliveryInit, NotLeft
<1>2. NotLeft => NeverDropped
  BY DEF NotLeft, NeverDropped, Mild, Pursued, Working
<1>3. DeliverySpec => []ClosingTyped
  BY TypedInvariant, DeliveryInvariant, ClosingTypes, PTL
<1> QED
  BY <1>1, <1>2, <1>3, DeliveryInvariant, ClosingInvariant, Step_NotLeft, PTL DEF DeliverySpec

-----------------------------------------------------------------------------
(***************************************************************************)
(* The streamed text.  A unit the agent said is in the thread, in a piece  *)
(* on its way to the sender, with the tick loop or in the agent's queue,   *)
(* in this order: each place holds the units from where the one before it  *)
(* ends.                                                                   *)
(***************************************************************************)

\* s is the units after the a-th up to the b-th.
Piece(s, a, b) ==
  /\ a \in Nat /\ b \in Nat
  /\ Len(s) = b - a
  /\ \A i \in 1 .. Len(s) : s[i] = a + i

\* The pieces of s, one after the other, are the units after the a-th up to the b-th.
Cuts(s, a, b) ==
  \E c \in [0 .. Len(s) -> Nat] :
    /\ c[0] = a /\ c[Len(s)] = b
    /\ \A i \in 0 .. Len(s) : c[i] <= b
    /\ \A i \in 1 .. Len(s) : Piece(s[i], c[i - 1], c[i])

\* How many units a queue of the agent holds, its end not counted.
Units(q) == Len(q) - (IF q # <<>> /\ q[Len(q)] = End THEN 1 ELSE 0)

Queued(q, a, b) ==
  /\ a \in Nat /\ b \in Nat
  /\ Units(q) = b - a
  /\ \A i \in 1 .. Units(q) : q[i] = a + i

Text(k) == message[k].text

Flow(k) ==
  \E b \in Nat, p \in Nat :
    /\ Cuts(sending[k], Len(Text(k)), b)
    /\ Piece(pending[k], b, p)
    /\ Queued(queue[k], p, said[k])

\* What is shown was said, and the rest is on its way while the sender lives.
Conveyed(k) ==
  /\ Piece(Text(k), 0, Len(Text(k)))
  /\ Len(Text(k)) <= said[k]
  /\ sender[k] # "failed" => Flow(k)

\* The end mark is the last piece, and follows the end of the agent's stream.
EndIsLast(k) ==
  /\ pc[k] \in {"off", "dedup", "resolve", "open"} =>
       sender[k] = "off" /\ sending[k] = <<>>
  /\ pc[k] \in {"stream", "drain"} => sender[k] \in {"on", "failed"}
  /\ pc[k] \in {"stream", "drain"} /\ sender[k] = "on" =>
       \A i \in 1 .. Len(sending[k]) : sending[k][i] # Stop
  /\ pc[k] \in {"drain", "wait"} /\ sender[k] # "failed" =>
       queue[k] = <<>> /\ run[k] # "running"
  /\ pc[k] = "wait" /\ sender[k] = "on" =>
       /\ pending[k] = <<>>
       /\ \A i \in 1 .. Len(sending[k]) : sending[k][i] = Stop => i = Len(sending[k])
  /\ pc[k] = "wait" /\ sender[k] = "done" => pending[k] = <<>> /\ Len(sending[k]) = 0

\* A reply that ends without a second run and without a plain message is whole.
Whole(k) ==
  /\ pc[k] = "invoke" => runs[k] = 1 \/ run[k] = "none"
  /\ pc[k] \in {"reply", "excuse"} => runs[k] = 2 \/ run[k] = "none"
  /\ pc[k] = "over" /\ runs[k] = 1 /\ run[k] = "ended" /\ posts[k] = {} =>
       message[k].state = "final" /\ Len(Text(k)) = said[k] /\ sender[k] = "done"

Faithful(k) == Conveyed(k) /\ EndIsLast(k) /\ Whole(k)

AllFaithful == \A k \in Delivery : Faithful(k)

-----------------------------------------------------------------------------
LEMMA PieceJoins ==
  ASSUME NEW S, NEW s \in Seq(S), NEW t \in Seq(S), NEW a, NEW b, NEW d,
         Piece(s, a, b), Piece(t, b, d)
  PROVE  Piece(s \o t, a, d) /\ Len(s \o t) = d - a
<1>1. Len(s \o t) = Len(s) + Len(t) /\ Len(s \o t) = d - a /\ a \in Nat /\ d \in Nat
  BY DEF Piece
<1>2. ASSUME NEW i \in 1 .. Len(s \o t) PROVE (s \o t)[i] = a + i
  <2>1. CASE i <= Len(s)
    BY <1>1, <2>1 DEF Piece
  <2>2. CASE i > Len(s)
    <3>1. (s \o t)[i] = t[i - Len(s)] /\ i - Len(s) \in 1 .. Len(t)
      BY <1>1, <2>2
    <3>2. t[i - Len(s)] = b + (i - Len(s)) /\ b = a + Len(s)
      BY <3>1 DEF Piece
    <3> QED
      BY <3>1, <3>2 DEF Piece
  <2> QED
    BY <2>1, <2>2
<1> QED
  BY <1>1, <1>2 DEF Piece

LEMMA PieceSplits ==
  ASSUME NEW S, NEW s \in Seq(S), NEW a, NEW b, Piece(s, a, b), NEW n \in 1 .. Len(s)
  PROVE  /\ Piece(SubSeq(s, 1, n), a, a + n)
         /\ Piece(SubSeq(s, n + 1, Len(s)), a + n, b)
         /\ SubSeq(s, 1, n) # <<>>
<1>1. a \in Nat /\ b \in Nat /\ b = a + Len(s)
  BY DEF Piece
<1>2. /\ Len(SubSeq(s, 1, n)) = n /\ Len(SubSeq(s, n + 1, Len(s))) = Len(s) - n
      /\ \A i \in 1 .. n : SubSeq(s, 1, n)[i] = s[i]
      /\ \A i \in 1 .. Len(s) - n : SubSeq(s, n + 1, Len(s))[i] = s[n + i]
  OBVIOUS
<1>3. Len(s) \in Nat /\ a + n \in Nat
  BY <1>1
<1>4. Piece(SubSeq(s, 1, n), a, a + n)
  <2>1. \A i \in 1 .. n : s[i] = a + i
    BY <1>3 DEF Piece
  <2> QED
    BY <1>1, <1>2, <1>3, <2>1 DEF Piece
<1>5. Piece(SubSeq(s, n + 1, Len(s)), a + n, b)
  <2>1. \A i \in 1 .. Len(s) - n : s[n + i] = (a + n) + i
    BY <1>1, <1>3 DEF Piece
  <2> QED
    BY <1>1, <1>2, <1>3, <2>1 DEF Piece
<1> QED
  BY <1>2, <1>4, <1>5

LEMMA CutsGrow ==
  ASSUME NEW S, NEW s \in Seq(S), NEW x \in S, NEW a, NEW b, NEW d,
         Cuts(s, a, b), Piece(x, b, d), Len(x) \in Nat
  PROVE  Cuts(Append(s, x), a, d)
<1>1. PICK c \in [0 .. Len(s) -> Nat] :
        /\ c[0] = a /\ c[Len(s)] = b
        /\ \A i \in 0 .. Len(s) : c[i] <= b
        /\ \A i \in 1 .. Len(s) : Piece(s[i], c[i - 1], c[i])
  BY DEF Cuts
<1> DEFINE t == Append(s, x)
           e == [i \in 0 .. Len(t) |-> IF i = Len(t) THEN d ELSE c[i]]
<1>2. /\ Len(t) = Len(s) + 1 /\ t[Len(t)] = x /\ Len(s) \in Nat
      /\ \A i \in 1 .. Len(s) : t[i] = s[i]
  OBVIOUS
<1>3. b <= d /\ b \in Nat /\ d \in Nat
  BY DEF Piece
<1> HIDE DEF t
<1>4. e \in [0 .. Len(t) -> Nat] /\ e[0] = a /\ e[Len(t)] = d /\ e[Len(s)] = b
  BY <1>1, <1>2, <1>3
<1>5. ASSUME NEW i \in 0 .. Len(t) PROVE e[i] <= d
  <2>1. CASE i = Len(t)
    BY <1>3, <2>1
  <2>2. CASE i # Len(t)
    <3>1. i \in 0 .. Len(s) /\ e[i] = c[i]
      BY <1>2, <2>2
    <3>2. c[i] <= b /\ c[i] \in Nat
      BY <1>1, <3>1
    <3> QED
      BY <1>3, <3>1, <3>2
  <2> QED
    BY <2>1, <2>2
<1>6. ASSUME NEW i \in 1 .. Len(t) PROVE Piece(t[i], e[i - 1], e[i])
  <2>1. CASE i = Len(t)
    <3>1. i - 1 = Len(s)
      BY <1>2, <2>1
    <3> QED
      BY <1>2, <1>4, <2>1, <3>1
  <2>2. CASE i # Len(t)
    <3>1. i \in 1 .. Len(s) /\ i - 1 \in 0 .. Len(s) /\ e[i] = c[i] /\ e[i - 1] = c[i - 1]
      BY <1>2, <2>2
    <3> QED
      BY <1>1, <1>2, <3>1
  <2> QED
    BY <2>1, <2>2
<1> HIDE DEF e
<1> QED
  BY <1>4, <1>5, <1>6 DEF Cuts, t

LEMMA CutsShrink ==
  ASSUME NEW S, NEW s \in Seq(S), s # <<>>, NEW a, NEW b, Cuts(s, a, b)
  PROVE  \E m \in Nat : Piece(Head(s), a, m) /\ m <= b /\ Cuts(Tail(s), m, b)
<1>1. PICK c \in [0 .. Len(s) -> Nat] :
        /\ c[0] = a /\ c[Len(s)] = b
        /\ \A i \in 0 .. Len(s) : c[i] <= b
        /\ \A i \in 1 .. Len(s) : Piece(s[i], c[i - 1], c[i])
  BY DEF Cuts
<1> DEFINE t == Tail(s)
           e == [i \in 0 .. Len(t) |-> c[i + 1]]
<1>2. /\ Len(s) = Len(t) + 1 /\ Head(s) = s[1] /\ Len(t) \in Nat
      /\ \A i \in 1 .. Len(t) : t[i] = s[i + 1]
  OBVIOUS
<1> HIDE DEF t
<1>3. Piece(Head(s), a, c[1]) /\ c[1] <= b /\ c[1] \in Nat
  <2>1. 1 \in 1 .. Len(s) /\ 1 \in 0 .. Len(s) /\ 1 - 1 = 0
    BY <1>2
  <2> QED
    BY <1>1, <1>2, <2>1
<1>4. e \in [0 .. Len(t) -> Nat] /\ e[0] = c[1] /\ e[Len(t)] = b
  BY <1>1, <1>2
<1>5. \A i \in 0 .. Len(t) : e[i] <= b
  BY <1>1, <1>2
<1>6. ASSUME NEW i \in 1 .. Len(t) PROVE Piece(t[i], e[i - 1], e[i])
  <2>1. i + 1 \in 1 .. Len(s) /\ e[i] = c[i + 1] /\ e[i - 1] = c[i] /\ (i + 1) - 1 = i
    BY <1>2
  <2> QED
    BY <1>1, <1>2, <2>1
<1> HIDE DEF e
<1>7. Cuts(t, c[1], b)
  BY <1>4, <1>5, <1>6 DEF Cuts
<1> QED
  BY <1>3, <1>7 DEF t

LEMMA EmptyCuts == ASSUME NEW a \in Nat PROVE Cuts(<<>>, a, a)
<1> DEFINE c == [i \in 0 .. Len(<<>>) |-> a]
<1>1. c \in [0 .. Len(<<>>) -> Nat] /\ c[0] = a /\ c[Len(<<>>)] = a
  OBVIOUS
<1>2. \A i \in 0 .. Len(<<>>) : c[i] <= a
  OBVIOUS
<1>3. \A i \in 1 .. Len(<<>>) : Piece(<<>>[i], c[i - 1], c[i])
  OBVIOUS
<1> HIDE DEF c
<1> QED
  BY <1>1, <1>2, <1>3 DEF Cuts

LEMMA CutsOfNothing == ASSUME NEW s, Len(s) = 0, NEW a, NEW b, Cuts(s, a, b) PROVE a = b
  BY DEF Cuts

-----------------------------------------------------------------------------
LEMMA DeliveryInit_Faithful == DeliveryInit => AllFaithful
<1> SUFFICES ASSUME DeliveryInit, NEW k \in Delivery PROVE Faithful(k)
  BY DEF AllFaithful
<1>1. /\ pc[k] = "off" /\ runs[k] = 0 /\ run[k] = "none" /\ said[k] = 0 /\ queue[k] = <<>>
      /\ pending[k] = <<>> /\ sending[k] = <<>> /\ sender[k] = "off" /\ Text(k) = <<>>
  BY DEF DeliveryInit, Text
<1>2. Piece(<<>>, 0, 0) /\ Queued(<<>>, 0, 0) /\ Len(<<>>) = 0
  BY DEF Piece, Queued, Units
<1>3. Flow(k)
  BY <1>1, <1>2, EmptyCuts DEF Flow
<1> QED
  BY <1>1, <1>2, <1>3 DEF Faithful, Conveyed, EndIsLast, Whole

\* A delivery that a step does not concern.
LEMMA OthersFaithful ==
  ASSUME NEW k, Faithful(k),
         /\ pc'[k] = pc[k] /\ runs'[k] = runs[k] /\ run'[k] = run[k] /\ said'[k] = said[k]
         /\ queue'[k] = queue[k] /\ pending'[k] = pending[k] /\ sending'[k] = sending[k]
         /\ sender'[k] = sender[k] /\ message'[k] = message[k] /\ posts'[k] = posts[k]
  PROVE  Faithful(k)'
<1>1. Conveyed(k)'
  BY DEF Faithful, Conveyed, Flow, Text
<1>2. EndIsLast(k)' /\ Whole(k)'
  BY DEF Faithful, EndIsLast, Whole, Text
<1> QED
  BY <1>1, <1>2 DEF Faithful

\* A step that moves no text.
LEMMA TextStays ==
  ASSUME NEW k, Faithful(k),
         /\ said'[k] = said[k] /\ queue'[k] = queue[k] /\ pending'[k] = pending[k]
         /\ sending'[k] = sending[k] /\ Text(k)' = Text(k)
         /\ sender'[k] # "failed" => sender[k] # "failed"
  PROVE  Conveyed(k)'
  BY DEF Faithful, Conveyed, Flow

LEMMA Webhook_Faithful ==
  ASSUME DeliveryInv, AllFaithful, NEW k \in Delivery,
         Deliver(k) \/ StopWaiting(k) \/ Handler(k)
  PROVE  AllFaithful'
<1> SUFFICES ASSUME NEW j \in Delivery PROVE Faithful(j)'
  BY DEF AllFaithful
<1>1. /\ UNCHANGED <<runs, run, said, queue, pending, sending, sender, message, posts>>
      /\ \/ UNCHANGED pc
         \/ /\ pc[k] \in {"off", "dedup", "resolve"}
            /\ \E p \in {"dedup", "resolve", "open", "over"} : pc' = [pc EXCEPT ![k] = p]
  BY DEF Deliver, StopWaiting, Handler, CheckDuplicate, Admit, Respond, Goto, agentVars,
         flowVars, threadVars, DeliveryInv, Shape
<1>2. Faithful(j)
  BY DEF AllFaithful
<1>3. CASE pc'[j] = pc[j]
  BY <1>1, <1>2, <1>3, OthersFaithful
<1>4. CASE pc'[j] # pc[j]
  <2>1. /\ pc[j] \in {"off", "dedup", "resolve"}
        /\ pc'[j] \in {"dedup", "resolve", "open", "over"}
    BY <1>1, <1>4 DEF DeliveryInv, Shape
  <2>2. runs[j] = 0 /\ sender[j] = "off" /\ sending[j] = <<>>
    BY <1>2, <2>1 DEF DeliveryInv, Shape, Faithful, EndIsLast
  <2>3. Conveyed(j)'
    BY <1>1, <1>2, TextStays DEF Text
  <2>4. EndIsLast(j)' /\ Whole(j)'
    BY <1>1, <2>1, <2>2 DEF EndIsLast, Whole
  <2> QED
    BY <2>3, <2>4 DEF Faithful
<1> QED
  BY <1>3, <1>4

\* A worker dies: its tasks stop where they are.
LEMMA Crash_Faithful == AllFaithful /\ WorkerCrash => AllFaithful'
<1> SUFFICES ASSUME AllFaithful, WorkerCrash, NEW j \in Delivery PROVE Faithful(j)'
  BY DEF AllFaithful
<1>1. /\ UNCHANGED <<runs, run, said, queue, pending, sending, sender, message, posts>>
      /\ pc'[j] \in {pc[j], "dead"}
  BY DEF WorkerCrash, agentVars, flowVars, threadVars
<1>2. Faithful(j)
  BY DEF AllFaithful
<1>3. Conveyed(j)'
  BY <1>1, <1>2, TextStays DEF Text
<1>4. EndIsLast(j)' /\ Whole(j)'
  BY <1>1, <1>2 DEF Faithful, EndIsLast, Whole, Text
<1> QED
  BY <1>3, <1>4 DEF Faithful

\* The end of a reply.
LEMMA Finish_Faithful ==
  ASSUME DeliveryInv, Typed, AllFaithful, NEW k \in Delivery, Finish(k)
  PROVE  AllFaithful'
<1> SUFFICES ASSUME NEW j \in Delivery PROVE Faithful(j)'
  BY DEF AllFaithful
<1> USE DEF Goto, agentVars, flowVars, threadVars, Finalize, PostPlain
<1>1. Faithful(j) /\ Faithful(k)
  BY DEF AllFaithful
<1>2. /\ pc \in [Delivery -> Stages] /\ runs \in [Delivery -> 0 .. 2]
      /\ message \in [Delivery -> Streamed]
      /\ posts \in [Delivery -> SUBSET {"empty", "answer", "error"}]
  BY DEF DeliveryInv, Shape, Typed, TextTyped, PlainTyped
<1>3. UNCHANGED <<run, said, queue, pending, sending, sender>>
  BY DEF Finish, Surface, Conclude, CleanUp, Invoke, Reply, Excuse, Post
<1>4. CASE j # k
  <2>1. pc'[j] = pc[j] /\ message'[j] = message[j] /\ posts'[j] = posts[j] /\ runs'[j] = runs[j]
    BY <1>2, <1>4 DEF Finish, Surface, Conclude, CleanUp, Invoke, Reply, Excuse, Post, CallSlack
  <2> QED
    BY <1>1, <1>3, <2>1, OthersFaithful
<1>5. CASE j = k
  <2>1. Text(k)' = Text(k)
    <3>1. UNCHANGED message \/ message' = [message EXCEPT ![k].state = "final"]
      BY DEF Finish, Surface, Conclude, CleanUp, Invoke, Reply, Excuse, Post, CallSlack
    <3> QED
      BY <1>2, <3>1 DEF Text, Streamed
  <2>2. Conveyed(k)'
    BY <1>1, <1>3, <2>1, TextStays
  <2>3. EndIsLast(k)'
    <3>1. pc'[k] \in {"clean", "invoke", "reply", "excuse", "over"}
      BY <1>2 DEF Finish, Surface, Conclude, CleanUp, Invoke, Reply, Excuse, Post, CallSlack
    <3> QED
      BY <3>1 DEF EndIsLast
  <2>4. Whole(k)'
    <3>1. CASE Surface(k)
      BY <1>2, <3>1 DEF Surface, Whole
    <3>2. CASE Conclude(k)
      <4>1. pc'[k] \in {"clean", "over"} /\ pc[k] = "wait" /\ sender[k] = "done"
        BY <1>2, <3>2 DEF Conclude, CallSlack
      <4>2. queue[k] = <<>> /\ pending[k] = <<>> /\ Len(sending[k]) = 0 /\ Flow(k)
        BY <1>1, <4>1 DEF Faithful, EndIsLast, Conveyed
      <4>3. Len(Text(k)) = said[k]
        <5>1. PICK b \in Nat, p \in Nat :
                /\ Cuts(sending[k], Len(Text(k)), b)
                /\ Piece(<<>>, b, p) /\ Queued(<<>>, p, said[k])
          BY <4>2 DEF Flow
        <5>2. b = Len(Text(k)) /\ p = b
          BY <4>2, <5>1, CutsOfNothing DEF Piece
        <5>3. said[k] = p
          BY <5>1 DEF Queued, Units
        <5> QED
          BY <5>2, <5>3
      <4>4. ASSUME pc'[k] = "over", posts'[k] = {} PROVE message'[k].state = "final"
        <5>1. IF message[k].ts THEN Finalize(k) ELSE PostPlain(k, "empty")
          BY <1>2, <3>2, <4>4 DEF Conclude, CallSlack
        <5>2. message[k].ts
          <6>1. ASSUME ~message[k].ts PROVE posts'[k] # {}
            BY <1>2, <5>1, <6>1
          <6> QED
            BY <4>4, <6>1
        <5>3. message' = [message EXCEPT ![k].state = "final"]
          BY <5>1, <5>2
        <5> QED
          BY <1>2, <5>3 DEF Streamed
      <4> QED
        BY <1>3, <2>1, <4>1, <4>3, <4>4 DEF Whole
    <3>3. CASE CleanUp(k)
      <4>1. pc[k] = "clean" /\ pc'[k] = "invoke" /\ UNCHANGED runs
        BY <1>2, <3>3 DEF CleanUp, CallSlack
      <4>2. runs[k] = 1
        BY <4>1 DEF DeliveryInv, Shape
      <4> QED
        BY <4>1, <4>2 DEF Whole
    <3>4. CASE Invoke(k)
      <4>1. runs'[k] = runs[k] + 1 /\ pc'[k] \in {"reply", "excuse"} /\ pc[k] = "invoke"
        BY <1>2, <3>4 DEF Invoke
      <4>2. runs[k] = 1 \/ run[k] = "none"
        BY <1>1, <4>1 DEF Faithful, Whole
      <4> QED
        BY <1>3, <4>1, <4>2 DEF Whole
    <3>5. CASE Reply(k) \/ Excuse(k)
      <4>1. pc'[k] \in {"excuse", "over"} /\ pc[k] \in {"reply", "excuse"} /\ UNCHANGED runs
        BY <1>2, <3>5 DEF Reply, Excuse, Post, CallSlack
      <4>2. runs[k] = 2 \/ run[k] = "none"
        BY <1>1, <4>1 DEF Faithful, Whole
      <4> QED
        BY <1>3, <4>1, <4>2 DEF Whole
    <3> QED
      BY <3>1, <3>2, <3>3, <3>4, <3>5 DEF Finish
  <2> QED
    BY <1>5, <2>2, <2>3, <2>4 DEF Faithful
<1> QED
  BY <1>4, <1>5

-----------------------------------------------------------------------------
(***************************************************************************)
(* The agent and the streamed reply.                                       *)
(***************************************************************************)
LEMMA StreamOthers ==
  ASSUME DeliveryInv, Typed, NEW k \in Delivery, Agent(k) \/ Loop(k) \/ Send(k),
         NEW j \in Delivery, j # k, Faithful(j)
  PROVE  Faithful(j)'
<1>1. /\ pc \in [Delivery -> Stages] /\ runs \in [Delivery -> 0 .. 2]
      /\ run \in [Delivery -> {"none", "running", "ended", "broken"}]
      /\ sender \in [Delivery -> {"off", "on", "done", "failed"}]
      /\ said \in [Delivery -> 0 .. length] /\ queue \in [Delivery -> Seq(0 .. length)]
      /\ pending \in [Delivery -> Seq(1 .. length)]
      /\ sending \in [Delivery -> Seq(Seq(1 .. length))] /\ message \in [Delivery -> Streamed]
  BY DEF DeliveryInv, Shape, Typed, TextTyped
<1>2. /\ pc'[j] = pc[j] /\ runs'[j] = runs[j] /\ run'[j] = run[j] /\ said'[j] = said[j]
      /\ sender'[j] = sender[j] /\ posts'[j] = posts[j]
  BY <1>1 DEF Agent, AgentSays, AgentEnds, Loop, OpenStream, Bail, Tick, Drain, Send, Goto,
              agentVars, flowVars, threadVars
<1>3. queue'[j] = queue[j] /\ message'[j] = message[j]
  BY <1>1 DEF Agent, AgentSays, AgentEnds, Loop, OpenStream, Bail, Tick, Drain, Send, Shown,
              agentVars, flowVars, threadVars
<1>4. pending'[j] = pending[j] /\ sending'[j] = sending[j]
  BY <1>1 DEF Agent, AgentSays, AgentEnds, Loop, OpenStream, Bail, Tick, Drain, Send, Release,
              Hold, agentVars, flowVars, threadVars
<1> QED
  BY <1>2, <1>3, <1>4, OthersFaithful

\* The agent adds to the end of its queue.
LEMMA Agent_Faithful ==
  ASSUME DeliveryInv, Typed, NEW k \in Delivery, Agent(k), Faithful(k)
  PROVE  Faithful(k)'
<1>1. /\ said \in [Delivery -> 0 .. length] /\ queue \in [Delivery -> Seq(0 .. length)]
      /\ run \in [Delivery -> {"none", "running", "ended", "broken"}] /\ length \in Nat
  BY DeliveryAssumption DEF DeliveryInv, Shape, Typed, TextTyped, PlainTyped
<1>2. /\ run[k] = "running" /\ pc[k] \notin {"over", "dead"}
      /\ UNCHANGED <<pc, runs, pending, sending, sender, message, posts>>
  BY DEF Agent, AgentSays, AgentEnds, flowVars, threadVars
<1>3. \A i \in 1 .. Len(queue[k]) : queue[k][i] # End
  BY <1>2 DEF Typed, TextTyped
<1>4. Units(queue[k]) = Len(queue[k])
  BY <1>1, <1>3 DEF Units
<1>5. PICK x \in 0 .. length : queue'[k] = Append(queue[k], x) /\ said'[k] >= said[k]
        /\ \/ x = said[k] + 1 /\ said'[k] = x
           \/ x = End /\ said'[k] = said[k]
  <2>1. CASE AgentSays(k)
    BY <1>1, <2>1 DEF AgentSays
  <2>2. CASE AgentEnds(k)
    <3>1. queue'[k] = Append(queue[k], End) /\ said'[k] = said[k] /\ End \in 0 .. length
      BY <1>1, <2>2 DEF AgentEnds, End
    <3> QED
      BY <1>1, <3>1
  <2> QED
    BY <2>1, <2>2 DEF Agent
<1> DEFINE q == Append(queue[k], x)
<1>6. /\ Len(q) = Len(queue[k]) + 1 /\ q # <<>> /\ q[Len(q)] = x
      /\ \A i \in 1 .. Len(queue[k]) : q[i] = queue[k][i]
  <2>1. queue[k] \in Seq(0 .. length)
    BY <1>1
  <2> QED
    BY <2>1
<1>7. ASSUME NEW p \in Nat, Queued(queue[k], p, said[k]) PROVE Queued(q, p, said'[k])
  <2> HIDE DEF q
  <2>1. said[k] = p + Len(queue[k]) /\ said[k] \in Nat /\ Len(queue[k]) \in Nat
        /\ \A i \in 1 .. Len(queue[k]) : q[i] = p + i
    BY <1>1, <1>4, <1>6, <1>7 DEF Queued
  <2>2. CASE x = said[k] + 1 /\ said'[k] = x
    <3>1. Units(q) = Len(q)
      <4>1. q[Len(q)] # End
        BY <1>6, <2>1, <2>2 DEF End
      <4>2. Len(q) \in Nat
        BY <1>6, <2>1
      <4> QED
        BY <4>1, <4>2 DEF Units
    <3>2. Len(q) = said'[k] - p /\ said'[k] \in Nat
      BY <1>6, <2>1, <2>2
    <3>3. ASSUME NEW i \in 1 .. Len(q) PROVE q[i] = p + i
      <4>1. CASE i = Len(q)
        BY <1>6, <2>1, <2>2, <4>1
      <4>2. CASE i # Len(q)
        <5>1. i \in 1 .. Len(queue[k])
          BY <1>6, <2>1, <4>2
        <5> QED
          BY <2>1, <5>1
      <4> QED
        BY <4>1, <4>2
    <3> QED
      BY <3>1, <3>2, <3>3 DEF Queued
  <2>3. CASE x = End /\ said'[k] = said[k]
    <3>1. Units(q) = Len(queue[k])
      BY <1>6, <2>1, <2>3 DEF Units
    <3> QED
      BY <2>1, <2>3, <3>1 DEF Queued
  <2> QED
    BY <1>5, <2>2, <2>3
<1>8. Flow(k) => Flow(k)'
  BY <1>2, <1>5, <1>7 DEF Flow, Text
<1>9. Conveyed(k)'
  BY <1>1, <1>2, <1>5, <1>8 DEF Faithful, Conveyed, Text
<1>10. EndIsLast(k)'
  BY <1>2 DEF Faithful, EndIsLast
<1>11. Whole(k)'
  BY <1>2 DEF Faithful, Whole
<1> QED
  BY <1>9, <1>10, <1>11 DEF Faithful

\* The loop releases pieces from the front of what it holds.
LEMMA ReleaseFlows ==
  ASSUME TextTyped, NEW k \in Delivery, NEW t \in Seq(1 .. length), Release(k, t),
         NEW a \in Nat, NEW b \in Nat, NEW p \in Nat,
         Cuts(sending[k], a, b), Piece(t, b, p)
  PROVE  /\ \E d \in Nat : Cuts(sending'[k], a, d) /\ Piece(pending'[k], d, p)
         /\ sending'[k] = Append(sending[k], SubSeq(t, 1, PickRelease(t)))
         /\ SubSeq(t, 1, PickRelease(t)) # Stop
<1> DEFINE n == PickRelease(t)
<1>1. n \in 1 .. Len(t) /\ t # <<>> /\ SubSeq(t, 1, n) \in Seq(1 .. length)
  BY ReleaseTyped DEF Release
<1>2. /\ sending'[k] = Append(sending[k], SubSeq(t, 1, n))
      /\ pending'[k] = SubSeq(t, n + 1, Len(t))
  BY DEF Release, TextTyped
<1> HIDE DEF n
<1>3. /\ Piece(SubSeq(t, 1, n), b, b + n)
      /\ Piece(SubSeq(t, n + 1, Len(t)), b + n, p)
      /\ SubSeq(t, 1, n) # <<>>
  BY <1>1, PieceSplits
<1>6. b + n \in Nat
  BY <1>1
<1>4. sending[k] \in Seq(Seq(1 .. length)) /\ Len(SubSeq(t, 1, n)) \in Nat
  BY <1>1 DEF TextTyped
<1>5. Cuts(Append(sending[k], SubSeq(t, 1, n)), a, b + n)
  BY <1>1, <1>3, <1>4, CutsGrow
<1> QED
  BY <1>2, <1>3, <1>5, <1>6 DEF Stop, n

\* Where the tick loop takes what is queued, and the drain what is left.
LEMMA Loop_Faithful ==
  ASSUME DeliveryInv, Typed, NEW k \in Delivery, Loop(k), Faithful(k)
  PROVE  Faithful(k)'
<1> USE DEF Goto, agentVars, flowVars, threadVars
<1>1. /\ pc \in [Delivery -> Stages] /\ length \in Nat
      /\ run \in [Delivery -> {"none", "running", "ended", "broken"}]
      /\ sender \in [Delivery -> {"off", "on", "done", "failed"}]
      /\ queue \in [Delivery -> Seq(0 .. length)] /\ TextTyped
      /\ pending \in [Delivery -> Seq(1 .. length)]
      /\ sending \in [Delivery -> Seq(Seq(1 .. length))]
  BY DeliveryAssumption DEF DeliveryInv, Shape, Typed, TextTyped, PlainTyped
<1>2. UNCHANGED <<said, message, posts>>
  BY DEF Loop, OpenStream, Tick, Bail, Drain
<1>3. CASE OpenStream(k)
  <2>1. /\ pc[k] = "open" /\ UNCHANGED <<queue, pending, sending>>
        /\ sender[k] = "off" /\ run[k] = "none"
    BY <1>3 DEF OpenStream, Faithful, EndIsLast, DeliveryInv, Shape
  <2>2. \/ pc'[k] = "stream" /\ sender'[k] = "on"
        \/ pc'[k] = "invoke" /\ run'[k] = "none"
    BY <1>1, <1>3, <2>1 DEF OpenStream
  <2>3. Conveyed(k)'
    BY <1>2, <2>1, TextStays DEF Text
  <2>4. Whole(k)'
    BY <2>2 DEF Whole
  <2>5. EndIsLast(k)'
    <3>1. sending[k] = <<>>
      BY <2>1 DEF Faithful, EndIsLast
    <3> QED
      BY <2>1, <2>2, <3>1 DEF EndIsLast
  <2> QED
    BY <2>3, <2>4, <2>5 DEF Faithful
<1>4. CASE Bail(k)
  <2>1. /\ sender[k] = "failed" /\ pc'[k] = "drain"
        /\ UNCHANGED <<queue, pending, sending, sender>>
    BY <1>1, <1>4 DEF Bail
  <2>2. Conveyed(k)'
    BY <1>2, <2>1, TextStays DEF Text
  <2> QED
    BY <2>1, <2>2 DEF Faithful, EndIsLast, Whole
<1>5. CASE Tick(k)
  <2> DEFINE done == queue[k] # <<>> /\ queue[k][Len(queue[k])] = End
             n    == Len(queue[k]) - (IF done THEN 1 ELSE 0)
             text == pending[k] \o SubSeq(queue[k], 1, n)
  <2>1. /\ pc[k] = "stream" /\ sender[k] # "failed" /\ UNCHANGED <<run, runs, sender>>
        /\ queue'[k] = <<>> /\ pc'[k] = IF done THEN "drain" ELSE "stream"
        /\ Release(k, text) \/ Hold(k, text)
    BY <1>1, <1>5 DEF Tick
  <2>2. n \in 0 .. Len(queue[k]) /\ \A i \in 1 .. n : queue[k][i] \in 1 .. length
    BY <1>1 DEF TextTyped, End
  <2>3. SubSeq(queue[k], 1, n) \in Seq(1 .. length) /\ pending[k] \in Seq(1 .. length)
        /\ text \in Seq(1 .. length) /\ Len(SubSeq(queue[k], 1, n)) = n
        /\ \A i \in 1 .. n : SubSeq(queue[k], 1, n)[i] = queue[k][i]
    <3>1. queue[k] \in Seq(0 .. length) /\ pending[k] \in Seq(1 .. length)
      BY <1>1
    <3> HIDE DEF n
    <3>2. /\ SubSeq(queue[k], 1, n) \in Seq(1 .. length) /\ Len(SubSeq(queue[k], 1, n)) = n
          /\ \A i \in 1 .. n : SubSeq(queue[k], 1, n)[i] = queue[k][i]
      BY <2>2, <3>1
    <3> QED
      BY <3>1, <3>2
  <2>4. n = Units(queue[k])
    BY DEF Units
  <2>5. PICK b \in Nat, p \in Nat :
          /\ Cuts(sending[k], Len(Text(k)), b)
          /\ Piece(pending[k], b, p)
          /\ Queued(queue[k], p, said[k])
    BY <2>1 DEF Faithful, Conveyed, Flow
  <2> HIDE DEF n
  <2>6. Piece(SubSeq(queue[k], 1, n), p, said[k])
    BY <2>3, <2>4, <2>5 DEF Queued, Piece
  <2>7. Piece(text, b, said[k]) /\ said[k] \in Nat /\ Len(Text(k)) \in Nat
    <3>1. Piece(text, b, said[k])
      BY <2>3, <2>5, <2>6, PieceJoins
    <3> QED
      BY <3>1 DEF Piece, Faithful, Conveyed
  <2>8. Queued(<<>>, said[k], said[k])
    BY <2>7 DEF Queued, Units
  <2> HIDE DEF text
  <2>9. Flow(k)' /\ \A i \in 1 .. Len(sending'[k]) : sending'[k][i] # Stop
    <3>1. sending[k] \in Seq(Seq(1 .. length))
          /\ \A i \in 1 .. Len(sending[k]) : sending[k][i] # Stop
      BY <1>1, <2>1 DEF Faithful, EndIsLast
    <3>2. CASE Hold(k, text)
      <4>1. sending'[k] = sending[k] /\ pending'[k] = text
        BY <1>1, <3>2 DEF Hold
      <4> QED
        BY <1>2, <2>1, <2>5, <2>7, <2>8, <3>1, <4>1 DEF Flow, Text
    <3>3. CASE Release(k, text)
      <4>1. PICK d \in Nat : Cuts(sending'[k], Len(Text(k)), d) /\ Piece(pending'[k], d, said[k])
        BY <1>1, <2>3, <2>5, <2>7, <3>3, ReleaseFlows
      <4>2. PICK x : sending'[k] = Append(sending[k], x) /\ x # Stop
        BY <1>1, <2>3, <2>5, <2>7, <3>3, ReleaseFlows
      <4>3. \A i \in 1 .. Len(sending'[k]) : sending'[k][i] # Stop
        BY <3>1, <4>2
      <4> QED
        BY <1>2, <2>1, <2>7, <2>8, <4>1, <4>3 DEF Flow, Text
    <3> QED
      BY <2>1, <3>2, <3>3
  <2>10. done => run[k] # "running"
    BY <1>1 DEF TextTyped
  <2> HIDE DEF done
  <2>11. Conveyed(k)'
    BY <1>2, <2>9 DEF Faithful, Conveyed, Text
  <2>12. EndIsLast(k)'
    BY <2>1, <2>9, <2>10 DEF Faithful, EndIsLast
  <2>13. Whole(k)'
    BY <2>1 DEF Whole
  <2> QED
    BY <2>11, <2>12, <2>13 DEF Faithful
<1>6. CASE Drain(k)
  <2>1. pc[k] = "drain" /\ UNCHANGED <<runs, run, queue, sender>>
    BY <1>6 DEF Drain
  <2>2. sending[k] \in Seq(Seq(1 .. length)) /\ pending[k] \in Seq(1 .. length)
    BY <1>1
  <2>3. CASE sender[k] = "failed"
    <3>1. Conveyed(k)'
      BY <1>2, <2>1, <2>3 DEF Faithful, Conveyed, Text
    <3>2. pc'[k] \in {"drain", "wait"}
      BY <1>1, <1>6 DEF Drain
    <3> QED
      BY <2>1, <2>3, <3>1, <3>2 DEF Faithful, EndIsLast, Whole
  <2>4. CASE sender[k] # "failed"
    <3>1. /\ sender[k] = "on" /\ queue[k] = <<>> /\ run[k] # "running"
          /\ \A i \in 1 .. Len(sending[k]) : sending[k][i] # Stop
      BY <2>1, <2>4 DEF Faithful, EndIsLast
    <3>2. PICK b \in Nat, p \in Nat :
            /\ Cuts(sending[k], Len(Text(k)), b)
            /\ Piece(pending[k], b, p)
            /\ Queued(queue[k], p, said[k])
      BY <2>4 DEF Faithful, Conveyed, Flow
    <3>3. Len(Text(k)) \in Nat
      BY DEF Faithful, Conveyed, Piece
    <3>4. CASE Release(k, pending[k]) /\ UNCHANGED pc
      <4>1. PICK d \in Nat : Cuts(sending'[k], Len(Text(k)), d) /\ Piece(pending'[k], d, p)
        BY <1>1, <2>2, <3>2, <3>3, <3>4, ReleaseFlows
      <4>2. PICK x : sending'[k] = Append(sending[k], x) /\ x # Stop
        BY <1>1, <2>2, <3>2, <3>3, <3>4, ReleaseFlows
      <4>3. \A i \in 1 .. Len(sending'[k]) : sending'[k][i] # Stop
        BY <2>2, <3>1, <4>2
      <4>4. Flow(k)'
        BY <1>2, <2>1, <3>2, <4>1 DEF Flow, Text
      <4>5. Conveyed(k)'
        BY <1>2, <4>4 DEF Faithful, Conveyed, Text
      <4> QED
        BY <2>1, <3>1, <3>4, <4>3, <4>5 DEF Faithful, EndIsLast, Whole
    <3>5. CASE /\ pending[k] = <<>> /\ UNCHANGED pending
               /\ sending' = [sending EXCEPT ![k] = Append(@, Stop)]
               /\ pc' = [pc EXCEPT ![k] = "wait"]
      <4>1. sending'[k] = Append(sending[k], Stop) /\ pc'[k] = "wait" /\ pending'[k] = <<>>
        BY <1>1, <3>5
      <4>2. Stop \in Seq(1 .. length) /\ Piece(Stop, b, b) /\ Len(Stop) \in Nat
        BY DEF Stop, Piece
      <4>3. Cuts(sending'[k], Len(Text(k)), b)
        BY <2>2, <3>2, <4>1, <4>2, CutsGrow
      <4>4. Flow(k)'
        BY <1>2, <2>1, <3>2, <3>5, <4>3 DEF Flow, Text
      <4>5. Conveyed(k)'
        BY <1>2, <4>4 DEF Faithful, Conveyed, Text
      <4>6. \A i \in 1 .. Len(sending'[k]) : sending'[k][i] = Stop => i = Len(sending'[k])
        BY <2>2, <3>1, <4>1
      <4> QED
        BY <2>1, <3>1, <4>1, <4>5, <4>6 DEF Faithful, EndIsLast, Whole
    <3> QED
      BY <1>6, <3>4, <3>5 DEF Drain
  <2> QED
    BY <2>3, <2>4
<1> QED
  BY <1>3, <1>4, <1>5, <1>6 DEF Loop

LEMMA TailOfOne == ASSUME NEW S, NEW s \in Seq(S), Len(s) = 1 PROVE Len(Tail(s)) = 0
  OBVIOUS

LEMMA PrefixGrows ==
  ASSUME NEW S, NEW s \in Seq(S), NEW t \in Seq(S), NEW b, NEW d,
         b = Len(s), Piece(s, 0, b), Piece(t, b, d)
  PROVE  Piece(s \o t, 0, d) /\ Len(s \o t) = d
<1>1. PICK a : a = 0
  OBVIOUS
<1>2. Piece(s \o t, a, d) /\ Len(s \o t) = d - a
  BY <1>1, PieceJoins
<1>3. d \in Nat
  BY DEF Piece
<1> QED
  BY <1>1, <1>2, <1>3

\* The sender shows the first piece, and ends with the end mark or a failure.
LEMMA Send_Faithful ==
  ASSUME DeliveryInv, Typed, Closing, NEW k \in Delivery, Send(k), Faithful(k)
  PROVE  Faithful(k)'
<1>1. /\ sender \in [Delivery -> {"off", "on", "done", "failed"}] /\ length \in Nat
      /\ sending \in [Delivery -> Seq(Seq(1 .. length))] /\ message \in [Delivery -> Streamed]
  BY DeliveryAssumption DEF DeliveryInv, Shape, Typed, TextTyped, PlainTyped
<1>2. /\ UNCHANGED <<pc, runs, run, said, queue, pending, posts>>
      /\ sender[k] = "on" /\ sending[k] # <<>>
      /\ sending'[k] = Tail(sending[k])
  BY <1>1 DEF Send, agentVars
<1>3. pc[k] \in {"stream", "drain", "wait"}
  BY <1>2 DEF Send, Closing
<1> DEFINE piece == Head(sending[k])
<1>4. /\ sending[k] \in Seq(Seq(1 .. length)) /\ piece \in Seq(1 .. length)
      /\ piece = sending[k][1] /\ Len(sending[k]) >= 1
      /\ Text(k) \in Seq(1 .. length)
  BY <1>1, <1>2 DEF Text, Streamed
<1>5. PICK b \in Nat, p \in Nat :
        /\ Cuts(sending[k], Len(Text(k)), b)
        /\ Piece(pending[k], b, p)
        /\ Queued(queue[k], p, said[k])
  BY <1>2 DEF Faithful, Conveyed, Flow
<1>6. PICK m \in Nat : Piece(piece, Len(Text(k)), m) /\ m <= b /\ Cuts(Tail(sending[k]), m, b)
  BY <1>2, <1>4, <1>5, CutsShrink
<1>7. m <= said[k] /\ said[k] \in Nat
  <2>1. b <= p /\ p <= said[k] /\ said[k] \in Nat
    <3>1. Len(pending[k]) \in Nat /\ Units(queue[k]) \in Nat
      <4>1. pending[k] \in Seq(1 .. length) /\ queue[k] \in Seq(0 .. length)
        BY DEF Typed, TextTyped
      <4> QED
        BY <4>1 DEF Units
    <3> QED
      BY <1>5, <3>1 DEF Piece, Queued
  <2> QED
    BY <1>6, <2>1
<1>8. Whole(k)'
  BY <1>2, <1>3 DEF Whole
<1> HIDE DEF piece
<1>9. CASE piece = Stop /\ sender' = [sender EXCEPT ![k] = "done"] /\ UNCHANGED message
  <2>1. m = Len(Text(k)) /\ Text(k)' = Text(k) /\ sender'[k] = "done"
    BY <1>1, <1>6, <1>9 DEF Piece, Stop, Text
  <2>2. Conveyed(k)'
    BY <1>2, <1>5, <1>6, <2>1 DEF Faithful, Conveyed, Flow
  <2>3. pc[k] = "wait" /\ pending[k] = <<>> /\ Len(sending[k]) = 1
    <3>1. 1 \in 1 .. Len(sending[k]) /\ sending[k][1] = Stop
      BY <1>4, <1>9
    <3>2. pc[k] = "wait"
      BY <1>2, <1>3, <3>1 DEF Faithful, EndIsLast
    <3> QED
      BY <1>2, <3>1, <3>2 DEF Faithful, EndIsLast
  <2>4. Len(Tail(sending[k])) = 0
    <3>1. sending[k] \in Seq(Seq(1 .. length)) /\ Len(sending[k]) = 1
      BY <1>4, <2>3
    <3> QED
      BY <3>1, TailOfOne
  <2>5. EndIsLast(k)'
    BY <1>2, <2>1, <2>3, <2>4 DEF Faithful, EndIsLast
  <2> QED
    BY <1>8, <2>2, <2>5 DEF Faithful
<1>10. CASE piece # Stop
  <2>1. ASSUME NEW known, Shown(k, piece, known)
        PROVE  Text(k)' = Text(k) \o piece /\ Piece(Text(k)', 0, m) /\ Len(Text(k)') = m
    <3>1. Text(k)' = Text(k) \o piece
      BY <1>1, <2>1 DEF Shown, Text, Streamed
    <3>2. Piece(Text(k), 0, Len(Text(k)))
      BY DEF Faithful, Conveyed
    <3>3. Piece(Text(k) \o piece, 0, m) /\ Len(Text(k) \o piece) = m
      <4>1. Text(k) \in Seq(1 .. length) /\ piece \in Seq(1 .. length)
        BY <1>4
      <4>2. Piece(piece, Len(Text(k)), m)
        BY <1>6
      <4> QED
        BY <3>2, <4>1, <4>2, PrefixGrows
    <3> QED
      BY <3>1, <3>3
  <2>2. CASE sender' = [sender EXCEPT ![k] = "failed"]
    <3>1. sender'[k] = "failed"
      BY <1>1, <2>2
    <3>2. Conveyed(k)'
      <4>1. CASE UNCHANGED message
        BY <1>2, <3>1, <4>1 DEF Faithful, Conveyed, Text
      <4>2. CASE Shown(k, piece, FALSE)
        BY <1>2, <1>7, <2>1, <3>1, <4>2 DEF Conveyed
      <4> QED
        BY <1>2, <1>10, <3>1, <4>1, <4>2 DEF Send, piece
    <3>3. EndIsLast(k)'
      BY <1>2, <1>3, <3>1 DEF EndIsLast
    <3> QED
      BY <1>8, <3>2, <3>3 DEF Faithful
  <2>3. CASE Shown(k, piece, TRUE) /\ UNCHANGED sender
    <3>1. Conveyed(k)'
      BY <1>2, <1>5, <1>6, <1>7, <2>1, <2>3 DEF Conveyed, Flow
    <3>2. \A i \in 1 .. Len(Tail(sending[k])) :
            /\ i + 1 \in 1 .. Len(sending[k]) /\ Tail(sending[k])[i] = sending[k][i + 1]
            /\ Len(Tail(sending[k])) = Len(sending[k]) - 1
      BY <1>2, <1>4
    <3>3. EndIsLast(k)'
      <4>1. \A i \in 1 .. Len(sending[k]) : sending[k][i] # Stop \/ i = Len(sending[k])
        BY <1>2, <1>3 DEF Faithful, EndIsLast
      <4>2. \A i \in 1 .. Len(sending'[k]) : sending'[k][i] = Stop => i = Len(sending'[k])
        <5> SUFFICES ASSUME NEW i \in 1 .. Len(Tail(sending[k])), Tail(sending[k])[i] = Stop
                     PROVE  i = Len(Tail(sending[k]))
          BY <1>2
        <5>1. i + 1 = Len(sending[k])
          BY <3>2, <4>1
        <5> QED
          BY <3>2, <5>1
      <4>3. pc[k] # "wait" => \A i \in 1 .. Len(sending'[k]) : sending'[k][i] # Stop
        BY <1>2, <1>3, <3>2 DEF Faithful, EndIsLast
      <4> QED
        BY <1>2, <1>3, <2>3, <4>2, <4>3 DEF Faithful, EndIsLast
    <3> QED
      BY <1>8, <3>1, <3>3 DEF Faithful
  <2> QED
    BY <1>10, <2>2, <2>3 DEF Send, piece
<1> QED
  BY <1>9, <1>10 DEF Send, piece

-----------------------------------------------------------------------------
LEMMA Stream_Faithful ==
  ASSUME DeliveryInv, Typed, Closing, AllFaithful,
         NEW k \in Delivery, Agent(k) \/ Loop(k) \/ Send(k)
  PROVE  AllFaithful'
<1>1. \A j \in Delivery : Faithful(j)
  BY DEF AllFaithful
<1>2. Faithful(k)'
  BY <1>1, Agent_Faithful, Loop_Faithful, Send_Faithful
<1>3. ASSUME NEW j \in Delivery, j # k PROVE Faithful(j)'
  BY <1>1, <1>3, StreamOthers
<1> QED
  BY <1>2, <1>3 DEF AllFaithful

LEMMA Step_Faithful ==
  DeliveryInv /\ Typed /\ Closing /\ AllFaithful /\ [DeliveryNext]_dvars => AllFaithful'
<1> SUFFICES ASSUME DeliveryInv, Typed, Closing, AllFaithful, [DeliveryNext]_dvars
             PROVE  AllFaithful'
  OBVIOUS
<1>1. CASE UNCHANGED dvars
  <2>1. /\ UNCHANGED <<pc, runs, run, said, queue, pending, sending, sender, message, posts>>
    BY <1>1 DEF dvars, agentVars, flowVars, threadVars
  <2> QED
    BY <2>1, OthersFaithful DEF AllFaithful
<1>2. ASSUME NEW k \in Delivery, Deliver(k) \/ StopWaiting(k) \/ Handler(k)
      PROVE  AllFaithful'
  BY <1>2, Webhook_Faithful
<1>3. ASSUME NEW k \in Delivery, Agent(k) \/ Loop(k) \/ Send(k)
      PROVE  AllFaithful'
  BY <1>3, Stream_Faithful
<1>4. ASSUME NEW k \in Delivery, Finish(k) PROVE AllFaithful'
  BY <1>4, Finish_Faithful
<1> QED
  BY <1>1, <1>2, <1>3, <1>4, Crash_Faithful DEF DeliveryNext

\* What a streamed message shows is the beginning of what the agent said, in its
\* order, and all of it when the reply ends without a second run (stream_reply,
\* _flush_to_slack).
THEOREM StreamsAreFaithful == DeliverySpec => []StreamFaithful
<1>1. DeliverySpec => []AllFaithful
  BY DeliveryInit_Faithful, Step_Faithful, DeliveryInvariant, TypedInvariant, ClosingInvariant, PTL
     DEF DeliverySpec
<1>2. Typed /\ AllFaithful => StreamFaithful
  <2> SUFFICES ASSUME Typed, AllFaithful, NEW k \in Delivery
               PROVE  /\ Text(k) = UpTo(Len(Text(k)))
                      /\ Len(Text(k)) <= said[k]
                      /\ (pc[k] = "over" /\ runs[k] = 1 /\ run[k] = "ended" /\ posts[k] = {})
                           => message[k].state = "final" /\ Text(k) = UpTo(said[k])
    BY DEF StreamFaithful, Text
  <2>1. Text(k) \in Seq(1 .. length)
    BY DEF Typed, TextTyped, Streamed, Text
  <2>2. \A i \in 1 .. Len(Text(k)) : Text(k)[i] = i
    BY <2>1 DEF AllFaithful, Faithful, Conveyed, Piece
  <2>3. Text(k) = UpTo(Len(Text(k)))
    BY <2>1, <2>2 DEF UpTo
  <2> QED
    BY <2>3 DEF AllFaithful, Faithful, Conveyed, Whole
<1> QED
  BY <1>1, <1>2, TypedInvariant, PTL
-----------------------------------------------------------------------------
(***************************************************************************)
(* The job and its tracker.                                                *)
(***************************************************************************)

\* What is proved of every job holds for this one.
JP == INSTANCE SandboxJob_proofs WITH
  Task <- {job}, Threshold <- [t \in {job} |-> Ceiling], Cost <- [t \in {job} |-> Spend],
  Faults <- JobFaults, MaxFaults <- MaxJobFaults, nfaults <- jfaults,
  happened <- jhappened

\* SandboxJob's assumption on its constants holds here.
LEMMA JobAssumed ==
  /\ JP!IsFiniteSet({job})
  /\ [t \in {job} |-> Ceiling] \in [{job} -> Nat \ {0}]
  /\ [t \in {job} |-> Spend] \in [{job} -> Nat]
  /\ Resends \in Nat
  /\ JobFaults \subseteq JP!FaultKinds
  /\ MaxJobFaults \in Nat
<1>1. IsFiniteSet({job})
  BY FS_Singleton
<1>2. JP!IsFiniteSet({job})
  BY <1>1 DEF IsFiniteSet, JP!IsFiniteSet
<1> QED
  BY <1>2, SystemAssumption DEF J!FaultKinds, JP!FaultKinds

\* A step of the whole is a step of the job, or none.
LEMMA StepIsJobStep == [SystemNext]_svars => [J!Next]_(J!vars)
<1> SUFFICES ASSUME [SystemNext]_svars PROVE [J!Next]_(J!vars)
  OBVIOUS
<1> DEFINE step == \E t \in {job} : \/ J!RecordJob(t) \/ J!ToolStep(t) \/ J!PollStep(t)
                                    \/ J!SandboxStep(t) \/ J!ContainerStopped(t)
<1>1. ASSUME UNCHANGED jvars PROVE UNCHANGED J!vars
  BY <1>1 DEF jvars, J!vars, J!agentVars, J!sandboxVars, J!faultVars
<1>2. Work \/ Open \/ Report => J!SandboxStep(job)
  BY DEF Work, Open, Report, J!SandboxStep
<1>3. FirstEdit => UNCHANGED jvars
  BY DEF FirstEdit
<1>4. AgentStep => J!RecordJob(job) \/ J!ToolStep(job) \/ J!AgentCrash \/ J!IdleShutdown
  BY DEF AgentStep
<1>5. DaemonStep \/ KillStep => J!PollStep(job) \/ J!ContainerStopped(job)
  BY DEF DaemonStep, KillStep
<1>6. TimeoutStep \/ (\E k \in L!Post : HandlerStep(k)) => UNCHANGED jvars
  BY DEF TimeoutStep, HandlerStep
<1>7. UNCHANGED svars => UNCHANGED jvars
  BY DEF svars
<1>8. step \/ J!AgentCrash \/ J!IdleShutdown \/ UNCHANGED jvars
  BY <1>2, <1>3, <1>4, <1>5, <1>6, <1>7 DEF SystemNext, ContainerStep
<1> QED
  BY <1>1, <1>8 DEF J!Next

\* The two instances of SandboxJob are one.
LEMMA SameStep == [J!Next]_(J!vars) => [JP!Next]_(JP!vars)
<1> USE DEF J!RowWriteLogged, JP!RowWriteLogged, J!RowWrite, JP!RowWrite, J!NoFault, JP!NoFault,
            J!Fault, JP!Fault, J!faultVars, JP!faultVars, J!agentVars, JP!agentVars,
            J!sandboxVars, JP!sandboxVars, J!WithStatus, JP!WithStatus, J!Register, JP!Register,
            J!Unregister, JP!Unregister, J!Return, JP!Return, J!GiveUp, JP!GiveUp,
            J!Goto, JP!Goto, J!Terminal, JP!Terminal, J!PollLive, JP!PollLive,
            J!Working, JP!Working, J!vars, JP!vars
<1>1. ASSUME NEW t \in {job}, J!ToolStep(t) PROVE JP!ToolStep(t)
  BY <1>1 DEF J!ToolStep, JP!ToolStep, J!RegisterJob, JP!RegisterJob, J!FailRegistration, JP!FailRegistration, J!LaunchSandbox, JP!LaunchSandbox, J!FailLaunch, JP!FailLaunch, J!StartPoller, JP!StartPoller
<1>2. ASSUME NEW t \in {job}, J!PollStep(t) PROVE JP!PollStep(t)
  BY <1>2 DEF J!PollStep, JP!PollStep, J!EndBackground, JP!EndBackground, J!PollTerminal, JP!PollTerminal,
       J!Charge, JP!Charge, J!PollDeadline, JP!PollDeadline, J!MarkOrphaned, JP!MarkOrphaned, J!AuditCompletion, JP!AuditCompletion, J!ClearHeartbeat, JP!ClearHeartbeat
<1>3. ASSUME NEW t \in {job}, J!SandboxStep(t) PROVE JP!SandboxStep(t)
  BY <1>3 DEF J!SandboxStep, JP!SandboxStep, J!ReadJob, JP!ReadJob, J!MarkRunning, JP!MarkRunning, J!CloneRepo, JP!CloneRepo, J!RunAgentLoop, JP!RunAgentLoop, J!WriteCost, JP!WriteCost, J!PushBranch, JP!PushBranch, J!OpenPullRequest, JP!OpenPullRequest, J!WriteOutcome, JP!WriteOutcome, J!PostCallback, JP!PostCallback
<1>4. ASSUME NEW t \in {job}, J!RecordJob(t) PROVE JP!RecordJob(t)
  BY <1>4 DEF J!RecordJob, JP!RecordJob
<1>5. ASSUME NEW t \in {job}, J!StartBackground(t) PROVE JP!StartBackground(t)
  BY <1>5 DEF J!StartBackground, JP!StartBackground
<1>6. ASSUME NEW t \in {job}, J!ContainerStopped(t) PROVE JP!ContainerStopped(t)
  BY <1>6 DEF J!ContainerStopped, JP!ContainerStopped
<1>7. J!AgentCrash => JP!AgentCrash
  BY DEF J!AgentCrash, JP!AgentCrash, J!ProcessGone, JP!ProcessGone
<1>8. J!IdleShutdown => JP!IdleShutdown
  BY DEF J!IdleShutdown, JP!IdleShutdown, J!ProcessGone, JP!ProcessGone, J!Busy, JP!Busy, J!Cardinality, JP!Cardinality
<1> QED
  BY <1>1, <1>2, <1>3, <1>4, <1>5, <1>6, <1>7, <1>8 DEF J!Next, JP!Next

LEMMA SameJob == J!Spec => JP!Spec
<1>1. J!Init => JP!Init
  BY DEF J!Init, JP!Init
<1> QED
  BY <1>1, SameStep, PTL DEF J!Spec, JP!Spec
\* Where the container is in its program tells what it last posted, and what was
\* called back is the outcome of a container that has exited.
Progressed ==
  /\ sandbox[job] \in {"none", "boot", "claimed"} => at = 0
  /\ sandbox[job] = "cloning" => at = 1
  /\ sandbox[job] \in {"editing", "costing"} => at \in {2, 3}
  /\ sandbox[job] = "pushing" => at = 4
  /\ sandbox[job] = "opening" => at = 5
  /\ sandbox[job] \in {"closing", "calling"}
       => \/ outcome[job] = "success" /\ at = 6
          \/ outcome[job] = "error" /\ at \in 1 .. 5
  /\ told # "none" => sandbox[job] = "exited" /\ told = outcome[job]

\* What a step of the container that posts nothing, or post k, does to `at'.
LEMMA PostedNext ==
  ASSUME NEW k, UNCHANGED lvars \/ L!Send(k)
  PROVE  at' = at \/ at' = k
BY DEF lvars, L!Send

LEMMA WorkTells == ASSUME JP!TypeOK, Progressed, Work PROVE Progressed'
<1> DEFINE k == Milestone(sandbox[job], sandbox'[job])
<1> USE DEF Progressed, JP!Goto, JP!GiveUp, J!Goto, J!GiveUp
<1>1. sandbox \in [{job} -> JP!SandboxStates] /\ outcome \in [{job} -> JP!Terminal \cup {"none"}]
  BY DEF JP!TypeOK
<1>2. told' = told /\ IF k = 0 THEN at' = at ELSE at' = k
  BY DEF Work, lvars, L!Send
<1>3. told = "none" \/ sandbox[job] = "exited"
  OBVIOUS
<1>4. sandbox[job] # "exited" => told' = "none"
  BY <1>2, <1>3
<1>5. CASE J!ReadJob(job)
  <2>1. sandbox[job] = "boot" /\ sandbox'[job] \in {"claimed", "exited"}
    BY <1>1, <1>5 DEF J!ReadJob
  <2>2. k = 0
    BY <2>1 DEF Milestone
  <2> QED
    BY <1>2, <1>4, <2>1, <2>2
<1>6. CASE J!MarkRunning(job)
  <2>1. sandbox[job] = "claimed" /\ sandbox'[job] = "cloning"
    BY <1>1, <1>6 DEF J!MarkRunning
  <2>2. k = 1
    BY <2>1 DEF Milestone
  <2> QED
    BY <1>2, <1>4, <2>1, <2>2
<1>7. CASE J!CloneRepo(job)
  <2>1. /\ sandbox[job] = "cloning"
        /\ sandbox'[job] = "editing" \/ (sandbox'[job] = "closing" /\ outcome'[job] = "error")
    BY <1>1, <1>7 DEF J!CloneRepo
  <2>2. k = IF sandbox'[job] = "editing" THEN 2 ELSE 0
    BY <2>1 DEF Milestone
  <2> QED
    BY <1>2, <1>4, <2>1, <2>2
<1>8. CASE J!RunAgentLoop(job)
  <2>1. /\ sandbox[job] = "editing"
        /\ sandbox'[job] = "costing" \/ (sandbox'[job] = "closing" /\ outcome'[job] = "error")
    BY <1>1, <1>8 DEF J!RunAgentLoop
  <2>2. k = 0
    BY <2>1 DEF Milestone
  <2> QED
    BY <1>2, <1>4, <2>1, <2>2
<1>9. CASE J!WriteCost(job)
  <2>1. /\ sandbox[job] = "costing"
        /\ sandbox'[job] = "pushing" \/ (sandbox'[job] = "closing" /\ outcome'[job] = "error")
    BY <1>1, <1>9 DEF J!WriteCost
  <2>2. k = IF sandbox'[job] = "pushing" THEN 4 ELSE 0
    BY <2>1 DEF Milestone
  <2> QED
    BY <1>2, <1>4, <2>1, <2>2
<1>10. CASE J!PushBranch(job)
  <2>1. /\ sandbox[job] = "pushing"
        /\ sandbox'[job] = "opening" \/ (sandbox'[job] = "closing" /\ outcome'[job] = "error")
    BY <1>1, <1>10 DEF J!PushBranch
  <2>2. k = IF sandbox'[job] = "opening" THEN 5 ELSE 0
    BY <2>1 DEF Milestone
  <2> QED
    BY <1>2, <1>4, <2>1, <2>2
<1>11. CASE J!WriteOutcome(job)
  <2>1. sandbox[job] = "closing" /\ sandbox'[job] = "calling" /\ outcome' = outcome
    BY <1>1, <1>11 DEF J!WriteOutcome
  <2>2. k = 0
    BY <2>1 DEF Milestone
  <2> QED
    BY <1>2, <1>4, <2>1, <2>2
<1> QED
  BY <1>5, <1>6, <1>7, <1>8, <1>9, <1>10, <1>11 DEF Work

LEMMA StepTells == JP!LInv /\ Progressed /\ [SystemNext]_svars => Progressed'
<1> SUFFICES ASSUME JP!LInv, Progressed, [SystemNext]_svars PROVE Progressed'
  OBVIOUS
<1>t. JP!TypeOK
  BY DEF JP!LInv
<1>1. sandbox \in [{job} -> JP!SandboxStates] /\ outcome \in [{job} -> JP!Terminal \cup {"none"}]
  BY <1>t DEF JP!TypeOK
<1>0. ASSUME UNCHANGED <<sandbox, outcome, at, told>> PROVE Progressed'
  BY <1>0 DEF Progressed
<1>2. CASE Work
  BY <1>t, <1>2, WorkTells
<1>3. CASE Open
  <2>1. /\ sandbox[job] = "opening" /\ sandbox'[job] = "closing"
        /\ outcome'[job] \in {"success", "error"}
    BY <1>1, <1>3 DEF Open, J!OpenPullRequest, J!Goto, J!GiveUp
  <2>2. told' = told /\ IF outcome'[job] = "success" THEN at' = 6 ELSE at' = at
    BY <1>3 DEF Open, lvars, L!Send
  <2> QED
    BY <2>1, <2>2 DEF Progressed
<1>4. CASE FirstEdit
  <2>1. sandbox[job] = "editing" /\ at' = 3 /\ told' = told /\ UNCHANGED <<sandbox, outcome>>
    BY <1>4 DEF FirstEdit, L!Send, jvars
  <2> QED
    BY <2>1 DEF Progressed
<1>5. CASE Report
  <2>1. sandbox'[job] = "exited" /\ outcome' = outcome /\ told' = outcome[job]
    BY <1>1, <1>5 DEF Report, J!PostCallback, J!Goto
  <2> QED
    BY <2>1 DEF Progressed
<1>6. CASE AgentStep
  <2>1. UNCHANGED <<outcome, at, told>>
    BY <1>6 DEF AgentStep, lvars, J!RecordJob, J!ToolStep, J!RegisterJob, J!FailRegistration,
      J!LaunchSandbox, J!FailLaunch, J!StartPoller, J!AgentCrash, J!IdleShutdown, J!ProcessGone,
      J!sandboxVars
  <2>2. sandbox' = sandbox \/ (sandbox[job] = "none" /\ sandbox'[job] = "boot")
    <3>1. CASE J!LaunchSandbox(job)
      <4>1. sandbox[job] = "none"
        BY <3>1 DEF J!LaunchSandbox, JP!LInv, JP!LaunchedByTool
      <4> QED
        BY <1>1, <3>1, <4>1 DEF J!LaunchSandbox
    <3>2. CASE ~J!LaunchSandbox(job)
      BY <1>6, <3>2 DEF AgentStep, J!RecordJob, J!ToolStep, J!RegisterJob, J!FailRegistration,
        J!FailLaunch, J!StartPoller, J!AgentCrash, J!IdleShutdown, J!ProcessGone, J!sandboxVars
    <3> QED
      BY <3>1, <3>2
  <2> QED
    BY <2>1, <2>2 DEF Progressed
<1>7. CASE DaemonStep
  BY <1>0, <1>7 DEF DaemonStep, lvars, J!PollStep, J!EndBackground, J!PollTerminal, J!PollDeadline,
    J!MarkOrphaned, J!AuditCompletion, J!ClearHeartbeat, J!sandboxVars
<1>8. CASE TimeoutStep \/ \E k \in L!Post : HandlerStep(k)
  BY <1>0, <1>8 DEF TimeoutStep, HandlerStep, jvars, L!GiveUpWaiting, L!Handle, L!ReadRow,
    L!CallSlack, L!SaveTs, L!FallBack
<1>9. CASE KillStep
  <2>1. sandbox[job] \in JP!Working /\ sandbox'[job] = "dead" /\ UNCHANGED <<outcome, at, told>>
    BY <1>1, <1>9 DEF KillStep, lvars, J!ContainerStopped, J!Goto, J!Working, JP!Working
  <2> QED
    BY <2>1 DEF Progressed, JP!Working
<1>10. CASE UNCHANGED svars
  BY <1>0, <1>10 DEF svars, jvars, lvars
<1> QED
  BY <1>2, <1>3, <1>4, <1>5, <1>6, <1>7, <1>8, <1>9, <1>10 DEF SystemNext, ContainerStep

\* The milestone after the last one; the agent loop need not edit a file.
LEMMA NextPost ==
  ASSUME at \in 0 .. 5
  PROVE  at + 1 \in L!NextSteps /\ (at = 2 => 4 \in L!NextSteps)
<1> USE DEF L!NextSteps, L!Progress
<1>1. CASE at = 2
  BY <1>1
<1>2. CASE at # 2
  <2>1. L!NextSteps = {at + 1} \cap (1 .. 6)
    BY <1>2
  <2>2. at + 1 \in 1 .. 6
    OBVIOUS
  <2> HIDE DEF L!NextSteps
  <2> QED
    BY <1>2, <2>1, <2>2
<1> QED
  BY <1>1, <1>2

\* A step of the whole is a step of the tracker, or none: the container posts
\* its milestones in the order the tracker expects.
LEMMA StepIsTrackerStep ==
  JP!LInv /\ Progressed /\ [SystemNext]_svars => [L!TrackerNext]_(L!tvars)
<1> SUFFICES ASSUME JP!LInv, Progressed, [SystemNext]_svars PROVE [L!TrackerNext]_(L!tvars)
  OBVIOUS
<1> USE DEF L!Final, L!Progress, L!Post
<1>t. sandbox \in [{job} -> JP!SandboxStates] /\ outcome \in [{job} -> JP!Terminal \cup {"none"}]
  BY DEF JP!LInv, JP!TypeOK
<1>0. ASSUME UNCHANGED lvars PROVE UNCHANGED L!tvars
  BY <1>0 DEF lvars, L!tvars, L!faultVars
<1>1. ASSUME NEW k \in L!NextSteps, L!Send(k), at < 7, UNCHANGED told PROVE L!TrackerNext
  BY <1>1 DEF L!PostProgress, L!TrackerNext
<1>2. CASE Work
  <2> DEFINE k == Milestone(sandbox[job], sandbox'[job])
  <2>1. CASE k = 0
    BY <1>0, <1>2, <2>1 DEF Work
  <2>2. CASE k # 0
    <3>1. L!Send(k) /\ UNCHANGED told
      BY <1>2, <2>2 DEF Work
    <3>2. /\ sandbox[job] = "claimed" => k = 1 /\ at = 0
          /\ sandbox[job] = "cloning" => k = 2 /\ at = 1
          /\ sandbox[job] = "costing" => k = 4 /\ at \in {2, 3}
          /\ sandbox[job] = "pushing" => k = 5 /\ at = 4
          /\ sandbox[job] \in {"claimed", "cloning", "costing", "pushing"}
      BY <2>2 DEF Milestone, Progressed
    <3>3. k \in L!NextSteps /\ at < 7
      <4>1. CASE at = 2
        BY <3>2, <4>1, NextPost
      <4>2. CASE at # 2
        <5>1. at \in {0, 1, 3, 4} /\ k = at + 1
          BY <3>2, <4>2
        <5> QED
          BY <5>1, NextPost
      <4> QED
        BY <4>1, <4>2
    <3> QED
      BY <1>1, <3>1, <3>3
  <2> QED
    BY <2>1, <2>2
<1>3. CASE Open
  <2>1. at = 5
    BY <1>3 DEF Open, J!OpenPullRequest, Progressed
  <2>2. 6 \in L!NextSteps
    BY <2>1, NextPost
  <2> QED
    BY <1>0, <1>1, <1>3, <2>1, <2>2 DEF Open
<1>4. CASE FirstEdit
  <2>1. at = 2 /\ 3 \in L!NextSteps
    BY <1>4 DEF FirstEdit, L!NextSteps
  <2> QED
    BY <1>1, <1>4, <2>1 DEF FirstEdit
<1>5. CASE Report
  <2>1. sandbox[job] = "calling" /\ told' = outcome[job] /\ L!Send(7)
    BY <1>5 DEF Report, J!PostCallback
  <2>2. at \in 1 .. 6 /\ told' = IF at = 6 THEN "success" ELSE "error"
    BY <2>1 DEF Progressed
  <2> QED
    BY <2>1, <2>2 DEF L!PostResult, L!TrackerNext
<1>6. CASE AgentStep \/ DaemonStep \/ KillStep
  BY <1>0, <1>6 DEF AgentStep, DaemonStep, KillStep
<1>7. CASE TimeoutStep
  BY <1>7 DEF TimeoutStep, L!TrackerNext
<1>8. CASE \E k \in L!Post : HandlerStep(k)
  BY <1>8 DEF HandlerStep, L!TrackerNext
<1>9. CASE UNCHANGED svars
  BY <1>0, <1>9 DEF svars
<1> QED
  BY <1>2, <1>3, <1>4, <1>5, <1>6, <1>7, <1>8, <1>9 DEF SystemNext, ContainerStep

\* Where the container is, and what is proved of the job alone.
LEMMA WholeTells == SystemSpec => J!Spec /\ [](JP!LInv /\ Progressed)
<1>1. SystemInit => J!Init
  BY DEF SystemInit
<1>2. SystemInit => Progressed
  BY DEF SystemInit, J!Init, L!TrackerInit, Progressed
<1>3. SystemSpec => J!Spec
  BY <1>1, StepIsJobStep, PTL DEF SystemSpec, J!Spec
<1>4. JP!Spec => []JP!LInv
  BY JobAssumed, JP!LaunchInvariant, PTL
<1> QED
  BY <1>2, <1>3, <1>4, SameJob, StepTells, PTL DEF SystemSpec

\* The whole is made of its parts, for any threshold, cost and faults: what is
\* proved of the job and of the tracker alone holds of them together.
THEOREM WholeIsItsParts == SystemSpec => PartsBehave
<1>1. SystemInit => L!TrackerInit
  BY DEF SystemInit
<1> QED
  BY <1>1, WholeTells, StepIsTrackerStep, PTL DEF SystemSpec, L!TrackerSpec, PartsBehave

\* A thread that shows a success has a pull request behind it and, unless the row
\* could not be written or the agent gave the launch up, a row that ended first
\* (entrypoint.main writes the outcome before it posts the callback).
THEOREM ThreadSuccessHolds == SystemSpec => []ThreadSuccessIsReal
<1>1. JP!LInv /\ Progressed /\ JP!SuccessHasPR /\ JP!RowKept => ThreadSuccessIsReal
  BY DEF Progressed, JP!SuccessHasPR, JP!SuccessBacked, JP!RowKept, ThreadSuccessIsReal
<1>2. JP!Spec => []JP!SuccessHasPR /\ []JP!RowKept
  BY JobAssumed, JP!SuccessIsReal, JP!RowInvariant, PTL
<1> QED
  BY <1>1, <1>2, WholeTells, SameJob, PTL
=============================================================================
