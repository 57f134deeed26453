------------------------ MODULE ProgressTracker_proofs ------------------------
(***************************************************************************)
(* However the handlers of the milestones overlap and whatever calls fail, *)
(* an extra tracker costs a fault of its own; while the container waits    *)
(* for its answers the thread never steps back, and a result that found a  *)
(* tracker is shown unless two things go wrong.                            *)
(***************************************************************************)
EXTENDS ProgressTracker, FiniteSetTheorems, TLAPS

Active == {"posted", "calling", "falling", "saving"}

\* Posts and what is shown of them follow the container.
Followed ==
  /\ \A k \in Post : phase[k] # "unsent" => k <= at
  /\ \A m \in Post : thread[m] <= at

\* While the container gives up on nothing, only the post it waits for is handled.
Waited ==
  "timeout" \notin happened =>
    \A k \in Post : phase[k] \in Active => waiting = k /\ at = k

\* A timestamp names a message of the thread, posted by a handler past its call.
Linked ==
  /\ ts # 0 => thread[ts] # 0
  /\ ts = 0 => past = {} /\ \A k \in Post : seen[k] = 0
  /\ \A old \in past : old # 0 => thread[old] # 0
  /\ \A k \in Post : seen[k] # 0 => thread[seen[k]] # 0
  /\ \A k \in Post : phase[k] = "saving" => k \in Progress /\ seen[k] = 0 /\ thread[k] # 0
  /\ \A k \in Progress : thread[k] # 0 => phase[k] \in {"saving", "done"}

\* Only a failed update of the tracker makes the result fall back.
Fell == \A k \in Post : phase[k] = "falling" => k = Final /\ nfaults >= 1

TrackerInv == TrackerTypeOK /\ Followed /\ Waited /\ Linked /\ Fell /\ ResultShown

-----------------------------------------------------------------------------
LEMMA FaultTyped ==
  ASSUME NEW kind, Fault(kind), TrackerTypeOK
  PROVE  /\ nfaults' \in 0 .. MaxFaults /\ happened' \subseteq Faults
         /\ nfaults' = nfaults + 1 /\ kind \in happened' /\ happened \subseteq happened'
  BY TrackerAssumption DEF Fault, TrackerTypeOK

LEMMA TrackerInit_Inv == TrackerInit => TrackerInv
<1> SUFFICES ASSUME TrackerInit PROVE TrackerInv
  OBVIOUS
<1>1. TrackerTypeOK
  BY TrackerAssumption DEF TrackerInit, TrackerTypeOK, Post, Progress, Final, Phases
<1>2. Followed /\ Waited /\ Linked /\ Fell /\ ResultShown
  BY DEF TrackerInit, Followed, Waited, Linked, Fell, ResultShown, Active, Post, Progress, Final
<1> QED
  BY <1>1, <1>2 DEF TrackerInv

-----------------------------------------------------------------------------
\* The container moves on to a later post, once it waits for nothing.
LEMMA Send_Inv ==
  ASSUME TrackerInv, NEW k \in Post, k > at, Send(k), outcome' \in {"none", "success", "error"}
  PROVE  TrackerInv'
<1> USE DEF Post, Progress, Final
<1>1. TrackerTypeOK /\ Followed /\ Waited /\ Linked /\ Fell /\ ResultShown
  BY DEF TrackerInv
<1>2. /\ nfaults' \in 0 .. MaxFaults /\ happened' \subseteq Faults
      /\ nfaults' >= nfaults /\ happened \subseteq happened'
  BY <1>1, FaultTyped DEF Send, TrackerTypeOK, faultVars
<1>3. /\ phase[k] = "unsent" /\ waiting = 0
      /\ \A j \in Post : j # k => phase'[j] = phase[j]
      /\ phase'[k] \in {"posted", "lost"}
      /\ phase'[k] = "posted" => waiting' = k
      /\ at' = k
  BY <1>1 DEF Send, Followed, TrackerTypeOK
<1>4. TrackerTypeOK'
  BY <1>1, <1>2 DEF Send, TrackerTypeOK, Phases
<1>5. Followed'
  BY <1>1, <1>3 DEF Followed, Send, TrackerTypeOK
<1>6. Waited'
  <2> SUFFICES ASSUME "timeout" \notin happened', NEW j \in Post, phase'[j] \in Active
               PROVE  waiting' = j /\ at' = j
    BY DEF Waited
  <2>1. j = k
    BY <1>1, <1>2, <1>3 DEF Waited
  <2> QED
    BY <2>1, <1>3 DEF Active
<1>7. Linked'
  BY <1>1, <1>3 DEF Linked, Send
<1>8. Fell'
  BY <1>1, <1>2, <1>3 DEF Fell, TrackerTypeOK
<1>9. ResultShown'
  BY <1>1, <1>2, <1>3 DEF ResultShown, Send, TrackerTypeOK
<1> QED
  BY <1>4, <1>5, <1>6, <1>7, <1>8, <1>9 DEF TrackerInv

LEMMA PostProgress_Inv == ASSUME TrackerInv, PostProgress PROVE TrackerInv'
<1>1. TrackerTypeOK
  BY DEF TrackerInv
<1>2. PICK k \in NextSteps : Send(k)
  BY DEF PostProgress
<1>3. k \in Post /\ k > at
  BY <1>1 DEF PostProgress, NextSteps, Post, Progress, Final, TrackerTypeOK
<1> QED
  BY <1>1, <1>2, <1>3, Send_Inv DEF PostProgress, TrackerTypeOK

LEMMA PostResult_Inv == ASSUME TrackerInv, PostResult PROVE TrackerInv'
<1>1. Final \in Post /\ Final > at /\ outcome' \in {"none", "success", "error"}
  BY DEF PostResult, Post, Progress, Final
<1> QED
  BY <1>1, Send_Inv DEF PostResult

LEMMA GiveUpWaiting_Inv == ASSUME TrackerInv, GiveUpWaiting PROVE TrackerInv'
<1> USE DEF Post, Progress, Final
<1>1. TrackerTypeOK /\ Followed /\ Linked /\ Fell
  BY DEF TrackerInv
<1>2. /\ nfaults' \in 0 .. MaxFaults /\ happened' \subseteq Faults
      /\ nfaults' = nfaults + 1 /\ "timeout" \in happened'
  BY <1>1, FaultTyped DEF GiveUpWaiting
<1>3. TrackerTypeOK' /\ Fell'
  BY <1>1, <1>2 DEF GiveUpWaiting, TrackerTypeOK, Fell
<1>4. Followed' /\ Linked'
  BY <1>1 DEF GiveUpWaiting, Followed, Linked
<1>5. Waited' /\ ResultShown'
  BY <1>2 DEF Waited, ResultShown
<1> QED
  BY <1>3, <1>4, <1>5 DEF TrackerInv

-----------------------------------------------------------------------------
\* What a handler's step does to its position, and to the container.
LEMMA Entered ==
  ASSUME TrackerInv, NEW k \in Post, NEW p \in Phases \ {"unsent", "posted"}, Enter(k, p),
         phase[k] \in Active, UNCHANGED <<at, outcome>>,
         happened \subseteq happened'
  PROVE  /\ phase' \in [Post -> Phases] /\ waiting' \in 0 .. Final
         /\ phase'[k] = p
         /\ \A j \in Post : j # k => phase'[j] = phase[j]
         /\ \A j \in Post : phase'[j] # "unsent" => j <= at'
         /\ Waited'
<1> USE DEF Post, Progress, Final
<1>1. TrackerTypeOK /\ Followed /\ Waited
  BY DEF TrackerInv
<1>2. phase' \in [Post -> Phases] /\ waiting' \in 0 .. Final /\ phase'[k] = p
  BY <1>1 DEF Enter, TrackerTypeOK
<1>3. \A j \in Post : j # k => phase'[j] = phase[j]
  BY <1>1 DEF Enter, TrackerTypeOK
<1>4. k <= at
  BY <1>1 DEF Followed, Active
<1>5. \A j \in Post : phase'[j] # "unsent" => j <= at'
  BY <1>1, <1>3, <1>4 DEF Followed
<1>6. Waited'
  <2> SUFFICES ASSUME "timeout" \notin happened', NEW j \in Post, phase'[j] \in Active
               PROVE  waiting' = j /\ at' = j
    BY DEF Waited
  <2>1. waiting = k /\ at = k /\ (phase[j] \in Active => waiting = j /\ at = j)
    BY <1>1 DEF Waited
  <2>2. j = k
    BY <2>1, <1>3
  <2>3. p \notin Over
    BY <2>2, <1>2 DEF Active, Over
  <2> QED
    BY <2>1, <2>2, <2>3 DEF Enter
<1> QED
  BY <1>2, <1>3, <1>5, <1>6

LEMMA ReadRow_Inv == ASSUME TrackerInv, NEW k \in Post, ReadRow(k) PROVE TrackerInv'
<1> USE DEF Post, Progress, Final
<1>1. TrackerTypeOK /\ Followed /\ Linked /\ Fell /\ ResultShown
  BY DEF TrackerInv
<1>2. /\ nfaults' \in 0 .. MaxFaults /\ happened' \subseteq Faults
      /\ nfaults' >= nfaults /\ happened \subseteq happened'
  BY <1>1, FaultTyped DEF ReadRow, TrackerTypeOK, faultVars
<1>3. PICK p \in {"calling", "lost"} : Enter(k, p)
  BY DEF ReadRow
<1>4. /\ phase' \in [Post -> Phases] /\ waiting' \in 0 .. Final
      /\ phase'[k] = p
      /\ \A j \in Post : j # k => phase'[j] = phase[j]
      /\ \A j \in Post : phase'[j] # "unsent" => j <= at'
      /\ Waited'
  <2>1. p \in Phases \ {"unsent", "posted"} /\ phase[k] \in Active
    BY <1>3 DEF Phases, Active, ReadRow
  <2> QED
    BY <1>2, <1>3, <2>1, Entered DEF ReadRow
<1>5. /\ UNCHANGED <<at, outcome, ts, past, thread>>
      /\ \A j \in Post : j # k => seen'[j] = seen[j]
      /\ seen'[k] \in {seen[k], ts} \cup past /\ seen' \in [Post -> 0 .. 6]
      /\ phase[k] = "posted"
  BY <1>1 DEF ReadRow, TrackerTypeOK
<1>6. TrackerTypeOK'
  BY <1>1, <1>2, <1>4, <1>5 DEF TrackerTypeOK
<1>7. Followed'
  BY <1>1, <1>4, <1>5 DEF Followed
<1>8. Linked'
  BY <1>1, <1>3, <1>4, <1>5 DEF Linked
<1>9. Fell' /\ ResultShown'
  BY <1>1, <1>2, <1>3, <1>4, <1>5 DEF Fell, ResultShown, TrackerTypeOK
<1> QED
  BY <1>4, <1>6, <1>7, <1>8, <1>9 DEF TrackerInv

\* What a call of Slack shows, and where its handler goes from there.
CalledWith(k, ok) ==
  /\ Enter(k, AfterCall(k, ok))
  /\ AfterCall(k, ok) \in Phases \ {"unsent", "posted"}
  /\ ok = TRUE => Show(Target(k), k)
  /\ ok = FALSE => nfaults' = nfaults + 1
  /\ Show(Target(k), k) \/ UNCHANGED thread
  /\ nfaults' \in 0 .. MaxFaults /\ happened' \subseteq Faults
  /\ nfaults' >= nfaults /\ happened \subseteq happened'
  /\ Target(k) \in Post

LEMMA Called ==
  ASSUME TrackerInv, NEW k \in Post, CallSlack(k)
  PROVE  \E ok \in BOOLEAN : CalledWith(k, ok)
<1>1. TrackerTypeOK
  BY DEF TrackerInv
<1>2. \A ok \in BOOLEAN : AfterCall(k, ok) \in Phases \ {"unsent", "posted"}
  BY DEF AfterCall, Phases
<1>3. Target(k) \in Post
  BY <1>1 DEF Target, TrackerTypeOK, Post, Progress
<1>4. CASE Show(Target(k), k) /\ Enter(k, AfterCall(k, TRUE)) /\ UNCHANGED faultVars
  <2>1. nfaults' \in 0 .. MaxFaults /\ happened' \subseteq Faults
        /\ nfaults' >= nfaults /\ happened \subseteq happened'
    BY <1>1, <1>4 DEF faultVars, TrackerTypeOK
  <2>2. CalledWith(k, TRUE)
    BY <1>2, <1>3, <1>4, <2>1, Zenon DEF CalledWith
  <2> QED
    BY <2>2
<1>5. ASSUME NEW kind, Show(Target(k), k) \/ UNCHANGED thread,
             Enter(k, AfterCall(k, FALSE)), Fault(kind)
      PROVE  CalledWith(k, FALSE)
  <2>1. nfaults' \in 0 .. MaxFaults /\ happened' \subseteq Faults /\ nfaults' = nfaults + 1
        /\ nfaults' >= nfaults /\ happened \subseteq happened'
    BY <1>1, <1>5, FaultTyped DEF TrackerTypeOK
  <2> QED
    BY <1>2, <1>3, <1>5, <2>1, Zenon DEF CalledWith
<1> QED
  BY <1>4, <1>5 DEF CallSlack

LEMMA CallSlack_Inv == ASSUME TrackerInv, NEW k \in Post, CallSlack(k) PROVE TrackerInv'
<1> USE DEF Post, Progress, Final, CalledWith
<1>1. TrackerTypeOK /\ Followed /\ Linked /\ Fell /\ ResultShown /\ Waited
  BY DEF TrackerInv
<1>2. PICK ok \in BOOLEAN : CalledWith(k, ok)
  BY Called
<1>3. UNCHANGED <<at, outcome, seen, ts, past>> /\ phase[k] = "calling" /\ phase[k] \in Active
  BY DEF CallSlack, Active
<1>4. /\ phase' \in [Post -> Phases] /\ waiting' \in 0 .. Final
      /\ phase'[k] = AfterCall(k, ok)
      /\ \A j \in Post : j # k => phase'[j] = phase[j]
      /\ \A j \in Post : phase'[j] # "unsent" => j <= at'
      /\ Waited'
  BY <1>2, <1>3, Entered
<1>5. k <= at
  BY <1>1, <1>3 DEF Followed
<1>6. /\ thread' \in [Post -> 0 .. Final]
      /\ \A m \in Post : thread'[m] \in {thread[m], k}
      /\ \A m \in Post : m # Target(k) => thread'[m] = thread[m]
      /\ ok = TRUE => thread'[Target(k)] = k
      /\ k # 0 /\ \A m \in Post : thread[m] # 0 => thread'[m] # 0
  BY <1>1, <1>2 DEF Show, TrackerTypeOK
<1>7. TrackerTypeOK'
  BY <1>1, <1>2, <1>3, <1>4, <1>6 DEF TrackerTypeOK
<1>8. Followed'
  BY <1>1, <1>3, <1>4, <1>5, <1>6 DEF Followed, TrackerTypeOK
<1>9. Linked'
  <2>1. ts' # 0 => thread'[ts'] # 0
    BY <1>1, <1>3, <1>6 DEF Linked, TrackerTypeOK
  <2>2. ts' = 0 => past' = {} /\ \A j \in Post : seen'[j] = 0
    BY <1>1, <1>3 DEF Linked
  <2>7. \A old \in past' : old # 0 => thread'[old] # 0
    BY <1>1, <1>3, <1>6 DEF Linked, TrackerTypeOK
  <2>3. \A j \in Post : seen'[j] # 0 => thread'[seen'[j]] # 0
    BY <1>1, <1>3, <1>6 DEF Linked, TrackerTypeOK
  <2>4. phase'[k] = "saving" => ok = TRUE /\ k # Final /\ seen[k] = 0
    BY <1>4 DEF AfterCall
  <2>5. \A j \in Post : phase'[j] = "saving" => j \in Progress /\ seen'[j] = 0 /\ thread'[j] # 0
    BY <1>1, <1>3, <1>4, <1>6, <2>4 DEF Linked, Target
  <2>6. \A j \in Progress : thread'[j] # 0 => phase'[j] \in {"saving", "done"}
    <3> SUFFICES ASSUME NEW j \in Progress, thread'[j] # 0
                 PROVE  phase'[j] \in {"saving", "done"}
      OBVIOUS
    <3>1. CASE j = k
      BY <3>1, <1>4 DEF AfterCall
    <3>2. CASE j # k /\ thread[j] # 0
      BY <3>2, <1>1, <1>4 DEF Linked
    <3>3. CASE j # k /\ thread[j] = 0
      BY <3>3, <1>1, <1>6 DEF Linked, Target
    <3> QED
      BY <3>1, <3>2, <3>3
  <2> QED
    BY <2>1, <2>2, <2>3, <2>5, <2>6, <2>7 DEF Linked
<1>10. Fell'
  <2>1. phase'[k] = "falling" => k = Final /\ nfaults' >= 1
    BY <1>1, <1>2, <1>4 DEF AfterCall, TrackerTypeOK
  <2> QED
    BY <1>1, <1>2, <1>4, <2>1 DEF Fell, TrackerTypeOK
<1>11. ResultShown'
  <2> SUFFICES ASSUME phase'[Final] = "done", seen'[Final] # 0, nfaults' <= 1,
                      "timeout" \notin happened'
               PROVE  \E m \in Post : thread'[m] = Final
    BY DEF ResultShown
  <2>1. "timeout" \notin happened /\ waiting = k /\ at = k
    BY <1>1, <1>2, <1>3 DEF Waited
  <2>2. k = Final
    BY <1>1, <1>3, <1>4, <2>1 DEF Followed, TrackerTypeOK
  <2>3. ok = TRUE
    BY <1>3, <1>4, <2>2 DEF AfterCall
  <2> QED
    BY <1>2, <1>6, <2>2, <2>3
<1> QED
  BY <1>4, <1>7, <1>8, <1>9, <1>10, <1>11 DEF TrackerInv

LEMMA SaveTs_Inv == ASSUME TrackerInv, NEW k \in Post, SaveTs(k) PROVE TrackerInv'
<1> USE DEF Post, Progress, Final
<1>1. TrackerTypeOK /\ Followed /\ Linked /\ Fell /\ ResultShown /\ Waited
  BY DEF TrackerInv
<1>2. /\ nfaults' \in 0 .. MaxFaults /\ happened' \subseteq Faults
      /\ nfaults' >= nfaults /\ happened \subseteq happened'
  BY <1>1, FaultTyped DEF SaveTs, TrackerTypeOK, faultVars
<1>3. /\ UNCHANGED <<at, outcome, seen, thread>> /\ ts' \in {ts, k}
      /\ past' = past \/ (past' = past \cup {ts} /\ ts' = k)
      /\ phase[k] = "saving" /\ phase[k] \in Active /\ Enter(k, "done")
      /\ "done" \in Phases \ {"unsent", "posted"}
  BY DEF SaveTs, Active, Phases
<1>4. /\ phase' \in [Post -> Phases] /\ waiting' \in 0 .. Final
      /\ phase'[k] = "done"
      /\ \A j \in Post : j # k => phase'[j] = phase[j]
      /\ \A j \in Post : phase'[j] # "unsent" => j <= at'
      /\ Waited'
  BY <1>2, <1>3, Entered
<1>5. k \in Progress /\ thread[k] # 0
  BY <1>1, <1>3 DEF Linked
<1>6. TrackerTypeOK'
  <2>1. past \subseteq 0 .. 6 /\ ts \in 0 .. 6 /\ k \in 0 .. 6
    BY <1>1, <1>5 DEF TrackerTypeOK
  <2>2. ts' \in 0 .. 6
    BY <1>3, <2>1
  <2>3. past' \subseteq 0 .. 6
    <3>1. CASE past' = past
      BY <2>1, <3>1
    <3>2. CASE past' = past \cup {ts}
      BY <2>1, <3>2
    <3> QED
      BY <1>3, <3>1, <3>2
  <2> QED
    BY <1>1, <1>2, <1>3, <1>4, <2>2, <2>3 DEF TrackerTypeOK
<1>7. Followed'
  BY <1>1, <1>3, <1>4 DEF Followed
<1>8. Linked'
  <2>1. ts' # 0 => thread'[ts'] # 0
    BY <1>1, <1>3, <1>5 DEF Linked
  <2>2. ts' = 0 => past' = {} /\ \A j \in Post : seen'[j] = 0
    BY <1>1, <1>3, <1>5 DEF Linked
  <2>3. \A old \in past' : old # 0 => thread'[old] # 0
    BY <1>1, <1>3 DEF Linked
  <2>4. \A j \in Post : seen'[j] # 0 => thread'[seen'[j]] # 0
    BY <1>1, <1>3 DEF Linked
  <2>5. \A j \in Post : phase'[j] = "saving" => j \in Progress /\ seen'[j] = 0 /\ thread'[j] # 0
    BY <1>1, <1>3, <1>4 DEF Linked
  <2>6. \A j \in Progress : thread'[j] # 0 => phase'[j] \in {"saving", "done"}
    BY <1>1, <1>3, <1>4 DEF Linked
  <2> QED
    BY <2>1, <2>2, <2>3, <2>4, <2>5, <2>6 DEF Linked
<1>9. Fell' /\ ResultShown'
  BY <1>1, <1>2, <1>3, <1>4, <1>5 DEF Fell, ResultShown, TrackerTypeOK
<1> QED
  BY <1>4, <1>6, <1>7, <1>8, <1>9 DEF TrackerInv

LEMMA FallBack_Inv == ASSUME TrackerInv, FallBack PROVE TrackerInv'
<1> USE DEF Post, Progress, Final
<1>1. TrackerTypeOK /\ Followed /\ Linked /\ Fell /\ ResultShown /\ Waited
  BY DEF TrackerInv
<1>2. /\ nfaults' \in 0 .. MaxFaults /\ happened' \subseteq Faults
      /\ nfaults' >= nfaults /\ happened \subseteq happened'
  BY <1>1, FaultTyped DEF FallBack, TrackerTypeOK, faultVars
<1>3. /\ UNCHANGED <<at, outcome, seen, ts, past>>
      /\ phase[Final] = "falling" /\ phase[Final] \in Active /\ Enter(Final, "done")
      /\ "done" \in Phases \ {"unsent", "posted"}
  BY DEF FallBack, Active, Phases
<1>4. /\ phase' \in [Post -> Phases] /\ waiting' \in 0 .. Final
      /\ phase'[Final] = "done"
      /\ \A j \in Post : j # Final => phase'[j] = phase[j]
      /\ \A j \in Post : phase'[j] # "unsent" => j <= at'
      /\ Waited'
  BY <1>2, <1>3, Entered
<1>5. Final <= at
  BY <1>1, <1>3 DEF Followed
<1>6. /\ thread' \in [Post -> 0 .. Final]
      /\ thread'[Final] \in {thread[Final], Final}
      /\ \A m \in Post : m # Final => thread'[m] = thread[m]
      /\ \A m \in Post : thread[m] # 0 => thread'[m] # 0
  BY <1>1 DEF FallBack, Show, TrackerTypeOK
<1>7. TrackerTypeOK'
  BY <1>1, <1>2, <1>3, <1>4, <1>6 DEF TrackerTypeOK
<1>8. Followed'
  BY <1>1, <1>3, <1>4, <1>5, <1>6 DEF Followed, TrackerTypeOK
<1>9. Linked'
  BY <1>1, <1>3, <1>4, <1>6 DEF Linked, TrackerTypeOK
<1>10. Fell'
  BY <1>1, <1>2, <1>3, <1>4 DEF Fell, TrackerTypeOK
<1>11. ResultShown'
  <2>1. nfaults >= 1 /\ nfaults \in Nat
    BY <1>1, <1>3 DEF Fell, TrackerTypeOK
  <2>2. CASE Show(Final, Final)
    <3>1. thread'[Final] = Final
      BY <1>1, <2>2 DEF Show, TrackerTypeOK
    <3> QED
      BY <3>1 DEF ResultShown
  <2>3. CASE Fault("slack")
    BY <1>1, <2>1, <2>3, FaultTyped DEF ResultShown
  <2> QED
    BY <2>2, <2>3 DEF FallBack
<1> QED
  BY <1>4, <1>7, <1>8, <1>9, <1>10, <1>11 DEF TrackerInv

LEMMA TrackerStep_Inv == TrackerInv /\ [TrackerNext]_tvars => TrackerInv'
<1> SUFFICES ASSUME TrackerInv, [TrackerNext]_tvars PROVE TrackerInv'
  OBVIOUS
<1>1. CASE PostProgress
  BY <1>1, PostProgress_Inv
<1>2. CASE PostResult
  BY <1>2, PostResult_Inv
<1>3. CASE GiveUpWaiting
  BY <1>3, GiveUpWaiting_Inv
<1>4. ASSUME NEW k \in Post, Handle(k) PROVE TrackerInv'
  BY <1>4, ReadRow_Inv, CallSlack_Inv, SaveTs_Inv, FallBack_Inv DEF Handle
<1>5. CASE UNCHANGED tvars
  BY <1>5 DEF TrackerInv, TrackerTypeOK, Followed, Waited, Linked, Fell, ResultShown, tvars,
              faultVars
<1> QED
  BY <1>1, <1>2, <1>3, <1>4, <1>5 DEF TrackerNext

LEMMA TrackerInvariant == TrackerSpec => []TrackerInv
  BY TrackerInit_Inv, TrackerStep_Inv, PTL DEF TrackerSpec

-----------------------------------------------------------------------------
\* The variables keep their types, whatever faults are allowed and however many.
THEOREM TrackerTyped == TrackerSpec => []TrackerTypeOK
<1>1. TrackerInv => TrackerTypeOK
  BY DEF TrackerInv
<1> QED
  BY <1>1, TrackerInvariant, PTL

\* A result whose handler found a tracker (handle_sandbox_complete) is shown, on
\* the tracker or as plain text, unless two things went wrong.
THEOREM ResultIsShown == TrackerSpec => []ResultShown
<1>1. TrackerInv => ResultShown
  BY DEF TrackerInv
<1> QED
  BY <1>1, TrackerInvariant, PTL

-----------------------------------------------------------------------------
(***************************************************************************)
(* While the container waits for its answers, what is shown only advances. *)
(***************************************************************************)

\* Only the post the container is at is shown, and no message shows a later one.
LEMMA ShownAdvances ==
  ASSUME TrackerInv, NEW k \in Post, phase[k] \in Active, "timeout" \notin happened,
         NEW n \in Post, Show(n, k), NEW m \in Post
  PROVE  thread'[m] >= thread[m]
<1>1. at = k /\ thread[m] <= at /\ thread \in [Post -> 0 .. Final]
  BY DEF TrackerInv, Waited, Followed, TrackerTypeOK
<1> QED
  BY <1>1 DEF Show, Post, Progress, Final

LEMMA StepAdvances ==
  ASSUME TrackerInv, TrackerNext, "timeout" \notin happened, NEW m \in Post
  PROVE  thread'[m] >= thread[m]
<1>1. TrackerTypeOK
  BY DEF TrackerInv
<1>2. ASSUME UNCHANGED thread PROVE thread'[m] >= thread[m]
  BY <1>1, <1>2 DEF TrackerTypeOK, Final
<1>3. CASE PostProgress \/ PostResult \/ GiveUpWaiting
  BY <1>2, <1>3 DEF PostProgress, PostResult, GiveUpWaiting, Send
<1>4. ASSUME NEW k \in Post, ReadRow(k) \/ SaveTs(k) PROVE thread'[m] >= thread[m]
  BY <1>2, <1>4 DEF ReadRow, SaveTs
<1>5. ASSUME NEW k \in Post, CallSlack(k) PROVE thread'[m] >= thread[m]
  <2>1. Target(k) \in Post /\ phase[k] \in Active
    BY <1>1, <1>5 DEF Target, TrackerTypeOK, Post, Progress, CallSlack, Active
  <2>2. Show(Target(k), k) \/ UNCHANGED thread
    BY <1>5 DEF CallSlack
  <2> QED
    BY <1>2, <2>1, <2>2, ShownAdvances
<1>6. CASE FallBack
  <2>1. Final \in Post /\ phase[Final] \in Active
    BY <1>6 DEF FallBack, Active, Post
  <2>2. Show(Final, Final) \/ UNCHANGED thread
    BY <1>6 DEF FallBack
  <2> QED
    BY <1>2, <2>1, <2>2, ShownAdvances
<1> QED
  BY <1>3, <1>4, <1>5, <1>6 DEF TrackerNext, Handle

\* As long as the container waits for its answers, no message of the thread ever
\* shows less than it did (handle_sandbox_progress, handle_sandbox_complete).
THEOREM ThreadAdvances == TrackerSpec => NoStepBack
<1>1. TrackerInv /\ [TrackerNext]_tvars
        => [ "timeout" \notin happened => \A m \in Post : thread'[m] >= thread[m] ]_tvars
  BY StepAdvances
<1> QED
  BY <1>1, TrackerInvariant, PTL DEF TrackerSpec, NoStepBack

-----------------------------------------------------------------------------
(***************************************************************************)
(* How many trackers there can be.  Until a timestamp is saved, every      *)
(* tracker but the one the container waits for has had a fault of its own; *)
(* from then on no handler starts another one.                             *)
(***************************************************************************)

\* The milestones whose handler was given up on, or ended without saving its tracker.
Spoilt ==
  {k \in Progress : \/ phase[k] = "done" /\ thread[k] # 0
                    \/ phase[k] \in {"posted", "calling", "saving"} /\ waiting # k}

\* The milestones that have posted a tracker or are about to.
Posting == {k \in Progress : thread[k] # 0 \/ (phase[k] = "calling" /\ seen[k] = 0)}

Counted ==
  /\ ts = 0 => Cardinality(Spoilt) <= nfaults
  /\ ts # 0 => Cardinality(Posting) <= 1 + nfaults

\* Lost posts and refused calls make no second tracker.
Single ==
  happened \subseteq {"net", "slack"} =>
    /\ ts = 0 => Spoilt = {}
    /\ ts # 0 => Posting \subseteq {ts}

CountInv == TrackerInv /\ Counted /\ Single

LEMMA SubsetOfProgress ==
  ASSUME NEW S, S \subseteq Progress
  PROVE  IsFiniteSet(S) /\ Cardinality(S) \in Nat
<1>1. IsFiniteSet(1 .. 6)
  <2>1. 1 \in Int /\ 6 \in Int
    OBVIOUS
  <2> QED
    BY <2>1, FS_Interval
<1> QED
  BY <1>1, FS_Subset, FS_CardinalityType DEF Progress

LEMMA OneMore ==
  ASSUME NEW S \in SUBSET Progress, NEW T \in SUBSET Progress, NEW k, T \subseteq S \cup {k}
  PROVE  Cardinality(T) <= Cardinality(S) + 1
<1>1. IsFiniteSet(S) /\ IsFiniteSet(T) /\ Cardinality(S) \in Nat /\ Cardinality(T) \in Nat
  BY SubsetOfProgress
<1>2. IsFiniteSet(S \cup {k}) /\ Cardinality(S \cup {k}) \in {Cardinality(S), Cardinality(S) + 1}
  BY <1>1, FS_AddElement
<1>3. Cardinality(T) <= Cardinality(S \cup {k}) /\ Cardinality(S \cup {k}) \in Nat
  BY <1>2, FS_Subset, FS_CardinalityType
<1> QED
  BY <1>1, <1>2, <1>3

LEMMA NoMore ==
  ASSUME NEW S \in SUBSET Progress, NEW T \in SUBSET S
  PROVE  Cardinality(T) <= Cardinality(S)
  BY SubsetOfProgress, FS_Subset

\* Before a timestamp is saved, one milestone may be posting without a fault.
LEMMA PostingOneMore ==
  ASSUME TrackerInv, ts = 0 PROVE Posting \subseteq Spoilt \cup {waiting}
  BY DEF TrackerInv, Linked, Posting, Spoilt, Post

-----------------------------------------------------------------------------
\* A step that spoils at most one more milestone, with a fault, or none without.
LEMMA CountedBefore ==
  ASSUME CountInv, TrackerInv', ts = 0, ts' = 0,
         \/ Spoilt' \subseteq Spoilt /\ nfaults' >= nfaults /\ happened \subseteq happened'
         \/ /\ \E k : Spoilt' \subseteq Spoilt \cup {k}
            /\ \E kind \in {"timeout", "ddb", "slack_ack"} : Fault(kind)
  PROVE  Counted' /\ Single'
<1>1. Spoilt \in SUBSET Progress /\ Spoilt' \in SUBSET Progress
  BY DEF Spoilt
<1>2. /\ Cardinality(Spoilt) <= nfaults
      /\ Cardinality(Spoilt) \in Nat /\ Cardinality(Spoilt') \in Nat
      /\ nfaults \in Nat /\ nfaults' \in Nat
  BY <1>1, SubsetOfProgress DEF CountInv, Counted, TrackerInv, TrackerTypeOK
<1>3. CASE Spoilt' \subseteq Spoilt /\ nfaults' >= nfaults /\ happened \subseteq happened'
  <2>1. Cardinality(Spoilt') <= Cardinality(Spoilt)
    BY <1>1, <1>3, NoMore
  <2> QED
    BY <1>2, <1>3, <2>1 DEF CountInv, Counted, Single
<1>4. ASSUME NEW k, Spoilt' \subseteq Spoilt \cup {k},
             NEW kind \in {"timeout", "ddb", "slack_ack"}, Fault(kind)
      PROVE  Counted' /\ Single'
  <2>1. Cardinality(Spoilt') <= Cardinality(Spoilt) + 1
    BY <1>1, <1>4, OneMore
  <2>2. nfaults' = nfaults + 1 /\ ~(happened' \subseteq {"net", "slack"})
    BY <1>4 DEF Fault
  <2> QED
    BY <1>2, <2>1, <2>2 DEF Counted, Single
<1> QED
  BY <1>3, <1>4

\* After it no milestone is added.
LEMMA CountedAfter ==
  ASSUME CountInv, TrackerInv', ts # 0, ts' = ts, Posting' \subseteq Posting,
         nfaults' >= nfaults, happened \subseteq happened'
  PROVE  Counted' /\ Single'
<1>1. Posting \in SUBSET Progress /\ Posting' \in SUBSET Progress
  BY DEF Posting
<1>2. /\ Cardinality(Posting) <= 1 + nfaults
      /\ Cardinality(Posting) \in Nat /\ Cardinality(Posting') \in Nat
      /\ nfaults \in Nat /\ nfaults' \in Nat
  BY <1>1, SubsetOfProgress DEF CountInv, Counted, TrackerInv, TrackerTypeOK
<1>3. Cardinality(Posting') <= Cardinality(Posting)
  BY <1>1, NoMore
<1> QED
  BY <1>2, <1>3 DEF CountInv, Counted, Single

\* A read that misses the timestamp adds one, and is a fault.
LEMMA CountedStale ==
  ASSUME CountInv, TrackerInv', ts # 0, ts' = ts, NEW k, Posting' \subseteq Posting \cup {k},
         Fault("stale")
  PROVE  Counted' /\ Single'
<1>1. Posting \in SUBSET Progress /\ Posting' \in SUBSET Progress
  BY DEF Posting
<1>2. /\ Cardinality(Posting) <= 1 + nfaults
      /\ Cardinality(Posting) \in Nat /\ Cardinality(Posting') \in Nat
      /\ nfaults \in Nat /\ nfaults' = nfaults + 1
  BY <1>1, SubsetOfProgress DEF CountInv, Counted, TrackerInv, TrackerTypeOK, Fault
<1>3. Cardinality(Posting') <= Cardinality(Posting) + 1
  BY <1>1, OneMore
<1>4. ~(happened' \subseteq {"net", "slack"})
  BY DEF Fault
<1> QED
  BY <1>2, <1>3, <1>4 DEF Counted, Single

\* How faults grow in any step.
LEMMA FaultsGrow ==
  ASSUME TrackerInv, TrackerNext PROVE nfaults' >= nfaults /\ happened \subseteq happened'
<1>1. TrackerTypeOK
  BY DEF TrackerInv
<1>2. UNCHANGED faultVars \/ \E kind \in TrackerFaults : Fault(kind)
  BY DEF TrackerNext, PostProgress, PostResult, Send, GiveUpWaiting, Handle, ReadRow,
         CallSlack, SaveTs, FallBack, TrackerFaults
<1> QED
  BY <1>1, <1>2, FaultTyped DEF faultVars, TrackerTypeOK

LEMMA Send_Counts ==
  ASSUME CountInv, TrackerInv', NEW k \in Post, k > at, Send(k),
         nfaults' >= nfaults, happened \subseteq happened'
  PROVE  Counted' /\ Single'
<1> USE DEF Post, Progress, Final
<1>1. TrackerTypeOK /\ Followed /\ Linked
  BY DEF CountInv, TrackerInv
<1>2. /\ phase[k] = "unsent" /\ waiting = 0 /\ UNCHANGED <<seen, ts, thread>>
      /\ \A j \in Post : j # k => phase'[j] = phase[j]
      /\ phase'[k] \in {"posted", "lost"}
      /\ phase'[k] = "posted" => waiting' = k
  BY <1>1 DEF Send, Followed, TrackerTypeOK
<1>3. Spoilt' \subseteq Spoilt
  BY <1>1, <1>2 DEF Spoilt
<1>4. Posting' \subseteq Posting
  BY <1>1, <1>2 DEF Posting
<1> QED
  BY <1>2, <1>3, <1>4, CountedBefore, CountedAfter

LEMMA GiveUp_Counts ==
  ASSUME CountInv, TrackerInv', GiveUpWaiting, nfaults' >= nfaults, happened \subseteq happened'
  PROVE  Counted' /\ Single'
<1>1. UNCHANGED <<phase, seen, ts, thread>> /\ waiting' = 0 /\ Fault("timeout")
  BY DEF GiveUpWaiting
<1>2. Spoilt' \subseteq Spoilt \cup {waiting}
  BY <1>1 DEF Spoilt
<1>3. Posting' \subseteq Posting
  BY <1>1 DEF Posting
<1> QED
  BY <1>1, <1>2, <1>3, CountedBefore, CountedAfter

\* A handler that does not end leaves the others as they are.
LEMMA EnteredSpoilt ==
  ASSUME TrackerInv, NEW k \in Post, NEW p \in Phases, Enter(k, p),
         phase[k] \in {"posted", "calling", "saving"},
         \A j \in Progress : j # k => (thread'[j] # 0 => thread[j] # 0)
  PROVE  /\ Spoilt' \subseteq Spoilt \cup {k}
         /\ (p # "done" \/ thread'[k] = 0) => Spoilt' \subseteq Spoilt
<1>1. TrackerTypeOK
  BY DEF TrackerInv
<1>2. /\ phase'[k] = p /\ \A j \in Post : j # k => phase'[j] = phase[j]
      /\ \A j \in Post : j # k /\ waiting' # j => waiting # j \/ waiting = k
      /\ p \notin Over => waiting' = waiting
  BY <1>1 DEF Enter, TrackerTypeOK
<1>3. \A j \in Progress : j # k /\ j \in Spoilt' => j \in Spoilt
  <2> SUFFICES ASSUME NEW j \in Progress, j # k, j \in Spoilt' PROVE j \in Spoilt
    OBVIOUS
  <2>1. waiting = j => waiting' = j
    BY DEF Enter
  <2> QED
    BY <1>2, <2>1 DEF Spoilt, Post
<1>4. Spoilt' \subseteq Progress
  BY DEF Spoilt
<1>5. ASSUME p # "done" \/ thread'[k] = 0, k \in Spoilt' PROVE k \in Spoilt
  <2>1. p \in {"posted", "calling", "saving"} /\ waiting' # k
    BY <1>2, <1>5 DEF Spoilt
  <2>2. waiting # k /\ k \in Progress
    BY <1>2, <1>5, <2>1 DEF Over, Spoilt
  <2> QED
    BY <2>2 DEF Spoilt
<1> QED
  BY <1>3, <1>4, <1>5

LEMMA ReadRow_Counts ==
  ASSUME CountInv, TrackerInv', NEW k \in Post, ReadRow(k),
         nfaults' >= nfaults, happened \subseteq happened'
  PROVE  Counted' /\ Single'
<1>1. TrackerInv /\ TrackerTypeOK /\ Linked
  BY DEF CountInv, TrackerInv
<1>2. PICK p \in {"calling", "lost"} :
         Enter(k, p) /\ (p = "calling" => seen'[k] = ts \/ (Fault("stale") /\ past # {}))
  BY <1>1 DEF ReadRow, TrackerTypeOK
<1>3. /\ phase[k] = "posted" /\ UNCHANGED <<thread, ts>> /\ p \in Phases
      /\ \A j \in Post : j # k => seen'[j] = seen[j]
  BY <1>1 DEF ReadRow, TrackerTypeOK, Phases
<1>4. Spoilt' \subseteq Spoilt
  BY <1>1, <1>2, <1>3, EnteredSpoilt
<1>5. /\ phase'[k] = p /\ \A j \in Post : j # k => phase'[j] = phase[j]
  BY <1>1, <1>2 DEF Enter, TrackerTypeOK
<1>6. CASE ts # 0 /\ (p = "calling" => seen'[k] = ts)
  <2>1. Posting' \subseteq Posting
    BY <1>2, <1>3, <1>5, <1>6 DEF Posting, Post
  <2> QED
    BY <1>3, <1>6, <2>1, CountedAfter
<1>7. CASE ts # 0 /\ Fault("stale")
  <2>1. Posting' \subseteq Posting \cup {k}
    BY <1>2, <1>3, <1>5 DEF Posting, Post
  <2> QED
    BY <1>3, <1>7, <2>1, CountedStale
<1>8. CASE ts = 0
  BY <1>3, <1>4, <1>8, CountedBefore
<1> QED
  BY <1>2, <1>6, <1>7, <1>8

LEMMA CallSlack_Counts ==
  ASSUME CountInv, TrackerInv', NEW k \in Post, CallSlack(k),
         nfaults' >= nfaults, happened \subseteq happened'
  PROVE  Counted' /\ Single'
<1> USE DEF Post, Progress, Final
<1>1. TrackerInv /\ TrackerTypeOK /\ Linked
  BY DEF CountInv, TrackerInv
<1>2. UNCHANGED <<seen, ts>> /\ phase[k] = "calling"
  BY DEF CallSlack
<1>3. \A ok \in BOOLEAN : AfterCall(k, ok) \in Phases
  BY DEF AfterCall, Phases
<1>4. Show(Target(k), k) \/ UNCHANGED thread
  BY DEF CallSlack
<1>5. \A j \in Post : j # k => (thread'[j] # 0 => thread[j] # 0)
  <2> SUFFICES ASSUME NEW j \in Post, j # k, thread'[j] # 0 PROVE thread[j] # 0
    OBVIOUS
  <2>1. CASE j = seen[k]
    BY <2>1, <1>1 DEF Linked
  <2>2. CASE j # seen[k]
    BY <2>2, <1>1, <1>4 DEF Show, Target, TrackerTypeOK
  <2> QED
    BY <2>1, <2>2
<1>6. CASE ts = 0
  <2>1. seen[k] = 0
    BY <1>1, <1>6 DEF Linked
  <2>2. k \in Progress => thread[k] = 0
    BY <1>1, <1>2 DEF Linked
  <2>3. CASE Enter(k, AfterCall(k, TRUE))
    <3>1. CASE k \in Progress
      <4>1. AfterCall(k, TRUE) # "done"
        BY <2>1, <3>1 DEF AfterCall
      <4> QED
        BY <1>1, <1>2, <1>3, <1>5, <1>6, <2>3, <4>1, EnteredSpoilt, CountedBefore
    <3>2. CASE k \notin Progress
      <4>1. Spoilt' \subseteq Spoilt \cup {k} /\ Spoilt' \subseteq Progress
        BY <1>1, <1>2, <1>3, <1>5, <2>3, EnteredSpoilt DEF Spoilt
      <4>2. Spoilt' \subseteq Spoilt
        BY <3>2, <4>1
      <4> QED
        BY <1>2, <1>6, <4>2, CountedBefore
    <3> QED
      BY <3>1, <3>2
  <2>4. CASE Enter(k, AfterCall(k, FALSE)) /\ Fault("slack_ack")
    <3>1. Spoilt' \subseteq Spoilt \cup {k}
      BY <1>1, <1>2, <1>3, <1>5, <2>4, EnteredSpoilt
    <3> QED
      BY <1>2, <1>6, <2>4, <3>1, CountedBefore
  <2>5. CASE UNCHANGED thread /\ Enter(k, AfterCall(k, FALSE))
    <3>1. Spoilt' \subseteq Spoilt \cup {k} /\ Spoilt' \subseteq Progress
      BY <1>1, <1>2, <1>3, <1>5, <2>5, EnteredSpoilt DEF Spoilt
    <3>2. k \in Progress => Spoilt' \subseteq Spoilt
      BY <1>1, <1>2, <1>3, <1>5, <2>2, <2>5, EnteredSpoilt
    <3> QED
      BY <1>2, <1>6, <3>1, <3>2, CountedBefore
  <2> QED
    BY <2>3, <2>4, <2>5 DEF CallSlack
<1>7. CASE ts # 0
  <2>1. \E p : Enter(k, p) /\ p # "calling"
    BY DEF CallSlack, AfterCall
  <2>2. phase'[k] # "calling" /\ \A j \in Post : j # k => phase'[j] = phase[j]
    BY <1>1, <2>1 DEF Enter, TrackerTypeOK
  <2>3. ASSUME k \in Progress, thread'[k] # 0 PROVE k \in Posting
    <3>1. CASE seen[k] = 0
      BY <1>2, <2>3, <3>1 DEF Posting
    <3>2. CASE seen[k] = k
      BY <1>1, <2>3, <3>2 DEF Posting, Linked
    <3>3. CASE seen[k] # 0 /\ seen[k] # k
      BY <1>1, <1>4, <2>3, <3>3 DEF Posting, Show, Target, TrackerTypeOK
    <3> QED
      BY <3>1, <3>2, <3>3
  <2>4. Posting' \subseteq Posting
    BY <1>2, <1>5, <2>2, <2>3 DEF Posting
  <2> QED
    BY <1>2, <1>7, <2>4, CountedAfter
<1> QED
  BY <1>6, <1>7

LEMMA SaveTs_Counts ==
  ASSUME CountInv, TrackerInv', NEW k \in Post, SaveTs(k),
         nfaults' >= nfaults, happened \subseteq happened'
  PROVE  Counted' /\ Single'
<1> USE DEF Post, Progress, Final
<1>1. TrackerInv /\ TrackerTypeOK /\ Linked
  BY DEF CountInv, TrackerInv
<1>2. /\ UNCHANGED <<seen, thread>> /\ phase[k] = "saving" /\ Enter(k, "done")
      /\ "done" \in Phases
  BY DEF SaveTs, Phases
<1>3. k \in Progress /\ seen[k] = 0 /\ thread[k] # 0
  BY <1>1, <1>2 DEF Linked
<1>4. phase'[k] = "done" /\ \A j \in Post : j # k => phase'[j] = phase[j]
  BY <1>1, <1>2 DEF Enter, TrackerTypeOK
<1>5. Posting' \subseteq Posting /\ Posting' \in SUBSET Progress /\ Posting \in SUBSET Progress
  BY <1>2, <1>3, <1>4 DEF Posting
<1>6. nfaults \in Nat /\ nfaults' \in Nat
  BY <1>1 DEF TrackerInv, TrackerTypeOK
<1>7. CASE ts = 0 /\ ts' = k
  <2>1. Posting' \subseteq Spoilt \cup {waiting} /\ Spoilt \in SUBSET Progress
    BY <1>1, <1>5, <1>7, PostingOneMore DEF Spoilt
  <2>2. Cardinality(Posting') <= Cardinality(Spoilt) + 1
    BY <1>5, <2>1, OneMore
  <2>3. /\ Cardinality(Spoilt) \in Nat /\ Cardinality(Posting') \in Nat
        /\ Cardinality(Spoilt) <= nfaults
    BY <1>5, <1>7, <2>1, SubsetOfProgress DEF CountInv, Counted
  <2>4. Counted'
    BY <1>3, <1>7, <1>6, <2>2, <2>3 DEF Counted
  <2>5. ASSUME happened' \subseteq {"net", "slack"} PROVE Posting' \subseteq {k}
    <3>1. Spoilt = {}
      BY <1>7, <2>5 DEF CountInv, Single
    <3>2. waiting = k
      BY <1>2, <1>3, <3>1 DEF Spoilt
    <3> QED
      BY <2>1, <3>1, <3>2
  <2> QED
    BY <1>3, <1>7, <2>4, <2>5 DEF Single
<1>8. CASE ts = 0 /\ UNCHANGED ts /\ Fault("ddb")
  <2>1. Spoilt' \subseteq Spoilt \cup {k}
    BY <1>1, <1>2, EnteredSpoilt
  <2> QED
    BY <1>8, <2>1, CountedBefore
<1>9. CASE ts # 0 /\ ts' = ts
  BY <1>5, <1>9, CountedAfter
<1>10. CASE ts # 0 /\ ts' = k
  <2>1. /\ Cardinality(Posting') <= Cardinality(Posting) /\ Cardinality(Posting) <= 1 + nfaults
        /\ Cardinality(Posting') \in Nat /\ Cardinality(Posting) \in Nat
    BY <1>5, <1>10, NoMore, SubsetOfProgress DEF CountInv, Counted
  <2>2. Counted'
    BY <1>3, <1>10, <1>6, <2>1 DEF Counted
  <2>3. ASSUME happened' \subseteq {"net", "slack"} PROVE Posting' \subseteq {k}
    <3>1. Posting \subseteq {ts} /\ k \in Posting
      BY <1>3, <1>10, <2>3 DEF CountInv, Single, Posting
    <3> QED
      BY <1>5, <3>1
  <2> QED
    BY <1>3, <1>10, <2>2, <2>3 DEF Single
<1> QED
  BY <1>7, <1>8, <1>9, <1>10 DEF SaveTs

LEMMA FallBack_Counts ==
  ASSUME CountInv, TrackerInv', FallBack, nfaults' >= nfaults, happened \subseteq happened'
  PROVE  Counted' /\ Single'
<1> USE DEF Post, Progress, Final
<1>1. TrackerTypeOK
  BY DEF CountInv, TrackerInv
<1>2. /\ UNCHANGED <<seen, ts>>
      /\ \A j \in Progress : phase'[j] = phase[j] /\ thread'[j] = thread[j]
      /\ \A j \in Progress : waiting = j => waiting' = j
  BY <1>1 DEF FallBack, Enter, Show, TrackerTypeOK
<1>3. Spoilt' \subseteq Spoilt
  BY <1>2 DEF Spoilt
<1>4. Posting' \subseteq Posting
  BY <1>2 DEF Posting
<1> QED
  BY <1>2, <1>3, <1>4, CountedBefore, CountedAfter

-----------------------------------------------------------------------------
LEMMA CountInit == TrackerInit => CountInv
<1> SUFFICES ASSUME TrackerInit PROVE CountInv
  OBVIOUS
<1>1. Spoilt = {} /\ Posting = {} /\ ts = 0 /\ nfaults = 0
  BY DEF TrackerInit, Spoilt, Posting, Post
<1>2. Cardinality(Spoilt) = 0
  BY <1>1, FS_EmptySet
<1> QED
  BY <1>1, <1>2, TrackerInit_Inv DEF CountInv, Counted, Single

LEMMA CountStep == CountInv /\ [TrackerNext]_tvars => CountInv'
<1> SUFFICES ASSUME CountInv, [TrackerNext]_tvars PROVE CountInv'
  OBVIOUS
<1>1. TrackerInv /\ TrackerInv' /\ TrackerTypeOK
  BY TrackerStep_Inv DEF CountInv, TrackerInv
<1>2. SUFFICES ASSUME TrackerNext PROVE Counted' /\ Single'
  <2>1. CASE UNCHANGED tvars
    <3>1. UNCHANGED <<phase, waiting, seen, thread, ts, nfaults, happened>>
      BY <2>1 DEF tvars, faultVars
    <3>2. Spoilt' = Spoilt /\ Posting' = Posting
      BY <3>1 DEF Spoilt, Posting
    <3> QED
      BY <1>1, <3>1, <3>2 DEF CountInv, Counted, Single
  <2> QED
    BY <1>1, <1>2, <2>1 DEF CountInv
<1>3. nfaults' >= nfaults /\ happened \subseteq happened'
  BY <1>1, <1>2, FaultsGrow
<1>4. CASE PostProgress
  <2>1. PICK k \in NextSteps : Send(k)
    BY <1>4 DEF PostProgress
  <2>2. k \in Post /\ k > at
    BY <1>1, <1>4 DEF PostProgress, NextSteps, Post, Progress, Final, TrackerTypeOK
  <2> QED
    BY <1>1, <1>3, <2>1, <2>2, Send_Counts
<1>5. CASE PostResult
  <2>1. Final \in Post /\ Final > at /\ Send(Final)
    BY <1>5 DEF PostResult, Post, Progress, Final
  <2> QED
    BY <1>1, <1>3, <2>1, Send_Counts
<1>6. CASE GiveUpWaiting
  BY <1>1, <1>3, <1>6, GiveUp_Counts
<1>7. ASSUME NEW k \in Post, Handle(k) PROVE Counted' /\ Single'
  BY <1>1, <1>3, <1>7, ReadRow_Counts, CallSlack_Counts, SaveTs_Counts, FallBack_Counts
     DEF Handle
<1> QED
  BY <1>2, <1>4, <1>5, <1>6, <1>7 DEF TrackerNext

\* An extra tracker in the thread (handle_sandbox_progress) costs a fault of its
\* own, a call that fails or a read that misses the timestamp just saved, and lost
\* posts and refused calls alone never make one.
THEOREM TrackersAreBounded == TrackerSpec => []TrackersBounded
<1>1. TrackerSpec => []CountInv
  BY CountInit, CountStep, PTL DEF TrackerSpec
<1>2. CountInv => TrackersBounded
  <2> SUFFICES ASSUME CountInv PROVE TrackersBounded
    OBVIOUS
  <2>1. Trackers \in SUBSET Posting /\ Posting \in SUBSET Progress /\ Trackers \in SUBSET Progress
        /\ Spoilt \in SUBSET Progress
    BY DEF Trackers, Posting, Spoilt
  <2>2. /\ Cardinality(Trackers) \in Nat /\ Cardinality(Posting) \in Nat
        /\ Cardinality(Spoilt) \in Nat /\ nfaults \in Nat
        /\ Cardinality(Trackers) <= Cardinality(Posting)
    BY <2>1, NoMore, SubsetOfProgress DEF CountInv, TrackerInv, TrackerTypeOK
  <2>3. Cardinality(Posting) <= 1 + nfaults
    <3>1. CASE ts = 0
      <4>1. Cardinality(Posting) <= Cardinality(Spoilt) + 1
        BY <2>1, <3>1, PostingOneMore, OneMore DEF CountInv
      <4> QED
        BY <2>2, <3>1, <4>1 DEF CountInv, Counted
    <3>2. CASE ts # 0
      BY <3>2 DEF CountInv, Counted
    <3> QED
      BY <3>1, <3>2
  <2>4. ASSUME happened \subseteq {"net", "slack"} PROVE Cardinality(Trackers) <= 1
    <3>1. PICK k : Trackers \subseteq {k}
      <4>1. CASE ts = 0
        BY <2>1, <2>4, <4>1, PostingOneMore DEF CountInv, Single
      <4>2. CASE ts # 0
        BY <2>1, <2>4, <4>2 DEF CountInv, Single
      <4> QED
        BY <4>1, <4>2
    <3>2. {} \in SUBSET Progress /\ Cardinality({}) = 0
      BY FS_EmptySet
    <3>3. Cardinality(Trackers) <= Cardinality({}) + 1
      BY <2>1, <3>1, <3>2, OneMore
    <3> QED
      BY <3>2, <3>3
  <2> QED
    BY <2>2, <2>3, <2>4 DEF TrackersBounded
<1> QED
  BY <1>1, <1>2, PTL
=============================================================================
