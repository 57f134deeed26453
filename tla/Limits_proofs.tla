---------------------------- MODULE Limits_proofs ----------------------------
(***************************************************************************)
(* The limits the program keeps.  The monthly cap (SpendCap): whatever     *)
(* recorders overlap, and at whatever turn of a month, the counter runs    *)
(* ahead of what was spent by no more than increments sent again have      *)
(* added, and nothing else refuses anybody before the cap is spent; and    *)
(* what is outstanding when the last check lets a charge in bounds the     *)
(* overspend.  The buckets in front of the public pages         *)
(* (Dashboards): no source gets more through than its bucket allows, and   *)
(* a source that waits as long as it was told gets through.                *)
(***************************************************************************)
EXTENDS SpendCap, Dashboards, FiniteSetTheorems, TLAPS

\* A value of the counter that is covered by what was spent in its month, and by
\* what increments sent again have added.
Covered(r) ==
  /\ r.month = 0 => r.cents = 0
  /\ r.month # 0 => r.cents <= spent[r.month] + resent[r.month]

\* A charge that is being recorded, or was refused, knows its month.
Billed ==
  \A c \in Charge :
    pc[c] \in {"incrementing", "resetting", "blocked"} => billed[c] \in Month

SpendInv ==
  /\ SpendTypeOK
  /\ Billed
  /\ Covered(counter) /\ Covered(before)
  /\ BlockedOnlyOverCap

-----------------------------------------------------------------------------
LEMMA OutstandingFinite == IsFiniteSet(Outstanding) /\ IsFiniteSet(Outstanding)'
<1>1. IsFiniteSet(Charge)
  BY SpendAssumption, FS_Union DEF Charge
<1>2. Outstanding \subseteq Charge /\ Outstanding' \subseteq Charge
  BY DEF Outstanding, Charge
<1> QED
  BY <1>1, <1>2, FS_Subset

LEMMA CountTyped == ASSUME crowd \in Nat, Count PROVE crowd' \in Nat
<1>1. Cardinality(Outstanding') \in Nat
  BY OutstandingFinite, FS_CardinalityType
<1> QED
  BY <1>1 DEF Count

LEMMA FaultTyped ==
  ASSUME NEW kind, Fault(kind), nfaults \in 0 .. MaxFaults, happened \subseteq Faults
  PROVE  nfaults' \in 0 .. MaxFaults /\ happened' \subseteq Faults /\ kind \in happened'
  BY SpendAssumption DEF Fault

-----------------------------------------------------------------------------
\* The initial state.
LEMMA SpendInit_Inv == SpendInit => SpendInv
<1> SUFFICES ASSUME SpendInit PROVE SpendInv
  OBVIOUS
<1>1. SpendTypeOK
  <2>1. Zero \in Counter
    BY SpendAssumption DEF Zero, Counter
  <2>2. 1 \in Month /\ 0 \in 0 .. Months /\ 0 \in 0 .. MaxFaults
    BY SpendAssumption DEF Month
  <2>3. raced \in BOOLEAN
    BY Zenon DEF SpendInit
  <2> QED
    BY <2>1, <2>2, <2>3 DEF SpendInit, SpendTypeOK, Stages
<1>2. Billed /\ BlockedOnlyOverCap
  BY DEF SpendInit, Billed, BlockedOnlyOverCap, Charge
<1>3. Covered(counter) /\ Covered(before)
  BY DEF SpendInit, Covered, Zero
<1> QED
  BY <1>1, <1>2, <1>3 DEF SpendInv

\* A step that leaves the counter and the spend alone keeps them covered.
LEMMA CoveredKept ==
  ASSUME SpendInv, UNCHANGED <<counter, before, spent, resent>>
  PROVE  Covered(counter)' /\ Covered(before)'
  BY DEF SpendInv, Covered

\* What is recorded, and only that, adds to the spend of the month.
LEMMA SpendGrows ==
  ASSUME SpendInv, NEW c \in Charge, pc[c] \in {"incrementing", "resetting"}, Spend(c)
  PROVE  /\ spent' \in [Month -> Nat]
         /\ \A m \in Month : spent'[m] >= spent[m]
         /\ spent'[billed[c]] = spent[billed[c]] + Cost[c]
         /\ billed[c] \in Month /\ Cost[c] \in Nat \ {0}
<1>1. billed[c] \in Month /\ spent \in [Month -> Nat]
  BY DEF SpendInv, Billed, SpendTypeOK
<1>2. Cost[c] \in Nat \ {0}
  BY SpendAssumption
<1>3. \A m \in Month : spent'[m] = IF m = billed[c] THEN spent[m] + Cost[c] ELSE spent[m]
  BY <1>1 DEF Spend
<1>4. spent' \in [Month -> Nat]
  BY <1>1, <1>2 DEF Spend
<1> QED
  BY <1>1, <1>2, <1>3, <1>4

\* Refusals stay justified when the spend only grows.
LEMMA RefusalsKept ==
  ASSUME SpendInv, NEW c \in Charge, spent' \in [Month -> Nat],
         \A m \in Month : spent'[m] >= spent[m],
         resent' \in [Month -> Nat], \A m \in Month : resent'[m] >= resent[m],
         pc' \in [Charge -> Stages], UNCHANGED billed,
         \A d \in Charge : pc'[d] = "blocked" => pc[d] = "blocked"
  PROVE  BlockedOnlyOverCap'
<1> SUFFICES ASSUME NEW d \in Invocation, pc'[d] = "blocked"
             PROVE  spent'[billed'[d]] + resent'[billed'[d]] >= Cap
  BY DEF BlockedOnlyOverCap
<1>1. d \in Charge /\ pc[d] = "blocked"
  BY DEF Charge
<1>2. spent[billed[d]] + resent[billed[d]] >= Cap /\ billed[d] \in Month
  BY <1>1 DEF SpendInv, BlockedOnlyOverCap, Billed
<1>3. spent \in [Month -> Nat] /\ resent \in [Month -> Nat] /\ Cap \in Nat
  BY SpendAssumption DEF SpendInv, SpendTypeOK
<1> QED
  BY <1>2, <1>3

-----------------------------------------------------------------------------
LEMMA CheckBudget_Inv ==
  ASSUME SpendInv, NEW c \in Invocation, CheckBudget(c)
  PROVE  SpendInv'
<1> USE DEF Charge
<1>1. SpendTypeOK /\ Billed
  BY DEF SpendInv
<1>2. /\ nfaults' \in 0 .. MaxFaults /\ happened' \subseteq Faults
  BY <1>1, FaultTyped DEF CheckBudget, SpendTypeOK, faultVars
<1>3. pc' \in [Charge -> Stages]
  BY <1>1 DEF CheckBudget, Goto, SpendTypeOK, Stages
<1>4. billed' \in [Charge -> 0 .. Months]
  BY <1>1 DEF CheckBudget, SpendTypeOK, Month
<1>5. SpendTypeOK'
  BY <1>1, <1>2, <1>3, <1>4, CountTyped DEF CheckBudget, SpendTypeOK
<1>6. \A d \in Charge : d # c => pc'[d] = pc[d] /\ billed'[d] = billed[d]
  BY <1>1 DEF CheckBudget, Goto, SpendTypeOK
<1>7. billed'[c] = month /\ month \in Month
  BY <1>1 DEF CheckBudget, SpendTypeOK
<1>8. Billed'
  BY <1>1, <1>6, <1>7 DEF Billed, CheckBudget, Month
<1>9. Covered(counter)' /\ Covered(before)'
  BY CoveredKept DEF CheckBudget
<1>10. BlockedOnlyOverCap'
  <2> SUFFICES ASSUME NEW d \in Invocation, pc'[d] = "blocked"
               PROVE  spent'[billed'[d]] + resent'[billed'[d]] >= Cap
    BY DEF BlockedOnlyOverCap
  <2>1. Covered(counter) /\ Covered(before) /\ BlockedOnlyOverCap
    BY DEF SpendInv
  <2>2. spent' = spent /\ spent \in [Month -> Nat] /\ Cap \in Nat
        /\ resent' = resent /\ resent \in [Month -> Nat]
        /\ counter \in Counter /\ before \in Counter
    BY <1>1, SpendAssumption DEF CheckBudget, SpendTypeOK
  <2>3. CASE d # c
    BY <1>6, <2>1, <2>2, <2>3 DEF BlockedOnlyOverCap
  <2>4. CASE d = c
    <3>1. ~Allowed(counter) \/ ~Allowed(before)
      BY <1>1, <2>4 DEF CheckBudget, Goto, SpendTypeOK
    <3>2. PICK r \in Counter : Covered(r) /\ ~Allowed(r)
      BY <3>1, <2>1, <2>2
    <3>3. r.month = month /\ r.cents >= Cap
      BY <3>2, <2>2, <1>7 DEF Allowed, Counter
    <3>4. r.cents <= spent[month] + resent[month] /\ r.cents \in Nat
      BY <3>2, <3>3, <1>7 DEF Covered, Counter, Month
    <3> QED
      BY <3>3, <3>4, <2>2, <2>4, <1>7
  <2> QED
    BY <2>3, <2>4
<1> QED
  BY <1>5, <1>8, <1>9, <1>10 DEF SpendInv

LEMMA StartJob_Inv ==
  ASSUME SpendInv, NEW j \in Job, StartJob(j)
  PROVE  SpendInv'
<1> j \in Charge
  BY DEF Charge
<1>1. SpendTypeOK /\ Billed /\ BlockedOnlyOverCap
  BY DEF SpendInv
<1>2. SpendTypeOK'
  BY <1>1, CountTyped DEF StartJob, SpendTypeOK, Goto, Stages, faultVars
<1>3. \A d \in Charge : d # j => pc'[d] = pc[d]
  BY <1>1 DEF StartJob, Goto, SpendTypeOK
<1>4. pc'[j] = "running"
  BY <1>1 DEF StartJob, Goto, SpendTypeOK
<1>5. Billed'
  BY <1>1, <1>3, <1>4 DEF Billed, StartJob, Month
<1>6. Covered(counter)' /\ Covered(before)'
  BY CoveredKept DEF StartJob, faultVars
<1>7. BlockedOnlyOverCap'
  BY <1>1, <1>3, <1>4 DEF BlockedOnlyOverCap, StartJob, faultVars, Charge
<1> QED
  BY <1>2, <1>5, <1>6, <1>7 DEF SpendInv

LEMMA Finish_Inv ==
  ASSUME SpendInv, NEW c \in Charge, Finish(c)
  PROVE  SpendInv'
<1>1. SpendTypeOK /\ Billed /\ BlockedOnlyOverCap
  BY DEF SpendInv
<1>2. billed' \in [Charge -> 0 .. Months] /\ pc' \in [Charge -> Stages]
  <2>1. month \in 0 .. Months
    BY <1>1, SpendAssumption DEF SpendTypeOK, Month
  <2>2. billed' \in [Charge -> 0 .. Months]
    BY <1>1, <2>1 DEF Finish, SpendTypeOK
  <2>3. pc' \in [Charge -> Stages]
    BY <1>1 DEF Finish, SpendTypeOK, Goto, Stages
  <2> QED
    BY <2>2, <2>3
<1>3. SpendTypeOK'
  BY <1>1, <1>2, CountTyped DEF Finish, SpendTypeOK, faultVars
<1>4. \A d \in Charge : d # c => pc'[d] = pc[d] /\ billed'[d] = billed[d]
  BY <1>1 DEF Finish, Goto, SpendTypeOK
<1>5. pc'[c] = "failed" \/ (pc'[c] = "incrementing" /\ billed'[c] = month /\ month \in Month)
  BY <1>1 DEF Finish, Goto, SpendTypeOK
<1>6. Billed'
  BY <1>1, <1>4, <1>5 DEF Billed, Finish, Month
<1>7. Covered(counter)' /\ Covered(before)'
  BY CoveredKept DEF Finish, faultVars
<1>8. BlockedOnlyOverCap'
  BY <1>1, <1>4, <1>5 DEF BlockedOnlyOverCap, Finish, faultVars, Charge
<1> QED
  BY <1>3, <1>6, <1>7, <1>8 DEF SpendInv

\* What an increment sent again adds to the counter it adds to what was resent.
LEMMA AddedAgain ==
  ASSUME NEW c \in Charge, NEW times \in 1 .. Resends, AddAgain(c, times),
         billed[c] \in Month, Cost[c] \in Nat, counter \in Counter, resent \in [Month -> Nat]
  PROVE  \E more \in Nat :
           /\ before' = counter
           /\ counter' = [month |-> billed[c], cents |-> counter.cents + Cost[c] + more]
           /\ resent' = [resent EXCEPT ![billed[c]] = @ + more]
           /\ resent'[billed[c]] = resent[billed[c]] + more
<1> DEFINE more == times * Cost[c]
<1>1. more \in Nat
  <2>1. times \in Nat
    BY SpendAssumption
  <2> QED
    BY <2>1
<1>2. before' = counter
  BY DEF AddAgain, Store
<1>3. resent' = [resent EXCEPT ![billed[c]] = @ + more]
  BY DEF AddAgain
<1>4. counter' = [month |-> billed[c], cents |-> (counter.cents + Cost[c]) + more]
  BY DEF AddAgain, Store, Add
<1> HIDE DEF more
<1>5. resent'[billed[c]] = resent[billed[c]] + more
  BY <1>3
<1> QED
  BY <1>1, <1>2, <1>3, <1>4, <1>5

\* The value an increment stores is covered by the spend it adds to.
LEMMA Increment_Inv ==
  ASSUME SpendInv, NEW c \in Charge, Increment(c)
  PROVE  SpendInv'
<1>1. SpendTypeOK /\ Billed
  BY DEF SpendInv
<1>2. /\ nfaults' \in 0 .. MaxFaults /\ happened' \subseteq Faults
  BY <1>1, FaultTyped DEF Increment, SpendTypeOK, faultVars
<1>3. billed[c] \in Month /\ Cost[c] \in Nat \ {0} /\ billed[c] \in 0 .. Months
  BY <1>1, SpendAssumption DEF Increment, Billed, SpendTypeOK
<1>4. /\ pc' \in [Charge -> Stages] /\ UNCHANGED billed
      /\ \A d \in Charge : d # c => pc'[d] = pc[d]
      /\ pc'[c] \in {"done", "resetting"}
  BY <1>1 DEF Increment, Goto, SpendTypeOK, Stages
<1>5. /\ spent' \in [Month -> Nat]
      /\ \A m \in Month : spent'[m] >= spent[m]
  <2>1. CASE Spend(c)
    BY <2>1, SpendGrows DEF Increment
  <2>2. CASE UNCHANGED spent
    BY <2>2, <1>1 DEF SpendTypeOK
  <2> QED
    BY <2>1, <2>2 DEF Increment
<1>r. /\ resent' \in [Month -> Nat]
      /\ \A m \in Month : resent'[m] >= resent[m]
  <2>1. CASE UNCHANGED resent
    BY <2>1, <1>1 DEF SpendTypeOK
  <2>2. ASSUME NEW times \in 1 .. Resends, AddAgain(c, times)
        PROVE  resent' \in [Month -> Nat] /\ \A m \in Month : resent'[m] >= resent[m]
    BY <2>2, <1>1, <1>3, AddedAgain DEF SpendTypeOK
  <2> QED
    BY <2>1, <2>2 DEF Increment
<1>6. counter' \in Counter /\ before' \in Counter
  <2>1. CASE UNCHANGED <<counter, before>>
    BY <2>1, <1>1 DEF SpendTypeOK
  <2>2. CASE Store(Add(c, counter))
    BY <2>2, <1>1, <1>3 DEF Store, Add, Counter, SpendTypeOK
  <2>3. ASSUME NEW times \in 1 .. Resends, AddAgain(c, times)
        PROVE  counter' \in Counter /\ before' \in Counter
    BY <2>3, <1>1, <1>3, AddedAgain DEF SpendTypeOK, Counter
  <2> QED
    BY <2>1, <2>2, <2>3 DEF Increment
<1>7. SpendTypeOK'
  <2>1. failed' \in [Charge -> Counter]
    BY <1>1 DEF Increment, SpendTypeOK
  <2> QED
    BY <1>1, <1>2, <1>4, <1>5, <1>6, <1>r, <2>1, CountTyped DEF Increment, SpendTypeOK
<1>8. Billed'
  BY <1>1, <1>3, <1>4 DEF Billed, Month
<1>9. Covered(counter)' /\ Covered(before)'
  <2>1. Covered(counter) /\ Covered(before)
    BY DEF SpendInv
  <2>2. counter \in Counter /\ before \in Counter /\ spent \in [Month -> Nat]
        /\ resent \in [Month -> Nat]
    BY <1>1 DEF SpendTypeOK
  <2>3. \A r \in Counter : Covered(r) =>
          (r.month = 0 => r.cents = 0) /\ (r.month # 0 => r.cents <= spent'[r.month] + resent'[r.month])
    BY <1>5, <1>r, <2>2 DEF Covered, Counter, Month
  <2>4. CASE UNCHANGED <<counter, before>>
    BY <2>1, <2>2, <2>3, <2>4 DEF Covered
  <2>5. CASE SameMonth(c) /\ Store(Add(c, counter)) /\ Spend(c)
    <3>1. before' = counter /\ counter' = [month |-> billed[c], cents |-> counter.cents + Cost[c]]
      BY <2>5 DEF Store, Add
    <3>2. spent'[billed[c]] = spent[billed[c]] + Cost[c]
      BY <2>5, SpendGrows DEF Increment
    <3>3. /\ counter.cents <= spent[billed[c]] + resent[billed[c]]
          /\ counter.cents \in Nat /\ spent[billed[c]] \in Nat /\ resent[billed[c]] \in Nat
      BY <2>1, <2>2, <2>5, <1>3 DEF SameMonth, Covered, Counter
    <3>a. resent'[billed[c]] >= resent[billed[c]] /\ resent'[billed[c]] \in Nat
      BY <1>3, <1>r
    <3>4. Covered(before)'
      BY <3>1, <2>1, <2>2, <2>3 DEF Covered
    <3>5. Covered(counter)'
      BY <3>1, <3>2, <3>3, <3>a, <1>3 DEF Covered, Month
    <3> QED
      BY <3>4, <3>5
  <2>6. ASSUME SameMonth(c), NEW times \in 1 .. Resends, AddAgain(c, times), Spend(c)
        PROVE  Covered(counter)' /\ Covered(before)'
    <3>1. PICK more \in Nat :
            /\ before' = counter
            /\ counter' = [month |-> billed[c], cents |-> counter.cents + Cost[c] + more]
            /\ resent'[billed[c]] = resent[billed[c]] + more
      BY <2>6, <2>2, <1>3, AddedAgain
    <3>2. spent'[billed[c]] = spent[billed[c]] + Cost[c]
      BY <2>6, SpendGrows DEF Increment
    <3>3. /\ counter.cents <= spent[billed[c]] + resent[billed[c]]
          /\ counter.cents \in Nat /\ spent[billed[c]] \in Nat /\ resent[billed[c]] \in Nat
      BY <2>1, <2>2, <2>6, <1>3 DEF SameMonth, Covered, Counter
    <3>4. Covered(before)'
      BY <3>1, <2>1, <2>2, <2>3 DEF Covered
    <3>5. Covered(counter)'
      BY <3>1, <3>2, <3>3, <1>3 DEF Covered, Month
    <3> QED
      BY <3>4, <3>5
  <2> QED
    BY <2>4, <2>5, <2>6 DEF Increment
<1>10. BlockedOnlyOverCap'
  <2>1. \A d \in Charge : pc'[d] = "blocked" => pc[d] = "blocked"
    BY <1>4
  <2> QED
    BY <1>4, <1>5, <1>r, <2>1, RefusalsKept
<1> QED
  BY <1>7, <1>8, <1>9, <1>10 DEF SpendInv

LEMMA Reset_Inv ==
  ASSUME SpendInv, NEW c \in Charge, Reset(c)
  PROVE  SpendInv'
<1>1. SpendTypeOK /\ Billed
  BY DEF SpendInv
<1>2. /\ nfaults' \in 0 .. MaxFaults /\ happened' \subseteq Faults
  BY <1>1, FaultTyped DEF Reset, SpendTypeOK, faultVars
<1>3. billed[c] \in Month /\ Cost[c] \in Nat \ {0} /\ billed[c] \in 0 .. Months
  BY <1>1, SpendAssumption DEF Reset, Billed, SpendTypeOK
<1>r. resent' = resent /\ resent \in [Month -> Nat]
  BY <1>1 DEF Reset, SpendTypeOK
<1>4. /\ pc' \in [Charge -> Stages] /\ UNCHANGED billed
      /\ \A d \in Charge : d # c => pc'[d] = pc[d]
      /\ pc'[c] = "done"
  BY <1>1 DEF Reset, Goto, SpendTypeOK, Stages
<1>5. /\ spent' \in [Month -> Nat]
      /\ \A m \in Month : spent'[m] >= spent[m]
      /\ spent'[billed[c]] = spent[billed[c]] + Cost[c]
  BY SpendGrows DEF Reset
<1>6. /\ counter' \in Counter /\ before' \in Counter
      /\ raced' \in BOOLEAN
  <2>1. counter' \in Counter /\ before' \in Counter
    <3>1. CASE Store([month |-> billed[c], cents |-> Cost[c]])
      BY <3>1, <1>1, <1>3 DEF Store, Counter, SpendTypeOK
    <3>2. CASE UNCHANGED <<counter, before>>
      BY <3>2, <1>1 DEF SpendTypeOK
    <3> QED
      BY <3>1, <3>2 DEF Reset
  <2>2. raced' \in BOOLEAN
    BY <1>1, Zenon DEF Reset, SpendTypeOK
  <2> QED
    BY <2>1, <2>2
<1>7. SpendTypeOK'
  BY <1>1, <1>2, <1>4, <1>5, <1>6, <1>r, CountTyped DEF Reset, SpendTypeOK
<1>8. Billed'
  BY <1>1, <1>4 DEF Billed, Month
<1>9. Covered(counter)' /\ Covered(before)'
  <2>1. Covered(counter) /\ Covered(before)
    BY DEF SpendInv
  <2>2. counter \in Counter /\ before \in Counter /\ spent \in [Month -> Nat]
        /\ resent \in [Month -> Nat]
    BY <1>1 DEF SpendTypeOK
  <2>3. \A r \in Counter : Covered(r) =>
          (r.month = 0 => r.cents = 0) /\ (r.month # 0 => r.cents <= spent'[r.month] + resent'[r.month])
    BY <1>5, <1>r, <2>2 DEF Covered, Counter, Month
  <2>4. CASE UNCHANGED <<counter, before>>
    BY <2>1, <2>2, <2>3, <2>4 DEF Covered
  <2>5. CASE Store([month |-> billed[c], cents |-> Cost[c]])
    <3>1. before' = counter /\ counter' = [month |-> billed[c], cents |-> Cost[c]]
      BY <2>5 DEF Store
    <3>2. Cost[c] <= spent'[billed[c]] + resent'[billed[c]]
      BY <1>3, <1>5, <1>r, <2>2
    <3>3. Covered(before)'
      BY <3>1, <2>1, <2>2, <2>3 DEF Covered
    <3>4. Covered(counter)'
      BY <3>1, <3>2, <1>3 DEF Covered, Month
    <3> QED
      BY <3>3, <3>4
  <2> QED
    BY <2>4, <2>5 DEF Reset
<1>10. BlockedOnlyOverCap'
  <2>1. \A d \in Charge : pc'[d] = "blocked" => pc[d] = "blocked"
    BY <1>4
  <2> QED
    BY <1>4, <1>5, <1>r, <2>1, RefusalsKept
<1> QED
  BY <1>7, <1>8, <1>9, <1>10 DEF SpendInv

LEMMA NextMonth_Inv ==
  ASSUME SpendInv, NextMonth
  PROVE  SpendInv'
<1>1. SpendTypeOK'
  BY SpendAssumption DEF SpendInv, SpendTypeOK, NextMonth, Month, faultVars
<1>2. Billed' /\ BlockedOnlyOverCap'
  BY DEF SpendInv, Billed, BlockedOnlyOverCap, NextMonth, faultVars
<1>3. Covered(counter)' /\ Covered(before)'
  BY CoveredKept DEF NextMonth, faultVars
<1> QED
  BY <1>1, <1>2, <1>3 DEF SpendInv

LEMMA SpendStep_Inv == SpendInv /\ [SpendNext]_svars => SpendInv'
<1> SUFFICES ASSUME SpendInv, [SpendNext]_svars PROVE SpendInv'
  OBVIOUS
<1>1. ASSUME NEW c \in Invocation, CheckBudget(c) PROVE SpendInv'
  BY <1>1, CheckBudget_Inv
<1>2. ASSUME NEW j \in Job, StartJob(j) PROVE SpendInv'
  BY <1>2, StartJob_Inv
<1>3. ASSUME NEW c \in Charge, Finish(c) PROVE SpendInv'
  BY <1>3, Finish_Inv
<1>4. ASSUME NEW c \in Charge, Increment(c) PROVE SpendInv'
  BY <1>4, Increment_Inv
<1>5. ASSUME NEW c \in Charge, Reset(c) PROVE SpendInv'
  BY <1>5, Reset_Inv
<1>6. CASE NextMonth
  BY <1>6, NextMonth_Inv
<1>7. CASE UNCHANGED svars
  BY <1>7 DEF SpendInv, SpendTypeOK, Billed, Covered, BlockedOnlyOverCap, svars, faultVars
<1> QED
  BY <1>1, <1>2, <1>3, <1>4, <1>5, <1>6, <1>7 DEF SpendNext

LEMMA SpendInvariant == SpendSpec => []SpendInv
  BY SpendInit_Inv, SpendStep_Inv, PTL DEF SpendSpec

-----------------------------------------------------------------------------
\* The variables keep their types, for any charges, cap and number of months.
THEOREM SpendTyped == SpendSpec => []SpendTypeOK
<1>1. SpendInv => SpendTypeOK
  BY DEF SpendInv
<1> QED
  BY <1>1, SpendInvariant, PTL

\* The counter of a month never exceeds what was spent in it and what increments
\* sent again have added (record_spend).
THEOREM CounterCovered == SpendSpec => []NeverOvercounted
<1>1. SpendInv => NeverOvercounted
  BY DEF SpendInv, NeverOvercounted, Covered
<1> QED
  BY <1>1, SpendInvariant, PTL

\* An invocation is refused (main.py, check_budget) only when the cap is reached by
\* what was spent in the month of the refusal and what increments sent again have
\* added to it: nothing else that fails or races refuses anybody.
THEOREM RefusalJustified == SpendSpec => []BlockedOnlyOverCap
<1>1. SpendInv => BlockedOnlyOverCap
  BY DEF SpendInv
<1> QED
  BY <1>1, SpendInvariant, PTL

-----------------------------------------------------------------------------
(***************************************************************************)
(* Without faults and races the counter is the spend of the last month     *)
(* anything was spent in.                                                  *)
(***************************************************************************)

\* The increment of a charge that resets failed on a counter of another month.
Failed == \A c \in Charge : pc[c] = "resetting" => failed[c].month \notin {0, billed[c]}

\* The counter has all of its month's spend, and nothing was spent later.
Tallied ==
  /\ counter.month = 0 => counter.cents = 0
  /\ counter.month # 0 => counter.cents = spent[counter.month]
  /\ \A m \in Month : m > counter.month => spent[m] = 0

ExactInv ==
  /\ SpendInv
  /\ Failed
  /\ (happened = {} /\ ~raced) => Tallied

LEMMA NoFaultBefore == ASSUME NEW kind, Fault(kind) PROVE happened' # {}
  BY DEF Fault

LEMMA ExactInit == SpendInit => ExactInv
<1> SUFFICES ASSUME SpendInit PROVE ExactInv
  OBVIOUS
<1>1. Failed
  BY DEF SpendInit, Failed, Charge
<1>2. Tallied
  BY DEF SpendInit, Tallied, Zero, Month
<1> QED
  BY <1>1, <1>2, SpendInit_Inv DEF ExactInv

\* A step that records nothing.
LEMMA ExactKept ==
  ASSUME ExactInv, UNCHANGED <<counter, spent, raced, failed>>,
         happened' = {} => happened = {},
         \A d \in Charge : pc'[d] = "resetting" => pc[d] = "resetting" /\ billed'[d] = billed[d]
  PROVE  Failed' /\ ((happened' = {} /\ ~raced') => Tallied')
<1>1. Failed'
  BY DEF ExactInv, Failed
<1>2. ASSUME happened' = {}, ~raced' PROVE Tallied'
  <2>1. happened = {} /\ ~raced
    BY <1>2, Zenon
  <2>2. Tallied
    BY <2>1 DEF ExactInv
  <2> QED
    BY <2>2 DEF Tallied
<1> QED
  BY <1>1, <1>2

\* An increment finds the counter of its month, or the very first one.
LEMMA ExactIncrement ==
  ASSUME ExactInv, NEW c \in Charge, Increment(c)
  PROVE  Failed' /\ ((happened' = {} /\ ~raced') => Tallied')
<1>1. SpendInv /\ SpendTypeOK /\ Billed /\ Failed
  BY DEF ExactInv, SpendInv
<1>2. /\ billed' = billed /\ raced' = raced
      /\ \A d \in Charge : d # c => pc'[d] = pc[d] /\ failed'[d] = failed[d]
  BY <1>1 DEF Increment, Goto, SpendTypeOK
<1>3. counter \in Counter /\ spent \in [Month -> Nat] /\ billed[c] \in Month
  BY <1>1 DEF SpendTypeOK, Billed, Increment
<1>4. Failed'
  <2>1. pc'[c] = "resetting" => failed'[c].month \notin {0, billed[c]}
    BY <1>1, <1>3 DEF Increment, Goto, SpendTypeOK, SameMonth
  <2> QED
    BY <1>1, <1>2, <2>1 DEF Failed
<1>5. ASSUME happened' = {}, ~raced' PROVE Tallied'
  <2>1. ~Fault("again") /\ ~Fault("write")
    BY <1>5, NoFaultBefore
  <2>2. happened = {}
    BY <1>5, <2>1 DEF Increment, faultVars
  <2>3. Tallied
    BY <1>2, <1>5, <2>2, Zenon DEF ExactInv
  <2>4. CASE UNCHANGED <<counter, spent>>
    BY <2>3, <2>4 DEF Tallied
  <2>5. CASE SameMonth(c) /\ Store(Add(c, counter)) /\ Spend(c)
    <3>1. counter' = [month |-> billed[c], cents |-> counter.cents + Cost[c]]
      BY <2>5 DEF Store, Add
    <3>2. \A m \in Month : spent'[m] = IF m = billed[c] THEN spent[m] + Cost[c] ELSE spent[m]
      BY <1>3, <2>5 DEF Spend
    <3>3. counter.cents = spent[billed[c]]
      BY <1>3, <2>3, <2>5 DEF SameMonth, Tallied, Counter, Month
    <3>4. \A m \in Month : m > billed[c] => spent[m] = 0
      BY <1>3, <2>3, <2>5 DEF SameMonth, Tallied, Counter, Month
    <3> QED
      BY <1>3, <3>1, <3>2, <3>3, <3>4 DEF Tallied, Month
  <2> QED
    BY <2>1, <2>4, <2>5 DEF Increment
<1> QED
  BY <1>4, <1>5

\* A reset that no other recorder came before drops an older month's counter.
LEMMA ExactReset ==
  ASSUME ExactInv, NEW c \in Charge, Reset(c)
  PROVE  Failed' /\ ((happened' = {} /\ ~raced') => Tallied')
<1>1. SpendInv /\ SpendTypeOK /\ Billed /\ Failed
  BY DEF ExactInv, SpendInv
<1>2. /\ billed' = billed /\ failed' = failed
      /\ \A d \in Charge : d # c => pc'[d] = pc[d]
      /\ pc[c] = "resetting" /\ pc'[c] = "done"
  BY <1>1 DEF Reset, Goto, SpendTypeOK
<1>3. counter \in Counter /\ spent \in [Month -> Nat] /\ billed[c] \in Month
      /\ Cost[c] \in Nat
  BY <1>1, <1>2, SpendAssumption DEF SpendTypeOK, Billed
<1>4. Failed'
  BY <1>1, <1>2 DEF Failed
<1>5. ASSUME happened' = {}, ~raced' PROVE Tallied'
  <2>1. ~Fault("write")
    BY <1>5, NoFaultBefore
  <2>2. happened = {}
    BY <2>1, <1>5 DEF Reset, faultVars
  <2>3. /\ Store([month |-> billed[c], cents |-> Cost[c]])
        /\ raced' = (raced \/ counter # failed[c] \/ counter.month > billed[c])
    BY <2>1 DEF Reset
  <2>4. ~raced /\ counter = failed[c] /\ ~(counter.month > billed[c])
    BY <1>5, <2>3, Zenon
  <2>5. Tallied
    BY <2>2, <2>4 DEF ExactInv
  <2>6. counter.month < billed[c]
    BY <1>1, <1>2, <1>3, <2>4 DEF Failed, Counter, Month
  <2>7. counter' = [month |-> billed[c], cents |-> Cost[c]]
    BY <2>3 DEF Store
  <2>8. \A m \in Month : spent'[m] = IF m = billed[c] THEN spent[m] + Cost[c] ELSE spent[m]
    BY <1>3 DEF Reset, Spend
  <2>9. \A m \in Month : m >= billed[c] => spent[m] = 0
    BY <1>3, <2>5, <2>6 DEF Tallied, Counter, Month
  <2> QED
    BY <1>3, <2>7, <2>8, <2>9 DEF Tallied, Month
<1> QED
  BY <1>4, <1>5

LEMMA ExactStep == ExactInv /\ [SpendNext]_svars => ExactInv'
<1> SUFFICES ASSUME ExactInv, [SpendNext]_svars PROVE Failed' /\ ((happened' = {} /\ ~raced') => Tallied')
  BY SpendStep_Inv DEF ExactInv
<1>1. SpendTypeOK
  BY DEF ExactInv, SpendInv
<1>2. ASSUME NEW kind, Fault(kind) \/ UNCHANGED faultVars PROVE happened' = {} => happened = {}
  BY <1>2, NoFaultBefore DEF faultVars
<1>3. ASSUME NEW c \in Invocation, CheckBudget(c)
      PROVE  Failed' /\ ((happened' = {} /\ ~raced') => Tallied')
  <2>1. \A d \in Charge : pc'[d] = "resetting" => pc[d] = "resetting" /\ billed'[d] = billed[d]
    BY <1>1, <1>3 DEF CheckBudget, Goto, SpendTypeOK, Charge
  <2>2. happened' = {} => happened = {}
    BY <1>2, <1>3 DEF CheckBudget
  <2> QED
    BY <1>3, <2>1, <2>2, ExactKept DEF CheckBudget
<1>4. ASSUME NEW j \in Job, StartJob(j)
      PROVE  Failed' /\ ((happened' = {} /\ ~raced') => Tallied')
  <2>1. \A d \in Charge : pc'[d] = "resetting" => pc[d] = "resetting" /\ billed'[d] = billed[d]
    BY <1>1, <1>4 DEF StartJob, Goto, SpendTypeOK, Charge
  <2> QED
    BY <1>4, <2>1, ExactKept DEF StartJob, faultVars
<1>5. ASSUME NEW c \in Charge, Finish(c)
      PROVE  Failed' /\ ((happened' = {} /\ ~raced') => Tallied')
  <2>1. \A d \in Charge : pc'[d] = "resetting" => pc[d] = "resetting" /\ billed'[d] = billed[d]
    BY <1>1, <1>5 DEF Finish, Goto, SpendTypeOK
  <2> QED
    BY <1>5, <2>1, ExactKept DEF Finish, faultVars
<1>6. ASSUME NEW c \in Charge, Increment(c)
      PROVE  Failed' /\ ((happened' = {} /\ ~raced') => Tallied')
  BY <1>6, ExactIncrement
<1>7. ASSUME NEW c \in Charge, Reset(c)
      PROVE  Failed' /\ ((happened' = {} /\ ~raced') => Tallied')
  BY <1>7, ExactReset
<1>8. CASE NextMonth
  BY <1>8, ExactKept DEF NextMonth, faultVars
<1>9. CASE UNCHANGED svars
  BY <1>9, ExactKept DEF svars, faultVars
<1> QED
  BY <1>3, <1>4, <1>5, <1>6, <1>7, <1>8, <1>9 DEF SpendNext

\* Until a call fails or two recorders race at the turn of a month
\* (record_spend), the counter is exactly what was spent in its month.
THEOREM CountsAreExact == SpendSpec => []CountedExactly
<1>1. SpendSpec => []ExactInv
  BY ExactInit, ExactStep, PTL DEF SpendSpec
<1>2. ExactInv => CountedExactly
  <2> SUFFICES ASSUME ExactInv, happened = {}, ~raced, counter.month # 0
               PROVE  counter.cents = spent[counter.month]
    BY Zenon DEF CountedExactly
  <2> QED
    BY DEF ExactInv, Tallied
<1> QED
  BY <1>1, <1>2, PTL

-----------------------------------------------------------------------------
(***************************************************************************)
(* How far a month can go over the cap: what is outstanding when the last  *)
(* check lets an invocation in is all that can still be added.             *)
(***************************************************************************)

\* A set of numbers that is not empty has a least one.
LEMMA Least ==
  ASSUME NEW T \in SUBSET Nat, T # {}
  PROVE  \E m \in T : \A k \in T : m <= k
<1> DEFINE R == {p \in Nat \X Nat : p[1] < p[2]}
<1>1. IsWellFoundedOn(R, Nat)
  <2>1. OpToRel(<, Nat) = R
    BY DEF OpToRel
  <2> QED
    BY <2>1, NatLessThanWellFounded
<1> HIDE DEF R
<1>2. PICK m \in T : \A y \in T : ~ (<<y, m>> \in R)
  BY <1>1, WFMin
<1>3. ASSUME NEW k \in T PROVE m <= k
  <2>1. m \in Nat /\ k \in Nat
    OBVIOUS
  <2>2. ~ (k < m)
    BY <1>2, <2>1 DEF R
  <2> QED
    BY <2>1, <2>2
<1> QED
  BY <1>3

\* Finitely many numbers have a bound: there is no first one without.
LEMMA ListBounded ==
  ASSUME NEW n \in Nat, NEW g \in [1 .. n -> Nat]
  PROVE  \E u \in Nat : \A i \in 1 .. n : g[i] <= u
<1> DEFINE Free(k) == \A u \in Nat : \E i \in 1 .. k : g[i] > u
           T == {k \in 0 .. n : Free(k)}
<1>1. T = {}
  <2> SUFFICES ASSUME T # {} PROVE FALSE
    OBVIOUS
  <2>1. T \in SUBSET Nat
    OBVIOUS
  <2> HIDE DEF T
  <2>2. PICK k \in T : \A l \in T : k <= l
    BY <2>1, Least
  <2>3. k \in 0 .. n /\ Free(k)
    BY DEF T
  <2>4. k \in 1 .. n
    BY <2>3
  <2>5. k - 1 \in 0 .. n /\ ~ (k <= k - 1)
    BY <2>4
  <2>6. k - 1 \notin T
    BY <2>2, <2>5
  <2>7. ~ Free(k - 1)
    BY <2>5, <2>6 DEF T
  <2>8. PICK u \in Nat : \A i \in 1 .. (k - 1) : ~ (g[i] > u)
    BY <2>7
  <2>9. g[k] \in Nat
    BY <2>4
  <2>10. u + g[k] \in Nat
    BY <2>9
  <2>11. PICK i \in 1 .. k : g[i] > u + g[k]
    BY <2>3, <2>10
  <2>12. i \in 1 .. n /\ g[i] \in Nat
    BY <2>4
  <2>13. i = k \/ i \in 1 .. (k - 1)
    BY <2>4, <2>11
  <2>14. i = k
    BY <2>8, <2>9, <2>11, <2>12, <2>13
  <2> QED
    BY <2>9, <2>11, <2>14
<1>2. n \in 0 .. n
  OBVIOUS
<1>3. ~ Free(n)
  BY <1>1, <1>2
<1>4. PICK u \in Nat : \A i \in 1 .. n : ~ (g[i] > u)
  BY <1>3
<1>5. ASSUME NEW i \in 1 .. n PROVE g[i] <= u
  <2>1. g[i] \in Nat /\ ~ (g[i] > u)
    BY <1>4
  <2> QED
    BY <2>1
<1> QED
  BY <1>5

\* The costs of the charges have a bound.
LEMMA CostsBounded == \E u \in Nat : \A c \in Charge : Cost[c] <= u
<1>1. IsFiniteSet(Charge)
  BY SpendAssumption, FS_Union DEF Charge
<1>2. PICK n \in Nat : ExistsSurjection(1 .. n, Charge)
  BY <1>1, FS_NatSurjection
<1>3. PICK f \in Surjection(1 .. n, Charge) : TRUE
  BY <1>2 DEF ExistsSurjection
<1>4. f \in [1 .. n -> Charge] /\ \A c \in Charge : \E i \in 1 .. n : f[i] = c
  BY <1>3 DEF Surjection
<1> DEFINE g == [i \in 1 .. n |-> Cost[f[i]]]
<1>5. g \in [1 .. n -> Nat]
  BY <1>4, SpendAssumption
<1>6. \A i \in 1 .. n : g[i] = Cost[f[i]]
  OBVIOUS
<1> HIDE DEF g
<1>7. PICK u \in Nat : \A i \in 1 .. n : g[i] <= u
  BY <1>2, <1>5, ListBounded
<1>8. ASSUME NEW c \in Charge PROVE Cost[c] <= u
  <2>1. PICK i \in 1 .. n : f[i] = c
    BY <1>4
  <2>2. g[i] = Cost[c] /\ g[i] <= u
    BY <1>6, <1>7, <2>1
  <2> QED
    BY <2>2
<1> QED
  BY <1>8

\* The largest cost is the cost of a charge, when there are any.
LEMMA MaxCostIs ==
  ASSUME Charge # {}
  PROVE  MaxCost \in Nat /\ \A c \in Charge : Cost[c] <= MaxCost
<1> DEFINE T == {b \in Nat : \A c \in Charge : Cost[c] <= b}
<1>1. T \in SUBSET Nat /\ T # {}
  BY CostsBounded
<1>2. PICK b \in T : \A k \in T : b <= k
  BY <1>1, Least
<1>3. b \in Nat /\ \A c \in Charge : Cost[c] <= b
  OBVIOUS
<1>4. PICK c \in Charge : Cost[c] = b
  <2> SUFFICES ASSUME \A c \in Charge : Cost[c] # b PROVE FALSE
    OBVIOUS
  <2>1. \A c \in Charge : Cost[c] \in Nat /\ Cost[c] < b
    BY <1>3, SpendAssumption
  <2>2. b # 0
    BY <2>1
  <2>3. b - 1 \in T
    BY <1>3, <2>1, <2>2
  <2> QED
    BY <1>2, <1>3, <2>3
<1>5. \E m \in {Cost[d] : d \in Charge} : \A d \in Charge : Cost[d] <= m
  BY <1>3, <1>4
<1>6. MaxCost \in {Cost[d] : d \in Charge} /\ \A d \in Charge : Cost[d] <= MaxCost
  BY <1>5 DEF MaxCost
<1> QED
  BY <1>6, SpendAssumption

\* The recorders that will add to month m, and the charges that may do so when
\* they end in it.
Ending(m) == {c \in Charge : pc[c] \in {"incrementing", "resetting"} /\ billed[c] = m}

Going ==
  {c \in Charge : pc[c] = "running"}
    \cup {j \in Job : pc[j] = "idle" /\ pc[Parent[j]] = "running"}

Billable(m) == IF m >= month THEN Ending(m) \cup Going ELSE Ending(m)

LEMMA LimitIs == Limit \in Nat \ {0}
  BY SpendAssumption DEF Limit

\* Nothing was recorded for a month that has not begun.
Elapsed ==
  /\ counter.month <= month
  /\ \A c \in Charge : pc[c] \in {"incrementing", "resetting"} => billed[c] <= month
  /\ \A m \in Month : m > month => spent[m] = 0

Crowded == Cardinality(Outstanding) <= crowd

\* What was spent in month m and all that can still be added to it.
WithinBound(m) ==
  (spent[m] > 0 \/ Billable(m) # {}) =>
    spent[m] + Cardinality(Billable(m)) * MaxCost < Limit + crowd * MaxCost

\* No call failed, and no reset overwrote what another recorder had stored.
Fair == happened = {} /\ ~raced

Bounds == Fair => \A m \in Month : WithinBound(m)

BoundInv ==
  /\ ExactInv
  /\ \A m \in Month : spent[m] > 0 => Charge # {}
  /\ Elapsed
  /\ Crowded
  /\ Bounds

LEMMA BillableFinite ==
  ASSUME NEW m
  PROVE  /\ IsFiniteSet(Billable(m)) /\ Cardinality(Billable(m)) \in Nat
         /\ Billable(m) \subseteq Outstanding /\ Billable(m) \subseteq Charge
<1>1. Billable(m) \subseteq Outstanding
  BY DEF Billable, Ending, Going, Outstanding
<1>2. Outstanding \subseteq Charge
  BY DEF Outstanding, Charge
<1> QED
  BY <1>1, <1>2, OutstandingFinite, FS_Subset, FS_CardinalityType

LEMMA BillableFinitePrime ==
  ASSUME NEW m
  PROVE  /\ IsFiniteSet(Billable(m)') /\ Cardinality(Billable(m)') \in Nat
         /\ Billable(m)' \subseteq Outstanding' /\ Billable(m)' \subseteq Charge
<1>1. Billable(m)' \subseteq Outstanding'
  BY DEF Billable, Ending, Going, Outstanding
<1>2. Outstanding' \subseteq Charge
  BY DEF Outstanding, Charge
<1> QED
  BY <1>1, <1>2, OutstandingFinite, FS_Subset, FS_CardinalityType

\* More charges cost no less, and each adds at most the largest cost.
LEMMA Worth ==
  ASSUME NEW M \in Nat
  PROVE  /\ \A n \in Nat : n * M \in Nat /\ (n + 1) * M = n * M + M
         /\ \A k, n \in Nat : k <= n => k * M <= n * M
<1>1. \A n \in Nat : n * M \in Nat /\ (n + 1) * M = n * M + M
  OBVIOUS
<1>2. ASSUME NEW k \in Nat, NEW n \in Nat, k <= n PROVE k * M <= n * M
  <2>1. PICK d \in Nat : n = k + d
    BY <1>2
  <2>2. n * M = k * M + d * M
    BY <2>1
  <2>3. d * M \in Nat /\ k * M \in Nat
    OBVIOUS
  <2> QED
    BY <2>2, <2>3
<1> QED
  BY <1>1, <1>2

\* Count keeps the history of the largest crowd.
LEMMA CrowdKept ==
  ASSUME crowd \in Nat, Count
  PROVE  Crowded' /\ crowd' >= crowd /\ crowd' \in Nat
<1>1. Cardinality(Outstanding') \in Nat
  BY OutstandingFinite, FS_CardinalityType
<1>2. crowd' \in Nat /\ crowd' >= crowd /\ Cardinality(Outstanding') <= crowd'
  BY <1>1 DEF Count
<1> QED
  BY <1>2 DEF Crowded

\* A step that records nothing for month m and adds no charge to it.
LEMMA BoundKept ==
  ASSUME SpendTypeOK, NEW m \in Month, WithinBound(m), spent[m] > 0 => Charge # {},
         spent'[m] = spent[m], Billable(m)' \subseteq Billable(m),
         crowd' \in Nat, crowd' >= crowd
  PROVE  WithinBound(m)'
<1> SUFFICES ASSUME spent'[m] > 0 \/ Billable(m)' # {}
             PROVE  spent'[m] + Cardinality(Billable(m)') * MaxCost < Limit + crowd' * MaxCost
  BY DEF WithinBound
<1>1. spent[m] > 0 \/ Billable(m) # {}
  OBVIOUS
<1>2. spent[m] + Cardinality(Billable(m)) * MaxCost < Limit + crowd * MaxCost
  BY <1>1 DEF WithinBound
<1>3. IsFiniteSet(Billable(m)) /\ Cardinality(Billable(m)) \in Nat
  BY BillableFinite
<1>4. Cardinality(Billable(m)') \in Nat /\ Cardinality(Billable(m)') <= Cardinality(Billable(m))
  BY <1>3, FS_Subset, FS_CardinalityType
<1>5. crowd \in Nat /\ spent[m] \in Nat /\ Limit \in Nat
  BY SpendAssumption, LimitIs DEF SpendTypeOK
<1>6. MaxCost \in Nat
  BY <1>1, BillableFinite, MaxCostIs
<1>7. /\ Cardinality(Billable(m)') * MaxCost <= Cardinality(Billable(m)) * MaxCost
      /\ crowd * MaxCost <= crowd' * MaxCost
  BY <1>3, <1>4, <1>5, <1>6, Worth
<1>8. /\ Cardinality(Billable(m)') * MaxCost \in Nat /\ Cardinality(Billable(m)) * MaxCost \in Nat
      /\ crowd * MaxCost \in Nat /\ crowd' * MaxCost \in Nat
  BY <1>3, <1>4, <1>5, <1>6, Worth
<1> QED
  BY <1>2, <1>5, <1>7, <1>8

\* A charge is recorded in month m.
LEMMA BoundRecorded ==
  ASSUME SpendTypeOK, NEW m \in Month, WithinBound(m), NEW c \in Billable(m),
         spent'[m] = spent[m] + Cost[c], Billable(m)' \subseteq Billable(m) \ {c},
         crowd' \in Nat, crowd' >= crowd
  PROVE  WithinBound(m)'
<1> DEFINE B == Billable(m)
           C == Billable(m)'
<1>1. spent[m] + Cardinality(B) * MaxCost < Limit + crowd * MaxCost
  BY DEF WithinBound
<1>2. IsFiniteSet(B) /\ Cardinality(B) \in Nat /\ c \in Charge
  BY BillableFinite
<1>3. IsFiniteSet(B \ {c}) /\ Cardinality(B \ {c}) = Cardinality(B) - 1
  BY <1>2, FS_RemoveElement
<1>4. Cardinality(B \ {c}) \in Nat
  BY <1>3, FS_CardinalityType
<1>5. Cardinality(C) \in Nat /\ Cardinality(C) <= Cardinality(B \ {c})
  BY <1>3, FS_Subset, FS_CardinalityType
<1>6. crowd \in Nat /\ spent[m] \in Nat /\ Limit \in Nat /\ Cost[c] \in Nat
  BY <1>2, SpendAssumption, LimitIs DEF SpendTypeOK
<1>7. MaxCost \in Nat /\ Cost[c] <= MaxCost
  BY <1>2, MaxCostIs
<1> HIDE DEF B, C
<1>8. /\ Cardinality(C) * MaxCost <= Cardinality(B \ {c}) * MaxCost
      /\ crowd * MaxCost <= crowd' * MaxCost
  BY <1>4, <1>5, <1>6, <1>7, Worth
<1>9. Cardinality(B) * MaxCost = Cardinality(B \ {c}) * MaxCost + MaxCost
  <2>1. Cardinality(B) = Cardinality(B \ {c}) + 1
    BY <1>2, <1>3
  <2> QED
    BY <2>1, <1>4, <1>7, Worth
<1>10. /\ Cardinality(C) * MaxCost \in Nat /\ Cardinality(B \ {c}) * MaxCost \in Nat
       /\ crowd * MaxCost \in Nat /\ crowd' * MaxCost \in Nat
  BY <1>4, <1>5, <1>6, <1>7, Worth
<1>11. spent'[m] + Cardinality(C) * MaxCost < Limit + crowd' * MaxCost
  BY <1>1, <1>6, <1>7, <1>8, <1>9, <1>10
<1> QED
  BY <1>11 DEF WithinBound, C

\* A month that has not reached the cap is bounded by the crowd alone.
LEMMA BoundBelowCap ==
  ASSUME SpendTypeOK, NEW m \in Month, spent'[m] = spent[m], spent[m] < Limit,
         Charge # {}, Crowded', crowd' \in Nat
  PROVE  WithinBound(m)'
<1>1. Cardinality(Billable(m)') \in Nat /\ Cardinality(Billable(m)') <= crowd'
  <2>1. IsFiniteSet(Outstanding') /\ Cardinality(Outstanding') \in Nat
    BY OutstandingFinite, FS_CardinalityType
  <2>2. Cardinality(Billable(m)') \in Nat /\ Cardinality(Billable(m)') <= Cardinality(Outstanding')
    BY <2>1, BillableFinitePrime, FS_Subset
  <2> QED
    BY <2>1, <2>2 DEF Crowded
<1>2. MaxCost \in Nat /\ spent[m] \in Nat /\ Limit \in Nat
  BY MaxCostIs, SpendAssumption, LimitIs DEF SpendTypeOK
<1>3. Cardinality(Billable(m)') * MaxCost <= crowd' * MaxCost
  BY <1>1, <1>2, Worth
<1>4. Cardinality(Billable(m)') * MaxCost \in Nat /\ crowd' * MaxCost \in Nat
  BY <1>1, <1>2, Worth
<1> QED
  BY <1>2, <1>3, <1>4 DEF WithinBound

LEMMA BoundInit == SpendInit => BoundInv
<1> SUFFICES ASSUME SpendInit PROVE BoundInv
  OBVIOUS
<1>1. Outstanding = {} /\ \A m \in Month : Billable(m) = {} /\ spent[m] = 0
  <2>1. \A c \in Charge : pc[c] = "idle"
    BY DEF SpendInit
  <2>2. \A j \in Job : pc[j] = "idle" /\ Parent[j] \in Charge
    BY <2>1, SpendAssumption DEF Charge
  <2> QED
    BY <2>1, <2>2 DEF SpendInit, Outstanding, Billable, Ending, Going
<1>2. Crowded
  BY <1>1, FS_EmptySet DEF Crowded, SpendInit
<1>3. Elapsed
  BY <1>1 DEF Elapsed, SpendInit, Zero
<1>4. \A m \in Month : WithinBound(m)
  BY <1>1 DEF WithinBound
<1>5. \A m \in Month : spent[m] > 0 => Charge # {}
  BY <1>1
<1> QED
  BY <1>2, <1>3, <1>4, <1>5, ExactInit DEF BoundInv, Bounds

\* A step that records nothing.
LEMMA BoundQuiet ==
  ASSUME BoundInv, spent' = spent, raced' = raced, happened' = {} => happened = {},
         crowd' \in Nat, crowd' >= crowd,
         \A m \in Month : Billable(m)' \subseteq Billable(m)
  PROVE  Bounds'
<1>1. SpendTypeOK
  BY DEF BoundInv, ExactInv, SpendInv
<1> SUFFICES ASSUME Fair', NEW m \in Month PROVE WithinBound(m)'
  BY DEF Bounds, Month
<1>2. Fair
  BY Zenon DEF Fair
<1>3. WithinBound(m) /\ (spent[m] > 0 => Charge # {})
  BY <1>2 DEF BoundInv, Bounds
<1> QED
  BY <1>1, <1>3, BoundKept

\* A step that records charge c.
LEMMA BoundSpent ==
  ASSUME BoundInv, Fair, NEW c \in Charge, pc[c] \in {"incrementing", "resetting"}, Spend(c),
         crowd' \in Nat, crowd' >= crowd,
         \A m \in Month : Billable(m)' \subseteq Billable(m) \ {c}
  PROVE  \A m \in Month : WithinBound(m)'
<1>1. SpendTypeOK /\ SpendInv /\ Billed
  BY DEF BoundInv, ExactInv, SpendInv
<1> TAKE m \in Month
<1>2. WithinBound(m) /\ (spent[m] > 0 => Charge # {})
  BY DEF BoundInv, Bounds
<1>3. spent \in [Month -> Nat]
  BY <1>1 DEF SpendTypeOK
<1>4. CASE m = billed[c]
  <2>1. c \in Billable(m)
    BY <1>4 DEF Billable, Ending
  <2>2. spent'[m] = spent[m] + Cost[c]
    BY <1>1, <1>4, SpendGrows
  <2> QED
    BY <1>1, <1>2, <2>1, <2>2, BoundRecorded
<1>5. CASE m # billed[c]
  <2>1. spent'[m] = spent[m]
    BY <1>3, <1>5 DEF Spend
  <2>2. Billable(m)' \subseteq Billable(m)
    OBVIOUS
  <2> QED
    BY <1>1, <1>2, <2>1, <2>2, BoundKept
<1> QED
  BY <1>4, <1>5

\* What every step keeps beside the bound.
Besides == Elapsed /\ Crowded /\ Bounds /\ \A m \in Month : spent[m] > 0 => Charge # {}

LEMMA BoundCheckBudget ==
  ASSUME BoundInv, NEW c \in Invocation, CheckBudget(c)
  PROVE  Besides'
<1>1. SpendTypeOK /\ ExactInv /\ Elapsed
  BY DEF BoundInv, ExactInv, SpendInv
<1>2. c \in Charge /\ c \notin Job /\ pc[c] = "idle"
  BY SpendAssumption DEF Charge, CheckBudget
<1>3. /\ month' = month /\ counter' = counter /\ spent' = spent /\ raced' = raced
      /\ \A d \in Charge : d # c => pc'[d] = pc[d] /\ billed'[d] = billed[d]
      /\ pc'[c] \in {"running", "blocked"}
  BY <1>1, <1>2 DEF CheckBudget, Goto, SpendTypeOK
<1>4. Crowded' /\ crowd' >= crowd /\ crowd' \in Nat
  BY <1>1, CrowdKept DEF CheckBudget, SpendTypeOK
<1>5. Elapsed'
  BY <1>1, <1>3 DEF Elapsed
<1>6. happened' = {} => happened = {} /\ UNCHANGED faultVars
  <2>1. Fault("old") \/ Fault("read") => happened' # {}
    BY NoFaultBefore
  <2> QED
    BY <2>1 DEF CheckBudget, faultVars
<1>7. \A m \in Month : Ending(m)' \subseteq Ending(m)
  BY <1>3 DEF Ending
<1>8. Bounds'
  <2>1. CASE pc'[c] = "blocked"
    <3>1. Going' \subseteq Going
      <4>1. \A j \in Job : j \in Charge /\ j # c /\ Parent[j] \in Charge
        BY <1>2, SpendAssumption DEF Charge
      <4> QED
        BY <1>2, <1>3, <2>1, <4>1 DEF Going
    <3>2. \A m \in Month : Billable(m)' \subseteq Billable(m)
      BY <1>3, <1>7, <3>1 DEF Billable
    <3> QED
      BY <1>3, <1>4, <1>6, <3>2, BoundQuiet
  <2>2. CASE pc'[c] = "running"
    <3> SUFFICES ASSUME Fair', NEW m \in Month PROVE WithinBound(m)'
      BY DEF Bounds, Month
    <3>1. Fair /\ UNCHANGED faultVars
      BY <1>3, <1>6, Zenon DEF Fair
    <3>2. Allowed(counter)
      <4>1. ~ Fault("old") /\ ~ Fault("read")
        <5>1. happened' = {}
          BY Zenon DEF Fair
        <5> QED
          BY <5>1, NoFaultBefore
      <4>2. Goto(c, IF Allowed(counter) THEN "running" ELSE "blocked")
        BY <4>1 DEF CheckBudget
      <4> QED
        BY <1>1, <1>2, <2>2, <4>2 DEF Goto, SpendTypeOK
    <3>3. Tallied
      BY <1>1, <3>1 DEF ExactInv, Fair
    <3>4. month \in Month /\ counter \in Counter /\ Cap \in Nat /\ spent \in [Month -> Nat]
      BY <1>1, SpendAssumption DEF SpendTypeOK
    <3>5. counter.month # month \/ counter.cents < Limit
      BY <3>2, <3>4 DEF Allowed, Limit, Counter
    <3>a. Limit \in Nat \ {0}
      BY LimitIs
    <3>6. CASE m < month
      <4>1. Billable(m)' \subseteq Billable(m)
        BY <1>3, <1>7, <3>4, <3>6 DEF Billable, Month
      <4>2. WithinBound(m) /\ (spent[m] > 0 => Charge # {})
        BY <3>1 DEF BoundInv, Bounds
      <4> QED
        BY <1>1, <1>3, <1>4, <4>1, <4>2, BoundKept
    <3>7. CASE m >= month
      <4>1. spent[m] < Limit
        <5>1. CASE m > month
          BY <1>1, <3>4, <3>a, <5>1 DEF Elapsed, Counter
        <5>2. CASE m = month /\ counter.month = m
          BY <3>3, <3>4, <3>5, <5>2 DEF Tallied, Month
        <5>3. CASE m = month /\ counter.month # m
          <6>1. m > counter.month
            BY <1>1, <3>4, <5>3 DEF Elapsed, Counter, Month
          <6> QED
            BY <3>3, <3>a, <3>4, <5>3, <6>1 DEF Tallied
        <5> QED
          BY <3>4, <3>7, <5>1, <5>2, <5>3 DEF Month
      <4> QED
        BY <1>1, <1>2, <1>3, <1>4, <4>1, BoundBelowCap
    <3> QED
      BY <3>4, <3>6, <3>7 DEF Month
  <2> QED
    BY <1>3, <2>1, <2>2
<1> QED
  BY <1>2, <1>4, <1>5, <1>8 DEF Besides

LEMMA BoundStartJob ==
  ASSUME BoundInv, NEW j \in Job, StartJob(j)
  PROVE  Besides'
<1>1. SpendTypeOK /\ Elapsed
  BY DEF BoundInv, ExactInv, SpendInv
<1>2. j \in Charge /\ \A i \in Job : i \in Charge /\ Parent[i] \in Charge /\ Parent[i] # j
  BY SpendAssumption DEF Charge
<1>3. /\ month' = month /\ counter' = counter /\ spent' = spent /\ raced' = raced
      /\ billed' = billed /\ happened' = happened
      /\ pc[j] = "idle" /\ pc[Parent[j]] = "running" /\ pc'[j] = "running"
      /\ \A d \in Charge : d # j => pc'[d] = pc[d]
  BY <1>1, <1>2 DEF StartJob, Goto, SpendTypeOK, faultVars
<1>4. Crowded' /\ crowd' >= crowd /\ crowd' \in Nat
  BY <1>1, CrowdKept DEF StartJob, SpendTypeOK
<1>5. Elapsed'
  BY <1>1, <1>3 DEF Elapsed
<1>6. \A m \in Month : Billable(m)' \subseteq Billable(m)
  <2>1. Going' \subseteq Going
    BY <1>2, <1>3 DEF Going
  <2>2. \A m \in Month : Ending(m)' \subseteq Ending(m)
    BY <1>3 DEF Ending
  <2> QED
    BY <1>3, <2>1, <2>2 DEF Billable
<1>7. Bounds'
  BY <1>3, <1>4, <1>6, BoundQuiet
<1> QED
  BY <1>2, <1>4, <1>5, <1>7 DEF Besides

LEMMA BoundFinish ==
  ASSUME BoundInv, NEW c \in Charge, Finish(c)
  PROVE  Besides'
<1>1. SpendTypeOK /\ Elapsed
  BY DEF BoundInv, ExactInv, SpendInv
<1>2. \A i \in Job : i \in Charge /\ Parent[i] \in Charge
  BY SpendAssumption DEF Charge
<1>3. /\ month' = month /\ counter' = counter /\ spent' = spent /\ raced' = raced
      /\ happened' = happened /\ month \in Month
      /\ pc[c] = "running"
      /\ pc'[c] = "failed" \/ (pc'[c] = "incrementing" /\ billed'[c] = month)
      /\ \A d \in Charge : d # c => pc'[d] = pc[d] /\ billed'[d] = billed[d]
  BY <1>1 DEF Finish, Goto, SpendTypeOK, faultVars
<1>4. Crowded' /\ crowd' >= crowd /\ crowd' \in Nat
  BY <1>1, CrowdKept DEF Finish, SpendTypeOK
<1>5. Elapsed'
  BY <1>1, <1>3 DEF Elapsed, Month
<1>6. \A m \in Month : Billable(m)' \subseteq Billable(m)
  <2>1. Going' \subseteq Going /\ c \in Going
    BY <1>2, <1>3 DEF Going
  <2>2. \A m \in Month : m # month => Ending(m)' \subseteq Ending(m)
    BY <1>3 DEF Ending
  <2>3. Ending(month)' \subseteq Ending(month) \cup {c}
    BY <1>3 DEF Ending
  <2> TAKE m \in Month
  <2>4. CASE m = month
    BY <1>3, <2>1, <2>3, <2>4 DEF Billable, Month
  <2>5. CASE m # month
    BY <1>3, <2>1, <2>2, <2>5 DEF Billable
  <2> QED
    BY <2>4, <2>5
<1>7. Bounds'
  BY <1>3, <1>4, <1>6, BoundQuiet
<1> QED
  BY <1>4, <1>5, <1>7 DEF Besides

\* A charge that is recorded is no longer billable.
LEMMA BillableRecorded ==
  ASSUME SpendTypeOK, NEW c \in Charge, pc[c] \in {"incrementing", "resetting"},
         UNCHANGED <<month, billed>>, Goto(c, "done"), NEW m \in Month
  PROVE  Billable(m)' \subseteq Billable(m) \ {c}
<1>1. \A d \in Charge : pc'[d] = IF d = c THEN "done" ELSE pc[d]
  BY DEF Goto, SpendTypeOK
<1>2. \A i \in Job : i \in Charge /\ Parent[i] \in Charge
  BY SpendAssumption DEF Charge
<1>3. Going' \subseteq Going \ {c}
  BY <1>1, <1>2 DEF Going
<1>4. Ending(m)' \subseteq Ending(m) \ {c}
  BY <1>1 DEF Ending
<1> QED
  BY <1>3, <1>4 DEF Billable

\* An increment that failed is as billable as before.
LEMMA BillableFailed ==
  ASSUME SpendTypeOK, NEW c \in Charge, pc[c] = "incrementing",
         UNCHANGED <<month, billed>>, Goto(c, "resetting"), NEW m \in Month
  PROVE  Billable(m)' \subseteq Billable(m)
<1>1. \A d \in Charge : pc'[d] = IF d = c THEN "resetting" ELSE pc[d]
  BY DEF Goto, SpendTypeOK
<1>2. \A i \in Job : i \in Charge /\ Parent[i] \in Charge
  BY SpendAssumption DEF Charge
<1>3. Going' \subseteq Going
  BY <1>1, <1>2 DEF Going
<1>4. Ending(m)' \subseteq Ending(m)
  BY <1>1 DEF Ending
<1> QED
  BY <1>3, <1>4 DEF Billable

\* Recording touches no month that has not begun.
LEMMA ElapsedSpent ==
  ASSUME BoundInv, NEW c \in Charge, pc[c] \in {"incrementing", "resetting"}, Spend(c),
         UNCHANGED <<month, billed>>, Goto(c, "done"),
         counter' = counter \/ counter'.month = billed[c]
  PROVE  Elapsed'
<1>1. SpendTypeOK /\ Elapsed
  BY DEF BoundInv, ExactInv, SpendInv
<1>2. spent \in [Month -> Nat] /\ billed[c] <= month /\ month \in Month /\ billed[c] \in 0 .. Months
  BY <1>1 DEF SpendTypeOK, Elapsed
<1>3. \A d \in Charge : pc'[d] \in {"incrementing", "resetting"} => pc'[d] = pc[d]
  BY <1>1 DEF Goto, SpendTypeOK
<1>4. \A m \in Month : m > month => spent'[m] = spent[m]
  BY <1>2 DEF Spend, Month
<1> QED
  BY <1>1, <1>2, <1>3, <1>4 DEF Elapsed

LEMMA BoundIncrement ==
  ASSUME BoundInv, NEW c \in Charge, Increment(c)
  PROVE  Besides'
<1>1. SpendTypeOK /\ Elapsed
  BY DEF BoundInv, ExactInv, SpendInv
<1>2. pc[c] = "incrementing" /\ UNCHANGED <<month, billed>> /\ raced' = raced
  BY DEF Increment
<1>3. Crowded' /\ crowd' >= crowd /\ crowd' \in Nat
  BY <1>1, CrowdKept DEF Increment, SpendTypeOK
<1>4. CASE Spend(c) /\ Goto(c, "done")
  <2>1. counter' = counter \/ counter'.month = billed[c]
    BY <1>4 DEF Increment, Store, Add, AddAgain
  <2>2. Elapsed'
    BY <1>2, <1>4, <2>1, ElapsedSpent
  <2>3. Bounds'
    <3> SUFFICES ASSUME Fair' PROVE \A m \in Month : WithinBound(m)'
      BY DEF Bounds, Month
    <3>1. happened' = {} /\ ~raced'
      BY Zenon DEF Fair
    <3>2. ~Fault("again") /\ ~Fault("write")
      BY <3>1, NoFaultBefore
    <3>3. happened = {}
      BY <3>1, <3>2 DEF Increment, faultVars
    <3>4. Fair
      BY <1>2, <3>1, <3>3, Zenon DEF Fair
    <3>5. \A m \in Month : Billable(m)' \subseteq Billable(m) \ {c}
      BY <1>1, <1>2, <1>4, BillableRecorded
    <3> QED
      BY <1>2, <1>3, <1>4, <3>4, <3>5, BoundSpent
  <2> QED
    BY <1>3, <2>2, <2>3 DEF Besides
<1>5. CASE Goto(c, "resetting") /\ UNCHANGED <<counter, before, spent, faultVars>>
  <2>1. Elapsed'
    BY <1>1, <1>2, <1>5 DEF Elapsed, Goto, SpendTypeOK
  <2>2. \A m \in Month : Billable(m)' \subseteq Billable(m)
    BY <1>1, <1>2, <1>5, BillableFailed
  <2>3. Bounds'
    BY <1>2, <1>3, <1>5, <2>2, BoundQuiet DEF faultVars
  <2> QED
    BY <1>3, <2>1, <2>3 DEF Besides
<1> QED
  BY <1>4, <1>5 DEF Increment

LEMMA BoundReset ==
  ASSUME BoundInv, NEW c \in Charge, Reset(c)
  PROVE  Besides'
<1>1. SpendTypeOK /\ Elapsed
  BY DEF BoundInv, ExactInv, SpendInv
<1>2. pc[c] = "resetting" /\ UNCHANGED <<month, billed>> /\ Spend(c) /\ Goto(c, "done")
  BY DEF Reset
<1>3. Crowded' /\ crowd' >= crowd /\ crowd' \in Nat
  BY <1>1, CrowdKept DEF Reset, SpendTypeOK
<1>4. counter' = counter \/ counter'.month = billed[c]
  BY DEF Reset, Store
<1>5. Elapsed'
  BY <1>2, <1>4, ElapsedSpent
<1>6. Bounds'
  <2> SUFFICES ASSUME Fair' PROVE \A m \in Month : WithinBound(m)'
    BY DEF Bounds, Month
  <2>1. happened' = {} /\ ~raced'
    BY Zenon DEF Fair
  <2>2. ~Fault("write")
    BY <2>1, NoFaultBefore
  <2>3. happened = {}
    BY <2>1, <2>2 DEF Reset, faultVars
  <2>4. raced' = (raced \/ counter # failed[c] \/ counter.month > billed[c])
    BY <2>2 DEF Reset
  <2>5. Fair
    BY <2>1, <2>3, <2>4, Zenon DEF Fair
  <2>6. \A m \in Month : Billable(m)' \subseteq Billable(m) \ {c}
    BY <1>1, <1>2, BillableRecorded
  <2> QED
    BY <1>2, <1>3, <2>5, <2>6, BoundSpent
<1> QED
  BY <1>3, <1>5, <1>6 DEF Besides

LEMMA BoundNextMonth == ASSUME BoundInv, NextMonth PROVE Besides'
<1>1. SpendTypeOK /\ Elapsed /\ Crowded
  BY DEF BoundInv, ExactInv, SpendInv
<1>2. /\ month' = month + 1
      /\ UNCHANGED <<counter, pc, billed, spent, crowd, raced, happened>>
  BY DEF NextMonth, faultVars
<1>3. month \in Nat /\ counter \in Counter /\ crowd \in Nat /\ billed \in [Charge -> 0 .. Months]
  BY <1>1 DEF SpendTypeOK, Month
<1>4. Elapsed'
  <2>1. \A m \in Month : m > month + 1 => m > month
    BY <1>3 DEF Month
  <2>2. \A n \in Nat : n <= month => n <= month + 1
    BY <1>3
  <2> QED
    BY <1>1, <1>2, <1>3, <2>1, <2>2 DEF Elapsed, Counter
<1>5. Crowded'
  BY <1>1, <1>2 DEF Crowded, Outstanding
<1>6. \A m \in Month : Billable(m)' \subseteq Billable(m)
  BY <1>2, <1>3 DEF Billable, Ending, Going, Month
<1>7. Bounds'
  BY <1>2, <1>3, <1>6, BoundQuiet
<1>8. \A m \in Month : spent'[m] > 0 => Charge # {}
  BY <1>2 DEF BoundInv
<1> QED
  BY <1>4, <1>5, <1>7, <1>8 DEF Besides

LEMMA BoundStep == BoundInv /\ [SpendNext]_svars => BoundInv'
<1> SUFFICES ASSUME BoundInv, [SpendNext]_svars PROVE Besides'
  BY ExactStep DEF BoundInv, Besides
<1>1. ASSUME NEW c \in Invocation, CheckBudget(c) PROVE Besides'
  BY <1>1, BoundCheckBudget
<1>2. ASSUME NEW j \in Job, StartJob(j) PROVE Besides'
  BY <1>2, BoundStartJob
<1>3. ASSUME NEW c \in Charge, Finish(c) PROVE Besides'
  BY <1>3, BoundFinish
<1>4. ASSUME NEW c \in Charge, Increment(c) PROVE Besides'
  BY <1>4, BoundIncrement
<1>5. ASSUME NEW c \in Charge, Reset(c) PROVE Besides'
  BY <1>5, BoundReset
<1>6. CASE NextMonth
  BY <1>6, BoundNextMonth
<1>7. CASE UNCHANGED svars
  BY <1>7 DEF BoundInv, Besides, Elapsed, Crowded, Outstanding, Bounds, Fair, WithinBound,
              Billable, Ending, Going, svars, faultVars
<1> QED
  BY <1>1, <1>2, <1>3, <1>4, <1>5, <1>6, <1>7 DEF SpendNext

\* The spend of a month goes over the cap (check_budget) by less than what the
\* charges that were outstanding together can cost, for any charges, costs and cap,
\* as long as no read of the counter failed or missed the last write, no update
\* failed or was sent again, and no reset overwrote another recorder's update.
THEOREM OverspendIsBounded == SpendSpec => []OverspendBounded
<1>1. SpendSpec => []BoundInv
  BY BoundInit, BoundStep, PTL DEF SpendSpec
<1>2. BoundInv => OverspendBounded
  <2> SUFFICES ASSUME BoundInv, Fair, NEW m \in Month, spent[m] > 0
               PROVE  spent[m] < Limit + crowd * MaxCost
    BY Zenon DEF OverspendBounded, Fair
  <2>1. spent[m] + Cardinality(Billable(m)) * MaxCost < Limit + crowd * MaxCost
    BY DEF BoundInv, Bounds, WithinBound
  <2>2. spent[m] \in Nat /\ Limit \in Nat /\ crowd \in Nat /\ Cardinality(Billable(m)) \in Nat
    BY BillableFinite, SpendAssumption, LimitIs DEF BoundInv, ExactInv, SpendInv, SpendTypeOK
  <2>3. MaxCost \in Nat
    BY MaxCostIs DEF BoundInv
  <2>4. Cardinality(Billable(m)) * MaxCost \in Nat /\ crowd * MaxCost \in Nat
    BY <2>2, <2>3, Worth
  <2> QED
    BY <2>1, <2>2, <2>4
<1> QED
  BY <1>1, <1>2, PTL

-----------------------------------------------------------------------------
(***************************************************************************)
(* The buckets.  What a source was let through since any time, and what it *)
(* could still take, came from one full bucket and what has flowed in.     *)
(***************************************************************************)

\* What source s could take from worker w's bucket now: a source that was
\* forgotten gets a full one.
Potential(w, s) == IF bucket[w][s] = None THEN Full ELSE Available(bucket[w][s])

\* The reads worker w is making.
Reading(w) == {r \in Request : req[r].at = "reading" /\ req[r].worker = w}

\* Slots that are not free are held by a read.
SlotsCounted ==
  \A w \in Worker :
    IsFiniteSet(Reading(w)) /\ free[w] + Cardinality(Reading(w)) = Slots

\* What is read was asked for by an address that was given.
Asked ==
  \A r \in Request :
    /\ req[r].at = "reading" => req[r].worker \in Worker /\ req[r].board \in given
    /\ req[r].seen # None => req[r].board \in given

\* An address that was given has its record until the deadline.
Linked ==
  \A d \in given : board[d] \in Int /\ (board[d] > now => d \in stored)

\* Buckets are dated in the past, and nothing is admitted in the future.
Dated ==
  \A w \in Worker, s \in Source :
    /\ bucket[w][s] # None => bucket[w][s].at <= now
    /\ \A t \in Times : t >= now => log[w][s][t] = log[w][s][now]

\* What was admitted since a time and what may still be admitted now came from
\* one full bucket and what flowed in since.
Accounted ==
  \A w \in Worker, s \in Source : \A t \in 0 .. now :
    Admitted(w, s, t, now) * Period + Potential(w, s) <= Full + (now - t) * Capacity

\* When the wait it was told is over, a source's bucket will hold a token.
Promised ==
  \A w \in Worker, s \in Source :
    told[w][s] # None /\ bucket[w][s] # None
      => bucket[w][s].tokens + (told[w][s] - bucket[w][s].at) * Capacity >= OneToken

DashboardsInv ==
  /\ DashboardsTypeOK
  /\ SlotsCounted
  /\ Asked
  /\ Linked
  /\ Dated
  /\ Accounted
  /\ Promised
  /\ RateBounded
  /\ LinkHonest

-----------------------------------------------------------------------------
LEMMA MinTwo ==
  ASSUME NEW a \in Int, NEW b \in Int
  PROVE  Min({a, b}) = IF a <= b THEN a ELSE b
<1> DEFINE P(x) == x \in {a, b} /\ \A y \in {a, b} : x <= y
<1>1. \E x : P(x)
  <2>1. a <= b \/ b <= a
    OBVIOUS
  <2> QED BY <2>1
<1>2. P(CHOOSE x : P(x))
  BY <1>1, Zenon
<1>3. Min({a, b}) = CHOOSE x : P(x)
  BY DEF Min
<1> QED BY <1>2, <1>3

LEMMA MaxTwo ==
  ASSUME NEW a \in Int, NEW b \in Int
  PROVE  Max({a, b}) = IF a >= b THEN a ELSE b
<1> DEFINE P(x) == x \in {a, b} /\ \A y \in {a, b} : x >= y
<1>1. \E x : P(x)
  <2>1. a >= b \/ b >= a
    OBVIOUS
  <2> QED BY <2>1
<1>2. P(CHOOSE x : P(x))
  BY <1>1, Zenon
<1>3. Max({a, b}) = CHOOSE x : P(x)
  BY DEF Max
<1> QED BY <1>2, <1>3

\* Rounding up loses nothing.
LEMMA RoundedUp ==
  ASSUME NEW x \in Int, NEW c \in Nat \ {0}
  PROVE  (x + c - 1) \div c \in Int /\ ((x + c - 1) \div c) * c >= x
  BY SMT

\* Capacity and Period are positive; a full bucket holds at least a token.
LEMMA Measures ==
  /\ Capacity \in Nat \ {0} /\ Period \in Nat \ {0} /\ Slots \in Nat /\ Lifetime \in Nat
  /\ MaxTime \in Nat /\ Times \subseteq Nat /\ None \notin Int
  /\ Full \in Nat /\ OneToken \in Nat /\ Full >= OneToken /\ OneToken = Period
  /\ \A n \in 0 .. Full : n \in Nat
  /\ \A m, n \in Int : [tokens |-> m, at |-> n] # None
<1>1. /\ Capacity \in Nat \ {0} /\ Period \in Nat \ {0} /\ Slots \in Nat /\ Lifetime \in Nat
      /\ MaxTime \in Nat /\ Times \subseteq Nat /\ None \notin Int
  BY DashboardsAssumption DEF Times
<1>3. \A m, n \in Int : [tokens |-> m, at |-> n] # None
  BY DashboardsAssumption
<1>2. \A c, p \in Nat : c # 0 => c * p \in Nat /\ c * p >= p
  BY SMT
<1> QED
  BY <1>1, <1>2, <1>3 DEF Full, OneToken

LEMMA AvailableIs ==
  ASSUME NEW b \in [tokens : 0 .. Full, at : Times], b.at <= now, now \in Times
  PROVE  /\ Available(b) \in 0 .. Full
         /\ b.tokens + (now - b.at) * Capacity \in Nat
         /\ Available(b) = IF Full <= b.tokens + (now - b.at) * Capacity THEN Full
                           ELSE b.tokens + (now - b.at) * Capacity
<1>1. \A n \in Nat : n * Capacity \in Nat
  BY Measures
<1>2. (now - b.at) * Capacity \in Nat /\ b.tokens \in Nat
  <2>1. b.at \in Times /\ b.tokens \in 0 .. Full
    OBVIOUS
  <2>2. b.at \in Nat /\ now \in Nat /\ b.tokens \in Nat
    BY <2>1, Measures
  <2>3. now - b.at \in Nat
    BY <2>2
  <2> QED
    BY <1>1, <2>2, <2>3
<1>3. b.tokens + (now - b.at) * Capacity \in Nat
  BY <1>2
<1>4. Available(b) = IF Full <= b.tokens + (now - b.at) * Capacity THEN Full
                           ELSE b.tokens + (now - b.at) * Capacity
  BY <1>3, MinTwo, Measures DEF Available
<1> QED
  BY <1>3, <1>4, Measures

LEMMA PotentialTyped ==
  ASSUME DashboardsInv, NEW w \in Worker, NEW s \in Source
  PROVE  Potential(w, s) \in 0 .. Full
<1>1. CASE bucket[w][s] = None
  BY <1>1, Measures DEF Potential
<1>2. CASE bucket[w][s] # None
  <2>1. bucket[w][s] \in [tokens : 0 .. Full, at : Times] /\ bucket[w][s].at <= now
    BY <1>2 DEF DashboardsInv, DashboardsTypeOK, Dated
  <2> QED
    BY <1>2, <2>1, AvailableIs DEF Potential, DashboardsInv, DashboardsTypeOK
<1> QED
  BY <1>1, <1>2

\* The wait is long enough for a token to flow in.
LEMMA WaitSuffices ==
  ASSUME NEW have \in 0 .. Full
  PROVE  Wait(have) \in Nat /\ have + Wait(have) * Capacity >= OneToken
<1> DEFINE n == (OneToken - have + Capacity - 1) \div Capacity
<1>1. n \in Int /\ n * Capacity >= OneToken - have
  <2>1. OneToken - have \in Int
    BY Measures
  <2> QED
    BY <2>1, RoundedUp, Measures
<1>2. Wait(have) = IF 1 >= n THEN 1 ELSE n
  BY <1>1, MaxTwo DEF Wait
<1>3. \A a, b \in Int : a >= b => a * Capacity >= b * Capacity
  BY Measures
<1>4. Wait(have) \in Nat /\ Wait(have) >= n
  BY <1>1, <1>2
<1>5. Wait(have) * Capacity >= n * Capacity
  BY <1>1, <1>3, <1>4
<1>6. Wait(have) * Capacity \in Int /\ n * Capacity \in Int
  BY <1>1, <1>4, Measures
<1> HIDE DEF n
<1> QED
  BY <1>1, <1>4, <1>5, <1>6, Measures

-----------------------------------------------------------------------------
\* What the limiter does to the bucket, the log and the promise of source q
\* when source s is asked about.
Forgotten(w, q) == bucket[w][q] # None /\ Stale(bucket[w][q]) /\ bucket'[w][q] = None
Untouched(w, q) == bucket'[w][q] = bucket[w][q] \/ Forgotten(w, q)

OthersUntouched(w, s) ==
  \A v \in Worker, q \in Source : <<v, q>> # <<w, s>> =>
    Untouched(v, q) /\ log'[v][q] = log[v][q] /\ told'[v][q] = told[v][q]

LEMMA LimitedEffect ==
  ASSUME DashboardsInv, NEW w \in Worker, NEW s \in Source, NEW admitted \in BOOLEAN,
         Limited(w, s, admitted)
  PROVE  /\ bucket' \in [Worker -> [Source -> [tokens : 0 .. Full, at : Times] \cup {None}]]
         /\ log' \in [Worker -> [Source -> [Times -> Nat]]]
         /\ told' \in [Worker -> [Source -> Nat \cup {None}]]
         /\ OthersUntouched(w, s)
         /\ \/ /\ bucket[w][s] = None /\ bucket'[w][s] = None /\ ~admitted
               /\ log'[w][s] = log[w][s]
            \/ /\ Potential(w, s) < OneToken /\ ~admitted
               /\ bucket'[w][s] = [tokens |-> Potential(w, s), at |-> now]
               /\ told'[w][s] = now + Wait(Potential(w, s)) /\ log'[w][s] = log[w][s]
            \/ /\ Potential(w, s) >= OneToken /\ admitted
               /\ bucket'[w][s] = [tokens |-> Potential(w, s) - OneToken, at |-> now]
               /\ told'[w][s] = None
               /\ log'[w][s] = [t \in Times |-> log[w][s][t] + IF t >= now THEN 1 ELSE 0]
<1> DEFINE Buckets == [tokens : 0 .. Full, at : Times] \cup {None}
           bs == IF bucket[w][s] = None THEN Pruned(bucket[w]) ELSE bucket[w]
           have == IF bs[s] = None THEN Full ELSE Available(bs[s])
<1>1. /\ bucket \in [Worker -> [Source -> Buckets]] /\ now \in Times
      /\ log \in [Worker -> [Source -> [Times -> Nat]]]
      /\ told \in [Worker -> [Source -> Nat \cup {None}]]
  BY DEF DashboardsInv, DashboardsTypeOK
<1>2. /\ bs \in [Source -> Buckets] /\ bs[s] = bucket[w][s]
      /\ \A q \in Source : bs[q] = bucket[w][q]
                           \/ (bucket[w][q] # None /\ Stale(bucket[w][q]) /\ bs[q] = None)
  <2>1. Pruned(bucket[w]) \in [Source -> Buckets]
    BY <1>1 DEF Pruned
  <2>2. \A q \in Source : Pruned(bucket[w])[q] =
          IF bucket[w][q] # None /\ Stale(bucket[w][q]) THEN None ELSE bucket[w][q]
    BY DEF Pruned
  <2> QED
    BY <1>1, <2>1, <2>2
<1>3. have = Potential(w, s) /\ have \in 0 .. Full /\ have \in Int /\ OneToken \in Nat
  BY <1>2, PotentialTyped, Measures DEF Potential
<1> HIDE DEF bs
<1>4. CASE /\ bs[s] = None /\ ~admitted
           /\ bucket' = [bucket EXCEPT ![w] = bs]
           /\ told' = [told EXCEPT ![w][s] = now + Wait(0)]
           /\ UNCHANGED log
  <2>0. now + Wait(0) \in Nat
    <3>1. 0 \in 0 .. Full
      BY Measures
    <3>2. Wait(0) \in Nat
      BY <3>1, WaitSuffices
    <3>3. now \in Nat
      BY <1>1, Measures
    <3> QED
      BY <3>2, <3>3
  <2>3. /\ told' \in [Worker -> [Source -> Nat \cup {None}]]
        /\ \A v \in Worker, q \in Source : <<v, q>> # <<w, s>> => told'[v][q] = told[v][q]
    BY <1>1, <1>4, <2>0
  <2>1. bucket' \in [Worker -> [Source -> Buckets]]
    BY <1>1, <1>2, <1>4
  <2>2. \A v \in Worker, q \in Source : <<v, q>> # <<w, s>> => Untouched(v, q)
    BY <1>1, <1>2, <1>4 DEF Untouched, Forgotten
  <2> QED
    BY <1>1, <1>2, <1>4, <2>1, <2>2, <2>3 DEF OthersUntouched
<1>5. ASSUME NEW n \in 0 .. Full, bucket' = [bucket EXCEPT ![w] = [bs EXCEPT ![s] = [tokens |-> n, at |-> now]]]
      PROVE  /\ bucket' \in [Worker -> [Source -> Buckets]]
             /\ bucket'[w][s] = [tokens |-> n, at |-> now]
             /\ \A v \in Worker, q \in Source : <<v, q>> # <<w, s>> => Untouched(v, q)
  <2>1. [bs EXCEPT ![s] = [tokens |-> n, at |-> now]] \in [Source -> Buckets]
    BY <1>1, <1>2
  <2>2. bucket' \in [Worker -> [Source -> Buckets]]
    BY <1>1, <1>5, <2>1
  <2>3. bucket'[w][s] = [tokens |-> n, at |-> now]
    BY <1>1, <1>2, <1>5
  <2>4. \A v \in Worker, q \in Source : <<v, q>> # <<w, s>> => Untouched(v, q)
    BY <1>1, <1>2, <1>5 DEF Untouched, Forgotten
  <2> QED
    BY <2>2, <2>3, <2>4
<1>6. CASE /\ have < OneToken /\ ~admitted
           /\ bucket' = [bucket EXCEPT ![w] = [bs EXCEPT ![s] = [tokens |-> have, at |-> now]]]
           /\ told' = [told EXCEPT ![w][s] = now + Wait(have)]
           /\ UNCHANGED log
  <2>1. now + Wait(have) \in Nat
    BY <1>1, <1>3, WaitSuffices, Measures
  <2>2. told' \in [Worker -> [Source -> Nat \cup {None}]] /\ told'[w][s] = now + Wait(have)
    BY <1>1, <1>6, <2>1
  <2>3. \A v \in Worker, q \in Source : <<v, q>> # <<w, s>> => told'[v][q] = told[v][q]
    BY <1>1, <1>6
  <2> QED
    BY <1>1, <1>3, <1>5, <1>6, <2>2, <2>3 DEF OthersUntouched
<1>7. CASE /\ have >= OneToken /\ admitted
           /\ bucket' = [bucket EXCEPT ![w] = [bs EXCEPT ![s] = [tokens |-> have - OneToken, at |-> now]]]
           /\ log' = [log EXCEPT ![w][s] = [t \in Times |-> @[t] + IF t >= now THEN 1 ELSE 0]]
           /\ told' = [told EXCEPT ![w][s] = None]
  <2>1. have - OneToken \in 0 .. Full
    BY <1>3, <1>7, Measures
  <2>2. told' \in [Worker -> [Source -> Nat \cup {None}]] /\ told'[w][s] = None
    BY <1>1, <1>7
  <2>3. \A v \in Worker, q \in Source : <<v, q>> # <<w, s>> =>
          told'[v][q] = told[v][q] /\ log'[v][q] = log[v][q]
    BY <1>1, <1>7
  <2>4. [t \in Times |-> log[w][s][t] + IF t >= now THEN 1 ELSE 0] \in [Times -> Nat]
    BY <1>1
  <2>5. /\ log' \in [Worker -> [Source -> [Times -> Nat]]]
        /\ log'[w][s] = [t \in Times |-> log[w][s][t] + IF t >= now THEN 1 ELSE 0]
    BY <1>1, <1>7, <2>4
  <2> QED
    BY <1>1, <1>3, <1>5, <1>7, <2>1, <2>2, <2>3, <2>5 DEF OthersUntouched
<1> QED
  BY <1>2, <1>4, <1>6, <1>7 DEF Limited, bs

-----------------------------------------------------------------------------
\* Untouched sources keep what they could take.
LEMMA StaleIsFull ==
  ASSUME NEW b \in [tokens : 0 .. Full, at : Times], b.at <= now, now \in Times, Stale(b)
  PROVE  Available(b) = Full
<1>1. b.at \in Times /\ b.tokens \in 0 .. Full
  OBVIOUS
<1>2. b.at \in Nat /\ now \in Nat /\ b.tokens \in Nat
  BY <1>1, Measures
<1>3. \A n \in Nat : n >= Period => n * Capacity >= Full
  BY Measures DEF Full
<1>4. (now - b.at) * Capacity >= Full /\ (now - b.at) * Capacity \in Int
  <2>1. now - b.at \in Nat /\ now - b.at >= Period
    BY <1>2 DEF Stale
  <2> QED
    BY <1>3, <2>1, Measures
<1> QED
  BY <1>2, <1>4, AvailableIs, Measures

\* A token taken now is one more admitted since any time.
LEMMA OneMoreToken ==
  ASSUME NEW n \in Int
  PROVE  (n + 1) * Period = n * Period + OneToken
  BY Measures

\* Steps that leave the requests, the limiter and the clock alone.
LEMMA SlotsKept ==
  ASSUME SlotsCounted, UNCHANGED free,
         \A r \in Request : (req'[r].at = "reading" <=> req[r].at = "reading")
                            /\ (req[r].at = "reading" => req'[r].worker = req[r].worker)
  PROVE  SlotsCounted'
<1>1. \A w \in Worker : Reading(w)' = Reading(w)
  BY DEF Reading
<1> QED
  BY <1>1 DEF SlotsCounted

LEMMA LimiterKept ==
  ASSUME DashboardsInv, UNCHANGED <<now, bucket, log, told>>
  PROVE  Dated' /\ Accounted' /\ Promised' /\ RateBounded'
<1>1. \A w \in Worker, s \in Source : Potential(w, s)' = Potential(w, s)
  BY DEF Potential, Available
<1>2. Accounted'
  BY <1>1 DEF DashboardsInv, Accounted, Admitted
<1> QED
  BY <1>2 DEF DashboardsInv, Dated, Promised, RateBounded, Admitted

LEMMA LinksKept ==
  ASSUME DashboardsInv, UNCHANGED <<now, board, stored, given>>,
         \A r \in Request : req'[r].at = "reading" => req'[r] = req[r],
         \A r \in Request : req'[r].seen # None => req'[r] = req[r]
  PROVE  Asked' /\ Linked' /\ LinkHonest'
<1>1. Asked'
  BY DEF DashboardsInv, Asked
<1>2. LinkHonest'
  BY DEF DashboardsInv, LinkHonest
<1> QED
  BY <1>1, <1>2 DEF DashboardsInv, Linked

-----------------------------------------------------------------------------
LEMMA DashboardsInit_Inv == DashboardsInit => DashboardsInv
<1> SUFFICES ASSUME DashboardsInit PROVE DashboardsInv
  OBVIOUS
<1>0. 0 \in Times /\ 0 \in 0 .. Slots /\ Slots \in 0 .. Slots
  BY Measures DEF Times
<1>1. DashboardsTypeOK
  <2>1. log \in [Worker -> [Source -> [Times -> Nat]]]
    BY DEF DashboardsInit
  <2>2. Idle \in [at : {"idle", "reading", "over"}, worker : Worker \cup {None},
                  board : Board \cup {None}, seen : Times \cup {None}, answer : Answers]
    BY DEF Idle, Answers
  <2> QED
    BY <1>0, <2>1, <2>2 DEF DashboardsInit, DashboardsTypeOK
<1>2. SlotsCounted
  <2>1. \A w \in Worker : Reading(w) = {}
    BY DEF DashboardsInit, Reading, Idle
  <2>2. IsFiniteSet({}) /\ Cardinality({}) = 0
    BY FS_EmptySet
  <2>3. \A w \in Worker : free[w] = Slots /\ free[w] + 0 = Slots
    BY Measures DEF DashboardsInit
  <2> QED
    BY <2>1, <2>2, <2>3 DEF SlotsCounted
<1>3. Asked /\ Linked /\ LinkHonest
  BY DEF DashboardsInit, Asked, Linked, LinkHonest, Idle
<1>4. Dated /\ Promised
  BY <1>0 DEF DashboardsInit, Dated, Promised
<1>5. \A w \in Worker, s \in Source : Potential(w, s) = Full
  BY DEF DashboardsInit, Potential
<1>6. \A w \in Worker, s \in Source : Admitted(w, s, 0, 0) = 0
  BY <1>0 DEF DashboardsInit, Admitted
<1>7. 0 * Period = 0 /\ (0 - 0) * Capacity = 0
  BY Measures
<1>8. Accounted /\ RateBounded
  BY <1>5, <1>6, <1>7, Measures DEF DashboardsInit, Accounted, RateBounded
<1> QED
  BY <1>1, <1>2, <1>3, <1>4, <1>8 DEF DashboardsInv

LEMMA Render_Inv ==
  ASSUME DashboardsInv, NEW d \in Board, Render(d)
  PROVE  DashboardsInv'
<1>1. /\ now \in Nat /\ now + Lifetime \in Int /\ None \notin Int /\ given \subseteq Board
      /\ board \in [Board -> Int \cup {None}]
  BY Measures DEF DashboardsInv, DashboardsTypeOK
<1>2. DashboardsTypeOK'
  BY <1>1 DEF DashboardsInv, DashboardsTypeOK, Render, Put, limiter
<1>3. \A e \in given : board'[e] = board[e] /\ e # d
  <2>1. d \notin given
    BY <1>1 DEF DashboardsInv, Linked, Render
  <2> QED
    BY <1>1, <2>1 DEF Render
<1>4. given \subseteq given'  /\ stored \subseteq stored'
  BY DEF Render, Put
<1>5. Asked'
  BY <1>4 DEF DashboardsInv, Asked, Render
<1>6. Linked'
  <2> SUFFICES ASSUME NEW e \in given'
               PROVE  board'[e] \in Int /\ (board'[e] > now' => e \in stored')
    BY DEF Linked
  <2>1. CASE e \in given
    BY <2>1, <1>3, <1>4 DEF DashboardsInv, Linked, Render
  <2>2. CASE e \notin given
    <3>1. e = d /\ d \in stored'
      BY <2>2 DEF Render, Put
    <3>2. board'[d] = now + Lifetime
      BY <1>1 DEF Render
    <3> QED
      BY <1>1, <3>1, <3>2
  <2> QED
    BY <2>1, <2>2
<1>7. LinkHonest'
  BY <1>3 DEF DashboardsInv, Asked, LinkHonest, Render
<1> QED
  BY <1>2, <1>5, <1>6, <1>7, SlotsKept, LimiterKept DEF DashboardsInv, Render, limiter

LEMMA TimeToLive_Inv ==
  ASSUME DashboardsInv, NEW d \in Board, TimeToLive(d)
  PROVE  DashboardsInv'
<1>1. DashboardsTypeOK'
  BY DEF DashboardsInv, DashboardsTypeOK, TimeToLive, limiter
<1>2. Linked'
  <2> SUFFICES ASSUME NEW e \in given, board[e] > now
               PROVE  e \in stored'
    BY DEF Linked, DashboardsInv, TimeToLive
  <2>1. board[e] \in Int /\ now \in Int /\ e \in stored
    BY Measures DEF DashboardsInv, Linked, DashboardsTypeOK
  <2>2. e # d
    BY <2>1 DEF TimeToLive
  <2> QED
    BY <2>1, <2>2 DEF TimeToLive
<1>3. Asked' /\ LinkHonest'
  BY DEF DashboardsInv, Asked, LinkHonest, TimeToLive
<1> QED
  BY <1>1, <1>2, <1>3, SlotsKept, LimiterKept DEF DashboardsInv, TimeToLive, limiter

-----------------------------------------------------------------------------
\* What the limiter admits is accounted for.
LEMMA Limited_Accounted ==
  ASSUME DashboardsInv, NEW w \in Worker, NEW s \in Source, NEW admitted \in BOOLEAN,
         Limited(w, s, admitted), UNCHANGED now
  PROVE  Dated' /\ Accounted' /\ Promised' /\ RateBounded'
<1>1. /\ bucket \in [Worker -> [Source -> [tokens : 0 .. Full, at : Times] \cup {None}]]
      /\ now \in Times /\ now \in Nat /\ log \in [Worker -> [Source -> [Times -> Nat]]]
      /\ told \in [Worker -> [Source -> Nat \cup {None}]]
  BY Measures DEF DashboardsInv, DashboardsTypeOK
<1>2. \A v \in Worker, q \in Source : Untouched(v, q) => Potential(v, q)' = Potential(v, q)
  <2> SUFFICES ASSUME NEW v \in Worker, NEW q \in Source, Untouched(v, q)
               PROVE  Potential(v, q)' = Potential(v, q)
    OBVIOUS
  <2>1. CASE bucket'[v][q] = bucket[v][q]
    BY <2>1 DEF Potential, Available
  <2>2. CASE Forgotten(v, q)
    <3>1. bucket[v][q] \in [tokens : 0 .. Full, at : Times] /\ bucket[v][q].at <= now
      BY <1>1, <2>2 DEF Forgotten, DashboardsInv, Dated
    <3>2. Available(bucket[v][q]) = Full
      BY <1>1, <2>2, <3>1, StaleIsFull DEF Forgotten
    <3> QED
      BY <2>2, <3>2 DEF Forgotten, Potential
  <2> QED
    BY <2>1, <2>2 DEF Untouched
<1>3. \A v \in Worker, q \in Source : <<v, q>> # <<w, s>> =>
        /\ Potential(v, q)' = Potential(v, q)
        /\ log'[v][q] = log[v][q] /\ told'[v][q] = told[v][q]
        /\ bucket'[v][q] \in {bucket[v][q], None}
  <2>1. \A v \in Worker, q \in Source : <<v, q>> # <<w, s>> =>
          Untouched(v, q) /\ log'[v][q] = log[v][q] /\ told'[v][q] = told[v][q]
    <3>1. OthersUntouched(w, s)
      BY LimitedEffect
    <3> QED
      BY <3>1 DEF OthersUntouched
  <2>2. \A v \in Worker, q \in Source : Untouched(v, q) => bucket'[v][q] \in {bucket[v][q], None}
    BY DEF Untouched, Forgotten
  <2> QED
    BY <1>2, <2>1, <2>2
<1> DEFINE p == Potential(w, s)
<1>4. p \in 0 .. Full /\ p \in Nat /\ Potential(w, s) = p
  BY PotentialTyped, Measures
<1> HIDE DEF p
<1>5. ASSUME NEW n \in 0 .. Full, bucket'[w][s] = [tokens |-> n, at |-> now]
      PROVE  Potential(w, s)' = n /\ bucket'[w][s].at = now /\ bucket'[w][s].tokens = n
  <2> DEFINE b == [tokens |-> n, at |-> now]
  <2>1. b \in [tokens : 0 .. Full, at : Times] /\ b.at = now /\ b.tokens = n
    BY <1>1
  <2>2. b # None
    BY <1>1, Measures
  <2>3. Available(b) = n
    <3>1. (now - now) * Capacity = 0 /\ n \in Nat
      BY <1>1, Measures
    <3>2. Available(b) = IF Full <= n + (now - now) * Capacity THEN Full
                           ELSE n + (now - now) * Capacity
      <4> HIDE DEF b
      <4> QED
        BY <1>1, <2>1, AvailableIs
    <3> QED
      BY <3>1, <3>2, Measures
  <2>4. Available(b)' = Available(b)
    BY DEF Available
  <2> QED
    BY <1>5, <2>1, <2>2, <2>3, <2>4 DEF Potential, Available
<1>0. \A t \in 0 .. now : t # 0 => t - 1 \in Times /\ t - 1 < now
  BY <1>1, Measures DEF Times
<1>6. \A t \in 0 .. now : Admitted(w, s, t, now) \in Int
  <2>1. \A t \in Times : log[w][s][t] \in Nat
    BY <1>1
  <2> QED
    BY <1>0, <1>1, <2>1 DEF Admitted
<1> DEFINE Same == log'[w][s] = log[w][s] /\ Potential(w, s)' = p
           Taken == /\ p >= OneToken /\ Potential(w, s)' = p - OneToken
                    /\ log'[w][s] = [t \in Times |-> log[w][s][t] + IF t >= now THEN 1 ELSE 0]
<1>7. /\ Same \/ Taken
      /\ bucket'[w][s] # None => bucket'[w][s].at <= now
      /\ told'[w][s] # None /\ bucket'[w][s] # None
           => bucket'[w][s].tokens + (told'[w][s] - bucket'[w][s].at) * Capacity >= OneToken
  <2>1. CASE /\ bucket[w][s] = None /\ bucket'[w][s] = None /\ ~admitted
             /\ log'[w][s] = log[w][s]
    BY <1>4, <2>1 DEF Potential
  <2>2. CASE /\ p < OneToken
             /\ bucket'[w][s] = [tokens |-> p, at |-> now]
             /\ told'[w][s] = now + Wait(p) /\ log'[w][s] = log[w][s]
    <3>1. Same /\ bucket'[w][s].at = now /\ bucket'[w][s].tokens = p
      BY <1>4, <1>5, <2>2
    <3>2. Wait(p) \in Nat /\ p + Wait(p) * Capacity >= OneToken
      BY <1>4, WaitSuffices
    <3>3. told'[w][s] - now = Wait(p)
      BY <1>1, <2>2, <3>2
    <3> QED
      BY <1>1, <3>1, <3>2, <3>3
  <2>3. CASE /\ p >= OneToken
             /\ bucket'[w][s] = [tokens |-> p - OneToken, at |-> now]
             /\ told'[w][s] = None
             /\ log'[w][s] = [t \in Times |-> log[w][s][t] + IF t >= now THEN 1 ELSE 0]
    <3>1. p - OneToken \in 0 .. Full
      BY <1>4, <2>3, Measures
    <3> QED
      BY <1>1, <1>5, <2>3, <3>1
  <2> QED
    BY <1>4, <2>1, <2>2, <2>3, LimitedEffect
<1>8. Dated'
  <2>1. ASSUME NEW v \in Worker, NEW q \in Source, <<v, q>> # <<w, s>>
        PROVE  /\ bucket'[v][q] # None => bucket'[v][q].at <= now'
               /\ \A t \in Times : t >= now' => log'[v][q][t] = log'[v][q][now']
    BY <1>3, <2>1 DEF DashboardsInv, Dated
  <2>2. \A t \in Times : t >= now => log'[w][s][t] = log'[w][s][now]
    BY <1>1, <1>7 DEF DashboardsInv, Dated
  <2> QED
    BY <1>7, <2>1, <2>2 DEF Dated
<1>9. Promised'
  <2>1. ASSUME NEW v \in Worker, NEW q \in Source, <<v, q>> # <<w, s>>,
               told'[v][q] # None /\ bucket'[v][q] # None
        PROVE  bucket'[v][q].tokens + (told'[v][q] - bucket'[v][q].at) * Capacity >= OneToken
    BY <1>3, <2>1 DEF DashboardsInv, Promised
  <2> QED
    BY <1>7, <2>1 DEF Promised
<1>10. ASSUME NEW t \in 0 .. now
       PROVE  Admitted(w, s, t, now)' * Period + Potential(w, s)' <= Full + (now - t) * Capacity
  <2>1. Admitted(w, s, t, now) * Period + p <= Full + (now - t) * Capacity
    BY <1>4 DEF DashboardsInv, Accounted
  <2>2. CASE Same
    BY <2>1, <2>2 DEF Admitted
  <2>3. CASE Taken
    <3>1. Admitted(w, s, t, now)' = Admitted(w, s, t, now) + 1
      <4>1. log'[w][s][now] = log[w][s][now] + 1 /\ log[w][s][now] \in Nat
        BY <1>1, <2>3
      <4>2. t # 0 => log'[w][s][t - 1] = log[w][s][t - 1] /\ log[w][s][t - 1] \in Nat
        <5>1. \A u \in Times : u \in Int /\ log[w][s][u] \in Nat
          <6>1. log[w][s] \in [Times -> Nat]
            BY <1>1
          <6>2. \A u \in Times : u \in Int
            BY Measures
          <6> QED
            BY <6>1, <6>2
        <5>2. \A u \in Times : log'[w][s][u] = log[w][s][u] + IF u >= now THEN 1 ELSE 0
          BY <2>3
        <5>3. \A u \in Times : u < now => log'[w][s][u] = log[w][s][u] /\ log[w][s][u] \in Nat
          BY <1>1, <5>1, <5>2
        <5> QED
          BY <1>0, <5>3
      <4> QED
        BY <4>1, <4>2 DEF Admitted
    <3>2. Admitted(w, s, t, now)' * Period = Admitted(w, s, t, now) * Period + OneToken
      BY <1>6, <3>1, OneMoreToken
    <3>3. Admitted(w, s, t, now) * Period \in Int
      BY <1>6, Measures
    <3> QED
      BY <1>4, <2>1, <2>3, <3>2, <3>3, Measures
  <2> QED
    BY <1>7, <2>2, <2>3
<1>11. Accounted'
  <2> SUFFICES ASSUME NEW v \in Worker, NEW q \in Source, NEW t \in 0 .. now
               PROVE  Admitted(v, q, t, now)' * Period + Potential(v, q)' <= Full + (now - t) * Capacity
    BY DEF Accounted
  <2>1. CASE <<v, q>> = <<w, s>>
    BY <1>10, <2>1
  <2>2. CASE <<v, q>> # <<w, s>>
    BY <1>3, <2>2 DEF DashboardsInv, Accounted, Admitted
  <2> QED
    BY <2>1, <2>2
<1>12. RateBounded'
  <2> SUFFICES ASSUME NEW v \in Worker, NEW q \in Source, NEW t1 \in 0 .. now, NEW t2 \in 0 .. now, t1 <= t2
               PROVE  Admitted(v, q, t1, t2)' * Period <= Full + (t2 - t1) * Capacity
    BY DEF RateBounded
  <2>1. CASE <<v, q>> # <<w, s>>
    BY <1>3, <2>1 DEF DashboardsInv, RateBounded, Admitted
  <2>2. CASE <<v, q>> = <<w, s>> /\ t2 = now
    <3>1. Admitted(w, s, t1, now)' \in Int
      <4>1. log' \in [Worker -> [Source -> [Times -> Nat]]]
        BY LimitedEffect
      <4>2. \A t \in Times : log'[w][s][t] \in Nat
        BY <4>1
      <4>3. now \in Times /\ now' = now /\ (t1 # 0 => t1 - 1 \in Times)
        BY <1>0, <1>1
      <4>4. Admitted(w, s, t1, now)' = log'[w][s][now] - IF t1 = 0 THEN 0 ELSE log'[w][s][t1 - 1]
        BY <4>3 DEF Admitted
      <4>5. log'[w][s][now] \in Int /\ (t1 # 0 => log'[w][s][t1 - 1] \in Int)
        BY <4>2, <4>3
      <4> QED
        BY <4>4, <4>5
    <3>2. Potential(w, s)' \in Nat
      BY <1>4, <1>7, Measures
    <3>3. Admitted(w, s, t1, now)' * Period \in Int /\ Full + (now - t1) * Capacity \in Int
      BY <1>1, <3>1, Measures
    <3> QED
      BY <1>10, <2>2, <3>2, <3>3
  <2>3. CASE <<v, q>> = <<w, s>> /\ t2 # now
    <3>1. \A t \in Times : t < now => log'[w][s][t] = log[w][s][t]
      BY <1>1, <1>7
    <3>2. t2 \in Times /\ t2 < now /\ (t1 # 0 => t1 - 1 \in Times /\ t1 - 1 < now)
      <4>1. t2 < now /\ t2 \in Nat
        <5>1. now \in Nat /\ t2 # now
          BY <1>1, <2>3
        <5> QED
          BY <5>1
      <4>2. t1 # 0 => t1 - 1 \in Times /\ t1 - 1 < now
        BY <1>0
      <4> QED
        BY <1>1, <4>1, <4>2, Measures DEF Times
    <3>3. Admitted(w, s, t1, t2)' = Admitted(w, s, t1, t2)
      BY <3>1, <3>2 DEF Admitted
    <3> QED
      BY <2>3, <3>3 DEF DashboardsInv, RateBounded
  <2> QED
    BY <2>1, <2>2, <2>3
<1> QED
  BY <1>8, <1>9, <1>11, <1>12

-----------------------------------------------------------------------------
\* The requests of another worker are not this one's reads.
LEMMA Get_Slots ==
  ASSUME DashboardsInv, NEW r \in Request, NEW w \in Worker, req[r].at # "reading",
         req' = [req EXCEPT ![r] = req'[r]],
         \/ UNCHANGED free /\ req'[r].at # "reading"
         \/ /\ free[w] # 0 /\ free' = [free EXCEPT ![w] = @ - 1]
            /\ req'[r].at = "reading" /\ req'[r].worker = w
  PROVE  SlotsCounted' /\ free' \in [Worker -> 0 .. Slots]
<1>1. req \in [Request -> [at : {"idle", "reading", "over"}, worker : Worker \cup {None},
                           board : Board \cup {None}, seen : Times \cup {None}, answer : Answers]]
      /\ free \in [Worker -> 0 .. Slots] /\ SlotsCounted
  BY DEF DashboardsInv, DashboardsTypeOK
<1>2. \A q \in Request : q # r => req'[q] = req[q]
  BY <1>1
<1>3. CASE UNCHANGED free /\ req'[r].at # "reading"
  <2>1. \A v \in Worker : Reading(v)' = Reading(v)
    BY <1>2, <1>3 DEF Reading
  <2> QED
    BY <1>1, <1>3, <2>1 DEF SlotsCounted
<1>4. CASE /\ free[w] # 0 /\ free' = [free EXCEPT ![w] = @ - 1]
           /\ req'[r].at = "reading" /\ req'[r].worker = w
  <2>1. \A v \in Worker : v # w => Reading(v)' = Reading(v) /\ free'[v] = free[v]
    BY <1>1, <1>2, <1>4 DEF Reading
  <2>2. Reading(w)' = Reading(w) \cup {r} /\ r \notin Reading(w)
    BY <1>2, <1>4 DEF Reading
  <2>3. IsFiniteSet(Reading(w)') /\ Cardinality(Reading(w)') = Cardinality(Reading(w)) + 1
    BY <1>1, <2>2, FS_AddElement DEF SlotsCounted
  <2>4. free'[w] = free[w] - 1 /\ free[w] \in 0 .. Slots /\ Cardinality(Reading(w)) \in Nat
    BY <1>1, <1>4, FS_CardinalityType DEF SlotsCounted
  <2>5. free'[w] + Cardinality(Reading(w)') = Slots /\ free'[w] \in 0 .. Slots
    BY <1>1, <1>4, <2>3, <2>4, Measures DEF SlotsCounted
  <2>6. free' \in [Worker -> 0 .. Slots]
    BY <1>1, <1>4, <2>4, <2>5
  <2> QED
    BY <1>1, <2>1, <2>3, <2>5, <2>6 DEF SlotsCounted
<1> QED
  BY <1>3, <1>4

LEMMA Get_Inv ==
  ASSUME DashboardsInv, NEW r \in Request, NEW w \in Worker, NEW s \in Source,
         NEW d \in Board, Get(r, w, s, d)
  PROVE  DashboardsInv'
<1> PICK admitted \in BOOLEAN :
      /\ Limited(w, s, admitted)
      /\ LET Answer(a) == [Idle EXCEPT !.at = "over", !.worker = w, !.board = d, !.answer = a] IN
          IF ~admitted
            THEN req' = [req EXCEPT ![r] = Answer("rate")] /\ UNCHANGED free
          ELSE IF free[w] = 0
            THEN req' = [req EXCEPT ![r] = Answer("busy")] /\ UNCHANGED free
          ELSE /\ free' = [free EXCEPT ![w] = @ - 1]
               /\ req' = [req EXCEPT ![r] = [Idle EXCEPT !.at = "reading", !.worker = w, !.board = d]]
  BY DEF Get
<1> DEFINE Requests == [at : {"idle", "reading", "over"}, worker : Worker \cup {None},
                        board : Board \cup {None}, seen : Times \cup {None}, answer : Answers]
<1>1. DashboardsTypeOK /\ req \in [Request -> Requests]
  BY DEF DashboardsInv, DashboardsTypeOK
<1>2. /\ req[r].at = "idle" /\ d \in given /\ UNCHANGED <<now, board, stored, given>>
  BY DEF Get
<1>3. PICK at \in {"over", "reading"}, a \in {"rate", "busy", "none"} :
        LET q == [at |-> at, worker |-> w, board |-> d, seen |-> None, answer |-> a] IN
        /\ req' = [req EXCEPT ![r] = q] /\ q \in Requests
        /\ \/ UNCHANGED free /\ at = "over"
           \/ at = "reading" /\ free[w] # 0 /\ free' = [free EXCEPT ![w] = @ - 1]
  BY DEF Idle, Answers
<1>4. /\ req'[r] = [at |-> at, worker |-> w, board |-> d, seen |-> None, answer |-> a]
      /\ req' \in [Request -> Requests] /\ req' = [req EXCEPT ![r] = req'[r]]
      /\ \A q \in Request : q # r => req'[q] = req[q]
  BY <1>1, <1>3
<1>5. SlotsCounted' /\ free' \in [Worker -> 0 .. Slots]
  BY <1>2, <1>3, <1>4, Get_Slots
<1>6. DashboardsTypeOK'
  <2>1. /\ bucket' \in [Worker -> [Source -> [tokens : 0 .. Full, at : Times] \cup {None}]]
        /\ log' \in [Worker -> [Source -> [Times -> Nat]]]
        /\ told' \in [Worker -> [Source -> Nat \cup {None}]]
    BY LimitedEffect
  <2> QED
    BY <1>1, <1>2, <1>4, <1>5, <2>1 DEF DashboardsTypeOK
<1>7. Asked' /\ Linked' /\ LinkHonest'
  BY <1>2, <1>4 DEF DashboardsInv, Asked, Linked, LinkHonest
<1> QED
  BY <1>2, <1>5, <1>6, <1>7, Limited_Accounted DEF DashboardsInv

LEMMA Read_Inv ==
  ASSUME DashboardsInv, NEW r \in Request, Read(r)
  PROVE  DashboardsInv'
<1> DEFINE Requests == [at : {"idle", "reading", "over"}, worker : Worker \cup {None},
                        board : Board \cup {None}, seen : Times \cup {None}, answer : Answers]
<1>1. DashboardsTypeOK /\ req \in [Request -> Requests] /\ now \in Times /\ now \in Int
      /\ free \in [Worker -> 0 .. Slots] /\ SlotsCounted
  BY Measures DEF DashboardsInv, DashboardsTypeOK
<1> PICK w \in Worker, d \in given : req[r].worker = w /\ req[r].board = d
  BY DEF Read, DashboardsInv, Asked
<1>2. /\ req[r].at = "reading" /\ req[r].worker = w /\ req[r].board = d
      /\ UNCHANGED <<now, board, stored, given, limiter>>
      /\ free' = [free EXCEPT ![w] = @ + 1]
  BY DEF Read, Released, DashboardsInv, Asked
<1>3. PICK a \in {"spec", "not_found", "unavailable"} :
        /\ req' = [req EXCEPT ![r].at = "over", ![r].seen = now, ![r].answer = a]
        /\ a = "spec" => InTime(d)
        /\ a = "not_found" => ~(d \in stored /\ InTime(d))
  BY DEF Read
<1>4. /\ req' \in [Request -> Requests]
      /\ req'[r].at = "over" /\ req'[r].seen = now /\ req'[r].answer = a /\ req'[r].board = d
      /\ \A q \in Request : q # r => req'[q] = req[q]
  <2>1. req[r] \in Requests /\ a \in Answers
    BY <1>1, <1>3 DEF Answers
  <2>2. [req[r] EXCEPT !.at = "over", !.seen = now, !.answer = a] \in Requests
    BY <1>1, <2>1
  <2>3. req' = [req EXCEPT ![r] = [req[r] EXCEPT !.at = "over", !.seen = now, !.answer = a]]
    BY <1>1, <1>3
  <2>4. req' \in [Request -> Requests]
    BY <1>1, <2>2, <2>3
  <2>5. req'[r] = [req[r] EXCEPT !.at = "over", !.seen = now, !.answer = a]
    BY <1>1, <2>3
  <2>6. \A q \in Request : q # r => req'[q] = req[q]
    BY <1>1, <2>3
  <2> QED
    BY <1>2, <2>1, <2>4, <2>5, <2>6
<1>5. board[d] \in Int /\ (board[d] > now => d \in stored)
  BY <1>2 DEF DashboardsInv, Linked
<1>6. LinkHonest'
  <2>1. (a = "spec" => now < board[d]) /\ (a = "not_found" => now >= board[d])
    BY <1>1, <1>3, <1>5 DEF InTime
  <2>2. \A q \in Request : q # r => (req[q].seen # None =>
          /\ req[q].answer = "spec" => req[q].seen < board[req[q].board]
          /\ req[q].answer = "not_found" => req[q].seen >= board[req[q].board])
    BY DEF DashboardsInv, LinkHonest
  <2> QED
    BY <1>2, <1>4, <2>1, <2>2 DEF LinkHonest
<1>7. Asked' /\ Linked'
  BY <1>2, <1>4 DEF DashboardsInv, Asked, Linked
<1>8. SlotsCounted' /\ free' \in [Worker -> 0 .. Slots]
  <2>1. \A v \in Worker : v # w => Reading(v)' = Reading(v) /\ free'[v] = free[v]
    BY <1>1, <1>2, <1>4 DEF Reading
  <2>2. Reading(w)' = Reading(w) \ {r} /\ r \in Reading(w)
    BY <1>2, <1>4 DEF Reading
  <2>3. IsFiniteSet(Reading(w)') /\ Cardinality(Reading(w)') = Cardinality(Reading(w)) - 1
    BY <1>1, <1>2, <2>2, FS_RemoveElement DEF SlotsCounted
  <2>4. free'[w] = free[w] + 1 /\ free[w] \in 0 .. Slots /\ Cardinality(Reading(w)) \in Nat
        /\ Cardinality(Reading(w)') \in Nat
    BY <1>1, <1>2, <2>3, FS_CardinalityType DEF SlotsCounted
  <2>5. free'[w] + Cardinality(Reading(w)') = Slots /\ free'[w] \in 0 .. Slots
    BY <1>1, <1>2, <2>3, <2>4, Measures DEF SlotsCounted
  <2>6. free' \in [Worker -> 0 .. Slots]
    BY <1>1, <1>2, <2>4, <2>5
  <2> QED
    BY <1>1, <2>1, <2>3, <2>5, <2>6 DEF SlotsCounted
<1>9. DashboardsTypeOK'
  BY <1>1, <1>2, <1>4, <1>8 DEF DashboardsTypeOK, limiter
<1> QED
  BY <1>2, <1>6, <1>7, <1>8, <1>9, LimiterKept DEF DashboardsInv, limiter

LEMMA Again_Inv ==
  ASSUME DashboardsInv, NEW r \in Request, Again(r)
  PROVE  DashboardsInv'
<1>1. DashboardsTypeOK'
  BY DEF DashboardsInv, DashboardsTypeOK, Again, limiter, Idle, Answers
<1>2. \A q \in Request : req'[q] = IF q = r THEN Idle ELSE req[q]
  BY DEF DashboardsInv, DashboardsTypeOK, Again
<1>3. SlotsCounted'
  BY <1>2, SlotsKept DEF DashboardsInv, Again, Idle
<1>4. Asked' /\ Linked' /\ LinkHonest'
  BY <1>2, LinksKept DEF Again, Idle
<1> QED
  BY <1>1, <1>3, <1>4, LimiterKept DEF DashboardsInv, Again, limiter

\* In a tick what flows in is no more than a tick may bring.
LEMMA Tick_Inv ==
  ASSUME DashboardsInv, Tick
  PROVE  DashboardsInv'
<1>1. /\ DashboardsTypeOK /\ now \in Nat /\ now \in Times
      /\ now' = now + 1 /\ now' \in Times
      /\ UNCHANGED <<board, stored, given, bucket, log, told, free, req>>
  BY Measures DEF DashboardsInv, DashboardsTypeOK, Tick, limiter, Times
<1>2. DashboardsTypeOK'
  BY <1>1 DEF DashboardsTypeOK
<1>3. SlotsCounted' /\ Asked' /\ LinkHonest' /\ Promised'
  BY <1>1, SlotsKept DEF DashboardsInv, Asked, LinkHonest, Promised
<1>4. Linked'
  BY <1>1 DEF DashboardsInv, Linked
<1>5. \A w \in Worker, s \in Source :
        /\ log[w][s] \in [Times -> Nat]
        /\ log[w][s][now + 1] = log[w][s][now]
        /\ bucket[w][s] # None =>
             bucket[w][s] \in [tokens : 0 .. Full, at : Times] /\ bucket[w][s].at <= now
  BY <1>1 DEF DashboardsInv, DashboardsTypeOK, Dated
<1>6. Dated'
  <2> SUFFICES ASSUME NEW w \in Worker, NEW s \in Source
               PROVE  /\ bucket[w][s] # None => bucket[w][s].at <= now + 1
                      /\ \A t \in Times : t >= now + 1 => log[w][s][t] = log[w][s][now + 1]
    BY <1>1 DEF Dated
  <2>1. bucket[w][s] # None => bucket[w][s].at \in Nat
    BY <1>5, Measures
  <2>2. \A t \in Times : t >= now + 1 => t >= now
    BY <1>1, Measures
  <2>3. bucket[w][s] # None => bucket[w][s].at <= now + 1
    BY <1>1, <1>5, <2>1
  <2>4. ASSUME NEW t \in Times, t >= now + 1 PROVE log[w][s][t] = log[w][s][now + 1]
    <3>1. log[w][s][t] = log[w][s][now]
      BY <2>2, <2>4 DEF DashboardsInv, Dated
    <3> QED
      BY <3>1, <1>5
  <2> QED
    BY <2>3, <2>4
<1> PICK n \in Nat : n = now
  BY <1>1
<1>7. ASSUME NEW w \in Worker, NEW s \in Source
      PROVE  Potential(w, s)' <= Potential(w, s) + Capacity /\ Potential(w, s)' \in 0 .. Full
  <2>1. CASE bucket[w][s] = None
    BY <1>1, <2>1, Measures DEF Potential
  <2>2. CASE bucket[w][s] # None
    <3> DEFINE b == bucket[w][s]
               x == b.tokens + (now - b.at) * Capacity
               y == b.tokens + (now' - b.at) * Capacity
    <3>1. b \in [tokens : 0 .. Full, at : Times] /\ b.at <= now
      BY <1>5, <2>2
    <3>2. x \in Nat /\ Available(b) = IF Full <= x THEN Full ELSE x
      BY <1>1, <3>1, AvailableIs
    <3>3. y = x + Capacity
      <4>1. b.at \in Times /\ b.tokens \in 0 .. Full
        BY <3>1
      <4>2. b.at \in Nat /\ b.tokens \in Nat
        BY <4>1, Measures
      <4>3. \A k \in Int : (k + 1) * Capacity = k * Capacity + Capacity
        BY Measures
      <4>4. now - b.at \in Int /\ now' - b.at = (now - b.at) + 1
        BY <1>1, <4>2
      <4>5. (now - b.at) * Capacity \in Int
        BY <4>4, Measures
      <4>6. (now' - b.at) * Capacity = (now - b.at) * Capacity + Capacity
        BY <4>3, <4>4
      <4> QED
        BY <4>2, <4>5, <4>6, Measures
    <3>4. y \in Int
      BY <3>2, <3>3, Measures
    <3>5. Potential(w, s)' = Min({Full, y})
      <4>1. bucket' = bucket
        BY <1>1
      <4> QED
        BY <2>2, <4>1 DEF Potential, Available
    <3>6. Potential(w, s)' = IF Full <= y THEN Full ELSE y
      <4> HIDE DEF y
      <4> QED
        BY <3>4, <3>5, MinTwo, Measures
    <3>7. Potential(w, s) = IF Full <= x THEN Full ELSE x
      BY <2>2, <3>2 DEF Potential
    <3> HIDE DEF x, y
    <3> QED
      BY <3>2, <3>3, <3>4, <3>6, <3>7, Measures
  <2> QED
    BY <2>1, <2>2
<1>8. ASSUME NEW w \in Worker, NEW s \in Source, NEW t \in 0 .. n + 1
      PROVE  /\ Admitted(w, s, t, n + 1) * Period + Potential(w, s)' <= Full + (n + 1 - t) * Capacity
             /\ Admitted(w, s, t, n + 1) * Period <= Full + (n + 1 - t) * Capacity
             /\ Admitted(w, s, t, n + 1)' = Admitted(w, s, t, n + 1)
  <2>1. CASE t = n + 1
    <3>1. t # 0 /\ t - 1 = n
      BY <1>1, <2>1
    <3>2. log[w][s][n] \in Nat
      BY <1>1, <1>5
    <3>3. Admitted(w, s, t, n + 1) = 0
      BY <1>5, <3>1, <3>2 DEF Admitted
    <3>4. Admitted(w, s, t, n + 1)' = Admitted(w, s, t, n + 1)
      BY <1>1 DEF Admitted
    <3>5. 0 * Period = 0 /\ (n + 1 - t) * Capacity = 0
      BY <1>1, <2>1, Measures
    <3> QED
      BY <1>7, <3>3, <3>4, <3>5, Measures
  <2>2. CASE t # n + 1
    <3>1. t \in 0 .. n /\ t \in Nat
      BY <1>1, <2>2
    <3>2. Admitted(w, s, t, n + 1) = Admitted(w, s, t, n)
      BY <1>5 DEF Admitted
    <3>3. Admitted(w, s, t, n) * Period + Potential(w, s) <= Full + (n - t) * Capacity
      BY <3>1 DEF DashboardsInv, Accounted
    <3>4. Admitted(w, s, t, n) \in Int
      <4>1. t # 0 => t - 1 \in Times
        BY <1>1, <3>1, Measures DEF Times
      <4> QED
        BY <1>1, <1>5, <4>1 DEF Admitted
    <3>5. Admitted(w, s, t, n) * Period \in Int /\ (n - t) * Capacity \in Int
      BY <1>1, <3>1, <3>4, Measures
    <3>6. (n + 1 - t) * Capacity = (n - t) * Capacity + Capacity
      <4>1. \A k \in Int : (k + 1) * Capacity = k * Capacity + Capacity
        BY Measures
      <4>2. n - t \in Int /\ n + 1 - t = (n - t) + 1
        BY <1>1, <3>1
      <4> QED
        BY <4>1, <4>2
    <3>7. Potential(w, s) \in Nat /\ Potential(w, s)' \in Nat /\ Potential(w, s)' <= Potential(w, s) + Capacity
      BY <1>7, PotentialTyped, Measures
    <3>8. Admitted(w, s, t, n + 1)' = Admitted(w, s, t, n + 1)
      BY <1>1 DEF Admitted
    <3> QED
      BY <3>2, <3>3, <3>5, <3>6, <3>7, <3>8, Measures
  <2> QED
    BY <2>1, <2>2
<1>9. Accounted'
  BY <1>1, <1>8 DEF Accounted
<1>10. RateBounded'
  <2> SUFFICES ASSUME NEW w \in Worker, NEW s \in Source, NEW t1 \in 0 .. n + 1, NEW t2 \in 0 .. n + 1, t1 <= t2
               PROVE  Admitted(w, s, t1, t2)' * Period <= Full + (t2 - t1) * Capacity
    BY <1>1 DEF RateBounded
  <2>1. CASE t2 = n + 1
    BY <1>8, <2>1
  <2>2. CASE t2 # n + 1
    <3>1. t1 \in 0 .. n /\ t2 \in 0 .. n
      BY <1>1, <2>2
    <3>2. Admitted(w, s, t1, t2)' = Admitted(w, s, t1, t2)
      BY <1>1 DEF Admitted
    <3> QED
      BY <3>1, <3>2 DEF DashboardsInv, RateBounded
  <2> QED
    BY <2>1, <2>2
<1> QED
  BY <1>2, <1>3, <1>4, <1>6, <1>9, <1>10 DEF DashboardsInv

LEMMA Restart_Inv ==
  ASSUME DashboardsInv, NEW w \in Worker, Restart(w)
  PROVE  DashboardsInv'
<1>1. /\ DashboardsTypeOK /\ now \in Nat /\ now \in Times /\ UNCHANGED <<now, board, stored, given>>
      /\ \A v \in Worker : v # w => /\ bucket'[v] = bucket[v] /\ log'[v] = log[v]
                                    /\ told'[v] = told[v] /\ free'[v] = free[v]
  BY Measures DEF DashboardsInv, DashboardsTypeOK, Restart
<1>2. \A s \in Source : /\ bucket'[w][s] = None /\ told'[w][s] = None
                        /\ log'[w][s] = [t \in Times |-> 0]
  BY <1>1 DEF DashboardsTypeOK, Restart
<1>3. \A r \in Request : req'[r] = IF req[r].worker = w THEN Idle ELSE req[r]
  BY DEF Restart
<1>4. DashboardsTypeOK'
  <2>1. Idle \in [at : {"idle", "reading", "over"}, worker : Worker \cup {None},
                  board : Board \cup {None}, seen : Times \cup {None}, answer : Answers]
    BY DEF Idle, Answers
  <2>2. req' \in [Request -> [at : {"idle", "reading", "over"}, worker : Worker \cup {None},
                  board : Board \cup {None}, seen : Times \cup {None}, answer : Answers]]
    BY <1>1, <2>1 DEF DashboardsTypeOK, Restart
  <2>3. log' \in [Worker -> [Source -> [Times -> Nat]]]
    BY <1>1 DEF DashboardsTypeOK, Restart
  <2>4. Slots \in 0 .. Slots
    BY Measures
  <2>5. free' \in [Worker -> 0 .. Slots] /\ told' \in [Worker -> [Source -> Nat \cup {None}]]
    BY <1>1, <2>4 DEF DashboardsTypeOK, Restart
  <2>6. bucket' \in [Worker -> [Source -> [tokens : 0 .. Full, at : Times] \cup {None}]]
    BY <1>1 DEF DashboardsTypeOK, Restart
  <2> QED
    BY <1>1, <2>2, <2>3, <2>5, <2>6 DEF DashboardsTypeOK
<1>5. SlotsCounted'
  <2>1. Reading(w)' = {} /\ free'[w] = Slots
    BY <1>1, <1>3 DEF Reading, Idle, Restart, DashboardsTypeOK
  <2>2. \A v \in Worker : v # w => Reading(v)' = Reading(v)
    <3> SUFFICES ASSUME NEW v \in Worker, v # w, NEW r \in Request
                 PROVE  (req'[r].at = "reading" /\ req'[r].worker = v)
                        <=> (req[r].at = "reading" /\ req[r].worker = v)
      BY DEF Reading
    <3> QED
      BY <1>3 DEF Idle
  <2>3. IsFiniteSet({}) /\ Cardinality({}) = 0
    BY FS_EmptySet
  <2>4. IsFiniteSet(Reading(w)') /\ free'[w] + Cardinality(Reading(w)') = Slots
    BY <2>1, <2>3, Measures
  <2>5. SlotsCounted
    BY DEF DashboardsInv
  <2> QED
    BY <1>1, <2>2, <2>4, <2>5 DEF SlotsCounted
<1>6. Asked' /\ Linked' /\ LinkHonest'
  BY <1>1, <1>3, LinksKept DEF Idle
<1>7. Dated' /\ Promised'
  BY <1>1, <1>2 DEF DashboardsInv, Dated, Promised
<1>8. ASSUME NEW v \in Worker, NEW s \in Source, NEW t1 \in 0 .. now, NEW t2 \in 0 .. now, t1 <= t2
      PROVE  /\ Admitted(v, s, t1, t2)' * Period <= Full + (t2 - t1) * Capacity
             /\ t2 = now => Admitted(v, s, t1, t2)' * Period + Potential(v, s)' <= Full + (t2 - t1) * Capacity
  <2>1. CASE v = w
    <3>1. t2 \in Times /\ (t1 # 0 => t1 - 1 \in Times) /\ t2 - t1 \in Nat
      BY <1>1, <1>8, Measures DEF Times
    <3>2. Admitted(v, s, t1, t2)' = 0 /\ Potential(v, s)' = Full
      BY <1>2, <2>1, <3>1 DEF Admitted, Potential
    <3>3. 0 * Period = 0 /\ (t2 - t1) * Capacity \in Nat
      BY <3>1, Measures
    <3> QED
      BY <3>2, <3>3, Measures
  <2>2. CASE v # w
    <3>1. Admitted(v, s, t1, t2)' = Admitted(v, s, t1, t2)
      BY <1>1, <2>2 DEF Admitted
    <3>2. Potential(v, s)' = Potential(v, s)
      BY <1>1, <2>2 DEF Potential, Available
    <3> QED
      BY <1>8, <3>1, <3>2 DEF DashboardsInv, Accounted, RateBounded
  <2> QED
    BY <2>1, <2>2
<1>9. Accounted' /\ RateBounded'
  <2>1. RateBounded'
    BY <1>1, <1>8 DEF RateBounded
  <2>2. Accounted'
    <3> PICK n \in Nat : n = now
      BY <1>1
    <3> SUFFICES ASSUME NEW v \in Worker, NEW s \in Source, NEW t \in 0 .. n
                 PROVE  Admitted(v, s, t, n)' * Period + Potential(v, s)' <= Full + (n - t) * Capacity
      BY <1>1 DEF Accounted, Admitted
    <3> QED
      BY <1>8
  <2> QED
    BY <2>1, <2>2
<1> QED
  BY <1>4, <1>5, <1>6, <1>7, <1>9 DEF DashboardsInv

-----------------------------------------------------------------------------
LEMMA Dashboards_Step == DashboardsInv /\ [DashboardsNext]_vars => DashboardsInv'
<1> SUFFICES ASSUME DashboardsInv, [DashboardsNext]_vars PROVE DashboardsInv'
  OBVIOUS
<1>1. CASE DashboardsNext
  BY <1>1, Tick_Inv, Render_Inv, TimeToLive_Inv, Read_Inv, Again_Inv, Get_Inv, Restart_Inv
     DEF DashboardsNext
<1>2. CASE UNCHANGED vars
  <2>1. DashboardsTypeOK'
    BY <1>2 DEF DashboardsInv, DashboardsTypeOK, vars
  <2> QED
    BY <1>2, <2>1, SlotsKept, LimiterKept, LinksKept DEF DashboardsInv, vars
<1> QED
  BY <1>1, <1>2

LEMMA DashboardsSafe == DashboardsSpec => []DashboardsInv
  BY DashboardsInit_Inv, Dashboards_Step, PTL DEF DashboardsSpec

\* The variables of the dashboards and their limiter keep their types; in
\* particular the read slots of a worker are never fewer than none nor more
\* than there are (get_dashboard gives one back for each it took).
THEOREM DashboardsTyped == DashboardsSpec => []DashboardsTypeOK
<1>1. DashboardsInv => DashboardsTypeOK
  BY DEF DashboardsInv
<1> QED
  BY <1>1, DashboardsSafe, PTL

\* A worker admits from one source no more than one full bucket and what flows
\* in, in any stretch of time (TokenBucketRateLimiter).
THEOREM RatesAreBounded == DashboardsSpec => []RateBounded
<1>1. DashboardsInv => RateBounded
  BY DEF DashboardsInv
<1> QED
  BY <1>1, DashboardsSafe, PTL

\* What pruning leaves are the sources heard of within the last Period.
LEMMA KnownAreRecent ==
  ASSUME DashboardsInv, NEW w \in Worker
  PROVE  Known(Pruned(bucket[w])) = Recent(w)
<1>1. ASSUME NEW q \in Source
      PROVE  Pruned(bucket[w])[q] # None <=> bucket[w][q] # None /\ now < bucket[w][q].at + Period
  <2>1. Pruned(bucket[w])[q] =
          IF bucket[w][q] # None /\ Stale(bucket[w][q]) THEN None ELSE bucket[w][q]
    BY DEF Pruned
  <2>2. ASSUME bucket[w][q] # None
        PROVE  Stale(bucket[w][q]) <=> ~(now < bucket[w][q].at + Period)
    <3>1. bucket[w][q].at \in Times /\ now \in Times
      BY <2>2 DEF DashboardsInv, DashboardsTypeOK
    <3> QED
      BY <3>1, Measures DEF Stale, Times
  <2> QED
    BY <2>1, <2>2
<1> QED
  BY <1>1 DEF Known, Recent

\* Whoever was refused and waits as long as Retry-After says is admitted
\* (retry_after), but for a source without a bucket while MaxKeys others have all
\* been heard of within the last Period.
THEOREM RetryAfterIsKept == DashboardsSpec => []RetryAfterKept
<1>1. DashboardsInv => RetryAfterKept
  <2> SUFFICES ASSUME DashboardsInv, NEW w \in Worker, NEW s \in Source,
                      told[w][s] # None, now >= told[w][s], bucket[w][s] # None
               PROVE  Available(bucket[w][s]) >= OneToken
    BY KnownAreRecent DEF RetryAfterKept, Admits
  <2> DEFINE b == bucket[w][s]
             a == told[w][s]
  <2>1. /\ b \in [tokens : 0 .. Full, at : Times] /\ b.at <= now /\ now \in Times
        /\ b.tokens + (a - b.at) * Capacity >= OneToken
    BY DEF DashboardsInv, DashboardsTypeOK, Dated, Promised
  <2>2. a \in Nat
    BY DEF DashboardsInv, DashboardsTypeOK
  <2>3. /\ b.tokens + (now - b.at) * Capacity \in Nat
        /\ Available(b) = IF Full <= b.tokens + (now - b.at) * Capacity THEN Full
                          ELSE b.tokens + (now - b.at) * Capacity
    BY <2>1, AvailableIs
  <2>4. b.at \in Nat /\ b.tokens \in Nat /\ now \in Nat
    <3>1. b.at \in Times /\ b.tokens \in 0 .. Full
      BY <2>1
    <3> QED
      BY <2>1, <3>1, Measures
  <2>5. \A m, n \in Int : m <= n => m * Capacity <= n * Capacity
    BY Measures
  <2>6. (a - b.at) * Capacity <= (now - b.at) * Capacity
        /\ (a - b.at) * Capacity \in Int /\ (now - b.at) * Capacity \in Int
    <3>1. a - b.at \in Int /\ now - b.at \in Int /\ a - b.at <= now - b.at
      BY <2>2, <2>4
    <3> QED
      BY <2>5, <3>1, Measures
  <2> HIDE DEF a, b
  <2>7. Available(b) >= OneToken
    BY <2>1, <2>3, <2>4, <2>6, Measures
  <2> QED
    BY <2>7 DEF b
<1> QED
  BY <1>1, DashboardsSafe, PTL

\* A link works until its deadline and no longer (render_dashboard,
\* get_dashboard_spec).
THEOREM LinksAreHonest == DashboardsSpec => []LinkHonest
<1>1. DashboardsInv => LinkHonest
  BY DEF DashboardsInv
<1> QED
  BY <1>1, DashboardsSafe, PTL
=============================================================================
