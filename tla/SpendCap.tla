------------------------------ MODULE SpendCap ------------------------------
(***************************************************************************)
(* The monthly cost cap of one tenant: the check before an invocation      *)
(* (main.py), the record after it, the record the sandbox poller makes for *)
(* a job (tools.py), and the counter both update (spend_tracker.py).  The  *)
(* counter is two attributes of the tenants row, changed by one            *)
(* conditional increment and, when its condition fails, by a reset.        *)
(***************************************************************************)
EXTENDS Integers, FiniteSets

CONSTANTS
  Invocation,  \* the invocations of one behaviour
  Job,         \* the sandbox jobs
  Parent,      \* Parent[j]: the invocation whose propose_pr queues job j
  Cost,        \* Cost[c]: cents an invocation or a job costs
  Cap,         \* monthly_limit_dollars, in cents
  Resends,     \* how often boto3 sends an update again
  Months,      \* how many months pass (model bound)
  Faults,      \* the kinds of fault that may happen
  MaxFaults    \* how many may happen in one behaviour (model bound)

Charge == Invocation \cup Job

SpendFaults ==
  { "read",    \* the read of the counter fails
    "old",     \* an eventually consistent read misses the last write
    "write",   \* an update fails
    "again" }  \* the answer to an update is lost and boto3 sends it again

ASSUME SpendAssumption ==
  /\ IsFiniteSet(Invocation) /\ IsFiniteSet(Job)
  /\ Invocation \cap Job = {}
  /\ Parent \in [Job -> Invocation]
  /\ Cost \in [Charge -> Nat \ {0}]
  /\ Cap \in Nat
  /\ Resends \in Nat
  /\ Months \in Nat \ {0}
  /\ Faults \subseteq SpendFaults
  /\ MaxFaults \in Nat

VARIABLES
  month,     \* the calendar month
  counter,   \* spend_month (0 if absent) and monthly_spend_cents
  before,    \* counter before its last write
  pc,        \* where a charge is
  billed,    \* billed[c]: the month the handler of c has computed
  failed,    \* failed[c]: the counter that made the increment of c fail
  spent,     \* history: spent[m]: cents of the charges recorded in month m
  resent,    \* history: resent[m]: cents that updates sent again have added
  crowd,     \* history: how many charges were ever outstanding at once
  raced,     \* history: a reset met a counter other than the one that made
             \* its increment fail
  nfaults,   \* how many faults there were so far
  happened   \* and of which kinds

faultVars == <<nfaults, happened>>
svars == <<month, counter, before, pc, billed, failed, spent, resent, crowd, raced,
           faultVars>>

Month   == 1 .. Months
Counter == [month : 0 .. Months, cents : Nat]
Zero    == [month |-> 0, cents |-> 0]
Stages  == {"idle", "running", "incrementing", "resetting", "done", "blocked", "failed"}

SpendTypeOK ==
  /\ month \in Month
  /\ counter \in Counter
  /\ before \in Counter
  /\ pc \in [Charge -> Stages]
  /\ billed \in [Charge -> 0 .. Months]
  /\ failed \in [Charge -> Counter]
  /\ spent \in [Month -> Nat]
  /\ resent \in [Month -> Nat]
  /\ crowd \in Nat
  /\ raced \in BOOLEAN
  /\ nfaults \in 0 .. MaxFaults
  /\ happened \subseteq Faults

SpendInit ==
  /\ month = 1
  /\ counter = Zero
  /\ before = Zero
  /\ pc = [c \in Charge |-> "idle"]
  /\ billed = [c \in Charge |-> 0]
  /\ failed = [c \in Charge |-> Zero]
  /\ spent = [m \in Month |-> 0]
  /\ resent = [m \in Month |-> 0]
  /\ crowd = 0
  /\ raced = FALSE
  /\ nfaults = 0
  /\ happened = {}

Fault(kind) ==
  /\ kind \in Faults
  /\ nfaults < MaxFaults
  /\ nfaults' = nfaults + 1
  /\ happened' = happened \cup {kind}

Goto(c, stage) == pc' = [pc EXCEPT ![c] = stage]

\* The charges that can still come without a further check of the budget.
Outstanding ==
  {c \in Charge : pc[c] \in {"running", "incrementing", "resetting"}}
    \cup {j \in Job : pc[j] = "idle" /\ pc[Parent[j]] = "running"}

Count == crowd' = IF Cardinality(Outstanding') > crowd THEN Cardinality(Outstanding') ELSE crowd

-----------------------------------------------------------------------------
\* Mutant: the spend of an earlier month counts.
Allowed_AnyMonth(r) == r.cents < Cap

\* Mutant: a tenant that has spent the cap is let in.
Allowed_AtCap(r) == r.month # month \/ r.cents <= Cap

\* What a reader of counter r decides: whoever comes before the month's first
\* record is let in, whatever the cap.
Allowed(r) == r.month # month \/ r.cents < Cap

\* The pre-flight check: an invocation runs or is refused; a failed read lets
\* it run.
CheckBudget(c) ==
  /\ pc[c] = "idle"
  /\ \/ Goto(c, IF Allowed(counter) THEN "running" ELSE "blocked") /\ UNCHANGED faultVars
     \/ Goto(c, IF Allowed(before) THEN "running" ELSE "blocked") /\ Fault("old")
     \/ Goto(c, "running") /\ Fault("read")
  /\ billed' = [billed EXCEPT ![c] = month]
  /\ Count
  /\ UNCHANGED <<month, counter, before, failed, spent, resent, raced>>

\* propose_pr looks at no cap.
StartJob(j) ==
  /\ pc[j] = "idle" /\ pc[Parent[j]] = "running"
  /\ Goto(j, "running")
  /\ Count
  /\ UNCHANGED <<month, counter, before, billed, failed, spent, resent, raced, faultVars>>

\* A charge ends: what succeeded is recorded, in the month it ends in.
Finish(c) ==
  /\ pc[c] = "running"
  /\ \/ /\ Goto(c, "incrementing")
        /\ billed' = [billed EXCEPT ![c] = month]
     \/ Goto(c, "failed") /\ UNCHANGED billed
  /\ Count
  /\ UNCHANGED <<month, counter, before, failed, spent, resent, raced, faultVars>>

Store(r) == counter' = r /\ before' = counter

Spend(c) == spent' = [spent EXCEPT ![billed[c]] = @ + Cost[c]]

\* Mutant: the cost is added to a total read before the last update.
Add_ReadFirst(c, r) == [month |-> billed[c], cents |-> before.cents + Cost[c]]

\* SET monthly_spend_cents = if_not_exists(monthly_spend_cents, 0) + cost.
Add(c, r) == [month |-> billed[c], cents |-> r.cents + Cost[c]]

\* attribute_not_exists(spend_month) OR spend_month = :month.
SameMonth(c) == counter.month \in {0, billed[c]}

\* The increment is applied again each time its answer is lost.
AddAgain(c, times) ==
  LET r == Add(c, counter)
  IN  /\ Store([r EXCEPT !.cents = @ + times * Cost[c]])
      /\ resent' = [resent EXCEPT ![billed[c]] = @ + times * Cost[c]]

Increment(c) ==
  /\ pc[c] = "incrementing"
  /\ \/ /\ SameMonth(c)
        /\ \/ Store(Add(c, counter)) /\ UNCHANGED <<resent, faultVars>>
           \/ (\E times \in 1 .. Resends : AddAgain(c, times)) /\ Fault("again")
        /\ Spend(c) /\ Goto(c, "done") /\ UNCHANGED failed
     \/ /\ ~SameMonth(c)
        /\ Goto(c, "resetting")
        /\ failed' = [failed EXCEPT ![c] = counter]
        /\ UNCHANGED <<counter, before, spent, resent, faultVars>>
     \/ /\ Fault("write")
        /\ Spend(c) /\ Goto(c, "done")
        /\ UNCHANGED <<counter, before, failed, resent>>
  /\ Count
  /\ UNCHANGED <<month, billed, raced>>

\* The second update of record_spend has no condition; sent again it stores the
\* same.
Reset(c) ==
  /\ pc[c] = "resetting"
  /\ \/ /\ Store([month |-> billed[c], cents |-> Cost[c]])
        /\ raced' = (raced \/ counter # failed[c] \/ counter.month > billed[c])
        /\ UNCHANGED faultVars
     \/ Fault("write") /\ UNCHANGED <<counter, before, raced>>
  /\ Spend(c)
  /\ Goto(c, "done")
  /\ Count
  /\ UNCHANGED <<month, billed, failed, resent>>

NextMonth ==
  /\ month < Months
  /\ month' = month + 1
  /\ UNCHANGED <<counter, before, pc, billed, failed, spent, resent, crowd, raced, faultVars>>

SpendNext ==
  \/ \E c \in Invocation : CheckBudget(c)
  \/ \E j \in Job : StartJob(j)
  \/ \E c \in Charge : Finish(c) \/ Increment(c) \/ Reset(c)
  \/ NextMonth

SpendSpec == SpendInit /\ [][SpendNext]_svars

-----------------------------------------------------------------------------
(***************************************************************************)
(* Properties.                                                             *)
(***************************************************************************)
\* A cap of zero lets in who comes before the first record, as a cap of a cent.
Limit == IF Cap = 0 THEN 1 ELSE Cap

MaxCost == CHOOSE n \in {Cost[c] : c \in Charge} : \A c \in Charge : Cost[c] <= n

\* A tenant is never counted more than it spent in the month and what increments
\* that boto3 sent again have added, whatever recorders overlap at its turn.
NeverOvercounted ==
  counter.month # 0 => counter.cents <= spent[counter.month] + resent[counter.month]

\* No cent is lost unless a call failed or, at the turn of a month, a reset
\* overwrote what another recorder had stored.
CountedExactly ==
  (happened = {} /\ ~raced /\ counter.month # 0) => counter.cents = spent[counter.month]

\* The spend of a month goes over the cap by less than what the charges that were
\* outstanding together can cost, as long as no read of the counter failed or
\* missed the last write, no update failed or was sent again, and no reset
\* overwrote what another recorder had stored.
OverspendBounded ==
  (happened = {} /\ ~raced) =>
    \A m \in Month : spent[m] > 0 => spent[m] < Limit + crowd * MaxCost

\* Nobody is refused in a month whose spend, with what increments sent again have
\* added to it, has not reached the cap: no other fault, no race and no earlier
\* month's counter refuses anyone.  (An increment sent again may, before the cap is
\* spent.)
BlockedOnlyOverCap ==
  \A c \in Invocation :
    pc[c] = "blocked" => spent[billed[c]] + resent[billed[c]] >= Cap
=============================================================================
