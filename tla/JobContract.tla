----------------------------- MODULE JobContract -----------------------------
(***************************************************************************)
(* What the agent promises about the background jobs it takes on, without  *)
(* rows, containers, threads or pings: a job is taken on at most once, it  *)
(* is tracked while someone works on it, and it is closed once, with its   *)
(* result and its bill fixed at that moment.  A bill above the job's price *)
(* comes only of an answer to a bill that was lost, so that the bill was   *)
(* sent again.                                                             *)
(***************************************************************************)
EXTENDS Naturals

CONSTANTS
  Job,       \* the jobs that may be asked for
  Price,     \* Price[j] \in Nat: the most job j can cost
  Repeat     \* how often a bill may be sent again

VARIABLES
  stage,     \* "new", "tracked" or "closed"
  result,    \* what is known of a closed job
  bill,      \* what a closed job was billed
  doubt      \* an answer to a bill was lost

cvars == <<stage, result, bill, doubt>>

Billable == {"success", "error"}
Results  == Billable \cup {"none", "orphaned"}

CTypeOK ==
  /\ stage \in [Job -> {"new", "tracked", "closed"}]
  /\ result \in [Job -> Results]
  /\ bill \in [Job -> Nat]
  /\ doubt \in BOOLEAN

CInit ==
  /\ stage = [j \in Job |-> "new"]
  /\ result = [j \in Job |-> "none"]
  /\ bill = [j \in Job |-> 0]
  /\ doubt = FALSE

Accept(j) ==
  /\ stage[j] = "new"
  /\ stage' = [stage EXCEPT ![j] = "tracked"]
  /\ UNCHANGED <<result, bill, doubt>>

Refuse(j) ==
  /\ stage[j] = "new"
  /\ stage' = [stage EXCEPT ![j] = "closed"]
  /\ UNCHANGED <<result, bill, doubt>>

\* Nobody knows whether the bill was taken: it is sent again.
LoseAnswer ==
  /\ doubt' = TRUE
  /\ UNCHANGED <<stage, result, bill>>

\* The most job j can be billed.
Most(j) == IF doubt THEN (1 + Repeat) * Price[j] ELSE Price[j]

\* Only a job that came to its own end is billed.
FairBill(r, c) == c > 0 => r \in Billable

Close(j) ==
  /\ stage[j] = "tracked"
  /\ stage' = [stage EXCEPT ![j] = "closed"]
  /\ \E r \in Results, c \in 0 .. Most(j) :
       /\ FairBill(r, c)
       /\ result' = [result EXCEPT ![j] = r]
       /\ bill' = [bill EXCEPT ![j] = c]
  /\ UNCHANGED doubt

\* The process dies: every tracked job and some of those being set up are
\* closed at once, with whatever was decided about them so far.
Die ==
  /\ stage' \in [Job -> {"new", "closed"}]
  /\ result' \in [Job -> Results]
  /\ bill' \in [Job -> Nat]
  /\ \A j \in Job :
       \/ /\ stage[j] = "tracked"
          /\ stage'[j] = "closed"
          /\ bill'[j] <= Most(j)
          /\ FairBill(result'[j], bill'[j])
       \/ /\ stage[j] # "tracked"
          /\ stage'[j] \in {stage[j], "closed"}
          /\ result'[j] = result[j]
          /\ bill'[j] = bill[j]
  /\ UNCHANGED doubt

CNext == Die \/ LoseAnswer \/ \E j \in Job : Accept(j) \/ Refuse(j) \/ Close(j)

CSpec == CInit /\ [][CNext]_cvars
=============================================================================
