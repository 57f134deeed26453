----------------------------- MODULE Dashboards -----------------------------
(***************************************************************************)
(* The dashboards the agent renders and the public route that serves them: *)
(* render_dashboard writes a record with a deadline and gives the user its *)
(* address; a page asks /internal/dashboard, which one worker of the       *)
(* bridge admits through a token bucket per source (rate_limit.py) and a   *)
(* bounded number of reads, and reads the record in a thread               *)
(* (dashboard_store.py).  The page of the console is fetched by its own    *)
(* server, so all who look at it are one source.                           *)
(*                                                                         *)
(* Time is in ticks.  A bucket counts Period-ths of a token, so that what  *)
(* flows in during a tick is a whole number, Capacity of them.             *)
(***************************************************************************)
EXTENDS Integers, FiniteSets, FiniteSetsExt

CONSTANTS
  Worker,    \* processes of the bridge, each with its own limiter
  Source,    \* addresses requests come from
  Request,   \* requests in flight at one time
  Board,     \* dashboards
  Capacity,  \* tokens of a full bucket, and tokens that flow in per Period
  Period,    \* ticks in which a bucket fills, and is forgotten when idle
  MaxKeys,   \* sources a limiter remembers
  Slots,     \* reads a worker makes at one time
  Lifetime,  \* ticks a dashboard is to be seen
  MaxTime,   \* bound: ticks
  None       \* nothing there

ASSUME DashboardsAssumption ==
  /\ {Capacity, Period, MaxKeys, Slots, Lifetime} \subseteq Nat \ {0}
  /\ MaxTime \in Nat
  /\ None \notin Worker \cup Source \cup Board \cup Int \cup [tokens : Int, at : Int]

VARIABLES
  now,      \* the clock
  board,    \* board[d]: the deadline of dashboard d, None before it is made
  stored,   \* the dashboards whose record is in the table
  given,    \* the dashboards whose address was given to the user
  bucket,   \* bucket[w][s]: worker w's bucket of source s, None when forgotten
  free,     \* free[w]: read slots left
  req,      \* the requests
  log,      \* history: log[w][s][t], requests admitted up to time t, so far
  told      \* history: told[w][s], when a source was told to come again

vars == <<now, board, stored, given, bucket, free, req, log, told>>

Full     == Capacity * Period
OneToken == Period
Times    == 0 .. MaxTime
Idle     == [at |-> "idle", worker |-> None, board |-> None, seen |-> None, answer |-> "none"]
Answers  == {"none", "spec", "not_found", "rate", "busy", "unavailable"}

DashboardsTypeOK ==
  /\ now \in Times
  /\ board \in [Board -> Int \cup {None}]
  /\ stored \subseteq Board /\ given \subseteq Board
  /\ bucket \in [Worker -> [Source -> [tokens : 0 .. Full, at : Times] \cup {None}]]
  /\ free \in [Worker -> 0 .. Slots]
  /\ req \in [Request -> [at : {"idle", "reading", "over"}, worker : Worker \cup {None},
                          board : Board \cup {None}, seen : Times \cup {None},
                          answer : Answers]]
  /\ log \in [Worker -> [Source -> [Times -> Nat]]]
  /\ told \in [Worker -> [Source -> Nat \cup {None}]]

DashboardsInit ==
  /\ now = 0
  /\ board = [d \in Board |-> None] /\ stored = {} /\ given = {}
  /\ bucket = [w \in Worker |-> [s \in Source |-> None]]
  /\ free = [w \in Worker |-> Slots]
  /\ req = [r \in Request |-> Idle]
  /\ log = [w \in Worker |-> [s \in Source |-> [t \in Times |-> 0]]]
  /\ told = [w \in Worker |-> [s \in Source |-> None]]

limiter == <<bucket, log, told>>

-----------------------------------------------------------------------------
(* The agent makes a dashboard.                                            *)

\* _put_dashboard_spec: written, or it raises and may have written all the same.
Put(d, ok) == stored' \in IF ok THEN {stored \cup {d}} ELSE {stored, stored \cup {d}}

\* render_dashboard: a deadline, the record under a new token, and its address
\* for the user if the write succeeds.  (What is invalid, or has no safe base
\* address, leaves nothing.)
Render(d) ==
  /\ board[d] = None
  /\ board' = [board EXCEPT ![d] = now + Lifetime]
  /\ \E ok \in BOOLEAN : Put(d, ok) /\ given' = IF ok THEN given \cup {d} ELSE given
  /\ UNCHANGED <<now, limiter, free, req>>

\* DynamoDB deletes what is past its deadline, some time later.
TimeToLive(d) ==
  /\ d \in stored /\ board[d] <= now
  /\ stored' = stored \ {d}
  /\ UNCHANGED <<now, board, given, limiter, free, req>>

-----------------------------------------------------------------------------
(* The limiter.                                                            *)

\* Mutant: the limiter forgets whoever was not here in this tick.
Stale_Any(b) == now - b.at >= 1

\* A bucket that nobody has touched for a Period.
Stale(b) == now - b.at >= Period

\* _prune_idle: make room, when a source comes that has no bucket.
Pruned(bs) == [s \in Source |-> IF bs[s] # None /\ Stale(bs[s]) THEN None ELSE bs[s]]

Known(bs) == {s \in Source : bs[s] # None}

\* What is in a bucket by now.
Available(b) == Min({Full, b.tokens + (now - b.at) * Capacity})

\* Mutant: the wait is rounded down.
Wait_Floor(have) == Max({1, (OneToken - have) \div Capacity})

\* How long until one token has flowed in, in whole ticks, and one at least.
Wait(have) == Max({1, (OneToken - have + Capacity - 1) \div Capacity})

\* TokenBucketRateLimiter.retry_after for source s in worker w: admitted, or
\* told to wait; a new source is refused when the limiter has no room, and told to
\* wait as if it had an empty bucket.
Limited(w, s, admitted) ==
  LET bs   == IF bucket[w][s] = None THEN Pruned(bucket[w]) ELSE bucket[w]
      full == bs[s] = None /\ Cardinality(Known(bs)) >= MaxKeys
      have == IF bs[s] = None THEN Full ELSE Available(bs[s])
      Left(n) == bucket' = [bucket EXCEPT ![w] = [bs EXCEPT ![s] = [tokens |-> n, at |-> now]]]
  IN
  \/ /\ full /\ ~admitted
     /\ bucket' = [bucket EXCEPT ![w] = bs]
     /\ told' = [told EXCEPT ![w][s] = now + Wait(0)]
     /\ UNCHANGED log
  \/ /\ ~full /\ have < OneToken /\ ~admitted
     /\ Left(have)
     /\ told' = [told EXCEPT ![w][s] = now + Wait(have)]
     /\ UNCHANGED log
  \/ /\ ~full /\ have >= OneToken /\ admitted
     /\ Left(have - OneToken)
     /\ log' = [log EXCEPT ![w][s] = [t \in Times |-> @[t] + IF t >= now THEN 1 ELSE 0]]
     /\ told' = [told EXCEPT ![w][s] = None]

-----------------------------------------------------------------------------
(* A request.                                                              *)

\* GET /internal/dashboard: the limiter, then a slot if there is one, then
\* the read in a thread.
Get(r, w, s, d) ==
  /\ req[r].at = "idle" /\ d \in given
  /\ \E admitted \in BOOLEAN :
       /\ Limited(w, s, admitted)
       /\ LET Answer(a) == [Idle EXCEPT !.at = "over", !.worker = w, !.board = d, !.answer = a] IN
          IF ~admitted
            THEN req' = [req EXCEPT ![r] = Answer("rate")] /\ UNCHANGED free
          ELSE IF free[w] = 0
            THEN req' = [req EXCEPT ![r] = Answer("busy")] /\ UNCHANGED free
          ELSE /\ free' = [free EXCEPT ![w] = @ - 1]
               /\ req' = [req EXCEPT ![r] = [Idle EXCEPT !.at = "reading", !.worker = w, !.board = d]]
  /\ UNCHANGED <<now, board, stored, given>>

\* Mutant: the deadline is left to DynamoDB.
InTime_Stored(d) == TRUE

\* The deadline is enforced by the reader too: deletion may lag by days.
InTime(d) == board[d] > now

\* The slot is given back, however the read went.
Released(w, a) == [free EXCEPT ![w] = @ + 1]

\* get_dashboard_spec in the thread: the record, nothing, or a store that
\* cannot be read.
Read(r) ==
  LET d == req[r].board
      w == req[r].worker
      Reply(a) == /\ req' = [req EXCEPT ![r].at = "over", ![r].seen = now, ![r].answer = a]
                  /\ free' = Released(w, a) IN
  /\ req[r].at = "reading"
  /\ \/ d \in stored /\ InTime(d) /\ Reply("spec")
     \/ ~(d \in stored /\ InTime(d)) /\ Reply("not_found")
     \/ Reply("unavailable")
  /\ UNCHANGED <<now, board, stored, given, limiter>>

\* The page has its answer, and the viewer may load it again.
Again(r) ==
  /\ req[r].at = "over"
  /\ req' = [req EXCEPT ![r] = Idle]
  /\ UNCHANGED <<now, board, stored, given, limiter, free>>

Tick ==
  /\ now < MaxTime /\ now' = now + 1
  /\ UNCHANGED <<board, stored, given, limiter, free, req>>

\* A worker dies: its limiter, its slots and its requests are gone.
Restart(w) ==
  /\ bucket' = [bucket EXCEPT ![w] = [s \in Source |-> None]]
  /\ free' = [free EXCEPT ![w] = Slots]
  /\ req' = [r \in Request |-> IF req[r].worker = w THEN Idle ELSE req[r]]
  /\ log' = [log EXCEPT ![w] = [s \in Source |-> [t \in Times |-> 0]]]
  /\ told' = [told EXCEPT ![w] = [s \in Source |-> None]]
  /\ UNCHANGED <<now, board, stored, given>>

DashboardsNext ==
  \/ Tick
  \/ \E d \in Board : Render(d) \/ TimeToLive(d)
  \/ \E r \in Request :
       \/ Read(r) \/ Again(r)
       \/ \E w \in Worker, s \in Source, d \in Board : Get(r, w, s, d)
  \/ \E w \in Worker : Restart(w)

DashboardsSpec == DashboardsInit /\ [][DashboardsNext]_vars

-----------------------------------------------------------------------------
\* The requests of source s that worker w admitted from time t1 to time t2.
Admitted(w, s, t1, t2) == log[w][s][t2] - IF t1 = 0 THEN 0 ELSE log[w][s][t1 - 1]

\* In any stretch of time a worker admits from one source at most a full bucket
\* and what flows in meanwhile: forgetting idle sources, and refusing new ones
\* when there is no room, never gives anyone a fuller bucket.
RateBounded ==
  \A w \in Worker, s \in Source, t1, t2 \in 0 .. now : t1 <= t2 =>
    Admitted(w, s, t1, t2) * Period <= Full + (t2 - t1) * Capacity

\* Whether a request of source s would be admitted now.
Admits(w, s) ==
  IF bucket[w][s] = None THEN ~(Cardinality(Known(Pruned(bucket[w]))) >= MaxKeys)
                         ELSE Available(bucket[w][s]) >= OneToken

\* The sources worker w has heard of within the last Period.
Recent(w) == {q \in Source : bucket[w][q] # None /\ now < bucket[w][q].at + Period}

\* Who was refused and waits as long as Retry-After says, and was not admitted in
\* between, is admitted: rounding, and the writes that other refusals make in the
\* meantime, take nothing away.  To a source that the limiter does not know, or has
\* forgotten, Retry-After is no promise: it is refused again as long as MaxKeys
\* others have all been here within the last Period.
RetryAfterKept ==
  \A w \in Worker, s \in Source :
    told[w][s] # None /\ now >= told[w][s] =>
      \/ Admits(w, s)
      \/ bucket[w][s] = None /\ Cardinality(Recent(w)) >= MaxKeys

\* A link that was given works until its deadline and not a moment longer,
\* though the record outlives it and its deletion may come at any time.
LinkHonest ==
  \A r \in Request : req[r].seen # None =>
    /\ req[r].answer = "spec" => req[r].seen < board[req[r].board]
    /\ req[r].answer = "not_found" => req[r].seen >= board[req[r].board]
=============================================================================
