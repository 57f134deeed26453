---------------------------- MODULE GitHubTokens ----------------------------
(***************************************************************************)
(* Installation tokens of the GitHub App.  Three programs hold the same    *)
(* module, each with a cache of its own: the agent (scm_github.py, asked   *)
(* before every request of its code tools), the bridge (github_app.py) and *)
(* the sandbox container, a fresh process that asks once and works with    *)
(* what it got until the pull request is open.  They share nothing but     *)
(* GitHub, so a behaviour is that of one process of one of them.           *)
(*                                                                         *)
(* A token is minted outside the lock, so two threads may mint at once and *)
(* the older token may take the newer one's place.  Time is in ticks of    *)
(* GitHub's clock; the program's own clock differs by its skew.            *)
(***************************************************************************)
EXTENDS Integers

CONSTANTS
  Thread,              \* threads of the process
  TTL,                 \* life of an installation token
  Buffer,              \* how long before its end a cached token is let go
  JwtLife, Backdate,   \* how an App JWT is dated
  JwtMax,              \* how far ahead GitHub lets it end
  Skew,                \* how far a program's clock may be ahead
  MaxTime,             \* bound: ticks
  MaxEra,              \* bound: suspensions
  NoToken              \* nothing cached

Program == {"agent", "bridge", "sandbox"}

ASSUME GitHubTokensAssumption ==
  /\ TTL \in Nat /\ Buffer \in Nat /\ JwtLife \in Nat /\ Backdate \in Nat /\ JwtMax \in Nat
  /\ MaxTime \in Nat /\ MaxEra \in Nat /\ Skew \subseteq Int
  /\ JwtLife + Backdate <= JwtMax /\ NoToken \notin [exp : Int, era : Nat]
  /\ \A k \in Skew : k <= Backdate /\ -k < JwtLife /\ Buffer + k < TTL

VARIABLES
  now,      \* GitHub's clock
  program,  \* which program it is
  skew,     \* how far its clock is ahead of GitHub's
  active,   \* the installation is there and not suspended
  era,      \* how many times it was suspended: what revokes its tokens
  revoked,  \* when it was suspended last
  cache,    \* the token it has cached, NoToken for none
  th        \* the threads

ghvars == <<now, program, skew, active, era, revoked, cache, th>>

InstallationToken == [exp : Int, era : Nat]
Waiting == [at |-> "idle", tok |-> NoToken, since |-> 0]

GitHubTokensInit ==
  /\ now = 0 /\ active = TRUE /\ era = 0 /\ revoked = 0
  /\ program \in Program /\ skew \in Skew
  /\ cache = NoToken
  /\ th = [t \in Thread |-> Waiting]

Becomes(t, to) == th' = [th EXCEPT ![t] = to]
Held(k, when)  == [at |-> "held", tok |-> k, since |-> when]

\* Mutant: a cached token is good until its very end.
Fresh_NoBuffer(k) == now + skew < k.exp

\* is_expired: by its own clock, the token will not end within the buffer.
Fresh(k) == now + skew + Buffer < k.exp

\* GitHub takes an App JWT that is not from the future, has not ended and does
\* not end too far ahead.
JwtTaken(k) ==
  LET iat == now + k - Backdate
      exp == now + k + JwtLife IN
  iat <= now /\ now < exp /\ exp <= now + JwtMax

-----------------------------------------------------------------------------
(* get_installation_token.                                                 *)

\* Under the lock: the cached token if it is fresh, or go and mint one.
Cached(t) ==
  /\ th[t].at = "idle"
  /\ program = "sandbox" => \A u \in Thread : th[u].at = "idle"    \* it has one thread
  /\ IF cache # NoToken /\ Fresh(cache)
     THEN Becomes(t, Held(cache, now))
     ELSE Becomes(t, [Waiting EXCEPT !.at = "mint"])
  /\ UNCHANGED <<now, program, skew, active, era, revoked, cache>>

\* Exchange an App JWT for a token.  No installation, no private key or no
\* answer is a RuntimeError: the caller cannot reach the code now, and a
\* container's job ends.
Exchange(t) ==
  /\ th[t].at = "mint"
  /\ \/ /\ active /\ JwtTaken(skew)
        /\ Becomes(t, [at |-> "store", tok |-> [exp |-> now + TTL, era |-> era], since |-> now])
     \/ Becomes(t, IF program = "sandbox" THEN [Waiting EXCEPT !.at = "over"] ELSE Waiting)
  /\ UNCHANGED <<now, program, skew, active, era, revoked, cache>>

\* Mutant: the Z of GitHub's answer is dropped and its time read as local time.
Stored_LocalTime(k) == [k EXCEPT !.exp = @ + Buffer]

\* The token goes to the cache as GitHub dated it.
Stored(k) == k

\* Under the lock again: the cache is overwritten, whatever is there by now.
Store(t) ==
  /\ th[t].at = "store"
  /\ cache' = Stored(th[t].tok)
  /\ Becomes(t, [th[t] EXCEPT !.at = "held"])
  /\ UNCHANGED <<now, program, skew, active, era, revoked>>

-----------------------------------------------------------------------------
(* Who asks.                                                               *)

Accepted(k) == active /\ k.era = era /\ now < k.exp

\* A code tool of the agent asks before each request and forgets the token.
\* A refusal is a BackendError; nobody drops the cached token for it.
AgentRequest(t) ==
  /\ program = "agent" /\ th[t].at = "held"
  /\ Becomes(t, Waiting)
  /\ UNCHANGED <<now, program, skew, active, era, revoked, cache>>

\* The bridge lists the repositories of an installation, page after page with
\* one token.
BridgeRequest(t) ==
  /\ program = "bridge" /\ th[t].at = "held"
  /\ \/ Accepted(th[t].tok) /\ UNCHANGED th
     \/ Becomes(t, Waiting)
  /\ UNCHANGED <<now, program, skew, active, era, revoked, cache>>

\* The container: the default branch and the clone, the push after the agent
\* loop, the pull request.  A refusal ends the job.
BoxRequest(t) ==
  /\ program = "sandbox" /\ th[t].at = "held"
  /\ IF Accepted(th[t].tok) THEN UNCHANGED th ELSE Becomes(t, [Waiting EXCEPT !.at = "over"])
  /\ UNCHANGED <<now, program, skew, active, era, revoked, cache>>

\* The pull request is open, or the job has failed elsewhere.
BoxEnds(t) ==
  /\ program = "sandbox" /\ th[t].at \in {"held", "idle"}
  /\ Becomes(t, [Waiting EXCEPT !.at = "over"])
  /\ UNCHANGED <<now, program, skew, active, era, revoked, cache>>

-----------------------------------------------------------------------------
\* The owner suspends the installation, which revokes its tokens, or lets it go on.
Suspend ==
  /\ active /\ era < MaxEra /\ active' = FALSE
  /\ era' = era + 1 /\ revoked' = now
  /\ UNCHANGED <<now, program, skew, cache, th>>

Resume ==
  /\ ~active /\ active' = TRUE
  /\ UNCHANGED <<now, program, skew, era, revoked, cache, th>>

\* The process ends and another starts with an empty cache.
Restart ==
  /\ cache' = NoToken
  /\ th' = [t \in Thread |-> Waiting]
  /\ UNCHANGED <<now, program, skew, active, era, revoked>>

Tick ==
  /\ now < MaxTime /\ now' = now + 1
  /\ UNCHANGED <<program, skew, active, era, revoked, cache, th>>

GitHubTokensNext ==
  \/ \E t \in Thread : \/ Cached(t) \/ Exchange(t) \/ Store(t)
                       \/ AgentRequest(t) \/ BridgeRequest(t)
                       \/ BoxRequest(t) \/ BoxEnds(t)
  \/ Suspend \/ Resume \/ Tick \/ Restart

GitHubTokensSpec == GitHubTokensInit /\ [][GitHubTokensNext]_ghvars

-----------------------------------------------------------------------------
Places == {"idle", "mint", "store", "held", "over"}

GitHubTokensTypeOK ==
  /\ now \in Nat /\ program \in Program /\ skew \in Skew
  /\ active \in BOOLEAN /\ era \in Nat /\ revoked \in Nat
  /\ cache \in InstallationToken \cup {NoToken}
  /\ th \in [Thread -> [at : Places, tok : InstallationToken \cup {NoToken}, since : Nat]]
  /\ \A t \in Thread : th[t].at \in {"store", "held"} => th[t].tok # NoToken

\* A token that was handed out works for the buffer's length, less what the
\* clock is behind, however the threads' mints and writes of the cache cross:
\* only the owner of the installation takes it away earlier.  What a container
\* starts with lasts a whole TTL: a job that pushes within it is not refused.
PromptUseWorks ==
  \A t \in Thread : th[t].at = "held" =>
    /\ now - th[t].since <= Buffer + skew => now < th[t].tok.exp
    /\ program = "sandbox" /\ now - th[t].since < TTL => now < th[t].tok.exp

\* Nothing drops a cached token that was revoked, for no caller forgets it on a
\* refusal; yet it is handed out no longer than its time runs: TTL less the
\* buffer after the suspension, by a right clock.
OutageBounded ==
  \A t \in Thread :
    th[t].at = "held" /\ th[t].tok.era < era /\ th[t].since > revoked
      => th[t].since + Buffer + skew < revoked + TTL
=============================================================================
