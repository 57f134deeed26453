------------------------- MODULE Credentials_proofs -------------------------
(***************************************************************************)
(* The credentials the program holds for a tenant.  A token of the GitHub  *)
(* App that is handed out works, and a revoked one is not handed out for   *)
(* long, for every number of threads, every clock skew the dating of the   *)
(* App JWT allows for and every length of the lives and the buffer         *)
(* (GitHubTokens).  A connector's key is stored with the server it is for, *)
(* whatever submissions cross, fail or lose their answers, for every       *)
(* number of tenants, submissions, workers, gateways and keys              *)
(* (Connectors).                                                           *)
(***************************************************************************)
EXTENDS GitHubTokens, Connectors, TLAPS

\* What is known of a token wherever it is kept: how long it lives from now, and
\* that one revoked was minted before its installation was suspended.
TokenDated(k) ==
  /\ k.exp <= now + TTL
  /\ k.era <= era
  /\ k.era < era => k.exp <= revoked + TTL

\* A thread's token outlives the buffer from when it was asked for; a container
\* has minted its own.
TokenTaken(r) ==
  r.at \in {"store", "held"} =>
    /\ r.since <= now
    /\ r.since + skew + Buffer < r.tok.exp
    /\ program = "sandbox" => r.tok.exp = r.since + TTL

GInv ==
  /\ GitHubTokensTypeOK
  /\ revoked <= now
  /\ cache # NoToken => TokenDated(cache)
  /\ \A t \in Thread : th[t].tok # NoToken => TokenDated(th[t].tok)
  /\ \A t \in Thread : TokenTaken(th[t])
  /\ program = "sandbox" /\ cache # NoToken => \E t \in Thread : th[t].at \in {"held", "over"}

LEMMA GInit == GitHubTokensInit => GInv
  BY GitHubTokensAssumption
  DEF GitHubTokensInit, GInv, GitHubTokensTypeOK, TokenDated, TokenTaken, Waiting, Places, InstallationToken

\* A thread that lets its token go and is not mid-way any more.
LEMMA GLetsGo ==
  ASSUME GInv, NEW t \in Thread, NEW p \in {"idle", "mint", "over"},
         Becomes(t, [Waiting EXCEPT !.at = p]),
         UNCHANGED <<now, program, skew, active, era, revoked, cache>>,
         th[t].at \in {"held", "over"} => p = "over" \/ program # "sandbox"
  PROVE  GInv'
  <1> USE DEF GInv, GitHubTokensTypeOK, Becomes, Waiting, Places
  <1>0. th'[t] = [at |-> p, tok |-> NoToken, since |-> 0] /\ \A u \in Thread \ {t} : th'[u] = th[u]
    OBVIOUS
  <1>1. GitHubTokensTypeOK'
    BY <1>0
  <1>2. (revoked <= now)' /\ (cache # NoToken => TokenDated(cache))'
    BY DEF TokenDated
  <1>3. (\A u \in Thread : th[u].tok # NoToken => TokenDated(th[u].tok))'
    BY <1>0 DEF TokenDated
  <1>4. (\A u \in Thread : TokenTaken(th[u]))'
    BY <1>0 DEF TokenTaken
  <1>5. (program = "sandbox" /\ cache # NoToken => \E u \in Thread : th[u].at \in {"held", "over"})'
    BY <1>0
  <1> QED BY <1>1, <1>2, <1>3, <1>4, <1>5

\* A thread that is handed a token, from the cache or from GitHub.
LEMMA GTakes ==
  ASSUME GInv, NEW t \in Thread, NEW p \in {"store", "held"}, NEW k \in InstallationToken,
         Becomes(t, [at |-> p, tok |-> k, since |-> now]),
         UNCHANGED <<now, program, skew, active, era, revoked, cache>>,
         th[t].at \in {"idle", "mint"},
         TokenDated(k), now + skew + Buffer < k.exp,
         program = "sandbox" => k.exp = now + TTL
  PROVE  GInv'
  <1> USE DEF GInv, GitHubTokensTypeOK, Becomes, Places
  <1>0. th'[t] = [at |-> p, tok |-> k, since |-> now] /\ \A u \in Thread \ {t} : th'[u] = th[u]
    OBVIOUS
  <1>1. GitHubTokensTypeOK'
    <2>1. th' \in [Thread -> [at : Places, tok : InstallationToken \cup {NoToken}, since : Nat]]
      BY <1>0
    <2>2. \A u \in Thread : th'[u].at \in {"store", "held"} => th'[u].tok # NoToken
      <3>1. k # NoToken
        BY GitHubTokensAssumption DEF InstallationToken
      <3> QED BY <1>0, <3>1
    <2> QED BY <2>1, <2>2
  <1>2. (revoked <= now)' /\ (cache # NoToken => TokenDated(cache))'
    BY DEF TokenDated
  <1>3. (\A u \in Thread : th[u].tok # NoToken => TokenDated(th[u].tok))'
    BY <1>0 DEF TokenDated
  <1>4. (\A u \in Thread : TokenTaken(th[u]))'
    BY <1>0 DEF TokenTaken
  <1>5. (program = "sandbox" /\ cache # NoToken => \E u \in Thread : th[u].at \in {"held", "over"})'
    BY <1>0
  <1> QED BY <1>1, <1>2, <1>3, <1>4, <1>5
LEMMA GCached == ASSUME GInv, NEW t \in Thread, Cached(t) PROVE GInv'
  <1>1. CASE cache # NoToken /\ Fresh(cache)
    <2>1. cache \in InstallationToken /\ TokenDated(cache)
      BY <1>1 DEF GInv, GitHubTokensTypeOK
    <2>2. th[t].at = "idle" /\ Becomes(t, [at |-> "held", tok |-> cache, since |-> now])
      BY <1>1 DEF Cached, Held
    <2>3. now + skew + Buffer < cache.exp
      BY <1>1 DEF Fresh
    <2>4. program # "sandbox"
      <3> SUFFICES ASSUME program = "sandbox" PROVE FALSE
        OBVIOUS
      <3>1. PICK u \in Thread : th[u].at \in {"held", "over"}
        BY <1>1 DEF GInv
      <3> QED BY <3>1 DEF Cached
    <2> QED BY <2>1, <2>2, <2>3, <2>4, GTakes DEF Cached
  <1>2. CASE ~(cache # NoToken /\ Fresh(cache))
    BY <1>2, GLetsGo DEF Cached
  <1> QED BY <1>1, <1>2

LEMMA GExchange == ASSUME GInv, NEW t \in Thread, Exchange(t) PROVE GInv'
  <1> DEFINE k == [exp |-> now + TTL, era |-> era]
  <1>0. now \in Nat /\ era \in Nat /\ revoked <= now /\ revoked \in Nat
    BY DEF GInv, GitHubTokensTypeOK
  <1>1. CASE Becomes(t, [at |-> "store", tok |-> k, since |-> now])
    <2>1. k \in InstallationToken /\ TokenDated(k)
      BY <1>0, GitHubTokensAssumption DEF InstallationToken, TokenDated
    <2>2. now + skew + Buffer < k.exp /\ k.exp = now + TTL
      BY <1>0, GitHubTokensAssumption DEF GInv, GitHubTokensTypeOK
    <2> QED BY <1>1, <2>1, <2>2, GTakes DEF Exchange
  <1>2. CASE Becomes(t, [Waiting EXCEPT !.at = "over"])
    BY <1>2, GLetsGo DEF Exchange
  <1>3. CASE Becomes(t, Waiting)
    <2>1. Waiting = [Waiting EXCEPT !.at = "idle"]
      BY DEF Waiting
    <2> QED BY <1>3, <2>1, GLetsGo DEF Exchange
  <1> QED BY <1>1, <1>2, <1>3 DEF Exchange

LEMMA GStore == ASSUME GInv, NEW t \in Thread, Store(t) PROVE GInv'
  <1> USE DEF GInv, GitHubTokensTypeOK, Store, Becomes, Stored, Places
  <1>0. /\ th'[t] = [at |-> "held", tok |-> th[t].tok, since |-> th[t].since]
        /\ \A u \in Thread \ {t} : th'[u] = th[u]
        /\ th[t].tok \in InstallationToken /\ TokenDated(th[t].tok)
    OBVIOUS
  <1>1. GitHubTokensTypeOK'
    BY <1>0
  <1>2. (revoked <= now)' /\ (cache # NoToken => TokenDated(cache))'
    BY <1>0 DEF TokenDated
  <1>3. (\A u \in Thread : th[u].tok # NoToken => TokenDated(th[u].tok))'
    BY <1>0 DEF TokenDated
  <1>4. (\A u \in Thread : TokenTaken(th[u]))'
    BY <1>0 DEF TokenTaken
  <1>5. (program = "sandbox" /\ cache # NoToken => \E u \in Thread : th[u].at \in {"held", "over"})'
    BY <1>0
  <1> QED BY <1>1, <1>2, <1>3, <1>4, <1>5

LEMMA GRequests ==
  ASSUME GInv, NEW t \in Thread, AgentRequest(t) \/ BridgeRequest(t) \/ BoxRequest(t) \/ BoxEnds(t)
  PROVE  GInv'
  <1>1. CASE Becomes(t, Waiting) /\ program # "sandbox"
    <2>1. Waiting = [Waiting EXCEPT !.at = "idle"]
      BY DEF Waiting
    <2> QED BY <1>1, <2>1, GLetsGo DEF AgentRequest, BridgeRequest, BoxRequest, BoxEnds
  <1>2. CASE Becomes(t, [Waiting EXCEPT !.at = "over"])
    BY <1>2, GLetsGo DEF AgentRequest, BridgeRequest, BoxRequest, BoxEnds
  <1>3. CASE UNCHANGED ghvars
    BY <1>3 DEF GInv, GitHubTokensTypeOK, TokenDated, TokenTaken, ghvars
  <1> QED BY <1>1, <1>2, <1>3 DEF AgentRequest, BridgeRequest, BoxRequest, BoxEnds, ghvars

\* A suspension revokes what was minted before it, and that ends within a life.
LEMMA GSuspend == ASSUME GInv, Suspend PROVE GInv'
  <1>1. /\ now' = now /\ program' = program /\ skew' = skew /\ cache' = cache /\ th' = th
        /\ era' = era + 1 /\ revoked' = now /\ active' = FALSE
    BY DEF Suspend
  <1>2. now \in Nat /\ era \in Nat /\ revoked \in Nat /\ revoked <= now /\ TTL \in Nat
    BY GitHubTokensAssumption DEF GInv, GitHubTokensTypeOK
  <1>3. GitHubTokensTypeOK' /\ (revoked <= now)'
    <2>1. era' \in Nat /\ revoked' \in Nat /\ revoked' <= now'
      BY <1>1, <1>2
    <2>2. active' \in BOOLEAN
      BY <1>1, Zenon
    <2> QED BY <1>1, <2>1, <2>2 DEF GInv, GitHubTokensTypeOK
  <1>4. ASSUME NEW k \in InstallationToken, TokenDated(k)
        PROVE  k.exp <= now' + TTL /\ k.era <= era' /\ (k.era < era' => k.exp <= revoked' + TTL)
    BY <1>1, <1>2, <1>4 DEF TokenDated, InstallationToken
  <1>5. (cache # NoToken => TokenDated(cache))'
    BY <1>1, <1>4 DEF GInv, GitHubTokensTypeOK, TokenDated
  <1>6. ASSUME NEW u \in Thread, th[u].tok # NoToken PROVE TokenDated(th[u].tok)'
    <2>1. th[u].tok \in InstallationToken /\ TokenDated(th[u].tok)
      BY <1>6 DEF GInv, GitHubTokensTypeOK
    <2> QED BY <1>1, <1>4, <2>1 DEF TokenDated
  <1>7. ASSUME NEW u \in Thread PROVE TokenTaken(th[u])'
    BY <1>1 DEF GInv, TokenTaken
  <1>8. (program = "sandbox" /\ cache # NoToken => \E u \in Thread : th[u].at \in {"held", "over"})'
    BY <1>1 DEF GInv
  <1> QED BY <1>1, <1>3, <1>5, <1>6, <1>7, <1>8 DEF GInv

\* The installation and the clock move on, or the process starts again.
LEMMA GWorld == ASSUME GInv, Suspend \/ Resume \/ Tick \/ Restart PROVE GInv'
  <1> USE GitHubTokensAssumption DEF GInv, GitHubTokensTypeOK, TokenDated, TokenTaken, InstallationToken
  <1>1. CASE Suspend BY <1>1, GSuspend
  <1>2. CASE Resume  BY <1>2 DEF Resume
  <1>3. CASE Tick    BY <1>3 DEF Tick
  <1>4. CASE Restart BY <1>4 DEF Restart, Waiting, Places
  <1> QED BY <1>1, <1>2, <1>3, <1>4

LEMMA GInductive == GitHubTokensSpec => []GInv
  <1>1. GInv /\ [GitHubTokensNext]_ghvars => GInv'
    <2> SUFFICES ASSUME GInv, [GitHubTokensNext]_ghvars PROVE GInv'
      OBVIOUS
    <2>1. CASE UNCHANGED ghvars
      BY <2>1 DEF GInv, GitHubTokensTypeOK, TokenDated, TokenTaken, ghvars
    <2>2. ASSUME NEW t \in Thread, Cached(t) PROVE GInv'
      BY <2>2, GCached
    <2>3. ASSUME NEW t \in Thread, Exchange(t) PROVE GInv'
      BY <2>3, GExchange
    <2>4. ASSUME NEW t \in Thread, Store(t) PROVE GInv'
      BY <2>4, GStore
    <2>5. ASSUME NEW t \in Thread, AgentRequest(t) \/ BridgeRequest(t) \/ BoxRequest(t) \/ BoxEnds(t)
          PROVE  GInv'
      BY <2>5, GRequests
    <2>6. CASE Suspend \/ Resume \/ Tick \/ Restart
      BY <2>6, GWorld
    <2> QED BY <2>1, <2>2, <2>3, <2>4, <2>5, <2>6 DEF GitHubTokensNext
  <1> QED BY <1>1, GInit, PTL DEF GitHubTokensSpec

\* The state keeps its types.
THEOREM GitHubTokensTyped == GitHubTokensSpec => []GitHubTokensTypeOK
  <1>1. GInv => GitHubTokensTypeOK BY DEF GInv
  <1> QED BY <1>1, GInductive, PTL

\* A token handed out works for the buffer's length, a container's for a whole
\* life, however mints and writes of the cache cross.
THEOREM TokensWork == GitHubTokensSpec => []PromptUseWorks
  <1>1. GInv => PromptUseWorks
    BY GitHubTokensAssumption
    DEF GInv, GitHubTokensTypeOK, InstallationToken, TokenTaken, PromptUseWorks
  <1> QED BY <1>1, GInductive, PTL

\* A token of a suspended installation is handed out no longer than its own life
\* allows, though nothing drops it from the cache.
THEOREM OutagesEnd == GitHubTokensSpec => []OutageBounded
  <1>1. GInv => OutageBounded
    BY GitHubTokensAssumption
    DEF GInv, GitHubTokensTypeOK, InstallationToken, TokenDated, TokenTaken, OutageBounded
  <1> QED BY <1>1, GInductive, PTL

-----------------------------------------------------------------------------
(***************************************************************************)
(* The connectors.  The inductive invariant follows each submission from   *)
(* its first write to its answer: whose key and server its slot has, what  *)
(* its worker knows of the gateway, and what the row it read lists.        *)
(***************************************************************************)

\* A submission under way is of a slot and at a worker; one that was answered
\* has its slot.
Placed ==
  \A r \in Req :
    /\ req[r].at # "idle" => req[r].slot \in Slot
    /\ Working(r) => req[r].worker \in Worker
    /\ req[r].reply # "none" => req[r].at = "done"

\* The phases after the first write, and after the second.
Keyed(r)    == req[r].at \in {"find_target", "write_target", "read_row", "write_row"}
Targeted(r) == req[r].at \in {"read_row", "write_row"}
Ok(r)       == req[r].reply = "ok"

\* A key is of the last submission of its slot that wrote one.
KeyedOnce ==
  \A s \in Slot : key[s] # None =>
    /\ req[key[s]].slot = s
    /\ Keyed(key[s]) \/ req[key[s]].at = "done"

\* Until two submissions of a slot overlap, one between its writes has its key.
Separate == \A r \in Req, s \in Slot : Halfway(r, s) /\ s \notin mixed => key[s] = r

\* From its second write on, a submission that has the key has the server too,
\* or nobody has.
Paired ==
  \A s \in Slot :
    key[s] # None /\ s \notin mixed /\ (Targeted(key[s]) \/ Ok(key[s]))
      => server[s] \in {key[s], None}

\* What a submission that found a target knows: its worker's gateway.
Located ==
  \A r \in Req :
    req[r].at \in {"write_target", "read_row", "write_row"} => coords[req[r].worker] # NoPair

\* The provider is there, and the target unless it was deleted.
Provided(s) == key[s] # None /\ (s \notin wiped => server[s] # None)

Listed ==
  /\ \A t \in Tenant : \A b \in Versions(t) : \A i \in b.connected : Provided(<<t, i>>)
  /\ \A r \in Req :
       /\ Keyed(r) => key[req[r].slot] # None
       /\ Targeted(r) => Provided(req[r].slot)
       /\ req[r].at = "write_row" =>
            \A i \in req[r].got.connected : Provided(<<req[r].slot[1], i>>)

\* What no other submission runs into.
Apart ==
  \A r \in alone :
    /\ req[r].at # "idle"
    /\ \A q \in Req \ {r} : Working(q) =>
         /\ req[q].slot # req[r].slot
         /\ Working(r) => req[q].slot[1] # req[r].slot[1]

\* A submission nothing ran into has what it wrote, and whoever writes the row
\* of its tenant next read it listed and knows the gateway there is.
Undisturbed ==
  \A r \in alone :
    /\ Keyed(r) \/ Ok(r) => key[req[r].slot] = r
    /\ Targeted(r) \/ Ok(r) => server[req[r].slot] = r
    /\ Ok(r) => /\ req[r].slot[2] \in row[req[r].slot[1]].connected
                /\ row[req[r].slot[1]].endpoint = gateway \/ torn
    /\ \A q \in Req : Targeted(q) /\ req[q].slot[1] = req[r].slot[1] =>
         /\ coords[req[q].worker].id = gateway
         /\ Ok(r) /\ req[q].at = "write_row" => req[r].slot[2] \in req[q].got.connected

\* The id and the url that are published, or that a worker knows, are of one
\* gateway, unless they were published of two.
Coordinated ==
  /\ None \notin {ssm.id, ssm.url} => ssm.id = ssm.url \/ torn
  /\ admin = "publish_url" => ssm.id = gateway
  /\ \A w \in Worker : coords[w].id = coords[w].url \/ torn

ConnectorsInv ==
  /\ ConnectorsTypeOK
  /\ Placed /\ KeyedOnce /\ Separate /\ Paired /\ Located
  /\ Listed /\ Apart /\ Undisturbed

-----------------------------------------------------------------------------
Submission == [slot : Slot \cup {None}, worker : Worker \cup {None},
               at : Phases, found : {"no", "yes", "gone"}, got : Byo, reply : Replies]

ToolCall == [slot : Slot \cup {None}, kid : 0 .. MaxKey,
             endpoint : Gen \cup {None}, result : Results]

LEMMA Blanks ==
  /\ NoByo \in Byo /\ NewReq \in Submission /\ NewCall \in ToolCall
  /\ 1 \in Gen /\ 1 \in 1 .. MaxKey /\ 1 \in 0 .. MaxGen
  /\ None \notin Req /\ None \notin Gen
<1>1. NoByo \in Byo
  BY DEF NoByo, Byo
<1>2. NewReq \in Submission
  BY <1>1 DEF NewReq, Submission, Phases, Replies
<1>3. NewCall \in ToolCall
  BY ConnectorAssumption DEF NewCall, ToolCall, Results
<1> QED
  BY <1>1, <1>2, <1>3, ConnectorAssumption DEF Gen

LEMMA ConnectorsInit_Inv == ConnectorsInit => ConnectorsInv
<1> SUFFICES ASSUME ConnectorsInit PROVE ConnectorsInv
  OBVIOUS
<1>1. \A r \in Req : req[r] = NewReq
  BY DEF ConnectorsInit
<1>2. \A r \in Req : req[r].at = "idle" /\ req[r].reply = "none"
  BY <1>1 DEF NewReq
<1>3. \A s \in Slot : key[s] = None
  BY DEF ConnectorsInit
<1>4. \A t \in Tenant : \A b \in Versions(t) : b.connected = {}
  BY DEF ConnectorsInit, NoByo, Versions
<1>5. ConnectorsTypeOK
  BY Blanks DEF ConnectorsInit, ConnectorsTypeOK, Submission, ToolCall, Account, Pair, NoPair, Of
<1>6. Placed /\ KeyedOnce /\ Separate /\ Paired /\ Located
  BY <1>2, <1>3 DEF Placed, KeyedOnce, Separate, Paired, Located, Working, Halfway
<1>7. Listed
  BY <1>2, <1>4 DEF Listed, Keyed, Targeted
<1>8. Apart /\ Undisturbed
  BY DEF ConnectorsInit, Apart, Undisturbed
<1> QED
  BY <1>5, <1>6, <1>7, <1>8 DEF ConnectorsInv

-----------------------------------------------------------------------------
\* A step after which submission r is at the given place, or was refused.
Moved(r, to) ==
  /\ \A q \in Req \ {r} : req'[q] = req[q]
  /\ req'[r].slot = req[r].slot
  /\ \/ req'[r].at = to /\ req'[r].reply = "none" /\ req'[r].worker = req[r].worker
     \/ req'[r].at = "done" /\ req'[r].reply = "refused"

LEMMA MovesTyped ==
  ASSUME ConnectorsInv, NEW r \in Req, Working(r)
  PROVE  /\ \A p \in Phases : Goto(r, p) => req' \in [Req -> Submission]
         /\ \A p \in Replies : Answer(r, p) => req' \in [Req -> Submission]
         /\ req[r] \in Submission /\ req[r].slot \in Slot /\ req[r].worker \in Worker
         /\ req[r].reply = "none" /\ req \in [Req -> Submission]
<1>1. req \in [Req -> Submission] /\ Placed
  BY DEF ConnectorsInv, ConnectorsTypeOK, Submission
<1>2. /\ req[r] \in Submission /\ req[r].slot \in Slot /\ req[r].worker \in Worker
      /\ req[r].reply = "none"
  <2>1. req[r] \in Submission /\ req[r].at # "idle" /\ req[r].at # "done"
    BY <1>1 DEF Working
  <2>2. req[r].reply = "none"
    BY <1>1, <2>1 DEF Placed
  <2> QED
    BY <1>1, <2>1, <2>2 DEF Placed
<1>3. ASSUME NEW p \in Phases, Goto(r, p) PROVE req' \in [Req -> Submission]
  <2>1. [req[r] EXCEPT !.at = p] \in Submission
    BY <1>2 DEF Submission
  <2> QED
    BY <1>1, <1>3, <2>1 DEF Goto
<1>4. ASSUME NEW p \in Replies, Answer(r, p) PROVE req' \in [Req -> Submission]
  <2>1. Answered(r, p) \in Submission
    BY <1>2, Blanks DEF Answered, NewReq, Submission, Phases, Replies
  <2> QED
    BY <1>1, <1>4, <2>1 DEF Answer
<1> QED
  BY <1>1, <1>2, <1>3, <1>4

LEMMA Moves ==
  ASSUME ConnectorsInv, NEW r \in Req, Working(r), NEW p \in Phases,
         Goto(r, p) \/ Answer(r, "refused")
  PROVE  Moved(r, p) /\ req' \in [Req -> Submission]
<1>1. req' \in [Req -> Submission] /\ req \in [Req -> Submission] /\ req[r].reply = "none"
  BY MovesTyped DEF Replies
<1>2. CASE Goto(r, p)
  <2>1. req' = [req EXCEPT ![r] = [req[r] EXCEPT !.at = p]]
    BY <1>1, <1>2 DEF Goto
  <2>2. req'[r] = [req[r] EXCEPT !.at = p]
    BY <1>1, <2>1
  <2>3. req'[r].at = p /\ req'[r].reply = "none" /\ req'[r].worker = req[r].worker
        /\ req'[r].slot = req[r].slot
    BY <1>1, <2>2 DEF Submission
  <2> QED
    BY <1>1, <2>1, <2>3 DEF Moved
<1>3. CASE Answer(r, "refused")
  <2>1. req'[r] = Answered(r, "refused") /\ \A q \in Req \ {r} : req'[q] = req[q]
    BY <1>1, <1>3 DEF Answer
  <2>2. req'[r].at = "done" /\ req'[r].reply = "refused" /\ req'[r].slot = req[r].slot
    BY <2>1 DEF Answered, NewReq
  <2> QED
    BY <1>1, <2>1, <2>2 DEF Moved
<1> QED
  BY <1>1, <1>2, <1>3

-----------------------------------------------------------------------------
\* What the invariant says beside the types.
Connected ==
  /\ Placed /\ KeyedOnce /\ Separate /\ Paired /\ Located
  /\ Listed /\ Apart /\ Undisturbed

\* A submission moves on without a write; its worker may look up the gateway.
LEMMA QuietStep ==
  ASSUME ConnectorsInv, NEW r \in Req, Working(r), NEW p \in Phases \ {"idle", "done"},
         Moved(r, p),
         UNCHANGED <<key, server, row, older, gateway, torn, mixed, wiped>>, alone' \subseteq alone,
         \A w \in Worker : coords[w] # NoPair => coords'[w] = coords[w],
         p \in {"find_target", "write_target"} <=> req[r].at \in {"find_target", "write_target"},
         p \in {"read_row", "write_row"} <=> req[r].at \in {"read_row", "write_row"},
         p = "write_target" /\ req'[r].at = p => coords'[req[r].worker] # NoPair,
         p = "write_row" /\ req'[r].at = p =>
           /\ req'[r].got \in Versions(req[r].slot[1])
           /\ \A a \in alone' \ {r} : Ok(a) /\ req[a].slot[1] = req[r].slot[1] =>
                req[a].slot[2] \in req'[r].got.connected
  PROVE  Connected'
<1>1. /\ \A q \in Req \ {r} : req'[q] = req[q]
      /\ req'[r].slot = req[r].slot
      /\ \/ req'[r].at = p /\ req'[r].reply = "none" /\ req'[r].worker = req[r].worker
         \/ req'[r].at = "done" /\ req'[r].reply = "refused"
  BY DEF Moved
<1>2. req[r].slot \in Slot /\ req[r].worker \in Worker /\ req[r].reply = "none"
  BY MovesTyped
<1>3. key \in [Slot -> Req \cup {None}] /\ None \notin Req
  BY Blanks DEF ConnectorsInv, ConnectorsTypeOK, Account
<1>4. Placed'
  BY <1>1, <1>2 DEF ConnectorsInv, Placed, Working
<1>5. KeyedOnce'
  BY <1>1, <1>3 DEF ConnectorsInv, KeyedOnce, Keyed, Working
<1>6. Separate'
  BY <1>1 DEF ConnectorsInv, Separate, Halfway
<1>7. Paired'
  BY <1>1, <1>2, <1>3 DEF ConnectorsInv, Paired, Targeted, Ok
<1>8. Located'
  <2> SUFFICES ASSUME NEW q \in Req, req'[q].at \in {"write_target", "read_row", "write_row"}
               PROVE  coords'[req'[q].worker] # NoPair
    BY DEF Located
  <2>1. CASE q # r
    BY <1>1, <2>1 DEF ConnectorsInv, Located, Placed, Working
  <2>2. CASE q = r
    BY <1>1, <1>2, <2>2 DEF ConnectorsInv, Located
  <2> QED
    BY <2>1, <2>2
<1>9. \A q \in Req :
        /\ req'[q].slot = req[q].slot
        /\ req'[q].at \notin {"idle", "done"} =>
             req[q].at \notin {"idle", "done"} /\ req'[q].worker = req[q].worker
        /\ req'[q].at = "idle" => req[q].at = "idle"
        /\ req'[q].at \in {"find_target", "write_target", "read_row", "write_row"} =>
             req[q].at \in {"find_target", "write_target", "read_row", "write_row"}
        /\ req'[q].at \in {"read_row", "write_row"} => req[q].at \in {"read_row", "write_row"}
        /\ req'[q].reply = "ok" => req[q].reply = "ok"
  <2> TAKE q \in Req
  <2>1. CASE q # r
    BY <1>1, <2>1
  <2>2. CASE q = r
    BY <1>1, <1>2, <2>2 DEF Working
  <2> QED
    BY <2>1, <2>2
<1>10. \A q \in Req : req'[q].at = "write_row" /\ q # r => req'[q] = req[q]
  BY <1>1
<1>11. Listed'
  <2>1. \A t \in Tenant : \A b \in Versions(t)' : \A i \in b.connected : Provided(<<t, i>>)'
    BY DEF ConnectorsInv, Listed, Provided, Versions
  <2>2. ASSUME NEW q \in Req
        PROVE  /\ Keyed(q)' => key'[req'[q].slot] # None
               /\ Targeted(q)' => Provided(req[q].slot)'
    BY <1>9 DEF ConnectorsInv, Listed, Provided, Keyed, Targeted
  <2>3. ASSUME NEW q \in Req, req'[q].at = "write_row", NEW i \in req'[q].got.connected
        PROVE  Provided(<<req[q].slot[1], i>>)'
    <3>1. CASE q # r
      BY <1>10, <2>3, <3>1 DEF ConnectorsInv, Listed, Provided
    <3>2. CASE q = r
      <4>1. req'[r].got \in Versions(req[r].slot[1])
        BY <1>1, <2>3, <3>2
      <4>2. req[r].slot[1] \in Tenant
        BY <1>2 DEF Slot
      <4>3. \A j \in req'[r].got.connected : Provided(<<req[r].slot[1], j>>)
        BY <4>1, <4>2 DEF ConnectorsInv, Listed
      <4>4. Provided(<<req[q].slot[1], i>>)
        BY <2>3, <3>2, <4>1, <4>3
      <4> QED
        BY <1>9, <4>4 DEF Provided
    <3> QED
      BY <3>1, <3>2
  <2> QED
    BY <1>9, <2>1, <2>2, <2>3 DEF Listed, Provided, Keyed, Targeted
<1>12. Apart'
  <2> SUFFICES ASSUME NEW a \in alone'
               PROVE  /\ req'[a].at # "idle"
                      /\ \A q \in Req \ {a} : Working(q)' =>
                           /\ req'[q].slot # req'[a].slot
                           /\ Working(a)' => req'[q].slot[1] # req'[a].slot[1]
    BY DEF Apart, Working
  <2>1. a \in Req /\ a \in alone
    BY DEF ConnectorsInv, ConnectorsTypeOK
  <2> QED
    BY <1>9, <2>1 DEF ConnectorsInv, Apart, Working
<1>13. Undisturbed'
  <2> SUFFICES ASSUME NEW a \in alone'
               PROVE  /\ Keyed(a)' \/ Ok(a)' => key'[req'[a].slot] = a
                      /\ Targeted(a)' \/ Ok(a)' => server'[req'[a].slot] = a
                      /\ Ok(a)' => /\ req'[a].slot[2] \in row'[req'[a].slot[1]].connected
                                   /\ row'[req'[a].slot[1]].endpoint = gateway' \/ torn'
                      /\ \A q \in Req : Targeted(q)' /\ req'[q].slot[1] = req'[a].slot[1] =>
                           /\ coords'[req'[q].worker].id = gateway'
                           /\ Ok(a)' /\ req'[q].at = "write_row" =>
                                req'[a].slot[2] \in req'[q].got.connected
    BY DEF Undisturbed, Keyed, Targeted, Ok
  <2>1. a \in Req /\ a \in alone
    BY DEF ConnectorsInv, ConnectorsTypeOK
  <2>2. /\ Keyed(a)' \/ Ok(a)' => key'[req'[a].slot] = a
        /\ Targeted(a)' \/ Ok(a)' => server'[req'[a].slot] = a
        /\ Ok(a)' => /\ req'[a].slot[2] \in row'[req'[a].slot[1]].connected
                     /\ row'[req'[a].slot[1]].endpoint = gateway' \/ torn'
    BY <1>9, <2>1 DEF ConnectorsInv, Undisturbed, Keyed, Targeted, Ok
  <2>3. ASSUME NEW q \in Req, Targeted(q)', req'[q].slot[1] = req'[a].slot[1]
        PROVE  coords'[req'[q].worker].id = gateway'
    <3>1. Targeted(q) /\ Working(q) /\ req'[q].worker = req[q].worker /\ req[q].slot[1] = req[a].slot[1]
      BY <1>9, <2>1, <2>3 DEF Targeted, Working
    <3>2. coords[req[q].worker].id = gateway /\ coords[req[q].worker] # NoPair /\ req[q].worker \in Worker
      BY <3>1 DEF ConnectorsInv, Undisturbed, Located, Placed, Targeted
    <3> QED
      BY <3>1, <3>2
  <2>4. ASSUME NEW q \in Req, Targeted(q)', req'[q].slot[1] = req'[a].slot[1],
               Ok(a)', req'[q].at = "write_row"
        PROVE  req'[a].slot[2] \in req'[q].got.connected
    <3>1. CASE q # r
      BY <1>9, <1>10, <2>1, <2>4, <3>1 DEF ConnectorsInv, Undisturbed, Targeted, Ok
    <3>2. CASE q = r
      BY <1>1, <1>9, <2>1, <2>4, <3>2 DEF ConnectorsInv, Undisturbed, Ok
    <3> QED
      BY <3>1, <3>2
  <2> QED
    BY <2>2, <2>3, <2>4
<1> QED
  BY <1>4, <1>5, <1>6, <1>7, <1>8, <1>11, <1>12, <1>13 DEF Connected

\* Nothing that is said of the connections changes.
LEMMA Elsewhere ==
  ASSUME ConnectorsInv, UNCHANGED <<key, server, row, older, req, gateway, coords, mixed, alone, wiped>>,
         torn => torn'
  PROVE  Connected'
<1>1. Placed' /\ KeyedOnce' /\ Separate' /\ Paired' /\ Located'
  BY DEF ConnectorsInv, Placed, KeyedOnce, Separate, Paired, Located, Working, Keyed, Targeted, Ok, Halfway
<1>2. Listed'
  BY DEF ConnectorsInv, Listed, Keyed, Targeted, Provided, Versions
<1>3. Apart' /\ Undisturbed'
  BY DEF ConnectorsInv, Apart, Undisturbed, Working, Keyed, Targeted, Ok
<1> QED
  BY <1>1, <1>2, <1>3 DEF Connected

\* The gateway changes: no submission counts as undisturbed any more.
LEMMA GatewayChanges ==
  ASSUME ConnectorsInv, alone' = {}, UNCHANGED <<key, server, row, older, req, coords, mixed, wiped>>
  PROVE  Connected'
<1>1. Placed' /\ KeyedOnce' /\ Separate' /\ Paired' /\ Located'
  BY DEF ConnectorsInv, Placed, KeyedOnce, Separate, Paired, Located, Working, Keyed, Targeted, Ok, Halfway
<1>2. Listed'
  BY DEF ConnectorsInv, Listed, Keyed, Targeted, Provided, Versions
<1>3. Apart' /\ Undisturbed'
  BY DEF Apart, Undisturbed
<1> QED
  BY <1>1, <1>2, <1>3 DEF Connected

-----------------------------------------------------------------------------
LEMMA Submit_Inv ==
  ASSUME ConnectorsInv, NEW r \in Req, Submit(r)
  PROVE  ConnectorsInv'
<1>1. PICK s \in Slot, w \in Worker :
        /\ req' = [req EXCEPT ![r] =
                     [NewReq EXCEPT !.slot = s, !.worker = w,
                        !.at = IF s[2].wrong = "disabled" THEN "done" ELSE "validate",
                        !.reply = IF s[2].wrong = "disabled" THEN "refused" ELSE "none"]]
        /\ LET others == {q \in Req \ {r} : Working(q) /\ req[q].slot[1] = s[1]} IN
             alone' = {q \in alone \ others : req[q].slot # s} \cup
                      (IF others = {} THEN {r} ELSE {})
  BY DEF Submit
<1> DEFINE others == {q \in Req \ {r} : Working(q) /\ req[q].slot[1] = s[1]}
<1>2. alone' = {q \in alone \ others : req[q].slot # s} \cup (IF others = {} THEN {r} ELSE {})
  BY <1>1
<1>3. req \in [Req -> Submission] /\ alone \subseteq Req /\ req[r].at = "idle"
  BY DEF ConnectorsInv, ConnectorsTypeOK, Submission, Submit
<1> DEFINE x == [NewReq EXCEPT !.slot = s, !.worker = w,
                   !.at = IF s[2].wrong = "disabled" THEN "done" ELSE "validate",
                   !.reply = IF s[2].wrong = "disabled" THEN "refused" ELSE "none"]
<1>4. /\ x.slot = s /\ x.worker = w
      /\ (x.at = "validate" /\ x.reply = "none") \/ (x.at = "done" /\ x.reply = "refused")
  BY DEF NewReq
<1>5. x \in Submission
  <2>1. s[2].wrong = "disabled" \/ s[2].wrong # "disabled"
    OBVIOUS
  <2> QED
    BY <2>1, Blanks DEF NewReq, Submission, Phases, Replies
<1>6. req' \in [Req -> Submission] /\ req'[r] = x /\ \A q \in Req \ {r} : req'[q] = req[q]
  BY <1>1, <1>3, <1>5
<1> HIDE DEF x
<1>7. ConnectorsTypeOK'
  BY <1>2, <1>3, <1>6 DEF ConnectorsInv, ConnectorsTypeOK, Submit, Submission, res, cloud, procs
<1>8. /\ req'[r].slot = s /\ req'[r].worker = w
      /\ (req'[r].at = "validate" /\ req'[r].reply = "none")
           \/ (req'[r].at = "done" /\ req'[r].reply = "refused")
  BY <1>4, <1>6
<1>9. UNCHANGED <<key, server, row, older, gateway, torn, coords, mixed, wiped>>
  BY DEF Submit, res, cloud, procs
<1>10. key \in [Slot -> Req \cup {None}] /\ None \notin Req
  BY Blanks DEF ConnectorsInv, ConnectorsTypeOK, Account
<1>11. Placed'
  BY <1>6, <1>8 DEF ConnectorsInv, Placed, Working
<1>12. KeyedOnce'
  BY <1>3, <1>6, <1>9, <1>10 DEF ConnectorsInv, KeyedOnce, Keyed
<1>13. Separate'
  BY <1>6, <1>8, <1>9 DEF ConnectorsInv, Separate, Halfway
<1>14. Paired'
  BY <1>6, <1>8, <1>9, <1>10 DEF ConnectorsInv, Paired, Targeted, Ok
<1>15. Located'
  BY <1>6, <1>8, <1>9 DEF ConnectorsInv, Located
<1>16. Listed'
  BY <1>6, <1>8, <1>9 DEF ConnectorsInv, Listed, Keyed, Targeted, Provided, Versions
<1>17. Apart'
  <2> SUFFICES ASSUME NEW a \in alone', NEW q \in Req \ {a}
               PROVE  /\ req'[a].at # "idle"
                      /\ req'[q].at \notin {"idle", "done"} =>
                           /\ req'[q].slot # req'[a].slot
                           /\ req'[a].at \notin {"idle", "done"} => req'[q].slot[1] # req'[a].slot[1]
    <3>1. ASSUME NEW a \in alone', Req \ {a} = {} PROVE req'[a].at # "idle"
      BY <1>2, <1>3, <1>6, <1>8, <3>1 DEF ConnectorsInv, Apart
    <3> QED
      BY <3>1 DEF Apart, Working
  <2>1. CASE a = r
    <3>1. others = {} \/ r \in alone
      BY <1>2, <2>1
    <3>2. r \notin alone
      BY <1>3 DEF ConnectorsInv, Apart
    <3>3. ~(Working(q) /\ req[q].slot[1] = s[1])
      BY <2>1, <3>1, <3>2
    <3>4. req'[q] = req[q]
      BY <1>6, <2>1
    <3>5. req'[q].at \notin {"idle", "done"} => req'[q].slot # s /\ req'[q].slot[1] # s[1]
      BY <3>3, <3>4 DEF Working
    <3> QED
      BY <1>8, <2>1, <3>5
  <2>2. CASE a # r
    <3>1. a \in alone /\ a \notin others /\ req[a].slot # s /\ a \in Req /\ req'[a] = req[a]
      BY <1>2, <1>3, <1>6, <2>2
    <3>2. CASE q = r
      <4>1. ~(Working(a) /\ req[a].slot[1] = s[1])
        BY <2>2, <3>1
      <4> QED
        BY <1>8, <3>1, <3>2, <4>1 DEF ConnectorsInv, Apart, Working
    <3>3. CASE q # r
      BY <1>6, <3>1, <3>3 DEF ConnectorsInv, Apart, Working
    <3> QED
      BY <3>2, <3>3
  <2> QED
    BY <2>1, <2>2
<1>18. Undisturbed'
  <2> SUFFICES ASSUME NEW a \in alone'
               PROVE  /\ Keyed(a)' \/ Ok(a)' => key'[req'[a].slot] = a
                      /\ Targeted(a)' \/ Ok(a)' => server'[req'[a].slot] = a
                      /\ Ok(a)' => /\ req'[a].slot[2] \in row'[req'[a].slot[1]].connected
                                   /\ row'[req'[a].slot[1]].endpoint = gateway' \/ torn'
                      /\ \A q \in Req : Targeted(q)' /\ req'[q].slot[1] = req'[a].slot[1] =>
                           /\ coords'[req'[q].worker].id = gateway'
                           /\ Ok(a)' /\ req'[q].at = "write_row" =>
                                req'[a].slot[2] \in req'[q].got.connected
    BY DEF Undisturbed, Keyed, Targeted, Ok
  <2>1. CASE a = r
    <3>1. others = {} \/ r \in alone
      BY <1>2, <2>1
    <3>2. r \notin alone
      BY <1>3 DEF ConnectorsInv, Apart
    <3>3. \A q \in Req \ {r} : ~(Working(q) /\ req[q].slot[1] = s[1])
      BY <3>1, <3>2
    <3>4. ~Keyed(a)' /\ ~Ok(a)' /\ ~Targeted(a)'
      BY <1>8, <2>1 DEF Keyed, Targeted, Ok
    <3>5. \A q \in Req : ~(Targeted(q)' /\ req'[q].slot[1] = s[1])
      BY <1>6, <1>8, <3>3 DEF Targeted, Working
    <3> QED
      BY <1>8, <2>1, <3>4, <3>5 DEF Keyed, Targeted, Ok
  <2>2. CASE a # r
    <3>1. a \in alone /\ a \in Req /\ req'[a] = req[a]
      BY <1>2, <1>3, <1>6, <2>2
    <3> QED
      BY <1>6, <1>8, <1>9, <3>1 DEF ConnectorsInv, Undisturbed, Keyed, Targeted, Ok
  <2> QED
    BY <2>1, <2>2
<1> QED
  BY <1>7, <1>11, <1>12, <1>13, <1>14, <1>15, <1>16, <1>17, <1>18 DEF ConnectorsInv

\* The submissions after a step of r, seen from the one before it.
LEMMA MovedFacts ==
  ASSUME ConnectorsInv, NEW r \in Req, Working(r), NEW p \in Phases \ {"idle", "done"}, Moved(r, p)
  PROVE  /\ Placed'
         /\ alone' \subseteq alone => Apart'
         /\ \A q \in Req :
              /\ req'[q].slot = req[q].slot
              /\ req'[q].reply = "ok" => q # r
              /\ q # r => req'[q] = req[q]
         /\ req[r].slot \in Slot /\ req[r].worker \in Worker /\ req[r].reply = "none"
         /\ req[r].slot = <<req[r].slot[1], req[r].slot[2]>>
         /\ req[r].slot[1] \in Tenant /\ req[r].slot[2] \in Integration
         /\ \/ req'[r].at = p /\ req'[r].reply = "none" /\ req'[r].worker = req[r].worker
            \/ req'[r].at = "done" /\ req'[r].reply = "refused"
<1>1. /\ \A q \in Req \ {r} : req'[q] = req[q]
      /\ req'[r].slot = req[r].slot
      /\ \/ req'[r].at = p /\ req'[r].reply = "none" /\ req'[r].worker = req[r].worker
         \/ req'[r].at = "done" /\ req'[r].reply = "refused"
  BY DEF Moved
<1>2. req[r].slot \in Slot /\ req[r].worker \in Worker /\ req[r].reply = "none"
  BY MovesTyped
<1>3. Placed'
  BY <1>1, <1>2 DEF ConnectorsInv, Placed, Working
<1>4. \A q \in Req :
        /\ req'[q].slot = req[q].slot
        /\ req'[q].at \notin {"idle", "done"} => req[q].at \notin {"idle", "done"}
        /\ req'[q].at = "idle" => req[q].at = "idle"
  BY <1>1 DEF Working
<1>5. ASSUME alone' \subseteq alone PROVE Apart'
  <2> SUFFICES ASSUME NEW a \in alone'
               PROVE  /\ req'[a].at # "idle"
                      /\ \A q \in Req \ {a} : Working(q)' =>
                           /\ req'[q].slot # req'[a].slot
                           /\ Working(a)' => req'[q].slot[1] # req'[a].slot[1]
    BY DEF Apart, Working
  <2>1. a \in alone /\ a \in Req
    BY <1>5 DEF ConnectorsInv, ConnectorsTypeOK
  <2> QED
    BY <1>4, <2>1 DEF ConnectorsInv, Apart, Working
<1> QED
  BY <1>1, <1>2, <1>3, <1>5 DEF Slot

\* What was provided stays so: a submission that did not move, and the row if it
\* was not written, list no more than that.
LEMMA ListedKept ==
  ASSUME ConnectorsInv,
         \A z \in Slot : key[z] # None => key'[z] # None,
         \A z \in Slot : Provided(z) => key'[z] # None /\ (z \notin wiped' => server'[z] # None)
  PROVE  /\ \A t \in Tenant : \A b \in Versions(t) : \A i \in b.connected :
              key'[<<t, i>>] # None /\ (<<t, i>> \notin wiped' => server'[<<t, i>>] # None)
         /\ \A q \in Req :
              /\ Keyed(q) => key'[req[q].slot] # None
              /\ Targeted(q) => /\ key'[req[q].slot] # None
                                /\ req[q].slot \notin wiped' => server'[req[q].slot] # None
              /\ req[q].at = "write_row" =>
                   \A i \in req[q].got.connected :
                     /\ key'[<<req[q].slot[1], i>>] # None
                     /\ <<req[q].slot[1], i>> \notin wiped' => server'[<<req[q].slot[1], i>>] # None
<1>1. ASSUME NEW t \in Tenant, NEW b \in Versions(t), NEW i \in b.connected
      PROVE  key'[<<t, i>>] # None /\ (<<t, i>> \notin wiped' => server'[<<t, i>>] # None)
  <2>1. <<t, i>> \in Slot
    BY DEF ConnectorsInv, ConnectorsTypeOK, Byo, Slot, Versions
  <2>2. Provided(<<t, i>>)
    BY DEF ConnectorsInv, Listed
  <2> QED
    BY <2>1, <2>2
<1>2. ASSUME NEW q \in Req
      PROVE  /\ Keyed(q) => key'[req[q].slot] # None
             /\ Targeted(q) => /\ key'[req[q].slot] # None
                               /\ req[q].slot \notin wiped' => server'[req[q].slot] # None
  <2>1. Keyed(q) \/ Targeted(q) => req[q].slot \in Slot
    BY DEF ConnectorsInv, Placed, Keyed, Targeted
  <2> QED
    BY <2>1 DEF ConnectorsInv, Listed
<1>3. ASSUME NEW q \in Req, req[q].at = "write_row", NEW i \in req[q].got.connected
      PROVE  /\ key'[<<req[q].slot[1], i>>] # None
             /\ <<req[q].slot[1], i>> \notin wiped' => server'[<<req[q].slot[1], i>>] # None
  <2>1. <<req[q].slot[1], i>> \in Slot
    <3>1. req[q].slot \in Slot
      BY <1>3 DEF ConnectorsInv, Placed
    <3>2. req[q].got \in Byo
      BY DEF ConnectorsInv, ConnectorsTypeOK
    <3> QED
      BY <1>3, <3>1, <3>2 DEF Byo, Slot
  <2>2. Provided(<<req[q].slot[1], i>>)
    BY <1>3 DEF ConnectorsInv, Listed
  <2> QED
    BY <2>1, <2>2
<1> QED
  BY <1>1, <1>2, <1>3

LEMMA WriteKey_Inv ==
  ASSUME ConnectorsInv, NEW r \in Req, WriteKey(r)
  PROVE  ConnectorsInv'
<1> DEFINE s == req[r].slot
<1>1. Working(r) /\ req[r].at = "write_key" /\ {"write_key", "find_target"} \subseteq Phases \ {"idle", "done"}
  BY DEF WriteKey, Working, Phases
<1>2. UNCHANGED <<server, row, older, gateway, torn, coords, alone, wiped>>
  BY DEF WriteKey, cloud, procs
<1>3. key \in [Slot -> Req \cup {None}] /\ None \notin Req
  BY Blanks DEF ConnectorsInv, ConnectorsTypeOK, Account
<1>4. s \in Slot
  BY <1>1, MovesTyped
<1>5. CASE Answer(r, "refused") /\ UNCHANGED <<key, mixed>>
  <2>1. Moved(r, "write_key") /\ req' \in [Req -> Submission]
    BY <1>1, <1>5, Moves
  <2>2. ConnectorsTypeOK'
    BY <2>1, <1>5 DEF ConnectorsInv, ConnectorsTypeOK, WriteKey, Submission, cloud, procs
  <2>3. Connected'
    BY <1>1, <1>2, <1>5, <2>1, QuietStep
  <2> QED
    BY <2>2, <2>3 DEF ConnectorsInv, Connected
<1>6. CASE /\ key' = StoreKey(r, s)
           /\ mixed' = IF \E q \in Req : Halfway(q, s) THEN mixed \cup {s} ELSE mixed
           /\ Written(r, "find_target")
  <2>1. Moved(r, "find_target") /\ req' \in [Req -> Submission]
    BY <1>1, <1>6, Moves DEF Written
  <2>2. key' \in [Slot -> Req \cup {None}] /\ key'[s] = r
        /\ \A z \in Slot \ {s} : key'[z] = key[z]
    BY <1>3, <1>4, <1>6 DEF StoreKey
  <2>3. mixed \subseteq mixed' /\ mixed' \subseteq mixed \cup {s}
        /\ (s \notin mixed' => \A q \in Req : ~Halfway(q, s))
    BY <1>6
  <2>4. ConnectorsTypeOK'
    BY <2>1, <2>2, <2>3, <1>4 DEF ConnectorsInv, ConnectorsTypeOK, WriteKey, Submission, Account, cloud, procs
  <2>5. /\ Placed' /\ Apart'
        /\ \A q \in Req :
              /\ req'[q].slot = req[q].slot
              /\ req'[q].reply = "ok" => q # r
              /\ q # r => req'[q] = req[q]
        /\ \/ req'[r].at = "find_target" /\ req'[r].reply = "none" /\ req'[r].worker = req[r].worker
           \/ req'[r].at = "done" /\ req'[r].reply = "refused"
    BY <1>1, <1>2, <2>1, MovedFacts
  <2>6. \A z \in Slot \ {s} : key[z] # r
    BY <1>1, <1>3, <1>4 DEF ConnectorsInv, KeyedOnce
  <2>7. KeyedOnce'
    BY <1>3, <2>2, <2>5, <2>6 DEF ConnectorsInv, KeyedOnce, Keyed
  <2>8. Separate'
    <3> SUFFICES ASSUME NEW q \in Req, NEW z \in Slot, z \notin mixed',
                        req'[q].slot = z, req'[q].at \in {"find_target", "write_target"}
                 PROVE  key'[z] = q
      BY DEF Separate, Halfway
    <3>1. CASE q = r
      BY <2>2, <2>5, <3>1
    <3>2. CASE q # r
      <4>1. Halfway(q, z) /\ z \notin mixed /\ z # s
        BY <2>3, <2>5, <3>2 DEF Halfway
      <4> QED
        BY <2>2, <4>1 DEF ConnectorsInv, Separate
    <3> QED
      BY <3>1, <3>2
  <2>9. Paired'
    <3> SUFFICES ASSUME NEW z \in Slot, key'[z] # None, z \notin mixed',
                        req'[key'[z]].at \in {"read_row", "write_row"} \/ req'[key'[z]].reply = "ok"
                 PROVE  server'[z] \in {key'[z], None}
      BY DEF Paired, Targeted, Ok
    <3>1. z # s
      BY <2>2, <2>5
    <3>2. key'[z] = key[z] /\ key[z] # r /\ key[z] \in Req /\ z \notin mixed
      BY <1>3, <2>2, <2>3, <2>6, <3>1
    <3>3. req'[key[z]] = req[key[z]]
      BY <2>5, <3>2
    <3> QED
      BY <1>2, <3>2, <3>3 DEF ConnectorsInv, Paired, Targeted, Ok
  <2>10. Located'
    BY <1>2, <2>5 DEF ConnectorsInv, Located
  <2>11. \A z \in Slot : key[z] # None => key'[z] # None
    BY <1>3, <2>2
  <2>12. \A z \in Slot : Provided(z) => key'[z] # None /\ (z \notin wiped' => server'[z] # None)
    BY <1>2, <2>11 DEF Provided
  <2>13. Listed'
    <3>1. \A t \in Tenant : \A b \in Versions(t)' : \A i \in b.connected : Provided(<<t, i>>)'
      BY <1>2, <2>11, <2>12, ListedKept DEF Provided, Versions
    <3>2. ASSUME NEW q \in Req \ {r}
          PROVE  /\ Keyed(q)' => key'[req'[q].slot] # None
                 /\ Targeted(q)' => Provided(req[q].slot)'
                 /\ req'[q].at = "write_row" =>
                      \A i \in req'[q].got.connected : Provided(<<req[q].slot[1], i>>)'
      <4>1. req'[q] = req[q]
        BY <2>5
      <4> QED
        BY <2>11, <2>12, <4>1, ListedKept DEF Provided, Keyed, Targeted
    <3>3. Keyed(r)' => key'[req'[r].slot] # None
      BY <1>3, <2>2, <2>5
    <3>4. req'[r].at \notin {"read_row", "write_row"}
      BY <2>5
    <3> QED
      BY <2>5, <3>1, <3>2, <3>3, <3>4 DEF Listed, Provided, Keyed, Targeted
  <2>14. Undisturbed'
    <3> SUFFICES ASSUME NEW a \in alone
                 PROVE  /\ Keyed(a)' \/ Ok(a)' => key'[req'[a].slot] = a
                        /\ Targeted(a)' \/ Ok(a)' => server'[req'[a].slot] = a
                        /\ Ok(a)' => /\ req'[a].slot[2] \in row'[req'[a].slot[1]].connected
                                     /\ row'[req'[a].slot[1]].endpoint = gateway' \/ torn'
                        /\ \A q \in Req : Targeted(q)' /\ req'[q].slot[1] = req'[a].slot[1] =>
                             /\ coords'[req'[q].worker].id = gateway'
                             /\ Ok(a)' /\ req'[q].at = "write_row" =>
                                  req'[a].slot[2] \in req'[q].got.connected
      BY <1>2 DEF Undisturbed, Keyed, Targeted, Ok
    <3>1. a \in Req
      BY DEF ConnectorsInv, ConnectorsTypeOK
    <3>2. ASSUME Keyed(a)' \/ Ok(a)' PROVE key'[req'[a].slot] = a
      <4>1. CASE a = r
        BY <2>2, <2>5, <4>1
      <4>2. CASE a # r
        <5>1. req'[a] = req[a] /\ key[req[a].slot] = a /\ req[a].slot # s /\ req[a].slot \in Slot
          BY <1>1, <2>5, <3>1, <3>2, <4>2 DEF ConnectorsInv, Undisturbed, Apart, Keyed, Ok, Placed
        <5> QED
          BY <2>2, <5>1
      <4> QED
        BY <4>1, <4>2
    <3>3. /\ Targeted(a)' \/ Ok(a)' => server'[req'[a].slot] = a
          /\ Ok(a)' => /\ req'[a].slot[2] \in row'[req'[a].slot[1]].connected
                       /\ row'[req'[a].slot[1]].endpoint = gateway' \/ torn'
      <4>1. CASE a = r
        BY <2>5, <4>1 DEF Targeted, Ok
      <4>2. CASE a # r
        BY <1>2, <2>5, <3>1, <4>2 DEF ConnectorsInv, Undisturbed, Targeted, Ok
      <4> QED
        BY <4>1, <4>2
    <3>4. ASSUME NEW q \in Req, Targeted(q)', req'[q].slot[1] = req'[a].slot[1]
          PROVE  /\ coords'[req'[q].worker].id = gateway'
                 /\ Ok(a)' /\ req'[q].at = "write_row" => req'[a].slot[2] \in req'[q].got.connected
      <4>1. q # r /\ req'[q] = req[q] /\ Targeted(q) /\ req[q].slot[1] = req[a].slot[1]
        BY <2>5, <3>1, <3>4 DEF Targeted
      <4>2. Ok(a)' => Ok(a) /\ req'[a].slot = req[a].slot
        BY <2>5, <3>1 DEF Ok
      <4> QED
        BY <1>2, <4>1, <4>2 DEF ConnectorsInv, Undisturbed
    <3> QED
      BY <3>2, <3>3, <3>4
  <2> QED
    BY <2>4, <2>5, <2>7, <2>8, <2>9, <2>10, <2>13, <2>14 DEF ConnectorsInv
<1> QED
  BY <1>5, <1>6 DEF WriteKey

LEMMA WriteTarget_Inv ==
  ASSUME ConnectorsInv, NEW r \in Req, WriteTarget(r)
  PROVE  ConnectorsInv'
<1> DEFINE s == req[r].slot
<1>1. Working(r) /\ req[r].at = "write_target"
      /\ {"write_target", "read_row"} \subseteq Phases \ {"idle", "done"}
  BY DEF WriteTarget, Working, Phases
<1>2. UNCHANGED <<key, row, older, gateway, torn, coords, mixed, alone>>
  BY DEF WriteTarget, cloud, procs
<1>3. key \in [Slot -> Req \cup {None}] /\ server \in [Slot -> Req \cup {None}] /\ None \notin Req
  BY Blanks DEF ConnectorsInv, ConnectorsTypeOK, Account
<1>4. s \in Slot
  BY <1>1, MovesTyped
<1>5. CASE Answer(r, "refused") /\ UNCHANGED <<server, wiped>>
  <2>1. Moved(r, "write_target") /\ req' \in [Req -> Submission]
    BY <1>1, <1>5, Moves
  <2>2. ConnectorsTypeOK'
    BY <2>1, <1>5 DEF ConnectorsInv, ConnectorsTypeOK, WriteTarget, Submission, cloud, procs
  <2>3. req'[r].at = "write_target" => coords'[req[r].worker] # NoPair
    BY <1>1, <1>2 DEF ConnectorsInv, Located
  <2>4. Connected'
    BY <1>1, <1>2, <1>5, <2>1, <2>3, QuietStep
  <2> QED
    BY <2>2, <2>4 DEF ConnectorsInv, Connected
<1>6. CASE /\ server' = StoreTarget(r, s) /\ wiped' = wiped \ {s}
           /\ Written(r, "read_row") /\ coords[req[r].worker].id = gateway
  <2>1. Moved(r, "read_row") /\ req' \in [Req -> Submission]
    BY <1>1, <1>6, Moves DEF Written
  <2>2. server' \in [Slot -> Req \cup {None}] /\ server'[s] = r
        /\ \A z \in Slot \ {s} : server'[z] = server[z]
    BY <1>3, <1>4, <1>6 DEF StoreTarget
  <2>3. ConnectorsTypeOK'
    BY <2>1, <2>2, <1>6 DEF ConnectorsInv, ConnectorsTypeOK, WriteTarget, Submission, Account, cloud, procs
  <2>4. /\ Placed' /\ Apart'
        /\ \A q \in Req :
              /\ req'[q].slot = req[q].slot
              /\ req'[q].reply = "ok" => q # r
              /\ q # r => req'[q] = req[q]
        /\ \/ req'[r].at = "read_row" /\ req'[r].reply = "none" /\ req'[r].worker = req[r].worker
           \/ req'[r].at = "done" /\ req'[r].reply = "refused"
    BY <1>1, <1>2, <2>1, MovedFacts
  <2>5. KeyedOnce'
    BY <1>2, <1>3, <2>4 DEF ConnectorsInv, KeyedOnce, Keyed
  <2>6. Separate'
    BY <1>2, <2>4 DEF ConnectorsInv, Separate, Halfway
  <2>7. Paired'
    <3> SUFFICES ASSUME NEW z \in Slot, key[z] # None, z \notin mixed,
                        req'[key[z]].at \in {"read_row", "write_row"} \/ req'[key[z]].reply = "ok"
                 PROVE  server'[z] \in {key[z], None}
      BY <1>2 DEF Paired, Targeted, Ok
    <3>1. key[z] \in Req /\ req[key[z]].slot = z
      BY <1>3 DEF ConnectorsInv, KeyedOnce
    <3>2. CASE z = s
      <4>1. key[z] = r
        BY <1>1, <3>2 DEF ConnectorsInv, Separate, Halfway
      <4> QED
        BY <2>2, <3>2, <4>1
    <3>3. CASE z # s
      <4>1. req'[key[z]] = req[key[z]]
        BY <2>4, <3>1, <3>3
      <4> QED
        BY <2>2, <3>3, <4>1 DEF ConnectorsInv, Paired, Targeted, Ok
    <3> QED
      BY <3>2, <3>3
  <2>8. Located'
    BY <1>1, <1>2, <2>4 DEF ConnectorsInv, Located
  <2>9. \A z \in Slot : Provided(z) => key'[z] # None /\ (z \notin wiped' => server'[z] # None)
    BY <1>2, <1>3, <1>6, <2>2 DEF Provided
  <2>10. Listed'
    <3>1. \A t \in Tenant : \A b \in Versions(t)' : \A i \in b.connected : Provided(<<t, i>>)'
      BY <1>2, <2>9, ListedKept DEF Provided, Versions
    <3>2. ASSUME NEW q \in Req \ {r}
          PROVE  /\ Keyed(q)' => key'[req'[q].slot] # None
                 /\ Targeted(q)' => Provided(req[q].slot)'
                 /\ req'[q].at = "write_row" =>
                      \A i \in req'[q].got.connected : Provided(<<req[q].slot[1], i>>)'
      <4>1. req'[q] = req[q]
        BY <2>4
      <4> QED
        BY <1>2, <2>9, <4>1, ListedKept DEF Provided, Keyed, Targeted
    <3>3. key'[s] # None /\ server'[s] # None
      BY <1>1, <1>2, <1>3, <2>2 DEF ConnectorsInv, Listed, Keyed
    <3>4. req'[r].at # "write_row"
      BY <2>4
    <3> QED
      BY <2>4, <3>1, <3>2, <3>3, <3>4 DEF Listed, Provided, Keyed, Targeted
  <2>11. Undisturbed'
    <3> SUFFICES ASSUME NEW a \in alone
                 PROVE  /\ Keyed(a)' \/ Ok(a)' => key'[req'[a].slot] = a
                        /\ Targeted(a)' \/ Ok(a)' => server'[req'[a].slot] = a
                        /\ Ok(a)' => /\ req'[a].slot[2] \in row'[req'[a].slot[1]].connected
                                     /\ row'[req'[a].slot[1]].endpoint = gateway' \/ torn'
                        /\ \A q \in Req : Targeted(q)' /\ req'[q].slot[1] = req'[a].slot[1] =>
                             /\ coords'[req'[q].worker].id = gateway'
                             /\ Ok(a)' /\ req'[q].at = "write_row" =>
                                  req'[a].slot[2] \in req'[q].got.connected
      BY <1>2 DEF Undisturbed, Keyed, Targeted, Ok
    <3>1. a \in Req
      BY DEF ConnectorsInv, ConnectorsTypeOK
    <3>2. /\ Keyed(a)' \/ Ok(a)' => key'[req'[a].slot] = a
          /\ Ok(a)' => /\ req'[a].slot[2] \in row'[req'[a].slot[1]].connected
                       /\ row'[req'[a].slot[1]].endpoint = gateway' \/ torn'
      <4>1. CASE a = r
        BY <1>1, <1>2, <2>4, <4>1 DEF ConnectorsInv, Undisturbed, Keyed, Ok
      <4>2. CASE a # r
        BY <1>2, <2>4, <3>1, <4>2 DEF ConnectorsInv, Undisturbed, Keyed, Ok
      <4> QED
        BY <4>1, <4>2
    <3>3. ASSUME Targeted(a)' \/ Ok(a)' PROVE server'[req'[a].slot] = a
      <4>1. CASE a = r
        BY <2>2, <2>4, <4>1
      <4>2. CASE a # r
        <5>1. req'[a] = req[a] /\ server[req[a].slot] = a /\ req[a].slot # s /\ req[a].slot \in Slot
          BY <1>1, <2>4, <3>1, <3>3, <4>2 DEF ConnectorsInv, Undisturbed, Apart, Targeted, Ok, Placed
        <5> QED
          BY <2>2, <5>1
      <4> QED
        BY <4>1, <4>2
    <3>4. ASSUME NEW q \in Req, Targeted(q)', req'[q].slot[1] = req'[a].slot[1]
          PROVE  /\ coords'[req'[q].worker].id = gateway'
                 /\ Ok(a)' /\ req'[q].at = "write_row" => req'[a].slot[2] \in req'[q].got.connected
      <4>1. CASE q = r
        BY <1>2, <1>6, <2>4, <3>4, <4>1 DEF Targeted
      <4>2. CASE q # r
        <5>1. req'[q] = req[q] /\ Targeted(q) /\ req[q].slot[1] = req[a].slot[1]
          BY <2>4, <3>1, <3>4, <4>2 DEF Targeted
        <5>2. Ok(a)' => Ok(a) /\ req'[a].slot = req[a].slot
          BY <2>4, <3>1 DEF Ok
        <5> QED
          BY <1>2, <5>1, <5>2 DEF ConnectorsInv, Undisturbed
      <4> QED
        BY <4>1, <4>2
    <3> QED
      BY <3>2, <3>3, <3>4
  <2> QED
    BY <2>3, <2>4, <2>5, <2>6, <2>7, <2>8, <2>10, <2>11 DEF ConnectorsInv
<1> QED
  BY <1>5, <1>6 DEF WriteTarget

LEMMA EnableByo_Inv ==
  ASSUME ConnectorsInv, Coordinated, NEW r \in Req, EnableByo(r)
  PROVE  ConnectorsInv'
<1> DEFINE s == req[r].slot
           t == s[1]
           byo == [endpoint |-> coords[req[r].worker].url, connected |-> req[r].got.connected \cup {s[2]}]
<1>1. Working(r) /\ req[r].at = "write_row" /\ req[r] \in Submission
  BY DEF EnableByo, Working, ConnectorsInv, ConnectorsTypeOK, Submission
<1>2. UNCHANGED <<key, server, gateway, torn, coords, mixed, alone, wiped>>
  BY DEF EnableByo, cloud, procs, ghosts
<1>3. /\ s \in Slot /\ t \in Tenant /\ s[2] \in Integration /\ s = <<t, s[2]>>
      /\ req[r].worker \in Worker /\ req[r].reply = "none"
  <2>1. s \in Slot /\ req[r].worker \in Worker /\ req[r].reply = "none"
    BY <1>1, MovesTyped
  <2> QED
    BY <2>1 DEF Slot
<1>4. byo \in Byo
  <2>1. coords[req[r].worker].url \in Gen \cup {None}
    BY <1>3 DEF ConnectorsInv, ConnectorsTypeOK, Pair
  <2>2. req[r].got.connected \cup {s[2]} \in SUBSET Integration
    BY <1>1, <1>3 DEF Submission, Byo
  <2> QED
    BY <2>1, <2>2 DEF Byo
<1>5. row' = [row EXCEPT ![t] = byo]
  BY DEF EnableByo, Endpoint
<1>6. row' \in [Tenant -> Byo] /\ row'[t] = byo /\ \A u \in Tenant \ {t} : row'[u] = row[u]
  BY <1>3, <1>4, <1>5 DEF ConnectorsInv, ConnectorsTypeOK
<1>20. /\ older' \in [Tenant -> SUBSET Byo]
       /\ \A u \in Tenant : older'[u] = IF u = t THEN Versions(t) ELSE older[u]
  <2>1. Versions(t) \in SUBSET Byo
    BY <1>3 DEF Versions, ConnectorsInv, ConnectorsTypeOK
  <2> QED
    BY <1>3, <2>1 DEF EnableByo, ConnectorsInv, ConnectorsTypeOK
<1>21. \A u \in Tenant : \A b \in Versions(u)' : b \in Versions(u) \/ (u = t /\ b = byo)
  BY <1>6, <1>20 DEF Versions
<1>7. PICK how \in {"ok", "refused"} : Answer(r, how)
  BY DEF EnableByo
<1>8. req' \in [Req -> Submission]
  BY <1>1, <1>7, MovesTyped DEF Replies
<1>9. /\ \A q \in Req \ {r} : req'[q] = req[q]
      /\ req'[r].slot = s /\ req'[r].at = "done" /\ req'[r].reply = how
  <2>1. req'[r] = Answered(r, how) /\ \A q \in Req \ {r} : req'[q] = req[q]
    BY <1>7 DEF Answer, ConnectorsInv, ConnectorsTypeOK
  <2> QED
    BY <2>1 DEF Answered, NewReq
<1>10. key \in [Slot -> Req \cup {None}] /\ None \notin Req
  BY Blanks DEF ConnectorsInv, ConnectorsTypeOK, Account
<1>11. ConnectorsTypeOK'
  BY <1>6, <1>8, <1>20
  DEF ConnectorsInv, ConnectorsTypeOK, EnableByo, Submission, cloud, procs, ghosts
<1>12. byo.endpoint = coords[req[r].worker].url /\ byo.connected = req[r].got.connected \cup {s[2]}
  OBVIOUS
<1> HIDE DEF byo
<1>13. Placed' /\ Separate' /\ Located'
  BY <1>2, <1>3, <1>9 DEF ConnectorsInv, Placed, Separate, Located, Working, Halfway
<1>14. KeyedOnce'
  BY <1>2, <1>9, <1>10 DEF ConnectorsInv, KeyedOnce, Keyed
<1>15. Paired'
  BY <1>1, <1>2, <1>9, <1>10 DEF ConnectorsInv, Paired, Targeted, Ok
<1>16. \A z \in Slot : Provided(z) => key'[z] # None /\ (z \notin wiped' => server'[z] # None)
  BY <1>2 DEF Provided
<1>17. Listed'
  <2>1. ASSUME NEW u \in Tenant, NEW b \in Versions(u)', NEW i \in b.connected
        PROVE  Provided(<<u, i>>)'
    <3>1. CASE b \in Versions(u)
      BY <1>2, <1>16, <2>1, <3>1, ListedKept DEF Provided
    <3>2. CASE u = t /\ b = byo
      <4>1. i \in req[r].got.connected \/ i = s[2]
        BY <1>12, <2>1, <3>2
      <4>2. CASE i \in req[r].got.connected
        BY <1>1, <1>2, <1>16, <3>2, <4>2, ListedKept DEF Provided
      <4>3. CASE i = s[2]
        BY <1>1, <1>2, <1>3, <3>2, <4>3 DEF ConnectorsInv, Listed, Targeted, Provided
      <4> QED
        BY <4>1, <4>2, <4>3
    <3> QED
      BY <1>21, <3>1, <3>2
  <2>2. ASSUME NEW q \in Req \ {r}
        PROVE  /\ Keyed(q)' => key'[req'[q].slot] # None
               /\ Targeted(q)' => Provided(req[q].slot)'
               /\ req'[q].at = "write_row" =>
                    \A i \in req'[q].got.connected : Provided(<<req[q].slot[1], i>>)'
    <3>1. req'[q] = req[q]
      BY <1>9
    <3> QED
      BY <1>2, <1>16, <3>1, ListedKept DEF Provided, Keyed, Targeted
  <2> QED
    BY <1>9, <2>1, <2>2 DEF Listed, Provided, Keyed, Targeted
<1>18. Apart'
  <2> SUFFICES ASSUME NEW a \in alone
               PROVE  /\ req'[a].at # "idle"
                      /\ \A q \in Req \ {a} : Working(q)' =>
                           /\ req'[q].slot # req'[a].slot
                           /\ Working(a)' => req'[q].slot[1] # req'[a].slot[1]
    BY <1>2 DEF Apart, Working
  <2>1. a \in Req
    BY DEF ConnectorsInv, ConnectorsTypeOK
  <2> QED
    BY <1>9, <2>1 DEF ConnectorsInv, Apart, Working
<1>19. Undisturbed'
  <2> SUFFICES ASSUME NEW a \in alone
               PROVE  /\ Keyed(a)' \/ Ok(a)' => key'[req'[a].slot] = a
                      /\ Targeted(a)' \/ Ok(a)' => server'[req'[a].slot] = a
                      /\ Ok(a)' => /\ req'[a].slot[2] \in row'[req'[a].slot[1]].connected
                                   /\ row'[req'[a].slot[1]].endpoint = gateway' \/ torn'
                      /\ \A q \in Req : Targeted(q)' /\ req'[q].slot[1] = req'[a].slot[1] =>
                           /\ coords'[req'[q].worker].id = gateway'
                           /\ Ok(a)' /\ req'[q].at = "write_row" =>
                                req'[a].slot[2] \in req'[q].got.connected
    BY <1>2 DEF Undisturbed, Keyed, Targeted, Ok
  <2>1. a \in Req
    BY DEF ConnectorsInv, ConnectorsTypeOK
  <2>2. /\ Keyed(a)' \/ Ok(a)' => key'[req'[a].slot] = a
        /\ Targeted(a)' \/ Ok(a)' => server'[req'[a].slot] = a
    <3>1. CASE a = r
      BY <1>1, <1>2, <1>9, <3>1 DEF ConnectorsInv, Undisturbed, Keyed, Targeted
    <3>2. CASE a # r
      BY <1>2, <1>9, <2>1, <3>2 DEF ConnectorsInv, Undisturbed, Keyed, Targeted, Ok
    <3> QED
      BY <3>1, <3>2
  <2>3. ASSUME Ok(a)'
        PROVE  /\ req'[a].slot[2] \in row'[req'[a].slot[1]].connected
               /\ row'[req'[a].slot[1]].endpoint = gateway' \/ torn'
    <3>1. CASE req[a].slot[1] = t
      <4>1. req'[a].slot = req[a].slot /\ row'[t] = byo
        BY <1>6, <1>9, <2>1
      <4>2. coords[req[r].worker].url = gateway \/ torn
        BY <1>1, <1>3, <3>1 DEF ConnectorsInv, Undisturbed, Targeted, Coordinated
      <4>3. req[a].slot[2] \in byo.connected
        <5>1. CASE a = r
          BY <1>12, <5>1
        <5>2. CASE a # r
          <6>1. Ok(a)
            BY <1>9, <2>1, <2>3, <5>2 DEF Ok
          <6> QED
            BY <1>1, <1>12, <3>1, <6>1 DEF ConnectorsInv, Undisturbed, Targeted
        <5> QED
          BY <5>1, <5>2
      <4> QED
        BY <1>2, <1>12, <3>1, <4>1, <4>2, <4>3
    <3>2. CASE req[a].slot[1] # t
      <4>1. req'[a] = req[a] /\ Ok(a)
        BY <1>9, <2>1, <2>3, <3>2 DEF Ok
      <4>2. req[a].slot[1] \in Tenant
        <5>1. req[a].slot \in Slot
          BY <2>1, <4>1 DEF ConnectorsInv, Placed, Ok
        <5> QED
          BY <5>1 DEF Slot
      <4> QED
        BY <1>2, <1>6, <3>2, <4>1, <4>2 DEF ConnectorsInv, Undisturbed
    <3> QED
      BY <3>1, <3>2
  <2>4. ASSUME NEW q \in Req, Targeted(q)', req'[q].slot[1] = req'[a].slot[1]
        PROVE  /\ coords'[req'[q].worker].id = gateway'
               /\ Ok(a)' /\ req'[q].at = "write_row" => req'[a].slot[2] \in req'[q].got.connected
    <3>1. q # r /\ req'[q] = req[q] /\ Targeted(q) /\ req[q].slot[1] = req[a].slot[1]
      BY <1>9, <2>1, <2>4 DEF Targeted
    <3>2. coords[req[q].worker].id = gateway
      BY <3>1 DEF ConnectorsInv, Undisturbed
    <3>3. ASSUME Ok(a)', req'[q].at = "write_row" PROVE req'[a].slot[2] \in req'[q].got.connected
      <4>1. CASE a = r
        BY <1>1, <1>9, <3>1, <4>1 DEF ConnectorsInv, Apart, Targeted, Working
      <4>2. CASE a # r
        BY <1>9, <2>1, <3>1, <3>3, <4>2 DEF ConnectorsInv, Undisturbed, Ok
      <4> QED
        BY <4>1, <4>2
    <3> QED
      BY <1>2, <3>1, <3>2, <3>3
  <2> QED
    BY <2>2, <2>3, <2>4
<1> QED
  BY <1>11, <1>13, <1>14, <1>15, <1>17, <1>18, <1>19 DEF ConnectorsInv

\* Submissions of replaced workers end; those of the others stay as they are.
LEMMA RestartWorker_Inv ==
  ASSUME ConnectorsInv, NEW w \in Worker, RestartWorker(w)
  PROVE  ConnectorsInv'
<1>1. UNCHANGED <<key, server, row, older, gateway, torn, mixed, alone, wiped>>
  BY DEF RestartWorker, res, cloud, ghosts
<1>2. req \in [Req -> Submission] /\ key \in [Slot -> Req \cup {None}] /\ None \notin Req
  BY Blanks DEF ConnectorsInv, ConnectorsTypeOK, Submission, Account
<1>3. ASSUME NEW q \in Req
      PROVE  /\ req'[q].slot = req[q].slot
             /\ \/ req'[q] = req[q] /\ ~(req[q].worker = w /\ Working(q))
                \/ req'[q].at = "done" /\ req'[q].reply = "refused" /\ Working(q)
             /\ req'[q] \in Submission
  <2>1. CASE req[q].worker = w /\ Working(q)
    <3>1. req'[q] = Answered(q, "refused")
      BY <2>1 DEF RestartWorker
    <3>2. Answered(q, "refused") \in Submission
      BY <1>2, Blanks DEF Answered, NewReq, Submission, Phases, Replies
    <3> QED
      BY <2>1, <3>1, <3>2 DEF Answered, NewReq
  <2>2. CASE ~(req[q].worker = w /\ Working(q))
    <3>1. req'[q] = req[q]
      BY <2>2 DEF RestartWorker
    <3> QED
      BY <1>2, <2>2, <3>1
  <2> QED
    BY <2>1, <2>2
<1>4. ConnectorsTypeOK'
  <2>1. req' = [q \in Req |-> req'[q]]
    BY DEF RestartWorker
  <2>2. req' \in [Req -> Submission]
    BY <1>3, <2>1
  <2>3. signs' \in [Worker -> 1 .. MaxKey] /\ coords' \in [Worker -> Pair]
    BY DEF ConnectorsInv, ConnectorsTypeOK, RestartWorker, Pair, NoPair
  <2> QED
    BY <2>2, <2>3 DEF ConnectorsInv, ConnectorsTypeOK, RestartWorker, Submission, res, cloud, ghosts
<1>5. Placed'
  BY <1>3 DEF ConnectorsInv, Placed, Working
<1>6. KeyedOnce'
  BY <1>1, <1>2, <1>3 DEF ConnectorsInv, KeyedOnce, Keyed
<1>7. Separate'
  BY <1>1, <1>3 DEF ConnectorsInv, Separate, Halfway
<1>8. Paired'
  BY <1>1, <1>2, <1>3 DEF ConnectorsInv, Paired, Targeted, Ok
<1>9. ASSUME NEW q \in Req, req'[q].at \in {"write_target", "read_row", "write_row"}
      PROVE  req'[q] = req[q] /\ coords'[req[q].worker] = coords[req[q].worker]
  <2>1. req'[q] = req[q] /\ req[q].worker # w
    BY <1>3, <1>9 DEF Working
  <2>2. req[q].worker \in Worker
    BY <1>9, <2>1 DEF ConnectorsInv, Placed, Working
  <2> QED
    BY <2>1, <2>2 DEF RestartWorker, ConnectorsInv, ConnectorsTypeOK
<1>10. Located'
  BY <1>9 DEF ConnectorsInv, Located
<1>11. \A z \in Slot : Provided(z) => key'[z] # None /\ (z \notin wiped' => server'[z] # None)
  BY <1>1 DEF Provided
<1>12. Listed'
  <2>1. \A t \in Tenant : \A b \in Versions(t)' : \A i \in b.connected : Provided(<<t, i>>)'
    BY <1>1, <1>11, ListedKept DEF Provided, Versions
  <2>2. ASSUME NEW q \in Req
        PROVE  /\ Keyed(q)' => key'[req'[q].slot] # None
               /\ Targeted(q)' => /\ key'[req'[q].slot] # None
                                  /\ req'[q].slot \notin wiped' => server'[req'[q].slot] # None
               /\ req'[q].at = "write_row" =>
                    \A i \in req'[q].got.connected :
                      /\ key'[<<req'[q].slot[1], i>>] # None
                      /\ <<req'[q].slot[1], i>> \notin wiped' => server'[<<req'[q].slot[1], i>>] # None
    <3>1. CASE req'[q] = req[q]
      BY <1>1, <1>11, <3>1, ListedKept DEF Keyed, Targeted
    <3>2. CASE req'[q] # req[q]
      BY <1>3, <3>2 DEF Keyed, Targeted
    <3> QED
      BY <3>1, <3>2
  <2> QED
    BY <2>1, <2>2 DEF Listed, Provided, Keyed, Targeted
<1>13. Apart'
  <2> SUFFICES ASSUME NEW a \in alone
               PROVE  /\ req'[a].at # "idle"
                      /\ \A q \in Req \ {a} : Working(q)' =>
                           /\ req'[q].slot # req'[a].slot
                           /\ Working(a)' => req'[q].slot[1] # req'[a].slot[1]
    BY <1>1 DEF Apart, Working
  <2>1. a \in Req
    BY DEF ConnectorsInv, ConnectorsTypeOK
  <2> QED
    BY <1>3, <2>1 DEF ConnectorsInv, Apart, Working
<1>14. Undisturbed'
  <2> SUFFICES ASSUME NEW a \in alone
               PROVE  /\ Keyed(a)' \/ Ok(a)' => key'[req'[a].slot] = a
                      /\ Targeted(a)' \/ Ok(a)' => server'[req'[a].slot] = a
                      /\ Ok(a)' => /\ req'[a].slot[2] \in row'[req'[a].slot[1]].connected
                                   /\ row'[req'[a].slot[1]].endpoint = gateway' \/ torn'
                      /\ \A q \in Req : Targeted(q)' /\ req'[q].slot[1] = req'[a].slot[1] =>
                           /\ coords'[req'[q].worker].id = gateway'
                           /\ Ok(a)' /\ req'[q].at = "write_row" =>
                                req'[a].slot[2] \in req'[q].got.connected
    BY <1>1 DEF Undisturbed, Keyed, Targeted, Ok
  <2>1. a \in Req
    BY DEF ConnectorsInv, ConnectorsTypeOK
  <2>2. (Keyed(a)' \/ Ok(a)' \/ Targeted(a)') => req'[a] = req[a]
    BY <1>3, <2>1 DEF Keyed, Targeted, Ok
  <2>3. /\ Keyed(a)' \/ Ok(a)' => key'[req'[a].slot] = a
        /\ Targeted(a)' \/ Ok(a)' => server'[req'[a].slot] = a
        /\ Ok(a)' => /\ req'[a].slot[2] \in row'[req'[a].slot[1]].connected
                     /\ row'[req'[a].slot[1]].endpoint = gateway' \/ torn'
    BY <1>1, <2>2 DEF ConnectorsInv, Undisturbed, Keyed, Targeted, Ok
  <2>4. ASSUME NEW q \in Req, Targeted(q)', req'[q].slot[1] = req'[a].slot[1]
        PROVE  /\ coords'[req'[q].worker].id = gateway'
               /\ Ok(a)' /\ req'[q].at = "write_row" => req'[a].slot[2] \in req'[q].got.connected
    <3>1. req'[q] = req[q] /\ coords'[req[q].worker] = coords[req[q].worker]
      BY <1>9, <2>4 DEF Targeted
    <3>2. req'[a].slot = req[a].slot /\ (Ok(a)' => Ok(a))
      BY <1>3, <2>1 DEF Ok
    <3>3. Targeted(q) /\ req[q].slot[1] = req[a].slot[1]
      BY <2>4, <3>1, <3>2 DEF Targeted
    <3> QED
      BY <1>1, <3>1, <3>2, <3>3 DEF ConnectorsInv, Undisturbed
  <2> QED
    BY <2>3, <2>4
<1> QED
  BY <1>4, <1>5, <1>6, <1>7, <1>8, <1>10, <1>12, <1>13, <1>14 DEF ConnectorsInv

LEMMA DeleteTargets_Inv ==
  ASSUME ConnectorsInv, DeleteTargets
  PROVE  ConnectorsInv'
<1>1. UNCHANGED <<key, row, older, gateway, torn, coords, mixed>> /\ alone' = {}
      /\ server' = [s \in Slot |-> None]
      /\ wiped' = wiped \cup {s \in Slot : server[s] # None}
  BY DEF DeleteTargets, procs
<1>2. req \in [Req -> Submission] /\ key \in [Slot -> Req \cup {None}] /\ None \notin Req
  BY Blanks DEF ConnectorsInv, ConnectorsTypeOK, Submission, Account
<1>3. ASSUME NEW q \in Req
      PROVE  /\ req'[q].slot = req[q].slot /\ req'[q].worker = req[q].worker
             /\ req'[q].at = req[q].at /\ req'[q].reply = req[q].reply
             /\ req'[q].got = req[q].got /\ req'[q] \in Submission
  <2>1. req[q] \in Submission /\ [req[q] EXCEPT !.found = "gone"] \in Submission
    BY <1>2 DEF Submission
  <2>2. req'[q] = req[q] \/ req'[q] = [req[q] EXCEPT !.found = "gone"]
    BY DEF DeleteTargets
  <2> QED
    BY <2>1, <2>2 DEF Submission
<1>4. ConnectorsTypeOK'
  <2>1. req' = [q \in Req |-> req'[q]]
    BY DEF DeleteTargets
  <2>2. req' \in [Req -> Submission]
    BY <1>3, <2>1
  <2>3. server' \in [Slot -> Account] /\ wiped' \subseteq Slot /\ alone' \subseteq Req
    BY <1>1 DEF Account, ConnectorsInv, ConnectorsTypeOK
  <2>4. UNCHANGED <<key, row, older, gateway, torn, ssm, made, secret, signs, coords, jwks, call, mixed>>
        /\ admin' \in {"idle", "targets", "gone", "purge", "publish", "publish_url"}
    BY DEF DeleteTargets, procs
  <2> QED
    BY <2>2, <2>3, <2>4 DEF ConnectorsInv, ConnectorsTypeOK, Submission
<1>5. Placed' /\ KeyedOnce' /\ Separate' /\ Located'
  BY <1>1, <1>2, <1>3
  DEF ConnectorsInv, Placed, KeyedOnce, Separate, Located, Working, Keyed, Halfway
<1>6. Paired'
  BY <1>1 DEF Paired
<1>7. \A z \in Slot : Provided(z) => key'[z] # None /\ (z \notin wiped' => server'[z] # None)
  BY <1>1 DEF Provided
<1>8. Listed'
  <2>1. \A t \in Tenant : \A b \in Versions(t)' : \A i \in b.connected : Provided(<<t, i>>)'
    BY <1>1, <1>7, ListedKept DEF Provided, Versions
  <2>2. ASSUME NEW q \in Req
        PROVE  /\ Keyed(q)' => key'[req'[q].slot] # None
               /\ Targeted(q)' => /\ key'[req'[q].slot] # None
                                  /\ req'[q].slot \notin wiped' => server'[req'[q].slot] # None
               /\ req'[q].at = "write_row" =>
                    \A i \in req'[q].got.connected :
                      /\ key'[<<req'[q].slot[1], i>>] # None
                      /\ <<req'[q].slot[1], i>> \notin wiped' => server'[<<req'[q].slot[1], i>>] # None
    BY <1>1, <1>3, <1>7, ListedKept DEF Keyed, Targeted
  <2> QED
    BY <2>1, <2>2 DEF Listed, Provided, Keyed, Targeted
<1>9. Apart' /\ Undisturbed'
  BY <1>1 DEF Apart, Undisturbed
<1> QED
  BY <1>4, <1>5, <1>6, <1>8, <1>9 DEF ConnectorsInv

-----------------------------------------------------------------------------
LEMMA Lookups_Inv ==
  ASSUME ConnectorsInv, NEW r \in Req, Validate(r) \/ FindKey(r) \/ FindTarget(r) \/ ReadRow(r) \/ Fail(r)
  PROVE  ConnectorsInv'
<1>1. Working(r)
  BY DEF Validate, FindKey, FindTarget, ReadRow, Fail, Working
<1>2. /\ req \in [Req -> Submission] /\ req[r] \in Submission /\ req[r].slot \in Slot
      /\ req[r].worker \in Worker /\ req[r].reply = "none" /\ req[r].slot[1] \in Tenant
  <2>1. req[r].slot \in Slot
    BY <1>1, MovesTyped
  <2> QED
    BY <1>1, <2>1, MovesTyped DEF Slot
<1>3. /\ UNCHANGED <<key, server, row, older, gateway, torn, mixed, wiped>>
      /\ alone' \subseteq alone
  BY DEF Validate, FindKey, FindTarget, ReadRow, Fail, res, cloud, procs, ghosts
<1>4. /\ coords' \in [Worker -> Pair]
      /\ \A w \in Worker : coords[w] # NoPair => coords'[w] = coords[w]
  <2>1. CASE FindTarget(r)
    <3>1. Coordinates(req[r].worker) \in Pair
      BY <1>2 DEF Coordinates, NoPair, Pair, ConnectorsInv, ConnectorsTypeOK
    <3> QED
      BY <1>2, <2>1, <3>1 DEF FindTarget, Coordinates, ConnectorsInv, ConnectorsTypeOK
  <2>2. CASE UNCHANGED coords
    BY <2>2 DEF ConnectorsInv, ConnectorsTypeOK
  <2> QED
    BY <2>1, <2>2 DEF Validate, FindKey, ReadRow, Fail, procs
<1>5. ASSUME req' \in [Req -> Submission] PROVE ConnectorsTypeOK'
  BY <1>3, <1>4, <1>5
  DEF ConnectorsInv, ConnectorsTypeOK, Submission, Validate, FindKey, FindTarget, ReadRow, Fail,
      res, cloud, procs, ghosts
\* The step goes on to place p.
<1>6. ASSUME NEW p \in Phases \ {"idle", "done"}, NEW f \in {"no", "yes"},
             req' = [req EXCEPT ![r] = [req[r] EXCEPT !.at = p, !.found = f]]
      PROVE  Moved(r, p) /\ req' \in [Req -> Submission] /\ req'[r].at = p
  <2>1. [req[r] EXCEPT !.at = p, !.found = f] \in Submission
    BY <1>2 DEF Submission
  <2>2. req'[r] = [req[r] EXCEPT !.at = p, !.found = f] /\ \A q \in Req \ {r} : req'[q] = req[q]
    BY <1>2, <1>6
  <2>3. /\ req'[r].at = p /\ req'[r].reply = "none" /\ req'[r].worker = req[r].worker
        /\ req'[r].slot = req[r].slot
    BY <1>2, <2>2 DEF Submission
  <2> QED
    BY <1>2, <1>6, <2>1, <2>2, <2>3 DEF Moved
<1>7. CASE Answer(r, "refused")
  <2> DEFINE p == req[r].at
  <2>1. p \in Phases \ {"idle", "done"}
    BY <1>1, <1>2 DEF Working, Submission
  <2>2. Moved(r, p) /\ req' \in [Req -> Submission]
    BY <1>1, <1>7, <2>1, Moves
  <2>3. req'[r].at = "done"
    BY <1>2, <1>7 DEF Answer, Answered, NewReq
  <2> HIDE DEF p
  <2>4. Connected'
    <3>1. p = req[r].at /\ p # "done"
      BY <2>1 DEF p
    <3> QED
      BY <1>1, <1>3, <1>4, <2>1, <2>2, <2>3, <3>1, QuietStep
  <2> QED
    BY <1>5, <2>2, <2>4 DEF ConnectorsInv, Connected
<1>8. CASE req[r].at = "validate" /\ Goto(r, "find_key")
  <2>1. "find_key" \in Phases \ {"idle", "done"}
    BY DEF Phases
  <2>2. Moved(r, "find_key") /\ req' \in [Req -> Submission]
    BY <1>1, <1>8, <2>1, Moves
  <2>3. Connected'
    BY <1>1, <1>3, <1>4, <1>8, <2>1, <2>2, QuietStep
  <2> QED
    BY <1>5, <2>2, <2>3 DEF ConnectorsInv, Connected
<1>9. CASE FindKey(r)
  <2>1. "write_key" \in Phases \ {"idle", "done"}
    BY DEF Phases
  <2>2. PICK f \in {"no", "yes"} :
          req' = [req EXCEPT ![r] = [req[r] EXCEPT !.at = "write_key", !.found = f]]
    <3>1. PICK f \in {"no", "yes"} : f = IF key[req[r].slot] # None THEN "yes" ELSE "no"
      OBVIOUS
    <3> QED
      BY <1>2, <1>9, <3>1 DEF FindKey, Submission
  <2>3. Moved(r, "write_key") /\ req' \in [Req -> Submission]
    BY <1>6, <2>1, <2>2
  <2>4. req[r].at = "find_key"
    BY <1>9 DEF FindKey
  <2>5. Connected'
    BY <1>1, <1>3, <1>4, <2>1, <2>3, <2>4, QuietStep
  <2> QED
    BY <1>5, <2>3, <2>5 DEF ConnectorsInv, Connected
<1>10. CASE FindTarget(r) /\ ~Answer(r, "refused")
  <2>1. "write_target" \in Phases \ {"idle", "done"}
    BY DEF Phases
  <2>2. PICK f \in {"no", "yes"} :
          req' = [req EXCEPT ![r] = [req[r] EXCEPT !.at = "write_target", !.found = f]]
    <3>1. PICK f \in {"no", "yes"} : f = IF server[req[r].slot] # None THEN "yes" ELSE "no"
      OBVIOUS
    <3> QED
      BY <1>2, <1>10, <3>1 DEF FindTarget, Submission
  <2>3. Moved(r, "write_target") /\ req' \in [Req -> Submission]
    BY <1>6, <2>1, <2>2
  <2>4. req[r].at = "find_target" /\ coords'[req[r].worker] # NoPair
    BY <1>2, <1>10 DEF FindTarget, ConnectorsInv, ConnectorsTypeOK
  <2>5. Connected'
    BY <1>1, <1>3, <1>4, <2>1, <2>3, <2>4, QuietStep
  <2> QED
    BY <1>5, <2>3, <2>5 DEF ConnectorsInv, Connected
<1>11. CASE ReadRow(r)
  <2>1. "write_row" \in Phases \ {"idle", "done"} /\ req[r].at = "read_row"
    BY <1>11 DEF Phases, ReadRow
  <2> DEFINE t == req[r].slot[1]
  <2>8. PICK byo \in Versions(t) :
          /\ req' = [req EXCEPT ![r].at = "write_row", ![r].found = "no", ![r].got = byo]
          /\ alone' = {q \in alone : byo = row[t] \/ q = r \/ req[q].slot[1] # t
                                      \/ req[q].slot[2] \in byo.connected}
    BY <1>11 DEF ReadRow
  <2> DEFINE x == [req[r] EXCEPT !.at = "write_row", !.found = "no", !.got = byo]
  <2>9. byo \in Byo
    BY <1>2, <2>8 DEF Versions, ConnectorsInv, ConnectorsTypeOK
  <2>2. x \in Submission
    BY <1>2, <2>1, <2>9 DEF Submission
  <2>3. req' = [req EXCEPT ![r] = x]
    BY <1>2, <2>8 DEF Submission
  <2>4. req'[r] = x /\ (\A q \in Req \ {r} : req'[q] = req[q]) /\ req' \in [Req -> Submission]
    BY <1>2, <2>2, <2>3
  <2>5. /\ req'[r].at = "write_row" /\ req'[r].reply = "none" /\ req'[r].worker = req[r].worker
        /\ req'[r].slot = req[r].slot /\ req'[r].got = byo
    BY <1>2, <2>4 DEF Submission
  <2>10. ASSUME NEW a \in alone' \ {r}, Ok(a), req[a].slot[1] = t
         PROVE  req[a].slot[2] \in byo.connected
    <3>1. a \in alone
      BY <2>8
    <3>2. req[a].slot[2] \in row[t].connected
      BY <2>10, <3>1 DEF ConnectorsInv, Undisturbed
    <3> QED
      BY <2>8, <2>10, <3>1, <3>2
  <2>6. Moved(r, "write_row")
    BY <2>4, <2>5 DEF Moved
  <2>7. Connected'
    BY <1>1, <1>3, <1>4, <2>1, <2>5, <2>6, <2>8, <2>10, QuietStep
  <2> QED
    BY <1>5, <2>4, <2>7 DEF ConnectorsInv, Connected
<1> QED
  BY <1>7, <1>8, <1>9, <1>10, <1>11 DEF Validate, Fail

LEMMA Gateways_Inv ==
  ASSUME ConnectorsInv, 
           \/ DeleteGateway \/ PurgeId \/ PurgeUrl
           \/ ProvisionGateway \/ PublishId \/ PublishUrl \/ LeaveParameters
  PROVE  ConnectorsInv'
<1> USE DEF res, procs, ghosts
<1>1. None \notin Gen /\ \A g \in Gen : g \in 0 .. MaxGen
  BY Blanks, ConnectorAssumption DEF Gen
<1>2. CASE DeleteGateway
  BY <1>2, GatewayChanges DEF DeleteGateway, ConnectorsInv, ConnectorsTypeOK, Connected
<1>3. CASE PurgeId \/ PurgeUrl
  <2>1. ssm' \in Pair
    BY <1>3 DEF PurgeId, PurgeUrl, Pair, ConnectorsInv, ConnectorsTypeOK
  <2> QED
    BY <1>3, <2>1, Elsewhere DEF PurgeId, PurgeUrl, ConnectorsInv, ConnectorsTypeOK, Connected
<1>4. CASE ProvisionGateway
  <2>1. made' \in 0 .. MaxGen /\ gateway' \in Gen
    BY <1>1, <1>4 DEF ProvisionGateway, ConnectorsInv, ConnectorsTypeOK
  <2>2. ConnectorsTypeOK'
    BY <1>4, <2>1 DEF ProvisionGateway, ConnectorsInv, ConnectorsTypeOK
  <2>3. CASE gateway = None
    BY <1>4, <2>2, <2>3, GatewayChanges DEF ProvisionGateway, ConnectorsInv, Connected
  <2>4. CASE gateway # None
    BY <1>4, <2>2, <2>4, Elsewhere DEF ProvisionGateway, FoundOrCreated, ConnectorsInv, Connected
  <2> QED
    BY <2>3, <2>4
<1>5. CASE PublishId \/ PublishUrl
  <2>1. ssm' \in Pair /\ torn' \in BOOLEAN /\ (torn => torn')
    BY <1>5 DEF PublishId, PublishUrl, Pair, ConnectorsInv, ConnectorsTypeOK
  <2> QED
    BY <1>5, <2>1, Elsewhere DEF PublishId, PublishUrl, ConnectorsInv, ConnectorsTypeOK, Connected
<1>6. CASE LeaveParameters
  BY <1>6, Elsewhere DEF LeaveParameters, ConnectorsInv, ConnectorsTypeOK, Connected
<1> QED
  BY <1>2, <1>3, <1>4, <1>5, <1>6

LEMMA KeysAndCalls_Inv ==
  ASSUME ConnectorsInv, ConfigureKey \/ ColdStart \/ \E c \in Call : Mint(c) \/ Intercept(c)
  PROVE  ConnectorsInv'
<1> USE DEF res, cloud, procs, ghosts
<1>1. Connected'
  BY Elsewhere DEF ConfigureKey, ColdStart, Mint, Intercept
<1>2. call \in [Call -> ToolCall] /\ jwks \subseteq 1 .. MaxKey /\ signs \in [Worker -> 1 .. MaxKey]
  BY DEF ConnectorsInv, ConnectorsTypeOK, ToolCall
<1>3. CASE ConfigureKey
  <2>1. secret' \in 1 .. MaxKey
    BY <1>3, ConnectorAssumption DEF ConfigureKey, ConnectorsInv, ConnectorsTypeOK
  <2> QED
    BY <1>1, <1>3, <2>1 DEF ConfigureKey, ConnectorsInv, ConnectorsTypeOK, Connected
<1>4. CASE ColdStart
  BY <1>1, <1>4 DEF ColdStart, ConnectorsInv, ConnectorsTypeOK, Connected
<1>5. ASSUME NEW c \in Call, Mint(c) PROVE ConnectorsTypeOK'
  <2>1. PICK w \in Worker, s \in Slot :
          /\ row[s[1]].endpoint # None
          /\ call' = [call EXCEPT ![c] = [Token(w, s) EXCEPT !.endpoint = row[s[1]].endpoint]]
    BY <1>5 DEF Mint
  <2>2. row[s[1]].endpoint \in Gen \cup {None}
    BY DEF Slot, Byo, ConnectorsInv, ConnectorsTypeOK
  <2>3. signs[w] \in 0 .. MaxKey
    BY <1>2, ConnectorAssumption
  <2>4. [Token(w, s) EXCEPT !.endpoint = row[s[1]].endpoint] \in ToolCall
    BY <2>2, <2>3 DEF Token, NewCall, ToolCall, Results
  <2>5. call' \in [Call -> ToolCall]
    BY <1>2, <2>1, <2>4
  <2> QED
    BY <1>5, <2>5 DEF Mint, ConnectorsInv, ConnectorsTypeOK, ToolCall
<1>6. ASSUME NEW c \in Call, Intercept(c) PROVE ConnectorsTypeOK'
  <2>1. \A x \in Results : [NewCall EXCEPT !.result = x] \in ToolCall
    BY Blanks DEF NewCall, ToolCall
  <2>2. \E x \in Results : call' = [call EXCEPT ![c] = [NewCall EXCEPT !.result = x]]
    <3>1. \A s, owner : Forwarding(s, owner) \in Results
      BY DEF Forwarding, Results
    <3>2. \A keys : Verdicts(c, keys) \subseteq {"valid", "expired", "denied_auth"}
      BY DEF Verdicts
    <3>3. {"unreachable", "crashed", "expired", "denied_auth"} \subseteq Results
      BY DEF Results
    <3> QED
      BY <1>6, <3>1, <3>2, <3>3 DEF Intercept
  <2>3. call' \in [Call -> ToolCall]
    BY <1>2, <2>1, <2>2
  <2>4. jwks' \subseteq 1 .. MaxKey
    BY <1>2, <1>6 DEF Intercept, Refreshed, ServedBy
  <2> QED
    BY <1>6, <2>3, <2>4 DEF Intercept, ConnectorsInv, ConnectorsTypeOK, ToolCall
<1> QED
  BY <1>1, <1>3, <1>4, <1>5, <1>6 DEF ConnectorsInv, Connected

\* The parameters and what the workers read of them.
LEMMA CoordinatedStep ==
  ASSUME ConnectorsInv, Coordinated, [ConnectorsNext]_cnvars
  PROVE  Coordinated'
<1> USE DEF Coordinated
<1>1. ssm \in Pair /\ coords \in [Worker -> Pair]
  BY DEF ConnectorsInv, ConnectorsTypeOK
<1>2. CASE UNCHANGED <<gateway, ssm, admin, torn, coords>>
  BY <1>2
<1>3. ASSUME NEW r \in Req, FindTarget(r) PROVE Coordinated'
  <2>1. UNCHANGED <<gateway, ssm, admin, torn>>
    BY <1>3 DEF FindTarget, cloud
  <2>2. coords' = [coords EXCEPT ![req[r].worker] = Coordinates(req[r].worker)]
    BY <1>3 DEF FindTarget
  <2>3. ASSUME NEW w \in Worker PROVE coords'[w].id = coords'[w].url \/ torn
    BY <1>1, <2>2 DEF Coordinates, NoPair
  <2> QED
    BY <2>1, <2>3
<1>4. ASSUME NEW w \in Worker, RestartWorker(w) PROVE Coordinated'
  <2>1. UNCHANGED <<gateway, ssm, admin, torn>>
    BY <1>4 DEF RestartWorker, cloud
  <2>2. \A v \in Worker : coords'[v] = coords[v] \/ coords'[v] = NoPair
    BY <1>1, <1>4 DEF RestartWorker
  <2> QED
    BY <2>1, <2>2 DEF NoPair
<1>5. CASE DeleteTargets \/ DeleteGateway \/ ProvisionGateway \/ LeaveParameters
  BY <1>5 DEF DeleteTargets, DeleteGateway, ProvisionGateway, LeaveParameters, procs
<1>6. CASE PurgeId \/ PurgeUrl
  BY <1>1, <1>6 DEF PurgeId, PurgeUrl, procs, Pair
<1>7. CASE PublishId \/ PublishUrl
  BY <1>1, <1>7 DEF PublishId, PublishUrl, procs, Pair
<1> QED
  BY <1>2, <1>3, <1>4, <1>5, <1>6, <1>7
  DEF ConnectorsNext, cnvars, cloud, procs, ReqStep, Submit, Validate, FindKey, WriteKey, WriteTarget,
      ReadRow, EnableByo, Fail, ConfigureKey, Mint, Intercept, ColdStart

LEMMA ConnectorsStep == ConnectorsInv /\ Coordinated /\ [ConnectorsNext]_cnvars => ConnectorsInv'
<1> SUFFICES ASSUME ConnectorsInv, Coordinated, [ConnectorsNext]_cnvars PROVE ConnectorsInv'
  OBVIOUS
<1>1. ASSUME NEW r \in Req, ReqStep(r) PROVE ConnectorsInv'
  BY <1>1, Submit_Inv, WriteKey_Inv, WriteTarget_Inv, EnableByo_Inv, Lookups_Inv DEF ReqStep
<1>2. CASE DeleteTargets
  BY <1>2, DeleteTargets_Inv
<1>3. CASE \/ DeleteGateway \/ PurgeId \/ PurgeUrl
           \/ ProvisionGateway \/ PublishId \/ PublishUrl \/ LeaveParameters
  BY <1>3, Gateways_Inv
<1>4. CASE ConfigureKey \/ ColdStart \/ \E c \in Call : Mint(c) \/ Intercept(c)
  BY <1>4, KeysAndCalls_Inv
<1>5. ASSUME NEW w \in Worker, RestartWorker(w) PROVE ConnectorsInv'
  BY <1>5, RestartWorker_Inv
<1>6. CASE UNCHANGED cnvars
  <2>1. Connected'
    BY <1>6, Elsewhere DEF cnvars, res, cloud, procs, ghosts
  <2> QED
    BY <1>6, <2>1 DEF cnvars, res, cloud, procs, ghosts, ConnectorsInv, ConnectorsTypeOK, Connected
<1> QED
  BY <1>1, <1>2, <1>3, <1>4, <1>5, <1>6 DEF ConnectorsNext

LEMMA ConnectorsInvariant == ConnectorsSpec => []ConnectorsInv
<1>1. ConnectorsInit => Coordinated
  BY DEF ConnectorsInit, Coordinated, Of, NoPair
<1>2. Coordinated /\ ConnectorsInv /\ [ConnectorsNext]_cnvars => Coordinated'
  BY CoordinatedStep
<1> QED
  BY <1>1, <1>2, ConnectorsInit_Inv, ConnectorsStep, PTL DEF ConnectorsSpec

\* The variables keep their types, for any tenants, submissions and workers.
THEOREM ConnectorsTyped == ConnectorsSpec => []ConnectorsTypeOK
<1>1. ConnectorsInv => ConnectorsTypeOK
  BY DEF ConnectorsInv
<1> QED
  BY <1>1, ConnectorsInvariant, PTL

\* However many submissions of however many tenants cross, stop or lose their
\* answers (provision_integration), a connection that was answered ok does not
\* leave its key under another account's server, unless two submissions of the
\* slot overlapped between their two writes.
THEOREM CredentialsArePaired == ConnectorsSpec => []PairedCredentials
<1>1. ConnectorsInv => PairedCredentials
  BY DEF ConnectorsInv, Paired, Ok, PairedCredentials
<1> QED
  BY <1>1, ConnectorsInvariant, PTL

\* What connect_* answered ok to, when nothing ran into it (a submission of its
\* slot, a read of the row that misses it, a gateway deleted or made), is in
\* force: the key, the server, the row and, unless the id and the url were ever
\* published of two gateways, the gateway.
THEOREM ConnectionsWork == ConnectorsSpec => []ConnectWorks
<1>1. ConnectorsInv => ConnectWorks
  BY DEF ConnectorsInv, Undisturbed, Ok, ConnectWorks
<1> QED
  BY <1>1, ConnectorsInvariant, PTL

\* An integration in the row (_enable_byo_for_integration) has its provider and,
\* unless the operator deleted it, its target.
THEOREM ListedAreProvisioned == ConnectorsSpec => []ListedIsProvisioned
<1>1. ConnectorsInv => ListedIsProvisioned
  BY DEF ConnectorsInv, Listed, Provided, ListedIsProvisioned, Versions
<1> QED
  BY <1>1, ConnectorsInvariant, PTL

\* The interceptor (_get_signing_key) refuses a token for its key only while a
\* worker signs with another key than the token's.
THEOREM FreshTokensAreAccepted == ConnectorsSpec => FreshTokenAccepted
<1> DEFINE A == \A c \in Call :
                  (call[c].result = "minted" /\ call'[c].result = "denied_auth")
                    => \E w \in Worker : signs[w] # call[c].kid
<1>1. ConnectorsInv /\ [ConnectorsNext]_cnvars => [A]_cnvars
  <2> SUFFICES ASSUME ConnectorsInv, ConnectorsNext, NEW c \in Call,
                      call[c].result = "minted", call'[c].result = "denied_auth"
               PROVE  \E w \in Worker : signs[w] # call[c].kid
    BY DEF cnvars
  <2>1. call \in [Call -> ToolCall]
    BY DEF ConnectorsInv, ConnectorsTypeOK, ToolCall
  <2>2. call' # call
    OBVIOUS
  <2>3. PICK d \in Call : Mint(d) \/ Intercept(d)
    BY <2>2 DEF ConnectorsNext, ReqStep, Submit, Validate, FindKey, WriteKey, FindTarget, WriteTarget,
                ReadRow, EnableByo, Fail, DeleteTargets, DeleteGateway, PurgeId, PurgeUrl,
                ProvisionGateway, PublishId, PublishUrl, LeaveParameters, ConfigureKey, RestartWorker, ColdStart
  <2>4. CASE Mint(d)
    BY <2>1, <2>4 DEF Mint
  <2>5. CASE Intercept(d)
    <3>1. c = d
      BY <2>1, <2>5 DEF Intercept
    <3>2. \A s, owner : Forwarding(s, owner) # "denied_auth"
      BY DEF Forwarding
    <3>3. PICK w \in Worker :
            /\ jwks' = Refreshed(call[c].kid, w)
            /\ "denied_auth" \in Verdicts(c, jwks')
      BY <2>1, <2>5, <3>1, <3>2 DEF Intercept, NewCall
    <3>4. call[c].kid \notin jwks'
      BY <3>3 DEF Verdicts
    <3> QED
      BY <3>3, <3>4 DEF Refreshed, ServedBy
  <2> QED
    BY <2>3, <2>4, <2>5
<1> QED
  BY <1>1, ConnectorsInvariant, PTL DEF ConnectorsSpec, FreshTokenAccepted
=============================================================================
