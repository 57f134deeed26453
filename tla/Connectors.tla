----------------------------- MODULE Connectors -----------------------------
(***************************************************************************)
(* The integrations a tenant connects from the console, and the tool calls *)
(* that use them.  A connection is two resources of AgentCore, the         *)
(* credential provider that holds the key and the gateway target that      *)
(* names the server, written one after the other and each by find-then-    *)
(* create-or-update, and then the tenants row.  A call carries a token the *)
(* bridge minted; the interceptor verifies it against the bridge's JWKS    *)
(* and lets it reach the targets of the token's tenant only.               *)
(*                                                                         *)
(* Around them: two scripts that make and delete the shared gateway, and   *)
(* bridge workers that cache its coordinates and their signing key for as  *)
(* long as they live.                                                      *)
(***************************************************************************)
EXTENDS Naturals, FiniteSets

CONSTANTS
  Tenant,   \* the tenants
  Offered,  \* the integrations submitted in this instance
  Req,      \* submissions of a connector form; each has its own account
  Call,     \* tool calls of agents
  Worker,   \* processes of the bridge
  MaxGen,   \* bound: gateways ever created
  MaxKey,   \* bound: signing keys ever configured
  None      \* nothing there

VARIABLES
  key,      \* key[t, i]: whose account's key the credential provider holds
  server,   \* server[t, i]: whose account the gateway target names
  row,      \* row[t]: byo of the tenants row
  older,    \* older[t]: what it was before, which a read may still answer
  req,      \* the submissions
  gateway,  \* the generation of the shared gateway, None when there is none
  ssm,      \* the id and the url published in the parameter store
  made,     \* how many gateways were created
  admin,    \* where the operator's gateway script is
  secret,   \* the signing key configured for the bridge
  signs,    \* signs[w]: the key worker w has loaded
  coords,   \* coords[w]: the id and the url worker w has cached
  jwks,     \* key ids the warm interceptor has cached
  call,     \* the tool calls
  mixed,    \* history: the slots where two submissions overlapped
  alone,    \* history: the submissions nothing else ran into
  wiped,    \* history: the slots whose target the operator deleted
  torn      \* history: the id and the url published were of two gateways

res    == <<key, server, row, older>>
cloud  == <<gateway, ssm, made, admin, torn>>
procs  == <<secret, signs, coords>>
ghosts == <<mixed, alone, wiped>>
cnvars == <<res, req, cloud, procs, jwks, call, ghosts>>

-----------------------------------------------------------------------------
\* The connectors: what the target's server is made from, and what a wrong
\* key makes the vendor answer.  Each checks the credentials at the vendor
\* first and keeps the secret in a form of its own (Basic, Bearer, bare).
confluence == [name |-> "confluence", server |-> "submitted", wrong |-> "status"]
notion     == [name |-> "notion",     server |-> "vendor",    wrong |-> "status"]
jira       == [name |-> "jira",       server |-> "submitted", wrong |-> "status"]
linear     == [name |-> "linear",     server |-> "vendor",    wrong |-> "errors"]
pagerduty  == [name |-> "pagerduty",  server |-> "vendor",    wrong |-> "status"]
github     == [name |-> "github",     server |-> "vendor",    wrong |-> "status"]
datadog    == [name |-> "datadog",    server |-> "none",      wrong |-> "disabled"]

Connectors  == {confluence, notion, jira, linear, pagerduty, github, datadog}
Integration == {c \in Connectors : c.name \in Offered}
Slot        == Tenant \X Integration
Account     == Req \cup {None}
Gen         == 1 .. MaxGen

ASSUME ConnectorAssumption ==
  /\ Offered \subseteq {c.name : c \in Connectors}
  /\ MaxGen \in Nat \ {0} /\ MaxKey \in Nat \ {0} /\ None \notin Req \cup Nat

\* The coordinates of a gateway are two parameters; the third, its arn, nobody
\* reads.
Pair    == [id : Gen \cup {None}, url : Gen \cup {None}]
NoPair  == [id |-> None, url |-> None]
Of(g)   == [id |-> g, url |-> g]

Byo     == [endpoint : Gen \cup {None}, connected : SUBSET Integration]
NoByo   == [endpoint |-> None, connected |-> {}]
Phases  == {"idle", "validate", "find_key", "write_key", "find_target",
            "write_target", "read_row", "write_row", "done"}
Replies == {"none", "ok", "refused"}        \* ok: false, whatever its error says
Results == {"none", "minted", "unreachable", "crashed", "denied_auth", "expired",
            "denied_owner", "no_target", "forwarded"}
NewReq  == [slot |-> None, worker |-> None, at |-> "idle", found |-> "no",
            got |-> NoByo, reply |-> "none"]
NewCall == [slot |-> None, kid |-> 0, endpoint |-> None, result |-> "none"]

ConnectorsTypeOK ==
  /\ key \in [Slot -> Account]
  /\ server \in [Slot -> Account]
  /\ row \in [Tenant -> Byo] /\ older \in [Tenant -> SUBSET Byo]
  /\ req \in [Req -> [slot : Slot \cup {None}, worker : Worker \cup {None},
                      at : Phases, found : {"no", "yes", "gone"}, got : Byo, reply : Replies]]
  /\ gateway \in Gen \cup {None} /\ ssm \in Pair /\ made \in 0 .. MaxGen
  /\ admin \in {"idle", "targets", "gone", "purge", "publish", "publish_url"}
  /\ secret \in 1 .. MaxKey /\ signs \in [Worker -> 1 .. MaxKey]
  /\ coords \in [Worker -> Pair]
  /\ jwks \subseteq 1 .. MaxKey
  /\ call \in [Call -> [slot : Slot \cup {None}, kid : 0 .. MaxKey,
                        endpoint : Gen \cup {None}, result : Results]]
  /\ mixed \subseteq Slot /\ alone \subseteq Req /\ wiped \subseteq Slot /\ torn \in BOOLEAN

\* A deployment with its gateway, and nothing connected.
ConnectorsInit ==
  /\ key = [s \in Slot |-> None]
  /\ server = [s \in Slot |-> None]
  /\ row = [t \in Tenant |-> NoByo] /\ older = [t \in Tenant |-> {}]
  /\ req = [r \in Req |-> NewReq]
  /\ gateway = 1 /\ ssm = Of(1) /\ made = 1 /\ admin = "idle"
  /\ secret = 1 /\ signs = [w \in Worker |-> 1]
  /\ coords = [w \in Worker |-> NoPair]
  /\ jwks = {1}                               \* a warm interceptor
  /\ call = [c \in Call |-> NewCall]
  /\ mixed = {} /\ alone = {} /\ wiped = {} /\ torn = FALSE

-----------------------------------------------------------------------------
(* A submission.                                                           *)

Working(r) == req[r].at \notin {"idle", "done"}

Goto(r, step)  == req' = [req EXCEPT ![r].at = step]
Answered(r, how) ==
  [NewReq EXCEPT !.slot = req[r].slot, !.at = "done", !.reply = how]
Answer(r, how) == req' = [req EXCEPT ![r] = Answered(r, how)]

\* A write that was made may still be reported as failed: its answer is lost.
Written(r, step) == Goto(r, step) \/ Answer(r, "refused")

\* The form is submitted; the console's server action sends it to a worker
\* of the bridge, where pydantic has validated the fields.  Nothing stops two
\* tabs from submitting the same form.  Datadog is refused at once.
Submit(r) ==
  /\ req[r].at = "idle"
  /\ \E s \in Slot, w \in Worker :
       /\ req' = [req EXCEPT ![r] =
                    [NewReq EXCEPT !.slot = s, !.worker = w,
                       !.at = IF s[2].wrong = "disabled" THEN "done" ELSE "validate",
                       !.reply = IF s[2].wrong = "disabled" THEN "refused" ELSE "none"]]
       /\ LET others == {q \in Req \ {r} : Working(q) /\ req[q].slot[1] = s[1]} IN
          alone' = {q \in alone \ others : req[q].slot # s} \cup
                   (IF others = {} THEN {r} ELSE {})
  /\ UNCHANGED <<res, cloud, procs, jwks, call, mixed, wiped>>

\* The vendor's answer to the credentials: not reached, refused (by status, or
\* by the errors of a GraphQL answer that has status 200), accepted.
Validate(r) ==
  /\ req[r].at = "validate"
  /\ Goto(r, "find_key") \/ Answer(r, "refused")
  /\ UNCHANGED <<res, cloud, procs, jwks, call, ghosts>>

FindKey(r) ==
  /\ req[r].at = "find_key"
  /\ req' = [req EXCEPT ![r].at = "write_key",
                        ![r].found = IF key[req[r].slot] # None THEN "yes" ELSE "no"]
  /\ UNCHANGED <<res, cloud, procs, jwks, call, ghosts>>

\* Mutant: a provider that exists keeps its key.
StoreKey_Keep(r, s) == IF req[r].found = "yes" THEN key ELSE [key EXCEPT ![s] = r]

\* An existing provider has its key rotated.
StoreKey(r, s) == [key EXCEPT ![s] = r]

\* Between its two writes a submission has its key under a server that is not
\* its own yet.
Halfway(q, s) == req[q].slot = s /\ req[q].at \in {"find_target", "write_target"}

WriteKey(r) ==
  LET s == req[r].slot IN
  /\ req[r].at = "write_key"
  /\ IF req[r].found = "no" /\ key[s] # None
     THEN /\ Answer(r, "refused")                 \* created meanwhile: conflict
          /\ UNCHANGED <<key, mixed>>
     ELSE /\ key' = StoreKey(r, s)
          /\ mixed' = IF \E q \in Req : Halfway(q, s) THEN mixed \cup {s} ELSE mixed
          /\ Written(r, "find_target")
  /\ UNCHANGED <<server, row, older, cloud, procs, jwks, call, alone, wiped>>

\* The worker's gateway: both parameters are read at once, and cached on the
\* first use that found both.
Coordinates(w) ==
  IF coords[w] # NoPair THEN coords[w]
  ELSE IF None \in {ssm.id, ssm.url} THEN NoPair
  ELSE ssm

FindTarget(r) ==
  LET g == Coordinates(req[r].worker) IN
  /\ req[r].at = "find_target"
  /\ coords' = [coords EXCEPT ![req[r].worker] = g]
  /\ IF g = NoPair \/ g.id # gateway
     THEN Answer(r, "refused")                    \* no such gateway
     ELSE req' = [req EXCEPT ![r].at = "write_target",
                             ![r].found = IF server[req[r].slot] # None THEN "yes" ELSE "no"]
  /\ UNCHANGED <<res, cloud, secret, signs, jwks, call, ghosts>>

\* Mutant: a target that exists keeps its OpenAPI document.
StoreTarget_Keep(r, s) == IF req[r].found = "yes" THEN server ELSE [server EXCEPT ![s] = r]

\* An existing target is reconciled with the complete desired state.
StoreTarget(r, s) == [server EXCEPT ![s] = r]

\* Mutant: a target that cannot be written does not end the submission.
WriteTarget_GoOn(r) ==
  LET s == req[r].slot IN
  /\ req[r].at = "write_target"
  /\ IF coords[req[r].worker].id # gateway
     THEN UNCHANGED <<server, wiped>>
     ELSE server' = StoreTarget(r, s) /\ wiped' = wiped \ {s}
  /\ Goto(r, "read_row")
  /\ UNCHANGED <<key, row, older, cloud, procs, jwks, call, mixed, alone>>

\* A target found earlier may be gone, one not found may be there by now.
WriteTarget(r) ==
  LET s == req[r].slot IN
  /\ req[r].at = "write_target"
  /\ IF \/ coords[req[r].worker].id # gateway \/ req[r].found = "gone"
        \/ (req[r].found = "yes") # (server[s] # None)
     THEN /\ Answer(r, "refused")
          /\ UNCHANGED <<server, wiped>>
     ELSE /\ server' = StoreTarget(r, s)
          /\ wiped' = wiped \ {s}
          /\ Written(r, "read_row")
  /\ UNCHANGED <<key, row, older, cloud, procs, jwks, call, mixed, alone>>

\* What a get_item that is eventually consistent may answer.
Versions(t) == {row[t]} \cup older[t]

\* A version that is behind runs into the connections it does not list: the
\* merge will drop them.
ReadRow(r) ==
  LET t == req[r].slot[1] IN
  /\ req[r].at = "read_row"
  /\ \E byo \in Versions(t) :
       /\ req' = [req EXCEPT ![r].at = "write_row", ![r].found = "no", ![r].got = byo]
       /\ alone' = {q \in alone : byo = row[t] \/ q = r \/ req[q].slot[1] # t
                                   \/ req[q].slot[2] \in byo.connected}
  /\ UNCHANGED <<res, cloud, procs, jwks, call, mixed, wiped>>

\* Mutant: the gateway of an earlier connection stays in the row.
Endpoint_Kept(r, byo) ==
  IF byo.endpoint # None THEN byo.endpoint ELSE coords[req[r].worker].url

\* The row gets the worker's gateway URL.
Endpoint(r, byo) == coords[req[r].worker].url

\* The merge of what was read is written without a condition.
EnableByo(r) ==
  LET s == req[r].slot IN
  /\ req[r].at = "write_row"
  /\ row' = [row EXCEPT ![s[1]] =
               [endpoint |-> Endpoint(r, req[r].got),
                connected |-> req[r].got.connected \cup {s[2]}]]
  /\ older' = [older EXCEPT ![s[1]] = Versions(s[1])]
  /\ Answer(r, "ok") \/ Answer(r, "refused")
  /\ UNCHANGED <<key, server, cloud, procs, jwks, call, ghosts>>

\* A call to AWS fails, and with it the submission.
Fail(r) ==
  /\ Working(r) /\ req[r].at # "validate"
  /\ Answer(r, "refused")
  /\ UNCHANGED <<res, cloud, procs, jwks, call, ghosts>>

-----------------------------------------------------------------------------
(* The shared gateway, made and deleted by the operator's scripts.         *)

\* delete_gateway.py: every target, then the gateway, then the parameters.
DeleteTargets ==
  /\ admin = "idle" /\ gateway # None /\ made < MaxGen
  /\ server' = [s \in Slot |-> None]
  /\ wiped' = wiped \cup {s \in Slot : server[s] # None}
  /\ req' = [r \in Req |-> IF req[r].at = "write_target" /\ req[r].found = "yes"
                           THEN [req[r] EXCEPT !.found = "gone"] ELSE req[r]]
  /\ admin' = "targets"
  /\ alone' = {}
  /\ UNCHANGED <<key, row, older, gateway, ssm, made, torn, procs, jwks, call, mixed>>

\* AgentCore keeps a gateway that has got a target again.
DeleteGateway ==
  /\ admin = "targets"
  /\ IF \E s \in Slot : server[s] # None
     THEN admin' = "idle" /\ UNCHANGED gateway
     ELSE admin' = "gone" /\ gateway' = None
  /\ alone' = {}
  /\ UNCHANGED <<res, req, ssm, made, torn, procs, jwks, call, mixed, wiped>>

\* The parameters are deleted one by one, also when no gateway was found.
PurgeId ==
  /\ admin = "gone" \/ (admin = "idle" /\ gateway = None /\ ssm # NoPair)
  /\ ssm' = [ssm EXCEPT !.id = None]
  /\ admin' = "purge"
  /\ UNCHANGED <<res, req, gateway, made, torn, procs, jwks, call, ghosts>>

PurgeUrl ==
  /\ admin = "purge"
  /\ ssm' = [ssm EXCEPT !.url = None]
  /\ admin' = "idle"
  /\ UNCHANGED <<res, req, gateway, made, torn, procs, jwks, call, ghosts>>

\* The gateway of that name if there is one, else a new one.
FoundOrCreated == IF gateway # None THEN gateway ELSE made + 1

\* provision_gateway.py: the gateway, then its coordinates are published, those
\* of a gateway it found as well.  A run that finds everything in place changes
\* nothing and is left out.
ProvisionGateway ==
  /\ admin = "idle" /\ (gateway = None \/ ssm # Of(gateway))
  /\ FoundOrCreated \in Gen
  /\ gateway' = FoundOrCreated
  /\ made' = IF gateway # None THEN made ELSE FoundOrCreated
  /\ admin' = "publish"
  /\ alone' = IF gateway # None THEN alone ELSE {}
  /\ UNCHANGED <<res, req, ssm, torn, procs, jwks, call, mixed, wiped>>

\* An url left of another gateway stands beside the new id until it is
\* overwritten.
PublishId ==
  /\ admin = "publish"
  /\ ssm' = [ssm EXCEPT !.id = gateway]
  /\ torn' = (torn \/ ssm.url \notin {None, gateway})
  /\ admin' = "publish_url"
  /\ UNCHANGED <<res, req, gateway, made, procs, jwks, call, ghosts>>

PublishUrl ==
  /\ admin = "publish_url"
  /\ ssm' = [ssm EXCEPT !.url = gateway]
  /\ admin' = "idle"
  /\ UNCHANGED <<res, req, gateway, made, torn, procs, jwks, call, ghosts>>

\* A call on a parameter fails or the script is interrupted.
LeaveParameters ==
  /\ admin \in {"gone", "purge", "publish", "publish_url"}
  /\ admin' = "idle"
  /\ UNCHANGED <<res, req, gateway, ssm, made, torn, procs, jwks, call, ghosts>>

-----------------------------------------------------------------------------
(* The bridge's processes and the signing key.                             *)

ConfigureKey ==
  /\ secret < MaxKey
  /\ secret' = secret + 1
  /\ UNCHANGED <<res, req, cloud, signs, coords, jwks, call, ghosts>>

\* A worker is replaced: it loads the configured key when it first needs it
\* and knows no gateway; what it was doing ends where it was.
RestartWorker(w) ==
  /\ signs' = [signs EXCEPT ![w] = secret]
  /\ coords' = [coords EXCEPT ![w] = NoPair]
  /\ req' = [r \in Req |-> IF req[r].worker = w /\ Working(r)
                           THEN Answered(r, "refused") ELSE req[r]]
  /\ UNCHANGED <<res, cloud, secret, jwks, call, ghosts>>

-----------------------------------------------------------------------------
(* A tool call.                                                            *)

\* A token names the key it is signed with and the tenant.
Token(w, s) == [NewCall EXCEPT !.slot = s, !.kid = signs[w], !.result = "minted"]

\* An event is dispatched with a token of the worker that handles it, and the
\* agent builds its MCP client for the endpoint of the tenant's row.
Mint(c) ==
  /\ call[c].result = "none"
  /\ \E w \in Worker, s \in Slot :
       /\ row[s[1]].endpoint # None
       /\ call' = [call EXCEPT ![c] =
                     [Token(w, s) EXCEPT !.endpoint = row[s[1]].endpoint]]
  /\ UNCHANGED <<res, req, cloud, procs, jwks, ghosts>>

\* What get_jwks serves: the key of the one worker that is asked.
ServedBy(w) == {signs[w]}

\* Mutant: the cache is kept when the key is not in it.
Refreshed_Kept(kid, w) == IF jwks # {} THEN jwks ELSE ServedBy(w)

\* A key id that is not cached makes the interceptor fetch the document again,
\* and what it fetched replaces what it had.
Refreshed(kid, w) == IF kid \in jwks THEN jwks ELSE ServedBy(w)

\* The token is verified against the keys there are; it is good for 300 seconds
\* of a turn that may take longer.
Verdicts(c, keys) ==
  IF call[c].kid \in keys THEN {"valid", "expired"} ELSE {"denied_auth"}

\* The owner the target name of the tool decodes to, None for a name of no or
\* of an old form, must be the token's tenant.
Forwarding(s, owner) ==
  IF owner # s[1] THEN "denied_owner"
  ELSE IF server[s] = None THEN "no_target"
  ELSE "forwarded"

\* The interceptor decides on the call.  A key set that cannot be fetched raises
\* an error the handler does not catch.
Intercept(c) ==
  LET s == call[c].slot
      result(x) == call' = [call EXCEPT ![c] = [NewCall EXCEPT !.result = x]] IN
  /\ call[c].result = "minted"
  /\ IF call[c].endpoint # gateway
     THEN result("unreachable") /\ UNCHANGED jwks
     ELSE \/ /\ call[c].kid \notin jwks
             /\ result("crashed") /\ UNCHANGED jwks
          \/ \E w \in Worker, owner \in Tenant \cup {None} :
               /\ jwks' = Refreshed(call[c].kid, w)
               /\ \E v \in Verdicts(c, jwks') :
                    result(IF v = "valid" THEN Forwarding(s, owner) ELSE v)
  /\ UNCHANGED <<res, req, cloud, procs, ghosts>>

\* The interceptor's container is recycled.
ColdStart ==
  /\ jwks # {}
  /\ jwks' = {}
  /\ UNCHANGED <<res, req, cloud, procs, call, ghosts>>

-----------------------------------------------------------------------------
ReqStep(r) ==
  \/ Submit(r) \/ Validate(r) \/ FindKey(r) \/ WriteKey(r) \/ FindTarget(r)
  \/ WriteTarget(r) \/ ReadRow(r) \/ EnableByo(r) \/ Fail(r)

ConnectorsNext ==
  \/ \E r \in Req : ReqStep(r)
  \/ DeleteTargets \/ DeleteGateway \/ PurgeId \/ PurgeUrl
  \/ ProvisionGateway \/ PublishId \/ PublishUrl \/ LeaveParameters
  \/ ConfigureKey \/ (\E w \in Worker : RestartWorker(w))
  \/ \E c \in Call : Mint(c) \/ Intercept(c)
  \/ ColdStart

ConnectorsSpec == ConnectorsInit /\ [][ConnectorsNext]_cnvars

-----------------------------------------------------------------------------
(* What holds.                                                             *)

\* A key is not left under another account's server: when the submission whose
\* key the provider holds was answered ok, the target names its account too,
\* unless two submissions of the slot overlapped between their two writes
\* (then the last writes may be of different accounts) or the gateway was
\* deleted.  provision_integration, gateway_provisioner.py.
PairedCredentials ==
  \A s \in Slot :
    (/\ key[s] # None /\ s \notin mixed
     /\ req[key[s]].reply = "ok")
    => server[s] \in {key[s], None}

\* A submission that ran alone on its tenant and was answered ok is what the
\* next call uses, until something else runs: its key, its server, its
\* integration listed, at the gateway there is.  In particular a reconnect
\* rotates the key and reconciles the target instead of reporting stale
\* success.  What may undo it is another submission of its slot, one of its
\* tenant that read a row without it (the read is not a consistent one), a
\* gateway deleted or made; and the row may name another gateway once the
\* parameters published were of two.  connect_* in api.py.
ConnectWorks ==
  \A r \in alone :
    req[r].reply = "ok" =>
      LET s == req[r].slot IN
      /\ key[s] = r /\ server[s] = r
      /\ s[2] \in row[s[1]].connected
      /\ row[s[1]].endpoint = gateway \/ torn

\* A token that has not expired is refused only while the workers do not all
\* sign with its key: once a rotation has reached every worker, no warm
\* interceptor refuses a call because of the keys it has cached.
\* _get_signing_key, gateway_interceptor/handler.py.
FreshTokenAccepted ==
  [][\A c \in Call :
       (call[c].result = "minted" /\ call'[c].result = "denied_auth")
       => \E w \in Worker : signs[w] # call[c].kid]_cnvars

\* A listed integration has its provider and, unless the operator deleted it,
\* its target: no failure, conflict or overlap lists one that was not
\* provisioned.  _provision_and_enable_integration, api.py.
ListedIsProvisioned ==
  \A t \in Tenant : \A i \in row[t].connected :
    /\ key[<<t, i>>] # None
    /\ <<t, i>> \notin wiped => server[<<t, i>>] # None

=============================================================================
