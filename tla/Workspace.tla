----------------------------- MODULE Workspace -----------------------------
(***************************************************************************)
(* One Slack workspace and what the bridge keeps for it: the installation  *)
(* a browser runs through Slack's consent page (slack_oauth.py), the       *)
(* tenants row, the mapping and the bot token it provisions, the caches    *)
(* each process has of them (slack_token_store.py, tenant_resolver.py),    *)
(* and what needs them: the channel list of the console, a click on a      *)
(* codebase picker (slack_interactions.py) and a reaction to a reply       *)
(* (reaction_feedback.py).                                                 *)
(*                                                                         *)
(* A worker is one event loop.  Storing an installation makes no pause in  *)
(* it, so nothing else of that worker comes between the four writes, while *)
(* the other worker may, and so it is with the calls that handling a click *)
(* or a reaction makes.  Messages, whose path is SlackDelivery's, use the  *)
(* caches as clicks do.                                                    *)
(***************************************************************************)
EXTENDS Naturals, FiniteSets

CONSTANTS
  Worker,     \* processes of the bridge
  Browser,    \* cookie jars
  Flow,       \* installations started, one tab each
  Press,      \* clicks on the buttons of one picker message
  Reaction,   \* deliveries of one reaction_added event: the first, and Slack's retries
  MaxIssued,  \* bound: bot tokens Slack ever issues
  MaxFaults,  \* bound: failures and crashes
  None        \* nothing there

VARIABLES
  issued,     \* bot tokens Slack has issued; the last may be revoked
  live,       \* the token Slack accepts, 0 when the app is not installed
  row,        \* there is a tenants row
  secret,     \* the token in Secrets Manager, 0 when there is none
  mapped,     \* the workspace has its row in workspace_to_tenant
  tokens,     \* tokens[w]: the token worker w has cached, 0 for none
  maps,       \* the workers that have cached the mapping
  flow,       \* flow[f]: where the installation is
  cookie,     \* cookie[b]: the state nonce in the jar, by its flow
  old,        \* flows whose state is older than its lifetime
  session,    \* session[b]: the flow that signed browser b in
  picker,     \* the click whose choice the picker message shows, None for its buttons
  job,        \* job[j]: a click or reaction and the worker that has it
  marked,     \* the deduplication has recorded the event
  open,       \* history: deliveries the deduplication let through unasked
  feedback,   \* what the agent was told of each reaction
  storer,     \* history: the installation that wrote the secret
  faults      \* failures so far

slackvars == <<issued, live>>
stores    == <<row, secret, mapped, storer>>
caches    == <<tokens, maps>>
tabs      == <<flow, cookie, old, session>>
inbound   == <<picker, job, marked, open, feedback>>
wsvars    == <<slackvars, stores, caches, tabs, inbound, faults>>

-----------------------------------------------------------------------------
Job     == Press \cup Reaction
Token   == 1 .. MaxIssued

ASSUME WorkspaceAssumption ==
  /\ MaxIssued \in Nat \ {0} /\ MaxFaults \in Nat
  /\ Press \cap Reaction = {}
  /\ None \notin Worker \cup Browser \cup Flow \cup Job

Steps    == {"row", "token", "mapping", "clear"}
Ends     == {"done", "invalid_state", "exchange_failed", "provisioning_failed", "broken"}
NewFlow  == [at |-> "new", home |-> None, browser |-> None, worker |-> None, token |-> 0]
\* What a click or a reaction passes through while its request is handled.
Handling == {"resolved", "tidied", "seen"}
NewJob   == [at |-> "new", worker |-> None]
\* What a reaction turns out to be about: was it sent to our app, is the message
\* ours, is it a reply in a thread.
Subjects == [ours : BOOLEAN, own : BOOLEAN, inThread : BOOLEAN]

WorkspaceTypeOK ==
  /\ issued \in 0 .. MaxIssued /\ live \in {0, issued}
  /\ row \in BOOLEAN /\ mapped \in BOOLEAN
  /\ secret \in {0} \cup Token /\ storer \in Flow \cup {None}
  /\ tokens \in [Worker -> {0} \cup Token] /\ maps \subseteq Worker
  /\ flow \in [Flow -> [at : {"new", "consent", "code", "exchange"} \cup Steps \cup Ends,
                        home : Browser \cup {None}, browser : Browser \cup {None},
                        worker : Worker \cup {None}, token : {0} \cup Token]]
  /\ cookie \in [Browser -> Flow \cup {None}]
  /\ session \in [Browser -> Flow \cup {None}]
  /\ old \subseteq Flow
  /\ picker \in Press \cup {None}
  /\ job \in [Job -> [at : {"new", "sent", "queued", "answered", "mute", "dropped", "lost"}
                             \cup Handling,
                      worker : Worker \cup {None}]]
  /\ marked \in BOOLEAN /\ open \subseteq Reaction
  /\ feedback \subseteq Reaction \X Subjects \X {"answer", "both"}
  /\ faults \in 0 .. MaxFaults

WorkspaceInit ==
  /\ issued = 0 /\ live = 0
  /\ row = FALSE /\ secret = 0 /\ mapped = FALSE /\ storer = None
  /\ tokens = [w \in Worker |-> 0] /\ maps = {}
  /\ flow = [f \in Flow |-> NewFlow]
  /\ cookie = [b \in Browser |-> None] /\ session = [b \in Browser |-> None]
  /\ old = {}
  /\ picker = None /\ job = [j \in Job |-> NewJob] /\ marked = FALSE
  /\ open = {} /\ feedback = {}
  /\ faults = 0

Fault   == faults < MaxFaults /\ faults' = faults + 1
NoFault == UNCHANGED faults

\* A worker in the middle of storing an installation, or of a request whose
\* calls block its event loop, does nothing else.
Free(w) ==
  /\ \A f \in Flow : ~(flow[f].worker = w /\ flow[f].at \in Steps)
  /\ \A j \in Job : ~(job[j].worker = w /\ job[j].at \in Handling)

-----------------------------------------------------------------------------
(* The installation.                                                       *)

\* GET /slack/install: sign a state with a new nonce, leave the nonce in the
\* browser's cookie and send it to Slack.  The cookie has one value: a second
\* tab takes the place of the first.
Install(f, b) ==
  /\ flow[f].at = "new"
  /\ flow' = [flow EXCEPT ![f] = [NewFlow EXCEPT !.at = "consent", !.home = b]]
  /\ cookie' = [cookie EXCEPT ![b] = f]
  /\ UNCHANGED <<slackvars, stores, caches, old, session, inbound, faults>>

\* The user consents and Slack redirects to the callback with a code.
Consent(f) ==
  /\ flow[f].at = "consent"
  /\ flow' = [flow EXCEPT ![f].at = "code"]
  /\ UNCHANGED <<slackvars, stores, caches, cookie, old, session, inbound, faults>>

\* Ten minutes pass: the state is too old, and so is the cookie.
StateExpires(f) ==
  /\ flow[f].at \in {"consent", "code"} /\ f \notin old
  /\ old' = old \cup {f}
  /\ cookie' = [b \in Browser |-> IF cookie[b] = f THEN None ELSE cookie[b]]
  /\ UNCHANGED <<slackvars, stores, caches, flow, session, inbound, faults>>

\* The state is ours, young enough, and of the browser that started it.
VerifyState(f, b) == f \notin old /\ cookie[b] = f

\* Every answer of the callback deletes the state cookie, whatever flow it is of.
Redirect(f, b, to) ==
  /\ flow' = [flow EXCEPT ![f].at = to, ![f].browser = b]
  /\ cookie' = [cookie EXCEPT ![b] = None]

\* GET /slack/oauth/callback: the code comes back, in the browser that
\* consented or in another one the address was opened in.
Callback(f, b, w) ==
  /\ flow[f].at = "code" /\ Free(w)
  /\ IF VerifyState(f, b)
     THEN /\ flow' = [flow EXCEPT ![f].at = "exchange", ![f].browser = b, ![f].worker = w]
          /\ UNCHANGED cookie
     ELSE Redirect(f, b, "invalid_state")
  /\ UNCHANGED <<slackvars, stores, caches, old, session, inbound, faults>>

\* oauth.v2.access, awaited: Slack issues a token, the one it has for an
\* installed app or a new one; or the code is refused, or Slack not reached.
Exchange(f) ==
  /\ flow[f].at = "exchange" /\ Free(flow[f].worker)
  /\ \/ /\ issued' = IF live = 0 THEN issued + 1 ELSE issued
        /\ issued' \in Token
        /\ live' = issued'
        /\ flow' = [flow EXCEPT ![f].at = "row", ![f].token = issued']
        /\ UNCHANGED cookie /\ NoFault
     \/ /\ Redirect(f, flow[f].browser, "exchange_failed")
        /\ UNCHANGED slackvars /\ Fault
  /\ UNCHANGED <<stores, caches, old, session, inbound>>

\* Mutant: the workspace is routed before its token is there.
After_MappingFirst(step) ==
  CASE step = "row" -> "mapping" [] step = "mapping" -> "token" [] step = "token" -> "clear"

\* The writes, in the order they are made.
After(step) ==
  CASE step = "row" -> "token" [] step = "token" -> "mapping" [] step = "mapping" -> "clear"

Does(f, step) == flow[f].at = step /\ flow' = [flow EXCEPT ![f].at = After(step)]

\* A write fails: the error page, and the writes before it stay.
ProvisioningFails(f) ==
  /\ flow[f].at \in Steps \ {"clear"}
  /\ Redirect(f, flow[f].browser, "provisioning_failed")
  /\ Fault
  /\ UNCHANGED <<slackvars, stores, caches, old, session, inbound>>

StoreRow(f) ==
  /\ Does(f, "row") /\ row' = TRUE
  /\ UNCHANGED <<slackvars, secret, mapped, storer, caches, cookie, old, session, inbound, faults>>

\* create_secret, or put_secret_value when there is one.
StoreBotToken(f) ==
  /\ Does(f, "token") /\ secret' = flow[f].token /\ storer' = f
  /\ UNCHANGED <<slackvars, row, mapped, caches, cookie, old, session, inbound, faults>>

StoreMapping(f) ==
  /\ Does(f, "mapping") /\ mapped' = TRUE
  /\ UNCHANGED <<slackvars, row, secret, storer, caches, cookie, old, session, inbound, faults>>

\* Mutant: the cache keeps what it has.
Invalidated_Kept(w) == tokens

\* invalidate: the cache of this worker, whole; the other's is its own.
Invalidated(w) == [tokens EXCEPT ![w] = 0]

\* The last step, and the answer: a session cookie and the way to the console.
Finish(f) ==
  /\ flow[f].at = "clear"
  /\ tokens' = Invalidated(flow[f].worker)
  /\ session' = [session EXCEPT ![flow[f].browser] = f]
  /\ Redirect(f, flow[f].browser, "done")
  /\ UNCHANGED <<slackvars, stores, maps, old, inbound, faults>>

\* The app is removed from the workspace.  Nothing here hears of it.
Uninstall ==
  /\ live # 0 /\ live' = 0
  /\ UNCHANGED <<issued, stores, caches, tabs, inbound, faults>>

\* An hour passes since browser b signed in.
SessionExpires(b) ==
  /\ session[b] # None
  /\ session' = [session EXCEPT ![b] = None]
  /\ UNCHANGED <<slackvars, stores, caches, flow, cookie, old, inbound, faults>>

-----------------------------------------------------------------------------
(* The lookups.  Each is cached when it succeeds, for the life of the      *)
(* process; a lookup that fails is made again.                             *)

\* What get_bot_token gives worker w: its copy, or the secret, or a KeyError
\* (0) when there is none or Secrets Manager cannot be asked.
TokenGiven(w, t) ==
  IF tokens[w] # 0 THEN t = tokens[w] /\ UNCHANGED tokens /\ NoFault
  ELSE \/ t = secret /\ tokens' = [tokens EXCEPT ![w] = t] /\ NoFault
       \/ t = 0 /\ UNCHANGED tokens /\ Fault

\* resolve_tenant_id in worker w: "tenant", "unknown" (KeyError, acknowledged
\* and dropped), or "error", which no handler catches: a 500.
Resolved(w, how) ==
  IF w \in maps THEN how = "tenant" /\ UNCHANGED maps /\ NoFault
  ELSE \/ how = "tenant" /\ mapped /\ maps' = maps \cup {w} /\ NoFault
       \/ how = "unknown" /\ ~mapped /\ UNCHANGED maps /\ NoFault
       \/ how = "error" /\ UNCHANGED maps /\ Fault

\* GET /api/tenants/{id}/channels from the console: 404 without a token, 502
\* with one Slack refuses.
ListChannels(b, w) ==
  /\ session[b] # None /\ Free(w)
  /\ \E t \in {0} \cup Token : TokenGiven(w, t)
  /\ UNCHANGED <<slackvars, stores, maps, tabs, inbound>>

-----------------------------------------------------------------------------
(* A click on the picker the agent posted with ask_codebase_choice.        *)

Becomes(j, to, w) == job' = [job EXCEPT ![j] = [at |-> to, worker |-> w]]

\* The user presses a button: the message still shows them.
PressButton(p) ==
  /\ job[p].at = "new" /\ picker = None
  /\ Becomes(p, "sent", None)
  /\ UNCHANGED <<slackvars, stores, caches, tabs, picker, marked, open, feedback, faults>>

\* POST /slack/interactions: resolve the tenant.  No deduplication; after a 500
\* Slack sends it again.
Interaction(p, w) ==
  /\ job[p].at = "sent" /\ Free(w)
  /\ \E how \in {"tenant", "unknown", "error"} :
       /\ Resolved(w, how)
       /\ CASE how = "tenant"  -> Becomes(p, "resolved", w)
            [] how = "unknown" -> Becomes(p, "dropped", None)
            [] how = "error"   -> UNCHANGED job
  /\ UNCHANGED <<slackvars, stores, tokens, tabs, picker, marked, open, feedback>>

\* Mutant: an update that fails, or seems to, is not swallowed.
AfterTidy_Raises == {"tidied", "dropped"}

\* Whatever comes of the update, the handler goes on.
AfterTidy == {"tidied"}

\* The message is replaced through response_url, if Slack takes the update.
Tidy(p) ==
  /\ job[p].at = "resolved"
  /\ picker' \in {picker, p}
  /\ \E to \in AfterTidy : Becomes(p, to, IF to = "tidied" THEN job[p].worker ELSE None)
  /\ UNCHANGED <<slackvars, stores, caches, tabs, marked, open, feedback, faults>>

\* The synthetic message is queued behind the answer.
Queue(p) ==
  /\ job[p].at = "tidied"
  /\ Becomes(p, "queued", job[p].worker)
  /\ UNCHANGED <<slackvars, stores, caches, tabs, picker, marked, open, feedback, faults>>

\* dispatch_async for the synthetic message: the agent runs and the reply goes
\* out with the worker's token.  Without one, or with one that Slack refuses,
\* nobody sees the answer.
Pick(p) ==
  LET w == job[p].worker IN
  /\ job[p].at = "queued" /\ Free(w)
  /\ \E t \in {0} \cup Token :
       /\ TokenGiven(w, t)
       /\ Becomes(p, IF t # 0 /\ t = live THEN "answered" ELSE "mute", None)
  /\ UNCHANGED <<slackvars, stores, maps, tabs, picker, marked, open, feedback>>

-----------------------------------------------------------------------------
(* A reaction to a message.                                                *)

\* The deduplication of a delivery: taken for a duplicate or not.  A write that
\* fails lets the delivery through, recorded or not; one that boto3 sends again
\* finds its own record and takes the first delivery for the second.
Deduplicated(r, dup) ==
  \/ dup = marked /\ marked' = TRUE /\ UNCHANGED open /\ NoFault
  \/ ~dup /\ marked' \in {marked, TRUE} /\ open' = open \cup {r} /\ Fault
  \/ dup /\ marked' = TRUE /\ UNCHANGED open /\ Fault

\* POST /slack/events with a reaction: recorded first, so the delivery that
\* follows a 500 is taken for a duplicate.  An emoji that is no signal is
\* dropped before the tenant is asked for.
ReactionEvent(r, w) ==
  /\ job[r].at = "new" /\ Free(w)
  /\ \E dup \in BOOLEAN :
       /\ Deduplicated(r, dup)
       /\ Becomes(r, "dropped", None) \/ (~dup /\ Becomes(r, "seen", w))
  /\ UNCHANGED <<slackvars, stores, caches, tabs, picker, feedback>>

\* The tenant resolves and the feedback is queued, or the event is dropped.
ReactionResolved(r) ==
  LET w == job[r].worker IN
  /\ job[r].at = "seen"
  /\ \E how \in {"tenant", "unknown", "error"} :
       /\ Resolved(w, how)
       /\ IF how = "tenant" THEN Becomes(r, "queued", w) ELSE Becomes(r, "dropped", None)
  /\ UNCHANGED <<slackvars, stores, tokens, tabs, picker, marked, open, feedback>>

\* The event is for this app and so is the message it is about.
OwnReply(s) == s.ours /\ s.own

\* dispatch_reaction_feedback: read the message, then the question above it,
\* with the worker's token, and tell the agent.  A read that fails leaves the
\* message unknown, and the feedback is dropped; or the question empty.
GiveFeedback(r) ==
  LET w == job[r].worker IN
  /\ job[r].at = "queued" /\ Free(w)
  /\ \E t \in {0} \cup Token, s \in Subjects, got \in {"nothing", "answer", "both"} :
       /\ TokenGiven(w, t)
       /\ got # "nothing" => t # 0 /\ t = live /\ OwnReply(s)
       /\ got = "both" => s.inThread
       /\ feedback' = IF got = "nothing" THEN feedback ELSE feedback \cup {<<r, s, got>>}
  /\ Becomes(r, "answered", None)
  /\ UNCHANGED <<slackvars, stores, maps, tabs, picker, marked, open>>

-----------------------------------------------------------------------------
\* A worker dies: its caches, its background tasks and the requests it was at
\* go with it, and the browser is left with a gateway error.  A click whose
\* request got no answer may be sent again; a reaction's next delivery is
\* another of Reaction.
Crash(w) ==
  /\ Fault
  /\ tokens' = [tokens EXCEPT ![w] = 0] /\ maps' = maps \ {w}
  /\ \E again \in {"sent", "lost"} :
       job' = [j \in Job |->
         IF job[j].worker # w THEN job[j]
         ELSE [at     |-> IF job[j].at \in {"resolved", "tidied"} THEN again ELSE "lost",
               worker |-> None]]
  /\ flow' = [f \in Flow |-> IF flow[f].worker = w /\ flow[f].at \notin Ends
                             THEN [flow[f] EXCEPT !.at = "broken"] ELSE flow[f]]
  /\ UNCHANGED <<slackvars, stores, cookie, old, session, picker, marked, open, feedback>>

InstallStep ==
  \/ \E f \in Flow, b \in Browser : Install(f, b)
  \/ \E f \in Flow, b \in Browser, w \in Worker : Callback(f, b, w)
  \/ \E f \in Flow :
       \/ Consent(f) \/ StateExpires(f) \/ Exchange(f) \/ ProvisioningFails(f)
       \/ StoreRow(f) \/ StoreBotToken(f) \/ StoreMapping(f) \/ Finish(f)
  \/ Uninstall

UseStep ==
  \/ \E b \in Browser : SessionExpires(b) \/ \E w \in Worker : ListChannels(b, w)
  \/ \E p \in Press :
       \/ PressButton(p) \/ \E w \in Worker : Interaction(p, w)
       \/ Tidy(p) \/ Queue(p) \/ Pick(p)
  \/ \E r \in Reaction :
       ReactionResolved(r) \/ GiveFeedback(r) \/ \E w \in Worker : ReactionEvent(r, w)

WorkspaceNext == InstallStep \/ UseStep \/ \E w \in Worker : Crash(w)

WorkspaceSpec == WorkspaceInit /\ [][WorkspaceNext]_wsvars

-----------------------------------------------------------------------------
\* Whatever write fails or is cut off, and however two installations overlap:
\* a workspace whose events reach a tenant has the row and a token, for the
\* mapping is written after both.  A worker that knows the mapping, and a
\* browser that is signed in, are further proof of it.  And while nothing has
\* failed and the app has its first token still, nobody's click goes unanswered.
Provisioned ==
  /\ mapped => row /\ secret # 0
  /\ maps # {} => mapped
  /\ \A b \in Browser : session[b] # None => mapped
  /\ \A p \in Press : job[p].at = "mute" => faults > 0 \/ issued > 1 \/ live = 0

\* The worker that stored the current token and told the browser so answers
\* with that token: its cache is empty or holds the same, even though it had
\* cached the token of an installation before.  (The other worker may hold the
\* old one for as long as it lives.)
OwnCacheFresh ==
  (storer # None /\ flow[storer].at = "done") =>
    tokens[flow[storer].worker] \in {0, secret}

\* A browser is signed in by the flow that was started in it, and by no other,
\* though a callback address can be opened anywhere and tabs share the cookie.
SessionEarned ==
  \A b \in Browser : session[b] # None => flow[session[b]].home = b

\* A picker that says "working on it" has somebody working on the choice it
\* shows: the click it names is about to be dispatched or was.  Only a crash of
\* the worker takes it back, for it may fall between the replacing and the
\* dispatching: then the click is lost, or Slack has to send it again.
PickWorkedOn ==
  picker # None =>
    \/ job[picker].at \in {"tidied", "queued", "answered", "mute"}
    \/ job[picker].at \in {"sent", "resolved", "lost"} /\ faults > 0

\* Feedback is about a reply of this very app, on an event meant for it, and
\* given once, however many deliveries of it the workers get, but for the
\* deliveries that the deduplication let through because its write failed.
FeedbackOwn ==
  /\ \A f \in feedback : f[2].ours /\ f[2].own
  /\ \A f, g \in feedback : f = g \/ (f[1] # g[1] /\ {f[1], g[1]} \cap open # {})
=============================================================================
