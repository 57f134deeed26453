# TLA+ models and proofs for the AgentCore SRE reference

This directory holds TLA+ specifications of the SRE agent's control: pull-request jobs
and the tracker that shows them in Slack, a turn of the agent with its tools and its
memory, the delivery of Slack events, the installation of a workspace and of connectors,
the tenant's configuration, the monthly cap, GitHub tokens, dashboards and the console's
auto-save. TLC checks each of them on a small instance, and TLAPS proves every safety
property of the passing runs, and some more, for every value of the constants. Paths
below are relative to the repository root; `bridge` means `bridge/bridge` and `agent`
means `coreAgent/app/coreAgent`.

    tlc -workers 2 -config sandbox_faults.cfg MCSandboxJob     # a run
    tlapm SandboxJob_proofs.tla                                # the proofs of a module

`PROJECT.json` names the runs with their properties, the lines every definition
models, one mutant per property (a plausible bug of the code that the run catches),
the theorems, the finding and the hazards.

## 1. The system

A Slack event reaches the **bridge** (FastAPI, two uvicorn workers), which acknowledges
it within three seconds and invokes the **agent** (AgentCore Runtime) in the background.
The agent answers, calls tools and may queue a **pull-request job**: a row in
DynamoDB, a Fargate container (`infra/sandbox`) that clones, edits, pushes and opens the
pull request, and a daemon thread in the agent process that polls the row. The container
posts its milestones and its result back to the bridge, which shows them in the thread.
The **console** (Next.js, `onboarding`) configures tenants through the bridge's API. What
the parts share is kept in DynamoDB, Secrets Manager and AgentCore Memory.

    Slack <-> bridge <-> agent --RunTask--> sandbox container --> GitHub
                |  ^       |  \                  |   |
                |  |       |   \--- poll ---.    |   | progress, callback
     tenants, processed_   tenants, audit   sandbox_jobs row
     events, dashboards    (spend, config)       ^---'      (to the bridge)
                ^
             console

### Components, their state, and what makes them correct

| Component | State | Operations | What is hard | Correct when |
|---|---|---|---|---|
| Pull-request jobs (`agent/tools.py`, `agent/ping.py`, `infra/sandbox/entrypoint.py`) | job row, heartbeat set, daemon thread, container, audit rows, charge | `propose_pr`, poll, ping, `entrypoint.main` | tool, daemon and container write one row with no order between them; lost answers; the process dies or is shut down idle | the heartbeat is on exactly while someone owns the job; a success has a pull request; what a job spent is charged; the row settles |
| Progress tracker (`bridge/sandbox_progress.py`, `bridge/sandbox_callback.py`) | `tracker_message_ts`, the thread | POST of a milestone, POST of a result | read, Slack call and save are three steps; handlers outlive the container's 10 s timeout | one tracker, which never steps back; a result is shown |
| Tenant configuration (`bridge/tenant_write.py`, `api.py`, `slack_oauth.py`, `github_install.py`, `agent/tools.py`) | tenants row, lock rows, token, workspace mapping | PATCH, connector, warm start, operator approval, `manage_config`, (re)installation | the whole config is one attribute, written by six paths of which two are conditional; reads are eventually consistent | an installation is held once, a binding is final, nothing is lost that a condition protects |
| Spend cap (`agent/spend_tracker.py`, `main.py`) | `spend_month`, `monthly_spend_cents` | check, record, month rollover | check and record are apart; the rollover is a failed condition followed by an unconditional reset | counts what was spent, and what re-sent increments add; overspend is bounded; nobody else is refused under the cap |
| Event delivery (`bridge/main.py`, `dedup.py`, `async_dispatcher.py`, `client.py`, `adapters/slack.py`) | `processed_events`, background tasks, stream queues, the Slack message | webhook, dispatch, invoke, stream, buffered reply | redeliveries, three tasks per reply, a fallback that invokes again, crashes | one run of the agent per event; the stream shows what was said; an event is answered |
| Slack interactions, reactions (`slack_interactions.py`, `reaction_feedback.py`) | the picker message, background tasks, feedback | click, reaction | the message is changed before the click is dispatched; a reaction is marked before its tenant is known, or let through unmarked | a picker that says it is being worked on is; feedback is about an own reply, once |
| Installation, bot tokens, workspace mapping (`slack_oauth.py`, `slack_token_store.py`, `tenant_resolver.py`) | row, secret, mapping, a cache of both per worker, state cookie, session | install, callback, get, invalidate | four writes, any of which may be the last; two workers, two tabs; the other worker's cache stays | a routed workspace has row and token; a worker serves what it stored; a session belongs to the browser that earned it |
| Connector provisioning (`api.py`, `gateway_provisioner.py`, `infra/data/scripts`) | credential provider, gateway target, tenant row, cached coordinates | connect, provision and delete the gateway | find, then create or update, without a condition; two submissions; an operator's script beside them | key and server of one account; what is listed exists |
| Gateway tokens and interceptor (`gateway_jwt.py`, `workers/gateway_interceptor`) | signing key per worker, cached key set | mint, verify, rotate | rotation reaches the workers one by one, a cached key set any time later | a good token is refused only during a rotation |
| Agent invocation (`agent/main.py`, `context_assembler.py`, `tools.py`, `slack_api.py`, memory and audit) | request context, memory records, audit rows | invoke, permalink, tools, feedback | the row and memberships change under a turn; tools run on in threads after the turn broke off; two copies of the choice of a silo | memory stays where it belongs; a turn reaches what was granted; every call is audited |
| GitHub App and SCM clients (`agent/scm_github.py`, `bridge/github_app.py`, `infra/sandbox/scm_github.py`) | cached installation token | mint, use, suspend | minted outside the lock; clocks differ; nobody drops a refused token | a token handed out works for the buffer; an outage ends |
| Dashboards and rate limiter (`agent/tools.py`, `dashboard_store.py`, `rate_limit.py`) | record with a deadline, buckets, read slots | render, get, expire | pruning, rounding and refusals that rewrite a bucket; records deleted late | no source gets more than its rate; who waits as told gets in, if the limiter knows it; a link ends at its second |
| Console auto-save (`onboarding/lib/useAutoSave.ts`) | last saved value, debounce, save in flight | edit, save, leave | an edit during a save in flight; a save given up that lands late | the last edit is saved (it is not: see the finding) |
| Codebase resolution (`agent/codebase_resolver.py`) | | resolve | a pure ranking of bindings | documented order |
| Sandbox agent loop (`infra/sandbox/agent.py`) | turns, spend | turn, tool, budget | sequential | overshoot bounded by a turn |
| Console and operator pages, metrics, pricing, deployment, seeds, scripts | | | no interleaving control | |

The hazards these parts are exposed to are listed, each at its line, under `hazards`
in `PROJECT.json`, with the properties that would catch them going wrong.

## 2. The modules

| Module | Models | Role |
|---|---|---|
| `JobContract` | | abstract: a job is accepted once, tracked, closed once with result and bill |
| `SandboxJob`, `MCSandboxJob`, `SandboxJob_proofs` | jobs, heartbeat, daemon, container, audit, charge | detailed; implements `JobContract` |
| `ProgressTracker`, `ProgressTracker_proofs` | container's posts, routes, handlers, thread | detailed, with proofs |
| `SandboxSystem`, `SlackThread_proofs` | the end of a job in the thread | `SandboxJob` and `ProgressTracker` composed, with proofs |
| `TenantConfig`, `MCTenantConfig`, `TenantConfig_proofs` | every DynamoDB writer of a tenant | detailed, with proofs |
| `SpendCap`, `MCSpendCap`, `Limits_proofs` | check, record, rollover | detailed, with proofs |
| `SlackDelivery`, `SlackThread_proofs` | webhook, dedup, dispatch, stream, fallback | detailed, with proofs |
| `AgentTurn`, `MCAgentTurn`, `AgentTurn_proofs` | an invocation: configuration, memory, tools, audit | detailed, with proofs |
| `Workspace`, `MCWorkspace`, `Workspace_proofs` | Slack installation, caches, clicks, reactions, sessions | detailed, with proofs |
| `Connectors`, `MCConnectors`, `Credentials_proofs` | connect routes, gateway scripts, signing keys, interceptor | detailed, with proofs |
| `GitHubTokens`, `MCGitHubTokens`, `Credentials_proofs` | installation tokens in three programs | detailed, with proofs |
| `Dashboards`, `MCDashboards`, `Limits_proofs` | dashboards, rate limiter, read slots | detailed, with proofs |
| `AutoSave`, `TenantConfig_proofs` | the console's save hook | detailed, with proofs; the finding |

A proof module may hold the proofs of two components that keep promises of one kind:
`Limits_proofs` what the program rations (the cap, the limiter), `Credentials_proofs` the
credentials it holds for a tenant (tokens, connectors), `SlackThread_proofs` what reaches
the user's thread (replies, the end of a job), `TenantConfig_proofs` what is stored of a
tenant's configuration (the row's writers, the console's form).

Common conventions. A handler is split at its calls to other processes: each action is
one call with the local code around it, so that everything the code may observe between
two calls can change there. `Fault(kind)` lets a call go wrong if `kind` is among the
constant `Faults` and fewer than `MaxFaults` happened; `happened` remembers which
kinds did, so a property can say exactly which fault it does not survive. Time is not
measured: a deadline or a timeout may fire at any step at which the code waits.

### SandboxJob

`tool` is the program counter of `propose_pr` (or of `run_in_background`, whose job is
another task), `poll` that of the daemon thread, `sandbox` that of `entrypoint.main`;
`row` is the job's row (status, whether it has a link, cost), `inflight` is
`ping._inflight_tasks`, `verdict` and `outcome` are the two `final_status` variables,
`reply` is what the tool told the model, `audit` the rows of the job in the audit table.
`RecordJob` ... `StartPoller` follow the tool, `PollTerminal`, `PollDeadline`,
`MarkOrphaned`, `AuditCompletion`, `ClearHeartbeat` the daemon's loop and its `finally`,
`ReadJob` ... `PostCallback` the container. All tasks of a process share the heartbeat
and its threshold rule (`Busy`), and `AgentCrash` and `IdleShutdown` take them all.

The poller's charge is one `ADD` with no condition: DynamoDB takes it, or refuses it, or
takes it and its answer is lost, and then boto3 sends it again (`again`, up to `Resends`
times), which charges the spend once more each time. Elsewhere in this module a re-sent
write stores the same again.

What is abstracted, and why it may be: the agent loop's turns are one action that ends
well or badly and spends `Cost[t]`; a read that returns an old row is covered by the
read failing (the daemon treats both by polling again); the row's display fields are
left out; validation of the row in `entrypoint.py` 444-459 cannot fail for a row
`propose_pr` wrote. The runtime's own task set is added to and removed from in step with
`_inflight_tasks`, so one variable stands for both. `IdleShutdown`, `AgentCrash` and
`ContainerStopped` belong to AgentCore and Fargate and are marked external.

### ProgressTracker

The container's posts are numbered by their place in its program (1 `started` ... 6
`opening_pr`, 7 the result). `phase[k]` is where the handler of post k is (reading the
row, calling Slack, saving the timestamp, falling back), `seen[k]` the timestamp it
read, `ts` the one in the row, `thread[m]` the last thing message m shows. The container
waits for an answer (`waiting`) until it gives up after ten seconds (`GiveUpWaiting`);
the handler goes on, which is how handlers overlap. The read of the row is eventually
consistent: it may answer any earlier timestamp (`past`), which is the fault `stale`. A
missing bot token has the effect of a failed read.

### SandboxSystem

Instances `J` of `SandboxJob` (one job) and `L` of `ProgressTracker`, joined in
`ContainerStep`: a step of the container that passes a milestone is also a post, and the
container takes no step while it waits. `PartsBehave` says that the composition adds no
behaviour to either part, so what is checked and proved of the parts holds here.

### TenantConfig

`row[t]` is the config of a tenant as the values requests fight over (installation,
repository, policy, connector; a change is named by the request that made it);
`prev[t]` is the version before, which an eventually consistent read may return. A
request of any kind begins, reads, checks and writes as its handler does: `CommitPatch`
is conditional on the config it read and tries three times, `CommitApproval` is the
transaction of row and lock row, the others overwrite. `ideal`, `stale`, `reset` are
history: the row as if each request had been atomic, the requests that replaced a
config they had not read, the tenants reinstalled. Any step may be the last one of a
request (`Abandon`: a failed call or a dead process). Validation is one outcome
(`invalid`); the JSON backend of local development is left out (its reinstallation
keeps the row, where DynamoDB's resets it: `tenant_write.py` 330-334 and 427-430).

### SpendCap

`counter` is the pair of attributes of the row, `before` what it was before its last
update (a check may read that: fault `old`), `pc[c]` where the invocation or job c is,
`failed[c]` the counter on which c's increment failed, `billed[c]` the month c had
computed; `spent`, `resent`, `crowd`, `raced` are history; `resent` is what increments
added whose answer was lost and that boto3 sent again. `Increment` is the conditional
update (the condition of `spend_tracker.py` 158-160, evaluated by DynamoDB), `Reset` the
unconditional one after it. The cost in cents is a constant per charge, already rounded
up. The cap is taken as enabled, zero included; failing invocations are not recorded by
the code and so have no charge. A job is charged without a check.

### SlackDelivery

One event, delivered up to `MaxDelivery` times. `pc[k]` is where the handler of delivery
k, then its background task is; `queue`, `pending`, `sending` are what lies between the
invocation's producer, the tick loop and the sender task of the adapter; `message[k]` is
the streamed Slack message, `posts[k]` the plain ones. A unit of text is what one tick
releases; `CatchUp` and `Burst` are the thresholds in units. An answer may be empty: the
streamed reply then stops its message, the buffered one is refused by Slack (`no_text`)
and the user told of an error. The three tasks of a reply interleave freely. The agent
of an abandoned run keeps talking while the buffered path invokes it anew, as in the
code. Left out: signature checks, the URL handshake, the thinking status and `LOCAL_DEV`
stubs; reactions and clicks are in `Workspace`. Re-sends by boto3 are modelled for the
dedup write (`dedup_again`) and not for invocations; nor are slack_sdk's own re-sends of
an append on a broken connection. A stream that ends with an agent error ends like any
other one: `_parse_sse_frame` drops the error frame.

### AgentTurn

`turn[t]` is an invocation: `at` its place in `invoke`, `place` the channel it is said
in (a direct message is a channel to the code, whose id the adapter passes), or the
user, or nothing, for payloads without one; `snap` is the copy of the tenant's row
loaded once: `config` is the row as it is, `lagging` the earlier versions that a read,
which is not a consistent one, may still answer until the table has caught up
(`CatchUp`); `tools`, `link`, `call` the tool call under way, `hint` and `session` the
silos of memory it looks in, `seen` the records put before the model, `reached` the
channels and repositories it read or wrote. `memory` is a set of records, each with its
silo and the place it was said in; `audit` the rows handed to the store; `grant[t]` is
history: what the memberships, and any version of the row a read could answer, allowed
since the turn arrived. `EditConfig` and `Leave` change row and membership between any
two steps. The model's choice of tool and target is free. `Over` leaves a tool that is
still running with its copy of the context, as a Python thread keeps it; `Audited` is
the `finally` of the decorator. Abstracted: texts, skills and personas to the tools they
ask for, a silo to its namespace, the audit store's own failure (it swallows it).

### Workspace

`flow[f]` is an OAuth flow from `/slack/install` to the callback's last write, `cookie`
and `session` what each browser holds, `row`, `secret`, `mapped` the three stores,
`tokens` and `maps` the two caches of each worker. The four writes of an installation
are four actions, since the other worker, a failure or a crash may come between them;
the worker itself is one event loop and blocks (`Free`). A click resolves
(`Interaction`), replaces the picker through `response_url` if Slack takes it (`Tidy`)
and is queued (`Queue`); a worker that dies between two of them leaves Slack to send the
click again, or it is lost. A reaction is marked first, or let through because the mark's
write failed (`open`), and then its tenant is looked up. An update of the picker that
takes effect after its call timed out is not a step of its own. `Uninstall` kills Slack's
token without the bridge hearing of it.

### Connectors

A submission is validated at the vendor, finds and writes the credential provider
(`key`), finds and writes the target (`server`), reads and writes the tenant's row. The
read is eventually consistent: `older` is what the row was. The gateway's id and url are
two parameters, published and deleted one by one (`PublishId`, `PublishUrl`, `PurgeId`,
`PurgeUrl`), and a script may stop between them (`LeaveParameters`); the third, its arn,
nobody reads. Each integration is a record of what distinguishes its route.
`DeleteTargets` ... `PublishUrl` are the operator's two scripts; `coords[w]` and
`signs[w]` are what a worker cached of the gateway's id and url and of its signing key;
`Mint` and `Intercept` are a tool call's token and its verdict. `mixed`, `alone`,
`wiped` and `torn` (id and url were published of two gateways) are history.

### GitHubTokens

One process of any of the three programs, its clock off by `skew`; `th[t]` is a thread
between cache, exchange, store and use. `era` counts suspensions, which revoke tokens.
The container has one thread and asks once. Time counts ticks of GitHub's clock.

### Dashboards

`bucket[w][s]` holds Period-ths of a token so that refill is a whole number per tick;
`log` and `told` are history: `log[w][s][t]` counts what worker w admitted from s up to
tick t, so that what it admitted between two ticks is a difference (`Admitted`).
`Limited` is `retry_after` whole: pruning, and the wait told to a source for which there
is no room, included.

### AutoSave

`data`, `lastSaved`, `saving` are the hook's refs, `timer` its debounce, `flushed` the
save sent on unmount; `stored` is the row behind the server action. A save whose answer
is lost makes way for the next one, and the server may come to it only then (`lost`,
`Land`).

## 3. The runs

Bounds are in the `.cfg` files. `Resends`, `MaxFaults`, `MaxDelivery`, `MaxLength`,
`Months`, `MaxTime`, `MaxEra`, `MaxGen`, `MaxKey`, `MaxIssued`, `MaxCalls`, `MaxEdits`
and `MaxEdit` are the only bounds on otherwise unbounded things; everything else is
finite in the code.

| Run | Instance | States, depth | What it shows |
|---|---|---|---|
| `sandbox_faults` | two jobs, thresholds 1 and 2, nine kinds of fault, one fault, up to two re-sends | 500,198, 36 | heartbeat ownership, idle shutdown, success, charge, audit, `JobContract` |
| `tracker` | seven posts, three faults of six kinds | 412,271, 29 | number of trackers, no step back, result shown |
| `system` | one job of threshold 2, one fault on each side, fair | 337,479, 37 | the parts behave as alone; a success in the thread is real; an open pull request is shown; the bridge cannot pin the agent; the row settles |
| `tenant` | two tenants, two installations, three requests, symmetric | 819,909, 19 | exclusive holding, final binding, lost updates |
| `spend` | three invocations, a job, three months, cap 2, one fault, up to two re-sends | 812,685, 18 | the counter against the spend, the overshoot, refusals |
| `delivery` | three deliveries, answers of up to three units, three faults of eleven kinds, fair | 435,119, 36 | at most one run, faithful stream, closed streams, answered |
| `connectors` | two submissions of two integrations (one whose server is the vendor's, one whose is submitted), two workers, two gateways, two keys, a call | 1,632,978, 31 | paired credentials, a lone submission works, what is listed exists, fresh tokens are taken |
| `turn` | two turns, two channels, a user, a repository, four rows, one change, which reads may miss | 2,674,607, 21 | silos kept, hints where written, reach granted, audit complete |
| `workspace` | two workers, browsers, flows and clicks, a reaction, two tokens, one fault | 2,012,525, 35 | provisioned before routed, own cache fresh, picks worked on |
| `dashboards` | a worker, two sources, two requests, room for one source, one slot, 6 ticks | 977,341, 30 | rate bounded, Retry-After kept, links honest |
| `github_tokens` | two threads, skew -1 to 1, life 4, buffer 2, 7 ticks, two suspensions | 751,316, 23 | a prompt use works, an outage is bounded |
| `claim_lost_edit` | a form with three values, fair | 2,376, 21 | the finding |

Why the bounds suffice for the interesting cases. Two jobs with different thresholds are
enough for one job's registration to change whether the other counts as busy; one job
suffices for liveness, since no fairness condition joins jobs. Three tracker faults are
enough for two handlers given up on and a failed save between them. Three requests are
the reader, the writer that makes its read stale and a third that uses the result
(approve, reinstall, approve again); a PATCH's third conflict needs three writes by
others and is reached by its reading old versions. Three invocations are two that race
at the turn of a month and one whose check comes after; three months let a recorder that
is late by one month meet a counter of the next. Three deliveries are the first, a retry
that overlaps it and one after its handler is gone; three units exercise the catch-up, a
burst and the final drain. Two submissions of one slot overlap at every pair of writes;
two gateways and two keys are an old and a new one. A turn that writes and one that
reads are what a leak between silos needs, one edit makes the loaded copy of the row
stale, and the four rows differ in sharing, isolation, routes and codebases. Two flows
overlap in two workers and two tabs; two tokens are one before and one after a
reinstallation. Two sources and room for one force pruning and the refusal of a new
source; a bucket of two with a period of three makes a wait that must be rounded. Seven
ticks hold a token's life, its renewal and the use of the old one. The symmetry sets
permute what the specification does not tell apart; only safety is checked with them.
Two runs also have a `VIEW`, which leaves out what nothing looks at any more (how a call
or a delivery that is over ended, which flow an ended one was). `datadog`, whose route
refuses, is a value of `Connectors` in the specification and not in the run. A second
delivery of a reaction, for which `workspace` has no room beside two clicks, is left to
the proof of `FeedbackOwn`.

`CHECK_DEADLOCK FALSE` is set where the system comes to rest: jobs end and no new ones
are asked for, the event is dealt with, the requests are answered, the bounded clock
stops. That nothing stops too early is what the liveness properties say.

### Fairness

Three runs state it: `SystemFairSpec`, `DeliveryFairSpec` and `AutoSaveFairSpec`. Weak
fairness is given to what a scheduler or a service runs to its next step: the tool call
once it began, the daemon thread, the container, each handler of the bridge, the tick
loop, the sender, the agent's stream, Slack's retries, a debounce, a request under way.
There is none on asking for a job, on typing, on any fault, crash, shutdown or timeout.
A weakly fair step that can fail always has its normal outcome enabled with it, so no
fairness forces a fault. In the code each of these is a thread, an asyncio task, a timer
or a process that blocks only on calls with timeouts, and the poller's deadline is a
wall-clock bound (`agent/tools.py` 560).

### The finding

`claim_lost_edit`: `useAutoSave` "persists after `delay` ms of inactivity"
(`onboarding/lib/useAutoSave.ts` 12). An edit made while a save is in flight starts its
debounce; if that ends before the save does, `doSave` returns at line 31 and nothing
starts it again. The user stops typing, stays on the page, sees "saved", and the last
edit is not. No answer is lost in it: the property excuses lost answers, after which an
older save may land over a newer one. Another edit, or leaving the page, saves it.

### Where code and documentation part

These have no run of their own. The model takes the code's side, and a property that
holds says how far the matter goes.

| Sentence | What the code does | Bounded by |
|---|---|---|
| "The PR was not opened." (`agent/tools.py` 1722) | the launch took effect and its answer was lost: the container opens it | `SuccessHasPR`, `ThreadSuccessIsReal` |
| orphaned: "elapsed without terminal status" (`agent/tools.py` 1786) | the deadline path writes without a last read, over a success if there is one | `SuccessHasPR` (the link stays), `RowSettles` |
| "Posts a new tracker message on the first call ... then updates it" (`bridge/sandbox_progress.py` 300) | after a failed save, or a read too early for it, the next milestone posts again | `TrackersBounded` |
| a manual `default_repo` "survives the warm-start write" (`bridge/github_install.py` 349) | the warm start's patch names `default_repo` and replaces it | `NothingLost` |
| "cannot race past the cap" (`agent/spend_tracker.py` 7) | check and record are apart: all that run together pass | `OverspendBounded` |
| "return seconds until the next is available" (`bridge/rate_limit.py` 45) | a source for which there is no room is told the time of one token, though no bucket has room for it until another goes idle | `RetryAfterKept` |

Met while modelling, and visible in the models: a container that cannot read its row
exits without the callback (`entrypoint.py` 32); a container that starts after the
ceiling and is killed leaves a row `running` (37-40); with a threshold of 2 one queued
job does not keep the session busy (`agent/tools.py` 1555); an orphaned job's cost is
never charged (`entrypoint.py` 510-512); a late milestone handler overwrites the final
tracker (`sandbox_progress.py` 4-6); an event is marked before it is dispatched or its
tenant looked up, so a crash or a 500 in between loses it (`main.py` 330, while
`dedup.py` 26-28 prefers to process twice), and a reaction likewise; `/slack/interactions`
has no deduplication (`main.py` 395); the OAuth callback's answer deletes the state
cookie of another tab's flow; the worker that did not handle a reinstallation keeps the
old bot token for its life (`slack_token_store.py` 124), and the agent caches a bot
token that was not found (`slack_api.py`); `invalidate_installation_token` has no caller
(`scm_github.py` 293); all viewers of a dashboard page share one source of the limiter,
since the page's server fetches for them, and each worker has a limiter of its own.

## 4. The proofs

Fifty-seven theorems in eight modules, no step left open. They hold for every value of
the constants allowed by the assumption of the module (`SandboxAssumption`,
`TrackerAssumption`, `SystemAssumption`, `TenantAssumption`, `SpendAssumption`,
`DeliveryAssumption`, `TurnAssumption`, `WorkspaceAssumption`, `ConnectorAssumption`,
`DashboardsAssumption`, `GitHubTokensAssumption`; `AutoSave` needs none): any number of
jobs, invocations, requests, tenants, deliveries, turns, submissions, sources, workers
and threads, any number of faults.

| Module | Theorem | Property |
|---|---|---|
| `SandboxJob_proofs` | `TypeCorrect`, `HeartbeatIsOwned`, `IdleShutdownIsSafe`, `SuccessIsReal`, `SpendIsCharged`, `AuditedBeforeRelease` | types and every invariant of `sandbox_faults` |
| | `RepliesMatchLaunch`, `ChargesAreBacked`, `RowIsSettled` | `ReplyMatchesLaunch`, `ChargeBacked`, `RowSettled` (proved only) |
| | `JobsImplementContract` | `ImplementsContract` (refinement of `JobContract`) |
| `ProgressTracker_proofs` | `TrackerTyped`, `TrackersAreBounded`, `ThreadAdvances`, `ResultIsShown` | types and every property of `tracker` |
| `SlackThread_proofs` | `WholeIsItsParts`, `ThreadSuccessHolds` | `PartsBehave` (refinement of both parts) and `ThreadSuccessIsReal` of `system` |
| | `DeliveryTyped`, `RunOnce`, `StreamsAreClosed`, `StreamsAreFaithful` | types and every invariant of `delivery` |
| | `FaultMasked`, `NobodyDrops` | `SingleFaultMasked`, `NeverDropped` (proved only) |
| `TenantConfig_proofs` | `ChangesAreKept`, `BindingIsFinal`, `HeldOnce` | every invariant of `tenant` |
| | `TenantTyped`, `WorkspacesAreReady`, `ApprovalStays` | types, `WorkspaceReady`, `ApprovalExclusive` (proved only) |
| | `FormsAreHonest` | `FormHonest` of `AutoSave` (proved only) |
| `Limits_proofs` | `SpendTyped`, `RefusalJustified`, `CountsAreExact`, `OverspendIsBounded` | types and every invariant of `spend` |
| | `CounterCovered` | `NeverOvercounted` (proved only) |
| | `DashboardsTyped`, `RatesAreBounded`, `RetryAfterIsKept`, `LinksAreHonest` | types and every invariant of `dashboards` |
| `AgentTurn_proofs` | `AgentTurnTyped`, `SilosKept`, `HintsWhereWritten`, `ReachIsGranted`, `AuditIsComplete` | types and every invariant of `turn` |
| `Workspace_proofs` | `WorkspaceTyped`, `WorkspaceProvisioned`, `CacheFresh`, `PicksWorkedOn` | types and every invariant of `workspace` |
| | `SessionsEarned`, `FeedbackOnce` | `SessionEarned`, `FeedbackOwn` (proved only) |
| `Credentials_proofs` | `ConnectorsTyped`, `CredentialsArePaired`, `ConnectionsWork`, `ListedAreProvisioned`, `FreshTokensAreAccepted` | types and every property of `connectors` |
| | `GitHubTokensTyped`, `TokensWork`, `OutagesEnd` | types and every invariant of `github_tokens` |

"Proved only" means that no run lists the property; a proof for all instances makes one
superfluous. The inductive invariants, and why each is needed:

- **SandboxJob.** `HeartbeatOwned` needs that a daemon exists, and a reply was given,
  only after the tool returned (`HandedOver`), else tool and daemon could both own a job
  and one release it under the other. `IdleShutdownSafe` follows since a job of
  threshold 1 in `inflight` makes the process `Busy`. Of `SuccessHasPR`,
  `SuccessBacked` is inductive with the type invariant, each copy of "success" being
  made from another one, and `LinkKept` follows from `RowKept` below; types need
  `VerdictKnown` (a daemon past its loop has a verdict). `ReplyMatchesLaunch` needs
  `LaunchedByTool`: no container exists before the tool's launch, and one does after a
  launch that was acknowledged. `ChargeBacked` needs `ChargedLate` (no charge while the
  daemon polls), `NothingSpentYet` (an early container has spent nothing and its row
  says so) and `RowCostIsSpent`: the charge is read from the row, and the row holds zero
  or what was spent; each re-send adds that once more, which is `Billed`, and the
  contract's `LoseAnswer` and `Repeat`. `SpendCharged` needs `PaidUp`: while DynamoDB
  answers, a container past its cost write has its spend on the row, and a terminal
  status seen by the daemon was written by such a container; `AuditTrail` ties a job's
  audit rows to the positions of tool and daemon. `RowSettled` needs `RowKept`, which
  begins one step earlier: from its last write on, before the callback, a container's
  outcome is on the row, unless poller or tool wrote a verdict of their own over it. The
  refinement maps a job to "tracked" while it is in `inflight`; every action is a step
  of the contract or a stutter, and the process's death is `Die`.
- **TenantConfig.** `TypedInv` (types, and at which steps a request of each kind can be
  and has read a config); `Ready` (a request about to map a workspace has a row and a
  token); `Accounted` (a row differs from `ideal` only after a stale write of its
  tenant); `Locked` (a confirmed approval owns its lock row, and a lock's owner has a
  row); `WarmReads` and `Owned` (an installation named by a row, by the version before
  it or by a config some request has read is locked by that tenant or predates the
  locks); `Bound` (unless the tenant is excused by `BindingFinal`, its row names what it
  has locked); `Old` (while nobody reinstalls, a tenant bound before the locks keeps its
  installation in every copy of its config, and no other approval of it is past the
  owner check).
- **SpendCap.** `Covered` says of the counter *and* of the version before it that its
  cents are at most the month's spend and what was added again (`resent`), as an
  eventually consistent check may read either; `Billed` that a charge being recorded
  knows its month. `CountedExactly` needs `Tallied` (nothing was spent in a month after
  the counter's) and `Failed` (a charge that resets met a counter of another month), so
  that a reset nobody came before drops an older month and not its own.
  `OverspendBounded` needs what is still to come: what was spent in a month, and
  `MaxCost` for each charge that may still be added to it (`Billable`), stay below the
  cap (or a cent, if the cap is zero: `Limit`) and `MaxCost` for each of `crowd`, the
  most charges that were ever outstanding together (`Bounds`). A check that lets a
  charge in reads a counter below the cap, which `CountedExactly` makes the spend; a
  record moves a cost from one side to the other. That finitely many costs have a
  largest goes by a least counterexample (`ListBounded`), which needs no induction
  theorem.
- **ProgressTracker.** `Waited`: until the container gives up on a post, only the post it
  is at is handled, so what is shown can only advance. `Fell`: a handler of the result
  falls back only after a fault. `Counted` bounds the trackers by two sets: while the row
  has no timestamp, every tracker but the one the container waits for is `Spoilt` (its
  handler was given up on or ended without saving), each by a fault of its own; once it
  has one, a handler joins `Posting` only by reading too early, which is a fault of its
  own. `Linked`: what a handler reads, late or not, is a tracker of the thread.
- **SandboxSystem.** Every step of the whole is one of the job, or none, and one of the
  tracker, or none; for the second, a post must be a later one than the last, so
  `Progressed` ties the container's place in its program to `at`, the post it made last,
  and what it called back to its outcome. `SandboxJob_proofs` is then instantiated with
  the one job, and `ThreadSuccessIsReal` follows from `SuccessHasPR` and `RowKept` there.
- **SlackDelivery.** `Once`: unless the events table failed, at most one task is past
  deduplication, and runs are counted against its position; `Shape` bounds the runs by
  that position; `Smooth`: while the agent's connection and Slack work, no task turns to
  the buffered path after a stream; `Closing` ties the streamed message's state to the
  position of its task and counts the faults that led there. `Conveyed`: the message,
  the pieces on their way to the sender, what the tick loop holds and the agent's queue
  are consecutive runs of the answer's units (`Cuts` cuts the pieces without a recursive
  definition); `EndIsLast`: the end mark leaves after them and after the end of the
  agent's stream, so a sender that is done has shown all. `NotLeft`: while nothing but
  one fault that leaves the event alone has happened, a marked event, or one a delivery
  is over with, has a task at work on it or was told something; a duplicate is dropped
  only where the mark is, so somebody else has it. (`NeverDropped` itself says nothing
  until all are over.)
- **AgentTurn.** `Granted`: what was granted covers every version of the row a read may
  answer, the memberships as they are, and the copy of the row the turn decides by, so
  that a decision by a stale copy is still one that was allowed once. `Reach`: a linked
  channel about to be fetched and the target of a call that was allowed are in the grant
  before they are in `reached`; the gap between question and use is why `ReachGranted`
  alone is not inductive. `MemoryOK`: a private record lies in a silo of its own place
  (`OwnSilo`), whichever of the two copies of the choice wrote it; `Sealed` follows
  since no other place's turn reads such a silo. `Logged`: the one call that may lack
  its row is the one still running.
- **Workspace.** `SignIns` (cookie and session are of a flow their own browser started,
  and a callback that passed goes on in that browser), `Writes` (what the position of an
  installation says of the stores: the mapping is written after row and token, and the
  stores never lose anything), `Mapped` (whoever was let in found the mapping),
  `OnceOnly` (of two deliveries of the reaction that were taken up, one is in `open`). A
  handler under way is of a worker (`Mapped`), so that only a crash moves its click back.
- **GitHubTokens.** A token on its way, held or cached is dated by GitHub (it ends at
  most a life from now, and before that life after the suspension if it is of an older
  era), and one that was handed out had the buffer left by the program's own clock.
- **Connectors.** A submission is followed from its first write to its answer.
  `KeyedOnce` (a slot's key was written by a submission of that slot that is past that
  write) and `Separate` (one between its two writes has its key, until two of a slot
  overlap) give `Paired`, of which `PairedCredentials` is the part after the answer.
  `Listed` says of rows *and* of the copies read before a write that what they list has
  its provider and, unless it was deleted, its target. `Apart` and `Undisturbed` are
  about a submission no other one ran into: it still has key and target, and every later
  writer of its tenant's row has read a row that lists it, at the gateway there is (a
  read of a version without it takes it out of `alone`); without this, a writer that
  comes after could drop what was answered ok. `FreshTokenAccepted` is about a step: a
  refusal for the key comes after a refresh, so the worker that served it does not sign
  with that key.
- **Dashboards.** `RateBounded` compares counts over every window of time, so its
  invariant does too. `Accounted`: for every tick t, what was admitted since t and what
  the bucket could still admit (`Potential`; a source without a bucket would get a full
  one) are at most a full bucket and what flowed in since t; a request moves a token
  from the second to the first, a tick adds what flows in, pruning forgets only full
  buckets. `Promised`: at the tick a source was told to come back, its bucket, if it has
  one, holds a token, whatever was refused in between; if it has none, it is admitted
  when pruning leaves room, which `MaxKeys` others of the last period (`Recent`)
  prevent. `LinkHonest` needs `Linked`: an address given away has its record until the
  deadline. `SlotsCounted` says that no read slot is lost when a read ends or fails; the
  types of the counters rest on it.
- **AutoSave.** `FormInv`: a form that was left has no debounce, and its flush is sent
  only then, so that nothing but saves, and saves given up, reach the row of a form on
  the page.

Only model-checked: liveness under fairness (`OpenPRIsShown`, `RowSettles`,
`BridgeCannotPin`, `Answered`), which with ENABLED is out of the prover's reach, and the
finding, which is about liveness too. `RowSettled` and `NeverDropped` are the safety
halves of `RowSettles` and `Answered`: under the faults they allow, a container does not
end with the row open, nor all tasks of an event with the event unanswered; that they
get to an end is TLC's part. Facts that need induction over
data are avoided or go by a least element; sums are kept as running totals in the state.
No module uses a RECURSIVE operator.

## 5. What is not modelled, and the plan

Not modelled because it has no control to check (rendering, prompts, aggregation, one
request and its answer, infrastructure): console pages, the texts of context assembly,
metrics, pricing, deployment, seeds, scripts other than the gateway's. The codebase
resolver is a pure ranking covered by unit tests. Their failures appear as faults in
the modules that call them. The local backends of development (JSON files, in-memory
stores other than the memory store) are left out.

The order followed: jobs, since they join most processes and hold the sharpest
interleavings; the tracker and the composition; the shared tenant row; the cap; the
delivery of events; a turn of the agent; the installation of a workspace; connectors;
GitHub tokens; dashboards and auto-save. What comes next, in this order:

1. The sandbox agent's turns and budget (`infra/sandbox/agent.py` 494-683) in place of
   `RunAgentLoop`'s single step, shown to implement it.
2. The interceptor's filter of tool lists, and `AgentTurn`'s MCP tools joined with
   `Connectors`' verdict on them.
3. The codebase resolver as an operator against a reference definition.
4. Proofs: an abstract specification of an event (new, taken, told) implemented by
   `SlackDelivery` and one of an installation (free, locked by a tenant) implemented by
   `TenantConfig`; the refinement of the sandbox agent's loop once item 1 is there.
