----------------------------- MODULE AgentTurn ------------------------------
(***************************************************************************)
(* One invocation of the agent, from the payload to the finally block, for *)
(* turns of one tenant that run side by side while the operator edits the  *)
(* tenant's row and people join and leave channels.                        *)
(*                                                                         *)
(* A turn loads the configuration once and keeps what it allows in the     *)
(* request context; its tools decide by that copy.  What it remembers goes *)
(* to a silo of memory chosen by the same copy, and what it is reminded of *)
(* comes from one; inspect_codebase_context alone reads the row again.  No *)
(* read of the row is consistent: for a while after an edit it may answer  *)
(* what the row was before.                                                *)
(***************************************************************************)
EXTENDS Naturals, FiniteSets

CONSTANTS
  Turn,      \* invocations
  Channel,   \* Slack conversations: channels, and direct messages too
  Named,     \* the channels that permalinks and tool calls name
  User,      \* Slack users
  Repo,      \* repositories the GitHub App can see
  Config,    \* the tenant rows the operator may save
  Gated,     \* tools this deployment does not offer
  MaxCalls,  \* bound: tool calls of a turn
  MaxEdits,  \* bound: edits of the row, and changes of membership
  None       \* nothing there

VARIABLES
  local,    \* AGENTCORE_MEMORY_ID is unset: memory lives in this process
  config,   \* the tenant's row
  lagging,  \* its earlier versions that a read may still answer
  edits,    \* how often the row or a membership changed
  member,   \* who is in which channel
  turn,     \* the invocations
  memory,   \* the records of the tenant's memory
  audit,    \* the rows handed to the audit store, which may lose them
  grant     \* history: what a turn might reach since it arrived

atvars == <<local, config, lagging, edits, member, turn, memory, audit, grant>>

-----------------------------------------------------------------------------
RepoTools    == {"code_search", "code_read_file", "code_find_symbol", "code_list_commits"}
ChannelTools == {"search_team_history", "read_thread_context", "post_to_channel"}
OtherTools   == {"escalate", "record_feedback", "inspect_codebase_context",
                 "ask_codebase_choice", "propose_pr", "render_dashboard",
                 "check_task_status", "manage_config"}
Tool         == RepoTools \cup ChannelTools \cup OtherTools
CodeTools    == RepoTools \cup
                {"inspect_codebase_context", "ask_codebase_choice", "propose_pr"}

\* A tenant's row, as far as a turn reads it; persona[c] and skill are the
\* tools a channel's persona and a matching skill ask for.
ConfigSpace ==
  [enabled : BOOLEAN, installed : BOOLEAN, bound : SUBSET Repo, learn : BOOLEAN,
   shared : BOOLEAN, isolated : SUBSET Channel, faq : BOOLEAN, extract : BOOLEAN,
   allowed : SUBSET Tool, persona : [Channel -> (SUBSET Tool) \cup {None}],
   skill : SUBSET Tool, routes : SUBSET Channel]

\* Where a turn is said: a conversation, or, where the payload names none, the
\* user's own, or nowhere known.
Place == Channel \cup User \cup {None}
Silo  == {"tenant", "channel", "faq", "user", "turn"} \X (Place \cup Turn)

ASSUME TurnAssumption ==
  /\ Config \subseteq ConfigSpace
  /\ Gated \subseteq {"render_dashboard", "propose_pr"}
  /\ Named \subseteq Channel /\ MaxCalls \in Nat /\ MaxEdits \in Nat
  /\ None \notin Channel \cup User \cup Repo \cup Config \cup Silo

Nothing == [repos |-> {}, channels |-> {}, scoped |-> FALSE]
NoCall  == [tool |-> None, target |-> None, at |-> "none"]
NewTurn == [at |-> "new", feedback |-> FALSE, place |-> None, user |-> None,
            link |-> None, snap |-> None, tools |-> {}, call |-> NoCall, n |-> 0,
            hint |-> None, session |-> None, seen |-> {}, reached |-> {}]

AgentTurnInit ==
  /\ local \in BOOLEAN
  /\ config \in Config /\ lagging = {}
  /\ edits = 0
  /\ member = Named \X User
  /\ turn = [t \in Turn |-> NewTurn]
  /\ memory = {} /\ audit = {}
  /\ grant = [t \in Turn |-> Nothing]

-----------------------------------------------------------------------------
(* The row and the memberships change under the turns.                     *)

\* Mutant: isolated_channels is not looked at.
ChannelScoped_SharedOnly(cfg, p) == p \in Channel /\ ~cfg.shared

\* Must the memory of this place be a silo of its own?
ChannelScoped(cfg, p) == p \in Channel /\ (~cfg.shared \/ p \in cfg.isolated)

Secluded(cfg, p) == p \notin Channel \/ ~cfg.shared \/ p \in cfg.isolated

\* What get_item may answer: it is not asked for a consistent read.
Versions == {config} \cup lagging

Bound(cfg) == IF cfg.enabled THEN cfg.bound ELSE {}

\* What these versions of the row, and the memberships, let a turn reach.
MayReach(rows, p, u) ==
  [repos    |-> UNION {Bound(cfg) : cfg \in rows},
   channels |-> ({p} \cap Channel) \cup {c \in Channel : <<c, u>> \in member}
                  \cup UNION {cfg.routes : cfg \in rows},
   scoped   |-> \A cfg \in rows : Secluded(cfg, p)]

\* What turns under way may reach grows by what the new row allows.
Regrant(cfg) ==
  grant' = [t \in Turn |->
    IF turn[t].place = None /\ turn[t].at \in {"new", "done"} THEN grant[t]
    ELSE [repos    |-> grant[t].repos \cup Bound(cfg),
          channels |-> grant[t].channels \cup cfg.routes,
          scoped   |-> grant[t].scoped /\ Secluded(cfg, turn[t].place)]]

Change ==
  /\ edits < MaxEdits /\ edits' = edits + 1
  /\ UNCHANGED <<local, turn, memory, audit>>

EditConfig ==
  /\ Change
  /\ config' \in Config \ {config}
  /\ lagging' = Versions
  /\ Regrant(config')
  /\ UNCHANGED member

\* The last copy of the table that held this version has caught up.
CatchUp(cfg) ==
  /\ cfg \in lagging /\ lagging' = lagging \ {cfg}
  /\ UNCHANGED <<local, config, edits, member, turn, memory, audit, grant>>

Leave(c, u) ==
  /\ Change
  /\ <<c, u>> \in member
  /\ member' = member \ {<<c, u>>}
  /\ UNCHANGED <<config, lagging, grant>>

-----------------------------------------------------------------------------
(* Memory: which silo a turn writes to, and which it reads.                *)

\* The local store's namespace and the session's actor are chosen alike.
SiloOf(cfg, p, u, t) ==
  IF ChannelScoped(cfg, p) THEN <<"channel", p>>
  ELSE IF p \in Channel THEN <<"tenant", None>>
  ELSE IF u # None THEN <<"user", u>> ELSE <<"turn", t>>

\* Mutant: the affinity lookup is not told of the isolated channels.
ActorFor_NotIsolated(cfg, p, u) ==
  IF p \in Channel /\ ~cfg.shared THEN <<"channel", p>>
  ELSE IF p \in Channel THEN <<"tenant", None>> ELSE <<"user", u>>

\* _actor_id_for: whose records the codebase hint is looked for in.
ActorFor(cfg, p, u) ==
  IF p \in Channel /\ (~cfg.shared \/ p \in cfg.isolated) THEN <<"channel", p>>
  ELSE IF p \in Channel THEN <<"tenant", None>> ELSE <<"user", u>>

\* A hint needs AgentCore Memory, codebases that learn, and a known place.
HintFrom(cfg, p, u) ==
  IF ~local /\ cfg.enabled /\ cfg.learn /\ cfg.bound # {} /\ (p \in Channel \/ u # None)
  THEN ActorFor(cfg, p, u) ELSE None

In(silo) == {r \in memory : r.silo = silo}

Remember(t, silo) ==
  memory' = memory \cup {[silo |-> silo, place |-> turn[t].place, private |-> grant[t].scoped]}

-----------------------------------------------------------------------------
(* Rows handed to the audit store, and the end of a turn.                  *)

Row(t, type, n) == [turn |-> t, type |-> type, n |-> n]

Log(row) == audit' = audit \cup {row}

Set(t, rec) == turn' = [turn EXCEPT ![t] = rec]

\* The turn is over and its context cleared; a tool that runs on in its
\* thread keeps its copy.
Over(t) ==
  IF turn[t].call = NoCall
  THEN /\ Set(t, [NewTurn EXCEPT !.at = "done", !.feedback = turn[t].feedback, !.n = turn[t].n])
       /\ grant' = [grant EXCEPT ![t] = Nothing]
  ELSE Set(t, [turn[t] EXCEPT !.at = "done"]) /\ UNCHANGED grant

\* The finally block: one row, whichever way the turn ended.
Finally(t) == Log(Row(t, "invocation", 0)) /\ Over(t)

-----------------------------------------------------------------------------
(* A turn.                                                                 *)

\* The payload: a message with a permalink perhaps, or a reaction.  Slack's
\* name a conversation; one from elsewhere may leave it out.
Arrive(t) ==
  /\ turn[t].at = "new"
  /\ \E p \in Channel \cup {None}, u \in User \cup {None},
        f \in BOOLEAN, link \in Named \cup {None} :
       /\ p \in Channel => u # None
       /\ f => p \in Channel /\ link = None
       /\ Set(t, [NewTurn EXCEPT !.at = "load", !.feedback = f, !.link = link,
                                 !.place = IF p # None THEN p ELSE u, !.user = u])
       /\ grant' = [grant EXCEPT ![t] =
                      MayReach(Versions, IF p # None THEN p ELSE u, u)]
  /\ UNCHANGED <<local, config, lagging, edits, member, memory, audit>>

\* The row is read once, some version of it, and the context set from that.
Load(t) ==
  /\ turn[t].at = "load" /\ ~turn[t].feedback
  /\ \E cfg \in Versions : Set(t, [turn[t] EXCEPT !.at = "link", !.snap = cfg])
  /\ UNCHANGED <<local, config, lagging, edits, member, memory, audit, grant>>

\* A reaction: its audit row, then its record; no model is asked.  Without
\* the configuration it leaves neither.
Feedback(t) ==
  /\ turn[t].at = "load" /\ turn[t].feedback
  /\ \/ /\ Log(Row(t, "feedback", 0))
        /\ \E cfg \in Versions : Set(t, [turn[t] EXCEPT !.at = "react", !.snap = cfg])
        /\ UNCHANGED grant
     \/ Over(t) /\ UNCHANGED audit
  /\ UNCHANGED <<local, config, lagging, edits, member, memory>>

FeedbackMemory(t) ==
  /\ turn[t].at = "react"
  /\ \/ Remember(t, SiloOf(turn[t].snap, turn[t].place, turn[t].user, t))
     \/ ~local /\ UNCHANGED memory          \* the service failed
  /\ Over(t)
  /\ UNCHANGED <<local, config, lagging, edits, member, audit>>

\* Mutant: a lookup that gave no answer lets the requester through.
MemberSays_Open(c, u) == IF <<c, u>> \in member THEN {TRUE} ELSE {FALSE, TRUE}

\* is_user_member_of_channel is True; no answer counts as no.
MemberSays(c, u) == IF <<c, u>> \in member THEN {TRUE, FALSE} ELSE {FALSE}

\* May a turn of this place touch channel c?
Admits(t, c) == IF c = turn[t].place THEN {TRUE}
                ELSE IF turn[t].user = None THEN {FALSE} ELSE MemberSays(c, turn[t].user)

\* assemble_context, first part: is the linked channel the requester's?
CheckLink(t) ==
  /\ turn[t].at = "link"
  /\ \E yes \in IF turn[t].link = None THEN {FALSE} ELSE Admits(t, turn[t].link) :
       Set(t, IF yes THEN [turn[t] EXCEPT !.at = "fetch"]
              ELSE [turn[t] EXCEPT !.at = "assemble", !.link = None])
  /\ UNCHANGED <<local, config, lagging, edits, member, memory, audit, grant>>

FetchLink(t) ==
  /\ turn[t].at = "fetch"
  /\ Set(t, [turn[t] EXCEPT !.at = "assemble", !.link = None,
                           !.reached = {turn[t].link}])
  /\ UNCHANGED <<local, config, lagging, edits, member, memory, audit, grant>>

\* The persona's tools or the tenant's, a skill's extra ones, less the code
\* tools of a tenant without codebases and those the deployment gates.
ToolsFor(cfg, p) ==
  LET base == IF p \in Channel /\ cfg.persona[p] # None THEN cfg.persona[p] ELSE cfg.allowed
  IN ((base \cup cfg.skill) \ ((IF cfg.enabled THEN {} ELSE CodeTools) \cup Gated))
       \cup {"manage_config"}

\* Skill, hint and tool list; then the model is asked.  The session manager
\* retrieves from and records to its silo, the local store only gives FAQs.
Assemble(t) ==
  /\ turn[t].at = "assemble"
  /\ LET cfg     == turn[t].snap
         p       == turn[t].place
         hint    == HintFrom(cfg, p, turn[t].user)
         session == IF local THEN None ELSE SiloOf(cfg, p, turn[t].user, t)
     IN /\ Set(t, [turn[t] EXCEPT
                    !.at = "stream", !.tools = ToolsFor(cfg, p),
                    !.hint = hint, !.session = session,
                    !.seen = In(hint) \cup In(session) \cup
                             IF local /\ cfg.faq /\ p \in Channel THEN In(<<"faq", p>>) ELSE {}])
        /\ IF local THEN UNCHANGED memory ELSE Remember(t, session)
  /\ UNCHANGED <<local, config, lagging, edits, member, audit, grant>>

\* The end of the stream: local extraction writes what was said.
Answered(t) ==
  /\ turn[t].at = "stream" /\ turn[t].call = NoCall
  /\ LET cfg == turn[t].snap
         p   == turn[t].place
     IN IF local /\ cfg.extract
        THEN Remember(t, IF cfg.faq /\ p \in Channel THEN <<"faq", p>>
                         ELSE SiloOf(cfg, p, turn[t].user, t))
        ELSE UNCHANGED memory
  /\ Finally(t)
  /\ UNCHANGED <<local, config, lagging, edits, member>>

\* An exception, the answer that the cap is reached, or the caller's
\* disconnect, which stops neither a tool that runs nor assemble_context, whose
\* thread goes on for nothing.
Break(t) ==
  /\ \/ turn[t].at \in {"link", "fetch", "assemble", "stream"}
     \/ turn[t].at = "load" /\ ~turn[t].feedback
  /\ Finally(t)
  /\ UNCHANGED <<local, config, lagging, edits, member, memory>>

-----------------------------------------------------------------------------
(* A tool call of a turn: asked for, decided, carried out, recorded.       *)

Calls(t, tool) == turn[t].call.tool = tool
At(t, step)    == turn[t].call.at = step
Step(t, step)  == Set(t, [turn[t] EXCEPT !.call.at = step])

\* The model asks for any repository, channel or team it can think of;
\* manage_config is a request of TenantConfig.
Ask(t) ==
  /\ turn[t].at = "stream" /\ turn[t].call = NoCall /\ turn[t].n < MaxCalls
  /\ \E tool \in turn[t].tools \ {"manage_config"}, target \in Repo \cup Named \cup {None} :
       /\ (tool \in RepoTools) = (target \in Repo)
       /\ (tool \in ChannelTools \cup {"escalate"}) = (target \in Named)
       /\ Set(t, [turn[t] EXCEPT !.n = @ + 1,
                    !.call = [tool |-> tool, target |-> target, at |-> "asked"]])
  /\ UNCHANGED <<local, config, lagging, edits, member, memory, audit, grant>>

\* allowed_github_repos of the context, and an installation to ask with.
AuthorizeRepo(cfg, repo) == cfg.enabled /\ repo \in cfg.bound /\ cfg.installed

\* What the tool may conclude before it does anything: by the snapshot for
\* repositories and routes, by asking Slack for another channel, and never yes
\* without a channel to start from.
Permits(t) ==
  LET call == turn[t].call
      cfg  == turn[t].snap
  IN IF call.tool \in RepoTools THEN {AuthorizeRepo(cfg, call.target)}
     ELSE IF call.tool \in ChannelTools
       THEN IF turn[t].place \in Channel THEN Admits(t, call.target) ELSE {FALSE}
     ELSE IF call.tool = "escalate" THEN {call.target \in cfg.routes}
     ELSE {TRUE}

Decide(t) ==
  /\ At(t, "asked")
  /\ \E yes \in Permits(t) : Step(t, IF yes THEN "allowed" ELSE "ended")
  /\ UNCHANGED <<local, config, lagging, edits, member, memory, audit, grant>>

Target(t) == turn[t].call.target

\* The code backend, counted as reached also when the answer is an error:
\* the tool returns every one as text.
ReadRepo(t) ==
  /\ At(t, "allowed") /\ turn[t].call.tool \in RepoTools
  /\ Set(t, [turn[t] EXCEPT !.call.at = "ended", !.reached = @ \cup {Target(t)}])
  /\ UNCHANGED <<local, config, lagging, edits, member, memory, audit, grant>>

\* History, thread, post or escalation; a call of Slack that does not get
\* through raises.
UseSlack(t) ==
  /\ At(t, "allowed") /\ turn[t].call.tool \in ChannelTools \cup {"escalate"}
  /\ \E step \in {"ended", "raised"} :
       Set(t, [turn[t] EXCEPT !.call.at = step, !.reached = @ \cup {Target(t)}])
  /\ UNCHANGED <<local, config, lagging, edits, member, memory, audit, grant>>

\* ask_codebase_choice: buttons in the turn's own thread, if it has one; the
\* candidates are not checked, for a click only asks again.
AskChoice(t) ==
  /\ At(t, "allowed") /\ Calls(t, "ask_codebase_choice")
  /\ \E step \in {"ended", "raised"} :
       Set(t, [turn[t] EXCEPT !.call.at = step, !.reached = @ \cup ({turn[t].place} \cap Channel)])
  /\ UNCHANGED <<local, config, lagging, edits, member, memory, audit, grant>>

\* record_feedback: a feedback row, and a record in the local store.
RecordFeedback(t) ==
  /\ At(t, "allowed") /\ Calls(t, "record_feedback")
  /\ Log(Row(t, "feedback", turn[t].n))
  /\ Remember(t, SiloOf(turn[t].snap, turn[t].place, turn[t].user, t))
  /\ Step(t, "ended")
  /\ UNCHANGED <<local, config, lagging, edits, member, grant>>

\* inspect_codebase_context reads the row again, and the hint by it.
Inspect(t) ==
  /\ At(t, "allowed") /\ Calls(t, "inspect_codebase_context")
  /\ \E cfg \in Versions :
       Set(t, [turn[t] EXCEPT !.call.at = "ended",
                 !.seen = @ \cup In(HintFrom(cfg, turn[t].place, turn[t].user))])
  /\ UNCHANGED <<local, config, lagging, edits, member, memory, audit, grant>>

\* The tools that touch nothing of these: the status of a tenant's job, a
\* dashboard, a pull request, which is SandboxJob's.
OtherTool(t) ==
  /\ At(t, "allowed")
  /\ turn[t].call.tool \in {"check_task_status", "render_dashboard", "propose_pr"}
  /\ Step(t, "ended") \/ Step(t, "raised")
  /\ UNCHANGED <<local, config, lagging, edits, member, memory, audit, grant>>

\* Mutant: only a call that returned gets its row.
Record_Returned(t) ==
  IF At(t, "ended") THEN Log(Row(t, "tool_call", turn[t].n)) ELSE UNCHANGED audit

\* audited_tool's finally: the row of a call that returned or raised.
Record(t) == Log(Row(t, "tool_call", turn[t].n))

\* The call is over; its thread writes the row even after the turn's end.
Audited(t) ==
  /\ At(t, "ended") \/ At(t, "raised")
  /\ Record(t)
  /\ Set(t, IF turn[t].at # "done" THEN [turn[t] EXCEPT !.call = NoCall]
            ELSE [NewTurn EXCEPT !.at = "done", !.n = turn[t].n])
  /\ UNCHANGED <<local, config, lagging, edits, member, memory, grant>>

-----------------------------------------------------------------------------
TurnStep(t) ==
  \/ Arrive(t) \/ Load(t) \/ Feedback(t) \/ FeedbackMemory(t)
  \/ CheckLink(t) \/ FetchLink(t) \/ Assemble(t) \/ Answered(t) \/ Break(t)
  \/ Ask(t) \/ Decide(t) \/ ReadRepo(t) \/ UseSlack(t) \/ AskChoice(t)
  \/ RecordFeedback(t) \/ Inspect(t) \/ OtherTool(t) \/ Audited(t)

AgentTurnNext ==
  \/ EditConfig
  \/ \E cfg \in lagging : CatchUp(cfg)
  \/ \E c \in Channel, u \in User : Leave(c, u)
  \/ \E t \in Turn : TurnStep(t)

AgentTurnSpec == AgentTurnInit /\ [][AgentTurnNext]_atvars

-----------------------------------------------------------------------------
AgentTurnTypeOK ==
  /\ local \in BOOLEAN /\ config \in Config /\ lagging \subseteq Config
  /\ edits \in 0 .. MaxEdits /\ member \subseteq Channel \X User
  /\ turn \in [Turn -> [at : {"new", "load", "react", "link", "fetch", "assemble",
                              "stream", "done"},
                        feedback : BOOLEAN, place : Place, user : User \cup {None},
                        link : Channel \cup {None}, snap : Config \cup {None},
                        tools : SUBSET Tool, n : 0 .. MaxCalls,
                        call : [tool : Tool \cup {None},
                                target : Repo \cup Channel \cup {None},
                                at : {"none", "asked", "allowed", "ended", "raised"}],
                        hint : Silo \cup {None}, session : Silo \cup {None},
                        seen : SUBSET memory, reached : SUBSET (Repo \cup Channel)]]
  /\ memory \subseteq [silo : Silo, place : Place, private : BOOLEAN]
  /\ audit \subseteq [turn : Turn, type : {"invocation", "feedback", "tool_call"},
                      n : 0 .. MaxCalls]
  /\ grant \in [Turn -> [repos : SUBSET Repo, channels : SUBSET Channel, scoped : BOOLEAN]]

\* What was said in a place that was to keep its memory to itself, by every
\* version of the row that a read could answer since the turn arrived (a
\* channel of its own silo, or a turn whose payload names no channel), is never
\* before a turn of another place, however the row is edited meanwhile and
\* whether it comes back by the session, the FAQ, the codebase hint or
\* inspect_codebase_context.  A turn that begins before an isolation has reached
\* every copy of the table may still be told by the old row, and is not held to
\* the new one (main.py:119-148, 224-302; codebase_memory.py:103; tenant.py:637).
SiloKept ==
  \A t \in Turn : \A r \in turn[t].seen : r.private => r.place = turn[t].place

\* The hint is looked for where the turn's own session records, for else it
\* would silently find nothing (codebase_memory.py:112-127).
HintWhereWritten ==
  \A t \in Turn : turn[t].hint # None => turn[t].hint = turn[t].session

\* A turn reads or writes only repositories that were bound, and channels the
\* requester was in or that were a route, by a version of the row that a read
\* could answer since the turn arrived, however its tools are asked and whatever
\* Slack fails to answer.  What was unbound earlier, but not yet in every copy of
\* the table, may still be reached (tools.py:305-343, 714-759, 845-887;
\* context_assembler.py:233-270; tenant.py:637).
ReachGranted ==
  \A t \in Turn : turn[t].reached \subseteq grant[t].repos \cup grant[t].channels

\* Every call that was over, whether it returned or raised, and every turn
\* that was more than a reaction, is written to the audit table, under the
\* turn it belongs to, also when the turn broke off while its tool ran on
\* (tools.py:115-190; main.py:863-901).
AuditComplete ==
  \A t \in Turn :
    /\ \A k \in 1 .. turn[t].n : \/ Row(t, "tool_call", k) \in audit
                                  \/ (k = turn[t].n /\ turn[t].call # NoCall)
    /\ turn[t].at = "done" /\ ~turn[t].feedback => Row(t, "invocation", 0) \in audit
=============================================================================
