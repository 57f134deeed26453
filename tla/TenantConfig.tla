---------------------------- MODULE TenantConfig ----------------------------
(***************************************************************************)
(* The tenants table and everything that writes it: the console's PATCH,   *)
(* the connectors, the GitHub warm start, the operator's approval, the     *)
(* agent's manage_config and the OAuth (re)installation.  The config is    *)
(* one attribute, so every writer replaces all of it by what it read and   *)
(* merged; only PATCH and the approval make the write conditional.         *)
(*                                                                         *)
(* A request is handled in steps, one for each call to DynamoDB.  Requests *)
(* interleave: the bridge runs two worker processes with a thread pool     *)
(* each, and the agent writes the same table.                              *)
(***************************************************************************)
EXTENDS Naturals, FiniteSets

CONSTANTS
  Tenant,        \* the tenants
  Installation,  \* GitHub App installation ids
  Req,           \* the requests of one behaviour
  None           \* no installation, no value

ASSUME TenantAssumption == None \notin Tenant \cup Installation

Attempts == 3    \* _PATCH_WRITE_ATTEMPTS

VARIABLES
  row,     \* row[t]: the config of the tenants row, NoRow if there is none
  prev,    \* row[t] before its last write: what an eventually consistent
           \* read may still return
  token,   \* the tenants with a bot token in Secrets Manager
  mapped,  \* the tenants a workspace is mapped to
  lock,    \* lock[i]: bound_tenant_id of the installation's lock row
  work,    \* work[q]: what request q asks for
  pc,      \* where its handler is
  got,     \* the config its handler read
  tries,   \* how often a PATCH has tried to write
  reply,   \* how the request was answered
  legacy,  \* the tenants bound before there were lock rows
  ideal,   \* history: the row had every write been an atomic update
  stale,   \* history: the requests that replaced a config by one read
           \* before its last change, since the tenant's installation
  reset    \* history: the tenants installed a second time

bound == <<token, mapped, lock>>
ghost == <<ideal, stale, reset>>
tcvars == <<row, prev, bound, work, pc, got, tries, reply, legacy, ghost>>

NoRow   == [none |-> TRUE]
Value   == Req \cup {None}
Config  == [prompt : Value,                       \* last set by which request
            repo : Value,                         \* codebases.default_repo
            inst : Installation \cup {None},      \* codebases.github_installation_id
            connected : SUBSET Req]               \* byo.connected_integrations
Default == [prompt |-> None, repo |-> None, inst |-> None, connected |-> {}]

Patches  == {"patch_prompt", "patch_repo"}
Unguarded == {"connect", "warm_start", "manage_config"}
Binding  == {"approve", "warm_start"}
Kinds    == Patches \cup Unguarded \cup {"approve", "install"}
Request  ==
  [kind : Kinds \ Binding, tenant : Tenant, inst : {None}]
    \cup [kind : Binding, tenant : Tenant, inst : Installation]
Idle     == [kind |-> "idle", tenant |-> None, inst |-> None]
Replies  == {"none", "ok", "not_found", "refused", "invalid", "conflict", "error"}
Steps    == {"idle", "read", "owner", "write", "reset", "token", "map", "done"}

TenantTypeOK ==
  /\ row \in [Tenant -> Config \cup {NoRow}]
  /\ prev \in [Tenant -> Config \cup {NoRow}]
  /\ token \subseteq Tenant
  /\ mapped \subseteq Tenant
  /\ lock \in [Installation -> Tenant \cup {None}]
  /\ work \in [Req -> Request \cup {Idle}]
  /\ pc \in [Req -> Steps]
  /\ got \in [Req -> Config \cup {NoRow}]
  /\ tries \in [Req -> 0 .. Attempts]
  /\ reply \in [Req -> Replies]
  /\ legacy \subseteq Tenant
  /\ ideal \in [Tenant -> Config \cup {NoRow}]
  /\ stale \subseteq Req
  /\ reset \subseteq Tenant

Bind(i) == [Default EXCEPT !.inst = i]

\* Tenants not yet installed, and tenants with a row, some of them bound by a
\* release that knew no lock rows.
TenantInit ==
  /\ row \in [Tenant -> {NoRow, Default} \cup {Bind(i) : i \in Installation}]
  /\ legacy = {t \in Tenant : row[t] # NoRow /\ row[t].inst # None}
  /\ prev = row
  /\ token = {t \in Tenant : row[t] # NoRow}
  /\ mapped = token
  /\ lock = [i \in Installation |-> None]
  /\ work = [q \in Req |-> Idle]
  /\ pc = [q \in Req |-> "idle"]
  /\ got = [q \in Req |-> NoRow]
  /\ tries = [q \in Req |-> 0]
  /\ reply = [q \in Req |-> "none"]
  /\ ideal = row
  /\ stale = {}
  /\ reset = {}

-----------------------------------------------------------------------------
\* What a request makes of a config: deep_merge of its patch, which leaves the
\* other fields of codebases and byo alone.
Effect(q, c) ==
  LET kind == work[q].kind IN
  [c EXCEPT
     !.prompt = IF kind \in {"patch_prompt", "manage_config"} THEN q ELSE @,
     !.repo = IF kind \in {"patch_repo", "warm_start"} THEN q ELSE @,
     !.inst = IF kind \in Binding THEN work[q].inst ELSE @,
     !.connected = IF kind = "connect" THEN @ \cup {q} ELSE @]

Write(t, c) ==
  /\ row' = [row EXCEPT ![t] = c]
  /\ prev' = [prev EXCEPT ![t] = row[t]]

\* Request q replaces the row by the merge of what it read.
WriteMerged(q) ==
  LET t == work[q].tenant IN
  /\ Write(t, Effect(q, got[q]))
  /\ ideal' = [ideal EXCEPT ![t] = Effect(q, @)]

Goto(q, step) == pc' = [pc EXCEPT ![q] = step]

Answer(q, r) ==
  /\ Goto(q, "done")
  /\ reply' = [reply EXCEPT ![q] = r]

\* Mutant: the rows bound before there were locks are not looked at.
Owners_LockOnly(i) == {lock[i]} \ {None}

\* Who holds an installation: the lock row's owner, else the rows that name it.
Owners(i) ==
  IF lock[i] # None THEN {lock[i]}
  ELSE {t \in Tenant : row[t] # NoRow /\ row[t].inst = i}

FirstStep(kind) ==
  CASE kind = "install" -> "reset"
    [] kind = "approve" -> "owner"
    [] OTHER -> "read"

Begin(q) ==
  /\ pc[q] = "idle"
  /\ \E r \in Request :
       /\ work' = [work EXCEPT ![q] = r]
       /\ Goto(q, FirstStep(r.kind))
  /\ UNCHANGED <<row, prev, bound, got, tries, reply, legacy, ghost>>

\* The configs request q goes on with after get_tenant_row: a warm start only
\* with its own installation, an approval only without another one.
Accepts(q, c) ==
  /\ c # NoRow
  /\ work[q].kind = "warm_start" => c.inst = work[q].inst
  /\ work[q].kind = "approve" => c.inst \in {None, work[q].inst}

ReadRow(q) ==
  /\ pc[q] = "read"
  /\ \E c \in {row[work[q].tenant], prev[work[q].tenant]} :
       \/ /\ Accepts(q, c)
          /\ got' = [got EXCEPT ![q] = c]
          /\ Goto(q, IF work[q].kind = "warm_start" THEN "owner" ELSE "write")
          /\ UNCHANGED reply
       \/ /\ ~Accepts(q, c)
          /\ Answer(q, IF c = NoRow THEN "not_found" ELSE "refused")
          /\ UNCHANGED got
  /\ UNCHANGED <<row, prev, bound, work, tries, legacy, ghost>>

\* find_tenant_by_github_installation, at the start of an approval and after
\* the read of a warm start.
CheckOwner(q) ==
  LET owners == Owners(work[q].inst)
      mine == {work[q].tenant} IN
  /\ pc[q] = "owner"
  /\ \/ /\ work[q].kind = "approve" /\ owners \subseteq mine
        /\ Goto(q, "read") /\ UNCHANGED reply
     \/ /\ work[q].kind = "warm_start" /\ owners = mine
        /\ Goto(q, "write") /\ UNCHANGED reply
     \/ /\ IF work[q].kind = "approve" THEN ~(owners \subseteq mine) ELSE owners # mine
        /\ Answer(q, "refused")
  /\ UNCHANGED <<row, prev, bound, work, got, tries, legacy, ghost>>

\* Mutant: the write does not ask for the config that was read.
CommitPatch_Unconditional(q) ==
  /\ pc[q] = "write" /\ work[q].kind \in Patches
  /\ WriteMerged(q)
  /\ Answer(q, "ok")
  /\ UNCHANGED <<bound, work, got, tries, legacy, stale, reset>>

\* patch_tenant: write if the row is still what was read, else start over.
CommitPatch(q) ==
  /\ pc[q] = "write" /\ work[q].kind \in Patches
  /\ tries' = [tries EXCEPT ![q] = @ + 1]
  /\ \/ /\ row[work[q].tenant] = got[q]
        /\ WriteMerged(q)
        /\ Answer(q, "ok")
     \/ /\ row[work[q].tenant] # got[q]
        /\ IF tries'[q] = Attempts THEN Answer(q, "conflict")
           ELSE Goto(q, "read") /\ UNCHANGED reply
        /\ UNCHANGED <<row, prev, ideal>>
     \/ /\ Answer(q, "invalid")
        /\ UNCHANGED <<row, prev, ideal>>
  /\ UNCHANGED <<bound, work, got, legacy, stale, reset>>

MarkStale(q) ==
  stale' = IF got[q] = row[work[q].tenant] THEN stale ELSE stale \cup {q}

\* update_tenant_row without expected_config, or the agent's upsert: the write
\* has no condition on what it replaces.
Overwrite(q) ==
  /\ pc[q] = "write"
  /\ WriteMerged(q)
  /\ MarkStale(q)
  /\ Answer(q, "ok")
  /\ UNCHANGED <<bound, work, got, tries, legacy, reset>>

Connect(q)      == work[q].kind = "connect" /\ Overwrite(q)
WarmStart(q)    == work[q].kind = "warm_start" /\ Overwrite(q)
ManageConfig(q) == work[q].kind = "manage_config" /\ Overwrite(q)

\* The conditions of the transaction on the lock row and on the tenant row.
LockFree(q) == lock[work[q].inst] \in {None, work[q].tenant}

\* Mutant: the transaction does not look at the tenant row's installation.
RowFree_Always(q) == row[work[q].tenant] # NoRow

RowFree(q)  == row[work[q].tenant].inst \in {None, work[q].inst}

\* approve_github_installation_binding: lock row and tenant row together.
CommitApproval(q) ==
  /\ pc[q] = "write" /\ work[q].kind = "approve"
  /\ \/ /\ LockFree(q) /\ RowFree(q)
        /\ lock' = [lock EXCEPT ![work[q].inst] = work[q].tenant]
        /\ WriteMerged(q)
        /\ MarkStale(q)
        /\ Answer(q, "ok")
     \/ /\ ~(LockFree(q) /\ RowFree(q))
        /\ Answer(q, "refused")
        /\ UNCHANGED <<lock, row, prev, ideal, stale>>
  /\ UNCHANGED <<token, mapped, work, got, tries, legacy, reset>>

\* handle_oauth_callback: a default row, whatever was there, then the bot
\* token, then the workspace mapping.
ResetRow(q) ==
  LET t == work[q].tenant IN
  /\ pc[q] = "reset"
  /\ Write(t, Default)
  /\ ideal' = [ideal EXCEPT ![t] = Default]
  /\ stale' = {p \in stale : work[p].tenant # t}
  /\ reset' = IF row[t] = NoRow THEN reset ELSE reset \cup {t}
  /\ Goto(q, "token")
  /\ UNCHANGED <<bound, work, got, tries, reply, legacy>>

StoreToken(q) ==
  /\ pc[q] = "token"
  /\ token' = token \cup {work[q].tenant}
  /\ Goto(q, "map")
  /\ UNCHANGED <<row, prev, mapped, lock, work, got, tries, reply, legacy, ghost>>

MapWorkspace(q) ==
  /\ pc[q] = "map"
  /\ mapped' = mapped \cup {work[q].tenant}
  /\ Answer(q, "ok")
  /\ UNCHANGED <<row, prev, token, lock, work, got, tries, legacy, ghost>>

\* A call fails, or the process dies, at any step.
Abandon(q) ==
  /\ pc[q] \notin {"idle", "done"}
  /\ Answer(q, "error")
  /\ UNCHANGED <<row, prev, bound, work, got, tries, legacy, ghost>>

-----------------------------------------------------------------------------
TenantNext ==
  \E q \in Req :
    \/ Begin(q) \/ ReadRow(q) \/ CheckOwner(q)
    \/ CommitPatch(q) \/ CommitApproval(q)
    \/ Connect(q) \/ WarmStart(q) \/ ManageConfig(q)
    \/ ResetRow(q) \/ StoreToken(q) \/ MapWorkspace(q)
    \/ Abandon(q)

TenantSpec == TenantInit /\ [][TenantNext]_tcvars

-----------------------------------------------------------------------------
(***************************************************************************)
(* Properties.                                                             *)
(***************************************************************************)
Holds(t, i) == row[t] # NoRow /\ row[t].inst = i

\* Two rows never name one installation, except rows that did before there
\* were locks, whichever stale configs are written back; a reinstallation of a
\* tenant bound without a lock is the one way out of it.
InstallationHeldOnce ==
  (legacy = {} \/ reset = {}) =>
    \A i \in Installation : \A t, u \in Tenant :
      Holds(t, i) /\ Holds(u, i) => t = u \/ {t, u} \subseteq legacy

\* An approval that was confirmed stays: no other tenant is ever confirmed the
\* same installation.
ApprovalExclusive ==
  \A q \in Req :
    (work[q].kind = "approve" /\ reply[q] = "ok") => lock[work[q].inst] = work[q].tenant

Overwritten(kinds) == {work[q].tenant : q \in {p \in stale : work[p].kind \in kinds}}

\* A tenant is bound to a second installation only if the config with the first
\* was wiped by a reinstallation or overwritten by an unconditional write.
BindingFinal ==
  \A t \in Tenant \ (Overwritten(Unguarded) \cup reset) : \A i, j \in Installation :
    (lock[i] = t /\ lock[j] = t) => i = j

\* Unless an unconditional write replaced a config it had not read, the row is
\* what the requests would have made of it one after the other: a PATCH never
\* undoes the change of another request and none of its own is lost.
NothingLost == \A t \in Tenant \ Overwritten(Kinds) : row[t] = ideal[t]

\* A workspace is mapped to a tenant only when the tenant has a row and a token.
WorkspaceReady == \A t \in mapped : row[t] # NoRow /\ t \in token
=============================================================================
