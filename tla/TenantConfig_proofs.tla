------------------------ MODULE TenantConfig_proofs ------------------------
(***************************************************************************)
(* What holds of the tenants table for any number of tenants, requests and *)
(* installations: the types; that a mapped workspace is complete; that     *)
(* only unconditional writes lose anything; that an approval stays; that a *)
(* tenant keeps its installation; that no two tenants hold one.  And of    *)
(* the console's form whose saves are among those requests (AutoSave): it  *)
(* shows no more than is true, and its saves do not overtake one another.  *)
(***************************************************************************)
EXTENDS TenantConfig, AutoSave, TLAPS

\* What a request is at each step, and what it holds.
Handling ==
  \A q \in Req :
    /\ pc[q] # "idle" => work[q] \in Request
    /\ pc[q] = "idle" => work[q] = Idle
    /\ pc[q] \in {"read", "owner", "write"} => work[q].kind # "install"
    /\ pc[q] \in {"reset", "token", "map"} => work[q].kind = "install"
    /\ pc[q] = "write" \/ (pc[q] = "owner" /\ work[q].kind = "warm_start")
         => got[q] \in Config /\ row[work[q].tenant] \in Config
    /\ pc[q] # "done" => tries[q] < Attempts /\ reply[q] = "none"

\* A tenant that was installed has a row ever after.
Installed ==
  \A t \in Tenant : /\ prev[t] \in Config => row[t] \in Config
                    /\ row[t] \in Config => ideal[t] \in Config

TypedInv == TenantTypeOK /\ Handling /\ Installed

-----------------------------------------------------------------------------
LEMMA RequestFields ==
  ASSUME NEW r \in Request
  PROVE  /\ r.kind \in Kinds /\ r.tenant \in Tenant
         /\ r.kind \in Binding => r.inst \in Installation
         /\ r.kind # "idle"
  BY DEF Request, Kinds, Binding, Patches, Unguarded

LEMMA EffectTyped ==
  ASSUME NEW q \in Req, work[q] \in Request, NEW c \in Config
  PROVE  Effect(q, c) \in Config
<1>1. /\ work[q].kind \in Binding => work[q].inst \in Installation
      /\ c.connected \cup {q} \subseteq Req
  BY RequestFields DEF Config
<1> QED
  BY <1>1 DEF Effect, Config, Value

LEMMA DefaultTyped == Default \in Config /\ \A i \in Installation : Bind(i) \in Config
  BY DEF Default, Bind, Config, Value

LEMMA RowIsNot == NoRow \notin Config
<1>1. SUFFICES ASSUME NoRow \in Config PROVE FALSE
  OBVIOUS
<1>2. DOMAIN NoRow = {"none"}
  BY DEF NoRow
<1>3. \A c \in Config : DOMAIN c = {"prompt", "repo", "inst", "connected"}
  BY DEF Config
<1> QED
  BY <1>1, <1>2, <1>3

LEMMA Init_Typed == TenantInit => TypedInv
<1> SUFFICES ASSUME TenantInit PROVE TypedInv
  OBVIOUS
<1>1. row \in [Tenant -> Config \cup {NoRow}]
  BY DefaultTyped DEF TenantInit
<1>2. Handling
  BY DEF TenantInit, Handling, Attempts
<1>3. TenantTypeOK
  BY <1>1 DEF TenantInit, TenantTypeOK, Steps, Replies, Attempts
<1>4. Installed
  BY DEF TenantInit, Installed
<1> QED
  BY <1>2, <1>3, <1>4 DEF TypedInv

\* What WriteMerged does when it writes what its request makes of a config.
LEMMA Merged_Typed ==
  ASSUME TypedInv, NEW q \in Req, pc[q] = "write", WriteMerged(q)
  PROVE  /\ row' \in [Tenant -> Config \cup {NoRow}]
         /\ prev' \in [Tenant -> Config \cup {NoRow}]
         /\ ideal' \in [Tenant -> Config \cup {NoRow}]
         /\ Installed'
         /\ \A t \in Tenant : row[t] \in Config => row'[t] \in Config
<1>1. /\ work[q] \in Request /\ work[q].tenant \in Tenant /\ got[q] \in Config
      /\ ideal[work[q].tenant] \in Config
  BY RequestFields DEF TypedInv, Handling, Installed
<1>2. Effect(q, got[q]) \in Config /\ Effect(q, ideal[work[q].tenant]) \in Config
  BY <1>1, EffectTyped
<1> QED
  BY <1>1, <1>2 DEF WriteMerged, Write, TypedInv, TenantTypeOK, Installed

LEMMA Step_Typed ==
  ASSUME TypedInv, NEW q \in Req
  PROVE  /\ Begin(q) \/ ReadRow(q) \/ CheckOwner(q) => TypedInv'
         /\ StoreToken(q) \/ MapWorkspace(q) \/ Abandon(q) \/ ResetRow(q) => TypedInv'
<1> USE RowIsNot DEF TypedInv, TenantTypeOK, Handling, Installed, Steps, Replies, Goto, Answer, bound, ghost
<1>1. ASSUME Begin(q) PROVE TypedInv'
  <2>1. PICK r \in Request : work' = [work EXCEPT ![q] = r] /\ Goto(q, FirstStep(r.kind))
    BY <1>1 DEF Begin
  <2>2. r.kind \in Kinds
    BY RequestFields
  <2>3. /\ FirstStep(r.kind) \in {"reset", "owner", "read"}
        /\ FirstStep(r.kind) = "reset" <=> r.kind = "install"
        /\ FirstStep(r.kind) = "owner" => r.kind = "approve"
    BY <2>2 DEF FirstStep, Kinds
  <2> QED
    BY <1>1, <2>1, <2>3 DEF Begin
<1>2. ASSUME ReadRow(q) PROVE TypedInv'
  <2>1. work[q] \in Request /\ work[q].tenant \in Tenant
    BY <1>2, RequestFields DEF ReadRow
  <2> QED
    BY <1>2, <2>1 DEF ReadRow, Accepts
<1>3. ASSUME CheckOwner(q) PROVE TypedInv'
  BY <1>3 DEF CheckOwner
<1>4. ASSUME StoreToken(q) PROVE TypedInv'
  <2>1. work[q].tenant \in Tenant
    BY <1>4, RequestFields DEF StoreToken
  <2> QED
    BY <1>4, <2>1 DEF StoreToken
<1>5. ASSUME MapWorkspace(q) PROVE TypedInv'
  <2>1. work[q].tenant \in Tenant
    BY <1>5, RequestFields DEF MapWorkspace
  <2> QED
    BY <1>5, <2>1 DEF MapWorkspace
<1>6. ASSUME Abandon(q) PROVE TypedInv'
  BY <1>6 DEF Abandon
<1>7. ASSUME ResetRow(q) PROVE TypedInv'
  <2>1. work[q].tenant \in Tenant
    BY <1>7, RequestFields DEF ResetRow
  <2> QED
    BY <1>7, <2>1, DefaultTyped DEF ResetRow, Write
<1> QED
  BY <1>1, <1>2, <1>3, <1>4, <1>5, <1>6, <1>7

\* The requests that write what they merged.
LEMMA Write_Typed ==
  ASSUME TypedInv, NEW q \in Req,
         CommitPatch(q) \/ Overwrite(q) \/ CommitApproval(q)
  PROVE  TypedInv'
<1>1. pc[q] = "write" /\ UNCHANGED <<token, mapped, work, got, legacy, reset>>
  BY DEF CommitPatch, Overwrite, CommitApproval, bound
<1>2. work[q] \in Request /\ work[q].tenant \in Tenant /\ work[q].kind \in Kinds \ {"install"}
  BY <1>1, RequestFields DEF TypedInv, Handling
<1>3. /\ WriteMerged(q) \/ UNCHANGED <<row, prev, ideal>>
      /\ \/ \E r \in Replies \ {"none"} : Answer(q, r)
         \/ Goto(q, "read") /\ UNCHANGED reply
  BY DEF CommitPatch, Overwrite, CommitApproval, Replies
<1>4. /\ row' \in [Tenant -> Config \cup {NoRow}]
      /\ prev' \in [Tenant -> Config \cup {NoRow}]
      /\ ideal' \in [Tenant -> Config \cup {NoRow}]
      /\ Installed'
      /\ \A t \in Tenant : row[t] \in Config => row'[t] \in Config
  BY <1>1, <1>3, Merged_Typed DEF TypedInv, TenantTypeOK, Installed
<1>5. lock' \in [Installation -> Tenant \cup {None}]
  BY <1>1, <1>2, RequestFields
  DEF CommitPatch, Overwrite, CommitApproval, bound, TypedInv, TenantTypeOK
<1>6. stale' \subseteq Req
  BY DEF CommitPatch, Overwrite, CommitApproval, MarkStale, TypedInv, TenantTypeOK
<1>7. /\ tries' \in [Req -> 0 .. Attempts]
      /\ \A p \in Req : pc'[p] # "done" => tries'[p] < Attempts
  <2>1. CASE CommitPatch(q)
    BY <1>1, <2>1 DEF CommitPatch, Answer, Goto, TypedInv, TenantTypeOK, Handling, Attempts
  <2>2. CASE Overwrite(q) \/ CommitApproval(q)
    BY <1>1, <2>2
    DEF Overwrite, CommitApproval, Answer, Goto, TypedInv, TenantTypeOK, Handling
  <2> QED
    BY <2>1, <2>2
<1>8. /\ pc' \in [Req -> Steps] /\ reply' \in [Req -> Replies]
      /\ \A p \in Req : pc'[p] # "done" => reply'[p] = "none"
      /\ pc'[q] \in {"read", "done"} /\ \A p \in Req \ {q} : pc'[p] = pc[p]
  BY <1>1, <1>3 DEF Answer, Goto, TypedInv, TenantTypeOK, Handling, Steps
<1>9. TenantTypeOK'
  BY <1>1, <1>4, <1>5, <1>6, <1>7, <1>8 DEF TypedInv, TenantTypeOK
<1>10. Handling'
  <2> SUFFICES ASSUME NEW p \in Req
               PROVE  /\ pc'[p] # "idle" => work'[p] \in Request
                      /\ pc'[p] = "idle" => work'[p] = Idle
                      /\ pc'[p] \in {"read", "owner", "write"} => work'[p].kind # "install"
                      /\ pc'[p] \in {"reset", "token", "map"} => work'[p].kind = "install"
                      /\ pc'[p] = "write" \/ (pc'[p] = "owner" /\ work'[p].kind = "warm_start")
                           => got'[p] \in Config /\ row'[work'[p].tenant] \in Config
    BY <1>7, <1>8 DEF Handling
  <2>1. work[p] \in Request => work[p].tenant \in Tenant
    BY RequestFields
  <2> QED
    BY <1>1, <1>2, <1>4, <1>8, <2>1 DEF TypedInv, Handling
<1> QED
  BY <1>4, <1>9, <1>10 DEF TypedInv

LEMMA Next_Typed == TypedInv /\ [TenantNext]_tcvars => TypedInv'
<1> SUFFICES ASSUME TypedInv, [TenantNext]_tcvars PROVE TypedInv'
  OBVIOUS
<1>1. CASE UNCHANGED tcvars
  BY <1>1 DEF TypedInv, TenantTypeOK, Handling, Installed, tcvars, bound, ghost
<1>2. ASSUME NEW q \in Req,
             \/ Begin(q) \/ ReadRow(q) \/ CheckOwner(q)
             \/ ResetRow(q) \/ StoreToken(q) \/ MapWorkspace(q) \/ Abandon(q)
      PROVE  TypedInv'
  BY <1>2, Step_Typed
<1>3. ASSUME NEW q \in Req, CommitPatch(q) \/ CommitApproval(q) \/ Overwrite(q)
      PROVE  TypedInv'
  BY <1>3, Write_Typed
<1> QED
  BY <1>1, <1>2, <1>3 DEF TenantNext, Connect, WarmStart, ManageConfig

LEMMA TypedInvariant == TenantSpec => []TypedInv
  BY Init_Typed, Next_Typed, PTL DEF TenantSpec

\* Rows, locks, requests and what they read keep their types: a request goes on
\* only with a config it read, and a PATCH tries three times (tenant_write.py,
\* api.py).
THEOREM TenantTyped == TenantSpec => []TenantTypeOK
<1>1. TypedInv => TenantTypeOK
  BY DEF TypedInv
<1> QED
  BY <1>1, TypedInvariant, PTL

-----------------------------------------------------------------------------
\* Which steps touch the stored state, and how.
Quiet(q) ==
  \/ Begin(q) \/ ReadRow(q) \/ CheckOwner(q)
  \/ StoreToken(q) \/ MapWorkspace(q) \/ Abandon(q)

Writes(q) == CommitPatch(q) \/ CommitApproval(q) \/ (Overwrite(q) /\ work[q].kind \in Unguarded)

LEMMA NextSteps ==
  ASSUME [TenantNext]_tcvars
  PROVE  \/ UNCHANGED tcvars
         \/ \E q \in Req : Quiet(q) \/ ResetRow(q) \/ Writes(q)
  BY DEF TenantNext, Quiet, Writes, Connect, WarmStart, ManageConfig, Unguarded

LEMMA QuietSteps ==
  ASSUME NEW q \in Req, Quiet(q), TypedInv
  PROVE  /\ UNCHANGED <<row, prev, lock, legacy, ghost>>
         /\ \A p \in Req : pc[p] = "done" => pc'[p] = "done" /\ work'[p] = work[p]
         /\ \A p \in Req \ {q} : /\ work'[p] = work[p] /\ pc'[p] = pc[p]
                                 /\ reply'[p] = reply[p] /\ got'[p] = got[p]
<1> USE DEF TypedInv, TenantTypeOK, Goto, Answer, bound, ghost
<1>1. CASE Begin(q)
  BY <1>1 DEF Begin
<1>2. CASE ReadRow(q)
  BY <1>2 DEF ReadRow
<1>3. CASE CheckOwner(q)
  BY <1>3 DEF CheckOwner
<1>4. CASE StoreToken(q) \/ MapWorkspace(q) \/ Abandon(q)
  BY <1>4 DEF StoreToken, MapWorkspace, Abandon
<1> QED
  BY <1>1, <1>2, <1>3, <1>4 DEF Quiet

LEMMA EffectInst ==
  ASSUME NEW q \in Req, NEW c \in Config
  PROVE  Effect(q, c).inst = IF work[q].kind \in Binding THEN work[q].inst ELSE c.inst
  BY DEF Effect, Config

\* A request that writes: to its own tenant, what it makes of what it read.
LEMMA WriteSteps ==
  ASSUME TypedInv, NEW q \in Req, Writes(q)
  PROVE  /\ pc[q] = "write" /\ pc'[q] \in {"read", "done"}
         /\ work[q] \in Request /\ work[q].tenant \in Tenant /\ got[q] \in Config
         /\ row[work[q].tenant] \in Config
         /\ Effect(q, got[q]) \in Config
         /\ UNCHANGED <<token, mapped, work, got, legacy, reset>>
         /\ \A p \in Req \ {q} : pc'[p] = pc[p] /\ reply'[p] = reply[p]
         /\ \/ UNCHANGED <<row, prev, lock, ideal, stale>> /\ reply'[q] # "ok"
            \/ /\ WriteMerged(q) /\ pc'[q] = "done"
               /\ \/ UNCHANGED lock /\ work[q].kind # "approve"
                  \/ /\ work[q].kind = "approve" /\ LockFree(q) /\ RowFree(q)
                     /\ lock' = [lock EXCEPT ![work[q].inst] = work[q].tenant]
               /\ \/ row[work[q].tenant] = got[q] /\ stale' = stale
                  \/ stale' = stale \cup {q} /\ work[q].kind \in Unguarded \cup {"approve"}
<1>1. pc[q] = "write" /\ UNCHANGED <<token, mapped, work, got, legacy, reset>>
  BY DEF Writes, CommitPatch, Overwrite, CommitApproval, bound
<1>2. /\ work[q] \in Request /\ work[q].tenant \in Tenant /\ got[q] \in Config
      /\ row[work[q].tenant] \in Config /\ work[q].kind \in Kinds /\ reply[q] = "none"
  BY <1>1, RequestFields DEF TypedInv, Handling
<1>3. Effect(q, got[q]) \in Config
  BY <1>2, EffectTyped
<1>4. CASE CommitPatch(q)
  BY <1>1, <1>2, <1>3, <1>4
  DEF CommitPatch, Answer, Goto, TypedInv, TenantTypeOK, bound, Patches
<1>5. CASE Overwrite(q) /\ work[q].kind \in Unguarded
  BY <1>1, <1>2, <1>3, <1>5
  DEF Overwrite, MarkStale, Answer, Goto, TypedInv, TenantTypeOK, bound, Unguarded
<1>6. CASE CommitApproval(q)
  BY <1>1, <1>2, <1>3, <1>6
  DEF CommitApproval, MarkStale, Answer, Goto, TypedInv, TenantTypeOK
<1> QED
  BY <1>4, <1>5, <1>6 DEF Writes

-----------------------------------------------------------------------------
\* A workspace is mapped after the row and the token are there, and neither is
\* ever taken away.
Ready ==
  /\ \A t \in mapped : row[t] \in Config /\ t \in token
  /\ \A q \in Req :
       /\ pc[q] \in {"token", "map"} => row[work[q].tenant] \in Config
       /\ pc[q] = "map" => work[q].tenant \in token

LEMMA Init_Ready == TenantInit => Ready
<1> SUFFICES ASSUME TenantInit PROVE Ready
  OBVIOUS
<1>1. \A t \in Tenant : row[t] # NoRow => row[t] \in Config
  BY DefaultTyped DEF TenantInit
<1> QED
  BY <1>1 DEF TenantInit, Ready

LEMMA Next_Ready == TypedInv /\ Ready /\ [TenantNext]_tcvars => Ready'
<1> SUFFICES ASSUME TypedInv, Ready, [TenantNext]_tcvars PROVE Ready'
  OBVIOUS
<1>0. mapped \subseteq Tenant /\ \A q \in Req : pc[q] # "idle" => work[q].tenant \in Tenant
  BY RequestFields DEF TypedInv, TenantTypeOK, Handling
<1>1. CASE UNCHANGED tcvars
  BY <1>1 DEF Ready, tcvars, bound
<1>2. ASSUME NEW q \in Req, Quiet(q) PROVE Ready'
  <2> USE DEF TypedInv, TenantTypeOK, Goto, Answer, bound, Ready
  <2>1. CASE Begin(q)
    BY <1>0, <2>1 DEF Begin, FirstStep
  <2>2. CASE ReadRow(q) \/ CheckOwner(q)
    BY <1>0, <2>2 DEF ReadRow, CheckOwner
  <2>3. CASE StoreToken(q) \/ MapWorkspace(q) \/ Abandon(q)
    BY <1>0, <2>3 DEF StoreToken, MapWorkspace, Abandon
  <2> QED
    BY <1>2, <2>1, <2>2, <2>3 DEF Quiet
<1>3. ASSUME NEW q \in Req, ResetRow(q) PROVE Ready'
  BY <1>0, <1>3, DefaultTyped
  DEF ResetRow, Write, Ready, TypedInv, TenantTypeOK, Goto, bound
<1>4. ASSUME NEW q \in Req, Writes(q) PROVE Ready'
  BY <1>0, <1>4, WriteSteps DEF WriteMerged, Write, Ready, TypedInv, TenantTypeOK
<1> QED
  BY <1>1, <1>2, <1>3, <1>4, NextSteps

\* A workspace is mapped to a tenant only when the tenant has a row and a bot
\* token, whatever installations run at once and wherever they stop
\* (slack_oauth.py).
THEOREM WorkspacesAreReady == TenantSpec => []WorkspaceReady
<1>1. Ready => WorkspaceReady
  BY RowIsNot DEF Ready, WorkspaceReady
<1>2. TenantSpec => []Ready
  BY Init_Ready, Next_Ready, TypedInvariant, PTL DEF TenantSpec
<1> QED
  BY <1>1, <1>2, PTL

-----------------------------------------------------------------------------
\* A row that is not what atomic updates would have made of it was overwritten
\* by a request that had read something older.
Accounted ==
  /\ \A q \in stale : pc[q] = "done"
  /\ \A t \in Tenant : row[t] = ideal[t] \/ \E q \in stale : work[q].tenant = t

LEMMA Init_Accounted == TenantInit => Accounted
  BY DEF TenantInit, Accounted

LEMMA Next_Accounted == TypedInv /\ Accounted /\ [TenantNext]_tcvars => Accounted'
<1> SUFFICES ASSUME TypedInv, Accounted, [TenantNext]_tcvars PROVE Accounted'
  OBVIOUS
<1>0. stale \subseteq Req
  BY DEF TypedInv, TenantTypeOK
<1>1. CASE UNCHANGED tcvars
  BY <1>1 DEF Accounted, tcvars, ghost
<1>2. ASSUME NEW q \in Req, Quiet(q) PROVE Accounted'
  BY <1>0, <1>2, QuietSteps DEF Accounted, ghost
<1>3. ASSUME NEW q \in Req, ResetRow(q) PROVE Accounted'
  <2>1. work[q].tenant \in Tenant /\ pc[q] # "done"
    BY <1>3, RequestFields DEF ResetRow, TypedInv, Handling
  <2> QED
    BY <1>0, <1>3, <2>1
    DEF ResetRow, Write, Accounted, TypedInv, TenantTypeOK, Goto, ghost
<1>4. ASSUME NEW q \in Req, Writes(q) PROVE Accounted'
  <2>1. CASE UNCHANGED <<row, prev, lock, ideal, stale>>
    BY <1>0, <1>4, <2>1, WriteSteps DEF Accounted
  <2>2. CASE /\ WriteMerged(q) /\ pc'[q] = "done"
             /\ \/ row[work[q].tenant] = got[q] /\ stale' = stale
                \/ stale' = stale \cup {q}
    <3>1. \A p \in stale : p \in stale' /\ pc'[p] = "done" /\ work'[p] = work[p]
      BY <1>0, <1>4, <2>2, WriteSteps DEF Accounted
    <3>2. \A p \in stale' : pc'[p] = "done"
      BY <1>0, <1>4, <2>2, <3>1, WriteSteps
    <3>3. \A t \in Tenant \ {work[q].tenant} : row'[t] = row[t] /\ ideal'[t] = ideal[t]
      BY <2>2 DEF WriteMerged, Write, TypedInv, TenantTypeOK
    <3>4. \/ q \in stale'
          \/ row[work[q].tenant] = got[q] /\ stale' = stale
      BY <2>2
    <3>5. /\ row'[work[q].tenant] = Effect(q, got[q])
          /\ ideal'[work[q].tenant] = Effect(q, ideal[work[q].tenant])
      BY <1>4, <2>2, WriteSteps DEF WriteMerged, Write, TypedInv, TenantTypeOK
    <3>6. row'[work[q].tenant] = ideal'[work[q].tenant]
            \/ \E p \in stale' : work'[p].tenant = work[q].tenant
      <4>1. CASE q \in stale'
        BY <1>4, <4>1, WriteSteps
      <4>2. CASE row[work[q].tenant] = got[q]
        BY <1>4, <3>1, <3>5, <4>2, WriteSteps DEF Accounted
      <4> QED
        BY <3>4, <4>1, <4>2
    <3> QED
      BY <3>1, <3>2, <3>3, <3>6 DEF Accounted
  <2> QED
    BY <1>4, <2>1, <2>2, WriteSteps
<1> QED
  BY <1>1, <1>2, <1>3, <1>4, NextSteps

LEMMA AccountedInvariant == TenantSpec => []Accounted
  BY Init_Accounted, Next_Accounted, TypedInvariant, PTL DEF TenantSpec

\* A PATCH never undoes the change of another request and loses none of its own:
\* what differs from the updates made one after the other was overwritten by a
\* request that writes without the condition of a PATCH (api.py,
\* tenant_write.py), for any number of requests.
THEOREM ChangesAreKept == TenantSpec => []NothingLost
<1>1. TypedInv /\ Accounted => NothingLost
  <2> SUFFICES ASSUME TypedInv, Accounted, NEW t \in Tenant \ Overwritten(Kinds)
               PROVE  row[t] = ideal[t]
    BY DEF NothingLost
  <2>1. \A q \in stale : work[q].kind \in Kinds
    BY RequestFields DEF TypedInv, TenantTypeOK, Handling, Accounted
  <2> QED
    BY <2>1 DEF Accounted, Overwritten
<1> QED
  BY <1>1, AccountedInvariant, TypedInvariant, PTL

-----------------------------------------------------------------------------
\* A lock row that is there stays as it is, and its tenant has a row.
Locked ==
  /\ ApprovalExclusive
  /\ \A i \in Installation : lock[i] # None => row[lock[i]] \in Config
  /\ \A q \in Req :
       /\ reply[q] = "ok" => pc[q] = "done"
       /\ work[q].kind = "approve" =>
            work[q].tenant \in Tenant /\ work[q].inst \in Installation

LEMMA Init_Locked == TenantInit => Locked
  BY DEF TenantInit, Locked, ApprovalExclusive, Idle

LEMMA LockStays ==
  ASSUME TypedInv, [TenantNext]_tcvars, NEW i \in Installation, lock[i] # None
  PROVE  lock'[i] = lock[i]
<1>1. CASE UNCHANGED tcvars
  BY <1>1 DEF tcvars, bound
<1>2. ASSUME NEW q \in Req, Quiet(q) PROVE lock'[i] = lock[i]
  BY <1>2, QuietSteps
<1>3. ASSUME NEW q \in Req, ResetRow(q) PROVE lock'[i] = lock[i]
  BY <1>3 DEF ResetRow, bound
<1>4. ASSUME NEW q \in Req, Writes(q) PROVE lock'[i] = lock[i]
  BY <1>4, WriteSteps DEF LockFree, TypedInv, TenantTypeOK
<1> QED
  BY <1>1, <1>2, <1>3, <1>4, NextSteps

\* An installation is given to the tenant of the approval that is confirmed.
LEMMA ApprovalConfirmed ==
  ASSUME TypedInv, NEW q \in Req, CommitApproval(q), reply'[q] = "ok"
  PROVE  lock'[work[q].inst] = work[q].tenant
<1>1. work[q] \in Request /\ work[q].inst \in Installation
  BY RequestFields DEF CommitApproval, TypedInv, Handling, Binding
<1> QED
  BY <1>1 DEF CommitApproval, Answer, TypedInv, TenantTypeOK

LEMMA Next_Locked == TypedInv /\ Locked /\ [TenantNext]_tcvars => Locked'
<1> SUFFICES ASSUME TypedInv, Locked, [TenantNext]_tcvars PROVE Locked'
  OBVIOUS
<1>1. CASE UNCHANGED tcvars
  BY <1>1 DEF Locked, ApprovalExclusive, tcvars, bound
<1>2. \A t \in Tenant : row[t] \in Config => row'[t] \in Config
  <2>1. ASSUME NEW q \in Req, Quiet(q) PROVE UNCHANGED row
    BY <2>1, QuietSteps
  <2>2. ASSUME NEW q \in Req, ResetRow(q), NEW t \in Tenant, row[t] \in Config
        PROVE  row'[t] \in Config
    BY <2>2, DefaultTyped DEF ResetRow, Write, TypedInv, TenantTypeOK
  <2>3. ASSUME NEW q \in Req, Writes(q), NEW t \in Tenant, row[t] \in Config
        PROVE  row'[t] \in Config
    BY <2>3, WriteSteps DEF WriteMerged, Write, TypedInv, TenantTypeOK
  <2> QED
    BY <1>1, <2>1, <2>2, <2>3, NextSteps DEF tcvars
<1>3. \A q \in Req : work'[q].kind = "approve" =>
                       work'[q].tenant \in Tenant /\ work'[q].inst \in Installation
  <2> SUFFICES ASSUME NEW q \in Req, work'[q].kind = "approve"
               PROVE  work'[q].tenant \in Tenant /\ work'[q].inst \in Installation
    OBVIOUS
  <2>1. work'[q] \in Request \/ work'[q] = Idle
    BY Next_Typed DEF TypedInv, TenantTypeOK
  <2>2. work'[q] # Idle
    BY DEF Idle
  <2> QED
    BY <2>1, <2>2, RequestFields DEF Binding
<1>4. \A q \in Req : reply'[q] = "ok" => pc'[q] = "done"
  BY Next_Typed DEF TypedInv, Handling
<1>5. \A i \in Installation : lock'[i] # None => row'[lock'[i]] \in Config
  <2> SUFFICES ASSUME NEW i \in Installation, lock'[i] # None PROVE row'[lock'[i]] \in Config
    OBVIOUS
  <2>1. CASE lock[i] # None
    BY <1>2, <2>1, LockStays DEF Locked, TypedInv, TenantTypeOK
  <2>2. CASE lock[i] = None
    <3>1. PICK q \in Req : Writes(q)
      <4>1. ASSUME NEW q \in Req, Quiet(q) \/ ResetRow(q) PROVE UNCHANGED lock
        BY <4>1, QuietSteps DEF ResetRow, bound
      <4> QED
        BY <1>1, <2>2, <4>1, NextSteps DEF tcvars, bound
    <3>2. lock'[i] = work[q].tenant
      BY <2>2, <3>1, WriteSteps DEF TypedInv, TenantTypeOK
    <3> QED
      BY <1>2, <3>1, <3>2, WriteSteps
  <2> QED
    BY <2>1, <2>2
<1>6. ApprovalExclusive'
  <2> SUFFICES ASSUME NEW p \in Req, work'[p].kind = "approve", reply'[p] = "ok"
               PROVE  lock'[work'[p].inst] = work'[p].tenant
    BY DEF ApprovalExclusive
  <2>1. CASE reply[p] = "ok"
    <3>1. work'[p] = work[p]
      <4>1. pc[p] = "done"
        BY <2>1 DEF Locked
      <4>2. ASSUME NEW q \in Req, ResetRow(q) PROVE work' = work
        BY <4>2 DEF ResetRow
      <4> QED
        BY <1>1, <4>1, <4>2, QuietSteps, WriteSteps, NextSteps DEF tcvars
    <3>2. lock[work[p].inst] = work[p].tenant /\ lock[work[p].inst] # None
      BY <2>1, <3>1, TenantAssumption DEF Locked, ApprovalExclusive
    <3> QED
      BY <3>1, <3>2, LockStays DEF Locked
  <2>2. CASE reply[p] # "ok"
    <3>1. ~ UNCHANGED tcvars
      BY <2>2 DEF tcvars
    <3>2. ASSUME NEW q \in Req, Quiet(q), q = p PROVE FALSE
      <4> USE DEF Goto, Answer, TypedInv, TenantTypeOK, Handling
      <4>1. CASE Begin(p) \/ ReadRow(p) \/ CheckOwner(p) \/ StoreToken(p) \/ Abandon(p)
        BY <2>2, <4>1 DEF Begin, ReadRow, CheckOwner, StoreToken, Abandon
      <4>2. CASE MapWorkspace(p)
        <5>1. work'[p].kind = "install"
          BY <4>2 DEF MapWorkspace, TypedInv, Handling
        <5> QED
          BY <5>1
      <4> QED
        BY <3>2, <4>1, <4>2 DEF Quiet
    <3>3. ASSUME NEW q \in Req, q # p, Quiet(q) \/ ResetRow(q) \/ Writes(q) PROVE FALSE
      BY <2>2, <3>3, QuietSteps, WriteSteps DEF ResetRow
    <3>4. ASSUME ResetRow(p) PROVE FALSE
      BY <2>2, <3>4 DEF ResetRow
    <3>5. CASE Writes(p)
      <4>1. CommitApproval(p) /\ work'[p] = work[p]
        BY <3>5, WriteSteps DEF Writes, CommitPatch, Unguarded, Patches
      <4> QED
        BY <4>1, ApprovalConfirmed
    <3> QED
      BY <3>1, <3>2, <3>3, <3>4, <3>5, NextSteps
  <2> QED
    BY <2>1, <2>2
<1> QED
  BY <1>3, <1>4, <1>5, <1>6 DEF Locked

LEMMA LockedInvariant == TenantSpec => []Locked
  BY Init_Locked, Next_Locked, TypedInvariant, PTL DEF TenantSpec

\* An approval that was confirmed stays: the transaction never takes an
\* installation from the tenant that holds its lock row (tenant_write.py).
THEOREM ApprovalStays == TenantSpec => []ApprovalExclusive
<1>1. Locked => ApprovalExclusive
  BY DEF Locked
<1> QED
  BY <1>1, LockedInvariant, PTL

-----------------------------------------------------------------------------
\* The request goes on with a config it read.
HasRead(q) == pc[q] = "write" \/ (pc[q] = "owner" /\ work[q].kind = "warm_start")

\* A warm start goes on only with its own installation.
WarmReads ==
  \A q \in Req : HasRead(q) /\ work[q].kind = "warm_start" => got[q].inst = work[q].inst

\* What a config says its tenant holds, the tenant locked or held before locks.
Own(t, c) == c \in Config /\ c.inst # None => t \in legacy \/ lock[c.inst] = t

OwnNext(t, c) == c \in Config /\ c.inst # None => t \in legacy \/ lock'[c.inst] = t

Owned ==
  /\ legacy \subseteq Tenant
  /\ \A t \in Tenant : Own(t, row[t]) /\ Own(t, prev[t])
  /\ \A q \in Req : HasRead(q) => Own(work[q].tenant, got[q])

LEMMA QuietReads ==
  ASSUME TypedInv, NEW q \in Req, Quiet(q), NEW p \in Req, HasRead(p)'
  PROVE  /\ work'[p] = work[p]
         /\ \/ HasRead(p) /\ got'[p] = got[p]
            \/ /\ ReadRow(p)
               /\ got'[p] \in {row[work[p].tenant], prev[work[p].tenant]}
               /\ work[p].kind = "warm_start" => got'[p].inst = work[p].inst
<1>1. CASE p # q
  BY <1>1, QuietSteps DEF HasRead
<1>2. CASE p = q
  <2> USE DEF HasRead, TypedInv, TenantTypeOK, Goto, Answer, bound
  <2>1. CASE Begin(q)
    BY <1>2, <2>1 DEF Begin, FirstStep
  <2>2. CASE ReadRow(q)
    BY <1>2, <2>2 DEF ReadRow, Accepts
  <2>3. CASE CheckOwner(q)
    BY <1>2, <2>3 DEF CheckOwner
  <2>4. CASE StoreToken(q) \/ MapWorkspace(q) \/ Abandon(q)
    BY <1>2, <2>4 DEF StoreToken, MapWorkspace, Abandon
  <2> QED
    BY <2>1, <2>2, <2>3, <2>4 DEF Quiet
<1> QED
  BY <1>1, <1>2

\* The steps that are not quiet change nothing of what the others have read.
LEMMA LoudReads ==
  ASSUME TypedInv, NEW q \in Req, ResetRow(q) \/ Writes(q), NEW p \in Req, HasRead(p)'
  PROVE  HasRead(p) /\ UNCHANGED <<work, got>> /\ p # q
<1>1. CASE ResetRow(q)
  BY <1>1 DEF ResetRow, HasRead, Goto, TypedInv, TenantTypeOK
<1>2. CASE Writes(q)
  BY <1>2, WriteSteps DEF HasRead
<1> QED
  BY <1>1, <1>2

LEMMA SameReads ==
  ASSUME UNCHANGED tcvars, NEW p \in Req, HasRead(p)'
  PROVE  HasRead(p) /\ UNCHANGED <<work, got>>
  BY DEF HasRead, tcvars

LEMMA Init_Owned == TenantInit => Owned /\ WarmReads
<1> SUFFICES ASSUME TenantInit PROVE Owned /\ WarmReads
  OBVIOUS
<1>1. \A q \in Req : ~ HasRead(q)
  BY DEF TenantInit, HasRead
<1>2. \A t \in Tenant : Own(t, row[t]) /\ Own(t, prev[t])
  BY RowIsNot DEF TenantInit, Own
<1>3. legacy \subseteq Tenant
  BY DEF TenantInit
<1> QED
  BY <1>1, <1>2, <1>3 DEF Owned, WarmReads

LEMMA Next_Warm == TypedInv /\ WarmReads /\ [TenantNext]_tcvars => WarmReads'
<1> SUFFICES ASSUME TypedInv, WarmReads, [TenantNext]_tcvars, NEW p \in Req,
                    HasRead(p)', work'[p].kind = "warm_start"
             PROVE  got'[p].inst = work'[p].inst
  BY DEF WarmReads
<1>1. CASE UNCHANGED tcvars
  BY <1>1, SameReads DEF WarmReads
<1>2. ASSUME NEW q \in Req, Quiet(q) PROVE got'[p].inst = work'[p].inst
  BY <1>2, QuietReads DEF WarmReads
<1>3. ASSUME NEW q \in Req, ResetRow(q) \/ Writes(q) PROVE got'[p].inst = work'[p].inst
  BY <1>3, LoudReads DEF WarmReads
<1> QED
  BY <1>1, <1>2, <1>3, NextSteps

\* The installation a write leaves in the row.
LEMMA WrittenInst ==
  ASSUME TypedInv, WarmReads, NEW q \in Req, Writes(q), WriteMerged(q)
  PROVE  /\ row'[work[q].tenant] = Effect(q, got[q])
         /\ prev'[work[q].tenant] = row[work[q].tenant]
         /\ \A t \in Tenant \ {work[q].tenant} : row'[t] = row[t] /\ prev'[t] = prev[t]
         /\ row'[work[q].tenant].inst =
              IF work[q].kind = "approve" THEN work[q].inst ELSE got[q].inst
<1>1. pc[q] = "write" /\ got[q] \in Config /\ work[q].tenant \in Tenant
  BY WriteSteps
<1>2. row'[work[q].tenant] = Effect(q, got[q])
  BY <1>1 DEF WriteMerged, Write, TypedInv, TenantTypeOK
<1>3. prev'[work[q].tenant] = row[work[q].tenant]
  BY <1>1 DEF WriteMerged, Write, TypedInv, TenantTypeOK
<1>4. \A t \in Tenant \ {work[q].tenant} : row'[t] = row[t] /\ prev'[t] = prev[t]
  BY DEF WriteMerged, Write, TypedInv, TenantTypeOK
<1>5. work[q].kind = "warm_start" => got[q].inst = work[q].inst
  BY <1>1 DEF WarmReads, HasRead
<1> QED
  BY <1>1, <1>2, <1>3, <1>4, <1>5, EffectInst DEF Binding

LEMMA Next_Owned ==
  TypedInv /\ Locked /\ WarmReads /\ Owned /\ [TenantNext]_tcvars => Owned'
<1> SUFFICES ASSUME TypedInv, Locked, WarmReads, Owned, [TenantNext]_tcvars
             PROVE  Owned'
  OBVIOUS
<1>0. legacy' = legacy /\ legacy \subseteq Tenant
  BY NextSteps, QuietSteps, WriteSteps DEF ResetRow, tcvars, Owned
<1>1. ASSUME NEW t \in Tenant, NEW c, Own(t, c) PROVE OwnNext(t, c)
  BY <1>1, LockStays, TenantAssumption DEF Own, OwnNext, Config
<1>6. ASSUME \A t \in Tenant : OwnNext(t, row'[t]) /\ OwnNext(t, prev'[t]),
             \A q \in Req : HasRead(q)' => OwnNext(work'[q].tenant, got'[q])
      PROVE  Owned'
  <2>1. Config' = Config
    BY DEF Config, Value
  <2> QED
    BY <1>0, <1>6, <2>1 DEF Owned, Own, OwnNext
<1>2. CASE UNCHANGED tcvars
  BY <1>2 DEF Owned, Own, HasRead, tcvars, bound
<1>3. ASSUME NEW q \in Req, Quiet(q) PROVE Owned'
  <2>1. UNCHANGED <<row, prev, lock>>
    BY <1>3, QuietSteps
  <2>2. ASSUME NEW p \in Req, HasRead(p)' PROVE OwnNext(work'[p].tenant, got'[p])
    <3>1. CASE HasRead(p) /\ got'[p] = got[p] /\ work'[p] = work[p]
      <4>1. work[p].tenant \in Tenant
        BY <3>1, RequestFields DEF HasRead, TypedInv, Handling
      <4> QED
        BY <1>1, <3>1, <4>1 DEF Owned
    <3>2. CASE /\ ReadRow(p) /\ work'[p] = work[p]
               /\ got'[p] \in {row[work[p].tenant], prev[work[p].tenant]}
      <4>1. work[p].tenant \in Tenant
        BY <3>2, RequestFields DEF ReadRow, TypedInv, Handling
      <4> QED
        BY <1>1, <3>2, <4>1 DEF Owned
    <3> QED
      BY <1>3, <2>2, <3>1, <3>2, QuietReads
  <2>3. \A t \in Tenant : OwnNext(t, row'[t]) /\ OwnNext(t, prev'[t])
    BY <1>1, <2>1 DEF Owned
  <2> QED
    BY <1>6, <2>2, <2>3
<1>4. ASSUME NEW q \in Req, ResetRow(q) PROVE Owned'
  <2>1. work[q].tenant \in Tenant
    BY <1>4, RequestFields DEF ResetRow, TypedInv, Handling
  <2>2. UNCHANGED <<lock, legacy>>
    BY <1>4 DEF ResetRow, bound
  <2>3. \A t \in Tenant : /\ row'[t] = Default \/ row'[t] = row[t]
                          /\ prev'[t] \in {row[t], prev[t]}
    BY <1>4, <2>1 DEF ResetRow, Write, TypedInv, TenantTypeOK
  <2>4. \A t \in Tenant : OwnNext(t, row'[t]) /\ OwnNext(t, prev'[t])
    BY <2>2, <2>3 DEF Owned, Own, OwnNext, Default
  <2>5. \A p \in Req : HasRead(p)' => OwnNext(work'[p].tenant, got'[p])
    BY <1>4, <2>2, LoudReads DEF Owned, Own, OwnNext
  <2> QED
    BY <1>6, <2>4, <2>5
<1>5. ASSUME NEW q \in Req, Writes(q) PROVE Owned'
  <2>1. \A p \in Req : HasRead(p)' => Own(work[p].tenant, got[p]) /\ work[p].tenant \in Tenant
    BY <1>5, LoudReads, RequestFields DEF Owned, HasRead, TypedInv, Handling
  <2>2. \A p \in Req : HasRead(p)' => OwnNext(work'[p].tenant, got'[p])
    BY <1>1, <1>5, <2>1, LoudReads
  <2>3. CASE UNCHANGED <<row, prev, lock>>
    <3>1. \A t \in Tenant : OwnNext(t, row'[t]) /\ OwnNext(t, prev'[t])
      BY <1>1, <2>3 DEF Owned
    <3> QED
      BY <1>6, <2>2, <3>1
  <2>4. CASE /\ WriteMerged(q)
             /\ work[q].kind = "approve" => lock'[work[q].inst] = work[q].tenant
    <3>1. \A t \in Tenant \ {work[q].tenant} : OwnNext(t, row'[t]) /\ OwnNext(t, prev'[t])
      BY <1>1, <1>5, <2>4, WrittenInst DEF Owned
    <3>2. /\ OwnNext(work[q].tenant, row[work[q].tenant])
          /\ OwnNext(work[q].tenant, got[q]) /\ got[q] \in Config
      BY <1>1, <1>5, WriteSteps DEF Owned, HasRead
    <3>3. OwnNext(work[q].tenant, prev'[work[q].tenant])
      BY <1>5, <2>4, <3>2, WrittenInst
    <3>4. OwnNext(work[q].tenant, row'[work[q].tenant])
      BY <1>5, <2>4, <3>2, WrittenInst DEF OwnNext
    <3>5. \A t \in Tenant : OwnNext(t, row'[t]) /\ OwnNext(t, prev'[t])
      BY <3>1, <3>3, <3>4
    <3> QED
      BY <1>6, <2>2, <3>5
  <2>5. work[q].kind = "approve" => work[q].inst \in Installation
    BY <1>5, WriteSteps, RequestFields DEF Binding
  <2> QED
    BY <1>5, <2>3, <2>4, <2>5, WriteSteps DEF TypedInv, TenantTypeOK
<1> QED
  BY <1>2, <1>3, <1>4, <1>5, NextSteps

-----------------------------------------------------------------------------
\* A tenant whose row was wiped or overwritten with something older.
Excused(t) == t \in reset \/ \E p \in stale : work[p].kind \in Unguarded /\ work[p].tenant = t

\* The row of any other tenant names the installation it locked.
Bound ==
  \A t \in Tenant : ~ Excused(t) =>
    \A i \in Installation : lock[i] = t => row[t].inst = i

LEMMA Init_Bound == TenantInit => Bound
  BY TenantAssumption DEF TenantInit, Bound

LEMMA Next_Bound ==
  TypedInv /\ Locked /\ Accounted /\ WarmReads /\ Bound /\ [TenantNext]_tcvars => Bound'
<1> SUFFICES ASSUME TypedInv, Locked, Accounted, WarmReads, Bound, [TenantNext]_tcvars,
                    NEW t \in Tenant, ~ Excused(t)', NEW i \in Installation, lock'[i] = t
             PROVE  row'[t].inst = i
  BY DEF Bound
<1>0. stale \subseteq Req
  BY DEF TypedInv, TenantTypeOK
<1>1. CASE UNCHANGED tcvars
  BY <1>1 DEF Bound, Excused, tcvars, bound, ghost
<1>2. ASSUME NEW q \in Req, Quiet(q) PROVE row'[t].inst = i
  <2>1. ~ Excused(t)
    BY <1>0, <1>2, QuietSteps DEF Excused, Accounted, ghost
  <2> QED
    BY <1>2, <2>1, QuietSteps DEF Bound
<1>3. ASSUME NEW q \in Req, ResetRow(q) PROVE row'[t].inst = i
  <2>1. row[t] \in Config
    BY <1>3, TenantAssumption DEF ResetRow, bound, Locked
  <2>2. t # work[q].tenant
    BY <1>3, <2>1, RowIsNot DEF ResetRow, Excused
  <2>3. work[q].tenant \in Tenant
    BY <1>3, RequestFields DEF ResetRow, TypedInv, Handling
  <2>4. ~ Excused(t)
    BY <1>0, <1>3, <2>2 DEF ResetRow, Excused
  <2>5. row'[t] = row[t] /\ lock'[i] = lock[i]
    BY <1>3, <2>2, <2>3 DEF ResetRow, Write, TypedInv, TenantTypeOK, bound
  <2> QED
    BY <2>4, <2>5 DEF Bound
<1>4. ASSUME NEW q \in Req, Writes(q) PROVE row'[t].inst = i
  <2>1. ~ Excused(t)
    <3>1. stale \subseteq stale' /\ UNCHANGED <<work, reset>>
      BY <1>4, WriteSteps
    <3> QED
      BY <3>1 DEF Excused
  <2>2. CASE UNCHANGED <<row, lock>>
    BY <2>1, <2>2 DEF Bound
  <2>3. CASE WriteMerged(q) /\ t # work[q].tenant
    <3>1. lock[i] = t
      BY <1>4, <2>3, WriteSteps DEF TypedInv, TenantTypeOK
    <3> QED
      BY <1>4, <2>1, <2>3, <3>1, WrittenInst DEF Bound
  <2>4. CASE /\ WriteMerged(q) /\ t = work[q].tenant /\ work[q].kind # "approve"
             /\ UNCHANGED lock
             /\ row[t] = got[q] \/ (q \in stale' /\ work[q].kind \in Unguarded)
    <3>1. row[t] = got[q]
      BY <1>4, <2>4, WriteSteps DEF Excused
    <3> QED
      BY <1>4, <2>1, <2>4, <3>1, WrittenInst DEF Bound
  <2>5. CASE /\ WriteMerged(q) /\ t = work[q].tenant /\ work[q].kind = "approve"
             /\ RowFree(q) /\ lock' = [lock EXCEPT ![work[q].inst] = t]
    <3>1. row'[t].inst = work[q].inst
      BY <1>4, <2>5, WrittenInst
    <3>2. CASE lock[i] = t
      BY <2>1, <2>5, <3>1, <3>2, TenantAssumption DEF Bound, RowFree
    <3>3. CASE lock[i] # t
      BY <2>5, <3>1, <3>3 DEF TypedInv, TenantTypeOK
    <3> QED
      BY <3>2, <3>3
  <2> QED
    BY <1>4, <2>2, <2>3, <2>4, <2>5, WriteSteps DEF Unguarded
<1> QED
  BY <1>1, <1>2, <1>3, <1>4, NextSteps

LEMMA BoundInvariant == TenantSpec => [](WarmReads /\ Owned /\ Bound)
<1>1. TenantInit => WarmReads /\ Owned /\ Bound
  BY Init_Owned, Init_Bound
<1>2. TypedInv /\ Locked /\ Accounted /\ (WarmReads /\ Owned /\ Bound) /\ [TenantNext]_tcvars
        => (WarmReads /\ Owned /\ Bound)'
  BY Next_Warm, Next_Owned, Next_Bound
<1> QED
  BY <1>1, <1>2, TypedInvariant, LockedInvariant, AccountedInvariant, PTL DEF TenantSpec

\* A tenant gets a second installation only after a reinstallation or an
\* unconditional write has taken the first one from its row (tenant_write.py,
\* api.py).
THEOREM BindingIsFinal == TenantSpec => []BindingFinal
<1>1. Bound => BindingFinal
  BY DEF Bound, BindingFinal, Excused, Overwritten
<1> QED
  BY <1>1, BoundInvariant, PTL

-----------------------------------------------------------------------------
\* As long as nobody is installed again: a tenant bound before there were locks
\* keeps its installation, and no approval gives it to another tenant.
OldKept(u) ==
  /\ row[u] \in Config /\ row[u].inst \in Installation
  /\ prev[u] \in Config /\ prev[u].inst = row[u].inst
  /\ lock[row[u].inst] \in {None, u}
  /\ \A q \in Req :
       /\ HasRead(q) /\ work[q].tenant = u => got[q].inst = row[u].inst
       /\ (/\ pc[q] \in {"read", "write"} /\ work[q].kind = "approve"
           /\ work[q].inst = row[u].inst) => work[q].tenant = u

Old == reset = {} => \A u \in legacy : OldKept(u)

LEMMA Init_Old == TenantInit => Old
<1> SUFFICES ASSUME TenantInit, NEW u \in legacy PROVE OldKept(u)
  BY DEF Old
<1>1. u \in Tenant /\ row[u] # NoRow /\ row[u].inst # None /\ prev = row
  BY DEF TenantInit
<1>2. row[u] \in Config
  BY <1>1, DefaultTyped DEF TenantInit
<1>3. row[u].inst \in Installation
  BY <1>1, <1>2 DEF Config
<1> QED
  BY <1>1, <1>2, <1>3 DEF TenantInit, OldKept, HasRead

LEMMA Next_Old ==
  TypedInv /\ Locked /\ WarmReads /\ Owned /\ Old /\ [TenantNext]_tcvars => Old'
<1> SUFFICES ASSUME TypedInv, Locked, WarmReads, Owned, Old, [TenantNext]_tcvars,
                    reset' = {}, NEW u \in legacy'
             PROVE  OldKept(u)'
  BY DEF Old
<1>0. legacy' = legacy /\ u \in Tenant
  BY NextSteps, QuietSteps, WriteSteps DEF ResetRow, tcvars, Owned
<1>1. CASE UNCHANGED tcvars
  BY <1>0, <1>1 DEF Old, OldKept, Config, Value, HasRead, tcvars, bound, ghost
<1>2. Config' = Config
  BY DEF Config, Value
<1>3. ASSUME NEW q \in Req, Quiet(q) PROVE OldKept(u)'
  <2>1. UNCHANGED <<row, prev, lock, reset>> /\ OldKept(u)
    BY <1>0, <1>3, QuietSteps DEF Old, ghost
  <2>2. ASSUME NEW p \in Req, HasRead(p)', work'[p].tenant = u PROVE got'[p].inst = row[u].inst
    BY <1>3, <2>1, <2>2, QuietReads DEF OldKept
  <2>3. ASSUME NEW p \in Req, pc'[p] \in {"read", "write"}, work'[p].kind = "approve",
               work'[p].inst = row[u].inst
        PROVE  work'[p].tenant = u
    <3>1. CASE pc[p] \in {"read", "write"} /\ work'[p] = work[p]
      BY <2>1, <2>3, <3>1 DEF OldKept
    <3>2. CASE pc[p] = "owner" /\ work'[p] = work[p] /\ Owners(work[p].inst) \subseteq {work[p].tenant}
      <4>1. u \in Owners(work[p].inst)
        BY <1>0, <2>1, <2>3, <3>2, RowIsNot DEF Owners, OldKept
      <4> QED
        BY <3>2, <4>1
    <3>3. \/ pc[p] \in {"read", "write"} /\ work'[p] = work[p]
          \/ pc[p] = "owner" /\ work'[p] = work[p] /\ Owners(work[p].inst) \subseteq {work[p].tenant}
      <4>1. CASE p # q
        BY <1>3, <2>3, <4>1, QuietSteps
      <4>2. CASE p = q
        <5> USE DEF TypedInv, TenantTypeOK, Goto, Answer, bound
        <5>1. CASE Begin(q)
          BY <2>3, <4>2, <5>1 DEF Begin, FirstStep
        <5>2. CASE ReadRow(q)
          BY <2>3, <4>2, <5>2 DEF ReadRow
        <5>3. CASE CheckOwner(q)
          BY <2>3, <4>2, <5>3 DEF CheckOwner
        <5>4. CASE StoreToken(q) \/ MapWorkspace(q) \/ Abandon(q)
          BY <2>3, <4>2, <5>4 DEF StoreToken, MapWorkspace, Abandon
        <5> QED
          BY <1>3, <5>1, <5>2, <5>3, <5>4 DEF Quiet
      <4> QED
        BY <4>1, <4>2
    <3> QED
      BY <3>1, <3>2, <3>3
  <2> QED
    BY <1>2, <2>1, <2>2, <2>3 DEF OldKept
<1>4. ASSUME NEW q \in Req, ResetRow(q) PROVE OldKept(u)'
  <2>1. reset = {} /\ row[work[q].tenant] = NoRow /\ work[q].tenant \in Tenant
    BY <1>4, RequestFields DEF ResetRow, TypedInv, TenantTypeOK, Handling
  <2>2. OldKept(u) /\ u # work[q].tenant
    BY <1>0, <2>1, RowIsNot DEF Old, OldKept
  <2>3. row'[u] = row[u] /\ prev'[u] = prev[u] /\ UNCHANGED <<lock, work, got>>
    BY <1>0, <1>4, <2>1, <2>2 DEF ResetRow, Write, TypedInv, TenantTypeOK, bound
  <2>4. \A p \in Req : pc'[p] \in {"read", "write"} => pc[p] = pc'[p]
    BY <1>4 DEF ResetRow, Goto, TypedInv, TenantTypeOK
  <2> QED
    BY <1>2, <1>4, <2>2, <2>3, <2>4, LoudReads DEF OldKept
<1>5. ASSUME NEW q \in Req, Writes(q) PROVE OldKept(u)'
  <2>1. OldKept(u) /\ UNCHANGED <<work, got>>
    BY <1>0, <1>5, WriteSteps DEF Old
  <2>2. \A p \in Req : pc'[p] \in {"read", "write"} => pc[p] \in {"read", "write"}
    BY <1>5, WriteSteps
  <2>3. CASE UNCHANGED <<row, prev, lock>>
    BY <1>2, <1>5, <2>1, <2>2, <2>3, LoudReads DEF OldKept
  <2>4. CASE WriteMerged(q)
    <3>1. row'[u] \in Config /\ row'[u].inst = row[u].inst
      <4>1. CASE u # work[q].tenant
        BY <1>0, <1>5, <2>1, <2>4, <4>1, WrittenInst DEF OldKept
      <4>2. CASE u = work[q].tenant /\ work[q].kind # "approve"
        BY <1>5, <2>1, <2>4, <4>2, WrittenInst, WriteSteps DEF OldKept, HasRead
      <4>3. CASE u = work[q].tenant /\ work[q].kind = "approve" /\ RowFree(q)
        BY <1>5, <2>1, <2>4, <4>3, WrittenInst, WriteSteps, TenantAssumption
        DEF OldKept, RowFree
      <4>4. CASE u = work[q].tenant /\ work[q].kind = "approve" /\ UNCHANGED row
        BY <2>1, <4>4 DEF OldKept
      <4> QED
        BY <1>5, <4>1, <4>2, <4>3, <4>4, WriteSteps
    <3>2. prev'[u] \in Config /\ prev'[u].inst = row[u].inst
      BY <1>0, <1>5, <2>1, <2>4, WrittenInst DEF OldKept
    <3>3. lock'[row[u].inst] \in {None, u}
      BY <1>5, <2>1, <2>4, WriteSteps DEF OldKept, TypedInv, TenantTypeOK
    <3> QED
      BY <1>2, <1>5, <2>1, <2>2, <3>1, <3>2, <3>3, LoudReads DEF OldKept
  <2> QED
    BY <1>5, <2>3, <2>4, WriteSteps
<1> QED
  BY <1>1, <1>3, <1>4, <1>5, NextSteps

LEMMA OldInvariant == TenantSpec => []Old
  BY Init_Old, Next_Old, TypedInvariant, LockedInvariant, BoundInvariant, PTL DEF TenantSpec

\* Two tenants never hold one installation, whatever stale configs are written
\* back, unless both held it before there were lock rows or such a tenant was
\* installed again (tenant_write.py, api.py, github_install.py).
THEOREM HeldOnce == TenantSpec => []InstallationHeldOnce
<1>1. TypedInv /\ Owned /\ Old => InstallationHeldOnce
  <2> SUFFICES ASSUME TypedInv, Owned, Old, legacy = {} \/ reset = {},
                      NEW i \in Installation, NEW t \in Tenant, NEW u \in Tenant,
                      Holds(t, i), Holds(u, i)
               PROVE  t = u \/ {t, u} \subseteq legacy
    BY DEF InstallationHeldOnce
  <2>1. row[t] \in Config /\ row[u] \in Config /\ row[t].inst = i /\ row[u].inst = i
    BY DEF Holds, TypedInv, TenantTypeOK
  <2>2. (t \in legacy \/ lock[i] = t) /\ (u \in legacy \/ lock[i] = u)
    BY <2>1, TenantAssumption DEF Owned, Own
  <2>3. CASE t \notin legacy /\ u \in legacy
    <3>1. lock[i] \in {None, u}
      BY <2>1, <2>3 DEF Old, OldKept
    <3> QED
      BY <2>2, <2>3, <3>1, TenantAssumption
  <2>4. CASE t \in legacy /\ u \notin legacy
    <3>1. lock[i] \in {None, t}
      BY <2>1, <2>4 DEF Old, OldKept
    <3> QED
      BY <2>2, <2>4, <3>1, TenantAssumption
  <2> QED
    BY <2>2, <2>3, <2>4
<1> QED
  BY <1>1, TypedInvariant, BoundInvariant, OldInvariant, PTL

-----------------------------------------------------------------------------
(***************************************************************************)
(* The console's form.                                                     *)
(***************************************************************************)
AutoSaveSpec == AutoSaveInit /\ [][AutoSaveNext]_asvars

\* A form that was left starts no save; the last one is sent only then.
FormInv ==
  /\ mounted \in BOOLEAN
  /\ flushed # NoSave => ~ mounted
  /\ ~ mounted => timer = FALSE
  /\ FormHonest

\* A form on the page that tells of no error (useAutoSave) is right about what it
\* takes for saved, unless a save whose answer was lost lands after newer ones:
\* what it does not save for good (the finding) it does not take for saved.
THEOREM FormsAreHonest == AutoSaveSpec => []FormHonest
<1>1. AutoSaveInit => FormInv
  BY DEF AutoSaveInit, FormInv, FormHonest
<1>2. FormInv /\ [AutoSaveNext]_asvars => FormInv'
  <2> SUFFICES ASSUME FormInv, [AutoSaveNext]_asvars PROVE FormInv'
    OBVIOUS
  <2> USE DEF FormInv, FormHonest
  <2>1. ASSUME NEW e \in Edit, Change(e) PROVE FormInv'
    BY <2>1 DEF Change
  <2>2. CASE DoSave
    BY <2>2 DEF DoSave
  <2>3. CASE Saved
    BY <2>3 DEF Saved
  <2>4. ASSUME NEW e \in Edit, Land(e) PROVE FormInv'
    BY <2>4 DEF Land
  <2>5. CASE ClearStatus
    BY <2>5 DEF ClearStatus
  <2>6. CASE Leave
    BY <2>6 DEF Leave
  <2>7. CASE Flush
    BY <2>7 DEF Flush
  <2>8. CASE UNCHANGED asvars
    BY <2>8 DEF asvars
  <2> QED
    BY <2>1, <2>2, <2>3, <2>4, <2>5, <2>6, <2>7, <2>8 DEF AutoSaveNext
<1>3. FormInv => FormHonest
  BY DEF FormInv
<1> QED
  BY <1>1, <1>2, <1>3, PTL DEF AutoSaveSpec
=============================================================================
