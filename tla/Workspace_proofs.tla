-------------------------- MODULE Workspace_proofs --------------------------
(* What a workspace's installation leaves behind, whatever fails or is cut *)
(* off and however many workers, browsers, tabs, clicks and retries there  *)
(* are: the invariants of Workspace, by one inductive invariant.           *)
EXTENDS Workspace, TLAPS

\* A cookie and a session are of the browser their flow was started in, and the
\* callback goes on in that browser only.
SignIns ==
  /\ \A b \in Browser : cookie[b] # None =>
       flow[cookie[b]].home = b /\ flow[cookie[b]].at # "new"
  /\ \A b \in Browser : session[b] # None =>
       flow[session[b]].home = b /\ flow[session[b]].at # "new"
  /\ \A f \in Flow : flow[f].at \in {"exchange"} \cup Steps => flow[f].browser = flow[f].home

\* What the step an installation is at says of the stores, which never lose what
\* was written.
Writes ==
  /\ \A f \in Flow :
       /\ flow[f].at \in Steps => flow[f].token \in 1 .. issued
       /\ flow[f].at \in Steps \ {"row"} => row
       /\ flow[f].at \in {"mapping", "clear"} => secret # 0
       /\ flow[f].at = "clear" => mapped
       /\ flow[f].at \in {"exchange", "done"} \cup Steps => flow[f].worker \in Worker
  /\ mapped => row /\ secret # 0
  /\ secret <= issued
  /\ \A w \in Worker : tokens[w] <= issued

\* Whoever was let in, or dispatched, found the mapping.
Mapped ==
  /\ maps # {} => mapped
  /\ \A b \in Browser : session[b] # None => mapped
  /\ picker # None => mapped
  /\ \A p \in Press : job[p].at \in {"resolved", "tidied", "queued", "mute"} => mapped
  /\ \A j \in Job : job[j].at \in Handling \cup {"queued"} <=> job[j].worker \in Worker
  /\ \A p \in Press : job[p].at = "mute" => faults > 0 \/ issued > 1 \/ live = 0

\* One delivery of the reaction at most gets past the deduplication, but for those
\* that its failing write let through.
TakenUp(r) == job[r].at \notin {"new", "dropped"}
OnceOnly ==
  /\ ~marked => \A r \in Reaction : job[r].at = "new" \/ r \in open
  /\ \A r, s \in Reaction : TakenUp(r) /\ TakenUp(s) => r = s \/ r \in open \/ s \in open
  /\ \A x \in feedback : x[2].ours /\ x[2].own /\ job[x[1]].at = "answered"
  /\ \A x, y \in feedback : x[1] = y[1] => x = y

WInv ==
  /\ WorkspaceTypeOK
  /\ SignIns
  /\ Writes
  /\ Mapped
  /\ OnceOnly
  /\ OwnCacheFresh
  /\ PickWorkedOn

\* The two tables with their records.
Installation ==
  [at : {"new", "consent", "code", "exchange"} \cup Steps \cup Ends,
   home : Browser \cup {None}, browser : Browser \cup {None},
   worker : Worker \cup {None}, token : {0} \cup Token]
Work ==
  [at : {"new", "sent", "queued", "answered", "mute", "dropped", "lost"} \cup Handling,
   worker : Worker \cup {None}]

LEMMA RedirectTyped ==
  ASSUME WorkspaceTypeOK, NEW f \in Flow, NEW b \in Browser \cup {None}, NEW to \in Ends,
         Redirect(f, b, to)
  PROVE  flow' \in [Flow -> Installation] /\ cookie' \in [Browser -> Flow \cup {None}]
  <1>1. flow \in [Flow -> Installation] /\ cookie \in [Browser -> Flow \cup {None}]
    BY DEF WorkspaceTypeOK, Installation
  <1>2. /\ flow[f] \in Installation
        /\ flow' = [flow EXCEPT ![f] = [flow[f] EXCEPT !.at = to, !.browser = b]]
    BY <1>1 DEF Redirect
  <1>3. [flow[f] EXCEPT !.at = to, !.browser = b] \in Installation
    BY <1>2 DEF Installation
  <1> QED BY <1>1, <1>2, <1>3 DEF Redirect

LEMMA DoesTyped ==
  ASSUME WorkspaceTypeOK, NEW f \in Flow, NEW step \in {"row", "token", "mapping"},
         Does(f, step)
  PROVE  flow' \in [Flow -> Installation]
  <1>1. flow \in [Flow -> Installation]
    BY DEF WorkspaceTypeOK, Installation
  <1>2. After(step) \in Steps
    BY DEF After, Steps
  <1>3. [flow[f] EXCEPT !.at = After(step)] \in Installation
    BY <1>1, <1>2 DEF Installation
  <1>4. flow' = [flow EXCEPT ![f] = [flow[f] EXCEPT !.at = After(step)]]
    BY <1>1 DEF Does
  <1> QED BY <1>1, <1>3, <1>4

\* What becomes of a delivery that was taken up already is nothing to the rule.
LEMMA OnceOnlyKept ==
  ASSUME OnceOnly, \A x \in feedback : x[1] \in Reaction,
         marked' = marked, open' = open, feedback' = feedback,
         \A r \in Reaction : job'[r].at \notin {"new", "dropped"} => TakenUp(r),
         \A r \in Reaction : job[r].at \in {"new", "answered"} => job'[r] = job[r]
  PROVE  OnceOnly'
  <1>1. \A x \in feedback : x[2].ours /\ x[2].own /\ job'[x[1]].at = "answered"
    BY DEF OnceOnly
  <1>2. \A r, s \in Reaction : (TakenUp(r) /\ TakenUp(s))' => r = s \/ r \in open \/ s \in open
    BY DEF OnceOnly, TakenUp
  <1>3. ~marked => \A r \in Reaction : job'[r].at = "new" \/ r \in open
    BY DEF OnceOnly
  <1> QED BY <1>1, <1>2, <1>3 DEF OnceOnly

LEMMA WInit == WorkspaceInit => WInv
  <1> SUFFICES ASSUME WorkspaceInit PROVE WInv
    OBVIOUS
  <1> USE WorkspaceAssumption DEF WorkspaceInit, NewFlow, NewJob, Job, Token, Steps, Handling
  <1>1. WorkspaceTypeOK
    <2>1. flow \in [Flow -> Installation]
      BY DEF Installation
    <2>2. job \in [Job -> Work]
      BY DEF Work
    <2>3. /\ issued \in 0 .. MaxIssued /\ live \in {0, issued}
          /\ secret \in {0} \cup Token /\ storer \in Flow \cup {None}
          /\ tokens \in [Worker -> {0} \cup Token]
      OBVIOUS
    <2>4. /\ cookie \in [Browser -> Flow \cup {None}] /\ session \in [Browser -> Flow \cup {None}]
          /\ maps \subseteq Worker /\ old \subseteq Flow
          /\ feedback \subseteq Reaction \X Subjects \X {"answer", "both"}
      OBVIOUS
    <2>5. row \in BOOLEAN /\ mapped \in BOOLEAN /\ marked \in BOOLEAN
      OBVIOUS
    <2>6. picker \in Press \cup {None} /\ open \subseteq Reaction /\ faults \in 0 .. MaxFaults
      OBVIOUS
    <2> HIDE DEF WorkspaceInit
    <2> QED BY <2>1, <2>2, <2>3, <2>4, <2>5, <2>6 DEF WorkspaceTypeOK, Installation, Work
  <1>2. SignIns /\ Writes
    BY DEF SignIns, Writes
  <1>3. Mapped /\ OnceOnly
    BY DEF Mapped, OnceOnly, TakenUp
  <1>4. OwnCacheFresh /\ PickWorkedOn
    BY DEF OwnCacheFresh, PickWorkedOn
  <1> QED BY <1>1, <1>2, <1>3, <1>4 DEF WInv

(* One lemma for each action, one step for each part of the invariant. *)

LEMMA WInstall ==
  ASSUME WInv, NEW f \in Flow, NEW b \in Browser, Install(f, b)
  PROVE  WInv'
  <1> USE WorkspaceAssumption
     DEF WInv, WorkspaceTypeOK, Install, NewFlow, slackvars, stores, caches, tabs,
         inbound, Job, Token, Steps, Ends, Handling
  <1>1. WorkspaceTypeOK'
    OBVIOUS
  <1>2. SignIns'
    BY DEF SignIns
  <1>3. Writes'
    BY DEF Writes
  <1>4. Mapped'
    BY DEF Mapped, Writes
  <1>5. OnceOnly'
    BY DEF OnceOnly, TakenUp
  <1>6. OwnCacheFresh'
    BY DEF OwnCacheFresh
  <1>7. PickWorkedOn'
    BY DEF PickWorkedOn
  <1> QED BY <1>1, <1>2, <1>3, <1>4, <1>5, <1>6, <1>7

LEMMA WCallback ==
  ASSUME WInv, NEW f \in Flow, NEW b \in Browser, NEW w \in Worker, Callback(f, b, w)
  PROVE  WInv'
  <1> USE WorkspaceAssumption
     DEF WInv, WorkspaceTypeOK, Callback, Redirect, VerifyState, slackvars, stores,
         caches, tabs, inbound, Job, Token, Steps, Ends, Handling
  <1>1. WorkspaceTypeOK'
    OBVIOUS
  <1>a. /\ \A g \in Flow \ {f} : flow'[g] = flow[g]
        /\ flow[f].at = "code" /\ flow'[f].home = flow[f].home
        /\ UNCHANGED <<slackvars, stores, caches, session, inbound>>
    OBVIOUS
  <1>2. SignIns' /\ Writes' /\ flow'[f].at # "done"
    <2>b. CASE VerifyState(f, b)
      <3>1. /\ flow'[f].at = "exchange" /\ flow'[f].browser = b /\ flow'[f].worker = w
            /\ flow[f].home = b
        BY <2>b DEF SignIns
      <3>2. UNCHANGED cookie
        BY <2>b
      <3> HIDE DEF Callback, Redirect, VerifyState
      <3>3. SignIns'
        BY <1>a, <3>1, <3>2 DEF SignIns
      <3>4. Writes'
        BY <1>a, <3>1 DEF Writes
      <3> QED BY <3>1, <3>3, <3>4
    <2>c. CASE ~VerifyState(f, b)
      <3>1. flow'[f].at = "invalid_state"
        BY <2>c
      <3>2. \A c \in Browser : cookie'[c] \in {None, cookie[c]}
        BY <2>c
      <3> HIDE DEF Callback, Redirect, VerifyState
      <3>3. SignIns'
        BY <1>a, <3>1, <3>2 DEF SignIns
      <3>4. Writes'
        BY <1>a, <3>1 DEF Writes
      <3> QED BY <3>1, <3>3, <3>4
    <2> QED BY <2>b, <2>c
  <1>6. OwnCacheFresh'
    <2>1. storer \in Flow \cup {None} /\ OwnCacheFresh
      OBVIOUS
    <2> HIDE DEF WInv, WorkspaceTypeOK, Callback, Redirect, VerifyState
    <2>2. storer' = storer /\ secret' = secret /\ tokens' = tokens
      BY <1>a
    <2> QED BY <1>2, <1>a, <2>1, <2>2 DEF OwnCacheFresh
  <1>3. Mapped'
    BY DEF Mapped, Writes
  <1>4. OnceOnly'
    BY DEF OnceOnly, TakenUp
  <1>5. PickWorkedOn'
    BY DEF PickWorkedOn
  <1> QED BY <1>1, <1>2, <1>3, <1>4, <1>5, <1>6

LEMMA WConsent == ASSUME WInv, NEW f \in Flow, Consent(f) PROVE WInv'
  <1> USE WorkspaceAssumption
     DEF WInv, WorkspaceTypeOK, Consent, slackvars, stores, caches, tabs, inbound,
         Job, Token, Steps, Ends, Handling
  <1>1. WorkspaceTypeOK'
    OBVIOUS
  <1>2. SignIns'
    BY DEF SignIns
  <1>3. Writes'
    BY DEF Writes
  <1>4. Mapped'
    BY DEF Mapped, Writes
  <1>5. OnceOnly'
    BY DEF OnceOnly, TakenUp
  <1>6. OwnCacheFresh'
    BY DEF OwnCacheFresh
  <1>7. PickWorkedOn'
    BY DEF PickWorkedOn
  <1> QED BY <1>1, <1>2, <1>3, <1>4, <1>5, <1>6, <1>7

LEMMA WStateExpires == ASSUME WInv, NEW f \in Flow, StateExpires(f) PROVE WInv'
  <1> USE WorkspaceAssumption
     DEF WInv, WorkspaceTypeOK, StateExpires, slackvars, stores, caches, tabs,
         inbound, Job, Token, Steps, Ends, Handling
  <1>1. WorkspaceTypeOK'
    OBVIOUS
  <1>2. SignIns'
    BY DEF SignIns
  <1>3. Writes'
    BY DEF Writes
  <1>4. Mapped'
    BY DEF Mapped, Writes
  <1>5. OnceOnly'
    BY DEF OnceOnly, TakenUp
  <1>6. OwnCacheFresh'
    BY DEF OwnCacheFresh
  <1>7. PickWorkedOn'
    BY DEF PickWorkedOn
  <1> QED BY <1>1, <1>2, <1>3, <1>4, <1>5, <1>6, <1>7

LEMMA WExchange == ASSUME WInv, NEW f \in Flow, Exchange(f) PROVE WInv'
  <1> USE WorkspaceAssumption
     DEF WInv, WorkspaceTypeOK, Exchange, Redirect, Fault, NoFault, slackvars,
         stores, caches, tabs, inbound, Job, Token, Steps, Ends
  <1>0. flow' \in [Flow -> Installation] /\ cookie' \in [Browser -> Flow \cup {None}]
    <2>1. CASE /\ issued' \in Token /\ UNCHANGED cookie
               /\ flow' = [flow EXCEPT ![f].at = "row", ![f].token = issued']
      <3>1. [flow[f] EXCEPT !.at = "row", !.token = issued'] \in Installation
        BY <2>1 DEF Installation
      <3>2. flow' = [flow EXCEPT ![f] = [flow[f] EXCEPT !.at = "row", !.token = issued']]
        BY <2>1
      <3>3. flow \in [Flow -> Installation]
        BY DEF Installation
      <3> QED BY <2>1, <3>1, <3>2, <3>3
    <2>2. CASE Redirect(f, flow[f].browser, "exchange_failed")
      BY <2>2, RedirectTyped
    <2> QED BY <2>1, <2>2
  <1>b. \/ /\ issued' = IF live = 0 THEN issued + 1 ELSE issued
           /\ issued' \in Token /\ live' = issued' /\ faults' = faults
           /\ flow'[f].at = "row" /\ flow'[f].token = issued'
        \/ /\ issued' = issued /\ live' = live /\ faults' = faults + 1 /\ faults < MaxFaults
           /\ flow'[f].at = "exchange_failed"
    OBVIOUS
  <1>c. /\ \A g \in Flow \ {f} : flow'[g] = flow[g]
        /\ flow'[f].worker = flow[f].worker
        /\ UNCHANGED <<stores, caches, old, session, inbound>>
    OBVIOUS
  <1>1. WorkspaceTypeOK'
    <2>1. issued' \in 0 .. MaxIssued /\ live' \in {0, issued'} /\ faults' \in 0 .. MaxFaults
      BY <1>b
    <2> HIDE DEF Exchange, Redirect
    <2> QED BY <1>0, <1>c, <2>1 DEF Installation
  <1>2. SignIns'
    BY DEF SignIns
  <1>3. Writes'
    <2> HIDE DEF Exchange, Redirect
    <2>1. issued <= issued' /\ flow[f].worker \in Worker /\ flow[f].at = "exchange"
      BY <1>b DEF Exchange, Writes
    <2> QED BY <1>b, <1>c, <2>1 DEF Writes
  <1>4. Mapped'
    BY DEF Mapped, Writes
  <1>5. OnceOnly'
    BY DEF OnceOnly, TakenUp
  <1>6. OwnCacheFresh'
    BY DEF OwnCacheFresh
  <1>7. PickWorkedOn'
    BY DEF PickWorkedOn
  <1> QED BY <1>1, <1>2, <1>3, <1>4, <1>5, <1>6, <1>7

LEMMA WProvisioningFails ==
  ASSUME WInv, NEW f \in Flow, ProvisioningFails(f)
  PROVE  WInv'
  <1> USE WorkspaceAssumption
     DEF WInv, WorkspaceTypeOK, ProvisioningFails, Redirect, Fault, slackvars,
         stores, caches, tabs, inbound, Job, Token, Steps, Ends, Handling
  <1>0. flow' \in [Flow -> Installation] /\ cookie' \in [Browser -> Flow \cup {None}]
    BY RedirectTyped
  <1>1. WorkspaceTypeOK'
    BY <1>0 DEF Installation
  <1>2. SignIns'
    BY DEF SignIns
  <1>3. Writes'
    BY DEF Writes
  <1>4. Mapped'
    BY DEF Mapped, Writes
  <1>5. OnceOnly'
    BY DEF OnceOnly, TakenUp
  <1>6. OwnCacheFresh'
    BY DEF OwnCacheFresh
  <1>7. PickWorkedOn'
    BY DEF PickWorkedOn
  <1> QED BY <1>1, <1>2, <1>3, <1>4, <1>5, <1>6, <1>7

LEMMA WStoreRow == ASSUME WInv, NEW f \in Flow, StoreRow(f) PROVE WInv'
  <1> USE WorkspaceAssumption
     DEF WInv, WorkspaceTypeOK, StoreRow, Does, After, slackvars, stores, caches,
         tabs, inbound, Job, Token, Steps, Ends, Handling
  <1>0. flow' \in [Flow -> Installation]
    BY DoesTyped
  <1>1. WorkspaceTypeOK'
    BY <1>0 DEF Installation
  <1>2. SignIns'
    BY DEF SignIns
  <1>3. Writes'
    BY DEF Writes
  <1>4. Mapped'
    BY DEF Mapped, Writes
  <1>5. OnceOnly'
    BY DEF OnceOnly, TakenUp
  <1>6. OwnCacheFresh'
    BY DEF OwnCacheFresh
  <1>7. PickWorkedOn'
    BY DEF PickWorkedOn
  <1> QED BY <1>1, <1>2, <1>3, <1>4, <1>5, <1>6, <1>7

LEMMA WStoreBotToken == ASSUME WInv, NEW f \in Flow, StoreBotToken(f) PROVE WInv'
  <1> USE WorkspaceAssumption
     DEF WInv, WorkspaceTypeOK, StoreBotToken, Does, After, slackvars, stores,
         caches, tabs, inbound, Job, Token, Steps, Ends, Handling
  <1>0. flow' \in [Flow -> Installation]
    BY DoesTyped
  <1>1. WorkspaceTypeOK'
    BY <1>0 DEF Installation
  <1>2. SignIns'
    BY DEF SignIns
  <1>3. Writes'
    BY DEF Writes
  <1>4. Mapped'
    BY DEF Mapped, Writes
  <1>5. OnceOnly'
    BY DEF OnceOnly, TakenUp
  <1>6. OwnCacheFresh'
    BY DEF OwnCacheFresh
  <1>7. PickWorkedOn'
    BY DEF PickWorkedOn
  <1> QED BY <1>1, <1>2, <1>3, <1>4, <1>5, <1>6, <1>7

LEMMA WStoreMapping == ASSUME WInv, NEW f \in Flow, StoreMapping(f) PROVE WInv'
  <1> USE WorkspaceAssumption
     DEF WInv, WorkspaceTypeOK, StoreMapping, Does, After, slackvars, stores, caches,
         tabs, inbound, Job, Token, Steps, Ends, Handling
  <1>0. flow' \in [Flow -> Installation]
    BY DoesTyped
  <1>1. WorkspaceTypeOK'
    BY <1>0 DEF Installation
  <1>2. SignIns'
    BY DEF SignIns
  <1>3. Writes'
    BY DEF Writes
  <1>4. Mapped'
    BY DEF Mapped, Writes
  <1>5. OnceOnly'
    BY DEF OnceOnly, TakenUp
  <1>6. OwnCacheFresh'
    BY DEF OwnCacheFresh
  <1>7. PickWorkedOn'
    BY DEF PickWorkedOn
  <1> QED BY <1>1, <1>2, <1>3, <1>4, <1>5, <1>6, <1>7

LEMMA WFinish == ASSUME WInv, NEW f \in Flow, Finish(f) PROVE WInv'
  <1> USE WorkspaceAssumption
     DEF WInv, WorkspaceTypeOK, Finish, Redirect, Invalidated, slackvars, stores,
         caches, tabs, inbound, Job, Token, Steps, Ends, Handling
  <1>0. flow' \in [Flow -> Installation] /\ cookie' \in [Browser -> Flow \cup {None}]
    BY RedirectTyped
  <1>1. WorkspaceTypeOK'
    BY <1>0 DEF Installation
  <1>2. SignIns'
    BY DEF SignIns
  <1>3. Writes'
    BY DEF Writes
  <1>4. Mapped'
    BY DEF Mapped, Writes
  <1>5. OnceOnly'
    BY DEF OnceOnly, TakenUp
  <1>6. OwnCacheFresh'
    <2> SUFFICES ASSUME storer # None, flow'[storer].at = "done"
                 PROVE  tokens'[flow'[storer].worker] \in {0, secret}
      BY DEF OwnCacheFresh
    <2>1. /\ flow'[storer].worker = flow[storer].worker
          /\ storer # f => flow[storer].at = "done"
      OBVIOUS
    <2>2. storer # f => tokens[flow[storer].worker] \in {0, secret}
      BY <2>1 DEF OwnCacheFresh
    <2>3. storer \in Flow /\ flow[storer].at \in {"clear", "done"}
      OBVIOUS
    <2>4. flow[storer].worker \in Worker
      BY <2>3 DEF Writes
    <2> QED BY <2>1, <2>2, <2>4
  <1>7. PickWorkedOn'
    BY DEF PickWorkedOn
  <1> QED BY <1>1, <1>2, <1>3, <1>4, <1>5, <1>6, <1>7

LEMMA WUninstall == ASSUME WInv, Uninstall PROVE WInv'
  <1> USE WorkspaceAssumption
     DEF WInv, WorkspaceTypeOK, Uninstall, slackvars, stores, caches, tabs, inbound,
         Job, Token, Steps, Ends, Handling
  <1>1. WorkspaceTypeOK'
    OBVIOUS
  <1>2. SignIns'
    BY DEF SignIns
  <1>3. Writes'
    BY DEF Writes
  <1>4. Mapped'
    BY DEF Mapped, Writes
  <1>5. OnceOnly'
    BY DEF OnceOnly, TakenUp
  <1>6. OwnCacheFresh'
    BY DEF OwnCacheFresh
  <1>7. PickWorkedOn'
    BY DEF PickWorkedOn
  <1> QED BY <1>1, <1>2, <1>3, <1>4, <1>5, <1>6, <1>7

LEMMA WSessionExpires == ASSUME WInv, NEW b \in Browser, SessionExpires(b) PROVE WInv'
  <1> USE WorkspaceAssumption
     DEF WInv, WorkspaceTypeOK, SessionExpires, slackvars, stores, caches, tabs,
         inbound, Job, Token, Steps, Ends, Handling
  <1>1. WorkspaceTypeOK'
    OBVIOUS
  <1>2. SignIns'
    BY DEF SignIns
  <1>3. Writes'
    BY DEF Writes
  <1>4. Mapped'
    BY DEF Mapped, Writes
  <1>5. OnceOnly'
    BY DEF OnceOnly, TakenUp
  <1>6. OwnCacheFresh'
    BY DEF OwnCacheFresh
  <1>7. PickWorkedOn'
    BY DEF PickWorkedOn
  <1> QED BY <1>1, <1>2, <1>3, <1>4, <1>5, <1>6, <1>7

LEMMA WListChannels ==
  ASSUME WInv, NEW b \in Browser, NEW w \in Worker, ListChannels(b, w)
  PROVE  WInv'
  <1> USE WorkspaceAssumption
     DEF WInv, WorkspaceTypeOK, ListChannels, TokenGiven, Fault, NoFault, slackvars,
         stores, caches, tabs, inbound, Job, Token, Steps, Ends, Handling
  <1>1. WorkspaceTypeOK'
    OBVIOUS
  <1>2. SignIns'
    BY DEF SignIns
  <1>3. Writes'
    BY DEF Writes
  <1>4. Mapped'
    BY DEF Mapped, Writes
  <1>5. OnceOnly'
    BY DEF OnceOnly, TakenUp
  <1>6. OwnCacheFresh'
    <2> SUFFICES ASSUME storer # None, flow[storer].at = "done"
                 PROVE  tokens'[flow[storer].worker] \in {0, secret}
      BY DEF OwnCacheFresh
    <2>1. tokens[flow[storer].worker] \in {0, secret}
      BY DEF OwnCacheFresh
    <2>2. tokens' = tokens \/ tokens' = [tokens EXCEPT ![w] = secret]
      OBVIOUS
    <2>3. flow[storer].worker \in Worker
      BY DEF Writes
    <2> QED BY <2>1, <2>2, <2>3
  <1>7. PickWorkedOn'
    BY DEF PickWorkedOn
  <1> QED BY <1>1, <1>2, <1>3, <1>4, <1>5, <1>6, <1>7

LEMMA WPressButton == ASSUME WInv, NEW p \in Press, PressButton(p) PROVE WInv'
  <1> USE WorkspaceAssumption
     DEF WInv, WorkspaceTypeOK, PressButton, Becomes, slackvars, stores, caches,
         tabs, inbound, Job, Token, Steps, Ends, Handling
  <1>1. WorkspaceTypeOK'
    OBVIOUS
  <1>2. SignIns'
    BY DEF SignIns
  <1>3. Writes'
    BY DEF Writes
  <1>4. Mapped'
    BY DEF Mapped, Writes
  <1>5. OnceOnly'
    BY DEF OnceOnly, TakenUp
  <1>6. OwnCacheFresh'
    BY DEF OwnCacheFresh
  <1>7. PickWorkedOn'
    BY DEF PickWorkedOn
  <1> QED BY <1>1, <1>2, <1>3, <1>4, <1>5, <1>6, <1>7

LEMMA WInteraction ==
  ASSUME WInv, NEW p \in Press, NEW w \in Worker, Interaction(p, w) PROVE WInv'
  <1> USE WorkspaceAssumption
     DEF WInv, WorkspaceTypeOK, slackvars, stores, tabs, Job, Token, Steps, Handling
  <1>1. PICK how \in {"tenant", "unknown", "error"} :
          /\ Resolved(w, how)
          /\ CASE how = "tenant"  -> Becomes(p, "resolved", w)
               [] how = "unknown" -> Becomes(p, "dropped", None)
               [] how = "error"   -> UNCHANGED job
    BY DEF Interaction
  <1>2. /\ job[p].at = "sent" /\ p \in Job /\ p \notin Reaction
        /\ UNCHANGED <<slackvars, stores, tokens, tabs, picker, marked, open, feedback>>
    BY DEF Interaction
  <1>3. /\ maps' = maps \/ maps' = maps \cup {w}
        /\ faults' \in faults .. MaxFaults /\ faults' \in Nat
        /\ how = "tenant" \/ maps' # {} => mapped
        /\ how = "unknown" => ~mapped
    BY <1>1 DEF Resolved, Fault, NoFault, Mapped
  <1>4. PICK to \in {"resolved", "dropped", "sent"} :
          /\ job' = [job EXCEPT ![p] = job'[p]] /\ job'[p].at = to
          /\ to = "resolved" => job'[p].worker = w /\ how = "tenant"
          /\ job'[p].worker = IF to = "resolved" THEN w ELSE None
          /\ job'[p] \in Work
          /\ to = "dropped" => how = "unknown"
    <2>1. CASE how = "tenant"
      BY <1>1, <1>2, <2>1 DEF Becomes, Work
    <2>2. CASE how = "unknown"
      BY <1>1, <1>2, <2>2 DEF Becomes, Work
    <2>3. CASE how = "error"
      <3>1. job[p].worker = None
        BY <1>2 DEF Mapped
      <3> QED BY <1>1, <1>2, <2>3, <3>1 DEF Work
    <2> QED BY <2>1, <2>2, <2>3
  <1>6. WorkspaceTypeOK'
    <2>1. job' \in [Job -> Work]
      BY <1>4 DEF Work
    <2> QED BY <1>2, <1>3, <2>1 DEF Work
  <1>7. SignIns' /\ Writes' /\ OwnCacheFresh'
    BY <1>2 DEF SignIns, Writes, OwnCacheFresh
  <1>8. Mapped'
    BY <1>2, <1>3, <1>4 DEF Mapped
  <1>9. OnceOnly'
    <2>1. \A r \in Reaction : job'[r] = job[r]
      BY <1>2, <1>4
    <2> QED BY <1>2, <2>1 DEF OnceOnly, TakenUp
  <1>10. PickWorkedOn'
    <2>1. picker # None => mapped
      BY DEF Mapped
    <2>2. job'[p].at # "dropped" \/ picker = None
      BY <1>3, <1>4, <2>1
    <2> QED BY <1>2, <1>3, <1>4, <2>2 DEF PickWorkedOn
  <1> QED BY <1>6, <1>7, <1>8, <1>9, <1>10

LEMMA WTidy == ASSUME WInv, NEW p \in Press, Tidy(p) PROVE WInv'
  <1> USE WorkspaceAssumption
     DEF WInv, WorkspaceTypeOK, Tidy, AfterTidy, Becomes, slackvars, stores, caches,
         tabs, inbound, Job, Token, Steps, Ends, Handling
  <1>1. WorkspaceTypeOK'
    OBVIOUS
  <1>2. SignIns'
    BY DEF SignIns
  <1>3. Writes'
    BY DEF Writes
  <1>4. Mapped'
    BY DEF Mapped, Writes
  <1>5. OnceOnly'
    BY DEF OnceOnly, TakenUp
  <1>6. OwnCacheFresh'
    BY DEF OwnCacheFresh
  <1>7. PickWorkedOn'
    BY DEF PickWorkedOn
  <1> QED BY <1>1, <1>2, <1>3, <1>4, <1>5, <1>6, <1>7

LEMMA WQueue == ASSUME WInv, NEW p \in Press, Queue(p) PROVE WInv'
  <1> USE WorkspaceAssumption
     DEF WInv, WorkspaceTypeOK, Queue, Becomes, slackvars, stores, caches,
         tabs, inbound, Job, Token, Steps, Ends, Handling
  <1>1. WorkspaceTypeOK'
    OBVIOUS
  <1>2. SignIns'
    BY DEF SignIns
  <1>3. Writes'
    BY DEF Writes
  <1>4. Mapped'
    BY DEF Mapped, Writes
  <1>5. OnceOnly'
    BY DEF OnceOnly, TakenUp
  <1>6. OwnCacheFresh'
    BY DEF OwnCacheFresh
  <1>7. PickWorkedOn'
    BY DEF PickWorkedOn
  <1> QED BY <1>1, <1>2, <1>3, <1>4, <1>5, <1>6, <1>7

LEMMA WPick == ASSUME WInv, NEW p \in Press, Pick(p) PROVE WInv'
  <1> USE WorkspaceAssumption
     DEF WInv, WorkspaceTypeOK, Pick, TokenGiven, Becomes, Fault, NoFault, slackvars,
         stores, caches, tabs, inbound, Job, Token, Steps, Ends, Handling
  <1>1. WorkspaceTypeOK'
    OBVIOUS
  <1>2. SignIns'
    BY DEF SignIns
  <1>3. Writes'
    BY DEF Writes
  <1>4. Mapped'
    <2>1. mapped /\ secret # 0 /\ secret <= issued
      BY DEF Mapped, Writes
    <2>2. PICK t \in {0} \cup Token :
            TokenGiven(job[p].worker, t)
              /\ Becomes(p, IF t # 0 /\ t = live THEN "answered" ELSE "mute", None)
      OBVIOUS
    <2>3. t = 0 => faults' > 0
      BY <2>1, <2>2
    <2>4. t <= issued
      <3>1. job[p].worker \in Worker
        BY DEF Mapped
      <3>2. t \in {0, secret, tokens[job[p].worker]}
        BY <2>2
      <3> QED BY <2>1, <3>1, <3>2 DEF Writes
    <2>5. ~(t # 0 /\ t = live) => faults' > 0 \/ issued > 1 \/ live = 0
      <3>1. t \in Nat /\ issued \in Nat /\ live \in {0, issued}
        OBVIOUS
      <3> HIDE DEF WInv, WorkspaceTypeOK, Pick
      <3> QED BY ONLY <2>3, <2>4, <3>1
    <2>6. faults' >= faults
      BY <2>2
    <2>7. \A q \in Press \ {p} : job'[q] = job[q]
      BY <2>2
    <2>8. job'[p].at = IF t # 0 /\ t = live THEN "answered" ELSE "mute"
      BY <2>2
    <2> QED BY <2>1, <2>5, <2>6, <2>7, <2>8 DEF Mapped
  <1>5. OnceOnly'
    BY DEF OnceOnly, TakenUp
  <1>6. OwnCacheFresh'
    <2> SUFFICES ASSUME storer # None, flow[storer].at = "done"
                 PROVE  tokens'[flow[storer].worker] \in {0, secret}
      BY DEF OwnCacheFresh
    <2>1. tokens[flow[storer].worker] \in {0, secret}
      BY DEF OwnCacheFresh
    <2>2. tokens' = tokens \/ tokens' = [tokens EXCEPT ![job[p].worker] = secret]
      OBVIOUS
    <2>3. flow[storer].worker \in Worker
      BY DEF Writes
    <2> QED BY <2>1, <2>2, <2>3
  <1>7. PickWorkedOn'
    BY DEF PickWorkedOn
  <1> QED BY <1>1, <1>2, <1>3, <1>4, <1>5, <1>6, <1>7

LEMMA WReactionEvent ==
  ASSUME WInv, NEW r \in Reaction, NEW w \in Worker, ReactionEvent(r, w)
  PROVE  WInv'
  <1> USE WorkspaceAssumption
     DEF WInv, WorkspaceTypeOK, slackvars, stores, caches, tabs, Job, Token, Steps,
         Ends, Handling
  <1>1. PICK dup \in BOOLEAN :
          /\ Deduplicated(r, dup)
          /\ Becomes(r, "dropped", None) \/ (~dup /\ Becomes(r, "seen", w))
    BY DEF ReactionEvent
  <1>2. /\ job[r].at = "new" /\ r \in Job /\ r \notin Press
        /\ UNCHANGED <<slackvars, stores, caches, tabs, picker, feedback>>
    BY DEF ReactionEvent
  <1>3. PICK to \in {"dropped", "seen"} :
          /\ job' = [job EXCEPT ![r] = job'[r]] /\ job'[r].at = to /\ job'[r] \in Work
          /\ to = "seen" => ~dup
          /\ job'[r].worker = IF to = "seen" THEN w ELSE None
    BY <1>1, <1>2 DEF Becomes, Work
  <1>4. /\ marked' \in BOOLEAN /\ faults' \in faults .. MaxFaults /\ faults' \in Nat
        /\ open \subseteq open' /\ open' \subseteq Reaction
        /\ marked => marked'
        /\ marked' \/ r \in open'
        /\ ~dup => ~marked \/ r \in open'
    <2>1. CASE dup = marked /\ marked' = TRUE /\ UNCHANGED open /\ NoFault
      BY <2>1 DEF NoFault
    <2>2. CASE ~dup /\ marked' \in {marked, TRUE} /\ open' = open \cup {r} /\ Fault
      <3>1. marked' = marked \/ marked' = TRUE
        BY <2>2
      <3>2. marked' \in BOOLEAN /\ (marked => marked')
        BY <3>1
      <3>3. faults' \in faults .. MaxFaults /\ faults' \in Nat
        BY <2>2 DEF Fault
      <3>4. open \subseteq open' /\ open' \subseteq Reaction /\ r \in open'
        BY <2>2
      <3> QED BY <3>2, <3>3, <3>4
    <2>3. CASE dup /\ marked' = TRUE /\ UNCHANGED open /\ Fault
      BY <2>3 DEF Fault
    <2> QED BY <1>1, <2>1, <2>2, <2>3 DEF Deduplicated
  <1>5. WorkspaceTypeOK'
    <2>1. job' \in [Job -> Work]
      BY <1>3 DEF Work
    <2> QED BY <1>2, <1>4, <2>1 DEF Work
  <1>6. SignIns' /\ Writes' /\ OwnCacheFresh'
    BY <1>2 DEF SignIns, Writes, OwnCacheFresh
  <1>7. Mapped' /\ PickWorkedOn'
    BY <1>2, <1>3, <1>4 DEF Mapped, PickWorkedOn
  <1>8. OnceOnly'
    <2>1. \A s \in Reaction \ {r} : job'[s] = job[s]
      BY <1>2, <1>3
    <2>2. ~marked' => \A s \in Reaction : job'[s].at = "new" \/ s \in open'
      BY <1>4, <2>1 DEF OnceOnly
    <2>3. ~marked => \A s \in Reaction \ {r} : TakenUp(s) => s \in open
      BY DEF OnceOnly, TakenUp
    <2>4. job'[r].at = "seen" => r \in open' \/ \A s \in Reaction \ {r} : TakenUp(s) => s \in open'
      BY <1>3, <1>4, <2>3
    <2>5. ASSUME NEW s \in Reaction, NEW u \in Reaction, TakenUp(s)', TakenUp(u)'
          PROVE  s = u \/ s \in open' \/ u \in open'
      <3>1. CASE s # r /\ u # r
        BY <1>4, <2>1, <2>5, <3>1 DEF OnceOnly, TakenUp
      <3>2. CASE s = r \/ u = r
        BY <1>3, <2>1, <2>4, <2>5, <3>2 DEF TakenUp
      <3> QED BY <3>1, <3>2
    <2>6. \A x \in feedback : job'[x[1]].at = "answered"
      BY <1>2, <2>1 DEF OnceOnly
    <2> QED BY <1>2, <2>2, <2>5, <2>6 DEF OnceOnly
  <1> QED BY <1>5, <1>6, <1>7, <1>8

LEMMA WReactionResolved ==
  ASSUME WInv, NEW r \in Reaction, ReactionResolved(r)
  PROVE  WInv'
  <1> USE WorkspaceAssumption
     DEF WInv, WorkspaceTypeOK, slackvars, stores, tabs, Job, Token, Steps, Handling
  <1>0. PICK w \in Worker : w = job[r].worker
    BY DEF Mapped, ReactionResolved
  <1>1. PICK how \in {"tenant", "unknown", "error"} :
          /\ Resolved(w, how)
          /\ IF how = "tenant" THEN Becomes(r, "queued", w) ELSE Becomes(r, "dropped", None)
    BY <1>0 DEF ReactionResolved
  <1>2. /\ job[r].at = "seen" /\ r \in Job /\ r \notin Press
        /\ UNCHANGED <<slackvars, stores, tokens, tabs, picker, marked, open, feedback>>
    BY DEF ReactionResolved
  <1>3. /\ maps' = maps \/ maps' = maps \cup {w}
        /\ faults' \in faults .. MaxFaults /\ faults' \in Nat
        /\ maps' # {} => mapped
    BY <1>1 DEF Resolved, Fault, NoFault, Mapped
  <1>4. PICK to \in {"queued", "dropped"} :
          /\ job' = [job EXCEPT ![r] = job'[r]] /\ job'[r].at = to /\ job'[r] \in Work
          /\ job'[r].worker = IF to = "queued" THEN w ELSE None
    BY <1>1, <1>2 DEF Becomes, Work
  <1>5. WorkspaceTypeOK'
    <2>1. job' \in [Job -> Work]
      BY <1>4 DEF Work
    <2> QED BY <1>2, <1>3, <2>1 DEF Work
  <1>6. SignIns' /\ Writes' /\ OwnCacheFresh'
    BY <1>2 DEF SignIns, Writes, OwnCacheFresh
  <1>7. Mapped' /\ PickWorkedOn'
    BY <1>2, <1>3, <1>4 DEF Mapped, PickWorkedOn
  <1>8. OnceOnly'
    <2>1. \A s \in Reaction \ {r} : job'[s] = job[s]
      BY <1>2, <1>4
    <2>2. \A s \in Reaction : job'[s].at \notin {"new", "dropped"} => TakenUp(s)
      BY <1>2, <1>4, <2>1 DEF TakenUp
    <2>3. \A s \in Reaction : job[s].at \in {"new", "answered"} => job'[s] = job[s]
      BY <1>2, <1>4, <2>1
    <2>4. \A x \in feedback : x[1] \in Reaction
      OBVIOUS
    <2>5. OnceOnly /\ marked' = marked /\ open' = open /\ feedback' = feedback
      BY <1>2
    <2> HIDE DEF WInv, WorkspaceTypeOK
    <2> QED BY ONLY <2>2, <2>3, <2>4, <2>5, OnceOnlyKept
  <1> QED BY <1>5, <1>6, <1>7, <1>8

LEMMA WGiveFeedback == ASSUME WInv, NEW r \in Reaction, GiveFeedback(r) PROVE WInv'
  <1> USE WorkspaceAssumption
     DEF WInv, WorkspaceTypeOK, GiveFeedback, TokenGiven, OwnReply, Becomes, Fault,
         NoFault, slackvars, stores, caches, tabs, inbound, Job, Token, Steps, Ends, Handling
  <1>1. WorkspaceTypeOK'
    OBVIOUS
  <1>2. SignIns'
    BY DEF SignIns
  <1>3. Writes'
    BY DEF Writes
  <1>4. Mapped'
    BY DEF Mapped, Writes
  <1>5. OnceOnly'
    BY DEF OnceOnly, TakenUp
  <1>6. OwnCacheFresh'
    <2> SUFFICES ASSUME storer # None, flow[storer].at = "done"
                 PROVE  tokens'[flow[storer].worker] \in {0, secret}
      BY DEF OwnCacheFresh
    <2>1. tokens[flow[storer].worker] \in {0, secret}
      BY DEF OwnCacheFresh
    <2>2. tokens' = tokens \/ tokens' = [tokens EXCEPT ![job[r].worker] = secret]
      OBVIOUS
    <2>3. flow[storer].worker \in Worker
      BY DEF Writes
    <2> QED BY <2>1, <2>2, <2>3
  <1>7. PickWorkedOn'
    BY DEF PickWorkedOn
  <1> QED BY <1>1, <1>2, <1>3, <1>4, <1>5, <1>6, <1>7

LEMMA WCrash == ASSUME WInv, NEW w \in Worker, Crash(w) PROVE WInv'
  <1> USE WorkspaceAssumption
     DEF WInv, WorkspaceTypeOK, Crash, Fault, slackvars, stores, caches, tabs,
         inbound, Job, Token, Steps, Ends, Handling
  <1>1. WorkspaceTypeOK'
    <2>1. flow' \in [Flow -> Installation]
      <3>1. flow \in [Flow -> Installation]
        BY DEF Installation
      <3>2. \A f \in Flow : [flow[f] EXCEPT !.at = "broken"] \in Installation
        BY <3>1 DEF Installation
      <3>3. \A f \in Flow : flow'[f] \in Installation
        BY <3>1, <3>2
      <3> QED BY <3>3
    <2>2. job' \in [Job -> Work]
      BY DEF Work
    <2>3. tokens' \in [Worker -> {0} \cup Token] /\ maps' \subseteq Worker /\ faults' \in 0 .. MaxFaults
      OBVIOUS
    <2> QED BY <2>1, <2>2, <2>3 DEF Installation, Work
  <1>2. SignIns'
    BY DEF SignIns
  <1>3. Writes'
    BY DEF Writes
  <1>a. ASSUME NEW j \in Job
        PROVE  \/ job'[j] = job[j] /\ job[j].worker # w
               \/ /\ job[j].at \in Handling \cup {"queued"} /\ job'[j].worker = None
                  /\ job'[j].at \in {"sent", "lost"}
    BY DEF Mapped
  <1>4. Mapped'
    BY <1>a DEF Mapped, Writes
  <1>5. OnceOnly'
    <2>1. \A r \in Reaction : job'[r].at \notin {"new", "dropped"} => TakenUp(r)
      BY <1>a DEF TakenUp
    <2>2. \A r \in Reaction : job[r].at \in {"new", "answered"} => job'[r] = job[r]
      BY <1>a
    <2>3. \A x \in feedback : x[1] \in Reaction
      OBVIOUS
    <2>4. OnceOnly /\ marked' = marked /\ open' = open /\ feedback' = feedback
      OBVIOUS
    <2> HIDE DEF WInv, WorkspaceTypeOK, Crash
    <2> QED BY ONLY <2>1, <2>2, <2>3, <2>4, OnceOnlyKept
  <1>6. OwnCacheFresh'
    BY DEF OwnCacheFresh
  <1>7. PickWorkedOn'
    BY <1>a DEF PickWorkedOn
  <1> QED BY <1>1, <1>2, <1>3, <1>4, <1>5, <1>6, <1>7

LEMMA WStutter == ASSUME WInv, UNCHANGED wsvars PROVE WInv'
  <1> USE DEF wsvars, slackvars, stores, caches, tabs, inbound
  <1>1. WorkspaceTypeOK' /\ SignIns' /\ Writes'
    BY DEF WInv, WorkspaceTypeOK, SignIns, Writes
  <1>2. Mapped' /\ OnceOnly' /\ OwnCacheFresh' /\ PickWorkedOn'
    BY DEF WInv, Mapped, OnceOnly, TakenUp, OwnCacheFresh, PickWorkedOn
  <1> QED BY <1>1, <1>2 DEF WInv

LEMMA WNext == WInv /\ [WorkspaceNext]_wsvars => WInv'
  <1> SUFFICES ASSUME WInv, [WorkspaceNext]_wsvars PROVE WInv'
    OBVIOUS
  <1>1. CASE InstallStep
    BY <1>1, WInstall, WCallback, WConsent, WStateExpires, WExchange, WProvisioningFails,
       WStoreRow, WStoreBotToken, WStoreMapping, WFinish, WUninstall DEF InstallStep
  <1>2. CASE UseStep
    BY <1>2, WSessionExpires, WListChannels, WPressButton, WPick, WInteraction,
       WTidy, WQueue, WGiveFeedback, WReactionEvent, WReactionResolved DEF UseStep
  <1>3. CASE \E w \in Worker : Crash(w)
    BY <1>3, WCrash
  <1>4. CASE UNCHANGED wsvars
    BY <1>4, WStutter
  <1> QED BY <1>1, <1>2, <1>3, <1>4 DEF WorkspaceNext

LEMMA WInductive == WorkspaceSpec => []WInv
  BY WInit, WNext, PTL DEF WorkspaceSpec

\* The state of Workspace keeps its types.
THEOREM WorkspaceTyped == WorkspaceSpec => []WorkspaceTypeOK
  <1>1. WInv => WorkspaceTypeOK
    BY DEF WInv
  <1> QED BY WInductive, <1>1, PTL

\* Whatever write of an installation fails or is cut off (_provision_workspace),
\* a workspace whose events reach a tenant has its row and a token.
THEOREM WorkspaceProvisioned == WorkspaceSpec => []Provisioned
  <1>1. WInv => Provisioned
    BY DEF WInv, Writes, Mapped, Provisioned
  <1> QED BY WInductive, <1>1, PTL

\* The worker that stored the current token answers with it: invalidate() comes
\* after the write, and nothing older comes back into that worker's cache.
THEOREM CacheFresh == WorkspaceSpec => []OwnCacheFresh
  <1>1. WInv => OwnCacheFresh
    BY DEF WInv
  <1> QED BY WInductive, <1>1, PTL

\* The choice a picker shows has its click dispatched, or about to be: only a
\* crash of the worker between the two, or later, takes it back (main.py:472-488).
THEOREM PicksWorkedOn == WorkspaceSpec => []PickWorkedOn
  <1>1. WInv => PickWorkedOn
    BY DEF WInv
  <1> QED BY WInductive, <1>1, PTL

\* A browser is signed in by a flow it started itself: the callback compares the
\* nonce of the state with the cookie (verify_state), whatever tabs share it.
THEOREM SessionsEarned == WorkspaceSpec => []SessionEarned
  <1>1. WInv => SessionEarned
    BY DEF WInv, SignIns, SessionEarned
  <1> QED BY WInductive, <1>1, PTL

\* Feedback is about a reply of this app and is given once, however often Slack
\* delivers the reaction, except by deliveries that the deduplication let through
\* because its write failed (dispatch_reaction_feedback; dedup.py:134-148).
THEOREM FeedbackOnce == WorkspaceSpec => []FeedbackOwn
  <1>1. WInv => FeedbackOwn
    <2> SUFFICES ASSUME WInv, NEW f \in feedback, NEW g \in feedback, f # g
                 PROVE  f[2].ours /\ f[2].own /\ f[1] # g[1] /\ {f[1], g[1]} \cap open # {}
      BY DEF FeedbackOwn, WInv, OnceOnly
    <2>1. f[1] \in Reaction /\ g[1] \in Reaction
      BY DEF WInv, WorkspaceTypeOK
    <2>2. TakenUp(f[1]) /\ TakenUp(g[1]) /\ f[1] # g[1] /\ f[2].ours /\ f[2].own
      BY DEF WInv, OnceOnly, TakenUp
    <2> QED BY <2>1, <2>2 DEF WInv, OnceOnly
  <1> QED BY WInductive, <1>1, PTL
=============================================================================
