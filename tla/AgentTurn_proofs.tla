-------------------------- MODULE AgentTurn_proofs --------------------------
(* What a turn may see, reach and leave unrecorded, for any number of      *)
(* turns, channels, users, repositories and tool calls, and however often  *)
(* the tenant's row and the memberships change under them.                 *)
EXTENDS AgentTurn, TLAPS

TurnRec ==
  [at : {"new", "load", "react", "link", "fetch", "assemble", "stream", "done"},
   feedback : BOOLEAN, place : Place, user : User \cup {None},
   link : Channel \cup {None}, snap : Config \cup {None},
   tools : SUBSET Tool, n : 0 .. MaxCalls,
   call : [tool : Tool \cup {None}, target : Repo \cup Channel \cup {None},
           at : {"none", "asked", "allowed", "ended", "raised"}],
   hint : Silo \cup {None}, session : Silo \cup {None},
   seen : SUBSET memory, reached : SUBSET (Repo \cup Channel)]

GrantRec == [repos : SUBSET Repo, channels : SUBSET Channel, scoped : BOOLEAN]

\* The grant of such a turn still grows with the row and the memberships.
Followed(r) == ~(r.place = None /\ r.at \in {"new", "done"})

\* What is granted to a turn of place p covers what this row lets it reach.
Covered(g, cfg, p) ==
  /\ g.scoped => Secluded(cfg, p)
  /\ Bound(cfg) \subseteq g.repos
  /\ cfg.routes \subseteq g.channels

\* What was granted covers every version of the row that a read may answer, the
\* memberships, and the copy the turn decides by.
Granted(r, g) ==
  /\ Followed(r) => /\ \A cfg \in Versions : Covered(g, cfg, r.place)
                    /\ \A c \in Channel : <<c, r.user>> \in member => c \in g.channels
  /\ r.snap # None => Covered(g, r.snap, r.place)
  /\ r.at \notin {"new", "load", "done"} => r.snap # None
  /\ r.call # NoCall => r.snap # None
  /\ {r.place} \cap Channel \subseteq g.channels

\* What a turn reached, or is about to, was granted.
Reach(r, g) ==
  /\ r.reached \subseteq g.repos \cup g.channels
  /\ r.at = "fetch" => r.link \in g.channels
  /\ r.call.at = "allowed" =>
       /\ r.call.tool \in RepoTools => r.call.target \in g.repos
       /\ r.call.tool \in ChannelTools \cup {"escalate"} => r.call.target \in g.channels

\* What a turn has seen, and where it looked for its hint.
Sealed(r) ==
  /\ \A x \in r.seen : x.private => x.place = r.place
  /\ r.hint # None => r.hint = r.session
  /\ r.place \notin Channel => r.place = r.user

\* What a turn owes the audit table.
Logged(t, r) ==
  /\ \A k \in 1 .. r.n : Row(t, "tool_call", k) \in audit \/ (k = r.n /\ r.call # NoCall)
  /\ r.at = "done" /\ ~r.feedback => Row(t, "invocation", 0) \in audit
  /\ r.feedback => r.at \in {"load", "react", "done"} /\ r.call = NoCall
  /\ r.at = "react" => r.feedback

\* A record that is private lies in a silo that no other place reads from.
OwnSilo(x) ==
  \/ x.place \in Channel /\ x.silo \in {<<"channel", x.place>>, <<"faq", x.place>>}
  \/ x.place \in User /\ x.silo = <<"user", x.place>>
  \/ x.place = None /\ \E t \in Turn : x.silo = <<"turn", t>>

MemoryOK ==
  /\ memory \subseteq [silo : Silo, place : Place, private : BOOLEAN]
  /\ \A x \in memory : x.private => OwnSilo(x)

AuditOK ==
  audit \subseteq [turn : Turn, type : {"invocation", "feedback", "tool_call"}, n : 0 .. MaxCalls]

Fine(t, r, g) ==
  /\ r \in TurnRec /\ g \in GrantRec
  /\ Granted(r, g) /\ Reach(r, g) /\ Sealed(r) /\ Logged(t, r)

AInv ==
  /\ local \in BOOLEAN /\ config \in Config /\ lagging \subseteq Config
  /\ edits \in 0 .. MaxEdits
  /\ member \subseteq Channel \X User
  /\ turn \in [Turn -> TurnRec] /\ grant \in [Turn -> GrantRec]
  /\ MemoryOK /\ AuditOK
  /\ \A t \in Turn : Fine(t, turn[t], grant[t])

LEMMA ConfigFields ==
  ASSUME NEW c \in Config
  PROVE  /\ c.enabled \in BOOLEAN /\ c.bound \subseteq Repo /\ c.shared \in BOOLEAN
         /\ c.isolated \subseteq Channel /\ c.routes \subseteq Channel /\ c # None
         /\ Bound(c) \subseteq Repo
  BY TurnAssumption DEF ConfigSpace, Bound

LEMMA NewTurnTyped == NewTurn \in TurnRec /\ Nothing \in GrantRec
  BY TurnAssumption DEF NewTurn, NoCall, Nothing, TurnRec, GrantRec, Place

LEMMA MayReachTyped ==
  ASSUME NEW rows \in SUBSET Config, NEW p, NEW u
  PROVE  /\ MayReach(rows, p, u) \in GrantRec
         /\ \A cfg \in rows : Covered(MayReach(rows, p, u), cfg, p)
         /\ {p} \cap Channel \subseteq MayReach(rows, p, u).channels
         /\ \A c \in Channel : <<c, u>> \in member => c \in MayReach(rows, p, u).channels
  <1>1. PICK repos, routes, scoped :
          /\ repos = UNION {Bound(cfg) : cfg \in rows}
          /\ routes = UNION {cfg.routes : cfg \in rows}
          /\ scoped = (\A cfg \in rows : Secluded(cfg, p))
    OBVIOUS
  <1>2. PICK channels : channels = ({p} \cap Channel) \cup {c \in Channel : <<c, u>> \in member}
                                     \cup routes
    OBVIOUS
  <1>3. MayReach(rows, p, u) = [repos |-> repos, channels |-> channels, scoped |-> scoped]
    BY <1>1, <1>2 DEF MayReach
  <1>4. /\ repos \subseteq Repo /\ routes \subseteq Channel /\ scoped \in BOOLEAN
        /\ \A cfg \in rows : Bound(cfg) \subseteq repos /\ cfg.routes \subseteq routes
        /\ scoped => \A cfg \in rows : Secluded(cfg, p)
    BY <1>1, ConfigFields
  <1>5. channels \subseteq Channel /\ routes \subseteq channels
    BY <1>2, <1>4
  <1>6. [repos |-> repos, channels |-> channels, scoped |-> scoped] \in GrantRec
    BY <1>4, <1>5 DEF GrantRec
  <1>7. \A cfg \in rows :
          Covered([repos |-> repos, channels |-> channels, scoped |-> scoped], cfg, p)
    BY <1>4, <1>5 DEF Covered
  <1> QED BY <1>2, <1>3, <1>6, <1>7

\* A record of a turn is still one when there is more memory.
LEMMA TurnRecGrows ==
  ASSUME memory \subseteq memory', NEW r \in TurnRec PROVE r \in TurnRec'
  BY DEF TurnRec

\* Other turns keep what they had when one turn moves on.
LEMMA TurnMoves ==
  ASSUME AInv, NEW t \in Turn, NEW r \in TurnRec, NEW g \in GrantRec,
         Set(t, r), grant' = [grant EXCEPT ![t] = g],
         UNCHANGED <<local, config, lagging, edits, member>>,
         memory \subseteq memory', audit \subseteq audit', MemoryOK', AuditOK',
         Granted(turn[t], grant[t])', Reach(turn[t], grant[t])',
         Sealed(turn[t])', Logged(t, turn[t])'
  PROVE  AInv'
  <1>1. turn'[t] = r /\ grant'[t] = g
    BY DEF AInv, Set
  <1>2. turn' \in [Turn -> TurnRec'] /\ grant' \in [Turn -> GrantRec]
    BY TurnRecGrows DEF AInv, Set
  <1>3. \A u \in Turn \ {t} : turn'[u] = turn[u] /\ grant'[u] = grant[u]
    BY DEF AInv, Set
  <1>4. ASSUME NEW u \in Turn PROVE Fine(u, turn[u], grant[u])'
    <2>1. turn'[u] \in TurnRec' /\ grant'[u] \in GrantRec'
      BY <1>2 DEF GrantRec
    <2>2. CASE u = t
      BY <2>1, <2>2 DEF Fine
    <2>3. CASE u # t
      <3>1. Fine(u, turn[u], grant[u]) /\ turn'[u] = turn[u] /\ grant'[u] = grant[u]
        BY <1>3, <2>3 DEF AInv
      <3>2. Granted(turn[u], grant[u])'
        BY <3>1 DEF Fine, Granted, Followed, Covered, Versions, Secluded
      <3>3. Reach(turn[u], grant[u])' /\ Sealed(turn[u])'
        BY <3>1 DEF Fine, Reach, Sealed
      <3>4. Logged(u, turn[u])'
        BY <3>1 DEF Fine, Logged
      <3> QED BY <2>1, <3>2, <3>3, <3>4 DEF Fine
    <2> QED BY <2>2, <2>3
  <1>5. /\ local' \in BOOLEAN /\ config' \in Config /\ edits' \in 0 .. MaxEdits
        /\ lagging' \subseteq Config /\ member' \subseteq Channel \X User
    BY DEF AInv
  <1> QED BY <1>2, <1>4, <1>5 DEF AInv, GrantRec

\* The same for a step that grants nothing and takes nothing back.
LEMMA TurnGoesOn ==
  ASSUME AInv, NEW t \in Turn, NEW r \in TurnRec, Set(t, r),
         UNCHANGED <<local, config, lagging, edits, member, grant>>,
         memory \subseteq memory', audit \subseteq audit', MemoryOK', AuditOK',
         Granted(turn[t], grant[t])', Reach(turn[t], grant[t])',
         Sealed(turn[t])', Logged(t, turn[t])'
  PROVE  AInv'
  <1>1. grant' = [grant EXCEPT ![t] = grant[t]] /\ grant[t] \in GrantRec
    BY DEF AInv
  <1> QED BY <1>1, TurnMoves

\* ... or changes nothing but the turn.
LEMMA TurnAlone ==
  ASSUME AInv, NEW t \in Turn, NEW r \in TurnRec, Set(t, r),
         UNCHANGED <<local, config, lagging, edits, member, memory, audit, grant>>,
         Granted(turn[t], grant[t])', Reach(turn[t], grant[t])',
         Sealed(turn[t])', Logged(t, turn[t])'
  PROVE  AInv'
  <1>1. MemoryOK' /\ AuditOK'
    BY DEF AInv, MemoryOK, AuditOK, OwnSilo
  <1> QED BY <1>1, TurnGoesOn

LEMMA TurnFacts ==
  ASSUME AInv, NEW t \in Turn
  PROVE  /\ turn[t] \in TurnRec /\ grant[t] \in GrantRec /\ Granted(turn[t], grant[t])
         /\ Reach(turn[t], grant[t]) /\ Sealed(turn[t]) /\ Logged(t, turn[t])
  BY DEF AInv, Fine

-----------------------------------------------------------------------------
(* From here on, one lemma for each action: it keeps AInv.                 *)

LEMMA ArriveFine == ASSUME AInv, NEW t \in Turn, Arrive(t) PROVE AInv'
  <1>1. PICK p \in Channel \cup {None}, u \in User \cup {None}, f \in BOOLEAN,
             link \in Named \cup {None} :
          /\ p \in Channel => u # None
          /\ f => p \in Channel /\ link = None
          /\ Set(t, [NewTurn EXCEPT !.at = "load", !.feedback = f, !.link = link,
                                    !.place = IF p # None THEN p ELSE u, !.user = u])
          /\ grant' = [grant EXCEPT ![t] = MayReach(Versions, IF p # None THEN p ELSE u, u)]
    BY DEF Arrive
  <1>2. PICK place \in Place : place = IF p # None THEN p ELSE u
    BY DEF Place
  <1>3. PICK r : r = [NewTurn EXCEPT !.at = "load", !.feedback = f, !.link = link,
                                     !.place = place, !.user = u]
    OBVIOUS
  <1>b. Versions \in SUBSET Config
    BY DEF AInv, Versions
  <1>4. PICK g \in GrantRec : g = MayReach(Versions, place, u)
    BY <1>b, MayReachTyped
  <1>5. Set(t, r) /\ grant' = [grant EXCEPT ![t] = g]
    BY <1>1, <1>2, <1>3, <1>4
  <1>6. r \in TurnRec
    BY <1>3, NewTurnTyped, TurnAssumption DEF TurnRec
  <1>a. /\ r.at = "load" /\ r.feedback = f /\ r.place = place /\ r.user = u /\ r.link = link
        /\ r.snap = None /\ r.call = NoCall /\ r.n = 0 /\ r.hint = None /\ r.seen = {}
        /\ r.reached = {}
    BY <1>3 DEF NewTurn
  <1>7. /\ turn'[t] = r /\ grant'[t] = g
        /\ UNCHANGED <<local, config, lagging, edits, member, memory, audit>>
    BY <1>5 DEF AInv, Set, Arrive
  <1>8. Granted(turn[t], grant[t])'
    <2>1. /\ \A cfg \in Versions : Covered(g, cfg, place)
          /\ {place} \cap Channel \subseteq g.channels
          /\ \A c \in Channel : <<c, u>> \in member => c \in g.channels
      BY <1>b, <1>4, MayReachTyped
    <2> QED BY <1>7, <1>a, <2>1 DEF Granted, Covered, Versions, Secluded
  <1>9. Reach(turn[t], grant[t])' /\ Sealed(turn[t])' /\ Logged(t, turn[t])'
    BY <1>1, <1>2, <1>7, <1>a DEF Reach, Sealed, Logged, NoCall
  <1>10. MemoryOK' /\ AuditOK'
    BY <1>7 DEF AInv, MemoryOK, AuditOK, OwnSilo
  <1> QED BY <1>5, <1>6, <1>7, <1>8, <1>9, <1>10, TurnMoves

\* Whatever version of the row a turn loads is covered by what it was granted.
LEMMA SnapCovered ==
  ASSUME AInv, NEW t \in Turn, turn[t].at = "load", NEW cfg \in Versions
  PROVE  Covered(grant[t], cfg, turn[t].place) /\ cfg \in Config
  BY TurnFacts DEF Granted, Followed, AInv, Versions

\* Where Slack says yes, for a channel other than the turn's own or for that one,
\* the requester was granted the channel.
LEMMA AdmitsGranted ==
  ASSUME AInv, NEW t \in Turn, Followed(turn[t]), NEW c \in Channel,
         TRUE \in Admits(t, c)
  PROVE  c \in grant[t].channels
  <1>1. CASE c = turn[t].place
    BY <1>1, TurnFacts DEF Granted
  <1>2. CASE c # turn[t].place
    <2>1. <<c, turn[t].user>> \in member
      BY <1>2 DEF Admits, MemberSays
    <2> QED BY <2>1, TurnFacts DEF Granted
  <1> QED BY <1>1, <1>2

LEMMA LoadFine == ASSUME AInv, NEW t \in Turn, Load(t) PROVE AInv'
  <1>0. PICK cfg \in Versions : Set(t, [turn[t] EXCEPT !.at = "link", !.snap = cfg])
    BY DEF Load
  <1>a. turn[t] \in TurnRec /\ cfg \in Config /\ cfg # None /\ turn[t].at = "load"
    BY <1>0, SnapCovered, ConfigFields DEF AInv, Load
  <1>1. PICK r : r = [turn[t] EXCEPT !.at = "link", !.snap = cfg]
    OBVIOUS
  <1>2. r \in TurnRec
    BY <1>1, <1>a DEF TurnRec
  <1>3. /\ Set(t, r) /\ turn'[t] = r
        /\ UNCHANGED <<config, lagging, member, memory, audit, grant>>
    BY <1>0, <1>1 DEF AInv, Set, Load
  <1>4. /\ r.at = "link" /\ r.feedback = turn[t].feedback /\ r.place = turn[t].place
        /\ r.user = turn[t].user /\ r.link = turn[t].link /\ r.snap = cfg
        /\ r.n = turn[t].n /\ r.call = turn[t].call /\ r.hint = turn[t].hint
        /\ r.session = turn[t].session /\ r.seen = turn[t].seen
        /\ r.reached = turn[t].reached
    BY <1>1, <1>a DEF TurnRec
  <1>5. Granted(turn[t], grant[t])'
    BY <1>0, <1>a, <1>3, <1>4, TurnFacts, SnapCovered
    DEF Granted, Followed, Covered, Versions, Secluded
  <1>6. Reach(turn[t], grant[t])'
    BY <1>3, <1>4, TurnFacts DEF Reach
  <1>7. Sealed(turn[t])'
    BY <1>3, <1>4, TurnFacts DEF Sealed
  <1>8. Logged(t, turn[t])'
    BY <1>3, <1>4, TurnFacts DEF Logged, Load
  <1> QED BY <1>2, <1>3, <1>5, <1>6, <1>7, <1>8, TurnAlone DEF Load

LEMMA FetchLinkFine == ASSUME AInv, NEW t \in Turn, FetchLink(t) PROVE AInv'
  <1>a. turn[t] \in TurnRec /\ config \in Config
    BY DEF AInv
  <1>b. turn[t].link \in Channel
    BY TurnFacts DEF Reach, FetchLink, GrantRec
  <1>1. PICK r : r = [turn[t] EXCEPT !.at = "assemble", !.link = None,
                                         !.reached = {turn[t].link}]
    OBVIOUS
  <1>2. r \in TurnRec
    BY <1>1, <1>a, <1>b DEF TurnRec
  <1>3. /\ Set(t, r) /\ turn'[t] = r
        /\ UNCHANGED <<config, lagging, member, memory, audit, grant>>
    BY <1>1 DEF AInv, Set, FetchLink
  <1>4. /\ r.at = "assemble" /\ r.feedback = turn[t].feedback /\ r.place = turn[t].place
        /\ r.user = turn[t].user /\ r.link = None /\ r.snap = turn[t].snap
        /\ r.n = turn[t].n /\ r.call = turn[t].call /\ r.hint = turn[t].hint
        /\ r.session = turn[t].session /\ r.seen = turn[t].seen
        /\ r.reached = {turn[t].link}
    BY <1>1, <1>a, <1>b DEF TurnRec
  <1>5. Granted(turn[t], grant[t])'
    BY <1>3, <1>4, TurnFacts DEF Granted, Followed, Covered, Versions, Secluded, FetchLink
  <1>6. Reach(turn[t], grant[t])'
    BY <1>3, <1>4, TurnFacts DEF Reach, FetchLink
  <1>7. Sealed(turn[t])'
    BY <1>3, <1>4, TurnFacts DEF Sealed
  <1>8. Logged(t, turn[t])'
    BY <1>3, <1>4, TurnFacts DEF Logged, FetchLink
  <1> QED BY <1>2, <1>3, <1>5, <1>6, <1>7, <1>8, TurnAlone DEF FetchLink

LEMMA CheckLinkFine == ASSUME AInv, NEW t \in Turn, CheckLink(t) PROVE AInv'
  <1>a. turn[t] \in TurnRec /\ turn[t].at = "link"
    BY DEF AInv, CheckLink
  <1>1. PICK r : /\ Set(t, r)
                 /\ \/ /\ r = [turn[t] EXCEPT !.at = "fetch"]
                       /\ turn[t].link # None /\ TRUE \in Admits(t, turn[t].link)
                    \/ r = [turn[t] EXCEPT !.at = "assemble", !.link = None]
    BY DEF CheckLink
  <1>2. CASE r = [turn[t] EXCEPT !.at = "fetch"] /\ turn[t].link # None /\ TRUE \in Admits(t, turn[t].link)
    <2>1. r \in TurnRec
      BY <1>a, <1>2 DEF TurnRec
    <2>2. /\ r.at = "fetch" /\ r.feedback = turn[t].feedback /\ r.place = turn[t].place
          /\ r.user = turn[t].user /\ r.link = turn[t].link /\ r.snap = turn[t].snap
          /\ r.n = turn[t].n /\ r.call = turn[t].call /\ r.hint = turn[t].hint
          /\ r.session = turn[t].session /\ r.seen = turn[t].seen /\ r.reached = turn[t].reached
      BY <1>a, <1>2 DEF TurnRec
    <2>3. turn[t].link \in Channel
      BY <1>a, <1>2 DEF TurnRec
    <2>4. r.link \in grant[t].channels
      BY <1>a, <1>2, <2>2, <2>3, AdmitsGranted DEF Followed
    <2>5. turn'[t] = r /\ UNCHANGED <<config, lagging, member, memory, audit, grant>>
      BY <1>1 DEF AInv, Set, CheckLink
    <2>6. Granted(turn[t], grant[t])'
      BY <1>a, <2>2, <2>5, TurnFacts DEF Granted, Followed, Covered, Versions, Secluded
    <2>7. Reach(turn[t], grant[t])' /\ Sealed(turn[t])' /\ Logged(t, turn[t])'
      BY <1>a, <2>2, <2>4, <2>5, TurnFacts DEF Reach, Sealed, Logged
    <2> QED BY <1>1, <2>1, <2>6, <2>7, TurnAlone DEF CheckLink
  <1>3. CASE r = [turn[t] EXCEPT !.at = "assemble", !.link = None]
    <2>1. r \in TurnRec
      BY <1>a, <1>3 DEF TurnRec
    <2>2. /\ r.at = "assemble" /\ r.feedback = turn[t].feedback /\ r.place = turn[t].place
          /\ r.user = turn[t].user /\ r.snap = turn[t].snap
          /\ r.n = turn[t].n /\ r.call = turn[t].call /\ r.hint = turn[t].hint
          /\ r.session = turn[t].session /\ r.seen = turn[t].seen /\ r.reached = turn[t].reached
      BY <1>a, <1>3 DEF TurnRec
    <2>5. turn'[t] = r /\ UNCHANGED <<config, lagging, member, memory, audit, grant>>
      BY <1>1 DEF AInv, Set, CheckLink
    <2>6. Granted(turn[t], grant[t])'
      BY <1>a, <2>2, <2>5, TurnFacts DEF Granted, Followed, Covered, Versions, Secluded
    <2>7. Reach(turn[t], grant[t])' /\ Sealed(turn[t])' /\ Logged(t, turn[t])'
      BY <1>a, <2>2, <2>5, TurnFacts DEF Reach, Sealed, Logged
    <2> QED BY <1>1, <2>1, <2>6, <2>7, TurnAlone DEF CheckLink
  <1> QED BY <1>1, <1>2, <1>3

-----------------------------------------------------------------------------
\* The end of a turn, whatever it wrote on its way out.
LEMMA OverFine ==
  ASSUME AInv, NEW t \in Turn, Over(t),
         UNCHANGED <<local, config, lagging, edits, member>>,
         memory \subseteq memory', audit \subseteq audit', MemoryOK', AuditOK',
         turn[t].at # "new",
         turn[t].feedback \/ Row(t, "invocation", 0) \in audit'
  PROVE  AInv'
  <1>a. turn[t] \in TurnRec
    BY DEF AInv
  <1>1. CASE turn[t].call = NoCall
    <2>1. PICK r : r = [NewTurn EXCEPT !.at = "done", !.feedback = turn[t].feedback, !.n = turn[t].n]
      OBVIOUS
    <2>2. r \in TurnRec
      BY <1>a, <2>1, NewTurnTyped DEF TurnRec
    <2>3. Set(t, r) /\ grant' = [grant EXCEPT ![t] = Nothing]
      BY <1>1, <2>1 DEF Over
    <2>4. turn'[t] = r /\ grant'[t] = Nothing
      BY <2>3 DEF AInv, Set
    <2>5. /\ r.at = "done" /\ r.feedback = turn[t].feedback /\ r.place = None /\ r.user = None
          /\ r.link = None /\ r.snap = None /\ r.n = turn[t].n /\ r.call = NoCall
          /\ r.hint = None /\ r.seen = {} /\ r.reached = {}
      BY <2>1 DEF NewTurn
    <2>6. Granted(turn[t], grant[t])' /\ Reach(turn[t], grant[t])' /\ Sealed(turn[t])'
      BY <2>4, <2>5, TurnAssumption DEF Granted, Followed, Reach, Sealed, NoCall
    <2>7. Logged(t, turn[t])'
      BY <1>1, <2>4, <2>5, TurnFacts DEF Logged
    <2> QED BY <2>2, <2>3, <2>6, <2>7, TurnMoves, NewTurnTyped
  <1>2. CASE turn[t].call # NoCall
    <2>1. PICK r : r = [turn[t] EXCEPT !.at = "done"]
      OBVIOUS
    <2>2. r \in TurnRec
      BY <1>a, <2>1 DEF TurnRec
    <2>3. Set(t, r) /\ UNCHANGED grant
      BY <1>2, <2>1 DEF Over
    <2>4. turn'[t] = r
      BY <2>3 DEF AInv, Set
    <2>5. /\ r.at = "done" /\ r.feedback = turn[t].feedback /\ r.place = turn[t].place
          /\ r.user = turn[t].user /\ r.link = turn[t].link /\ r.snap = turn[t].snap
          /\ r.n = turn[t].n /\ r.call = turn[t].call /\ r.hint = turn[t].hint
          /\ r.session = turn[t].session /\ r.seen = turn[t].seen /\ r.reached = turn[t].reached
      BY <1>a, <2>1 DEF TurnRec
    <2>6. Granted(turn[t], grant[t])'
      BY <2>3, <2>4, <2>5, TurnFacts DEF Granted, Followed, Covered, Versions, Secluded
    <2>7. Reach(turn[t], grant[t])' /\ Sealed(turn[t])'
      BY <2>3, <2>4, <2>5, TurnFacts DEF Reach, Sealed
    <2>8. Logged(t, turn[t])'
      BY <1>2, <2>4, <2>5, TurnFacts DEF Logged
    <2> QED BY <2>2, <2>3, <2>6, <2>7, <2>8, TurnGoesOn
  <1> QED BY <1>1, <1>2

\* A row in the audit table is one of its rows.
LEMMA LogFine ==
  ASSUME AInv, NEW t \in Turn, NEW type \in {"invocation", "feedback", "tool_call"},
         NEW n \in 0 .. MaxCalls, Log(Row(t, type, n))
  PROVE  AuditOK' /\ audit \subseteq audit' /\ Row(t, type, n) \in audit'
  BY DEF AInv, AuditOK, Log, Row

\* A private record of a turn goes to a silo of its place's own.
LEMMA SiloIsOwn ==
  ASSUME AInv, NEW t \in Turn, turn[t].snap # None
  PROVE  LET silo == SiloOf(turn[t].snap, turn[t].place, turn[t].user, t)
         IN /\ silo \in Silo
            /\ grant[t].scoped =>
                 OwnSilo([silo |-> silo, place |-> turn[t].place, private |-> TRUE])
  <1>1. /\ turn[t].place \in Place /\ turn[t].user \in User \cup {None}
        /\ turn[t].place \notin Channel => turn[t].place = turn[t].user
        /\ grant[t].scoped => Secluded(turn[t].snap, turn[t].place)
    BY TurnFacts DEF TurnRec, Sealed, Granted, Covered
  <1>2. CASE turn[t].place \in Channel
    BY <1>1, <1>2 DEF SiloOf, ChannelScoped, Secluded, OwnSilo, Silo, Place
  <1>3. CASE turn[t].place \notin Channel
    BY <1>1, <1>3 DEF SiloOf, ChannelScoped, OwnSilo, Silo, Place
  <1> QED BY <1>2, <1>3

\* What is remembered keeps the memory in order.
LEMMA RememberFine ==
  ASSUME AInv, NEW t \in Turn, NEW silo \in Silo, Remember(t, silo),
         grant[t].scoped => OwnSilo([silo |-> silo, place |-> turn[t].place, private |-> TRUE])
  PROVE  MemoryOK' /\ memory \subseteq memory'
  <1>1. turn[t].place \in Place /\ grant[t].scoped \in BOOLEAN
    BY TurnFacts DEF TurnRec, GrantRec
  <1>2. PICK x : x = [silo |-> silo, place |-> turn[t].place, private |-> grant[t].scoped]
    OBVIOUS
  <1>3. x \in [silo : Silo, place : Place, private : BOOLEAN] /\ (x.private => OwnSilo(x))
    BY <1>1, <1>2 DEF OwnSilo
  <1>4. memory' = memory \cup {x}
    BY <1>2 DEF Remember
  <1>5. \A y \in memory : y.private => OwnSilo(y)
    BY DEF AInv, MemoryOK
  <1> QED BY <1>3, <1>4, <1>5 DEF AInv, MemoryOK, OwnSilo

\* A turn reads no silo in which another place's private records lie.
LEMMA SiloRead ==
  ASSUME AInv, NEW p \in Place, NEW u \in User \cup {None}, p \notin Channel => p = u,
         NEW t, NEW cfg, NEW silo,
         \/ silo = None
         \/ silo = SiloOf(cfg, p, u, t)
         \/ silo = ActorFor(cfg, p, u) /\ (p \in Channel \/ u # None)
         \/ silo = <<"faq", p>> /\ p \in Channel
  PROVE  In(silo) \subseteq memory /\ \A x \in In(silo) : x.private => x.place = p
  <1>1. \A x \in memory : (x.private => OwnSilo(x)) /\ x.silo \in Silo
    BY DEF AInv, MemoryOK
  <1>2. SUFFICES ASSUME NEW x \in memory, x.silo = silo, x.private PROVE x.place = p
    BY DEF In
  <1>3. OwnSilo(x) /\ silo # None
    BY <1>1, <1>2, TurnAssumption
  <1>4. CASE p \in Channel
    BY <1>2, <1>3, <1>4 DEF OwnSilo, SiloOf, ActorFor
  <1>5. CASE p \notin Channel
    BY <1>2, <1>3, <1>5 DEF OwnSilo, SiloOf, ActorFor, ChannelScoped
  <1> QED BY <1>4, <1>5

LEMMA HintRead ==
  ASSUME AInv, NEW t \in Turn, NEW cfg, NEW hint,
         hint = HintFrom(cfg, turn[t].place, turn[t].user)
  PROVE  In(hint) \subseteq memory /\ \A x \in In(hint) : x.private => x.place = turn[t].place
  <1>1. /\ turn[t].place \in Place /\ turn[t].user \in User \cup {None}
        /\ turn[t].place \notin Channel => turn[t].place = turn[t].user
    BY TurnFacts DEF TurnRec, Sealed
  <1>2. CASE hint = None
    BY <1>1, <1>2, SiloRead
  <1>3. CASE hint = ActorFor(cfg, turn[t].place, turn[t].user)
               /\ (turn[t].place \in Channel \/ turn[t].user # None)
    <2>1. PICK p, u : p = turn[t].place /\ u = turn[t].user
      OBVIOUS
    <2>2. /\ p \in Place /\ u \in User \cup {None} /\ (p \notin Channel => p = u)
          /\ hint = ActorFor(cfg, p, u) /\ (p \in Channel \/ u # None)
      BY <1>1, <1>3, <2>1
    <2>3. In(hint) \subseteq memory /\ \A x \in In(hint) : x.private => x.place = p
      BY <2>2, SiloRead
    <2> QED BY <2>1, <2>3
  <1> QED BY <1>2, <1>3 DEF HintFrom

-----------------------------------------------------------------------------
LEMMA FeedbackFine == ASSUME AInv, NEW t \in Turn, Feedback(t) PROVE AInv'
  <1>a. turn[t] \in TurnRec /\ turn[t].at = "load" /\ turn[t].feedback
    BY DEF AInv, Feedback
  <1>1. CASE Over(t) /\ UNCHANGED audit
    <2>1. MemoryOK' /\ AuditOK' /\ memory \subseteq memory' /\ audit \subseteq audit'
      BY <1>1 DEF Feedback, AInv, MemoryOK, OwnSilo, AuditOK
    <2> QED BY <1>a, <1>1, <2>1, OverFine DEF Feedback
  <1>2. ASSUME NEW cfg \in Versions, Log(Row(t, "feedback", 0)), UNCHANGED grant,
               Set(t, [turn[t] EXCEPT !.at = "react", !.snap = cfg])
        PROVE  AInv'
    <2>0. cfg \in Config /\ cfg # None
      BY <1>a, SnapCovered, ConfigFields
    <2>1. PICK r : r = [turn[t] EXCEPT !.at = "react", !.snap = cfg]
      OBVIOUS
    <2>2. r \in TurnRec
      BY <1>a, <2>0, <2>1 DEF TurnRec
    <2>3. /\ Set(t, r) /\ turn'[t] = r
          /\ UNCHANGED <<local, config, lagging, edits, member, memory, grant>>
      BY <1>2, <2>1 DEF AInv, Set, Feedback
    <2>4. /\ r.at = "react" /\ r.feedback = turn[t].feedback /\ r.place = turn[t].place
          /\ r.user = turn[t].user /\ r.snap = cfg
          /\ r.n = turn[t].n /\ r.call = turn[t].call /\ r.hint = turn[t].hint
          /\ r.session = turn[t].session /\ r.seen = turn[t].seen /\ r.reached = turn[t].reached
      BY <1>a, <2>1 DEF TurnRec
    <2>5. AuditOK' /\ audit \subseteq audit'
      BY <1>2, LogFine, TurnAssumption
    <2>6. Granted(turn[t], grant[t])'
      BY <1>a, <2>0, <2>3, <2>4, TurnFacts, SnapCovered
      DEF Granted, Followed, Covered, Versions, Secluded
    <2>7. Reach(turn[t], grant[t])' /\ Sealed(turn[t])'
      BY <1>a, <2>3, <2>4, TurnFacts DEF Reach, Sealed
    <2>8. Logged(t, turn[t])'
      BY <1>a, <2>3, <2>4, <2>5, TurnFacts DEF Logged
    <2>9. MemoryOK' /\ memory \subseteq memory'
      BY <2>3 DEF AInv, MemoryOK, OwnSilo
    <2> QED BY <2>2, <2>3, <2>5, <2>6, <2>7, <2>8, <2>9, TurnGoesOn
  <1> QED BY <1>1, <1>2 DEF Feedback

LEMMA FeedbackMemoryFine == ASSUME AInv, NEW t \in Turn, FeedbackMemory(t) PROVE AInv'
  <1>1. turn[t].at = "react" /\ turn[t].snap # None
    BY TurnFacts DEF FeedbackMemory, Granted
  <1>2. MemoryOK' /\ memory \subseteq memory'
    <2>1. CASE UNCHANGED memory
      BY <2>1 DEF AInv, MemoryOK, OwnSilo
    <2>2. CASE Remember(t, SiloOf(turn[t].snap, turn[t].place, turn[t].user, t))
      BY <1>1, <2>2, SiloIsOwn, RememberFine
    <2> QED BY <2>1, <2>2 DEF FeedbackMemory
  <1>3. AuditOK' /\ audit \subseteq audit'
    BY DEF FeedbackMemory, AInv, AuditOK
  <1>4. turn[t].feedback
    BY <1>1, TurnFacts DEF Logged
  <1> QED BY <1>1, <1>2, <1>3, <1>4, OverFine DEF FeedbackMemory

LEMMA BreakFine == ASSUME AInv, NEW t \in Turn, Break(t) PROVE AInv'
  <1>1. turn[t].at # "new" /\ Over(t) /\ Log(Row(t, "invocation", 0))
    BY DEF Break, Finally
  <1>2. AuditOK' /\ audit \subseteq audit' /\ Row(t, "invocation", 0) \in audit'
    BY <1>1, LogFine, TurnAssumption
  <1>3. MemoryOK' /\ memory \subseteq memory'
    BY DEF Break, AInv, MemoryOK, OwnSilo
  <1> QED BY <1>1, <1>2, <1>3, OverFine DEF Break

LEMMA AnsweredFine == ASSUME AInv, NEW t \in Turn, Answered(t) PROVE AInv'
  <1>1. turn[t].at = "stream" /\ Over(t) /\ Log(Row(t, "invocation", 0))
    BY DEF Answered, Finally
  <1>2. AuditOK' /\ audit \subseteq audit' /\ Row(t, "invocation", 0) \in audit'
    BY <1>1, LogFine, TurnAssumption
  <1>3. turn[t].snap # None /\ turn[t].place \in Place
    BY <1>1, TurnFacts DEF Granted, TurnRec
  <1>4. MemoryOK' /\ memory \subseteq memory'
    <2>1. CASE UNCHANGED memory
      BY <2>1 DEF AInv, MemoryOK, OwnSilo
    <2>2. CASE Remember(t, SiloOf(turn[t].snap, turn[t].place, turn[t].user, t))
      BY <1>3, <2>2, SiloIsOwn, RememberFine
    <2>3. CASE turn[t].place \in Channel /\ Remember(t, <<"faq", turn[t].place>>)
      <3>1. <<"faq", turn[t].place>> \in Silo
        BY <1>3 DEF Silo
      <3>2. OwnSilo([silo |-> <<"faq", turn[t].place>>, place |-> turn[t].place, private |-> TRUE])
        BY <2>3 DEF OwnSilo
      <3> QED BY <2>3, <3>1, <3>2, RememberFine
    <2> QED BY <2>1, <2>2, <2>3 DEF Answered
  <1> QED BY <1>1, <1>2, <1>4, OverFine DEF Answered

LEMMA AssembleFine == ASSUME AInv, NEW t \in Turn, Assemble(t) PROVE AInv'
  <1>a. turn[t] \in TurnRec /\ turn[t].at = "assemble" /\ turn[t].snap # None
    BY TurnFacts DEF Assemble, Granted
  <1>1. PICK hint, session, seen, tools :
          /\ hint = HintFrom(turn[t].snap, turn[t].place, turn[t].user)
          /\ session = IF local THEN None ELSE SiloOf(turn[t].snap, turn[t].place, turn[t].user, t)
          /\ tools = ToolsFor(turn[t].snap, turn[t].place)
          /\ seen = In(hint) \cup In(session) \cup
                      IF local /\ turn[t].snap.faq /\ turn[t].place \in Channel
                      THEN In(<<"faq", turn[t].place>>) ELSE {}
          /\ Set(t, [turn[t] EXCEPT !.at = "stream", !.tools = tools, !.hint = hint,
                                    !.session = session, !.seen = seen])
          /\ IF local THEN UNCHANGED memory ELSE Remember(t, session)
    BY DEF Assemble
  <1>2. /\ turn[t].place \in Place /\ turn[t].user \in User \cup {None}
        /\ turn[t].place \notin Channel => turn[t].place = turn[t].user
    BY TurnFacts DEF TurnRec, Sealed
  <1>3. /\ session \in Silo \cup {None} /\ hint \in Silo \cup {None}
        /\ ~local => session \in Silo
        /\ ~local /\ grant[t].scoped =>
             OwnSilo([silo |-> session, place |-> turn[t].place, private |-> TRUE])
    <2>1. ~local => session \in Silo
      BY <1>a, <1>1, SiloIsOwn
    <2>2. hint \in Silo \cup {None}
      BY <1>1, <1>2 DEF HintFrom, ActorFor, Silo, Place
    <2>3. ~local /\ grant[t].scoped =>
             OwnSilo([silo |-> session, place |-> turn[t].place, private |-> TRUE])
      BY <1>a, <1>1, SiloIsOwn
    <2> QED BY <1>1, <2>1, <2>2, <2>3
  <1>4. seen \subseteq memory /\ \A x \in seen : x.private => x.place = turn[t].place
    <2>1. In(hint) \subseteq memory /\ \A x \in In(hint) : x.private => x.place = turn[t].place
      BY <1>1, HintRead
    <2>2. In(session) \subseteq memory /\ \A x \in In(session) : x.private => x.place = turn[t].place
      <3>1. CASE session = None
        BY <1>2, <3>1, SiloRead
      <3>2. CASE session = SiloOf(turn[t].snap, turn[t].place, turn[t].user, t)
        BY <1>2, <3>2, SiloRead
      <3> QED BY <1>1, <3>1, <3>2
    <2>3. turn[t].place \in Channel =>
            /\ In(<<"faq", turn[t].place>>) \subseteq memory
            /\ \A x \in In(<<"faq", turn[t].place>>) : x.private => x.place = turn[t].place
      BY <1>2, SiloRead
    <2> QED BY <1>1, <2>1, <2>2, <2>3
  <1>5. hint # None => hint = session
    BY <1>1, <1>2 DEF HintFrom, ActorFor, SiloOf, ChannelScoped
  <1>6. tools \subseteq Tool
    <2>1. turn[t].snap \in ConfigSpace
      BY <1>a, TurnAssumption DEF TurnRec
    <2>2. /\ turn[t].snap.allowed \subseteq Tool /\ turn[t].snap.skill \subseteq Tool
          /\ turn[t].snap.persona \in [Channel -> (SUBSET Tool) \cup {None}]
      BY <2>1 DEF ConfigSpace
    <2>3. "manage_config" \in Tool
      BY DEF Tool, OtherTools
    <2>4. turn[t].place \in Channel /\ turn[t].snap.persona[turn[t].place] # None
            => turn[t].snap.persona[turn[t].place] \subseteq Tool
      BY <2>2
    <2> QED BY <1>1, <2>2, <2>3, <2>4 DEF ToolsFor
  <1>7. PICK r : r = [turn[t] EXCEPT !.at = "stream", !.tools = tools, !.hint = hint,
                                     !.session = session, !.seen = seen]
    OBVIOUS
  <1>8. r \in TurnRec
    BY <1>a, <1>3, <1>4, <1>6, <1>7 DEF TurnRec
  <1>9. /\ Set(t, r) /\ turn'[t] = r
        /\ UNCHANGED <<local, config, lagging, edits, member, audit, grant>>
    BY <1>1, <1>7 DEF AInv, Set, Assemble
  <1>10. /\ r.at = "stream" /\ r.feedback = turn[t].feedback /\ r.place = turn[t].place
         /\ r.user = turn[t].user /\ r.snap = turn[t].snap
         /\ r.n = turn[t].n /\ r.call = turn[t].call /\ r.hint = hint
         /\ r.session = session /\ r.seen = seen /\ r.reached = turn[t].reached
    BY <1>a, <1>7 DEF TurnRec
  <1>11. MemoryOK' /\ memory \subseteq memory'
    <2>1. CASE local
      BY <1>1, <2>1 DEF AInv, MemoryOK, OwnSilo
    <2>2. CASE ~local
      BY <1>1, <1>3, <2>2, RememberFine
    <2> QED BY <2>1, <2>2
  <1>12. AuditOK' /\ audit \subseteq audit'
    BY <1>9 DEF AInv, AuditOK
  <1>13. Granted(turn[t], grant[t])'
    BY <1>a, <1>9, <1>10, TurnFacts DEF Granted, Followed, Covered, Versions, Secluded
  <1>14. Reach(turn[t], grant[t])'
    BY <1>a, <1>9, <1>10, TurnFacts DEF Reach
  <1>15. Sealed(turn[t])'
    BY <1>2, <1>4, <1>5, <1>9, <1>10 DEF Sealed
  <1>16. Logged(t, turn[t])'
    BY <1>a, <1>9, <1>10, TurnFacts DEF Logged
  <1> QED BY <1>8, <1>9, <1>11, <1>12, <1>13, <1>14, <1>15, <1>16, TurnGoesOn

-----------------------------------------------------------------------------
(* A tool call.                                                            *)

\* A call goes on, and reaches what it was granted.
LEMMA CallFine ==
  ASSUME AInv, NEW t \in Turn, NEW r \in TurnRec, Set(t, r),
         UNCHANGED <<local, config, lagging, edits, member, grant>>,
         memory \subseteq memory', audit \subseteq audit', MemoryOK', AuditOK',
         r.at = turn[t].at, r.feedback = turn[t].feedback, r.place = turn[t].place,
         r.user = turn[t].user, r.link = turn[t].link, r.snap = turn[t].snap,
         r.hint = turn[t].hint, r.session = turn[t].session, r.n = turn[t].n,
         r.call # NoCall, turn[t].call # NoCall,
         r.reached \subseteq grant[t].repos \cup grant[t].channels,
         r.call.at = "allowed" =>
           /\ r.call.tool \in RepoTools => r.call.target \in grant[t].repos
           /\ r.call.tool \in ChannelTools \cup {"escalate"} => r.call.target \in grant[t].channels,
         \A x \in r.seen : x.private => x.place = turn[t].place
  PROVE  AInv'
  <1>1. turn'[t] = r
    BY DEF AInv, Set
  <1>2. Granted(turn[t], grant[t])'
    BY <1>1, TurnFacts DEF Granted, Followed, Covered, Versions, Secluded
  <1>3. Reach(turn[t], grant[t])'
    BY <1>1, TurnFacts DEF Reach
  <1>4. Sealed(turn[t])'
    BY <1>1, TurnFacts DEF Sealed
  <1>5. Logged(t, turn[t])'
    BY <1>1, TurnFacts DEF Logged
  <1> QED BY <1>2, <1>3, <1>4, <1>5, TurnGoesOn

LEMMA MemoryStays == AInv /\ UNCHANGED memory => MemoryOK' /\ memory \subseteq memory'
  BY DEF AInv, MemoryOK, OwnSilo
LEMMA AuditStays == AInv /\ UNCHANGED audit => AuditOK' /\ audit \subseteq audit'
  BY DEF AInv, AuditOK

LEMMA AskFine == ASSUME AInv, NEW t \in Turn, Ask(t) PROVE AInv'
  <1>a. /\ turn[t] \in TurnRec /\ turn[t].at = "stream" /\ turn[t].call = NoCall /\ turn[t].n < MaxCalls
        /\ turn[t].n \in Nat /\ MaxCalls \in Nat
    BY TurnFacts, TurnAssumption DEF Ask, TurnRec
  <1>1. PICK tool \in turn[t].tools, target \in Repo \cup Named \cup {None} :
          Set(t, [turn[t] EXCEPT !.n = @ + 1,
                    !.call = [tool |-> tool, target |-> target, at |-> "asked"]])
    BY DEF Ask
  <1>2. PICK r : r = [turn[t] EXCEPT !.n = @ + 1,
                        !.call = [tool |-> tool, target |-> target, at |-> "asked"]]
    OBVIOUS
  <1>3. r \in TurnRec
    <2>1. tool \in Tool /\ target \in Repo \cup Channel \cup {None} /\ turn[t].n + 1 \in 0 .. MaxCalls
      BY <1>a, TurnAssumption DEF TurnRec
    <2> QED BY <1>a, <1>2, <2>1 DEF TurnRec
  <1>4. /\ Set(t, r) /\ turn'[t] = r
        /\ UNCHANGED <<local, config, lagging, edits, member, memory, audit, grant>>
    BY <1>1, <1>2 DEF AInv, Set, Ask
  <1>5. /\ r.at = "stream" /\ r.feedback = turn[t].feedback /\ r.place = turn[t].place
        /\ r.user = turn[t].user /\ r.snap = turn[t].snap /\ r.n = turn[t].n + 1
        /\ r.hint = turn[t].hint /\ r.session = turn[t].session /\ r.seen = turn[t].seen
        /\ r.reached = turn[t].reached
        /\ r.call = [tool |-> tool, target |-> target, at |-> "asked"]
    BY <1>a, <1>2 DEF TurnRec
  <1>6. r.call # NoCall /\ r.call.at = "asked"
    BY <1>5 DEF NoCall
  <1>7. Granted(turn[t], grant[t])'
    BY <1>a, <1>4, <1>5, TurnFacts DEF Granted, Followed, Covered, Versions, Secluded
  <1>8. Reach(turn[t], grant[t])'
    BY <1>4, <1>5, <1>6, TurnFacts DEF Reach
  <1>9. Sealed(turn[t])'
    BY <1>4, <1>5, TurnFacts DEF Sealed
  <1>10. Logged(t, turn[t])'
    <2>1. turn[t].feedback = FALSE
      BY <1>a, TurnFacts DEF Logged, TurnRec
    <2>2. \A k \in 1 .. turn[t].n : Row(t, "tool_call", k) \in audit
      BY <1>a, TurnFacts DEF Logged
    <2>3. \A k \in 1 .. r.n : k \in 1 .. turn[t].n \/ k = r.n
      BY <1>a, <1>5
    <2> QED BY <1>4, <1>5, <1>6, <2>1, <2>2, <2>3 DEF Logged
  <1> QED BY <1>3, <1>4, <1>7, <1>8, <1>9, <1>10, TurnAlone

LEMMA DecideFine == ASSUME AInv, NEW t \in Turn, Decide(t) PROVE AInv'
  <1>a. /\ turn[t] \in TurnRec /\ turn[t].call.at = "asked" /\ turn[t].call # NoCall
        /\ turn[t].snap # None
    BY TurnFacts DEF Decide, At, NoCall, Granted
  <1>1. PICK yes \in Permits(t) :
          Set(t, [turn[t] EXCEPT !.call.at = IF yes THEN "allowed" ELSE "ended"])
    BY DEF Decide, Step
  <1>2. PICK step \in {"allowed", "ended"} : step = IF yes THEN "allowed" ELSE "ended"
    OBVIOUS
  <1>3. PICK r : r = [turn[t] EXCEPT !.call.at = step]
    OBVIOUS
  <1>4. Set(t, r)
    BY <1>1, <1>2, <1>3
  <1>5. r \in TurnRec
    BY <1>a, <1>3 DEF TurnRec
  <1>6. /\ r.at = turn[t].at /\ r.feedback = turn[t].feedback /\ r.place = turn[t].place
        /\ r.user = turn[t].user /\ r.link = turn[t].link /\ r.snap = turn[t].snap
        /\ r.hint = turn[t].hint /\ r.session = turn[t].session /\ r.n = turn[t].n
        /\ r.seen = turn[t].seen /\ r.reached = turn[t].reached
        /\ r.call.tool = turn[t].call.tool /\ r.call.target = turn[t].call.target
        /\ r.call.at = step
    BY <1>a, <1>3 DEF TurnRec
  <1>7. r.call # NoCall
    BY <1>6 DEF NoCall
  <1>8. step = "allowed" /\ turn[t].call.tool \in RepoTools => turn[t].call.target \in grant[t].repos
    <2> SUFFICES ASSUME step = "allowed", turn[t].call.tool \in RepoTools
                 PROVE  turn[t].call.target \in grant[t].repos
      OBVIOUS
    <2>1. AuthorizeRepo(turn[t].snap, turn[t].call.target)
      BY <1>1, <1>2 DEF Permits
    <2> QED BY <1>a, <2>1, TurnFacts DEF AuthorizeRepo, Granted, Covered, Bound
  <1>9. step = "allowed" /\ turn[t].call.tool \in ChannelTools => turn[t].call.target \in grant[t].channels
    <2> SUFFICES ASSUME step = "allowed", turn[t].call.tool \in ChannelTools
                 PROVE  turn[t].call.target \in grant[t].channels
      OBVIOUS
    <2>1. turn[t].call.tool \notin RepoTools
      BY DEF RepoTools, ChannelTools
    <2>2. turn[t].place \in Channel /\ TRUE \in Admits(t, turn[t].call.target)
      BY <1>1, <1>2, <2>1 DEF Permits, Admits, MemberSays
    <2>3. turn[t].call.target \in Channel
      <3>1. CASE turn[t].call.target = turn[t].place
        BY <2>2, <3>1
      <3>2. CASE turn[t].call.target # turn[t].place
        <4>1. <<turn[t].call.target, turn[t].user>> \in member
          BY <2>2, <3>2 DEF Admits, MemberSays
        <4> QED BY <4>1 DEF AInv
      <3> QED BY <3>1, <3>2
    <2>4. Followed(turn[t])
      BY <2>2, TurnAssumption DEF Followed
    <2> QED BY <2>2, <2>3, <2>4, AdmitsGranted
  <1>10. step = "allowed" /\ turn[t].call.tool = "escalate" => turn[t].call.target \in grant[t].channels
    <2> SUFFICES ASSUME step = "allowed", turn[t].call.tool = "escalate"
                 PROVE  turn[t].call.target \in grant[t].channels
      OBVIOUS
    <2>1. turn[t].call.tool \notin RepoTools /\ turn[t].call.tool \notin ChannelTools
      BY DEF RepoTools, ChannelTools
    <2>2. turn[t].call.target \in turn[t].snap.routes
      BY <1>1, <1>2, <2>1 DEF Permits
    <2> QED BY <1>a, <2>2, TurnFacts DEF Granted, Covered
  <1>11. /\ r.reached \subseteq grant[t].repos \cup grant[t].channels
         /\ \A x \in r.seen : x.private => x.place = turn[t].place
    BY <1>6, TurnFacts DEF Reach, Sealed
  <1>12. UNCHANGED <<local, config, lagging, edits, member, memory, audit, grant>>
    BY DEF Decide
  <1> QED BY <1>a, <1>4, <1>5, <1>6, <1>7, <1>8, <1>9, <1>10, <1>11, <1>12,
             CallFine, MemoryStays, AuditStays

\* A call that was allowed and does its work: it ends, or raises.
LEMMA WorkFine ==
  ASSUME AInv, NEW t \in Turn, NEW step \in {"ended", "raised"}, NEW reached, NEW seen,
         turn[t].call.at = "allowed",
         reached \subseteq (grant[t].repos \cup grant[t].channels),
         seen \subseteq memory, \A x \in seen : x.private => x.place = turn[t].place,
         Set(t, [turn[t] EXCEPT !.call.at = step, !.reached = reached, !.seen = seen]),
         UNCHANGED <<local, config, lagging, edits, member, grant>>,
         memory \subseteq memory', audit \subseteq audit', MemoryOK', AuditOK'
  PROVE  AInv'
  <1>a. /\ turn[t] \in TurnRec /\ turn[t].call # NoCall
        /\ reached \in SUBSET (Repo \cup Channel) /\ seen \in SUBSET memory
    BY TurnFacts DEF NoCall, GrantRec
  <1>b. turn[t].call \in [tool : Tool \cup {None}, target : Repo \cup Channel \cup {None},
                          at : {"none", "asked", "allowed", "ended", "raised"}]
    BY <1>a DEF TurnRec
  <1>c. PICK call : call = [turn[t].call EXCEPT !.at = step]
    OBVIOUS
  <1>d. call \in [tool : Tool \cup {None}, target : Repo \cup Channel \cup {None},
                 at : {"none", "asked", "allowed", "ended", "raised"}] /\ call.at = step
    BY <1>b, <1>c
  <1>1. PICK r : r = [turn[t] EXCEPT !.call = call, !.reached = reached, !.seen = seen]
    OBVIOUS
  <1>e. Set(t, r)
    BY <1>1, <1>c
  <1>2. r \in TurnRec
    BY <1>a, <1>d, <1>1 DEF TurnRec
  <1>3. /\ r.at = turn[t].at /\ r.feedback = turn[t].feedback /\ r.place = turn[t].place
        /\ r.user = turn[t].user /\ r.link = turn[t].link /\ r.snap = turn[t].snap
        /\ r.hint = turn[t].hint /\ r.session = turn[t].session /\ r.n = turn[t].n
        /\ r.seen = seen /\ r.reached = reached /\ r.call.at = step
    BY <1>a, <1>d, <1>1 DEF TurnRec
  <1>4. r.call # NoCall
    BY <1>3 DEF NoCall
  <1> QED BY <1>a, <1>e, <1>2, <1>3, <1>4, CallFine

\* The same when it has seen nothing more.
LEMMA WorkReaches ==
  ASSUME AInv, NEW t \in Turn, NEW step \in {"ended", "raised"}, NEW reached,
         turn[t].call.at = "allowed",
         reached \subseteq (grant[t].repos \cup grant[t].channels),
         Set(t, [turn[t] EXCEPT !.call.at = step, !.reached = reached]),
         UNCHANGED <<local, config, lagging, edits, member, grant>>,
         memory \subseteq memory', audit \subseteq audit', MemoryOK', AuditOK'
  PROVE  AInv'
  <1>1. turn[t] \in TurnRec
    BY TurnFacts
  <1>2. turn[t].seen \subseteq memory
    BY <1>1 DEF TurnRec
  <1>3. \A x \in turn[t].seen : x.private => x.place = turn[t].place
    BY TurnFacts DEF Sealed
  <1>4. PICK seen : seen = turn[t].seen
    OBVIOUS
  <1>5. [turn[t] EXCEPT !.call.at = step, !.reached = reached]
          = [turn[t] EXCEPT !.call.at = step, !.reached = reached, !.seen = seen]
    BY <1>1, <1>4 DEF TurnRec
  <1>6. Set(t, [turn[t] EXCEPT !.call.at = step, !.reached = reached, !.seen = seen])
    BY <1>5
  <1> QED BY <1>2, <1>3, <1>4, <1>6, WorkFine

\* ... and has reached nothing more either.
LEMMA StepWorks ==
  ASSUME AInv, NEW t \in Turn, NEW step \in {"ended", "raised"},
         turn[t].call.at = "allowed", Step(t, step),
         UNCHANGED <<local, config, lagging, edits, member, grant>>,
         memory \subseteq memory', audit \subseteq audit', MemoryOK', AuditOK'
  PROVE  AInv'
  <1>1. turn[t] \in TurnRec /\ turn[t].reached \subseteq grant[t].repos \cup grant[t].channels
    BY TurnFacts DEF Reach
  <1>2. PICK reached : reached = turn[t].reached
    OBVIOUS
  <1>3. [turn[t] EXCEPT !.call.at = step]
          = [turn[t] EXCEPT !.call.at = step, !.reached = reached]
    BY <1>1, <1>2 DEF TurnRec
  <1>4. Set(t, [turn[t] EXCEPT !.call.at = step, !.reached = reached])
    BY <1>3 DEF Step
  <1> QED BY <1>1, <1>2, <1>4, WorkReaches

\* What a call was allowed to touch, it was granted.
LEMMA TargetGranted ==
  ASSUME AInv, NEW t \in Turn, turn[t].call.at = "allowed",
         turn[t].call.tool \in RepoTools \cup ChannelTools \cup {"escalate"}
  PROVE  turn[t].reached \cup {Target(t)} \subseteq grant[t].repos \cup grant[t].channels
  BY TurnFacts DEF Reach, Target

LEMMA ReadRepoFine == ASSUME AInv, NEW t \in Turn, ReadRepo(t) PROVE AInv'
  <1>1. turn[t] \in TurnRec /\ turn[t].call.at = "allowed"
    BY TurnFacts DEF ReadRepo, At
  <1>2. PICK reached : reached = turn[t].reached \cup {Target(t)}
    OBVIOUS
  <1>3. reached \subseteq grant[t].repos \cup grant[t].channels
    BY <1>1, <1>2, TargetGranted DEF ReadRepo
  <1>4. Set(t, [turn[t] EXCEPT !.call.at = "ended", !.reached = reached])
    BY <1>1, <1>2 DEF ReadRepo, TurnRec
  <1>5. UNCHANGED <<local, config, lagging, edits, member, memory, audit, grant>>
    BY DEF ReadRepo
  <1> QED BY <1>1, <1>3, <1>4, <1>5, WorkReaches, MemoryStays, AuditStays

LEMMA UseSlackFine == ASSUME AInv, NEW t \in Turn, UseSlack(t) PROVE AInv'
  <1>1. turn[t] \in TurnRec /\ turn[t].call.at = "allowed"
    BY TurnFacts DEF UseSlack, At
  <1>2. PICK reached : reached = turn[t].reached \cup {Target(t)}
    OBVIOUS
  <1>3. reached \subseteq grant[t].repos \cup grant[t].channels
    BY <1>1, <1>2, TargetGranted DEF UseSlack
  <1>4. PICK step \in {"ended", "raised"} :
          Set(t, [turn[t] EXCEPT !.call.at = step, !.reached = reached])
    BY <1>1, <1>2 DEF UseSlack, TurnRec
  <1>5. UNCHANGED <<local, config, lagging, edits, member, memory, audit, grant>>
    BY DEF UseSlack
  <1> QED BY <1>1, <1>3, <1>4, <1>5, WorkReaches, MemoryStays, AuditStays

LEMMA AskChoiceFine == ASSUME AInv, NEW t \in Turn, AskChoice(t) PROVE AInv'
  <1>1. turn[t] \in TurnRec /\ turn[t].call.at = "allowed"
    BY TurnFacts DEF AskChoice, At
  <1>2. PICK reached : reached = turn[t].reached \cup ({turn[t].place} \cap Channel)
    OBVIOUS
  <1>3. reached \subseteq grant[t].repos \cup grant[t].channels
    BY <1>2, TurnFacts DEF Reach, Granted
  <1>4. PICK step \in {"ended", "raised"} :
          Set(t, [turn[t] EXCEPT !.call.at = step, !.reached = reached])
    BY <1>1, <1>2 DEF AskChoice, TurnRec
  <1>5. UNCHANGED <<local, config, lagging, edits, member, memory, audit, grant>>
    BY DEF AskChoice
  <1> QED BY <1>1, <1>3, <1>4, <1>5, WorkReaches, MemoryStays, AuditStays

LEMMA RecordFeedbackFine == ASSUME AInv, NEW t \in Turn, RecordFeedback(t) PROVE AInv'
  <1>1. turn[t] \in TurnRec /\ turn[t].call.at = "allowed" /\ turn[t].snap # None
    BY TurnFacts DEF RecordFeedback, At, NoCall, Granted
  <1>2. turn[t].n \in 0 .. MaxCalls
    BY <1>1 DEF TurnRec
  <1>3. AuditOK' /\ audit \subseteq audit'
    BY <1>2, LogFine DEF RecordFeedback
  <1>4. MemoryOK' /\ memory \subseteq memory'
    BY <1>1, SiloIsOwn, RememberFine DEF RecordFeedback
  <1> QED BY <1>1, <1>3, <1>4, StepWorks DEF RecordFeedback

LEMMA InspectFine == ASSUME AInv, NEW t \in Turn, Inspect(t) PROVE AInv'
  <1>1. turn[t] \in TurnRec /\ turn[t].call.at = "allowed"
    BY TurnFacts DEF Inspect, At
  <1>0. PICK cfg \in Versions :
          Set(t, [turn[t] EXCEPT !.call.at = "ended",
                    !.seen = @ \cup In(HintFrom(cfg, turn[t].place, turn[t].user))])
    BY DEF Inspect
  <1>2. PICK hint : hint = HintFrom(cfg, turn[t].place, turn[t].user)
    OBVIOUS
  <1>3. PICK seen : seen = turn[t].seen \cup In(hint)
    OBVIOUS
  <1>4. seen \subseteq memory /\ \A x \in seen : x.private => x.place = turn[t].place
    <2>1. turn[t].seen \subseteq memory
      BY <1>1 DEF TurnRec
    <2>2. \A x \in turn[t].seen : x.private => x.place = turn[t].place
      BY TurnFacts DEF Sealed
    <2>3. In(hint) \subseteq memory /\ \A x \in In(hint) : x.private => x.place = turn[t].place
      BY <1>2, HintRead
    <2> QED BY <1>3, <2>1, <2>2, <2>3
  <1>5. PICK reached : reached = turn[t].reached
    OBVIOUS
  <1>6. reached \subseteq grant[t].repos \cup grant[t].channels
    BY <1>5, TurnFacts DEF Reach
  <1>7. Set(t, [turn[t] EXCEPT !.call.at = "ended", !.seen = seen])
    BY <1>0, <1>1, <1>2, <1>3 DEF TurnRec
  <1>8. [turn[t] EXCEPT !.call.at = "ended", !.seen = seen]
          = [turn[t] EXCEPT !.call.at = "ended", !.reached = reached, !.seen = seen]
    BY <1>1, <1>5 DEF TurnRec
  <1>9. Set(t, [turn[t] EXCEPT !.call.at = "ended", !.reached = reached, !.seen = seen])
    BY <1>7, <1>8
  <1>10. UNCHANGED <<local, config, lagging, edits, member, memory, audit, grant>>
    BY DEF Inspect
  <1> QED BY <1>1, <1>4, <1>6, <1>9, <1>10, WorkFine, MemoryStays, AuditStays

LEMMA OtherToolFine == ASSUME AInv, NEW t \in Turn, OtherTool(t) PROVE AInv'
  <1>1. turn[t].call.at = "allowed"
    BY DEF OtherTool, At
  <1>2. PICK step \in {"ended", "raised"} : Step(t, step)
    BY DEF OtherTool
  <1>3. UNCHANGED <<local, config, lagging, edits, member, memory, audit, grant>>
    BY DEF OtherTool
  <1> QED BY <1>1, <1>2, <1>3, StepWorks, MemoryStays, AuditStays

LEMMA AuditedFine == ASSUME AInv, NEW t \in Turn, Audited(t) PROVE AInv'
  <1>1. /\ turn[t] \in TurnRec /\ turn[t].call # NoCall /\ ~turn[t].feedback
        /\ UNCHANGED <<local, config, lagging, edits, member, memory, grant>>
    BY TurnFacts DEF Audited, At, NoCall, Logged
  <1>2. turn[t].n \in 0 .. MaxCalls /\ turn[t].n \in Nat
    BY <1>1 DEF TurnRec
  <1>3. AuditOK' /\ audit \subseteq audit' /\ Row(t, "tool_call", turn[t].n) \in audit'
    BY <1>2, LogFine DEF Audited, Record
  <1>4. \A k \in 1 .. turn[t].n : Row(t, "tool_call", k) \in audit'
    BY <1>3, TurnFacts DEF Logged
  <1>5. CASE turn[t].at # "done"
    <2>1. PICK r : r = [turn[t] EXCEPT !.call = NoCall]
      OBVIOUS
    <2>2. r \in TurnRec
      BY <1>1, <2>1 DEF TurnRec, NoCall
    <2>3. Set(t, r) /\ turn'[t] = r
      BY <1>5, <2>1 DEF AInv, Set, Audited
    <2>4. /\ r.at = turn[t].at /\ r.feedback = turn[t].feedback /\ r.place = turn[t].place
          /\ r.user = turn[t].user /\ r.link = turn[t].link /\ r.snap = turn[t].snap
          /\ r.n = turn[t].n /\ r.call = NoCall /\ r.hint = turn[t].hint
          /\ r.session = turn[t].session /\ r.seen = turn[t].seen /\ r.reached = turn[t].reached
      BY <1>1, <2>1 DEF TurnRec
    <2>5. Granted(turn[t], grant[t])'
      BY <1>1, <2>3, <2>4, TurnFacts DEF Granted, Followed, Covered, Versions, Secluded
    <2>6. Reach(turn[t], grant[t])' /\ Sealed(turn[t])'
      BY <1>1, <2>3, <2>4, TurnFacts DEF Reach, Sealed, NoCall
    <2>7. Logged(t, turn[t])'
      BY <1>1, <1>4, <1>5, <2>3, <2>4, TurnFacts DEF Logged
    <2> QED BY <1>1, <1>3, <2>2, <2>3, <2>5, <2>6, <2>7, TurnGoesOn, MemoryStays
  <1>6. CASE turn[t].at = "done"
    <2>1. PICK r : r = [NewTurn EXCEPT !.at = "done", !.n = turn[t].n]
      OBVIOUS
    <2>2. r \in TurnRec
      BY <1>2, <2>1, NewTurnTyped DEF TurnRec
    <2>3. Set(t, r) /\ turn'[t] = r
      BY <1>6, <2>1 DEF AInv, Set, Audited
    <2>4. /\ r.at = "done" /\ ~r.feedback /\ r.place = None /\ r.user = None
          /\ r.link = None /\ r.snap = None /\ r.n = turn[t].n /\ r.call = NoCall
          /\ r.hint = None /\ r.seen = {} /\ r.reached = {}
      BY <2>1 DEF NewTurn
    <2>5. Granted(turn[t], grant[t])' /\ Reach(turn[t], grant[t])' /\ Sealed(turn[t])'
      BY <2>3, <2>4, TurnAssumption DEF Granted, Followed, Reach, Sealed, NoCall
    <2>6. Row(t, "invocation", 0) \in audit'
      BY <1>1, <1>3, <1>6, TurnFacts DEF Logged
    <2>7. Logged(t, turn[t])'
      BY <1>4, <2>3, <2>4, <2>6 DEF Logged
    <2> QED BY <1>1, <1>3, <2>2, <2>3, <2>5, <2>7, TurnGoesOn, MemoryStays
  <1> QED BY <1>5, <1>6

-----------------------------------------------------------------------------
(* The row or a membership changes: what was granted stays granted.        *)

LEMMA RegrantFine ==
  ASSUME AInv, NEW cfg \in Config, config' = cfg, lagging' = Versions,
         edits' \in 0 .. MaxEdits, Regrant(cfg),
         UNCHANGED <<local, member, turn, memory, audit>>
  PROVE  AInv'
  <1>1. Bound(cfg) \subseteq Repo /\ cfg.routes \subseteq Channel
    BY ConfigFields
  <1>3. ASSUME NEW t \in Turn
        PROVE  grant'[t] = IF ~Followed(turn[t]) THEN grant[t]
                           ELSE [repos    |-> grant[t].repos \cup Bound(cfg),
                                 channels |-> grant[t].channels \cup cfg.routes,
                                 scoped   |-> grant[t].scoped /\ Secluded(cfg, turn[t].place)]
    BY DEF Regrant, Followed
  <1>4. ASSUME NEW t \in Turn
        PROVE  /\ grant'[t] \in GrantRec
               /\ grant[t].repos \subseteq grant'[t].repos
               /\ grant[t].channels \subseteq grant'[t].channels
               /\ grant'[t].scoped => grant[t].scoped
               /\ Followed(turn[t]) => Covered(grant'[t], cfg, turn[t].place)
    <2>1. CASE ~Followed(turn[t])
      BY <1>3, <2>1, TurnFacts
    <2>2. CASE Followed(turn[t])
      <3>1. PICK a, b, scoped : /\ a = grant[t].repos \cup Bound(cfg)
                                /\ b = grant[t].channels \cup cfg.routes
                                /\ scoped = (grant[t].scoped /\ Secluded(cfg, turn[t].place))
        OBVIOUS
      <3>2. grant[t].repos \subseteq Repo /\ grant[t].channels \subseteq Channel
        BY TurnFacts DEF GrantRec
      <3>3. /\ a \in SUBSET Repo /\ b \in SUBSET Channel /\ scoped \in BOOLEAN
            /\ grant[t].repos \subseteq a /\ grant[t].channels \subseteq b
            /\ Bound(cfg) \subseteq a /\ cfg.routes \subseteq b
        BY <1>1, <3>1, <3>2
      <3>4. scoped => grant[t].scoped /\ Secluded(cfg, turn[t].place)
        BY <3>1
      <3>5. grant'[t] = [repos |-> a, channels |-> b, scoped |-> scoped]
        BY <1>3, <2>2, <3>1
      <3> QED BY <3>3, <3>4, <3>5 DEF GrantRec, Covered
    <2> QED BY <2>1, <2>2
  <1>5. grant' \in [Turn -> GrantRec]
    <2>1. grant' = [t \in Turn |-> grant'[t]]
      BY DEF Regrant
    <2> QED BY <1>4, <2>1
  <1>6. ASSUME NEW t \in Turn PROVE Fine(t, turn[t], grant[t])'
    <2>1. turn'[t] = turn[t] /\ Fine(t, turn[t], grant[t])
      BY DEF AInv
    <2>2. Granted(turn[t], grant[t])'
      <3>1. Followed(turn[t]) => \A c \in Versions' : Covered(grant'[t], c, turn[t].place)
        <4>1. \A c \in Versions' : c = cfg \/ c \in Versions
          BY DEF Versions
        <4>2. Followed(turn[t]) => \A c \in Versions : Covered(grant[t], c, turn[t].place)
          BY <2>1 DEF Fine, Granted
        <4>3. Followed(turn[t]) => Covered(grant'[t], cfg, turn[t].place)
          BY <1>4
        <4>4. \A c : Covered(grant[t], c, turn[t].place) => Covered(grant'[t], c, turn[t].place)
          BY <1>4 DEF Covered
        <4> QED BY <4>1, <4>2, <4>3, <4>4
      <3>2. turn[t].snap # None => Covered(grant'[t], turn[t].snap, turn[t].place)
        BY <1>4, <2>1 DEF Fine, Granted, Covered
      <3>3. Followed(turn[t]) =>
              \A c \in Channel : <<c, turn[t].user>> \in member => c \in grant'[t].channels
        BY <1>4, <2>1 DEF Fine, Granted
      <3> QED BY <1>4, <2>1, <3>1, <3>2, <3>3 DEF Fine, Granted, Followed, Covered, Secluded
    <2>3. Reach(turn[t], grant[t])'
      BY <1>4, <2>1 DEF Fine, Reach
    <2>4. Sealed(turn[t])' /\ Logged(t, turn[t])' /\ turn'[t] \in TurnRec'
      BY <2>1 DEF Fine, Sealed, Logged, TurnRec
    <2>5. grant'[t] \in GrantRec'
      BY <1>4 DEF GrantRec
    <2> QED BY <2>2, <2>3, <2>4, <2>5 DEF Fine
  <1>7. MemoryOK' /\ AuditOK' /\ turn' \in [Turn -> TurnRec']
    BY MemoryStays, AuditStays DEF AInv, TurnRec
  <1>8. /\ local' \in BOOLEAN /\ config' \in Config /\ member' \subseteq Channel \X User
        /\ lagging' \subseteq Config
    BY DEF AInv, Versions
  <1> QED BY <1>5, <1>6, <1>7, <1>8 DEF AInv, GrantRec

LEMMA ChangeCounts == ASSUME AInv, Change PROVE edits' \in 0 .. MaxEdits
  <1>1. edits \in Nat /\ MaxEdits \in Nat /\ edits < MaxEdits /\ edits' = edits + 1
    BY TurnAssumption DEF AInv, Change
  <1> QED BY <1>1

LEMMA EditConfigFine == ASSUME AInv, EditConfig PROVE AInv'
  <1>1. PICK cfg \in Config : cfg = config' /\ Regrant(cfg)
    BY DEF EditConfig
  <1>2. lagging' = Versions /\ UNCHANGED <<local, member, turn, memory, audit>>
    BY DEF EditConfig, Change
  <1>3. edits' \in 0 .. MaxEdits
    BY ChangeCounts DEF EditConfig
  <1> QED BY <1>1, <1>2, <1>3, RegrantFine

\* Fewer versions that a read may answer, or fewer members: what was granted
\* covers these too.
LEMMA LessFine ==
  ASSUME AInv, config' = config, lagging' \subseteq lagging, member' \subseteq member,
         edits' \in 0 .. MaxEdits, UNCHANGED <<local, turn, memory, audit, grant>>
  PROVE  AInv'
  <1>1. ASSUME NEW t \in Turn PROVE Fine(t, turn[t], grant[t])'
    <2>1. turn'[t] = turn[t] /\ grant'[t] = grant[t] /\ Fine(t, turn[t], grant[t])
      BY DEF AInv
    <2>2. Granted(turn[t], grant[t])'
      BY <2>1 DEF Fine, Granted, Followed, Covered, Versions, Secluded
    <2>3. Reach(turn[t], grant[t])' /\ Sealed(turn[t])' /\ Logged(t, turn[t])'
      BY <2>1 DEF Fine, Reach, Sealed, Logged
    <2> QED BY <2>1, <2>2, <2>3 DEF Fine, TurnRec, GrantRec
  <1>2. MemoryOK' /\ AuditOK' /\ turn' \in [Turn -> TurnRec']
    BY MemoryStays, AuditStays DEF AInv, TurnRec
  <1>3. /\ local' \in BOOLEAN /\ config' \in Config /\ lagging' \subseteq Config
        /\ member' \subseteq Channel \X User /\ grant' \in [Turn -> GrantRec]
    BY DEF AInv
  <1> QED BY <1>1, <1>2, <1>3 DEF AInv, GrantRec

LEMMA CatchUpFine == ASSUME AInv, NEW cfg, CatchUp(cfg) PROVE AInv'
  BY LessFine DEF CatchUp, AInv

LEMMA LeaveFine ==
  ASSUME AInv, NEW c \in Channel, NEW u \in User, Leave(c, u) PROVE AInv'
  <1>1. edits' \in 0 .. MaxEdits
    BY ChangeCounts DEF Leave
  <1>2. /\ member' \subseteq member /\ config' = config /\ lagging' = lagging
        /\ UNCHANGED <<local, turn, memory, audit, grant>>
    BY DEF Leave, Change
  <1> QED BY <1>1, <1>2, LessFine

-----------------------------------------------------------------------------
(* The invariant.                                                          *)

LEMMA AInit == AgentTurnInit => AInv
  <1> SUFFICES ASSUME AgentTurnInit PROVE AInv
    OBVIOUS
  <1>1. turn \in [Turn -> TurnRec] /\ grant \in [Turn -> GrantRec]
    BY NewTurnTyped DEF AgentTurnInit
  <1>2. member \subseteq Channel \X User /\ 0 \in 0 .. MaxEdits
    BY TurnAssumption DEF AgentTurnInit
  <1>3. MemoryOK /\ AuditOK
    BY DEF AgentTurnInit, MemoryOK, AuditOK
  <1>4. ASSUME NEW t \in Turn PROVE Fine(t, turn[t], grant[t])
    <2>1. turn[t] = NewTurn /\ grant[t] = Nothing
      BY DEF AgentTurnInit
    <2>2. /\ NewTurn.at = "new" /\ ~NewTurn.feedback /\ NewTurn.place = None
          /\ NewTurn.user = None /\ NewTurn.snap = None /\ NewTurn.call = NoCall
          /\ NewTurn.n = 0 /\ NewTurn.hint = None /\ NewTurn.seen = {} /\ NewTurn.reached = {}
      BY DEF NewTurn
    <2>3. Granted(NewTurn, Nothing)
      BY <2>2, TurnAssumption DEF Granted, Followed
    <2>4. Reach(NewTurn, Nothing) /\ Sealed(NewTurn) /\ Logged(t, NewTurn)
      BY <2>2 DEF Reach, Sealed, Logged, NoCall
    <2> QED BY <2>1, <2>3, <2>4, NewTurnTyped DEF Fine
  <1> QED BY <1>1, <1>2, <1>3, <1>4 DEF AgentTurnInit, AInv

LEMMA TurnStepFine == ASSUME AInv, NEW t \in Turn, TurnStep(t) PROVE AInv'
  <1>1. CASE Arrive(t) \/ Load(t) \/ Feedback(t) \/ FeedbackMemory(t)
    BY <1>1, ArriveFine, LoadFine, FeedbackFine, FeedbackMemoryFine
  <1>2. CASE CheckLink(t) \/ FetchLink(t) \/ Assemble(t) \/ Answered(t) \/ Break(t)
    BY <1>2, CheckLinkFine, FetchLinkFine, AssembleFine, AnsweredFine, BreakFine
  <1>3. CASE Ask(t) \/ Decide(t) \/ ReadRepo(t) \/ UseSlack(t) \/ AskChoice(t)
    BY <1>3, AskFine, DecideFine, ReadRepoFine, UseSlackFine, AskChoiceFine
  <1>4. CASE RecordFeedback(t) \/ Inspect(t) \/ OtherTool(t) \/ Audited(t)
    BY <1>4, RecordFeedbackFine, InspectFine, OtherToolFine, AuditedFine
  <1> QED BY <1>1, <1>2, <1>3, <1>4 DEF TurnStep

LEMMA ANext == AInv /\ [AgentTurnNext]_atvars => AInv'
  <1> SUFFICES ASSUME AInv, [AgentTurnNext]_atvars PROVE AInv'
    OBVIOUS
  <1>1. CASE EditConfig
    BY <1>1, EditConfigFine
  <1>2. ASSUME NEW c \in Channel, NEW u \in User, Leave(c, u) PROVE AInv'
    BY <1>2, LeaveFine
  <1>3. ASSUME NEW t \in Turn, TurnStep(t) PROVE AInv'
    BY <1>3, TurnStepFine
  <1>4. CASE UNCHANGED atvars
    BY <1>4, LessFine DEF atvars, AInv
  <1>5. ASSUME NEW cfg \in lagging, CatchUp(cfg) PROVE AInv'
    BY <1>5, CatchUpFine
  <1> QED BY <1>1, <1>2, <1>3, <1>4, <1>5 DEF AgentTurnNext

LEMMA AInductive == AgentTurnSpec => []AInv
  BY AInit, ANext, PTL DEF AgentTurnSpec

-----------------------------------------------------------------------------
(* The theorems.                                                           *)

\* Every turn, record of memory, row of the audit table and grant is what
\* its type says (context.py, memory_local.py, audit.py).
THEOREM AgentTurnTyped == AgentTurnSpec => []AgentTurnTypeOK
  <1>1. AInv => AgentTurnTypeOK
    BY DEF AInv, AgentTurnTypeOK, MemoryOK, AuditOK, TurnRec, GrantRec
  <1> QED BY <1>1, AInductive, PTL

\* What was said where memory was to be kept apart, by every version of the row
\* that a read could answer since the turn arrived, is never before a turn of
\* another place, for any number of turns and edits (main.py:119-148, 224-302).
THEOREM SilosKept == AgentTurnSpec => []SiloKept
  <1>1. AInv => SiloKept
    BY DEF AInv, Fine, Sealed, SiloKept
  <1> QED BY <1>1, AInductive, PTL

\* The hint comes from the silo the turn's session records to
\* (codebase_memory.py:112-127; main.py:224-302).
THEOREM HintsWhereWritten == AgentTurnSpec => []HintWhereWritten
  <1>1. AInv => HintWhereWritten
    BY DEF AInv, Fine, Sealed, HintWhereWritten
  <1> QED BY <1>1, AInductive, PTL

\* A turn reaches only what some version of the row that a read could answer
\* since it arrived, or a membership since then, granted it, though it decides
\* by the copy it loaded (tools.py:305-343, 714-759, 845-887;
\* context_assembler.py:233-270).
THEOREM ReachIsGranted == AgentTurnSpec => []ReachGranted
  <1>1. AInv => ReachGranted
    BY DEF AInv, Fine, Reach, ReachGranted
  <1> QED BY <1>1, AInductive, PTL

\* No call that was over and no turn lacks its audit row (tools.py:115-190;
\* main.py:863-901).
THEOREM AuditIsComplete == AgentTurnSpec => []AuditComplete
  <1>1. AInv => AuditComplete
    BY DEF AInv, Fine, Logged, AuditComplete
  <1> QED BY <1>1, AInductive, PTL
=============================================================================
