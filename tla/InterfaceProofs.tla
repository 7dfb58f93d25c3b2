--------------------------- MODULE InterfaceProofs ---------------------------
(* Proofs about the parts that talk to other systems, each for any number  *)
(* of tasks, requests, users, keys and sessions.  Every part has a         *)
(* conjunction of named facts that its steps keep, and its property        *)
(* follows from them.                                                      *)
EXTENDS O1Session, A1Auth, AccessControl, Hsm, A1Policy, OperatorApi,
        FiniteSetTheorems, SequenceTheorems, TLAPS

-----------------------------------------------------------------------------
(* The O1 session.                                                         *)

\* The lock is free or held by one task, and who talks to the device holds it.
O1LockHeld ==
  /\ o1Lock = {} \/ \E k \in O1Tasks : o1Lock = {k}
  /\ \A k \in O1Tasks : o1Task[k] \in {"connecting", "closing"} => o1Lock = {k}

\* Sessions are numbered as they are opened.
O1Numbered ==
  /\ opened \in 0..MaxSessions
  /\ openOn \subseteq 1..opened /\ orphans \subseteq 1..opened
  /\ mgr \in 0..opened /\ lastRun \in 0..opened

\* A task connects only when the session in _mgr is not open, so that nothing is
\* lost when it is replaced.
O1Replaceable ==
  \A k \in O1Tasks : o1Task[k] = "connecting" => mgr \notin openOn

O1Ind ==
  /\ o1Task \in [O1Tasks -> {"idle", "connect?", "connecting", "close?", "closing",
                             "operation", "polling"}]
  /\ O1LockHeld /\ O1Numbered /\ O1Replaceable
  /\ mgr \notin orphans
  /\ SessionsAccounted

\* The facts hold of a new adapter.
LEMMA O1IndInit == O1Init => O1Ind
BY O1Assumption DEF O1Init, O1Ind, O1LockHeld, O1Numbered, O1Replaceable,
                    SessionsAccounted, None

\* Every step of every task keeps them.
LEMMA O1IndStep == O1Ind /\ [O1Next]_o1Vars => O1Ind'
<1> SUFFICES ASSUME O1Ind, [O1Next]_o1Vars PROVE O1Ind'
  OBVIOUS
<1> USE O1Assumption DEF O1Ind, O1LockHeld, O1Numbered, O1Replaceable,
                         SessionsAccounted, None, IsConnected
<1>1. CASE UNCHANGED o1Vars
  BY <1>1 DEF o1Vars
<1>2. ASSUME NEW k \in O1Tasks, CallConnect(k) PROVE O1Ind'
  BY <1>2 DEF CallConnect
<1>3. ASSUME NEW k \in O1Tasks, TakeForConnect(k) PROVE O1Ind'
  BY <1>3 DEF TakeForConnect
<1>4. ASSUME NEW k \in O1Tasks, Connected(k) PROVE O1Ind'
  <2>0. /\ o1Task' = [o1Task EXCEPT ![k] = "idle"] /\ o1Lock' = {}
        /\ o1Lock = {k} /\ mgr \notin openOn
        /\ UNCHANGED <<orphans, lastRun>>
    BY <1>4 DEF Connected
  <2>1. O1LockHeld'
    BY <2>0
  <2>2. O1Replaceable'
    BY <2>0
  <2>3. CASE UNCHANGED <<mgr, openOn, opened>>
    BY <2>0, <2>1, <2>2, <2>3
  <2>4. CASE /\ opened < MaxSessions /\ opened' = opened + 1
             /\ mgr' = opened' /\ openOn' = openOn \cup {opened'}
    <3>1. openOn' \subseteq 1..opened' /\ orphans' \subseteq 1..opened'
      BY <2>0, <2>4
    <3>2. O1Numbered'
      BY <2>0, <2>4, <3>1
    <3>3. mgr' \notin orphans' /\ SessionsAccounted'
      BY <2>0, <2>4
    <3> QED BY <2>0, <2>1, <2>2, <3>2, <3>3
  <2> QED BY <1>4, <2>3, <2>4 DEF Connected
<1>5. ASSUME NEW k \in O1Tasks, CancelConnect(k) PROVE O1Ind'
  <2>0. /\ o1Task' = [o1Task EXCEPT ![k] = "idle"] /\ o1Lock' = {}
        /\ o1Lock = {k}
        /\ UNCHANGED <<mgr, lastRun>>
    BY <1>5 DEF CancelConnect
  <2>1. O1LockHeld' /\ O1Replaceable'
    BY <2>0
  <2>2. CASE UNCHANGED <<opened, openOn, orphans>>
    BY <2>0, <2>1, <2>2
  <2>3. CASE /\ opened < MaxSessions /\ opened' = opened + 1
             /\ openOn' = openOn \cup {opened'}
             /\ orphans' = orphans \cup {opened'}
    <3>1. openOn' \subseteq 1..opened' /\ orphans' \subseteq 1..opened'
      BY <2>3
    <3>2. O1Numbered'
      BY <2>0, <2>3, <3>1
    <3>3. mgr' \notin orphans' /\ SessionsAccounted'
      BY <2>0, <2>3
    <3> QED BY <2>0, <2>1, <3>2, <3>3
  <2> QED BY <1>5, <2>2, <2>3 DEF CancelConnect
<1>6. ASSUME NEW k \in O1Tasks, CallClose(k) PROVE O1Ind'
  BY <1>6 DEF CallClose
<1>7. ASSUME NEW k \in O1Tasks, TakeForClose(k) PROVE O1Ind'
  BY <1>7 DEF TakeForClose
<1>8. ASSUME NEW k \in O1Tasks, Closed(k) PROVE O1Ind'
  BY <1>8 DEF Closed
<1>9. ASSUME NEW k \in O1Tasks, CallOperation(k) PROVE O1Ind'
  BY <1>9 DEF CallOperation
<1>10. ASSUME NEW k \in O1Tasks, Operate(k) PROVE O1Ind'
  BY <1>10 DEF Operate
<1>11. ASSUME NEW k \in O1Tasks, CallNotifications(k) PROVE O1Ind'
  BY <1>11 DEF CallNotifications
<1>12. ASSUME NEW k \in O1Tasks, PollNotification(k) PROVE O1Ind'
  BY <1>12 DEF PollNotification
<1>13. ASSUME NEW s \in openOn, Dropped(s) PROVE O1Ind'
  BY <1>13 DEF Dropped
<1> QED
  BY <1>1, <1>2, <1>3, <1>4, <1>5, <1>6, <1>7, <1>8, <1>9, <1>10, <1>11, <1>12,
     <1>13 DEF O1Next

\* They give the types.
LEMMA O1IndTypes == O1Ind => O1TypeOK
<1> SUFFICES ASSUME O1Ind PROVE O1TypeOK
  OBVIOUS
<1>1. CASE o1Lock = {}
  BY <1>1, FS_EmptySet, O1Assumption DEF O1Ind, O1Numbered, O1TypeOK
<1>2. CASE \E k \in O1Tasks : o1Lock = {k}
  <2>1. PICK k \in O1Tasks : o1Lock = {k}
    BY <1>2
  <2>2. Cardinality(o1Lock) = 1
    BY <2>1, FS_Singleton
  <2> QED BY <2>1, <2>2, O1Assumption DEF O1Ind, O1Numbered, O1TypeOK
<1> QED BY <1>1, <1>2 DEF O1Ind, O1LockHeld

\* Whatever connects, closes, drops and is cancelled in between, every session
\* the device has open is the one in _mgr or was opened for a cancelled task, and
\* no operation runs on such an orphan.
THEOREM SessionsAlwaysAccounted == O1Spec => []SessionsAccounted
<1>1. O1Ind => SessionsAccounted
  BY DEF O1Ind
<1> QED BY <1>1, O1IndInit, O1IndStep, PTL DEF O1Spec

-----------------------------------------------------------------------------
(* The OAuth2 token cache.                                                 *)

AuthPlaces == {"idle", "waiting", "fetching", "done", "failed"}

AuthTyped ==
  /\ authMode \in {NoClient, "refused", "plain", "static", "oauth", "none"}
  /\ clock \in 1..MaxClock
  /\ cached \in Nat /\ cacheEnd \in Nat /\ fetchedAt \in Nat
  /\ req \in [AuthRequests -> [at : AuthPlaces, now : Nat]]
  /\ given \in [AuthRequests -> Nat]

\* Who fetches holds the lock, and what the issuer has issued is on its way to
\* that request.
AuthLockHeld ==
  /\ tokenLock = Nobody \/ \E r \in AuthRequests : tokenLock = {r}
  /\ \A r \in AuthRequests : req[r].at = "fetching" => tokenLock = {r}
  /\ tokenLock = Nobody => fetchedAt = 0

\* A request read the clock before the token it fetches was issued.
AuthReadFirst ==
  \A r \in AuthRequests :
    req[r].at = "fetching" /\ fetchedAt # 0 => req[r].now <= fetchedAt

AuthClockRead == \A r \in AuthRequests : req[r].now <= clock

\* The cache gives a token up before the issuer does.
CacheEndsFirst == cached # 0 => cacheEnd <= cached

AuthInd ==
  /\ AuthTyped /\ AuthLockHeld /\ AuthReadFirst /\ AuthClockRead /\ CacheEndsFirst
  /\ TokenOutlastsRequest

\* The facts hold before a client is built.
LEMMA AuthIndInit == AuthInit => AuthInd
<1> SUFFICES ASSUME AuthInit PROVE AuthInd
  OBVIOUS
<1>1. \A r \in AuthRequests : req[r].at = "idle" /\ req[r].now = 0
  BY DEF AuthInit
<1>2. AuthTyped
  <2>1. [at |-> "idle", now |-> 0] \in [at : AuthPlaces, now : Nat]
    BY DEF AuthPlaces
  <2>2. req \in [AuthRequests -> [at : AuthPlaces, now : Nat]]
    BY <2>1 DEF AuthInit
  <2>3. clock \in 1..MaxClock
    BY A1AuthAssumption DEF AuthInit
  <2> QED BY <2>2, <2>3 DEF AuthInit, AuthTyped, NoClient
<1>3. AuthLockHeld /\ AuthReadFirst /\ TokenOutlastsRequest
  BY <1>1 DEF AuthInit, AuthLockHeld, AuthReadFirst, TokenOutlastsRequest
<1>4. AuthClockRead /\ CacheEndsFirst
  BY <1>1 DEF AuthInit, AuthClockRead, CacheEndsFirst
<1> QED BY <1>2, <1>3, <1>4 DEF AuthInd

\* Requests, fetches, failures and time keep them.
LEMMA AuthIndStep == AuthInd /\ [AuthNext]_authVars => AuthInd'
<1> SUFFICES ASSUME AuthInd, [AuthNext]_authVars PROVE AuthInd'
  OBVIOUS
<1> USE A1AuthAssumption
    DEF AuthInd, AuthTyped, AuthPlaces, AuthLockHeld, AuthReadFirst,
        AuthClockRead, CacheEndsFirst, TokenOutlastsRequest, Nobody
<1>1. CASE UNCHANGED authVars
  BY <1>1 DEF authVars
<1>2. ASSUME NEW present, NEW verify, NEW production,
             BuildClient(present, verify, production)
      PROVE  AuthInd'
  BY <1>2 DEF BuildClient, AuthOf, NoClient
<1>3. ASSUME NEW r \in AuthRequests, GetToken(r) PROVE AuthInd'
  BY <1>3 DEF GetToken, StillGood
<1>4. ASSUME NEW r \in AuthRequests, EnterLock(r) PROVE AuthInd'
  BY <1>4 DEF EnterLock, StillGood, Give
<1>5. ASSUME NEW r \in AuthRequests, Issue(r) PROVE AuthInd'
  <2>1. /\ tokenLock = {r} /\ fetchedAt' = clock /\ req[r].now <= clock
        /\ UNCHANGED <<authMode, clock, cached, cacheEnd, tokenLock, req, given>>
    BY <1>5 DEF Issue
  <2>2. AuthLockHeld' /\ AuthReadFirst'
    BY <2>1
  <2> QED BY <2>1, <2>2
<1>6. ASSUME NEW r \in AuthRequests, Fetched(r) PROVE AuthInd'
  BY <1>6 DEF Fetched
<1>7. ASSUME NEW r \in AuthRequests, FetchFails(r) PROVE AuthInd'
  BY <1>7 DEF FetchFails
<1>8. ASSUME NEW r \in AuthRequests, NextRequest(r) PROVE AuthInd'
  BY <1>8 DEF NextRequest
<1>9. CASE TimePasses
  BY <1>9 DEF TimePasses
<1> QED
  BY <1>1, <1>2, <1>3, <1>4, <1>5, <1>6, <1>7, <1>8, <1>9 DEF AuthNext

\* They give the types.
LEMMA AuthIndTypes == AuthInd => AuthTypeOK
<1> SUFFICES ASSUME AuthInd PROVE AuthTypeOK
  OBVIOUS
<1>1. CASE tokenLock = {}
  BY <1>1, FS_EmptySet DEF AuthInd, AuthTyped, AuthPlaces, AuthTypeOK
<1>2. CASE \E r \in AuthRequests : tokenLock = {r}
  <2>1. PICK r \in AuthRequests : tokenLock = {r}
    BY <1>2
  <2>2. Cardinality(tokenLock) = 1
    BY <2>1, FS_Singleton
  <2> QED BY <2>2 DEF AuthInd, AuthTyped, AuthPlaces, AuthTypeOK
<1> QED BY <1>1, <1>2 DEF AuthInd, AuthLockHeld, Nobody

\* A token handed to a request ends no earlier than the margin after the request
\* asked, for any life and margin, although a request judges it by a clock it
\* read before it queued.
THEOREM TokenAlwaysOutlasts == AuthSpec => []TokenOutlastsRequest
<1>1. AuthInd => TokenOutlastsRequest
  BY DEF AuthInd
<1> QED BY <1>1, AuthIndInit, AuthIndStep, PTL DEF AuthSpec

-----------------------------------------------------------------------------
(* Access control.                                                         *)

RetiredKeys == [key : Nat, at : Nat]

TokenSet == [sub : Users, tenant : Tenants, key : Nat, exp : Nat, ttl : Nat,
             roles : SUBSET Roles, current : BOOLEAN]

AcTyped ==
  /\ acNow \in 0..MaxAcTime /\ active \in 1..MaxKeys
  /\ retired \subseteq RetiredKeys /\ tokens \subseteq TokenSet
  /\ csv \subseteq Bindings /\ server \subseteq Bindings /\ asked \subseteq Bindings
  /\ raced \in BOOLEAN
  /\ DOMAIN cli = Clis

\* A command carries bindings.
CliTyped ==
  \A c \in Clis : cli[c].do # "idle" =>
                    cli[c].binding \in Bindings /\ cli[c].loaded \subseteq Bindings

\* A retired key is older than the active one and is dropped an overlap after
\* its rotation at the latest; a token ends its life after it was minted at the
\* latest.
AcDeadlines ==
  /\ \A k \in retired : k.key < active /\ k.at <= acNow + Overlap
  /\ \A tok \in tokens : tok.key <= active /\ tok.exp <= acNow + tok.ttl

\* The key of a token that was current when it was minted is active, or retired
\* with a deadline no earlier than the token's end, or the token has ended.
KeyOutlastsToken ==
  \A tok \in tokens :
    tok.current /\ tok.ttl <= Overlap /\ acNow < tok.exp =>
      tok.key = active \/ \E k \in retired : k.key = tok.key /\ k.at >= tok.exp

\* Without a race the file holds what the administrators asked for.
FileAsAsked == ~raced => csv = asked

AcInd == AcTyped /\ CliTyped /\ AcDeadlines /\ KeyOutlastsToken /\ FileAsAsked

\* The facts hold of a new deployment.
LEMMA AcIndInit == AcInit => AcInd
<1> SUFFICES ASSUME AcInit PROVE AcInd
  OBVIOUS
<1>1. AcTyped
  <2>1. 0 \in 0..MaxAcTime /\ 1 \in 1..MaxKeys
    BY AccessAssumption
  <2>2. DOMAIN cli = Clis /\ raced \in BOOLEAN
    BY Zenon DEF AcInit
  <2> QED BY <2>1, <2>2 DEF AcInit, AcTyped
<1>2. CliTyped
  BY DEF AcInit, CliTyped, NoCommand
<1> QED BY <1>1, <1>2 DEF AcInit, AcInd, AcDeadlines, KeyOutlastsToken, FileAsAsked

\* Pruning drops only keys that no unexpired token needs.
LEMMA PrunedKeeps ==
  ASSUME AcTyped, NEW keys \in SUBSET RetiredKeys, NEW k \in keys,
         NEW e \in Nat, acNow < e, k.at >= e
  PROVE  k \in Pruned(keys)
BY AccessAssumption DEF AcTyped, RetiredKeys, Pruned

\* Mints, rotations, commands, reloads, requests and time keep the facts.
LEMMA AcIndStep == AcInd /\ [AcNext]_acVars => AcInd'
<1> SUFFICES ASSUME AcInd, [AcNext]_acVars PROVE AcInd'
  OBVIOUS
<1>0. AcTyped /\ CliTyped /\ AcDeadlines /\ KeyOutlastsToken /\ FileAsAsked
  BY DEF AcInd
<1>1. CASE UNCHANGED acVars
  BY <1>0, <1>1 DEF acVars, AcInd, AcTyped, CliTyped, AcDeadlines,
                    KeyOutlastsToken, FileAsAsked
<1>2. ASSUME NEW u \in Users, NEW t \in Tenants, NEW key \in 1..MaxKeys,
             NEW ttl \in Ttls, TokenMint(u, t, key, ttl)
      PROVE  AcInd'
  <2> DEFINE new == [sub |-> u, tenant |-> t, key |-> key, exp |-> acNow + ttl,
                     ttl |-> ttl, roles |-> {r \in Roles : <<u, r, t>> \in csv},
                     current |-> key = active]
  <2>1. /\ tokens' = tokens \cup {new} /\ key <= active
        /\ UNCHANGED <<acNow, active, retired, csv, server, cli, asked, raced>>
    BY <1>2 DEF TokenMint
  <2>2. new \in TokenSet
    BY <1>0, AccessAssumption DEF TokenSet, AcTyped
  <2>3. /\ new.key <= active /\ new.exp <= acNow + new.ttl
        /\ new.current => new.key = active
    <3>1. new.key = key /\ new.exp = acNow + ttl /\ new.ttl = ttl
      OBVIOUS
    <3>2. new.current => key = active
      BY Zenon
    <3>3. acNow + ttl <= acNow + ttl
      BY <1>0, AccessAssumption DEF AcTyped
    <3> QED BY <2>1, <3>1, <3>2, <3>3
  <2> HIDE DEF new
  <2>4. AcTyped' /\ CliTyped' /\ FileAsAsked'
    BY <1>0, <2>1, <2>2 DEF AcTyped, CliTyped, FileAsAsked
  <2>5. AcDeadlines' /\ KeyOutlastsToken'
    BY <1>0, <2>1, <2>3 DEF AcDeadlines, KeyOutlastsToken
  <2> QED BY <2>4, <2>5 DEF AcInd
<1>3. CASE Rotate
  <2> DEFINE old == [key |-> active, at |-> acNow + Overlap]
             both == retired \cup {old}
  <2>1. /\ active < MaxKeys /\ active' = active + 1
        /\ retired' = Pruned(both)
        /\ UNCHANGED <<acNow, tokens, csv, server, cli, asked, raced>>
    BY <1>3 DEF Rotate
  <2>2. old \in RetiredKeys /\ old.key = active /\ old.at = acNow + Overlap
    BY <1>0, AccessAssumption DEF RetiredKeys, AcTyped
  <2>3. both \subseteq RetiredKeys /\ Pruned(both) \subseteq both
    BY <1>0, <2>2 DEF AcTyped, Pruned
  <2> HIDE DEF old
  <2>4. AcTyped' /\ CliTyped' /\ FileAsAsked'
    <3>1. active' \in 1..MaxKeys
      BY <1>0, <2>1, AccessAssumption DEF AcTyped
    <3>2. retired' \subseteq RetiredKeys
      BY <2>1, <2>3
    <3> QED BY <1>0, <2>1, <3>1, <3>2 DEF AcTyped, CliTyped, FileAsAsked
  <2>5. AcDeadlines'
    <3>1. \A k \in both : k.key < active + 1 /\ k.at <= acNow + Overlap
      BY <1>0, <2>2, AccessAssumption DEF AcDeadlines, AcTyped, RetiredKeys
    <3>2. \A tok \in tokens : tok.key <= active + 1 /\ tok.exp <= acNow + tok.ttl
      BY <1>0 DEF AcDeadlines, AcTyped, TokenSet
    <3> QED BY <3>1, <3>2, <2>1, <2>3 DEF AcDeadlines
  <2>6. KeyOutlastsToken'
    <3> SUFFICES ASSUME NEW tok \in tokens, tok.current, tok.ttl <= Overlap,
                        acNow < tok.exp
                 PROVE  \E k \in Pruned(both) : k.key = tok.key /\ k.at >= tok.exp
      BY <2>1 DEF KeyOutlastsToken
    <3>1. tok.exp \in Nat /\ tok.ttl \in Nat /\ tok.exp <= acNow + tok.ttl
      BY <1>0 DEF AcTyped, TokenSet, AcDeadlines
    <3>2. tok.exp <= acNow + Overlap
      BY <1>0, <3>1, AccessAssumption DEF AcTyped
    <3>3. PICK k \in both : k.key = tok.key /\ k.at >= tok.exp
      <4>1. CASE tok.key = active
        BY <4>1, <2>2, <3>2, <3>1, AccessAssumption, <1>0 DEF AcTyped
      <4> QED BY <4>1, <1>0 DEF KeyOutlastsToken
    <3>4. k \in Pruned(both)
      BY <1>0, <2>3, <3>1, <3>3, PrunedKeeps
    <3> QED BY <3>3, <3>4
  <2> QED BY <2>4, <2>5, <2>6 DEF AcInd
<1>4. CASE AcTick
  <2>1. /\ acNow < MaxAcTime /\ acNow' = acNow + 1
        /\ UNCHANGED <<active, retired, tokens, csv, server, cli, asked, raced>>
    BY <1>4 DEF AcTick
  <2>2. AcTyped' /\ CliTyped' /\ FileAsAsked'
    BY <1>0, <2>1, AccessAssumption DEF AcTyped, CliTyped, FileAsAsked
  <2>3. AcDeadlines'
    BY <1>0, <2>1, AccessAssumption DEF AcDeadlines, AcTyped, TokenSet, RetiredKeys
  <2>4. KeyOutlastsToken'
    BY <1>0, <2>1, AccessAssumption DEF KeyOutlastsToken, AcTyped, TokenSet
  <2> QED BY <2>2, <2>3, <2>4 DEF AcInd
<1>5. CASE Reload
  BY <1>0, <1>5 DEF Reload, AcInd, AcTyped, CliTyped, AcDeadlines,
                    KeyOutlastsToken, FileAsAsked
<1>6. ASSUME NEW c \in Clis, NEW do, NEW b \in Bindings, CliLoad(c, do, b)
      PROVE  AcInd'
  <2>1. /\ cli' = [cli EXCEPT ![c] = [do |-> do, binding |-> b, loaded |-> csv]]
        /\ UNCHANGED <<acNow, active, retired, tokens, csv, server, asked, raced>>
    BY <1>6 DEF CliLoad
  <2>2. CliTyped'
    BY <1>0, <2>1 DEF CliTyped, AcTyped
  <2> QED BY <1>0, <2>1, <2>2 DEF AcInd, AcTyped, AcDeadlines, KeyOutlastsToken,
                                  FileAsAsked
<1>7. ASSUME NEW c \in Clis, CliSave(c) PROVE AcInd'
  <2>1. /\ cli[c].do # "idle"
        /\ csv' = IF Edited(cli[c]) # cli[c].loaded THEN Edited(cli[c]) ELSE csv
        /\ asked' = IF cli[c].do = "add" THEN asked \cup {cli[c].binding}
                    ELSE asked \ {cli[c].binding}
        /\ raced' = (raced \/ cli[c].loaded # csv)
        /\ cli' = [cli EXCEPT ![c] = NoCommand]
        /\ UNCHANGED <<acNow, active, retired, tokens, server>>
    BY <1>7 DEF CliSave
  <2>2. cli[c].binding \in Bindings /\ cli[c].loaded \subseteq Bindings
    BY <1>0, <2>1 DEF CliTyped
  <2>3. Edited(cli[c]) \subseteq Bindings
    BY <2>2 DEF Edited
  <2>4. AcTyped'
    <3>1. csv' \subseteq Bindings
      BY <1>0, <2>1, <2>3 DEF AcTyped
    <3>2. asked' \subseteq Bindings
      BY <1>0, <2>1, <2>2 DEF AcTyped
    <3>3. raced' \in BOOLEAN /\ DOMAIN cli' = Clis
      BY <1>0, <2>1, Zenon DEF AcTyped
    <3> QED BY <1>0, <2>1, <3>1, <3>2, <3>3 DEF AcTyped
  <2>5. CliTyped'
    BY <1>0, <2>1 DEF CliTyped, AcTyped, NoCommand
  <2>6. FileAsAsked'
    <3>1. SUFFICES ASSUME ~raced' PROVE csv' = asked'
      BY DEF FileAsAsked
    <3>2. cli[c].loaded = csv /\ csv = asked
      BY <1>0, <2>1, <3>1 DEF FileAsAsked
    <3>3. csv' = Edited(cli[c])
      BY <2>1, <3>2
    <3> QED BY <3>2, <3>3, <2>1 DEF Edited
  <2> QED BY <1>0, <2>1, <2>4, <2>5, <2>6 DEF AcInd, AcDeadlines, KeyOutlastsToken
<1>8. ASSUME NEW tok \in tokens, DispatchRequest(tok) PROVE AcInd'
  <2>1. /\ retired' = Pruned(retired)
        /\ UNCHANGED <<acNow, active, tokens, csv, server, cli, asked, raced>>
    BY <1>8 DEF DispatchRequest
  <2>2. retired' \subseteq retired
    BY <2>1 DEF Pruned
  <2>3. AcTyped' /\ CliTyped' /\ FileAsAsked' /\ AcDeadlines'
    BY <1>0, <2>1, <2>2 DEF AcTyped, CliTyped, FileAsAsked, AcDeadlines
  <2>4. KeyOutlastsToken'
    <3> SUFFICES ASSUME NEW o \in tokens, o.current, o.ttl <= Overlap,
                        acNow < o.exp, o.key # active
                 PROVE  \E k \in Pruned(retired) : k.key = o.key /\ k.at >= o.exp
      BY <2>1 DEF KeyOutlastsToken
    <3>1. PICK k \in retired : k.key = o.key /\ k.at >= o.exp
      BY <1>0 DEF KeyOutlastsToken
    <3>2. o.exp \in Nat /\ retired \in SUBSET RetiredKeys
      BY <1>0 DEF AcTyped, TokenSet
    <3> QED BY <1>0, <3>1, <3>2, PrunedKeeps
  <2> QED BY <2>3, <2>4 DEF AcInd
<1> QED
  BY <1>1, <1>2, <1>3, <1>4, <1>5, <1>6, <1>7, <1>8 DEF AcNext

\* They give the types.
LEMMA AcIndTypes == AcInd => AcTypeOK
BY DEF AcInd, AcTyped, AcDeadlines, AcTypeOK

\* A refusal is no grant.
LEMMA AnswerCodes == \A code : code = 200 => code # 401 /\ code # 403
OBVIOUS

\* They give seamless rotation and the refusal of what was revoked.
LEMMA AcIndSound == AcInd => AccessSound
<1> SUFFICES ASSUME AcInd PROVE AccessSound
  OBVIOUS
<1>1. RotationSeamless
  <2> SUFFICES ASSUME NEW tok \in tokens, tok.current, tok.ttl <= Overlap,
                      acNow < tok.exp
               PROVE  Verifies(tok)
    BY DEF RotationSeamless
  <2>1. acNow \in Nat /\ tok.exp \in Nat
    BY DEF AcInd, AcTyped, TokenSet
  <2>2. CASE tok.key = active
    BY <2>1, <2>2 DEF Verifies
  <2>3. CASE tok.key # active
    <3>1. PICK k \in retired : k.key = tok.key /\ k.at >= tok.exp
      BY <2>3 DEF AcInd, KeyOutlastsToken
    <3>2. k.at \in Nat
      BY DEF AcInd, AcTyped, RetiredKeys
    <3> QED BY <2>1, <3>1, <3>2 DEF Verifies
  <2> QED BY <2>2, <2>3
<1>2. RevokedRefused
  <2> SUFFICES ASSUME ~raced, server = csv,
                      NEW tok \in tokens, NEW xTenant \in Tenants \cup {""},
                      NEW route \in Routes, AnswerTo(tok, xTenant, route) = 200
               PROVE  /\ xTenant \in {"", tok.tenant}
                      /\ \E r \in Roles :
                           /\ <<tok.sub, r, tok.tenant>> \in asked
                           /\ Permits(r, route.obj, ActionOf(route.method))
    BY DEF RevokedRefused
  <2>1. /\ xTenant = "" \/ xTenant = tok.tenant
        /\ Enforce(tok.sub, tok.tenant, route.obj, ActionOf(route.method))
    <3> DEFINE answer == AnswerTo(tok, xTenant, route)
    <3>1. ~Verifies(tok) => answer = 401
      BY Zenon DEF AnswerTo
    <3>2. Verifies(tok) /\ xTenant # "" /\ xTenant # tok.tenant => answer = 403
      BY Zenon DEF AnswerTo
    <3>3. /\ Verifies(tok) /\ ~(xTenant # "" /\ xTenant # tok.tenant)
          /\ ~Enforce(tok.sub, tok.tenant, route.obj, ActionOf(route.method))
          => answer = 403
      BY Zenon DEF AnswerTo
    <3>4. answer # 401 /\ answer # 403
      BY AnswerCodes, Zenon
    <3> HIDE DEF answer
    <3> QED BY <3>1, <3>2, <3>3, <3>4, Zenon
  <2>2. server = asked
    BY DEF AcInd, FileAsAsked
  <2> QED BY <2>1, <2>2 DEF Enforce
<1> QED BY <1>1, <1>2 DEF AccessSound

\* For any users, lives, overlap and clock skew: a token minted with the key of
\* the moment is accepted until it ends, however many rotations follow, and a
\* request is granted by bindings the administrators asked for only.
THEOREM AccessAlwaysSound == AcSpec => []AccessSound
BY AcIndInit, AcIndStep, AcIndSound, PTL DEF AcSpec

-----------------------------------------------------------------------------
(* Key custody.                                                            *)

KeyPairs == [label : Labels, key : 1..MaxHsmKeys]

InUse == backend \in {"in_memory", "softhsm2"}

\* Each pair was handed out, made in turn, by a backend that was chosen.
KeysMade ==
  /\ backend \in {"none", "refused", "in_memory", "softhsm2"}
  /\ keysMade \in 0..MaxHsmKeys
  /\ hsmKeys \subseteq KeyPairs /\ handed = hsmKeys
  /\ \A k \in hsmKeys : k.key <= keysMade
  /\ ~InUse => hsmKeys = {}

\* A label names one pair in memory, whatever happens.
OnePairInMemory ==
  backend = "in_memory" =>
    \A x, y \in hsmKeys : x.label = y.label => x = y

\* What was made was made with a pair that is held, and opened if the labels are
\* unique.
OutputsMade ==
  /\ outputs \subseteq hsmKeys
  /\ hsmOpened \in {"none", "ok", "failed"}
  /\ LabelsUnique => hsmOpened # "failed"

\* Where a signer is, and what it holds there.
SignerFine(s) ==
  \/ signer[s].at = "idle"
  \/ signer[s].at = "raised"
  \/ /\ signer[s].at \in {"generate", "sign"} /\ InUse
     /\ signer[s] \in [at : {"generate", "sign"}, label : Labels]
  \/ /\ signer[s].at = "export" /\ InUse
     /\ signer[s].by \in Resolve(signer[s].label)
  \/ /\ signer[s].at = "signed" /\ InUse
     /\ LabelsUnique => signer[s].by = signer[s].embedded
     /\ backend = "in_memory" => signer[s].form = "spki"

SignersFine == DOMAIN signer = Signers /\ \A s \in Signers : SignerFine(s)

HsmInd == KeysMade /\ OnePairInMemory /\ OutputsMade /\ SignersFine

\* The facts hold before a backend is chosen.
LEMMA HsmIndInit == HsmInit => HsmInd
<1> SUFFICES ASSUME HsmInit PROVE HsmInd
  OBVIOUS
<1>1. SignersFine
  BY DEF HsmInit, SignersFine, SignerFine
<1>2. KeysMade /\ OnePairInMemory /\ OutputsMade
  BY HsmAssumption DEF HsmInit, KeysMade, InUse, OnePairInMemory, OutputsMade
<1> QED BY <1>1, <1>2 DEF HsmInd

\* With unique labels, on either backend, a label resolves to one key.
LEMMA OneKeyPerLabel ==
  ASSUME KeysMade, OnePairInMemory, LabelsUnique,
         NEW x \in hsmKeys, NEW y \in hsmKeys, x.label = y.label
  PROVE  x = y
<1>1. InUse
  BY DEF KeysMade
<1> QED BY <1>1 DEF KeysMade, OnePairInMemory, LabelsUnique, InUse

\* A key under a label is that of a pair that is held.
LEMMA ResolveGivesPair ==
  ASSUME KeysMade, NEW label, NEW key \in Resolve(label)
  PROVE  /\ [label |-> label, key |-> key] \in hsmKeys
         /\ key \in 1..MaxHsmKeys
<1>1. PICK x \in hsmKeys : x.label = label /\ x.key = key
  BY DEF Resolve
<1>2. x \in KeyPairs
  BY DEF KeysMade
<1>3. x = [label |-> label, key |-> key]
  BY <1>1, <1>2 DEF KeyPairs
<1> QED BY <1>1, <1>2, <1>3 DEF KeyPairs

\* Two keys found under a label are the same one when the labels are unique.
LEMMA ResolveUnique ==
  ASSUME KeysMade, OnePairInMemory, LabelsUnique,
         NEW label, NEW j \in Resolve(label), NEW k \in Resolve(label)
  PROVE  j = k
<1> DEFINE x == [label |-> label, key |-> j]
           y == [label |-> label, key |-> k]
<1>1. x \in hsmKeys /\ y \in hsmKeys
  BY ResolveGivesPair
<1>2. x.label = y.label /\ x.key = j /\ y.key = k
  OBVIOUS
<1> HIDE DEF x, y
<1>3. x = y
  BY <1>1, <1>2, OneKeyPerLabel
<1> QED BY <1>2, <1>3

\* A new pair leaves everything true that was, for the other signers too.
LEMMA StoreKeyKeeps ==
  ASSUME HsmInd, NEW label \in Labels, Generate(label)
  PROVE  /\ (KeysMade /\ OnePairInMemory /\ OutputsMade)'
         /\ InUse /\ UNCHANGED backend
         /\ LabelsUnique' => LabelsUnique
         /\ hsmKeys \subseteq hsmKeys'
<1> DEFINE new == [label |-> label, key |-> keysMade + 1]
<1>1. /\ StoreKey(label) /\ InUse
      /\ backend = "in_memory" => label \notin LabelsHeld
  BY DEF Generate, GenerateInMemory, GenerateOnToken, InUse
<1>2. /\ keysMade < MaxHsmKeys /\ keysMade' = keysMade + 1
      /\ hsmKeys' = hsmKeys \cup {new} /\ handed' = handed \cup {new}
      /\ UNCHANGED <<backend, outputs, hsmOpened>>
  BY <1>1 DEF StoreKey
<1>3. KeysMade /\ OnePairInMemory /\ OutputsMade
  BY DEF HsmInd
<1>4. new \in KeyPairs /\ new.key = keysMade + 1 /\ new.label = label
  BY <1>2, <1>3, HsmAssumption DEF KeysMade, KeyPairs
<1> HIDE DEF new
<1>5. KeysMade'
  <2>1. hsmKeys' \subseteq KeyPairs /\ handed' = hsmKeys'
    BY <1>2, <1>3, <1>4 DEF KeysMade
  <2>2. \A k \in hsmKeys' : k.key <= keysMade'
    BY <1>2, <1>3, <1>4 DEF KeysMade, KeyPairs
  <2>3. InUse'
    BY <1>1, <1>2 DEF InUse
  <2> QED BY <1>2, <1>3, <2>1, <2>2, <2>3, HsmAssumption DEF KeysMade
<1>6. OnePairInMemory'
  <2> SUFFICES ASSUME backend = "in_memory",
                      NEW x \in hsmKeys', NEW y \in hsmKeys', x.label = y.label
               PROVE  x = y
    BY <1>2 DEF OnePairInMemory
  <2>1. \A k \in hsmKeys : k.label # new.label
    BY <1>1, <1>4 DEF LabelsHeld
  <2> QED BY <1>2, <1>3, <2>1 DEF OnePairInMemory
<1>7. LabelsUnique' => LabelsUnique
  BY <1>2 DEF LabelsUnique
<1>8. OutputsMade'
  BY <1>2, <1>3, <1>7 DEF OutputsMade
<1> QED BY <1>1, <1>2, <1>5, <1>6, <1>7, <1>8

\* A signer that does not move stays fine while pairs are added.
LEMMA SignerKept ==
  ASSUME NEW s \in Signers, SignerFine(s), signer'[s] = signer[s],
         InUse => backend' = backend,
         LabelsUnique' => LabelsUnique, hsmKeys \subseteq hsmKeys'
  PROVE  SignerFine(s)'
<1>1. InUse => InUse'
  BY DEF InUse
<1>2. CASE signer[s].at = "export"
  <2>1. InUse /\ signer[s].by \in Resolve(signer[s].label)
    BY <1>2 DEF SignerFine
  <2>2. signer'[s].by \in {k.key : k \in {x \in hsmKeys' : x.label = signer'[s].label}}
    BY <2>1 DEF Resolve
  <2> QED BY <1>1, <1>2, <2>1, <2>2 DEF SignerFine, Resolve
<1>3. CASE signer[s].at # "export"
  BY <1>1, <1>3 DEF SignerFine
<1> QED BY <1>2, <1>3

\* Choosing a backend, generating, using and opening, and the signers' four calls
\* keep the facts.
LEMMA HsmIndStep == HsmInd /\ [HsmNext]_hsmVars => HsmInd'
<1> SUFFICES ASSUME HsmInd, [HsmNext]_hsmVars PROVE HsmInd'
  OBVIOUS
<1>0. KeysMade /\ OnePairInMemory /\ OutputsMade /\ SignersFine
  BY DEF HsmInd
\* Steps that leave the keys and the outputs alone and move one signer.
<1>a. ASSUME NEW s \in Signers, NEW next,
             signer' = [signer EXCEPT ![s] = next],
             UNCHANGED <<backend, hsmKeys, handed, outputs, hsmOpened, keysMade>>,
             SignerFine(s)'
      PROVE  HsmInd'
  <2>1. LabelsUnique' <=> LabelsUnique
    BY <1>a DEF LabelsUnique
  <2>2. (KeysMade /\ OnePairInMemory /\ OutputsMade)'
    BY <1>0, <1>a, <2>1 DEF KeysMade, OnePairInMemory, OutputsMade, InUse
  <2>3. \A q \in Signers : SignerFine(q)'
    BY <1>0, <1>a, <2>1, SignerKept DEF SignersFine
  <2>4. DOMAIN signer' = Signers
    BY <1>0, <1>a DEF SignersFine
  <2> QED BY <2>2, <2>3, <2>4 DEF HsmInd, SignersFine
<1>1. CASE UNCHANGED hsmVars
  BY <1>0, <1>1 DEF hsmVars, HsmInd, KeysMade, OnePairInMemory, OutputsMade,
                    LabelsUnique, SignersFine, SignerFine, InUse, Resolve
<1>2. ASSUME NEW name, NEW ready, FromConfig(name, ready) PROVE HsmInd'
  <2>1. /\ backend = "none" /\ backend' \in {"in_memory", "softhsm2", "refused"}
        /\ UNCHANGED <<hsmKeys, handed, outputs, hsmOpened, keysMade, signer>>
    BY <1>2 DEF FromConfig
  <2>2. ~InUse /\ hsmKeys = {} /\ handed = {}
    BY <1>0, <2>1 DEF KeysMade, InUse
  <2>3. LabelsUnique
    BY <2>2 DEF LabelsUnique
  <2>4. (KeysMade /\ OnePairInMemory /\ OutputsMade)'
    BY <1>0, <2>1, <2>2, <2>3 DEF KeysMade, OnePairInMemory, OutputsMade
  <2>5. SignersFine'
    BY <1>0, <2>1, <2>2, <2>3, SignerKept DEF SignersFine
  <2> QED BY <2>4, <2>5 DEF HsmInd
<1>3. ASSUME NEW label \in Labels, Generate(label), UNCHANGED signer PROVE HsmInd'
  <2>1. /\ (KeysMade /\ OnePairInMemory /\ OutputsMade)' /\ UNCHANGED backend
        /\ LabelsUnique' => LabelsUnique
        /\ hsmKeys \subseteq hsmKeys'
    BY <1>3, StoreKeyKeeps
  <2>2. SignersFine'
    BY <1>0, <1>3, <2>1, SignerKept DEF SignersFine
  <2> QED BY <2>1, <2>2 DEF HsmInd
<1>4. ASSUME NEW label \in Labels, UseKey(label) PROVE HsmInd'
  <2>1. PICK key \in Resolve(label) :
               outputs' = outputs \cup {[label |-> label, key |-> key]}
    BY <1>4 DEF UseKey
  <2>2. UNCHANGED <<backend, hsmKeys, handed, hsmOpened, keysMade, signer>>
    BY <1>4 DEF UseKey
  <2>3. [label |-> label, key |-> key] \in hsmKeys
    BY <1>0, ResolveGivesPair
  <2>4. LabelsUnique' <=> LabelsUnique
    BY <2>2 DEF LabelsUnique
  <2>5. (KeysMade /\ OnePairInMemory)'
    BY <1>0, <2>2 DEF KeysMade, OnePairInMemory, InUse
  <2>6. OutputsMade'
    BY <1>0, <2>1, <2>2, <2>3, <2>4 DEF OutputsMade
  <2>7. SignersFine'
    BY <1>0, <2>2, <2>4, SignerKept DEF SignersFine
  <2> QED BY <2>5, <2>6, <2>7 DEF HsmInd
<1>5. ASSUME NEW o \in outputs, OpenOutput(o) PROVE HsmInd'
  <2>1. PICK key \in Resolve(o.label) :
               hsmOpened' = IF key = o.key THEN "ok" ELSE "failed"
    BY <1>5 DEF OpenOutput
  <2>2. UNCHANGED <<backend, hsmKeys, handed, outputs, keysMade, signer>>
    BY <1>5 DEF OpenOutput
  <2>3. LabelsUnique' <=> LabelsUnique
    BY <2>2 DEF LabelsUnique
  <2>4. LabelsUnique => key = o.key
    <3>1. o \in hsmKeys /\ o.key \in Resolve(o.label)
      BY <1>0 DEF OutputsMade, Resolve
    <3> QED BY <1>0, <3>1, ResolveUnique
  <2>5. (KeysMade /\ OnePairInMemory)'
    BY <1>0, <2>2 DEF KeysMade, OnePairInMemory, InUse
  <2>6. OutputsMade'
    BY <1>0, <2>1, <2>2, <2>3, <2>4 DEF OutputsMade
  <2>7. SignersFine'
    BY <1>0, <2>2, <2>3, SignerKept DEF SignersFine
  <2> QED BY <2>5, <2>6, <2>7 DEF HsmInd
<1>6. ASSUME NEW s \in Signers, NEW label \in Labels, ListKeys(s, label)
      PROVE  HsmInd'
  <2> DEFINE next == [at |-> IF label \in LabelsHeld THEN "sign" ELSE "generate",
                      label |-> label]
  <2>1. /\ InUse /\ signer' = [signer EXCEPT ![s] = next]
        /\ UNCHANGED <<backend, hsmKeys, handed, outputs, hsmOpened, keysMade>>
    BY <1>6 DEF ListKeys, SignerAt, InUse
  <2>2. /\ next \in [at : {"generate", "sign"}, label : Labels]
        /\ next.at \in {"generate", "sign"}
    OBVIOUS
  <2> HIDE DEF next
  <2>3. signer'[s] = next /\ InUse'
    BY <1>0, <2>1 DEF SignersFine, InUse
  <2>4. SignerFine(s)'
    BY <2>2, <2>3 DEF SignerFine
  <2> QED BY <2>1, <2>4, <1>a
<1>7. ASSUME NEW s \in Signers, GenerateForSigner(s) PROVE HsmInd'
  <2>0. /\ signer[s].at = "generate" /\ InUse
        /\ signer[s] \in [at : {"generate", "sign"}, label : Labels]
    BY <1>0, <1>7 DEF GenerateForSigner, SignersFine, SignerFine
  <2>1. CASE /\ Generate(signer[s].label)
             /\ SignerAt(s, [signer[s] EXCEPT !.at = "sign"])
    <3> DEFINE next == [signer[s] EXCEPT !.at = "sign"]
    <3>1. /\ next \in [at : {"generate", "sign"}, label : Labels]
          /\ next.at = "sign"
      BY <2>0
    <3> HIDE DEF next
    <3>2. signer' = [signer EXCEPT ![s] = next]
      BY <2>1 DEF SignerAt, next
    <3>3. /\ (KeysMade /\ OnePairInMemory /\ OutputsMade)' /\ UNCHANGED backend
          /\ LabelsUnique' => LabelsUnique
          /\ hsmKeys \subseteq hsmKeys'
      BY <2>0, <2>1, StoreKeyKeeps
    <3>4. SignerFine(s)'
      BY <1>0, <2>0, <3>1, <3>2, <3>3 DEF SignersFine, SignerFine, InUse
    <3>5. \A q \in Signers : SignerFine(q)'
      BY <1>0, <3>2, <3>3, <3>4, SignerKept DEF SignersFine
    <3>6. DOMAIN signer' = Signers
      BY <1>0, <3>2 DEF SignersFine
    <3> QED BY <3>3, <3>5, <3>6 DEF HsmInd, SignersFine
  <2>2. CASE /\ SignerAt(s, [at |-> "raised"])
             /\ UNCHANGED <<backend, hsmKeys, handed, outputs, hsmOpened, keysMade>>
    <3>1. signer' = [signer EXCEPT ![s] = [at |-> "raised"]]
      BY <2>2 DEF SignerAt
    <3>2. SignerFine(s)'
      BY <1>0, <3>1 DEF SignersFine, SignerFine
    <3> QED BY <2>2, <3>1, <3>2, <1>a
  <2> QED BY <1>7, <2>1, <2>2 DEF GenerateForSigner
<1>8. ASSUME NEW s \in Signers, SignPayload(s) PROVE HsmInd'
  <2>0. /\ signer[s].at = "sign" /\ InUse
        /\ UNCHANGED <<backend, hsmKeys, handed, outputs, hsmOpened, keysMade>>
    BY <1>0, <1>8 DEF SignPayload, SignersFine, SignerFine
  <2>1. PICK key \in Resolve(signer[s].label) :
          SignerAt(s, [at |-> "export", label |-> signer[s].label, by |-> key])
    BY <1>8 DEF SignPayload
  <2> DEFINE next == [at |-> "export", label |-> signer[s].label, by |-> key]
  <2>2. next.at = "export" /\ next.by = key /\ next.label = signer[s].label
    OBVIOUS
  <2> HIDE DEF next
  <2>3. signer' = [signer EXCEPT ![s] = next]
    BY <2>1 DEF SignerAt, next
  <2>4. signer'[s] = next /\ InUse'
    BY <1>0, <2>0, <2>3 DEF SignersFine, InUse
  <2>5. SignerFine(s)'
    BY <2>0, <2>1, <2>2, <2>4 DEF SignerFine, Resolve
  <2> QED BY <2>0, <2>3, <2>5, <1>a
<1>9. ASSUME NEW s \in Signers, ExportPublic(s) PROVE HsmInd'
  <2>0. /\ signer[s].at = "export" /\ InUse
        /\ signer[s].by \in Resolve(signer[s].label)
        /\ UNCHANGED <<backend, hsmKeys, handed, outputs, hsmOpened, keysMade>>
    BY <1>0, <1>9 DEF ExportPublic, SignersFine, SignerFine
  <2> DEFINE next(key) ==
        [at |-> "signed", by |-> signer[s].by, embedded |-> key,
         form |-> IF backend = "in_memory" THEN "spki" ELSE "modulus"]
  <2>1. PICK key \in Resolve(signer[s].label) : SignerAt(s, next(key))
    BY <1>9 DEF ExportPublic
  <2>2. /\ next(key).at = "signed" /\ next(key).by = signer[s].by
        /\ next(key).embedded = key
        /\ backend = "in_memory" => next(key).form = "spki"
    OBVIOUS
  <2>3. signer' = [signer EXCEPT ![s] = next(key)]
    BY <2>1 DEF SignerAt
  <2> HIDE DEF next
  <2>4. signer'[s] = next(key) /\ InUse'
    BY <1>0, <2>0, <2>3 DEF SignersFine, InUse
  <2>5. LabelsUnique' => signer[s].by = key
    <3>1. LabelsUnique' => LabelsUnique
      BY <2>0 DEF LabelsUnique
    <3> QED BY <1>0, <2>0, <3>1, ResolveUnique
  <2>6. SignerFine(s)'
    BY <2>0, <2>2, <2>4, <2>5 DEF SignerFine
  <2> QED BY <2>0, <2>3, <2>6, <1>a
<1> QED
  BY <1>1, <1>2, <1>3, <1>4, <1>5, <1>6, <1>7, <1>8, <1>9 DEF HsmNext

\* They give the types.
LEMMA HsmIndTypes == HsmInd => HsmTypeOK
BY DEF HsmInd, KeysMade, KeyPairs, OutputsMade, SignersFine, SignerFine, HsmTypeOK

\* They give what a handle promises.
LEMMA HsmIndHandles == HsmInd => HandlesKeepKeys
<1> SUFFICES ASSUME HsmInd, LabelsUnique PROVE HandlesKeepKeys
  BY DEF HandlesKeepKeys
<1>0. KeysMade /\ OnePairInMemory /\ OutputsMade /\ SignersFine
  BY DEF HsmInd
<1>1. ASSUME NEW h \in handed PROVE Resolve(h.label) = {h.key}
  <2>1. h \in hsmKeys /\ h.key \in Resolve(h.label)
    BY <1>0 DEF KeysMade, Resolve
  <2>2. \A k \in Resolve(h.label) : k = h.key
    BY <1>0, <2>1, ResolveUnique
  <2> QED BY <2>1, <2>2
<1>2. hsmOpened # "failed"
  BY <1>0 DEF OutputsMade
<1>3. ASSUME NEW s \in Signers, signer[s].at = "signed",
             NEW pinned \in 0..MaxHsmKeys
      PROVE  /\ VerifyModel(signer[s], pinned) = "verified" =>
                  pinned \in {0, signer[s].by}
             /\ backend = "in_memory" /\ pinned \in {0, signer[s].by} =>
                  VerifyModel(signer[s], pinned) = "verified"
  <2>1. /\ signer[s].by = signer[s].embedded
        /\ backend = "in_memory" => signer[s].form = "spki"
    BY <1>0, <1>3 DEF SignersFine, SignerFine
  <2> QED BY <2>1 DEF VerifyModel
<1> QED BY <1>1, <1>2, <1>3 DEF HandlesKeepKeys

\* Whatever labels are generated and however signers race for one, a handle keeps
\* meaning the pair it was handed out for, what one side made opens with the
\* other, and a model signed in memory verifies under its own key only.
THEOREM HandlesAlwaysKeepKeys == HsmSpec => []HandlesKeepKeys
BY HsmIndInit, HsmIndStep, HsmIndHandles, PTL DEF HsmSpec

-----------------------------------------------------------------------------
(* Policies and the RIC.                                                   *)

\* A planned payload conforms to the schema of its type, at every risk.
LEMMA PlannedConforms ==
  ASSUME NEW risk \in 0..100
  PROVE  Conforms(Choose(risk), Candidate(Choose(risk), risk))
<1>1. CASE risk < 30
  <2> DEFINE p == 1 + Round(risk * 14)
             top == IF p > 15 THEN 15 ELSE p
             c == [scope |-> {"slice_id"}, fields |-> {"priority"}, priority |-> top,
                   path |-> "", decision |-> "", amount |-> 0]
             m == CreateSchema["qos"]
  <2>1. Round(risk * 14) \in Nat
    BY DEF Round
  <2>2. top \in 1..15
    BY <2>1
  <2>3. Choose(risk) = "qos" /\ Candidate("qos", risk) = c
    BY <1>1 DEF Choose, Candidate
  <2> HIDE DEF top
  <2>4. c.scope = {"slice_id"} /\ c.fields = {"priority"} /\ c.priority = top
    OBVIOUS
  <2>5. /\ m.scope = {"slice_id"} /\ m.scopeMay = {"slice_id", "ue_id"}
        /\ m.must = {"priority"} /\ "priority" \in m.may
    BY DEF CreateSchema
  <2> HIDE DEF c, m
  <2>6. /\ m.scope \subseteq c.scope /\ c.scope \subseteq m.scopeMay
        /\ m.must \subseteq c.fields /\ c.fields \subseteq m.may
        /\ c.priority \in 1..15
        /\ "preferred_path" \notin c.fields /\ "ntn_share_pct" \notin c.fields
        /\ "decision" \notin c.fields
    BY <2>2, <2>4, <2>5
  <2>7. Conforms("qos", c)
    BY <2>6, Zenon DEF Conforms, m
  <2> QED BY <2>3, <2>7
<1>2. CASE risk >= 30 /\ risk < 60
  <2> DEFINE c == [scope |-> {"ue_group"},
                   fields |-> {"preferred_path", "ntn_share_pct"},
                   priority |-> 0, path |-> "hybrid", decision |-> "",
                   amount |-> 10 * risk]
             m == CreateSchema["steering"]
  <2>1. Choose(risk) = "steering" /\ ~(risk < 30) /\ 10 * risk \in 0..1000
    BY <1>2 DEF Choose
  <2>2. Candidate("steering", risk) = c
    BY <1>2, <2>1 DEF Candidate
  <2>3. /\ c.scope = {"ue_group"} /\ c.fields = {"preferred_path", "ntn_share_pct"}
        /\ c.path = "hybrid" /\ c.amount = 10 * risk
    OBVIOUS
  <2>4. /\ m.scope = {"ue_group"} /\ m.scopeMay = {"ue_group", "cell_id"}
        /\ m.must = {"preferred_path"} /\ m.may = {"preferred_path", "ntn_share_pct"}
    BY DEF CreateSchema
  <2> HIDE DEF c, m
  <2>5. /\ m.scope \subseteq c.scope /\ c.scope \subseteq m.scopeMay
        /\ m.must \subseteq c.fields /\ c.fields \subseteq m.may
        /\ c.path \in {"terrestrial", "ntn", "hybrid"} /\ c.amount \in 0..1000
        /\ "priority" \notin c.fields /\ "decision" \notin c.fields
    BY <2>1, <2>3, <2>4
  <2>6. Conforms("steering", c)
    BY <2>5, Zenon DEF Conforms, m
  <2> QED BY <2>1, <2>2, <2>6
<1>3. CASE risk >= 60
  <2> DEFINE c == [scope |-> {"workload_class"}, fields |-> {"decision"},
                   priority |-> 0, path |-> "", decision |-> "reject", amount |-> 0]
             m == CreateSchema["admission"]
  <2>1. /\ Choose(risk) = "admission"
        /\ risk \notin 30..59 /\ ~(risk < 30) /\ ~(risk < 60)
    BY <1>3 DEF Choose
  <2>2. Candidate("admission", risk) = c
    BY <2>1 DEF Candidate
  <2>3. c.scope = {"workload_class"} /\ c.fields = {"decision"} /\ c.decision = "reject"
    OBVIOUS
  <2>4. /\ m.scope = {"workload_class"}
        /\ m.scopeMay = {"workload_class", "edge_node_id"}
        /\ m.must = {"decision"} /\ m.may = {"decision", "defer_until_seconds"}
    BY DEF CreateSchema
  <2> HIDE DEF c, m
  <2>5. /\ m.scope \subseteq c.scope /\ c.scope \subseteq m.scopeMay
        /\ m.must \subseteq c.fields /\ c.fields \subseteq m.may
        /\ c.decision \in {"accept", "defer", "reject"}
        /\ "priority" \notin c.fields /\ "preferred_path" \notin c.fields
        /\ "ntn_share_pct" \notin c.fields
    BY <2>3, <2>4
  <2>6. Conforms("admission", c)
    BY <2>5, Zenon DEF Conforms, m
  <2> QED BY <2>1, <2>2, <2>6
<1> QED BY <1>1, <1>2, <1>3

A1CallSet == [op : {"none", "emit", "rollback", "job", "unjob"},
              type : PolicyTypes, id : PolicyIds, risk : 0..NoRisk, status : Nat]

BookEntries == {"unused", "sent", "live", "gone", "unsure"}

A1Typed ==
  /\ dialect \in A1Dialects \cup {NoDialect}
  /\ call \in [A1Callers -> A1CallSet] /\ late \subseteq A1CallSet
  /\ book \in [PolicyTypes \X PolicyIds -> BookEntries]
  /\ collided \in BOOLEAN

\* r is a request for the policy i of type t.
AboutPolicy(r, t, i) == r.op \in {"emit", "rollback"} /\ r.type = t /\ r.id = i

\* What is emitted was planned: the type is the one chosen for the risk.
A1Planned ==
  \A c \in A1Callers :
    call[c].op = "emit" =>
      call[c].risk \in 0..100 /\ call[c].type = Choose(call[c].risk)

\* Before the adapter is configured nothing has happened.
A1Unconfigured ==
  dialect = NoDialect =>
    /\ ricHas = {} /\ late = {}
    /\ \A c \in A1Callers : call[c].op = "none"
    /\ \A t \in PolicyTypes, i \in PolicyIds : book[<<t, i>>] = "unused"

\* A policy of which the adapter was told something has no request under way,
\* one that is being told of has one, and a request given up leaves it unsure.
BookKept(t, i) ==
  /\ book[<<t, i>>] \in {"unused", "live", "gone"} =>
       /\ \A c \in A1Callers : ~AboutPolicy(call[c], t, i)
       /\ \A r \in late : ~AboutPolicy(r, t, i)
  /\ book[<<t, i>>] = "sent" =>
       /\ \A r \in late : ~AboutPolicy(r, t, i)
       /\ \A c, d \in A1Callers :
            AboutPolicy(call[c], t, i) /\ AboutPolicy(call[d], t, i) => c = d

\* Until a flat dialect's id is used for a second type, it is used for one.
OneTypePerId ==
  ~collided /\ dialect \in Flat =>
    \A t, u \in PolicyTypes, i \in PolicyIds :
      t # u => book[<<t, i>>] = "unused" \/ book[<<u, i>>] = "unused"

\* The RIC holds policies under addresses of this adapter.
RicTyped ==
  \A pol \in ricHas :
    \E u \in PolicyTypes, j \in PolicyIds : pol = <<Address(u, j), u>>

RicHolds(t, i) == <<Address(t, i), t>> \in ricHas
RicLacks(t, i) == \A pol \in ricHas : pol[1] # Address(t, i)

\* What was answered, and what an answer on its way will say, is so.
AnswersTrue(t, i) ==
  /\ book[<<t, i>>] = "live" => RicHolds(t, i)
  /\ book[<<t, i>>] = "gone" => RicLacks(t, i)
  /\ \A c \in A1Callers :
       book[<<t, i>>] = "sent" /\ AboutPolicy(call[c], t, i) /\ call[c].status # 0 =>
         /\ call[c].op = "emit" /\ call[c].status < 300 => RicHolds(t, i)
         /\ call[c].op = "rollback" => RicLacks(t, i)

A1Ind ==
  /\ A1Typed /\ A1Planned /\ A1Unconfigured /\ OneTypePerId /\ RicTyped /\ ~refused
  /\ \A t \in PolicyTypes, i \in PolicyIds :
       BookKept(t, i) /\ (~collided => AnswersTrue(t, i))

\* No call is a call.
LEMMA NoCallTyped == NoCall \in A1CallSet /\ NoCall.op = "none" /\ NoCall.status = 0
<1>1. (CHOOSE i \in PolicyIds : TRUE) \in PolicyIds
  BY A1Assumption
<1> QED BY <1>1 DEF NoCall, A1CallSet, PolicyTypes, NoRisk

\* The facts hold of an adapter that is not configured.
LEMMA A1IndInit == A1Init => A1Ind
<1> SUFFICES ASSUME A1Init PROVE A1Ind
  OBVIOUS
<1>1. /\ dialect = NoDialect /\ ricHas = {} /\ late = {} /\ ~collided /\ ~refused
      /\ \A c \in A1Callers : call[c] = NoCall
      /\ \A t \in PolicyTypes, i \in PolicyIds : book[<<t, i>>] = "unused"
  BY DEF A1Init, RicInit
<1>2. call \in [A1Callers -> A1CallSet]
  BY NoCallTyped DEF A1Init
<1>3. book \in [PolicyTypes \X PolicyIds -> BookEntries] /\ collided \in BOOLEAN
  BY DEF A1Init, BookEntries
<1>4. A1Typed
  BY <1>1, <1>2, <1>3 DEF A1Typed
<1>5. A1Planned /\ A1Unconfigured
  BY <1>1, NoCallTyped DEF A1Planned, A1Unconfigured
<1>6. OneTypePerId /\ RicTyped
  BY <1>1 DEF OneTypePerId, RicTyped
<1>7. ASSUME NEW t \in PolicyTypes, NEW i \in PolicyIds
      PROVE  BookKept(t, i) /\ AnswersTrue(t, i)
  BY <1>1, NoCallTyped DEF BookKept, AnswersTrue, AboutPolicy
<1> QED BY <1>1, <1>4, <1>5, <1>6, <1>7 DEF A1Ind

\* Policies that are used and not the same one have different addresses, unless
\* ids collided.
LEMMA AddressesApart ==
  ASSUME A1Ind, ~collided, dialect # NoDialect,
         NEW t \in PolicyTypes, NEW i \in PolicyIds,
         NEW u \in PolicyTypes, NEW j \in PolicyIds, t # u \/ i # j,
         book[<<t, i>>] # "unused", book[<<u, j>>] # "unused"
  PROVE  Address(t, i) # Address(u, j)
<1>1. CASE dialect \in Nested
  BY <1>1 DEF Address
<1>2. CASE dialect \notin Nested
  <2>1. dialect \in Flat
    BY <1>2, A1Assumption DEF A1Ind, A1Typed
  <2>2. i # j
    BY <2>1 DEF A1Ind, OneTypePerId
  <2> QED BY <1>2, <2>2 DEF Address
<1> QED BY <1>1, <1>2

\* put_policy, put in two facts.
LEMMA HandleEmit ==
  ASSUME NEW r, r.op = "emit", Handle(r)
  PROVE  /\ ricHas' = IF PutStatus(r) < 300
                      THEN Without(Address(r.type, r.id))
                             \cup {<<Address(r.type, r.id), r.type>>}
                      ELSE ricHas
         /\ HandledStatus(r) = PutStatus(r)
BY Zenon DEF Handle, HandledStatus

\* delete_policy.
LEMMA HandleRollback ==
  ASSUME NEW r, r.op = "rollback", Handle(r)
  PROVE  /\ ricHas' = Without(Address(r.type, r.id))
         /\ HandledStatus(r) = DeleteStatus(r)
BY Zenon DEF Handle, HandledStatus

\* The A1-EI jobs.
LEMMA HandleOther ==
  ASSUME NEW r, r.op # "emit", r.op # "rollback", Handle(r)
  PROVE  ricHas' = ricHas /\ HandledStatus(r) = 200
BY Zenon DEF Handle, HandledStatus

\* A handled request changes what the RIC holds at its own address only.
LEMMA HandleElsewhere ==
  ASSUME NEW r \in A1CallSet, Handle(r), dialect' = dialect,
         NEW t \in PolicyTypes, NEW i \in PolicyIds,
         r.op \in {"emit", "rollback"} => Address(r.type, r.id) # Address(t, i)
  PROVE  /\ RicHolds(t, i) => RicHolds(t, i)'
         /\ RicLacks(t, i) => RicLacks(t, i)'
<1>0. Address(t, i)' = Address(t, i)
  BY DEF Address
<1> DEFINE here == Address(r.type, r.id)
<1>1. CASE r.op = "emit"
  <2>1. ricHas' = ricHas \/ ricHas' = Without(here) \cup {<<here, r.type>>}
    BY <1>1, HandleEmit
  <2>2. here # Address(t, i)
    BY <1>1
  <2> HIDE DEF here
  <2> QED BY <1>0, <2>1, <2>2 DEF RicHolds, RicLacks, Without
<1>2. CASE r.op = "rollback"
  <2>1. ricHas' = Without(here)
    BY <1>2, HandleRollback
  <2>2. here # Address(t, i)
    BY <1>2
  <2> HIDE DEF here
  <2> QED BY <1>0, <2>1, <2>2 DEF RicHolds, RicLacks, Without
<1>3. CASE r.op # "emit" /\ r.op # "rollback"
  BY <1>0, <1>3, HandleOther DEF RicHolds, RicLacks
<1> QED BY <1>1, <1>2, <1>3

\* It leaves what it says.
LEMMA HandleHere ==
  ASSUME NEW r \in A1CallSet, Handle(r), dialect' = dialect
  PROVE  /\ r.op = "emit" /\ HandledStatus(r) < 300 => RicHolds(r.type, r.id)'
         /\ r.op = "rollback" => RicLacks(r.type, r.id)'
<1> DEFINE here == Address(r.type, r.id)
<1>1. ASSUME r.op = "emit", HandledStatus(r) < 300
      PROVE  <<here, r.type>> \in ricHas'
  <2>1. HandledStatus(r) = PutStatus(r)
    BY <1>1, HandleEmit
  <2>2. ricHas' = Without(here) \cup {<<here, r.type>>}
    BY <1>1, <2>1, HandleEmit
  <2> QED BY <2>2
<1>2. ASSUME r.op = "rollback"
      PROVE  \A pol \in ricHas' : pol[1] # here
  BY <1>2, HandleRollback DEF Without
<1>3. (IF dialect' \in Nested THEN <<r.type, r.id>> ELSE <<"any", r.id>>) = here
  BY DEF Address
<1> HIDE DEF here
<1> QED BY <1>1, <1>2, <1>3 DEF RicHolds, RicLacks, Address

\* The RIC goes on holding policies of this adapter only.
LEMMA HandleTyped ==
  ASSUME NEW r \in A1CallSet, Handle(r), dialect' = dialect, RicTyped
  PROVE  RicTyped'
<1>1. r.type \in PolicyTypes /\ r.id \in PolicyIds
  BY DEF A1CallSet
<1>2. \A pol \in ricHas' : pol \in ricHas \/ pol = <<Address(r.type, r.id), r.type>>
  <2>1. CASE r.op = "emit"
    BY <2>1, HandleEmit DEF Without
  <2>2. CASE r.op = "rollback"
    BY <2>2, HandleRollback DEF Without
  <2>3. CASE r.op # "emit" /\ r.op # "rollback"
    BY <2>3, HandleOther
  <2> QED BY <2>1, <2>2, <2>3
<1>3. \A u, j : Address(u, j)' = Address(u, j)
  BY DEF Address
<1>4. \A pol \in ricHas' :
        \E u \in PolicyTypes, j \in PolicyIds : pol = <<Address(u, j), u>>
  BY <1>1, <1>2 DEF RicTyped
<1> QED BY <1>3, <1>4 DEF RicTyped, Address

\* A planned request is never refused for its contents, and a handled request
\* has a status.
LEMMA NeverRefused ==
  ASSUME NEW r \in A1CallSet, Handle(r),
         r.op = "emit" => r.risk \in 0..100 /\ r.type = Choose(r.risk)
  PROVE  HandledStatus(r) \in {200, 201, 204, 404}
<1>1. CASE r.op = "emit"
  <2>1. Conforms(r.type, Candidate(r.type, r.risk))
    BY <1>1, PlannedConforms
  <2>2. HandledStatus(r) = PutStatus(r)
    BY <1>1, HandleEmit
  <2>3. PutStatus(r) = 404 \/ PutStatus(r) = 200 \/ PutStatus(r) = 201
    <3> DEFINE fits == Conforms(r.type, Candidate(r.type, r.risk))
               there == \E pol \in ricHas : pol[1] = Address(r.type, r.id)
    <3>1. PutStatus(r) = IF r.type \notin ricTypes THEN 404
                         ELSE IF ~fits THEN 400
                         ELSE IF there THEN 200 ELSE 201
      BY Zenon DEF PutStatus
    <3>2. fits = TRUE
      BY <2>1
    <3> HIDE DEF fits, there
    <3> QED BY <3>1, <3>2
  <2> QED BY <2>2, <2>3
<1>2. CASE r.op = "rollback"
  BY <1>2, HandleRollback DEF DeleteStatus
<1>3. CASE r.op # "emit" /\ r.op # "rollback"
  BY <1>3, HandleOther
<1> QED BY <1>1, <1>2, <1>3

\* A call that begins without an overlap is the only one for its policy; with one,
\* the policy is unsure.
LEMMA StartKeeps ==
  ASSUME A1Ind, NEW c \in A1Callers, NEW r \in A1CallSet, Start(c, r),
         r.op \in {"emit", "rollback"}, r.status = 0,
         r.op = "emit" => r.risk \in 0..100 /\ r.type = Choose(r.risk),
         book' = [book EXCEPT ![<<r.type, r.id>>] =
                    IF Overlaps(c, r.type, r.id) THEN "unsure" ELSE "sent"],
         collided' \in BOOLEAN, collided => collided',
         ~collided' /\ dialect \in Flat =>
           \A u \in PolicyTypes \ {r.type} : book[<<u, r.id>>] = "unused",
         UNCHANGED <<dialect, ricHas, late, refused>>
  PROVE  A1Ind'
<1>0. /\ dialect # NoDialect /\ call[c].op = "none"
      /\ call' = [call EXCEPT ![c] = r]
      /\ r.type \in PolicyTypes /\ r.id \in PolicyIds
  BY DEF Start, A1CallSet
<1> DEFINE told == IF Overlaps(c, r.type, r.id) THEN "unsure" ELSE "sent"
<1>1. /\ call \in [A1Callers -> A1CallSet] /\ call' \in [A1Callers -> A1CallSet]
      /\ call'[c] = r /\ \A d \in A1Callers \ {c} : call'[d] = call[d]
  BY <1>0 DEF A1Ind, A1Typed
<1>2. /\ book \in [PolicyTypes \X PolicyIds -> BookEntries]
      /\ book' \in [PolicyTypes \X PolicyIds -> BookEntries]
      /\ book'[<<r.type, r.id>>] = told
      /\ \A t \in PolicyTypes, i \in PolicyIds :
           t # r.type \/ i # r.id => book'[<<t, i>>] = book[<<t, i>>]
  BY <1>0 DEF A1Ind, A1Typed, BookEntries
<1>3. told \in {"sent", "unsure"}
  OBVIOUS
<1>4. told = "sent" => ~Overlaps(c, r.type, r.id)
  OBVIOUS
<1> HIDE DEF told
<1>5. A1Typed'
  BY <1>1, <1>2 DEF A1Ind, A1Typed
<1>6. A1Planned' /\ A1Unconfigured' /\ RicTyped' /\ ~refused'
  <2>1. A1Planned'
    BY <1>1 DEF A1Ind, A1Planned
  <2>2. RicTyped'
    BY DEF A1Ind, RicTyped, Address
  <2> QED BY <1>0, <2>1, <2>2 DEF A1Ind, A1Unconfigured
<1>7. OneTypePerId'
  <2> SUFFICES ASSUME ~collided', dialect \in Flat,
                      NEW t \in PolicyTypes, NEW u \in PolicyTypes,
                      NEW i \in PolicyIds, t # u
               PROVE  book'[<<t, i>>] = "unused" \/ book'[<<u, i>>] = "unused"
    BY DEF OneTypePerId
  <2>1. book[<<t, i>>] = "unused" \/ book[<<u, i>>] = "unused"
    BY DEF A1Ind, OneTypePerId
  <2>2. CASE i = r.id /\ t = r.type
    BY <1>2, <2>2
  <2>3. CASE i = r.id /\ u = r.type
    BY <1>2, <2>3
  <2>4. CASE i # r.id \/ (t # r.type /\ u # r.type)
    BY <1>2, <2>1, <2>4
  <2> QED BY <2>2, <2>3, <2>4
<1>8. ASSUME NEW t \in PolicyTypes, NEW i \in PolicyIds
      PROVE  BookKept(t, i)' /\ (~collided' => AnswersTrue(t, i)')
  <2>0. BookKept(t, i) /\ (~collided => AnswersTrue(t, i))
    BY DEF A1Ind
  <2>1. CASE t = r.type /\ i = r.id
    <3>1. \A d \in A1Callers : told = "sent" /\ AboutPolicy(call'[d], t, i) => d = c
      BY <1>0, <1>1, <1>4, <2>1 DEF Overlaps, AboutPolicy
    <3>2. \A q \in late : told = "sent" => ~AboutPolicy(q, t, i)
      BY <1>4, <2>1 DEF Overlaps, AboutPolicy
    <3>3. BookKept(t, i)'
      BY <1>2, <1>3, <2>1, <3>1, <3>2 DEF BookKept, AboutPolicy
    <3>4. AnswersTrue(t, i)'
      BY <1>1, <1>2, <1>3, <2>1, <3>1 DEF AnswersTrue, AboutPolicy
    <3> QED BY <3>3, <3>4
  <2>2. CASE t # r.type \/ i # r.id
    <3>1. book'[<<t, i>>] = book[<<t, i>>] /\ ~AboutPolicy(r, t, i)
      BY <1>2, <2>2 DEF AboutPolicy
    <3>2. \A d \in A1Callers : AboutPolicy(call'[d], t, i) =>
                                AboutPolicy(call[d], t, i) /\ call'[d] = call[d]
      BY <1>1, <3>1
    <3>3. BookKept(t, i)'
      BY <2>0, <3>1, <3>2 DEF BookKept, AboutPolicy
    <3>4. /\ RicHolds(t, i)' <=> RicHolds(t, i)
          /\ RicLacks(t, i)' <=> RicLacks(t, i)
      BY DEF RicHolds, RicLacks, Address
    <3>5. ~collided' => AnswersTrue(t, i)'
      BY <2>0, <3>1, <3>2, <3>4 DEF AnswersTrue, AboutPolicy
    <3> QED BY <3>3, <3>5
  <2> QED BY <2>1, <2>2
<1> QED BY <1>5, <1>6, <1>7, <1>8 DEF A1Ind

\* A call that ends with an answer tells the book the truth.
LEMMA AnsweredKeeps == ASSUME A1Ind, NEW c \in A1Callers, Answered(c) PROVE A1Ind'
<1> DEFINE r == call[c]
           verdict == IF r.op = "rollback" THEN "gone"
                      ELSE IF r.status < 300 THEN "live" ELSE "unsure"
           told == r.op \in {"emit", "rollback"} /\ book[<<r.type, r.id>>] = "sent"
<1>0. /\ r.status # 0 /\ call' = [call EXCEPT ![c] = NoCall]
      /\ book' = IF told THEN [book EXCEPT ![<<r.type, r.id>>] = verdict] ELSE book
      /\ UNCHANGED <<dialect, ricHas, late, collided, refused>>
  BY DEF Answered
<1>1. /\ call \in [A1Callers -> A1CallSet] /\ call' \in [A1Callers -> A1CallSet]
      /\ call'[c] = NoCall /\ \A d \in A1Callers \ {c} : call'[d] = call[d]
      /\ r \in A1CallSet /\ r.type \in PolicyTypes /\ r.id \in PolicyIds
  BY <1>0, NoCallTyped DEF A1Ind, A1Typed, A1CallSet
<1>2. verdict \in BookEntries \ {"unused", "sent"}
  BY DEF BookEntries
<1>3. /\ verdict = "live" /\ told => r.op = "emit" /\ r.status < 300
      /\ verdict = "gone" => r.op = "rollback"
  OBVIOUS
<1>4. told => AboutPolicy(r, r.type, r.id)
  BY DEF AboutPolicy
<1>5. /\ book \in [PolicyTypes \X PolicyIds -> BookEntries]
      /\ book' \in [PolicyTypes \X PolicyIds -> BookEntries]
      /\ told => book'[<<r.type, r.id>>] = verdict /\ book[<<r.type, r.id>>] = "sent"
      /\ \A t \in PolicyTypes, i \in PolicyIds :
           ~told \/ t # r.type \/ i # r.id => book'[<<t, i>>] = book[<<t, i>>]
  <2> HIDE DEF verdict
  <2>1. book \in [PolicyTypes \X PolicyIds -> BookEntries]
    BY DEF A1Ind, A1Typed
  <2>2. CASE told
    BY <1>0, <1>1, <1>2, <2>1, <2>2
  <2>3. CASE ~told
    BY <1>0, <2>1, <2>3
  <2> QED BY <2>2, <2>3
<1>6. \A d \in A1Callers, t \in PolicyTypes, i \in PolicyIds :
        AboutPolicy(call'[d], t, i) =>
          d # c /\ call'[d] = call[d] /\ AboutPolicy(call[d], t, i)
  BY <1>1, NoCallTyped DEF AboutPolicy
<1> HIDE DEF verdict, told
<1>7. A1Typed' /\ A1Planned' /\ RicTyped' /\ ~refused'
  <2>1. A1Typed'
    BY <1>0, <1>1, <1>5 DEF A1Ind, A1Typed
  <2>2. A1Planned'
    BY <1>1, NoCallTyped DEF A1Ind, A1Planned
  <2>3. RicTyped'
    BY <1>0 DEF A1Ind, RicTyped, Address
  <2> QED BY <1>0, <2>1, <2>2, <2>3 DEF A1Ind
<1>8. A1Unconfigured' /\ OneTypePerId'
  <2>1. \A t \in PolicyTypes, i \in PolicyIds :
          book[<<t, i>>] = "unused" => book'[<<t, i>>] = "unused"
    BY <1>5
  <2>2. A1Unconfigured'
    BY <1>0, <1>1, <2>1, NoCallTyped DEF A1Ind, A1Unconfigured
  <2>3. OneTypePerId'
    BY <1>0, <2>1 DEF A1Ind, OneTypePerId
  <2> QED BY <2>2, <2>3
<1>9. ASSUME NEW t \in PolicyTypes, NEW i \in PolicyIds
      PROVE  BookKept(t, i)' /\ (~collided' => AnswersTrue(t, i)')
  <2>0. BookKept(t, i) /\ (~collided => AnswersTrue(t, i))
    BY DEF A1Ind
  <2>1. /\ RicHolds(t, i)' <=> RicHolds(t, i)
        /\ RicLacks(t, i)' <=> RicLacks(t, i)
    BY <1>0 DEF RicHolds, RicLacks, Address
  <2>2. CASE told /\ t = r.type /\ i = r.id
    <3>0. book[<<t, i>>] = "sent" /\ book'[<<t, i>>] = verdict /\ AboutPolicy(r, t, i)
      BY <1>4, <1>5, <2>2
    <3>1. \A d \in A1Callers : ~AboutPolicy(call'[d], t, i)
      BY <1>6, <2>0, <3>0 DEF BookKept
    <3>2. \A q \in late' : ~AboutPolicy(q, t, i)
      BY <1>0, <2>0, <3>0 DEF BookKept
    <3>3. BookKept(t, i)'
      BY <3>1, <3>2 DEF BookKept, AboutPolicy
    <3>4. ~collided => (verdict = "live" => RicHolds(t, i))
                       /\ (verdict = "gone" => RicLacks(t, i))
      BY <1>0, <1>3, <2>0, <2>2, <3>0 DEF AnswersTrue
    <3>5. ~collided' => AnswersTrue(t, i)'
      BY <1>0, <1>2, <2>1, <3>0, <3>1, <3>4 DEF AnswersTrue, AboutPolicy
    <3> QED BY <3>3, <3>5
  <2>3. CASE ~told \/ t # r.type \/ i # r.id
    <3>1. book'[<<t, i>>] = book[<<t, i>>]
      BY <1>5, <2>3
    <3>2. BookKept(t, i)'
      BY <1>0, <1>6, <2>0, <3>1 DEF BookKept, AboutPolicy
    <3>3. ~collided' => AnswersTrue(t, i)'
      BY <1>0, <1>6, <2>0, <2>1, <3>1 DEF AnswersTrue, AboutPolicy
    <3> QED BY <3>2, <3>3
  <2> QED BY <2>2, <2>3
<1> QED BY <1>7, <1>8, <1>9 DEF A1Ind

\* A call that is given up leaves its policy unsure, whether or not its request
\* is still to arrive.
LEMMA GiveUpKeeps == ASSUME A1Ind, NEW c \in A1Callers, GiveUp(c) PROVE A1Ind'
<1> DEFINE r == call[c]
           policy == r.op \in {"emit", "rollback"}
<1>0. /\ r.op # "none" /\ call' = [call EXCEPT ![c] = NoCall]
      /\ late' \subseteq late \cup {r}
      /\ book' = IF policy THEN [book EXCEPT ![<<r.type, r.id>>] = "unsure"] ELSE book
      /\ UNCHANGED <<dialect, ricHas, collided, refused>>
  BY DEF GiveUp
<1>1. /\ call \in [A1Callers -> A1CallSet] /\ call' \in [A1Callers -> A1CallSet]
      /\ call'[c] = NoCall /\ \A d \in A1Callers \ {c} : call'[d] = call[d]
      /\ r \in A1CallSet /\ r.type \in PolicyTypes /\ r.id \in PolicyIds
  BY <1>0, NoCallTyped DEF A1Ind, A1Typed, A1CallSet
<1>2. /\ book' \in [PolicyTypes \X PolicyIds -> BookEntries]
      /\ policy => book'[<<r.type, r.id>>] = "unsure"
      /\ \A t \in PolicyTypes, i \in PolicyIds :
           ~AboutPolicy(r, t, i) => book'[<<t, i>>] = book[<<t, i>>]
  <2>1. book \in [PolicyTypes \X PolicyIds -> BookEntries]
    BY DEF A1Ind, A1Typed
  <2>2. CASE policy
    BY <1>0, <1>1, <2>1, <2>2 DEF BookEntries, AboutPolicy
  <2>3. CASE ~policy
    BY <1>0, <2>1, <2>3
  <2> QED BY <2>2, <2>3
<1>3. \A d \in A1Callers, t \in PolicyTypes, i \in PolicyIds :
        AboutPolicy(call'[d], t, i) =>
          d # c /\ call'[d] = call[d] /\ AboutPolicy(call[d], t, i)
  BY <1>1, NoCallTyped DEF AboutPolicy
<1>4. dialect # NoDialect
  BY <1>0 DEF A1Ind, A1Unconfigured
<1>5. A1Typed' /\ A1Planned' /\ A1Unconfigured' /\ RicTyped' /\ ~refused'
  <2>1. A1Typed'
    BY <1>0, <1>1, <1>2 DEF A1Ind, A1Typed
  <2>2. A1Planned'
    BY <1>1, NoCallTyped DEF A1Ind, A1Planned
  <2>3. RicTyped'
    BY <1>0 DEF A1Ind, RicTyped, Address
  <2> QED BY <1>0, <1>4, <2>1, <2>2, <2>3 DEF A1Ind, A1Unconfigured
<1>6. OneTypePerId'
  <2>1. \A t \in PolicyTypes, i \in PolicyIds :
          AboutPolicy(r, t, i) => book[<<t, i>>] # "unused"
    BY DEF A1Ind, BookKept
  <2>2. \A t \in PolicyTypes, i \in PolicyIds :
          book[<<t, i>>] = "unused" => book'[<<t, i>>] = "unused"
    BY <1>2, <2>1
  <2> QED BY <1>0, <2>2 DEF A1Ind, OneTypePerId
<1>7. ASSUME NEW t \in PolicyTypes, NEW i \in PolicyIds
      PROVE  BookKept(t, i)' /\ (~collided' => AnswersTrue(t, i)')
  <2>0. BookKept(t, i) /\ (~collided => AnswersTrue(t, i))
    BY DEF A1Ind
  <2>1. CASE AboutPolicy(r, t, i)
    <3>1. book'[<<t, i>>] = "unsure"
      BY <1>2, <2>1 DEF AboutPolicy
    <3> QED BY <3>1 DEF BookKept, AnswersTrue
  <2>2. CASE ~AboutPolicy(r, t, i)
    <3>1. book'[<<t, i>>] = book[<<t, i>>]
      BY <1>2, <2>2
    <3>2. \A q \in late' : AboutPolicy(q, t, i) => q \in late
      BY <1>0, <2>2
    <3>3. BookKept(t, i)'
      BY <1>3, <2>0, <3>1, <3>2 DEF BookKept, AboutPolicy
    <3>4. /\ RicHolds(t, i)' <=> RicHolds(t, i)
          /\ RicLacks(t, i)' <=> RicLacks(t, i)
      BY <1>0 DEF RicHolds, RicLacks, Address
    <3>5. ~collided' => AnswersTrue(t, i)'
      BY <1>0, <1>3, <2>0, <3>1, <3>4 DEF AnswersTrue, AboutPolicy
    <3> QED BY <3>3, <3>5
  <2> QED BY <2>1, <2>2
<1> QED BY <1>5, <1>6, <1>7 DEF A1Ind

\* A request that arrives makes true what its answer will say, and nothing false
\* that was said of another policy.
LEMMA ArriveKeeps == ASSUME A1Ind, NEW c \in A1Callers, Arrive(c) PROVE A1Ind'
<1> DEFINE r == call[c]
           status == HandledStatus(r)
<1>0. /\ r.op # "none" /\ r.status = 0 /\ Handle(r)
      /\ call' = [call EXCEPT ![c].status = status]
      /\ refused' = (refused \/ status = 400)
      /\ UNCHANGED <<dialect, late, book, collided>>
  BY DEF Arrive
<1>1. /\ call \in [A1Callers -> A1CallSet] /\ r \in A1CallSet
      /\ r.type \in PolicyTypes /\ r.id \in PolicyIds
  BY DEF A1Ind, A1Typed, A1CallSet
<1>2. status \in {200, 201, 204, 404}
  BY <1>0, <1>1, NeverRefused DEF A1Ind, A1Planned
<1> HIDE DEF status
<1>3. /\ call' \in [A1Callers -> A1CallSet]
      /\ call'[c].status = status /\ call'[c].op = r.op /\ call'[c].type = r.type
      /\ call'[c].id = r.id /\ call'[c].risk = r.risk
      /\ \A d \in A1Callers \ {c} : call'[d] = call[d]
  <2>1. call' = [call EXCEPT ![c] = [r EXCEPT !.status = status]]
    BY <1>0
  <2>2. [r EXCEPT !.status = status] \in A1CallSet
    BY <1>1, <1>2 DEF A1CallSet
  <2>3. /\ [r EXCEPT !.status = status].status = status
        /\ [r EXCEPT !.status = status].op = r.op
        /\ [r EXCEPT !.status = status].type = r.type
        /\ [r EXCEPT !.status = status].id = r.id
        /\ [r EXCEPT !.status = status].risk = r.risk
    BY <1>1 DEF A1CallSet
  <2> QED BY <1>1, <2>1, <2>2, <2>3
<1>4. \A t, i : \A d \in A1Callers :
        AboutPolicy(call'[d], t, i) <=> AboutPolicy(call[d], t, i)
  BY <1>3 DEF AboutPolicy
<1>5. dialect # NoDialect
  BY <1>0 DEF A1Ind, A1Unconfigured
<1>6. A1Typed' /\ A1Planned' /\ A1Unconfigured' /\ RicTyped' /\ ~refused'
  <2>1. A1Typed'
    BY <1>0, <1>3 DEF A1Ind, A1Typed
  <2>2. A1Planned'
    BY <1>3 DEF A1Ind, A1Planned
  <2>3. RicTyped'
    BY <1>0, <1>1, HandleTyped DEF A1Ind
  <2>4. A1Unconfigured'
    BY <1>0, <1>5 DEF A1Unconfigured
  <2>5. ~refused'
    <3>1. status # 400
      BY <1>2
    <3> QED BY <1>0, <3>1, Zenon DEF A1Ind
  <2> QED BY <2>1, <2>2, <2>3, <2>4, <2>5
<1>7. OneTypePerId'
  BY <1>0 DEF A1Ind, OneTypePerId
<1>8. ASSUME NEW t \in PolicyTypes, NEW i \in PolicyIds
      PROVE  BookKept(t, i)' /\ (~collided' => AnswersTrue(t, i)')
  <2>0. BookKept(t, i) /\ (~collided => AnswersTrue(t, i))
    BY DEF A1Ind
  <2>1. BookKept(t, i)'
    BY <1>0, <1>4, <2>0 DEF BookKept
  <2>2. ASSUME ~collided', AboutPolicy(r, t, i) PROVE AnswersTrue(t, i)'
    <3>1. book[<<t, i>>] \notin {"live", "gone"}
      BY <2>0, <2>2 DEF BookKept
    <3>2. \A d \in A1Callers :
            book[<<t, i>>] = "sent" /\ AboutPolicy(call'[d], t, i) => d = c
      BY <1>4, <2>0, <2>2 DEF BookKept
    <3>3. /\ r.op = "emit" /\ status < 300 => RicHolds(t, i)'
          /\ r.op = "rollback" => RicLacks(t, i)'
      BY <1>0, <1>1, <2>2, HandleHere DEF AboutPolicy, status
    <3> QED BY <1>0, <1>3, <3>1, <3>2, <3>3 DEF AnswersTrue
  <2>3. ASSUME ~collided', ~AboutPolicy(r, t, i), book[<<t, i>>] # "unused"
        PROVE  AnswersTrue(t, i)'
    <3>1. r.op \in {"emit", "rollback"} => Address(r.type, r.id) # Address(t, i)
      <4> SUFFICES ASSUME r.op \in {"emit", "rollback"}
                   PROVE  Address(r.type, r.id) # Address(t, i)
        OBVIOUS
      <4>1. AboutPolicy(r, r.type, r.id) /\ (t # r.type \/ i # r.id)
        BY <2>3 DEF AboutPolicy
      <4>2. book[<<r.type, r.id>>] # "unused"
        BY <1>1, <4>1 DEF A1Ind, BookKept
      <4> QED BY <1>0, <1>1, <1>5, <2>3, <4>1, <4>2, AddressesApart
    <3>2. /\ RicHolds(t, i) => RicHolds(t, i)'
          /\ RicLacks(t, i) => RicLacks(t, i)'
      BY <1>0, <1>1, <3>1, HandleElsewhere
    <3>3. \A d \in A1Callers :
            AboutPolicy(call'[d], t, i) => d # c /\ call'[d] = call[d]
      BY <1>3, <1>4, <2>3
    <3> QED BY <1>0, <1>4, <2>0, <2>3, <3>2, <3>3 DEF AnswersTrue
  <2>4. ASSUME book[<<t, i>>] = "unused" PROVE AnswersTrue(t, i)'
    BY <1>0, <2>4 DEF AnswersTrue
  <2> QED BY <2>1, <2>2, <2>3, <2>4
<1> QED BY <1>6, <1>7, <1>8 DEF A1Ind

\* A request that arrives after its caller has given up concerns a policy nothing
\* is claimed of.
LEMMA ArriveLateKeeps == ASSUME A1Ind, NEW r \in late, ArriveLate(r) PROVE A1Ind'
<1>0. /\ Handle(r) /\ late' = late \ {r}
      /\ UNCHANGED <<dialect, call, book, collided, refused>>
  BY DEF ArriveLate
<1>1. r \in A1CallSet /\ r.type \in PolicyTypes /\ r.id \in PolicyIds
  BY DEF A1Ind, A1Typed, A1CallSet
<1>2. dialect # NoDialect
  BY DEF A1Ind, A1Unconfigured
<1>3. A1Typed' /\ A1Planned' /\ A1Unconfigured' /\ OneTypePerId' /\ ~refused'
  BY <1>0, <1>2 DEF A1Ind, A1Typed, A1Planned, A1Unconfigured, OneTypePerId
<1>4. RicTyped'
  BY <1>0, <1>1, HandleTyped DEF A1Ind
<1>5. ASSUME NEW t \in PolicyTypes, NEW i \in PolicyIds
      PROVE  BookKept(t, i)' /\ (~collided' => AnswersTrue(t, i)')
  <2>0. BookKept(t, i) /\ (~collided => AnswersTrue(t, i))
    BY DEF A1Ind
  <2>1. BookKept(t, i)'
    BY <1>0, <2>0 DEF BookKept
  <2>2. ASSUME AboutPolicy(r, t, i) PROVE AnswersTrue(t, i)'
    <3>1. book[<<t, i>>] = "unsure"
      BY <2>0, <2>2 DEF BookKept, A1Ind, A1Typed, BookEntries
    <3> QED BY <1>0, <3>1 DEF AnswersTrue
  <2>3. ASSUME ~collided', ~AboutPolicy(r, t, i), book[<<t, i>>] # "unused"
        PROVE  AnswersTrue(t, i)'
    <3>1. r.op \in {"emit", "rollback"} => Address(r.type, r.id) # Address(t, i)
      <4> SUFFICES ASSUME r.op \in {"emit", "rollback"}
                   PROVE  Address(r.type, r.id) # Address(t, i)
        OBVIOUS
      <4>1. AboutPolicy(r, r.type, r.id) /\ (t # r.type \/ i # r.id)
        BY <2>3 DEF AboutPolicy
      <4>2. book[<<r.type, r.id>>] # "unused"
        BY <1>1, <4>1 DEF A1Ind, BookKept
      <4> QED BY <1>0, <1>1, <1>2, <2>3, <4>1, <4>2, AddressesApart
    <3>2. /\ RicHolds(t, i) => RicHolds(t, i)'
          /\ RicLacks(t, i) => RicLacks(t, i)'
      BY <1>0, <1>1, <3>1, HandleElsewhere
    <3> QED BY <1>0, <2>0, <2>3, <3>2 DEF AnswersTrue
  <2>4. ASSUME book[<<t, i>>] = "unused" PROVE AnswersTrue(t, i)'
    BY <1>0, <2>4 DEF AnswersTrue
  <2> QED BY <2>1, <2>2, <2>3, <2>4
<1> QED BY <1>3, <1>4, <1>5 DEF A1Ind

\* Every step of adapter, network and RIC keeps the facts.
LEMMA A1IndStep == A1Ind /\ [A1Next]_a1Vars => A1Ind'
<1> SUFFICES ASSUME A1Ind, [A1Next]_a1Vars PROVE A1Ind'
  OBVIOUS
<1>0. /\ A1Typed /\ A1Planned /\ A1Unconfigured /\ OneTypePerId /\ RicTyped /\ ~refused
      /\ \A t \in PolicyTypes, i \in PolicyIds :
           BookKept(t, i) /\ (~collided => AnswersTrue(t, i))
  BY DEF A1Ind
\* Steps that move nothing the facts speak of.
<1>a. ASSUME UNCHANGED <<dialect, ricHas, call, late, book, collided, refused>>
      PROVE  A1Ind'
  <2>1. A1Typed' /\ A1Planned' /\ A1Unconfigured' /\ OneTypePerId' /\ ~refused'
    BY <1>0, <1>a DEF A1Typed, A1Planned, A1Unconfigured, OneTypePerId
  <2>2. RicTyped'
    BY <1>0, <1>a DEF RicTyped, Address
  <2>3. ASSUME NEW t \in PolicyTypes, NEW i \in PolicyIds
        PROVE  BookKept(t, i)' /\ (~collided' => AnswersTrue(t, i)')
    <3>1. BookKept(t, i)'
      BY <1>0, <1>a DEF BookKept
    <3>2. ~collided' => AnswersTrue(t, i)'
      BY <1>0, <1>a DEF AnswersTrue, RicHolds, RicLacks, Address
    <3> QED BY <3>1, <3>2
  <2> QED BY <2>1, <2>2, <2>3 DEF A1Ind
<1>1. CASE UNCHANGED a1Vars
  BY <1>1, <1>a DEF a1Vars
<1>2. ASSUME NEW d \in A1Dialects, A1Configure(d) PROVE A1Ind'
  <2>1. /\ dialect = NoDialect /\ dialect' = d
        /\ UNCHANGED <<ricHas, call, late, book, collided, refused>>
    BY <1>2 DEF A1Configure
  <2>2. /\ ricHas = {} /\ late = {} /\ \A c \in A1Callers : call[c].op = "none"
        /\ \A t \in PolicyTypes, i \in PolicyIds : book[<<t, i>>] = "unused"
    BY <1>0, <2>1 DEF A1Unconfigured
  <2>3. A1Typed' /\ A1Planned'
    BY <1>0, <2>1 DEF A1Typed, A1Planned
  <2>4. A1Unconfigured' /\ OneTypePerId' /\ RicTyped' /\ ~refused'
    BY <1>0, <2>1, <2>2 DEF A1Unconfigured, OneTypePerId, RicTyped
  <2>5. ASSUME NEW t \in PolicyTypes, NEW i \in PolicyIds
        PROVE  BookKept(t, i)' /\ AnswersTrue(t, i)'
    BY <2>1, <2>2 DEF BookKept, AnswersTrue, AboutPolicy
  <2> QED BY <2>3, <2>4, <2>5 DEF A1Ind
<1>3. CASE RegisterPolicyTypes
  BY <1>3, <1>a DEF RegisterPolicyTypes
<1>4. ASSUME NEW c \in A1Callers, NEW raw \in EventRisks, NEW i \in PolicyIds,
             EmitPolicy(c, raw, i)
      PROVE  A1Ind'
  <2> DEFINE t == Choose(Risk(raw))
             r == [op |-> "emit", type |-> t, id |-> i, risk |-> Risk(raw),
                   status |-> 0]
  <2>1. Risk(raw) \in 0..100
    BY A1Assumption DEF Risk, NoRisk
  <2>2. t \in PolicyTypes /\ Risk(raw) \in 0..NoRisk
    BY <2>1 DEF Choose, PolicyTypes, NoRisk
  <2>3. /\ Start(c, r)
        /\ book' = [book EXCEPT ![<<t, i>>] =
                      IF Overlaps(c, t, i) THEN "unsure" ELSE "sent"]
        /\ collided' = (collided \/ (dialect \in Flat /\
                          \E u \in PolicyTypes \ {t} : book[<<u, i>>] # "unused"))
        /\ UNCHANGED <<dialect, ricHas, late, refused>>
    BY <1>4 DEF EmitPolicy
  <2>4. /\ collided' \in BOOLEAN /\ (collided => collided')
        /\ ~collided' /\ dialect \in Flat =>
             \A u \in PolicyTypes \ {t} : book[<<u, i>>] = "unused"
    BY <1>0, <2>3, Zenon DEF A1Typed
  <2> HIDE DEF t
  <2>5. /\ r \in A1CallSet /\ r.op = "emit" /\ r.type = t /\ r.id = i
        /\ r.risk = Risk(raw) /\ r.status = 0
    BY <2>2 DEF A1CallSet
  <2>6. r.type = Choose(r.risk)
    BY <2>5 DEF t
  <2> HIDE DEF r
  <2> QED BY <2>1, <2>3, <2>4, <2>5, <2>6, StartKeeps
<1>5. ASSUME NEW c \in A1Callers, NEW t \in PolicyTypes, NEW i \in PolicyIds,
             RollbackPolicy(c, t, i)
      PROVE  A1Ind'
  <2> DEFINE r == [NoCall EXCEPT !.op = "rollback", !.type = t, !.id = i]
  <2>1. /\ Start(c, r) /\ book[<<t, i>>] # "unused"
        /\ book' = [book EXCEPT ![<<t, i>>] =
                      IF Overlaps(c, t, i) THEN "unsure" ELSE "sent"]
        /\ UNCHANGED <<dialect, ricHas, late, collided, refused>>
    BY <1>5 DEF RollbackPolicy
  <2>2. /\ r \in A1CallSet /\ r.op = "rollback" /\ r.type = t /\ r.id = i
        /\ r.status = 0
    BY NoCallTyped DEF A1CallSet
  <2> HIDE DEF r
  <2>3. ~collided' /\ dialect \in Flat =>
          \A u \in PolicyTypes \ {t} : book[<<u, i>>] = "unused"
    BY <1>0, <2>1 DEF OneTypePerId
  <2>4. collided' \in BOOLEAN /\ (collided => collided')
    BY <1>0, <2>1 DEF A1Typed
  <2> QED BY <2>1, <2>2, <2>3, <2>4, StartKeeps
<1>6. ASSUME NEW c \in A1Callers, NEW op \in {"job", "unjob"}, EiJob(c, op)
      PROVE  A1Ind'
  <2> DEFINE r == [NoCall EXCEPT !.op = op]
  <2>1. /\ dialect # NoDialect /\ call[c].op = "none"
        /\ call' = [call EXCEPT ![c] = r]
        /\ UNCHANGED <<dialect, ricHas, late, book, collided, refused>>
    BY <1>6 DEF EiJob, Start
  <2>2. r \in A1CallSet /\ r.op = op
    BY NoCallTyped DEF A1CallSet
  <2> HIDE DEF r
  <2>3. /\ call' \in [A1Callers -> A1CallSet] /\ call'[c] = r
        /\ \A d \in A1Callers \ {c} : call'[d] = call[d]
    BY <1>0, <2>1, <2>2 DEF A1Typed
  <2>4. \A t, i : \A d \in A1Callers :
          AboutPolicy(call'[d], t, i) => AboutPolicy(call[d], t, i) /\ call'[d] = call[d]
    BY <2>2, <2>3 DEF AboutPolicy
  <2>5. A1Typed' /\ A1Planned' /\ A1Unconfigured' /\ OneTypePerId' /\ ~refused'
    BY <1>0, <2>1, <2>2, <2>3 DEF A1Typed, A1Planned, A1Unconfigured, OneTypePerId
  <2>6. RicTyped'
    BY <1>0, <2>1 DEF RicTyped, Address
  <2>7. ASSUME NEW t \in PolicyTypes, NEW i \in PolicyIds
        PROVE  BookKept(t, i)' /\ (~collided' => AnswersTrue(t, i)')
    <3>1. BookKept(t, i)'
      BY <1>0, <2>1, <2>4 DEF BookKept
    <3>2. /\ RicHolds(t, i)' <=> RicHolds(t, i)
          /\ RicLacks(t, i)' <=> RicLacks(t, i)
      BY <2>1 DEF RicHolds, RicLacks, Address
    <3>3. ~collided' => AnswersTrue(t, i)'
      BY <1>0, <2>1, <2>4, <3>2 DEF AnswersTrue
    <3> QED BY <3>1, <3>3
  <2> QED BY <2>5, <2>6, <2>7 DEF A1Ind
<1>7. ASSUME NEW c \in A1Callers, Arrive(c) \/ Answered(c) \/ GiveUp(c) PROVE A1Ind'
  BY <1>7, ArriveKeeps, AnsweredKeeps, GiveUpKeeps
<1>8. ASSUME NEW r \in late, ArriveLate(r) PROVE A1Ind'
  BY <1>8, ArriveLateKeeps
<1> QED
  BY <1>1, <1>2, <1>3, <1>4, <1>5, <1>6, <1>7, <1>8 DEF A1Next

\* They give what the answers promise.
LEMMA A1IndAnswers == A1Ind => PoliciesAsAnswered
<1> SUFFICES ASSUME A1Ind, ~collided, NEW t \in PolicyTypes, NEW i \in PolicyIds
             PROVE  /\ book[<<t, i>>] = "live" =>
                         Enforced(StatusOf(t, i)) /\ i \in Listed(t)
                    /\ book[<<t, i>>] = "gone" =>
                         ~Enforced(StatusOf(t, i)) /\ i \notin Listed(t)
  BY DEF PoliciesAsAnswered, A1Ind
<1>0. AnswersTrue(t, i) /\ RicTyped
  BY DEF A1Ind
<1>1. ASSUME book[<<t, i>>] = "live"
      PROVE  Enforced(StatusOf(t, i)) /\ i \in Listed(t)
  <2> DEFINE pol == <<Address(t, i), t>>
  <2>1. pol \in ricHas
    BY <1>0, <1>1 DEF AnswersTrue, RicHolds
  <2>2. pol[1] = Address(t, i) /\ pol[2] = t
    OBVIOUS
  <2>3. pol[1][2] = i /\ ListQuery(t, pol)
    BY <2>2 DEF Address, ListQuery
  <2>4. i \in Listed(t)
    BY <2>1, <2>3 DEF Listed
  <2>5. Enforced(StatusOf(t, i))
    BY <2>1, <2>2 DEF Enforced, StatusOf, RicStatus
  <2> QED BY <2>4, <2>5
<1>2. ASSUME book[<<t, i>>] = "gone"
      PROVE  ~Enforced(StatusOf(t, i)) /\ i \notin Listed(t)
  <2>1. \A pol \in ricHas : pol[1] # Address(t, i)
    BY <1>0, <1>2 DEF AnswersTrue, RicLacks
  <2>2. StatusOf(t, i) = "404"
    BY <2>1 DEF StatusOf, RicStatus
  <2>3. ASSUME NEW pol \in ricHas, ListQuery(t, pol), pol[1][2] = i PROVE FALSE
    <3>1. PICK u \in PolicyTypes, j \in PolicyIds : pol = <<Address(u, j), u>>
      BY <1>0 DEF RicTyped
    <3>2. pol[1] = Address(u, j) /\ pol[2] = u
      BY <3>1
    <3>3. pol[1] = Address(t, i)
      BY <2>3, <3>2 DEF ListQuery, Address
    <3> QED BY <2>1, <3>3
  <2>4. i \notin Listed(t)
    BY <2>3 DEF Listed
  <2> QED BY <2>2, <2>4 DEF Enforced
<1> QED BY <1>1, <1>2

\* For any callers, policies and risks, in every dialect: through lost and late
\* requests, a policy the adapter reported live is enforced and listed under its
\* type and one it reported deleted is neither, until a flat dialect is given one
\* id for two types; and no planned payload is refused for its contents.
THEOREM PoliciesAlwaysAsAnswered == A1Spec => []PoliciesAsAnswered
BY A1IndInit, A1IndStep, A1IndAnswers, PTL DEF A1Spec

\* Calls under way, each of which may yet be answered.
A1Busy == {c \in A1Callers : call[c].op # "none"}

\* The statuses the RIC answers with.
A1Statuses == {0, 200, 201, 204, 400, 404}

\* What the facts of A1Ind leave out: the RIC's types and jobs, the statuses, and
\* that a call is answered once.
A1Counted ==
  /\ ricTypes \subseteq PolicyTypes /\ ricJobs \subseteq PolicyIds
  /\ \A c \in A1Callers : call[c].status \in A1Statuses
  /\ IsFiniteSet(A1Busy)
  /\ emitted \in Nat /\ a1Calls \in Nat /\ a1Calls <= MaxA1Calls
  /\ emitted + Cardinality(A1Busy) <= a1Calls

\* They hold of an adapter that is not configured.
LEMMA A1CountedInit == A1Init => A1Counted
<1> SUFFICES ASSUME A1Init PROVE A1Counted
  OBVIOUS
<1>1. \A c \in A1Callers : call[c].op = "none" /\ call[c].status = 0
  BY NoCallTyped DEF A1Init
<1>2. A1Busy = {}
  BY <1>1 DEF A1Busy
<1>3. IsFiniteSet(A1Busy) /\ Cardinality(A1Busy) = 0
  BY <1>2, FS_EmptySet
<1> QED BY <1>1, <1>3, A1Assumption DEF A1Counted, A1Init, RicInit, A1Statuses

\* A request is put on its way.
LEMMA A1CountedStart ==
  ASSUME A1Typed, A1Counted, NEW c \in A1Callers, NEW ask \in A1CallSet, ask.op # "none", ask.status = 0,
         Start(c, ask), UNCHANGED <<ricTypes, ricJobs, emitted>>
  PROVE  A1Counted'
<1>1. /\ call[c].op = "none" /\ a1Calls < MaxA1Calls /\ a1Calls' = a1Calls + 1
      /\ call' = [call EXCEPT ![c] = ask] /\ call \in [A1Callers -> A1CallSet]
  BY DEF Start, A1Typed
<1>2. A1Busy' = A1Busy \cup {c} /\ c \notin A1Busy
  BY <1>1 DEF A1Busy
<1>3. IsFiniteSet(A1Busy) /\ Cardinality(A1Busy) \in Nat
  BY FS_CardinalityType DEF A1Counted
<1>4. IsFiniteSet(A1Busy') /\ Cardinality(A1Busy') = Cardinality(A1Busy) + 1
  BY <1>2, <1>3, FS_AddElement
<1>5. \A d \in A1Callers : call'[d].status \in A1Statuses
  BY <1>1 DEF A1Counted, A1Statuses
<1>6. emitted' + Cardinality(A1Busy') <= a1Calls' /\ a1Calls' \in Nat /\ a1Calls' <= MaxA1Calls
  BY <1>1, <1>3, <1>4, A1Assumption DEF A1Counted
<1> QED BY <1>4, <1>5, <1>6 DEF A1Counted

\* A call ends, answered or given up.
LEMMA A1CountedEnd ==
  ASSUME A1Typed, A1Counted, NEW c \in A1Callers, call[c].op # "none",
         call' = [call EXCEPT ![c] = NoCall], UNCHANGED <<ricTypes, ricJobs, a1Calls>>,
         emitted' \in {emitted, emitted + 1}
  PROVE  A1Counted'
<1>1. call \in [A1Callers -> A1CallSet]
  BY DEF A1Typed
<1>2. A1Busy' = A1Busy \ {c} /\ c \in A1Busy
  BY <1>1, NoCallTyped DEF A1Busy
<1>3. IsFiniteSet(A1Busy) /\ Cardinality(A1Busy) \in Nat
  BY FS_CardinalityType DEF A1Counted
<1>4. IsFiniteSet(A1Busy') /\ Cardinality(A1Busy') = Cardinality(A1Busy) - 1
  BY <1>2, <1>3, FS_RemoveElement
<1>5. \A d \in A1Callers : call'[d].status \in A1Statuses
  BY <1>1, NoCallTyped DEF A1Counted, A1Statuses
<1>6. emitted' + Cardinality(A1Busy') <= a1Calls' /\ emitted' \in Nat
  BY <1>3, <1>4 DEF A1Counted
<1> QED BY <1>4, <1>5, <1>6 DEF A1Counted

\* What a caller sends is a request.
LEMMA A1Requests ==
  ASSUME A1Ind, NEW c \in A1Callers
  PROVE  /\ \A raw \in EventRisks, i \in PolicyIds :
              [op |-> "emit", type |-> Choose(Risk(raw)), id |-> i, risk |-> Risk(raw),
               status |-> 0] \in A1CallSet
         /\ \A t \in PolicyTypes, i \in PolicyIds :
              [NoCall EXCEPT !.op = "rollback", !.type = t, !.id = i] \in A1CallSet
         /\ \A op \in {"job", "unjob"} : [NoCall EXCEPT !.op = op] \in A1CallSet
<1>1. \A raw \in EventRisks : Risk(raw) \in 0..NoRisk /\ Choose(Risk(raw)) \in PolicyTypes
  <2> TAKE raw \in EventRisks
  <2>1. raw \in 0..NoRisk
    BY A1Assumption
  <2> QED BY <2>1 DEF Risk, Choose, NoRisk, PolicyTypes
<1> QED BY <1>1, NoCallTyped DEF A1CallSet

\* They are kept by each step of a caller and of the RIC.
LEMMA A1CountedStep == A1Ind /\ A1Counted /\ [A1Next]_a1Vars => A1Counted'
<1> SUFFICES ASSUME A1Ind, A1Counted, [A1Next]_a1Vars PROVE A1Counted'
  OBVIOUS
<1>0. A1Typed /\ call \in [A1Callers -> A1CallSet] /\ late \subseteq A1CallSet
  BY DEF A1Ind, A1Typed
<1>1. CASE UNCHANGED a1Vars
  BY <1>1 DEF a1Vars, A1Counted, A1Busy
<1>2. CASE \E d \in A1Dialects : A1Configure(d)
  BY <1>2 DEF A1Configure, A1Counted, A1Busy
<1>3. CASE RegisterPolicyTypes
  <2>1. ricTypes' \subseteq PolicyTypes
    BY <1>3, A1Assumption DEF RegisterPolicyTypes, PutPolicyTypes, A1Counted
  <2> QED BY <1>3, <2>1 DEF RegisterPolicyTypes, A1Counted, A1Busy
<1>4. ASSUME NEW c \in A1Callers, NEW raw \in EventRisks, NEW i \in PolicyIds, EmitPolicy(c, raw, i)
      PROVE  A1Counted'
  <2> DEFINE ask == [op |-> "emit", type |-> Choose(Risk(raw)), id |-> i, risk |-> Risk(raw), status |-> 0]
  <2>1. ask \in A1CallSet /\ ask.op # "none" /\ ask.status = 0
    BY A1Requests
  <2>2. Start(c, ask) /\ UNCHANGED <<ricTypes, ricJobs, emitted>>
    BY <1>4 DEF EmitPolicy
  <2> HIDE DEF ask
  <2> QED BY <1>0, <2>1, <2>2, A1CountedStart
<1>5. ASSUME NEW c \in A1Callers, NEW t \in PolicyTypes, NEW i \in PolicyIds, RollbackPolicy(c, t, i)
      PROVE  A1Counted'
  <2> DEFINE ask == [NoCall EXCEPT !.op = "rollback", !.type = t, !.id = i]
  <2>1. ask \in A1CallSet /\ ask.op # "none" /\ ask.status = 0
    BY A1Requests, NoCallTyped DEF NoCall
  <2>2. Start(c, ask) /\ UNCHANGED <<ricTypes, ricJobs, emitted>>
    BY <1>5 DEF RollbackPolicy
  <2> HIDE DEF ask
  <2> QED BY <1>0, <2>1, <2>2, A1CountedStart
<1>6. ASSUME NEW c \in A1Callers, NEW op \in {"job", "unjob"}, EiJob(c, op)
      PROVE  A1Counted'
  <2> DEFINE ask == [NoCall EXCEPT !.op = op]
  <2>1. ask \in A1CallSet /\ ask.op # "none" /\ ask.status = 0
    BY A1Requests, NoCallTyped DEF NoCall
  <2>2. Start(c, ask) /\ UNCHANGED <<ricTypes, ricJobs, emitted>>
    BY <1>6 DEF EiJob
  <2> HIDE DEF ask
  <2> QED BY <1>0, <2>1, <2>2, A1CountedStart
<1>7. ASSUME NEW r \in A1CallSet, Handle(r) PROVE ricJobs' \subseteq PolicyIds
  <2>1. ricJobs \subseteq PolicyIds /\ r.id \in PolicyIds
    BY DEF A1Counted, A1CallSet
  <2>2. ricJobs' \in {ricJobs, ricJobs \cup {r.id}, ricJobs \ {r.id}}
    BY <1>7 DEF Handle
  <2> QED BY <2>1, <2>2
<1>8. ASSUME NEW c \in A1Callers, Arrive(c) PROVE A1Counted'
  <2>1. /\ call' = [call EXCEPT ![c].status = HandledStatus(call[c])]
        /\ Handle(call[c]) /\ UNCHANGED <<ricTypes, emitted, a1Calls>>
    BY <1>8 DEF Arrive
  <2>2. HandledStatus(call[c]) \in A1Statuses
    BY DEF HandledStatus, PutStatus, DeleteStatus, A1Statuses
  <2>3. ricJobs' \subseteq PolicyIds
    BY <1>0, <1>7, <2>1
  <2>4. \A d \in A1Callers : call'[d].op = call[d].op /\ call'[d].status \in A1Statuses
    BY <1>0, <2>1, <2>2 DEF A1Counted, A1CallSet
  <2>5. A1Busy' = A1Busy
    BY <2>4 DEF A1Busy
  <2> QED BY <2>1, <2>3, <2>4, <2>5 DEF A1Counted
<1>9. ASSUME NEW c \in A1Callers, Answered(c) PROVE A1Counted'
  <2>1. /\ call[c].status # 0 /\ call' = [call EXCEPT ![c] = NoCall]
        /\ UNCHANGED <<ricTypes, ricJobs, a1Calls>>
        /\ emitted' = IF call[c].op = "emit" /\ call[c].status < 300 THEN emitted + 1 ELSE emitted
    BY <1>9 DEF Answered
  <2>2. CASE call[c].op # "none"
    BY <1>0, <2>1, <2>2, A1CountedEnd
  <2>3. CASE call[c].op = "none"
    <3>1. emitted' = emitted
      BY <2>1, <2>3
    <3>2. A1Busy' = A1Busy
      BY <1>0, <2>1, <2>3, NoCallTyped DEF A1Busy
    <3>3. \A d \in A1Callers : call'[d].status \in A1Statuses
      BY <1>0, <2>1, NoCallTyped DEF A1Counted, A1Statuses
    <3> QED BY <2>1, <3>1, <3>2, <3>3 DEF A1Counted
  <2> QED BY <2>2, <2>3
<1>10. ASSUME NEW c \in A1Callers, GiveUp(c) PROVE A1Counted'
  <2>1. /\ call[c].op # "none" /\ call' = [call EXCEPT ![c] = NoCall]
        /\ UNCHANGED <<ricTypes, ricJobs, a1Calls, emitted>>
    BY <1>10 DEF GiveUp
  <2> QED BY <1>0, <2>1, A1CountedEnd
<1>11. ASSUME NEW r \in late, ArriveLate(r) PROVE A1Counted'
  <2>1. Handle(r) /\ UNCHANGED <<ricTypes, call, emitted, a1Calls>>
    BY <1>11 DEF ArriveLate
  <2>2. ricJobs' \subseteq PolicyIds
    BY <1>0, <1>7, <2>1
  <2> QED BY <2>1, <2>2 DEF A1Counted, A1Busy
<1> QED
  <2>1. CASE A1Next
    BY <1>2, <1>3, <1>4, <1>5, <1>6, <1>8, <1>9, <1>10, <1>11, <2>1 DEF A1Next
  <2> QED BY <1>1, <2>1

\* Both together give the types of the adapter and of the RIC.
LEMMA A1IndTypes == A1Ind /\ A1Counted => A1TypeOK
<1> SUFFICES ASSUME A1Ind, A1Counted PROVE A1TypeOK
  OBVIOUS
<1>1. Cardinality(A1Busy) \in Nat
  BY FS_CardinalityType DEF A1Counted
<1>2. emitted \in 0..MaxA1Calls
  BY <1>1, A1Assumption DEF A1Counted
<1>3. /\ dialect \in A1Dialects \cup {NoDialect}
      /\ book \in [PolicyTypes \X PolicyIds -> {"unused", "sent", "live", "gone", "unsure"}]
  BY DEF A1Ind, A1Typed, BookEntries
<1>4. /\ ricTypes \subseteq PolicyTypes /\ ricJobs \subseteq PolicyIds
      /\ \A c \in A1Callers : call[c].status \in {0, 200, 201, 204, 400, 404}
  BY DEF A1Counted, A1Statuses
<1> QED BY <1>2, <1>3, <1>4 DEF A1TypeOK

-----------------------------------------------------------------------------
(* The operator APIs.                                                      *)

\* The decision a handler is about to append or is appending, and who does.
Appending == {h \in Handlers : opTask[h].at \in {"append", "writing"}}
OnTheirWay == {opTask[h].id : h \in Appending}

TaskTyped(task) ==
  \/ task = NoTask
  \/ task \in [at : {"append", "writing"}, id : Nat]
  \/ task \in [at : {"count"}, bad : Nat, len : Nat]

OpTyped ==
  /\ opApi \in {"v1", "dashboard"} /\ opTorn \in BOOLEAN
  /\ opChain \in Seq(Nat) /\ opChain # <<>> /\ opRecords \in Seq(Nat)
  /\ opAltered = {} \/ \E i \in DOMAIN opChain : opAltered = {i}
  /\ opTask = [h \in Handlers |-> opTask[h]]
  /\ \A h \in Handlers : TaskTyped(opTask[h])

\* Decisions are numbered as they are made: by api_v1 in its list, by the other
\* process in the chain, which has nobody else appending to it.
Numbered ==
  /\ opApi = "v1" =>
       /\ \A i \in DOMAIN opRecords : opRecords[i] = i
       /\ \A i \in DOMAIN opChain : opChain[i] \in 1..Len(opRecords)
  /\ opApi = "dashboard" =>
       /\ \A i \in DOMAIN opChain : opChain[i] = i
       /\ opRecords = <<>> /\ Appending = {}

\* No two handlers append one decision, nor one the store refused.
OneAppender ==
  /\ \A h, k \in Appending : opTask[h].id = opTask[k].id => h = k
  /\ \A h \in Appending : opTask[h].id \notin opRefused

\* A walk under way has seen a part of the chain.
WalkWithinChain ==
  \A h \in Handlers : opTask[h].at = "count" =>
    /\ opTask[h].len \in 1..Len(opChain) /\ opTask[h].bad \in 0..opTask[h].len
    /\ opTask[h].bad # 0 => opTask[h].bad \in opAltered

\* So has the one that was answered last.
ReplyWithinChain ==
  (opReply.status = 200 /\ "bad" \in DOMAIN opReply) =>
    opReply.len \in 1..Len(opChain) /\ opReply.walked \in Nat /\ opReply.bad \in Nat

OpInd ==
  /\ OpTyped /\ Numbered /\ OneAppender /\ WalkWithinChain /\ ReplyWithinChain
  /\ ApiTruthful

\* The decisions in a list that numbers them.
LEMMA NumberedList ==
  ASSUME NEW s \in Seq(Nat), \A i \in DOMAIN s : s[i] = i
  PROVE  ToSet(s) = 1..Len(s) /\ Cardinality(ToSet(s)) = Len(s) /\ IsInjective(s)
<1>1. DOMAIN s = 1..Len(s) /\ Len(s) \in Nat
  OBVIOUS
<1>2. ToSet(s) = 1..Len(s)
  BY <1>1 DEF ToSet
<1>3. Cardinality(1..Len(s)) = Len(s)
  BY <1>1, FS_Interval
<1> QED BY <1>2, <1>3 DEF IsInjective

\* How many there are.
LEMMA MadeCounts ==
  ASSUME OpTyped, Numbered
  PROVE  /\ opApi = "v1" => Made = Len(opRecords)
         /\ opApi = "dashboard" => Made = Len(opChain) + (IF opTorn THEN 1 ELSE 0)
<1>0. opChain \in Seq(Nat) /\ opRecords \in Seq(Nat)
  BY DEF OpTyped
<1>1. ASSUME opApi = "v1" PROVE Made = Len(opRecords)
  <2>1. ToSet(opRecords) = 1..Len(opRecords) /\ Cardinality(ToSet(opRecords)) = Len(opRecords)
    BY <1>0, <1>1, NumberedList DEF Numbered
  <2>2. ToSet(opChain) \subseteq ToSet(opRecords)
    BY <1>1, <2>1 DEF ToSet, Numbered
  <2>3. ToSet(opChain) \cup ToSet(opRecords) = ToSet(opRecords)
    BY <2>2
  <2>4. Len(opRecords) \in Nat
    BY <1>0
  <2>5. ~(opTorn /\ opApi = "dashboard")
    BY <1>1
  <2>6. Made = Cardinality(ToSet(opRecords)) + 0
    BY <2>3, <2>5 DEF Made
  <2> QED BY <2>1, <2>4, <2>6
<1>2. ASSUME opApi = "dashboard"
      PROVE  Made = Len(opChain) + (IF opTorn THEN 1 ELSE 0)
  <2>1. Cardinality(ToSet(opChain)) = Len(opChain)
    BY <1>0, <1>2, NumberedList DEF Numbered
  <2>2. ToSet(opRecords) = {}
    BY <1>2 DEF ToSet, Numbered
  <2>3. ToSet(opChain) \cup ToSet(opRecords) = ToSet(opChain)
    BY <2>2
  <2> QED BY <1>2, <2>1, <2>3 DEF Made
<1> QED BY <1>1, <1>2

\* The facts hold of the seeded list and store, and of the chain of the rApp.
LEMMA OpIndInit == OpInit => OpInd
<1> SUFFICES ASSUME OpInit PROVE OpInd
  OBVIOUS
<1>1. /\ opChain \in Seq(Nat) /\ Len(opChain) = 2 /\ DOMAIN opChain = 1..2
      /\ opChain[1] = 1 /\ opChain[2] = 2 /\ opChain # <<>>
      /\ opRecords \in Seq(Nat)
      /\ opApi = "v1" => opRecords = opChain
      /\ opApi = "dashboard" => opRecords = <<>>
      /\ opApi \in {"v1", "dashboard"}
  BY DEF OpInit, Seeds
<1>2. /\ \A h \in Handlers : opTask[h] = NoTask
      /\ opTask = [h \in Handlers |-> opTask[h]]
      /\ NoTask.at = "idle" /\ opReply.status = 0
  BY DEF OpInit, NoTask, NoReply
<1>3. Appending = {} /\ OnTheirWay = {}
  BY <1>2 DEF Appending, OnTheirWay
<1>4. OpTyped
  BY <1>1, <1>2 DEF OpInit, OpTyped, TaskTyped
<1>5. Numbered
  <2>1. \A i \in DOMAIN opChain : opChain[i] = i /\ opChain[i] \in 1..Len(opChain)
    BY <1>1
  <2> QED BY <1>1, <1>3, <2>1 DEF Numbered
<1>6. OneAppender /\ WalkWithinChain /\ ReplyWithinChain
  BY <1>2, <1>3 DEF OneAppender, WalkWithinChain, ReplyWithinChain
<1>7. ApiTruthful
  <2>1. IsInjective(opRecords) /\ IsInjective(opChain)
    BY <1>1 DEF IsInjective
  <2>2. ToSet(opRecords) \ ToSet(opChain) = {}
    BY <1>1 DEF ToSet
  <2>3. SubmitsEvidenced
    BY <1>2, <1>3, <2>1, <2>2 DEF SubmitsEvidenced, OpInit, Appending, OnTheirWay
  <2>4. VerdictWithinChain /\ LoginHashed
    BY <1>2 DEF VerdictWithinChain, LoginHashed, OpInit
  <2> QED BY <2>3, <2>4 DEF ApiTruthful
<1> QED BY <1>4, <1>5, <1>6, <1>7 DEF OpInd

\* SubmitsEvidenced in these terms.
LEMMA SubmitsAre ==
  SubmitsEvidenced <=>
    /\ IsInjective(opRecords) /\ IsInjective(opChain)
    /\ opReply.status = 201 => opReply.id \in ToSet(opChain) \cap ToSet(opRecords)
    /\ ToSet(opRecords) \ ToSet(opChain) = opRefused \cup OnTheirWay
BY DEF SubmitsEvidenced, OnTheirWay, Appending

\* A step of one handler leaves the others where they are.
LEMMA OneHandler ==
  ASSUME OpTyped, NEW h \in Handlers, NEW task, opTask' = [opTask EXCEPT ![h] = task]
  PROVE  /\ opTask'[h] = task /\ opTask' = [k \in Handlers |-> opTask'[k]]
         /\ \A k \in Handlers \ {h} : opTask'[k] = opTask[k]
BY DEF OpTyped

\* An answer by a handler that appends nothing, without a verdict.
LEMMA PlainAnswer ==
  ASSUME OpInd, NEW h \in Handlers, NEW reply, Answers(h, reply),
         h \notin Appending, reply.status # 201,
         reply.status # 200 \/ "bad" \notin DOMAIN reply,
         UNCHANGED <<callerState, opChain, opAltered, opTorn, opRecords, opRefused>>
  PROVE  OpInd'
<1>0. /\ OpTyped /\ Numbered /\ OneAppender /\ WalkWithinChain /\ ReplyWithinChain
      /\ ApiTruthful
  BY DEF OpInd
<1>1. /\ opTask'[h] = NoTask /\ opTask' = [k \in Handlers |-> opTask'[k]]
      /\ \A k \in Handlers \ {h} : opTask'[k] = opTask[k]
      /\ NoTask.at = "idle" /\ opReply' = reply
  BY <1>0, OneHandler DEF Answers, NoTask
<1>2. Appending' = Appending /\ OnTheirWay' = OnTheirWay
  <2>1. Appending' = Appending
    BY <1>1 DEF Appending
  <2>2. \A k \in Appending : opTask'[k] = opTask[k]
    BY <1>1 DEF Appending
  <2> QED BY <2>1, <2>2 DEF OnTheirWay
<1>3. UNCHANGED <<opApi, opScopes, opSecret, opToken, opChain, opAltered, opTorn,
                  opRecords, opRefused>>
  BY DEF callerState
<1>4. OpTyped'
  BY <1>0, <1>1, <1>3 DEF OpTyped, TaskTyped
<1>5. Numbered'
  BY <1>0, <1>2, <1>3 DEF Numbered
<1>6. OneAppender'
  <2>1. \A k \in Appending : opTask'[k] = opTask[k]
    BY <1>1 DEF Appending
  <2> QED BY <1>0, <1>2, <1>3, <2>1 DEF OneAppender
<1>7. WalkWithinChain' /\ ReplyWithinChain'
  BY <1>0, <1>1, <1>3 DEF WalkWithinChain, ReplyWithinChain
<1>8. ApiTruthful'
  <2>1. SubmitsEvidenced'
    <3>1. /\ IsInjective(opRecords) /\ IsInjective(opChain)
          /\ ToSet(opRecords) \ ToSet(opChain) = opRefused \cup OnTheirWay
      BY <1>0, SubmitsAre DEF ApiTruthful
    <3>2. /\ IsInjective(opRecords') /\ IsInjective(opChain')
          /\ ToSet(opRecords') \ ToSet(opChain') = opRefused' \cup OnTheirWay'
          /\ opReply'.status # 201
      BY <1>1, <1>2, <1>3, <3>1
    <3> QED BY <3>2 DEF SubmitsEvidenced, OnTheirWay, Appending
  <2>2. VerdictWithinChain' /\ LoginHashed'
    BY <1>0, <1>1, <1>3 DEF VerdictWithinChain, LoginHashed, ApiTruthful
  <2> QED BY <2>1, <2>2 DEF ApiTruthful
<1> QED BY <1>4, <1>5, <1>6, <1>7, <1>8 DEF OpInd

\* A step that leaves the handlers, the list and the answers alone.
LEMMA HandlersIdle ==
  ASSUME OpInd, LoginHashed', OpTyped',
         UNCHANGED <<opApi, opChain, opRecords, opRefused, opTask, opReply>>,
         opAltered \subseteq opAltered'
  PROVE  OpInd'
<1>0. /\ OpTyped /\ Numbered /\ OneAppender /\ WalkWithinChain /\ ReplyWithinChain
      /\ ApiTruthful
  BY DEF OpInd
<1>1. Appending' = Appending /\ OnTheirWay' = OnTheirWay
  BY DEF Appending, OnTheirWay
<1>2. Numbered' /\ OneAppender'
  BY <1>0, <1>1 DEF Numbered, OneAppender
<1>3. WalkWithinChain' /\ ReplyWithinChain'
  BY <1>0 DEF WalkWithinChain, ReplyWithinChain
<1>4. SubmitsEvidenced'
  BY <1>0 DEF ApiTruthful, SubmitsEvidenced
<1>5. VerdictWithinChain'
  BY <1>0 DEF ApiTruthful, VerdictWithinChain
<1> QED BY <1>2, <1>3, <1>4, <1>5 DEF OpInd, ApiTruthful

\* A row joins the chain: what was walked is still there.
LEMMA ChainGrows ==
  ASSUME OpInd, NEW id \in Nat, opChain' = Append(opChain, id), opAltered' = opAltered
  PROVE  /\ opChain' \in Seq(Nat) /\ opChain' # <<>> /\ Len(opChain) \in Nat
         /\ DOMAIN opChain = 1..Len(opChain) /\ DOMAIN opChain' = 1..Len(opChain')
         /\ Len(opChain') = Len(opChain) + 1 /\ opChain'[Len(opChain) + 1] = id
         /\ \A i \in 1..Len(opChain) : opChain'[i] = opChain[i]
         /\ ToSet(opChain') = ToSet(opChain) \cup {id}
         /\ opAltered' = {} \/ \E i \in DOMAIN opChain' : opAltered' = {i}
         /\ id \notin ToSet(opChain) => IsInjective(opChain')
<1>1. /\ opChain \in Seq(Nat) /\ opChain' \in Seq(Nat) /\ opChain' # <<>>
      /\ Len(opChain) \in Nat
      /\ DOMAIN opChain = 1..Len(opChain) /\ DOMAIN opChain' = 1..Len(opChain')
      /\ Len(opChain') = Len(opChain) + 1 /\ opChain'[Len(opChain) + 1] = id
      /\ \A i \in 1..Len(opChain) : opChain'[i] = opChain[i]
  BY DEF OpInd, OpTyped
<1>2. ToSet(opChain') = ToSet(opChain) \cup {id}
  BY <1>1 DEF ToSet
<1>3. opAltered' = {} \/ \E i \in DOMAIN opChain' : opAltered' = {i}
  BY <1>1 DEF OpInd, OpTyped
<1>4. ASSUME id \notin ToSet(opChain) PROVE IsInjective(opChain')
  <2>1. IsInjective(opChain)
    BY DEF OpInd, ApiTruthful, SubmitsEvidenced
  <2>2. \A i \in 1..Len(opChain) : opChain'[i] # id
    BY <1>1, <1>4 DEF ToSet
  <2> QED BY <1>1, <2>1, <2>2 DEF IsInjective
<1> QED BY <1>1, <1>2, <1>3, <1>4

\* The first altered row.
LEMMA FirstBadIs ==
  ASSUME OpTyped
  PROVE  FirstBad \in 0..Len(opChain) /\ (FirstBad # 0 => FirstBad \in opAltered)
<1>1. DOMAIN opChain = 1..Len(opChain) /\ Len(opChain) \in Nat
  BY DEF OpTyped
<1>2. CASE opAltered = {}
  BY <1>1, <1>2 DEF FirstBad
<1>3. CASE \E i \in DOMAIN opChain : opAltered = {i}
  <2>1. PICK i \in DOMAIN opChain : opAltered = {i}
    BY <1>3
  <2>2. FirstBad = i
    BY <1>1, <2>1 DEF FirstBad
  <2> QED BY <1>1, <2>1, <2>2
<1> QED BY <1>2, <1>3 DEF OpTyped

\* A submit, its two appends and the walks keep the facts.
LEMMA SubmitKeeps ==
  ASSUME OpInd, NEW h \in Handlers, Submit(h)
  PROVE  OpInd'
<1>0. /\ OpTyped /\ Numbered /\ OneAppender /\ WalkWithinChain /\ ReplyWithinChain
      /\ ApiTruthful
  BY DEF OpInd
<1>1. h \notin Appending /\ opApi = "v1"
  BY DEF Submit, Appending
<1>2. CASE "write" \notin opScopes
  <2> DEFINE reply == [status |-> 403]
  <2>1. /\ Answers(h, reply)
        /\ UNCHANGED <<callerState, opChain, opAltered, opTorn, opRecords, opRefused>>
    BY <1>2 DEF Submit
  <2>2. reply.status = 403
    OBVIOUS
  <2> HIDE DEF reply
  <2> QED BY <1>1, <2>1, <2>2, PlainAnswer
<1>3. CASE "write" \in opScopes
  <2> DEFINE n == Len(opRecords) + 1
             task == [at |-> "append", id |-> n]
  <2>0. Made = Len(opRecords) /\ opRecords \in Seq(Nat) /\ Len(opRecords) \in Nat
    BY <1>0, <1>1, MadeCounts DEF OpTyped
  <2>1. /\ opRecords' = Append(opRecords, n) /\ opTask' = [opTask EXCEPT ![h] = task]
        /\ UNCHANGED <<opApi, opToken, opChain, opAltered, opTorn, opRefused, opReply>>
    BY <1>3, <2>0 DEF Submit, callerState
  <2>2. n \in Nat /\ task.at = "append" /\ task.id = n /\ TaskTyped(task)
    BY <2>0 DEF TaskTyped
  <2> HIDE DEF task
  <2>3. /\ opTask'[h] = task /\ opTask' = [k \in Handlers |-> opTask'[k]]
        /\ \A k \in Handlers \ {h} : opTask'[k] = opTask[k]
    BY <1>0, <2>1, OneHandler
  <2>4. /\ opRecords' \in Seq(Nat) /\ Len(opRecords') = n
        /\ DOMAIN opRecords = 1..Len(opRecords) /\ DOMAIN opRecords' = 1..n
        /\ \A i \in 1..Len(opRecords) : opRecords'[i] = opRecords[i]
        /\ opRecords'[n] = n
    BY <2>0, <2>1
  <2>5. \A i \in DOMAIN opRecords' : opRecords'[i] = i
    BY <1>0, <1>1, <2>0, <2>4 DEF Numbered
  <2>6. ToSet(opRecords') = ToSet(opRecords) \cup {n} /\ ToSet(opRecords) = 1..Len(opRecords)
    <3>1. ToSet(opRecords) = 1..Len(opRecords)
      BY <1>0, <1>1, <2>0, NumberedList DEF Numbered
    <3>2. ToSet(opRecords') = 1..n
      BY <2>4, <2>5, NumberedList
    <3> QED BY <2>0, <3>1, <3>2
  <2>7. n \notin ToSet(opRecords) /\ n \notin ToSet(opChain)
    <3>1. n \notin 1..Len(opRecords)
      BY <2>0
    <3> QED BY <1>0, <1>1, <2>6, <3>1 DEF Numbered, ToSet
  <2>8. /\ ToSet(opRecords) \ ToSet(opChain) = opRefused \cup OnTheirWay
        /\ IsInjective(opChain)
        /\ opReply.status = 201 => opReply.id \in ToSet(opChain) \cap ToSet(opRecords)
    BY <1>0, SubmitsAre DEF ApiTruthful
  <2>9. Appending' = Appending \cup {h} /\ \A k \in Appending : opTask'[k] = opTask[k]
    BY <1>1, <2>2, <2>3 DEF Appending
  <2>10. OnTheirWay' = OnTheirWay \cup {n}
    BY <2>2, <2>3, <2>9 DEF OnTheirWay
  <2>11. OpTyped'
    BY <1>0, <2>1, <2>2, <2>3, <2>4 DEF OpTyped
  <2>12. Numbered'
    <3>1. \A i \in DOMAIN opChain : opChain[i] \in 1..n
      BY <1>0, <1>1, <2>0 DEF Numbered
    <3> QED BY <1>1, <2>1, <2>4, <2>5, <3>1 DEF Numbered
  <2>13. OneAppender'
    <3>1. \A k \in Appending : opTask[k].id # n
      BY <2>7, <2>8 DEF OnTheirWay
    <3>2. n \notin opRefused
      BY <2>7, <2>8
    <3> QED BY <1>0, <2>1, <2>2, <2>3, <2>9, <3>1, <3>2 DEF OneAppender
  <2>14. WalkWithinChain' /\ ReplyWithinChain'
    BY <1>0, <2>1, <2>2, <2>3 DEF WalkWithinChain, ReplyWithinChain
  <2>15. SubmitsEvidenced'
    <3>1. IsInjective(opRecords')
      BY <2>5 DEF IsInjective
    <3>2. ToSet(opRecords') \ ToSet(opChain') = opRefused' \cup OnTheirWay'
      BY <2>1, <2>6, <2>7, <2>8, <2>10
    <3>3. opReply'.status = 201 => opReply'.id \in ToSet(opChain') \cap ToSet(opRecords')
      BY <2>1, <2>6, <2>8
    <3>4. IsInjective(opChain')
      BY <2>1, <2>8
    <3> QED BY <3>1, <3>2, <3>3, <3>4 DEF SubmitsEvidenced, OnTheirWay, Appending
  <2>16. VerdictWithinChain' /\ LoginHashed'
    BY <1>0, <2>1 DEF VerdictWithinChain, LoginHashed, ApiTruthful
  <2> QED BY <2>11, <2>12, <2>13, <2>14, <2>15, <2>16 DEF OpInd, ApiTruthful
<1> QED BY <1>2, <1>3

\* Beginning an append, or failing to.
LEMMA StoreWritesKeeps ==
  ASSUME OpInd, NEW h \in Handlers, StoreWrites(h)
  PROVE  OpInd'
<1>0. /\ OpTyped /\ Numbered /\ OneAppender /\ WalkWithinChain /\ ReplyWithinChain
      /\ ApiTruthful
  BY DEF OpInd
<1> DEFINE old == opTask[h]
<1>1. /\ old.at = "append" /\ h \in Appending
      /\ UNCHANGED <<opApi, opToken, opChain, opAltered, opRecords>>
  BY DEF StoreWrites, Appending, callerState
<1>2. old \in [at : {"append", "writing"}, id : Nat]
  <2>1. TaskTyped(old)
    BY <1>0 DEF OpTyped
  <2> QED BY <1>1, <2>1 DEF TaskTyped, NoTask
<1>3. /\ ToSet(opRecords) \ ToSet(opChain) = opRefused \cup OnTheirWay
      /\ IsInjective(opChain) /\ IsInjective(opRecords)
      /\ opReply.status = 201 => opReply.id \in ToSet(opChain) \cap ToSet(opRecords)
  BY <1>0, SubmitsAre DEF ApiTruthful
<1>4. CASE /\ opTorn' = TRUE
           /\ opTask' = [opTask EXCEPT ![h].at = "writing"]
           /\ UNCHANGED <<opRefused, opReply>>
  <2> DEFINE task == [old EXCEPT !.at = "writing"]
  <2>1. /\ opTask'[h] = task /\ opTask' = [k \in Handlers |-> opTask'[k]]
        /\ \A k \in Handlers \ {h} : opTask'[k] = opTask[k]
    BY <1>0, <1>4, OneHandler
  <2>2. TaskTyped(task) /\ task.at = "writing" /\ task.id = old.id
    BY <1>2 DEF TaskTyped
  <2> HIDE DEF task
  <2>3. /\ Appending' = Appending /\ OnTheirWay' = OnTheirWay
        /\ \A k \in Appending : opTask'[k].id = opTask[k].id
    <3>1. Appending' = Appending
      BY <1>1, <2>1, <2>2 DEF Appending
    <3>2. \A k \in Appending : opTask'[k].id = opTask[k].id
      BY <2>1, <2>2 DEF Appending
    <3> QED BY <3>1, <3>2 DEF OnTheirWay
  <2>4. OpTyped'
    BY <1>0, <1>1, <1>4, <2>1, <2>2 DEF OpTyped
  <2>5. Numbered' /\ OneAppender'
    BY <1>0, <1>1, <1>4, <2>3 DEF Numbered, OneAppender
  <2>6. WalkWithinChain' /\ ReplyWithinChain'
    BY <1>0, <1>1, <1>4, <2>1, <2>2 DEF WalkWithinChain, ReplyWithinChain
  <2>7. SubmitsEvidenced'
    <3>1. ToSet(opRecords') \ ToSet(opChain') = opRefused' \cup OnTheirWay'
      BY <1>1, <1>3, <1>4, <2>3
    <3>2. /\ IsInjective(opChain') /\ IsInjective(opRecords')
          /\ opReply'.status = 201 => opReply'.id \in ToSet(opChain') \cap ToSet(opRecords')
      BY <1>1, <1>3, <1>4
    <3> QED BY <3>1, <3>2 DEF SubmitsEvidenced, OnTheirWay, Appending
  <2>8. VerdictWithinChain' /\ LoginHashed'
    BY <1>0, <1>1, <1>4 DEF VerdictWithinChain, LoginHashed, ApiTruthful
  <2> QED BY <2>4, <2>5, <2>6, <2>7, <2>8 DEF OpInd, ApiTruthful
<1>5. CASE /\ opRefused' = opRefused \cup {opTask[h].id}
           /\ Answers(h, [status |-> 500])
           /\ UNCHANGED opTorn
  <2>1. /\ opTask'[h] = NoTask /\ opTask' = [k \in Handlers |-> opTask'[k]]
        /\ \A k \in Handlers \ {h} : opTask'[k] = opTask[k]
        /\ NoTask.at = "idle" /\ opReply'.status = 500
    BY <1>0, <1>5, OneHandler DEF Answers, NoTask
  <2>2. Appending' = Appending \ {h} /\ \A k \in Appending' : opTask'[k] = opTask[k]
    BY <2>1 DEF Appending
  <2>3. opRefused' \cup OnTheirWay' = opRefused \cup OnTheirWay
    BY <1>1, <1>5, <2>2 DEF OnTheirWay
  <2>4. OpTyped'
    BY <1>0, <1>1, <1>5, <2>1 DEF OpTyped, TaskTyped
  <2>5. Numbered'
    BY <1>0, <1>1, <2>2 DEF Numbered
  <2>6. OneAppender'
    BY <1>0, <1>1, <1>5, <2>2 DEF OneAppender
  <2>7. WalkWithinChain' /\ ReplyWithinChain'
    BY <1>0, <1>1, <2>1 DEF WalkWithinChain, ReplyWithinChain
  <2>8. SubmitsEvidenced'
    <3>1. ToSet(opRecords') \ ToSet(opChain') = opRefused' \cup OnTheirWay'
      BY <1>1, <1>3, <2>3
    <3>2. IsInjective(opChain') /\ IsInjective(opRecords') /\ opReply'.status # 201
      BY <1>1, <1>3, <2>1
    <3> QED BY <3>1, <3>2 DEF SubmitsEvidenced, OnTheirWay, Appending
  <2>9. VerdictWithinChain' /\ LoginHashed'
    BY <1>0, <1>1, <2>1 DEF VerdictWithinChain, LoginHashed, ApiTruthful
  <2> QED BY <2>4, <2>5, <2>6, <2>7, <2>8, <2>9 DEF OpInd, ApiTruthful
<1> QED BY <1>4, <1>5 DEF StoreWrites

\* The row is there and the submit is answered.
LEMMA StoreWroteKeeps ==
  ASSUME OpInd, NEW h \in Handlers, StoreWrote(h)
  PROVE  OpInd'
<1>0. /\ OpTyped /\ Numbered /\ OneAppender /\ WalkWithinChain /\ ReplyWithinChain
      /\ ApiTruthful
  BY DEF OpInd
<1> DEFINE old == opTask[h]
           id == old.id
<1>1. /\ old.at = "writing" /\ h \in Appending
      /\ opTorn' = FALSE /\ opChain' = Append(opChain, id)
      /\ Answers(h, [status |-> 201, id |-> id])
      /\ UNCHANGED <<opApi, opToken, opAltered, opRecords, opRefused>>
  BY DEF StoreWrote, Appending, callerState
<1>2. id \in Nat
  <2>1. TaskTyped(old)
    BY <1>0 DEF OpTyped
  <2> QED BY <1>1, <2>1 DEF TaskTyped, NoTask
<1>3. /\ ToSet(opRecords) \ ToSet(opChain) = opRefused \cup OnTheirWay
      /\ IsInjective(opChain) /\ IsInjective(opRecords)
  BY <1>0, SubmitsAre DEF ApiTruthful
<1>4. id \in OnTheirWay /\ id \in ToSet(opRecords) /\ id \notin ToSet(opChain)
      /\ id \notin opRefused
  <2>1. id \in OnTheirWay
    BY <1>1 DEF OnTheirWay
  <2> QED BY <1>0, <1>1, <1>3, <2>1 DEF OneAppender
<1>5. /\ opTask'[h] = NoTask /\ opTask' = [k \in Handlers |-> opTask'[k]]
      /\ \A k \in Handlers \ {h} : opTask'[k] = opTask[k]
      /\ NoTask.at = "idle" /\ opReply'.status = 201 /\ opReply'.id = id
  BY <1>0, <1>1, OneHandler DEF Answers, NoTask
<1> HIDE DEF id
<1>6. /\ opChain' \in Seq(Nat) /\ opChain' # <<>> /\ Len(opChain) \in Nat
      /\ DOMAIN opChain = 1..Len(opChain) /\ DOMAIN opChain' = 1..Len(opChain')
      /\ Len(opChain') = Len(opChain) + 1 /\ opChain'[Len(opChain) + 1] = id
      /\ \A i \in 1..Len(opChain) : opChain'[i] = opChain[i]
      /\ ToSet(opChain') = ToSet(opChain) \cup {id}
      /\ opAltered' = {} \/ \E i \in DOMAIN opChain' : opAltered' = {i}
      /\ IsInjective(opChain')
  BY <1>1, <1>2, <1>4, ChainGrows
<1>7. Appending' = Appending \ {h} /\ \A k \in Appending' : opTask'[k] = opTask[k]
  BY <1>5 DEF Appending
<1>8. OnTheirWay' = OnTheirWay \ {id}
  BY <1>0, <1>1, <1>7 DEF OnTheirWay, OneAppender, id
<1>9. OpTyped'
  <2>1. \A k \in Handlers : TaskTyped(opTask'[k])
    BY <1>0, <1>5 DEF OpTyped, TaskTyped
  <2>2. opTorn' \in BOOLEAN
    BY <1>1
  <2> QED BY <1>0, <1>1, <1>5, <1>6, <2>1, <2>2 DEF OpTyped
<1>10. Numbered'
  <2>1. opApi = "v1"
    BY <1>0, <1>1 DEF Numbered, OpTyped
  <2>2. id \in 1..Len(opRecords)
    <3>1. opRecords \in Seq(Nat)
      BY <1>0 DEF OpTyped
    <3> QED BY <1>0, <1>4, <2>1, <3>1, NumberedList DEF Numbered
  <2>3. \A i \in DOMAIN opChain' : opChain'[i] \in 1..Len(opRecords)
    BY <1>0, <1>6, <2>1, <2>2 DEF Numbered
  <2> QED BY <1>0, <1>1, <2>1, <2>3 DEF Numbered
<1>11. OneAppender'
  BY <1>0, <1>1, <1>7 DEF OneAppender
<1>12. WalkWithinChain' /\ ReplyWithinChain'
  BY <1>0, <1>1, <1>5, <1>6 DEF WalkWithinChain, ReplyWithinChain
<1>13. SubmitsEvidenced'
  <2>1. ToSet(opRecords') \ ToSet(opChain') = opRefused' \cup OnTheirWay'
    BY <1>1, <1>3, <1>4, <1>6, <1>8
  <2>2. /\ IsInjective(opRecords') /\ IsInjective(opChain')
        /\ opReply'.id \in ToSet(opChain') \cap ToSet(opRecords')
    BY <1>1, <1>3, <1>4, <1>5, <1>6
  <2> QED BY <2>1, <2>2 DEF SubmitsEvidenced, OnTheirWay, Appending
<1>14. VerdictWithinChain' /\ LoginHashed'
  BY <1>0, <1>1, <1>5 DEF VerdictWithinChain, LoginHashed, ApiTruthful
<1> QED BY <1>9, <1>10, <1>11, <1>12, <1>13, <1>14 DEF OpInd, ApiTruthful

\* The first walk of a verification.
LEMMA VerifyWalkKeeps ==
  ASSUME OpInd, NEW h \in Handlers, VerifyWalk(h)
  PROVE  OpInd'
<1>0. /\ OpTyped /\ Numbered /\ OneAppender /\ WalkWithinChain /\ ReplyWithinChain
      /\ ApiTruthful
  BY DEF OpInd
<1>1. /\ h \notin Appending
      /\ UNCHANGED <<callerState, opChain, opAltered, opTorn, opRecords, opRefused>>
  BY DEF VerifyWalk, Appending
<1>2. CASE opTorn
  <2> DEFINE reply == [status |-> 500]
  <2>1. Answers(h, reply) /\ reply.status = 500
    BY <1>2 DEF VerifyWalk
  <2> HIDE DEF reply
  <2> QED BY <1>1, <2>1, PlainAnswer
<1>3. CASE ~opTorn
  <2> DEFINE task == [at |-> "count", bad |-> FirstBad, len |-> Len(opChain)]
  <2>0. opTask' = [opTask EXCEPT ![h] = task] /\ opReply' = opReply
    BY <1>3 DEF VerifyWalk
  <2>1. /\ FirstBad \in 0..Len(opChain) /\ (FirstBad # 0 => FirstBad \in opAltered)
        /\ Len(opChain) \in Nat /\ Len(opChain) \in 1..Len(opChain)
    <3>1. opChain \in Seq(Nat) /\ opChain # <<>>
      BY <1>0 DEF OpTyped
    <3> QED BY <1>0, <3>1, FirstBadIs
  <2>2. /\ TaskTyped(task) /\ task.at = "count" /\ task.bad = FirstBad
        /\ task.len = Len(opChain)
    BY <2>1 DEF TaskTyped
  <2> HIDE DEF task
  <2>3. /\ opTask'[h] = task /\ opTask' = [k \in Handlers |-> opTask'[k]]
        /\ \A k \in Handlers \ {h} : opTask'[k] = opTask[k]
    BY <1>0, <2>0, OneHandler
  <2>4. UNCHANGED <<opApi, opToken, opChain, opAltered, opTorn, opRecords, opRefused>>
    BY <1>1 DEF callerState
  <2>5. /\ Appending' = Appending /\ OnTheirWay' = OnTheirWay
        /\ \A k \in Appending : opTask'[k] = opTask[k]
    <3>1. Appending' = Appending
      BY <1>1, <2>2, <2>3 DEF Appending
    <3>2. \A k \in Appending : opTask'[k] = opTask[k]
      BY <1>1, <2>3 DEF Appending
    <3> QED BY <3>1, <3>2 DEF OnTheirWay
  <2>6. OpTyped'
    BY <1>0, <2>2, <2>3, <2>4 DEF OpTyped
  <2>7. Numbered' /\ OneAppender'
    BY <1>0, <2>4, <2>5 DEF Numbered, OneAppender
  <2>8. WalkWithinChain' /\ ReplyWithinChain'
    BY <1>0, <2>0, <2>1, <2>2, <2>3, <2>4 DEF WalkWithinChain, ReplyWithinChain
  <2>9. SubmitsEvidenced'
    <3>1. /\ ToSet(opRecords) \ ToSet(opChain) = opRefused \cup OnTheirWay
          /\ IsInjective(opChain) /\ IsInjective(opRecords)
          /\ opReply.status = 201 => opReply.id \in ToSet(opChain) \cap ToSet(opRecords)
      BY <1>0, SubmitsAre DEF ApiTruthful
    <3>2. ToSet(opRecords') \ ToSet(opChain') = opRefused' \cup OnTheirWay'
      BY <2>4, <2>5, <3>1
    <3> QED BY <2>0, <2>4, <3>1, <3>2 DEF SubmitsEvidenced, OnTheirWay, Appending
  <2>10. VerdictWithinChain' /\ LoginHashed'
    BY <1>0, <2>0, <2>4 DEF VerdictWithinChain, LoginHashed, ApiTruthful
  <2> QED BY <2>6, <2>7, <2>8, <2>9, <2>10 DEF OpInd, ApiTruthful
<1> QED BY <1>2, <1>3

\* The second walk, and the verdict.
LEMMA VerifyCountKeeps ==
  ASSUME OpInd, NEW h \in Handlers, VerifyCount(h)
  PROVE  OpInd'
<1>0. /\ OpTyped /\ Numbered /\ OneAppender /\ WalkWithinChain /\ ReplyWithinChain
      /\ ApiTruthful
  BY DEF OpInd
<1>1. /\ h \notin Appending /\ opTask[h].at = "count"
      /\ UNCHANGED <<callerState, opChain, opAltered, opTorn, opRecords, opRefused>>
  BY DEF VerifyCount, Appending
<1>2. CASE opTorn
  <2> DEFINE reply == [status |-> 500]
  <2>1. Answers(h, reply) /\ reply.status = 500
    BY <1>2 DEF VerifyCount
  <2> HIDE DEF reply
  <2> QED BY <1>1, <2>1, PlainAnswer
<1>3. CASE ~opTorn
  <2> DEFINE reply == [status |-> 200, bad |-> opTask[h].bad, walked |-> opTask[h].len,
                       len |-> Len(opChain), head |-> Last(opChain)]
  <2>0. Answers(h, reply)
    BY <1>3 DEF VerifyCount
  <2>1. /\ reply.status = 200 /\ reply.bad = opTask[h].bad /\ reply.walked = opTask[h].len
        /\ reply.len = Len(opChain) /\ reply.head = opChain[Len(opChain)]
    BY DEF Last
  <2> HIDE DEF reply
  <2>2. /\ opTask'[h] = NoTask /\ opTask' = [k \in Handlers |-> opTask'[k]]
        /\ \A k \in Handlers \ {h} : opTask'[k] = opTask[k]
        /\ NoTask.at = "idle" /\ opReply' = reply
    BY <1>0, <2>0, OneHandler DEF Answers, NoTask
  <2>3. UNCHANGED <<opApi, opToken, opChain, opAltered, opTorn, opRecords, opRefused>>
    BY <1>1 DEF callerState
  <2>4. /\ Appending' = Appending /\ OnTheirWay' = OnTheirWay
        /\ \A k \in Appending : opTask'[k] = opTask[k]
    <3>1. Appending' = Appending
      BY <1>1, <2>2 DEF Appending
    <3>2. \A k \in Appending : opTask'[k] = opTask[k]
      BY <1>1, <2>2 DEF Appending
    <3> QED BY <3>1, <3>2 DEF OnTheirWay
  <2>5. /\ opTask[h].len \in 1..Len(opChain) /\ opTask[h].bad \in 0..opTask[h].len
        /\ (opTask[h].bad # 0 => opTask[h].bad \in opAltered) /\ Len(opChain) \in Nat
    BY <1>0, <1>1 DEF WalkWithinChain, OpTyped
  <2>6. OpTyped'
    BY <1>0, <2>2, <2>3 DEF OpTyped, TaskTyped
  <2>7. Numbered' /\ OneAppender'
    BY <1>0, <2>3, <2>4 DEF Numbered, OneAppender
  <2>8. WalkWithinChain'
    BY <1>0, <2>2, <2>3 DEF WalkWithinChain
  <2>9. ReplyWithinChain'
    BY <2>1, <2>2, <2>3, <2>5 DEF ReplyWithinChain
  <2>10. SubmitsEvidenced'
    <3>1. /\ ToSet(opRecords) \ ToSet(opChain) = opRefused \cup OnTheirWay
          /\ IsInjective(opChain) /\ IsInjective(opRecords)
      BY <1>0, SubmitsAre DEF ApiTruthful
    <3>2. ToSet(opRecords') \ ToSet(opChain') = opRefused' \cup OnTheirWay'
      BY <2>3, <2>4, <3>1
    <3>3. opReply'.status # 201
      BY <2>1, <2>2
    <3> QED BY <2>3, <3>1, <3>2, <3>3 DEF SubmitsEvidenced, OnTheirWay, Appending
  <2>11. VerdictWithinChain'
    BY <2>1, <2>2, <2>3, <2>5 DEF VerdictWithinChain
  <2>12. LoginHashed'
    BY <1>0, <2>3 DEF LoginHashed, ApiTruthful
  <2> QED BY <2>6, <2>7, <2>8, <2>9, <2>10, <2>11, <2>12 DEF OpInd, ApiTruthful
<1> QED BY <1>2, <1>3

\* Handlers that answer from one reading.
LEMMA ReadChainKeeps ==
  ASSUME OpInd, NEW h \in Handlers, NEW reply, ReadChain(h, reply),
         reply.status # 201, "bad" \notin DOMAIN reply
  PROVE  OpInd'
<1> DEFINE r == IF opTorn THEN [status |-> 500] ELSE reply
<1>1. /\ h \notin Appending /\ Answers(h, r)
      /\ UNCHANGED <<callerState, opChain, opAltered, opTorn, opRecords, opRefused>>
  BY DEF ReadChain, Appending
<1>2. r.status # 201 /\ (r.status # 200 \/ "bad" \notin DOMAIN r)
  <2>1. CASE opTorn
    BY <2>1
  <2>2. CASE ~opTorn
    BY <2>2
  <2> QED BY <2>1, <2>2
<1> HIDE DEF r
<1> QED BY <1>1, <1>2, PlainAnswer

\* The row another process was writing is there.
LEMMA DaemonWroteKeeps ==
  ASSUME OpInd, DaemonWrote
  PROVE  OpInd'
<1>0. /\ OpTyped /\ Numbered /\ OneAppender /\ WalkWithinChain /\ ReplyWithinChain
      /\ ApiTruthful
  BY DEF OpInd
<1> DEFINE id == Len(opChain) + 1
<1>1. /\ opApi = "dashboard" /\ opTorn' = FALSE /\ opChain' = Append(opChain, id)
      /\ UNCHANGED <<opApi, opToken, opAltered, opRecords, opRefused, opTask, opReply>>
  <2>1. opApi = "dashboard" /\ opTorn
    BY DEF DaemonWrote
  <2>2. Made = Len(opChain) + 1
    BY <1>0, <2>1, MadeCounts
  <2> QED BY <2>1, <2>2 DEF DaemonWrote, callerState
<1>2. /\ opRecords = <<>> /\ Appending = {} /\ opChain \in Seq(Nat)
      /\ ToSet(opChain) = 1..Len(opChain) /\ Len(opChain) \in Nat
      /\ \A i \in DOMAIN opChain : opChain[i] = i
  BY <1>0, <1>1, NumberedList DEF Numbered, OpTyped
<1>3. id \in Nat /\ id \notin ToSet(opChain)
  BY <1>2
<1>4. /\ opChain' \in Seq(Nat) /\ opChain' # <<>> /\ Len(opChain) \in Nat
      /\ DOMAIN opChain = 1..Len(opChain) /\ DOMAIN opChain' = 1..Len(opChain')
      /\ Len(opChain') = Len(opChain) + 1 /\ opChain'[Len(opChain) + 1] = id
      /\ \A i \in 1..Len(opChain) : opChain'[i] = opChain[i]
      /\ opAltered' = {} \/ \E i \in DOMAIN opChain' : opAltered' = {i}
      /\ IsInjective(opChain')
  BY <1>1, <1>3, ChainGrows
<1>5. Appending' = {} /\ OnTheirWay = {} /\ OnTheirWay' = {}
  <2>1. Appending' = Appending
    BY <1>1 DEF Appending
  <2> QED BY <1>2, <2>1 DEF OnTheirWay
<1>6. OpTyped'
  <2>1. opTorn' \in BOOLEAN
    BY <1>1
  <2> QED BY <1>0, <1>1, <1>4, <2>1 DEF OpTyped
<1>7. Numbered'
  BY <1>1, <1>2, <1>4, <1>5 DEF Numbered
<1>8. OneAppender'
  BY <1>5 DEF OneAppender
<1>9. WalkWithinChain' /\ ReplyWithinChain'
  BY <1>0, <1>1, <1>4 DEF WalkWithinChain, ReplyWithinChain
<1>10. SubmitsEvidenced'
  <2>1. /\ IsInjective(opRecords) /\ ToSet(opRecords) = {}
        /\ ToSet(opRecords) \ ToSet(opChain) = opRefused \cup OnTheirWay
        /\ opReply.status = 201 => opReply.id \in ToSet(opChain) \cap ToSet(opRecords)
    BY <1>0, <1>2, SubmitsAre DEF ApiTruthful, ToSet
  <2>2. ToSet(opRecords') \ ToSet(opChain') = opRefused' \cup OnTheirWay'
    BY <1>1, <1>5, <2>1
  <2>3. opReply'.status # 201 /\ IsInjective(opRecords')
    BY <1>1, <2>1
  <2> QED BY <1>4, <2>2, <2>3 DEF SubmitsEvidenced, OnTheirWay, Appending
<1>11. VerdictWithinChain'
  BY <1>0, <1>1, <1>4 DEF VerdictWithinChain, ReplyWithinChain, ApiTruthful
<1>12. LoginHashed'
  BY <1>0, <1>1 DEF LoginHashed, ApiTruthful
<1> QED BY <1>6, <1>7, <1>8, <1>9, <1>10, <1>11, <1>12 DEF OpInd, ApiTruthful

\* Every step of the handlers, of their callers and of the other process keeps
\* the facts.
LEMMA OpIndStep == OpInd /\ [OpNext]_opVars => OpInd'
<1> SUFFICES ASSUME OpInd, [OpNext]_opVars PROVE OpInd'
  OBVIOUS
<1>0. /\ OpTyped /\ LoginHashed /\ opChain \in Seq(Nat)
      /\ opTask = [h \in Handlers |-> opTask[h]]
  BY DEF OpInd, ApiTruthful, OpTyped
<1>1. CASE UNCHANGED opVars
  <2>1. UNCHANGED <<opApi, opChain, opRecords, opRefused, opTask, opReply, opAltered,
                    opTorn, opToken>>
    BY <1>1 DEF opVars
  <2>2. OpTyped' /\ LoginHashed'
    BY <1>0, <2>1 DEF OpTyped, LoginHashed
  <2> QED BY <2>1, <2>2, HandlersIdle
<1>2. ASSUME NEW entry \in Entries, NEW match \in BOOLEAN, NEW flag \in {"", "false"},
             Login(entry, match, flag)
      PROVE  OpInd'
  <2>1. UNCHANGED <<opApi, opChain, opRecords, opRefused, opTask, opReply, opAltered,
                    opTorn>>
    BY <1>2 DEF Login
  <2>2. OpTyped'
    BY <1>0, <2>1 DEF OpTyped
  <2>3. LoginHashed'
    <3> SUFFICES ASSUME NEW t \in opToken'
                 PROVE  t.stored = "hash" \/ (t.stored = "plain" /\ ~t.prod)
      BY DEF LoginHashed
    <3>1. PICK u \in UsersFromEnv(entry) :
            /\ VerifySecret(u.stored, match, flag)
            /\ t = [role |-> u.role, secret |-> opSecret, stored |-> u.stored,
                    prod |-> ProductionMode(flag)]
      BY <1>2 DEF Login
    <3> QED BY <3>1 DEF VerifySecret
  <2> QED BY <2>1, <2>2, <2>3, HandlersIdle
<1>3. CASE NewSecret
  <2>1. UNCHANGED <<opApi, opChain, opRecords, opRefused, opTask, opReply, opAltered,
                    opTorn, opToken>>
    BY <1>3 DEF NewSecret
  <2>2. OpTyped' /\ LoginHashed'
    BY <1>0, <2>1 DEF OpTyped, LoginHashed
  <2> QED BY <2>1, <2>2, HandlersIdle
<1>4. ASSUME NEW h \in Handlers, ReadPolicies(h, 2) PROVE OpInd'
  <2> DEFINE reply == [status |-> 200, page |-> Page(opChain, 2)]
  <2>1. ReadChain(h, reply)
    BY <1>4 DEF ReadPolicies
  <2>2. reply.status = 200 /\ "bad" \notin DOMAIN reply
    OBVIOUS
  <2> HIDE DEF reply
  <2> QED BY <2>1, <2>2, ReadChainKeeps
<1>5. ASSUME NEW h \in Handlers, ReadTimeline(h, 2, 3) PROVE OpInd'
  <2> DEFINE reply == [status |-> 200,
                samples |-> 3 * Cardinality({i \in DOMAIN opChain : i \in 2..3})]
  <2>1. ReadChain(h, reply)
    BY <1>5 DEF ReadTimeline
  <2>2. reply.status = 200 /\ "bad" \notin DOMAIN reply
    OBVIOUS
  <2> HIDE DEF reply
  <2> QED BY <2>1, <2>2, ReadChainKeeps
<1>6. ASSUME NEW h \in Handlers, NEW id, ReadDetail(h, id) PROVE OpInd'
  <2> DEFINE reply == [status |-> IF id \in ToSet(opChain) THEN 200 ELSE 404]
  <2>1. ReadChain(h, reply)
    BY <1>6 DEF ReadDetail
  <2>2. reply.status # 201 /\ "bad" \notin DOMAIN reply
    OBVIOUS
  <2> HIDE DEF reply
  <2> QED BY <2>1, <2>2, ReadChainKeeps
<1>7. ASSUME NEW h \in Handlers, ReadState(h) PROVE OpInd'
  <2> DEFINE reply == [status |-> 200, tip |-> IF opTorn THEN 0 ELSE Last(opChain)]
  <2>1. /\ h \notin Appending /\ Answers(h, reply)
        /\ UNCHANGED <<callerState, opChain, opAltered, opTorn, opRecords, opRefused>>
    BY <1>7 DEF ReadState, Appending
  <2>2. reply.status = 200 /\ "bad" \notin DOMAIN reply
    OBVIOUS
  <2> HIDE DEF reply
  <2> QED BY <2>1, <2>2, PlainAnswer
<1>8. ASSUME NEW h \in Handlers, NEW id, ReadRecords(h, id) PROVE OpInd'
  <2> DEFINE reply == [status |-> IF id \in ToSet(opRecords) THEN 200 ELSE 404]
  <2>1. /\ h \notin Appending /\ Answers(h, reply)
        /\ UNCHANGED <<callerState, opChain, opAltered, opTorn, opRecords, opRefused>>
    BY <1>8 DEF ReadRecords, Appending
  <2>2. reply.status # 201 /\ "bad" \notin DOMAIN reply
    OBVIOUS
  <2> HIDE DEF reply
  <2> QED BY <2>1, <2>2, PlainAnswer
<1>9. CASE DaemonWrites
  <2>1. /\ UNCHANGED <<opApi, opChain, opRecords, opRefused, opTask, opReply, opAltered,
                       opToken>>
        /\ opTorn' = TRUE
    BY <1>9 DEF DaemonWrites, callerState
  <2>2. OpTyped' /\ LoginHashed'
    BY <1>0, <2>1 DEF OpTyped, LoginHashed
  <2> QED BY <2>1, <2>2, HandlersIdle
<1>10. ASSUME NEW i \in DOMAIN opChain, AlterRow(i) PROVE OpInd'
  <2>1. /\ UNCHANGED <<opApi, opChain, opRecords, opRefused, opTask, opReply, opTorn,
                       opToken>>
        /\ opAltered = {} /\ opAltered' = {i}
    BY <1>10 DEF AlterRow, callerState
  <2>2. OpTyped' /\ LoginHashed'
    BY <1>0, <1>10, <2>1 DEF OpTyped, LoginHashed
  <2> QED BY <2>1, <2>2, HandlersIdle
<1> QED BY <1>1, <1>2, <1>3, <1>4, <1>5, <1>6, <1>7, <1>8, <1>9, <1>10, SubmitKeeps,
           StoreWritesKeeps, StoreWroteKeeps, VerifyWalkKeeps, VerifyCountKeeps,
           DaemonWroteKeeps DEF OpNext

\* For any number of handlers and rows: a decision answered 201 is in the list and
\* in the chain, once each, whatever order submits reach the two in; a verdict lies
\* within the chain although it is put together from two walks; and nobody logs in
\* to production with a plain-text secret.
THEOREM ApiAlwaysTruthful == OpSpec => []ApiTruthful
<1>1. OpInd => ApiTruthful
  BY DEF OpInd
<1> QED BY <1>1, OpIndInit, OpIndStep, PTL DEF OpSpec

\* No more decisions are made than the bound lets in.
OpBounded ==
  /\ Len(opRecords) <= MaxRows
  /\ opApi = "dashboard" => Len(opChain) + (IF opTorn THEN 1 ELSE 0) <= MaxRows

\* They are bounded at the start.
LEMMA OpBoundedInit == OpInit => OpBounded
BY OpAssumption DEF OpInit, OpBounded, Seeds

\* The list grows by submits, the rApp's chain by its daemon.
LEMMA OpBoundedStep == OpInd /\ OpBounded /\ [OpNext]_opVars => OpBounded'
<1> SUFFICES ASSUME OpInd, OpBounded, [OpNext]_opVars PROVE OpBounded'
  OBVIOUS
<1>0. /\ OpTyped /\ Numbered /\ opChain \in Seq(Nat) /\ opRecords \in Seq(Nat)
      /\ opTorn \in BOOLEAN /\ MaxRows \in Nat
  BY OpAssumption DEF OpInd, OpTyped
<1>1. /\ opApi = "v1" => Made = Len(opRecords)
      /\ opApi = "dashboard" => Made = Len(opChain) + (IF opTorn THEN 1 ELSE 0)
  BY <1>0, MadeCounts
\* Steps that add to neither.
<1>2. ASSUME UNCHANGED <<opApi, opChain, opRecords>>, opTorn' \in {opTorn, FALSE}
      PROVE  OpBounded'
  <2>1. opApi' = opApi /\ opChain' = opChain /\ opRecords' = opRecords /\ Len(opChain) \in Nat
    BY <1>0, <1>2, LenProperties
  <2>2. CASE opTorn'
    BY <1>0, <1>2, <2>1, <2>2 DEF OpBounded
  <2>3. CASE ~opTorn'
    <3>1. opApi = "dashboard" => Len(opChain) <= MaxRows
      BY <1>0, <2>1 DEF OpBounded
    <3> QED BY <2>1, <2>3, <3>1 DEF OpBounded
  <2> QED BY <2>2, <2>3
<1>3. ASSUME UNCHANGED <<opApi, opRecords>>, opApi = "v1" PROVE OpBounded'
  BY <1>3 DEF OpBounded
<1>4. CASE UNCHANGED opVars
  BY <1>2, <1>4 DEF opVars
<1>5. ASSUME NEW entry, NEW match, NEW flag, Login(entry, match, flag) PROVE OpBounded'
  BY <1>2, <1>5 DEF Login
<1>6. CASE NewSecret
  BY <1>2, <1>6 DEF NewSecret
<1>7. ASSUME NEW h \in Handlers, Submit(h) PROVE OpBounded'
  <2>1. opApi = "v1" /\ Made < MaxRows /\ UNCHANGED <<opApi, opChain, opTorn>>
    BY <1>7 DEF Submit, callerState
  <2>2. opRecords' = opRecords \/ opRecords' = Append(opRecords, Made + 1)
    BY <1>7 DEF Submit
  <2>3. Len(opRecords) < MaxRows /\ Made \in Nat
    BY <1>0, <1>1, <2>1, LenProperties
  <2>4. Len(opRecords') <= MaxRows
    BY <1>0, <2>2, <2>3, AppendProperties, LenProperties
  <2> QED BY <2>1, <2>4 DEF OpBounded
<1>8. ASSUME NEW h \in Handlers, StoreWrites(h) \/ StoreWrote(h) PROVE OpBounded'
  <2>1. UNCHANGED <<opApi, opRecords>> /\ opTask[h].at \in {"append", "writing"}
    BY <1>8 DEF StoreWrites, StoreWrote, callerState
  <2>2. opApi = "v1"
    BY <1>0, <2>1 DEF OpTyped, Numbered, Appending
  <2> QED BY <1>3, <2>1, <2>2
<1>9. ASSUME NEW h \in Handlers,
             \/ VerifyWalk(h) \/ VerifyCount(h)
             \/ ReadPolicies(h, 2) \/ ReadTimeline(h, 2, 3) \/ ReadState(h)
             \/ \E id \in 2..MaxRows : ReadDetail(h, id) \/ ReadRecords(h, id)
      PROVE  OpBounded'
  <2>1. UNCHANGED <<opApi, opChain, opRecords, opTorn>>
    BY <1>9 DEF VerifyWalk, VerifyCount, ReadPolicies, ReadTimeline, ReadState, ReadDetail,
                ReadRecords, ReadChain, callerState
  <2> QED BY <1>2, <2>1
<1>10. CASE DaemonWrites
  <2>1. UNCHANGED <<opApi, opChain, opRecords>> /\ opApi = "dashboard" /\ ~opTorn /\ Made < MaxRows
        /\ opTorn'
    BY <1>10 DEF DaemonWrites, callerState
  <2>2. Len(opChain) < MaxRows /\ Len(opChain) \in Nat
    BY <1>0, <1>1, <2>1, LenProperties
  <2>3. Len(opChain) + 1 <= MaxRows
    BY <1>0, <2>2
  <2> QED BY <2>1, <2>3 DEF OpBounded
<1>11. CASE DaemonWrote
  <2>1. UNCHANGED <<opApi, opRecords>> /\ opApi = "dashboard" /\ opTorn /\ ~opTorn'
        /\ opChain' = Append(opChain, Made)
    BY <1>11 DEF DaemonWrote, callerState
  <2>2. Made \in Nat /\ Len(opChain) + 1 <= MaxRows /\ Len(opChain) \in Nat
    BY <1>0, <1>1, <2>1, LenProperties DEF OpBounded
  <2>3. Len(opChain') = Len(opChain) + 1
    BY <1>0, <2>1, <2>2, AppendProperties
  <2> QED BY <2>1, <2>2, <2>3 DEF OpBounded
<1>12. ASSUME NEW i \in DOMAIN opChain, AlterRow(i) PROVE OpBounded'
  BY <1>2, <1>12 DEF AlterRow, callerState
<1> QED
  <2>1. CASE OpNext
    BY <1>5, <1>6, <1>7, <1>8, <1>9, <1>10, <1>11, <1>12, <2>1 DEF OpNext
  <2> QED BY <1>4, <2>1

\* The types of the operator APIs follow.
LEMMA OpIndTypes == OpInd /\ OpBounded => OpTypeOK
<1> SUFFICES ASSUME OpInd, OpBounded PROVE OpTypeOK
  OBVIOUS
<1>1. opChain \in Seq(Nat) /\ opRecords \in Seq(Nat) /\ Numbered /\ OpTyped
  BY DEF OpInd, OpTyped
<1>2. Len(opChain) <= MaxRows
  <2>1. CASE opApi = "dashboard"
    BY <1>1, <2>1, OpAssumption, LenProperties DEF OpBounded
  <2>2. CASE opApi = "v1"
    <3>1. IsInjective(opChain)
      BY <2>2 DEF OpInd, ApiTruthful, SubmitsEvidenced
    <3>2. Len(opChain) \in Nat /\ Len(opRecords) \in Nat
      BY <1>1, LenProperties
    <3>3. opChain \in Injection(1..Len(opChain), 1..Len(opRecords))
      BY <1>1, <2>2, <3>1, <3>2 DEF Numbered, IsInjective, Injection
    <3>4. /\ IsFiniteSet(1..Len(opRecords)) /\ Cardinality(1..Len(opRecords)) = Len(opRecords)
          /\ Cardinality(1..Len(opChain)) = Len(opChain)
      <4> DEFINE n == Len(opRecords)
                 m == Len(opChain)
      <4>1. n \in Nat /\ m \in Nat
        BY <3>2
      <4> HIDE DEF n, m
      <4>2. IsFiniteSet(1..n) /\ Cardinality(1..n) = n /\ Cardinality(1..m) = m
        BY <4>1, FS_Interval
      <4> QED BY <4>2 DEF n, m
    <3>5. Len(opChain) <= Len(opRecords)
      BY <3>3, <3>4, FS_Injection
    <3> QED BY <3>2, <3>5, OpAssumption DEF OpBounded
  <2> QED BY <1>1, <2>1, <2>2 DEF OpTyped
<1>3. opAltered \subseteq DOMAIN opChain
  BY <1>1 DEF OpTyped
<1>4. \A h \in Handlers : opTask[h].at \in {"idle", "append", "writing", "count"}
  BY <1>1 DEF OpTyped, TaskTyped, NoTask
<1> QED BY <1>2, <1>3, <1>4 DEF OpTypeOK, OpBounded
=============================================================================
