--------------------------- MODULE Sessions_proofs ---------------------------
(***************************************************************************)
(* Theorems about Sessions for every set of accounts, of logins and        *)
(* refreshes and of writers of the ban cache.                              *)
(***************************************************************************)
EXTENDS Sessions, TLAPS

USE SessionAssumption
    DEF accountVars, flowVars, memoryVars, LoginSteps, RefreshSteps

\* A refresh under way knows the token it replaces.
Replaces == \A f \in Flows : pc[f] \in RefreshSteps => from[f] \in Flows

\* Deleting the rows of an account leaves every row a row.
LEMMA RowsType ==
  ASSUME TypeOK, NEW u \in Users
  PROVE  RowsWithout(u) \in [Flows -> {"none", "live", "gone"}]
BY DEF RowsWithout, TypeOK

\* Deleting the rows of an account brings no row to life.
LEMMA RowsDie ==
  ASSUME TypeOK, NEW u \in Users, NEW t \in Flows, RowsWithout(u)[t] = "live"
  PROVE  row[t] = "live"
BY DEF RowsWithout, TypeOK

\* Every step keeps the shape of the tables and of the memory of the process.
LEMMA TypeStep ==
  ASSUME TypeOK, Replaces, [Next]_vars
  PROVE  TypeOK'
<1>1. ASSUME NEW f \in Flows, Flow(f) PROVE TypeOK'
  <2>1. CASE CheckPassword(f)
    BY <2>1
    DEF CheckPassword, TypeOK, Advance, Start, FlowSteps
  <2>2. CASE SignToken(f)
    BY <2>2
    DEF SignToken, TypeOK, Advance, Rights, FlowSteps
  <2>3. CASE InsertSession(f)
    BY <2>3
    DEF InsertSession, TypeOK, Advance, FlowSteps
  <2>4. ASSUME NEW t \in Flows, BeginRefresh(f, t) PROVE TypeOK'
    BY <2>4
    DEF BeginRefresh, TypeOK, Advance, Start, FlowSteps
  <2>5. CASE RevokeReplaced(f)
    BY <2>5
    DEF RevokeReplaced, Replaces, TypeOK, Advance, Replaced, Verified, FlowSteps
  <2>6. CASE DeleteReplaced(f)
    BY <2>6
    DEF DeleteReplaced, Replaces, TypeOK, Advance, FlowSteps
  <2>7. CASE FailFlow(f)
    BY <2>7
    DEF FailFlow, TypeOK, Advance, FlowSteps
  <2> QED
    BY <1>1, <2>1, <2>2, <2>3, <2>4, <2>5, <2>6, <2>7 DEF Flow
<1>2. ASSUME NEW t \in Flows, Token(t) PROVE TypeOK'
  <2>1. CASE RevokeSession(t)
    BY <2>1
    DEF RevokeSession, TypeOK
  <2>2. CASE DeleteSession(t)
    BY <2>2
    DEF DeleteSession, TypeOK
  <2>3. CASE Expire(t)
    BY <2>3
    DEF Expire, TypeOK
  <2>4. CASE LapseRow(t)
    BY <2>4
    DEF LapseRow, TypeOK
  <2>5. CASE PruneRevoked(t)
    BY <2>5
    DEF PruneRevoked, TypeOK
  <2> QED
    BY <1>2, <2>1, <2>2, <2>3, <2>4, <2>5 DEF Token
<1>3. ASSUME NEW u \in Users, Account(u) PROVE TypeOK'
  <2>1. CASE LogoutAll(u)
    BY <2>1, RowsType
    DEF LogoutAll, TypeOK
  <2>2. CASE UpdatePassword(u)
    BY <2>2
    DEF UpdatePassword, TypeOK
  <2>3. CASE DeleteSessions(u)
    BY <2>3, RowsType
    DEF DeleteSessions, TypeOK
  <2>4. CASE LapseCache(u)
    BY <2>4
    DEF LapseCache, TypeOK
  <2>5. ASSUME NEW rights \in Levels, SetUserGroups(u, rights) PROVE TypeOK'
    BY <2>5
    DEF SetUserGroups, TypeOK
  <2> QED
    BY <1>3, <2>1, <2>2, <2>3, <2>4, <2>5 DEF Account
<1>4. ASSUME NEW w \in Writers, WriteCache(w) PROVE TypeOK'
  <2>1. ASSUME NEW u \in Users, ReadBan(w, u) PROVE TypeOK'
    BY <2>1
    DEF ReadBan, Found, TypeOK, Writes
  <2>2. ASSUME NEW u \in Users, NEW ban \in BOOLEAN, SetUserBanned(w, u, ban) PROVE TypeOK'
    BY <2>2, RowsType
    DEF SetUserBanned, TypeOK, Writes
  <2>3. CASE CacheBan(w)
    BY <2>3
    DEF CacheBan, TypeOK, Writes, Entry
  <2> QED
    BY <1>4, <2>1, <2>2, <2>3 DEF WriteCache
<1>5. CASE Restart
  BY <1>5
  DEF Restart, TypeOK, FlowSteps
<1>6. CASE FailReads
  BY <1>6
  DEF FailReads, TypeOK, FlowSteps
<1>7. CASE UNCHANGED vars
  BY <1>7 DEF vars, TypeOK
<1> QED
  BY <1>1, <1>2, <1>3, <1>4, <1>5, <1>6, <1>7 DEF Next

\* Only a refresh names a token, and it names one when it begins.
LEMMA ReplacesStep ==
  ASSUME TypeOK, Replaces, [Next]_vars
  PROVE  Replaces'
<1> SUFFICES ASSUME NEW f \in Flows, pc'[f] \in RefreshSteps
             PROVE  from'[f] \in Flows
  BY DEF Replaces
<1>1. CASE \E g \in Flows : Flow(g)
  BY <1>1
  DEF Flow, CheckPassword, SignToken, InsertSession, BeginRefresh, RevokeReplaced,
      DeleteReplaced, FailFlow, Advance, Replaces, TypeOK
<1>2. CASE \E t \in Flows : Token(t)
  BY <1>2
  DEF Token, RevokeSession, DeleteSession, Expire, LapseRow, PruneRevoked, Replaces
<1>3. CASE \E u \in Users : Account(u)
  BY <1>3
  DEF Account, LogoutAll, UpdatePassword, DeleteSessions, LapseCache,
      SetUserGroups, Replaces
<1>4. CASE \E w \in Writers : WriteCache(w)
  BY <1>4 DEF WriteCache, ReadBan, SetUserBanned, CacheBan, Replaces
<1>5. CASE Restart
  BY <1>5 DEF Restart, Replaces, TypeOK
<1>6. CASE FailReads
  BY <1>6 DEF FailReads, Replaces
<1>7. CASE UNCHANGED vars
  BY <1>7 DEF vars, Replaces
<1> QED
  BY <1>1, <1>2, <1>3, <1>4, <1>5, <1>6, <1>7 DEF Next

-----------------------------------------------------------------------------
(* What makes the two safety properties inductive. *)

Signed == {"loaded", "renewed", "voided", "deleted", "done"}
UnderWay == LoginSteps \cup RefreshSteps

\* A flow under way has seen the rights of its account, and a token carries
\* rights that its flow has seen.
RightsSeen ==
  \A f \in Flows :
    /\ pc[f] \in UnderWay => level[owner[f]] \in seen[f]
    /\ pc[f] \in Signed => claim[f] \in seen[f]

\* This process refuses the token.
Dead(t) == t \in expired \cup revoked

\* A token is logged out or replaced only after it was handed out, and in
\* memory before it is in the database.
DeadBeforeDeleted ==
  /\ \A f \in Flows :
       /\ pc[f] \in RefreshSteps => pc[from[f]] = "done"
       /\ pc[f] = "voided" => Dead(from[f])
  /\ \A t \in leaving : pc[t] = "done" /\ Dead(t)
  /\ \A t \in ended : pc[t] = "done" /\ row[t] # "live"

\* Every step keeps the rights of flows and tokens among those they have seen.
LEMMA RightsStep ==
  ASSUME TypeOK, RightsSeen, [Next]_vars
  PROVE  RightsSeen'
<1>1. ASSUME NEW f \in Flows, Flow(f) PROVE RightsSeen'
  <2>1. CASE CheckPassword(f)
    BY <2>1
    DEF CheckPassword, RightsSeen, UnderWay, Signed, TypeOK, Advance, Start
  <2>2. CASE SignToken(f)
    BY <2>2
    DEF SignToken, RightsSeen, UnderWay, Signed, TypeOK, Advance, Rights
  <2>3. CASE InsertSession(f)
    BY <2>3
    DEF InsertSession, RightsSeen, UnderWay, Signed, TypeOK, Advance
  <2>4. ASSUME NEW t \in Flows, BeginRefresh(f, t) PROVE RightsSeen'
    BY <2>4
    DEF BeginRefresh, RightsSeen, UnderWay, Signed, TypeOK, Advance, Start
  <2>5. CASE RevokeReplaced(f)
    BY <2>5
    DEF RevokeReplaced, RightsSeen, UnderWay, Signed, TypeOK, Advance
  <2>6. CASE DeleteReplaced(f)
    BY <2>6
    DEF DeleteReplaced, RightsSeen, UnderWay, Signed, TypeOK, Advance
  <2>7. CASE FailFlow(f)
    BY <2>7
    DEF FailFlow, RightsSeen, UnderWay, Signed, TypeOK, Advance
  <2> QED
    BY <1>1, <2>1, <2>2, <2>3, <2>4, <2>5, <2>6, <2>7 DEF Flow
<1>2. ASSUME NEW t \in Flows, Token(t) PROVE RightsSeen'
  <2>1. CASE RevokeSession(t)
    BY <2>1
    DEF RevokeSession, RightsSeen, UnderWay, Signed, TypeOK
  <2>2. CASE DeleteSession(t)
    BY <2>2
    DEF DeleteSession, RightsSeen, UnderWay, Signed, TypeOK
  <2>3. CASE Expire(t)
    BY <2>3
    DEF Expire, RightsSeen, UnderWay, Signed, TypeOK
  <2>4. CASE LapseRow(t)
    BY <2>4
    DEF LapseRow, RightsSeen, UnderWay, Signed, TypeOK
  <2>5. CASE PruneRevoked(t)
    BY <2>5
    DEF PruneRevoked, RightsSeen, UnderWay, Signed, TypeOK
  <2> QED
    BY <1>2, <2>1, <2>2, <2>3, <2>4, <2>5 DEF Token
<1>3. ASSUME NEW u \in Users, Account(u) PROVE RightsSeen'
  <2>1. CASE LogoutAll(u)
    BY <2>1
    DEF LogoutAll, RightsSeen, UnderWay, Signed, TypeOK
  <2>2. CASE UpdatePassword(u)
    BY <2>2
    DEF UpdatePassword, RightsSeen, UnderWay, Signed, TypeOK
  <2>3. CASE DeleteSessions(u)
    BY <2>3
    DEF DeleteSessions, RightsSeen, UnderWay, Signed, TypeOK
  <2>4. CASE LapseCache(u)
    BY <2>4
    DEF LapseCache, RightsSeen, UnderWay, Signed, TypeOK
  <2>5. ASSUME NEW rights \in Levels, SetUserGroups(u, rights) PROVE RightsSeen'
    BY <2>5
    DEF SetUserGroups, RightsSeen, UnderWay, Signed, TypeOK
  <2> QED
    BY <1>3, <2>1, <2>2, <2>3, <2>4, <2>5 DEF Account
<1>4. ASSUME NEW w \in Writers, WriteCache(w) PROVE RightsSeen'
  <2>1. ASSUME NEW u \in Users, ReadBan(w, u) PROVE RightsSeen'
    BY <2>1
    DEF ReadBan, RightsSeen, UnderWay, Signed, TypeOK
  <2>2. ASSUME NEW u \in Users, NEW ban \in BOOLEAN, SetUserBanned(w, u, ban) PROVE RightsSeen'
    BY <2>2
    DEF SetUserBanned, RightsSeen, UnderWay, Signed, TypeOK
  <2>3. CASE CacheBan(w)
    BY <2>3
    DEF CacheBan, RightsSeen, UnderWay, Signed, TypeOK
  <2> QED
    BY <1>4, <2>1, <2>2, <2>3 DEF WriteCache
<1>5. CASE Restart
  BY <1>5
  DEF Restart, RightsSeen, UnderWay, Signed, TypeOK
<1>6. CASE FailReads
  BY <1>6
  DEF FailReads, RightsSeen, UnderWay, Signed, TypeOK
<1>7. CASE UNCHANGED vars
  BY <1>7 DEF vars, RightsSeen, UnderWay, Signed, TypeOK
<1> QED
  BY <1>1, <1>2, <1>3, <1>4, <1>5, <1>6, <1>7 DEF Next

\* Every step keeps the order in which a token dies.
LEMMA DeathStep ==
  ASSUME TypeOK, Replaces, DeadBeforeDeleted, [Next]_vars
  PROVE  DeadBeforeDeleted'
<1>1. ASSUME NEW f \in Flows, Flow(f) PROVE DeadBeforeDeleted'
  <2>1. CASE CheckPassword(f)
    BY <2>1
    DEF CheckPassword, DeadBeforeDeleted, Dead, Replaces, TypeOK, Advance, Start
  <2>2. CASE SignToken(f)
    BY <2>2
    DEF SignToken, DeadBeforeDeleted, Dead, Replaces, TypeOK, Advance
  <2>3. CASE InsertSession(f)
    BY <2>3
    DEF InsertSession, DeadBeforeDeleted, Dead, Replaces, TypeOK, Advance
  <2>4. ASSUME NEW t \in Flows, BeginRefresh(f, t) PROVE DeadBeforeDeleted'
    BY <2>4
    DEF BeginRefresh, DeadBeforeDeleted, Dead, Replaces, TypeOK, Advance, Start
  <2>5. CASE RevokeReplaced(f)
    BY <2>5
    DEF RevokeReplaced, DeadBeforeDeleted, Dead, Replaces, TypeOK, Advance,
        Replaced, Verified
  <2>6. CASE DeleteReplaced(f)
    BY <2>6
    DEF DeleteReplaced, DeadBeforeDeleted, Dead, Replaces, TypeOK, Advance
  <2>7. CASE FailFlow(f)
    BY <2>7
    DEF FailFlow, DeadBeforeDeleted, Dead, Replaces, TypeOK, Advance
  <2> QED
    BY <1>1, <2>1, <2>2, <2>3, <2>4, <2>5, <2>6, <2>7 DEF Flow
<1>2. ASSUME NEW t \in Flows, Token(t) PROVE DeadBeforeDeleted'
  <2>1. CASE RevokeSession(t)
    BY <2>1
    DEF RevokeSession, DeadBeforeDeleted, Dead, Replaces, TypeOK, Verified
  <2>2. CASE DeleteSession(t)
    BY <2>2
    DEF DeleteSession, DeadBeforeDeleted, Dead, Replaces, TypeOK
  <2>3. CASE Expire(t)
    BY <2>3
    DEF Expire, DeadBeforeDeleted, Dead, Replaces, TypeOK
  <2>4. CASE LapseRow(t)
    BY <2>4
    DEF LapseRow, DeadBeforeDeleted, Dead, Replaces, TypeOK
  <2>5. CASE PruneRevoked(t)
    BY <2>5
    DEF PruneRevoked, DeadBeforeDeleted, Dead, Replaces, TypeOK
  <2> QED
    BY <1>2, <2>1, <2>2, <2>3, <2>4, <2>5 DEF Token
<1>3. ASSUME NEW u \in Users, Account(u) PROVE DeadBeforeDeleted'
  <2>1. CASE LogoutAll(u)
    BY <2>1, RowsDie
    DEF LogoutAll, DeadBeforeDeleted, Dead, Replaces, TypeOK
  <2>2. CASE UpdatePassword(u)
    BY <2>2
    DEF UpdatePassword, DeadBeforeDeleted, Dead, Replaces, TypeOK
  <2>3. CASE DeleteSessions(u)
    BY <2>3, RowsDie
    DEF DeleteSessions, DeadBeforeDeleted, Dead, Replaces, TypeOK
  <2>4. CASE LapseCache(u)
    BY <2>4
    DEF LapseCache, DeadBeforeDeleted, Dead, Replaces, TypeOK
  <2>5. ASSUME NEW rights \in Levels, SetUserGroups(u, rights) PROVE DeadBeforeDeleted'
    BY <2>5
    DEF SetUserGroups, DeadBeforeDeleted, Dead, Replaces, TypeOK
  <2> QED
    BY <1>3, <2>1, <2>2, <2>3, <2>4, <2>5 DEF Account
<1>4. ASSUME NEW w \in Writers, WriteCache(w) PROVE DeadBeforeDeleted'
  <2>1. ASSUME NEW u \in Users, ReadBan(w, u) PROVE DeadBeforeDeleted'
    BY <2>1
    DEF ReadBan, DeadBeforeDeleted, Dead, Replaces, TypeOK
  <2>2. ASSUME NEW u \in Users, NEW ban \in BOOLEAN, SetUserBanned(w, u, ban) PROVE DeadBeforeDeleted'
    BY <2>2, RowsDie
    DEF SetUserBanned, DeadBeforeDeleted, Dead, Replaces, TypeOK
  <2>3. CASE CacheBan(w)
    BY <2>3
    DEF CacheBan, DeadBeforeDeleted, Dead, Replaces, TypeOK
  <2> QED
    BY <1>4, <2>1, <2>2, <2>3 DEF WriteCache
<1>5. CASE Restart
  BY <1>5
  DEF Restart, DeadBeforeDeleted, Dead, Replaces, TypeOK
<1>6. CASE FailReads
  BY <1>6
  DEF FailReads, DeadBeforeDeleted, Dead, Replaces, TypeOK
<1>7. CASE UNCHANGED vars
  BY <1>7 DEF vars, DeadBeforeDeleted, Dead, Replaces, TypeOK
<1> QED
  BY <1>1, <1>2, <1>3, <1>4, <1>5, <1>6, <1>7 DEF Next

-----------------------------------------------------------------------------
\* Type correctness is inductive together with Replaces: a refresh revokes and
\* deletes the token it replaces.
LEMMA Shape == Spec => [](TypeOK /\ Replaces)
<1>1. Init => TypeOK
  <2> SUFFICES ASSUME Init PROVE TypeOK
    OBVIOUS
  <2>1. failing \in BOOLEAN
    BY Zenon DEF Init
  <2> QED
    BY <2>1 DEF Init, TypeOK, FlowSteps, Levels
<1>2. Init => Replaces
  BY DEF Init, Replaces
<1>3. TypeOK /\ Replaces /\ [Next]_vars => TypeOK' /\ Replaces'
  BY TypeStep, ReplacesStep
<1> QED
  BY <1>1, <1>2, <1>3, PTL DEF Spec

\* Type correctness of sessions: the rows, the revocation set and the ban
\* cache keep the shape that the store and the token issuer give them.
THEOREM TypeCorrect == Spec => []TypeOK
BY Shape, PTL

\* A refresh never continues rights that the account had lost before it began:
\* a token carries rights its account had while its flow was under way
\* (Refresh reads the groups again instead of copying the old claims).
THEOREM NoStaleRights == Spec => []RenewalDropsRights
<1>1. Init => RightsSeen
  BY DEF Init, RightsSeen, UnderWay, Signed
<1>2. TypeOK /\ RightsSeen /\ [Next]_vars => RightsSeen'
  BY RightsStep
<1>3. RightsSeen => RenewalDropsRights
  BY DEF RightsSeen, RenewalDropsRights, Signed
<1> QED
  BY <1>1, <1>2, <1>3, TypeCorrect, PTL DEF Spec

\* In this process a token that is dead stays dead.
LEMMA DeadStep ==
  ASSUME TypeOK, [Next]_vars, restarts' = restarts, NEW t \in Flows, Dead(t)
  PROVE  Dead(t)'
<1>1. expired \subseteq expired'
  BY
  DEF Next, Flow, CheckPassword, SignToken, InsertSession, BeginRefresh, RevokeReplaced,
      DeleteReplaced, FailFlow, Token, RevokeSession, DeleteSession, Expire, LapseRow,
      PruneRevoked, Account, LogoutAll, UpdatePassword, DeleteSessions, LapseCache,
      SetUserGroups, WriteCache, ReadBan, SetUserBanned, CacheBan, FailReads, Restart, vars
<1>2. revoked \ expired \subseteq revoked'
  <2>1. CASE Restart
    BY <2>1 DEF Restart, TypeOK
  <2>2. CASE ~Restart
    BY <2>2
    DEF Next, Flow, CheckPassword, SignToken, InsertSession, BeginRefresh, RevokeReplaced,
        DeleteReplaced, FailFlow, Token, RevokeSession, DeleteSession, Expire, LapseRow,
        PruneRevoked, Account, LogoutAll, UpdatePassword, DeleteSessions, LapseCache,
        SetUserGroups, WriteCache, ReadBan, SetUserBanned, CacheBan, FailReads, vars
  <2> QED
    BY <2>1, <2>2
<1> QED
  BY <1>1, <1>2 DEF Dead

\* A token is dead when it is counted as ended.
LEMMA EndsDead ==
  ASSUME TypeOK, Replaces, DeadBeforeDeleted, [Next]_vars, NEW t \in ended' \ ended
  PROVE  Dead(t)'
<1>1. CASE \E f \in Flows : DeleteReplaced(f)
  BY <1>1 DEF DeleteReplaced, DeadBeforeDeleted, Dead, TypeOK
<1>2. CASE \E x \in Flows : DeleteSession(x)
  BY <1>2 DEF DeleteSession, DeadBeforeDeleted, Dead, TypeOK
<1>3. CASE UNCHANGED ended
  BY <1>3
<1> QED
  BY <1>1, <1>2, <1>3
  DEF Next, Flow, CheckPassword, SignToken, InsertSession, BeginRefresh, RevokeReplaced,
      FailFlow, Token, RevokeSession, Expire, LapseRow, PruneRevoked, Account, LogoutAll,
      UpdatePassword, DeleteSessions, LapseCache, SetUserGroups, WriteCache, ReadBan,
      SetUserBanned, CacheBan, FailReads, Restart, vars

\* A token that was logged out or replaced has no row, and a process that has ended
\* it, or that refuses it, accepts it never again (Logout and Refresh revoke in
\* memory before they delete the row).
THEOREM Ended == Spec => EndedStaysEnded
<1>1. Init => DeadBeforeDeleted
  BY DEF Init, DeadBeforeDeleted
<1>2. TypeOK /\ Replaces /\ DeadBeforeDeleted /\ [Next]_vars => DeadBeforeDeleted'
  BY DeathStep
<1>3. ASSUME TypeOK, Replaces, DeadBeforeDeleted, TypeOK', DeadBeforeDeleted', [Next]_vars,
             NEW t \in ended'
      PROVE  /\ row'[t] # "live"
             /\ Verified(t)' => restarts' # restarts \/ (t \in ended /\ Verified(t))
  <2>1. row'[t] # "live" /\ t \in Flows
    BY <1>3 DEF DeadBeforeDeleted, TypeOK
  <2>2. CASE t \notin ended
    BY <1>3, <2>1, <2>2, EndsDead DEF Dead, Verified
  <2>3. ASSUME t \in ended, restarts' = restarts, ~Verified(t)
        PROVE  ~Verified(t)'
    <3>1. Dead(t)
      BY <1>3, <2>3 DEF DeadBeforeDeleted, Verified, Dead
    <3>2. Dead(t)'
      BY <1>3, <2>1, <2>3, <3>1, DeadStep
    <3> QED
      BY <3>2 DEF Verified, Dead
  <2> QED
    BY <2>1, <2>2, <2>3
<1>4. TypeOK /\ Replaces /\ DeadBeforeDeleted /\ TypeOK' /\ DeadBeforeDeleted' /\ [Next]_vars =>
        [\A t \in ended' :
           /\ row'[t] # "live"
           /\ Verified(t)' => restarts' # restarts \/ (t \in ended /\ Verified(t))]_vars
  BY <1>3
<1> QED
  BY <1>1, <1>2, <1>4, Shape, PTL DEF Spec, EndedStaysEnded

-----------------------------------------------------------------------------
(* The ban and its cache. *)

\* A token of a banned account is refused if the cache does not say "not banned" and
\* a read of the ban succeeds.
LEMMA BannedRefused ==
  ASSUME TypeOK, NEW u \in Users, u \in banned, cache[u] # "clear", ~failing,
         NEW t \in Flows, owner[t] = u
  PROVE  ~Authenticates(t)
BY DEF Authenticates, IsBanned, TypeOK

\* Writing "not banned" is not the same as writing nothing.
LEMMA StaleWrites ==
  ASSUME NEW u \in Users
  PROVE  [user |-> u, banned |-> FALSE] # NoWrite
<1>1. [user |-> u, banned |-> FALSE] \in [user : Users, banned : BOOLEAN]
  OBVIOUS
<1> QED
  BY <1>1

\* What one request does to the cache entry and the pending writes of an account
\* whose ban stands.
LEMMA CacheStep ==
  ASSUME TypeOK, NEW w \in Writers, WriteCache(w), NEW u \in banned, u \in banned'
  PROVE  /\ Stale(u)' \subseteq Stale(u)
         /\ cache'[u] = "clear" => cache[u] = "clear" \/ Stale(u) # {}
<1>0. u \in Users
  BY DEF TypeOK
<1>1. ASSUME NEW v \in Users, ReadBan(w, v) PROVE Stale(u)' \subseteq Stale(u) /\ cache' = cache
  <2>1. cache' = cache /\ pending' = [pending EXCEPT ![w] = [user |-> v, banned |-> v \in banned]]
    <3>1. ~failing
      BY <1>1 DEF ReadBan, Cacheable
    <3>2. Found(v) <=> v \in banned
      BY <3>1 DEF Found
    <3>3. Found(v) = (v \in banned)
      <4>1. Found(v) \in BOOLEAN
        BY Zenon DEF Found
      <4> QED
        BY <3>2, <4>1
    <3> QED
      BY <1>1, <3>3, Zenon DEF ReadBan
  <2>2. \A x \in Writers : x # w => pending'[x] = pending[x]
    BY <2>1 DEF TypeOK
  <2>3. pending'[w] # [user |-> u, banned |-> FALSE]
    <3>1. pending'[w] = [user |-> v, banned |-> v \in banned]
      BY <2>1 DEF TypeOK
    <3>2. CASE v = u
      <4>1. pending'[w] = [user |-> u, banned |-> TRUE]
        BY <3>1, <3>2, Zenon
      <4> QED
        BY <4>1
    <3>3. CASE v # u
      <4>1. pending'[w].user = v
        BY <3>1
      <4> QED
        BY <3>3, <4>1
    <3> QED
      BY <3>2, <3>3
  <2> QED
    BY <2>1, <2>2, <2>3 DEF Stale
<1>2. ASSUME NEW v \in Users, NEW ban \in BOOLEAN, SetUserBanned(w, v, ban)
      PROVE  Stale(u)' \subseteq Stale(u) /\ cache' = cache
  <2>1. cache' = cache /\ pending' = [pending EXCEPT ![w] = [user |-> v, banned |-> ban]]
    BY <1>2 DEF SetUserBanned
  <2>2. \A x \in Writers : x # w => pending'[x] = pending[x]
    BY <2>1 DEF TypeOK
  <2>3. pending'[w] # [user |-> u, banned |-> FALSE]
    <3>1. pending'[w] = [user |-> v, banned |-> ban]
      BY <2>1 DEF TypeOK
    <3>2. v = u => ban
      BY <1>2 DEF SetUserBanned
    <3> QED
      BY <3>1, <3>2
  <2> QED
    BY <2>1, <2>2, <2>3 DEF Stale
<1>3. CASE CacheBan(w)
  <2>1. Stale(u)' \subseteq Stale(u)
    BY <1>0, <1>3, StaleWrites DEF CacheBan, Stale, TypeOK
  <2>2. ASSUME cache'[u] = "clear", cache[u] # "clear" PROVE w \in Stale(u)
    <3>1. pending[w] \in Writes
      BY <1>3 DEF CacheBan, TypeOK
    <3>2. cache' = [cache EXCEPT ![pending[w].user] = Entry(pending[w].banned)]
      BY <1>3 DEF CacheBan
    <3>3. pending[w].user = u /\ Entry(pending[w].banned) = "clear"
      BY <1>0, <2>2, <3>2 DEF TypeOK
    <3>4. pending[w].banned = FALSE
      BY <3>1, <3>3 DEF Entry, Writes
    <3>5. pending[w] = [user |-> u, banned |-> FALSE]
      BY <3>1, <3>3, <3>4 DEF Writes
    <3> QED
      BY <3>5 DEF Stale
  <2> QED
    BY <2>1, <2>2
<1> QED
  BY <1>1, <1>2, <1>3 DEF WriteCache

\* While a ban stands, no new request starts to write its opposite: neither a read
\* that overlaps it or fails nor a restart; the cache comes to say "not banned" only by
\* the hand of one that had read before, and where it does not say so, only a failing
\* read of the ban lets a token of the account through (Authenticate, IsBanned).
THEOREM BanDelayed == Spec => BanOnlyDelayed
<1>1. ASSUME TypeOK, TypeOK', [Next]_vars, NEW u \in banned, u \in banned'
      PROVE  /\ Stale(u)' \subseteq Stale(u)
             /\ cache'[u] = "clear" => cache[u] = "clear" \/ Stale(u) # {}
             /\ cache'[u] # "clear" /\ ~failing' => \A t \in Flows : owner'[t] = u => ~Authenticates(t)'
  <2>0. u \in Users
    BY <1>1 DEF TypeOK
  <2>1. /\ Stale(u)' \subseteq Stale(u)
        /\ cache'[u] = "clear" => cache[u] = "clear" \/ Stale(u) # {}
    <3>1. CASE \E w \in Writers : WriteCache(w)
      BY <1>1, <3>1, CacheStep
    <3>2. CASE Restart
      BY <2>0, <3>2, StaleWrites DEF Restart, Stale
    <3>3. ASSUME NEW v \in Users, LapseCache(v)
          PROVE  pending' = pending /\ (cache'[u] = "clear" => cache[u] = "clear")
      BY <1>1, <2>0, <3>3 DEF LapseCache, TypeOK
    <3>4. CASE UNCHANGED <<cache, pending>>
      BY <3>4 DEF Stale
    <3>5. \/ UNCHANGED <<cache, pending>> \/ Restart
          \/ \E v \in Users : LapseCache(v)
          \/ \E w \in Writers : WriteCache(w)
      BY <1>1
      DEF Next, Flow, CheckPassword, SignToken, InsertSession, BeginRefresh, RevokeReplaced,
          DeleteReplaced, FailFlow, Token, RevokeSession, DeleteSession, Expire, LapseRow,
          PruneRevoked, Account, LogoutAll, UpdatePassword, DeleteSessions, SetUserGroups,
          FailReads, vars
    <3> QED
      BY <3>1, <3>2, <3>3, <3>4, <3>5 DEF Stale
  <2>2. cache'[u] # "clear" /\ ~failing' => \A t \in Flows : owner'[t] = u => ~Authenticates(t)'
    BY <1>1, <2>0, BannedRefused DEF Authenticates, IsBanned, Verified, TypeOK
  <2> QED
    BY <2>1, <2>2
<1>2. TypeOK /\ TypeOK' /\ [Next]_vars =>
        [\A u \in banned \cap banned' :
           /\ Stale(u)' \subseteq Stale(u)
           /\ cache'[u] = "clear" => cache[u] = "clear" \/ Stale(u) # {}
           /\ cache'[u] # "clear" /\ ~failing' => \A t \in Flows : owner'[t] = u => ~Authenticates(t)']_vars
  BY <1>1
<1> QED
  BY <1>2, TypeCorrect, PTL DEF Spec, BanOnlyDelayed
=============================================================================
