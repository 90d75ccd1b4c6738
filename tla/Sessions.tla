------------------------------ MODULE Sessions ------------------------------
(***************************************************************************)
(* Site sessions.  A login or a refresh hands out an RS256 token that is   *)
(* accepted without the database until it expires or this process has      *)
(* revoked it, and inserts a row that keeps the session alive afterwards.  *)
(* Logout, logout-all, a password change and a ban end sessions; a cache   *)
(* of ban states stands between a token and the database.                  *)
(*                                                                         *)
(* Every statement and every access to the memory of the process is one    *)
(* step.  A token is named by the flow (login or refresh) that signs it.   *)
(***************************************************************************)
EXTENDS Naturals

CONSTANTS
  Users,
  Flows,        \* POST /auth/login and POST /auth/refresh requests
  Writers,      \* requests about to write the ban cache
  NoToken, NoWrite,
  MaxChanges,   \* bound on the password changes of an account
  MaxRestarts   \* bound on the restarts of the process

ASSUME SessionAssumption ==
  /\ MaxChanges \in Nat /\ MaxRestarts \in Nat
  /\ NoToken \notin Flows
  /\ NoWrite \notin [user : Users, banned : BOOLEAN]

VARIABLES
  banned,    \* accounts with auth.users.banned
  level,     \* the rights the groups of an account give it
  password,  \* how often the password of an account was changed
  changing,  \* accounts whose password is changed and sessions not yet deleted
  pc,        \* where a flow stands
  owner,     \* its account
  from,      \* the token a refresh presented
  claim,     \* the rights in the token it signed
  chain,     \* the password its chain of tokens began with
  began,     \* history: how often the password had changed when the flow began
  seen,      \* history: the rights of the account while the flow was under way
  row,       \* the state of its row in auth.sessions
  expired,   \* tokens past AccessTokenTTL
  revoked,   \* TokenIssuer.revoked
  leaving,   \* tokens revoked by a logout whose row is not yet deleted
  ended,     \* history: tokens that were logged out or rotated away
  cache,     \* Store.bannedCache
  pending,   \* what a request will write to it
  failing,   \* reads of auth.users.banned fail, and only cached bans are known
  restarts

accountVars == <<banned, level, password, changing>>
flowVars == <<pc, owner, from, claim, chain, began, seen>>
memoryVars == <<revoked, cache, pending, failing>>
vars == <<accountVars, flowVars, row, expired, leaving, ended, memoryVars, restarts>>

-----------------------------------------------------------------------------
Levels == {"admin", "member"}
LoginSteps == {"checked", "loaded"}
RefreshSteps == {"admitted", "renewed", "voided", "deleted"}
FlowSteps == {"idle", "done", "failed"} \cup LoginSteps \cup RefreshSteps
Writes == [user : Users, banned : BOOLEAN]

TypeOK ==
  /\ banned \in SUBSET Users
  /\ level \in [Users -> Levels]
  /\ password \in [Users -> 0 .. MaxChanges]
  /\ changing \in SUBSET Users
  /\ pc \in [Flows -> FlowSteps]
  /\ owner \in [Flows -> Users]
  /\ from \in [Flows -> Flows \cup {NoToken}]
  /\ claim \in [Flows -> Levels]
  /\ chain \in [Flows -> 0 .. MaxChanges]
  /\ began \in [Flows -> 0 .. MaxChanges]
  /\ seen \in [Flows -> SUBSET Levels]
  /\ row \in [Flows -> {"none", "live", "gone"}]
  /\ expired \in SUBSET Flows
  /\ revoked \in SUBSET Flows
  /\ leaving \in SUBSET Flows
  /\ ended \in SUBSET Flows
  /\ cache \in [Users -> {"unknown", "clear", "banned"}]
  /\ pending \in [Writers -> Writes \cup {NoWrite}]
  /\ failing \in BOOLEAN
  /\ restarts \in 0 .. MaxRestarts

-----------------------------------------------------------------------------
\* TokenIssuer.Verify: signed, not expired, not revoked in this process.
Verified(t) == pc[t] = "done" /\ t \notin expired \cup revoked

\* IsBanned, as Authenticate takes its answer: the cache answers while its entry
\* lasts, then the database; a read that fails refuses nobody.
IsBanned(u) ==
  \/ cache[u] = "banned"
  \/ cache[u] = "unknown" /\ ~failing /\ u \in banned

\* Authenticate: a verified token is refused for a ban only; any other token
\* needs its row in auth.sessions.
Authenticates(t) ==
  IF Verified(t) THEN ~IsBanned(owner[t])
  ELSE row[t] = "live" /\ owner[t] \notin banned

\* The rows of account u, deleted.
RowsWithout(u) ==
  [t \in Flows |-> IF row[t] = "live" /\ owner[t] = u THEN "gone" ELSE row[t]]

Init ==
  /\ banned = {}
  /\ level = [u \in Users |-> "admin"]
  /\ password = [u \in Users |-> 0]
  /\ changing = {}
  /\ pc = [f \in Flows |-> "idle"]
  /\ owner \in [Flows -> Users]
  /\ from = [f \in Flows |-> NoToken]
  /\ claim = [f \in Flows |-> "member"]
  /\ chain = [f \in Flows |-> 0]
  /\ began = [f \in Flows |-> 0]
  /\ seen = [f \in Flows |-> {}]
  /\ row = [f \in Flows |-> "none"]
  /\ expired = {}
  /\ revoked = {}
  /\ leaving = {}
  /\ ended = {}
  /\ cache = [u \in Users |-> "unknown"]
  /\ pending = [w \in Writers |-> NoWrite]
  /\ failing = FALSE
  /\ restarts = 0

Advance(f, step) == pc' = [pc EXCEPT ![f] = step]

Start(f, u) ==
  /\ began' = [began EXCEPT ![f] = password[u]]
  /\ seen' = [seen EXCEPT ![f] = {level[u]}]

-----------------------------------------------------------------------------
(* Login. *)

\* One SELECT reads the password hash and the ban.
CheckPassword(f) ==
  /\ pc[f] = "idle"
  /\ owner[f] \notin banned
  /\ Advance(f, "checked")
  /\ chain' = [chain EXCEPT ![f] = password[owner[f]]]
  /\ Start(f, owner[f])
  /\ UNCHANGED <<accountVars, owner, from, claim, row, expired, leaving, ended, memoryVars,
                 restarts>>

\* Variant with a fault: a renewed token takes the rights of the one it replaces.
RightsOld(f) == IF from[f] = NoToken THEN level[owner[f]] ELSE claim[from[f]]

\* WithAccess: the rights of the account as the database has them now.
Rights(f) == level[owner[f]]

\* WithAccess and issueSessionToken, for a login and for a refresh.
SignToken(f) ==
  /\ \/ pc[f] = "checked" /\ Advance(f, "loaded")
     \/ pc[f] = "admitted" /\ Advance(f, "renewed")
  /\ claim' = [claim EXCEPT ![f] = Rights(f)]
  /\ UNCHANGED <<accountVars, owner, from, chain, began, seen, row, expired, leaving, ended,
                 memoryVars, restarts>>

\* INSERT INTO auth.sessions; the token is handed out.
InsertSession(f) ==
  /\ pc[f] \in {"loaded", "deleted"}
  /\ Advance(f, "done")
  /\ row' = [row EXCEPT ![f] = "live"]
  /\ UNCHANGED <<accountVars, owner, from, claim, chain, began, seen, expired, leaving, ended,
                 memoryVars, restarts>>

-----------------------------------------------------------------------------
(* Refresh: admitted by Authenticate, signs, revokes, deletes, inserts. *)

BeginRefresh(f, t) ==
  /\ pc[f] = "idle"
  /\ pc[t] = "done"
  /\ Authenticates(t)
  /\ Advance(f, "admitted")
  /\ owner' = [owner EXCEPT ![f] = owner[t]]
  /\ from' = [from EXCEPT ![f] = t]
  /\ chain' = [chain EXCEPT ![f] = chain[t]]
  /\ Start(f, owner[t])
  /\ UNCHANGED <<accountVars, claim, row, expired, leaving, ended, memoryVars, restarts>>

\* Variant with a fault: the token just signed is revoked.
ReplacedNew(f) == f

\* The token that a refresh replaces.
Replaced(f) == from[f]

\* RevokeToken: nothing is recorded of a token that no longer verifies.
RevokeReplaced(f) ==
  /\ pc[f] = "renewed"
  /\ Advance(f, "voided")
  /\ revoked' = IF Verified(Replaced(f)) THEN revoked \cup {Replaced(f)} ELSE revoked
  /\ UNCHANGED <<accountVars, owner, from, claim, chain, began, seen, row, expired, leaving, ended,
                 cache, pending, failing, restarts>>

DeleteReplaced(f) ==
  /\ pc[f] = "voided"
  /\ Advance(f, "deleted")
  /\ row' = [row EXCEPT ![from[f]] = "gone"]
  /\ ended' = ended \cup {from[f]}
  /\ UNCHANGED <<accountVars, owner, from, claim, chain, began, seen, expired, leaving, memoryVars,
                 restarts>>

\* A statement of a login or a refresh fails.
FailFlow(f) ==
  /\ pc[f] \in LoginSteps \cup RefreshSteps
  /\ Advance(f, "failed")
  /\ UNCHANGED <<accountVars, owner, from, claim, chain, began, seen, row, expired, leaving, ended,
                 memoryVars, restarts>>

-----------------------------------------------------------------------------
(* The end of a session. *)

\* Logout, first the memory and then the row.
RevokeSession(t) ==
  /\ pc[t] = "done"
  /\ Authenticates(t)
  /\ revoked' = IF Verified(t) THEN revoked \cup {t} ELSE revoked
  /\ leaving' = leaving \cup {t}
  /\ UNCHANGED <<accountVars, flowVars, row, expired, ended, cache, pending, failing, restarts>>

DeleteSession(t) ==
  /\ t \in leaving
  /\ leaving' = leaving \ {t}
  /\ row' = [row EXCEPT ![t] = "gone"]
  /\ ended' = ended \cup {t}
  /\ UNCHANGED <<accountVars, flowVars, expired, memoryVars, restarts>>

LogoutAll(u) ==
  /\ \E t \in Flows : pc[t] = "done" /\ owner[t] = u /\ Authenticates(t)
  /\ row' = RowsWithout(u)
  /\ UNCHANGED <<accountVars, flowVars, expired, leaving, ended, memoryVars, restarts>>

\* ChangePassword and ResetUserPassword: two statements outside a transaction.
UpdatePassword(u) ==
  /\ password[u] < MaxChanges
  /\ password' = [password EXCEPT ![u] = @ + 1]
  /\ changing' = changing \cup {u}
  /\ UNCHANGED <<banned, level, flowVars, row, expired, leaving, ended, memoryVars, restarts>>

DeleteSessions(u) ==
  /\ u \in changing
  /\ changing' = changing \ {u}
  /\ row' = RowsWithout(u)
  /\ UNCHANGED <<banned, level, password, flowVars, expired, leaving, ended, memoryVars,
                 restarts>>

\* An administrator puts the account into other groups.
SetUserGroups(u, rights) ==
  /\ level[u] # rights
  /\ level' = [level EXCEPT ![u] = rights]
  /\ seen' = [f \in Flows |->
                IF owner[f] = u /\ pc[f] \in LoginSteps \cup RefreshSteps
                THEN seen[f] \cup {rights} ELSE seen[f]]
  /\ UNCHANGED <<banned, password, changing, pc, owner, from, claim, chain, began, row, expired,
                 leaving, ended, memoryVars, restarts>>

\* The token is fifteen minutes old.
Expire(t) ==
  /\ pc[t] = "done"
  /\ t \notin expired
  /\ expired' = expired \cup {t}
  /\ UNCHANGED <<accountVars, flowVars, row, leaving, ended, memoryVars, restarts>>

\* The row is a day old.
LapseRow(t) ==
  /\ row[t] = "live"
  /\ t \in expired
  /\ row' = [row EXCEPT ![t] = "gone"]
  /\ UNCHANGED <<accountVars, flowVars, expired, leaving, ended, memoryVars, restarts>>

\* Verify meets a lapsed entry.
PruneRevoked(t) ==
  /\ t \in revoked \cap expired
  /\ revoked' = revoked \ {t}
  /\ UNCHANGED <<accountVars, flowVars, row, expired, leaving, ended, cache, pending, failing, restarts>>

-----------------------------------------------------------------------------
(* Bans and their cache. *)

\* The transaction of SetUserBanned; a ban deletes the sessions.
SetUserBanned(w, u, ban) ==
  /\ pending[w] = NoWrite
  /\ banned' = IF ban THEN banned \cup {u} ELSE banned \ {u}
  /\ row' = IF ban THEN RowsWithout(u) ELSE row
  /\ pending' = [pending EXCEPT ![w] = [user |-> u, banned |-> ban]]
  /\ UNCHANGED <<level, password, changing, flowVars, expired, leaving, ended, revoked, cache,
                 failing, restarts>>

\* What the read leaves in IsBanned's variable: nothing found is "not banned".
Found(u) == ~failing /\ u \in banned

\* Variant with a fault: what a failed read left is cached as well.
CacheableAlways == TRUE

\* Only the answer of a read that succeeded is cached.
Cacheable == ~failing

\* IsBanned misses the cache and reads the database.
ReadBan(w, u) ==
  /\ pending[w] = NoWrite
  /\ cache[u] = "unknown"
  /\ Cacheable
  /\ pending' = [pending EXCEPT ![w] = [user |-> u, banned |-> Found(u)]]
  /\ UNCHANGED <<accountVars, flowVars, row, expired, leaving, ended, revoked, cache, failing,
                 restarts>>

\* Reads of the ban begin to fail, or succeed again.
FailReads ==
  /\ failing' = ~failing
  /\ UNCHANGED <<accountVars, flowVars, row, expired, leaving, ended, revoked, cache, pending,
                 restarts>>

\* Variant with a fault: an entry that no reader of the cache knows.
EntryRaw(b) == IF b THEN "banned" ELSE "lapsed"

\* An entry of the cache.
Entry(b) == IF b THEN "banned" ELSE "clear"

\* cacheBan, after a commit or after a read: the last one to come wins.
CacheBan(w) ==
  /\ pending[w] # NoWrite
  /\ cache' = [cache EXCEPT ![pending[w].user] = Entry(pending[w].banned)]
  /\ pending' = [pending EXCEPT ![w] = NoWrite]
  /\ UNCHANGED <<accountVars, flowVars, row, expired, leaving, ended, revoked, failing, restarts>>

\* Variant with a fault: entries that say "not banned" are kept.
LapsingBanned(u) == cache[u] = "banned"

\* Every entry has bannedCacheTTL.
Lapsing(u) == cache[u] # "unknown"

LapseCache(u) ==
  /\ Lapsing(u)
  /\ cache' = [cache EXCEPT ![u] = "unknown"]
  /\ UNCHANGED <<accountVars, flowVars, row, expired, leaving, ended, revoked, pending, failing,
                 restarts>>

\* The process ends and starts again: its memory is gone and so are the
\* requests; the signing key stays.
Restart ==
  /\ restarts < MaxRestarts
  /\ restarts' = restarts + 1
  /\ pc' = [f \in Flows |-> IF pc[f] \in LoginSteps \cup RefreshSteps THEN "failed" ELSE pc[f]]
  /\ changing' = {}
  /\ leaving' = {}
  /\ revoked' = {}
  /\ cache' = [u \in Users |-> "unknown"]
  /\ pending' = [w \in Writers |-> NoWrite]
  /\ UNCHANGED <<banned, level, password, owner, from, claim, chain, began, seen, row, expired,
                 ended, failing>>

-----------------------------------------------------------------------------
Flow(f) ==
  \/ CheckPassword(f) \/ SignToken(f) \/ InsertSession(f)
  \/ (\E t \in Flows : BeginRefresh(f, t))
  \/ RevokeReplaced(f) \/ DeleteReplaced(f) \/ FailFlow(f)

Token(t) ==
  RevokeSession(t) \/ DeleteSession(t) \/ Expire(t) \/ LapseRow(t) \/ PruneRevoked(t)

Account(u) ==
  \/ LogoutAll(u) \/ UpdatePassword(u) \/ DeleteSessions(u) \/ LapseCache(u)
  \/ \E rights \in Levels : SetUserGroups(u, rights)

WriteCache(w) ==
  \/ \E u \in Users : ReadBan(w, u) \/ SetUserBanned(w, u, TRUE) \/ SetUserBanned(w, u, FALSE)
  \/ CacheBan(w)

Next ==
  \/ \E f \in Flows : Flow(f) \/ Token(f)
  \/ \E u \in Users : Account(u)
  \/ \E w \in Writers : WriteCache(w)
  \/ FailReads
  \/ Restart

Spec == Init /\ [][Next]_vars

\* A request that is about to write the cache writes it; time passes.
Fairness ==
  /\ \A w \in Writers : WF_vars(CacheBan(w))
  /\ \A u \in Users : WF_vars(LapseCache(u))

FairSpec == Spec /\ Fairness

-----------------------------------------------------------------------------
(* Safety. *)

\* A token that was logged out, or that a refresh replaced, is dead, whatever
\* ran at the same time: its row never comes back, and the token itself does not
\* verify any more, unless a restart forgets that it was revoked.
EndedStaysEnded ==
  [][\A t \in ended' :
       /\ row'[t] # "live"
       /\ Verified(t)' => restarts' # restarts \/ (t \in ended /\ Verified(t))]_vars

\* Refreshing does not carry rights past a demotion: a token holds rights that
\* its account had while the login or refresh that signed it was under way.
RenewalDropsRights ==
  \A f \in Flows : pc[f] = "done" => claim[f] \in seen[f]

\* The requests about to write "not banned" for u over the cache.
Stale(u) == {w \in Writers : pending[w] = [user |-> u, banned |-> FALSE]}

\* While a ban stands, only requests that were under way when it was set, and reads
\* of it that fail, can keep it from being obeyed: no request joins them, the cache
\* says "not banned" only if it did or one of them writes, and when all have written
\* and the entry has lapsed, every token of the account is refused unless the read
\* that Authenticate makes of the ban fails.
BanOnlyDelayed ==
  [][\A u \in banned \cap banned' :
       /\ Stale(u)' \subseteq Stale(u)
       /\ cache'[u] = "clear" => cache[u] = "clear" \/ Stale(u) # {}
       /\ cache'[u] # "clear" /\ ~failing' =>
            \A t \in Flows : owner'[t] = u => ~Authenticates(t)']_vars

(* Liveness. *)

\* A ban that stays is obeyed in the end if its reads succeed again, and a lifted
\* one forgotten, although reads that were under way write stale answers over the
\* cache and reads have failed in between.
BanSettles ==
  \A u \in Users :
    /\ <>[](u \in banned /\ ~failing) =>
         <>[](\A t \in Flows : owner[t] = u => ~Authenticates(t))
    /\ <>[](u \notin banned) => <>[](cache[u] # "banned")

(* Claims of the repository's comments that the code refutes. *)

\* bannedCacheTTL: a ban rewrites the cache of this process at once, so that the
\* lifetime of an entry delays other processes only.  So a banned account whose ban
\* nobody is about to write to the cache is not "not banned" there.
OwnBanAtOnce ==
  \A u \in banned :
    cache[u] = "clear" => \E w \in Writers : pending[w] = [user |-> u, banned |-> TRUE]

\* ChangePassword: a password change voids the account's sessions; what is left
\* is the lifetime of an access token.  So no session row stems from a refresh
\* that began after the change with a token from before it.
OldPasswordNotRenewed ==
  \A f \in Flows :
    row[f] = "live" /\ owner[f] \notin changing => chain[f] >= began[f]

=============================================================================
