---------------------------- MODULE OAuthGrants ----------------------------
(***************************************************************************)
(* The OAuth grant pipeline of the account service: a client asks for      *)
(* scopes, the user consents, the consent is audited, an authorization     *)
(* code is minted, one exchange turns the code into an access token, and   *)
(* four operations take grants away again (revocation by client, by user,  *)
(* of one's own grant, and a ban), next to client updates and deletion.    *)
(*                                                                         *)
(* Every database statement is one atomic step.  A transaction opened by   *)
(* Store.write holds the advisory lock from its first statement to its     *)
(* commit, but runs READ COMMITTED: statements outside such transactions   *)
(* (minting a code, consuming it, inserting a token row) interleave with   *)
(* it, and what it deleted stays visible until the commit.                 *)
(*                                                                         *)
(* A token is named by the exchange that signed it: the exchange is the    *)
(* jti, the token_hash and the row.                                        *)
(***************************************************************************)
EXTENDS Naturals, FiniteSets

CONSTANTS
  Users, Clients, Scopes,
  ClientForms,    \* the configurations an administrator may give a client
  NoClient,       \* the client row does not exist
  Requests,       \* authorization requests, each with the code it may get
  Subject,        \* the account a request is made for
  Audience,       \* the client a request is made by
  Asked,          \* the scopes a request asks for
  Exchanges,      \* POST /oauth/token requests
  Presented,      \* the request whose code an exchange presents
  Proves,         \* does it present the right secret, redirect and verifier
  Revokers,       \* goroutines that run a revoking operation
  MaxRestarts     \* bound on the restarts of the process

ASSUME ClientAssumption ==
  /\ ClientForms \subseteq
       [scopes : (SUBSET Scopes) \ {{}}, disabled : BOOLEAN, trusted : BOOLEAN]
  /\ NoClient \notin ClientForms

ASSUME RequestAssumption ==
  /\ Subject \in [Requests -> Users]
  /\ Audience \in [Requests -> Clients]
  /\ Asked \in [Requests -> (SUBSET Scopes) \ {{}}]

ASSUME ExchangeAssumption ==
  /\ Presented \in [Exchanges -> Requests]
  /\ Proves \in [Exchanges -> BOOLEAN]

ASSUME RestartAssumption == MaxRestarts \in Nat

VARIABLES
  client,       \* auth.oauth_clients
  banned,       \* accounts with auth.users.banned
  stage,        \* where an authorization request stands
  shown,        \* the scopes its consent page listed
  agreed,       \* the scopes its handler computed when consent arrived
  audits,       \* consent rows of auth.oauth_audit
  code,         \* the state of a request's row in auth.oauth_codes
  codeScope,    \* the scope column of that row
  xpc,          \* where an exchange stands
  allowed,      \* client.Scopes as the exchange read it
  row,          \* the state of the exchange's row in auth.oauth_tokens
  tokenScope,   \* the scope column of that row
  expired,      \* tokens past their expiry
  revokedJtis,  \* TokenIssuer.revoked, in the memory of the process
  rpc,          \* where a revoking operation stands
  target,       \* what it revokes
  issued,       \* the jtis its transaction collected
  doomed,       \* the token rows its transaction deleted
  restarts,     \* restarts so far
  verdict       \* history: did a committed revocation cover the request, and
                \* did an exchange of its code overlap the transaction

requestVars == <<stage, shown, agreed, audits>>
codeVars == <<code, codeScope>>
exchangeVars == <<xpc, allowed>>
tokenVars == <<row, tokenScope, expired>>
revokeVars == <<rpc, target, issued, doomed>>
vars == <<client, banned, requestVars, codeVars, exchangeVars, tokenVars,
          revokedJtis, revokeVars, restarts, verdict>>

-----------------------------------------------------------------------------
Stages == {"new", "shown", "allowed", "audited", "issued", "denied", "failed"}
CodeStates == {"none", "live", "used", "expired", "deleted"}
ExchangeStates == {"new", "started", "validated", "consumed", "done", "failed"}
RowStates == {"none", "live", "deleted", "cascaded"}
RevokeStates == {"idle", "selected", "swept", "committed"}

Verdicts == {"standing", "raced", "settled"}

Targets == [users : SUBSET Users, clients : SUBSET Clients, ban : BOOLEAN]
ByClient(c) == [users |-> Users, clients |-> {c}, ban |-> FALSE]
ByUser(u) == [users |-> {u}, clients |-> Clients, ban |-> FALSE]
OwnGrant(u, c) == [users |-> {u}, clients |-> {c}, ban |-> FALSE]
Ban(u) == [users |-> {u}, clients |-> Clients, ban |-> TRUE]

AuditRows == [user : Users, client : Clients,
              action : {"allow", "deny"}, scopes : SUBSET Scopes]

TypeOK ==
  /\ client \in [Clients -> ClientForms \cup {NoClient}]
  /\ banned \in SUBSET Users
  /\ stage \in [Requests -> Stages]
  /\ shown \in [Requests -> SUBSET Scopes]
  /\ agreed \in [Requests -> SUBSET Scopes]
  /\ audits \in SUBSET AuditRows
  /\ code \in [Requests -> CodeStates]
  /\ codeScope \in [Requests -> SUBSET Scopes]
  /\ xpc \in [Exchanges -> ExchangeStates]
  /\ allowed \in [Exchanges -> SUBSET Scopes]
  /\ row \in [Exchanges -> RowStates]
  /\ tokenScope \in [Exchanges -> SUBSET Scopes]
  /\ expired \in SUBSET Exchanges
  /\ revokedJtis \in SUBSET Exchanges
  /\ rpc \in [Revokers -> RevokeStates]
  /\ target \in [Revokers -> Targets]
  /\ issued \in [Revokers -> SUBSET Exchanges]
  /\ doomed \in [Revokers -> SUBSET Exchanges]
  /\ restarts \in 0 .. MaxRestarts
  /\ verdict \in [Requests -> Verdicts]

-----------------------------------------------------------------------------
\* A client a request may name: the row exists and is not disabled.
OpenClient(c) == client[c] # NoClient /\ ~client[c].disabled

\* ConvergeScopes: what was asked for, cut to the client's white list.
Converge(asked, c) == asked \cap client[c].scopes

\* The client may be given some of what was asked for.
Grantable(asked, c) == OpenClient(c) /\ Converge(asked, c) # {}

\* No transaction of Store.write is open: the advisory lock can be taken.
LockFree == \A r \in Revokers : rpc[r] \notin {"selected", "swept"}

\* The ban is committed but this process has not refreshed its cache yet.
BanPending(u) ==
  \E r \in Revokers : rpc[r] = "committed" /\ target[r].ban /\ u \in target[r].users

\* identity() finds an account behind the caller's credential.
LoggedIn(u) == u \notin banned \/ BanPending(u)

\* The grant of request k falls under what revoker r takes away.
Covers(r, k) == Subject[k] \in target[r].users /\ Audience[k] \in target[r].clients

LiveRow(x) == row[x] = "live" /\ x \notin expired

\* Variant with a fault: the two identifiers are swapped.
AuditRowSwapped(k, action, scopes) ==
  [user |-> Audience[k], client |-> Subject[k], action |-> action, scopes |-> scopes]

\* A consent row of auth.oauth_audit.
AuditRow(k, action, scopes) ==
  [user |-> Subject[k], client |-> Audience[k], action |-> action, scopes |-> scopes]

Init ==
  /\ client \in [Clients -> ClientForms]
  /\ banned = {}
  /\ stage = [k \in Requests |-> "new"]
  /\ shown = [k \in Requests |-> {}]
  /\ agreed = [k \in Requests |-> {}]
  /\ audits = {}
  /\ code = [k \in Requests |-> "none"]
  /\ codeScope = [k \in Requests |-> {}]
  /\ xpc = [x \in Exchanges |-> "new"]
  /\ allowed = [x \in Exchanges |-> {}]
  /\ row = [x \in Exchanges |-> "none"]
  /\ tokenScope = [x \in Exchanges |-> {}]
  /\ expired = {}
  /\ revokedJtis = {}
  /\ rpc = [r \in Revokers |-> "idle"]
  /\ target = [r \in Revokers |-> [users |-> {}, clients |-> {}, ban |-> FALSE]]
  /\ issued = [r \in Revokers |-> {}]
  /\ doomed = [r \in Revokers |-> {}]
  /\ restarts = 0
  /\ verdict = [k \in Requests |-> "standing"]

-----------------------------------------------------------------------------
(* Authorization: GET /oauth/authorize. *)

\* The request is refused: unknown or disabled client, or no scope is left.
RefuseRequest(k) ==
  /\ stage[k] \in {"new", "shown"}
  /\ ~Grantable(Asked[k], Audience[k])
  /\ stage' = [stage EXCEPT ![k] = "failed"]
  /\ UNCHANGED <<client, banned, shown, agreed, audits, codeVars, exchangeVars,
                 tokenVars, revokedJtis, revokeVars, restarts, verdict>>

\* What every accepted authorization request has passed before it branches.
Acceptable(k) ==
  /\ Grantable(Asked[k], Audience[k])
  /\ LoggedIn(Subject[k])

\* A client that is not trusted gets the consent page.
ShowConsent(k) ==
  /\ stage[k] = "new"
  /\ Acceptable(k)
  /\ ~client[Audience[k]].trusted
  /\ stage' = [stage EXCEPT ![k] = "shown"]
  /\ shown' = [shown EXCEPT ![k] = Converge(Asked[k], Audience[k])]
  /\ UNCHANGED <<client, banned, agreed, audits, codeVars, exchangeVars,
                 tokenVars, revokedJtis, revokeVars, restarts, verdict>>

\* The request says consent=deny.  The audit row may be lost; the answer stands.
DenyConsent(k) ==
  /\ stage[k] \in {"new", "shown"}
  /\ Acceptable(k)
  /\ ~client[Audience[k]].trusted
  /\ LockFree
  /\ stage' = [stage EXCEPT ![k] = "denied"]
  /\ audits' \in {audits,
       audits \cup {AuditRow(k, "deny", Converge(Asked[k], Audience[k]))}}
  /\ UNCHANGED <<client, banned, shown, agreed, codeVars, exchangeVars,
                 tokenVars, revokedJtis, revokeVars, restarts, verdict>>

\* The client is trusted, or the request says consent=allow, as the link on the
\* consent page does.  The scopes are those of the client of now.
AllowRequest(k) ==
  /\ stage[k] \in {"new", "shown"}
  /\ Acceptable(k)
  /\ stage' = [stage EXCEPT ![k] = "allowed"]
  /\ agreed' = [agreed EXCEPT ![k] = Converge(Asked[k], Audience[k])]
  /\ UNCHANGED <<client, banned, shown, audits, codeVars, exchangeVars,
                 tokenVars, revokedJtis, revokeVars, restarts, verdict>>

\* RecordOAuthAudit: a transaction of its own, before the code.
RecordConsent(k) ==
  /\ stage[k] = "allowed"
  /\ LockFree
  /\ stage' = [stage EXCEPT ![k] = "audited"]
  /\ audits' = audits \cup {AuditRow(k, "allow", agreed[k])}
  /\ UNCHANGED <<client, banned, shown, agreed, codeVars, exchangeVars,
                 tokenVars, revokedJtis, revokeVars, restarts, verdict>>

\* Variant with a fault: the white list instead of what the user agreed to.
CodeScopeWide(k) == client[Audience[k]].scopes

\* The scope column of the code CreateOAuthCode inserts.
CodeScope(k) == Converge(agreed[k], Audience[k])

\* CreateOAuthCode: the client is read once more and the scopes cut once more.
\* Reading and inserting are one step: the exchange cuts the scopes again.
IssueCode(k) ==
  /\ stage[k] = "audited"
  /\ Grantable(agreed[k], Audience[k])
  /\ stage' = [stage EXCEPT ![k] = "issued"]
  /\ code' = [code EXCEPT ![k] = "live"]
  /\ codeScope' = [codeScope EXCEPT ![k] = CodeScope(k)]
  /\ UNCHANGED <<client, banned, shown, agreed, audits, exchangeVars,
                 tokenVars, revokedJtis, revokeVars, restarts, verdict>>

\* The audit or the code cannot be written, or the client is no longer usable.
FailRequest(k) ==
  /\ stage[k] \in {"allowed", "audited"}
  /\ stage' = [stage EXCEPT ![k] = "failed"]
  /\ UNCHANGED <<client, banned, shown, agreed, audits, codeVars, exchangeVars,
                 tokenVars, revokedJtis, revokeVars, restarts, verdict>>

\* Ten minutes pass before anyone exchanged the code.
ExpireCode(k) ==
  /\ code[k] = "live"
  /\ code' = [code EXCEPT ![k] = "expired"]
  /\ UNCHANGED <<client, banned, requestVars, codeScope, exchangeVars, tokenVars,
                 revokedJtis, revokeVars, restarts, verdict>>

-----------------------------------------------------------------------------
(* Exchange: POST /oauth/token, ExchangeOAuthCode. *)

\* Variant with a fault: redirect URI and verifier are not checked before the UPDATE.
ProofUnchecked(x) == TRUE

\* Secret, redirect URI and PKCE verifier match.
ProofAccepted(x) == Proves[x]

\* Variant with a fault: the UPDATE without its condition on used.
RedeemableAgain(x) == code[Presented[x]] \in {"live", "used"}

\* The condition of the UPDATE that consumes the code: unused and not lapsed.
Redeemable(x) == code[Presented[x]] = "live"

\* Variant with a fault: the white list instead of the scope of the code.
GrantedWide(x) == allowed[x]

\* The scopes of the token: those of the code, cut to the client as it was read.
Granted(x) == codeScope[Presented[x]] \cap allowed[x]

\* GetOAuthClient: the white list read here is the one the token will use.
StartExchange(x) ==
  /\ xpc[x] = "new"
  /\ OpenClient(Audience[Presented[x]])
  /\ xpc' = [xpc EXCEPT ![x] = "started"]
  /\ allowed' = [allowed EXCEPT ![x] = client[Audience[Presented[x]]].scopes]
  /\ UNCHANGED <<client, banned, requestVars, codeVars, tokenVars, revokedJtis,
                 revokeVars, restarts, verdict>>

\* The code is read with its redirect URI and challenge; nothing is written.
ValidateCode(x) ==
  /\ xpc[x] = "started"
  /\ code[Presented[x]] = "live"
  /\ ProofAccepted(x)
  /\ xpc' = [xpc EXCEPT ![x] = "validated"]
  /\ UNCHANGED <<client, banned, requestVars, codeVars, allowed, tokenVars,
                 revokedJtis, revokeVars, restarts, verdict>>

\* The conditional UPDATE: exactly one exchange finds used = false.
ConsumeCode(x) ==
  /\ xpc[x] = "validated"
  /\ Redeemable(x)
  /\ xpc' = [xpc EXCEPT ![x] = "consumed"]
  /\ code' = [code EXCEPT ![Presented[x]] = "used"]
  /\ UNCHANGED <<client, banned, requestVars, codeScope, allowed, tokenVars,
                 revokedJtis, revokeVars, restarts, verdict>>

\* Sign and insert the row; the foreign key demands that the client exists.
InsertToken(x) ==
  /\ xpc[x] = "consumed"
  /\ Granted(x) # {}
  /\ client[Audience[Presented[x]]] # NoClient
  /\ xpc' = [xpc EXCEPT ![x] = "done"]
  /\ row' = [row EXCEPT ![x] = "live"]
  /\ tokenScope' = [tokenScope EXCEPT ![x] = Granted(x)]
  /\ UNCHANGED <<client, banned, requestVars, codeVars, allowed, expired,
                 revokedJtis, revokeVars, restarts, verdict>>

\* Any check or statement of the exchange fails.  A consumed code stays used.
FailExchange(x) ==
  /\ xpc[x] \in {"new", "started", "validated", "consumed"}
  /\ xpc' = [xpc EXCEPT ![x] = "failed"]
  /\ UNCHANGED <<client, banned, requestVars, codeVars, allowed, tokenVars,
                 revokedJtis, revokeVars, restarts, verdict>>

\* AccessTokenTTL passes: the JWT and its row lapse together.
ExpireToken(x) ==
  /\ xpc[x] = "done"
  /\ x \notin expired
  /\ expired' = expired \cup {x}
  /\ UNCHANGED <<client, banned, requestVars, codeVars, exchangeVars, row,
                 tokenScope, revokedJtis, revokeVars, restarts, verdict>>

-----------------------------------------------------------------------------
(* Client administration, and the operations that take grants away. *)

CreateClient(c, form) ==
  /\ LockFree
  /\ client[c] = NoClient
  /\ client' = [client EXCEPT ![c] = form]
  /\ UNCHANGED <<banned, requestVars, codeVars, exchangeVars, tokenVars,
                 revokedJtis, revokeVars, restarts, verdict>>

UpdateClient(c, form) ==
  /\ LockFree
  /\ client[c] \notin {NoClient, form}
  /\ client' = [client EXCEPT ![c] = form]
  /\ UNCHANGED <<banned, requestVars, codeVars, exchangeVars, tokenVars,
                 revokedJtis, revokeVars, restarts, verdict>>

\* An exchange holds the code of request k, or has a live row the revocation
\* that deletes the rows in gone does not see.
Overlapped(k, gone) ==
  \E x \in Exchanges :
    Presented[x] = k /\ (xpc[x] = "consumed" \/ (LiveRow(x) /\ x \notin gone))

\* What a commit that covers the requests in K and deletes the rows in gone
\* means for each of them.  One that once was settled stays settled.
Judged(K, gone) ==
  [k \in Requests |->
     IF k \notin K \/ stage[k] # "issued" \/ verdict[k] = "settled" THEN verdict[k]
     ELSE IF Overlapped(k, gone) THEN "raced" ELSE "settled"]

\* Variant with a fault: the jtis are read after the rows are gone.
IssuedTokensLate(t) == {}

\* issuedTokensFor: the jtis of the live rows the target covers.
IssuedTokens(t) ==
  {x \in Exchanges : /\ LiveRow(x)
                     /\ Subject[Presented[x]] \in t.users
                     /\ Audience[Presented[x]] \in t.clients}

\* Variant with a fault: the codes are left alone.
VoidedCodesNone(r) == {}

\* The codes the second DELETE of a revocation finds: unused and not lapsed.
VoidedCodes(r) == {k \in Requests : code[k] = "live" /\ Covers(r, k)}

\* Variant with a fault: an early return inside the transaction keeps it open.
SweepableSome(r) == rpc[r] = "selected" /\ issued[r] # {}

\* The transaction has collected its jtis and goes on to the first DELETE.
Sweepable(r) == rpc[r] = "selected"

\* deleteOAuthClient: FOR UPDATE on the client row keeps new codes and tokens
\* out until the commit, so collecting and deleting are one step; both cascade.
DeleteClient(r, c) ==
  /\ rpc[r] = "idle"
  /\ LockFree
  /\ client[c] # NoClient
  /\ client' = [client EXCEPT ![c] = NoClient]
  /\ code' = [k \in Requests |-> IF Audience[k] = c /\ code[k] # "none"
                                 THEN "deleted" ELSE code[k]]
  /\ row' = [x \in Exchanges |-> IF Audience[Presented[x]] = c /\ row[x] = "live"
                                 THEN "cascaded" ELSE row[x]]
  /\ rpc' = [rpc EXCEPT ![r] = "committed"]
  /\ target' = [target EXCEPT ![r] = ByClient(c)]
  /\ issued' = [issued EXCEPT ![r] = IssuedTokens(ByClient(c))]
  /\ verdict' = Judged({k \in Requests : Audience[k] = c}, Exchanges)
  /\ UNCHANGED <<banned, requestVars, codeScope, exchangeVars, tokenScope, expired,
                 revokedJtis, doomed, restarts>>

\* The transaction takes the lock and collects the jtis of the live rows.
SelectIssued(r, t) ==
  /\ rpc[r] = "idle"
  /\ LockFree
  /\ rpc' = [rpc EXCEPT ![r] = "selected"]
  /\ target' = [target EXCEPT ![r] = t]
  /\ issued' = [issued EXCEPT ![r] = IssuedTokens(t)]
  /\ UNCHANGED <<client, banned, requestVars, codeVars, exchangeVars, tokenVars,
                 revokedJtis, doomed, restarts, verdict>>

\* DELETE FROM auth.oauth_tokens: fixes which rows the commit will remove.
\* A ban deletes the lapsed rows as well.
DeleteTokens(r) ==
  /\ Sweepable(r)
  /\ rpc' = [rpc EXCEPT ![r] = "swept"]
  /\ doomed' = [doomed EXCEPT ![r] =
                  {x \in Exchanges : /\ row[x] = "live"
                                     /\ Covers(r, Presented[x])
                                     /\ x \notin expired \/ target[r].ban}]
  /\ UNCHANGED <<client, banned, requestVars, codeVars, exchangeVars, tokenVars,
                 revokedJtis, target, issued, restarts, verdict>>

\* DELETE FROM auth.oauth_codes and COMMIT: an exchange that wants one of these
\* codes waits for the row lock and then finds the row gone.
CommitRevocation(r) ==
  /\ rpc[r] = "swept"
  /\ rpc' = [rpc EXCEPT ![r] = "committed"]
  /\ row' = [x \in Exchanges |-> IF x \in doomed[r] THEN "deleted" ELSE row[x]]
  /\ code' = [k \in Requests |-> IF k \in VoidedCodes(r) THEN "deleted" ELSE code[k]]
  /\ banned' = IF target[r].ban THEN banned \cup target[r].users ELSE banned
  /\ verdict' = Judged({k \in Requests : Covers(r, k)}, doomed[r])
  /\ UNCHANGED <<client, requestVars, codeScope, exchangeVars, tokenScope, expired,
                 revokedJtis, target, issued, doomed, restarts>>

\* A statement of the transaction fails: everything is rolled back.
AbortRevocation(r) ==
  /\ rpc[r] \in {"selected", "swept"}
  /\ rpc' = [rpc EXCEPT ![r] = "idle"]
  /\ issued' = [issued EXCEPT ![r] = {}]
  /\ doomed' = [doomed EXCEPT ![r] = {}]
  /\ UNCHANGED <<client, banned, requestVars, codeVars, exchangeVars, tokenVars,
                 revokedJtis, target, restarts, verdict>>

\* revokeIssued, and cacheBan after a ban: memory follows the commit.
RevokeIssued(r) ==
  /\ rpc[r] = "committed"
  /\ rpc' = [rpc EXCEPT ![r] = "idle"]
  /\ revokedJtis' = revokedJtis \cup issued[r]
  /\ issued' = [issued EXCEPT ![r] = {}]
  /\ doomed' = [doomed EXCEPT ![r] = {}]
  /\ UNCHANGED <<client, banned, requestVars, codeVars, exchangeVars, tokenVars,
                 target, restarts, verdict>>

\* SetUserBanned(false): nothing comes back, the account may log in again.
Unban(u) ==
  /\ LockFree
  /\ u \in banned
  /\ banned' = banned \ {u}
  /\ UNCHANGED <<client, requestVars, codeVars, exchangeVars, tokenVars,
                 revokedJtis, revokeVars, restarts, verdict>>

\* LogoutAll, ChangePassword and ResetUserPassword: the rows of the account are
\* deleted by a statement of its own; its codes and its jtis are left alone.
DropRows(u) ==
  /\ row' = [x \in Exchanges |-> IF row[x] = "live" /\ Subject[Presented[x]] = u
                                 THEN "deleted" ELSE row[x]]
  /\ UNCHANGED <<client, banned, requestVars, codeVars, exchangeVars, tokenScope,
                 expired, revokedJtis, revokeVars, restarts, verdict>>

\* Verify drops lapsed jtis from the set when it meets them.
PruneRevoked(x) ==
  /\ x \in revokedJtis \cap expired
  /\ revokedJtis' = revokedJtis \ {x}
  /\ UNCHANGED <<client, banned, requestVars, codeVars, exchangeVars, tokenVars,
                 revokeVars, restarts, verdict>>

\* The process ends and starts again: requests in flight are gone, an open
\* transaction is rolled back, the set of revoked jtis is empty.
Restart ==
  /\ restarts < MaxRestarts
  /\ restarts' = restarts + 1
  /\ stage' = [k \in Requests |-> IF stage[k] \in {"allowed", "audited"}
                                  THEN "failed" ELSE stage[k]]
  /\ xpc' = [x \in Exchanges |-> IF xpc[x] \in {"started", "validated", "consumed"}
                                 THEN "failed" ELSE xpc[x]]
  /\ rpc' = [r \in Revokers |-> "idle"]
  /\ issued' = [r \in Revokers |-> {}]
  /\ doomed' = [r \in Revokers |-> {}]
  /\ revokedJtis' = {}
  /\ UNCHANGED <<client, banned, shown, agreed, audits, codeVars, allowed,
                 tokenVars, target, verdict>>

-----------------------------------------------------------------------------
Request(k) ==
  \/ RefuseRequest(k) \/ ShowConsent(k) \/ DenyConsent(k) \/ AllowRequest(k)
  \/ RecordConsent(k) \/ IssueCode(k) \/ FailRequest(k) \/ ExpireCode(k)

Exchange(x) ==
  \/ StartExchange(x) \/ ValidateCode(x) \/ ConsumeCode(x) \/ InsertToken(x)
  \/ FailExchange(x) \/ ExpireToken(x) \/ PruneRevoked(x)

Administer(c) ==
  \E form \in ClientForms : CreateClient(c, form) \/ UpdateClient(c, form)

Select(r) ==
  \/ \E c \in Clients : SelectIssued(r, ByClient(c)) \/ DeleteClient(r, c)
  \/ \E u \in Users : SelectIssued(r, ByUser(u)) \/ SelectIssued(r, Ban(u))
  \/ \E u \in Users, c \in Clients :
       client[c] # NoClient /\ SelectIssued(r, OwnGrant(u, c))

Revoke(r) ==
  \/ Select(r) \/ DeleteTokens(r) \/ CommitRevocation(r) \/ AbortRevocation(r)
  \/ RevokeIssued(r)

Next ==
  \/ \E k \in Requests : Request(k)
  \/ \E x \in Exchanges : Exchange(x)
  \/ \E c \in Clients : Administer(c)
  \/ \E r \in Revokers : Revoke(r)
  \/ \E u \in Users : Unban(u) \/ DropRows(u)
  \/ Restart

Spec == Init /\ [][Next]_vars

\* Goroutines in flight run on; the advisory lock queue is first come, first served.
Fairness ==
  /\ \A k \in Requests :
       /\ SF_vars(RecordConsent(k))
       /\ WF_vars(stage[k] = "audited" /\ (IssueCode(k) \/ FailRequest(k)))
  /\ \A r \in Revokers : WF_vars(DeleteTokens(r)) /\ WF_vars(CommitRevocation(r))
                         /\ WF_vars(RevokeIssued(r))

FairSpec == Spec /\ Fairness

-----------------------------------------------------------------------------
(* Safety. *)

\* Whatever interleaving of exchanges presents a code, one of them at most gets
\* past the conditional UPDATE of ExchangeOAuthCode and may hold a token.
CodeRedeemedOnce ==
  \A x, y \in Exchanges :
    /\ Presented[x] = Presented[y]
    /\ xpc[x] \in {"consumed", "done"}
    /\ xpc[y] \in {"consumed", "done"}
    => x = y

\* A token carries scopes, no more than its code, and there is an audit row in
\* which the user allowed this client at least the scopes of the code: "no code
\* without a record of the consent", through every later change of the client.
TokenWithinConsent ==
  \A x \in Exchanges :
    LET k == Presented[x] IN
    row[x] # "none" =>
      /\ tokenScope[x] # {}
      /\ tokenScope[x] \subseteq codeScope[k]
      /\ \E a \in audits :
           /\ a.action = "allow"
           /\ a.user = Subject[k] /\ a.client = Audience[k]
           /\ codeScope[k] \subseteq a.scopes

\* A wrong secret, redirect URI or verifier never costs the client its code:
\* a used code was used by an exchange that had proved its right to it.
WrongProofKeepsCode ==
  \A k \in Requests :
    code[k] = "used" =>
      \E x \in Exchanges : /\ Presented[x] = k /\ Proves[x]
                           /\ xpc[x] \in {"consumed", "done", "failed"}

\* A revocation that no exchange overlapped is final: the code cannot be
\* exchanged any more and no token of the request has a live row, although
\* requests, exchanges and further revocations go on.
RevokedForGood ==
  \A k \in Requests : verdict[k] = "settled" =>
    /\ code[k] # "live"
    /\ \A x \in Exchanges : Presented[x] = k => xpc[x] # "consumed" /\ ~LiveRow(x)

\* Deleting a client leaves neither code nor token row, and every JWT of a row
\* that cascaded away is revoked, about to be, or lapsed (the set of revoked
\* jtis is in memory: a restart forgets it).
DeletedClientLeavesNothing ==
  /\ \A k \in Requests : client[Audience[k]] = NoClient => code[k] # "live"
  /\ \A x \in Exchanges :
       /\ client[Audience[Presented[x]]] = NoClient => row[x] # "live"
       /\ row[x] = "cascaded" =>
            \/ x \in revokedJtis \cup expired
            \/ restarts > 0
            \/ \E r \in Revokers : rpc[r] = "committed" /\ x \in issued[r]

(* Liveness. *)

\* A request the user allowed gets its code or an error, however many
\* revocations hold the advisory lock its audit row needs.
AllowAnswered ==
  \A k \in Requests : stage[k] = "allowed" ~> stage[k] \in {"issued", "failed"}

(* Claims of the repository's comments that the interleavings refute. *)

\* oauth.go: pending codes are voided with the tokens, "otherwise the revoked
\* client could at once take an old code and get a new token".
NoTokenFromRevokedCode ==
  [][\A x \in Exchanges :
       row[x] = "none" /\ row'[x] # "none" => verdict[Presented[x]] = "standing"]_vars

\* UserFromOAuthToken: a banned account cannot be used to read userinfo with a
\* third-party token.
BannedHaveNoUserinfo ==
  \A x \in Exchanges :
    LiveRow(x) /\ OpenClient(Audience[Presented[x]]) => Subject[Presented[x]] \notin banned

\* userinfoFields: a token must not give more than its consent page listed.
GrantedWasShown ==
  \A x \in Exchanges :
    LET k == Presented[x] IN
    row[x] = "live" /\ shown[k] # {} => tokenScope[x] \subseteq shown[k]

=============================================================================
