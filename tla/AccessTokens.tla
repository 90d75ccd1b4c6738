---------------------------- MODULE AccessTokens ----------------------------
(***************************************************************************)
(* Personal access tokens and MCP credentials of one account.              *)
(*                                                                         *)
(* A request carries the rights of the site session that sent it, which    *)
(* may be older than the account's.  It begins a transaction (which fixes  *)
(* its clock), waits for the advisory lock of Store.write and then reads   *)
(* and writes in steps of their own.  Revocations are single statements    *)
(* outside the lock.  An introspection reads the token's row and then the  *)
(* account's groups, each with a statement of its own.                     *)
(*                                                                         *)
(* A token is named by the request that creates it.  Its name, its secret  *)
(* and last_used_at are left out, and so is the ban of the account, which  *)
(* only refuses introspections.                                            *)
(***************************************************************************)
EXTENDS Naturals, FiniteSets

CONSTANTS
  Requests,        \* requests that create or edit a token
  Legacy,          \* tokens from before scopes were restricted
  Introspections,
  Codes,           \* permission codes, with "*" and "mcp.connect"
  Delegable,       \* neither "*" nor catalog.review.bypass nor any *.manage
  Retired,         \* the codes a migration strips
  Grants,          \* what the groups of the account may come to
  Limit,           \* MaxPersonalAccessTokensPerUser, and 50 for MCP
  NoToken

Tokens == Requests \cup Legacy
Purposes == {"personal", "mcp"}

ASSUME TokenAssumption ==
  /\ IsFiniteSet(Tokens) /\ Requests \cap Legacy = {} /\ NoToken \notin Tokens
  /\ Limit \in [Purposes -> Nat] /\ Cardinality(Legacy) <= Limit["personal"]

ASSUME CodeAssumption ==
  /\ Delegable \subseteq Codes \ {"*"} /\ {"*", "mcp.connect"} \subseteq Codes
  /\ Retired \subseteq Codes /\ Grants \subseteq SUBSET Codes /\ Grants # {}

VARIABLES
  rights,     \* the permissions of the account's groups
  session,    \* those in the token of its site session
  row,        \* the state of a token's row
  purpose,
  scopes,
  expired,    \* tokens past expires_at
  pc,         \* where a request stands
  target,     \* the token an edit is about
  asked,      \* the scopes it asks for, {} if it edits the name only
  previous,   \* the scopes it read
  ipc,        \* where an introspection stands
  carried,    \* the scopes it read
  answer,     \* the permissions it answered
  held        \* history: what the groups came to while it was under way

tokenVars == <<row, purpose, scopes, expired>>
requestVars == <<pc, target, asked, previous>>
answerVars == <<ipc, carried, answer, held>>
accountVars == <<rights, session>>
vars == <<accountVars, tokenVars, requestVars, answerVars>>

-----------------------------------------------------------------------------
Steps == {"new", "creating", "counted", "editing", "read", "done", "failed"}

TypeOK ==
  /\ rights \in SUBSET Codes /\ session \in SUBSET Codes
  /\ row \in [Tokens -> {"none", "live", "revoked", "deleted"}]
  /\ purpose \in [Tokens -> Purposes]
  /\ scopes \in [Tokens -> SUBSET Codes]
  /\ \A t \in Requests : scopes[t] \subseteq Delegable
  /\ expired \in SUBSET Tokens
  /\ pc \in [Requests -> Steps]
  /\ target \in [Requests -> Tokens \cup {NoToken}]
  /\ asked \in [Requests -> SUBSET Delegable]
  /\ previous \in [Requests -> SUBSET Codes]
  /\ ipc \in [Introspections -> {"idle", "found", "answered"}]
  /\ carried \in [Introspections -> SUBSET Codes]
  /\ answer \in [Introspections -> SUBSET Codes]
  /\ held \in [Introspections -> SUBSET SUBSET Codes]

Init ==
  /\ rights \in Grants /\ session = rights
  /\ row = [t \in Tokens |-> IF t \in Legacy THEN "live" ELSE "none"]
  /\ purpose = [t \in Tokens |-> "personal"]
  /\ scopes = [t \in Tokens |-> IF t \in Legacy THEN Codes \ {"mcp.connect"} ELSE {}]
  /\ expired = {}
  /\ pc = [r \in Requests |-> "new"]
  /\ target = [r \in Requests |-> NoToken]
  /\ asked = [r \in Requests |-> {}]
  /\ previous = [r \in Requests |-> {}]
  /\ ipc = [i \in Introspections |-> "idle"]
  /\ carried = [i \in Introspections |-> {}]
  /\ answer = [i \in Introspections |-> {}]
  /\ held = [i \in Introspections |-> {}]

\* Can: "*" holds every code, and every account may connect.
Can(perms, code) == code = "mcp.connect" \/ perms \cap {"*", code} # {}

\* Variant with a fault: transactions do not wait for each other.
LockIgnored == TRUE

\* No transaction of Store.write is open.
LockFree == \A r \in Requests : pc[r] \notin {"counted", "read"}

\* No edit holds the row of t.
RowFree(t) == \A r \in Requests : pc[r] = "read" => target[r] # t

Advance(r, from, to) == pc[r] = from /\ pc' = [pc EXCEPT ![r] = to]

\* A request that is over leaves nothing behind but its token.
Forget(r) ==
  /\ target' = [target EXCEPT ![r] = NoToken]
  /\ asked' = [asked EXCEPT ![r] = {}]
  /\ previous' = [previous EXCEPT ![r] = {}]

-----------------------------------------------------------------------------
(* createAccessToken and updateAccessToken. *)

\* Variant with a fault: any code the session holds may be passed on.
AllowedAny(S) == S # {} /\ \A c \in S : Can(session, c)

\* NormalizePATScopes: something is asked for, all of it may be passed on, and
\* the session holds all of it.
Allowed(S) == S # {} /\ S \subseteq Delegable /\ \A c \in S : Can(session, c)

\* The routes of personal tokens refuse mcp.connect, those of MCP credentials add it.
PurposeOf(S) == IF "mcp.connect" \in S THEN "mcp" ELSE "personal"

BeginCreate(r, S) ==
  /\ Allowed(S)
  /\ Advance(r, "new", "creating")
  /\ asked' = [asked EXCEPT ![r] = S]
  /\ UNCHANGED <<accountVars, tokenVars, target, previous, answerVars>>

\* The usable tokens of purpose p.
Active(p) == {t \in Tokens : row[t] = "live" /\ purpose[t] = p /\ t \notin expired}

\* Variant with a fault: one more than the limit.
RoomOneMore(r) == Cardinality(Active(PurposeOf(asked[r]))) <= Limit[PurposeOf(asked[r])]

\* The count of createAccessToken.  The clock of its transaction stands still
\* while it waits for the lock, so the code may refuse where this does not.
Room(r) == Cardinality(Active(PurposeOf(asked[r]))) < Limit[PurposeOf(asked[r])]

\* The lock is granted, and the account's tokens are counted.
CountTokens(r) ==
  /\ LockFree
  /\ Room(r)
  /\ Advance(r, "creating", "counted")
  /\ UNCHANGED <<accountVars, tokenVars, target, asked, previous, answerVars>>

InsertToken(r) ==
  /\ Advance(r, "counted", "done")
  /\ row' = [row EXCEPT ![r] = "live"]
  /\ purpose' = [purpose EXCEPT ![r] = PurposeOf(asked[r])]
  /\ scopes' = [scopes EXCEPT ![r] = asked[r]]
  /\ Forget(r)
  /\ UNCHANGED <<accountVars, expired, answerVars>>

\* S = {} edits the name of a personal token; an MCP credential has only scopes
\* to edit.
BeginEdit(r, t, S) ==
  /\ row[t] # "none"
  /\ IF S = {} THEN purpose[t] = "personal" ELSE Allowed(S) /\ purpose[t] = PurposeOf(S)
  /\ Advance(r, "new", "editing")
  /\ target' = [target EXCEPT ![r] = t]
  /\ asked' = [asked EXCEPT ![r] = S]
  /\ UNCHANGED <<accountVars, tokenVars, previous, answerVars>>

\* The lock is granted, and the row is read and locked: a revoked token may be
\* edited, a deleted one may not.
ReadScopes(r) ==
  /\ LockFree
  /\ Advance(r, "editing", "read")
  /\ row[target[r]] \in {"live", "revoked"}
  /\ previous' = [previous EXCEPT ![r] = scopes[target[r]]]
  /\ UNCHANGED <<accountVars, tokenVars, target, asked, answerVars>>

\* Variant with a fault: whatever the session holds goes for MCP credentials too.
EditAcceptedWide(r) == TRUE

\* An MCP credential may only lose scopes.
EditAccepted(r) == purpose[target[r]] = "mcp" => asked[r] \subseteq previous[r]

\* Variant with a fault: an edit brings the token back.
EditedRowLive(r) == [row EXCEPT ![target[r]] = "live"]

\* An edit leaves the lifecycle of its token alone.
EditedRow(r) == row

WriteScopes(r) ==
  /\ Advance(r, "read", "done")
  /\ EditAccepted(r)
  /\ scopes' = [scopes EXCEPT ![target[r]] = IF asked[r] = {} THEN previous[r] ELSE asked[r]]
  /\ row' = EditedRow(r)
  /\ Forget(r)
  /\ UNCHANGED <<accountVars, purpose, expired, answerVars>>

\* A check or a statement fails, or the process ends: the transaction is rolled back.
Fail(r) ==
  /\ pc[r] \notin {"new", "done", "failed"}
  /\ pc' = [pc EXCEPT ![r] = "failed"]
  /\ Forget(r)
  /\ UNCHANGED <<accountVars, tokenVars, answerVars>>

-----------------------------------------------------------------------------
(* The end of a token: statements that wait for its row only. *)

\* By the owner, or by whoever shows an MCP credential.
Revoke(t) ==
  /\ RowFree(t)
  /\ row[t] = "live"
  /\ row' = [row EXCEPT ![t] = "revoked"]
  /\ UNCHANGED <<accountVars, purpose, scopes, expired, requestVars, answerVars>>

Delete(t) ==
  /\ RowFree(t)
  /\ row[t] \in {"live", "revoked"} /\ purpose[t] = "personal"
  /\ row' = [row EXCEPT ![t] = "deleted"]
  /\ UNCHANGED <<accountVars, purpose, scopes, expired, requestVars, answerVars>>

\* MCP credentials never expire.
Expire(t) ==
  /\ row[t] # "none" /\ purpose[t] = "personal" /\ t \notin expired
  /\ expired' = expired \cup {t}
  /\ UNCHANGED <<accountVars, row, purpose, scopes, requestVars, answerVars>>

-----------------------------------------------------------------------------
(* IntrospectPersonalAccessToken. *)

\* The row of a usable token.
LookUp(i, t) ==
  /\ ipc[i] = "idle"
  /\ row[t] = "live" /\ t \notin expired
  /\ ipc' = [ipc EXCEPT ![i] = "found"]
  /\ carried' = [carried EXCEPT ![i] = scopes[t]]
  /\ held' = [held EXCEPT ![i] = {rights}]
  /\ UNCHANGED <<accountVars, tokenVars, requestVars, answer>>

\* Variant with a fault: the rights of the site session.
EffectiveClaimed(S) == {c \in S : Can(session, c)}

\* EffectivePATPermissions: what the account holds now, "*" standing for all.
Effective(S) ==
  IF "*" \in S /\ Can(rights, "*") THEN {"*"} ELSE {c \in S : Can(rights, c)}

\* WithAccess, and the answer.
ReadAccess(i) ==
  /\ ipc[i] = "found"
  /\ ipc' = [ipc EXCEPT ![i] = "answered"]
  /\ answer' = [answer EXCEPT ![i] = Effective(carried[i])]
  /\ carried' = [carried EXCEPT ![i] = {}]
  /\ held' = [held EXCEPT ![i] = {}]
  /\ UNCHANGED <<accountVars, tokenVars, requestVars>>

-----------------------------------------------------------------------------
(* The account. *)

Witnessed(R) == [i \in Introspections |-> IF ipc[i] = "found" THEN held[i] \cup {R} ELSE held[i]]

\* Its groups are edited, or it joins or leaves one.
SetRights(R) ==
  /\ LockFree
  /\ rights' = R
  /\ held' = Witnessed(R)
  /\ UNCHANGED <<session, tokenVars, requestVars, ipc, carried, answer>>

\* It logs in, or refreshes its session.
RefreshSession ==
  /\ session' = rights
  /\ UNCHANGED <<rights, tokenVars, requestVars, answerVars>>

\* stripRetiredPermissions, when a process starts.
StripRetired ==
  /\ LockFree
  /\ rights' = rights \ Retired
  /\ scopes' = [t \in Tokens |-> scopes[t] \ Retired]
  /\ held' = Witnessed(rights')
  /\ UNCHANGED <<session, row, purpose, expired, requestVars, ipc, carried, answer>>

-----------------------------------------------------------------------------
Request(r) ==
  \/ \E S \in SUBSET Codes : BeginCreate(r, S) \/ \E t \in Tokens : BeginEdit(r, t, S)
  \/ CountTokens(r) \/ InsertToken(r) \/ ReadScopes(r) \/ WriteScopes(r) \/ Fail(r)

Introspect(i) == (\E t \in Tokens : LookUp(i, t)) \/ ReadAccess(i)

Account ==
  \/ \E R \in Grants : SetRights(R)
  \/ RefreshSession \/ StripRetired

Next ==
  \/ \E r \in Requests : Request(r)
  \/ \E t \in Tokens : Revoke(t) \/ Delete(t) \/ Expire(t)
  \/ \E i \in Introspections : Introspect(i)
  \/ Account

Spec == Init /\ [][Next]_vars

-----------------------------------------------------------------------------
(* Safety. *)

\* However many requests create tokens at once, and whatever is revoked, edited
\* or expires meanwhile, the account has no more usable tokens of a purpose
\* than its limit.
QuotaHolds == \A p \in Purposes : Cardinality(Active(p)) <= Limit[p]

\* An MCP credential never gains a scope: not even one that a concurrent edit
\* or a migration took from it.
MCPNeverWidens ==
  [][\A t \in Tokens :
       row[t] # "none" /\ purpose[t] = "mcp" => scopes'[t] \subseteq scopes[t]]_vars

\* Renaming a token never restores scopes that another request or a migration
\* removed while it was under way.
RenamingKeepsScopes ==
  [][\A r \in Requests :
       pc[r] = "read" /\ asked[r] = {} /\ pc'[r] = "done" => scopes' = scopes]_vars

\* A token that is revoked or deleted stays so, whatever edits of it are under way.
DeadStaysDead ==
  [][\A t \in Tokens : row[t] \in {"revoked", "deleted"} => row'[t] \in {row[t], "deleted"}]_vars

\* An introspection answers only permissions the account held at some moment
\* while it was under way, however old the session that gave the token its scopes.
AnswerHeld ==
  [][\A i \in Introspections :
       ipc[i] = "found" => \A c \in answer'[i] : \E R \in held[i] : Can(R, c)]_vars

-----------------------------------------------------------------------------
(* Refinement. *)

\* Revoked, deleted and expired come to the same for whoever shows the token.
StateOf(t) ==
  IF row[t] = "none" THEN "none"
  ELSE IF row[t] = "live" /\ t \notin expired THEN "usable" ELSE "over"

PowerOf(t) == IF StateOf(t) = "usable" THEN scopes[t] ELSE {}

Issued == INSTANCE Credential WITH
  Old <- Legacy, Kinds <- Purposes, Narrowing <- {"mcp"}, kind <- purpose,
  state <- [t \in Tokens |-> StateOf(t)], power <- [t \in Tokens |-> PowerOf(t)]

\* Every behaviour of the requests that create and edit tokens, of revocation,
\* expiry and the migration keeps the promise of Credential: no token beyond the
\* limit, no power that may not be passed on, no MCP credential that gains any,
\* no token that comes back, no edit of a token that has ended which shows.
ImplementsCredential == Issued!Spec

=============================================================================
