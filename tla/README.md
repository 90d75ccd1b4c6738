# Formal model of the account service

TLA+ modules, TLC configurations and TLAPS proofs about the Go service under
`src/internal` and `src/cmd/server`: accounts, permission groups, sessions and an OAuth
authorization server over PostgreSQL. `PROJECT.json` lists components, runs, mutants,
the map from definitions to source lines, findings, hazards and theorems.

## The system

One process (several replicas are possible, but the in-memory parts are written for one)
serves HTTP with a goroutine per request. Handlers in `internal/handler` call
`store.Store`, which talks to PostgreSQL at READ COMMITTED. Two kinds of statement occur:

* bare statements on the pool: each is atomic, nothing ties two of them together;
* transactions opened by `Store.write` (store.go:275), which first take the advisory lock
  740203 and so exclude each other, but not the bare statements.

Beside the database the process keeps in memory: the revoked jtis of the token issuer, a
cache of ban states (5 s), a cache of the rate limit policy (5 s), the buckets of the rate
limiter and of introspections, and the queue of the audit recorder.

| Component | State | Operations | What is hard | What makes it correct |
|---|---|---|---|---|
| OAuth grants (`store/oauth.go`, `handler/oauth.go`, `consent.go`) | `oauth_clients`, `oauth_codes`, `oauth_tokens`, `oauth_audit`; revoked jtis | authorize, consent, exchange, userinfo, revoke by client / user / own grant / ban, client CRUD | exchange of six statements outside a transaction; revocation inside one; memory after the commit | a code is redeemed once; scopes only shrink from the audited consent; revocation is final; a deleted client leaves nothing |
| Accounts, groups, bans (`identity.go`, `groups.go`, `seed_groups.go`) | `users`, `groups`, `user_groups`; rights inside tokens | setup, create, register, group CRUD, assign, ban, migrate | guards read outside the transaction; two guards that count differently | an administrator remains; setup happens once; deleted groups confer nothing |
| Sessions (`identity.go`, `token.go`, `store.go`) | `sessions`; revoked jtis; ban cache | login, refresh, logout, logout-all, password change, ban | memory and rows are changed one after the other; stale cache fills; restart | ended tokens stay dead; refresh drops lost rights; bans settle |
| Registration and invites (`groups.go`, `access.go`) | `invites`, `invite_uses`, `instance_settings` | register, create / revoke invite, settings | settings read before the transaction; limited uses; no index on the address | the counter of an invite is exact and within its limit; nobody is admitted against the settings; an address registers once |
| Login guard (`login_failures.go`, `login_guard.go`) | `login_failures` | check, delay, record, clear | check and record are separate statements, and any number of attempts lie between them; database outage | guesses beyond a limit are bounded; nothing restores an address its budget; a block ends |
| Access tokens (`pat.go`, `access_token_management.go`, `retire_permissions.go`) | `personal_access_tokens` | create, edit, revoke, delete, introspect, strip retired codes | quota under concurrency; an edit reads and writes back; token, account and rights are read one after the other | quotas hold; MCP credentials only narrow; dead tokens stay dead; answers are rights held at the time |
| Developer applications (`developer.go`) | `oauth_clients.owner_user_id` | create, update, rotate, delete | quota counted outside the transaction | owners edit only their own |
| Rate limit (`handler.go:759`, `pat.go:277`, `access.go:177`) | buckets, cached policy | take, sweep, invalidate | stale fill over an invalidation; a sweep between making a bucket and counting in it | no caller gets more through than the limit; a policy that stays is obeyed |
| Audit recorder (`audit/audit.go`) | bounded queue, counters | record, flush, close | full queue, stalled database, close or shutdown in between | requests never wait; Flush waits for what was there; the queue drains |
| Profile, trusted proxies, configuration, front ends | none of their own, or display data | | | not modelled |

They interact through shared tables and memory: a ban (accounts) deletes sessions, tokens
and codes and writes the cache that sessions read; a change of groups reaches a caller only
through the next token; client administration changes what exchanges may grant.

## Modules

| Module | Role |
|---|---|
| `OAuthGrants` | the grant pipeline: requests, exchanges, revokers, client administration, restart |
| `OneTimeGrant` | what the pipeline promises of one request, abstractly |
| `OAuthGrantsRefinement` | the refinement mapping, `ImplementsGrant` |
| `AdminAccess` | who may administer: accounts, groups, memberships, bans, setup, seed |
| `Sessions` | logins, refreshes, logout, password changes, the ban cache, restart |
| `Registration` | registration under the instance settings, invites, accounts created by hand |
| `LimitedInvite` | what an invite promises, abstractly; `ImplementsInvite` in `Registration` |
| `LoginGuard` | failed logins: the check before, the record after, the windows of the counters |
| `AccessTokens` | personal tokens and MCP credentials: quota, edits, end, introspection |
| `Credential` | what the tokens of an account promise, abstractly; `ImplementsCredential` in `AccessTokens` |
| `RateLimit` | the cached policy and the buckets of requests and of introspections |
| `FixedWindow` | a limiter that never loses a window, abstractly; `ImplementsLimiter` in `RateLimit` |
| `AuditRecorder` | the queue of the audit log, its goroutine, Flush, Close, restart |
| `LossyLog` | a bounded first-in-first-out log that may lose all it holds, abstractly; `ImplementsLog` in `AuditRecorder` |

For each component `X` of these, `MCX` gives finite instances for TLC and `X_proofs` holds the
theorems (`MCOAuthGrants` and `OAuthGrants_proofs` extend `OAuthGrantsRefinement`).

In every module a definition commented "Variant with a fault" stands just before the one it
is a variant of. No specification uses it; putting it in the place of its neighbour must break
the property that `mutants` in `PROJECT.json` names.

**OAuthGrants.** A request `k` walks through `stage`, following `/oauth/authorize`: the
handler keeps no state between the consent page and the link the user follows, so
`AllowRequest` computes the scopes again. `RecordConsent` is the audit transaction,
`IssueCode` is `CreateOAuthCode`. An exchange `x` walks through `xpc` statement by
statement: `StartExchange` reads the client (whose white list it uses to the end),
`ValidateCode` is the SELECT with redirect URI and PKCE, `ConsumeCode` the conditional
UPDATE, `InsertToken` the row. A revoker runs `SelectIssued`, `DeleteTokens`,
`CommitRevocation` and, after the commit, `RevokeIssued`. `verdict` is a history variable:
`settled` when a revocation covered the request with no exchange between its UPDATE and its
INSERT and no row its DELETE had missed, `raced` otherwise. A jti, a token hash and a row are
one thing, named by the exchange. Scope strings are sets.

**OneTimeGrant** knows of a request only its phase (asked, consented, coded, redeeming, tokened,
over) and its scopes. The mapping reads the phase off `stage`, the code row and the exchanges, and
takes the scopes from the audit row, the code or the token row, whichever the phase is about.

**AdminAccess.** A caller begins a job with the permissions of its token (`claims`, which
`IssueToken` refreshes) and ends it with one transaction, which is one step because
transactions of `Store.write` exclude each other. `SetUserBanned` is the exception: two bare
reads, then the transaction, then the cache. `moved` records for each caller whether a
membership or a ban changed since its first read.

**Sessions.** A flow is a login or a refresh and also names the token it signs. `row` is its
row in `auth.sessions`; `Authenticates` is `Authenticate`: a token that verifies needs no row.
`ReadBan`, `SetUserBanned` and `CacheBan` are the requests that write the ban cache, each
write separate from the read or commit it follows. `failing` says whether reads of the ban fail;
`Authenticate` then admits a token that verifies (`IsBanned`: the ban is an extra condition whose own
trouble should lock nobody out), and nothing is cached. `seen` and `began` are history. `Stale(u)` are
the requests that carry an answer from before the ban of `u` to the cache; `BanOnlyDelayed` says
that during a ban they only get fewer, and that beside them only a read that fails lets a banned
account in.

**Registration.** A registration `r` reads the settings with a statement of its own
(`ReadSettings`, kept in `under`), begins its transaction (`BeginTx`, which fixes `now()` and so
`late`, before it waits for the advisory lock), looks for its name and address once it has the lock
(`CheckTaken`) and writes account and use of the invite together (`Commit`). Its steps inside the
lock are two, so that `LockFree` carries weight: no index covers the address. The failure of any
statement, a rollback and the end of the process are `Fail`. What `Register` does to memberships
is in `AdminAccess`.

**LimitedInvite** knows of an invite its size, its guests, whether it is closed or has lapsed, and who
came in time and waits. The mapping takes the guests from `invite_uses`, not from the counter that
`Commit` compares, and those who wait from the registrations whose transaction began before the end
of the invite: a registration that waited for the lock past that end is still admitted, as in the code.

**LoginGuard.** An attempt is admitted (`Admit`) or refused (`Refuse`) by one read of the counters
of every key it carries, the names it was sent with and its client address. `LogIn` is the password
check; a query that fails counts as a wrong password, as in `Login`. `RecordFailure` is the
transaction that counts all keys and sweeps some lapsed rows, `ClearFailures` deletes the rows of
the names and leaves the address, `FailOutcome` is the 503 when neither can be written, `GiveUp` a
client that leaves during the delay or an account that is banned. Rows live in the database, so the
end of a process changes nothing. A window is counted down by `Tick`. `guesses` is history: the
failures recorded in the present window of a key, and since its name was last used with the right
password; the guesses of an address are forgotten with its window only.

**AccessTokens.** One account. A request carries the rights of the site session that sent it
(`session`, as old as its token), begins its transaction (`BeginCreate`, `BeginEdit`) and waits
for the advisory lock: `CountTokens` then `InsertToken`, or `ReadScopes` (the row is locked too)
then `WriteScopes`. `Revoke` and `Delete` are statements that wait for the row only. An
introspection is two statements, `LookUp` and `ReadAccess`, and answers the intersection of the
scopes it read with the rights of now; `held` is history, the rights the account has had in between.
`Legacy` tokens have scopes from before they were restricted. `StripRetired` is the migration.

**Credential** knows of a token whether it is usable, its kind and the codes it stands for. The mapping
calls a row usable while it is neither revoked nor expired, and gives tokens that are over no power:
what an edit writes into a dead row is a stutter, and an edit that revived one has no counterpart.

**RateLimit.** A request takes the policy from the cache (`UsePolicy`) or reads and caches it
(`MissPolicy`, `ReadPolicy`, `FillPolicy`: three steps, because an invalidation can come between
them), finds its bucket under the lock of the table (`FindBucket`, with the sweep) and counts under
the lock of the bucket (`Count`). An introspection reads the clock (`BeginIntrospection`), waits for
the database, and counts with that reading (`Introspect`, which is `patBuckets.use`, all under one
lock) or not at all (`EndIntrospection`). Clock readings are ages, which stop where they make no
difference any more. `tally` and `answers` are history: the windows as they would be if no bucket
were ever lost.

**FixedWindow** has one window per key and neither a table nor a sweep. It is mapped to `answers`, so
the bucket a key has in the table, if any, must answer as that window does. Its `Slack` is how old a
reading of the clock may be: a window may be followed by the next that much too early, or go on that
much too long, and with `Slack = 0` it has its full length. Whatever the slack, the first uses up to
the limit are let through and only later ones refused.

**AuditRecorder.** A request stands for its entry. `CheckClosed` is the flag read by `Record`;
`Enqueue`, `Drop` and `SendOnClosed` are the branches of its `select`, the last one the panic on a
channel that `Close` closed in between. The goroutine takes a job, waits for the database
(`InsertRow`, `FailRow`) or closes the barrier of a Flush (`PassBarrier`). `Stall` is a database
that accepts a statement and does not answer, or answers again. `Restart` ends the process without
`Close`, as `main` does, and forgets the queue. `ahead` is history: what Flush has to wait for.

**LossyLog** is one line that entries and barriers join at the end and leave at the head. The job in
the goroutine's hand is the head of that line and the channel is the rest, so taking a job is a
stutter; a request that `Record` has not decided about is outside, and what became of an entry is
read off `fate`.

## Runs

| Run | Shows | Bounds |
|---|---|---|
| `grants` | safety of the pipeline and the refinement | 1 account, 1 client with 2 configurations, 1 request, 2 exchanges of its code (interchangeable), 1 revoker that runs again and again, 1 restart |
| `grants_live` | a wrong proof costs nobody the code; an allowed request is answered | client may be trusted, narrowed, disabled; one exchange with and one without the right proof; no restart |
| `admin_access` | an administrator remains, setup once, no orphan memberships, the ban guards as written | 2 accounts, 2 callers, groups `admin`, `member` and one made at run time, a retired code |
| `sessions` | ended tokens stay dead, refresh drops rights; a ban is delayed by answers that were under way and by reads that fail, and bans settle | 1 account, 3 flows, 2 requests that read or set the ban, 1 password change, 1 restart; `OneSide`: a login and two refreshes without bans, or one login with them |
| `registration` | invites are counted exactly and are `LimitedInvite`s, admission by the settings read, one account per address | 3 registrations with one invite (two with one address, one with a name an administrator gives away), invites of 1, 2 or 1000 uses, 2 changes of the settings |
| `login_guard` | guesses are bounded for names and addresses, whatever a login clears; a block ends | 3 attempts at a time without end, a name and an address of mail, 1 client address, limits 2 and 3, a window of 2 ticks, a counter up to 4 |
| `access_tokens` | quotas, tokens that are `Credential`s (MCP only narrows, what is dead has no power), edits that undo nothing, honest introspection | 2 requests (interchangeable), 1 legacy token, 1 introspection, limits 2 and 1, rights from everything to nothing, one retired code |
| `rate_limit` | the limit of requests holds, a policy that stays is obeyed; introspections are a `FixedWindow` | 2 requests of one caller without end, limits 1, 2 or switched off, 2 changes of the settings, here or elsewhere; 2 introspections under 2 keys with room for 1, each waiting up to 1 tick of a window of 2; `OneSide`: the one or the other |
| `audit_recorder` | the recorder is a `LossyLog`, Flush waits, requests do not, the queue drains | 3 entries, 1 Flush, a queue of 2, 1 restart, a database that stalls at will |
| `own_ban` | deviation: a stale read overwrites the cache entry of a ban in the same process | 1 account, 1 flow, 2 requests that read or set the ban |
| `limit_swept` | deviation: the sweep deletes the bucket just made | 2 callers, room for 1 bucket |
| `last_admin_demoted` | deviation: the guard of `SetUserGroups` counts banned administrators | 2 accounts, 1 caller |

Why these are enough: two exchanges are the least that can race for a code, one revoker suffices
because revocations exclude each other and may repeat, two callers are the least that can race past
a guard, and three flows allow a login whose token two refreshes fight for. Of three registrations
two can succeed, one more than an invite of one use admits, while the third races for an address.
Three attempts overshoot a limit by two, once for names (2) and once for addresses (3), and carry a
counter to its bound. Two requests are the least that can both see room in a quota or edit one
token, and a legacy token keeps scopes no request may ask for. With room for one bucket every second
key makes the table of introspections sweep, while the middleware's table of one caller never does.
Two entries fill the queue and the third finds it full while Flush's barrier waits for room. With two
introspections at a time one can overtake the other, and count with the later reading first; a wait of
one tick moves the edge of a window of two.

`OneSide` is a state constraint of two runs. In `sessions` it leaves out states in which bans and
refreshes occur together: which tokens a ban refuses does not depend on how they were made, and the
three flows race over rows and revocations, not over the cache of bans. In `rate_limit` it leaves out
states in which the limit of requests and the one of introspections have both been used: they share
the clock and nothing else. The theorems have no such constraint. `access_tokens` may
stop (every request and introspection ends), so deadlock is not checked there; it is everywhere else.

**Fairness.** `OAuthGrants`: a handler that runs, runs on (weak fairness of `IssueCode` or
`FailRequest` and of the steps of a revocation once it has the lock); the advisory lock is
granted in the order of arrival, hence strong fairness of `RecordConsent`, which needs it.
`Sessions`: a request that is about to write the ban cache writes it, and cache entries lapse as
time passes. `LoginGuard`: the database's clock goes on; attempts need not. `RateLimit`: a request
that has read or must read the policy goes on, an invalidation that is due happens, and five seconds
pass. `AuditRecorder`: the goroutine of the recorder and the one of a request in `Record` are
scheduled; nothing is assumed of the database except where `QueueDrains` says so itself. Nothing is
assumed of users, clients or administrators anywhere.

## Where the code and its comments part

Three runs check a sentence of the comments that the code does not keep; each is a finding in
`PROJECT.json` with the sentence and its line:

* `own_ban`: identity.go:249-251 says that a ban rewrites this process's cache at once, so that the
  5 s delay other processes only. `IsBanned` reads the database and writes the cache in two steps;
  a read from before the ban that writes after it (identity.go:291) puts "not banned" back, and the
  tokens of the account are accepted here until that entry lapses.
* `limit_swept`: `rateLimiter` sweeps after it has made a bucket and before it has counted in it; a
  bucket without `lastSeen` looks old and is deleted. Above 4096 callers a caller that has no bucket
  gets none, and is not limited. `patBuckets.use` sweeps first and says why.
* `last_admin_demoted`: `SetUserGroups` counts banned administrators, `SetUserBanned` does not; ban
  one of two and demote the other, and nobody who can log in administers.

Two more findings have a configuration of their own beside the runs; TLC violates the one invariant
of each within a few steps:

* `RateLimitOwnPolicy.cfg` (module `MCRateLimit`, `OwnPolicyAtOnce`): access.go:163-164, and again
  201 and 336, say that the instance which changes the rate limit obeys it at once. A `RateLimitPolicy`
  that read the old settings before `UpdateSettings` emptied the cache fills them in afterwards, for
  as long as an entry lasts.
* `AuditRecorderLostRow.cfg` (module `MCAuditRecorder`, `LostRowsCounted`): audit.go:8 says that lost
  rows are observable through counters, and audit.go:245 that `Dropped` and `Written` exist so that
  lost rows are seen. `loop` only logs an INSERT that fails: the row is in neither counter.
  `ImplementsLog` says what the counters do count; `Fail` of `LossyLog` moves none.

Other sentences that interleavings refute are stated as definitions, without a configuration:
`NoTokenFromRevokedCode` (an exchange past its UPDATE survives a revocation of its client),
`GrantedWasShown` (a client widened between page and link grants more than the page listed) and
`BannedHaveNoUserinfo` (a row inserted by such an exchange after a ban) in `OAuthGrants`;
`OldPasswordNotRenewed` in `Sessions` (a token from before a password change can be refreshed into a
new session); `BanKeepsAdmin` in `AdminAccess` (two concurrent bans pass the guard together, which is
why `UndisturbedBanKeepsAdmin` asks that nothing moved).

What a reader of the models should know beside that: an introspection counts with a clock read before
the database answered, without a deadline of its own, so the fixed minute of pat.go:278 holds up to
that wait only; a shutdown loses the audit queue; a failed query during a login is counted as a wrong
password; `LogoutAll` and password changes leave access tokens valid until they expire.

## Proofs

TLAPS proves for all values of the constants, from the named assumptions on them:

* `OAuthGrants`: `TypeOK`; `CodeRedeemedOnce`; `WrongProofKeepsCode`; `TokenWithinConsent`;
  `RevokedForGood`; `DeletedClientLeavesNothing`; and `ImplementsGrant`. The invariant behind the
  first says that an exchange past the UPDATE has its code out of the live state, and that such a
  code never becomes live again. The others rest on one lemma, `MovesStep`, about how a single step
  can move requests, codes and exchanges. `Audited` and `WithinCode` chain row, code and audit row;
  `Spent` is a state with nothing left of a request, and stays; `CascadeFollowed` says that the token
  of a row that cascaded away is revoked, about to be, or lapsed. The refinement splits the steps in
  two: the four that advance a request (consent, code, UPDATE, INSERT) map to `Consent`, `Mint`,
  `Redeem` and `Deliver`, and all others only end things (`Dwindling`), which maps to one `Close` of
  the requests concerned or to a stutter.
* `AdminAccess`: `TypeOK`; `AdminRemains`; `SetupOnce`; `DeletedGroupConfersNothing`;
  `UndisturbedBanKeepsAdmin`. `AdminRemains` is not inductive alone: it needs that accepted jobs
  never strip the wildcard (checked when a job begins, used when it commits), that system groups are
  not deleted, and that with more than one administrator another one is left (`AnotherAdmin`, by
  cardinality). The last one needs `GuardsHold`: a caller past the guards with nothing moved since
  leaves a usable administrator other than the one it bans.
* `Registration`: all its properties, and that revoking an invite ends it. `IInv` adds to them that an account exists only once its
  registration is decided and that it read the settings open (`Waiting`), and that what the holder
  of the lock found free is still free and nobody else holds it (`Holding`). The counter needs
  `Guests` finite, hence the assumption that people are finitely many. `InvitesRefined` takes each
  step to LimitedInvite: `InviteAccounting` turns the comparison of the counter into one of the guests.
* `Sessions`: `TypeOK` together with `Replaces` (a refresh under way knows which token it
  replaces: otherwise its revocation could leave the type); `RenewalDropsRights` from
  `RightsSeen` (rights in a token are rights seen by its flow); `EndedStaysEnded` from
  `DeadBeforeDeleted` (memory is changed before the row, and only tokens that were handed out are
  logged out or replaced) and `DeadStep` (but for a restart, memory forgets only what has expired).
  `BanDelayed` (the property `BanOnlyDelayed`) needs two facts about a step
  during a ban: a cache that does not say "clear" lets no token of the account through unless reads
  fail, and only a request that was stale before the step writes "clear": a failed read writes nothing.
* `LoginGuard`: `TypeOK`, `OvershootBounded`, and that no step but the end of its window lowers the
  failures of an address (`AddressBudgetKept`). `Budgeted` says that what has been
  guessed under a key and what is still under way stay together within the bound, once the limit is
  reached; `Recorded` that failures do not fall behind guesses below the bound of the column.
* `AccessTokens`: all its properties, and as theorems of their own that MCP credentials never widen and
  that dead tokens stay dead. `Locked` (one transaction inside the lock) carries `Counting`
  (whoever has counted has room for one more) and `Reading` (the scopes an edit has read are those of
  the row until it writes); `Witnessing` keeps the present rights in `held`. `CredentialsRefined` uses
  them for `Issue` and `Edit`, with `Asking`: a request that creates asks for something, and a token
  without a row has not expired.
* `RateLimit`: `TypeOK`, which needs that memory holds an unused bucket for a caller without one
  (counted from the assumption on `Buckets`); `LimiterRefined` for every size of the table and every
  `MaxWait`, from `Together` (a bucket began and was last seen at most `MaxWait` before what its window
  would say, it has counted the same up to the limit, and a key whose bucket was swept has a window
  that may be over); `LimitHolds` under the premise that the table has room for every caller, which
  `limit_swept` shows to be needed.
* `AuditRecorder`: `TypeOK` and `FlushWaits`. `Behind` says that the barrier of a Flush stands behind
  every entry it waits for, or that the entry is in the goroutine's hand; `InLine` that a queued entry
  is in the queue or in that hand. `LogRefined` rests on four lemmas about the line: what joins the
  queue joins it, what leaves the hand leaves it, and a job on its way from queue to hand does not
  move it.

The assumptions are on the constants only: sets are finite where something in them is counted, sets
that must not meet are disjoint, limits are positive, and the seed gives the administrators the
wildcard.

The refinements are proved step by step: initial states map to initial states, and under the
inductive invariant every step maps to a step of the abstract module or to a stutter. The abstract
modules state safety only, so nothing of fairness is lost. Every invariant, action property and
refinement that a passing run checks is a theorem as well. Only model-checked are the liveness properties `AllowAnswered`, `BanSettles`, `BlockEnds`,
`PolicySettles`, `RecordReturns` and `QueueDrains`: liveness under fairness is out of the prover's
reach, as are ENABLED and induction over data.

## Not modelled

Signatures, hashing and randomness are taken to do their job: a token, a code and a password are
what they name. Scope strings, redirect URIs, client names and localized texts are left out, as
are the mode without a token issuer (tokens are then rows only), secret rotation, id_tokens,
lists and searches, the length of the delay before a login, `last_used_at` of tokens, and what an
audit entry says. Reads fail in the models where the code turns a failure into an answer: a ban that
cannot be read, settings that cannot, a login whose query fails, counters of failed logins. How long an
introspection waits for the database is bounded by `MaxWait` in `RateLimit`; the code has no bound, and
the theorem holds for every value. `RecordSync` has no caller, and
the login guard's table in memory serves the unit tests only. The quota and the
ownership of developer applications are two conditions around the client transactions that
`OAuthGrants` has. Several replicas are modelled where they share rows only; each has caches and
buckets of its own. Front ends hold no state the service relies on.

## Plan

Done: the eight components above with their proofs, and the five abstract specifications
(`OneTimeGrant`, `LimitedInvite`, `Credential`, `FixedWindow`, `LossyLog`) with their refinements. Left:

1. `DeveloperApps`: quota and ownership around the client transactions, with the overshoot of the
   quota stated as for logins.
2. An abstract specification of a session (issued, renewed with no more than the rights of now,
   ended) that `Sessions` implements, with the revocations a restart forgets as its only exception.
3. Pure operators over bounded inputs: the client address behind trusted proxies, the normalisation
   of scope lists.
4. A composition of `Sessions` and `AccessTokens` with `AdminAccess`, in which one ban ends
   sessions, grants and introspections together.
