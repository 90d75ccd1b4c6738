---------------------------- MODULE AdminAccess ----------------------------
(***************************************************************************)
(* Who may administer the instance: accounts, permission groups,           *)
(* memberships and bans, as the administrators' handlers change them       *)
(* concurrently.                                                           *)
(*                                                                         *)
(* A handler is a caller that begins a job with the permissions its token  *)
(* carries (as old as the token) and ends with one transaction of          *)
(* Store.write.  Those transactions exclude each other, so each is one     *)
(* step; SetUserBanned alone reads its guards before it, outside any       *)
(* transaction.                                                            *)
(***************************************************************************)
EXTENDS Naturals, FiniteSets

CONSTANTS
  Users, Groups, Codes, Callers,
  System,        \* the groups of the seed, "admin" and "member" among them
  Seed,          \* the permission codes the seed declares for each of them
  Retired,       \* codes that were removed from the catalogue
  GroupSets,     \* the memberships an administrator may assign
  JoinSets,      \* the groups registration may be set up to assign
  CodeSets       \* the permission lists an administrator may write

ASSUME GroupAssumption ==
  /\ IsFiniteSet(Users)
  /\ {"admin", "member"} \subseteq System /\ System \subseteq Groups
  /\ GroupSets \cup JoinSets \subseteq SUBSET Groups

ASSUME CodeAssumption ==
  /\ {"*", "auth.users.manage", "auth.groups.manage"} \subseteq Codes \ Retired
  /\ Retired \subseteq Codes
  /\ Seed \in [System -> SUBSET (Codes \ Retired)] /\ Seed["admin"] = {"*"}
  /\ CodeSets \subseteq SUBSET Codes

VARIABLES
  accounts,   \* rows of auth.users
  banned,     \* those with banned = true
  exists,     \* rows of auth.groups
  codes,      \* their permissions
  member,     \* auth.user_groups
  claims,     \* the permissions in the token an account presents
  pc, job,    \* where a caller stands, and with what
  founders,   \* history: accounts that setup created
  moved       \* history: callers since whose first read a membership or a
              \* ban has changed

accessVars == <<accounts, banned, exists, codes, member>>
vars == <<accessVars, claims, pc, job, founders, moved>>

-----------------------------------------------------------------------------
Steps == {"idle", "begun", "counting", "guarded", "committed"}
Granting == {"ban", "unban", "set_groups", "create_user"}

NoJob == [op |-> "none"]
UserJobs == [op : {"ban", "unban", "create_user"}, actor : Users, user : Users]
MemberJobs == [op : {"set_groups"}, actor : Users, user : Users, groups : GroupSets]
WriteJobs ==
  [op : {"create_group", "update_group"}, actor : Users, group : Groups, codes : CodeSets]
DeleteJobs == [op : {"delete_group"}, actor : Users, group : Groups]
Jobs == UserJobs \cup MemberJobs \cup WriteJobs \cup DeleteJobs

TypeOK ==
  /\ accounts \in SUBSET Users
  /\ banned \in SUBSET accounts
  /\ exists \in SUBSET Groups
  /\ codes \in [Groups -> SUBSET Codes]
  /\ member \in [Users -> SUBSET Groups]
  /\ claims \in [Users -> SUBSET Codes]
  /\ pc \in [Callers -> Steps]
  /\ job \in [Callers -> Jobs \cup {NoJob}]
  /\ founders \in SUBSET accounts
  /\ moved \in SUBSET Callers

-----------------------------------------------------------------------------
\* HasPermission and Can: the wildcard holds every code.
Can(perms, code) == perms \cap {"*", code} # {}

\* ExpandPermissions: the codes of all groups; the wildcard absorbs the others.
Expanded(u) ==
  LET all == UNION {codes[g] : g \in member[u]}
  IN IF "*" \in all THEN {"*"} ELSE all

Admins == {u \in accounts : "admin" \in member[u]}
UsableAdmins == Admins \ banned

\* The account's token still passes Authenticate: it is not banned, or its ban
\* is committed and not yet in the cache of this process.
Admitted(u) ==
  \/ u \notin banned
  \/ \E c \in Callers : pc[c] = "committed" /\ job[c].user = u

\* The permission a job requires.
Required(j) ==
  IF j.op \in Granting THEN "auth.users.manage" ELSE "auth.groups.manage"

\* Variant with a fault: the wildcard of the administrators' group can be edited away.
AcceptedStrip(j) == j.op = "ban" => j.actor # j.user

\* What a handler refuses before it touches the database.
Accepted(j) ==
  /\ j.op = "ban" => j.actor # j.user
  /\ j.op = "update_group" /\ j.group = "admin" => "*" \in j.codes

Init ==
  /\ accounts = {}
  /\ banned = {}
  /\ exists = System
  /\ codes = [g \in Groups |-> IF g \in System THEN Seed[g] ELSE {}]
  /\ member = [u \in Users |-> {}]
  /\ claims = [u \in Users |-> {}]
  /\ pc = [c \in Callers |-> "idle"]
  /\ job = [c \in Callers |-> NoJob]
  /\ founders = {}
  /\ moved = {}

-----------------------------------------------------------------------------
(* Accounts that appear without an administrator. *)

\* Variant with a fault: the count is not taken again inside the transaction.
SetupOpenAlways == TRUE

\* CreateUser counts the accounts inside its transaction.
SetupOpen == accounts = {}

\* POST /setup: the first account, in the administrators' group.
Setup(u) ==
  /\ u \notin accounts
  /\ SetupOpen
  /\ accounts' = accounts \cup {u}
  /\ founders' = founders \cup {u}
  /\ member' = [member EXCEPT ![u] = {"admin"}]
  /\ moved' = Callers
  /\ UNCHANGED <<banned, exists, codes, claims, pc, job>>

\* Register: an administrator has opened it and chosen the default groups;
\* those that do not exist are skipped.
Register(u, groups) ==
  /\ u \notin accounts
  /\ accounts # {}
  /\ accounts' = accounts \cup {u}
  /\ member' = [member EXCEPT ![u] = groups \cap exists]
  /\ moved' = Callers
  /\ UNCHANGED <<banned, exists, codes, claims, pc, job, founders>>

\* A login, a refresh, or a session row behind a lapsed JWT: the token speaks
\* for the groups of now.
IssueToken(u) ==
  /\ u \in accounts \ banned
  /\ claims' = [claims EXCEPT ![u] = Expanded(u)]
  /\ UNCHANGED <<accessVars, pc, job, founders, moved>>

\* Migrate: the seed is filled in, retired codes are removed.
Backfilled(g) ==
  IF g \in System /\ "*" \notin codes[g] THEN codes[g] \cup Seed[g] ELSE codes[g]

Migrate ==
  /\ exists' = exists \cup System
  /\ codes' = [g \in Groups |-> Backfilled(g) \ Retired]
  /\ UNCHANGED <<accounts, banned, member, claims, pc, job, founders, moved>>

-----------------------------------------------------------------------------
(* Administrators' jobs. *)

Known(j) == j.op \in {"ban", "unban", "set_groups"} => j.user \in accounts

\* requirePermission and the checks of the store that read no table.  An account
\* can be named once it exists: its id is drawn when it is created.
Begin(c, j) ==
  /\ pc[c] = "idle"
  /\ j.actor \in accounts
  /\ Admitted(j.actor)
  /\ Known(j)
  /\ Can(claims[j.actor], Required(j))
  /\ Accepted(j)
  /\ pc' = [pc EXCEPT ![c] = "begun"]
  /\ job' = [job EXCEPT ![c] = j]
  /\ UNCHANGED <<accessVars, claims, founders, moved>>

\* Any check or statement fails: the transaction is rolled back.
FailJob(c) ==
  /\ pc[c] \notin {"idle", "committed"}
  /\ pc' = [pc EXCEPT ![c] = "idle"]
  /\ job' = [job EXCEPT ![c] = NoJob]
  /\ UNCHANGED <<accessVars, claims, founders, moved>>

\* The job of caller c has op as its operation and commits in this step.
Commits(c, step, op) ==
  /\ pc[c] = step
  /\ job[c].op = op
  /\ pc' = [pc EXCEPT ![c] = "idle"]
  /\ job' = [job EXCEPT ![c] = NoJob]

\* First read of SetUserBanned: is the account an administrator?
ReadIsAdmin(c) ==
  /\ pc[c] = "begun"
  /\ job[c].op = "ban"
  /\ job[c].user \in accounts
  /\ pc' = [pc EXCEPT ![c] = IF job[c].user \in Admins THEN "counting" ELSE "guarded"]
  /\ moved' = moved \ {c}
  /\ UNCHANGED <<accessVars, claims, job, founders>>

\* Variant with a fault: banned administrators are counted.
CountedAll == Admins

\* The administrators the second read counts.
Counted == UsableAdmins

\* Second read of SetUserBanned.
CountAdmins(c) ==
  /\ pc[c] = "counting"
  /\ Cardinality(Counted) > 1
  /\ pc' = [pc EXCEPT ![c] = "guarded"]
  /\ UNCHANGED <<accessVars, claims, job, founders, moved>>

\* The transaction of a ban, which does not look at the guards again.
CommitBan(c) ==
  /\ pc[c] = "guarded"
  /\ banned' = banned \cup {job[c].user}
  /\ pc' = [pc EXCEPT ![c] = "committed"]
  /\ moved' = Callers
  /\ UNCHANGED <<accounts, exists, codes, member, claims, job, founders>>

\* cacheBan, after the commit.
CacheBan(c) ==
  /\ Commits(c, "committed", "ban")
  /\ UNCHANGED <<accessVars, claims, founders, moved>>

CommitUnban(c) ==
  /\ Commits(c, "begun", "unban")
  /\ job[c].user \in accounts
  /\ banned' = banned \ {job[c].user}
  /\ moved' = Callers
  /\ UNCHANGED <<accounts, exists, codes, member, claims, founders>>

\* Variant with a fault: an off-by-one in the count of administrators.
MayLeaveAdminLast(u, groups) == "admin" \in groups \/ u \notin Admins \/ Cardinality(Admins) > 0

\* The guard of SetUserGroups, inside its transaction: banned ones count.
MayLeaveAdmin(u, groups) ==
  "admin" \in groups \/ u \notin Admins \/ Cardinality(Admins) > 1

CommitSetGroups(c) ==
  LET u == job[c].user
      groups == job[c].groups
  IN /\ Commits(c, "begun", "set_groups")
     /\ u \in accounts
     /\ groups \subseteq exists
     /\ MayLeaveAdmin(u, groups)
     /\ member' = [member EXCEPT ![u] = groups]
     /\ moved' = Callers
     /\ UNCHANGED <<accounts, banned, exists, codes, claims, founders>>

\* Variant with a fault: the permissions of the group for the group.
DefaultGroupsCodes == codes["member"]

\* The groups of an account that an administrator creates.
DefaultGroups == {"member"} \cap exists

CommitCreateUser(c) ==
  LET u == job[c].user
  IN /\ Commits(c, "begun", "create_user")
     /\ u \notin accounts
     /\ accounts' = accounts \cup {u}
     /\ member' = [member EXCEPT ![u] = DefaultGroups]
     /\ moved' = Callers
     /\ UNCHANGED <<banned, exists, codes, claims, founders>>

CommitCreateGroup(c) ==
  LET g == job[c].group
  IN /\ Commits(c, "begun", "create_group")
     /\ g \notin exists
     /\ exists' = exists \cup {g}
     /\ codes' = [codes EXCEPT ![g] = job[c].codes]
     /\ UNCHANGED <<accounts, banned, member, claims, founders, moved>>

CommitUpdateGroup(c) ==
  LET g == job[c].group
  IN /\ Commits(c, "begun", "update_group")
     /\ g \in exists
     /\ codes' = [codes EXCEPT ![g] = job[c].codes]
     /\ UNCHANGED <<accounts, banned, exists, member, claims, founders, moved>>

\* Variant with a fault: the memberships stay behind.
WithoutKept(g) == member

\* ON DELETE CASCADE from auth.groups to auth.user_groups.
Without(g) == [u \in Users |-> member[u] \ {g}]

\* A system group stays.
CommitDeleteGroup(c) ==
  LET g == job[c].group
  IN /\ Commits(c, "begun", "delete_group")
     /\ g \in exists \ System
     /\ exists' = exists \ {g}
     /\ codes' = [codes EXCEPT ![g] = {}]
     /\ member' = Without(g)
     /\ moved' = Callers
     /\ UNCHANGED <<accounts, banned, claims, founders>>

-----------------------------------------------------------------------------
Call(c) ==
  \/ \E j \in Jobs : Begin(c, j)
  \/ FailJob(c) \/ ReadIsAdmin(c) \/ CountAdmins(c) \/ CommitBan(c) \/ CacheBan(c)
  \/ CommitUnban(c) \/ CommitSetGroups(c) \/ CommitCreateUser(c)
  \/ CommitCreateGroup(c) \/ CommitUpdateGroup(c) \/ CommitDeleteGroup(c)

Next ==
  \/ \E c \in Callers : Call(c)
  \/ \E u \in Users : Setup(u) \/ IssueToken(u)
  \/ \E u \in Users, groups \in JoinSets : Register(u, groups)
  \/ Migrate

Spec == Init /\ [][Next]_vars

-----------------------------------------------------------------------------
(* Safety. *)

\* Once the instance is set up, the administrators' group exists, holds the
\* wildcard and has a member: no interleaving of assignments, group edits, bans
\* and migrations takes the last administrator out of it.
AdminRemains ==
  /\ "admin" \in exists /\ "*" \in codes["admin"]
  /\ accounts # {} => Admins # {}

\* Setup creates the first account and no other, although any number of callers
\* may have been told that setup is needed.
SetupOnce == accounts # {} => \E u \in Users : founders = {u}

\* A deleted group confers nothing: no membership outlives it, so a new group
\* of the same code starts without members; system groups are never deleted.
DeletedGroupConfersNothing ==
  System \subseteq exists /\ \A u \in Users : member[u] \subseteq exists

\* While nothing else changes a membership or a ban, SetUserBanned keeps an
\* administrator who can log in: the guards as they were written.
UndisturbedBanKeepsAdmin ==
  [][\A c \in Callers :
       CommitBan(c) /\ c \notin moved /\ UsableAdmins # {} => UsableAdmins' # {}]_vars

(* Claims of the repository's comments that the interleavings refute. *)

\* SetUserBanned: nor may the last administrator who can log in be banned.
BanKeepsAdmin ==
  [][banned' # banned /\ UsableAdmins # {} => UsableAdmins' # {}]_vars

\* SetUserGroups: the last administrator cannot be moved out of the group, or
\* the instance would lose its way in.
DemotionKeepsAdmin ==
  [][member' # member /\ UsableAdmins # {} => UsableAdmins' # {}]_vars

=============================================================================
