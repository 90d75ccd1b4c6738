------------------------ MODULE AdminAccess_proofs ------------------------
(***************************************************************************)
(* What holds of AdminAccess for any number of accounts, groups and        *)
(* concurrent callers.                                                     *)
(***************************************************************************)
EXTENDS AdminAccess, FiniteSetTheorems, TLAPS

\* What the record of a job holds, by its operation.
LEMMA JobShape ==
  ASSUME NEW j \in Jobs \cup {NoJob}
  PROVE  /\ j.op \in {"ban", "unban", "create_user"} => j.user \in Users
         /\ j.op = "set_groups" => j.user \in Users /\ j.groups \in GroupSets
         /\ j.op \in {"create_group", "update_group"} => j.group \in Groups /\ j.codes \in CodeSets
         /\ j.op = "delete_group" => j.group \in Groups
BY DEF Jobs, UserJobs, MemberJobs, WriteJobs, DeleteJobs, NoJob

\* A caller past its first read is banning an account that exists.
Banning ==
  \A c \in Callers : pc[c] \notin {"idle", "begun"} =>
    job[c].op = "ban" /\ job[c].user \in accounts

TypeInv == TypeOK /\ Banning

\* The steps by which a caller goes on without a commit.
LEMMA ReadType ==
  ASSUME TypeInv, NEW c \in Callers,
         \/ \E j \in Jobs : Begin(c, j)
         \/ FailJob(c) \/ ReadIsAdmin(c) \/ CountAdmins(c)
  PROVE  TypeInv'
<1>1. ASSUME NEW j \in Jobs, Begin(c, j) PROVE TypeInv'
  BY <1>1 DEF Begin, TypeInv, TypeOK, Banning, Steps, accessVars
<1>2. CASE FailJob(c)
  BY <1>2 DEF FailJob, TypeInv, TypeOK, Banning, Steps, accessVars
<1>3. CASE ReadIsAdmin(c)
  BY <1>3 DEF ReadIsAdmin, TypeInv, TypeOK, Banning, Steps, accessVars
<1>4. CASE CountAdmins(c)
  BY <1>4 DEF CountAdmins, TypeInv, TypeOK, Banning, Steps, accessVars
<1> QED
  BY <1>1, <1>2, <1>3, <1>4

\* The bookkeeping of a commit that ends a job.
LEMMA CommitsType ==
  ASSUME TypeInv, NEW c \in Callers, NEW step, NEW op, Commits(c, step, op),
         accounts \subseteq accounts'
  PROVE  /\ pc' \in [Callers -> Steps]
         /\ job' \in [Callers -> Jobs \cup {NoJob}]
         /\ Banning'
BY DEF Commits, TypeInv, TypeOK, Banning, Steps

\* The commits that change bans, accounts and memberships.
LEMMA GrantType ==
  ASSUME TypeInv, NEW c \in Callers,
         \/ CommitBan(c) \/ CacheBan(c) \/ CommitUnban(c) \/ CommitSetGroups(c)
         \/ CommitCreateUser(c)
  PROVE  TypeInv'
<1> USE GroupAssumption
<1>0. job[c] \in Jobs \cup {NoJob}
  BY DEF TypeInv, TypeOK
<1>1. CASE CommitBan(c)
  BY <1>1 DEF CommitBan, TypeInv, TypeOK, Banning, Steps
<1>2. CASE CacheBan(c)
  <2>1. accounts' = accounts
    BY <1>2 DEF CacheBan, accessVars
  <2> QED
    BY <1>2, <2>1, CommitsType DEF CacheBan, TypeInv, TypeOK, accessVars
<1>3. CASE CommitUnban(c)
  BY <1>3, CommitsType DEF CommitUnban, TypeInv, TypeOK
<1>4. CASE CommitSetGroups(c)
  <2>1. job[c].user \in Users /\ job[c].groups \in SUBSET Groups
    BY <1>0, <1>4, JobShape DEF CommitSetGroups, Commits
  <2> QED
    BY <1>4, <2>1, CommitsType DEF CommitSetGroups, TypeInv, TypeOK
<1>5. CASE CommitCreateUser(c)
  <2>1. job[c].user \in Users /\ DefaultGroups \in SUBSET Groups
    BY <1>0, <1>5, JobShape DEF CommitCreateUser, Commits, DefaultGroups
  <2> QED
    BY <1>5, <2>1, CommitsType DEF CommitCreateUser, TypeInv, TypeOK
<1> QED
  BY <1>1, <1>2, <1>3, <1>4, <1>5

\* The commits that change the groups themselves.
LEMMA GroupType ==
  ASSUME TypeInv, NEW c \in Callers,
         CommitCreateGroup(c) \/ CommitUpdateGroup(c) \/ CommitDeleteGroup(c)
  PROVE  TypeInv'
<1> USE GroupAssumption, CodeAssumption
<1>0. job[c] \in Jobs \cup {NoJob}
  BY DEF TypeInv, TypeOK
<1>1. CASE CommitCreateGroup(c)
  <2>1. job[c].group \in Groups /\ job[c].codes \in SUBSET Codes
    BY <1>0, <1>1, JobShape DEF CommitCreateGroup, Commits
  <2> QED
    BY <1>1, <2>1, CommitsType DEF CommitCreateGroup, TypeInv, TypeOK
<1>2. CASE CommitUpdateGroup(c)
  <2>1. job[c].group \in Groups /\ job[c].codes \in SUBSET Codes
    BY <1>0, <1>2, JobShape DEF CommitUpdateGroup, Commits
  <2> QED
    BY <1>2, <2>1, CommitsType DEF CommitUpdateGroup, TypeInv, TypeOK
<1>3. CASE CommitDeleteGroup(c)
  <2>1. Without(job[c].group) \in [Users -> SUBSET Groups]
    BY DEF Without, TypeInv, TypeOK
  <2> QED
    BY <1>3, <2>1, CommitsType DEF CommitDeleteGroup, TypeInv, TypeOK
<1> QED
  BY <1>1, <1>2, <1>3

\* The strengthened type invariant: no caller bans an account that does not exist.
LEMMA TypeInvariant == Spec => []TypeInv
<1> USE GroupAssumption, CodeAssumption
<1>1. Init => TypeInv
  <2> SUFFICES ASSUME Init PROVE TypeInv
    OBVIOUS
  <2>1. codes \in [Groups -> SUBSET Codes]
    BY DEF Init
  <2> QED
    BY <2>1 DEF Init, TypeInv, TypeOK, Banning, Steps
<1>2. TypeInv /\ [Next]_vars => TypeInv'
  <2> SUFFICES ASSUME TypeInv, [Next]_vars PROVE TypeInv'
    OBVIOUS
  <2>1. ASSUME NEW c \in Callers, Call(c) PROVE TypeInv'
    BY <2>1, ReadType, GrantType, GroupType DEF Call
  <2>2. ASSUME NEW u \in Users, Setup(u) PROVE TypeInv'
    BY <2>2 DEF Setup, TypeInv, TypeOK, Banning
  <2>3. ASSUME NEW u \in Users, NEW groups \in JoinSets, Register(u, groups) PROVE TypeInv'
    BY <2>3 DEF Register, TypeInv, TypeOK, Banning
  <2>4. ASSUME NEW u \in Users, IssueToken(u) PROVE TypeInv'
    <3>1. Expanded(u) \in SUBSET Codes
      BY DEF Expanded, TypeInv, TypeOK
    <3> QED
      BY <2>4, <3>1 DEF IssueToken, TypeInv, TypeOK, Banning, accessVars
  <2>5. CASE Migrate
    <3>1. codes' \in [Groups -> SUBSET Codes]
      BY <2>5 DEF Migrate, Backfilled, TypeInv, TypeOK
    <3> QED
      BY <2>5, <3>1 DEF Migrate, TypeInv, TypeOK, Banning
  <2>6. CASE UNCHANGED vars
    BY <2>6 DEF vars, accessVars, TypeInv, TypeOK, Banning
  <2> QED
    BY <2>1, <2>2, <2>3, <2>4, <2>5, <2>6 DEF Next
<1> QED
  BY <1>1, <1>2, PTL DEF Spec

\* The variables of the administrators' handlers keep their types.
THEOREM TypeCorrect == Spec => []TypeOK
<1>1. TypeInv => TypeOK
  BY DEF TypeInv
<1> QED
  BY <1>1, TypeInvariant, PTL
-----------------------------------------------------------------------------
(***************************************************************************)
(* The administrators' group never runs empty.  The guard of SetUserGroups  *)
(* counts inside the transaction, so it suffices that a set of more than    *)
(* one administrator has another one left.                                  *)
(***************************************************************************)

\* What the handler refused cannot be in flight.
JobsAccepted == \A c \in Callers : job[c] # NoJob => Accepted(job[c])

\* A guard that counts more than one administrator leaves one.
LEMMA AnotherAdmin ==
  ASSUME TypeInv, NEW u \in Users, Cardinality(Admins) > 1
  PROVE  \E v \in Admins : v # u
<1> SUFFICES ASSUME \A v \in Admins : v = u PROVE FALSE
  OBVIOUS
<1>1. Admins \subseteq {u}
  OBVIOUS
<1>2. Cardinality({u}) = 1 /\ IsFiniteSet({u})
  BY FS_Singleton
<1>3. Cardinality(Admins) \in Nat /\ Cardinality(Admins) <= 1
  BY <1>1, <1>2, FS_Subset, FS_CardinalityType
<1> QED
  BY <1>3

\* A job has an actor, so there is an account.
Staffed == \A c \in Callers : job[c] # NoJob => accounts # {}

AccessInv == TypeInv /\ JobsAccepted /\ Staffed /\ AdminRemains

LEMMA StaffedStep ==
  ASSUME TypeInv, Staffed, [Next]_vars
  PROVE  Staffed' /\ (accounts # {} => accounts' # {})
<1>1. ASSUME NEW c \in Callers, NEW j \in Jobs, Begin(c, j) PROVE Staffed' /\ accounts' = accounts
  BY <1>1 DEF Begin, Staffed, accessVars
<1>2. ASSUME \A c \in Callers : job'[c] # NoJob => job[c] # NoJob, accounts \subseteq accounts'
      PROVE  Staffed' /\ (accounts # {} => accounts' # {})
  BY <1>2 DEF Staffed
<1>3. ASSUME NEW c \in Callers, Call(c) PROVE Staffed' /\ (accounts # {} => accounts' # {})
  <2>1. ASSUME job' = [job EXCEPT ![c] = NoJob] \/ job' = job, accounts \subseteq accounts'
        PROVE  Staffed' /\ (accounts # {} => accounts' # {})
    BY <1>2, <2>1 DEF TypeInv, TypeOK
  <2> QED
    BY <1>1, <1>3, <2>1 DEF Call, FailJob, ReadIsAdmin, CountAdmins, CommitBan, CacheBan,
      CommitUnban, CommitSetGroups, CommitCreateUser, CommitCreateGroup, CommitUpdateGroup,
      CommitDeleteGroup, Commits, accessVars
<1> QED
  BY <1>2, <1>3 DEF Next, Setup, Register, IssueToken, Migrate, vars, accessVars

LEMMA JobsAcceptedStep ==
  ASSUME TypeInv, JobsAccepted, [Next]_vars
  PROVE  JobsAccepted'
<1>1. ASSUME job' = job PROVE JobsAccepted'
  BY <1>1 DEF JobsAccepted, Accepted
<1>2. ASSUME NEW c \in Callers, NEW j \in Jobs, Begin(c, j) PROVE JobsAccepted'
  BY <1>2 DEF Begin, JobsAccepted, Accepted, TypeInv, TypeOK
<1>3. ASSUME NEW c \in Callers, job' = [job EXCEPT ![c] = NoJob] PROVE JobsAccepted'
  BY <1>3 DEF JobsAccepted, Accepted, TypeInv, TypeOK
<1>4. ASSUME NEW c \in Callers, Call(c) PROVE JobsAccepted'
  BY <1>1, <1>2, <1>3, <1>4 DEF Call, FailJob, ReadIsAdmin, CountAdmins, CommitBan, CacheBan,
    CommitUnban, CommitSetGroups, CommitCreateUser, CommitCreateGroup, CommitUpdateGroup,
    CommitDeleteGroup, Commits
<1> QED
  BY <1>1, <1>4 DEF Next, Setup, Register, IssueToken, Migrate, vars

\* The administrators' group stays, with its wildcard.
LEMMA WildcardStep ==
  ASSUME TypeInv, JobsAccepted, AdminRemains, [Next]_vars
  PROVE  "admin" \in exists' /\ "*" \in codes'["admin"]
<1> USE GroupAssumption, CodeAssumption DEF AdminRemains
<1>1. ASSUME NEW c \in Callers, CommitCreateGroup(c)
      PROVE  "admin" \in exists' /\ "*" \in codes'["admin"]
  BY <1>1 DEF CommitCreateGroup, TypeInv, TypeOK
<1>2. ASSUME NEW c \in Callers, CommitUpdateGroup(c)
      PROVE  "admin" \in exists' /\ "*" \in codes'["admin"]
  <2>1. job[c].group = "admin" => "*" \in job[c].codes
    BY <1>2 DEF CommitUpdateGroup, Commits, JobsAccepted, Accepted, NoJob
  <2> QED
    BY <1>2, <2>1 DEF CommitUpdateGroup, TypeInv, TypeOK
<1>3. ASSUME NEW c \in Callers, CommitDeleteGroup(c)
      PROVE  "admin" \in exists' /\ "*" \in codes'["admin"]
  BY <1>3 DEF CommitDeleteGroup, TypeInv, TypeOK
<1>4. CASE Migrate
  BY <1>4 DEF Migrate, Backfilled
<1>5. CASE UNCHANGED <<exists, codes>>
  BY <1>5
<1> QED
  BY <1>1, <1>2, <1>3, <1>4, <1>5 DEF Next, Call, Begin, FailJob, ReadIsAdmin, CountAdmins,
    CommitBan, CacheBan, CommitUnban, CommitSetGroups, CommitCreateUser, Setup, Register,
    IssueToken, vars, accessVars

\* The administrators' group keeps a member.
LEMMA MemberStep ==
  ASSUME TypeInv, Staffed, AdminRemains, [Next]_vars
  PROVE  accounts' # {} => Admins' # {}
<1> USE GroupAssumption DEF AdminRemains, Admins
<1>0. ASSUME NEW c \in Callers PROVE job[c] \in Jobs \cup {NoJob}
  BY DEF TypeInv, TypeOK
<1>1. ASSUME NEW c \in Callers, CommitSetGroups(c)
      PROVE  Admins' # {}
  <2> DEFINE u == job[c].user
  <2>1. u \in Users /\ u \in accounts
    BY <1>0, <1>1, JobShape DEF CommitSetGroups, Commits
  <2>2. CASE "admin" \in job[c].groups
    BY <1>1, <2>1, <2>2 DEF CommitSetGroups, TypeInv, TypeOK
  <2>3. CASE u \notin Admins
    BY <1>1, <2>1, <2>3 DEF CommitSetGroups, TypeInv, TypeOK
  <2>4. CASE Cardinality(Admins) > 1
    <3>1. PICK v \in Admins : v # u
      BY <2>1, <2>4, AnotherAdmin
    <3> QED
      BY <1>1, <2>1, <3>1 DEF CommitSetGroups, TypeInv, TypeOK
  <2> QED
    BY <1>1, <2>2, <2>3, <2>4 DEF CommitSetGroups, MayLeaveAdmin
<1>2. ASSUME NEW c \in Callers, CommitCreateUser(c)
      PROVE  accounts # {} => Admins' # {}
  <2>1. job[c].user \in Users
    BY <1>0, <1>2, JobShape DEF CommitCreateUser, Commits
  <2> QED
    BY <1>2, <2>1 DEF CommitCreateUser, TypeInv, TypeOK
<1>3. ASSUME NEW c \in Callers, CommitDeleteGroup(c)
      PROVE  accounts' # {} => Admins' # {}
  <2>1. job[c].group # "admin"
    BY <1>3 DEF CommitDeleteGroup
  <2> QED
    BY <1>3, <2>1 DEF CommitDeleteGroup, Without, TypeInv, TypeOK
<1>4. ASSUME NEW u \in Users, Setup(u)
      PROVE  Admins' # {}
  BY <1>4 DEF Setup, TypeInv, TypeOK
<1>5. ASSUME NEW u \in Users, NEW groups \in JoinSets, Register(u, groups)
      PROVE  Admins' # {}
  BY <1>5 DEF Register, TypeInv, TypeOK
<1>6. CASE UNCHANGED <<accounts, member>>
  BY <1>6
<1>7. ASSUME NEW c \in Callers, Call(c)
      PROVE  accounts' # {} => Admins' # {}
  <2>1. \/ CommitSetGroups(c) \/ CommitCreateUser(c) \/ CommitDeleteGroup(c)
        \/ UNCHANGED <<accounts, member>>
    BY <1>7 DEF Call, Begin, FailJob, ReadIsAdmin, CountAdmins, CommitBan, CacheBan,
      CommitUnban, CommitCreateGroup, CommitUpdateGroup, accessVars
  <2>2. CASE CommitCreateUser(c)
    <3>1. accounts # {}
      BY <2>2 DEF CommitCreateUser, Commits, Staffed, NoJob
    <3> QED
      BY <1>2, <2>2, <3>1
  <2> QED
    BY <2>1, <2>2, <1>1, <1>3, <1>6
<1>8. CASE (\E u \in Users : IssueToken(u)) \/ Migrate \/ UNCHANGED vars
  <2>1. UNCHANGED <<accounts, member>>
    BY <1>8 DEF IssueToken, Migrate, vars, accessVars
  <2> QED
    BY <1>6, <2>1
<1> QED
  BY <1>4, <1>5, <1>7, <1>8 DEF Next

\* No interleaving of assignments, group edits, bans, registrations and
\* migrations empties the administrators' group or strips its wildcard.
THEOREM AdminStays == Spec => []AdminRemains
<1>1. Init /\ TypeInv => AccessInv
  BY GroupAssumption, CodeAssumption DEF Init, AccessInv, JobsAccepted, Staffed, AdminRemains
<1>2. AccessInv /\ TypeInv' /\ [Next]_vars => AccessInv'
  BY JobsAcceptedStep, StaffedStep, WildcardStep, MemberStep DEF AccessInv, AdminRemains
<1>3. AccessInv => AdminRemains
  BY DEF AccessInv
<1> QED
  BY <1>1, <1>2, <1>3, TypeInvariant, PTL DEF Spec

-----------------------------------------------------------------------------
\* Of any number of concurrent setups one succeeds: the count is taken again
\* inside the transaction, and every other way in needs an account.
THEOREM OneSetup == Spec => []SetupOnce
<1>1. Init => Staffed /\ SetupOnce
  BY DEF Init, Staffed, SetupOnce
<1>2. TypeInv /\ Staffed /\ SetupOnce /\ [Next]_vars => Staffed' /\ SetupOnce'
  <2> SUFFICES ASSUME TypeInv, Staffed, SetupOnce, [Next]_vars PROVE SetupOnce'
    BY StaffedStep
  <2>1. ASSUME NEW u \in Users, Setup(u) PROVE SetupOnce'
    BY <2>1 DEF Setup, SetupOpen, SetupOnce, TypeInv, TypeOK
  <2>2. ASSUME founders' = founders, accounts' # {} => accounts # {} PROVE SetupOnce'
    BY <2>2 DEF SetupOnce
  <2>3. ASSUME NEW c \in Callers, CommitCreateUser(c) PROVE SetupOnce'
    <3>1. accounts # {}
      BY <2>3 DEF CommitCreateUser, Commits, Staffed, NoJob
    <3> QED
      BY <2>2, <2>3, <3>1 DEF CommitCreateUser
  <2> QED
    BY <2>1, <2>2, <2>3 DEF Next, Call, Begin, FailJob, ReadIsAdmin, CountAdmins, CommitBan,
      CacheBan, CommitUnban, CommitSetGroups, CommitCreateGroup,
      CommitUpdateGroup, CommitDeleteGroup, Register, IssueToken, Migrate, vars, accessVars
<1> QED
  BY <1>1, <1>2, TypeInvariant, PTL DEF Spec

-----------------------------------------------------------------------------
\* Memberships name groups that exist: SetUserGroups, Register and DeleteGroup
\* exclude each other, and the foreign key cascades.
THEOREM NoOrphanMembership == Spec => []DeletedGroupConfersNothing
<1> USE GroupAssumption
<1>1. Init => DeletedGroupConfersNothing
  BY DEF Init, DeletedGroupConfersNothing
<1>2. TypeInv /\ DeletedGroupConfersNothing /\ [Next]_vars => DeletedGroupConfersNothing'
  <2> SUFFICES ASSUME TypeInv, DeletedGroupConfersNothing, [Next]_vars
               PROVE  DeletedGroupConfersNothing'
    OBVIOUS
  <2> USE DEF DeletedGroupConfersNothing, TypeInv, TypeOK
  <2>1. ASSUME NEW u \in Users, Setup(u) PROVE DeletedGroupConfersNothing'
    BY <2>1 DEF Setup
  <2>2. ASSUME NEW u \in Users, NEW groups \in JoinSets, Register(u, groups)
        PROVE  DeletedGroupConfersNothing'
    BY <2>2 DEF Register
  <2>3. ASSUME NEW c \in Callers, CommitSetGroups(c) \/ CommitCreateUser(c)
        PROVE  DeletedGroupConfersNothing'
    BY <2>3 DEF CommitSetGroups, CommitCreateUser, DefaultGroups
  <2>4. ASSUME NEW c \in Callers, CommitDeleteGroup(c) PROVE DeletedGroupConfersNothing'
    BY <2>4 DEF CommitDeleteGroup, Without
  <2>5. ASSUME member' = member, exists \subseteq exists' PROVE DeletedGroupConfersNothing'
    BY <2>5
  <2> QED
    BY <2>1, <2>2, <2>3, <2>4, <2>5 DEF Next, Call, Begin, FailJob, ReadIsAdmin, CountAdmins,
      CommitBan, CacheBan, CommitUnban, CommitCreateGroup, CommitUpdateGroup, IssueToken,
      Migrate, vars, accessVars
<1> QED
  BY <1>1, <1>2, TypeInvariant, PTL DEF Spec

-----------------------------------------------------------------------------
\* A caller past the guards of a ban, with nothing changed since its first read,
\* leaves an administrator who can log in, if there is one.
LeavesOne(c) ==
  pc[c] = "guarded" /\ c \notin moved /\ UsableAdmins # {} =>
    \E v \in UsableAdmins : v # job[c].user

GuardsHold == \A c \in Callers : LeavesOne(c)

LEMMA AnotherUsable ==
  ASSUME TypeInv, NEW u, Cardinality(UsableAdmins) > 1
  PROVE  \E v \in UsableAdmins : v # u
<1> SUFFICES ASSUME \A v \in UsableAdmins : v = u PROVE FALSE
  OBVIOUS
<1>1. UsableAdmins \subseteq {u}
  OBVIOUS
<1>2. Cardinality({u}) = 1 /\ IsFiniteSet({u})
  BY FS_Singleton
<1>3. Cardinality(UsableAdmins) \in Nat /\ Cardinality(UsableAdmins) <= 1
  BY <1>1, <1>2, FS_Subset, FS_CardinalityType
<1> QED
  BY <1>3

LEMMA GuardsHoldStep ==
  ASSUME TypeInv, GuardsHold, [Next]_vars
  PROVE  GuardsHold'
<1> USE DEF TypeInv, TypeOK
<1>1. ASSUME moved' = Callers PROVE GuardsHold'
  BY <1>1 DEF GuardsHold, LeavesOne
<1>2. ASSUME UNCHANGED <<accounts, banned, member>>, moved' = moved,
             \A d \in Callers : pc'[d] = "guarded" => pc[d] = "guarded" /\ job'[d] = job[d]
      PROVE  GuardsHold'
  BY <1>2 DEF GuardsHold, LeavesOne, UsableAdmins, Admins
<1>3. ASSUME NEW c \in Callers, ReadIsAdmin(c) PROVE GuardsHold'
  <2>1. UNCHANGED <<accounts, banned, member, job>>
    BY <1>3 DEF ReadIsAdmin, accessVars
  <2>2. LeavesOne(c)'
    <3>1. pc'[c] = "guarded" => job[c].user \notin Admins
      BY <1>3 DEF ReadIsAdmin
    <3> QED
      BY <2>1, <3>1 DEF LeavesOne, UsableAdmins, Admins
  <2>3. ASSUME NEW d \in Callers, d # c PROVE LeavesOne(d)'
    <3>1. pc'[d] = pc[d] /\ (d \in moved' <=> d \in moved)
      BY <1>3, <2>3 DEF ReadIsAdmin
    <3> QED
      BY <2>1, <3>1 DEF GuardsHold, LeavesOne, UsableAdmins, Admins
  <2> QED
    BY <2>2, <2>3 DEF GuardsHold
<1>4. ASSUME NEW c \in Callers, CountAdmins(c) PROVE GuardsHold'
  <2>1. UNCHANGED <<accounts, banned, member, job, moved>>
    BY <1>4 DEF CountAdmins, accessVars
  <2>2. \E v \in UsableAdmins : v # job[c].user
    BY <1>4, AnotherUsable DEF CountAdmins, Counted
  <2>3. \A d \in Callers : d # c => pc'[d] = pc[d]
    BY <1>4 DEF CountAdmins
  <2> QED
    BY <2>1, <2>2, <2>3 DEF GuardsHold, LeavesOne, UsableAdmins, Admins
<1>5. ASSUME NEW c \in Callers, NEW j \in Jobs, Begin(c, j) PROVE GuardsHold'
  BY <1>2, <1>5 DEF Begin, accessVars
<1>6. ASSUME NEW c \in Callers, FailJob(c) \/ CacheBan(c) PROVE GuardsHold'
  BY <1>2, <1>6 DEF FailJob, CacheBan, Commits, accessVars
<1>7. ASSUME NEW c \in Callers, CommitCreateGroup(c) \/ CommitUpdateGroup(c) PROVE GuardsHold'
  BY <1>2, <1>7 DEF CommitCreateGroup, CommitUpdateGroup, Commits
<1>8. ASSUME Migrate \/ UNCHANGED vars \/ (\E u \in Users : IssueToken(u)) PROVE GuardsHold'
  BY <1>2, <1>8 DEF Migrate, IssueToken, vars, accessVars
<1>9. ASSUME NEW c \in Callers,
             \/ CommitBan(c) \/ CommitUnban(c) \/ CommitSetGroups(c)
             \/ CommitCreateUser(c) \/ CommitDeleteGroup(c)
      PROVE  GuardsHold'
  BY <1>1, <1>9 DEF CommitBan, CommitUnban, CommitSetGroups, CommitCreateUser, CommitDeleteGroup
<1>10. ASSUME (\E u \in Users : Setup(u)) \/ (\E u \in Users, groups \in JoinSets : Register(u, groups))
       PROVE  GuardsHold'
  BY <1>1, <1>10 DEF Setup, Register
<1> QED
  BY <1>3, <1>4, <1>5, <1>6, <1>7, <1>8, <1>9, <1>10 DEF Next, Call

\* A ban whose guards nothing has overtaken keeps an administrator who can log in,
\* for any number of accounts and callers.
THEOREM UndisturbedBan == Spec => UndisturbedBanKeepsAdmin
<1> DEFINE Kept == \A c \in Callers :
      CommitBan(c) /\ c \notin moved /\ UsableAdmins # {} => UsableAdmins' # {}
<1>1. Init => GuardsHold
  BY DEF Init, GuardsHold, LeavesOne
<1>2. TypeInv /\ GuardsHold /\ [Next]_vars => GuardsHold'
  BY GuardsHoldStep
<1>3. GuardsHold => Kept
  BY DEF GuardsHold, LeavesOne, CommitBan, UsableAdmins, Admins
<1>4. GuardsHold => [Kept]_vars
  BY <1>3
<1> QED
  BY <1>1, <1>2, <1>4, TypeInvariant, PTL DEF Spec, UndisturbedBanKeepsAdmin
=============================================================================
