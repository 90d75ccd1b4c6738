---------------------------- MODULE Registration ----------------------------
(***************************************************************************)
(* Self-service registration under the instance settings and invites.      *)
(*                                                                         *)
(* A registration reads the settings with a statement of its own, begins a *)
(* transaction (which fixes its clock), waits for the advisory lock of     *)
(* Store.write, looks for the name and the address, and writes account,    *)
(* use of the invite and memberships together.  The settings, the time and *)
(* the invites move between these steps.  The memberships are those of     *)
(* AdminAccess!Register.                                                   *)
(***************************************************************************)
EXTENDS Integers, FiniteSets

CONSTANTS
  Registrations,   \* POST /auth/register requests, each with the id it draws
  Created,         \* accounts that administrators create
  Names, Mails,    \* up to case
  Name, Mail,      \* of each registration and each created account
  Invites,
  Code,            \* the invite a registration presents
  NoInvite,
  Sizes,           \* the numbers of uses an administrator may ask for
  MaxUpdates       \* bound on the changes of the settings

People == Registrations \cup Created

ASSUME PeopleAssumption ==
  /\ IsFiniteSet(People) /\ Registrations \cap Created = {}
  /\ Name \in [People -> Names] /\ Mail \in [People -> Mails]

ASSUME InviteAssumption ==
  /\ Code \in [Registrations -> Invites \cup {NoInvite}]
  /\ NoInvite \notin Invites
  /\ Sizes \subseteq Int /\ MaxUpdates \in Nat

VARIABLES
  settings,   \* registration_enabled and invite_required
  updates,    \* changes of the settings so far
  accounts,   \* rows of auth.users
  limit,      \* max_uses of an invite, 0 if it has no row
  used,       \* used_count
  revoked,    \* invites with revoked = true
  expired,    \* invites past expires_at
  uses,       \* rows of auth.invite_uses
  pc,         \* where a registration stands
  under,      \* the settings it read
  late        \* was its invite past expires_at when its transaction began

inviteVars == <<limit, used, revoked, expired, uses>>
vars == <<settings, updates, accounts, inviteVars, pc, under, late>>

-----------------------------------------------------------------------------
Settings == [enabled : BOOLEAN, invite : BOOLEAN]

\* DefaultSettings: closed, and no invite needed.
Closed == [enabled |-> FALSE, invite |-> FALSE]

Steps == {"new", "read", "begun", "checked", "committed", "done", "failed"}

TypeOK ==
  /\ settings \in Settings
  /\ updates \in 0 .. MaxUpdates
  /\ accounts \in SUBSET People
  /\ limit \in [Invites -> 0 .. 1000]
  /\ used \in [Invites -> Nat]
  /\ revoked \in SUBSET Invites
  /\ expired \in SUBSET Invites
  /\ uses \in SUBSET (Invites \X Registrations)
  /\ pc \in [Registrations -> Steps]
  /\ under \in [Registrations -> Settings]
  /\ late \in [Registrations -> BOOLEAN]

Init ==
  /\ settings = Closed
  /\ updates = 0
  /\ accounts = {}
  /\ limit = [i \in Invites |-> 0]
  /\ used = [i \in Invites |-> 0]
  /\ revoked = {}
  /\ expired = {}
  /\ uses = {}
  /\ pc = [r \in Registrations |-> "new"]
  /\ under = [r \in Registrations |-> Closed]
  /\ late = [r \in Registrations |-> FALSE]

\* Variant with a fault: transactions do not wait for each other.
LockIgnored == TRUE

\* No transaction of Store.write is open.
LockFree == \A r \in Registrations : pc[r] # "checked"

Advance(r, from, to) == pc[r] = from /\ pc' = [pc EXCEPT ![r] = to]

-----------------------------------------------------------------------------
(* Register. *)

\* Settings: one statement reads them all.
ReadSettings(r) ==
  /\ settings.enabled
  /\ Advance(r, "new", "read")
  /\ under' = [under EXCEPT ![r] = settings]
  /\ UNCHANGED <<settings, updates, accounts, inviteVars, late>>

\* BEGIN: now() stands still from here on, through the wait for the lock.
BeginTx(r) ==
  /\ Advance(r, "read", "begun")
  /\ late' = [late EXCEPT ![r] = Code[r] \in expired]
  /\ UNCHANGED <<settings, updates, accounts, inviteVars, under>>

\* Name or address belong to an account already.
Taken(r) == \E a \in accounts : Name[a] = Name[r] \/ Mail[a] = Mail[r]

\* The lock is granted, and name and address are looked up.
CheckTaken(r) ==
  /\ LockFree
  /\ ~Taken(r)
  /\ Advance(r, "begun", "checked")
  /\ UNCHANGED <<settings, updates, accounts, inviteVars, under, late>>

\* Variant with a fault: the settings of now decide about the invite.
NeedsInviteNow(r) == settings.invite

\* The settings read at the start decide about the invite.
NeedsInvite(r) == under[r].invite

\* Variant with a fault: a revoked invite is good enough.
UsableRevoked(r) == Code[r] # NoInvite /\ ~late[r] /\ used[Code[r]] < limit[Code[r]]

\* Variant with a fault: one use too many.
UsableOnceMore(r) ==
  /\ Code[r] # NoInvite /\ Code[r] \notin revoked /\ ~late[r]
  /\ limit[Code[r]] > 0 /\ used[Code[r]] <= limit[Code[r]]

\* consumeInvite: SELECT ... FOR UPDATE and the conditional UPDATE.
Usable(r) ==
  /\ Code[r] # NoInvite /\ Code[r] \notin revoked /\ ~late[r]
  /\ used[Code[r]] < limit[Code[r]]

SpendInvite(r) ==
  /\ Usable(r)
  /\ used' = [used EXCEPT ![Code[r]] = @ + 1]
  /\ uses' = uses \cup {<<Code[r], r>>}

\* INSERT with ON CONFLICT DO NOTHING: the index on the folded name decides.
\* Account, invite and memberships are committed together.
Commit(r) ==
  /\ \A a \in accounts : Name[a] # Name[r]
  /\ IF NeedsInvite(r) THEN SpendInvite(r) ELSE UNCHANGED <<used, uses>>
  /\ Advance(r, "checked", "committed")
  /\ accounts' = accounts \cup {r}
  /\ UNCHANGED <<settings, updates, limit, revoked, expired, under, late>>

\* The new account is logged in.
Answer(r) ==
  /\ Advance(r, "committed", "done")
  /\ UNCHANGED <<settings, updates, accounts, inviteVars, under, late>>

\* A check or a statement fails, or the process ends: an open transaction is
\* rolled back, a committed account stays.
Fail(r) ==
  /\ pc[r] \notin {"done", "failed"}
  /\ pc' = [pc EXCEPT ![r] = "failed"]
  /\ UNCHANGED <<settings, updates, accounts, inviteVars, under, late>>

-----------------------------------------------------------------------------
(* Administrators, and time. *)

UpdateSettings(s) ==
  /\ LockFree
  /\ updates < MaxUpdates
  /\ s # settings
  /\ settings' = s
  /\ updates' = updates + 1
  /\ UNCHANGED <<accounts, inviteVars, pc, under, late>>

\* Variant with a fault: no upper bound.
ClampedBelow(n) == IF n <= 0 THEN 1 ELSE n

\* Between 1 and 1000 uses, whatever was asked for.
Clamped(n) == IF n <= 0 THEN 1 ELSE IF n > 1000 THEN 1000 ELSE n

CreateInvite(i, n) ==
  /\ LockFree
  /\ limit[i] = 0
  /\ limit' = [limit EXCEPT ![i] = Clamped(n)]
  /\ UNCHANGED <<settings, updates, accounts, used, revoked, expired, uses, pc, under, late>>

RevokeInvite(i) ==
  /\ LockFree
  /\ limit[i] # 0
  /\ revoked' = revoked \cup {i}
  /\ UNCHANGED <<settings, updates, accounts, limit, used, expired, uses, pc, under, late>>

ExpireInvite(i) ==
  /\ limit[i] # 0
  /\ i \notin expired
  /\ expired' = expired \cup {i}
  /\ UNCHANGED <<settings, updates, accounts, limit, used, revoked, uses, pc, under, late>>

\* CreateUser: the index on the name decides; the address is not looked up.
CreateUser(a) ==
  /\ LockFree
  /\ a \notin accounts
  /\ \A b \in accounts : Name[b] # Name[a]
  /\ accounts' = accounts \cup {a}
  /\ UNCHANGED <<settings, updates, inviteVars, pc, under, late>>

-----------------------------------------------------------------------------
Register(r) ==
  ReadSettings(r) \/ BeginTx(r) \/ CheckTaken(r) \/ Commit(r) \/ Answer(r) \/ Fail(r)

Administer ==
  \/ \E s \in Settings : UpdateSettings(s)
  \/ \E i \in Invites : (\E n \in Sizes : CreateInvite(i, n)) \/ RevokeInvite(i) \/ ExpireInvite(i)
  \/ \E a \in Created : CreateUser(a)

Next == (\E r \in Registrations : Register(r)) \/ Administer

Spec == Init /\ [][Next]_vars

-----------------------------------------------------------------------------
(* Safety. *)

\* The accounts a use of invite i admitted.
Guests(i) == {r \in Registrations : <<i, r>> \in uses}

\* An invite never admits more accounts than it has uses, its counter counts
\* exactly the accounts it admitted, and every one of them exists: whatever
\* registrations race for the last use and wherever they fail.
InviteAccounting ==
  \A i \in Invites :
    /\ used[i] = Cardinality(Guests(i)) /\ used[i] <= limit[i]
    /\ Guests(i) \subseteq accounts

\* Nobody registers while registration is closed, nor without an invite when
\* one is required: by the settings in force when the registration read them,
\* taken together, whatever administrators change while it runs.
AdmittedByRule ==
  \A r \in Registrations \cap accounts :
    /\ under[r].enabled
    /\ under[r].invite => \E i \in Invites : i = Code[r] /\ r \in Guests(i)

\* Registration gives an address or a name to one account only.  No index
\* covers the address: the lock over the lookup and the INSERT does.
OneAccountPerAddress ==
  \A r, s \in Registrations \cap accounts :
    Name[r] = Name[s] \/ Mail[r] = Mail[s] => r = s

\* Once it is revoked, an invite admits nobody, not even a registration that
\* was under way.
RevokedAdmitsNobody ==
  [][\A i \in revoked : {u \in uses' : u[1] = i} \subseteq uses]_vars

-----------------------------------------------------------------------------
(* Refinement. *)

\* Registrations whose transaction began before their invite expired and which
\* are not decided yet, each with its invite.
InTime ==
  {u \in Invites \X Registrations :
     Code[u[2]] = u[1] /\ pc[u[2]] \in {"begun", "checked"} /\ ~late[u[2]]}

Invite == INSTANCE LimitedInvite WITH
  People <- Registrations, Largest <- 1000,
  size <- limit, guests <- [i \in Invites |-> Guests(i)],
  closed <- revoked, lapsed <- expired, waiting <- InTime

\* Every behaviour of registrations, administrators and time keeps the promise
\* of LimitedInvite: no more guests than issued, each by one invite and once,
\* none after the invite was revoked, none whose transaction began after it
\* expired, however registrations race for it and wherever they fail.
ImplementsInvite == Invite!Spec

=============================================================================
