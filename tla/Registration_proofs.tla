------------------------ MODULE Registration_proofs ------------------------
(***************************************************************************)
(* Theorems about Registration for every finite set of registrations and   *)
(* every set of invites and of changes of the settings.                    *)
(***************************************************************************)
EXTENDS Registration, FiniteSetTheorems, TLAPS

USE DEF inviteVars, Settings

\* Steps between reading the settings and the commit.
Undecided == {"read", "begun", "checked"}

\* A registration has an account only once it is decided, and read the settings
\* open before.
Waiting ==
  \A r \in Registrations :
    /\ r \in accounts => pc[r] \in {"committed", "done", "failed"}
    /\ pc[r] \in Undecided => under[r].enabled

\* The registration that holds the lock holds it alone, and what it found free
\* is still free.
Holding ==
  \A r \in Registrations :
    pc[r] = "checked" =>
      /\ ~Taken(r)
      /\ \A s \in Registrations : pc[s] = "checked" => s = r

IInv ==
  TypeOK /\ Waiting /\ Holding /\ InviteAccounting /\ AdmittedByRule /\ OneAccountPerAddress

\* Whatever was asked for, an invite gets between 1 and 1000 uses.
LEMMA ClampedRange ==
  ASSUME NEW n \in Sizes
  PROVE  Clamped(n) \in 1 .. 1000
BY InviteAssumption DEF Clamped

\* Limits between 0 and 1000 are numbers.
LEMMA LimitNat ==
  ASSUME NEW f, f \in [Invites -> 0 .. 1000]
  PROVE  f \in [Invites -> Nat]
<1>1. ASSUME NEW i \in Invites PROVE f[i] \in Nat
  <2>1. f[i] \in 0 .. 1000
    BY <1>1
  <2> QED
    BY <2>1
<1> QED
  BY <1>1

\* Every step keeps the shape of the tables.
LEMMA TypeStep ==
  ASSUME TypeOK, [Next]_vars
  PROVE  TypeOK'
<1>1. ASSUME NEW r \in Registrations, Register(r) PROVE TypeOK'
  <2>1. CASE ReadSettings(r)
    BY <2>1 DEF ReadSettings, Advance, TypeOK, Steps
  <2>2. CASE BeginTx(r)
    BY <2>2 DEF BeginTx, Advance, TypeOK, Steps
  <2>3. CASE CheckTaken(r)
    BY <2>3 DEF CheckTaken, Advance, TypeOK, Steps
  <2>4. CASE Commit(r)
    <3>1. used' \in [Invites -> Nat] /\ uses' \in SUBSET (Invites \X Registrations)
      BY InviteAssumption, <2>4 DEF Commit, SpendInvite, Usable, TypeOK
    <3>2. accounts' \in SUBSET People
      BY <2>4 DEF Commit, TypeOK, People
    <3> QED
      BY <2>4, <3>1, <3>2 DEF Commit, Advance, TypeOK, Steps
  <2>5. CASE Answer(r)
    BY <2>5 DEF Answer, Advance, TypeOK, Steps
  <2>6. CASE Fail(r)
    BY <2>6 DEF Fail, TypeOK, Steps
  <2> QED
    BY <1>1, <2>1, <2>2, <2>3, <2>4, <2>5, <2>6 DEF Register
<1>2. CASE Administer
  <2>1. ASSUME NEW s \in Settings, UpdateSettings(s) PROVE TypeOK'
    BY InviteAssumption, <2>1 DEF UpdateSettings, TypeOK
  <2>2. ASSUME NEW i \in Invites, NEW n \in Sizes, CreateInvite(i, n) PROVE TypeOK'
    <3>1. Clamped(n) \in 0 .. 1000
      BY <2>2, ClampedRange
    <3>2. limit' \in [Invites -> 0 .. 1000]
      BY <2>2, <3>1 DEF CreateInvite, TypeOK
    <3> QED
      BY <2>2, <3>2 DEF CreateInvite, TypeOK
  <2>3. ASSUME NEW i \in Invites, RevokeInvite(i) PROVE TypeOK'
    BY <2>3 DEF RevokeInvite, TypeOK
  <2>4. ASSUME NEW i \in Invites, ExpireInvite(i) PROVE TypeOK'
    BY <2>4 DEF ExpireInvite, TypeOK
  <2>5. ASSUME NEW a \in Created, CreateUser(a) PROVE TypeOK'
    BY <2>5 DEF CreateUser, TypeOK, People
  <2> QED
    BY <1>2, <2>1, <2>2, <2>3, <2>4, <2>5 DEF Administer
<1>3. CASE UNCHANGED vars
  BY <1>3 DEF vars, TypeOK
<1> QED
  BY <1>1, <1>2, <1>3 DEF Next

\* Every reachable state has the shape of the tables.
THEOREM TypeCorrect == Spec => []TypeOK
<1>1. Init => TypeOK
  BY InviteAssumption DEF Init, TypeOK, Closed, Steps
<1>2. TypeOK /\ [Next]_vars => TypeOK'
  BY TypeStep
<1> QED
  BY <1>1, <1>2, PTL DEF Spec

-----------------------------------------------------------------------------
\* What a commit writes: the account, and nothing but a use of an invite that
\* was live and had a use left.
LEMMA CommitWrites ==
  ASSUME IInv, NEW r \in Registrations, Commit(r)
  PROVE  /\ pc[r] = "checked" /\ r \notin accounts /\ accounts' = accounts \cup {r}
         /\ under' = under /\ under[r].enabled
         /\ ~Taken(r)
BY DEF Commit, Advance, IInv, Waiting, Holding, Undecided

\* Between commits, accounts grow by created ones and settings once read stay.
LEMMA OthersWrite ==
  ASSUME IInv, [Next]_vars, ~ \E r \in Registrations : Commit(r)
  PROVE  /\ UNCHANGED <<used, uses>>
         /\ accounts \subseteq accounts'
         /\ accounts' \cap Registrations = accounts \cap Registrations
         /\ \A r \in Registrations : r \in accounts => under'[r] = under[r]
<1>1. ASSUME NEW r \in Registrations, ReadSettings(r)
      PROVE \A s \in Registrations : s \in accounts => under'[s] = under[s]
  BY <1>1 DEF ReadSettings, Advance, IInv, Waiting, TypeOK
<1>2. CASE Administer
  BY PeopleAssumption, <1>2 DEF Administer, UpdateSettings, CreateInvite, RevokeInvite, ExpireInvite, CreateUser
<1>3. CASE \E r \in Registrations : Register(r)
  BY <1>1, <1>3 DEF Register, ReadSettings, BeginTx, CheckTaken, Answer, Fail
<1>4. CASE UNCHANGED vars
  BY <1>4 DEF vars
<1> QED
  BY <1>2, <1>3, <1>4 DEF Next

\* An account exists only once its registration is decided.
LEMMA WaitingStep ==
  ASSUME IInv, [Next]_vars
  PROVE  Waiting'
<1>1. ASSUME NEW r \in Registrations, Register(r) PROVE Waiting'
  BY <1>1
  DEF Register, ReadSettings, BeginTx, CheckTaken, Commit, Answer, Fail, Advance, IInv,
      Waiting, TypeOK, Undecided
<1>2. CASE Administer
  BY PeopleAssumption, <1>2
  DEF Administer, UpdateSettings, CreateInvite, RevokeInvite, ExpireInvite, CreateUser,
      IInv, Waiting
<1>3. CASE UNCHANGED vars
  BY <1>3 DEF vars, IInv, Waiting
<1> QED
  BY <1>1, <1>2, <1>3 DEF Next

\* While one registration holds the lock, nobody else adds an account.
LEMMA HoldingStep ==
  ASSUME IInv, [Next]_vars
  PROVE  Holding'
<1> USE DEF IInv
<1>1. ASSUME NEW r \in Registrations, Register(r) PROVE Holding'
  <2>1. CASE CheckTaken(r)
    BY <2>1 DEF CheckTaken, LockFree, Advance, Holding, Taken, TypeOK
  <2>2. CASE Commit(r)
    BY <2>2 DEF Commit, Advance, Holding, TypeOK
  <2>3. CASE ReadSettings(r) \/ BeginTx(r) \/ Answer(r) \/ Fail(r)
    BY <2>3 DEF ReadSettings, BeginTx, Answer, Fail, Advance, Holding, Taken, TypeOK
  <2> QED
    BY <1>1, <2>1, <2>2, <2>3 DEF Register
<1>2. CASE Administer
  BY <1>2
  DEF Administer, UpdateSettings, CreateInvite, RevokeInvite, ExpireInvite, CreateUser,
      LockFree, Holding, Taken
<1>3. CASE UNCHANGED vars
  BY <1>3 DEF vars, Holding, Taken
<1> QED
  BY <1>1, <1>2, <1>3 DEF Next

\* A use adds one guest to its invite, and the counter counts it.
LEMMA AccountingCommit ==
  ASSUME IInv, NEW r \in Registrations, Commit(r)
  PROVE  InviteAccounting'
<1> SUFFICES ASSUME NEW i \in Invites
             PROVE  /\ used'[i] = Cardinality(Guests(i)') /\ used'[i] <= limit'[i]
                    /\ Guests(i)' \subseteq accounts'
  BY DEF InviteAccounting
<1>0. /\ used[i] = Cardinality(Guests(i)) /\ used[i] <= limit[i]
      /\ Guests(i) \subseteq accounts /\ limit' = limit
      /\ used \in [Invites -> Nat] /\ limit \in [Invites -> Nat]
  BY LimitNat DEF IInv, InviteAccounting, TypeOK, Commit
<1>1. r \notin accounts /\ accounts' = accounts \cup {r}
  BY CommitWrites
<1>2. CASE SpendInvite(r) /\ i = Code[r]
  <2>1. Guests(i)' = Guests(i) \cup {r}
    BY <1>2 DEF SpendInvite, Guests
  <2>2. IsFiniteSet(Guests(i))
    <3>1. Guests(i) \subseteq People
      BY DEF Guests, People
    <3> QED
      BY PeopleAssumption, <3>1, FS_Subset
  <2>3. r \notin Guests(i)
    BY <1>0, <1>1
  <2>4. Cardinality(Guests(i)') = Cardinality(Guests(i)) + 1
    BY <2>1, <2>2, <2>3, FS_AddElement
  <2>5. used'[i] = used[i] + 1 /\ used[i] < limit[i]
    BY <1>2, <1>0 DEF SpendInvite, Usable
  <2>6. used'[i] = Cardinality(Guests(i)')
    BY <1>0, <2>4, <2>5
  <2>7. used'[i] <= limit'[i]
    BY <1>0, <2>5
  <2>8. Guests(i)' \subseteq accounts'
    BY <1>0, <1>1, <2>1
  <2> QED
    BY <2>6, <2>7, <2>8
<1>3. CASE SpendInvite(r) /\ i # Code[r]
  <2>1. Guests(i)' = Guests(i)
    BY <1>3 DEF SpendInvite, Guests
  <2>2. used'[i] = used[i]
    BY <1>3, <1>0 DEF SpendInvite
  <2> QED
    BY <1>0, <1>1, <2>1, <2>2
<1>4. CASE UNCHANGED <<used, uses>>
  <2>1. Guests(i)' = Guests(i)
    BY <1>4 DEF Guests
  <2> QED
    BY <1>0, <1>1, <1>4, <2>1
<1> QED
  BY <1>2, <1>3, <1>4 DEF Commit

\* Every step keeps counter, limit and uses of every invite in line.
LEMMA AccountingStep ==
  ASSUME IInv, [Next]_vars
  PROVE  InviteAccounting'
<1>1. CASE \E r \in Registrations : Commit(r)
  BY <1>1, AccountingCommit
<1>2. CASE ~ \E r \in Registrations : Commit(r)
  <2>1. UNCHANGED <<used, uses>> /\ accounts \subseteq accounts'
    BY <1>2, OthersWrite
  <2>2. \A i \in Invites : limit[i] <= limit'[i]
    <3>0. limit \in [Invites -> Nat]
      BY LimitNat DEF IInv, TypeOK
    <3>1. ASSUME NEW i \in Invites, NEW n \in Sizes, CreateInvite(i, n)
          PROVE  \A j \in Invites : limit[j] <= limit'[j]
      <4>1. Clamped(n) \in Nat
        BY <3>1, ClampedRange
      <4>2. limit[i] = 0 /\ limit' = [limit EXCEPT ![i] = Clamped(n)]
        BY <3>1 DEF CreateInvite
      <4> SUFFICES ASSUME NEW j \in Invites PROVE limit[j] <= limit'[j]
        OBVIOUS
      <4>3. CASE j = i
        <5>1. limit'[j] = Clamped(n) /\ limit[j] = 0
          BY <3>0, <4>2, <4>3
        <5> QED
          BY <4>1, <5>1
      <4>4. CASE j # i
        <5>1. limit'[j] = limit[j] /\ limit[j] \in Nat
          BY <3>0, <4>2, <4>4
        <5> QED
          BY <5>1
      <4> QED
        BY <4>3, <4>4
    <3>2. limit' = limit \/ \E i \in Invites, n \in Sizes : CreateInvite(i, n)
      BY DEF Next, Register, ReadSettings, BeginTx, CheckTaken, Commit, Answer, Fail,
          Administer, UpdateSettings, RevokeInvite, ExpireInvite, CreateUser, vars
    <3>3. ASSUME limit' = limit PROVE \A i \in Invites : limit[i] <= limit'[i]
      <4>1. \A i \in Invites : limit[i] \in Nat /\ limit'[i] = limit[i]
        BY <3>0, <3>3
      <4> QED
        BY <4>1
    <3> QED
      BY <3>1, <3>2, <3>3
  <2>3. limit' \in [Invites -> Nat]
    <3>1. limit' \in [Invites -> 0 .. 1000]
      BY TypeStep DEF IInv, TypeOK
    <3> QED
      BY <3>1, LimitNat
  <2>4. \A i \in Invites : Guests(i)' = Guests(i)
    BY <2>1 DEF Guests
  <2> SUFFICES ASSUME NEW i \in Invites
               PROVE  /\ used'[i] = Cardinality(Guests(i)') /\ used'[i] <= limit'[i]
                      /\ Guests(i)' \subseteq accounts'
    BY DEF InviteAccounting
  <2>5. /\ used[i] = Cardinality(Guests(i)) /\ used[i] <= limit[i]
        /\ Guests(i) \subseteq accounts
    BY DEF IInv, InviteAccounting
  <2>6. used \in [Invites -> Nat] /\ limit \in [Invites -> Nat]
    BY LimitNat DEF IInv, TypeOK
  <2>7. used'[i] <= limit'[i]
    <3>1. used'[i] = used[i] /\ used[i] <= limit[i] /\ limit[i] <= limit'[i]
      BY <2>1, <2>2, <2>5
    <3>2. used[i] \in Int /\ limit[i] \in Int /\ limit'[i] \in Int
      <4>1. used[i] \in Nat
        BY <2>6
      <4>2. limit[i] \in Nat
        BY <2>6
      <4>3. limit'[i] \in Nat
        BY <2>3
      <4> QED
        BY <4>1, <4>2, <4>3
    <3> QED
      BY <3>1, <3>2
  <2> QED
    BY <2>1, <2>4, <2>5, <2>7
<1> QED
  BY <1>1, <1>2

\* Only a registration that was open to it, with its invite if need be, commits.
LEMMA AdmittedStep ==
  ASSUME IInv, [Next]_vars
  PROVE  AdmittedByRule'
<1> USE DEF IInv, AdmittedByRule
<1>1. ASSUME NEW r \in Registrations, Commit(r) PROVE AdmittedByRule'
  <2>1. /\ accounts' = accounts \cup {r} /\ under' = under /\ under[r].enabled
    BY <1>1, CommitWrites
  <2>2. uses \subseteq uses'
    BY <1>1 DEF Commit, SpendInvite
  <2>3. under[r].invite => Code[r] \in Invites /\ <<Code[r], r>> \in uses'
    BY InviteAssumption, <1>1 DEF Commit, NeedsInvite, SpendInvite, Usable
  <2> QED
    BY <2>1, <2>2, <2>3 DEF Guests
<1>2. CASE ~ \E r \in Registrations : Commit(r)
  BY <1>2, OthersWrite DEF Guests
<1> QED
  BY <1>1, <1>2

\* The committing registration found its name and its address free.
LEMMA AddressStep ==
  ASSUME IInv, [Next]_vars
  PROVE  OneAccountPerAddress'
<1>1. ASSUME NEW r \in Registrations, Commit(r) PROVE OneAccountPerAddress'
  BY <1>1, CommitWrites DEF IInv, OneAccountPerAddress, Taken
<1>2. CASE ~ \E r \in Registrations : Commit(r)
  BY <1>2, OthersWrite DEF IInv, OneAccountPerAddress
<1> QED
  BY <1>1, <1>2

\* The inductive invariant.
LEMMA Inductive == Spec => []IInv
<1>1. Init => IInv
  <2> SUFFICES ASSUME Init PROVE IInv
    OBVIOUS
  <2>1. TypeOK
    BY InviteAssumption DEF Init, TypeOK, Closed, Steps
  <2>2. InviteAccounting
    <3>1. \A i \in Invites : Guests(i) = {}
      BY DEF Init, Guests
    <3> QED
      BY <3>1, FS_EmptySet DEF Init, InviteAccounting
  <2> QED
    BY <2>1, <2>2
    DEF Init, IInv, Waiting, Holding, Undecided, AdmittedByRule, OneAccountPerAddress
<1>2. IInv /\ [Next]_vars => IInv'
  BY TypeStep, WaitingStep, HoldingStep, AccountingStep, AdmittedStep, AddressStep DEF IInv
<1> QED
  BY <1>1, <1>2, PTL DEF Spec

-----------------------------------------------------------------------------
\* However many registrations race for an invite, its counter counts exactly
\* the accounts it admitted and stays within its limit.
THEOREM InvitesCounted == Spec => []InviteAccounting
<1>1. IInv => InviteAccounting
  BY DEF IInv
<1> QED
  BY <1>1, Inductive, PTL

\* Nobody is admitted against the settings that were read.
THEOREM Admitted == Spec => []AdmittedByRule
<1>1. IInv => AdmittedByRule
  BY DEF IInv
<1> QED
  BY <1>1, Inductive, PTL

\* No two registrations get the same name or address.
THEOREM AddressesUnique == Spec => []OneAccountPerAddress
<1>1. IInv => OneAccountPerAddress
  BY DEF IInv
<1> QED
  BY <1>1, Inductive, PTL

\* A revoked invite admits nobody, whatever was under way when it was revoked.
THEOREM RevokedInviteIsDead == Spec => RevokedAdmitsNobody
<1>1. [Next]_vars => [\A i \in revoked : {u \in uses' : u[1] = i} \subseteq uses]_vars
  <2> SUFFICES ASSUME Next PROVE \A i \in revoked : {u \in uses' : u[1] = i} \subseteq uses
    BY DEF vars
  <2>1. ASSUME NEW r \in Registrations, Commit(r), SpendInvite(r)
        PROVE  \A i \in revoked : {u \in uses' : u[1] = i} \subseteq uses
    BY <2>1 DEF SpendInvite, Usable
  <2>2. uses' = uses \/ \E r \in Registrations : Commit(r) /\ SpendInvite(r)
    BY DEF Next, Register, ReadSettings, BeginTx, CheckTaken, Commit, Answer, Fail,
        Administer, UpdateSettings, CreateInvite, RevokeInvite, ExpireInvite, CreateUser
  <2> QED
    BY <2>1, <2>2
<1> QED
  BY <1>1, PTL DEF Spec, RevokedAdmitsNobody

-----------------------------------------------------------------------------
(* Registration implements LimitedInvite. *)

\* A registration that is decided no longer waits with its invite.
LEMMA NoLongerWaiting ==
  ASSUME TypeOK, NEW r \in Registrations, NEW to, to \notin {"begun", "checked"},
         pc' = [pc EXCEPT ![r] = to], late' = late
  PROVE  InTime' = InTime \ {<<Code[r], r>>}
BY DEF InTime, TypeOK

\* What leaves the tables of the invites alone leaves them alone abstractly.
LEMMA NothingMoves ==
  ASSUME UNCHANGED inviteVars, InTime' = InTime
  PROVE  UNCHANGED Invite!vars
BY DEF Invite!vars, Guests

\* One step of a registration that decides nothing, and leaves the invites alone.
LEMMA GoingAway ==
  ASSUME TypeOK, NEW r \in Registrations, InTime' = InTime \ {<<Code[r], r>>},
         UNCHANGED inviteVars
  PROVE  [Invite!Next]_(Invite!vars)
<1>1. CASE Code[r] \in Invites
  <2>1. Invite!Leave(Code[r], r)
    BY DEF Invite!Leave, Guests
  <2> QED
    BY <1>1, <2>1 DEF Invite!Next
<1>2. CASE Code[r] \notin Invites
  <2>1. InTime' = InTime
    BY <1>2 DEF InTime
  <2> QED
    BY <2>1, NothingMoves
<1> QED
  BY <1>1, <1>2

\* A transaction begins: the registration came in time, or it did not.
LEMMA BeginRefines ==
  ASSUME IInv, NEW r \in Registrations, BeginTx(r)
  PROVE  [Invite!Next]_(Invite!vars)
<1>1. pc[r] = "read" /\ pc' = [pc EXCEPT ![r] = "begun"]
      /\ late' = [late EXCEPT ![r] = Code[r] \in expired] /\ TypeOK
  BY DEF BeginTx, Advance, IInv
<1>2. CASE Code[r] \in Invites /\ Code[r] \notin expired
  <2>1. ~late'[r] /\ pc'[r] = "begun"
    BY <1>1, <1>2, Zenon DEF TypeOK
  <2>2. \A q \in Registrations : q # r => pc'[q] = pc[q] /\ late'[q] = late[q]
    BY <1>1 DEF TypeOK
  <2>3. InTime' = InTime \cup {<<Code[r], r>>}
    BY <1>1, <1>2, <2>1, <2>2 DEF InTime
  <2>4. Invite!Arrive(Code[r], r)
    BY <1>2, <2>3 DEF Invite!Arrive, BeginTx, Guests
  <2> QED
    BY <1>2, <2>4 DEF Invite!Next
<1>3. CASE ~(Code[r] \in Invites /\ Code[r] \notin expired)
  <2>1. InTime' = InTime
    BY <1>1, <1>3 DEF InTime, TypeOK
  <2> QED
    BY <2>1, NothingMoves DEF BeginTx
<1> QED
  BY <1>2, <1>3

\* A commit admits one more guest, or the registration needed no invite.
LEMMA CommitRefines ==
  ASSUME IInv, NEW r \in Registrations, Commit(r)
  PROVE  [Invite!Next]_(Invite!vars)
<1> DEFINE i == Code[r]
<1>1. pc[r] = "checked" /\ pc' = [pc EXCEPT ![r] = "committed"] /\ late' = late
  BY DEF Commit, Advance
<1>2. InTime' = InTime \ {<<i, r>>}
  BY <1>1, NoLongerWaiting DEF IInv
<1>3. CASE SpendInvite(r)
  <2>1. i \in Invites /\ i \notin revoked /\ ~late[r] /\ used[i] < limit[i]
    BY <1>3, InviteAssumption DEF SpendInvite, Usable
  <2>2. <<i, r>> \in InTime
    BY <1>1, <2>1 DEF InTime
  <2>3. \A j \in Invites : r \notin Guests(j)
    BY CommitWrites DEF IInv, InviteAccounting
  <2>4. Cardinality(Guests(i)) < limit[i]
    BY <2>1 DEF IInv, InviteAccounting
  <2>5. Guests(i)' = Guests(i) \cup {r} /\ \A j \in Invites : j # i => Guests(j)' = Guests(j)
    BY <1>3 DEF SpendInvite, Guests
  <2>6. [j \in Invites |-> Guests(j)]' = [[j \in Invites |-> Guests(j)] EXCEPT ![i] = @ \cup {r}]
    BY <2>1, <2>5
  <2>7. /\ \A j \in Invites : r \notin [k \in Invites |-> Guests(k)][j]
        /\ Cardinality([k \in Invites |-> Guests(k)][i]) < limit[i]
    BY <2>1, <2>3, <2>4
  <2>8. UNCHANGED <<limit, revoked, expired>>
    BY DEF Commit
  <2> HIDE DEF i
  <2>9. Invite!Cardinality([k \in Invites |-> Guests(k)][i]) < limit[i]
    BY <2>7 DEF Invite!Cardinality, Cardinality
  <2>10. Invite!Admit(i, r)
    BY <1>2, <2>1, <2>2, <2>6, <2>7, <2>8, <2>9 DEF Invite!Admit
  <2> QED
    BY <2>1, <2>10 DEF Invite!Next, i
<1>4. CASE UNCHANGED <<used, uses>>
  BY <1>2, <1>4, GoingAway DEF Commit, IInv
<1> QED
  BY <1>3, <1>4 DEF Commit

\* Every step of a registration is a step of the invites, or of none.
LEMMA RegisterRefines ==
  ASSUME IInv, NEW r \in Registrations, Register(r)
  PROVE  [Invite!Next]_(Invite!vars)
<1>1. CASE ReadSettings(r)
  <2>1. InTime' = InTime
    BY <1>1 DEF ReadSettings, Advance, InTime, IInv, TypeOK
  <2> QED
    BY <1>1, <2>1, NothingMoves DEF ReadSettings
<1>2. CASE CheckTaken(r)
  <2>1. InTime' = InTime
    BY <1>2 DEF CheckTaken, Advance, InTime, IInv, TypeOK
  <2> QED
    BY <1>2, <2>1, NothingMoves DEF CheckTaken
<1>3. CASE Answer(r)
  <2>1. InTime' = InTime \ {<<Code[r], r>>}
    BY <1>3, NoLongerWaiting DEF Answer, Advance, IInv
  <2> QED
    BY <1>3, <2>1, GoingAway DEF Answer, IInv
<1>4. CASE Fail(r)
  <2>1. InTime' = InTime \ {<<Code[r], r>>}
    BY <1>4, NoLongerWaiting DEF Fail, IInv
  <2> QED
    BY <1>4, <2>1, GoingAway DEF Fail, IInv
<1> QED
  BY <1>1, <1>2, <1>3, <1>4, BeginRefines, CommitRefines DEF Register

\* Administrators and time issue, revoke and end invites one at a time.
LEMMA AdministerRefines ==
  ASSUME IInv, Administer
  PROVE  [Invite!Next]_(Invite!vars)
<1>1. InTime' = InTime /\ UNCHANGED <<used, uses>> /\ \A i \in Invites : Guests(i)' = Guests(i)
  BY DEF Administer, UpdateSettings, CreateInvite, RevokeInvite, ExpireInvite, CreateUser,
         InTime, Guests
<1>2. ASSUME NEW s \in Settings, UpdateSettings(s) PROVE UNCHANGED Invite!vars
  BY <1>1, <1>2, NothingMoves DEF UpdateSettings
<1>3. ASSUME NEW a \in Created, CreateUser(a) PROVE UNCHANGED Invite!vars
  BY <1>1, <1>3, NothingMoves DEF CreateUser
<1>4. ASSUME NEW i \in Invites, NEW n \in Sizes, CreateInvite(i, n) PROVE Invite!Next
  <2>1. Clamped(n) \in 1 .. 1000
    BY <1>4, ClampedRange
  <2>2. \E m \in 1 .. 1000 : limit' = [limit EXCEPT ![i] = m]
    BY <1>4, <2>1 DEF CreateInvite
  <2>3. limit[i] = 0 /\ UNCHANGED <<revoked, expired>>
    BY <1>4 DEF CreateInvite
  <2>4. [j \in Invites |-> Guests(j)]' = [j \in Invites |-> Guests(j)]
    BY <1>1
  <2>5. Invite!Issue(i)
    BY <1>1, <2>2, <2>3, <2>4 DEF Invite!Issue
  <2> QED
    BY <2>5 DEF Invite!Next
<1>5. ASSUME NEW i \in Invites, RevokeInvite(i) PROVE Invite!Next
  <2>1. Invite!Close(i)
    BY <1>1, <1>5 DEF RevokeInvite, Invite!Close
  <2> QED
    BY <2>1 DEF Invite!Next
<1>6. ASSUME NEW i \in Invites, ExpireInvite(i) PROVE Invite!Next
  <2>1. Invite!Lapse(i)
    BY <1>1, <1>6 DEF ExpireInvite, Invite!Lapse
  <2> QED
    BY <2>1 DEF Invite!Next
<1> QED
  BY <1>2, <1>3, <1>4, <1>5, <1>6 DEF Administer

\* The registrations, the administrators and time together keep the promise of
\* LimitedInvite for every invite, for any number of them.
THEOREM InvitesRefined == Spec => ImplementsInvite
<1>1. Init => Invite!Init
  BY DEF Init, Invite!Init, Guests, InTime
<1>2. IInv /\ [Next]_vars => [Invite!Next]_(Invite!vars)
  <2>1. CASE UNCHANGED vars
    BY <2>1, NothingMoves DEF vars, InTime
  <2> QED
    BY <2>1, RegisterRefines, AdministerRefines DEF Next
<1> QED
  BY <1>1, <1>2, Inductive, PTL DEF Spec, ImplementsInvite, Invite!Spec
=============================================================================
