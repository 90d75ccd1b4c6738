------------------------ MODULE AccessTokens_proofs ------------------------
(***************************************************************************)
(* Theorems about AccessTokens for every finite set of tokens, any limits  *)
(* and any codes.                                                          *)
(***************************************************************************)
EXTENDS AccessTokens, FiniteSetTheorems, TLAPS

USE DEF accountVars, tokenVars, requestVars, answerVars, Tokens

Inside(r) == pc[r] \in {"counted", "read"}

\* One transaction at a time is past the advisory lock.
Locked == \A r, s \in Requests : Inside(r) /\ Inside(s) => r = s

\* The token of a request has no row before the request is done.
Unborn == \A r \in Requests : pc[r] # "done" => row[r] = "none"

\* While an edit holds its row, the row is there and its scopes are the ones it read.
Reading ==
  \A r \in Requests :
    /\ pc[r] \in {"editing", "read"} => target[r] \in Tokens
    /\ pc[r] = "read" => previous[r] = scopes[target[r]]

\* A request that has counted the tokens has room for one more.
Counting ==
  \A r \in Requests :
    pc[r] = "counted" => Cardinality(Active(PurposeOf(asked[r]))) < Limit[PurposeOf(asked[r])]

\* An introspection under way remembers the present rights and has not answered.
Witnessing ==
  \A i \in Introspections :
    /\ ipc[i] = "found" => rights \in held[i]
    /\ ipc[i] # "answered" => answer[i] = {}

IInv ==
  TypeOK /\ Locked /\ Unborn /\ Reading /\ Counting /\ QuotaHolds /\ Witnessing

-----------------------------------------------------------------------------
\* The usable tokens are counted by a number.
LEMMA ActiveFinite ==
  ASSUME NEW p \in Purposes
  PROVE  IsFiniteSet(Active(p)) /\ Cardinality(Active(p)) \in Nat
BY TokenAssumption, FS_Subset, FS_CardinalityType DEF Active

\* Fewer usable tokens are counted by a smaller number.
LEMMA ActiveShrinks ==
  ASSUME NEW p \in Purposes, Active(p)' \subseteq Active(p)
  PROVE  Cardinality(Active(p)') \in Nat /\ Cardinality(Active(p)') <= Cardinality(Active(p))
BY ActiveFinite, FS_Subset, FS_CardinalityType

LEMMA PurposeRange ==
  ASSUME NEW S
  PROVE  PurposeOf(S) \in Purposes
BY DEF PurposeOf, Purposes

\* What may be asked for may be passed on, and is a set of codes.
LEMMA AllowedRange ==
  ASSUME NEW S, Allowed(S)
  PROVE  S \in SUBSET Delegable /\ S \in SUBSET Codes
BY CodeAssumption DEF Allowed

\* What an introspection answers are codes the scopes and the rights have.
LEMMA EffectiveHeld ==
  ASSUME NEW S, S \subseteq Codes
  PROVE  Effective(S) \subseteq Codes /\ \A c \in Effective(S) : Can(rights, c)
BY DEF Effective

-----------------------------------------------------------------------------
\* Every step keeps the shape of the rows and the requests.
LEMMA TypeStep ==
  ASSUME TypeOK, Reading, [Next]_vars
  PROVE  TypeOK'
<1>1. ASSUME NEW r \in Requests, Request(r) PROVE TypeOK'
  <2>1. ASSUME NEW S \in SUBSET Codes, BeginCreate(r, S) PROVE TypeOK'
    BY <2>1, AllowedRange DEF BeginCreate, Advance, TypeOK, Steps
  <2>2. ASSUME NEW S \in SUBSET Codes, NEW t \in Tokens, BeginEdit(r, t, S) PROVE TypeOK'
    <3>1. S \in SUBSET Delegable
      BY <2>2, AllowedRange DEF BeginEdit
    <3> QED
      BY <2>2, <3>1 DEF BeginEdit, Advance, TypeOK, Steps
  <2>3. CASE CountTokens(r)
    BY <2>3 DEF CountTokens, Advance, TypeOK, Steps
  <2>4. CASE InsertToken(r)
    <3>1. scopes' \in [Tokens -> SUBSET Codes] /\ \A t \in Requests : scopes'[t] \subseteq Delegable
      BY <2>4, CodeAssumption DEF InsertToken, TypeOK
    <3>2. purpose' \in [Tokens -> Purposes]
      BY <2>4, PurposeRange DEF InsertToken, TypeOK
    <3> QED
      BY <2>4, <3>1, <3>2 DEF InsertToken, Forget, Advance, TypeOK, Steps
  <2>5. CASE ReadScopes(r)
    <3>1. scopes[target[r]] \in SUBSET Codes
      BY <2>5 DEF ReadScopes, Advance, Reading, TypeOK
    <3> QED
      BY <2>5, <3>1 DEF ReadScopes, Advance, TypeOK, Steps
  <2>6. CASE WriteScopes(r)
    <3> DEFINE S == IF asked[r] = {} THEN previous[r] ELSE asked[r]
    <3>1. target[r] \in Tokens /\ previous[r] = scopes[target[r]]
      BY <2>6 DEF WriteScopes, Advance, Reading
    <3>2. S \in SUBSET Codes /\ (target[r] \in Requests => S \subseteq Delegable)
      BY <3>1, CodeAssumption DEF TypeOK
    <3>3. scopes' = [scopes EXCEPT ![target[r]] = S]
      BY <2>6 DEF WriteScopes
    <3>4. scopes' \in [Tokens -> SUBSET Codes] /\ \A t \in Requests : scopes'[t] \subseteq Delegable
      BY <3>1, <3>2, <3>3 DEF TypeOK
    <3> QED
      BY <2>6, <3>4 DEF WriteScopes, EditedRow, Forget, Advance, TypeOK, Steps
  <2>7. CASE Fail(r)
    BY <2>7 DEF Fail, Forget, TypeOK, Steps
  <2> QED
    BY <1>1, <2>1, <2>2, <2>3, <2>4, <2>5, <2>6, <2>7 DEF Request
<1>2. ASSUME NEW t \in Tokens, Revoke(t) \/ Delete(t) \/ Expire(t) PROVE TypeOK'
  BY <1>2 DEF Revoke, Delete, Expire, TypeOK
<1>3. ASSUME NEW i \in Introspections, Introspect(i) PROVE TypeOK'
  <2>1. ASSUME NEW t \in Tokens, LookUp(i, t) PROVE TypeOK'
    BY <2>1 DEF LookUp, TypeOK
  <2>2. CASE ReadAccess(i)
    BY <2>2, EffectiveHeld DEF ReadAccess, TypeOK
  <2> QED
    BY <1>3, <2>1, <2>2 DEF Introspect
<1>4. CASE Account
  <2>1. ASSUME NEW R \in Grants, SetRights(R) PROVE TypeOK'
    BY <2>1, CodeAssumption DEF SetRights, Witnessed, TypeOK
  <2>2. CASE RefreshSession
    BY <2>2 DEF RefreshSession, TypeOK
  <2>3. CASE StripRetired
    BY <2>3 DEF StripRetired, Witnessed, TypeOK
  <2> QED
    BY <1>4, <2>1, <2>2, <2>3 DEF Account
<1>5. CASE UNCHANGED vars
  BY <1>5 DEF vars, TypeOK
<1> QED
  BY <1>1, <1>2, <1>3, <1>4, <1>5 DEF Next

\* A transaction gets past the lock when no other one is, and a token's row comes
\* with the end of its request.
LEMMA LockStep ==
  ASSUME TypeOK, Locked, Unborn, [Next]_vars
  PROVE  Locked' /\ Unborn'
<1>1. ASSUME NEW r \in Requests, Request(r) PROVE Locked' /\ Unborn'
  <2>1. ASSUME NEW S \in SUBSET Codes, BeginCreate(r, S) PROVE Locked' /\ Unborn'
    BY <2>1 DEF BeginCreate, Advance, TypeOK, Locked, Unborn, Inside
  <2>2. ASSUME NEW S \in SUBSET Codes, NEW t \in Tokens, BeginEdit(r, t, S) PROVE Locked' /\ Unborn'
    BY <2>2 DEF BeginEdit, Advance, TypeOK, Locked, Unborn, Inside
  <2>3. CASE CountTokens(r)
    BY <2>3 DEF CountTokens, LockFree, Advance, TypeOK, Locked, Unborn, Inside
  <2>4. CASE InsertToken(r)
    BY <2>4 DEF InsertToken, Advance, TypeOK, Locked, Unborn, Inside
  <2>5. CASE ReadScopes(r)
    BY <2>5 DEF ReadScopes, LockFree, Advance, TypeOK, Locked, Unborn, Inside
  <2>6. CASE WriteScopes(r)
    BY <2>6 DEF WriteScopes, EditedRow, Advance, TypeOK, Locked, Unborn, Inside
  <2>7. CASE Fail(r)
    BY <2>7 DEF Fail, TypeOK, Locked, Unborn, Inside
  <2> QED
    BY <1>1, <2>1, <2>2, <2>3, <2>4, <2>5, <2>6, <2>7 DEF Request
<1>2. ASSUME NEW t \in Tokens, Revoke(t) \/ Delete(t) \/ Expire(t) PROVE Locked' /\ Unborn'
  BY <1>2 DEF Revoke, Delete, Expire, TypeOK, Locked, Unborn, Inside
<1>3. CASE UNCHANGED <<pc, row>>
  BY <1>3 DEF Locked, Unborn, Inside
<1> QED
  BY <1>1, <1>2, <1>3 DEF Next, Introspect, LookUp, ReadAccess, Account, SetRights,
      RefreshSession, StripRetired, vars

\* Nobody writes the scopes an edit has read before the edit is over.
LEMMA ReadingStep ==
  ASSUME TypeOK, Locked, Reading, [Next]_vars
  PROVE  Reading'
<1>1. ASSUME NEW r \in Requests, Request(r) PROVE Reading'
  <2>1. ASSUME NEW S \in SUBSET Codes, BeginCreate(r, S) PROVE Reading'
    BY <2>1 DEF BeginCreate, Advance, TypeOK, Reading
  <2>2. ASSUME NEW S \in SUBSET Codes, NEW t \in Tokens, BeginEdit(r, t, S) PROVE Reading'
    BY <2>2 DEF BeginEdit, Advance, TypeOK, Reading
  <2>3. CASE CountTokens(r)
    BY <2>3 DEF CountTokens, Advance, TypeOK, Reading
  <2>4. CASE InsertToken(r)
    <3>1. \A q \in Requests : pc[q] # "read"
      BY <2>4 DEF InsertToken, Advance, Locked, Inside
    <3> QED
      BY <2>4, <3>1 DEF InsertToken, Forget, Advance, TypeOK, Reading
  <2>5. CASE ReadScopes(r)
    BY <2>5 DEF ReadScopes, Advance, TypeOK, Reading
  <2>6. CASE WriteScopes(r)
    <3>1. \A q \in Requests : q # r => pc[q] # "read"
      BY <2>6 DEF WriteScopes, Advance, Locked, Inside
    <3> QED
      BY <2>6, <3>1 DEF WriteScopes, Forget, Advance, TypeOK, Reading
  <2>7. CASE Fail(r)
    BY <2>7 DEF Fail, Forget, TypeOK, Reading
  <2> QED
    BY <1>1, <2>1, <2>2, <2>3, <2>4, <2>5, <2>6, <2>7 DEF Request
<1>2. CASE StripRetired
  BY <1>2 DEF StripRetired, LockFree, Reading
<1>3. CASE UNCHANGED <<pc, target, previous, scopes>>
  BY <1>3 DEF Reading
<1> QED
  BY <1>1, <1>2, <1>3 DEF Next, Revoke, Delete, Expire, Introspect, LookUp, ReadAccess,
      Account, SetRights, RefreshSession, vars

\* Only the request that holds the lock adds a token, and it has room.
LEMMA CountingStep ==
  ASSUME TypeOK, Locked, Counting, QuotaHolds, [Next]_vars
  PROVE  Counting' /\ QuotaHolds'
<1>0. Limit \in [Purposes -> Nat]
  BY TokenAssumption
<1>1. ASSUME \A p \in Purposes : Active(p)' \subseteq Active(p),
             \A r \in Requests : pc'[r] = "counted" =>
               asked'[r] = asked[r] /\ (pc[r] = "counted" \/ Room(r))
      PROVE  Counting' /\ QuotaHolds'
  <2>1. \A p \in Purposes : Cardinality(Active(p)') \in Nat /\ Cardinality(Active(p)') <= Cardinality(Active(p))
    BY <1>1, ActiveShrinks
  <2>2. QuotaHolds'
    BY <1>0, <2>1, ActiveFinite DEF QuotaHolds
  <2>3. ASSUME NEW r \in Requests, pc'[r] = "counted", NEW p \in Purposes, p = PurposeOf(asked[r])
        PROVE  Cardinality(Active(p)') < Limit[p]
    <3>1. Cardinality(Active(p)) < Limit[p]
      BY <1>1, <2>3 DEF Counting, Room
    <3>2. Limit[p] \in Nat /\ Cardinality(Active(p)) \in Nat
      BY <1>0, ActiveFinite
    <3> QED
      BY <2>1, <3>1, <3>2
  <2>4. ASSUME NEW r \in Requests, pc'[r] = "counted"
        PROVE  Cardinality(Active(PurposeOf(asked[r]))') < Limit[PurposeOf(asked'[r])]
    <3>1. asked'[r] = asked[r] /\ PurposeOf(asked[r]) \in Purposes
      BY <1>1, <2>4, PurposeRange
    <3>2. PurposeOf(asked'[r]) = PurposeOf(asked[r])
      BY <3>1
    <3>3. PICK p \in Purposes : p = PurposeOf(asked[r])
      BY <3>1
    <3>4. Active(PurposeOf(asked[r]))' = Active(p)'
      BY <3>2, <3>3 DEF Active, PurposeOf
    <3> QED
      BY <2>3, <2>4, <3>2, <3>3, <3>4
  <2>5. Counting'
    BY <2>4 DEF Counting
  <2> QED
    BY <2>2, <2>5
<1>2. ASSUME NEW r \in Requests, InsertToken(r) PROVE Counting' /\ QuotaHolds'
  <2> DEFINE q == PurposeOf(asked[r])
  <2>1. \A s \in Requests : pc'[s] # "counted"
    BY <1>2 DEF InsertToken, Advance, Locked, Inside, TypeOK
  <2>2. Cardinality(Active(q)) < Limit[q]
    BY <1>2 DEF InsertToken, Advance, Counting
  <2>3. ASSUME NEW p \in Purposes PROVE Cardinality(Active(p)') <= Limit[p]
    <3>1. CASE p = q
      <4>1. Active(p)' \subseteq Active(p) \cup {r}
        BY <1>2 DEF InsertToken, Active, TypeOK
      <4>2. IsFiniteSet(Active(p)) /\ Cardinality(Active(p)) \in Nat
        BY ActiveFinite
      <4>3. IsFiniteSet(Active(p) \cup {r})
        BY <4>2, FS_AddElement
      <4>4. \/ Cardinality(Active(p) \cup {r}) = Cardinality(Active(p))
            \/ Cardinality(Active(p) \cup {r}) = Cardinality(Active(p)) + 1
        BY <4>2, FS_AddElement
      <4>5. IsFiniteSet(Active(p) \cup {r}) /\ Cardinality(Active(p) \cup {r}) <= Cardinality(Active(p)) + 1
        BY <4>2, <4>3, <4>4
      <4>6. Cardinality(Active(p)') <= Cardinality(Active(p) \cup {r})
        BY <4>1, <4>5, FS_Subset
      <4>7. Cardinality(Active(p)') \in Nat /\ Cardinality(Active(p) \cup {r}) \in Nat
        BY <4>1, <4>5, FS_Subset, FS_CardinalityType
      <4> QED
        BY <1>0, <2>2, <3>1, <4>5, <4>6, <4>7, ActiveFinite
    <3>2. CASE p # q
      <4>1. Active(p)' \subseteq Active(p)
        BY <1>2, <3>2 DEF InsertToken, Active, TypeOK
      <4> QED
        BY <1>0, <4>1, ActiveShrinks, ActiveFinite DEF QuotaHolds
    <3> QED
      BY <3>1, <3>2
  <2> QED
    BY <2>1, <2>3 DEF Counting, QuotaHolds
<1>3. ASSUME NEW r \in Requests, Request(r), ~InsertToken(r) PROVE Counting' /\ QuotaHolds'
  <2>1. \A p \in Purposes : Active(p)' \subseteq Active(p)
    BY <1>3 DEF Request, BeginCreate, BeginEdit, CountTokens, ReadScopes, WriteScopes, EditedRow,
        Fail, Active
  <2>2. \A s \in Requests : pc'[s] = "counted" =>
          asked'[s] = asked[s] /\ (pc[s] = "counted" \/ Room(s))
    <3>1. CASE CountTokens(r)
      BY <3>1 DEF CountTokens, Advance, TypeOK
    <3>2. CASE WriteScopes(r) \/ Fail(r)
      BY <3>2 DEF WriteScopes, Fail, Forget, Advance, TypeOK
    <3>3. CASE ReadScopes(r)
      BY <3>3 DEF ReadScopes, Advance, TypeOK
    <3>4. ASSUME NEW S \in SUBSET Codes, BeginCreate(r, S) \/ \E t \in Tokens : BeginEdit(r, t, S)
          PROVE  \A s \in Requests : pc'[s] = "counted" =>
                   asked'[s] = asked[s] /\ (pc[s] = "counted" \/ Room(s))
      BY <3>4 DEF BeginCreate, BeginEdit, Advance, TypeOK
    <3> QED
      BY <1>3, <3>1, <3>2, <3>3, <3>4 DEF Request
  <2> QED
    BY <1>1, <2>1, <2>2
<1>4. ASSUME NEW t \in Tokens, Revoke(t) \/ Delete(t) \/ Expire(t) PROVE Counting' /\ QuotaHolds'
  <2>1. \A p \in Purposes : Active(p)' \subseteq Active(p)
    BY <1>4 DEF Revoke, Delete, Expire, Active, TypeOK
  <2> QED
    BY <1>1, <1>4, <2>1 DEF Revoke, Delete, Expire
<1>5. CASE UNCHANGED <<row, purpose, expired, pc, asked>>
  BY <1>1, <1>5 DEF Active
<1> QED
  BY <1>2, <1>3, <1>4, <1>5 DEF Next, Introspect, LookUp, ReadAccess, Account, SetRights,
      RefreshSession, StripRetired, vars

\* An introspection witnesses every change of the rights until it answers.
LEMMA WitnessingStep ==
  ASSUME TypeOK, Witnessing, [Next]_vars
  PROVE  Witnessing'
<1>1. ASSUME NEW i \in Introspections, Introspect(i) PROVE Witnessing'
  BY <1>1 DEF Introspect, LookUp, ReadAccess, TypeOK, Witnessing
<1>2. CASE Account
  <2>1. ASSUME NEW R \in Grants, SetRights(R) PROVE Witnessing'
    BY <2>1 DEF SetRights, Witnessed, TypeOK, Witnessing
  <2>2. CASE RefreshSession
    BY <2>2 DEF RefreshSession, Witnessing
  <2>3. CASE StripRetired
    BY <2>3 DEF StripRetired, Witnessed, TypeOK, Witnessing
  <2> QED
    BY <1>2, <2>1, <2>2, <2>3 DEF Account
<1>3. CASE UNCHANGED <<rights, ipc, answer, held>>
  BY <1>3 DEF Witnessing
<1> QED
  BY <1>1, <1>2, <1>3 DEF Next, Request, BeginCreate, BeginEdit, CountTokens, InsertToken,
      ReadScopes, WriteScopes, Fail, Revoke, Delete, Expire, vars

LEMMA Initially == Init => IInv
<1> SUFFICES ASSUME Init PROVE IInv
  OBVIOUS
<1>1. TypeOK
  BY TokenAssumption, CodeAssumption DEF Init, TypeOK, Steps, Purposes
<1>2. Locked /\ Unborn /\ Reading /\ Counting /\ Witnessing
  BY TokenAssumption DEF Init, Locked, Inside, Unborn, Reading, Counting, Witnessing
<1>3. Limit["personal"] \in Nat /\ Limit["mcp"] \in Nat /\ Cardinality(Legacy) <= Limit["personal"]
  BY TokenAssumption DEF Purposes
<1>4. Active("personal") = Legacy /\ Active("mcp") = {}
  BY TokenAssumption DEF Init, Active
<1>5. QuotaHolds
  BY <1>3, <1>4, FS_EmptySet DEF QuotaHolds, Purposes
<1> QED
  BY <1>1, <1>2, <1>5 DEF IInv

LEMMA Inductive == Spec => []IInv
<1>1. IInv /\ [Next]_vars => IInv'
  BY TypeStep, LockStep, ReadingStep, CountingStep, WitnessingStep DEF IInv
<1> QED
  BY <1>1, Initially, PTL DEF Spec

-----------------------------------------------------------------------------
\* Tokens, requests and introspections are well typed.
THEOREM TypeCorrect == Spec => []TypeOK
<1>1. IInv => TypeOK
  BY DEF IInv
<1> QED
  BY <1>1, Inductive, PTL

\* However many requests create tokens at once, the limit of each purpose holds.
THEOREM QuotaKept == Spec => []QuotaHolds
<1>1. IInv => QuotaHolds
  BY DEF IInv
<1> QED
  BY <1>1, Inductive, PTL

\* An MCP credential only loses scopes.
THEOREM MCPNarrows == Spec => MCPNeverWidens
<1>1. IInv /\ [Next]_vars =>
        [\A t \in Tokens :
           row[t] # "none" /\ purpose[t] = "mcp" => scopes'[t] \subseteq scopes[t]]_vars
  <2> SUFFICES ASSUME IInv, Next, NEW t \in Tokens, row[t] # "none", purpose[t] = "mcp"
               PROVE  scopes'[t] \subseteq scopes[t]
    OBVIOUS
  <2>1. ASSUME NEW r \in Requests, InsertToken(r) PROVE scopes'[t] \subseteq scopes[t]
    BY <2>1 DEF InsertToken, Advance, IInv, TypeOK, Unborn
  <2>2. ASSUME NEW r \in Requests, WriteScopes(r) PROVE scopes'[t] \subseteq scopes[t]
    BY <2>2 DEF WriteScopes, Advance, EditAccepted, IInv, TypeOK, Reading
  <2>3. CASE StripRetired
    BY <2>3 DEF StripRetired, IInv, TypeOK
  <2>4. \/ scopes' = scopes \/ StripRetired
        \/ \E r \in Requests : InsertToken(r) \/ WriteScopes(r)
    BY DEF Next, Request, BeginCreate, BeginEdit, CountTokens, ReadScopes, Fail, Revoke, Delete,
        Expire, Introspect, LookUp, ReadAccess, Account, SetRights, RefreshSession
  <2> QED
    BY <2>1, <2>2, <2>3, <2>4
<1> QED
  BY <1>1, Inductive, PTL DEF Spec, MCPNeverWidens

\* Renaming a token gives it the scopes it has.
THEOREM RenamingKeeps == Spec => RenamingKeepsScopes
<1>1. IInv /\ [Next]_vars =>
        [\A r \in Requests :
           pc[r] = "read" /\ asked[r] = {} /\ pc'[r] = "done" => scopes' = scopes]_vars
  <2> SUFFICES ASSUME IInv, Next, NEW r \in Requests,
                      pc[r] = "read", asked[r] = {}, pc'[r] = "done"
               PROVE  scopes' = scopes
    OBVIOUS
  <2>1. CASE WriteScopes(r)
    BY <2>1 DEF WriteScopes, IInv, TypeOK, Reading
  <2>2. ASSUME NEW s \in Requests, InsertToken(s) PROVE FALSE
    BY <2>2 DEF InsertToken, Advance, IInv, Locked, Inside
  <2>3. ASSUME NEW s \in Requests, WriteScopes(s) PROVE s = r
    BY <2>3 DEF WriteScopes, Advance, IInv, Locked, Inside
  <2>4. ~StripRetired
    BY DEF StripRetired, LockFree
  <2>5. \/ scopes' = scopes \/ StripRetired
        \/ \E s \in Requests : InsertToken(s) \/ WriteScopes(s)
    BY DEF Next, Request, BeginCreate, BeginEdit, CountTokens, ReadScopes, Fail, Revoke, Delete,
        Expire, Introspect, LookUp, ReadAccess, Account, SetRights, RefreshSession
  <2> QED
    BY <2>1, <2>2, <2>3, <2>4, <2>5
<1> QED
  BY <1>1, Inductive, PTL DEF Spec, RenamingKeepsScopes

\* No edit that is under way brings a token back.
THEOREM DeadForGood == Spec => DeadStaysDead
<1>1. IInv /\ [Next]_vars =>
        [\A t \in Tokens :
           row[t] \in {"revoked", "deleted"} => row'[t] \in {row[t], "deleted"}]_vars
  <2> SUFFICES ASSUME IInv, Next, NEW t \in Tokens, row[t] \in {"revoked", "deleted"}
               PROVE  row'[t] \in {row[t], "deleted"}
    OBVIOUS
  <2>1. ASSUME NEW r \in Requests, InsertToken(r) PROVE row'[t] = row[t]
    BY <2>1 DEF InsertToken, Advance, IInv, TypeOK, Unborn
  <2>2. ASSUME NEW s \in Tokens, Revoke(s) \/ Delete(s) PROVE row'[t] \in {row[t], "deleted"}
    BY <2>2 DEF Revoke, Delete, IInv, TypeOK
  <2>3. \/ row' = row
        \/ \E r \in Requests : InsertToken(r)
        \/ \E s \in Tokens : Revoke(s) \/ Delete(s)
    BY DEF Next, Request, BeginCreate, BeginEdit, CountTokens, ReadScopes, WriteScopes, EditedRow,
        Fail, Expire, Introspect, LookUp, ReadAccess, Account, SetRights, RefreshSession, StripRetired
  <2> QED
    BY <2>1, <2>2, <2>3
<1> QED
  BY <1>1, Inductive, PTL DEF Spec, DeadStaysDead

\* An answer names no permission that the account had lost before the request.
THEOREM AnswersHeld == Spec => AnswerHeld
<1>1. IInv /\ [Next]_vars =>
        [\A i \in Introspections :
           ipc[i] = "found" => \A c \in answer'[i] : \E R \in held[i] : Can(R, c)]_vars
  <2> SUFFICES ASSUME IInv, Next, NEW i \in Introspections, ipc[i] = "found", NEW c \in answer'[i]
               PROVE  \E R \in held[i] : Can(R, c)
    OBVIOUS
  <2>1. rights \in held[i] /\ answer[i] = {}
    BY DEF IInv, Witnessing
  <2>2. ASSUME NEW j \in Introspections, ReadAccess(j) PROVE \E R \in held[i] : Can(R, c)
    <3>1. CASE j = i
      <4>1. c \in Effective(carried[i]) /\ carried[i] \subseteq Codes
        BY <2>2, <3>1 DEF ReadAccess, IInv, TypeOK
      <4>2. Can(rights, c)
        BY <4>1, EffectiveHeld
      <4> QED
        BY <2>1, <4>2
    <3>2. CASE j # i
      BY <2>1, <2>2, <3>2 DEF ReadAccess, IInv, TypeOK
    <3> QED
      BY <3>1, <3>2
  <2>3. answer' = answer \/ \E j \in Introspections : ReadAccess(j)
    BY DEF Next, Request, BeginCreate, BeginEdit, CountTokens, InsertToken, ReadScopes, WriteScopes,
        Fail, Revoke, Delete, Expire, Introspect, LookUp, Account, SetRights, RefreshSession, StripRetired
  <2> QED
    BY <2>1, <2>2, <2>3
<1> QED
  BY <1>1, Inductive, PTL DEF Spec, AnswerHeld

-----------------------------------------------------------------------------
(* AccessTokens implements Credential. *)

\* Who creates a token asks for something, and what has no row has not expired.
Asking ==
  /\ \A r \in Requests : pc[r] \in {"creating", "counted"} => asked[r] # {}
  /\ \A t \in Tokens : row[t] = "none" => t \notin expired

LEMMA AskingStep ==
  ASSUME TypeOK, Asking, [Next]_vars
  PROVE  Asking'
<1>1. ASSUME NEW r \in Requests, Request(r) PROVE Asking'
  <2>1. ASSUME NEW S \in SUBSET Codes, BeginCreate(r, S) PROVE Asking'
    BY <2>1 DEF BeginCreate, Allowed, Advance, TypeOK, Asking
  <2>2. ASSUME NEW S \in SUBSET Codes, NEW t \in Tokens, BeginEdit(r, t, S) PROVE Asking'
    BY <2>2 DEF BeginEdit, Advance, TypeOK, Asking
  <2>3. CASE CountTokens(r) \/ ReadScopes(r)
    BY <2>3 DEF CountTokens, ReadScopes, Advance, TypeOK, Asking
  <2>4. CASE InsertToken(r)
    BY <2>4 DEF InsertToken, Forget, Advance, TypeOK, Asking
  <2>5. CASE WriteScopes(r) \/ Fail(r)
    BY <2>5 DEF WriteScopes, EditedRow, Fail, Forget, Advance, TypeOK, Asking
  <2> QED
    BY <1>1, <2>1, <2>2, <2>3, <2>4, <2>5 DEF Request
<1>2. ASSUME NEW t \in Tokens, Revoke(t) \/ Delete(t) \/ Expire(t) PROVE Asking'
  BY <1>2 DEF Revoke, Delete, Expire, TypeOK, Asking
<1>3. CASE UNCHANGED <<pc, asked, row, expired>>
  BY <1>3 DEF Asking
<1> QED
  BY <1>1, <1>2, <1>3 DEF Next, Introspect, LookUp, ReadAccess, Account, SetRights,
      RefreshSession, StripRetired, vars

\* A token is to Credential what it was before.
Same(t) == StateOf(t)' = StateOf(t) /\ PowerOf(t)' = PowerOf(t)

LEMMA SameForAll ==
  ASSUME purpose' = purpose, \A t \in Tokens : Same(t)
  PROVE  UNCHANGED Issued!vars
BY DEF Same, Issued!vars

\* What leaves the rows of the tokens alone, Credential does not see.
LEMMA RowsSame ==
  ASSUME UNCHANGED tokenVars
  PROVE  UNCHANGED Issued!vars
BY SameForAll DEF Same, StateOf, PowerOf

\* A token that ends, ends alone, and does so once.
LEMMA Ending ==
  ASSUME NEW t \in Tokens, StateOf(t) # "none", StateOf(t)' = "over", purpose' = purpose,
         \A u \in Tokens : u # t => Same(u)
  PROVE  [Issued!Next]_(Issued!vars)
<1>1. PowerOf(t)' = {}
  BY DEF PowerOf
<1>2. CASE StateOf(t) = "usable"
  <2>1. \A u \in Tokens : /\ StateOf(u)' = IF u = t THEN "over" ELSE StateOf(u)
                          /\ PowerOf(u)' = IF u = t THEN {} ELSE PowerOf(u)
    BY <1>1 DEF Same
  <2>2. Issued!End(t)
    BY <1>2, <2>1 DEF Issued!End
  <2> QED
    BY <2>2 DEF Issued!Next
<1>3. CASE StateOf(t) # "usable"
  <2>1. StateOf(t) = "over"
    BY <1>3 DEF StateOf
  <2>2. Same(t)
    BY <1>1, <1>3, <2>1 DEF Same, PowerOf
  <2> QED
    BY <2>2, SameForAll
<1> QED
  BY <1>2, <1>3

\* Revocation, deletion and expiry end a token, or find it ended.
LEMMA EndRefines ==
  ASSUME TypeOK, NEW t \in Tokens, Revoke(t) \/ Delete(t) \/ Expire(t)
  PROVE  [Issued!Next]_(Issued!vars)
<1>1. StateOf(t) # "none" /\ StateOf(t)' = "over" /\ purpose' = purpose
  BY DEF Revoke, Delete, Expire, StateOf, TypeOK
<1>2. \A u \in Tokens : u # t => Same(u)
  BY DEF Revoke, Delete, Expire, Same, StateOf, PowerOf, TypeOK
<1> QED
  BY <1>1, <1>2, Ending

\* The token of a request is issued within the limit.
LEMMA InsertRefines ==
  ASSUME IInv, Asking, NEW r \in Requests, InsertToken(r)
  PROVE  Issued!Next
<1> DEFINE p == PurposeOf(asked[r])
<1>1. /\ pc[r] = "counted" /\ row[r] = "none" /\ r \notin expired /\ r \in Tokens
      /\ p \in Purposes /\ asked[r] \in (SUBSET Delegable) \ {{}}
  BY PurposeRange DEF InsertToken, Advance, IInv, Unborn, Asking, TypeOK
<1>2. StateOf(r) = "none" /\ StateOf(r)' = "usable" /\ PowerOf(r)' = asked[r]
  BY <1>1 DEF InsertToken, StateOf, PowerOf, IInv, TypeOK
<1>3. \A u \in Tokens : u # r => Same(u)
  BY DEF InsertToken, Same, StateOf, PowerOf, IInv, TypeOK
<1>4. Issued!Usable(p) = Active(p)
  BY DEF Issued!Usable, Active, StateOf
<1>5. Issued!Cardinality(Active(p)) < Limit[p]
  <2>1. Cardinality(Active(p)) < Limit[p]
    BY <1>1 DEF IInv, Counting
  <2> QED
    BY <2>1 DEF Issued!Cardinality, Cardinality
<1>6. purpose' = [purpose EXCEPT ![r] = p]
  BY DEF InsertToken
<1>7. \A u \in Tokens : /\ StateOf(u)' = IF u = r THEN "usable" ELSE StateOf(u)
                        /\ PowerOf(u)' = IF u = r THEN asked[r] ELSE PowerOf(u)
  BY <1>2, <1>3 DEF Same
<1> HIDE DEF p
<1>8. Issued!Issue(r, p)
  BY <1>1, <1>2, <1>4, <1>5, <1>6, <1>7 DEF Issued!Issue
<1> QED
  BY <1>1, <1>8 DEF Issued!Next

\* An edit changes the power of its token within bounds, or does not show.
LEMMA WriteRefines ==
  ASSUME IInv, NEW r \in Requests, WriteScopes(r)
  PROVE  [Issued!Next]_(Issued!vars)
<1>0. PICK t \in Tokens : t = target[r]
  BY DEF WriteScopes, Advance, IInv, Reading
<1>1. /\ previous[r] = scopes[t] /\ UNCHANGED <<row, purpose, expired>>
      /\ scopes' = [scopes EXCEPT ![t] = IF asked[r] = {} THEN previous[r] ELSE asked[r]]
      /\ asked[r] \in SUBSET Delegable
  BY <1>0 DEF WriteScopes, EditedRow, Advance, IInv, Reading, TypeOK
<1>2. \A u \in Tokens : StateOf(u)' = StateOf(u)
  BY <1>1 DEF StateOf
<1>3. \A u \in Tokens : u # t => PowerOf(u)' = PowerOf(u)
  BY <1>1, <1>2 DEF PowerOf, IInv, TypeOK
<1>4. CASE asked[r] = {} \/ StateOf(t) # "usable"
  <2>1. PowerOf(t)' = PowerOf(t)
    BY <1>1, <1>2, <1>4 DEF PowerOf, IInv, TypeOK
  <2> QED
    BY <1>1, <1>2, <1>3, <2>1, SameForAll DEF Same
<1>5. CASE asked[r] # {} /\ StateOf(t) = "usable"
  <2>1. PowerOf(t) = scopes[t] /\ PowerOf(t)' = asked[r]
    BY <1>1, <1>2, <1>5 DEF PowerOf, IInv, TypeOK
  <2>2. asked[r] \in Issued!Editable(t)
    <3>1. purpose[t] = "mcp" => asked[r] \subseteq PowerOf(t)
      BY <1>0, <1>1, <2>1 DEF WriteScopes, EditAccepted
    <3> QED
      BY <1>1, <3>1 DEF Issued!Editable
  <2>3. \A u \in Tokens : PowerOf(u)' = IF u = t THEN asked[r] ELSE PowerOf(u)
    BY <1>3, <2>1
  <2>4. Issued!Edit(t)
    BY <1>1, <1>2, <1>5, <2>2, <2>3 DEF Issued!Edit
  <2> QED
    BY <2>4 DEF Issued!Next
<1> QED
  BY <1>4, <1>5

\* The migration takes the retired codes from every token that has any.
LEMMA StripRefines ==
  ASSUME StripRetired
  PROVE  Issued!Next
<1>1. \A t \in Tokens : StateOf(t)' = StateOf(t) /\ PowerOf(t)' = PowerOf(t) \ Retired
  BY DEF StripRetired, StateOf, PowerOf
<1>2. Issued!Retire
  BY <1>1 DEF Issued!Retire, StripRetired
<1> QED
  BY <1>2 DEF Issued!Next

\* Concurrent requests, revocations, expiry and the migration together keep the
\* promise of Credential, for any number of tokens, any limits and any codes.
THEOREM CredentialsRefined == Spec => ImplementsCredential
<1>1. Init => Issued!Init /\ Asking
  <2> SUFFICES ASSUME Init PROVE Issued!Init /\ Asking
    OBVIOUS
  <2>1. TypeOK
    BY Initially DEF IInv
  <2>2. \A t \in Tokens : StateOf(t) = IF t \in Legacy THEN "usable" ELSE "none"
    BY DEF Init, StateOf
  <2>3. \A t \in Tokens : PowerOf(t) \in SUBSET Codes /\ (StateOf(t) = "none" => PowerOf(t) = {})
    BY <2>1 DEF PowerOf, TypeOK
  <2>4. Issued!Init
    BY <2>1, <2>2, <2>3 DEF Issued!Init, TypeOK
  <2> QED
    BY <2>4 DEF Init, Asking
<1>2. IInv /\ Asking /\ [Next]_vars => [Issued!Next]_(Issued!vars)
  <2> SUFFICES ASSUME IInv, Asking, [Next]_vars PROVE [Issued!Next]_(Issued!vars)
    OBVIOUS
  <2>1. CASE UNCHANGED tokenVars
    BY <2>1, RowsSame
  <2>2. ASSUME NEW r \in Requests, InsertToken(r) \/ WriteScopes(r)
        PROVE  [Issued!Next]_(Issued!vars)
    BY <2>2, InsertRefines, WriteRefines
  <2>3. ASSUME NEW t \in Tokens, Revoke(t) \/ Delete(t) \/ Expire(t)
        PROVE  [Issued!Next]_(Issued!vars)
    BY <2>3, EndRefines DEF IInv
  <2>4. \/ UNCHANGED tokenVars \/ StripRetired
        \/ \E r \in Requests : InsertToken(r) \/ WriteScopes(r)
        \/ \E t \in Tokens : Revoke(t) \/ Delete(t) \/ Expire(t)
    BY DEF Next, Request, BeginCreate, BeginEdit, CountTokens, ReadScopes, Fail, Introspect,
        LookUp, ReadAccess, Account, SetRights, RefreshSession, vars
  <2> QED
    BY <2>1, <2>2, <2>3, <2>4, StripRefines
<1>3. IInv /\ Asking /\ [Next]_vars => Asking'
  BY AskingStep DEF IInv
<1> QED
  BY <1>1, <1>2, <1>3, Inductive, PTL DEF Spec, ImplementsCredential, Issued!Spec
=============================================================================
