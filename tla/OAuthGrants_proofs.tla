------------------------- MODULE OAuthGrants_proofs -------------------------
(***************************************************************************)
(* Theorems about OAuthGrants for every set of users, clients, requests,   *)
(* exchanges and revokers.                                                 *)
(***************************************************************************)
EXTENDS OAuthGrantsRefinement, TLAPS

USE RequestAssumption, ExchangeAssumption

\* A client that exists has a white list of known scopes.
LEMMA WhiteList ==
  ASSUME TypeOK, NEW c \in Clients, client[c] # NoClient
  PROVE  client[c].scopes \in SUBSET Scopes
BY ClientAssumption DEF TypeOK

\* The row written for a consent is a row of the audit table.
LEMMA AuditRowType ==
  ASSUME NEW k \in Requests, NEW action \in {"allow", "deny"},
         NEW S \in SUBSET Scopes
  PROVE  AuditRow(k, action, S) \in AuditRows
BY DEF AuditRow, AuditRows

\* What a request may be granted is a set of scopes.
LEMMA ConvergeType ==
  ASSUME TypeOK, NEW k \in Requests, NEW S \in SUBSET Scopes
  PROVE  Converge(S, Audience[k]) \in SUBSET Scopes
BY DEF Converge

\* A judgement is a verdict for every request.
LEMMA JudgedType ==
  ASSUME TypeOK, NEW K, NEW gone
  PROVE  Judged(K, gone) \in [Requests -> Verdicts]
BY DEF Judged, TypeOK, Verdicts

\* Type correctness of the grant pipeline: every reachable state has the shape
\* the tables and the program counters of the handlers give it.
THEOREM TypeCorrect == Spec => []TypeOK
<1>1. Init => TypeOK
  BY RestartAssumption
  DEF Init, TypeOK, Stages, CodeStates, ExchangeStates, RowStates, RevokeStates,
      Targets, Verdicts, AuditRows
<1>2. TypeOK /\ [Next]_vars => TypeOK'
  <2> SUFFICES ASSUME TypeOK, [Next]_vars PROVE TypeOK'
    OBVIOUS
  <2>1. ASSUME NEW k \in Requests, Request(k) PROVE TypeOK'
    <3>1. CASE RefuseRequest(k)
      BY <3>1 DEF RefuseRequest, TypeOK, Stages, codeVars, exchangeVars, tokenVars, revokeVars
    <3>2. CASE ShowConsent(k)
      BY <3>2, ConvergeType
      DEF ShowConsent, TypeOK, Stages, codeVars, exchangeVars, tokenVars, revokeVars
    <3>3. CASE DenyConsent(k)
      <4>1. AuditRow(k, "deny", Converge(Asked[k], Audience[k])) \in AuditRows
        BY AuditRowType, ConvergeType
      <4>2. audits' \in SUBSET AuditRows
        BY <3>3, <4>1 DEF DenyConsent, TypeOK
      <4> QED
        BY <3>3, <4>2 DEF DenyConsent, TypeOK, Stages, codeVars, exchangeVars, tokenVars, revokeVars
    <3>4. CASE AllowRequest(k)
      BY <3>4, ConvergeType
      DEF AllowRequest, TypeOK, Stages, codeVars, exchangeVars, tokenVars, revokeVars
    <3>5. CASE RecordConsent(k)
      <4>1. AuditRow(k, "allow", agreed[k]) \in AuditRows
        BY AuditRowType DEF TypeOK
      <4>2. audits' \in SUBSET AuditRows
        BY <3>5, <4>1 DEF RecordConsent, TypeOK
      <4> QED
        BY <3>5, <4>2 DEF RecordConsent, TypeOK, Stages, codeVars, exchangeVars, tokenVars, revokeVars
    <3>6. CASE IssueCode(k)
      <4>1. CodeScope(k) \in SUBSET Scopes
        BY ConvergeType DEF CodeScope, TypeOK
      <4> QED
        BY <3>6, <4>1 DEF IssueCode, TypeOK, Stages, CodeStates, exchangeVars, tokenVars, revokeVars
    <3>7. CASE FailRequest(k)
      BY <3>7 DEF FailRequest, TypeOK, Stages, codeVars, exchangeVars, tokenVars, revokeVars
    <3>8. CASE ExpireCode(k)
      BY <3>8 DEF ExpireCode, TypeOK, CodeStates, requestVars, exchangeVars, tokenVars, revokeVars
    <3> QED
      BY <2>1, <3>1, <3>2, <3>3, <3>4, <3>5, <3>6, <3>7, <3>8 DEF Request
  <2>2. ASSUME NEW x \in Exchanges, Exchange(x) PROVE TypeOK'
    <3>1. CASE StartExchange(x)
      <4>1. client[Audience[Presented[x]]].scopes \in SUBSET Scopes
        BY <3>1, WhiteList DEF StartExchange, OpenClient
      <4> QED
        BY <3>1, <4>1 DEF StartExchange, TypeOK, ExchangeStates, requestVars, codeVars, tokenVars, revokeVars
    <3>2. CASE ValidateCode(x)
      BY <3>2 DEF ValidateCode, TypeOK, ExchangeStates, requestVars, codeVars, tokenVars, revokeVars
    <3>3. CASE ConsumeCode(x)
      BY <3>3 DEF ConsumeCode, TypeOK, ExchangeStates, CodeStates, requestVars, tokenVars, revokeVars
    <3>4. CASE InsertToken(x)
      <4>1. Granted(x) \in SUBSET Scopes
        BY DEF Granted, TypeOK
      <4> QED
        BY <3>4, <4>1 DEF InsertToken, TypeOK, ExchangeStates, RowStates, requestVars, codeVars, revokeVars
    <3>5. CASE FailExchange(x)
      BY <3>5 DEF FailExchange, TypeOK, ExchangeStates, requestVars, codeVars, tokenVars, revokeVars
    <3>6. CASE ExpireToken(x)
      BY <3>6 DEF ExpireToken, TypeOK, requestVars, codeVars, exchangeVars, revokeVars
    <3>7. CASE PruneRevoked(x)
      BY <3>7 DEF PruneRevoked, TypeOK, requestVars, codeVars, exchangeVars, tokenVars, revokeVars
    <3> QED
      BY <2>2, <3>1, <3>2, <3>3, <3>4, <3>5, <3>6, <3>7 DEF Exchange
  <2>3. ASSUME NEW c \in Clients, Administer(c) PROVE TypeOK'
    BY <2>3 DEF Administer, CreateClient, UpdateClient, TypeOK, requestVars, codeVars,
      exchangeVars, tokenVars, revokeVars
  <2>4. ASSUME NEW r \in Revokers, Revoke(r) PROVE TypeOK'
    <3>0. ASSUME NEW t \in Targets PROVE IssuedTokens(t) \in SUBSET Exchanges
      BY DEF IssuedTokens
    <3>1. ASSUME NEW t \in Targets, SelectIssued(r, t) PROVE TypeOK'
      BY <3>0, <3>1 DEF SelectIssued, TypeOK, RevokeStates, requestVars, codeVars,
        exchangeVars, tokenVars
    <3>2. ASSUME NEW c \in Clients, DeleteClient(r, c) PROVE TypeOK'
      <4>1. /\ ByClient(c) \in Targets
            /\ IssuedTokens(ByClient(c)) \in SUBSET Exchanges
        BY <3>0 DEF ByClient, Targets
      <4>2. verdict' \in [Requests -> Verdicts]
        BY <3>2, JudgedType DEF DeleteClient
      <4> QED
        BY <3>2, <4>1, <4>2 DEF DeleteClient, TypeOK, RevokeStates, CodeStates, RowStates,
          requestVars, exchangeVars
    <3>3. CASE DeleteTokens(r)
      BY <3>3 DEF DeleteTokens, TypeOK, RevokeStates, requestVars, codeVars, exchangeVars, tokenVars
    <3>4. CASE CommitRevocation(r)
      <4>1. verdict' \in [Requests -> Verdicts]
        BY <3>4, JudgedType DEF CommitRevocation
      <4>2. banned' \in SUBSET Users
        BY <3>4 DEF CommitRevocation, TypeOK, Targets
      <4> QED
        BY <3>4, <4>1, <4>2 DEF CommitRevocation, TypeOK, RevokeStates, CodeStates, RowStates,
          requestVars, exchangeVars
    <3>5. CASE AbortRevocation(r)
      BY <3>5 DEF AbortRevocation, TypeOK, RevokeStates, requestVars, codeVars, exchangeVars, tokenVars
    <3>6. CASE RevokeIssued(r)
      BY <3>6 DEF RevokeIssued, TypeOK, RevokeStates, requestVars, codeVars, exchangeVars, tokenVars
    <3>7. CASE Select(r)
      <4>1. ASSUME NEW c \in Clients, SelectIssued(r, ByClient(c)) PROVE TypeOK'
        BY <3>1, <4>1 DEF ByClient, Targets
      <4>2. ASSUME NEW u \in Users, SelectIssued(r, ByUser(u)) PROVE TypeOK'
        BY <3>1, <4>2 DEF ByUser, Targets
      <4>3. ASSUME NEW u \in Users, SelectIssued(r, Ban(u)) PROVE TypeOK'
        BY <3>1, <4>3 DEF Ban, Targets
      <4>4. ASSUME NEW u \in Users, NEW c \in Clients, SelectIssued(r, OwnGrant(u, c))
            PROVE  TypeOK'
        BY <3>1, <4>4 DEF OwnGrant, Targets
      <4> QED
        BY <3>2, <3>7, <4>1, <4>2, <4>3, <4>4 DEF Select
    <3> QED
      BY <2>4, <3>3, <3>4, <3>5, <3>6, <3>7 DEF Revoke
  <2>5. ASSUME NEW u \in Users, Unban(u) PROVE TypeOK'
    BY <2>5 DEF Unban, TypeOK, requestVars, codeVars, exchangeVars, tokenVars, revokeVars
  <2>6. ASSUME NEW u \in Users, DropRows(u) PROVE TypeOK'
    BY <2>6 DEF DropRows, TypeOK, RowStates, requestVars, codeVars, exchangeVars, revokeVars
  <2>7. CASE Restart
    BY <2>7, RestartAssumption DEF Restart, TypeOK, Stages, ExchangeStates, RevokeStates,
      codeVars, tokenVars
  <2>8. CASE UNCHANGED vars
    BY <2>8 DEF vars, TypeOK, requestVars, codeVars, exchangeVars, tokenVars, revokeVars
  <2> QED
    BY <2>1, <2>2, <2>3, <2>4, <2>5, <2>6, <2>7, <2>8 DEF Next
<1> QED
  BY <1>1, <1>2, PTL DEF Spec

-----------------------------------------------------------------------------
(***************************************************************************)
(* Single use.  The conditional UPDATE is enough only because a code row    *)
(* that was consumed never becomes live again: it is inserted once, by the *)
(* one step that leaves "audited".                                         *)
(***************************************************************************)

\* A code row exists only for a request that was answered with it.
CodeWasIssued == \A k \in Requests : code[k] # "none" => stage[k] = "issued"

\* Who got past the UPDATE left the code used, or somebody deleted it since.
ConsumedIsGone ==
  \A x \in Exchanges :
    xpc[x] \in {"consumed", "done"} => code[Presented[x]] \notin {"none", "live"}

SingleUseInv == TypeOK /\ CodeWasIssued /\ ConsumedIsGone /\ CodeRedeemedOnce

LEMMA SingleUseStep == SingleUseInv /\ TypeOK' /\ [Next]_vars => SingleUseInv'
<1> SUFFICES ASSUME SingleUseInv, TypeOK', [Next]_vars
             PROVE  CodeWasIssued' /\ ConsumedIsGone' /\ CodeRedeemedOnce'
  BY DEF SingleUseInv
<1> USE DEF SingleUseInv, CodeWasIssued, ConsumedIsGone, CodeRedeemedOnce, TypeOK
<1>1. ASSUME UNCHANGED <<stage, code, xpc>>
      PROVE  CodeWasIssued' /\ ConsumedIsGone' /\ CodeRedeemedOnce'
  BY <1>1
<1>2. ASSUME NEW k \in Requests, Request(k)
      PROVE  CodeWasIssued' /\ ConsumedIsGone' /\ CodeRedeemedOnce'
  <2>1. CASE IssueCode(k)
    <3>1. /\ code[k] = "none"
          /\ \A x \in Exchanges : Presented[x] = k => xpc[x] \notin {"consumed", "done"}
      BY <2>1 DEF IssueCode
    <3> QED
      BY <2>1, <3>1 DEF IssueCode, exchangeVars
  <2>2. CASE ExpireCode(k)
    BY <2>2 DEF ExpireCode, requestVars, exchangeVars
  <2>3. CASE \/ RefuseRequest(k) \/ ShowConsent(k) \/ DenyConsent(k) \/ AllowRequest(k)
             \/ RecordConsent(k) \/ FailRequest(k)
    BY <2>3 DEF RefuseRequest, ShowConsent, DenyConsent, AllowRequest, RecordConsent,
      FailRequest, codeVars, exchangeVars
  <2> QED
    BY <1>2, <2>1, <2>2, <2>3 DEF Request
<1>3. ASSUME NEW x \in Exchanges, Exchange(x)
      PROVE  CodeWasIssued' /\ ConsumedIsGone' /\ CodeRedeemedOnce'
  <2>1. CASE ConsumeCode(x)
    <3>1. /\ code[Presented[x]] = "live"
          /\ \A y \in Exchanges :
               Presented[y] = Presented[x] => xpc[y] \notin {"consumed", "done"}
      BY <2>1 DEF ConsumeCode, Redeemable
    <3> QED
      BY <2>1, <3>1 DEF ConsumeCode, requestVars
  <2>2. CASE \/ StartExchange(x) \/ ValidateCode(x) \/ InsertToken(x) \/ FailExchange(x)
    <3>1. UNCHANGED <<stage, code>>
      BY <2>2 DEF StartExchange, ValidateCode, InsertToken, FailExchange, requestVars, codeVars
    <3>2. \A y \in Exchanges :
            xpc'[y] \in {"consumed", "done"} => xpc[y] \in {"consumed", "done"}
      BY <2>2 DEF StartExchange, ValidateCode, InsertToken, FailExchange, ExchangeStates
    <3> QED
      BY <3>1, <3>2
  <2>3. CASE ExpireToken(x) \/ PruneRevoked(x)
    BY <2>3, <1>1 DEF ExpireToken, PruneRevoked, requestVars, codeVars, exchangeVars
  <2> QED
    BY <1>3, <2>1, <2>2, <2>3 DEF Exchange
<1>4. ASSUME NEW r \in Revokers, Revoke(r)
      PROVE  CodeWasIssued' /\ ConsumedIsGone' /\ CodeRedeemedOnce'
  <2>1. ASSUME NEW c \in Clients, DeleteClient(r, c)
        PROVE  CodeWasIssued' /\ ConsumedIsGone' /\ CodeRedeemedOnce'
    BY <2>1 DEF DeleteClient, requestVars, exchangeVars
  <2>2. ASSUME NEW t, SelectIssued(r, t)
        PROVE  CodeWasIssued' /\ ConsumedIsGone' /\ CodeRedeemedOnce'
    BY <2>2, <1>1 DEF SelectIssued, requestVars, codeVars, exchangeVars
  <2>3. CASE CommitRevocation(r)
    BY <2>3 DEF CommitRevocation, VoidedCodes, requestVars, exchangeVars
  <2>4. CASE DeleteTokens(r) \/ AbortRevocation(r) \/ RevokeIssued(r)
    BY <2>4, <1>1 DEF DeleteTokens, AbortRevocation, RevokeIssued, requestVars, codeVars,
      exchangeVars
  <2> QED
    BY <1>4, <2>1, <2>2, <2>3, <2>4 DEF Revoke, Select
<1>5. ASSUME NEW c \in Clients, Administer(c)
      PROVE  CodeWasIssued' /\ ConsumedIsGone' /\ CodeRedeemedOnce'
  BY <1>1, <1>5 DEF Administer, CreateClient, UpdateClient, requestVars, codeVars, exchangeVars
<1>6. ASSUME NEW u \in Users, Unban(u) \/ DropRows(u)
      PROVE  CodeWasIssued' /\ ConsumedIsGone' /\ CodeRedeemedOnce'
  BY <1>1, <1>6 DEF Unban, DropRows, requestVars, codeVars, exchangeVars
<1>7. CASE Restart
  BY <1>7 DEF Restart, codeVars
<1>8. CASE UNCHANGED vars
  BY <1>1, <1>8 DEF vars, requestVars, codeVars, exchangeVars
<1> QED
  BY <1>2, <1>3, <1>4, <1>5, <1>6, <1>7, <1>8 DEF Next

\* An authorization code is redeemed at most once, however many exchanges
\* present it and whatever else runs: ExchangeOAuthCode may be called in
\* parallel without a transaction around its reads.
THEOREM SingleUse == Spec => []CodeRedeemedOnce
<1>1. Init => CodeWasIssued /\ ConsumedIsGone /\ CodeRedeemedOnce
  BY DEF Init, CodeWasIssued, ConsumedIsGone, CodeRedeemedOnce
<1>2. SingleUseInv => CodeRedeemedOnce
  BY DEF SingleUseInv
<1>3. Init /\ TypeOK => SingleUseInv
  BY <1>1 DEF SingleUseInv
<1> QED
  BY <1>2, <1>3, SingleUseStep, TypeCorrect, PTL DEF Spec

-----------------------------------------------------------------------------
(***************************************************************************)
(* What becomes of a request.  A code row that goes live belongs to a      *)
(* request that was audited; an exchange past its SELECT has proved its    *)
(* right; a row that goes live belongs to an exchange past the UPDATE.     *)
(***************************************************************************)

\* An exchange that may still reach the UPDATE, or has, has proved its right, and
\* a revocation deletes rows that were inserted.
Proven ==
  /\ \A x \in Exchanges : xpc[x] \in {"validated", "consumed"} => Proves[x]
  /\ \A r \in Revokers : \A x \in doomed[r] : row[x] # "none"

\* How one step moves requests, codes and exchanges: nothing else writes them.
Moves ==
  /\ \A k \in Requests :
       /\ stage[k] = "issued" => stage'[k] = "issued"
       /\ stage'[k] = "issued" => stage[k] \in {"audited", "issued"}
       /\ stage'[k] = "audited" => stage[k] = "audited" \/ AuditRow(k, "allow", agreed[k]) \in audits'
       /\ stage[k] \in {"audited", "issued"} \/ stage'[k] = "audited" => agreed'[k] = agreed[k]
       /\ \/ codeScope'[k] = codeScope[k]
          \/ stage[k] = "audited" /\ stage'[k] = "issued" /\ codeScope'[k] \subseteq agreed[k]
       /\ stage'[k] = "issued" => stage[k] = "issued" \/ codeScope'[k] \subseteq agreed[k]
       /\ code'[k] = "live" => code[k] = "live" \/ (stage[k] = "audited" /\ client[Audience[k]] # NoClient)
       /\ code'[k] = "used" =>
            code[k] = "used" \/ \E x \in Exchanges : Presented[x] = k /\ Proves[x] /\ xpc'[x] = "consumed"
  /\ \A x \in Exchanges :
       /\ xpc'[x] = "validated" => xpc[x] = "validated" \/ Proves[x]
       /\ xpc'[x] = "consumed" =>
            xpc[x] = "consumed" \/ (xpc[x] = "validated" /\ code[Presented[x]] = "live")
       /\ xpc[x] \in {"consumed", "done", "failed"} => xpc'[x] \in {"consumed", "done", "failed"}
       /\ row'[x] = "none" => row[x] = "none"
       /\ row'[x] # "none" => row[x] # "none" \/ xpc[x] = "consumed"
       /\ row'[x] = "live" =>
            row[x] = "live" \/ (xpc[x] = "consumed" /\ client[Audience[Presented[x]]] # NoClient)
       /\ \/ tokenScope'[x] = tokenScope[x]
          \/ xpc[x] = "consumed" /\ tokenScope'[x] = Granted(x) /\ Granted(x) # {}
       /\ row'[x] # "none" /\ row[x] = "none" => tokenScope'[x] = Granted(x) /\ Granted(x) # {}
  /\ audits \subseteq audits' /\ expired \subseteq expired'
  /\ \A r \in Revokers : \A x \in doomed'[r] : x \in doomed[r] \/ row'[x] = "live"

LEMMA MovesStep == TypeOK /\ Proven /\ [Next]_vars => Moves
<1> SUFFICES ASSUME TypeOK, Proven, [Next]_vars PROVE Moves
  OBVIOUS
<1> USE DEF requestVars, codeVars, exchangeVars, tokenVars, revokeVars
<1>1. ASSUME UNCHANGED <<stage, agreed, codeScope, code, xpc, row, tokenScope, audits, expired>>,
             \A r \in Revokers : \A x \in doomed'[r] : x \in doomed[r] \/ row[x] = "live"
      PROVE  Moves
  BY <1>1 DEF Moves
<1>2. ASSUME NEW k \in Requests, Request(k) PROVE Moves
  <2>1. CASE IssueCode(k)
    <3>1. /\ stage[k] = "audited" /\ stage' = [stage EXCEPT ![k] = "issued"]
          /\ code' = [code EXCEPT ![k] = "live"]
          /\ codeScope' = [codeScope EXCEPT ![k] = CodeScope(k)]
          /\ client[Audience[k]] # NoClient
          /\ UNCHANGED <<agreed, xpc, row, tokenScope, audits, expired, doomed>>
      BY <2>1 DEF IssueCode, Grantable, OpenClient
    <3>2. CodeScope(k) \subseteq agreed[k]
      BY DEF CodeScope, Converge
    <3> QED
      BY <3>1, <3>2 DEF Moves, TypeOK
  <2>2. CASE RecordConsent(k)
    BY <2>2 DEF RecordConsent, Moves, TypeOK
  <2>3. CASE AllowRequest(k)
    BY <2>3 DEF AllowRequest, Moves, TypeOK
  <2>4. CASE RefuseRequest(k) \/ ShowConsent(k) \/ DenyConsent(k) \/ FailRequest(k)
    BY <2>4 DEF RefuseRequest, ShowConsent, DenyConsent, FailRequest, Moves, TypeOK
  <2>5. CASE ExpireCode(k)
    BY <2>5 DEF ExpireCode, Moves, TypeOK
  <2> QED
    BY <1>2, <2>1, <2>2, <2>3, <2>4, <2>5 DEF Request
<1>3. ASSUME NEW x \in Exchanges, Exchange(x) PROVE Moves
  <2>1. CASE StartExchange(x) \/ ValidateCode(x) \/ FailExchange(x)
    BY <2>1 DEF StartExchange, ValidateCode, ProofAccepted, FailExchange, Moves, TypeOK
  <2>2. CASE ConsumeCode(x)
    <3>1. /\ xpc[x] = "validated" /\ xpc' = [xpc EXCEPT ![x] = "consumed"]
          /\ code[Presented[x]] = "live" /\ code' = [code EXCEPT ![Presented[x]] = "used"]
          /\ UNCHANGED <<stage, agreed, audits, codeScope, row, tokenScope, expired, doomed>>
      BY <2>2 DEF ConsumeCode, Redeemable
    <3>2. Proves[x]
      BY <3>1 DEF Proven
    <3> QED
      BY <3>1, <3>2 DEF Moves, TypeOK
  <2>3. CASE InsertToken(x)
    BY <2>3 DEF InsertToken, Moves, TypeOK
  <2>4. CASE ExpireToken(x) \/ PruneRevoked(x)
    BY <2>4 DEF ExpireToken, PruneRevoked, Moves
  <2> QED
    BY <1>3, <2>1, <2>2, <2>3, <2>4 DEF Exchange
<1>4. ASSUME NEW r \in Revokers, Revoke(r) PROVE Moves
  <2>1. ASSUME NEW c \in Clients, DeleteClient(r, c) PROVE Moves
    BY <2>1 DEF DeleteClient, Moves, TypeOK
  <2>2. ASSUME NEW t, SelectIssued(r, t) PROVE Moves
    BY <1>1, <2>2 DEF SelectIssued
  <2>3. CASE CommitRevocation(r)
    <3>1. \A x \in doomed[r] : row[x] # "none"
      BY DEF Proven
    <3> QED
      BY <2>3, <3>1 DEF CommitRevocation, Moves, TypeOK
  <2>4. CASE DeleteTokens(r) \/ AbortRevocation(r) \/ RevokeIssued(r)
    BY <1>1, <2>4 DEF DeleteTokens, AbortRevocation, RevokeIssued, TypeOK
  <2> QED
    BY <1>4, <2>1, <2>2, <2>3, <2>4 DEF Revoke, Select
<1>5. ASSUME NEW c \in Clients, Administer(c) PROVE Moves
  BY <1>1, <1>5 DEF Administer, CreateClient, UpdateClient
<1>6. ASSUME NEW u \in Users, Unban(u) \/ DropRows(u) PROVE Moves
  BY <1>6 DEF Unban, DropRows, Moves, TypeOK
<1>7. CASE Restart
  BY <1>7 DEF Restart, Moves, TypeOK
<1>8. CASE UNCHANGED vars
  BY <1>1, <1>8 DEF vars
<1> QED
  BY <1>2, <1>3, <1>4, <1>5, <1>6, <1>7, <1>8 DEF Next

LEMMA ProvenStep == TypeOK' /\ Proven /\ Moves => Proven'
<1> SUFFICES ASSUME TypeOK', Proven, Moves PROVE Proven'
  OBVIOUS
<1>1. \A r \in Revokers : doomed'[r] \subseteq Exchanges
  BY DEF TypeOK
<1>2. ASSUME NEW r \in Revokers, NEW x \in doomed'[r] PROVE row'[x] # "none"
  BY <1>1, <1>2 DEF Proven, Moves
<1> QED
  BY <1>2 DEF Proven, Moves

\* A wrong secret, redirect URI or verifier never costs a client its code, however
\* many exchanges present it.
THEOREM CodeKept == Spec => []WrongProofKeepsCode
<1>1. Init => Proven /\ WrongProofKeepsCode
  BY DEF Init, Proven, WrongProofKeepsCode
<1>2. WrongProofKeepsCode /\ Moves => WrongProofKeepsCode'
  BY DEF WrongProofKeepsCode, Moves
<1> QED
  BY <1>1, <1>2, MovesStep, ProvenStep, TypeCorrect, PTL DEF Spec

-----------------------------------------------------------------------------
\* The audit row is there before the code, and nothing changes what it says.
Audited ==
  \A k \in Requests :
    /\ stage[k] \in {"audited", "issued"} => AuditRow(k, "allow", agreed[k]) \in audits
    /\ stage[k] = "issued" => codeScope[k] \subseteq agreed[k]

\* A token row has scopes of its code, whose request was answered.
WithinCode ==
  \A x \in Exchanges : row[x] # "none" =>
    /\ tokenScope[x] # {} /\ tokenScope[x] \subseteq codeScope[Presented[x]]
    /\ stage[Presented[x]] = "issued"

LEMMA WithinStep == SingleUseInv /\ Audited /\ WithinCode /\ Moves => Audited' /\ WithinCode'
<1> SUFFICES ASSUME SingleUseInv, Audited, WithinCode, Moves PROVE Audited' /\ WithinCode'
  OBVIOUS
<1>1. ASSUME NEW k \in Requests, stage'[k] \in {"audited", "issued"}
      PROVE  AuditRow(k, "allow", agreed'[k]) \in audits'
  BY <1>1 DEF Audited, Moves
<1>2. ASSUME NEW k \in Requests, stage'[k] = "issued"
      PROVE  codeScope'[k] \subseteq agreed'[k]
  BY <1>2 DEF Audited, Moves
<1>3. Audited'
  BY <1>1, <1>2 DEF Audited, AuditRow
<1>4. ASSUME NEW x \in Exchanges, row'[x] # "none"
      PROVE  /\ tokenScope'[x] # {} /\ tokenScope'[x] \subseteq codeScope'[Presented[x]]
             /\ stage'[Presented[x]] = "issued"
  <2>1. xpc[x] = "consumed" => stage[Presented[x]] = "issued"
    BY DEF SingleUseInv, ConsumedIsGone, CodeWasIssued
  <2>2. row[x] # "none" \/ xpc[x] = "consumed"
    BY <1>4 DEF Moves
  <2>3. stage[Presented[x]] = "issued"
    BY <2>1, <2>2 DEF WithinCode
  <2>4. stage'[Presented[x]] = "issued" /\ codeScope'[Presented[x]] = codeScope[Presented[x]]
    BY <2>3 DEF Moves
  <2>5. Granted(x) \subseteq codeScope[Presented[x]]
    BY DEF Granted
  <2>6. CASE row[x] = "none"
    BY <1>4, <2>4, <2>5, <2>6 DEF Moves
  <2>7. CASE row[x] # "none"
    BY <2>4, <2>5, <2>7 DEF Moves, WithinCode
  <2> QED
    BY <2>6, <2>7
<1>5. WithinCode'
  BY <1>4 DEF WithinCode
<1> QED
  BY <1>3, <1>5

\* A token never carries more than its code, and its code no more than an audit row
\* says the user allowed, for any history of the client.
THEOREM WithinConsent == Spec => []TokenWithinConsent
<1>1. Init /\ TypeOK => SingleUseInv
  BY DEF Init, SingleUseInv, CodeWasIssued, ConsumedIsGone, CodeRedeemedOnce
<1>2. Init => Proven /\ Audited /\ WithinCode
  BY DEF Init, Proven, Audited, WithinCode
<1>3. Audited /\ WithinCode => TokenWithinConsent
  <2> SUFFICES ASSUME Audited, WithinCode, NEW x \in Exchanges, row[x] # "none"
               PROVE  /\ tokenScope[x] # {}
                      /\ tokenScope[x] \subseteq codeScope[Presented[x]]
                      /\ \E a \in audits :
                           /\ a.action = "allow"
                           /\ a.user = Subject[Presented[x]] /\ a.client = Audience[Presented[x]]
                           /\ codeScope[Presented[x]] \subseteq a.scopes
    BY DEF TokenWithinConsent
  <2>1. AuditRow(Presented[x], "allow", agreed[Presented[x]]) \in audits
    BY DEF Audited, WithinCode
  <2> QED
    BY <2>1 DEF Audited, WithinCode, AuditRow
<1> QED
  BY <1>1, <1>2, <1>3, SingleUseStep, WithinStep, MovesStep, ProvenStep, TypeCorrect, PTL DEF Spec

-----------------------------------------------------------------------------
\* The state in which a request has nothing left.
Spent(k) ==
  /\ code[k] # "live"
  /\ \A x \in Exchanges : Presented[x] = k => xpc[x] # "consumed" /\ ~LiveRow(x)

\* Nothing left stays nothing left.
LEMMA SpentStays ==
  ASSUME TypeOK, Moves, NEW k \in Requests, stage[k] = "issued", Spent(k)
  PROVE  stage'[k] = "issued" /\ Spent(k)'
BY DEF Moves, Spent, LiveRow

\* A verdict that settles a request finds nothing left of it.
LEMMA SettlesSpent ==
  ASSUME TypeOK, [Next]_vars, NEW k \in Requests, verdict[k] # "settled", verdict'[k] = "settled"
  PROVE  stage'[k] = "issued" /\ Spent(k)'
<1> USE DEF requestVars, codeVars, exchangeVars, tokenVars, revokeVars
<1>0. verdict'[k] # verdict[k]
  OBVIOUS
<1>1. ASSUME NEW r \in Revokers, NEW c \in Clients, DeleteClient(r, c)
      PROVE  stage'[k] = "issued" /\ Spent(k)'
  <2>1. Audience[k] = c /\ stage[k] = "issued" /\ ~Overlapped(k, Exchanges)
    BY <1>1 DEF DeleteClient, Judged
  <2>2. \A x \in Exchanges : Presented[x] = k => xpc[x] # "consumed" /\ row'[x] # "live"
    BY <1>1, <2>1 DEF DeleteClient, Overlapped
  <2>3. code'[k] # "live" /\ stage'[k] = "issued" /\ xpc' = xpc
    BY <1>1, <2>1 DEF DeleteClient
  <2> QED
    BY <2>2, <2>3 DEF Spent, LiveRow
<1>2. ASSUME NEW r \in Revokers, CommitRevocation(r)
      PROVE  stage'[k] = "issued" /\ Spent(k)'
  <2>1. Covers(r, k) /\ stage[k] = "issued" /\ ~Overlapped(k, doomed[r])
    BY <1>2 DEF CommitRevocation, Judged
  <2>2. ASSUME NEW x \in Exchanges, Presented[x] = k
        PROVE  xpc[x] # "consumed" /\ ~(row'[x] = "live" /\ x \notin expired)
    BY <1>2, <2>1, <2>2 DEF CommitRevocation, Overlapped, LiveRow
  <2>3. code'[k] # "live" /\ stage'[k] = "issued" /\ xpc' = xpc /\ expired' = expired
    BY <1>2, <2>1 DEF CommitRevocation, VoidedCodes
  <2> QED
    BY <2>2, <2>3 DEF Spent, LiveRow
<1>3. ASSUME NEW r \in Revokers, Revoke(r)
      PROVE  (\E c \in Clients : DeleteClient(r, c)) \/ CommitRevocation(r) \/ verdict' = verdict
  BY <1>3 DEF Revoke, Select, SelectIssued, DeleteTokens, AbortRevocation, RevokeIssued
<1>4. ASSUME NEW j \in Requests, Request(j) PROVE verdict' = verdict
  BY <1>4 DEF Request, RefuseRequest, ShowConsent, DenyConsent, AllowRequest, RecordConsent,
      IssueCode, FailRequest, ExpireCode
<1>5. ASSUME NEW x \in Exchanges, Exchange(x) PROVE verdict' = verdict
  BY <1>5 DEF Exchange, StartExchange, ValidateCode, ConsumeCode, InsertToken, FailExchange,
      ExpireToken, PruneRevoked
<1>6. ASSUME \/ \E c \in Clients : Administer(c)
             \/ \E u \in Users : Unban(u) \/ DropRows(u)
             \/ Restart \/ UNCHANGED vars
      PROVE  verdict' = verdict
  BY <1>6 DEF Administer, CreateClient, UpdateClient, Unban, DropRows, Restart, vars
<1> QED
  BY <1>0, <1>1, <1>2, <1>3, <1>4, <1>5, <1>6 DEF Next

\* A revocation that no exchange overlapped is final: neither a later exchange nor
\* a later request brings anything of the grant back.
THEOREM RevocationFinal == Spec => []RevokedForGood
<1> DEFINE Settled == \A k \in Requests : verdict[k] = "settled" => stage[k] = "issued" /\ Spent(k)
<1>1. Init => Proven /\ Settled
  BY DEF Init, Proven
<1>2. TypeOK /\ Moves /\ Settled /\ [Next]_vars => Settled'
  <2> SUFFICES ASSUME TypeOK, Moves, Settled, [Next]_vars,
                      NEW k \in Requests, verdict'[k] = "settled"
               PROVE  stage'[k] = "issued" /\ Spent(k)'
    OBVIOUS
  <2>1. CASE verdict[k] = "settled"
    BY <2>1, SpentStays
  <2>2. CASE verdict[k] # "settled"
    BY <2>2, SettlesSpent
  <2> QED
    BY <2>1, <2>2
<1>3. Settled => RevokedForGood
  BY DEF Spent, RevokedForGood
<1> HIDE DEF Settled
<1> QED
  BY <1>1, <1>2, <1>3, MovesStep, ProvenStep, TypeCorrect, PTL DEF Spec

-----------------------------------------------------------------------------
\* A deleted client has neither code nor row.
NothingLive ==
  /\ \A k \in Requests : client[Audience[k]] = NoClient => code[k] # "live"
  /\ \A x \in Exchanges : client[Audience[Presented[x]]] = NoClient => row[x] # "live"

\* The JWT of a row that cascaded away is revoked, about to be, or lapsed.
Followed(x) ==
  \/ x \in revokedJtis \cup expired
  \/ restarts > 0
  \/ \E r \in Revokers : rpc[r] = "committed" /\ x \in issued[r]

CascadeFollowed == \A x \in Exchanges : row[x] = "cascaded" => Followed(x)

LEMMA NothingLiveStep == TypeOK /\ Moves /\ NothingLive /\ [Next]_vars => NothingLive'
<1> SUFFICES ASSUME TypeOK, Moves, NothingLive, [Next]_vars PROVE NothingLive'
  OBVIOUS
<1> USE DEF requestVars, codeVars, exchangeVars, tokenVars, revokeVars
<1>1. ASSUME NEW r \in Revokers, NEW c \in Clients, DeleteClient(r, c) PROVE NothingLive'
  BY <1>1 DEF DeleteClient, NothingLive, Moves, TypeOK
<1>2. ASSUME \A c \in Clients : client'[c] = NoClient => client[c] = NoClient PROVE NothingLive'
  BY <1>2 DEF NothingLive, Moves
<1>3. ASSUME NEW c \in Clients, Administer(c)
      PROVE  \A d \in Clients : client'[d] = NoClient => client[d] = NoClient
  BY <1>3, ClientAssumption DEF Administer, CreateClient, UpdateClient, TypeOK
<1>4. ASSUME NEW r \in Revokers, Revoke(r)
      PROVE  (\E c \in Clients : DeleteClient(r, c)) \/ client' = client
  BY <1>4 DEF Revoke, Select, SelectIssued, DeleteTokens, CommitRevocation, AbortRevocation,
      RevokeIssued
<1>5. ASSUME NEW k \in Requests, Request(k) PROVE client' = client
  BY <1>5 DEF Request, RefuseRequest, ShowConsent, DenyConsent, AllowRequest, RecordConsent,
      IssueCode, FailRequest, ExpireCode
<1>6. ASSUME NEW x \in Exchanges, Exchange(x) PROVE client' = client
  BY <1>6 DEF Exchange, StartExchange, ValidateCode, ConsumeCode, InsertToken, FailExchange,
      ExpireToken, PruneRevoked
<1>7. ASSUME (\E u \in Users : Unban(u) \/ DropRows(u)) \/ Restart \/ UNCHANGED vars
      PROVE  client' = client
  BY <1>7 DEF Unban, DropRows, Restart, vars
<1> QED
  BY <1>1, <1>2, <1>3, <1>4, <1>5, <1>6, <1>7 DEF Next

LEMMA CascadeStep == TypeOK /\ CascadeFollowed /\ [Next]_vars => CascadeFollowed'
<1> SUFFICES ASSUME TypeOK, CascadeFollowed, [Next]_vars PROVE CascadeFollowed'
  OBVIOUS
<1> USE DEF requestVars, codeVars, exchangeVars, tokenVars, revokeVars
<1>1. ASSUME \A x \in Exchanges : row'[x] = "cascaded" => row[x] = "cascaded",
             expired \subseteq expired', UNCHANGED <<revokedJtis, restarts, rpc, issued>>
      PROVE  CascadeFollowed'
  BY <1>1 DEF CascadeFollowed, Followed
<1>2. ASSUME NEW r \in Revokers, NEW c \in Clients, DeleteClient(r, c) PROVE CascadeFollowed'
  <2>1. /\ rpc[r] = "idle" /\ rpc' = [rpc EXCEPT ![r] = "committed"]
        /\ issued' = [issued EXCEPT ![r] = IssuedTokens(ByClient(c))]
        /\ row' = [x \in Exchanges |-> IF Audience[Presented[x]] = c /\ row[x] = "live"
                                       THEN "cascaded" ELSE row[x]]
        /\ UNCHANGED <<expired, revokedJtis, restarts>>
    BY <1>2 DEF DeleteClient
  <2>2. ASSUME NEW x \in Exchanges, row[x] = "cascaded" PROVE Followed(x)'
    BY <2>1, <2>2 DEF CascadeFollowed, Followed, TypeOK
  <2>3. ASSUME NEW x \in Exchanges, Audience[Presented[x]] = c, row[x] = "live" PROVE Followed(x)'
    <3>1. x \in expired \/ x \in IssuedTokens(ByClient(c))
      BY <2>3 DEF IssuedTokens, ByClient, LiveRow
    <3> QED
      BY <2>1, <3>1 DEF Followed, TypeOK
  <2> QED
    BY <2>1, <2>2, <2>3 DEF CascadeFollowed
<1>3. ASSUME NEW r \in Revokers, NEW t, SelectIssued(r, t) PROVE CascadeFollowed'
  BY <1>3 DEF SelectIssued, CascadeFollowed, Followed, TypeOK
<1>4. ASSUME NEW r \in Revokers, DeleteTokens(r) \/ AbortRevocation(r) PROVE CascadeFollowed'
  BY <1>4 DEF DeleteTokens, Sweepable, AbortRevocation, CascadeFollowed, Followed, TypeOK
<1>5. ASSUME NEW r \in Revokers, CommitRevocation(r) PROVE CascadeFollowed'
  BY <1>5 DEF CommitRevocation, CascadeFollowed, Followed, TypeOK
<1>6. ASSUME NEW r \in Revokers, RevokeIssued(r) PROVE CascadeFollowed'
  BY <1>6 DEF RevokeIssued, CascadeFollowed, Followed, TypeOK
<1>7. CASE Restart
  BY <1>7, RestartAssumption DEF Restart, CascadeFollowed, Followed, TypeOK
<1>8. ASSUME NEW x \in Exchanges, Exchange(x) PROVE CascadeFollowed'
  <2>1. CASE PruneRevoked(x)
    BY <2>1 DEF PruneRevoked, CascadeFollowed, Followed
  <2>2. CASE InsertToken(x)
    BY <1>1, <2>2 DEF InsertToken, TypeOK
  <2>3. CASE ~PruneRevoked(x) /\ ~InsertToken(x)
    BY <1>1, <1>8, <2>3 DEF Exchange, StartExchange, ValidateCode, ConsumeCode, FailExchange,
      ExpireToken
  <2> QED
    BY <2>1, <2>2, <2>3
<1>9. ASSUME NEW k \in Requests, Request(k) PROVE CascadeFollowed'
  BY <1>1, <1>9 DEF Request, RefuseRequest, ShowConsent, DenyConsent, AllowRequest, RecordConsent,
      IssueCode, FailRequest, ExpireCode
<1>10. ASSUME NEW u \in Users, DropRows(u) PROVE CascadeFollowed'
  BY <1>1, <1>10 DEF DropRows, TypeOK
<1>11. CASE (\E c \in Clients : Administer(c)) \/ (\E u \in Users : Unban(u)) \/ UNCHANGED vars
  BY <1>1, <1>11 DEF Administer, CreateClient, UpdateClient, Unban, vars
<1> QED
  BY <1>2, <1>3, <1>4, <1>5, <1>6, <1>7, <1>8, <1>9, <1>10, <1>11 DEF Next, Revoke, Select

\* Deleting a client leaves no code and no token row of it, and its tokens are
\* revoked in memory as soon as the request that deleted it is answered.
THEOREM ClientLeavesNothing == Spec => []DeletedClientLeavesNothing
<1>1. Init => Proven /\ NothingLive /\ CascadeFollowed
  BY DEF Init, Proven, NothingLive, CascadeFollowed
<1>2. NothingLive /\ CascadeFollowed => DeletedClientLeavesNothing
  BY DEF NothingLive, CascadeFollowed, Followed, DeletedClientLeavesNothing
<1> QED
  BY <1>1, <1>2, NothingLiveStep, CascadeStep, MovesStep, ProvenStep, TypeCorrect, PTL DEF Spec

-----------------------------------------------------------------------------
(***************************************************************************)
(* The refinement.  Every step either moves the grant of one request on,   *)
(* or ends the grants of some requests and leaves the others as they were. *)
(***************************************************************************)

\* A live row and a lapsed token belong to an exchange that is done, and what is
\* about to be audited is not empty.
RefInv ==
  /\ SingleUseInv
  /\ \A x \in Exchanges : row[x] = "live" \/ x \in expired => xpc[x] = "done"
  /\ \A k \in Requests : stage[k] \in {"allowed", "audited"} => agreed[k] # {}

LEMMA RefInvStep == RefInv /\ SingleUseInv' /\ [Next]_vars => RefInv'
<1> SUFFICES ASSUME RefInv, SingleUseInv', [Next]_vars
             PROVE  /\ \A x \in Exchanges : row'[x] = "live" \/ x \in expired' => xpc'[x] = "done"
                    /\ \A k \in Requests : stage'[k] \in {"allowed", "audited"} => agreed'[k] # {}
  BY DEF RefInv
<1> USE DEF RefInv, SingleUseInv, TypeOK, requestVars, codeVars, exchangeVars, tokenVars, revokeVars
<1> DEFINE Goal == /\ \A x \in Exchanges : row'[x] = "live" \/ x \in expired' => xpc'[x] = "done"
                   /\ \A k \in Requests : stage'[k] \in {"allowed", "audited"} => agreed'[k] # {}
<1>1. ASSUME NEW k \in Requests, Request(k) PROVE Goal
  BY <1>1 DEF Request, RefuseRequest, ShowConsent, DenyConsent, AllowRequest, Acceptable, Grantable,
      RecordConsent, IssueCode, FailRequest, ExpireCode
<1>2. ASSUME NEW x \in Exchanges, Exchange(x) PROVE Goal
  BY <1>2 DEF Exchange, StartExchange, ValidateCode, ConsumeCode, InsertToken, FailExchange,
      ExpireToken, PruneRevoked
<1>3. ASSUME NEW r \in Revokers, Revoke(r) PROVE Goal
  <2>1. ASSUME NEW c \in Clients, DeleteClient(r, c) PROVE Goal
    BY <2>1 DEF DeleteClient
  <2>2. ASSUME NEW t, SelectIssued(r, t) PROVE Goal
    BY <2>2 DEF SelectIssued
  <2>3. CASE CommitRevocation(r)
    BY <2>3 DEF CommitRevocation
  <2>4. CASE DeleteTokens(r) \/ AbortRevocation(r) \/ RevokeIssued(r)
    BY <2>4 DEF DeleteTokens, AbortRevocation, RevokeIssued
  <2> QED
    BY <1>3, <2>1, <2>2, <2>3, <2>4 DEF Revoke, Select
<1>4. CASE (\E c \in Clients : Administer(c)) \/ (\E u \in Users : Unban(u) \/ DropRows(u))
  BY <1>4 DEF Administer, CreateClient, UpdateClient, Unban, DropRows
<1>5. CASE Restart
  BY <1>5 DEF Restart
<1>6. CASE UNCHANGED vars
  BY <1>6 DEF vars
<1> QED
  BY <1>1, <1>2, <1>3, <1>4, <1>5, <1>6 DEF Next

\* A code, an exchange that won it and a live row exclude each other.
LEMMA Exclusive ==
  ASSUME RefInv, NEW k \in Requests
  PROVE  /\ code[k] = "live" => Winners(k) = {} /\ Holders(k) = {}
         /\ \A x \in Winners(k) : Winners(k) = {x} /\ Holders(k) = {}
         /\ \A x \in Holders(k) : Holders(k) = {x} /\ Winners(k) = {}
         /\ code[k] = "live" \/ Winners(k) # {} \/ Holders(k) # {} => stage[k] = "issued"
<1>1. \A x \in Winners(k) \cup Holders(k) :
        Presented[x] = k /\ xpc[x] \in {"consumed", "done"} /\ code[k] \notin {"none", "live"}
  BY DEF Winners, Holders, LiveRow, RefInv, SingleUseInv, ConsumedIsGone
<1>2. \A x, y \in Winners(k) \cup Holders(k) : x = y
  BY <1>1 DEF Winners, Holders, RefInv, SingleUseInv, CodeRedeemedOnce
<1>3. \A x : ~(x \in Winners(k) /\ x \in Holders(k))
  BY DEF Winners, Holders, LiveRow, RefInv
<1>4. code[k] # "none" => stage[k] = "issued"
  BY DEF RefInv, SingleUseInv, CodeWasIssued
<1> QED
  BY <1>1, <1>2, <1>3, <1>4

\* The grant of request k stays as it is.
Same(k) == PhaseOf(k)' = PhaseOf(k) /\ ScopeOf(k)' = ScopeOf(k)

\* The grant of request k comes to its end.
Ends(k) == PhaseOf(k) # "over" /\ PhaseOf(k)' = "over"

\* A step that leaves or ends the grant of every request is a step of OneTimeGrant.
LEMMA Closing ==
  ASSUME \A k \in Requests : Same(k) \/ Ends(k)
  PROVE  Grant!Next
<1> DEFINE K == {k \in Requests : ~Same(k)}
<1>1. \A k \in Requests : PhaseOf(k)' = "over" => ScopeOf(k)' = {}
  BY DEF ScopeOf
<1>2. Grant!Close(K)
  <2>1. \A k \in K : PhaseOf(k) # "over"
    BY DEF Ends
  <2>2. \A k \in Requests : PhaseOf(k)' = IF k \in K THEN "over" ELSE PhaseOf(k)
    BY DEF Same, Ends
  <2>3. \A k \in Requests : ScopeOf(k)' = IF k \in K THEN {} ELSE ScopeOf(k)
    BY <1>1 DEF Same, Ends
  <2> HIDE DEF K
  <2> QED
    BY <2>1, <2>2, <2>3 DEF Grant!Close, K
<1> QED
  BY <1>2 DEF Grant!Next

\* A step that moves the grant of one request on and leaves the others.
LEMMA Advancing ==
  ASSUME NEW k \in Requests, NEW from, NEW to, NEW S,
         PhaseOf(k) = from, PhaseOf(k)' = to, ScopeOf(k)' = S,
         \A j \in Requests : j # k => Same(j)
  PROVE  Grant!Advance(k, from, to, S)
<1>1. \A j \in Requests : PhaseOf(j)' = IF j = k THEN to ELSE PhaseOf(j)
  BY DEF Same
<1>2. \A j \in Requests : ScopeOf(j)' = IF j = k THEN S ELSE ScopeOf(j)
  BY DEF Same
<1> QED
  BY <1>1, <1>2 DEF Grant!Advance

\* What the phase of a request depends on.
Untouched(k) ==
  /\ stage'[k] = stage[k] \/ (stage[k] \in {"new", "shown"} /\ stage'[k] \in {"new", "shown", "allowed"})
  /\ code'[k] = code[k] /\ codeScope'[k] = codeScope[k]
  /\ stage[k] = "audited" => agreed'[k] = agreed[k]
  /\ Winners(k)' = Winners(k) /\ Holders(k)' = Holders(k)
  /\ \A x \in Holders(k) : tokenScope'[x] = tokenScope[x]

LEMMA UntouchedSame ==
  ASSUME NEW k \in Requests, Untouched(k)
  PROVE  Same(k)
<1>1. PhaseOf(k)' = PhaseOf(k)
  BY DEF Untouched, PhaseOf, IssuedPhase
<1>2. CASE PhaseOf(k) = "tokened"
  <2>1. Holders(k) # {} /\ stage[k] = "issued"
    BY <1>2 DEF PhaseOf, IssuedPhase
  <2>2. PICK x \in Holders(k) : x = CHOOSE y \in Holders(k) : TRUE
    BY <2>1
  <2>3. ScopeOf(k) = tokenScope[x] /\ ScopeOf(k)' = tokenScope'[x]
    BY <1>1, <1>2, <2>2 DEF ScopeOf, Untouched
  <2> QED
    BY <1>1, <2>3 DEF Same, Untouched
<1>3. CASE PhaseOf(k) = "consented"
  <2>1. stage[k] = "audited"
    BY <1>3 DEF PhaseOf, IssuedPhase
  <2> QED
    BY <1>1, <1>3, <2>1 DEF Same, ScopeOf, Untouched
<1>4. CASE PhaseOf(k) \notin {"tokened", "consented"}
  BY <1>1, <1>4 DEF Same, ScopeOf, Untouched
<1> QED
  BY <1>2, <1>3, <1>4

\* The same rows and exchanges, of every request.
LEMMA SameRows ==
  ASSUME UNCHANGED <<xpc, row, expired, tokenScope>>, NEW k \in Requests
  PROVE  /\ Winners(k)' = Winners(k) /\ Holders(k)' = Holders(k)
         /\ \A x \in Holders(k) : tokenScope'[x] = tokenScope[x]
BY DEF Winners, Holders, LiveRow

\* The requests an exchange does not present are untouched by its steps.
LEMMA OtherRequest ==
  ASSUME TypeOK, NEW x \in Exchanges, NEW k \in Requests, Presented[x] # k,
         \E v \in ExchangeStates : xpc' = [xpc EXCEPT ![x] = v],
         row' = row \/ row' = [row EXCEPT ![x] = "live"],
         tokenScope' = tokenScope \/ tokenScope' = [tokenScope EXCEPT ![x] = Granted(x)],
         expired' = expired
  PROVE  /\ Winners(k)' = Winners(k) /\ Holders(k)' = Holders(k)
         /\ \A y \in Holders(k) : tokenScope'[y] = tokenScope[y]
BY DEF Winners, Holders, LiveRow, TypeOK

\* A step that mints nothing: requests may be refused or agreed to, codes, exchanges
\* and rows only come to their end.
Dwindling ==
  /\ UNCHANGED <<codeScope, tokenScope>> /\ expired \subseteq expired'
  /\ \A k \in Requests :
       /\ \/ stage'[k] = stage[k]
          \/ stage[k] \in {"new", "shown"} /\ stage'[k] \in {"shown", "allowed"}
          \/ stage[k] \in {"new", "shown", "allowed", "audited"} /\ stage'[k] \in {"denied", "failed"}
       /\ stage[k] = "audited" => agreed'[k] = agreed[k]
       /\ code'[k] = "live" => code[k] = "live"
  /\ \A x \in Exchanges :
       /\ xpc'[x] = "consumed" => xpc[x] = "consumed"
       /\ row'[x] = "live" => row[x] = "live"

LEMMA DwindlingRefines ==
  ASSUME RefInv, Dwindling
  PROVE  Grant!Next
<1> SUFFICES ASSUME NEW k \in Requests PROVE Same(k) \/ Ends(k)
  BY Closing
<1>1. Winners(k)' \subseteq Winners(k) /\ Holders(k)' \subseteq Holders(k)
  BY DEF Dwindling, Winners, Holders, LiveRow
<1>2. code'[k] = "live" => code[k] = "live"
  BY DEF Dwindling
<1>3. CASE stage[k] # "issued"
  BY <1>3 DEF Dwindling, Same, Ends, PhaseOf, ScopeOf, IssuedPhase
<1>4. CASE stage[k] = "issued"
  <2>1. stage'[k] = "issued"
    BY <1>4 DEF Dwindling
  <2>2. PhaseOf(k) = IssuedPhase(k) /\ PhaseOf(k)' = IssuedPhase(k)'
    BY <1>4, <2>1 DEF PhaseOf
  <2>3. CASE code[k] = "live"
    <3>1. Winners(k)' = {} /\ Holders(k)' = {}
      BY <1>1, <2>3, Exclusive
    <3> QED
      BY <2>2, <2>3, <3>1 DEF Dwindling, Same, Ends, ScopeOf, IssuedPhase
  <2>4. CASE code[k] # "live" /\ Winners(k) # {}
    <3>1. PICK x \in Winners(k) : Winners(k) = {x} /\ Holders(k) = {}
      BY <2>4, Exclusive
    <3>2. code'[k] # "live" /\ Holders(k)' = {} /\ (Winners(k)' = {} \/ Winners(k)' = Winners(k))
      BY <1>1, <1>2, <2>4, <3>1
    <3> QED
      BY <2>2, <2>4, <3>2 DEF Dwindling, Same, Ends, ScopeOf, IssuedPhase
  <2>5. CASE code[k] # "live" /\ Holders(k) # {}
    <3>1. PICK x \in Holders(k) : Holders(k) = {x} /\ Winners(k) = {}
      BY <2>5, Exclusive
    <3>2. code'[k] # "live" /\ Winners(k)' = {} /\ (Holders(k)' = {} \/ Holders(k)' = Holders(k))
      BY <1>1, <1>2, <2>5, <3>1
    <3> QED
      BY <2>2, <2>5, <3>1, <3>2 DEF Dwindling, Same, Ends, ScopeOf, IssuedPhase
  <2>6. CASE code[k] # "live" /\ Winners(k) = {} /\ Holders(k) = {}
    BY <1>1, <1>2, <2>2, <2>6 DEF Same, ScopeOf, IssuedPhase
  <2> QED
    BY <2>3, <2>4, <2>5, <2>6
<1> QED
  BY <1>3, <1>4

\* The step that audits a consent, and the one that mints a code for it.
LEMMA RequestRefines ==
  ASSUME RefInv, NEW k \in Requests, RecordConsent(k) \/ IssueCode(k)
  PROVE  Grant!Next
<1> USE DEF RefInv, SingleUseInv, TypeOK, requestVars, codeVars, exchangeVars, tokenVars, revokeVars
<1>1. CASE RecordConsent(k)
  <2>1. /\ stage[k] = "allowed" /\ stage' = [stage EXCEPT ![k] = "audited"]
        /\ agreed[k] # {} /\ agreed[k] \subseteq Scopes
        /\ UNCHANGED <<agreed, code, codeScope, xpc, row, expired, tokenScope>>
    BY <1>1 DEF RecordConsent
  <2>2. ASSUME NEW j \in Requests, j # k PROVE Same(j)
    BY <2>1, <2>2, SameRows, UntouchedSame DEF Untouched
  <2>3. PhaseOf(k) = "asked" /\ PhaseOf(k)' = "consented" /\ ScopeOf(k)' = agreed[k]
    BY <2>1 DEF PhaseOf, ScopeOf
  <2>4. Grant!Advance(k, "asked", "consented", agreed[k])
    BY <2>2, <2>3, Advancing
  <2> QED
    BY <2>1, <2>4 DEF Grant!Next, Grant!Consent
<1>2. CASE IssueCode(k)
  <2>1. /\ stage[k] = "audited" /\ stage' = [stage EXCEPT ![k] = "issued"]
        /\ code' = [code EXCEPT ![k] = "live"] /\ codeScope' = [codeScope EXCEPT ![k] = CodeScope(k)]
        /\ CodeScope(k) # {} /\ CodeScope(k) \subseteq agreed[k]
        /\ UNCHANGED <<agreed, xpc, row, expired, tokenScope>>
    BY <1>2 DEF IssueCode, Grantable, CodeScope, Converge
  <2>2. ASSUME NEW j \in Requests, j # k PROVE Same(j)
    BY <2>1, <2>2, SameRows, UntouchedSame DEF Untouched
  <2>3. PhaseOf(k) = "consented" /\ PhaseOf(k)' = "coded"
    BY <2>1 DEF PhaseOf, IssuedPhase
  <2>4. ScopeOf(k) = agreed[k] /\ ScopeOf(k)' = CodeScope(k)
    BY <2>1, <2>3 DEF ScopeOf
  <2>5. Grant!Advance(k, "consented", "coded", CodeScope(k))
    BY <2>2, <2>3, <2>4, Advancing
  <2> QED
    BY <2>1, <2>4, <2>5 DEF Grant!Next, Grant!Mint
<1> QED
  BY <1>1, <1>2

\* The step that consumes a code, and the one that turns it into a token.
LEMMA ExchangeRefines ==
  ASSUME RefInv, NEW x \in Exchanges, ConsumeCode(x) \/ InsertToken(x)
  PROVE  Grant!Next
<1> USE DEF RefInv, SingleUseInv, TypeOK, requestVars, codeVars, exchangeVars, tokenVars, revokeVars
<1> DEFINE k == Presented[x]
<1>0. k \in Requests
  OBVIOUS
<1>1. CASE ConsumeCode(x)
  <2>1. /\ code[k] = "live" /\ code' = [code EXCEPT ![k] = "used"]
        /\ xpc' = [xpc EXCEPT ![x] = "consumed"]
        /\ UNCHANGED <<stage, agreed, codeScope, row, expired, tokenScope>>
    BY <1>1 DEF ConsumeCode, Redeemable
  <2>2. stage[k] = "issued" /\ x \in Winners(k)'
    BY <1>0, <2>1, Exclusive DEF Winners
  <2>3. PhaseOf(k) = "coded" /\ PhaseOf(k)' = "redeeming"
    BY <1>0, <2>1, <2>2 DEF PhaseOf, IssuedPhase
  <2>4. ScopeOf(k)' = ScopeOf(k)
    BY <2>1, <2>3 DEF ScopeOf
  <2>5. ASSUME NEW j \in Requests, j # k PROVE Same(j)
    <3>1. /\ Winners(j)' = Winners(j) /\ Holders(j)' = Holders(j)
          /\ \A y \in Holders(j) : tokenScope'[y] = tokenScope[y]
      BY <2>1, <2>5, OtherRequest DEF ExchangeStates
    <3> QED
      BY <1>0, <2>1, <2>5, <3>1, UntouchedSame DEF Untouched
  <2>6. Grant!Advance(k, "coded", "redeeming", ScopeOf(k))
    BY <1>0, <2>3, <2>4, <2>5, Advancing
  <2> QED
    BY <1>0, <2>6 DEF Grant!Next, Grant!Redeem
<1>2. CASE InsertToken(x)
  <2>1. /\ xpc[x] = "consumed" /\ xpc' = [xpc EXCEPT ![x] = "done"]
        /\ row' = [row EXCEPT ![x] = "live"]
        /\ tokenScope' = [tokenScope EXCEPT ![x] = Granted(x)]
        /\ Granted(x) # {} /\ Granted(x) \subseteq codeScope[k]
        /\ UNCHANGED <<stage, agreed, code, codeScope, expired>>
    BY <1>2 DEF InsertToken, Granted
  <2>2. x \in Winners(k)
    BY <2>1 DEF Winners
  <2>3. Winners(k) = {x} /\ Holders(k) = {} /\ stage[k] = "issued" /\ code[k] # "live"
    BY <1>0, <2>2, Exclusive
  <2>4. Winners(k)' = {} /\ Holders(k)' = {x}
    BY <2>1, <2>3 DEF Winners, Holders, LiveRow
  <2>5. PhaseOf(k) = "redeeming" /\ PhaseOf(k)' = "tokened"
    BY <2>1, <2>3, <2>4 DEF PhaseOf, IssuedPhase
  <2>6. (CHOOSE y \in {x} : TRUE) = x
    OBVIOUS
  <2>7. ScopeOf(k) = codeScope[k] /\ ScopeOf(k)' = Granted(x)
    BY <2>1, <2>4, <2>5, <2>6 DEF ScopeOf
  <2>8. ASSUME NEW j \in Requests, j # k PROVE Same(j)
    <3>1. /\ Winners(j)' = Winners(j) /\ Holders(j)' = Holders(j)
          /\ \A y \in Holders(j) : tokenScope'[y] = tokenScope[y]
      BY <2>1, <2>8, OtherRequest DEF ExchangeStates
    <3> QED
      BY <2>1, <3>1, UntouchedSame DEF Untouched
  <2>9. Grant!Advance(k, "redeeming", "tokened", Granted(x))
    BY <1>0, <2>5, <2>7, <2>8, Advancing
  <2> QED
    BY <1>0, <2>1, <2>7, <2>9 DEF Grant!Next, Grant!Deliver
<1> QED
  BY <1>1, <1>2

\* Every other step mints nothing.
LEMMA OthersDwindle ==
  ASSUME RefInv, [Next]_vars,
         \A k \in Requests : ~RecordConsent(k) /\ ~IssueCode(k),
         \A x \in Exchanges : ~ConsumeCode(x) /\ ~InsertToken(x)
  PROVE  Dwindling
<1> USE DEF RefInv, SingleUseInv, TypeOK, requestVars, codeVars, exchangeVars, tokenVars, revokeVars
<1>1. ASSUME NEW k \in Requests, Request(k) PROVE Dwindling
  BY <1>1 DEF Request, RefuseRequest, ShowConsent, DenyConsent, AllowRequest, FailRequest,
      ExpireCode, Dwindling
<1>2. ASSUME NEW x \in Exchanges, Exchange(x) PROVE Dwindling
  BY <1>2 DEF Exchange, StartExchange, ValidateCode, FailExchange, ExpireToken, PruneRevoked,
      Dwindling
<1>3. ASSUME NEW r \in Revokers, Revoke(r) PROVE Dwindling
  <2>1. ASSUME NEW c \in Clients, DeleteClient(r, c) PROVE Dwindling
    BY <2>1 DEF DeleteClient, Dwindling
  <2>2. ASSUME NEW t, SelectIssued(r, t) PROVE Dwindling
    BY <2>2 DEF SelectIssued, Dwindling
  <2>3. CASE CommitRevocation(r)
    BY <2>3 DEF CommitRevocation, Dwindling
  <2>4. CASE DeleteTokens(r) \/ AbortRevocation(r) \/ RevokeIssued(r)
    BY <2>4 DEF DeleteTokens, AbortRevocation, RevokeIssued, Dwindling
  <2> QED
    BY <1>3, <2>1, <2>2, <2>3, <2>4 DEF Revoke, Select
<1>4. CASE (\E c \in Clients : Administer(c)) \/ (\E u \in Users : Unban(u) \/ DropRows(u))
  BY <1>4 DEF Administer, CreateClient, UpdateClient, Unban, DropRows, Dwindling
<1>5. CASE Restart
  BY <1>5 DEF Restart, Dwindling
<1>6. CASE UNCHANGED vars
  BY <1>6 DEF vars, Dwindling
<1> QED
  BY <1>1, <1>2, <1>3, <1>4, <1>5, <1>6 DEF Next

\* The authorization server keeps the promise of OneTimeGrant: consent, code, one
\* redemption and one token in this order, with scopes that only shrink, whatever
\* races, revokes or restarts.
THEOREM Implements == Spec => ImplementsGrant
<1>1. Init => Grant!Init
  BY DEF Init, Grant!Init, PhaseOf, ScopeOf
<1>2. RefInv /\ [Next]_vars => [Grant!Next]_(Grant!vars)
  <2> SUFFICES ASSUME RefInv, [Next]_vars PROVE Grant!Next
    OBVIOUS
  <2>1. CASE \E k \in Requests : RecordConsent(k) \/ IssueCode(k)
    BY <2>1, RequestRefines
  <2>2. CASE \E x \in Exchanges : ConsumeCode(x) \/ InsertToken(x)
    BY <2>2, ExchangeRefines
  <2>3. CASE /\ \A k \in Requests : ~RecordConsent(k) /\ ~IssueCode(k)
             /\ \A x \in Exchanges : ~ConsumeCode(x) /\ ~InsertToken(x)
    BY <2>3, OthersDwindle, DwindlingRefines
  <2> QED
    BY <2>1, <2>2, <2>3
<1>3. Init /\ TypeOK => SingleUseInv /\ RefInv
  BY DEF Init, RefInv, SingleUseInv, CodeWasIssued, ConsumedIsGone, CodeRedeemedOnce
<1> QED
  BY <1>1, <1>2, <1>3, SingleUseStep, RefInvStep, TypeCorrect, PTL DEF Spec, ImplementsGrant, Grant!Spec

=============================================================================
