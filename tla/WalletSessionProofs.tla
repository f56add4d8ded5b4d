------------------------ MODULE WalletSessionProofs ------------------------
(***************************************************************************)
(* Theorems of WalletSession, for any sessions, caps, lives and clock.     *)
(***************************************************************************)
EXTENDS WalletSession, TLAPS

(* Types, and what the accounts leave unsaid: nothing is dated later than  *)
(* now, and a session that does not exist has granted nothing.             *)
Typed == /\ now \in 0 .. MaxNow
         /\ row \in [Sessions -> SessionRows \cup {NotYet}]
         /\ uses \in [Sessions -> Seq(Nat)]
Dated(s) == row[s] # NotYet =>
    /\ row[s].createdAt <= now
    /\ row[s].revokedAt # NotYet => row[s].revokedAt <= now
    /\ \A i \in DOMAIN uses[s] : uses[s][i] <= now
Unborn(s) == row[s] = NotYet => uses[s] = <<>>

(* SessionAccounts, without what follows from the verdict's definition.    *)
Accounts(s) == row[s] # NotYet =>
    LET r == row[s]
    IN  /\ r.callCount = Len(uses[s])
        /\ r.maxCalls # NoLimit => Len(uses[s]) <= r.maxCalls
        /\ r.expiresAt - r.createdAt <= MaxTtl
        /\ \A i \in DOMAIN uses[s] :
               /\ r.createdAt <= uses[s][i] /\ uses[s][i] < r.expiresAt
               /\ r.revokedAt # NotYet => uses[s][i] <= r.revokedAt

SessionInv == Typed /\ \A s \in Sessions : Dated(s) /\ Unborn(s) /\ Accounts(s)

LEMMA LifeBounded ==
  ASSUME NEW ttl \in AskedTtls \cup {NoLimit}
  PROVE  Life(ttl) \in Nat /\ Life(ttl) <= MaxTtl
<1> DEFINE asked == IF ttl = NoLimit THEN DefaultTtl ELSE ttl
<1>1. asked \in Nat /\ MaxTtl \in Nat
  BY SessionAssumption
<1>2. \E m \in {asked, MaxTtl} : \A y \in {asked, MaxTtl} : m <= y
  BY <1>1
<1>3. Life(ttl) \in {asked, MaxTtl} /\ \A y \in {asked, MaxTtl} : Life(ttl) <= y
  BY <1>2 DEF Life, Min
<1> QED  BY <1>1, <1>3

LEMMA SessionStep == SessionInv /\ [SessionNext]_sessionVars => SessionInv'
<1> SUFFICES ASSUME SessionInv, [SessionNext]_sessionVars PROVE SessionInv'
  OBVIOUS
<1> USE SessionAssumption
(* It is enough to look at the one session a call is about.                *)
<1>1. ASSUME NEW s \in Sessions, Typed', now' = now, Dated(s)', Unborn(s)', Accounts(s)',
             \A t \in Sessions \ {s} : row'[t] = row[t] /\ uses'[t] = uses[t]
      PROVE  SessionInv'
  BY <1>1 DEF SessionInv, Dated, Unborn, Accounts
<1>2. ASSUME NEW s \in Sessions, NEW ttl \in AskedTtls \cup {NoLimit},
             NEW cap \in Caps \cup {NoLimit}, CreateSession(s, ttl, cap)
      PROVE  SessionInv'
  <2> DEFINE r == [createdAt |-> now, expiresAt |-> now + Life(ttl),
                   revokedAt |-> NotYet, callCount |-> 0, maxCalls |-> cap]
  <2>1. /\ row[s] = NotYet /\ row' = [row EXCEPT ![s] = r] /\ UNCHANGED <<now, uses>>
        /\ uses[s] = <<>> /\ now \in Nat
    BY <1>2 DEF CreateSession, SessionInv, Unborn, Typed
  <2>2. r \in SessionRows /\ r.expiresAt - r.createdAt <= MaxTtl
    BY <2>1, LifeBounded DEF SessionRows
  <2>3. Typed' /\ row'[s] = r /\ uses'[s] = <<>>
    BY <2>1, <2>2 DEF SessionInv, Typed
  <2>4. Dated(s)' /\ Unborn(s)'
    BY <2>1, <2>3 DEF Dated, Unborn
  <2>5. Accounts(s)'
    BY <2>2, <2>3 DEF Accounts
  <2>6. \A t \in Sessions \ {s} : row'[t] = row[t] /\ uses'[t] = uses[t]
    BY <2>1
  <2> QED  BY <1>1, <2>1, <2>3, <2>4, <2>5, <2>6
<1>3. ASSUME NEW s \in Sessions \cup {Forged}, VerifySession(s), ~UNCHANGED sessionVars
      PROVE  SessionInv'
  <2>1. /\ Verdict(s) = "ok"
        /\ row' = [row EXCEPT ![s].callCount = @ + 1]
        /\ uses' = [uses EXCEPT ![s] = Append(@, now)] /\ now' = now
    BY <1>3 DEF VerifySession
  <2>0. s # Forged /\ s \in Sessions /\ row[s] # NotYet
    BY <2>1, <1>3 DEF Verdict
  <2>2. /\ s \in Sessions /\ row[s] # NotYet
        /\ row[s].revokedAt = NotYet /\ now < row[s].expiresAt /\ HasCallsLeft(row[s])
    <3>1. row[s] \in SessionRows /\ now \in Nat
      BY <2>0 DEF SessionInv, Typed
    <3>2. row[s].expiresAt \in Nat
      BY <3>1 DEF SessionRows
    <3>3. row[s].revokedAt = NotYet
      BY <2>0, <2>1 DEF Verdict
    <3>4. ~(now >= row[s].expiresAt)
      BY <2>0, <2>1, <3>3 DEF Verdict
    <3>5. now < row[s].expiresAt
      BY <3>1, <3>2, <3>4
    <3>6. HasCallsLeft(row[s])
      BY <2>0, <2>1, <3>3, <3>5 DEF Verdict
    <3> QED  BY <2>0, <3>3, <3>5, <3>6
  <2>3. /\ row[s] \in SessionRows /\ uses[s] \in Seq(Nat) /\ now \in Nat
        /\ Dated(s) /\ Accounts(s)
    BY <2>2 DEF SessionInv, Typed
  <2> DEFINE r == [row[s] EXCEPT !.callCount = @ + 1]
             u == Append(uses[s], now)
  <2>4. /\ r \in SessionRows /\ r.callCount = row[s].callCount + 1
        /\ r.createdAt = row[s].createdAt /\ r.expiresAt = row[s].expiresAt
        /\ r.revokedAt = NotYet /\ r.maxCalls = row[s].maxCalls
    BY <2>2, <2>3 DEF SessionRows
  <2>5. /\ u \in Seq(Nat) /\ Len(u) = Len(uses[s]) + 1
        /\ \A i \in DOMAIN u : u[i] = now \/ (i \in DOMAIN uses[s] /\ u[i] = uses[s][i])
    BY <2>3
  <2>6. row' = [row EXCEPT ![s] = r] /\ uses' = [uses EXCEPT ![s] = u]
    BY <2>1
  <2>7. Typed' /\ row'[s] = r /\ uses'[s] = u
    BY <2>1, <2>2, <2>4, <2>5, <2>6 DEF SessionInv, Typed
  <2>8. Dated(s)' /\ Unborn(s)'
    <3>1. r # NotYet /\ r.createdAt <= now
      BY <2>2, <2>3, <2>4 DEF Dated
    <3>2. \A i \in DOMAIN uses[s] : uses[s][i] <= now
      BY <2>2, <2>3 DEF Dated
    <3>3. \A i \in DOMAIN u : u[i] <= now
      BY <2>3, <2>5, <3>2
    <3> HIDE DEF r, u
    <3> QED  BY <2>1, <2>4, <2>7, <3>1, <3>3 DEF Dated, Unborn
  <2>9. Accounts(s)'
    <3>1. r.maxCalls # NoLimit => Len(u) <= r.maxCalls
      BY <2>2, <2>3, <2>4, <2>5 DEF HasCallsLeft, Accounts, SessionRows
    <3>2. \A i \in DOMAIN u : r.createdAt <= u[i] /\ u[i] < r.expiresAt
      BY <2>2, <2>3, <2>4, <2>5 DEF Accounts, Dated
    <3> QED  BY <2>2, <2>3, <2>4, <2>5, <2>7, <3>1, <3>2 DEF Accounts
  <2>10. \A t \in Sessions \ {s} : row'[t] = row[t] /\ uses'[t] = uses[t]
    BY <2>6
  <2> QED  BY <1>1, <2>1, <2>2, <2>7, <2>8, <2>9, <2>10
<1>4. ASSUME NEW s \in Sessions \cup {Forged}, RevokeSession(s), ~UNCHANGED sessionVars
      PROVE  SessionInv'
  <2>1. /\ s \in Sessions /\ row[s] # NotYet /\ row[s].revokedAt = NotYet
        /\ row' = [row EXCEPT ![s].revokedAt = now] /\ UNCHANGED <<now, uses>>
    BY <1>4 DEF RevokeSession, Verdict
  <2>2. row[s] \in SessionRows /\ now \in 0 .. MaxNow /\ Dated(s) /\ Accounts(s)
    BY <2>1 DEF SessionInv, Typed
  <2> DEFINE r == [row[s] EXCEPT !.revokedAt = now]
  <2>3. /\ r \in SessionRows /\ r.callCount = row[s].callCount
        /\ r.createdAt = row[s].createdAt /\ r.expiresAt = row[s].expiresAt
        /\ r.revokedAt = now /\ r.maxCalls = row[s].maxCalls
    BY <2>2 DEF SessionRows
  <2>4. Typed' /\ row'[s] = r /\ uses'[s] = uses[s]
    BY <2>1, <2>3 DEF SessionInv, Typed
  <2>5. Dated(s)' /\ Unborn(s)'
    BY <2>1, <2>2, <2>3, <2>4 DEF Dated, Unborn
  <2>6. Accounts(s)'
    BY <2>1, <2>2, <2>3, <2>4 DEF Accounts, Dated
  <2>7. \A t \in Sessions \ {s} : row'[t] = row[t] /\ uses'[t] = uses[t]
    BY <2>1
  <2> QED  BY <1>1, <2>1, <2>4, <2>5, <2>6, <2>7
<1>5. CASE TimePasses
  <2>1. now' \in 0 .. MaxNow /\ now \in Nat /\ now' = now + 1 /\ UNCHANGED <<row, uses>>
    BY <1>5 DEF TimePasses, SessionInv, Typed
  <2>2. Typed' /\ \A s \in Sessions : Unborn(s)' /\ Accounts(s)'
    BY <2>1 DEF SessionInv, Typed, Unborn, Accounts
  <2>3. ASSUME NEW s \in Sessions PROVE Dated(s)'
    <3>1. row[s] # NotYet =>
            row[s].createdAt \in Nat /\ row[s].revokedAt \in Nat \cup {NotYet} /\ uses[s] \in Seq(Nat)
      BY DEF SessionInv, Typed, SessionRows
    <3>2. Dated(s)
      BY DEF SessionInv
    <3> QED  BY <2>1, <3>1, <3>2 DEF Dated
  <2> QED  BY <2>2, <2>3 DEF SessionInv
<1>6. CASE UNCHANGED sessionVars
  BY <1>6 DEF sessionVars, SessionInv, Typed, Dated, Unborn, Accounts
<1> QED  BY <1>2, <1>3, <1>4, <1>5, <1>6 DEF SessionNext

LEMMA SessionInit_ == SessionInit => SessionInv
  BY SessionAssumption DEF SessionInit, SessionInv, Typed, Dated, Unborn, Accounts

(* SessionAccounts: expiry, cap and revocation agree on every verification *)
(* ever granted, whatever the order of calls and the clock.                *)
THEOREM AccountsAgree == SessionSpec => []SessionAccounts
<1>1. ASSUME SessionInv, NEW s \in Sessions, row[s] # NotYet
      PROVE  Active(s) <=> Verdict(s) \in {"ok", "call_limit_reached"}
  <2>1. s # Forged /\ row[s] \in SessionRows /\ now \in Nat
    BY <1>1, SessionAssumption DEF SessionInv, Typed
  <2>2. row[s].expiresAt \in Nat
    BY <2>1 DEF SessionRows
  <2>3. CASE row[s].revokedAt # NotYet
    <3>1. Verdict(s) = "session_revoked"
      BY <1>1, <2>1, <2>3 DEF Verdict
    <3> QED  BY <2>3, <3>1 DEF Active
  <2>4. CASE row[s].revokedAt = NotYet /\ now >= row[s].expiresAt
    <3>1. ~(now < row[s].expiresAt)
      BY <2>1, <2>2, <2>4
    <3>2. Verdict(s) = "session_expired"
      BY <1>1, <2>1, <2>4, <3>1 DEF Verdict
    <3> QED  BY <3>1, <3>2 DEF Active
  <2>5. CASE row[s].revokedAt = NotYet /\ now < row[s].expiresAt
    <3>1. ~(now >= row[s].expiresAt)
      BY <2>1, <2>2, <2>5
    <3>2. Verdict(s) = IF HasCallsLeft(row[s]) THEN "ok" ELSE "call_limit_reached"
      BY <1>1, <2>1, <2>5, <3>1 DEF Verdict
    <3> QED  BY <1>1, <2>5, <3>2 DEF Active
  <2> QED  BY <2>1, <2>2, <2>3, <2>4, <2>5
<1>2. SessionInv => SessionAccounts
  BY <1>1 DEF SessionInv, Accounts, SessionAccounts
<1> QED  BY <1>2, SessionInit_, SessionStep, PTL DEF SessionSpec
=============================================================================
