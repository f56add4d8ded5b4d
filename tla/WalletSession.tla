--------------------------- MODULE WalletSession ---------------------------
(***************************************************************************)
(* The paid session tokens of src/src/lib/wallet-sessions.ts: one row per  *)
(* session, verified (and counted), revoked and described by its token.    *)
(* Every call is one synchronous run over SQLite; rows survive restarts.   *)
(* A token is its session, or Forged.                                      *)
(***************************************************************************)
EXTENDS Integers, Sequences, FiniteSetsExt

CONSTANTS Sessions,     \* session ids; Forged is none of them
          Forged,       \* a token that does not verify
          AskedTtls,    \* ttlSeconds a caller may ask for
          Caps,         \* maxCalls values
          NoLimit,      \* ttlSeconds or maxCalls left out
          DefaultTtl, MaxTtl,
          MaxNow,       \* bound: the clock stops here
          MaxUses,      \* bound: counted verifications of one session
          NotYet        \* no row, or not revoked

(* A row of wallet_sessions. *)
SessionRows == [createdAt : Nat, expiresAt : Nat, revokedAt : Nat \cup {NotYet},
                callCount : Nat, maxCalls : Caps \cup {NoLimit}]

ASSUME SessionAssumption ==
    /\ AskedTtls \subseteq Nat /\ DefaultTtl \in Nat /\ MaxTtl \in Nat
    /\ Caps \subseteq Nat /\ MaxNow \in Nat /\ MaxUses \in Nat
    /\ NoLimit \notin AskedTtls \cup Caps /\ Forged \notin Sessions
    /\ NotYet \notin SessionRows /\ NotYet \notin 0 .. MaxNow

VARIABLES now, row, uses

sessionVars == <<now, row, uses>>

SessionInit == /\ now = 0
               /\ row = [s \in Sessions |-> NotYet]
               /\ uses = [s \in Sessions |-> <<>>]   \* history: when each verification was granted

Life(ttl) == Min({IF ttl = NoLimit THEN DefaultTtl ELSE ttl, MaxTtl})

CreateSession(s, ttl, cap) ==
    /\ row[s] = NotYet
    /\ row' = [row EXCEPT ![s] = [createdAt |-> now, expiresAt |-> now + Life(ttl),
                                  revokedAt |-> NotYet, callCount |-> 0, maxCalls |-> cap]]
    /\ UNCHANGED <<now, uses>>

(* The checks in the code's order; "ok" when none refuses. *)
HasCallsLeftOff(r) == r.maxCalls = NoLimit \/ r.callCount <= r.maxCalls  \* mutant
HasCallsLeft(r) == r.maxCalls = NoLimit \/ r.callCount < r.maxCalls

Verdict(token) ==
    IF token = Forged THEN "invalid_token_signature"
    ELSE IF row[token] = NotYet THEN "session_not_found"
    ELSE LET r == row[token]
         IN  CASE r.revokedAt # NotYet -> "session_revoked"
               [] r.revokedAt = NotYet /\ now >= r.expiresAt -> "session_expired"
               [] r.revokedAt = NotYet /\ now < r.expiresAt /\ ~HasCallsLeft(r) -> "call_limit_reached"
               [] OTHER -> "ok"

VerifySession(token) ==
    IF Verdict(token) = "ok"
    THEN /\ Len(uses[token]) < MaxUses
         /\ row' = [row EXCEPT ![token].callCount = @ + 1]
         /\ uses' = [uses EXCEPT ![token] = Append(@, now)]
         /\ UNCHANGED now
    ELSE UNCHANGED sessionVars

RevokeSession(token) ==
    IF Verdict(token) \in {"invalid_token_signature", "session_not_found", "session_revoked"}
    THEN UNCHANGED sessionVars
    ELSE /\ row' = [row EXCEPT ![token].revokedAt = now]
         /\ UNCHANGED <<now, uses>>

(* GET /api/session/info *)
Active(s) == row[s] # NotYet /\ row[s].revokedAt = NotYet /\ now < row[s].expiresAt

TimePasses == now < MaxNow /\ now' = now + 1 /\ UNCHANGED <<row, uses>>

SessionNext ==
    \/ \E s \in Sessions, ttl \in AskedTtls \cup {NoLimit}, cap \in Caps \cup {NoLimit} :
           CreateSession(s, ttl, cap)
    \/ \E token \in Sessions \cup {Forged} : VerifySession(token)
    \/ \E token \in Sessions \cup {Forged} : RevokeSession(token)
    \/ TimePasses

SessionSpec == SessionInit /\ [][SessionNext]_sessionVars

(* Expiry, call cap and revocation agree on every verification ever        *)
(* granted: the row has counted each of them, they never exceed the cap,   *)
(* each fell inside the session's life, which never exceeds the maximum,   *)
(* none came after the revocation, and a session reported active is one    *)
(* whose next verification only the cap could refuse.                      *)
SessionAccounts ==
    \A s \in Sessions : row[s] # NotYet =>
        LET r == row[s]
        IN  /\ r.callCount = Len(uses[s])
            /\ r.maxCalls # NoLimit => Len(uses[s]) <= r.maxCalls
            /\ r.expiresAt - r.createdAt <= MaxTtl
            /\ \A i \in DOMAIN uses[s] :
                   /\ r.createdAt <= uses[s][i] /\ uses[s][i] < r.expiresAt
                   /\ r.revokedAt # NotYet => uses[s][i] <= r.revokedAt
            /\ Active(s) <=> Verdict(s) \in {"ok", "call_limit_reached"}
=============================================================================
