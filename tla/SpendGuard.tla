---------------------------- MODULE SpendGuard -----------------------------
(***************************************************************************)
(* The checks an agent buys before it pays (agents/pre-x402-guard.ts) and  *)
(* the agents that wrap them: attestation issue, x402 proxy, pipelines,    *)
(* transaction authorisation and buy advisor.  The spend governor sums,    *)
(* then records; probe, identity and trust answers come later, or after a  *)
(* timer has given up on them.  Amounts are whole cents.                   *)
(***************************************************************************)
EXTENDS Integers, FiniteSetsExt

CONSTANTS Asks,         \* requests that may come, a set of records
          Checks,       \* identities of guarded calls
          Probes,       \* what the target may answer a probe
          Trusts,       \* what the trust registry may say of a wallet
          Buyers,       \* agent ids
          Days,         \* 0 .. n
          NoPrice       \* no parseable price

Wrappers == {"guard", "attest", "proxy", "pipeline", "trust2", "trust2proxy", "auth", "advisor"}

(* Amounts are whole cents, findings are counted, and calls are finitely   *)
(* many.                                                                   *)
ASSUME AsksAssumption ==
    /\ \A r \in Asks : /\ r.kind \in Wrappers /\ r.agent \in Buyers
                       /\ r.cost \in Nat /\ r.perCall \in Nat /\ r.daily \in Nat
                       /\ r.url.patterns \in Nat /\ r.url.tlds \in Nat /\ r.wallet.patterns \in Nat
    /\ \A p \in Probes : p.status \in Nat /\ p.price \in Nat \cup {NoPrice}
    /\ 0 \in Days /\ Days \subseteq Nat
    /\ IsFiniteSet(Checks)

VARIABLES apart, today, spent, check, attested

guardVars == <<apart, today, spent, check, attested>>

Fresh == [at |-> "fresh"]
Attesters == {"attest", "proxy", "trust2proxy"}

(* apart: no governor runs between another's sum and its insert.  Between  *)
(* them is an await on a settled promise, which only requests resumed by   *)
(* the same event (nonce claims answered in one chunk) can slip into.      *)
GuardInit == /\ apart \in BOOLEAN
             /\ today = 0
             /\ spent = [a \in Buyers |-> [d \in Days |-> 0]]  \* spend_ledger
             /\ check = [c \in Checks |-> Fresh]
             /\ attested = {}                                  \* attestations, as <<call, allowed>>

-----------------------------------------------------------------------------
If(cond, n) == IF cond THEN n ELSE 0

(* lib/security.ts: u tells what its checks find in a url. *)
UrlScore(u) == IF ~u.outbound THEN 0
               ELSE 85 - If(~u.https, 25) - 50 * u.patterns - 15 * u.tlds - If(u.long, 10)
UrlGrade(u) == CASE UrlScore(u) >= 85 -> "A"
                 [] UrlScore(u) \in 70..84 -> "B"
                 [] UrlScore(u) \in 55..69 -> "C"
                 [] UrlScore(u) \in 40..54 -> "D"
                 [] UrlScore(u) < 40 -> "F"
Threatened(u) == UrlScore(u) # 85

(* Math.round of half the sum of a risk and the url's missing score. *)
Merge(risk, u) == Min({100, (risk + 100 - Max({0, UrlScore(u)}) + 1) \div 2})

SyntheticProbe == [status |-> 402, price |-> 5]
ProbeOf(r, p) == IF r.verifier THEN SyntheticProbe
                 ELSE IF ~r.url.outbound THEN [status |-> 0, price |-> NoPrice] ELSE p

(* What each finding of the risk gate adds to its score. *)
RiskBase(r, p) ==
    If(r.listed # "no", 80)
    + (CASE p.status = 0 -> 50
         [] p.status = 200 -> 15
         [] OTHER -> 0)
    + If(p.price # NoPrice /\ p.price > r.perCall, 40)
    + If(p.price # NoPrice /\ 2 * r.cost < p.price, 20)

RiskScore(r, p) == IF r.url.outbound THEN Merge(RiskBase(r, p), r.url) ELSE 100
RiskSafeByScore(r, p) == RiskScore(r, p) < 50                           \* mutant
RiskSafe(r, p) == /\ RiskScore(r, p) < 50
                  /\ RiskBase(r, p) = 0
                  /\ ~Threatened(r.url)

Vouched(w, t) == w.form = "evm" /\ t.registered /\ t.rank > 0
IdentityRisk(w, t) ==
    IF w.form = "bad" \/ w.sentinel THEN 100
    ELSE Max({0, 25 + 60 * w.patterns - If(Vouched(w, t), 15)})
IdentityTier(w, t) == CASE IdentityRisk(w, t) < 25 -> "trusted"
                        [] IdentityRisk(w, t) \in 25..49 -> "standard"
                        [] IdentityRisk(w, t) >= 50 -> "restricted"
IdentityOk(w, t) == IdentityTier(w, t) # "restricted"

(* Minimum tier and score are only looked at for EVM wallets. *)
TrustOk(r, t) == r.wallet.form = "evm" => t.rank >= r.minRank /\ t.score >= r.minScore

(* The spend governor: caps come with the request, the sum is the agent's. *)
WithinCapsLate(r, sum) == r.cost <= r.perCall /\ sum <= r.daily              \* mutant
WithinCaps(r, sum) == r.cost <= r.perCall /\ sum + r.cost <= r.daily
GovernorAllows(r, sum) ==
    WithinCaps(r, sum) /\ r.listed # "host" /\ r.hostAllowed /\ r.networkAllowed

GuardAllows(r, spendOk, p, t) == /\ spendOk
                                 /\ IdentityOk(r.wallet, t)
                                 /\ RiskSafe(r, p)
                                 /\ TrustOk(r, t)
                                 /\ UrlGrade(r.url) # "F"

-----------------------------------------------------------------------------
Begin(c, r) ==
    /\ check[c] = Fresh
    /\ apart => \A d \in Checks : check[d].at # "summed"
    /\ check' = [check EXCEPT ![c] = [at |-> "summed", ask |-> r, sum |-> spent[r.agent][today]]]
    /\ UNCHANGED <<apart, today, spent, attested>>

(* The governor decides on the sum it read and records the spend under the *)
(* day it is by then; the risk and identity checks are still out.          *)
Record(c) ==
    LET r == check[c].ask
        ok == GovernorAllows(r, check[c].sum)
    IN  /\ check[c].at = "summed"
        /\ check' = [check EXCEPT ![c] = [at |-> "checking", ask |-> r, day |-> today, spendOk |-> ok]]
        /\ spent' = IF ok THEN [spent EXCEPT ![r.agent][today] = @ + r.cost] ELSE spent
        /\ UNCHANGED <<apart, today, attested>>

(* x402 proxy: the guard again with a fresh identity check t; verifier     *)
(* calls must also have met a 402.                                         *)
ProxyAllows(r, guard, p, t) ==
    /\ guard
    /\ IdentityOk(r.wallet, t)
    /\ IF r.verifier THEN ProbeOf(r, p).status = 402
       ELSE Merge(RiskScore(r, p), r.url) < 50 /\ UrlGrade(r.url) # "F"

(* What each wrapper answers, from the guard's verdict.  pre stands for    *)
(* mandate diff and merchant check, gate for the seller's buyer gate; an   *)
(* attestation id asked for by a seller is only tested for being there.    *)
Verdict(r, guard, p, t) ==
    CASE r.kind \in {"guard", "pipeline", "advisor"} -> guard
      [] r.kind = "attest" -> guard /\ UrlGrade(r.url) # "F"
      [] r.kind = "proxy" -> ProxyAllows(r, guard, p, t)
      [] r.kind = "trust2" -> r.pre /\ guard /\ r.gate
      [] r.kind = "trust2proxy" -> r.pre /\ ProxyAllows(r, guard, p, t) /\ r.gate
      [] r.kind = "auth" -> guard /\ r.attestation # "missing"

Told(c, r, guard, p, t, verdict) ==
    check' = [check EXCEPT ![c] = [at |-> "answered", ask |-> r, day |-> check[c].day,
                                   spendOk |-> check[c].spendOk, probe |-> ProbeOf(r, p), trust |-> t,
                                   guard |-> guard, allowed |-> verdict]]

(* Both answers are in.  Attesters then record what they attest, the proxy *)
(* even when the pipeline around it has already refused.                   *)
Judge(c, p, t1, t2) ==
    LET r == check[c].ask
        guard == GuardAllows(r, check[c].spendOk, ProbeOf(r, p), t1)
        told == IF r.kind = "attest" THEN Verdict(r, guard, p, t2) ELSE ProxyAllows(r, guard, ProbeOf(r, p), t2)
    IN  /\ check[c].at = "checking"
        /\ Told(c, r, guard, p, t1, Verdict(r, guard, ProbeOf(r, p), t2))
        /\ attested' = IF r.kind \in Attesters THEN attested \cup {<<c, told>>} ELSE attested
        /\ UNCHANGED <<apart, today, spent>>

(* GUARD_TIMEOUT_MS or PIPELINE_TIMEOUT_MS passes first: an error or, for  *)
(* the pipeline, allowed: false.  The spend stays recorded.                *)
TimeOut(c) == /\ check[c].at = "checking"
              /\ check' = [check EXCEPT ![c] = [at |-> "timedout", ask |-> @.ask, day |-> @.day, spendOk |-> @.spendOk]]
              /\ UNCHANGED <<apart, today, spent, attested>>

(* A pipeline_id envelope is answered as if the guard had passed, and a    *)
(* buy advisor asked without agent, wallet or policy never runs it.        *)
Envelope(c) == /\ check[c] = Fresh
               /\ check' = [check EXCEPT ![c] = [at |-> "simulated"]]
               /\ UNCHANGED <<apart, today, spent, attested>>

NextDay == today + 1 \in Days /\ today' = today + 1 /\ UNCHANGED <<apart, spent, check, attested>>

GuardNext == \/ \E c \in Checks, r \in Asks : Begin(c, r)
             \/ \E c \in Checks, p \in Probes, t1, t2 \in Trusts : Judge(c, p, t1, t2)
             \/ \E c \in Checks : Record(c) \/ TimeOut(c) \/ Envelope(c)
             \/ NextDay

GuardSpec == GuardInit /\ [][GuardNext]_guardVars
-----------------------------------------------------------------------------
Recorded(a, d) == {c \in Checks : /\ check[c].at \in {"checking", "answered", "timedout"}
                                  /\ check[c].spendOk /\ check[c].day = d
                                  /\ check[c].ask.agent = a}

(* The ledger holds exactly what the governor let through, also for calls  *)
(* blocked elsewhere or given up on, and with governors apart a day's sum  *)
(* stays within the largest daily cap it was let through under             *)
(* (runSpendGovernor).                                                     *)
SpendWithinCaps ==
    \A a \in Buyers, d \in Days :
        LET calls == Recorded(a, d) IN
        /\ spent[a][d] = SumFunction([c \in calls |-> check[c].ask.cost])
        /\ apart /\ calls # {} => \E c \in calls : spent[a][d] <= check[c].ask.daily

(* A check that says pay was earned on every ground at once, whichever     *)
(* wrapper says it: the target is public, clean and not on the caller's    *)
(* list, it answered a probe at a price within the call's cap and at most  *)
(* twice the estimate, the wallet is neither malformed, blocked nor like a *)
(* blocked one, and the spend is in the ledger.                            *)
VerdictsEarned ==
    \A c \in Checks : check[c].at = "answered" /\ check[c].allowed =>
        LET r == check[c].ask
            p == check[c].probe IN
        /\ r.url.outbound /\ r.url.https /\ r.url.patterns = 0
        /\ r.listed = "no"
        /\ p.status # 0
        /\ p.price # NoPrice => p.price <= r.perCall /\ p.price <= 2 * r.cost
        /\ r.wallet.form # "bad" /\ ~r.wallet.sentinel /\ r.wallet.patterns = 0
        /\ spent[r.agent][check[c].day] >= r.cost
=============================================================================
