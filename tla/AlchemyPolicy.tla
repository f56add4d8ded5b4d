--------------------------- MODULE AlchemyPolicy ---------------------------
(***************************************************************************)
(* The Alchemy policies (agents/alchemy-policy.ts): a sponsorship test for *)
(* user operations, a simulation shield that talks to an RPC node which    *)
(* may throttle, fail or refuse to trace, and address notifications that   *)
(* are audited one by one and may be delivered again.                      *)
(***************************************************************************)
EXTENDS Integers, Sequences, FiniteSets, FiniteSetsExt

CONSTANTS Shields,       \* simulation requests
          Transactions,  \* records: traced, reverts, outflow, vectors
          Operations,    \* user operations: decoded, calls (vector sets), raw
          Notices,       \* notification ids -> sequence of activities
          Deliveries,    \* deliveries of a notification
          MaxRetries     \* maxRetries of fetchWithRetry

(* Vectors are distinct names of threats, and what a notification holds is *)
(* a finite list of transfers in whole units.                              *)
ASSUME AlchemyAssumption ==
    /\ \A tx \in Transactions : IsFiniteSet(tx.vectors) /\ tx.outflow \in Int
    /\ IsFiniteSet(Deliveries)
    /\ \A n \in DOMAIN Notices : /\ Len(Notices[n]) \in Nat
                                 /\ DOMAIN Notices[n] = 1 .. Len(Notices[n])
                                 /\ \A i \in DOMAIN Notices[n] : Notices[n][i].amount \in Nat

VARIABLES shield, sponsored, delivery, acknowledged, notified

alchemyVars == <<shield, sponsored, delivery, acknowledged, notified>>

Legs == {"changes", "exec", "call"}
Idling == [at |-> "idle"]

AlchemyInit == /\ shield = [s \in Shields |-> Idling]
               /\ sponsored = {}
               /\ delivery = [d \in Deliveries |-> Idling]
               /\ acknowledged = {}
               /\ notified = 0          \* spend_ledger total of the webhook's id

-----------------------------------------------------------------------------
(* payload-sandbox.ts: 35 points for every distinct vector, refused from   *)
(* 50 on, so one vector passes and two do not.                             *)
ThreatScore(vectors) == Min({100, 35 * Cardinality(vectors)})
SandboxAllows(vectors) == ThreatScore(vectors) < 50

(* Every decoded sub-call is scanned by itself; call data that does not    *)
(* decode is scanned as it stands, and no call data is approved.           *)
Approves(o) == IF o.decoded THEN \A i \in DOMAIN o.calls : SandboxAllows(o.calls[i])
               ELSE SandboxAllows(o.raw)

Sponsor(o) == /\ sponsored' = IF Approves(o) THEN sponsored \cup {o} ELSE sponsored
              /\ UNCHANGED <<shield, delivery, acknowledged, notified>>

-----------------------------------------------------------------------------
(* One chain is simulated, with two requests at once; the others only get  *)
(* an eth_call, which is also the way out when tracing fails.              *)
FirstLegs(tx) == IF tx.traced THEN {"changes", "exec"} ELSE {"call"}
Pending(s) == {l \in Legs : shield[s].leg[l] = "asked"}

Shield(s, tx) ==
    /\ shield[s] = Idling
    /\ shield' = [shield EXCEPT ![s] =
         [at |-> "asking", tx |-> tx, tries |-> [l \in Legs |-> 1],
          leg |-> [l \in Legs |-> IF l \in FirstLegs(tx) THEN "asked" ELSE "unused"]]]
    /\ UNCHANGED <<sponsored, delivery, acknowledged, notified>>

(* fetchWithRetry asks again after a 429, then the 429 is an answer that   *)
(* parseAlchemyResponse refuses like any other failure.                    *)
RpcReply(s, l, answer) ==
    /\ shield[s].at = "asking" /\ l \in Pending(s)
    /\ shield' = IF answer = "throttled" /\ shield[s].tries[l] <= MaxRetries
                 THEN [shield EXCEPT ![s].tries[l] = @ + 1]
                 ELSE [shield EXCEPT ![s].leg[l] = IF answer = "throttled" THEN "down" ELSE answer]
    /\ UNCHANGED <<sponsored, delivery, acknowledged, notified>>

SimulationFailed(s) == \E l \in {"changes", "exec"} : shield[s].leg[l] \in {"down", "error"}
NeedsCall(s) == shield[s].leg["exec"] = "tracer" /\ shield[s].leg["call"] = "unused"

FallBack(s) == /\ shield[s].at = "asking" /\ Pending(s) = {} /\ ~SimulationFailed(s) /\ NeedsCall(s)
               /\ shield' = [shield EXCEPT ![s].leg["call"] = "asked"]
               /\ UNCHANGED <<sponsored, delivery, acknowledged, notified>>

(* A failed fallback leaves the tracer's error, or its own, to be thrown.  *)
FailedQuietly(s) == SimulationFailed(s)                                 \* mutant
Failed(s) == SimulationFailed(s) \/ shield[s].leg["call"] = "down"

(* eth_call answers with any error count as a revert.                      *)
Reverted(s) == LET l == shield[s].leg IN
    \/ l["exec"] = "result" /\ shield[s].tx.reverts
    \/ l["call"] \in {"error", "tracer"}
    \/ l["call"] = "result" /\ shield[s].tx.reverts
OutflowSeen(s) == IF shield[s].leg["changes"] = "result" THEN shield[s].tx.outflow ELSE 0

Dangers(s) == (IF Reverted(s) THEN {"simulation_revert"} ELSE {})
    \cup (IF OutflowSeen(s) > 100 THEN {"high_value_outflow"} ELSE {})
    \cup (IF SandboxAllows(shield[s].tx.vectors) THEN {} ELSE {"payload_threat_detected"})

ShieldGrade(dangers) == CASE "payload_threat_detected" \in dangers -> "F"
                          [] "payload_threat_detected" \notin dangers /\ "simulation_revert" \in dangers -> "D"
                          [] dangers = {"high_value_outflow"} -> "B"
                          [] dangers = {"simulation_failed"} -> "C"
                          [] dangers = {} -> "A"

ConcludeShield(s) ==
    LET dangers == IF Failed(s) THEN {"simulation_failed"} ELSE Dangers(s) IN
    /\ shield[s].at = "asking" /\ Pending(s) = {}
    /\ SimulationFailed(s) \/ ~NeedsCall(s)
    /\ shield' = [shield EXCEPT ![s] = [at |-> "told", tx |-> @.tx, leg |-> @.leg,
                                        safe |-> dangers = {}, grade |-> ShieldGrade(dangers)]]
    /\ UNCHANGED <<sponsored, delivery, acknowledged, notified>>

-----------------------------------------------------------------------------
(* receipt-auditor.ts: every check made must pass.  A receipt the node     *)
(* does not give is made up for by a complete settlement record, and on    *)
(* Solana the record is all there is.                                      *)
ReceiptValid(r) ==
    /\ r.tx
    /\ r.amounts => r.match
    /\ r.net = "base" => CASE r.receipt = "none" -> r.complete
                           [] r.receipt # "none" -> r.receipt = "success" /\ (r.payTo => r.toMatches)
    /\ r.net = "solana" => r.complete

(* An activity's audit: its own hash, amount and network make the record.  *)
AuditedAs(a, seen) == [tx |-> TRUE, amounts |-> a.usdc, match |-> TRUE, complete |-> TRUE,
                       net |-> a.net, receipt |-> IF seen THEN a.receipt ELSE "none",
                       payTo |-> TRUE, toMatches |-> a.toMatches]
ActivitySpend(a) == IF a.usdc THEN a.amount ELSE 0

Deliver(d, n) == /\ delivery[d] = Idling
                 /\ delivery' = [delivery EXCEPT ![d] = [at |-> "auditing", notice |-> n, next |-> 1]]
                 /\ UNCHANGED <<shield, sponsored, acknowledged, notified>>

(* One audit, and the spend of a valid one in the same step.               *)
Audit(d, seen) ==
    LET a == Notices[delivery[d].notice][delivery[d].next] IN
    /\ delivery[d].at = "auditing" /\ delivery[d].next <= Len(Notices[delivery[d].notice])
    /\ delivery' = [delivery EXCEPT ![d].next = @ + 1]
    /\ notified' = IF ReceiptValid(AuditedAs(a, seen)) THEN notified + ActivitySpend(a) ELSE notified
    /\ UNCHANGED <<shield, sponsored, acknowledged>>

(* The node's request throws: the delivery is answered 500, with what was  *)
(* recorded before it kept.                                                *)
SkipAudit(d) == [delivery EXCEPT ![d].next = @ + 1]                     \* mutant
GiveUp(d) == [delivery EXCEPT ![d] = [at |-> "failed"]]
AuditThrows(d) == /\ delivery[d].at = "auditing" /\ delivery[d].next <= Len(Notices[delivery[d].notice])
                  /\ Notices[delivery[d].notice][delivery[d].next].net = "base"
                  /\ delivery' = GiveUp(d)
                  /\ UNCHANGED <<shield, sponsored, acknowledged, notified>>

AnswerDelivery(d) ==
    /\ delivery[d].at = "auditing" /\ delivery[d].next > Len(Notices[delivery[d].notice])
    /\ acknowledged' = acknowledged \cup {delivery[d].notice}
    /\ delivery' = [delivery EXCEPT ![d] = [at |-> "answered"]]
    /\ UNCHANGED <<shield, sponsored, notified>>

ShieldNext ==
    \/ \E o \in Operations : Sponsor(o)
    \/ \E s \in Shields, tx \in Transactions : Shield(s, tx)
    \/ \E s \in Shields, l \in Legs, answer \in {"throttled", "down", "tracer", "error", "result"} :
          RpcReply(s, l, answer)
    \/ \E s \in Shields : FallBack(s) \/ ConcludeShield(s)
NotifyNext ==
    \/ \E d \in Deliveries, n \in DOMAIN Notices : Deliver(d, n)
    \/ \E d \in Deliveries, seen \in BOOLEAN : Audit(d, seen)
    \/ \E d \in Deliveries : AuditThrows(d) \/ AnswerDelivery(d)
AlchemyNext == ShieldNext \/ NotifyNext

AlchemySpec == AlchemyInit /\ [][AlchemyNext]_alchemyVars
-----------------------------------------------------------------------------
(* The shield calls a transaction safe, and grades it A, only when some    *)
(* node executed it without a revert, whatever was throttled, untraceable  *)
(* or down on the way, and when an outflow that was seen is small.         *)
SafeMeansExecuted ==
    \A s \in Shields : shield[s].at = "told" /\ shield[s].safe =>
        /\ \E l \in {"exec", "call"} : shield[s].leg[l] = "result"
        /\ ~shield[s].tx.reverts
        /\ Cardinality(shield[s].tx.vectors) <= 1
        /\ shield[s].leg["changes"] = "result" => shield[s].tx.outflow <= 100
        /\ shield[s].grade = "A"

(* What a settled USDC transfer moved is in the ledger once its delivery   *)
(* has been acknowledged: failures in between and deliveries repeated      *)
(* after them only ever count more.                                        *)
Settled(a) == a.usdc /\ (a.net = "base" => a.receipt = "success" /\ a.toMatches)
SettledAmounts(n) == [i \in DOMAIN Notices[n] |->
                        IF Settled(Notices[n][i]) THEN Notices[n][i].amount ELSE 0]
NotifiedSpendKept ==
    notified >= SumFunction([n \in acknowledged |-> SumFunction(SettledAmounts(n))])
=============================================================================
