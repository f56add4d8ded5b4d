------------------------------ MODULE Recourse ------------------------------
(***************************************************************************)
(* What a buyer can do about a delivery: the two quality escrows           *)
(* (agents/quality-escrow.ts, agents/quality-escrow-semantic.ts over       *)
(* lib/semantic-judge.ts), the dispute resolver, the refund arbiter, the   *)
(* compliance ledger and the quality monitor.  Each answers from what it   *)
(* is told and keeps nothing.  (The bond a refused semantic settle slashes *)
(* is SellerBonds.)  Points are integers; prices are in cents.             *)
(***************************************************************************)
EXTENDS Integers, Sequences, FiniteSets, Functions

CONSTANTS
  Responses,   \* what sellers delivered, and the profile buyers expected
  Judgements,  \* scores the LLM judge gives
  Claims,      \* disputes, with their evidence
  Signals,     \* what the refund arbiter is told
  Ledgers,     \* records and caps the compliance ledger is given
  Watches,     \* what the quality monitor's probes found
  Untold       \* a field the caller left out, and no ruling

(* What the routes' schemas, the judge and the probes give.                *)
ASSUME RecourseAssumption ==
  /\ Untold \notin Int
  /\ \A r \in Responses : r.missing \in Nat /\ r.placeholders \in Nat
  /\ Judgements \subseteq Int
  /\ \A c \in Claims : c.reason \in {"non_delivery", "quality_mismatch", "overcharge", "duplicate", "unauthorized"}
  /\ \A s \in Signals : s.score \in Int \cup {Untold}
  /\ \A l \in Ledgers : /\ l.records \in Seq([merchant : STRING, category : STRING, rail : STRING, amount : Nat, settled : BOOLEAN])
                       /\ l.each \in Int \cup {Untold}
  /\ \A w \in Watches : w \in Seq([status : Int, expected : 100 .. 599 \cup {Untold}, price : Int \cup {Untold}])

VARIABLE ruled  \* the last ruling: who gave it, on what, and what it says

Smaller(a, b) == IF a < b THEN a ELSE b
Clamped(n) == IF n < 0 THEN 0 ELSE Smaller(n, 100)
If100(condition, points) == IF condition THEN points ELSE 0

-----------------------------------------------------------------------------
(* matchScore: what the response's shape loses against the profile. *)
MissesBody(r) == r.forbidEmpty /\ (r.empty \/ r.bytes = 0)
ShapeLoss(r) ==
  If100(MissesBody(r), 70) + Smaller(60, 20 * r.missing)
  + If100(r.least # Untold /\ r.bytes # Untold /\ r.bytes < r.least, 25)
  + If100(r.pattern = "misses", 30)
SchemaScore(r) == Clamped(100 - ShapeLoss(r))

(* heuristicJudge, when no LLM answers.  A sample the caller leaves out is *)
(* the text of its fields.                                                 *)
HeuristicScore(r) ==
  Clamped(100 - If100(r.sample = "short", 70) - If100(r.phrase # "plain", 45)
              - If100(r.intent = "unmet", 20) - If100(r.priced = "missing", 30))
Judge(r, llm) == IF llm = Untold THEN HeuristicScore(r) ELSE Clamped(llm)

(* computeSemanticScores: an empty body is capped, placeholders and the    *)
(* worst phrases are taken off one by one.                                 *)
Capped(r, score) == IF r.empty \/ r.bytes = 0 THEN Smaller(score, 15) ELSE score
CappedNever(r, score) == score                                        \* mutant
SemanticCap(r, score) == Capped(r, score)
SemanticScore(r, llm) ==
  LET told == Clamped(SemanticCap(r, Judge(r, llm)) - 15 * r.placeholders)
  IN Clamped(told - If100(r.phrase = "scam", 20))
Combined(r, llm) == (45 * SchemaScore(r) + 55 * SemanticScore(r, llm) + 50) \div 100

Threshold(given, default) == IF given = Untold THEN default ELSE given
ReleasedByShape(r) == SchemaScore(r) >= Threshold(r.threshold, 70)
ReleasedByMeaning(r, llm) == Combined(r, llm) >= Threshold(r.threshold, 72)

-----------------------------------------------------------------------------
(* runDisputeResolve: the evidence that counts depends on the reason. *)
Overcharged(c) == c.charged # Untold /\ c.quoted # Untold /\ c.charged > c.quoted
Strength(c) ==
  Clamped(40 + (CASE c.reason = "non_delivery"     -> If100(c.empty, 35) + If100(c.receipt = "invalid", 10)
                  [] c.reason = "quality_mismatch" -> If100(c.score # Untold /\ c.score < 50, 30) + If100(c.schema, 10)
                  [] c.reason = "overcharge"       -> If100(Overcharged(c), 40)
                  [] c.reason = "duplicate"        -> If100(c.twin, 45)
                  [] c.reason = "unauthorized"     -> 20))
Likelihood(n) == IF n >= 70 THEN "strong" ELSE IF n >= 45 THEN "moderate" ELSE "weak"
AutoFileable(c) == c.rail \in {"visa-cli", "card"} /\ Strength(c) >= 70

(* runRefundArbiter: each signal in turn, the last one to speak wins. *)
ArbiterScore(s) == IF s.score = Untold THEN 50 ELSE s.score
Mismatch(s) == s.paid # Untold /\ s.quoted # Untold /\ s.paid # s.quoted
EligibleSoFar(s) == IF s.generic THEN ArbiterScore(s) < 70 ELSE s.unreachable \/ s.empty
Eligible(s) == EligibleSoFar(s) \/ Mismatch(s) \/ ArbiterScore(s) < 50
ProtectionTier(s) == IF ArbiterScore(s) >= 70 THEN "full" ELSE IF ArbiterScore(s) >= 50 THEN "partial" ELSE "none"

-----------------------------------------------------------------------------
(* runComplianceLedger: the spend grouped by one field, the caps it breaks *)
(* and the records without a transaction.                                  *)
SpendAt(records, at) == SumFunctionOnSet([i \in DOMAIN records |-> records[i].amount], at)
SpendOf(records) == SpendAt(records, DOMAIN records)
KeysOf(records, field) == {records[i][field] : i \in DOMAIN records}
GroupBy(records, field) ==
  [k \in KeysOf(records, field) |-> SpendAt(records, {i \in DOMAIN records : records[i][field] = k})]
Violations(l) ==
  LET merchants == GroupBy(l.records, "merchant")
  IN (IF l.monthly # Untold /\ SpendOf(l.records) > l.monthly THEN {<<"monthly_cap", Untold>>} ELSE {})
     \cup (IF l.each = Untold THEN {}
           ELSE {<<"per_merchant_cap", m>> : m \in {k \in DOMAIN merchants : merchants[k] > l.each}})
     \cup {<<"disallowed_category", c>> : c \in l.barred \cap KeysOf(l.records, "category")}
Unreconciled(l) == Cardinality({i \in DOMAIN l.records : ~l.records[i].settled})

(* runQualityMonitor over the first ten targets. *)
Matches(w) == IF w.expected = Untold THEN w.status > 0 ELSE w.status = w.expected
TargetScore(w) ==
  Clamped(50 + (CASE w.status = 402 -> 25 [] w.status = 200 -> 10 [] w.status = 0 -> -40
                  [] w.status >= 400 -> -10 [] OTHER -> 0)
             + If100(Matches(w), 10) + If100(w.price # Untold /\ w.price <= 25, 10))
Overall(seen) ==
  LET unexpected == {i \in DOMAIN seen : ~Matches(seen[i])}
  IN IF unexpected = {} /\ seen # <<>> THEN "pass"
     ELSE IF unexpected # DOMAIN seen THEN "inconclusive" ELSE "fail"

-----------------------------------------------------------------------------
RecourseInit == ruled = Untold

Rule(by, ask, says) == ruled' = [by |-> by, ask |-> ask, says |-> says]

SettleByShape(r) == Rule("shape", r, [score |-> SchemaScore(r), released |-> ReleasedByShape(r)])
SettleByMeaning(r, llm) ==
  Rule("meaning", r, [score |-> Combined(r, llm), schema |-> SchemaScore(r), semantic |-> SemanticScore(r, llm),
                      released |-> ReleasedByMeaning(r, llm)])
ResolveDispute(c) == Rule("dispute", c, [strength |-> Likelihood(Strength(c)), files |-> AutoFileable(c)])
ArbitrateRefund(s) == Rule("refund", s, [eligible |-> Eligible(s), tier |-> ProtectionTier(s)])
ReconcileLedger(l) == Rule("ledger", l, [violations |-> Violations(l), open |-> Unreconciled(l)])
MonitorQuality(seen) ==
  LET watched == SubSeq(seen, 1, Smaller(10, Len(seen)))
  IN Rule("monitor", watched, [overall |-> Overall(watched), scores |-> [i \in DOMAIN watched |-> TargetScore(watched[i])]])

RecourseNext ==
  \/ \E r \in Responses : SettleByShape(r) \/ \E llm \in Judgements \cup {Untold} : SettleByMeaning(r, llm)
  \/ \E c \in Claims : ResolveDispute(c)
  \/ \E s \in Signals : ArbitrateRefund(s)
  \/ \E l \in Ledgers : ReconcileLedger(l)
  \/ \E w \in Watches : MonitorQuality(w)

RecourseSpec == RecourseInit /\ [][RecourseNext]_ruled

-----------------------------------------------------------------------------
(* The signals and the claim a client makes of a refused settle: they      *)
(* carry its score.                                                        *)
SignalsOf(score, generic) == [score |-> score, unreachable |-> FALSE, empty |-> FALSE, generic |-> generic,
                              paid |-> Untold, quoted |-> Untold]
ClaimOf(score) == [rail |-> "card", reason |-> "quality_mismatch", empty |-> FALSE, receipt |-> Untold, score |-> score,
                   schema |-> FALSE, charged |-> Untold, quoted |-> Untold, twin |-> FALSE]

(* A seller is not paid for nothing, and a buyer who is refused is not     *)
(* left alone.  At the default threshold a semantic settle never releases  *)
(* an empty body, whatever the LLM judge says of it, and no release rests  *)
(* on one of the two judges alone; what it refuses below 50 the arbiter    *)
(* refunds and a card dispute is strong enough to file.  A dispute never   *)
(* files itself on the buyer's word: only on a card, with evidence of its  *)
(* own reason.  The arbiter drops no sign of a failed delivery unless the  *)
(* response is also called generic, with a score of 70.  A watch that      *)
(* passes has no target below the middle of the scale.  The ledger's three *)
(* breakdowns each add up to what was spent, and one that breaks no cap    *)
(* has spent no more than the cap of every merchant it names.              *)
RecourseSound ==
  ruled # Untold =>
    LET ask == ruled.ask
        says == ruled.says
    IN CASE ruled.by = "meaning" ->
              /\ ask.threshold = Untold /\ says.released =>
                   ~ask.empty /\ ask.bytes # 0 /\ says.schema > 35 /\ says.semantic > 45
              /\ ~says.released /\ says.score < 50 =>
                   /\ \A generic \in BOOLEAN : Eligible(SignalsOf(says.score, generic))
                   /\ AutoFileable(ClaimOf(says.score))
         [] ruled.by = "shape" ->
              ask.threshold = Untold /\ says.released => ~MissesBody(ask) /\ ask.missing <= 1
         [] ruled.by = "dispute" ->
              says.files => /\ says.strength = "strong"
                            /\ ask.rail \notin {"base-x402", "solana-x402", "circle-nano", "stripe-mpp"}
                            /\ ask.empty \/ ask.score # Untold \/ Overcharged(ask) \/ ask.twin
         [] ruled.by = "monitor" ->
              says.overall = "pass" => \A i \in DOMAIN ask : says.scores[i] >= 50
         [] ruled.by = "refund" ->
              /\ (ask.unreachable \/ ask.empty) /\ ~says.eligible => ask.generic /\ says.tier = "full"
              /\ Mismatch(ask) => says.eligible
         [] ruled.by = "ledger" ->
              /\ \A field \in {"merchant", "category", "rail"} :
                   SumFunction(GroupBy(ask.records, field)) = SpendOf(ask.records)
              /\ says.violations = {} /\ ask.each # Untold =>
                   SpendOf(ask.records) <= ask.each * Cardinality(KeysOf(ask.records, "merchant"))
=============================================================================
