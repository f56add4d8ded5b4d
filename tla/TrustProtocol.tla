--------------------------- MODULE TrustProtocol ---------------------------
(***************************************************************************)
(* The trust protocol's own stores: passports, execution receipts,         *)
(* reasoning audits, the fraud graph and the trust history are each one    *)
(* row of protocol_kv (protocol/store.ts); credit-bureau has a row per     *)
(* agent.  A request is a list of steps, run in order, and                 *)
(* runFullTrustPipeline is the longest of them.  A step edits its store in *)
(* one go when the row is there, and reads the legacy file first when not. *)
(***************************************************************************)
EXTENDS Integers, Sequences, FiniteSets, SequencesExt

CONSTANTS
  Lines,        \* lanes a client may have a request in
  Asked,        \* requests: [does, agent, ...]
  Verified,     \* ERC-8004 scores runAgentVerify gives, 0 when it throws
  LegacyStores, \* data/protocol/*.json: store -> contents
  NoStore,      \* no request, no answer, and what the caller does not count
  Dids,         \* suffixes newDid can give
  KeepTrust,    \* trust scores kept (20)
  KeepCredit,   \* credit scores kept (50)
  Sybil,        \* peers a wallet may have before it looks like a cluster (8)
  MaxServed     \* bound: requests begun

VARIABLES
  stores,   \* stores whose row is there -> its contents
  credits,  \* agent -> credit scores, latest last
  lines,    \* per lane, the step it is at and what was learnt
  vouched,  \* <<store, id>> clients were given
  scanned,  \* agent -> scans answered
  raced,    \* stores that two requests looked for at once before they were there
  outcome,  \* the last pipeline's answer
  served

trustVars == <<stores, credits, lines, vouched, scanned, raced, outcome, served>>

ProtocolStores == {"passports", "receipts", "audits", "graph", "history"}
EmptyRows == [k \in {} |-> <<>>]
Seen == [erc |-> 0, trust |-> 0, fraud |-> 0, votes |-> 0, credit |-> 0, guard |-> FALSE, cents |-> 0]
Free == [ask |-> NoStore, at |-> 0, looking |-> FALSE, seen |-> Seen]
Agents == {a.agent : a \in Asked}
Bounded(lo, n, hi) == IF n < lo THEN lo ELSE IF n > hi THEN hi ELSE n
PutRow(f, k, x) == [j \in DOMAIN f \cup {k} |-> IF j = k THEN x ELSE f[j]]
Latest(s, n) == SubSeq(s, IF Len(s) > n THEN Len(s) - n + 1 ELSE 1, Len(s))

(* Requests are those of the routes; a pipeline tells the fraud engine of  *)
(* no hashes, and the legacy graph, if there is one, counts.               *)
ASSUME TrustAssumption ==
  /\ \A a \in Asked :
       /\ a.does \in {"scan", "passport", "receipt", "audit", "trust", "credit", "pipeline"}
       /\ a.does = "pipeline" => a.hashes = 0
       /\ a.cents \in Int /\ a.rate \in Int /\ a.points \in Int /\ a.disputes \in Int
       /\ a.settlements # NoStore => a.settlements \in Int
  /\ KeepCredit \in Nat
  /\ Verified \subseteq Nat
  /\ "graph" \in DOMAIN LegacyStores =>
       \A w \in DOMAIN LegacyStores["graph"] : LegacyStores["graph"][w].count \in Nat

-----------------------------------------------------------------------------
(* computeTrustScoreV2, in hundredths of a point: what the caller does not *)
(* say of disputes, delivery, uptime, SLA and counterparties is taken as   *)
(* good.                                                                   *)
DefaultPoints == 1050 + 950 + 900 + 200
TrustScore(erc, disputeRate, points) ==
  (Bounded(0, 45 * erc + (2500 - 200 * disputeRate) + points, 10000) + 50) \div 100
TrustTier(n) == IF n >= 85 THEN "PLATINUM" ELSE IF n >= 70 THEN "GOLD" ELSE IF n >= 50 THEN "SILVER"
                ELSE IF n >= 30 THEN "BRONZE" ELSE "UNVERIFIED"

(* runFraudScan of a request with its wallet, peers, hashes and cents. *)
NewWallet == [peers |-> {}, volume |-> 0, count |-> 0]
WalletIn(graph, a) == IF a \in DOMAIN graph THEN graph[a] ELSE NewWallet
ScannedWallet(w, ask) == [peers |-> w.peers \cup ask.peers, volume |-> w.volume + ask.cents, count |-> w.count + 1]
FraudScore(w, ask) ==
  Bounded(0, 8 + (IF Cardinality(w.peers) > Sybil /\ w.volume < 100 THEN 35 ELSE 0)
               + (IF ask.hashes >= 3 /\ ask.alike THEN 28 ELSE 0)
               + (IF ask.cents > 0 /\ ask.cents < 2 /\ ask.hashes > 5 THEN 22 ELSE 0), 100)

(* computeAgentCreditScore: settlements the caller does not count are the  *)
(* scores it was given before.                                             *)
CreditScore(trust, disputes, settlements) ==
  Bounded(300, 300 + 4 * trust + Bounded(0, 4 * settlements, 200) - Bounded(0, 25 * disputes, 150), 900)
CreditOf(a) == IF a \in DOMAIN credits THEN credits[a] ELSE <<>>
Band(n) == IF n >= 800 THEN "exceptional" ELSE IF n >= 700 THEN "good" ELSE IF n >= 600 THEN "fair"
           ELSE IF n >= 500 THEN "poor" ELSE "high_risk"

(* assessCompliance on a month of the estimated cost; the oracles vote on  *)
(* the trust score and a hash of the claims.                               *)
HighVolume(cents) == 30 * cents > 1000000
KycRequired(cents) == 30 * cents > 500000
ComplianceAllows(cents) == ~HighVolume(cents) \/ KycRequired(cents)
Votes(trust) == IF trust >= 40 THEN 0 .. 4 ELSE {0}
Quorum == 3

AllowsUnguarded(s) == /\ s.fraud < 60 /\ s.votes >= Quorum           \* mutant
                      /\ ComplianceAllows(s.cents) /\ s.credit >= 500
Allows(s) == /\ s.guard /\ s.fraud < 60 /\ s.votes >= Quorum
             /\ ComplianceAllows(s.cents) /\ s.credit >= 500

-----------------------------------------------------------------------------
(* The steps of each request. *)
Steps(does) ==
  CASE does = "scan"     -> <<"graph">>
    [] does = "passport" -> <<"passports">>
    [] does = "receipt"  -> <<"receipts">>
    [] does = "audit"    -> <<"audits">>
    [] does = "trust"    -> <<"verify", "history">>
    [] does = "credit"   -> <<"verify", "history", "credit">>
    [] does = "pipeline" -> <<"passports", "verify", "history", "graph", "oracle",
                              "verify", "history", "credit", "guard">>

StepOf(lane) == Steps(lane.ask.does)[lane.at]

TrustInit ==
  /\ stores \in {EmptyRows, [s \in ProtocolStores |-> EmptyRows]}
  /\ credits = EmptyRows /\ lines = [l \in Lines |-> Free]
  /\ vouched = {} /\ scanned = [a \in Agents |-> 0] /\ raced = {}
  /\ outcome = NoStore /\ served = 0

BeginRequest(l, ask) ==
  /\ lines[l] = Free /\ served < MaxServed /\ served' = served + 1
  /\ lines' = [lines EXCEPT ![l] = [ask |-> ask, at |-> 1, looking |-> FALSE,
                                    seen |-> [Seen EXCEPT !.cents = ask.cents]]]
  /\ UNCHANGED <<stores, credits, vouched, scanned, raced, outcome>>

(* A lane's step is done, having learnt this. *)
IsLast(lane) == lane.at = Len(Steps(lane.ask.does))
Onward(lane, seen) == [ask |-> lane.ask, at |-> lane.at + 1, looking |-> FALSE, seen |-> seen]
Learns(l, seen) ==
  lines' = [lines EXCEPT ![l] = IF IsLast(lines[l]) THEN Free ELSE Onward(lines[l], seen)]

(* Every answered id was written to rows read just before, or while the    *)
(* row was not there.  A receipt's id is a hash of the task and an audit's *)
(* of its leaves, so the same id is written again; a DID is never reused.  *)
Keyed(ask, s) == IF s = "receipts" THEN ask.task ELSE ask.root

(* Inside computeAgentCreditScore the dispute rate is twice the disputes   *)
(* told (none by a pipeline); elsewhere it is told, or 2.                  *)
ForCredit(lane) == lane.ask.does = "credit" \/ (lane.ask.does = "pipeline" /\ lane.at > 5)
DisputesTold(lane) == IF lane.ask.does = "credit" THEN lane.ask.disputes ELSE 0
TrustStep(lane) ==
  IF lane.ask.does = "trust" THEN TrustScore(lane.seen.erc, lane.ask.rate, lane.ask.points)
  ELSE TrustScore(lane.seen.erc, IF ForCredit(lane) THEN 2 * DisputesTold(lane) ELSE 2, DefaultPoints)

Writes(s, rows) == stores' = PutRow(stores, s, rows)
Edited(l, s, rows) ==
  LET lane == lines[l]
      a == lane.ask.agent
  IN \/ /\ s = "passports"
        /\ \E d \in Dids : /\ \A v \in vouched : v # <<s, d>>
                           /\ Writes(s, PutRow(rows, d, a))
                           /\ vouched' = vouched \cup {<<s, d>>}
        /\ Learns(l, lane.seen) /\ UNCHANGED scanned
     \/ /\ s \in {"receipts", "audits"}
        /\ Writes(s, PutRow(rows, Keyed(lane.ask, s), lane.ask.trace))
        /\ vouched' = vouched \cup {<<s, Keyed(lane.ask, s)>>}
        /\ Learns(l, lane.seen) /\ UNCHANGED scanned
     \/ /\ s = "graph"
        /\ LET w == ScannedWallet(WalletIn(rows, a), lane.ask)
           IN /\ Writes(s, PutRow(rows, a, w))
              /\ Learns(l, [lane.seen EXCEPT !.fraud = FraudScore(w, lane.ask)])
        /\ scanned' = [scanned EXCEPT ![a] = @ + 1] /\ UNCHANGED vouched
     \/ /\ s = "history"
        /\ LET t == TrustStep(lane)
               kept == IF a \in DOMAIN rows THEN rows[a] ELSE <<>>
           IN /\ Writes(s, PutRow(rows, a, Latest(Append(kept, t), KeepTrust)))
              /\ Learns(l, [lane.seen EXCEPT !.trust = t])
        /\ UNCHANGED <<vouched, scanned>>

(* readProtocolStore: the row, or a wait for the legacy file. *)
Lookers(s) == {l \in Lines : lines[l].looking /\ StepOf(lines[l]) = s}

UseStore(l, s) ==
  /\ ~lines[l].looking
  /\ IF s \in DOMAIN stores
     THEN Edited(l, s, stores[s]) /\ UNCHANGED raced
     ELSE /\ lines' = [lines EXCEPT ![l].looking = TRUE]
          /\ raced' = IF Lookers(s) = {} THEN raced ELSE raced \cup {s}
          /\ UNCHANGED <<stores, vouched, scanned>>
  /\ UNCHANGED <<credits, outcome, served>>

OldRows(s) == IF s \in DOMAIN LegacyStores THEN LegacyStores[s] ELSE EmptyRows
FoundFile(l, s) ==
  /\ lines[l].looking /\ Edited(l, s, OldRows(s))
  /\ UNCHANGED <<credits, raced, outcome, served>>

(* Steps that ask somebody else: the chain, and the guard's own checks. *)
VerifyAgent(l) ==
  /\ \E erc \in Verified : Learns(l, [lines[l].seen EXCEPT !.erc = erc])
  /\ UNCHANGED <<stores, credits, vouched, scanned, raced, outcome, served>>

AskOracles(l) ==
  /\ \E n \in Votes(lines[l].seen.trust) : Learns(l, [lines[l].seen EXCEPT !.votes = n])
  /\ UNCHANGED <<stores, credits, vouched, scanned, raced, outcome, served>>

ScoreCredit(l) ==
  LET lane == lines[l]
      a == lane.ask.agent
      past == CreditOf(a)
      settled == IF lane.ask.does = "credit" /\ lane.ask.settlements # NoStore THEN lane.ask.settlements ELSE Len(past)
      n == CreditScore(lane.seen.trust, DisputesTold(lane), settled)
  IN /\ credits' = PutRow(credits, a, Latest(Append(past, n), KeepCredit))
     /\ Learns(l, [lane.seen EXCEPT !.credit = n])
     /\ UNCHANGED <<stores, vouched, scanned, raced, outcome, served>>

AnswerPipeline(l) ==
  /\ \E ok \in BOOLEAN :
       LET s == [lines[l].seen EXCEPT !.guard = ok]
       IN outcome' = [seen |-> s, allowed |-> Allows(s)]
  /\ lines' = [lines EXCEPT ![l] = Free]
  /\ UNCHANGED <<stores, credits, vouched, scanned, raced, served>>

ProtocolRestart ==
  /\ \E l \in Lines : lines[l] # Free
  /\ lines' = [l \in Lines |-> Free]
  /\ UNCHANGED <<stores, credits, vouched, scanned, raced, outcome, served>>

RunStep(l) ==
  /\ lines[l].at # 0
  /\ LET step == StepOf(lines[l])
     IN \/ step \in ProtocolStores /\ (UseStore(l, step) \/ FoundFile(l, step))
        \/ step = "verify" /\ VerifyAgent(l)
        \/ step = "oracle" /\ AskOracles(l)
        \/ step = "credit" /\ ScoreCredit(l)
        \/ step = "guard" /\ AnswerPipeline(l)

TrustNext == \/ \E l \in Lines : (\E ask \in Asked : BeginRequest(l, ask)) \/ RunStep(l)
             \/ ProtocolRestart

TrustSpec == TrustInit /\ [][TrustNext]_trustVars

-----------------------------------------------------------------------------
(* A store forgets nothing it has vouched for, unless two requests were    *)
(* reading the legacy file at once before its row was there: until then    *)
(* every passport, receipt and audit a client was given verifies, and the  *)
(* fraud graph counts every scan, on top of the legacy file if that was    *)
(* read; after that it undercounts and never overcounts.  And of the five  *)
(* gates a full-trust answer names only two are ever shut: what a pipeline *)
(* leaves untold counts as good, so that an agent the chain does not know  *)
(* leaves as SILVER and never high risk; and whatever the fraud graph, the *)
(* history, the volume and the credit say, the pipeline allows exactly     *)
(* what the guard and three oracles allow.                                 *)
TrustKept ==
  /\ \A v \in vouched : v[1] \notin raced => v[1] \in DOMAIN stores /\ v[2] \in DOMAIN stores[v[1]]
  /\ "graph" \in DOMAIN stores =>
       \A a \in Agents : LET n == WalletIn(stores["graph"], a).count
                             old == WalletIn(OldRows("graph"), a).count
                         IN /\ n <= scanned[a] + old
                            /\ "graph" \notin raced => n \in {scanned[a], scanned[a] + old}
  /\ outcome # NoStore =>
       /\ TrustTier(outcome.seen.trust) \in {"SILVER", "GOLD", "PLATINUM"}
       /\ Band(outcome.seen.credit) # "high_risk"
       /\ outcome.allowed <=> outcome.seen.guard /\ outcome.seen.votes >= Quorum
=============================================================================
