--------------------------- MODULE SpendingProofs ---------------------------
(***************************************************************************)
(* Theorems of what is decided and booked before money moves, for any      *)
(* requests, wallets, days, mandates, notices and refreshes: SpendGuard,   *)
(* Facilitators, AlchemyPolicy, Mandates and Planning.                     *)
(***************************************************************************)
EXTENDS SpendGuard, Facilitators, AlchemyPolicy, Mandates, Planning, SumTheorems

(* SpendGuard: what an answer that says pay rests on, and the books.       *)

(* What a call carries while its checks are out, and what it was told.     *)
Carries(c) ==
    /\ check[c].at \in {"summed", "checking"} => check[c].ask \in Asks
    /\ check[c].at = "checking" =>
         /\ check[c].day \in Days
         /\ check[c].spendOk => spent[check[c].ask.agent][check[c].day] >= check[c].ask.cost

(* VerdictsEarned of one answer, apart from the ledger.                    *)
Clean(r, p) ==
    /\ r.url.outbound /\ r.url.https /\ r.url.patterns = 0
    /\ r.listed = "no"
    /\ p.status # 0
    /\ p.price # NoPrice => p.price <= r.perCall /\ p.price <= 2 * r.cost
    /\ r.wallet.form # "bad" /\ ~r.wallet.sentinel /\ r.wallet.patterns = 0

Earned(c) ==
    check[c].at = "answered" /\ check[c].allowed =>
        /\ check[c].ask \in Asks /\ check[c].day \in Days
        /\ Clean(check[c].ask, check[c].probe)
        /\ spent[check[c].ask.agent][check[c].day] >= check[c].ask.cost

GuardInv == /\ DOMAIN check = Checks /\ today \in Days
            /\ spent \in [Buyers -> [Days -> Nat]]
            /\ \A c \in Checks : Carries(c) /\ Earned(c)

-----------------------------------------------------------------------------
LEMMA AtLeastZero ==
  ASSUME NEW b \in Int
  PROVE  Max({0, b}) \in Int /\ Max({0, b}) >= b
<1>1. \E m \in {0, b} : \A y \in {0, b} : m >= y
  OBVIOUS
<1>2. Max({0, b}) \in {0, b} /\ \A y \in {0, b} : Max({0, b}) >= y
  BY <1>1 DEF Max
<1> QED  BY <1>2

LEMMA UrlClean ==
  ASSUME NEW r \in Asks, ~Threatened(r.url)
  PROVE  r.url.outbound /\ r.url.https /\ r.url.patterns = 0
<1> DEFINE u == r.url
<1>1. u.patterns \in Nat /\ u.tlds \in Nat
  BY AsksAssumption
<1>2. UrlScore(u) = 85
  BY DEF Threatened
<1>3. u.outbound
  BY <1>2 DEF UrlScore
<1>4. If(~u.https, 25) \in {0, 25} /\ If(u.long, 10) \in {0, 10}
  BY DEF If
<1>5. 85 - If(~u.https, 25) - 50 * u.patterns - 15 * u.tlds - If(u.long, 10) = 85
  BY <1>2, <1>3 DEF UrlScore
<1>6. If(~u.https, 25) = 0 /\ u.patterns = 0
  <2> DEFINE h == If(~u.https, 25)
             l == If(u.long, 10)
             n == u.patterns
             m == u.tlds
  <2>1. h \in {0, 25} /\ l \in {0, 10} /\ n \in Nat /\ m \in Nat /\ 85 - h - 50 * n - 15 * m - l = 85
    BY <1>1, <1>4, <1>5
  <2> HIDE DEF h, l, n, m
  <2>2. h = 0 /\ n = 0
    BY <2>1
  <2> QED  BY <2>2 DEF h, n
<1>7. u.https
  BY <1>6 DEF If
<1> QED  BY <1>3, <1>6, <1>7

LEMMA RiskClean ==
  ASSUME NEW r \in Asks, NEW p, p.status \in Nat, p.price \in Int \cup {NoPrice}, RiskBase(r, p) = 0
  PROVE  /\ r.listed = "no" /\ p.status # 0
         /\ p.price # NoPrice => p.price <= r.perCall /\ p.price <= 2 * r.cost
<1> DEFINE listed == If(r.listed # "no", 80)
           answer == CASE p.status = 0 -> 50
                       [] p.status = 200 -> 15
                       [] OTHER -> 0
           dear == If(p.price # NoPrice /\ p.price > r.perCall, 40)
           off == If(p.price # NoPrice /\ 2 * r.cost < p.price, 20)
<1>1. listed \in {0, 80} /\ dear \in {0, 40} /\ off \in {0, 20}
  BY DEF If
<1>2. answer \in {0, 15, 50} /\ (answer = 0 => p.status # 0)
  <2>1. CASE p.status = 0
    <3>1. answer = 50
      BY <2>1
    <3> QED  BY <3>1
  <2>2. CASE p.status = 200
    <3>1. answer = 15
      BY <2>2
    <3> QED  BY <3>1
  <2>3. CASE p.status # 0 /\ p.status # 200
    <3>1. answer = 0
      BY <2>3
    <3> QED  BY <2>3, <3>1
  <2> QED  BY <2>1, <2>2, <2>3
<1>3. listed + answer + dear + off = 0
  BY DEF RiskBase
<1>4. listed = 0 /\ answer = 0 /\ dear = 0 /\ off = 0
  <2> HIDE DEF listed, answer, dear, off
  <2> QED  BY <1>1, <1>2, <1>3
<1>5. r.listed = "no"
  BY <1>4 DEF If
<1>6. ~(p.price # NoPrice /\ p.price > r.perCall) /\ ~(p.price # NoPrice /\ 2 * r.cost < p.price)
  BY <1>4 DEF If
<1>7. r.cost \in Nat /\ r.perCall \in Int
  BY AsksAssumption
<1> QED  BY <1>2, <1>4, <1>5, <1>6, <1>7

LEMMA IdentityClean ==
  ASSUME NEW r \in Asks, NEW t, IdentityOk(r.wallet, t)
  PROVE  r.wallet.form # "bad" /\ ~r.wallet.sentinel /\ r.wallet.patterns = 0
<1> DEFINE w == r.wallet
           raw == 25 + 60 * w.patterns - If(Vouched(w, t), 15)
<1>1. w.patterns \in Nat /\ If(Vouched(w, t), 15) \in {0, 15}
  BY AsksAssumption DEF If
<1>2. raw \in Int
  BY <1>1
<1>3. IdentityRisk(w, t) \in Int
  <2>1. Max({0, raw}) \in Int
    <3> HIDE DEF raw
    <3> QED  BY <1>2, AtLeastZero
  <2> QED  BY <2>1 DEF IdentityRisk
<1>4. IdentityRisk(w, t) < 50
  <2>1. CASE IdentityRisk(w, t) >= 50
    <3>1. IdentityTier(w, t) = "restricted"
      <4>1. ~(IdentityRisk(w, t) < 25) /\ IdentityRisk(w, t) \notin 25 .. 49
        BY <1>3, <2>1
      <4> QED  BY <2>1, <4>1 DEF IdentityTier
    <3> QED  BY <3>1 DEF IdentityOk
  <2> QED  BY <1>3, <2>1
<1>5. ~(w.form = "bad" \/ w.sentinel)
  BY <1>4 DEF IdentityRisk
<1>6. IdentityRisk(w, t) = Max({0, raw})
  BY <1>5 DEF IdentityRisk
<1>7. raw < 50
  <2> HIDE DEF raw
  <2> QED  BY <1>2, <1>4, <1>6, AtLeastZero
<1>8. w.patterns = 0
  <2> DEFINE n == w.patterns
             m == If(Vouched(w, t), 15)
  <2>1. n \in Nat /\ m \in {0, 15} /\ 25 + 60 * n - m < 50
    BY <1>1, <1>7
  <2> HIDE DEF n, m
  <2>2. n = 0
    BY <2>1
  <2> QED  BY <2>2 DEF n
<1> QED  BY <1>5, <1>8

(* Whatever wraps the guard, an answer that says pay rests on the guard's. *)
LEMMA VerdictNeedsGuard ==
  ASSUME NEW r \in Asks, NEW guard, NEW p, NEW t, Verdict(r, guard, p, t)
  PROVE  guard
<1>1. r.kind \in Wrappers
  BY AsksAssumption
<1>2. CASE r.kind \in {"guard", "pipeline", "advisor"}
  BY <1>2 DEF Verdict
<1>3. CASE r.kind = "attest"
  BY <1>3 DEF Verdict
<1>4. CASE r.kind = "proxy"
  BY <1>4 DEF Verdict, ProxyAllows
<1>5. CASE r.kind = "trust2"
  BY <1>5 DEF Verdict
<1>6. CASE r.kind = "trust2proxy"
  BY <1>6 DEF Verdict, ProxyAllows
<1>7. CASE r.kind = "auth"
  BY <1>7 DEF Verdict
<1> QED  BY <1>1, <1>2, <1>3, <1>4, <1>5, <1>6, <1>7 DEF Wrappers

LEMMA GuardClean ==
  ASSUME NEW r \in Asks, NEW p \in Probes, NEW t, NEW spendOk,
         GuardAllows(r, spendOk, ProbeOf(r, p), t)
  PROVE  spendOk /\ Clean(r, ProbeOf(r, p))
<1>1. ProbeOf(r, p).status \in Nat /\ ProbeOf(r, p).price \in Int \cup {NoPrice}
  BY AsksAssumption DEF ProbeOf, SyntheticProbe
<1>2. /\ spendOk /\ IdentityOk(r.wallet, t)
      /\ RiskBase(r, ProbeOf(r, p)) = 0 /\ ~Threatened(r.url)
  BY DEF GuardAllows, RiskSafe
<1> QED  BY <1>1, <1>2, UrlClean, RiskClean, IdentityClean DEF Clean

-----------------------------------------------------------------------------
(* A step of one call: the ledger only grows, the other calls stay.        *)
LEMMA OneCall ==
  ASSUME GuardInv, NEW c \in Checks, NEW to, check' = [check EXCEPT ![c] = to],
         spent' \in [Buyers -> [Days -> Nat]], today' \in Days,
         \A a \in Buyers, d \in Days : spent'[a][d] >= spent[a][d],
         Carries(c)', Earned(c)'
  PROVE  GuardInv'
<1>1. \A d \in Checks \ {c} : check'[d] = check[d]
  BY DEF GuardInv
<1>2. ASSUME NEW d \in Checks \ {c} PROVE Carries(d)' /\ Earned(d)'
  <2>1. check'[d] = check[d] /\ Carries(d) /\ Earned(d)
    BY <1>1 DEF GuardInv
  <2>2. ASSUME NEW r \in Asks, NEW y \in Days, spent[r.agent][y] >= r.cost
        PROVE  spent'[r.agent][y] >= r.cost
    <3>1. r.agent \in Buyers /\ r.cost \in Nat
      BY AsksAssumption
    <3>2. spent[r.agent][y] \in Nat /\ spent'[r.agent][y] \in Nat
      BY <3>1 DEF GuardInv
    <3> QED  BY <2>2, <3>1, <3>2
  <2>3. Carries(d)'
    BY <2>1, <2>2 DEF Carries
  <2>4. Earned(d)'
    BY <2>1, <2>2 DEF Earned, Clean
  <2> QED  BY <2>3, <2>4
<1>3. DOMAIN check' = Checks
  BY DEF GuardInv
<1> QED  BY <1>2, <1>3 DEF GuardInv

LEMMA GuardStep == GuardInv /\ [GuardNext]_guardVars => GuardInv'
<1> SUFFICES ASSUME GuardInv, [GuardNext]_guardVars PROVE GuardInv'
  OBVIOUS
<1>0. /\ spent \in [Buyers -> [Days -> Nat]] /\ today \in Days
      /\ \A a \in Buyers, d \in Days : spent[a][d] >= spent[a][d]
  BY DEF GuardInv
<1>1. ASSUME NEW c \in Checks, NEW r \in Asks, Begin(c, r) PROVE GuardInv'
  <2> DEFINE to == [at |-> "summed", ask |-> r, sum |-> spent[r.agent][today]]
  <2>1. check' = [check EXCEPT ![c] = to] /\ UNCHANGED <<spent, today>>
    BY <1>1 DEF Begin
  <2>2. check'[c] = to
    BY <2>1 DEF GuardInv
  <2>3. Carries(c)' /\ Earned(c)'
    BY <2>2 DEF Carries, Earned
  <2> HIDE DEF to
  <2> QED  BY <1>0, <2>1, <2>3, OneCall
<1>2. ASSUME NEW c \in Checks, Record(c) PROVE GuardInv'
  <2> DEFINE r == check[c].ask
             ok == GovernorAllows(r, check[c].sum)
             to == [at |-> "checking", ask |-> r, day |-> today, spendOk |-> ok]
  <2>1. /\ check[c].at = "summed" /\ check' = [check EXCEPT ![c] = to]
        /\ spent' = IF ok THEN [spent EXCEPT ![r.agent][today] = @ + r.cost] ELSE spent
        /\ UNCHANGED today
    BY <1>2 DEF Record
  <2>2. r \in Asks /\ check'[c] = to
    BY <2>1 DEF GuardInv, Carries
  <2>3. r.agent \in Buyers /\ r.cost \in Nat
    BY <2>2, AsksAssumption
  <2> HIDE DEF r, ok
  <2>4. /\ spent' \in [Buyers -> [Days -> Nat]]
        /\ \A a \in Buyers, d \in Days : spent'[a][d] >= spent[a][d]
        /\ ok => spent'[r.agent][today] >= r.cost
    BY <1>0, <2>1, <2>3
  <2>5. Carries(c)' /\ Earned(c)'
    BY <1>0, <2>1, <2>2, <2>4 DEF Carries, Earned
  <2> HIDE DEF to
  <2> QED  BY <1>0, <2>1, <2>4, <2>5, OneCall
<1>3. ASSUME NEW c \in Checks, NEW p \in Probes, NEW t1 \in Trusts, NEW t2 \in Trusts,
             Judge(c, p, t1, t2)
      PROVE  GuardInv'
  <2> DEFINE r == check[c].ask
             guard == GuardAllows(r, check[c].spendOk, ProbeOf(r, p), t1)
             verdict == Verdict(r, guard, ProbeOf(r, p), t2)
             to == [at |-> "answered", ask |-> r, day |-> check[c].day,
                    spendOk |-> check[c].spendOk, probe |-> ProbeOf(r, p), trust |-> t1,
                    guard |-> guard, allowed |-> verdict]
  <2>1. ProbeOf(r, ProbeOf(r, p)) = ProbeOf(r, p)
    BY DEF ProbeOf
  <2>2. /\ check[c].at = "checking" /\ UNCHANGED <<spent, today>>
        /\ Told(c, r, guard, p, t1, verdict)
    BY <1>3 DEF Judge
  <2>3. check' = [check EXCEPT ![c] = to]
    BY <2>2 DEF Told
  <2>4. /\ check'[c] = to /\ r \in Asks /\ check[c].day \in Days
        /\ check[c].spendOk => spent[r.agent][check[c].day] >= r.cost
    BY <2>2, <2>3 DEF GuardInv, Carries
  <2>5. verdict => check[c].spendOk /\ Clean(r, ProbeOf(r, p))
    BY <2>4, VerdictNeedsGuard, GuardClean
  <2>6. /\ to.at = "answered" /\ to.ask = r /\ to.day = check[c].day
        /\ to.probe = ProbeOf(r, p) /\ to.allowed = verdict
    OBVIOUS
  <2> HIDE DEF to, verdict, guard, r
  <2>7. Carries(c)'
    BY <2>4, <2>6 DEF Carries
  <2>8. Earned(c)'
    BY <2>2, <2>4, <2>5, <2>6 DEF Earned, Clean
  <2> QED  BY <1>0, <2>2, <2>3, <2>7, <2>8, OneCall
<1>4. ASSUME NEW c \in Checks, TimeOut(c) \/ Envelope(c) PROVE GuardInv'
  <2>1. PICK to : /\ check' = [check EXCEPT ![c] = to] /\ to.at \in {"timedout", "simulated"}
                  /\ UNCHANGED <<spent, today>>
    BY <1>4 DEF TimeOut, Envelope
  <2>2. check'[c] = to
    BY <2>1 DEF GuardInv
  <2>3. Carries(c)' /\ Earned(c)'
    BY <2>1, <2>2 DEF Carries, Earned
  <2> QED  BY <1>0, <2>1, <2>3, OneCall
<1>5. CASE NextDay \/ UNCHANGED guardVars
  <2>1. UNCHANGED <<check, spent>> /\ today' \in Days
    BY <1>0, <1>5 DEF NextDay, guardVars
  <2> QED  BY <2>1 DEF GuardInv, Carries, Earned, Clean
<1> QED  BY <1>1, <1>2, <1>3, <1>4, <1>5 DEF GuardNext

(* VerdictsEarned: a check that says pay was earned on every ground at     *)
(* once, whichever wrapper of agents/pre-x402-guard.ts says it, whenever   *)
(* its answers came and whatever else was recorded meanwhile.              *)
THEOREM PayIsEarned == GuardSpec => []VerdictsEarned
<1>1. GuardInit => GuardInv
  <2> SUFFICES ASSUME GuardInit PROVE GuardInv
    OBVIOUS
  <2>1. check = [c \in Checks |-> Fresh] /\ today \in Days /\ spent \in [Buyers -> [Days -> Nat]]
    BY AsksAssumption DEF GuardInit
  <2> QED  BY <2>1 DEF GuardInv, Carries, Earned, Fresh
<1>2. GuardInv => VerdictsEarned
  BY DEF GuardInv, Earned, Clean, VerdictsEarned
<1> QED  BY <1>1, <1>2, GuardStep, PTL DEF GuardSpec

-----------------------------------------------------------------------------
(* The ledger and the calls recorded in it.  With governors apart the one  *)
(* between its sum and its insert has summed at least what is there.       *)
Costs(a, d) == [c \in Recorded(a, d) |-> check[c].ask.cost]
Booked(a, d) == spent[a][d] = SumFunction(Costs(a, d))
Capped(a, d) == apart /\ Recorded(a, d) # {} =>
                   \E c \in Recorded(a, d) : spent[a][d] <= check[c].ask.daily
AskKept(c) == check[c].at \in {"checking", "answered", "timedout"} => check[c].ask \in Asks
Governing(c) == apart /\ check[c].at = "summed" =>
                   /\ \A d \in Checks : check[d].at = "summed" => d = c
                   /\ check[c].sum \in Nat /\ check[c].sum >= spent[check[c].ask.agent][today]

BookInv == /\ \A a \in Buyers, d \in Days : Booked(a, d) /\ Capped(a, d)
           /\ \A a \in Buyers, d \in Days : d > today => spent[a][d] = 0
           /\ \A c \in Checks : AskKept(c) /\ Governing(c)

LEMMA RecordedFinite ==
  ASSUME BookInv, NEW a \in Buyers, NEW d \in Days
  PROVE  /\ IsFiniteSet(Recorded(a, d))
         /\ \A c \in Recorded(a, d) : check[c].ask.cost \in Nat
<1>1. IsFiniteSet(Recorded(a, d))
  BY AsksAssumption, FS_Subset DEF Recorded
<1>2. ASSUME NEW c \in Recorded(a, d) PROVE check[c].ask.cost \in Nat
  BY AsksAssumption DEF BookInv, AskKept, Recorded
<1> QED  BY <1>1, <1>2

(* A step that records nothing leaves the books as they are.               *)
LEMMA NothingRecorded ==
  ASSUME BookInv, UNCHANGED <<apart, spent>>,
         NEW a \in Buyers, NEW d \in Days,
         Recorded(a, d)' = Recorded(a, d),
         \A c \in Recorded(a, d) : check'[c].ask = check[c].ask
  PROVE  Booked(a, d)' /\ Capped(a, d)'
<1>1. Costs(a, d)' = Costs(a, d)
  BY DEF Costs
<1>2. Booked(a, d)'
  BY <1>1 DEF BookInv, Booked
<1>3. Capped(a, d)'
  BY DEF BookInv, Capped
<1> QED  BY <1>2, <1>3

(* A call that moves on between the checks, keeping what was recorded.     *)
LEMMA CallMoves ==
  ASSUME GuardInv, BookInv, NEW c \in Checks, NEW to, check' = [check EXCEPT ![c] = to],
         UNCHANGED <<apart, spent, today>>,
         to.at # "summed",
         \/ /\ check[c].at = "checking" /\ to.at \in {"answered", "timedout"}
            /\ to.ask = check[c].ask /\ to.day = check[c].day /\ to.spendOk = check[c].spendOk
         \/ check[c].at = "fresh" /\ to.at = "simulated"
  PROVE  BookInv'
<1>1. /\ DOMAIN check = Checks /\ check'[c] = to
      /\ \A d \in Checks \ {c} : check'[d] = check[d]
  BY DEF GuardInv
<1>2. ASSUME NEW a \in Buyers, NEW d \in Days PROVE Booked(a, d)' /\ Capped(a, d)'
  <2>1. Recorded(a, d)' = Recorded(a, d)
    BY <1>1 DEF Recorded
  <2>2. \A e \in Recorded(a, d) : check'[e].ask = check[e].ask
    BY <1>1 DEF Recorded
  <2> QED  BY <2>1, <2>2, NothingRecorded
<1>3. ASSUME NEW e \in Checks PROVE AskKept(e)' /\ Governing(e)'
  <2>1. AskKept(e)'
    BY <1>1 DEF BookInv, AskKept
  <2>2. Governing(e)'
    BY <1>1 DEF BookInv, Governing
  <2> QED  BY <2>1, <2>2
<1>4. \A a \in Buyers, d \in Days : d > today' => spent'[a][d] = 0
  BY DEF BookInv
<1> QED  BY <1>2, <1>3, <1>4 DEF BookInv

LEMMA BeginBooks ==
  ASSUME GuardInv, BookInv, NEW c \in Checks, NEW r \in Asks, Begin(c, r)
  PROVE  BookInv'
<1> DEFINE to == [at |-> "summed", ask |-> r, sum |-> spent[r.agent][today]]
<1>1. /\ check' = [check EXCEPT ![c] = to] /\ UNCHANGED <<apart, today, spent>>
      /\ check[c] = Fresh /\ (apart => \A d \in Checks : check[d].at # "summed")
  BY DEF Begin
<1>2. /\ DOMAIN check = Checks /\ check'[c] = to
      /\ \A d \in Checks \ {c} : check'[d] = check[d]
  BY <1>1 DEF GuardInv
<1>3. ASSUME NEW a \in Buyers, NEW d \in Days PROVE Booked(a, d)' /\ Capped(a, d)'
  <2>1. Recorded(a, d)' = Recorded(a, d)
    BY <1>1, <1>2 DEF Recorded, Fresh
  <2>2. \A e \in Recorded(a, d) : check'[e].ask = check[e].ask
    BY <1>1, <1>2 DEF Recorded, Fresh
  <2> QED  BY <1>1, <2>1, <2>2, NothingRecorded
<1>4. to.sum \in Nat /\ to.sum = spent[to.ask.agent][today]
  BY AsksAssumption DEF GuardInv
<1>5. ASSUME NEW e \in Checks PROVE AskKept(e)' /\ Governing(e)'
  <2>1. AskKept(e)'
    BY <1>1, <1>2 DEF BookInv, AskKept
  <2>2. apart /\ check'[e].at = "summed" => e = c
    BY <1>1, <1>2
  <2> HIDE DEF to
  <2>3. Governing(e)'
    BY <1>1, <1>2, <1>4, <2>2 DEF Governing
  <2> QED  BY <2>1, <2>3
<1>6. \A a \in Buyers, d \in Days : d > today' => spent'[a][d] = 0
  BY <1>1 DEF BookInv
<1> QED  BY <1>3, <1>5, <1>6 DEF BookInv

(* The governor's insert: one more call, or none, on one day.              *)
LEMMA RecordBooks ==
  ASSUME GuardInv, BookInv, NEW c \in Checks, Record(c)
  PROVE  BookInv'
<1> DEFINE r == check[c].ask
           ok == GovernorAllows(r, check[c].sum)
           to == [at |-> "checking", ask |-> r, day |-> today, spendOk |-> ok]
<1>1. /\ check[c].at = "summed" /\ check' = [check EXCEPT ![c] = to] /\ UNCHANGED <<apart, today>>
      /\ spent' = IF ok THEN [spent EXCEPT ![r.agent][today] = @ + r.cost] ELSE spent
  BY DEF Record
<1>2. /\ DOMAIN check = Checks /\ check'[c] = to
      /\ \A d \in Checks \ {c} : check'[d] = check[d]
      /\ r \in Asks /\ r.agent \in Buyers /\ r.cost \in Nat
      /\ spent \in [Buyers -> [Days -> Nat]] /\ today \in Days
  BY <1>1, AsksAssumption DEF GuardInv, Carries
<1>3. to.at = "checking" /\ to.ask = r /\ to.day = today /\ (to.spendOk <=> ok)
  OBVIOUS
<1> HIDE DEF to, r
<1>4. \A e \in Checks : AskKept(e)'
  BY <1>2, <1>3 DEF BookInv, AskKept
<1>5. ASSUME NEW e \in Checks PROVE Governing(e)'
  <2>1. apart /\ e # c => check[e].at # "summed"
    BY <1>1 DEF BookInv, Governing
  <2>2. apart => check'[e].at # "summed"
    BY <1>2, <1>3, <2>1
  <2> QED  BY <1>1, <2>2 DEF Governing
<1>6. ASSUME NEW a \in Buyers, NEW d \in Days, ~(ok /\ a = r.agent /\ d = today)
      PROVE  Booked(a, d)' /\ Capped(a, d)'
  <2>1. spent'[a][d] = spent[a][d]
    BY <1>1, <1>2, <1>6
  <2>2. Recorded(a, d)' = Recorded(a, d) /\ \A e \in Recorded(a, d) : check'[e] = check[e]
    BY <1>1, <1>2, <1>3, <1>6 DEF Recorded
  <2>3. Costs(a, d)' = Costs(a, d)
    BY <2>2 DEF Costs
  <2>4. Booked(a, d)'
    BY <2>1, <2>3 DEF BookInv, Booked
  <2>5. Capped(a, d)'
    BY <1>1, <2>1, <2>2 DEF BookInv, Capped
  <2> QED  BY <2>4, <2>5
<1>7. ASSUME NEW a \in Buyers, NEW d \in Days, ok, a = r.agent, d = today
      PROVE  Booked(a, d)' /\ Capped(a, d)'
  <2> DEFINE S == Recorded(a, d)
             f == Costs(a, d)
             g == Costs(a, d)'
  <2>1. spent'[a][d] = spent[a][d] + r.cost
    BY <1>1, <1>2, <1>7
  <2>2. Recorded(a, d)' = S \cup {c} /\ c \notin S
    BY <1>1, <1>2, <1>3, <1>7 DEF Recorded
  <2>3. IsFiniteSet(S) /\ \A e \in S : check[e].ask.cost \in Nat
    BY <1>2, RecordedFinite
  <2>4. /\ DOMAIN f = S /\ DOMAIN g = S \cup {c} /\ g[c] = r.cost
        /\ \A e \in S : f[e] \in Nat /\ g[e] = f[e]
    <3>1. \A e \in S : check'[e] = check[e]
      BY <1>2, <2>2 DEF Recorded
    <3> QED  BY <1>1, <1>2, <1>3, <2>2, <2>3, <3>1 DEF Costs
  <2> HIDE DEF f, g, S
  <2>5. SumFunctionOnSet(g, S \cup {c}) = g[c] + SumFunctionOnSet(g, S)
    BY <1>2, <2>2, <2>3, <2>4, SumPutsIn
  <2>6. SumFunctionOnSet(g, S) = SumFunctionOnSet(f, S)
    BY <2>3, <2>4, SumSame
  <2>7. SumFunctionOnSet(f, S) \in Nat
    BY <2>3, <2>4, SumIsNat
  <2>8. spent[a][d] = SumFunctionOnSet(f, S)
    BY <1>2, <2>4 DEF BookInv, Booked, SumFunction, f
  <2>9. spent'[a][d] = SumFunctionOnSet(g, S \cup {c})
    BY <1>2, <2>1, <2>4, <2>5, <2>6, <2>7, <2>8
  <2>10. Booked(a, d)'
    BY <1>1, <2>4, <2>9 DEF Booked, SumFunction, g
  <2>11. apart => spent'[a][d] <= check'[c].ask.daily
    <3> SUFFICES ASSUME apart PROVE spent'[a][d] <= r.daily
      BY <1>2, <1>3
    <3>1. check[c].sum \in Nat /\ check[c].sum >= spent[a][d]
      BY <1>1, <1>7 DEF BookInv, Governing, r
    <3>2. check[c].sum + r.cost <= r.daily /\ r.daily \in Int
      BY <1>2, <1>7, AsksAssumption DEF GovernorAllows, WithinCaps
    <3>3. spent[a][d] \in Nat
      BY <1>2
    <3> QED  BY <1>2, <2>1, <3>1, <3>2, <3>3
  <2>12. Capped(a, d)'
    BY <1>1, <2>2, <2>11 DEF Capped
  <2> QED  BY <2>10, <2>12
<1>8. \A a \in Buyers, d \in Days : d > today' => spent'[a][d] = 0
  <2> SUFFICES ASSUME NEW a \in Buyers, NEW d \in Days, d > today PROVE spent'[a][d] = spent[a][d]
    BY <1>1 DEF BookInv
  <2>1. d # today
    BY <1>2, AsksAssumption
  <2> QED  BY <1>1, <1>2, <2>1
<1>9. \A a \in Buyers, d \in Days : Booked(a, d)' /\ Capped(a, d)'
  BY <1>6, <1>7
<1> QED  BY <1>4, <1>5, <1>8, <1>9 DEF BookInv

LEMMA BookStep == GuardInv /\ BookInv /\ [GuardNext]_guardVars => BookInv'
<1> SUFFICES ASSUME GuardInv, BookInv, [GuardNext]_guardVars PROVE BookInv'
  OBVIOUS
<1>1. ASSUME NEW c \in Checks, NEW r \in Asks, Begin(c, r) PROVE BookInv'
  BY <1>1, BeginBooks
<1>2. ASSUME NEW c \in Checks, Record(c) PROVE BookInv'
  BY <1>2, RecordBooks
<1>3. ASSUME NEW c \in Checks, NEW p \in Probes, NEW t1 \in Trusts, NEW t2 \in Trusts,
             Judge(c, p, t1, t2)
      PROVE  BookInv'
  <2> DEFINE r == check[c].ask
             guard == GuardAllows(r, check[c].spendOk, ProbeOf(r, p), t1)
             to == [at |-> "answered", ask |-> r, day |-> check[c].day,
                    spendOk |-> check[c].spendOk, probe |-> ProbeOf(r, p), trust |-> t1,
                    guard |-> guard, allowed |-> Verdict(r, guard, ProbeOf(r, p), t2)]
  <2>1. /\ check' = [check EXCEPT ![c] = to] /\ to.at = "answered"
        /\ to.ask = check[c].ask /\ to.day = check[c].day /\ to.spendOk = check[c].spendOk
    BY <1>3 DEF Judge, Told
  <2>2. check[c].at = "checking" /\ UNCHANGED <<apart, today, spent>>
    BY <1>3 DEF Judge
  <2> QED  BY <2>1, <2>2, CallMoves
<1>4. ASSUME NEW c \in Checks, TimeOut(c) PROVE BookInv'
  <2> DEFINE to == [at |-> "timedout", ask |-> check[c].ask, day |-> check[c].day,
                    spendOk |-> check[c].spendOk]
  <2>1. /\ check' = [check EXCEPT ![c] = to] /\ to.at = "timedout"
        /\ to.ask = check[c].ask /\ to.day = check[c].day /\ to.spendOk = check[c].spendOk
    BY <1>4 DEF TimeOut
  <2>2. check[c].at = "checking" /\ UNCHANGED <<apart, today, spent>>
    BY <1>4 DEF TimeOut
  <2> HIDE DEF to
  <2> QED  BY <2>1, <2>2, CallMoves
<1>5. ASSUME NEW c \in Checks, Envelope(c) PROVE BookInv'
  <2> DEFINE to == [at |-> "simulated"]
  <2>1. check' = [check EXCEPT ![c] = to] /\ to.at = "simulated"
    BY <1>5 DEF Envelope
  <2>2. check[c].at = "fresh" /\ UNCHANGED <<apart, today, spent>>
    BY <1>5 DEF Envelope, Fresh
  <2> HIDE DEF to
  <2> QED  BY <2>1, <2>2, CallMoves
<1>6. CASE NextDay
  <2>1. UNCHANGED <<apart, spent, check>> /\ today' = today + 1 /\ today' \in Days /\ today \in Days
    BY <1>6 DEF NextDay, GuardInv
  <2>2. \A a \in Buyers, d \in Days : Booked(a, d)' /\ Capped(a, d)'
    BY <2>1 DEF BookInv, Booked, Capped, Costs, Recorded
  <2>3. today \in Nat /\ today' \in Nat /\ \A d \in Days : d > today' => d > today
    BY <2>1, AsksAssumption
  <2>4. \A a \in Buyers, d \in Days : d > today' => spent'[a][d] = 0
    BY <2>1, <2>3 DEF BookInv
  <2>5. ASSUME NEW c \in Checks PROVE AskKept(c)' /\ Governing(c)'
    <3>1. AskKept(c)'
      BY <2>1 DEF BookInv, AskKept
    <3>2. check[c].at = "summed" => check[c].ask.agent \in Buyers
      BY AsksAssumption DEF GuardInv, Carries
    <3>3. check[c].at = "summed" => spent[check[c].ask.agent][today'] = 0
      <4>1. today' > today
        BY <2>1, <2>3
      <4> QED  BY <2>1, <3>2, <4>1 DEF BookInv
    <3>4. Governing(c)'
      BY <2>1, <3>3 DEF BookInv, Governing
    <3> QED  BY <3>1, <3>4
  <2> QED  BY <2>2, <2>4, <2>5 DEF BookInv
<1>7. CASE UNCHANGED guardVars
  BY <1>7 DEF guardVars, BookInv, Booked, Capped, Costs, Recorded, AskKept, Governing
<1> QED  BY <1>1, <1>2, <1>3, <1>4, <1>5, <1>6, <1>7 DEF GuardNext

(* SpendWithinCaps: the ledger holds exactly what the governor let through *)
(* and, with governors apart, a day's spend stays within the largest daily *)
(* cap it was let through under (runSpendGovernor).                        *)
THEOREM SpendIsCapped == GuardSpec => []SpendWithinCaps
<1>1. GuardInit => GuardInv /\ BookInv
  <2> SUFFICES ASSUME GuardInit PROVE GuardInv /\ BookInv
    OBVIOUS
  <2>1. /\ check = [c \in Checks |-> Fresh] /\ spent = [a \in Buyers |-> [d \in Days |-> 0]]
        /\ today \in Days /\ spent \in [Buyers -> [Days -> Nat]]
    BY AsksAssumption DEF GuardInit
  <2>2. GuardInv
    BY <2>1 DEF GuardInv, Carries, Earned, Fresh
  <2>3. ASSUME NEW a \in Buyers, NEW d \in Days PROVE Booked(a, d) /\ Capped(a, d)
    <3>1. Recorded(a, d) = {}
      BY <2>1 DEF Recorded, Fresh
    <3>2. DOMAIN Costs(a, d) = {}
      BY <3>1 DEF Costs
    <3>3. SumFunction(Costs(a, d)) = 0
      BY <3>2, SumEmpty DEF SumFunction
    <3> QED  BY <2>1, <3>1, <3>3 DEF Booked, Capped
  <2>4. \A c \in Checks : AskKept(c) /\ Governing(c)
    BY <2>1 DEF AskKept, Governing, Fresh
  <2> QED  BY <2>1, <2>2, <2>3, <2>4 DEF BookInv
<1>2. BookInv => SpendWithinCaps
  BY DEF BookInv, Booked, Capped, Costs, SpendWithinCaps
<1>3. GuardInv /\ BookInv /\ [GuardNext]_guardVars => GuardInv' /\ BookInv'
  BY GuardStep, BookStep
<1> QED  BY <1>1, <1>2, <1>3, PTL DEF GuardSpec

-----------------------------------------------------------------------------
(* Facilitators.                                                           *)

Versioned == /\ oneRefresh \in BOOLEAN /\ writeFailed \in BOOLEAN
             /\ version \in Nat
             /\ newest \in NoExtras .. version
             /\ refresh \in [Refreshes -> {NotRunning, Asked, Refused} \cup 0 .. version]

(* Where refreshes do not overlap, the one under way is not older than     *)
(* what has been installed, and the file holds the newest until a write of *)
(* it fails.                                                               *)
Alone == oneRefresh => \A q, r \in Refreshes :
            refresh[q] # NotRunning /\ refresh[r] # NotRunning => q = r
UnderWay == oneRefresh => \A r \in Refreshes : refresh[r] >= 0 => refresh[r] >= newest
Filed == oneRefresh /\ ~writeFailed => cacheFile = newest

FacilitatorInv == Versioned /\ Alone /\ UnderWay /\ Filed /\ ExtrasNeverGoBack

LEMMA LargerOfTwo ==
  ASSUME NEW a \in Int, NEW b \in Int
  PROVE  Max({a, b}) = IF a >= b THEN a ELSE b
<1>1. \E m \in {a, b} : \A y \in {a, b} : m >= y
  OBVIOUS
<1>2. Max({a, b}) \in {a, b} /\ \A y \in {a, b} : Max({a, b}) >= y
  BY <1>1 DEF Max
<1> QED  BY <1>2

LEMMA FacilitatorStep ==
  FacilitatorInv /\ [FacilitatorNext]_facilitatorVars => FacilitatorInv'
<1> SUFFICES ASSUME FacilitatorInv, [FacilitatorNext]_facilitatorVars PROVE FacilitatorInv'
  OBVIOUS
<1> USE DEF NoExtras, NotRunning, Asked, Refused, Bundled
(* A refresh begins: nothing is installed.                                 *)
<1>1. ASSUME NEW r \in Refreshes, Begins(r),
             UNCHANGED <<oneRefresh, version, cacheFile, writeFailed, newest, extras>>
      PROVE  FacilitatorInv'
  <2>1. /\ refresh[r] = NotRunning /\ refresh' = [refresh EXCEPT ![r] = Asked]
        /\ oneRefresh => \A q \in Refreshes : refresh[q] = NotRunning
    BY <1>1 DEF Begins
  <2>2. Versioned'
    BY <1>1, <2>1 DEF FacilitatorInv, Versioned
  <2>3. Alone'
    BY <1>1, <2>1 DEF FacilitatorInv, Versioned, Alone
  <2>4. UnderWay'
    BY <1>1, <2>1 DEF FacilitatorInv, Versioned, UnderWay
  <2>5. Filed' /\ ExtrasNeverGoBack'
    BY <1>1 DEF FacilitatorInv, Filed, ExtrasNeverGoBack
  <2> QED  BY <2>2, <2>3, <2>4, <2>5 DEF FacilitatorInv
<1>2. ASSUME NEW r \in Refreshes, TimerRefresh(r) PROVE FacilitatorInv'
  BY <1>1, <1>2 DEF TimerRefresh, known
<1>3. ASSUME NEW r \in Refreshes, Ensure(r) PROVE FacilitatorInv'
  BY <1>1, <1>3 DEF Ensure
<1>4. ASSUME NEW r \in Refreshes, NEW up \in BOOLEAN, Reply(r, up) PROVE FacilitatorInv'
  <2> DEFINE answer == IF up THEN version ELSE Refused
  <2>1. /\ refresh[r] = Asked /\ refresh' = [refresh EXCEPT ![r] = answer]
        /\ UNCHANGED <<oneRefresh, version, cacheFile, writeFailed, newest, extras>>
    BY <1>4 DEF Reply, known
  <2>2. version \in Nat /\ newest \in NoExtras .. version /\ answer \in {Refused} \cup 0 .. version
    BY DEF FacilitatorInv, Versioned
  <2>3. Versioned'
    BY <2>1, <2>2 DEF FacilitatorInv, Versioned
  <2>4. Alone'
    BY <2>1, <2>2 DEF FacilitatorInv, Versioned, Alone
  <2>5. UnderWay'
    BY <2>1, <2>2 DEF FacilitatorInv, Versioned, UnderWay
  <2>6. Filed' /\ ExtrasNeverGoBack'
    BY <2>1 DEF FacilitatorInv, Filed, ExtrasNeverGoBack
  <2> QED  BY <2>3, <2>4, <2>5, <2>6 DEF FacilitatorInv
<1>5. ASSUME NEW r \in Refreshes, NEW written \in BOOLEAN, Install(r, written)
      PROVE  FacilitatorInv'
  <2> DEFINE v == refresh[r]
  <2>1. /\ v \in 0 .. MaxVersion
        /\ extras' = v
        /\ cacheFile' = IF written THEN v ELSE cacheFile
        /\ writeFailed' = (writeFailed \/ ~written)
        /\ newest' = Max({newest, v})
        /\ refresh' = [refresh EXCEPT ![r] = NotRunning]
        /\ UNCHANGED <<oneRefresh, version>>
    BY <1>5 DEF Install
  <2>2. v \in 0 .. version /\ newest \in NoExtras .. version /\ version \in Nat
    BY <2>1 DEF FacilitatorInv, Versioned
  <2>3. newest' = IF newest >= v THEN newest ELSE v
    BY <2>1, <2>2, LargerOfTwo
  <2>4. oneRefresh => newest' = v
    BY <2>2, <2>3 DEF FacilitatorInv, UnderWay
  <2>5. Versioned'
    <3>1. refresh' \in [Refreshes -> {NotRunning, Asked, Refused} \cup 0 .. version]
      BY <2>1, NotRunning \in {NotRunning, Asked, Refused} DEF FacilitatorInv, Versioned
    <3>2. writeFailed' \in BOOLEAN /\ newest' \in NoExtras .. version
      BY <2>1, <2>2, <2>3 DEF FacilitatorInv, Versioned
    <3> QED  BY <2>1, <3>1, <3>2 DEF FacilitatorInv, Versioned
  <2>6. Alone'
    BY <2>1 DEF FacilitatorInv, Versioned, Alone
  <2>7. UnderWay'
    <3> SUFFICES ASSUME oneRefresh, NEW q \in Refreshes PROVE refresh'[q] = NotRunning
      BY <2>1 DEF UnderWay
    <3>1. q # r => refresh[q] = NotRunning
      BY <2>2 DEF FacilitatorInv, Alone
    <3> QED  BY <2>1, <3>1 DEF FacilitatorInv, Versioned
  <2>8. Filed' /\ ExtrasNeverGoBack'
    <3>1. ~writeFailed' => written
      BY <2>1
    <3>2. ~writeFailed' => cacheFile' = v
      BY <2>1, <3>1
    <3>3. oneRefresh' => newest' = v
      BY <2>1, <2>4
    <3> HIDE DEF v
    <3>4. Filed'
      BY <3>2, <3>3 DEF Filed
    <3>5. ExtrasNeverGoBack'
      BY <2>1, <2>2, <3>3 DEF ExtrasNeverGoBack
    <3> QED  BY <3>4, <3>5
  <2> QED  BY <2>5, <2>6, <2>7, <2>8 DEF FacilitatorInv
<1>6. ASSUME NEW r \in Refreshes, InstallLastKnown(r) PROVE FacilitatorInv'
  <2>1. /\ refresh[r] = Refused /\ refresh' = [refresh EXCEPT ![r] = NotRunning]
        /\ extras' = LastKnown
        /\ UNCHANGED <<oneRefresh, version, cacheFile, writeFailed, newest>>
    BY <1>6 DEF InstallLastKnown
  <2>2. Versioned'
    BY <2>1 DEF FacilitatorInv, Versioned
  <2>3. Alone'
    BY <2>1 DEF FacilitatorInv, Versioned, Alone
  <2>4. UnderWay'
    BY <2>1 DEF FacilitatorInv, Versioned, UnderWay
  <2>5. Filed' /\ ExtrasNeverGoBack'
    BY <2>1 DEF FacilitatorInv, Versioned, Filed, ExtrasNeverGoBack, LastKnown
  <2> QED  BY <2>2, <2>3, <2>4, <2>5 DEF FacilitatorInv
<1>7. CASE Change
  BY <1>7 DEF Change, known, FacilitatorInv, Versioned, Alone, UnderWay, Filed, ExtrasNeverGoBack
<1>8. CASE Reboot
  <2>1. /\ extras' = NoExtras /\ refresh' = [r \in Refreshes |-> NotRunning]
        /\ UNCHANGED <<oneRefresh, version, cacheFile, writeFailed, newest>>
    BY <1>8 DEF Reboot
  <2> QED  BY <2>1 DEF FacilitatorInv, Versioned, Alone, UnderWay, Filed, ExtrasNeverGoBack
<1>9. ASSUME UNCHANGED <<oneRefresh, version, cacheFile, extras, refresh, writeFailed, newest>>
      PROVE  FacilitatorInv'
  BY <1>9 DEF FacilitatorInv, Versioned, Alone, UnderWay, Filed, ExtrasNeverGoBack
<1>10. CASE Pass \/ UNCHANGED facilitatorVars
  BY <1>9, <1>10 DEF Pass, known, facilitatorVars
<1>11. ASSUME NEW f \in {"dexter", "coinbase"}, NEW coinbaseUp \in BOOLEAN, Rank(f, coinbaseUp)
       PROVE  FacilitatorInv'
  BY <1>9, <1>11 DEF Rank, known
<1>12. \/ \E r \in Refreshes : TimerRefresh(r) \/ Ensure(r) \/ InstallLastKnown(r)
       \/ \E r \in Refreshes, up \in BOOLEAN : Reply(r, up)
       \/ \E r \in Refreshes, written \in BOOLEAN : Install(r, written)
       \/ \E f \in {"dexter", "coinbase"}, coinbaseUp \in BOOLEAN : Rank(f, coinbaseUp)
       \/ Change \/ Pass \/ Reboot \/ UNCHANGED facilitatorVars
  BY DEF FacilitatorNext
<1> QED
  BY <1>2, <1>3, <1>4, <1>5, <1>6, <1>7, <1>8, <1>10, <1>11, <1>12

(* ExtrasNeverGoBack: where refreshes do not overlap, the extras put into  *)
(* a 402 are never older than the newest answer the suite has been given,  *)
(* through outages, reboots and newer answers (lib/facilitator-extra.ts).  *)
THEOREM ExtrasAdvance == FacilitatorSpec => []ExtrasNeverGoBack
<1>1. FacilitatorInit => FacilitatorInv
  <2> SUFFICES ASSUME FacilitatorInit PROVE FacilitatorInv
    OBVIOUS
  <2> USE DEF NoExtras, NotRunning, Asked, Refused
  <2>1. Versioned
    <3>1. oneRefresh \in BOOLEAN
      BY DEF FacilitatorInit
    <3>2. writeFailed \in BOOLEAN
      BY DEF FacilitatorInit
    <3>3. version = 1 /\ newest = -1 /\ refresh = [r \in Refreshes |-> -4]
      BY DEF FacilitatorInit
    <3> QED  BY <3>1, <3>2, <3>3 DEF Versioned
  <2>2. Alone /\ UnderWay /\ Filed /\ ExtrasNeverGoBack
    BY DEF FacilitatorInit, Alone, UnderWay, Filed, ExtrasNeverGoBack
  <2> QED  BY <2>1, <2>2 DEF FacilitatorInv
<1>2. FacilitatorInv => ExtrasNeverGoBack
  BY DEF FacilitatorInv
<1> QED  BY <1>1, <1>2, FacilitatorStep, PTL DEF FacilitatorSpec

-----------------------------------------------------------------------------
(* Mandates.                                                               *)

(* Days are counted, and every row runs out on some day.                   *)
Dated == day \in Int /\ \A i \in DOMAIN mandates : mandates[i].until \in Int

MandateInv == Dated /\ AllowedWithinMandate

LEMMA InsertKeepsDates ==
  ASSUME Dated, NEW i, NEW m, m.until \in Int, mandates' = Insert(i, m), UNCHANGED day
  PROVE  Dated'
  BY DEF Dated, Insert

LEMMA MigratedDated ==
  ASSUME Dated, mandates' = Migrated, UNCHANGED day
  PROVE  Dated'
  BY TermsAssumption DEF Dated, Migrated

(* A trace that is allowed has no call that is blocked or affiliated.      *)
LEMMA AllowedTrace ==
  ASSUME NEW trace, NEW scope, NEW drift, TierOf(trace, scope, drift) = "allow", NEW k \in DOMAIN trace
  PROVE  /\ WithinTerms(trace[k], scope)
         /\ ~trace[k].suspicious /\ ~trace[k].tampered /\ ~trace[k].affiliate
<1>1. \A j \in DOMAIN trace : ~CallBlocked(trace[j], scope)
  <2> SUFFICES ASSUME \E j \in DOMAIN trace : CallBlocked(trace[j], scope) PROVE FALSE
    OBVIOUS
  <2>1. TierOf(trace, scope, drift) = "block"
    BY DEF TierOf
  <2> QED  BY <2>1
<1>2. TierOf(trace, scope, drift) =
        IF drift \/ \E j \in DOMAIN trace : trace[j].affiliate THEN "step_up" ELSE "allow"
  BY <1>1 DEF TierOf
<1>3. \A j \in DOMAIN trace : ~trace[j].affiliate
  BY <1>2
<1> QED  BY <1>1, <1>3 DEF CallBlocked

(* What an answer says holds under the rows it was given by.               *)
LEMMA RulingStands ==
  ASSUME Dated', NEW how, NEW i, NEW p, NEW trace, NEW drift, NEW allowed, UNCHANGED day,
         ruling' = Ruling(how, i, p, trace, drift, allowed),
         allowed => LET m == mandates'[i] IN
            /\ i \in DOMAIN mandates' /\ m.genuine
            /\ how = "verify" \/ p # Unset => ~Expired(m)
            /\ p # Unset => WithinTerms(p, m.scope)
            /\ \A k \in DOMAIN trace :
                  /\ WithinTerms(trace[k], m.scope)
                  /\ ~trace[k].suspicious /\ ~trace[k].tampered /\ ~trace[k].affiliate
  PROVE  AllowedWithinMandate'
<1> SUFFICES ASSUME allowed PROVE AllowedWithinMandate'
  BY DEF AllowedWithinMandate, Ruling
<1> DEFINE m == mandates'[i]
<1>1. i \in DOMAIN mandates' /\ m.until \in Int /\ day \in Int
  BY DEF Dated
<1>2. how = "verify" \/ p # Unset => day <= m.until
  BY <1>1 DEF Expired
<1>3. /\ ruling'.mandate = i /\ ruling'.how = how /\ ruling'.proposed = p
      /\ ruling'.trace = trace /\ ruling'.day = day
  BY DEF Ruling
<1>4. /\ m.genuine
      /\ ruling'.how = "verify" \/ ruling'.proposed # Unset => ruling'.day <= m.until
      /\ ruling'.proposed # Unset => WithinTerms(ruling'.proposed, m.scope)
      /\ \A k \in DOMAIN ruling'.trace :
            /\ WithinTerms(ruling'.trace[k], m.scope)
            /\ ~ruling'.trace[k].suspicious /\ ~ruling'.trace[k].tampered /\ ~ruling'.trace[k].affiliate
  BY <1>2, <1>3
<1>5. m = mandates'[ruling'.mandate]
  BY <1>3
<1> QED  BY <1>4, <1>5 DEF AllowedWithinMandate, WithinTerms, In

LEMMA MandateStep == MandateInv /\ [MandateNext]_mandateVars => MandateInv'
<1> SUFFICES ASSUME MandateInv, [MandateNext]_mandateVars PROVE MandateInv'
  OBVIOUS
<1>0. Dated /\ (ruling' = Unset => AllowedWithinMandate')
  BY DEF MandateInv, AllowedWithinMandate
<1>1. ASSUME NEW i \in Mandate, NEW scope \in Scopes, NEW term \in Terms, Compile(i, scope, term)
      PROVE  MandateInv'
  <2>1. day + term \in Int
    BY <1>0, TermsAssumption DEF Dated
  <2>2. Dated'
    BY <1>0, <1>1, <2>1, InsertKeepsDates DEF Compile
  <2> QED  BY <1>0, <1>1, <2>2 DEF MandateInv, Compile
<1>2. ASSUME NEW scope \in Scopes, SeedProbe(scope) PROVE MandateInv'
  <2>1. ProbeRow(scope).until \in Int
    BY <1>0, TermsAssumption DEF Dated, ProbeRow
  <2>2. Dated'
    BY <1>0, <1>2, <2>1, InsertKeepsDates DEF SeedProbe
  <2> QED  BY <1>0, <1>2, <2>2 DEF MandateInv, SeedProbe
<1>3. ASSUME NEW i, NEW p \in Proposals, Verify(i, p) PROVE MandateInv'
  <2>1. Dated' /\ mandates' = Migrated
    BY <1>0, <1>3, MigratedDated DEF Verify
  <2> DEFINE allowed == Genuine(Migrated, i) /\ WithinScope(Migrated[i], p)
  <2>2. ruling' = Ruling("verify", i, p, <<>>, FALSE, allowed) /\ UNCHANGED day
    BY <1>3 DEF Verify
  <2>3. allowed => /\ i \in DOMAIN Migrated /\ Migrated[i].genuine /\ ~Expired(Migrated[i])
                   /\ p # Unset => WithinTerms(p, Migrated[i].scope)
    BY DEF Genuine, WithinScope
  <2> DEFINE nothing == <<>>
  <2>4. \A k \in DOMAIN nothing : FALSE
    OBVIOUS
  <2>5. ruling' = Ruling("verify", i, p, nothing, FALSE, allowed)
    BY <2>2
  <2> HIDE DEF allowed, nothing
  <2>6. AllowedWithinMandate'
    BY <2>1, <2>2, <2>3, <2>4, <2>5, RulingStands
  <2> QED  BY <2>1, <2>6 DEF MandateInv
<1>4. ASSUME NEW i, NEW p \in Proposals, NEW trace \in Traces, NEW drift \in BOOLEAN,
             Diff(i, p, trace, drift)
      PROVE  MandateInv'
  <2> DEFINE blocked == ~Genuine(Migrated, i) \/ (p # Unset /\ ~WithinScope(Migrated[i], p))
             allowed == ~blocked /\ TierOf(trace, Migrated[i].scope, drift) = "allow"
  <2>1. Dated' /\ mandates' = Migrated
    BY <1>0, <1>4, MigratedDated DEF Diff
  <2>2. ruling' = Ruling("diff", i, p, trace, drift, allowed) /\ UNCHANGED day
    BY <1>4 DEF Diff
  <2>3. allowed => /\ i \in DOMAIN Migrated /\ Migrated[i].genuine
                   /\ p # Unset => ~Expired(Migrated[i]) /\ WithinTerms(p, Migrated[i].scope)
    BY DEF Genuine, WithinScope
  <2>4. allowed => \A k \in DOMAIN trace :
              /\ WithinTerms(trace[k], Migrated[i].scope)
              /\ ~trace[k].suspicious /\ ~trace[k].tampered /\ ~trace[k].affiliate
    BY AllowedTrace
  <2> HIDE DEF allowed
  <2>5. AllowedWithinMandate'
    BY <2>1, <2>2, <2>3, <2>4, RulingStands
  <2> QED  BY <2>1, <2>5 DEF MandateInv
<1>5. CASE DayPasses
  BY <1>0, <1>5 DEF MandateInv, DayPasses, Dated
<1>6. CASE UNCHANGED mandateVars
  BY <1>6 DEF MandateInv, mandateVars, Dated, AllowedWithinMandate, WithinTerms, In
<1> QED  BY <1>1, <1>2, <1>3, <1>4, <1>5, <1>6 DEF MandateNext

(* AllowedWithinMandate: a payment that verify or diff lets through was    *)
(* proposed under a genuine mandate of that day, within its scope, and so  *)
(* was every call of its trace (agents/mandate-diff.ts, lib/mandate.ts).   *)
THEOREM PaymentsWithinMandate == MandateSpec => []AllowedWithinMandate
<1>1. MandateInit => MandateInv
  BY DEF MandateInit, MandateInv, Dated, AllowedWithinMandate
<1>2. MandateInv => AllowedWithinMandate
  BY DEF MandateInv
<1> QED  BY <1>1, <1>2, MandateStep, PTL DEF MandateSpec

-----------------------------------------------------------------------------
(* AlchemyPolicy: the simulation shield, then the notifications.           *)

(* A shield that asks: nothing but the first legs and the fallback, and a  *)
(* chain that is not traced has its eth_call from the start.               *)
LegStates == {"unused", "asked", "down", "tracer", "error", "result"}
Asking == [at : {"asking"}, tx : Transactions, tries : [Legs -> Int], leg : [Legs -> LegStates]]
CallUnlessTraced(leg) == leg["exec"] = "unused" => leg["call"] # "unused"

SafelyTold(a) == a.at = "told" /\ (a.safe =>
    /\ \E l \in {"exec", "call"} : a.leg[l] = "result"
    /\ ~a.tx.reverts
    /\ Cardinality(a.tx.vectors) <= 1
    /\ a.leg["changes"] = "result" => a.tx.outflow <= 100
    /\ a.grade = "A")

Shielding(a) == \/ a = Idling
                \/ a \in Asking /\ CallUnlessTraced(a.leg)
                \/ SafelyTold(a)

ShieldInv == /\ DOMAIN shield = Shields
             /\ \A s \in Shields : Shielding(shield[s])

LEMMA OneShield ==
  ASSUME ShieldInv, NEW s \in Shields, NEW to, shield' = [shield EXCEPT ![s] = to], Shielding(to)
  PROVE  ShieldInv'
  BY DEF ShieldInv, Shielding, SafelyTold, Idling, CallUnlessTraced

LEMMA SmallerOfTwo ==
  ASSUME NEW a \in Int, NEW b \in Int
  PROVE  Min({a, b}) = IF a <= b THEN a ELSE b
<1>1. \E m \in {a, b} : \A y \in {a, b} : m <= y
  OBVIOUS
<1>2. Min({a, b}) \in {a, b} /\ \A y \in {a, b} : Min({a, b}) <= y
  BY <1>1 DEF Min
<1> QED  BY <1>2

(* The sandbox lets one vector through and never two.                      *)
LEMMA SandboxBound ==
  ASSUME NEW v, IsFiniteSet(v), SandboxAllows(v)
  PROVE  Cardinality(v) <= 1
<1> DEFINE n == Cardinality(v)
<1>1. n \in Nat
  BY FS_CardinalityType
<1>2. Min({100, 35 * n}) < 50
  BY DEF SandboxAllows, ThreatScore
<1> HIDE DEF n
<1>3. Min({100, 35 * n}) = IF 100 <= 35 * n THEN 100 ELSE 35 * n
  BY <1>1, SmallerOfTwo
<1>4. n <= 1
  BY <1>1, <1>2, <1>3
<1> QED  BY <1>4 DEF n

LEMMA ConcludeIsSafe ==
  ASSUME ShieldInv, NEW s \in Shields, ConcludeShield(s)
  PROVE  ShieldInv'
<1> DEFINE a == shield[s]
           dangers == IF Failed(s) THEN {"simulation_failed"} ELSE Dangers(s)
           to == [at |-> "told", tx |-> a.tx, leg |-> a.leg, safe |-> dangers = {},
                  grade |-> ShieldGrade(dangers)]
<1>1. /\ a.at = "asking" /\ Pending(s) = {}
      /\ SimulationFailed(s) \/ ~NeedsCall(s)
      /\ shield' = [shield EXCEPT ![s] = to]
  BY DEF ConcludeShield
<1>2. a \in Asking /\ CallUnlessTraced(a.leg)
  BY <1>1 DEF ShieldInv, Shielding, SafelyTold, Idling
<1>3. ASSUME dangers = {} PROVE SafelyTold(to)
  <2>1. ~Failed(s) /\ Dangers(s) = {}
    BY <1>3
  <2>2. ~Reverted(s) /\ ~(OutflowSeen(s) > 100) /\ SandboxAllows(a.tx.vectors)
    BY <2>1 DEF Dangers
  <2>3. /\ a.leg["exec"] \in {"unused", "tracer", "result"}
        /\ a.leg["call"] \in {"unused", "tracer", "error", "result"}
    BY <1>1, <1>2, <2>1 DEF Pending, Failed, SimulationFailed, Asking, Legs, LegStates
  <2>4. a.leg["call"] \in {"unused", "result"}
    BY <2>2, <2>3 DEF Reverted
  <2>5. ~NeedsCall(s)
    BY <1>1, <2>1 DEF Failed
  <2>6. \E l \in {"exec", "call"} : a.leg[l] = "result"
    BY <1>2, <2>3, <2>4, <2>5 DEF NeedsCall, CallUnlessTraced
  <2>7. ~a.tx.reverts
    BY <2>2, <2>6 DEF Reverted
  <2>8. a.tx \in Transactions
    BY <1>2 DEF Asking
  <2>9. Cardinality(a.tx.vectors) <= 1
    BY <2>2, <2>8, AlchemyAssumption, SandboxBound
  <2>10. a.leg["changes"] = "result" => a.tx.outflow <= 100
    BY <2>2, <2>8, AlchemyAssumption DEF OutflowSeen
  <2>11. ShieldGrade({}) = "A"
    <3>1. {} # {"high_value_outflow"} /\ {} # {"simulation_failed"}
      OBVIOUS
    <3> QED  BY <3>1 DEF ShieldGrade
  <2>12. to.grade = "A" /\ to.leg = a.leg /\ to.tx = a.tx /\ to.at = "told"
    BY <1>3, <2>11
  <2> HIDE DEF to, dangers
  <2> QED  BY <2>6, <2>7, <2>9, <2>10, <2>12 DEF SafelyTold
<1>4. SafelyTold(to)
  <2>1. to.at = "told" /\ (to.safe <=> dangers = {})
    OBVIOUS
  <2> HIDE DEF to, dangers
  <2> QED  BY <1>3, <2>1 DEF SafelyTold
<1> HIDE DEF to
<1> QED  BY <1>1, <1>4, OneShield DEF Shielding

LEMMA ShieldStep == ShieldInv /\ [AlchemyNext]_alchemyVars => ShieldInv'
<1> SUFFICES ASSUME ShieldInv, [AlchemyNext]_alchemyVars PROVE ShieldInv'
  OBVIOUS
<1>1. ASSUME NEW s \in Shields, NEW tx \in Transactions, Shield(s, tx) PROVE ShieldInv'
  <2> DEFINE to == [at |-> "asking", tx |-> tx, tries |-> [l \in Legs |-> 1],
                    leg |-> [l \in Legs |-> IF l \in FirstLegs(tx) THEN "asked" ELSE "unused"]]
  <2>1. shield' = [shield EXCEPT ![s] = to]
    BY <1>1 DEF Shield
  <2>2. to \in Asking
    BY DEF Asking, LegStates
  <2>3. CallUnlessTraced(to.leg)
    BY DEF CallUnlessTraced, Legs, FirstLegs
  <2> HIDE DEF to
  <2> QED  BY <2>1, <2>2, <2>3, OneShield DEF Shielding
<1>2. ASSUME NEW s \in Shields, NEW l \in Legs,
             NEW answer \in {"throttled", "down", "tracer", "error", "result"}, RpcReply(s, l, answer)
      PROVE  ShieldInv'
  <2>1. /\ shield[s].at = "asking" /\ shield[s].leg[l] = "asked" /\ s \in DOMAIN shield
        /\ DOMAIN shield = Shields
    BY <1>2 DEF RpcReply, Pending, ShieldInv
  <2>2. shield[s] \in Asking /\ CallUnlessTraced(shield[s].leg)
    BY <2>1 DEF ShieldInv, Shielding, SafelyTold, Idling
  <2>3. CASE answer = "throttled" /\ shield[s].tries[l] <= MaxRetries
    <3> DEFINE to == [shield[s] EXCEPT !.tries[l] = @ + 1]
    <3>1. shield' = [shield EXCEPT ![s] = to]
      BY <1>2, <2>3 DEF RpcReply
    <3>2. to \in Asking /\ to.leg = shield[s].leg
      BY <2>2 DEF Asking
    <3> HIDE DEF to
    <3> QED  BY <2>2, <3>1, <3>2, OneShield DEF Shielding
  <2>4. CASE ~(answer = "throttled" /\ shield[s].tries[l] <= MaxRetries)
    <3> DEFINE v == IF answer = "throttled" THEN "down" ELSE answer
               to == [shield[s] EXCEPT !.leg[l] = v]
    <3>1. shield' = [shield EXCEPT ![s] = to]
      BY <1>2, <2>4 DEF RpcReply
    <3>2. v \in LegStates /\ v # "unused"
      BY DEF LegStates
    <3> HIDE DEF v
    <3>3. to \in Asking /\ to.leg = [shield[s].leg EXCEPT ![l] = v]
      BY <2>2, <3>2 DEF Asking
    <3>4. CallUnlessTraced(to.leg)
      BY <2>1, <2>2, <3>2, <3>3 DEF CallUnlessTraced, Asking, Legs
    <3> HIDE DEF to
    <3> QED  BY <3>1, <3>3, <3>4, OneShield DEF Shielding
  <2> QED  BY <2>3, <2>4
<1>3. ASSUME NEW s \in Shields, FallBack(s) PROVE ShieldInv'
  <2> DEFINE to == [shield[s] EXCEPT !.leg["call"] = "asked"]
  <2>1. shield[s].at = "asking" /\ shield' = [shield EXCEPT ![s] = to]
    BY <1>3 DEF FallBack
  <2>2. shield[s] \in Asking
    BY <2>1 DEF ShieldInv, Shielding, SafelyTold, Idling
  <2>3. to \in Asking /\ to.leg = [shield[s].leg EXCEPT !["call"] = "asked"]
    BY <2>2 DEF Asking, LegStates
  <2>4. CallUnlessTraced(to.leg)
    BY <2>2, <2>3 DEF CallUnlessTraced, Asking, Legs
  <2> HIDE DEF to
  <2> QED  BY <2>1, <2>3, <2>4, OneShield DEF Shielding
<1>4. ASSUME NEW s \in Shields, ConcludeShield(s) PROVE ShieldInv'
  BY <1>4, ConcludeIsSafe
<1>5. CASE NotifyNext \/ (\E o \in Operations : Sponsor(o)) \/ UNCHANGED alchemyVars
  <2>1. UNCHANGED shield
    BY <1>5 DEF NotifyNext, Sponsor, alchemyVars, Deliver, Audit, AuditThrows, AnswerDelivery
  <2> QED  BY <2>1 DEF ShieldInv, Shielding, SafelyTold, Idling, CallUnlessTraced
<1> QED  BY <1>1, <1>2, <1>3, <1>4, <1>5 DEF AlchemyNext, ShieldNext

(* SafeMeansExecuted: the simulation shield calls a transaction safe only  *)
(* when some node executed it without a revert, whatever was throttled,    *)
(* untraceable or down on the way (agents/alchemy-policy.ts).              *)
THEOREM SafeOnlyWhenExecuted == AlchemySpec => []SafeMeansExecuted
<1>1. AlchemyInit => ShieldInv
  BY DEF AlchemyInit, ShieldInv, Shielding
<1>2. ShieldInv => SafeMeansExecuted
  BY DEF ShieldInv, Shielding, SafelyTold, SafeMeansExecuted, Idling, Asking
<1> QED  BY <1>1, <1>2, ShieldStep, PTL DEF AlchemySpec

-----------------------------------------------------------------------------
(* What a delivery under way has counted of the settled transfers.         *)
Counted(a) == IF a.at = "auditing"
              THEN SumFunctionOnSet(SettledAmounts(a.notice), 1 .. (a.next - 1))
              ELSE 0
CountedBy == [d \in Deliveries |-> Counted(delivery[d])]
Acknowledged == [n \in acknowledged |-> SumFunction(SettledAmounts(n))]

Auditing(a) == a.at = "auditing" =>
    /\ a \in [at : {"auditing"}, notice : DOMAIN Notices, next : Nat]
    /\ a.next \in 1 .. (Len(Notices[a.notice]) + 1)

NotifyInv == /\ DOMAIN delivery = Deliveries
             /\ \A d \in Deliveries : Auditing(delivery[d])
             /\ IsFiniteSet(acknowledged) /\ acknowledged \subseteq DOMAIN Notices
             /\ notified \in Nat
             /\ notified >= SumFunction(Acknowledged) + SumFunction(CountedBy)

LEMMA AmountsAreNat ==
  ASSUME NEW n \in DOMAIN Notices
  PROVE  /\ DOMAIN SettledAmounts(n) = 1 .. Len(Notices[n])
         /\ IsFiniteSet(1 .. Len(Notices[n])) /\ Len(Notices[n]) \in Nat
         /\ \A i \in 1 .. Len(Notices[n]) : SettledAmounts(n)[i] \in Nat
<1>1. Len(Notices[n]) \in Nat /\ DOMAIN Notices[n] = 1 .. Len(Notices[n])
  BY AlchemyAssumption
<1>2. IsFiniteSet(1 .. Len(Notices[n]))
  BY <1>1, FS_Interval
<1> QED  BY <1>1, <1>2, AlchemyAssumption DEF SettledAmounts

LEMMA CountedIsNat ==
  ASSUME NEW a, Auditing(a)
  PROVE  Counted(a) \in Nat
<1>1. CASE a.at = "auditing"
  <2> DEFINE n == a.notice
             k == a.next - 1
             m == Len(Notices[n])
  <2>1. n \in DOMAIN Notices /\ m \in Nat /\ k \in 0 .. m
    BY <1>1, AlchemyAssumption DEF Auditing
  <2>2. IsFiniteSet(1 .. k) /\ 1 .. k \subseteq 1 .. m
    <3> HIDE DEF k, m, n
    <3>1. 1 \in Int /\ k \in Int /\ 1 .. k \subseteq 1 .. m
      BY <2>1
    <3>2. IsFiniteSet(1 .. k)
      BY <3>1, FS_Interval, Zenon
    <3> QED  BY <3>1, <3>2
  <2>3. \A i \in 1 .. k : SettledAmounts(n)[i] \in Nat
    BY <2>1, <2>2, AmountsAreNat
  <2>4. SumFunctionOnSet(SettledAmounts(n), 1 .. k) \in Nat
    BY <2>2, <2>3, SumIsNat
  <2> QED  BY <1>1, <2>4 DEF Counted
<1>2. CASE a.at # "auditing"
  BY <1>2 DEF Counted
<1> QED  BY <1>1, <1>2

LEMMA AcknowledgedIsNat ==
  ASSUME NEW n \in DOMAIN Notices
  PROVE  SumFunction(SettledAmounts(n)) \in Nat
  BY AmountsAreNat, SumIsNat DEF SumFunction

(* A settled transfer passes its audit, whether or not the node shows the  *)
(* receipt, and is counted in full.                                        *)
LEMMA SettledIsCounted ==
  ASSUME NEW a, NEW seen, Settled(a)
  PROVE  ReceiptValid(AuditedAs(a, seen)) /\ ActivitySpend(a) = a.amount
<1> DEFINE r == AuditedAs(a, seen)
<1>1. /\ r.tx /\ r.match /\ r.complete /\ r.net = a.net /\ r.toMatches = a.toMatches
      /\ r.receipt = IF seen THEN a.receipt ELSE "none"
  BY DEF AuditedAs
<1> HIDE DEF r
<1>2. ASSUME r.net = "base"
      PROVE  CASE r.receipt = "none" -> r.complete
               [] r.receipt # "none" -> r.receipt = "success" /\ (r.payTo => r.toMatches)
  <2>1. a.receipt = "success" /\ a.toMatches
    BY <1>1, <1>2 DEF Settled
  <2>2. CASE seen
    <3>1. r.receipt = "success" /\ r.receipt # "none" /\ r.toMatches
      BY <1>1, <2>1, <2>2
    <3> QED  BY <3>1
  <2>3. CASE ~seen
    <3>1. r.receipt = "none" /\ r.complete
      BY <1>1, <2>3
    <3> QED  BY <3>1
  <2> QED  BY <2>2, <2>3
<1>3. r.tx /\ (r.amounts => r.match) /\ (r.net = "solana" => r.complete)
  BY <1>1
<1>4. ReceiptValid(r)
  BY <1>2, <1>3 DEF ReceiptValid
<1> QED  BY <1>4 DEF r, Settled, ActivitySpend

-----------------------------------------------------------------------------
(* A step of one delivery: what it counts moves by no more than notified.  *)
LEMMA OneDelivery ==
  ASSUME NotifyInv, NEW d \in Deliveries, NEW to, delivery' = [delivery EXCEPT ![d] = to],
         Auditing(to)
  PROVE  /\ DOMAIN delivery' = Deliveries /\ \A e \in Deliveries : Auditing(delivery'[e])
         /\ SumFunction(CountedBy') = SumFunction(CountedBy) - Counted(delivery[d]) + Counted(to)
         /\ SumFunction(CountedBy) \in Nat /\ SumFunction(Acknowledged) \in Nat
         /\ Counted(delivery[d]) \in Nat /\ Counted(to) \in Nat
<1>1. /\ DOMAIN delivery' = Deliveries /\ delivery'[d] = to
      /\ \A e \in Deliveries \ {d} : delivery'[e] = delivery[e]
  BY DEF NotifyInv
<1>2. \A e \in Deliveries : Auditing(delivery[e]) /\ Auditing(delivery'[e])
  BY <1>1 DEF NotifyInv
<1> DEFINE f == CountedBy
           g == CountedBy'
<1>3. /\ \A e \in Deliveries : f[e] \in Nat /\ g[e] \in Nat
      /\ \A e \in Deliveries \ {d} : g[e] = f[e]
      /\ f[d] = Counted(delivery[d]) /\ g[d] = Counted(to)
      /\ DOMAIN f = Deliveries /\ DOMAIN g = Deliveries
  BY <1>1, <1>2, CountedIsNat DEF CountedBy
<1> HIDE DEF f, g
<1>4. SumFunctionOnSet(g, Deliveries) = SumFunctionOnSet(f, Deliveries) - f[d] + g[d]
  BY <1>3, AlchemyAssumption, SumEdited
<1>5. SumFunctionOnSet(f, Deliveries) \in Nat
  BY <1>3, AlchemyAssumption, SumIsNat
<1>6. SumFunction(g) = SumFunction(f) - Counted(delivery[d]) + Counted(to) /\ SumFunction(f) \in Nat
  BY <1>3, <1>4, <1>5 DEF SumFunction
<1>7. SumFunction(Acknowledged) \in Nat
  <2>1. DOMAIN Acknowledged = acknowledged /\ \A n \in acknowledged : Acknowledged[n] \in Nat
    BY AcknowledgedIsNat DEF NotifyInv, Acknowledged
  <2> QED  BY <2>1, SumIsNat DEF NotifyInv, SumFunction
<1> QED  BY <1>1, <1>2, <1>3, <1>6, <1>7 DEF f, g

(* The audit of one transfer.                                              *)
LEMMA AuditStep ==
  ASSUME NotifyInv, NEW d \in Deliveries, NEW seen, Audit(d, seen)
  PROVE  NotifyInv'
<1> DEFINE a == delivery[d]
           n == a.notice
           k == a.next
           f == SettledAmounts(n)
           to == [a EXCEPT !.next = @ + 1]
           t == Notices[n][k]
<1>1. /\ a.at = "auditing" /\ k <= Len(Notices[n])
      /\ delivery' = [delivery EXCEPT ![d] = to] /\ UNCHANGED acknowledged
      /\ notified' = IF ReceiptValid(AuditedAs(t, seen)) THEN notified + ActivitySpend(t) ELSE notified
  BY DEF Audit
<1>2. n \in DOMAIN Notices /\ k \in 1 .. Len(Notices[n]) /\ Len(Notices[n]) \in Nat
  BY <1>1, AlchemyAssumption DEF NotifyInv, Auditing
<1>3. a \in [at : {"auditing"}, notice : DOMAIN Notices, next : Nat]
  BY <1>1 DEF NotifyInv, Auditing
<1>4. to.at = "auditing" /\ to.notice = n /\ to.next = k + 1 /\ Auditing(to)
  BY <1>2, <1>3 DEF Auditing
<1>5. f[k] = (IF Settled(t) THEN t.amount ELSE 0) /\ t.amount \in Nat
  BY <1>2, AlchemyAssumption DEF SettledAmounts
<1>6. notified' \in Nat /\ notified' >= notified + f[k] /\ f[k] \in Nat
  <2>1. ActivitySpend(t) \in Nat /\ (Settled(t) => ReceiptValid(AuditedAs(t, seen)) /\ ActivitySpend(t) = t.amount)
    BY <1>5, SettledIsCounted DEF ActivitySpend
  <2>2. notified \in Nat
    BY DEF NotifyInv
  <2> HIDE DEF t, f
  <2> QED  BY <1>1, <1>5, <2>1, <2>2
<1>7. Counted(to) = f[k] + Counted(a)
  <2> DEFINE S == 1 .. (k - 1)
             m == Len(Notices[n])
  <2>1. S \cup {k} = 1 .. k /\ k \notin S /\ IsFiniteSet(S) /\ S \cup {k} \subseteq 1 .. m
    <3>1. k \in 1 .. m /\ m \in Nat
      BY <1>2
    <3> HIDE DEF k, m
    <3> QED  BY <3>1, FS_Interval
  <2>2. \A i \in S \cup {k} : f[i] \in Nat
    BY <1>2, <2>1, AmountsAreNat
  <2>3. SumFunctionOnSet(f, S \cup {k}) = f[k] + SumFunctionOnSet(f, S)
    <3> HIDE DEF f, S, k
    <3> QED  BY <2>1, <2>2, SumPutsIn
  <2>4. 1 .. (to.next - 1) = S \cup {k}
    <3>1. k \in Nat
      BY <1>2
    <3>2. to.next - 1 = k
      BY <1>4, <3>1
    <3> QED  BY <2>1, <3>2
  <2> HIDE DEF S, to
  <2>5. Counted(to) = SumFunctionOnSet(f, S \cup {k})
    BY <1>4, <2>4 DEF Counted
  <2>6. Counted(a) = SumFunctionOnSet(f, S)
    BY <1>1 DEF Counted, S
  <2> QED  BY <2>3, <2>5, <2>6
<1> HIDE DEF to
<1>8. /\ DOMAIN delivery' = Deliveries /\ \A e \in Deliveries : Auditing(delivery'[e])
      /\ SumFunction(CountedBy') = SumFunction(CountedBy) - Counted(a) + Counted(to)
      /\ SumFunction(CountedBy) \in Nat /\ SumFunction(Acknowledged) \in Nat
      /\ Counted(a) \in Nat /\ Counted(to) \in Nat
  BY <1>1, <1>4, OneDelivery
<1>9. Acknowledged' = Acknowledged
  BY <1>1 DEF Acknowledged
<1>10. notified' >= SumFunction(Acknowledged') + SumFunction(CountedBy')
  <2> HIDE DEF f, a, k
  <2>1. notified \in Nat /\ notified >= SumFunction(Acknowledged) + SumFunction(CountedBy)
    BY DEF NotifyInv
  <2> QED  BY <1>6, <1>7, <1>8, <1>9, <2>1
<1> QED  BY <1>1, <1>6, <1>8, <1>10 DEF NotifyInv

(* A delivery that ends: what it counted is owed to its notice, or to none.*)
LEMMA AnswerDeliveryStep ==
  ASSUME NotifyInv, NEW d \in Deliveries, AnswerDelivery(d)
  PROVE  NotifyInv'
<1> DEFINE a == delivery[d]
           n == a.notice
           f == SettledAmounts(n)
           to == [at |-> "answered"]
<1>1. /\ a.at = "auditing" /\ a.next > Len(Notices[n])
      /\ delivery' = [delivery EXCEPT ![d] = to] /\ UNCHANGED notified
      /\ acknowledged' = acknowledged \cup {n}
  BY DEF AnswerDelivery
<1>2. /\ n \in DOMAIN Notices /\ Len(Notices[n]) \in Nat
      /\ a.next \in 1 .. (Len(Notices[n]) + 1)
  BY <1>1, AlchemyAssumption DEF NotifyInv, Auditing
<1>3. Counted(a) = SumFunction(f)
  <2>1. a.next - 1 = Len(Notices[n])
    BY <1>1, <1>2
  <2> QED  BY <1>1, <1>2, <2>1, AmountsAreNat DEF Counted, SumFunction
<1>4. Counted(to) = 0 /\ Auditing(to)
  BY DEF Counted, Auditing
<1>5. /\ DOMAIN delivery' = Deliveries /\ \A e \in Deliveries : Auditing(delivery'[e])
      /\ SumFunction(CountedBy') = SumFunction(CountedBy) - Counted(a) + Counted(to)
      /\ SumFunction(CountedBy) \in Nat /\ SumFunction(Acknowledged) \in Nat
      /\ Counted(a) \in Nat /\ Counted(to) \in Nat
  <2> HIDE DEF to
  <2> QED  BY <1>1, <1>4, OneDelivery
<1>6. /\ IsFiniteSet(acknowledged) /\ IsFiniteSet(acknowledged')
      /\ acknowledged \subseteq DOMAIN Notices /\ acknowledged' \subseteq DOMAIN Notices
  BY <1>1, <1>2, FS_AddElement DEF NotifyInv
<1>7. SumFunction(Acknowledged') <= SumFunction(Acknowledged) + SumFunction(f)
  <2> DEFINE p == Acknowledged
             q == Acknowledged'
  <2>1. /\ DOMAIN p = acknowledged /\ DOMAIN q = acknowledged \cup {n}
        /\ \A x \in acknowledged : p[x] \in Nat /\ q[x] = p[x]
        /\ q[n] = SumFunction(f) /\ q[n] \in Nat
    BY <1>1, <1>2, <1>6, AcknowledgedIsNat DEF Acknowledged
  <2>2. SumFunction(f) \in Nat
    BY <1>2, AcknowledgedIsNat
  <2> HIDE DEF p, q
  <2>3. SumFunctionOnSet(q, acknowledged) = SumFunction(p)
    BY <1>6, <2>1, SumSame DEF SumFunction
  <2>4. SumFunction(p) \in Nat
    BY <1>5 DEF p
  <2>5. CASE n \in acknowledged
    <3>1. acknowledged \cup {n} = acknowledged
      BY <2>5
    <3>2. SumFunction(q) = SumFunction(p)
      BY <2>1, <2>3, <3>1 DEF SumFunction
    <3> QED  BY <2>2, <2>4, <3>2 DEF p, q
  <2>6. CASE n \notin acknowledged
    <3>1. SumFunctionOnSet(q, acknowledged \cup {n}) = q[n] + SumFunctionOnSet(q, acknowledged)
      BY <1>6, <2>1, <2>6, SumPutsIn
    <3>2. SumFunction(q) = SumFunction(f) + SumFunction(p)
      BY <2>1, <2>3, <3>1 DEF SumFunction
    <3> QED  BY <2>2, <2>4, <3>2 DEF p, q
  <2> QED  BY <2>5, <2>6
<1>8. SumFunction(Acknowledged') \in Nat
  <2>1. DOMAIN Acknowledged' = acknowledged' /\ \A x \in acknowledged' : Acknowledged'[x] \in Nat
    BY <1>6, AcknowledgedIsNat DEF Acknowledged
  <2> HIDE DEF Acknowledged
  <2> QED  BY <1>6, <2>1, SumIsNat DEF SumFunction
<1>9. notified' >= SumFunction(Acknowledged') + SumFunction(CountedBy')
  <2> HIDE DEF a, f, to
  <2>1. notified \in Nat /\ notified >= SumFunction(Acknowledged) + SumFunction(CountedBy)
    BY DEF NotifyInv
  <2> QED  BY <1>1, <1>3, <1>4, <1>5, <1>7, <1>8, <2>1
<1> QED  BY <1>1, <1>5, <1>6, <1>9 DEF NotifyInv

(* A delivery that comes in or is given up counts nothing.                 *)
LEMMA UncountedStep ==
  ASSUME NotifyInv, NEW d \in Deliveries, NEW to, delivery' = [delivery EXCEPT ![d] = to],
         Auditing(to), Counted(to) = 0, UNCHANGED <<acknowledged, notified>>
  PROVE  NotifyInv'
<1>1. /\ DOMAIN delivery' = Deliveries /\ \A e \in Deliveries : Auditing(delivery'[e])
      /\ SumFunction(CountedBy') = SumFunction(CountedBy) - Counted(delivery[d]) + Counted(to)
      /\ SumFunction(CountedBy) \in Nat /\ SumFunction(Acknowledged) \in Nat
      /\ Counted(delivery[d]) \in Nat
  BY OneDelivery
<1>2. Acknowledged' = Acknowledged
  BY DEF Acknowledged
<1>3. notified \in Nat /\ notified >= SumFunction(Acknowledged) + SumFunction(CountedBy)
  BY DEF NotifyInv
<1>4. notified' >= SumFunction(Acknowledged') + SumFunction(CountedBy')
  BY <1>1, <1>2, <1>3
<1> QED  BY <1>1, <1>4 DEF NotifyInv

LEMMA NotifyStep == NotifyInv /\ [AlchemyNext]_alchemyVars => NotifyInv'
<1> SUFFICES ASSUME NotifyInv, [AlchemyNext]_alchemyVars PROVE NotifyInv'
  OBVIOUS
<1>1. ASSUME NEW d \in Deliveries, NEW n \in DOMAIN Notices, Deliver(d, n) PROVE NotifyInv'
  <2> DEFINE to == [at |-> "auditing", notice |-> n, next |-> 1]
  <2>1. delivery' = [delivery EXCEPT ![d] = to] /\ UNCHANGED <<acknowledged, notified>>
    BY <1>1 DEF Deliver
  <2>2. Auditing(to)
    <3>1. 1 \in 1 .. (Len(Notices[n]) + 1)
      BY AlchemyAssumption
    <3> QED  BY <3>1 DEF Auditing
  <2>3. Counted(to) = 0
    <3>1. 1 .. (1 - 1) = {}
      OBVIOUS
    <3> QED  BY <3>1, SumEmpty DEF Counted
  <2> HIDE DEF to
  <2> QED  BY <2>1, <2>2, <2>3, UncountedStep
<1>2. ASSUME NEW d \in Deliveries, NEW seen \in BOOLEAN, Audit(d, seen) PROVE NotifyInv'
  BY <1>2, AuditStep
<1>3. ASSUME NEW d \in Deliveries, AuditThrows(d) PROVE NotifyInv'
  <2> DEFINE to == [at |-> "failed"]
  <2>1. delivery' = [delivery EXCEPT ![d] = to] /\ UNCHANGED <<acknowledged, notified>>
    BY <1>3 DEF AuditThrows, GiveUp
  <2>2. Auditing(to) /\ Counted(to) = 0
    BY DEF Auditing, Counted
  <2> HIDE DEF to
  <2> QED  BY <2>1, <2>2, UncountedStep
<1>4. ASSUME NEW d \in Deliveries, AnswerDelivery(d) PROVE NotifyInv'
  BY <1>4, AnswerDeliveryStep
<1>5. CASE ShieldNext \/ UNCHANGED alchemyVars
  <2>1. UNCHANGED <<delivery, acknowledged, notified>>
    BY <1>5 DEF ShieldNext, Sponsor, Shield, RpcReply, FallBack, ConcludeShield, alchemyVars
  <2>2. CountedBy' = CountedBy /\ Acknowledged' = Acknowledged
    BY <2>1 DEF CountedBy, Acknowledged
  <2> QED  BY <2>1, <2>2 DEF NotifyInv
<1> QED  BY <1>1, <1>2, <1>3, <1>4, <1>5 DEF AlchemyNext, NotifyNext

(* NotifiedSpendKept: what a settled transfer moved is in the ledger once  *)
(* its delivery was acknowledged, through audits that throw and deliveries *)
(* that come again (runAddressActivityNotify of agents/alchemy-policy.ts). *)
THEOREM NotifiedIsKept == AlchemySpec => []NotifiedSpendKept
<1>1. AlchemyInit => NotifyInv
  <2> SUFFICES ASSUME AlchemyInit PROVE NotifyInv
    OBVIOUS
  <2>1. /\ delivery = [d \in Deliveries |-> Idling] /\ acknowledged = {} /\ notified = 0
    BY DEF AlchemyInit
  <2>2. \A d \in Deliveries : Auditing(delivery[d]) /\ Counted(delivery[d]) = 0
    BY <2>1 DEF Idling, Auditing, Counted
  <2>3. SumFunction(CountedBy) = 0
    <3> DEFINE f == CountedBy
    <3>1. DOMAIN f = Deliveries /\ \A d \in Deliveries : f[d] = 0
      BY <2>2 DEF CountedBy
    <3> HIDE DEF f
    <3>2. SumFunctionOnSet(f, Deliveries) = 0
      BY <3>1, AlchemyAssumption, SumOfZeros
    <3> QED  BY <3>1, <3>2 DEF SumFunction, f
  <2>4. SumFunction(Acknowledged) = 0
    <3>1. DOMAIN Acknowledged = {}
      BY <2>1 DEF Acknowledged
    <3> QED  BY <3>1, SumEmpty DEF SumFunction
  <2> QED  BY <2>1, <2>2, <2>3, <2>4, FS_EmptySet DEF NotifyInv
<1>2. NotifyInv => NotifiedSpendKept
  <2> SUFFICES ASSUME NotifyInv PROVE NotifiedSpendKept
    OBVIOUS
  <2>1. SumFunction(Acknowledged) \in Nat
    <3>1. DOMAIN Acknowledged = acknowledged /\ \A n \in acknowledged : Acknowledged[n] \in Nat
      BY AcknowledgedIsNat DEF NotifyInv, Acknowledged
    <3> QED  BY <3>1, SumIsNat DEF NotifyInv, SumFunction
  <2>2. SumFunction(CountedBy) \in Nat
    <3>1. DOMAIN CountedBy = Deliveries /\ \A d \in Deliveries : CountedBy[d] \in Nat
      BY CountedIsNat DEF NotifyInv, CountedBy
    <3> QED  BY <3>1, AlchemyAssumption, SumIsNat DEF SumFunction
  <2>3. notified >= SumFunction(Acknowledged)
    BY <2>1, <2>2 DEF NotifyInv
  <2> QED  BY <2>3 DEF NotifiedSpendKept, Acknowledged
<1> QED  BY <1>1, <1>2, NotifyStep, PTL DEF AlchemySpec

-----------------------------------------------------------------------------
(* Planning.  The larger and the smaller of two, the least of some.        *)
LEMMA MaxOfTwo ==
  ASSUME NEW a \in Int, NEW b \in Int
  PROVE  Max({a, b}) \in {a, b} /\ Max({a, b}) >= a /\ Max({a, b}) >= b
<1>1. \E m \in {a, b} : \A n \in {a, b} : m >= n
  <2>1. CASE a >= b
    BY <2>1
  <2>2. CASE b >= a
    BY <2>2
  <2> QED  BY <2>1, <2>2
<1> QED  BY <1>1 DEF Max

LEMMA MinOfTwo ==
  ASSUME NEW a \in Int, NEW b \in Int
  PROVE  Min({a, b}) \in {a, b} /\ Min({a, b}) <= a /\ Min({a, b}) <= b
<1>1. \E m \in {a, b} : \A n \in {a, b} : m <= n
  <2>1. CASE a <= b
    BY <2>1
  <2>2. CASE b <= a
    BY <2>2
  <2> QED  BY <2>1, <2>2
<1> QED  BY <1>1 DEF Min

LEMMA MinIsLeast ==
  ASSUME NEW S \in SUBSET Nat, S # {}
  PROVE  Min(S) \in S /\ \A n \in S : Min(S) <= n
  BY LeastNatural DEF Min

(* A quotient is between the numbers whose multiples bound it.             *)
LEMMA QuotientIsInt ==
  ASSUME NEW n \in Int, NEW d \in Nat \ {0}
  PROVE  n \div d \in Int
  OBVIOUS

LEMMA QuotientAbove ==
  ASSUME NEW n \in Int, NEW d \in Nat \ {0}, n >= 12 * d
  PROVE  n \div d >= 12
<1> DEFINE k == n \div d
<1>1. k \in Int /\ n < d * k + d
  OBVIOUS
<1> HIDE DEF k
<1>2. ~(k <= 11)
  <2> SUFFICES ASSUME k <= 11 PROVE FALSE
    OBVIOUS
  <2>1. d * k <= d * 11
    BY <1>1
  <2> QED  BY <1>1, <2>1
<1> QED  BY <1>1, <1>2 DEF k

LEMMA QuotientBelow ==
  ASSUME NEW n \in Int, NEW d \in Nat \ {0}, n < 7 * d
  PROVE  n \div d <= 6
<1> DEFINE k == n \div d
<1>1. k \in Int /\ d * k <= n
  OBVIOUS
<1> HIDE DEF k
<1>2. ~(k >= 7)
  <2> SUFFICES ASSUME k >= 7 PROVE FALSE
    OBVIOUS
  <2>1. d * k >= d * 7
    BY <1>1
  <2> QED  BY <1>1, <2>1
<1> QED  BY <1>1, <1>2 DEF k

-----------------------------------------------------------------------------
(* What a rail scores.  A viable rail has its protection at least, one     *)
(* below its minimum loses more to the penalty than its bonuses give back. *)
IsRailAsk(q) == q.amount \in Nat \ {0} /\ q.calls \in Nat \ {0}
RailNames == {"visa-cli", "stripe-mpp", "circle-nano", "base-x402", "solana-x402"}

LEMMA FeesAre ==
  ASSUME NEW q, IsRailAsk(q)
  PROVE  /\ Fee("visa-cli", q) \in Nat /\ Fee("visa-cli", q) >= 29 * q.amount + 50000000
         /\ Fee("stripe-mpp", q) \in Nat /\ Fee("stripe-mpp", q) >= 800000
         /\ Fee("circle-nano", q) = 2 * q.amount
         /\ Fee("base-x402", q) = 4 * q.amount + 500000
         /\ Fee("solana-x402", q) = 3 * q.amount + 300000
<1> DEFINE a == q.amount
<1>1. a \in Nat /\ q.calls \in Nat
  BY DEF IsRailAsk
<1> HIDE DEF a
<1>2. /\ Max({50000000, 29 * a + 50000000}) \in Nat
      /\ Max({50000000, 29 * a + 50000000}) >= 29 * a + 50000000
  <2> DEFINE b == 29 * a + 50000000
  <2>1. b \in Nat
    BY <1>1
  <2> HIDE DEF b
  <2>2. Max({50000000, b}) \in {50000000, b} /\ Max({50000000, b}) >= b
    BY <2>1, MaxOfTwo
  <2> QED  BY <2>1, <2>2 DEF b
<1>3. /\ Max({800000, (12 * a) \div Max({1, Min({q.calls, 50})})}) \in Nat
      /\ Max({800000, (12 * a) \div Max({1, Min({q.calls, 50})})}) >= 800000
  <2> DEFINE n == Min({q.calls, 50})
             d == Max({1, n})
             b == (12 * a) \div d
  <2>1. n \in Int
    <3>1. q.calls \in Int /\ 50 \in Int
      BY <1>1
    <3>2. Min({q.calls, 50}) \in {q.calls, 50}
      BY <3>1, MinOfTwo, Zenon
    <3> QED  BY <3>1, <3>2
  <2> HIDE DEF n
  <2>2. d \in Int /\ d >= 1
    BY <2>1, MaxOfTwo
  <2> HIDE DEF d
  <2>3. b \in Int
    BY <1>1, <2>2
  <2> HIDE DEF b
  <2>4. Max({800000, b}) \in {800000, b} /\ Max({800000, b}) >= 800000
    BY <2>3, MaxOfTwo
  <2> QED  BY <2>3, <2>4 DEF b, d, n
<1> QED  BY <1>2, <1>3 DEF Fee, a

LEMMA SavedIs ==
  ASSUME NEW q, IsRailAsk(q), NEW r, Fee(r, q) \in Nat
  PROVE  /\ Saved(r, q) \in Nat
         /\ Saved(r, q) \in {0, 250 * q.amount - Fee(r, q)}
         /\ Saved(r, q) >= 250 * q.amount - Fee(r, q)
<1> DEFINE b == 250 * q.amount - Fee(r, q)
<1>1. b \in Int /\ q.amount # 0
  BY DEF IsRailAsk
<1>2. Saved(r, q) = Max({0, b})
  BY <1>1 DEF Saved
<1> HIDE DEF b
<1>3. Max({0, b}) \in {0, b} /\ Max({0, b}) >= 0 /\ Max({0, b}) >= b
  BY <1>1, MaxOfTwo
<1> QED  BY <1>1, <1>2, <1>3 DEF b

(* Ten times what a rail scores for the amount, before it is rounded.      *)
Tenths(r, q) == 2 * Saved(r, q) + q.amount * (3 * Protection(r) + 10 * (Bonus(r, q) - Penalty(r, q)))

LEMMA BonusIs ==
  ASSUME NEW q, IsRailAsk(q)
  PROVE  /\ Bonus("visa-cli", q) \in Int /\ Bonus("visa-cli", q) <= 40
         /\ q.amount >= 10000 => Bonus("visa-cli", q) >= 0
         /\ q.amount < 1000000 => Bonus("visa-cli", q) <= 15
         /\ \A r \in RailNames \ {"visa-cli"} : Bonus(r, q) \in 0 .. 30
         /\ Bonus("stripe-mpp", q) <= 18
         /\ Bonus("base-x402", q) = 0
         /\ Bonus("solana-x402", q) <= 12
<1>1. q.amount \in Nat /\ q.calls \in Nat
  BY DEF IsRailAsk
<1> QED  BY <1>1 DEF Bonus, Points, RailNames

LEMMA ViableTenths ==
  ASSUME NEW q, IsRailAsk(q), NEW r \in RailNames, Viable(r, q)
  PROVE  Tenths(r, q) \in Int /\ Tenths(r, q) >= 120 * q.amount
<1> DEFINE a == q.amount
           s == Saved(r, q)
           b == Bonus(r, q)
<1>1. a \in Nat \ {0}
  BY DEF IsRailAsk
<1>2. Penalty(r, q) = 0
  BY DEF Penalty, Points
<1>3. CASE r = "visa-cli"
  <2>1. a >= 500000
    BY <1>3 DEF Viable, MinViable
  <2>2. b \in Nat
    BY <1>3, <2>1, <1>1, BonusIs
  <2>3. s \in Nat
    BY <1>3, FeesAre, SavedIs
  <2>4. Tenths(r, q) = 2 * s + a * (270 + 10 * b)
    <3>1. Protection(r) = 90
      BY <1>3 DEF Protection
    <3> HIDE DEF b
    <3>2. 3 * 90 + 10 * (b - 0) = 270 + 10 * b
      BY <2>2
    <3> QED  BY <1>2, <3>1, <3>2 DEF Tenths, b
  <2> HIDE DEF a, s, b
  <2>5. a * (270 + 10 * b) \in Int /\ a * (270 + 10 * b) >= a * 120
    BY <1>1, <2>2
  <2>6. 2 * s + a * (270 + 10 * b) \in Int /\ 2 * s + a * (270 + 10 * b) >= 120 * a
    BY <1>1, <2>3, <2>5
  <2> QED  BY <2>4, <2>6 DEF a
<1>4. CASE r # "visa-cli"
  <2>1. b \in Nat
    BY <1>4, BonusIs
  <2>2. s \in Nat
    <3>1. Fee(r, q) \in Nat
      BY <1>1, <1>4, FeesAre DEF RailNames
    <3> QED  BY <3>1, SavedIs
  <2> DEFINE p == Protection(r)
  <2>3. p \in {40, 55}
    BY <1>4 DEF Protection, RailNames
  <2>4. Tenths(r, q) = 2 * s + a * (3 * p + 10 * b)
    <3> HIDE DEF b, p
    <3>2. 3 * p + 10 * (b - 0) = 3 * p + 10 * b
      BY <2>1, <2>3
    <3> QED  BY <1>2, <3>2 DEF Tenths, b, p
  <2> HIDE DEF a, s, b, p
  <2>5. 3 * p + 10 * b \in Nat /\ 3 * p + 10 * b >= 120
    BY <2>1, <2>3
  <2>6. a * (3 * p + 10 * b) \in Int /\ a * (3 * p + 10 * b) >= a * 120
    BY <1>1, <2>5
  <2>7. 2 * s + a * (3 * p + 10 * b) \in Int /\ 2 * s + a * (3 * p + 10 * b) >= 120 * a
    BY <1>1, <2>2, <2>6
  <2> QED  BY <2>4, <2>7 DEF a
<1> QED  BY <1>3, <1>4

(* Below its minimum a rail saves nothing of its fee, and what a card does *)
(* save stays behind its penalty.                                          *)
LEMMA UnviableTenths ==
  ASSUME NEW q, IsRailAsk(q), NEW r \in RailNames, ~Viable(r, q)
  PROVE  Tenths(r, q) \in Int /\ Tenths(r, q) < 65 * q.amount
<1> DEFINE a == q.amount
           s == Saved(r, q)
           b == Bonus(r, q)
           p == Protection(r)
<1>1. a \in Nat \ {0}
  BY DEF IsRailAsk
<1>2. Penalty(r, q) = 60
  BY DEF Penalty, Points
<1>3. b \in Int
  BY BonusIs DEF RailNames
<1>4. Fee(r, q) \in Nat
  BY <1>1, FeesAre DEF RailNames
<1>5. s \in Nat /\ s \in {0, 250 * a - Fee(r, q)}
  BY <1>4, SavedIs
<1>6. p \in {40, 55, 90}
  BY DEF Protection, RailNames
<1>7. Tenths(r, q) = 2 * s + a * (3 * p + 10 * (b - 60))
  BY <1>2 DEF Tenths
<1>8. CASE r = "visa-cli"
  <2>1. a < 500000
    BY <1>1, <1>8 DEF Viable, MinViable
  <2>2. b <= 15 /\ p = 90
    BY <1>1, <1>8, <2>1, BonusIs DEF Protection
  <2>3. s = 0 \/ s <= 221 * a - 50000000
    BY <1>1, <1>4, <1>5, <1>8, FeesAre
  <2> HIDE DEF a, s, b, p
  <2>4. 3 * p + 10 * (b - 60) <= -180 /\ 3 * p + 10 * (b - 60) \in Int
    BY <1>3, <2>2
  <2> DEFINE w == 3 * p + 10 * (b - 60)
  <2> HIDE DEF w
  <2>5. a * w <= a * (-180) /\ a * w \in Int
    BY <1>1, <2>4 DEF w
  <2>6. 2 * s + a * w \in Int /\ 2 * s + a * w < 65 * a
    BY <1>1, <1>5, <2>1, <2>3, <2>5
  <2> QED  BY <1>7, <2>6 DEF w, a
<1>9. CASE r # "visa-cli"
  <2>1. s = 0 /\ b <= 18 /\ p <= 55
    <3>1. CASE r = "stripe-mpp"
      <4>1. a < 1000
        BY <1>1, <3>1 DEF Viable, MinViable
      <4> QED  BY <1>1, <1>4, <1>5, <3>1, <4>1, FeesAre, BonusIs DEF Protection
    <3>2. CASE r = "circle-nano"
      BY <1>1, <3>2 DEF Viable, MinViable
    <3>3. CASE r \in {"base-x402", "solana-x402"}
      <4>1. a < 100
        BY <1>1, <3>3 DEF Viable, MinViable
      <4>2. Fee(r, q) >= 300000
        BY <1>1, <3>3, FeesAre
      <4>3. b <= 12
        BY <3>3, BonusIs
      <4>4. p = 40
        BY <3>3 DEF Protection
      <4> HIDE DEF a, s, b, p
      <4> QED  BY <1>1, <1>3, <1>4, <1>5, <4>1, <4>2, <4>3, <4>4
    <3> QED  BY <1>9, <3>1, <3>2, <3>3 DEF RailNames
  <2> HIDE DEF a, s, b, p
  <2> DEFINE w == 3 * p + 10 * (b - 60)
  <2>2. w <= 0 /\ w \in Int
    BY <1>3, <1>6, <2>1
  <2> HIDE DEF w
  <2>3. a * w <= 0 /\ a * w \in Int
    BY <1>1, <2>2
  <2>4. 2 * s + a * w \in Int /\ 2 * s + a * w < 65 * a
    BY <1>1, <2>1, <2>3
  <2> QED  BY <1>7, <2>4 DEF w, a
<1> QED  BY <1>8, <1>9

LEMMA FitScoreIs ==
  ASSUME NEW q, IsRailAsk(q), NEW r \in RailNames
  PROVE  /\ FitScore(r, q) \in 0 .. 150
         /\ Viable(r, q) => FitScore(r, q) >= 12
         /\ ~Viable(r, q) => FitScore(r, q) <= 6
<1> DEFINE a == q.amount
           t == Tenths(r, q)
           k == (t + 5 * a) \div (10 * a)
<1>1. a \in Nat \ {0} /\ Max({1, a}) = a
  <2>1. a \in Nat \ {0}
    BY DEF IsRailAsk
  <2> HIDE DEF a
  <2>2. 1 \in Int /\ a \in Int
    BY <2>1
  <2>3. Max({1, a}) \in {1, a} /\ Max({1, a}) >= a
    BY <2>2, MaxOfTwo, Zenon
  <2> QED  BY <2>1, <2>3
<1>2. t \in Int
  BY ViableTenths, UnviableTenths
<1>3. FitScore(r, q) = Max({0, Min({150, k})})
  BY <1>1 DEF FitScore, Tenths
<1>4. Viable(r, q) => t >= 120 * a
  BY ViableTenths
<1>5. ~Viable(r, q) => t < 65 * a
  BY UnviableTenths
<1> HIDE DEF a, t
<1> DEFINE n == t + 5 * a
           d == 10 * a
<1>6. n \in Int /\ d \in Nat \ {0} /\ (t >= 120 * a => n >= 12 * d) /\ (t < 65 * a => n < 7 * d)
  BY <1>1, <1>2
<1> HIDE DEF n, d
<1>7. n \div d \in Int /\ (t >= 120 * a => n \div d >= 12) /\ (t < 65 * a => n \div d <= 6)
  BY <1>6, QuotientIsInt, QuotientAbove, QuotientBelow
<1>8. k \in Int /\ (t >= 120 * a => k >= 12) /\ (t < 65 * a => k <= 6)
  BY <1>7 DEF n, d
<1> HIDE DEF k
<1> DEFINE m == Min({150, k})
<1>9. m \in {150, k} /\ m <= 150 /\ m <= k
  <2>1. 150 \in Int /\ k \in Int
    BY <1>8
  <2> QED  BY <2>1, MinOfTwo, Zenon
<1> HIDE DEF m
<1>10. Max({0, m}) \in {0, m} /\ Max({0, m}) >= 0 /\ Max({0, m}) >= m
  <2>1. 0 \in Int /\ m \in Int
    BY <1>8, <1>9
  <2> QED  BY <2>1, MaxOfTwo, Zenon
<1>11. FitScore(r, q) = Max({0, m})
  BY <1>3 DEF m
<1> QED  BY <1>4, <1>5, <1>8, <1>9, <1>10, <1>11

(* There is a best of the candidates.                                      *)
LEMMA BestIsRanked ==
  ASSUME NEW q, IsRailAsk(q), Candidates(q) # {}
  PROVE  Best(q) \in Candidates(q) /\ \A j \in Candidates(q) : Ranked(q, Best(q), j)
<1> DEFINE C == Candidates(q)
           fit == [i \in 1 .. 5 |-> FitScore(Rails[i], q)]
           key == [i \in 1 .. 5 |-> 6 * (150 - fit[i]) + i]
           Keys == {key[i] : i \in C}
<1>1. C \subseteq 1 .. 5
  BY DEF Candidates, Rails
<1>2. \A i \in 1 .. 5 : fit[i] \in 0 .. 150
  <2>1. \A i \in 1 .. 5 : Rails[i] \in RailNames
    BY DEF Rails, RailNames
  <2> QED  BY <2>1, FitScoreIs
<1>3. \A i, j \in C : Ranked(q, i, j) <=> fit[i] > fit[j] \/ (fit[i] = fit[j] /\ i <= j)
  BY <1>1 DEF Ranked
<1> HIDE DEF fit
<1>4. \A i \in 1 .. 5 : key[i] = 6 * (150 - fit[i]) + i /\ key[i] \in Nat
  BY <1>2
<1>5. C # {}
  OBVIOUS
<1> HIDE DEF C, key
<1>6. Keys \in SUBSET Nat /\ Keys # {}
  BY <1>1, <1>4, <1>5
<1>7. PICK i \in C : \A j \in C : key[i] <= key[j]
  <2>1. PICK n \in Keys : \A other \in Keys : n <= other
    <3> HIDE DEF Keys
    <3> QED  BY <1>6, LeastNatural
  <2>2. PICK i \in C : n = key[i]
    OBVIOUS
  <2>3. \A j \in C : key[i] <= key[j]
    BY <2>1, <2>2
  <2> QED  BY <2>3
<1>8. \A j \in C : Ranked(q, i, j)
  <2> SUFFICES ASSUME NEW j \in C PROVE fit[i] > fit[j] \/ (fit[i] = fit[j] /\ i <= j)
    BY <1>3
  <2>1. i \in 1 .. 5 /\ j \in 1 .. 5
    BY <1>1
  <2>2. fit[i] \in 0 .. 150 /\ fit[j] \in 0 .. 150
    BY <1>2, <2>1
  <2>3. 6 * (150 - fit[i]) + i <= 6 * (150 - fit[j]) + j
    BY <1>4, <1>7, <2>1
  <2> DEFINE x == fit[i]
             y == fit[j]
  <2> HIDE DEF x, y
  <2>4. x \in 0 .. 150 /\ y \in 0 .. 150 /\ 6 * (150 - x) + i <= 6 * (150 - y) + j
    BY <2>2, <2>3 DEF x, y
  <2>5. x > y \/ (x = y /\ i <= j)
    BY <2>1, <2>4
  <2> QED  BY <2>5 DEF x, y
<1> QED  BY <1>8 DEF Best, C

LEMMA RailSound ==
  ASSUME NEW q \in RailAsks, OptimizeRail(q) PROVE AdviceSound'
<1> DEFINE rail == IF Candidates(q) = {} THEN Nothing ELSE Rails[Best(q)]
<1>1. advice' = [of |-> "rail", ask |-> q, rail |-> rail]
  BY DEF OptimizeRail
<1>2. RailAdviceSound(q, rail)
  <2> SUFFICES ASSUME NEW i \in Candidates(q), Viable(Rails[i], q) PROVE Viable(rail, q)
    BY DEF RailAdviceSound
  <2> DEFINE best == Best(q)
  <2>1. Rails[i] \in RailNames
    BY DEF Candidates, Rails, RailNames
  <2>2. IsRailAsk(q)
    <3>1. q.amount \in Nat /\ q.calls \in Nat \ {0}
      BY PlanningAssumption
    <3>2. q.amount >= MinViable(Rails[i]) /\ MinViable(Rails[i]) \in Nat \ {0}
      BY <2>1 DEF Viable, MinViable, RailNames
    <3> HIDE DEF Viable
    <3> QED  BY <3>1, <3>2 DEF IsRailAsk
  <2>3. best \in Candidates(q) /\ Ranked(q, best, i)
    BY <2>2, BestIsRanked
  <2> HIDE DEF best
  <2>4. Rails[best] \in RailNames
    BY <2>3 DEF Candidates, Rails, RailNames
  <2>5. FitScore(Rails[i], q) \in 12 .. 150
    BY <2>1, <2>2, FitScoreIs
  <2>6. FitScore(Rails[best], q) \in 0 .. 150 /\ (~Viable(Rails[best], q) => FitScore(Rails[best], q) <= 6)
    BY <2>2, <2>4, FitScoreIs
  <2>7. FitScore(Rails[best], q) >= FitScore(Rails[i], q)
    BY <2>3, <2>5, <2>6 DEF Ranked
  <2>8. Viable(Rails[best], q)
    BY <2>5, <2>6, <2>7
  <2> QED  BY <2>8 DEF best
<1> HIDE DEF rail
<1> QED  BY <1>1, <1>2 DEF AdviceSound, RailAdviceSound, Viable

-----------------------------------------------------------------------------
(* The fleet.  Priorities order the agents, those of one by their place.   *)
LEMMA FleetIs ==
  ASSUME NEW q \in FleetAsks
  PROVE  /\ q.pool \in Nat /\ Len(q.agents) \in Nat /\ DOMAIN q.agents = 1 .. Len(q.agents)
         /\ \A i \in DOMAIN q.agents : q.agents[i].priority \in Int /\ Cap(q.agents[i]) \in Nat
<1> DEFINE Agent == [priority : Int, asked : Nat, left : Nat]
<1>1. q.pool \in Nat /\ q.agents \in Seq(Agent)
  BY PlanningAssumption
<1>2. \A a \in Agent : a.priority \in Int /\ Cap(a) \in Nat
  BY DEF Cap
<1> HIDE DEF Agent
<1>3. Len(q.agents) \in Nat /\ DOMAIN q.agents = 1 .. Len(q.agents)
  BY <1>1
<1>4. \A i \in DOMAIN q.agents : q.agents[i] \in Agent
  BY <1>1
<1> QED  BY <1>1, <1>2, <1>3, <1>4

LEMMA PriorityOrders ==
  ASSUME NEW q \in FleetAsks
  PROVE  /\ \A i, j \in DOMAIN q.agents : i # j => ByPriority(q.agents, i, j) \/ ByPriority(q.agents, j, i)
         /\ \A i, j \in DOMAIN q.agents : ~(ByPriority(q.agents, i, j) /\ ByPriority(q.agents, j, i))
         /\ \A i, j, k \in DOMAIN q.agents :
              ByPriority(q.agents, i, j) /\ ByPriority(q.agents, j, k) => ByPriority(q.agents, i, k)
<1>1. ASSUME NEW i \in DOMAIN q.agents, NEW j \in DOMAIN q.agents, NEW k \in DOMAIN q.agents
      PROVE  /\ i # j => ByPriority(q.agents, i, j) \/ ByPriority(q.agents, j, i)
             /\ ~(ByPriority(q.agents, i, j) /\ ByPriority(q.agents, j, i))
             /\ ByPriority(q.agents, i, j) /\ ByPriority(q.agents, j, k) => ByPriority(q.agents, i, k)
  <2> DEFINE of(n) == q.agents[n].priority
  <2>1. i \in Nat /\ j \in Nat /\ k \in Nat /\ of(i) \in Int /\ of(j) \in Int /\ of(k) \in Int
    BY FleetIs
  <2>2. \A m, n : ByPriority(q.agents, m, n) <=> of(m) > of(n) \/ (of(m) = of(n) /\ m < n)
    BY DEF ByPriority
  <2> HIDE DEF of
  <2> QED  BY <2>1, <2>2
<1> QED  BY <1>1

LEMMA ForemostIs ==
  ASSUME NEW q \in FleetAsks, NEW waiting \in SUBSET DOMAIN q.agents, waiting # {}
  PROVE  /\ Foremost(q.agents, waiting) \in waiting
         /\ \A j \in waiting \ {Foremost(q.agents, waiting)} :
              ByPriority(q.agents, Foremost(q.agents, waiting), j)
<1> DEFINE before(i) == {j \in waiting : ByPriority(q.agents, j, i)}
           counts == {Cardinality(before(i)) : i \in waiting}
<1>1. IsFiniteSet(waiting)
  <2>1. IsFiniteSet(DOMAIN q.agents)
    BY FleetIs, FS_Interval
  <2> QED  BY <2>1, FS_Subset
<1>2. \A i : IsFiniteSet(before(i)) /\ Cardinality(before(i)) \in Nat
  BY <1>1, FS_Subset, FS_CardinalityType
<1>3. PICK i \in waiting : \A j \in waiting : Cardinality(before(i)) <= Cardinality(before(j))
  <2>1. counts \in SUBSET Nat /\ counts # {}
    BY <1>2
  <2>2. PICK n \in counts : \A m \in counts : n <= m
    <3> HIDE DEF counts
    <3> QED  BY <2>1, LeastNatural
  <2>3. PICK i \in waiting : n = Cardinality(before(i))
    OBVIOUS
  <2>4. \A j \in waiting : Cardinality(before(i)) <= Cardinality(before(j))
    BY <2>2, <2>3
  <2> QED  BY <2>4
<1>4. ASSUME NEW j \in waiting \ {i} PROVE ByPriority(q.agents, i, j)
  <2> SUFFICES ASSUME ~ByPriority(q.agents, i, j) PROVE FALSE
    OBVIOUS
  <2>1. ByPriority(q.agents, j, i)
    BY PriorityOrders
  <2>2. before(j) \subseteq before(i) /\ j \in before(i) /\ j \notin before(j)
    BY <2>1, PriorityOrders
  <2> DEFINE S == before(i)
             T == before(j)
  <2>3. IsFiniteSet(S) /\ T \in SUBSET S /\ T # S
    BY <1>2, <2>2
  <2>4. Cardinality(S) \in Nat /\ Cardinality(T) \in Nat /\ Cardinality(S) <= Cardinality(T)
    BY <1>2, <1>3
  <2> HIDE DEF S, T
  <2>5. Cardinality(T) <= Cardinality(S) /\ (Cardinality(T) = Cardinality(S) => T = S)
    BY <2>3, FS_Subset
  <2> QED  BY <2>3, <2>4, <2>5
<1> QED  BY <1>4 DEF Foremost

-----------------------------------------------------------------------------
(* The loop that gives every agent its turn is well defined.               *)
Opening(q) == [pool |-> q.pool, paid |-> {}, waiting |-> DOMAIN q.agents]
IsRun(q, n, turn) == turn = [m \in 0 .. n |-> IF m = 0 THEN Opening(q) ELSE Serve(q, turn[m - 1])]

LEMMA TurnsAre ==
  ASSUME NEW q, Len(q.agents) \in Nat
  PROVE  /\ Turns(q)[0] = Opening(q)
         /\ \A n \in 1 .. Len(q.agents) : Turns(q)[n] = Serve(q, Turns(q)[n - 1])
<1> DEFINE bad == {n \in Nat : ~\E turn : IsRun(q, n, turn)}
<1>1. bad = {}
  <2> SUFFICES ASSUME bad # {} PROVE FALSE
    OBVIOUS
  <2>1. PICK n \in bad : \A m \in bad : n <= m
    BY LeastNatural
  <2>2. n # 0
    <3> DEFINE none == [m \in 0 .. 0 |-> Opening(q)]
    <3>1. IsRun(q, 0, none)
      BY DEF IsRun
    <3> QED  BY <2>1, <3>1
  <2>3. n \in Nat /\ n - 1 \in Nat /\ n - 1 \notin bad
    BY <2>1, <2>2
  <2>4. PICK turn : IsRun(q, n - 1, turn)
    BY <2>3
  <2> DEFINE more == [m \in 0 .. n |-> IF m = n THEN Serve(q, turn[n - 1]) ELSE turn[m]]
  <2>5. \A m \in 0 .. n : more[m] = IF m = 0 THEN Opening(q) ELSE Serve(q, more[m - 1])
    <3> SUFFICES ASSUME NEW m \in 0 .. n PROVE more[m] = IF m = 0 THEN Opening(q) ELSE Serve(q, more[m - 1])
      OBVIOUS
    <3>1. \A k \in 0 .. n - 1 : turn[k] = IF k = 0 THEN Opening(q) ELSE Serve(q, turn[k - 1])
      BY <2>4 DEF IsRun
    <3>2. CASE m = n
      <4>1. more[m - 1] = turn[n - 1]
        BY <2>3, <3>2
      <4>2. more[m] = Serve(q, turn[n - 1]) /\ m # 0
        BY <2>2, <3>2
      <4> QED  BY <4>1, <4>2, <3>2
    <3>3. CASE m # n
      <4>1. m \in 0 .. n - 1 /\ more[m] = turn[m]
        BY <2>3, <3>3
      <4>2. m # 0 => more[m - 1] = turn[m - 1]
        BY <2>3, <3>3
      <4> HIDE DEF more
      <4> QED  BY <3>1, <4>1, <4>2
    <3> QED  BY <3>2, <3>3
  <2>6. more = [m \in 0 .. n |-> more[m]]
    OBVIOUS
  <2>7. IsRun(q, n, more)
    <3> HIDE DEF more
    <3> QED  BY <2>5, <2>6 DEF IsRun
  <2> QED  BY <2>1, <2>7
<1>2. \E turn : IsRun(q, Len(q.agents), turn)
  BY <1>1
<1>3. IsRun(q, Len(q.agents), Turns(q))
  <2>1. Turns(q) = CHOOSE turn : IsRun(q, Len(q.agents), turn)
    BY DEF Turns, IsRun, Opening
  <2> QED  BY <1>2, <2>1
<1> HIDE DEF bad
<1>4. \A n \in 0 .. Len(q.agents) : Turns(q)[n] = IF n = 0 THEN Opening(q) ELSE Serve(q, Turns(q)[n - 1])
  BY <1>3 DEF IsRun
<1> QED  BY <1>4

-----------------------------------------------------------------------------
(* What holds after every turn: the pool and what was paid add up, and who *)
(* had a turn comes before who waits.                                      *)
TurnKept(q, was) ==
  LET D == DOMAIN q.agents
      had == D \ was.waiting
  IN  /\ was.waiting \subseteq D /\ was.paid \subseteq had
      /\ was.pool \in Nat
      /\ SumFunctionOnSet(Caps(q), was.paid) = q.pool - was.pool
      /\ \A i \in had, j \in was.waiting : ByPriority(q.agents, i, j)
      /\ \A i \in had \ was.paid : Cap(q.agents[i]) > 0 =>
           /\ Cap(q.agents[i]) > was.pool
           /\ \A j \in was.paid : ByPriority(q.agents, i, j) => Cap(q.agents[j]) < Cap(q.agents[i])

LEMMA OpeningKept ==
  ASSUME NEW q \in FleetAsks PROVE TurnKept(q, Opening(q))
<1>1. q.pool \in Nat
  BY FleetIs
<1> QED  BY <1>1, SumEmpty DEF TurnKept, Opening

LEMMA ServeKeeps ==
  ASSUME NEW q \in FleetAsks, NEW was, TurnKept(q, was), was.waiting # {}
  PROVE  /\ TurnKept(q, Serve(q, was))
         /\ \E i \in was.waiting : Serve(q, was).waiting = was.waiting \ {i}
<1> DEFINE D == DOMAIN q.agents
           i == Foremost(q.agents, was.waiting)
           cap == [k \in D |-> Cap(q.agents[k])]
           now == Serve(q, was)
           given == was.pool >= cap[i] /\ cap[i] > 0
<1>1. /\ was.waiting \subseteq D /\ was.paid \subseteq D \ was.waiting
      /\ was.pool \in Nat
      /\ SumFunctionOnSet(cap, was.paid) = q.pool - was.pool
      /\ \A h \in D \ was.waiting, j \in was.waiting : ByPriority(q.agents, h, j)
      /\ \A h \in (D \ was.waiting) \ was.paid : cap[h] > 0 =>
           /\ cap[h] > was.pool
           /\ \A j \in was.paid : ByPriority(q.agents, h, j) => cap[j] < cap[h]
  BY DEF TurnKept, Caps
<1>2. i \in was.waiting /\ i \in D /\ \A j \in was.waiting \ {i} : ByPriority(q.agents, i, j)
  BY <1>1, ForemostIs
<1>3. \A k \in D : cap[k] \in Nat
  BY FleetIs
<1>4. /\ now.waiting = was.waiting \ {i}
      /\ now.pool = IF given THEN was.pool - cap[i] ELSE was.pool
      /\ now.paid = IF given THEN was.paid \cup {i} ELSE was.paid
  BY <1>2 DEF Serve
<1>5. \A h, j \in D : ~(ByPriority(q.agents, h, j) /\ ByPriority(q.agents, j, h))
  BY PriorityOrders
<1>6. q.pool \in Nat
  BY FleetIs
<1>7. IsFiniteSet(was.paid)
  <2>1. IsFiniteSet(D)
    BY FleetIs, FS_Interval
  <2> QED  BY <1>1, <2>1, FS_Subset
<1>8. TurnKept(q, now) <=>
      /\ now.waiting \subseteq D /\ now.paid \subseteq D \ now.waiting
      /\ now.pool \in Nat
      /\ SumFunctionOnSet(cap, now.paid) = q.pool - now.pool
      /\ \A h \in D \ now.waiting, j \in now.waiting : ByPriority(q.agents, h, j)
      /\ \A h \in (D \ now.waiting) \ now.paid : cap[h] > 0 =>
           /\ cap[h] > now.pool
           /\ \A j \in now.paid : ByPriority(q.agents, h, j) => cap[j] < cap[h]
  <2> HIDE DEF now
  <2>1. now.paid \subseteq D \ now.waiting => now.paid \subseteq D
    OBVIOUS
  <2> QED  BY <2>1 DEF TurnKept, Caps
<1> HIDE DEF D, i, cap, now
<1>9. now.waiting \subseteq D /\ now.paid \subseteq D \ now.waiting
  BY <1>1, <1>2, <1>4
<1>10. \A h \in D \ now.waiting, j \in now.waiting : ByPriority(q.agents, h, j)
  BY <1>1, <1>2, <1>4
<1>11. given => TurnKept(q, now)
  <2> SUFFICES ASSUME given PROVE TurnKept(q, now)
    OBVIOUS
  <2>1. now.pool = was.pool - cap[i] /\ now.paid = was.paid \cup {i} /\ now.pool \in Nat
    BY <1>1, <1>2, <1>3, <1>4
  <2>2. SumFunctionOnSet(cap, was.paid \cup {i}) = cap[i] + SumFunctionOnSet(cap, was.paid)
    <3>1. i \notin was.paid /\ \A x \in was.paid \cup {i} : cap[x] \in Nat
      BY <1>1, <1>2, <1>3
    <3> QED  BY <1>7, <3>1, SumPutsIn
  <2>3. SumFunctionOnSet(cap, now.paid) = q.pool - now.pool
    BY <1>1, <1>2, <1>3, <1>6, <2>1, <2>2
  <2>4. ASSUME NEW h \in (D \ now.waiting) \ now.paid, cap[h] > 0
        PROVE  /\ cap[h] > now.pool
               /\ \A j \in now.paid : ByPriority(q.agents, h, j) => cap[j] < cap[h]
    <3>1. h \in (D \ was.waiting) \ was.paid
      BY <1>4, <2>1, <2>4
    <3>2. cap[h] > was.pool /\ cap[h] \in Nat
      BY <1>1, <1>3, <2>4, <3>1
    <3>3. cap[i] \in Nat /\ cap[i] <= was.pool
      BY <1>2, <1>3
    <3>4. cap[i] < cap[h] /\ cap[h] > now.pool
      BY <1>1, <2>1, <3>2, <3>3
    <3> QED  BY <1>1, <2>1, <2>4, <3>1, <3>4
  <2>5. \A h \in (D \ now.waiting) \ now.paid : cap[h] > 0 =>
          /\ cap[h] > now.pool
          /\ \A j \in now.paid : ByPriority(q.agents, h, j) => cap[j] < cap[h]
    BY <2>4
  <2>6. now.pool \in Nat
    BY <2>1
  <2> QED  BY <1>8, <1>9, <1>10, <2>3, <2>5, <2>6
<1>12. ~given => TurnKept(q, now)
  <2> SUFFICES ASSUME ~given PROVE TurnKept(q, now)
    OBVIOUS
  <2>1. now.pool = was.pool /\ now.paid = was.paid
    BY <1>4
  <2>2. ASSUME NEW h \in (D \ now.waiting) \ now.paid, cap[h] > 0
        PROVE  /\ cap[h] > now.pool
               /\ \A j \in now.paid : ByPriority(q.agents, h, j) => cap[j] < cap[h]
    <3>1. CASE h = i
      <4>1. cap[h] > was.pool
        BY <1>1, <1>2, <1>3, <2>2, <3>1
      <4>2. \A j \in was.paid : ~ByPriority(q.agents, h, j)
        BY <1>1, <1>2, <1>5, <3>1
      <4> QED  BY <2>1, <4>1, <4>2
    <3>2. CASE h # i
      <4>1. h \in (D \ was.waiting) \ was.paid
        BY <1>4, <2>1, <2>2, <3>2
      <4> QED  BY <1>1, <2>1, <2>2, <4>1
    <3> QED  BY <3>1, <3>2
  <2>3. \A h \in (D \ now.waiting) \ now.paid : cap[h] > 0 =>
          /\ cap[h] > now.pool
          /\ \A j \in now.paid : ByPriority(q.agents, h, j) => cap[j] < cap[h]
    BY <2>2
  <2>4. now.pool \in Nat /\ SumFunctionOnSet(cap, now.paid) = q.pool - now.pool
    BY <1>1, <2>1
  <2> QED  BY <1>8, <1>9, <1>10, <2>3, <2>4
<1> QED  BY <1>2, <1>4, <1>11, <1>12 DEF now

LEMMA TurnsKeep ==
  ASSUME NEW q \in FleetAsks, NEW n \in 0 .. Len(q.agents)
  PROVE  /\ TurnKept(q, Turns(q)[n])
         /\ IsFiniteSet(Turns(q)[n].waiting) /\ Cardinality(Turns(q)[n].waiting) = Len(q.agents) - n
<1> DEFINE N == Len(q.agents)
           turn == Turns(q)
           kept(m) == /\ TurnKept(q, turn[m]) /\ IsFiniteSet(turn[m].waiting)
                      /\ Cardinality(turn[m].waiting) = N - m
           bad == {m \in 0 .. N : ~kept(m)}
<1>1. N \in Nat /\ DOMAIN q.agents = 1 .. N
  BY FleetIs
<1>2. turn[0] = Opening(q) /\ \A m \in 1 .. N : turn[m] = Serve(q, turn[m - 1])
  BY <1>1, TurnsAre
<1> HIDE DEF N, turn
<1>3. kept(0)
  <2>1. turn[0].waiting = 1 .. N
    BY <1>1, <1>2 DEF Opening
  <2>2. IsFiniteSet(1 .. N) /\ Cardinality(1 .. N) = N
    BY <1>1, FS_Interval
  <2> QED  BY <1>1, <1>2, <2>1, <2>2, OpeningKept
<1>4. ASSUME NEW m \in 1 .. N, kept(m - 1) PROVE kept(m)
  <2> DEFINE was == turn[m - 1]
             left == was.waiting
  <2>1. TurnKept(q, was) /\ IsFiniteSet(left) /\ Cardinality(left) = N - (m - 1)
    BY <1>4
  <2>2. turn[m] = Serve(q, was)
    BY <1>2
  <2> HIDE DEF was
  <2>3. left # {}
    BY <1>1, <2>1, FS_EmptySet
  <2>4. PICK i \in left : Serve(q, was).waiting = left \ {i}
    BY <2>1, <2>3, ServeKeeps
  <2>5. TurnKept(q, Serve(q, was))
    BY <2>1, <2>3, ServeKeeps
  <2> HIDE DEF left
  <2>6. IsFiniteSet(left \ {i}) /\ Cardinality(left \ {i}) = Cardinality(left) - 1
    BY <2>1, FS_RemoveElement
  <2>7. (N - (m - 1)) - 1 = N - m
    BY <1>1
  <2> QED  BY <2>1, <2>2, <2>4, <2>5, <2>6, <2>7
<1> HIDE DEF kept
<1>5. bad = {}
  <2> SUFFICES ASSUME bad # {} PROVE FALSE
    OBVIOUS
  <2>1. PICK m \in bad : \A other \in bad : m <= other
    <3>1. bad \in SUBSET Nat
      BY <1>1
    <3> HIDE DEF bad
    <3> QED  BY <3>1, LeastNatural
  <2>2. m \in 1 .. N /\ m - 1 \in 0 .. N /\ ~(m <= m - 1)
    BY <1>1, <1>3, <2>1
  <2>3. kept(m - 1)
    BY <2>1, <2>2
  <2> QED  BY <1>4, <2>1, <2>2, <2>3
<1>6. n \in 0 .. N
  BY DEF N
<1>7. kept(n)
  BY <1>5, <1>6
<1> QED  BY <1>7 DEF kept, turn, N

LEMMA FleetSound ==
  ASSUME NEW q \in FleetAsks, AllocateBudget(q) PROVE AdviceSound'
<1> DEFINE given == Allocate(q)
<1>1. advice' = [of |-> "fleet", ask |-> q, given |-> given]
  BY DEF AllocateBudget
<1>2. TurnKept(q, given) /\ given.waiting = {}
  <2>1. Len(q.agents) \in Nat
    BY FleetIs
  <2>2. /\ TurnKept(q, given) /\ IsFiniteSet(given.waiting)
        /\ Cardinality(given.waiting) = Len(q.agents) - Len(q.agents)
    BY <2>1, TurnsKeep DEF Allocate
  <2>3. Cardinality(given.waiting) = 0
    BY <2>1, <2>2
  <2> QED  BY <2>2, <2>3, FS_EmptySet
<1> HIDE DEF given
<1>3. AllocationSound(q, given)
  BY <1>2 DEF TurnKept, AllocationSound
<1> QED  BY <1>1, <1>3 DEF AdviceSound, AllocationSound, Caps

-----------------------------------------------------------------------------
(* The plan.  While it is over budget with more than two steps a trim      *)
(* takes one away, never the guard, which comes first.                     *)
IsPlan(steps) == steps \subseteq 1 .. 5 /\ 1 \in steps /\ IsFiniteSet(steps)

LEMMA DropsOne ==
  ASSUME NEW steps, IsPlan(steps), Cardinality(steps) > 2
  PROVE  IsPlan(DropOne(steps)) /\ Cardinality(DropOne(steps)) = Cardinality(steps) - 1
<1> DEFINE droppable == {i \in steps : Steps[i] \in Droppable}
           n == Min(droppable)
<1>1. \A i \in 1 .. 5 : Steps[i] \in Droppable <=> i # 1
  BY DEF Steps, Droppable
<1>2. droppable = steps \ {1} /\ steps \subseteq 1 .. 5 /\ 1 \in steps /\ IsFiniteSet(steps)
  BY <1>1 DEF IsPlan
<1>3. Cardinality(steps \ {1}) = Cardinality(steps) - 1 /\ IsFiniteSet(steps \ {1})
  BY <1>2, FS_RemoveElement
<1>4. droppable # {}
  <2>1. Cardinality(steps) \in Nat
    BY <1>2, FS_CardinalityType
  <2>2. Cardinality(steps \ {1}) # 0
    BY <1>3, <2>1
  <2> QED  BY <1>2, <2>2, FS_EmptySet
<1>5. DropOne(steps) = steps \ {n}
  BY <1>4 DEF DropOne
<1> HIDE DEF droppable
<1>6. n \in droppable
  BY <1>2, <1>4, MinIsLeast
<1> HIDE DEF n
<1>7. n \in steps /\ n # 1
  BY <1>2, <1>6
<1>8. IsFiniteSet(steps \ {n}) /\ Cardinality(steps \ {n}) = Cardinality(steps) - 1
  BY <1>2, <1>7, FS_RemoveElement
<1>9. IsPlan(steps \ {n})
  BY <1>2, <1>7, <1>8 DEF IsPlan
<1> QED  BY <1>5, <1>8, <1>9

Over(q, steps) == Total(q, steps) > q.budget /\ Cardinality(steps) > 2

LEMMA TrimsOne ==
  ASSUME NEW q, NEW steps, IsPlan(steps)
  PROVE  /\ IsPlan(Trim(q, steps))
         /\ Over(q, Trim(q, steps)) => /\ Over(q, steps)
                                      /\ Cardinality(Trim(q, steps)) = Cardinality(steps) - 1
<1>1. CASE Over(q, steps)
  <2>1. Trim(q, steps) = DropOne(steps) /\ Cardinality(steps) > 2
    BY <1>1 DEF Trim, Over
  <2> QED  BY <1>1, <2>1, DropsOne
<1>2. CASE ~Over(q, steps)
  <2>1. Trim(q, steps) = steps
    BY <1>2 DEF Trim, Over
  <2> QED  BY <1>2, <2>1
<1> QED  BY <1>1, <1>2

LEMMA PipelineIs ==
  ASSUME NEW q PROVE IsPlan(Pipeline(q)) /\ Cardinality(Pipeline(q)) <= 5
<1> DEFINE P == Pipeline(q)
<1>1. P \subseteq 1 .. 5 /\ 1 \in P
  BY DEF Pipeline, Steps
<1> HIDE DEF P
<1>2. IsFiniteSet(1 .. 5) /\ Cardinality(1 .. 5) = 5
  <2>1. \A n \in Nat : IsFiniteSet(1 .. n) /\ Cardinality(1 .. n) = n
    BY FS_Interval
  <2>2. 5 \in Nat
    OBVIOUS
  <2> QED  BY <2>1, <2>2, Zenon
<1>3. IsFiniteSet(P) /\ Cardinality(P) <= 5
  BY <1>1, <1>2, FS_Subset
<1> QED  BY <1>1, <1>3 DEF IsPlan, P

LEMMA TrimmedIs ==
  ASSUME NEW q
  PROVE  IsPlan(Trimmed(q)) /\ (Total(q, Trimmed(q)) > q.budget => Cardinality(Trimmed(q)) <= 2)
<1> DEFINE p0 == Pipeline(q)
           p1 == Trim(q, p0)
           p2 == Trim(q, p1)
           p3 == Trim(q, p2)
<1>1. IsPlan(p0) /\ Cardinality(p0) <= 5
  BY PipelineIs
<1> HIDE DEF p0
<1>2. IsPlan(p1) /\ (Over(q, p1) => Cardinality(p1) = Cardinality(p0) - 1)
  BY <1>1, TrimsOne
<1> HIDE DEF p1
<1>3. IsPlan(p2) /\ (Over(q, p2) => Over(q, p1) /\ Cardinality(p2) = Cardinality(p1) - 1)
  BY <1>2, TrimsOne
<1> HIDE DEF p2
<1>4. IsPlan(p3) /\ (Over(q, p3) => Over(q, p2) /\ Cardinality(p3) = Cardinality(p2) - 1)
  BY <1>3, TrimsOne
<1>5. Trimmed(q) = p3
  BY DEF Trimmed, p0, p1, p2
<1> HIDE DEF p3
<1>6. /\ Cardinality(p0) \in Nat /\ Cardinality(p1) \in Nat
      /\ Cardinality(p2) \in Nat /\ Cardinality(p3) \in Nat
  BY <1>1, <1>2, <1>3, <1>4, FS_CardinalityType DEF IsPlan
<1>7. ~Over(q, p3)
  <2> SUFFICES ASSUME Over(q, p3) PROVE FALSE
    OBVIOUS
  <2>1. Cardinality(p3) <= 2
    BY <1>1, <1>2, <1>3, <1>4, <1>6
  <2>2. Cardinality(p3) > 2
    BY DEF Over
  <2> QED  BY <1>6, <2>1, <2>2
<1>8. ~(Cardinality(p3) > 2) => Cardinality(p3) <= 2
  BY <1>6
<1> QED  BY <1>4, <1>5, <1>7, <1>8 DEF Over

LEMMA PlanIsSound ==
  ASSUME NEW q \in PlanAsks, CompilePlan(q) PROVE AdviceSound'
<1> DEFINE steps == Trimmed(q)
           allowed == Total(q, steps) <= q.budget
<1>1. advice' = [of |-> "plan", ask |-> q, steps |-> steps, allowed |-> allowed]
  BY DEF CompilePlan
<1>2. IsPlan(steps) /\ (Total(q, steps) > q.budget => Cardinality(steps) <= 2)
  BY TrimmedIs
<1> HIDE DEF steps
<1>3. Steps[Min(steps)] = "pre-x402-guard"
  <2>1. steps \in SUBSET Nat /\ 1 \in steps /\ 0 \notin steps
    BY <1>2 DEF IsPlan
  <2>2. Min(steps) \in steps /\ Min(steps) <= 1
    BY <2>1, MinIsLeast
  <2> DEFINE m == Min(steps)
  <2>3. m \in Nat /\ m # 0 /\ m <= 1
    BY <2>1, <2>2
  <2> HIDE DEF m
  <2>4. m = 1
    BY <2>3
  <2> QED  BY <2>4 DEF Steps, m
<1>4. PlanSound(q, steps, allowed)
  BY <1>2, <1>3 DEF PlanSound
<1> HIDE DEF allowed
<1> QED  BY <1>1, <1>4 DEF AdviceSound, PlanSound, Total, Prices

-----------------------------------------------------------------------------
(* The router's list price, and the advisor's verdict.                     *)
LEMMA RouteIsSound ==
  ASSUME NEW q \in RouteAsks, FindRoute(q) PROVE AdviceSound'
<1> DEFINE answer == Route(q)
<1>1. advice' = [of |-> "route", ask |-> q, answer |-> answer]
  BY DEF FindRoute
<1>2. q.kind \in {"capability", "curated"} /\ answer.status = "ok" => Under(answer.list, q.most)
  <2>1. CASE q.kind = "capability"
    <3> DEFINE open == {i \in DOMAIN CapabilityPrices : Under(CapabilityPrices[i], q.most)}
               first == CapabilityPrices[Min(open)]
    <3>1. answer = IF open = {} THEN NotFound ELSE Routed(first, Priced(q, first))
      BY <2>1 DEF Route
    <3>2. CASE open = {}
      BY <3>1, <3>2 DEF NotFound
    <3>3. CASE open # {}
      <4>1. open \in SUBSET Nat
        BY DEF CapabilityPrices
      <4>2. Min(open) \in open
        <5> HIDE DEF open
        <5> QED  BY <3>3, <4>1, MinIsLeast
      <4>3. Under(first, q.most)
        BY <4>2
      <4> HIDE DEF first, open
      <4>4. answer.list = first
        BY <3>1, <3>3 DEF Routed
      <4> QED  BY <4>3, <4>4
    <3> QED  BY <3>2, <3>3
  <2>2. CASE q.kind = "curated"
    <3>1. answer = IF ~Under(5, q.most) THEN NotFound ELSE Routed(5, Priced(q, 5))
      BY <2>2 DEF Route
    <3>2. CASE ~Under(5, q.most)
      BY <3>1, <3>2 DEF NotFound
    <3>3. CASE Under(5, q.most)
      BY <3>1, <3>3 DEF Routed
    <3> QED  BY <3>2, <3>3
  <2> QED  BY <2>1, <2>2
<1> HIDE DEF answer
<1> QED  BY <1>1, <1>2 DEF AdviceSound, Under

LEMMA BuyIsSound ==
  ASSUME NEW q \in BuyAsks, AdviseBuy(q) PROVE AdviceSound'
<1> DEFINE allowed == Action(q) # "no_match" /\ PolicyVerdict(q) # FALSE
           mpp == q.calls >= 8 /\ UseMpp(q.calls, IF q.best = Nothing THEN 5 ELSE q.best.cost)
<1>1. advice' = [of |-> "buy", ask |-> q, action |-> Action(q), allowed |-> allowed, mpp |-> mpp]
  BY DEF AdviseBuy
<1>2. q.guard \in BOOLEAN
  BY PlanningAssumption
<1>3. allowed /\ q.guarded => q.guard
  BY <1>2, Zenon DEF PolicyVerdict
<1> HIDE DEF allowed, mpp
<1> QED  BY <1>1, <1>3 DEF AdviceSound

(* AdviceSound: no planner advises what cannot be paid while another could *)
(* be, gives a fleet's pool away twice or out of turn, or plans past a     *)
(* budget it could have kept (agents/rail-optimizer.ts,                    *)
(* budget-allocator.ts, payment-intent-compiler.ts, api-router.ts and      *)
(* market-buy-advisor.ts), for any amounts, fleets, prices and budgets.    *)
THEOREM AdviceIsSound == PlanningSpec => []AdviceSound
<1>1. PlanningInit => AdviceSound
  BY DEF PlanningInit, AdviceSound
<1>2. AdviceSound /\ [PlanningNext]_advice => AdviceSound'
  <2> SUFFICES ASSUME AdviceSound, [PlanningNext]_advice PROVE AdviceSound'
    OBVIOUS
  <2>1. CASE UNCHANGED advice
    BY <2>1 DEF AdviceSound, RailAdviceSound, AllocationSound, PlanSound, Viable, Under, Caps, Total, Prices
  <2>2. CASE PlanningNext
    BY <2>2, RailSound, FleetSound, PlanIsSound, RouteIsSound, BuyIsSound DEF PlanningNext
  <2> QED  BY <2>1, <2>2
<1> QED  BY <1>1, <1>2, PTL DEF PlanningSpec
=============================================================================
