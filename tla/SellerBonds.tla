---------------------------- MODULE SellerBonds ----------------------------
(***************************************************************************)
(* Certified sellers and their bonds: lib/certified-sellers.ts under       *)
(* agents/trust-network.ts, the bond slash of a failed semantic settle     *)
(* (agents/quality-escrow-semantic.ts) and agents/insurance-attest.ts.     *)
(* The register is one JSON file; every operation reads it whole and some  *)
(* write it back whole, with awaits in between.                            *)
(***************************************************************************)
EXTENDS Integers, FiniteSets, FiniteSetsExt

CONSTANTS
  Tellers,     \* lanes a client may have a call in
  Hosts,
  Badges,      \* badge ids randomBytes can give
  Merchants,   \* what is seen of a merchant who asks to be certified
  Bonds,       \* bonds a merchant posts, 0 for none
  Slashes,     \* amounts a slash asks for
  Buyers,      \* what buyers bring to the buyer gate, and what they pay
  MaxDate, TermOfBadge,
  Blank        \* no record, and the file that cannot be parsed

ASSUME AmountsAssumption == Bonds \subseteq Nat /\ Slashes \subseteq Nat /\ TermOfBadge \in Nat

(* A row of the register, and the register itself.                         *)
Grades  == {"A", "B", "C", "D", "F"}
Records == [badge : Badges, bond : Nat, left : Nat, until : Nat, grade : Grades]
ASSUME BlankAssumption == Blank \notin Records /\ \A H \in SUBSET Hosts : Blank \notin [H -> Records]

VARIABLES
  queued,    \* calls are made one after the other, and nothing crashes
  date,
  sellers,   \* certified-sellers.json: host -> record, or Blank
  teller,    \* per lane, the call it serves
  posted,    \* badge -> its host and the bond it was certified with
  slashed    \* badge -> what slashes have written off it

sellerVars == <<queued, date, sellers, teller, posted, slashed>>

NoSellers == [h \in {} |-> Blank]
Off == [does |-> "nothing", pc |-> "idle", host |-> Blank, amount |-> 0, seen |-> Blank, rows |-> NoSellers]
Least(a, b) == IF a < b THEN a ELSE b
Most(a, b) == IF a > b THEN a ELSE b

-----------------------------------------------------------------------------
(* runMerchantTrust: 80 points, moved by what is known of the merchant;    *)
(* what the caller leaves out is taken from the telemetry, if it answers.  *)
Enriched(m) == [w \in {"wash", "txns", "ratio"} |->
                  IF m.asked[w] = Blank /\ m.telemetry # Blank THEN m.telemetry[w] ELSE m.asked[w]]

WashPoints(wash)   == CASE wash = Blank -> 0 [] wash >= 40 -> -35 [] wash >= 20 -> -15 [] OTHER -> 0
RatioPoints(ratio) == CASE ratio = Blank -> 0 [] ratio >= 50 -> 8 [] ratio < 5 -> -18 [] OTHER -> -8
SpamPoints(txns)   == IF txns = "spam" THEN -20 ELSE 0
SpeedPoints(p50)   == CASE p50 = Blank -> 0 [] p50 > 4000 -> -10 [] p50 <= 1500 -> 4 [] OTHER -> 0
ProbePoints(probe) == CASE probe = 0 -> -25 [] probe = 402 -> 5 [] probe = 200 -> -6 [] OTHER -> 0
UrlPoints(m)       == IF m.probe # Blank /\ m.urlGradeF THEN -20 ELSE 0

KymScore(m) ==
  LET e == Enriched(m)
  IN Least(100, Most(0, 80 + WashPoints(e["wash"]) + RatioPoints(e["ratio"]) + SpamPoints(e["txns"])
                          + SpeedPoints(m.p50) + (IF m.probe = Blank THEN 0 ELSE ProbePoints(m.probe))
                          + UrlPoints(m)))
KymGrade(score) == CASE score >= 85 -> "A" [] score >= 70 -> "B" [] score >= 55 -> "C"
                     [] score >= 40 -> "D" [] OTHER -> "F"
Recommended(score) == IF score >= 70 THEN "pay" ELSE IF score >= 45 THEN "caution" ELSE "avoid"

Certifiable(m) == KymScore(m) >= m.least /\ Recommended(KymScore(m)) # "avoid"

-----------------------------------------------------------------------------
(* getCertifiedHost: a signed record that has not expired.                 *)
Rows(file) == IF file = Blank THEN NoSellers ELSE file
Certified(file, h) ==
  IF h \in DOMAIN Rows(file) /\ file[h].until >= date THEN file[h] ELSE Blank
Bonded(r) == r # Blank /\ r.left > 0

SellerInit ==
  /\ queued \in BOOLEAN /\ date = 0 /\ sellers = NoSellers
  /\ teller = [t \in Tellers |-> Off]
  /\ posted = [b \in {} |-> 0] /\ slashed = [b \in {} |-> 0]

Serve(t, call) == teller' = [teller EXCEPT ![t] = call]
MayStart(t) == teller[t] = Off /\ (queued => \A u \in Tellers : teller[u] = Off)
Keeps == UNCHANGED <<queued, date, posted, slashed>>

(* Certification goes on to the register when the merchant is trusted.     *)
Certify(t, h, m, bond) ==
  /\ MayStart(t) /\ Certifiable(m)
  /\ Serve(t, [Off EXCEPT !.does = "certify", !.pc = "reads", !.host = h, !.amount = bond,
                          !.seen = KymGrade(KymScore(m))])
  /\ Keeps /\ UNCHANGED sellers

(* runBondSlash asks for the amount; a semantic settle asks for at most    *)
(* the bond it has just seen.  Neither goes on without a bond.             *)
Slash(t, h, n, semantic) ==
  LET seen == Certified(sellers, h)
  IN /\ MayStart(t) /\ Bonded(seen)
     /\ Serve(t, [Off EXCEPT !.does = "slash", !.pc = "reads", !.host = h,
                             !.amount = IF semantic THEN Least(n, seen.left) ELSE n])
     /\ Keeps /\ UNCHANGED sellers

(* upsertCertification drops the host's row and adds a new one; slash      *)
(* edits the row that is there, expired or not, and signs it again.        *)
SlashedRow(r, n) == [r EXCEPT !.left = Most(0, @ - n)]
SlashedRowTwice(r, n) == [r EXCEPT !.left = Most(0, @ - 2 * n)]       \* mutant
Slashing(r, n) == SlashedRow(r, n)

NewRow(b, grade, bond) == [badge |-> b, bond |-> bond, left |-> bond, until |-> date + TermOfBadge, grade |-> grade]
SetRow(rows, h, r) == [g \in DOMAIN rows \cup {h} |-> IF g = h THEN r ELSE rows[g]]

ReadRegister(t) ==
  LET call == teller[t]
      rows == Rows(sellers)
  IN /\ call.pc = "reads"
     /\ \/ /\ call.does = "certify"
           /\ \E b \in Badges \ DOMAIN posted :
                /\ posted' = [c \in DOMAIN posted \cup {b} |-> IF c = b THEN [host |-> call.host, bond |-> call.amount, until |-> date + TermOfBadge]
                                                              ELSE posted[c]]
                /\ slashed' = [c \in DOMAIN posted' |-> IF c = b THEN 0 ELSE slashed[c]]
                /\ Serve(t, [call EXCEPT !.pc = "opens",
                                         !.rows = SetRow(rows, call.host, NewRow(b, call.seen, call.amount))])
        \/ /\ call.does = "slash" /\ call.host \in DOMAIN rows
           /\ Serve(t, [call EXCEPT !.pc = "opens", !.seen = rows[call.host],
                                    !.rows = SetRow(rows, call.host, Slashing(rows[call.host], call.amount))])
           /\ UNCHANGED <<posted, slashed>>
        \/ /\ call.does = "slash" /\ call.host \notin DOMAIN rows
           /\ Serve(t, Off) /\ UNCHANGED <<posted, slashed>>
     /\ UNCHANGED <<queued, date, sellers>>

(* writeFile empties the file, then fills it; what another was filling     *)
(* may stick out.                                                          *)
OpenRegister(t) ==
  /\ teller[t].pc = "opens" /\ sellers' = Blank
  /\ Serve(t, [teller[t] EXCEPT !.pc = "fills"])
  /\ Keeps

WrittenOff(call) == Least(call.amount, call.seen.left)

FillRegister(t) ==
  LET call == teller[t]
      others == {u \in Tellers \ {t} : teller[u].pc \in {"fills", "mixes"}}
  IN /\ call.pc \in {"fills", "mixes"}
     /\ \/ sellers' = call.rows
        \/ call.pc = "mixes" /\ sellers' = Blank
     /\ teller' = [u \in Tellers |-> IF u = t THEN Off
                                     ELSE IF u \in others THEN [teller[u] EXCEPT !.pc = "mixes"]
                                     ELSE teller[u]]
     /\ slashed' = IF call.does = "slash"
                   THEN [slashed EXCEPT ![call.seen.badge] = Least(call.seen.bond, @ + WrittenOff(call))]
                   ELSE slashed
     /\ UNCHANGED <<queued, date, posted>>

-----------------------------------------------------------------------------
(* runBuyerGate: a seller in the register asks for an attestation, a tier  *)
(* and a score; any other lets everybody through.  What the buyer leaves   *)
(* out is looked up for its wallet, or stays at the bottom.                *)
PolicyTier == 2
PolicyScore == 50
GateTier(q) == IF q.wallet = Blank \/ q.told THEN q.tier ELSE IF q.wallet.fails THEN q.tier ELSE q.wallet.tier
GateScore(q) == IF q.wallet = Blank \/ q.told THEN q.score ELSE IF q.wallet.fails THEN q.score ELSE q.wallet.score
GateViolated(q) == \/ q.attestation # "valid"
                   \/ ~q.told /\ q.wallet # Blank /\ (q.wallet.fails \/ q.wallet.barred)
                   \/ GateTier(q) < PolicyTier \/ GateScore(q) < PolicyScore

GateOpens(h, q) == Certified(sellers, h) = Blank \/ ~GateViolated(q)

(* runInsuranceAttest: 80% of the payment, up to the bond or 10 USDC.      *)
Insurable(h) == Bonded(Certified(sellers, h))

DatePasses == /\ date < MaxDate /\ date' = date + 1
              /\ UNCHANGED <<queued, sellers, teller, posted, slashed>>

(* The process dies; a file it was filling stays unreadable.               *)
RegisterCrash == /\ ~queued /\ \E t \in Tellers : teller[t] # Off
                 /\ teller' = [t \in Tellers |-> Off]
                 /\ Keeps /\ UNCHANGED sellers

SellerNext ==
  \/ \E t \in Tellers :
       \/ \E h \in Hosts : \/ \E m \in Merchants, n \in Bonds : Certify(t, h, m, n)
                           \/ \E n \in Slashes, semantic \in BOOLEAN : Slash(t, h, n, semantic)
       \/ ReadRegister(t) \/ OpenRegister(t) \/ FillRegister(t)
  \/ DatePasses \/ RegisterCrash

SellerSpec == SellerInit /\ [][SellerNext]_sellerVars

-----------------------------------------------------------------------------
(* A bond only shrinks by slashes that were written: however calls overlap *)
(* on the file, no record is short of more than was slashed off its badge, *)
(* nor above what was posted.  When calls come one by one the record tells *)
(* exactly what is left; the register forgets no host, so that nobody is   *)
(* insured on a bond that is gone, and no buyer without an attestation     *)
(* passes the gate of a seller whose badge has not expired.                *)
BondsKept ==
  LET Left(b) == posted[b].bond - slashed[b]
  IN /\ \A h \in DOMAIN Rows(sellers) :
          LET r == sellers[h]
          IN /\ Left(r.badge) <= r.left /\ r.left <= posted[r.badge].bond
             /\ queued => r.left = Left(r.badge)
     /\ queued /\ (\A t \in Tellers : teller[t] = Off) =>
          \A b \in DOMAIN posted :
            LET h == posted[b].host
            IN /\ h \in DOMAIN Rows(sellers)
               /\ Insurable(h) => \E c \in DOMAIN posted : posted[c].host = h /\ Left(c) > 0
               /\ \A q \in Buyers :
                    date <= posted[b].until /\ q.attestation = "missing" => ~GateOpens(h, q)
=============================================================================
