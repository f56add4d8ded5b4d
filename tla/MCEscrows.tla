----------------------------- MODULE MCEscrows -----------------------------
(***************************************************************************)
(* Instances for TLC of what happens to money that is held and to those    *)
(* who hold it: agent escrows, protocol escrows, seller bonds, a buyer's   *)
(* recourse and the trust protocol.  They share no state here, so a        *)
(* behaviour runs one of them (its focus) and leaves the others alone.     *)
(***************************************************************************)
EXTENDS EscrowLedger, EscrowFsm, SellerBonds, Recourse, TrustProtocol, TLC

VARIABLE focus

CONSTANTS p1, p2, old1, x1, x2, w1

(* The lanes of every module are the same two or three clients.            *)
MCSymmetry == Permutations(Lines) \cup Permutations({p1, p2})

OldEscrows == old1 :> "VERIFIED"

-----------------------------------------------------------------------------
(* Sellers and buyers, each one fact away from a clean one.                *)
NothingKnown == [wash |-> Blank, txns |-> Blank, ratio |-> Blank]
Merchant == [asked |-> NothingKnown, telemetry |-> Blank, p50 |-> Blank, probe |-> Blank, urlGradeF |-> FALSE, least |-> 70]
GivenMerchants ==
  {Merchant, [Merchant EXCEPT !.telemetry = [NothingKnown EXCEPT !.wash = 45]],
   [Merchant EXCEPT !.asked.wash = 25, !.p50 = 5000, !.probe = 200, !.least = 30, !.asked.txns = "spam"],
   [Merchant EXCEPT !.probe = 0, !.urlGradeF = TRUE, !.least = 10]}
Buyer == [attestation |-> "valid", told |-> TRUE, tier |-> 2, score |-> 60, wallet |-> Blank]
GivenBuyers ==
  {Buyer, [Buyer EXCEPT !.attestation = "missing"],
   [Buyer EXCEPT !.told = FALSE, !.wallet = [fails |-> FALSE, barred |-> FALSE, tier |-> 1, score |-> 70]]}

-----------------------------------------------------------------------------
Delivery == [forbidEmpty |-> TRUE, empty |-> FALSE, bytes |-> 90, missing |-> 0, least |-> Untold, pattern |-> Untold,
             sample |-> "long", phrase |-> "plain", intent |-> "met", priced |-> "given", placeholders |-> 0, threshold |-> Untold]
GivenResponses ==
  {[Delivery EXCEPT !.forbidEmpty = f, !.empty = e, !.bytes = n, !.missing = m, !.sample = s, !.phrase = p] :
     f, e \in BOOLEAN, n \in {0, 9, Untold}, m \in {0, 1, 4}, s \in {"short", "long"}, p \in {"plain", "lorem", "scam"}}
  \cup {[Delivery EXCEPT !.bytes = 9, !.least = 10, !.pattern = "misses", !.intent = i, !.priced = "missing",
                         !.placeholders = n, !.threshold = t] : i \in {"met", "unmet"}, n \in 0 .. 3, t \in {Untold, 0, 45}}
Claim == [rail |-> "card", reason |-> "non_delivery", empty |-> FALSE, receipt |-> Untold, score |-> Untold,
          schema |-> FALSE, charged |-> Untold, quoted |-> 5, twin |-> FALSE]
GivenClaims ==
  {[Claim EXCEPT !.rail = r, !.reason = w, !.empty = e, !.receipt = v, !.score = s, !.schema = e, !.charged = c, !.twin = t] :
     r \in {"card", "base-x402"}, w \in {"non_delivery", "quality_mismatch", "overcharge", "duplicate", "unauthorized"},
     e, t \in BOOLEAN, v \in {Untold, "invalid"}, s \in {Untold, 49, 50}, c \in {Untold, 5, 6}}
GivenSignals == [score : {Untold, 0, 49, 50, 69, 70}, unreachable : BOOLEAN, empty : BOOLEAN, generic : BOOLEAN,
                 paid : {Untold, 3}, quoted : {3, 4}]
Spend(m, c, n) == [merchant |-> m, category |-> c, rail |-> "base", amount |-> n, settled |-> n > 1]
GivenLedgers ==
  [records : {<<Spend("m", "data", 2)>>, <<Spend("m", "data", 2), Spend("x", "data", 3), Spend("m", "ads", 1)>>},
   monthly : {Untold, 5}, each : {Untold, 2, 3}, barred : {{}, {"ads", "bets"}}]
Watch(s, e) == [status |-> s, expected |-> e, price |-> 5]
GivenWatches == {<<Watch(s, e), Watch(t, Untold)>> : s \in {0, 200, 402, 500}, t \in {0, 301}, e \in {402, Untold}}

-----------------------------------------------------------------------------
Request == [does |-> "scan", agent |-> w1, cents |-> 1, peers |-> {}, hashes |-> 0, alike |-> FALSE, task |-> x1, root |-> x1,
            trace |-> x1, rate |-> 2, points |-> 0, disputes |-> 0, settlements |-> NoStore]
GivenRequests ==
  {[Request EXCEPT !.peers = {x1, x2}, !.hashes = 6, !.alike = TRUE],
   [Request EXCEPT !.does = "receipt"], [Request EXCEPT !.does = "receipt", !.trace = x2],
   [Request EXCEPT !.does = "audit"], [Request EXCEPT !.does = "passport"], [Request EXCEPT !.does = "trust", !.rate = 20],
   [Request EXCEPT !.does = "credit", !.disputes = 9, !.settlements = 60],
   [Request EXCEPT !.does = "pipeline", !.cents = 40000]}

-----------------------------------------------------------------------------
MCInit == /\ Init /\ FsmInit /\ SellerInit /\ RecourseInit /\ TrustInit
          /\ focus \in {"ledger", "protocol", "bonds", "recourse", "trust"}
          /\ focus # "bonds" => queued
          /\ focus # "trust" => stores = EmptyRows

MCNext ==
  /\ \/ focus = "ledger" /\ Next /\ UNCHANGED <<fsmVars, sellerVars, ruled, trustVars>>
     \/ focus = "protocol" /\ FsmNext /\ UNCHANGED <<vars, sellerVars, ruled, trustVars>>
     \/ focus = "bonds" /\ SellerNext /\ UNCHANGED <<vars, fsmVars, ruled, trustVars>>
     \/ focus = "recourse" /\ ruled = Untold /\ RecourseNext /\ UNCHANGED <<vars, fsmVars, sellerVars, trustVars>>
     \/ focus = "trust" /\ TrustNext /\ UNCHANGED <<vars, fsmVars, sellerVars, ruled>>
  /\ UNCHANGED focus

MCSpec == MCInit /\ [][MCNext]_<<vars, fsmVars, sellerVars, ruled, trustVars, focus>>
=============================================================================
