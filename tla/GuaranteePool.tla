--------------------------- MODULE GuaranteePool ---------------------------
(***************************************************************************)
(* The payment guarantee pool (lib/guarantee-pool.ts): policies, premiums  *)
(* and payouts in one JSON file.  Buying awaits the subject's reputation   *)
(* and then the file; claiming awaits the file and then the reputation;    *)
(* both write the whole copy back, with no lock.  All policies are about   *)
(* one subject.  Amounts are whole multiples of the 0.0001 USDC that       *)
(* toFixed(4) keeps.                                                       *)
(***************************************************************************)
EXTENDS Naturals, FiniteSets, FiniteSetsExt

CONSTANTS
  Calls,      \* lanes the administrator may have a call in
  Ids,        \* policy ids randomUUID can give
  Quotes,     \* [cover, premium] pairs quoteGuarantee can price
  Torn,       \* the file while, or after, it cannot be parsed
  NoId,
  Lanes,      \* how many calls may overlap: one value is chosen initially
  MaxOps,     \* bound: calls made in a behaviour
  MaxCrashes  \* bound: process crashes in a behaviour

ASSUME QuotesAssumption ==
  /\ Quotes \subseteq [cover : Nat \ {0}, premium : Nat \ {0}]
  /\ Lanes \subseteq Nat \ {0} /\ MaxOps \in Nat /\ MaxCrashes \in Nat
ASSUME NoIdAssumption == NoId \notin Ids
ASSUME FiniteAssumption == IsFiniteSet(Calls) /\ IsFiniteSet(Ids)

VARIABLES
  lanes,   \* how many calls overlap in this behaviour
  file,    \* data/guarantee-pool.json: a pool, or Torn
  risky,   \* whether the reputation network ranks the subject HIGH_RISK
  lapsed,  \* policies past their expiresAt
  pc,      \* where each call is; "mixed" writes over another's bytes
  policy,  \* the policy each call buys or claims
  quote,   \* what each purchase was quoted
  payout,  \* what each claim is about to pay
  copy,    \* the pool each call has read and edited
  taken,   \* per id, the premium received for it
  paid,    \* per id, the payout told to a caller, all told
  pays,    \* per id, the callers told of a payout
  ops, crashes

store   == <<file, copy>>
history == <<taken, paid, pays>>
bounds  == <<lanes, ops, crashes>>
vars    == <<file, copy, risky, lapsed, pc, policy, quote, payout, history, bounds>>

NoQuote  == [cover |-> 0, premium |-> 0]
Policies == [cover : Nat, premium : Nat, status : {"none", "active", "claimed", "expired"}]
Unsold   == [cover |-> 0, premium |-> 0, status |-> "none"]
Pool     == [premiums : Nat, payouts : Nat, policies : [Ids -> Policies]]
Empty    == [premiums |-> 0, payouts |-> 0, policies |-> [i \in Ids |-> Unsold]]

-----------------------------------------------------------------------------
Init ==
  /\ lanes \in Lanes /\ ops = 0 /\ crashes = 0
  /\ file = Empty /\ copy = [c \in Calls |-> Empty]
  /\ risky \in BOOLEAN /\ lapsed = {}
  /\ pc = [c \in Calls |-> "idle"] /\ policy = [c \in Calls |-> NoId]
  /\ quote = [c \in Calls |-> NoQuote] /\ payout = [c \in Calls |-> 0]
  /\ taken = [i \in Ids |-> 0] /\ paid = [i \in Ids |-> 0] /\ pays = [i \in Ids |-> 0]

(* read: a file that cannot be parsed counts as an empty pool. *)
Loaded == IF file = Torn THEN Empty ELSE file

Busy == {c \in Calls : pc[c] # "idle"}

(* POST /api/guarantee/buy (with a fresh random id), or /claim of a policy *)
(* whose purchase is over.                                                 *)
Issue(c, i, step) ==
  /\ c \notin Busy /\ Cardinality(Busy) < lanes /\ ops < MaxOps
  /\ IF step = "quoting"
     THEN taken[i] = 0 /\ i \notin {policy[d] : d \in Busy}
     ELSE taken[i] # 0 /\ ~\E d \in Busy : policy[d] = i /\ quote[d] # NoQuote
  /\ pc' = [pc EXCEPT ![c] = step] /\ policy' = [policy EXCEPT ![c] = i]
  /\ ops' = ops + 1
  /\ UNCHANGED <<store, risky, lapsed, quote, payout, history, lanes, crashes>>

(* The call answers, and forgets what it read. *)
Done(c) ==
  /\ policy' = [policy EXCEPT ![c] = NoId] /\ quote' = [quote EXCEPT ![c] = NoQuote]
  /\ payout' = [payout EXCEPT ![c] = 0] /\ copy' = [copy EXCEPT ![c] = Empty]

Declined(c) ==
  /\ pc' = [pc EXCEPT ![c] = "idle"] /\ Done(c)
  /\ UNCHANGED <<file, risky, lapsed, history, bounds>>

(* quoteGuarantee: a price from the reputation, or a refusal; an amount    *)
(* of zero is refused whatever the reputation.                             *)
Quote(c) ==
  /\ pc[c] = "quoting"
  /\ \/ Declined(c)
     \/ /\ ~risky
        /\ \E q \in Quotes : quote' = [quote EXCEPT ![c] = q]
        /\ pc' = [pc EXCEPT ![c] = "buying"]
        /\ UNCHANGED <<store, risky, lapsed, policy, payout, history, bounds>>

(* The new policy and the premium the caller has received for it join the  *)
(* copy just read.                                                         *)
Insured(p, i, q) ==
  [p EXCEPT !.premiums = @ + q.premium,
            !.policies[i] = [cover |-> q.cover, premium |-> q.premium, status |-> "active"]]

ReadBuy(c) ==
  LET i == policy[c]
  IN  /\ pc[c] = "buying" /\ pc' = [pc EXCEPT ![c] = "saving"]
      /\ copy' = [copy EXCEPT ![c] = Insured(Loaded, i, quote[c])]
      /\ taken' = [taken EXCEPT ![i] = quote[c].premium]
      /\ UNCHANGED <<file, risky, lapsed, policy, quote, payout, paid, pays, bounds>>

ClaimableAgain(p, i) == p.policies[i].status \in {"active", "claimed"}  \* mutant
Claimable(p, i) == p.policies[i].status = "active"

(* claimGuarantee reads the pool; an expired policy is written back as     *)
(* expired, an active one goes on to the reputation with the copy in hand. *)
ReadClaim(c) ==
  LET i == policy[c]
  IN  /\ pc[c] = "claiming"
      /\ IF ~Claimable(Loaded, i)
         THEN Declined(c)
         ELSE /\ IF i \in lapsed
                 THEN /\ copy' = [copy EXCEPT ![c] = [Loaded EXCEPT !.policies[i].status = "expired"]]
                      /\ pc' = [pc EXCEPT ![c] = "saving"]
                 ELSE /\ copy' = [copy EXCEPT ![c] = Loaded]
                      /\ pc' = [pc EXCEPT ![c] = "judging"]
              /\ UNCHANGED <<file, risky, lapsed, policy, quote, payout, history, bounds>>

UncappedPayout(p, i) == p.policies[i].cover                           \* mutant
Payout(p, i) ==
  LET available == IF p.payouts <= p.premiums THEN p.premiums - p.payouts ELSE 0
  IN  IF p.policies[i].cover <= available THEN p.policies[i].cover ELSE available

ClaimedStays(p, i) == [p EXCEPT !.payouts = @ + Payout(p, i)]          \* mutant
ClaimedPaid(p, i) ==                                                  \* mutant
  [p EXCEPT !.policies[i].status = "paid", !.payouts = @ + Payout(p, i)]
Claimed(p, i) ==
  [p EXCEPT !.policies[i].status = "claimed", !.payouts = @ + Payout(p, i)]

Judge(c) ==
  LET i == policy[c]
  IN  /\ pc[c] = "judging"
      /\ IF ~risky
         THEN Declined(c)
         ELSE /\ payout' = [payout EXCEPT ![c] = Payout(copy[c], i)]
              /\ copy' = [copy EXCEPT ![c] = Claimed(@, i)]
              /\ pc' = [pc EXCEPT ![c] = "saving"]
              /\ UNCHANGED <<file, risky, lapsed, policy, quote, history, bounds>>

(* writeFile opens with O_TRUNC: the file is empty until the bytes land. *)
Truncate(c) ==
  /\ pc[c] = "saving" /\ pc' = [pc EXCEPT ![c] = "writing"]
  /\ file' = Torn
  /\ UNCHANGED <<copy, risky, lapsed, policy, quote, payout, history, bounds>>

(* The bytes land, perhaps over another call's, and the call answers. *)
Write(c) ==
  LET i == policy[c]
  IN  /\ pc[c] \in {"writing", "mixed"}
      /\ file' \in {copy[c]} \cup (IF pc[c] = "mixed" THEN {Torn} ELSE {})
      /\ pc' = [d \in Calls |-> IF d = c THEN "idle"
                               ELSE IF pc[d] = "writing" THEN "mixed" ELSE pc[d]]
      /\ paid' = [paid EXCEPT ![i] = @ + payout[c]]
      /\ pays' = IF payout[c] > 0 THEN [pays EXCEPT ![i] = @ + 1] ELSE pays
      /\ Done(c)
      /\ UNCHANGED <<risky, lapsed, taken, bounds>>

(* Another subsystem's observations move the subject's tier. *)
Observe ==
  /\ risky' = ~risky
  /\ UNCHANGED <<store, lapsed, pc, policy, quote, payout, history, bounds>>

Expire(i) ==
  /\ taken[i] # 0 /\ i \notin lapsed /\ lapsed' = lapsed \cup {i}
  /\ UNCHANGED <<store, risky, pc, policy, quote, payout, history, bounds>>

Crash ==
  /\ crashes < MaxCrashes /\ crashes' = crashes + 1
  /\ pc' = [c \in Calls |-> "idle"] /\ policy' = [c \in Calls |-> NoId]
  /\ quote' = [c \in Calls |-> NoQuote] /\ payout' = [c \in Calls |-> 0]
  /\ copy' = [c \in Calls |-> Empty]
  /\ UNCHANGED <<file, risky, lapsed, history, lanes, ops>>

Next ==
  \/ \E c \in Calls :
       \/ \E i \in Ids : Issue(c, i, "quoting") \/ Issue(c, i, "claiming")
       \/ Quote(c) \/ ReadBuy(c) \/ ReadClaim(c) \/ Judge(c)
       \/ Truncate(c) \/ Write(c)
  \/ \E i \in Ids : Expire(i)
  \/ Observe \/ Crash

Spec == Init /\ [][Next]_vars
-----------------------------------------------------------------------------
TypeOK ==
  /\ lanes \in Lanes /\ ops \in 0 .. MaxOps /\ crashes \in 0 .. MaxCrashes
  /\ file = Torn \/ file \in Pool
  /\ copy \in [Calls -> Pool]
  /\ risky \in BOOLEAN /\ lapsed \subseteq Ids
  /\ pc \in [Calls -> {"idle", "quoting", "buying", "claiming", "judging",
                       "saving", "writing", "mixed"}]
  /\ policy \in [Calls -> Ids \cup {NoId}]
  /\ quote \in [Calls -> Quotes \cup {NoQuote}] /\ payout \in [Calls -> Nat]
  /\ taken \in [Ids -> Nat] /\ paid \in [Ids -> Nat] /\ pays \in [Ids -> Nat]

(* No version of the pool, on disk or in a call's hands, has paid out more *)
(* than the premiums it collected, whatever overlaps, tears or crashes     *)
(* (claimGuarantee caps the payout on the very copy it writes back).       *)
Solvent ==
  /\ file # Torn => file.payouts <= file.premiums
  /\ \A c \in Calls : copy[c].payouts <= copy[c].premiums

(* Every version's premiums are those of the policies it lists, and its    *)
(* payouts are covered by the policies it shows as claimed.                *)
Premiums(p) == [i \in Ids |-> p.policies[i].premium]
ClaimedCovers(p) == [i \in Ids |-> IF p.policies[i].status = "claimed" THEN p.policies[i].cover ELSE 0]
Balanced(p) == /\ p.premiums = SumFunction(Premiums(p))
               /\ p.payouts <= SumFunction(ClaimedCovers(p))
BooksBalance == Balanced(Loaded) /\ \A c \in Calls : Balanced(copy[c])

(* One call at a time, crashes included: all payouts told to callers are   *)
(* covered by premiums really received, and a policy pays at most once.    *)
SerialPoolNeverOverpays ==
  lanes = 1 =>
    /\ SumFunction(paid) <= SumFunction(taken)
    /\ \A i \in Ids : pays[i] <= 1
=============================================================================
