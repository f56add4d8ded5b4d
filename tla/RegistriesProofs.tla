------------------------- MODULE RegistriesProofs -------------------------
(***************************************************************************)
(* Theorems of GuaranteePool, for any calls, policies, prices and crashes, *)
(* of Store, for any data, clock and crashes, of Erc8004, for any          *)
(* calculations, readings of the registries, lives and timeouts, and of    *)
(* Registries, for any legacy file, urls, requests and crashes.            *)
(***************************************************************************)
EXTENDS GuaranteePool, Store, Erc8004, Registries, SumTheorems, SequenceTheorems

Sound(p) == p \in Pool /\ p.payouts <= p.premiums

LEMMA EmptySound == Sound(Empty)
  BY DEF Sound, Pool, Empty, Unsold, Policies

LEMMA LoadedSound ==
  ASSUME file # Torn => Sound(file) PROVE Sound(Loaded)
  BY EmptySound DEF Loaded

LEMMA InsuredSound ==
  ASSUME NEW p, Sound(p), NEW i \in Ids, NEW q, q.cover \in Nat, q.premium \in Nat
  PROVE  Sound(Insured(p, i, q))
<1>1. [cover |-> q.cover, premium |-> q.premium, status |-> "active"] \in Policies
  BY DEF Policies
<1>2. p.premiums + q.premium \in Nat /\ p.payouts <= p.premiums + q.premium
  BY DEF Sound, Pool
<1> QED  BY <1>1, <1>2 DEF Sound, Pool, Insured

LEMMA StatusSound ==
  ASSUME NEW p, Sound(p), NEW i \in Ids, NEW s \in {"claimed", "expired"}
  PROVE  LET r == [p EXCEPT !.policies[i].status = s]
         IN  Sound(r) /\ r.premiums = p.premiums /\ r.payouts = p.payouts
  BY DEF Sound, Pool, Policies

LEMMA PayoutCapped ==
  ASSUME NEW p, Sound(p), NEW i \in Ids
  PROVE  Payout(p, i) \in Nat /\ Payout(p, i) <= p.premiums - p.payouts
<1>1. p.policies[i].cover \in Nat
  BY DEF Sound, Pool, Policies
<1>2. p.premiums \in Nat /\ p.payouts \in Nat /\ p.payouts <= p.premiums
  BY DEF Sound, Pool
<1> QED  BY <1>1, <1>2 DEF Payout

LEMMA ClaimedSound ==
  ASSUME NEW p, Sound(p), NEW i \in Ids
  PROVE  Sound(Claimed(p, i))
<1> DEFINE r == [p EXCEPT !.policies[i].status = "claimed"]
<1>1. Sound(r) /\ r.premiums = p.premiums /\ r.payouts = p.payouts
  BY StatusSound
<1>2. Claimed(p, i) = [r EXCEPT !.payouts = p.payouts + Payout(p, i)]
  BY DEF Claimed, Sound, Pool
<1> HIDE DEF r
<1> QED  BY <1>1, <1>2, PayoutCapped DEF Sound, Pool

(* The inductive invariant: besides types and solvency, a call under way   *)
(* is about a policy.                                                      *)
Underway == \A c \in Calls : pc[c] # "idle" => policy[c] \in Ids

PoolInv == TypeOK /\ Solvent /\ Underway

LEMMA PoolInvSound ==
  ASSUME PoolInv
  PROVE  /\ file # Torn => Sound(file)
         /\ Sound(Loaded)
         /\ \A c \in Calls : Sound(copy[c])
  BY LoadedSound DEF PoolInv, TypeOK, Solvent, Sound

LEMMA InitPool == Init => PoolInv
<1> SUFFICES ASSUME Init PROVE PoolInv
  OBVIOUS
<1>1. TypeOK
  BY EmptySound, QuotesAssumption DEF Init, TypeOK, Sound
<1>2. Solvent /\ Underway
  BY EmptySound DEF Init, Solvent, Underway, Sound
<1> QED  BY <1>1, <1>2 DEF PoolInv

(* What every step of a call has in common: one lane moves, the pool it    *)
(* holds stays sound, and the rest of the state keeps its type.            *)
LEMMA LaneStep ==
  ASSUME PoolInv, NEW c \in Calls, NEW step, NEW p, Sound(p),
         step \in {"idle", "quoting", "buying", "claiming", "judging", "saving", "writing"},
         pc' = [pc EXCEPT ![c] = step], copy' = [copy EXCEPT ![c] = p],
         policy' \in [Calls -> Ids \cup {NoId}],
         \A d \in Calls \ {c} : policy'[d] = policy[d],
         step # "idle" => policy'[c] \in Ids,
         quote' \in [Calls -> Quotes \cup {NoQuote}], payout' \in [Calls -> Nat],
         taken' \in [Ids -> Nat], ops' \in 0 .. MaxOps,
         file' \in {file, Torn}, UNCHANGED <<risky, lapsed, paid, pays, lanes, crashes>>
  PROVE  PoolInv'
<1>1. \A d \in Calls : copy'[d] = IF d = c THEN p ELSE copy[d]
  BY DEF PoolInv, TypeOK
<1>2. \A d \in Calls : pc'[d] = IF d = c THEN step ELSE pc[d]
  BY DEF PoolInv, TypeOK
<1>3. TypeOK'
  <2>1. copy' \in [Calls -> Pool]
    BY DEF PoolInv, TypeOK, Sound
  <2>2. /\ file' = Torn \/ file' \in Pool
        /\ pc' \in [Calls -> {"idle", "quoting", "buying", "claiming", "judging",
                              "saving", "writing", "mixed"}]
    BY DEF PoolInv, TypeOK
  <2> QED  BY <2>1, <2>2 DEF PoolInv, TypeOK
<1>4. Solvent'
  BY <1>1 DEF PoolInv, Solvent, Sound
<1>5. Underway'
  BY <1>1, <1>2 DEF PoolInv, Underway
<1> QED  BY <1>3, <1>4, <1>5 DEF PoolInv

LEMMA DeclinedStep ==
  ASSUME PoolInv, NEW c \in Calls, Declined(c) PROVE PoolInv'
<1>1. Sound(Empty)
  BY EmptySound
<1>2. /\ policy' \in [Calls -> Ids \cup {NoId}]
      /\ quote' \in [Calls -> Quotes \cup {NoQuote}] /\ payout' \in [Calls -> Nat]
      /\ \A d \in Calls \ {c} : policy'[d] = policy[d]
  BY DEF PoolInv, TypeOK, Declined, Done
<1>3. /\ pc' = [pc EXCEPT ![c] = "idle"] /\ copy' = [copy EXCEPT ![c] = Empty]
      /\ file' = file /\ taken' \in [Ids -> Nat] /\ ops' \in 0 .. MaxOps
      /\ UNCHANGED <<risky, lapsed, paid, pays, lanes, crashes>>
  BY DEF PoolInv, TypeOK, Declined, Done, history, bounds
<1> QED  BY <1>1, <1>2, <1>3, LaneStep

LEMMA PoolStep == PoolInv /\ [Next]_vars => PoolInv'
<1> SUFFICES ASSUME PoolInv, [Next]_vars PROVE PoolInv'
  OBVIOUS
<1> USE DEF store, history, bounds
<1>1. ASSUME NEW c \in Calls, NEW i \in Ids, NEW step \in {"quoting", "claiming"},
             Issue(c, i, step)
      PROVE  PoolInv'
  <2>1. copy' = [copy EXCEPT ![c] = copy[c]] /\ Sound(copy[c])
    BY <1>1, PoolInvSound DEF Issue, PoolInv, TypeOK
  <2>2. /\ policy' \in [Calls -> Ids \cup {NoId}] /\ policy'[c] = i
        /\ \A d \in Calls \ {c} : policy'[d] = policy[d]
    BY <1>1 DEF Issue, PoolInv, TypeOK
  <2>3. /\ pc' = [pc EXCEPT ![c] = step] /\ ops' \in 0 .. MaxOps /\ file' = file
        /\ quote' \in [Calls -> Quotes \cup {NoQuote}] /\ payout' \in [Calls -> Nat]
        /\ taken' \in [Ids -> Nat]
        /\ UNCHANGED <<risky, lapsed, paid, pays, lanes, crashes>>
    BY <1>1, QuotesAssumption DEF Issue, PoolInv, TypeOK
  <2> QED  BY <2>1, <2>2, <2>3, LaneStep
<1>2. ASSUME NEW c \in Calls, Quote(c) PROVE PoolInv'
  <2>1. CASE Declined(c)
    BY <2>1, DeclinedStep
  <2>2. CASE ~Declined(c)
    <3>1. copy' = [copy EXCEPT ![c] = copy[c]] /\ Sound(copy[c])
      BY <1>2, <2>2, PoolInvSound DEF Quote, PoolInv, TypeOK
    <3>2. /\ pc' = [pc EXCEPT ![c] = "buying"] /\ ops' \in 0 .. MaxOps /\ file' = file
          /\ quote' \in [Calls -> Quotes \cup {NoQuote}] /\ payout' \in [Calls -> Nat]
          /\ taken' \in [Ids -> Nat] /\ policy' = policy
          /\ UNCHANGED <<risky, lapsed, paid, pays, lanes, crashes>>
      BY <1>2, <2>2 DEF Quote, PoolInv, TypeOK
    <3>3. policy' \in [Calls -> Ids \cup {NoId}] /\ policy'[c] \in Ids
      BY <1>2, <3>2 DEF Quote, PoolInv, TypeOK, Underway
    <3> QED  BY <3>1, <3>2, <3>3, LaneStep
  <2> QED  BY <2>1, <2>2
<1>3. ASSUME NEW c \in Calls, ReadBuy(c) PROVE PoolInv'
  <2> DEFINE i == policy[c]
             p == Insured(Loaded, i, quote[c])
  <2>1. i \in Ids /\ quote[c].cover \in Nat /\ quote[c].premium \in Nat
    BY <1>3, QuotesAssumption DEF ReadBuy, PoolInv, TypeOK, Underway, NoQuote
  <2>2. Sound(p)
    BY <2>1, PoolInvSound, InsuredSound
  <2>3. /\ pc' = [pc EXCEPT ![c] = "saving"] /\ copy' = [copy EXCEPT ![c] = p]
        /\ ops' \in 0 .. MaxOps /\ file' = file /\ policy' = policy
        /\ policy' \in [Calls -> Ids \cup {NoId}]
        /\ quote' \in [Calls -> Quotes \cup {NoQuote}] /\ payout' \in [Calls -> Nat]
        /\ taken' \in [Ids -> Nat]
        /\ UNCHANGED <<risky, lapsed, paid, pays, lanes, crashes>>
    BY <1>3, <2>1 DEF ReadBuy, PoolInv, TypeOK
  <2> HIDE DEF p
  <2> QED  BY <2>1, <2>2, <2>3, LaneStep
<1>4. ASSUME NEW c \in Calls, ReadClaim(c) PROVE PoolInv'
  <2> DEFINE i == policy[c]
  <2>1. CASE ~Claimable(Loaded, i)
    BY <1>4, <2>1, DeclinedStep DEF ReadClaim
  <2>2. CASE Claimable(Loaded, i)
    <3>1. Sound(Loaded)
      BY PoolInvSound
    <3>2. i \in Ids
      BY <1>4 DEF ReadClaim, PoolInv, Underway
    <3>3. /\ ops' \in 0 .. MaxOps /\ file' = file /\ policy' = policy
          /\ policy' \in [Calls -> Ids \cup {NoId}]
          /\ quote' \in [Calls -> Quotes \cup {NoQuote}] /\ payout' \in [Calls -> Nat]
          /\ taken' \in [Ids -> Nat]
          /\ UNCHANGED <<risky, lapsed, paid, pays, lanes, crashes>>
      BY <1>4, <2>2 DEF ReadClaim, PoolInv, TypeOK
    <3>4. CASE i \in lapsed
      <4> DEFINE p == [Loaded EXCEPT !.policies[i].status = "expired"]
      <4>1. Sound(p)
        BY <3>1, <3>2, StatusSound
      <4>2. pc' = [pc EXCEPT ![c] = "saving"] /\ copy' = [copy EXCEPT ![c] = p]
        BY <1>4, <2>2, <3>4 DEF ReadClaim
      <4> HIDE DEF p
      <4> QED  BY <3>2, <3>3, <4>1, <4>2, LaneStep
    <3>5. CASE i \notin lapsed
      <4>1. pc' = [pc EXCEPT ![c] = "judging"] /\ copy' = [copy EXCEPT ![c] = Loaded]
        BY <1>4, <2>2, <3>5 DEF ReadClaim
      <4> QED  BY <3>1, <3>2, <3>3, <4>1, LaneStep
    <3> QED  BY <3>4, <3>5
  <2> QED  BY <2>1, <2>2
<1>5. ASSUME NEW c \in Calls, Judge(c) PROVE PoolInv'
  <2> DEFINE i == policy[c]
             p == Claimed(copy[c], i)
  <2>1. CASE ~risky
    BY <1>5, <2>1, DeclinedStep DEF Judge
  <2>2. CASE risky
    <3>1. i \in Ids /\ Sound(copy[c])
      BY <1>5, PoolInvSound DEF Judge, PoolInv, Underway
    <3>2. Sound(p) /\ Payout(copy[c], i) \in Nat
      BY <3>1, ClaimedSound, PayoutCapped
    <3>3. /\ pc' = [pc EXCEPT ![c] = "saving"] /\ copy' = [copy EXCEPT ![c] = p]
          /\ ops' \in 0 .. MaxOps /\ file' = file /\ policy' = policy
          /\ policy' \in [Calls -> Ids \cup {NoId}]
          /\ quote' \in [Calls -> Quotes \cup {NoQuote}] /\ payout' \in [Calls -> Nat]
          /\ taken' \in [Ids -> Nat]
          /\ UNCHANGED <<risky, lapsed, paid, pays, lanes, crashes>>
      BY <1>5, <2>2, <3>2 DEF Judge, PoolInv, TypeOK
    <3> HIDE DEF p
    <3> QED  BY <3>1, <3>2, <3>3, LaneStep
  <2> QED  BY <2>1, <2>2
<1>6. ASSUME NEW c \in Calls, Truncate(c) PROVE PoolInv'
  <2>1. copy' = [copy EXCEPT ![c] = copy[c]] /\ Sound(copy[c])
    BY <1>6, PoolInvSound DEF Truncate, PoolInv, TypeOK
  <2>2. /\ pc' = [pc EXCEPT ![c] = "writing"] /\ ops' \in 0 .. MaxOps /\ file' = Torn
        /\ quote' \in [Calls -> Quotes \cup {NoQuote}] /\ payout' \in [Calls -> Nat]
        /\ taken' \in [Ids -> Nat] /\ policy' = policy
        /\ UNCHANGED <<risky, lapsed, paid, pays, lanes, crashes>>
    BY <1>6 DEF Truncate, PoolInv, TypeOK
  <2>3. policy' \in [Calls -> Ids \cup {NoId}] /\ policy'[c] \in Ids
    BY <1>6, <2>2 DEF Truncate, PoolInv, TypeOK, Underway
  <2> QED  BY <2>1, <2>2, <2>3, LaneStep
<1>7. ASSUME NEW c \in Calls, Write(c) PROVE PoolInv'
  <2>1. policy[c] \in Ids /\ payout[c] \in Nat /\ Sound(copy[c]) /\ Sound(Empty)
    BY <1>7, PoolInvSound, EmptySound DEF Write, PoolInv, TypeOK, Underway
  <2>2. paid' \in [Ids -> Nat] /\ pays' \in [Ids -> Nat]
    BY <1>7, <2>1 DEF Write, PoolInv, TypeOK
  <2>3. /\ policy' \in [Calls -> Ids \cup {NoId}] /\ payout' \in [Calls -> Nat]
        /\ quote' \in [Calls -> Quotes \cup {NoQuote}]
        /\ pc' \in [Calls -> {"idle", "quoting", "buying", "claiming", "judging",
                             "saving", "writing", "mixed"}]
    BY <1>7 DEF Write, Done, PoolInv, TypeOK
  <2>4. \A d \in Calls : copy'[d] = copy[d] \/ copy'[d] = Empty
    BY <1>7 DEF Write, Done, PoolInv, TypeOK
  <2>5. copy' \in [Calls -> Pool] /\ \A d \in Calls : Sound(copy'[d])
    BY <1>7, <2>1, <2>4, PoolInvSound DEF Write, Done, PoolInv, TypeOK, Sound
  <2>6. file' = Torn \/ Sound(file')
    BY <1>7, <2>1 DEF Write
  <2>7. TypeOK'
    BY <1>7, <2>2, <2>3, <2>5, <2>6 DEF Write, PoolInv, TypeOK, Sound
  <2>8. Solvent'
    BY <2>5, <2>6 DEF Solvent, Sound
  <2>9. Underway'
    BY <1>7 DEF Write, Done, PoolInv, TypeOK, Underway
  <2> QED  BY <2>7, <2>8, <2>9 DEF PoolInv
<1>8. ASSUME NEW i \in Ids, Expire(i) PROVE PoolInv'
  BY <1>8 DEF Expire, PoolInv, TypeOK, Solvent, Underway
<1>9. ASSUME Observe PROVE PoolInv'
  BY <1>9 DEF Observe, PoolInv, TypeOK, Solvent, Underway
<1>10. ASSUME Crash PROVE PoolInv'
  <2>1. TypeOK'
    BY <1>10, EmptySound, QuotesAssumption DEF Crash, PoolInv, TypeOK, Sound
  <2>2. Solvent' /\ Underway'
    BY <1>10, EmptySound DEF Crash, PoolInv, Solvent, Underway, Sound
  <2> QED  BY <2>1, <2>2 DEF PoolInv
<1>11. CASE UNCHANGED vars
  BY <1>11 DEF vars, PoolInv, TypeOK, Solvent, Underway
<1> QED  BY <1>1, <1>2, <1>3, <1>4, <1>5, <1>6, <1>7, <1>8, <1>9, <1>10, <1>11 DEF Next

LEMMA PoolInductive == Spec => []PoolInv
<1>1. Init => PoolInv
  BY InitPool
<1>2. PoolInv /\ [Next]_vars => PoolInv'
  BY PoolStep
<1> QED  BY <1>1, <1>2, PTL DEF Spec

(* Every variable keeps its type. *)
THEOREM PoolTyping == Spec => []TypeOK
<1>1. PoolInv => TypeOK
  BY DEF PoolInv
<1> QED  BY <1>1, PoolInductive, PTL

(* No version of the pool ever pays out more than it collected, however    *)
(* many calls overlap and wherever the process dies: the cap is computed   *)
(* on the copy that claimGuarantee writes back.                            *)
THEOREM PoolSolvency == Spec => []Solvent
<1>1. PoolInv => Solvent
  BY DEF PoolInv
<1> QED  BY <1>1, PoolInductive, PTL

-----------------------------------------------------------------------------
(* The books.  A version of the pool lists no policy whose premium has not *)
(* been taken; a call that buys has taken none yet, and is alone in buying *)
(* that policy; the policy a call judges is active in its hands.           *)
Tidy(p, t) == Balanced(p) /\ \A i \in Ids : t[i] = 0 => p.policies[i] = Unsold
Buying(c) == pc[c] \in {"quoting", "buying"}
Lane(c) == /\ Buying(c) => taken[policy[c]] = 0
           /\ pc[c] = "buying" => quote[c] \in Quotes
           /\ pc[c] = "judging" => copy[c].policies[policy[c]].status = "active"
           /\ pc[c] \notin {"saving", "writing", "mixed"} => payout[c] = 0
           /\ pc[c] = "idle" => copy[c] = Empty

BooksInv == /\ Tidy(Loaded, taken)
            /\ \A c \in Calls : Tidy(copy[c], taken) /\ Lane(c)
            /\ \A c, d \in Calls : Buying(c) /\ Buying(d) /\ c # d => policy[c] # policy[d]

LEMMA PremiumsTyped ==
  ASSUME NEW p \in Pool
  PROVE  /\ DOMAIN Premiums(p) = Ids /\ \A i \in Ids : Premiums(p)[i] \in Nat
         /\ DOMAIN ClaimedCovers(p) = Ids /\ \A i \in Ids : ClaimedCovers(p)[i] \in Nat
         /\ SumFunction(Premiums(p)) \in Nat /\ SumFunction(ClaimedCovers(p)) \in Nat
<1>1. \A i \in Ids : p.policies[i].premium \in Nat /\ p.policies[i].cover \in Nat
  BY DEF Pool, Policies
<1>2. /\ DOMAIN Premiums(p) = Ids /\ \A i \in Ids : Premiums(p)[i] \in Nat
      /\ DOMAIN ClaimedCovers(p) = Ids /\ \A i \in Ids : ClaimedCovers(p)[i] \in Nat
  BY <1>1 DEF Premiums, ClaimedCovers
<1> QED  BY <1>2, FiniteAssumption, SumIsNat DEF SumFunction

LEMMA EmptyKept ==
  ASSUME NEW t PROVE Tidy(Empty, t)
<1>1. /\ DOMAIN Premiums(Empty) = Ids /\ \A i \in Ids : Premiums(Empty)[i] = 0
      /\ DOMAIN ClaimedCovers(Empty) = Ids /\ \A i \in Ids : ClaimedCovers(Empty)[i] = 0
  BY DEF Premiums, ClaimedCovers, Empty, Unsold
<1>2. SumFunction(Premiums(Empty)) = 0 /\ SumFunction(ClaimedCovers(Empty)) = 0
  BY <1>1, FiniteAssumption, SumOfZeros DEF SumFunction
<1> QED  BY <1>2 DEF Tidy, Balanced, Empty

(* One policy of a version changes: what that does to the two sums.        *)
LEMMA OnePolicy ==
  ASSUME NEW p \in Pool, NEW r \in Pool, NEW i \in Ids,
         \A j \in Ids \ {i} : r.policies[j] = p.policies[j]
  PROVE  /\ SumFunction(Premiums(r)) =
              SumFunction(Premiums(p)) - p.policies[i].premium + r.policies[i].premium
         /\ SumFunction(ClaimedCovers(r)) =
              SumFunction(ClaimedCovers(p)) - ClaimedCovers(p)[i] + ClaimedCovers(r)[i]
<1> DEFINE f == Premiums(p)
           g == Premiums(r)
           u == ClaimedCovers(p)
           v == ClaimedCovers(r)
<1>1. /\ \A j \in Ids \ {i} : g[j] = f[j] /\ v[j] = u[j]
      /\ f[i] = p.policies[i].premium /\ g[i] = r.policies[i].premium
  BY DEF Premiums, ClaimedCovers
<1>2. /\ DOMAIN f = Ids /\ DOMAIN g = Ids /\ DOMAIN u = Ids /\ DOMAIN v = Ids
      /\ \A j \in Ids : f[j] \in Nat /\ g[j] \in Nat /\ u[j] \in Nat /\ v[j] \in Nat
  BY PremiumsTyped
<1> HIDE DEF f, g, u, v
<1>3. /\ SumFunctionOnSet(g, Ids) = SumFunctionOnSet(f, Ids) - f[i] + g[i]
      /\ SumFunctionOnSet(v, Ids) = SumFunctionOnSet(u, Ids) - u[i] + v[i]
  BY <1>1, <1>2, FiniteAssumption, SumEdited
<1> QED  BY <1>1, <1>2, <1>3 DEF SumFunction, f, g, u, v

LEMMA InsuredBalanced ==
  ASSUME NEW p, Sound(p), Balanced(p), NEW i \in Ids, p.policies[i] = Unsold, NEW q \in Quotes
  PROVE  Balanced(Insured(p, i, q))
<1> DEFINE r == Insured(p, i, q)
<1>1. q.cover \in Nat /\ q.premium \in Nat
  BY QuotesAssumption
<1>2. p \in Pool /\ r \in Pool
  BY <1>1, InsuredSound DEF Sound
<1>3. /\ \A j \in Ids \ {i} : r.policies[j] = p.policies[j]
      /\ r.policies[i] = [cover |-> q.cover, premium |-> q.premium, status |-> "active"]
      /\ r.premiums = p.premiums + q.premium /\ r.payouts = p.payouts
  BY <1>2 DEF Insured, Pool
<1>4. ClaimedCovers(p)[i] = 0 /\ ClaimedCovers(r)[i] = 0 /\ p.policies[i].premium = 0
  BY <1>3 DEF ClaimedCovers, Unsold
<1> HIDE DEF r
<1>5. /\ SumFunction(Premiums(r)) = SumFunction(Premiums(p)) - 0 + q.premium
      /\ SumFunction(ClaimedCovers(r)) = SumFunction(ClaimedCovers(p)) - 0 + 0
  BY <1>2, <1>3, <1>4, OnePolicy
<1>6. SumFunction(Premiums(p)) \in Nat /\ SumFunction(ClaimedCovers(p)) \in Nat
  BY <1>2, PremiumsTyped
<1>7. Balanced(r)
  BY <1>1, <1>3, <1>5, <1>6 DEF Balanced
<1> QED  BY <1>7 DEF r

LEMMA ExpiredBalanced ==
  ASSUME NEW p, Sound(p), Balanced(p), NEW i \in Ids, p.policies[i].status = "active"
  PROVE  Balanced([p EXCEPT !.policies[i].status = "expired"])
<1> DEFINE r == [p EXCEPT !.policies[i].status = "expired"]
<1>1. p \in Pool /\ r \in Pool /\ r.premiums = p.premiums /\ r.payouts = p.payouts
  BY StatusSound DEF Sound
<1>2. /\ \A j \in Ids \ {i} : r.policies[j] = p.policies[j]
      /\ r.policies[i].premium = p.policies[i].premium /\ r.policies[i].status = "expired"
  BY <1>1 DEF Pool, Policies
<1>3. ClaimedCovers(p)[i] = 0 /\ ClaimedCovers(r)[i] = 0
  BY <1>2 DEF ClaimedCovers
<1> HIDE DEF r
<1>4. /\ SumFunction(Premiums(r)) = SumFunction(Premiums(p)) - p.policies[i].premium + p.policies[i].premium
      /\ SumFunction(ClaimedCovers(r)) = SumFunction(ClaimedCovers(p)) - 0 + 0
  BY <1>1, <1>2, <1>3, OnePolicy
<1>5. /\ SumFunction(Premiums(p)) \in Nat /\ SumFunction(ClaimedCovers(p)) \in Nat
      /\ p.policies[i].premium \in Nat
  BY <1>1, PremiumsTyped DEF Pool, Policies
<1>6. Balanced(r)
  BY <1>1, <1>4, <1>5 DEF Balanced
<1> QED  BY <1>6 DEF r

LEMMA ClaimedBalanced ==
  ASSUME NEW p, Sound(p), Balanced(p), NEW i \in Ids, p.policies[i].status = "active"
  PROVE  /\ Balanced(Claimed(p, i)) /\ Claimed(p, i).policies[i].status = "claimed"
         /\ \A j \in Ids \ {i} : Claimed(p, i).policies[j] = p.policies[j]
         /\ Claimed(p, i).premiums = p.premiums /\ Claimed(p, i).payouts = p.payouts + Payout(p, i)
<1> DEFINE r == Claimed(p, i)
<1>1. p \in Pool /\ r \in Pool
  BY ClaimedSound DEF Sound
<1>2. /\ \A j \in Ids \ {i} : r.policies[j] = p.policies[j]
      /\ r.policies[i].premium = p.policies[i].premium /\ r.policies[i].cover = p.policies[i].cover
      /\ r.policies[i].status = "claimed"
      /\ r.premiums = p.premiums /\ r.payouts = p.payouts + Payout(p, i)
  BY <1>1 DEF Claimed, Pool, Policies
<1>3. ClaimedCovers(p)[i] = 0 /\ ClaimedCovers(r)[i] = p.policies[i].cover
  BY <1>2 DEF ClaimedCovers
<1>4. /\ p.policies[i].cover \in Nat /\ p.policies[i].premium \in Nat
      /\ p.premiums \in Nat /\ p.payouts \in Nat /\ p.payouts <= p.premiums
  BY <1>1 DEF Sound, Pool, Policies
<1>5. Payout(p, i) \in Nat /\ Payout(p, i) <= p.policies[i].cover
  BY <1>4 DEF Payout
<1> HIDE DEF r
<1>6. /\ SumFunction(Premiums(r)) = SumFunction(Premiums(p)) - p.policies[i].premium + p.policies[i].premium
      /\ SumFunction(ClaimedCovers(r)) = SumFunction(ClaimedCovers(p)) - 0 + p.policies[i].cover
  BY <1>1, <1>2, <1>3, OnePolicy
<1>7. SumFunction(Premiums(p)) \in Nat /\ SumFunction(ClaimedCovers(p)) \in Nat
  BY <1>1, PremiumsTyped
<1>8. Balanced(r)
  BY <1>2, <1>4, <1>5, <1>6, <1>7 DEF Balanced
<1> QED  BY <1>2, <1>8 DEF r

-----------------------------------------------------------------------------
(* A step of one call.  A version kept stays kept while taken grows.       *)
LEMMA LaneBooks ==
  ASSUME BooksInv, NEW c \in Calls,
         \A d \in Calls \ {c} : /\ pc'[d] = pc[d] /\ policy'[d] = policy[d] /\ quote'[d] = quote[d]
                                /\ copy'[d] = copy[d] /\ payout'[d] = payout[d],
         \A i \in Ids : taken'[i] = 0 => taken[i] = 0,
         \A d \in Calls \ {c} : Buying(d) => taken'[policy[d]] = 0,
         file' \in {file, Torn}, Tidy(copy'[c], taken'), Lane(c)',
         Buying(c)' => \A d \in Calls \ {c} : Buying(d) => policy[d] # policy'[c]
  PROVE  BooksInv'
<1>1. \A p : Tidy(p, taken) => Tidy(p, taken')
  BY DEF Tidy
<1>2. Tidy(Loaded, taken)'
  <2>1. Loaded' \in {Loaded, Empty}
    BY DEF Loaded
  <2>2. Tidy(Loaded', taken')
    BY <1>1, <2>1, EmptyKept DEF BooksInv
  <2> QED  BY <2>2
<1>3. ASSUME NEW d \in Calls PROVE Tidy(copy[d], taken)' /\ Lane(d)'
  <2>1. Tidy(copy'[d], taken')
    BY <1>1 DEF BooksInv
  <2>2. Lane(d)'
    BY DEF BooksInv, Lane, Buying
  <2> QED  BY <2>1, <2>2
<1>4. ASSUME NEW d \in Calls, NEW e \in Calls, Buying(d)', Buying(e)', d # e
      PROVE  policy'[d] # policy'[e]
  BY <1>4 DEF BooksInv, Buying
<1> QED  BY <1>2, <1>3, <1>4 DEF BooksInv

LEMMA DeclinedBooks ==
  ASSUME PoolInv, BooksInv, NEW c \in Calls, Declined(c) PROVE BooksInv'
<1>1. /\ pc'[c] = "idle" /\ copy'[c] = Empty /\ payout'[c] = 0
      /\ \A d \in Calls \ {c} : /\ pc'[d] = pc[d] /\ policy'[d] = policy[d] /\ quote'[d] = quote[d]
                                /\ copy'[d] = copy[d] /\ payout'[d] = payout[d]
      /\ taken' = taken /\ file' = file
  BY DEF PoolInv, TypeOK, Declined, Done, history
<1>2. Tidy(copy'[c], taken')
  BY <1>1, EmptyKept
<1>3. Lane(c)' /\ ~Buying(c)'
  BY <1>1 DEF Lane, Buying
<1>4. \A d \in Calls \ {c} : Buying(d) => taken'[policy[d]] = 0
  BY <1>1 DEF BooksInv, Lane
<1> QED  BY <1>1, <1>2, <1>3, <1>4, LaneBooks

LEMMA BooksStep == PoolInv /\ BooksInv /\ [Next]_vars => BooksInv'
<1> SUFFICES ASSUME PoolInv, BooksInv, [Next]_vars PROVE BooksInv'
  OBVIOUS
<1> USE DEF store, history, bounds
<1>1. ASSUME NEW c \in Calls, NEW i \in Ids, NEW step \in {"quoting", "claiming"},
             Issue(c, i, step)
      PROVE  BooksInv'
  <2>1. /\ pc[c] = "idle" /\ pc'[c] = step /\ policy'[c] = i
        /\ \A d \in Calls : quote'[d] = quote[d] /\ copy'[d] = copy[d] /\ payout'[d] = payout[d]
        /\ \A d \in Calls \ {c} : pc'[d] = pc[d] /\ policy'[d] = policy[d]
        /\ taken' = taken /\ file' = file
    BY <1>1 DEF Issue, Busy, PoolInv, TypeOK
  <2>2. step = "quoting" => taken[i] = 0 /\ \A d \in Calls : pc[d] # "idle" => policy[d] # i
    BY <1>1 DEF Issue, Busy
  <2>3. Tidy(copy'[c], taken') /\ payout[c] = 0
    BY <2>1 DEF BooksInv, Lane
  <2>4. Lane(c)'
    BY <2>1, <2>2, <2>3 DEF Lane, Buying
  <2>5. Buying(c)' => \A d \in Calls \ {c} : Buying(d) => policy[d] # policy'[c]
    BY <2>1, <2>2 DEF Buying
  <2>6. \A d \in Calls \ {c} : Buying(d) => taken'[policy[d]] = 0
    BY <2>1 DEF BooksInv, Lane
  <2> QED  BY <2>1, <2>3, <2>4, <2>5, <2>6, LaneBooks
<1>2. ASSUME NEW c \in Calls, Quote(c) PROVE BooksInv'
  <2>1. CASE Declined(c)
    BY <2>1, DeclinedBooks
  <2>2. CASE ~Declined(c)
    <3>1. PICK q \in Quotes : quote' = [quote EXCEPT ![c] = q]
      BY <1>2, <2>2 DEF Quote
    <3>2. /\ pc[c] = "quoting" /\ pc'[c] = "buying" /\ quote'[c] \in Quotes
          /\ \A d \in Calls : policy'[d] = policy[d] /\ copy'[d] = copy[d] /\ payout'[d] = payout[d]
          /\ \A d \in Calls \ {c} : pc'[d] = pc[d] /\ quote'[d] = quote[d]
          /\ taken' = taken /\ file' = file
      BY <1>2, <2>2, <3>1 DEF Quote, PoolInv, TypeOK
    <3>3. Tidy(copy'[c], taken') /\ Lane(c)
      BY <3>2 DEF BooksInv
    <3>4. Lane(c)'
      BY <3>2, <3>3 DEF Lane, Buying
    <3>5. Buying(c)' => \A d \in Calls \ {c} : Buying(d) => policy[d] # policy'[c]
      BY <3>2 DEF BooksInv, Buying
    <3>6. \A d \in Calls \ {c} : Buying(d) => taken'[policy[d]] = 0
      BY <3>2 DEF BooksInv, Lane
    <3> QED  BY <3>2, <3>3, <3>4, <3>5, <3>6, LaneBooks
  <2> QED  BY <2>1, <2>2
<1>3. ASSUME NEW c \in Calls, ReadBuy(c) PROVE BooksInv'
  <2> DEFINE i == policy[c]
             p == Insured(Loaded, i, quote[c])
  <2>1. /\ pc[c] = "buying" /\ pc'[c] = "saving" /\ copy'[c] = p
        /\ taken' = [taken EXCEPT ![i] = quote[c].premium]
        /\ \A d \in Calls : policy'[d] = policy[d] /\ quote'[d] = quote[d] /\ payout'[d] = payout[d]
        /\ \A d \in Calls \ {c} : pc'[d] = pc[d] /\ copy'[d] = copy[d]
        /\ file' = file
    BY <1>3 DEF ReadBuy, PoolInv, TypeOK
  <2>2. i \in Ids /\ taken[i] = 0 /\ quote[c] \in Quotes /\ taken \in [Ids -> Nat]
    BY <2>1 DEF PoolInv, TypeOK, Underway, BooksInv, Lane, Buying
  <2>3. quote[c].premium \in Nat \ {0}
    BY <2>2, QuotesAssumption
  <2>4. Sound(Loaded) /\ Balanced(Loaded) /\ Loaded.policies[i] = Unsold
    BY <2>2, PoolInvSound DEF BooksInv, Tidy
  <2>5. Balanced(p)
    BY <2>2, <2>4, InsuredBalanced
  <2>6. \A j \in Ids : taken'[j] = 0 => j # i /\ taken[j] = 0
    BY <2>1, <2>2, <2>3
  <2>7. \A j \in Ids \ {i} : p.policies[j] = Loaded.policies[j]
    BY <2>4 DEF Insured, Sound, Pool
  <2>8. Tidy(p, taken')
    BY <2>5, <2>6, <2>7 DEF BooksInv, Tidy
  <2> HIDE DEF p
  <2>9. \A d \in Calls \ {c} : Buying(d) => policy[d] # i /\ policy[d] \in Ids /\ taken[policy[d]] = 0
    BY <2>1 DEF BooksInv, Buying, Lane, PoolInv, Underway
  <2>10. \A d \in Calls \ {c} : Buying(d) => taken'[policy[d]] = 0
    BY <2>1, <2>2, <2>9
  <2>11. Lane(c)' /\ ~Buying(c)'
    BY <2>1 DEF Lane, Buying
  <2> QED  BY <2>1, <2>6, <2>8, <2>10, <2>11, LaneBooks
<1>4. ASSUME NEW c \in Calls, ReadClaim(c) PROVE BooksInv'
  <2> DEFINE i == policy[c]
  <2>1. CASE ~Claimable(Loaded, i)
    BY <1>4, <2>1, DeclinedBooks DEF ReadClaim
  <2>2. CASE Claimable(Loaded, i)
    <3>1. /\ Sound(Loaded) /\ Tidy(Loaded, taken) /\ Loaded.policies[i].status = "active"
          /\ i \in Ids /\ payout[c] = 0 /\ pc[c] = "claiming"
      BY <1>4, <2>2, PoolInvSound DEF ReadClaim, PoolInv, Underway, BooksInv, Claimable, Lane
    <3>2. /\ \A d \in Calls : policy'[d] = policy[d] /\ quote'[d] = quote[d] /\ payout'[d] = payout[d]
          /\ \A d \in Calls \ {c} : pc'[d] = pc[d] /\ copy'[d] = copy[d]
          /\ file' = file /\ taken' = taken
      BY <1>4, <2>2 DEF ReadClaim, PoolInv, TypeOK
    <3>3. \A d \in Calls \ {c} : Buying(d) => taken'[policy[d]] = 0
      BY <3>2 DEF BooksInv, Lane
    <3>4. CASE i \in lapsed
      <4> DEFINE p == [Loaded EXCEPT !.policies[i].status = "expired"]
      <4>1. Balanced(p)
        BY <3>1, ExpiredBalanced DEF Tidy
      <4>2. \A j \in Ids \ {i} : p.policies[j] = Loaded.policies[j]
        BY <3>1 DEF Sound, Pool
      <4>3. taken[i] # 0
        BY <3>1 DEF Tidy, Unsold
      <4>4. Tidy(p, taken)
        BY <3>1, <4>1, <4>2, <4>3 DEF Tidy
      <4>5. pc'[c] = "saving" /\ copy'[c] = p
        BY <1>4, <2>2, <3>4 DEF ReadClaim, PoolInv, TypeOK
      <4> HIDE DEF p
      <4>6. Lane(c)' /\ ~Buying(c)' /\ Tidy(copy'[c], taken')
        BY <3>2, <4>4, <4>5 DEF Lane, Buying
      <4> QED  BY <3>2, <3>3, <4>6, LaneBooks
    <3>5. CASE i \notin lapsed
      <4>1. pc'[c] = "judging" /\ copy'[c] = Loaded
        BY <1>4, <2>2, <3>5 DEF ReadClaim, PoolInv, TypeOK
      <4>2. Lane(c)' /\ ~Buying(c)' /\ Tidy(copy'[c], taken')
        BY <3>1, <3>2, <4>1 DEF Lane, Buying
      <4> QED  BY <3>2, <3>3, <4>2, LaneBooks
    <3> QED  BY <3>4, <3>5
  <2> QED  BY <2>1, <2>2
<1>5. ASSUME NEW c \in Calls, Judge(c) PROVE BooksInv'
  <2> DEFINE i == policy[c]
             p == Claimed(copy[c], i)
  <2>1. CASE ~risky
    BY <1>5, <2>1, DeclinedBooks DEF Judge
  <2>2. CASE risky
    <3>1. /\ i \in Ids /\ Sound(copy[c]) /\ Tidy(copy[c], taken)
          /\ copy[c].policies[i].status = "active"
      BY <1>5, PoolInvSound DEF Judge, PoolInv, Underway, BooksInv, Lane
    <3>2. /\ pc'[c] = "saving" /\ copy'[c] = p
          /\ \A d \in Calls : policy'[d] = policy[d] /\ quote'[d] = quote[d]
          /\ \A d \in Calls \ {c} : pc'[d] = pc[d] /\ copy'[d] = copy[d] /\ payout'[d] = payout[d]
          /\ file' = file /\ taken' = taken
      BY <1>5, <2>2 DEF Judge, PoolInv, TypeOK
    <3>3. taken[i] # 0
      BY <3>1 DEF Tidy, Unsold
    <3>4. Tidy(p, taken)
      BY <3>1, <3>3, ClaimedBalanced DEF Tidy
    <3> HIDE DEF p
    <3>5. Lane(c)' /\ ~Buying(c)' /\ Tidy(copy'[c], taken')
      BY <3>2, <3>4 DEF Lane, Buying
    <3>6. \A d \in Calls \ {c} : Buying(d) => taken'[policy[d]] = 0
      BY <3>2 DEF BooksInv, Lane
    <3> QED  BY <3>2, <3>5, <3>6, LaneBooks
  <2> QED  BY <2>1, <2>2
<1>6. ASSUME NEW c \in Calls, Truncate(c) PROVE BooksInv'
  <2>1. /\ pc[c] = "saving" /\ pc'[c] = "writing" /\ taken' = taken /\ file' = Torn
        /\ \A d \in Calls : /\ policy'[d] = policy[d] /\ quote'[d] = quote[d]
                            /\ copy'[d] = copy[d] /\ payout'[d] = payout[d]
        /\ \A d \in Calls \ {c} : pc'[d] = pc[d]
    BY <1>6 DEF Truncate, PoolInv, TypeOK
  <2>2. Lane(c)' /\ ~Buying(c)' /\ Tidy(copy'[c], taken')
    BY <2>1 DEF Lane, Buying, BooksInv
  <2>3. \A d \in Calls \ {c} : Buying(d) => taken'[policy[d]] = 0
    BY <2>1 DEF BooksInv, Lane
  <2> QED  BY <2>1, <2>2, <2>3, LaneBooks
<1>7. ASSUME NEW c \in Calls, Write(c) PROVE BooksInv'
  <2>1. /\ pc'[c] = "idle" /\ copy'[c] = Empty /\ payout'[c] = 0
        /\ \A d \in Calls \ {c} : /\ pc'[d] = pc[d] \/ (pc[d] = "writing" /\ pc'[d] = "mixed")
                                  /\ policy'[d] = policy[d] /\ quote'[d] = quote[d]
                                  /\ copy'[d] = copy[d] /\ payout'[d] = payout[d]
        /\ taken' = taken /\ file' \in {copy[c], Torn}
    BY <1>7 DEF Write, Done, PoolInv, TypeOK
  <2>2. Tidy(Loaded, taken)'
    <3>1. Loaded' \in {copy[c], Empty}
      BY <2>1 DEF Loaded
    <3>2. Tidy(Loaded', taken)
      BY <3>1, EmptyKept DEF BooksInv
    <3> QED  BY <2>1, <3>2 DEF Tidy
  <2>3. ASSUME NEW d \in Calls PROVE Tidy(copy[d], taken)' /\ Lane(d)'
    <3>1. Tidy(copy'[d], taken')
      BY <2>1, EmptyKept DEF BooksInv
    <3>2. Lane(d)'
      BY <2>1 DEF BooksInv, Lane, Buying
    <3> QED  BY <3>1, <3>2
  <2>4. ASSUME NEW d \in Calls, NEW e \in Calls, Buying(d)', Buying(e)', d # e
        PROVE  policy'[d] # policy'[e]
    BY <2>1, <2>4 DEF BooksInv, Buying
  <2> QED  BY <2>2, <2>3, <2>4 DEF BooksInv
<1>8. CASE Crash
  <2>1. /\ \A c \in Calls : pc'[c] = "idle" /\ copy'[c] = Empty /\ payout'[c] = 0
        /\ taken' = taken /\ file' = file
    BY <1>8 DEF Crash
  <2>2. Tidy(Loaded, taken)'
    BY <2>1 DEF BooksInv, Tidy, Loaded
  <2>3. \A c \in Calls : Tidy(copy[c], taken)' /\ Lane(c)' /\ ~Buying(c)'
    <3> SUFFICES ASSUME NEW c \in Calls PROVE Tidy(copy[c], taken)' /\ Lane(c)' /\ ~Buying(c)'
      OBVIOUS
    <3>1. Tidy(copy'[c], taken')
      BY <2>1, EmptyKept
    <3> QED  BY <2>1, <3>1 DEF Lane, Buying
  <2> QED  BY <2>2, <2>3 DEF BooksInv
<1>9. CASE Observe \/ (\E i \in Ids : Expire(i)) \/ UNCHANGED vars
  <2>1. UNCHANGED <<file, copy, taken, pc, policy, quote, payout>>
    BY <1>9 DEF Observe, Expire, vars
  <2> QED  BY <2>1 DEF BooksInv, Tidy, Lane, Buying, Loaded
<1> QED  BY <1>1, <1>2, <1>3, <1>4, <1>5, <1>6, <1>7, <1>8, <1>9 DEF Next

LEMMA InitBooks == Init => BooksInv
<1> SUFFICES ASSUME Init PROVE BooksInv
  OBVIOUS
<1>1. /\ Loaded = Empty
      /\ \A c \in Calls : copy[c] = Empty /\ pc[c] = "idle" /\ payout[c] = 0
  BY DEF Init, Loaded
<1> QED  BY <1>1, EmptyKept DEF BooksInv, Lane, Buying

LEMMA BooksInductive == Spec => [](PoolInv /\ BooksInv)
<1>1. Init => PoolInv /\ BooksInv
  BY InitPool, InitBooks
<1>2. PoolInv /\ BooksInv /\ [Next]_vars => PoolInv' /\ BooksInv'
  BY PoolStep, BooksStep
<1> QED  BY <1>1, <1>2, PTL DEF Spec

(* BooksBalance: every version of the pool, on disk or in a call's hands,  *)
(* collected what its policies cost and paid no more than its claimed      *)
(* policies cover, whatever overlaps, tears or crashes (buyGuarantee,      *)
(* claimGuarantee).                                                        *)
THEOREM PoolBalance == Spec => []BooksBalance
<1>1. PoolInv /\ BooksInv => BooksBalance
  BY DEF BooksInv, Tidy, BooksBalance
<1> QED  BY <1>1, BooksInductive, PTL

-----------------------------------------------------------------------------
(* One call at a time.  What a version of the pool still holds, what its   *)
(* call is about to pay and what was paid come to no more than was taken;  *)
(* a policy that has paid is active in no version.                         *)
Covered(p, x, a, t) == SumFunction(a) + x + p.premiums <= SumFunction(t) + p.payouts
Settled(p, n) == \A i \in Ids : n[i] # 0 => p.policies[i].status # "active"
PaidOnce(n, t) == \A i \in Ids : n[i] <= 1 /\ (n[i] # 0 => t[i] # 0)
Paying(c) == payout[c] > 0 => /\ pays[policy[c]] = 0
                              /\ copy[c].policies[policy[c]].status = "claimed"

SerialBooks ==
  /\ \A c, d \in Calls : pc[c] # "idle" /\ pc[d] # "idle" => c = d
  /\ \A c \in Calls : pc[c] # "mixed"
  /\ Covered(Loaded, 0, paid, taken) /\ Settled(Loaded, pays) /\ PaidOnce(pays, taken)
  /\ \A c \in Calls : /\ Covered(copy[c], payout[c], paid, taken)
                      /\ Settled(copy[c], pays) /\ Paying(c)

SerialInv == lanes = 1 => SerialBooks

LEMMA HistoryTyped ==
  ASSUME NEW f \in [Ids -> Nat]
  PROVE  SumFunction(f) \in Nat
<1>1. DOMAIN f = Ids /\ \A i \in Ids : f[i] \in Nat
  OBVIOUS
<1> QED  BY <1>1, FiniteAssumption, SumIsNat DEF SumFunction

(* Adding to the entry of one policy adds as much to the sum.              *)
LEMMA HistoryEdited ==
  ASSUME NEW f \in [Ids -> Nat], NEW i \in Ids, NEW v \in Nat
  PROVE  SumFunction([f EXCEPT ![i] = v]) = SumFunction(f) - f[i] + v
<1> DEFINE g == [f EXCEPT ![i] = v]
<1>1. /\ DOMAIN f = Ids /\ DOMAIN g = Ids /\ \A j \in Ids : f[j] \in Nat /\ g[j] \in Nat
      /\ g[i] = v /\ \A j \in Ids \ {i} : g[j] = f[j]
  OBVIOUS
<1> HIDE DEF g
<1>2. SumFunctionOnSet(g, Ids) = SumFunctionOnSet(f, Ids) - f[i] + g[i]
  BY <1>1, FiniteAssumption, SumEdited
<1>3. SumFunction(g) = SumFunction(f) - f[i] + v
  BY <1>1, <1>2 DEF SumFunction
<1> QED  BY <1>3 DEF g

LEMMA CoveredEmpty ==
  ASSUME NEW p, Sound(p), NEW a \in [Ids -> Nat], NEW t \in [Ids -> Nat], NEW x \in Nat,
         Covered(p, x, a, t)
  PROVE  Covered(Empty, 0, a, t) /\ SumFunction(a) + x <= SumFunction(t)
<1>1. SumFunction(a) \in Nat /\ SumFunction(t) \in Nat
  BY HistoryTyped
<1>2. p.premiums \in Nat /\ p.payouts \in Nat /\ p.payouts <= p.premiums
  BY DEF Sound, Pool
<1> QED  BY <1>1, <1>2 DEF Covered, Empty

LEMMA CoveredLater ==
  ASSUME NEW p, p.premiums \in Nat, p.payouts \in Nat, NEW x \in Nat, NEW a \in [Ids -> Nat],
         NEW t \in [Ids -> Nat], NEW u \in [Ids -> Nat],
         SumFunction(t) <= SumFunction(u), Covered(p, x, a, t)
  PROVE  Covered(p, x, a, u)
<1>1. SumFunction(a) \in Nat /\ SumFunction(t) \in Nat /\ SumFunction(u) \in Nat
  BY HistoryTyped
<1> QED  BY <1>1 DEF Covered

LEMMA SettledEmpty ==
  ASSUME NEW n PROVE Settled(Empty, n)
  BY DEF Settled, Empty, Unsold

(* A step of one call that pays nothing out.                               *)
LEMMA SerialLane ==
  ASSUME PoolInv, PoolInv', SerialBooks, NEW c \in Calls,
         \A d \in Calls \ {c} : /\ pc'[d] = pc[d] /\ policy'[d] = policy[d]
                                /\ copy'[d] = copy[d] /\ payout'[d] = payout[d],
         paid' = paid, pays' = pays, file' \in {file, Torn},
         SumFunction(taken) <= SumFunction(taken'),
         \A i \in Ids : taken'[i] = 0 => taken[i] = 0,
         pc[c] # "idle" \/ \A d \in Calls : pc[d] = "idle", pc'[c] # "mixed",
         Covered(copy'[c], payout'[c], paid, taken'), Settled(copy'[c], pays), Paying(c)'
  PROVE  SerialBooks'
<1>1. /\ Sound(Loaded) /\ \A d \in Calls : Sound(copy[d])
      /\ paid \in [Ids -> Nat] /\ taken \in [Ids -> Nat] /\ taken' \in [Ids -> Nat]
      /\ payout \in [Calls -> Nat]
  BY PoolInvSound DEF PoolInv, TypeOK
<1>2. Covered(Loaded, 0, paid, taken) /\ Settled(Loaded, pays)
  BY DEF SerialBooks
<1>3. Covered(Loaded, 0, paid, taken') /\ Covered(Empty, 0, paid, taken')
  <2>1. Covered(Loaded, 0, paid, taken')
    BY <1>1, <1>2, CoveredLater DEF Sound, Pool
  <2> QED  BY <1>1, <2>1, CoveredEmpty
<1>4. (Covered(Loaded, 0, paid, taken) /\ Settled(Loaded, pays) /\ PaidOnce(pays, taken))'
  <2>1. Loaded' \in {Loaded, Empty}
    BY DEF Loaded
  <2>2. Covered(Loaded', 0, paid, taken') /\ Settled(Loaded', pays)
    BY <1>2, <1>3, <2>1, SettledEmpty
  <2>3. PaidOnce(pays, taken')
    BY DEF SerialBooks, PaidOnce
  <2> QED  BY <2>2, <2>3
<1>5. ASSUME NEW d \in Calls
      PROVE  (Covered(copy[d], payout[d], paid, taken) /\ Settled(copy[d], pays) /\ Paying(d))'
  <2>1. CASE d = c
    BY <2>1
  <2>2. CASE d # c
    <3>1. Covered(copy[d], payout[d], paid, taken) /\ Settled(copy[d], pays) /\ Paying(d)
      BY DEF SerialBooks
    <3>2. Covered(copy[d], payout[d], paid, taken')
      BY <1>1, <3>1, CoveredLater DEF Sound, Pool
    <3> QED  BY <2>2, <3>1, <3>2 DEF Paying
  <2> QED  BY <2>1, <2>2
<1>6. /\ \A d, e \in Calls : pc'[d] # "idle" /\ pc'[e] # "idle" => d = e
      /\ \A d \in Calls : pc'[d] # "mixed"
  BY DEF SerialBooks
<1> QED  BY <1>4, <1>5, <1>6 DEF SerialBooks

LEMMA SerialDeclined ==
  ASSUME PoolInv, PoolInv', SerialBooks, NEW c \in Calls, pc[c] # "idle", Declined(c)
  PROVE  SerialBooks'
<1>1. /\ pc'[c] = "idle" /\ copy'[c] = Empty /\ payout'[c] = 0
      /\ \A d \in Calls \ {c} : /\ pc'[d] = pc[d] /\ policy'[d] = policy[d]
                                /\ copy'[d] = copy[d] /\ payout'[d] = payout[d]
      /\ taken' = taken /\ file' = file /\ paid' = paid /\ pays' = pays
      /\ taken \in [Ids -> Nat] /\ paid \in [Ids -> Nat]
  BY DEF PoolInv, TypeOK, Declined, Done, history
<1>2. Covered(copy'[c], payout'[c], paid, taken') /\ SumFunction(taken) <= SumFunction(taken')
  BY <1>1, PoolInvSound, CoveredEmpty, HistoryTyped DEF SerialBooks
<1>3. Settled(copy'[c], pays) /\ Paying(c)'
  BY <1>1, SettledEmpty DEF Paying
<1> QED  BY <1>1, <1>2, <1>3, SerialLane

LEMMA SerialStep ==
  PoolInv /\ BooksInv /\ SerialInv /\ [Next]_vars /\ PoolInv' => SerialInv'
<1> SUFFICES ASSUME PoolInv, BooksInv, SerialInv, [Next]_vars, PoolInv', lanes' = 1 PROVE SerialBooks'
  BY DEF SerialInv
<1>0. lanes = 1 /\ SerialBooks
  <2>1. lanes' = lanes
    BY DEF Next, vars, bounds, Issue, Declined, Quote, ReadBuy, ReadClaim, Judge, Truncate, Write,
           Observe, Expire, Crash
  <2> QED  BY <2>1 DEF SerialInv
<1>t. /\ paid \in [Ids -> Nat] /\ taken \in [Ids -> Nat] /\ pays \in [Ids -> Nat]
      /\ payout \in [Calls -> Nat]
      /\ SumFunction(paid) \in Nat /\ SumFunction(taken) \in Nat
  BY HistoryTyped DEF PoolInv, TypeOK
<1> USE DEF store, history, bounds
<1>1. ASSUME NEW c \in Calls, NEW i \in Ids, NEW step \in {"quoting", "claiming"},
             Issue(c, i, step)
      PROVE  SerialBooks'
  <2>1. /\ pc[c] = "idle" /\ pc'[c] = step /\ policy'[c] = i
        /\ \A d \in Calls : copy'[d] = copy[d] /\ payout'[d] = payout[d]
        /\ \A d \in Calls \ {c} : pc'[d] = pc[d] /\ policy'[d] = policy[d]
        /\ taken' = taken /\ paid' = paid /\ pays' = pays /\ file' = file
    BY <1>1 DEF Issue, Busy, PoolInv, TypeOK
  <2>2. \A d \in Calls : pc[d] = "idle"
    <3>1. IsFiniteSet(Busy) /\ Cardinality(Busy) \in Nat
      BY FiniteAssumption, FS_Subset, FS_CardinalityType DEF Busy
    <3>2. Cardinality(Busy) < 1
      BY <1>0, <1>1 DEF Issue
    <3>3. Busy = {}
      BY <3>1, <3>2, FS_EmptySet
    <3> QED  BY <3>3 DEF Busy
  <2>3. payout'[c] = 0 /\ copy'[c] = copy[c]
    BY <2>1 DEF BooksInv, Lane
  <2>4. Covered(copy'[c], payout'[c], paid, taken') /\ Settled(copy'[c], pays)
    BY <1>0, <2>1 DEF SerialBooks
  <2> QED  BY <1>0, <1>t, <2>1, <2>2, <2>3, <2>4, SerialLane DEF Paying
<1>2. ASSUME NEW c \in Calls, Quote(c) PROVE SerialBooks'
  <2>1. CASE Declined(c)
    BY <1>0, <1>2, <2>1, SerialDeclined DEF Quote
  <2>2. CASE ~Declined(c)
    <3>1. /\ pc[c] = "quoting" /\ pc'[c] = "buying"
          /\ \A d \in Calls : policy'[d] = policy[d] /\ copy'[d] = copy[d] /\ payout'[d] = payout[d]
          /\ \A d \in Calls \ {c} : pc'[d] = pc[d]
          /\ taken' = taken /\ paid' = paid /\ pays' = pays /\ file' = file
      BY <1>2, <2>2 DEF Quote, PoolInv, TypeOK
    <3>2. Covered(copy'[c], payout'[c], paid, taken') /\ Settled(copy'[c], pays) /\ Paying(c)'
      BY <1>0, <3>1 DEF SerialBooks, Paying
    <3> QED  BY <1>0, <1>t, <3>1, <3>2, SerialLane
  <2> QED  BY <2>1, <2>2
<1>3. ASSUME NEW c \in Calls, ReadBuy(c) PROVE SerialBooks'
  <2> DEFINE i == policy[c]
             p == Insured(Loaded, i, quote[c])
  <2>1. /\ pc[c] = "buying" /\ pc'[c] = "saving" /\ copy'[c] = p
        /\ taken' = [taken EXCEPT ![i] = quote[c].premium]
        /\ \A d \in Calls : policy'[d] = policy[d] /\ payout'[d] = payout[d]
        /\ \A d \in Calls \ {c} : pc'[d] = pc[d] /\ copy'[d] = copy[d]
        /\ paid' = paid /\ pays' = pays /\ file' = file
    BY <1>3 DEF ReadBuy, PoolInv, TypeOK
  <2>2. i \in Ids /\ taken[i] = 0 /\ quote[c].premium \in Nat \ {0} /\ payout[c] = 0
    BY <2>1, QuotesAssumption DEF PoolInv, Underway, BooksInv, Lane, Buying
  <2>3. SumFunction(taken') = SumFunction(taken) - taken[i] + quote[c].premium
    BY <1>t, <2>1, <2>2, HistoryEdited
  <2>4. /\ Loaded \in Pool /\ p.premiums = Loaded.premiums + quote[c].premium
        /\ p.payouts = Loaded.payouts
        /\ \A j \in Ids \ {i} : p.policies[j] = Loaded.policies[j]
    BY PoolInvSound DEF Insured, Sound, Pool
  <2> HIDE DEF p
  <2>5. Covered(Loaded, 0, paid, taken) /\ Settled(Loaded, pays) /\ pays[i] = 0
    BY <1>0, <2>2 DEF SerialBooks, PaidOnce
  <2>6. Covered(p, 0, paid, taken')
    <3>1. Loaded.premiums \in Nat /\ Loaded.payouts \in Nat
      BY <2>4 DEF Pool
    <3> QED  BY <1>t, <2>2, <2>3, <2>4, <2>5, <3>1 DEF Covered
  <2>7. Settled(p, pays)
    BY <2>4, <2>5 DEF Settled
  <2>8. /\ SumFunction(taken) <= SumFunction(taken')
        /\ \A j \in Ids : taken'[j] = 0 => taken[j] = 0
    BY <1>t, <2>1, <2>2, <2>3
  <2>9. Covered(copy'[c], payout'[c], paid, taken') /\ Settled(copy'[c], pays) /\ Paying(c)'
    BY <2>1, <2>2, <2>6, <2>7 DEF Paying
  <2>10. /\ pc[c] # "idle" /\ pc'[c] # "mixed" /\ file' \in {file, Torn}
         /\ \A d \in Calls \ {c} : /\ pc'[d] = pc[d] /\ policy'[d] = policy[d]
                                   /\ copy'[d] = copy[d] /\ payout'[d] = payout[d]
    BY <2>1
  <2> HIDE DEF i
  <2> QED  BY <1>0, <2>1, <2>8, <2>9, <2>10, SerialLane
<1>4. ASSUME NEW c \in Calls, ReadClaim(c) PROVE SerialBooks'
  <2> DEFINE i == policy[c]
  <2>1. CASE ~Claimable(Loaded, i)
    BY <1>0, <1>4, <2>1, SerialDeclined DEF ReadClaim
  <2>2. CASE Claimable(Loaded, i)
    <3>1. /\ Loaded \in Pool /\ i \in Ids /\ payout[c] = 0 /\ pc[c] = "claiming"
          /\ Covered(Loaded, 0, paid, taken) /\ Settled(Loaded, pays)
      BY <1>0, <1>4, PoolInvSound
         DEF ReadClaim, PoolInv, Underway, BooksInv, Lane, SerialBooks, Sound
    <3>2. /\ \A d \in Calls : policy'[d] = policy[d] /\ payout'[d] = payout[d]
          /\ \A d \in Calls \ {c} : pc'[d] = pc[d] /\ copy'[d] = copy[d]
          /\ file' = file /\ taken' = taken /\ paid' = paid /\ pays' = pays
          /\ pc'[c] # "mixed"
      BY <1>4, <2>2 DEF ReadClaim, PoolInv, TypeOK
    <3>3. \/ copy'[c] = [Loaded EXCEPT !.policies[i].status = "expired"]
          \/ copy'[c] = Loaded
      BY <1>4, <2>2 DEF ReadClaim, PoolInv, TypeOK
    <3>4. Covered(copy'[c], 0, paid, taken) /\ Settled(copy'[c], pays)
      <4> DEFINE p == [Loaded EXCEPT !.policies[i].status = "expired"]
      <4>1. /\ p.premiums = Loaded.premiums /\ p.payouts = Loaded.payouts
            /\ \A j \in Ids \ {i} : p.policies[j] = Loaded.policies[j]
            /\ p.policies[i].status = "expired"
        BY <3>1 DEF Pool, Policies
      <4> HIDE DEF p
      <4>2. Covered(p, 0, paid, taken) /\ Settled(p, pays)
        BY <3>1, <4>1 DEF Covered, Settled
      <4> QED  BY <3>1, <3>3, <4>2 DEF p
    <3> QED  BY <1>0, <1>t, <3>1, <3>2, <3>4, SerialLane DEF Paying
  <2> QED  BY <2>1, <2>2
<1>5. ASSUME NEW c \in Calls, Judge(c) PROVE SerialBooks'
  <2> DEFINE i == policy[c]
             p == Claimed(copy[c], i)
             x == Payout(copy[c], i)
  <2>1. CASE ~risky
    BY <1>0, <1>5, <2>1, SerialDeclined DEF Judge
  <2>2. CASE risky
    <3>1. /\ i \in Ids /\ Sound(copy[c]) /\ Balanced(copy[c])
          /\ copy[c].policies[i].status = "active" /\ payout[c] = 0
      BY <1>5, PoolInvSound DEF Judge, PoolInv, Underway, BooksInv, Tidy, Lane
    <3>2. /\ pc[c] = "judging" /\ pc'[c] = "saving" /\ copy'[c] = p /\ payout'[c] = x
          /\ \A d \in Calls : policy'[d] = policy[d]
          /\ \A d \in Calls \ {c} : pc'[d] = pc[d] /\ copy'[d] = copy[d] /\ payout'[d] = payout[d]
          /\ file' = file /\ taken' = taken /\ paid' = paid /\ pays' = pays
      BY <1>5, <2>2 DEF Judge, PoolInv, TypeOK
    <3>3. Covered(copy[c], 0, paid, taken) /\ Settled(copy[c], pays)
      BY <1>0, <3>1 DEF SerialBooks
    <3>4. /\ p.policies[i].status = "claimed" /\ p.premiums = copy[c].premiums
          /\ p.payouts = copy[c].payouts + x
          /\ \A j \in Ids \ {i} : p.policies[j] = copy[c].policies[j]
      BY <3>1, ClaimedBalanced
    <3>5. x \in Nat /\ copy[c].premiums \in Nat /\ copy[c].payouts \in Nat
      BY <3>1, PayoutCapped DEF Sound, Pool
    <3> HIDE DEF p, x
    <3>6. Covered(p, x, paid, taken)
      BY <1>t, <3>3, <3>4, <3>5 DEF Covered
    <3>7. Settled(p, pays) /\ pays[i] = 0
      BY <1>t, <3>1, <3>3, <3>4 DEF Settled
    <3> QED  BY <1>0, <1>t, <3>2, <3>4, <3>6, <3>7, SerialLane DEF Paying
  <2> QED  BY <2>1, <2>2
<1>6. ASSUME NEW c \in Calls, Truncate(c) PROVE SerialBooks'
  <2>1. /\ pc[c] = "saving" /\ pc'[c] = "writing" /\ file' = Torn
        /\ \A d \in Calls : policy'[d] = policy[d] /\ copy'[d] = copy[d] /\ payout'[d] = payout[d]
        /\ \A d \in Calls \ {c} : pc'[d] = pc[d]
        /\ taken' = taken /\ paid' = paid /\ pays' = pays
    BY <1>6 DEF Truncate, PoolInv, TypeOK
  <2>2. Covered(copy'[c], payout'[c], paid, taken') /\ Settled(copy'[c], pays) /\ Paying(c)'
    BY <1>0, <2>1 DEF SerialBooks, Paying
  <2> QED  BY <1>0, <1>t, <2>1, <2>2, SerialLane
<1>7. ASSUME NEW c \in Calls, Write(c) PROVE SerialBooks'
  <2> DEFINE i == policy[c]
  <2>1. /\ i \in Ids /\ pc[c] # "idle" /\ pc[c] # "mixed"
        /\ \A d \in Calls \ {c} : pc[d] = "idle" /\ copy[d] = Empty /\ payout[d] = 0
    BY <1>0, <1>7 DEF Write, SerialBooks, PoolInv, Underway, BooksInv, Lane
  <2>2. /\ \A d \in Calls : pc'[d] = "idle" /\ copy'[d] = Empty /\ payout'[d] = 0
        /\ file' = copy[c] /\ taken' = taken
        /\ paid' = [paid EXCEPT ![i] = paid[i] + payout[c]]
        /\ pays' = IF payout[c] > 0 THEN [pays EXCEPT ![i] = pays[i] + 1] ELSE pays
    BY <1>7, <2>1 DEF Write, Done, PoolInv, TypeOK
  <2>3. /\ Covered(copy[c], payout[c], paid, taken) /\ Settled(copy[c], pays) /\ Paying(c)
        /\ Sound(copy[c]) /\ Tidy(copy[c], taken)
    BY <1>0, PoolInvSound DEF SerialBooks, BooksInv
  <2>4. SumFunction(paid') = SumFunction(paid) + payout[c]
    <3>1. paid[i] \in Nat /\ payout[c] \in Nat /\ paid[i] + payout[c] \in Nat
      BY <1>t, <2>1
    <3>2. SumFunction(paid') = SumFunction(paid) - paid[i] + (paid[i] + payout[c])
      BY <1>t, <2>1, <2>2, <3>1, HistoryEdited
    <3> QED  BY <1>t, <3>1, <3>2
  <2>5. paid' \in [Ids -> Nat] /\ payout[c] \in Nat
    BY <1>t, <2>1, <2>2
  <2>6. Covered(copy[c], 0, paid', taken)
    <3>1. copy[c].premiums \in Nat /\ copy[c].payouts \in Nat
      BY <2>3 DEF Sound, Pool
    <3> QED  BY <1>t, <2>3, <2>4, <2>5, <3>1 DEF Covered
  <2>7. Settled(copy[c], pays') /\ PaidOnce(pays', taken)
    <3>1. CASE payout[c] = 0
      BY <1>0, <2>2, <2>3, <3>1 DEF SerialBooks
    <3>2. CASE payout[c] > 0
      <4>1. pays[i] = 0 /\ copy[c].policies[i].status = "claimed"
        BY <2>3, <3>2 DEF Paying
      <4>2. taken[i] # 0
        BY <2>1, <2>3, <4>1 DEF Tidy, Unsold
      <4>3. pays'[i] = 1 /\ \A j \in Ids \ {i} : pays'[j] = pays[j]
        BY <1>t, <2>1, <2>2, <3>2, <4>1
      <4>4. PaidOnce(pays, taken)
        BY <1>0 DEF SerialBooks
      <4> QED  BY <2>3, <4>1, <4>2, <4>3, <4>4 DEF Settled, PaidOnce
    <3> QED  BY <2>5, <3>1, <3>2
  <2>8. Covered(Empty, 0, paid', taken)
    BY <1>t, <2>3, <2>5, <2>6, CoveredEmpty
  <2>9. Loaded' \in {copy[c], Empty}
    BY <2>2 DEF Loaded
  <2>10. Covered(Loaded', 0, paid', taken') /\ Settled(Loaded', pays')
    BY <2>2, <2>6, <2>7, <2>8, <2>9, SettledEmpty
  <2>11. \A d \in Calls : (Covered(copy[d], payout[d], paid, taken) /\ Settled(copy[d], pays) /\ Paying(d))'
    <3> SUFFICES ASSUME NEW d \in Calls
                 PROVE  (Covered(copy[d], payout[d], paid, taken) /\ Settled(copy[d], pays) /\ Paying(d))'
      OBVIOUS
    <3>1. Covered(copy'[d], payout'[d], paid', taken') /\ Settled(copy'[d], pays')
      BY <2>2, <2>8, SettledEmpty
    <3> QED  BY <2>2, <3>1 DEF Paying
  <2> QED  BY <2>2, <2>7, <2>10, <2>11 DEF SerialBooks
<1>8. CASE Crash
  <2>1. /\ \A c \in Calls : pc'[c] = "idle" /\ copy'[c] = Empty /\ payout'[c] = 0
        /\ taken' = taken /\ paid' = paid /\ pays' = pays /\ file' = file
    BY <1>8 DEF Crash
  <2>2. (Covered(Loaded, 0, paid, taken) /\ Settled(Loaded, pays) /\ PaidOnce(pays, taken))'
    BY <1>0, <2>1 DEF SerialBooks, Loaded, Covered, Settled, PaidOnce
  <2>3. Covered(Empty, 0, paid, taken)
    BY <1>0, <1>t, PoolInvSound, CoveredEmpty DEF SerialBooks
  <2>4. ASSUME NEW c \in Calls
        PROVE  (Covered(copy[c], payout[c], paid, taken) /\ Settled(copy[c], pays) /\ Paying(c))'
    <3>1. Covered(copy'[c], payout'[c], paid', taken') /\ Settled(copy'[c], pays')
      BY <2>1, <2>3, SettledEmpty
    <3> QED  BY <2>1, <3>1 DEF Paying
  <2> QED  BY <2>1, <2>2, <2>4 DEF SerialBooks
<1>9. CASE Observe \/ (\E i \in Ids : Expire(i)) \/ UNCHANGED vars
  <2>1. UNCHANGED <<file, copy, taken, paid, pays, pc, policy, payout>>
    BY <1>9 DEF Observe, Expire, vars
  <2> QED  BY <1>0, <2>1 DEF SerialBooks, Covered, Settled, PaidOnce, Paying, Loaded
<1> QED  BY <1>1, <1>2, <1>3, <1>4, <1>5, <1>6, <1>7, <1>8, <1>9 DEF Next

LEMMA InitSerial == Init => SerialInv
<1> SUFFICES ASSUME Init PROVE SerialBooks
  BY DEF SerialInv
<1>1. /\ Loaded = Empty /\ \A c \in Calls : copy[c] = Empty /\ pc[c] = "idle" /\ payout[c] = 0
      /\ \A i \in Ids : pays[i] = 0
  BY DEF Init, Loaded
<1>2. SumFunction(paid) = 0 /\ SumFunction(taken) = 0
  <2>1. /\ DOMAIN paid = Ids /\ \A i \in Ids : paid[i] = 0
        /\ DOMAIN taken = Ids /\ \A i \in Ids : taken[i] = 0
    BY DEF Init
  <2> QED  BY <2>1, FiniteAssumption, SumOfZeros DEF SumFunction
<1>3. Covered(Empty, 0, paid, taken)
  BY <1>2 DEF Covered, Empty
<1> QED  BY <1>1, <1>3, SettledEmpty DEF SerialBooks, PaidOnce, Paying

(* SerialPoolNeverOverpays: with one call at a time, whatever crashes and  *)
(* whatever the file loses, payouts told to callers stay within premiums   *)
(* received and no policy pays twice (buyGuarantee, claimGuarantee).       *)
THEOREM OneCallerIsSafe == Spec => []SerialPoolNeverOverpays
<1>1. Init => SerialInv
  BY InitSerial
<1>2. PoolInv /\ BooksInv /\ SerialInv /\ [Next]_vars /\ PoolInv' => SerialInv'
  BY SerialStep
<1>3. PoolInv /\ SerialInv => SerialPoolNeverOverpays
  <2> SUFFICES ASSUME PoolInv, SerialBooks
               PROVE  SumFunction(paid) <= SumFunction(taken) /\ \A i \in Ids : pays[i] <= 1
    BY DEF SerialInv, SerialPoolNeverOverpays
  <2>1. Covered(Loaded, 0, paid, taken) /\ paid \in [Ids -> Nat] /\ taken \in [Ids -> Nat]
    BY DEF SerialBooks, PoolInv, TypeOK
  <2>2. SumFunction(paid) + 0 <= SumFunction(taken) /\ SumFunction(paid) \in Nat
    BY <2>1, PoolInvSound, CoveredEmpty, HistoryTyped
  <2> QED  BY <2>2 DEF SerialBooks, PaidOnce
<1> QED  BY <1>1, <1>2, <1>3, BooksInductive, PTL DEF Spec

-----------------------------------------------------------------------------
(* Migrations.  What has not run yet is above all that is recorded, and    *)
(* the current boot still has it to run; version 8 alone may be skipped.   *)
Recording ==
  /\ recorded \subseteq made
  /\ \A v \in Versions \ (made \cup {8}) :
       /\ \A r \in recorded : r < v
       /\ todo # {} => v \in todo
       /\ ~(up /\ engine = "sqlite")
Booting == /\ recorded \subseteq Versions /\ todo \subseteq Versions
           /\ engine # "sqlite" => todo = {}
           /\ up => todo = {}

(* The JSON file.  While its writes succeed it holds, and the mirror too,  *)
(* what SQLite would, but for escrows it never sees released.              *)
Followed(x, y) == \A e \in EscrowKeys : x[e] = y[e] \/ (x[e] = "pending" /\ y[e] = "released")
Agree(m, s) == /\ m.spend = s.spend /\ m.nonces = s.nonces /\ m.sessions = s.sessions
               /\ Followed(m.escrows, s.escrows)
Saved == engine = "json" /\ ~unsaved =>
           disk # Damaged /\ Agree(disk, sql) /\ (up => mirror = disk)
Stored == /\ sql \in Tables /\ mirror \in Tables /\ disk \in Tables \cup {Damaged}
          /\ clock \in Nat /\ up \in BOOLEAN /\ unsaved \in BOOLEAN

StoreInv == Recording /\ Booting /\ Saved /\ Stored

(* The migrations run in the order of their versions, but 9 before 8.      *)
LEMMA MigrationOrder ==
  ASSUME NEW S \in SUBSET Versions, NEW v, IsNext(v, S)
  PROVE  \A w \in S : v <= w \/ (v = 9 /\ w = 8)
<1>1. PICK i \in 1 .. 10 : Migrations[i] = v /\ \A j \in 1 .. 10 : Migrations[j] \in S => i <= j
  BY DEF IsNext
<1> DEFINE M == Migrations
<1>2. /\ M[1] = 1 /\ M[2] = 2 /\ M[3] = 3 /\ M[4] = 4 /\ M[5] = 5
      /\ M[6] = 6 /\ M[7] = 7 /\ M[8] = 9 /\ M[9] = 8 /\ M[10] = 10
  BY DEF Migrations
<1> HIDE DEF M
<1>3. ASSUME NEW w \in S
      PROVE  \E j \in 1 .. 10 : M[j] = w /\ (w \notin {8, 9} => j = w) /\ (w = 8 => j = 9) /\ (w = 9 => j = 8)
  <2>1. w \in Versions
    BY <1>3
  <2> QED  BY <1>2, <2>1 DEF Versions
<1>4. (i = 8 => v = 9) /\ (i = 9 => v = 8) /\ (i \notin {8, 9} => v = i)
  BY <1>1, <1>2 DEF M
<1> QED  BY <1>1, <1>3, <1>4 DEF M

LEMMA NoTablesTyped == NoTables \in Tables /\ Agree(NoTables, NoTables)
  BY DEF NoTables, Tables, Agree, Followed

LEMMA InitStore == StoreInit => StoreInv
<1> SUFFICES ASSUME StoreInit PROVE StoreInv
  OBVIOUS
<1>1. /\ sql = NoTables /\ mirror = NoTables /\ disk = NoTables /\ NoTables # Damaged
      /\ up = FALSE /\ unsaved = FALSE /\ todo = {} /\ recorded = {} /\ made = {} /\ clock = 0
  BY NoTablesTyped, EntryAssumption DEF StoreInit
<1>2. Recording /\ Booting
  BY <1>1 DEF Recording, Booting
<1>3. Saved /\ Stored
  BY <1>1, NoTablesTyped DEF Saved, Stored
<1> QED  BY <1>2, <1>3 DEF StoreInv

(* Running one migration, or recording it, leaves no other behind.         *)
LEMMA BootStep ==
  ASSUME StoreInv, OpenSqlite \/ ExecMigration \/ RecordMigration
  PROVE  Recording' /\ Booting'
<1>1. CASE OpenSqlite
  <2>1. /\ todo' = {v \in Versions : \A r \in recorded : r < v} /\ up' = (todo' = {})
        /\ UNCHANGED <<engine, recorded, made>>
    BY <1>1 DEF OpenSqlite, Pending
  <2> QED  BY <1>1, <2>1 DEF OpenSqlite, StoreInv, Recording, Booting
<1>2. CASE ExecMigration
  <2>1. PICK v \in todo : made' = made \cup {v} /\ UNCHANGED <<engine, up, todo, recorded>>
    BY <1>2 DEF ExecMigration
  <2> QED  BY <2>1 DEF StoreInv, Recording, Booting
<1>3. CASE RecordMigration
  <2>1. PICK v \in todo : /\ IsNext(v, todo) /\ v \in made /\ recorded' = recorded \cup {v}
                          /\ todo' = todo \ {v} /\ up' = (todo' = {}) /\ UNCHANGED <<engine, made>>
    BY <1>3 DEF RecordMigration, MarksDone
  <2>2. v \in Versions /\ todo \in SUBSET Versions
    BY DEF StoreInv, Booting
  <2>3. \A w \in todo : v <= w \/ (v = 9 /\ w = 8)
    BY <2>1, <2>2, MigrationOrder
  <2>4. Booting'
    BY <2>1, <2>2 DEF StoreInv, Booting
  <2>5. ASSUME NEW w \in Versions \ (made' \cup {8})
        PROVE  /\ \A r \in recorded' : r < w
               /\ todo' # {} => w \in todo'
               /\ ~(up' /\ engine' = "sqlite")
    <3>1. w \in todo /\ w # v /\ \A r \in recorded : r < w
      BY <2>1, <2>5 DEF StoreInv, Recording
    <3>2. v < w
      BY <2>2, <2>3, <2>5, <3>1 DEF Versions
    <3> QED  BY <2>1, <3>1, <3>2
  <2>6. recorded' \subseteq made'
    BY <2>1 DEF StoreInv, Recording
  <2> QED  BY <2>4, <2>5, <2>6 DEF Recording
<1> QED  BY <1>1, <1>2, <1>3

(* The statements of both engines give the same tables.                    *)
LEMMA SpendAgrees ==
  ASSUME NEW m \in Tables, NEW s \in Tables, Agree(m, s), NEW agent \in Agents, clock \in Nat
  PROVE  Spend(m, agent) \in Tables /\ Spend(s, agent) \in Tables /\ Agree(Spend(m, agent), Spend(s, agent))
<1>1. \A d \in Tables : /\ Spend(d, agent).spend = Append(d.spend, [agent |-> agent, day |-> clock])
                        /\ Spend(d, agent) \in Tables
                        /\ Spend(d, agent).nonces = d.nonces /\ Spend(d, agent).sessions = d.sessions
                        /\ Spend(d, agent).escrows = d.escrows
  <2> SUFFICES ASSUME NEW d \in Tables
               PROVE  /\ Spend(d, agent).spend = Append(d.spend, [agent |-> agent, day |-> clock])
                      /\ Spend(d, agent) \in Tables
                      /\ Spend(d, agent).nonces = d.nonces /\ Spend(d, agent).sessions = d.sessions
                      /\ Spend(d, agent).escrows = d.escrows
    OBVIOUS
  <2> DEFINE row == [agent |-> agent, day |-> clock]
             after == Append(d.spend, row)
  <2>1. after \in Seq([agent : Agents, day : Nat])
    <3>1. row \in [agent : Agents, day : Nat] /\ d.spend \in Seq([agent : Agents, day : Nat])
      BY DEF Tables
    <3> QED  BY <3>1
  <2>2. Spend(d, agent) = [d EXCEPT !.spend = after]
    BY DEF Spend
  <2> HIDE DEF after
  <2> QED  BY <2>1, <2>2 DEF Tables, after
<1>2. m.spend = s.spend /\ m.nonces = s.nonces /\ m.sessions = s.sessions /\ Followed(m.escrows, s.escrows)
  BY DEF Agree
<1>3. /\ Spend(m, agent).spend = Append(m.spend, [agent |-> agent, day |-> clock])
      /\ Spend(s, agent).spend = Append(s.spend, [agent |-> agent, day |-> clock])
  BY <1>1
<1>4. Spend(m, agent).spend = Spend(s, agent).spend
  BY <1>2, <1>3
<1> QED  BY <1>1, <1>2, <1>4 DEF Agree

(* A claim, with or without pruning: each engine's nonces alone decide.    *)
LEMMA PrunedTyped ==
  ASSUME NEW d \in Tables
  PROVE  /\ Pruned(d) \in Tables /\ Pruned(d).spend = d.spend
         /\ Pruned(d).sessions = d.sessions /\ Pruned(d).escrows = d.escrows
         /\ Pruned(d).nonces = [n \in Nonces |-> IF d.nonces[n] # NoEntry /\ d.nonces[n] + NonceLife < clock
                                                 THEN NoEntry ELSE d.nonces[n]]
<1> DEFINE kept == [n \in Nonces |-> IF d.nonces[n] # NoEntry /\ d.nonces[n] + NonceLife < clock
                                     THEN NoEntry ELSE d.nonces[n]]
<1>1. kept \in [Nonces -> Nat \cup {NoEntry}]
  BY DEF Tables
<1>2. Pruned(d) = [d EXCEPT !.nonces = kept]
  BY DEF Pruned
<1> HIDE DEF kept
<1>3. /\ [d EXCEPT !.nonces = kept] \in Tables /\ [d EXCEPT !.nonces = kept].nonces = kept
      /\ [d EXCEPT !.nonces = kept].spend = d.spend /\ [d EXCEPT !.nonces = kept].sessions = d.sessions
      /\ [d EXCEPT !.nonces = kept].escrows = d.escrows
  BY <1>1 DEF Tables
<1> QED  BY <1>2, <1>3 DEF kept

LEMMA PrunedAgrees ==
  ASSUME NEW m \in Tables, NEW s \in Tables, Agree(m, s)
  PROVE  Pruned(m) \in Tables /\ Pruned(s) \in Tables /\ Agree(Pruned(m), Pruned(s))
<1>1. m.spend = s.spend /\ m.nonces = s.nonces /\ m.sessions = s.sessions /\ Followed(m.escrows, s.escrows)
  BY DEF Agree
<1>2. Pruned(m).nonces = Pruned(s).nonces
  <2> DEFINE p(d) == [n \in Nonces |-> IF d[n] # NoEntry /\ d[n] + NonceLife < clock THEN NoEntry ELSE d[n]]
  <2>1. Pruned(m).nonces = p(m.nonces) /\ Pruned(s).nonces = p(s.nonces)
    BY PrunedTyped
  <2> HIDE DEF p
  <2> QED  BY <1>1, <2>1
<1>3. /\ Pruned(m) \in Tables /\ Pruned(m).spend = m.spend
      /\ Pruned(m).sessions = m.sessions /\ Pruned(m).escrows = m.escrows
      /\ Pruned(s) \in Tables /\ Pruned(s).spend = s.spend
      /\ Pruned(s).sessions = s.sessions /\ Pruned(s).escrows = s.escrows
  BY PrunedTyped
<1> QED  BY <1>1, <1>2, <1>3 DEF Agree

LEMMA RememberedAgrees ==
  ASSUME NEW m \in Tables, NEW s \in Tables, Agree(m, s), NEW key \in Nonces, clock \in Nat
  PROVE  /\ Remembered(m, key) \in Tables /\ Remembered(s, key) \in Tables
         /\ Agree(Remembered(m, key), Remembered(s, key))
<1>1. \A d \in Tables : /\ Remembered(d, key) \in Tables /\ Remembered(d, key).spend = d.spend
                        /\ Remembered(d, key).sessions = d.sessions /\ Remembered(d, key).escrows = d.escrows
                        /\ Remembered(d, key).nonces = IF d.nonces[key] = NoEntry
                                                       THEN [d.nonces EXCEPT ![key] = clock] ELSE d.nonces
  BY DEF Remembered, Tables
<1> QED  BY <1>1 DEF Agree

LEMMA SessionAgrees ==
  ASSUME NEW m \in Tables, NEW s \in Tables, Agree(m, s), NEW k \in Sessions, NEW used \in 0 .. 1
  PROVE  /\ Upserted(m, k, used) \in Tables /\ Upserted(s, k, used) \in Tables
         /\ Agree(Upserted(m, k, used), Upserted(s, k, used))
<1>1. used \in Nat
  OBVIOUS
<1>2. \A d \in Tables : /\ Upserted(d, k, used) \in Tables /\ Upserted(d, k, used).spend = d.spend
                        /\ Upserted(d, k, used).nonces = d.nonces /\ Upserted(d, k, used).escrows = d.escrows
                        /\ Upserted(d, k, used).sessions = [d.sessions EXCEPT ![k] = used]
  BY <1>1 DEF Upserted, Tables
<1> QED  BY <1>2 DEF Agree

LEMMA EscrowAgrees ==
  ASSUME NEW m \in Tables, NEW s \in Tables, Agree(m, s), NEW k \in EscrowKeys
  PROVE  /\ EscrowSaved(m, k) \in Tables /\ EscrowSaved(s, k) \in Tables
         /\ Agree(EscrowSaved(m, k), EscrowSaved(s, k))
         /\ ReleasedInSql(s, k) \in Tables /\ Agree(ReleasedInMirror(m, k), ReleasedInSql(s, k))
<1>1. \A d \in Tables : /\ EscrowSaved(d, k) \in Tables /\ EscrowSaved(d, k).spend = d.spend
                        /\ EscrowSaved(d, k).nonces = d.nonces /\ EscrowSaved(d, k).sessions = d.sessions
                        /\ EscrowSaved(d, k).escrows = [d.escrows EXCEPT ![k] = "pending"]
                        /\ d.escrows \in [EscrowKeys -> {NoEntry, "pending", "released"}]
  BY DEF EscrowSaved, Tables
<1>2. Agree(EscrowSaved(m, k), EscrowSaved(s, k))
  <2>1. Followed(EscrowSaved(m, k).escrows, EscrowSaved(s, k).escrows)
    <3>1. /\ EscrowSaved(m, k).escrows = [m.escrows EXCEPT ![k] = "pending"]
          /\ EscrowSaved(s, k).escrows = [s.escrows EXCEPT ![k] = "pending"]
          /\ DOMAIN m.escrows = EscrowKeys /\ DOMAIN s.escrows = EscrowKeys
      BY <1>1
    <3>2. Followed(m.escrows, s.escrows)
      BY DEF Agree
    <3> QED  BY <3>1, <3>2 DEF Followed
  <2> QED  BY <1>1, <2>1 DEF Agree
<1>3. /\ ReleasedInSql(s, k) \in Tables /\ ReleasedInSql(s, k).spend = s.spend
      /\ ReleasedInSql(s, k).nonces = s.nonces /\ ReleasedInSql(s, k).sessions = s.sessions
      /\ ReleasedInSql(s, k).escrows = IF s.escrows[k] = "pending" THEN [s.escrows EXCEPT ![k] = "released"]
                                       ELSE s.escrows
  BY DEF ReleasedInSql, Tables
<1>4. Agree(ReleasedInMirror(m, k), ReleasedInSql(s, k))
  <2>1. Followed(m.escrows, ReleasedInSql(s, k).escrows)
    BY <1>1, <1>3 DEF Followed, Agree
  <2> QED  BY <1>3, <2>1 DEF ReleasedInMirror, Agree
<1> QED  BY <1>1, <1>2, <1>3, <1>4

(* A write of both engines keeps the file in step, unless it fails.        *)
LEMMA WriteStep ==
  ASSUME StoreInv, NEW inSql \in Tables, NEW inMirror \in Tables, Writes(inSql, inMirror),
         Agree(mirror, sql) => Agree(inMirror, inSql)
  PROVE  StoreInv'
<1>1. /\ up /\ sql' = inSql /\ UNCHANGED <<engine, up, todo, recorded, made, clock>>
  BY DEF Writes
<1>2. Recording' /\ Booting'
  BY <1>1 DEF StoreInv, Recording, Booting
<1>3. CASE engine = "json"
  <2>1. PICK saved \in BOOLEAN : /\ disk' = IF saved /\ inMirror # mirror THEN inMirror ELSE disk
                                 /\ unsaved' = (unsaved \/ ~saved)
    BY <1>3 DEF Writes
  <2>2. mirror' = inMirror
    BY <1>3 DEF Writes
  <2>3. Saved'
    <3> SUFFICES ASSUME ~unsaved' PROVE disk' # Damaged /\ Agree(disk', sql') /\ mirror' = disk'
      BY <1>1 DEF Saved
    <3>1. saved /\ ~unsaved
      BY <2>1
    <3>2. disk # Damaged /\ mirror = disk /\ Agree(mirror, sql)
      BY <1>1, <1>3, <3>1 DEF StoreInv, Saved
    <3>3. disk' = inMirror
      BY <2>1, <3>1, <3>2
    <3> QED  BY <1>1, <2>2, <3>2, <3>3, EntryAssumption
  <2>4. Stored'
    BY <1>1, <2>1, <2>2 DEF StoreInv, Stored
  <2> QED  BY <1>2, <2>3, <2>4 DEF StoreInv
<1>4. CASE engine # "json"
  BY <1>1, <1>2, <1>4 DEF Writes, StoreInv, Saved, Stored
<1> QED  BY <1>3, <1>4

LEMMA StoreStep == StoreInv /\ [StoreNext]_storeVars => StoreInv'
<1> SUFFICES ASSUME StoreInv, [StoreNext]_storeVars PROVE StoreInv'
  OBVIOUS
<1>0. sql \in Tables /\ mirror \in Tables /\ clock \in Nat
  BY DEF StoreInv, Stored
<1>1. CASE OpenSqlite \/ ExecMigration \/ RecordMigration
  <2>1. Recording' /\ Booting'
    BY <1>1, BootStep
  <2>2. UNCHANGED <<engine, sql, mirror, disk, unsaved, clock>> /\ engine # "json" /\ up' \in BOOLEAN
    BY <1>1 DEF OpenSqlite, ExecMigration, RecordMigration, MarksDone, StoreInv, Booting, Stored
  <2> QED  BY <2>1, <2>2 DEF StoreInv, Saved, Stored
<1>2. CASE OpenJson
  <2>1. /\ engine = "json" /\ up' = TRUE /\ mirror' = IF disk = Damaged THEN NoTables ELSE disk
        /\ UNCHANGED <<engine, todo, recorded, made, sql, disk, unsaved, clock>>
    BY <1>2 DEF OpenJson
  <2>2. mirror' \in Tables
    BY <2>1, NoTablesTyped DEF StoreInv, Stored
  <2>3. Stored' /\ Saved' /\ Booting'
    BY <2>1, <2>2 DEF StoreInv, Stored, Saved, Booting
  <2>4. Recording'
    BY <2>1 DEF StoreInv, Recording
  <2> QED  BY <2>3, <2>4 DEF StoreInv
<1>3. CASE StoreCrash
  <2>1. PICK torn \in BOOLEAN : disk' = (IF torn THEN Damaged ELSE disk) /\ unsaved' = (unsaved \/ torn)
    BY <1>3 DEF StoreCrash
  <2>2. up' = FALSE /\ todo' = {} /\ UNCHANGED <<engine, recorded, made, sql, mirror, clock>>
    BY <1>3 DEF StoreCrash
  <2> QED  BY <2>1, <2>2 DEF StoreInv, Stored, Saved, Booting, Recording
<1>4. CASE StoreTick
  BY <1>4 DEF StoreTick, StoreInv, Stored, Saved, Booting, Recording
<1>5. ASSUME NEW agent \in Agents, RecordSpend(agent) PROVE StoreInv'
  <2>1. /\ Spend(sql, agent) \in Tables /\ Spend(mirror, agent) \in Tables
        /\ Agree(mirror, sql) => Agree(Spend(mirror, agent), Spend(sql, agent))
    <3>1. Agree(sql, sql) /\ Agree(mirror, mirror)
      BY DEF Agree, Followed
    <3> QED  BY <1>0, <3>1, SpendAgrees
  <2> QED  BY <1>5, <2>1, WriteStep DEF RecordSpend
<1>6. ASSUME NEW key \in Nonces, NEW cleans \in BOOLEAN, ClaimKey(key, cleans) PROVE StoreInv'
  <2> DEFINE a == IF cleans THEN Pruned(sql) ELSE sql
             b == IF cleans THEN Pruned(mirror) ELSE mirror
  <2>1. a \in Tables /\ b \in Tables /\ (Agree(mirror, sql) => Agree(b, a))
    BY <1>0, PrunedTyped, PrunedAgrees
  <2>2. Writes(Remembered(a, key), Remembered(b, key))
    BY <1>6 DEF ClaimKey
  <2> HIDE DEF a, b
  <2>3. /\ Remembered(a, key) \in Tables /\ Remembered(b, key) \in Tables
        /\ Agree(mirror, sql) => Agree(Remembered(b, key), Remembered(a, key))
    <3>1. Agree(a, a) /\ Agree(b, b)
      BY DEF Agree, Followed
    <3> QED  BY <1>0, <2>1, <3>1, RememberedAgrees
  <2> QED  BY <2>2, <2>3, WriteStep
<1>7. ASSUME NEW s \in Sessions, NEW used \in 0 .. 1, SaveSession(s, used) PROVE StoreInv'
  <2>1. /\ Upserted(sql, s, used) \in Tables /\ Upserted(mirror, s, used) \in Tables
        /\ Agree(mirror, sql) => Agree(Upserted(mirror, s, used), Upserted(sql, s, used))
    <3>1. Agree(sql, sql) /\ Agree(mirror, mirror)
      BY DEF Agree, Followed
    <3> QED  BY <1>0, <3>1, SessionAgrees
  <2> QED  BY <1>7, <2>1, WriteStep DEF SaveSession
<1>8. ASSUME NEW e \in EscrowKeys, SaveEscrow(e) \/ ReleaseEscrow(e) PROVE StoreInv'
  <2>1. /\ EscrowSaved(sql, e) \in Tables /\ EscrowSaved(mirror, e) \in Tables
        /\ ReleasedInSql(sql, e) \in Tables /\ ReleasedInMirror(mirror, e) \in Tables
        /\ Agree(mirror, sql) => /\ Agree(EscrowSaved(mirror, e), EscrowSaved(sql, e))
                                 /\ Agree(ReleasedInMirror(mirror, e), ReleasedInSql(sql, e))
    <3>1. Agree(sql, sql) /\ Agree(mirror, mirror)
      BY DEF Agree, Followed
    <3>2. ReleasedInMirror(mirror, e) = mirror
      BY DEF ReleasedInMirror
    <3> QED  BY <1>0, <3>1, <3>2, EscrowAgrees
  <2> QED  BY <1>8, <2>1, WriteStep DEF SaveEscrow, ReleaseEscrow
<1>9. CASE UNCHANGED storeVars
  BY <1>9 DEF storeVars, StoreInv, Stored, Saved, Booting, Recording
<1> QED  BY <1>1, <1>2, <1>3, <1>4, <1>5, <1>6, <1>7, <1>8, <1>9 DEF StoreNext

(* lib/db.ts and lib/migrations.ts: as long as the writes of its file      *)
(* succeed the JSON fallback answers what SQLite would, and with SQLite    *)
(* only migration 8 can be missing from a service that is up.              *)
THEOREM StoreIsKept == StoreSpec => []StoreKeepsItsWord
<1>1. StoreInv => StoreKeepsItsWord
  <2> SUFFICES ASSUME StoreInv PROVE StoreKeepsItsWord
    OBVIOUS
  <2>1. ASSUME engine = "json", up, ~unsaved PROVE SameAnswers
    <3>1. Agree(mirror, sql)
      BY <2>1 DEF StoreInv, Saved
    <3>2. \A agent \in Agents : SpentOn(mirror, agent) = SpentOn(sql, agent)
      BY <3>1 DEF Agree, SpentOn
    <3> QED  BY <3>1, <3>2 DEF Agree, Followed, SameAnswers
  <2>2. recorded \subseteq made /\ (engine = "sqlite" /\ up => Versions \ made \subseteq {8})
    BY DEF StoreInv, Recording
  <2> QED  BY <2>1, <2>2 DEF StoreKeepsItsWord
<1> QED  BY <1>1, InitStore, StoreStep, PTL DEF StoreSpec

-----------------------------------------------------------------------------
(* Scores.  Types first; a reading is something its source can hold.       *)
Parts == UNION {[D -> Nat] : D \in SUBSET Sources}
ScoringTypes == [phase : {"idle", "racing", "late"}, ask : AskKinds, todo : Seq(Sources), parts : Parts,
                 since : Nat, asked : Nat, seen : Nat \cup {NoReading}]
Spare == IF ScoreTtl = 0 THEN 0 ELSE ScoreTtl - 1

ErcTypes ==
  /\ tick \in Nat
  /\ DOMAIN chain = Sources /\ DOMAIN lastHeld = Sources
  /\ \A s \in Sources : chain[s] \in Readings[s] /\ lastHeld[s] \in [Readings[s] -> Int]
  /\ DOMAIN partCache = CachedSources /\ DOMAIN scoreCache = AskKinds
  /\ scoring \in [Scorings -> ScoringTypes]

\* A reading that a source held at this time, or a failed read.
HeldSince(s, r, t) == r \in Readings[s] /\ (r # 0 => lastHeld[s][r] >= t)
AllHeldSince(parts, t) == parts \in Parts /\ \A s \in DOMAIN parts : HeldSince(s, parts[s], t)

HeldNow == \A s \in Sources : lastHeld[s][chain[s]] = tick /\ \A r \in Readings[s] : lastHeld[s][r] <= tick
PartsCached ==
  \A s \in CachedSources : LET e == partCache[s] IN
    e # NotCached => e.until \in Nat /\ HeldSince(s, e.value, e.until - ScoreTtl - LongestTrip)
ScoresCached ==
  \A a \in AskKinds : LET e == scoreCache[a] IN
    e # NotCached => /\ e.until \in Nat /\ e.until <= tick + ScoreTtl
                     /\ AllHeldSince(e.value, e.until - ScoreTtl - RpcTimeout - LongestTrip - Spare)
CallTimely(c) ==
  /\ c.phase = "racing" => tick <= c.since + RpcTimeout
  /\ c.phase # "idle" => c.since <= tick /\ AllHeldSince(c.parts, c.since - LongestTrip - Spare)
  /\ c.seen # NoReading => /\ c.todo # <<>> /\ c.since <= c.asked /\ tick <= c.asked + LongestTrip
                           /\ HeldSince(Head(c.todo), c.seen, c.asked)
CallsTimely == \A k \in Scorings : CallTimely(scoring[k])
ErcInv == ErcTypes /\ HeldNow /\ PartsCached /\ ScoresCached /\ CallsTimely

LEMMA NoParts == <<>> \in Parts /\ DOMAIN <<>> = {} /\ (\A t : AllHeldSince(<<>>, t))
<1>1. <<>> = [x \in {} |-> 0] /\ DOMAIN <<>> = {}
  OBVIOUS
<1>2. [x \in {} |-> 0] \in [{} -> Nat] /\ {} \in SUBSET Sources
  OBVIOUS
<1>3. <<>> \in Parts
  BY <1>1, <1>2 DEF Parts
<1> QED  BY <1>1, <1>3 DEF AllHeldSince

LEMMA RestingType == Resting \in ScoringTypes
<1>1. <<>> \in Seq(Sources) /\ <<>> \in Parts
  BY NoParts
<1> QED  BY <1>1 DEF Resting, ScoringTypes, AskKinds

LEMMA ErcStarts == ErcInit => ErcInv
<1> SUFFICES ASSUME ErcInit PROVE ErcInv
  OBVIOUS
<1>1. \A s \in Sources : chain[s] \in Readings[s] /\ Readings[s] \subseteq Nat
  <2> SUFFICES ASSUME NEW s \in Sources PROVE chain[s] \in Readings[s] /\ Readings[s] \subseteq Nat
    OBVIOUS
  <2>1. PICK r \in Readings[s] : \A q \in Readings[s] : r >= q
    BY ErcAssumption
  <2>2. Max(Readings[s]) \in Readings[s]
    BY <2>1 DEF Max
  <2> QED  BY <2>2, ErcAssumption DEF ErcInit
<1>2. ErcTypes
  BY <1>1, RestingType DEF ErcInit, ErcTypes
<1>3. HeldNow
  BY <1>1 DEF ErcInit, HeldNow
<1>4. CallsTimely
  BY DEF ErcInit, CallsTimely, CallTimely, Resting
<1>5. PartsCached /\ ScoresCached
  BY DEF ErcInit, PartsCached, ScoresCached
<1> QED  BY <1>2, <1>3, <1>4, <1>5 DEF ErcInv

-----------------------------------------------------------------------------
(* What was held at a time was held at any earlier one, and stays so.      *)
LEMMA HeldEarlier ==
  ASSUME ErcTypes, NEW s \in Sources, NEW r, NEW t \in Int, NEW u \in Int, u <= t, HeldSince(s, r, t)
  PROVE  HeldSince(s, r, u)
<1>1. r \in Readings[s] => lastHeld[s][r] \in Int
  BY DEF ErcTypes
<1> QED  BY <1>1 DEF HeldSince

LEMMA AllHeldEarlier ==
  ASSUME ErcTypes, NEW parts, NEW t \in Int, NEW u \in Int, u <= t, AllHeldSince(parts, t)
  PROVE  AllHeldSince(parts, u)
<1>1. \A s \in DOMAIN parts : s \in Sources
  BY DEF AllHeldSince, Parts
<1> QED  BY <1>1, HeldEarlier DEF AllHeldSince

(* The calculation with one more reading.                                  *)
LEMMA KeptParts ==
  ASSUME ErcTypes, NEW s \in Sources, NEW r \in Nat, NEW ask, NEW parts, NEW t \in Int,
         AllHeldSince(parts, t), HeldSince(s, r, t)
  PROVE  AllHeldSince(Kept(s, r, ask, parts), t)
<1> DEFINE more == [x \in DOMAIN parts \cup {s} |-> IF x = s THEN r ELSE parts[x]]
<1>1. PICK D \in SUBSET Sources : parts \in [D -> Nat]
  BY DEF AllHeldSince, Parts
<1>2. more \in [D \cup {s} -> Nat] /\ D \cup {s} \in SUBSET Sources
  BY <1>1
<1>3. more \in Parts
  BY <1>2 DEF Parts
<1>4. \A x \in DOMAIN more : HeldSince(x, more[x], t)
  BY DEF AllHeldSince
<1>5. AllHeldSince(more, t)
  BY <1>3, <1>4 DEF AllHeldSince
<1> QED  BY <1>5 DEF Kept

LEMMA ContinuedType ==
  ASSUME NEW s \in Sources, NEW r, NEW ask, NEW rest \in Seq(Sources)
  PROVE  Continued(s, r, ask, rest) \in Seq(Sources)
<1>1. /\ <<>> \in Seq(Sources) /\ <<"index">> \in Seq(Sources) /\ <<"owner">> \in Seq(Sources)
      /\ <<"card">> \in Seq(Sources) /\ OtherReads \in Seq(Sources)
  BY DEF Sources, OtherReads
<1> QED  BY <1>1 DEF Continued

LEMMA AfterReading ==
  ASSUME ErcTypes, NEW k \in Scorings, Reading(k), NEW r \in Nat, CallTimely(scoring[k]),
         HeldSince(Head(scoring[k].todo), r, scoring[k].since - LongestTrip - Spare)
  PROVE  LET c == After(k, Head(scoring[k].todo), r)
         IN  /\ c \in ScoringTypes /\ c.phase = scoring[k].phase /\ c.since = scoring[k].since /\ c.seen = NoReading
             /\ AllHeldSince(c.parts, c.since - LongestTrip - Spare)
<1> DEFINE o == scoring[k]
           s == Head(o.todo)
           left == Continued(s, r, o.ask, Tail(o.todo))
           parts == Kept(s, r, o.ask, o.parts)
           t == o.since - LongestTrip - Spare
           c == After(k, s, r)
<1>1. o \in ScoringTypes /\ o.todo \in Seq(Sources) /\ o.todo # <<>> /\ o.phase # "idle" /\ o.since \in Nat
  BY DEF ErcTypes, ScoringTypes, Reading
<1>2. s \in Sources /\ Tail(o.todo) \in Seq(Sources)
  BY <1>1
<1>3. left \in Seq(Sources)
  BY <1>2, ContinuedType
<1>4. t \in Int /\ AllHeldSince(o.parts, t)
  BY <1>1, ErcAssumption DEF CallTimely, Spare
<1> HIDE DEF o, s, t
<1>5. AllHeldSince(parts, t)
  BY <1>2, <1>4, KeptParts DEF t, o, s
<1>6. parts \in Parts
  BY <1>5 DEF AllHeldSince
<1>7. c = [o EXCEPT !.todo = left, !.parts = parts, !.seen = NoReading]
  BY DEF After, o
<1> HIDE DEF left, parts, c
<1>8. c \in ScoringTypes
  BY <1>1, <1>3, <1>6, <1>7 DEF ScoringTypes
<1>9. c.phase = o.phase /\ c.since = o.since /\ c.seen = NoReading /\ c.parts = parts
  BY <1>1, <1>7 DEF ScoringTypes
<1> QED  BY <1>5, <1>8, <1>9 DEF c, o, s, t

(* One calculation moves on; the registries and the clock stand still.     *)
LEMMA OneScoring ==
  ASSUME ErcInv, NEW k \in Scorings, NEW c \in ScoringTypes, CallTimely(c),
         scoring' = [scoring EXCEPT ![k] = c], UNCHANGED <<tick, chain, lastHeld>>
  PROVE  /\ scoring' \in [Scorings -> ScoringTypes] /\ CallsTimely' /\ HeldNow'
         /\ UNCHANGED partCache => PartsCached'
         /\ UNCHANGED scoreCache => ScoresCached'
<1>1. scoring \in [Scorings -> ScoringTypes]
  BY DEF ErcInv, ErcTypes
<1>2. scoring' \in [Scorings -> ScoringTypes]
  BY <1>1
<1>3. CallsTimely'
  <2> SUFFICES ASSUME NEW j \in Scorings PROVE CallTimely(scoring[j])'
    BY DEF CallsTimely
  <2>1. scoring'[j] = c \/ scoring'[j] = scoring[j]
    BY <1>1
  <2>2. CallTimely(scoring[j])
    BY DEF ErcInv, CallsTimely
  <2> QED  BY <2>1, <2>2 DEF CallTimely, AllHeldSince, HeldSince
<1>4. HeldNow'
  BY DEF ErcInv, HeldNow
<1>5. UNCHANGED partCache => PartsCached'
  BY DEF ErcInv, PartsCached, HeldSince
<1>6. UNCHANGED scoreCache => ScoresCached'
  BY DEF ErcInv, ScoresCached, AllHeldSince, HeldSince
<1> QED  BY <1>2, <1>3, <1>4, <1>5, <1>6

(* What is known of a calculation that has something left to read.         *)
LEMMA ReadingFacts ==
  ASSUME ErcInv, NEW k \in Scorings, Reading(k)
  PROVE  /\ ErcTypes /\ scoring[k] \in ScoringTypes /\ CallTimely(scoring[k])
         /\ scoring[k].todo \in Seq(Sources) /\ scoring[k].todo # <<>> /\ Head(scoring[k].todo) \in Sources
         /\ scoring[k].since \in Nat /\ scoring[k].asked \in Nat /\ tick \in Nat /\ scoring[k].phase # "idle"
<1>1. ErcTypes /\ scoring[k] \in ScoringTypes /\ CallTimely(scoring[k]) /\ tick \in Nat
  BY DEF ErcInv, ErcTypes, CallsTimely
<1>2. scoring[k].todo # <<>> /\ scoring[k].phase # "idle"
  BY DEF Reading
<1>3. scoring[k].todo \in Seq(Sources) /\ scoring[k].since \in Nat /\ scoring[k].asked \in Nat
  BY <1>1 DEF ScoringTypes
<1>4. Head(scoring[k].todo) \in Sources
  BY <1>2, <1>3
<1> QED  BY <1>1, <1>2, <1>3, <1>4

LEMMA ComputeKeeps ==
  ASSUME ErcInv, NEW k \in Scorings, NEW ask \in AskKinds, NEW skip \in BOOLEAN, Compute(k, ask, skip)
  PROVE  ErcInv'
<1> DEFINE c == [Resting EXCEPT !.phase = "racing", !.ask = ask, !.todo = FirstReads(ask), !.since = tick]
<1>1. /\ scoring' = [scoring EXCEPT ![k] = c]
      /\ UNCHANGED <<tick, shifts, chain, lastHeld, partCache, scoreCache>>
  BY DEF Compute
<1>2. tick \in Nat
  BY DEF ErcInv, ErcTypes
<1>3. FirstReads(ask) \in Seq(Sources)
  <2>1. <<"owner">> \in Seq(Sources) /\ <<"balance">> \in Seq(Sources)
    BY DEF Sources
  <2> QED  BY <2>1 DEF FirstReads
<1>4. c = [Resting EXCEPT !.phase = "racing", !.ask = ask, !.todo = FirstReads(ask), !.since = tick]
  OBVIOUS
<1>5. Resting.parts = <<>> /\ Resting.seen = NoReading
  BY DEF Resting
<1> HIDE DEF c
<1>6. c \in ScoringTypes /\ c.phase = "racing" /\ c.since = tick /\ c.parts = <<>> /\ c.seen = NoReading
  <2>1. Resting \in ScoringTypes
    BY RestingType
  <2>2. c \in ScoringTypes
    BY <1>2, <1>3, <1>4, <2>1 DEF ScoringTypes
  <2>3. c.phase = "racing" /\ c.since = tick
    BY <1>4, <2>1 DEF ScoringTypes
  <2>4. c.parts = Resting.parts /\ c.seen = Resting.seen
    BY <1>4, <2>1 DEF ScoringTypes
  <2> QED  BY <1>5, <2>2, <2>3, <2>4
<1>7. CallTimely(c)
  BY <1>2, <1>6, NoParts, ErcAssumption DEF CallTimely
<1>8. scoring' \in [Scorings -> ScoringTypes] /\ CallsTimely' /\ HeldNow' /\ PartsCached' /\ ScoresCached'
  BY <1>1, <1>6, <1>7, OneScoring
<1>9. ErcTypes'
  BY <1>1, <1>8 DEF ErcInv, ErcTypes
<1> QED  BY <1>8, <1>9 DEF ErcInv

LEMMA ReadCachedKeeps ==
  ASSUME ErcInv, NEW k \in Scorings, ReadCached(k)
  PROVE  ErcInv'
<1> DEFINE o == scoring[k]
           s == Head(o.todo)
           e == partCache[s]
           c == After(k, s, e.value)
<1>1. /\ scoring' = [scoring EXCEPT ![k] = c] /\ Reading(k) /\ s \in CachedSources /\ Unexpired(e)
      /\ UNCHANGED <<tick, shifts, chain, lastHeld, partCache, scoreCache>>
  BY DEF ReadCached
<1>2. /\ ErcTypes /\ o \in ScoringTypes /\ o.todo \in Seq(Sources) /\ o.since \in Nat /\ tick \in Nat
      /\ s \in Sources /\ CallTimely(o) /\ o.phase # "idle"
  BY <1>1, ReadingFacts
<1>3. e.until \in Nat /\ HeldSince(s, e.value, e.until - ScoreTtl - LongestTrip) /\ tick < e.until
  BY <1>1 DEF ErcInv, PartsCached, Unexpired
<1>4. e.value \in Nat
  BY <1>2, <1>3, ErcAssumption DEF HeldSince
<1>5. o.since <= tick
  BY <1>1, <1>2 DEF CallTimely, Reading
<1> DEFINE t == e.until - ScoreTtl - LongestTrip
           u == o.since - LongestTrip - Spare
<1>6. t \in Int /\ u \in Int /\ u <= t
  <2>1. ScoreTtl \in Nat /\ LongestTrip \in Nat /\ Spare \in Int /\ Spare >= ScoreTtl - 1
    BY ErcAssumption DEF Spare
  <2>2. e.until \in Nat /\ o.since \in Nat /\ tick \in Nat /\ tick < e.until /\ o.since <= tick
    BY <1>2, <1>3, <1>5
  <2> HIDE DEF e, o
  <2> QED  BY <2>1, <2>2
<1>7. HeldSince(s, e.value, u)
  <2> HIDE DEF t, u, e, s, o
  <2>1. HeldSince(s, e.value, t)
    BY <1>3 DEF t
  <2> QED  BY <1>2, <1>6, <2>1, HeldEarlier
<1>8. /\ c \in ScoringTypes /\ c.phase = o.phase /\ c.since = o.since /\ c.seen = NoReading
      /\ AllHeldSince(c.parts, c.since - LongestTrip - Spare)
  BY <1>1, <1>2, <1>4, <1>7, AfterReading
<1> HIDE DEF c
<1>9. CallTimely(c)
  BY <1>2, <1>5, <1>8 DEF CallTimely
<1>10. scoring' \in [Scorings -> ScoringTypes] /\ CallsTimely' /\ HeldNow' /\ PartsCached' /\ ScoresCached'
  BY <1>1, <1>8, <1>9, OneScoring
<1>11. ErcTypes'
  BY <1>1, <1>10 DEF ErcInv, ErcTypes
<1> QED  BY <1>10, <1>11 DEF ErcInv

LEMMA AskChainKeeps ==
  ASSUME ErcInv, NEW k \in Scorings, AskChain(k)
  PROVE  ErcInv'
<1> DEFINE o == scoring[k]
           s == Head(o.todo)
<1>1. /\ Reading(k) /\ UNCHANGED <<tick, shifts, chain, lastHeld, partCache, scoreCache>>
      /\ \E r \in {chain[s]} \cup ({0} \cap Readings[s]) : scoring' = [scoring EXCEPT ![k] = [o EXCEPT !.seen = r, !.asked = tick]]
  BY DEF AskChain
<1>2. PICK r \in {chain[s]} \cup ({0} \cap Readings[s]) : scoring' = [scoring EXCEPT ![k] = [o EXCEPT !.seen = r, !.asked = tick]]
  BY <1>1
<1> DEFINE c == [o EXCEPT !.seen = r, !.asked = tick]
<1>3. /\ ErcTypes /\ o \in ScoringTypes /\ o.todo \in Seq(Sources) /\ o.todo # <<>> /\ o.since \in Nat /\ tick \in Nat
      /\ s \in Sources /\ CallTimely(o) /\ o.phase # "idle"
  BY <1>1, ReadingFacts
<1>4. r \in Readings[s] /\ r \in Nat /\ HeldSince(s, r, tick)
  BY <1>3, ErcAssumption DEF ErcInv, ErcTypes, HeldNow, HeldSince
<1>5. c = [o EXCEPT !.seen = r, !.asked = tick]
  OBVIOUS
<1> HIDE DEF c, s
<1>6. c \in ScoringTypes
  BY <1>3, <1>4, <1>5 DEF ScoringTypes
<1>7. /\ c.phase = o.phase /\ c.since = o.since /\ c.parts = o.parts /\ c.todo = o.todo
      /\ c.seen = r /\ c.asked = tick
  BY <1>3, <1>5 DEF ScoringTypes
<1>8. CallTimely(c)
  BY <1>3, <1>4, <1>7, ErcAssumption DEF CallTimely, s
<1>9. scoring' = [scoring EXCEPT ![k] = c]
  BY <1>2, <1>5
<1>10. scoring' \in [Scorings -> ScoringTypes] /\ CallsTimely' /\ HeldNow' /\ PartsCached' /\ ScoresCached'
  BY <1>1, <1>6, <1>8, <1>9, OneScoring
<1>11. ErcTypes'
  BY <1>1, <1>10 DEF ErcInv, ErcTypes
<1> QED  BY <1>10, <1>11 DEF ErcInv

LEMMA HearChainKeeps ==
  ASSUME ErcInv, NEW k \in Scorings, HearChain(k)
  PROVE  ErcInv'
<1> DEFINE o == scoring[k]
           s == Head(o.todo)
           r == o.seen
           c == After(k, s, r)
<1>1. /\ scoring' = [scoring EXCEPT ![k] = c] /\ Reading(k) /\ o.seen # NoReading
      /\ partCache' = IF s \in CachedSources THEN [partCache EXCEPT ![s] = [value |-> r, until |-> Until]] ELSE partCache
      /\ UNCHANGED <<tick, shifts, chain, lastHeld, scoreCache>>
  BY DEF HearChain
<1>2. /\ ErcTypes /\ o \in ScoringTypes /\ o.todo \in Seq(Sources) /\ o.since \in Nat /\ o.asked \in Nat /\ tick \in Nat
      /\ CallTimely(o) /\ o.phase # "idle" /\ o.todo # <<>>
  BY <1>1, ReadingFacts
<1>3. s \in Sources /\ r \in Nat /\ r \in Readings[s]
  BY <1>1, <1>2 DEF ScoringTypes, CallTimely, HeldSince
<1>4. o.since <= o.asked /\ o.since <= tick /\ tick <= o.asked + LongestTrip /\ HeldSince(s, r, o.asked)
  BY <1>1, <1>2 DEF CallTimely
<1> DEFINE u == o.since - LongestTrip - Spare
           v == Until - ScoreTtl - LongestTrip
<1>5. u \in Int /\ u <= o.asked /\ v \in Int /\ v <= o.asked /\ Until \in Nat
  <2>1. ScoreTtl \in Nat /\ LongestTrip \in Nat /\ Spare \in Int /\ Spare >= 0
    BY ErcAssumption DEF Spare
  <2>2. o.since \in Nat /\ o.asked \in Nat /\ tick \in Nat /\ o.since <= o.asked /\ tick <= o.asked + LongestTrip
    BY <1>2, <1>4
  <2> HIDE DEF o
  <2> QED  BY <2>1, <2>2 DEF Until
<1>6. HeldSince(s, r, u) /\ HeldSince(s, r, v)
  <2> HIDE DEF u, v
  <2> QED  BY <1>2, <1>3, <1>4, <1>5, HeldEarlier
<1>7. /\ c \in ScoringTypes /\ c.phase = o.phase /\ c.since = o.since /\ c.seen = NoReading
      /\ AllHeldSince(c.parts, c.since - LongestTrip - Spare)
  BY <1>1, <1>2, <1>3, <1>6, AfterReading
<1> HIDE DEF c
<1>8. CallTimely(c)
  BY <1>2, <1>4, <1>7 DEF CallTimely
<1>9. scoring' \in [Scorings -> ScoringTypes] /\ CallsTimely' /\ HeldNow' /\ ScoresCached'
  BY <1>1, <1>7, <1>8, OneScoring
<1>10. PartsCached'
  <2> SUFFICES ASSUME NEW q \in CachedSources, partCache'[q] # NotCached
               PROVE  /\ partCache'[q].until \in Nat
                      /\ HeldSince(q, partCache'[q].value, partCache'[q].until - ScoreTtl - LongestTrip)
    BY <1>1 DEF PartsCached, HeldSince
  <2>1. CASE q = s
    <3>1. partCache'[q] = [value |-> r, until |-> Until]
      BY <1>1, <1>2, <2>1 DEF ErcTypes
    <3>2. partCache'[q].value = r /\ partCache'[q].until = Until
      BY <3>1
    <3> QED  BY <1>5, <1>6, <2>1, <3>2
  <2>2. CASE q # s
    <3>1. partCache'[q] = partCache[q]
      BY <1>1, <1>2, <2>2 DEF ErcTypes
    <3> QED  BY <3>1 DEF ErcInv, PartsCached
  <2> QED  BY <2>1, <2>2
<1>11. ErcTypes'
  BY <1>1, <1>9 DEF ErcInv, ErcTypes
<1> QED  BY <1>9, <1>10, <1>11 DEF ErcInv

(* A score is stored: of a calculation in its race, or nothing.            *)
LEMMA SettleKeeps ==
  ASSUME ErcInv, NEW k \in Scorings, NEW parts, Settle(k, parts), UNCHANGED <<tick, chain, lastHeld>>,
         AllHeldSince(parts, tick - RpcTimeout - LongestTrip - Spare)
  PROVE  ScoresCached' /\ DOMAIN scoreCache' = AskKinds
<1> DEFINE a == scoring[k].ask
<1>1. scoreCache' = [scoreCache EXCEPT ![a] = [value |-> parts, until |-> Until]]
  BY DEF Settle
<1>2. tick \in Nat /\ DOMAIN scoreCache = AskKinds
  BY DEF ErcInv, ErcTypes
<1>3. Until \in Nat /\ Until <= tick + ScoreTtl
      /\ Until - ScoreTtl - RpcTimeout - LongestTrip - Spare = tick - RpcTimeout - LongestTrip - Spare
  BY <1>2, ErcAssumption DEF Until, Spare
<1> HIDE DEF a
<1>4. ScoresCached'
  <2> SUFFICES ASSUME NEW b \in AskKinds, scoreCache'[b] # NotCached
               PROVE  /\ scoreCache'[b].until \in Nat /\ scoreCache'[b].until <= tick + ScoreTtl
                      /\ AllHeldSince(scoreCache'[b].value,
                                      scoreCache'[b].until - ScoreTtl - RpcTimeout - LongestTrip - Spare)
    BY DEF ScoresCached, AllHeldSince, HeldSince
  <2>1. CASE b = a
    <3>1. scoreCache'[b] = [value |-> parts, until |-> Until]
      BY <1>1, <1>2, <2>1
    <3>2. scoreCache'[b].value = parts /\ scoreCache'[b].until = Until
      BY <3>1
    <3> QED  BY <1>3, <3>2
  <2>2. CASE b # a
    <3>1. scoreCache'[b] = scoreCache[b]
      BY <1>1, <1>2, <2>2
    <3> QED  BY <3>1 DEF ErcInv, ScoresCached
  <2> QED  BY <2>1, <2>2
<1> QED  BY <1>1, <1>2, <1>4

LEMMA RestingTimely == CallTimely(Resting) /\ Resting \in ScoringTypes
BY RestingType DEF CallTimely, Resting

LEMMA FinishScoreKeeps ==
  ASSUME ErcInv, NEW k \in Scorings, FinishScore(k)
  PROVE  ErcInv'
<1>1. /\ scoring[k].phase = "racing" /\ Settle(k, scoring[k].parts) /\ scoring' = [scoring EXCEPT ![k] = Resting]
      /\ UNCHANGED <<tick, shifts, chain, lastHeld, partCache>>
  BY DEF FinishScore
<1> DEFINE o == scoring[k]
           t == o.since - LongestTrip - Spare
           u == tick - RpcTimeout - LongestTrip - Spare
<1>2. /\ ErcTypes /\ o.since \in Nat /\ tick \in Nat /\ tick <= o.since + RpcTimeout /\ AllHeldSince(o.parts, t)
  BY <1>1 DEF ErcInv, ErcTypes, ScoringTypes, CallsTimely, CallTimely
<1>3. t \in Int /\ u \in Int /\ u <= t
  BY <1>2, ErcAssumption DEF Spare
<1> HIDE DEF t, u
<1>4. AllHeldSince(o.parts, u)
  BY <1>2, <1>3, AllHeldEarlier
<1>5. ScoresCached' /\ DOMAIN scoreCache' = AskKinds
  BY <1>1, <1>4, SettleKeeps DEF u
<1>6. scoring' \in [Scorings -> ScoringTypes] /\ CallsTimely' /\ HeldNow' /\ PartsCached'
  BY <1>1, OneScoring, RestingTimely
<1>7. ErcTypes'
  BY <1>1, <1>5, <1>6 DEF ErcInv, ErcTypes
<1> QED  BY <1>5, <1>6, <1>7 DEF ErcInv

LEMMA RpcTimesOutKeeps ==
  ASSUME ErcInv, NEW k \in Scorings, RpcTimesOut(k)
  PROVE  ErcInv'
<1> DEFINE o == scoring[k]
           c == [o EXCEPT !.phase = "late"]
<1>1. /\ o.phase = "racing" /\ Settle(k, <<>>) /\ scoring' = [scoring EXCEPT ![k] = c]
      /\ UNCHANGED <<tick, shifts, chain, lastHeld, partCache>>
  BY DEF RpcTimesOut
<1>2. /\ ErcTypes /\ o \in ScoringTypes /\ CallTimely(o)
  BY DEF ErcInv, ErcTypes, CallsTimely
<1>3. /\ c \in ScoringTypes /\ c.phase = "late" /\ c.since = o.since /\ c.parts = o.parts /\ c.todo = o.todo
      /\ c.seen = o.seen /\ c.asked = o.asked
  BY <1>2 DEF ScoringTypes
<1> HIDE DEF c, o
<1>4. CallTimely(c)
  BY <1>1, <1>2, <1>3 DEF CallTimely
<1>5. ScoresCached' /\ DOMAIN scoreCache' = AskKinds
  BY <1>1, NoParts, SettleKeeps
<1>6. scoring' \in [Scorings -> ScoringTypes] /\ CallsTimely' /\ HeldNow' /\ PartsCached'
  BY <1>1, <1>3, <1>4, OneScoring
<1>7. ErcTypes'
  BY <1>1, <1>5, <1>6 DEF ErcInv, ErcTypes
<1> QED  BY <1>5, <1>6, <1>7 DEF ErcInv

LEMMA RpcFailsKeeps ==
  ASSUME ErcInv, NEW k \in Scorings, RpcFails(k) \/ LateEnds(k)
  PROVE  ErcInv'
<1>1. /\ UNCHANGED scoreCache \/ Settle(k, <<>>)
      /\ scoring' = [scoring EXCEPT ![k] = Resting] /\ UNCHANGED <<tick, shifts, chain, lastHeld, partCache>>
  BY DEF RpcFails, LateEnds
<1>2. scoring' \in [Scorings -> ScoringTypes] /\ CallsTimely' /\ HeldNow' /\ PartsCached' /\ (UNCHANGED scoreCache => ScoresCached')
  BY <1>1, OneScoring, RestingTimely
<1>3. ScoresCached' /\ DOMAIN scoreCache' = AskKinds
  <2>1. Settle(k, <<>>) => ScoresCached' /\ DOMAIN scoreCache' = AskKinds
    BY <1>1, NoParts, SettleKeeps
  <2> QED  BY <1>1, <1>2, <2>1 DEF ErcInv, ErcTypes
<1>4. ErcTypes'
  BY <1>1, <1>2, <1>3 DEF ErcInv, ErcTypes
<1> QED  BY <1>2, <1>3, <1>4 DEF ErcInv

(* The history of what sources hold only grows, and callers keep time.     *)
LEMMA HistoryGrows ==
  ASSUME ErcInv, tick' \in Nat, tick <= tick', UNCHANGED scoring,
         \A s \in Sources : \A r \in Readings[s] : lastHeld'[s][r] \in Int /\ lastHeld[s][r] <= lastHeld'[s][r],
         \A s \in CachedSources : partCache'[s] = partCache[s] \/ partCache'[s] = NotCached,
         \A a \in AskKinds : scoreCache'[a] = scoreCache[a] \/ scoreCache'[a] = NotCached,
         \A k \in Scorings : /\ scoring[k].phase = "racing" => tick' <= scoring[k].since + RpcTimeout
                             /\ scoring[k].seen # NoReading => tick' <= scoring[k].asked + LongestTrip
  PROVE  PartsCached' /\ ScoresCached' /\ CallsTimely'
<1>1. ErcTypes /\ tick \in Nat /\ \A s \in Sources : \A r \in Readings[s] : lastHeld[s][r] \in Int
  BY DEF ErcInv, ErcTypes
<1>2. ASSUME NEW s \in Sources, NEW r, NEW t \in Int, HeldSince(s, r, t)
      PROVE  r \in Readings[s] /\ (r # 0 => lastHeld'[s][r] >= t)
  <2> SUFFICES ASSUME r # 0 PROVE lastHeld'[s][r] >= t
    BY <1>2 DEF HeldSince
  <2>1. r \in Readings[s] /\ lastHeld[s][r] >= t
    BY <1>2 DEF HeldSince
  <2>2. lastHeld[s][r] \in Int /\ lastHeld'[s][r] \in Int /\ lastHeld[s][r] <= lastHeld'[s][r]
    BY <1>1, <2>1
  <2> QED  BY <2>1, <2>2
<1>3. ASSUME NEW parts, NEW t \in Int, AllHeldSince(parts, t)
      PROVE  parts \in Parts /\ \A s \in DOMAIN parts : parts[s] \in Readings[s] /\ (parts[s] # 0 => lastHeld'[s][parts[s]] >= t)
  <2>1. \A s \in DOMAIN parts : s \in Sources
    BY <1>3 DEF AllHeldSince, Parts
  <2> QED  BY <1>2, <1>3, <2>1 DEF AllHeldSince
<1>4. PartsCached'
  <2> SUFFICES ASSUME NEW s \in CachedSources, partCache'[s] # NotCached
               PROVE  LET e == partCache'[s] IN
                      /\ e.until \in Nat /\ e.value \in Readings[s]
                      /\ e.value # 0 => lastHeld'[s][e.value] >= e.until - ScoreTtl - LongestTrip
    BY DEF PartsCached, HeldSince
  <2> DEFINE e == partCache[s]
             t == e.until - ScoreTtl - LongestTrip
  <2>1. partCache'[s] = e /\ e # NotCached /\ s \in Sources
    BY DEF CachedSources, Sources
  <2>2. e.until \in Nat /\ HeldSince(s, e.value, t) /\ t \in Int
    BY <2>1, ErcAssumption DEF ErcInv, PartsCached
  <2> HIDE DEF t, e
  <2>3. e.value \in Readings[s] /\ (e.value # 0 => lastHeld'[s][e.value] >= t)
    BY <1>2, <2>1, <2>2
  <2> QED  BY <2>1, <2>2, <2>3 DEF t
<1>5. ScoresCached'
  <2> SUFFICES ASSUME NEW a \in AskKinds, scoreCache'[a] # NotCached
               PROVE  LET e == scoreCache'[a]
                          t == e.until - ScoreTtl - RpcTimeout - LongestTrip - Spare
                      IN /\ e.until \in Nat /\ e.until <= tick' + ScoreTtl /\ e.value \in Parts
                         /\ \A s \in DOMAIN e.value : e.value[s] \in Readings[s] /\ (e.value[s] # 0 => lastHeld'[s][e.value[s]] >= t)
    BY DEF ScoresCached, AllHeldSince, HeldSince, Spare
  <2> DEFINE e == scoreCache[a]
             t == e.until - ScoreTtl - RpcTimeout - LongestTrip - Spare
  <2>1. scoreCache'[a] = e /\ e # NotCached
    OBVIOUS
  <2>2. e.until \in Nat /\ e.until <= tick + ScoreTtl /\ AllHeldSince(e.value, t) /\ t \in Int
    BY <2>1, ErcAssumption DEF ErcInv, ScoresCached, Spare
  <2>3. e.until <= tick' + ScoreTtl
    BY <1>1, <2>2, ErcAssumption
  <2> HIDE DEF t, e
  <2>4. e.value \in Parts /\ \A s \in DOMAIN e.value : e.value[s] \in Readings[s] /\ (e.value[s] # 0 => lastHeld'[s][e.value[s]] >= t)
    BY <1>3, <2>2
  <2> QED  BY <2>1, <2>2, <2>3, <2>4 DEF t
<1>6. CallsTimely'
  <2> SUFFICES ASSUME NEW k \in Scorings
               PROVE  LET c == scoring[k]
                          t == c.since - LongestTrip - Spare
                      IN /\ c.phase = "racing" => tick' <= c.since + RpcTimeout
                         /\ c.phase # "idle" =>
                              /\ c.since <= tick' /\ c.parts \in Parts
                              /\ \A s \in DOMAIN c.parts : c.parts[s] \in Readings[s] /\ (c.parts[s] # 0 => lastHeld'[s][c.parts[s]] >= t)
                         /\ c.seen # NoReading =>
                              /\ c.todo # <<>> /\ c.since <= c.asked /\ tick' <= c.asked + LongestTrip
                              /\ c.seen \in Readings[Head(c.todo)]
                              /\ c.seen # 0 => lastHeld'[Head(c.todo)][c.seen] >= c.asked
    BY DEF CallsTimely, CallTimely, AllHeldSince, HeldSince, Spare
  <2> DEFINE c == scoring[k]
             t == c.since - LongestTrip - Spare
  <2>1. c \in ScoringTypes /\ CallTimely(c)
    BY DEF ErcInv, ErcTypes, CallsTimely
  <2>2. c.since \in Nat /\ c.asked \in Nat /\ t \in Int /\ c.todo \in Seq(Sources)
    BY <2>1, ErcAssumption DEF ScoringTypes, Spare
  <2>3. /\ c.phase = "racing" => tick' <= c.since + RpcTimeout
        /\ c.seen # NoReading => tick' <= c.asked + LongestTrip
    OBVIOUS
  <2> HIDE DEF c, t
  <2>4. ASSUME c.phase # "idle"
        PROVE  /\ c.since <= tick' /\ c.parts \in Parts
               /\ \A s \in DOMAIN c.parts : c.parts[s] \in Readings[s] /\ (c.parts[s] # 0 => lastHeld'[s][c.parts[s]] >= t)
    <3>1. c.since <= tick /\ AllHeldSince(c.parts, t)
      BY <2>1, <2>4 DEF CallTimely, t
    <3> QED  BY <1>1, <1>3, <2>2, <3>1
  <2>5. ASSUME c.seen # NoReading
        PROVE  /\ c.todo # <<>> /\ c.since <= c.asked /\ c.seen \in Readings[Head(c.todo)]
               /\ c.seen # 0 => lastHeld'[Head(c.todo)][c.seen] >= c.asked
    <3>1. c.todo # <<>> /\ c.since <= c.asked /\ HeldSince(Head(c.todo), c.seen, c.asked)
      BY <2>1, <2>5 DEF CallTimely
    <3>2. Head(c.todo) \in Sources
      BY <2>2, <3>1
    <3> QED  BY <1>2, <2>2, <3>1, <3>2
  <2> QED  BY <2>3, <2>4, <2>5 DEF c, t
<1> QED  BY <1>4, <1>5, <1>6

LEMMA ShiftKeeps ==
  ASSUME ErcInv, NEW s \in Sources, Shift(s)
  PROVE  ErcInv'
<1>1. PICK r \in Readings[s] \ {chain[s]} : /\ chain' = [chain EXCEPT ![s] = r]
                                          /\ lastHeld' = [lastHeld EXCEPT ![s][r] = tick]
  BY DEF Shift
<1>2. UNCHANGED <<tick, partCache, scoreCache, scoring>>
  BY DEF Shift
<1>3. /\ tick \in Nat /\ DOMAIN chain = Sources /\ DOMAIN lastHeld = Sources
      /\ \A q \in Sources : chain[q] \in Readings[q] /\ lastHeld[q] \in [Readings[q] -> Int]
  BY DEF ErcInv, ErcTypes
<1>4. /\ DOMAIN chain' = Sources /\ DOMAIN lastHeld' = Sources
      /\ lastHeld'[s] = [lastHeld[s] EXCEPT ![r] = tick] /\ \A q \in Sources \ {s} : lastHeld'[q] = lastHeld[q]
      /\ chain'[s] = r /\ \A q \in Sources \ {s} : chain'[q] = chain[q]
  BY <1>1, <1>3
<1>a. chain[s] \in Readings[s] /\ lastHeld[s] \in [Readings[s] -> Int] /\ r \in Readings[s] /\ r # chain[s]
  BY <1>1, <1>3
<1>5. /\ lastHeld'[s] \in [Readings[s] -> Int] /\ lastHeld'[s][r] = tick
      /\ \A q \in Readings[s] \ {r} : lastHeld'[s][q] = lastHeld[s][q]
  BY <1>3, <1>4, <1>a
<1>6. \A q \in Sources : chain'[q] \in Readings[q] /\ lastHeld'[q] \in [Readings[q] -> Int]
  BY <1>3, <1>4, <1>5, <1>a
<1>7. HeldNow'
  <2>1. lastHeld'[s][chain'[s]] = tick /\ \A q \in Readings[s] : lastHeld'[s][q] <= tick
    BY <1>3, <1>4, <1>5 DEF ErcInv, HeldNow
  <2>2. \A x \in Sources \ {s} : lastHeld'[x][chain'[x]] = tick /\ \A q \in Readings[x] : lastHeld'[x][q] <= tick
    BY <1>4 DEF ErcInv, HeldNow
  <2> QED  BY <1>2, <2>1, <2>2 DEF HeldNow
<1>8. \A q \in Sources : \A x \in Readings[q] : lastHeld'[q][x] \in Int /\ lastHeld[q][x] <= lastHeld'[q][x]
  <2>1. \A x \in Readings[s] : lastHeld'[s][x] \in Int /\ lastHeld[s][x] <= lastHeld'[s][x]
    BY <1>3, <1>5, <1>a DEF ErcInv, HeldNow
  <2>2. \A q \in Sources \ {s} : \A x \in Readings[q] : lastHeld'[q][x] \in Int /\ lastHeld[q][x] <= lastHeld'[q][x]
    BY <1>3, <1>4
  <2> QED  BY <2>1, <2>2
<1>9. PartsCached' /\ ScoresCached' /\ CallsTimely'
  <2>1. \A k \in Scorings : /\ scoring[k].phase = "racing" => tick' <= scoring[k].since + RpcTimeout
                            /\ scoring[k].seen # NoReading => tick' <= scoring[k].asked + LongestTrip
    BY <1>2 DEF ErcInv, CallsTimely, CallTimely
  <2>2. tick' \in Nat /\ tick <= tick' /\ UNCHANGED scoring /\ UNCHANGED partCache /\ UNCHANGED scoreCache
    BY <1>2, <1>3
  <2>3. /\ \A q \in CachedSources : partCache'[q] = partCache[q] \/ partCache'[q] = NotCached
        /\ \A a \in AskKinds : scoreCache'[a] = scoreCache[a] \/ scoreCache'[a] = NotCached
    BY <2>2
  <2> QED  BY <1>8, <2>1, <2>2, <2>3, HistoryGrows
<1>10. ErcTypes'
  BY <1>2, <1>4, <1>6 DEF ErcInv, ErcTypes
<1> QED  BY <1>7, <1>9, <1>10 DEF ErcInv

LEMMA TickErcKeeps ==
  ASSUME ErcInv, TickErc
  PROVE  ErcInv'
<1>1. /\ tick' = tick + 1 /\ UNCHANGED <<shifts, chain, scoring>>
      /\ lastHeld' = [s \in Sources |-> [r \in Readings[s] |-> IF chain[s] = r THEN tick' ELSE lastHeld[s][r]]]
      /\ partCache' = [s \in CachedSources |-> StillCached(partCache[s])]
      /\ scoreCache' = [a \in AskKinds |-> StillCached(scoreCache[a])]
  BY DEF TickErc
<1>2. tick \in Nat /\ tick' \in Nat /\ tick < tick'
  BY <1>1 DEF ErcInv, ErcTypes
<1>3. \A s \in Sources : /\ chain[s] \in Readings[s] /\ lastHeld[s] \in [Readings[s] -> Int]
                          /\ lastHeld'[s] = [r \in Readings[s] |-> IF chain[s] = r THEN tick' ELSE lastHeld[s][r]]
  BY <1>1 DEF ErcInv, ErcTypes
<1>4. ASSUME NEW s \in Sources PROVE lastHeld'[s] \in [Readings[s] -> Int]
  <2>1. ASSUME NEW r \in Readings[s] PROVE (IF chain[s] = r THEN tick' ELSE lastHeld[s][r]) \in Int
    <3>1. lastHeld[s] \in [Readings[s] -> Int]
      BY <1>3
    <3>2. lastHeld[s][r] \in Int /\ tick' \in Int
      BY <1>2, <3>1
    <3> QED  BY <3>2
  <2>2. lastHeld'[s] = [r \in Readings[s] |-> IF chain[s] = r THEN tick' ELSE lastHeld[s][r]]
    BY <1>3
  <2> QED  BY <2>1, <2>2
<1>5. \A s \in Sources : \A r \in Readings[s] : lastHeld'[s][r] = IF chain[s] = r THEN tick' ELSE lastHeld[s][r]
  BY <1>3
<1>6. \A s \in Sources : \A r \in Readings[s] : lastHeld[s][r] \in Int /\ lastHeld[s][r] <= tick
  BY <1>3 DEF ErcInv, HeldNow
<1>7. HeldNow'
  <2>1. ASSUME NEW s \in Sources
        PROVE  lastHeld'[s][chain[s]] = tick' /\ \A r \in Readings[s] : lastHeld'[s][r] <= tick'
    <3>1. chain[s] \in Readings[s]
      BY <1>3
    <3>2. ASSUME NEW r \in Readings[s] PROVE lastHeld'[s][r] <= tick'
      BY <1>2, <1>5, <1>6
    <3> QED  BY <1>5, <3>1, <3>2
  <2> QED  BY <1>1, <2>1 DEF HeldNow
<1>8. \A s \in Sources : \A r \in Readings[s] : lastHeld'[s][r] \in Int /\ lastHeld[s][r] <= lastHeld'[s][r]
  BY <1>2, <1>5, <1>6
<1>9. /\ \A s \in CachedSources : partCache'[s] = partCache[s] \/ partCache'[s] = NotCached
      /\ \A a \in AskKinds : scoreCache'[a] = scoreCache[a] \/ scoreCache'[a] = NotCached
  BY <1>1 DEF StillCached
<1>10. ASSUME NEW k \in Scorings
       PROVE  /\ scoring[k].phase = "racing" => tick' <= scoring[k].since + RpcTimeout
              /\ scoring[k].seen # NoReading => tick' <= scoring[k].asked + LongestTrip
  <2>1. /\ scoring[k].phase = "racing" => tick < scoring[k].since + RpcTimeout
        /\ scoring[k].seen # NoReading => tick < scoring[k].asked + LongestTrip
    BY DEF TickErc
  <2>2. scoring[k].since \in Nat /\ scoring[k].asked \in Nat
    BY DEF ErcInv, ErcTypes, ScoringTypes
  <2> QED  BY <1>1, <1>2, <2>1, <2>2, ErcAssumption
<1>11. PartsCached' /\ ScoresCached' /\ CallsTimely'
  <2>1. tick <= tick' /\ UNCHANGED scoring
    BY <1>1, <1>2
  <2> QED  BY <1>2, <1>8, <1>9, <1>10, <2>1, HistoryGrows
<1>12. ErcTypes'
  <2>1. DOMAIN partCache' = CachedSources /\ DOMAIN scoreCache' = AskKinds /\ DOMAIN lastHeld' = Sources
    BY <1>1
  <2> QED  BY <1>1, <1>2, <1>4, <2>1 DEF ErcInv, ErcTypes
<1> QED  BY <1>7, <1>11, <1>12 DEF ErcInv

LEMMA ErcStepKeeps ==
  ASSUME ErcInv, [ErcNext]_ercVars
  PROVE  ErcInv'
<1>1. ASSUME NEW k \in Scorings,
             \/ \E ask \in AskKinds, skip \in BOOLEAN : Compute(k, ask, skip)
             \/ ReadCached(k) \/ AskChain(k) \/ HearChain(k)
      PROVE  ErcInv'
  BY <1>1, ComputeKeeps, ReadCachedKeeps, AskChainKeeps, HearChainKeeps
<1>2. ASSUME NEW k \in Scorings, FinishScore(k) \/ RpcTimesOut(k) \/ RpcFails(k) \/ LateEnds(k)
      PROVE  ErcInv'
  BY <1>2, FinishScoreKeeps, RpcTimesOutKeeps, RpcFailsKeeps
<1>3. CASE UNCHANGED ercVars
  BY <1>3 DEF ercVars, ErcInv, ErcTypes, HeldNow, PartsCached, ScoresCached, CallsTimely, CallTimely, AllHeldSince, HeldSince
<1> QED  BY <1>1, <1>2, <1>3, ShiftKeeps, TickErcKeeps DEF ErcNext

-----------------------------------------------------------------------------
(* Points, and the average over chains.                                    *)
LEMMA PointsAreNat ==
  ASSUME NEW s, NEW r \in Nat
  PROVE  Points(s, r) \in Nat
<1>1. OwnerPoints(r) \in Nat
  BY DEF OwnerPoints
<1>2. ReputationPoints(r) \in Nat
  <2> DEFINE m == IF r >= 50 THEN 5 ELSE r \div 10
  <2>1. r % 10 \in 0 .. 9 /\ m \in 0 .. 5
    OBVIOUS
  <2>2. 25 * (r % 10) * m \in Nat
    <3> HIDE DEF m
    <3>1. \A x \in 0 .. 9, y \in 0 .. 5 : 25 * x * y \in Nat
      OBVIOUS
    <3> QED  BY <2>1, <3>1
  <2>3. \A n \in Nat : Rounded(n, 50) \in Nat
    BY DEF Rounded
  <2> QED  BY <2>2, <2>3 DEF ReputationPoints
<1>3. CardPoints(r) \in Nat
  <2>1. \A n \in Nat : Rounded(n, 4) \in Nat
    BY DEF Rounded
  <2>2. 15 * (r \div 10) \in Nat /\ 10 * (r % 10) \in Nat
    OBVIOUS
  <2> QED  BY <2>1, <2>2 DEF CardPoints
<1> QED  BY <1>1, <1>2, <1>3 DEF Points

LEMMA SourcesFinite == IsFiniteSet(Sources)
<1> DEFINE A == {"balance"}
           B == A \cup {"index"}
           C == B \cup {"owner"}
           D == C \cup {"wallet"}
           E == D \cup {"reputation"}
           F == E \cup {"uri"}
           G == F \cup {"card"}
<1>1. IsFiniteSet(A)
  BY FS_Singleton
<1>2. Sources = G
  BY DEF Sources
<1> HIDE DEF A
<1>3. IsFiniteSet(B)
  BY <1>1, FS_AddElement
<1> HIDE DEF B
<1>4. IsFiniteSet(C)
  BY <1>3, FS_AddElement
<1> HIDE DEF C
<1>5. IsFiniteSet(D)
  BY <1>4, FS_AddElement
<1> HIDE DEF D
<1>6. IsFiniteSet(E)
  BY <1>5, FS_AddElement
<1> HIDE DEF E
<1>7. IsFiniteSet(F)
  BY <1>6, FS_AddElement
<1> HIDE DEF F
<1>8. IsFiniteSet(G)
  BY <1>7, FS_AddElement
<1> QED  BY <1>2, <1>8

LEMMA ScoreIsNat ==
  ASSUME NEW parts \in Parts
  PROVE  ScoreOf(parts) \in Nat
<1>1. PICK D \in SUBSET Sources : parts \in [D -> Nat]
  BY DEF Parts
<1> DEFINE f == [s \in DOMAIN parts |-> Points(s, parts[s])]
<1>2. DOMAIN f = D /\ \A s \in D : f[s] \in Nat
  BY <1>1, PointsAreNat
<1>3. IsFiniteSet(D)
  BY SourcesFinite, FS_Subset
<1> HIDE DEF f
<1>4. SumFunctionOnSet(f, DOMAIN f) \in Nat
  BY <1>2, <1>3, SumIsNat
<1> QED  BY <1>4 DEF ScoreOf, SumFunction, f

(* A better score never has a worse tier.                                  *)
LEMMA TiersGrow ==
  ASSUME NEW m \in Int, NEW n \in Int, m <= n
  PROVE  ScoreTier(m) <= ScoreTier(n)
<1> DEFINE A == {i \in DOMAIN Ranks : m >= Ranks[i]}
           B == {i \in DOMAIN Ranks : n >= Ranks[i]}
<1>1. DOMAIN Ranks = 1 .. 4 /\ \A i \in DOMAIN Ranks : Ranks[i] \in Int
  BY DEF Ranks
<1>2. IsFiniteSet(1 .. 4)
  <2>1. 1 \in Int /\ 4 \in Int
    OBVIOUS
  <2> QED  BY <2>1, FS_Interval
<1>3. IsFiniteSet(B)
  BY <1>1, <1>2, FS_Subset
<1>4. A \in SUBSET B
  BY <1>1
<1> HIDE DEF A, B
<1>5. Cardinality(A) <= Cardinality(B)
  BY <1>3, <1>4, FS_Subset
<1> QED  BY <1>5 DEF ScoreTier, A, B

(* Rounding n / d: no more than any integer no smaller than n / d.         *)
LEMMA RoundedBelow ==
  ASSUME NEW n \in Nat, NEW d \in (1 .. 10) \cup {100}, NEW m \in Nat, n <= m * d
  PROVE  Rounded(n, d) \in Nat /\ Rounded(n, d) <= m
<1>1. CASE d = 100
  BY <1>1 DEF Rounded
<1>2. CASE d = 1 \/ d = 2 \/ d = 3
  BY <1>2 DEF Rounded
<1>3. CASE d = 4 \/ d = 5 \/ d = 6
  BY <1>3 DEF Rounded
<1>4. CASE d = 7 \/ d = 8
  BY <1>4 DEF Rounded
<1>5. CASE d = 9 \/ d = 10
  BY <1>5 DEF Rounded
<1> QED  BY <1>1, <1>2, <1>3, <1>4, <1>5

(* What each chain adds to the average is at most its weight of the score. *)
LEMMA ChainsAddLess ==
  ASSUME NEW score \in Nat, NEW c \in DOMAIN ChainFactors
  PROVE  /\ ChainFactors[c][2] \in 1 .. 4
         /\ Rounded(score * ChainFactors[c][1], 100) * ChainFactors[c][2] \in Nat
         /\ Rounded(score * ChainFactors[c][1], 100) * ChainFactors[c][2] <= score * ChainFactors[c][2]
<1> DEFINE f == ChainFactors[c][1]
           w == ChainFactors[c][2]
           m == Rounded(score * f, 100)
<1>1. f \in 0 .. 100 /\ w \in 1 .. 4
  BY DEF ChainFactors
<1> HIDE DEF f, w
<1>2. score * f \in Nat /\ score * f <= score * 100
  BY <1>1
<1>3. m \in Nat /\ m <= score
  <2>1. 100 \in (1 .. 10) \cup {100}
    OBVIOUS
  <2> QED  BY <1>2, <2>1, RoundedBelow
<1> HIDE DEF m
<1>4. m * w \in Nat /\ m * w <= score * w
  BY <1>1, <1>3
<1> QED  BY <1>1, <1>4 DEF f, w, m

(* The sums over some chains, and over one more.                           *)
SumsFit(weights, weighted, score, S, n) ==
  /\ IsFiniteSet(S) /\ SumFunctionOnSet(weights, S) \in 0 .. n /\ SumFunctionOnSet(weighted, S) \in Nat
  /\ SumFunctionOnSet(weighted, S) <= score * SumFunctionOnSet(weights, S)

LEMMA OneMoreChain ==
  ASSUME NEW weights, NEW weighted, NEW score \in Nat, NEW S, NEW n \in Nat, NEW c, NEW w \in Nat, c \notin S,
         SumsFit(weights, weighted, score, S, n),
         \A x \in S \cup {c} : weights[x] \in Nat /\ weighted[x] \in Nat,
         weights[c] = w, weighted[c] <= score * w
  PROVE  SumsFit(weights, weighted, score, S \cup {c}, n + w)
<1> DEFINE a == SumFunctionOnSet(weights, S)
           b == SumFunctionOnSet(weighted, S)
           v == weighted[c]
<1>1. IsFiniteSet(S) /\ a \in 0 .. n /\ b \in Nat /\ b <= score * a /\ v \in Nat /\ v <= score * w
  BY DEF SumsFit
<1>2. IsFiniteSet(S \cup {c})
  BY <1>1, FS_AddElement
<1>3. SumFunctionOnSet(weights, S \cup {c}) = w + a
  BY <1>1, SumPutsIn
<1>4. SumFunctionOnSet(weighted, S \cup {c}) = v + b
  BY <1>1, SumPutsIn
<1> HIDE DEF a, b, v
<1>5. w + a \in 0 .. n + w /\ v + b \in Nat
  BY <1>1
<1>6. score * (w + a) = score * w + score * a
  BY <1>1
<1>7. score * w \in Nat /\ score * a \in Nat
  BY <1>1
<1>8. v + b <= score * (w + a)
  BY <1>1, <1>6, <1>7
<1> QED  BY <1>2, <1>3, <1>4, <1>5, <1>8 DEF SumsFit

LEMMA AverageBelow ==
  ASSUME NEW score \in Nat, NEW chains \in (SUBSET DOMAIN ChainFactors) \ {{}}
  PROVE  Aggregated(score, chains) \in Nat /\ Aggregated(score, chains) <= score
<1> DEFINE weights == [c \in chains |-> ChainFactors[c][2]]
           weighted == [c \in chains |-> Rounded(score * ChainFactors[c][1], 100) * ChainFactors[c][2]]
           Fit(S, n) == SumsFit(weights, weighted, score, S, n)
           A == chains \cap {"base"}
           B == A \cup (chains \cap {"ethereum"})
           C == B \cup (chains \cap {"polygon"})
           D == C \cup (chains \cap {"arbitrum"})
<1>1. /\ DOMAIN ChainFactors = {"base", "ethereum", "polygon", "arbitrum"}
      /\ ChainFactors["base"][2] = 4 /\ ChainFactors["ethereum"][2] = 3
      /\ ChainFactors["polygon"][2] = 2 /\ ChainFactors["arbitrum"][2] = 1
  BY DEF ChainFactors
<1>2. D = chains /\ chains # {}
  BY <1>1
<1>3. DOMAIN weights = chains /\ DOMAIN weighted = chains
  OBVIOUS
<1>4. \A c \in chains : /\ weights[c] \in 1 .. 4 /\ weights[c] = ChainFactors[c][2]
                        /\ weighted[c] \in Nat /\ weighted[c] <= score * weights[c]
  BY ChainsAddLess
<1>5. Aggregated(score, chains) = Rounded(SumFunctionOnSet(weighted, chains), SumFunctionOnSet(weights, chains))
  BY <1>3 DEF Aggregated, SumFunction
<1> HIDE DEF weights, weighted
<1>6. ASSUME NEW S \in SUBSET chains, NEW n \in Nat, Fit(S, n), NEW c, c \notin S, NEW w \in Nat,
             c \in chains => weights[c] = w
      PROVE  Fit(S \cup (chains \cap {c}), n + w)
  <2>1. CASE c \notin chains
    <3>1. S \cup (chains \cap {c}) = S /\ 0 .. n \subseteq 0 .. n + w
      BY <2>1
    <3> QED  BY <1>6, <3>1 DEF SumsFit
  <2>2. CASE c \in chains
    <3>1. S \cup (chains \cap {c}) = S \cup {c} /\ S \cup {c} \subseteq chains
      BY <2>2
    <3>2. \A x \in S \cup {c} : weights[x] \in Nat /\ weighted[x] \in Nat
      BY <1>4, <3>1
    <3>3. weights[c] = w /\ weighted[c] <= score * w
      BY <1>4, <1>6, <2>2
    <3>4. SumsFit(weights, weighted, score, S \cup {c}, n + w)
      BY <1>6, <3>2, <3>3, OneMoreChain
    <3> QED  BY <3>1, <3>4
  <2> QED  BY <2>1, <2>2
<1>7. Fit({}, 0)
  <2>1. SumFunctionOnSet(weights, {}) = 0 /\ SumFunctionOnSet(weighted, {}) = 0
    BY SumEmpty
  <2>2. score * 0 = 0 /\ IsFiniteSet({})
    BY FS_EmptySet
  <2> QED  BY <2>1, <2>2 DEF SumsFit
<1> HIDE DEF Fit
<1>8. Fit(A, 4)
  <2>1. {} \cup A = A /\ 0 + 4 = 4
    OBVIOUS
  <2>2. Fit({} \cup A, 0 + 4)
    BY <1>1, <1>4, <1>6, <1>7
  <2> QED  BY <2>1, <2>2
<1>9. Fit(B, 7)
  <2>1. "ethereum" \notin A /\ A \subseteq chains /\ 4 + 3 = 7
    OBVIOUS
  <2>2. Fit(B, 4 + 3)
    BY <1>1, <1>4, <1>6, <1>8, <2>1
  <2> QED  BY <2>1, <2>2
<1>10. Fit(C, 9)
  <2>1. "polygon" \notin B /\ B \subseteq chains /\ 7 + 2 = 9
    OBVIOUS
  <2>2. Fit(C, 7 + 2)
    BY <1>1, <1>4, <1>6, <1>9, <2>1
  <2> QED  BY <2>1, <2>2
<1>11. Fit(D, 10)
  <2>1. "arbitrum" \notin C /\ C \subseteq chains /\ 9 + 1 = 10
    OBVIOUS
  <2>2. Fit(D, 9 + 1)
    BY <1>1, <1>4, <1>6, <1>10, <2>1
  <2> QED  BY <2>1, <2>2
<1> HIDE DEF A, B, C, D
<1> DEFINE n == SumFunctionOnSet(weighted, chains)
           d == SumFunctionOnSet(weights, chains)
<1>12. IsFiniteSet(chains) /\ d \in 0 .. 10 /\ n \in Nat /\ n <= score * d
  BY <1>2, <1>11 DEF Fit, SumsFit
<1>13. d # 0
  <2>1. PICK c \in chains : TRUE
    BY <1>2
  <2>2. \A x \in chains : weights[x] \in Nat
    BY <1>4
  <2>3. d = weights[c] + SumFunctionOnSet(weights, chains \ {c})
    BY <1>12, <2>2, SumTakesOut
  <2>4. SumFunctionOnSet(weights, chains \ {c}) \in Nat
    <3>1. IsFiniteSet(chains \ {c}) /\ \A x \in chains \ {c} : weights[x] \in Nat
      BY <1>12, <2>2, FS_RemoveElement
    <3> QED  BY <3>1, SumIsNat
  <2>5. weights[c] \in 1 .. 4
    BY <1>4
  <2> HIDE DEF d
  <2> QED  BY <2>3, <2>4, <2>5
<1> HIDE DEF n, d
<1>14. d \in (1 .. 10) \cup {100} /\ n <= score * d
  BY <1>12, <1>13
<1>15. Rounded(n, d) \in Nat /\ Rounded(n, d) <= score
  BY <1>12, <1>14, RoundedBelow
<1> QED  BY <1>5, <1>15 DEF n, d

(* What callers are told is recent, and no average has a better tier.      *)
LEMMA ErcInvTells == ErcInv => ScoresAreRecent
<1> SUFFICES ASSUME ErcInv, NEW ask \in AskKinds, Unexpired(scoreCache[ask])
             PROVE  LET parts == scoreCache[ask].value
                        score == ScoreOf(parts)
                    IN  /\ \A s \in DOMAIN parts : parts[s] # 0 => tick - lastHeld[s][parts[s]] <= Window
                        /\ \A chains \in (SUBSET DOMAIN ChainFactors) \ {{}} :
                              ScoreTier(Aggregated(score, chains)) <= ScoreTier(score)
  BY DEF ScoresAreRecent
<1> DEFINE e == scoreCache[ask]
           parts == e.value
           score == ScoreOf(parts)
           t == e.until - ScoreTtl - RpcTimeout - LongestTrip - Spare
<1>1. ErcTypes /\ tick \in Nat /\ e # NotCached /\ tick < e.until
  BY DEF ErcInv, ErcTypes, Unexpired
<1>2. e.until \in Nat /\ e.until <= tick + ScoreTtl /\ AllHeldSince(parts, t)
  BY <1>1 DEF ErcInv, ScoresCached
<1>3. parts \in Parts
  BY <1>2 DEF AllHeldSince
<1>4. \A s \in DOMAIN parts : s \in Sources
  BY <1>3 DEF Parts
<1> HIDE DEF e, parts
<1>5. tick - t <= Window /\ t \in Int
  <2>1. ScoreTtl \in Nat /\ RpcTimeout \in Nat /\ LongestTrip \in Nat
    BY ErcAssumption
  <2>2. ScoreTtl # 0
    BY <1>1, <1>2, <2>1
  <2> QED  BY <1>1, <1>2, <2>1, <2>2 DEF Window, Spare
<1>6. ASSUME NEW s \in DOMAIN parts, parts[s] # 0
      PROVE  tick - lastHeld[s][parts[s]] <= Window
  <2>1. parts[s] \in Readings[s] /\ lastHeld[s][parts[s]] >= t
    BY <1>2, <1>6 DEF AllHeldSince, HeldSince
  <2>2. lastHeld[s] \in [Readings[s] -> Int]
    BY <1>1, <1>4 DEF ErcTypes
  <2>3. lastHeld[s][parts[s]] \in Int
    BY <2>1, <2>2
  <2>4. Window \in Int
    BY ErcAssumption DEF Window
  <2> HIDE DEF t
  <2> QED  BY <1>1, <1>5, <2>1, <2>3, <2>4
<1>7. ASSUME NEW chains \in (SUBSET DOMAIN ChainFactors) \ {{}}
      PROVE  ScoreTier(Aggregated(score, chains)) <= ScoreTier(score)
  <2>1. score \in Nat
    BY <1>3, ScoreIsNat
  <2> HIDE DEF score
  <2>2. Aggregated(score, chains) \in Int /\ Aggregated(score, chains) <= score /\ score \in Int
    BY <2>1, AverageBelow
  <2> DEFINE a == Aggregated(score, chains)
  <2> HIDE DEF a
  <2>3. a \in Int /\ a <= score /\ score \in Int
    BY <2>2 DEF a
  <2>4. ScoreTier(a) <= ScoreTier(score)
    BY <2>3, TiersGrow
  <2> QED  BY <2>4 DEF a
<1> QED  BY <1>6, <1>7 DEF e, parts

\* However calculations race their timeout, go on after losing it, skip the
\* cache, hear answers late or fail, and however the registries change: what
\* a cached score gives points for was in the registries within one trip,
\* one race and one life of each cache, and no average over chains claims a
\* better tier (trust-score.ts computeTrustScore, registry.ts, cache.ts,
\* multichain-trust.ts).
THEOREM ScoresStayRecent == ErcSpec => []ScoresAreRecent
<1>1. ErcInit => ErcInv
  BY ErcStarts
<1>2. ErcInv /\ [ErcNext]_ercVars => ErcInv'
  BY ErcStepKeeps
<1>3. ErcInv => ScoresAreRecent
  BY ErcInvTells
<1> QED  BY <1>1, <1>2, <1>3, PTL DEF ErcSpec

-----------------------------------------------------------------------------
(* Subscriptions.  A call that awaits the legacy file to register an id is *)
(* alone with that id, and who was ever deactivated stays so.              *)
HookStates == {"none", "on", "off"}
HookTypes ==
  /\ hooks \in [HookIds -> HookStates] /\ waiting \in [Clerks -> HookCalls \cup {Nobody}]
  /\ trustHooks \in [Urls -> HookStates] /\ ended \subseteq HookIds
Registering(k) == waiting[k] # Nobody /\ waiting[k].do = "register"
Imported == \A i \in DOMAIN LegacyHooks :
              LET h == LegacyHooks[i].id
              IN  hooks[h] = "on" \/ (hooks[h] = "off" /\ (h \in ended \/ ~LegacyHooks[i].active))
HooksInv ==
  /\ HookTypes
  /\ \A h \in ended : hooks[h] = "off"
  /\ ~NoHooks /\ ~interrupted => Imported
  /\ \A k \in Clerks : Registering(k) =>
       hooks[waiting[k].id] = "none" /\ \A j \in Clerks \ {k} : waiting[j] # waiting[k]
  /\ \A u \in Urls : trustHooks[u] = "off" => u \in dropped
  /\ \A u \in promised : u \in Urls /\ trustHooks[u] # "none"

LEMMA LegacyListed ==
  /\ Len(LegacyHooks) \in Nat /\ DOMAIN LegacyHooks = 1 .. Len(LegacyHooks)
  /\ \A i \in DOMAIN LegacyHooks : LegacyHooks[i].id \in HookIds /\ LegacyHooks[i].active \in BOOLEAN
                                   /\ LegacyHooks[i] = [id |-> LegacyHooks[i].id, active |-> LegacyHooks[i].active]
<1> DEFINE R == [id : HookIds, active : BOOLEAN]
<1>1. LegacyHooks \in Seq(R)
  BY RegistryAssumption
<1>4. \A r \in R : r.id \in HookIds /\ r.active \in BOOLEAN /\ r = [id |-> r.id, active |-> r.active]
  OBVIOUS
<1> HIDE DEF R
<1>2. Len(LegacyHooks) \in Nat /\ DOMAIN LegacyHooks = 1 .. Len(LegacyHooks)
  BY <1>1
<1>3. \A i \in DOMAIN LegacyHooks : LegacyHooks[i] \in R
  BY <1>1, <1>2
<1> QED  BY <1>2, <1>3, <1>4

LEMMA CallsListed ==
  /\ \A call \in HookCalls : \/ call.do = "register" /\ call.id \in HookIds \ LegacyIds
                                /\ call = HookCall("register", call.id)
                             \/ call.do = "deactivate" /\ call.id \in HookIds
                             \/ call.do = "list"
  /\ Nobody \notin HookCalls
BY RegistryAssumption DEF HookCalls, HookCall

(* The rows an import goes through were not there.                         *)
LEMMA MigrationFills ==
  ASSUME NEW rows \in [HookIds -> HookStates], NEW n \in 0 .. Len(LegacyHooks)
  PROVE  /\ MigratedRows(rows, n) \in [HookIds -> HookStates]
         /\ \A h \in HookIds : \/ MigratedRows(rows, n)[h] = rows[h]
                               \/ h \in LegacyIds /\ rows[h] = "none"
<1> DEFINE I == Inserted(rows, n)
           new == MigratedRows(rows, n)
<1>1. I \subseteq DOMAIN LegacyHooks /\ \A i \in I : rows[LegacyHooks[i].id] = "none" /\ LegacyHooks[i].id \in LegacyIds
  BY LegacyListed DEF Inserted, LegacyIds
<1>2. new = [h \in HookIds |-> IF \E i \in I : LegacyHooks[i].id = h
                               THEN IF \E i \in I : LegacyHooks[i] = [id |-> h, active |-> TRUE] THEN "on" ELSE "off"
                               ELSE rows[h]]
  BY DEF MigratedRows
<1> HIDE DEF I, new
<1>3. new \in [HookIds -> HookStates]
  BY <1>2 DEF HookStates
<1>4. \A h \in HookIds : new[h] = rows[h] \/ (h \in LegacyIds /\ rows[h] = "none")
  BY <1>1, <1>2
<1> QED  BY <1>3, <1>4 DEF new

(* From an empty table the whole file goes in, each row as it was.         *)
LEMMA WholeImport ==
  ASSUME NEW rows \in [HookIds -> HookStates], \A h \in HookIds : rows[h] = "none", NEW i \in DOMAIN LegacyHooks
  PROVE  LET new == MigratedRows(rows, Len(LegacyHooks))
         IN  new[LegacyHooks[i].id] = IF LegacyHooks[i].active THEN "on" ELSE "off"
<1> DEFINE n == Len(LegacyHooks)
           h == LegacyHooks[i].id
           I == Inserted(rows, n)
<1>1. I = DOMAIN LegacyHooks
  BY LegacyListed DEF Inserted
<1>2. h \in HookIds /\ \E j \in I : LegacyHooks[j].id = h
  BY <1>1, LegacyListed
<1>3. (\E j \in I : LegacyHooks[j] = [id |-> h, active |-> TRUE]) <=> LegacyHooks[i].active
  <2>1. ASSUME NEW j \in I, LegacyHooks[j] = [id |-> h, active |-> TRUE] PROVE LegacyHooks[i].active
    <3>1. LegacyHooks[j].id = LegacyHooks[i].id /\ LegacyHooks[j].active = TRUE
      BY <2>1
    <3>2. i = j
      BY <1>1, <3>1, RegistryAssumption
    <3> QED  BY <3>1, <3>2
  <2>2. ASSUME LegacyHooks[i].active PROVE LegacyHooks[i] = [id |-> h, active |-> TRUE]
    BY <2>2, LegacyListed
  <2> QED  BY <1>1, <2>1, <2>2
<1>4. MigratedRows(rows, n)[h] = IF \E j \in I : LegacyHooks[j] = [id |-> h, active |-> TRUE] THEN "on" ELSE "off"
  BY <1>2 DEF MigratedRows
<1> QED  BY <1>3, <1>4

(* From a table that holds the file nothing goes in.                       *)
LEMMA NothingImported ==
  ASSUME NEW rows \in [HookIds -> HookStates], \A i \in DOMAIN LegacyHooks : rows[LegacyHooks[i].id] # "none"
  PROVE  MigratedRows(rows, Len(LegacyHooks)) = rows
<1>1. Inserted(rows, Len(LegacyHooks)) = {}
  BY LegacyListed DEF Inserted
<1> QED  BY <1>1 DEF MigratedRows

(* A call of clerk k on the rows its import left.                          *)
LEMMA PerformKeeps ==
  ASSUME HooksInv, NEW k \in Clerks, NEW call \in HookCalls, NEW rows \in [HookIds -> HookStates],
         Perform(rows, call), waiting[k] = Nobody \/ waiting[k] = call,
         waiting' \in [Clerks -> HookCalls \cup {Nobody}], waiting'[k] = Nobody,
         \A j \in Clerks \ {k} : waiting'[j] = waiting[j],
         call.do = "register" => rows[call.id] = "none" /\ \A j \in Clerks \ {k} : waiting[j] # call,
         \A h \in HookIds : rows[h] = hooks[h] \/ (h \in LegacyIds /\ hooks[h] = "none"),
         interrupted \/ NoHooks' \/ \A i \in DOMAIN LegacyHooks :
            rows[LegacyHooks[i].id] = "on" \/ (rows[LegacyHooks[i].id] = "off" /\ (LegacyHooks[i].id \in ended \/ ~LegacyHooks[i].active)),
         UNCHANGED <<interrupted, trustHooks, promised, dropped>>
  PROVE  HooksInv'
<1>1. /\ hooks' = Performed(rows, call)
      /\ ended' = IF call.do = "deactivate" /\ rows[call.id] # "none" THEN ended \cup {call.id} ELSE ended
  BY DEF Perform
<1>2. /\ HookTypes /\ (\A h \in ended : hooks[h] = "off")
      /\ \A j \in Clerks : Registering(j) =>
           hooks[waiting[j].id] = "none" /\ \A m \in Clerks \ {j} : waiting[m] # waiting[j]
  BY DEF HooksInv
<1>3. /\ hooks' \in [HookIds -> HookStates] /\ ended \subseteq ended' /\ ended' \subseteq HookIds
      /\ \A h \in HookIds :
           \/ hooks'[h] = rows[h]
           \/ h = call.id /\ call.do = "register" /\ h \notin LegacyIds /\ call = HookCall("register", h) /\ hooks'[h] = "on"
           \/ h = call.id /\ rows[h] # "none" /\ hooks'[h] = "off" /\ h \in ended'
      /\ \A h \in ended' \ ended : hooks'[h] = "off"
  <2>1. CASE call.do = "register"
    <3>1. hooks' = [rows EXCEPT ![call.id] = "on"] /\ ended' = ended
      BY <1>1, <2>1 DEF Performed
    <3>2. call.id \in HookIds \ LegacyIds /\ call = HookCall("register", call.id)
      BY <2>1, CallsListed
    <3> QED  BY <1>2, <2>1, <3>1, <3>2 DEF HookTypes, HookStates
  <2>2. CASE call.do = "deactivate" /\ rows[call.id] # "none"
    <3>1. hooks' = [rows EXCEPT ![call.id] = "off"] /\ ended' = ended \cup {call.id}
      BY <1>1, <2>2 DEF Performed
    <3>2. call.id \in HookIds
      BY <2>2, CallsListed
    <3> QED  BY <1>2, <2>2, <3>1, <3>2 DEF HookTypes, HookStates
  <2>3. CASE call.do # "register" /\ ~(call.do = "deactivate" /\ rows[call.id] # "none")
    <3>1. hooks' = rows /\ ended' = ended
      BY <1>1, <2>3 DEF Performed
    <3> QED  BY <1>2, <3>1 DEF HookTypes
  <2> QED  BY <2>1, <2>2, <2>3
<1>4. HookTypes'
  BY <1>2, <1>3 DEF HookTypes
<1>5. ASSUME NEW h \in ended' PROVE hooks'[h] = "off"
  <2>1. CASE h \in ended
    <3>1. h \in HookIds /\ hooks[h] = "off"
      BY <1>2, <2>1 DEF HookTypes
    <3>2. rows[h] = "off"
      BY <3>1
    <3> QED  BY <1>3, <3>1, <3>2
  <2> QED  BY <1>3, <2>1
<1>6. ~NoHooks' /\ ~interrupted' => Imported'
  <2> SUFFICES ASSUME ~NoHooks', ~interrupted, NEW i \in DOMAIN LegacyHooks
               PROVE  LET h == LegacyHooks[i].id
                      IN  hooks'[h] = "on" \/ (hooks'[h] = "off" /\ (h \in ended' \/ ~LegacyHooks[i].active))
    BY DEF Imported
  <2> DEFINE h == LegacyHooks[i].id
  <2>1. h \in HookIds /\ h \in LegacyIds
    BY LegacyListed DEF LegacyIds
  <2>2. rows[h] = "on" \/ (rows[h] = "off" /\ (h \in ended \/ ~LegacyHooks[i].active))
    OBVIOUS
  <2> HIDE DEF h
  <2>3. hooks'[h] = rows[h] \/ (hooks'[h] = "off" /\ h \in ended')
    BY <1>3, <2>1
  <2> QED  BY <1>3, <2>2, <2>3 DEF h
<1>7. ASSUME NEW j \in Clerks, Registering(j)'
      PROVE  hooks'[waiting'[j].id] = "none" /\ \A m \in Clerks \ {j} : waiting'[m] # waiting'[j]
  <2>1. j # k /\ waiting'[j] = waiting[j] /\ Registering(j)
    BY <1>7 DEF Registering
  <2> DEFINE w == waiting[j]
  <2>2. w \in HookCalls /\ w.do = "register"
    BY <1>2, <2>1 DEF HookTypes, Registering
  <2>3. w.id \in HookIds \ LegacyIds /\ w = HookCall("register", w.id)
    BY <2>2, CallsListed
  <2>4. hooks[w.id] = "none" /\ \A m \in Clerks \ {j} : waiting[m] # w
    BY <1>2, <2>1
  <2>5. rows[w.id] = "none"
    BY <2>3, <2>4
  <2>6. w # call
    BY <2>1, <2>2, <2>4, CallsListed
  <2>7. w # Nobody
    BY <2>2, CallsListed
  <2> HIDE DEF w
  <2>8. hooks'[w.id] = "none"
    BY <1>3, <2>3, <2>5, <2>6
  <2>9. \A m \in Clerks \ {j} : waiting'[m] # w
    BY <2>4, <2>7
  <2> QED  BY <2>1, <2>8, <2>9 DEF w
<1>8. (\A u \in Urls : trustHooks[u] = "off" => u \in dropped)' /\ (\A u \in promised : u \in Urls /\ trustHooks[u] # "none")'
  BY DEF HooksInv
<1> QED  BY <1>4, <1>5, <1>6, <1>7, <1>8 DEF HooksInv

LEMMA AskHooksKeeps ==
  ASSUME HooksInv, NEW k \in Clerks, NEW call \in HookCalls, AskHooks(k, call)
  PROVE  HooksInv'
<1>1. /\ waiting[k] = Nobody /\ UNCHANGED <<interrupted, trustHooks, promised, dropped>>
      /\ call.do = "register" => hooks[call.id] = "none" /\ \A j \in Clerks : waiting[j] # call
  BY DEF AskHooks
<1>2. HookTypes /\ call # Nobody
  BY CallsListed DEF HooksInv
<1>3. CASE NoHooks
  <2>1. waiting' = [waiting EXCEPT ![k] = call] /\ UNCHANGED <<hooks, ended>>
    BY <1>3 DEF AskHooks
  <2>2. HookTypes'
    BY <1>1, <1>2, <2>1 DEF HookTypes
  <2>3. /\ waiting'[k] = call /\ \A j \in Clerks \ {k} : waiting'[j] = waiting[j]
    BY <1>2, <2>1 DEF HookTypes
  <2>4. ASSUME NEW j \in Clerks, Registering(j)'
        PROVE  hooks'[waiting'[j].id] = "none" /\ \A m \in Clerks \ {j} : waiting'[m] # waiting'[j]
    <3>1. CASE j = k
      BY <1>1, <2>1, <2>3, <2>4, <3>1 DEF Registering
    <3>2. CASE j # k
      <4>1. waiting'[j] = waiting[j] /\ Registering(j)
        BY <2>3, <2>4, <3>2 DEF Registering
      <4>2. hooks[waiting[j].id] = "none" /\ \A m \in Clerks \ {j} : waiting[m] # waiting[j]
        BY <4>1 DEF HooksInv
      <4>3. waiting[j] # call
        BY <1>1, <4>1 DEF Registering
      <4> QED  BY <2>1, <2>3, <4>1, <4>2, <4>3
    <3> QED  BY <3>1, <3>2
  <2>5. NoHooks'
    BY <1>3, <2>1 DEF NoHooks
  <2> QED  BY <1>1, <2>1, <2>2, <2>4, <2>5 DEF HooksInv
<1>4. CASE ~NoHooks
  <2>1. Perform(hooks, call) /\ UNCHANGED waiting
    BY <1>4 DEF AskHooks
  <2>2. hooks \in [HookIds -> HookStates] /\ waiting' \in [Clerks -> HookCalls \cup {Nobody}]
    BY <1>2, <2>1 DEF HookTypes
  <2>3. interrupted \/ Imported
    BY <1>4 DEF HooksInv
  <2>4. interrupted \/ NoHooks' \/ \A i \in DOMAIN LegacyHooks :
          hooks[LegacyHooks[i].id] = "on" \/ (hooks[LegacyHooks[i].id] = "off" /\ (LegacyHooks[i].id \in ended \/ ~LegacyHooks[i].active))
    BY <2>3 DEF Imported
  <2> QED  BY <1>1, <2>1, <2>2, <2>4, PerformKeeps
<1> QED  BY <1>3, <1>4

LEMMA HearLegacyKeeps ==
  ASSUME HooksInv, NEW k \in Clerks, HearLegacy(k)
  PROVE  HooksInv'
<1> DEFINE rows == MigratedRows(hooks, Len(LegacyHooks))
           call == waiting[k]
<1>1. /\ call # Nobody /\ Perform(rows, call) /\ waiting' = [waiting EXCEPT ![k] = Nobody]
      /\ UNCHANGED <<interrupted, trustHooks, promised, dropped>>
  BY DEF HearLegacy
<1>2. hooks \in [HookIds -> HookStates] /\ waiting \in [Clerks -> HookCalls \cup {Nobody}] /\ call \in HookCalls
  BY <1>1 DEF HooksInv, HookTypes
<1>3. Len(LegacyHooks) \in 0 .. Len(LegacyHooks)
  BY LegacyListed
<1>4. rows \in [HookIds -> HookStates] /\ \A h \in HookIds : rows[h] = hooks[h] \/ (h \in LegacyIds /\ hooks[h] = "none")
  BY <1>2, <1>3, MigrationFills
<1>5. interrupted \/ \A i \in DOMAIN LegacyHooks :
        rows[LegacyHooks[i].id] = "on" \/ (rows[LegacyHooks[i].id] = "off" /\ (LegacyHooks[i].id \in ended \/ ~LegacyHooks[i].active))
  <2>1. CASE NoHooks
    <3>1. \A h \in HookIds : hooks[h] = "none"
      BY <2>1 DEF NoHooks
    <3>2. \A i \in DOMAIN LegacyHooks : rows[LegacyHooks[i].id] = IF LegacyHooks[i].active THEN "on" ELSE "off"
      BY <1>2, <3>1, WholeImport
    <3> QED  BY <3>2
  <2>2. CASE ~NoHooks /\ ~interrupted
    <3>1. Imported
      BY <2>2 DEF HooksInv
    <3>2. rows = hooks
      BY <1>2, <3>1, NothingImported DEF Imported
    <3> QED  BY <3>1, <3>2 DEF Imported
  <2> QED  BY <2>1, <2>2
<1>6. call.do = "register" => rows[call.id] = "none" /\ \A j \in Clerks \ {k} : waiting[j] # call
  <2> SUFFICES ASSUME call.do = "register" PROVE rows[call.id] = "none" /\ \A j \in Clerks \ {k} : waiting[j] # call
    OBVIOUS
  <2>1. hooks[call.id] = "none" /\ \A j \in Clerks \ {k} : waiting[j] # call
    BY <1>1 DEF HooksInv, Registering
  <2>2. call.id \in HookIds \ LegacyIds
    BY <1>2, CallsListed
  <2> HIDE DEF rows, call
  <2> QED  BY <1>4, <2>1, <2>2
<1>7. /\ waiting' \in [Clerks -> HookCalls \cup {Nobody}] /\ waiting'[k] = Nobody
      /\ \A j \in Clerks \ {k} : waiting'[j] = waiting[j]
  BY <1>1, <1>2
<1>8. waiting[k] = Nobody \/ waiting[k] = call
  OBVIOUS
<1> HIDE DEF rows, call
<1> QED  BY <1>1, <1>2, <1>4, <1>5, <1>6, <1>7, <1>8, PerformKeeps

LEMMA MigrationCutKeeps ==
  ASSUME HooksInv, NEW k \in Clerks, MigrationCut(k)
  PROVE  HooksInv'
<1>1. /\ interrupted' /\ waiting' = [j \in Clerks |-> Nobody] /\ UNCHANGED <<ended, trustHooks, promised, dropped>>
      /\ \E n \in 0 .. Len(LegacyHooks) :
           \/ hooks' = MigratedRows(hooks, n)
           \/ n \in Inserted(hooks, n) /\ hooks' = [MigratedRows(hooks, n) EXCEPT ![LegacyHooks[n].id] = "on"]
  BY DEF MigrationCut
<1>2. PICK n \in 0 .. Len(LegacyHooks) :
           \/ hooks' = MigratedRows(hooks, n)
           \/ n \in Inserted(hooks, n) /\ hooks' = [MigratedRows(hooks, n) EXCEPT ![LegacyHooks[n].id] = "on"]
  BY <1>1
<1> DEFINE new == MigratedRows(hooks, n)
<1>3. hooks \in [HookIds -> HookStates] /\ ended \subseteq HookIds /\ \A h \in ended : hooks[h] = "off"
  BY DEF HooksInv, HookTypes
<1>4. new \in [HookIds -> HookStates] /\ \A h \in HookIds : new[h] = hooks[h] \/ hooks[h] = "none"
  BY <1>3, MigrationFills
<1>5. n \in Inserted(hooks, n) => hooks[LegacyHooks[n].id] = "none"
  BY DEF Inserted
<1> HIDE DEF new
<1>6. hooks' \in [HookIds -> HookStates] /\ \A h \in HookIds : hooks'[h] = hooks[h] \/ hooks[h] = "none"
  BY <1>2, <1>4, <1>5 DEF new, HookStates
<1>7. \A h \in ended : hooks'[h] = "off"
  BY <1>3, <1>6
<1>8. \A j \in Clerks : ~Registering(j)'
  BY <1>1 DEF Registering
<1>9. HookTypes'
  BY <1>1, <1>6 DEF HooksInv, HookTypes
<1> QED  BY <1>1, <1>7, <1>8, <1>9 DEF HooksInv

LEMMA TrustHookKeeps ==
  ASSUME HooksInv, NEW u \in Urls, RegisterTrust(u) \/ DeactivateTrust(u)
  PROVE  HooksInv'
<1>1. UNCHANGED <<hooks, waiting, ended, interrupted>>
  BY DEF RegisterTrust, DeactivateTrust
<1>2. trustHooks \in [Urls -> HookStates]
  BY DEF HooksInv, HookTypes
<1>3. /\ trustHooks' \in [Urls -> HookStates]
      /\ (\A v \in Urls : trustHooks[v] = "off" => v \in dropped)'
      /\ (\A v \in promised : v \in Urls /\ trustHooks[v] # "none")'
  <2>1. CASE RegisterTrust(u)
    BY <1>2, <2>1 DEF HooksInv, RegisterTrust, HookStates
  <2>2. CASE DeactivateTrust(u)
    BY <1>2, <2>2 DEF HooksInv, DeactivateTrust, HookStates
  <2> QED  BY <2>1, <2>2
<1>4. HookTypes'
  BY <1>1, <1>3 DEF HooksInv, HookTypes
<1>5. NoHooks' = NoHooks /\ Imported' = Imported
  BY <1>1 DEF NoHooks, Imported
<1>6. \A j \in Clerks : Registering(j)' = Registering(j)
  BY <1>1 DEF Registering
<1> QED  BY <1>1, <1>3, <1>4, <1>5, <1>6 DEF HooksInv

LEMMA HooksStand ==
  ASSUME HooksInv, UNCHANGED hookVars
  PROVE  HooksInv'
BY DEF HooksInv, hookVars, HookTypes, NoHooks, Imported, Registering

LEMMA HooksStart == RegistryInit => HooksInv
BY DEF RegistryInit, HooksInv, HookTypes, NoHooks, Registering, HookStates

LEMMA HooksInvTells == HooksInv => HooksKept
<1> SUFFICES ASSUME HooksInv PROVE HooksKept
  OBVIOUS
<1>1. ended \cap Receivers = {}
  BY DEF HooksInv, Receivers
<1>2. \A i \in DOMAIN LegacyHooks : LegacyHooks[i].id \in HookIds
  BY LegacyListed
<1>3. ~NoHooks /\ ~interrupted =>
        \A i \in DOMAIN LegacyHooks :
           LET h == LegacyHooks[i].id
           IN  h \in Receivers \/ (hooks[h] = "off" /\ (h \in ended \/ ~LegacyHooks[i].active))
  BY <1>2 DEF HooksInv, Imported, Receivers
<1>4. \A u \in promised \ dropped : trustHooks[u] = "on"
  BY DEF HooksInv, HookTypes, HookStates
<1> QED  BY <1>1, <1>3, <1>4 DEF HooksKept

-----------------------------------------------------------------------------
(* Books.  Whatever overlaps, no file and no copy of one tells of more     *)
(* than was written; one job at a time, and no file torn by a crash, each  *)
(* tells exactly that, or is being written by the one clerk on duty.       *)
CountTables == UNION {[D -> Nat] : D \in SUBSET CountKeys}
Contents(b) == IF b = "attestations" THEN Seq(Whos) ELSE CountTables
Marks == {<<e.who, e.do, e.blocked>> : e \in Filed}
Solitary == {"create", "issue"}

BookTypes ==
  /\ book \in [Books -> CountTables \cup Seq(Whos) \cup {HalfWritten}]
  /\ \A b \in Books : book[b] \in Contents(b) \cup {HalfWritten}
  /\ clerk \in [Clerks -> [job : Seq(Filed), copy : CountTables \cup Seq(Whos) \cup {Nobody}, writing : BOOLEAN]]
  /\ DOMAIN tally \subseteq Marks /\ IsFiniteSet(DOMAIN tally) /\ tally \in [DOMAIN tally -> Nat]
  /\ serial \in BOOLEAN /\ burnt \in BOOLEAN

\* What a clerk holds is the file its next entry goes to.
AtWork(k) ==
  /\ clerk[k].copy # Nobody => /\ OnDuty(k) /\ NextEntry(k).do # "authenticate"
                               /\ clerk[k].copy \in Contents(NextEntry(k).book)
                               /\ NextEntry(k).do = "guard" => IsPartner(clerk[k].copy, NextEntry(k).who)
  /\ clerk[k].writing => clerk[k].copy # Nobody
  /\ Len(clerk[k].job) > 1 => \A e \in ToSet(clerk[k].job) : e.do \notin Solitary

Created(p) == <<p, "create", FALSE>> \in DOMAIN tally
Warranted(b, rows) ==
  IF b = "attestations" THEN ToSet(rows) \subseteq Issued
  ELSE \A x \in DOMAIN rows : rows[x] <= Due(x) /\ (b = "partners" => Created(x[1]))
Exact(b, rows) ==
  CASE b = "reputation" -> rows = Observed
    [] b = "partners" -> \A x \in DOMAIN rows : /\ rows[x] = Due(x) /\ x[2] \in {"calls", "blocked"}
                                                /\ {<<x[1], "calls">>, <<x[1], "blocked">>} \subseteq DOMAIN rows
    [] b = "attestations" -> Len(rows) = IF Cardinality(Issued) > KeepRows THEN KeepRows ELSE Cardinality(Issued)

Alone ==
  /\ \A j, k \in Clerks : OnDuty(j) /\ OnDuty(k) => j = k
  /\ \A k \in Clerks : \A e \in ToSet(clerk[k].job) : e.do \in Solitary => <<e.who, e.do, FALSE>> \notin DOMAIN tally
  /\ \A b \in Books : IF book[b] = HalfWritten THEN \E k \in Clerks : clerk[k].writing /\ NextEntry(k).book = b
                                               ELSE Exact(b, book[b])
  /\ \A k \in Clerks : clerk[k].copy # Nobody => Exact(NextEntry(k).book, clerk[k].copy)

FilesInv ==
  /\ BookTypes
  /\ \A k \in Clerks : AtWork(k)
  /\ \A b \in Books : book[b] # HalfWritten => Warranted(b, book[b])
  /\ \A k \in Clerks : clerk[k].copy # Nobody => Warranted(NextEntry(k).book, clerk[k].copy)
  /\ \A t \in DOMAIN tally : t[2] = "guard" => Created(t[1])
  /\ serial /\ ~burnt => Alone

LEMMA WeightNames ==
  /\ DOMAIN Weights = {"guard_pass", "guard_block", "kym_pay", "kym_caution", "kym_avoid", "fraud_clean", "fraud_flag",
                       "settlement_ok", "settlement_fail", "delivery_good", "delivery_bad"}
  /\ DOMAIN Weights \cap {"authenticate", "create", "guard", "issue", "calls", "blocked"} = {}
<1>1. DOMAIN Weights = {"guard_pass", "guard_block", "kym_pay", "kym_caution", "kym_avoid", "fraud_clean", "fraud_flag",
                       "settlement_ok", "settlement_fail", "delivery_good", "delivery_bad"}
  BY DEF Weights
<1> QED  BY <1>1

LEMMA FiledEntries ==
  ASSUME NEW e \in Filed
  PROVE  /\ e.who \in Whos /\ e.blocked \in BOOLEAN /\ e.book \in Books /\ <<e.who, e.do, e.blocked>> \in Marks
         /\ \/ e.do \in DOMAIN Weights /\ e.book = "reputation" /\ ~e.blocked
            \/ e.do \in {"authenticate", "create"} /\ e.book = "partners" /\ ~e.blocked
            \/ e.do = "guard" /\ e.book = "partners"
            \/ e.do = "issue" /\ e.book = "attestations" /\ ~e.blocked
         /\ (e.do \in DOMAIN Weights) => <<e.who, e.do>> \in CountKeys
         /\ e.do \in {"create", "guard"} => <<e.who, "calls">> \in CountKeys /\ <<e.who, "blocked">> \in CountKeys
<1>1. /\ e = [book |-> BookOf(e.do), do |-> e.do, who |-> e.who, blocked |-> e.blocked]
      /\ e.do \in DOMAIN Weights \cup {"authenticate", "create", "guard", "issue"}
      /\ e.blocked \in BOOLEAN /\ (e.blocked => e.do = "guard")
  BY RegistryAssumption
<1>2. e.book = BookOf(e.do)
  BY <1>1
<1>3. e.who \in Whos /\ <<e.who, e.do, e.blocked>> \in Marks
  BY DEF Whos, Marks
<1>4. \/ e.do \in DOMAIN Weights /\ e.book = "reputation" /\ ~e.blocked
      \/ e.do \in {"authenticate", "create"} /\ e.book = "partners" /\ ~e.blocked
      \/ e.do = "guard" /\ e.book = "partners"
      \/ e.do = "issue" /\ e.book = "attestations" /\ ~e.blocked
  BY <1>1, <1>2, WeightNames DEF BookOf
<1>5. (e.do \in DOMAIN Weights) => <<e.who, e.do>> \in CountKeys
  BY DEF CountKeys
<1>6. e.do \in {"create", "guard"} => <<e.who, "calls">> \in CountKeys /\ <<e.who, "blocked">> \in CountKeys
  BY DEF CountKeys
<1> QED  BY <1>1, <1>3, <1>4, <1>5, <1>6 DEF Books

LEMMA Blank ==
  /\ <<>> \in Seq(Whos) /\ <<>> \in CountTables /\ DOMAIN <<>> = {} /\ ToSet(<<>>) = {} /\ Len(<<>>) = 0
<1>1. DOMAIN <<>> = {}
  OBVIOUS
<1>2. <<>> \in [{} -> Nat]
  BY <1>1
<1>3. {} \in SUBSET CountKeys
  OBVIOUS
<1>4. <<>> \in CountTables
  BY <1>2, <1>3 DEF CountTables
<1> QED  BY <1>1, <1>4 DEF ToSet

LEMMA OneMore ==
  ASSUME NEW D, NEW f \in [D -> Nat], NEW x
  PROVE  /\ PlusOne(f, x) \in [D \cup {x} -> Nat]
         /\ PlusOne(f, x)[x] = CountOf(f, x) + 1
         /\ \A y \in D \ {x} : PlusOne(f, x)[y] = f[y]
         /\ \A y : CountOf(f, y) \in Nat
<1>1. \A y : CountOf(f, y) \in Nat
  BY DEF CountOf
<1>2. PlusOne(f, x) = [y \in D \cup {x} |-> IF y = x THEN CountOf(f, x) + 1 ELSE f[y]]
  BY DEF PlusOne
<1>3. PlusOne(f, x) \in [D \cup {x} -> Nat]
  BY <1>1, <1>2
<1>4. PlusOne(f, x)[x] = CountOf(f, x) + 1 /\ \A y \in D \ {x} : PlusOne(f, x)[y] = f[y]
  BY <1>2
<1> QED  BY <1>1, <1>3, <1>4

LEMMA OneMoreCounts ==
  ASSUME NEW D, NEW f \in [D -> Nat], NEW x, NEW y
  PROVE  CountOf(f, y) \in Nat /\ CountOf(PlusOne(f, x), y) = IF y = x THEN CountOf(f, y) + 1 ELSE CountOf(f, y)
<1> DEFINE g == PlusOne(f, x)
<1>0. DOMAIN f = D /\ CountOf(f, y) \in Nat
  BY DEF CountOf
<1>1. g = [z \in D \cup {x} |-> IF z = x THEN CountOf(f, x) + 1 ELSE f[z]]
  BY <1>0 DEF PlusOne
<1> HIDE DEF g
<1>2. DOMAIN g = D \cup {x} /\ g[x] = CountOf(f, x) + 1 /\ \A z \in D : z # x => g[z] = f[z]
  BY <1>1
<1>3. CASE y = x
  <2>1. CountOf(g, y) = g[y]
    BY <1>2, <1>3 DEF CountOf
  <2> QED  BY <1>0, <1>2, <1>3, <2>1 DEF g
<1>4. CASE y # x /\ y \in D
  <2>1. CountOf(g, y) = g[y] /\ CountOf(f, y) = f[y]
    BY <1>0, <1>2, <1>4 DEF CountOf
  <2> QED  BY <1>0, <1>2, <1>4, <2>1 DEF g
<1>5. CASE y # x /\ y \notin D
  <2>1. CountOf(g, y) = 0 /\ CountOf(f, y) = 0
    BY <1>0, <1>2, <1>5 DEF CountOf
  <2> QED  BY <1>0, <1>5, <2>1 DEF g
<1> QED  BY <1>3, <1>4, <1>5

LEMMA TableFacts ==
  ASSUME NEW f \in CountTables
  PROVE  f \in [DOMAIN f -> Nat] /\ DOMAIN f \subseteq CountKeys
<1>1. PICK D \in SUBSET CountKeys : f \in [D -> Nat]
  BY DEF CountTables
<1> QED  BY <1>1

LEMMA OneMoreInTable ==
  ASSUME NEW f \in CountTables, NEW x \in CountKeys
  PROVE  PlusOne(f, x) \in CountTables
<1>1. PlusOne(f, x) \in [DOMAIN f \cup {x} -> Nat] /\ DOMAIN f \cup {x} \in SUBSET CountKeys
  BY TableFacts, OneMore
<1> QED  BY <1>1 DEF CountTables

LEMMA NewPartnerInTable ==
  ASSUME NEW f \in CountTables, NEW p, <<p, "calls">> \in CountKeys, <<p, "blocked">> \in CountKeys
  PROVE  NewPartner(f, p) \in CountTables
<1> DEFINE D == DOMAIN f \cup {<<p, "calls">>, <<p, "blocked">>}
<1>1. NewPartner(f, p) = [y \in D |-> IF y[1] = p THEN 0 ELSE f[y]]
  BY DEF NewPartner
<1>2. \A y \in D : y[1] # p => y \in DOMAIN f
  OBVIOUS
<1>3. NewPartner(f, p) \in [D -> Nat]
  BY <1>1, <1>2, TableFacts
<1>4. D \in SUBSET CountKeys
  BY TableFacts
<1> QED  BY <1>3, <1>4 DEF CountTables

LEMMA RowsKept ==
  ASSUME NEW rows \in Seq(Whos), NEW w \in Whos
  PROVE  LET new == LastRows(Append(rows, w))
         IN  /\ new \in Seq(Whos) /\ ToSet(new) \subseteq ToSet(rows) \cup {w}
             /\ Len(new) = IF Len(rows) + 1 > KeepRows THEN KeepRows ELSE Len(rows) + 1
<1> DEFINE all == Append(rows, w)
           m == IF Len(all) > KeepRows THEN Len(all) - KeepRows + 1 ELSE 1
           new == SubSeq(all, m, Len(all))
<1>1. all \in Seq(Whos) /\ Len(all) = Len(rows) + 1 /\ Len(rows) \in Nat /\ KeepRows \in Nat
      /\ \A i \in 1 .. Len(all) : all[i] \in ToSet(rows) \cup {w}
  BY RegistryAssumption DEF ToSet
<1> HIDE DEF all
<1>2. m \in 1 .. Len(all) + 1 /\ Len(all) - m + 1 = IF Len(all) > KeepRows THEN KeepRows ELSE Len(all)
  BY <1>1
<1> HIDE DEF m
<1>6. /\ new \in Seq(Whos) /\ Len(new) = IF m <= Len(all) THEN Len(all) - m + 1 ELSE 0
      /\ \A i \in 1 .. Len(all) - m + 1 : new[i] = all[m + i - 1]
  BY <1>1, <1>2, SubSeqProperties
<1>3. new \in Seq(Whos) /\ Len(new) = Len(all) - m + 1 /\ \A i \in 1 .. Len(new) : new[i] = all[m + i - 1]
  BY <1>1, <1>2, <1>6
<1> HIDE DEF new
<1>4. ToSet(new) \subseteq ToSet(rows) \cup {w}
  <2>1. DOMAIN new = 1 .. Len(new) /\ Len(new) \in Nat
    BY <1>3
  <2>2. \A i \in 1 .. Len(new) : m + i - 1 \in 1 .. Len(all)
    BY <1>1, <1>2, <1>3, <2>1
  <2>3. \A i \in DOMAIN new : new[i] \in ToSet(rows) \cup {w}
    BY <1>1, <1>3, <2>1, <2>2
  <2> QED  BY <2>3 DEF ToSet
<1>5. Len(new) = IF Len(rows) + 1 > KeepRows THEN KeepRows ELSE Len(rows) + 1
  BY <1>1, <1>2, <1>3
<1> QED  BY <1>3, <1>4, <1>5 DEF LastRows, all, m, new

LEMMA EntryWritten ==
  ASSUME NEW e \in Filed, NEW rows
  PROVE  /\ e.do = "create" => Entered(rows, e) = NewPartner(rows, e.who)
         /\ e.do = "guard" /\ e.blocked => Entered(rows, e) = PlusOne(PlusOne(rows, <<e.who, "calls">>), <<e.who, "blocked">>)
         /\ e.do = "guard" /\ ~e.blocked => Entered(rows, e) = PlusOne(rows, <<e.who, "calls">>)
         /\ e.do = "issue" => Entered(rows, e) = LastRows(Append(rows, e.who))
         /\ e.do \in DOMAIN Weights => Entered(rows, e) = PlusOne(rows, <<e.who, e.do>>)
<1>1. CASE e.do = "create"
  BY <1>1, WeightNames DEF Entered
<1>2. CASE e.do = "guard" /\ e.blocked
  BY <1>2, WeightNames DEF Entered
<1>3. CASE e.do = "guard" /\ ~e.blocked
  BY <1>3, WeightNames DEF Entered
<1>4. CASE e.do = "issue"
  BY <1>4, WeightNames DEF Entered
<1>5. CASE e.do \in DOMAIN Weights
  BY <1>5, WeightNames DEF Entered
<1> QED  BY <1>1, <1>2, <1>3, <1>4, <1>5

LEMMA EnteredKeepsType ==
  ASSUME NEW e \in Filed, e.do # "authenticate", NEW rows \in Contents(e.book)
  PROVE  Entered(rows, e) \in Contents(e.book)
<1>1. CASE e.do \in {"create", "guard"}
  <2>1. rows \in CountTables /\ e.book = "partners" /\ <<e.who, "calls">> \in CountKeys /\ <<e.who, "blocked">> \in CountKeys
    BY <1>1, FiledEntries, WeightNames DEF Contents
  <2>2. PlusOne(rows, <<e.who, "calls">>) \in CountTables /\ NewPartner(rows, e.who) \in CountTables
    BY <2>1, OneMoreInTable, NewPartnerInTable
  <2>3. PlusOne(PlusOne(rows, <<e.who, "calls">>), <<e.who, "blocked">>) \in CountTables
    BY <2>1, <2>2, OneMoreInTable
  <2>4. Entered(rows, e) \in CountTables
    BY <1>1, <2>2, <2>3, EntryWritten, FiledEntries
  <2> QED  BY <2>1, <2>4 DEF Contents
<1>2. CASE e.do = "issue"
  <2>1. rows \in Seq(Whos) /\ e.book = "attestations" /\ e.who \in Whos
    BY <1>2, FiledEntries, WeightNames DEF Contents
  <2>2. LastRows(Append(rows, e.who)) \in Seq(Whos)
    BY <2>1, RowsKept
  <2> QED  BY <1>2, <2>1, <2>2, EntryWritten DEF Contents
<1>3. CASE e.do \in DOMAIN Weights
  <2>1. rows \in CountTables /\ e.book = "reputation"
    BY <1>3, FiledEntries, WeightNames DEF Contents
  <2>2. PlusOne(rows, <<e.who, e.do>>) \in CountTables
    BY <1>3, <2>1, FiledEntries, OneMoreInTable
  <2> QED  BY <1>3, <2>1, <2>2, EntryWritten DEF Contents
<1> QED  BY <1>1, <1>2, <1>3, FiledEntries

Mark(e) == <<e.who, e.do, e.blocked>>
\* What one written entry adds to a count.
Adds(e, x) ==
  IF x[2] = "calls" THEN e.do = "guard" /\ e.who = x[1]
  ELSE IF x[2] = "blocked" THEN e.do = "guard" /\ e.who = x[1] /\ e.blocked
  ELSE e.who = x[1] /\ e.do = x[2]

LEMMA TallyGrows ==
  ASSUME BookTypes, NEW e \in Filed, tally' = PlusOne(tally, Mark(e))
  PROVE  /\ DOMAIN tally' = DOMAIN tally \cup {Mark(e)} /\ DOMAIN tally' \subseteq Marks
         /\ IsFiniteSet(DOMAIN tally') /\ tally' \in [DOMAIN tally' -> Nat]
         /\ \A y : CountOf(tally, y) \in Nat /\ CountOf(tally', y) = CountOf(tally, y) + (IF y = Mark(e) THEN 1 ELSE 0)
<1>1. tally \in [DOMAIN tally -> Nat] /\ DOMAIN tally \subseteq Marks /\ IsFiniteSet(DOMAIN tally)
  BY DEF BookTypes
<1>2. tally' \in [DOMAIN tally \cup {Mark(e)} -> Nat]
  BY <1>1, OneMore
<1>3. DOMAIN tally' = DOMAIN tally \cup {Mark(e)}
  BY <1>2
<1> DEFINE D == DOMAIN tally
           x == Mark(e)
<1>7. tally \in [D -> Nat]
  BY <1>1
<1> HIDE DEF D, x
<1>9. \A y : CountOf(tally, y) \in Nat
             /\ CountOf(PlusOne(tally, x), y) = IF y = x THEN CountOf(tally, y) + 1 ELSE CountOf(tally, y)
  BY <1>7, OneMoreCounts
<1>4. \A y : CountOf(tally, y) \in Nat /\ CountOf(PlusOne(tally, Mark(e)), y) = CountOf(tally, y) + (IF y = Mark(e) THEN 1 ELSE 0)
  <2> TAKE y
  <2>1. CountOf(tally, y) \in Nat /\ CountOf(PlusOne(tally, x), y) = IF y = x THEN CountOf(tally, y) + 1 ELSE CountOf(tally, y)
    BY <1>9
  <2> QED  BY <2>1 DEF x
<1>5. Mark(e) \in Marks
  BY DEF Mark, Marks
<1>6. IsFiniteSet(DOMAIN tally')
  BY <1>1, <1>3, FS_AddElement
<1> QED  BY <1>1, <1>2, <1>3, <1>4, <1>5, <1>6

LEMMA WrittenGrows ==
  ASSUME BookTypes, NEW e \in Filed, tally' = PlusOne(tally, Mark(e))
  PROVE  \A w, d : Written(w, d) \in Nat /\ Written(w, d)' = Written(w, d) + (IF w = e.who /\ d = e.do THEN 1 ELSE 0)
<1> TAKE w, d
<1> DEFINE t == CountOf(tally, <<w, d, TRUE>>)
           f == CountOf(tally, <<w, d, FALSE>>)
<1>1. /\ t \in Nat /\ f \in Nat
      /\ CountOf(tally', <<w, d, TRUE>>) = t + (IF <<w, d, TRUE>> = Mark(e) THEN 1 ELSE 0)
      /\ CountOf(tally', <<w, d, FALSE>>) = f + (IF <<w, d, FALSE>> = Mark(e) THEN 1 ELSE 0)
  BY TallyGrows
<1>2. e.blocked \in BOOLEAN
  BY FiledEntries
<1>3. /\ <<w, d, TRUE>> = Mark(e) <=> (w = e.who /\ d = e.do /\ e.blocked)
      /\ <<w, d, FALSE>> = Mark(e) <=> (w = e.who /\ d = e.do /\ ~e.blocked)
  BY <1>2 DEF Mark
<1>4. Written(w, d) = t + f /\ Written(w, d)' = CountOf(tally', <<w, d, TRUE>>) + CountOf(tally', <<w, d, FALSE>>)
  BY DEF Written, CountOf
<1> DEFINE t2 == CountOf(tally', <<w, d, TRUE>>)
           f2 == CountOf(tally', <<w, d, FALSE>>)
           a == <<w, d, TRUE>> = Mark(e)
           b == <<w, d, FALSE>> = Mark(e)
<1>5. (a /\ ~b /\ w = e.who /\ d = e.do) \/ (~a /\ b /\ w = e.who /\ d = e.do) \/ (~a /\ ~b /\ ~(w = e.who /\ d = e.do))
  BY <1>2, <1>3
<1>6. t2 = t + (IF a THEN 1 ELSE 0) /\ f2 = f + (IF b THEN 1 ELSE 0) /\ t \in Nat /\ f \in Nat
  BY <1>1
<1>7. Written(w, d) = t + f /\ Written(w, d)' = t2 + f2
  BY <1>4
<1> HIDE DEF t, f, t2, f2, a, b
<1>8. t + f \in Nat /\ t2 + f2 = t + f + (IF w = e.who /\ d = e.do THEN 1 ELSE 0)
  BY <1>5, <1>6
<1> QED  BY <1>7, <1>8

LEMMA DueGrows ==
  ASSUME BookTypes, NEW e \in Filed, tally' = PlusOne(tally, Mark(e))
  PROVE  \A x : Due(x) \in Nat /\ Due(x)' = Due(x) + (IF Adds(e, x) THEN 1 ELSE 0)
<1> TAKE x
<1>1. CASE x[2] = "calls"
  <2>1. Due(x) = Written(x[1], "guard") /\ Due(x)' = Written(x[1], "guard")'
    BY <1>1 DEF Due
  <2>2. Adds(e, x) <=> (x[1] = e.who /\ "guard" = e.do)
    BY <1>1 DEF Adds
  <2> QED  BY <2>1, <2>2, WrittenGrows
<1>2. CASE x[2] = "blocked"
  <2>1. Due(x) = CountOf(tally, <<x[1], "guard", TRUE>>) /\ Due(x)' = CountOf(tally', <<x[1], "guard", TRUE>>)
    BY <1>2 DEF Due, CountOf
  <2>2. Adds(e, x) <=> <<x[1], "guard", TRUE>> = Mark(e)
    BY <1>2, FiledEntries DEF Adds, Mark
  <2> QED  BY <2>1, <2>2, TallyGrows
<1>3. CASE x[2] \notin {"calls", "blocked"}
  <2>1. Due(x) = Written(x[1], x[2]) /\ Due(x)' = Written(x[1], x[2])'
    BY <1>3 DEF Due
  <2>2. Adds(e, x) <=> (x[1] = e.who /\ x[2] = e.do)
    BY <1>3 DEF Adds
  <2> QED  BY <2>1, <2>2, WrittenGrows
<1> QED  BY <1>1, <1>2, <1>3

LEMMA IssuedGrows ==
  ASSUME BookTypes, NEW e \in Filed, tally' = PlusOne(tally, Mark(e))
  PROVE  /\ Issued' = IF e.do = "issue" THEN Issued \cup {e.who} ELSE Issued
         /\ \A p : Created(p)' <=> Created(p) \/ (e.do = "create" /\ e.who = p)
         /\ IsFiniteSet(Issued)
<1>1. DOMAIN tally' = DOMAIN tally \cup {Mark(e)} /\ Mark(e)[1] = e.who /\ Mark(e)[2] = e.do
  BY TallyGrows DEF Mark
<1>2. Issued' = IF e.do = "issue" THEN Issued \cup {e.who} ELSE Issued
  BY <1>1 DEF Issued
<1>3. ASSUME NEW p PROVE Created(p)' <=> Created(p) \/ (e.do = "create" /\ e.who = p)
  BY <1>1, FiledEntries, WeightNames DEF Created, Mark
<1>4. IsFiniteSet(Issued)
  <2>1. IsFiniteSet({y \in DOMAIN tally : y[2] = "issue"})
    BY FS_Subset DEF BookTypes
  <2> DEFINE S == {y \in DOMAIN tally : y[2] = "issue"}
  <2>2. [y \in S |-> y[1]] \in Surjection(S, Issued)
    BY DEF Issued, Surjection
  <2> QED  BY <2>1, <2>2, FS_Surjection
<1> QED  BY <1>2, <1>3, <1>4

LEMMA ObservedGrows ==
  ASSUME BookTypes, NEW e \in Filed, tally' = PlusOne(tally, Mark(e))
  PROVE  Observed' = IF e.do \in DOMAIN Weights THEN PlusOne(Observed, <<e.who, e.do>>) ELSE Observed
<1> DEFINE S == {<<y[1], y[2]>> : y \in {z \in DOMAIN tally : z[2] \in DOMAIN Weights}}
           T == {<<y[1], y[2]>> : y \in {z \in DOMAIN tally' : z[2] \in DOMAIN Weights}}
           x == <<e.who, e.do>>
<1>1. Observed = [y \in S |-> Written(y[1], y[2])] /\ Observed' = [y \in T |-> Written(y[1], y[2])']
  BY DEF Observed
<1>2. DOMAIN tally' = DOMAIN tally \cup {Mark(e)} /\ Mark(e)[1] = e.who /\ Mark(e)[2] = e.do
  BY TallyGrows DEF Mark
<1>3. T = IF e.do \in DOMAIN Weights THEN S \cup {x} ELSE S
  BY <1>2
<1>4. \A y \in S : y[2] \in DOMAIN Weights /\ y = <<y[1], y[2]>>
  OBVIOUS
<1>5. \A y : Written(y[1], y[2]) \in Nat
             /\ Written(y[1], y[2])' = Written(y[1], y[2]) + (IF y[1] = e.who /\ y[2] = e.do THEN 1 ELSE 0)
  BY WrittenGrows
<1>6. e.do \in DOMAIN Weights /\ x \notin S => Written(e.who, e.do) = 0
  <2> SUFFICES ASSUME e.do \in DOMAIN Weights, x \notin S PROVE Written(e.who, e.do) = 0
    OBVIOUS
  <2>1. ASSUME NEW b \in BOOLEAN PROVE <<e.who, e.do, b>> \notin DOMAIN tally
    <3>1. <<e.who, e.do, b>>[1] = e.who /\ <<e.who, e.do, b>>[2] = e.do
      OBVIOUS
    <3> QED  BY <3>1
  <2> QED  BY <2>1 DEF Written, CountOf
<1> HIDE DEF S, T
<1>7. CASE e.do \notin DOMAIN Weights
  BY <1>1, <1>3, <1>4, <1>5, <1>7
<1>8. CASE e.do \in DOMAIN Weights
  <2>1. T = S \cup {x}
    BY <1>3, <1>8
  <2>2. \A y \in S : y # x => Written(y[1], y[2])' = Written(y[1], y[2])
    BY <1>4, <1>5
  <2>3. Written(x[1], x[2])' = CountOf(Observed, x) + 1
    BY <1>1, <1>5, <1>6, <1>8 DEF CountOf
  <2>4. DOMAIN Observed = S
    BY <1>1
  <2>5. PlusOne(Observed, x) = [y \in S \cup {x} |-> IF y = x THEN CountOf(Observed, x) + 1 ELSE Observed[y]]
    BY <2>4 DEF PlusOne
  <2>6. \A y \in S : Observed[y] = Written(y[1], y[2])
    BY <1>1
  <2> HIDE DEF x
  <2>7. Observed' = PlusOne(Observed, x)
    BY <1>1, <2>1, <2>2, <2>3, <2>5, <2>6
  <2> QED  BY <1>8, <2>7 DEF x
<1> QED  BY <1>7, <1>8

LEMMA PairKeys == \A x \in CountKeys : x = <<x[1], x[2]>>
BY DEF CountKeys

(* Who copies a file and adds an entry to the copy tells of no more than   *)
(* was written, the entry included.                                        *)
LEMMA EntryWarranted ==
  ASSUME BookTypes, NEW e \in Filed, e.do # "authenticate", tally' = PlusOne(tally, Mark(e)),
         NEW rows \in Contents(e.book), Warranted(e.book, rows), e.do = "guard" => IsPartner(rows, e.who)
  PROVE  LET new == Entered(rows, e)
         IN  /\ e.book = "attestations" => ToSet(new) \subseteq Issued'
             /\ e.book # "attestations" =>
                  \A x \in DOMAIN new : new[x] <= Due(x)' /\ (e.book = "partners" => Created(x[1])')
<1>1. CASE e.do = "issue"
  <2>1. rows \in Seq(Whos) /\ e.book = "attestations" /\ e.who \in Whos /\ Entered(rows, e) = LastRows(Append(rows, e.who))
    BY <1>1, FiledEntries, WeightNames, EntryWritten DEF Contents
  <2>2. ToSet(rows) \subseteq Issued
    BY <2>1 DEF Warranted
  <2>3. ToSet(LastRows(Append(rows, e.who))) \subseteq ToSet(rows) \cup {e.who}
    BY <2>1, RowsKept
  <2> QED  BY <1>1, <2>1, <2>2, <2>3, IssuedGrows
<1>2. CASE e.do # "issue"
  <2>1. rows \in CountTables /\ e.book # "attestations"
    BY <1>2, FiledEntries DEF Contents
  <2> DEFINE D == DOMAIN rows
  <2>2. rows \in [D -> Nat] /\ D \subseteq CountKeys
    BY <2>1, TableFacts
  <2>3. \A x \in D : rows[x] <= Due(x) /\ (e.book = "partners" => Created(x[1]))
    BY <2>1 DEF Warranted
  <2>4. \A x : Due(x) \in Nat /\ Due(x)' = Due(x) + (IF Adds(e, x) THEN 1 ELSE 0)
    BY DueGrows
  <2>5. \A p : Created(p)' <=> Created(p) \/ (e.do = "create" /\ e.who = p)
    BY IssuedGrows
  <2>6. \A x : CountOf(rows, x) \in Nat /\ CountOf(rows, x) <= Due(x)
    BY <2>2, <2>3, <2>4 DEF CountOf
  <2>7. ASSUME NEW x \in DOMAIN Entered(rows, e)
        PROVE  Entered(rows, e)[x] <= Due(x)' /\ (e.book = "partners" => Created(x[1])')
    <3>1. CASE e.do = "create"
      <4>1. Entered(rows, e) = NewPartner(rows, e.who)
        BY <3>1, EntryWritten
      <4>2. NewPartner(rows, e.who) = [y \in D \cup {<<e.who, "calls">>, <<e.who, "blocked">>} |-> IF y[1] = e.who THEN 0 ELSE rows[y]]
        BY DEF NewPartner
      <4>3. CASE x[1] = e.who
        <5>1. Entered(rows, e)[x] = 0
          BY <4>1, <4>2, <4>3
        <5> QED  BY <2>4, <2>5, <3>1, <4>3, <5>1
      <4>4. CASE x[1] # e.who
        <5>1. x \in D /\ Entered(rows, e)[x] = rows[x]
          BY <4>1, <4>2, <4>4
        <5> QED  BY <2>2, <2>3, <2>4, <2>5, <5>1
      <4> QED  BY <4>3, <4>4
    <3>2. CASE e.do = "guard"
      <4> DEFINE c == <<e.who, "calls">>
                 b == <<e.who, "blocked">>
                 f == PlusOne(rows, c)
      <4>1. Adds(e, c) /\ (Adds(e, b) <=> e.blocked) /\ c # b
        BY <3>2, FiledEntries DEF Adds
      <4>2. c \in D /\ e.book = "partners"
        BY <3>2, FiledEntries, WeightNames DEF IsPartner
      <4>3. Created(e.who)
        BY <2>3, <4>2
      <4>4. \A y \in D \cup {c} : f[y] = IF y = c THEN CountOf(rows, c) + 1 ELSE rows[y]
        BY DEF PlusOne
      <4>5. f \in [D \cup {c} -> Nat]
        BY <2>2, OneMore
      <4>6. \A y \in D \cup {c} : f[y] <= Due(y) + (IF y = c THEN 1 ELSE 0)
        BY <2>2, <2>3, <2>4, <2>6, <4>4
      <4>7. CASE ~e.blocked
        <5>1. Entered(rows, e) = f
          BY <3>2, <4>7, EntryWritten
        <5>2. x \in D \cup {c} /\ f[x] <= Due(x) + (IF x = c THEN 1 ELSE 0)
          BY <4>5, <4>6, <5>1
        <5>3. x = c => Adds(e, x)
          BY <4>1
        <5>4. Created(x[1])'
          BY <2>3, <2>5, <4>2, <4>3, <5>2
        <5>5. f[x] \in Nat
          BY <4>5, <5>2
        <5> HIDE DEF f, c
        <5> QED  BY <2>4, <5>1, <5>2, <5>3, <5>4, <5>5
      <4>8. CASE e.blocked
        <5> DEFINE g == PlusOne(f, b)
        <5>1. Entered(rows, e) = g
          BY <3>2, <4>8, EntryWritten
        <5>2. CountOf(f, b) = CountOf(rows, b)
          BY <2>2, <4>1, OneMoreCounts
        <5>3. DOMAIN f = D \cup {c}
          BY <4>5
        <5>4. x \in D \cup {c, b} /\ g[x] = IF x = b THEN CountOf(f, b) + 1 ELSE f[x]
          BY <5>1, <5>3 DEF PlusOne
        <5>5. Created(x[1])'
          BY <2>3, <2>5, <4>2, <4>3, <5>4
        <5>6. CASE x = b
          <6>1. g[x] = CountOf(rows, b) + 1 /\ Adds(e, x)
            BY <4>1, <4>8, <5>2, <5>4, <5>6
          <6>2. CountOf(rows, b) \in Nat /\ CountOf(rows, b) <= Due(b) /\ Due(x)' = Due(b) + 1 /\ Due(b) \in Nat
            BY <2>4, <2>6, <5>6, <6>1
          <6> HIDE DEF g, b
          <6> QED  BY <5>1, <5>5, <6>1, <6>2
        <5>7. CASE x # b
          <6>1. x \in D \cup {c} /\ g[x] = f[x]
            BY <5>4, <5>7
          <6>2. f[x] <= Due(x) + (IF x = c THEN 1 ELSE 0) /\ f[x] \in Nat
            BY <4>5, <4>6, <6>1
          <6>3. x = c => Adds(e, x)
            BY <4>1
          <6> HIDE DEF f, g, c
          <6> QED  BY <2>4, <5>1, <5>5, <6>1, <6>2, <6>3
        <5> QED  BY <5>6, <5>7
      <4> QED  BY <4>7, <4>8
    <3>3. CASE e.do \in DOMAIN Weights
      <4> DEFINE c == <<e.who, e.do>>
      <4>1. Adds(e, c) /\ e.book = "reputation"
        BY <3>3, FiledEntries, WeightNames DEF Adds
      <4>2. Entered(rows, e) = PlusOne(rows, c)
        BY <3>3, EntryWritten
      <4> HIDE DEF c
      <4>3. x \in D \cup {c} /\ Entered(rows, e)[x] = IF x = c THEN CountOf(rows, c) + 1 ELSE rows[x]
        BY <4>2 DEF PlusOne
      <4>4. CASE x = c
        <5>1. Due(x)' = Due(c) + 1 /\ Due(c) \in Nat /\ CountOf(rows, c) \in Nat /\ CountOf(rows, c) <= Due(c)
          BY <2>4, <2>6, <4>1, <4>4
        <5> QED  BY <4>1, <4>3, <4>4, <5>1
      <4>5. CASE x # c
        <5>1. x \in D /\ Entered(rows, e)[x] = rows[x] /\ rows[x] \in Nat
          BY <2>2, <4>3, <4>5
        <5> QED  BY <2>3, <2>4, <4>1, <5>1
      <4> QED  BY <4>4, <4>5
    <3> QED  BY <1>2, <3>1, <3>2, <3>3, FiledEntries
  <2> QED  BY <2>1, <2>7
<1> QED  BY <1>1, <1>2

LEMMA StillWarranted ==
  ASSUME BookTypes, NEW e \in Filed, tally' = PlusOne(tally, Mark(e)), NEW b \in Books, NEW rows \in Contents(b), Warranted(b, rows)
  PROVE  /\ b = "attestations" => ToSet(rows) \subseteq Issued'
         /\ b # "attestations" => \A x \in DOMAIN rows : rows[x] <= Due(x)' /\ (b = "partners" => Created(x[1])')
<1>1. CASE b = "attestations"
  BY <1>1, IssuedGrows DEF Warranted
<1>2. CASE b # "attestations"
  <2>1. rows \in [DOMAIN rows -> Nat]
    BY <1>2, TableFacts DEF Contents
  <2>2. \A x \in DOMAIN rows : rows[x] \in Nat /\ rows[x] <= Due(x) /\ (b = "partners" => Created(x[1]))
    BY <1>2, <2>1 DEF Warranted
  <2>3. \A x : Due(x) \in Nat /\ Due(x)' = Due(x) + (IF Adds(e, x) THEN 1 ELSE 0)
    BY DueGrows
  <2>4. \A p : Created(p) => Created(p)'
    BY IssuedGrows
  <2>5. \A x \in DOMAIN rows : rows[x] <= Due(x)'
    BY <2>2, <2>3
  <2> QED  BY <1>2, <2>2, <2>4, <2>5
<1> QED  BY <1>1, <1>2

LEMMA TalliedGuards ==
  ASSUME BookTypes, NEW p, \A t \in DOMAIN tally : t[2] = "guard" => Created(t[1]), ~Created(p)
  PROVE  Due(<<p, "calls">>) = 0 /\ Due(<<p, "blocked">>) = 0
<1>1. ASSUME NEW b \in BOOLEAN PROVE <<p, "guard", b>> \notin DOMAIN tally
  <2>1. <<p, "guard", b>>[1] = p /\ <<p, "guard", b>>[2] = "guard"
    OBVIOUS
  <2> QED  BY <2>1
<1>2. CountOf(tally, <<p, "guard", TRUE>>) = 0 /\ CountOf(tally, <<p, "guard", FALSE>>) = 0
  BY <1>1 DEF CountOf
<1> QED  BY <1>2 DEF Due, Written

(* A copy that tells exactly what was written does so with the entry.      *)
LEMMA EntryExact ==
  ASSUME BookTypes, NEW e \in Filed, e.do # "authenticate", tally' = PlusOne(tally, Mark(e)),
         NEW rows \in Contents(e.book), Exact(e.book, rows), Warranted(e.book, rows),
         e.do = "guard" => IsPartner(rows, e.who), e.do \in Solitary => <<e.who, e.do, FALSE>> \notin DOMAIN tally,
         \A t \in DOMAIN tally : t[2] = "guard" => Created(t[1])
  PROVE  LET new == Entered(rows, e)
         IN  /\ e.book = "reputation" => new = Observed'
             /\ e.book = "partners" => \A x \in DOMAIN new :
                  /\ new[x] = Due(x)' /\ x[2] \in {"calls", "blocked"}
                  /\ {<<x[1], "calls">>, <<x[1], "blocked">>} \subseteq DOMAIN new
             /\ e.book = "attestations" =>
                  Len(new) = IF Cardinality(Issued') > KeepRows THEN KeepRows ELSE Cardinality(Issued')
<1>1. CASE e.do \in DOMAIN Weights
  <2>1. e.book = "reputation" /\ Entered(rows, e) = PlusOne(rows, <<e.who, e.do>>)
    BY <1>1, FiledEntries, WeightNames, EntryWritten
  <2>2. rows = Observed
    BY <2>1 DEF Exact
  <2> QED  BY <1>1, <2>1, <2>2, ObservedGrows
<1>2. CASE e.do = "issue"
  <2>1. rows \in Seq(Whos) /\ e.book = "attestations" /\ e.who \in Whos /\ Entered(rows, e) = LastRows(Append(rows, e.who))
    BY <1>2, FiledEntries, WeightNames, EntryWritten DEF Contents
  <2>2. Len(rows) = IF Cardinality(Issued) > KeepRows THEN KeepRows ELSE Cardinality(Issued)
    BY <2>1 DEF Exact
  <2>3. Len(LastRows(Append(rows, e.who))) = IF Len(rows) + 1 > KeepRows THEN KeepRows ELSE Len(rows) + 1
    BY <2>1, RowsKept
  <2>4. e.who \notin Issued
    <3> SUFFICES ASSUME e.who \in Issued PROVE FALSE
      OBVIOUS
    <3>1. PICK t \in DOMAIN tally : t[2] = "issue" /\ t[1] = e.who
      BY DEF Issued
    <3>2. t \in Marks
      BY DEF BookTypes
    <3>3. PICK d \in Filed : t = <<d.who, d.do, d.blocked>>
      BY <3>2 DEF Marks
    <3>4. d.do = "issue" /\ d.who = e.who
      BY <3>1, <3>3
    <3>5. d.blocked = FALSE
      BY <3>4, FiledEntries, WeightNames
    <3>6. t = <<e.who, "issue", FALSE>>
      BY <3>3, <3>4, <3>5
    <3> QED  BY <1>2, <3>6 DEF Solitary
  <2>5. IsFiniteSet(Issued) /\ Issued' = Issued \cup {e.who}
    BY <1>2, IssuedGrows
  <2>6. Cardinality(Issued') = Cardinality(Issued) + 1 /\ Cardinality(Issued) \in Nat
    BY <2>4, <2>5, FS_AddElement, FS_CardinalityType
  <2>7. KeepRows \in Nat
    BY RegistryAssumption
  <2>8. Len(Entered(rows, e)) = IF Cardinality(Issued') > KeepRows THEN KeepRows ELSE Cardinality(Issued')
    BY <2>1, <2>2, <2>3, <2>6, <2>7
  <2> QED  BY <2>1, <2>8
<1>3. CASE e.do \in {"create", "guard"}
  <2>1. rows \in CountTables /\ e.book = "partners"
    BY <1>3, FiledEntries, WeightNames DEF Contents
  <2> DEFINE D == DOMAIN rows
             new == Entered(rows, e)
             c == <<e.who, "calls">>
             b == <<e.who, "blocked">>
  <2>2. rows \in [D -> Nat] /\ D \subseteq CountKeys
    BY <2>1, TableFacts
  <2>3. \A x \in D : rows[x] = Due(x) /\ x[2] \in {"calls", "blocked"} /\ {<<x[1], "calls">>, <<x[1], "blocked">>} \subseteq D
    BY <2>1 DEF Exact
  <2>4. \A x : Due(x) \in Nat /\ Due(x)' = Due(x) + (IF Adds(e, x) THEN 1 ELSE 0)
    BY DueGrows
  <2>5. \A x \in D : x = <<x[1], x[2]>>
    BY <2>2, PairKeys
  <2>6. c[1] = e.who /\ c[2] = "calls" /\ b[1] = e.who /\ b[2] = "blocked" /\ c # b
    OBVIOUS
  <2>7. /\ DOMAIN new = D \cup {c, b} \/ (DOMAIN new = D /\ c \in D)
        /\ \A x \in DOMAIN new : new[x] = Due(x)'
    <3>1. CASE e.do = "create"
      <4>1. new = [y \in D \cup {c, b} |-> IF y[1] = e.who THEN 0 ELSE rows[y]]
        BY <3>1, EntryWritten DEF NewPartner
      <4>2. ~Created(e.who)
        BY <3>1 DEF Created, Solitary
      <4>3. Due(c) = 0 /\ Due(b) = 0
        BY <4>2, TalliedGuards
      <4>4. \A x : x[2] \in {"calls", "blocked"} => Due(x)' = Due(x)
        BY <2>4, <3>1 DEF Adds
      <4>5. ASSUME NEW x \in D \cup {c, b} PROVE new[x] = Due(x)'
        <5>1. CASE x[1] = e.who
          <6>1. x \in {c, b}
            BY <2>3, <2>5, <4>5, <5>1
          <6>2. Due(x)' = Due(x) /\ Due(x) = 0
            BY <2>6, <4>3, <4>4, <6>1
          <6>3. new[x] = 0
            BY <4>1, <4>5, <5>1
          <6> QED  BY <6>2, <6>3
        <5>2. CASE x[1] # e.who
          <6>1. x \in D
            BY <2>6, <4>5, <5>2
          <6>4. rows[x] = Due(x) /\ x[2] \in {"calls", "blocked"}
            BY <2>3, <6>1
          <6>2. rows[x] = Due(x) /\ Due(x)' = Due(x)
            BY <4>4, <6>4
          <6>3. new[x] = rows[x]
            BY <4>1, <4>5, <5>2
          <6> QED  BY <6>2, <6>3
        <5> QED  BY <5>1, <5>2
      <4> QED  BY <4>1, <4>5
    <3>2. CASE e.do = "guard"
      <4> DEFINE f == PlusOne(rows, c)
      <4>1. c \in D
        BY <3>2 DEF IsPartner
      <4>2. b \in D
        BY <2>3, <2>6, <4>1
      <4>3. DOMAIN f = D /\ \A y \in D : f[y] = IF y = c THEN rows[c] + 1 ELSE rows[y]
        BY <4>1 DEF PlusOne, CountOf
      <4>4. \A y \in D : Adds(e, y) <=> (y = c \/ (y = b /\ e.blocked))
        <5> SUFFICES ASSUME NEW y \in D PROVE Adds(e, y) <=> (y = c \/ (y = b /\ e.blocked))
          OBVIOUS
        <5>1. y = <<y[1], y[2]>> /\ y[2] \in {"calls", "blocked"}
          BY <2>3, <2>5
        <5>2. y = c <=> (y[1] = e.who /\ y[2] = "calls")
          BY <5>1
        <5>3. y = b <=> (y[1] = e.who /\ y[2] = "blocked")
          BY <5>1
        <5> HIDE DEF c, b
        <5>4. CASE y[2] = "calls"
          BY <3>2, <5>2, <5>3, <5>4 DEF Adds
        <5>5. CASE y[2] = "blocked"
          BY <3>2, <5>2, <5>3, <5>5 DEF Adds
        <5> QED  BY <5>1, <5>4, <5>5
      <4>5. CASE ~e.blocked
        <5>1. new = f
          BY <3>2, <4>5, EntryWritten
        <5> HIDE DEF f, c, b
        <5>2. \A y \in D : f[y] = Due(y)'
          <6> SUFFICES ASSUME NEW y \in D PROVE f[y] = Due(y)'
            OBVIOUS
          <6>1. rows[y] = Due(y) /\ Due(y)' = Due(y) + (IF Adds(e, y) THEN 1 ELSE 0)
            BY <2>3, <2>4
          <6>2. Adds(e, y) <=> y = c
            BY <4>4, <4>5
          <6>3. f[y] = IF y = c THEN rows[y] + 1 ELSE rows[y]
            BY <4>3
          <6>4. Due(y) \in Nat
            BY <2>4
          <6> QED  BY <6>1, <6>2, <6>3, <6>4
        <5> QED  BY <4>1, <4>3, <5>1, <5>2
      <4>6. CASE e.blocked
        <5> DEFINE g == PlusOne(f, b)
        <5>1. new = g
          BY <3>2, <4>6, EntryWritten
        <5>2. DOMAIN g = D /\ \A y \in D : g[y] = IF y = b THEN f[b] + 1 ELSE f[y]
          BY <4>2, <4>3 DEF PlusOne, CountOf
        <5> HIDE DEF f, g, c, b
        <5>3. \A y \in D : g[y] = Due(y)'
          <6> SUFFICES ASSUME NEW y \in D PROVE g[y] = Due(y)'
            OBVIOUS
          <6>1. rows[y] = Due(y) /\ Due(y)' = Due(y) + (IF Adds(e, y) THEN 1 ELSE 0)
            BY <2>3, <2>4
          <6>2. Adds(e, y) <=> (y = c \/ y = b)
            BY <4>4, <4>6
          <6>3. g[y] = IF y = c \/ y = b THEN rows[y] + 1 ELSE rows[y]
            BY <2>6, <4>2, <4>3, <5>2
          <6>4. Due(y) \in Nat
            BY <2>4
          <6> QED  BY <6>1, <6>2, <6>3, <6>4
        <5> QED  BY <4>1, <5>1, <5>2, <5>3
      <4> QED  BY <4>5, <4>6
    <3> QED  BY <1>3, <3>1, <3>2
  <2>8. \A x \in DOMAIN new : x[2] \in {"calls", "blocked"} /\ {<<x[1], "calls">>, <<x[1], "blocked">>} \subseteq DOMAIN new
    BY <2>3, <2>6, <2>7
  <2> QED  BY <2>1, <2>7, <2>8
<1> QED  BY <1>1, <1>2, <1>3, FiledEntries

(* The entry of one book leaves what the others tell exact.                *)
LEMMA OthersExact ==
  ASSUME BookTypes, NEW e \in Filed, tally' = PlusOne(tally, Mark(e)),
         NEW b \in Books, b # e.book, NEW rows \in Contents(b), Exact(b, rows)
  PROVE  /\ b = "reputation" => rows = Observed'
         /\ b = "partners" => \A x \in DOMAIN rows :
              /\ rows[x] = Due(x)' /\ x[2] \in {"calls", "blocked"}
              /\ {<<x[1], "calls">>, <<x[1], "blocked">>} \subseteq DOMAIN rows
         /\ b = "attestations" =>
              Len(rows) = IF Cardinality(Issued') > KeepRows THEN KeepRows ELSE Cardinality(Issued')
<1>1. CASE b = "reputation"
  <2>1. e.do \notin DOMAIN Weights
    BY <1>1, FiledEntries, WeightNames
  <2> QED  BY <1>1, <2>1, ObservedGrows DEF Exact
<1>2. CASE b = "partners"
  <2>1. e.do # "guard"
    BY <1>2, FiledEntries, WeightNames
  <2>2. \A x : x[2] \in {"calls", "blocked"} => ~Adds(e, x)
    BY <2>1 DEF Adds
  <2>3. \A x : Due(x) \in Nat /\ Due(x)' = Due(x) + (IF Adds(e, x) THEN 1 ELSE 0)
    BY DueGrows
  <2> QED  BY <1>2, <2>2, <2>3 DEF Exact
<1>3. CASE b = "attestations"
  <2>1. e.do # "issue"
    BY <1>3, FiledEntries, WeightNames
  <2>2. Issued' = Issued
    BY <2>1, IssuedGrows
  <2> QED  BY <1>3, <2>2 DEF Exact
<1> QED  BY <1>1, <1>2, <1>3 DEF Books

Duties == [job : Seq(Filed), copy : CountTables \cup Seq(Whos) \cup {Nobody}, writing : BOOLEAN]

LEMMA JobFacts ==
  ASSUME NEW job \in Seq(Filed), job # <<>>
  PROVE  /\ Head(job) \in Filed /\ Head(job) \in ToSet(job) /\ Tail(job) \in Seq(Filed)
         /\ ToSet(Tail(job)) \subseteq ToSet(job) /\ Len(job) \in Nat /\ Len(Tail(job)) = Len(job) - 1
<1>1. /\ Len(job) \in Nat \ {0} /\ Head(job) = job[1] /\ Tail(job) \in Seq(Filed) /\ Len(Tail(job)) = Len(job) - 1
      /\ \A i \in 1 .. Len(job) - 1 : Tail(job)[i] = job[i + 1]
  OBVIOUS
<1>2. DOMAIN job = 1 .. Len(job) /\ DOMAIN Tail(job) = 1 .. Len(job) - 1
  BY <1>1
<1>3. ToSet(Tail(job)) \subseteq ToSet(job)
  BY <1>1, <1>2 DEF ToSet
<1>4. Head(job) \in ToSet(job) /\ Head(job) \in Filed
  BY <1>1, <1>2 DEF ToSet
<1> QED  BY <1>1, <1>3, <1>4

LEMMA TallyStands ==
  ASSUME tally' = tally
  PROVE  /\ Issued' = Issued /\ Observed' = Observed /\ (\A x : Due(x)' = Due(x)) /\ (\A p : Created(p)' = Created(p))
<1>1. \A w, d : Written(w, d)' = Written(w, d)
  BY DEF Written, CountOf
<1>2. \A x : Due(x)' = Due(x)
  BY <1>1 DEF Due, CountOf
<1> QED  BY <1>1, <1>2 DEF Issued, Observed, Created

LEMMA LegibleFacts ==
  ASSUME FilesInv, NEW b \in Books
  PROVE  Legible(b) \in Contents(b) /\ Warranted(b, Legible(b)) /\ Legible(b) # Nobody
<1>1. book[b] \in Contents(b) \cup {HalfWritten} /\ (book[b] # HalfWritten => Warranted(b, book[b]))
  BY DEF FilesInv, BookTypes
<1>2. <<>> \in Contents(b) /\ Warranted(b, <<>>)
  BY Blank DEF Contents, Warranted
<1>3. Legible(b) \in Contents(b) /\ Warranted(b, Legible(b))
  BY <1>1, <1>2 DEF Legible
<1>4. Nobody \notin CountTables /\ Nobody \notin Seq(Whos)
  BY RegistryAssumption DEF CountTables
<1> QED  BY <1>3, <1>4 DEF Contents

(* A clerk that touches no file.                                           *)
LEMMA ClerkMoves ==
  ASSUME FilesInv, NEW k \in Clerks, NEW r \in Duties, clerk' = [clerk EXCEPT ![k] = r],
         UNCHANGED <<book, tally, serial, burnt>>, ~clerk[k].writing, ~r.writing,
         r.copy # Nobody => /\ r.job # <<>> /\ Head(r.job).do # "authenticate" /\ r.copy = Legible(Head(r.job).book)
                            /\ Head(r.job).do = "guard" => IsPartner(r.copy, Head(r.job).who),
         Len(r.job) > 1 => \A e \in ToSet(r.job) : e.do \notin Solitary,
         serial /\ ~burnt =>
            /\ r.job # <<>> => \A j \in Clerks \ {k} : ~OnDuty(j)
            /\ \A e \in ToSet(r.job) : e.do \in Solitary => <<e.who, e.do, FALSE>> \notin DOMAIN tally
  PROVE  FilesInv'
<1>1. /\ BookTypes /\ (\A j \in Clerks : AtWork(j)) /\ clerk \in [Clerks -> Duties]
      /\ \A b \in Books : book[b] # HalfWritten => Warranted(b, book[b])
      /\ \A j \in Clerks : clerk[j].copy # Nobody => Warranted(NextEntry(j).book, clerk[j].copy)
      /\ \A t \in DOMAIN tally : t[2] = "guard" => Created(t[1])
  BY DEF FilesInv, BookTypes, Duties
<1>2. clerk' \in [Clerks -> Duties] /\ clerk'[k] = r /\ \A j \in Clerks \ {k} : clerk'[j] = clerk[j]
  BY <1>1
<1>3. Issued' = Issued /\ Observed' = Observed /\ (\A x : Due(x)' = Due(x)) /\ (\A p : Created(p)' = Created(p))
  BY TallyStands
<1>4. BookTypes'
  BY <1>1, <1>2 DEF BookTypes, Duties
<1>5. r.copy # Nobody => /\ Head(r.job) \in Filed /\ Head(r.job).book \in Books
                         /\ r.copy \in Contents(Head(r.job).book) /\ Warranted(Head(r.job).book, r.copy)
  <2> SUFFICES ASSUME r.copy # Nobody
               PROVE  /\ Head(r.job) \in Filed /\ Head(r.job).book \in Books
                      /\ r.copy \in Contents(Head(r.job).book) /\ Warranted(Head(r.job).book, r.copy)
    OBVIOUS
  <2>1. r.job \in Seq(Filed)
    BY DEF Duties
  <2>2. Head(r.job) \in Filed
    BY <2>1, JobFacts
  <2>3. Head(r.job).book \in Books
    BY <2>2, FiledEntries
  <2> QED  BY <2>2, <2>3, LegibleFacts
<1>6. ASSUME NEW j \in Clerks PROVE AtWork(j)'
  <2>1. CASE j = k
    BY <1>2, <1>5, <2>1 DEF AtWork, OnDuty, NextEntry
  <2>2. CASE j # k
    BY <1>1, <1>2, <2>2 DEF AtWork, OnDuty, NextEntry
  <2> QED  BY <2>1, <2>2
<1>7. ASSUME NEW b \in Books, book'[b] # HalfWritten PROVE Warranted(b, book[b])'
  BY <1>1, <1>3, <1>7 DEF Warranted
<1>8. ASSUME NEW j \in Clerks, clerk'[j].copy # Nobody PROVE Warranted(NextEntry(j).book, clerk[j].copy)'
  <2>1. CASE j = k
    BY <1>2, <1>3, <1>5, <1>8, <2>1 DEF Warranted, NextEntry
  <2>2. CASE j # k
    BY <1>1, <1>2, <1>3, <1>8, <2>2 DEF Warranted, NextEntry
  <2> QED  BY <2>1, <2>2
<1>9. (\A t \in DOMAIN tally : t[2] = "guard" => Created(t[1]))'
  BY <1>1, <1>3
<1>10. serial' /\ ~burnt' => Alone'
  <2> SUFFICES ASSUME serial, ~burnt PROVE Alone'
    OBVIOUS
  <2>1. Alone
    BY DEF FilesInv
  <2>2. ASSUME NEW i \in Clerks, NEW j \in Clerks, OnDuty(i)', OnDuty(j)' PROVE i = j
    <3>1. CASE i # k /\ j # k
      BY <1>2, <2>1, <2>2, <3>1 DEF Alone, OnDuty
    <3>2. CASE i = k \/ j = k
      BY <1>2, <2>2, <3>2 DEF OnDuty
    <3> QED  BY <3>1, <3>2
  <2>3. ASSUME NEW j \in Clerks, NEW e \in ToSet(clerk'[j].job), e.do \in Solitary PROVE <<e.who, e.do, FALSE>> \notin DOMAIN tally'
    <3>1. CASE j = k
      BY <1>2, <2>3, <3>1
    <3>2. CASE j # k
      BY <1>2, <2>1, <2>3, <3>2 DEF Alone
    <3> QED  BY <3>1, <3>2
  <2>4. ASSUME NEW b \in Books, book'[b] = HalfWritten PROVE \E j \in Clerks : clerk'[j].writing /\ NextEntry(j)'.book = b
    <3>1. PICK j \in Clerks : clerk[j].writing /\ NextEntry(j).book = b
      BY <2>1, <2>4 DEF Alone
    <3>2. clerk'[j] = clerk[j]
      BY <1>2, <3>1
    <3> QED  BY <3>1, <3>2 DEF NextEntry
  <2>5. ASSUME NEW b \in Books, book'[b] # HalfWritten PROVE Exact(b, book[b])'
    <3>1. Exact(b, book[b])
      BY <2>1, <2>5 DEF Alone
    <3> QED  BY <1>3, <3>1 DEF Exact
  <2>6. ASSUME NEW j \in Clerks, clerk'[j].copy # Nobody PROVE Exact(NextEntry(j).book, clerk[j].copy)'
    <3>1. CASE j = k
      <4> DEFINE b == Head(r.job).book
      <4>1. r.job # <<>> /\ b \in Books /\ r.copy = Legible(b)
        BY <1>2, <1>5, <2>6, <3>1
      <4>2. book[b] # HalfWritten
        <5> SUFFICES ASSUME book[b] = HalfWritten PROVE FALSE
          OBVIOUS
        <5>1. PICK i \in Clerks : clerk[i].writing
          BY <2>1, <4>1 DEF Alone
        <5>2. i # k /\ OnDuty(i)
          BY <1>1, <5>1 DEF AtWork
        <5> QED  BY <4>1, <5>2
      <4>3. Exact(b, r.copy)
        BY <2>1, <4>1, <4>2 DEF Alone, Legible
      <4> QED  BY <1>2, <1>3, <3>1, <4>3 DEF Exact, NextEntry
    <3>2. CASE j # k
      <4>1. Exact(NextEntry(j).book, clerk[j].copy)
        BY <1>2, <2>1, <2>6, <3>2 DEF Alone
      <4> QED  BY <1>2, <1>3, <3>2, <4>1 DEF Exact, NextEntry
    <3> QED  BY <3>1, <3>2
  <2> QED  BY <2>2, <2>3, <2>4, <2>5, <2>6 DEF Alone
<1> QED  BY <1>4, <1>6, <1>7, <1>8, <1>9, <1>10 DEF FilesInv

LEMMA DutyChanges ==
  ASSUME NEW d \in Duties, NEW job \in Seq(Filed), NEW rows \in CountTables \cup Seq(Whos) \cup {Nobody}
  PROVE  /\ [d EXCEPT !.job = job] = [job |-> job, copy |-> d.copy, writing |-> d.writing]
         /\ [d EXCEPT !.copy = rows] = [job |-> d.job, copy |-> rows, writing |-> d.writing]
<1> DEFINE J == Seq(Filed)
           C == CountTables \cup Seq(Whos) \cup {Nobody}
<1> HIDE DEF J, C
<1>1. d \in [job : J, copy : C, writing : BOOLEAN] /\ job \in J /\ rows \in C
  BY DEF Duties, J, C
<1>2. [d EXCEPT !.job = job] = [job |-> job, copy |-> d.copy, writing |-> d.writing]
  BY <1>1
<1>3. [d EXCEPT !.copy = rows] = [job |-> d.job, copy |-> rows, writing |-> d.writing]
  BY <1>1
<1> QED  BY <1>2, <1>3

LEMMA BeginJobKeeps ==
  ASSUME FilesInv, NEW k \in Clerks, NEW job \in Jobs, BeginJob(k, job)
  PROVE  FilesInv'
<1> DEFINE r == [job |-> job, copy |-> OffDuty.copy, writing |-> OffDuty.writing]
<1>1. /\ clerk[k] = OffDuty /\ UNCHANGED <<book, tally, serial, burnt>>
      /\ serial => \A j \in Clerks : clerk[j] = OffDuty
      /\ \A e \in ToSet(job) : e.do \in Solitary => <<e.who, e.do, FALSE>> \notin DOMAIN tally
      /\ clerk' = [clerk EXCEPT ![k] = [OffDuty EXCEPT !.job = job]]
  BY DEF BeginJob, Solitary
<1>2. job \in Seq(Filed)
  <2>1. job \in Seq(ToSet(job)) /\ ToSet(job) \subseteq Filed
    BY RegistryAssumption DEF Filed
  <2> QED  BY <2>1
<1>7. [OffDuty EXCEPT !.job = job] = r
  <2>1. OffDuty \in Duties /\ ~OffDuty.writing /\ OffDuty.copy = Nobody
    BY DEF OffDuty, Duties
  <2> QED  BY <1>2, <2>1, DutyChanges
<1>8. clerk' = [clerk EXCEPT ![k] = r]
  BY <1>1, <1>7
<1>3. r \in Duties /\ ~r.writing /\ r.copy = Nobody /\ r.job = job
  BY <1>2 DEF Duties, OffDuty
<1>4. Len(job) > 1 => \A e \in ToSet(job) : e.do \notin Solitary
  BY RegistryAssumption DEF Solitary
<1>5. ~clerk[k].writing
  BY <1>1 DEF OffDuty
<1>6. serial => \A j \in Clerks \ {k} : ~OnDuty(j)
  BY <1>1 DEF OnDuty, OffDuty
<1> HIDE DEF r
<1> QED  BY <1>1, <1>3, <1>4, <1>5, <1>6, <1>8, ClerkMoves

LEMMA DutyFacts ==
  ASSUME FilesInv, NEW k \in Clerks, OnDuty(k)
  PROVE  /\ clerk[k] \in Duties /\ clerk[k].job \in Seq(Filed) /\ clerk[k].job # <<>>
         /\ NextEntry(k) = Head(clerk[k].job) /\ NextEntry(k) \in Filed /\ NextEntry(k) \in ToSet(clerk[k].job)
         /\ Tail(clerk[k].job) \in Seq(Filed) /\ ToSet(Tail(clerk[k].job)) \subseteq ToSet(clerk[k].job)
         /\ Len(Tail(clerk[k].job)) > 1 => \A e \in ToSet(Tail(clerk[k].job)) : e.do \notin Solitary
         /\ serial /\ ~burnt =>
              /\ \A j \in Clerks \ {k} : ~OnDuty(j)
              /\ \A e \in ToSet(clerk[k].job) : e.do \in Solitary => <<e.who, e.do, FALSE>> \notin DOMAIN tally
<1>1. clerk[k] \in Duties /\ clerk[k].job \in Seq(Filed) /\ clerk[k].job # <<>> /\ AtWork(k)
  BY DEF FilesInv, BookTypes, Duties, OnDuty
<1> DEFINE job == clerk[k].job
<1>2. NextEntry(k) = Head(job)
  BY DEF NextEntry
<1>3. Len(job) > 1 => \A e \in ToSet(job) : e.do \notin Solitary
  BY <1>1 DEF AtWork
<1>4. serial /\ ~burnt =>
        /\ \A j \in Clerks \ {k} : ~OnDuty(j)
        /\ \A e \in ToSet(job) : e.do \in Solitary => <<e.who, e.do, FALSE>> \notin DOMAIN tally
  BY DEF FilesInv, Alone
<1> HIDE DEF job
<1>5. /\ Head(job) \in Filed /\ Head(job) \in ToSet(job) /\ Tail(job) \in Seq(Filed)
      /\ ToSet(Tail(job)) \subseteq ToSet(job) /\ Len(job) \in Nat /\ Len(Tail(job)) = Len(job) - 1
  BY <1>1, JobFacts DEF job
<1>6. Len(Tail(job)) > 1 => \A e \in ToSet(Tail(job)) : e.do \notin Solitary
  BY <1>3, <1>5
<1> QED  BY <1>1, <1>2, <1>4, <1>5, <1>6 DEF job

LEMMA LookUpKeeps ==
  ASSUME FilesInv, NEW k \in Clerks, LookUp(k)
  PROVE  FilesInv'
<1> DEFINE rest == IF IsPartner(Legible("partners"), NextEntry(k).who) THEN Tail(clerk[k].job) ELSE <<>>
           r == [job |-> rest, copy |-> clerk[k].copy, writing |-> clerk[k].writing]
<1>1. OnDuty(k) /\ NextEntry(k).do = "authenticate" /\ UNCHANGED <<book, tally, serial, burnt>>
  BY DEF LookUp
<1>2. clerk[k].copy = Nobody /\ ~clerk[k].writing
  BY <1>1 DEF FilesInv, AtWork
<1>3. /\ rest \in Seq(Filed) /\ ToSet(rest) \subseteq ToSet(clerk[k].job)
      /\ Len(rest) > 1 => \A e \in ToSet(rest) : e.do \notin Solitary
  <2>1. CASE IsPartner(Legible("partners"), NextEntry(k).who)
    <3>1. rest = Tail(clerk[k].job)
      BY <2>1
    <3> QED  BY <1>1, <3>1, DutyFacts
  <2>2. CASE ~IsPartner(Legible("partners"), NextEntry(k).who)
    <3>1. rest = <<>> /\ <<>> \in Seq(Filed)
      BY <2>2
    <3> QED  BY <3>1, Blank
  <2> QED  BY <2>1, <2>2
<1>4. clerk' = [clerk EXCEPT ![k] = r]
  <2>1. clerk' = [clerk EXCEPT ![k] = [clerk[k] EXCEPT !.job = rest]]
    BY DEF LookUp
  <2>2. clerk[k] \in Duties
    BY <1>1, DutyFacts
  <2> HIDE DEF rest
  <2>3. [clerk[k] EXCEPT !.job = rest] = r
    BY <1>2, <1>3, <2>2, DutyChanges
  <2> QED  BY <2>1, <2>3
<1> HIDE DEF rest
<1>5. r \in Duties /\ ~r.writing /\ r.copy = Nobody /\ r.job = rest
  BY <1>1, <1>2, <1>3, DutyFacts DEF Duties
<1>6. serial /\ ~burnt =>
        /\ \A j \in Clerks \ {k} : ~OnDuty(j)
        /\ \A e \in ToSet(rest) : e.do \in Solitary => <<e.who, e.do, FALSE>> \notin DOMAIN tally
  BY <1>1, <1>3, DutyFacts
<1> HIDE DEF r
<1> QED  BY <1>1, <1>2, <1>3, <1>4, <1>5, <1>6, ClerkMoves

LEMMA ReadBookKeeps ==
  ASSUME FilesInv, NEW k \in Clerks, ReadBook(k)
  PROVE  FilesInv'
<1> DEFINE e == NextEntry(k)
           rows == Legible(e.book)
<1>1. /\ OnDuty(k) /\ e.do # "authenticate" /\ clerk[k].copy = Nobody /\ UNCHANGED <<book, tally, serial, burnt>>
      /\ clerk' = IF e.do = "guard" /\ ~IsPartner(rows, e.who) THEN [clerk EXCEPT ![k].job = Tail(@)]
                                                               ELSE [clerk EXCEPT ![k].copy = rows]
  BY DEF ReadBook
<1>2. ~clerk[k].writing
  BY <1>1 DEF FilesInv, AtWork
<1>3. clerk[k] \in Duties /\ clerk[k].job # <<>> /\ e = Head(clerk[k].job) /\ e.book \in Books
  BY <1>1, DutyFacts, FiledEntries
<1>4. rows \in Contents(e.book) /\ rows # Nobody
  BY <1>3, LegibleFacts
<1> HIDE DEF e, rows
<1>5. CASE e.do = "guard" /\ ~IsPartner(rows, e.who)
  <2> DEFINE rest == Tail(clerk[k].job)
             r == [job |-> rest, copy |-> clerk[k].copy, writing |-> clerk[k].writing]
  <2>1. /\ rest \in Seq(Filed) /\ ToSet(rest) \subseteq ToSet(clerk[k].job)
        /\ Len(rest) > 1 => \A d \in ToSet(rest) : d.do \notin Solitary
    BY <1>1, DutyFacts
  <2>2. clerk' = [clerk EXCEPT ![k] = [clerk[k] EXCEPT !.job = rest]]
    BY <1>1, <1>5
  <2> HIDE DEF rest
  <2>3. [clerk[k] EXCEPT !.job = rest] = r
    BY <1>1, <1>2, <1>3, <2>1, DutyChanges
  <2>4. clerk' = [clerk EXCEPT ![k] = r]
    BY <2>2, <2>3
  <2>5. r \in Duties /\ ~r.writing /\ r.copy = Nobody /\ r.job = rest
    BY <1>1, <1>2, <1>3, <2>1 DEF Duties
  <2>6. serial /\ ~burnt =>
          /\ \A j \in Clerks \ {k} : ~OnDuty(j)
          /\ \A d \in ToSet(rest) : d.do \in Solitary => <<d.who, d.do, FALSE>> \notin DOMAIN tally
    BY <1>1, <2>1, DutyFacts
  <2> HIDE DEF r
  <2> QED  BY <1>1, <1>2, <2>1, <2>4, <2>5, <2>6, ClerkMoves
<1>6. CASE ~(e.do = "guard" /\ ~IsPartner(rows, e.who))
  <2> DEFINE r == [job |-> clerk[k].job, copy |-> rows, writing |-> clerk[k].writing]
  <2>1. clerk' = [clerk EXCEPT ![k] = [clerk[k] EXCEPT !.copy = rows]]
    BY <1>1, <1>6
  <2>2. [clerk[k] EXCEPT !.copy = rows] = r
    <3>1. rows \in CountTables \cup Seq(Whos) \cup {Nobody}
      BY <1>4 DEF Contents
    <3>2. clerk[k] \in Duties /\ clerk[k].job \in Seq(Filed)
      BY <1>3 DEF Duties
    <3> DEFINE d == clerk[k]
    <3>3. [d EXCEPT !.copy = rows] = [job |-> d.job, copy |-> rows, writing |-> d.writing]
      BY <3>1, <3>2, DutyChanges
    <3> QED  BY <3>3
  <2>3. clerk' = [clerk EXCEPT ![k] = r]
    BY <2>1, <2>2
  <2>4. r \in Duties /\ ~r.writing /\ r.copy = rows /\ r.job = clerk[k].job
    BY <1>2, <1>3, <1>4 DEF Duties, Contents
  <2>5. Len(r.job) > 1 => \A d \in ToSet(r.job) : d.do \notin Solitary
    BY <2>4 DEF FilesInv, AtWork
  <2>6. serial /\ ~burnt =>
          /\ \A j \in Clerks \ {k} : ~OnDuty(j)
          /\ \A d \in ToSet(r.job) : d.do \in Solitary => <<d.who, d.do, FALSE>> \notin DOMAIN tally
    BY <1>1, <2>4, DutyFacts
  <2>7. /\ r.job # <<>> /\ Head(r.job).do # "authenticate" /\ r.copy = Legible(Head(r.job).book)
        /\ Head(r.job).do = "guard" => IsPartner(r.copy, Head(r.job).who)
    BY <1>1, <1>3, <1>6, <2>4 DEF rows
  <2> HIDE DEF r
  <2> QED  BY <1>1, <1>2, <2>3, <2>4, <2>5, <2>6, <2>7, ClerkMoves
<1> QED  BY <1>5, <1>6

LEMMA BeginWriteKeeps ==
  ASSUME FilesInv, NEW k \in Clerks, BeginWrite(k)
  PROVE  FilesInv'
<1> DEFINE b == NextEntry(k).book
<1>1. /\ OnDuty(k) /\ clerk[k].copy # Nobody /\ ~clerk[k].writing /\ UNCHANGED <<serial, tally, burnt>>
      /\ book' = [book EXCEPT ![b] = HalfWritten] /\ clerk' = [clerk EXCEPT ![k].writing = TRUE]
  BY DEF BeginWrite
<1>2. /\ BookTypes /\ clerk \in [Clerks -> Duties] /\ (\A j \in Clerks : AtWork(j)) /\ b \in Books
      /\ \A c \in Books : book[c] # HalfWritten => Warranted(c, book[c])
      /\ \A j \in Clerks : clerk[j].copy # Nobody => Warranted(NextEntry(j).book, clerk[j].copy)
      /\ \A t \in DOMAIN tally : t[2] = "guard" => Created(t[1])
  BY <1>1, DutyFacts, FiledEntries DEF FilesInv, BookTypes, Duties
<1>3. /\ clerk' \in [Clerks -> Duties] /\ \A j \in Clerks \ {k} : clerk'[j] = clerk[j]
      /\ clerk'[k].job = clerk[k].job /\ clerk'[k].copy = clerk[k].copy /\ clerk'[k].writing = TRUE
  BY <1>1, <1>2 DEF Duties
<1>4. \A j \in Clerks : clerk'[j].job = clerk[j].job /\ clerk'[j].copy = clerk[j].copy /\ NextEntry(j)' = NextEntry(j)
                        /\ (OnDuty(j)' <=> OnDuty(j))
  BY <1>3 DEF NextEntry, OnDuty
<1> HIDE DEF b
<1>5. /\ book \in [Books -> CountTables \cup Seq(Whos) \cup {HalfWritten}]
      /\ \A c \in Books : book[c] \in Contents(c) \cup {HalfWritten}
  BY <1>2 DEF BookTypes
<1>6. /\ book' \in [Books -> CountTables \cup Seq(Whos) \cup {HalfWritten}]
      /\ book'[b] = HalfWritten /\ \A c \in Books \ {b} : book'[c] = book[c]
  BY <1>1, <1>2, <1>5
<1>7. Issued' = Issued /\ Observed' = Observed /\ (\A x : Due(x)' = Due(x)) /\ (\A p : Created(p)' = Created(p))
  BY <1>1, TallyStands
<1>8. BookTypes'
  BY <1>1, <1>2, <1>3, <1>5, <1>6 DEF BookTypes, Duties
<1>9. ASSUME NEW j \in Clerks PROVE AtWork(j)'
  <2>1. AtWork(j) /\ (clerk'[j].writing => clerk'[j].copy # Nobody)
    BY <1>1, <1>2, <1>3 DEF AtWork
  <2> QED  BY <1>4, <2>1 DEF AtWork
<1>10. ASSUME NEW c \in Books, book'[c] # HalfWritten PROVE Warranted(c, book[c])'
  <2>1. c # b /\ book'[c] = book[c]
    BY <1>6, <1>10
  <2> QED  BY <1>2, <1>7, <1>10, <2>1 DEF Warranted
<1>11. ASSUME NEW j \in Clerks, clerk'[j].copy # Nobody PROVE Warranted(NextEntry(j).book, clerk[j].copy)'
  BY <1>2, <1>4, <1>7, <1>11 DEF Warranted
<1>12. (\A t \in DOMAIN tally : t[2] = "guard" => Created(t[1]))'
  BY <1>1, <1>2, <1>7
<1>13. serial' /\ ~burnt' => Alone'
  <2> SUFFICES ASSUME serial, ~burnt PROVE Alone'
    BY <1>1
  <2>1. Alone
    BY DEF FilesInv
  <2>2. ASSUME NEW i \in Clerks, NEW j \in Clerks, OnDuty(i)', OnDuty(j)' PROVE i = j
    BY <1>4, <2>1, <2>2 DEF Alone
  <2>3. ASSUME NEW j \in Clerks, NEW e \in ToSet(clerk'[j].job), e.do \in Solitary PROVE <<e.who, e.do, FALSE>> \notin DOMAIN tally'
    BY <1>1, <1>4, <2>1, <2>3 DEF Alone
  <2>4. ASSUME NEW c \in Books, book'[c] = HalfWritten PROVE \E j \in Clerks : clerk'[j].writing /\ NextEntry(j)'.book = c
    <3>1. CASE c = b
      BY <1>3, <1>4, <3>1 DEF b
    <3>2. CASE c # b
      <4>1. PICK j \in Clerks : clerk[j].writing /\ NextEntry(j).book = c
        BY <1>6, <2>1, <2>4, <3>2 DEF Alone
      <4>2. j # k
        BY <1>1, <4>1
      <4> QED  BY <1>3, <1>4, <4>1, <4>2
    <3> QED  BY <3>1, <3>2
  <2>5. ASSUME NEW c \in Books, book'[c] # HalfWritten PROVE Exact(c, book[c])'
    <3>1. c # b /\ book'[c] = book[c]
      BY <1>6, <2>5
    <3>2. Exact(c, book[c])
      BY <2>1, <2>5, <3>1 DEF Alone
    <3> QED  BY <1>7, <3>1, <3>2 DEF Exact
  <2>6. ASSUME NEW j \in Clerks, clerk'[j].copy # Nobody PROVE Exact(NextEntry(j).book, clerk[j].copy)'
    <3>1. Exact(NextEntry(j).book, clerk[j].copy)
      BY <1>4, <2>1, <2>6 DEF Alone
    <3> QED  BY <1>4, <1>7, <3>1 DEF Exact
  <2> QED  BY <2>2, <2>3, <2>4, <2>5, <2>6 DEF Alone
<1> QED  BY <1>8, <1>9, <1>10, <1>11, <1>12, <1>13 DEF FilesInv

LEMMA EndWriteKeeps ==
  ASSUME FilesInv, NEW k \in Clerks, EndWrite(k)
  PROVE  FilesInv'
<1> DEFINE e == NextEntry(k)
           rows == clerk[k].copy
           new == Entered(rows, e)
           rest == Tail(clerk[k].job)
<1>1. /\ clerk[k].writing /\ UNCHANGED <<serial, burnt>> /\ book' = [book EXCEPT ![e.book] = new]
      /\ tally' = PlusOne(tally, Mark(e)) /\ clerk' = [clerk EXCEPT ![k] = [OffDuty EXCEPT !.job = rest]]
  BY DEF EndWrite, Mark
<1>2. /\ BookTypes /\ clerk \in [Clerks -> Duties] /\ (\A j \in Clerks : AtWork(j))
      /\ \A c \in Books : book[c] # HalfWritten => Warranted(c, book[c])
      /\ \A j \in Clerks : clerk[j].copy # Nobody => Warranted(NextEntry(j).book, clerk[j].copy)
      /\ \A t \in DOMAIN tally : t[2] = "guard" => Created(t[1])
  BY DEF FilesInv, BookTypes, Duties
<1>3. /\ OnDuty(k) /\ rows # Nobody /\ e.do # "authenticate" /\ rows \in Contents(e.book)
      /\ e.do = "guard" => IsPartner(rows, e.who)
  BY <1>1, <1>2 DEF AtWork
<1>4. e \in Filed /\ e.book \in Books
  BY <1>3, DutyFacts, FiledEntries
<1>5. /\ rest \in Seq(Filed) /\ ToSet(rest) \subseteq ToSet(clerk[k].job) /\ e \in ToSet(clerk[k].job)
      /\ Len(rest) > 1 => \A d \in ToSet(rest) : d.do \notin Solitary
  BY <1>3, DutyFacts
<1>6. Warranted(e.book, rows)
  BY <1>2, <1>3
<1>7. new \in Contents(e.book)
  BY <1>3, <1>4, EnteredKeepsType
<1>8. /\ e.book = "attestations" => ToSet(new) \subseteq Issued'
      /\ e.book # "attestations" =>
           \A x \in DOMAIN new : new[x] <= Due(x)' /\ (e.book = "partners" => Created(x[1])')
  BY <1>1, <1>2, <1>3, <1>4, <1>6, EntryWarranted
<1> HIDE DEF e, new, rest
<1>9. clerk' \in [Clerks -> Duties] /\ clerk'[k].job = rest /\ clerk'[k].copy = Nobody /\ ~clerk'[k].writing
      /\ \A j \in Clerks \ {k} : clerk'[j] = clerk[j]
  <2> DEFINE r == [job |-> rest, copy |-> OffDuty.copy, writing |-> OffDuty.writing]
  <2>1. [OffDuty EXCEPT !.job = rest] = r
    <3>1. OffDuty \in Duties
      BY DEF OffDuty, Duties
    <3> QED  BY <1>5, <3>1, DutyChanges
  <2>2. r \in Duties /\ r.job = rest /\ r.copy = Nobody /\ ~r.writing
    BY <1>5 DEF OffDuty, Duties
  <2> HIDE DEF r
  <2> QED  BY <1>1, <1>2, <2>1, <2>2
<1>10. /\ book \in [Books -> CountTables \cup Seq(Whos) \cup {HalfWritten}]
       /\ \A c \in Books : book[c] \in Contents(c) \cup {HalfWritten}
  BY <1>2 DEF BookTypes
<1>11. new \in CountTables \cup Seq(Whos) /\ new # HalfWritten
  <2>1. HalfWritten \notin CountTables /\ HalfWritten \notin Seq(Whos)
    <3>1. {HalfWritten, Nobody} \cap Seq(Whos) = {} /\ \A D \in SUBSET CountKeys : {HalfWritten, Nobody} \cap [D -> Nat] = {}
      BY RegistryAssumption
    <3> QED  BY <3>1 DEF CountTables
  <2> QED  BY <1>7, <2>1 DEF Contents
<1>12. /\ book' \in [Books -> CountTables \cup Seq(Whos) \cup {HalfWritten}]
       /\ book'[e.book] = new /\ \A c \in Books \ {e.book} : book'[c] = book[c]
  BY <1>1, <1>4, <1>10, <1>11
<1>13. /\ DOMAIN tally' = DOMAIN tally \cup {Mark(e)} /\ DOMAIN tally' \subseteq Marks
       /\ IsFiniteSet(DOMAIN tally') /\ tally' \in [DOMAIN tally' -> Nat]
  BY <1>1, <1>2, <1>4, TallyGrows
<1>14. BookTypes'
  <2>1. \A c \in Books : book'[c] \in Contents(c) \cup {HalfWritten}
    BY <1>7, <1>10, <1>12
  <2>2. serial' \in BOOLEAN /\ burnt' \in BOOLEAN
    BY <1>1, <1>2 DEF BookTypes
  <2> QED  BY <1>9, <1>12, <1>13, <2>1, <2>2 DEF BookTypes, Duties, Contents
<1>15. ASSUME NEW j \in Clerks PROVE AtWork(j)'
  <2>1. CASE j = k
    BY <1>5, <1>9, <2>1 DEF AtWork
  <2>2. CASE j # k
    BY <1>2, <1>9, <2>2 DEF AtWork, OnDuty, NextEntry
  <2> QED  BY <2>1, <2>2
<1>16. ASSUME NEW c \in Books, book'[c] # HalfWritten PROVE Warranted(c, book[c])'
  <2>1. CASE c = e.book
    BY <1>8, <1>12, <2>1 DEF Warranted
  <2>2. CASE c # e.book
    <3>1. book'[c] = book[c] /\ book[c] \in Contents(c) /\ Warranted(c, book[c])
      BY <1>2, <1>10, <1>12, <1>16, <2>2
    <3> DEFINE old == book[c]
    <3>2. /\ c = "attestations" => ToSet(old) \subseteq Issued'
          /\ c # "attestations" => \A x \in DOMAIN old : old[x] <= Due(x)' /\ (c = "partners" => Created(x[1])')
      BY <1>1, <1>2, <1>4, <3>1, StillWarranted
    <3> QED  BY <3>1, <3>2 DEF Warranted
  <2> QED  BY <2>1, <2>2
<1>17. ASSUME NEW j \in Clerks, clerk'[j].copy # Nobody PROVE Warranted(NextEntry(j).book, clerk[j].copy)'
  <2>1. j # k /\ clerk'[j] = clerk[j]
    BY <1>9, <1>17
  <2> DEFINE c == NextEntry(j).book
             old == clerk[j].copy
  <2>2. OnDuty(j) /\ old \in Contents(c) /\ Warranted(c, old)
    BY <1>2, <1>17, <2>1 DEF AtWork
  <2>3. c \in Books
    BY <2>2, DutyFacts, FiledEntries
  <2>4. /\ c = "attestations" => ToSet(old) \subseteq Issued'
        /\ c # "attestations" => \A x \in DOMAIN old : old[x] <= Due(x)' /\ (c = "partners" => Created(x[1])')
    BY <1>1, <1>2, <1>4, <2>2, <2>3, StillWarranted
  <2> QED  BY <2>1, <2>4 DEF Warranted, NextEntry
<1>18. (\A t \in DOMAIN tally : t[2] = "guard" => Created(t[1]))'
  <2>1. \A p : Created(p) => Created(p)'
    BY <1>1, <1>2, <1>4, IssuedGrows
  <2>2. e.do = "guard" => Created(e.who)
    <3> SUFFICES ASSUME e.do = "guard" PROVE Created(e.who)
      OBVIOUS
    <3>1. e.book = "partners" /\ <<e.who, "calls">> \in DOMAIN rows
      BY <1>3, <1>4, FiledEntries, WeightNames DEF IsPartner
    <3>2. <<e.who, "calls">>[1] = e.who
      OBVIOUS
    <3> QED  BY <1>6, <3>1, <3>2 DEF Warranted
  <2>3. Mark(e)[1] = e.who /\ Mark(e)[2] = e.do
    BY DEF Mark
  <2>4. \A t \in DOMAIN tally' : t[2] = "guard" => Created(t[1])
    BY <1>2, <1>13, <2>2, <2>3
  <2> QED  BY <2>1, <2>4
<1>19. serial' /\ ~burnt' => Alone'
  <2> SUFFICES ASSUME serial, ~burnt PROVE Alone'
    BY <1>1
  <2>1. Alone
    BY DEF FilesInv
  <2>2. \A j \in Clerks \ {k} : ~OnDuty(j) /\ ~OnDuty(j)'
    BY <1>3, <1>9, DutyFacts DEF OnDuty
  <2>3. ASSUME NEW j \in Clerks, NEW d \in ToSet(clerk'[j].job), d.do \in Solitary PROVE <<d.who, d.do, FALSE>> \notin DOMAIN tally'
    <3>1. CASE j = k
      <4>1. d \in ToSet(rest)
        BY <1>9, <2>3, <3>1
      <4>2. <<d.who, d.do, FALSE>> \notin DOMAIN tally
        BY <1>5, <2>1, <2>3, <4>1 DEF Alone
      <4>3. e.do \notin Solitary
        <5>1. clerk[k].job \in Seq(Filed) /\ clerk[k].job # <<>>
          BY <1>3, DutyFacts
        <5>2. Len(clerk[k].job) > 1
          <6>1. rest # <<>>
            BY <4>1, Blank
          <6>2. Len(rest) \in Nat \ {0}
            BY <1>5, <6>1
          <6> DEFINE n == Len(clerk[k].job)
                     m == Len(rest)
          <6>3. n \in Nat /\ m = n - 1
            BY <5>1, JobFacts DEF rest
          <6>4. m \in Nat /\ m # 0
            BY <6>2
          <6> HIDE DEF n, m
          <6>5. n > 1
            BY <6>3, <6>4
          <6> QED  BY <6>5 DEF n
        <5> QED  BY <1>2, <1>5, <5>2 DEF AtWork
      <4>4. <<d.who, d.do, FALSE>> # Mark(e)
        BY <2>3, <4>3 DEF Mark
      <4> QED  BY <1>13, <4>2, <4>4
    <3>2. CASE j # k
      <4>1. clerk'[j].job = <<>>
        BY <2>2, <3>2 DEF OnDuty
      <4> QED  BY <2>3, <4>1, Blank
    <3> QED  BY <3>1, <3>2
  <2>4. ASSUME NEW c \in Books PROVE book'[c] # HalfWritten
    <3>1. CASE c = e.book
      BY <1>11, <1>12, <3>1
    <3>2. CASE c # e.book
      <4> SUFFICES ASSUME book[c] = HalfWritten PROVE FALSE
        BY <1>12, <3>2
      <4>1. PICK j \in Clerks : clerk[j].writing /\ NextEntry(j).book = c
        BY <2>1 DEF Alone
      <4>2. OnDuty(j)
        BY <1>2, <4>1 DEF AtWork
      <4> QED  BY <2>2, <3>2, <4>1, <4>2 DEF e
    <3> QED  BY <3>1, <3>2
  <2>5. Exact(e.book, rows) /\ (e.do \in Solitary => <<e.who, e.do, FALSE>> \notin DOMAIN tally)
    BY <1>3, <1>5, <2>1 DEF Alone, e
  <2>6. /\ e.book = "reputation" => new = Observed'
        /\ e.book = "partners" => \A x \in DOMAIN new :
             /\ new[x] = Due(x)' /\ x[2] \in {"calls", "blocked"}
             /\ {<<x[1], "calls">>, <<x[1], "blocked">>} \subseteq DOMAIN new
        /\ e.book = "attestations" =>
             Len(new) = IF Cardinality(Issued') > KeepRows THEN KeepRows ELSE Cardinality(Issued')
    BY <1>1, <1>2, <1>3, <1>4, <1>6, <2>5, EntryExact DEF new
  <2>7. ASSUME NEW c \in Books PROVE Exact(c, book[c])'
    <3>1. CASE c = e.book
      BY <1>12, <2>6, <3>1 DEF Exact, Books
    <3>2. CASE c # e.book
      <4> DEFINE old == book[c]
      <4>1. book'[c] = old /\ old # HalfWritten
        BY <1>12, <2>4, <3>2
      <4>2. old \in Contents(c) /\ Exact(c, old)
        BY <1>10, <2>1, <4>1 DEF Alone
      <4>3. /\ c = "reputation" => old = Observed'
            /\ c = "partners" => \A x \in DOMAIN old :
                 /\ old[x] = Due(x)' /\ x[2] \in {"calls", "blocked"}
                 /\ {<<x[1], "calls">>, <<x[1], "blocked">>} \subseteq DOMAIN old
            /\ c = "attestations" =>
                 Len(old) = IF Cardinality(Issued') > KeepRows THEN KeepRows ELSE Cardinality(Issued')
        BY <1>1, <1>2, <1>4, <3>2, <4>2, OthersExact
      <4> QED  BY <4>1, <4>3 DEF Exact, Books
    <3> QED  BY <3>1, <3>2
  <2>8. ASSUME NEW j \in Clerks PROVE clerk'[j].copy = Nobody
    <3>1. CASE j = k
      BY <1>9, <3>1
    <3>2. CASE j # k
      <4>1. clerk'[j] = clerk[j] /\ ~OnDuty(j)
        BY <1>9, <2>2, <3>2
      <4> QED  BY <1>2, <4>1 DEF AtWork
    <3> QED  BY <3>1, <3>2
  <2>9. \A i, j \in Clerks : OnDuty(i)' /\ OnDuty(j)' => i = j
    BY <2>2
  <2> QED  BY <2>3, <2>4, <2>7, <2>8, <2>9 DEF Alone
<1> QED  BY <1>14, <1>15, <1>16, <1>17, <1>18, <1>19 DEF FilesInv

LEMMA BookCrashKeeps ==
  ASSUME FilesInv, BookCrash
  PROVE  FilesInv'
<1>1. /\ clerk' = [k \in Clerks |-> OffDuty] /\ UNCHANGED <<book, serial, tally>>
      /\ burnt' = (burnt \/ \E b \in Books : book[b] = HalfWritten)
  BY DEF BookCrash
<1>2. Issued' = Issued /\ Observed' = Observed /\ (\A x : Due(x)' = Due(x)) /\ (\A p : Created(p)' = Created(p))
  BY <1>1, TallyStands
<1>3. \A k \in Clerks : clerk'[k].job = <<>> /\ clerk'[k].copy = Nobody /\ clerk'[k].writing = FALSE
  BY <1>1 DEF OffDuty
<1>4. BookTypes'
  <2>1. OffDuty \in Duties
    BY DEF OffDuty, Duties
  <2>2. clerk' \in [Clerks -> Duties]
    BY <1>1, <2>1
  <2>3. burnt' \in BOOLEAN
    BY <1>1
  <2> QED  BY <1>1, <2>2, <2>3 DEF FilesInv, BookTypes, Duties
<1>5. \A k \in Clerks : AtWork(k)'
  BY <1>3, Blank DEF AtWork
<1>6. ASSUME NEW b \in Books, book'[b] # HalfWritten PROVE Warranted(b, book[b])'
  BY <1>1, <1>2, <1>6 DEF FilesInv, Warranted
<1>7. (\A t \in DOMAIN tally : t[2] = "guard" => Created(t[1]))'
  BY <1>1, <1>2 DEF FilesInv
<1>8. serial' /\ ~burnt' => Alone'
  <2> SUFFICES ASSUME serial, ~burnt' PROVE Alone'
    BY <1>1
  <2>1. Alone /\ \A b \in Books : book[b] # HalfWritten
    BY <1>1 DEF FilesInv
  <2>2. ASSUME NEW b \in Books PROVE book'[b] # HalfWritten /\ Exact(b, book[b])'
    <3>1. Exact(b, book[b]) /\ book'[b] = book[b]
      BY <1>1, <2>1 DEF Alone
    <3> QED  BY <1>2, <2>1, <3>1 DEF Exact
  <2>3. \A k \in Clerks : ~OnDuty(k)'
    BY <1>3 DEF OnDuty
  <2>4. \A k \in Clerks : ToSet(clerk'[k].job) = {}
    BY <1>3, Blank
  <2> QED  BY <1>3, <2>2, <2>3, <2>4 DEF Alone
<1> QED  BY <1>3, <1>4, <1>5, <1>6, <1>7, <1>8 DEF FilesInv

LEMMA BooksStand ==
  ASSUME FilesInv, UNCHANGED bookVars
  PROVE  FilesInv'
<1>1. UNCHANGED <<book, clerk, serial, tally, burnt>>
  BY DEF bookVars
<1>2. Issued' = Issued /\ Observed' = Observed /\ (\A x : Due(x)' = Due(x)) /\ (\A p : Created(p)' = Created(p))
  BY <1>1, TallyStands
<1>3. \A k \in Clerks : NextEntry(k)' = NextEntry(k) /\ (OnDuty(k)' <=> OnDuty(k))
  BY <1>1 DEF NextEntry, OnDuty
<1>4. BookTypes' /\ \A k \in Clerks : AtWork(k)'
  BY <1>1, <1>3 DEF FilesInv, BookTypes, AtWork
<1>5. ASSUME NEW b \in Books, book'[b] # HalfWritten PROVE Warranted(b, book[b])'
  BY <1>1, <1>2, <1>5 DEF FilesInv, Warranted
<1>6. ASSUME NEW k \in Clerks, clerk'[k].copy # Nobody PROVE Warranted(NextEntry(k).book, clerk[k].copy)'
  <2>1. Warranted(NextEntry(k).book, clerk[k].copy)
    BY <1>1, <1>6 DEF FilesInv
  <2> QED  BY <1>1, <1>2, <1>3, <2>1 DEF Warranted
<1>7. (\A t \in DOMAIN tally : t[2] = "guard" => Created(t[1]))'
  BY <1>1, <1>2 DEF FilesInv
<1>8. serial' /\ ~burnt' => Alone'
  <2> SUFFICES ASSUME serial, ~burnt PROVE Alone'
    BY <1>1
  <2>1. Alone
    BY DEF FilesInv
  <2>2. ASSUME NEW b \in Books, book'[b] # HalfWritten PROVE Exact(b, book[b])'
    <3>1. Exact(b, book[b]) /\ book'[b] = book[b]
      BY <1>1, <2>1, <2>2 DEF Alone
    <3> QED  BY <1>2, <3>1 DEF Exact
  <2>3. ASSUME NEW b \in Books, book'[b] = HalfWritten PROVE \E k \in Clerks : clerk'[k].writing /\ NextEntry(k)'.book = b
    BY <1>1, <1>3, <2>1, <2>3 DEF Alone
  <2>4. ASSUME NEW k \in Clerks, clerk'[k].copy # Nobody PROVE Exact(NextEntry(k).book, clerk[k].copy)'
    <3>1. Exact(NextEntry(k).book, clerk[k].copy)
      BY <1>1, <2>1, <2>4 DEF Alone
    <3> QED  BY <1>1, <1>2, <1>3, <3>1 DEF Exact
  <2>5. \A j, k \in Clerks : OnDuty(j)' /\ OnDuty(k)' => j = k
    BY <1>3, <2>1 DEF Alone
  <2>6. \A k \in Clerks : \A e \in ToSet(clerk'[k].job) : e.do \in Solitary => <<e.who, e.do, FALSE>> \notin DOMAIN tally'
    BY <1>1, <2>1 DEF Alone
  <2> QED  BY <2>2, <2>3, <2>4, <2>5, <2>6 DEF Alone
<1> QED  BY <1>4, <1>5, <1>6, <1>7, <1>8 DEF FilesInv

LEMMA BooksStart == RegistryInit => FilesInv
<1> SUFFICES ASSUME RegistryInit PROVE FilesInv
  OBVIOUS
<1>1. /\ book = EmptyBooks /\ clerk = [k \in Clerks |-> OffDuty] /\ serial \in BOOLEAN /\ tally = <<>> /\ burnt = FALSE
  BY DEF RegistryInit
<1>2. book \in [Books -> {<<>>}]
  BY <1>1 DEF EmptyBooks, Books
<1>3. \A k \in Clerks : clerk[k].job = <<>> /\ clerk[k].copy = Nobody /\ clerk[k].writing = FALSE
  BY <1>1 DEF OffDuty
<1>4. DOMAIN tally = {} /\ tally \in [DOMAIN tally -> Nat] /\ IsFiniteSet(DOMAIN tally)
  BY <1>1, Blank, FS_EmptySet
<1>5. BookTypes
  <2>1. OffDuty \in Duties
    BY DEF OffDuty, Duties
  <2>2. clerk \in [Clerks -> Duties]
    BY <1>1, <2>1
  <2>3. book \in [Books -> CountTables \cup Seq(Whos) \cup {HalfWritten}] /\ \A b \in Books : book[b] \in Contents(b) \cup {HalfWritten}
    BY <1>2, Blank DEF Contents
  <2> QED  BY <1>1, <1>4, <2>2, <2>3 DEF BookTypes, Duties
<1>6. \A k \in Clerks : AtWork(k)
  BY <1>3, Blank DEF AtWork
<1>7. \A b \in Books : Warranted(b, book[b]) /\ book[b] = <<>>
  BY <1>2, Blank DEF Warranted
<1>8. \A t \in DOMAIN tally : t[2] = "guard" => Created(t[1])
  BY <1>4
<1>9. Alone
  <2>1. \A k \in Clerks : ~OnDuty(k) /\ ToSet(clerk[k].job) = {}
    BY <1>3, Blank DEF OnDuty
  <2>2. \A b \in Books : book[b] # HalfWritten
    <3>1. HalfWritten \notin Seq(Whos)
      BY RegistryAssumption
    <3> QED  BY <1>7, <3>1, Blank
  <2>3. Issued = {} /\ Observed = <<>>
    <3>1. Issued = {}
      BY <1>4 DEF Issued
    <3> DEFINE S == {<<y[1], y[2]>> : y \in {z \in DOMAIN tally : z[2] \in DOMAIN Weights}}
    <3>2. S = {} /\ Observed = [x \in S |-> Written(x[1], x[2])]
      BY <1>4 DEF Observed
    <3> HIDE DEF S
    <3>3. DOMAIN Observed = {} /\ Observed = [x \in DOMAIN Observed |-> Observed[x]]
      BY <3>2
    <3>4. <<>> \in [{} -> Nat]
      BY Blank
    <3> QED  BY <3>1, <3>3, <3>4
  <2>4. Cardinality(Issued) = 0 /\ KeepRows \in Nat
    BY <2>3, FS_EmptySet, RegistryAssumption
  <2>5. \A b \in Books : Exact(b, book[b])
    <3> SUFFICES ASSUME NEW b \in Books PROVE Exact(b, <<>>)
      BY <1>7
    <3>1. CASE b = "reputation"
      BY <2>3, <3>1 DEF Exact
    <3>2. CASE b = "partners"
      BY <3>2, Blank DEF Exact
    <3>3. CASE b = "attestations"
      BY <2>4, <3>3, Blank DEF Exact
    <3> QED  BY <3>1, <3>2, <3>3 DEF Books
  <2> QED  BY <1>3, <2>1, <2>2, <2>5 DEF Alone
<1> QED  BY <1>3, <1>5, <1>6, <1>7, <1>8, <1>9 DEF FilesInv

LEMMA FilesInvTells == FilesInv => BooksKept
<1> SUFFICES ASSUME FilesInv PROVE BooksKept
  OBVIOUS
<1>1. \A b \in Books : Warranted(b, Legible(b))
  BY LegibleFacts
<1>2. \A b \in {"reputation", "partners"} : \A x \in DOMAIN Legible(b) : Legible(b)[x] <= Due(x)
  BY <1>1 DEF Warranted, Books
<1>3. ToSet(Legible("attestations")) \subseteq Issued
  BY <1>1 DEF Warranted, Books
<1>4. ASSUME serial, ~burnt
      PROVE  /\ book["partners"] # HalfWritten => \A x \in DOMAIN book["partners"] : book["partners"][x] = Due(x)
             /\ book["reputation"] # HalfWritten => book["reputation"] = Observed
             /\ book["attestations"] # HalfWritten =>
                  Len(book["attestations"]) = IF Cardinality(Issued) > KeepRows THEN KeepRows ELSE Cardinality(Issued)
  <2>1. \A b \in Books : book[b] # HalfWritten => Exact(b, book[b])
    BY <1>4 DEF FilesInv, Alone
  <2> QED  BY <2>1 DEF Exact, Books
<1>5. serial /\ ~burnt /\ book["reputation"] # HalfWritten =>
        \A who \in {x[1] : x \in DOMAIN Observed} : NetworkTier(book["reputation"], who) = NetworkTier(Observed, who)
  BY <1>4
<1> QED  BY <1>2, <1>3, <1>4, <1>5 DEF BooksKept

(* A call on a subscription goes through the rows of the legacy file, an   *)
(* entry into a book through a copy of the file, whoever else is at it     *)
(* (webhooks.ts, trust-events.ts, reputation-network.ts,                   *)
(* partner-registry.ts, attestation.ts): callers are kept what they were   *)
(* told, and no book tells of more than was written to it.                 *)
THEOREM RegistersAreKept == RegistrySpec => []RegistersKept
<1>1. RegistryInit => HooksInv /\ FilesInv
  BY HooksStart, BooksStart
<1>2. HooksInv /\ FilesInv /\ [RegistryNext]_registryVars => HooksInv' /\ FilesInv'
  <2> SUFFICES ASSUME HooksInv, FilesInv, [RegistryNext]_registryVars PROVE HooksInv' /\ FilesInv'
    OBVIOUS
  <2>1. CASE HookNext
    <3>1. UNCHANGED bookVars
      BY <2>1 DEF HookNext, AskHooks, HearLegacy, MigrationCut, RegisterTrust, DeactivateTrust
    <3>2. HooksInv'
      BY <2>1, AskHooksKeeps, HearLegacyKeeps, MigrationCutKeeps, TrustHookKeeps DEF HookNext
    <3> QED  BY <3>1, <3>2, BooksStand
  <2>2. CASE BookNext
    <3>1. UNCHANGED hookVars
      BY <2>2 DEF BookNext, BeginJob, LookUp, ReadBook, BeginWrite, EndWrite, BookCrash
    <3>2. FilesInv'
      BY <2>2, BeginJobKeeps, LookUpKeeps, ReadBookKeeps, BeginWriteKeeps, EndWriteKeeps, BookCrashKeeps DEF BookNext
    <3> QED  BY <3>1, <3>2, HooksStand
  <2>3. CASE UNCHANGED registryVars
    <3>1. UNCHANGED hookVars /\ UNCHANGED bookVars
      BY <2>3 DEF registryVars
    <3> QED  BY <3>1, HooksStand, BooksStand
  <2> QED  BY <2>1, <2>2, <2>3 DEF RegistryNext
<1>3. HooksInv /\ FilesInv => RegistersKept
  BY HooksInvTells, FilesInvTells DEF RegistersKept
<1> QED  BY <1>1, <1>2, <1>3, PTL DEF RegistrySpec
=============================================================================
