-------------------------- MODULE AdmissionProofs --------------------------
(***************************************************************************)
(* Theorems of Admission, for any requests, wallets and bindings, of its   *)
(* limiters (RateLimit), for any limits, clock, keys and restarts, and of  *)
(* MppSession, for any agents, requests, overlapping calls and bounds.     *)
(***************************************************************************)
EXTENDS Admission, MppSession, SumTheorems, FiniteSetTheorems, SequenceTheorems, TLAPS

Statuses == {"claiming", "mismatch", "limited", "blocked", "unpaid", "handled", "died"}
Visit == [at : Statuses, req : Incoming, saw : SUBSET Wallets]

Typed == /\ call \in [Visits -> {Idle} \cup Visit]
         /\ blocklist \subseteq Wallets

AdmissionInv == Typed /\ BindingServesOnce /\ BlockedStaysOut

(* Where a call stands once it has passed the chain.                       *)
Passed(r, end) ==
    /\ end \in {"limited", "blocked", "unpaid", "handled"}
    /\ end \in {"unpaid", "handled"} => ~Blocked(r)

(* A call that moves on its own: the other calls, and the claims they rest *)
(* on, stay; it is served only with a claim nobody else had.               *)
LEMMA OneMoves ==
  ASSUME AdmissionInv,
         NEW c \in Visits, NEW r \in Incoming, NEW at \in Statuses,
         call' = [call EXCEPT ![c] = [at |-> at, req |-> r, saw |-> blocklist \cap Carried(r)]],
         consumed \subseteq consumed', UNCHANGED blocklist,
         at \in {"blocked", "unpaid", "handled"} /\ r.binding # Absent =>
             r.binding \in consumed' /\ r.binding \notin consumed,
         at \in {"unpaid", "handled"} => ~Blocked(r)
  PROVE  AdmissionInv'
<1> DEFINE moved == [at |-> at, req |-> r, saw |-> blocklist \cap Carried(r)]
<1>1. moved \in Visit
  BY DEF AdmissionInv, Typed, Visit
<1>2. Typed'
  BY <1>1 DEF AdmissionInv, Typed
<1>3. call'[c] = moved /\ \A d \in Visits \ {c} : call'[d] = call[d]
  BY DEF AdmissionInv, Typed
<1>4. BindingServesOnce'
  <2>1. ASSUME NEW d \in Visits, Served(d)', call'[d].req.binding # Absent, d # c
        PROVE  /\ call'[d].req.binding \in consumed
               /\ \A e \in Visits : e # c /\ Served(e)'
                      /\ call'[e].req.binding = call'[d].req.binding => e = d
    BY <1>3, <2>1 DEF AdmissionInv, BindingServesOnce, Served
  <2>2. Served(c)' /\ call'[c].req.binding # Absent =>
          call'[c].req.binding \in consumed' /\ call'[c].req.binding \notin consumed
    BY <1>3 DEF Served
  <2> QED  BY <2>1, <2>2 DEF BindingServesOnce
<1>5. BlockedStaysOut'
  <2>1. ASSUME at \in {"unpaid", "handled"}
        PROVE  /\ MergedBody(r).wallet \in moved.saw => r.header # Absent
               /\ r.header \notin moved.saw
    <3>1. Named(r, MergedBody(r)) \notin blocklist /\ Absent \notin blocklist
      BY <2>1, AbsentAssumption DEF Blocked, CheckedBody, AdmissionInv, Typed
    <3> QED  BY <3>1 DEF Named
  <2>2. \A d \in Visits \ {c} : call'[d].at \in {"unpaid", "handled"} =>
            /\ MergedBody(call'[d].req).wallet \in call'[d].saw => call'[d].req.header # Absent
            /\ call'[d].req.header \notin call'[d].saw
    BY <1>3 DEF AdmissionInv, BlockedStaysOut
  <2>3. moved.at = at /\ moved.req = r
    OBVIOUS
  <2> HIDE DEF moved
  <2> QED  BY <1>3, <2>1, <2>2, <2>3 DEF BlockedStaysOut, MergedBody
<1> QED  BY <1>2, <1>4, <1>5 DEF AdmissionInv

LEMMA OnwardMoves ==
  ASSUME NEW c, NEW r, NEW m, NEW claims, Onward(c, r, m, claims)
  PROVE  \E end : /\ Passed(r, end) /\ consumed' = claims
                  /\ call' = [call EXCEPT ![c] =
                        [at |-> end, req |-> r, saw |-> blocklist \cap Carried(r)]]
<1> DEFINE payer == MergedBody(r).wallet
           limited == r.url \in GuardUrls /\ payer # Absent
           mm == IF limited /\ ~Blocked(r) THEN Counted(m, "wallet", payer) ELSE m
           over == limited /\ Refuses(mm, "wallet", payer)
           end == CASE Blocked(r) -> "blocked"
                    [] ~Blocked(r) /\ limited /\ Refuses(mm, "wallet", payer) -> "limited"
                    [] OTHER -> IF r.paid THEN "handled" ELSE "unpaid"
<1>1. /\ call' = [call EXCEPT ![c] = [at |-> end, req |-> r, saw |-> blocklist \cap Carried(r)]]
      /\ consumed' = claims
  BY DEF Onward
<1>2. CASE Blocked(r)
  <2>1. end = "blocked"
    BY <1>2
  <2> QED  BY <1>1, <2>1 DEF Passed
<1>3. CASE ~Blocked(r) /\ limited /\ Refuses(mm, "wallet", payer)
  <2>1. end = "limited"
    BY <1>3
  <2> QED  BY <1>1, <2>1 DEF Passed
<1>4. CASE ~Blocked(r) /\ ~(limited /\ Refuses(mm, "wallet", payer))
  <2>1. end = IF r.paid THEN "handled" ELSE "unpaid"
    BY <1>4
  <2>2. end \in {"handled", "unpaid"}
    BY <2>1
  <2> QED  BY <1>1, <1>4, <2>2 DEF Passed
<1> QED  BY <1>2, <1>3, <1>4

LEMMA AdmissionStep ==
  AdmissionInv /\ [AdmissionNext]_<<clock, rateVars, admissionVars>> => AdmissionInv'
<1> SUFFICES ASSUME AdmissionInv, [AdmissionNext]_<<clock, rateVars, admissionVars>>
             PROVE  AdmissionInv'
  OBVIOUS
<1>1. ASSUME NEW c \in Visits, NEW r \in Incoming, Arrive(c, r) PROVE AdmissionInv'
  <2>1. UNCHANGED blocklist
    BY <1>1 DEF Arrive
  <2>2. CASE \E m : Onward(c, r, m, consumed) /\ r.binding = Absent
    <3>1. PICK end : /\ Passed(r, end) /\ consumed' = consumed
                     /\ call' = [call EXCEPT ![c] =
                           [at |-> end, req |-> r, saw |-> blocklist \cap Carried(r)]]
      BY <2>2, OnwardMoves
    <3>2. end \in Statuses /\ (end \in {"unpaid", "handled"} => ~Blocked(r))
      BY <3>1 DEF Passed, Statuses
    <3> QED  BY <2>1, <2>2, <3>1, <3>2, OneMoves
  <2>3. CASE \E at \in {"limited", "claiming", "mismatch"} : Stops(c, r, at) /\ UNCHANGED consumed
    <3>1. PICK at \in {"limited", "claiming", "mismatch"} : Stops(c, r, at) /\ UNCHANGED consumed
      BY <2>3
    <3>2. /\ at \in Statuses /\ at \notin {"blocked", "unpaid", "handled"}
          /\ call' = [call EXCEPT ![c] = [at |-> at, req |-> r, saw |-> blocklist \cap Carried(r)]]
      BY <3>1 DEF Statuses, Stops
    <3> QED  BY <2>1, <3>1, <3>2, OneMoves
  <2> QED  BY <1>1, <2>2, <2>3 DEF Arrive
<1>2. ASSUME NEW c \in Visits, ClaimNonce(c) PROVE AdmissionInv'
  <2> DEFINE r == call[c].req
  <2>1. UNCHANGED blocklist /\ call[c].at = "claiming"
    BY <1>2 DEF ClaimNonce
  <2>2. r \in Incoming
    BY <2>1 DEF AdmissionInv, Typed, Visit, Idle
  <2>3. CASE Claimable(r.binding) /\ Onward(c, r, Meters, consumed \cup {r.binding})
    <3>1. PICK end : /\ Passed(r, end) /\ consumed' = consumed \cup {r.binding}
                     /\ call' = [call EXCEPT ![c] =
                           [at |-> end, req |-> r, saw |-> blocklist \cap Carried(r)]]
      BY <2>3, OnwardMoves
    <3>2. end \in Statuses /\ (end \in {"unpaid", "handled"} => ~Blocked(r))
      BY <3>1 DEF Passed, Statuses
    <3>3. consumed \subseteq consumed' /\ r.binding \in consumed' /\ r.binding \notin consumed
      BY <2>3, <3>1 DEF Claimable
    <3> HIDE DEF r
    <3> QED  BY <2>1, <2>2, <3>1, <3>2, <3>3, OneMoves
  <2>4. CASE Stops(c, r, "mismatch") /\ UNCHANGED consumed
    <3>1. "mismatch" \in Statuses
      BY DEF Statuses
    <3>2. call' = [call EXCEPT ![c] = [at |-> "mismatch", req |-> r, saw |-> blocklist \cap Carried(r)]]
      BY <2>4 DEF Stops
    <3> HIDE DEF r
    <3> QED  BY <2>1, <2>2, <2>4, <3>1, <3>2, OneMoves
  <2> QED  BY <1>2, <2>3, <2>4 DEF ClaimNonce
<1>3. CASE AdmissionRestart
  <2>1. /\ call' = [c \in Visits |-> IF call[c].at = "claiming" THEN [call[c] EXCEPT !.at = "died"]
                                                               ELSE call[c]]
        /\ UNCHANGED <<blocklist, consumed>>
    BY <1>3 DEF AdmissionRestart
  <2>2. ASSUME NEW c \in Visits
        PROVE  /\ call'[c] \in {Idle} \cup Visit
               /\ call'[c] = call[c] \/ call'[c].at = "died"
    <3>1. CASE call[c].at = "claiming"
      <4>1. call[c] \in Visit /\ call'[c] = [call[c] EXCEPT !.at = "died"]
        BY <2>1, <3>1 DEF AdmissionInv, Typed, Idle
      <4> QED  BY <4>1 DEF Visit, Statuses
    <3>2. CASE call[c].at # "claiming"
      BY <2>1, <3>2 DEF AdmissionInv, Typed
    <3> QED  BY <3>1, <3>2
  <2>3. Typed'
    BY <2>1, <2>2 DEF AdmissionInv, Typed
  <2>4. BindingServesOnce' /\ BlockedStaysOut'
    BY <2>1, <2>2 DEF AdmissionInv, BindingServesOnce, BlockedStaysOut, Served, MergedBody
  <2> QED  BY <2>3, <2>4 DEF AdmissionInv
(* Nothing else touches a call or a claim.                                 *)
<1>4. ASSUME UNCHANGED <<call, consumed>>, blocklist' \subseteq Wallets PROVE AdmissionInv'
  BY <1>4 DEF AdmissionInv, Typed, BindingServesOnce, BlockedStaysOut, Served, MergedBody
<1>5. ASSUME NEW n \in Binders, NEW u \in BoundUrls, NEW x \in Costs,
             Bind(n, u, x) \/ BindReads(n, u, x)
      PROVE  AdmissionInv'
  BY <1>4, <1>5 DEF Bind, BindReads, AdmissionInv, Typed
<1>6. ASSUME NEW b \in binders, BindWrites(b) PROVE AdmissionInv'
  BY <1>4, <1>6 DEF BindWrites, AdmissionInv, Typed
<1>7. ASSUME NEW w \in Wallets, Block(w) \/ Unblock(w) PROVE AdmissionInv'
  BY <1>4, <1>7 DEF Block, Unblock, AdmissionInv, Typed
<1>8. CASE AdmissionTick \/ AdmissionSweep \/ UNCHANGED <<clock, rateVars, admissionVars>>
  BY <1>4, <1>8 DEF AdmissionTick, AdmissionSweep, admissionVars, AdmissionInv, Typed
<1> QED
  BY <1>1, <1>2, <1>3, <1>5, <1>6, <1>7, <1>8 DEF AdmissionNext

LEMMA AdmissionStart == AdmissionInit => AdmissionInv
  BY DEF AdmissionInit, AdmissionInv, Typed, BindingServesOnce, BlockedStaysOut, Served, Idle

(* BindingServesOnce: a binding lets one call through at most, whatever    *)
(* comes between its check and its claim, however often its id is bound    *)
(* again and the process restarts (protocol/replay-guard.ts).              *)
THEOREM OneCallPerBinding ==
  AdmissionSpec => []BindingServesOnce
<1>1. AdmissionInv => BindingServesOnce
  BY DEF AdmissionInv
<1> QED  BY <1>1, AdmissionStart, AdmissionStep, PTL DEF AdmissionSpec

(* BlockedStaysOut: no call reaches a route with the merged body of a      *)
(* wallet that was blocked when it passed (middleware/wallet-blocklist.ts, *)
(* lib/apply-verifier-body.ts), unless its header named another.           *)
THEOREM BlockedWalletsStayOut ==
  AdmissionSpec => []BlockedStaysOut
<1>1. AdmissionInv => BlockedStaysOut
  BY DEF AdmissionInv
<1> QED  BY <1>1, AdmissionStart, AdmissionStep, PTL DEF AdmissionSpec

-----------------------------------------------------------------------------
(* What one key was let through in the ticks of a span.                    *)
Total(p, from, to) == SumFunctionOnSet(p, Ticks \cap (from .. to))
Passes == [Ticks -> Nat]
Later(p, t) == [p EXCEPT ![t] = @ + 1]

LEMMA SpanFinite ==
  ASSUME NEW from \in Int, NEW to \in Int
  PROVE  IsFiniteSet(Ticks \cap (from .. to))
<1>1. IsFiniteSet(0 .. MaxClock)
  BY LimitAssumption, FS_Interval
<1> QED  BY <1>1, FS_Subset DEF Ticks

LEMMA TotalIsNat ==
  ASSUME NEW p \in Passes, NEW from \in Int, NEW to \in Int
  PROVE  Total(p, from, to) \in Nat
<1>1. \A t \in Ticks \cap (from .. to) : p[t] \in Nat
  BY DEF Passes
<1> QED  BY <1>1, SpanFinite, SumIsNat DEF Total

(* A span is two spans one after the other.                                *)
LEMMA TotalSplits ==
  ASSUME NEW p \in Passes, NEW from \in Int, NEW mid \in Int, NEW to \in Int, NEW eve \in Int,
         from <= mid, mid <= to + 1, eve = mid - 1
  PROVE  Total(p, from, to) = Total(p, from, eve) + Total(p, mid, to)
<1> DEFINE S == Ticks \cap (from .. to)
           T == Ticks \cap (from .. eve)
<1>1. T \in SUBSET S /\ S \ T = Ticks \cap (mid .. to)
  BY DEF Ticks
<1>2. IsFiniteSet(S) /\ \A t \in S : p[t] \in Nat
  BY SpanFinite DEF Passes
<1> HIDE DEF S, T
<1>3. SumFunctionOnSet(p, S) = SumFunctionOnSet(p, T) + SumFunctionOnSet(p, S \ T)
  BY <1>1, <1>2, SumSplits
<1> QED  BY <1>1, <1>3 DEF Total, S, T

LEMMA TotalShrinks ==
  ASSUME NEW p \in Passes, NEW from \in Int, NEW to \in Int, NEW later \in Int, NEW sooner \in Int,
         from <= later, sooner <= to
  PROVE  Total(p, later, sooner) <= Total(p, from, to)
<1>1. Ticks \cap (later .. sooner) \in SUBSET (Ticks \cap (from .. to))
  BY DEF Ticks
<1>2. \A t \in Ticks : p[t] \in Nat /\ p[t] <= p[t]
  BY DEF Passes
<1> HIDE DEF Ticks
<1>3. IsFiniteSet(Ticks \cap (from .. to))
  BY SpanFinite
<1> QED  BY <1>1, <1>2, <1>3, SumGrows DEF Total

LEMMA TotalOfZeros ==
  ASSUME NEW p, NEW from \in Int, NEW to \in Int, \A t \in Ticks \cap (from .. to) : p[t] = 0
  PROVE  Total(p, from, to) = 0
  BY SpanFinite, SumOfZeros DEF Total

(* Nothing has passed yet after now.                                       *)
Clear(p, time) == p \in Passes /\ \A t \in Ticks : t > time => p[t] = 0

LEMMA TotalUpToNow ==
  ASSUME NEW time \in Int, NEW p, Clear(p, time), NEW from \in Int, NEW to \in Int, time <= to
  PROVE  Total(p, from, to) = Total(p, from, time)
<1>1. p \in Passes
  BY DEF Clear
<1>2. CASE from <= time + 1
  <2> DEFINE next == time + 1
  <2>0. next \in Int /\ from <= next /\ next <= to + 1 /\ time = next - 1
    BY <1>2
  <2> HIDE DEF next
  <2>1. Total(p, from, to) = Total(p, from, time) + Total(p, next, to)
    BY <1>1, <2>0, TotalSplits
  <2>2. Total(p, next, to) = 0
    <3>1. \A t \in Ticks \cap (next .. to) : p[t] = 0
      BY <2>0 DEF Clear, Ticks
    <3> QED  BY <2>0, <3>1, TotalOfZeros
  <2>3. Total(p, from, time) \in Nat
    BY <1>1, TotalIsNat
  <2> QED  BY <2>1, <2>2, <2>3
<1>3. CASE from > time + 1
  <2>1. \A t \in Ticks : (t \in from .. to \/ t \in from .. time) => p[t] = 0
    BY <1>3 DEF Clear, Ticks
  <2> QED  BY <2>1, TotalOfZeros
<1> QED  BY <1>2, <1>3

LEMMA OneLater ==
  ASSUME NEW p \in Passes, NEW time \in Ticks, NEW from \in Int, NEW to \in Int
  PROVE  /\ Later(p, time) \in Passes
         /\ Total(Later(p, time), from, to) =
              IF time \in from .. to THEN Total(p, from, to) + 1 ELSE Total(p, from, to)
<1> DEFINE q == Later(p, time)
           S == Ticks \cap (from .. to)
<1>1. /\ q \in Passes /\ q[time] = p[time] + 1 /\ \A t \in Ticks \ {time} : q[t] = p[t]
      /\ p[time] \in Nat
  BY DEF Later, Passes
<1>2. \A t \in Ticks : p[t] \in Nat /\ q[t] \in Nat
  BY <1>1 DEF Passes
<1>3. IsFiniteSet(S) /\ S \subseteq Ticks
  BY SpanFinite
<1> HIDE DEF q, S
<1>4. CASE time \in S
  <2>1. SumFunctionOnSet(q, S) = SumFunctionOnSet(p, S) - p[time] + q[time]
    BY <1>1, <1>2, <1>3, <1>4, SumEdited
  <2>2. SumFunctionOnSet(p, S) \in Nat
    BY <1>2, <1>3, SumIsNat
  <2>3. SumFunctionOnSet(q, S) = SumFunctionOnSet(p, S) + 1
    BY <1>1, <2>1, <2>2
  <2> QED  BY <1>1, <1>4, <2>3 DEF Total, q, S
<1>5. CASE time \notin S
  <2>1. SumFunctionOnSet(q, S) = SumFunctionOnSet(p, S)
    BY <1>1, <1>2, <1>3, <1>5, SumSame
  <2> QED  BY <1>1, <1>5, <2>1 DEF Total, q, S
<1> QED  BY <1>4, <1>5

-----------------------------------------------------------------------------
(* One key of one limiter: its bucket b, what it let through p, the limit  *)
(* n.  A closed bucket has let nothing through in this tick and at most n  *)
(* in the window that ends with it; an open one has counted all since its  *)
(* window began, and at most n passed in the window before.                *)
Closed(b, time) == b = NoBucket \/ time >= b.resetAt
First(t) == t - Window + 1
Began(b) == b.resetAt - Window
Eve(b)   == b.resetAt - Window - 1
Metered(p, b, time, n) ==
  /\ Clear(p, time)
  /\ b = NoBucket \/ (b \in [count : Nat, resetAt : Nat] /\ Window <= b.resetAt /\ b.resetAt <= time + Window)
  /\ Closed(b, time) => p[time] = 0 /\ Total(p, First(time), time) <= n
  /\ ~Closed(b, time) =>
       /\ Total(p, Began(b), time) = Capped(b.count, n)
       /\ Total(p, First(Began(b)), Eve(b)) <= n
  /\ \A t \in Ticks : Total(p, First(t), t) <= 2 * n

LEMMA SpansTyped ==
  ASSUME NEW t \in Int PROVE First(t) \in Int /\ First(t) <= t /\ First(t) - 1 <= t - Window
  BY LimitAssumption DEF First

LEMMA TicksTyped == \A t \in Ticks : t \in Nat /\ t \in Int
  BY DEF Ticks

(* If this tick's window can take one more, every window can.                    *)
LEMMA WindowsTake ==
  ASSUME NEW time \in Ticks, NEW n \in Nat, NEW p, Clear(p, time), NEW q, NEW k \in Nat, NEW adds \in BOOLEAN,
         q = IF adds THEN Later(p, time) ELSE p,
         \A t \in Ticks : Total(p, First(t), t) <= 2 * n,
         Total(p, First(time), time) <= k, adds => k + 1 <= 2 * n
  PROVE  \A t \in Ticks : Total(q, First(t), t) <= 2 * n
<1> SUFFICES ASSUME NEW t \in Ticks PROVE Total(q, First(t), t) <= 2 * n
  OBVIOUS
<1>0. /\ t \in Int /\ time \in Int /\ First(t) \in Int /\ First(time) \in Int /\ p \in Passes
      /\ time <= t => First(time) <= First(t)
  BY LimitAssumption, TicksTyped, SpansTyped DEF First, Clear
<1>1. /\ Total(p, First(t), t) \in Nat /\ Total(p, First(time), time) \in Nat
      /\ Total(p, First(t), time) \in Nat
  BY <1>0, TotalIsNat
<1>2. Total(q, First(t), t) = IF adds /\ First(t) <= time /\ time <= t THEN Total(p, First(t), t) + 1
                                                              ELSE Total(p, First(t), t)
  BY <1>0, OneLater
<1>3. ASSUME adds, First(t) <= time, time <= t PROVE Total(q, First(t), t) <= 2 * n
  <2>1. Total(p, First(t), t) = Total(p, First(t), time)
    BY <1>0, <1>3, TotalUpToNow
  <2>2. Total(p, First(t), time) <= Total(p, First(time), time)
    BY <1>0, <1>3, TotalShrinks
  <2> QED  BY <1>1, <1>2, <1>3, <2>1, <2>2
<1> QED  BY <1>2, <1>3

(* A request: the bucket after it, and what it adds to what was let through. *)
LEMMA RequestMetered ==
  ASSUME NEW time \in Ticks, NEW n \in Nat, NEW p, NEW b, Metered(p, b, time, n), NEW c, NEW q,
         c = IF Closed(b, time) THEN [count |-> 1, resetAt |-> time + Window] ELSE [b EXCEPT !.count = @ + 1],
         q = IF c.count <= n THEN Later(p, time) ELSE p
  PROVE  Metered(q, c, time, n)
<1> DEFINE adds == c.count <= n
           s == Began(c)
           e == Eve(c)
<1>0. /\ time \in Nat /\ time \in Int /\ p \in Passes /\ p[time] \in Nat /\ Clear(p, time)
      /\ Window \in Nat /\ Window > 0 /\ adds \in BOOLEAN
      /\ \A t \in Ticks : Total(p, First(t), t) <= 2 * n
  BY LimitAssumption, TicksTyped DEF Metered, Clear, Passes
<1>1. Clear(q, time)
  BY <1>0, TicksTyped DEF Clear, Later, Passes
<1>2. /\ \A from, to \in Int : ~(from <= time /\ time <= to) => Total(q, from, to) = Total(p, from, to)
      /\ \A from, to \in Int : from <= time /\ time <= to =>
           Total(q, from, to) = IF adds THEN Total(p, from, to) + 1 ELSE Total(p, from, to)
  BY <1>0, OneLater
<1>3. CASE Closed(b, time)
  <2>1. /\ c.count = 1 /\ c.resetAt = time + Window /\ c \in [count : Nat, resetAt : Nat] /\ ~Closed(c, time)
        /\ Window <= c.resetAt /\ c.resetAt <= time + Window
        /\ p[time] = 0 /\ Total(p, First(time), time) <= n /\ (adds <=> 1 <= n)
    BY <1>0, <1>3, LimitAssumption DEF Closed, Metered
  <2>2. /\ s = time /\ e = time - 1 /\ e \in Int /\ e < time
        /\ First(time) \in Int /\ First(s) = First(time)
    BY <1>0, <2>1, SpansTyped DEF Began, Eve
  <2>3. Total(p, time, time) = 0
    <3>1. \A t \in Ticks \cap (time .. time) : p[t] = 0
      BY <1>0, <2>1
    <3> QED  BY <1>0, <3>1, TotalOfZeros
  <2> HIDE DEF adds, s, e
  <2>4. Total(q, s, time) = Capped(c.count, n)
    BY <1>0, <1>2, <2>1, <2>2, <2>3 DEF Capped
  <2>5. Total(q, First(s), e) <= n
    <3>1. Total(q, First(s), e) = Total(p, First(time), e)
      BY <1>0, <1>2, <2>2
    <3>2. Total(p, First(time), e) <= Total(p, First(time), time)
      BY <1>0, <2>2, TotalShrinks
    <3>3. Total(p, First(time), e) \in Nat /\ Total(p, First(time), time) \in Nat
      BY <1>0, <2>2, TotalIsNat
    <3> QED  BY <2>1, <3>1, <3>2, <3>3
  <2>6. \A t \in Ticks : Total(q, First(t), t) <= 2 * n
    <3>1. adds => n + 1 <= 2 * n
      BY <2>1
    <3>2. q = IF adds THEN Later(p, time) ELSE p
      BY DEF adds
    <3> QED  BY <1>0, <2>1, <3>1, <3>2, WindowsTake
  <2> QED  BY <1>1, <2>1, <2>4, <2>5, <2>6 DEF Metered, s, e
<1>4. CASE ~Closed(b, time)
  <2>1. /\ b \in [count : Nat, resetAt : Nat] /\ Window <= b.resetAt /\ b.resetAt <= time + Window
        /\ time < b.resetAt
        /\ Total(p, Began(b), time) = Capped(b.count, n)
        /\ Total(p, First(Began(b)), Eve(b)) <= n
    BY <1>0, <1>4 DEF Closed, Metered
  <2>2. c.count = b.count + 1 /\ c.resetAt = b.resetAt /\ c \in [count : Nat, resetAt : Nat] /\ ~Closed(c, time)
    <3>1. c = [b EXCEPT !.count = @ + 1]
      BY <1>4
    <3>2. c.count = b.count + 1 /\ c.resetAt = b.resetAt /\ c \in [count : Nat, resetAt : Nat]
      BY <2>1, <3>1
    <3> QED  BY <1>0, <2>1, <3>2, LimitAssumption DEF Closed
  <2>3. /\ s = Began(b) /\ e = Eve(b) /\ s \in Int /\ e \in Int /\ e = s - 1 /\ e < time
        /\ s <= time /\ First(s) \in Int /\ First(time) \in Int /\ First(time) <= s /\ First(s) <= First(time)
    BY <1>0, <2>1, <2>2 DEF Began, Eve, First
  <2>4. Capped(b.count, n) \in Nat /\ (adds => Capped(b.count, n) + 1 = Capped(c.count, n) /\ Capped(c.count, n) <= n)
        /\ (~adds => Capped(b.count, n) = Capped(c.count, n))
    BY <2>1, <2>2 DEF Capped
  <2> HIDE DEF adds, s, e
  <2>5. Total(q, s, time) = Capped(c.count, n)
    BY <1>0, <1>2, <2>1, <2>3, <2>4
  <2>6. Total(q, First(s), e) <= n
    BY <1>0, <1>2, <2>1, <2>3
  <2>7. \A t \in Ticks : Total(q, First(t), t) <= 2 * n
    <3>1. Total(p, First(time), time) = Total(p, First(time), e) + Total(p, s, time)
      BY <1>0, <2>3, TotalSplits
    <3>2. Total(p, First(time), e) <= Total(p, First(s), e)
      BY <1>0, <2>3, TotalShrinks
    <3>3. Total(p, First(time), e) \in Nat /\ Total(p, First(s), e) \in Nat /\ Total(p, s, time) \in Nat
      BY <1>0, <2>3, TotalIsNat
    <3> DEFINE k == n + Capped(b.count, n)
    <3>4. Total(p, First(time), time) <= k /\ k \in Nat
      BY <2>1, <2>3, <2>4, <3>1, <3>2, <3>3
    <3>5. adds => k + 1 <= 2 * n
      BY <2>4
    <3>6. q = IF adds THEN Later(p, time) ELSE p
      BY DEF adds
    <3> HIDE DEF k
    <3> QED  BY <1>0, <3>4, <3>5, <3>6, WindowsTake
  <2> QED  BY <1>1, <2>1, <2>2, <2>5, <2>6, <2>7 DEF Metered, s, e
<1> QED  BY <1>3, <1>4

LEMMA SweptMetered ==
  ASSUME NEW time \in Ticks, NEW n \in Nat, NEW p, NEW b, Metered(p, b, time, n), Closed(b, time)
  PROVE  Metered(p, NoBucket, time, n)
  BY DEF Metered, Closed

LEMMA TickMetered ==
  ASSUME NEW time \in Ticks, NEW next \in Ticks, next = time + 1, NEW n \in Nat, NEW p, NEW b,
         Metered(p, b, time, n)
  PROVE  Metered(p, b, next, n)
<1>0. /\ time \in Nat /\ time \in Int /\ next \in Int /\ p \in Passes /\ Window \in Nat /\ Window > 0
      /\ Clear(p, time) /\ p[next] = 0
      /\ First(next) \in Int /\ First(time) \in Int /\ First(time) <= First(next)
  BY LimitAssumption, TicksTyped DEF Metered, Clear, First
<1>1. Clear(p, next)
  BY <1>0, TicksTyped DEF Clear
<1>2. \A from \in Int : Total(p, from, next) = Total(p, from, time)
  BY <1>0, TotalUpToNow
<1>3. ASSUME Closed(b, next) PROVE Total(p, First(next), next) <= n
  <2>0. Total(p, First(next), next) = Total(p, First(next), time) /\ Total(p, First(next), time) \in Nat
    BY <1>0, <1>2, TotalIsNat
  <2>1. CASE Closed(b, time)
    <3>1. Total(p, First(time), time) <= n
      BY <2>1 DEF Metered
    <3>2. Total(p, First(next), time) <= Total(p, First(time), time)
      BY <1>0, TotalShrinks
    <3>3. Total(p, First(time), time) \in Nat
      BY <1>0, TotalIsNat
    <3> QED  BY <2>0, <3>1, <3>2, <3>3
  <2>2. CASE ~Closed(b, time)
    <3>1. /\ b \in [count : Nat, resetAt : Nat] /\ Began(b) \in Int /\ Began(b) <= First(next)
          /\ Total(p, Began(b), time) = Capped(b.count, n)
      BY <1>0, <1>3, <2>2 DEF Metered, Closed, Began, First
    <3>2. Total(p, First(next), time) <= Total(p, Began(b), time)
      BY <1>0, <3>1, TotalShrinks
    <3>3. Capped(b.count, n) <= n /\ Capped(b.count, n) \in Nat
      BY <3>1 DEF Capped
    <3> QED  BY <2>0, <3>1, <3>2, <3>3
  <2> QED  BY <2>1, <2>2
<1>4. ASSUME ~Closed(b, next)
      PROVE  /\ Total(p, Began(b), next) = Capped(b.count, n)
             /\ Total(p, First(Began(b)), Eve(b)) <= n
  <2>1. ~Closed(b, time) /\ Began(b) \in Int
    BY <1>0, <1>4 DEF Closed, Metered, Began
  <2> QED  BY <1>2, <2>1 DEF Metered
<1>5. b = NoBucket \/ (b \in [count : Nat, resetAt : Nat] /\ Window <= b.resetAt /\ b.resetAt <= next + Window)
  BY <1>0 DEF Metered
<1>6. \A t \in Ticks : Total(p, First(t), t) <= 2 * n
  BY DEF Metered
<1> QED  BY <1>0, <1>1, <1>3, <1>4, <1>5, <1>6 DEF Metered

LEMMA NothingMetered ==
  ASSUME NEW time \in Ticks, NEW n \in Nat
  PROVE  Metered([t \in Ticks |-> 0], NoBucket, time, n)
<1> DEFINE p == [t \in Ticks |-> 0]
<1>1. \A t \in Ticks : p[t] = 0
  OBVIOUS
<1>2. p \in Passes
  BY DEF Passes
<1> HIDE DEF p
<1>3. \A from, to \in Int : Total(p, from, to) = 0
  BY <1>1, TotalOfZeros
<1>4. \A t \in Ticks : t \in Int /\ First(t) \in Int
  BY TicksTyped, SpansTyped
<1>5. Metered(p, NoBucket, time, n)
  BY <1>1, <1>2, <1>3, <1>4 DEF Metered, Clear, Closed
<1> QED  BY <1>5 DEF p

(* All limiters and keys.                                                  *)
AnyBucket == {NoBucket} \cup [count : Nat, resetAt : Nat]
Books(m, time) ==
  /\ m.bucket \in [Limiters -> [LimitKeys -> AnyBucket]]
  /\ m.passed \in [Limiters -> [LimitKeys -> Passes]]
  /\ \A l \in Limiters, k \in LimitKeys : Metered(m.passed[l][k], m.bucket[l][k], time, Limit[l])

RateInv == clock \in Ticks /\ Books(Meters, clock)

LEMMA CountedBooks ==
  ASSUME clock \in Ticks, NEW m, Books(m, clock), NEW l \in Limiters, NEW k \in LimitKeys
  PROVE  Books(Counted(m, l, k), clock)
<1> DEFINE b == m.bucket[l][k]
           p == m.passed[l][k]
           c == Bumped(b)
           q == IF c.count <= Limit[l] THEN Later(p, clock) ELSE p
           r == Counted(m, l, k)
<1>1. /\ Limit[l] \in Nat /\ Metered(p, b, clock, Limit[l]) /\ p \in Passes
  BY LimitAssumption DEF Books
<1>2. c = IF Closed(b, clock) THEN [count |-> 1, resetAt |-> clock + Window] ELSE [b EXCEPT !.count = @ + 1]
  BY DEF Bumped, Over, Closed
<1>3. Metered(q, c, clock, Limit[l])
  <2> HIDE DEF b, p, c
  <2> QED  BY <1>1, <1>2, RequestMetered
<1>4. c \in AnyBucket /\ q \in Passes
  BY <1>3 DEF Metered, Clear, AnyBucket
<1>5. r.bucket = [m.bucket EXCEPT ![l][k] = c]
  BY DEF Counted
<1>6. r.passed = [m.passed EXCEPT ![l][k] = q]
  <2>1. CASE c.count <= Limit[l]
    BY <2>1 DEF Counted, Later
  <2>2. CASE ~(c.count <= Limit[l])
    <3>1. r.passed = m.passed /\ q = p
      BY <2>2 DEF Counted
    <3>2. m.passed = [m.passed EXCEPT ![l][k] = m.passed[l][k]]
      BY DEF Books
    <3> QED  BY <3>1, <3>2
  <2> QED  BY <2>1, <2>2
<1> HIDE DEF c, q, r
<1>7. /\ r.bucket \in [Limiters -> [LimitKeys -> AnyBucket]]
      /\ r.passed \in [Limiters -> [LimitKeys -> Passes]]
      /\ r.bucket[l][k] = c /\ r.passed[l][k] = q
  BY <1>4, <1>5, <1>6 DEF Books
<1>8. ASSUME NEW j \in Limiters, NEW h \in LimitKeys
      PROVE  Metered(r.passed[j][h], r.bucket[j][h], clock, Limit[j])
  <2>1. CASE j = l /\ h = k
    BY <1>3, <1>7, <2>1
  <2>2. CASE ~(j = l /\ h = k)
    <3>1. r.passed[j][h] = m.passed[j][h] /\ r.bucket[j][h] = m.bucket[j][h]
      BY <1>5, <1>6, <2>2 DEF Books
    <3> QED  BY <3>1 DEF Books
  <2> QED  BY <2>1, <2>2
<1>9. Books(r, clock)
  BY <1>7, <1>8 DEF Books
<1> QED  BY <1>9 DEF r

LEMMA MetersSet ==
  ASSUME clock \in Ticks, UNCHANGED clock, NEW m, Books(m, clock), SetMeters(m)
  PROVE  RateInv'
<1>1. Books([bucket |-> m.bucket, passed |-> m.passed], clock)
  BY DEF Books
<1> QED  BY <1>1 DEF RateInv, Meters, SetMeters

LEMMA SweepBooks ==
  ASSUME RateInv, Sweep PROVE RateInv'
<1>1. /\ bucket' = [l \in Limiters |-> [k \in LimitKeys |-> Swept(bucket[l][k])]]
      /\ UNCHANGED <<clock, passed>> /\ clock \in Ticks /\ Books(Meters, clock)
  BY DEF Sweep, RateInv
<1>2. ASSUME NEW l \in Limiters, NEW k \in LimitKeys
      PROVE  /\ Swept(bucket[l][k]) \in AnyBucket
             /\ Metered(passed[l][k], Swept(bucket[l][k]), clock, Limit[l])
  <2>1. Metered(passed[l][k], bucket[l][k], clock, Limit[l]) /\ Limit[l] \in Nat /\ bucket[l][k] \in AnyBucket
    BY <1>1, LimitAssumption DEF Books, Meters
  <2>2. CASE Closed(bucket[l][k], clock)
    <3>1. Swept(bucket[l][k]) = NoBucket
      BY <2>2 DEF Swept, Over, Closed
    <3>2. Metered(passed[l][k], NoBucket, clock, Limit[l])
      BY <1>1, <2>1, <2>2, SweptMetered
    <3> QED  BY <3>1, <3>2 DEF AnyBucket
  <2>3. CASE ~Closed(bucket[l][k], clock)
    <3>1. Swept(bucket[l][k]) = bucket[l][k]
      BY <2>3 DEF Swept, Over, Closed
    <3> QED  BY <2>1, <3>1
  <2> QED  BY <2>2, <2>3
<1>3. bucket' \in [Limiters -> [LimitKeys -> AnyBucket]] /\ passed' \in [Limiters -> [LimitKeys -> Passes]]
  BY <1>1, <1>2 DEF Books, Meters
<1>4. Books([bucket |-> bucket', passed |-> passed'], clock)
  BY <1>1, <1>2, <1>3 DEF Books
<1> QED  BY <1>1, <1>4 DEF RateInv, Meters

LEMMA TickBooks ==
  ASSUME RateInv, Tick PROVE RateInv'
<1>1. /\ clock' = clock + 1 /\ clock' \in Ticks /\ clock \in Ticks /\ UNCHANGED <<bucket, passed>>
      /\ Books(Meters, clock)
  BY LimitAssumption DEF Tick, RateInv, Ticks, rateVars
<1>2. ASSUME NEW l \in Limiters, NEW k \in LimitKeys
      PROVE  Metered(passed[l][k], bucket[l][k], clock', Limit[l])
  <2>1. Metered(passed[l][k], bucket[l][k], clock, Limit[l]) /\ Limit[l] \in Nat
    BY <1>1, LimitAssumption DEF Books, Meters
  <2> QED  BY <1>1, <2>1, TickMetered
<1>3. Books([bucket |-> bucket, passed |-> passed], clock')
  BY <1>1, <1>2 DEF Books, Meters
<1> QED  BY <1>1, <1>3 DEF RateInv, Meters

LEMMA FreshBooks ==
  ASSUME NEW time \in Ticks
  PROVE  Books([bucket |-> [l \in Limiters |-> [k \in LimitKeys |-> NoBucket]], passed |-> NothingPassed], time)
<1>1. \A l \in Limiters : Metered([t \in Ticks |-> 0], NoBucket, time, Limit[l])
  BY LimitAssumption, NothingMetered
<1> QED  BY <1>1 DEF Books, NothingPassed, AnyBucket, Passes

LEMMA RestartBooks ==
  ASSUME RateInv, Restart PROVE RateInv'
<1>1. /\ clock \in Ticks /\ clock' = clock
      /\ bucket' = [l \in Limiters |-> [k \in LimitKeys |-> NoBucket]] /\ passed' = NothingPassed
  BY DEF RateInv, Restart
<1>2. Books([bucket |-> bucket', passed |-> passed'], clock')
  BY <1>1, FreshBooks
<1> QED  BY <1>1, <1>2 DEF RateInv, Meters

LEMMA StillBooks ==
  ASSUME RateInv, UNCHANGED <<clock, rateVars>> PROVE RateInv'
  BY DEF RateInv, Meters, rateVars

LEMMA RateStart == RateInit => RateInv
<1> SUFFICES ASSUME RateInit PROVE RateInv
  OBVIOUS
<1>1. clock \in Ticks
  BY LimitAssumption DEF RateInit, Ticks
<1> QED  BY <1>1, FreshBooks DEF RateInit, RateInv, Meters

LEMMA RateStep == RateInv /\ [RateNext]_<<clock, rateVars>> => RateInv'
<1> SUFFICES ASSUME RateInv, [RateNext]_<<clock, rateVars>> PROVE RateInv'
  OBVIOUS
<1>1. ASSUME NEW l \in Limiters, NEW k \in LimitKeys, Hit(l, k) PROVE RateInv'
  <2>1. clock \in Ticks /\ Books(Meters, clock) /\ SetMeters(Counted(Meters, l, k)) /\ UNCHANGED clock
    BY <1>1 DEF Hit, RateInv
  <2> QED  BY <2>1, CountedBooks, MetersSet
<1> QED  BY <1>1, SweepBooks, TickBooks, RestartBooks, StillBooks DEF RateNext, LimiterNext

LEMMA WindowsFollow == RateInv => WindowsHold
<1> SUFFICES ASSUME RateInv, NEW l \in Limiters, NEW k \in LimitKeys
             PROVE  /\ ~Over(bucket[l][k]) =>
                         PassedIn(l, k, bucket[l][k].resetAt - Window, clock) = Capped(bucket[l][k].count, Limit[l])
                    /\ \A t \in Ticks : PassedIn(l, k, t - Window + 1, t) <= 2 * Limit[l]
  BY DEF WindowsHold
<1>1. Metered(passed[l][k], bucket[l][k], clock, Limit[l])
  BY DEF RateInv, Books, Meters
<1>2. \A from, to : PassedIn(l, k, from, to) = Total(passed[l][k], from, to)
  BY DEF PassedIn, Total
<1>3. Over(bucket[l][k]) <=> Closed(bucket[l][k], clock)
  BY DEF Over, Closed
<1> QED  BY <1>1, <1>2, <1>3 DEF Metered, Began, First

(* lib/rate-limit.ts: a bucket counts what passed in its window, sweeps    *)
(* included, and no span of a window's length lets through more than twice *)
(* the limit, for every limit, window and number of keys.                  *)
THEOREM WindowsAreKept == RateSpec => []WindowsHold
  BY RateStart, RateStep, WindowsFollow, PTL DEF RateSpec

(* A call of the chain is counted by the limiter of its kind, and then     *)
(* maybe by the one of its wallet.                                         *)
LEMMA OnwardBooks ==
  ASSUME clock \in Ticks, UNCHANGED clock, NEW c, NEW r \in Incoming, NEW m, Books(m, clock), NEW claims,
         Onward(c, r, m, claims)
  PROVE  RateInv'
<1> DEFINE payer == MergedBody(r).wallet
           limited == r.url \in GuardUrls /\ payer # Absent
           mm == IF limited /\ ~Blocked(r) THEN Counted(m, "wallet", payer) ELSE m
<1>1. SetMeters(mm)
  BY DEF Onward
<1>2. "wallet" \in Limiters /\ (payer # Absent => payer \in LimitKeys)
  BY IncomingAssumption
<1>3. Books(mm, clock)
  <2>1. CASE limited /\ ~Blocked(r)
    <3>1. payer \in LimitKeys /\ mm = Counted(m, "wallet", payer)
      BY <1>2, <2>1
    <3> HIDE DEF payer, mm
    <3> QED  BY <1>2, <3>1, CountedBooks
  <2>2. CASE ~(limited /\ ~Blocked(r))
    BY <2>2
  <2> QED  BY <2>1, <2>2
<1> HIDE DEF mm
<1> QED  BY <1>1, <1>3, MetersSet

LEMMA ChainBooks ==
  AdmissionInv /\ RateInv /\ [AdmissionNext]_<<clock, rateVars, admissionVars>> => RateInv'
<1> SUFFICES ASSUME AdmissionInv, RateInv, [AdmissionNext]_<<clock, rateVars, admissionVars>> PROVE RateInv'
  OBVIOUS
<1>0. clock \in Ticks /\ Books(Meters, clock)
  BY DEF RateInv
<1>1. ASSUME NEW c \in Visits, NEW r \in Incoming, Arrive(c, r) PROVE RateInv'
  <2> DEFINE m == Counted(Meters, Kind(r), r.ip)
  <2>1. Kind(r) \in Limiters /\ r.ip \in LimitKeys
    BY IncomingAssumption DEF Kind
  <2>2. Books(m, clock) /\ UNCHANGED clock
    BY <1>0, <1>1, <2>1, CountedBooks DEF Arrive
  <2>3. SetMeters(m) \/ Onward(c, r, m, consumed)
    BY <1>1 DEF Arrive
  <2> HIDE DEF m
  <2> QED  BY <1>0, <2>2, <2>3, MetersSet, OnwardBooks
<1>2. ASSUME NEW c \in Visits, ClaimNonce(c) PROVE RateInv'
  <2> DEFINE r == call[c].req
  <2>1. r \in Incoming /\ UNCHANGED clock
    BY <1>2 DEF ClaimNonce, AdmissionInv, Typed, Visit, Idle
  <2>2. CASE Onward(c, r, Meters, consumed \cup {r.binding})
    <3> HIDE DEF r
    <3> QED  BY <1>0, <2>1, <2>2, OnwardBooks
  <2>3. CASE UNCHANGED rateVars
    BY <2>1, <2>3, StillBooks
  <2> QED  BY <1>2, <2>2, <2>3 DEF ClaimNonce
<1>3. CASE AdmissionRestart \/ AdmissionSweep \/ AdmissionTick
  BY <1>3, RestartBooks, SweepBooks, TickBooks DEF AdmissionRestart, AdmissionSweep, AdmissionTick
<1>4. ASSUME NEW n \in Binders, NEW u \in BoundUrls, NEW x \in Costs, Bind(n, u, x) \/ BindReads(n, u, x)
      PROVE  RateInv'
  BY <1>4, StillBooks DEF Bind, BindReads
<1>5. ASSUME NEW b \in binders, BindWrites(b) PROVE RateInv'
  BY <1>5, StillBooks DEF BindWrites
<1>6. ASSUME NEW w \in Wallets, Block(w) \/ Unblock(w) PROVE RateInv'
  BY <1>6, StillBooks DEF Block, Unblock
<1>7. CASE UNCHANGED <<clock, rateVars, admissionVars>>
  BY <1>7, StillBooks
<1> QED  BY <1>1, <1>2, <1>3, <1>4, <1>5, <1>6, <1>7 DEF AdmissionNext

(* index.ts: in the chain, where one call may be counted by two limiters,  *)
(* every limiter still keeps its windows.                                  *)
THEOREM ChainKeepsWindows == AdmissionSpec => []WindowsHold
<1>1. AdmissionInit => AdmissionInv /\ RateInv
  BY AdmissionStart, RateStart DEF AdmissionInit
<1>2. AdmissionInv /\ RateInv /\ [AdmissionNext]_<<clock, rateVars, admissionVars>>
        => AdmissionInv' /\ RateInv'
  BY AdmissionStep, ChainBooks
<1> QED  BY <1>1, <1>2, WindowsFollow, PTL DEF AdmissionSpec

-----------------------------------------------------------------------------
(* The lists of rows of MppSession: what a load gives and a save keeps.    *)
Saving == {"edited", "writing", "mixed"}

LEMMA VersionIs ==
  ASSUME NEW S, NEW i, NEW s
  PROVE  \/ \E u \in S : u.id = i /\ VersionIn(S, i, s) = u
         \/ (\A u \in S : u.id # i) /\ VersionIn(S, i, s) = s
<1>1. CASE \E u \in S : u.id = i
  <2>1. (CHOOSE u \in S : u.id = i) \in S /\ (CHOOSE u \in S : u.id = i).id = i
    BY <1>1
  <2> QED  BY <1>1, <2>1 DEF VersionIn
<1>2. CASE ~\E u \in S : u.id = i
  BY <1>2 DEF VersionIn
<1> QED  BY <1>1, <1>2

LEMMA TableIsFinite ==
  ASSUME NEW t, IsTable(t)
  PROVE  IsFiniteSet(t)
<1> DEFINE f == [s \in t |-> s.id]
<1>1. f \in Injection(t, 1 .. MaxIds)
  BY DEF IsTable, IsSession, Records, Ids, Injection, IsInjective
<1>2. IsFiniteSet(1 .. MaxIds)
  BY FS_Interval, BoundsAssumption
<1> HIDE DEF f
<1> QED  BY <1>1, <1>2, FS_Injection

(* A listing of part of a table: its rows, each once.                      *)
LEMMA ListedRows ==
  ASSUME TypeOK, NEW t, IsTable(t), NEW l \in NewestFirst(t)
  PROVE  IsRows(l) /\ \A n \in DOMAIN l : l[n] \in t
<1>1. Cardinality(t) \in Nat
  BY TableIsFinite, FS_CardinalityType
<1>2. l \in [1 .. Cardinality(t) -> t] /\ \A m, n \in DOMAIN l : m < n => l[m].id > l[n].id
  BY DEF NewestFirst
<1>3. l \in Seq(Records) /\ DOMAIN l = 1 .. Cardinality(t)
  BY <1>1, <1>2 DEF IsTable, IsSession
<1>4. \A n \in DOMAIN l : l[n] \in t /\ l[n].id \in Int /\ l[n].id <= created
  BY <1>1, <1>2 DEF IsTable, IsSession, Records, Ids
<1>5. ASSUME NEW m \in DOMAIN l, NEW n \in DOMAIN l, l[m].id = l[n].id PROVE m = n
  <2>1. ~(m < n) /\ ~(n < m)
    BY <1>2, <1>4, <1>5
  <2>2. m \in Int /\ n \in Int
    BY <1>1, <1>3
  <2> QED  BY <2>1, <2>2
<1> QED  BY <1>3, <1>4, <1>5 DEF IsRows

LEMMA MergedRows ==
  ASSUME TypeOK, NEW t, IsTable(t), NEW rs \in Merged(t)
  PROVE  /\ IsRows(rs)
         /\ \A n \in DOMAIN rs : rs[n] \in t \/ (file # Torn /\ \E m \in DOMAIN file : rs[n] = file[m])
<1>1. CASE file = Torn
  BY <1>1, ListedRows DEF Merged
<1>2. CASE file # Torn
  <2> DEFINE updated == [n \in DOMAIN file |-> VersionIn(t, file[n].id, file[n])]
             others == {s \in t : \A n \in DOMAIN file : file[n].id # s.id}
  <2>1. PICK l \in NewestFirst(others) : rs = updated \o l
    BY <1>2 DEF Merged
  <2>2. IsRows(file)
    BY <1>2 DEF TypeOK
  <2>3. IsTable(others)
    BY DEF IsTable
  <2>4. IsRows(l) /\ \A n \in DOMAIN l : l[n] \in others
    BY <2>3, ListedRows
  <2>5. ASSUME NEW n \in DOMAIN file
        PROVE  updated[n].id = file[n].id /\ (updated[n] \in t \/ updated[n] = file[n])
    BY VersionIs
  <2>6. \A n \in DOMAIN file : updated[n] \in Records /\ updated[n].id <= created
    BY <2>2, <2>5 DEF IsTable, IsSession, IsRows
  <2>7. DOMAIN updated = DOMAIN file /\ DOMAIN file = 1 .. Len(file) /\ Len(file) \in Nat
    BY <2>2 DEF IsRows
  <2>8. updated \in Seq(Records) /\ Len(updated) = Len(file)
    BY <2>6, <2>7
  <2> HIDE DEF updated
  <2>9. l \in Seq(Records)
    BY <2>4 DEF IsRows
  <2>10. /\ rs \in Seq(Records) /\ DOMAIN rs = 1 .. Len(file) + Len(l)
         /\ \A n \in DOMAIN rs : rs[n] = IF n <= Len(file) THEN updated[n] ELSE l[n - Len(file)]
    <3>1. /\ updated \o l \in Seq(Records) /\ Len(updated \o l) = Len(updated) + Len(l)
          /\ \A i \in 1 .. Len(updated) + Len(l) :
                (updated \o l)[i] = IF i <= Len(updated) THEN updated[i] ELSE l[i - Len(updated)]
      BY <2>8, <2>9, ConcatProperties
    <3>2. rs \in Seq(Records) /\ Len(rs) = Len(file) + Len(l)
      BY <2>1, <2>8, <3>1
    <3>3. DOMAIN rs = 1 .. Len(file) + Len(l)
      BY <3>2
    <3> QED  BY <2>1, <2>8, <3>1, <3>2, <3>3
  <2>11. Len(l) \in Nat /\ DOMAIN l = 1 .. Len(l)
    BY <2>9
  <2>12. ASSUME NEW n \in DOMAIN rs
         PROVE  \/ n \in DOMAIN file /\ rs[n] = updated[n]
                \/ n - Len(file) \in DOMAIN l /\ n \notin DOMAIN file /\ rs[n] = l[n - Len(file)]
    BY <2>7, <2>10, <2>11
  <2>13. \A n \in DOMAIN rs : rs[n].id <= created
    BY <2>4, <2>6, <2>12 DEF IsRows
  <2>14. ASSUME NEW m \in DOMAIN rs, NEW n \in DOMAIN rs, rs[m].id = rs[n].id PROVE m = n
    <3>1. CASE m \in DOMAIN file /\ n \in DOMAIN file
      BY <2>2, <2>5, <2>12, <2>14, <3>1 DEF IsRows
    <3>2. CASE m \notin DOMAIN file /\ n \notin DOMAIN file
      <4>1. m - Len(file) = n - Len(file)
        BY <2>4, <2>12, <2>14, <3>2 DEF IsRows
      <4> QED  BY <2>7, <2>10, <2>11, <4>1
    <3>3. CASE m \in DOMAIN file /\ n \notin DOMAIN file
      BY <2>4, <2>5, <2>12, <2>14, <3>3
    <3>4. CASE m \notin DOMAIN file /\ n \in DOMAIN file
      BY <2>4, <2>5, <2>12, <2>14, <3>4
    <3> QED  BY <3>1, <3>2, <3>3, <3>4
  <2>15. \A n \in DOMAIN rs : rs[n] \in t \/ \E m \in DOMAIN file : rs[n] = file[m]
    BY <2>4, <2>5, <2>12
  <2> QED  BY <1>2, <2>10, <2>13, <2>14, <2>15 DEF IsRows
<1> QED  BY <1>1, <1>2

LEMMA KeptRows ==
  ASSUME NEW rs, IsRows(rs)
  PROVE  /\ IsRows(Kept(rs))
         /\ \A n \in DOMAIN Kept(rs) : \E m \in DOMAIN rs : Kept(rs)[n] = rs[m]
         /\ Len(rs) > 0 => \E n \in DOMAIN Kept(rs) : Kept(rs)[n] = rs[Len(rs)]
         /\ Len(rs) <= KeepRows => Kept(rs) = rs
<1> DEFINE from == IF Len(rs) > KeepRows THEN Len(rs) - KeepRows + 1 ELSE 1
           kept == SubSeq(rs, from, Len(rs))
<1>1. rs \in Seq(Records) /\ Len(rs) \in Nat /\ DOMAIN rs = 1 .. Len(rs) /\ KeepRows \in Nat \ {0}
  BY BoundsAssumption DEF IsRows
<1>2. from \in Int /\ from >= 1 /\ (Len(rs) > 0 => from <= Len(rs)) /\ (Len(rs) <= KeepRows => from = 1)
  BY <1>1
<1> HIDE DEF from
<1>3. \A i \in from .. Len(rs) : rs[i] \in Records
  BY <1>1, <1>2
<1>4. /\ kept \in Seq(Records)
      /\ Len(kept) = IF from <= Len(rs) THEN Len(rs) - from + 1 ELSE 0
      /\ \A i \in 1 .. Len(rs) - from + 1 : kept[i] = rs[from + i - 1]
  BY <1>1, <1>2, <1>3, SubSeqProperties
<1> HIDE DEF kept
<1>5. DOMAIN kept = 1 .. Len(kept) /\ Len(kept) \in Nat
  BY <1>4
<1>6. ASSUME NEW n \in DOMAIN kept PROVE from + n - 1 \in DOMAIN rs /\ kept[n] = rs[from + n - 1]
  BY <1>1, <1>2, <1>4, <1>5
<1>7. IsRows(kept)
  <2>1. \A n \in DOMAIN kept : kept[n].id <= created
    BY <1>6 DEF IsRows
  <2>2. ASSUME NEW m \in DOMAIN kept, NEW n \in DOMAIN kept, kept[m].id = kept[n].id PROVE m = n
    <3>1. from + m - 1 = from + n - 1
      BY <1>6, <2>2 DEF IsRows
    <3> QED  BY <1>2, <1>5, <3>1
  <2> QED  BY <1>4, <2>1, <2>2 DEF IsRows
<1>8. Len(rs) > 0 => \E n \in DOMAIN kept : kept[n] = rs[Len(rs)]
  <2> SUFFICES ASSUME Len(rs) > 0 PROVE \E n \in DOMAIN kept : kept[n] = rs[Len(rs)]
    OBVIOUS
  <2>1. Len(kept) \in DOMAIN kept /\ from + Len(kept) - 1 = Len(rs)
    BY <1>1, <1>2, <1>4, <1>5
  <2> QED  BY <1>6, <2>1
<1>9. Len(rs) <= KeepRows => kept = rs
  <2> SUFFICES ASSUME Len(rs) <= KeepRows PROVE kept = rs
    OBVIOUS
  <2>1. from = 1 /\ Len(kept) = Len(rs)
    BY <1>1, <1>2, <1>4
  <2>2. \A n \in 1 .. Len(rs) : kept[n] = rs[n]
    BY <1>1, <1>4, <2>1
  <2> QED  BY <1>1, <1>4, <2>1, <2>2
<1> QED  BY <1>6, <1>7, <1>8, <1>9 DEF Kept, kept, from

-----------------------------------------------------------------------------
(* Types, and what is always true of a call under way.                     *)
MppKinds == {"open", "voucher", "close"}
CallTypes ==
  /\ DOMAIN op = Calls /\ DOMAIN reply = Calls
  /\ \A c \in Calls :
       /\ pc[c] # "idle" =>
            /\ op[c].kind \in MppKinds /\ op[c].agent \in Agents \cup {None}
            /\ op[c].id \in Known \cup {None} /\ (op[c].id # None => op[c].id \in named)
            /\ op[c].id = None \/ op[c].kind = "open" => op[c].agent \in Agents
       /\ pc[c] \in Saving => reply[c].kind \in MppKinds /\ reply[c].id \in 1 .. created

(* What a row may count: what was vouched for, and what its call will      *)
(* acknowledge when the row is saved.                                      *)
Owed(c, i) == IF reply[c].kind = "voucher" /\ reply[c].id = i THEN 1 ELSE 0
Counts ==
  /\ NeverOvercounted
  /\ \A c \in Calls :
       /\ pc[c] = "loading" => \A s \in rows[c] : s.used <= vouched[s.id]
       /\ pc[c] \in Saving => \A n \in DOMAIN rows[c] : rows[c][n].used <= vouched[rows[c][n].id] + Owed(c, rows[c][n].id)

MppInv == TypeOK /\ CallTypes /\ Counts

LEMMA MppStarts == Init => MppInv
BY BoundsAssumption DEF Init, MppInv, TypeOK, CallTypes, Counts, NeverOvercounted, IsRows, Known, Ids, Saving, Records

(* Every request is of an id the table holds, or of an agent.              *)
LEMMA GoodRequests ==
  ASSUME NEW o \in Requests
  PROVE  /\ o.kind \in MppKinds /\ o.agent \in Agents \cup {None} /\ o.id \in Known \cup {None}
         /\ o.id = None \/ o.kind = "open" => o.agent \in Agents
BY BoundsAssumption DEF Requests, Request, MppKinds, Known

LEMMA IssueKeeps ==
  ASSUME MppInv, NEW c \in Calls, NEW o \in Requests, Issue(c, o)
  PROVE  MppInv'
<1> DEFINE t == IF o.kind = "open" THEN {} ELSE Table(o.agent)
<1>1. /\ pc[c] = "idle" /\ pc' = [pc EXCEPT ![c] = "loading"] /\ op' = [op EXCEPT ![c] = o]
      /\ rows' = [rows EXCEPT ![c] = t] /\ named' = IF o.id = None THEN named ELSE named \cup {o.id}
      /\ UNCHANGED <<lanes, file, db, created, reply, vouched, settled, cut>> /\ ops < MaxOps /\ ops' = ops + 1
  BY DEF Issue, Busy
<1>2. \A s \in t : \E i \in Known : s = db[i]
  BY DEF Table, OfAgent
<1>3. IsTable(t) /\ \A s \in t : s.used <= vouched[s.id]
  BY <1>2 DEF MppInv, TypeOK, Counts, NeverOvercounted, IsTable, Known
<1> HIDE DEF t
<1>4. Known' = Known
  BY <1>1 DEF Known
<1>5. TypeOK'
  <2>1. ASSUME NEW d \in Calls
        PROVE  (pc[d] = "loading" => IsTable(rows[d]))' /\ (pc[d] \in Saving => IsRows(rows[d]))'
    BY <1>1, <1>3 DEF MppInv, TypeOK, IsTable, IsRows, IsSession, Saving
  <2>2. named' \subseteq Known'
    BY <1>1, <1>4, GoodRequests DEF MppInv, TypeOK
  <2>3. (file # Torn => IsRows(file))' /\ (\A i \in Known : IsSession(db[i]) /\ db[i].id = i)'
    BY <1>1, <1>4 DEF MppInv, TypeOK, IsRows, IsSession
  <2>4. /\ pc' \in [Calls -> {"idle", "loading", "edited", "writing", "mixed"}] /\ DOMAIN rows' = Calls
        /\ ops' \in 0 .. MaxOps
    BY <1>1, BoundsAssumption DEF MppInv, TypeOK
  <2> QED  BY <1>1, <2>1, <2>2, <2>3, <2>4 DEF MppInv, TypeOK, Saving
<1>6. CallTypes'
  BY <1>1, <1>4, GoodRequests DEF MppInv, TypeOK, CallTypes, Saving
<1>7. Counts'
  BY <1>1, <1>3 DEF MppInv, TypeOK, Counts, NeverOvercounted, Saving, Owed
<1> QED  BY <1>5, <1>6, <1>7 DEF MppInv

LEMMA LoadedRows ==
  ASSUME MppInv, NEW c \in Calls, pc[c] = "loading", NEW rs \in Loaded(c)
  PROVE  /\ IsRows(rs) /\ \A n \in DOMAIN rs : rs[n].used <= vouched[rs[n].id]
         /\ \A n \in DOMAIN rs : rs[n] \in rows[c] \/ (file # Torn /\ \E m \in DOMAIN file : rs[n] = file[m])
<1>1. IsTable(rows[c]) /\ TypeOK
  BY DEF MppInv, TypeOK
<1>2. /\ IsRows(rs)
      /\ \A n \in DOMAIN rs : rs[n] \in rows[c] \/ (file # Torn /\ \E m \in DOMAIN file : rs[n] = file[m])
  BY <1>1, MergedRows DEF Loaded
<1> QED  BY <1>2 DEF MppInv, Counts, NeverOvercounted

(* Rows with one more of a new session, and rows with one of them edited.  *)
LEMMA MoreRows ==
  ASSUME TypeOK, NEW rs, IsRows(rs), created < MaxIds, NEW s \in Records, s.id = created + 1
  PROVE  LET more == Append(rs, s)
         IN  /\ more \in Seq(Records) /\ Len(more) = Len(rs) + 1 /\ more[Len(rs) + 1] = s
             /\ \A n \in DOMAIN rs : more[n] = rs[n]
             /\ DOMAIN more = DOMAIN rs \cup {Len(rs) + 1}
             /\ \A n \in DOMAIN more : more[n].id <= created + 1
             /\ \A m, n \in DOMAIN more : more[m].id = more[n].id => m = n
<1> DEFINE more == Append(rs, s)
<1>1. rs \in Seq(Records) /\ Len(rs) \in Nat /\ DOMAIN rs = 1 .. Len(rs) /\ created \in Nat
  BY BoundsAssumption DEF IsRows, TypeOK
<1>2. /\ more \in Seq(Records) /\ Len(more) = Len(rs) + 1 /\ more[Len(rs) + 1] = s
      /\ \A n \in DOMAIN rs : more[n] = rs[n]
  BY <1>1, AppendProperties
<1>3. DOMAIN more = DOMAIN rs \cup {Len(rs) + 1}
  BY <1>1, <1>2
<1> HIDE DEF more
<1>a. \A x \in Records : x.id \in Int
  BY DEF Records, Ids
<1>b. \A n \in DOMAIN rs : rs[n] \in Records /\ rs[n].id <= created
  BY <1>1 DEF IsRows
<1>4. \A n \in DOMAIN rs : more[n].id <= created /\ more[n].id \in Int
  BY <1>2, <1>a, <1>b
<1>5. \A n \in DOMAIN more : more[n].id <= created + 1
  BY <1>1, <1>2, <1>3, <1>4
<1>6. ASSUME NEW m \in DOMAIN more, NEW n \in DOMAIN more, more[m].id = more[n].id PROVE m = n
  <2>1. CASE m \in DOMAIN rs /\ n \in DOMAIN rs
    BY <1>2, <1>6, <2>1 DEF IsRows
  <2>2. CASE m \notin DOMAIN rs \/ n \notin DOMAIN rs
    BY <1>1, <1>2, <1>3, <1>4, <1>6, <2>2
  <2> QED  BY <2>1, <2>2
<1> QED  BY <1>2, <1>3, <1>5, <1>6 DEF more

LEMMA EditedRows ==
  ASSUME NEW rs, IsRows(rs), NEW n \in DOMAIN rs, NEW s \in Records, s.id = rs[n].id
  PROVE  LET edited == [rs EXCEPT ![n] = s]
         IN  /\ IsRows(edited) /\ DOMAIN edited = DOMAIN rs /\ edited[n] = s
             /\ \A m \in DOMAIN rs \ {n} : edited[m] = rs[m]
<1> DEFINE edited == [rs EXCEPT ![n] = s]
<1>1. /\ DOMAIN edited = DOMAIN rs /\ edited[n] = s /\ \A m \in DOMAIN rs \ {n} : edited[m] = rs[m]
      /\ edited \in Seq(Records)
  BY DEF IsRows
<1> HIDE DEF edited
<1> QED  BY <1>1 DEF IsRows, edited

(* A call that has loaded, and now saves these rows.                       *)
LEMMA SavesKeeps ==
  ASSUME MppInv, NEW c \in Calls, pc[c] = "loading", NEW rs \in Seq(Records), NEW kind \in MppKinds, NEW i,
         Saves(c, rs, kind, i), created' \in Nat, created <= created', created' <= MaxIds, i \in 1 .. created',
         \A n \in DOMAIN rs : rs[n].id <= created',
         \A m, n \in DOMAIN rs : rs[m].id = rs[n].id => m = n,
         \A n \in DOMAIN rs : rs[n].used <= vouched[rs[n].id] + (IF kind = "voucher" /\ i = rs[n].id THEN 1 ELSE 0)
  PROVE  MppInv'
<1>1. /\ pc' = [pc EXCEPT ![c] = "edited"] /\ rows' = [rows EXCEPT ![c] = rs]
      /\ reply' = [reply EXCEPT ![c] = [kind |-> kind, id |-> i]]
      /\ UNCHANGED <<lanes, file, db, op, named, vouched, settled, cut, ops>>
  BY DEF Saves
<1>2. Known' = Known
  BY <1>1 DEF Known
<1>a. \A x : x.id \in Int /\ x.id <= created => x.id <= created'
  BY BoundsAssumption DEF MppInv, TypeOK
<1>b. \A x \in Records : x.id \in Int
  BY DEF Records, Ids
<1>3. ASSUME NEW d \in Calls
      PROVE  (pc[d] = "loading" => IsTable(rows[d]))' /\ (pc[d] \in Saving => IsRows(rows[d]))'
  <2>1. CASE d = c
    BY <1>1, <2>1 DEF MppInv, TypeOK, IsRows, Saving
  <2>2. CASE d # c
    <3>1. pc'[d] = pc[d] /\ rows'[d] = rows[d]
      BY <1>1, <2>2 DEF MppInv, TypeOK
    <3>2. pc[d] = "loading" => IsTable(rows[d])'
      BY <1>a, <1>b, <3>1 DEF MppInv, TypeOK, IsTable, IsSession
    <3>3. ASSUME pc[d] \in Saving PROVE IsRows(rows[d])'
      <4>1. IsRows(rows[d])
        BY <3>3 DEF MppInv, TypeOK, Saving
      <4>2. \A n \in DOMAIN rows[d] : rows[d][n] \in Records
        BY <4>1 DEF IsRows
      <4> QED  BY <1>a, <1>b, <3>1, <4>1, <4>2 DEF IsRows
    <3> QED  BY <3>1, <3>2, <3>3
  <2> QED  BY <2>1, <2>2
<1>4. (file # Torn => IsRows(file))'
  <2> SUFFICES ASSUME file # Torn PROVE IsRows(file)'
    BY <1>1
  <2>1. IsRows(file) /\ \A n \in DOMAIN file : file[n] \in Records
    BY DEF MppInv, TypeOK, IsRows
  <2> QED  BY <1>1, <1>a, <1>b, <2>1 DEF IsRows
<1>5. (\A j \in Known : IsSession(db[j]) /\ db[j].id = j)'
  BY <1>1, <1>2, <1>a, <1>b DEF MppInv, TypeOK, IsSession
<1>6. TypeOK'
  <2>1. /\ pc' \in [Calls -> {"idle", "loading", "edited", "writing", "mixed"}] /\ DOMAIN rows' = Calls
        /\ created' \in 0 .. MaxIds
    BY <1>1, BoundsAssumption DEF MppInv, TypeOK
  <2> QED  BY <1>1, <1>2, <1>3, <1>4, <1>5, <2>1 DEF MppInv, TypeOK, Saving
<1>7. CallTypes'
  <2> SUFFICES ASSUME NEW d \in Calls, pc'[d] \in Saving PROVE reply'[d].kind \in MppKinds /\ reply'[d].id \in 1 .. created'
    BY <1>1, <1>2 DEF MppInv, TypeOK, CallTypes
  <2>1. CASE d = c
    BY <1>1, <2>1 DEF MppInv, CallTypes
  <2>2. CASE d # c
    <3>1. pc[d] \in Saving /\ reply'[d] = reply[d]
      BY <1>1, <2>2 DEF MppInv, TypeOK, CallTypes
    <3>2. reply[d].kind \in MppKinds /\ reply[d].id \in 1 .. created /\ created \in Int
      BY <3>1, BoundsAssumption DEF MppInv, TypeOK, CallTypes
    <3> QED  BY <3>1, <3>2
  <2> QED  BY <2>1, <2>2
<1>8. Counts'
  <2>1. ASSUME NEW d \in Calls
        PROVE  /\ (pc[d] = "loading" => \A s \in rows[d] : s.used <= vouched[s.id])'
               /\ (pc[d] \in Saving => \A n \in DOMAIN rows[d] : rows[d][n].used <= vouched[rows[d][n].id] + Owed(d, rows[d][n].id))'
    <3>1. CASE d = c
      BY <1>1, <3>1 DEF MppInv, TypeOK, CallTypes, Owed
    <3>2. CASE d # c
      BY <1>1, <3>2 DEF MppInv, TypeOK, CallTypes, Counts, Owed
    <3> QED  BY <3>1, <3>2
  <2>2. NeverOvercounted'
    BY <1>1 DEF MppInv, Counts, NeverOvercounted
  <2> QED  BY <2>1, <2>2 DEF Counts
<1> QED  BY <1>6, <1>7, <1>8 DEF MppInv

LEMMA Calling ==
  ASSUME MppInv, NEW c \in Calls, pc[c] = "loading"
  PROVE  /\ op[c].kind \in MppKinds /\ op[c].agent \in Agents \cup {None} /\ op[c].id \in Known \cup {None}
         /\ op[c].id # None => op[c].id \in named /\ op[c].id \in 1 .. created
         /\ Owner(c) \in Agents \cup {Probe} /\ created \in 0 .. MaxIds /\ created \in Nat
<1>1. /\ op[c].kind \in MppKinds /\ op[c].agent \in Agents \cup {None} /\ op[c].id \in Known \cup {None}
      /\ op[c].id # None => op[c].id \in named
  BY DEF MppInv, CallTypes
<1>2. created \in 0 .. MaxIds /\ created \in Nat
  BY BoundsAssumption DEF MppInv, TypeOK
<1>3. \A i \in Known : i \in 1 .. created
  BY BoundsAssumption DEF MppInv, TypeOK, IsSession, Known, Ids
<1> QED  BY <1>1, <1>2, <1>3 DEF Owner

(* A row that counts one call more for a voucher, and none for a close.    *)
LEMMA EditedRow ==
  ASSUME NEW c, op[c].kind \in {"voucher", "close"}, NEW s \in Records
  PROVE  /\ Edited(c, s) \in Records /\ Edited(c, s).id = s.id /\ Edited(c, s).agent = s.agent
         /\ Edited(c, s).used = s.used + (IF op[c].kind = "voucher" THEN 1 ELSE 0)
         /\ Edited(c, s).open <=> s.open /\ op[c].kind = "voucher"
<1>0. s.used \in Nat /\ s.used + 1 \in Nat /\ s.open \in BOOLEAN
  BY DEF Records
<1>1. CASE op[c].kind = "voucher"
  <2>1. Edited(c, s) = [s EXCEPT !.used = s.used + 1]
    BY <1>1 DEF Edited
  <2>2. Edited(c, s) \in Records
    BY <1>0, <2>1 DEF Records
  <2>3. Edited(c, s).id = s.id /\ Edited(c, s).agent = s.agent /\ Edited(c, s).used = s.used + 1
    BY <2>1 DEF Records
  <2>4. Edited(c, s).open = s.open
    BY <2>1 DEF Records
  <2> QED  BY <1>1, <2>2, <2>3, <2>4
<1>2. CASE op[c].kind = "close"
  <2>1. Edited(c, s) = [s EXCEPT !.open = FALSE]
    BY <1>2 DEF Edited
  <2>2. Edited(c, s) \in Records
    BY <2>1 DEF Records
  <2>3. Edited(c, s).id = s.id /\ Edited(c, s).agent = s.agent /\ Edited(c, s).used = s.used
    BY <2>1 DEF Records
  <2>4. Edited(c, s).open = FALSE
    BY <2>1 DEF Records
  <2> QED  BY <1>0, <1>2, <2>2, <2>3, <2>4
<1> QED  BY <1>1, <1>2

LEMMA RowFacts ==
  ASSUME TypeOK, NEW rs, IsRows(rs), NEW n \in DOMAIN rs
  PROVE  /\ rs[n] \in Records /\ rs[n].used \in Nat /\ rs[n].id \in Ids /\ rs[n].id \in 1 .. created
         /\ vouched[rs[n].id] \in Nat
<1>1. rs[n] \in Records /\ rs[n].id <= created
  BY DEF IsRows
<1>2. rs[n].used \in Nat /\ rs[n].id \in Ids
  BY <1>1 DEF Records
<1>3. created \in Nat /\ vouched \in [Ids -> Nat]
  BY BoundsAssumption DEF TypeOK
<1> QED  BY <1>1, <1>2, <1>3 DEF Ids

LEMMA NewSession ==
  ASSUME MppInv, created < MaxIds, NEW a \in Agents \cup {Probe}
  PROVE  LET s == Session(created + 1, a)
         IN  s \in Records /\ s.id = created + 1 /\ s.used = 0 /\ s.open /\ s.agent = a
BY BoundsAssumption DEF MppInv, TypeOK, Session, Records, Ids

LEMMA NewRowKeeps ==
  ASSUME MppInv, NEW c \in Calls, pc[c] = "loading", created < MaxIds, created' = created + 1,
         NEW rs \in Loaded(c), NEW s \in Records, s.id = created + 1, s.used = 0, NEW kind \in MppKinds,
         Saves(c, Append(rs, s), kind, created + 1)
  PROVE  MppInv'
<1> DEFINE more == Append(rs, s)
<1>1. IsRows(rs) /\ \A n \in DOMAIN rs : rs[n].used <= vouched[rs[n].id]
  BY LoadedRows
<1>2. created \in Nat /\ vouched \in [Ids -> Nat] /\ created + 1 \in Ids /\ TypeOK
  BY BoundsAssumption DEF MppInv, TypeOK, Ids
<1>3. /\ more \in Seq(Records) /\ more[Len(rs) + 1] = s
      /\ \A n \in DOMAIN rs : more[n] = rs[n]
      /\ DOMAIN more = DOMAIN rs \cup {Len(rs) + 1}
      /\ \A n \in DOMAIN more : more[n].id <= created + 1
      /\ \A m, n \in DOMAIN more : more[m].id = more[n].id => m = n
  BY <1>1, <1>2, MoreRows
<1>4. \A n \in DOMAIN rs : rs[n] \in Records
  BY <1>1 DEF IsRows
<1>5. \A x \in Records : x.id \in Ids /\ x.used \in Nat
  BY DEF Records
<1> HIDE DEF more
<1>6. ASSUME NEW n \in DOMAIN more
      PROVE  more[n].used <= vouched[more[n].id] + (IF kind = "voucher" /\ created + 1 = more[n].id THEN 1 ELSE 0)
  <2>1. more[n] \in Records /\ vouched[more[n].id] \in Nat /\ more[n].used \in Nat
    BY <1>2, <1>3, <1>4, <1>5
  <2>2. more[n].used <= vouched[more[n].id]
    BY <1>1, <1>3, <1>6, <2>1
  <2> QED  BY <2>1, <2>2
<1>7. created' \in Nat /\ created <= created' /\ created' <= MaxIds /\ created + 1 \in 1 .. created'
  BY <1>2, BoundsAssumption
<1>8. Saves(c, more, kind, created + 1)
  BY DEF more
<1> QED  BY <1>3, <1>6, <1>7, <1>8, SavesKeeps

LEMMA OpenKeeps ==
  ASSUME MppInv, NEW c \in Calls, Open(c)
  PROVE  MppInv'
<1>1. pc[c] = "loading" /\ op[c].kind = "open" /\ created < MaxIds /\ created' = created + 1
  BY DEF Open, Reads
<1>2. PICK rs \in Loaded(c) : Saves(c, Append(rs, Session(created + 1, op[c].agent)), "open", created + 1)
  BY <1>1 DEF Open
<1>3. op[c].agent \in Agents
  BY <1>1 DEF MppInv, CallTypes
<1> DEFINE s == Session(created + 1, op[c].agent)
<1>4. s \in Records /\ s.id = created + 1 /\ s.used = 0
  BY <1>1, <1>3, NewSession
<1> HIDE DEF s
<1> QED  BY <1>1, <1>2, <1>4, NewRowKeeps DEF s, MppKinds

LEMMA CloseOpensKeeps ==
  ASSUME MppInv, NEW c \in Calls, CloseOpens(c)
  PROVE  MppInv'
<1>1. pc[c] = "loading" /\ op[c].kind = "close" /\ created < MaxIds /\ created' = created + 1
  BY DEF CloseOpens, Reads
<1>2. PICK rs \in Loaded(c) : Saves(c, Append(rs, Edited(c, Session(created + 1, Owner(c)))), "close", created + 1)
  BY <1>1 DEF CloseOpens
<1>3. Owner(c) \in Agents \cup {Probe}
  BY <1>1, Calling
<1> DEFINE new == Session(created + 1, Owner(c))
           s == Edited(c, new)
<1>4. new \in Records /\ new.id = created + 1 /\ new.used = 0
  BY <1>1, <1>3, NewSession
<1> HIDE DEF new
<1>5. s \in Records /\ s.id = created + 1 /\ s.used = 0
  BY <1>1, <1>4, EditedRow
<1> HIDE DEF s
<1> QED  BY <1>1, <1>2, <1>5, NewRowKeeps DEF s, new, MppKinds

LEMMA EditDetachedKeeps ==
  ASSUME MppInv, NEW c \in Calls, EditDetached(c)
  PROVE  MppInv'
<1>1. pc[c] = "loading" /\ op[c].kind \in MppKinds /\ created' = created /\ op[c].id # None
  BY DEF EditDetached, Reads, Direct, MppKinds
<1>2. PICK rs \in Loaded(c) : Saves(c, rs, op[c].kind, op[c].id)
  BY DEF EditDetached
<1>3. IsRows(rs) /\ \A n \in DOMAIN rs : rs[n].used <= vouched[rs[n].id]
  BY <1>1, LoadedRows
<1>4. op[c].id \in 1 .. created /\ created \in Nat /\ created \in 0 .. MaxIds /\ vouched \in [Ids -> Nat]
  BY <1>1, Calling DEF MppInv, TypeOK
<1>5. \A n \in DOMAIN rs : rs[n].used \in Nat /\ vouched[rs[n].id] \in Nat
  BY <1>3, RowFacts DEF MppInv
<1>6. \A n \in DOMAIN rs : rs[n].used <= vouched[rs[n].id] + (IF op[c].kind = "voucher" /\ op[c].id = rs[n].id THEN 1 ELSE 0)
  BY <1>3, <1>5
<1>7. rs \in Seq(Records) /\ (\A n \in DOMAIN rs : rs[n].id <= created') /\ \A m, n \in DOMAIN rs : rs[m].id = rs[n].id => m = n
  BY <1>1, <1>3 DEF IsRows
<1>8. created' \in Nat /\ created <= created' /\ created' <= MaxIds /\ op[c].id \in 1 .. created'
  BY <1>1, <1>4, BoundsAssumption
<1> QED  BY <1>1, <1>2, <1>6, <1>7, <1>8, SavesKeeps

LEMMA EditRowKeeps ==
  ASSUME MppInv, NEW c \in Calls, EditRow(c)
  PROVE  MppInv'
<1>1. pc[c] = "loading" /\ op[c].kind \in {"voucher", "close"} /\ created' = created
  BY DEF EditRow, Reads
<1>a. PICK rs \in Loaded(c) : \E n \in OpenRow(c, rs) :
        Saves(c, [rs EXCEPT ![n] = Edited(c, rs[n])], op[c].kind, rs[n].id)
  BY DEF EditRow
<1>2. PICK n \in OpenRow(c, rs) : Saves(c, [rs EXCEPT ![n] = Edited(c, rs[n])], op[c].kind, rs[n].id)
  BY <1>a
<1> DEFINE s == Edited(c, rs[n])
           edited == [rs EXCEPT ![n] = s]
<1>3. IsRows(rs) /\ \A m \in DOMAIN rs : rs[m].used <= vouched[rs[m].id]
  BY <1>1, LoadedRows
<1>4. created \in Nat /\ created \in 0 .. MaxIds /\ vouched \in [Ids -> Nat] /\ n \in DOMAIN rs
  BY <1>1, <1>2, Calling DEF MppInv, TypeOK, OpenRow
<1>5. \A m \in DOMAIN rs : rs[m] \in Records /\ rs[m].used \in Nat /\ vouched[rs[m].id] \in Nat /\ rs[m].id \in 1 .. created
  BY <1>3, RowFacts DEF MppInv
<1>6. s \in Records /\ s.id = rs[n].id /\ s.used = rs[n].used + (IF op[c].kind = "voucher" THEN 1 ELSE 0)
  BY <1>1, <1>4, <1>5, EditedRow
<1> HIDE DEF s
<1>7. /\ IsRows(edited) /\ DOMAIN edited = DOMAIN rs /\ edited[n] = s
      /\ \A m \in DOMAIN rs \ {n} : edited[m] = rs[m]
  BY <1>3, <1>4, <1>6, EditedRows
<1>8. Saves(c, edited, op[c].kind, rs[n].id)
  BY <1>2 DEF s
<1> HIDE DEF edited
<1>9. ASSUME NEW m \in DOMAIN edited
      PROVE  edited[m].used <= vouched[edited[m].id] + (IF op[c].kind = "voucher" /\ rs[n].id = edited[m].id THEN 1 ELSE 0)
  <2>1. CASE m = n
    BY <1>3, <1>4, <1>5, <1>6, <1>7, <2>1
  <2>2. CASE m # n
    BY <1>3, <1>5, <1>7, <1>9, <2>2
  <2> QED  BY <2>1, <2>2
<1>10. edited \in Seq(Records) /\ (\A m \in DOMAIN edited : edited[m].id <= created')
       /\ \A m, k \in DOMAIN edited : edited[m].id = edited[k].id => m = k
  BY <1>1, <1>7 DEF IsRows
<1>11. created' \in Nat /\ created <= created' /\ created' <= MaxIds /\ rs[n].id \in 1 .. created'
  BY <1>1, <1>4, <1>5, BoundsAssumption
<1>12. op[c].kind \in MppKinds
  BY <1>1 DEF MppKinds
<1> QED  BY <1>1, <1>8, <1>9, <1>10, <1>11, <1>12, SavesKeeps

LEMMA AnswerOnlyKeeps ==
  ASSUME MppInv, NEW c \in Calls, AnswerOnly(c)
  PROVE  MppInv'
<1>1. /\ pc' = [pc EXCEPT ![c] = "idle"] /\ op' = [op EXCEPT ![c] = None] /\ rows' = [rows EXCEPT ![c] = <<>>]
      /\ UNCHANGED <<lanes, file, db, created, reply, named, vouched, settled, cut, ops>>
  BY DEF AnswerOnly
<1>2. Known' = Known
  BY <1>1 DEF Known
<1>3. \A d \in Calls : pc'[d] # "idle" => d # c /\ pc'[d] = pc[d] /\ op'[d] = op[d] /\ rows'[d] = rows[d] /\ reply'[d] = reply[d]
  BY <1>1 DEF MppInv, TypeOK, CallTypes
<1>4. TypeOK'
  BY <1>1, <1>2, <1>3 DEF MppInv, TypeOK, IsTable, IsRows, IsSession
<1>5. CallTypes'
  BY <1>1, <1>2, <1>3 DEF MppInv, CallTypes, Saving
<1>6. Counts'
  BY <1>1, <1>3 DEF MppInv, Counts, NeverOvercounted, Owed, Saving
<1> QED  BY <1>4, <1>5, <1>6 DEF MppInv

LEMMA TruncateKeeps ==
  ASSUME MppInv, NEW c \in Calls, Truncate(c)
  PROVE  MppInv'
<1>1. /\ pc[c] = "edited" /\ pc' = [pc EXCEPT ![c] = "writing"] /\ file' = Torn
      /\ UNCHANGED <<lanes, db, created, op, rows, reply, named, vouched, settled, cut, ops>>
  BY DEF Truncate
<1>2. Known' = Known
  BY <1>1 DEF Known
<1>3. \A d \in Calls : pc'[d] = pc[d] \/ (pc[d] \in Saving /\ pc'[d] = "writing")
  BY <1>1 DEF MppInv, TypeOK, Saving
<1>4. TypeOK'
  BY <1>1, <1>2, <1>3 DEF MppInv, TypeOK, IsTable, IsRows, IsSession, Saving
<1>5. CallTypes'
  BY <1>1, <1>2, <1>3 DEF MppInv, CallTypes, Saving
<1>6. Counts'
  BY <1>1, <1>3 DEF MppInv, Counts, NeverOvercounted, Owed, Saving
<1> QED  BY <1>4, <1>5, <1>6 DEF MppInv

-----------------------------------------------------------------------------
(* A save: what it writes was in the call's rows.                          *)
LEMMA WriteKeeps ==
  ASSUME MppInv, NEW c \in Calls, Write(c)
  PROVE  MppInv'
<1> DEFINE kept == Kept(rows[c])
           i == reply[c].id
<1>1. /\ pc[c] \in {"writing", "mixed"} /\ (file' = kept \/ file' = Torn)
      /\ db' = [j \in Ids |-> VersionIn(ToSet(kept), j, db[j])]
      /\ pc' = [d \in Calls |-> IF d = c THEN "idle" ELSE IF pc[d] = "writing" THEN "mixed" ELSE pc[d]]
      /\ vouched' = CountedIf(reply[c].kind = "voucher", vouched, i)
      /\ settled' = CountedIf(reply[c].kind = "close", settled, i)
      /\ op' = [op EXCEPT ![c] = None] /\ rows' = [rows EXCEPT ![c] = <<>>] /\ reply' = [reply EXCEPT ![c] = None]
      /\ cut' \subseteq cut \cup {i}
      /\ UNCHANGED <<lanes, created, named, ops>>
  BY DEF Write
<1>2. TypeOK /\ IsRows(rows[c]) /\ reply[c].kind \in MppKinds /\ i \in 1 .. created /\ created \in Nat /\ i \in Ids
  BY <1>1, BoundsAssumption DEF MppInv, TypeOK, CallTypes, Saving, Ids
<1>3. IsRows(kept) /\ \A n \in DOMAIN kept : \E m \in DOMAIN rows[c] : kept[n] = rows[c][m]
  BY <1>2, KeptRows
<1> HIDE DEF kept
<1>4. \A n \in DOMAIN kept : kept[n].used <= vouched[kept[n].id] + Owed(c, kept[n].id)
  BY <1>1, <1>3 DEF MppInv, Counts, Saving
<1>5. /\ vouched' \in [Ids -> Nat] /\ settled' \in [Ids -> Nat]
      /\ \A j \in Ids : vouched'[j] = vouched[j] + Owed(c, j)
  BY <1>1, <1>2 DEF TypeOK, CountedIf, Owed
<1> HIDE DEF i
<1>6. ASSUME NEW j \in Ids
      PROVE  \/ db'[j] = db[j]
             \/ \E n \in DOMAIN kept : db'[j] = kept[n] /\ kept[n].id = j
  <2> DEFINE S == ToSet(kept)
  <2>1. db'[j] = VersionIn(S, j, db[j])
    BY <1>1
  <2>2. \A s \in S : \E n \in DOMAIN kept : s = kept[n]
    BY DEF ToSet
  <2> HIDE DEF S
  <2>3. \/ \E s \in S : s.id = j /\ VersionIn(S, j, db[j]) = s
        \/ VersionIn(S, j, db[j]) = db[j]
    BY VersionIs
  <2> QED  BY <2>1, <2>2, <2>3
<1>7. \A n \in DOMAIN kept : kept[n] \in Records /\ kept[n].id <= created /\ kept[n] # None
  BY <1>3, BoundsAssumption DEF IsRows
<1>8. Known \subseteq Known'
  BY <1>6, <1>7 DEF Known
<1>9. \A d \in Calls : pc'[d] # "idle" =>
        /\ d # c /\ op'[d] = op[d] /\ rows'[d] = rows[d] /\ reply'[d] = reply[d]
        /\ pc'[d] = pc[d] \/ (pc[d] \in Saving /\ pc'[d] \in Saving)
  BY <1>1 DEF MppInv, TypeOK, CallTypes, Saving
<1>10. TypeOK'
  <2>1. (\A j \in Known : IsSession(db[j]) /\ db[j].id = j)'
    <3> SUFFICES ASSUME NEW j \in Ids, db'[j] # None
                 PROVE  db'[j] \in Records /\ db'[j].id <= created /\ db'[j].id = j
      BY <1>1 DEF Known, IsSession
    <3>1. CASE db'[j] = db[j]
      BY <1>2, <3>1 DEF TypeOK, Known, IsSession
    <3>2. CASE \E n \in DOMAIN kept : db'[j] = kept[n] /\ kept[n].id = j
      BY <1>7, <3>2
    <3> QED  BY <1>6, <3>1, <3>2
  <2>2. (file # Torn => IsRows(file))'
    BY <1>1, <1>3 DEF IsRows
  <2>3. ASSUME NEW d \in Calls
        PROVE  (pc[d] = "loading" => IsTable(rows[d]))' /\ (pc[d] \in Saving => IsRows(rows[d]))'
    BY <1>1, <1>2, <1>9 DEF TypeOK, IsTable, IsRows, IsSession, Saving
  <2>4. DOMAIN db' = Ids /\ DOMAIN rows' = Calls /\ cut' \subseteq Ids /\ named' \subseteq Known'
    BY <1>1, <1>2, <1>8 DEF TypeOK
  <2>5. pc' \in [Calls -> {"idle", "loading", "edited", "writing", "mixed"}]
    BY <1>1, <1>2 DEF TypeOK
  <2> QED  BY <1>1, <1>2, <1>5, <2>1, <2>2, <2>3, <2>4, <2>5 DEF TypeOK, Saving
<1>11. CallTypes'
  BY <1>1, <1>8, <1>9 DEF MppInv, CallTypes, Saving
<1>12. Counts'
  <2>1. \A j \in Ids : vouched[j] <= vouched'[j] /\ vouched[j] \in Nat /\ vouched'[j] \in Nat
    BY <1>2, <1>5 DEF TypeOK, Owed
  <2>2. ASSUME NEW n \in DOMAIN kept PROVE kept[n].used <= vouched'[kept[n].id]
    BY <1>2, <1>3, <1>4, <1>5, RowFacts
  <2>3. ASSUME NEW j \in Ids, db'[j] # None PROVE db'[j].used <= vouched'[j]
    <3>1. CASE db'[j] = db[j]
      <4>1. db[j].used <= vouched[j] /\ db[j].used \in Nat
        BY <2>3, <3>1 DEF MppInv, TypeOK, Counts, NeverOvercounted, Known, IsSession, Records
      <4> QED  BY <2>1, <3>1, <4>1
    <3>2. CASE \E n \in DOMAIN kept : db'[j] = kept[n] /\ kept[n].id = j
      BY <2>2, <3>2
    <3> QED  BY <1>6, <3>1, <3>2
  <2>4. file' # Torn => \A n \in DOMAIN file' : file'[n].used <= vouched'[file'[n].id]
    BY <1>1, <2>2
  <2>5. ASSUME NEW d \in Calls
        PROVE  /\ (pc[d] = "loading" => \A s \in rows[d] : s.used <= vouched[s.id])'
               /\ (pc[d] \in Saving => \A n \in DOMAIN rows[d] : rows[d][n].used <= vouched[rows[d][n].id] + Owed(d, rows[d][n].id))'
    <3>1. ASSUME pc'[d] = "loading" PROVE \A s \in rows'[d] : s.used <= vouched'[s.id]
      <4>1. rows'[d] = rows[d] /\ IsTable(rows[d]) /\ \A s \in rows[d] : s.used <= vouched[s.id]
        BY <1>9, <3>1 DEF MppInv, TypeOK, Counts, Saving
      <4>2. \A s \in rows[d] : s.id \in Ids /\ s.used \in Nat
        BY <4>1 DEF IsTable, IsSession, Records
      <4> QED  BY <2>1, <4>1, <4>2
    <3>2. ASSUME pc'[d] \in Saving, NEW n \in DOMAIN rows'[d]
          PROVE  rows'[d][n].used <= vouched'[rows'[d][n].id]
                   + IF reply'[d].kind = "voucher" /\ reply'[d].id = rows'[d][n].id THEN 1 ELSE 0
      <4>1. rows'[d] = rows[d] /\ reply'[d] = reply[d] /\ IsRows(rows[d]) /\ pc[d] \in Saving
        BY <1>9, <3>2 DEF MppInv, TypeOK, Saving
      <4>2. rows[d][n].used <= vouched[rows[d][n].id] + Owed(d, rows[d][n].id)
        BY <3>2, <4>1 DEF MppInv, Counts
      <4>3. rows[d][n].used \in Nat /\ rows[d][n].id \in Ids /\ Owed(d, rows[d][n].id) \in Nat
        BY <1>2, <3>2, <4>1, RowFacts DEF Owed
      <4>4. rows[d][n].used <= vouched'[rows[d][n].id] + Owed(d, rows[d][n].id)
        BY <2>1, <4>2, <4>3
      <4> QED  BY <4>1, <4>4 DEF Owed
    <3> QED  BY <3>1, <3>2 DEF Owed, Saving
  <2> QED  BY <2>3, <2>4, <2>5 DEF Counts, NeverOvercounted
<1> QED  BY <1>10, <1>11, <1>12 DEF MppInv

LEMMA MppStepKeeps ==
  ASSUME MppInv, [Next]_vars
  PROVE  MppInv'
<1>1. ASSUME NEW c \in Calls, NEW o \in Requests, Issue(c, o) PROVE MppInv'
  BY <1>1, IssueKeeps
<1>2. ASSUME NEW c \in Calls, Open(c) \/ EditDetached(c) \/ EditRow(c) \/ CloseOpens(c) PROVE MppInv'
  BY <1>2, OpenKeeps, EditDetachedKeeps, EditRowKeeps, CloseOpensKeeps
<1>3. ASSUME NEW c \in Calls, AnswerOnly(c) \/ Truncate(c) \/ Write(c) PROVE MppInv'
  BY <1>3, AnswerOnlyKeeps, TruncateKeeps, WriteKeeps
<1>4. CASE UNCHANGED vars
  BY <1>4 DEF vars, MppInv, TypeOK, CallTypes, Counts, NeverOvercounted, IsTable, IsRows, IsSession, Known, Owed
<1> QED  BY <1>1, <1>2, <1>3, <1>4 DEF Next

(* Every list of rows that loadSessions merges, a call edits or            *)
(* saveSessions writes names a session at most once, whatever overlaps and *)
(* whichever store is torn: findOpenSession's first match is the only one. *)
THEOREM RowsAreWellFormed == Spec => []TypeOK
<1>1. Init => MppInv
  BY MppStarts
<1>2. MppInv /\ [Next]_vars => MppInv'
  BY MppStepKeeps
<1>3. MppInv => TypeOK
  BY DEF MppInv
<1> QED  BY <1>1, <1>2, <1>3, PTL DEF Spec

(* Neither the file nor the table ever counts a call that no acknowledged  *)
(* voucher stands for (runMppSessionV2, saveSessions), however many calls  *)
(* overlap: a row in a call's hands is at most one ahead, its own voucher. *)
THEOREM NothingInvented == Spec => []NeverOvercounted
<1>1. Init => MppInv
  BY MppStarts
<1>2. MppInv /\ [Next]_vars => MppInv'
  BY MppStepKeeps
<1>3. MppInv => NeverOvercounted
  BY DEF MppInv, Counts
<1> QED  BY <1>1, <1>2, <1>3, PTL DEF Spec

-----------------------------------------------------------------------------
(* One call at a time: what the stores hold of each session, and what the  *)
(* call under way is about to write of the one it answers for.             *)
Exact(i) ==
  /\ db[i] # None
  /\ i \notin named \cup cut => db[i].used = vouched[i] /\ settled[i] = IF db[i].open THEN 0 ELSE 1

Ahead(c, i) ==
  /\ db[i] = None => Len(rows[c]) > 0 /\ rows[c][Len(rows[c])].id = i
  /\ i \notin named \cup cut =>
       /\ settled[i] = 0
       /\ \E n \in DOMAIN rows[c] : /\ rows[c][n].id = i /\ rows[c][n].used = vouched[i] + Owed(c, i)
                                    /\ rows[c][n].open <=> reply[c].kind # "close"
  /\ \A n \in DOMAIN rows[c] : rows[c][n].id # i => rows[c][n] = db[rows[c][n].id]

OneCall == \A c, d \in Calls : pc[c] # "idle" /\ pc[d] # "idle" => c = d
FileIsTable == file # Torn => \A n \in DOMAIN file : file[n] = db[file[n].id]
CallsAhead ==
  \A c \in Calls : /\ pc[c] = "loading" => \A s \in rows[c] : s = db[s.id]
                   /\ pc[c] \in Saving => Ahead(c, reply[c].id)
OthersExact == \A i \in 1 .. created : (\A c \in Calls : pc[c] \in Saving => reply[c].id # i) => Exact(i)
Fresh == \A i \in Ids : i > created => vouched[i] = 0 /\ settled[i] = 0
CutFits == cut # {} => created > KeepRows
Serial == OneCall /\ FileIsTable /\ CallsAhead /\ OthersExact /\ Fresh /\ CutFits
SerialInv == MppInv /\ (lanes = 1 => Serial)

LEMMA SerialStarts == Init => Serial
BY BoundsAssumption DEF Init, Serial, OneCall, FileIsTable, CallsAhead, OthersExact, Fresh, CutFits, Saving, Ids

(* Rows name a session once, so there are no more rows than sessions.      *)
LEMMA RowsFit ==
  ASSUME NEW rs, IsRows(rs), created \in Nat
  PROVE  Len(rs) \in Nat /\ Len(rs) <= created
<1> DEFINE f == [n \in 1 .. Len(rs) |-> rs[n].id]
<1>1. rs \in Seq(Records) /\ Len(rs) \in Nat /\ DOMAIN rs = 1 .. Len(rs)
  BY DEF IsRows
<1>2. \A n \in 1 .. Len(rs) : rs[n].id \in 1 .. created
  <2> SUFFICES ASSUME NEW n \in 1 .. Len(rs) PROVE rs[n].id \in 1 .. created
    OBVIOUS
  <2>1. rs[n] \in Records /\ rs[n].id <= created
    BY <1>1 DEF IsRows
  <2>2. rs[n].id \in Ids
    BY <2>1 DEF Records
  <2> QED  BY <2>1, <2>2 DEF Ids
<1>3. f \in Injection(1 .. Len(rs), 1 .. created)
  BY <1>1, <1>2 DEF IsRows, Injection, IsInjective
<1>4. \A k \in Nat : IsFiniteSet(1 .. k) /\ Cardinality(1 .. k) = k
  <2> SUFFICES ASSUME NEW k \in Nat PROVE IsFiniteSet(1 .. k) /\ Cardinality(1 .. k) = k
    OBVIOUS
  <2>1. IsFiniteSet(1 .. k) /\ Cardinality(1 .. k) = IF 1 > k THEN 0 ELSE k - 1 + 1
    BY FS_Interval
  <2> QED  BY <2>1
<1> HIDE DEF f
<1>5. Cardinality(1 .. Len(rs)) <= Cardinality(1 .. created)
  BY <1>3, <1>4, FS_Injection
<1> QED  BY <1>1, <1>4, <1>5

LEMMA OthersIdle ==
  ASSUME OneCall, NEW c \in Calls, pc[c] # "idle"
  PROVE  \A d \in Calls : d # c => pc[d] = "idle"
BY DEF OneCall

(* Nothing saves while no call does: every session is exact.               *)
LEMMA AllExact ==
  ASSUME Serial, \A c \in Calls : pc[c] \notin Saving
  PROVE  \A i \in 1 .. created : Exact(i)
BY DEF Serial, OthersExact

LEMMA IssueIsSerial ==
  ASSUME SerialInv, lanes = 1, NEW c \in Calls, NEW o \in Requests, Issue(c, o)
  PROVE  Serial'
<1> DEFINE t == IF o.kind = "open" THEN {} ELSE Table(o.agent)
<1>1. /\ pc[c] = "idle" /\ pc' = [pc EXCEPT ![c] = "loading"]
      /\ rows' = [rows EXCEPT ![c] = t] /\ named \subseteq named'
      /\ UNCHANGED <<lanes, file, db, created, reply, vouched, settled, cut>>
  BY DEF Issue, Busy
<1>2. Serial /\ MppInv
  BY DEF SerialInv
<1>3. \A d \in Calls : pc[d] = "idle"
  <2>1. IsFiniteSet(Busy)
    BY BoundsAssumption, FS_Subset DEF Busy
  <2>2. Cardinality(Busy) \in Nat /\ Cardinality(Busy) < 1
    BY <2>1, FS_CardinalityType DEF Issue
  <2>3. Busy = {}
    BY <2>1, <2>2, FS_EmptySet
  <2> QED  BY <2>3 DEF Busy
<1>4. \A s \in t : \E i \in Known : s = db[i]
  BY DEF Table, OfAgent
<1>5. \A s \in t : s = db[s.id]
  BY <1>2, <1>4 DEF MppInv, TypeOK
<1> HIDE DEF t
<1>6. \A i \in 1 .. created : Exact(i)
  BY <1>2, <1>3, AllExact DEF Saving
<1>7. OneCall'
  BY <1>1, <1>2, <1>3 DEF OneCall, MppInv, TypeOK
<1>8. CallsAhead'
  <2>1. \A d \in Calls : IF d = c THEN pc'[d] = "loading" /\ rows'[d] = t ELSE pc'[d] = "idle"
    BY <1>1, <1>2, <1>3 DEF MppInv, TypeOK
  <2> QED  BY <1>1, <1>5, <2>1 DEF CallsAhead, Saving
<1>9. OthersExact'
  BY <1>1, <1>6 DEF OthersExact, Exact
<1>10. FileIsTable' /\ Fresh' /\ CutFits'
  BY <1>1, <1>2 DEF Serial, FileIsTable, Fresh, CutFits
<1> QED  BY <1>7, <1>8, <1>9, <1>10 DEF Serial

(* The rows a call loads are the table's.                                  *)
LEMMA LoadsTable ==
  ASSUME SerialInv, lanes = 1, NEW c \in Calls, pc[c] = "loading", NEW rs \in Loaded(c)
  PROVE  IsRows(rs) /\ \A n \in DOMAIN rs : rs[n] = db[rs[n].id]
<1>1. MppInv /\ Serial
  BY DEF SerialInv
<1>2. /\ IsRows(rs)
      /\ \A n \in DOMAIN rs : rs[n] \in rows[c] \/ (file # Torn /\ \E m \in DOMAIN file : rs[n] = file[m])
  BY <1>1, LoadedRows
<1> QED  BY <1>1, <1>2 DEF Serial, CallsAhead, FileIsTable

LEMMA SavesIsSerial ==
  ASSUME SerialInv, lanes = 1, NEW c \in Calls, pc[c] = "loading",
         NEW rs, NEW kind, NEW i, Saves(c, rs, kind, i),
         created' \in Nat, created <= created', \A j \in 1 .. created' : j <= created \/ j = i,
         \A n \in DOMAIN rs : rs[n].id # i => rs[n] = db[rs[n].id],
         db[i] = None => Len(rs) > 0 /\ rs[Len(rs)].id = i,
         i \notin named \cup cut =>
           settled[i] = 0 /\ \E n \in DOMAIN rs : /\ rs[n].id = i
                                                  /\ rs[n].used = vouched[i] + (IF kind = "voucher" THEN 1 ELSE 0)
                                                  /\ rs[n].open <=> kind # "close"
  PROVE  Serial'
<1>1. /\ pc' = [pc EXCEPT ![c] = "edited"] /\ rows' = [rows EXCEPT ![c] = rs]
      /\ reply' = [reply EXCEPT ![c] = [kind |-> kind, id |-> i]]
      /\ UNCHANGED <<lanes, file, db, op, named, vouched, settled, cut, ops>>
  BY DEF Saves
<1>2. Serial /\ MppInv /\ created \in Nat
  BY BoundsAssumption DEF SerialInv, MppInv, TypeOK
<1>3. \A d \in Calls : d # c => pc[d] = "idle"
  BY <1>2, OthersIdle DEF Serial
<1>4. /\ pc'[c] = "edited" /\ rows'[c] = rs /\ reply'[c].kind = kind /\ reply'[c].id = i
      /\ \A d \in Calls : d # c => pc'[d] = "idle"
  BY <1>1, <1>2, <1>3 DEF MppInv, TypeOK, CallTypes
<1>5. \A j \in 1 .. created : Exact(j)
  BY <1>2, <1>3, AllExact DEF Saving
<1>6. OneCall'
  BY <1>4 DEF OneCall
<1>7. CallsAhead'
  <2>1. Ahead(c, reply[c].id)'
    BY <1>1, <1>4 DEF Ahead, Owed
  <2> QED  BY <1>4, <2>1 DEF CallsAhead, Saving
<1>8. OthersExact'
  <2> SUFFICES ASSUME NEW j \in 1 .. created', \A d \in Calls : pc'[d] \in Saving => reply'[d].id # j
               PROVE  Exact(j)'
    BY DEF OthersExact
  <2>1. j # i
    BY <1>4 DEF Saving
  <2>2. j \in 1 .. created
    BY <1>2, <2>1
  <2> QED  BY <1>1, <1>5, <2>2 DEF Exact
<1>9. FileIsTable'
  BY <1>1, <1>2 DEF Serial, FileIsTable
<1>10. Fresh' /\ CutFits'
  <2>1. \A j \in Ids : j > created' => j > created
    BY <1>2 DEF Ids
  <2>2. created > KeepRows => created' > KeepRows
    BY <1>2, BoundsAssumption
  <2> QED  BY <1>1, <1>2, <2>1, <2>2 DEF Serial, Fresh, CutFits
<1> QED  BY <1>6, <1>7, <1>8, <1>9, <1>10 DEF Serial

LEMMA NewRowIsSerial ==
  ASSUME SerialInv, lanes = 1, NEW c \in Calls, pc[c] = "loading", created < MaxIds, created' = created + 1,
         NEW rs \in Loaded(c), NEW s \in Records, s.id = created + 1, s.used = 0, NEW kind \in {"open", "close"},
         s.open <=> kind # "close", Saves(c, Append(rs, s), kind, created + 1)
  PROVE  Serial'
<1> DEFINE more == Append(rs, s)
           i == created + 1
<1>1. IsRows(rs) /\ \A n \in DOMAIN rs : rs[n] = db[rs[n].id]
  BY LoadsTable
<1>2. created \in Nat /\ i \in Ids /\ TypeOK /\ Serial /\ MppInv
  BY BoundsAssumption DEF SerialInv, MppInv, TypeOK, Ids
<1>3. /\ more \in Seq(Records) /\ Len(more) = Len(rs) + 1 /\ more[Len(rs) + 1] = s
      /\ \A n \in DOMAIN rs : more[n] = rs[n]
      /\ DOMAIN more = DOMAIN rs \cup {Len(rs) + 1}
  BY <1>1, <1>2, MoreRows
<1>4. Len(rs) \in Nat
  BY <1>1 DEF IsRows
<1> HIDE DEF more
<1>5. vouched[i] = 0 /\ settled[i] = 0
  BY <1>2 DEF Serial, Fresh
<1>6. \A n \in DOMAIN more : more[n].id # i => more[n] = db[more[n].id]
  BY <1>1, <1>3
<1>7. Len(more) > 0 /\ more[Len(more)].id = i
  BY <1>3, <1>4
<1>8. \E n \in DOMAIN more : /\ more[n].id = i /\ more[n].used = vouched[i] + (IF kind = "voucher" THEN 1 ELSE 0)
                             /\ more[n].open <=> kind # "close"
  BY <1>3, <1>5
<1>9. created' \in Nat /\ created <= created' /\ \A j \in 1 .. created' : j <= created \/ j = i
  BY <1>2
<1>10. Saves(c, more, kind, i)
  BY DEF more
<1> HIDE DEF i
<1> QED  BY <1>5, <1>6, <1>7, <1>8, <1>9, <1>10, SavesIsSerial

LEMMA OpenIsSerial ==
  ASSUME SerialInv, lanes = 1, NEW c \in Calls, Open(c)
  PROVE  Serial'
<1>1. pc[c] = "loading" /\ op[c].kind = "open" /\ created < MaxIds /\ created' = created + 1 /\ MppInv
  BY DEF Open, Reads, SerialInv
<1>2. PICK rs \in Loaded(c) : Saves(c, Append(rs, Session(created + 1, op[c].agent)), "open", created + 1)
  BY <1>1 DEF Open
<1>3. op[c].agent \in Agents
  BY <1>1 DEF MppInv, CallTypes
<1> DEFINE s == Session(created + 1, op[c].agent)
<1>4. s \in Records /\ s.id = created + 1 /\ s.used = 0 /\ s.open
  BY <1>1, <1>3, NewSession
<1> HIDE DEF s
<1>5. Saves(c, Append(rs, s), "open", created + 1)
  BY <1>2 DEF s
<1> QED  BY <1>1, <1>4, <1>5, NewRowIsSerial

LEMMA CloseOpensIsSerial ==
  ASSUME SerialInv, lanes = 1, NEW c \in Calls, CloseOpens(c)
  PROVE  Serial'
<1>1. pc[c] = "loading" /\ op[c].kind = "close" /\ created < MaxIds /\ created' = created + 1 /\ MppInv
  BY DEF CloseOpens, Reads, SerialInv
<1>2. PICK rs \in Loaded(c) : Saves(c, Append(rs, Edited(c, Session(created + 1, Owner(c)))), "close", created + 1)
  BY <1>1 DEF CloseOpens
<1>3. Owner(c) \in Agents \cup {Probe}
  BY <1>1, Calling
<1> DEFINE new == Session(created + 1, Owner(c))
           s == Edited(c, new)
<1>4. new \in Records /\ new.id = created + 1 /\ new.used = 0
  BY <1>1, <1>3, NewSession
<1> HIDE DEF new
<1>5. s \in Records /\ s.id = created + 1 /\ s.used = 0 /\ ~s.open
  BY <1>1, <1>4, EditedRow
<1> HIDE DEF s
<1>6. Saves(c, Append(rs, s), "close", created + 1)
  BY <1>2 DEF s, new
<1> QED  BY <1>1, <1>5, <1>6, NewRowIsSerial

LEMMA EditDetachedIsSerial ==
  ASSUME SerialInv, lanes = 1, NEW c \in Calls, EditDetached(c)
  PROVE  Serial'
<1>1. pc[c] = "loading" /\ op[c].kind \in MppKinds /\ created' = created /\ op[c].id # None /\ MppInv
  BY DEF EditDetached, Reads, Direct, MppKinds, SerialInv
<1>2. PICK rs \in Loaded(c) : Saves(c, rs, op[c].kind, op[c].id)
  BY DEF EditDetached
<1>3. \A n \in DOMAIN rs : rs[n] = db[rs[n].id]
  BY <1>1, LoadsTable
<1>4. op[c].id \in named /\ db[op[c].id] # None /\ created \in Nat
  BY <1>1, BoundsAssumption DEF MppInv, TypeOK, CallTypes, Known
<1>5. \A j \in 1 .. created' : j <= created \/ j = op[c].id
  BY <1>1, <1>4
<1> QED  BY <1>1, <1>2, <1>3, <1>4, <1>5, SavesIsSerial

LEMMA EditRowIsSerial ==
  ASSUME SerialInv, lanes = 1, NEW c \in Calls, EditRow(c)
  PROVE  Serial'
<1>1. pc[c] = "loading" /\ op[c].kind \in {"voucher", "close"} /\ created' = created /\ MppInv /\ Serial
  BY DEF EditRow, Reads, SerialInv
<1>a. PICK rs \in Loaded(c) : \E n \in OpenRow(c, rs) :
        Saves(c, [rs EXCEPT ![n] = Edited(c, rs[n])], op[c].kind, rs[n].id)
  BY DEF EditRow
<1>2. PICK n \in OpenRow(c, rs) : Saves(c, [rs EXCEPT ![n] = Edited(c, rs[n])], op[c].kind, rs[n].id)
  BY <1>a
<1> DEFINE s == Edited(c, rs[n])
           edited == [rs EXCEPT ![n] = s]
           i == rs[n].id
<1>3. IsRows(rs) /\ \A m \in DOMAIN rs : rs[m] = db[rs[m].id]
  BY <1>1, LoadsTable
<1>4. n \in DOMAIN rs /\ rs[n].open /\ created \in Nat
  BY <1>1, <1>2, BoundsAssumption DEF MppInv, TypeOK, OpenRow, Wanted
<1>5. /\ rs[n] \in Records /\ i \in 1 .. created /\ rs[n] = db[i]
      /\ rs[n].used \in Nat /\ vouched[i] \in Nat
  BY <1>1, <1>3, <1>4, RowFacts DEF MppInv
<1>6. /\ s \in Records /\ s.id = i /\ s.used = rs[n].used + (IF op[c].kind = "voucher" THEN 1 ELSE 0)
      /\ s.open <=> op[c].kind = "voucher"
  BY <1>1, <1>4, <1>5, EditedRow
<1> HIDE DEF s
<1>7. /\ DOMAIN edited = DOMAIN rs /\ edited[n] = s
      /\ \A m \in DOMAIN rs \ {n} : edited[m] = rs[m]
  BY <1>3, <1>4, <1>6, EditedRows
<1>8. Saves(c, edited, op[c].kind, i)
  BY <1>2 DEF s
<1> HIDE DEF edited
<1>9. Exact(i)
  <2>1. \A d \in Calls : pc[d] \notin Saving
    BY <1>1, OthersIdle DEF Serial, Saving
  <2> QED  BY <1>1, <1>5, <2>1, AllExact
<1>10. i \notin named \cup cut => rs[n].used = vouched[i] /\ settled[i] = 0
  BY <1>4, <1>5, <1>9 DEF Exact
<1>11. \A m \in DOMAIN edited : edited[m].id # i => edited[m] = db[edited[m].id]
  BY <1>3, <1>6, <1>7
<1>12. db[i] # None
  BY <1>9 DEF Exact
<1>13. i \notin named \cup cut =>
         settled[i] = 0 /\ \E m \in DOMAIN edited : /\ edited[m].id = i
                                                    /\ edited[m].used = vouched[i] + (IF op[c].kind = "voucher" THEN 1 ELSE 0)
                                                    /\ edited[m].open <=> op[c].kind # "close"
  BY <1>1, <1>4, <1>6, <1>7, <1>10
<1>14. created' \in Nat /\ created <= created' /\ \A j \in 1 .. created' : j <= created \/ j = i
  BY <1>1, <1>4
<1> HIDE DEF i
<1> QED  BY <1>1, <1>8, <1>11, <1>12, <1>13, <1>14, SavesIsSerial
LEMMA AnswerOnlyIsSerial ==
  ASSUME SerialInv, lanes = 1, NEW c \in Calls, AnswerOnly(c)
  PROVE  Serial'
<1>1. /\ pc' = [pc EXCEPT ![c] = "idle"] /\ rows' = [rows EXCEPT ![c] = <<>>]
      /\ UNCHANGED <<lanes, file, db, created, reply, named, vouched, settled, cut, ops>>
      /\ pc[c] = "loading" /\ Serial /\ MppInv
  BY DEF AnswerOnly, Reads, SerialInv
<1>2. \A d \in Calls : pc'[d] = "idle" /\ pc[d] \notin Saving
  BY <1>1, OthersIdle DEF Serial, Saving, MppInv, TypeOK
<1>3. \A j \in 1 .. created : Exact(j)
  BY <1>1, <1>2, AllExact
<1>4. OneCall' /\ CallsAhead'
  BY <1>2 DEF OneCall, CallsAhead, Saving
<1>5. OthersExact'
  BY <1>1, <1>3 DEF OthersExact, Exact
<1>6. FileIsTable' /\ Fresh' /\ CutFits'
  BY <1>1 DEF Serial, FileIsTable, Fresh, CutFits
<1> QED  BY <1>4, <1>5, <1>6 DEF Serial

LEMMA TruncateIsSerial ==
  ASSUME SerialInv, lanes = 1, NEW c \in Calls, Truncate(c)
  PROVE  Serial'
<1>1. /\ pc[c] = "edited" /\ pc' = [pc EXCEPT ![c] = "writing"] /\ file' = Torn
      /\ UNCHANGED <<lanes, db, created, op, rows, reply, named, vouched, settled, cut, ops>>
      /\ Serial /\ MppInv
  BY DEF Truncate, SerialInv
<1>2. \A d \in Calls : IF d = c THEN pc'[d] = "writing" ELSE pc'[d] = "idle" /\ pc[d] = "idle"
  BY <1>1, OthersIdle DEF Serial, MppInv, TypeOK
<1>3. OneCall'
  BY <1>2 DEF OneCall
<1>4. CallsAhead'
  BY <1>1, <1>2 DEF Serial, CallsAhead, Ahead, Owed, Saving
<1>5. OthersExact'
  <2>1. \A d \in Calls : pc'[d] \in Saving <=> pc[d] \in Saving
    BY <1>1, <1>2 DEF Saving
  <2> QED  BY <1>1, <2>1 DEF Serial, OthersExact, Exact
<1>6. FileIsTable' /\ Fresh' /\ CutFits'
  BY <1>1 DEF Serial, FileIsTable, Fresh, CutFits
<1> QED  BY <1>3, <1>4, <1>5, <1>6 DEF Serial

LEMMA WriteIsSerial ==
  ASSUME SerialInv, lanes = 1, NEW c \in Calls, Write(c)
  PROVE  Serial'
<1> DEFINE kept == Kept(rows[c])
           i == reply[c].id
           lost == {i} \cap (IdsIn(rows[c]) \ IdsIn(kept))
<1>1. /\ pc[c] \in Saving /\ (file' = kept \/ file' = Torn)
      /\ db' = [j \in Ids |-> VersionIn(ToSet(kept), j, db[j])]
      /\ pc' = [d \in Calls |-> IF d = c THEN "idle" ELSE IF pc[d] = "writing" THEN "mixed" ELSE pc[d]]
      /\ vouched' = CountedIf(reply[c].kind = "voucher", vouched, i)
      /\ settled' = CountedIf(reply[c].kind = "close", settled, i)
      /\ cut' = cut \cup lost
      /\ UNCHANGED <<lanes, created, named, ops>>
  BY DEF Write, Saving
<1>2. /\ TypeOK /\ Serial /\ IsRows(rows[c]) /\ reply[c].kind \in MppKinds
      /\ i \in 1 .. created /\ created \in Nat /\ i \in Ids
  BY <1>1, BoundsAssumption DEF SerialInv, MppInv, TypeOK, CallTypes, Saving, Ids
<1>3. \A d \in Calls : pc'[d] = "idle" /\ (d # c => pc[d] = "idle")
  BY <1>1, <1>2, OthersIdle DEF Serial, Saving
<1>4. /\ IsRows(kept) /\ \A n \in DOMAIN kept : \E m \in DOMAIN rows[c] : kept[n] = rows[c][m]
      /\ Len(rows[c]) > 0 => \E n \in DOMAIN kept : kept[n] = rows[c][Len(rows[c])]
      /\ Len(rows[c]) <= KeepRows => kept = rows[c]
  BY <1>2, KeptRows
<1>5. Ahead(c, i)
  BY <1>1, <1>2 DEF Serial, CallsAhead
<1> HIDE DEF kept
<1>6. /\ vouched' \in [Ids -> Nat] /\ settled' \in [Ids -> Nat]
      /\ \A j \in Ids : vouched'[j] = vouched[j] + Owed(c, j)
      /\ \A j \in Ids : settled'[j] = settled[j] + IF reply[c].kind = "close" /\ i = j THEN 1 ELSE 0
  BY <1>1, <1>2 DEF TypeOK, CountedIf, Owed
<1>7. lost # {} => i \in lost /\ i \notin IdsIn(kept) /\ kept # rows[c]
  OBVIOUS
<1>8. i \in IdsIn(rows[c]) /\ i \notin IdsIn(kept) => i \in cut'
  BY <1>1
<1>9. cut \subseteq cut' /\ (lost = {} => cut' = cut)
  BY <1>1
<1> HIDE DEF lost
<1>10. \A n \in DOMAIN kept : kept[n] \in Records /\ kept[n].id <= created /\ kept[n].id \in Ids /\ kept[n] # None
  <2> SUFFICES ASSUME NEW n \in DOMAIN kept
               PROVE  kept[n] \in Records /\ kept[n].id <= created /\ kept[n].id \in Ids /\ kept[n] # None
    OBVIOUS
  <2>1. kept[n] \in Records /\ kept[n].id <= created
    BY <1>4 DEF IsRows
  <2> QED  BY <2>1, BoundsAssumption DEF Records
<1>11. ASSUME NEW j \in Ids
       PROVE  IF j \in IdsIn(kept) THEN \E n \in DOMAIN kept : kept[n].id = j /\ db'[j] = kept[n]
              ELSE db'[j] = db[j]
  <2> DEFINE S == ToSet(kept)
  <2>1. db'[j] = VersionIn(S, j, db[j])
    BY <1>1
  <2>2. \A s : s \in S <=> \E n \in DOMAIN kept : s = kept[n]
    BY DEF ToSet
  <2> HIDE DEF S
  <2>3. \/ \E s \in S : s.id = j /\ VersionIn(S, j, db[j]) = s
        \/ (\A s \in S : s.id # j) /\ VersionIn(S, j, db[j]) = db[j]
    BY VersionIs
  <2> QED  BY <2>1, <2>2, <2>3 DEF IdsIn
<1>12. \A n \in DOMAIN kept : db'[kept[n].id] = kept[n]
  <2> SUFFICES ASSUME NEW n \in DOMAIN kept PROVE db'[kept[n].id] = kept[n]
    OBVIOUS
  <2>1. PICK m \in DOMAIN kept : kept[m].id = kept[n].id /\ db'[kept[n].id] = kept[m]
    BY <1>10, <1>11 DEF IdsIn
  <2> QED  BY <1>4, <2>1 DEF IsRows
<1>13. \A n \in DOMAIN kept : kept[n].id # i => kept[n] = db[kept[n].id]
  BY <1>4, <1>5 DEF Ahead
<1>14. \A j \in Ids : j # i => db'[j] = db[j] /\ vouched'[j] = vouched[j] /\ settled'[j] = settled[j]
  <2> SUFFICES ASSUME NEW j \in Ids, j # i
               PROVE  db'[j] = db[j] /\ vouched'[j] = vouched[j] /\ settled'[j] = settled[j]
    OBVIOUS
  <2>1. db'[j] = db[j]
    BY <1>11, <1>13
  <2>2. vouched'[j] = vouched[j] /\ settled'[j] = settled[j]
    BY <1>2, <1>6 DEF TypeOK, Owed
  <2> QED  BY <2>1, <2>2
<1>15. db'[i] # None
  <2>1. CASE i \in IdsIn(kept)
    BY <1>2, <1>10, <1>11, <2>1
  <2>2. CASE i \notin IdsIn(kept) /\ db[i] # None
    BY <1>2, <1>11, <2>2
  <2>3. CASE i \notin IdsIn(kept) /\ db[i] = None
    BY <1>4, <1>5, <2>3 DEF Ahead, IdsIn
  <2> QED  BY <2>1, <2>2, <2>3
<1>16. ASSUME i \notin named \cup cut'
       PROVE  db'[i].used = vouched'[i] /\ settled'[i] = IF db'[i].open THEN 0 ELSE 1
  <2>1. i \notin named \cup cut
    BY <1>9, <1>16
  <2>2. PICK m \in DOMAIN rows[c] : /\ rows[c][m].id = i /\ rows[c][m].used = vouched[i] + Owed(c, i)
                                    /\ rows[c][m].open <=> reply[c].kind # "close"
    BY <1>5, <2>1 DEF Ahead
  <2>3. settled[i] = 0
    BY <1>5, <2>1 DEF Ahead
  <2>4. i \in IdsIn(kept)
    BY <1>8, <1>16, <2>2 DEF IdsIn
  <2>5. PICK n \in DOMAIN kept : kept[n].id = i /\ db'[i] = kept[n]
    BY <1>2, <1>11, <2>4
  <2>6. kept[n] = rows[c][m]
    BY <1>2, <1>4, <2>2, <2>5 DEF IsRows
  <2>7. db'[i].used = vouched'[i]
    BY <1>2, <1>6, <2>2, <2>5, <2>6
  <2>8. settled'[i] = IF reply[c].kind = "close" THEN 1 ELSE 0
    BY <1>2, <1>6, <2>3
  <2> QED  BY <2>2, <2>5, <2>6, <2>7, <2>8
<1>17. ASSUME NEW j \in 1 .. created PROVE Exact(j)'
  <2>1. CASE j = i
    BY <1>1, <1>15, <1>16, <2>1 DEF Exact
  <2>2. CASE j # i
    <3>1. \A d \in Calls : pc[d] \in Saving => reply[d].id # j
      BY <1>3, <2>2 DEF Saving
    <3>2. Exact(j)
      BY <1>2, <3>1 DEF Serial, OthersExact
    <3>3. j \in Ids
      <4>1. created \in 0 .. MaxIds /\ MaxIds \in Nat
        BY <1>2, BoundsAssumption DEF TypeOK
      <4> QED  BY <4>1 DEF Ids
    <3>4. db'[j] = db[j] /\ vouched'[j] = vouched[j] /\ settled'[j] = settled[j]
      BY <1>14, <2>2, <3>3
    <3> QED  BY <1>1, <1>9, <3>2, <3>4 DEF Exact
  <2> QED  BY <2>1, <2>2
<1>18. OthersExact'
  BY <1>1, <1>17 DEF OthersExact
<1>19. OneCall' /\ CallsAhead'
  BY <1>3 DEF OneCall, CallsAhead, Saving
<1>20. FileIsTable'
  BY <1>1, <1>12 DEF FileIsTable
<1>21. Fresh'
  <2> SUFFICES ASSUME NEW j \in Ids, j > created PROVE vouched'[j] = 0 /\ settled'[j] = 0
    BY <1>1 DEF Fresh
  <2>1. j # i /\ vouched[j] = 0 /\ settled[j] = 0
    BY <1>2 DEF Serial, Fresh
  <2> QED  BY <1>14, <2>1
<1>22. CutFits'
  <2>1. CASE lost = {}
    BY <1>1, <1>2, <1>9, <2>1 DEF Serial, CutFits
  <2>2. CASE lost # {}
    <3>1. Len(rows[c]) \in Nat /\ Len(rows[c]) <= created /\ ~(Len(rows[c]) <= KeepRows)
      BY <1>2, <1>4, <1>7, <2>2, RowsFit
    <3>2. created > KeepRows
      BY <1>2, <3>1, BoundsAssumption
    <3> QED  BY <1>1, <3>2 DEF CutFits
  <2> QED  BY <2>1, <2>2
<1> QED  BY <1>18, <1>19, <1>20, <1>21, <1>22 DEF Serial

LEMMA SerialStep ==
  ASSUME SerialInv, [Next]_vars
  PROVE  SerialInv'
<1>1. MppInv'
  BY MppStepKeeps DEF SerialInv
<1>2. lanes' = lanes
  BY DEF Next, vars, Issue, Open, EditDetached, EditRow, CloseOpens, AnswerOnly, Truncate, Write, Saves
<1>3. ASSUME lanes = 1 PROVE Serial'
  <2>1. ASSUME NEW c \in Calls, NEW o \in Requests, Issue(c, o) PROVE Serial'
    BY <1>3, <2>1, IssueIsSerial
  <2>2. ASSUME NEW c \in Calls, Open(c) \/ EditDetached(c) \/ EditRow(c) \/ CloseOpens(c) PROVE Serial'
    BY <1>3, <2>2, OpenIsSerial, EditDetachedIsSerial, EditRowIsSerial, CloseOpensIsSerial
  <2>3. ASSUME NEW c \in Calls, AnswerOnly(c) \/ Truncate(c) \/ Write(c) PROVE Serial'
    BY <1>3, <2>3, AnswerOnlyIsSerial, TruncateIsSerial, WriteIsSerial
  <2>4. CASE UNCHANGED vars
    BY <1>3, <2>4 DEF vars, SerialInv, Serial, OneCall, FileIsTable, CallsAhead, Ahead, Owed, OthersExact, Exact, Fresh, CutFits
  <2> QED  BY <2>1, <2>2, <2>3, <2>4 DEF Next
<1> QED  BY <1>1, <1>2, <1>3 DEF SerialInv

(* With one call at a time, a session that clients only find through its   *)
(* agent (findOpenSession, mpp-session-v2.ts:146-158) is billed exactly:   *)
(* every acknowledged voucher counted, one settlement iff it is closed;    *)
(* an edit is lost only beyond the rows that saveSessions keeps.           *)
THEOREM SerialByAgent == Spec => []SerialByAgentIsExact
<1>1. Init => SerialInv
  BY MppStarts, SerialStarts DEF SerialInv
<1>2. SerialInv /\ [Next]_vars => SerialInv'
  BY SerialStep
<1>3. SerialInv => SerialByAgentIsExact
  <2> SUFFICES ASSUME SerialInv, lanes = 1
               PROVE  /\ cut # {} => created > KeepRows
                      /\ Busy = {} => \A i \in 1 .. created : Exact(i)
    BY DEF SerialByAgentIsExact, Exact
  <2>1. Serial
    BY DEF SerialInv
  <2>2. ASSUME Busy = {} PROVE \A i \in 1 .. created : Exact(i)
    <3>1. \A c \in Calls : pc[c] \notin Saving
      BY <2>2 DEF Busy, Saving
    <3> QED  BY <2>1, <3>1, AllExact
  <2> QED  BY <2>1, <2>2 DEF Serial, CutFits
<1> QED  BY <1>1, <1>2, <1>3, PTL DEF Spec
=============================================================================
