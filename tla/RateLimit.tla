----------------------------- MODULE RateLimit -----------------------------
(***************************************************************************)
(* The in-memory limiters of src/src/lib/rate-limit.ts: one map of buckets *)
(* per limiter (unpaid probes and paid calls per IP, guarded calls per     *)
(* wallet, free lookups per IP), each bucket counting the requests of one  *)
(* window that starts with the first of them.  A timer sweeps buckets      *)
(* whose window is over; a restart forgets them all.                       *)
(***************************************************************************)
EXTENDS Integers, FiniteSets, Functions

CONSTANTS Limiters,     \* the limiters mounted
          LimitKeys,    \* IPs and wallets
          Limit,        \* requests a limiter lets through per window
          Window,       \* length of a window in ticks
          MaxClock,     \* bound: the clock stops here
          MaxCount,     \* bound: requests counted in one bucket
          NoBucket

ASSUME LimitAssumption == /\ Limit \in [Limiters -> Nat] /\ Window \in Nat \ {0} /\ MaxClock \in Nat
                          /\ NoBucket \notin [count : Nat, resetAt : Nat]

VARIABLES clock,        \* Date.now(), in ticks
          bucket,       \* the maps: [limiter -> [key -> bucket]]
          passed        \* history: requests let through per tick since the process started

rateVars == <<bucket, passed>>

Ticks == 0..MaxClock
Buckets == [count : 0..MaxCount, resetAt : 0..(MaxClock + Window)] \cup {NoBucket}

NothingPassed == [l \in Limiters |-> [k \in LimitKeys |-> [t \in Ticks |-> 0]]]

RateInit == /\ clock = 0
            /\ bucket = [l \in Limiters |-> [k \in LimitKeys |-> NoBucket]]
            /\ passed = NothingPassed

Over(b) == b = NoBucket \/ clock >= b.resetAt

(* A bucket after one more request. *)
Bumped(b) == IF Over(b) THEN [count |-> 1, resetAt |-> clock + Window]
                        ELSE [b EXCEPT !.count = @ + 1]

Meters == [bucket |-> bucket, passed |-> passed]

(* The meters m after limiter l counted a request of key k, let through or *)
(* not.                                                                    *)
Counted(m, l, k) ==
    LET b == Bumped(m.bucket[l][k])
    IN  [bucket |-> [m.bucket EXCEPT ![l][k] = b],
         passed |-> IF b.count <= Limit[l] THEN [m.passed EXCEPT ![l][k][clock] = @ + 1]
                                           ELSE m.passed]

Refuses(m, l, k) == m.bucket[l][k].count > Limit[l]

SetMeters(m) == bucket' = m.bucket /\ passed' = m.passed

(* A request reaches limiter l under key k. *)
Hit(l, k) == /\ Bumped(bucket[l][k]).count <= MaxCount
             /\ SetMeters(Counted(Meters, l, k))
             /\ UNCHANGED clock

SweptEarly(b) == IF b = NoBucket \/ clock + 1 >= b.resetAt THEN NoBucket ELSE b  \* mutant
Swept(b) == IF Over(b) THEN NoBucket ELSE b

(* Every five minutes: pruneExpired on every map. *)
Sweep == /\ bucket' = [l \in Limiters |-> [k \in LimitKeys |-> Swept(bucket[l][k])]]
         /\ UNCHANGED <<clock, passed>>

Tick == /\ clock < MaxClock
        /\ clock' = clock + 1
        /\ UNCHANGED rateVars

Restart == /\ bucket' = [l \in Limiters |-> [k \in LimitKeys |-> NoBucket]]
           /\ passed' = NothingPassed
           /\ UNCHANGED clock

(* What happens to limiter l, with requests under keys ks. *)
LimiterNext(l, ks) == \/ \E k \in ks : Hit(l, k)
                      \/ Sweep
                      \/ Tick
                      \/ Restart

RateNext == \E l \in Limiters : LimiterNext(l, LimitKeys)

RateSpec == RateInit /\ [][RateNext]_<<clock, rateVars>>

RateTypeOK == /\ clock \in Ticks
              /\ bucket \in [Limiters -> [LimitKeys -> Buckets]]
              /\ passed \in [Limiters -> [LimitKeys -> [Ticks -> Nat]]]

-----------------------------------------------------------------------------
PassedIn(l, k, from, to) == SumFunctionOnSet(passed[l][k], Ticks \cap (from..to))
Capped(n, most) == IF n < most THEN n ELSE most

(* An open bucket has counted exactly the requests let through since its   *)
(* window began, sweeps included, so a full bucket stays full until its    *)
(* window is over; and since windows are fixed, not sliding as the comment *)
(* at rate-limit.ts:35 says, no span of one window's length lets through   *)
(* more than twice the limit.                                              *)
WindowsHold ==
    \A l \in Limiters, k \in LimitKeys :
        LET b == bucket[l][k]
        IN  /\ ~Over(b) => PassedIn(l, k, b.resetAt - Window, clock)
                               = Capped(b.count, Limit[l])
            /\ \A t \in Ticks : PassedIn(l, k, t - Window + 1, t) <= 2 * Limit[l]
=============================================================================
