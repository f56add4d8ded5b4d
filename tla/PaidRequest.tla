---------------------------- MODULE PaidRequest ----------------------------
(***************************************************************************)
(* The life of the paid POST requests that reach one route of the server: *)
(* idempotencyPreCheck, the paid middleware with its time budget, the     *)
(* external x402 settlement, idempotencyCapture and the core handler, in  *)
(* the order routes/shared.ts:createPost chains them.                      *)
(*                                                                         *)
(* Node runs one callback at a time and better-sqlite3 is synchronous, so  *)
(* an action is the code between two awaits.  idempotency_cache,           *)
(* idempotency_inflight and used_nonces are SQLite tables and outlive a    *)
(* crash; everything else dies with the process.                           *)
(***************************************************************************)
EXTENDS Naturals, FiniteSets

CONSTANTS
  Reqs,         \* requests; each arrives at most once
  Shapes,       \* what a request may look like (see ShapeType)
  Keys,         \* idempotency keys, already prefixed by the route
  Payments,     \* signed payments, identified by what the chain accepts once
  Bodies,       \* request bodies, up to equal hash
  NoKey, NoEntry, NoReq,
  PruneEvery,   \* PRUNE_EVERY, 1000 in the code
  AsyncMarks,   \* TRUE when Redis is configured: marks land after a round trip
  MaxTimeouts,  \* bound: budget timers that may fire in a behaviour
  MaxCrashes    \* bound: process crashes in a behaviour

(* form says which layers recognise the key: "full" both; "short" (under 8 *)
(* characters) only the response cache; "alias" (X-Idempotency-Key, or     *)
(* over 128 characters) only the payment layer.                            *)
ShapeType ==
  [signed : BOOLEAN, key : Keys \cup {NoKey}, form : {"full", "short", "alias"},
   pay : Payments, visible : BOOLEAN, body : Bodies, trusted : BOOLEAN]

(* What may be written to a client, and a row of idempotency_cache. *)
Contents ==
  {"nothing", "result", "error", "payment required", "facilitator timeout", "untrusted",
   "in progress", "different body", "fulfilled", "nonce used"}
Answer == [status : {0, 200, 402, 403, 409, 500}, what : Contents, from : Reqs \cup {NoReq}]
Entry  == [resp : Answer, body : Bodies, expired : BOOLEAN]

ASSUME ShapesAssumption == Shapes \subseteq ShapeType
ASSUME NamesAssumption  == NoKey \notin Keys /\ NoReq \notin Reqs /\ NoEntry \notin Entry
ASSUME BoundsAssumption ==
  /\ PruneEvery \in Nat /\ PruneEvery >= 2
  /\ AsyncMarks \in BOOLEAN
  /\ MaxTimeouts \in Nat /\ MaxCrashes \in Nat

VARIABLES
  req,        \* the shape of each request
  pc,         \* where each request is in the chain
  claimed,    \* requests that carry idempotencyClaimKey
  locked,     \* requests whose response the budget timer locked
  answer,     \* what was written to each client
  cache,      \* idempotency_cache: key -> stored response
  inflight,   \* idempotency_inflight: key -> age of the claim
  usedKeys,   \* used_nonces rows "idem:..."
  usedNonces, \* used_nonces rows "pay:..."
  marking,    \* settled requests whose marks have not landed yet
  chain,      \* external: payments the chain has settled
  paid,       \* requests whose payment was settled
  ran,        \* requests whose core handler was entered
  prunes,     \* _pruneCounter
  crashes     \* crashes so far

vars == <<req, pc, claimed, locked, answer, cache, inflight, usedKeys,
          usedNonces, marking, chain, paid, ran, prunes, crashes>>

tables   == <<cache, inflight, prunes>>
marks    == <<usedKeys, usedNonces, marking>>
payments == <<chain, paid, ran>>

-----------------------------------------------------------------------------
(* What each layer reads from a request. *)

PreKey(r) == IF req[r].form = "alias" THEN NoKey ELSE req[r].key
PayKey(r) == IF req[r].form = "short" THEN NoKey ELSE req[r].key
Nonce(r)  == IF req[r].visible THEN {req[r].pay} ELSE {}

(* idempotencyPreCheck looks at the key only when a payment is attached. *)
Guarded(r) == req[r].signed /\ PreKey(r) # NoKey

Suspended == {"quote", "verify", "settled"}
Active(r) == pc[r] \in Suspended \cup {"handler"}

Unanswered == [status |-> 0, what |-> "nothing", from |-> NoReq]
Response(code, what, r) == [status |-> code, what |-> what, from |-> r]
Refusal(code, what)     == Response(code, what, NoReq)

(* maybePrune, called once by every loadHit: the state after n calls. *)
Prunes(n)   == prunes + n >= PruneEvery
CountNoReset(n) == prunes + n                                 \* mutant
Count(n)    == IF Prunes(n) THEN prunes + n - PruneEvery ELSE prunes + n
CacheAtNoTtl(n) == [k \in Keys |-> IF Prunes(n) THEN NoEntry ELSE cache[k]] \* mutant
CacheAt(n)  == [k \in Keys |->
                  IF Prunes(n) /\ cache[k] # NoEntry /\ cache[k].expired
                  THEN NoEntry ELSE cache[k]]
ClaimsAtNoAge(n) == [k \in Keys |-> IF Prunes(n) THEN "none" ELSE inflight[k]] \* mutant
ClaimsAt(n) == [k \in Keys |->
                  IF Prunes(n) /\ inflight[k] = "old" THEN "none" ELSE inflight[k]]

Hit(k) == cache[k] # NoEntry /\ ~cache[k].expired

-----------------------------------------------------------------------------
Init ==
  /\ req \in [Reqs -> Shapes]
  /\ pc = [r \in Reqs |-> "new"]
  /\ claimed = {} /\ locked = {}
  /\ answer = [r \in Reqs |-> Unanswered]
  /\ cache = [k \in Keys |-> NoEntry]
  /\ inflight = [k \in Keys |-> "none"]
  /\ usedKeys = {} /\ usedNonces = {} /\ marking = {}
  /\ chain = {} /\ paid = {} /\ ran = {}
  /\ prunes = 0 /\ crashes = 0

(* res.status(..).json(..) on a response the guard may have locked. *)
Write(r, resp) ==
  answer' = IF r \in locked THEN answer ELSE [answer EXCEPT ![r] = resp]

(* The request is answered before the capture wrappers exist: whatever     *)
(* claim it carries stays in the table.                                    *)
Refuse(r, resp) ==
  /\ pc' = [pc EXCEPT ![r] = "done"]
  /\ Write(r, resp)

-----------------------------------------------------------------------------
(* Arrival: idempotencyPreCheck. *)

ReplayAnyBody(r) == cache[PreKey(r)].resp                          \* mutant
Replay(r) ==
  IF cache[PreKey(r)].body = req[r].body
  THEN cache[PreKey(r)].resp ELSE Refusal(409, "different body")

ArriveHit(r) ==
  /\ pc[r] = "new" /\ Guarded(r) /\ Hit(PreKey(r))
  /\ Refuse(r, Replay(r))
  /\ cache' = CacheAt(1) /\ inflight' = ClaimsAt(1) /\ prunes' = Count(1)
  /\ UNCHANGED <<req, claimed, locked, marks, payments, crashes>>

(* INSERT OR IGNORE changed nothing; the second loadHit cannot hit in one  *)
(* process, but it counts towards pruning.                                 *)
ArriveBusy(r) ==
  /\ pc[r] = "new" /\ Guarded(r) /\ ~Hit(PreKey(r))
  /\ ClaimsAt(1)[PreKey(r)] # "none"
  /\ Refuse(r, Refusal(409, "in progress"))
  /\ cache' = CacheAt(2) /\ inflight' = ClaimsAt(2) /\ prunes' = Count(2)
  /\ UNCHANGED <<req, claimed, locked, marks, payments, crashes>>

(* The checks paidHandler makes before it first awaits. *)
Admission(r) ==
  IF ~req[r].signed THEN "quote"
  ELSE IF PayKey(r) \in usedKeys THEN "fulfilled"
  ELSE IF ~req[r].trusted THEN "untrusted"
  ELSE IF Nonce(r) \cap usedNonces # {} THEN "nonce used"
  ELSE "verify"

Admit(r) ==
  \/ /\ Admission(r) \in {"quote", "verify"}
     /\ pc' = [pc EXCEPT ![r] = Admission(r)] /\ UNCHANGED answer
  \/ Admission(r) = "untrusted" /\ Refuse(r, Refusal(403, "untrusted"))
  \/ /\ Admission(r) \in {"fulfilled", "nonce used"}
     /\ Refuse(r, Refusal(409, Admission(r)))

ArriveClaim(r) ==
  /\ pc[r] = "new" /\ Guarded(r) /\ ~Hit(PreKey(r))
  /\ ClaimsAt(1)[PreKey(r)] = "none"
  /\ inflight' = [ClaimsAt(1) EXCEPT ![PreKey(r)] = "fresh"]
  /\ cache' = CacheAt(1) /\ prunes' = Count(1)
  /\ claimed' = claimed \cup {r}
  /\ Admit(r)
  /\ UNCHANGED <<req, locked, marks, payments, crashes>>

ArriveUnguarded(r) ==
  /\ pc[r] = "new" /\ ~Guarded(r)
  /\ Admit(r)
  /\ UNCHANGED <<req, claimed, locked, tables, marks, payments, crashes>>

-----------------------------------------------------------------------------
(* The x402 middleware: external, known by how the code uses it. *)

(* No payment, or one the facilitator refuses: it answers 402 itself. *)
AnswerUnpaid(r) ==
  /\ pc[r] \in {"quote", "verify"}
  /\ Refuse(r, Refusal(402, "payment required"))
  /\ UNCHANGED <<req, claimed, locked, tables, marks, payments, crashes>>

(* The chain takes a payment once. *)
ChainSettles(r) ==
  /\ pc[r] = "verify" /\ req[r].pay \notin chain
  /\ chain' = chain \cup {req[r].pay} /\ paid' = paid \cup {r}
  /\ pc' = [pc EXCEPT ![r] = "settled"]
  /\ UNCHANGED <<req, claimed, locked, answer, tables, marks, ran, crashes>>

(* The facilitator's answer times out although the payment went through. *)
SettlementLost(r) ==
  /\ pc[r] = "settled"
  /\ Refuse(r, Refusal(402, "facilitator timeout"))
  /\ UNCHANGED <<req, claimed, locked, tables, marks, payments, crashes>>

MarkNonceOnly(r) == usedNonces' = usedNonces \cup Nonce(r) /\ UNCHANGED usedKeys \* mutant
Mark(r) ==
  /\ usedKeys' = usedKeys \cup ({PayKey(r)} \ {NoKey})
  /\ usedNonces' = usedNonces \cup Nonce(r)

(* onSettlement, then next(): the capture wraps the response and the core  *)
(* handler runs up to its first await.                                     *)
SettlementConfirmed(r) ==
  /\ pc[r] = "settled"
  /\ pc' = [pc EXCEPT ![r] = "handler"] /\ ran' = ran \cup {r}
  /\ IF AsyncMarks
     THEN marking' = marking \cup {r} /\ UNCHANGED <<usedKeys, usedNonces>>
     ELSE Mark(r) /\ UNCHANGED marking
  /\ UNCHANGED <<req, claimed, locked, answer, tables, chain, paid, crashes>>

(* Redis answered: the key is inserted in SQLite, where reads look. *)
MarkLands(r) ==
  /\ r \in marking /\ marking' = marking \ {r}
  /\ Mark(r)
  /\ UNCHANGED <<req, pc, claimed, locked, answer, tables, payments, crashes>>

(* Redis failed: the rejection is logged and nothing is recorded. *)
MarkFails(r) ==
  /\ r \in marking /\ marking' = marking \ {r}
  /\ UNCHANGED <<req, pc, claimed, locked, answer, tables, usedKeys, usedNonces,
                 payments, crashes>>

-----------------------------------------------------------------------------
(* The budget timer locks the response; its own 504 is then a no-op too.   *)
BudgetExpires(r) ==
  /\ pc[r] \in Suspended /\ r \notin locked
  /\ Cardinality(locked) < MaxTimeouts
  /\ locked' = locked \cup {r}
  /\ UNCHANGED <<req, pc, claimed, answer, tables, marks, payments, crashes>>

(* The core handler answers, or throws and the error handler answers 500.  *)
(* A locked response keeps the default status 200; the capture runs all    *)
(* the same: it stores a 2xx of a signed request, then drops the claim.    *)
StoresAnyStatus(r, status) == Guarded(r)                           \* mutant
Stores(r, status) == status = 200 /\ Guarded(r)

Finish(r, code, what) ==
  LET status == IF r \in locked THEN 200 ELSE code
  IN  /\ pc[r] = "handler"
      /\ pc' = [pc EXCEPT ![r] = "done"]
      /\ Write(r, Response(status, what, r))
      /\ cache' = IF Stores(r, status)
                  THEN [cache EXCEPT ![PreKey(r)] =
                          [resp |-> Response(status, what, r),
                           body |-> req[r].body, expired |-> FALSE]]
                  ELSE cache
      /\ inflight' = IF r \in claimed
                     THEN [inflight EXCEPT ![PreKey(r)] = "none"] ELSE inflight
      /\ UNCHANGED <<req, claimed, locked, prunes, marks, payments, crashes>>

HandlerReturns(r) == Finish(r, 200, "result")
HandlerFailsUncaught(r) ==                                         \* mutant
  /\ pc[r] = "handler" /\ pc' = [pc EXCEPT ![r] = "done"]
  /\ UNCHANGED <<req, claimed, locked, answer, tables, marks, payments, crashes>>
HandlerFails(r)   == Finish(r, 500, "error")

-----------------------------------------------------------------------------
(* The process dies: requests in flight are never answered. *)
Crash ==
  /\ crashes < MaxCrashes /\ crashes' = crashes + 1
  /\ pc' = [r \in Reqs |-> IF Active(r) THEN "dead" ELSE pc[r]]
  /\ marking' = {} /\ prunes' = 0
  /\ UNCHANGED <<req, claimed, locked, answer, cache, inflight, usedKeys,
                 usedNonces, payments>>

(* More than 3600 s, or 24 h, go by; no request lives that long.  Rows of  *)
(* used_nonces are kept for seven days, which is the model's horizon.      *)
HourPasses ==
  /\ \A r \in Reqs : ~Active(r)
  /\ \E k \in Keys : inflight[k] = "fresh"
  /\ inflight' = [k \in Keys |-> IF inflight[k] = "fresh" THEN "old" ELSE inflight[k]]
  /\ UNCHANGED <<req, pc, claimed, locked, answer, cache, prunes, marks,
                 payments, crashes>>

DayPasses ==
  /\ \A r \in Reqs : ~Active(r)
  /\ \E k \in Keys : Hit(k)
  /\ cache' = [k \in Keys |-> IF cache[k] = NoEntry THEN NoEntry
                              ELSE [cache[k] EXCEPT !.expired = TRUE]]
  /\ inflight' = [k \in Keys |-> IF inflight[k] = "fresh" THEN "old" ELSE inflight[k]]
  /\ UNCHANGED <<req, pc, claimed, locked, answer, prunes, marks, payments, crashes>>

-----------------------------------------------------------------------------
Arrive(r) == ArriveHit(r) \/ ArriveBusy(r) \/ ArriveClaim(r) \/ ArriveUnguarded(r)

Progress(r) ==
  \/ AnswerUnpaid(r) \/ ChainSettles(r) \/ SettlementLost(r)
  \/ SettlementConfirmed(r) \/ HandlerReturns(r) \/ HandlerFails(r)

Next ==
  \/ \E r \in Reqs : \/ Arrive(r) \/ Progress(r)
                     \/ MarkLands(r) \/ MarkFails(r) \/ BudgetExpires(r)
  \/ Crash \/ HourPasses \/ DayPasses

Spec == Init /\ [][Next]_vars

(* The facilitator client has an HTTP timeout and every core handler       *)
(* settles its promise, so a request that has entered keeps moving.        *)
FairSpec == Spec /\ \A r \in Reqs : WF_vars(Progress(r))
-----------------------------------------------------------------------------
(* Types of every variable; a table row belongs to a real key. *)
TypeOK ==
  /\ req \in [Reqs -> Shapes]
  /\ pc \in [Reqs -> {"new", "quote", "verify", "settled", "handler", "done", "dead"}]
  /\ claimed \subseteq Reqs /\ locked \subseteq Reqs /\ marking \subseteq Reqs
  /\ answer \in [Reqs -> Answer]
  /\ cache \in [Keys -> Entry \cup {NoEntry}]
  /\ inflight \in [Keys -> {"none", "fresh", "old"}]
  /\ usedKeys \subseteq Keys /\ usedNonces \subseteq Payments /\ chain \subseteq Payments
  /\ paid \subseteq Reqs /\ ran \subseteq Reqs
  /\ prunes \in 0 .. (PruneEvery - 1) /\ crashes \in 0 .. MaxCrashes

(* No two requests with the same Idempotency-Key are ever between the      *)
(* claim and the answer at once, whatever is pruned, lost or restarted in  *)
(* between (tryClaimInFlight, releaseClaim, maybePrune).                   *)
OneInFlightPerKey ==
  \A r, s \in Reqs :
    Active(r) /\ Active(s) /\ Guarded(r) /\ Guarded(s) /\ PreKey(r) = PreKey(s) => r = s

(* A key both layers recognise buys one run of the core handler: response  *)
(* cache, claim and consumed-key mark cover for each other across crashes, *)
(* expiry and pruning (idempotencyPreCheck with isIdempotencyKeyConsumed). *)
HandlerRunsOncePerKey ==
  \A r, s \in ran :
    req[r].form = "full" /\ req[s].form = "full" /\ req[r].key = req[s].key
      /\ req[r].key # NoKey => r = s

(* What a client gets from the cache was produced for the same key and the *)
(* same body, by a request whose payment settled and whose handler ran.    *)
ReplayIsFaithful ==
  \A r \in Reqs :
    LET s == answer[r].from IN
    s \notin {r, NoReq} =>
      /\ s \in paid \cap ran
      /\ PreKey(s) = PreKey(r) /\ req[s].body = req[r].body

(* Within its day a stored response is never replaced by another one: a    *)
(* client that retries twice is told the same thing twice (insertCache is  *)
(* INSERT OR REPLACE, so only the claims prevent it).                      *)
CacheIsStable ==
  [][\A k \in Keys :
       Hit(k) => cache'[k] # NoEntry /\ cache'[k].resp = cache[k].resp]_vars

(* Only successes are stored: the status test of idempotencyCapture keeps  *)
(* a handler's error out of the cache.                                     *)
CacheHoldsResults ==
  \A k \in Keys : cache[k] # NoEntry => cache[k].resp.what = "result"

(* A request that has been let in is answered, unless the process dies     *)
(* under it: the 402 and 504 paths of the paid middleware, the handler and *)
(* the error handler leave no other way out.                               *)
EveryRequestAnswered ==
  \A r \in Reqs : (pc[r] # "new") ~> (answer[r] # Unanswered \/ pc[r] = "dead")

(* A retry with the same key and body, after a request that paid and is    *)
(* over, replays that request's response (idempotency.ts:99).              *)
PaidRetryReplays ==
  [][\A r, s \in Reqs :
       /\ pc[r] = "new" /\ pc'[r] # "new" /\ Guarded(r)
       /\ s \in paid /\ pc[s] = "done" /\ Guarded(s)
       /\ req[s].key = req[r].key /\ req[s].body = req[r].body
       => answer'[r].from = s]_vars
=============================================================================
