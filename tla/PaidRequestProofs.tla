------------------------- MODULE PaidRequestProofs -------------------------
(***************************************************************************)
(* Theorems of PaidRequest, for any number of requests, keys, payments,   *)
(* crashes and timeouts.                                                   *)
(***************************************************************************)
EXTENDS PaidRequest, FiniteSetTheorems, TLAPS

(* What a request looks like, for the provers. *)
LEMMA ShapeFields ==
  ASSUME NEW r \in Reqs, req \in [Reqs -> Shapes]
  PROVE  /\ req[r].signed \in BOOLEAN /\ req[r].key \in Keys \cup {NoKey}
         /\ req[r].form \in {"full", "short", "alias"}
         /\ req[r].pay \in Payments /\ req[r].visible \in BOOLEAN
         /\ req[r].body \in Bodies /\ req[r].trusted \in BOOLEAN
  BY ShapesAssumption DEF ShapeType

LEMMA KeyTypes ==
  ASSUME NEW r \in Reqs, req \in [Reqs -> Shapes]
  PROVE  /\ PreKey(r) \in Keys \cup {NoKey} /\ PayKey(r) \in Keys \cup {NoKey}
         /\ Nonce(r) \subseteq Payments
         /\ Guarded(r) => PreKey(r) \in Keys
  BY ShapeFields DEF PreKey, PayKey, Nonce, Guarded

(* Pruning keeps every typed table typed, every fresh claim and every hit. *)
LEMMA PruneTypes ==
  ASSUME TypeOK, NEW n \in {1, 2}
  PROVE  /\ CacheAt(n) \in [Keys -> Entry \cup {NoEntry}]
         /\ ClaimsAt(n) \in [Keys -> {"none", "fresh", "old"}]
         /\ Count(n) \in 0 .. (PruneEvery - 1)
<1>1. CacheAt(n) \in [Keys -> Entry \cup {NoEntry}]
  BY DEF TypeOK, CacheAt
<1>2. ClaimsAt(n) \in [Keys -> {"none", "fresh", "old"}]
  BY DEF TypeOK, ClaimsAt
<1>3. Count(n) \in 0 .. (PruneEvery - 1)
  BY BoundsAssumption DEF TypeOK, Count, Prunes
<1> QED  BY <1>1, <1>2, <1>3

LEMMA PruneKeeps ==
  ASSUME TypeOK, NEW n \in {1, 2}, NEW k \in Keys
  PROVE  /\ inflight[k] = "fresh" <=> ClaimsAt(n)[k] = "fresh"
         /\ CacheAt(n)[k] \in {cache[k], NoEntry}
         /\ Hit(k) => CacheAt(n)[k] = cache[k]
  BY DEF TypeOK, ClaimsAt, CacheAt, Hit

LEMMA ResponseTypes ==
  ASSUME NEW code \in {0, 200, 402, 403, 409, 500}, NEW what \in Contents
  PROVE  /\ \A r \in Reqs : Response(code, what, r) \in Answer
         /\ Refusal(code, what) \in Answer
  BY DEF Response, Refusal, Answer

LEMMA InitTypes == Init => TypeOK
<1> SUFFICES ASSUME Init PROVE TypeOK  OBVIOUS
<1>1. Unanswered \in Answer
  BY DEF Unanswered, Answer, Contents
<1> QED  BY <1>1, BoundsAssumption DEF Init, TypeOK

(* Refuse and Write leave the answers typed. *)
LEMMA RefuseTypes ==
  ASSUME TypeOK, NEW r \in Reqs, NEW resp \in Answer, Refuse(r, resp)
  PROVE  /\ answer' \in [Reqs -> Answer]
         /\ pc' = [pc EXCEPT ![r] = "done"]
         /\ pc' \in [Reqs -> {"new", "quote", "verify", "settled", "handler", "done", "dead"}]
  BY DEF TypeOK, Refuse, Write

LEMMA AdmitTypes ==
  ASSUME TypeOK, NEW r \in Reqs, Admit(r)
  PROVE  /\ answer' \in [Reqs -> Answer]
         /\ pc' \in [Reqs -> {"new", "quote", "verify", "settled", "handler", "done", "dead"}]
         /\ \E x \in {"quote", "verify", "done"} : pc' = [pc EXCEPT ![r] = x]
<1>1. CASE Admission(r) \in {"quote", "verify"}
  BY <1>1 DEF Admit, TypeOK
<1>2. CASE Admission(r) \notin {"quote", "verify"}
  <2>1. Admission(r) \in Contents
    BY <1>2 DEF Admission, Contents
  <2>2. /\ Refusal(403, "untrusted") \in Answer
        /\ Refusal(409, Admission(r)) \in Answer
    <3>1. "untrusted" \in Contents
      BY DEF Contents
    <3> QED  BY <2>1, <3>1, ResponseTypes
  <2>3. Refuse(r, Refusal(403, "untrusted")) \/ Refuse(r, Refusal(409, Admission(r)))
    BY <1>2 DEF Admit
  <2> QED  BY <2>2, <2>3, RefuseTypes
<1> QED  BY <1>1, <1>2

LEMMA NextTypes == TypeOK /\ [Next]_vars => TypeOK'
<1> SUFFICES ASSUME TypeOK, [Next]_vars PROVE TypeOK'
  OBVIOUS
<1> USE BoundsAssumption
<1>1. ASSUME NEW r \in Reqs, ArriveHit(r) PROVE TypeOK'
  <2>1. Replay(r) \in Answer
    <3>1. cache[PreKey(r)] \in Entry
      BY <1>1, KeyTypes DEF TypeOK, ArriveHit, Hit
    <3>2. Refusal(409, "different body") \in Answer
      BY DEF Refusal, Response, Answer, Contents
    <3> QED  BY <3>1, <3>2 DEF Replay, Entry
  <2>2. Refuse(r, Replay(r))
    BY <1>1 DEF ArriveHit
  <2>3. /\ answer' \in [Reqs -> Answer]
        /\ pc' \in [Reqs -> {"new", "quote", "verify", "settled", "handler", "done", "dead"}]
    BY <2>1, <2>2, RefuseTypes
  <2> QED  BY <1>1, <2>3, PruneTypes DEF TypeOK, ArriveHit, marks, payments
<1>2. ASSUME NEW r \in Reqs, ArriveBusy(r) PROVE TypeOK'
  <2>1. Refusal(409, "in progress") \in Answer
    BY DEF Refusal, Response, Answer, Contents
  <2>2. Refuse(r, Refusal(409, "in progress"))
    BY <1>2 DEF ArriveBusy
  <2>3. /\ answer' \in [Reqs -> Answer]
        /\ pc' \in [Reqs -> {"new", "quote", "verify", "settled", "handler", "done", "dead"}]
    BY <2>1, <2>2, RefuseTypes
  <2> QED  BY <1>2, <2>3, PruneTypes DEF TypeOK, ArriveBusy, marks, payments
<1>3. ASSUME NEW r \in Reqs, ArriveClaim(r) PROVE TypeOK'
  <2>1. Admit(r)
    BY <1>3 DEF ArriveClaim
  <2> QED  BY <1>3, <2>1, AdmitTypes, PruneTypes DEF TypeOK, ArriveClaim, marks, payments
<1>4. ASSUME NEW r \in Reqs, ArriveUnguarded(r) PROVE TypeOK'
  <2>1. Admit(r)
    BY <1>4 DEF ArriveUnguarded
  <2> QED  BY <1>4, <2>1, AdmitTypes DEF TypeOK, ArriveUnguarded, tables, marks, payments
<1>5. ASSUME NEW r \in Reqs, AnswerUnpaid(r) PROVE TypeOK'
  <2>1. Refusal(402, "payment required") \in Answer
    BY DEF Refusal, Response, Answer, Contents
  <2>2. Refuse(r, Refusal(402, "payment required"))
    BY <1>5 DEF AnswerUnpaid
  <2> QED  BY <1>5, <2>1, <2>2, RefuseTypes DEF TypeOK, AnswerUnpaid, tables, marks, payments
<1>6. ASSUME NEW r \in Reqs, ChainSettles(r) PROVE TypeOK'
  BY <1>6, ShapeFields DEF TypeOK, ChainSettles, tables, marks
<1>7. ASSUME NEW r \in Reqs, SettlementLost(r) PROVE TypeOK'
  <2>1. Refusal(402, "facilitator timeout") \in Answer
    BY DEF Refusal, Response, Answer, Contents
  <2>2. Refuse(r, Refusal(402, "facilitator timeout"))
    BY <1>7 DEF SettlementLost
  <2> QED  BY <1>7, <2>1, <2>2, RefuseTypes DEF TypeOK, SettlementLost, tables, marks, payments
<1>8. ASSUME NEW r \in Reqs, SettlementConfirmed(r) PROVE TypeOK'
  <2>1. /\ PayKey(r) \in Keys \cup {NoKey}
        /\ Nonce(r) \subseteq Payments
    BY KeyTypes DEF TypeOK
  <2> QED  BY <1>8, <2>1 DEF TypeOK, SettlementConfirmed, Mark, tables
<1>9. ASSUME NEW r \in Reqs, Finish(r, 200, "result") \/ Finish(r, 500, "error") PROVE TypeOK'
  <2>1. PICK status \in {200, 500}, what \in {"result", "error"} :
          /\ pc' = [pc EXCEPT ![r] = "done"]
          /\ Write(r, Response(status, what, r))
          /\ cache' \in {cache, [cache EXCEPT ![PreKey(r)] =
                [resp |-> Response(status, what, r), body |-> req[r].body, expired |-> FALSE]]}
          /\ inflight' \in {inflight, [inflight EXCEPT ![PreKey(r)] = "none"]}
    BY <1>9 DEF Finish
  <2>2. Response(status, what, r) \in Answer
    BY DEF Response, Answer, Contents
  <2>3. [resp |-> Response(status, what, r), body |-> req[r].body, expired |-> FALSE] \in Entry
    BY <2>2, ShapeFields DEF TypeOK, Entry
  <2>4. cache' \in [Keys -> Entry \cup {NoEntry}]
    <3> DEFINE entry == [resp |-> Response(status, what, r), body |-> req[r].body, expired |-> FALSE]
    <3>1. cache' \in {cache, [cache EXCEPT ![PreKey(r)] = entry]} /\ entry \in Entry
      BY <2>1, <2>3
    <3> HIDE DEF entry
    <3> QED  BY <3>1 DEF TypeOK
  <2>5. answer' \in [Reqs -> Answer]
    BY <2>1, <2>2 DEF TypeOK, Write
  <2>6. /\ inflight' \in [Keys -> {"none", "fresh", "old"}]
        /\ pc' \in [Reqs -> {"new", "quote", "verify", "settled", "handler", "done", "dead"}]
    BY <2>1 DEF TypeOK
  <2>7. UNCHANGED <<req, claimed, locked, prunes, marks, payments, crashes>>
    BY <1>9 DEF Finish
  <2> QED  BY <2>4, <2>5, <2>6, <2>7 DEF TypeOK, marks, payments
<1>10. ASSUME NEW r \in Reqs, MarkLands(r) PROVE TypeOK'
  <2>1. /\ PayKey(r) \in Keys \cup {NoKey}
        /\ Nonce(r) \subseteq Payments
    BY KeyTypes DEF TypeOK
  <2> QED  BY <1>10, <2>1 DEF TypeOK, MarkLands, Mark, tables, payments
<1>11. ASSUME NEW r \in Reqs, MarkFails(r) PROVE TypeOK'
  BY <1>11 DEF TypeOK, MarkFails, tables, payments
<1>12. ASSUME NEW r \in Reqs, BudgetExpires(r) PROVE TypeOK'
  BY <1>12 DEF TypeOK, BudgetExpires, tables, marks, payments
<1>13. CASE Crash
  BY <1>13 DEF TypeOK, Crash, payments
<1>14. CASE HourPasses
  BY <1>14 DEF TypeOK, HourPasses, marks, payments
<1>15. CASE DayPasses
  <2>1. cache' \in [Keys -> Entry \cup {NoEntry}]
    BY <1>15 DEF TypeOK, DayPasses, Entry
  <2> QED  BY <1>15, <2>1 DEF TypeOK, DayPasses, marks, payments
<1>16. CASE UNCHANGED vars
  BY <1>16 DEF TypeOK, vars, tables, marks, payments
<1> QED
  BY <1>1, <1>2, <1>3, <1>4, <1>5, <1>6, <1>7, <1>8, <1>9, <1>10, <1>11, <1>12,
     <1>13, <1>14, <1>15, <1>16
  DEF Next, Arrive, Progress, HandlerReturns, HandlerFails

(* Every variable keeps its type, whatever is interleaved, lost or pruned. *)
THEOREM Typing == Spec => []TypeOK
<1>1. Init => TypeOK
  BY InitTypes
<1>2. TypeOK /\ [Next]_vars => TypeOK'
  BY NextTypes
<1> QED  BY <1>1, <1>2, PTL DEF Spec
-----------------------------------------------------------------------------
(* The inductive invariant.  OneInFlightPerKey is not inductive: that two  *)
(* requests of a key cannot both be in flight rests on each carrying a     *)
(* claim whose row is still fresh.                                         *)

Claims ==
  /\ \A r \in claimed : Guarded(r)
  /\ \A r \in Reqs : Active(r) /\ Guarded(r) =>
       r \in claimed /\ inflight[PreKey(r)] = "fresh"

ClaimInv == TypeOK /\ Claims /\ OneInFlightPerKey

(* A step of one request that ends it, or only moves it on, and leaves the *)
(* others' claims alone keeps the invariant.                               *)
LEMMA MoveKeepsClaims ==
  ASSUME ClaimInv, NEW r \in Reqs, UNCHANGED req,
         \/ claimed' = claimed
         \/ claimed' = claimed \cup {r} /\ Guarded(r),
         \A s \in Reqs \ {r} : pc'[s] = pc[s],
         \A k \in Keys : inflight[k] = "fresh" =>
           \/ inflight'[k] = "fresh"
           \/ k = PreKey(r) /\ r \in claimed /\ Active(r) /\ ~Active(r)',
         Active(r)' /\ Guarded(r) =>
           \/ Active(r) /\ inflight'[PreKey(r)] = "fresh"
           \/ /\ r \in claimed' /\ inflight'[PreKey(r)] = "fresh"
              /\ inflight[PreKey(r)] # "fresh"
  PROVE  Claims' /\ OneInFlightPerKey'
<1>1. \A s \in Reqs : /\ PreKey(s)' = PreKey(s) /\ Guarded(s)' = Guarded(s)
                      /\ Guarded(s) => PreKey(s) \in Keys
                      /\ s # r => Active(s)' = Active(s)
  <2>1. \A s \in Reqs : Guarded(s) => PreKey(s) \in Keys
    BY KeyTypes DEF ClaimInv, TypeOK
  <2> QED  BY <2>1 DEF PreKey, Guarded, Active
<1>2. ASSUME NEW s \in Reqs, s # r, Active(s), Guarded(s)
      PROVE  s \in claimed' /\ inflight'[PreKey(s)] = "fresh"
  <2>1. s \in claimed /\ inflight[PreKey(s)] = "fresh"
    BY <1>2 DEF ClaimInv, Claims
  <2>2. ~(PreKey(s) = PreKey(r) /\ r \in claimed /\ Active(r))
    BY <1>2 DEF ClaimInv, Claims, OneInFlightPerKey
  <2> QED  BY <1>1, <1>2, <2>1, <2>2
<1>3. Claims'
  <2>1. \A s \in claimed' : s \in Reqs /\ Guarded(s)'
    BY <1>1 DEF ClaimInv, TypeOK, Claims
  <2>2. ASSUME NEW s \in Reqs, Active(s)', Guarded(s)'
        PROVE  s \in claimed' /\ inflight'[PreKey(s)'] = "fresh"
    <3>1. CASE s = r
      BY <1>1, <2>2, <3>1 DEF ClaimInv, Claims
    <3>2. CASE s # r
      BY <1>1, <1>2, <2>2, <3>2
    <3> QED  BY <3>1, <3>2
  <2> QED  BY <2>1, <2>2 DEF Claims
<1>4. ASSUME NEW s \in Reqs, s # r, Active(s)', Guarded(s), Active(r)', Guarded(r)
      PROVE  PreKey(s) # PreKey(r)
  <2>1. Active(s) /\ inflight[PreKey(s)] = "fresh"
    BY <1>1, <1>4 DEF ClaimInv, Claims
  <2>2. Active(r) \/ inflight[PreKey(r)] # "fresh"
    BY <1>4
  <2> QED  BY <1>4, <2>1, <2>2 DEF ClaimInv, OneInFlightPerKey
<1>5. OneInFlightPerKey'
  BY <1>1, <1>4 DEF ClaimInv, OneInFlightPerKey
<1> QED  BY <1>3, <1>5

LEMMA ClaimsStep == ClaimInv /\ [Next]_vars => Claims' /\ OneInFlightPerKey'
<1> SUFFICES ASSUME ClaimInv, [Next]_vars PROVE Claims' /\ OneInFlightPerKey'
  OBVIOUS
<1> USE DEF ClaimInv
<1>0. \A r \in Reqs : Guarded(r) => PreKey(r) \in Keys
  BY KeyTypes DEF TypeOK
<1>1. ASSUME NEW r \in Reqs, ArriveHit(r) \/ ArriveBusy(r)
      PROVE  Claims' /\ OneInFlightPerKey'
  <2>1. /\ pc' = [pc EXCEPT ![r] = "done"] /\ UNCHANGED <<req, claimed>>
        /\ inflight' \in {ClaimsAt(1), ClaimsAt(2)}
    BY <1>1 DEF ArriveHit, ArriveBusy, Refuse
  <2>2. \A k \in Keys : inflight[k] = "fresh" => inflight'[k] = "fresh"
    BY <2>1, PruneKeeps
  <2>3. ~Active(r)' /\ \A s \in Reqs \ {r} : pc'[s] = pc[s]
    BY <2>1 DEF TypeOK, Active, Suspended
  <2> QED  BY <2>1, <2>2, <2>3, MoveKeepsClaims
<1>2. ASSUME NEW r \in Reqs, ArriveClaim(r)
      PROVE  Claims' /\ OneInFlightPerKey'
  <2>1. /\ Guarded(r) /\ UNCHANGED req /\ claimed' = claimed \cup {r}
        /\ ClaimsAt(1)[PreKey(r)] = "none"
        /\ inflight' = [ClaimsAt(1) EXCEPT ![PreKey(r)] = "fresh"]
        /\ \E x \in {"quote", "verify", "done"} : pc' = [pc EXCEPT ![r] = x]
    BY <1>2, AdmitTypes DEF ArriveClaim
  <2>2. /\ inflight[PreKey(r)] # "fresh" /\ inflight'[PreKey(r)] = "fresh"
        /\ \A k \in Keys : inflight[k] = "fresh" => inflight'[k] = "fresh"
    BY <1>0, <2>1, PruneKeeps, PruneTypes
  <2>3. \A s \in Reqs \ {r} : pc'[s] = pc[s]
    BY <2>1 DEF TypeOK
  <2> QED  BY <2>1, <2>2, <2>3, MoveKeepsClaims
<1>3. ASSUME NEW r \in Reqs, ArriveUnguarded(r)
      PROVE  Claims' /\ OneInFlightPerKey'
  <2>1. /\ ~Guarded(r) /\ UNCHANGED <<req, claimed, inflight>>
        /\ \E x \in {"quote", "verify", "done"} : pc' = [pc EXCEPT ![r] = x]
    BY <1>3, AdmitTypes DEF ArriveUnguarded, tables
  <2>2. \A s \in Reqs \ {r} : pc'[s] = pc[s]
    BY <2>1 DEF TypeOK
  <2> QED  BY <2>1, <2>2, MoveKeepsClaims
<1>4. ASSUME NEW r \in Reqs, AnswerUnpaid(r) \/ SettlementLost(r)
      PROVE  Claims' /\ OneInFlightPerKey'
  <2>1. /\ UNCHANGED <<req, claimed, inflight>> /\ pc' = [pc EXCEPT ![r] = "done"]
    BY <1>4 DEF AnswerUnpaid, SettlementLost, Refuse, tables
  <2>2. ~Active(r)' /\ \A s \in Reqs \ {r} : pc'[s] = pc[s]
    BY <2>1 DEF TypeOK, Active, Suspended
  <2> QED  BY <2>1, <2>2, MoveKeepsClaims
<1>5. ASSUME NEW r \in Reqs, ChainSettles(r) \/ SettlementConfirmed(r)
      PROVE  Claims' /\ OneInFlightPerKey'
  <2>1. /\ UNCHANGED <<req, claimed, inflight>> /\ pc[r] \in Suspended
        /\ \E x \in {"settled", "handler"} : pc' = [pc EXCEPT ![r] = x]
    BY <1>5 DEF ChainSettles, SettlementConfirmed, tables, Suspended
  <2>2. Active(r) /\ \A s \in Reqs \ {r} : pc'[s] = pc[s]
    BY <2>1 DEF TypeOK, Active
  <2>3. Guarded(r) => inflight'[PreKey(r)] = "fresh"
    BY <2>1, <2>2 DEF Claims
  <2> QED  BY <2>1, <2>2, <2>3, MoveKeepsClaims
<1>6. ASSUME NEW r \in Reqs, HandlerReturns(r) \/ HandlerFails(r)
      PROVE  Claims' /\ OneInFlightPerKey'
  <2>1. /\ UNCHANGED <<req, claimed>> /\ pc[r] = "handler"
        /\ pc' = [pc EXCEPT ![r] = "done"]
        /\ inflight' = IF r \in claimed
                       THEN [inflight EXCEPT ![PreKey(r)] = "none"] ELSE inflight
    BY <1>6 DEF HandlerReturns, HandlerFails, Finish
  <2>2. /\ Active(r) /\ ~Active(r)'
        /\ \A s \in Reqs \ {r} : pc'[s] = pc[s]
    BY <2>1 DEF TypeOK, Active, Suspended
  <2>3. \A k \in Keys : inflight[k] = "fresh" =>
          inflight'[k] = "fresh" \/ (k = PreKey(r) /\ r \in claimed)
    BY <2>1 DEF TypeOK
  <2> QED  BY <2>1, <2>2, <2>3, MoveKeepsClaims
<1>7. ASSUME NEW r \in Reqs, MarkLands(r) \/ MarkFails(r) \/ BudgetExpires(r)
      PROVE  Claims' /\ OneInFlightPerKey'
  <2>1. UNCHANGED <<req, pc, claimed, inflight>>
    BY <1>7 DEF MarkLands, MarkFails, BudgetExpires, tables
  <2> QED  BY <2>1 DEF Claims, OneInFlightPerKey, Active, Guarded, PreKey
<1>8. CASE Crash
  <2>1. UNCHANGED <<req, claimed>> /\ \A r \in Reqs : ~Active(r)'
    BY <1>8 DEF Crash, TypeOK, Active, Suspended
  <2> QED  BY <2>1 DEF Claims, OneInFlightPerKey, Guarded, PreKey
<1>9. CASE HourPasses \/ DayPasses
  <2>1. UNCHANGED <<req, pc, claimed>> /\ \A r \in Reqs : ~Active(r)
    BY <1>9 DEF HourPasses, DayPasses
  <2> QED  BY <2>1 DEF Claims, OneInFlightPerKey, Active, Guarded, PreKey
<1>10. CASE UNCHANGED vars
  BY <1>10 DEF vars, Claims, OneInFlightPerKey, Active, Guarded, PreKey
<1> QED
  BY <1>1, <1>2, <1>3, <1>4, <1>5, <1>6, <1>7, <1>8, <1>9, <1>10 DEF Next, Arrive, Progress

(* At most one request of a key is between its claim and its answer.       *)
THEOREM SingleFlight == Spec => []OneInFlightPerKey
<1>1. Init => ClaimInv
  BY InitTypes DEF ClaimInv, Init, Claims, OneInFlightPerKey, Active, Suspended
<1>2. ClaimInv /\ [Next]_vars => ClaimInv'
  BY NextTypes, ClaimsStep DEF ClaimInv
<1>3. ClaimInv => OneInFlightPerKey
  BY DEF ClaimInv
<1> QED  BY <1>1, <1>2, <1>3, PTL DEF Spec
-----------------------------------------------------------------------------
(* What the response cache rests on: who is in the handler has paid and    *)
(* has run, who is in flight has nothing stored for its key, and what is   *)
(* stored comes from a paid run of that key and body.                      *)

Settled ==
  \A r \in Reqs : /\ pc[r] = "settled" => r \in paid
                  /\ pc[r] = "handler" => r \in paid /\ r \in ran
NothingStored == \A r \in Reqs : Active(r) /\ Guarded(r) => ~Hit(PreKey(r))
Produced(s, k, body) ==
  /\ s \in Reqs /\ s \in paid /\ s \in ran
  /\ PreKey(s) = k /\ req[s].body = body
Stored ==
  \A k \in Keys : cache[k] # NoEntry => Produced(cache[k].resp.from, k, cache[k].body)

CacheInv == ClaimInv /\ Settled /\ NothingStored /\ Stored /\ ReplayIsFaithful

LEMMA SettledStep == TypeOK /\ Settled /\ [Next]_vars => Settled'
<1> SUFFICES ASSUME TypeOK, Settled, [Next]_vars PROVE Settled'
  OBVIOUS
<1>1. paid \subseteq paid' /\ ran \subseteq ran'
  BY DEF Next, vars, Arrive, Progress, ArriveHit, ArriveBusy, ArriveClaim, ArriveUnguarded,
         AnswerUnpaid, ChainSettles, SettlementLost, SettlementConfirmed, HandlerReturns,
         HandlerFails, Finish, MarkLands, MarkFails, BudgetExpires, Crash, HourPasses,
         DayPasses, payments
<1>2. ASSUME NEW r \in Reqs, pc'[r] = "settled"
      PROVE  pc[r] = "settled" \/ r \in paid'
  BY <1>2, AdmitTypes DEF TypeOK, Next, vars, Arrive, Progress, ArriveHit, ArriveBusy,
         ArriveClaim, ArriveUnguarded, Refuse, AnswerUnpaid, ChainSettles, SettlementLost,
         SettlementConfirmed, HandlerReturns, HandlerFails, Finish, MarkLands, MarkFails,
         BudgetExpires, Crash, HourPasses, DayPasses
<1>3. ASSUME NEW r \in Reqs, pc'[r] = "handler"
      PROVE  pc[r] = "handler" \/ (pc[r] = "settled" /\ r \in ran')
  BY <1>3, AdmitTypes DEF TypeOK, Next, vars, Arrive, Progress, ArriveHit, ArriveBusy,
         ArriveClaim, ArriveUnguarded, Refuse, AnswerUnpaid, ChainSettles, SettlementLost,
         SettlementConfirmed, HandlerReturns, HandlerFails, Finish, MarkLands, MarkFails,
         BudgetExpires, Crash, HourPasses, DayPasses
<1> QED  BY <1>1, <1>2, <1>3 DEF Settled

(* Only an arrival puts a request in flight. *)
LEMMA EntersByArriving ==
  ASSUME TypeOK, [Next]_vars, NEW r \in Reqs, ~Active(r), Active(r)'
  PROVE  ArriveClaim(r) \/ ArriveUnguarded(r)
<1>1. ASSUME NEW s \in Reqs,
             \/ ArriveHit(s) \/ ArriveBusy(s) \/ AnswerUnpaid(s) \/ SettlementLost(s)
             \/ HandlerReturns(s) \/ HandlerFails(s)
      PROVE  FALSE
  <2>1. pc' = [pc EXCEPT ![s] = "done"]
    BY <1>1 DEF ArriveHit, ArriveBusy, AnswerUnpaid, SettlementLost, Refuse,
                HandlerReturns, HandlerFails, Finish
  <2> QED  BY <2>1 DEF TypeOK, Active, Suspended
<1>2. ASSUME NEW s \in Reqs, ChainSettles(s) \/ SettlementConfirmed(s) PROVE FALSE
  <2>1. pc[s] \in Suspended /\ \E x \in {"settled", "handler"} : pc' = [pc EXCEPT ![s] = x]
    BY <1>2 DEF ChainSettles, SettlementConfirmed, Suspended
  <2> QED  BY <2>1 DEF TypeOK, Active, Suspended
<1>3. ASSUME NEW s \in Reqs, ArriveClaim(s) \/ ArriveUnguarded(s) PROVE s = r
  <2>1. \E x \in {"quote", "verify", "done"} : pc' = [pc EXCEPT ![s] = x]
    BY <1>3, AdmitTypes DEF ArriveClaim, ArriveUnguarded
  <2> QED  BY <2>1 DEF TypeOK, Active, Suspended
<1>4. CASE pc' = pc
  BY <1>4 DEF Active
<1>5. CASE Crash
  BY <1>5 DEF Crash, TypeOK, Active, Suspended
<1> QED
  BY <1>1, <1>2, <1>3, <1>4, <1>5
  DEF Next, vars, Arrive, Progress, MarkLands, MarkFails, BudgetExpires, HourPasses, DayPasses

(* How one step may change the stored responses. *)
LEMMA CacheChanges ==
  ASSUME TypeOK, [Next]_vars
  PROVE  \/ \A k \in Keys :
              \/ cache'[k] = NoEntry /\ ~Hit(k)
              \/ cache'[k] = cache[k]
              \/ /\ cache[k] # NoEntry /\ cache'[k] = [cache[k] EXCEPT !.expired = TRUE]
                 /\ \A r \in Reqs : ~Active(r)
         \/ \E r \in Reqs, resp \in Answer :
              /\ pc[r] = "handler" /\ pc' = [pc EXCEPT ![r] = "done"]
              /\ Guarded(r) /\ resp.from = r /\ (resp.what = "result" \/ r \in locked)
              /\ cache' = [cache EXCEPT ![PreKey(r)] =
                             [resp |-> resp, body |-> req[r].body, expired |-> FALSE]]
<1>1. CASE cache' = CacheAt(1) \/ cache' = CacheAt(2)
  BY <1>1 DEF CacheAt, Hit
<1>2. CASE cache' = cache
  BY <1>2
<1>3. CASE DayPasses
  BY <1>3 DEF DayPasses, Hit
<1>4. ASSUME NEW r \in Reqs, NEW code \in {200, 500}, NEW what \in {"result", "error"},
             code = 200 => what = "result", Finish(r, code, what), cache' # cache
      PROVE  \E resp \in Answer :
              /\ pc[r] = "handler" /\ pc' = [pc EXCEPT ![r] = "done"]
              /\ Guarded(r) /\ resp.from = r /\ (resp.what = "result" \/ r \in locked)
              /\ cache' = [cache EXCEPT ![PreKey(r)] =
                             [resp |-> resp, body |-> req[r].body, expired |-> FALSE]]
  <2> DEFINE status == IF r \in locked THEN 200 ELSE code
  <2>1. /\ pc[r] = "handler" /\ pc' = [pc EXCEPT ![r] = "done"]
        /\ Guarded(r) /\ (code = 200 \/ r \in locked)
        /\ cache' = [cache EXCEPT ![PreKey(r)] =
             [resp |-> Response(status, what, r), body |-> req[r].body, expired |-> FALSE]]
    <3>1. /\ pc[r] = "handler" /\ pc' = [pc EXCEPT ![r] = "done"]
          /\ cache' = IF Stores(r, status)
                      THEN [cache EXCEPT ![PreKey(r)] =
                              [resp |-> Response(status, what, r), body |-> req[r].body, expired |-> FALSE]]
                      ELSE cache
      BY <1>4 DEF Finish
    <3>2. Stores(r, status)
      BY <1>4, <3>1
    <3>3. Guarded(r) /\ status = 200
      BY <3>2 DEF Stores
    <3> QED  BY <3>1, <3>2, <3>3
  <2>2. status \in {200, 500} /\ (what = "result" \/ r \in locked)
    BY <1>4, <2>1
  <2> HIDE DEF status
  <2>3. /\ Response(status, what, r) \in Answer /\ Response(status, what, r).from = r
        /\ Response(status, what, r).what = what
    BY <2>2 DEF Response, Answer, Contents
  <2> DEFINE resp == Response(status, what, r)
  <2>4. resp \in Answer /\ resp.from = r /\ (resp.what = "result" \/ r \in locked)
    BY <2>3, <2>2
  <2>5. cache' = [cache EXCEPT ![PreKey(r)] =
                   [resp |-> resp, body |-> req[r].body, expired |-> FALSE]]
    BY <2>1
  <2> HIDE DEF resp
  <2> QED  BY <2>1, <2>4, <2>5
<1>5. ASSUME NEW r \in Reqs, HandlerReturns(r) \/ HandlerFails(r), cache' # cache
      PROVE  \E s \in Reqs, resp \in Answer :
              /\ pc[s] = "handler" /\ pc' = [pc EXCEPT ![s] = "done"]
              /\ Guarded(s) /\ resp.from = s /\ (resp.what = "result" \/ s \in locked)
              /\ cache' = [cache EXCEPT ![PreKey(s)] =
                             [resp |-> resp, body |-> req[s].body, expired |-> FALSE]]
  <2>1. Finish(r, 200, "result") \/ Finish(r, 500, "error")
    BY <1>5 DEF HandlerReturns, HandlerFails
  <2> QED  BY <1>4, <1>5, <2>1
<1> QED
  BY <1>1, <1>2, <1>3, <1>5
  DEF Next, vars, Arrive, Progress, ArriveHit, ArriveBusy, ArriveClaim, ArriveUnguarded,
      AnswerUnpaid, ChainSettles, SettlementLost, SettlementConfirmed, MarkLands, MarkFails,
      BudgetExpires, Crash, HourPasses, tables

(* A key with a response on file has nobody in flight, so nobody can store *)
(* another one: the action property holds of every step.                   *)
LEMMA StableStep ==
  ASSUME ClaimInv, NothingStored, [Next]_vars
  PROVE  \A k \in Keys : Hit(k) => cache'[k] # NoEntry /\ cache'[k].resp = cache[k].resp
<1> SUFFICES ASSUME NEW k \in Keys, Hit(k)
             PROVE  cache'[k] # NoEntry /\ cache'[k].resp = cache[k].resp
  OBVIOUS
<1>1. cache[k] # NoEntry /\ cache[k] \in Entry /\ ~cache[k].expired
  BY DEF Hit, ClaimInv, TypeOK
<1>2. CASE cache'[k] = cache[k]
  BY <1>1, <1>2
<1>3. CASE cache'[k] = [cache[k] EXCEPT !.expired = TRUE]
  <2>1. cache'[k] \in Entry /\ cache'[k].resp = cache[k].resp
    BY <1>1, <1>3 DEF Entry
  <2> QED  BY <2>1, NamesAssumption
<1>4. ASSUME NEW r \in Reqs, pc[r] = "handler", Guarded(r),
             NEW e, cache' = [cache EXCEPT ![PreKey(r)] = e]
      PROVE  cache'[k] = cache[k]
  BY <1>4 DEF NothingStored, Active, ClaimInv, TypeOK
<1> QED
  BY <1>2, <1>3, <1>4, CacheChanges DEF ClaimInv

LEMMA NothingStoredStep ==
  ASSUME ClaimInv, NothingStored, [Next]_vars
  PROVE  NothingStored'
<1> SUFFICES ASSUME NEW r \in Reqs, Active(r)', Guarded(r)'
             PROVE  ~Hit(PreKey(r))'
  BY DEF NothingStored
<1>1. req' = req /\ Guarded(r) /\ PreKey(r)' = PreKey(r) /\ PreKey(r) \in Keys
  <2>1. req' = req
    BY DEF Next, vars, Arrive, Progress, ArriveHit, ArriveBusy, ArriveClaim, ArriveUnguarded,
         AnswerUnpaid, ChainSettles, SettlementLost, SettlementConfirmed, HandlerReturns,
         HandlerFails, Finish, MarkLands, MarkFails, BudgetExpires, Crash, HourPasses, DayPasses
  <2> QED  BY <2>1, KeyTypes DEF Guarded, PreKey, ClaimInv, TypeOK
<1>2. CASE ~Active(r)
  <2>1. ArriveClaim(r)
    BY <1>1, <1>2, EntersByArriving DEF ClaimInv, ArriveUnguarded
  <2>2. ~Hit(PreKey(r)) /\ cache' = CacheAt(1)
    BY <2>1 DEF ArriveClaim
  <2> QED  BY <1>1, <2>2, PruneKeeps DEF ClaimInv, Hit
<1>3. CASE Active(r)
  <2>1. ~Hit(PreKey(r))
    BY <1>1, <1>3 DEF NothingStored
  <2>2. CASE cache'[PreKey(r)] \in {cache[PreKey(r)], NoEntry}
    BY <1>1, <2>1, <2>2 DEF Hit
  <2>3. ASSUME NEW s \in Reqs, pc[s] = "handler", pc' = [pc EXCEPT ![s] = "done"], Guarded(s),
               NEW e, cache' = [cache EXCEPT ![PreKey(s)] = e]
        PROVE  cache'[PreKey(r)] = cache[PreKey(r)]
    <3>1. s # r
      BY <2>3 DEF ClaimInv, TypeOK, Active, Suspended
    <3>2. PreKey(s) # PreKey(r)
      BY <1>1, <1>3, <2>3, <3>1 DEF ClaimInv, OneInFlightPerKey, Active
    <3> QED  BY <1>1, <2>3, <3>2 DEF ClaimInv, TypeOK
  <2> QED  BY <1>1, <1>3, <2>2, <2>3, CacheChanges DEF ClaimInv
<1> QED  BY <1>2, <1>3

(* Requests keep their shape; payments and runs are never taken back. *)
LEMMA HistoryGrows ==
  [Next]_vars => req' = req /\ paid \subseteq paid' /\ ran \subseteq ran'
  BY DEF Next, vars, Arrive, Progress, ArriveHit, ArriveBusy, ArriveClaim, ArriveUnguarded,
         AnswerUnpaid, ChainSettles, SettlementLost, SettlementConfirmed, HandlerReturns,
         HandlerFails, Finish, MarkLands, MarkFails, BudgetExpires, Crash, HourPasses,
         DayPasses, payments

LEMMA StoredStep ==
  ASSUME TypeOK, Settled, Stored, [Next]_vars
  PROVE  Stored'
<1> SUFFICES ASSUME NEW k \in Keys, cache'[k] # NoEntry
             PROVE  Produced(cache[k].resp.from, k, cache[k].body)'
  BY DEF Stored
<1>1. ASSUME NEW s, NEW body, Produced(s, k, body),
             cache'[k].resp.from = s, cache'[k].body = body
      PROVE  Produced(cache[k].resp.from, k, cache[k].body)'
  BY <1>1, HistoryGrows DEF Produced, PreKey
<1>2. CASE cache[k] # NoEntry /\ cache'[k] \in {cache[k], [cache[k] EXCEPT !.expired = TRUE]}
  <2>1. cache[k] \in Entry
    BY <1>2 DEF TypeOK
  <2>2. cache'[k].resp.from = cache[k].resp.from /\ cache'[k].body = cache[k].body
    BY <1>2, <2>1 DEF Entry
  <2> QED  BY <1>1, <1>2, <2>2 DEF Stored
<1>3. ASSUME NEW r \in Reqs, NEW resp \in Answer, pc[r] = "handler", Guarded(r), resp.from = r,
             cache' = [cache EXCEPT ![PreKey(r)] =
                         [resp |-> resp, body |-> req[r].body, expired |-> FALSE]]
      PROVE  Produced(cache[k].resp.from, k, cache[k].body)'
  <2>1. CASE k = PreKey(r)
    <3>1. cache'[k].resp.from = r /\ cache'[k].body = req[r].body
      BY <1>3, <2>1 DEF TypeOK
    <3>2. Produced(r, k, req[r].body)
      BY <1>3, <2>1 DEF Produced, Settled
    <3> QED  BY <1>1, <3>1, <3>2
  <2>2. CASE k # PreKey(r)
    <3>1. cache'[k] = cache[k]
      BY <1>3, <2>2 DEF TypeOK
    <3> QED  BY <1>2, <3>1
  <2> QED  BY <2>1, <2>2
<1> QED  BY <1>2, <1>3, CacheChanges

(* What one step may write to a client. *)
LEMMA AnswerChanges ==
  ASSUME TypeOK, [Next]_vars, NEW q \in Reqs
  PROVE  \/ answer'[q] = answer[q]
         \/ answer'[q].from \in {q, NoReq}
         \/ /\ Guarded(q) /\ Hit(PreKey(q)) /\ cache[PreKey(q)].body = req[q].body
            /\ answer'[q] = cache[PreKey(q)].resp
<1>1. ASSUME NEW r \in Reqs, NEW resp, Write(r, resp)
      PROVE  answer'[q] = answer[q] \/ (q = r /\ answer'[q] = resp)
  BY <1>1 DEF Write, TypeOK
<1>2. ASSUME NEW code, NEW what PROVE Refusal(code, what).from = NoReq
  BY DEF Refusal, Response
<1>3. ASSUME NEW r \in Reqs, NEW code, NEW what, Refuse(r, Refusal(code, what))
      PROVE  answer'[q] = answer[q] \/ answer'[q].from = NoReq
  BY <1>1, <1>2, <1>3 DEF Refuse
<1>4. ASSUME NEW r \in Reqs, ArriveHit(r)
      PROVE  \/ answer'[q] = answer[q] \/ answer'[q].from = NoReq
             \/ /\ Guarded(q) /\ Hit(PreKey(q)) /\ cache[PreKey(q)].body = req[q].body
                /\ answer'[q] = cache[PreKey(q)].resp
  <2>1. /\ Guarded(r) /\ Hit(PreKey(r))
        /\ answer'[q] = answer[q] \/ (q = r /\ answer'[q] = Replay(r))
    BY <1>1, <1>4 DEF ArriveHit, Refuse
  <2>2. CASE cache[PreKey(r)].body = req[r].body
    BY <2>1, <2>2 DEF Replay
  <2>3. CASE cache[PreKey(r)].body # req[r].body
    <3>1. Replay(r) = Refusal(409, "different body")
      BY <2>3 DEF Replay
    <3>2. Replay(r).from = NoReq
      BY <1>2, <3>1
    <3> QED  BY <2>1, <3>2
  <2> QED  BY <2>2, <2>3
<1>5. ASSUME NEW r \in Reqs, ArriveBusy(r) \/ AnswerUnpaid(r) \/ SettlementLost(r)
      PROVE  answer'[q] = answer[q] \/ answer'[q].from = NoReq
  BY <1>3, <1>5 DEF ArriveBusy, AnswerUnpaid, SettlementLost
<1>6. ASSUME NEW r \in Reqs, Admit(r)
      PROVE  answer'[q] = answer[q] \/ answer'[q].from = NoReq
  BY <1>3, <1>6 DEF Admit
<1>7. ASSUME NEW r \in Reqs, NEW code, NEW what, Finish(r, code, what)
      PROVE  answer'[q] = answer[q] \/ answer'[q].from = q
  <2>1. PICK resp : Write(r, resp) /\ resp.from = r
    BY <1>7 DEF Finish, Response
  <2> QED  BY <1>1, <2>1
<1> QED
  BY <1>4, <1>5, <1>6, <1>7
  DEF Next, vars, Arrive, Progress, ArriveClaim, ArriveUnguarded, ChainSettles,
      SettlementConfirmed, HandlerReturns, HandlerFails, MarkLands, MarkFails, BudgetExpires,
      Crash, HourPasses, DayPasses

LEMMA ReplayStep ==
  ASSUME TypeOK, Stored, ReplayIsFaithful, [Next]_vars
  PROVE  ReplayIsFaithful'
<1> SUFFICES ASSUME NEW q \in Reqs, NEW s, s = answer'[q].from, s \notin {q, NoReq}
             PROVE  /\ s \in paid' \cap ran'
                    /\ PreKey(s)' = PreKey(q)' /\ req'[s].body = req'[q].body
  BY DEF ReplayIsFaithful
<1>1. CASE answer'[q] = answer[q]
  BY <1>1, HistoryGrows DEF ReplayIsFaithful, PreKey
<1>2. CASE /\ Guarded(q) /\ Hit(PreKey(q)) /\ cache[PreKey(q)].body = req[q].body
           /\ answer'[q] = cache[PreKey(q)].resp
  <2>1. Produced(s, PreKey(q), req[q].body)
    BY <1>2, KeyTypes DEF TypeOK, Stored, Hit
  <2> QED  BY <2>1, HistoryGrows DEF Produced, PreKey
<1> QED  BY <1>1, <1>2, AnswerChanges

LEMMA CacheInvHolds == Spec => []CacheInv
<1>1. Init => CacheInv
  <2>1. ASSUME Init PROVE ReplayIsFaithful
    BY <2>1 DEF Init, ReplayIsFaithful, Unanswered
  <2> QED
    BY <2>1, InitTypes DEF CacheInv, ClaimInv, Init, Claims, OneInFlightPerKey, Active, Suspended,
           Settled, NothingStored, Stored
<1>2. CacheInv /\ [Next]_vars => CacheInv'
  BY NextTypes, ClaimsStep, SettledStep, NothingStoredStep, StoredStep, ReplayStep
  DEF CacheInv, ClaimInv
<1> QED  BY <1>1, <1>2, PTL DEF Spec

(* A replayed response was paid for, and made for that key and body.       *)
THEOREM FaithfulReplay == Spec => []ReplayIsFaithful
<1>1. CacheInv => ReplayIsFaithful
  BY DEF CacheInv
<1> QED  BY <1>1, CacheInvHolds, PTL

(* No step replaces a stored response that has not expired.                *)
THEOREM StableCache == Spec => CacheIsStable
<1>1. CacheInv /\ [Next]_vars =>
        [\A k \in Keys : Hit(k) => cache'[k] # NoEntry /\ cache'[k].resp = cache[k].resp]_vars
  BY StableStep DEF CacheInv
<1> QED  BY <1>1, CacheInvHolds, PTL DEF Spec, CacheIsStable
-----------------------------------------------------------------------------
(* Why a key buys one run: the key of a request that ran is consumed, and  *)
(* a request past the consumed-key check is the only one of its key.       *)

Full(r) == req[r].form = "full" /\ req[r].key # NoKey
Consumed == \A r \in ran : Full(r) => req[r].key \in usedKeys
FirstOfKey ==
  \A r \in Reqs : pc[r] \in {"verify", "settled"} =>
    /\ req[r].signed
    /\ Full(r) => \A s \in ran : Full(s) => req[s].key # req[r].key

RunInv == ClaimInv /\ Consumed /\ FirstOfKey /\ HandlerRunsOncePerKey

(* Who is admitted to verification, and what running the handler records.  *)
LEMMA EntersVerify ==
  ASSUME TypeOK, [Next]_vars, NEW r \in Reqs, pc'[r] \in {"verify", "settled"}
  PROVE  \/ pc[r] \in {"verify", "settled"}
         \/ Admission(r) = "verify"
<1>1. ASSUME NEW s \in Reqs,
             \/ ArriveHit(s) \/ ArriveBusy(s) \/ AnswerUnpaid(s) \/ SettlementLost(s)
             \/ HandlerReturns(s) \/ HandlerFails(s)
      PROVE  pc[r] \in {"verify", "settled"}
  <2>1. pc' = [pc EXCEPT ![s] = "done"]
    BY <1>1 DEF ArriveHit, ArriveBusy, AnswerUnpaid, SettlementLost, Refuse,
                HandlerReturns, HandlerFails, Finish
  <2> QED  BY <2>1 DEF TypeOK
<1>2. ASSUME NEW s \in Reqs, Admit(s)
      PROVE  pc[r] \in {"verify", "settled"} \/ Admission(r) = "verify"
  BY <1>2 DEF Admit, Refuse, TypeOK
<1>3. ASSUME NEW s \in Reqs, ChainSettles(s) \/ SettlementConfirmed(s)
      PROVE  pc[r] \in {"verify", "settled"}
  BY <1>3 DEF ChainSettles, SettlementConfirmed, TypeOK
<1>4. CASE pc' = pc
  BY <1>4
<1>5. CASE Crash
  BY <1>5 DEF Crash, TypeOK
<1> QED
  BY <1>1, <1>2, <1>3, <1>4, <1>5
  DEF Next, vars, Arrive, ArriveClaim, ArriveUnguarded, Progress, MarkLands, MarkFails,
      BudgetExpires, HourPasses, DayPasses

LEMMA RunsChange ==
  ASSUME AsyncMarks = FALSE, TypeOK, [Next]_vars
  PROVE  /\ usedKeys \subseteq usedKeys'
         /\ \/ ran' = ran
            \/ \E r \in Reqs :
                 /\ pc[r] = "settled" /\ pc' = [pc EXCEPT ![r] = "handler"]
                 /\ ran' = ran \cup {r}
                 /\ Full(r) => req[r].key \in usedKeys'
<1>1. ASSUME NEW r \in Reqs, SettlementConfirmed(r)
      PROVE  /\ usedKeys \subseteq usedKeys'
             /\ pc[r] = "settled" /\ pc' = [pc EXCEPT ![r] = "handler"]
             /\ ran' = ran \cup {r}
             /\ Full(r) => req[r].key \in usedKeys'
  BY <1>1 DEF SettlementConfirmed, Mark, Full, PayKey
<1>2. ASSUME NEW r \in Reqs, MarkLands(r) PROVE usedKeys \subseteq usedKeys' /\ ran' = ran
  BY <1>2 DEF MarkLands, Mark, payments
<1> QED
  BY <1>1, <1>2
  DEF Next, vars, Arrive, Progress, ArriveHit, ArriveBusy, ArriveClaim, ArriveUnguarded,
      AnswerUnpaid, ChainSettles, SettlementLost, HandlerReturns, HandlerFails, Finish,
      MarkFails, BudgetExpires, Crash, HourPasses, DayPasses, marks, payments

LEMMA RunStep ==
  ASSUME AsyncMarks = FALSE, RunInv, [Next]_vars
  PROVE  Consumed' /\ FirstOfKey' /\ HandlerRunsOncePerKey'
<1> USE DEF RunInv, ClaimInv
<1>1. req' = req /\ \A r \in Reqs : Full(r)' = Full(r)
  BY HistoryGrows DEF Full
<1>2. Consumed'
  BY <1>1, RunsChange DEF Consumed, TypeOK
<1>3. ASSUME NEW r \in Reqs, pc'[r] \in {"verify", "settled"}
      PROVE  /\ req[r].signed
             /\ Full(r) => \A s \in ran : Full(s) => req[s].key # req[r].key
  <2>1. CASE pc[r] \in {"verify", "settled"}
    BY <2>1 DEF FirstOfKey
  <2>2. CASE Admission(r) = "verify"
    <3>1. req[r].signed /\ PayKey(r) \notin usedKeys
      BY <2>2 DEF Admission
    <3> QED  BY <3>1 DEF Full, PayKey, Consumed
  <2> QED  BY <1>3, <2>1, <2>2, EntersVerify
<1>4. ASSUME NEW r \in Reqs, pc[r] = "settled", pc' = [pc EXCEPT ![r] = "handler"],
             NEW s \in Reqs, pc'[s] \in {"verify", "settled"}, Full(r), Full(s)
      PROVE  req[r].key # req[s].key
  <2>1. s # r /\ pc[s] = pc'[s]
    BY <1>4 DEF TypeOK
  <2>2. /\ Active(r) /\ Active(s) /\ Guarded(r) /\ Guarded(s)
        /\ PreKey(r) = req[r].key /\ PreKey(s) = req[s].key
    BY <1>4, <2>1 DEF Active, Suspended, Guarded, PreKey, Full, FirstOfKey
  <2> QED  BY <2>1, <2>2 DEF OneInFlightPerKey
<1>5. FirstOfKey'
  <2> SUFFICES ASSUME NEW r \in Reqs, pc'[r] \in {"verify", "settled"}
               PROVE  /\ req'[r].signed
                      /\ Full(r)' => \A s \in ran' : Full(s)' => req'[s].key # req'[r].key
    BY DEF FirstOfKey
  <2>1. \A s \in ran' : s \in ran \/ (s \in Reqs /\ pc[s] = "settled"
                                         /\ pc' = [pc EXCEPT ![s] = "handler"])
    BY RunsChange
  <2> QED  BY <1>1, <1>3, <1>4, <2>1 DEF TypeOK
<1>6. HandlerRunsOncePerKey'
  <2>1. CASE ran' = ran
    BY <1>1, <2>1 DEF HandlerRunsOncePerKey
  <2>2. ASSUME NEW r \in Reqs, pc[r] = "settled", ran' = ran \cup {r}
        PROVE  HandlerRunsOncePerKey'
    BY <1>1, <2>2 DEF HandlerRunsOncePerKey, FirstOfKey, Full
  <2> QED  BY <2>1, <2>2, RunsChange
<1> QED  BY <1>2, <1>5, <1>6

(* With one process and no Redis, an Idempotency-Key buys one run of the   *)
(* core handler, across crashes, expiry of the claim and of the response.  *)
THEOREM OneRunPerKey ==
  ASSUME AsyncMarks = FALSE
  PROVE  Spec => []HandlerRunsOncePerKey
<1>1. Init => RunInv
  BY InitTypes DEF RunInv, ClaimInv, Init, Claims, OneInFlightPerKey, Active, Suspended,
         Consumed, FirstOfKey, HandlerRunsOncePerKey
<1>2. RunInv /\ [Next]_vars => RunInv'
  BY NextTypes, ClaimsStep, RunStep DEF RunInv, ClaimInv
<1>3. RunInv => HandlerRunsOncePerKey
  BY DEF RunInv
<1> QED  BY <1>1, <1>2, <1>3, PTL DEF Spec
-----------------------------------------------------------------------------
(* What an error in the response cache tells: the budget timer had locked  *)
(* the response of the request that stored it.                             *)
ErrorsWereLocked ==
  \A k \in Keys : cache[k] # NoEntry =>
    cache[k].resp.what = "result" \/ cache[k].resp.from \in locked

LEMMA ErrorsStep ==
  ASSUME TypeOK, ErrorsWereLocked, [Next]_vars
  PROVE  ErrorsWereLocked'
<1>1. locked \subseteq locked'
  BY DEF Next, vars, Arrive, Progress, ArriveHit, ArriveBusy, ArriveClaim, ArriveUnguarded,
         AnswerUnpaid, ChainSettles, SettlementLost, SettlementConfirmed, HandlerReturns,
         HandlerFails, Finish, MarkLands, MarkFails, BudgetExpires, Crash, HourPasses, DayPasses
<1> SUFFICES ASSUME NEW k \in Keys, cache'[k] # NoEntry
             PROVE  cache'[k].resp.what = "result" \/ cache'[k].resp.from \in locked
  BY <1>1 DEF ErrorsWereLocked
<1>2. CASE cache[k] # NoEntry /\ cache'[k] \in {cache[k], [cache[k] EXCEPT !.expired = TRUE]}
  <2>1. cache[k] \in Entry
    BY <1>2 DEF TypeOK
  <2>2. cache'[k].resp = cache[k].resp
    BY <1>2, <2>1 DEF Entry
  <2> QED  BY <1>2, <2>2 DEF ErrorsWereLocked
<1>3. ASSUME NEW r \in Reqs, NEW resp \in Answer, resp.from = r,
             resp.what = "result" \/ r \in locked,
             cache' = [cache EXCEPT ![PreKey(r)] =
                         [resp |-> resp, body |-> req[r].body, expired |-> FALSE]]
      PROVE  cache'[k].resp.what = "result" \/ cache'[k].resp.from \in locked
  <2>1. CASE k = PreKey(r)
    BY <1>3, <2>1 DEF TypeOK
  <2>2. CASE k # PreKey(r)
    <3>1. cache'[k] = cache[k]
      BY <1>3, <2>2 DEF TypeOK
    <3> QED  BY <1>2, <3>1
  <2> QED  BY <2>1, <2>2
<1> QED  BY <1>2, <1>3, CacheChanges

(* An error is stored only by a request the budget timer had locked: the   *)
(* locked response keeps status 200 when idempotencyCapture tests it.      *)
THEOREM OnlyTimeoutsStoreErrors == Spec => []ErrorsWereLocked
<1>1. Init => ErrorsWereLocked
  BY DEF Init, ErrorsWereLocked
<1>2. TypeOK /\ ErrorsWereLocked /\ [Next]_vars => ErrorsWereLocked'
  BY ErrorsStep
<1> QED  BY <1>1, <1>2, Typing, PTL DEF Spec

NeverLocked == locked = {}

(* As long as no budget timer fires, every stored response is a result:    *)
(* the status test of idempotencyCapture is enough but for the timer.      *)
THEOREM ResultsAreStored ==
  ASSUME MaxTimeouts = 0
  PROVE  Spec => []CacheHoldsResults
<1>1. Init => NeverLocked
  BY DEF Init, NeverLocked
<1>2. NeverLocked /\ [Next]_vars => NeverLocked'
  <2> SUFFICES ASSUME locked = {}, [Next]_vars PROVE locked' = {}
    BY DEF NeverLocked
  <2>1. Cardinality(locked) = 0
    BY FS_EmptySet
  <2>2. \A r \in Reqs : ~BudgetExpires(r)
    BY <2>1 DEF BudgetExpires
  <2> QED
    BY <2>2 DEF Next, vars, Arrive, Progress, ArriveHit, ArriveBusy, ArriveClaim,
      ArriveUnguarded, AnswerUnpaid, ChainSettles, SettlementLost, SettlementConfirmed,
      HandlerReturns, HandlerFails, Finish, MarkLands, MarkFails, Crash, HourPasses, DayPasses
<1>3. ErrorsWereLocked /\ NeverLocked => CacheHoldsResults
  BY DEF ErrorsWereLocked, NeverLocked, CacheHoldsResults
<1> QED  BY <1>1, <1>2, <1>3, OnlyTimeoutsStoreErrors, PTL DEF Spec
=============================================================================
